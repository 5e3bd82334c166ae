------------------------------- MODULE EsefTrace -------------------------------
(***************************************************************************)
(* How SPAREPIMTrace (src/frontend/impl/sparepim/sparepim_trace.cpp) turns *)
(* a line of its input into a token: parse_trace_line, validate_trace and  *)
(* the request tick() builds from it.                                      *)
(*                                                                         *)
(* A line is a record: its form, the entries of its VOC list (<<>> for the *)
(* forms without one) and the integers written beside the list.            *)
(*   "VOC"        VOC v,v,.. [addr] [mac] [acc]                            *)
(*   "TOKEN list" TOKEN layer head batch q_idx v,v,.. [mac] [acc]          *)
(*   "TOKEN"      TOKEN max_voc total_voc [addr] [mac] [acc]               *)
(*   "bare"       max_voc total_voc [addr] [mac] [acc]                     *)
(*   "VOC alone"  VOC with nothing behind it                               *)
(*   "fixed"      no input: the parameters fixed_max_voc, fixed_total_voc  *)
(* Addresses are left to the address mapper; a token keeps its position.   *)
(***************************************************************************)
EXTENDS Integers, Sequences, SequencesExt

CONSTANTS
    Params,           \* the frontend's parameters, a record with the code's names
    NumBgs, NumBanks  \* the device's bank groups, and the banks of one

NonNegative(n) == IF n < 0 THEN 0 ELSE n
AtLeastOne(n) == IF n < 1 THEN 1 ELSE n
Field(numbers, k, default) == IF k <= Len(numbers) THEN numbers[k] ELSE default

(* Parameters that are not set follow from the others and the device.      *)
Frontend ==
    LET width == AtLeastOne(Params.fsu_width)
    IN  [Params EXCEPT
          !.mac_commands_per_token =
              IF @ >= 0 THEN @
              ELSE IF Params.d_head > 0 THEN (Params.d_head + width - 1) \div width ELSE 0,
          !.max_voc_per_bpu = IF @ > 0 THEN @ ELSE width,
          !.expected_voc_count =
              IF @ > 0 THEN @ ELSE AtLeastOne(NumBgs) * AtLeastOne(NumBanks)]

(* parse_voc_list() clamps every entry.                                    *)
VocList(line) == [i \in 1..Len(line.vocs) |-> NonNegative(line.vocs[i])]

(* make_trace_from_vocs(), and the compact forms.                          *)
TraceFromVocs(vocs, mac, acc) ==
    [max_voc |-> Max({0} \cup Range(vocs)),
     total_voc |-> FoldLeft(LAMBDA a, b : a + b, 0, vocs),
     mac |-> mac, acc |-> acc, voc_count |-> Len(vocs), vocs |-> vocs]
CompactTrace(max, total, mac, acc) ==
    [max_voc |-> NonNegative(max), total_voc |-> NonNegative(total),
     mac |-> mac, acc |-> acc, voc_count |-> 0, vocs |-> <<>>]

FixedTrace(max, total) ==
    CompactTrace(max, IF total >= 0 THEN total ELSE max,
                 Frontend.mac_commands_per_token, Frontend.acc_commands_per_token)

(* A line with too few fields stops the program.                           *)
Malformed(line) ==
    \/ line.form = "VOC alone"
    \/ line.form \in {"TOKEN", "bare"} /\ Len(line.numbers) < 2

ParseLine(line) ==
    LET mac(k) == Field(line.numbers, k, Frontend.mac_commands_per_token)
        acc(k) == Field(line.numbers, k, Frontend.acc_commands_per_token)
    IN  CASE line.form = "VOC"        -> TraceFromVocs(VocList(line), mac(2), acc(3))
          [] line.form = "TOKEN list" -> TraceFromVocs(VocList(line), mac(1), acc(2))
          [] line.form = "fixed" -> FixedTrace(line.numbers[1], line.numbers[2])
          [] OTHER -> CompactTrace(line.numbers[1], line.numbers[2], mac(4), acc(5))

(* Mutant: a list of any length is accepted.                               *)
ValidAnyCount(trace) ==
    /\ trace.max_voc <= Frontend.max_voc_per_bpu
    /\ trace.total_voc > 0 => trace.max_voc <= trace.total_voc
    /\ trace.total_voc <= Frontend.expected_voc_count * Frontend.max_voc_per_bpu

(* validate_trace(): a token that fails stops the program.                 *)
Valid(trace) ==
    /\ Frontend.validate_voc_count /\ trace.voc_count > 0 =>
          trace.voc_count = Frontend.expected_voc_count
    /\ trace.max_voc <= Frontend.max_voc_per_bpu
    /\ trace.total_voc > 0 => trace.max_voc <= trace.total_voc
    /\ trace.total_voc <= Frontend.expected_voc_count * Frontend.max_voc_per_bpu

(* The request of tick(): the scratchpad words, and the list if there is   *)
(* one as the payload.  The place is the address mapper's.                 *)
RequestOf(trace, place) ==
    [type |-> "spare-pim", path |-> place.path, row |-> place.row, col |-> place.col,
     vocs |-> trace.vocs, max_voc |-> trace.max_voc, total_voc |-> trace.total_voc,
     mac |-> trace.mac, acc |-> trace.acc]
=============================================================================
