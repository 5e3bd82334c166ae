------------------------------- MODULE EsefTokens -------------------------------
(***************************************************************************)
(* The way of one trace line through the simulator, under every            *)
(* configuration of a set: the frontend parses and validates it, sends it, *)
(* and the controller expands it.  What EsefTrace and EsefExpansion        *)
(* compute, against what they should.                                      *)
(***************************************************************************)
EXTENDS Integers, Sequences

CONSTANTS
    FrontendConfigs, Configs,   \* parameters of the frontend and of the controller
    Lines,                      \* trace lines
    Place,                      \* where the address mapper puts the token
    NumRows, NumCols, NumPchs, NumBgs, NumBanks, nCL, nCCDS, nBL, NoRequest

(* A line in its form, and the parameters by their types in the code.      *)
Forms == {"VOC", "TOKEN list", "TOKEN", "bare", "VOC alone", "fixed"}

ASSUME TokensAssumption ==
    /\ FrontendConfigs \subseteq
          [validate_voc_count : BOOLEAN, expected_voc_count : Int, max_voc_per_bpu : Int,
           fsu_width : Int, d_head : Int, mac_commands_per_token : Int,
           acc_commands_per_token : Int]
    /\ Configs \subseteq
          [enable_esdm : BOOLEAN, enable_qk_act_pre : BOOLEAN, enable_act_spm_pre : BOOLEAN,
           bgmu_read_as_delay : BOOLEAN, esdm_columns_per_row : Int,
           kt_row_offset : Int, kt_col_start : Int, v_row_offset : Int, v_col_start : Int,
           mac_commands_per_token : Int, acc_commands_per_token : Int,
           spm_fixed_cycles : Int, spm_cycles_per_voc : Int]
    /\ Lines \subseteq [form : Forms, vocs : Seq(Int), numbers : Seq(Int)]
    /\ \A l \in Lines : l.form = "fixed" => Len(l.numbers) = 2
    /\ Place \in [path : Int \X Int \X Int, row : Int, col : Int]
    /\ {NumRows, NumCols, NumPchs, NumBgs, NumBanks} \subseteq Nat \ {0}
    /\ {nCL, nCCDS, nBL} \subseteq Int

VARIABLES
    front, cfg,   \* the configurations
    line,         \* the line
    stage,        \* "read", "parsed", "ready", "expanded", or "rejected"
    trace         \* the Trace record, once the line is parsed

vars == <<front, cfg, line, stage, trace>>

F == INSTANCE EsefTrace WITH Params <- front
E == INSTANCE EsefExpansion WITH Cfg <- cfg

NoTrace == F!CompactTrace(0, 0, 0, 0)

Init ==
    /\ front \in FrontendConfigs /\ cfg \in Configs
    /\ line \in Lines
    /\ stage = "read" /\ trace = NoTrace

(* init() reads the trace, setup() validates it.                           *)
ReadLine ==
    /\ stage = "read"
    /\ IF F!Malformed(line)
       THEN stage' = "rejected" /\ UNCHANGED trace
       ELSE stage' = "parsed" /\ trace' = F!ParseLine(line)
    /\ UNCHANGED <<front, cfg, line>>

Validate ==
    /\ stage = "parsed"
    /\ stage' = IF F!Valid(trace) THEN "ready" ELSE "rejected"
    /\ UNCHANGED <<front, cfg, line, trace>>

(* tick() sends the request, and the controller expands it.                *)
Req == F!RequestOf(trace, Place)

ExpandToken ==
    /\ stage = "ready"
    /\ stage' = "expanded"
    /\ UNCHANGED <<front, cfg, line, trace>>

(* What the request has expanded to.                                       *)
ops == IF stage = "expanded" THEN E!Expand(1, Req) ELSE <<>>

Next == ReadLine \/ Validate \/ ExpandToken

Spec == Init /\ [][Next]_vars

Summary == E!VocSummary(Req)

-----------------------------------------------------------------------------
(* The BGMU scan finds the counts of the list.  A token that passes the    *)
(* validation keeps the controller within what the geometry promises: no   *)
(* SPM is longer than the widest FSU allows, the list of as many values as *)
(* there are banks fills the register groups of one pseudo channel         *)
(* exactly, and the two sides count the same maximum and total.            *)
ValidatedVocsFit ==
    stage = "expanded" =>
        /\ cfg.spm_cycles_per_voc >= 0 =>
              \A i \in E!ConfiguresIn(ops) :
                  ops[i].cycles <= E!SpmLatency(F!Frontend.max_voc_per_bpu)
        /\ F!Frontend.validate_voc_count /\ F!Frontend.expected_voc_count = NumBgs * NumBanks =>
              /\ Summary.bgmu_reads * NumBanks = F!Frontend.expected_voc_count
              /\ Summary.voc_values = F!Frontend.expected_voc_count
        /\ Summary.max_voc = trace.max_voc
        /\ E!StatsOf(Req).total_voc >= trace.max_voc
        /\ trace.total_voc > 0 => E!StatsOf(Req).total_voc = trace.total_voc

(* The page-hit counters of the token count the commands it expands to.    *)
PageHitsCounted ==
    stage = "expanded" =>
        E!CountersMatch([c \in E!PageCommands |-> E!Number(ops, c)], E!StatsOf(Req))

VocsCountedRight == E!ScanFindsVocs(Req) /\ ValidatedVocsFit /\ PageHitsCounted

(* Every ACT meets a closed bank and every PRE the row it closes; MAC and  *)
(* SPM find the addressed row open in every bank, and nothing stays open.  *)
BankPaths == {E!BankPath(k) : k \in 0..(E!TotalBanks - 1)}
RowsFollowProtocol == E!BracketsRows(ops, BankPaths) /\ E!ComputesOnOpened(ops, BankPaths)

(* The operations go through the stages of ESEF in order, each stage the   *)
(* token has once and no other.                                            *)
OpsFollowProtocol ==
    RowsFollowProtocol /\ (ops # <<>> => E!FollowsStages(ops, E!StagesOf(Req)))

(* Each SPM runs under a latency configured for it alone, and together     *)
(* they take the largest VOC and the fixed cycles of every SPM.            *)
SpmLatenciesAddUp == ops # <<>> => E!LatenciesAddUp(ops, Req)

(* No two MACs of a token read the same column, and no SPM runs on a row   *)
(* that a MAC reads, where the regions lie apart.                          *)
PlacesApart == E!ColumnsApart(ops, Req)
=============================================================================
