--------------------------- MODULE EsefExpansion ---------------------------
(***************************************************************************)
(* What SPAREPIMController::expand_request puts in the operation queue for *)
(* one request, and what it adds to the statistics while doing so.         *)
(*                                                                         *)
(* A request is a record: its type, its base row and column (the address   *)
(* mapper's), the four scratchpad words and the VOC payload (<<>> when the *)
(* trace line has none).                                                   *)
(***************************************************************************)
EXTENDS EsdmMapping, SequencesExt

CONSTANTS
    NumPchs, NumBgs, NumBanks,   \* the geometry of a channel
    nCL, nCCDS, nBL,             \* the device timings the BGMU read uses
    NoRequest                    \* no request: the operation completes none

(* The parameters are ints and bools; a channel has banks.                 *)
ASSUME ConfigAssumption ==
    /\ {Cfg.kt_row_offset, Cfg.kt_col_start, Cfg.v_row_offset, Cfg.v_col_start,
        Cfg.mac_commands_per_token, Cfg.acc_commands_per_token,
        Cfg.spm_fixed_cycles, Cfg.spm_cycles_per_voc, nCL, nCCDS, nBL} \subseteq Int
    /\ {Cfg.enable_esdm, Cfg.enable_qk_act_pre, Cfg.enable_act_spm_pre,
        Cfg.bgmu_read_as_delay} \subseteq BOOLEAN
    /\ NumPchs \in Nat \ {0} /\ NumBgs \in Nat \ {0} /\ NumBanks \in Nat \ {0}

AnyBank == <<-1, -1, -1>>
NoAddr == [path |-> AnyBank, row |-> 0, col |-> 0]

CommandOp(command, addr) ==
    [kind |-> "Command", command |-> command, addr |-> addr, cycles |-> 0, request |-> NoRequest]
DelayOp(cycles) ==
    [kind |-> "Delay", command |-> "none", addr |-> NoAddr, cycles |-> cycles, request |-> NoRequest]
ConfigureSpmOp(cycles) ==
    [kind |-> "ConfigureSPM", command |-> "none", addr |-> NoAddr, cycles |-> cycles, request |-> NoRequest]
CompleteOp(id) ==
    [kind |-> "Complete", command |-> "none", addr |-> NoAddr, cycles |-> 0, request |-> id]

TotalBanks == NumPchs * NumBgs * NumBanks

(* normalize_addr() of the mapper's address, and the two address makers.   *)
BaseAddr(req) ==
    [path |-> req.path, row |-> AtLeast(0, req.row), col |-> AtLeast(0, req.col)]
AllBanks(addr) == [addr EXCEPT !.path = AnyBank]
BankPath(k) ==
    <<k \div (NumBgs * NumBanks), (k % (NumBgs * NumBanks)) \div NumBanks, k % NumBanks>>
AtBank(addr, k) == [addr EXCEPT !.path = BankPath(k)]

Repeat(n, Op(_)) == [i \in 1..AtLeast(0, n) |-> Op(i - 1)]
If(flag, ops) == IF flag THEN ops ELSE <<>>

(* enqueue_per_bank_command(): pseudo channel, bank group, bank, in order. *)
PerBank(command, addr) == Repeat(TotalBanks, LAMBDA k : CommandOp(command, AtBank(addr, k)))

(* What the trace frontend sends: a token, with integers of any sign       *)
(* (sparepim_trace.cpp:125).                                               *)
IsToken(req) ==
    /\ req.type = "spare-pim"
    /\ req.path \in Int \X Int \X Int
    /\ {req.row, req.col, req.max_voc, req.total_voc, req.mac, req.acc} \subseteq Int
    /\ req.vocs \in Seq(Int)

-----------------------------------------------------------------------------
(* Mutant: a value equal to the maximum counts as an update.               *)
ScanVocTies(seen, voc) ==
    LET tmp == AtLeast(0, voc)
    IN  [max     |-> AtLeast(seen.max, tmp),
         total   |-> seen.total + tmp,
         updates |-> seen.updates + IF tmp >= seen.max THEN 1 ELSE 0]

(* read_bgmu_vocs_and_find_max()                                           *)
ScanVoc(seen, voc) ==
    LET tmp == AtLeast(0, voc)
    IN  [max     |-> AtLeast(seen.max, tmp),
         total   |-> seen.total + tmp,
         updates |-> seen.updates + IF tmp > seen.max THEN 1 ELSE 0]

CeilDiv(a, b) == (a + b - 1) \div b

VocSummary(req) ==
    IF req.vocs # <<>>
    THEN LET scan == FoldLeft(ScanVoc, [max |-> 0, total |-> 0, updates |-> 0], req.vocs)
         IN  [max_voc |-> scan.max, total_voc |-> scan.total, max_updates |-> scan.updates,
              bgmu_reads |-> CeilDiv(Len(req.vocs), NumBanks), voc_values |-> Len(req.vocs)]
    ELSE LET max == AtLeast(0, req.max_voc)
         IN  [max_voc |-> max, total_voc |-> AtLeast(0, req.total_voc),
              max_updates |-> IF max > 0 THEN 1 ELSE 0,
              bgmu_reads |-> NumBgs, voc_values |-> NumBgs * NumBanks]

MacCommands(req) == IF req.mac > 0 THEN req.mac ELSE Cfg.mac_commands_per_token
AccCommands(req) == IF req.acc > 0 THEN req.acc ELSE Cfg.acc_commands_per_token

-----------------------------------------------------------------------------
(* enqueue_qk_stage(): per row, open it in every bank, one MAC per column, *)
(* close it.                                                               *)
QkRow(base, chunk) ==
    LET column == Cfg.kt_col_start + chunk.first
        row    == EsdmAddr(base, Cfg.kt_row_offset, column)
    IN  If(Cfg.enable_qk_act_pre, PerBank("ACT", row))
        \o Repeat(chunk.len, LAMBDA i : CommandOp("MAC",
               AllBanks(EsdmAddr(base, Cfg.kt_row_offset, column + i))))
        \o If(Cfg.enable_qk_act_pre, PerBank("PRE", row))

QkChunks(macs) == Chunks(Cfg.kt_col_start, macs)
PvChunks(voc) == Chunks(Cfg.v_col_start, voc)

QkStage(base, macs) ==
    IF ~Cfg.enable_esdm
    THEN Repeat(macs, LAMBDA i : CommandOp("MAC", AllBanks(base)))
    ELSE FlattenSeq([k \in 1..Len(QkChunks(macs)) |-> QkRow(base, QkChunks(macs)[k])])

ElemaxStage(base) ==
    LET addr == AllBanks(EsdmAddr(base, Cfg.kt_row_offset, Cfg.kt_col_start))
    IN  <<CommandOp("MOV", addr), CommandOp("EMUL", addr)>>

(* enqueue_bgmu_read_delay()                                               *)
BgmuReads(summary) == AtLeast(1, summary.bgmu_reads)
BgmuLatency(summary) == nCL + (BgmuReads(summary) - 1) * nCCDS + nBL
BgmuStage(summary) ==
    If(Cfg.bgmu_read_as_delay, <<DelayOp(AtLeast(1, BgmuLatency(summary)))>>)

(* enqueue_sparse_pv_stage(): set the latency, open the row in every bank, *)
(* one all-bank SPM, close it.                                             *)
SpmLatency(voc) == AtLeast(1, Cfg.spm_fixed_cycles + voc * Cfg.spm_cycles_per_voc)

(* Mutant: the rows are closed before the SPM is issued.                   *)
PvRowClosedEarly(row, voc) ==
    <<ConfigureSpmOp(SpmLatency(voc))>>
    \o If(Cfg.enable_act_spm_pre, PerBank("ACT", row) \o PerBank("PRE", row))
    \o <<CommandOp("SPM", AllBanks(row))>>

PvRow(row, voc) ==
    <<ConfigureSpmOp(SpmLatency(voc))>>
    \o If(Cfg.enable_act_spm_pre, PerBank("ACT", row))
    \o <<CommandOp("SPM", AllBanks(row))>>
    \o If(Cfg.enable_act_spm_pre, PerBank("PRE", row))

(* Mutant: every row is charged the whole VOC of the token.                *)
PvStageWholeVoc(base, maxVoc) ==
    IF ~Cfg.enable_esdm THEN PvRow(base, maxVoc)
    ELSE FlattenSeq([k \in 1..Len(PvChunks(maxVoc)) |->
             PvRow(EsdmAddr(base, Cfg.v_row_offset, Cfg.v_col_start + PvChunks(maxVoc)[k].first),
                   maxVoc)])

PvStage(base, maxVoc) ==
    IF ~Cfg.enable_esdm THEN PvRow(base, maxVoc)
    ELSE FlattenSeq([k \in 1..Len(PvChunks(maxVoc)) |->
             LET chunk == PvChunks(maxVoc)[k]
             IN  PvRow(EsdmAddr(base, Cfg.v_row_offset, Cfg.v_col_start + chunk.first), chunk.len)])

(* ACC visits the banks round robin (make_acc_addr).                       *)
AccStage(base, accs) ==
    Repeat(accs, LAMBDA i : CommandOp("ACC", AtBank(base, i % TotalBanks)))

(* Mutant: ACC is enqueued before the sparse PV stage.                     *)
TokenOpsAccFirst(id, req) ==
    QkStage(BaseAddr(req), MacCommands(req))
    \o ElemaxStage(BaseAddr(req))
    \o BgmuStage(VocSummary(req))
    \o If(VocSummary(req).max_voc # 0,
          AccStage(BaseAddr(req), AccCommands(req)) \o PvStage(BaseAddr(req), VocSummary(req).max_voc))
    \o <<CompleteOp(id)>>

(* expand_sparepim_token(): a token whose largest VOC is 0 completes after *)
(* the BGMU read, without SPM and without ACC.                             *)
TokenOps(id, req) ==
    LET base    == BaseAddr(req)
        summary == VocSummary(req)
    IN  QkStage(base, MacCommands(req))
        \o ElemaxStage(base)
        \o BgmuStage(summary)
        \o If(summary.max_voc # 0,
              PvStage(base, summary.max_voc) \o AccStage(base, AccCommands(req)))
        \o <<CompleteOp(id)>>

(* expand_direct_request(): the command of the request's type, unguarded.  *)
DirectCommand(type) ==
    CASE type = "read" -> "RD" [] type = "write" -> "WR" [] type = "mac" -> "MAC"
      [] type = "emul" -> "EMUL" [] type = "mov" -> "MOV" [] type = "spm" -> "SPM"
      [] type = "acc" -> "ACC" [] type = "all-bank-refresh" -> "REFab"
DirectOps(id, req) ==
    <<CommandOp(DirectCommand(req.type), BaseAddr(req)), CompleteOp(id)>>

Expand(id, req) ==
    IF req.type = "spare-pim" THEN TokenOps(id, req) ELSE DirectOps(id, req)

-----------------------------------------------------------------------------
(* What expand_sparepim_token() and the stages it calls add to the         *)
(* counters; a direct request adds nothing.                                *)
ExpansionStats ==
    {"tokens", "total_voc", "max_voc_sum", "max_updates", "bgmu_reads", "voc_values",
     "bgmu_read_cycles", "spm_cycles", "skipped_spm", "skipped_act_pre",
     "qk_rows", "qk_page_hits", "pv_rows", "pv_page_hits"}

(* Mutant: the column that opens the row counts as a hit.                  *)
HitsOfEveryColumn(chunks) == FoldLeft(LAMBDA sum, c : sum + c.len, 0, chunks)

HitsOf(chunks) == FoldLeft(LAMBDA sum, c : sum + c.len - 1, 0, chunks)
SumOf(values) == FoldLeft(LAMBDA a, b : a + b, 0, values)
SpmCyclesOf(chunks) == SumOf([k \in 1..Len(chunks) |-> SpmLatency(chunks[k].len)])

TokenStats(req) ==
    LET summary == VocSummary(req)
        max     == summary.max_voc
        qk      == IF Cfg.enable_esdm THEN QkChunks(MacCommands(req)) ELSE <<>>
        pv      == IF Cfg.enable_esdm THEN PvChunks(max) ELSE <<>>
    IN  [tokens |-> 1,
         total_voc |-> IF summary.total_voc = 0 THEN max ELSE summary.total_voc,
         max_voc_sum |-> max,
         max_updates |-> summary.max_updates,
         bgmu_reads |-> BgmuReads(summary),
         voc_values |-> IF summary.voc_values > 0 THEN summary.voc_values
                        ELSE BgmuReads(summary) * NumBanks,
         bgmu_read_cycles |-> BgmuLatency(summary),
         spm_cycles |-> IF Cfg.enable_esdm THEN SpmCyclesOf(pv)
                        ELSE IF max = 0 THEN 0 ELSE SpmLatency(max),
         skipped_spm |-> IF max = 0 THEN 1 ELSE 0,
         skipped_act_pre |-> IF max = 0 /\ Cfg.enable_act_spm_pre THEN 2 * TotalBanks ELSE 0,
         qk_rows |-> Len(qk), qk_page_hits |-> HitsOf(qk),
         pv_rows |-> Len(pv), pv_page_hits |-> HitsOf(pv)]

StatsOf(req) ==
    IF req.type = "spare-pim" THEN TokenStats(req) ELSE [k \in ExpansionStats |-> 0]

-----------------------------------------------------------------------------
(* What the system that issues the operations relies on.                   *)

(* The operation is the command, and its address covers the bank.          *)
Reaches(op, cmd, bank) ==
    /\ op.kind = "Command" /\ op.command = cmd
    /\ \A n \in 1..3 : op.addr.path[n] \in {-1, bank[n]}

(* The rows of a bank that the first k operations leave open, if it was    *)
(* closed before them: those of an ACT that no PRE follows.                *)
Opened(ops, bank, k) ==
    {ops[j].addr.row : j \in {j \in 1..k :
        /\ Reaches(ops[j], "ACT", bank)
        /\ \A i \in j + 1..k : ~Reaches(ops[i], "PRE", bank)}}

(* Every ACT meets closed banks and every PRE exactly the row it closes,   *)
(* no other command moves rows, and nothing stays open.                    *)
BracketsRows(ops, banks) ==
    /\ \A i \in 1..Len(ops) : ops[i].command \notin {"PREA", "RDA", "WRA"}
    /\ \A bank \in banks :
         /\ \A i \in 1..Len(ops) :
              /\ Reaches(ops[i], "ACT", bank) => Opened(ops, bank, i - 1) = {}
              /\ Reaches(ops[i], "PRE", bank) => Opened(ops, bank, i - 1) = {ops[i].addr.row}
         /\ Opened(ops, bank, Len(ops)) = {}

(* MAC and SPM find the row they address open in every bank.  Without ESDM *)
(* the QK stage opens no row.                                              *)
UsesOpenRow(op) ==
    /\ op.kind = "Command"
    /\ \/ op.command = "MAC" /\ Cfg.enable_esdm /\ Cfg.enable_qk_act_pre
       \/ op.command = "SPM" /\ Cfg.enable_act_spm_pre

ComputesOnOpened(ops, banks) ==
    \A i \in 1..Len(ops), bank \in banks :
        UsesOpenRow(ops[i]) => Opened(ops, bank, i - 1) = {ops[i].addr.row}

(* The page-hit counters against the number of commands: one MAC per row   *)
(* or hit of K^T, one SPM per row of V, and an ACT and a PRE of every bank *)
(* per opened row.                                                         *)
Number(ops, cmd) ==
    Cardinality({i \in 1..Len(ops) : ops[i].kind = "Command" /\ ops[i].command = cmd})

PageCommands == {"MAC", "SPM", "ACT", "PRE"}

CountersMatch(number, counters) ==
    LET opened == TotalBanks * ( (IF Cfg.enable_qk_act_pre THEN counters.qk_rows ELSE 0)
                               + (IF Cfg.enable_act_spm_pre THEN counters.pv_rows ELSE 0) )
    IN  Cfg.enable_esdm =>
          /\ number["MAC"] = counters.qk_rows + counters.qk_page_hits
          /\ number["SPM"] = counters.pv_rows
          /\ counters.pv_rows + counters.pv_page_hits = counters.max_voc_sum
          /\ number["ACT"] = opened
          /\ number["PRE"] = opened

-----------------------------------------------------------------------------
(* What the numbers in an expansion should be.                             *)

(* The BGMU scan finds the maximum and the sum of the clamped counts,      *)
(* counts one update for each value above all earlier ones, and reads as   *)
(* many register groups as the list fills, the last one perhaps partly.    *)
ScanFindsVocs(req) ==
    req.vocs # <<>> =>
        LET value   == [i \in 1..Len(req.vocs) |-> AtLeast(0, req.vocs[i])]
            summary == VocSummary(req)
        IN  /\ summary.max_voc = Max({value[i] : i \in DOMAIN value})
            /\ summary.total_voc = SumOf(value)
            /\ summary.max_updates = Cardinality({i \in DOMAIN value :
                   value[i] > 0 /\ \A j \in 1..(i - 1) : value[j] < value[i]})
            /\ summary.bgmu_reads * NumBanks >= Len(req.vocs)
            /\ (summary.bgmu_reads - 1) * NumBanks < Len(req.vocs)

CommandsIn(ops, cmd) == {i \in 1..Len(ops) : ops[i].kind = "Command" /\ ops[i].command = cmd}
ConfiguresIn(ops) == {i \in 1..Len(ops) : ops[i].kind = "ConfigureSPM"}
CyclesConfigured(ops) ==
    SumOf([i \in 1..Len(ops) |-> IF ops[i].kind = "ConfigureSPM" THEN ops[i].cycles ELSE 0])

(* Each SPM runs under a latency configured for it alone, and the          *)
(* latencies of a token are those the statistics count.  They add up to    *)
(* its largest VOC, however it is split over rows, plus the fixed cycles   *)
(* of every SPM, when no latency is raised to the least one of a cycle.    *)
NextTo(k, i, ops) == k < i /\ \A j \in k + 1..i - 1 : j \notin CommandsIn(ops, "SPM") \cup ConfiguresIn(ops)

LatenciesAddUp(ops, req) ==
    /\ \A i \in CommandsIn(ops, "SPM") : \E k \in ConfiguresIn(ops) : NextTo(k, i, ops)
    /\ \A k \in ConfiguresIn(ops) : \E i \in CommandsIn(ops, "SPM") : NextTo(k, i, ops)
    /\ CyclesConfigured(ops) = StatsOf(req).spm_cycles
    /\ /\ Cfg.spm_fixed_cycles >= 0 /\ Cfg.spm_cycles_per_voc >= 0
       /\ Cfg.spm_fixed_cycles + Cfg.spm_cycles_per_voc > 0
       => CyclesConfigured(ops) = Number(ops, "SPM") * Cfg.spm_fixed_cycles
                                    + VocSummary(req).max_voc * Cfg.spm_cycles_per_voc

(* When a row of the ESDM mapping fits a row of the device, no column lies *)
(* before the first, and neither run is longer than the bank ...           *)
Fits(req) ==
    /\ Cfg.enable_esdm /\ ColumnsPerRow <= NumCols
    /\ Cfg.kt_col_start >= 0 /\ Cfg.v_col_start >= 0
    /\ Cfg.kt_col_start + MacCommands(req) <= NumRows * ColumnsPerRow
    /\ Cfg.v_col_start + VocSummary(req).max_voc <= NumRows * ColumnsPerRow

(* ... no two MACs of a token read the same column of K^T, and if the rows *)
(* of V begin after the last row of K^T, and do not wrap into its first,   *)
(* no SPM runs on a row that a MAC reads.                                  *)
RowsOf(start, count) == CeilDiv(start + count, ColumnsPerRow)
ColumnsApart(ops, req) ==
    Fits(req) =>
        /\ \A i, j \in CommandsIn(ops, "MAC") :
              ops[i].addr.row = ops[j].addr.row /\ ops[i].addr.col = ops[j].addr.col => i = j
        /\ /\ Cfg.kt_row_offset + RowsOf(Cfg.kt_col_start, MacCommands(req)) <= Cfg.v_row_offset
           /\ Cfg.v_row_offset + RowsOf(Cfg.v_col_start, VocSummary(req).max_voc)
                 <= Cfg.kt_row_offset + NumRows
           => \A i \in CommandsIn(ops, "MAC"), j \in CommandsIn(ops, "SPM") :
                 ops[i].addr.row # ops[j].addr.row

-----------------------------------------------------------------------------
(* The stages the documents name, for the work a token brings.             *)
StageNames == {"qk", "elemax", "bgmu", "pv", "acc"}

StagesOf(req) ==
    If(MacCommands(req) > 0, <<"qk">>)
    \o <<"elemax">>
    \o If(Cfg.bgmu_read_as_delay, <<"bgmu">>)
    \o If(VocSummary(req).max_voc > 0, <<"pv">>)
    \o If(VocSummary(req).max_voc > 0 /\ AccCommands(req) > 0, <<"acc">>)

(* The stage the head of the operation queue belongs to.  ACT and PRE      *)
(* serve K^T as long as the Elemax stage is still to come, then V.         *)
HeadStage(ops) ==
    CASE Head(ops).command = "MAC" -> "qk"
      [] Head(ops).command \in {"MOV", "EMUL"} -> "elemax"
      [] Head(ops).kind = "Delay" -> "bgmu"
      [] Head(ops).command = "ACC" -> "acc"
      [] Head(ops).kind = "Complete" -> "complete"
      [] Head(ops).command \in {"ACT", "PRE"}
         /\ \E i \in 1..Len(ops) : ops[i].command = "MOV" -> "qk"
      [] OTHER -> "pv"

From(ops, k) == SubSeq(ops, k, Len(ops))

(* The stages that operations still to be handled have not left yet: from  *)
(* the stage of their head on.                                             *)
StagesLeft(ops, stages) ==
    LET at == {i \in 1..Len(stages) : stages[i] = HeadStage(ops)}
    IN  IF at = {} THEN <<>> ELSE From(stages, Min(at))

(* The operations begin in the first stage, and one after the other they   *)
(* stay in a stage or pass on to the next, until all are left and the last *)
(* operation completes the request.                                        *)
FollowsStages(ops, stages) ==
    /\ stages \in Seq(StageNames)
    /\ Len(ops) > 1
    /\ StagesLeft(ops, stages) = stages
    /\ \A k \in 1..(Len(ops) - 1) :
          \/ StagesLeft(From(ops, k + 1), stages) = StagesLeft(From(ops, k), stages)
          \/ /\ StagesLeft(From(ops, k), stages) # <<>>
             /\ StagesLeft(From(ops, k + 1), stages) = Tail(StagesLeft(From(ops, k), stages))
    /\ StagesLeft(From(ops, Len(ops)), stages) = <<>>
=============================================================================
