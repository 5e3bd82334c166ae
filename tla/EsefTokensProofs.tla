--------------------------- MODULE EsefTokensProofs ---------------------------
(***************************************************************************)
(* The invariants of EsefTokens, for every line, configuration and         *)
(* geometry, from the theorems about the expansion of any token; and of    *)
(* EsdmFunctional, the values the tokens compute.                          *)
(***************************************************************************)
EXTENDS EsefTokens, EsdmFunctional, TLAPS

X == INSTANCE ExpansionProofs WITH Cfg <- cfg

-----------------------------------------------------------------------------
(* E and X are the same expansion.                                         *)
LEMMA SameEsdmAddr == \A b, r, c : E!EsdmAddr(b, r, c) = X!EsdmAddr(b, r, c)
BY Zenon DEF E!AtLeast, E!ColumnsPerRow, E!EsdmAddr, E!EsdmCol, E!EsdmRow,
       E!Remainder, X!AtLeast, X!ColumnsPerRow, X!EsdmAddr, X!EsdmCol,
       X!EsdmRow, X!Remainder

LEMMA SameFlattenSeq == \A s : E!FlattenSeq(s) = X!FlattenSeq(s)
BY Zenon DEF E!FlattenSeq, X!FlattenSeq

LEMMA SameQkChunks == \A n : E!QkChunks(n) = X!QkChunks(n)
BY Zenon DEF E!AtLeast, E!ChunkLength, E!Chunks, E!ColumnsPerRow, E!From,
       E!QkChunks, E!Remainder, E!Smaller, X!AtLeast, X!ChunkLength,
       X!Chunks, X!ColumnsPerRow, X!From, X!QkChunks, X!Remainder, X!Smaller

LEMMA SamePvChunks == \A n : E!PvChunks(n) = X!PvChunks(n)
BY Zenon DEF E!AtLeast, E!ChunkLength, E!Chunks, E!ColumnsPerRow, E!From,
       E!PvChunks, E!Remainder, E!Smaller, X!AtLeast, X!ChunkLength,
       X!Chunks, X!ColumnsPerRow, X!From, X!PvChunks, X!Remainder, X!Smaller

LEMMA SameAtLeast == \A a, b : E!AtLeast(a, b) = X!AtLeast(a, b)
BY Zenon DEF E!AtLeast, X!AtLeast

LEMMA SameIf == \A flag, s : E!If(flag, s) = X!If(flag, s)
BY Zenon DEF E!If, X!If

LEMMA SamePerBank == \A c, a : E!PerBank(c, a) = X!PerBank(c, a)
BY Zenon DEF E!AtBank, E!AtLeast, E!BankPath, E!CommandOp, E!PerBank, E!Repeat, E!TotalBanks,
       X!AtBank, X!AtLeast, X!BankPath, X!CommandOp, X!PerBank, X!Repeat, X!TotalBanks

LEMMA SameQkRow == \A b, c : E!QkRow(b, c) = X!QkRow(b, c)
<1> SUFFICES ASSUME NEW b, NEW c PROVE E!QkRow(b, c) = X!QkRow(b, c)
  OBVIOUS
<1> DEFINE flag == cfg.enable_qk_act_pre
           EA(i) == E!EsdmAddr(b, cfg.kt_row_offset, cfg.kt_col_start + c.first + i)
           XA(i) == X!EsdmAddr(b, cfg.kt_row_offset, cfg.kt_col_start + c.first + i)
           EM(i) == E!CommandOp("MAC", E!AllBanks(EA(i)))
           XM(i) == X!CommandOp("MAC", X!AllBanks(XA(i)))
           er == E!EsdmAddr(b, cfg.kt_row_offset, cfg.kt_col_start + c.first)
           xr == X!EsdmAddr(b, cfg.kt_row_offset, cfg.kt_col_start + c.first)
           e == [i \in 1..E!AtLeast(0, c.len) |-> EM(i - 1)]
           x == [i \in 1..X!AtLeast(0, c.len) |-> XM(i - 1)]
<1>1. er = xr /\ \A i : EA(i) = XA(i)
  BY SameEsdmAddr, Zenon
<1>2. E!QkRow(b, c) = E!If(flag, E!PerBank("ACT", er)) \o e \o E!If(flag, E!PerBank("PRE", er))
  BY Zenon DEF E!QkRow, E!Repeat
<1>3. X!QkRow(b, c) = X!If(flag, X!PerBank("ACT", xr)) \o x \o X!If(flag, X!PerBank("PRE", xr))
  BY Zenon DEF X!QkRow, X!Repeat
<1> HIDE DEF EA, XA, er, xr
<1>4. \A i : EM(i) = XM(i)
  <2>1. \A a, o : E!AllBanks(a) = X!AllBanks(a) /\ E!CommandOp(o, a) = X!CommandOp(o, a)
    BY Zenon DEF E!AllBanks, E!AnyBank, E!CommandOp, X!AllBanks, X!AnyBank, X!CommandOp
  <2> QED
    BY <1>1, <2>1, Zenon
<1> HIDE DEF EM, XM
<1>5. e = x
  BY <1>4, SameAtLeast
<1> HIDE DEF e, x
<1>6. E!PerBank("ACT", er) = X!PerBank("ACT", xr) /\ E!PerBank("PRE", er) = X!PerBank("PRE", xr)
  BY <1>1, SamePerBank, Zenon
<1>7. /\ E!If(flag, E!PerBank("ACT", er)) = X!If(flag, X!PerBank("ACT", xr))
      /\ E!If(flag, E!PerBank("PRE", er)) = X!If(flag, X!PerBank("PRE", xr))
  BY <1>6, SameIf, Zenon
<1> QED
  BY <1>2, <1>3, <1>5, <1>7, Zenon

LEMMA SamePvRow == \A r, v : E!PvRow(r, v) = X!PvRow(r, v)
BY Zenon DEF E!AllBanks, E!AnyBank, E!AtBank, E!AtLeast, E!BankPath,
       E!CommandOp, E!ConfigureSpmOp, E!If, E!NoAddr, E!PerBank, E!PvRow,
       E!Repeat, E!SpmLatency, E!TotalBanks, X!AllBanks, X!AnyBank,
       X!AtBank, X!AtLeast, X!BankPath, X!CommandOp, X!ConfigureSpmOp, X!If,
       X!NoAddr, X!PerBank, X!PvRow, X!Repeat, X!SpmLatency, X!TotalBanks

LEMMA SameVocSummary == \A req : E!VocSummary(req) = X!VocSummary(req)
BY Zenon DEF E!AtLeast, E!CeilDiv, E!FoldLeft, E!MapThenFoldSet, E!Max,
       E!ScanVoc, E!VocSummary, X!AtLeast, X!CeilDiv, X!FoldLeft,
       X!MapThenFoldSet, X!Max, X!ScanVoc, X!VocSummary

LEMMA SameElemaxStage == \A b : E!ElemaxStage(b) = X!ElemaxStage(b)
BY Zenon DEF E!AllBanks, E!AnyBank, E!AtLeast, E!ColumnsPerRow, E!CommandOp,
       E!ElemaxStage, E!EsdmAddr, E!EsdmCol, E!EsdmRow, E!Remainder,
       X!AllBanks, X!AnyBank, X!AtLeast, X!ColumnsPerRow, X!CommandOp,
       X!ElemaxStage, X!EsdmAddr, X!EsdmCol, X!EsdmRow, X!Remainder

LEMMA SameBgmuStage == \A s : E!BgmuStage(s) = X!BgmuStage(s)
BY Zenon DEF E!AnyBank, E!AtLeast, E!BgmuLatency, E!BgmuReads, E!BgmuStage,
       E!DelayOp, E!If, E!NoAddr, X!AnyBank, X!AtLeast, X!BgmuLatency,
       X!BgmuReads, X!BgmuStage, X!DelayOp, X!If, X!NoAddr

LEMMA SameAccStage == \A b, n : E!AccStage(b, n) = X!AccStage(b, n)
BY Zenon DEF E!AccStage, E!AtBank, E!AtLeast, E!BankPath, E!CommandOp,
       E!Repeat, E!TotalBanks, X!AccStage, X!AtBank, X!AtLeast, X!BankPath,
       X!CommandOp, X!Repeat, X!TotalBanks

LEMMA SameDirectOps == \A i, req : E!DirectOps(i, req) = X!DirectOps(i, req)
BY Zenon DEF E!AnyBank, E!AtLeast, E!BaseAddr, E!CommandOp, E!CompleteOp,
       E!DirectCommand, E!DirectOps, E!NoAddr, X!AnyBank, X!AtLeast,
       X!BaseAddr, X!CommandOp, X!CompleteOp, X!DirectCommand, X!DirectOps,
       X!NoAddr

LEMMA SameHitsOf == \A c : E!HitsOf(c) = X!HitsOf(c)
BY Zenon DEF E!FoldLeft, E!HitsOf, E!MapThenFoldSet, E!Max, X!FoldLeft,
       X!HitsOf, X!MapThenFoldSet, X!Max

LEMMA SameSpmCyclesOf == \A c : E!SpmCyclesOf(c) = X!SpmCyclesOf(c)
BY Zenon DEF E!AtLeast, E!FoldLeft, E!MapThenFoldSet, E!Max, E!SpmCyclesOf,
       E!SpmLatency, E!SumOf, X!AtLeast, X!FoldLeft, X!MapThenFoldSet,
       X!Max, X!SpmCyclesOf, X!SpmLatency, X!SumOf

LEMMA SameScanFindsVocs == \A req : E!ScanFindsVocs(req) = X!ScanFindsVocs(req)
BY Zenon DEF E!AtLeast, E!CeilDiv, E!FoldLeft, E!MapThenFoldSet, E!Max,
       E!ScanFindsVocs, E!ScanVoc, E!SumOf, E!VocSummary, E!Cardinality,
       E!IsFiniteSet, X!AtLeast, X!CeilDiv, X!FoldLeft, X!MapThenFoldSet,
       X!Max, X!ScanFindsVocs, X!ScanVoc, X!SumOf, X!VocSummary,
       X!Cardinality, X!IsFiniteSet

LEMMA SameStagesLeft == \A list, s : E!StagesLeft(list, s) = X!StagesLeft(list, s)
BY Zenon DEF E!From, E!HeadStage, E!Min, E!StagesLeft, X!From, X!HeadStage,
       X!Min, X!StagesLeft

LEMMA SameBracketsRows == \A list, s : E!BracketsRows(list, s) = X!BracketsRows(list, s)
BY Zenon DEF E!BracketsRows, E!Opened, E!Reaches, X!BracketsRows, X!Opened,
       X!Reaches

LEMMA SameComputesOnOpened == \A list, s : E!ComputesOnOpened(list, s) = X!ComputesOnOpened(list, s)
BY Zenon DEF E!ComputesOnOpened, E!Opened, E!Reaches, E!UsesOpenRow,
       X!ComputesOnOpened, X!Opened, X!Reaches, X!UsesOpenRow

LEMMA SameCountersMatch == \A n, c : E!CountersMatch(n, c) = X!CountersMatch(n, c)
BY Zenon DEF E!CountersMatch, E!TotalBanks, X!CountersMatch, X!TotalBanks

LEMMA SameStagesOf == \A req : E!StagesOf(req) = X!StagesOf(req)
BY Zenon DEF E!AccCommands, E!AtLeast, E!CeilDiv, E!FoldLeft, E!If,
       E!MacCommands, E!MapThenFoldSet, E!Max, E!ScanVoc, E!StagesOf,
       E!VocSummary, X!AccCommands, X!AtLeast, X!CeilDiv, X!FoldLeft, X!If,
       X!MacCommands, X!MapThenFoldSet, X!Max, X!ScanVoc, X!StagesOf,
       X!VocSummary

LEMMA SameNumber == \A list, c : E!Number(list, c) = X!Number(list, c)
BY Zenon DEF E!Number, E!Cardinality, E!IsFiniteSet, X!Number,
       X!Cardinality, X!IsFiniteSet

LEMMA SameSpmLatency == \A v : E!SpmLatency(v) = X!SpmLatency(v)
BY Zenon DEF E!AtLeast, E!SpmLatency, X!AtLeast, X!SpmLatency

LEMMA SameConfiguresIn == \A list : E!ConfiguresIn(list) = X!ConfiguresIn(list)
BY Zenon DEF E!ConfiguresIn, X!ConfiguresIn

LEMMA SameCyclesConfigured == \A list : E!CyclesConfigured(list) = X!CyclesConfigured(list)
BY Zenon DEF E!CyclesConfigured, E!FoldLeft, E!MapThenFoldSet, E!Max,
       E!SumOf, X!CyclesConfigured, X!FoldLeft, X!MapThenFoldSet, X!Max,
       X!SumOf

LEMMA SameBankPath == \A k : E!BankPath(k) = X!BankPath(k)
BY Zenon DEF E!BankPath, X!BankPath

LEMMA SameRowWidth == E!ColumnsPerRow = X!ColumnsPerRow
BY Zenon DEF E!ColumnsPerRow, X!ColumnsPerRow

LEMMA SameRowsOf == \A a, n : E!RowsOf(a, n) = X!RowsOf(a, n)
<1>1. \A a, b : E!CeilDiv(a, b) = X!CeilDiv(a, b)
  BY Zenon DEF E!CeilDiv, X!CeilDiv
<1> QED
  BY <1>1, SameRowWidth, Zenon DEF E!RowsOf, X!RowsOf

LEMMA SameMacCommands == \A req : E!MacCommands(req) = X!MacCommands(req)
BY Zenon DEF E!MacCommands, X!MacCommands

LEMMA SameFits == \A req : E!Fits(req) = X!Fits(req)
<1> SUFFICES ASSUME NEW req PROVE E!Fits(req) = X!Fits(req)
  OBVIOUS
<1>1. /\ E!ColumnsPerRow = X!ColumnsPerRow /\ E!MacCommands(req) = X!MacCommands(req)
      /\ E!VocSummary(req) = X!VocSummary(req)
  BY SameRowWidth, SameMacCommands, SameVocSummary, Zenon
<1> QED
  BY <1>1, Zenon DEF E!Fits, X!Fits

LEMMA SameCommandsIn == \A list, c : E!CommandsIn(list, c) = X!CommandsIn(list, c)
BY Zenon DEF E!CommandsIn, X!CommandsIn

(* What both say of a list, by all they take from the expansion.           *)
LEMMA SameColumnsApart == \A list, req : E!ColumnsApart(list, req) = X!ColumnsApart(list, req)
<1> SUFFICES ASSUME NEW list, NEW req PROVE E!ColumnsApart(list, req) = X!ColumnsApart(list, req)
  OBVIOUS
<1> DEFINE Says(fits, macs, spms, kRows, vRows) ==
              fits =>
                 /\ \A i, j \in macs :
                       list[i].addr.row = list[j].addr.row /\ list[i].addr.col = list[j].addr.col
                       => i = j
                 /\ /\ cfg.kt_row_offset + kRows <= cfg.v_row_offset
                    /\ cfg.v_row_offset + vRows <= cfg.kt_row_offset + NumRows
                    => \A i \in macs, j \in spms : list[i].addr.row # list[j].addr.row
           ek == E!RowsOf(cfg.kt_col_start, E!MacCommands(req))
           xk == X!RowsOf(cfg.kt_col_start, X!MacCommands(req))
           ev == E!RowsOf(cfg.v_col_start, E!VocSummary(req).max_voc)
           xv == X!RowsOf(cfg.v_col_start, X!VocSummary(req).max_voc)
<1>1. E!ColumnsApart(list, req)
        = Says(E!Fits(req), E!CommandsIn(list, "MAC"), E!CommandsIn(list, "SPM"), ek, ev)
  BY Zenon DEF E!ColumnsApart
<1>2. X!ColumnsApart(list, req)
        = Says(X!Fits(req), X!CommandsIn(list, "MAC"), X!CommandsIn(list, "SPM"), xk, xv)
  BY Zenon DEF X!ColumnsApart
<1>3. ek = xk
  BY SameRowsOf, SameMacCommands, Zenon
<1>4. ev = xv
  BY SameRowsOf, SameVocSummary, Zenon
<1>5. /\ E!Fits(req) = X!Fits(req)
      /\ E!CommandsIn(list, "MAC") = X!CommandsIn(list, "MAC")
      /\ E!CommandsIn(list, "SPM") = X!CommandsIn(list, "SPM")
  BY SameFits, SameCommandsIn, Zenon
<1> HIDE DEF Says, ek, xk, ev, xv
<1> QED
  BY <1>1, <1>2, <1>3, <1>4, <1>5, Zenon

LEMMA SameQkStage == \A b, n : E!QkStage(b, n) = X!QkStage(b, n)
<1> SUFFICES ASSUME NEW b, NEW n PROVE E!QkStage(b, n) = X!QkStage(b, n)
  OBVIOUS
<1>1. [k \in 1..Len(E!QkChunks(n)) |-> E!QkRow(b, E!QkChunks(n)[k])]
        = [k \in 1..Len(X!QkChunks(n)) |-> X!QkRow(b, X!QkChunks(n)[k])]
  BY SameQkChunks, SameQkRow
<1> QED
  BY <1>1, SameFlattenSeq, Zenon DEF E!QkStage, E!Repeat, E!AtLeast, E!CommandOp, E!AllBanks,
     E!AnyBank, E!NoAddr, X!QkStage, X!Repeat, X!AtLeast, X!CommandOp, X!AllBanks, X!AnyBank,
     X!NoAddr

LEMMA SamePvStage == \A b, v : E!PvStage(b, v) = X!PvStage(b, v)
<1> SUFFICES ASSUME NEW b, NEW v PROVE E!PvStage(b, v) = X!PvStage(b, v)
  OBVIOUS
<1> DEFINE EP(chunk) == E!PvRow(E!EsdmAddr(b, cfg.v_row_offset, cfg.v_col_start + chunk.first), chunk.len)
           XP(chunk) == X!PvRow(X!EsdmAddr(b, cfg.v_row_offset, cfg.v_col_start + chunk.first), chunk.len)
           e == [k \in 1..Len(E!PvChunks(v)) |-> EP(E!PvChunks(v)[k])]
           x == [k \in 1..Len(X!PvChunks(v)) |-> XP(X!PvChunks(v)[k])]
<1>1. \A chunk : EP(chunk) = XP(chunk)
  BY SameEsdmAddr, SamePvRow, Zenon
<1>2. e = x
  <2> HIDE DEF EP, XP
  <2> QED
    BY <1>1, SamePvChunks
<1>3. /\ E!PvStage(b, v) = IF ~cfg.enable_esdm THEN E!PvRow(b, v) ELSE E!FlattenSeq(e)
      /\ X!PvStage(b, v) = IF ~cfg.enable_esdm THEN X!PvRow(b, v) ELSE X!FlattenSeq(x)
  BY Zenon DEF E!PvStage, X!PvStage
<1> HIDE DEF e, x
<1> QED
  BY <1>2, <1>3, SamePvRow, SameFlattenSeq, Zenon

LEMMA SameExpand == \A id, req : E!Expand(id, req) = X!Expand(id, req)
<1> SUFFICES ASSUME NEW id, NEW req PROVE E!Expand(id, req) = X!Expand(id, req)
  OBVIOUS
<1>1. /\ E!BaseAddr(req) = X!BaseAddr(req) /\ E!MacCommands(req) = X!MacCommands(req)
      /\ E!AccCommands(req) = X!AccCommands(req) /\ E!CompleteOp(id) = X!CompleteOp(id)
  BY Zenon DEF E!BaseAddr, E!MacCommands, E!AccCommands, E!CompleteOp, E!NoAddr, E!AnyBank, E!AtLeast,
     X!BaseAddr, X!MacCommands, X!AccCommands, X!CompleteOp, X!NoAddr, X!AnyBank, X!AtLeast
<1>2. \A flag, s : E!If(flag, s) = X!If(flag, s)
  BY Zenon DEF E!If, X!If
<1>3. E!TokenOps(id, req) = X!TokenOps(id, req)
  BY <1>1, <1>2, SameVocSummary, SameQkStage, SameElemaxStage, SameBgmuStage, SamePvStage,
     SameAccStage, Zenon DEF E!TokenOps, X!TokenOps
<1> QED
  BY <1>3, SameDirectOps, Zenon DEF E!Expand, X!Expand

LEMMA SameStatsOf == \A req : E!StatsOf(req) = X!StatsOf(req)
<1> SUFFICES ASSUME NEW req PROVE E!StatsOf(req) = X!StatsOf(req)
  OBVIOUS
<1>1. E!MacCommands(req) = X!MacCommands(req)
  BY Zenon DEF E!MacCommands, X!MacCommands
<1>2. \A s : E!BgmuReads(s) = X!BgmuReads(s) /\ E!BgmuLatency(s) = X!BgmuLatency(s)
  BY Zenon DEF E!BgmuReads, E!BgmuLatency, E!AtLeast, X!BgmuReads, X!BgmuLatency, X!AtLeast
<1>3. E!TotalBanks = X!TotalBanks /\ E!ExpansionStats = X!ExpansionStats
  BY Zenon DEF E!TotalBanks, E!ExpansionStats, X!TotalBanks, X!ExpansionStats
<1>4. E!TokenStats(req) = X!TokenStats(req)
  BY <1>1, <1>2, <1>3, SameVocSummary, SameQkChunks, SamePvChunks, SameHitsOf, SameSpmCyclesOf,
     SameSpmLatency, Zenon DEF E!TokenStats, X!TokenStats
<1> QED
  BY <1>3, <1>4, Zenon DEF E!StatsOf, X!StatsOf

LEMMA SameFollowsStages == \A list, s : E!FollowsStages(list, s) = X!FollowsStages(list, s)
<1> SUFFICES ASSUME NEW list, NEW s PROVE E!FollowsStages(list, s) = X!FollowsStages(list, s)
  OBVIOUS
<1> DEFINE EL(k) == E!StagesLeft(E!From(list, k), s)
           XL(k) == X!StagesLeft(X!From(list, k), s)
           EStep(k) == EL(k + 1) = EL(k) \/ (EL(k) # <<>> /\ EL(k + 1) = Tail(EL(k)))
           XStep(k) == XL(k + 1) = XL(k) \/ (XL(k) # <<>> /\ XL(k + 1) = Tail(XL(k)))
           e == \A k \in 1..(Len(list) - 1) : EStep(k)
           x == \A k \in 1..(Len(list) - 1) : XStep(k)
           Follows(names, left, steps, last) ==
             s \in Seq(names) /\ Len(list) > 1 /\ left = s /\ steps /\ last = <<>>
<1>1. E!FollowsStages(list, s)
        = Follows(E!StageNames, E!StagesLeft(list, s), e, EL(Len(list)))
  BY Zenon DEF E!FollowsStages
<1>2. X!FollowsStages(list, s)
        = Follows(X!StageNames, X!StagesLeft(list, s), x, XL(Len(list)))
  BY Zenon DEF X!FollowsStages
<1>3. \A k : EL(k) = XL(k)
  <2>1. \A k : E!From(list, k) = X!From(list, k)
    BY Zenon DEF E!From, X!From
  <2> QED
    BY <2>1, SameStagesLeft, Zenon
<1> HIDE DEF EL, XL
<1>4. e <=> x
  <2>1. ASSUME NEW k PROVE EStep(k) <=> XStep(k)
    <3>1. EL(k) = XL(k) /\ EL(k + 1) = XL(k + 1)
      BY <1>3, Zenon
    <3> QED
      BY <3>1, Zenon
  <2> HIDE DEF EStep, XStep
  <2> QED
    BY <2>1, Zenon
<1>5. EL(Len(list)) = XL(Len(list)) /\ E!StagesLeft(list, s) = X!StagesLeft(list, s)
  BY <1>3, SameStagesLeft, Zenon
<1>6. E!StageNames = X!StageNames
  BY Zenon DEF E!StageNames, X!StageNames
<1>7. e = x
  <2> HIDE DEF EStep, XStep
  <2> QED
    BY <1>4, Zenon
<1> HIDE DEF e, x, Follows
<1> QED
  BY <1>1, <1>2, <1>5, <1>6, <1>7, Zenon

LEMMA SameLatenciesAddUp == \A list, req : E!LatenciesAddUp(list, req) = X!LatenciesAddUp(list, req)
<1>1. \A list, c : E!CommandsIn(list, c) = X!CommandsIn(list, c)
  BY Zenon DEF E!CommandsIn, X!CommandsIn
<1>2. \A k, i, list : E!NextTo(k, i, list) = X!NextTo(k, i, list)
  BY Zenon DEF E!NextTo, E!CommandsIn, E!ConfiguresIn, X!NextTo, X!CommandsIn, X!ConfiguresIn
<1> QED
  BY <1>1, <1>2, SameConfiguresIn, SameCyclesConfigured, SameStatsOf, SameNumber, SameVocSummary, Zenon
     DEF E!LatenciesAddUp, X!LatenciesAddUp
-----------------------------------------------------------------------------
(* What the frontend makes of a line.                                      *)
Fields ==
    [validate_voc_count : BOOLEAN, expected_voc_count : Int, max_voc_per_bpu : Int,
     fsu_width : Int, d_head : Int, mac_commands_per_token : Int, acc_commands_per_token : Int]

LEMMA Adds == \A s : F!FoldLeft(LAMBDA a, b : a + b, 0, s) = X!SumOf(s)
BY Zenon DEF F!FoldLeft, F!MapThenFoldSet, F!Max, X!SumOf, X!FoldLeft, X!MapThenFoldSet, X!Max

LEMMA SameHighest == \A s : F!Max({0} \cup F!Range(s)) = X!Max({0} \cup X!Range(s))
BY Zenon DEF F!Max, F!Range, X!Max, X!Range

LEMMA FrontendTypes ==
    ASSUME front \in FrontendConfigs
    PROVE  /\ F!Frontend.mac_commands_per_token \in Int /\ F!Frontend.acc_commands_per_token \in Int
           /\ F!Frontend.max_voc_per_bpu \in Int /\ F!Frontend.expected_voc_count \in Int
           /\ F!Frontend.validate_voc_count \in BOOLEAN
<1>1. front \in Fields
  BY TokensAssumption DEF Fields
<1> DEFINE w == F!AtLeastOne(front.fsu_width)
           h == front.d_head
           m == front.mac_commands_per_token
           mac == IF m >= 0 THEN m ELSE IF h > 0 THEN (h + w - 1) \div w ELSE 0
           max == IF front.max_voc_per_bpu > 0 THEN front.max_voc_per_bpu ELSE w
           count == IF front.expected_voc_count > 0 THEN front.expected_voc_count
                    ELSE F!AtLeastOne(NumBgs) * F!AtLeastOne(NumBanks)
<1>2. F!Frontend = [front EXCEPT !.mac_commands_per_token = mac, !.max_voc_per_bpu = max,
                                 !.expected_voc_count = count]
  BY Zenon DEF F!Frontend
<1>3. w \in Nat \ {0} /\ h \in Int /\ m \in Int
  BY <1>1 DEF Fields, F!AtLeastOne
<1>4. max \in Int
  BY <1>1, <1>3 DEF Fields
<1>5. count \in Int
  <2>1. F!AtLeastOne(NumBgs) \in Int /\ F!AtLeastOne(NumBanks) \in Int
    BY TokensAssumption DEF F!AtLeastOne
  <2>2. F!AtLeastOne(NumBgs) * F!AtLeastOne(NumBanks) \in Int
    BY <2>1
  <2> QED
    BY <1>1, <2>2 DEF Fields
<1>6. mac \in Int
  <2> HIDE DEF w, h, m
  <2>1. ASSUME h > 0 PROVE (h + w - 1) \div w \in Int
    BY <1>3, <2>1
  <2> QED
    BY <1>3, <2>1
<1> HIDE DEF w, h, m, mac, max, count
<1> QED
  BY <1>1, <1>2, <1>4, <1>5, <1>6 DEF Fields

(* A trace as parse_trace_line leaves it: counts that are not negative, a  *)
(* maximum and a total that are those of the list if there is one.         *)
TraceOK(t) ==
    /\ t.vocs \in Seq(Int) /\ \A i \in 1..Len(t.vocs) : t.vocs[i] >= 0
    /\ t.voc_count = Len(t.vocs)
    /\ t.max_voc \in Nat /\ t.total_voc \in Nat /\ t.mac \in Int /\ t.acc \in Int
    /\ t.vocs # <<>> => /\ t.max_voc = X!Max({0} \cup X!Range(t.vocs))
                        /\ t.total_voc = X!SumOf(t.vocs)
(* The configuration is one the expansion is proved about.                 *)
LEMMA Configured ==
    ASSUME cfg \in Configs
    PROVE  /\ NumRows \in Nat \ {0} /\ NumCols \in Nat \ {0}
           /\ cfg.esdm_columns_per_row \in Int
           /\ {cfg.kt_row_offset, cfg.kt_col_start, cfg.v_row_offset, cfg.v_col_start,
               cfg.mac_commands_per_token, cfg.acc_commands_per_token,
               cfg.spm_fixed_cycles, cfg.spm_cycles_per_voc, nCL, nCCDS, nBL} \subseteq Int
           /\ {cfg.enable_esdm, cfg.enable_qk_act_pre, cfg.enable_act_spm_pre,
               cfg.bgmu_read_as_delay} \subseteq BOOLEAN
           /\ NumPchs \in Nat \ {0} /\ NumBgs \in Nat \ {0} /\ NumBanks \in Nat \ {0}
BY TokensAssumption

LEMMA CompactOK ==
    ASSUME NEW max \in Int, NEW total \in Int, NEW mac \in Int, NEW acc \in Int
    PROVE  TraceOK(F!CompactTrace(max, total, mac, acc))
<1> SUFFICES ASSUME NEW t, t = F!CompactTrace(max, total, mac, acc)
             PROVE  TraceOK(t)
  OBVIOUS
<1>1. /\ t.vocs = <<>> /\ t.voc_count = 0 /\ t.mac = mac /\ t.acc = acc
      /\ t.max_voc = F!NonNegative(max) /\ t.total_voc = F!NonNegative(total)
  BY Zenon DEF F!CompactTrace
<1>2. F!NonNegative(max) \in Nat /\ F!NonNegative(total) \in Nat
  BY DEF F!NonNegative
<1> QED
  BY <1>1, <1>2 DEF TraceOK

LEMMA ListOK ==
    ASSUME NEW l \in Lines, NEW mac \in Int, NEW acc \in Int, cfg \in Configs
    PROVE  TraceOK(F!TraceFromVocs(F!VocList(l), mac, acc))
<1> DEFINE vocs == F!VocList(l)
<1> SUFFICES ASSUME NEW t, t = F!TraceFromVocs(vocs, mac, acc)
             PROVE  TraceOK(t)
  OBVIOUS
<1>1. l.vocs \in Seq(Int)
  BY TokensAssumption
<1>2. vocs \in Seq(Int) /\ \A i \in 1..Len(vocs) : vocs[i] >= 0
  <2>1. \A i \in 1..Len(l.vocs) : l.vocs[i] \in Int
    BY <1>1
  <2>2. \A i \in 1..Len(l.vocs) : F!NonNegative(l.vocs[i]) \in Nat
    BY <2>1 DEF F!NonNegative
  <2>3. Len(l.vocs) \in Nat
    BY <1>1
  <2>4. vocs = [i \in 1..Len(l.vocs) |-> F!NonNegative(l.vocs[i])]
    BY DEF F!VocList
  <2> HIDE DEF vocs
  <2> QED
    BY <2>2, <2>3, <2>4
<1> HIDE DEF vocs
<1>3. /\ t.vocs = vocs /\ t.voc_count = Len(vocs) /\ t.mac = mac /\ t.acc = acc
      /\ t.max_voc = X!Max({0} \cup X!Range(vocs)) /\ t.total_voc = X!SumOf(vocs)
  BY SameHighest, Adds, Zenon DEF F!TraceFromVocs
<1>4. X!Max({0} \cup X!Range(vocs)) \in Nat /\ X!SumOf(vocs) \in Nat
  BY <1>2, Configured, X!ListTypes
<1> QED
  BY <1>2, <1>3, <1>4 DEF TraceOK

LEMMA ParsedOK ==
    ASSUME NEW l \in Lines, ~F!Malformed(l), front \in FrontendConfigs, cfg \in Configs
    PROVE  TraceOK(F!ParseLine(l))
<1> DEFINE n == l.numbers
           m == F!Frontend.mac_commands_per_token
           a == F!Frontend.acc_commands_per_token
           Mac(k) == F!Field(n, k, m)
           Acc(k) == F!Field(n, k, a)
<1>1. m \in Int /\ a \in Int
  BY FrontendTypes
<1>2. n \in Seq(Int) /\ l.form \in Forms
  BY TokensAssumption
<1>3. \A k \in Nat \ {0} : Mac(k) \in Int /\ Acc(k) \in Int
  <2> HIDE DEF n, m, a
  <2> TAKE k \in Nat \ {0}
  <2>1. k <= Len(n) => n[k] \in Int
    BY <1>2
  <2> QED
    BY <1>1, <2>1 DEF F!Field
<1>4. Mac(1) \in Int /\ Acc(2) \in Int /\ Mac(2) \in Int /\ Acc(3) \in Int
      /\ Mac(4) \in Int /\ Acc(5) \in Int
  BY <1>3
<1>5. F!ParseLine(l) = CASE l.form = "VOC" -> F!TraceFromVocs(F!VocList(l), Mac(2), Acc(3))
                         [] l.form = "TOKEN list" -> F!TraceFromVocs(F!VocList(l), Mac(1), Acc(2))
                         [] l.form = "fixed" -> F!FixedTrace(n[1], n[2])
                         [] OTHER -> F!CompactTrace(n[1], n[2], Mac(4), Acc(5))
  BY Zenon DEF F!ParseLine
<1>6. CASE l.form = "VOC"
  <2>1. F!ParseLine(l) = F!TraceFromVocs(F!VocList(l), Mac(2), Acc(3))
    BY <1>5, <1>6
  <2> QED
    BY <1>4, <2>1, ListOK
<1>7. CASE l.form = "TOKEN list"
  <2>1. F!ParseLine(l) = F!TraceFromVocs(F!VocList(l), Mac(1), Acc(2))
    BY <1>5, <1>7
  <2> QED
    BY <1>4, <2>1, ListOK
<1>8. CASE l.form = "fixed"
  <2>1. Len(n) = 2
    BY <1>8, TokensAssumption
  <2>2. n[1] \in Int /\ n[2] \in Int
    BY <1>2, <2>1
  <2>3. F!ParseLine(l) = F!FixedTrace(n[1], n[2])
    BY <1>5, <1>8
  <2>4. (IF n[2] >= 0 THEN n[2] ELSE n[1]) \in Int
    BY <2>2
  <2> HIDE DEF n, m, a
  <2>5. TraceOK(F!CompactTrace(n[1], IF n[2] >= 0 THEN n[2] ELSE n[1], m, a))
    BY <1>1, <2>2, <2>4, CompactOK
  <2> QED
    BY <2>3, <2>5 DEF F!FixedTrace, m, a
<1>9. CASE l.form \in {"TOKEN", "bare"}
  <2>1. Len(n) >= 2
    <3> DEFINE k == Len(n)
    <3>1. k \in Nat
      BY <1>2
    <3>2. ~(k < 2)
      BY <1>9, Zenon DEF F!Malformed
    <3> HIDE DEF k
    <3>3. k >= 2
      BY <3>1, <3>2
    <3> QED
      BY <3>3 DEF k
  <2>2. n[1] \in Int /\ n[2] \in Int
    BY <1>2, <2>1
  <2>3. F!ParseLine(l) = F!CompactTrace(n[1], n[2], Mac(4), Acc(5))
    BY <1>5, <1>9
  <2> QED
    BY <1>4, <2>2, <2>3, CompactOK
<1>10. l.form # "VOC alone"
  BY DEF F!Malformed
<1> QED
  BY <1>2, <1>6, <1>7, <1>8, <1>9, <1>10 DEF Forms

-----------------------------------------------------------------------------
(* The inductive invariant: the trace is one that parse_trace_line leaves, *)
(* and from "ready" on one that validate_trace accepts.                    *)
TokensInv ==
    /\ front \in FrontendConfigs /\ cfg \in Configs /\ line \in Lines
    /\ TraceOK(trace)
    /\ stage \in {"ready", "expanded"} => F!Valid(trace)

LEMMA InitTokens == Init => TokensInv
<1> SUFFICES ASSUME Init PROVE TokensInv
  OBVIOUS
<1>1. 0 \in Int
  OBVIOUS
<1>2. TraceOK(NoTrace)
  BY <1>1, CompactOK DEF NoTrace
<1> QED
  BY <1>2 DEF Init, TokensInv

LEMMA ValidStays ==
    ASSUME front' = front, trace' = trace
    PROVE  F!Valid(trace)' = F!Valid(trace) /\ TraceOK(trace)' = TraceOK(trace)
<1>1. F!Frontend' = F!Frontend
  BY DEF F!Frontend, F!AtLeastOne
<1> QED
  BY <1>1 DEF F!Valid, TraceOK

LEMMA StepTokens == TokensInv /\ [Next]_vars => TokensInv'
<1> SUFFICES ASSUME TokensInv, [Next]_vars PROVE TokensInv'
  OBVIOUS
<1>1. CASE ReadLine
  <2>1. front' = front /\ cfg' = cfg /\ line' = line /\ stage' \in {"rejected", "parsed"}
    BY <1>1 DEF ReadLine
  <2>2. TraceOK(trace')
    BY <1>1, ParsedOK DEF ReadLine, TokensInv
  <2>3. TraceOK(trace)'
    BY <2>2 DEF TraceOK
  <2> QED
    BY <2>1, <2>3 DEF TokensInv
<1>2. CASE Validate
  <2>1. UNCHANGED <<front, cfg, line, trace>> /\ (stage' \in {"ready", "expanded"} => F!Valid(trace))
    BY <1>2 DEF Validate
  <2> QED
    BY <2>1, ValidStays DEF TokensInv
<1>3. CASE ExpandToken
  <2>1. UNCHANGED <<front, cfg, line, trace>> /\ stage = "ready"
    BY <1>3 DEF ExpandToken
  <2> QED
    BY <2>1, ValidStays DEF TokensInv
<1>4. CASE UNCHANGED vars
  BY <1>4, ValidStays DEF vars, TokensInv
<1> QED
  BY <1>1, <1>2, <1>3, <1>4 DEF Next

LEMMA TokensHold == Spec => []TokensInv
BY InitTokens, StepTokens, PTL DEF Spec

-----------------------------------------------------------------------------
(* What the expansion promises of the token.                               *)
LEMMA ReqIsToken ==
    ASSUME TokensInv
    PROVE  /\ X!IsToken(Req) /\ Req.vocs = trace.vocs /\ Req.max_voc = trace.max_voc
           /\ Req.total_voc = trace.total_voc
<1>1. /\ trace.vocs \in Seq(Int) /\ trace.max_voc \in Int /\ trace.total_voc \in Int
      /\ trace.mac \in Int /\ trace.acc \in Int
  BY DEF TokensInv, TraceOK
<1>2. Place.path \in Int \X Int \X Int /\ Place.row \in Int /\ Place.col \in Int
  BY TokensAssumption
<1>3. /\ Req.type = "spare-pim" /\ Req.path = Place.path /\ Req.row = Place.row
      /\ Req.col = Place.col /\ Req.vocs = trace.vocs /\ Req.max_voc = trace.max_voc
      /\ Req.total_voc = trace.total_voc /\ Req.mac = trace.mac /\ Req.acc = trace.acc
  BY DEF Req, F!RequestOf
<1> QED
  BY <1>1, <1>2, <1>3 DEF X!IsToken

LEMMA Scanned == TokensInv => E!ScanFindsVocs(Req)
<1> SUFFICES ASSUME TokensInv PROVE E!ScanFindsVocs(Req)
  OBVIOUS
<1>1. X!IsToken(Req) /\ cfg \in Configs
  BY ReqIsToken DEF TokensInv
<1>2. X!ScanFindsVocs(Req)
  BY <1>1, Configured, X!TokenScan
<1> QED
  BY <1>2, SameScanFindsVocs

(* The operations are none, or the expansion of the token.                 *)
LEMMA OpsAre ==
    /\ stage # "expanded" => ops = <<>>
    /\ stage = "expanded" => ops = X!Expand(1, Req)
BY SameExpand DEF ops

LEMMA PathsInside ==
    ASSUME cfg \in Configs
    PROVE  \A x \in BankPaths : \E p \in 0..(NumPchs - 1), g \in 0..(NumBgs - 1),
                                   b \in 0..(NumBanks - 1) : x = <<p, g, b>>
<1>1. BankPaths = {X!BankPath(k) : k \in 0..(X!TotalBanks - 1)}
  BY SameBankPath, Zenon DEF BankPaths, E!TotalBanks, X!TotalBanks
<1>2. \A k \in 0..(X!TotalBanks - 1) :
         \E p \in 0..(NumPchs - 1), g \in 0..(NumBgs - 1), b \in 0..(NumBanks - 1) :
            X!BankPath(k) = <<p, g, b>>
  BY Configured, X!BankInside
<1> QED
  BY <1>1, <1>2

LEMMA NothingOpens ==
    \A banks : /\ X!BracketsRows(<<>>, banks) /\ X!ComputesOnOpened(<<>>, banks)
<1>1. Len(<<>>) = 0 /\ 1..0 = {}
  OBVIOUS
<1>2. \A bank : X!Opened(<<>>, bank, 0) = {}
  BY <1>1 DEF X!Opened
<1> QED
  BY <1>1, <1>2 DEF X!BracketsRows, X!ComputesOnOpened

LEMMA Follows == TokensInv => OpsFollowProtocol
<1> SUFFICES ASSUME TokensInv PROVE OpsFollowProtocol
  OBVIOUS
<1>1. X!IsToken(Req) /\ cfg \in Configs
  BY ReqIsToken DEF TokensInv
<1>2. X!BracketsRows(ops, BankPaths) /\ X!ComputesOnOpened(ops, BankPaths)
  <2>1. CASE stage # "expanded"
    BY <2>1, OpsAre, NothingOpens
  <2>2. CASE stage = "expanded"
    <3>1. X!BracketsRows(X!Expand(1, Req), BankPaths) /\ X!ComputesOnOpened(X!Expand(1, Req), BankPaths)
      BY <1>1, Configured, PathsInside, X!TokenBrackets
    <3> QED
      BY <2>2, <3>1, OpsAre
  <2> QED
    BY <2>1, <2>2
<1>3. ASSUME ops # <<>> PROVE E!FollowsStages(ops, E!StagesOf(Req))
  <2>1. ops = X!Expand(1, Req)
    BY <1>3, OpsAre
  <2>2. X!FollowsStages(X!Expand(1, Req), X!StagesOf(Req))
    <3>1. cfg.bgmu_read_as_delay \in BOOLEAN
      BY <1>1, Configured
    <3> QED
      BY <1>1, <3>1, Configured, X!TokenStaged
  <2> QED
    BY <2>1, <2>2, SameFollowsStages, SameStagesOf
<1> QED
  BY <1>2, <1>3, SameBracketsRows, SameComputesOnOpened DEF OpsFollowProtocol, RowsFollowProtocol

LEMMA AddUp == TokensInv => SpmLatenciesAddUp
<1> SUFFICES ASSUME TokensInv, ops # <<>> PROVE E!LatenciesAddUp(ops, Req)
  BY DEF SpmLatenciesAddUp
<1>1. X!IsToken(Req) /\ cfg \in Configs
  BY ReqIsToken DEF TokensInv
<1>2. X!LatenciesAddUp(X!Expand(1, Req), Req)
  BY <1>1, Configured, X!TokenLatencies
<1> QED
  BY <1>2, OpsAre, SameLatenciesAddUp

LEMMA KeepApart == TokensInv => PlacesApart
<1> SUFFICES ASSUME TokensInv PROVE E!ColumnsApart(ops, Req)
  BY DEF PlacesApart
<1>1. X!IsToken(Req) /\ cfg \in Configs
  BY ReqIsToken DEF TokensInv
<1>2. X!ColumnsApart(X!Expand(1, Req), Req)
  BY <1>1, Configured, X!TokenPlaces
<1>3. X!ColumnsApart(<<>>, Req)
  <2>1. \A c : X!CommandsIn(<<>>, c) = {}
    BY DEF X!CommandsIn
  <2> QED
    BY <2>1 DEF X!ColumnsApart
<1> QED
  BY <1>2, <1>3, OpsAre, SameColumnsApart

LEMMA PagesCounted == TokensInv => PageHitsCounted
<1> SUFFICES ASSUME TokensInv, stage = "expanded"
             PROVE  E!CountersMatch([c \in E!PageCommands |-> E!Number(ops, c)], E!StatsOf(Req))
  BY DEF PageHitsCounted
<1>1. X!IsToken(Req) /\ cfg \in Configs
  BY ReqIsToken DEF TokensInv
<1>2. cfg.enable_qk_act_pre \in BOOLEAN /\ cfg.enable_act_spm_pre \in BOOLEAN
  BY <1>1, Configured
<1>3. X!CountersMatch([c \in X!PageCommands |-> X!Number(X!Expand(1, Req), c)], X!StatsOf(Req))
  BY <1>1, <1>2, Configured, X!TokenCountersMatch
<1>4. [c \in E!PageCommands |-> E!Number(ops, c)]
        = [c \in X!PageCommands |-> X!Number(X!Expand(1, Req), c)]
  BY OpsAre, SameNumber DEF E!PageCommands, X!PageCommands
<1> QED
  BY <1>3, <1>4, SameCountersMatch, SameStatsOf

(* The counts of the controller are those of the trace.                    *)
LEMMA SummaryIs ==
    ASSUME TokensInv, F!Valid(trace)
    PROVE  /\ Summary.max_voc = trace.max_voc /\ Summary.total_voc = trace.total_voc
           /\ F!Frontend.validate_voc_count /\ F!Frontend.expected_voc_count = NumBgs * NumBanks =>
                 /\ Summary.bgmu_reads * NumBanks = F!Frontend.expected_voc_count
                 /\ Summary.voc_values = F!Frontend.expected_voc_count
<1>1. X!IsToken(Req) /\ cfg \in Configs /\ Req.vocs = trace.vocs
      /\ Req.max_voc = trace.max_voc /\ Req.total_voc = trace.total_voc
  BY ReqIsToken DEF TokensInv
<1>2. /\ trace.vocs \in Seq(Int) /\ \A i \in 1..Len(trace.vocs) : trace.vocs[i] >= 0
      /\ trace.voc_count = Len(trace.vocs)
      /\ trace.max_voc \in Nat /\ trace.total_voc \in Nat
      /\ trace.vocs # <<>> => /\ trace.max_voc = X!Max({0} \cup X!Range(trace.vocs))
                              /\ trace.total_voc = X!SumOf(trace.vocs)
  BY DEF TokensInv, TraceOK
<1> DEFINE s == X!VocSummary(Req)
           full == F!Frontend.expected_voc_count
<1>3. Summary = s
  BY SameVocSummary DEF Summary
<1>4. NumBgs \in Nat \ {0} /\ NumBanks \in Nat \ {0}
  BY TokensAssumption
<1>5. CASE trace.vocs # <<>>
  <2>1. /\ s.max_voc = X!Max({0} \cup X!Range(trace.vocs)) /\ s.total_voc = X!SumOf(trace.vocs)
        /\ s.voc_values = Len(trace.vocs)
        /\ Len(trace.vocs) = NumBgs * NumBanks => s.bgmu_reads * NumBanks = Len(trace.vocs)
    <3>1. Req.vocs # <<>> /\ \A i \in 1..Len(Req.vocs) : Req.vocs[i] >= 0
      BY <1>1, <1>2, <1>5
    <3>2. /\ s.max_voc = X!Max({0} \cup X!Range(Req.vocs)) /\ s.total_voc = X!SumOf(Req.vocs)
          /\ s.voc_values = Len(Req.vocs)
          /\ Len(Req.vocs) = NumBgs * NumBanks => s.bgmu_reads * NumBanks = Len(Req.vocs)
      BY <1>1, <3>1, Configured, X!ListCounted
    <3> QED
      BY <1>1, <3>2
  <2>2. ASSUME F!Frontend.validate_voc_count, full = NumBgs * NumBanks
        PROVE  Len(trace.vocs) = full
    <3>1. Len(trace.vocs) > 0
      BY <1>2, <1>5
    <3> QED
      BY <1>2, <2>2, <3>1 DEF F!Valid
  <2> HIDE DEF s, full
  <2> QED
    BY <1>2, <1>3, <1>5, <2>1, <2>2 DEF full
<1>6. CASE trace.vocs = <<>>
  <2>1. s.max_voc = X!AtLeast(0, trace.max_voc) /\ s.total_voc = X!AtLeast(0, trace.total_voc)
        /\ s.bgmu_reads = NumBgs /\ s.voc_values = NumBgs * NumBanks
    BY <1>1, <1>6 DEF X!VocSummary
  <2>2. X!AtLeast(0, trace.max_voc) = trace.max_voc /\ X!AtLeast(0, trace.total_voc) = trace.total_voc
    BY <1>2 DEF X!AtLeast
  <2> HIDE DEF s, full
  <2> QED
    BY <1>3, <2>1, <2>2 DEF full
<1> QED
  BY <1>5, <1>6

LEMMA VocsFit == TokensInv => ValidatedVocsFit
<1> SUFFICES ASSUME TokensInv, stage = "expanded" PROVE ValidatedVocsFit
  BY DEF ValidatedVocsFit
<1> DEFINE most == F!Frontend.max_voc_per_bpu
           max == trace.max_voc
           total == trace.total_voc
           stat == E!StatsOf(Req).total_voc
<1>1. X!IsToken(Req) /\ cfg \in Configs /\ front \in FrontendConfigs /\ F!Valid(trace)
  BY ReqIsToken DEF TokensInv
<1>2. /\ Summary.max_voc = max /\ Summary.total_voc = total
      /\ F!Frontend.validate_voc_count /\ F!Frontend.expected_voc_count = NumBgs * NumBanks =>
            /\ Summary.bgmu_reads * NumBanks = F!Frontend.expected_voc_count
            /\ Summary.voc_values = F!Frontend.expected_voc_count
  BY <1>1, SummaryIs
<1>3. max \in Nat /\ total \in Nat /\ most \in Int /\ max <= most /\ (total > 0 => max <= total)
  <2>1. max \in Nat /\ total \in Nat
    BY DEF TokensInv, TraceOK
  <2>2. most \in Int
    BY <1>1, FrontendTypes
  <2>3. max <= most /\ (total > 0 => max <= total)
    BY <1>1 DEF F!Valid
  <2> QED
    BY <2>1, <2>2, <2>3
<1>4. ASSUME cfg.spm_cycles_per_voc >= 0
      PROVE  \A i \in E!ConfiguresIn(ops) : ops[i].cycles <= E!SpmLatency(most)
  <2>1. X!VocSummary(Req).max_voc <= most
    BY <1>2, <1>3, SameVocSummary DEF Summary
  <2> HIDE DEF most
  <2>2. \A i \in X!ConfiguresIn(X!Expand(1, Req)) :
           X!Expand(1, Req)[i].cycles <= X!SpmLatency(most)
    BY <1>1, <1>3, <1>4, <2>1, Configured, X!TokenLatenciesBounded
  <2> QED
    BY <2>2, OpsAre, SameConfiguresIn, SameSpmLatency
<1>5. stat = IF total = 0 THEN max ELSE total
  <2>1. Req.type = "spare-pim"
    BY <1>1 DEF X!IsToken
  <2>2. E!StatsOf(Req) = E!TokenStats(Req)
    BY <2>1 DEF E!StatsOf
  <2>3. E!TokenStats(Req).total_voc = IF Summary.total_voc = 0 THEN Summary.max_voc ELSE Summary.total_voc
    BY DEF E!TokenStats, Summary
  <2> QED
    BY <1>2, <2>2, <2>3
<1> HIDE DEF most, max, total, stat
<1>6. stat >= max /\ (total > 0 => stat = total)
  BY <1>3, <1>5
<1> QED
  BY <1>2, <1>4, <1>6 DEF ValidatedVocsFit, most, max, total, stat

LEMMA CountedRight == TokensInv => VocsCountedRight
BY Scanned, VocsFit, PagesCounted DEF VocsCountedRight

-----------------------------------------------------------------------------
(* The BGMU scan finds the counts of the list of any line, a token that    *)
(* validate_trace accepts stays within the widest FSU and fills the        *)
(* register groups, both sides count alike, and the page-hit counters      *)
(* match the commands (EsefTrace, VocSummary, TokenStats).                 *)
THEOREM VocsCounted == Spec => []VocsCountedRight
<1>1. TokensInv => VocsCountedRight
  BY CountedRight
<1> QED
  BY <1>1, TokensHold, PTL

(* The operations of any accepted line keep the rows of every bank         *)
(* bracketed, compute on open rows only, and go through the stages in      *)
(* order (expand_sparepim_token).                                          *)
THEOREM OperationsFollowProtocol == Spec => []OpsFollowProtocol
<1>1. TokensInv => OpsFollowProtocol
  BY Follows
<1> QED
  BY <1>1, TokensHold, PTL

(* Each SPM of any accepted line runs under a latency of its own, and the  *)
(* latencies add up to what the largest VOC takes                          *)
(* (enqueue_sparse_pv_stage).                                              *)
THEOREM LatenciesOfTokens == Spec => []SpmLatenciesAddUp
<1>1. TokensInv => SpmLatenciesAddUp
  BY AddUp
<1> QED
  BY <1>1, TokensHold, PTL

(* The columns of K^T that any accepted line reads are distinct, and no    *)
(* SPM runs on their rows, where the regions lie apart (make_esdm_addr).   *)
THEOREM PlacesOfTokens == Spec => []PlacesApart
<1>1. TokensInv => PlacesApart
  BY KeepApart
<1> QED
  BY <1>1, TokensHold, PTL

-----------------------------------------------------------------------------
(* The functional data path (EsdmFunctional).  Of a column the numbers are *)
(* counted from 0: its turn to be written, and its place in its region.    *)
LEMMA Divide ==
    ASSUME NEW a \in Nat, NEW b \in Nat \ {0}
    PROVE  /\ a \div b \in Nat /\ a % b \in 0..(b - 1)
           /\ a = b * (a \div b) + (a % b)
  BY Z3

LEMMA DivideOnce ==
    ASSUME NEW b \in Nat \ {0}, NEW p \in Int, NEW q \in Int,
           NEW r \in 0..(b - 1), NEW s \in 0..(b - 1),
           b * p + r = b * q + s
    PROVE  p = q /\ r = s
  BY Z3

LEMMA Quotient ==
    ASSUME NEW b \in Nat \ {0}, NEW q \in Nat, NEW r \in 0..(b - 1), NEW a, a = b * q + r
    PROVE  a \in Nat /\ a \div b = q /\ a % b = r
<1>1. a \in Nat
  <2>1. b * q \in Nat
    BY Z3
  <2> QED
    BY <2>1
<1>2. /\ a \div b \in Nat /\ a % b \in 0..(b - 1)
      /\ a = b * (a \div b) + (a % b)
  BY <1>1, Divide
<1> DEFINE p == a \div b  s == a % b
<1>3. p \in Int /\ s \in 0..(b - 1) /\ b * p + s = b * q + r
  BY <1>2
<1> HIDE DEF p, s
<1>4. p = q /\ s = r
  BY <1>3, DivideOnce
<1> QED
  BY <1>1, <1>4 DEF p, s

LEMMA SmallerThan ==
    ASSUME NEW a \in Nat, NEW b \in Nat \ {0}, a < b
    PROVE  a \div b = 0 /\ a % b = a
<1>1. a = b * 0 + a /\ a \in 0..(b - 1) /\ 0 \in Nat
  OBVIOUS
<1> QED
  BY <1>1, Quotient

LEMMA DividesBelow ==
    ASSUME NEW b \in Nat \ {0}, NEW a \in Nat, NEW q \in Nat, a < b * q
    PROVE  a \div b < q
<1> DEFINE p == a \div b  r == a % b
<1>1. p \in Nat /\ r \in 0..(b - 1) /\ a = b * p + r
  BY Divide
<1> HIDE DEF p, r
<1>2. b * p < b * q
  <2> DEFINE x == b * p  y == b * q
  <2>1. x \in Int /\ y \in Int /\ a = x + r /\ a < y
    BY <1>1
  <2> HIDE DEF x, y
  <2>2. x < y
    BY <1>1, <2>1
  <2> QED
    BY <2>2 DEF x, y
<1>3. p < q
  BY <1>1, <1>2, Z3
<1> QED
  BY <1>3 DEF p

(* (n + b - 1) \div b rows of b columns are enough for n columns.          *)
LEMMA RoundsUp ==
    ASSUME NEW b \in Nat \ {0}, NEW n \in Nat
    PROVE  /\ (n + b - 1) \div b \in Nat
           /\ n <= b * ((n + b - 1) \div b)
<1> DEFINE a == n + b - 1
           p == a \div b  r == a % b
<1>1. a \in Nat
  OBVIOUS
<1>2. p \in Nat /\ r \in 0..(b - 1) /\ a = b * p + r
  <2> HIDE DEF a
  <2> QED
    BY <1>1, Divide
<1> HIDE DEF p, r
<1> DEFINE x == b * p
<1>3. x \in Int /\ n + b - 1 = x + r
  BY <1>2
<1> HIDE DEF x
<1>4. n <= x
  BY <1>2, <1>3
<1> QED
  BY <1>2, <1>4 DEF x, p

(* Which turn it is of a column to be written.                             *)
Turn(t, sk, c) == sk * (2 * ColsPerKt) + (IF t = "K" THEN 0 ELSE ColsPerKt) + c
ColumnsOfPosition == 0..(ColsPerKt - 1)

PathTypes ==
    /\ layout.enable_esdm \in BOOLEAN /\ layout.esdm_columns_per_row \in Int
    /\ layout.kt_row_offset \in Int /\ layout.kt_col_start \in Int
    /\ layout.v_row_offset \in Int /\ layout.v_col_start \in Int
    /\ layout.seq_len \in Nat /\ layout.d_head \in Nat
    /\ layout.num_heads \in Nat \ {0} /\ layout.num_kv_heads \in Nat \ {0}
    /\ BankRows \in Nat \ {0} /\ BankCols \in Nat \ {0}
    /\ KeyRows \in Nat \ {0} /\ KeyCols \in Nat \ {0} /\ Width \in Nat \ {0}

LEMMA Typed == layout \in Layouts => PathTypes
BY DataPathAssumption DEF PathTypes

LEMMA ColsPerKtNat ==
    ASSUME PathTypes
    PROVE  ColsPerKt \in Nat /\ layout.d_head <= Width * ColsPerKt
BY RoundsUp DEF PathTypes, ColsPerKt

LEMMA TurnDecoded ==
    ASSUME PathTypes, NEW t \in {"K", "V"}, NEW sk \in Positions, NEW c \in ColumnsOfPosition
    PROVE  /\ Turn(t, sk, c) \in 0..(Columns - 1)
           /\ Written(Turn(t, sk, c)) = [tensor |-> t, position |-> sk, column |-> c]
<1> DEFINE L == ColsPerKt
           h == IF t = "K" THEN 0 ELSE 1
           r == h * L + c
           n == Turn(t, sk, c)
           S == layout.seq_len
<1>1. L \in Nat \ {0} /\ c \in 0..(L - 1) /\ S \in Nat /\ sk \in 0..(S - 1) /\ h \in {0, 1}
  BY ColsPerKtNat DEF PathTypes, ColumnsOfPosition, Positions
<1>2. n = sk * (2 * L) + (IF t = "K" THEN 0 ELSE L) + c
  BY DEF Turn
<1>3. t # "K" => t = "V"
  OBVIOUS
<1>4. Columns = S * 2 * L
  BY DEF Columns
<1> HIDE DEF L, S, n
<1>5. r \in 0..(2 * L - 1) /\ (r < L <=> t = "K") /\ n = sk * (2 * L) + r
  <2>1. CASE t = "K"
    <3>1. r = c
      BY <1>1, <2>1
    <3> HIDE DEF r
    <3> DEFINE x == sk * (2 * L)
    <3>2. x \in Int
      BY <1>1
    <3> HIDE DEF x
    <3>3. n = x + r /\ r \in 0..(2 * L - 1) /\ r < L
      BY <1>1, <1>2, <2>1, <3>1, <3>2 DEF x
    <3> QED
      BY <2>1, <3>3 DEF x
  <2>2. CASE t # "K"
    <3>1. r = L + c
      BY <1>1, <2>2
    <3> HIDE DEF r
    <3> DEFINE x == sk * (2 * L)
    <3>2. x \in Int
      BY <1>1
    <3> HIDE DEF x
    <3>3. n = x + r /\ r \in 0..(2 * L - 1) /\ ~(r < L)
      BY <1>1, <1>2, <2>2, <3>1, <3>2 DEF x
    <3> QED
      BY <2>2, <3>3 DEF x
  <2> QED
    BY <2>1, <2>2
<1>6. n \in Nat /\ n \div (2 * L) = sk /\ n % (2 * L) = r
  <2> DEFINE b == 2 * L
  <2>1. b \in Nat \ {0} /\ sk \in Nat /\ r \in 0..(b - 1) /\ sk * b = b * sk
    BY <1>1, <1>5
  <2>2. n = sk * b + r
    BY <1>5
  <2> HIDE DEF b, r
  <2>3. n = b * sk + r
    BY <2>1, <2>2
  <2>4. n \in Nat /\ n \div b = sk /\ n % b = r
    BY <2>1, <2>3, Quotient
  <2> QED
    BY <2>4 DEF b
<1>7. n % L = c
  <2> DEFINE q == 2 * sk + h
  <2>1. q \in Nat
    BY <1>1
  <2>2. n = L * q + c
    <3>1. sk * (2 * L) = L * (2 * sk) /\ L * q = L * (2 * sk) + L * h
      BY <1>1, Z3
    <3> DEFINE x == L * (2 * sk)  y == L * h
    <3>2. x \in Int /\ y \in Int /\ h * L = y
      BY <1>1
    <3>3. n = x + (y + c)
      BY <1>5, <3>1, <3>2
    <3> HIDE DEF x, y
    <3>4. n = x + y + c
      BY <1>1, <3>2, <3>3
    <3> QED
      BY <3>1, <3>4 DEF x, y
  <2> HIDE DEF q
  <2> QED
    BY <1>1, <2>1, <2>2, Quotient
<1>8. n < S * 2 * L
  <2> DEFINE b == 2 * L
  <2>1. b \in Nat \ {0} /\ S * 2 * L = S * b
    BY <1>1, Z3
  <2>2. sk * b + b <= S * b
    <3>1. sk + 1 <= S
      BY <1>1
    <3> HIDE DEF b
    <3>2. (sk + 1) * b <= S * b
      BY <1>1, <2>1, <3>1, Z3
    <3>3. (sk + 1) * b = sk * b + b
      BY <1>1, <2>1, Z3
    <3> QED
      BY <3>2, <3>3
  <2>3. n = sk * b + r /\ r \in 0..(b - 1)
    BY <1>5
  <2> HIDE DEF b, r
  <2> DEFINE x == sk * b  y == S * b
  <2>4. x \in Int /\ y \in Int
    BY <1>1, <2>1
  <2> HIDE DEF x, y
  <2>5. n < y
    BY <2>1, <2>2, <2>3, <2>4 DEF x, y
  <2> QED
    BY <2>1, <2>5 DEF y
<1>9. S * 2 * L \in Int
  BY <1>1
<1>10. n \in 0..(Columns - 1)
  BY <1>4, <1>6, <1>8, <1>9
<1>11. Written(n) = [tensor |-> IF n % (2 * L) < L THEN "K" ELSE "V",
                     position |-> n \div (2 * L), column |-> n % L]
  BY DEF Written, L
<1>12. Written(n) = [tensor |-> t, position |-> sk, column |-> c]
  <2>1. (IF r < L THEN "K" ELSE "V") = t
    BY <1>3, <1>5
  <2> QED
    BY <1>6, <1>7, <1>11, <2>1
<1> QED
  BY <1>10, <1>12 DEF n

LEMMA WrittenDecoded ==
    ASSUME PathTypes, NEW n \in 0..(Columns - 1)
    PROVE  /\ Written(n).tensor \in {"K", "V"} /\ Written(n).position \in Positions
           /\ Written(n).column \in ColumnsOfPosition
<1> DEFINE L == ColsPerKt
           S == layout.seq_len
<1>1. L \in Nat /\ S \in Nat /\ Columns = S * 2 * L
  BY ColsPerKtNat DEF PathTypes, Columns
<1>2. n \in Nat /\ n < S * 2 * L
  <2>1. S * 2 * L \in Int
    BY <1>1
  <2> HIDE DEF S, L
  <2> QED
    BY <1>1, <2>1
<1> HIDE DEF S
<1>3. L # 0
  <2>1. L = 0 => S * 2 * L = 0
    BY <1>1
  <2> HIDE DEF L
  <2> QED
    BY <1>2, <2>1
<1> HIDE DEF L
<1> DEFINE b == 2 * L
<1>4. b \in Nat \ {0} /\ S * 2 * L = b * S
  BY <1>1, <1>3, Z3
<1> HIDE DEF b
<1>5. n \div b \in Nat /\ n \div b < S
  BY <1>1, <1>2, <1>4, Divide, DividesBelow
<1>6. n % L \in 0..(L - 1)
  BY <1>1, <1>2, <1>3, Divide
<1>7. /\ Written(n).tensor \in {"K", "V"}
      /\ Written(n).position = n \div b /\ Written(n).column = n % L
  BY DEF Written, b, L
<1>8. Positions = 0..(S - 1) /\ ColumnsOfPosition = 0..(L - 1)
  BY DEF Positions, ColumnsOfPosition, S, L
<1> QED
  BY <1>1, <1>5, <1>6, <1>7, <1>8

LEMMA WrittenTurn ==
    ASSUME PathTypes, NEW n \in 0..(Columns - 1)
    PROVE  Turn(Written(n).tensor, Written(n).position, Written(n).column) = n
<1> DEFINE L == ColsPerKt
           b == 2 * L
           p == n \div b  r == n % b
<1>1. L \in Nat \ {0} /\ n \in Nat
  <2>1. 0 < n + 1 /\ n \in Nat
    OBVIOUS
  <2>2. ColumnsOfPosition # {}
    BY WrittenDecoded
  <2>3. L \in Nat /\ ColumnsOfPosition = 0..(L - 1)
    BY ColsPerKtNat DEF ColumnsOfPosition
  <2> QED
    BY <2>1, <2>2, <2>3
<1> HIDE DEF L
<1>2. b \in Nat \ {0}
  BY <1>1
<1> HIDE DEF b
<1>3. p \in Nat /\ r \in 0..(b - 1) /\ n = b * p + r
  BY <1>1, <1>2, Divide
<1>4. /\ Written(n).tensor = (IF r < L THEN "K" ELSE "V")
      /\ Written(n).position = p /\ Written(n).column = n % L
  BY DEF Written, b, L
<1> HIDE DEF p, r
<1>5. b * p = L * (2 * p) /\ L * (2 * p) + L = L * (2 * p + 1) /\ p * (2 * L) = b * p
  BY <1>1, <1>3, Z3 DEF b
<1> DEFINE x == b * p
<1>6. x \in Int /\ n = x + r /\ p * (2 * L) = x
  BY <1>2, <1>3, <1>5
<1>7. CASE r < L
  <2>1. r \in 0..(L - 1) /\ 2 * p \in Nat /\ n = L * (2 * p) + r
    BY <1>1, <1>3, <1>5, <1>7
  <2>2. n % L = r
    BY <1>1, <2>1, Quotient
  <2>3. Turn("K", p, r) = p * (2 * L) + 0 + r
    BY DEF Turn, L
  <2> HIDE DEF x
  <2>4. Turn("K", p, r) = n
    BY <1>3, <1>6, <2>3
  <2> QED
    BY <1>4, <1>7, <2>2, <2>4
<1>8. CASE ~(r < L)
  <2>1. r - L \in 0..(L - 1) /\ 2 * p + 1 \in Nat
    BY <1>1, <1>3, <1>8 DEF b
  <2>2. n = L * (2 * p + 1) + (r - L)
    <3> DEFINE y == L * (2 * p)  z == L * (2 * p + 1)
    <3>1. x = y /\ z = y + L /\ y \in Int
      BY <1>1, <1>5, <1>6
    <3> HIDE DEF x, y, z
    <3>2. n = z + (r - L)
      BY <1>1, <1>3, <1>6, <3>1
    <3> QED
      BY <3>2 DEF z
  <2>3. n % L = r - L
    BY <1>1, <2>1, <2>2, Quotient
  <2>4. Turn("V", p, r - L) = p * (2 * L) + L + (r - L)
    BY DEF Turn, L
  <2> HIDE DEF x
  <2>5. Turn("V", p, r - L) = n
    BY <1>1, <1>3, <1>6, <2>4
  <2> QED
    BY <1>4, <1>8, <2>3, <2>5
<1> QED
  BY <1>7, <1>8

(* A column is written at its own turn and at no other.                    *)
LEMMA TurnOf ==
    ASSUME PathTypes, NEW n \in 0..(Columns - 1), NEW t \in {"K", "V"},
           NEW sk \in Positions, NEW c \in ColumnsOfPosition, Turn(t, sk, c) = n
    PROVE  Written(n).tensor = t /\ Written(n).position = sk /\ Written(n).column = c
BY TurnDecoded

-----------------------------------------------------------------------------
(* Where the regions lie apart, every column has a key of its own.         *)
StartOf(t) == IF t = "K" THEN layout.kt_col_start ELSE layout.v_col_start
OffsetOf(t) == IF t = "K" THEN layout.kt_row_offset ELSE layout.v_row_offset
Logical(t, sk, c) == StartOf(t) + sk * ColsPerKt + c

LEMMA RowWidth == PathTypes => M!ColumnsPerRow \in Nat \ {0}
BY DEF PathTypes, M!ColumnsPerRow

(* The rows of the mapping from start on are enough for the region.        *)
LEMMA RowOfRegion ==
    ASSUME PathTypes, NEW start \in Nat, NEW x \in Nat,
           x < start + layout.seq_len * ColsPerKt
    PROVE  x \div M!ColumnsPerRow \in Nat /\ x \div M!ColumnsPerRow < RowsOf(start)
           /\ RowsOf(start) \in Nat
<1> DEFINE b == M!ColumnsPerRow
           n == start + layout.seq_len * ColsPerKt
<1>1. b \in Nat \ {0} /\ n \in Nat
  BY RowWidth, ColsPerKtNat DEF PathTypes
<1>2. RowsOf(start) = (n + b - 1) \div b
  BY DEF RowsOf
<1>3. x < n
  OBVIOUS
<1> HIDE DEF b, n
<1>4. RowsOf(start) \in Nat /\ n <= b * RowsOf(start)
  BY <1>1, <1>2, RoundsUp
<1> DEFINE y == b * RowsOf(start)
<1>5. y \in Int
  BY <1>1, <1>4
<1> HIDE DEF y
<1>6. x < y
  BY <1>1, <1>3, <1>4, <1>5 DEF y
<1> QED
  BY <1>1, <1>4, <1>6, Divide, DividesBelow DEF b, y

LEMMA LogicalInRegion ==
    ASSUME PathTypes, Apart, NEW t \in {"K", "V"}, NEW sk \in Positions,
           NEW c \in ColumnsOfPosition
    PROVE  /\ StartOf(t) \in Nat /\ OffsetOf(t) \in Nat /\ Logical(t, sk, c) \in Nat
           /\ Logical(t, sk, c) < StartOf(t) + layout.seq_len * ColsPerKt
<1> DEFINE L == ColsPerKt
           S == layout.seq_len
           s == StartOf(t)
           x == sk * L
           y == S * L
<1>1. s \in Nat /\ OffsetOf(t) \in Nat
  BY DEF Apart, StartOf, OffsetOf
<1>2. L \in Nat /\ S \in Nat /\ sk \in 0..(S - 1) /\ c \in 0..(L - 1)
  BY ColsPerKtNat DEF PathTypes, Positions, ColumnsOfPosition
<1>3. Logical(t, sk, c) = s + x + c
  BY DEF Logical
<1>4. sk * L + L <= S * L /\ sk * L \in Nat
  <2> HIDE DEF S, L
  <2>1. sk + 1 <= S
    BY <1>2
  <2>2. (sk + 1) * L <= S * L
    BY <1>2, <2>1, Z3
  <2>3. (sk + 1) * L = sk * L + L
    BY <1>2, Z3
  <2> QED
    BY <1>2, <2>2, <2>3, Z3
<1>5. x \in Nat /\ y \in Int /\ x + L <= y
  BY <1>2, <1>4
<1> HIDE DEF x, y, s, S, L
<1>6. s + x + c \in Nat /\ s + x + c < s + y
  BY <1>1, <1>2, <1>5
<1> QED
  BY <1>1, <1>3, <1>6 DEF s, y, S, L

(* Within the bank neither the mapping nor the key wraps around.           *)
LEMMA KeyOf ==
    ASSUME PathTypes, Apart, NEW t \in {"K", "V"}, NEW sk \in Positions,
           NEW c \in ColumnsOfPosition
    PROVE  /\ Key(t, sk, c) = <<OffsetOf(t) + (Logical(t, sk, c) \div M!ColumnsPerRow),
                                Logical(t, sk, c) % M!ColumnsPerRow>>
           /\ Logical(t, sk, c) \div M!ColumnsPerRow \in Nat
           /\ OffsetOf(t) + (Logical(t, sk, c) \div M!ColumnsPerRow)
                 < (IF t = "K" THEN KEnd ELSE VEnd)
<1> DEFINE b == M!ColumnsPerRow
           x == Logical(t, sk, c)
           q == x \div b
           r == x % b
           o == OffsetOf(t)
           end == IF t = "K" THEN KEnd ELSE VEnd
           room == M!Smaller(BankRows, KeyRows)
           addr == M!EsdmAddr(Base, o, x)
<1>1. b \in Nat \ {0} /\ x \in Nat /\ o \in Nat
  BY RowWidth, LogicalInRegion
<1>2. q \in Nat /\ r \in 0..(b - 1) /\ q < RowsOf(StartOf(t)) /\ RowsOf(StartOf(t)) \in Nat
  <2>1. q \in Nat /\ q < RowsOf(StartOf(t)) /\ RowsOf(StartOf(t)) \in Nat
    BY LogicalInRegion, RowOfRegion
  <2> HIDE DEF x, b
  <2>2. r \in 0..(b - 1)
    BY <1>1, Divide
  <2> QED
    BY <2>1, <2>2 DEF x, b
<1>3. end = o + RowsOf(StartOf(t))
  BY DEF KEnd, VEnd, OffsetOf, StartOf
<1>4. end <= room
  <2>1. KEnd \in Int /\ VEnd \in Int
    <3>1. ASSUME NEW u \in {"K", "V"} PROVE RowsOf(StartOf(u)) \in Nat
      BY <3>1, LogicalInRegion, RowOfRegion
    <3>2. RowsOf(layout.kt_col_start) \in Nat /\ RowsOf(layout.v_col_start) \in Nat
      BY <3>1 DEF StartOf
    <3> QED
      BY <3>2 DEF KEnd, VEnd, PathTypes
  <2>2. M!AtLeast(KEnd, VEnd) <= room
    BY DEF Apart
  <2>3. KEnd <= M!AtLeast(KEnd, VEnd) /\ VEnd <= M!AtLeast(KEnd, VEnd)
        /\ M!AtLeast(KEnd, VEnd) \in Int
    BY <2>1 DEF M!AtLeast
  <2>4. room \in Int
    BY DEF PathTypes, M!Smaller
  <2> HIDE DEF room
  <2> QED
    BY <2>1, <2>2, <2>3, <2>4
<1>5. room <= BankRows /\ room <= KeyRows /\ room \in Nat
  BY DEF PathTypes, M!Smaller
<1>6. b <= BankCols /\ BankCols <= KeyCols /\ layout.enable_esdm
  BY DEF Apart
<1>7. Key(t, sk, c) = <<addr.row % KeyRows, addr.col % KeyCols>>
  BY Zenon DEF Key, EsdmPlace, OffsetOf, Logical, StartOf
<1>8. addr.row = M!EsdmRow(0, o, x) /\ addr.col = M!EsdmCol(x)
  BY <1>6 DEF M!EsdmAddr, Base
<1>9. M!EsdmRow(0, o, x) = M!Remainder(o + q, BankRows) /\ M!EsdmCol(x) = r % BankCols
  <2>1. M!AtLeast(0, x) = x /\ M!AtLeast(0, 0) = 0
    BY <1>1 DEF M!AtLeast
  <2>2. M!EsdmRow(0, o, x) = M!Remainder(0 + o + q, BankRows) /\ M!EsdmCol(x) = r % BankCols
    BY <2>1 DEF M!EsdmRow, M!EsdmCol
  <2>3. 0 + o + q = o + q
    BY <1>1, <1>2
  <2> QED
    BY <2>2, <2>3
<1> HIDE DEF b, q, r, o, addr, end, room, x
<1>10. o + q \in Nat /\ o + q < end /\ o + q < BankRows /\ o + q < KeyRows
  BY <1>1, <1>2, <1>3, <1>4, <1>5 DEF PathTypes
<1>11. M!Remainder(o + q, BankRows) = o + q /\ (o + q) % KeyRows = o + q
  BY <1>10, SmallerThan DEF PathTypes, M!Remainder
<1>12. r \in Nat /\ r < BankCols /\ r < KeyCols
  BY <1>1, <1>2, <1>6 DEF PathTypes
<1>13. r % BankCols = r /\ r % KeyCols = r
  BY <1>12, SmallerThan DEF PathTypes
<1>14. Key(t, sk, c) = <<o + q, r>>
  BY <1>7, <1>8, <1>9, <1>11, <1>13
<1> QED
  BY <1>2, <1>10, <1>14 DEF b, q, r, o, x, end

LEMMA KeysDistinct ==
    ASSUME PathTypes, Apart,
           NEW t \in {"K", "V"}, NEW sk \in Positions, NEW c \in ColumnsOfPosition,
           NEW u \in {"K", "V"}, NEW sl \in Positions, NEW d \in ColumnsOfPosition,
           Key(t, sk, c) = Key(u, sl, d)
    PROVE  t = u /\ sk = sl /\ c = d
<1> DEFINE b == M!ColumnsPerRow
           x == Logical(t, sk, c)
           y == Logical(u, sl, d)
           p == x \div b  r == x % b
           q == y \div b  s == y % b
<1>1. b \in Nat \ {0} /\ x \in Nat /\ y \in Nat
      /\ OffsetOf(t) \in Nat /\ OffsetOf(u) \in Nat
  BY RowWidth, LogicalInRegion
<1>2. /\ OffsetOf(t) + p = OffsetOf(u) + q /\ r = s
      /\ OffsetOf(t) + p < (IF t = "K" THEN KEnd ELSE VEnd)
      /\ OffsetOf(u) + q < (IF u = "K" THEN KEnd ELSE VEnd)
  BY KeyOf
<1>3. p \in Nat /\ q \in Nat /\ r \in Int /\ x = b * p + r /\ y = b * q + s
  <2> HIDE DEF b, x, y
  <2> QED
    BY <1>1, Divide
<1>4. KEnd <= layout.v_row_offset \/ VEnd <= layout.kt_row_offset
  BY DEF Apart
<1>5. KEnd \in Int /\ VEnd \in Int
  <2>1. ASSUME NEW w \in {"K", "V"} PROVE RowsOf(StartOf(w)) \in Nat
    BY <2>1, LogicalInRegion, RowOfRegion
  <2>2. RowsOf(layout.kt_col_start) \in Nat /\ RowsOf(layout.v_col_start) \in Nat
    BY <2>1 DEF StartOf
  <2> QED
    BY <2>2 DEF KEnd, VEnd, PathTypes
<1> HIDE DEF b, x, y, p, q, r, s
<1>6. t = u
  <2>1. OffsetOf("K") = layout.kt_row_offset /\ OffsetOf("V") = layout.v_row_offset
    BY DEF OffsetOf
  <2>2. t = "K" /\ u = "V" => FALSE
    BY <1>1, <1>2, <1>3, <1>4, <1>5, <2>1
  <2>3. t = "V" /\ u = "K" => FALSE
    BY <1>1, <1>2, <1>3, <1>4, <1>5, <2>1
  <2> QED
    BY <2>2, <2>3
<1>7. p = q
  BY <1>1, <1>2, <1>3, <1>6
<1>8. x = y
  BY <1>2, <1>3, <1>7
<1> DEFINE L == ColsPerKt
<1>9. L \in Nat \ {0} /\ c \in 0..(L - 1) /\ d \in 0..(L - 1) /\ sk \in Int /\ sl \in Int
  BY ColsPerKtNat DEF ColumnsOfPosition, Positions
<1>10. x = StartOf(t) + sk * L + c /\ y = StartOf(t) + sl * L + d /\ StartOf(t) \in Nat
  BY <1>6, LogicalInRegion DEF Logical, x, y
<1> HIDE DEF L
<1>11. L * sk + c = L * sl + d
  <2> DEFINE v == sk * L  w == sl * L
  <2>1. v \in Int /\ w \in Int /\ L * sk = v /\ L * sl = w
    BY <1>9, Z3
  <2>2. StartOf(t) + v + c = StartOf(t) + w + d
    BY <1>8, <1>10
  <2> HIDE DEF v, w
  <2> QED
    BY <1>9, <1>10, <2>1, <2>2
<1> QED
  BY <1>6, <1>9, <1>11, DivideOnce

-----------------------------------------------------------------------------
(* What is read back, and what is computed from it.                        *)
WrittenBack ==
    \A t \in {"K", "V"}, sk \in Positions, c \in ColumnsOfPosition :
        Turn(t, sk, c) < loaded =>
            /\ Key(t, sk, c) \in DOMAIN storage
            /\ storage[Key(t, sk, c)] = ColumnData(t, sk, c)

LEMMA AllReadBack ==
    ASSUME PathTypes, WrittenBack, loaded = Columns
    PROVE  \A t \in {"K", "V"}, sk \in Positions, d \in Dims : Stored(t, sk, d) = Value(t, sk, d)
<1> TAKE t \in {"K", "V"}, sk \in Positions, d \in Dims
<1> DEFINE c == d \div Width
           i == d % Width
<1>1. d \in Nat /\ d < layout.d_head /\ layout.d_head \in Nat /\ Width \in Nat \ {0}
  BY DEF PathTypes, Dims
<1>2. c \in Nat /\ i \in 0..(Width - 1) /\ d = Width * c + i
  BY <1>1, Divide
<1>3. c \in ColumnsOfPosition
  <2> DEFINE L == ColsPerKt
             w == Width * L
  <2>1. L \in Nat /\ layout.d_head <= w /\ w \in Int
    BY <1>1, ColsPerKtNat
  <2>2. d < w
    <3> HIDE DEF w
    <3> QED
      BY <1>1, <2>1
  <2> HIDE DEF L
  <2>3. c < L
    BY <1>1, <2>1, <2>2, DividesBelow
  <2> HIDE DEF c
  <2> QED
    BY <1>2, <2>1, <2>3 DEF ColumnsOfPosition, L
<1> HIDE DEF c, i
<1>4. Turn(t, sk, c) < loaded
  <2>1. Turn(t, sk, c) \in 0..(Columns - 1)
    BY <1>3, TurnDecoded
  <2>2. Columns \in Int
    BY ColsPerKtNat DEF PathTypes, Columns
  <2> QED
    BY <2>1, <2>2
<1>5. ReadCol(t, sk, c) = ColumnData(t, sk, c)
  BY <1>3, <1>4 DEF WrittenBack, ReadCol
<1>6. c * Width + i = d
  <2> DEFINE x == Width * c
  <2>1. c * Width = x /\ d = x + i
    BY <1>1, <1>2, Z3
  <2> QED
    BY <2>1
<1>7. ColumnData(t, sk, c)[i] = Value(t, sk, d)
  BY <1>1, <1>2, <1>6 DEF ColumnData
<1> QED
  BY <1>5, <1>7 DEF Stored, c, i

LEMMA ExecutedIs ==
    ASSUME PathTypes, NEW sq \in Nat,
           \A t \in {"K", "V"}, sk \in Positions, d \in Dims : Stored(t, sk, d) = Value(t, sk, d)
    PROVE  Executed(sq) = [i \in 1..layout.d_head |-> GoldenAt(0, sq, i - 1)]
<1> DEFINE kv == (0 * layout.num_kv_heads) \div layout.num_heads
           F1(sk) == [d \in Dims |-> Q(0, sq, d) * Stored("K", sk, d)]
           F2(sk) == [d \in Dims |-> Q(0, sq, d) * K(0, sk, d)]
           score1 == [sk \in Positions |-> Sum(layout.d_head, F1(sk))]
           score2 == [sk \in Positions |-> Sum(layout.d_head, F2(sk))]
           P1(i) == SparsePV(We(0, sq), score1, [sk \in Positions |-> Stored("V", sk, i - 1)])
           P2(i) == SparsePV(We(0, sq), score2, [sk \in Positions |-> V(0, sk, i - 1)])
<1>1. kv = 0
  <2> DEFINE h == layout.num_heads
             z == 0 * layout.num_kv_heads
  <2>1. h \in Nat \ {0} /\ z = 0
    BY DEF PathTypes
  <2> HIDE DEF h, z
  <2>2. z = h * 0 + 0 /\ 0 \in 0..(h - 1) /\ 0 \in Nat
    BY <2>1
  <2>3. z \div h = 0
    BY <2>1, <2>2, Quotient
  <2> QED
    BY <2>3 DEF h, z
<1>2. \A sk \in Positions : F1(sk) = F2(sk)
  <2> TAKE sk \in Positions
  <2>1. \A d \in Dims : Stored("K", sk, d) = K(0, sk, d)
    BY DEF Value
  <2> QED
    BY <2>1
<1>3. score1 = score2
  <2> HIDE DEF F1, F2
  <2> QED
    BY <1>2
<1>4. ASSUME NEW i \in 1..layout.d_head PROVE P1(i) = P2(i)
  <2>1. i - 1 \in Dims
    BY DEF Dims, PathTypes
  <2>2. [sk \in Positions |-> Stored("V", sk, i - 1)] = [sk \in Positions |-> V(0, sk, i - 1)]
    <3>1. \A sk \in Positions : Stored("V", sk, i - 1) = V(0, sk, i - 1)
      BY <2>1 DEF Value
    <3> QED
      BY <3>1
  <2> HIDE DEF score1, score2
  <2> QED
    BY <1>3, <2>2
<1>5. Executed(sq) = [i \in 1..layout.d_head |-> P1(i)]
  BY Zenon DEF Executed
<1>6. ASSUME NEW i \in 1..layout.d_head PROVE GoldenAt(0, sq, i - 1) = P2(i)
  <2>1. GoldenAt(0, sq, i - 1) =
          SparsePV(We(0, sq),
                   [sk \in Positions |-> Sum(layout.d_head, [e \in Dims |-> Q(0, sq, e) * K(kv, sk, e)])],
                   [sk \in Positions |-> V(kv, sk, i - 1)])
    BY Zenon DEF GoldenAt
  <2> HIDE DEF kv
  <2> QED
    BY <1>1, <2>1, Zenon
<1> HIDE DEF P1, P2
<1> QED
  BY <1>4, <1>5, <1>6

(* Where the value of position sq and dimension i - 1 of the first head is *)
(* in the output of the golden model.                                      *)
LEMMA GoldenPlace ==
    ASSUME PathTypes, NEW sq \in Nat, sq < layout.seq_len, NEW i \in 1..layout.d_head
    PROVE  /\ sq * layout.d_head + i \in 1..(layout.num_heads * layout.seq_len * layout.d_head)
           /\ GoldenOutput[sq * layout.d_head + i] = GoldenAt(0, sq, i - 1)
<1> DEFINE D == layout.d_head
           S == layout.seq_len
           H == layout.num_heads
           n == sq * D + i
           m == n - 1
           j == i - 1
           SD == S * D
           N == H * S * D
<1>1. D \in Nat \ {0} /\ S \in Nat \ {0} /\ H \in Nat \ {0} /\ j \in 0..(D - 1) /\ i = j + 1
  BY DEF PathTypes
<1>2. GoldenOutput = [k \in 1..N |-> GoldenAt((k - 1) \div SD, ((k - 1) \div D) % S, (k - 1) % D)]
  BY Zenon DEF GoldenOutput
<1> HIDE DEF D, S, H, SD, N, j
<1>3. m = D * sq + j /\ m \in Nat
  <2> DEFINE x == sq * D
  <2>1. x \in Nat /\ D * sq = x
    BY <1>1, Z3
  <2> HIDE DEF x
  <2>2. x + i - 1 = x + j /\ x + i - 1 \in Nat
    BY <1>1, <2>1
  <2> QED
    BY <2>1, <2>2 DEF x
<1>4. SD \in Nat \ {0} /\ N \in Nat /\ m < SD /\ SD <= N
  <2>1. SD \in Nat \ {0} /\ SD = D * S
    BY <1>1, Z3 DEF SD
  <2>2. D * sq + D <= D * S
    <3>1. sq + 1 <= S
      BY <1>1 DEF S
    <3>2. D * (sq + 1) <= D * S
      BY <1>1, <3>1, Z3
    <3>3. D * (sq + 1) = D * sq + D
      BY <1>1, Z3
    <3> QED
      BY <3>2, <3>3
  <2>3. N = H * SD
    BY <1>1, Z3 DEF N, SD
  <2>4. SD <= H * SD /\ H * SD \in Nat
    BY <1>1, <2>1, Z3
  <2> DEFINE x == D * sq
  <2>5. x \in Int
    BY <1>1
  <2> HIDE DEF x, SD
  <2>6. x + j < D * S
    BY <1>1, <2>1, <2>2, <2>5 DEF x
  <2> QED
    BY <1>3, <2>1, <2>3, <2>4, <2>6 DEF x
<1>5. m \div D = sq /\ m % D = j
  <2> HIDE DEF m
  <2> QED
    BY <1>1, <1>3, Quotient
<1>6. m \div SD = 0
  <2> HIDE DEF m
  <2> QED
    BY <1>3, <1>4, SmallerThan
<1>7. sq % S = sq
  <2>1. sq < S
    BY DEF S
  <2> QED
    BY <1>1, <2>1, SmallerThan
<1>8. n \in 1..N /\ n - 1 = m
  <2>1. n = m + 1
    <3>1. n \in Int
      <4>1. sq * D \in Int /\ i \in Int
        BY <1>1
      <4> QED
        BY <4>1
    <3> HIDE DEF n
    <3> QED
      BY <3>1
  <2> HIDE DEF n
  <2>2. m + 1 \in 1..N
    <3> HIDE DEF m
    <3> QED
      BY <1>3, <1>4
  <2> QED
    BY <2>1, <2>2
<1>9. GoldenOutput[n] = GoldenAt(0, sq, j)
  <2> HIDE DEF n, m
  <2>1. GoldenOutput[n] = GoldenAt(m \div SD, (m \div D) % S, m % D)
    BY <1>2, <1>8
  <2> QED
    BY <1>5, <1>6, <1>7, <2>1
<1> QED
  BY <1>8, <1>9 DEF n, N, D, S, H, j

(* Sequences: one after the other, and the beginning of one.               *)
IsList(f, n) == DOMAIN f = 1..n /\ f = [i \in 1..n |-> f[i]]

Joined(f, n, g, m) == [i \in 1..(n + m) |-> IF i <= n THEN f[i] ELSE g[i - n]]
Start(f, m) == [i \in 1..m |-> f[i]]

LEMMA AppendedAt ==
    ASSUME NEW n \in Nat, NEW m \in Nat, NEW f, NEW g, IsList(f, n), IsList(g, m)
    PROVE  f \o g = Joined(f, n, g, m)
<1> DEFINE A == {f[i] : i \in 1..n} \cup {g[i] : i \in 1..m}
           N == n + m
           Entry(i) == IF i <= n THEN f[i] ELSE g[i - n]
<1>1. f \in [1..n -> A] /\ g \in [1..m -> A]
  BY DEF IsList
<1> HIDE DEF A
<1>2. f \in Seq(A) /\ g \in Seq(A) /\ Len(f) = n /\ Len(g) = m
  BY <1>1
<1> DEFINE h == f \o g
<1>3. Len(h) = N /\ h \in Seq(A) /\ N \in Nat
  BY <1>2
<1>4. \A i \in 1..N : h[i] = Entry(i)
  BY <1>2
<1> HIDE DEF N, Entry, h
<1>5. h = [i \in 1..N |-> h[i]]
  BY <1>3
<1>6. h = [i \in 1..N |-> Entry(i)]
  BY <1>4, <1>5, Zenon
<1> QED
  BY <1>6, Zenon DEF N, Entry, h, Joined

LEMMA BeginningOf ==
    ASSUME NEW n \in Nat, NEW m \in 0..n, NEW f, IsList(f, n)
    PROVE  SubSeq(f, 1, m) = Start(f, m)
<1> DEFINE A == {f[i] : i \in 1..n}
<1>1. f \in [1..n -> A]
  BY DEF IsList
<1> HIDE DEF A
<1>2. f \in Seq(A) /\ Len(f) = n
  BY <1>1
<1>3. SubSeq(f, 1, m) = [i \in 1..m |-> f[i]]
  BY <1>2
<1> QED
  BY <1>3, Zenon DEF Start

(* What has been computed is the beginning of the golden output.           *)
Beginning(n) == [i \in 1..(n * layout.d_head) |-> GoldenOutput[i]]

LEMMA ExecutedNext ==
    ASSUME PathTypes, NEW sq \in Nat, sq < layout.seq_len,
           \A t \in {"K", "V"}, sk \in Positions, d \in Dims : Stored(t, sk, d) = Value(t, sk, d)
    PROVE  Beginning(sq) \o Executed(sq) = Beginning(sq + 1)
<1> DEFINE D == layout.d_head
           n == sq * D
           f == Beginning(sq)
           g == Executed(sq)
<1>1. D \in Nat /\ n \in Nat /\ (sq + 1) * D = n + D
  <2>1. D \in Nat
    BY DEF PathTypes
  <2> HIDE DEF D
  <2> QED
    BY <2>1, Z3
<1>2. g = [i \in 1..D |-> GoldenAt(0, sq, i - 1)]
  BY ExecutedIs
<1>3. f = [i \in 1..n |-> GoldenOutput[i]]
  BY DEF Beginning
<1>4. \A i \in 1..D : GoldenOutput[n + i] = GoldenAt(0, sq, i - 1)
  BY GoldenPlace
<1>5. Beginning(sq + 1) = [i \in 1..(n + D) |-> GoldenOutput[i]]
  BY <1>1 DEF Beginning
<1> HIDE DEF D, n, f, g
<1>6. f \o g = Joined(f, n, g, D)
  <2>1. IsList(f, n)
    BY <1>3, Zenon DEF IsList
  <2>2. IsList(g, D)
    BY <1>2, Zenon DEF IsList
  <2> QED
    BY <1>1, <2>1, <2>2, AppendedAt, Zenon
<1>7. ASSUME NEW i \in 1..(n + D)
      PROVE  (IF i <= n THEN f[i] ELSE g[i - n]) = GoldenOutput[i]
  <2>1. CASE i <= n
    <3>1. i \in 1..n
      BY <1>1, <2>1
    <3> QED
      BY <1>3, <2>1, <3>1
  <2>2. CASE ~(i <= n)
    <3>1. i - n \in 1..D /\ n + (i - n) = i
      BY <1>1, <2>2
    <3> QED
      BY <1>2, <1>4, <2>2, <3>1
  <2> QED
    BY <2>1, <2>2
<1>8. f \o g = [i \in 1..(n + D) |-> GoldenOutput[i]]
  BY <1>6, <1>7, Zenon DEF Joined
<1> QED
  BY <1>5, <1>8, Zenon DEF f, g

-----------------------------------------------------------------------------
(* What depends on the layout alone stays as it is.                        *)
LEMMA LayoutStays ==
    ASSUME layout' = layout
    PROVE  /\ Columns' = Columns /\ Positions' = Positions
           /\ ColumnsOfPosition' = ColumnsOfPosition /\ Apart' = Apart
           /\ \A t, sk, c : /\ Turn(t, sk, c)' = Turn(t, sk, c)
                            /\ Key(t, sk, c)' = Key(t, sk, c)
                            /\ ColumnData(t, sk, c)' = ColumnData(t, sk, c)
           /\ \A n : Beginning(n)' = Beginning(n)
<1>1. ColsPerKt' = ColsPerKt /\ Positions' = Positions /\ Dims' = Dims
      /\ M!ColumnsPerRow' = M!ColumnsPerRow
  BY DEF ColsPerKt, Positions, Dims, M!ColumnsPerRow
<1>2. Columns' = Columns /\ ColumnsOfPosition' = ColumnsOfPosition
  BY <1>1, Zenon DEF Columns, ColumnsOfPosition
<1>3. Apart' = Apart
  <2>1. KEnd' = KEnd /\ VEnd' = VEnd
    BY <1>1, Zenon DEF KEnd, VEnd, RowsOf
  <2> QED
    BY <1>1, <2>1, Zenon DEF Apart, M!AtLeast, M!Smaller
<1>4. ASSUME NEW t, NEW sk, NEW c
      PROVE  /\ Turn(t, sk, c)' = Turn(t, sk, c)
             /\ Key(t, sk, c)' = Key(t, sk, c)
             /\ ColumnData(t, sk, c)' = ColumnData(t, sk, c)
  <2>1. Turn(t, sk, c)' = Turn(t, sk, c)
    BY <1>1, Zenon DEF Turn
  <2>2. Key(t, sk, c)' = Key(t, sk, c)
    BY <1>1, Zenon DEF Key, EsdmPlace, Base, M!EsdmAddr, M!EsdmRow, M!EsdmCol, M!AtLeast,
       M!Remainder
  <2>3. ColumnData(t, sk, c)' = ColumnData(t, sk, c)
    BY Zenon DEF ColumnData, Value
  <2> QED
    BY <2>1, <2>2, <2>3
<1>5. ASSUME NEW n PROVE Beginning(n)' = Beginning(n)
  <2>1. ASSUME NEW h, NEW sq, NEW d PROVE GoldenAt(h, sq, d)' = GoldenAt(h, sq, d)
    <3> DEFINE kv == (h * layout.num_kv_heads) \div layout.num_heads
               score == [sk \in Positions |->
                           Sum(layout.d_head, [e \in Dims |-> Q(h, sq, e) * K(kv, sk, e)])]
    <3>1. kv' = kv
      BY Zenon
    <3>2. score' = score
      BY <1>1, <3>1, Zenon
    <3>3. GoldenAt(h, sq, d)
            = SparsePV(We(h, sq), score, [sk \in Positions |-> V(kv, sk, d)])
      BY Zenon DEF GoldenAt
    <3>4. GoldenAt(h, sq, d)'
            = SparsePV(We(h, sq), score, [sk \in Positions |-> V(kv, sk, d)])'
      BY Zenon DEF GoldenAt
    <3>5. SparsePV(We(h, sq), score, [sk \in Positions |-> V(kv, sk, d)])'
            = SparsePV(We(h, sq), score, [sk \in Positions |-> V(kv, sk, d)])
      BY <1>1, <3>1, <3>2, Zenon DEF SparsePV, ReLU
    <3> QED
      BY <3>3, <3>4, <3>5
  <2>2. GoldenOutput' = GoldenOutput
    BY <2>1, Zenon DEF GoldenOutput
  <2> QED
    BY <2>2, Zenon DEF Beginning
<1> QED
  BY <1>1, <1>2, <1>3, <1>4, <1>5

(* The columns whose turn has come are stored, each at its own key, and    *)
(* the values computed are those of the golden model.                      *)
PathInv ==
    /\ layout \in Layouts /\ loaded \in 0..Columns
    /\ m_current_sq \in 0..layout.seq_len
    /\ Apart => WrittenBack /\ m_hw_output = Beginning(m_current_sq) /\ verdict # "failed"

LEMMA PathStarts == PathInit => PathInv
<1> SUFFICES ASSUME PathInit PROVE PathInv
  OBVIOUS
<1>1. PathTypes /\ layout \in Layouts /\ loaded = 0 /\ m_current_sq = 0 /\ verdict = "none"
  BY Typed DEF PathInit
<1>2. Columns \in Nat /\ layout.seq_len \in Nat /\ layout.d_head \in Nat
  BY <1>1, ColsPerKtNat DEF PathTypes, Columns
<1>3. WrittenBack
  <2>1. ASSUME NEW t \in {"K", "V"}, NEW sk \in Positions, NEW c \in ColumnsOfPosition
        PROVE  ~(Turn(t, sk, c) < loaded)
    <3>1. Turn(t, sk, c) \in 0..(Columns - 1)
      BY <1>1, TurnDecoded
    <3> QED
      BY <1>1, <1>2, <3>1
  <2> QED
    BY <2>1 DEF WrittenBack
<1>4. m_hw_output = Beginning(0)
  <2>1. 1..(0 * layout.d_head) = {}
    BY <1>2
  <2>2. Beginning(0) = <<>>
    BY <2>1 DEF Beginning
  <2> QED
    BY <2>2 DEF PathInit
<1> QED
  BY <1>1, <1>2, <1>3, <1>4 DEF PathInv

LEMMA LoadKeeps ==
    ASSUME PathInv, LoadColumn
    PROVE  PathInv'
<1> DEFINE w == Written(loaded)
           key == Key(w.tensor, w.position, w.column)
           data == ColumnData(w.tensor, w.position, w.column)
<1>1. PathTypes /\ layout' = layout /\ loaded' = loaded + 1 /\ m_current_sq' = m_current_sq
      /\ m_hw_output' = m_hw_output /\ verdict' = verdict
      /\ storage' = WriteCol(storage, key, data)
  BY Typed DEF PathInv, LoadColumn
<1>2. Columns \in Nat /\ loaded \in 0..(Columns - 1) /\ loaded' \in 0..Columns
  <2>1. Columns \in Nat
    BY <1>1, ColsPerKtNat DEF PathTypes, Columns
  <2> QED
    BY <1>1, <2>1 DEF PathInv, LoadColumn
<1>3. w.tensor \in {"K", "V"} /\ w.position \in Positions /\ w.column \in ColumnsOfPosition
  BY <1>1, <1>2, WrittenDecoded
<1>4. ASSUME Apart, WrittenBack,
             NEW t \in {"K", "V"}, NEW sk \in Positions, NEW c \in ColumnsOfPosition,
             Turn(t, sk, c) < loaded + 1
      PROVE  /\ Key(t, sk, c) \in DOMAIN storage'
             /\ storage'[Key(t, sk, c)] = ColumnData(t, sk, c)
  <2>1. Turn(t, sk, c) \in 0..(Columns - 1)
    BY <1>1, TurnDecoded
  <2>2. storage' = [k \in DOMAIN storage \cup {key} |-> IF k = key THEN data ELSE storage[k]]
    BY <1>1 DEF WriteCol
  <2>3. CASE Turn(t, sk, c) = loaded
    <3>1. w.tensor = t /\ w.position = sk /\ w.column = c
      BY <1>1, <1>2, <2>3, TurnOf
    <3>2. key = Key(t, sk, c) /\ data = ColumnData(t, sk, c)
      BY <3>1, Zenon
    <3> HIDE DEF key, data
    <3> QED
      BY <2>2, <3>2
  <2>4. CASE Turn(t, sk, c) < loaded
    <3>1. Key(t, sk, c) \in DOMAIN storage /\ storage[Key(t, sk, c)] = ColumnData(t, sk, c)
      BY <1>4, <2>4 DEF WrittenBack
    <3>2. Key(t, sk, c) # key
      <4>1. SUFFICES ASSUME Key(t, sk, c) = key PROVE FALSE
        OBVIOUS
      <4>2. t = w.tensor /\ sk = w.position /\ c = w.column
        <5> HIDE DEF w
        <5> QED
          BY <1>1, <1>3, <1>4, <4>1, KeysDistinct
      <4>3. Turn(t, sk, c) = Turn(w.tensor, w.position, w.column)
        BY <4>2, Zenon
      <4>4. Turn(w.tensor, w.position, w.column) = loaded
        BY <1>1, <1>2, WrittenTurn
      <4> QED
        BY <1>2, <2>1, <2>4, <4>3, <4>4
    <3> HIDE DEF key, data
    <3> QED
      BY <2>2, <3>1, <3>2
  <2> QED
    BY <1>2, <1>4, <2>1, <2>3, <2>4
<1>5. Apart => WrittenBack'
  BY <1>1, <1>4, LayoutStays DEF WrittenBack, PathInv
<1> QED
  BY <1>1, <1>2, <1>5, LayoutStays DEF PathInv

LEMMA ExecuteKeeps ==
    ASSUME PathInv, ExecuteToken
    PROVE  PathInv'
<1>1. PathTypes /\ layout' = layout /\ loaded' = loaded /\ storage' = storage
      /\ loaded = Columns /\ verdict' = verdict
  BY Typed DEF PathInv, ExecuteToken
<1>2. WrittenBack' = WrittenBack
  BY <1>1, LayoutStays DEF WrittenBack
<1>3. CASE m_current_sq < layout.seq_len
  <2>1. m_current_sq' = m_current_sq + 1 /\ m_hw_output' = m_hw_output \o Executed(m_current_sq)
    BY <1>3 DEF ExecuteToken
  <2>2. m_current_sq \in Nat /\ m_current_sq' \in 0..layout.seq_len
    BY <1>1, <1>3, <2>1 DEF PathInv, PathTypes
  <2>3. ASSUME Apart PROVE m_hw_output' = Beginning(m_current_sq')
    <3>1. \A t \in {"K", "V"}, sk \in Positions, d \in Dims : Stored(t, sk, d) = Value(t, sk, d)
      BY <1>1, <2>3, AllReadBack DEF PathInv
    <3>2. Beginning(m_current_sq) \o Executed(m_current_sq) = Beginning(m_current_sq + 1)
      BY <1>1, <1>3, <2>2, <3>1, ExecutedNext
    <3> QED
      BY <2>1, <2>3, <3>2 DEF PathInv
  <2> QED
    BY <1>1, <1>2, <2>2, <2>3, LayoutStays DEF PathInv
<1>4. CASE ~(m_current_sq < layout.seq_len)
  <2>1. m_current_sq' = m_current_sq /\ m_hw_output' = m_hw_output
    BY <1>4 DEF ExecuteToken
  <2> QED
    BY <1>1, <1>2, <2>1, LayoutStays DEF PathInv
<1> QED
  BY <1>3, <1>4

LEMMA FinalizeKeeps ==
    ASSUME PathInv, Finalize
    PROVE  PathInv'
<1>1. PathTypes /\ layout' = layout /\ loaded' = loaded /\ storage' = storage
      /\ m_current_sq' = m_current_sq /\ m_hw_output' = m_hw_output
  BY Typed DEF PathInv, Finalize
<1>2. WrittenBack' = WrittenBack
  BY <1>1, LayoutStays DEF WrittenBack
<1>3. ASSUME Apart PROVE verdict' # "failed"
  <2> DEFINE D == layout.d_head
             k == m_current_sq * D
             N == layout.num_heads * layout.seq_len * D
  <2>1. k \in 0..N /\ N \in Nat
    <3> DEFINE S == layout.seq_len  H == layout.num_heads  q == m_current_sq
    <3>1. D \in Nat /\ S \in Nat /\ H \in Nat \ {0} /\ q \in Nat /\ q <= S
      BY <1>1 DEF PathInv, PathTypes
    <3> HIDE DEF D, S, H, q
    <3>2. q * D \in Nat /\ q * D <= S * D /\ S * D \in Nat
      BY <3>1, Z3
    <3>3. S * D <= H * (S * D) /\ H * (S * D) = H * S * D /\ H * S * D \in Nat
      BY <3>1, <3>2, Z3
    <3> QED
      BY <3>2, <3>3 DEF S, H, q
  <2>2. IsList(GoldenOutput, N)
    BY DEF GoldenOutput, IsList
  <2> HIDE DEF N, k
  <2>3. SubSeq(GoldenOutput, 1, k) = Start(GoldenOutput, k)
    BY <2>1, <2>2, BeginningOf, Zenon
  <2>4. m_hw_output = SubSeq(GoldenOutput, 1, m_current_sq * layout.d_head)
    BY <1>3, <2>3 DEF PathInv, Beginning, Start, k
  <2> QED
    BY <2>4 DEF Finalize
<1> QED
  BY <1>1, <1>2, <1>3, LayoutStays DEF PathInv

LEMMA PathSteps == PathInv /\ [PathNext]_pathVars => PathInv'
<1> SUFFICES ASSUME PathInv, [PathNext]_pathVars PROVE PathInv'
  OBVIOUS
<1>1. CASE LoadColumn
  BY <1>1, LoadKeeps
<1>2. CASE ExecuteToken
  BY <1>2, ExecuteKeeps
<1>3. CASE Finalize
  BY <1>3, FinalizeKeeps
<1>4. CASE UNCHANGED pathVars
  <2>1. layout' = layout /\ loaded' = loaded /\ storage' = storage
        /\ m_current_sq' = m_current_sq /\ m_hw_output' = m_hw_output /\ verdict' = verdict
    BY <1>4 DEF pathVars
  <2>2. WrittenBack' = WrittenBack
    BY <2>1, LayoutStays DEF WrittenBack
  <2> QED
    BY <2>1, <2>2, LayoutStays DEF PathInv
<1> QED
  BY <1>1, <1>2, <1>3, <1>4 DEF PathNext

(* When the regions lie apart, every value of K and V is read back as it   *)
(* was written, and the outputs are those of the golden model, whatever    *)
(* the tensors, the geometry and the sizes                                 *)
(* (setup_functional_data, execute_functional_token, finalize).            *)
THEOREM ValuesReadBack == PathSpec => []DataPathAgrees
<1>1. PathInv => DataPathAgrees
  <2> SUFFICES ASSUME PathInv PROVE DataPathAgrees
    OBVIOUS
  <2>1. PathTypes
    BY Typed DEF PathInv
  <2>2. ReadsBack
    BY <2>1, AllReadBack DEF ReadsBack, PathInv
  <2>3. MatchesGolden
    BY DEF MatchesGolden, PathInv
  <2> QED
    BY <2>2, <2>3 DEF DataPathAgrees
<1> QED
  BY <1>1, PathStarts, PathSteps, PTL DEF PathSpec
===============================================================================
