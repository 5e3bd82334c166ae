------------------------------- MODULE EsefSystem -------------------------------
(***************************************************************************)
(* The SPARE-PIM simulator with the operations each request really expands *)
(* to: SparePimSystem's Program and StatsDelta are given the values of     *)
(* EsefExpansion.                                                          *)
(***************************************************************************)
EXTENDS SparePimSystem, EsefExpansion

CONSTANT Request   \* Reqs -> the request record EsefExpansion describes

EsefProgram == [r \in Reqs |-> Expand(r, Request[r])]
EsefStats == [r \in Reqs |-> StatsOf(Request[r])]

ASSUME GeometryAssumption ==
    /\ Pchs = 0..(NumPchs - 1) /\ Bgs = 0..(NumBgs - 1) /\ Bks = 0..(NumBanks - 1)
    /\ Rows = 0..(NumRows - 1) /\ Cols = 0..(NumCols - 1)
    /\ NoRequest = NoReq
    /\ Program = EsefProgram /\ StatsDelta = EsefStats /\ StatKeys = ExpansionStats
    /\ PageCommands \subseteq Commands

(* The frontend sends tokens only (sparepim_trace.cpp:125).                 *)
ASSUME RequestAssumption == \A r \in Reqs : IsToken(Request[r])

-----------------------------------------------------------------------------
(* Safety.                                                                 *)

(* The page-hit statistics, counted while expanding, agree with the        *)
(* commands issued ticks later and those still in m_op_queue.              *)
StatsMatchCommands ==
    \A ch \in Channels :
        CountersMatch([c \in PageCommands |-> issued[ch][c] + Number(opq[ch], c)], stats[ch])

(* MAC and SPM compute on the row their request opened: when either is     *)
(* issued, every bank has exactly the addressed row open.                  *)
ComputesOnOpenRow ==
    [][\A ch \in Channels, c \in {"MAC", "SPM"} :
         Issues(ch, c) /\ UsesOpenRow(HeadOp(ch)) =>
             \A b \in Banks : open[ch][b] = {HeadOp(ch).addr.row}]_sysVars

(* So every row is opened for the request that uses it, and closed by it.  *)
RowsServeTheirRequest == RowsBracketed /\ ComputesOnOpenRow

-----------------------------------------------------------------------------
(* The system implements EsefService.                                      *)

TokenStages == [r \in Reqs |-> StagesOf(Request[r])]

Service == INSTANCE EsefService WITH
    pending <- queue,
    current <- [ch \in Channels |-> Serving(ch)],
    todo <- [ch \in Channels |->
        IF opq[ch] = <<>> THEN <<>>
        ELSE StagesLeft(opq[ch], TokenStages[Serving(ch)])],
    finished <- done,
    Stages <- TokenStages

(* Every step of the simulator is a step of the abstract service or leaves *)
(* it unchanged: commands of one token never leak into another's stage, no *)
(* stage is entered early, repeated or left out.                           *)
ImplementsService == Service!Spec
=============================================================================
