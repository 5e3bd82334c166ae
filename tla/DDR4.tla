-------------------------------- MODULE DDR4 --------------------------------
(***************************************************************************)
(* The DRAM device as the generic controller sees it: the node tree        *)
(* instantiated by src/dram/impl/DDR4.cpp, the states of its banks, the    *)
(* prerequisites of its commands and the end of a refresh, which the       *)
(* device schedules for itself.  The pseudo channels of DramTree are ranks.*)
(***************************************************************************)
EXTENDS DramTree, FiniteSets

CONSTANTS
    SiblingGap,     \* the constraints between a node and its siblings
    nRFC            \* the length of a refresh

(* The end of a refresh comes nRFC - 1 cycles after it.  With nRFC = 1 the *)
(* device would look for it at a cycle that is over and never see it.  The *)
(* table keeps an ACT away from a refresh of its rank (DDR4.cpp:471).      *)
ASSUME Ddr4Assumption ==
    /\ SiblingGap \in [Levels -> [Commands -> [Commands -> Int]]]
    /\ {"ACT", "PRE", "PREA", "RD", "WR", "REFab"} \subseteq Commands
    /\ nRFC \in Nat /\ nRFC > 1
    /\ Scope["ACT"] > 0 /\ Gap[1]["REFab"]["ACT"] >= nRFC

VARIABLES
    state,   \* channel -> bank -> m_state
    open,    \* channel -> bank -> the rows its m_row_state marks as opened
    ending   \* channel -> the refreshes in m_future_actions: rank and cycles left

ddrVars == <<wait, acts, state, open, ending>>

BankStates == {"Closed", "Opened", "Refreshing"}

BankAddrs == [path : Banks, row : Rows, col : Cols]
RankAddrs == [path : {<<rank, Each, Each>> : rank \in Pchs}, row : {Each}, col : {Each}]

DdrTypeOK ==
    /\ wait \in [Channels -> [Nodes -> [Commands -> Nat]]]
    /\ acts \in [Channels -> [Nodes -> [1..FawDepth -> 0..Faw]]]
    /\ state \in [Channels -> [Banks -> BankStates]]
    /\ open \in [Channels -> [Banks -> SUBSET Rows]]
    /\ ending \in [Channels -> SUBSET [rank : Pchs, left : 1..(nRFC - 1)]]

DdrInit ==
    /\ TreeInit
    /\ state = [ch \in Channels |-> [b \in Banks |-> "Closed"]]
    /\ open = [ch \in Channels |-> [b \in Banks |-> {}]]
    /\ ending = [ch \in Channels |-> {}]

RankBanks(rank) == {b \in Banks : b[1] = rank}

-----------------------------------------------------------------------------
(* get_preq_command(): the command that must be issued before cmd can be.  *)

(* RequireRowOpen, for RD, WR and ACT.                                     *)
RowOpenPreq(ch, cmd, addr) ==
    CASE state[ch][addr.path] # "Opened"      -> "ACT"
      [] addr.row \in open[ch][addr.path]     -> cmd
      [] OTHER                                -> "PRE"

(* RequireAllBanksClosed: the first bank that is not closed decides.       *)
Earlier(b, c) == b[2] < c[2] \/ (b[2] = c[2] /\ b[3] <= c[3])

AllClosedPreq(ch, cmd, rank) ==
    LET busy == {b \in RankBanks(rank) : state[ch][b] # "Closed"}
    IN  IF \E b \in busy : state[ch][b] = "Opened" /\ \A c \in busy : Earlier(b, c)
        THEN "PREA" ELSE cmd

Preq(ch, cmd, addr) ==
    CASE cmd \in {"RD", "WR", "ACT"} -> RowOpenPreq(ch, cmd, addr)
      [] cmd = "REFab"               -> AllClosedPreq(ch, cmd, addr.path[1])
      [] OTHER                       -> cmd

(* check_rowbuffer_hit() and check_node_open().                            *)
RowHit(ch, addr) == state[ch][addr.path] = "Opened" /\ addr.row \in open[ch][addr.path]
NodeOpen(ch, addr) == state[ch][addr.path] = "Opened"

-----------------------------------------------------------------------------
(* issue_command().                                                        *)

(* A node beside the path: its parent is on it and the node is not.        *)
IsSibling(n, path) ==
    /\ n # <<>>
    /\ \A i \in 1..(Len(n) - 1) : path[i] \in {Each, n[i]}
    /\ path[Len(n)] \notin {Each, n[Len(n)]}

(* update_timing() at one node.                                            *)
WaitAfter(ch, n, cmd, path, d) ==
    Larger(wait[ch][n][d],
           IF OnPath(n, path) THEN TableDelay(ch, n, cmd, d)
           ELSE IF IsSibling(n, path) THEN SiblingGap[Len(n)][cmd][d] ELSE 0)

(* update_states(): the actions set_actions() installs.                    *)
Reaches(cmd, path, b) ==
    IF cmd \in {"PREA", "REFab"} THEN path[1] \in {Each, b[1]} ELSE OnPath(b, path)

StateAfter(was, cmd) ==
    CASE cmd = "ACT"             -> "Opened"
      [] cmd \in {"PRE", "PREA"} -> "Closed"
      [] cmd = "REFab"           -> "Refreshing"
      [] OTHER                   -> was

OpenAfter(was, cmd, row) ==
    CASE cmd = "ACT"             -> was \cup {row}
      [] cmd \in {"PRE", "PREA"} -> {}
      [] OTHER                   -> was

(* Mutant: the end comes with the last cycle of the refresh.               *)
RefreshEndLate == nRFC

(* check_future_action(): a refresh puts down its own end, one cycle       *)
(* before the banks may be activated again.                                *)
RefreshEnd == nRFC - 1

IssueCommand(ch, cmd, addr) ==
    /\ wait' = [wait EXCEPT ![ch] = [n \in Nodes |-> [d \in Commands |->
                  WaitAfter(ch, n, cmd, addr.path, d)]]]
    /\ acts' = [acts EXCEPT ![ch] = [n \in Nodes |->
                  IF OnPath(n, addr.path) THEN Recorded(ch, n, cmd) ELSE acts[ch][n]]]
    /\ state' = [state EXCEPT ![ch] = [b \in Banks |->
                  IF Reaches(cmd, addr.path, b) THEN StateAfter(@[b], cmd) ELSE @[b]]]
    /\ open' = [open EXCEPT ![ch] = [b \in Banks |->
                  IF Reaches(cmd, addr.path, b) THEN OpenAfter(@[b], cmd, addr.row) ELSE @[b]]]
    /\ ending' = [ending EXCEPT ![ch] =
                  IF cmd = "REFab" THEN @ \cup {[rank |-> addr.path[1], left |-> RefreshEnd]} ELSE @]

-----------------------------------------------------------------------------
(* tick(): a refresh whose end has come closes the banks of its rank; the  *)
(* rows it finds open stay marked.                                         *)
EndsNow(ch, rank) == \E e \in ending[ch] : e.rank = rank /\ e.left = 1

DdrTick ==
    /\ TreeTick
    /\ state' = [ch \in Channels |-> [b \in Banks |->
                   IF EndsNow(ch, b[1]) THEN "Closed" ELSE state[ch][b]]]
    /\ ending' = [ch \in Channels |->
                   {[e EXCEPT !.left = @ - 1] : e \in {x \in ending[ch] : x.left > 1}}]
    /\ UNCHANGED open

-----------------------------------------------------------------------------
(* What a controller may ask of the device: the prerequisite of a request, *)
(* when the timing accepts it.                                             *)
Asked == {"RD", "WR", "PRE"} \X BankAddrs \cup {"REFab"} \X RankAddrs

DdrNext ==
    \/ \E ch \in Channels, a \in Asked :
          /\ CheckReady(ch, Preq(ch, a[1], a[2]), a[2])
          /\ IssueCommand(ch, Preq(ch, a[1], a[2]), a[2])
    \/ DdrTick

DdrSpec == DdrInit /\ [][DdrNext]_ddrVars

(* A bank is marked opened exactly when one row of it is.                  *)
OneRowOpen ==
    \A ch \in Channels, b \in Banks :
        IF state[ch][b] = "Opened" THEN \E row \in Rows : open[ch][b] = {row}
        ELSE open[ch][b] = {}

(* While a rank refreshes none of its banks has a row open, and none can   *)
(* be activated before the refresh has ended, so that its end, which       *)
(* marks every bank closed, never closes a row somebody opened.            *)
RefreshUndisturbed ==
    \A ch \in Channels : \A e \in ending[ch] :
        /\ \A b \in RankBanks(e.rank) : state[ch][b] # "Opened" /\ open[ch][b] = {}
        /\ wait[ch][<<e.rank>>]["ACT"] > e.left

(* A bank that refreshes will be closed: its rank's refresh has an end.    *)
RefreshingEnds ==
    \A ch \in Channels, b \in Banks :
        state[ch][b] = "Refreshing" => \E e \in ending[ch] : e.rank = b[1]
=============================================================================
