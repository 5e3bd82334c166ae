------------------------------ MODULE HBM3Device ------------------------------
(***************************************************************************)
(* The device on its own, under any controller that asks check_ready()     *)
(* before it issues a command and may call notify() at any time, with a    *)
(* history of when each node last saw each command.  The history lets the  *)
(* timing rules be stated without the ready clocks that implement them.    *)
(***************************************************************************)
EXTENDS HBM3

CONSTANT Horizon  \* a time beyond which no command constrains another

ASSUME HorizonAssumption ==
    /\ Horizon \in Nat
    /\ \A l \in Levels : \A c, d \in Commands : Gap[l][c][d] <= Horizon
    /\ InitialSpm <= Horizon
    /\ \A v \in SpmLatencies : v <= Horizon /\ 1 <= Horizon

VARIABLES
    since,  \* channel -> node -> command -> cycles since its last issue, at most Horizon
    under   \* channel -> node -> nSPM when its last SPM was issued

hbmVars == <<deviceVars, since, under>>

HbmTypeOK ==
    /\ DeviceTypeOK
    /\ nSPM <= Horizon
    /\ since \in [Channels -> [Nodes -> [Commands -> 0..Horizon]]]
    /\ under \in [Channels -> [Nodes -> 0..Horizon]]

HbmInit ==
    /\ DeviceInit
    /\ since = [ch \in Channels |-> [n \in Nodes |-> [c \in Commands |-> Horizon]]]
    /\ under = [ch \in Channels |-> [n \in Nodes |-> 0]]

Issue(ch, cmd, addr) ==
    /\ CheckReady(ch, cmd, addr)
    /\ IssueCommand(ch, cmd, addr)
    /\ since' = [since EXCEPT ![ch] = [n \in Nodes |->
                   IF OnPath(n, addr.path) THEN [since[ch][n] EXCEPT ![cmd] = 0]
                   ELSE since[ch][n]]]
    /\ under' = [under EXCEPT ![ch] = [n \in Nodes |->
                   IF OnPath(n, addr.path) /\ cmd = "SPM" THEN nSPM ELSE under[ch][n]]]

Reconfigure(value) == Notify(value) /\ UNCHANGED <<since, under>>

Tick ==
    /\ DeviceTick
    /\ since' = [ch \in Channels |-> [n \in Nodes |-> [c \in Commands |->
                   IF since[ch][n][c] = Horizon THEN Horizon ELSE since[ch][n][c] + 1]]]
    /\ UNCHANGED under

HbmNext ==
    \/ \E ch \in Channels, cmd \in Commands, addr \in Addrs : Issue(ch, cmd, addr)
    \/ \E value \in SpmLatencies : Reconfigure(value)
    \/ Tick

HbmSpec == HbmInit /\ [][HbmNext]_hbmVars

-----------------------------------------------------------------------------
(* Safety.                                                                 *)

(* The ready clocks cover every constraint of the table: a command that a  *)
(* node saw less than its gap ago is still blocked for the rest of the gap *)
(* there, whatever commands, ticks and notify() calls came in between, and *)
(* a later SPM latency never shortens the wait after an earlier SPM.       *)
WaitsCoverGaps ==
    \A ch \in Channels, n \in Nodes : \A c, d \in Commands :
        /\ since[ch][n][c] + wait[ch][n][d] >= Gap[Len(n)][c][d]
        /\ c = "SPM" /\ d \in SpmFollowers[Len(n)] =>
              since[ch][n][c] + wait[ch][n][d] >= under[ch][n]

(* The same for the window constraint: the next ACT is blocked until the   *)
(* FawDepth-th latest one is Faw cycles old, and the history is ordered.   *)
WaitsCoverWindow ==
    "ACT" \in Commands => \A ch \in Channels, n \in Nodes : Len(n) = FawLevel =>
        /\ acts[ch][n][FawDepth] + wait[ch][n]["ACT"] >= Faw
        /\ \A k \in 1..(FawDepth - 1) : acts[ch][n][k] <= acts[ch][n][k + 1]

Spaced(ch, n, d) ==
    /\ \A c \in Commands : since[ch][n][c] >= Gap[Len(n)][c][d]
    /\ "SPM" \in Commands /\ d \in SpmFollowers[Len(n)] => since[ch][n]["SPM"] >= under[ch][n]
    /\ d = "ACT" /\ Len(n) = FawLevel => acts[ch][n][FawDepth] = Faw

Accepts(ch, d, path) == \E addr \in Addrs : addr.path = path /\ CheckReady(ch, d, addr)

(* check_ready() never accepts a command sooner after another one than the *)
(* table allows, at any node of its path down to the level of its scope.   *)
AcceptedAreSpaced ==
    \A ch \in Channels, d \in Commands, path \in Paths :
        Accepts(ch, d, path) =>
            \A n \in Nodes : OnPath(n, path) /\ Len(n) <= Scope[d] => Spaced(ch, n, d)
=============================================================================
