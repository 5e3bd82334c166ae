------------------------------- MODULE Devices -------------------------------
(***************************************************************************)
(* A DRAM device of any kind, driven by its tables: the common machinery   *)
(* of src/dram/node.h and of the devices' issue_command(), tick() and      *)
(* power functions, over the records of DdrDevices, Ddr5Devices and        *)
(* LpHbmDevices.                                                           *)
(*                                                                         *)
(* A controller asks for an access, a refresh or a victim's refresh; at    *)
(* the first cycle the device is ready for the command that the request    *)
(* needs next, that command is issued.  Time jumps from command to command *)
(* and to the ends of refreshes.                                           *)
(*                                                                         *)
(* A bank is <<rank, group, bank>>.  A device without bank groups has them *)
(* here with no constraint of that level; one without ranks has rank 0.    *)
(* The window of four ACTs is left out: with the three banks of the runs   *)
(* the constraints between two ACTs of a bank space four of them already.  *)
(***************************************************************************)
EXTENDS Integers, Sequences, FiniteSets, FiniteSetsExt

CONSTANTS
    Catalogue,      \* the devices under test: a set of [device, targets, depth]
    FirstBank       \* the bank that stands for its rank in a rank's commands

(* A target is a pair of a bank and a row; depth bounds the commands that  *)
(* are issued.                                                             *)
VARIABLES
    dut,            \* the device under test: one of Catalogue
    now,            \* m_clk
    hist,           \* the commands issued: [cmd, path, at, for]
    bank,           \* m_state and m_row_state of the banks: [st, rows]
    ends,           \* m_future_actions: [cmd, path, at]
    synced,         \* m_final_synced_cycle of the ranks (LPDDR5)
    power,          \* m_power_stats of the ranks
    strays,         \* observer: the PREs of the ranks that found their bank not open
    misled          \* observer: the ranks whose power statistics a stray PRE misled

vars == <<dut, now, hist, bank, ends, synced, power, strays, misled>>

D == dut.device
Targets == dut.targets
Banks == {x[1] : x \in Targets}
Ranks == {b[1] : b \in Banks}

Refreshes == {"REFab", "RFMab", "VRR", "RVRR"}
Reads == {"RD", "RD16"}
Writes == {"WR", "WR16"}
Accesses == Reads \cup Writes

(* A command reaches the node that is as many levels down as its scope.    *)
Path(c, b) == SubSeq(b, 1, D.scope[c])

Agree(p, q, level) == \A i \in 1..Min({level, Len(p), Len(q)}) : p[i] = q[i]

Below(path) == {b \in Banks : Agree(path, b, 3)}

-----------------------------------------------------------------------------
(* Mutant: only the node the command is for is asked.                      *)
HeldUntilAtScope(h, c, path) ==
    h.at + (IF Agree(h.path, path, D.scope[c]) THEN D.gap[D.scope[c]][h.cmd][c] ELSE 0)

(* check_ready(): the nodes on a command's path each know when it may come *)
(* next, from what update_timing() left on the paths of the commands       *)
(* before it and on their siblings.                                        *)
HeldUntil(h, c, path) ==
    Max({h.at + D.gap[l][h.cmd][c] : l \in {x \in 0..D.scope[c] : Agree(h.path, path, x)}}
        \cup {h.at + D.sibling[l][h.cmd][c] : l \in {x \in 1..D.scope[c] :
                 Agree(h.path, path, x - 1) /\ ~Agree(h.path, path, x)}})

(* One command goes out in a cycle.                                        *)
NextTurn == IF hist # <<>> /\ hist[Len(hist)].at = now THEN now + 1 ELSE Max({now, 1})

Earliest(c, b) ==
    Max({NextTurn} \cup {HeldUntil(hist[i], c, Path(c, b)) : i \in DOMAIN hist})

(* get_preq_command(): what a command needs first, at clock t.             *)
FirstNotClosed(r) ==
    {b \in Banks : b[1] = r /\ bank[b].st # "closed"
                   /\ \A d \in Banks : d[1] = r /\ bank[d].st # "closed" => b[2] <= d[2]}

NeedsAccess(c, b, row) ==
    CASE bank[b].st = "opened" -> IF row \in bank[b].rows THEN c ELSE "PRE"
      [] OTHER -> "ACT"

(* LPDDR5 looks for row 0, whichever row the access is for.                *)
NeedsSyncedAccess(c, b, t) ==
    CASE bank[b].st = "closed" -> "ACT1"
      [] bank[b].st = "pre-opened" -> "ACT2"
      [] OTHER -> IF 0 \notin bank[b].rows THEN "PRE"
                  ELSE IF synced[b[1]] >= t THEN c
                  ELSE IF c = "RD16" THEN "CASRD" ELSE "CASWR"

NeedsClosed(c, b) == IF bank[b].st = "opened" THEN "PRE" ELSE c

(* Mutant: NeedsAllClosed looks at one bank.                               *)
NeedsFirstClosed(c, b) == IF bank[b].st = "opened" THEN "PREA" ELSE c

NeedsAllClosed(c, b) ==
    IF \E d \in FirstNotClosed(b[1]) : bank[d].st # "refreshing" THEN "PREA" ELSE c

Preq(c, b, row, t) ==
    IF c \notin DOMAIN D.preqs THEN c
    ELSE CASE D.preqs[c] = "row open" -> NeedsAccess(c, b, row)
           [] D.preqs[c] = "row 0 open" -> NeedsSyncedAccess(c, b, t)
           [] D.preqs[c] = "bank closed" -> NeedsClosed(c, b)
           [] D.preqs[c] = "all closed" -> NeedsAllClosed(c, b)

(* Mutant: IssueTime asks when the request's own command is ready.         *)
IssueTimeOfRequest(c, b, row) == Earliest(c, b)

(* The first cycle at which the command that a request for c needs then is *)
(* ready.  What it needs changes with the clock only when the rank's       *)
(* synchronisation runs out.                                               *)
IssueTime(c, b, row) ==
    LET changes == {NextTurn, Max({NextTurn, synced[b[1]] + 1})}
        moments == changes \cup {Earliest(Preq(c, b, row, x), b) : x \in changes}
    IN  Min({t \in moments : t >= Earliest(Preq(c, b, row, t), b)})

-----------------------------------------------------------------------------
(* Mutant: BankAfter makes no entry for the row.                           *)
BankAfterNoRow(c, row, s) ==
    IF c \notin DOMAIN D.actions THEN s
    ELSE CASE D.actions[c] = "open" -> [s EXCEPT !.st = "opened"]
           [] D.actions[c] = "pre-open" -> [s EXCEPT !.st = "pre-opened"]
           [] D.actions[c] = "close" -> [st |-> "closed", rows |-> {}]
           [] D.actions[c] = "refresh" -> [s EXCEPT !.st = "refreshing"]

(* update_states(): what a command does to a bank under it.                *)
BankAfter(c, row, s) ==
    IF c \notin DOMAIN D.actions THEN s
    ELSE CASE D.actions[c] = "open" -> [st |-> "opened", rows |-> s.rows \cup {row}]
           [] D.actions[c] = "pre-open" -> [st |-> "pre-opened", rows |-> s.rows \cup {row}]
           [] D.actions[c] = "close" -> [st |-> "closed", rows |-> {}]
           [] D.actions[c] = "refresh" -> [s EXCEPT !.st = "refreshing"]

(* update_powers(): the rank's statistics, from the states of the banks    *)
(* before the command.                                                     *)
Open(r) == Cardinality({b \in Banks : b[1] = r /\ bank[b].st = "opened"})
Refreshing(r) == Cardinality({b \in Banks : b[1] = r /\ bank[b].st = "refreshing"})
IsRankIdle(r) == Open(r) = 0 /\ Refreshing(r) = 0

GoesActive(p, t) ==
    [p EXCEPT !.idle = @ + t - p.idleFrom, !.activeFrom = t, !.mode = "active"]
GoesIdle(p, t) ==
    [p EXCEPT !.active = @ + t - p.activeFrom, !.idleFrom = t, !.mode = "idle"]

PowerAfter(c, r, t) ==
    LET p == power[r]
    IN  IF c \notin D.powers THEN p
        ELSE CASE c = "ACT" ->
                    [(IF IsRankIdle(r) THEN GoesActive(p, t) ELSE p) EXCEPT !.acts = @ + 1]
               [] c \in {"VRR", "RVRR"} -> IF IsRankIdle(r) THEN GoesActive(p, t) ELSE p
               [] c = "PRE" ->
                    [(IF Open(r) = 1 /\ Refreshing(r) = 0 THEN GoesIdle(p, t) ELSE p)
                        EXCEPT !.pres = @ + 1]
               [] c = "PREA" ->
                    [(IF IsRankIdle(r) THEN p ELSE GoesIdle(p, t)) EXCEPT !.pres = @ + Open(r)]
               [] c = "REFab" ->
                    [p EXCEPT !.idle = @ + t - p.idleFrom, !.mode = "refreshing"]

(* Mutant: PowerAfterEnd, whatever the other banks of the rank do.         *)
PowerAfterEndAlone(e, r) ==
    LET p == power[r]
    IN  CASE e.cmd = "REFab" -> [p EXCEPT !.idleFrom = e.at, !.mode = "idle"]
          [] e.cmd \in {"VRR", "RVRR"} -> GoesIdle(p, e.at)
          [] OTHER -> p

(* The power functions at the end of a refresh; an RFM has none.           *)
PowerAfterEnd(e, r) ==
    LET p == power[r]
    IN  CASE e.cmd = "REFab" -> [p EXCEPT !.idleFrom = e.at, !.mode = "idle"]
          [] e.cmd \in {"VRR", "RVRR"} ->
               IF Open(r) = 0 /\ Refreshing(r) = 1 THEN GoesIdle(p, e.at) ELSE p
          [] OTHER -> p

-----------------------------------------------------------------------------
Init ==
    /\ dut \in Catalogue
    /\ now = 0
    /\ hist = <<>>
    /\ bank = [b \in Banks |-> [st |-> "closed", rows |-> {}]]
    /\ ends = {}
    /\ synced = [r \in Ranks |-> -1]
    /\ power = [r \in Ranks |-> [mode |-> "idle", idle |-> 0, active |-> 0, idleFrom |-> 0,
                                 activeFrom |-> -1, acts |-> 0, pres |-> 0]]
    /\ strays = [r \in Ranks |-> 0]
    /\ misled = {}

(* The observers: a PRE that finds its bank not open is astray.  It        *)
(* misleads the power functions when they take it for the PRE of the one   *)
(* open bank of the rank, or when it ends the state of a bank that a       *)
(* victim's refresh still keeps busy.                                      *)
Astray(c, b) == c = "PRE" /\ bank[b].st # "opened"

Misleads(c, b) ==
    /\ Astray(c, b)
    /\ \/ Open(b[1]) = 1 /\ Refreshing(b[1]) = 0
       \/ \E e \in ends : e.path = b

(* issue_command(): the timing, the power statistics, the states and, for  *)
(* a refresh, the action to come at its end.                               *)
IssueCommand(c, b, row, t, request) ==
    /\ \A e \in ends : e.at > t
    /\ now' = t
    /\ hist' = Append(hist, [cmd |-> c, path |-> Path(c, b), at |-> t,
                           for |-> request])
    /\ power' = [r \in Ranks |-> IF Agree(Path(c, b), <<r>>, 1) THEN PowerAfter(c, r, t)
                                 ELSE power[r]]
    /\ bank' = [d \in Banks |-> IF d \in Below(Path(c, b)) THEN BankAfter(c, row, bank[d])
                                ELSE bank[d]]
    /\ ends' = ends \cup (IF c \in DOMAIN D.ends
                          THEN {[cmd |-> c, path |-> Path(c, b), at |-> t + D.ends[c] - 1]}
                          ELSE {})
    /\ synced' = IF c \in DOMAIN D.syncs THEN [synced EXCEPT ![b[1]] = t + D.syncs[c]]
                 ELSE synced
    /\ strays' = IF Astray(c, b) THEN [strays EXCEPT ![b[1]] = @ + 1] ELSE strays
    /\ misled' = IF Misleads(c, b) THEN misled \cup {b[1]} ELSE misled
    /\ UNCHANGED dut

(* What a controller or a plugin asks for; a rank is refreshed at most     *)
(* once, and so is it managed.                                             *)
Ask(type, b, row) ==
    /\ type \in DOMAIN D.requests
    /\ Len(hist) < dut.depth
    /\ LET c == D.requests[type]
           t == IssueTime(c, b, row)
       IN  IssueCommand(Preq(c, b, row, t), b, row, t, <<type, b, row>>)

Access == \E type \in {"read", "write"}, x \in Targets : Ask(type, x[1], x[2])

RefreshRank ==
    \E type \in {"refresh", "rfm", "closeAll"} :
        /\ \A i \in DOMAIN hist : hist[i].for = <<type, FirstBank, 0>> =>
               hist[i].cmd # D.requests[type]
        /\ Ask(type, FirstBank, 0)

RefreshVictim ==
    \E type \in {"victim", "reducedVictim"}, b \in Banks : Ask(type, b, 0)

(* The closed-row policy queues a request to close a bank's row at an      *)
(* access to it (at every access if its cap is 1), and the request sends a *)
(* PRE whatever it finds: the bank may have been closed in between, by the *)
(* request before it or for a refresh, opened again or refreshed.          *)
CloseRow ==
    \E b \in Banks :
        /\ Cardinality({i \in DOMAIN hist : hist[i].for = <<"closeRow", b, 0>>})
             < Cardinality({i \in DOMAIN hist : hist[i].cmd \in Accesses /\ hist[i].path = b})
        /\ Ask("closeRow", b, 0)

(* handle_future_action(), when the device's clock reaches a refresh's end *)
(* and before the controller's turn in that cycle.                         *)
EndRefresh ==
    \E e \in ends :
        /\ \A d \in ends : e.at <= d.at
        /\ ends' = ends \ {e}
        /\ now' = e.at
        /\ power' = [r \in Ranks |-> IF Agree(e.path, <<r>>, 1) THEN PowerAfterEnd(e, r)
                                     ELSE power[r]]
        /\ bank' = [d \in Banks |-> IF d \in Below(e.path) THEN [bank[d] EXCEPT !.st = "closed"]
                                    ELSE bank[d]]
        /\ UNCHANGED <<dut, hist, synced, strays, misled>>

Next == Access \/ RefreshRank \/ RefreshVictim \/ CloseRow \/ EndRefresh

Spec == Init /\ [][Next]_vars

-----------------------------------------------------------------------------
(* What the tables of a device have to say for its histories to be right,  *)
(* whatever is asked of it and for however long.                           *)
Closes == {"PRE", "PREA"}
Opens == {"ACT", "ACT1"}
Syncs == {"CASRD", "CASWR"}
RankWide == {"PREA", "REFab", "RFMab"} \cup Syncs

(* The commands on the way to a request's own, and that one.               *)
StepsTo(d, c) ==
    IF c \notin DOMAIN d.preqs THEN {c}
    ELSE CASE d.preqs[c] = "row open" -> {c, "PRE", "ACT"}
           [] d.preqs[c] = "row 0 open" -> {c, "PRE", "ACT1", "ACT2"} \cup Syncs
           [] d.preqs[c] = "bank closed" -> {c, "PRE"}
           [] d.preqs[c] = "all closed" -> {c, "PREA"}

Issuable(d) == UNION {StepsTo(d, d.requests[type]) : type \in DOMAIN d.requests}

(* What a request of each type is for.                                     *)
Asks(d, type, c) ==
    CASE type \in {"read", "write"} ->
           c \in Accesses \cap DOMAIN d.preqs /\ d.preqs[c] \in {"row open", "row 0 open"}
      [] type \in {"refresh", "rfm"} ->
           c \in {"REFab", "RFMab"} \cap DOMAIN d.preqs /\ d.preqs[c] = "all closed"
      [] type \in {"victim", "reducedVictim"} ->
           c \in {"VRR", "RVRR"} \cap DOMAIN d.preqs /\ d.preqs[c] = "bank closed"
      [] type = "closeRow" -> c = "PRE" /\ (c \in DOMAIN d.preqs => d.preqs[c] = "bank closed")
      [] type = "closeAll" -> c = "PREA" /\ (c \in DOMAIN d.preqs => d.preqs[c] = "all closed")
      [] OTHER -> FALSE

(* What a command does to the banks it reaches.                            *)
Acts(d, c) ==
    CASE c \in {"ACT", "ACT2"} -> c \in DOMAIN d.actions /\ d.actions[c] = "open"
      [] c = "ACT1" -> c \in DOMAIN d.actions /\ d.actions[c] = "pre-open"
      [] c \in Closes -> c \in DOMAIN d.actions /\ d.actions[c] = "close"
      [] c \in Refreshes -> /\ c \in DOMAIN d.actions <=> c \in DOMAIN d.ends
                            /\ c \in DOMAIN d.actions => d.actions[c] = "refresh"
      [] OTHER -> c \notin DOMAIN d.actions

(* Its rows are opened in two steps, its refreshes leave no state.         *)
TwoStep(d) == \E c \in DOMAIN d.preqs : d.preqs[c] = "row 0 open"

FitsTogether(d) ==
    /\ \A type \in DOMAIN d.requests :
          /\ Asks(d, type, d.requests[type])
          /\ \A other \in DOMAIN d.requests : d.requests[other] = d.requests[type] => other = type
    /\ \A c \in Issuable(d) :
          /\ c \in DOMAIN d.scope /\ d.scope[c] = IF c \in RankWide THEN 1 ELSE 3
          /\ Acts(d, c)
          /\ c \in DOMAIN d.ends => c \in Refreshes /\ d.ends[c] \in Nat \ {0}
          /\ c \in DOMAIN d.syncs => d.syncs[c] \in Nat
          /\ \A a \in Issuable(d), l \in 0..3 :
                /\ d.gap[l][a][c] \in Nat
                /\ l > 0 => d.sibling[l][a][c] \in Nat
    /\ TwoStep(d) => /\ DOMAIN d.ends = {}
                     /\ \A c \in DOMAIN d.preqs : d.preqs[c] \in {"row 0 open", "all closed"}
    /\ \A name \in {"nRAS", "nWR", "nCL", "nCWL", "nBL"} : name \in DOMAIN d.t /\ d.t[name] \in Nat

(* The table keeps c from its node for so many cycles after a.             *)
Holds(d, a, c, top, cycles) == \E l \in 0..top : d.gap[l][a][c] >= cycles

(* The places of an access on the data bus, from its issue on.             *)
Latency(d, c) == IF c \in Reads THEN d.t.nCL ELSE d.t.nCWL

SpacesBursts(d) ==
    \A a \in Issuable(d) \cap Accesses, c \in Issuable(d) \cap Accesses :
        Holds(d, a, c, 1, Latency(d, a) + d.t.nBL - Latency(d, c))

RestoresRows(d) ==
    \A a \in Issuable(d), c \in Issuable(d) \cap Closes :
        /\ a \in Opens => Holds(d, a, c, d.scope[c], d.t.nRAS)
        /\ a \in Writes => Holds(d, a, c, d.scope[c], d.t.nCWL + d.t.nBL + d.t.nWR)

RefreshCyclesOf(d, c) ==
    IF c \in DOMAIN d.ends THEN d.ends[c]
    ELSE IF "nRFCab" \in DOMAIN d.t THEN d.t.nRFCab ELSE d.t.nRFC

ClosingCyclesOf(d) == IF "nRPpb" \in DOMAIN d.t THEN d.t.nRPpb ELSE d.t.nRP

(* A refresh holds back what could follow it: not the commands that need a *)
(* row under them, which the ACT before them keeps away, and not a second  *)
(* refresh of the rank.                                                    *)
NeedsRow(d, c) ==
    \/ c \in Accesses \cup Syncs \cup {"PRE", "ACT2"}
    \/ c = "PREA" /\ "closeAll" \notin DOMAIN d.requests

SpacesRefreshes(d) ==
    \A r \in Issuable(d) \cap Refreshes :
        /\ ClosingCyclesOf(d) \in Nat /\ RefreshCyclesOf(d, r) \in Nat
        /\ \A a \in Issuable(d) \cap Closes : Holds(d, a, r, d.scope[r], ClosingCyclesOf(d))
        /\ \A c \in Issuable(d) :
              \/ Holds(d, r, c, d.scope[c], RefreshCyclesOf(d, r))
              \/ NeedsRow(d, c) /\ d.scope[r] <= d.scope[c]
              \/ c = r /\ r \in RankWide

(* A device with power functions has them for every command that opens or  *)
(* closes a bank or refreshes, an RFM apart, and tells their ends.         *)
KeepsBooks(d) ==
    d.powers # {} =>
        /\ "REFab" \in DOMAIN d.ends /\ d.ends["REFab"] \in Nat \ {0}
        /\ d.powers \subseteq {"ACT", "PRE", "PREA", "REFab", "VRR", "RVRR"}
        /\ \A c \in Issuable(d) \cap {"ACT", "PRE", "PREA", "REFab", "VRR", "RVRR"} :
              c \in d.powers /\ (c \in Refreshes => c \in DOMAIN d.ends)

ASSUME CatalogueAssumption ==
    \A x \in Catalogue :
        /\ FitsTogether(x.device)
        /\ KeepsBooks(x.device)
        /\ IsFiniteSet(x.targets)
        /\ x.targets \subseteq (Nat \X Nat \X Nat) \X Nat
        /\ \E y \in x.targets : y[1] = FirstBank
        /\ \A c \in DOMAIN x.device.preqs, y \in x.targets :
              x.device.preqs[c] = "row 0 open" => y[2] = 0

ASSUME TablesAssumption ==
    \A x \in Catalogue :
        /\ SpacesBursts(x.device)
        /\ RestoresRows(x.device)
        /\ SpacesRefreshes(x.device)

-----------------------------------------------------------------------------
(* The properties speak of a device's timing values and not of the table   *)
(* of constraints between its commands.                                    *)
T == D.t

(* When an access has the data bus.                                        *)
DataStart(h) == h.at + Latency(D, h.cmd)
DataEnd(h) == DataStart(h) + T.nBL

(* Two accesses to a rank or pseudo channel never drive its data bus at    *)
(* the same time, whichever bank each is for: the constraints between      *)
(* reads and writes work that distance out from four timing values.        *)
BurstsApart ==
    \A j \in DOMAIN hist, i \in DOMAIN hist :
        (/\ i < j
         /\ hist[i].cmd \in Accesses /\ hist[j].cmd \in Accesses
         /\ hist[i].path[1] = hist[j].path[1])
            => DataEnd(hist[i]) <= DataStart(hist[j])

(* A row is not closed, by its own PRE, by the PREA of its rank or on the  *)
(* way to a refresh, before nRAS has passed since it was opened and its    *)
(* last write has been restored.                                           *)
Restored(h) ==
    CASE h.cmd \in Opens -> h.at + T.nRAS
      [] h.cmd \in Writes -> DataEnd(h) + T.nWR
      [] OTHER -> h.at

RowRestored ==
    \A j \in DOMAIN hist, i \in DOMAIN hist :
        (i < j /\ hist[j].cmd \in Closes /\ Agree(hist[i].path, hist[j].path, 3))
            => Restored(hist[i]) <= hist[j].at

(* A refresh, of a rank or of a victim, begins when every bank it reaches  *)
(* is closed and has been for the time a row takes to close, and until it  *)
(* is over nothing is issued to those banks: but a row policy's PRE, which *)
(* nothing holds back where no row is open.                                *)
Moves(i, b) ==
    {k \in 1..(i - 1) : hist[k].cmd \in Opens \cup Closes /\ b \in Below(hist[k].path)}

ClosedAt(i, b) == Moves(i, b) # {} => hist[Max(Moves(i, b))].cmd \in Closes

ClosedFor(i, b) ==
    /\ ClosedAt(i, b)
    /\ Moves(i, b) # {} =>
           hist[Max(Moves(i, b))].at + ClosingCyclesOf(D) <= hist[i].at

Stray(i) == hist[i].cmd = "PRE" /\ ClosedAt(i, hist[i].path)

RefreshAlone ==
    \A i \in DOMAIN hist : hist[i].cmd \in Refreshes =>
        /\ \A b \in Below(hist[i].path) : ClosedFor(i, b)
        /\ \A j \in (i + 1)..Len(hist) :
               Agree(hist[i].path, hist[j].path, 3) /\ ~Stray(j) =>
                   hist[i].at + RefreshCyclesOf(D, hist[i].cmd) - 1 <= hist[j].at

(* The commands on the way to a request's own are steps towards it: while  *)
(* the controller serves one request and no other, none of them has to be  *)
(* repeated.  (A rank whose synchronisation ran out is synchronised again.) *)
NoStepTwice ==
    \A j \in DOMAIN hist, i \in DOMAIN hist :
        (/\ i < j
         /\ \A k \in i..(j - 1) : /\ hist[k].for = hist[j].for
                                  /\ hist[k].cmd # D.requests[hist[j].for[1]]
         /\ hist[i].cmd \notin Syncs)
            => hist[i].cmd # hist[j].cmd

(* The statistics DRAM power is computed from add up.  The rows opened are *)
(* those still open or closed by the PREs counted, the stray ones taken    *)
(* off.  And until a stray PRE misleads the power functions, every cycle   *)
(* of a rank is counted as idle or as active, or passed in a refresh, and  *)
(* once, and the rank is active exactly when a bank is open or refreshes a *)
(* victim: a stray PRE that does not mislead them changes neither.         *)
RefreshedCycles(r) ==
    LET begun == {i \in DOMAIN hist : hist[i].cmd = "REFab" /\ hist[i].path[1] = r}
        running == {i \in begun : now < hist[i].at + D.ends["REFab"] - 1}
    IN  Cardinality(begun \ running) * (D.ends["REFab"] - 1)
        + (IF running = {} THEN 0 ELSE now - hist[Min(running)].at)

CyclesCounted(r) ==
    power[r].idle + power[r].active
    + (CASE power[r].mode = "idle" -> now - power[r].idleFrom
         [] power[r].mode = "active" -> now - power[r].activeFrom
         [] OTHER -> 0)

BooksBalance ==
    D.powers # {} => \A r \in Ranks :
        /\ power[r].acts = power[r].pres - strays[r] + Open(r)
        /\ r \notin misled =>
              /\ CyclesCounted(r) + RefreshedCycles(r) = now
              /\ power[r].mode = "active" <=> \E b \in Banks : b[1] = r /\
                     \/ bank[b].st = "opened"
                     \/ \E e \in ends : e.path = b
=============================================================================
