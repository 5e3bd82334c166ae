---------------------------------- MODULE Prac ---------------------------------
(***************************************************************************)
(* Per-row activation counters with an alert back-off: the PRAC plugin,    *)
(* the controller that makes room for its recoveries and the scheduler     *)
(* that holds back what does not fit before one.                           *)
(*                                                                         *)
(* The read and write buffers are their environment: at any tick they may  *)
(* hold requests for any row in use.  When the device is ready for a       *)
(* command is open: ready is the set of buffers whose commands have no     *)
(* timing constraint to wait for.  Reads stand for writes.                 *)
(***************************************************************************)
EXTENDS RowTrackers, Sequences

CONSTANTS
    AboThreshold,       \* m_abo_thresh
    AboActCycles,       \* m_abo_act_cycles: from an alert to its recovery
    AboRecoveryRefs,    \* m_abo_recovery_refs, by rank
    AboDelayActs,       \* m_abo_delay_acts
    MinCycles,          \* by command: cmd_to_min_cycles, zero for PRE and PREA
    SetupCycles,        \* nRP + 5
    PracBufferSize,     \* how many requests the recovery's buffer holds
    RefreshPeriod       \* ticks of a ready device between refreshes

ASSUME PracAssumption ==
    /\ AboThreshold \in Nat \ {0} /\ AboActCycles \in Nat \ {0}
    /\ AboRecoveryRefs \in Nat \ {0} /\ AboDelayActs \in Nat \ {0}
    /\ NumRanks * (1 + AboRecoveryRefs) <= PracBufferSize
    /\ SetupCycles \in Nat /\ MinCycles["ACT"] \in Nat /\ "PRAC" \in DOMAIN Hot

VARIABLES
    m_state,            \* of the alert back-off
    recovery_start,     \* m_abo_recovery_start, counted from the coming tick, or Never
    rem_refs, rem_acts, \* m_abo_recov_rem_refs, m_abo_delay_rem_acts
    m_is_abo_needed,
    m_counters,         \* by bank, then row; rows never activated count zero
    m_critical_rows,    \* by bank
    prac_buffer,        \* m_prac_buffer: <<final command, rank>>
    priority_buffer,    \* m_priority_buffer: <<final command, rank or bank>>
    active_buffer,      \* the banks whose open row a request waits for
    open_row,           \* by bank: the row, or Closed
    next_refresh        \* ticks of a ready device until the next refresh

prac == <<m_state, recovery_start, rem_refs, rem_acts, m_is_abo_needed, m_counters,
          m_critical_rows, prac_buffer, priority_buffer, active_buffer, open_row, next_refresh>>

Never == -1
Closed == -1
BanksOf(rank) == {b \in Banks : RankOf(b) = rank}
Buffers == {"active", "prac", "priority", "requests"}

PracInit ==
    /\ plugin = "PRAC" /\ m_clk = 0
    /\ table = [b \in Banks |-> NoEntries]
    /\ spill = [b \in Banks |-> 0] /\ acts = NoActs /\ refs = 0
    /\ m_state = "NORMAL" /\ recovery_start = Never /\ rem_refs = 0 /\ rem_acts = 0
    /\ m_is_abo_needed = FALSE
    /\ m_counters = NoActs /\ m_critical_rows = [b \in Banks |-> {}]
    /\ prac_buffer = <<>> /\ priority_buffer = <<>> /\ active_buffer = {}
    /\ open_row = [b \in Banks |-> Closed] /\ next_refresh = RefreshPeriod

-----------------------------------------------------------------------------
(* The request chosen in a tick: the buffer it is in, its command, the     *)
(* bank or rank it is for, and its row.                                    *)
Found(from, cmd, at, row) == [from |-> from, command |-> cmd, at |-> at, row |-> row]
Nothing == Found("none", "none", 0, 0)

(* Mutant: it may be over just when the recovery begins.                   *)
FitsExactly(cmd) == recovery_start = Never \/ MinCycles[cmd] <= recovery_start

(* min_cycles_with_preall(): will it be over before the recovery begins?   *)
Fits(cmd) == recovery_start = Never \/ MinCycles[cmd] < recovery_start

RankClosed(rank) == \A b \in BanksOf(rank) : open_row[b] = Closed
Preq(final, at) == IF final \in {"REFab", "RFMab"} /\ ~RankClosed(at) THEN "PREA" ELSE final

(* A recovery that is near is set up: close every rank, then refresh the   *)
(* ranks in turns.                                                         *)
Recovery ==
    [i \in 1..NumRanks * (1 + AboRecoveryRefs) |->
        <<IF i <= NumRanks THEN "PREA" ELSE "RFMab", (i - 1) % NumRanks>>]
PracBuffer ==
    IF recovery_start # Never /\ recovery_start <= SetupCycles /\ prac_buffer = <<>>
    THEN Recovery ELSE prac_buffer

(* all_bank_refresh.cpp; one that falls due while the last one waits is    *)
(* sent when that is served.                                               *)
RefreshDue == next_refresh = 0 /\ \A i \in DOMAIN priority_buffer : priority_buffer[i][1] # "REFab"
Refreshes == [i \in 1..NumRanks |-> <<"REFab", i - 1>>]
PriorityBuffer == IF RefreshDue THEN priority_buffer \o Refreshes ELSE priority_buffer

ActiveChoices(ready) ==
    {Found("active", "RD", b, open_row[b]) :
        b \in {x \in active_buffer : "active" \in ready /\ Fits("RD")}}

(* Mutant: RFMab does not wait for the recovery.                           *)
PracChoicesEarly(ready) ==
    IF "prac" \in ready
    THEN {Found("prac", Preq(PracBuffer[1][1], PracBuffer[1][2]), PracBuffer[1][2], 0)} ELSE {}

(* The head of the recovery's buffer; no RFMab before the recovery begins. *)
PracChoices(ready) ==
    LET final == PracBuffer[1][1]
        rank == PracBuffer[1][2]
        cmd == Preq(final, rank)
    IN  IF "prac" \in ready /\ ~(cmd = "RFMab" /\ m_state = "PRE_RECOVERY")
        THEN {Found("prac", cmd, rank, 0)} ELSE {}

PriorityChoices(ready) ==
    LET final == PriorityBuffer[1][1]
        at == PriorityBuffer[1][2]
        cmd == Preq(final, at)
    IN  IF "priority" \in ready /\ Fits(cmd) THEN {Found("priority", cmd, at, 0)} ELSE {}

RequestChoices(ready) ==
    {Nothing} \cup
    {q \in {Found("requests",
                  IF open_row[h[1]] = Closed THEN "ACT" ELSE IF open_row[h[1]] = h[2] THEN "RD" ELSE "PRE",
                  h[1], h[2]) : h \in Hot["PRAC"]} :
        "requests" \in ready /\ Fits(q.command)}

OrNothing(choices) == IF choices = {} THEN {Nothing} ELSE choices

(* A command that closes a row is dropped while an active request needs it.*)
Closes(q) == IF q.command = "PRE" THEN {q.at} ELSE IF q.command = "PREA" THEN BanksOf(q.at) ELSE {}
Kept(q) == IF Closes(q) \cap active_buffer # {} THEN Nothing ELSE q

(* schedule_request(): active requests first; then the recovery, which     *)
(* stops everything if it cannot go on and gives way to the priority       *)
(* buffer if it can; that stops what is left if it cannot go on.           *)
Chosen(ready) ==
    IF ActiveChoices(ready) # {} THEN ActiveChoices(ready)
    ELSE IF PracBuffer # <<>> /\ PracChoices(ready) = {} THEN {Nothing}
    ELSE IF PriorityBuffer # <<>> THEN OrNothing(PriorityChoices(ready))
    ELSE IF PracBuffer # <<>> THEN PracChoices(ready)
    ELSE RequestChoices(ready)

-----------------------------------------------------------------------------
(* update_state_machine(), with the command about to be issued.            *)
Alert ==
    /\ m_state = "NORMAL" /\ m_is_abo_needed
    /\ m_state' = "PRE_RECOVERY" /\ recovery_start' = AboActCycles - 1
    /\ UNCHANGED <<rem_refs, rem_acts>>

AwaitRecovery ==
    /\ m_state = "PRE_RECOVERY" /\ recovery_start # 0
    /\ recovery_start' = recovery_start - 1
    /\ UNCHANGED <<m_state, rem_refs, rem_acts>>

BeginRecovery ==
    /\ m_state = "PRE_RECOVERY" /\ recovery_start = 0
    /\ m_state' = "RECOVERY" /\ recovery_start' = Never
    /\ rem_refs' = AboRecoveryRefs * NumRanks
    /\ UNCHANGED rem_acts

Recover(q) ==
    /\ m_state = "RECOVERY" /\ q.command = "RFMab"
    /\ rem_refs' = rem_refs - 1
    /\ IF rem_refs = 1 THEN m_state' = "DELAY" /\ rem_acts' = AboDelayActs
       ELSE UNCHANGED <<m_state, rem_acts>>
    /\ UNCHANGED recovery_start

Delay(q) ==
    /\ m_state = "DELAY" /\ q.command = "ACT"
    /\ rem_acts' = rem_acts - 1
    /\ m_state' = IF rem_acts = 1 THEN "NORMAL" ELSE m_state
    /\ UNCHANGED <<recovery_start, rem_refs>>

Remain(q) ==
    /\ \/ m_state = "NORMAL" /\ ~m_is_abo_needed
       \/ m_state = "RECOVERY" /\ q.command # "RFMab"
       \/ m_state = "DELAY" /\ q.command # "ACT"
    /\ UNCHANGED <<m_state, recovery_start, rem_refs, rem_acts>>

StateMachine(q) ==
    Alert \/ AwaitRecovery \/ BeginRecovery \/ Recover(q) \/ Delay(q) \/ Remain(q)

(* Mutant: the end of a delay takes it that no row is critical.            *)
NeededNowCleared(q) ==
    IF m_state = "DELAY" /\ q.command = "ACT" /\ rem_acts = 1 THEN FALSE ELSE m_is_abo_needed

(* process_act() and process_rfm(); the end of a delay looks for rows that *)
(* are still critical before the activation that ends it is counted.       *)
NeededNow(q) ==
    IF m_state = "DELAY" /\ q.command = "ACT" /\ rem_acts = 1
    THEN \E b \in Banks : m_critical_rows[b] # {}
    ELSE m_is_abo_needed

CountAct(q) ==
    LET critical == m_counters[q.at][q.row] + 1 >= AboThreshold IN
    /\ q.command = "ACT"
    /\ m_counters' = Acted(m_counters, q.at, q.row)
    /\ m_critical_rows' =
          IF critical THEN [m_critical_rows EXCEPT ![q.at] = @ \cup {q.row}] ELSE m_critical_rows
    /\ m_is_abo_needed' = (critical \/ NeededNow(q))

MostActivated(b) == {r \in Rows : \A x \in Rows : m_counters[b][x] <= m_counters[b][r]}

CountRfm(q) ==
    /\ q.command = "RFMab"
    /\ \E victim \in [BanksOf(q.at) -> Rows] :
          /\ \A b \in BanksOf(q.at) : victim[b] \in MostActivated(b)
          /\ m_counters' = [b \in Banks |->
                IF b \in BanksOf(q.at) THEN [m_counters[b] EXCEPT ![victim[b]] = 0] ELSE m_counters[b]]
          /\ m_critical_rows' = [b \in Banks |->
                IF b \in BanksOf(q.at) THEN m_critical_rows[b] \ {victim[b]} ELSE m_critical_rows[b]]
    /\ UNCHANGED m_is_abo_needed

CountNothing(q) ==
    /\ q.command \notin {"ACT", "RFMab"}
    /\ UNCHANGED <<m_counters, m_critical_rows, m_is_abo_needed>>

-----------------------------------------------------------------------------
(* The command is issued; a request whose last command it is leaves its    *)
(* buffer, one that opens a row becomes active.  After an access the row   *)
(* policy may ask for the row to be closed (basic_rowpolicies.cpp).        *)
PracBufferAfter(q) ==
    IF q.from = "prac" /\ q.command = PracBuffer[1][1] THEN Tail(PracBuffer) ELSE PracBuffer

PriorityAfter(q) ==
    IF q.from = "priority" /\ q.command = PriorityBuffer[1][1] THEN Tail(PriorityBuffer)
    ELSE PriorityBuffer

Issue(q) ==
    /\ open_row' = [b \in Banks |->
          IF b \in Closes(q) THEN Closed
          ELSE IF q.command = "ACT" /\ q.at = b THEN q.row ELSE open_row[b]]
    /\ active_buffer' =
          IF q.from = "active" THEN active_buffer \ {q.at}
          ELSE IF q.command = "ACT" THEN active_buffer \cup {q.at} ELSE active_buffer
    /\ prac_buffer' = PracBufferAfter(q)
    /\ \/ priority_buffer' = PriorityAfter(q)
       \/ /\ q.command = "RD" /\ \A i \in DOMAIN PriorityBuffer : PriorityBuffer[i] # <<"PRE", q.at>>
          /\ priority_buffer' = Append(PriorityAfter(q), <<"PRE", q.at>>)

PracTick(ready) ==
    /\ plugin = "PRAC"
    /\ next_refresh' =
          IF RefreshDue THEN RefreshPeriod
          ELSE IF ready = Buffers /\ next_refresh > 0 THEN next_refresh - 1 ELSE next_refresh
    /\ \E chosen \in Chosen(ready) :
          LET q == Kept(chosen) IN
          /\ StateMachine(q)
          /\ CountAct(q) \/ CountRfm(q) \/ CountNothing(q)
          /\ Issue(q)
    /\ UNCHANGED trackers

(* The device is ready for a buffer, or not; nothing has to wait for one   *)
(* that is empty.                                                          *)
Idle ==
    (IF active_buffer = {} THEN {"active"} ELSE {})
    \cup (IF PracBuffer = <<>> THEN {"prac"} ELSE {})
    \cup (IF PriorityBuffer = <<>> THEN {"priority"} ELSE {})

PracNext == \E ready \in SUBSET Buffers : Idle \subseteq ready /\ PracTick(ready)
PracSpec == PracInit /\ [][PracNext]_<<trackers, prac>>

(* The loop ticks the controller for ever, and the device's timing         *)
(* constraints run out.                                                    *)
PracTicks == PracTick(Buffers)

-----------------------------------------------------------------------------
(* What the controller has set up and what the plugin counts agree: no     *)
(* refresh is issued before the recovery or left over after it, and no     *)
(* recovery begins without its refreshes (prac_dram_controller.cpp:169,    *)
(* 291, prac.cpp:142-155).                                                 *)
RecoveryPaired ==
    plugin = "PRAC" =>
        LET left == {i \in DOMAIN prac_buffer : prac_buffer[i][1] = "RFMab"} IN
        CASE m_state = "RECOVERY" -> Cardinality(left) = rem_refs
          [] m_state = "PRE_RECOVERY" -> Cardinality(left) \in {0, AboRecoveryRefs * NumRanks}
          [] OTHER -> prac_buffer = <<>>

(* In a bank with no more rows in use than a recovery refreshes, a row is  *)
(* activated no more often than the threshold and the time until the       *)
(* recovery allow: what does not fit before it is held back, and a row is  *)
(* opened, read and closed again in three ticks at least                   *)
(* (prac_dram_controller.cpp:277, 311, 326, prac_scheduler.cpp:85-93).     *)
HotRows(b) == {h[2] : h \in {x \in Hot["PRAC"] : x[1] = b}}
CountersBounded ==
    plugin = "PRAC" =>
        \A b \in Banks : Cardinality(HotRows(b)) <= AboRecoveryRefs =>
            \A r \in Rows :
                m_counters[b][r] <= AboThreshold + (AboActCycles - MinCycles["ACT"]) \div 3

(* A row that has become critical is refreshed, or waits for the end of    *)
(* the delay after a recovery that had more rows to refresh than           *)
(* commands.                                                               *)
CriticalRowsRefreshed ==
    \A h \in Hot["PRAC"] :
        LET critical == plugin = "PRAC" /\ h[2] \in m_critical_rows[h[1]]
        IN  critical ~> (~critical \/ m_state = "DELAY")
=============================================================================
