-------------------------- MODULE GenericController --------------------------
(***************************************************************************)
(* GenericDRAMController                                                   *)
(* (src/dram_controller/impl/generic_dram_controller.cpp) with its FRFCFS  *)
(* scheduler, all-bank refresh and closed-row policy, on a DDR4 device.    *)
(* There is one instance per channel and they share nothing, so this is    *)
(* the instance of one channel.  Between two ticks reads and writes arrive *)
(* in any number and any order.                                            *)
(***************************************************************************)
EXTENDS DDR4, SequencesExt

CONSTANTS
    Ch,           \* the channel of this controller (m_channel_id)
    NumRanks,
    Requests,     \* the reads and writes that may arrive
    NoRequest,    \* none of them: the id of a refresh or of a close-row request
    FinalOf,      \* request -> "RD" or "WR"  (m_request_translations)
    AddrsOf,      \* request -> the addresses it may carry
    MaxSize,      \* max_size of the active, read and write buffers
    PriorityMax,  \* max_size of the priority buffer
    LowMark,      \* wr_low_watermark * max_size, rounded up
    HighMark,     \* wr_high_watermark * max_size, rounded down
    Cap,          \* cap of ClosedRowPolicy; OpenRowPolicy is a cap never reached
    nREFI,        \* the period of AllBankRefresh
    ReadLatency   \* m_read_latency

ASSUME ControllerAssumption ==
    /\ Ch \in Channels
    /\ NumRanks \in Nat /\ Pchs = 0..(NumRanks - 1)
    /\ NoRequest \notin Requests
    /\ FinalOf \in [Requests -> {"RD", "WR"}]
    /\ AddrsOf \in [Requests -> SUBSET BankAddrs]
    /\ {MaxSize, PriorityMax, LowMark, HighMark, Cap, nREFI, ReadLatency} \subseteq Nat
    /\ Cap > 0 /\ nREFI > 0

VARIABLES
    turn,       \* "dram" between two calls of tick(), "controller" in the middle of one
    buffer,     \* the four ReqBuffers
    pending,    \* the reads on their way back, with the cycles left until depart
    now,        \* orders arrivals: m_clk, counted only when a request saw it
    writeMode,  \* m_is_write_mode
    timer,      \* m_next_refresh_cycle - m_clk
    accesses,   \* bank -> m_col_accesses
    counts,     \* s_row_hits, s_row_misses, s_row_conflicts
    accepted,   \* the requests send() returned true for
    forwarded,  \* the reads among them answered from the write buffer
    done        \* the reads whose callback was called and the writes issued

controllerVars ==
    <<turn, buffer, pending, now, writeMode, timer, accesses, counts, accepted, forwarded, done>>
vars == <<ddrVars, controllerVars>>

Buffers == {"active", "priority", "read", "write"}

(* A request is a read or a write of send(), a close-row request of the    *)
(* row policy or a refresh of a rank.                                      *)
EntriesOf(ids, finals, addrs) ==
    [id : ids, final : finals, addr : addrs, arrive : Nat, counted : BOOLEAN]

Entries == EntriesOf(accepted, {"RD", "WR"}, BankAddrs)
           \cup EntriesOf({NoRequest}, {"PRE"}, BankAddrs)
           \cup EntriesOf({NoRequest}, {"REFab"}, RankAddrs)

ControllerTypeOK ==
    /\ DdrTypeOK
    /\ turn \in {"dram", "controller"}
    /\ buffer \in [Buffers -> Seq(Entries)]
    /\ pending \in Seq([id : accepted, left : Nat])
    /\ now \in Nat
    /\ writeMode \in BOOLEAN
    /\ timer \in 1..nREFI
    /\ accesses \in [Banks -> Nat]
    /\ counts \in [{"hit", "miss", "conflict"} -> Nat]
    /\ accepted \subseteq Requests /\ forwarded \subseteq accepted /\ done \subseteq accepted

Init ==
    /\ DdrInit
    /\ turn = "dram"
    /\ buffer = [b \in Buffers |-> <<>>]
    /\ pending = <<>>
    /\ now = 0
    /\ writeMode = FALSE
    /\ timer = nREFI
    /\ accesses = [b \in Banks |-> 0]
    /\ counts = [c \in {"hit", "miss", "conflict"} |-> 0]
    /\ accepted = {} /\ forwarded = {} /\ done = {}

-----------------------------------------------------------------------------
(* ReqBuffer::enqueue(): the comparison lets one entry more than max_size in. *)
HasRoom(buf, max) == Len(buf) <= max

(* send().  A read whose address is in the write buffer is answered from   *)
(* there; a request its buffer has no room for is refused and changes      *)
(* nothing.                                                                *)
Forwards(r, addr) ==
    FinalOf[r] = "RD" /\ \E i \in DOMAIN buffer["write"] : buffer["write"][i].addr = addr

BufferOf(r) == IF FinalOf[r] = "RD" THEN "read" ELSE "write"

SendForwarded(r, addr) ==
    /\ turn = "dram"
    /\ Forwards(r, addr)
    /\ pending' = Append(pending, [id |-> r, left |-> 1])
    /\ accepted' = accepted \cup {r}
    /\ forwarded' = forwarded \cup {r}
    /\ UNCHANGED <<ddrVars, turn, buffer, now, writeMode, timer, accesses, counts, done>>

SendEnqueued(r, addr) ==
    /\ turn = "dram"
    /\ ~Forwards(r, addr)
    /\ HasRoom(buffer[BufferOf(r)], MaxSize)
    /\ buffer' = [buffer EXCEPT ![BufferOf(r)] =
                    Append(@, [id |-> r, final |-> FinalOf[r], addr |-> addr,
                               arrive |-> now, counted |-> FALSE])]
    /\ accepted' = accepted \cup {r}
    /\ UNCHANGED <<ddrVars, turn, pending, now, writeMode, timer, accesses, counts, forwarded, done>>

-----------------------------------------------------------------------------
(* The parts of tick(): what it reads is the state at its beginning.       *)

(* serve_completed_reads(): at most the first pending read departs.        *)
Aged == [i \in DOMAIN pending |->
           [pending[i] EXCEPT !.left = IF @ = 0 THEN 0 ELSE @ - 1]]
Departs == pending # <<>> /\ Aged[1].left = 0
StillPending == IF Departs THEN Tail(Aged) ELSE Aged
Departed == IF Departs THEN {pending[1].id} ELSE {}

(* AllBankRefresh::tick(): one refresh for each rank.  It would throw if   *)
(* the priority buffer refused one.                                        *)
RefreshOf(rank) ==
    [id |-> NoRequest, final |-> "REFab",
     addr |-> [path |-> <<rank, Each, Each>>, row |-> Each, col |-> Each],
     arrive |-> 0, counted |-> FALSE]

Priority ==
    IF timer = 1 THEN buffer["priority"] \o [k \in 1..NumRanks |-> RefreshOf(k - 1)]
    ELSE buffer["priority"]

(* FRFCFS: a ready request before one that is not, then the older one,     *)
(* then the one in front.                                                  *)
NextCommand(e) == Preq(Ch, e.final, e.addr)
IsReady(e) == CheckReady(Ch, NextCommand(e), e.addr)

(* Mutant: the younger of two goes first.                                   *)
GoesFirstYoungest(buf, i, j) ==
    IF IsReady(buf[i]) # IsReady(buf[j]) THEN IsReady(buf[i])
    ELSE buf[i].arrive > buf[j].arrive \/ (buf[i].arrive = buf[j].arrive /\ i < j)

GoesFirst(buf, i, j) ==
    IF IsReady(buf[i]) # IsReady(buf[j]) THEN IsReady(buf[i])
    ELSE buf[i].arrive < buf[j].arrive \/ (buf[i].arrive = buf[j].arrive /\ i < j)

Best(buf) == CHOOSE i \in DOMAIN buf : \A j \in DOMAIN buf \ {i} : GoesFirst(buf, i, j)

(* Mutant: write mode is never left.                                       *)
WriteModeAfterSticky ==
    writeMode \/ Len(buffer["write"]) > HighMark \/ buffer["read"] = <<>>

(* set_write_mode().                                                       *)
WriteModeAfter ==
    IF writeMode THEN ~(Len(buffer["write"]) < LowMark /\ buffer["read"] # <<>>)
    ELSE Len(buffer["write"]) > HighMark \/ buffer["read"] = <<>>

(* schedule_request(): a ready active request; otherwise the head of the   *)
(* priority buffer, and nothing else while that waits; otherwise the best  *)
(* of the reads or of the writes.                                          *)
ActiveReady == \E i \in DOMAIN buffer["active"] : IsReady(buffer["active"][i])

(* Mutant: maintenance requests come after everything else.                *)
SourcePriorityLast ==
    CASE ActiveReady                                           -> "active"
      [] ~ActiveReady /\ buffer["read"] \o buffer["write"] # <<>> ->
            IF WriteModeAfter THEN "write" ELSE "read"
      [] OTHER                                                 -> "priority"

Source ==
    CASE ActiveReady                      -> "active"
      [] ~ActiveReady /\ Priority # <<>>  -> "priority"
      [] OTHER                            -> IF WriteModeAfter THEN "write" ELSE "read"

(* A command that closes a row waits for the active requests of its banks. *)
Closes(cmd) == cmd \in {"PRE", "PREA"}
SameBank(p, q) == \A l \in 1..3 : p[l] = q[l] \/ Each \in {p[l], q[l]}

(* Mutant: the paths are compared as they are, wildcards included.         *)
ClashesExact(e) ==
    /\ Closes(NextCommand(e))
    /\ \E i \in DOMAIN buffer["active"] : buffer["active"][i].addr.path = e.addr.path

Clashes(e) ==
    /\ Closes(NextCommand(e))
    /\ \E i \in DOMAIN buffer["active"] : SameBank(buffer["active"][i].addr.path, e.addr.path)

(* What the tick serves: nothing, or the next command of one entry.        *)
Schedule ==
    LET from == Source
        buf  == IF from = "priority" THEN Priority ELSE buffer[from]
        at   == IF from = "priority" THEN 1 ELSE Best(buf)
    IN  {[from |-> from, at |-> i, entry |-> buf[i], cmd |-> NextCommand(buf[i])] :
            i \in {k \in DOMAIN buf : k = at /\ IsReady(buf[k]) /\ ~Clashes(buf[k])}}

(* ClosedRowPolicy::update(): after Cap accesses to a bank it asks to have *)
(* the row closed, and forgets them whether the buffer took that or not.   *)
CapReached(s) == s.cmd \in {"RD", "WR"} /\ accesses[s.entry.addr.path] + 1 >= Cap

CloseRow(addr) ==
    [id |-> NoRequest, final |-> "PRE", addr |-> addr, arrive |-> 0, counted |-> FALSE]

AccessesAfter(s, b) ==
    CASE s.cmd \in {"PRE", "PREA", "REFab"} /\ OnPath(b, s.entry.addr.path) -> 0
      [] s.cmd \in {"RD", "WR"} /\ b = s.entry.addr.path ->
            IF CapReached(s) THEN 0 ELSE accesses[b] + 1
      [] OTHER -> accesses[b]

(* The buffers after the refresh manager, then after the row policy.       *)
BuffersNow == [buffer EXCEPT !["priority"] = Priority]

BuffersAfter(s) ==
    IF CapReached(s) /\ HasRoom(Priority, PriorityMax)
    THEN [BuffersNow EXCEPT !["priority"] = Append(@, CloseRow(s.entry.addr))] ELSE BuffersNow

(* update_request_stats(): a read or write counts once, at its first       *)
(* command.                                                                *)
Outcome(addr) ==
    CASE RowHit(Ch, addr)                        -> "hit"
      [] ~RowHit(Ch, addr) /\ NodeOpen(Ch, addr) -> "conflict"
      [] OTHER                                   -> "miss"

CountsAfter(e) ==
    IF ~e.counted /\ e.final \in {"RD", "WR"}
    THEN [counts EXCEPT ![Outcome(e.addr)] = @ + 1] ELSE counts

-----------------------------------------------------------------------------
(* tick() of the memory system: the device, then the controller.           *)
TickDram ==
    /\ turn = "dram"
    /\ DdrTick
    /\ turn' = "controller"
    /\ UNCHANGED <<buffer, pending, now, writeMode, timer, accesses, counts, accepted, forwarded, done>>

(* What every tick of the controller does, whatever it schedules.          *)
Housekeeping ==
    /\ turn = "controller" /\ turn' = "dram"
    /\ timer' = IF timer = 1 THEN nREFI ELSE timer - 1
    /\ now' = IF \E b \in {"read", "write"} : \E i \in DOMAIN buffer[b] : buffer[b][i].arrive = now
              THEN now + 1 ELSE now
    /\ writeMode' = IF Source \in {"read", "write"} THEN WriteModeAfter ELSE writeMode
    /\ UNCHANGED <<accepted, forwarded>>

(* What it does besides when it issues a command.                          *)
Serve(s) ==
    /\ Housekeeping
    /\ IssueCommand(Ch, s.cmd, s.entry.addr)
    /\ accesses' = [b \in Banks |-> AccessesAfter(s, b)]
    /\ counts' = CountsAfter(s.entry)

(* Nothing can be issued.                                                  *)
TickStall ==
    /\ Schedule = {}
    /\ Housekeeping
    /\ buffer' = BuffersNow
    /\ pending' = StillPending
    /\ done' = done \cup Departed
    /\ UNCHANGED <<ddrVars, accesses, counts>>

(* The last command of a request: it leaves its buffer, a read waits for   *)
(* its data.                                                               *)
TickFinish(s) ==
    /\ s.cmd = s.entry.final
    /\ Serve(s)
    /\ buffer' = [BuffersAfter(s) EXCEPT ![s.from] = RemoveAt(@, s.at)]
    /\ pending' = IF s.cmd = "RD"
                  THEN Append(StillPending, [id |-> s.entry.id, left |-> ReadLatency])
                  ELSE StillPending
    /\ done' = done \cup Departed \cup (IF s.cmd = "WR" THEN {s.entry.id} ELSE {})

(* A prerequisite that opens no row: the request stays where it is.        *)
TickClose(s) ==
    /\ s.cmd # s.entry.final /\ s.cmd # "ACT"
    /\ Serve(s)
    /\ buffer' = [BuffersAfter(s) EXCEPT ![s.from][s.at].counted = TRUE]
    /\ pending' = StillPending
    /\ done' = done \cup Departed

(* Mutant: the request stays in its buffer as well.                        *)
OpenedWithoutRemove(s) ==
    [BuffersAfter(s) EXCEPT !["active"] = Append(@, [s.entry EXCEPT !.counted = TRUE])]

(* The request whose row was opened moves to the active buffer if that has *)
(* room.                                                                   *)
Opened(s) ==
    IF HasRoom(buffer["active"], MaxSize)
    THEN [[BuffersAfter(s) EXCEPT !["active"] = Append(@, [s.entry EXCEPT !.counted = TRUE])]
             EXCEPT ![s.from] = RemoveAt(@, s.at)]
    ELSE [BuffersAfter(s) EXCEPT ![s.from][s.at].counted = TRUE]

TickOpen(s) ==
    /\ s.cmd # s.entry.final /\ s.cmd = "ACT"
    /\ Serve(s)
    /\ buffer' = Opened(s)
    /\ pending' = StillPending
    /\ done' = done \cup Departed

TickController ==
    \/ TickStall
    \/ \E s \in Schedule : TickFinish(s) \/ TickClose(s) \/ TickOpen(s)

Send == \E r \in Requests \ accepted : \E addr \in AddrsOf[r] :
            SendForwarded(r, addr) \/ SendEnqueued(r, addr)

Next == Send \/ TickDram \/ TickController

Spec == Init /\ [][Next]_vars

(* The main loop keeps calling tick(), and no tick() waits for anything.   *)
TurnMoves == turn' \in {"dram", "controller"} /\ turn' # turn

FairSpec == Spec /\ WF_turn(TurnMoves)

-----------------------------------------------------------------------------
(* Safety.                                                                 *)

(* Where a request is: a slot of a buffer, a place among the pending       *)
(* reads, or done.                                                         *)
PlacesOf(r) ==
    (UNION {{<<b, i>> : i \in {k \in DOMAIN buffer[b] : buffer[b][k].id = r}} : b \in Buffers})
    \cup {<<"pending", i>> : i \in {k \in DOMAIN pending : pending[k].id = r}}
    \cup (IF r \in done THEN {<<"done", 0>>} ELSE {})

(* No request is lost or served twice on its way through the buffers: an   *)
(* accepted one is in exactly one place, the others in none.               *)
OnePlace ==
    \A r \in Requests :
        IF r \in accepted THEN \E p \in PlacesOf(r) : PlacesOf(r) = {p} ELSE PlacesOf(r) = {}

(* Every request in the active buffer finds its row open until its access  *)
(* is issued, and no two of them are for the same bank: no refresh, no     *)
(* conflicting request and no row policy closes the row in between.        *)
ActiveRowOpen ==
    \A i \in DOMAIN buffer["active"] :
        LET e == buffer["active"][i]
        IN  /\ e.final \in {"RD", "WR"} /\ e.counted
            /\ RowHit(Ch, e.addr)
            /\ \A j \in DOMAIN buffer["active"] \ {i} : buffer["active"][j].addr.path # e.addr.path

(* A refresh never has to wait for the next one: when one becomes due the  *)
(* priority buffer holds none, so that it can never fill up with them.     *)
RefreshKeepsUp ==
    turn = "controller" /\ timer = 1 =>
        \A i \in DOMAIN buffer["priority"] : buffer["priority"][i].final # "REFab"

(* That takes a period long enough.  Where a command c keeps the others     *)
(* back for at most rest[c] cycles and nothing is ever kept back for more  *)
(* than longest, what is in the way of the refreshes that become due, with *)
(* buffers of that size, takes at most RefreshLoad cycles: every active    *)
(* request its access and the close-row request that follows from it,      *)
(* every rank its PREA and its refresh, one command after the other.       *)
RestsWithin(gap, sibling, faw, rest, longest) ==
    /\ \A c \in DOMAIN rest, d \in DOMAIN rest, l \in Levels :
          gap[l][c][d] <= rest[c] /\ sibling[l][c][d] <= rest[c]
    /\ faw <= rest["ACT"]
    /\ \A c \in DOMAIN rest : rest[c] <= longest

RefreshLoad(rest, longest, size, ranks) ==
    (size + 2) * (Larger(rest["RD"], rest["WR"]) + rest["PRE"] + 2)
    + ranks * (rest["PREA"] + rest["REFab"] + 2) + longest

PeriodSuffices(rest, longest) ==
    /\ rest \in [Commands -> Nat] /\ longest \in Nat
    /\ RestsWithin(Gap, SiblingGap, Faw, rest, longest)
    /\ RefreshLoad(rest, longest, MaxSize, NumRanks) <= nREFI

(* Hits, misses and conflicts add up to the requests that have been given  *)
(* a command: each read or write is counted once, however many commands    *)
(* and buffers it takes.                                                   *)
CountedOnce ==
    counts["hit"] + counts["miss"] + counts["conflict"] =
        Cardinality({r \in accepted \ forwarded :
            \/ r \in done
            \/ \E i \in DOMAIN pending : pending[i].id = r
            \/ \E b \in Buffers : \E i \in DOMAIN buffer[b] :
                   buffer[b][i].id = r /\ buffer[b][i].counted})

(* No request is lost, served twice or counted twice.                      *)
ServedOnce == OnePlace /\ CountedOnce

(* The step that issues the access of an entry.                            *)
Finishes(e) == turn = "controller" /\ \E s \in Schedule : s.entry = e /\ s.cmd = e.final

Waiting(b) == {buffer[b][i] : i \in DOMAIN buffer[b]}

(* Writes to the same address are issued in the order they arrived.        *)
OldestWriteFinishes ==
    \A e \in Waiting("active") \cup Waiting("write") :
        Finishes(e) => \A w \in Waiting("active") \cup Waiting("write") :
            w.addr = e.addr /\ w.final = "WR" /\ e.final = "WR" => e.arrive <= w.arrive

WritesInOrder == [][OldestWriteFinishes]_vars

(* A read is not issued while a write to its address that arrived before   *)
(* it still waits: such a read is to be answered from the write.  It       *)
(* fails: the write may have moved to the active buffer, where nobody      *)
(* looks for it.                                                           *)
ReadsSeeWrites ==
    [][\A e \in Waiting("active") \cup Waiting("read") :
          Finishes(e) /\ e.final = "RD" => \A w \in Waiting("active") \cup Waiting("write") :
              w.addr = e.addr /\ w.final = "WR" => e.arrive <= w.arrive]_vars

-----------------------------------------------------------------------------
(* Liveness.  Every accepted request is served, although write mode, row   *)
(* conflicts, refreshes and the row policy compete for the one command a   *)
(* tick issues.                                                            *)
EveryRequestServed == \A r \in Requests : r \in accepted ~> r \in done
=============================================================================
