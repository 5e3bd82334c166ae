---------------------------- MODULE SimpleO3LLC -----------------------------
(***************************************************************************)
(* The last-level cache of the simple out-of-order processor               *)
(* (src/frontend/impl/processor/simpleO3/llc.cpp): sets in LRU order,      *)
(* MSHRs for the lines on their way, requests that wait for an answer, and *)
(* two lists of requests whose cache latency has not passed.               *)
(*                                                                         *)
(* The clocks of the two lists are kept as the ticks left until them.  A   *)
(* request is an address and the core it came from; once it is in the      *)
(* cache its type no longer matters.  Line, set and tag of an address are  *)
(* constants: the code cuts them out of its bits.                          *)
(***************************************************************************)
EXTENDS Naturals, Sequences, FiniteSets, SequencesExt

CONSTANTS
    Cores,          \* 1..n
    Addrs,          \* the addresses in use
    LineOf,         \* address -> the line it lies in (align())
    SetOf,          \* line -> its set (get_index())
    Latency,        \* m_latency
    Ways,           \* m_associativity
    Mshrs           \* m_num_mshrs

Lines == {LineOf[a] : a \in Addrs}
Sets == {SetOf[l] : l \in Lines}

ASSUME CacheAssumption ==
    /\ LineOf \in [Addrs -> Lines] /\ SetOf \in [Lines -> Sets]
    /\ Latency \in Nat \ {0} /\ Ways \in Nat \ {0} /\ Mshrs \in Nat \ {0}

VARIABLES
    sets,       \* set -> its lines, the least recently used first
    mshrs,      \* the addresses whose misses hold an MSHR
    waiters,    \* address -> the requests its answer goes to (m_receive_requests)
    misses,     \* m_miss_list: requests for the memory, oldest first
    hits        \* m_hit_list: requests to be answered from the cache

llcVars == <<sets, mshrs, waiters, misses, hits>>

Requests == [addr : Addrs, core : Cores]
LineStates == [line : Lines, dirty : BOOLEAN, ready : BOOLEAN]
ReadMisses == [left : 0..Latency, kind : {"read"}, addr : Addrs]
WriteMisses == [left : 0..Latency, kind : {"write"}, line : Lines]
MissEntries == ReadMisses \cup WriteMisses

LlcInit ==
    /\ sets = [s \in Sets |-> <<>>]
    /\ mshrs = {}
    /\ waiters = [a \in Addrs |-> {}]
    /\ misses = <<>>
    /\ hits = {}

SetWith(a) == sets[SetOf[LineOf[a]]]
WithSet(a, lines) == [sets EXCEPT ![SetOf[LineOf[a]]] = lines]

(* The places of a set that hold the line of an address.                   *)
PlacesOf(a) == {i \in 1..Len(SetWith(a)) : SetWith(a)[i].line = LineOf[a]}

(* check_set_hit().  If no line has the tag the code reads a flag beyond   *)
(* the end of the list, and answers "no hit" whatever it finds there.      *)
Hit(a) == \E i \in PlacesOf(a) : SetWith(a)[i].ready

(* check_mshr_hit(): an MSHR for any address of the line.                  *)
MshrsOf(a) == {b \in mshrs : LineOf[b] = LineOf[a]}

(* The lines of the set that may be evicted; the first one, the least      *)
(* recently used, is the victim.                                           *)
Victims(a) == {i \in 1..Len(SetWith(a)) : SetWith(a)[i].ready}

(* Mutant: the least recently used line goes even if it is on its way.     *)
VictimAny(a) == 1

Victim(a) == CHOOSE i \in Victims(a) : \A j \in Victims(a) : i <= j

CanAllocate(a) ==
    /\ Cardinality(mshrs) < Mshrs
    /\ Len(SetWith(a)) < Ways \/ Victims(a) # {}

NeedEviction(a) == Len(SetWith(a)) >= Ways

-----------------------------------------------------------------------------
(* send(), one action for each way it accepts a request.                   *)

(* Mutant: a hit forgets that the line was written before.                 *)
HitLineClean(a, write) ==
    LET i == CHOOSE p \in PlacesOf(a) : SetWith(a)[p].ready
    IN  Append(RemoveAt(SetWith(a), i), [line |-> LineOf[a], dirty |-> write, ready |-> TRUE])

(* The line moves to the end of its set.                                   *)
HitLine(a, write) ==
    LET i == CHOOSE p \in PlacesOf(a) : SetWith(a)[p].ready
    IN  Append(RemoveAt(SetWith(a), i),
               [line |-> LineOf[a], dirty |-> SetWith(a)[i].dirty \/ write, ready |-> TRUE])

SendHit(c, a, write) ==
    /\ Hit(a)
    /\ sets' = WithSet(a, HitLine(a, write))
    /\ hits' = hits \cup {[left |-> Latency, req |-> [addr |-> a, core |-> c]]}
    /\ UNCHANGED <<mshrs, waiters, misses>>

(* Mutant: the request waits under its own address.                        *)
SendJoinOwnAddress(c, a, write) ==
    /\ ~Hit(a) /\ MshrsOf(a) # {}
    /\ waiters' = [waiters EXCEPT ![a] = @ \cup {[addr |-> a, core |-> c]}]
    /\ UNCHANGED <<sets, mshrs, misses, hits>>

(* A second miss on a line that is on its way joins the first one.         *)
SendJoin(c, a, write) ==
    /\ ~Hit(a)
    /\ \E first \in MshrsOf(a) :
          waiters' = [waiters EXCEPT ![first] = @ \cup {[addr |-> a, core |-> c]}]
    /\ sets' = WithSet(a, [i \in DOMAIN SetWith(a) |->
                  IF i \in PlacesOf(a) THEN [SetWith(a)[i] EXCEPT !.dirty = @ \/ write]
                  ELSE SetWith(a)[i]])
    /\ UNCHANGED <<mshrs, misses, hits>>

(* evict_line(): what it adds to the miss list.                            *)
Writeback(victim) ==
    IF victim.dirty THEN <<[left |-> Latency, kind |-> "write", line |-> victim.line]>> ELSE <<>>

(* allocate_line(): the set with the new line.                             *)
Allocated(a, new) ==
    Append(IF NeedEviction(a) THEN RemoveAt(SetWith(a), Victim(a)) ELSE SetWith(a), new)

(* A new line, an MSHR for it, and a request to the memory behind the      *)
(* write-back of the victim.                                               *)
SendMiss(c, a, write) ==
    /\ ~Hit(a) /\ MshrsOf(a) = {} /\ CanAllocate(a)
    /\ sets' = WithSet(a, Allocated(a, [line |-> LineOf[a], dirty |-> write, ready |-> FALSE]))
    /\ misses' =
          misses \o (IF NeedEviction(a) THEN Writeback(SetWith(a)[Victim(a)]) ELSE <<>>)
                 \o <<[left |-> Latency, kind |-> "read", addr |-> a]>>
    /\ mshrs' = mshrs \cup {a}
    /\ waiters' = [waiters EXCEPT ![a] = {[addr |-> a, core |-> c]}]
    /\ UNCHANGED hits

SendAccepted(c, a, write) ==
    SendHit(c, a, write) \/ SendJoin(c, a, write) \/ SendMiss(c, a, write)

WouldAccept(a) == Hit(a) \/ MshrsOf(a) # {} \/ CanAllocate(a)

-----------------------------------------------------------------------------
(* receive() for a set of answered addresses: their lines are ready and    *)
(* their MSHRs free.  SimpleO3::receive() clears their waiters.            *)
Freed(answered) == {b \in mshrs : \E a \in answered : LineOf[a] = LineOf[b]}

Received(answered) ==
    LET filled == {LineOf[b] : b \in Freed(answered)}
    IN  /\ mshrs' = mshrs \ Freed(answered)
        /\ sets' = [s \in Sets |-> [i \in DOMAIN sets[s] |->
                       [sets[s][i] EXCEPT !.ready = @ \/ sets[s][i].line \in filled]]]
        /\ waiters' = [a \in Addrs |-> IF a \in answered THEN {} ELSE waiters[a]]

-----------------------------------------------------------------------------
(* tick(): the entries whose latency passes with this tick.  The memory    *)
(* takes some of the due misses, given by their places in the list; every  *)
(* due hit is answered.                                                    *)
DueMisses == {i \in 1..Len(misses) : misses[i].left <= 1}
DueHits == {h \in hits : h.left = 1}

CountDown(left) == IF left = 0 THEN 0 ELSE left - 1

(* The entries at the given places, in their order, one tick older.        *)
Remaining(kept) ==
    LET place(k) == CHOOSE i \in kept : Cardinality({j \in kept : j <= i}) = k
    IN  [k \in 1..Cardinality(kept) |-> [misses[place(k)] EXCEPT !.left = CountDown(@)]]

(* Mutant: a due miss leaves the list whether it was taken or not.         *)
MissesLeftDropping(taken) == Remaining((1..Len(misses)) \ DueMisses)

MissesLeft(taken) == Remaining((1..Len(misses)) \ taken)

LlcTickTaking(taken) ==
    /\ misses' = MissesLeft(taken)
    /\ hits' = {[h EXCEPT !.left = @ - 1] : h \in hits \ DueHits}
    /\ Received({h.req.addr : h \in DueHits})
=============================================================================
