------------------------------ MODULE SimpleO3 ------------------------------
(***************************************************************************)
(* The simple out-of-order processor (src/frontend/impl/processor/simpleO3)*)
(* with its cores, its cache and its address translation, before a memory  *)
(* system that answers reads in any order.                                 *)
(*                                                                         *)
(* The main loop ticks the processor and the memory in turn.  A tick of    *)
(* the processor is a tick of the cache and one of each core; `turn` says  *)
(* which comes next.  Between two ticks of the processor the memory system *)
(* may tick any number of times, and so answer any number of reads.        *)
(*                                                                         *)
(* An address is a page and an offset.  The instructions of a core are the *)
(* lines of its trace: bubbles, a load and perhaps a store.                *)
(***************************************************************************)
EXTENDS SimpleO3LLC, RandomTranslation

CONSTANTS
    Offsets,        \* offsets within a page
    NoAddr,         \* -1: no load or store left to send
    Trace,          \* core -> its instructions, repeated for ever
    Ipc,            \* m_ipc
    Depth,          \* m_depth of the instruction window
    Expected,       \* m_num_expected_insts
    ReadSlots,      \* reads and writes the memory system takes before it
    WriteSlots      \* refuses one

VAddrs == VPages \X Offsets
TraceLines == [bubbles : Nat, load : VAddrs \cup {NoAddr}, store : VAddrs \cup {NoAddr}]

ASSUME ProcessorAssumption ==
    /\ IsFiniteSet(Cores) /\ Cores = 1..Cardinality(Cores) /\ Spaces = Cores
    /\ Addrs = PPages \X Offsets
    /\ \A c \in Cores : Trace[c] \in Seq(TraceLines) \ {<<>>}
    /\ {Ipc, Depth, Expected, ReadSlots, WriteSlots} \subseteq Nat \ {0}

VARIABLES
    window,     \* core -> instructions in flight, oldest first
    inst,       \* core -> what is left of its current trace line
    next,       \* core -> the trace line after it (m_curr_trace_idx)
    retired,    \* core -> instructions retired, counted up to Expected
    reading,    \* address -> reads the memory has taken and not answered
    writing,    \* the number of writes it holds
    turn,       \* 0: cache, c: core c, Memory: the memory system
    overtaken,  \* history: a hit was answered after its line had been missed again
    unsaved     \* history: lines with stores the memory has not seen

coreVars == <<window, inst, next, retired>>
memVars == <<reading, writing>>
vars == <<llcVars, pageOf, coreVars, memVars, turn, overtaken, unsaved>>

Memory == Cardinality(Cores) + 1
WindowEntries == [addr : Addrs \cup {NoAddr}, ready : BOOLEAN]

TypeOK ==
    /\ sets \in [Sets -> Seq(LineStates)] /\ mshrs \subseteq Addrs
    /\ waiters \in [Addrs -> SUBSET Requests]
    /\ hits \subseteq [left : 1..Latency, req : Requests] /\ misses \in Seq(MissEntries)
    /\ pageOf \in [Cores -> [VPages -> PPages \cup {NoPage}]]
    /\ window \in [Cores -> Seq(WindowEntries)]
    /\ inst \in [Cores -> TraceLines] /\ next \in [Cores -> Nat]
    /\ retired \in [Cores -> 0..Expected]
    /\ reading \in [Addrs -> Nat] /\ writing \in 0..WriteSlots
    /\ turn \in 0..Memory /\ overtaken \in BOOLEAN /\ unsaved \subseteq Lines

Init ==
    /\ LlcInit /\ TranslationInit
    /\ window = [c \in Cores |-> <<>>]
    /\ inst = [c \in Cores |-> Trace[c][1]]
    /\ next = [c \in Cores |-> 1 + (1 % Len(Trace[c]))]
    /\ retired = [c \in Cores |-> 0]
    /\ reading = [a \in Addrs |-> 0] /\ writing = 0
    /\ turn = 0 /\ overtaken = FALSE /\ unsaved = {}

Finished == \A c \in Cores : retired[c] = Expected

-----------------------------------------------------------------------------
(* Answers.                                                                *)

(* set_ready(): every instruction of the window with that address.         *)
Woken(c, answered) ==
    [i \in DOMAIN window[c] |->
        IF [addr |-> window[c][i].addr, core |-> c] \in answered
        THEN [window[c][i] EXCEPT !.ready = TRUE] ELSE window[c][i]]

(* The memory answers one of its reads: SimpleO3::receive() passes it to   *)
(* the cache and to the requests that wait for the address.                *)
MemoryAnswer(a) ==
    /\ turn = Memory /\ reading[a] > 0
    /\ reading' = [reading EXCEPT ![a] = @ - 1]
    /\ Received({a})
    /\ window' = [c \in Cores |-> Woken(c, waiters[a])]
    /\ UNCHANGED <<misses, hits, pageOf, inst, next, retired, writing, turn, overtaken, unsaved>>

(* A write leaves the memory system; nobody is told.                       *)
MemoryWrite ==
    /\ turn = Memory /\ writing > 0
    /\ writing' = writing - 1
    /\ UNCHANGED <<llcVars, pageOf, coreVars, reading, turn, overtaken, unsaved>>

MemoryDone ==
    /\ turn = Memory
    /\ turn' = 0
    /\ UNCHANGED <<llcVars, pageOf, coreVars, memVars, overtaken, unsaved>>

(* The due misses of a kind the memory system has room for, in their order.*)
Taken(kind, room) ==
    {i \in DueMisses :
        /\ misses[i].kind = kind
        /\ Cardinality({j \in DueMisses : j < i /\ misses[j].kind = kind}) < room}

ReadsHeld == MapThenSumSet(LAMBDA a : reading[a], Addrs)

Dirty(l) == \E i \in DOMAIN sets[SetOf[l]] :
                sets[SetOf[l]][i].line = l /\ sets[SetOf[l]][i].dirty

WritebacksOf(l) == {i \in 1..Len(misses) : misses[i].kind = "write" /\ misses[i].line = l}

(* The latest store to a line is in the line while that is dirty, and in   *)
(* the youngest of its write-backs else: when the memory takes that one,   *)
(* the line is saved.                                                      *)
LlcTick ==
    LET reads == Taken("read", ReadSlots - ReadsHeld)
        writes == Taken("write", WriteSlots - writing)
    IN  /\ turn = 0
        /\ LlcTickTaking(reads \cup writes)
        /\ reading' = [a \in Addrs |-> reading[a] + Cardinality({i \in reads : misses[i].addr = a})]
        /\ writing' = writing + Cardinality(writes)
        /\ unsaved' = {l \in unsaved :
                          Dirty(l) \/ \A i \in writes \cap WritebacksOf(l) :
                                         \E j \in WritebacksOf(l) : j > i}
        /\ window' = [c \in Cores |-> Woken(c, {h.req : h \in DueHits})]
        /\ overtaken' = (overtaken \/ \E h \in DueHits : MshrsOf(h.req.addr) # {})
        /\ turn' = 1
        /\ UNCHANGED <<pageOf, inst, next, retired>>

-----------------------------------------------------------------------------
(* A tick of a core: retire, insert bubbles, send one load or store.       *)

(* retire(): the ready instructions at the old end, Ipc at most.           *)
RetireCount(c) ==
    CHOOSE k \in 0..Len(window[c]) :
        /\ k <= Ipc /\ \A i \in 1..k : window[c][i].ready
        /\ k = Len(window[c]) \/ k = Ipc \/ ~window[c][k + 1].ready

BubbleCount(c) ==
    Min({inst[c].bubbles, Ipc, Depth - (Len(window[c]) - RetireCount(c))})

Bubble == [addr |-> NoAddr, ready |-> TRUE]

(* The window once instructions have retired and bubbles have come in.     *)
WindowNow(c) ==
    SubSeq(window[c], RetireCount(c) + 1, Len(window[c])) \o [i \in 1..BubbleCount(c) |-> Bubble]

Retire(c) == retired' = [retired EXCEPT ![c] = Min({Expected, @ + RetireCount(c)})]

MayLoad(c) ==
    /\ inst[c].load # NoAddr /\ inst[c].bubbles = BubbleCount(c)
    /\ BubbleCount(c) < Ipc /\ Len(WindowNow(c)) < Depth

MayStore(c) ==
    inst[c].load = NoAddr /\ inst[c].bubbles = BubbleCount(c) /\ inst[c].store # NoAddr

NextInst(c) ==
    /\ inst' = [inst EXCEPT ![c] = Trace[c][next[c]]]
    /\ next' = [next EXCEPT ![c] = 1 + (@ % Len(Trace[c]))]

SameInst(c, load) ==
    /\ inst' = [inst EXCEPT ![c].bubbles = @ - BubbleCount(c), ![c].load = load]
    /\ UNCHANGED next

(* The load enters the window; a store of the same trace line has to wait  *)
(* for the next tick.                                                      *)
CoreLoad(c) ==
    /\ turn = c /\ MayLoad(c)
    /\ \E p \in PhysicalPages(c, inst[c].load[1]) :
          LET a == <<p, inst[c].load[2]>>
          IN  /\ Translate(c, inst[c].load[1], p)
              /\ SendAccepted(c, a, FALSE)
              /\ window' = [window EXCEPT ![c] =
                               Append(WindowNow(c), [addr |-> a, ready |-> FALSE])]
    /\ IF inst[c].store # NoAddr THEN SameInst(c, NoAddr) ELSE NextInst(c)
    /\ Retire(c)
    /\ turn' = turn + 1
    /\ UNCHANGED <<memVars, overtaken, unsaved>>

(* A store needs no place in the window.                                   *)
CoreStore(c) ==
    /\ turn = c /\ MayStore(c)
    /\ \E p \in PhysicalPages(c, inst[c].store[1]) :
          LET a == <<p, inst[c].store[2]>>
          IN  /\ Translate(c, inst[c].store[1], p)
              /\ SendAccepted(c, a, TRUE)
              /\ unsaved' = unsaved \cup {LineOf[a]}
    /\ window' = [window EXCEPT ![c] = WindowNow(c)]
    /\ NextInst(c)
    /\ Retire(c)
    /\ turn' = turn + 1
    /\ UNCHANGED <<memVars, overtaken>>

(* The cache has no room.  The page has been translated all the same.      *)
CoreRefused(c) ==
    /\ turn = c /\ (MayLoad(c) \/ MayStore(c))
    /\ LET v == IF MayLoad(c) THEN inst[c].load ELSE inst[c].store
       IN  \E p \in PhysicalPages(c, v[1]) :
              /\ Translate(c, v[1], p)
              /\ ~WouldAccept(<<p, v[2]>>)
    /\ window' = [window EXCEPT ![c] = WindowNow(c)]
    /\ SameInst(c, inst[c].load)
    /\ Retire(c)
    /\ turn' = turn + 1
    /\ UNCHANGED <<llcVars, memVars, overtaken, unsaved>>

(* No slot or no window entry is left for anything but bubbles.            *)
CoreBlocked(c) ==
    /\ turn = c /\ ~MayLoad(c) /\ ~MayStore(c)
    /\ window' = [window EXCEPT ![c] = WindowNow(c)]
    /\ SameInst(c, inst[c].load)
    /\ Retire(c)
    /\ turn' = turn + 1
    /\ UNCHANGED <<llcVars, pageOf, memVars, overtaken, unsaved>>

CoreTick(c) == CoreLoad(c) \/ CoreStore(c) \/ CoreRefused(c) \/ CoreBlocked(c)

(* The loop ends when the processor has ticked and every core is done.     *)
Stopped == turn = Memory /\ Finished

Next ==
    \/ /\ ~Stopped
       /\ \/ LlcTick
          \/ \E c \in Cores : CoreTick(c)
          \/ \E a \in Addrs : MemoryAnswer(a)
          \/ MemoryWrite
          \/ MemoryDone
    \/ Stopped /\ UNCHANGED vars

(* The loop is one thread that waits for nothing, and the memory system    *)
(* serves every request (GenericController!EveryRequestServed).            *)
Fairness ==
    /\ WF_vars(~Stopped /\ (LlcTick \/ (\E c \in Cores : CoreTick(c)) \/ MemoryDone))
    /\ \A a \in Addrs : SF_vars(~Stopped /\ MemoryAnswer(a))
    /\ SF_vars(~Stopped /\ MemoryWrite)

Spec == Init /\ [][Next]_vars /\ Fairness

-----------------------------------------------------------------------------
(* Properties.                                                             *)

(* A set holds a line once and at most Ways lines.  A line is locked       *)
(* against eviction exactly while one MSHR waits for it: need_eviction()   *)
(* asserts that no line without an MSHR is found unready, and an MSHR      *)
(* points into a line that must still be there.  And an instruction that   *)
(* waits has an answer on its way: a hit that counts down, or a place      *)
(* among the waiters of a read that the memory has or will get.  Only a    *)
(* hit answered after its line was missed again, which takes over the      *)
(* waiters of that miss, can break this.                                   *)
LockedIffMshr ==
    /\ \A s \in Sets :
          /\ Len(sets[s]) <= Ways
          /\ \A i, j \in DOMAIN sets[s] : sets[s][i].line = sets[s][j].line => i = j
          /\ \A i \in DOMAIN sets[s] :
                ~sets[s][i].ready <=> \E b \in mshrs : LineOf[b] = sets[s][i].line
    /\ \A b \in mshrs : PlacesOf(b) # {} /\ MshrsOf(b) = {b}
    /\ Cardinality(mshrs) <= Mshrs

ReadPending(a) ==
    reading[a] > 0 \/ \E i \in 1..Len(misses) : misses[i].kind = "read" /\ misses[i].addr = a

NoWaiterLost ==
    ~overtaken =>
        \A c \in Cores : \A i \in DOMAIN window[c] :
            LET req == [addr |-> window[c][i].addr, core |-> c]
            IN  ~window[c][i].ready =>
                    \/ \E h \in hits : h.req = req
                    \/ \E a \in Addrs : req \in waiters[a] /\ ReadPending(a)

MissesAnswered == LockedIffMshr /\ NoWaiterLost

(* A store accepted by the cache is in a dirty line or in a write-back,    *)
(* until the memory has taken the last one: hits, joined misses, evictions *)
(* and late answers never drop it, nor does an older write-back's taking.  *)
StoresReachMemory ==
    \A l \in unsaved : Dirty(l) \/ WritebacksOf(l) # {}

(* Every core gets through its instructions, unless a hit was answered     *)
(* late: refused misses, full windows and locked sets resolve themselves.  *)
EveryCoreFinishes == <>(Finished \/ overtaken)

(* A line that is ready is no longer in flight (llc.h:27).                 *)
ReadyLinesHaveArrived ==
    \A s \in Sets : \A i \in DOMAIN sets[s] :
        sets[s][i].ready =>
            \A a \in Addrs : LineOf[a] = sets[s][i].line => ~ReadPending(a)
=============================================================================
