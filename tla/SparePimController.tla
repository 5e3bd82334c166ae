-------------------------- MODULE SparePimController --------------------------
(***************************************************************************)
(* SPAREPIMController (src/dram_controller/impl/sparepim_controller.cpp):  *)
(* one instance per channel, all of them driving the one device.           *)
(*                                                                         *)
(* The actions leave alone when each controller ticks and who sends the    *)
(* requests: that is the business of the modules that extend this one.     *)
(***************************************************************************)
EXTENDS HBM3, FiniteSets

CONSTANTS
    Reqs,        \* the requests that may arrive
    NoReq,       \* none of them
    ChannelOf,   \* request -> the channel its address belongs to
    Accepted,    \* the requests whose type send() accepts
    Program,     \* request -> the operations it expands to
    StatKeys,    \* the counters an expansion moves
    StatsDelta,  \* request -> counter -> what its expansion adds to it
    QueueSize    \* the parameter queue_size

Counted == Commands \ {"RD", "WR"}
Kinds == {"Command", "Delay", "ConfigureSPM", "Complete"}
Ops == [kind : Kinds, command : Commands \cup {"none"}, addr : Addrs, cycles : Nat,
        request : Reqs \cup {NoReq}]

IsCommand(op, cmd) == op.kind = "Command" /\ op.command = cmd

(* Every expansion ends with enqueue_complete() and calls it nowhere else; *)
(* enqueue_bgmu_read_delay() and the SPM latency never go below 1.         *)
ASSUME ControllerAssumption ==
    /\ ChannelOf \in [Reqs -> Channels]
    /\ Accepted \subseteq Reqs
    /\ Program \in [Reqs -> Seq(Ops)]
    /\ StatsDelta \in [Reqs -> [StatKeys -> Nat]]
    /\ QueueSize \in Nat
    /\ NoReq \notin Reqs
    /\ "none" \notin Commands

WellFormed(ops) ==
    \A i \in 1..Len(ops) :
        /\ ops[i].kind = "Complete" <=> i = Len(ops)
        /\ ops[i].kind = "Complete" => ops[i].request \in Reqs
        /\ ops[i].kind = "Command" => ops[i].command \in Commands
        /\ ops[i].kind = "Delay" => ops[i].cycles > 0
        /\ ops[i].kind = "ConfigureSPM" => ops[i].cycles > 0 /\ ops[i].cycles \in SpmLatencies

ASSUME ProgramAssumption ==
    \A r \in Reqs :
        /\ Len(Program[r]) > 0
        /\ WellFormed(Program[r])
        /\ Program[r][Len(Program[r])].request = r

VARIABLES
    queue,    \* m_request_queue of each channel
    opq,      \* m_op_queue of each channel
    delay,    \* m_delay_done_clk - m_clk while m_delay_active, otherwise 0
    asked,    \* history: the latest SPM latency the controller configured, 0 if none
    stats,    \* the counters of an expansion
    issued,   \* the counters of update_command_stats()
    done      \* the requests whose callback was called

controllerVars == <<queue, opq, delay, asked, stats, issued, done>>
memoryVars == <<deviceVars, controllerVars>>

ControllerTypeOK ==
    /\ queue \in [Channels -> Seq(Reqs)]
    /\ opq \in [Channels -> Seq(Ops)]
    /\ delay \in [Channels -> Nat]
    /\ asked \in [Channels -> Nat]
    /\ stats \in [Channels -> [StatKeys -> Nat]]
    /\ issued \in [Channels -> [Counted -> Nat]]
    /\ done \in [Channels -> SUBSET Reqs]

ControllerInit ==
    /\ DeviceInit
    /\ queue = [ch \in Channels |-> <<>>]
    /\ opq = [ch \in Channels |-> <<>>]
    /\ delay = [ch \in Channels |-> 0]
    /\ asked = [ch \in Channels |-> 0]
    /\ stats = [ch \in Channels |-> [k \in StatKeys |-> 0]]
    /\ issued = [ch \in Channels |-> [c \in Counted |-> 0]]
    /\ done = [ch \in Channels |-> {}]

-----------------------------------------------------------------------------
(* send() and priority_send() at a channel.  A full queue refuses every    *)
(* request; send() also refuses a type it does not know, priority_send()   *)
(* looks at no type.                                                       *)
HasRoom(ch) == Len(queue[ch]) < QueueSize
WouldAccept(r) == HasRoom(ChannelOf[r]) /\ r \in Accepted

Send(r) ==
    /\ queue' = IF WouldAccept(r)
                THEN [queue EXCEPT ![ChannelOf[r]] = Append(@, r)] ELSE queue
    /\ UNCHANGED <<deviceVars, opq, delay, asked, stats, issued, done>>

PrioritySend(r) ==
    /\ queue' = IF HasRoom(ChannelOf[r])
                THEN [queue EXCEPT ![ChannelOf[r]] = <<r>> \o @] ELSE queue
    /\ UNCHANGED <<deviceVars, opq, delay, asked, stats, issued, done>>

-----------------------------------------------------------------------------
(* tick().  When the operation queue is empty the controller first takes   *)
(* the head of the request queue and expands it; in the same tick it       *)
(* handles the head operation.                                             *)
Idle(ch) == opq[ch] = <<>> /\ queue[ch] = <<>>
Loads(ch) == opq[ch] = <<>> /\ queue[ch] # <<>>
Pending(ch) == IF Loads(ch) THEN Program[Head(queue[ch])] ELSE opq[ch]
HeadOp(ch) == Head(Pending(ch))
HeadIs(ch, kind) == ~Idle(ch) /\ HeadOp(ch).kind = kind

(* Mutant: the expanded request stays in the queue.                        *)
LoadWithoutPop(ch) ==
    IF Loads(ch)
    THEN /\ UNCHANGED queue
         /\ stats' = [stats EXCEPT ![ch] =
                         [k \in StatKeys |-> @[k] + StatsDelta[Head(queue[ch])][k]]]
    ELSE UNCHANGED <<queue, stats>>

Load(ch) ==
    IF Loads(ch)
    THEN /\ queue' = [queue EXCEPT ![ch] = Tail(@)]
         /\ stats' = [stats EXCEPT ![ch] =
                         [k \in StatKeys |-> @[k] + StatsDelta[Head(queue[ch])][k]]]
    ELSE UNCHANGED <<queue, stats>>

(* The head operation stays where it is, or is popped.                     *)
Keep(ch) == opq' = [opq EXCEPT ![ch] = Pending(ch)]
Pop(ch) == opq' = [opq EXCEPT ![ch] = Tail(Pending(ch))]

TickIdle(ch) ==
    /\ Idle(ch)
    /\ UNCHANGED memoryVars

(* Mutant: the timer arms again when it runs out.                          *)
TickDelayRearming(ch) ==
    /\ HeadIs(ch, "Delay")
    /\ Load(ch)
    /\ Keep(ch)
    /\ delay' = [delay EXCEPT ![ch] = IF @ <= 1 THEN HeadOp(ch).cycles ELSE @ - 1]
    /\ UNCHANGED <<deviceVars, asked, issued, done>>

(* tick_delay(): the first visit arms the timer, the visit at which it     *)
(* runs out pops the operation.                                            *)
TickDelay(ch) ==
    /\ HeadIs(ch, "Delay")
    /\ Load(ch)
    /\ \/ delay[ch] = 0 /\ Keep(ch) /\ delay' = [delay EXCEPT ![ch] = HeadOp(ch).cycles]
       \/ delay[ch] > 1 /\ Keep(ch) /\ delay' = [delay EXCEPT ![ch] = @ - 1]
       \/ delay[ch] = 1 /\ Pop(ch) /\ delay' = [delay EXCEPT ![ch] = 0]
    /\ UNCHANGED <<deviceVars, asked, issued, done>>

TickConfigureSPM(ch) ==
    /\ HeadIs(ch, "ConfigureSPM")
    /\ Load(ch)
    /\ Notify(HeadOp(ch).cycles)
    /\ asked' = [asked EXCEPT ![ch] = HeadOp(ch).cycles]
    /\ Pop(ch)
    /\ UNCHANGED <<delay, issued, done>>

(* issue_if_ready(): only the timing is asked, never the row state.        *)
TickIssue(ch) ==
    /\ HeadIs(ch, "Command")
    /\ CheckReady(ch, HeadOp(ch).command, HeadOp(ch).addr)
    /\ Load(ch)
    /\ IssueCommand(ch, HeadOp(ch).command, HeadOp(ch).addr)
    /\ issued' = IF HeadOp(ch).command \in Counted
                 THEN [issued EXCEPT ![ch][HeadOp(ch).command] = @ + 1] ELSE issued
    /\ Pop(ch)
    /\ UNCHANGED <<delay, asked, done>>

TickStall(ch) ==
    /\ HeadIs(ch, "Command")
    /\ ~CheckReady(ch, HeadOp(ch).command, HeadOp(ch).addr)
    /\ Load(ch)
    /\ Keep(ch)
    /\ UNCHANGED <<deviceVars, delay, asked, issued, done>>

(* complete_request(): the callback tells the frontend.                    *)
TickComplete(ch) ==
    /\ HeadIs(ch, "Complete")
    /\ Load(ch)
    /\ Pop(ch)
    /\ done' = [done EXCEPT ![ch] = @ \cup {HeadOp(ch).request}]
    /\ UNCHANGED <<deviceVars, delay, asked, issued>>

ControllerTick(ch) ==
    \/ TickIdle(ch)
    \/ TickDelay(ch)
    \/ TickConfigureSPM(ch)
    \/ TickIssue(ch)
    \/ TickStall(ch)
    \/ TickComplete(ch)

(* The request whose operations are in the operation queue: the last of    *)
(* them completes it.                                                      *)
Serving(ch) == IF opq[ch] = <<>> THEN NoReq ELSE opq[ch][Len(opq[ch])].request
InService(ch) == {Serving(ch)} \ {NoReq}
=============================================================================
