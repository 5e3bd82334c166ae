------------------------------ MODULE GenericDRAM ------------------------------
(***************************************************************************)
(* GenericDRAMSystem (src/memory_system/impl/generic_DRAM_system.cpp) with *)
(* a SPAREPIMController per channel: one tick() advances the device and    *)
(* then ticks the controllers in the order of their channels; between two  *)
(* ticks requests arrive.                                                  *)
(*                                                                         *)
(* Here the requests come from an environment that may send any request,   *)
(* in any order and at any time, and retry one that was refused.           *)
(* SparePimSystem replaces it by the trace frontend.                       *)
(***************************************************************************)
EXTENDS SparePimController

CONSTANT NumChannels

ASSUME ChannelsAssumption ==
    NumChannels \in Nat \ {0} /\ Channels = 0..(NumChannels - 1)

VARIABLES
    turn,     \* 0 between two calls of tick(), k when controller k - 1 is next
    accepted  \* the requests a send returned true for (s_num_*_requests)

vars == <<memoryVars, turn, accepted>>

TypeOK ==
    /\ DeviceTypeOK
    /\ ControllerTypeOK
    /\ turn \in 0..NumChannels
    /\ accepted \subseteq Reqs

Init ==
    /\ ControllerInit
    /\ turn = 0
    /\ accepted = {}

(* send(): the address mapper picks the channel.                           *)
MemorySend(r) ==
    /\ turn = 0
    /\ Send(r)
    /\ accepted' = IF WouldAccept(r) THEN accepted \cup {r} ELSE accepted
    /\ UNCHANGED turn

(* priority_send() of a controller, which plugins call directly.           *)
MemoryPrioritySend(r) ==
    /\ turn = 0
    /\ PrioritySend(r)
    /\ accepted' = IF HasRoom(ChannelOf[r]) THEN accepted \cup {r} ELSE accepted
    /\ UNCHANGED turn

(* The parts of tick().                                                    *)
TickDram ==
    /\ turn = 0
    /\ DeviceTick
    /\ turn' = 1
    /\ UNCHANGED <<controllerVars, accepted>>

TickController ==
    /\ turn > 0
    /\ ControllerTick(turn - 1)
    /\ turn' = IF turn = NumChannels THEN 0 ELSE turn + 1
    /\ UNCHANGED accepted

Environment == \E r \in Reqs \ accepted : MemorySend(r) \/ MemoryPrioritySend(r)

Next == Environment \/ TickDram \/ TickController

Spec == Init /\ [][Next]_vars

(* The main loop keeps calling tick(), and a tick() runs to its end:       *)
(* whatever the queues hold, the device and each controller can take their *)
(* turn, so the turn alone is asked to move on.                            *)
TurnMoves == turn' \in 0..NumChannels /\ turn' # turn

FairSpec == Spec /\ WF_turn(TurnMoves)

-----------------------------------------------------------------------------
(* Safety.                                                                 *)

Queued(ch) == {queue[ch][i] : i \in 1..Len(queue[ch])}

(* No request is lost, duplicated or misrouted between send() and its      *)
(* callback: every accepted request is in exactly one place, the queue of  *)
(* its own channel, the operation queue there, or the set of completed     *)
(* requests, and it is in that place once.                                 *)
ExactlyOnePlace ==
    /\ accepted = UNION {Queued(ch) \cup InService(ch) \cup done[ch] : ch \in Channels}
    /\ \A ch \in Channels :
         /\ \A r \in Queued(ch) \cup InService(ch) \cup done[ch] : ChannelOf[r] = ch
         /\ \A i, j \in 1..Len(queue[ch]) : queue[ch][i] = queue[ch][j] => i = j
         /\ Queued(ch) \cap (InService(ch) \cup done[ch]) = {}
         /\ InService(ch) \cap done[ch] = {}

(* What is left of an expansion is still the end of one: no operation      *)
(* before the last completes a request.                                    *)
OperationsWellFormed == \A ch \in Channels : WellFormed(opq[ch])

(* The queue of a controller never holds more than queue_size requests.    *)
QueueBounded == \A ch \in Channels : Len(queue[ch]) <= QueueSize

(* The delay timer runs only for a Delay at the head of the queue, and     *)
(* never with more cycles than that operation asks for.                    *)
DelayBelongsToHead ==
    \A ch \in Channels : delay[ch] > 0 =>
        /\ opq[ch] # <<>>
        /\ Head(opq[ch]).kind = "Delay"
        /\ delay[ch] <= Head(opq[ch]).cycles

-----------------------------------------------------------------------------
(* The step at which a controller issues a command to the device.          *)
Issues(ch, cmd) ==
    /\ turn = ch + 1
    /\ HeadIs(ch, "Command") /\ HeadOp(ch).command = cmd
    /\ CheckReady(ch, cmd, HeadOp(ch).addr)

(* The latency the device holds is the one the controller asked for last.  *)
(* It holds for a single channel only: the device's table is shared, and   *)
(* the controllers of two channels overwrite each other's value.           *)
SpmUnderOwnLatency == \A ch \in Channels : asked[ch] # 0 => nSPM = asked[ch]

(* An SPM that follows a configuration of its own controller is timed with *)
(* the latency that one asked for, max(VOC) cycles of its own token, when  *)
(* the device reads its table, ticks after it was written.                 *)
SpmTimedByOwnToken ==
    [][\A ch \in Channels : Issues(ch, "SPM") /\ asked[ch] # 0 => nSPM = asked[ch]]_vars

(* An ACT finds its bank closed, and a PRE finds open exactly the row its  *)
(* own request opened: expansions bracket their rows correctly.            *)
RowsBracketed ==
    [][\A ch \in Channels :
         /\ Issues(ch, "ACT") =>
              \A b \in Banks : OnPath(b, HeadOp(ch).addr.path) => open[ch][b] = {}
         /\ Issues(ch, "PRE") =>
              \A b \in Banks : OnPath(b, HeadOp(ch).addr.path) =>
                  open[ch][b] = {HeadOp(ch).addr.row}]_vars

-----------------------------------------------------------------------------
(* Liveness.  Every accepted request is completed, whatever arrives before *)
(* or after it and at either end of the queue.                             *)
ServesEveryRequest ==
    \A r \in Reqs : r \in accepted ~> r \in done[ChannelOf[r]]
=============================================================================
