----------------------------- MODULE SparePimSystem -----------------------------
(***************************************************************************)
(* The whole simulator in a SPARE-PIM configuration: the main loop         *)
(* (src/main.cpp), the trace frontend (src/frontend/impl/sparepim/         *)
(* sparepim_trace.cpp), GenericDRAMSystem, the SPAREPIM controllers and    *)
(* the HBM3 device.                                                        *)
(***************************************************************************)
EXTENDS GenericDRAM

CONSTANTS
    Traces,         \* the traces the frontend may have loaded
    FrontendRatio,  \* frontend->get_clock_ratio()
    MemoryRatio     \* memory_system->get_clock_ratio()

ASSUME RatioAssumption == FrontendRatio \in Nat \ {0} /\ MemoryRatio \in Nat \ {0}

(* tick() makes a new request of every line, so none is sent twice.        *)
ASSUME TracesAssumption ==
    \A t \in Traces :
        t \in Seq(Reqs) /\ \A i, j \in 1..Len(t) : t[i] = t[j] => i = j

VARIABLES
    trace,      \* m_trace
    idx,        \* m_curr_trace_idx + 1
    completed,  \* m_completed_requests
    iter,       \* i % tick_mult of the main loop
    loop        \* what the loop does next: "frontend", "memory", or "stopped"

frontendVars == <<trace, idx, completed>>
sysVars == <<vars, frontendVars, iter, loop>>

TickMult == FrontendRatio * MemoryRatio

SystemInit ==
    /\ Init
    /\ trace \in Traces
    /\ idx = 1
    /\ completed = 0
    /\ iter = 0
    /\ loop = "frontend"

TraceSent == idx > Len(trace)
(* Mutant: the loop ends once everything was sent.                         *)
IsFinishedWhenSent == TraceSent

IsFinished == TraceSent /\ completed >= Len(trace)

(* frontend->tick(): offer the next token, and move on if it was taken.    *)
FrontendTick ==
    IF TraceSent THEN UNCHANGED <<vars, frontendVars>>
    ELSE /\ MemorySend(trace[idx])
         /\ idx' = IF WouldAccept(trace[idx]) THEN idx + 1 ELSE idx
         /\ UNCHANGED <<trace, completed>>

NextIteration ==
    /\ iter' = (iter + 1) % TickMult
    /\ loop' = "frontend"

(* The first half of the loop's body, with the check that leaves the loop. *)
LoopFrontend ==
    /\ loop = "frontend"
    /\ IF iter % MemoryRatio = 0 THEN FrontendTick ELSE UNCHANGED <<vars, frontendVars>>
    /\ loop' = IF IsFinished' THEN "stopped" ELSE "memory"
    /\ UNCHANGED iter

(* The second half: a whole tick() of the memory system, or none.          *)
LoopSkipMemory ==
    /\ loop = "memory" /\ turn = 0
    /\ iter % FrontendRatio # 0
    /\ NextIteration
    /\ UNCHANGED <<vars, frontendVars>>

LoopTickDram ==
    /\ loop = "memory"
    /\ iter % FrontendRatio = 0
    /\ TickDram
    /\ UNCHANGED <<frontendVars, iter, loop>>

(* The callback the frontend put in the request counts its completion.     *)
Completes(ch) == HeadIs(ch, "Complete")

LoopTickController ==
    /\ loop = "memory"
    /\ TickController
    /\ completed' = completed + IF Completes(turn - 1) THEN 1 ELSE 0
    /\ IF turn' = 0 THEN NextIteration ELSE UNCHANGED <<iter, loop>>
    /\ UNCHANGED <<trace, idx>>

(* The simulation is over: main() finalizes and returns.                   *)
Stopped ==
    /\ loop = "stopped"
    /\ UNCHANGED sysVars

SystemNext ==
    \/ LoopFrontend
    \/ LoopSkipMemory
    \/ LoopTickDram
    \/ LoopTickController
    \/ Stopped

(* The loop is one thread that never waits: from every control point but   *)
(* the last it goes on.  (SystemNext has a step at every control point:    *)
(* the runs check that nothing deadlocks.)                                 *)
LoopMoves ==
    /\ loop # "stopped"
    /\ loop' \in {"frontend", "memory", "stopped"}
    /\ turn' \in 0..NumChannels
    /\ <<loop, turn>>' # <<loop, turn>>

SystemSpec == SystemInit /\ [][SystemNext]_sysVars /\ WF_<<loop, turn>>(LoopMoves)

-----------------------------------------------------------------------------
(* Safety.                                                                 *)

(* The operations of the requests' expansions that are the command: each   *)
(* is a request and the place in its expansion.                            *)
CommandsOf(requests, cmd) ==
    UNION {{<<r, i>> : i \in {j \in 1..Len(Program[r]) : IsCommand(Program[r][j], cmd)}} :
           r \in requests}

(* When the simulation stops nothing is left behind: no request or         *)
(* operation in any controller, no running delay, no open row, and every   *)
(* command of every token's expansion was issued.                          *)
StopsClean ==
    loop = "stopped" =>
        /\ accepted = {trace[i] : i \in 1..Len(trace)}
        /\ \A ch \in Channels :
             /\ Idle(ch) /\ delay[ch] = 0
             /\ \A b \in Banks : open[ch][b] = {}
             /\ \A c \in Counted : issued[ch][c] =
                  Cardinality(CommandsOf({r \in accepted : ChannelOf[r] = ch}, c))

(* Liveness.  The simulation terminates, whatever the queue size, the      *)
(* clock ratios and the refusals on the way.                               *)
Terminates == <>(loop = "stopped")
=============================================================================
