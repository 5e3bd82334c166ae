------------------------------- MODULE EsefService -------------------------------
(***************************************************************************)
(* What the SPARE-PIM memory system promises its frontend, with no         *)
(* commands, cycles or timing: each channel serves the tokens it accepted  *)
(* one at a time, first come first served, and takes each one through the  *)
(* stages of ESEF in order - QK^T, Elemax, BGMU read, sparse PV, ACC -     *)
(* leaving out exactly the stages the token does not have.                 *)
(***************************************************************************)
EXTENDS Integers, Sequences

CONSTANTS Channels, Reqs, NoReq, ChannelOf, QueueSize,
          Stages  \* request -> the stages it goes through, in order

VARIABLES
    pending,   \* the requests waiting at each channel
    current,   \* the request in service, or NoReq
    todo,      \* the stages it has not left yet, the present one first
    finished   \* the requests served

vars == <<pending, current, todo, finished>>

Init ==
    /\ pending = [ch \in Channels |-> <<>>]
    /\ current = [ch \in Channels |-> NoReq]
    /\ todo = [ch \in Channels |-> <<>>]
    /\ finished = [ch \in Channels |-> {}]

Arrive(r) ==
    /\ Len(pending[ChannelOf[r]]) < QueueSize
    /\ pending' = [pending EXCEPT ![ChannelOf[r]] = Append(@, r)]
    /\ UNCHANGED <<current, todo, finished>>

(* A stage of a single operation is over in the step that enters it.       *)
Start(ch) ==
    /\ current[ch] = NoReq /\ pending[ch] # <<>>
    /\ pending' = [pending EXCEPT ![ch] = Tail(@)]
    /\ current' = [current EXCEPT ![ch] = Head(pending[ch])]
    /\ \E first \in 1..2 :
          todo' = [todo EXCEPT ![ch] =
                      SubSeq(Stages[Head(pending[ch])], first, Len(Stages[Head(pending[ch])]))]
    /\ UNCHANGED finished

Advance(ch) ==
    /\ current[ch] # NoReq /\ todo[ch] # <<>>
    /\ todo' = [todo EXCEPT ![ch] = Tail(@)]
    /\ UNCHANGED <<pending, current, finished>>

Finish(ch) ==
    /\ current[ch] # NoReq /\ todo[ch] = <<>>
    /\ finished' = [finished EXCEPT ![ch] = @ \cup {current[ch]}]
    /\ current' = [current EXCEPT ![ch] = NoReq]
    /\ UNCHANGED <<pending, todo>>

Next ==
    \/ \E r \in Reqs : Arrive(r)
    \/ \E ch \in Channels : Start(ch) \/ Advance(ch) \/ Finish(ch)

Spec == Init /\ [][Next]_vars
=============================================================================
