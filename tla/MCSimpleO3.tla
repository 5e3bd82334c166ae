----------------------------- MODULE MCSimpleO3 -----------------------------
(***************************************************************************)
(* Small instances of SimpleO3: two cores, one set of two ways, three      *)
(* pages of one line with two addresses each.                              *)
(***************************************************************************)
EXTENDS SimpleO3

MCLineOf == [a \in PPages \X Offsets |-> a[1]]
MCSetOf == [p \in PPages |-> 0]
MCAddrs == PPages \X Offsets

Line(bubbles, load, store) == [bubbles |-> bubbles, load |-> load, store |-> store]

(* Two loads of a line at different offsets, a store to the other line,    *)
(* consecutive loads that conflict in the set, bubbles in between.         *)
MCTrace ==
    <<<<Line(0, <<1, 0>>, <<2, 1>>), Line(0, <<1, 1>>, NoAddr)>>,
      <<Line(1, <<1, 0>>, NoAddr), Line(0, <<2, 0>>, NoAddr), Line(0, <<1, 1>>, <<2, 1>>)>>>>
=============================================================================
