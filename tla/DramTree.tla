------------------------------ MODULE DramTree ------------------------------
(***************************************************************************)
(* The node tree every DRAM device is made of (src/dram/node.h): which     *)
(* nodes a command's address reaches, when a command may be issued, and    *)
(* the history behind window constraints.  HBM3 and DDR4 extend it with    *)
(* their tables and row states.                                            *)
(*                                                                         *)
(* A node is the path that leads to it: <<>> is a channel, <<p>> a pseudo  *)
(* channel (a rank of DDR4), <<p, g>> a bank group, <<p, g, b>> a bank.  A *)
(* command address is a path of length 3 in which Each (-1 in the code)    *)
(* stands for every child, a row and a column.                             *)
(*                                                                         *)
(* The code stores for each node and command the clock at which it may be  *)
(* issued next (m_cmd_ready_clk).  Only its distance from the clock is     *)
(* ever compared, so the module keeps that distance: wait counts down to 0 *)
(* and the clock itself is not needed.                                     *)
(***************************************************************************)
EXTENDS Integers, Sequences

CONSTANTS
    Channels,       \* the channels of the device
    Pchs,           \* pseudo channels (ranks) of a channel
    Bgs,            \* bank groups of a pseudo channel
    Bks,            \* banks of a bank group
    Rows,           \* rows of a bank
    Cols,           \* columns of a row
    Commands,       \* the commands in use
    Scope,          \* command -> the deepest level check_ready() consults
    Gap,            \* level -> command -> command -> cycles between the two
    FawLevel,       \* the level, depth and length of the window constraint
    FawDepth,
    Faw

Each == -1
Levels == 0..3
Banks == {<<p, g, b>> : p \in Pchs, g \in Bgs, b \in Bks}
Nodes == {<<>>} \cup {<<p>> : p \in Pchs}
                \cup {<<p, g>> : p \in Pchs, g \in Bgs} \cup Banks
Paths == (Pchs \cup {Each}) \X (Bgs \cup {Each}) \X (Bks \cup {Each})
Addrs == [path : Paths, row : Rows, col : Cols]

ASSUME TreeAssumption ==
    /\ Pchs \subseteq Nat /\ Bgs \subseteq Nat /\ Bks \subseteq Nat
    /\ Scope \in [Commands -> Levels]
    /\ Gap \in [Levels -> [Commands -> [Commands -> Int]]]
    /\ FawLevel \in Levels /\ FawDepth \in Nat \ {0} /\ Faw \in Nat

VARIABLES
    wait,   \* channel -> node -> command -> cycles until it may be issued
    acts    \* channel -> node -> ages of its latest FawDepth ACTs, newest first

Larger(a, b) == IF a < b THEN b ELSE a

(* The node lies on the (possibly all-bank) path of an address.            *)
OnPath(n, path) == \A i \in 1..Len(n) : path[i] \in {Each, n[i]}

(* Mutant: the level of the scope itself is not consulted.                 *)
CheckReadyAboveScope(ch, cmd, addr) ==
    \A n \in Nodes :
        Len(n) < Scope[cmd] /\ OnPath(n, addr.path) => wait[ch][n][cmd] = 0

(* check_ready(): every node from the channel down to the scope level is   *)
(* past its ready clock.  The row state is not consulted.                  *)
CheckReady(ch, cmd, addr) ==
    \A n \in Nodes :
        Len(n) <= Scope[cmd] /\ OnPath(n, addr.path) => wait[ch][n][cmd] = 0

(* m_cmd_history after one more command: the issue clocks of the latest    *)
(* ACTs, kept as ages.  An age stops at Faw: an older ACT, or one that was  *)
(* never issued, constrains nothing.                                       *)
Recorded(ch, n, cmd) ==
    IF cmd = "ACT" /\ Len(n) = FawLevel
    THEN [k \in 1..FawDepth |-> IF k = 1 THEN 0 ELSE acts[ch][n][k - 1]]
    ELSE acts[ch][n]

(* How long cmd keeps d from being issued at a node: the table, and the    *)
(* window constraint measured from the FawDepth-th latest ACT.             *)
TableDelay(ch, n, cmd, d) ==
    Larger(Gap[Len(n)][cmd][d],
           IF cmd = "ACT" /\ d = "ACT" THEN Faw - Recorded(ch, n, cmd)[FawDepth] ELSE 0)

TreeInit ==
    /\ wait = [ch \in Channels |-> [n \in Nodes |-> [c \in Commands |-> 0]]]
    /\ acts = [ch \in Channels |-> [n \in Nodes |-> [k \in 1..FawDepth |-> Faw]]]

(* One more cycle: every distance to a ready clock shrinks.                *)
TreeTick ==
    /\ wait' = [ch \in Channels |-> [n \in Nodes |-> [c \in Commands |->
                  IF wait[ch][n][c] = 0 THEN 0 ELSE wait[ch][n][c] - 1]]]
    /\ acts' = [ch \in Channels |-> [n \in Nodes |-> [k \in 1..FawDepth |->
                  IF acts[ch][n][k] = Faw THEN Faw ELSE acts[ch][n][k] + 1]]]
=============================================================================
