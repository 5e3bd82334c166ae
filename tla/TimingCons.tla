----------------------------- MODULE TimingCons -----------------------------
(***************************************************************************)
(* How every DRAM device writes its timing constraints (src/dram/spec.h):  *)
(* a list of entries that name a level, the preceding and the following    *)
(* commands and a latency, which populate_timingcons() spreads over the    *)
(* commands of a level.                                                    *)
(*                                                                         *)
(* A level is the length of the path that leads to a node: 0 is a channel, *)
(* 1 a pseudo channel or rank, 2 a bank group, 3 a bank.                   *)
(***************************************************************************)
EXTENDS Integers, FiniteSets, FiniteSetsExt

(* An entry with window 1, the only ones a table holds: the window         *)
(* constraint of a device stands beside its table.                         *)
After(level, preceding, following, latency) ==
    [level |-> level, pre |-> preceding, post |-> following, lat |-> latency]

(* The table over the commands in use.  update_timing() keeps the maximum  *)
(* of all constraints between two commands, and one that is not positive   *)
(* holds nothing back.                                                     *)
GapTable(constraints, commands) ==
    [level \in 0..3 |-> [c \in commands |-> [d \in commands |->
        Max({0} \cup {k.lat : k \in {x \in constraints :
                 x.level = level /\ c \in x.pre /\ d \in x.post}})]]]

-----------------------------------------------------------------------------
(* How the devices turn their presets into cycles (src/base/utils.cpp).    *)

(* The length of a cycle in picoseconds, from the rate in MT/s.            *)
CyclePs(rate) == 1000000 \div (rate \div 2)

(* x * k \div ps without a product that leaves TLC's integers.             *)
Scaled(x, k, ps) == k * (x \div ps) + (k * (x % ps)) \div ps

(* JEDEC_rounding() and JEDEC_rounding_DDR5(): nanoseconds to cycles.      *)
JedecRounding(ns, ps) == (Scaled(ns * 1000, 1000, ps) + 974) \div 1000
JedecRoundingDdr5(ns, ps) == (Scaled(ns * 1000, 997, ps) + 1000) \div 1000

(* The place of a value in a table's header: the index functions of the    *)
(* set_timing_vals() of every device.                                      *)
Column(header, x) == CHOOSE i \in DOMAIN header : header[i] = x

(* The victim row refreshes are held back by whatever holds back an ACT,   *)
(* but for an ACT of another bank: the tables of the VRR variants list     *)
(* them beside ACT.                                                        *)
FollowLikeAct(constraints, victims) ==
    {IF "ACT" \in k.post /\ ~(k.pre = {"ACT"} /\ k.level < 3)
     THEN [k EXCEPT !.post = @ \cup victims] ELSE k : k \in constraints}

(* What waits for the end of a victim row refresh of nVRR cycles.          *)
AfterVictimRefresh(v, refreshes, victims, nVRR) == {
    After(1, {v}, {"PREA"} \cup refreshes, nVRR),
    After(3, {v}, {"ACT"} \cup victims, nVRR)}
=============================================================================
