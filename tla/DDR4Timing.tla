----------------------------- MODULE DDR4Timing -----------------------------
(***************************************************************************)
(* The static tables of the DDR4 device model (src/dram/impl/DDR4.cpp).    *)
(***************************************************************************)
EXTENDS TimingCons

(* The commands GenericController issues: a request or its prerequisite.   *)
DDR4Commands == {"ACT", "PRE", "PREA", "RD", "WR", "REFab"}

DDR4Scope(commands) ==
    [c \in commands |-> IF c \in {"PREA", "REFab"} THEN 1 ELSE 3]

(* Every constraint with window 1 on the path of a command, over the       *)
(* timing values T (m_timing_vals), a record of naturals.                  *)
DDR4Constraints(T) == {
    After(0, {"RD"}, {"RD"}, T.nBL),
    After(0, {"WR"}, {"WR"}, T.nBL),

    After(1, {"RD"}, {"RD"}, T.nCCDS),
    After(1, {"WR"}, {"WR"}, T.nCCDS),
    After(1, {"RD"}, {"WR"}, T.nCL + T.nBL + 2 - T.nCWL),
    After(1, {"WR"}, {"RD"}, T.nCWL + T.nBL + T.nWTRS),
    After(1, {"RD"}, {"PREA"}, T.nRTP),
    After(1, {"WR"}, {"PREA"}, T.nCWL + T.nBL + T.nWR),
    After(1, {"ACT"}, {"ACT"}, T.nRRDS),
    After(1, {"ACT"}, {"PREA"}, T.nRAS),
    After(1, {"PREA"}, {"ACT"}, T.nRP),
    After(1, {"ACT"}, {"REFab"}, T.nRC),
    After(1, {"PRE", "PREA"}, {"REFab"}, T.nRP),
    After(1, {"REFab"}, {"ACT", "PREA"}, T.nRFC),

    After(2, {"RD"}, {"RD"}, T.nCCDL),
    After(2, {"WR"}, {"WR"}, T.nCCDL),
    After(2, {"WR"}, {"RD"}, T.nCWL + T.nBL + T.nWTRL),
    After(2, {"ACT"}, {"ACT"}, T.nRRDL),

    After(3, {"ACT"}, {"ACT"}, T.nRC),
    After(3, {"ACT"}, {"RD", "WR"}, T.nRCD),
    After(3, {"ACT"}, {"PRE"}, T.nRAS),
    After(3, {"PRE"}, {"ACT"}, T.nRP),
    After(3, {"RD"}, {"PRE"}, T.nRTP),
    After(3, {"WR"}, {"PRE"}, T.nCWL + T.nBL + T.nWR)}

(* The constraints between a rank and its siblings: switching the rank     *)
(* costs nCS.                                                              *)
DDR4SiblingConstraints(T) == {
    After(1, {"RD"}, {"RD", "WR"}, T.nBL + T.nCS),
    After(1, {"WR"}, {"RD"}, T.nCL + T.nBL + T.nCS - T.nCWL)}

DDR4Gap(T, commands) == GapTable(DDR4Constraints(T), commands)
DDR4SiblingGap(T, commands) == GapTable(DDR4SiblingConstraints(T), commands)

(* The window constraint: four ACTs of a rank.                             *)
DDR4FawLevel == 1
DDR4FawDepth == 4

DDR4ReadLatency(T) == T.nCL + T.nBL
=============================================================================
