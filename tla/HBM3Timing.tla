----------------------------- MODULE HBM3Timing -----------------------------
(***************************************************************************)
(* The static tables of the HBM3 device model (src/dram/impl/HBM3.cpp):    *)
(* the commands, the level at which each one is checked, and the timing    *)
(* constraints that set_timing_vals() hands to populate_timingcons().      *)
(***************************************************************************)
EXTENDS TimingCons

CONSTANT T  \* the timing values (m_timing_vals), a record of naturals

(* The commands that SPAREPIMController puts in its operation queue.       *)
SparePimCommands ==
    {"ACT", "PRE", "RD", "WR", "MAC", "EMUL", "MOV", "SPM", "ACC"}

PimCommands == {"MAC", "EMUL", "MOV", "SPM", "ACC"}

(* The deepest level whose nodes check_ready() consults for a command.     *)
(* Rows and columns have no nodes, so their commands stop at the bank.     *)
HBM3Scope(commands) ==
    [c \in commands |-> IF c \in {"PREA", "REFab", "RFMab"} THEN 0 ELSE 3]

Reads == {"RD", "RDA"}
Writes == {"WR", "WRA"}
Refreshes == {"REFsb", "RFMsb"}

(* Every constraint with window 1, except the SPM ones whose latency the   *)
(* controller rewrites while it runs.                                      *)
FixedConstraints == {
    After(0, {"ACT"}, {"ACT", "PRE", "PREA"} \cup Refreshes \cup {"REFab", "RFMab"}, 2),

    After(1, {"ACT"}, {"ACT"}, T.nRRDS),
    After(1, {"ACT"}, Refreshes, T.nRRDS + 1),
    After(1, Refreshes, Refreshes, T.nRREFD),
    After(1, Refreshes, {"ACT"}, T.nRREFD - 1),
    After(1, Reads, Reads, T.nBL),
    After(1, Writes, Writes, T.nBL),
    After(1, Reads, Reads, T.nCCDS),
    After(1, Writes, Writes, T.nCCDS),
    After(1, Reads, Writes, T.nCL + T.nBL + 2 - T.nCWL),
    After(1, Writes, Reads, T.nCWL + T.nBL + T.nWTRS),
    After(1, {"RD"}, {"PREA"}, T.nRTPS),
    After(1, {"WR"}, {"PREA"}, T.nCWL + T.nBL + T.nWR),
    After(1, {"ACT"}, {"PREA"}, T.nRAS),
    After(1, {"PREA"}, {"ACT"}, T.nRP),
    After(1, {"ACT"}, {"REFab", "RFMab"}, T.nRC),
    After(1, {"PRE", "PREA"}, {"REFab", "RFMab"}, T.nRP),
    After(1, {"RDA"}, {"REFab", "RFMab"}, T.nRP + T.nRTPS),
    After(1, {"WRA"}, {"REFab", "RFMab"}, T.nCWL + T.nBL + T.nWR + T.nRP),
    After(1, {"REFab", "RFMab"}, {"ACT"} \cup Refreshes, T.nRFC),
    After(1, {"MAC", "EMUL"}, PimCommands, T.nCCDL),
    After(1, {"MOV"}, PimCommands, T.nCCDS),
    After(1, {"ACC"}, PimCommands, T.nCCDL + 1),

    After(2, Reads, Reads, T.nCCDL),
    After(2, Writes, Writes, T.nCCDL),
    After(2, Writes, Reads, T.nCWL + T.nBL + T.nWTRL),
    After(2, {"ACT"}, {"ACT"}, T.nRRDL),
    After(2, {"ACT"}, Refreshes, T.nRRDL + 1),
    After(2, Refreshes, {"ACT"}, T.nRRDL - 1),

    After(3, {"RD"}, {"PRE"}, T.nRTPS),
    After(3, {"ACT"}, {"ACT"}, T.nRC),
    After(3, {"ACT"}, Reads, T.nRCDRD),
    After(3, {"ACT"}, Writes, T.nRCDWR),
    After(3, {"ACT"}, {"MAC", "EMUL", "MOV", "SPM"}, T.nRCDRD),
    After(3, {"ACT"}, {"PRE"}, T.nRAS),
    After(3, {"PRE"}, {"ACT"}, T.nRP),
    After(3, {"RD"}, {"PRE"}, T.nRTPL),
    After(3, {"WR"}, {"PRE"}, T.nCWL + T.nBL + T.nWR),
    After(3, {"MAC", "EMUL", "MOV"}, {"PRE"}, T.nRTPL),
    After(3, {"RDA"}, {"ACT"} \cup Refreshes, T.nRTPL + T.nRP),
    After(3, {"WRA"}, {"ACT"} \cup Refreshes, T.nCWL + T.nBL + T.nWR + T.nRP)}

HBM3Gap(commands) == GapTable(FixedConstraints, commands)

(* The commands that wait for nSPM cycles after an SPM, at each level.     *)
HBM3SpmFollowers(commands) ==
    [level \in 0..3 |-> commands \cap
        CASE level = 1 -> {"ACT", "PRE", "PREA"} \cup Reads \cup Writes \cup PimCommands
          [] level = 3 -> {"PRE"}
          [] OTHER -> {}]

(* The one constraint with a history: four ACTs of a pseudo channel.       *)
HBM3FawLevel == 1
HBM3FawDepth == 4
HBM3Faw == T.nFAW
=============================================================================
