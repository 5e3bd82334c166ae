---------------------------- MODULE MCHBM3Device ----------------------------
(* One pseudo channel with two banks and a window of two ACTs.             *)
EXTENDS HBM3Device, HBM3Timing

MCTiming ==
    [nBL |-> 1, nCL |-> 1, nRCDRD |-> 1, nRCDWR |-> 1, nRP |-> 1, nRAS |-> 2, nRC |-> 3,
     nWR |-> 1, nRTPS |-> 1, nRTPL |-> 1, nCWL |-> 1, nCCDS |-> 1, nCCDL |-> 1, nRRDS |-> 1,
     nRRDL |-> 1, nWTRS |-> 1, nWTRL |-> 1, nFAW |-> 4, nRFC |-> 2, nRREFD |-> 1]

MCCommands == {"ACT", "SPM", "PRE"}
MCScope == HBM3Scope(Commands)
MCGap == HBM3Gap(Commands)
MCSpmFollowers == HBM3SpmFollowers(Commands)
MCSpmLatencies == {1, 3}

MCZero == 0..0
MCOne == 0..1
=============================================================================
