---------------------------- MODULE LpHbmDevices ----------------------------
(***************************************************************************)
(* The LPDDR5, HBM and HBM2 device models (src/dram/impl/LPDDR5.cpp,       *)
(* HBM.cpp and HBM2.cpp), in the form of DdrDevices.  Commands nobody      *)
(* requests are left out: the per-bank refreshes, LPDDR5's refresh         *)
(* management and the auto-precharging accesses.                           *)
(***************************************************************************)
EXTENDS DdrDevices

(* LPDDR5 opens a row in two steps, and an access to a rank needs the      *)
(* clock that CASRD or CASWR synchronises.                                 *)
LpOrgs == {Organization(2048 * 2^e, 16, 4, 4, 13 + e, 10) : e \in 0..4}

LpSpeeds ==
    {[rate |-> 6400, nBL |-> 4, nCL |-> 20, nRCD |-> 15, nRPab |-> 17, nRPpb |-> 15,
      nRAS |-> 34, nRC |-> 30, nWR |-> 28, nRTP |-> 4, nCWL |-> 11, nCCD |-> 4,
      nRRD |-> 4, nWTRS |-> 5, nWTRL |-> 10, nFAW |-> 16, nCS |-> 2]}

(* The table of refresh times ends at 16 Gb: LPDDR5_32Gb_x16 reads the     *)
(* place before its first entry and has no timing here.                    *)
LpTiming(org, speed) ==
    LET ps == CyclePs(speed.rate)
        tRFCab == <<130, 180, 210, 280>>[Column(<<2048, 4096, 8192, 16384>>, org.density)]
    IN  [nRFCab |-> JedecRounding(tRFCab, ps), nREFI |-> JedecRounding(3906, ps)] @@ speed

LpCommands == {"ACT1", "ACT2", "PRE", "PREA", "CASRD", "CASWR", "RD16", "WR16", "REFab"}

LpScope(commands) ==
    [c \in commands |-> IF c \in {"PREA", "REFab", "CASRD", "CASWR"} THEN 1 ELSE 3]

LpConstraints(T) == {
    After(0, {"RD16"}, {"RD16"}, T.nBL),
    After(0, {"WR16"}, {"WR16"}, T.nBL),
    After(1, {"RD16"}, {"RD16"}, T.nCCD),
    After(1, {"WR16"}, {"WR16"}, T.nCCD),
    After(1, {"RD16"}, {"WR16"}, T.nCL + T.nBL + 2 - T.nCWL),
    After(1, {"WR16"}, {"RD16"}, T.nCWL + T.nBL + T.nWTRS),
    After(1, {"RD16"}, {"PREA"}, T.nRTP),
    After(1, {"WR16"}, {"PREA"}, T.nCWL + T.nBL + T.nWR),
    After(1, {"ACT1"}, {"ACT1"}, T.nRRD),
    After(1, {"ACT1"}, {"PREA"}, T.nRAS),
    After(1, {"PREA"}, {"ACT1"}, T.nRPab),
    After(1, {"ACT1"}, {"REFab"}, T.nRC),
    After(1, {"PRE"}, {"REFab"}, T.nRPpb),
    After(1, {"PREA"}, {"REFab"}, T.nRPab),
    After(1, {"REFab"}, {"REFab", "ACT1"}, T.nRFCab),
    After(2, {"RD16"}, {"RD16"}, T.nCCD),
    After(2, {"WR16"}, {"WR16"}, T.nCCD),
    After(2, {"WR16"}, {"RD16"}, T.nCWL + T.nBL + T.nWTRL),
    After(2, {"ACT1"}, {"ACT1"}, T.nRRD),
    After(3, {"ACT1"}, {"ACT1"}, T.nRC),
    After(3, {"ACT1"}, {"RD16", "WR16"}, T.nRCD),
    After(3, {"ACT1"}, {"PRE"}, T.nRAS),
    After(3, {"PRE"}, {"ACT1"}, T.nRPpb),
    After(3, {"RD16"}, {"PRE"}, T.nRTP),
    After(3, {"WR16"}, {"PRE"}, T.nCWL + T.nBL + T.nWR)}

LpSiblingConstraints(T) == {
    After(1, {"RD16"}, {"RD16", "WR16"}, T.nBL + T.nCS),
    After(1, {"WR16"}, {"RD16"}, T.nCL + T.nBL + T.nCS - T.nCWL)}

LpActions == [ACT1 |-> "pre-open", ACT2 |-> "open", PRE |-> "close", PREA |-> "close"]
LpPreqs == [RD16 |-> "row 0 open", WR16 |-> "row 0 open", REFab |-> "all closed"]
LpRequests == [read |-> "RD16", write |-> "WR16", refresh |-> "REFab"]

(* For how long a command keeps its rank synchronised.  The lambdas use    *)
(* m_timings["nCL"], the place of nCL in the list of names, 2, where the   *)
(* value is m_timing_vals("nCL"), 20; nBL16 is at place 1 and nCWL at 10.  *)
LpSyncs == [CASRD |-> 2 + 1 + 1, CASWR |-> 10 + 1 + 1, RD16 |-> 2 + 1, WR16 |-> 10 + 1]

Lpddr5(org, speed) ==
    LET T == LpTiming(org, speed)
    IN  [name |-> "LPDDR5", t |-> T, scope |-> LpScope(LpCommands),
         gap |-> GapTable(LpConstraints(T), LpCommands),
         sibling |-> GapTable(LpSiblingConstraints(T), LpCommands),
         actions |-> LpActions, preqs |-> LpPreqs, requests |-> LpRequests,
         ends |-> <<>>, powers |-> {}, syncs |-> LpSyncs]

-----------------------------------------------------------------------------
(* HBM, whose levels are channels, bank groups and banks, and HBM2, which  *)
(* divides a channel into two pseudo channels.                             *)
HbmOrgs ==
    {Organization(1024, 128, 4, 2, 13, 7), Organization(2048, 128, 4, 2, 14, 7),
     Organization(4096, 128, 4, 4, 14, 7)}

Hbm2Orgs ==
    {Organization(2048, 128, 4, 2, 14, 6), Organization(4096, 128, 4, 4, 14, 6),
     Organization(8192, 128, 4, 4, 15, 6)}

HbmSpeed(nBL) ==
    [rate |-> 2000, nBL |-> nBL, nCL |-> 7, nRCDRD |-> 7, nRCDWR |-> 7, nRP |-> 7,
     nRAS |-> 17, nRC |-> 19, nWR |-> 8, nRTPS |-> 2, nRTPL |-> 3, nCWL |-> 2,
     nCCDS |-> 1, nCCDL |-> 2, nRRDS |-> 2, nRRDL |-> 3, nWTRS |-> 3, nWTRL |-> 4,
     nFAW |-> 15, nREFI |-> 3900]

HbmSpeeds == {HbmSpeed(2)}
Hbm2Speeds == {HbmSpeed(4)}

(* HBM_1Gb is not in the table of refresh times and has no timing here.    *)
HbmTiming(org, speed) ==
    LET tRFC == <<160, 260, 350, 450>>[Column(<<2048, 4096, 8192, 16384>>, org.density)]
    IN  [nRFC |-> JedecRounding(tRFC, CyclePs(speed.rate))] @@ speed

Hbm2Timing(org, speed) == HbmTiming(org, speed)

HbmCommands == {"ACT", "PRE", "PREA", "RD", "WR", "REFab"}

HbmScope(commands) ==
    [c \in commands |-> IF c \in {"PREA", "REFab"} THEN 0 ELSE 3]

(* The constraints both devices have; the level at which a rank's stand is *)
(* the channel in HBM and the pseudo channel in HBM2.                      *)
HbmConstraintsAt(top, T) == {
    After(0, {"ACT"}, {"ACT", "PRE", "PREA", "REFab"}, 2),
    After(top, {"ACT"}, {"ACT"}, T.nRRDS),
    After(top, {"RD"}, {"RD"}, T.nBL),
    After(top, {"WR"}, {"WR"}, T.nBL),
    After(top, {"RD"}, {"RD"}, T.nCCDS),
    After(top, {"WR"}, {"WR"}, T.nCCDS),
    After(top, {"RD"}, {"WR"}, T.nCL + T.nBL + 2 - T.nCWL),
    After(top, {"WR"}, {"RD"}, T.nCWL + T.nBL + T.nWTRS),
    After(top, {"RD"}, {"PREA"}, T.nRTPS),
    After(top, {"WR"}, {"PREA"}, T.nCWL + T.nBL + T.nWR),
    After(top, {"ACT"}, {"PREA"}, T.nRAS),
    After(top, {"PREA"}, {"ACT"}, T.nRP),
    After(top, {"ACT"}, {"REFab"}, T.nRC),
    After(top, {"PRE", "PREA"}, {"REFab"}, T.nRP),
    After(top, {"REFab"}, {"ACT"}, T.nRFC),
    After(2, {"RD"}, {"RD"}, T.nCCDL),
    After(2, {"WR"}, {"WR"}, T.nCCDL),
    After(2, {"WR"}, {"RD"}, T.nCWL + T.nBL + T.nWTRL),
    After(2, {"ACT"}, {"ACT"}, T.nRRDL),
    After(3, {"RD"}, {"PRE"}, T.nRTPS),
    After(3, {"ACT"}, {"ACT"}, T.nRC),
    After(3, {"ACT"}, {"RD"}, T.nRCDRD),
    After(3, {"ACT"}, {"WR"}, T.nRCDWR),
    After(3, {"ACT"}, {"PRE"}, T.nRAS),
    After(3, {"PRE"}, {"ACT"}, T.nRP),
    After(3, {"RD"}, {"PRE"}, T.nRTPL),
    After(3, {"WR"}, {"PRE"}, T.nCWL + T.nBL + T.nWR)}

HbmConstraints(T) == HbmConstraintsAt(0, T)
Hbm2Constraints(T) == HbmConstraintsAt(1, T)

HbmActions == [ACT |-> "open", PRE |-> "close", PREA |-> "close"]
Hbm2Actions == HbmActions
HbmPreqs == [RD |-> "row open", WR |-> "row open", REFab |-> "all closed"]
Hbm2Preqs == HbmPreqs

(* Nothing refreshes these devices: AllBankRefresh sends one request for   *)
(* every rank, and they have no rank.                                      *)
HbmRequests == [read |-> "RD", write |-> "WR"]
Hbm2Requests == HbmRequests

HbmDevice(name, T, constraints, actions, preqs, requests) ==
    [name |-> name, t |-> T, scope |-> HbmScope(HbmCommands),
     gap |-> GapTable(constraints, HbmCommands), sibling |-> GapTable({}, HbmCommands),
     actions |-> actions, preqs |-> preqs, requests |-> requests,
     ends |-> <<>>, powers |-> {}, syncs |-> <<>>]

Hbm(org, speed) ==
    LET T == HbmTiming(org, speed)
    IN  HbmDevice("HBM", T, HbmConstraints(T), HbmActions, HbmPreqs, HbmRequests)

Hbm2(org, speed) ==
    LET T == Hbm2Timing(org, speed)
    IN  HbmDevice("HBM2", T, Hbm2Constraints(T), Hbm2Actions, Hbm2Preqs, Hbm2Requests)
=============================================================================
