---------------------------- MODULE Ddr5Devices ----------------------------
(***************************************************************************)
(* The DDR5 device models (src/dram/impl/DDR5.cpp, DDR5-VRR.cpp and        *)
(* DDR5-RVRR.cpp), in the form of DdrDevices.  The commands are those some *)
(* part of the simulator asks for: nothing requests the same-bank          *)
(* refreshes (REFsb, RFMsb), DRFM or the auto-precharging accesses.        *)
(***************************************************************************)
EXTENDS DdrDevices

Ddr5Orgs ==
    {Organization(8192 * g, dq, IF dq = 16 THEN 4 ELSE 8, IF g = 1 THEN 2 ELSE 4,
                  IF g = 4 THEN 17 ELSE 16, IF dq = 4 THEN 11 ELSE 10)
        : g \in {1, 2, 4}, dq \in {4, 8, 16}}

Ddr5Speed(nCL) ==
    [rate |-> 3200, nBL |-> 8, nCL |-> nCL, nRCD |-> nCL, nRP |-> nCL, nRAS |-> 52,
     nRC |-> 51 + nCL, nWR |-> 48, nRTP |-> 12, nCWL |-> nCL - 2, nCCDS |-> 8,
     nCCDS_WR |-> 8, nCCDS_WTR |-> nCL - 2 + 8 + 4, nCCDL |-> 8, nCCDL_WR |-> 16,
     nCCDL_WTR |-> nCL - 2 + 8 + 16, nRRDS |-> 8, nCS |-> 2]

Ddr5Speeds == {Ddr5Speed(nCL) : nCL \in {24, 26, 28}}

Ddr5Timing(org, speed) ==
    LET ps == CyclePs(speed.rate)
        tRFC == <<195, 295, 410>>[Column(<<8192, 16384, 32768>>, org.density)]
        nRFC1 == JedecRoundingDdr5(tRFC, ps)
    IN  [nRRDL |-> 5, nFAW |-> IF org.dq = 4 THEN 40 ELSE 32,
         nCCDL_WR |-> IF org.dq = 4 THEN 32 ELSE speed.nCCDL_WR,
         nRFC1 |-> nRFC1, nRFM1 |-> nRFC1, nREFI |-> JedecRoundingDdr5(3900, ps)] @@ speed

Ddr5Commands == {"ACT", "PRE", "PREA", "RD", "WR", "REFab", "RFMab"}

Ddr5Scope(commands) ==
    [c \in commands |-> IF c \in {"PREA", "REFab", "RFMab"} THEN 1 ELSE 3]

Ddr5Constraints(T) ==
    LET refreshes == {"REFab", "RFMab"}
    IN {After(0, {"ACT", "RD", "WR"}, Ddr5Commands, 2),
        After(0, {"RD"}, {"RD"}, T.nBL),
        After(0, {"WR"}, {"WR"}, T.nBL),
        After(1, {"RD"}, {"RD"}, T.nCCDS),
        After(1, {"WR"}, {"WR"}, T.nCCDS_WR),
        After(1, {"RD"}, {"WR"}, T.nCL + T.nBL + 2 - T.nCWL + 2),
        After(1, {"WR"}, {"RD"}, T.nCCDS_WTR),
        After(1, {"RD"}, {"PREA"}, T.nRTP),
        After(1, {"WR"}, {"PREA"}, T.nCWL + T.nBL + T.nWR),
        After(1, {"ACT"}, {"ACT"}, T.nRRDS),
        After(1, {"ACT"}, {"PREA"}, T.nRAS),
        After(1, {"PREA"}, {"ACT"}, T.nRP),
        After(1, {"ACT"}, refreshes, T.nRC),
        After(1, {"PRE", "PREA"}, refreshes, T.nRP),
        After(1, {"REFab"}, {"ACT", "PREA"} \cup refreshes, T.nRFC1),
        After(1, {"RFMab"}, {"ACT", "PREA"} \cup refreshes, T.nRFM1),
        After(2, {"RD"}, {"RD"}, T.nCCDL),
        After(2, {"WR"}, {"WR"}, T.nCCDL_WR),
        After(2, {"WR"}, {"RD"}, T.nCCDL_WTR),
        After(2, {"ACT"}, {"ACT"}, T.nRRDL),
        After(3, {"ACT"}, {"ACT"}, T.nRC),
        After(3, {"ACT"}, {"RD", "WR"}, T.nRCD),
        After(3, {"ACT"}, {"PRE"}, T.nRAS),
        After(3, {"PRE"}, {"ACT"}, T.nRP),
        After(3, {"RD"}, {"PRE"}, T.nRTP),
        After(3, {"WR"}, {"PRE"}, T.nCWL + T.nBL + T.nWR)}

Ddr5Actions ==
    [ACT |-> "open", PRE |-> "close", PREA |-> "close", REFab |-> "refresh", RFMab |-> "refresh"]
Ddr5Preqs ==
    [RD |-> "row open", WR |-> "row open", ACT |-> "row open", PRE |-> "bank closed",
     REFab |-> "all closed", RFMab |-> "all closed"]
Ddr5Requests ==
    [read |-> "RD", write |-> "WR", refresh |-> "REFab", rfm |-> "RFMab", closeRow |-> "PRE"]
Ddr5Ends(T) == [REFab |-> T.nRFC1, RFMab |-> T.nRFM1]

(* RFMab has no power function: its lines are commented out.               *)
Ddr5Powers == {"ACT", "PRE", "PREA", "REFab"}

Ddr5(org, speed) ==
    LET T == Ddr5Timing(org, speed)
    IN  [name |-> "DDR5", t |-> T, scope |-> Ddr5Scope(Ddr5Commands),
         gap |-> GapTable(Ddr5Constraints(T), Ddr5Commands),
         sibling |-> DDR4SiblingGap(T, Ddr5Commands),
         actions |-> Ddr5Actions, preqs |-> Ddr5Preqs, requests |-> Ddr5Requests,
         ends |-> Ddr5Ends(T), powers |-> Ddr5Powers, syncs |-> <<>>]

-----------------------------------------------------------------------------
(* DDR5 with victim row refresh, which may also run with the timings of    *)
(* per-row activation counting (prac), where BRC back-offs lengthen an     *)
(* RFM, or with a given tRAS (REGA; 0 if none).                            *)
Ddr5VrrOrgs == Ddr5Orgs
Ddr5VrrSpeeds == Ddr5Speeds

RegaSpeed(speed, tRAS) ==
    IF tRAS = 0 THEN speed
    ELSE LET nRAS == JedecRoundingDdr5(tRAS, CyclePs(speed.rate))
         IN  [speed EXCEPT !.nRAS = nRAS, !.nRC = nRAS + speed.nRP]

PracTiming(T, BRC) ==
    LET Cycles(ns) == JedecRoundingDdr5(ns, CyclePs(T.rate))
    IN  [T EXCEPT !.nRAS = Cycles(16), !.nRP = Cycles(36), !.nRC = Cycles(52),
                  !.nRTP = Cycles(5), !.nWR = Cycles(10), !.nRFM1 = (2 * BRC + 1) * Cycles(70)]

Ddr5VrrTiming(org, speed, radius, prac, BRC, tRAS) ==
    LET T == Ddr5Timing(org, RegaSpeed(speed, tRAS))
    IN  [nVRR |-> JedecRoundingDdr5(60 * radius * 2, CyclePs(speed.rate))]
        @@ (IF prac THEN PracTiming(T, BRC) ELSE T)

Ddr5VrrCommands == Ddr5Commands \cup {"VRR"}

(* Commands take two cycles of the command bus, a VRR's too.               *)
Ddr5VrrConstraints(T) ==
    FollowLikeAct(Ddr5Constraints(T), {"VRR"})
    \cup {After(0, {"ACT", "RD", "WR"}, {"VRR"}, 2)}
    \cup AfterVictimRefresh("VRR", {"REFab", "RFMab"}, {"VRR"}, T.nVRR)

Ddr5VrrActions == [VRR |-> "refresh"] @@ Ddr5Actions
Ddr5VrrPreqs == [VRR |-> "bank closed", PREA |-> "all closed"] @@ Ddr5Preqs
Ddr5VrrRequests == [victim |-> "VRR", closeAll |-> "PREA"] @@ Ddr5Requests
Ddr5VrrEnds(T) == [REFab |-> T.nRFC1, RFMab |-> T.nRFM1, VRR |-> T.nVRR]
Ddr5VrrPowers == Ddr5Powers \cup {"VRR"}

Ddr5Vrr(org, speed, radius, prac, BRC, tRAS) ==
    LET T == Ddr5VrrTiming(org, speed, radius, prac, BRC, tRAS)
    IN  [name |-> "DDR5-VRR", t |-> T, scope |-> Ddr5Scope(Ddr5VrrCommands),
         gap |-> GapTable(Ddr5VrrConstraints(T), Ddr5VrrCommands),
         sibling |-> DDR4SiblingGap(T, Ddr5VrrCommands),
         actions |-> Ddr5VrrActions, preqs |-> Ddr5VrrPreqs, requests |-> Ddr5VrrRequests,
         ends |-> Ddr5VrrEnds(T), powers |-> Ddr5VrrPowers, syncs |-> <<>>]

-----------------------------------------------------------------------------
(* DDR5 with a second, shorter victim row refresh.                         *)
Ddr5RvrrOrgs == Ddr5Orgs
Ddr5RvrrSpeeds == Ddr5Speeds

Ddr5RvrrTiming(org, speed, radius, vrr, rfc) ==
    LET T == Ddr5Timing(org, speed)
        nVRR == JedecRoundingDdr5(70 * radius * 2, CyclePs(speed.rate))
    IN  [nVRR |-> nVRR, nRVRR |-> Reduced(nVRR, T, vrr), nRFC1 |-> Reduced(T.nRFC1, T, rfc)] @@ T

Ddr5RvrrCommands == Ddr5VrrCommands \cup {"RVRR"}

Ddr5RvrrConstraints(T) ==
    FollowLikeAct(Ddr5Constraints(T), {"VRR", "RVRR"})
    \cup {After(0, {"ACT", "RD", "WR"}, {"VRR", "RVRR"}, 2)}
    \cup AfterVictimRefresh("VRR", {"REFab", "RFMab"}, {"VRR", "RVRR"}, T.nVRR)
    \cup AfterVictimRefresh("RVRR", {"REFab", "RFMab"}, {"VRR", "RVRR"}, T.nRVRR)

Ddr5RvrrActions == [VRR |-> "refresh", RVRR |-> "refresh"] @@ Ddr5Actions
Ddr5RvrrPreqs == [VRR |-> "bank closed", RVRR |-> "bank closed"] @@ Ddr5Preqs
Ddr5RvrrRequests == [victim |-> "VRR", reducedVictim |-> "RVRR"] @@ Ddr5Requests
Ddr5RvrrEnds(T) == [RVRR |-> T.nRVRR] @@ Ddr5VrrEnds(T)
Ddr5RvrrPowers == Ddr5Powers \cup {"VRR", "RVRR"}

Ddr5Rvrr(org, speed, radius, vrr, rfc) ==
    LET T == Ddr5RvrrTiming(org, speed, radius, vrr, rfc)
    IN  [name |-> "DDR5-RVRR", t |-> T, scope |-> Ddr5Scope(Ddr5RvrrCommands),
         gap |-> GapTable(Ddr5RvrrConstraints(T), Ddr5RvrrCommands),
         sibling |-> DDR4SiblingGap(T, Ddr5RvrrCommands),
         actions |-> Ddr5RvrrActions, preqs |-> Ddr5RvrrPreqs, requests |-> Ddr5RvrrRequests,
         ends |-> Ddr5RvrrEnds(T), powers |-> Ddr5RvrrPowers, syncs |-> <<>>]
=============================================================================
