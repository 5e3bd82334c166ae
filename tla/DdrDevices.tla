----------------------------- MODULE DdrDevices -----------------------------
(***************************************************************************)
(* The DDR3 and DDR4 device models (src/dram/impl/DDR3.cpp, DDR4.cpp,      *)
(* DDR4-VRR.cpp and DDR4-RVRR.cpp): their presets, the timing values they  *)
(* derive from them, their constraints and what their commands need and    *)
(* do.  Devices puts these tables to work.                                 *)
(*                                                                         *)
(* An organization is the density of a chip in Mb, its width, the number   *)
(* of bank groups and banks, and the logarithms of its rows and columns.   *)
(***************************************************************************)
EXTENDS DDR4Timing, Sequences, TLC

Organization(density, dq, groups, banks, row, col) ==
    [density |-> density, dq |-> dq, groups |-> groups, banks |-> banks,
     row |-> row, col |-> col]

(* The sanity check of set_organization(), in Mb.                          *)
AddsUp(o, pseudoChannels) ==
    o.density = pseudoChannels * o.groups * o.banks * o.dq * 2^(o.row + o.col - 20)

-----------------------------------------------------------------------------
(* DDR3.                                                                   *)
Ddr3Orgs ==
    {Organization(1024 * 2^e, dq, 1, 8, IF dq = 16 THEN 13 + e ELSE 14 + e,
                  IF dq = 4 THEN 11 ELSE 10) : e \in 0..3, dq \in {4, 8, 16}}

Ddr3Speed(rate, nCL, nRAS, nWR, nRTP, nWTR) ==
    [rate |-> rate, nBL |-> 4, nCL |-> nCL, nRCD |-> nCL, nRP |-> nCL, nRAS |-> nRAS,
     nRC |-> nRAS + nCL, nWR |-> nWR, nRTP |-> nRTP, nCWL |-> 9, nCCD |-> 4,
     nWTR |-> nWTR, nCS |-> 2]

Ddr3Speeds ==
    {Ddr3Speed(800, 5, 15, 6, 4, 4)}
    \cup {Ddr3Speed(1066, n, 20, 8, 4, 4) : n \in 6..8}
    \cup {Ddr3Speed(1333, n, 24, 10, 5, 5) : n \in 8..9}
    \cup {Ddr3Speed(1600, n, 28, 12, 6, 6) : n \in 9..11}
    \cup {Ddr3Speed(1866, n, 32, 14, 7, 7) : n \in 11..12}
    \cup {Ddr3Speed(2133, n, 36, 16, 8, 8) : n \in 12..13}

Ddr3Timing(org, speed) ==
    LET r  == Column(<<800, 1066, 1333, 1600, 1866, 2133>>, speed.rate)
        ps == CyclePs(speed.rate)
        nRRD == IF org.dq = 16 THEN <<4, 6, 5, 6, 6, 7>> ELSE <<4, 4, 4, 5, 5, 6>>
        nFAW == IF org.dq = 16 THEN <<20, 27, 30, 32, 33, 34>> ELSE <<16, 20, 20, 24, 26, 27>>
        tRFC == <<110, 160, 260, 350>>[Column(<<1024, 2048, 4096, 8192>>, org.density)]
    IN  [nRRD |-> nRRD[r], nFAW |-> nFAW[r], nRFC |-> JedecRounding(tRFC, ps),
         nREFI |-> JedecRounding(7800, ps)] @@ speed

Ddr3Commands == {"ACT", "PRE", "PREA", "RD", "WR", "REFab"}

Ddr3Constraints(T) == {
    After(0, {"RD"}, {"RD"}, T.nBL),
    After(0, {"WR"}, {"WR"}, T.nBL),
    After(1, {"RD"}, {"RD"}, T.nCCD),
    After(1, {"WR"}, {"WR"}, T.nCCD),
    After(1, {"RD"}, {"WR"}, T.nCL + T.nBL + 2 - T.nCWL),
    After(1, {"WR"}, {"RD"}, T.nCWL + T.nBL + T.nWTR),
    After(1, {"RD"}, {"PREA"}, T.nRTP),
    After(1, {"WR"}, {"PREA"}, T.nCWL + T.nBL + T.nWR),
    After(1, {"ACT"}, {"ACT"}, T.nRRD),
    After(1, {"ACT"}, {"PREA"}, T.nRAS),
    After(1, {"PREA"}, {"ACT"}, T.nRP),
    After(1, {"ACT"}, {"REFab"}, T.nRC),
    After(1, {"PRE", "PREA"}, {"REFab"}, T.nRP),
    After(1, {"REFab"}, {"ACT"}, T.nRFC),
    After(3, {"ACT"}, {"ACT"}, T.nRC),
    After(3, {"ACT"}, {"RD", "WR"}, T.nRCD),
    After(3, {"ACT"}, {"PRE"}, T.nRAS),
    After(3, {"PRE"}, {"ACT"}, T.nRP),
    After(3, {"RD"}, {"PRE"}, T.nRTP),
    After(3, {"WR"}, {"PRE"}, T.nCWL + T.nBL + T.nWR)}

(* What a command does to the banks it reaches, and what must hold before  *)
(* it.  A refresh changes no state of a DDR3 device.                       *)
Ddr3Actions == [ACT |-> "open", PRE |-> "close", PREA |-> "close"]
Ddr3Preqs == [RD |-> "row open", WR |-> "row open", REFab |-> "all closed"]
Ddr3Requests == [read |-> "RD", write |-> "WR", refresh |-> "REFab"]

Ddr3(org, speed) ==
    LET T == Ddr3Timing(org, speed)
    IN  [name |-> "DDR3", t |-> T, scope |-> DDR4Scope(Ddr3Commands),
         gap |-> GapTable(Ddr3Constraints(T), Ddr3Commands),
         sibling |-> DDR4SiblingGap(T, Ddr3Commands),
         actions |-> Ddr3Actions, preqs |-> Ddr3Preqs, requests |-> Ddr3Requests,
         ends |-> <<>>, powers |-> {}, syncs |-> <<>>]

-----------------------------------------------------------------------------
(* DDR4.                                                                   *)
Ddr4Orgs ==
    {Organization(1024 * 2^e, dq, IF dq = 16 THEN 2 ELSE 4, 4,
                  IF dq = 4 THEN 14 + e ELSE 13 + e, 10) : e \in 1..4, dq \in {4, 8, 16}}

Ddr4Speed(rate, nCL, nRAS, nWR, nCWL, nCCDL, nWTRS, nWTRL) ==
    [rate |-> rate, nBL |-> 4, nCL |-> nCL, nRCD |-> nCL, nRP |-> nCL, nRAS |-> nRAS,
     nRC |-> nRAS + nCL, nWR |-> nWR, nRTP |-> nWR \div 2, nCWL |-> nCWL,
     nCCDS |-> 4, nCCDL |-> nCCDL, nWTRS |-> nWTRS, nWTRL |-> nWTRL, nCS |-> 2]

Ddr4Speeds ==
    {Ddr4Speed(1600, n, 28, 12, 9, 5, 2, 6) : n \in 10..12}
    \cup {Ddr4Speed(1866, n, 32, 14, 10, 5, 3, 7) : n \in 12..14}
    \cup {Ddr4Speed(2133, n, 36, 16, 11, 6, 3, 8) : n \in 14..16}
    \cup {Ddr4Speed(2400, n, 39, 18, 12, 6, 3, 9) : n \in 15..18}
    \cup {Ddr4Speed(2666, n, 43, 20, 14, 7, 4, 10) : n \in 17..20}
    \cup {Ddr4Speed(2933, n, 47, 22, 16, 8, 4, 11) : n \in 19..22}
    \cup {Ddr4Speed(3200, n, 52, 24, 16, 8, 4, 12) : n \in {20, 22, 24}}

Ddr4Timing(org, speed) ==
    LET r  == Column(<<1600, 1866, 2133, 2400, 2666, 2933, 3200>>, speed.rate)
        ps == CyclePs(speed.rate)
        nRRDS == IF org.dq = 16 THEN <<5, 5, 6, 7, 8, 8, 9>> ELSE <<4, 4, 4, 4, 4, 4, 4>>
        nRRDL == IF org.dq = 16 THEN <<6, 6, 7, 8, 9, 10, 11>> ELSE <<5, 5, 6, 6, 7, 8, 8>>
        nFAW == IF org.dq = 16 THEN <<28, 28, 32, 36, 40, 44, 48>>
                ELSE IF org.dq = 8 THEN <<20, 22, 23, 26, 28, 31, 34>>
                ELSE <<16, 16, 16, 16, 16, 16, 16>>
        tRFC == <<160, 260, 360, 550>>[Column(<<2048, 4096, 8192, 16384>>, org.density)]
    IN  [nRRDS |-> nRRDS[r], nRRDL |-> nRRDL[r], nFAW |-> nFAW[r],
         nRFC |-> JedecRounding(tRFC, ps), nREFI |-> JedecRounding(7800, ps)] @@ speed

Ddr4Actions == [ACT |-> "open", PRE |-> "close", PREA |-> "close", REFab |-> "refresh"]
Ddr4Preqs ==
    [RD |-> "row open", WR |-> "row open", ACT |-> "row open", PRE |-> "bank closed",
     REFab |-> "all closed"]
Ddr4Requests == [read |-> "RD", write |-> "WR", refresh |-> "REFab", closeRow |-> "PRE"]

(* The commands whose end the device puts down in m_future_actions, with   *)
(* their lengths, and the commands that have a power function of a rank.   *)
Ddr4Ends(T) == [REFab |-> T.nRFC]
Ddr4Powers == {"ACT", "PRE", "PREA", "REFab"}

Ddr4(org, speed) ==
    LET T == Ddr4Timing(org, speed)
    IN  [name |-> "DDR4", t |-> T, scope |-> DDR4Scope(DDR4Commands),
         gap |-> DDR4Gap(T, DDR4Commands), sibling |-> DDR4SiblingGap(T, DDR4Commands),
         actions |-> Ddr4Actions, preqs |-> Ddr4Preqs, requests |-> Ddr4Requests,
         ends |-> Ddr4Ends(T), powers |-> Ddr4Powers, syncs |-> <<>>]

-----------------------------------------------------------------------------
(* DDR4 with victim row refresh.  The presets are DDR4's with a place for  *)
(* nVRR, which is 70 ns for each of the rows within a radius.              *)
Ddr4VrrOrgs == Ddr4Orgs
Ddr4VrrSpeeds == Ddr4Speeds

Ddr4VrrTiming(org, speed, radius) ==
    [nVRR |-> JedecRounding(70 * radius * 2, CyclePs(speed.rate))] @@ Ddr4Timing(org, speed)

Ddr4VrrCommands == DDR4Commands \cup {"VRR"}

(* A refresh no longer holds back a PREA: the rank has no open bank then.  *)
WithoutRefreshToPrea(T) ==
    (DDR4Constraints(T) \ {After(1, {"REFab"}, {"ACT", "PREA"}, T.nRFC)})
    \cup {After(1, {"REFab"}, {"ACT"}, T.nRFC)}

Ddr4VrrConstraints(T) ==
    FollowLikeAct(WithoutRefreshToPrea(T), {"VRR"})
    \cup AfterVictimRefresh("VRR", {"REFab"}, {"VRR"}, T.nVRR)

Ddr4VrrActions == [VRR |-> "refresh"] @@ Ddr4Actions
Ddr4VrrPreqs == [VRR |-> "bank closed"] @@ Ddr4Preqs
Ddr4VrrRequests == [victim |-> "VRR"] @@ Ddr4Requests
Ddr4VrrEnds(T) == [REFab |-> T.nRFC, VRR |-> T.nVRR]
Ddr4VrrPowers == Ddr4Powers \cup {"VRR"}

Ddr4Vrr(org, speed, radius) ==
    LET T == Ddr4VrrTiming(org, speed, radius)
    IN  [name |-> "DDR4-VRR", t |-> T, scope |-> DDR4Scope(Ddr4VrrCommands),
         gap |-> GapTable(Ddr4VrrConstraints(T), Ddr4VrrCommands),
         sibling |-> DDR4SiblingGap(T, Ddr4VrrCommands),
         actions |-> Ddr4VrrActions, preqs |-> Ddr4VrrPreqs, requests |-> Ddr4VrrRequests,
         ends |-> Ddr4VrrEnds(T), powers |-> Ddr4VrrPowers, syncs |-> <<>>]

-----------------------------------------------------------------------------
(* DDR4 with a second, shorter victim row refresh: the part of nVRR that   *)
(* nRAS has in nRAS + nRP is scaled by a factor, here a pair of its        *)
(* numerator and denominator, and so may a refresh be.                     *)
Reduced(n, T, factor) ==
    (factor[1] * n * T.nRAS + factor[2] * n * T.nRP) \div (factor[2] * (T.nRAS + T.nRP))

Ddr4RvrrOrgs == Ddr4Orgs
Ddr4RvrrSpeeds == Ddr4Speeds

Ddr4RvrrTiming(org, speed, radius, vrr, rfc) ==
    LET T == Ddr4VrrTiming(org, speed, radius)
    IN  [nRVRR |-> Reduced(T.nVRR, T, vrr), nRFC |-> Reduced(T.nRFC, T, rfc)] @@ T

Ddr4RvrrCommands == Ddr4VrrCommands \cup {"RVRR"}

Ddr4RvrrConstraints(T) ==
    FollowLikeAct(WithoutRefreshToPrea(T), {"VRR", "RVRR"})
    \cup AfterVictimRefresh("VRR", {"REFab"}, {"VRR", "RVRR"}, T.nVRR)
    \cup AfterVictimRefresh("RVRR", {"REFab"}, {"VRR", "RVRR"}, T.nRVRR)

Ddr4RvrrActions == [RVRR |-> "refresh"] @@ Ddr4VrrActions
Ddr4RvrrPreqs == [RVRR |-> "bank closed"] @@ Ddr4VrrPreqs
Ddr4RvrrRequests == [reducedVictim |-> "RVRR"] @@ Ddr4VrrRequests
Ddr4RvrrEnds(T) == [REFab |-> T.nRFC, VRR |-> T.nVRR, RVRR |-> T.nRVRR]
Ddr4RvrrPowers == Ddr4VrrPowers \cup {"RVRR"}

Ddr4Rvrr(org, speed, radius, vrr, rfc) ==
    LET T == Ddr4RvrrTiming(org, speed, radius, vrr, rfc)
    IN  [name |-> "DDR4-RVRR", t |-> T, scope |-> DDR4Scope(Ddr4RvrrCommands),
         gap |-> GapTable(Ddr4RvrrConstraints(T), Ddr4RvrrCommands),
         sibling |-> DDR4SiblingGap(T, Ddr4RvrrCommands),
         actions |-> Ddr4RvrrActions, preqs |-> Ddr4RvrrPreqs, requests |-> Ddr4RvrrRequests,
         ends |-> Ddr4RvrrEnds(T), powers |-> Ddr4RvrrPowers, syncs |-> <<>>]
=============================================================================
