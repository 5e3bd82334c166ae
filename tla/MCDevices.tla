------------------------------ MODULE MCDevices ------------------------------
(***************************************************************************)
(* Devices for TLC: every speed of every device, each with one of its      *)
(* organizations and so that every organization is used.                   *)
(***************************************************************************)
EXTENDS Devices, Ddr5Devices, LpHbmDevices

A == <<0, 0, 0>>
OtherGroup == <<0, 1, 0>>
OtherRank == <<1, 0, 0>>

MCFirstBank == A

(* Two rows of a bank, and a row of a bank in another group and rank.      *)
MCTargets == {<<A, 0>>, <<A, 1>>, <<OtherGroup, 0>>, <<OtherRank, 0>>}
OneRank == MCTargets \ {<<OtherRank, 0>>}
OneRow == MCTargets \ {<<A, 1>>}

-----------------------------------------------------------------------------
(* A key names a family, an organization, a speed and the options of the   *)
(* variants: the radius of a victim refresh, the factors of the reduced    *)
(* refreshes, activation counting and REGA's tRAS.  One organization meets *)
(* every speed, and every organization one speed; where the two meet the   *)
(* device is driven further, and with two ranks.                           *)
Key(family, org, speed, option, deep) ==
    [family |-> family, org |-> org, speed |-> speed, option |-> option, deep |-> deep]

Some(S) == CHOOSE x \in S : TRUE

Keys(family, orgs, speeds, options) ==
    {Key(family, Some(orgs), s, o, s = Some(speeds)) : s \in speeds, o \in options}
    \cup {Key(family, org, Some(speeds), o, org = Some(orgs)) : org \in orgs, o \in options}

Half == <<1, 2>>
Whole == <<1, 1>>

MCKeys ==
    Keys("DDR3", Ddr3Orgs, Ddr3Speeds, {0})
    \cup Keys("DDR4", Ddr4Orgs, Ddr4Speeds, {0})
    \cup Keys("DDR4-VRR", Ddr4VrrOrgs, Ddr4VrrSpeeds, {1})
    \cup Keys("DDR4-RVRR", Ddr4RvrrOrgs, Ddr4RvrrSpeeds, {<<2, Half, Whole>>})
    \cup Keys("DDR5", Ddr5Orgs, Ddr5Speeds, {0})
    \cup Keys("DDR5-VRR", Ddr5VrrOrgs, Ddr5VrrSpeeds,
              {<<1, FALSE, 2, 0>>, <<2, TRUE, 2, 0>>, <<1, FALSE, 2, 60>>})
    \cup Keys("DDR5-RVRR", Ddr5RvrrOrgs, Ddr5RvrrSpeeds, {<<1, Half, Half>>})
    \cup Keys("LPDDR5", {o \in LpOrgs : o.density <= 16384}, LpSpeeds, {0})
    \cup Keys("HBM", {o \in HbmOrgs : o.density >= 2048}, HbmSpeeds, {0})
    \cup Keys("HBM2", Hbm2Orgs, Hbm2Speeds, {0})

DeviceOf(k) ==
    CASE k.family = "DDR3" -> Ddr3(k.org, k.speed)
      [] k.family = "DDR4" -> Ddr4(k.org, k.speed)
      [] k.family = "DDR4-VRR" -> Ddr4Vrr(k.org, k.speed, k.option)
      [] k.family = "DDR4-RVRR" ->
             Ddr4Rvrr(k.org, k.speed, k.option[1], k.option[2], k.option[3])
      [] k.family = "DDR5" -> Ddr5(k.org, k.speed)
      [] k.family = "DDR5-VRR" ->
             Ddr5Vrr(k.org, k.speed, k.option[1], k.option[2], k.option[3], k.option[4])
      [] k.family = "DDR5-RVRR" ->
             Ddr5Rvrr(k.org, k.speed, k.option[1], k.option[2], k.option[3])
      [] k.family = "LPDDR5" -> Lpddr5(k.org, k.speed)
      [] k.family = "HBM" -> Hbm(k.org, k.speed)
      [] k.family = "HBM2" -> Hbm2(k.org, k.speed)

TargetsOf(k) ==
    CASE k.family = "LPDDR5" -> OneRow
      [] k.family = "HBM" -> OneRank
      [] OTHER -> MCTargets

(* A row policy's PRE beside another open row, or during the victim's      *)
(* refresh that had the row closed, takes five commands: for one device of *)
(* DDR4 and of DDR5 with victims' refreshes, and a row in each of two      *)
(* banks.                                                                  *)
ClosedTwice ==
    {[device |-> DeviceOf(k), targets |-> {<<A, 0>>, <<OtherGroup, 0>>}, depth |-> 5] :
        k \in {Some({x \in MCKeys : x.family = family /\ x.deep}) :
                  family \in {"DDR4-VRR", "DDR5-VRR"}}}

MCCatalogue ==
    ClosedTwice
    \cup {[device |-> DeviceOf(k),
           targets |-> IF k.deep THEN TargetsOf(k) ELSE TargetsOf(k) \ {<<OtherRank, 0>>},
           depth |-> IF k.deep THEN 4 ELSE 3] : k \in MCKeys}

(* The chip's density is what its banks, rows and columns hold: what every *)
(* set_organization() checks.                                              *)
ASSUME PresetsAddUp ==
    /\ \A o \in Ddr3Orgs \cup Ddr4Orgs \cup Ddr5Orgs \cup LpOrgs \cup HbmOrgs : AddsUp(o, 1)
    /\ \A o \in Hbm2Orgs : AddsUp(o, 2)
=============================================================================
