--------------------------- MODULE HBM3DeviceProofs ---------------------------
(***************************************************************************)
(* Proofs about HBM3Device: for every organization, command set and        *)
(* constraint table, the ready clocks enforce the table.                   *)
(***************************************************************************)
EXTENDS HBM3Device, TLAPS

-----------------------------------------------------------------------------
(* The tree of nodes.  Every node has a level.                             *)
LEMMA NodeLevel == \A n \in Nodes : Len(n) \in Levels
BY DEF Nodes, Banks, Levels

LEMMA LargerNat ==
    ASSUME NEW a \in Nat, NEW b \in Int
    PROVE  Larger(a, b) \in Nat /\ Larger(a, b) >= a /\ Larger(a, b) >= b
BY DEF Larger

(* The history a command leaves behind is a history again.                 *)
LEMMA RecordedType ==
    ASSUME acts \in [Channels -> [Nodes -> [1..FawDepth -> 0..Faw]]],
           NEW ch \in Channels, NEW n \in Nodes, NEW cmd
    PROVE  Recorded(ch, n, cmd) \in [1..FawDepth -> 0..Faw]
BY TreeAssumption DEF Recorded

(* A command delays another by at least each of the constraints between    *)
(* them.                                                                   *)
LEMMA DelaysCover ==
    ASSUME DeviceTypeOK, NEW ch \in Channels, NEW n \in Nodes,
           NEW cmd \in Commands, NEW d \in Commands
    PROVE  /\ Delays(ch, n, cmd, d) \in Int
           /\ Delays(ch, n, cmd, d) >= Gap[Len(n)][cmd][d]
           /\ cmd = "SPM" /\ d \in SpmFollowers[Len(n)] => Delays(ch, n, cmd, d) >= nSPM
           /\ cmd = "ACT" /\ d = "ACT" =>
                 Delays(ch, n, cmd, d) >= Faw - Recorded(ch, n, cmd)[FawDepth]
<1> DEFINE fixed == Gap[Len(n)][cmd][d]
           spm == IF cmd = "SPM" /\ d \in SpmFollowers[Len(n)] THEN nSPM ELSE 0
           faw == IF cmd = "ACT" /\ d = "ACT" THEN Faw - Recorded(ch, n, cmd)[FawDepth] ELSE 0
<1>1. fixed \in Int
  BY NodeLevel, TreeAssumption
<1>2. spm \in Int
  BY DEF DeviceTypeOK
<1>3. faw \in Int
  <2>1. Recorded(ch, n, cmd)[FawDepth] \in Int
    <3>1. FawDepth \in 1..FawDepth
      BY TreeAssumption
    <3>2. Recorded(ch, n, cmd) \in [1..FawDepth -> 0..Faw]
      BY RecordedType, Zenon DEF DeviceTypeOK
    <3>3. Recorded(ch, n, cmd)[FawDepth] \in 0..Faw
      BY <3>1, <3>2, Zenon
    <3> QED
      BY <3>3, TreeAssumption
  <2> QED
    BY <2>1, TreeAssumption
<1>4. Delays(ch, n, cmd, d) = Larger(Larger(fixed, faw), spm)
  BY DEF Delays, TableDelay
<1> HIDE DEF fixed, spm, faw
<1>5. /\ Delays(ch, n, cmd, d) \in Int
      /\ Delays(ch, n, cmd, d) >= fixed /\ Delays(ch, n, cmd, d) >= spm
      /\ Delays(ch, n, cmd, d) >= faw
  <2> DEFINE late == Larger(fixed, faw)
             delay == Delays(ch, n, cmd, d)
  <2>1. late \in Int /\ late >= fixed /\ late >= faw
    BY <1>1, <1>3 DEF Larger
  <2> HIDE DEF late
  <2>2. Larger(late, spm) \in Int /\ Larger(late, spm) >= late /\ Larger(late, spm) >= spm
    BY <2>1, <1>2 DEF Larger
  <2>3. delay = Larger(late, spm)
    BY <1>4 DEF late
  <2> HIDE DEF delay
  <2>4. delay \in Int /\ delay >= fixed /\ delay >= spm /\ delay >= faw
    BY <2>1, <2>2, <2>3, <1>1, <1>2, <1>3
  <2> QED
    BY <2>4 DEF delay
<1> QED
  BY <1>5 DEF fixed, spm, faw

LEMMA InitDeviceType == DeviceInit => DeviceTypeOK
BY TreeAssumption, DeviceAssumption DEF DeviceInit, TreeInit, DeviceTypeOK

LEMMA IssueDeviceType ==
    ASSUME DeviceTypeOK, NEW ch \in Channels, NEW cmd \in Commands, NEW addr \in Addrs,
           IssueCommand(ch, cmd, addr)
    PROVE  DeviceTypeOK'
<1>1. wait' \in [Channels -> [Nodes -> [Commands -> Nat]]]
  <2>1. ASSUME NEW n \in Nodes, NEW d \in Commands
        PROVE  Larger(wait[ch][n][d], Delays(ch, n, cmd, d)) \in Nat
    <3>1. wait[ch][n][d] \in Nat
      BY DEF DeviceTypeOK
    <3>2. Delays(ch, n, cmd, d) \in Int
      BY DelaysCover
    <3> DEFINE x == wait[ch][n][d]
               y == Delays(ch, n, cmd, d)
    <3> HIDE DEF x, y
    <3>3. Larger(x, y) \in Nat
      BY <3>1, <3>2, LargerNat DEF x, y
    <3> QED
      BY <3>3 DEF x, y
  <2> QED
    BY <2>1 DEF IssueCommand, DeviceTypeOK
<1>2. acts' \in [Channels -> [Nodes -> [1..FawDepth -> 0..Faw]]]
  BY RecordedType DEF IssueCommand, DeviceTypeOK
<1>3. open' \in [Channels -> [Banks -> SUBSET Rows]]
  <2>1. ASSUME NEW b \in Banks
        PROVE  RowsAfter(open[ch][b], OnPath(b, addr.path), cmd, addr.row) \in SUBSET Rows
    BY DEF RowsAfter, Addrs, DeviceTypeOK
  <2> QED
    BY <2>1 DEF IssueCommand, DeviceTypeOK
<1>4. nSPM' = nSPM
  BY DEF IssueCommand
<1> QED
  BY <1>1, <1>2, <1>3, <1>4 DEF DeviceTypeOK

LEMMA TickDeviceType == DeviceTypeOK /\ DeviceTick => DeviceTypeOK'
BY TreeAssumption DEF DeviceTick, TreeTick, DeviceTypeOK

LEMMA NotifyDeviceType ==
    ASSUME DeviceTypeOK, NEW value \in Nat, Notify(value)
    PROVE  DeviceTypeOK'
BY DEF Notify, DeviceTypeOK

(* Whatever a controller does, the device's state has its type.            *)
THEOREM DeviceTypeCorrect == DeviceSpec => []DeviceTypeOK
<1>1. DeviceTypeOK /\ [DeviceNext]_deviceVars => DeviceTypeOK'
  <2> SUFFICES ASSUME DeviceTypeOK, [DeviceNext]_deviceVars PROVE DeviceTypeOK'
    OBVIOUS
  <2>1. ASSUME NEW ch \in Channels, NEW cmd \in Commands, NEW addr \in Addrs,
               IssueCommand(ch, cmd, addr)
        PROVE  DeviceTypeOK'
    BY <2>1, IssueDeviceType
  <2>2. ASSUME NEW value \in SpmLatencies, Notify(value) PROVE DeviceTypeOK'
    BY <2>2, NotifyDeviceType, DeviceAssumption
  <2>3. CASE DeviceTick
    BY <2>3, TickDeviceType
  <2>4. CASE UNCHANGED deviceVars
    BY <2>4 DEF deviceVars, DeviceTypeOK
  <2> QED
    BY <2>1, <2>2, <2>3, <2>4 DEF DeviceNext
<1> QED
  BY InitDeviceType, <1>1, PTL DEF DeviceSpec

-----------------------------------------------------------------------------
(* Initially the types are right, no command was issued, none waits.       *)
LEMMA InitType == HbmInit => HbmTypeOK
BY InitDeviceType, HorizonAssumption DEF HbmInit, DeviceInit, HbmTypeOK

LEMMA IssueType ==
    ASSUME HbmTypeOK, NEW ch \in Channels, NEW cmd \in Commands, NEW addr \in Addrs,
           Issue(ch, cmd, addr)
    PROVE  HbmTypeOK'
<1>1. DeviceTypeOK' /\ nSPM' = nSPM
  BY IssueDeviceType DEF HbmTypeOK, Issue, IssueCommand
<1>2. since' \in [Channels -> [Nodes -> [Commands -> 0..Horizon]]]
  BY HorizonAssumption DEF Issue, HbmTypeOK
<1>3. under' \in [Channels -> [Nodes -> 0..Horizon]]
  BY HorizonAssumption DEF Issue, HbmTypeOK, DeviceTypeOK
<1> QED
  BY <1>1, <1>2, <1>3 DEF HbmTypeOK

LEMMA TickType ==
    ASSUME HbmTypeOK, Tick
    PROVE  HbmTypeOK'
<1>1. DeviceTypeOK' /\ nSPM' = nSPM
  BY TickDeviceType DEF HbmTypeOK, Tick, DeviceTick
<1>2. since' \in [Channels -> [Nodes -> [Commands -> 0..Horizon]]]
  <2>1. ASSUME NEW ch \in Channels, NEW n \in Nodes, NEW c \in Commands
        PROVE  (IF since[ch][n][c] = Horizon THEN Horizon ELSE since[ch][n][c] + 1) \in 0..Horizon
    <3>1. since[ch][n][c] \in 0..Horizon
      BY DEF HbmTypeOK
    <3> QED
      BY <3>1, HorizonAssumption
  <2> QED
    BY <2>1 DEF Tick
<1>3. under' \in [Channels -> [Nodes -> 0..Horizon]]
  BY DEF HbmTypeOK, Tick
<1> QED
  BY <1>1, <1>2, <1>3 DEF HbmTypeOK

LEMMA ReconfigureType ==
    ASSUME HbmTypeOK, NEW value \in SpmLatencies, Reconfigure(value)
    PROVE  HbmTypeOK'
<1>1. DeviceTypeOK'
  BY NotifyDeviceType, DeviceAssumption DEF HbmTypeOK, Reconfigure
<1>2. nSPM' <= Horizon
  BY HorizonAssumption, DeviceAssumption DEF Reconfigure, Notify
<1> QED
  BY <1>1, <1>2 DEF HbmTypeOK, Reconfigure

LEMMA StepType == HbmTypeOK /\ [HbmNext]_hbmVars => HbmTypeOK'
<1> SUFFICES ASSUME HbmTypeOK, [HbmNext]_hbmVars PROVE HbmTypeOK'
  OBVIOUS
<1>1. ASSUME NEW ch \in Channels, NEW cmd \in Commands, NEW addr \in Addrs, Issue(ch, cmd, addr)
      PROVE  HbmTypeOK'
  BY <1>1, IssueType
<1>2. ASSUME NEW value \in SpmLatencies, Reconfigure(value) PROVE HbmTypeOK'
  BY <1>2, ReconfigureType
<1>3. CASE Tick
  BY <1>3, TickType
<1>4. CASE UNCHANGED hbmVars
  BY <1>4 DEF hbmVars, deviceVars, HbmTypeOK, DeviceTypeOK
<1> QED
  BY <1>1, <1>2, <1>3, <1>4 DEF HbmNext

(* Whatever a controller does, the device's state has its type.            *)
THEOREM HbmTypeCorrect == HbmSpec => []HbmTypeOK
<1> QED
  BY InitType, StepType, PTL DEF HbmSpec

-----------------------------------------------------------------------------
(* The timing rules.                                                       *)
HbmInv == HbmTypeOK /\ WaitsCoverGaps /\ WaitsCoverWindow

LEMMA InitHbmInv == HbmInit => WaitsCoverGaps /\ WaitsCoverWindow
<1> SUFFICES ASSUME HbmInit PROVE WaitsCoverGaps /\ WaitsCoverWindow
  OBVIOUS
<1>1. WaitsCoverGaps
  <2> SUFFICES ASSUME NEW c \in Channels, NEW n \in Nodes, NEW p \in Commands, NEW d \in Commands
               PROVE  /\ since[c][n][p] + wait[c][n][d] >= Gap[Len(n)][p][d]
                      /\ p = "SPM" /\ d \in SpmFollowers[Len(n)] =>
                            since[c][n][p] + wait[c][n][d] >= under[c][n]
    BY DEF WaitsCoverGaps
  <2>1. since[c][n][p] = Horizon /\ wait[c][n][d] = 0 /\ under[c][n] = 0
    BY DEF HbmInit, DeviceInit, TreeInit
  <2>2. Len(n) \in Levels
    BY NodeLevel
  <2>3. Gap[Len(n)][p][d] \in Int /\ Gap[Len(n)][p][d] <= Horizon /\ Horizon \in Nat
    BY <2>2, TreeAssumption, HorizonAssumption
  <2> QED
    BY <2>1, <2>3
<1>2. WaitsCoverWindow
  <2> SUFFICES ASSUME "ACT" \in Commands, NEW c \in Channels, NEW n \in Nodes
               PROVE  /\ acts[c][n][FawDepth] + wait[c][n]["ACT"] >= Faw
                      /\ \A k \in 1..(FawDepth - 1) : acts[c][n][k] <= acts[c][n][k + 1]
    BY DEF WaitsCoverWindow
  <2>1. FawDepth \in 1..FawDepth /\ FawDepth \in Nat /\ Faw \in Nat
    BY TreeAssumption
  <2>2. wait[c][n]["ACT"] = 0 /\ \A k \in 1..FawDepth : acts[c][n][k] = Faw
    BY DEF HbmInit, DeviceInit, TreeInit
  <2> QED
    BY <2>1, <2>2
<1> QED
  BY <1>1, <1>2

(* A wait only grows when a command is issued, and on the command's path   *)
(* it grows to the delay.                                                  *)
LEMMA IssueWaits ==
    ASSUME HbmTypeOK, NEW ch \in Channels, NEW cmd \in Commands, NEW addr \in Addrs,
           Issue(ch, cmd, addr), NEW c \in Channels, NEW n \in Nodes, NEW d \in Commands
    PROVE  /\ wait'[c][n][d] \in Nat /\ wait[c][n][d] \in Nat
           /\ wait'[c][n][d] >= wait[c][n][d]
           /\ c = ch /\ OnPath(n, addr.path) => wait'[c][n][d] >= Delays(ch, n, cmd, d)
<1> DEFINE x == wait[c][n][d]
           y == Delays(ch, n, cmd, d)
<1>1. x \in Nat
  BY DEF HbmTypeOK, DeviceTypeOK
<1>2. y \in Int
  BY DelaysCover DEF HbmTypeOK
<1>3. wait'[c][n][d] = IF c = ch /\ OnPath(n, addr.path) THEN Larger(x, y) ELSE x
  BY DEF Issue, IssueCommand, HbmTypeOK, DeviceTypeOK
<1> HIDE DEF x, y
<1>4. Larger(x, y) \in Nat /\ Larger(x, y) >= x /\ Larger(x, y) >= y
  BY <1>1, <1>2, LargerNat
<1>5. wait'[c][n][d] \in Nat /\ wait'[c][n][d] >= x
      /\ (c = ch /\ OnPath(n, addr.path) => wait'[c][n][d] >= y)
  BY <1>1, <1>3, <1>4
<1> QED
  BY <1>1, <1>5 DEF x, y

LEMMA IssueInv ==
    ASSUME HbmInv, NEW ch \in Channels, NEW cmd \in Commands, NEW addr \in Addrs,
           Issue(ch, cmd, addr)
    PROVE  WaitsCoverGaps' /\ WaitsCoverWindow'
<1> USE DEF HbmInv
<1>1. WaitsCoverGaps'
  <2> SUFFICES ASSUME NEW c \in Channels, NEW n \in Nodes, NEW p \in Commands, NEW d \in Commands
               PROVE  /\ since'[c][n][p] + wait'[c][n][d] >= Gap[Len(n)][p][d]
                      /\ p = "SPM" /\ d \in SpmFollowers[Len(n)] =>
                            since'[c][n][p] + wait'[c][n][d] >= under'[c][n]
    BY DEF WaitsCoverGaps
  <2>1. /\ since[c][n][p] \in Nat /\ Gap[Len(n)][p][d] \in Int /\ under[c][n] \in Nat
        /\ nSPM \in Nat
    BY NodeLevel, TreeAssumption, DeviceAssumption, HorizonAssumption DEF HbmTypeOK, DeviceTypeOK
  <2>2. /\ since[c][n][p] + wait[c][n][d] >= Gap[Len(n)][p][d]
        /\ p = "SPM" /\ d \in SpmFollowers[Len(n)] =>
              since[c][n][p] + wait[c][n][d] >= under[c][n]
    BY DEF WaitsCoverGaps
  <2>3. /\ wait'[c][n][d] \in Nat /\ wait[c][n][d] \in Nat
        /\ wait'[c][n][d] >= wait[c][n][d]
        /\ c = ch /\ OnPath(n, addr.path) => wait'[c][n][d] >= Delays(ch, n, cmd, d)
    BY IssueWaits
  <2>4. CASE c = ch /\ OnPath(n, addr.path) /\ p = cmd
    <3>1. since'[c][n][p] = 0
      BY <2>4 DEF Issue, HbmTypeOK
    <3>2. p = "SPM" => under'[c][n] = nSPM
      BY <2>4 DEF Issue, HbmTypeOK
    <3>3. /\ Delays(ch, n, cmd, d) \in Int
          /\ Delays(ch, n, cmd, d) >= Gap[Len(n)][p][d]
          /\ p = "SPM" /\ d \in SpmFollowers[Len(n)] => Delays(ch, n, cmd, d) >= nSPM
      BY <2>4, DelaysCover DEF HbmTypeOK
    <3> QED
      BY <2>1, <2>3, <2>4, <3>1, <3>2, <3>3
  <2>5. CASE ~(c = ch /\ OnPath(n, addr.path) /\ p = cmd)
    <3>1. since'[c][n][p] = since[c][n][p]
      BY <2>5 DEF Issue, HbmTypeOK
    <3>2. p = "SPM" => under'[c][n] = under[c][n]
      BY <2>5 DEF Issue, HbmTypeOK
    <3> QED
      BY <2>1, <2>2, <2>3, <3>1, <3>2
  <2> QED
    BY <2>4, <2>5
<1>2. WaitsCoverWindow'
  <2> SUFFICES ASSUME "ACT" \in Commands, NEW c \in Channels, NEW n \in Nodes, Len(n) = FawLevel
               PROVE  /\ acts'[c][n][FawDepth] + wait'[c][n]["ACT"] >= Faw
                      /\ \A k \in 1..(FawDepth - 1) : acts'[c][n][k] <= acts'[c][n][k + 1]
    BY DEF WaitsCoverWindow
  <2>1. /\ acts[c][n] \in [1..FawDepth -> 0..Faw] /\ FawDepth \in 1..FawDepth
        /\ FawDepth \in Nat /\ Faw \in Nat
    <3>1. acts[c][n] \in [1..FawDepth -> 0..Faw]
      BY DEF HbmTypeOK, DeviceTypeOK
    <3>2. FawDepth \in Nat \ {0} /\ Faw \in Nat
      BY TreeAssumption
    <3> QED
      BY <3>1, <3>2
  <2>2. /\ acts[c][n][FawDepth] + wait[c][n]["ACT"] >= Faw
        /\ \A k \in 1..(FawDepth - 1) : acts[c][n][k] <= acts[c][n][k + 1]
    BY DEF WaitsCoverWindow
  <2>3. /\ wait'[c][n]["ACT"] \in Nat /\ wait[c][n]["ACT"] \in Nat
        /\ wait'[c][n]["ACT"] >= wait[c][n]["ACT"]
        /\ c = ch /\ OnPath(n, addr.path) => wait'[c][n]["ACT"] >= Delays(ch, n, cmd, "ACT")
    BY IssueWaits
  <2>4. CASE c = ch /\ OnPath(n, addr.path) /\ cmd = "ACT"
    <3>1. acts'[c][n] = [k \in 1..FawDepth |-> IF k = 1 THEN 0 ELSE acts[c][n][k - 1]]
      BY <2>4 DEF Issue, IssueCommand, Recorded, HbmTypeOK, DeviceTypeOK
    <3>2. acts'[c][n] = Recorded(ch, n, cmd)
      BY <2>4 DEF Issue, IssueCommand, HbmTypeOK, DeviceTypeOK
    <3>3. /\ Delays(ch, n, cmd, "ACT") \in Int
          /\ Delays(ch, n, cmd, "ACT") >= Faw - Recorded(ch, n, cmd)[FawDepth]
      BY <2>4, DelaysCover DEF HbmTypeOK
    <3>4. acts'[c][n][FawDepth] \in Nat
      BY <2>1, <3>1
    <3>5. acts'[c][n][FawDepth] + wait'[c][n]["ACT"] >= Faw
      BY <2>1, <2>3, <2>4, <3>2, <3>3, <3>4
    <3>6. \A k \in 1..(FawDepth - 1) : acts'[c][n][k] <= acts'[c][n][k + 1]
      <4> TAKE k \in 1..(FawDepth - 1)
      <4>1. CASE k = 1
        BY <4>1, <2>1, <3>1
      <4>2. CASE k # 1
        <5>1. k - 1 \in 1..(FawDepth - 1) /\ k \in 1..FawDepth /\ k + 1 \in 1..FawDepth
          BY <4>2, <2>1
        <5>2. acts[c][n][k - 1] <= acts[c][n][(k - 1) + 1]
          BY <5>1, <2>2
        <5> QED
          BY <4>2, <5>1, <5>2, <3>1, <2>1
      <4> QED
        BY <4>1, <4>2
    <3> QED
      BY <3>5, <3>6
  <2>5. CASE ~(c = ch /\ OnPath(n, addr.path) /\ cmd = "ACT")
    <3>1. acts'[c][n] = acts[c][n]
      BY <2>5 DEF Issue, IssueCommand, Recorded, HbmTypeOK, DeviceTypeOK
    <3> QED
      BY <2>1, <2>2, <2>3, <3>1
  <2> QED
    BY <2>4, <2>5
<1> QED
  BY <1>1, <1>2

LEMMA TickInv ==
    ASSUME HbmInv, Tick
    PROVE  WaitsCoverGaps' /\ WaitsCoverWindow'
<1> USE DEF HbmInv
<1>1. WaitsCoverGaps'
  <2> SUFFICES ASSUME NEW c \in Channels, NEW n \in Nodes, NEW p \in Commands, NEW d \in Commands
               PROVE  /\ since'[c][n][p] + wait'[c][n][d] >= Gap[Len(n)][p][d]
                      /\ p = "SPM" /\ d \in SpmFollowers[Len(n)] =>
                            since'[c][n][p] + wait'[c][n][d] >= under'[c][n]
    BY DEF WaitsCoverGaps
  <2>1. /\ since[c][n][p] \in 0..Horizon /\ Gap[Len(n)][p][d] \in Int
        /\ under[c][n] \in 0..Horizon /\ wait[c][n][d] \in Nat /\ Horizon \in Nat
        /\ Gap[Len(n)][p][d] <= Horizon
    BY NodeLevel, TreeAssumption, DeviceAssumption, HorizonAssumption DEF HbmTypeOK, DeviceTypeOK
  <2>2. /\ since[c][n][p] + wait[c][n][d] >= Gap[Len(n)][p][d]
        /\ p = "SPM" /\ d \in SpmFollowers[Len(n)] =>
              since[c][n][p] + wait[c][n][d] >= under[c][n]
    BY DEF WaitsCoverGaps
  <2>3. /\ since'[c][n][p] = IF since[c][n][p] = Horizon THEN Horizon ELSE since[c][n][p] + 1
        /\ wait'[c][n][d] = IF wait[c][n][d] = 0 THEN 0 ELSE wait[c][n][d] - 1
        /\ under'[c][n] = under[c][n]
    BY DEF Tick, DeviceTick, TreeTick
  <2> DEFINE age == since[c][n][p]
             left == wait[c][n][d]
             gap == Gap[Len(n)][p][d]
             later == since'[c][n][p] + wait'[c][n][d]
  <2>4. later = age + left \/ later = age + 1 + left \/ (later = age + 1 /\ left = 0)
        \/ later >= Horizon
    <3> DEFINE nextAge == since'[c][n][p]
               nextLeft == wait'[c][n][d]
    <3>1. /\ nextAge = IF age = Horizon THEN Horizon ELSE age + 1
          /\ nextLeft = IF left = 0 THEN 0 ELSE left - 1
          /\ age \in 0..Horizon /\ left \in Nat /\ Horizon \in Nat
      BY <2>1, <2>3, Zenon
    <3> HIDE DEF nextAge, nextLeft, age, left
    <3>2. \/ nextAge + nextLeft = age + left \/ nextAge + nextLeft = age + 1 + left
          \/ (nextAge + nextLeft = age + 1 /\ left = 0) \/ nextAge + nextLeft >= Horizon
      BY <3>1
    <3> QED
      BY <3>2, Zenon DEF nextAge, nextLeft
  <2>5. later \in Nat
    <3>1. since'[c][n][p] \in Nat
      BY <2>1, <2>3
    <3>2. wait'[c][n][d] \in Nat
      BY <2>1, <2>3
    <3> QED
      BY <3>1, <3>2
  <2>6. age \in Nat /\ left \in Nat /\ gap \in Int /\ under[c][n] \in Nat
        /\ age + left >= gap /\ gap <= Horizon /\ under[c][n] <= Horizon /\ Horizon \in Nat
    BY <2>1, <2>2
  <2>7. p = "SPM" /\ d \in SpmFollowers[Len(n)] => age + left >= under[c][n]
    BY <2>2
  <2> HIDE DEF age, left, gap, later
  <2>8. later >= gap
    BY <2>4, <2>5, <2>6
  <2>9. p = "SPM" /\ d \in SpmFollowers[Len(n)] => later >= under'[c][n]
    BY <2>3, <2>4, <2>5, <2>6, <2>7
  <2> QED
    BY <2>8, <2>9 DEF later, gap
<1>2. WaitsCoverWindow'
  <2> SUFFICES ASSUME "ACT" \in Commands, NEW c \in Channels, NEW n \in Nodes, Len(n) = FawLevel
               PROVE  /\ acts'[c][n][FawDepth] + wait'[c][n]["ACT"] >= Faw
                      /\ \A k \in 1..(FawDepth - 1) : acts'[c][n][k] <= acts'[c][n][k + 1]
    BY DEF WaitsCoverWindow
  <2>1. /\ \A k \in 1..FawDepth : acts[c][n][k] \in 0..Faw
        /\ FawDepth \in 1..FawDepth /\ FawDepth \in Nat /\ Faw \in Nat
        /\ wait[c][n]["ACT"] \in Nat
    BY TreeAssumption DEF HbmTypeOK, DeviceTypeOK
  <2>2. /\ acts[c][n][FawDepth] + wait[c][n]["ACT"] >= Faw
        /\ \A k \in 1..(FawDepth - 1) : acts[c][n][k] <= acts[c][n][k + 1]
    BY DEF WaitsCoverWindow
  <2>3. /\ \A k \in 1..FawDepth :
              acts'[c][n][k] = IF acts[c][n][k] = Faw THEN Faw ELSE acts[c][n][k] + 1
        /\ wait'[c][n]["ACT"] = IF wait[c][n]["ACT"] = 0 THEN 0 ELSE wait[c][n]["ACT"] - 1
    BY DEF Tick, DeviceTick, TreeTick
  <2>4. acts'[c][n][FawDepth] + wait'[c][n]["ACT"] >= Faw
    <3> DEFINE age == acts[c][n][FawDepth]
               left == wait[c][n]["ACT"]
               older == acts'[c][n][FawDepth]
               less == wait'[c][n]["ACT"]
    <3>1. age \in 0..Faw /\ left \in Nat /\ Faw \in Nat /\ age + left >= Faw
      BY <2>1, <2>2
    <3>2. older = IF age = Faw THEN Faw ELSE age + 1
      BY <2>1, <2>3
    <3>3. less = IF left = 0 THEN 0 ELSE left - 1
      BY <2>3
    <3> HIDE DEF age, left, older, less
    <3>4. older + less >= Faw
      BY <3>1, <3>2, <3>3
    <3> QED
      BY <3>4 DEF older, less
  <2>5. \A k \in 1..(FawDepth - 1) : acts'[c][n][k] <= acts'[c][n][k + 1]
    <3> TAKE k \in 1..(FawDepth - 1)
    <3> DEFINE a == acts[c][n][k]
               b == acts[c][n][k + 1]
    <3>1. k \in 1..FawDepth /\ k + 1 \in 1..FawDepth
      BY <2>1
    <3>2. /\ acts'[c][n][k] = IF a = Faw THEN Faw ELSE a + 1
          /\ acts'[c][n][k + 1] = IF b = Faw THEN Faw ELSE b + 1
      BY <3>1, <2>3
    <3>3. a \in 0..Faw /\ b \in 0..Faw /\ a <= b /\ Faw \in Nat
      BY <3>1, <2>1, <2>2
    <3> HIDE DEF a, b
    <3> QED
      BY <3>2, <3>3
  <2> QED
    BY <2>4, <2>5
<1> QED
  BY <1>1, <1>2

LEMMA StepHbmInv == HbmInv /\ [HbmNext]_hbmVars => HbmInv'
<1> SUFFICES ASSUME HbmInv, [HbmNext]_hbmVars PROVE WaitsCoverGaps' /\ WaitsCoverWindow'
  BY StepType DEF HbmInv
<1>1. ASSUME NEW ch \in Channels, NEW cmd \in Commands, NEW addr \in Addrs, Issue(ch, cmd, addr)
      PROVE  WaitsCoverGaps' /\ WaitsCoverWindow'
  BY <1>1, IssueInv
<1>2. ASSUME NEW value \in SpmLatencies, Reconfigure(value)
      PROVE  WaitsCoverGaps' /\ WaitsCoverWindow'
  BY <1>2 DEF HbmInv, Reconfigure, Notify, WaitsCoverGaps, WaitsCoverWindow
<1>3. CASE Tick
  BY <1>3, TickInv
<1>4. CASE UNCHANGED hbmVars
  BY <1>4 DEF HbmInv, hbmVars, deviceVars, WaitsCoverGaps, WaitsCoverWindow
<1> QED
  BY <1>1, <1>2, <1>3, <1>4 DEF HbmNext

(* The ready clocks cover every gap and the window in every reachable      *)
(* state, whatever commands and reconfigurations led to it.                *)
THEOREM WaitsCover == HbmSpec => [](WaitsCoverGaps /\ WaitsCoverWindow)
<1>1. HbmInit => HbmInv
  BY InitType, InitHbmInv DEF HbmInv
<1> QED
  BY <1>1, StepHbmInv, PTL DEF HbmSpec, HbmInv

(* check_ready() accepts no command before its time.                       *)
LEMMA CoveredIsSpaced == HbmInv => AcceptedAreSpaced
<1> SUFFICES ASSUME HbmInv, NEW ch \in Channels, NEW d \in Commands, NEW path \in Paths,
                    Accepts(ch, d, path),
                    NEW n \in Nodes, OnPath(n, path), Len(n) <= Scope[d]
             PROVE  Spaced(ch, n, d)
  BY DEF AcceptedAreSpaced
<1>1. wait[ch][n][d] = 0
  BY DEF Accepts, CheckReady
<1>2. \A c \in Commands : since[ch][n][c] \in Nat /\ Gap[Len(n)][c][d] \in Int
  BY NodeLevel, TreeAssumption, DeviceAssumption, HorizonAssumption DEF HbmInv, HbmTypeOK
<1>3. \A c \in Commands : since[ch][n][c] >= Gap[Len(n)][c][d]
  BY <1>1, <1>2 DEF HbmInv, WaitsCoverGaps
<1>4. "SPM" \in Commands /\ d \in SpmFollowers[Len(n)] => since[ch][n]["SPM"] >= under[ch][n]
  BY <1>1, <1>2 DEF HbmInv, WaitsCoverGaps
<1>5. d = "ACT" /\ Len(n) = FawLevel => acts[ch][n][FawDepth] = Faw
  <2> SUFFICES ASSUME d = "ACT", Len(n) = FawLevel PROVE acts[ch][n][FawDepth] = Faw
    OBVIOUS
  <2>1. acts[ch][n][FawDepth] \in 0..Faw /\ Faw \in Nat
    BY TreeAssumption DEF HbmInv, HbmTypeOK, DeviceTypeOK
  <2>2. acts[ch][n][FawDepth] + wait[ch][n]["ACT"] >= Faw
    BY DEF HbmInv, WaitsCoverWindow
  <2> QED
    BY <1>1, <2>1, <2>2
<1> QED
  BY <1>3, <1>4, <1>5 DEF Spaced

THEOREM AcceptedSpaced == HbmSpec => []AcceptedAreSpaced
<1>1. HbmInit => HbmInv
  BY InitType, InitHbmInv DEF HbmInv
<1> QED
  BY <1>1, StepHbmInv, CoveredIsSpaced, PTL DEF HbmSpec
=============================================================================
