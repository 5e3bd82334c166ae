------------------------- MODULE GenericControllerProofs -------------------------
(***************************************************************************)
(* Proofs about the DDR4 device and about GenericController, which drives  *)
(* it: any number of ranks, banks and requests, any buffer sizes,          *)
(* watermarks, cap, refresh period and timing that keeps ACTs away from a  *)
(* refresh.                                                                *)
(***************************************************************************)
EXTENDS GenericController, FiniteSetTheorems, WellFoundedInduction, TLAPS

-----------------------------------------------------------------------------
(* The tree of nodes.  Every node has a level.                             *)
LEMMA NodeLevel == \A n \in Nodes : Len(n) \in Levels
BY DEF Nodes, Banks, Levels

LEMMA LargerNat ==
    ASSUME NEW a \in Nat, NEW b \in Int
    PROVE  Larger(a, b) \in Nat /\ Larger(a, b) >= a /\ Larger(a, b) >= b
BY DEF Larger

(* The history a command leaves behind is a history again.                 *)
LEMMA RecordedType ==
    ASSUME acts \in [Channels -> [Nodes -> [1..FawDepth -> 0..Faw]]],
           NEW ch \in Channels, NEW n \in Nodes, NEW cmd
    PROVE  Recorded(ch, n, cmd) \in [1..FawDepth -> 0..Faw]
BY TreeAssumption DEF Recorded

(* The delay of the table is a number, at least that of the constraint.    *)
LEMMA TableDelayCovers ==
    ASSUME acts \in [Channels -> [Nodes -> [1..FawDepth -> 0..Faw]]],
           NEW ch \in Channels, NEW n \in Nodes, NEW cmd \in Commands, NEW d \in Commands
    PROVE  /\ TableDelay(ch, n, cmd, d) \in Int
           /\ TableDelay(ch, n, cmd, d) >= Gap[Len(n)][cmd][d]
<1> DEFINE fixed == Gap[Len(n)][cmd][d]
           faw == IF cmd = "ACT" /\ d = "ACT" THEN Faw - Recorded(ch, n, cmd)[FawDepth] ELSE 0
<1>1. fixed \in Int
  BY NodeLevel, TreeAssumption
<1>2. faw \in Int
  <2>1. Recorded(ch, n, cmd)[FawDepth] \in 0..Faw
    <3>1. FawDepth \in 1..FawDepth
      BY TreeAssumption
    <3> QED
      BY <3>1, RecordedType
  <2> QED
    BY <2>1, TreeAssumption
<1>3. TableDelay(ch, n, cmd, d) = Larger(fixed, faw)
  BY DEF TableDelay
<1> HIDE DEF fixed, faw
<1>4. Larger(fixed, faw) \in Int /\ Larger(fixed, faw) >= fixed
  BY <1>1, <1>2 DEF Larger
<1>5. TableDelay(ch, n, cmd, d) \in Int /\ TableDelay(ch, n, cmd, d) >= fixed
  BY <1>3, <1>4
<1> QED
  BY <1>5 DEF fixed

-----------------------------------------------------------------------------
(* The device alone.  A controller that only issues the prerequisites of   *)
(* its requests, and only when the timing accepts them, never disturbs a   *)
(* refresh and never has two rows of a bank open.                          *)
DdrInv == DdrTypeOK /\ OneRowOpen /\ RefreshUndisturbed /\ RefreshingEnds

LEMMA NatMin ==
    ASSUME NEW S \in SUBSET Nat, S # {}
    PROVE  \E x \in S : \A y \in S : x <= y
<1> DEFINE R == {ss \in Nat \X Nat : ss[1] < ss[2]}
<1>1. IsWellFoundedOn(R, Nat)
  BY NatLessThanWellFounded, Zenon DEF OpToRel
<1>2. \A x, y \in Nat : <<y, x>> \notin R => x <= y
  OBVIOUS
<1> HIDE DEF R
<1>3. \E x \in S : \A y \in S : <<y, x>> \notin R
  BY <1>1, WFMin
<1> QED
  BY <1>2, <1>3

(* Among any banks there is a first one.                                   *)
LEMMA FirstBank ==
    ASSUME NEW S \in SUBSET Banks, S # {}
    PROVE  \E b \in S : \A c \in S : Earlier(b, c)
<1>1. \A b \in S : b[2] \in Nat /\ b[3] \in Nat
  BY TreeAssumption DEF Banks
<1> DEFINE Groups == {b[2] : b \in S}
<1>2. PICK g \in Groups : \A h \in Groups : g <= h
  <2>1. Groups \in SUBSET Nat /\ Groups # {}
    BY <1>1
  <2> HIDE DEF Groups
  <2> QED
    BY <2>1, NatMin
<1> DEFINE InGroup == {b[3] : b \in {c \in S : c[2] = g}}
<1>3. PICK k \in InGroup : \A h \in InGroup : k <= h
  <2>1. InGroup \in SUBSET Nat /\ InGroup # {}
    BY <1>1
  <2> HIDE DEF InGroup
  <2> QED
    BY <2>1, NatMin
<1>4. PICK b \in S : b[2] = g /\ b[3] = k
  OBVIOUS
<1>5. ASSUME NEW c \in S PROVE Earlier(b, c)
  <2>1. g <= c[2] /\ g \in Nat /\ c[2] \in Nat
    BY <1>1, <1>2
  <2>2. CASE g = c[2]
    <3>1. k <= c[3]
      BY <1>3, <2>2
    <3> QED
      BY <3>1, <2>2, <1>4 DEF Earlier
  <2>3. CASE g < c[2]
    BY <2>3, <1>4 DEF Earlier
  <2> QED
    BY <2>1, <2>2, <2>3
<1> QED
  BY <1>5

-----------------------------------------------------------------------------
(* What a command that is a prerequisite may meet.                         *)
Allowed(ch, cmd, addr) ==
    \/ /\ addr \in BankAddrs /\ cmd \in {"ACT", "PRE", "RD", "WR"}
       /\ cmd = "ACT" => state[ch][addr.path] # "Opened"
    \/ /\ addr \in RankAddrs /\ cmd \in {"PREA", "REFab"}
       /\ cmd = "REFab" => \A b \in RankBanks(addr.path[1]) : state[ch][b] # "Opened"

(* A refresh is issued only when no bank of the rank has a row open: if    *)
(* one had, none would be refreshing, so the first bank that is not closed *)
(* would be an open one.                                                   *)
LEMMA RefreshMeetsNoRow ==
    ASSUME DdrInv, NEW ch \in Channels, NEW rank \in Pchs,
           AllClosedPreq(ch, "REFab", rank) = "REFab"
    PROVE  \A b \in RankBanks(rank) : state[ch][b] # "Opened"
<1> SUFFICES ASSUME NEW o \in RankBanks(rank), state[ch][o] = "Opened"
             PROVE  FALSE
  OBVIOUS
<1> DEFINE busy == {b \in RankBanks(rank) : state[ch][b] # "Closed"}
<1>1. busy \in SUBSET Banks /\ busy # {}
  BY DEF RankBanks
<1>2. PICK b \in busy : \A c \in busy : Earlier(b, c)
  <2> HIDE DEF busy
  <2> QED
    BY <1>1, FirstBank
<1>3. state[ch][b] = "Refreshing"
  <2>1. state[ch][b] # "Opened"
    BY <1>2 DEF AllClosedPreq
  <2> QED
    BY <2>1, <1>1 DEF DdrInv, DdrTypeOK, BankStates
<1>4. PICK e \in ending[ch] : e.rank = rank
  BY <1>1, <1>3 DEF DdrInv, RefreshingEnds, RankBanks
<1> QED
  BY <1>4 DEF DdrInv, RefreshUndisturbed, RankBanks

LEMMA PreqAllowed ==
    ASSUME DdrInv, NEW ch \in Channels, NEW a \in Asked
    PROVE  Allowed(ch, Preq(ch, a[1], a[2]), a[2])
<1>1. CASE a \in {"RD", "WR", "PRE"} \X BankAddrs
  <2>1. a[1] \in {"RD", "WR", "PRE"} /\ a[2] \in BankAddrs
    BY <1>1
  <2>2. CASE a[1] = "PRE"
    BY <2>1, <2>2 DEF Preq, Allowed
  <2>3. CASE a[1] \in {"RD", "WR"}
    BY <2>1, <2>3 DEF Preq, RowOpenPreq, Allowed
  <2> QED
    BY <2>1, <2>2, <2>3
<1>2. CASE a \in {"REFab"} \X RankAddrs
  <2>1. a[1] = "REFab" /\ a[2] \in RankAddrs
    BY <1>2
  <2>2. PICK rank \in Pchs : a[2].path = <<rank, Each, Each>>
    BY <2>1 DEF RankAddrs
  <2>3. Preq(ch, a[1], a[2]) = AllClosedPreq(ch, "REFab", rank)
    BY <2>1, <2>2 DEF Preq
  <2>4. AllClosedPreq(ch, "REFab", rank) \in {"PREA", "REFab"}
    BY DEF AllClosedPreq
  <2> QED
    BY <2>1, <2>2, <2>3, <2>4, RefreshMeetsNoRow DEF Allowed
<1> QED
  BY <1>1, <1>2 DEF Asked

-----------------------------------------------------------------------------
(* Types.                                                                  *)
LEMMA InitDdrInv == DdrInit => DdrInv
BY TreeAssumption, Ddr4Assumption
DEF DdrInit, TreeInit, DdrInv, DdrTypeOK, OneRowOpen, RefreshUndisturbed, RefreshingEnds, BankStates

(* A wait only grows when a command is issued, and on the command's path   *)
(* it grows to the constraint.                                             *)
LEMMA WaitGrows ==
    ASSUME DdrTypeOK, NEW ch \in Channels, NEW n \in Nodes, NEW cmd \in Commands,
           NEW path, NEW d \in Commands
    PROVE  /\ WaitAfter(ch, n, cmd, path, d) \in Nat
           /\ WaitAfter(ch, n, cmd, path, d) >= wait[ch][n][d]
           /\ OnPath(n, path) => WaitAfter(ch, n, cmd, path, d) >= Gap[Len(n)][cmd][d]
<1> DEFINE x == wait[ch][n][d]
           y == TableDelay(ch, n, cmd, d)
           z == SiblingGap[Len(n)][cmd][d]
           g == Gap[Len(n)][cmd][d]
<1>1. x \in Nat /\ z \in Int /\ g \in Int
  BY NodeLevel, TreeAssumption, Ddr4Assumption DEF DdrTypeOK
<1>2. y \in Int /\ y >= g
  BY TableDelayCovers DEF DdrTypeOK
<1>3. WaitAfter(ch, n, cmd, path, d) =
        Larger(x, IF OnPath(n, path) THEN y ELSE IF IsSibling(n, path) THEN z ELSE 0)
  BY DEF WaitAfter
<1> HIDE DEF x, y, z, g
<1>4. CASE OnPath(n, path)
  <2>1. Larger(x, y) \in Nat /\ Larger(x, y) >= x /\ Larger(x, y) >= y
    BY <1>1, <1>2, LargerNat
  <2>2. Larger(x, y) >= g
    BY <2>1, <1>1, <1>2
  <2> QED
    BY <1>3, <1>4, <2>1, <2>2 DEF x, g
<1>5. CASE ~OnPath(n, path)
  <2> DEFINE w == IF IsSibling(n, path) THEN z ELSE 0
  <2>1. w \in Int
    BY <1>1
  <2>2. Larger(x, w) \in Nat /\ Larger(x, w) >= x
    BY <1>1, <2>1, LargerNat
  <2> QED
    BY <1>3, <1>5, <2>2 DEF x
<1> QED
  BY <1>4, <1>5

LEMMA IssueType ==
    ASSUME DdrTypeOK, NEW ch \in Channels, NEW cmd \in Commands, NEW addr,
           Allowed(ch, cmd, addr), IssueCommand(ch, cmd, addr)
    PROVE  DdrTypeOK'
<1>1. wait' \in [Channels -> [Nodes -> [Commands -> Nat]]]
  BY WaitGrows DEF IssueCommand, DdrTypeOK
<1>2. acts' \in [Channels -> [Nodes -> [1..FawDepth -> 0..Faw]]]
  BY RecordedType DEF IssueCommand, DdrTypeOK
<1>3. state' \in [Channels -> [Banks -> BankStates]]
  BY DEF IssueCommand, DdrTypeOK, StateAfter, BankStates
<1>4. open' \in [Channels -> [Banks -> SUBSET Rows]]
  BY DEF IssueCommand, DdrTypeOK, OpenAfter, Allowed, BankAddrs
<1>5. ending' \in [Channels -> SUBSET [rank : Pchs, left : 1..(nRFC - 1)]]
  <2>1. cmd = "REFab" => addr.path[1] \in Pchs
    BY DEF Allowed, RankAddrs
  <2>2. RefreshEnd \in 1..(nRFC - 1)
    BY Ddr4Assumption DEF RefreshEnd
  <2> QED
    BY <2>1, <2>2 DEF IssueCommand, DdrTypeOK
<1> QED
  BY <1>1, <1>2, <1>3, <1>4, <1>5 DEF DdrTypeOK

LEMMA TickType == DdrTypeOK /\ DdrTick => DdrTypeOK'
<1> SUFFICES ASSUME DdrTypeOK, DdrTick PROVE DdrTypeOK'
  OBVIOUS
<1>1. wait' \in [Channels -> [Nodes -> [Commands -> Nat]]]
  BY DEF DdrTick, TreeTick, DdrTypeOK
<1>2. acts' \in [Channels -> [Nodes -> [1..FawDepth -> 0..Faw]]]
  BY TreeAssumption DEF DdrTick, TreeTick, DdrTypeOK
<1>3. state' \in [Channels -> [Banks -> BankStates]] /\ open' = open
  BY DEF DdrTick, DdrTypeOK, BankStates
<1>4. ending' \in [Channels -> SUBSET [rank : Pchs, left : 1..(nRFC - 1)]]
  <2>1. ASSUME NEW ch \in Channels, NEW e \in ending[ch], e.left > 1
        PROVE  [e EXCEPT !.left = @ - 1] \in [rank : Pchs, left : 1..(nRFC - 1)]
    <3>1. e \in [rank : Pchs, left : 1..(nRFC - 1)]
      BY DEF DdrTypeOK
    <3> QED
      BY <3>1, <2>1, Ddr4Assumption
  <2> QED
    BY <2>1 DEF DdrTick
<1> QED
  BY <1>1, <1>2, <1>3, <1>4 DEF DdrTypeOK

-----------------------------------------------------------------------------
(* The row states.                                                         *)

(* What an allowed command does to a bank.                                 *)
LEMMA BankAfter ==
    ASSUME DdrTypeOK, NEW ch \in Channels, NEW cmd \in Commands, NEW addr,
           IssueCommand(ch, cmd, addr), NEW c \in Channels, NEW b \in Banks
    PROVE  /\ c # ch \/ ~Reaches(cmd, addr.path, b) =>
                 state'[c][b] = state[c][b] /\ open'[c][b] = open[c][b]
           /\ c = ch /\ Reaches(cmd, addr.path, b) =>
                 /\ state'[c][b] = StateAfter(state[c][b], cmd)
                 /\ open'[c][b] = OpenAfter(open[c][b], cmd, addr.row)
BY DEF IssueCommand, DdrTypeOK

(* Two bank paths meet only when they are the same.                        *)
LEMMA BankPaths ==
    ASSUME NEW b \in Banks, NEW c \in Banks, OnPath(b, c)
    PROVE  b = c
<1>1. PICK p \in Pchs, g \in Bgs, k \in Bks : b = <<p, g, k>>
  BY DEF Banks
<1>2. PICK q \in Pchs, h \in Bgs, l \in Bks : c = <<q, h, l>>
  BY DEF Banks
<1>3. q # Each /\ h # Each /\ l # Each
  BY TreeAssumption DEF Each
<1>4. \A i \in 1..3 : c[i] \in {Each, b[i]}
  BY <1>1 DEF OnPath
<1>5. p = q /\ g = h /\ k = l
  BY <1>1, <1>2, <1>3, <1>4
<1> QED
  BY <1>1, <1>2, <1>5

LEMMA IssueOneRow ==
    ASSUME DdrInv, NEW ch \in Channels, NEW cmd \in Commands, NEW addr,
           Allowed(ch, cmd, addr), IssueCommand(ch, cmd, addr)
    PROVE  OneRowOpen'
<1> SUFFICES ASSUME NEW c \in Channels, NEW b \in Banks
             PROVE  IF state'[c][b] = "Opened" THEN \E row \in Rows : open'[c][b] = {row}
                    ELSE open'[c][b] = {}
  BY DEF OneRowOpen
<1>1. IF state[c][b] = "Opened" THEN \E row \in Rows : open[c][b] = {row} ELSE open[c][b] = {}
  BY DEF DdrInv, OneRowOpen
<1>2. CASE c # ch \/ ~Reaches(cmd, addr.path, b)
  BY <1>1, <1>2, BankAfter DEF DdrInv
<1>3. CASE c = ch /\ Reaches(cmd, addr.path, b)
  <2>1. /\ state'[c][b] = StateAfter(state[c][b], cmd)
        /\ open'[c][b] = OpenAfter(open[c][b], cmd, addr.row)
    BY <1>3, BankAfter DEF DdrInv
  <2>2. CASE cmd = "ACT"
    <3>1. addr.row \in Rows /\ addr.path \in Banks /\ state[ch][addr.path] # "Opened"
      BY <2>2 DEF Allowed, BankAddrs
    <3>2. b = addr.path
      BY <1>3, <2>2, <3>1, BankPaths DEF Reaches
    <3>3. open'[c][b] = {addr.row} /\ state'[c][b] = "Opened"
      BY <1>1, <1>3, <2>1, <2>2, <3>1, <3>2 DEF StateAfter, OpenAfter
    <3> QED
      BY <3>1, <3>3
  <2>3. CASE cmd \in {"PRE", "PREA"}
    BY <2>1, <2>3 DEF StateAfter, OpenAfter
  <2>4. CASE cmd \in {"RD", "WR"}
    BY <1>1, <2>1, <2>4 DEF StateAfter, OpenAfter
  <2>5. CASE cmd = "REFab"
    <3>1. b \in RankBanks(addr.path[1])
      BY <1>3, <2>5, TreeAssumption DEF Reaches, RankBanks, Allowed, RankAddrs, Each
    <3>2. state[c][b] # "Opened"
      BY <1>3, <2>5, <3>1 DEF Allowed
    <3> QED
      BY <1>1, <2>1, <2>5, <3>2 DEF StateAfter, OpenAfter
  <2> QED
    BY <2>2, <2>3, <2>4, <2>5 DEF Allowed
<1> QED
  BY <1>2, <1>3

(* An ACT that is ready finds no refresh of its rank.                      *)
LEMMA NoRefreshUnderAct ==
    ASSUME DdrInv, NEW ch \in Channels, NEW addr \in BankAddrs, CheckReady(ch, "ACT", addr)
    PROVE  \A e \in ending[ch] : e.rank # addr.path[1]
<1> SUFFICES ASSUME NEW e \in ending[ch], e.rank = addr.path[1] PROVE FALSE
  OBVIOUS
<1>1. PICK p \in Pchs, g \in Bgs, k \in Bks : addr.path = <<p, g, k>>
  BY DEF BankAddrs, Banks
<1>2. <<p>> \in Nodes /\ Len(<<p>>) = 1 /\ OnPath(<<p>>, addr.path)
  BY <1>1 DEF Nodes, OnPath
<1>3. Scope["ACT"] \in Nat /\ Scope["ACT"] > 0
  <2>1. "ACT" \in Commands /\ Scope["ACT"] > 0
    BY Ddr4Assumption, Zenon
  <2>2. Scope["ACT"] \in Levels
    BY <2>1, TreeAssumption, Zenon
  <2> QED
    BY <2>1, <2>2 DEF Levels
<1>4. wait[ch][<<p>>]["ACT"] = 0
  <2> DEFINE n == <<p>>
  <2>1. n \in Nodes /\ OnPath(n, addr.path)
    BY <1>2
  <2>2. Len(n) <= Scope["ACT"]
    BY <1>2, <1>3
  <2> HIDE DEF n
  <2>3. wait[ch][n]["ACT"] = 0
    BY <2>1, <2>2 DEF CheckReady
  <2> QED
    BY <2>3 DEF n
<1>5. wait[ch][<<p>>]["ACT"] > e.left /\ e.left \in Nat
  BY <1>1, Ddr4Assumption DEF DdrInv, RefreshUndisturbed, DdrTypeOK
<1> QED
  BY <1>4, <1>5

LEMMA IssueRefresh ==
    ASSUME DdrInv, NEW ch \in Channels, NEW cmd \in Commands, NEW addr,
           Allowed(ch, cmd, addr), CheckReady(ch, cmd, addr), IssueCommand(ch, cmd, addr)
    PROVE  RefreshUndisturbed'
<1> SUFFICES ASSUME NEW c \in Channels, NEW e \in ending'[c]
             PROVE  /\ \A b \in RankBanks(e.rank) : state'[c][b] # "Opened" /\ open'[c][b] = {}
                    /\ wait'[c][<<e.rank>>]["ACT"] > e.left
  BY DEF RefreshUndisturbed, RankBanks
<1>1. DdrTypeOK /\ DdrTypeOK'
  BY IssueType DEF DdrInv
<1>2. e.rank \in Pchs /\ e.left \in Nat
  BY <1>1, Ddr4Assumption DEF DdrTypeOK
<1>3. <<e.rank>> \in Nodes /\ Len(<<e.rank>>) = 1 /\ "ACT" \in Commands
  BY <1>2, Ddr4Assumption DEF Nodes
<1>4. wait'[c][<<e.rank>>]["ACT"] =
        IF c = ch THEN WaitAfter(ch, <<e.rank>>, cmd, addr.path, "ACT")
        ELSE wait[c][<<e.rank>>]["ACT"]
  BY <1>1, <1>3 DEF IssueCommand, DdrTypeOK
<1> DEFINE before == wait[c][<<e.rank>>]["ACT"]
           after == wait'[c][<<e.rank>>]["ACT"]
<1>5. before \in Nat /\ after \in Nat /\ after >= before
  <2>1. before \in Nat /\ after \in Nat
    BY <1>1, <1>3 DEF DdrTypeOK
  <2>2. CASE c = ch
    <3>1. WaitAfter(ch, <<e.rank>>, cmd, addr.path, "ACT") >= wait[ch][<<e.rank>>]["ACT"]
      BY <1>1, <1>3, WaitGrows
    <3>2. after = WaitAfter(ch, <<e.rank>>, cmd, addr.path, "ACT")
      BY <2>2, <1>4
    <3> HIDE DEF after
    <3> QED
      BY <2>1, <2>2, <3>1, <3>2
  <2>3. CASE c # ch
    BY <2>1, <2>3, <1>4
  <2> QED
    BY <2>1, <2>2, <2>3
<1>6. CASE e \in ending[c]
  <2>1. before > e.left /\ \A b \in RankBanks(e.rank) : state[c][b] # "Opened" /\ open[c][b] = {}
    BY <1>6 DEF DdrInv, RefreshUndisturbed
  <2>2. after > e.left
    <3> HIDE DEF before, after
    <3> QED
      BY <1>2, <1>5, <2>1
  <2>3. ASSUME NEW b \in RankBanks(e.rank)
        PROVE  state'[c][b] # "Opened" /\ open'[c][b] = {}
    <3>1. b \in Banks /\ b[1] = e.rank
      BY DEF RankBanks
    <3>2. CASE c = ch /\ Reaches(cmd, addr.path, b)
      <4>1. cmd # "ACT"
        <5>1. SUFFICES ASSUME cmd = "ACT" PROVE FALSE
          OBVIOUS
        <5>2. addr \in BankAddrs /\ b = addr.path
          BY <5>1, <3>1, <3>2, BankPaths DEF Allowed, Reaches, BankAddrs
        <5> QED
          BY <5>1, <5>2, <3>1, <3>2, <1>6, NoRefreshUnderAct
      <4>2. /\ state'[c][b] = StateAfter(state[c][b], cmd)
            /\ open'[c][b] = OpenAfter(open[c][b], cmd, addr.row)
        BY <3>1, <3>2, <1>1, BankAfter
      <4> QED
        BY <2>1, <4>1, <4>2 DEF StateAfter, OpenAfter
    <3>3. CASE c # ch \/ ~Reaches(cmd, addr.path, b)
      BY <2>1, <3>1, <3>3, <1>1, BankAfter
    <3> QED
      BY <3>2, <3>3
  <2> QED
    BY <2>2, <2>3
<1>7. CASE e \notin ending[c]
  <2>1. c = ch /\ cmd = "REFab" /\ e = [rank |-> addr.path[1], left |-> RefreshEnd]
    BY <1>7, <1>1 DEF IssueCommand, DdrTypeOK
  <2>2. addr \in RankAddrs /\ \A b \in RankBanks(addr.path[1]) : state[ch][b] # "Opened"
    BY <2>1 DEF Allowed
  <2>3. e.rank = addr.path[1] /\ e.left = nRFC - 1
    BY <2>1 DEF RefreshEnd
  <2>4. after > e.left
    <3>1. OnPath(<<e.rank>>, addr.path)
      BY <2>3 DEF OnPath
    <3>2. after >= Gap[1]["REFab"]["ACT"]
      BY <1>1, <1>3, <1>4, <2>1, <3>1, WaitGrows
    <3>3. Gap[1]["REFab"]["ACT"] \in Int /\ Gap[1]["REFab"]["ACT"] >= nRFC /\ nRFC \in Nat
      BY TreeAssumption, Ddr4Assumption DEF Levels
    <3> HIDE DEF after
    <3> QED
      BY <1>5, <2>3, <3>2, <3>3
  <2>5. ASSUME NEW b \in RankBanks(e.rank)
        PROVE  state'[c][b] # "Opened" /\ open'[c][b] = {}
    <3>1. b \in Banks /\ Reaches(cmd, addr.path, b)
      BY <2>1, <2>3 DEF RankBanks, Reaches
    <3>2. state[c][b] # "Opened" /\ open[c][b] = {}
      BY <2>1, <2>2, <2>3, <3>1 DEF DdrInv, OneRowOpen
    <3>3. /\ state'[c][b] = StateAfter(state[c][b], cmd)
          /\ open'[c][b] = OpenAfter(open[c][b], cmd, addr.row)
      BY <2>1, <3>1, <1>1, BankAfter
    <3> QED
      BY <2>1, <3>2, <3>3 DEF StateAfter, OpenAfter
  <2> QED
    BY <2>4, <2>5
<1> QED
  BY <1>6, <1>7

LEMMA IssueEnds ==
    ASSUME DdrInv, NEW ch \in Channels, NEW cmd \in Commands, NEW addr,
           Allowed(ch, cmd, addr), IssueCommand(ch, cmd, addr)
    PROVE  RefreshingEnds'
<1> SUFFICES ASSUME NEW c \in Channels, NEW b \in Banks, state'[c][b] = "Refreshing"
             PROVE  \E e \in ending'[c] : e.rank = b[1]
  BY DEF RefreshingEnds
<1>1. ending[c] \subseteq ending'[c]
  BY DEF DdrInv, DdrTypeOK, IssueCommand
<1>2. CASE state[c][b] = "Refreshing"
  BY <1>1, <1>2 DEF DdrInv, RefreshingEnds
<1>3. CASE state[c][b] # "Refreshing"
  <2>1. c = ch /\ Reaches(cmd, addr.path, b)
    BY <1>3, BankAfter DEF DdrInv
  <2>2. cmd = "REFab"
    BY <1>3, <2>1, BankAfter DEF DdrInv, StateAfter
  <2>3. addr.path[1] = b[1]
    BY <2>1, <2>2, TreeAssumption DEF Allowed, RankAddrs, Reaches, Each
  <2>4. [rank |-> addr.path[1], left |-> RefreshEnd] \in ending'[c]
    BY <2>1, <2>2 DEF IssueCommand, DdrInv, DdrTypeOK
  <2> QED
    BY <2>3, <2>4
<1> QED
  BY <1>2, <1>3

LEMMA IssueDdrInv ==
    ASSUME DdrInv, NEW ch \in Channels, NEW cmd \in Commands, NEW addr,
           Allowed(ch, cmd, addr), CheckReady(ch, cmd, addr), IssueCommand(ch, cmd, addr)
    PROVE  DdrInv'
BY IssueType, IssueOneRow, IssueRefresh, IssueEnds DEF DdrInv

(* A cycle passes: the end of a refresh closes banks without a row.        *)
LEMMA TickDdrInv ==
    ASSUME DdrInv, DdrTick
    PROVE  DdrInv'
<1>1. DdrTypeOK /\ DdrTypeOK'
  BY TickType DEF DdrInv
<1>2. ASSUME NEW c \in Channels, NEW b \in Banks
      PROVE  /\ open'[c][b] = open[c][b]
             /\ EndsNow(c, b[1]) => state'[c][b] = "Closed" /\ open[c][b] = {}
             /\ ~EndsNow(c, b[1]) => state'[c][b] = state[c][b]
  <2>1. /\ open'[c][b] = open[c][b]
        /\ state'[c][b] = IF EndsNow(c, b[1]) THEN "Closed" ELSE state[c][b]
    BY DEF DdrTick
  <2>2. EndsNow(c, b[1]) => open[c][b] = {}
    BY DEF EndsNow, DdrInv, RefreshUndisturbed, RankBanks
  <2> QED
    BY <2>1, <2>2
<1>3. OneRowOpen'
  <2> SUFFICES ASSUME NEW c \in Channels, NEW b \in Banks
               PROVE  IF state'[c][b] = "Opened" THEN \E row \in Rows : open'[c][b] = {row}
                      ELSE open'[c][b] = {}
    BY DEF OneRowOpen
  <2> QED
    BY <1>2 DEF DdrInv, OneRowOpen
<1>4. ASSUME NEW c \in Channels, NEW e \in ending'[c]
      PROVE  \E x \in ending[c] : x.left > 1 /\ e.rank = x.rank /\ e.left = x.left - 1
  <2>1. PICK x \in ending[c] : x.left > 1 /\ e = [x EXCEPT !.left = @ - 1]
    BY DEF DdrTick
  <2>2. x \in [rank : Pchs, left : 1..(nRFC - 1)]
    BY <1>1 DEF DdrTypeOK
  <2> QED
    BY <2>1, <2>2
<1>5. RefreshUndisturbed'
  <2> SUFFICES ASSUME NEW c \in Channels, NEW e \in ending'[c]
               PROVE  /\ \A b \in RankBanks(e.rank) : state'[c][b] # "Opened" /\ open'[c][b] = {}
                      /\ wait'[c][<<e.rank>>]["ACT"] > e.left
    BY DEF RefreshUndisturbed, RankBanks
  <2>1. PICK x \in ending[c] : x.left > 1 /\ e.rank = x.rank /\ e.left = x.left - 1
    BY <1>4
  <2>2. x.rank \in Pchs /\ x.left \in Nat
    BY <1>1, Ddr4Assumption DEF DdrTypeOK
  <2>3. <<x.rank>> \in Nodes /\ "ACT" \in Commands
    BY <2>2, Ddr4Assumption DEF Nodes
  <2> DEFINE before == wait[c][<<x.rank>>]["ACT"]
             after == wait'[c][<<x.rank>>]["ACT"]
  <2>4. before \in Nat /\ before > x.left
    BY <2>3, <1>1 DEF DdrInv, RefreshUndisturbed, DdrTypeOK
  <2>5. after = IF before = 0 THEN 0 ELSE before - 1
    BY <2>3 DEF DdrTick, TreeTick
  <2> HIDE DEF before, after
  <2>6. after > e.left
    BY <2>1, <2>2, <2>4, <2>5
  <2>7. ASSUME NEW b \in RankBanks(e.rank)
        PROVE  state'[c][b] # "Opened" /\ open'[c][b] = {}
    <3>1. b \in Banks /\ b \in RankBanks(x.rank)
      BY <2>1 DEF RankBanks
    <3>2. state[c][b] # "Opened" /\ open[c][b] = {}
      BY <3>1 DEF DdrInv, RefreshUndisturbed
    <3> QED
      BY <3>1, <3>2, <1>2
  <2> QED
    BY <2>1, <2>6, <2>7 DEF after
<1>6. RefreshingEnds'
  <2> SUFFICES ASSUME NEW c \in Channels, NEW b \in Banks, state'[c][b] = "Refreshing"
               PROVE  \E e \in ending'[c] : e.rank = b[1]
    BY DEF RefreshingEnds
  <2>1. ~EndsNow(c, b[1]) /\ state[c][b] = "Refreshing"
    BY <1>2
  <2>2. PICK x \in ending[c] : x.rank = b[1]
    BY <2>1 DEF DdrInv, RefreshingEnds
  <2>3. x \in [rank : Pchs, left : 1..(nRFC - 1)] /\ x.left > 1
    <3>1. x \in [rank : Pchs, left : 1..(nRFC - 1)]
      BY <1>1 DEF DdrTypeOK
    <3>2. x.left # 1
      BY <2>1, <2>2 DEF EndsNow
    <3> QED
      BY <3>1, <3>2, Ddr4Assumption
  <2>4. [x EXCEPT !.left = @ - 1] \in ending'[c]
    BY <2>3 DEF DdrTick
  <2>5. [x EXCEPT !.left = @ - 1].rank = b[1]
    BY <2>2, <2>3
  <2> QED
    BY <2>4, <2>5
<1> QED
  BY <1>1, <1>3, <1>5, <1>6 DEF DdrInv

LEMMA PreqCommand ==
    ASSUME NEW ch, NEW a \in Asked
    PROVE  Preq(ch, a[1], a[2]) \in Commands
BY Ddr4Assumption DEF Asked, Preq, RowOpenPreq, AllClosedPreq

LEMMA StepDdrInv == DdrInv /\ [DdrNext]_ddrVars => DdrInv'
<1> SUFFICES ASSUME DdrInv, [DdrNext]_ddrVars PROVE DdrInv'
  OBVIOUS
<1>1. ASSUME NEW ch \in Channels, NEW a \in Asked,
             CheckReady(ch, Preq(ch, a[1], a[2]), a[2]),
             IssueCommand(ch, Preq(ch, a[1], a[2]), a[2])
      PROVE  DdrInv'
  BY <1>1, PreqAllowed, PreqCommand, IssueDdrInv
<1>2. CASE DdrTick
  BY <1>2, TickDdrInv
<1>3. CASE UNCHANGED ddrVars
  BY <1>3 DEF ddrVars, DdrInv, DdrTypeOK, OneRowOpen, RefreshUndisturbed, RefreshingEnds
<1> QED
  BY <1>1, <1>2, <1>3 DEF DdrNext

(* Under every controller that issues prerequisites when the timing        *)
(* accepts them, each bank has at most one row open and is marked so, and  *)
(* no refresh is disturbed or ends on a bank somebody opened.              *)
THEOREM RefreshSafe == DdrSpec => [](DdrTypeOK /\ OneRowOpen /\ RefreshUndisturbed)
<1>1. DdrInv => DdrTypeOK /\ OneRowOpen /\ RefreshUndisturbed
  BY DEF DdrInv
<1> QED
  BY InitDdrInv, StepDdrInv, <1>1, PTL DEF DdrSpec

-----------------------------------------------------------------------------
(* The controller.                                                         *)
(* Facts about sequences.                                                  *)
LEMMA RemoveAtFacts ==
    ASSUME NEW S, NEW t \in Seq(S), NEW i \in 1..Len(t)
    PROVE  /\ RemoveAt(t, i) \in Seq(S) /\ Len(RemoveAt(t, i)) = Len(t) - 1
           /\ \A k \in 1..(Len(t) - 1) :
                 RemoveAt(t, i)[k] = IF k < i THEN t[k] ELSE t[k + 1]
<1> DEFINE a == SubSeq(t, 1, i - 1)
           z == SubSeq(t, i + 1, Len(t))
<1>1. Len(t) \in Nat
  OBVIOUS
<1>2. a \in Seq(S) /\ Len(a) = i - 1 /\ \A k \in 1..(i - 1) : a[k] = t[k]
  BY <1>1
<1>3. z \in Seq(S) /\ Len(z) = Len(t) - i /\ \A k \in 1..(Len(t) - i) : z[k] = t[k + i]
  BY <1>1
<1>4. RemoveAt(t, i) = a \o z
  BY DEF RemoveAt
<1> HIDE DEF a, z
<1>5. /\ a \o z \in Seq(S) /\ Len(a \o z) = Len(t) - 1
      /\ \A k \in 1..(Len(t) - 1) : (a \o z)[k] = IF k < i THEN a[k] ELSE z[k - (i - 1)]
  BY <1>1, <1>2, <1>3
<1>6. ASSUME NEW k \in 1..(Len(t) - 1)
      PROVE  (a \o z)[k] = IF k < i THEN t[k] ELSE t[k + 1]
  <2>1. CASE k < i
    BY <1>2, <1>5, <2>1
  <2>2. CASE ~(k < i)
    <3>1. k - (i - 1) \in 1..(Len(t) - i) /\ (k - (i - 1)) + i = k + 1
      BY <1>1, <2>2
    <3> QED
      BY <1>3, <1>5, <2>2, <3>1
  <2> QED
    BY <2>1, <2>2
<1> QED
  BY <1>4, <1>5, <1>6

LEMMA MarkFacts ==
    ASSUME NEW t \in Seq(Entries), NEW i \in 1..Len(t)
    PROVE  /\ [t EXCEPT ![i].counted = TRUE] \in Seq(Entries)
           /\ [t[i] EXCEPT !.counted = TRUE] \in Entries
<1>1. t[i] \in Entries
  OBVIOUS
<1>2. [t[i] EXCEPT !.counted = TRUE] \in Entries
  BY <1>1 DEF Entries, EntriesOf
<1> HIDE DEF Entries
<1>3. [t EXCEPT ![i] = [t[i] EXCEPT !.counted = TRUE]] \in Seq(Entries)
  BY <1>2
<1> QED
  BY <1>2, <1>3

LEMMA SeqGrow ==
    ASSUME NEW S, NEW T, S \subseteq T
    PROVE  Seq(S) \subseteq Seq(T)
<1> SUFFICES ASSUME NEW t \in Seq(S) PROVE t \in Seq(T)
  OBVIOUS
<1>1. t \in [1..Len(t) -> S] /\ Len(t) \in Nat
  OBVIOUS
<1>2. t \in [1..Len(t) -> T]
  BY <1>1
<1> QED
  BY <1>1, <1>2

-----------------------------------------------------------------------------
(* The requests and their next commands.                                   *)
LEMMA EntryCommand ==
    ASSUME NEW e \in Entries
    PROVE  /\ <<e.final, e.addr>> \in Asked
           /\ NextCommand(e) \in Commands
           /\ e.final \in {"RD", "WR"} =>
                 /\ e.id \in accepted /\ e.addr \in BankAddrs
                 /\ NextCommand(e) = RowOpenPreq(Ch, e.final, e.addr)
                 /\ NextCommand(e) \in {"ACT", "PRE", e.final}
           /\ e.final = "PRE" => e.addr \in BankAddrs /\ NextCommand(e) = "PRE"
           /\ e.final = "REFab" => e.addr \in RankAddrs /\ NextCommand(e) \in {"PREA", "REFab"}
           /\ e.final \in {"RD", "WR", "PRE", "REFab"}
<1>1. /\ e.final \in {"RD", "WR"} => e.id \in accepted /\ e.addr \in BankAddrs
      /\ e.final = "PRE" => e.addr \in BankAddrs
      /\ e.final = "REFab" => e.addr \in RankAddrs
      /\ e.final \in {"RD", "WR", "PRE", "REFab"}
  BY DEF Entries, EntriesOf
<1>2. <<e.final, e.addr>> \in Asked
  BY <1>1 DEF Asked
<1>3. NextCommand(e) \in Commands
  BY <1>2, PreqCommand DEF NextCommand
<1> QED
  BY <1>1, <1>2, <1>3 DEF NextCommand, Preq, RowOpenPreq, AllClosedPreq

LEMMA RefreshesType == [k \in 1..NumRanks |-> RefreshOf(k - 1)] \in Seq(Entries)
<1>1. ASSUME NEW k \in 1..NumRanks PROVE RefreshOf(k - 1) \in Entries
  <2>1. k - 1 \in Pchs
    BY ControllerAssumption
  <2> QED
    BY <2>1 DEF RefreshOf, Entries, EntriesOf, RankAddrs
<1> QED
  BY <1>1, ControllerAssumption

LEMMA PriorityType ==
    ASSUME ControllerTypeOK
    PROVE  Priority \in Seq(Entries)
<1>1. [k \in 1..NumRanks |-> RefreshOf(k - 1)] \in Seq(Entries)
  BY RefreshesType
<1>2. buffer["priority"] \in Seq(Entries)
  BY DEF ControllerTypeOK, Buffers
<1> QED
  BY <1>1, <1>2 DEF Priority

LEMMA NowType ==
    ASSUME ControllerTypeOK
    PROVE  /\ BuffersNow \in [Buffers -> Seq(Entries)]
           /\ BuffersNow["priority"] = Priority
           /\ \A b \in {"active", "read", "write"} : BuffersNow[b] = buffer[b]
BY PriorityType DEF BuffersNow, ControllerTypeOK, Buffers

(* The schedule names an entry of a buffer, its prerequisite, which the    *)
(* timing accepts, and no active request it would disturb.                 *)
LEMMA ScheduleFacts ==
    ASSUME ControllerTypeOK, NEW s \in Schedule
    PROVE  /\ s.from \in Buffers /\ s.entry \in Entries
           /\ s.at \in 1..Len(BuffersNow[s.from]) /\ BuffersNow[s.from][s.at] = s.entry
           /\ s.cmd = NextCommand(s.entry)
           /\ IsReady(s.entry) /\ ~Clashes(s.entry)
<1> DEFINE from == Source
           buf == IF from = "priority" THEN Priority ELSE buffer[from]
<1>1. from \in Buffers
  BY DEF Source, Buffers
<1>2. buf = BuffersNow[from]
  BY <1>1, NowType DEF Buffers
<1>3. buf \in Seq(Entries)
  BY <1>1, <1>2, NowType
<1>4. PICK i \in DOMAIN buf :
         /\ s = [from |-> from, at |-> i, entry |-> buf[i], cmd |-> NextCommand(buf[i])]
         /\ IsReady(buf[i]) /\ ~Clashes(buf[i])
  BY Zenon DEF Schedule
<1> HIDE DEF from, buf
<1>5. i \in 1..Len(buf) /\ buf[i] \in Entries
  BY <1>3
<1> QED
  BY <1>1, <1>2, <1>4, <1>5

LEMMA CloseRowType ==
    ASSUME NEW addr \in BankAddrs
    PROVE  CloseRow(addr) \in Entries
BY DEF CloseRow, Entries, EntriesOf

(* The row policy only adds behind what the priority buffer holds.         *)
LEMMA AfterFacts ==
    ASSUME ControllerTypeOK, NEW s \in Schedule
    PROVE  /\ BuffersAfter(s) \in [Buffers -> Seq(Entries)]
           /\ s.at \in 1..Len(BuffersAfter(s)[s.from])
           /\ BuffersAfter(s)[s.from][s.at] = s.entry
           /\ \A b \in {"active", "read", "write"} : BuffersAfter(s)[b] = buffer[b]
<1>1. /\ BuffersNow \in [Buffers -> Seq(Entries)]
      /\ \A b \in {"active", "read", "write"} : BuffersNow[b] = buffer[b]
  BY NowType
<1>2. /\ s.from \in Buffers /\ s.entry \in Entries /\ s.cmd = NextCommand(s.entry)
      /\ s.at \in 1..Len(BuffersNow[s.from]) /\ BuffersNow[s.from][s.at] = s.entry
  BY ScheduleFacts
<1>3. CASE ~(CapReached(s) /\ HasRoom(Priority, PriorityMax))
  <2>1. BuffersAfter(s) = BuffersNow
    BY <1>3 DEF BuffersAfter
  <2> QED
    BY <1>1, <1>2, <2>1
<1>4. CASE CapReached(s) /\ HasRoom(Priority, PriorityMax)
  <2> DEFINE new == CloseRow(s.entry.addr)
             old == BuffersNow["priority"]
  <2>1. new \in Entries
    <3>1. s.entry.final \in {"RD", "WR"}
      BY <1>2, <1>4, EntryCommand DEF CapReached
    <3> QED
      BY <1>2, <3>1, EntryCommand, CloseRowType
  <2>2. BuffersAfter(s) = [BuffersNow EXCEPT !["priority"] = Append(old, new)]
    BY <1>4 DEF BuffersAfter
  <2>3. old \in Seq(Entries) /\ "priority" \in Buffers
    BY <1>1 DEF Buffers
  <2> HIDE DEF new, Entries
  <2>4. /\ Append(old, new) \in Seq(Entries) /\ Len(Append(old, new)) = Len(old) + 1
        /\ \A k \in 1..Len(old) : Append(old, new)[k] = old[k]
    BY <2>1, <2>3
  <2>5. BuffersAfter(s) \in [Buffers -> Seq(Entries)]
    BY <1>1, <2>2, <2>4
  <2>6. /\ BuffersAfter(s)["priority"] = Append(old, new)
        /\ \A b \in Buffers \ {"priority"} : BuffersAfter(s)[b] = BuffersNow[b]
    BY <1>1, <2>2, <2>3
  <2>7. \A b \in {"active", "read", "write"} : BuffersAfter(s)[b] = buffer[b]
    BY <1>1, <2>6 DEF Buffers
  <2>8. CASE s.from = "priority"
    <3>1. Len(old) \in Nat /\ s.at \in 1..Len(old) /\ old[s.at] = s.entry
      BY <1>2, <2>3, <2>8
    <3> HIDE DEF old
    <3>2. s.at \in 1..(Len(old) + 1)
      BY <3>1
    <3> QED
      BY <2>4, <2>5, <2>6, <2>7, <2>8, <3>1, <3>2
  <2>9. CASE s.from # "priority"
    BY <1>2, <2>5, <2>6, <2>7, <2>9
  <2> QED
    BY <2>8, <2>9
<1> QED
  BY <1>3, <1>4

-----------------------------------------------------------------------------
(* Types.                                                                  *)

(* What is accepted stays accepted, so an entry stays an entry.            *)
LEMMA EntriesGrow ==
    ASSUME accepted \subseteq accepted'
    PROVE  /\ Entries \subseteq Entries'
           /\ \A f \in [Buffers -> Seq(Entries)] : f \in [Buffers -> Seq(Entries')]
<1>1. Entries \subseteq Entries'
  BY DEF Entries, EntriesOf
<1> HIDE DEF Entries
<1>2. \A t \in Seq(Entries) : t \in Seq(Entries')
  BY <1>1, SeqGrow
<1> QED
  BY <1>1, <1>2

LEMMA PendingAged ==
    ASSUME ControllerTypeOK
    PROVE  Aged \in Seq([id : accepted, left : Nat]) /\ Len(Aged) = Len(pending)
<1> DEFINE P == [id : accepted, left : Nat]
<1>1. pending \in Seq(P)
  BY DEF ControllerTypeOK
<1>2. Aged \in Seq(P) /\ Len(Aged) = Len(pending)
  <2>1. Len(pending) \in Nat /\ DOMAIN pending = 1..Len(pending)
    BY <1>1
  <2>2. ASSUME NEW i \in 1..Len(pending)
        PROVE  [pending[i] EXCEPT !.left = IF @ = 0 THEN 0 ELSE @ - 1] \in P
    <3> DEFINE p == pending[i]
    <3>1. p \in P
      <4> HIDE DEF P
      <4> QED
        BY <1>1
    <3> HIDE DEF p
    <3>2. p.left \in Nat /\ p = [id |-> p.id, left |-> p.left] /\ p.id \in accepted
      BY <3>1
    <3>3. [p EXCEPT !.left = IF @ = 0 THEN 0 ELSE @ - 1]
             = [id |-> p.id, left |-> IF p.left = 0 THEN 0 ELSE p.left - 1]
      BY <3>1
    <3>4. (IF p.left = 0 THEN 0 ELSE p.left - 1) \in Nat
      BY <3>2
    <3> QED
      BY <3>2, <3>3, <3>4 DEF p
  <2> HIDE DEF P
  <2> QED
    BY <2>1, <2>2 DEF Aged
<1> QED
  BY <1>2

LEMMA PendingFacts ==
    ASSUME ControllerTypeOK
    PROVE  /\ StillPending \in Seq([id : accepted, left : Nat])
           /\ Departed \subseteq accepted
<1> DEFINE P == [id : accepted, left : Nat]
<1>1. pending \in Seq(P)
  BY DEF ControllerTypeOK
<1>2. Aged \in Seq(P) /\ Len(Aged) = Len(pending)
  BY PendingAged
<1>3. StillPending \in Seq(P)
  <2>1. Departs => Aged # <<>>
    BY <1>1, <1>2 DEF Departs
  <2> HIDE DEF P
  <2> QED
    BY <1>2, <2>1 DEF StillPending
<1>4. Departed \subseteq accepted
  <2>1. pending # <<>> => pending[1] \in P
    <3> HIDE DEF P
    <3> QED
      BY <1>1
  <2> QED
    BY <2>1 DEF Departed, Departs
<1> QED
  BY <1>3, <1>4

(* A command the controller issues is one a controller may ask for.        *)
LEMMA ServeDevice ==
    ASSUME ControllerTypeOK, DdrInv, NEW s \in Schedule, Serve(s)
    PROVE  /\ s.cmd \in Commands /\ Allowed(Ch, s.cmd, s.entry.addr)
           /\ CheckReady(Ch, s.cmd, s.entry.addr) /\ IssueCommand(Ch, s.cmd, s.entry.addr)
           /\ DdrNext /\ DdrInv'
<1> DEFINE a == <<s.entry.final, s.entry.addr>>
<1>1. s.entry \in Entries /\ s.cmd = NextCommand(s.entry) /\ IsReady(s.entry)
  BY ScheduleFacts
<1>2. a \in Asked /\ s.cmd \in Commands
  BY <1>1, EntryCommand
<1>3. s.cmd = Preq(Ch, a[1], a[2]) /\ a[2] = s.entry.addr /\ Ch \in Channels
  BY <1>1, ControllerAssumption DEF NextCommand
<1>4. CheckReady(Ch, s.cmd, s.entry.addr) /\ IssueCommand(Ch, s.cmd, s.entry.addr)
  BY <1>1 DEF IsReady, Serve
<1> HIDE DEF a
<1>5. Allowed(Ch, s.cmd, s.entry.addr)
  BY <1>2, <1>3, PreqAllowed
<1>6. DdrNext
  BY <1>2, <1>3, <1>4 DEF DdrNext
<1>7. DdrInv'
  BY <1>2, <1>3, <1>4, <1>5, IssueDdrInv
<1> QED
  BY <1>2, <1>4, <1>5, <1>6, <1>7

LEMMA HousekeepingType ==
    ASSUME ControllerTypeOK, Housekeeping
    PROVE  /\ turn' \in {"dram", "controller"} /\ timer' \in 1..nREFI /\ now' \in Nat
           /\ writeMode' \in BOOLEAN
           /\ accepted' = accepted /\ forwarded' = forwarded
<1>1. timer' \in 1..nREFI
  <2>1. timer \in 1..nREFI /\ timer' = IF timer = 1 THEN nREFI ELSE timer - 1
    BY Zenon DEF ControllerTypeOK, Housekeeping
  <2>2. nREFI \in Nat
    BY ControllerAssumption
  <2> QED
    BY <2>1, <2>2
<1>2. now' \in Nat
  BY DEF ControllerTypeOK, Housekeeping
<1>3. writeMode' \in BOOLEAN
  BY DEF ControllerTypeOK, Housekeeping, WriteModeAfter
<1> QED
  BY <1>1, <1>2, <1>3 DEF Housekeeping

LEMMA ServeType ==
    ASSUME ControllerTypeOK, NEW s \in Schedule, Serve(s)
    PROVE  /\ accesses' \in [Banks -> Nat]
           /\ counts' \in [{"hit", "miss", "conflict"} -> Nat]
<1>1. accesses' \in [Banks -> Nat]
  BY DEF ControllerTypeOK, Serve, AccessesAfter
<1>2. counts' \in [{"hit", "miss", "conflict"} -> Nat]
  <2> DEFINE o == Outcome(s.entry.addr)
  <2>1. o \in {"hit", "miss", "conflict"}
    BY DEF Outcome
  <2>2. counts' = counts \/ counts' = [counts EXCEPT ![o] = @ + 1]
    BY DEF Serve, CountsAfter
  <2> HIDE DEF o
  <2> QED
    BY <2>1, <2>2 DEF ControllerTypeOK
<1> QED
  BY <1>1, <1>2

LEMMA SendType ==
    ASSUME ControllerTypeOK, NEW r \in Requests, NEW addr \in AddrsOf[r],
           SendForwarded(r, addr) \/ SendEnqueued(r, addr)
    PROVE  ControllerTypeOK'
<1>1. accepted \subseteq accepted' /\ accepted' \subseteq Requests /\ r \in accepted'
  BY DEF SendForwarded, SendEnqueued, ControllerTypeOK
<1>2. DdrTypeOK'
  BY DEF SendForwarded, SendEnqueued, ControllerTypeOK, ddrVars, DdrTypeOK
<1>3. buffer' \in [Buffers -> Seq(Entries')]
  <2>1. CASE SendForwarded(r, addr)
    BY <1>1, <2>1, EntriesGrow DEF SendForwarded, ControllerTypeOK
  <2>2. CASE SendEnqueued(r, addr)
    <3> DEFINE e == [id |-> r, final |-> FinalOf[r], addr |-> addr,
                     arrive |-> now, counted |-> FALSE]
               b == BufferOf(r)
    <3>1. e \in Entries'
      <4>1. addr \in BankAddrs /\ FinalOf[r] \in {"RD", "WR"} /\ now \in Nat
        BY ControllerAssumption DEF ControllerTypeOK
      <4> QED
        BY <1>1, <4>1 DEF Entries, EntriesOf
    <3>2. buffer \in [Buffers -> Seq(Entries')]
      BY <1>1, EntriesGrow DEF ControllerTypeOK
    <3>3. b \in Buffers
      BY DEF BufferOf, Buffers
    <3>4. buffer' = [buffer EXCEPT ![b] = Append(@, e)]
      BY <2>2 DEF SendEnqueued
    <3> HIDE DEF e, b, Entries
    <3>5. Append(buffer[b], e) \in Seq(Entries')
      BY <3>1, <3>2, <3>3
    <3> QED
      BY <3>2, <3>4, <3>5
  <2> QED
    BY <2>1, <2>2
<1>4. pending' \in Seq([id : accepted', left : Nat])
  <2> DEFINE P == [id : accepted, left : Nat]
             Q == [id : accepted', left : Nat]
  <2>1. P \subseteq Q /\ [id |-> r, left |-> 1] \in Q
    BY <1>1
  <2>2. pending \in Seq(P)
    BY DEF ControllerTypeOK
  <2>3. pending \in Seq(Q)
    <3> HIDE DEF P, Q
    <3> QED
      BY <2>1, <2>2, SeqGrow
  <2>4. pending' = pending \/ pending' = Append(pending, [id |-> r, left |-> 1])
    BY DEF SendForwarded, SendEnqueued
  <2> HIDE DEF P, Q
  <2>5. pending' \in Seq(Q)
    BY <2>1, <2>3, <2>4
  <2> QED
    BY <2>5 DEF Q
<1> QED
  BY <1>1, <1>2, <1>3, <1>4 DEF SendForwarded, SendEnqueued, ControllerTypeOK

LEMMA TickDramType ==
    ASSUME ControllerTypeOK, TickDram
    PROVE  ControllerTypeOK'
BY TickType DEF ControllerTypeOK, TickDram, Entries, EntriesOf

(* The buffers after each of the four ways a tick can end.                 *)
LEMMA RemovedType ==
    ASSUME ControllerTypeOK, NEW s \in Schedule
    PROVE  [BuffersAfter(s) EXCEPT ![s.from] = RemoveAt(@, s.at)] \in [Buffers -> Seq(Entries)]
<1> DEFINE t == BuffersAfter(s)[s.from]
<1>1. s.from \in Buffers /\ BuffersAfter(s) \in [Buffers -> Seq(Entries)] /\ s.at \in 1..Len(t)
  BY AfterFacts, ScheduleFacts
<1> HIDE DEF Entries
<1>2. RemoveAt(t, s.at) \in Seq(Entries)
  <2>1. t \in Seq(Entries)
    BY <1>1
  <2> HIDE DEF t
  <2> QED
    BY <1>1, <2>1, RemoveAtFacts
<1> QED
  BY <1>1, <1>2

LEMMA MarkedType ==
    ASSUME ControllerTypeOK, NEW s \in Schedule
    PROVE  /\ [BuffersAfter(s) EXCEPT ![s.from][s.at].counted = TRUE]
                 \in [Buffers -> Seq(Entries)]
           /\ [s.entry EXCEPT !.counted = TRUE] \in Entries
<1> DEFINE t == BuffersAfter(s)[s.from]
<1>1. /\ s.from \in Buffers /\ BuffersAfter(s) \in [Buffers -> Seq(Entries)]
      /\ s.at \in 1..Len(t) /\ t[s.at] = s.entry
  BY AfterFacts, ScheduleFacts
<1> HIDE DEF Entries
<1>2. /\ [t EXCEPT ![s.at].counted = TRUE] \in Seq(Entries)
      /\ [t[s.at] EXCEPT !.counted = TRUE] \in Entries
  <2>1. t \in Seq(Entries)
    BY <1>1
  <2> HIDE DEF t
  <2> QED
    BY <1>1, <2>1, MarkFacts
<1> QED
  BY <1>1, <1>2

LEMMA OpenedType ==
    ASSUME ControllerTypeOK, NEW s \in Schedule, s.from # "active"
    PROVE  Opened(s) \in [Buffers -> Seq(Entries)]
<1> DEFINE e == [s.entry EXCEPT !.counted = TRUE]
           a == Append(buffer["active"], e)
           t == RemoveAt(BuffersAfter(s)[s.from], s.at)
<1>1. /\ BuffersAfter(s) \in [Buffers -> Seq(Entries)]
      /\ BuffersAfter(s)["active"] = buffer["active"] /\ s.from \in Buffers
  BY AfterFacts, ScheduleFacts
<1>2. e \in Entries /\ [BuffersAfter(s) EXCEPT ![s.from][s.at].counted = TRUE] \in [Buffers -> Seq(Entries)]
  BY MarkedType
<1>3. [BuffersAfter(s) EXCEPT ![s.from] = t] \in [Buffers -> Seq(Entries)]
  BY RemovedType
<1> HIDE DEF Entries
<1>4. "active" \in Buffers /\ a \in Seq(Entries)
  <2>1. buffer["active"] \in Seq(Entries)
    BY DEF ControllerTypeOK, Buffers
  <2> HIDE DEF e
  <2> QED
    BY <1>2, <2>1 DEF Buffers
<1>5. t \in Seq(Entries)
  <2> HIDE DEF t
  <2> QED
    BY <1>1, <1>3
<1>6. [[BuffersAfter(s) EXCEPT !["active"] = Append(@, e)] EXCEPT ![s.from] = RemoveAt(@, s.at)]
        = [[BuffersAfter(s) EXCEPT !["active"] = a] EXCEPT ![s.from] = t]
  BY <1>1
<1>7. [[BuffersAfter(s) EXCEPT !["active"] = a] EXCEPT ![s.from] = t] \in [Buffers -> Seq(Entries)]
  <2> HIDE DEF a, t
  <2> QED
    BY <1>1, <1>4, <1>5
<1> QED
  BY <1>2, <1>6, <1>7 DEF Opened

-----------------------------------------------------------------------------
(* The active requests.                                                    *)

(* A sequence of requests whose rows are open, no two of the same bank.    *)
RowFound(e, st, op) ==
    /\ e.final \in {"RD", "WR"} /\ e.counted
    /\ st[e.addr.path] = "Opened" /\ e.addr.row \in op[e.addr.path]

AllFound(t, st, op) ==
    \A i \in DOMAIN t :
        RowFound(t[i], st, op) /\ \A j \in DOMAIN t \ {i} : t[j].addr.path # t[i].addr.path

LEMMA ActiveFound == ActiveRowOpen <=> AllFound(buffer["active"], state[Ch], open[Ch])
BY DEF ActiveRowOpen, AllFound, RowFound, RowHit

LEMMA FoundRemove ==
    ASSUME NEW S, NEW t \in Seq(S), NEW k \in 1..Len(t), NEW st, NEW op, AllFound(t, st, op)
    PROVE  AllFound(RemoveAt(t, k), st, op)
<1> DEFINE u == RemoveAt(t, k)
           from(i) == IF i < k THEN i ELSE i + 1
<1>1. /\ u \in Seq(S) /\ Len(u) = Len(t) - 1 /\ Len(t) \in Nat
      /\ \A i \in 1..(Len(t) - 1) : u[i] = IF i < k THEN t[i] ELSE t[i + 1]
  <2>1. Len(t) \in Nat
    OBVIOUS
  <2> QED
    BY RemoveAtFacts, <2>1, Zenon
<1> HIDE DEF u
<1>2. \A i \in DOMAIN u : from(i) \in DOMAIN t /\ u[i] = t[from(i)]
  BY <1>1
<1>3. \A i, j \in DOMAIN u : i # j => from(i) # from(j)
  BY <1>1
<1> HIDE DEF from
<1>4. AllFound(u, st, op)
  BY <1>2, <1>3 DEF AllFound
<1> QED
  BY <1>4 DEF u

LEMMA FoundAppend ==
    ASSUME NEW S, NEW t \in Seq(S), NEW e \in S, NEW st, NEW op,
           AllFound(t, st, op), RowFound(e, st, op),
           \A i \in DOMAIN t : t[i].addr.path # e.addr.path
    PROVE  AllFound(Append(t, e), st, op)
<1> DEFINE u == Append(t, e)
<1>1. /\ DOMAIN u = 1..(Len(t) + 1) /\ DOMAIN t = 1..Len(t) /\ Len(t) \in Nat
      /\ \A i \in 1..Len(t) : u[i] = t[i]
      /\ u[Len(t) + 1] = e
  OBVIOUS
<1> HIDE DEF u
<1>2. \A i \in DOMAIN u : i \in DOMAIN t \/ i = Len(t) + 1
  BY <1>1
<1>3. ASSUME NEW i \in DOMAIN u
      PROVE  RowFound(u[i], st, op) /\ \A j \in DOMAIN u \ {i} : u[j].addr.path # u[i].addr.path
  <2>1. CASE i \in DOMAIN t
    BY <1>1, <1>2, <2>1 DEF AllFound
  <2>2. CASE i = Len(t) + 1
    BY <1>1, <1>2, <2>2
  <2> QED
    BY <1>2, <2>1, <2>2
<1> QED
  BY <1>3 DEF AllFound, u

(* The rows that are open for active requests stay open when a command is  *)
(* issued: one that closes rows has been checked against them, and a       *)
(* refresh is only issued when no bank of its rank has a row open.         *)
LEMMA RowsStay ==
    ASSUME ControllerTypeOK, DdrInv, ActiveRowOpen, NEW s \in Schedule, Serve(s)
    PROVE  AllFound(buffer["active"], state'[Ch], open'[Ch])
<1> DEFINE t == buffer["active"]
<1>1. AllFound(t, state[Ch], open[Ch])
  BY ActiveFound
<1>2. /\ s.cmd \in Commands /\ Allowed(Ch, s.cmd, s.entry.addr)
      /\ IssueCommand(Ch, s.cmd, s.entry.addr) /\ DdrTypeOK /\ Ch \in Channels
  BY ServeDevice, ControllerAssumption DEF ControllerTypeOK
<1>3. ~Clashes(s.entry) /\ s.cmd = NextCommand(s.entry)
  BY ScheduleFacts
<1>4. ASSUME NEW i \in DOMAIN t
      PROVE  RowFound(t[i], state'[Ch], open'[Ch])
  <2> DEFINE e == t[i]
             b == t[i].addr.path
             path == s.entry.addr.path
  <2>1. RowFound(e, state[Ch], open[Ch])
    BY <1>1 DEF AllFound
  <2>2. e \in Entries
    <3>1. t \in Seq(Entries)
      BY DEF ControllerTypeOK, Buffers
    <3> HIDE DEF t, Entries
    <3> QED
      BY <3>1
  <2>3. b \in Banks
    BY <2>1, <2>2, EntryCommand DEF RowFound, BankAddrs
  <2>4. s.cmd \in {"PRE", "PREA"} => ~SameBank(b, path)
    BY <1>3 DEF Clashes, Closes
  <2> HIDE DEF t
  <2>5. CASE ~Reaches(s.cmd, path, b)
    BY <1>2, <2>1, <2>3, <2>5, BankAfter DEF RowFound
  <2>6. CASE Reaches(s.cmd, path, b)
    <3>1. /\ state'[Ch][b] = StateAfter(state[Ch][b], s.cmd)
          /\ open'[Ch][b] = OpenAfter(open[Ch][b], s.cmd, s.entry.addr.row)
      BY <1>2, <2>3, <2>6, BankAfter
    <3>2. s.cmd # "PRE"
      <4>1. SUFFICES ASSUME s.cmd = "PRE" PROVE FALSE
        OBVIOUS
      <4>2. path \in Banks
        BY <4>1, <1>2 DEF Allowed, BankAddrs
      <4>3. b = path
        BY <4>1, <4>2, <2>3, <2>6, BankPaths DEF Reaches
      <4> QED
        BY <4>1, <4>3, <2>4 DEF SameBank
    <3>3. s.cmd \in {"PREA", "REFab"} => path = <<b[1], Each, Each>> /\ b[1] \in Pchs
      <4>1. SUFFICES ASSUME s.cmd \in {"PREA", "REFab"}
                     PROVE  path = <<b[1], Each, Each>> /\ b[1] \in Pchs
        OBVIOUS
      <4>2. PICK rank \in Pchs : path = <<rank, Each, Each>>
        BY <4>1, <1>2 DEF Allowed, RankAddrs
      <4>3. rank = b[1]
        BY <4>1, <4>2, <2>6, TreeAssumption DEF Reaches, Each
      <4> QED
        BY <4>2, <4>3
    <3>4. s.cmd # "PREA"
      BY <3>3, <2>4 DEF SameBank
    <3>5. s.cmd # "REFab"
      <4>1. state[Ch][b] = "Opened"
        BY <2>1 DEF RowFound
      <4>2. s.cmd = "REFab" => b \in RankBanks(path[1])
        BY <3>3, <2>3 DEF RankBanks
      <4> QED
        BY <4>1, <4>2, <1>2 DEF Allowed
    <3> QED
      BY <2>1, <3>1, <3>2, <3>4, <3>5 DEF RowFound, StateAfter, OpenAfter
  <2> QED
    BY <2>5, <2>6
<1> QED
  BY <1>1, <1>4 DEF AllFound

(* An active request asks for its access: its row is open.                 *)
LEMMA ActiveFinal ==
    ASSUME ControllerTypeOK, ActiveRowOpen, NEW s \in Schedule, s.from = "active"
    PROVE  s.cmd = s.entry.final
<1>1. /\ s.entry \in Entries /\ s.cmd = NextCommand(s.entry)
      /\ s.at \in 1..Len(BuffersNow["active"]) /\ BuffersNow["active"][s.at] = s.entry
  BY ScheduleFacts
<1>2. BuffersNow["active"] = buffer["active"] /\ buffer["active"] \in Seq(Entries)
  BY NowType DEF ControllerTypeOK, Buffers
<1>3. s.at \in DOMAIN buffer["active"] /\ buffer["active"][s.at] = s.entry
  <2> HIDE DEF Entries
  <2> QED
    BY <1>1, <1>2
<1>4. RowFound(s.entry, state[Ch], open[Ch])
  BY <1>3, ActiveFound DEF AllFound
<1> QED
  BY <1>1, <1>4, EntryCommand DEF RowFound, RowOpenPreq

(* A request that gets its row opened finds its bank without an active     *)
(* request.                                                                *)
LEMMA OpenedFound ==
    ASSUME ControllerTypeOK, DdrInv, ActiveRowOpen, NEW s \in Schedule, Serve(s), s.cmd = "ACT"
    PROVE  /\ RowFound([s.entry EXCEPT !.counted = TRUE], state'[Ch], open'[Ch])
           /\ \A i \in DOMAIN buffer["active"] : buffer["active"][i].addr.path # s.entry.addr.path
<1> DEFINE e == s.entry
           b == s.entry.addr.path
<1>1. /\ s.cmd \in Commands /\ Allowed(Ch, s.cmd, e.addr)
      /\ IssueCommand(Ch, s.cmd, e.addr) /\ DdrTypeOK /\ Ch \in Channels
  BY ServeDevice, ControllerAssumption DEF ControllerTypeOK
<1>2. e \in Entries /\ s.cmd = NextCommand(e)
  BY ScheduleFacts
<1>3. e.final \in {"RD", "WR"} /\ e.addr \in BankAddrs
  BY <1>2, EntryCommand
<1>4. b \in Banks /\ state[Ch][b] # "Opened"
  BY <1>1, <1>3 DEF Allowed, BankAddrs, RankAddrs
<1>5. state'[Ch][b] = "Opened" /\ e.addr.row \in open'[Ch][b]
  <2>1. Reaches(s.cmd, b, b)
    BY DEF Reaches, OnPath
  <2>2. /\ state'[Ch][b] = StateAfter(state[Ch][b], s.cmd)
        /\ open'[Ch][b] = OpenAfter(open[Ch][b], s.cmd, e.addr.row)
    BY <1>1, <1>4, <2>1, BankAfter
  <2> QED
    BY <2>2 DEF StateAfter, OpenAfter
<1>6. RowFound([e EXCEPT !.counted = TRUE], state'[Ch], open'[Ch])
  <2>1. /\ [e EXCEPT !.counted = TRUE].final = e.final
        /\ [e EXCEPT !.counted = TRUE].addr = e.addr
        /\ [e EXCEPT !.counted = TRUE].counted
    BY <1>2 DEF Entries, EntriesOf
  <2> QED
    BY <1>3, <1>5, <2>1 DEF RowFound
<1>7. \A i \in DOMAIN buffer["active"] : state[Ch][buffer["active"][i].addr.path] = "Opened"
  BY ActiveFound DEF AllFound, RowFound
<1> QED
  BY <1>4, <1>6, <1>7

-----------------------------------------------------------------------------
(* The steps.                                                              *)

(* The inductive invariant: the types, the device's own invariant, which   *)
(* says what a refresh and its end can meet, and the active rows.          *)
CtlInv == ControllerTypeOK /\ DdrInv /\ ActiveRowOpen

LEMMA InitCtlInv == Init => CtlInv
<1> SUFFICES ASSUME Init PROVE CtlInv
  OBVIOUS
<1>1. DdrInv
  BY InitDdrInv DEF Init
<1>2. buffer \in [Buffers -> Seq(Entries)] /\ buffer["active"] = <<>>
  <2> HIDE DEF Entries
  <2> QED
    BY DEF Init, Buffers
<1>3. ControllerTypeOK
  <2>1. pending \in Seq([id : accepted, left : Nat]) /\ DdrTypeOK
    <3> DEFINE P == [id : accepted, left : Nat]
    <3>1. <<>> \in Seq(P)
      <4> HIDE DEF P
      <4> QED
        OBVIOUS
    <3>2. pending = <<>>
      BY DEF Init
    <3>3. DdrTypeOK
      BY <1>1 DEF DdrInv
    <3> HIDE DEF P
    <3>4. pending \in Seq(P)
      BY <3>1, <3>2
    <3> QED
      BY <3>3, <3>4 DEF P
  <2>2. timer \in 1..nREFI /\ turn \in {"dram", "controller"} /\ now \in Nat /\ writeMode \in BOOLEAN
    <3>1. nREFI \in Nat /\ nREFI > 0
      BY ControllerAssumption
    <3>2. timer \in 1..nREFI
      BY <3>1 DEF Init
    <3> QED
      BY <3>2 DEF Init
  <2>3. accesses \in [Banks -> Nat] /\ counts \in [{"hit", "miss", "conflict"} -> Nat]
    BY DEF Init
  <2>4. accepted \subseteq Requests /\ forwarded \subseteq accepted /\ done \subseteq accepted
    BY DEF Init
  <2> HIDE DEF Entries
  <2> QED
    BY <1>2, <2>1, <2>2, <2>3, <2>4 DEF ControllerTypeOK
<1>4. ActiveRowOpen
  BY <1>2 DEF ActiveRowOpen
<1> QED
  BY <1>1, <1>3, <1>4 DEF CtlInv

LEMMA SendInv ==
    ASSUME CtlInv, NEW r \in Requests, NEW addr \in AddrsOf[r],
           SendForwarded(r, addr) \/ SendEnqueued(r, addr)
    PROVE  CtlInv' /\ UNCHANGED ddrVars
<1>1. ControllerTypeOK'
  BY SendType DEF CtlInv
<1>2. UNCHANGED ddrVars
  BY DEF SendForwarded, SendEnqueued
<1>3. DdrInv'
  BY <1>2, StepDdrInv DEF CtlInv
<1>4. buffer'["active"] = buffer["active"]
  BY DEF SendForwarded, SendEnqueued, BufferOf, CtlInv, ControllerTypeOK, Buffers
<1>5. ActiveRowOpen'
  BY <1>2, <1>4 DEF ActiveRowOpen, RowHit, ddrVars, CtlInv
<1> QED
  BY <1>1, <1>2, <1>3, <1>5 DEF CtlInv

(* The end of a refresh finds no row of its rank open.                     *)
LEMMA TickDramInv ==
    ASSUME CtlInv, TickDram
    PROVE  CtlInv' /\ DdrNext
<1>1. ControllerTypeOK' /\ DdrInv' /\ DdrNext
  BY TickDramType, TickDdrInv DEF CtlInv, TickDram, DdrNext
<1>2. ASSUME NEW i \in DOMAIN buffer["active"]
      PROVE  RowHit(Ch, buffer["active"][i].addr)'
  <2> DEFINE e == buffer["active"][i]
             b == buffer["active"][i].addr.path
  <2>1. RowFound(e, state[Ch], open[Ch])
    BY ActiveFound DEF AllFound, CtlInv
  <2>2. b \in Banks /\ Ch \in Channels
    <3>1. e \in Entries
      <4> HIDE DEF Entries
      <4> QED
        BY DEF CtlInv, ControllerTypeOK, Buffers
    <3> QED
      BY <2>1, <3>1, EntryCommand, ControllerAssumption DEF RowFound, BankAddrs
  <2>3. ~EndsNow(Ch, b[1])
    <3>1. RefreshUndisturbed
      BY Zenon DEF CtlInv, DdrInv
    <3>2. state[Ch][b] = "Opened"
      BY <2>1, Zenon DEF RowFound
    <3> HIDE DEF e, b
    <3> QED
      BY <2>2, <3>1, <3>2 DEF RefreshUndisturbed, EndsNow, RankBanks
  <2>4. state'[Ch][b] = state[Ch][b] /\ open' = open /\ buffer' = buffer
    BY <2>2, <2>3 DEF TickDram, DdrTick
  <2> QED
    BY <2>1, <2>4 DEF RowHit, RowFound
<1>3. ActiveRowOpen'
  BY <1>2 DEF ActiveRowOpen, CtlInv, TickDram
<1> QED
  BY <1>1, <1>3 DEF CtlInv

(* The type of the state after a tick, from the type of the buffers.       *)
LEMMA TickTypes ==
    ASSUME ControllerTypeOK, DdrTypeOK', Housekeeping, buffer' \in [Buffers -> Seq(Entries)],
           pending' \in Seq([id : accepted, left : Nat]), accesses' \in [Banks -> Nat],
           counts' \in [{"hit", "miss", "conflict"} -> Nat], done' \subseteq accepted
    PROVE  ControllerTypeOK'
<1>1. accepted' = accepted /\ Entries' = Entries
  BY HousekeepingType DEF Entries
<1> HIDE DEF Entries
<1> QED
  BY <1>1, HousekeepingType DEF ControllerTypeOK

LEMMA StallInv ==
    ASSUME CtlInv, TickStall
    PROVE  CtlInv' /\ UNCHANGED ddrVars
<1>1. UNCHANGED ddrVars /\ DdrInv'
  BY StepDdrInv DEF TickStall, CtlInv
<1>2. BuffersNow \in [Buffers -> Seq(Entries)] /\ BuffersNow["active"] = buffer["active"]
  BY NowType DEF CtlInv
<1>3. ControllerTypeOK'
  <2>1. /\ pending' \in Seq([id : accepted, left : Nat]) /\ done' \subseteq accepted
        /\ accesses' \in [Banks -> Nat] /\ counts' \in [{"hit", "miss", "conflict"} -> Nat]
    BY PendingFacts DEF TickStall, CtlInv, ControllerTypeOK
  <2>2. Housekeeping /\ buffer' = BuffersNow
    BY DEF TickStall
  <2> QED
    BY <1>1, <1>2, <2>1, <2>2, TickTypes DEF CtlInv, DdrInv
<1>4. ActiveRowOpen'
  BY <1>1, <1>2 DEF TickStall, ActiveRowOpen, RowHit, ddrVars, CtlInv
<1> QED
  BY <1>1, <1>3, <1>4 DEF CtlInv

LEMMA ServeInv ==
    ASSUME CtlInv, NEW s \in Schedule, TickFinish(s) \/ TickClose(s) \/ TickOpen(s)
    PROVE  CtlInv' /\ DdrNext
<1>1. Serve(s) /\ Housekeeping /\ ControllerTypeOK /\ DdrInv /\ ActiveRowOpen
  BY DEF TickFinish, TickClose, TickOpen, Serve, CtlInv
<1>2. DdrInv' /\ DdrNext
  BY <1>1, ServeDevice
<1>3. /\ s.from \in Buffers /\ s.entry \in Entries
      /\ s.cmd = NextCommand(s.entry)
  BY <1>1, ScheduleFacts
<1>4. TickClose(s) \/ TickOpen(s) => s.from # "active"
  BY <1>1, ActiveFinal DEF TickClose, TickOpen
<1>5. buffer' \in [Buffers -> Seq(Entries)]
  <2>1. CASE TickFinish(s)
    BY <1>1, <2>1, RemovedType DEF TickFinish
  <2>2. CASE TickClose(s)
    BY <1>1, <2>2, MarkedType DEF TickClose
  <2>3. CASE TickOpen(s)
    BY <1>1, <1>4, <2>3, OpenedType DEF TickOpen
  <2> QED
    BY <2>1, <2>2, <2>3
<1>6. s.cmd \in {"RD", "WR"} => s.entry.final \in {"RD", "WR"} /\ s.entry.id \in accepted
  BY <1>3, EntryCommand
<1>7. pending' \in Seq([id : accepted, left : Nat]) /\ done' \subseteq accepted
  <2> DEFINE P == [id : accepted, left : Nat]
             x == [id |-> s.entry.id, left |-> ReadLatency]
  <2>1. StillPending \in Seq(P) /\ Departed \subseteq accepted /\ done \subseteq accepted
    BY <1>1, PendingFacts DEF ControllerTypeOK
  <2>2. s.cmd = "RD" => x \in P
    BY <1>6, ControllerAssumption
  <2>3. pending' = StillPending \/ (s.cmd = "RD" /\ pending' = Append(StillPending, x))
    BY DEF TickFinish, TickClose, TickOpen
  <2>4. done' \subseteq accepted
    BY <1>6, <2>1 DEF TickFinish, TickClose, TickOpen
  <2> HIDE DEF P, x
  <2>5. pending' \in Seq(P)
    BY <2>1, <2>2, <2>3
  <2> QED
    BY <2>4, <2>5 DEF P
<1>8. ControllerTypeOK'
  BY <1>1, <1>2, <1>5, <1>7, ServeType, TickTypes DEF DdrInv
<1>9. AllFound(buffer["active"], state'[Ch], open'[Ch])
  BY <1>1, RowsStay
<1>10. AllFound(buffer'["active"], state'[Ch], open'[Ch])
  <2> DEFINE t == buffer["active"]
  <2>1. /\ BuffersAfter(s) \in [Buffers -> Seq(Entries)] /\ BuffersAfter(s)["active"] = t
        /\ s.at \in 1..Len(BuffersAfter(s)[s.from]) /\ t \in Seq(Entries) /\ "active" \in Buffers
    BY <1>1, AfterFacts DEF ControllerTypeOK, Buffers
  <2> HIDE DEF Entries, t
  <2>2. CASE buffer'["active"] = t
    BY <1>9, <2>2 DEF t
  <2>3. CASE TickFinish(s)
    <3>1. buffer' = [BuffersAfter(s) EXCEPT ![s.from] = RemoveAt(@, s.at)]
      BY <2>3 DEF TickFinish
    <3>2. CASE s.from = "active"
      <4>1. buffer'["active"] = RemoveAt(t, s.at) /\ s.at \in 1..Len(t)
        BY <2>1, <3>1, <3>2
      <4>2. AllFound(t, state'[Ch], open'[Ch])
        BY <1>9 DEF t
      <4> QED
        BY <2>1, <4>1, <4>2, FoundRemove
    <3>3. CASE s.from # "active"
      BY <2>1, <2>2, <3>1, <3>3
    <3> QED
      BY <3>2, <3>3
  <2>4. CASE TickClose(s)
    BY <1>4, <2>1, <2>2, <2>4 DEF TickClose
  <2>5. CASE TickOpen(s)
    <3> DEFINE e == [s.entry EXCEPT !.counted = TRUE]
    <3>1. buffer' = Opened(s) /\ s.cmd = "ACT"
      BY <2>5 DEF TickOpen
    <3>2. buffer'["active"] = t \/ buffer'["active"] = Append(t, e)
      BY <1>4, <2>1, <2>5, <3>1 DEF Opened
    <3>3. CASE buffer'["active"] = Append(t, e)
      <4>1. RowFound(e, state'[Ch], open'[Ch])
        BY <1>1, <3>1, OpenedFound
      <4>2. \A i \in DOMAIN t : t[i].addr.path # e.addr.path
        <5>1. e.addr = s.entry.addr
          BY <1>3 DEF Entries, EntriesOf
        <5> QED
          BY <1>1, <3>1, <5>1, OpenedFound DEF t
      <4>3. e \in Entries
        BY <1>1, MarkedType
      <4>4. AllFound(t, state'[Ch], open'[Ch])
        BY <1>9 DEF t
      <4> HIDE DEF e
      <4> QED
        BY <2>1, <3>3, <4>1, <4>2, <4>3, <4>4, FoundAppend
    <3> QED
      BY <2>2, <3>2, <3>3
  <2> QED
    BY <2>3, <2>4, <2>5
<1>11. ActiveRowOpen'
  BY <1>10 DEF ActiveRowOpen, AllFound, RowFound, RowHit
<1> QED
  BY <1>2, <1>8, <1>11 DEF CtlInv

(* Every step keeps the invariant and is a step of the device or leaves    *)
(* the device alone.                                                       *)
LEMMA StepCtlInv == CtlInv /\ [Next]_vars => CtlInv' /\ [DdrNext]_ddrVars
<1> SUFFICES ASSUME CtlInv, [Next]_vars PROVE CtlInv' /\ [DdrNext]_ddrVars
  OBVIOUS
<1>1. CASE Send
  BY <1>1, SendInv DEF Send
<1>2. CASE TickDram
  BY <1>2, TickDramInv
<1>3. CASE TickController
  BY <1>3, StallInv, ServeInv DEF TickController
<1>4. CASE UNCHANGED vars
  <2>1. UNCHANGED ddrVars /\ DdrInv'
    BY <1>4, StepDdrInv DEF vars, CtlInv
  <2>2. ControllerTypeOK'
    BY <1>4, <2>1 DEF vars, controllerVars, CtlInv, DdrInv, ControllerTypeOK, Entries
  <2>3. ActiveRowOpen'
    BY <1>4 DEF vars, ddrVars, controllerVars, CtlInv, ActiveRowOpen, RowHit
  <2> QED
    BY <2>1, <2>2, <2>3 DEF CtlInv
<1> QED
  BY <1>1, <1>2, <1>3, <1>4 DEF Next

(* The variables keep their types: no buffer, pending read, counter or     *)
(* timer ever holds anything else, whatever arrives.                       *)
THEOREM ControllerTypeCorrect == Spec => []ControllerTypeOK
<1>1. CtlInv => ControllerTypeOK
  BY DEF CtlInv
<1> QED
  BY InitCtlInv, StepCtlInv, <1>1, PTL DEF Spec

(* The controller asks the device only for what the device may be asked    *)
(* for: every step is a step of the device under any controller that       *)
(* checks the timing, or leaves the device alone.                          *)
THEOREM ControllerDrivesDevice == Spec => DdrSpec
<1>1. Init => DdrInit
  BY DEF Init
<1> QED
  BY InitCtlInv, StepCtlInv, <1>1, PTL DEF Spec, DdrSpec

(* So no bank of its channel ever has two rows open or is marked wrongly,  *)
(* and no refresh is disturbed.                                            *)
THEOREM ControllerRefreshSafe == Spec => [](OneRowOpen /\ RefreshUndisturbed)
BY ControllerDrivesDevice, RefreshSafe, PTL

(* Every active request finds its row open until its access is issued,     *)
(* and no two active requests are for the same bank.                       *)
THEOREM ActiveRowsStayOpen == Spec => []ActiveRowOpen
<1>1. CtlInv => ActiveRowOpen
  BY DEF CtlInv
<1> QED
  BY InitCtlInv, StepCtlInv, <1>1, PTL DEF Spec
-----------------------------------------------------------------------------
(* Where the requests are.                                                 *)

(* The requests in the buffers, those of them that have been counted, and  *)
(* the reads on their way back.                                            *)
Held(buf) == {r \in Requests : \E b \in Buffers : \E i \in DOMAIN buf[b] : buf[b][i].id = r}

CountedIn(buf) ==
    {r \in Requests : \E b \in Buffers : \E i \in DOMAIN buf[b] :
                          buf[b][i].id = r /\ buf[b][i].counted}

IdsOf(t) == {t[i].id : i \in DOMAIN t}

(* No request has two slots.                                               *)
HeldOnce(buf) ==
    \A b, c \in Buffers : \A i \in DOMAIN buf[b], j \in DOMAIN buf[c] :
        buf[b][i].id \in Requests /\ buf[b][i].id = buf[c][j].id => b = c /\ i = j

IdsOnce(t) == \A i, j \in DOMAIN t : t[i].id = t[j].id => i = j

(* Refreshes and close-row requests added to a buffer.                     *)
LEMMA ExtendHeld ==
    ASSUME NEW buf, NEW new,
           \A b \in Buffers : \A i \in DOMAIN buf[b] : i \in DOMAIN new[b] /\ new[b][i] = buf[b][i],
           \A b \in Buffers : \A i \in DOMAIN new[b] :
               i \in DOMAIN buf[b] \/ new[b][i].id \notin Requests
    PROVE  /\ Held(new) = Held(buf) /\ CountedIn(new) = CountedIn(buf)
           /\ HeldOnce(buf) => HeldOnce(new)
<1>1. \A b \in Buffers : \A i \in DOMAIN new[b] :
         new[b][i].id \in Requests => i \in DOMAIN buf[b] /\ new[b][i] = buf[b][i]
  OBVIOUS
<1>2. Held(new) = Held(buf) /\ CountedIn(new) = CountedIn(buf)
  BY <1>1 DEF Held, CountedIn
<1>3. HeldOnce(buf) => HeldOnce(new)
  BY <1>1 DEF HeldOnce
<1> QED
  BY <1>2, <1>3

(* A request put behind the others of a buffer.                            *)
LEMMA AppendHeld ==
    ASSUME NEW buf, NEW new, NEW b \in Buffers, NEW e, NEW last, HeldOnce(buf),
           e.id \in Requests \ Held(buf),
           \A c \in Buffers : \A i \in DOMAIN buf[c] : i \in DOMAIN new[c] /\ new[c][i] = buf[c][i],
           last \in DOMAIN new[b], new[b][last] = e,
           \A c \in Buffers : \A i \in DOMAIN new[c] : i \in DOMAIN buf[c] \/ (c = b /\ i = last)
    PROVE  /\ HeldOnce(new) /\ Held(new) = Held(buf) \cup {e.id}
           /\ CountedIn(new) = CountedIn(buf) \cup (IF e.counted THEN {e.id} ELSE {})
<1>1. Held(new) = Held(buf) \cup {e.id}
  BY DEF Held
<1>2. CountedIn(new) = CountedIn(buf) \cup (IF e.counted THEN {e.id} ELSE {})
  BY DEF CountedIn
<1>3. \A c \in Buffers : \A i \in DOMAIN buf[c] : buf[c][i].id # e.id
  BY DEF Held
<1>4. HeldOnce(new)
  BY <1>3 DEF HeldOnce
<1> QED
  BY <1>1, <1>2, <1>4

(* The same of the reads on their way back: the oldest departs, and one is *)
(* put behind the others.                                                  *)
LEMMA AppendIds ==
    ASSUME NEW P, NEW t \in Seq(P), NEW p \in P, IdsOnce(t), p.id \notin IdsOf(t)
    PROVE  IdsOnce(Append(t, p)) /\ IdsOf(Append(t, p)) = IdsOf(t) \cup {p.id}
<1> DEFINE u == Append(t, p)
           last == Len(t) + 1
<1>1. /\ \A i \in DOMAIN t : i \in DOMAIN u /\ u[i] = t[i]
      /\ last \in DOMAIN u /\ u[last] = p
      /\ \A i \in DOMAIN u : i \in DOMAIN t \/ i = last
  OBVIOUS
<1> HIDE DEF u, last
<1>2. IdsOf(u) = IdsOf(t) \cup {p.id}
  BY <1>1 DEF IdsOf
<1>3. \A i \in DOMAIN t : t[i].id # p.id
  BY DEF IdsOf
<1>4. IdsOnce(u)
  BY <1>1, <1>3 DEF IdsOnce
<1> QED
  BY <1>2, <1>4 DEF u

LEMMA DepartIds ==
    ASSUME ControllerTypeOK, IdsOnce(pending)
    PROVE  /\ IdsOnce(StillPending) /\ IdsOf(StillPending) = IdsOf(pending) \ Departed
           /\ Departed \subseteq IdsOf(pending)
<1> DEFINE P == [id : accepted, left : Nat]
<1>1. pending \in Seq(P) /\ DOMAIN pending = 1..Len(pending) /\ Len(pending) \in Nat
  BY DEF ControllerTypeOK
<1>2. /\ DOMAIN Aged = 1..Len(pending)
      /\ \A i \in 1..Len(pending) : Aged[i].id = pending[i].id
  <2>1. \A i \in 1..Len(pending) : pending[i] \in P
    <3> HIDE DEF P
    <3> QED
      BY <1>1
  <2>2. ASSUME NEW i \in 1..Len(pending)
        PROVE  [pending[i] EXCEPT !.left = IF @ = 0 THEN 0 ELSE @ - 1].id = pending[i].id
    BY <2>1
  <2> QED
    BY <1>1, <2>2 DEF Aged
<1>3. CASE ~Departs
  <2>1. StillPending = Aged /\ Departed = {}
    BY <1>3 DEF StillPending, Departed
  <2> QED
    BY <1>1, <1>2, <2>1 DEF IdsOnce, IdsOf
<1>4. CASE Departs
  <2>1. pending # <<>> /\ 1 \in 1..Len(pending)
    BY <1>1, <1>4 DEF Departs
  <2>2. Departed = {pending[1].id} /\ StillPending = Tail(Aged)
    BY <1>4 DEF StillPending, Departed
  <2>3. /\ DOMAIN StillPending = 1..(Len(pending) - 1)
        /\ \A i \in 1..(Len(pending) - 1) : StillPending[i] = Aged[i + 1]
    <3>1. Aged \in Seq(P) /\ Len(Aged) = Len(pending) /\ Aged # <<>>
      BY <2>1, PendingAged
    <3> HIDE DEF P
    <3> QED
      BY <1>1, <2>2, <3>1
  <2>4. \A i \in 1..(Len(pending) - 1) :
           i + 1 \in 1..Len(pending) /\ StillPending[i].id = pending[i + 1].id
    BY <1>1, <1>2, <2>3
  <2>5. DOMAIN StillPending = 1..(Len(pending) - 1)
    BY <2>3
  <2>6. \A i \in 1..Len(pending) : i # 1 => i - 1 \in 1..(Len(pending) - 1) /\ (i - 1) + 1 = i
    BY <1>1
  <2>7. IdsOnce(StillPending)
    <3>1. ASSUME NEW i \in 1..(Len(pending) - 1), NEW j \in 1..(Len(pending) - 1),
                 StillPending[i].id = StillPending[j].id
          PROVE  i = j
      <4>1. pending[i + 1].id = pending[j + 1].id
        BY <2>4, <3>1
      <4>2. i + 1 = j + 1
        BY <1>1, <2>4, <4>1 DEF IdsOnce
      <4> QED
        BY <4>2
    <3> QED
      BY <2>5, <3>1 DEF IdsOnce
  <2>8. IdsOf(StillPending) = IdsOf(pending) \ Departed
    <3>1. \A i \in 1..(Len(pending) - 1) : i + 1 # 1
      BY <1>1
    <3>2. \A i \in 1..(Len(pending) - 1) : pending[i + 1].id # pending[1].id
      BY <1>1, <2>1, <2>4, <3>1 DEF IdsOnce
    <3>3. ASSUME NEW i \in 1..Len(pending), i # 1
          PROVE  StillPending[i - 1].id = pending[i].id /\ i - 1 \in DOMAIN StillPending
      BY <2>4, <2>5, <2>6, <3>3
    <3>4. ASSUME NEW x \in IdsOf(StillPending)
          PROVE  x \in IdsOf(pending) /\ x # pending[1].id
      <4>1. PICK i \in 1..(Len(pending) - 1) : x = StillPending[i].id
        BY <2>5 DEF IdsOf
      <4>2. i + 1 \in DOMAIN pending /\ x = pending[i + 1].id
        BY <2>4, <4>1
      <4>3. x # pending[1].id
        BY <3>2, <4>2
      <4> QED
        BY <4>2, <4>3 DEF IdsOf
    <3>5. \A x \in IdsOf(pending) : x # pending[1].id => x \in IdsOf(StillPending)
      BY <1>1, <3>3 DEF IdsOf
    <3> QED
      BY <2>2, <3>4, <3>5
  <2> QED
    BY <1>1, <2>1, <2>2, <2>7, <2>8 DEF IdsOf
<1> QED
  BY <1>3, <1>4

(* Only refreshes and close-row requests come in during a tick.            *)
LEMMA NowHeld ==
    ASSUME ControllerTypeOK
    PROVE  /\ Held(BuffersNow) = Held(buffer) /\ CountedIn(BuffersNow) = CountedIn(buffer)
           /\ HeldOnce(buffer) => HeldOnce(BuffersNow)
<1> DEFINE t == buffer["priority"]
<1>1. /\ BuffersNow["priority"] = Priority
      /\ \A b \in {"active", "read", "write"} : BuffersNow[b] = buffer[b]
  BY NowType
<1>2. t \in Seq(Entries) /\ NumRanks \in Nat
  <2> HIDE DEF Entries
  <2> QED
    BY ControllerAssumption DEF ControllerTypeOK, Buffers
<1>3. \A k \in 1..NumRanks : RefreshOf(k - 1).id \notin Requests
  BY ControllerAssumption DEF RefreshOf
<1>4. /\ \A i \in DOMAIN t : i \in DOMAIN Priority /\ Priority[i] = t[i]
      /\ \A i \in DOMAIN Priority : i \in DOMAIN t \/ Priority[i].id \notin Requests
  <2>1. CASE timer # 1
    <3>1. Priority = t
      BY <2>1 DEF Priority
    <3> HIDE DEF t
    <3> QED
      BY <3>1
  <2>2. CASE timer = 1
    <3> DEFINE u == [k \in 1..NumRanks |-> RefreshOf(k - 1)]
    <3>1. Priority = t \o u
      BY <2>2 DEF Priority
    <3>2. u \in Seq(Entries) /\ Len(u) = NumRanks
      <4>1. DOMAIN u = 1..NumRanks /\ u \in Seq(Entries)
        BY RefreshesType
      <4> HIDE DEF u, Entries
      <4> QED
        BY <1>2, <4>1
    <3>3. \A k \in 1..NumRanks : u[k].id \notin Requests
      BY <1>3
    <3> HIDE DEF t, u, Entries
    <3>4. /\ DOMAIN (t \o u) = 1..(Len(t) + NumRanks) /\ DOMAIN t = 1..Len(t) /\ Len(t) \in Nat
          /\ \A i \in 1..(Len(t) + NumRanks) :
                (t \o u)[i] = IF i <= Len(t) THEN t[i] ELSE u[i - Len(t)]
      BY <1>2, <3>2
    <3>5. \A i \in 1..(Len(t) + NumRanks) : i \in 1..Len(t) \/ i - Len(t) \in 1..NumRanks
      BY <1>2, <3>4
    <3>6. \A i \in 1..Len(t) : i \in 1..(Len(t) + NumRanks) /\ i <= Len(t)
      BY <1>2, <3>4
    <3>7. ASSUME NEW i \in 1..(Len(t) + NumRanks), ~(i \in 1..Len(t))
          PROVE  (t \o u)[i].id \notin Requests
      <4>1. i - Len(t) \in 1..NumRanks /\ ~(i <= Len(t))
        BY <1>2, <3>4, <3>5, <3>7
      <4> QED
        BY <3>3, <3>4, <4>1
    <3> QED
      BY <3>1, <3>4, <3>6, <3>7 DEF t
  <2> QED
    BY <2>1, <2>2
<1> HIDE DEF t
<1>5. /\ \A b \in Buffers : \A i \in DOMAIN buffer[b] :
            i \in DOMAIN BuffersNow[b] /\ BuffersNow[b][i] = buffer[b][i]
      /\ \A b \in Buffers : \A i \in DOMAIN BuffersNow[b] :
            i \in DOMAIN buffer[b] \/ BuffersNow[b][i].id \notin Requests
  BY <1>1, <1>4 DEF Buffers, t
<1> QED
  BY <1>5, ExtendHeld

LEMMA AfterHeld ==
    ASSUME ControllerTypeOK, NEW s \in Schedule
    PROVE  /\ Held(BuffersAfter(s)) = Held(buffer)
           /\ CountedIn(BuffersAfter(s)) = CountedIn(buffer)
           /\ HeldOnce(buffer) => HeldOnce(BuffersAfter(s))
<1> DEFINE new == BuffersAfter(s)
           old == BuffersNow
<1>1. \/ new = old
      \/ new = [old EXCEPT !["priority"] = Append(@, CloseRow(s.entry.addr))]
  BY DEF BuffersAfter
<1>2. old \in [Buffers -> Seq(Entries)] /\ "priority" \in Buffers
  BY NowType DEF Buffers
<1>3. CloseRow(s.entry.addr).id \notin Requests
  BY ControllerAssumption DEF CloseRow
<1> HIDE DEF new, old, Entries
<1>4. /\ \A b \in Buffers : \A i \in DOMAIN old[b] : i \in DOMAIN new[b] /\ new[b][i] = old[b][i]
      /\ \A b \in Buffers : \A i \in DOMAIN new[b] :
            i \in DOMAIN old[b] \/ new[b][i].id \notin Requests
  <2> DEFINE x == CloseRow(s.entry.addr)
  <2> HIDE DEF x
  <2>1. CASE new = [old EXCEPT !["priority"] = Append(@, x)]
    BY <1>2, <1>3, <2>1 DEF x
  <2> QED
    BY <1>1, <2>1 DEF x
<1>5. /\ Held(new) = Held(old) /\ CountedIn(new) = CountedIn(old)
      /\ HeldOnce(old) => HeldOnce(new)
  BY <1>4, ExtendHeld
<1> QED
  BY <1>5, NowHeld DEF new, old

-----------------------------------------------------------------------------
(* Served once.                                                            *)

(* The requests that have been given a command.                            *)
Begun == (IdsOf(pending) \cup done \cup CountedIn(buffer)) \ forwarded

Sum == counts["hit"] + counts["miss"] + counts["conflict"]

(* The places are kept apart, and together they hold what was accepted;    *)
(* a read answered from the write buffer never enters a buffer.            *)
Apart ==
    /\ HeldOnce(buffer) /\ IdsOnce(pending)
    /\ Held(buffer) \cap (IdsOf(pending) \cup done \cup forwarded) = {}
    /\ IdsOf(pending) \cap done = {}
    /\ accepted = Held(buffer) \cup IdsOf(pending) \cup done

(* The inductive invariant.                                                *)
ServedInv == Apart /\ IsFiniteSet(Begun) /\ Sum = Cardinality(Begun)

LEMMA PlacesFact ==
    ASSUME NEW r, NEW p
    PROVE  p \in PlacesOf(r) <=>
             \/ \E b \in Buffers : \E i \in DOMAIN buffer[b] : buffer[b][i].id = r /\ p = <<b, i>>
             \/ \E i \in DOMAIN pending : pending[i].id = r /\ p = <<"pending", i>>
             \/ r \in done /\ p = <<"done", 0>>
<1> DEFINE In(b) == {<<b, i>> : i \in {k \in DOMAIN buffer[b] : buffer[b][k].id = r}}
           Slots == UNION {In(b) : b \in Buffers}
           Back == {<<"pending", i>> : i \in {k \in DOMAIN pending : pending[k].id = r}}
           End == IF r \in done THEN {<<"done", 0>>} ELSE {}
<1>1. PlacesOf(r) = Slots \cup Back \cup End
  BY DEF PlacesOf
<1>2. \A b : p \in In(b) <=> \E i \in DOMAIN buffer[b] : buffer[b][i].id = r /\ p = <<b, i>>
  OBVIOUS
<1>3. p \in Back <=> \E i \in DOMAIN pending : pending[i].id = r /\ p = <<"pending", i>>
  OBVIOUS
<1>4. p \in End <=> r \in done /\ p = <<"done", 0>>
  OBVIOUS
<1> HIDE DEF In, Back, End
<1>5. p \in Slots <=> \E b \in Buffers : p \in In(b)
  OBVIOUS
<1> QED
  BY <1>1, <1>2, <1>3, <1>4, <1>5

LEMMA ApartOnePlace == Apart => OnePlace
<1> SUFFICES ASSUME Apart, NEW r \in Requests
             PROVE  IF r \in accepted THEN \E p \in PlacesOf(r) : PlacesOf(r) = {p}
                    ELSE PlacesOf(r) = {}
  BY DEF OnePlace
<1>1. r \in Held(buffer) <=> \E b \in Buffers : \E i \in DOMAIN buffer[b] : buffer[b][i].id = r
  BY DEF Held
<1>2. r \in IdsOf(pending) <=> \E i \in DOMAIN pending : pending[i].id = r
  BY DEF IdsOf
<1>3. CASE r \in Held(buffer)
  <2>0. PICK b \in Buffers : \E i \in DOMAIN buffer[b] : buffer[b][i].id = r
    BY <1>1, <1>3
  <2>1. PICK i \in DOMAIN buffer[b] : buffer[b][i].id = r
    BY <2>0
  <2>2. r \notin IdsOf(pending) /\ r \notin done /\ r \in accepted
    BY <1>3 DEF Apart
  <2>3. \A c \in Buffers : \A j \in DOMAIN buffer[c] : buffer[c][j].id = r => c = b /\ j = i
    BY <2>1 DEF Apart, HeldOnce
  <2>4. \A p : p \in PlacesOf(r) <=> p = <<b, i>>
    BY <1>2, <2>1, <2>2, <2>3, PlacesFact
  <2>5. PlacesOf(r) = {<<b, i>>}
    BY <2>4
  <2> QED
    BY <2>2, <2>5
<1>4. CASE r \in IdsOf(pending)
  <2>1. PICK i \in DOMAIN pending : pending[i].id = r
    BY <1>2, <1>4
  <2>2. r \notin Held(buffer) /\ r \notin done /\ r \in accepted
    BY <1>4 DEF Apart
  <2>3. \A j \in DOMAIN pending : pending[j].id = r => j = i
    BY <2>1 DEF Apart, IdsOnce
  <2>4. \A p : p \in PlacesOf(r) <=> p = <<"pending", i>>
    BY <1>1, <2>1, <2>2, <2>3, PlacesFact
  <2>5. PlacesOf(r) = {<<"pending", i>>}
    BY <2>4
  <2> QED
    BY <2>2, <2>5
<1>5. CASE r \in done
  <2>1. r \notin Held(buffer) /\ r \notin IdsOf(pending) /\ r \in accepted
    BY <1>5 DEF Apart
  <2>2. \A p : p \in PlacesOf(r) <=> p = <<"done", 0>>
    BY <1>1, <1>2, <1>5, <2>1, PlacesFact
  <2>3. PlacesOf(r) = {<<"done", 0>>}
    BY <2>2
  <2> QED
    BY <2>1, <2>3
<1>6. CASE r \notin accepted
  <2>1. r \notin Held(buffer) /\ r \notin IdsOf(pending) /\ r \notin done
    BY <1>6 DEF Apart
  <2>2. \A p : p \notin PlacesOf(r)
    BY <1>1, <1>2, <2>1, PlacesFact
  <2> QED
    BY <1>6, <2>2
<1> QED
  BY <1>3, <1>4, <1>5, <1>6 DEF Apart

LEMMA ServedCounted == ControllerTypeOK /\ ServedInv => CountedOnce
<1> SUFFICES ASSUME ControllerTypeOK, ServedInv PROVE CountedOnce
  OBVIOUS
<1> DEFINE C == {r \in accepted \ forwarded :
                   \/ r \in done
                   \/ \E i \in DOMAIN pending : pending[i].id = r
                   \/ \E b \in Buffers : \E i \in DOMAIN buffer[b] :
                          buffer[b][i].id = r /\ buffer[b][i].counted}
<1>1. accepted \subseteq Requests
  BY DEF ControllerTypeOK
<1>2. \A r : r \in IdsOf(pending) <=> \E i \in DOMAIN pending : pending[i].id = r
  BY DEF IdsOf
<1>3. \A r \in accepted : r \in CountedIn(buffer) <=>
         \E b \in Buffers : \E i \in DOMAIN buffer[b] : buffer[b][i].id = r /\ buffer[b][i].counted
  BY <1>1 DEF CountedIn
<1>4. CountedIn(buffer) \subseteq Held(buffer)
  BY DEF CountedIn, Held
<1>5. Begun \subseteq accepted \ forwarded
  BY <1>4 DEF Begun, ServedInv, Apart
<1>6. C = Begun
  <2>1. \A r \in accepted \ forwarded : r \in C <=> r \in Begun
    BY <1>2, <1>3 DEF Begun
  <2>2. C \subseteq accepted \ forwarded
    OBVIOUS
  <2> HIDE DEF C
  <2> QED
    BY <1>5, <2>1, <2>2
<1> QED
  BY <1>6 DEF ServedInv, Sum, CountedOnce

LEMMA InitServed == Init => ServedInv
<1> SUFFICES ASSUME Init PROVE ServedInv
  OBVIOUS
<1>1. /\ \A b \in Buffers : DOMAIN buffer[b] = {}
      /\ DOMAIN pending = {} /\ done = {} /\ accepted = {}
  BY DEF Init, Buffers
<1>2. Held(buffer) = {} /\ CountedIn(buffer) = {} /\ IdsOf(pending) = {}
  BY <1>1 DEF Held, CountedIn, IdsOf
<1>3. Apart
  BY <1>1, <1>2 DEF Apart, HeldOnce, IdsOnce
<1>4. Begun = {}
  BY <1>1, <1>2 DEF Begun
<1>5. Sum = 0
  BY DEF Init, Sum
<1> QED
  BY <1>3, <1>4, <1>5, FS_EmptySet DEF ServedInv

LEMMA SendServed ==
    ASSUME ControllerTypeOK, ServedInv, NEW r \in Requests \ accepted, NEW addr \in AddrsOf[r],
           SendForwarded(r, addr) \/ SendEnqueued(r, addr)
    PROVE  ServedInv'
<1>1. Apart /\ IsFiniteSet(Begun) /\ Sum = Cardinality(Begun) /\ accepted \subseteq Requests
  BY DEF ServedInv, ControllerTypeOK
<1>2. r \notin Held(buffer) /\ r \notin IdsOf(pending) /\ r \notin done
  BY <1>1 DEF Apart
<1>3. done' = done /\ Sum' = Sum /\ accepted' = accepted \cup {r}
  BY DEF SendForwarded, SendEnqueued, Sum
<1>4. CASE SendForwarded(r, addr)
  <2> DEFINE p == [id |-> r, left |-> 1]
             P == [id : accepted \cup {r}, left : Nat]
  <2>1. buffer' = buffer /\ pending' = Append(pending, p) /\ forwarded' = forwarded \cup {r}
    BY <1>4 DEF SendForwarded
  <2>2. p \in P /\ p.id = r
    OBVIOUS
  <2>3. pending \in Seq(P)
    <3> DEFINE O == [id : accepted, left : Nat]
    <3>1. pending \in Seq(O) /\ O \subseteq P
      BY DEF ControllerTypeOK
    <3> HIDE DEF O, P
    <3> QED
      BY <3>1, SeqGrow
  <2> HIDE DEF p, P
  <2>4. IdsOnce(pending)' /\ IdsOf(pending)' = IdsOf(pending) \cup {r}
    <3>1. IdsOnce(Append(pending, p)) /\ IdsOf(Append(pending, p)) = IdsOf(pending) \cup {p.id}
      BY <1>1, <1>2, <2>2, <2>3, AppendIds DEF Apart
    <3> QED
      BY <2>1, <2>2, <3>1 DEF IdsOnce, IdsOf
  <2>5. Held(buffer)' = Held(buffer) /\ CountedIn(buffer)' = CountedIn(buffer) /\ HeldOnce(buffer)'
    BY <1>1, <2>1 DEF Held, CountedIn, HeldOnce, Apart
  <2>6. Apart'
    BY <1>1, <1>2, <1>3, <2>1, <2>4, <2>5 DEF Apart
  <2>7. Begun' = Begun
    <3>1. r \notin CountedIn(buffer)
      BY <1>2 DEF CountedIn, Held
    <3> QED
      BY <1>2, <1>3, <2>1, <2>4, <2>5, <3>1 DEF Begun
  <2> QED
    BY <1>1, <1>3, <2>6, <2>7 DEF ServedInv
<1>5. CASE SendEnqueued(r, addr)
  <2> DEFINE e == [id |-> r, final |-> FinalOf[r], addr |-> addr,
                   arrive |-> now, counted |-> FALSE]
             b == BufferOf(r)
             E == Entries \cup {e}
  <2>1. /\ buffer' = [buffer EXCEPT ![b] = Append(@, e)]
        /\ pending' = pending /\ forwarded' = forwarded
    BY <1>5 DEF SendEnqueued
  <2>2. e.id = r /\ ~e.counted /\ e \in E /\ b \in Buffers
    BY DEF BufferOf, Buffers
  <2>3. buffer \in [Buffers -> Seq(E)]
    <3>1. buffer \in [Buffers -> Seq(Entries)] /\ Entries \subseteq E
      BY DEF ControllerTypeOK
    <3> HIDE DEF E, Entries
    <3> QED
      BY <3>1, SeqGrow
  <2> HIDE DEF e, b, E
  <2>4. /\ HeldOnce(buffer)' /\ Held(buffer)' = Held(buffer) \cup {r}
        /\ CountedIn(buffer)' = CountedIn(buffer)
    <3>1. e.id \in Requests \ Held(buffer) /\ HeldOnce(buffer)
      BY <1>1, <1>2, <2>2 DEF Apart
    <3> DEFINE new == buffer'
               last == Len(buffer[b]) + 1
    <3>2. /\ \A c \in Buffers : \A i \in DOMAIN buffer[c] :
                i \in DOMAIN new[c] /\ new[c][i] = buffer[c][i]
          /\ last \in DOMAIN new[b] /\ new[b][last] = e
          /\ \A c \in Buffers : \A i \in DOMAIN new[c] :
                i \in DOMAIN buffer[c] \/ (c = b /\ i = last)
      BY <2>1, <2>2, <2>3
    <3> HIDE DEF new, last
    <3>3. /\ HeldOnce(new) /\ Held(new) = Held(buffer) \cup {e.id}
          /\ CountedIn(new) = CountedIn(buffer) \cup (IF e.counted THEN {e.id} ELSE {})
      BY <2>2, <3>1, <3>2, AppendHeld
    <3> QED
      BY <2>2, <3>3 DEF new, HeldOnce, Held, CountedIn
  <2>5. IdsOnce(pending)' = IdsOnce(pending) /\ IdsOf(pending)' = IdsOf(pending)
    BY <2>1 DEF IdsOnce, IdsOf
  <2>6. r \notin forwarded
    BY DEF ControllerTypeOK
  <2>7. Apart'
    BY <1>1, <1>2, <1>3, <2>1, <2>4, <2>5, <2>6 DEF Apart
  <2>8. Begun' = Begun
    BY <1>3, <2>1, <2>4, <2>5 DEF Begun
  <2> QED
    BY <1>1, <1>3, <2>7, <2>8 DEF ServedInv
<1> QED
  BY <1>4, <1>5

(* A departing read keeps being counted, and leaves one place for another. *)
LEMMA StallServed ==
    ASSUME ControllerTypeOK, ServedInv, TickStall
    PROVE  ServedInv'
<1>1. Apart /\ IsFiniteSet(Begun) /\ Sum = Cardinality(Begun)
  BY DEF ServedInv
<1>2. /\ buffer' = BuffersNow /\ pending' = StillPending /\ done' = done \cup Departed
      /\ accepted' = accepted /\ forwarded' = forwarded /\ Sum' = Sum
  BY DEF TickStall, Housekeeping, Sum
<1>3. /\ HeldOnce(buffer)' /\ Held(buffer)' = Held(buffer)
      /\ CountedIn(buffer)' = CountedIn(buffer)
  <2>1. /\ HeldOnce(BuffersNow) /\ Held(BuffersNow) = Held(buffer)
        /\ CountedIn(BuffersNow) = CountedIn(buffer)
    BY <1>1, NowHeld DEF Apart
  <2> QED
    BY <1>2, <2>1 DEF HeldOnce, Held, CountedIn
<1>4. /\ IdsOnce(pending)' /\ IdsOf(pending)' = IdsOf(pending) \ Departed
      /\ Departed \subseteq IdsOf(pending)
  <2>1. /\ IdsOnce(StillPending) /\ IdsOf(StillPending) = IdsOf(pending) \ Departed
        /\ Departed \subseteq IdsOf(pending)
    BY <1>1, DepartIds DEF Apart
  <2> QED
    BY <1>2, <2>1 DEF IdsOnce, IdsOf
<1>5. Apart'
  BY <1>1, <1>2, <1>3, <1>4 DEF Apart
<1>6. Begun' = Begun
  BY <1>2, <1>3, <1>4 DEF Begun
<1> QED
  BY <1>1, <1>2, <1>5, <1>6 DEF ServedInv

(* What is scheduled is a request that is held, or one of the controller's *)
(* own.                                                                    *)
LEMMA ScheduledHeld ==
    ASSUME ControllerTypeOK, HeldOnce(buffer), NEW s \in Schedule
    PROVE  /\ s.entry.final \in {"RD", "WR"} <=> s.entry.id \in Requests
           /\ s.entry.counted \in BOOLEAN
           /\ s.entry.id \in Requests =>
                 /\ s.entry.id \in Held(buffer)
                 /\ s.entry.id \in CountedIn(buffer) <=> s.entry.counted
<1> DEFINE b == s.from
           k == s.at
           buf == BuffersAfter(s)
           x == s.entry.id
<1>1. b \in Buffers /\ s.entry \in Entries /\ buf \in [Buffers -> Seq(Entries)]
  BY AfterFacts, ScheduleFacts
<1>2. k \in DOMAIN buf[b] /\ buf[b][k] = s.entry
  <2>1. k \in 1..Len(buf[b]) /\ buf[b][k] = s.entry
    BY AfterFacts
  <2> HIDE DEF buf, b, k, Entries
  <2> QED
    BY <1>1, <2>1
<1>3. s.entry.counted \in BOOLEAN /\ (s.entry.final \in {"RD", "WR"} <=> x \in Requests)
  BY <1>1, ControllerAssumption DEF Entries, EntriesOf, ControllerTypeOK
<1>4. /\ Held(buf) = Held(buffer) /\ CountedIn(buf) = CountedIn(buffer) /\ HeldOnce(buf)
  BY AfterHeld
<1> HIDE DEF buf, b, k
<1>5. ASSUME x \in Requests
      PROVE  x \in Held(buf) /\ (x \in CountedIn(buf) <=> s.entry.counted)
  <2>1. x \in Held(buf)
    BY <1>1, <1>2, <1>5 DEF Held
  <2>2. \A c \in Buffers : \A i \in DOMAIN buf[c] : buf[c][i].id = x => c = b /\ i = k
    BY <1>1, <1>2, <1>4, <1>5 DEF HeldOnce
  <2>3. x \in CountedIn(buf) <=> s.entry.counted
    BY <1>1, <1>2, <1>5, <2>2 DEF CountedIn
  <2> QED
    BY <2>1, <2>3
<1> QED
  BY <1>3, <1>4, <1>5

(* The three ways a tick leaves the buffers when it issues a command.      *)
Removed(s) == [BuffersAfter(s) EXCEPT ![s.from] = RemoveAt(@, s.at)]
Marked(s) == [BuffersAfter(s) EXCEPT ![s.from][s.at].counted = TRUE]

LEMMA RemovedHeld ==
    ASSUME ControllerTypeOK, HeldOnce(buffer), NEW s \in Schedule
    PROVE  /\ HeldOnce(Removed(s)) /\ Held(Removed(s)) = Held(buffer) \ {s.entry.id}
           /\ CountedIn(Removed(s)) = CountedIn(buffer) \ {s.entry.id}
<1> DEFINE buf == BuffersAfter(s)
           b == s.from
           k == s.at
           new == Removed(s)
           from(c, i) == IF c = b /\ i >= k THEN i + 1 ELSE i
           to(c, i) == IF c = b /\ i > k THEN i - 1 ELSE i
           x == s.entry.id
<1>1. buf \in [Buffers -> Seq(Entries)] /\ b \in Buffers
  BY AfterFacts, ScheduleFacts
<1>2. k \in 1..Len(buf[b]) /\ buf[b][k] = s.entry
  BY AfterFacts
<1>3. new = [buf EXCEPT ![b] = RemoveAt(@, k)]
  BY DEF Removed
<1>4. HeldOnce(buf)
  BY AfterHeld
<1> HIDE DEF buf, b, k, new, Entries
<1>5. /\ new \in [Buffers -> Seq(Entries)] /\ \A c \in Buffers \ {b} : new[c] = buf[c]
      /\ DOMAIN buf[b] = 1..Len(buf[b]) /\ Len(buf[b]) \in Nat
      /\ DOMAIN new[b] = 1..(Len(buf[b]) - 1)
      /\ \A i \in DOMAIN new[b] : new[b][i] = IF i < k THEN buf[b][i] ELSE buf[b][i + 1]
  <2> DEFINE t == buf[b]
  <2>1. t \in Seq(Entries) /\ Len(t) \in Nat /\ DOMAIN t = 1..Len(t)
    BY <1>1
  <2>2. k \in 1..Len(t)
    BY <1>2
  <2> HIDE DEF t
  <2>3. /\ RemoveAt(t, k) \in Seq(Entries) /\ Len(RemoveAt(t, k)) = Len(t) - 1
        /\ \A i \in 1..(Len(t) - 1) : RemoveAt(t, k)[i] = IF i < k THEN t[i] ELSE t[i + 1]
    BY <2>1, <2>2, RemoveAtFacts
  <2>4. DOMAIN RemoveAt(t, k) = 1..(Len(t) - 1)
    BY <2>1, <2>3
  <2>5. /\ new[b] = RemoveAt(t, k) /\ \A c \in Buffers \ {b} : new[c] = buf[c]
        /\ new \in [Buffers -> Seq(Entries)]
    BY <1>1, <1>3, <2>3 DEF t
  <2>6. /\ DOMAIN new[b] = 1..(Len(t) - 1)
        /\ \A i \in DOMAIN new[b] : new[b][i] = IF i < k THEN t[i] ELSE t[i + 1]
    BY <2>3, <2>4, <2>5, Zenon
  <2> QED
    BY <2>1, <2>5, <2>6, Zenon DEF t
<1>6. \A c \in Buffers : \A i \in DOMAIN buf[c] : i \in Int
  BY <1>1
<1>7. \A c \in Buffers : \A i \in DOMAIN new[c] : i \in Int
  BY <1>5
<1>8. /\ \A c \in Buffers : \A i \in DOMAIN new[c] :
            /\ from(c, i) \in DOMAIN buf[c] /\ new[c][i] = buf[c][from(c, i)]
            /\ ~(c = b /\ from(c, i) = k)
      /\ \A c \in Buffers : \A i, j \in DOMAIN new[c] : from(c, i) = from(c, j) => i = j
      /\ \A c \in Buffers : \A i \in DOMAIN buf[c] : ~(c = b /\ i = k) =>
            to(c, i) \in DOMAIN new[c] /\ new[c][to(c, i)] = buf[c][i]
  <2>1. ASSUME NEW c \in Buffers, NEW i \in DOMAIN new[c]
        PROVE  /\ from(c, i) \in DOMAIN buf[c] /\ new[c][i] = buf[c][from(c, i)]
               /\ ~(c = b /\ from(c, i) = k)
    <3>1. CASE c = b
      BY <1>2, <1>5, <1>7, <3>1
    <3>2. CASE c # b
      BY <1>5, <3>2
    <3> QED
      BY <3>1, <3>2
  <2>2. ASSUME NEW c \in Buffers, NEW i \in DOMAIN new[c], NEW j \in DOMAIN new[c],
               from(c, i) = from(c, j)
        PROVE  i = j
    BY <1>2, <1>5, <1>7, <2>2
  <2>3. ASSUME NEW c \in Buffers, NEW i \in DOMAIN buf[c], ~(c = b /\ i = k)
        PROVE  to(c, i) \in DOMAIN new[c] /\ new[c][to(c, i)] = buf[c][i]
    <3>1. CASE c = b
      <4>1. i \in 1..Len(buf[b]) /\ Len(buf[b]) \in Nat /\ k \in 1..Len(buf[b]) /\ i # k
        BY <1>2, <1>5, <2>3, <3>1
      <4>2. CASE i < k
        <5>1. i \in DOMAIN new[b] /\ to(c, i) = i
          BY <1>5, <4>1, <4>2
        <5> QED
          BY <1>5, <3>1, <4>2, <5>1
      <4>3. CASE i > k
        <5>1. i - 1 \in DOMAIN new[b] /\ to(c, i) = i - 1 /\ ~(i - 1 < k) /\ (i - 1) + 1 = i
          BY <1>5, <3>1, <4>1, <4>3
        <5> QED
          BY <1>5, <3>1, <5>1
      <4> QED
        BY <4>1, <4>2, <4>3
    <3>2. CASE c # b
      BY <1>5, <3>2
    <3> QED
      BY <3>1, <3>2
  <2> QED
    BY <2>1, <2>2, <2>3
<1> HIDE DEF from, to
<1>9. \A c \in Buffers : \A i \in DOMAIN buf[c] :
         buf[c][i].id \in Requests /\ buf[c][i].id = x => c = b /\ i = k
  <2>1. k \in DOMAIN buf[b] /\ buf[b][k].id = x
    BY <1>2, <1>5
  <2> QED
    BY <1>1, <1>4, <2>1 DEF HeldOnce
<1>10. Held(new) = Held(buf) \ {x} /\ CountedIn(new) = CountedIn(buf) \ {x}
  <2>1. \A c \in Buffers : \A i \in DOMAIN new[c] :
           /\ from(c, i) \in DOMAIN buf[c] /\ new[c][i] = buf[c][from(c, i)]
           /\ new[c][i].id \in Requests => new[c][i].id # x
    BY <1>8, <1>9
  <2>2. \A c \in Buffers : \A i \in DOMAIN buf[c] : buf[c][i].id # x =>
           to(c, i) \in DOMAIN new[c] /\ new[c][to(c, i)] = buf[c][i]
    BY <1>2, <1>8
  <2> HIDE DEF x
  <2>3. \A r : r \in Held(new) => r \in Held(buf) /\ r # x
    BY <2>1 DEF Held
  <2>4. \A r : r \in Held(buf) /\ r # x => r \in Held(new)
    BY <2>2 DEF Held
  <2>5. \A r : r \in CountedIn(new) => r \in CountedIn(buf) /\ r # x
    BY <2>1 DEF CountedIn
  <2>6. \A r : r \in CountedIn(buf) /\ r # x => r \in CountedIn(new)
    BY <2>2 DEF CountedIn
  <2> QED
    BY <2>3, <2>4, <2>5, <2>6
<1>11. HeldOnce(new)
  BY <1>4, <1>8 DEF HeldOnce
<1> HIDE DEF x
<1>12. Held(buf) = Held(buffer) /\ CountedIn(buf) = CountedIn(buffer)
  BY AfterHeld DEF buf
<1> QED
  BY <1>10, <1>11, <1>12 DEF new, x

LEMMA MarkedHeld ==
    ASSUME ControllerTypeOK, HeldOnce(buffer), NEW s \in Schedule
    PROVE  /\ HeldOnce(Marked(s)) /\ Held(Marked(s)) = Held(buffer)
           /\ CountedIn(Marked(s)) = CountedIn(buffer) \cup ({s.entry.id} \cap Requests)
<1> DEFINE buf == BuffersAfter(s)
           b == s.from
           k == s.at
           new == Marked(s)
<1>1. buf \in [Buffers -> Seq(Entries)] /\ b \in Buffers
  BY AfterFacts, ScheduleFacts
<1>2. k \in 1..Len(buf[b]) /\ buf[b][k] = s.entry
  BY AfterFacts
<1>3. new = [buf EXCEPT ![b][k].counted = TRUE]
  BY DEF Marked
<1>4. HeldOnce(buf)
  BY AfterHeld
<1> HIDE DEF buf, b, k, new, Entries
<1>5. k \in DOMAIN buf[b] /\ buf[b][k] \in Entries
  BY <1>1, <1>2
<1>6. /\ \A c \in Buffers : DOMAIN new[c] = DOMAIN buf[c]
      /\ \A c \in Buffers : \A i \in DOMAIN buf[c] : ~(c = b /\ i = k) => new[c][i] = buf[c][i]
      /\ new[b][k] = [buf[b][k] EXCEPT !.counted = TRUE]
  BY <1>1, <1>3, <1>5
<1>7. new[b][k].id = buf[b][k].id /\ new[b][k].counted
  BY <1>5, <1>6 DEF Entries, EntriesOf
<1>8. \A c \in Buffers : \A i \in DOMAIN buf[c] :
         new[c][i].id = buf[c][i].id /\ (new[c][i].counted = buf[c][i].counted \/ (c = b /\ i = k))
  BY <1>6, <1>7
<1>9. Held(new) = Held(buf)
  BY <1>6, <1>8 DEF Held
<1>10. HeldOnce(new)
  BY <1>4, <1>6, <1>8 DEF HeldOnce
<1>11. CountedIn(new) = CountedIn(buf) \cup ({buf[b][k].id} \cap Requests)
  <2>1. ASSUME NEW r \in Requests, r # buf[b][k].id
        PROVE  r \in CountedIn(new) <=> r \in CountedIn(buf)
    BY <1>6, <1>8, <2>1 DEF CountedIn
  <2>2. buf[b][k].id \in Requests => buf[b][k].id \in CountedIn(new)
    BY <1>1, <1>5, <1>6, <1>7 DEF CountedIn
  <2>3. CountedIn(new) \subseteq Requests /\ CountedIn(buf) \subseteq Requests
    BY DEF CountedIn
  <2> QED
    BY <2>1, <2>2, <2>3
<1>12. Held(buf) = Held(buffer) /\ CountedIn(buf) = CountedIn(buffer)
  BY AfterHeld DEF buf
<1>13. HeldOnce(new) /\ Held(new) = Held(buffer)
  BY <1>9, <1>10, <1>12
<1>14. CountedIn(new) = CountedIn(buffer) \cup ({s.entry.id} \cap Requests)
  BY <1>2, <1>11, <1>12
<1> QED
  BY <1>13, <1>14 DEF new

(* An entry is taken out of one buffer and put at the end of another in    *)
(* either order.                                                           *)
LEMMA OpenedRemoved ==
    ASSUME ControllerTypeOK, NEW s \in Schedule, s.from # "active",
           HasRoom(buffer["active"], MaxSize)
    PROVE  Opened(s) = [Removed(s) EXCEPT !["active"] = Append(@, [s.entry EXCEPT !.counted = TRUE])]
<1> DEFINE after == BuffersAfter(s)
           b == s.from
           old == Removed(s)
           e == [s.entry EXCEPT !.counted = TRUE]
           new == Opened(s)
           a == Append(after["active"], e)
           t == RemoveAt(after[b], s.at)
<1>1. after \in [Buffers -> Seq(Entries)] /\ b \in Buffers /\ b # "active" /\ "active" \in Buffers
  BY AfterFacts, ScheduleFacts DEF Buffers
<1>2. new = [[after EXCEPT !["active"] = Append(@, e)] EXCEPT ![b] = RemoveAt(@, s.at)]
  BY DEF Opened
<1>3. /\ new = [[after EXCEPT !["active"] = a] EXCEPT ![b] = t]
      /\ old = [after EXCEPT ![b] = t]
  BY <1>1, <1>2 DEF Removed
<1>4. old["active"] = after["active"]
  BY <1>1, <1>3
<1>5. new = [old EXCEPT !["active"] = a]
  <2> HIDE DEF a, t, new, old, after, b, Entries
  <2> QED
    BY <1>1, <1>3
<1> QED
  BY <1>4, <1>5

LEMMA OpenedHeld ==
    ASSUME ControllerTypeOK, HeldOnce(buffer), NEW s \in Schedule,
           s.from # "active", s.entry.id \in Requests
    PROVE  /\ HeldOnce(Opened(s)) /\ Held(Opened(s)) = Held(buffer)
           /\ CountedIn(Opened(s)) = CountedIn(buffer) \cup {s.entry.id}
<1> DEFINE old == Removed(s)
           e == [s.entry EXCEPT !.counted = TRUE]
           x == s.entry.id
           last == Len(old["active"]) + 1
           new == Opened(s)
<1>1. CASE ~HasRoom(buffer["active"], MaxSize)
  <2>1. Opened(s) = Marked(s)
    BY <1>1 DEF Opened, Marked
  <2> QED
    BY <2>1, MarkedHeld
<1>2. CASE HasRoom(buffer["active"], MaxSize)
  <2>1. old \in [Buffers -> Seq(Entries)] /\ "active" \in Buffers
    BY RemovedType DEF Buffers, Removed
  <2>2. /\ HeldOnce(old) /\ Held(old) = Held(buffer) \ {x}
        /\ CountedIn(old) = CountedIn(buffer) \ {x}
    BY RemovedHeld
  <2>3. e.id = x /\ e.counted /\ e \in Entries
    <3>1. s.entry \in Entries
      BY ScheduleFacts
    <3> QED
      BY <3>1 DEF Entries, EntriesOf
  <2>4. new = [old EXCEPT !["active"] = Append(@, e)]
    BY <1>2, OpenedRemoved
  <2>5. /\ \A c \in Buffers : \A i \in DOMAIN old[c] :
              i \in DOMAIN new[c] /\ new[c][i] = old[c][i]
        /\ last \in DOMAIN new["active"] /\ new["active"][last] = e
        /\ \A c \in Buffers : \A i \in DOMAIN new[c] :
              i \in DOMAIN old[c] \/ (c = "active" /\ i = last)
    <3> HIDE DEF new, old, e, Entries
    <3> QED
      BY <2>1, <2>3, <2>4
  <2> HIDE DEF new, old, e, last
  <2>6. /\ HeldOnce(new) /\ Held(new) = Held(old) \cup {e.id}
        /\ CountedIn(new) = CountedIn(old) \cup (IF e.counted THEN {e.id} ELSE {})
    <3>1. e.id \in Requests \ Held(old)
      BY <2>2, <2>3
    <3>2. HeldOnce(old) /\ "active" \in Buffers
      BY <2>1, <2>2
    <3> QED
      BY <2>5, <3>1, <3>2, AppendHeld
  <2>7. x \in Held(buffer)
    BY ScheduledHeld
  <2>8. /\ HeldOnce(new) /\ Held(new) = Held(buffer)
        /\ CountedIn(new) = CountedIn(buffer) \cup {x}
    BY <2>2, <2>3, <2>6, <2>7
  <2> QED
    BY <2>8 DEF new
<1> QED
  BY <1>1, <1>2

(* A request counts at its first command, and only then.                   *)
LEMMA ServeSum ==
    ASSUME ControllerTypeOK, NEW s \in Schedule, Serve(s)
    PROVE  Sum' = IF ~s.entry.counted /\ s.entry.final \in {"RD", "WR"} THEN Sum + 1 ELSE Sum
<1> DEFINE o == Outcome(s.entry.addr)
<1>1. o \in {"hit", "miss", "conflict"}
  BY DEF Outcome
<1>2. counts' = IF ~s.entry.counted /\ s.entry.final \in {"RD", "WR"}
                THEN [counts EXCEPT ![o] = @ + 1] ELSE counts
  BY DEF Serve, CountsAfter
<1>3. counts \in [{"hit", "miss", "conflict"} -> Nat]
  BY DEF ControllerTypeOK
<1> HIDE DEF o
<1> QED
  BY <1>1, <1>2, <1>3 DEF Sum

LEMMA ServeServed ==
    ASSUME ControllerTypeOK, ActiveRowOpen, ServedInv, NEW s \in Schedule,
           TickFinish(s) \/ TickClose(s) \/ TickOpen(s)
    PROVE  ServedInv'
<1> DEFINE x == s.entry.id
           new == buffer'
           own == {x} \cap Requests
<1>1. Apart /\ IsFiniteSet(Begun) /\ Sum = Cardinality(Begun) /\ HeldOnce(buffer)
  BY DEF ServedInv, Apart
<1>2. Serve(s) /\ accepted' = accepted /\ forwarded' = forwarded
  BY DEF TickFinish, TickClose, TickOpen, Serve, Housekeeping
<1>3. /\ s.entry.final \in {"RD", "WR"} <=> x \in Requests
      /\ s.entry.counted \in BOOLEAN
      /\ x \in Requests => x \in Held(buffer) /\ (x \in CountedIn(buffer) <=> s.entry.counted)
  BY <1>1, ScheduledHeld
<1>4. s.entry \in Entries /\ s.cmd = NextCommand(s.entry) /\ s.entry.final \in {"RD", "WR", "PRE", "REFab"}
  BY ScheduleFacts, EntryCommand
<1>5. /\ IdsOnce(StillPending) /\ IdsOf(StillPending) = IdsOf(pending) \ Departed
      /\ Departed \subseteq IdsOf(pending)
  BY <1>1, DepartIds DEF Apart
<1>6. CountedIn(buffer) \subseteq Held(buffer) /\ Held(buffer) \subseteq Requests
  BY DEF CountedIn, Held
<1>7. ASSUME TickFinish(s) PROVE Apart' /\ Begun' = Begun \cup own
  <2>1. /\ s.cmd = s.entry.final
        /\ buffer' = Removed(s)
        /\ pending' = IF s.cmd = "RD"
                      THEN Append(StillPending, [id |-> x, left |-> ReadLatency])
                      ELSE StillPending
        /\ done' = done \cup Departed \cup (IF s.cmd = "WR" THEN {x} ELSE {})
    BY <1>7 DEF TickFinish, Removed
  <2>2. /\ HeldOnce(new) /\ Held(new) = Held(buffer) \ {x}
        /\ CountedIn(new) = CountedIn(buffer) \ {x}
    BY <1>1, <2>1, RemovedHeld
  <2>3. /\ IdsOnce(pending)'
        /\ IdsOf(pending)' = (IdsOf(pending) \ Departed) \cup (IF s.cmd = "RD" THEN {x} ELSE {})
    <3>1. CASE s.cmd # "RD"
      BY <1>5, <2>1, <3>1 DEF IdsOnce, IdsOf
    <3>2. CASE s.cmd = "RD"
      <4> DEFINE p == [id |-> x, left |-> ReadLatency]
                 P == [id : accepted, left : Nat]
      <4>1. x \in Held(buffer) /\ x \in accepted
        BY <1>1, <1>3, <2>1, <3>2 DEF Apart
      <4>2. p \in P /\ p.id = x
        BY <4>1, ControllerAssumption
      <4>3. StillPending \in Seq(P)
        BY PendingFacts
      <4>4. x \notin IdsOf(StillPending)
        BY <1>1, <1>5, <4>1 DEF Apart
      <4>5. pending' = Append(StillPending, p)
        BY <2>1, <3>2
      <4> HIDE DEF p, P, x
      <4>6. /\ IdsOnce(Append(StillPending, p))
            /\ IdsOf(Append(StillPending, p)) = IdsOf(StillPending) \cup {p.id}
        BY <1>5, <4>2, <4>3, <4>4, AppendIds
      <4>7. IdsOnce(pending)' /\ IdsOf(pending)' = IdsOf(StillPending) \cup {x}
        BY <4>2, <4>5, <4>6 DEF IdsOnce, IdsOf
      <4> QED
        BY <1>5, <3>2, <4>7
    <3> QED
      BY <3>1, <3>2
  <2>4. s.cmd \in {"RD", "WR"} <=> x \in Requests
    BY <1>3, <1>4, <2>1
  <2>5. /\ HeldOnce(buffer)' /\ Held(buffer)' = Held(buffer) \ {x}
        /\ CountedIn(buffer)' = CountedIn(buffer) \ {x}
    BY <2>2 DEF HeldOnce, Held, CountedIn
  <2> HIDE DEF x
  <2>6. Apart' /\ Begun' = Begun \cup own
    <3>1. CASE s.cmd = "RD"
      <4>1. x \in Requests /\ x \in Held(buffer) /\ done' = done \cup Departed
            /\ IdsOf(pending)' = (IdsOf(pending) \ Departed) \cup {x}
        BY <1>3, <2>1, <2>3, <2>4, <3>1 DEF x
      <4>2. Apart'
        BY <1>1, <1>2, <1>5, <2>3, <2>5, <4>1 DEF Apart
      <4>3. Begun' = Begun \cup {x}
        BY <1>1, <1>2, <1>5, <2>5, <4>1 DEF Apart, Begun
      <4> QED
        BY <4>1, <4>2, <4>3
    <3>2. CASE s.cmd = "WR"
      <4>1. x \in Requests /\ x \in Held(buffer) /\ done' = done \cup Departed \cup {x}
            /\ IdsOf(pending)' = IdsOf(pending) \ Departed
        BY <1>3, <2>1, <2>3, <2>4, <3>2 DEF x
      <4>2. Apart'
        BY <1>1, <1>2, <1>5, <2>3, <2>5, <4>1 DEF Apart
      <4>3. Begun' = Begun \cup {x}
        BY <1>1, <1>2, <1>5, <2>5, <4>1 DEF Apart, Begun
      <4> QED
        BY <4>1, <4>2, <4>3
    <3>3. CASE s.cmd \notin {"RD", "WR"}
      <4>1. x \notin Requests /\ done' = done \cup Departed
            /\ IdsOf(pending)' = IdsOf(pending) \ Departed
        BY <2>1, <2>3, <2>4, <3>3
      <4>2. Held(buffer)' = Held(buffer) /\ CountedIn(buffer)' = CountedIn(buffer)
        BY <1>6, <2>5, <4>1
      <4>3. Apart'
        BY <1>1, <1>2, <1>5, <2>3, <2>5, <4>1, <4>2 DEF Apart
      <4>4. Begun' = Begun
        BY <1>1, <1>2, <1>5, <4>1, <4>2 DEF Apart, Begun
      <4> QED
        BY <4>1, <4>3, <4>4
    <3> QED
      BY <3>1, <3>2, <3>3
  <2> QED
    BY <2>6 DEF x
<1>8. ASSUME TickClose(s) \/ TickOpen(s) PROVE Apart' /\ Begun' = Begun \cup own
  <2>1. pending' = StillPending /\ done' = done \cup Departed
    BY <1>8 DEF TickClose, TickOpen
  <2>2. /\ HeldOnce(new) /\ Held(new) = Held(buffer)
        /\ CountedIn(new) = CountedIn(buffer) \cup own
    <3>1. CASE TickClose(s)
      <4>1. buffer' = Marked(s)
        BY <3>1 DEF TickClose, Marked
      <4> QED
        BY <1>1, <4>1, MarkedHeld
    <3>2. CASE TickOpen(s)
      <4>1. buffer' = Opened(s) /\ s.cmd = "ACT" /\ s.from # "active"
        BY <3>2, ActiveFinal DEF TickOpen
      <4>2. x \in Requests
        BY <1>3, <1>4, <4>1, EntryCommand
      <4>3. own = {x}
        BY <4>2
      <4> QED
        BY <1>1, <4>1, <4>2, <4>3, OpenedHeld
    <3> QED
      BY <1>8, <3>1, <3>2
  <2>3. /\ HeldOnce(buffer)' /\ Held(buffer)' = Held(buffer)
        /\ CountedIn(buffer)' = CountedIn(buffer) \cup own
    BY <2>2 DEF HeldOnce, Held, CountedIn
  <2>4. IdsOnce(pending)' /\ IdsOf(pending)' = IdsOf(pending) \ Departed
    BY <1>5, <2>1 DEF IdsOnce, IdsOf
  <2>5. Apart'
    BY <1>1, <1>2, <1>5, <2>1, <2>3, <2>4 DEF Apart
  <2>6. own \cap forwarded = {}
    BY <1>1, <1>3 DEF Apart
  <2> HIDE DEF own
  <2>7. Begun' = Begun \cup own
    BY <1>2, <1>5, <2>1, <2>3, <2>4, <2>6 DEF Begun
  <2> QED
    BY <2>5, <2>7
<1>9. Apart' /\ Begun' = Begun \cup own
  BY <1>7, <1>8
<1>10. Sum' = IF ~s.entry.counted /\ x \in Requests THEN Sum + 1 ELSE Sum
  BY <1>2, <1>3, ServeSum
<1>11. IsFiniteSet(Begun') /\ Sum' = Cardinality(Begun')
  <2>1. CASE x \in Requests
    <3>1. own = {x}
      BY <2>1
    <3>2. x \in Begun <=> s.entry.counted
      BY <1>1, <1>3, <2>1 DEF Apart, Begun
    <3> HIDE DEF x, own
    <3>3. /\ IsFiniteSet(Begun \cup {x})
          /\ Cardinality(Begun \cup {x}) = IF x \in Begun THEN Cardinality(Begun)
                                           ELSE Cardinality(Begun) + 1
      BY <1>1, FS_AddElement
    <3> QED
      BY <1>1, <1>3, <1>9, <1>10, <2>1, <3>1, <3>2, <3>3 DEF x
  <2>2. CASE x \notin Requests
    <3>1. own = {}
      BY <2>2
    <3>2. Begun' = Begun
      BY <1>9, <3>1
    <3> QED
      BY <1>1, <1>10, <2>2, <3>2
  <2> QED
    BY <2>1, <2>2
<1> QED
  BY <1>9, <1>11 DEF ServedInv

LEMMA StepServed == CtlInv /\ ServedInv /\ [Next]_vars => ServedInv'
<1> SUFFICES ASSUME CtlInv, ServedInv, [Next]_vars PROVE ServedInv'
  OBVIOUS
<1>1. ControllerTypeOK /\ ActiveRowOpen
  BY DEF CtlInv
<1>2. CASE Send
  BY <1>1, <1>2, SendServed DEF Send
<1>3. CASE TickController
  BY <1>1, <1>3, StallServed, ServeServed DEF TickController
<1>4. CASE TickDram \/ UNCHANGED vars
  <2>1. UNCHANGED <<buffer, pending, counts, accepted, forwarded, done>>
    BY <1>4 DEF TickDram, vars, controllerVars
  <2> QED
    BY <2>1 DEF ServedInv, Apart, Begun, Sum, Held, CountedIn, IdsOf, HeldOnce, IdsOnce
<1> QED
  BY <1>2, <1>3, <1>4 DEF Next

(* Every accepted request is in exactly one place, a slot of one buffer,   *)
(* the reads on their way back or those served, and is counted once as a   *)
(* hit, a miss or a conflict, however many commands it takes and whatever  *)
(* buffers it passes through.                                              *)
THEOREM RequestsServedOnce == Spec => []ServedOnce
<1>1. CtlInv /\ ServedInv => ServedOnce
  BY ApartOnePlace, ServedCounted DEF CtlInv, ServedInv, ServedOnce
<1> QED
  BY InitCtlInv, StepCtlInv, InitServed, StepServed, <1>1, PTL DEF Spec

-----------------------------------------------------------------------------
(* The order of writes.                                                    *)

Like(e, f) == e.final = f.final /\ e.addr = f.addr /\ e.arrive = f.arrive

(* A write that has become active is the oldest for its address.           *)
OrderedIn(buf, n) ==
    /\ \A b \in {"active", "read", "write"} : \A i \in DOMAIN buf[b] : buf[b][i].arrive \in 0..n
    /\ \A i \in DOMAIN buf["active"], j \in DOMAIN buf["write"] :
          buf["active"][i].final = "WR" /\ buf["write"][j].addr = buf["active"][i].addr =>
              buf["active"][i].arrive <= buf["write"][j].arrive
    /\ \A i \in DOMAIN buf["priority"] : buf["priority"][i].final \notin {"RD", "WR"}
    /\ \A i \in DOMAIN buf["read"] : buf["read"][i].final = "RD"
    /\ \A i \in DOMAIN buf["write"] : buf["write"][i].final = "WR"

Ordered == OrderedIn(buffer, now)

(* Fewer requests, with more of the controller's own.                      *)
LEMMA OrderedStays ==
    ASSUME NEW old, NEW new, NEW n, OrderedIn(old, n),
           \A b \in Buffers : \A i \in DOMAIN new[b] :
               \/ \E k \in DOMAIN old[b] : Like(new[b][i], old[b][k])
               \/ b = "priority" /\ new[b][i].final \notin {"RD", "WR"}
    PROVE  OrderedIn(new, n)
<1>1. ASSUME NEW b \in {"active", "read", "write"}, NEW i \in DOMAIN new[b]
      PROVE  new[b][i].arrive \in 0..n
  <2>1. PICK k \in DOMAIN old[b] : Like(new[b][i], old[b][k])
    BY DEF Buffers
  <2>2. old[b][k].arrive \in 0..n
    BY DEF OrderedIn
  <2> QED
    BY <2>1, <2>2 DEF Like
<1>2. ASSUME NEW i \in DOMAIN new["active"], NEW j \in DOMAIN new["write"],
             new["active"][i].final = "WR", new["write"][j].addr = new["active"][i].addr
      PROVE  new["active"][i].arrive <= new["write"][j].arrive
  <2>1. PICK k \in DOMAIN old["active"] : Like(new["active"][i], old["active"][k])
    BY DEF Buffers
  <2>2. PICK l \in DOMAIN old["write"] : Like(new["write"][j], old["write"][l])
    BY DEF Buffers
  <2>3. old["active"][k].arrive <= old["write"][l].arrive
    BY <1>2, <2>1, <2>2 DEF Like, OrderedIn
  <2> QED
    BY <2>1, <2>2, <2>3 DEF Like
<1>3. ASSUME NEW i \in DOMAIN new["priority"]
      PROVE  new["priority"][i].final \notin {"RD", "WR"}
  BY DEF Buffers, Like, OrderedIn
<1>4. ASSUME NEW i \in DOMAIN new["read"]
      PROVE  new["read"][i].final = "RD"
  BY DEF Buffers, Like, OrderedIn
<1>5. ASSUME NEW i \in DOMAIN new["write"]
      PROVE  new["write"][i].final = "WR"
  BY DEF Buffers, Like, OrderedIn
<1> QED
  BY <1>1, <1>2, <1>3, <1>4, <1>5 DEF OrderedIn

(* The scheduler's choice is the first of all by its own order.            *)
LEMMA BestFirst ==
    ASSUME NEW buf \in Seq(Entries), buf # <<>>
    PROVE  /\ Best(buf) \in DOMAIN buf
           /\ \A j \in DOMAIN buf \ {Best(buf)} : GoesFirst(buf, Best(buf), j)
<1> DEFINE D == DOMAIN buf
           T == IF \E i \in D : IsReady(buf[i]) THEN {i \in D : IsReady(buf[i])} ELSE D
           A == {buf[i].arrive : i \in T}
<1>1. /\ D # {} /\ D \subseteq Nat
      /\ \A i \in D : buf[i].arrive \in Nat /\ IsReady(buf[i]) \in BOOLEAN
  <2>1. D = 1..Len(buf) /\ Len(buf) \in Nat /\ Len(buf) > 0 /\ \A i \in D : buf[i] \in Entries
    <3> HIDE DEF Entries
    <3> QED
      OBVIOUS
  <2>2. \A e \in Entries : e.arrive \in Nat
    BY DEF Entries, EntriesOf
  <2>3. \A i \in D : IsReady(buf[i]) \in BOOLEAN
    BY DEF IsReady, CheckReady
  <2> HIDE DEF Entries, D
  <2> QED
    BY <2>1, <2>2, <2>3
<1> HIDE DEF D, Entries
<1>2. T # {} /\ T \subseteq D
  BY <1>1
<1>3. PICK a \in A : \A x \in A : a <= x
  <2>1. A # {} /\ A \in SUBSET Nat
    <3> HIDE DEF T
    <3> QED
      BY <1>1, <1>2
  <2> HIDE DEF A
  <2> QED
    BY <2>1, NatMin
<1> DEFINE F == {i \in T : buf[i].arrive = a}
<1>4. PICK m \in F : \A i \in F : m <= i
  <2>1. F # {} /\ F \in SUBSET Nat
    <3> HIDE DEF T
    <3> QED
      BY <1>1, <1>2
  <2> HIDE DEF F
  <2> QED
    BY <2>1, NatMin
<1>5. m \in T /\ m \in D /\ buf[m].arrive = a
  <2> HIDE DEF T
  <2> QED
    BY <1>2
<1>6. ASSUME NEW j \in D \ {m} PROVE GoesFirst(buf, m, j)
  <2>1. CASE IsReady(buf[m]) # IsReady(buf[j])
    BY <1>1, <1>5, <2>1 DEF GoesFirst
  <2>2. CASE IsReady(buf[m]) = IsReady(buf[j])
    <3>1. j \in T
      BY <1>1, <1>5, <2>2
    <3> HIDE DEF T
    <3>2. a <= buf[j].arrive
      BY <1>3, <3>1
    <3>3. buf[j].arrive = a => m < j
      BY <1>1, <1>4, <1>5, <3>1
    <3>4. a \in Nat /\ buf[j].arrive \in Nat
      BY <1>1, <1>5
    <3> QED
      BY <1>5, <2>2, <3>2, <3>3, <3>4 DEF GoesFirst
  <2> QED
    BY <2>1, <2>2
<1>7. \E i \in DOMAIN buf : \A j \in DOMAIN buf \ {i} : GoesFirst(buf, i, j)
  BY <1>5, <1>6 DEF D
<1> QED
  BY <1>7 DEF Best

(* Two writes of the same address are ready at the same time.  So a write  *)
(* that is scheduled is the oldest of its address in the write buffer, and *)
(* none of its address is active.                                          *)
LEMMA OldestScheduled ==
    ASSUME ControllerTypeOK, NEW s \in Schedule, s.from = "write"
    PROVE  /\ \A j \in DOMAIN buffer["write"] :
                 buffer["write"][j].final = s.entry.final /\ buffer["write"][j].addr = s.entry.addr
                     => s.entry.arrive <= buffer["write"][j].arrive
           /\ \A i \in DOMAIN buffer["active"] :
                 ~(buffer["active"][i].final = s.entry.final /\ buffer["active"][i].addr = s.entry.addr)
<1> DEFINE buf == buffer["write"]
<1>1. Source = "write" /\ s.at = Best(buf) /\ s.entry = buf[s.at] /\ s.at \in DOMAIN buf
  BY DEF Schedule
<1>2. buf \in Seq(Entries) /\ s.entry \in Entries /\ IsReady(s.entry)
  <2>1. buf \in Seq(Entries)
    <3> HIDE DEF Entries
    <3> QED
      BY DEF ControllerTypeOK, Buffers
  <2> QED
    BY <2>1, ScheduleFacts
<1>3. \A e : e.final = s.entry.final /\ e.addr = s.entry.addr => IsReady(e)
  BY <1>2 DEF IsReady, NextCommand
<1>4. ~ActiveReady
  BY <1>1 DEF Source
<1> HIDE DEF buf, Entries
<1>5. \A j \in DOMAIN buf \ {s.at} : GoesFirst(buf, s.at, j)
  <2>1. buf # <<>>
    BY <1>1, <1>2
  <2> QED
    BY <1>1, <1>2, <2>1, BestFirst
<1>6. ASSUME NEW j \in DOMAIN buf, buf[j].final = s.entry.final, buf[j].addr = s.entry.addr
      PROVE  s.entry.arrive <= buf[j].arrive
  <2>1. IsReady(buf[j]) = IsReady(buf[s.at])
    <3>1. IsReady(buf[j]) /\ IsReady(buf[s.at])
      BY <1>1, <1>2, <1>3, <1>6
    <3>2. IsReady(buf[j]) \in BOOLEAN /\ IsReady(buf[s.at]) \in BOOLEAN
      BY DEF IsReady, CheckReady
    <3> QED
      BY <3>1, <3>2
  <2>2. s.entry.arrive \in Nat
    BY <1>2 DEF Entries, EntriesOf
  <2>3. CASE j = s.at
    BY <1>1, <2>2, <2>3
  <2>4. CASE j # s.at
    <3>1. buf[s.at].arrive < buf[j].arrive \/ buf[s.at].arrive = buf[j].arrive
      BY <1>5, <2>1, <2>4 DEF GoesFirst
    <3>2. buf[j].arrive \in Nat
      <4>1. buf[j] \in Entries
        BY <1>2
      <4> QED
        BY <4>1 DEF Entries, EntriesOf
    <3> QED
      BY <1>1, <2>2, <3>1, <3>2
  <2> QED
    BY <2>3, <2>4
<1> QED
  BY <1>3, <1>4, <1>6 DEF ActiveReady, buf

(* The slots of the buffers after a tick, by those before it.              *)
LEMMA NowSlots ==
    ASSUME ControllerTypeOK, Ordered
    PROVE  OrderedIn(BuffersNow, now)
<1>1. /\ BuffersNow["priority"] = Priority
      /\ \A b \in {"active", "read", "write"} : BuffersNow[b] = buffer[b]
  BY NowType
<1>2. \A i \in DOMAIN Priority : Priority[i].final \notin {"RD", "WR"}
  <2> DEFINE t == buffer["priority"]
             u == [k \in 1..NumRanks |-> RefreshOf(k - 1)]
  <2>1. \A i \in DOMAIN t : t[i].final \notin {"RD", "WR"}
    BY DEF Ordered, OrderedIn
  <2>2. CASE timer # 1
    BY <2>1, <2>2 DEF Priority
  <2>3. CASE timer = 1
    <3>1. Priority = t \o u
      BY <2>3 DEF Priority
    <3>2. t \in Seq(Entries)
      <4> HIDE DEF Entries
      <4> QED
        BY DEF ControllerTypeOK, Buffers
    <3>3. u \in Seq(Entries) /\ \A k \in DOMAIN u : u[k].final \notin {"RD", "WR"}
      BY RefreshesType DEF RefreshOf
    <3> HIDE DEF t, u, Entries
    <3>4. ASSUME NEW i \in DOMAIN (t \o u) PROVE (t \o u)[i].final \notin {"RD", "WR"}
      <4>1. /\ i \in 1..(Len(t) + Len(u)) /\ Len(t) \in Nat /\ Len(u) \in Nat
            /\ DOMAIN t = 1..Len(t) /\ DOMAIN u = 1..Len(u)
            /\ (t \o u)[i] = IF i <= Len(t) THEN t[i] ELSE u[i - Len(t)]
        BY <3>2, <3>3
      <4>2. CASE i <= Len(t)
        BY <2>1, <4>1, <4>2 DEF t
      <4>3. CASE ~(i <= Len(t))
        <5>1. i - Len(t) \in DOMAIN u
          BY <4>1, <4>3
        <5> QED
          BY <3>3, <4>1, <4>3, <5>1
      <4> QED
        BY <4>2, <4>3
    <3> QED
      BY <3>1, <3>4
  <2> QED
    BY <2>2, <2>3
<1> QED
  BY <1>1, <1>2 DEF Ordered, OrderedIn

LEMMA AfterSlots ==
    ASSUME ControllerTypeOK, Ordered, NEW s \in Schedule
    PROVE  OrderedIn(BuffersAfter(s), now)
<1> DEFINE old == BuffersNow
           new == BuffersAfter(s)
           x == CloseRow(s.entry.addr)
<1>1. OrderedIn(old, now) /\ now \in Nat
  BY NowSlots DEF ControllerTypeOK
<1>2. new = old \/ new = [old EXCEPT !["priority"] = Append(@, x)]
  BY DEF BuffersAfter
<1>3. old \in [Buffers -> Seq(Entries)] /\ "priority" \in Buffers
  BY NowType DEF Buffers
<1>4. x.final \notin {"RD", "WR"}
  BY DEF CloseRow
<1> HIDE DEF new, old, x, Entries
<1>5. ASSUME NEW b \in Buffers, NEW i \in DOMAIN new[b]
      PROVE  \/ \E k \in DOMAIN old[b] : Like(new[b][i], old[b][k])
             \/ b = "priority" /\ new[b][i].final \notin {"RD", "WR"}
  <2>1. CASE i \in DOMAIN old[b] /\ new[b][i] = old[b][i]
    BY <2>1 DEF Like
  <2>2. (i \in DOMAIN old[b] /\ new[b][i] = old[b][i]) \/ (b = "priority" /\ new[b][i] = x)
    <3>1. CASE new = old \/ b # "priority"
      BY <1>2, <1>3, <3>1
    <3>2. CASE new = [old EXCEPT !["priority"] = Append(@, x)] /\ b = "priority"
      <4> DEFINE t == old["priority"]
      <4>1. t \in Seq(Entries) /\ new[b] = Append(t, x) /\ t = old[b]
        BY <1>3, <3>2
      <4> HIDE DEF t
      <4>2. i \in 1..(Len(t) + 1) /\ DOMAIN t = 1..Len(t) /\ Len(t) \in Nat
        BY <4>1
      <4>3. /\ \A k \in 1..Len(t) : Append(t, x)[k] = t[k]
            /\ Append(t, x)[Len(t) + 1] = x
        BY <4>1
      <4> QED
        BY <3>2, <4>1, <4>2, <4>3
    <3> QED
      BY <1>2, <3>1, <3>2
  <2> QED
    BY <1>4, <2>1, <2>2
<1> QED
  BY <1>1, <1>5, OrderedStays DEF new

LEMMA RemovedSlots ==
    ASSUME ControllerTypeOK, Ordered, NEW s \in Schedule
    PROVE  /\ OrderedIn(Removed(s), now)
           /\ \A b \in Buffers : \A i \in DOMAIN Removed(s)[b] :
                 \E k \in DOMAIN BuffersAfter(s)[b] : Removed(s)[b][i] = BuffersAfter(s)[b][k]
<1> DEFINE buf == BuffersAfter(s)
           b == s.from
           k == s.at
           t == BuffersAfter(s)[s.from]
           new == Removed(s)
<1>1. buf \in [Buffers -> Seq(Entries)] /\ b \in Buffers /\ k \in 1..Len(t)
  BY AfterFacts, ScheduleFacts
<1>2. OrderedIn(buf, now) /\ now \in Nat
  BY AfterSlots DEF ControllerTypeOK
<1>3. new = [buf EXCEPT ![b] = RemoveAt(t, k)]
  BY DEF Removed
<1>4. t \in Seq(Entries) /\ t = buf[b]
  <2> HIDE DEF Entries
  <2> QED
    BY <1>1
<1> HIDE DEF buf, b, k, t, new, Entries
<1>5. /\ RemoveAt(t, k) \in Seq(Entries) /\ Len(RemoveAt(t, k)) = Len(t) - 1
      /\ \A i \in 1..(Len(t) - 1) : RemoveAt(t, k)[i] = IF i < k THEN t[i] ELSE t[i + 1]
  BY <1>1, <1>4, RemoveAtFacts
<1>6. ASSUME NEW c \in Buffers, NEW i \in DOMAIN new[c]
      PROVE  \E l \in DOMAIN buf[c] : new[c][i] = buf[c][l]
  <2>1. CASE c # b
    BY <1>1, <1>3, <2>1
  <2>2. CASE c = b
    <3>1. new[c] = RemoveAt(t, k)
      BY <1>1, <1>3, <2>2
    <3>2. i \in 1..(Len(t) - 1) /\ Len(t) \in Nat /\ DOMAIN t = 1..Len(t)
      BY <1>4, <1>5, <3>1
    <3>3. i \in DOMAIN t /\ i + 1 \in DOMAIN t
      BY <3>2
    <3> QED
      BY <1>4, <1>5, <2>2, <3>1, <3>2, <3>3
  <2> QED
    BY <2>1, <2>2
<1>7. \A c \in Buffers : \A i \in DOMAIN new[c] : \E l \in DOMAIN buf[c] : Like(new[c][i], buf[c][l])
  BY <1>6 DEF Like
<1>8. OrderedIn(new, now)
  BY <1>2, <1>7, OrderedStays
<1> QED
  BY <1>6, <1>8 DEF new, buf

LEMMA MarkedSlots ==
    ASSUME ControllerTypeOK, Ordered, NEW s \in Schedule
    PROVE  OrderedIn(Marked(s), now)
<1> DEFINE buf == BuffersAfter(s)
           b == s.from
           k == s.at
           new == Marked(s)
<1>1. buf \in [Buffers -> Seq(Entries)] /\ b \in Buffers /\ k \in 1..Len(buf[b])
  BY AfterFacts, ScheduleFacts
<1>2. OrderedIn(buf, now) /\ now \in Nat
  BY AfterSlots DEF ControllerTypeOK
<1>3. new = [buf EXCEPT ![b][k].counted = TRUE]
  BY DEF Marked
<1> HIDE DEF buf, b, k, new, Entries
<1>4. k \in DOMAIN buf[b] /\ buf[b][k] \in Entries
  BY <1>1
<1>5. /\ \A c \in Buffers : DOMAIN new[c] = DOMAIN buf[c]
      /\ \A c \in Buffers : \A i \in DOMAIN buf[c] : ~(c = b /\ i = k) => new[c][i] = buf[c][i]
      /\ new[b][k] = [buf[b][k] EXCEPT !.counted = TRUE]
  BY <1>1, <1>3, <1>4
<1>6. Like(new[b][k], buf[b][k])
  BY <1>4, <1>5 DEF Entries, EntriesOf, Like
<1>7. ASSUME NEW c \in Buffers, NEW i \in DOMAIN new[c]
      PROVE  i \in DOMAIN buf[c] /\ Like(new[c][i], buf[c][i])
  BY <1>5, <1>6 DEF Like
<1>8. \A c \in Buffers : \A i \in DOMAIN new[c] : \E l \in DOMAIN buf[c] : Like(new[c][i], buf[c][l])
  BY <1>7
<1>9. OrderedIn(new, now)
  BY <1>2, <1>8, OrderedStays
<1> QED
  BY <1>9 DEF new

LEMMA OpenedSlots ==
    ASSUME ControllerTypeOK, Ordered, NEW s \in Schedule, s.from # "active", s.cmd = "ACT"
    PROVE  OrderedIn(Opened(s), now)
<1> DEFINE old == Removed(s)
           e == [s.entry EXCEPT !.counted = TRUE]
           last == Len(old["active"]) + 1
           new == Opened(s)
<1>1. CASE ~HasRoom(buffer["active"], MaxSize)
  <2>1. Opened(s) = Marked(s)
    BY <1>1 DEF Opened, Marked
  <2> QED
    BY <2>1, MarkedSlots
<1>2. CASE HasRoom(buffer["active"], MaxSize)
  <2>1. /\ old \in [Buffers -> Seq(Entries)] /\ OrderedIn(old, now) /\ "active" \in Buffers
        /\ now \in Nat
    BY RemovedType, RemovedSlots DEF Removed, Buffers, ControllerTypeOK
  <2>2. new = [old EXCEPT !["active"] = Append(@, e)]
    BY <1>2, OpenedRemoved
  <2>3. s.entry \in Entries /\ s.cmd = NextCommand(s.entry) /\ Like(e, s.entry)
    <3>1. s.entry \in Entries /\ s.cmd = NextCommand(s.entry)
      BY ScheduleFacts
    <3> QED
      BY <3>1 DEF Entries, EntriesOf, Like
  <2>4. s.from \in {"read", "write"} /\ s.entry.final = (IF s.from = "read" THEN "RD" ELSE "WR")
    <3>1. /\ s.from \in Buffers /\ s.at \in 1..Len(BuffersNow[s.from])
          /\ BuffersNow[s.from][s.at] = s.entry /\ BuffersNow \in [Buffers -> Seq(Entries)]
      BY ScheduleFacts, NowType
    <3>2. s.at \in DOMAIN BuffersNow[s.from]
      <4> HIDE DEF Entries
      <4> QED
        BY <3>1
    <3>3. s.from = "priority" => s.entry.final \notin {"RD", "WR"}
      BY <3>1, <3>2, NowSlots DEF OrderedIn
    <3>4. s.entry.final \in {"RD", "WR"}
      BY <2>3, EntryCommand
    <3>5. s.from \in {"read", "write"}
      BY <3>1, <3>3, <3>4 DEF Buffers
    <3> QED
      BY <3>1, <3>2, <3>5, NowSlots DEF OrderedIn
  <2>5. /\ new["read"] = old["read"] /\ new["write"] = old["write"]
        /\ new["priority"] = old["priority"]
        /\ \A i \in DOMAIN new["active"] :
              (i \in DOMAIN old["active"] /\ new["active"][i] = old["active"][i])
              \/ new["active"][i] = e
    <3> HIDE DEF new, old, e, Entries
    <3> QED
      BY <2>1, <2>2 DEF Buffers
  <2>6. s.entry.arrive \in 0..now
    <3>1. /\ s.at \in 1..Len(BuffersAfter(s)[s.from]) /\ BuffersAfter(s)[s.from][s.at] = s.entry
          /\ BuffersAfter(s)[s.from] = buffer[s.from] /\ buffer[s.from] \in Seq(Entries)
      BY <2>4, AfterFacts DEF ControllerTypeOK, Buffers
    <3>2. s.at \in DOMAIN buffer[s.from] /\ buffer[s.from][s.at] = s.entry
      <4> HIDE DEF Entries
      <4> QED
        BY <3>1
    <3> QED
      BY <2>4, <3>2 DEF Ordered, OrderedIn
  <2>7. ASSUME NEW j \in DOMAIN old["write"], old["write"][j].addr = s.entry.addr,
               s.entry.final = "WR"
        PROVE  s.entry.arrive <= old["write"][j].arrive
    <3>1. s.from = "write"
      BY <2>4, <2>7
    <3>2. PICK k \in DOMAIN BuffersAfter(s)["write"] : old["write"][j] = BuffersAfter(s)["write"][k]
      BY RemovedSlots DEF Buffers
    <3>3. BuffersAfter(s)["write"] = buffer["write"]
      BY AfterFacts
    <3>4. buffer["write"][k].final = "WR"
      BY <3>2, <3>3 DEF Ordered, OrderedIn
    <3> QED
      BY <2>7, <3>1, <3>2, <3>3, <3>4, OldestScheduled
  <2> HIDE DEF new, old, e, last
  <2>8. OrderedIn(new, now)
    <3>1. \A i \in DOMAIN new["active"] : new["active"][i].arrive \in 0..now
      BY <2>1, <2>3, <2>5, <2>6 DEF OrderedIn, Like
    <3>2. ASSUME NEW i \in DOMAIN new["active"], NEW j \in DOMAIN new["write"],
                 new["active"][i].final = "WR", new["write"][j].addr = new["active"][i].addr
          PROVE  new["active"][i].arrive <= new["write"][j].arrive
      <4>1. CASE i \in DOMAIN old["active"] /\ new["active"][i] = old["active"][i]
        BY <2>1, <2>5, <3>2, <4>1 DEF OrderedIn
      <4>2. CASE new["active"][i] = e
        BY <2>3, <2>5, <2>7, <3>2, <4>2 DEF Like
      <4> QED
        BY <2>5, <4>1, <4>2
    <3> QED
      BY <2>1, <2>5, <3>1, <3>2 DEF OrderedIn
  <2> QED
    BY <2>8 DEF new
<1> QED
  BY <1>1, <1>2

(* Later is as good.                                                       *)
LEMMA OrderedLater ==
    ASSUME NEW buf, NEW n \in Nat, NEW m \in Nat, n <= m, OrderedIn(buf, n)
    PROVE  OrderedIn(buf, m)
BY DEF OrderedIn

LEMMA InitOrdered == Init => Ordered
<1> SUFFICES ASSUME Init PROVE Ordered
  OBVIOUS
<1>1. \A b \in {"active", "priority", "read", "write"} : DOMAIN buffer[b] = {}
  BY DEF Init, Buffers
<1> QED
  BY <1>1 DEF Ordered, OrderedIn

(* What arrives is the youngest.                                           *)
LEMMA SendOrdered ==
    ASSUME ControllerTypeOK, Ordered, NEW r \in Requests, NEW addr \in AddrsOf[r],
           SendForwarded(r, addr) \/ SendEnqueued(r, addr)
    PROVE  Ordered'
<1>1. CASE SendForwarded(r, addr)
  BY <1>1 DEF SendForwarded, Ordered, OrderedIn
<1>2. CASE SendEnqueued(r, addr)
  <2> DEFINE e == [id |-> r, final |-> FinalOf[r], addr |-> addr,
                   arrive |-> now, counted |-> FALSE]
             b == BufferOf(r)
             new == buffer'
  <2>1. new = [buffer EXCEPT ![b] = Append(@, e)] /\ now' = now
    BY <1>2 DEF SendEnqueued
  <2>2. /\ buffer \in [Buffers -> Seq(Entries)] /\ now \in Nat
        /\ b \in {"read", "write"} /\ b \in Buffers
    BY DEF ControllerTypeOK, BufferOf, Buffers
  <2>3. /\ e.arrive = now
        /\ b = "read" => e.final = "RD"
        /\ b = "write" => e.final = "WR"
    BY ControllerAssumption DEF BufferOf
  <2> HIDE DEF e, b, new, Entries
  <2>4. /\ \A c \in Buffers \ {b} : new[c] = buffer[c]
        /\ \A i \in DOMAIN new[b] :
              (i \in DOMAIN buffer[b] /\ new[b][i] = buffer[b][i]) \/ new[b][i] = e
    <3> DEFINE t == buffer[b]
    <3>1. t \in Seq(Entries) /\ new[b] = Append(t, e) /\ \A c \in Buffers \ {b} : new[c] = buffer[c]
      BY <2>1, <2>2
    <3> HIDE DEF t
    <3>2. DOMAIN Append(t, e) = 1..(Len(t) + 1) /\ DOMAIN t = 1..Len(t) /\ Len(t) \in Nat
      BY <3>1
    <3>3. \A k \in 1..Len(t) : Append(t, e)[k] = t[k]
      BY <3>1
    <3>4. Append(t, e)[Len(t) + 1] = e
      BY <3>1
    <3>5. \A i \in 1..(Len(t) + 1) : i \in 1..Len(t) \/ i = Len(t) + 1
      BY <3>2
    <3> QED
      BY <3>1, <3>2, <3>3, <3>4, <3>5 DEF t
  <2>5. OrderedIn(buffer, now)
    BY DEF Ordered
  <2>6. new["active"] = buffer["active"] /\ new["priority"] = buffer["priority"]
    BY <2>2, <2>4 DEF Buffers
  <2>7. ASSUME NEW c \in {"read", "write"}, NEW i \in DOMAIN new[c]
        PROVE  (i \in DOMAIN buffer[c] /\ new[c][i] = buffer[c][i]) \/ (c = b /\ new[c][i] = e)
    BY <2>4, <2>7 DEF Buffers
  <2>8. OrderedIn(new, now)
    <3>1. ASSUME NEW c \in {"active", "read", "write"}, NEW i \in DOMAIN new[c]
          PROVE  new[c][i].arrive \in 0..now
      <4>1. now \in 0..now
        BY <2>2
      <4> QED
        BY <2>3, <2>5, <2>6, <2>7, <4>1 DEF OrderedIn
    <3>2. ASSUME NEW i \in DOMAIN new["active"], NEW j \in DOMAIN new["write"],
                 new["active"][i].final = "WR", new["write"][j].addr = new["active"][i].addr
          PROVE  new["active"][i].arrive <= new["write"][j].arrive
      <4>1. CASE j \in DOMAIN buffer["write"] /\ new["write"][j] = buffer["write"][j]
        BY <2>5, <2>6, <3>2, <4>1 DEF OrderedIn
      <4>2. CASE new["write"][j] = e
        <5>1. new["active"][i].arrive \in 0..now
          BY <3>1
        <5> QED
          BY <2>2, <2>3, <4>2, <5>1
      <4> QED
        BY <2>7, <4>1, <4>2
    <3>3. \A i \in DOMAIN new["read"] : new["read"][i].final = "RD"
      BY <2>3, <2>5, <2>7 DEF OrderedIn
    <3>4. \A i \in DOMAIN new["write"] : new["write"][i].final = "WR"
      BY <2>3, <2>5, <2>7 DEF OrderedIn
    <3> QED
      BY <2>5, <2>6, <3>1, <3>2, <3>3, <3>4 DEF OrderedIn
  <2> QED
    BY <2>1, <2>8 DEF new, Ordered, OrderedIn
<1> QED
  BY <1>1, <1>2

LEMMA StepOrdered == CtlInv /\ Ordered /\ [Next]_vars => Ordered'
<1> SUFFICES ASSUME CtlInv, Ordered, [Next]_vars PROVE Ordered'
  OBVIOUS
<1>1. ControllerTypeOK /\ ActiveRowOpen /\ now \in Nat
  BY DEF CtlInv, ControllerTypeOK
<1>2. CASE Send
  BY <1>1, <1>2, SendOrdered DEF Send
<1>3. CASE TickController
  <2>1. now' \in Nat /\ now <= now'
    <3>1. Housekeeping
      BY <1>3 DEF TickController, TickStall, TickFinish, TickClose, TickOpen, Serve
    <3>2. now' = now \/ now' = now + 1
      BY <3>1 DEF Housekeeping
    <3> QED
      BY <1>1, <3>2
  <2>2. OrderedIn(buffer', now)
    <3>1. CASE TickStall
      BY <1>1, <3>1, NowSlots DEF TickStall
    <3>2. ASSUME NEW s \in Schedule, TickFinish(s) PROVE OrderedIn(buffer', now)
      BY <1>1, <3>2, RemovedSlots DEF TickFinish, Removed
    <3>3. ASSUME NEW s \in Schedule, TickClose(s) PROVE OrderedIn(buffer', now)
      BY <1>1, <3>3, MarkedSlots DEF TickClose, Marked
    <3>4. ASSUME NEW s \in Schedule, TickOpen(s) PROVE OrderedIn(buffer', now)
      <4>1. s.from # "active"
        BY <1>1, <3>4, ActiveFinal DEF TickOpen
      <4> QED
        BY <1>1, <3>4, <4>1, OpenedSlots DEF TickOpen
    <3> QED
      BY <1>3, <3>1, <3>2, <3>3, <3>4 DEF TickController
  <2> DEFINE new == buffer'
             m == now'
  <2>3. OrderedIn(new, m)
    <3>1. m \in Nat /\ now <= m /\ OrderedIn(new, now)
      BY <2>1, <2>2
    <3> HIDE DEF new, m
    <3> QED
      BY <1>1, <3>1, OrderedLater
  <2> QED
    BY <2>3 DEF Ordered, OrderedIn
<1>4. CASE TickDram \/ UNCHANGED vars
  <2>1. UNCHANGED <<buffer, now>>
    BY <1>4 DEF TickDram, vars, controllerVars
  <2> QED
    BY <2>1 DEF Ordered, OrderedIn
<1> QED
  BY <1>2, <1>3, <1>4 DEF Next

LEMMA OrderedWrites == CtlInv /\ ServedInv /\ Ordered => OldestWriteFinishes
<1> SUFFICES ASSUME CtlInv, ServedInv, Ordered,
                    NEW e \in Waiting("active") \cup Waiting("write"), Finishes(e),
                    NEW w \in Waiting("active") \cup Waiting("write"),
                    w.addr = e.addr, w.final = "WR", e.final = "WR"
             PROVE  e.arrive <= w.arrive
  BY DEF OldestWriteFinishes
<1>1. ControllerTypeOK /\ ActiveRowOpen /\ HeldOnce(buffer) /\ OrderedIn(buffer, now) /\ now \in Nat
  BY DEF CtlInv, ServedInv, Apart, Ordered, ControllerTypeOK
<1>2. PICK s \in Schedule : s.entry = e /\ s.cmd = e.final
  BY DEF Finishes
<1>3. PICK b \in {"active", "write"} : e \in Waiting(b)
  OBVIOUS
<1>4. PICK i \in DOMAIN buffer[b] : e = buffer[b][i]
  BY <1>3 DEF Waiting
<1>5. PICK c \in {"active", "write"} : w \in Waiting(c)
  OBVIOUS
<1>6. PICK j \in DOMAIN buffer[c] : w = buffer[c][j]
  BY <1>5 DEF Waiting
(* The slot that is served is the slot of this entry.                      *)
<1>7. s.from = b /\ s.at = i
  <2> DEFINE buf == BuffersAfter(s)
  <2>1. HeldOnce(buf) /\ \A d \in {"active", "read", "write"} : buf[d] = buffer[d]
    BY <1>1, AfterHeld, AfterFacts
  <2>2. s.from \in Buffers /\ s.at \in DOMAIN buf[s.from] /\ buf[s.from][s.at] = e
    <3>1. /\ s.from \in Buffers /\ buf \in [Buffers -> Seq(Entries)]
          /\ s.at \in 1..Len(buf[s.from]) /\ buf[s.from][s.at] = e
      BY <1>1, <1>2, AfterFacts, ScheduleFacts
    <3> HIDE DEF Entries, buf
    <3> QED
      BY <3>1
  <2>3. b \in Buffers /\ i \in DOMAIN buf[b] /\ buf[b][i] = e
    BY <1>4, <2>1 DEF Buffers
  <2>4. e.id \in Requests
    BY <1>1, <1>2, ScheduledHeld
  <2> HIDE DEF buf
  <2> QED
    BY <2>1, <2>2, <2>3, <2>4 DEF HeldOnce
<1>8. e.arrive \in 0..now
  BY <1>1, <1>4 DEF OrderedIn
<1>9. CASE b = "active" /\ c = "active"
  <2>1. i = j
    BY <1>1, <1>4, <1>6, <1>9 DEF ActiveRowOpen
  <2> QED
    BY <1>1, <1>4, <1>6, <1>8, <1>9, <2>1
<1>10. CASE b = "active" /\ c = "write"
  BY <1>1, <1>4, <1>6, <1>10 DEF OrderedIn
<1>11. CASE b = "write" /\ c = "active"
  BY <1>1, <1>2, <1>6, <1>7, <1>11, OldestScheduled
<1>12. CASE b = "write" /\ c = "write"
  BY <1>1, <1>2, <1>6, <1>7, <1>12, OldestScheduled
<1> QED
  BY <1>9, <1>10, <1>11, <1>12

(* Writes to the same address are issued in the order they arrived,        *)
(* although ready requests overtake others, rows are opened for several    *)
(* requests at once and write mode comes and goes.                         *)
THEOREM WritesStayInOrder == Spec => WritesInOrder
BY InitCtlInv, StepCtlInv, InitServed, StepServed, InitOrdered, StepOrdered, OrderedWrites,
   PTL DEF Spec, WritesInOrder

-----------------------------------------------------------------------------
(* Refreshes keep up.                                                      *)

(* The entries of a buffer whose last command is f, and how many they are. *)
SlotsFor(t, f) == {i \in DOMAIN t : t[i].final = f}
Many(t, f) == Cardinality(SlotsFor(t, f))

LEMMA ManyNat ==
    ASSUME NEW S, NEW t \in Seq(S), NEW f
    PROVE  /\ IsFiniteSet(SlotsFor(t, f)) /\ SlotsFor(t, f) \subseteq 1..Len(t)
           /\ Many(t, f) \in Nat
           /\ Many(t, f) = 0 <=> SlotsFor(t, f) = {}
<1>1. SlotsFor(t, f) \in SUBSET (1..Len(t)) /\ Len(t) \in Nat
  BY DEF SlotsFor
<1>2. IsFiniteSet(1..Len(t))
  BY <1>1, FS_Interval
<1>3. IsFiniteSet(SlotsFor(t, f))
  BY <1>1, <1>2, FS_Subset
<1> QED
  BY <1>1, <1>3, FS_CardinalityType, FS_EmptySet DEF Many

(* Of a buffer with the same final commands.                               *)
LEMMA ManySame ==
    ASSUME NEW t, NEW u, NEW f, DOMAIN u = DOMAIN t, \A i \in DOMAIN t : u[i].final = t[i].final
    PROVE  Many(u, f) = Many(t, f)
<1>1. SlotsFor(u, f) = SlotsFor(t, f)
  BY DEF SlotsFor
<1> QED
  BY <1>1 DEF Many

(* One more at the end.                                                    *)
LEMMA ManyAppend ==
    ASSUME NEW S, NEW t \in Seq(S), NEW e \in S, NEW f
    PROVE  /\ Many(Append(t, e), f) <= Many(t, f) + 1
           /\ e.final # f => Many(Append(t, e), f) = Many(t, f)
<1> DEFINE u == Append(t, e)
<1>1. /\ Len(t) \in Nat /\ DOMAIN t = 1..Len(t) /\ DOMAIN u = 1..(Len(t) + 1)
      /\ \A i \in 1..Len(t) : u[i] = t[i]
      /\ u[Len(t) + 1] = e
  OBVIOUS
<1> HIDE DEF u
<1>2. IsFiniteSet(SlotsFor(t, f)) /\ Many(t, f) \in Nat
  BY ManyNat
<1>3. CASE e.final = f
  <2>1. SlotsFor(u, f) = SlotsFor(t, f) \cup {Len(t) + 1}
    BY <1>1, <1>3 DEF SlotsFor
  <2>2. Len(t) + 1 \notin SlotsFor(t, f)
    BY <1>1 DEF SlotsFor
  <2>3. Cardinality(SlotsFor(u, f)) = Cardinality(SlotsFor(t, f)) + 1
    BY <1>2, <2>1, <2>2, FS_AddElement
  <2> QED
    BY <1>2, <1>3, <2>3 DEF Many, u
<1>4. CASE e.final # f
  <2>1. SlotsFor(u, f) = SlotsFor(t, f)
    BY <1>1, <1>4 DEF SlotsFor
  <2> QED
    BY <1>2, <2>1 DEF Many, u
<1> QED
  BY <1>3, <1>4

(* The head removed.                                                       *)
LEMMA ManyTail ==
    ASSUME NEW S, NEW t \in Seq(S), 1 \in DOMAIN t, NEW f
    PROVE  /\ Many(RemoveAt(t, 1), f) <= Many(t, f)
           /\ t[1].final = f => Many(RemoveAt(t, 1), f) <= Many(t, f) - 1
<1> DEFINE u == RemoveAt(t, 1)
           A == SlotsFor(t, f) \ {1}
           B == SlotsFor(u, f)
           g == [i \in A |-> i - 1]
<1>1. Len(t) \in Nat /\ 1 \in 1..Len(t) /\ DOMAIN t = 1..Len(t)
  OBVIOUS
<1>2. DOMAIN u = 1..(Len(t) - 1) /\ \A k \in 1..(Len(t) - 1) : u[k] = t[k + 1]
  <2>1. /\ RemoveAt(t, 1) \in Seq(S) /\ Len(RemoveAt(t, 1)) = Len(t) - 1
        /\ \A k \in 1..(Len(t) - 1) : RemoveAt(t, 1)[k] = IF k < 1 THEN t[k] ELSE t[k + 1]
    BY <1>1, RemoveAtFacts
  <2> HIDE DEF u
  <2>2. u \in Seq(S) /\ Len(u) = Len(t) - 1
    BY <2>1, Zenon DEF u
  <2>3. DOMAIN u = 1..(Len(t) - 1)
    BY <2>2
  <2>4. ASSUME NEW k \in 1..(Len(t) - 1) PROVE u[k] = t[k + 1]
    <3>1. ~(k < 1)
      BY <1>1
    <3> QED
      BY <2>1, <3>1, Zenon DEF u
  <2> QED
    BY <2>3, <2>4, Zenon
<1> HIDE DEF u
<1>3. /\ IsFiniteSet(SlotsFor(t, f)) /\ SlotsFor(t, f) \subseteq 1..Len(t)
      /\ Many(t, f) \in Nat
  BY ManyNat
<1>4. /\ IsFiniteSet(A)
      /\ Cardinality(A) = IF 1 \in SlotsFor(t, f) THEN Many(t, f) - 1 ELSE Many(t, f)
  BY <1>3, FS_RemoveElement DEF Many
<1>5. g \in Surjection(A, B)
  <2>1. ASSUME NEW i \in A PROVE i - 1 \in B
    <3>1. i \in 2..Len(t) /\ t[i].final = f
      BY <1>1, <1>3 DEF SlotsFor
    <3>2. i - 1 \in 1..(Len(t) - 1) /\ (i - 1) + 1 = i
      BY <1>1, <3>1
    <3> QED
      BY <1>2, <3>1, <3>2 DEF SlotsFor
  <2>2. ASSUME NEW k \in B PROVE \E i \in A : g[i] = k
    <3>1. k \in 1..(Len(t) - 1) /\ t[k + 1].final = f
      BY <1>2 DEF SlotsFor
    <3>2. k + 1 \in A /\ (k + 1) - 1 = k
      BY <1>1, <3>1 DEF SlotsFor
    <3> QED
      BY <3>2
  <2>3. g \in [A -> B]
    BY <2>1
  <2> QED
    BY <2>2, <2>3 DEF Surjection
<1>6. Many(u, f) <= Cardinality(A)
  BY <1>4, <1>5, FS_Surjection DEF Many
<1>7. Many(u, f) \in Nat
  <2>1. IsFiniteSet(B)
    BY <1>4, <1>5, FS_Surjection
  <2> QED
    BY <2>1, FS_CardinalityType DEF Many
<1>8. t[1].final = f <=> 1 \in SlotsFor(t, f)
  BY <1>1 DEF SlotsFor
<1> HIDE DEF A
<1>9. Many(u, f) <= Many(t, f) /\ (t[1].final = f => Many(u, f) <= Many(t, f) - 1)
  BY <1>3, <1>4, <1>6, <1>7, <1>8
<1> QED
  BY <1>9 DEF u

LEMMA NextNumbers ==
    ASSUME NEW n \in Nat, NEW m \in Nat
    PROVE  IsFiniteSet((n + 1)..(n + m)) /\ Cardinality((n + 1)..(n + m)) = m
<1> DEFINE a == n + 1
           b == n + m
<1>1. a \in Int /\ b \in Int /\ m = IF a > b THEN 0 ELSE b - a + 1
  OBVIOUS
<1> HIDE DEF a, b
<1>2. IsFiniteSet(a..b) /\ Cardinality(a..b) = m
  BY <1>1, FS_Interval
<1> QED
  BY <1>2 DEF a, b

(* With the refreshes that become due.                                     *)
LEMMA ManyDue ==
    ASSUME ControllerTypeOK
    PROVE  /\ Many(Priority, "PRE") = Many(buffer["priority"], "PRE")
           /\ timer = 1 => Many(Priority, "REFab") <= Many(buffer["priority"], "REFab") + NumRanks
           /\ timer # 1 => Priority = buffer["priority"]
<1> DEFINE t == buffer["priority"]
           d == [k \in 1..NumRanks |-> RefreshOf(k - 1)]
           n == Len(t)
<1>1. t \in Seq(Entries) /\ d \in Seq(Entries) /\ Len(d) = NumRanks /\ NumRanks \in Nat
  BY RefreshesType, ControllerAssumption DEF ControllerTypeOK, Buffers
<1>2. \A k \in 1..NumRanks : d[k].final = "REFab"
  BY DEF RefreshOf
<1>3. timer # 1 => Priority = t
  BY DEF Priority
<1>4. timer = 1 => Priority = t \o d
  BY DEF Priority
<1> HIDE DEF t, d, Entries
<1>5. /\ n \in Nat /\ DOMAIN t = 1..n /\ DOMAIN (t \o d) = 1..(n + NumRanks)
      /\ \A i \in 1..n : (t \o d)[i] = t[i]
      /\ \A i \in (n + 1)..(n + NumRanks) : (t \o d)[i] = d[i - n]
  BY <1>1
<1>6. \A i \in (n + 1)..(n + NumRanks) : (t \o d)[i].final = "REFab"
  <2> SUFFICES ASSUME NEW i \in (n + 1)..(n + NumRanks) PROVE (t \o d)[i].final = "REFab"
    OBVIOUS
  <2>1. i - n \in 1..NumRanks
    BY <1>1, <1>5
  <2> QED
    BY <1>2, <1>5, <2>1
<1>7. Many(t \o d, "PRE") = Many(t, "PRE")
  <2>1. SlotsFor(t \o d, "PRE") = SlotsFor(t, "PRE")
    BY <1>1, <1>5, <1>6 DEF SlotsFor
  <2> QED
    BY <2>1 DEF Many
<1>8. Many(t \o d, "REFab") <= Many(t, "REFab") + NumRanks
  <2> DEFINE A == SlotsFor(t, "REFab")
             N == (n + 1)..(n + NumRanks)
  <2>1. IsFiniteSet(A) /\ Cardinality(A) \in Nat /\ A \subseteq 1..n
    BY <1>1, ManyNat DEF Many
  <2>2. IsFiniteSet(N) /\ Cardinality(N) = NumRanks
    BY <1>1, <1>5, NextNumbers
  <2>3. A \cap N = {}
    BY <1>1, <1>5, <2>1
  <2>4. SlotsFor(t \o d, "REFab") = A \cup N
    BY <1>1, <1>5, <1>6 DEF SlotsFor
  <2> HIDE DEF A, N
  <2>5. Cardinality(A \cup N) = Cardinality(A) + NumRanks
    <3>1. Cardinality(A \cap N) = 0
      BY <2>3, FS_EmptySet
    <3>2. Cardinality(A \cup N) = Cardinality(A) + Cardinality(N) - Cardinality(A \cap N)
      BY <2>1, <2>2, FS_Union
    <3> QED
      BY <1>1, <2>1, <2>2, <3>1, <3>2
  <2>6. Cardinality(A) = Many(t, "REFab")
    BY DEF A, Many
  <2>7. Many(t \o d, "REFab") = Many(t, "REFab") + NumRanks
    BY <2>4, <2>5, <2>6 DEF Many
  <2> QED
    BY <1>1, <2>1, <2>6, <2>7
<1> QED
  BY <1>3, <1>4, <1>7, <1>8 DEF t

(* The ranks with a row open.                                              *)
OpenRanks(st) == {r \in Pchs : \E b \in RankBanks(r) : st[b] = "Opened"}

LEMMA OpenRanksFew ==
    ASSUME NEW st
    PROVE  /\ IsFiniteSet(OpenRanks(st)) /\ Cardinality(OpenRanks(st)) \in Nat
           /\ Cardinality(OpenRanks(st)) <= NumRanks
<1>1. NumRanks \in Nat /\ Pchs = (0 + 0)..(NumRanks - 1)
  BY ControllerAssumption
<1>2. IsFiniteSet(Pchs) /\ Cardinality(Pchs) = NumRanks
  <2> DEFINE a == 0
             b == NumRanks - 1
  <2>1. a \in Int /\ b \in Int /\ NumRanks = (IF a > b THEN 0 ELSE b - a + 1) /\ Pchs = a..b
    BY <1>1, ControllerAssumption
  <2> HIDE DEF a, b
  <2>2. IsFiniteSet(a..b) /\ Cardinality(a..b) = NumRanks
    BY <2>1, FS_Interval
  <2> QED
    BY <2>1, <2>2
<1>3. OpenRanks(st) \in SUBSET Pchs
  BY DEF OpenRanks
<1>4. IsFiniteSet(OpenRanks(st)) /\ Cardinality(OpenRanks(st)) <= Cardinality(Pchs)
  BY <1>2, <1>3, FS_Subset
<1> QED
  BY <1>2, <1>4, FS_CardinalityType

(* The number of ranks with a row open only falls while no ACT is issued,  *)
(* and it falls with a PREA.                                               *)
LEMMA FewerRanks ==
    ASSUME NEW st, NEW su, OpenRanks(su) \subseteq OpenRanks(st)
    PROVE  Cardinality(OpenRanks(su)) <= Cardinality(OpenRanks(st))
<1>1. OpenRanks(su) \in SUBSET OpenRanks(st) /\ IsFiniteSet(OpenRanks(st))
  BY OpenRanksFew
<1> QED
  BY <1>1, FS_Subset

LEMMA OneRankFewer ==
    ASSUME NEW st, NEW su, NEW r \in OpenRanks(st), OpenRanks(su) \subseteq OpenRanks(st) \ {r}
    PROVE  Cardinality(OpenRanks(su)) <= Cardinality(OpenRanks(st)) - 1
<1>1. OpenRanks(su) \in SUBSET (OpenRanks(st) \ {r}) /\ IsFiniteSet(OpenRanks(st))
  BY OpenRanksFew
<1>2. /\ IsFiniteSet(OpenRanks(st) \ {r})
      /\ Cardinality(OpenRanks(st) \ {r}) = Cardinality(OpenRanks(st)) - 1
  BY <1>1, FS_RemoveElement
<1> QED
  BY <1>1, <1>2, FS_Subset

LEMMA ServeRanks ==
    ASSUME ControllerTypeOK, DdrInv, NEW s \in Schedule, Serve(s), s.cmd # "ACT"
    PROVE  /\ Cardinality(OpenRanks(state'[Ch])) <= Cardinality(OpenRanks(state[Ch]))
           /\ s.cmd = "PREA" =>
                 Cardinality(OpenRanks(state'[Ch])) <= Cardinality(OpenRanks(state[Ch])) - 1
<1> DEFINE e == s.entry
<1>1. /\ s.cmd \in Commands /\ Allowed(Ch, s.cmd, e.addr) /\ IssueCommand(Ch, s.cmd, e.addr)
      /\ DdrTypeOK /\ Ch \in Channels
  BY ServeDevice, ControllerAssumption DEF ControllerTypeOK
<1>2. e \in Entries /\ s.cmd = NextCommand(e)
  BY ScheduleFacts
<1>3. ASSUME NEW b \in Banks, state'[Ch][b] = "Opened"
      PROVE  state[Ch][b] = "Opened" /\ ~(s.cmd = "PREA" /\ Reaches(s.cmd, e.addr.path, b))
  <2>1. CASE ~Reaches(s.cmd, e.addr.path, b)
    BY <1>1, <1>3, <2>1, BankAfter
  <2>2. CASE Reaches(s.cmd, e.addr.path, b)
    <3>1. state'[Ch][b] = StateAfter(state[Ch][b], s.cmd)
      BY <1>1, <2>2, BankAfter
    <3> QED
      BY <1>3, <3>1 DEF StateAfter
  <2> QED
    BY <2>1, <2>2
<1>4. OpenRanks(state'[Ch]) \subseteq OpenRanks(state[Ch])
  BY <1>3 DEF OpenRanks, RankBanks
<1>5. CASE s.cmd = "PREA"
  <2>1. e.final = "REFab" /\ e.addr \in RankAddrs
    BY <1>2, <1>5, EntryCommand
  <2>2. PICK r \in Pchs : e.addr.path = <<r, Each, Each>>
    BY <2>1 DEF RankAddrs
  <2>3. AllClosedPreq(Ch, "REFab", r) = "PREA"
    BY <1>2, <1>5, <2>1, <2>2 DEF NextCommand, Preq
  <2>4. r \in OpenRanks(state[Ch])
    BY <2>3 DEF AllClosedPreq, OpenRanks
  <2>5. ASSUME NEW b \in RankBanks(r) PROVE state'[Ch][b] # "Opened"
    <3>1. b \in Banks /\ Reaches(s.cmd, e.addr.path, b)
      BY <1>5, <2>2 DEF RankBanks, Reaches
    <3> QED
      BY <1>3, <1>5, <3>1
  <2>6. OpenRanks(state'[Ch]) \subseteq OpenRanks(state[Ch]) \ {r}
    BY <1>4, <2>5 DEF OpenRanks
  <2> QED
    BY <1>4, <2>4, <2>6, FewerRanks, OneRankFewer
<1> QED
  BY <1>4, <1>5, FewerRanks

-----------------------------------------------------------------------------
(* The waits.  No node keeps a command back for m cycles or more.          *)
WaitsBelow(m) == \A n \in Nodes, d \in Commands : wait[Ch][n][d] = 0 \/ wait[Ch][n][d] < m

(* A command makes none of them longer than its own.                       *)
LEMMA WaitBound ==
    ASSUME NEW rest, NEW longest, PeriodSuffices(rest, longest), DdrTypeOK,
           NEW n \in Nodes, NEW cmd \in Commands, NEW path, NEW d \in Commands
    PROVE  \/ WaitAfter(Ch, n, cmd, path, d) <= wait[Ch][n][d]
           \/ WaitAfter(Ch, n, cmd, path, d) <= rest[cmd]
<1> DEFINE x == wait[Ch][n][d]
           y == TableDelay(Ch, n, cmd, d)
           z == SiblingGap[Len(n)][cmd][d]
           g == Gap[Len(n)][cmd][d]
           r == rest[cmd]
           h == IF cmd = "ACT" /\ d = "ACT" THEN Faw - Recorded(Ch, n, cmd)[FawDepth] ELSE 0
<1>1. x \in Nat /\ z \in Int /\ g \in Int /\ r \in Nat /\ Ch \in Channels
  <2>1. Ch \in Channels /\ Len(n) \in Levels
    BY NodeLevel, ControllerAssumption
  <2>2. z \in Int /\ g \in Int
    BY <2>1, TreeAssumption, Ddr4Assumption
  <2>3. r \in Nat
    BY DEF PeriodSuffices
  <2>4. x \in Nat
    BY <2>1 DEF DdrTypeOK
  <2> QED
    BY <2>1, <2>2, <2>3, <2>4
<1>2. g <= r /\ z <= r
  <2>1. Len(n) \in Levels /\ DOMAIN rest = Commands
    BY NodeLevel DEF PeriodSuffices
  <2> QED
    BY <2>1 DEF PeriodSuffices, RestsWithin
<1>3. h \in Int /\ h <= r
  <2>1. Recorded(Ch, n, cmd)[FawDepth] \in 0..Faw
    <3>1. FawDepth \in 1..FawDepth
      BY TreeAssumption
    <3> QED
      BY <1>1, <3>1, RecordedType DEF DdrTypeOK
  <2>2. cmd = "ACT" => Faw <= r
    BY DEF PeriodSuffices, RestsWithin
  <2>3. Faw \in Nat
    BY TreeAssumption
  <2> HIDE DEF r
  <2> QED
    BY <1>1, <2>1, <2>2, <2>3
<1>4. y = Larger(g, h)
  BY DEF TableDelay
<1>5. WaitAfter(Ch, n, cmd, path, d) =
        Larger(x, IF OnPath(n, path) THEN y ELSE IF IsSibling(n, path) THEN z ELSE 0)
  BY DEF WaitAfter
<1> HIDE DEF x, y, z, g, h, r
<1>6. y <= r /\ y \in Int
  BY <1>1, <1>2, <1>3, <1>4 DEF Larger
<1>7. WaitAfter(Ch, n, cmd, path, d) <= x \/ WaitAfter(Ch, n, cmd, path, d) <= r
  BY <1>1, <1>2, <1>5, <1>6 DEF Larger
<1> QED
  BY <1>7 DEF x, r

LEMMA ServeWaits ==
    ASSUME NEW rest, NEW longest, PeriodSuffices(rest, longest), ControllerTypeOK, DdrInv,
           NEW s \in Schedule, Serve(s), NEW m \in Nat, WaitsBelow(m)
    PROVE  /\ s.cmd \in Commands /\ rest[s.cmd] \in Nat /\ rest[s.cmd] <= longest
           /\ WaitsBelow(m + rest[s.cmd] + 1)'
           /\ longest < m => WaitsBelow(m)'
<1>1. s.cmd \in Commands /\ IssueCommand(Ch, s.cmd, s.entry.addr) /\ DdrTypeOK /\ Ch \in Channels
  BY ServeDevice, ControllerAssumption DEF ControllerTypeOK
<1> DEFINE r == rest[s.cmd]
<1>2. r \in Nat /\ r <= longest /\ longest \in Nat
  BY <1>1 DEF PeriodSuffices, RestsWithin
<1>3. ASSUME NEW n \in Nodes, NEW d \in Commands
      PROVE  /\ wait'[Ch][n][d] = 0 \/ wait'[Ch][n][d] < m + r + 1
             /\ longest < m => wait'[Ch][n][d] = 0 \/ wait'[Ch][n][d] < m
  <2> DEFINE x == wait[Ch][n][d]
             w == wait'[Ch][n][d]
  <2>1. w = WaitAfter(Ch, n, s.cmd, s.entry.addr.path, d)
    BY <1>1 DEF IssueCommand, DdrTypeOK
  <2>2. w <= x \/ w <= r
    BY <1>1, <2>1, WaitBound
  <2>3. x \in Nat /\ w \in Nat
    BY <1>1, <2>1, WaitGrows DEF DdrTypeOK
  <2>4. x = 0 \/ x < m
    BY DEF WaitsBelow
  <2> HIDE DEF x, w, r
  <2>5. (w = 0 \/ w < m + r + 1) /\ (longest < m => w = 0 \/ w < m)
    BY <1>2, <2>2, <2>3, <2>4
  <2> QED
    BY <2>5 DEF w
<1> QED
  BY <1>1, <1>2, <1>3 DEF WaitsBelow

LEMMA TickWaits ==
    ASSUME DdrTypeOK, DdrTick, NEW m \in Nat
    PROVE  /\ WaitsBelow(m + 1) => WaitsBelow(m)'
           /\ WaitsBelow(m) => WaitsBelow(m)'
<1>1. ASSUME NEW n \in Nodes, NEW d \in Commands
      PROVE  /\ wait[Ch][n][d] \in Nat
             /\ wait'[Ch][n][d] = IF wait[Ch][n][d] = 0 THEN 0 ELSE wait[Ch][n][d] - 1
  BY ControllerAssumption DEF DdrTypeOK, DdrTick, TreeTick
<1> QED
  BY <1>1 DEF WaitsBelow

-----------------------------------------------------------------------------
(* What is left to do before the refreshes that wait are all issued.       *)
AccessWork(rest) == Larger(rest["RD"], rest["WR"]) + rest["PRE"] + 2

Work(rest, buf, st) ==
    Len(buf["active"]) * AccessWork(rest)
    + Many(buf["priority"], "PRE") * (rest["PRE"] + 1)
    + Many(buf["priority"], "REFab") * (rest["REFab"] + 1)
    + Cardinality(OpenRanks(st)) * (rest["PREA"] + 1)

(* A row that is to be closed was accessed by an active request, or by one *)
(* that found nothing else to do.                                          *)
FewInTheWay(buf) ==
    /\ Len(buf["active"]) <= MaxSize + 1
    /\ Len(buf["active"]) + Many(buf["priority"], "PRE") <= MaxSize + 2

LEMMA ScheduleOrder ==
    ASSUME NEW s \in Schedule
    PROVE  /\ s.from = "priority" => s.at = 1
           /\ s.from \in {"read", "write"} => Priority = <<>>
BY DEF Schedule, Source

(* The row policy asks for a row to be closed after an access only.        *)
LEMMA AfterPriority ==
    ASSUME ControllerTypeOK, NEW s \in Schedule
    PROVE  /\ Many(BuffersAfter(s)["priority"], "PRE") <= Many(Priority, "PRE") + 1
           /\ Many(BuffersAfter(s)["priority"], "REFab") = Many(Priority, "REFab")
           /\ s.cmd \notin {"RD", "WR"} => BuffersAfter(s)["priority"] = Priority
<1>1. BuffersNow["priority"] = Priority /\ Priority \in Seq(Entries)
  BY NowType, PriorityType
<1>2. Many(Priority, "PRE") \in Nat /\ Many(Priority, "REFab") \in Nat
  BY <1>1, ManyNat
<1>3. CASE ~(CapReached(s) /\ HasRoom(Priority, PriorityMax))
  <2>1. BuffersAfter(s)["priority"] = Priority
    BY <1>1, <1>3 DEF BuffersAfter
  <2> QED
    BY <1>2, <2>1
<1>4. CASE CapReached(s) /\ HasRoom(Priority, PriorityMax)
  <2> DEFINE new == CloseRow(s.entry.addr)
  <2>1. s.cmd \in {"RD", "WR"} /\ new.final = "PRE"
    BY <1>4 DEF CapReached, CloseRow
  <2>2. new \in Entries
    <3>1. s.entry \in Entries /\ s.cmd = NextCommand(s.entry)
      BY ScheduleFacts
    <3>2. s.entry.addr \in BankAddrs
      BY <2>1, <3>1, EntryCommand
    <3> QED
      BY <3>2, CloseRowType
  <2>3. BuffersAfter(s)["priority"] = Append(Priority, new)
    BY <1>1, <1>4, NowType DEF BuffersAfter, Buffers
  <2> HIDE DEF new, Entries
  <2>4. /\ Many(Append(Priority, new), "PRE") <= Many(Priority, "PRE") + 1
        /\ Many(Append(Priority, new), "REFab") = Many(Priority, "REFab")
    BY <1>1, <2>1, <2>2, ManyAppend
  <2> QED
    BY <2>1, <2>3, <2>4
<1> QED
  BY <1>3, <1>4

(* An active request leaves with its access.                               *)
LEMMA ServeActive ==
    ASSUME CtlInv, NEW s \in Schedule, s.from = "active",
           TickFinish(s) \/ TickClose(s) \/ TickOpen(s)
    PROVE  /\ s.cmd \in {"RD", "WR"}
           /\ Len(buffer["active"]) \in Nat \ {0}
           /\ Len(buffer'["active"]) = Len(buffer["active"]) - 1
           /\ Many(buffer'["priority"], "PRE") <= Many(Priority, "PRE") + 1
           /\ Many(buffer'["priority"], "REFab") = Many(Priority, "REFab")
<1>1. ControllerTypeOK /\ ActiveRowOpen
  BY DEF CtlInv
<1>2. s.cmd = s.entry.final
  BY <1>1, ActiveFinal
<1>3. buffer' = [BuffersAfter(s) EXCEPT !["active"] = RemoveAt(@, s.at)]
  BY <1>2 DEF TickFinish, TickClose, TickOpen
<1>4. /\ BuffersAfter(s) \in [Buffers -> Seq(Entries)]
      /\ BuffersAfter(s)["active"] = buffer["active"]
      /\ s.at \in 1..Len(buffer["active"]) /\ buffer["active"][s.at] = s.entry
  BY <1>1, AfterFacts
<1>5. s.cmd \in {"RD", "WR"}
  <2>1. s.at \in DOMAIN buffer["active"]
    <3>1. buffer["active"] \in Seq(Entries)
      BY <1>1 DEF ControllerTypeOK, Buffers
    <3> HIDE DEF Entries
    <3> QED
      BY <1>4, <3>1
  <2>2. s.entry.final \in {"RD", "WR"}
    BY <1>1, <1>4, <2>1 DEF ActiveRowOpen
  <2> QED
    BY <1>2, <2>2
<1>6. /\ buffer'["active"] = RemoveAt(buffer["active"], s.at)
      /\ buffer'["priority"] = BuffersAfter(s)["priority"]
  BY <1>3, <1>4 DEF Buffers
<1>7. buffer["active"] \in Seq(Entries)
  BY <1>1 DEF ControllerTypeOK, Buffers
<1> HIDE DEF Entries
<1>8. Len(buffer["active"]) \in Nat \ {0} /\ Len(buffer'["active"]) = Len(buffer["active"]) - 1
  <2>1. Len(RemoveAt(buffer["active"], s.at)) = Len(buffer["active"]) - 1
    BY <1>4, <1>7, RemoveAtFacts
  <2>2. Len(buffer["active"]) \in Nat
    BY <1>7
  <2> QED
    BY <1>4, <1>6, <2>1, <2>2
<1> QED
  BY <1>1, <1>5, <1>6, <1>8, AfterPriority

(* The head of the priority buffer closes a row, closes the rows of a rank *)
(* or refreshes it.                                                        *)
LEMMA ServePriority ==
    ASSUME CtlInv, Ordered, NEW s \in Schedule, s.from = "priority",
           TickFinish(s) \/ TickClose(s) \/ TickOpen(s)
    PROVE  /\ Len(buffer'["active"]) = Len(buffer["active"])
           /\ s.cmd \in {"PRE", "PREA", "REFab"}
           /\ Many(buffer'["priority"], "PRE") <= Many(Priority, "PRE")
           /\ Many(buffer'["priority"], "REFab") <= Many(Priority, "REFab")
           /\ s.cmd = "PRE" => Many(buffer'["priority"], "PRE") <= Many(Priority, "PRE") - 1
           /\ s.cmd = "REFab" => Many(buffer'["priority"], "REFab") <= Many(Priority, "REFab") - 1
<1>1. ControllerTypeOK
  BY DEF CtlInv
<1>2. /\ s.entry \in Entries /\ s.cmd = NextCommand(s.entry) /\ s.at = 1
      /\ 1 \in 1..Len(Priority) /\ Priority[1] = s.entry
      /\ BuffersNow["priority"] = Priority
  BY <1>1, ScheduleFacts, ScheduleOrder, NowType
<1>3. Priority \in Seq(Entries)
  BY <1>1, PriorityType
<1>4. 1 \in DOMAIN Priority
  <2> HIDE DEF Entries
  <2> QED
    BY <1>2, <1>3
<1>5. OrderedIn(BuffersNow, now)
  BY <1>1, NowSlots
<1>6. s.entry.final \in {"PRE", "REFab"}
  <2>1. s.entry.final \notin {"RD", "WR"}
    BY <1>2, <1>4, <1>5 DEF OrderedIn
  <2> QED
    BY <1>2, <2>1, EntryCommand
<1>7. s.cmd \in {"PRE", "PREA", "REFab"} /\ (s.cmd # "PREA" => s.cmd = s.entry.final)
  BY <1>2, <1>6, EntryCommand
<1>8. /\ BuffersAfter(s) \in [Buffers -> Seq(Entries)] /\ BuffersAfter(s)["priority"] = Priority
      /\ BuffersAfter(s)["active"] = buffer["active"]
  BY <1>1, <1>7, AfterFacts, AfterPriority
<1>9. CASE s.cmd = s.entry.final
  <2>1. buffer' = [BuffersAfter(s) EXCEPT !["priority"] = RemoveAt(@, 1)]
    BY <1>2, <1>9 DEF TickFinish, TickClose, TickOpen
  <2>2. buffer'["priority"] = RemoveAt(Priority, 1) /\ buffer'["active"] = buffer["active"]
    BY <1>8, <2>1 DEF Buffers
  <2> HIDE DEF Entries
  <2>3. \A f \in {"PRE", "REFab"} :
          /\ Many(RemoveAt(Priority, 1), f) <= Many(Priority, f)
          /\ Priority[1].final = f => Many(RemoveAt(Priority, 1), f) <= Many(Priority, f) - 1
    BY <1>3, <1>4, ManyTail
  <2>4. Many(buffer'["priority"], "PRE") <= Many(Priority, "PRE")
    BY <2>2, <2>3
  <2>5. Many(buffer'["priority"], "REFab") <= Many(Priority, "REFab")
    BY <2>2, <2>3
  <2>6. s.cmd = "PRE" => Many(buffer'["priority"], "PRE") <= Many(Priority, "PRE") - 1
    BY <1>2, <1>9, <2>2, <2>3
  <2>7. s.cmd = "REFab" => Many(buffer'["priority"], "REFab") <= Many(Priority, "REFab") - 1
    BY <1>2, <1>9, <2>2, <2>3
  <2> QED
    BY <1>7, <2>2, <2>4, <2>5, <2>6, <2>7
<1>10. CASE s.cmd # s.entry.final
  <2> DEFINE u == [Priority EXCEPT ![1].counted = TRUE]
  <2>1. s.cmd = "PREA" /\ buffer' = [BuffersAfter(s) EXCEPT !["priority"][1].counted = TRUE]
    BY <1>2, <1>7, <1>10 DEF TickFinish, TickClose, TickOpen
  <2>2. buffer'["priority"] = u /\ buffer'["active"] = buffer["active"]
    BY <1>8, <2>1 DEF Buffers
  <2>3. DOMAIN u = DOMAIN Priority /\ \A i \in DOMAIN Priority : u[i].final = Priority[i].final
    <3>1. u[1] = [Priority[1] EXCEPT !.counted = TRUE]
      BY <1>4
    <3>2. u[1].final = Priority[1].final
      BY <1>2, <3>1 DEF Entries, EntriesOf
    <3> QED
      BY <1>4, <3>2
  <2> HIDE DEF u, Entries
  <2>4. Many(u, "PRE") = Many(Priority, "PRE") /\ Many(u, "REFab") = Many(Priority, "REFab")
    BY <2>3, ManySame
  <2>5. Many(Priority, "PRE") \in Nat /\ Many(Priority, "REFab") \in Nat
    BY <1>3, ManyNat
  <2>6. /\ Many(buffer'["priority"], "PRE") = Many(Priority, "PRE")
        /\ Many(buffer'["priority"], "REFab") = Many(Priority, "REFab")
    BY <2>2, <2>4
  <2>7. /\ Many(buffer'["priority"], "PRE") <= Many(Priority, "PRE")
        /\ Many(buffer'["priority"], "REFab") <= Many(Priority, "REFab")
    BY <2>5, <2>6
  <2> QED
    BY <2>1, <2>2, <2>7
<1> QED
  BY <1>9, <1>10

(* Anything else is only served while no refresh waits.                    *)
LEMMA ServeOther ==
    ASSUME CtlInv, NEW s \in Schedule, s.from \in {"read", "write"},
           TickFinish(s) \/ TickClose(s) \/ TickOpen(s)
    PROVE  /\ Priority = <<>> /\ Many(buffer'["priority"], "REFab") = 0
           /\ \/ /\ Len(buffer'["active"]) = Len(buffer["active"])
                 /\ Many(buffer'["priority"], "PRE") <= 1
              \/ /\ Len(buffer["active"]) <= MaxSize
                 /\ Len(buffer'["active"]) = Len(buffer["active"]) + 1
                 /\ Many(buffer'["priority"], "PRE") = 0
<1>1. ControllerTypeOK /\ Priority = <<>>
  BY ScheduleOrder DEF CtlInv
<1>2. Many(Priority, "PRE") = 0 /\ Many(Priority, "REFab") = 0
  <2>1. \A f : SlotsFor(<<>>, f) = {}
    BY DEF SlotsFor
  <2> QED
    BY <1>1, <2>1, FS_EmptySet DEF Many
<1>3. /\ BuffersAfter(s) \in [Buffers -> Seq(Entries)]
      /\ BuffersAfter(s)["active"] = buffer["active"]
      /\ Many(BuffersAfter(s)["priority"], "PRE") <= 1
      /\ Many(BuffersAfter(s)["priority"], "REFab") = 0
      /\ s.cmd \notin {"RD", "WR"} => Many(BuffersAfter(s)["priority"], "PRE") = 0
  <2>1. /\ Many(BuffersAfter(s)["priority"], "PRE") <= Many(Priority, "PRE") + 1
        /\ Many(BuffersAfter(s)["priority"], "REFab") = Many(Priority, "REFab")
        /\ s.cmd \notin {"RD", "WR"} => BuffersAfter(s)["priority"] = Priority
    BY <1>1, AfterPriority
  <2> QED
    BY <1>1, <1>2, <2>1, AfterFacts
<1>4. /\ s.from \in Buffers \ {"active", "priority"} /\ "active" \in Buffers /\ "priority" \in Buffers
  BY DEF Buffers
<1>5. CASE TickFinish(s)
  BY <1>1, <1>3, <1>4, <1>5 DEF TickFinish
<1>6. CASE TickClose(s)
  BY <1>1, <1>3, <1>4, <1>6 DEF TickClose
<1>7. CASE TickOpen(s)
  <2> DEFINE e == [s.entry EXCEPT !.counted = TRUE]
  <2>1. buffer' = Opened(s) /\ s.cmd = "ACT"
    BY <1>7 DEF TickOpen
  <2>2. buffer'["priority"] = BuffersAfter(s)["priority"]
    BY <1>3, <1>4, <2>1 DEF Opened
  <2>3. CASE HasRoom(buffer["active"], MaxSize)
    <3>1. buffer'["active"] = Append(buffer["active"], e)
      BY <1>3, <1>4, <2>1, <2>3 DEF Opened
    <3>2. buffer["active"] \in Seq(Entries) /\ e \in Entries
      BY <1>1, MarkedType DEF ControllerTypeOK, Buffers
    <3> HIDE DEF e, Entries
    <3>3. Len(buffer'["active"]) = Len(buffer["active"]) + 1
      BY <3>1, <3>2
    <3> QED
      BY <1>1, <1>3, <2>1, <2>2, <2>3, <3>3 DEF HasRoom
  <2>4. CASE ~HasRoom(buffer["active"], MaxSize)
    <3>1. buffer'["active"] = buffer["active"]
      BY <1>3, <1>4, <2>1, <2>4 DEF Opened
    <3> QED
      BY <1>1, <1>3, <2>2, <3>1
  <2> QED
    BY <2>3, <2>4
<1> QED
  BY <1>5, <1>6, <1>7

-----------------------------------------------------------------------------
(* The work gets less.                                                     *)
LEMMA Times ==
    ASSUME NEW n \in Nat, NEW m \in Nat, NEW a \in Nat, n <= m
    PROVE  n * a \in Nat /\ n * a <= m * a
<1>1. PICK k \in Nat : m = n + k
  <2>1. m - n \in Nat /\ m = n + (m - n)
    OBVIOUS
  <2> QED
    BY <2>1
<1>2. m * a = n * a + k * a
  BY <1>1, Z3
<1>3. n * a \in Nat /\ k * a \in Nat
  BY Z3
<1> QED
  BY <1>2, <1>3

LEMMA TimesOne ==
    ASSUME NEW n \in Nat, NEW a \in Nat
    PROVE  (n + 1) * a = n * a + a
BY Z3

LEMMA TimesLess ==
    ASSUME NEW n \in Nat, NEW m \in Nat, NEW a \in Nat, n <= m - 1
    PROVE  n * a + a <= m * a
<1>1. n + 1 \in Nat /\ n + 1 <= m
  OBVIOUS
<1>2. (n + 1) * a <= m * a /\ (n + 1) * a = n * a + a
  BY <1>1, Times, TimesOne
<1> QED
  BY <1>2

LEMMA RestsNat ==
    ASSUME NEW rest, NEW longest, PeriodSuffices(rest, longest)
    PROVE  /\ rest["RD"] \in Nat /\ rest["WR"] \in Nat /\ rest["PRE"] \in Nat
           /\ rest["PREA"] \in Nat /\ rest["REFab"] \in Nat
           /\ longest \in Nat /\ AccessWork(rest) \in Nat
           /\ AccessWork(rest) >= rest["RD"] + rest["PRE"] + 2
           /\ AccessWork(rest) >= rest["WR"] + rest["PRE"] + 2
           /\ rest["REFab"] > 1
<1>1. /\ rest["RD"] \in Nat /\ rest["WR"] \in Nat /\ rest["PRE"] \in Nat
      /\ rest["PREA"] \in Nat /\ rest["REFab"] \in Nat /\ longest \in Nat
  BY Ddr4Assumption DEF PeriodSuffices
<1>2. rest["REFab"] > 1
  <2>1. Gap[1]["REFab"]["ACT"] <= rest["REFab"]
    <3>1. "REFab" \in DOMAIN rest /\ "ACT" \in DOMAIN rest /\ 1 \in Levels
      BY Ddr4Assumption DEF PeriodSuffices, Levels
    <3> QED
      BY <3>1 DEF PeriodSuffices, RestsWithin
  <2>2. Gap[1]["REFab"]["ACT"] \in Int
    BY TreeAssumption, Ddr4Assumption DEF Levels
  <2> QED
    BY <1>1, <2>1, <2>2, Ddr4Assumption
<1> QED
  BY <1>1, <1>2 DEF AccessWork, Larger

(* The work as a sum of numbers.                                           *)
Jobs(a, p, q, r, rest) ==
    a * AccessWork(rest) + p * (rest["PRE"] + 1) + q * (rest["REFab"] + 1) + r * (rest["PREA"] + 1)

LEMMA WorkJobs ==
    ASSUME NEW rest, NEW buf, NEW st
    PROVE  Work(rest, buf, st) =
             Jobs(Len(buf["active"]), Many(buf["priority"], "PRE"),
                  Many(buf["priority"], "REFab"), Cardinality(OpenRanks(st)), rest)
BY DEF Work, Jobs

LEMMA JobsNat ==
    ASSUME NEW rest, NEW longest, PeriodSuffices(rest, longest),
           NEW a \in Nat, NEW p \in Nat, NEW q \in Nat, NEW r \in Nat
    PROVE  /\ Jobs(a, p, q, r, rest) \in Nat
           /\ q > 0 => Jobs(a, p, q, r, rest) > 1
<1> DEFINE A == AccessWork(rest)
           P == rest["PRE"] + 1
           R == rest["REFab"] + 1
           C == rest["PREA"] + 1
<1>1. A \in Nat /\ P \in Nat /\ R \in Nat /\ C \in Nat /\ R > 1
  BY RestsNat
<1>2. Jobs(a, p, q, r, rest) = a * A + p * P + q * R + r * C
  BY DEF Jobs
<1> HIDE DEF A, P, R, C
<1>3. a * A \in Nat /\ p * P \in Nat /\ q * R \in Nat /\ r * C \in Nat
  BY <1>1, Times
<1>4. q > 0 => q * R >= R
  <2>1. q > 0 => 0 * R + R <= q * R
    BY <1>1, TimesLess
  <2>2. 0 * R = 0
    BY <1>1
  <2> QED
    BY <1>1, <1>3, <2>1, <2>2
<1> DEFINE aA == a * A
           pP == p * P
           qR == q * R
           rC == r * C
<1>5. /\ aA \in Nat /\ pP \in Nat /\ qR \in Nat /\ rC \in Nat /\ (q > 0 => qR >= R)
      /\ Jobs(a, p, q, r, rest) = aA + pP + qR + rC
  BY <1>2, <1>3, <1>4
<1> HIDE DEF aA, pP, qR, rC
<1> QED
  BY <1>1, <1>5

(* A command takes itself and what it keeps waiting off the work.          *)
LEMMA JobsLess ==
    ASSUME NEW rest, NEW longest, PeriodSuffices(rest, longest), NEW cmd,
           NEW a \in Nat, NEW p \in Nat, NEW q \in Nat, NEW r \in Nat,
           NEW b \in Nat, NEW x \in Nat, NEW y \in Nat, NEW z \in Nat,
           y <= q, z <= r,
           \/ cmd \in {"RD", "WR"} /\ b = a - 1 /\ x <= p + 1
           \/ cmd = "PRE" /\ b = a /\ x <= p - 1
           \/ cmd = "REFab" /\ b = a /\ x <= p /\ y <= q - 1
           \/ cmd = "PREA" /\ b = a /\ x <= p /\ z <= r - 1
    PROVE  Jobs(b, x, y, z, rest) + rest[cmd] + 1 <= Jobs(a, p, q, r, rest)
<1> DEFINE A == AccessWork(rest)
           P == rest["PRE"] + 1
           R == rest["REFab"] + 1
           C == rest["PREA"] + 1
           aA == a * A
           pP == p * P
           qR == q * R
           rC == r * C
           bA == b * A
           xP == x * P
           yR == y * R
           zC == z * C
<1>1. /\ A \in Nat /\ P \in Nat /\ R \in Nat /\ C \in Nat /\ rest["RD"] \in Nat /\ rest["WR"] \in Nat
      /\ A >= rest["RD"] + P + 1 /\ A >= rest["WR"] + P + 1
  BY RestsNat
<1>2. /\ rest["PRE"] = P - 1 /\ rest["REFab"] = R - 1 /\ rest["PREA"] = C - 1
  BY RestsNat
<1>3. Jobs(a, p, q, r, rest) = aA + pP + qR + rC /\ Jobs(b, x, y, z, rest) = bA + xP + yR + zC
  BY DEF Jobs
<1> HIDE DEF A, P, R, C
<1>4. /\ aA \in Nat /\ pP \in Nat /\ qR \in Nat /\ rC \in Nat
      /\ bA \in Nat /\ xP \in Nat /\ yR \in Nat /\ zC \in Nat
  BY <1>1, Times
<1>5. yR <= qR /\ zC <= rC
  BY <1>1, Times
<1>6. CASE cmd \in {"RD", "WR"} /\ b = a - 1 /\ x <= p + 1
  <2>1. bA + A <= aA
    BY <1>1, <1>6, TimesLess
  <2>2. xP <= pP + P
    <3>1. p + 1 \in Nat /\ x <= p + 1
      BY <1>6
    <3>2. xP <= (p + 1) * P /\ (p + 1) * P = pP + P
      BY <1>1, <3>1, Times, TimesOne
    <3> QED
      BY <3>2
  <2>3. rest[cmd] \in Nat /\ A >= rest[cmd] + P + 1
    BY <1>1, <1>6
  <2> HIDE DEF aA, pP, qR, rC, bA, xP, yR, zC
  <2> QED
    BY <1>1, <1>3, <1>4, <1>5, <2>1, <2>2, <2>3
<1>7. CASE cmd = "PRE" /\ b = a /\ x <= p - 1
  <2>1. bA = aA /\ xP + P <= pP
    BY <1>1, <1>7, TimesLess
  <2> HIDE DEF aA, pP, qR, rC, bA, xP, yR, zC
  <2> QED
    BY <1>1, <1>2, <1>3, <1>4, <1>5, <1>7, <2>1
<1>8. CASE cmd = "REFab" /\ b = a /\ x <= p /\ y <= q - 1
  <2>1. bA = aA /\ xP <= pP /\ yR + R <= qR
    BY <1>1, <1>8, Times, TimesLess
  <2> HIDE DEF aA, pP, qR, rC, bA, xP, yR, zC
  <2> QED
    BY <1>1, <1>2, <1>3, <1>4, <1>5, <1>8, <2>1
<1>9. CASE cmd = "PREA" /\ b = a /\ x <= p /\ z <= r - 1
  <2>1. bA = aA /\ xP <= pP /\ zC + C <= rC
    BY <1>1, <1>9, Times, TimesLess
  <2> HIDE DEF aA, pP, qR, rC, bA, xP, yR, zC
  <2> QED
    BY <1>1, <1>2, <1>3, <1>4, <1>5, <1>9, <2>1
<1> QED
  BY <1>6, <1>7, <1>8, <1>9

LEMMA JobsFewer ==
    ASSUME NEW rest, NEW longest, PeriodSuffices(rest, longest),
           NEW a \in Nat, NEW p \in Nat, NEW q \in Nat, NEW r \in Nat, NEW z \in Nat, z <= r
    PROVE  Jobs(a, p, q, z, rest) <= Jobs(a, p, q, r, rest)
<1> DEFINE A == AccessWork(rest)
           P == rest["PRE"] + 1
           R == rest["REFab"] + 1
           C == rest["PREA"] + 1
           k == a * A + p * P + q * R
           rC == r * C
           zC == z * C
<1>1. A \in Nat /\ P \in Nat /\ R \in Nat /\ C \in Nat
  BY RestsNat
<1>2. Jobs(a, p, q, r, rest) = k + rC /\ Jobs(a, p, q, z, rest) = k + zC
  BY DEF Jobs
<1> HIDE DEF A, P, R, C
<1>3. k \in Nat
  <2>1. a * A \in Nat /\ p * P \in Nat /\ q * R \in Nat
    BY <1>1, Times
  <2> QED
    BY <2>1
<1>4. zC \in Nat /\ rC \in Nat /\ zC <= rC
  BY <1>1, Times
<1> HIDE DEF k, rC, zC
<1> QED
  BY <1>2, <1>3, <1>4

(* What is in the way of the refreshes that become due fits the period.    *)
LEMMA JobsFit ==
    ASSUME NEW rest, NEW longest, PeriodSuffices(rest, longest),
           NEW a \in Nat, NEW p \in Nat, NEW q \in Nat, NEW r \in Nat,
           a + p <= MaxSize + 2, q <= NumRanks, r <= NumRanks
    PROVE  Jobs(a, p, q, r, rest) + longest <= nREFI
<1> DEFINE A == AccessWork(rest)
           P == rest["PRE"] + 1
           R == rest["REFab"] + 1
           C == rest["PREA"] + 1
           N == MaxSize + 2
           aA == a * A
           pP == p * P
           pA == p * A
           sA == (a + p) * A
           nA == N * A
           qR == q * R
           rC == r * C
           nR == NumRanks * R
           nC == NumRanks * C
           nS == NumRanks * (C + R)
<1>1. /\ A \in Nat /\ P \in Nat /\ R \in Nat /\ C \in Nat /\ A >= P
      /\ NumRanks \in Nat /\ N \in Nat /\ nREFI \in Nat /\ longest \in Nat
  <2>1. NumRanks \in Nat /\ MaxSize \in Nat /\ nREFI \in Nat
    BY ControllerAssumption
  <2>2. A \in Nat /\ P \in Nat /\ R \in Nat /\ C \in Nat /\ A >= P /\ longest \in Nat
    BY RestsNat
  <2> QED
    BY <2>1, <2>2
<1>2. Jobs(a, p, q, r, rest) = aA + pP + qR + rC
  BY DEF Jobs
<1>3. nA + nS + longest <= nREFI
  <2>1. rest["PREA"] + rest["REFab"] + 2 = C + R
    BY RestsNat
  <2> QED
    BY <2>1 DEF PeriodSuffices, RefreshLoad, AccessWork
<1> HIDE DEF A, P, R, C, N
<1>4. /\ aA \in Nat /\ pP \in Nat /\ pA \in Nat /\ nA \in Nat /\ qR \in Nat /\ rC \in Nat
      /\ nR \in Nat /\ nC \in Nat
  BY <1>1, Times
<1>5. qR <= nR /\ rC <= nC
  BY <1>1, Times
<1>6. pP <= pA
  <2>1. PICK k \in Nat : A = P + k
    <3>1. A - P \in Nat /\ A = P + (A - P)
      BY <1>1
    <3> QED
      BY <3>1
  <2>2. p * (P + k) = p * P + p * k /\ p * k \in Nat
    BY <1>1, Z3
  <2> QED
    BY <1>4, <2>1, <2>2
<1>7. sA = aA + pA
  BY <1>1, Z3
<1>8. sA <= nA
  <2>1. a + p \in Nat /\ a + p <= N
    BY DEF N
  <2> QED
    BY <1>1, <2>1, Times
<1>9. nS = nR + nC
  BY <1>1, Z3
<1> HIDE DEF aA, pP, pA, sA, nA, qR, rC, nR, nC, nS
<1>10. aA + pP + qR + rC + longest <= nREFI
  BY <1>1, <1>3, <1>4, <1>5, <1>6, <1>7, <1>8, <1>9
<1> QED
  BY <1>2, <1>10

-----------------------------------------------------------------------------
(* The invariant: as many cycles are left until the next refreshes become  *)
(* due as it takes to be done with those that wait, and they wait for      *)
(* nothing but the commands in their way.  Between two ticks the waits     *)
(* have one cycle more to go.                                              *)
DoneInTime(rest) ==
    \E m \in Nat :
        /\ turn = "dram" => WaitsBelow(m + 1)
        /\ turn = "controller" => WaitsBelow(m)
        /\ Work(rest, buffer, state[Ch]) + m <= timer

UpInv(rest, longest) ==
    /\ FewInTheWay(buffer)
    /\ WaitsBelow(longest + 1)
    /\ Many(buffer["priority"], "REFab") > 0 => DoneInTime(rest)

LEMMA BufferCounts ==
    ASSUME ControllerTypeOK
    PROVE  /\ Len(buffer["active"]) \in Nat
           /\ Many(buffer["priority"], "PRE") \in Nat /\ Many(buffer["priority"], "REFab") \in Nat
           /\ Many(Priority, "PRE") \in Nat /\ Many(Priority, "REFab") \in Nat
<1>1. buffer["active"] \in Seq(Entries) /\ buffer["priority"] \in Seq(Entries)
  BY DEF ControllerTypeOK, Buffers
<1>2. Priority \in Seq(Entries)
  BY PriorityType
<1> HIDE DEF Entries
<1> QED
  BY <1>1, <1>2, ManyNat

(* When nothing can be issued although a request waits, some command is    *)
(* kept back.                                                              *)
LEMMA IdleWaits ==
    ASSUME CtlInv, Priority # <<>>, Schedule = {}
    PROVE  \E n \in Nodes, d \in Commands : wait[Ch][n][d] # 0
<1> SUFFICES ASSUME \A n \in Nodes, d \in Commands : wait[Ch][n][d] = 0
             PROVE  FALSE
  OBVIOUS
<1>1. ControllerTypeOK /\ ActiveRowOpen
  BY DEF CtlInv
<1>2. ASSUME NEW e \in Entries PROVE IsReady(e)
  <2>1. NextCommand(e) \in Commands
    BY EntryCommand
  <2> QED
    BY <2>1 DEF IsReady, CheckReady
<1>3. buffer["active"] \in Seq(Entries) /\ Priority \in Seq(Entries)
  BY <1>1, PriorityType DEF ControllerTypeOK, Buffers
<1>4. CASE buffer["active"] # <<>>
  <2> DEFINE buf == buffer["active"]
             i == Best(buffer["active"])
  <2>1. i \in DOMAIN buf /\ buf[i] \in Entries
    <3>1. i \in DOMAIN buf
      BY <1>3, <1>4, BestFirst
    <3> HIDE DEF i, Entries
    <3> QED
      BY <1>3, <3>1
  <2>2. IsReady(buf[i])
    BY <1>2, <2>1
  <2>3. NextCommand(buf[i]) \in {"RD", "WR"}
    <3>1. RowFound(buf[i], state[Ch], open[Ch])
      BY <1>1, <2>1, ActiveFound DEF AllFound
    <3> QED
      BY <2>1, <3>1, EntryCommand DEF RowFound, RowOpenPreq
  <2>4. ~Clashes(buf[i])
    BY <2>3 DEF Clashes, Closes
  <2>5. Source = "active"
    BY <2>1, <2>2 DEF Source, ActiveReady
  <2>6. [from |-> "active", at |-> i, entry |-> buf[i], cmd |-> NextCommand(buf[i])] \in Schedule
    <3> HIDE DEF i
    <3> QED
      BY <2>1, <2>2, <2>4, <2>5 DEF Schedule, i
  <2> QED
    BY <2>6
<1>5. CASE buffer["active"] = <<>>
  <2>1. DOMAIN buffer["active"] = {}
    BY <1>5
  <2>2. Source = "priority"
    BY <2>1 DEF Source, ActiveReady
  <2>3. 1 \in DOMAIN Priority /\ Priority[1] \in Entries
    <3> HIDE DEF Entries
    <3> QED
      BY <1>3
  <2>4. IsReady(Priority[1]) /\ ~Clashes(Priority[1])
    BY <1>2, <2>1, <2>3 DEF Clashes
  <2>5. [from |-> "priority", at |-> 1, entry |-> Priority[1], cmd |-> NextCommand(Priority[1])]
           \in Schedule
    BY <2>2, <2>3, <2>4 DEF Schedule
  <2> QED
    BY <2>5
<1> QED
  BY <1>4, <1>5

(* A command takes itself and what it keeps waiting off the work.          *)
LEMMA WorkDone ==
    ASSUME NEW rest, NEW longest, PeriodSuffices(rest, longest), CtlInv, Ordered,
           NEW s \in Schedule, TickFinish(s) \/ TickClose(s) \/ TickOpen(s), Priority # <<>>
    PROVE  Work(rest, buffer', state'[Ch]) + rest[s.cmd] + 1 <= Work(rest, BuffersNow, state[Ch])
<1>1. ControllerTypeOK /\ DdrInv /\ Serve(s)
  BY DEF CtlInv, TickFinish, TickClose, TickOpen
<1> DEFINE a == Len(buffer["active"])
           p == Many(Priority, "PRE")
           q == Many(Priority, "REFab")
           r == Cardinality(OpenRanks(state[Ch]))
           b == Len(buffer'["active"])
           x == Many(buffer'["priority"], "PRE")
           y == Many(buffer'["priority"], "REFab")
           z == Cardinality(OpenRanks(state'[Ch]))
<1>2. a \in Nat /\ p \in Nat /\ q \in Nat /\ r \in Nat
  BY <1>1, BufferCounts, OpenRanksFew
<1>3. b \in Nat /\ x \in Nat /\ y \in Nat /\ z \in Nat
  <2>1. ControllerTypeOK'
    BY ServeInv DEF CtlInv
  <2>2. z \in Nat
    BY OpenRanksFew
  <2>3. buffer' \in [Buffers -> Seq(Entries')]
    BY <2>1 DEF ControllerTypeOK
  <2>4. buffer'["active"] \in Seq(Entries') /\ buffer'["priority"] \in Seq(Entries')
    BY <2>3 DEF Buffers
  <2> HIDE DEF Entries
  <2>5. b \in Nat /\ x \in Nat /\ y \in Nat
    BY <2>4, ManyNat
  <2> QED
    BY <2>2, <2>5
<1>4. s.from \in {"active", "priority"}
  BY <1>1, ScheduleFacts, ScheduleOrder DEF Buffers
<1>5. /\ s.cmd # "ACT"
      /\ y <= q
      /\ \/ s.cmd \in {"RD", "WR"} /\ b = a - 1 /\ x <= p + 1
         \/ s.cmd = "PRE" /\ b = a /\ x <= p - 1
         \/ s.cmd = "REFab" /\ b = a /\ x <= p /\ y <= q - 1
         \/ s.cmd = "PREA" /\ b = a /\ x <= p
  <2>1. CASE s.from = "active"
    <3>1. s.cmd \in {"RD", "WR"} /\ b = a - 1 /\ x <= p + 1 /\ y = q
      BY <2>1, ServeActive
    <3> HIDE DEF a, p, q, b, x, y
    <3> QED
      BY <1>2, <3>1
  <2>2. CASE s.from = "priority"
    <3>1. /\ s.cmd \in {"PRE", "PREA", "REFab"} /\ b = a /\ x <= p /\ y <= q
          /\ s.cmd = "PRE" => x <= p - 1
          /\ s.cmd = "REFab" => y <= q - 1
      BY <2>2, ServePriority
    <3> HIDE DEF a, p, q, b, x, y
    <3> QED
      BY <3>1
  <2> QED
    BY <1>4, <2>1, <2>2
<1>6. z <= r /\ (s.cmd = "PREA" => z <= r - 1)
  BY <1>1, <1>5, ServeRanks
<1>7. /\ Work(rest, buffer', state'[Ch]) = Jobs(b, x, y, z, rest)
      /\ Work(rest, BuffersNow, state[Ch]) = Jobs(a, p, q, r, rest)
  <2>1. BuffersNow["active"] = buffer["active"] /\ BuffersNow["priority"] = Priority
    BY <1>1, NowType
  <2> QED
    BY <2>1, WorkJobs
<1> HIDE DEF a, p, q, r, b, x, y, z
<1>8. Jobs(b, x, y, z, rest) + rest[s.cmd] + 1 <= Jobs(a, p, q, r, rest)
  BY <1>2, <1>3, <1>5, <1>6, JobsLess
<1> QED
  BY <1>7, <1>8

LEMMA AnyWork ==
    ASSUME NEW rest, NEW longest, PeriodSuffices(rest, longest), NEW S, NEW buf,
           buf["active"] \in Seq(S), buf["priority"] \in Seq(S), NEW st
    PROVE  Work(rest, buf, st) \in Nat
<1>1. /\ Len(buf["active"]) \in Nat /\ Many(buf["priority"], "PRE") \in Nat
      /\ Many(buf["priority"], "REFab") \in Nat /\ Cardinality(OpenRanks(st)) \in Nat
  BY ManyNat, OpenRanksFew
<1> QED
  BY <1>1, WorkJobs, JobsNat

LEMMA WorkNat ==
    ASSUME NEW rest, NEW longest, PeriodSuffices(rest, longest), ControllerTypeOK
    PROVE  /\ Work(rest, buffer, state[Ch]) \in Nat /\ Work(rest, BuffersNow, state[Ch]) \in Nat
           /\ Many(buffer["priority"], "REFab") > 0 => Work(rest, buffer, state[Ch]) > 1
<1> DEFINE a == Len(buffer["active"])
           p == Many(Priority, "PRE")
           q == Many(Priority, "REFab")
           x == Many(buffer["priority"], "PRE")
           y == Many(buffer["priority"], "REFab")
           r == Cardinality(OpenRanks(state[Ch]))
<1>1. a \in Nat /\ p \in Nat /\ q \in Nat /\ r \in Nat /\ x \in Nat /\ y \in Nat
  BY BufferCounts, OpenRanksFew
<1>2. /\ Work(rest, buffer, state[Ch]) = Jobs(a, x, y, r, rest)
      /\ Work(rest, BuffersNow, state[Ch]) = Jobs(a, p, q, r, rest)
  <2>1. BuffersNow["active"] = buffer["active"] /\ BuffersNow["priority"] = Priority
    BY NowType
  <2> QED
    BY <2>1, WorkJobs
<1> HIDE DEF a, p, q, x, y, r
<1>3. Jobs(a, x, y, r, rest) \in Nat /\ Jobs(a, p, q, r, rest) \in Nat /\ (y > 0 => Jobs(a, x, y, r, rest) > 1)
  BY <1>1, JobsNat
<1> QED
  BY <1>2, <1>3 DEF y

(* Refreshes become due when the last ones are done.                       *)
LEMMA DueInTime ==
    ASSUME NEW rest, NEW longest, PeriodSuffices(rest, longest), ControllerTypeOK,
           UpInv(rest, longest), turn = "controller"
    PROVE  /\ timer = 1 => /\ Many(buffer["priority"], "REFab") = 0
                           /\ Work(rest, BuffersNow, state[Ch]) + longest <= nREFI
           /\ timer # 1 /\ Many(Priority, "REFab") > 0 =>
                 \E m \in Nat : WaitsBelow(m) /\ Work(rest, BuffersNow, state[Ch]) + m <= timer
<1>1. timer \in Nat
  BY ControllerAssumption DEF ControllerTypeOK
<1>2. timer = 1 => Many(buffer["priority"], "REFab") = 0
  <2> SUFFICES ASSUME Many(buffer["priority"], "REFab") # 0, timer = 1 PROVE FALSE
    OBVIOUS
  <2>1. Many(buffer["priority"], "REFab") > 0
    BY BufferCounts
  <2>2. PICK m \in Nat : Work(rest, buffer, state[Ch]) + m <= timer
    BY <2>1 DEF UpInv, DoneInTime
  <2>3. Work(rest, buffer, state[Ch]) \in Nat /\ Work(rest, buffer, state[Ch]) > 1
    BY <2>1, WorkNat
  <2> QED
    BY <1>1, <2>2, <2>3
<1>3. ASSUME timer = 1 PROVE Work(rest, BuffersNow, state[Ch]) + longest <= nREFI
  <2> DEFINE a == Len(buffer["active"])
             p == Many(Priority, "PRE")
             q == Many(Priority, "REFab")
             r == Cardinality(OpenRanks(state[Ch]))
  <2>1. a \in Nat /\ p \in Nat /\ q \in Nat /\ r \in Nat /\ r <= NumRanks
    BY BufferCounts, OpenRanksFew
  <2>2. p = Many(buffer["priority"], "PRE") /\ q <= NumRanks
    <3>1. /\ Many(Priority, "PRE") = Many(buffer["priority"], "PRE")
          /\ Many(Priority, "REFab") <= Many(buffer["priority"], "REFab") + NumRanks
      BY <1>3, ManyDue
    <3>2. Many(buffer["priority"], "REFab") = 0 /\ NumRanks \in Nat
      BY <1>2, <1>3, ControllerAssumption
    <3> HIDE DEF p, q
    <3>3. Many(Priority, "REFab") <= NumRanks
      BY <3>1, <3>2
    <3> QED
      BY <3>1, <3>3 DEF p, q
  <2>3. a + p <= MaxSize + 2
    BY <2>2 DEF UpInv, FewInTheWay
  <2>4. Work(rest, BuffersNow, state[Ch]) = Jobs(a, p, q, r, rest)
    <3>1. BuffersNow["active"] = buffer["active"] /\ BuffersNow["priority"] = Priority
      BY NowType
    <3> QED
      BY <3>1, WorkJobs
  <2> HIDE DEF a, p, q, r
  <2>5. Jobs(a, p, q, r, rest) + longest <= nREFI
    BY <2>1, <2>2, <2>3, JobsFit
  <2> QED
    BY <2>4, <2>5
<1>4. ASSUME timer # 1, Many(Priority, "REFab") > 0
      PROVE  \E m \in Nat : WaitsBelow(m) /\ Work(rest, BuffersNow, state[Ch]) + m <= timer
  <2>1. Priority = buffer["priority"]
    BY <1>4, ManyDue
  <2>2. PICK m \in Nat : WaitsBelow(m) /\ Work(rest, buffer, state[Ch]) + m <= timer
    BY <1>4, <2>1 DEF UpInv, DoneInTime
  <2>3. Work(rest, BuffersNow, state[Ch]) = Work(rest, buffer, state[Ch])
    BY <2>1, NowType DEF Work
  <2> QED
    BY <2>2, <2>3
<1> QED
  BY <1>2, <1>3, <1>4

-----------------------------------------------------------------------------
(* The steps.                                                              *)
LEMMA InitUp ==
    ASSUME NEW rest, NEW longest, PeriodSuffices(rest, longest), Init
    PROVE  UpInv(rest, longest)
<1>1. Len(buffer["active"]) = 0 /\ buffer["priority"] = <<>>
  BY DEF Init, Buffers
<1>2. \A f : Many(buffer["priority"], f) = 0
  <2>1. \A f : SlotsFor(buffer["priority"], f) = {}
    BY <1>1 DEF SlotsFor
  <2> QED
    BY <2>1, FS_EmptySet DEF Many
<1>3. MaxSize \in Nat
  BY ControllerAssumption
<1>4. FewInTheWay(buffer)
  BY <1>1, <1>2, <1>3 DEF FewInTheWay
<1>5. WaitsBelow(longest + 1)
  BY ControllerAssumption DEF Init, DdrInit, TreeInit, WaitsBelow
<1> QED
  BY <1>2, <1>4, <1>5 DEF UpInv

LEMMA SendUp ==
    ASSUME NEW rest, NEW longest, PeriodSuffices(rest, longest), ControllerTypeOK,
           UpInv(rest, longest), NEW r \in Requests, NEW addr \in AddrsOf[r],
           SendForwarded(r, addr) \/ SendEnqueued(r, addr)
    PROVE  UpInv(rest, longest)'
<1>1. /\ wait' = wait /\ state' = state /\ turn' = turn /\ timer' = timer
  BY DEF SendForwarded, SendEnqueued, ddrVars
<1>2. buffer'["active"] = buffer["active"] /\ buffer'["priority"] = buffer["priority"]
  BY DEF SendForwarded, SendEnqueued, BufferOf, ControllerTypeOK, Buffers
<1>3. \A m : WaitsBelow(m)' <=> WaitsBelow(m)
  BY <1>1 DEF WaitsBelow
<1>4. Work(rest, buffer, state[Ch])' = Work(rest, buffer, state[Ch])
  BY <1>1, <1>2 DEF Work
<1> QED
  BY <1>1, <1>2, <1>3, <1>4 DEF UpInv, FewInTheWay, DoneInTime

LEMMA TickDramUp ==
    ASSUME NEW rest, NEW longest, PeriodSuffices(rest, longest), ControllerTypeOK,
           UpInv(rest, longest), TickDram
    PROVE  UpInv(rest, longest)'
<1>1. /\ buffer' = buffer /\ timer' = timer /\ turn = "dram" /\ turn' = "controller"
      /\ DdrTypeOK /\ DdrTick
  BY DEF TickDram, ControllerTypeOK
<1>2. \A m \in Nat : /\ WaitsBelow(m + 1) => WaitsBelow(m)'
                     /\ WaitsBelow(m) => WaitsBelow(m)'
  BY <1>1, TickWaits
<1>3. OpenRanks(state'[Ch]) \subseteq OpenRanks(state[Ch])
  <2>1. \A b \in Banks : state'[Ch][b] = "Opened" => state[Ch][b] = "Opened"
    BY <1>1, ControllerAssumption DEF DdrTick
  <2> QED
    BY <2>1 DEF OpenRanks, RankBanks
<1>4. /\ Work(rest, buffer', state'[Ch]) \in Nat /\ Work(rest, buffer, state[Ch]) \in Nat
      /\ Work(rest, buffer', state'[Ch]) <= Work(rest, buffer, state[Ch])
  <2> DEFINE a == Len(buffer["active"])
             p == Many(buffer["priority"], "PRE")
             q == Many(buffer["priority"], "REFab")
             r == Cardinality(OpenRanks(state[Ch]))
             z == Cardinality(OpenRanks(state'[Ch]))
  <2>1. a \in Nat /\ p \in Nat /\ q \in Nat /\ r \in Nat /\ z \in Nat /\ z <= r
    BY <1>3, BufferCounts, OpenRanksFew, FewerRanks
  <2>2. /\ Work(rest, buffer, state[Ch]) = Jobs(a, p, q, r, rest)
        /\ Work(rest, buffer', state'[Ch]) = Jobs(a, p, q, z, rest)
    BY <1>1, WorkJobs
  <2> HIDE DEF a, p, q, r, z
  <2>3. /\ Jobs(a, p, q, r, rest) \in Nat /\ Jobs(a, p, q, z, rest) \in Nat
        /\ Jobs(a, p, q, z, rest) <= Jobs(a, p, q, r, rest)
    BY <2>1, JobsNat, JobsFewer
  <2> QED
    BY <2>2, <2>3
<1>5. WaitsBelow(longest + 1)'
  <2>1. longest + 1 \in Nat
    BY RestsNat
  <2> QED
    BY <1>2, <2>1 DEF UpInv
<1>6. ASSUME (Many(buffer["priority"], "REFab") > 0)'
      PROVE  DoneInTime(rest)'
  <2>1. Many(buffer["priority"], "REFab") > 0
    BY <1>1, <1>6
  <2>2. PICK m \in Nat : WaitsBelow(m + 1) /\ Work(rest, buffer, state[Ch]) + m <= timer
    BY <1>1, <2>1 DEF UpInv, DoneInTime
  <2>3. WaitsBelow(m)'
    BY <1>2, <2>2
  <2>4. timer \in Nat
    BY ControllerAssumption DEF ControllerTypeOK
  <2>5. Work(rest, buffer', state'[Ch]) + m <= timer'
    BY <1>1, <1>4, <2>2, <2>4
  <2> QED
    BY <1>1, <2>3, <2>5 DEF DoneInTime
<1> QED
  BY <1>1, <1>5, <1>6 DEF UpInv, FewInTheWay

(* A tick that issues nothing waits for a command that is kept back.       *)
LEMMA StallUp ==
    ASSUME NEW rest, NEW longest, PeriodSuffices(rest, longest), CtlInv,
           UpInv(rest, longest), TickStall
    PROVE  UpInv(rest, longest)'
<1>1. /\ ControllerTypeOK /\ Schedule = {} /\ buffer' = BuffersNow
      /\ wait' = wait /\ state' = state /\ turn = "controller" /\ turn' = "dram"
      /\ timer' = IF timer = 1 THEN nREFI ELSE timer - 1
  BY DEF TickStall, Housekeeping, ddrVars, CtlInv
<1>2. buffer'["active"] = buffer["active"] /\ buffer'["priority"] = Priority
  BY <1>1, NowType
<1>3. FewInTheWay(buffer)'
  <2>1. Many(Priority, "PRE") = Many(buffer["priority"], "PRE")
    BY <1>1, ManyDue
  <2> QED
    BY <1>2, <2>1 DEF UpInv, FewInTheWay
<1>4. \A m : WaitsBelow(m)' <=> WaitsBelow(m)
  BY <1>1 DEF WaitsBelow
<1>5. Work(rest, buffer', state'[Ch]) = Work(rest, BuffersNow, state[Ch])
  BY <1>1
<1>6. Work(rest, BuffersNow, state[Ch]) \in Nat /\ longest \in Nat /\ timer \in Nat
  <2>1. timer \in Nat
    BY <1>1, ControllerAssumption DEF ControllerTypeOK
  <2> QED
    BY <1>1, <2>1, WorkNat, RestsNat
<1>7. ASSUME (Many(buffer["priority"], "REFab") > 0)'
      PROVE  DoneInTime(rest)'
  <2>1. Many(Priority, "REFab") > 0
    BY <1>2, <1>7
  <2>2. CASE timer = 1
    <3>1. Work(rest, BuffersNow, state[Ch]) + longest <= nREFI
      BY <1>1, <2>2, DueInTime
    <3>2. WaitsBelow(longest + 1)'
      BY <1>4 DEF UpInv
    <3>3. Work(rest, buffer', state'[Ch]) + longest <= timer'
      BY <1>1, <1>5, <2>2, <3>1
    <3> QED
      BY <1>1, <1>6, <3>2, <3>3 DEF DoneInTime
  <2>3. CASE timer # 1
    <3>1. PICK m \in Nat : WaitsBelow(m) /\ Work(rest, BuffersNow, state[Ch]) + m <= timer
      BY <1>1, <2>1, <2>3, DueInTime
    <3>2. m > 0
      <4>1. Priority # <<>>
        <5>1. Priority = <<>> => SlotsFor(Priority, "REFab") = {}
          BY DEF SlotsFor
        <5>2. Priority = <<>> => Many(Priority, "REFab") = 0
          BY <5>1, FS_EmptySet DEF Many
        <5> QED
          BY <2>1, <5>2
      <4>2. PICK n \in Nodes, d \in Commands : wait[Ch][n][d] # 0
        BY <1>1, <4>1, IdleWaits
      <4>3. wait[Ch][n][d] \in Nat /\ wait[Ch][n][d] < m
        BY <1>1, <3>1, <4>2, ControllerAssumption DEF WaitsBelow, ControllerTypeOK, DdrTypeOK
      <4> QED
        BY <4>2, <4>3
    <3>3. m - 1 \in Nat /\ (m - 1) + 1 = m
      BY <3>2
    <3>4. WaitsBelow((m - 1) + 1)'
      BY <1>4, <3>1, <3>3
    <3>5. Work(rest, buffer', state'[Ch]) + (m - 1) <= timer'
      BY <1>1, <1>5, <1>6, <2>3, <3>1
    <3> QED
      BY <1>1, <3>3, <3>4, <3>5 DEF DoneInTime
  <2> QED
    BY <2>2, <2>3
<1> QED
  BY <1>3, <1>4, <1>7 DEF UpInv

LEMMA ServeFew ==
    ASSUME CtlInv, Ordered, FewInTheWay(buffer), NEW s \in Schedule,
           TickFinish(s) \/ TickClose(s) \/ TickOpen(s)
    PROVE  /\ FewInTheWay(buffer')
           /\ Many(buffer'["priority"], "REFab") > 0 => Many(Priority, "REFab") > 0
<1>1. ControllerTypeOK /\ ControllerTypeOK' /\ MaxSize \in Nat
  BY ServeInv, ControllerAssumption DEF CtlInv
<1> DEFINE a == Len(buffer["active"])
           p == Many(buffer["priority"], "PRE")
           q == Many(Priority, "REFab")
           b == Len(buffer'["active"])
           x == Many(buffer'["priority"], "PRE")
           y == Many(buffer'["priority"], "REFab")
<1>2. a \in Nat /\ p \in Nat /\ q \in Nat /\ a <= MaxSize + 1 /\ a + p <= MaxSize + 2
  BY <1>1, BufferCounts DEF FewInTheWay
<1>3. b \in Nat /\ x \in Nat /\ y \in Nat
  <2>1. buffer' \in [Buffers -> Seq(Entries')]
    BY <1>1 DEF ControllerTypeOK
  <2>2. buffer'["active"] \in Seq(Entries') /\ buffer'["priority"] \in Seq(Entries')
    BY <2>1 DEF Buffers
  <2> HIDE DEF Entries
  <2> QED
    BY <2>2, ManyNat
<1>4. Many(Priority, "PRE") = p
  BY <1>1, ManyDue
<1>5. CASE s.from = "active"
  <2>1. b = a - 1 /\ x <= p + 1 /\ y = q
    BY <1>4, <1>5, ServeActive
  <2> HIDE DEF a, p, q, b, x, y
  <2>2. b <= MaxSize + 1 /\ b + x <= MaxSize + 2 /\ (y > 0 => q > 0)
    BY <1>1, <1>2, <1>3, <2>1
  <2> QED
    BY <2>2 DEF FewInTheWay, b, x, y, q
<1>6. CASE s.from = "priority"
  <2>1. b = a /\ x <= p /\ y <= q
    BY <1>4, <1>6, ServePriority
  <2> HIDE DEF a, p, q, b, x, y
  <2>2. b <= MaxSize + 1 /\ b + x <= MaxSize + 2 /\ (y > 0 => q > 0)
    BY <1>1, <1>2, <1>3, <2>1
  <2> QED
    BY <2>2 DEF FewInTheWay, b, x, y, q
<1>7. CASE s.from \in {"read", "write"}
  <2>1. y = 0 /\ ((b = a /\ x <= 1) \/ (a <= MaxSize /\ b = a + 1 /\ x = 0))
    BY <1>7, ServeOther
  <2> HIDE DEF a, p, q, b, x, y
  <2>2. b <= MaxSize + 1 /\ b + x <= MaxSize + 2 /\ (y > 0 => q > 0)
    BY <1>1, <1>2, <1>3, <2>1
  <2> QED
    BY <2>2 DEF FewInTheWay, b, x, y, q
<1> QED
  BY <1>1, <1>5, <1>6, <1>7, ScheduleFacts DEF Buffers

LEMMA ServeUp ==
    ASSUME NEW rest, NEW longest, PeriodSuffices(rest, longest), CtlInv, CtlInv', Ordered,
           UpInv(rest, longest), NEW s \in Schedule,
           TickFinish(s) \/ TickClose(s) \/ TickOpen(s)
    PROVE  UpInv(rest, longest)'
<1>1. /\ ControllerTypeOK /\ DdrInv /\ ControllerTypeOK' /\ Serve(s)
      /\ turn = "controller" /\ turn' = "dram"
      /\ timer' = IF timer = 1 THEN nREFI ELSE timer - 1
  BY DEF TickFinish, TickClose, TickOpen, Serve, Housekeeping, CtlInv
<1>2. /\ FewInTheWay(buffer')
      /\ Many(buffer'["priority"], "REFab") > 0 => Many(Priority, "REFab") > 0
  BY ServeFew DEF UpInv
<1>3. longest \in Nat /\ longest + 1 \in Nat /\ longest < longest + 1
  BY RestsNat
<1>4. WaitsBelow(longest + 1)'
  BY <1>1, <1>3, ServeWaits DEF UpInv
<1>5. /\ Work(rest, BuffersNow, state[Ch]) \in Nat /\ Work(rest, buffer', state'[Ch]) \in Nat
      /\ timer \in Nat
  <2>1. Work(rest, buffer', state'[Ch]) \in Nat
    <3>1. buffer' \in [Buffers -> Seq(Entries')]
      BY <1>1 DEF ControllerTypeOK
    <3>2. buffer'["active"] \in Seq(Entries') /\ buffer'["priority"] \in Seq(Entries')
      BY <3>1 DEF Buffers
    <3> HIDE DEF Entries
    <3> QED
      BY <3>2, AnyWork
  <2>2. Work(rest, BuffersNow, state[Ch]) \in Nat
    BY <1>1, WorkNat
  <2>3. timer \in Nat
    <3>1. timer \in 1..nREFI
      BY <1>1, Zenon DEF ControllerTypeOK
    <3>2. nREFI \in Nat
      BY ControllerAssumption
    <3> QED
      BY <3>1, <3>2
  <2> QED
    BY <2>1, <2>2, <2>3
<1>6. ASSUME Many(buffer'["priority"], "REFab") > 0
      PROVE  DoneInTime(rest)'
  <2>1. Many(Priority, "REFab") > 0
    BY <1>2, <1>6
  <2>2. Priority # <<>>
    <3>1. Priority = <<>> => SlotsFor(Priority, "REFab") = {}
      BY DEF SlotsFor
    <3>2. Priority = <<>> => Many(Priority, "REFab") = 0
      BY <3>1, FS_EmptySet DEF Many
    <3> QED
      BY <2>1, <3>2
  <2>3. Work(rest, buffer', state'[Ch]) + rest[s.cmd] + 1 <= Work(rest, BuffersNow, state[Ch])
    BY <2>2, WorkDone
  <2>4. rest[s.cmd] \in Nat
    BY <1>1, <1>3, ServeWaits DEF UpInv
  <2>5. CASE timer = 1
    <3>1. Work(rest, BuffersNow, state[Ch]) + longest <= nREFI
      BY <1>1, <2>5, DueInTime
    <3>2. Work(rest, buffer', state'[Ch]) + longest <= timer'
      <4>1. timer' = nREFI /\ nREFI \in Nat
        BY <1>1, <2>5, ControllerAssumption
      <4> QED
        BY <1>3, <1>5, <2>3, <2>4, <3>1, <4>1
    <3> QED
      BY <1>1, <1>3, <1>4, <3>2 DEF DoneInTime
  <2>6. CASE timer # 1
    <3>1. PICK m \in Nat : WaitsBelow(m) /\ Work(rest, BuffersNow, state[Ch]) + m <= timer
      BY <1>1, <2>1, <2>6, DueInTime
    <3> DEFINE k == m + rest[s.cmd]
    <3>2. WaitsBelow(k + 1)'
      BY <1>1, <3>1, ServeWaits
    <3>3. k \in Nat /\ Work(rest, buffer', state'[Ch]) + k <= timer'
      BY <1>1, <1>5, <2>3, <2>4, <2>6, <3>1
    <3> HIDE DEF k
    <3> QED
      BY <1>1, <3>2, <3>3 DEF DoneInTime
  <2> QED
    BY <2>5, <2>6
<1> QED
  BY <1>2, <1>4, <1>6 DEF UpInv

LEMMA StepUp ==
    ASSUME NEW rest, NEW longest, PeriodSuffices(rest, longest), CtlInv, CtlInv', Ordered,
           UpInv(rest, longest), [Next]_vars
    PROVE  UpInv(rest, longest)'
<1>1. ControllerTypeOK
  BY DEF CtlInv
<1>2. CASE Send
  BY <1>1, <1>2, SendUp DEF Send
<1>3. CASE TickDram
  BY <1>1, <1>3, TickDramUp
<1>4. CASE TickController
  BY <1>4, StallUp, ServeUp DEF TickController
<1>5. CASE UNCHANGED vars
  <2>1. buffer' = buffer /\ wait' = wait /\ state' = state /\ turn' = turn /\ timer' = timer
    BY <1>5 DEF vars, ddrVars, controllerVars
  <2> QED
    BY <2>1 DEF UpInv, FewInTheWay, DoneInTime, WaitsBelow
<1> QED
  BY <1>2, <1>3, <1>4, <1>5 DEF Next

LEMMA UpKeeps ==
    ASSUME NEW rest, NEW longest, PeriodSuffices(rest, longest), ControllerTypeOK,
           UpInv(rest, longest)
    PROVE  RefreshKeepsUp
<1> SUFFICES ASSUME turn = "controller", timer = 1, NEW i \in DOMAIN buffer["priority"],
                    buffer["priority"][i].final = "REFab"
             PROVE  FALSE
  BY DEF RefreshKeepsUp
<1>1. Many(buffer["priority"], "REFab") = 0
  BY DueInTime
<1>2. buffer["priority"] \in Seq(Entries)
  BY DEF ControllerTypeOK, Buffers
<1>3. SlotsFor(buffer["priority"], "REFab") = {}
  <2> HIDE DEF Entries
  <2> QED
    BY <1>1, <1>2, ManyNat
<1> QED
  BY <1>3 DEF SlotsFor

(* No refresh ever waits for the next one, if the refresh period is long   *)
(* enough for what can be in the way of the refreshes that become due: no  *)
(* sequence of requests, hits, conflicts or rows to be closed holds them   *)
(* up for longer.                                                          *)
THEOREM RefreshesKeepUp ==
    ASSUME NEW CONSTANT rest, NEW CONSTANT longest, PeriodSuffices(rest, longest)
    PROVE  Spec => []RefreshKeepsUp
<1>1. Init => UpInv(rest, longest)
  BY InitUp
<1>2. CtlInv /\ CtlInv' /\ Ordered /\ UpInv(rest, longest) /\ [Next]_vars => UpInv(rest, longest)'
  BY StepUp
<1>3. CtlInv /\ UpInv(rest, longest) => RefreshKeepsUp
  BY UpKeeps DEF CtlInv
<1> QED
  BY InitCtlInv, StepCtlInv, InitOrdered, StepOrdered, <1>1, <1>2, <1>3, PTL DEF Spec
=============================================================================
