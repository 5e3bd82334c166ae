----------------------------- MODULE DevicesProofs -----------------------------
(***************************************************************************)
(* Whatever is asked of a device whose tables fit together, and for        *)
(* however long, its history keeps to its timing values.                   *)
(***************************************************************************)
EXTENDS Devices, SequenceTheorems, FiniteSetTheorems, WellFoundedInduction, TLAPS

-----------------------------------------------------------------------------
(* Least and greatest members.                                             *)
LEMMA NatMin ==
    ASSUME NEW S \in SUBSET Nat, S # {}
    PROVE  \E x \in S : \A y \in S : x <= y
<1> DEFINE R == {ss \in Nat \X Nat : ss[1] < ss[2]}
<1>1. IsWellFoundedOn(R, Nat)
  BY NatLessThanWellFounded, Zenon DEF OpToRel
<1>2. \A x, y \in Nat : <<y, x>> \notin R => x <= y
  OBVIOUS
<1> HIDE DEF R
<1>3. \E x \in S : \A y \in S : <<y, x>> \notin R
  BY <1>1, WFMin
<1> QED
  BY <1>2, <1>3

LEMMA MaxOfBounded ==
    ASSUME NEW S \in SUBSET Int, S # {}, NEW K \in Int, \A x \in S : x <= K
    PROVE  Max(S) \in S /\ \A x \in S : x <= Max(S)
<1> DEFINE Below0 == {K - x : x \in S}
<1>1. Below0 \in SUBSET Nat /\ Below0 # {}
  <2>1. \A x \in S : K - x \in Nat
    OBVIOUS
  <2> QED
    BY <2>1
<1>2. PICK m \in Below0 : \A y \in Below0 : m <= y
  <2> HIDE DEF Below0
  <2> QED
    BY <1>1, NatMin
<1>3. PICK x \in S : m = K - x
  BY <1>2
<1>4. \A y \in S : x >= y
  <2> TAKE y \in S
  <2>1. m <= K - y
    BY <1>2
  <2> QED
    BY <2>1, <1>3
<1>5. Max(S) \in S /\ \A y \in S : Max(S) >= y
  BY <1>3, <1>4 DEF Max
<1> QED
  BY <1>5

LEMMA MinOfNat ==
    ASSUME NEW S \in SUBSET Nat, S # {}
    PROVE  Min(S) \in S /\ \A x \in S : Min(S) <= x
BY NatMin DEF Min

(* Finitely many numbers have a bound.                                     *)
LEMMA FamilyBound ==
    ASSUME NEW n \in Nat, NEW f \in [1..n -> Int]
    PROVE  \E K \in Int : \A i \in 1..n : f[i] <= K
<1> DEFINE Bad == {k \in 0..n : ~\E K \in Int : \A i \in 1..k : f[i] <= K}
<1>1. CASE Bad = {}
  <2>1. n \notin Bad
    BY <1>1
  <2> QED
    BY <2>1
<1>2. CASE Bad # {}
  <2>1. PICK k \in Bad : \A y \in Bad : k <= y
    <3>1. Bad \in SUBSET Nat
      OBVIOUS
    <3> HIDE DEF Bad
    <3> QED
      BY <1>2, <3>1, NatMin
  <2>2. k # 0
    <3> SUFFICES ASSUME k = 0 PROVE FALSE
      OBVIOUS
    <3>1. \A i \in 1..k : f[i] <= 0
      OBVIOUS
    <3> QED
      BY <3>1, <2>1
  <2>3. k - 1 \in 0..n /\ k - 1 \notin Bad
    <3>1. k \in 0..n /\ k - 1 \in 0..n /\ ~(k <= k - 1)
      BY <2>2
    <3>2. \A y \in Bad : k <= y
      BY <2>1
    <3> HIDE DEF Bad
    <3> QED
      BY <3>1, <3>2
  <2>4. PICK K \in Int : \A i \in 1..(k - 1) : f[i] <= K
    BY <2>3
  <2>5. f[k] \in Int
    BY <2>2
  <2>6. \E L \in Int : L >= K /\ L >= f[k]
    BY <2>5, <2>4
  <2>7. PICK L \in Int : L >= K /\ L >= f[k]
    BY <2>6
  <2>8. \A i \in 1..k : f[i] <= L
    <3> TAKE i \in 1..k
    <3>1. CASE i = k
      BY <3>1, <2>7
    <3>2. CASE i # k
      <4>1. f[i] <= K /\ f[i] \in Int
        BY <3>2, <2>4, <2>2
      <4> QED
        BY <4>1, <2>7
    <3> QED
      BY <3>1, <3>2
  <2> QED
    BY <2>8, <2>1
<1> QED
  BY <1>1, <1>2

-----------------------------------------------------------------------------
(* Nodes and their paths.                                                  *)
Bank3 == Nat \X Nat \X Nat
Nodes3 == {<<r>> : r \in Nat} \cup Bank3

LEMMA MinOfThree ==
    ASSUME NEW a \in Nat, NEW b \in Nat, NEW c \in Nat
    PROVE  /\ Min({a, b, c}) \in {a, b, c}
           /\ Min({a, b, c}) <= a /\ Min({a, b, c}) <= b /\ Min({a, b, c}) <= c
<1> DEFINE S == {a, b, c}
<1>1. S \in SUBSET Nat /\ S # {}
  OBVIOUS
<1> HIDE DEF S
<1>2. Min(S) \in S /\ \A x \in S : Min(S) <= x
  BY <1>1, MinOfNat
<1>3. a \in S /\ b \in S /\ c \in S
  BY DEF S
<1>4. Min(S) \in S /\ Min(S) <= a /\ Min(S) <= b /\ Min(S) <= c
  BY <1>2, <1>3
<1> QED
  BY <1>4 DEF S

LEMMA AgreeIs ==
    ASSUME NEW p, NEW q, Len(p) \in Nat, Len(q) \in Nat, NEW l \in Nat
    PROVE  Agree(p, q, l) <=> \A i \in 1..l : i <= Len(p) /\ i <= Len(q) => p[i] = q[i]
<1> DEFINE a == Len(p)
           b == Len(q)
<1>0. a \in Nat /\ b \in Nat
  OBVIOUS
<1> DEFINE m == Min({l, a, b})
<1>1. m \in {l, a, b} /\ m <= l /\ m <= a /\ m <= b
  <2> HIDE DEF a, b
  <2> QED
    BY <1>0, MinOfThree
<1>2. Agree(p, q, l) <=> \A i \in 1..m : p[i] = q[i]
  BY DEF Agree
<1> HIDE DEF m, a, b
<1>3. \A i \in 1..l : i <= a /\ i <= b <=> i \in 1..m
  BY <1>0, <1>1
<1>4. \A i \in 1..m : i \in 1..l
  BY <1>0, <1>1
<1>5. Agree(p, q, l) <=> \A i \in 1..l : i <= a /\ i <= b => p[i] = q[i]
  BY <1>2, <1>3, <1>4
<1> QED
  BY <1>5 DEF a, b

LEMMA BankParts ==
    ASSUME NEW b \in Bank3
    PROVE  /\ Len(b) = 3 /\ b[1] \in Nat /\ b[2] \in Nat /\ b[3] \in Nat
           /\ b = <<b[1], b[2], b[3]>> /\ b \in Nodes3 /\ <<b[1]>> \in Nodes3
BY DEF Bank3, Nodes3

LEMMA NodeParts ==
    ASSUME NEW p \in Nodes3
    PROVE  /\ Len(p) \in {1, 3} /\ p[1] \in Nat
           /\ Len(p) = 1 => p = <<p[1]>>
           /\ Len(p) = 3 => p \in Bank3
BY DEF Bank3, Nodes3

(* Two nodes agree on their common levels.                                 *)
LEMMA AgreeNodes ==
    ASSUME NEW p \in Nodes3, NEW q \in Nodes3
    PROVE  /\ Agree(p, q, 0)
           /\ Agree(p, q, 1) <=> p[1] = q[1]
           /\ Agree(p, q, 3) <=> IF Len(p) = 3 /\ Len(q) = 3 THEN p = q ELSE p[1] = q[1]
<1>1. Len(p) \in {1, 3} /\ Len(q) \in {1, 3}
  BY NodeParts
<1>2. Agree(p, q, 0)
  BY <1>1, AgreeIs
<1>3. Agree(p, q, 1) <=> p[1] = q[1]
  BY <1>1, AgreeIs
<1>4. Agree(p, q, 3) <=> \A i \in 1..3 : i <= Len(p) /\ i <= Len(q) => p[i] = q[i]
  BY <1>1, AgreeIs
<1>5. CASE Len(p) = 3 /\ Len(q) = 3
  <2>1. Agree(p, q, 3) <=> p[1] = q[1] /\ p[2] = q[2] /\ p[3] = q[3]
    BY <1>4, <1>5
  <2>2. p = <<p[1], p[2], p[3]>> /\ q = <<q[1], q[2], q[3]>>
    BY <1>5, NodeParts, BankParts
  <2> QED
    BY <2>1, <2>2, <1>2, <1>3, <1>5
<1>6. CASE ~(Len(p) = 3 /\ Len(q) = 3)
  <2>1. Agree(p, q, 3) <=> p[1] = q[1]
    BY <1>1, <1>4, <1>6
  <2> QED
    BY <2>1, <1>2, <1>3, <1>6
<1> QED
  BY <1>5, <1>6

LEMMA AgreeAbove ==
    ASSUME NEW p \in Nodes3, NEW q \in Nodes3, Agree(p, q, 3), NEW l \in 0..3
    PROVE  Agree(p, q, l)
<1>1. Len(p) \in Nat /\ Len(q) \in Nat
  BY NodeParts
<1>2. \A i \in 1..3 : i <= Len(p) /\ i <= Len(q) => p[i] = q[i]
  BY <1>1, AgreeIs
<1>3. \A i \in 1..l : i <= Len(p) /\ i <= Len(q) => p[i] = q[i]
  BY <1>2
<1> QED
  BY <1>1, <1>3, AgreeIs

(* Two nodes over a bank are on one path; a bank under a node on whose path *)
(* it goes further down.                                                   *)
LEMMA AgreeOverBank ==
    ASSUME NEW p \in Nodes3, NEW q \in Nodes3, NEW b \in Bank3
    PROVE  /\ Agree(p, b, 3) /\ Agree(q, b, 3) => Agree(p, q, 3)
           /\ Agree(p, q, 3) /\ Agree(q, b, 3) /\ Len(p) <= Len(q) => Agree(p, b, 3)
           /\ Agree(p, q, 3) <=> Agree(q, p, 3)
           /\ Agree(b, b, 3) /\ Agree(<<b[1]>>, b, 3)
           /\ Agree(p, b, 3) => p[1] = b[1]
           /\ Agree(p, b, 3) /\ Len(p) = 3 => p = b
           /\ Len(p) = 1 /\ p[1] = b[1] => Agree(p, b, 3)
<1> DEFINE r == <<b[1]>>
<1>1. /\ Len(p) \in {1, 3} /\ Len(q) \in {1, 3} /\ Len(b) = 3
      /\ b \in Nodes3 /\ r \in Nodes3 /\ Len(r) = 1 /\ r[1] = b[1]
  BY NodeParts, BankParts
<1> HIDE DEF r
<1>2. /\ Agree(p, b, 3) <=> IF Len(p) = 3 THEN p = b ELSE p[1] = b[1]
      /\ Agree(q, b, 3) <=> IF Len(q) = 3 THEN q = b ELSE q[1] = b[1]
      /\ Agree(p, q, 3) <=> IF Len(p) = 3 /\ Len(q) = 3 THEN p = q ELSE p[1] = q[1]
      /\ Agree(q, p, 3) <=> IF Len(p) = 3 /\ Len(q) = 3 THEN p = q ELSE p[1] = q[1]
      /\ Agree(b, b, 3) /\ Agree(r, b, 3)
  BY <1>1, AgreeNodes
<1>3. /\ Agree(p, b, 3) /\ Agree(q, b, 3) => Agree(p, q, 3)
      /\ Agree(p, q, 3) /\ Agree(q, b, 3) /\ Len(p) <= Len(q) => Agree(p, b, 3)
  <2>1. CASE Len(p) = 3 /\ Len(q) = 3
    BY <2>1, <1>2
  <2>2. CASE Len(p) = 1 /\ Len(q) = 3
    BY <2>2, <1>2
  <2>3. CASE Len(p) = 3 /\ Len(q) = 1
    BY <2>3, <1>2
  <2>4. CASE Len(p) = 1 /\ Len(q) = 1
    BY <2>4, <1>2
  <2> QED
    BY <1>1, <2>1, <2>2, <2>3, <2>4
<1> QED
  BY <1>1, <1>2, <1>3 DEF r

LEMMA NodeOverBank ==
    ASSUME NEW p \in Nodes3, NEW b \in Bank3
    PROVE  /\ Agree(p, b, 3) => p[1] = b[1]
           /\ Agree(p, b, 3) /\ Len(p) = 3 => p = b
           /\ Len(p) = 1 /\ p[1] = b[1] => Agree(p, b, 3)
BY AgreeOverBank

-----------------------------------------------------------------------------
(* What the catalogue says of the device under test.                       *)
NodesOver(B) == {<<b[1]>> : b \in B} \cup B

Entries(d, B) ==
    [cmd : Issuable(d), path : NodesOver(B), at : Nat, for : (DOMAIN d.requests) \X B \X Nat]

BankStates == [st : {"closed", "opened", "pre-opened", "refreshing"}, rows : SUBSET Nat]

Pending(d, B) == [cmd : Refreshes, path : NodesOver(B), at : Nat]

HistoryTypeOK ==
    /\ dut \in Catalogue
    /\ now \in Nat
    /\ hist \in Seq(Entries(D, Banks))
    /\ bank \in [Banks -> BankStates]
    /\ ends \in SUBSET Pending(D, Banks)
    /\ synced \in [Ranks -> Int]

LEMMA DutFacts ==
    ASSUME dut \in Catalogue
    PROVE  /\ FitsTogether(D) /\ SpacesBursts(D) /\ RestoresRows(D) /\ SpacesRefreshes(D)
           /\ Banks \subseteq Bank3 /\ FirstBank \in Banks
           /\ \A y \in Targets : y[1] \in Banks /\ y[2] \in Nat
           /\ TwoStep(D) => \A y \in Targets : y[2] = 0
<1>1. /\ FitsTogether(D) /\ SpacesBursts(D) /\ RestoresRows(D) /\ SpacesRefreshes(D)
      /\ Targets \subseteq Bank3 \X Nat
      /\ \E y \in Targets : y[1] = FirstBank
      /\ \A c \in DOMAIN D.preqs, y \in Targets : D.preqs[c] = "row 0 open" => y[2] = 0
  BY CatalogueAssumption, TablesAssumption DEF D, Targets, Bank3
<1>2. TwoStep(D) => \A y \in Targets : y[2] = 0
  BY <1>1 DEF TwoStep
<1>3. \A y \in Targets : y[1] \in Bank3 /\ y[2] \in Nat
  BY <1>1
<1> QED
  BY <1>1, <1>2, <1>3 DEF Banks

LEMMA NodesOverBanks ==
    ASSUME NEW B \in SUBSET Bank3
    PROVE  NodesOver(B) \in SUBSET Nodes3
BY DEF NodesOver, Nodes3, Bank3

(* Where a command goes.                                                   *)
LEMMA PathIs ==
    ASSUME dut \in Catalogue, NEW c \in Issuable(D), NEW b \in Banks
    PROVE  /\ D.scope[c] = IF c \in RankWide THEN 1 ELSE 3
           /\ D.scope[c] \in {1, 3}
           /\ Path(c, b) = IF c \in RankWide THEN <<b[1]>> ELSE b
           /\ Path(c, b) \in NodesOver(Banks) /\ Path(c, b) \in Nodes3
           /\ Len(Path(c, b)) = D.scope[c] /\ Path(c, b)[1] = b[1]
           /\ Agree(Path(c, b), b, 3)
<1>1. FitsTogether(D) /\ b \in Bank3
  BY DutFacts
<1>2. D.scope[c] = IF c \in RankWide THEN 1 ELSE 3
  BY <1>1 DEF FitsTogether
<1>3. SubSeq(b, 1, 1) = <<b[1]>> /\ SubSeq(b, 1, 3) = b
  <2>1. b \in Seq(Nat) /\ Len(b) = 3 /\ b[1] \in Nat
    <3>1. /\ b = <<b[1], b[2], b[3]>> /\ Len(b) = 3
          /\ b[1] \in Nat /\ b[2] \in Nat /\ b[3] \in Nat
      BY <1>1, BankParts
    <3>2. <<b[1], b[2], b[3]>> \in Seq(Nat)
      BY <3>1
    <3> QED
      BY <3>1, <3>2
  <2>2. SubSeq(b, 1, 3) = b
    BY <2>1, SubSeqFull
  <2>3. /\ SubSeq(b, 1, 1) \in Seq(Nat) /\ Len(SubSeq(b, 1, 1)) = 1
        /\ SubSeq(b, 1, 1)[1] = b[1]
    BY <2>1, SubSeqProperties
  <2>4. SubSeq(b, 1, 1) = <<b[1]>>
    <3> DEFINE p == SubSeq(b, 1, 1)
               x == b[1]
    <3>1. p \in Seq(Nat) /\ Len(p) = 1 /\ p[1] = x /\ x \in Nat
      BY <2>1, <2>3
    <3> HIDE DEF p, x
    <3>2. <<x>> \in Seq(Nat) /\ Len(<<x>>) = 1 /\ <<x>>[1] = x
      BY <3>1
    <3>3. p = <<x>>
      BY <3>1, <3>2, SeqEqual
    <3> QED
      BY <3>3 DEF p, x
  <2> QED
    BY <2>2, <2>4
<1>4. Path(c, b) = IF c \in RankWide THEN <<b[1]>> ELSE b
  BY <1>2, <1>3 DEF Path
<1>5. Agree(b, b, 3) /\ Agree(<<b[1]>>, b, 3)
  <2>1. b \in Nodes3
    BY <1>1, BankParts
  <2> QED
    BY <1>1, <2>1, AgreeOverBank
<1>6. b \in Nodes3 /\ <<b[1]>> \in Nodes3 /\ Len(b) = 3 /\ Len(<<b[1]>>) = 1
  BY <1>1, BankParts
<1>7. CASE c \in RankWide
  BY <1>2, <1>4, <1>5, <1>6, <1>7 DEF NodesOver
<1>8. CASE c \notin RankWide
  BY <1>2, <1>4, <1>5, <1>6, <1>8 DEF NodesOver
<1> QED
  BY <1>7, <1>8

LEMMA OwnCommand ==
    ASSUME dut \in Catalogue, NEW type \in DOMAIN D.requests
    PROVE  /\ Asks(D, type, D.requests[type])
           /\ StepsTo(D, D.requests[type]) \subseteq Issuable(D)
           /\ \A other \in DOMAIN D.requests :
                 D.requests[other] = D.requests[type] => other = type
BY DutFacts DEF FitsTogether, Issuable

(* The step a request takes is one of those on its way.                    *)
LEMMA PreqSteps ==
    ASSUME dut \in Catalogue, NEW type \in DOMAIN D.requests, NEW b, NEW row, NEW t
    PROVE  /\ Preq(D.requests[type], b, row, t) \in StepsTo(D, D.requests[type])
           /\ Preq(D.requests[type], b, row, t) \in Issuable(D)
<1> DEFINE c == D.requests[type]
<1>1. Asks(D, type, c) /\ StepsTo(D, c) \subseteq Issuable(D)
  BY OwnCommand
<1> HIDE DEF c
<1>2. c \notin DOMAIN D.preqs \/
      D.preqs[c] \in {"row open", "row 0 open", "bank closed", "all closed"}
  BY <1>1 DEF Asks
<1>3. NeedsAccess(c, b, row) \in {c, "PRE", "ACT"}
  BY DEF NeedsAccess
<1>4. NeedsSyncedAccess(c, b, t) \in {c, "PRE", "ACT1", "ACT2"} \cup Syncs
  BY DEF NeedsSyncedAccess, Syncs
<1>5. NeedsClosed(c, b) \in {c, "PRE"} /\ NeedsAllClosed(c, b) \in {c, "PREA"}
  BY DEF NeedsClosed, NeedsAllClosed
<1>6. Preq(c, b, row, t) \in StepsTo(D, c)
  <2>1. CASE c \notin DOMAIN D.preqs
    BY <2>1 DEF Preq, StepsTo
  <2>2. CASE c \in DOMAIN D.preqs /\ D.preqs[c] = "row open"
    BY <2>2, <1>3 DEF Preq, StepsTo
  <2>3. CASE c \in DOMAIN D.preqs /\ D.preqs[c] = "row 0 open"
    BY <2>3, <1>4 DEF Preq, StepsTo
  <2>4. CASE c \in DOMAIN D.preqs /\ D.preqs[c] = "bank closed"
    BY <2>4, <1>5 DEF Preq, StepsTo
  <2>5. CASE c \in DOMAIN D.preqs /\ D.preqs[c] = "all closed"
    BY <2>5, <1>5 DEF Preq, StepsTo
  <2> QED
    BY <1>2, <2>1, <2>2, <2>3, <2>4, <2>5
<1> QED
  BY <1>1, <1>6 DEF c

-----------------------------------------------------------------------------
(* When a command may be issued.                                           *)
LEMMA HeldUntilBounds ==
    ASSUME dut \in Catalogue, NEW h \in Entries(D, Banks), NEW c \in Issuable(D),
           NEW path \in Nodes3
    PROVE  /\ HeldUntil(h, c, path) \in Int
           /\ \A l \in 0..D.scope[c] :
                 Agree(h.path, path, l) => h.at + D.gap[l][h.cmd][c] <= HeldUntil(h, c, path)
<1>1. /\ FitsTogether(D) /\ h.cmd \in Issuable(D) /\ h.at \in Nat
      /\ h.path \in Nodes3
  <2>1. NodesOver(Banks) \in SUBSET Nodes3
    BY DutFacts, NodesOverBanks
  <2> QED
    BY <2>1, DutFacts DEF Entries
<1>2. /\ D.scope[c] \in {1, 3}
      /\ \A l \in 0..3 : D.gap[l][h.cmd][c] \in Nat
      /\ \A l \in 1..3 : D.sibling[l][h.cmd][c] \in Nat
  <2>1. D.scope[c] \in {1, 3}
    BY <1>1 DEF FitsTogether
  <2>2. \A a \in Issuable(D), l \in 0..3 :
          D.gap[l][a][c] \in Nat /\ (l > 0 => D.sibling[l][a][c] \in Nat)
    BY <1>1 DEF FitsTogether
  <2>3. \A l \in 0..3 : D.gap[l][h.cmd][c] \in Nat
    BY <1>1, <2>2
  <2>4. ASSUME NEW l \in 1..3 PROVE D.sibling[l][h.cmd][c] \in Nat
    <3>1. l \in 0..3 /\ l > 0
      OBVIOUS
    <3> QED
      BY <1>1, <2>2, <3>1
  <2> QED
    BY <2>1, <2>3, <2>4
<1> DEFINE gap(l) == D.gap[l][h.cmd][c]
           sib(l) == D.sibling[l][h.cmd][c]
           A == {h.at + gap(l) : l \in {x \in 0..D.scope[c] : Agree(h.path, path, x)}}
           C == {h.at + sib(l) : l \in {x \in 1..D.scope[c] :
                     Agree(h.path, path, x - 1) /\ ~Agree(h.path, path, x)}}
<1>3. HeldUntil(h, c, path) = Max(A \cup C)
  BY DEF HeldUntil
<1>4. PICK K \in Int : \A l \in 0..3 : h.at + gap(l) <= K
  <2> DEFINE f == [i \in 1..4 |-> h.at + gap(i - 1)]
  <2>1. f \in [1..4 -> Int]
    BY <1>1, <1>2
  <2>2. PICK K \in Int : \A i \in 1..4 : f[i] <= K
    <3> HIDE DEF f
    <3> QED
      BY <2>1, FamilyBound
  <2>3. \A l \in 0..3 : l + 1 \in 1..4 /\ f[l + 1] = h.at + gap(l)
    OBVIOUS
  <2>4. \A l \in 0..3 : h.at + gap(l) <= K
    BY <2>2, <2>3
  <2> QED
    BY <2>4
<1>5. PICK L \in Int : \A l \in 1..3 : h.at + sib(l) <= L
  <2> DEFINE f == [i \in 1..3 |-> h.at + sib(i)]
  <2>1. f \in [1..3 -> Int]
    BY <1>1, <1>2
  <2>2. PICK N \in Int : \A i \in 1..3 : f[i] <= N
    <3> HIDE DEF f
    <3> QED
      BY <2>1, FamilyBound
  <2> QED
    BY <2>2
<1>6. \A l \in 0..3 : h.at + gap(l) \in Int
  BY <1>1, <1>2
<1>7. \A l \in 1..3 : h.at + sib(l) \in Int
  BY <1>1, <1>2
<1>8. Agree(h.path, path, 0)
  BY <1>1, AgreeNodes
<1>9. \A x \in A \cup C : x \in Int /\ (x <= K \/ x <= L)
  <2> HIDE DEF gap, sib
  <2> QED
    BY <1>2, <1>4, <1>5, <1>6, <1>7
<1>10. h.at + gap(0) \in A
  BY <1>2, <1>8
<1> HIDE DEF gap, sib, A, C
<1>11. PICK M \in Int : K <= M /\ L <= M
  OBVIOUS
<1>12. \A x \in A \cup C : x <= M
  BY <1>9, <1>11
<1>13. Max(A \cup C) \in A \cup C /\ \A x \in A \cup C : x <= Max(A \cup C)
  BY <1>9, <1>10, <1>12, MaxOfBounded
<1>14. \A l \in 0..D.scope[c] : Agree(h.path, path, l) => h.at + gap(l) \in A
  BY DEF A
<1>15. \A l \in 0..D.scope[c] :
         Agree(h.path, path, l) => h.at + gap(l) <= HeldUntil(h, c, path)
  BY <1>3, <1>13, <1>14
<1> QED
  BY <1>3, <1>9, <1>13, <1>15 DEF gap

(* The device's clock and its history go together.                         *)
Times ==
    /\ \A i \in DOMAIN hist : hist[i].at <= now
    /\ \A e \in ends : now <= e.at

LEMMA NextTurnBounds ==
    ASSUME HistoryTypeOK, Times
    PROVE  /\ NextTurn \in Nat /\ now <= NextTurn /\ 1 <= NextTurn
           /\ \A i \in DOMAIN hist : hist[i].at <= hist[Len(hist)].at => hist[i].at < NextTurn
<1>1. now \in Nat /\ hist \in Seq(Entries(D, Banks)) /\ \A i \in DOMAIN hist : hist[i].at <= now
  BY DEF HistoryTypeOK, Times
<1>2. \A i \in DOMAIN hist : hist[i].at \in Nat
  <2>1. \A i \in DOMAIN hist : hist[i] \in Entries(D, Banks)
    BY <1>1, ElementOfSeq
  <2> QED
    BY <2>1 DEF Entries
<1>3. Max({now, 1}) \in {now, 1} /\ now <= Max({now, 1}) /\ 1 <= Max({now, 1})
  <2> DEFINE S == {now, 1}
  <2>1. S \in SUBSET Int /\ S # {} /\ (\A x \in S : x <= now + 1) /\ now + 1 \in Int
    BY <1>1
  <2> HIDE DEF S
  <2>2. Max(S) \in S /\ \A x \in S : x <= Max(S)
    BY <2>1, MaxOfBounded
  <2> QED
    BY <2>2 DEF S
<1>4. CASE hist # <<>> /\ hist[Len(hist)].at = now
  <2>1. NextTurn = now + 1
    BY <1>4 DEF NextTurn
  <2> QED
    BY <1>1, <1>2, <2>1
<1>5. CASE hist = <<>>
  <2>1. NextTurn = Max({now, 1}) /\ DOMAIN hist = {}
    BY <1>5 DEF NextTurn
  <2> QED
    BY <1>1, <1>3, <2>1
<1>6. CASE hist # <<>> /\ hist[Len(hist)].at # now
  <2>1. NextTurn = Max({now, 1})
    BY <1>6 DEF NextTurn
  <2>2. Len(hist) \in DOMAIN hist
    BY <1>1, <1>6
  <2>3. hist[Len(hist)].at < now
    BY <1>1, <1>2, <1>6, <2>2
  <2> HIDE <1>6
  <2>4. NextTurn \in Nat /\ now <= NextTurn /\ 1 <= NextTurn
    BY <1>1, <1>3, <2>1
  <2>5. ASSUME NEW i \in DOMAIN hist, hist[i].at <= hist[Len(hist)].at
        PROVE  hist[i].at < NextTurn
    BY <1>1, <1>2, <2>2, <2>3, <2>4, <2>5
  <2> QED
    BY <2>4, <2>5
<1> QED
  BY <1>4, <1>5, <1>6

LEMMA EarliestBounds ==
    ASSUME HistoryTypeOK, Times, NEW c \in Issuable(D), NEW b \in Banks
    PROVE  /\ Earliest(c, b) \in Nat /\ NextTurn <= Earliest(c, b)
           /\ \A i \in DOMAIN hist : HeldUntil(hist[i], c, Path(c, b)) <= Earliest(c, b)
<1>1. NextTurn \in Nat
  BY NextTurnBounds
<1>2. /\ hist \in Seq(Entries(D, Banks)) /\ DOMAIN hist = 1..Len(hist) /\ Len(hist) \in Nat
      /\ dut \in Catalogue
  BY DEF HistoryTypeOK
<1>3. Path(c, b) \in Nodes3
  BY <1>2, PathIs
<1> DEFINE held(i) == HeldUntil(hist[i], c, Path(c, b))
<1>4. \A i \in DOMAIN hist : held(i) \in Int
  BY <1>2, <1>3, HeldUntilBounds
<1> DEFINE f == [i \in 1..Len(hist) |-> held(i)]
<1>5. PICK K \in Int : \A i \in 1..Len(hist) : f[i] <= K
  <2>1. f \in [1..Len(hist) -> Int]
    BY <1>2, <1>4
  <2> HIDE DEF f
  <2> QED
    BY <1>2, <2>1, FamilyBound
<1>6. \A i \in DOMAIN hist : held(i) <= K
  BY <1>2, <1>5
<1> DEFINE S == {NextTurn} \cup {held(i) : i \in DOMAIN hist}
<1>7. Earliest(c, b) = Max(S)
  BY DEF Earliest
<1>8. PICK M \in Int : K <= M /\ NextTurn <= M
  BY <1>1
<1>9. S \in SUBSET Int /\ NextTurn \in S /\ (\A i \in DOMAIN hist : held(i) \in S)
  BY <1>1, <1>4
<1>10. \A x \in S : x <= M
  <2> HIDE DEF held
  <2> QED
    BY <1>1, <1>4, <1>6, <1>8
<1> HIDE DEF S, held
<1>11. Max(S) \in S /\ \A x \in S : x <= Max(S)
  BY <1>9, <1>10, MaxOfBounded
<1>12. Max(S) \in Int /\ NextTurn <= Max(S) /\ \A i \in DOMAIN hist : held(i) <= Max(S)
  BY <1>9, <1>11
<1> QED
  BY <1>1, <1>7, <1>12 DEF held

(* What a request needs changes with the clock only when the               *)
(* synchronisation runs out.                                               *)
LEMMA PreqAfterSync ==
    ASSUME NEW c, NEW b, NEW row, NEW t \in Int, NEW u \in Int, synced[b[1]] \in Int,
           synced[b[1]] < t, synced[b[1]] < u
    PROVE  Preq(c, b, row, t) = Preq(c, b, row, u)
<1>1. NeedsSyncedAccess(c, b, t) = NeedsSyncedAccess(c, b, u)
  <2>1. ~(synced[b[1]] >= t) /\ ~(synced[b[1]] >= u)
    OBVIOUS
  <2> QED
    BY <2>1 DEF NeedsSyncedAccess
<1> QED
  BY <1>1 DEF Preq

LEMMA IssueTimeBounds ==
    ASSUME HistoryTypeOK, Times, NEW type \in DOMAIN D.requests, NEW b \in Banks, NEW row
    PROVE  LET t == IssueTime(D.requests[type], b, row)
           IN  /\ t \in Nat /\ NextTurn <= t
               /\ Earliest(Preq(D.requests[type], b, row, t), b) <= t
<1> DEFINE c == D.requests[type]
           Ready(t) == Earliest(Preq(c, b, row, t), b)
<1>1. dut \in Catalogue /\ synced[b[1]] \in Int
  BY DEF HistoryTypeOK, Ranks
<1>2. ASSUME NEW t PROVE Ready(t) \in Nat /\ NextTurn <= Ready(t)
  <2>1. Preq(c, b, row, t) \in Issuable(D)
    BY <1>1, PreqSteps
  <2> QED
    BY <2>1, EarliestBounds
<1>3. NextTurn \in Nat
  BY NextTurnBounds
<1> DEFINE last == Max({NextTurn, synced[b[1]] + 1})
           changes == {NextTurn, last}
           moments == changes \cup {Ready(x) : x \in changes}
           Good == {t \in moments : t >= Ready(t)}
<1>4. IssueTime(c, b, row) = Min(Good)
  BY DEF IssueTime
<1>5. last \in Int /\ NextTurn <= last /\ synced[b[1]] < last
  <2> DEFINE S == {NextTurn, synced[b[1]] + 1}
  <2>1. PICK K \in Int : NextTurn <= K /\ synced[b[1]] + 1 <= K
    BY <1>1, <1>3
  <2>2. S \in SUBSET Int /\ S # {} /\ \A x \in S : x <= K
    BY <1>1, <1>3, <2>1
  <2>3. NextTurn \in S /\ synced[b[1]] + 1 \in S
    OBVIOUS
  <2> HIDE DEF S
  <2>4. Max(S) \in S /\ \A x \in S : x <= Max(S)
    BY <2>2, MaxOfBounded
  <2>5. last = Max(S)
    BY DEF S
  <2>6. Max(S) \in Int /\ NextTurn <= Max(S) /\ synced[b[1]] + 1 <= Max(S)
    BY <2>2, <2>3, <2>4
  <2> HIDE DEF last
  <2>7. last \in Int /\ NextTurn <= last /\ synced[b[1]] + 1 <= last
    BY <2>5, <2>6
  <2> QED
    BY <1>1, <2>7
<1> HIDE DEF c, last
<1>6. last \in moments /\ Ready(last) \in moments
  OBVIOUS
<1>7. Ready(last) \in Nat
  BY <1>2
<1>8. Good # {}
  <2>1. CASE synced[b[1]] < Ready(last)
    <3>1. Preq(c, b, row, last) = Preq(c, b, row, Ready(last))
      <4> HIDE DEF Ready
      <4> QED
        BY <1>1, <1>5, <1>7, <2>1, PreqAfterSync
    <3>2. Ready(Ready(last)) = Ready(last)
      BY <3>1
    <3>3. Ready(last) >= Ready(Ready(last))
      BY <3>2, <1>7
    <3>4. Ready(last) \in Good
      BY <3>3, <1>6
    <3> QED
      BY <3>4
  <2>2. CASE ~(synced[b[1]] < Ready(last))
    <3>1. last >= Ready(last)
      BY <1>1, <1>5, <1>7, <2>2
    <3>2. last \in Good
      BY <3>1, <1>6
    <3> QED
      BY <3>2
  <2> QED
    BY <2>1, <2>2
<1>9. \A t \in moments : t \in Nat /\ NextTurn <= t
  <2>1. last \in Nat
    BY <1>3, <1>5
  <2> HIDE DEF Ready
  <2> QED
    BY <1>2, <1>3, <1>5, <2>1
<1>10. Good \in SUBSET Nat /\ \A t \in Good : NextTurn <= t /\ t >= Ready(t)
  <2> HIDE DEF moments, Ready
  <2> QED
    BY <1>9
<1> DEFINE m == Min(Good)
<1>11. m \in Good
  <2> HIDE DEF Good
  <2> QED
    BY <1>8, <1>10, MinOfNat
<1>12. m \in Nat /\ NextTurn <= m /\ m >= Ready(m)
  <2> HIDE DEF m, Ready, Good
  <2> QED
    BY <1>10, <1>11
<1>13. Ready(m) <= m
  <2>1. Ready(m) \in Nat
    BY <1>2
  <2> HIDE DEF m, Ready
  <2> QED
    BY <1>12, <2>1
<1> HIDE DEF Good
<1>14. m = IssueTime(c, b, row)
  BY <1>4
<1> QED
  BY <1>12, <1>13, <1>14 DEF c

-----------------------------------------------------------------------------
(* The invariant.  Entry k opened a row of the bank and none up to n has   *)
(* closed it.                                                              *)
StillOpen(h, k, b, n) ==
    /\ k \in 1..n /\ h[k].cmd \in Opens /\ Agree(h[k].path, b, 3)
    /\ \A m \in (k + 1)..n : ~(h[m].cmd \in Closes /\ Agree(h[m].path, b, 3))

(* Every two commands are as far apart as the table says.                  *)
Spaced(d, h) ==
    \A j \in DOMAIN h, i \in DOMAIN h : i < j =>
        /\ h[i].at < h[j].at
        /\ \A l \in 0..d.scope[h[j].cmd] : Agree(h[i].path, h[j].path, l) =>
               h[i].at + d.gap[l][h[i].cmd][h[j].cmd] <= h[j].at

(* Every command is a step of the request it was issued for, and goes as   *)
(* far down as its scope.                                                  *)
Asked(d, h) ==
    \A i \in DOMAIN h :
        /\ h[i].cmd \in StepsTo(d, d.requests[h[i].for[1]])
        /\ Len(h[i].path) = d.scope[h[i].cmd]
        /\ h[i].for[1] \in {"refresh", "rfm"} => h[i].for[2] = FirstBank /\ h[i].for[3] = 0

(* The banks are open as the history says, and refreshing only while the   *)
(* end of a refresh is pending, when a stray PRE may have closed them.     *)
OpenStates == {"opened", "pre-opened"}

BanksStand(B, h, s, e) ==
    \A b \in B :
        /\ s[b].st \in OpenStates <=> \E k \in DOMAIN h : StillOpen(h, k, b, Len(h))
        /\ s[b].st = "refreshing" => \E x \in e : Agree(x.path, b, 3)

EndsStand(d, B, h, s, e) ==
    \A x \in e :
        /\ x.cmd \in DOMAIN d.ends
        /\ \E i \in DOMAIN h : /\ h[i].cmd = x.cmd /\ h[i].path = x.path
                               /\ x.at = h[i].at + d.ends[x.cmd] - 1
        /\ \A b \in B : Agree(x.path, b, 3) => s[b].st \in {"refreshing", "closed"}

(* A refresh found its banks closed, and nothing was issued to them until  *)
(* it was over but a PRE that found its bank not open.                     *)
StrayAt(h, j) ==
    h[j].cmd = "PRE" /\ ~\E k \in 1..(j - 1) : StillOpen(h, k, h[j].path, j - 1)

RefreshesClosed(B, h) ==
    \A i \in DOMAIN h, b \in B : h[i].cmd \in Refreshes /\ Agree(h[i].path, b, 3) =>
        ~\E k \in 1..(i - 1) : StillOpen(h, k, b, i - 1)

Reserved(d, h) ==
    \A j \in DOMAIN h, i \in DOMAIN h :
        i < j /\ h[i].cmd \in Refreshes /\ Agree(h[i].path, h[j].path, 3) /\ ~StrayAt(h, j)
            => h[i].at + RefreshCyclesOf(d, h[i].cmd) <= h[j].at

InTwoSteps(d, B, s) == TwoStep(d) \/ \A b \in B : s[b].st # "pre-opened"

DeviceInv ==
    /\ HistoryTypeOK
    /\ Times
    /\ Spaced(D, hist)
    /\ Asked(D, hist)
    /\ BanksStand(Banks, hist, bank, ends)
    /\ EndsStand(D, Banks, hist, bank, ends)
    /\ RefreshesClosed(Banks, hist)
    /\ Reserved(D, hist)
    /\ InTwoSteps(D, Banks, bank)

(* What is known of a command that a request leads to.                     *)
Issued(type, b, row, c, t) ==
    /\ c = Preq(D.requests[type], b, row, t)
    /\ NextTurn <= t
    /\ \A i \in DOMAIN hist : HeldUntil(hist[i], c, Path(c, b)) <= t
    /\ TwoStep(D) => row = 0
    /\ type \in {"refresh", "rfm"} =>
          /\ b = FirstBank /\ row = 0
          /\ \A i \in DOMAIN hist : hist[i].for = <<type, FirstBank, 0>> =>
                hist[i].cmd # D.requests[type]
    /\ IssueCommand(c, b, row, t, <<type, b, row>>)

LEMMA AskIssues ==
    ASSUME HistoryTypeOK, Times, NEW type, NEW b \in Banks, NEW row, Ask(type, b, row)
    PROVE  /\ type \in DOMAIN D.requests
           /\ \E t \in Nat, c \in Issuable(D) :
                 /\ c = Preq(D.requests[type], b, row, t)
                 /\ NextTurn <= t
                 /\ \A i \in DOMAIN hist : HeldUntil(hist[i], c, Path(c, b)) <= t
                 /\ IssueCommand(c, b, row, t, <<type, b, row>>)
<1>1. type \in DOMAIN D.requests /\ dut \in Catalogue
  BY DEF Ask, HistoryTypeOK
<1> DEFINE own == D.requests[type]
           t == IssueTime(own, b, row)
           c == Preq(own, b, row, t)
<1>2. t \in Nat /\ NextTurn <= t /\ Earliest(c, b) <= t
  BY <1>1, IssueTimeBounds
<1>3. c \in Issuable(D)
  BY <1>1, PreqSteps
<1>4. IssueCommand(c, b, row, t, <<type, b, row>>)
  BY DEF Ask
<1> HIDE DEF own, t
<1>5. Earliest(c, b) \in Nat
      /\ \A i \in DOMAIN hist : HeldUntil(hist[i], c, Path(c, b)) <= Earliest(c, b)
  BY <1>3, EarliestBounds
<1>6. \A i \in DOMAIN hist : HeldUntil(hist[i], c, Path(c, b)) \in Int
  <2>1. \A i \in DOMAIN hist : hist[i] \in Entries(D, Banks)
    BY ElementOfSeq DEF HistoryTypeOK
  <2>2. Path(c, b) \in Nodes3
    BY <1>1, <1>3, PathIs
  <2> QED
    BY <1>1, <1>3, <2>1, <2>2, HeldUntilBounds
<1>7. \A i \in DOMAIN hist : HeldUntil(hist[i], c, Path(c, b)) <= t
  <2> HIDE DEF c
  <2> QED
    BY <1>2, <1>5, <1>6
<1>8. c = Preq(own, b, row, t)
  OBVIOUS
<1> HIDE DEF c
<1> QED
  BY <1>1, <1>2, <1>3, <1>4, <1>7, <1>8 DEF own

LEMMA NextIssues ==
    ASSUME HistoryTypeOK, Times, Next, ~EndRefresh
    PROVE  \E type \in DOMAIN D.requests, b \in Banks, row \in Nat, c \in Issuable(D), t \in Nat :
              Issued(type, b, row, c, t)
<1>1. /\ FirstBank \in Banks
      /\ \A y \in Targets : y[1] \in Banks /\ y[2] \in Nat
      /\ TwoStep(D) => \A y \in Targets : y[2] = 0
  BY DutFacts DEF HistoryTypeOK
<1>2. CASE Access
  <2>1. PICK type \in {"read", "write"}, x \in Targets : Ask(type, x[1], x[2])
    BY <1>2 DEF Access
  <2>2. x[1] \in Banks /\ x[2] \in Nat /\ (TwoStep(D) => x[2] = 0)
    BY <1>1
  <2>3. type \in DOMAIN D.requests
    BY <2>1, <2>2, AskIssues
  <2>4. PICK t \in Nat, c \in Issuable(D) :
          /\ c = Preq(D.requests[type], x[1], x[2], t)
          /\ NextTurn <= t
          /\ \A i \in DOMAIN hist : HeldUntil(hist[i], c, Path(c, x[1])) <= t
          /\ IssueCommand(c, x[1], x[2], t, <<type, x[1], x[2]>>)
    BY <2>1, <2>2, AskIssues
  <2>5. Issued(type, x[1], x[2], c, t)
    BY <2>2, <2>4 DEF Issued
  <2> QED
    BY <2>2, <2>3, <2>5
<1>3. CASE RefreshRank
  <2>1. PICK type \in {"refresh", "rfm", "closeAll"} :
          /\ \A i \in DOMAIN hist : hist[i].for = <<type, FirstBank, 0>> =>
                 hist[i].cmd # D.requests[type]
          /\ Ask(type, FirstBank, 0)
    BY <1>3 DEF RefreshRank
  <2>2. type \in DOMAIN D.requests
    BY <1>1, <2>1, AskIssues
  <2>3. PICK t \in Nat, c \in Issuable(D) :
          /\ c = Preq(D.requests[type], FirstBank, 0, t)
          /\ NextTurn <= t
          /\ \A i \in DOMAIN hist : HeldUntil(hist[i], c, Path(c, FirstBank)) <= t
          /\ IssueCommand(c, FirstBank, 0, t, <<type, FirstBank, 0>>)
    BY <1>1, <2>1, AskIssues
  <2>4. Issued(type, FirstBank, 0, c, t)
    BY <2>1, <2>3 DEF Issued
  <2> QED
    BY <1>1, <2>2, <2>4
<1>4. CASE RefreshVictim
  <2>1. PICK type \in {"victim", "reducedVictim"}, b \in Banks : Ask(type, b, 0)
    BY <1>4 DEF RefreshVictim
  <2>2. type \in DOMAIN D.requests
    BY <2>1, AskIssues
  <2>3. PICK t \in Nat, c \in Issuable(D) :
          /\ c = Preq(D.requests[type], b, 0, t)
          /\ NextTurn <= t
          /\ \A i \in DOMAIN hist : HeldUntil(hist[i], c, Path(c, b)) <= t
          /\ IssueCommand(c, b, 0, t, <<type, b, 0>>)
    BY <2>1, AskIssues
  <2>4. Issued(type, b, 0, c, t)
    BY <2>3 DEF Issued
  <2> QED
    BY <2>2, <2>4
<1>5. CASE CloseRow
  <2>1. PICK b \in Banks : Ask("closeRow", b, 0)
    BY <1>5 DEF CloseRow
  <2>2. "closeRow" \in DOMAIN D.requests
    BY <2>1, AskIssues
  <2>3. PICK t \in Nat, c \in Issuable(D) :
          /\ c = Preq(D.requests["closeRow"], b, 0, t)
          /\ NextTurn <= t
          /\ \A i \in DOMAIN hist : HeldUntil(hist[i], c, Path(c, b)) <= t
          /\ IssueCommand(c, b, 0, t, <<"closeRow", b, 0>>)
    BY <2>1, AskIssues
  <2>4. Issued("closeRow", b, 0, c, t)
    BY <2>1, <2>3 DEF Issued
  <2> QED
    BY <2>2, <2>4
<1> QED
  BY <1>2, <1>3, <1>4, <1>5 DEF Next

-----------------------------------------------------------------------------
(* What a command says of the banks it finds.                              *)
LEMMA NoRefreshInTwoSteps ==
    ASSUME DeviceInv, TwoStep(D)
    PROVE  \A b \in Banks : bank[b].st # "refreshing"
<1>1. DOMAIN D.ends = {}
  BY DutFacts DEF DeviceInv, HistoryTypeOK, FitsTogether
<1> QED
  BY <1>1 DEF DeviceInv, BanksStand, EndsStand

LEMMA RequestKinds ==
    ASSUME DeviceInv, NEW type \in DOMAIN D.requests, NEW c \in Issuable(D),
           NEW b, NEW row, NEW t, Issued(type, b, row, c, t)
    PROVE  LET own == D.requests[type]
           IN  \/ /\ own \in Accesses /\ type \in {"read", "write"}
                  /\ own \in DOMAIN D.preqs /\ D.preqs[own] = "row open"
                  /\ ~TwoStep(D)
                  /\ c = NeedsAccess(own, b, row)
               \/ /\ own \in Accesses /\ type \in {"read", "write"}
                  /\ own \in DOMAIN D.preqs /\ D.preqs[own] = "row 0 open"
                  /\ TwoStep(D)
                  /\ c = NeedsSyncedAccess(own, b, t)
               \/ /\ own \in {"REFab", "RFMab"} /\ type \in {"refresh", "rfm"}
                  /\ c = NeedsAllClosed(own, b)
               \/ /\ own \in {"VRR", "RVRR"} /\ type \in {"victim", "reducedVictim"}
                  /\ ~TwoStep(D)
                  /\ c = NeedsClosed(own, b)
               \/ own = "PRE" /\ type = "closeRow" /\ c = "PRE"
               \/ own = "PREA" /\ type = "closeAll" /\ c = "PREA"
<1> DEFINE own == D.requests[type]
<1>1. FitsTogether(D) /\ dut \in Catalogue
  BY DutFacts DEF DeviceInv, HistoryTypeOK
<1>2. Asks(D, type, own)
  BY <1>1, OwnCommand
<1>3. TwoStep(D) => \A x \in DOMAIN D.preqs : D.preqs[x] \in {"row 0 open", "all closed"}
  BY <1>1 DEF FitsTogether
<1>4. \A x \in DOMAIN D.preqs : D.preqs[x] = "row 0 open" => TwoStep(D)
  BY DEF TwoStep
<1>5. c = Preq(own, b, row, t)
  BY DEF Issued
<1> HIDE DEF own
<1>6. type \in {"read", "write", "refresh", "rfm", "victim", "reducedVictim", "closeRow", "closeAll"}
  BY <1>2 DEF Asks
<1>7. CASE type \in {"read", "write"}
  <2>1. own \in Accesses /\ own \in DOMAIN D.preqs /\ D.preqs[own] \in {"row open", "row 0 open"}
    BY <1>2, <1>7 DEF Asks
  <2>2. CASE D.preqs[own] = "row open"
    BY <1>3, <1>5, <1>7, <2>1, <2>2 DEF Preq, own
  <2>3. CASE D.preqs[own] = "row 0 open"
    BY <1>4, <1>5, <1>7, <2>1, <2>3 DEF Preq, own
  <2> QED
    BY <2>1, <2>2, <2>3
<1>8. CASE type \in {"refresh", "rfm"}
  <2>1. own \in {"REFab", "RFMab"} /\ own \in DOMAIN D.preqs /\ D.preqs[own] = "all closed"
    BY <1>2, <1>8 DEF Asks
  <2> QED
    BY <1>5, <1>8, <2>1 DEF Preq, own
<1>9. CASE type \in {"victim", "reducedVictim"}
  <2>1. own \in {"VRR", "RVRR"} /\ own \in DOMAIN D.preqs /\ D.preqs[own] = "bank closed"
    BY <1>2, <1>9 DEF Asks
  <2> QED
    BY <1>3, <1>5, <1>9, <2>1 DEF Preq, own
<1>10. CASE type = "closeRow"
  <2>1. own = "PRE" /\ (own \in DOMAIN D.preqs => D.preqs[own] = "bank closed")
    BY <1>2, <1>10 DEF Asks
  <2>2. NeedsClosed(own, b) = "PRE"
    BY <2>1 DEF NeedsClosed
  <2> QED
    BY <1>5, <1>10, <2>1, <2>2 DEF Preq, own
<1>11. CASE type = "closeAll"
  <2>1. own = "PREA" /\ (own \in DOMAIN D.preqs => D.preqs[own] = "all closed")
    BY <1>2, <1>11 DEF Asks
  <2>2. NeedsAllClosed(own, b) = "PREA"
    BY <2>1 DEF NeedsAllClosed
  <2> QED
    BY <1>5, <1>11, <2>1, <2>2 DEF Preq, own
<1> QED
  BY <1>6, <1>7, <1>8, <1>9, <1>10, <1>11

(* A bank's states.                                                        *)
LEMMA BankStates4 ==
    ASSUME HistoryTypeOK
    PROVE  \A b \in Banks : bank[b].st \in {"closed", "opened", "pre-opened", "refreshing"}
BY DEF HistoryTypeOK, BankStates

LEMMA CommandNeeds ==
    ASSUME DeviceInv, NEW type \in DOMAIN D.requests, NEW b \in Banks, NEW row,
           NEW c \in Issuable(D), NEW t, Issued(type, b, row, c, t)
    PROVE  /\ c \in Accesses \cup Syncs \cup {"ACT2"} => bank[b].st \in OpenStates
           /\ c = "PREA" => \/ type = "closeAll"
                            \/ \E d \in Banks : d[1] = b[1] /\ bank[d].st \in OpenStates
           /\ c \in Refreshes =>
                 /\ c = D.requests[type]
                 /\ \/ /\ type \in {"refresh", "rfm"} /\ c \in RankWide
                       /\ \A d \in FirstNotClosed(b[1]) : bank[d].st = "refreshing"
                    \/ c \notin RankWide /\ bank[b].st \notin OpenStates
<1> DEFINE own == D.requests[type]
           st == bank[b].st
<1>1. \A d \in Banks : bank[d].st \in {"closed", "opened", "pre-opened", "refreshing"}
  BY BankStates4 DEF DeviceInv
<1>2. TwoStep(D) \/ st # "pre-opened"
  BY DEF DeviceInv, InTwoSteps
<1>3. TwoStep(D) => st # "refreshing"
  BY NoRefreshInTwoSteps
<1>4. /\ own \in Accesses \cup Refreshes \cup {"PRE", "PREA"}
      /\ \/ /\ own \in Accesses
            /\ ~TwoStep(D)
            /\ c = NeedsAccess(own, b, row)
         \/ /\ own \in Accesses
            /\ TwoStep(D)
            /\ c = NeedsSyncedAccess(own, b, t)
         \/ /\ own \in {"REFab", "RFMab"} /\ type \in {"refresh", "rfm"}
            /\ c = NeedsAllClosed(own, b)
         \/ /\ own \in {"VRR", "RVRR"}
            /\ ~TwoStep(D)
            /\ c = NeedsClosed(own, b)
         \/ own = "PRE" /\ type = "closeRow" /\ c = "PRE"
         \/ own = "PREA" /\ type = "closeAll" /\ c = "PREA"
  BY RequestKinds DEF Refreshes
<1> HIDE DEF own
<1>5. CASE own \in Accesses /\ ~TwoStep(D) /\ c = NeedsAccess(own, b, row)
  <2>1. \/ c = own /\ st = "opened"
        \/ c = "PRE" /\ st = "opened"
        \/ c = "ACT"
    BY <1>5 DEF NeedsAccess
  <2> QED
    BY <1>5, <2>1 DEF Accesses, Reads, Writes, Syncs, Refreshes, OpenStates
<1>6. CASE own \in Accesses /\ TwoStep(D) /\ c = NeedsSyncedAccess(own, b, t)
  <2>1. \/ c = "ACT1" /\ st = "closed"
        \/ c = "ACT2" /\ st = "pre-opened"
        \/ c \in {"PRE", own} \cup Syncs /\ st \notin {"closed", "pre-opened"}
    BY <1>6 DEF NeedsSyncedAccess, Syncs
  <2> QED
    BY <1>1, <1>3, <1>6, <2>1 DEF Accesses, Reads, Writes, Syncs, Refreshes, OpenStates
<1>7. CASE /\ own \in {"REFab", "RFMab"} /\ type \in {"refresh", "rfm"}
           /\ c = NeedsAllClosed(own, b)
  <2>1. CASE \E d \in FirstNotClosed(b[1]) : bank[d].st # "refreshing"
    <3>1. PICK d \in FirstNotClosed(b[1]) : bank[d].st # "refreshing"
      BY <2>1
    <3>2. d \in Banks /\ d[1] = b[1] /\ bank[d].st # "closed"
      BY DEF FirstNotClosed
    <3>3. bank[d].st \in OpenStates
      BY <1>1, <3>1, <3>2 DEF OpenStates
    <3>4. c = "PREA"
      BY <1>7, <2>1 DEF NeedsAllClosed
    <3> QED
      BY <3>2, <3>3, <3>4 DEF Accesses, Reads, Writes, Syncs, Refreshes
  <2>2. CASE ~\E d \in FirstNotClosed(b[1]) : bank[d].st # "refreshing"
    <3>1. c = own
      BY <1>7, <2>2 DEF NeedsAllClosed
    <3> QED
      BY <1>7, <2>2, <3>1 DEF Accesses, Reads, Writes, Syncs, Refreshes, RankWide, own
  <2> QED
    BY <2>1, <2>2
<1>8. CASE own \in {"VRR", "RVRR"} /\ ~TwoStep(D) /\ c = NeedsClosed(own, b)
  <2>1. \/ c = "PRE" /\ st = "opened"
        \/ c = own /\ st # "opened"
    BY <1>8 DEF NeedsClosed
  <2> QED
    BY <1>2, <1>8, <2>1
       DEF Accesses, Reads, Writes, Syncs, Refreshes, RankWide, OpenStates, own
<1>9. CASE own = "PRE" /\ type = "closeRow" /\ c = "PRE"
  BY <1>9 DEF Accesses, Reads, Writes, Syncs, Refreshes, OpenStates
<1>10. CASE own = "PREA" /\ type = "closeAll" /\ c = "PREA"
  BY <1>10 DEF Accesses, Reads, Writes, Syncs, Refreshes
<1> QED
  BY <1>4, <1>5, <1>6, <1>7, <1>8, <1>9, <1>10

-----------------------------------------------------------------------------
(* A refresh is over before the next command to its banks.                 *)
LEMMA EntryFacts ==
    ASSUME HistoryTypeOK, NEW i \in DOMAIN hist
    PROVE  /\ hist[i].cmd \in Issuable(D) /\ hist[i].path \in Nodes3 /\ hist[i].at \in Nat
           /\ hist[i].path \in NodesOver(Banks)
           /\ hist[i].for[1] \in DOMAIN D.requests
           /\ i \in 1..Len(hist) /\ Len(hist) \in Nat
<1>1. hist \in Seq(Entries(D, Banks)) /\ NodesOver(Banks) \in SUBSET Nodes3
  BY DutFacts, NodesOverBanks DEF HistoryTypeOK
<1>2. hist[i] \in Entries(D, Banks) /\ i \in 1..Len(hist) /\ Len(hist) \in Nat
  BY <1>1, ElementOfSeq
<1> QED
  BY <1>1, <1>2 DEF Entries

LEMMA CyclesAreNumbers ==
    ASSUME dut \in Catalogue, NEW r \in Issuable(D), r \in Refreshes
    PROVE  /\ RefreshCyclesOf(D, r) \in Nat /\ ClosingCyclesOf(D) \in Nat
           /\ r \in DOMAIN D.ends => RefreshCyclesOf(D, r) = D.ends[r] /\ D.ends[r] \in Nat \ {0}
<1>1. RefreshCyclesOf(D, r) \in Nat /\ ClosingCyclesOf(D) \in Nat
  BY DutFacts DEF SpacesRefreshes
<1>2. r \in DOMAIN D.ends => D.ends[r] \in Nat \ {0}
  BY DutFacts DEF FitsTogether
<1> QED
  BY <1>1, <1>2 DEF RefreshCyclesOf

(* The time a command waits for those before it.                           *)
LEMMA Waits ==
    ASSUME HistoryTypeOK, NEW b \in Banks, NEW c \in Issuable(D), NEW t \in Nat,
           \A i \in DOMAIN hist : HeldUntil(hist[i], c, Path(c, b)) <= t,
           NEW i \in DOMAIN hist, NEW l \in 0..D.scope[c],
           Agree(hist[i].path, Path(c, b), l)
    PROVE  /\ D.gap[l][hist[i].cmd][c] \in Nat
           /\ hist[i].at + D.gap[l][hist[i].cmd][c] <= t
<1>1. dut \in Catalogue /\ hist[i] \in Entries(D, Banks)
  BY ElementOfSeq DEF HistoryTypeOK
<1>2. Path(c, b) \in Nodes3 /\ D.scope[c] \in {1, 3}
  BY <1>1, PathIs
<1> DEFINE held == HeldUntil(hist[i], c, Path(c, b))
<1>3. held \in Int /\ hist[i].at + D.gap[l][hist[i].cmd][c] <= held
  BY <1>1, <1>2, HeldUntilBounds
<1>4. held <= t
  OBVIOUS
<1>5. hist[i].at \in Nat /\ hist[i].cmd \in Issuable(D)
  BY EntryFacts
<1>6. D.gap[l][hist[i].cmd][c] \in Nat
  <2>1. l \in 0..3
    BY <1>2
  <2>2. \A a \in Issuable(D) : D.gap[l][a][c] \in Nat
    BY <1>1, <2>1, DutFacts DEF FitsTogether
  <2> QED
    BY <1>5, <2>2
<1> HIDE DEF held
<1> QED
  BY <1>3, <1>4, <1>5, <1>6

LEMMA WaitsOut ==
    ASSUME HistoryTypeOK, NEW b \in Banks, NEW c \in Issuable(D), NEW t \in Nat,
           \A i \in DOMAIN hist : HeldUntil(hist[i], c, Path(c, b)) <= t,
           NEW i \in DOMAIN hist, Agree(hist[i].path, Path(c, b), 3),
           NEW cycles \in Int, Holds(D, hist[i].cmd, c, D.scope[c], cycles)
    PROVE  hist[i].at + cycles <= t
<1>1. PICK l \in 0..D.scope[c] : D.gap[l][hist[i].cmd][c] >= cycles
  BY DEF Holds
<1>2. dut \in Catalogue
  BY DEF HistoryTypeOK
<1>3. Path(c, b) \in Nodes3 /\ D.scope[c] \in {1, 3}
  BY <1>2, PathIs
<1>4. hist[i].path \in Nodes3 /\ hist[i].at \in Nat
  BY EntryFacts
<1>5. Agree(hist[i].path, Path(c, b), l)
  <2>1. l \in 0..3
    BY <1>3
  <2> QED
    BY <1>3, <1>4, <2>1, AgreeAbove
<1> DEFINE gap == D.gap[l][hist[i].cmd][c]
<1>6. gap \in Nat /\ hist[i].at + gap <= t
  BY <1>5, Waits
<1>7. gap >= cycles
  BY <1>1
<1> HIDE DEF gap
<1> QED
  BY <1>4, <1>6, <1>7

(* A bank that is open was opened after every refresh of it.               *)
LEMMA OpenedSince ==
    ASSUME DeviceInv, NEW d \in Banks, bank[d].st \in OpenStates,
           NEW i \in DOMAIN hist, hist[i].cmd \in Refreshes, Agree(hist[i].path, d, 3)
    PROVE  hist[i].at + RefreshCyclesOf(D, hist[i].cmd) <= now
<1>1. PICK k \in DOMAIN hist : StillOpen(hist, k, d, Len(hist))
  BY DEF DeviceInv, BanksStand
<1>2. HistoryTypeOK /\ d \in Bank3
  BY DutFacts DEF DeviceInv, HistoryTypeOK
<1>3. /\ i \in 1..Len(hist) /\ k \in 1..Len(hist) /\ Len(hist) \in Nat
      /\ hist[i].path \in Nodes3 /\ hist[k].path \in Nodes3
      /\ hist[i].at \in Nat /\ hist[k].at \in Nat /\ hist[i].cmd \in Issuable(D)
  BY <1>2, EntryFacts
<1>4. hist[k].cmd \in Opens /\ Agree(hist[k].path, d, 3)
  BY <1>1 DEF StillOpen
<1>5. i # k
  BY <1>4 DEF Opens, Refreshes
<1>6. ~(k < i)
  <2> SUFFICES ASSUME k < i PROVE FALSE
    OBVIOUS
  <2>1. k \in 1..(i - 1)
    BY <1>3
  <2>2. \A m \in (k + 1)..(i - 1) : m \in (k + 1)..Len(hist)
    BY <1>3
  <2>3. StillOpen(hist, k, d, i - 1)
    BY <1>1, <2>1, <2>2 DEF StillOpen
  <2> QED
    BY <2>1, <2>3 DEF DeviceInv, RefreshesClosed
<1>7. i < k /\ ~StrayAt(hist, k)
  BY <1>3, <1>4, <1>5, <1>6 DEF StrayAt, Opens
<1>8. Agree(hist[i].path, hist[k].path, 3)
  BY <1>2, <1>3, <1>4, AgreeOverBank
<1>9. hist[i].at + RefreshCyclesOf(D, hist[i].cmd) <= hist[k].at
  BY <1>7, <1>8 DEF DeviceInv, Reserved
<1>10. hist[k].at <= now /\ now \in Nat
  BY DEF DeviceInv, Times, HistoryTypeOK
<1>11. RefreshCyclesOf(D, hist[i].cmd) \in Nat
  BY <1>2, <1>3, CyclesAreNumbers DEF HistoryTypeOK
<1> QED
  BY <1>3, <1>9, <1>10, <1>11

(* The refreshes on the way to a request are the request's own.            *)
LEMMA RefreshIsOwn ==
    ASSUME dut \in Catalogue, NEW type \in DOMAIN D.requests,
           NEW r \in StepsTo(D, D.requests[type]), r \in Refreshes
    PROVE  /\ r = D.requests[type]
           /\ r \in RankWide => type \in {"refresh", "rfm"}
<1> DEFINE own == D.requests[type]
<1>1. Asks(D, type, own)
  BY OwnCommand
<1>2. r = own
  <2>1. \/ own \notin DOMAIN D.preqs
        \/ D.preqs[own] \in {"row open", "row 0 open", "bank closed", "all closed"}
    BY <1>1 DEF Asks
  <2> QED
    BY <2>1 DEF StepsTo, Refreshes, Syncs
<1> HIDE DEF own
<1>3. r \in RankWide => type \in {"refresh", "rfm"}
  BY <1>1, <1>2 DEF Asks, RankWide, Syncs, Refreshes, Accesses, Reads, Writes
<1> QED
  BY <1>2, <1>3 DEF own

LEMMA Clear ==
    ASSUME DeviceInv, NEW type \in DOMAIN D.requests, NEW b \in Banks, NEW row,
           NEW c \in Issuable(D), NEW t \in Nat, Issued(type, b, row, c, t),
           c # "PRE" \/ bank[b].st \in OpenStates,
           NEW i \in DOMAIN hist, hist[i].cmd \in Refreshes,
           Agree(hist[i].path, Path(c, b), 3)
    PROVE  hist[i].at + RefreshCyclesOf(D, hist[i].cmd) <= t
<1> DEFINE r == hist[i].cmd
<1>1. /\ HistoryTypeOK /\ Times /\ dut \in Catalogue /\ b \in Bank3
      /\ NextTurn <= t /\ \A k \in DOMAIN hist : HeldUntil(hist[k], c, Path(c, b)) <= t
  BY DutFacts DEF DeviceInv, HistoryTypeOK, Issued
<1>2. /\ r \in Issuable(D) /\ hist[i].path \in Nodes3 /\ hist[i].at \in Nat
      /\ hist[i].for[1] \in DOMAIN D.requests
  BY <1>1, EntryFacts
<1>3. RefreshCyclesOf(D, r) \in Nat
  BY <1>1, <1>2, CyclesAreNumbers
<1>4. now <= t /\ now \in Nat
  <2>1. NextTurn \in Nat /\ now <= NextTurn /\ now \in Nat
    BY <1>1, NextTurnBounds DEF HistoryTypeOK
  <2> QED
    BY <1>1, <2>1
<1>5. Len(hist[i].path) = D.scope[r]
  BY DEF DeviceInv, Asked
<1>6. /\ Path(c, b) \in Nodes3 /\ Agree(Path(c, b), b, 3) /\ Len(Path(c, b)) = D.scope[c]
      /\ D.scope[r] = IF r \in RankWide THEN 1 ELSE 3
      /\ D.scope[c] = IF c \in RankWide THEN 1 ELSE 3
  BY <1>1, <1>2, PathIs
<1>7. \/ Holds(D, r, c, D.scope[c], RefreshCyclesOf(D, r))
      \/ NeedsRow(D, c) /\ D.scope[r] <= D.scope[c]
      \/ c = r /\ r \in RankWide
  BY <1>1, <1>2, DutFacts DEF SpacesRefreshes
<1>8. CASE Holds(D, r, c, D.scope[c], RefreshCyclesOf(D, r))
  BY <1>1, <1>3, <1>8, WaitsOut
<1>9. ASSUME NEW d \in Banks, bank[d].st \in OpenStates, Agree(hist[i].path, d, 3)
      PROVE  hist[i].at + RefreshCyclesOf(D, r) <= t
  <2>1. hist[i].at + RefreshCyclesOf(D, r) <= now
    BY <1>9, OpenedSince
  <2> HIDE DEF r
  <2> QED
    BY <1>2, <1>3, <1>4, <2>1
<1>10. CASE NeedsRow(D, c) /\ D.scope[r] <= D.scope[c]
  <2>0. Agree(hist[i].path, b, 3)
    <3>1. Len(hist[i].path) <= Len(Path(c, b))
      BY <1>5, <1>6, <1>10
    <3> DEFINE p == hist[i].path
               q == Path(c, b)
    <3>2. /\ p \in Nodes3 /\ q \in Nodes3 /\ Agree(p, q, 3) /\ Agree(q, b, 3)
          /\ Len(p) <= Len(q)
      BY <1>2, <1>6, <3>1
    <3> HIDE DEF p, q
    <3>3. Agree(p, b, 3)
      BY <1>1, <3>2, AgreeOverBank
    <3> QED
      BY <3>3 DEF p
  <2>1. CASE c \in Accesses \cup Syncs \cup {"PRE", "ACT2"}
    <3>1. bank[b].st \in OpenStates
      BY <2>1, CommandNeeds
    <3> QED
      BY <1>9, <2>0, <3>1
  <2>2. CASE c = "PREA" /\ "closeAll" \notin DOMAIN D.requests
    <3>1. PICK d \in Banks : d[1] = b[1] /\ bank[d].st \in OpenStates
      BY <2>2, CommandNeeds
    <3>2. Len(hist[i].path) = 1
      BY <1>5, <1>6, <1>10, <2>2 DEF RankWide
    <3>3. hist[i].path[1] = b[1]
      BY <1>1, <1>2, <2>0, NodeOverBank
    <3>4. d \in Bank3
      BY <1>1, DutFacts
    <3>5. Agree(hist[i].path, d, 3)
      BY <1>2, <3>1, <3>2, <3>3, <3>4, NodeOverBank
    <3> QED
      BY <1>9, <3>1, <3>5
  <2> QED
    BY <1>10, <2>1, <2>2 DEF NeedsRow
<1>11. CASE c = r /\ r \in RankWide
  <2>1. r = D.requests[hist[i].for[1]] /\ hist[i].for[1] \in {"refresh", "rfm"}
    <3>1. r \in StepsTo(D, D.requests[hist[i].for[1]])
      BY DEF DeviceInv, Asked
    <3> QED
      BY <1>1, <1>2, <1>11, <3>1, RefreshIsOwn
  <2>2. c = D.requests[type]
    BY <1>11, CommandNeeds
  <2>3. type = hist[i].for[1]
    BY <1>1, <1>2, <1>11, <2>1, <2>2, OwnCommand
  <2>4. hist[i].for[2] = FirstBank /\ hist[i].for[3] = 0
    BY <2>1 DEF DeviceInv, Asked
  <2>5. hist[i].for = <<type, FirstBank, 0>>
    <3>1. hist[i] \in Entries(D, Banks)
      BY <1>1, ElementOfSeq DEF HistoryTypeOK
    <3>2. hist[i].for = <<hist[i].for[1], hist[i].for[2], hist[i].for[3]>>
      BY <3>1 DEF Entries
    <3> QED
      BY <2>3, <2>4, <3>2
  <2>6. r # D.requests[type]
    BY <2>1, <2>3, <2>5 DEF Issued
  <2> QED
    BY <1>11, <2>2, <2>6
<1> QED
  BY <1>7, <1>8, <1>10, <1>11

(* The end of a refresh is pending, and a command is issued elsewhere.     *)
LEMMA PendingElsewhere ==
    ASSUME DeviceInv, NEW type \in DOMAIN D.requests, NEW b \in Banks, NEW row,
           NEW c \in Issuable(D), NEW t \in Nat, Issued(type, b, row, c, t), NEW x \in ends,
           c # "PRE" \/ bank[b].st \in OpenStates
    PROVE  ~Agree(x.path, Path(c, b), 3)
<1> SUFFICES ASSUME Agree(x.path, Path(c, b), 3) PROVE FALSE
  OBVIOUS
<1>1. PICK i \in DOMAIN hist : /\ hist[i].cmd = x.cmd /\ hist[i].path = x.path
                               /\ x.at = hist[i].at + D.ends[x.cmd] - 1
  BY DEF DeviceInv, EndsStand
<1>2. x.cmd \in DOMAIN D.ends
  BY DEF DeviceInv, EndsStand
<1>3. HistoryTypeOK /\ dut \in Catalogue
  BY DEF DeviceInv, HistoryTypeOK
<1>4. hist[i].cmd \in Issuable(D) /\ hist[i].at \in Nat
  BY <1>3, EntryFacts
<1>5. hist[i].cmd \in Refreshes
  BY <1>1, <1>3 DEF HistoryTypeOK, Pending
<1>6. hist[i].at + RefreshCyclesOf(D, hist[i].cmd) <= t
  BY <1>1, <1>5, Clear
<1>7. RefreshCyclesOf(D, hist[i].cmd) = D.ends[x.cmd] /\ D.ends[x.cmd] \in Nat \ {0}
  BY <1>1, <1>2, <1>3, <1>4, <1>5, CyclesAreNumbers
<1>8. x.at > t
  BY DEF Issued, IssueCommand
<1> DEFINE length == D.ends[x.cmd]
<1>9. hist[i].at + length <= t /\ x.at = hist[i].at + length - 1 /\ length \in Nat
  BY <1>1, <1>6, <1>7
<1> HIDE DEF length
<1> QED
  BY <1>4, <1>8, <1>9

(* A refresh finds its banks closed.                                       *)
LEMMA RefreshReady ==
    ASSUME DeviceInv, NEW type \in DOMAIN D.requests, NEW b \in Banks, NEW row,
           NEW c \in Issuable(D), NEW t \in Nat, Issued(type, b, row, c, t),
           c \in Refreshes, NEW d \in Banks, Agree(Path(c, b), d, 3)
    PROVE  bank[d].st \notin OpenStates
<1>1. dut \in Catalogue /\ b \in Bank3 /\ d \in Bank3 /\ Banks \subseteq Bank3
  BY DutFacts DEF DeviceInv, HistoryTypeOK
<1>2. /\ Path(c, b) \in Nodes3 /\ Path(c, b) = IF c \in RankWide THEN <<b[1]>> ELSE b
      /\ Len(Path(c, b)) = IF c \in RankWide THEN 1 ELSE 3
      /\ Path(c, b)[1] = b[1]
  BY <1>1, PathIs
<1>3. \/ c \in RankWide /\ \A f \in FirstNotClosed(b[1]) : bank[f].st = "refreshing"
      \/ c \notin RankWide /\ bank[b].st \notin OpenStates
  BY CommandNeeds
<1>4. CASE c \notin RankWide /\ bank[b].st \notin OpenStates
  <2>1. d = b
    BY <1>1, <1>2, <1>4, NodeOverBank
  <2> QED
    BY <1>4, <2>1
<1>5. CASE c \in RankWide /\ \A f \in FirstNotClosed(b[1]) : bank[f].st = "refreshing"
  <2> SUFFICES ASSUME bank[d].st \in OpenStates PROVE FALSE
    OBVIOUS
  <2>1. d[1] = b[1]
    BY <1>1, <1>2, NodeOverBank
  <2> DEFINE S == {x \in Banks : x[1] = b[1] /\ bank[x].st # "closed"}
             G == {x[2] : x \in S}
  <2>2. d \in S
    BY <2>1 DEF OpenStates
  <2>3. \A x \in S : x[2] \in Nat
    BY <1>1, BankParts
  <2>4. PICK g \in G : \A y \in G : g <= y
    <3>1. G \in SUBSET Nat /\ G # {}
      BY <2>2, <2>3
    <3> HIDE DEF G
    <3> QED
      BY <3>1, NatMin
  <2>5. PICK f \in S : g = f[2]
    BY <2>4
  <2>6. f \in FirstNotClosed(b[1])
    BY <2>4, <2>5 DEF FirstNotClosed
  <2>7. bank[f].st = "refreshing" /\ f \in Banks /\ f[1] = b[1] /\ f \in Bank3
    BY <1>1, <1>5, <2>6
  <2>8. PICK x \in ends : Agree(x.path, f, 3)
    BY <2>7 DEF DeviceInv, BanksStand
  <2>9. x.path \in Nodes3
    <3>1. NodesOver(Banks) \in SUBSET Nodes3
      BY <1>1, NodesOverBanks
    <3> QED
      BY <3>1 DEF DeviceInv, HistoryTypeOK, Pending
  <2>10. Agree(Path(c, b), f, 3)
    BY <1>2, <1>5, <2>7, NodeOverBank
  <2>11. Agree(x.path, Path(c, b), 3)
    BY <1>2, <2>7, <2>8, <2>9, <2>10, AgreeOverBank
  <2>12. c # "PRE"
    BY DEF Refreshes
  <2> QED
    BY <2>11, <2>12, PendingElsewhere
<1> QED
  BY <1>3, <1>4, <1>5

-----------------------------------------------------------------------------
(* A command is issued.                                                    *)
Entry(type, b, row, c, t) ==
    [cmd |-> c, path |-> Path(c, b), at |-> t, for |-> <<type, b, row>>]

LEMMA AppendIs ==
    ASSUME NEW S, NEW h \in Seq(S), NEW x
    PROVE  /\ Len(h) \in Nat /\ Len(Append(h, x)) = Len(h) + 1
           /\ DOMAIN h = 1..Len(h) /\ DOMAIN Append(h, x) = 1..(Len(h) + 1)
           /\ \A i \in 1..Len(h) : Append(h, x)[i] = h[i]
           /\ Append(h, x)[Len(h) + 1] = x
OBVIOUS

LEMMA StillOpenBefore ==
    ASSUME NEW S, NEW h \in Seq(S), NEW x, NEW k, NEW b, NEW n \in 0..Len(h)
    PROVE  StillOpen(Append(h, x), k, b, n) <=> StillOpen(h, k, b, n)
<1> DEFINE g == Append(h, x)
<1>1. Len(h) \in Nat /\ \A i \in 1..Len(h) : g[i] = h[i]
  BY AppendIs
<1> HIDE DEF g
<1>2. CASE k \in 1..n
  <2>1. k \in 1..Len(h) /\ \A m \in (k + 1)..n : m \in 1..Len(h)
    BY <1>1, <1>2
  <2>2. g[k] = h[k] /\ \A m \in (k + 1)..n : g[m] = h[m]
    BY <1>1, <2>1
  <2> QED
    BY <2>2 DEF StillOpen, g
<1>3. CASE k \notin 1..n
  BY <1>3 DEF StillOpen
<1> QED
  BY <1>2, <1>3

LEMMA StillOpenAfter ==
    ASSUME NEW S, NEW h \in Seq(S), NEW x, NEW b
    PROVE  (\E k \in DOMAIN Append(h, x) : StillOpen(Append(h, x), k, b, Len(Append(h, x))))
           <=> \/ x.cmd \in Opens /\ Agree(x.path, b, 3)
               \/ /\ \E k \in DOMAIN h : StillOpen(h, k, b, Len(h))
                  /\ ~(x.cmd \in Closes /\ Agree(x.path, b, 3))
<1> DEFINE g == Append(h, x)
           n == Len(h)
<1>1. /\ n \in Nat /\ Len(g) = n + 1 /\ DOMAIN h = 1..n /\ DOMAIN g = 1..(n + 1)
      /\ (\A i \in 1..n : g[i] = h[i]) /\ g[n + 1] = x
  BY AppendIs
<1> HIDE DEF g, n
<1>2. ASSUME x.cmd \in Opens, Agree(x.path, b, 3)
      PROVE  StillOpen(g, n + 1, b, n + 1)
  <2>1. n + 1 \in 1..(n + 1) /\ ((n + 1) + 1)..(n + 1) = {}
    BY <1>1
  <2> QED
    BY <1>1, <1>2, <2>1 DEF StillOpen
<1>3. ASSUME NEW k \in 1..n, StillOpen(h, k, b, n), ~(x.cmd \in Closes /\ Agree(x.path, b, 3))
      PROVE  k \in 1..(n + 1) /\ StillOpen(g, k, b, n + 1)
  <2>1. k \in 1..(n + 1) /\ g[k] = h[k]
    BY <1>1
  <2>2. ASSUME NEW m \in (k + 1)..(n + 1)
        PROVE  ~(g[m].cmd \in Closes /\ Agree(g[m].path, b, 3))
    <3>1. CASE m = n + 1
      BY <1>1, <1>3, <3>1
    <3>2. CASE m # n + 1
      <4>1. m \in (k + 1)..n /\ m \in 1..n
        BY <1>1, <3>2
      <4> QED
        BY <1>1, <1>3, <4>1 DEF StillOpen
    <3> QED
      BY <3>1, <3>2
  <2> QED
    BY <1>3, <2>1, <2>2 DEF StillOpen
<1>4. ASSUME NEW k \in 1..(n + 1), StillOpen(g, k, b, n + 1)
      PROVE  \/ x.cmd \in Opens /\ Agree(x.path, b, 3)
             \/ /\ k \in 1..n /\ StillOpen(h, k, b, n)
                /\ ~(x.cmd \in Closes /\ Agree(x.path, b, 3))
  <2>1. CASE k = n + 1
    BY <1>1, <1>4, <2>1 DEF StillOpen
  <2>2. CASE k # n + 1
    <3>1. k \in 1..n /\ g[k] = h[k]
      BY <1>1, <2>2
    <3>2. n + 1 \in (k + 1)..(n + 1)
      BY <1>1, <3>1
    <3>3. \A m \in (k + 1)..n : m \in (k + 1)..(n + 1) /\ g[m] = h[m]
      BY <1>1, <3>1
    <3>4. ~(x.cmd \in Closes /\ Agree(x.path, b, 3))
      BY <1>1, <1>4, <3>2 DEF StillOpen
    <3>5. StillOpen(h, k, b, n)
      BY <1>4, <3>1, <3>3 DEF StillOpen
    <3> QED
      BY <3>1, <3>4, <3>5
  <2> QED
    BY <2>1, <2>2
<1>5. (\E k \in 1..(n + 1) : StillOpen(g, k, b, n + 1))
      <=> \/ x.cmd \in Opens /\ Agree(x.path, b, 3)
          \/ /\ \E k \in 1..n : StillOpen(h, k, b, n)
             /\ ~(x.cmd \in Closes /\ Agree(x.path, b, 3))
  <2>1. n + 1 \in 1..(n + 1)
    BY <1>1
  <2> QED
    BY <1>2, <1>3, <1>4, <2>1
<1>6. (\E k \in DOMAIN g : StillOpen(g, k, b, Len(g)))
      <=> \/ x.cmd \in Opens /\ Agree(x.path, b, 3)
          \/ /\ \E k \in DOMAIN h : StillOpen(h, k, b, n)
             /\ ~(x.cmd \in Closes /\ Agree(x.path, b, 3))
  BY <1>1, <1>5
<1> QED
  BY <1>6 DEF g, n

LEMMA BankAfterIs ==
    ASSUME dut \in Catalogue, NEW c \in Issuable(D), NEW row \in Nat, NEW s \in BankStates
    PROVE  LET s2 == BankAfter(c, row, s)
           IN  /\ s2 \in BankStates
               /\ c \in {"ACT", "ACT2"} => s2.st = "opened" /\ s2.rows = s.rows \cup {row}
               /\ c = "ACT1" => s2.st = "pre-opened" /\ s2.rows = s.rows \cup {row}
               /\ c \in Closes => s2.st = "closed" /\ s2.rows = {}
               /\ c \in Refreshes /\ c \in DOMAIN D.ends => s2.st = "refreshing"
               /\ c \notin {"ACT", "ACT1", "ACT2"} \cup Closes \cup (Refreshes \cap DOMAIN D.ends)
                     => s2 = s
<1>1. Acts(D, c) /\ (c \in DOMAIN D.ends => c \in Refreshes)
  BY DutFacts DEF FitsTogether
<1>2. s.rows \cup {row} \in SUBSET Nat
  BY DEF BankStates
<1>3. CASE c \in {"ACT", "ACT2"}
  <2>1. c \in DOMAIN D.actions /\ D.actions[c] = "open"
    BY <1>1, <1>3 DEF Acts, Closes, Refreshes
  <2>2. BankAfter(c, row, s) = [st |-> "opened", rows |-> s.rows \cup {row}]
    BY <2>1 DEF BankAfter
  <2> QED
    BY <1>2, <1>3, <2>2 DEF BankStates, Closes, Refreshes
<1>4. CASE c = "ACT1"
  <2>1. c \in DOMAIN D.actions /\ D.actions[c] = "pre-open"
    BY <1>1, <1>4 DEF Acts, Closes, Refreshes
  <2>2. BankAfter(c, row, s) = [st |-> "pre-opened", rows |-> s.rows \cup {row}]
    BY <2>1 DEF BankAfter
  <2> QED
    BY <1>2, <1>4, <2>2 DEF BankStates, Closes, Refreshes
<1>5. CASE c \in Closes
  <2>1. c \in DOMAIN D.actions /\ D.actions[c] = "close"
    BY <1>1, <1>5 DEF Acts, Closes, Refreshes
  <2>2. BankAfter(c, row, s) = [st |-> "closed", rows |-> {}]
    BY <2>1 DEF BankAfter
  <2> QED
    BY <1>5, <2>2 DEF BankStates, Closes, Refreshes
<1>6. CASE c \in Refreshes /\ c \in DOMAIN D.ends
  <2>1. c \in DOMAIN D.actions /\ D.actions[c] = "refresh"
    BY <1>1, <1>6 DEF Acts, Refreshes, Closes
  <2>2. BankAfter(c, row, s) = [s EXCEPT !.st = "refreshing"]
    BY <2>1 DEF BankAfter
  <2> QED
    BY <1>6, <2>2 DEF BankStates, Closes, Refreshes
<1>7. CASE c \notin {"ACT", "ACT1", "ACT2"} \cup Closes \cup (Refreshes \cap DOMAIN D.ends)
  <2>1. c \notin DOMAIN D.actions
    BY <1>1, <1>7 DEF Acts
  <2>2. BankAfter(c, row, s) = s
    BY <2>1 DEF BankAfter
  <2> QED
    BY <1>7, <2>2 DEF Closes, Refreshes
<1> QED
  BY <1>3, <1>4, <1>5, <1>6, <1>7

(* The next state of an issue, in one place.                               *)
LEMMA IssueIs ==
    ASSUME DeviceInv, NEW type \in DOMAIN D.requests, NEW b \in Banks, NEW row \in Nat,
           NEW c \in Issuable(D), NEW t \in Nat, Issued(type, b, row, c, t)
    PROVE  /\ dut' = dut /\ D' = D /\ Banks' = Banks /\ Ranks' = Ranks
           /\ now' = t /\ now <= t
           /\ hist' = Append(hist, Entry(type, b, row, c, t))
           /\ Entry(type, b, row, c, t) \in Entries(D, Banks)
           /\ hist' \in Seq(Entries(D, Banks))
           /\ bank' = [d \in Banks |-> IF Agree(Path(c, b), d, 3) THEN BankAfter(c, row, bank[d])
                                       ELSE bank[d]]
           /\ \A x \in ends : x.at > t
           /\ ends' = ends \cup (IF c \in DOMAIN D.ends
                                 THEN {[cmd |-> c, path |-> Path(c, b), at |-> t + D.ends[c] - 1]}
                                 ELSE {})
<1>1. IssueCommand(c, b, row, t, <<type, b, row>>)
  BY DEF Issued
<1>2. dut' = dut
  BY <1>1 DEF IssueCommand
<1>3. D' = D /\ Banks' = Banks /\ Ranks' = Ranks
  BY <1>2 DEF D, Banks, Targets, Ranks
<1>4. now <= t
  <2>1. NextTurn \in Nat /\ now <= NextTurn /\ now \in Nat /\ NextTurn <= t
    BY NextTurnBounds DEF DeviceInv, HistoryTypeOK, Issued
  <2> QED
    BY <2>1
<1>5. Path(c, b) \in NodesOver(Banks)
  BY PathIs DEF DeviceInv, HistoryTypeOK
<1>6. Entry(type, b, row, c, t) \in Entries(D, Banks)
  BY <1>5 DEF Entry, Entries
<1>7. hist' = Append(hist, Entry(type, b, row, c, t))
  BY <1>1 DEF IssueCommand, Entry
<1>8. hist' \in Seq(Entries(D, Banks))
  BY <1>6, <1>7 DEF DeviceInv, HistoryTypeOK
<1>9. bank' = [d \in Banks |-> IF Agree(Path(c, b), d, 3) THEN BankAfter(c, row, bank[d])
                               ELSE bank[d]]
  BY <1>1 DEF IssueCommand, Below
<1> QED
  BY <1>1, <1>2, <1>3, <1>4, <1>6, <1>7, <1>8, <1>9 DEF IssueCommand

LEMMA IssueTypes ==
    ASSUME DeviceInv, NEW type \in DOMAIN D.requests, NEW b \in Banks, NEW row \in Nat,
           NEW c \in Issuable(D), NEW t \in Nat, Issued(type, b, row, c, t)
    PROVE  HistoryTypeOK' /\ Times'
<1>1. HistoryTypeOK /\ Times /\ dut \in Catalogue /\ now \in Nat
  BY DEF DeviceInv, HistoryTypeOK
<1>2. /\ dut' = dut /\ D' = D /\ Banks' = Banks /\ Ranks' = Ranks
      /\ now' = t /\ now <= t
      /\ hist' = Append(hist, Entry(type, b, row, c, t))
      /\ hist' \in Seq(Entries(D, Banks))
      /\ \A x \in ends : x.at > t
  BY IssueIs
<1>3. bank' \in [Banks -> BankStates]
  <2>1. \A d \in Banks : bank[d] \in BankStates /\ BankAfter(c, row, bank[d]) \in BankStates
    BY <1>1, BankAfterIs DEF HistoryTypeOK
  <2> QED
    BY <2>1, IssueIs
<1> DEFINE new == IF c \in DOMAIN D.ends
                  THEN {[cmd |-> c, path |-> Path(c, b), at |-> t + D.ends[c] - 1]} ELSE {}
<1>4. \A x \in new : x \in Pending(D, Banks) /\ t <= x.at
  <2>1. c \in DOMAIN D.ends => c \in Refreshes /\ D.ends[c] \in Nat \ {0}
    BY <1>1, DutFacts DEF FitsTogether
  <2>2. Path(c, b) \in NodesOver(Banks)
    BY <1>1, PathIs
  <2>3. ASSUME c \in DOMAIN D.ends
        PROVE  t + D.ends[c] - 1 \in Nat /\ t <= t + D.ends[c] - 1
    <3> DEFINE length == D.ends[c]
    <3>1. length \in Nat \ {0}
      BY <2>1, <2>3
    <3> HIDE DEF length
    <3>2. t + length - 1 \in Nat /\ t <= t + length - 1
      BY <3>1
    <3> QED
      BY <3>2 DEF length
  <2> QED
    BY <2>1, <2>2, <2>3 DEF Pending
<1>5. ends' = ends \cup new
  BY IssueIs
<1> HIDE DEF new
<1>6. ends' \in SUBSET Pending(D, Banks)
  BY <1>1, <1>4, <1>5 DEF HistoryTypeOK
<1>7. synced' \in [Ranks -> Int]
  <2>1. IssueCommand(c, b, row, t, <<type, b, row>>)
    BY DEF Issued
  <2>2. c \in DOMAIN D.syncs => D.syncs[c] \in Nat
    BY <1>1, DutFacts DEF FitsTogether
  <2>3. synced \in [Ranks -> Int]
    BY <1>1 DEF HistoryTypeOK
  <2>4. CASE c \in DOMAIN D.syncs
    <3>1. synced' = [synced EXCEPT ![b[1]] = t + D.syncs[c]]
      BY <2>1, <2>4 DEF IssueCommand
    <3>2. t + D.syncs[c] \in Int
      BY <2>2, <2>4
    <3> QED
      BY <2>3, <3>1, <3>2
  <2>5. CASE c \notin DOMAIN D.syncs
    BY <2>1, <2>3, <2>5 DEF IssueCommand
  <2> QED
    BY <2>4, <2>5
<1>8. HistoryTypeOK'
  BY <1>1, <1>2, <1>3, <1>6, <1>7 DEF HistoryTypeOK
<1>9. \A i \in DOMAIN hist' : hist'[i].at <= now'
  <2> TAKE i \in DOMAIN hist'
  <2> DEFINE x == Entry(type, b, row, c, t)
  <2>1. /\ Len(hist) \in Nat /\ DOMAIN hist = 1..Len(hist)
        /\ DOMAIN hist' = 1..(Len(hist) + 1)
        /\ (\A j \in 1..Len(hist) : hist'[j] = hist[j]) /\ hist'[Len(hist) + 1] = x
    BY <1>1, <1>2, AppendIs DEF HistoryTypeOK
  <2>2. CASE i = Len(hist) + 1
    <3>1. x.at = t
      BY DEF Entry
    <3> QED
      BY <1>2, <2>1, <2>2, <3>1
  <2>3. CASE i # Len(hist) + 1
    <3>1. i \in DOMAIN hist /\ hist'[i] = hist[i]
      BY <2>1, <2>3
    <3>2. hist[i].at \in Nat /\ hist[i].at <= now
      BY <1>1, <3>1, EntryFacts DEF Times
    <3> QED
      BY <1>1, <1>2, <3>1, <3>2
  <2> QED
    BY <2>2, <2>3
<1>10. \A x \in ends' : now' <= x.at
  <2> TAKE x \in ends'
  <2>1. CASE x \in ends
    <3>1. x.at > t /\ x.at \in Nat
      BY <1>1, <1>2, <2>1 DEF HistoryTypeOK, Pending
    <3> QED
      BY <1>2, <3>1
  <2>2. CASE x \in new
    BY <1>2, <1>4, <2>2
  <2> QED
    BY <1>5, <2>1, <2>2
<1> QED
  BY <1>8, <1>9, <1>10 DEF Times

LEMMA IssueSpaced ==
    ASSUME DeviceInv, NEW type \in DOMAIN D.requests, NEW b \in Banks, NEW row \in Nat,
           NEW c \in Issuable(D), NEW t \in Nat, Issued(type, b, row, c, t)
    PROVE  Spaced(D, hist') /\ Asked(D, hist') /\ Reserved(D, hist')
<1> DEFINE x == Entry(type, b, row, c, t)
           n == Len(hist)
           g == hist'
<1>1. /\ HistoryTypeOK /\ Times /\ dut \in Catalogue
      /\ NextTurn <= t /\ \A i \in DOMAIN hist : HeldUntil(hist[i], c, Path(c, b)) <= t
  BY DEF DeviceInv, HistoryTypeOK, Issued
<1>2. /\ n \in Nat /\ DOMAIN hist = 1..n /\ DOMAIN g = 1..(n + 1)
      /\ (\A j \in 1..n : g[j] = hist[j]) /\ g[n + 1] = x
  BY <1>1, IssueIs, AppendIs DEF HistoryTypeOK
<1>3. x.cmd = c /\ x.path = Path(c, b) /\ x.at = t /\ x.for = <<type, b, row>>
  BY DEF Entry
<1> HIDE DEF x, n, g
<1>4. Len(Path(c, b)) = D.scope[c]
  BY <1>1, PathIs
<1>5. Asked(D, g)
  <2> SUFFICES ASSUME NEW i \in DOMAIN g
               PROVE  /\ g[i].cmd \in StepsTo(D, D.requests[g[i].for[1]])
                      /\ Len(g[i].path) = D.scope[g[i].cmd]
                      /\ g[i].for[1] \in {"refresh", "rfm"} =>
                            g[i].for[2] = FirstBank /\ g[i].for[3] = 0
    BY DEF Asked
  <2>1. CASE i = n + 1
    <3>1. c \in StepsTo(D, D.requests[type])
      BY <1>1, PreqSteps DEF Issued
    <3>2. type \in {"refresh", "rfm"} => b = FirstBank /\ row = 0
      BY DEF Issued
    <3>3. g[i] = x /\ x.for[1] = type /\ x.for[2] = b /\ x.for[3] = row
      BY <1>2, <1>3, <2>1
    <3> QED
      BY <1>3, <1>4, <3>1, <3>2, <3>3
  <2>2. CASE i # n + 1
    <3>1. i \in DOMAIN hist /\ g[i] = hist[i]
      BY <1>2, <2>2
    <3> QED
      BY <3>1 DEF DeviceInv, Asked
  <2> QED
    BY <2>1, <2>2
<1>6. ASSUME NEW i \in DOMAIN hist PROVE hist[i].at < t
  <2>1. n \in DOMAIN hist
    BY <1>2, <1>6
  <2>2. hist[i].at \in Nat /\ hist[n].at \in Nat
    BY <1>1, <1>6, <2>1, EntryFacts
  <2>3. hist[i].at <= hist[n].at
    <3>1. CASE i = n
      BY <2>2, <3>1
    <3>2. CASE i # n
      <4>1. i < n
        BY <1>2, <3>2
      <4>2. hist[i].at < hist[n].at
        BY <2>1, <4>1 DEF DeviceInv, Spaced
      <4> QED
        BY <2>2, <4>2
    <3> QED
      BY <3>1, <3>2
  <2>4. NextTurn \in Nat /\ hist[i].at < NextTurn
    BY <1>1, <2>3, NextTurnBounds DEF n
  <2> QED
    BY <1>1, <2>2, <2>4
<1>7. Spaced(D, g)
  <2> SUFFICES ASSUME NEW j \in DOMAIN g, NEW i \in DOMAIN g, i < j
               PROVE  /\ g[i].at < g[j].at
                      /\ \A l \in 0..D.scope[g[j].cmd] : Agree(g[i].path, g[j].path, l) =>
                             g[i].at + D.gap[l][g[i].cmd][g[j].cmd] <= g[j].at
    BY DEF Spaced
  <2>1. i \in DOMAIN hist /\ g[i] = hist[i]
    BY <1>2
  <2>2. CASE j = n + 1
    <3>1. g[j] = x
      BY <1>2, <2>2
    <3>2. hist[i].at < t
      BY <1>6, <2>1
    <3>3. ASSUME NEW l \in 0..D.scope[c], Agree(hist[i].path, Path(c, b), l)
          PROVE  hist[i].at + D.gap[l][hist[i].cmd][c] <= t
      BY <1>1, <2>1, <3>3, Waits
    <3> QED
      BY <1>3, <2>1, <3>1, <3>2, <3>3
  <2>3. CASE j # n + 1
    <3>1. j \in DOMAIN hist /\ g[j] = hist[j]
      BY <1>2, <2>3
    <3> QED
      BY <2>1, <3>1 DEF DeviceInv, Spaced
  <2> QED
    BY <2>2, <2>3
<1>8. ASSUME NEW m \in 0..n, NEW k, NEW d
      PROVE  StillOpen(g, k, d, m) <=> StillOpen(hist, k, d, m)
  <2>1. hist \in Seq(Entries(D, Banks)) /\ g = Append(hist, x)
    BY <1>1, IssueIs DEF HistoryTypeOK, x, g
  <2>2. m \in 0..Len(hist)
    BY DEF n
  <2> QED
    BY <2>1, <2>2, StillOpenBefore
<1>9. Reserved(D, g)
  <2> SUFFICES ASSUME NEW j \in DOMAIN g, NEW i \in DOMAIN g, i < j,
                      g[i].cmd \in Refreshes, Agree(g[i].path, g[j].path, 3), ~StrayAt(g, j)
               PROVE  g[i].at + RefreshCyclesOf(D, g[i].cmd) <= g[j].at
    BY DEF Reserved
  <2>1. i \in DOMAIN hist /\ g[i] = hist[i] /\ j - 1 \in 0..n
    BY <1>2
  <2>2. CASE j = n + 1
    <3>1. g[j].cmd = c /\ g[j].path = Path(c, b) /\ g[j].at = t /\ j - 1 = n
      BY <1>2, <1>3, <2>2
    <3>2. hist[i].cmd \in Refreshes /\ Agree(hist[i].path, Path(c, b), 3)
      BY <2>1, <3>1
    <3>3. c # "PRE" \/ bank[b].st \in OpenStates
      <4> SUFFICES ASSUME c = "PRE" PROVE bank[b].st \in OpenStates
        OBVIOUS
      <4>1. Path(c, b) = b
        BY <1>1, PathIs DEF RankWide, Syncs
      <4>2. PICK k \in 1..n : StillOpen(g, k, b, n)
        BY <3>1, <4>1 DEF StrayAt
      <4>3. n \in 0..n
        BY <1>2
      <4>4. StillOpen(hist, k, b, n)
        BY <1>8, <4>2, <4>3
      <4> QED
        BY <1>2, <4>4 DEF DeviceInv, BanksStand, n
    <3>4. hist[i].at + RefreshCyclesOf(D, hist[i].cmd) <= t
      BY <2>1, <3>2, <3>3, Clear
    <3> QED
      BY <2>1, <3>1, <3>4
  <2>3. CASE j # n + 1
    <3>1. j \in DOMAIN hist /\ g[j] = hist[j]
      BY <1>2, <2>3
    <3>2. ~StrayAt(hist, j)
      BY <1>8, <2>1, <3>1 DEF StrayAt
    <3> QED
      BY <2>1, <3>1, <3>2 DEF DeviceInv, Reserved
  <2> QED
    BY <2>2, <2>3
<1> QED
  BY <1>5, <1>7, <1>9 DEF g

LEMMA IssueRefreshesClosed ==
    ASSUME DeviceInv, NEW type \in DOMAIN D.requests, NEW b \in Banks, NEW row \in Nat,
           NEW c \in Issuable(D), NEW t \in Nat, Issued(type, b, row, c, t)
    PROVE  RefreshesClosed(Banks, hist')
<1> DEFINE x == Entry(type, b, row, c, t)
           n == Len(hist)
           g == Append(hist, x)
<1>1. hist \in Seq(Entries(D, Banks)) /\ hist' = g
  BY IssueIs DEF DeviceInv, HistoryTypeOK
<1>2. /\ n \in Nat /\ DOMAIN hist = 1..n /\ DOMAIN g = 1..(n + 1)
      /\ (\A j \in 1..n : g[j] = hist[j]) /\ g[n + 1] = x
  BY <1>1, AppendIs
<1>3. x.cmd = c /\ x.path = Path(c, b)
  BY DEF Entry
<1> HIDE DEF x
<1>4. ASSUME NEW m \in 0..n, NEW k, NEW d
      PROVE  StillOpen(g, k, d, m) <=> StillOpen(hist, k, d, m)
  BY <1>1, StillOpenBefore
<1> HIDE DEF g, n
<1> SUFFICES ASSUME NEW i \in DOMAIN g, NEW d \in Banks,
                    g[i].cmd \in Refreshes, Agree(g[i].path, d, 3)
             PROVE  ~\E k \in 1..(i - 1) : StillOpen(g, k, d, i - 1)
  BY <1>1 DEF RefreshesClosed
<1>5. i - 1 \in 0..n
  BY <1>2
<1>6. CASE i = n + 1
  <2>1. c \in Refreshes /\ Agree(Path(c, b), d, 3)
    BY <1>2, <1>3, <1>6
  <2>2. bank[d].st \notin OpenStates
    BY <2>1, RefreshReady
  <2>3. ~\E k \in DOMAIN hist : StillOpen(hist, k, d, n)
    BY <2>2 DEF DeviceInv, BanksStand, n
  <2>4. i - 1 = n
    BY <1>2, <1>6
  <2> QED
    BY <1>2, <1>4, <1>5, <2>3, <2>4
<1>7. CASE i # n + 1
  <2>1. i \in DOMAIN hist /\ g[i] = hist[i]
    BY <1>2, <1>7
  <2>2. ~\E k \in 1..(i - 1) : StillOpen(hist, k, d, i - 1)
    BY <2>1 DEF DeviceInv, RefreshesClosed
  <2> QED
    BY <1>4, <1>5, <2>2
<1> QED
  BY <1>6, <1>7

LEMMA IssueBanks ==
    ASSUME DeviceInv, NEW type \in DOMAIN D.requests, NEW b \in Banks, NEW row \in Nat,
           NEW c \in Issuable(D), NEW t \in Nat, Issued(type, b, row, c, t)
    PROVE  /\ BanksStand(Banks, hist', bank', ends')
           /\ EndsStand(D, Banks, hist', bank', ends')
           /\ InTwoSteps(D, Banks, bank')
<1> DEFINE x == Entry(type, b, row, c, t)
           p == Path(c, b)
           wasOpen(d) == \E k \in DOMAIN hist : StillOpen(hist, k, d, Len(hist))
           isOpen(d) == \E k \in DOMAIN hist' : StillOpen(hist', k, d, Len(hist'))
<1>1. /\ HistoryTypeOK /\ dut \in Catalogue /\ hist \in Seq(Entries(D, Banks))
      /\ Banks \subseteq Bank3
  BY DutFacts DEF DeviceInv, HistoryTypeOK
<1>2. hist' = Append(hist, x)
  BY IssueIs
<1>3. x.cmd = c /\ x.path = p /\ x.at = t
  BY DEF Entry
<1> HIDE DEF x
<1>4. ASSUME NEW d \in Banks
      PROVE  isOpen(d) <=> \/ c \in Opens /\ Agree(p, d, 3)
                           \/ wasOpen(d) /\ ~(c \in Closes /\ Agree(p, d, 3))
  BY <1>1, <1>2, <1>3, StillOpenAfter
<1>5. \A d \in Banks :
        /\ bank'[d] = IF Agree(p, d, 3) THEN BankAfter(c, row, bank[d]) ELSE bank[d]
        /\ bank[d].st \in OpenStates <=> wasOpen(d)
        /\ bank[d].st = "refreshing" => \E y \in ends : Agree(y.path, d, 3)
        /\ bank[d] \in BankStates
  BY <1>1, IssueIs DEF DeviceInv, BanksStand, HistoryTypeOK
<1>6. /\ ends \subseteq ends'
      /\ c \in DOMAIN D.ends =>
            \E y \in ends' : y.path = p
      /\ \A y \in ends' : y \in ends \/
            (/\ c \in DOMAIN D.ends /\ y.cmd = c /\ y.path = p /\ y.at = t + D.ends[c] - 1)
  <2> DEFINE end == [cmd |-> c, path |-> p, at |-> t + D.ends[c] - 1]
  <2>1. ends' = ends \cup (IF c \in DOMAIN D.ends THEN {end} ELSE {})
    BY IssueIs
  <2>2. end.cmd = c /\ end.path = p /\ end.at = t + D.ends[c] - 1
    OBVIOUS
  <2> HIDE DEF end
  <2> QED
    BY <2>1, <2>2
<1>7. p \in Nodes3 /\ Agree(p, b, 3) /\ b \in Bank3
      /\ p = IF c \in RankWide THEN <<b[1]>> ELSE b
  BY <1>1, PathIs
<1>8. ASSUME NEW d \in Banks, Agree(p, d, 3)
      PROVE  /\ c \in {"ACT", "ACT2"} => bank'[d].st = "opened"
             /\ c = "ACT1" => bank'[d].st = "pre-opened"
             /\ c \in Closes => bank'[d].st = "closed"
             /\ c \in Refreshes /\ c \in DOMAIN D.ends => bank'[d].st = "refreshing"
             /\ c \notin {"ACT", "ACT1", "ACT2"} \cup Closes \cup (Refreshes \cap DOMAIN D.ends)
                   => bank'[d] = bank[d]
  BY <1>1, <1>5, <1>8, BankAfterIs
<1>9. c \in DOMAIN D.ends => c \in Refreshes
  BY <1>1, DutFacts DEF FitsTogether
<1> HIDE DEF wasOpen, isOpen, p
<1>10. ASSUME NEW d \in Banks
       PROVE  /\ bank'[d].st \in OpenStates <=> isOpen(d)
              /\ bank'[d].st = "refreshing" => \E y \in ends' : Agree(y.path, d, 3)
  <2>1. CASE ~Agree(p, d, 3)
    BY <1>4, <1>5, <1>6, <2>1
  <2>2. CASE Agree(p, d, 3) /\ c \in {"ACT", "ACT1"}
    <3>1. bank'[d].st \in OpenStates /\ bank'[d].st # "refreshing"
      BY <1>8, <2>2 DEF OpenStates
    <3>2. isOpen(d)
      BY <1>4, <2>2 DEF Opens
    <3> QED
      BY <3>1, <3>2
  <2>3. CASE Agree(p, d, 3) /\ c = "ACT2"
    <3>1. bank'[d].st \in OpenStates /\ bank'[d].st # "refreshing"
      BY <1>8, <2>3 DEF OpenStates
    <3>2. d = b
      BY <1>1, <1>7, <2>3, NodeOverBank, BankParts DEF RankWide, Syncs
    <3>3. bank[b].st \in OpenStates
      BY <2>3, CommandNeeds
    <3>4. isOpen(d)
      BY <1>4, <1>5, <2>3, <3>2, <3>3 DEF Closes
    <3> QED
      BY <3>1, <3>4
  <2>4. CASE Agree(p, d, 3) /\ c \in Closes
    <3>1. bank'[d].st \notin OpenStates /\ bank'[d].st # "refreshing"
      BY <1>8, <2>4 DEF OpenStates
    <3>2. ~isOpen(d)
      BY <1>4, <2>4 DEF Closes, Opens
    <3> QED
      BY <3>1, <3>2
  <2>5. CASE Agree(p, d, 3) /\ c \in Refreshes /\ c \in DOMAIN D.ends
    <3>1. bank'[d].st \notin OpenStates
      BY <1>8, <2>5 DEF OpenStates
    <3>2. bank[d].st \notin OpenStates
      BY <2>5, RefreshReady DEF p
    <3>3. ~isOpen(d)
      BY <1>4, <1>5, <2>5, <3>2 DEF Opens, Refreshes
    <3>4. \E y \in ends' : Agree(y.path, d, 3)
      BY <1>6, <2>5
    <3> QED
      BY <3>1, <3>3, <3>4
  <2>6. CASE /\ Agree(p, d, 3)
             /\ c \notin {"ACT", "ACT1", "ACT2"} \cup Closes \cup (Refreshes \cap DOMAIN D.ends)
    <3>1. bank'[d] = bank[d]
      BY <1>8, <2>6
    <3>2. isOpen(d) <=> wasOpen(d)
      BY <1>4, <2>6 DEF Opens
    <3> QED
      BY <1>5, <1>6, <3>1, <3>2
  <2> QED
    BY <2>1, <2>2, <2>3, <2>4, <2>5, <2>6
<1>11. BanksStand(Banks, hist', bank', ends')
  BY <1>10 DEF BanksStand, isOpen
<1>12. ASSUME NEW y \in ends'
       PROVE  /\ y.cmd \in DOMAIN D.ends
              /\ \E i \in DOMAIN hist' : /\ hist'[i].cmd = y.cmd /\ hist'[i].path = y.path
                                         /\ y.at = hist'[i].at + D.ends[y.cmd] - 1
              /\ \A d \in Banks : Agree(y.path, d, 3) => bank'[d].st \in {"refreshing", "closed"}
  <2>0. /\ Len(hist) \in Nat /\ DOMAIN hist = 1..Len(hist) /\ DOMAIN hist' = 1..(Len(hist) + 1)
        /\ (\A j \in 1..Len(hist) : hist'[j] = hist[j]) /\ hist'[Len(hist) + 1] = x
    BY <1>1, <1>2, AppendIs
  <2>1. CASE y \in ends
    <3>1. y.cmd \in DOMAIN D.ends
      BY <2>1 DEF DeviceInv, EndsStand
    <3>2. PICK i \in DOMAIN hist : /\ hist[i].cmd = y.cmd /\ hist[i].path = y.path
                                   /\ y.at = hist[i].at + D.ends[y.cmd] - 1
      BY <2>1 DEF DeviceInv, EndsStand
    <3>3. i \in DOMAIN hist' /\ hist'[i] = hist[i]
      BY <2>0
    <3>4. ASSUME NEW d \in Banks, Agree(y.path, d, 3)
          PROVE  bank'[d].st \in {"refreshing", "closed"}
      <4>1. bank[d].st \in {"refreshing", "closed"}
        BY <2>1, <3>4 DEF DeviceInv, EndsStand
      <4>2. CASE c = "PRE" /\ Agree(p, d, 3)
        BY <1>8, <4>2 DEF Closes
      <4>3. CASE c # "PRE"
        <5>1. ~Agree(y.path, p, 3)
          BY <2>1, <4>3, PendingElsewhere DEF p
        <5>2. y.path \in Nodes3 /\ d \in Bank3
          <6>1. NodesOver(Banks) \in SUBSET Nodes3
            BY <1>1, NodesOverBanks
          <6> QED
            BY <1>1, <2>1, <6>1 DEF HistoryTypeOK, Pending
        <5>3. ~Agree(p, d, 3)
          BY <1>7, <3>4, <5>1, <5>2, AgreeOverBank
        <5> QED
          BY <1>5, <4>1, <5>3
      <4>4. CASE ~Agree(p, d, 3)
        BY <1>5, <4>1, <4>4
      <4> QED
        BY <4>2, <4>3, <4>4
    <3> QED
      BY <3>1, <3>2, <3>3, <3>4
  <2>2. CASE y \notin ends
    <3>1. c \in DOMAIN D.ends /\ y.cmd = c /\ y.path = p /\ y.at = t + D.ends[c] - 1
      BY <1>6, <2>2
    <3>2. Len(hist) + 1 \in DOMAIN hist'
      BY <2>0
    <3>3. \A d \in Banks : Agree(y.path, d, 3) => bank'[d].st \in {"refreshing", "closed"}
      BY <1>8, <1>9, <3>1
    <3> QED
      BY <1>3, <2>0, <3>1, <3>2, <3>3
  <2> QED
    BY <2>1, <2>2
<1>13. EndsStand(D, Banks, hist', bank', ends')
  BY <1>12 DEF EndsStand
<1>14. InTwoSteps(D, Banks, bank')
  <2> SUFFICES ASSUME ~TwoStep(D), NEW d \in Banks
               PROVE  bank'[d].st # "pre-opened"
    BY DEF InTwoSteps
  <2>1. bank[d].st # "pre-opened"
    BY DEF DeviceInv, InTwoSteps
  <2>2. c # "ACT1"
    <3>1. c \in {"PRE", "PREA"} \cup Refreshes \cup Accesses \/ c = "ACT"
      <4> DEFINE own == D.requests[type]
      <4>1. /\ own \in Accesses \cup Refreshes \cup {"PRE", "PREA"}
            /\ \/ c = NeedsAccess(own, b, row)
               \/ c = NeedsAllClosed(own, b)
               \/ c = NeedsClosed(own, b)
               \/ c \in {"PRE", "PREA"}
        BY RequestKinds DEF Refreshes
      <4> HIDE DEF own
      <4> QED
        BY <4>1 DEF NeedsAccess, NeedsAllClosed, NeedsClosed
    <3> QED
      BY <3>1 DEF Refreshes, Accesses, Reads, Writes
  <2>3. CASE Agree(p, d, 3)
    <3>1. CASE c \in {"ACT", "ACT2"}
      BY <1>8, <2>3, <3>1
    <3>2. CASE c \in Closes
      BY <1>8, <2>3, <3>2
    <3>3. CASE c \in Refreshes /\ c \in DOMAIN D.ends
      BY <1>8, <2>3, <3>3
    <3>4. CASE c \notin {"ACT", "ACT1", "ACT2"} \cup Closes \cup (Refreshes \cap DOMAIN D.ends)
      BY <1>8, <2>1, <2>3, <3>4
    <3> QED
      BY <2>2, <3>1, <3>2, <3>3, <3>4
  <2>4. CASE ~Agree(p, d, 3)
    BY <1>5, <2>1, <2>4
  <2> QED
    BY <2>3, <2>4
<1> QED
  BY <1>11, <1>13, <1>14

LEMMA IssueKeeps ==
    ASSUME DeviceInv, NEW type \in DOMAIN D.requests, NEW b \in Banks, NEW row \in Nat,
           NEW c \in Issuable(D), NEW t \in Nat, Issued(type, b, row, c, t)
    PROVE  DeviceInv'
<1>1. D' = D /\ Banks' = Banks
  BY IssueIs
<1>2. HistoryTypeOK' /\ Times'
  BY IssueTypes
<1>3. Spaced(D, hist') /\ Asked(D, hist') /\ Reserved(D, hist')
  BY IssueSpaced
<1>4. RefreshesClosed(Banks, hist')
  BY IssueRefreshesClosed
<1>5. /\ BanksStand(Banks, hist', bank', ends')
      /\ EndsStand(D, Banks, hist', bank', ends')
      /\ InTwoSteps(D, Banks, bank')
  BY IssueBanks
<1>6. /\ Spaced(D, hist)' /\ Asked(D, hist)' /\ Reserved(D, hist)' /\ RefreshesClosed(Banks, hist)'
      /\ BanksStand(Banks, hist, bank, ends)' /\ EndsStand(D, Banks, hist, bank, ends)'
      /\ InTwoSteps(D, Banks, bank)'
  BY <1>1, <1>3, <1>4, <1>5
<1> QED
  BY <1>2, <1>6 DEF DeviceInv

-----------------------------------------------------------------------------
(* A refresh ends.  No two pending ends are over the same bank.            *)
LEMMA NothingDuring ==
    ASSUME DeviceInv, NEW x \in ends, NEW i \in DOMAIN hist, NEW j \in DOMAIN hist, i < j,
           ~StrayAt(hist, j), hist[i].cmd = x.cmd, hist[i].path = x.path, x.at = hist[i].at + D.ends[x.cmd] - 1
    PROVE  ~Agree(x.path, hist[j].path, 3)
<1> SUFFICES ASSUME Agree(x.path, hist[j].path, 3) PROVE FALSE
  OBVIOUS
<1>1. x.cmd \in DOMAIN D.ends
  BY DEF DeviceInv, EndsStand
<1>2. HistoryTypeOK /\ dut \in Catalogue /\ x.cmd \in Refreshes /\ now \in Nat
  BY DEF DeviceInv, HistoryTypeOK, Pending
<1>3. hist[i].cmd \in Issuable(D) /\ hist[i].at \in Nat /\ hist[j].at \in Nat
  BY <1>2, EntryFacts
<1>4. hist[i].at + RefreshCyclesOf(D, hist[i].cmd) <= hist[j].at
  BY <1>2 DEF DeviceInv, Reserved
<1>5. RefreshCyclesOf(D, hist[i].cmd) = D.ends[x.cmd] /\ D.ends[x.cmd] \in Nat \ {0}
  BY <1>1, <1>2, <1>3, CyclesAreNumbers
<1>6. hist[j].at <= now /\ now <= x.at
  BY DEF DeviceInv, Times
<1> DEFINE length == D.ends[x.cmd]
<1>7. hist[i].at + length <= hist[j].at /\ x.at = hist[i].at + length - 1 /\ length \in Nat
  BY <1>4, <1>5
<1> HIDE DEF length
<1> QED
  BY <1>2, <1>3, <1>6, <1>7

LEMMA EndsApart ==
    ASSUME DeviceInv, NEW x \in ends, NEW y \in ends, NEW d \in Banks,
           Agree(x.path, d, 3), Agree(y.path, d, 3)
    PROVE  x = y
<1>1. PICK i \in DOMAIN hist : /\ hist[i].cmd = x.cmd /\ hist[i].path = x.path
                               /\ x.at = hist[i].at + D.ends[x.cmd] - 1
  BY DEF DeviceInv, EndsStand
<1>2. PICK j \in DOMAIN hist : /\ hist[j].cmd = y.cmd /\ hist[j].path = y.path
                               /\ y.at = hist[j].at + D.ends[y.cmd] - 1
  BY DEF DeviceInv, EndsStand
<1>3. /\ HistoryTypeOK /\ d \in Bank3
      /\ x \in Pending(D, Banks) /\ y \in Pending(D, Banks)
  BY DutFacts DEF DeviceInv, HistoryTypeOK
<1>4. hist[i].path \in Nodes3 /\ hist[j].path \in Nodes3 /\ i \in Nat /\ j \in Nat
  <2>1. i \in 1..Len(hist) /\ j \in 1..Len(hist)
    BY <1>3, EntryFacts
  <2> QED
    BY <1>3, <2>1, EntryFacts
<1>5. Agree(hist[i].path, hist[j].path, 3) /\ Agree(hist[j].path, hist[i].path, 3)
  <2> DEFINE p == hist[i].path
             q == hist[j].path
  <2>1. p \in Nodes3 /\ q \in Nodes3 /\ Agree(p, d, 3) /\ Agree(q, d, 3)
    BY <1>1, <1>2, <1>4
  <2> HIDE DEF p, q
  <2>2. Agree(p, q, 3) /\ Agree(q, p, 3)
    BY <1>3, <2>1, AgreeOverBank
  <2> QED
    BY <2>2 DEF p, q
<1>0. ~StrayAt(hist, i) /\ ~StrayAt(hist, j)
  BY <1>1, <1>2, <1>3 DEF StrayAt, Pending, Refreshes
<1>6. ~(i < j)
  BY <1>0, <1>1, <1>5, NothingDuring
<1>7. ~(j < i)
  BY <1>0, <1>2, <1>5, NothingDuring
<1>8. i = j
  BY <1>4, <1>6, <1>7
<1>9. x.cmd = y.cmd /\ x.path = y.path /\ x.at = y.at
  BY <1>1, <1>2, <1>8
<1> QED
  BY <1>3, <1>9 DEF Pending

LEMMA EndRefreshKeeps ==
    ASSUME DeviceInv, EndRefresh
    PROVE  DeviceInv'
<1>1. PICK e \in ends :
        /\ \A x \in ends : e.at <= x.at
        /\ ends' = ends \ {e}
        /\ now' = e.at
        /\ bank' = [d \in Banks |-> IF Agree(e.path, d, 3) THEN [bank[d] EXCEPT !.st = "closed"]
                                    ELSE bank[d]]
        /\ dut' = dut /\ hist' = hist /\ synced' = synced
  BY DEF EndRefresh, Below
<1>2. D' = D /\ Banks' = Banks /\ Ranks' = Ranks
  BY <1>1 DEF D, Banks, Targets, Ranks
<1>3. /\ HistoryTypeOK /\ now \in Nat /\ e.at \in Nat /\ now <= e.at
      /\ bank \in [Banks -> BankStates]
  BY DEF DeviceInv, HistoryTypeOK, Pending, Times
<1>4. \A d \in Banks :
        /\ bank'[d] = IF Agree(e.path, d, 3) THEN [bank[d] EXCEPT !.st = "closed"] ELSE bank[d]
        /\ Agree(e.path, d, 3) =>
              bank[d].st \in {"refreshing", "closed"} /\ bank'[d].st = "closed"
        /\ bank'[d] \in BankStates
  <2> TAKE d \in Banks
  <2>1. bank[d] \in BankStates
    BY <1>3
  <2>2. [bank[d] EXCEPT !.st = "closed"] \in BankStates
        /\ [bank[d] EXCEPT !.st = "closed"].st = "closed"
    BY <2>1 DEF BankStates
  <2>3. Agree(e.path, d, 3) => bank[d].st \in {"refreshing", "closed"}
    BY DEF DeviceInv, EndsStand
  <2> QED
    BY <1>1, <2>1, <2>2, <2>3
<1>5. HistoryTypeOK'
  <2>1. bank' \in [Banks -> BankStates]
    BY <1>1, <1>4
  <2> QED
    BY <1>1, <1>2, <1>3, <2>1 DEF HistoryTypeOK
<1>6. Times'
  <2>1. \A i \in DOMAIN hist : hist[i].at \in Nat /\ hist[i].at <= now
    BY <1>3, EntryFacts DEF DeviceInv, Times
  <2>2. \A i \in DOMAIN hist : hist[i].at <= e.at
    BY <1>3, <2>1
  <2> QED
    BY <1>1, <2>2 DEF Times
<1>7. BanksStand(Banks, hist, bank', ends')
  <2> SUFFICES ASSUME NEW d \in Banks
               PROVE  /\ bank'[d].st \in OpenStates
                           <=> \E k \in DOMAIN hist : StillOpen(hist, k, d, Len(hist))
                      /\ bank'[d].st = "refreshing" => \E x \in ends' : Agree(x.path, d, 3)
    BY DEF BanksStand
  <2>1. /\ bank[d].st \in OpenStates <=> \E k \in DOMAIN hist : StillOpen(hist, k, d, Len(hist))
        /\ bank[d].st = "refreshing" => \E x \in ends : Agree(x.path, d, 3)
    BY DEF DeviceInv, BanksStand
  <2>2. CASE Agree(e.path, d, 3)
    <3>1. bank[d].st \notin OpenStates /\ bank'[d].st \notin OpenStates
          /\ bank'[d].st # "refreshing"
      BY <1>4, <2>2 DEF OpenStates
    <3> QED
      BY <2>1, <3>1
  <2>3. CASE ~Agree(e.path, d, 3)
    <3>1. bank'[d] = bank[d]
      BY <1>4, <2>3
    <3> QED
      BY <1>1, <2>1, <2>3, <3>1
  <2> QED
    BY <2>2, <2>3
<1>8. EndsStand(D, Banks, hist, bank', ends')
  <2> SUFFICES ASSUME NEW x \in ends', NEW d \in Banks, Agree(x.path, d, 3)
               PROVE  bank'[d].st \in {"refreshing", "closed"}
    BY <1>1 DEF DeviceInv, EndsStand
  <2>1. x \in ends /\ x # e
    BY <1>1
  <2>2. ~Agree(e.path, d, 3)
    BY <2>1, EndsApart
  <2>3. bank[d].st \in {"refreshing", "closed"}
    BY <2>1 DEF DeviceInv, EndsStand
  <2> QED
    BY <1>4, <2>2, <2>3
<1>9. InTwoSteps(D, Banks, bank')
  BY <1>4 DEF DeviceInv, InTwoSteps
<1>10. /\ Spaced(D, hist)' /\ Asked(D, hist)' /\ Reserved(D, hist)' /\ RefreshesClosed(Banks, hist)'
       /\ BanksStand(Banks, hist, bank, ends)' /\ EndsStand(D, Banks, hist, bank, ends)'
       /\ InTwoSteps(D, Banks, bank)'
  BY <1>1, <1>2, <1>7, <1>8, <1>9 DEF DeviceInv
<1> QED
  BY <1>5, <1>6, <1>10 DEF DeviceInv

-----------------------------------------------------------------------------
LEMMA InitDevice == Init => DeviceInv
<1> SUFFICES ASSUME Init PROVE DeviceInv
  OBVIOUS
<1>1. dut \in Catalogue /\ now = 0 /\ hist = <<>> /\ ends = {} /\ DOMAIN hist = {}
  BY DEF Init
<1>2. hist \in Seq(Entries(D, Banks)) /\ Len(hist) = 0
  BY <1>1
<1>3. \A b \in Banks : bank[b] = [st |-> "closed", rows |-> {}]
  BY DEF Init
<1>4. HistoryTypeOK
  <2>1. bank \in [Banks -> BankStates]
    BY DEF Init, BankStates
  <2>2. synced \in [Ranks -> Int]
    BY DEF Init
  <2> QED
    BY <1>1, <1>2, <2>1, <2>2 DEF HistoryTypeOK
<1>5. Times /\ Spaced(D, hist) /\ Asked(D, hist) /\ RefreshesClosed(Banks, hist)
      /\ Reserved(D, hist) /\ EndsStand(D, Banks, hist, bank, ends)
  BY <1>1 DEF Times, Spaced, Asked, RefreshesClosed, Reserved, EndsStand
<1>6. BanksStand(Banks, hist, bank, ends) /\ InTwoSteps(D, Banks, bank)
  BY <1>1, <1>3 DEF BanksStand, InTwoSteps, OpenStates
<1> QED
  BY <1>4, <1>5, <1>6 DEF DeviceInv

LEMMA DeviceStutters ==
    ASSUME DeviceInv, UNCHANGED vars
    PROVE  DeviceInv'
<1>1. /\ dut' = dut /\ now' = now /\ hist' = hist /\ bank' = bank /\ ends' = ends
      /\ synced' = synced
  BY DEF vars
<1>2. D' = D /\ Banks' = Banks /\ Ranks' = Ranks
  BY <1>1 DEF D, Banks, Targets, Ranks
<1>3. HistoryTypeOK' /\ Times'
  BY <1>1, <1>2 DEF DeviceInv, HistoryTypeOK, Times
<1>4. /\ Spaced(D, hist)' /\ Asked(D, hist)' /\ Reserved(D, hist)'
      /\ RefreshesClosed(Banks, hist)' /\ BanksStand(Banks, hist, bank, ends)'
      /\ EndsStand(D, Banks, hist, bank, ends)' /\ InTwoSteps(D, Banks, bank)'
  BY <1>1, <1>2 DEF DeviceInv
<1> QED
  BY <1>3, <1>4 DEF DeviceInv

(* A device of the catalogue keeps its books: its banks are in the states  *)
(* its commands have left them in, and its commands are as far apart as    *)
(* its table says.                                                         *)
THEOREM DevicesInvariant == Spec => []DeviceInv
<1>1. DeviceInv /\ [Next]_vars => DeviceInv'
  <2> SUFFICES ASSUME DeviceInv, [Next]_vars PROVE DeviceInv'
    OBVIOUS
  <2>1. CASE EndRefresh
    BY <2>1, EndRefreshKeeps
  <2>2. CASE Next /\ ~EndRefresh
    <3>1. HistoryTypeOK /\ Times
      BY DEF DeviceInv
    <3>2. PICK type \in DOMAIN D.requests, b \in Banks, row \in Nat, c \in Issuable(D), t \in Nat :
            Issued(type, b, row, c, t)
      BY <2>2, <3>1, NextIssues
    <3> QED
      BY <3>2, IssueKeeps
  <2>3. CASE UNCHANGED vars
    BY <2>3, DeviceStutters
  <2> QED
    BY <2>1, <2>2, <2>3
<1> QED
  BY <1>1, InitDevice, PTL DEF Spec

-----------------------------------------------------------------------------
(* Two entries of the history are as far apart as the table holds them.    *)
LEMMA Apart ==
    ASSUME DeviceInv, NEW i \in DOMAIN hist, NEW j \in DOMAIN hist, i < j,
           NEW top \in {1, 3}, top <= D.scope[hist[j].cmd],
           \A l \in 0..top : Agree(hist[i].path, hist[j].path, l),
           NEW cycles \in Int, Holds(D, hist[i].cmd, hist[j].cmd, top, cycles)
    PROVE  hist[i].at + cycles <= hist[j].at
<1>1. /\ HistoryTypeOK /\ dut \in Catalogue
  BY DEF DeviceInv, HistoryTypeOK
<1>2. /\ hist[i].at \in Nat /\ hist[j].at \in Nat
      /\ hist[i].cmd \in Issuable(D) /\ hist[j].cmd \in Issuable(D)
  BY <1>1, EntryFacts
<1>3. PICK l \in 0..top : D.gap[l][hist[i].cmd][hist[j].cmd] >= cycles
  BY DEF Holds
<1>4. D.scope[hist[j].cmd] \in {1, 3}
  BY <1>1, <1>2, DutFacts DEF FitsTogether
<1>5. l \in 0..D.scope[hist[j].cmd] /\ l \in 0..3
  BY <1>3, <1>4
<1> DEFINE gap == D.gap[l][hist[i].cmd][hist[j].cmd]
<1>6. hist[i].at + gap <= hist[j].at
  BY <1>3, <1>5 DEF DeviceInv, Spaced
<1>7. gap \in Nat
  <2>1. \A a \in Issuable(D) : D.gap[l][a][hist[j].cmd] \in Nat
    BY <1>1, <1>2, <1>5, DutFacts DEF FitsTogether
  <2> QED
    BY <1>2, <2>1
<1>8. gap >= cycles
  BY <1>3
<1> HIDE DEF gap
<1> QED
  BY <1>2, <1>6, <1>7, <1>8

LEMMA ApartBelow ==
    ASSUME DeviceInv, NEW i \in DOMAIN hist, NEW j \in DOMAIN hist, i < j,
           Agree(hist[i].path, hist[j].path, 3),
           NEW cycles \in Int, Holds(D, hist[i].cmd, hist[j].cmd, D.scope[hist[j].cmd], cycles)
    PROVE  hist[i].at + cycles <= hist[j].at
<1>1. /\ HistoryTypeOK /\ dut \in Catalogue
  BY DEF DeviceInv, HistoryTypeOK
<1>2. /\ hist[i].path \in Nodes3 /\ hist[j].path \in Nodes3 /\ hist[j].cmd \in Issuable(D)
  BY <1>1, EntryFacts
<1> DEFINE top == D.scope[hist[j].cmd]
<1>3. top \in {1, 3}
  BY <1>1, <1>2, DutFacts DEF FitsTogether
<1> HIDE DEF top
<1>4. ASSUME NEW l \in 0..top PROVE Agree(hist[i].path, hist[j].path, l)
  <2>1. l \in 0..3
    BY <1>3
  <2> QED
    BY <1>2, <2>1, AgreeAbove
<1> QED
  BY <1>3, <1>4, Apart DEF top

LEMMA TimesAreNumbers ==
    ASSUME dut \in Catalogue
    PROVE  /\ T.nRAS \in Nat /\ T.nWR \in Nat /\ T.nCL \in Nat /\ T.nCWL \in Nat /\ T.nBL \in Nat
           /\ \A c : Latency(D, c) \in Nat
           /\ \A c \in Writes : Latency(D, c) = T.nCWL
<1>1. T.nRAS \in Nat /\ T.nWR \in Nat /\ T.nCL \in Nat /\ T.nCWL \in Nat /\ T.nBL \in Nat
  BY DutFacts DEF FitsTogether, T
<1> QED
  BY <1>1 DEF Latency, T, Writes, Reads

(* A row is not closed before nRAS has passed since it was opened and its  *)
(* last write has been restored.                                           *)
THEOREM RowsAreRestored == Spec => []RowRestored
<1>1. DeviceInv => RowRestored
  <2> SUFFICES ASSUME DeviceInv, NEW j \in DOMAIN hist, NEW i \in DOMAIN hist,
                      i < j, hist[j].cmd \in Closes, Agree(hist[i].path, hist[j].path, 3)
               PROVE  Restored(hist[i]) <= hist[j].at
    BY DEF RowRestored
  <2>1. /\ HistoryTypeOK /\ dut \in Catalogue
    BY DEF DeviceInv, HistoryTypeOK
  <2>2. /\ hist[i].at \in Nat /\ hist[j].at \in Nat
        /\ hist[i].cmd \in Issuable(D) /\ hist[j].cmd \in Issuable(D)
    BY <2>1, EntryFacts
  <2>3. RestoresRows(D) /\ T.nRAS \in Nat /\ T.nWR \in Nat /\ T.nCWL \in Nat /\ T.nBL \in Nat
    BY <2>1, DutFacts, TimesAreNumbers
  <2>4. CASE hist[i].cmd \in Opens
    <3>1. Holds(D, hist[i].cmd, hist[j].cmd, D.scope[hist[j].cmd], T.nRAS)
      BY <2>2, <2>3, <2>4 DEF RestoresRows, T
    <3>2. hist[i].at + T.nRAS <= hist[j].at
      BY <2>3, <3>1, ApartBelow
    <3> QED
      BY <2>4, <3>2 DEF Restored, Opens, Writes
  <2>5. CASE hist[i].cmd \in Writes
    <3> DEFINE cycles == T.nCWL + T.nBL + T.nWR
    <3>1. Holds(D, hist[i].cmd, hist[j].cmd, D.scope[hist[j].cmd], cycles)
      BY <2>2, <2>3, <2>5 DEF RestoresRows, T
    <3>2. cycles \in Int
      BY <2>3
    <3>3. hist[i].at + cycles <= hist[j].at
      <4> HIDE DEF cycles
      <4> QED
        BY <3>1, <3>2, ApartBelow
    <3>4. Restored(hist[i]) = DataEnd(hist[i]) + T.nWR
      BY <2>5 DEF Restored, Opens, Writes
    <3>5. DataEnd(hist[i]) = hist[i].at + T.nCWL + T.nBL
      BY <2>1, <2>5, TimesAreNumbers DEF DataEnd, DataStart
    <3> QED
      BY <2>2, <2>3, <3>3, <3>4, <3>5
  <2>6. CASE hist[i].cmd \notin Opens \cup Writes
    <3>1. hist[i].at < hist[j].at
      BY DEF DeviceInv, Spaced
    <3>2. Restored(hist[i]) = hist[i].at
      BY <2>6 DEF Restored
    <3> QED
      BY <2>2, <3>1, <3>2
  <2> QED
    BY <2>4, <2>5, <2>6
<1> QED
  BY <1>1, DevicesInvariant, PTL

(* Two accesses to a rank or pseudo channel never drive its data bus at    *)
(* the same time.                                                          *)
THEOREM BurstsStayApart == Spec => []BurstsApart
<1>1. DeviceInv => BurstsApart
  <2> SUFFICES ASSUME DeviceInv, NEW j \in DOMAIN hist, NEW i \in DOMAIN hist,
                      i < j, hist[i].cmd \in Accesses, hist[j].cmd \in Accesses,
                      hist[i].path[1] = hist[j].path[1]
               PROVE  DataEnd(hist[i]) <= DataStart(hist[j])
    BY DEF BurstsApart
  <2>1. /\ HistoryTypeOK /\ dut \in Catalogue
    BY DEF DeviceInv, HistoryTypeOK
  <2>2. /\ hist[i].at \in Nat /\ hist[j].at \in Nat
        /\ hist[i].cmd \in Issuable(D) /\ hist[j].cmd \in Issuable(D)
        /\ hist[i].path \in Nodes3 /\ hist[j].path \in Nodes3
    BY <2>1, EntryFacts
  <2> DEFINE first == Latency(D, hist[i].cmd)
             second == Latency(D, hist[j].cmd)
             cycles == first + T.nBL - second
  <2>3. first \in Nat /\ second \in Nat /\ T.nBL \in Nat
    BY <2>1, TimesAreNumbers
  <2>4. Holds(D, hist[i].cmd, hist[j].cmd, 1, cycles)
    BY <2>1, <2>2, DutFacts DEF SpacesBursts, T
  <2>5. DataEnd(hist[i]) = hist[i].at + first + T.nBL /\ DataStart(hist[j]) = hist[j].at + second
    BY DEF DataEnd, DataStart
  <2> HIDE DEF first, second
  <2>6. cycles \in Int
    BY <2>3
  <2>7. 1 <= D.scope[hist[j].cmd]
    <3>1. D.scope[hist[j].cmd] \in {1, 3}
      BY <2>1, <2>2, DutFacts DEF FitsTogether
    <3> QED
      BY <3>1
  <2>8. \A l \in 0..1 : Agree(hist[i].path, hist[j].path, l)
    <3>1. Agree(hist[i].path, hist[j].path, 0) /\ Agree(hist[i].path, hist[j].path, 1)
      BY <2>2, AgreeNodes
    <3> QED
      BY <3>1
  <2>9. hist[i].at + cycles <= hist[j].at
    <3> HIDE DEF cycles
    <3> QED
      BY <2>4, <2>6, <2>7, <2>8, Apart
  <2> QED
    BY <2>2, <2>3, <2>5, <2>9
<1> QED
  BY <1>1, DevicesInvariant, PTL

(* A PRE goes to a bank.                                                   *)
LEMMA PathOfPre ==
    ASSUME DeviceInv, NEW j \in DOMAIN hist, hist[j].cmd = "PRE"
    PROVE  hist[j].path \in Banks
<1>1. HistoryTypeOK /\ dut \in Catalogue
  BY DEF DeviceInv, HistoryTypeOK
<1>2. hist[j].path \in NodesOver(Banks) /\ hist[j].cmd \in Issuable(D)
  BY <1>1, EntryFacts
<1>3. Len(hist[j].path) = 3
  <2>1. D.scope["PRE"] = 3
    BY <1>1, <1>2, DutFacts DEF FitsTogether, RankWide, Syncs
  <2> QED
    BY <2>1 DEF DeviceInv, Asked
<1> QED
  BY <1>2, <1>3 DEF NodesOver

(* A bank is closed by its last move if no entry before leaves it open,     *)
(* and only then.                                                          *)
LEMMA LastMove ==
    ASSUME HistoryTypeOK, NEW i \in DOMAIN hist, NEW b \in Banks
    PROVE  /\ ClosedAt(i, b) <=> ~\E k \in 1..(i - 1) : StillOpen(hist, k, b, i - 1)
           /\ Moves(i, b) # {} =>
                 /\ Max(Moves(i, b)) \in DOMAIN hist /\ Max(Moves(i, b)) < i
                 /\ Agree(hist[Max(Moves(i, b))].path, b, 3)
<1> DEFINE moves == Moves(i, b)
           m == Max(moves)
<1>1. i \in 1..Len(hist) /\ Len(hist) \in Nat /\ DOMAIN hist = 1..Len(hist)
  BY EntryFacts DEF HistoryTypeOK
<1>2. /\ moves \subseteq 1..(i - 1)
      /\ \A k \in 1..(i - 1) : k \in moves <=> /\ hist[k].cmd \in Opens \cup Closes
                                               /\ Agree(hist[k].path, b, 3)
  BY DEF Moves, Below
<1>3. ClosedAt(i, b) <=> (moves # {} => hist[m].cmd \in Closes)
  BY DEF ClosedAt
<1> HIDE DEF moves
<1>4. CASE moves = {}
  <2>1. \A k \in 1..(i - 1) : ~StillOpen(hist, k, b, i - 1)
    BY <1>2, <1>4 DEF StillOpen
  <2> QED
    BY <1>3, <1>4, <2>1 DEF moves
<1>5. CASE moves # {}
  <2>1. m \in moves /\ \A k \in moves : k <= m
    <3>1. moves \in SUBSET Int /\ i \in Int /\ \A k \in moves : k <= i
      BY <1>1, <1>2
    <3> QED
      BY <1>5, <3>1, MaxOfBounded
  <2> HIDE DEF m
  <2>2. /\ m \in 1..(i - 1) /\ m \in DOMAIN hist /\ m < i
        /\ hist[m].cmd \in Opens \cup Closes /\ Agree(hist[m].path, b, 3)
    BY <1>1, <1>2, <2>1
  <2>3. ASSUME hist[m].cmd \notin Closes
        PROVE  StillOpen(hist, m, b, i - 1)
    <3>1. ASSUME NEW k \in (m + 1)..(i - 1)
          PROVE  ~(hist[k].cmd \in Closes /\ Agree(hist[k].path, b, 3))
      <4>1. k \in 1..(i - 1) /\ ~(k <= m)
        BY <1>1, <2>2
      <4>2. k \notin moves
        BY <2>1, <4>1
      <4> QED
        BY <1>2, <4>1, <4>2
    <3> QED
      BY <2>2, <2>3, <3>1 DEF StillOpen
  <2>4. ASSUME hist[m].cmd \in Closes, NEW k \in 1..(i - 1), StillOpen(hist, k, b, i - 1)
        PROVE  FALSE
    <3>1. k \in moves /\ hist[k].cmd \in Opens
      BY <1>2, <2>4 DEF StillOpen
    <3>2. k # m
      BY <2>4, <3>1 DEF Opens, Closes
    <3>3. m \in (k + 1)..(i - 1)
      BY <1>1, <2>1, <2>2, <3>1, <3>2
    <3> QED
      BY <2>2, <2>4, <3>3 DEF StillOpen
  <2>5. ClosedAt(i, b) <=> ~\E k \in 1..(i - 1) : StillOpen(hist, k, b, i - 1)
    BY <1>3, <1>5, <2>2, <2>3, <2>4
  <2> QED
    BY <2>2, <2>5 DEF m, moves
<1> QED
  BY <1>4, <1>5

(* The last command that moved a bank before its refresh has closed it.    *)
LEMMA FindsClosed ==
    ASSUME DeviceInv, NEW i \in DOMAIN hist, hist[i].cmd \in Refreshes,
           NEW b \in Below(hist[i].path)
    PROVE  ClosedFor(i, b)
<1> DEFINE m == Max(Moves(i, b))
<1>1. /\ HistoryTypeOK /\ dut \in Catalogue /\ b \in Banks /\ b \in Bank3
      /\ Agree(hist[i].path, b, 3)
  BY DutFacts DEF DeviceInv, HistoryTypeOK, Below
<1>2. hist[i].cmd \in Issuable(D) /\ hist[i].path \in Nodes3
  BY <1>1, EntryFacts
<1>3. ClosedAt(i, b)
  <2>1. ~\E k \in 1..(i - 1) : StillOpen(hist, k, b, i - 1)
    BY <1>1 DEF DeviceInv, RefreshesClosed
  <2> QED
    BY <1>1, <2>1, LastMove
<1>4. ASSUME Moves(i, b) # {}
      PROVE  hist[m].at + ClosingCyclesOf(D) <= hist[i].at
  <2>1. m \in DOMAIN hist /\ m < i /\ Agree(hist[m].path, b, 3) /\ hist[m].cmd \in Closes
    BY <1>1, <1>3, <1>4, LastMove DEF ClosedAt
  <2> HIDE DEF m
  <2>2. hist[m].cmd \in Issuable(D) /\ hist[m].path \in Nodes3
    BY <1>1, <2>1, EntryFacts
  <2>3. Agree(hist[m].path, hist[i].path, 3)
    <3> DEFINE p == hist[m].path
               q == hist[i].path
    <3>1. p \in Nodes3 /\ q \in Nodes3 /\ Agree(p, b, 3) /\ Agree(q, b, 3)
      BY <1>1, <1>2, <2>1, <2>2
    <3> HIDE DEF p, q
    <3>2. Agree(p, q, 3)
      BY <1>1, <3>1, AgreeOverBank
    <3> QED
      BY <3>2 DEF p, q
  <2>4. /\ ClosingCyclesOf(D) \in Nat
        /\ Holds(D, hist[m].cmd, hist[i].cmd, D.scope[hist[i].cmd], ClosingCyclesOf(D))
    BY <1>1, <1>2, <2>1, <2>2, DutFacts DEF SpacesRefreshes
  <2> QED
    BY <2>1, <2>3, <2>4, ApartBelow
<1> QED
  BY <1>3, <1>4 DEF ClosedFor

(* A refresh begins when every bank it reaches is closed and has been for  *)
(* the time a row takes to close, and until it is over nothing is issued   *)
(* to those banks but a PRE that finds its bank not open.                  *)
THEOREM RefreshesAlone == Spec => []RefreshAlone
<1>1. DeviceInv => RefreshAlone
  <2> SUFFICES ASSUME DeviceInv, NEW i \in DOMAIN hist, hist[i].cmd \in Refreshes
               PROVE  /\ \A b \in Below(hist[i].path) : ClosedFor(i, b)
                      /\ \A j \in (i + 1)..Len(hist) :
                             Agree(hist[i].path, hist[j].path, 3) /\ ~Stray(j) =>
                                 hist[i].at + RefreshCyclesOf(D, hist[i].cmd) - 1 <= hist[j].at
    BY DEF RefreshAlone
  <2>1. /\ HistoryTypeOK /\ dut \in Catalogue
    BY DEF DeviceInv, HistoryTypeOK
  <2>2. /\ i \in 1..Len(hist) /\ Len(hist) \in Nat /\ DOMAIN hist = 1..Len(hist)
        /\ hist[i].cmd \in Issuable(D) /\ hist[i].at \in Nat
    BY <2>1, EntryFacts DEF HistoryTypeOK
  <2>3. ASSUME NEW j \in (i + 1)..Len(hist), Agree(hist[i].path, hist[j].path, 3), ~Stray(j)
        PROVE  hist[i].at + RefreshCyclesOf(D, hist[i].cmd) - 1 <= hist[j].at
    <3>1. j \in DOMAIN hist /\ i < j
      BY <2>2
    <3>2. ~StrayAt(hist, j)
      <4> SUFFICES ASSUME StrayAt(hist, j) PROVE FALSE
        OBVIOUS
      <4>1. hist[j].cmd = "PRE"
        BY DEF StrayAt
      <4>2. hist[j].path \in Banks
        BY <3>1, <4>1, PathOfPre
      <4>3. ClosedAt(j, hist[j].path)
        BY <2>1, <3>1, <4>2, LastMove DEF StrayAt
      <4> QED
        BY <2>3, <4>1, <4>3 DEF Stray
    <3>3. hist[i].at + RefreshCyclesOf(D, hist[i].cmd) <= hist[j].at
      BY <2>3, <3>1, <3>2 DEF DeviceInv, Reserved
    <3>4. RefreshCyclesOf(D, hist[i].cmd) \in Nat /\ hist[j].at \in Nat
      BY <2>1, <2>2, <3>1, CyclesAreNumbers, EntryFacts
    <3> QED
      BY <2>2, <3>3, <3>4
  <2> QED
    BY <2>3, FindsClosed
<1> QED
  BY <1>1, DevicesInvariant, PTL

-----------------------------------------------------------------------------
(* The steps of a request in their order, its own command last.            *)
StepRank(own, c) ==
    IF c = own THEN 4
    ELSE IF c \in Closes THEN 0
    ELSE IF c \in Opens THEN 1
    ELSE IF c = "ACT2" THEN 2
    ELSE 3

Rises(own, a, c) == StepRank(own, a) < StepRank(own, c) \/ (a \in Syncs /\ c \in Syncs)

(* Entry j follows entry i in serving one request and no other.            *)
Serves(d, h, i, j) ==
    \A k \in i..(j - 1) : /\ h[k].for = h[j].for
                          /\ h[k].cmd # d.requests[h[j].for[1]]

StepsRise(d, h) ==
    \A j \in DOMAIN h, i \in DOMAIN h :
        i < j /\ Serves(d, h, i, j) => Rises(d.requests[h[j].for[1]], h[i].cmd, h[j].cmd)

(* What the last step of a request has done is there for its next one.     *)
Arrived(d, B, s, x) ==
    x.cmd # d.requests[x.for[1]] =>
        /\ x.cmd = "PRE" => s[x.for[2]].st \notin OpenStates
        /\ x.cmd = "PREA" => \A f \in B : f[1] = x.for[2][1] => s[f].st \notin OpenStates
        /\ x.cmd = "ACT1" => s[x.for[2]].st = "pre-opened"
        /\ x.cmd \in {"ACT", "ACT2"} \cup Syncs =>
              s[x.for[2]].st = "opened" /\ x.for[3] \in s[x.for[2]].rows

StepsInv ==
    /\ DeviceInv
    /\ StepsRise(D, hist)
    /\ hist # <<>> => Arrived(D, Banks, bank, hist[Len(hist)])

LEMMA RankIs ==
    ASSUME NEW own, NEW c
    PROVE  /\ StepRank(own, c) \in 0..4
           /\ c = own => StepRank(own, c) = 4
           /\ c # own => StepRank(own, c) < 4
           /\ c # own /\ c \in Closes => StepRank(own, c) = 0
           /\ c # own /\ c \in Opens => StepRank(own, c) = 1
           /\ c # own /\ c = "ACT2" => StepRank(own, c) = 2
           /\ c # own /\ c \in Syncs => StepRank(own, c) = 3
BY DEF StepRank, Closes, Opens, Syncs

LEMMA RisesOn ==
    ASSUME NEW own, NEW a, NEW c, NEW e, Rises(own, a, c), Rises(own, c, e),
           a # own, c # own
    PROVE  Rises(own, a, e)
<1> DEFINE x == StepRank(own, a)
           y == StepRank(own, c)
           z == StepRank(own, e)
<1>1. x \in 0..4 /\ y \in 0..4 /\ z \in 0..4
  BY RankIs
<1>2. (x < y \/ (a \in Syncs /\ c \in Syncs)) /\ (y < z \/ (c \in Syncs /\ e \in Syncs))
  BY DEF Rises
<1>3. a \in Syncs /\ c \in Syncs /\ a # own => x = 3 /\ y = 3
  BY RankIs
<1>4. c \in Syncs /\ e \in Syncs /\ e # own => z = 3 /\ y = 3
  BY RankIs
<1>5. (e = own => z = 4) /\ (a = own => x = 4) /\ y < 4
  BY RankIs
<1> HIDE DEF x, y, z
<1>6. x < z \/ (a \in Syncs /\ e \in Syncs)
  BY <1>1, <1>2, <1>3, <1>4, <1>5
<1> QED
  BY <1>6 DEF Rises, x, z

(* A command leaves the banks as its request wants them.                   *)
LEMMA NewArrives ==
    ASSUME DeviceInv, NEW type \in DOMAIN D.requests, NEW b \in Banks, NEW row \in Nat,
           NEW c \in Issuable(D), NEW t \in Nat, Issued(type, b, row, c, t)
    PROVE  Arrived(D, Banks, bank', Entry(type, b, row, c, t))
<1> DEFINE own == D.requests[type]
<1>1. /\ HistoryTypeOK /\ dut \in Catalogue /\ b \in Bank3 /\ Banks \subseteq Bank3
  BY DutFacts DEF DeviceInv, HistoryTypeOK
<1>2. Agree(Path(c, b), b, 3) /\ Path(c, b) \in Nodes3
      /\ Path(c, b) = IF c \in RankWide THEN <<b[1]>> ELSE b
  BY <1>1, PathIs
<1>3. \A d \in Banks :
        /\ bank'[d] = IF Agree(Path(c, b), d, 3) THEN BankAfter(c, row, bank[d]) ELSE bank[d]
        /\ bank[d] \in BankStates
  BY <1>1, IssueIs DEF HistoryTypeOK
<1>4. ASSUME NEW d \in Banks, Agree(Path(c, b), d, 3)
      PROVE  /\ c \in {"ACT", "ACT2"} => bank'[d].st = "opened" /\ row \in bank'[d].rows
             /\ c = "ACT1" => bank'[d].st = "pre-opened"
             /\ c \in Closes => bank'[d].st = "closed"
             /\ c \in Syncs => bank'[d] = bank[d]
  <2>1. bank'[d] = BankAfter(c, row, bank[d]) /\ bank[d] \in BankStates
    BY <1>3, <1>4
  <2>2. c \in Syncs => c \notin {"ACT", "ACT1", "ACT2"} \cup Closes \cup (Refreshes \cap DOMAIN D.ends)
    BY DEF Syncs, Closes, Refreshes
  <2>3. LET s2 == BankAfter(c, row, bank[d])
        IN  /\ c \in {"ACT", "ACT2"} => s2.st = "opened" /\ s2.rows = bank[d].rows \cup {row}
            /\ c = "ACT1" => s2.st = "pre-opened"
            /\ c \in Closes => s2.st = "closed"
            /\ c \in Syncs => s2 = bank[d]
    BY <1>1, <2>1, <2>2, BankAfterIs
  <2> QED
    BY <2>1, <2>3
<1>5. ASSUME c \in Syncs, c # own
      PROVE  bank[b].st = "opened" /\ row \in bank[b].rows
  <2>1. /\ own \in Accesses /\ TwoStep(D) /\ c = NeedsSyncedAccess(own, b, t)
    <3>1. \/ own \in Accesses /\ c = NeedsAccess(own, b, row)
          \/ own \in Accesses /\ TwoStep(D) /\ c = NeedsSyncedAccess(own, b, t)
          \/ own \in {"REFab", "RFMab"} /\ c = NeedsAllClosed(own, b)
          \/ own \in {"VRR", "RVRR"} /\ c = NeedsClosed(own, b)
          \/ c \in {"PRE", "PREA"}
      BY RequestKinds
    <3> HIDE DEF own
    <3> QED
      BY <1>5, <3>1 DEF NeedsAccess, NeedsAllClosed, NeedsClosed, Syncs
  <2>2. bank[b].st \in {"closed", "opened", "pre-opened", "refreshing"}
    BY <1>1, BankStates4
  <2>3. bank[b].st # "refreshing"
    BY <2>1, NoRefreshInTwoSteps
  <2>4. row = 0
    BY <2>1 DEF Issued
  <2> HIDE DEF own
  <2>5. bank[b].st \notin {"closed", "pre-opened"} /\ 0 \in bank[b].rows
    BY <1>5, <2>1 DEF NeedsSyncedAccess, Syncs
  <2> QED
    BY <2>2, <2>3, <2>4, <2>5
<1>6. ASSUME c = "PREA", NEW f \in Banks, f[1] = b[1]
      PROVE  Agree(Path(c, b), f, 3)
  <2>1. Path(c, b) = <<b[1]>> /\ f \in Bank3
    BY <1>1, <1>2, <1>6 DEF RankWide
  <2>2. Len(Path(c, b)) = 1 /\ Path(c, b)[1] = f[1]
    BY <1>6, <2>1
  <2> QED
    BY <1>2, <2>1, <2>2, NodeOverBank
<1>7. c # own =>
        /\ c = "PRE" => bank'[b].st \notin OpenStates
        /\ c = "PREA" => \A f \in Banks : f[1] = b[1] => bank'[f].st \notin OpenStates
        /\ c = "ACT1" => bank'[b].st = "pre-opened"
        /\ c \in {"ACT", "ACT2"} \cup Syncs => bank'[b].st = "opened" /\ row \in bank'[b].rows
  <2> HIDE DEF own
  <2>1. c = "PRE" => bank'[b].st \notin OpenStates
    BY <1>2, <1>4 DEF Closes, OpenStates
  <2>2. c = "PREA" => \A f \in Banks : f[1] = b[1] => bank'[f].st \notin OpenStates
    BY <1>4, <1>6 DEF Closes, OpenStates
  <2>3. c = "ACT1" => bank'[b].st = "pre-opened"
    BY <1>2, <1>4
  <2>4. c \in {"ACT", "ACT2"} => bank'[b].st = "opened" /\ row \in bank'[b].rows
    BY <1>2, <1>4
  <2>5. c \in Syncs /\ c # own => bank'[b].st = "opened" /\ row \in bank'[b].rows
    BY <1>2, <1>4, <1>5
  <2> QED
    BY <2>1, <2>2, <2>3, <2>4, <2>5
<1> QED
  BY <1>7 DEF Arrived, Entry

(* The next step of a request comes after the one before it.               *)
LEMMA StepRises ==
    ASSUME DeviceInv, NEW type \in DOMAIN D.requests, NEW b \in Banks, NEW row \in Nat,
           NEW c \in Issuable(D), NEW t \in Nat, Issued(type, b, row, c, t),
           NEW x, Arrived(D, Banks, bank, x), x.for = <<type, b, row>>,
           x.cmd # D.requests[type], x.cmd \in StepsTo(D, D.requests[type])
    PROVE  Rises(D.requests[type], x.cmd, c)
<1> DEFINE own == D.requests[type]
           a == x.cmd
           st == bank[b].st
<1>1. /\ a = "PRE" => st \notin OpenStates
      /\ a = "PREA" => \A f \in Banks : f[1] = b[1] => bank[f].st \notin OpenStates
      /\ a = "ACT1" => st = "pre-opened"
      /\ a \in {"ACT", "ACT2"} \cup Syncs => st = "opened" /\ row \in bank[b].rows
  BY DEF Arrived
<1>2. \A f \in Banks : bank[f].st \in {"closed", "opened", "pre-opened", "refreshing"}
  BY BankStates4 DEF DeviceInv
<1>3. StepRank(own, a) < 4 /\ (c = own => StepRank(own, c) = 4)
  BY RankIs
<1>4. c = own => Rises(own, a, c)
  BY <1>3 DEF Rises
<1>5. ASSUME c # own, own \in Accesses, own \in DOMAIN D.preqs, D.preqs[own] = "row open",
             c = NeedsAccess(own, b, row)
      PROVE  Rises(own, a, c)
  <2>1. a \in {"PRE", "ACT"}
    BY <1>5 DEF StepsTo
  <2>2. c \in {"PRE", "ACT"} /\ (c = "PRE" => st = "opened" /\ row \notin bank[b].rows)
        /\ (c = "ACT" => st # "opened")
    BY <1>5 DEF NeedsAccess
  <2>3. a = "PRE" /\ c = "ACT"
    BY <1>1, <2>1, <2>2 DEF OpenStates
  <2>4. StepRank(own, a) = 0 /\ StepRank(own, c) = 1
    BY <1>5, <2>3, RankIs DEF Closes, Opens
  <2> QED
    BY <2>4 DEF Rises
<1>6. ASSUME c # own, own \in Accesses, own \in DOMAIN D.preqs, D.preqs[own] = "row 0 open",
             TwoStep(D), c = NeedsSyncedAccess(own, b, t)
      PROVE  Rises(own, a, c)
  <2>1. a \in {"PRE", "ACT1", "ACT2"} \cup Syncs
    BY <1>6 DEF StepsTo
  <2>2. \/ c = "ACT1" /\ st = "closed"
        \/ c = "ACT2" /\ st = "pre-opened"
        \/ c = "PRE" /\ st \notin {"closed", "pre-opened"} /\ 0 \notin bank[b].rows
        \/ c \in Syncs /\ st \notin {"closed", "pre-opened"}
    BY <1>6 DEF NeedsSyncedAccess, Syncs
  <2>3. row = 0
    BY <1>6 DEF Issued
  <2>4. st # "refreshing"
    BY <1>6, NoRefreshInTwoSteps
  <2>5. CASE a = "PRE"
    <3>1. c = "ACT1"
      BY <1>1, <1>2, <2>2, <2>4, <2>5 DEF OpenStates
    <3>2. StepRank(own, a) = 0 /\ StepRank(own, c) = 1
      BY <1>6, <2>5, <3>1, RankIs DEF Closes, Opens
    <3> QED
      BY <3>2 DEF Rises
  <2>6. CASE a = "ACT1"
    <3>1. c = "ACT2"
      BY <1>1, <2>2, <2>6
    <3>2. StepRank(own, a) = 1 /\ StepRank(own, c) = 2
      BY <1>6, <2>6, <3>1, RankIs DEF Opens
    <3> QED
      BY <3>2 DEF Rises
  <2>7. CASE a = "ACT2"
    <3>1. c \in Syncs
      BY <1>1, <2>2, <2>3, <2>7
    <3>2. StepRank(own, a) = 2 /\ StepRank(own, c) = 3
      BY <1>6, <2>7, <3>1, RankIs
    <3> QED
      BY <3>2 DEF Rises
  <2>8. CASE a \in Syncs
    <3>1. c \in Syncs
      BY <1>1, <2>2, <2>3, <2>8
    <3> QED
      BY <2>8, <3>1 DEF Rises
  <2> QED
    BY <2>1, <2>5, <2>6, <2>7, <2>8
<1>7. ASSUME c # own, own \in {"REFab", "RFMab"}, c = NeedsAllClosed(own, b)
      PROVE  FALSE
  <2>1. c = "PREA" /\ \E d \in FirstNotClosed(b[1]) : bank[d].st # "refreshing"
    BY <1>7 DEF NeedsAllClosed
  <2>2. PICK d \in Banks : d[1] = b[1] /\ bank[d].st \notin {"closed", "refreshing"}
    BY <2>1 DEF FirstNotClosed
  <2>3. a = "PREA"
    <3>1. Asks(D, type, own)
      BY OwnCommand DEF DeviceInv, HistoryTypeOK
    <3>2. own \in DOMAIN D.preqs => D.preqs[own] = "all closed"
      BY <1>7, <3>1 DEF Asks, Accesses, Reads, Writes
    <3> QED
      BY <3>2 DEF StepsTo
  <2> QED
    BY <1>1, <1>2, <2>2, <2>3 DEF OpenStates
<1>8. ASSUME c # own, own \in {"VRR", "RVRR"}, c = NeedsClosed(own, b)
      PROVE  FALSE
  <2>1. st = "opened"
    BY <1>8 DEF NeedsClosed
  <2>2. a = "PRE"
    <3>1. Asks(D, type, own)
      BY OwnCommand DEF DeviceInv, HistoryTypeOK
    <3>2. own \in DOMAIN D.preqs => D.preqs[own] = "bank closed"
      BY <1>8, <3>1 DEF Asks, Accesses, Reads, Writes
    <3> QED
      BY <3>2 DEF StepsTo
  <2> QED
    BY <1>1, <2>1, <2>2 DEF OpenStates
<1>9. \/ /\ own \in Accesses /\ own \in DOMAIN D.preqs /\ D.preqs[own] = "row open"
         /\ c = NeedsAccess(own, b, row)
      \/ /\ own \in Accesses /\ own \in DOMAIN D.preqs /\ D.preqs[own] = "row 0 open"
         /\ TwoStep(D) /\ c = NeedsSyncedAccess(own, b, t)
      \/ own \in {"REFab", "RFMab"} /\ c = NeedsAllClosed(own, b)
      \/ own \in {"VRR", "RVRR"} /\ c = NeedsClosed(own, b)
      \/ c = own
  BY RequestKinds
<1> HIDE DEF own, a
<1>10. Rises(own, a, c)
  BY <1>4, <1>5, <1>6, <1>7, <1>8, <1>9
<1> QED
  BY <1>10 DEF own, a

LEMMA IssueKeepsSteps ==
    ASSUME StepsInv, NEW type \in DOMAIN D.requests, NEW b \in Banks, NEW row \in Nat,
           NEW c \in Issuable(D), NEW t \in Nat, Issued(type, b, row, c, t)
    PROVE  StepsInv'
<1> DEFINE x == Entry(type, b, row, c, t)
           n == Len(hist)
           g == Append(hist, x)
           own(h, j) == D.requests[h[j].for[1]]
<1>1. DeviceInv /\ HistoryTypeOK
  BY DEF StepsInv, DeviceInv
<1>2. DeviceInv'
  BY <1>1, IssueKeeps
<1>3. D' = D /\ Banks' = Banks /\ hist' = g /\ hist \in Seq(Entries(D, Banks))
  BY <1>1, IssueIs DEF HistoryTypeOK
<1>4. /\ n \in Nat /\ DOMAIN hist = 1..n /\ DOMAIN g = 1..(n + 1) /\ Len(g) = n + 1
      /\ (\A j \in 1..n : g[j] = hist[j]) /\ g[n + 1] = x
  BY <1>3, AppendIs
<1>5. x.cmd = c /\ x.for = <<type, b, row>> /\ x.for[1] = type
  BY DEF Entry
<1>6. Arrived(D, Banks, bank', x)
  BY <1>1, NewArrives
<1> HIDE DEF x, n, g
<1>7. ASSUME NEW i \in DOMAIN g, NEW j \in DOMAIN g, i < j, Serves(D, g, i, j)
      PROVE  Rises(own(g, j), g[i].cmd, g[j].cmd)
  <2>1. i \in DOMAIN hist /\ g[i] = hist[i] /\ i \in i..(j - 1) /\ i \in Nat /\ j \in Nat
    BY <1>4, <1>7
  <2>2. CASE j # n + 1
    <3>1. j \in DOMAIN hist /\ g[j] = hist[j]
      BY <1>4, <2>2
    <3>2. \A k \in i..(j - 1) : g[k] = hist[k]
      BY <1>4, <2>1
    <3>3. Serves(D, hist, i, j)
      BY <1>7, <3>1, <3>2 DEF Serves
    <3> QED
      BY <1>7, <2>1, <3>1, <3>3 DEF StepsInv, StepsRise
  <2>3. CASE j = n + 1
    <3>1. g[j] = x /\ own(g, j) = D.requests[type]
      BY <1>4, <1>5, <2>3
    <3>2. n \in i..(j - 1) /\ n \in DOMAIN hist /\ g[n] = hist[n]
      BY <1>4, <2>1, <2>3
    <3>3. \A k \in i..(j - 1) : /\ k \in 1..n /\ g[k] = hist[k]
                                /\ hist[k].for = <<type, b, row>>
                                /\ hist[k].cmd # D.requests[type]
      BY <1>4, <1>5, <1>7, <2>1, <2>3, <3>1 DEF Serves
    <3>4. hist # <<>> /\ Arrived(D, Banks, bank, hist[n])
      BY <3>2 DEF StepsInv, n
    <3>5. hist[n].cmd \in StepsTo(D, D.requests[type])
      <4>1. hist[n].cmd \in StepsTo(D, D.requests[hist[n].for[1]])
        BY <1>1, <3>2 DEF DeviceInv, Asked
      <4>2. hist[n].for[1] = type
        BY <3>2, <3>3
      <4> QED
        BY <4>1, <4>2
    <3>6. Rises(D.requests[type], hist[n].cmd, c)
      BY <1>1, <3>2, <3>3, <3>4, <3>5, StepRises
    <3>7. CASE i = n
      BY <1>5, <2>1, <3>1, <3>6, <3>7
    <3>8. CASE i # n
      <4>1. i < n /\ \A k \in i..(n - 1) : k \in i..(j - 1)
        BY <1>4, <2>1, <2>3, <3>2, <3>8
      <4>2. hist[n].for = <<type, b, row>> /\ hist[n].for[1] = type
        BY <3>2, <3>3
      <4>3. Serves(D, hist, i, n)
        BY <3>3, <4>1, <4>2 DEF Serves
      <4>4. Rises(D.requests[type], hist[i].cmd, hist[n].cmd)
        BY <2>1, <3>2, <4>1, <4>2, <4>3 DEF StepsInv, StepsRise
      <4>5. hist[n].cmd # D.requests[type] /\ hist[i].cmd # D.requests[type]
        BY <2>1, <3>2, <3>3
      <4>6. Rises(D.requests[type], hist[i].cmd, c)
        BY <3>6, <4>4, <4>5, RisesOn
      <4> QED
        BY <1>5, <2>1, <3>1, <4>6
    <3> QED
      BY <3>7, <3>8
  <2> QED
    BY <2>2, <2>3
<1>8. StepsRise(D, g)
  BY <1>7 DEF StepsRise
<1>9. StepsRise(D, hist)'
  BY <1>3, <1>8
<1>10. (hist # <<>> => Arrived(D, Banks, bank, hist[Len(hist)]))'
  BY <1>3, <1>4, <1>6
<1> QED
  BY <1>2, <1>9, <1>10 DEF StepsInv

(* The end of a refresh leaves the steps of a request as they are.         *)
LEMMA EndKeepsSteps ==
    ASSUME StepsInv, EndRefresh
    PROVE  StepsInv'
<1>1. PICK e \in ends :
        /\ bank' = [d \in Banks |-> IF Agree(e.path, d, 3) THEN [bank[d] EXCEPT !.st = "closed"]
                                    ELSE bank[d]]
        /\ dut' = dut /\ hist' = hist
  BY DEF EndRefresh, Below
<1>2. D' = D /\ Banks' = Banks
  BY <1>1 DEF D, Banks, Targets
<1>3. DeviceInv /\ DeviceInv' /\ HistoryTypeOK
  BY EndRefreshKeeps DEF StepsInv, DeviceInv
<1>4. \A d \in Banks : bank[d].st \in {"opened", "pre-opened"} => bank'[d] = bank[d]
  BY <1>1, <1>3 DEF DeviceInv, EndsStand
<1>5. \A d \in Banks : bank[d].st \notin OpenStates => bank'[d].st \notin OpenStates
  <2> TAKE d \in Banks
  <2>1. bank[d] \in BankStates
    BY <1>3 DEF HistoryTypeOK
  <2>2. [bank[d] EXCEPT !.st = "closed"].st = "closed"
    BY <2>1 DEF BankStates
  <2> QED
    BY <1>1, <2>2 DEF OpenStates
<1>6. ASSUME hist # <<>> PROVE Arrived(D, Banks, bank', hist[Len(hist)])
  <2> DEFINE x == hist[Len(hist)]
  <2>1. Len(hist) \in DOMAIN hist /\ hist \in Seq(Entries(D, Banks))
    BY <1>3, <1>6 DEF HistoryTypeOK
  <2>2. x \in Entries(D, Banks)
    BY <2>1, ElementOfSeq
  <2>3. x.for[2] \in Banks
    BY <2>2 DEF Entries
  <2>4. Arrived(D, Banks, bank, x)
    BY <1>6 DEF StepsInv
  <2> HIDE DEF x
  <2>5. Arrived(D, Banks, bank', x)
    BY <1>4, <1>5, <2>3, <2>4 DEF Arrived
  <2> QED
    BY <2>5 DEF x
<1>7. StepsRise(D, hist)' /\ (hist # <<>> => Arrived(D, Banks, bank, hist[Len(hist)]))'
  BY <1>1, <1>2, <1>6 DEF StepsInv
<1> QED
  BY <1>3, <1>7 DEF StepsInv

LEMMA StepsInvariant == Spec => []StepsInv
<1>1. Init => StepsInv
  BY InitDevice DEF Init, StepsInv, StepsRise
<1>2. StepsInv /\ [Next]_vars => StepsInv'
  <2> SUFFICES ASSUME StepsInv, [Next]_vars PROVE StepsInv'
    OBVIOUS
  <2>1. CASE EndRefresh
    BY <2>1, EndKeepsSteps
  <2>2. CASE Next /\ ~EndRefresh
    <3>1. HistoryTypeOK /\ Times
      BY DEF StepsInv, DeviceInv
    <3>2. PICK type \in DOMAIN D.requests, b \in Banks, row \in Nat, c \in Issuable(D), t \in Nat :
            Issued(type, b, row, c, t)
      BY <2>2, <3>1, NextIssues
    <3> QED
      BY <3>2, IssueKeepsSteps
  <2>3. CASE UNCHANGED vars
    <3>1. /\ dut' = dut /\ hist' = hist /\ bank' = bank
      BY <2>3 DEF vars
    <3>2. D' = D /\ Banks' = Banks
      BY <3>1 DEF D, Banks, Targets
    <3>3. DeviceInv'
      BY <2>3, DeviceStutters DEF StepsInv
    <3>4. StepsRise(D, hist)' /\ (hist # <<>> => Arrived(D, Banks, bank, hist[Len(hist)]))'
      BY <3>1, <3>2 DEF StepsInv
    <3> QED
      BY <3>3, <3>4 DEF StepsInv
  <2> QED
    BY <2>1, <2>2, <2>3
<1> QED
  BY <1>1, <1>2, PTL DEF Spec

(* While one request and no other is served, no step of it is repeated but *)
(* the synchronisation that ran out.                                       *)
THEOREM StepsNotRepeated == Spec => []NoStepTwice
<1>1. StepsInv => NoStepTwice
  <2> SUFFICES ASSUME StepsInv, NEW j \in DOMAIN hist, NEW i \in DOMAIN hist, i < j,
                      Serves(D, hist, i, j), hist[i].cmd \notin Syncs
               PROVE  hist[i].cmd # hist[j].cmd
    BY DEF NoStepTwice, Serves
  <2> DEFINE own == D.requests[hist[j].for[1]]
  <2>1. Rises(own, hist[i].cmd, hist[j].cmd)
    BY DEF StepsInv, StepsRise
  <2>2. StepRank(own, hist[i].cmd) < StepRank(own, hist[j].cmd)
    BY <2>1 DEF Rises
  <2>3. StepRank(own, hist[i].cmd) \in 0..4
    BY RankIs
  <2> HIDE DEF own
  <2> QED
    BY <2>2, <2>3
<1> QED
  BY <1>1, StepsInvariant, PTL

-----------------------------------------------------------------------------
(* The statistics of a rank, and what they are kept by: the refreshes it   *)
(* has begun, its open banks and the refreshes that are pending.           *)
Begun(h, r) == {i \in DOMAIN h : h[i].cmd = "REFab" /\ h[i].path[1] = r}

BanksIn(B, s, r, st) == {x \in B : x[1] = r /\ s[x].st = st}

Uses(B, s, e, r) ==
    \E b \in B : b[1] = r /\ (s[b].st = "opened" \/ \E x \in e : x.path = b)

Spent(d, h, r) == Cardinality(Begun(h, r)) * (d.ends["REFab"] - 1)

PowerStats ==
    [mode : {"idle", "active", "refreshing"}, idle : Int, active : Int, idleFrom : Int,
     activeFrom : Int, acts : Int, pres : Int]

(* The rows opened and closed, with n stray PREs among the latter.         *)
Counted(B, s, p, r, n) == p.acts = p.pres - n + Cardinality(BanksIn(B, s, r, "opened"))

(* What is counted so far, the refreshes whole, is the time from which the *)
(* rank's present mode is counted: that of a refresh is its end.  A bank   *)
(* has the state of the refresh it is kept busy by.                        *)
Balanced(d, B, h, s, e, p, r) ==
    LET counted == p.idle + p.active + Spent(d, h, r)
    IN  /\ p.mode = "active" <=> Uses(B, s, e, r)
        /\ p.mode = "refreshing" <=> \E x \in e : x.cmd = "REFab" /\ x.path[1] = r
        /\ p.mode = "idle" => counted = p.idleFrom
        /\ p.mode = "active" => counted = p.activeFrom
        /\ p.mode = "refreshing" =>
              \A x \in e : x.cmd = "REFab" /\ x.path[1] = r => counted = x.at
        /\ \A b \in B : b[1] = r /\ (\E x \in e : x.path = b) => s[b].st = "refreshing"

(* A refresh that is not over is pending.                                  *)
Outstanding(d, h, e, n) ==
    \A i \in DOMAIN h : h[i].cmd = "REFab" /\ "REFab" \in DOMAIN d.ends =>
        \/ h[i].at + d.ends["REFab"] - 1 <= n
        \/ \E x \in e : /\ x.cmd = "REFab" /\ x.path = h[i].path
                        /\ x.at = h[i].at + d.ends["REFab"] - 1

PowerInv ==
    /\ power \in [Ranks -> PowerStats]
    /\ strays \in [Ranks -> Int]
    /\ D.powers # {} => \A r \in Ranks :
          /\ Counted(Banks, bank, power[r], r, strays[r])
          /\ r \notin misled => Balanced(D, Banks, hist, bank, ends, power[r], r)

LEMMA PowerTables ==
    ASSUME dut \in Catalogue, D.powers # {}
    PROVE  /\ "REFab" \in DOMAIN D.ends /\ D.ends["REFab"] \in Nat \ {0} /\ ~TwoStep(D)
           /\ D.powers \subseteq {"ACT", "PRE", "PREA", "REFab", "VRR", "RVRR"}
           /\ \A c \in Issuable(D) \cap {"ACT", "PRE", "PREA", "REFab", "VRR", "RVRR"} :
                 c \in D.powers /\ (c \in Refreshes => c \in DOMAIN D.ends)
           /\ "ACT1" \notin Issuable(D) /\ "ACT2" \notin Issuable(D)
           /\ Issuable(D) \cap Syncs = {}
<1>1. FitsTogether(D) /\ KeepsBooks(D)
  BY CatalogueAssumption DEF D
<1>2. "REFab" \in DOMAIN D.ends /\ D.ends["REFab"] \in Nat \ {0} /\ ~TwoStep(D)
  BY <1>1 DEF FitsTogether, KeepsBooks
<1>3. /\ D.powers \subseteq {"ACT", "PRE", "PREA", "REFab", "VRR", "RVRR"}
      /\ \A c \in Issuable(D) \cap {"ACT", "PRE", "PREA", "REFab", "VRR", "RVRR"} :
            c \in D.powers /\ (c \in Refreshes => c \in DOMAIN D.ends)
  BY <1>1 DEF KeepsBooks
<1>4. \A type \in DOMAIN D.requests :
        StepsTo(D, D.requests[type]) \cap ({"ACT1", "ACT2"} \cup Syncs) = {}
  <2> TAKE type \in DOMAIN D.requests
  <2> DEFINE own == D.requests[type]
  <2>1. Asks(D, type, own)
    BY <1>1 DEF FitsTogether
  <2>2. own \notin {"ACT1", "ACT2"} \cup Syncs
    BY <2>1 DEF Asks, Accesses, Reads, Writes, Syncs
  <2>3. own \in DOMAIN D.preqs => D.preqs[own] # "row 0 open"
    BY <1>2 DEF TwoStep
  <2> HIDE DEF own
  <2>4. StepsTo(D, own) \cap ({"ACT1", "ACT2"} \cup Syncs) = {}
    <3>1. own \in DOMAIN D.preqs
            => D.preqs[own] \in {"row open", "row 0 open", "bank closed", "all closed"}
      BY <2>1 DEF Asks
    <3> QED
      BY <2>2, <2>3, <3>1 DEF StepsTo, Syncs
  <2> QED
    BY <2>4 DEF own
<1>5. "ACT1" \notin Issuable(D) /\ "ACT2" \notin Issuable(D) /\ Issuable(D) \cap Syncs = {}
  BY <1>4 DEF Issuable
<1> QED
  BY <1>2, <1>3, <1>5

LEMMA BanksAreFinite ==
    ASSUME dut \in Catalogue, NEW s, NEW r, NEW st
    PROVE  /\ IsFiniteSet(Banks) /\ IsFiniteSet(BanksIn(Banks, s, r, st))
           /\ Cardinality(BanksIn(Banks, s, r, st)) \in Nat
           /\ Cardinality(BanksIn(Banks, s, r, st)) = 0 <=> BanksIn(Banks, s, r, st) = {}
<1>1. IsFiniteSet(Targets)
  BY CatalogueAssumption DEF Targets
<1>2. IsFiniteSet(Banks)
  <2> DEFINE f == [x \in Targets |-> x[1]]
  <2>1. f \in Surjection(Targets, Banks)
    BY DEF Surjection, Banks
  <2> HIDE DEF f
  <2> QED
    BY <1>1, <2>1, FS_Surjection
<1> DEFINE S == BanksIn(Banks, s, r, st)
<1>3. S \in SUBSET Banks
  BY DEF BanksIn
<1> HIDE DEF S
<1>4. IsFiniteSet(S) /\ Cardinality(S) \in Nat /\ (Cardinality(S) = 0 <=> S = {})
  BY <1>2, <1>3, FS_Subset, FS_CardinalityType, FS_EmptySet
<1> QED
  BY <1>2, <1>4 DEF S

(* The refreshes a history holds, and one more.                            *)
LEMMA BegunGrows ==
    ASSUME NEW S, NEW h \in Seq(S), NEW x, NEW r
    PROVE  /\ Cardinality(Begun(h, r)) \in Nat /\ IsFiniteSet(Begun(h, r))
           /\ Cardinality(Begun(Append(h, x), r)) =
                IF x.cmd = "REFab" /\ x.path[1] = r THEN Cardinality(Begun(h, r)) + 1
                ELSE Cardinality(Begun(h, r))
<1> DEFINE g == Append(h, x)
           n == Len(h)
           own == Begun(h, r)
<1>1. /\ n \in Nat /\ DOMAIN h = 1..n /\ DOMAIN g = 1..(n + 1)
      /\ \A i \in 1..n : g[i] = h[i]
      /\ g[n + 1] = x
  BY AppendIs
<1> HIDE DEF g, n
<1>2. own \in SUBSET (1..n)
  BY <1>1 DEF Begun
<1>3. n + 1 \notin own
  BY <1>1, <1>2
<1>4. Begun(g, r) = IF x.cmd = "REFab" /\ x.path[1] = r THEN own \cup {n + 1} ELSE own
  <2>1. DOMAIN g = DOMAIN h \cup {n + 1}
    BY <1>1
  <2>2. \A i \in DOMAIN h : g[i] = h[i]
    BY <1>1
  <2> QED
    BY <1>1, <2>1, <2>2 DEF Begun
<1> HIDE DEF own
<1>5. IsFiniteSet(1..n)
  BY <1>1, FS_Interval
<1>6. IsFiniteSet(own)
  BY <1>2, <1>5, FS_Subset
<1>7. Cardinality(own) \in Nat
  BY <1>6, FS_CardinalityType
<1>8. Cardinality(own \cup {n + 1}) = Cardinality(own) + 1
  BY <1>3, <1>6, FS_AddElement
<1> QED
  BY <1>4, <1>6, <1>7, <1>8 DEF g, own

(* What a command finds in its rank, and how it leaves the banks.          *)
LEMMA RankAtIssue ==
    ASSUME DeviceInv, D.powers # {},
           NEW type \in DOMAIN D.requests, NEW b \in Banks, NEW row \in Nat,
           NEW c \in Issuable(D), NEW t \in Nat, Issued(type, b, row, c, t)
    PROVE  /\ Path(c, b) = IF c \in RankWide THEN <<b[1]>> ELSE b
           /\ c # "PRE" \/ bank[b].st = "opened" =>
                 \A x \in ends : x.path[1] = b[1] =>
                    c \notin RankWide /\ x.path \in Banks /\ x.path # b /\ x.cmd # "REFab"
           /\ c = "ACT" => bank[b].st # "opened"
           /\ c \in RankWide \cap Refreshes =>
                 \A x \in Banks : x[1] = b[1] => bank[x].st # "opened"
           /\ c \in Refreshes \ RankWide => bank[b].st # "opened"
<1>1. /\ HistoryTypeOK /\ dut \in Catalogue /\ Banks \subseteq Bank3
      /\ NodesOver(Banks) \in SUBSET Nodes3
  BY DutFacts, NodesOverBanks DEF DeviceInv, HistoryTypeOK
<1>2. /\ Path(c, b) = IF c \in RankWide THEN <<b[1]>> ELSE b
      /\ Path(c, b) \in Nodes3 /\ Path(c, b)[1] = b[1]
      /\ Len(Path(c, b)) = IF c \in RankWide THEN 1 ELSE 3
  BY <1>1, PathIs
<1>3. ASSUME c # "PRE" \/ bank[b].st = "opened", NEW x \in ends, x.path[1] = b[1]
      PROVE  c \notin RankWide /\ x.path \in Banks /\ x.path # b /\ x.cmd # "REFab"
  <2>1. ~Agree(x.path, Path(c, b), 3)
    BY <1>3, PendingElsewhere DEF OpenStates
  <2>2. x.path \in NodesOver(Banks) /\ x.path \in Nodes3 /\ x.cmd \in Refreshes
    BY <1>1 DEF HistoryTypeOK, Pending
  <2> DEFINE p == x.path
             q == Path(c, b)
  <2>3. Len(p) = 3 /\ Len(q) = 3 /\ p # q
    <3>1. p \in Nodes3 /\ q \in Nodes3 /\ p[1] = b[1] /\ q[1] = b[1] /\ ~Agree(p, q, 3)
      BY <1>2, <1>3, <2>1, <2>2
    <3> HIDE DEF p, q
    <3>2. Len(p) \in {1, 3} /\ Len(q) \in {1, 3}
      BY <3>1, NodeParts
    <3> QED
      BY <3>1, <3>2, AgreeNodes
  <2>4. c \notin RankWide /\ p # b
    BY <1>2, <2>3
  <2>5. p \in Banks
    BY <2>2, <2>3 DEF NodesOver
  <2>6. x.cmd # "REFab"
    <3>1. PICK i \in DOMAIN hist : hist[i].cmd = x.cmd /\ hist[i].path = x.path
      BY DEF DeviceInv, EndsStand
    <3>2. Len(x.path) = D.scope[x.cmd] /\ x.cmd \in Issuable(D)
      BY <1>1, <3>1, EntryFacts DEF DeviceInv, Asked
    <3>3. D.scope[x.cmd] = IF x.cmd \in RankWide THEN 1 ELSE 3
      BY <1>1, <3>2, DutFacts DEF FitsTogether
    <3> QED
      BY <2>3, <3>2, <3>3 DEF RankWide
  <2> QED
    BY <2>4, <2>5, <2>6
<1>4. ~TwoStep(D)
  BY <1>1, PowerTables
<1>5. c = "ACT" => bank[b].st # "opened"
  BY <1>4, RequestKinds
     DEF NeedsAccess, NeedsAllClosed, NeedsClosed, Accesses, Reads, Writes
<1>6. c \in Refreshes => \A x \in Banks : Agree(Path(c, b), x, 3) => bank[x].st # "opened"
  BY RefreshReady DEF OpenStates
<1>7. c \in RankWide => \A x \in Banks : x[1] = b[1] => Agree(Path(c, b), x, 3)
  BY <1>1, <1>2, NodeOverBank
<1>8. c \notin RankWide => Agree(Path(c, b), b, 3)
  BY <1>1, PathIs
<1> QED
  BY <1>2, <1>3, <1>5, <1>6, <1>7, <1>8

LEMMA BanksAtIssue ==
    ASSUME DeviceInv, D.powers # {},
           NEW type \in DOMAIN D.requests, NEW b \in Banks, NEW row \in Nat,
           NEW c \in Issuable(D), NEW t \in Nat, Issued(type, b, row, c, t), NEW x \in Banks
    PROVE  /\ x[1] # b[1] => bank'[x] = bank[x]
           /\ c \notin RankWide /\ x # b => bank'[x] = bank[x]
           /\ c \notin Closes \cup Refreshes \cup {"ACT"} => bank'[x] = bank[x]
           /\ c = "ACT" => bank'[b].st = "opened"
           /\ c = "PRE" => bank'[b].st = "closed"
           /\ c = "PREA" /\ x[1] = b[1] => bank'[x].st = "closed"
           /\ c \in {"VRR", "RVRR"} => bank'[b].st = "refreshing"
           /\ c \in RankWide \cap Refreshes => (bank'[x].st = "opened" <=> bank[x].st = "opened")
<1>1. /\ HistoryTypeOK /\ dut \in Catalogue /\ Banks \subseteq Bank3
  BY DutFacts DEF DeviceInv, HistoryTypeOK
<1>2. /\ Path(c, b) = IF c \in RankWide THEN <<b[1]>> ELSE b
      /\ Path(c, b) \in Nodes3 /\ Path(c, b)[1] = b[1]
      /\ Len(Path(c, b)) = IF c \in RankWide THEN 1 ELSE 3
  BY <1>1, PathIs
<1>3. bank' = [d \in Banks |-> IF Agree(Path(c, b), d, 3) THEN BankAfter(c, row, bank[d])
                               ELSE bank[d]]
  BY IssueIs
<1>4. \A d \in Banks :
        bank'[d] = IF Agree(Path(c, b), d, 3) THEN BankAfter(c, row, bank[d]) ELSE bank[d]
  BY <1>3
<1>5. \A d \in Banks :
        /\ Agree(Path(c, b), d, 3) => d[1] = b[1]
        /\ c \notin RankWide => (Agree(Path(c, b), d, 3) <=> d = b)
        /\ c \in RankWide => (Agree(Path(c, b), d, 3) <=> d[1] = b[1])
  <2> TAKE d \in Banks
  <2> DEFINE p == Path(c, b)
  <2>1. p \in Nodes3 /\ d \in Bank3 /\ p[1] = b[1] /\ Len(p) = (IF c \in RankWide THEN 1 ELSE 3)
    BY <1>1, <1>2
  <2>2. Agree(p, b, 3)
    BY <1>1, PathIs
  <2>3. c \notin RankWide => p = b
    BY <1>2
  <2> HIDE DEF p
  <2>4. /\ Agree(p, d, 3) => p[1] = d[1]
        /\ Agree(p, d, 3) /\ Len(p) = 3 => p = d
        /\ Len(p) = 1 /\ p[1] = d[1] => Agree(p, d, 3)
    BY <2>1, NodeOverBank
  <2>5. /\ Agree(p, d, 3) => d[1] = b[1]
        /\ c \notin RankWide => (Agree(p, d, 3) <=> d = b)
        /\ c \in RankWide => (Agree(p, d, 3) <=> d[1] = b[1])
    BY <2>1, <2>2, <2>3, <2>4
  <2> QED
    BY <2>5 DEF p
<1>6. ASSUME NEW d \in Banks
      PROVE  LET s2 == BankAfter(c, row, bank[d])
             IN  /\ c = "ACT" => s2.st = "opened"
                 /\ c \in Closes => s2.st = "closed"
                 /\ c \in {"VRR", "RVRR"} => s2.st = "refreshing"
                 /\ c \in Refreshes => s2.st = "refreshing" \/ s2 = bank[d]
                 /\ c \notin Closes \cup Refreshes \cup {"ACT"} => s2 = bank[d]
  <2>1. bank[d] \in BankStates
    BY <1>1 DEF HistoryTypeOK
  <2> DEFINE s2 == BankAfter(c, row, bank[d])
  <2>2. /\ c \in {"ACT", "ACT2"} => s2.st = "opened"
        /\ c \in Closes => s2.st = "closed"
        /\ c \in Refreshes /\ c \in DOMAIN D.ends => s2.st = "refreshing"
        /\ c \notin {"ACT", "ACT1", "ACT2"} \cup Closes \cup (Refreshes \cap DOMAIN D.ends)
               => s2 = bank[d]
    BY <1>1, <2>1, BankAfterIs
  <2> HIDE DEF s2
  <2>3. /\ c \notin {"ACT1", "ACT2"}
        /\ c \in {"VRR", "RVRR"} => c \in DOMAIN D.ends
    BY <1>1, PowerTables DEF Refreshes
  <2> QED
    BY <2>2, <2>3 DEF Refreshes, Closes, s2
<1>7. c \in RankWide \cap Refreshes => \A d \in Banks : d[1] = b[1] => bank[d].st # "opened"
  BY RankAtIssue
<1>8. b \in Banks /\ "PREA" \in RankWide /\ "PREA" \in Closes /\ "PRE" \in Closes
      /\ "PRE" \notin RankWide /\ "ACT" \notin RankWide
      /\ "VRR" \notin RankWide /\ "RVRR" \notin RankWide
  BY DEF RankWide, Closes, Syncs
<1>9. /\ x[1] # b[1] => bank'[x] = bank[x]
      /\ c \notin RankWide /\ x # b => bank'[x] = bank[x]
      /\ c \notin Closes \cup Refreshes \cup {"ACT"} => bank'[x] = bank[x]
  BY <1>4, <1>5, <1>6
<1>10. /\ c = "ACT" => bank'[b].st = "opened"
       /\ c = "PRE" => bank'[b].st = "closed"
       /\ c = "PREA" /\ x[1] = b[1] => bank'[x].st = "closed"
       /\ c \in {"VRR", "RVRR"} => bank'[b].st = "refreshing"
  BY <1>4, <1>5, <1>6, <1>8
<1>11. c \in RankWide \cap Refreshes => (bank'[x].st = "opened" <=> bank[x].st = "opened")
  BY <1>4, <1>5, <1>6, <1>7
<1> QED
  BY <1>9, <1>10, <1>11

(* The books of a rank that a command leaves alone.                        *)
LEMMA BalancedSame ==
    ASSUME NEW d, NEW B, NEW r, NEW p,
           NEW h, NEW s, NEW e, Balanced(d, B, h, s, e, p, r), NEW h2, NEW s2, NEW e2,
           Cardinality(Begun(h2, r)) = Cardinality(Begun(h, r)),
           \A x \in B : x[1] = r => (s2[x].st = "opened" <=> s[x].st = "opened"),
           \A x \in B : x[1] = r => ((\E y \in e2 : y.path = x) <=> \E y \in e : y.path = x),
           \A x \in B : x[1] = r /\ (\E y \in e : y.path = x) => s2[x].st = "refreshing",
           \A y : y.path[1] = r /\ y.cmd = "REFab" => (y \in e2 <=> y \in e)
    PROVE  Balanced(d, B, h2, s2, e2, p, r)
<1>1. Uses(B, s2, e2, r) <=> Uses(B, s, e, r)
  BY DEF Uses
<1>2. \A b \in B : b[1] = r /\ (\E x \in e2 : x.path = b) => s2[b].st = "refreshing"
  OBVIOUS
<1>3. \A y : (y \in e2 /\ y.cmd = "REFab" /\ y.path[1] = r)
               <=> (y \in e /\ y.cmd = "REFab" /\ y.path[1] = r)
  OBVIOUS
<1> QED
  BY <1>1, <1>2, <1>3 DEF Balanced, Spent

LEMMA RanksAre ==
    ASSUME dut \in Catalogue, NEW r \in Ranks
    PROVE  r \in Nat /\ \E b \in Banks : b[1] = r
BY DutFacts DEF Ranks, Bank3

(* An issue in another rank.                                               *)
LEMMA OtherRankBalanced ==
    ASSUME DeviceInv, D.powers # {},
           NEW type \in DOMAIN D.requests, NEW b \in Banks, NEW row \in Nat,
           NEW c \in Issuable(D), NEW t \in Nat, Issued(type, b, row, c, t),
           NEW r \in Ranks, r # b[1], NEW p, Balanced(D, Banks, hist, bank, ends, p, r)
    PROVE  Balanced(D, Banks, hist', bank', ends', p, r)
<1>1. HistoryTypeOK /\ dut \in Catalogue
  BY DEF DeviceInv, HistoryTypeOK
<1>2. Path(c, b)[1] = b[1]
  BY <1>1, PathIs
<1>3. /\ hist' = Append(hist, Entry(type, b, row, c, t))
      /\ ends' = ends \cup (IF c \in DOMAIN D.ends
                            THEN {[cmd |-> c, path |-> Path(c, b), at |-> t + D.ends[c] - 1]}
                            ELSE {})
  BY IssueIs
<1>4. Cardinality(Begun(hist', r)) = Cardinality(Begun(hist, r))
  <2>1. Entry(type, b, row, c, t).path[1] = b[1]
    BY <1>2 DEF Entry
  <2> QED
    BY <1>1, <1>3, <2>1, BegunGrows DEF HistoryTypeOK
<1>5. \A y : y.path[1] = r => (y \in ends' <=> y \in ends)
  BY <1>2, <1>3
<1>6. \A x \in Banks : x[1] = r => bank'[x] = bank[x]
  BY BanksAtIssue
<1>7. \A x \in Banks : x[1] = r => ((\E y \in ends' : y.path = x) <=> \E y \in ends : y.path = x)
  BY <1>5
<1>8. \A x \in Banks : x[1] = r /\ (\E y \in ends : y.path = x) => bank'[x].st = "refreshing"
  BY <1>6 DEF Balanced
<1> QED
  BY <1>4, <1>5, <1>6, <1>7, <1>8, BalancedSame

(* A command without a power function.                                     *)
LEMMA UncountedBalanced ==
    ASSUME DeviceInv, D.powers # {},
           NEW type \in DOMAIN D.requests, NEW b \in Banks, NEW row \in Nat,
           NEW c \in Issuable(D), NEW t \in Nat, Issued(type, b, row, c, t),
           c \notin D.powers, NEW p, Balanced(D, Banks, hist, bank, ends, p, b[1])
    PROVE  Balanced(D, Banks, hist', bank', ends', p, b[1])
<1> DEFINE r == b[1]
<1>1. HistoryTypeOK /\ dut \in Catalogue /\ Banks \subseteq Bank3
  BY DutFacts DEF DeviceInv, HistoryTypeOK
<1>2. c \notin {"ACT", "PRE", "PREA", "REFab", "VRR", "RVRR"}
  BY <1>1, PowerTables
<1>3. c \in DOMAIN D.ends => c = "RFMab"
  BY <1>1, <1>2, DutFacts DEF FitsTogether, Refreshes
<1>4. /\ hist' = Append(hist, Entry(type, b, row, c, t))
      /\ ends' = ends \cup (IF c \in DOMAIN D.ends
                            THEN {[cmd |-> c, path |-> Path(c, b), at |-> t + D.ends[c] - 1]}
                            ELSE {})
  BY IssueIs
<1>5. Cardinality(Begun(hist', r)) = Cardinality(Begun(hist, r))
  <2>1. Entry(type, b, row, c, t).cmd # "REFab"
    BY <1>2 DEF Entry
  <2> QED
    BY <1>1, <1>4, <2>1, BegunGrows DEF HistoryTypeOK
<1>6. \A y : y.cmd = "REFab" => (y \in ends' <=> y \in ends)
  BY <1>2, <1>4
<1>7. c \in DOMAIN D.ends => \A x \in Banks : Path(c, b) # x
  <2>1. c = "RFMab" => Path(c, b) = <<b[1]>>
    BY RankAtIssue DEF RankWide
  <2>2. \A x \in Banks : Len(x) = 3 /\ Len(<<b[1]>>) = 1
    BY <1>1, BankParts
  <2> QED
    BY <1>3, <2>1, <2>2
<1>8. \A x \in Banks : (\E y \in ends' : y.path = x) <=> \E y \in ends : y.path = x
  BY <1>4, <1>7
<1>9. \A x \in Banks : x[1] = r => (bank'[x].st = "opened" <=> bank[x].st = "opened")
  <2>1. c = "RFMab" \/ c \notin Closes \cup Refreshes \cup {"ACT"}
    BY <1>2 DEF Closes, Refreshes
  <2> QED
    BY <2>1, BanksAtIssue DEF RankWide, Refreshes
<1>10. \A x \in Banks : x[1] = r /\ (\E y \in ends : y.path = x) => bank'[x].st = "refreshing"
  <2>1. c = "RFMab" => \A x \in Banks : x[1] = r => ~\E y \in ends : y.path = x
    BY RankAtIssue DEF RankWide
  <2>2. c = "RFMab" \/ c \notin Closes \cup Refreshes \cup {"ACT"}
    BY <1>2 DEF Closes, Refreshes
  <2>3. c # "RFMab" => \A x \in Banks : bank'[x] = bank[x]
    BY <2>2, BanksAtIssue
  <2> QED
    BY <2>1, <2>3 DEF Balanced
<1> HIDE DEF r
<1> QED
  BY <1>5, <1>6, <1>8, <1>9, <1>10, BalancedSame DEF r

(* A rank whose pending refreshes are all of single banks.                 *)
LEMMA QuietRank ==
    ASSUME DeviceInv, NEW r \in Ranks,
           \A x \in ends : x.path[1] = r => x.path \in Banks /\ bank[x.path].st = "refreshing"
    PROVE  /\ Open(r) = Cardinality(BanksIn(Banks, bank, r, "opened"))
           /\ Refreshing(r) = Cardinality(BanksIn(Banks, bank, r, "refreshing"))
           /\ Open(r) \in Nat /\ Refreshing(r) \in Nat
           /\ Open(r) = 0 <=> \A b \in Banks : b[1] = r => bank[b].st # "opened"
           /\ Refreshing(r) = 0 <=> \A x \in ends : x.path[1] # r
           /\ IsRankIdle(r) <=> ~Uses(Banks, bank, ends, r)
<1>1. HistoryTypeOK /\ dut \in Catalogue /\ Banks \subseteq Bank3
  BY DutFacts DEF DeviceInv, HistoryTypeOK
<1>2. /\ Open(r) = Cardinality(BanksIn(Banks, bank, r, "opened"))
      /\ Refreshing(r) = Cardinality(BanksIn(Banks, bank, r, "refreshing"))
  BY DEF Open, Refreshing, BanksIn
<1>3. /\ Open(r) \in Nat /\ Refreshing(r) \in Nat
      /\ Open(r) = 0 <=> BanksIn(Banks, bank, r, "opened") = {}
      /\ Refreshing(r) = 0 <=> BanksIn(Banks, bank, r, "refreshing") = {}
  BY <1>1, <1>2, BanksAreFinite
<1>4. Open(r) = 0 <=> \A b \in Banks : b[1] = r => bank[b].st # "opened"
  BY <1>3 DEF BanksIn
<1>5. ASSUME NEW b \in Banks, b[1] = r
      PROVE  bank[b].st = "refreshing" <=> \E x \in ends : x.path = b
  <2>1. b \in Bank3 /\ Agree(b, b, 3)
    BY <1>1, AgreeOverBank, BankParts
  <2>2. ASSUME NEW x \in ends, x.path = b
        PROVE  bank[b].st = "refreshing"
    BY <1>5, <2>2
  <2>3. ASSUME bank[b].st = "refreshing"
        PROVE  \E x \in ends : x.path = b
    <3>1. PICK x \in ends : Agree(x.path, b, 3)
      BY <2>3 DEF DeviceInv, BanksStand
    <3>2. x.path \in Nodes3
      BY <1>1, NodesOverBanks DEF HistoryTypeOK, Pending
    <3>3. x.path[1] = b[1]
      BY <2>1, <3>1, <3>2, NodeOverBank
    <3>4. x.path \in Bank3
      BY <1>1, <1>5, <3>3
    <3>5. x.path = b
      BY <2>1, <3>1, <3>2, <3>4, BankParts, NodeOverBank
    <3> QED
      BY <3>5
  <2> QED
    BY <2>2, <2>3
<1>6. Refreshing(r) = 0 <=> \A x \in ends : x.path[1] # r
  <2>1. Refreshing(r) = 0 <=> \A b \in Banks : b[1] = r => bank[b].st # "refreshing"
    BY <1>3 DEF BanksIn
  <2> QED
    BY <1>5, <2>1
<1>7. IsRankIdle(r) <=> ~Uses(Banks, bank, ends, r)
  BY <1>4, <1>5, <1>6 DEF IsRankIdle, Uses
<1> QED
  BY <1>2, <1>3, <1>4, <1>6, <1>7

LEMMA GoesAre ==
    ASSUME NEW p \in PowerStats, NEW t \in Int
    PROVE  /\ GoesActive(p, t) \in PowerStats /\ GoesIdle(p, t) \in PowerStats
           /\ LET q == GoesActive(p, t)
              IN  /\ q.mode = "active" /\ q.idle = p.idle + t - p.idleFrom /\ q.active = p.active
                  /\ q.activeFrom = t /\ q.acts = p.acts /\ q.pres = p.pres
           /\ LET q == GoesIdle(p, t)
              IN  /\ q.mode = "idle" /\ q.active = p.active + t - p.activeFrom /\ q.idle = p.idle
                  /\ q.idleFrom = t /\ q.acts = p.acts /\ q.pres = p.pres
<1>1. /\ DOMAIN p = {"mode", "idle", "active", "idleFrom", "activeFrom", "acts", "pres"}
      /\ p.idle + t - p.idleFrom \in Int /\ p.active + t - p.activeFrom \in Int
      /\ p.idle \in Int /\ p.active \in Int /\ p.idleFrom \in Int /\ p.activeFrom \in Int
      /\ p.acts \in Int /\ p.pres \in Int
  BY DEF PowerStats
<1>2. /\ GoesActive(p, t) \in PowerStats
      /\ LET q == GoesActive(p, t)
         IN  /\ q.mode = "active" /\ q.idle = p.idle + t - p.idleFrom /\ q.active = p.active
             /\ q.activeFrom = t /\ q.acts = p.acts /\ q.pres = p.pres
  <2> DEFINE q == [mode |-> "active", idle |-> p.idle + t - p.idleFrom, active |-> p.active,
                   idleFrom |-> p.idleFrom, activeFrom |-> t, acts |-> p.acts, pres |-> p.pres]
  <2>1. GoesActive(p, t) = q
    <3> DEFINE x == p.idle + t - p.idleFrom
               p1 == [p EXCEPT !.idle = x]
               p2 == [p1 EXCEPT !.activeFrom = t]
               p3 == [p2 EXCEPT !.mode = "active"]
    <3>1. GoesActive(p, t) = p3
      BY DEF GoesActive
    <3>2. x \in Int
      BY <1>1
    <3> HIDE DEF x
    <3>3. /\ p1 \in PowerStats /\ p1.idle = x
          /\ \A k \in DOMAIN p \ {"idle"} : p1[k] = p[k]
      BY <3>2 DEF PowerStats
    <3> HIDE DEF p1
    <3>4. /\ p2 \in PowerStats /\ p2.activeFrom = t
          /\ \A k \in DOMAIN p \ {"activeFrom"} : p2[k] = p1[k]
      BY <1>1, <3>3 DEF PowerStats
    <3> HIDE DEF p2
    <3>5. /\ p3 \in PowerStats /\ p3.mode = "active"
          /\ \A k \in DOMAIN p \ {"mode"} : p3[k] = p2[k]
      BY <1>1, <3>4 DEF PowerStats
    <3> HIDE DEF p3
    <3>6. \A k \in DOMAIN p : p3[k] = q[k]
      BY <1>1, <3>3, <3>4, <3>5 DEF x
    <3>7. DOMAIN p3 = DOMAIN p /\ DOMAIN q = DOMAIN p
          /\ p3 = [k \in DOMAIN p3 |-> p3[k]]
      BY <1>1, <3>5 DEF PowerStats
    <3> QED
      BY <3>1, <3>6, <3>7
  <2>2. q \in PowerStats
    BY <1>1 DEF PowerStats
  <2> QED
    BY <2>1, <2>2
<1>3. /\ GoesIdle(p, t) \in PowerStats
      /\ LET q == GoesIdle(p, t)
         IN  /\ q.mode = "idle" /\ q.active = p.active + t - p.activeFrom /\ q.idle = p.idle
             /\ q.idleFrom = t /\ q.acts = p.acts /\ q.pres = p.pres
  <2> DEFINE q == [mode |-> "idle", idle |-> p.idle, active |-> p.active + t - p.activeFrom,
                   idleFrom |-> t, activeFrom |-> p.activeFrom, acts |-> p.acts, pres |-> p.pres]
  <2>1. GoesIdle(p, t) = q
    <3> DEFINE x == p.active + t - p.activeFrom
               p1 == [p EXCEPT !.active = x]
               p2 == [p1 EXCEPT !.idleFrom = t]
               p3 == [p2 EXCEPT !.mode = "idle"]
    <3>1. GoesIdle(p, t) = p3
      BY DEF GoesIdle
    <3>2. x \in Int
      BY <1>1
    <3> HIDE DEF x
    <3>3. /\ p1 \in PowerStats /\ p1.active = x
          /\ \A k \in DOMAIN p \ {"active"} : p1[k] = p[k]
      BY <3>2 DEF PowerStats
    <3> HIDE DEF p1
    <3>4. /\ p2 \in PowerStats /\ p2.idleFrom = t
          /\ \A k \in DOMAIN p \ {"idleFrom"} : p2[k] = p1[k]
      BY <1>1, <3>3 DEF PowerStats
    <3> HIDE DEF p2
    <3>5. /\ p3 \in PowerStats /\ p3.mode = "idle"
          /\ \A k \in DOMAIN p \ {"mode"} : p3[k] = p2[k]
      BY <1>1, <3>4 DEF PowerStats
    <3> HIDE DEF p3
    <3>6. \A k \in DOMAIN p : p3[k] = q[k]
      BY <1>1, <3>3, <3>4, <3>5 DEF x
    <3>7. DOMAIN p3 = DOMAIN p /\ DOMAIN q = DOMAIN p
          /\ p3 = [k \in DOMAIN p3 |-> p3[k]]
      BY <1>1, <3>5 DEF PowerStats
    <3> QED
      BY <3>1, <3>6, <3>7
  <2>2. q \in PowerStats
    BY <1>1 DEF PowerStats
  <2> QED
    BY <2>1, <2>2
<1> QED
  BY <1>2, <1>3

LEMMA SpentGrows ==
    ASSUME HistoryTypeOK, D.powers # {}, NEW x, NEW r
    PROVE  /\ D.ends["REFab"] - 1 \in Int /\ Spent(D, hist, r) \in Int
           /\ Spent(D, Append(hist, x), r) =
                IF x.cmd = "REFab" /\ x.path[1] = r THEN Spent(D, hist, r) + (D.ends["REFab"] - 1)
                ELSE Spent(D, hist, r)
<1> DEFINE n == Cardinality(Begun(hist, r))
           m == Cardinality(Begun(Append(hist, x), r))
           w == D.ends["REFab"] - 1
<1>1. /\ n \in Nat
      /\ m = IF x.cmd = "REFab" /\ x.path[1] = r THEN n + 1 ELSE n
  BY BegunGrows DEF HistoryTypeOK
<1>2. w \in Int
  BY PowerTables DEF HistoryTypeOK
<1>3. /\ Spent(D, hist, r) = n * w
      /\ Spent(D, Append(hist, x), r) = m * w
  BY DEF Spent
<1> HIDE DEF n, m, w
<1>4. n * w \in Int /\ (n + 1) * w = n * w + w
  BY <1>1, <1>2
<1> QED
  BY <1>1, <1>2, <1>3, <1>4 DEF w

(* What the commands that are counted have in common.                      *)
LEMMA CountedIssue ==
    ASSUME DeviceInv, PowerInv, D.powers # {},
           NEW type \in DOMAIN D.requests, NEW b \in Banks, NEW row \in Nat,
           NEW c \in Issuable(D), NEW t \in Nat, Issued(type, b, row, c, t),
           b[1] \notin misled, c # "PRE" \/ bank[b].st = "opened"
    PROVE  /\ b[1] \in Ranks /\ power[b[1]] \in PowerStats
           /\ Balanced(D, Banks, hist, bank, ends, power[b[1]], b[1])
           /\ Spent(D, hist, b[1]) \in Int
           /\ Spent(D, hist', b[1]) =
                IF c = "REFab" THEN Spent(D, hist, b[1]) + (D.ends["REFab"] - 1)
                ELSE Spent(D, hist, b[1])
           /\ power[b[1]].mode # "refreshing"
           /\ \A x \in ends : x.path[1] = b[1] =>
                 /\ x.path \in Banks /\ x.cmd # "REFab" /\ x.path # b
                 /\ bank[x.path].st = "refreshing"
           /\ IsRankIdle(b[1]) <=> power[b[1]].mode = "idle"
<1> DEFINE r == b[1]
           p == power[r]
<1>1. HistoryTypeOK /\ dut \in Catalogue
  BY DEF DeviceInv, HistoryTypeOK
<1>2. r \in Ranks
  BY DEF Ranks
<1>3. p \in PowerStats /\ Balanced(D, Banks, hist, bank, ends, p, r)
  BY <1>2 DEF PowerInv
<1>4. hist' = Append(hist, Entry(type, b, row, c, t))
  BY IssueIs
<1>5. Entry(type, b, row, c, t).cmd = c /\ Entry(type, b, row, c, t).path[1] = r
  BY <1>1, PathIs DEF Entry
<1>6. /\ Spent(D, hist, r) \in Int
      /\ Spent(D, hist', r) = IF c = "REFab" THEN Spent(D, hist, r) + (D.ends["REFab"] - 1)
                              ELSE Spent(D, hist, r)
  BY <1>1, <1>4, <1>5, SpentGrows
<1>7. \A x \in ends : x.path[1] = r =>
        /\ x.path \in Banks /\ x.cmd # "REFab" /\ x.path # b
        /\ bank[x.path].st = "refreshing"
  BY <1>3, RankAtIssue DEF Balanced
<1>8. p.mode # "refreshing"
  BY <1>3, <1>7 DEF Balanced
<1>9. IsRankIdle(r) <=> ~Uses(Banks, bank, ends, r)
  BY <1>2, <1>7, QuietRank
<1>10. IsRankIdle(r) <=> p.mode = "idle"
  BY <1>3, <1>8, <1>9 DEF Balanced, PowerStats
<1> QED
  BY <1>2, <1>3, <1>6, <1>7, <1>8, <1>10

(* The rows a command opens and closes are counted, in whatever mode the   *)
(* rank is thought to be, and a stray PRE is too.                          *)
LEMMA CountsAtIssue ==
    ASSUME DeviceInv, PowerInv, D.powers # {},
           NEW type \in DOMAIN D.requests, NEW b \in Banks, NEW row \in Nat,
           NEW c \in Issuable(D), NEW t \in Nat, Issued(type, b, row, c, t)
    PROVE  /\ PowerAfter(c, b[1], t) \in PowerStats
           /\ Counted(Banks, bank', PowerAfter(c, b[1], t), b[1], strays'[b[1]])
<1> DEFINE r == b[1]
           p == power[r]
           q == PowerAfter(c, r, t)
           S == BanksIn(Banks, bank, r, "opened")
           S2 == BanksIn(Banks, bank', r, "opened")
           n == Cardinality(S)
           k == strays[r]
           stray == c = "PRE" /\ bank[b].st # "opened"
<1>1. HistoryTypeOK /\ dut \in Catalogue /\ Banks \subseteq Bank3 /\ r \in Ranks
  BY DutFacts DEF DeviceInv, HistoryTypeOK, Ranks
<1>2. p \in PowerStats /\ k \in Int /\ p.acts = p.pres - k + n
  BY <1>1 DEF PowerInv, Counted
<1>3. strays'[r] = IF stray THEN k + 1 ELSE k
  <2>1. strays' = IF stray THEN [strays EXCEPT ![r] = @ + 1] ELSE strays
    BY DEF Issued, IssueCommand, Astray
  <2>2. r \in DOMAIN strays
    BY <1>1 DEF PowerInv
  <2> QED
    BY <2>1, <2>2
<1>4. IsFiniteSet(S) /\ n \in Nat /\ Open(r) = n
  <2>1. Open(r) = n
    BY DEF BanksIn, Open
  <2> QED
    BY <1>1, <2>1, BanksAreFinite
<1>5. Cardinality(S2) = CASE c = "ACT" -> n + 1
                          [] c = "PRE" /\ ~stray -> n - 1
                          [] c = "PREA" -> 0
                          [] OTHER -> n
  <2>1. CASE c = "ACT"
    <3>1. /\ bank'[b].st = "opened" /\ bank[b].st # "opened"
          /\ \A x \in Banks : x # b => bank'[x] = bank[x]
      BY <2>1, RankAtIssue, BanksAtIssue DEF RankWide, Syncs
    <3>2. S2 = S \cup {b} /\ b \notin S
      BY <3>1 DEF BanksIn
    <3> HIDE DEF S, S2
    <3> QED
      BY <1>4, <2>1, <3>2, FS_AddElement
  <2>2. CASE c = "PRE"
    <3>1. /\ bank'[b].st = "closed"
          /\ \A x \in Banks : x # b => bank'[x] = bank[x]
      BY <2>2, BanksAtIssue DEF RankWide, Syncs
    <3>2. S2 = S \ {b} /\ (b \in S <=> ~stray)
      BY <2>2, <3>1 DEF BanksIn
    <3>3. stray => S \ {b} = S
      BY <3>2
    <3> HIDE DEF S, S2, stray
    <3> QED
      BY <1>4, <2>2, <3>2, <3>3, FS_RemoveElement
  <2>3. CASE c = "PREA"
    <3>1. \A x \in Banks : x[1] = r => bank'[x].st = "closed"
      BY <2>3, BanksAtIssue
    <3>2. S2 = {}
      BY <3>1 DEF BanksIn
    <3> HIDE DEF S, S2
    <3> QED
      BY <2>3, <3>2, FS_EmptySet
  <2>4. CASE c \notin {"ACT", "PRE", "PREA"}
    <3>1. \A x \in Banks : x[1] = r => (bank'[x].st = "opened" <=> bank[x].st = "opened")
      <4>1. CASE c \notin Refreshes
        BY <2>4, <4>1, BanksAtIssue DEF Closes
      <4>2. CASE c \in Refreshes \cap RankWide
        BY <4>2, BanksAtIssue
      <4>3. CASE c \in Refreshes \ RankWide
        <5>1. c \in {"VRR", "RVRR"}
          BY <4>3 DEF Refreshes, RankWide
        <5>2. bank'[b].st = "refreshing" /\ bank[b].st # "opened"
          BY <4>3, <5>1, RankAtIssue, BanksAtIssue
        <5>3. \A x \in Banks : x # b => bank'[x] = bank[x]
          BY <4>3, BanksAtIssue
        <5> QED
          BY <5>2, <5>3
      <4> QED
        BY <4>1, <4>2, <4>3
    <3>2. S2 = S
      BY <3>1 DEF BanksIn
    <3> HIDE DEF S, S2
    <3> QED
      BY <2>4, <3>2
  <2> HIDE DEF S, S2, n
  <2> QED
    BY <2>1, <2>2, <2>3, <2>4
<1>6. /\ q \in PowerStats
      /\ q.acts = p.acts + (IF c = "ACT" THEN 1 ELSE 0)
      /\ q.pres = p.pres + (CASE c = "PRE" -> 1
                              [] c = "PREA" -> n
                              [] OTHER -> 0)
  <2> DEFINE Same(g) == g \in PowerStats /\ g.acts = p.acts /\ g.pres = p.pres
             MoreActs(g, i) == [g EXCEPT !.acts = @ + i]
             MorePres(g, i) == [g EXCEPT !.pres = @ + i]
  <2>1. p.acts \in Int /\ p.pres \in Int /\ p.idle \in Int /\ p.idleFrom \in Int
    BY <1>2 DEF PowerStats
  <2>2. Same(p) /\ Same(GoesActive(p, t)) /\ Same(GoesIdle(p, t))
    <3> HIDE DEF p
    <3> QED
      BY <1>2, GoesAre
  <2>3. ASSUME NEW g, Same(g), NEW i \in Int
        PROVE  /\ MoreActs(g, i) \in PowerStats
               /\ MoreActs(g, i).acts = p.acts + i /\ MoreActs(g, i).pres = p.pres
               /\ MorePres(g, i) \in PowerStats
               /\ MorePres(g, i).pres = p.pres + i /\ MorePres(g, i).acts = p.acts
    <3> DEFINE a == g.acts + i
               z == g.pres + i
               g1 == [g EXCEPT !.acts = a]
               g2 == [g EXCEPT !.pres = z]
    <3>1. a = p.acts + i /\ z = p.pres + i /\ a \in Int /\ z \in Int
      BY <2>1, <2>3
    <3>2. g1 = MoreActs(g, i) /\ g2 = MorePres(g, i)
      OBVIOUS
    <3> HIDE DEF a, z, MoreActs, MorePres
    <3>3. g1 \in PowerStats /\ g1.acts = a /\ g1.pres = g.pres
      BY <2>3, <3>1 DEF PowerStats
    <3>4. g2 \in PowerStats /\ g2.pres = z /\ g2.acts = g.acts
      BY <2>3, <3>1 DEF PowerStats
    <3> HIDE DEF g1, g2
    <3> QED
      BY <2>3, <3>1, <3>2, <3>3, <3>4
  <2>4. c \in D.powers <=> c \in {"ACT", "PRE", "PREA", "REFab", "VRR", "RVRR"}
    BY <1>1, PowerTables
  <2> HIDE DEF Same, p, n
  <2>5. CASE c \notin D.powers
    <3>1. q = p
      BY <2>5 DEF PowerAfter, p
    <3> QED
      BY <2>1, <2>2, <2>4, <2>5, <3>1 DEF Same
  <2>6. CASE c = "ACT"
    <3> DEFINE g == IF IsRankIdle(r) THEN GoesActive(p, t) ELSE p
    <3>1. q = MoreActs(g, 1)
      BY <2>4, <2>6 DEF PowerAfter, p
    <3>2. Same(g)
      BY <2>2
    <3> HIDE DEF g, q, MoreActs, MorePres
    <3> QED
      BY <2>1, <2>3, <2>6, <3>1, <3>2
  <2>7. CASE c = "PRE"
    <3> DEFINE g == IF Open(r) = 1 /\ Refreshing(r) = 0 THEN GoesIdle(p, t) ELSE p
    <3>1. q = MorePres(g, 1)
      BY <2>4, <2>7 DEF PowerAfter, p
    <3>2. Same(g)
      BY <2>2
    <3> HIDE DEF g, q, MoreActs, MorePres
    <3> QED
      BY <2>1, <2>3, <2>7, <3>1, <3>2
  <2>8. CASE c = "PREA"
    <3> DEFINE g == IF IsRankIdle(r) THEN p ELSE GoesIdle(p, t)
    <3>1. q = MorePres(g, n)
      BY <1>4, <2>4, <2>8 DEF PowerAfter, p
    <3>2. Same(g) /\ n \in Int
      BY <1>4, <2>2
    <3> HIDE DEF g, q, MoreActs, MorePres
    <3> QED
      BY <2>1, <2>3, <2>8, <3>1, <3>2
  <2>9. CASE c = "REFab"
    <3> DEFINE x == p.idle + t - p.idleFrom
               p1 == [p EXCEPT !.idle = x]
               p2 == [p1 EXCEPT !.mode = "refreshing"]
    <3>1. q = p2
      BY <2>4, <2>9 DEF PowerAfter, p
    <3>2. x \in Int /\ p \in PowerStats
      BY <1>2, <2>1
    <3> HIDE DEF x
    <3>3. Same(p1)
      BY <2>2, <3>2 DEF PowerStats, Same
    <3> HIDE DEF p1
    <3>4. Same(p2)
      BY <3>3 DEF PowerStats, Same
    <3> HIDE DEF p2, q
    <3> QED
      BY <2>1, <2>9, <3>1, <3>4 DEF Same
  <2>10. CASE c \in {"VRR", "RVRR"}
    <3>1. q = IF IsRankIdle(r) THEN GoesActive(p, t) ELSE p
      BY <2>4, <2>10 DEF PowerAfter, p
    <3>2. Same(q)
      BY <2>2, <3>1
    <3> HIDE DEF q
    <3> QED
      BY <2>1, <2>10, <3>2 DEF Same
  <2> QED
    BY <2>4, <2>5, <2>6, <2>7, <2>8, <2>9, <2>10
<1>7. p.acts \in Int /\ p.pres \in Int
  BY <1>2 DEF PowerStats
<1> DEFINE m == Cardinality(S2)
           k2 == strays'[r]
<1> HIDE DEF n, k, p, q, m, k2
<1>8. q.acts = q.pres - k2 + m
  <2>1. /\ k2 = IF stray THEN k + 1 ELSE k
        /\ m = CASE c = "ACT" -> n + 1
                 [] c = "PRE" /\ ~stray -> n - 1
                 [] c = "PREA" -> 0
                 [] OTHER -> n
    BY <1>3, <1>5 DEF m, k, k2
  <2>2. stray => c = "PRE"
    OBVIOUS
  <2> HIDE DEF stray
  <2>3. CASE c = "ACT"
    BY <1>2, <1>4, <1>6, <1>7, <2>1, <2>2, <2>3
  <2>4. CASE c = "PRE"
    BY <1>2, <1>4, <1>6, <1>7, <2>1, <2>2, <2>4
  <2>5. CASE c = "PREA"
    BY <1>2, <1>4, <1>6, <1>7, <2>1, <2>2, <2>5
  <2>6. CASE c \notin {"ACT", "PRE", "PREA"}
    BY <1>2, <1>4, <1>6, <1>7, <2>1, <2>2, <2>6
  <2> QED
    BY <2>3, <2>4, <2>5, <2>6
<1> QED
  BY <1>6, <1>8 DEF Counted, q, m, k2

LEMMA ActBalanced ==
    ASSUME DeviceInv, PowerInv, D.powers # {},
           NEW type \in DOMAIN D.requests, NEW b \in Banks, NEW row \in Nat,
           NEW c \in Issuable(D), NEW t \in Nat, Issued(type, b, row, c, t), c = "ACT",
           b[1] \notin misled
    PROVE  Balanced(D, Banks, hist', bank', ends', PowerAfter(c, b[1], t), b[1])
<1> DEFINE r == b[1]
           p == power[r]
           g == IF IsRankIdle(r) THEN GoesActive(p, t) ELSE p
           q == PowerAfter(c, r, t)
<1>1. HistoryTypeOK /\ dut \in Catalogue
  BY DEF DeviceInv, HistoryTypeOK
<1>2. /\ p \in PowerStats /\ Balanced(D, Banks, hist, bank, ends, p, r)
      /\ Spent(D, hist, r) \in Int /\ Spent(D, hist', r) = Spent(D, hist, r)
      /\ p.mode # "refreshing"
      /\ \A x \in ends : x.path[1] = r =>
            x.cmd # "REFab" /\ x.path # b /\ bank[x.path].st = "refreshing"
      /\ IsRankIdle(r) <=> p.mode = "idle"
  BY CountedIssue
<1>3. q = [g EXCEPT !.acts = @ + 1]
  <2>1. "ACT" \in D.powers
    BY <1>1, PowerTables
  <2> QED
    BY <2>1 DEF PowerAfter
<1>4. ends' = ends
  <2>1. c \notin DOMAIN D.ends
    BY <1>1, DutFacts DEF FitsTogether, Refreshes
  <2> QED
    BY <2>1, IssueIs
<1>5. /\ bank'[b].st = "opened" /\ bank[b].st # "opened"
      /\ \A x \in Banks : x # b => bank'[x] = bank[x]
  BY RankAtIssue, BanksAtIssue DEF RankWide, Syncs
<1>6. \A d \in Banks : d[1] = r /\ (\E x \in ends' : x.path = d) => bank'[d].st = "refreshing"
  BY <1>2, <1>4, <1>5
<1>7. Uses(Banks, bank', ends', r)
  BY <1>5 DEF Uses
<1>8. /\ g \in PowerStats /\ g.mode = "active"
      /\ g.idle + g.active + Spent(D, hist, r) = g.activeFrom
  <2> HIDE DEF p
  <2>1. CASE IsRankIdle(r)
    <3>1. p.idle + p.active + Spent(D, hist, r) = p.idleFrom
      BY <1>2, <2>1 DEF Balanced
    <3>2. /\ p.idle \in Int /\ p.active \in Int /\ p.idleFrom \in Int
      BY <1>2 DEF PowerStats
    <3>3. /\ g \in PowerStats /\ g.mode = "active"
          /\ g.idle = p.idle + t - p.idleFrom /\ g.active = p.active /\ g.activeFrom = t
      <4> DEFINE h == GoesActive(p, t)
      <4>1. p \in PowerStats /\ t \in Int /\ g = h
        BY <1>2, <2>1
      <4>2. /\ h \in PowerStats /\ h.mode = "active"
            /\ h.idle = p.idle + t - p.idleFrom /\ h.active = p.active /\ h.activeFrom = t
        BY <4>1, GoesAre
      <4> HIDE DEF g, h
      <4> QED
        BY <4>1, <4>2
    <3> HIDE DEF g
    <3> QED
      BY <1>2, <3>1, <3>2, <3>3
  <2>2. CASE ~IsRankIdle(r)
    <3>1. p.mode = "active"
      BY <1>2, <2>2 DEF PowerStats
    <3> QED
      BY <1>2, <2>2, <3>1 DEF Balanced
  <2> QED
    BY <2>1, <2>2
<1> HIDE DEF g, p
<1>9. /\ q.mode = "active" /\ q.idle = g.idle /\ q.active = g.active
      /\ q.activeFrom = g.activeFrom
  BY <1>3, <1>8 DEF PowerStats
<1> HIDE DEF q
<1>10. q.idle + q.active + Spent(D, hist', r) = q.activeFrom
  BY <1>2, <1>8, <1>9
<1>11. ~\E x \in ends' : x.cmd = "REFab" /\ x.path[1] = r
  BY <1>2, <1>4
<1> HIDE DEF r
<1>12. Balanced(D, Banks, hist', bank', ends', q, r)
  BY <1>6, <1>7, <1>9, <1>10, <1>11 DEF Balanced
<1> QED
  BY <1>12 DEF q, r

(* A victim's refresh.                                                     *)
LEMMA VictimBalanced ==
    ASSUME DeviceInv, PowerInv, D.powers # {},
           NEW type \in DOMAIN D.requests, NEW b \in Banks, NEW row \in Nat,
           NEW c \in Issuable(D), NEW t \in Nat, Issued(type, b, row, c, t), c \in {"VRR", "RVRR"},
           b[1] \notin misled
    PROVE  Balanced(D, Banks, hist', bank', ends', PowerAfter(c, b[1], t), b[1])
<1> DEFINE r == b[1]
           p == power[r]
           q == PowerAfter(c, r, t)
           new == [cmd |-> c, path |-> Path(c, b), at |-> t + D.ends[c] - 1]
<1>1. HistoryTypeOK /\ dut \in Catalogue
  BY DEF DeviceInv, HistoryTypeOK
<1>2. /\ p \in PowerStats /\ Balanced(D, Banks, hist, bank, ends, p, r)
      /\ Spent(D, hist, r) \in Int /\ Spent(D, hist', r) = Spent(D, hist, r)
      /\ p.mode # "refreshing"
      /\ \A x \in ends : x.path[1] = r =>
            x.cmd # "REFab" /\ x.path # b /\ bank[x.path].st = "refreshing"
      /\ IsRankIdle(r) <=> p.mode = "idle"
  BY CountedIssue
<1>3. c \in D.powers /\ c \in DOMAIN D.ends
  BY <1>1, PowerTables DEF Refreshes
<1>4. q = IF IsRankIdle(r) THEN GoesActive(p, t) ELSE p
  BY <1>3 DEF PowerAfter
<1>5. ends' = ends \cup {new} /\ new.path = b /\ new.cmd = c
  BY <1>3, IssueIs, RankAtIssue DEF RankWide, Syncs
<1>6. /\ bank'[b].st = "refreshing" /\ bank[b].st # "opened"
      /\ \A x \in Banks : x # b => bank'[x] = bank[x]
  BY RankAtIssue, BanksAtIssue DEF RankWide, Refreshes, Syncs
<1>7. \A d \in Banks : d[1] = r /\ (\E x \in ends' : x.path = d) => bank'[d].st = "refreshing"
  BY <1>2, <1>5, <1>6
<1>8. Uses(Banks, bank', ends', r)
  BY <1>5 DEF Uses
<1> HIDE DEF p
<1>9. /\ q \in PowerStats /\ q.mode = "active"
      /\ q.idle + q.active + Spent(D, hist, r) = q.activeFrom
  <2>1. CASE IsRankIdle(r)
    <3>1. p.idle + p.active + Spent(D, hist, r) = p.idleFrom
      BY <1>2, <2>1 DEF Balanced
    <3>2. /\ p.idle \in Int /\ p.active \in Int /\ p.idleFrom \in Int
      BY <1>2 DEF PowerStats
    <3>3. /\ q \in PowerStats /\ q.mode = "active"
          /\ q.idle = p.idle + t - p.idleFrom /\ q.active = p.active /\ q.activeFrom = t
      BY <1>2, <1>4, <2>1, GoesAre
    <3> HIDE DEF q
    <3> QED
      BY <1>2, <3>1, <3>2, <3>3
  <2>2. CASE ~IsRankIdle(r)
    <3>1. p.mode = "active"
      BY <1>2, <2>2 DEF PowerStats
    <3> QED
      BY <1>2, <1>4, <2>2, <3>1 DEF Balanced
  <2> QED
    BY <2>1, <2>2
<1>10. ~\E x \in ends' : x.cmd = "REFab" /\ x.path[1] = r
  BY <1>2, <1>5
<1> HIDE DEF r, q
<1>11. Balanced(D, Banks, hist', bank', ends', q, r)
  BY <1>2, <1>7, <1>8, <1>9, <1>10 DEF Balanced
<1> QED
  BY <1>11 DEF q, r

(* An open bank is closed.                                                 *)
LEMMA PreBalanced ==
    ASSUME DeviceInv, PowerInv, D.powers # {},
           NEW type \in DOMAIN D.requests, NEW b \in Banks, NEW row \in Nat,
           NEW c \in Issuable(D), NEW t \in Nat, Issued(type, b, row, c, t), c = "PRE",
           b[1] \notin misled, bank[b].st = "opened"
    PROVE  Balanced(D, Banks, hist', bank', ends', PowerAfter(c, b[1], t), b[1])
<1> DEFINE r == b[1]
           p == power[r]
           last == Open(r) = 1 /\ Refreshing(r) = 0
           g == IF last THEN GoesIdle(p, t) ELSE p
           q == PowerAfter(c, r, t)
           n == Cardinality(BanksIn(Banks, bank, r, "opened"))
<1>1. HistoryTypeOK /\ dut \in Catalogue
  BY DEF DeviceInv, HistoryTypeOK
<1>2. /\ p \in PowerStats /\ Balanced(D, Banks, hist, bank, ends, p, r)
      /\ Spent(D, hist, r) \in Int /\ Spent(D, hist', r) = Spent(D, hist, r)
      /\ p.mode # "refreshing" /\ r \in Ranks
      /\ \A x \in ends : x.path[1] = r =>
            /\ x.path \in Banks /\ x.cmd # "REFab" /\ x.path # b
            /\ bank[x.path].st = "refreshing"
  BY CountedIssue
<1>3. q = [g EXCEPT !.pres = @ + 1]
  <2>1. "PRE" \in D.powers
    BY <1>1, PowerTables
  <2> QED
    BY <2>1 DEF PowerAfter
<1>4. ends' = ends
  <2>1. c \notin DOMAIN D.ends
    BY <1>1, DutFacts DEF FitsTogether, Refreshes
  <2> QED
    BY <2>1, IssueIs
<1>5. /\ bank'[b].st = "closed" /\ bank[b].st = "opened"
      /\ \A x \in Banks : x # b => bank'[x] = bank[x]
  BY BanksAtIssue DEF RankWide, Syncs
<1>6. BanksIn(Banks, bank', r, "opened") = BanksIn(Banks, bank, r, "opened") \ {b}
  BY <1>5 DEF BanksIn
<1>7. /\ Cardinality(BanksIn(Banks, bank', r, "opened")) = n - 1 /\ n \in Nat
      /\ n = 1 <=> \A x \in Banks : x[1] = r /\ x # b => bank[x].st # "opened"
  <2> DEFINE S == BanksIn(Banks, bank, r, "opened")
  <2>1. IsFiniteSet(S)
    BY <1>1, BanksAreFinite
  <2>2. b \in S
    BY <1>5 DEF BanksIn
  <2>3. S \ {b} = {} <=> \A x \in Banks : x[1] = r /\ x # b => bank[x].st # "opened"
    BY DEF BanksIn
  <2> DEFINE others == \A x \in Banks : x[1] = r /\ x # b => bank[x].st # "opened"
             m == Cardinality(S \ {b})
  <2> HIDE DEF S
  <2>4. /\ m = Cardinality(S) - 1 /\ Cardinality(S) \in Nat
        /\ m = 0 <=> S \ {b} = {}
    BY <2>1, <2>2, FS_RemoveElement, FS_CardinalityType, FS_EmptySet
  <2> HIDE DEF others
  <2>5. n = Cardinality(S) /\ Cardinality(BanksIn(Banks, bank', r, "opened")) = m
    BY <1>6 DEF S
  <2>6. S \ {b} = {} <=> others
    BY <2>3 DEF others
  <2> HIDE DEF m, n
  <2>7. n \in Nat /\ m = n - 1 /\ (n = 1 <=> others)
    BY <2>4, <2>5, <2>6
  <2> QED
    BY <2>5, <2>7 DEF others
<1>8. Uses(Banks, bank, ends, r)
  BY <1>5 DEF Uses
<1>9. last <=> ~Uses(Banks, bank', ends', r)
  <2>1. /\ Open(r) = n
        /\ Refreshing(r) = 0 <=> \A x \in ends : x.path[1] # r
    BY <1>2, QuietRank
  <2>2. Refreshing(r) = 0 <=> ~\E d \in Banks : d[1] = r /\ \E x \in ends : x.path = d
    BY <1>2, <2>1
  <2>3. Uses(Banks, bank', ends', r) <=>
          \/ \E d \in Banks : d[1] = r /\ d # b /\ bank[d].st = "opened"
          \/ \E d \in Banks : d[1] = r /\ \E x \in ends : x.path = d
    BY <1>4, <1>5 DEF Uses
  <2> QED
    BY <1>7, <2>1, <2>2, <2>3
<1>10. p.mode = "active" /\ p.idle + p.active + Spent(D, hist, r) = p.activeFrom
  BY <1>2, <1>8 DEF Balanced
<1>11. p.idle \in Int /\ p.active \in Int /\ p.activeFrom \in Int
  BY <1>2 DEF PowerStats
<1> HIDE DEF last, n, p
<1>12. /\ g \in PowerStats
       /\ g.mode = IF last THEN "idle" ELSE "active"
       /\ last => g.idle + g.active + Spent(D, hist, r) = g.idleFrom
       /\ ~last => g.idle + g.active + Spent(D, hist, r) = g.activeFrom
  <2>1. CASE last
    <3>1. /\ g \in PowerStats /\ g.mode = "idle"
          /\ g.active = p.active + t - p.activeFrom /\ g.idle = p.idle /\ g.idleFrom = t
      BY <1>2, <2>1, GoesAre
    <3> HIDE DEF g
    <3> QED
      BY <1>2, <1>10, <1>11, <2>1, <3>1
  <2>2. CASE ~last
    BY <1>2, <1>10, <2>2
  <2> QED
    BY <2>1, <2>2
<1> HIDE DEF g
<1>13. /\ q.mode = g.mode /\ q.idle = g.idle /\ q.active = g.active
       /\ q.activeFrom = g.activeFrom /\ q.idleFrom = g.idleFrom
  BY <1>3, <1>12 DEF PowerStats
<1> HIDE DEF q
<1>14. ~\E x \in ends' : x.cmd = "REFab" /\ x.path[1] = r
  BY <1>2, <1>4
<1>15. \A d \in Banks : d[1] = r /\ (\E x \in ends' : x.path = d) => bank'[d].st = "refreshing"
  BY <1>2, <1>4, <1>5
<1> HIDE DEF r
<1>16. Balanced(D, Banks, hist', bank', ends', q, r)
  BY <1>2, <1>9, <1>12, <1>13, <1>14, <1>15 DEF Balanced
<1> QED
  BY <1>16 DEF q, r

(* A stray PRE that does not mislead the power functions changes nothing   *)
(* but a count.                                                            *)
LEMMA StrayBalanced ==
    ASSUME DeviceInv, PowerInv, D.powers # {},
           NEW type \in DOMAIN D.requests, NEW b \in Banks, NEW row \in Nat,
           NEW c \in Issuable(D), NEW t \in Nat, Issued(type, b, row, c, t), c = "PRE",
           b[1] \notin misled', bank[b].st # "opened"
    PROVE  Balanced(D, Banks, hist', bank', ends', PowerAfter(c, b[1], t), b[1])
<1> DEFINE r == b[1]
           p == power[r]
           q == PowerAfter(c, r, t)
<1>1. HistoryTypeOK /\ dut \in Catalogue /\ r \in Ranks
  BY DEF DeviceInv, HistoryTypeOK, Ranks
<1>2. /\ r \notin misled
      /\ ~(Open(r) = 1 /\ Refreshing(r) = 0)
      /\ \A x \in ends : x.path # b
  BY DEF Issued, IssueCommand, Misleads, Astray
<1>3. p \in PowerStats /\ Balanced(D, Banks, hist, bank, ends, p, r)
  BY <1>1, <1>2 DEF PowerInv
<1>4. q = [p EXCEPT !.pres = @ + 1]
  <2>1. "PRE" \in D.powers
    BY <1>1, PowerTables
  <2> QED
    BY <1>2, <2>1 DEF PowerAfter
<1>5. /\ q.mode = p.mode /\ q.idle = p.idle /\ q.active = p.active
      /\ q.idleFrom = p.idleFrom /\ q.activeFrom = p.activeFrom
  <2> HIDE DEF p, q
  <2> QED
    BY <1>3, <1>4 DEF PowerStats
<1>6. Balanced(D, Banks, hist, bank, ends, q, r)
  <2> HIDE DEF p, q, r
  <2> QED
    BY <1>3, <1>5 DEF Balanced
<1>7. ends' = ends
  <2>1. c \notin DOMAIN D.ends
    BY <1>1, DutFacts DEF FitsTogether, Refreshes
  <2> QED
    BY <2>1, IssueIs
<1>8. /\ bank'[b].st = "closed"
      /\ \A x \in Banks : x # b => bank'[x] = bank[x]
  BY BanksAtIssue DEF RankWide, Syncs
<1>9. Cardinality(Begun(hist', r)) = Cardinality(Begun(hist, r))
  <2>1. hist' = Append(hist, Entry(type, b, row, c, t))
    BY IssueIs
  <2>2. Entry(type, b, row, c, t).cmd # "REFab"
    BY DEF Entry
  <2> QED
    BY <1>1, <2>1, <2>2, BegunGrows DEF HistoryTypeOK
<1>10. \A x \in Banks : x[1] = r => (bank'[x].st = "opened" <=> bank[x].st = "opened")
  BY <1>8
<1>11. \A x \in Banks : x[1] = r /\ (\E y \in ends : y.path = x) => bank'[x].st = "refreshing"
  BY <1>2, <1>3, <1>8 DEF Balanced
<1> HIDE DEF q, r
<1>12. Balanced(D, Banks, hist', bank', ends', q, r)
  BY <1>6, <1>7, <1>9, <1>10, <1>11, BalancedSame
<1> QED
  BY <1>12 DEF q, r

(* A rank's banks are closed.                                              *)
LEMMA PreaBalanced ==
    ASSUME DeviceInv, PowerInv, D.powers # {},
           NEW type \in DOMAIN D.requests, NEW b \in Banks, NEW row \in Nat,
           NEW c \in Issuable(D), NEW t \in Nat, Issued(type, b, row, c, t), c = "PREA",
           b[1] \notin misled
    PROVE  Balanced(D, Banks, hist', bank', ends', PowerAfter(c, b[1], t), b[1])
<1> DEFINE r == b[1]
           p == power[r]
           g == IF IsRankIdle(r) THEN p ELSE GoesIdle(p, t)
           q == PowerAfter(c, r, t)
           n == Open(r)
<1>1. HistoryTypeOK /\ dut \in Catalogue
  BY DEF DeviceInv, HistoryTypeOK
<1>2. /\ p \in PowerStats /\ Balanced(D, Banks, hist, bank, ends, p, r)
      /\ Spent(D, hist, r) \in Int /\ Spent(D, hist', r) = Spent(D, hist, r)
      /\ p.mode # "refreshing" /\ r \in Ranks
      /\ IsRankIdle(r) <=> p.mode = "idle"
  BY CountedIssue
<1>3. q = [g EXCEPT !.pres = @ + n]
  <2>1. "PREA" \in D.powers
    BY <1>1, PowerTables
  <2> QED
    BY <2>1 DEF PowerAfter
<1>4. ends' = ends
  <2>1. c \notin DOMAIN D.ends
    BY <1>1, DutFacts DEF FitsTogether, Refreshes
  <2> QED
    BY <2>1, IssueIs
<1>5. \A x \in Banks : x[1] = r => bank'[x].st = "closed"
  BY BanksAtIssue
<1>6. \A x \in ends : x.path[1] # r
  BY RankAtIssue DEF RankWide
<1>7. \A x \in ends' : x.path[1] # r
  BY <1>4, <1>6
<1>8. \A d \in Banks : d[1] = r => ~\E x \in ends' : x.path = d
  BY <1>7
<1>9. ~Uses(Banks, bank', ends', r)
  BY <1>5, <1>8 DEF Uses
<1>10. n \in Nat
  <2>1. n = Cardinality(BanksIn(Banks, bank, r, "opened"))
    BY DEF BanksIn, Open
  <2> QED
    BY <1>1, <2>1, BanksAreFinite
<1>11. /\ p.mode = "idle" => p.idle + p.active + Spent(D, hist, r) = p.idleFrom
       /\ p.mode = "active" => p.idle + p.active + Spent(D, hist, r) = p.activeFrom
  BY <1>2 DEF Balanced
<1>12. /\ p.idle \in Int /\ p.active \in Int /\ p.activeFrom \in Int
       /\ p.mode \in {"idle", "active"}
  BY <1>2 DEF PowerStats
<1> HIDE DEF n, p
<1>13. /\ g \in PowerStats /\ g.mode = "idle"
       /\ g.idle + g.active + Spent(D, hist, r) = g.idleFrom
  <2>1. CASE ~IsRankIdle(r)
    <3>1. /\ g \in PowerStats /\ g.mode = "idle"
          /\ g.active = p.active + t - p.activeFrom /\ g.idle = p.idle /\ g.idleFrom = t
      BY <1>2, <2>1, GoesAre
    <3> HIDE DEF g
    <3> QED
      BY <1>2, <1>11, <1>12, <2>1, <3>1
  <2>2. CASE IsRankIdle(r)
    BY <1>2, <1>11, <2>2
  <2> QED
    BY <2>1, <2>2
<1> HIDE DEF g
<1>14. q.mode = "idle" /\ q.idle = g.idle /\ q.active = g.active /\ q.idleFrom = g.idleFrom
  BY <1>3, <1>10, <1>13 DEF PowerStats
<1> HIDE DEF q
<1>15. ~\E x \in ends' : x.cmd = "REFab" /\ x.path[1] = r
  BY <1>7
<1> HIDE DEF r
<1>16. Balanced(D, Banks, hist', bank', ends', q, r)
  BY <1>2, <1>8, <1>9, <1>13, <1>14, <1>15 DEF Balanced
<1> QED
  BY <1>16 DEF q, r

(* A rank is refreshed.                                                    *)
LEMMA RefreshBalanced ==
    ASSUME DeviceInv, PowerInv, D.powers # {},
           NEW type \in DOMAIN D.requests, NEW b \in Banks, NEW row \in Nat,
           NEW c \in Issuable(D), NEW t \in Nat, Issued(type, b, row, c, t), c = "REFab",
           b[1] \notin misled
    PROVE  Balanced(D, Banks, hist', bank', ends', PowerAfter(c, b[1], t), b[1])
<1> DEFINE r == b[1]
           p == power[r]
           q == PowerAfter(c, r, t)
           w == D.ends["REFab"] - 1
           new == [cmd |-> c, path |-> Path(c, b), at |-> t + D.ends[c] - 1]
<1>1. HistoryTypeOK /\ dut \in Catalogue /\ Banks \subseteq Bank3
  BY DutFacts DEF DeviceInv, HistoryTypeOK
<1>2. /\ p \in PowerStats /\ Balanced(D, Banks, hist, bank, ends, p, r)
      /\ Spent(D, hist, r) \in Int /\ Spent(D, hist', r) = Spent(D, hist, r) + w
      /\ p.mode # "refreshing"
      /\ IsRankIdle(r) <=> p.mode = "idle"
  BY CountedIssue
<1>3. c \in D.powers /\ c \in DOMAIN D.ends /\ w \in Int /\ D.ends[c] \in Int
  BY <1>1, PowerTables DEF Refreshes
<1>4. q = [p EXCEPT !.idle = @ + t - p.idleFrom, !.mode = "refreshing"]
  BY <1>3 DEF PowerAfter
<1>5. ends' = ends \cup {new} /\ new.path = <<r>> /\ new.cmd = "REFab" /\ new.at = t + w
  <2>1. Path(c, b) = <<r>>
    BY RankAtIssue DEF RankWide
  <2>2. ends' = ends \cup {new}
    BY <1>3, IssueIs
  <2> QED
    BY <1>3, <2>1, <2>2
<1>6. \A x \in Banks : x[1] = r => bank'[x].st # "opened" /\ bank[x].st # "opened"
  BY RankAtIssue, BanksAtIssue DEF RankWide, Refreshes
<1>7. \A x \in ends : x.path[1] # r
  BY RankAtIssue DEF RankWide
<1>8. ~Uses(Banks, bank, ends, r)
  BY <1>6, <1>7 DEF Uses
<1>9. \A x \in Banks : x[1] = r => ~\E y \in ends' : y.path = x
  <2>1. \A x \in Banks : x # <<r>>
    <3>1. \A x \in Banks : Len(x) = 3
      BY <1>1, BankParts
    <3> QED
      BY <3>1
  <2> QED
    BY <1>5, <1>7, <2>1
<1>10. ~Uses(Banks, bank', ends', r)
  BY <1>6, <1>9 DEF Uses
<1>11. p.mode = "idle"
  BY <1>2, <1>8 DEF Balanced, PowerStats
<1>12. p.idle + p.active + Spent(D, hist, r) = p.idleFrom
  BY <1>2, <1>11 DEF Balanced
<1>13. p.idle \in Int /\ p.active \in Int /\ p.idleFrom \in Int
  BY <1>2 DEF PowerStats
<1> HIDE DEF p, w
<1>14. /\ q.mode = "refreshing"
       /\ q.idle = p.idle + t - p.idleFrom /\ q.active = p.active
  <2> DEFINE x == p.idle + t - p.idleFrom
             p1 == [p EXCEPT !.idle = x]
             p2 == [p1 EXCEPT !.mode = "refreshing"]
  <2>1. q = p2 /\ x \in Int
    BY <1>4, <1>13
  <2> HIDE DEF x, q
  <2>2. p1 \in PowerStats /\ p1.idle = x /\ p1.active = p.active
    BY <1>2, <2>1 DEF PowerStats
  <2> HIDE DEF p1
  <2>3. p2.mode = "refreshing" /\ p2.idle = p1.idle /\ p2.active = p1.active
    BY <2>2 DEF PowerStats
  <2> HIDE DEF p2
  <2> QED
    BY <2>1, <2>2, <2>3 DEF x
<1> HIDE DEF q
<1>15. q.idle + q.active + Spent(D, hist', r) = t + w
  BY <1>2, <1>3, <1>12, <1>13, <1>14
<1>16. \A x \in ends' : x.path[1] = r => x = new
  BY <1>5, <1>7
<1>17. new \in ends' /\ new.path[1] = r
  BY <1>5
<1> HIDE DEF new, r
<1>18. Balanced(D, Banks, hist', bank', ends', q, r)
  <2>1. q.mode = "refreshing" /\ \E x \in ends' : x.cmd = "REFab" /\ x.path[1] = r
    BY <1>5, <1>14, <1>17
  <2>2. \A x \in ends' : x.path[1] = r => q.idle + q.active + Spent(D, hist', r) = x.at
    BY <1>5, <1>15, <1>16
  <2> QED
    BY <1>9, <1>10, <2>1, <2>2 DEF Balanced
<1> QED
  BY <1>18 DEF q, r

LEMMA IssueKeepsBooks ==
    ASSUME DeviceInv, PowerInv,
           NEW type \in DOMAIN D.requests, NEW b \in Banks, NEW row \in Nat,
           NEW c \in Issuable(D), NEW t \in Nat, Issued(type, b, row, c, t)
    PROVE  PowerInv'
<1>1. HistoryTypeOK /\ dut \in Catalogue /\ Banks \subseteq Bank3
  BY DutFacts DEF DeviceInv, HistoryTypeOK
<1>2. dut' = dut /\ D' = D /\ Banks' = Banks /\ Ranks' = Ranks
  BY IssueIs
<1>3. power' = [r \in Ranks |-> IF Agree(Path(c, b), <<r>>, 1) THEN PowerAfter(c, r, t)
                                ELSE power[r]]
  BY DEF Issued, IssueCommand
<1>4. \A r \in Ranks : Agree(Path(c, b), <<r>>, 1) <=> r = b[1]
  <2> TAKE r \in Ranks
  <2>1. <<r>> \in Nodes3 /\ <<r>>[1] = r
    BY <1>1, RanksAre DEF Nodes3
  <2>2. Path(c, b) \in Nodes3 /\ Path(c, b)[1] = b[1]
    BY <1>1, PathIs
  <2> DEFINE x == Path(c, b)
             y == <<r>>
  <2>3. x \in Nodes3 /\ y \in Nodes3 /\ x[1] = b[1] /\ y[1] = r
    BY <2>1, <2>2
  <2> HIDE DEF x, y
  <2>4. Agree(x, y, 1) <=> x[1] = y[1]
    BY <2>3, AgreeNodes
  <2> QED
    BY <2>3, <2>4 DEF x, y
<1>5. \A r \in Ranks : power'[r] = IF r = b[1] THEN PowerAfter(c, r, t) ELSE power[r]
  BY <1>3, <1>4
<1>6. power \in [Ranks -> PowerStats] /\ strays \in [Ranks -> Int] /\ b[1] \in Ranks
  BY DEF PowerInv, Ranks
<1>7. /\ strays' \in [Ranks -> Int]
      /\ \A r \in Ranks : r # b[1] => strays'[r] = strays[r]
      /\ misled' = misled \/ misled' = misled \cup {b[1]}
  <2>1. /\ strays' = strays \/ strays' = [strays EXCEPT ![b[1]] = @ + 1]
        /\ misled' = misled \/ misled' = misled \cup {b[1]}
    BY DEF Issued, IssueCommand
  <2>2. strays[b[1]] + 1 \in Int
    BY <1>6
  <2> QED
    BY <1>6, <2>1, <2>2
<1>8. CASE D.powers = {}
  <2>1. \A r \in Ranks : PowerAfter(c, r, t) = power[r]
    BY <1>8 DEF PowerAfter
  <2>2. power' \in [Ranks -> PowerStats]
    BY <1>3, <1>6, <2>1
  <2> QED
    BY <1>2, <1>7, <1>8, <2>2 DEF PowerInv
<1>9. CASE D.powers # {}
  <2>1. /\ PowerAfter(c, b[1], t) \in PowerStats
        /\ Counted(Banks, bank', PowerAfter(c, b[1], t), b[1], strays'[b[1]])
    BY <1>9, CountsAtIssue
  <2>2. ASSUME b[1] \notin misled'
        PROVE  Balanced(D, Banks, hist', bank', ends', PowerAfter(c, b[1], t), b[1])
    <3>1. b[1] \notin misled
      BY <1>7, <2>2
    <3>2. CASE c \notin D.powers
      <4>1. PowerAfter(c, b[1], t) = power[b[1]]
        BY <3>2 DEF PowerAfter
      <4>2. Balanced(D, Banks, hist, bank, ends, power[b[1]], b[1])
        BY <1>6, <1>9, <3>1 DEF PowerInv
      <4> QED
        BY <1>9, <3>2, <4>1, <4>2, UncountedBalanced
    <3>3. c \in D.powers => c \in {"ACT", "PRE", "PREA", "REFab", "VRR", "RVRR"}
      BY <1>1, <1>9, PowerTables
    <3>4. CASE c = "PRE"
      BY <1>9, <2>2, <3>1, <3>4, PreBalanced, StrayBalanced
    <3> QED
      BY <1>9, <3>1, <3>2, <3>3, <3>4, ActBalanced, VictimBalanced, PreaBalanced, RefreshBalanced
  <2>3. ASSUME NEW r \in Ranks, r # b[1]
        PROVE  /\ Counted(Banks, bank', power[r], r, strays'[r])
               /\ r \notin misled' => Balanced(D, Banks, hist', bank', ends', power[r], r)
    <3>1. /\ Counted(Banks, bank, power[r], r, strays[r])
          /\ r \notin misled => Balanced(D, Banks, hist, bank, ends, power[r], r)
      BY <1>9 DEF PowerInv
    <3>2. strays'[r] = strays[r] /\ (r \notin misled' => r \notin misled)
      BY <1>7, <2>3
    <3>3. BanksIn(Banks, bank', r, "opened") = BanksIn(Banks, bank, r, "opened")
      <4>1. \A x \in Banks : x[1] = r => bank'[x] = bank[x]
        BY <1>9, <2>3, BanksAtIssue
      <4> QED
        BY <4>1 DEF BanksIn
    <3>4. Counted(Banks, bank', power[r], r, strays'[r])
      BY <3>1, <3>2, <3>3 DEF Counted
    <3> QED
      BY <1>9, <2>3, <3>1, <3>2, <3>4, OtherRankBalanced
  <2>4. \A r \in Ranks :
          /\ Counted(Banks, bank', power'[r], r, strays'[r])
          /\ r \notin misled' => Balanced(D, Banks, hist', bank', ends', power'[r], r)
    <3> TAKE r \in Ranks
    <3>1. power'[r] = IF r = b[1] THEN PowerAfter(c, r, t) ELSE power[r]
      BY <1>5
    <3> QED
      BY <2>1, <2>2, <2>3, <3>1
  <2>5. power' \in [Ranks -> PowerStats]
    BY <1>3, <1>5, <1>6, <2>1
  <2> QED
    BY <1>2, <1>7, <2>4, <2>5 DEF PowerInv
<1> QED
  BY <1>8, <1>9

(* The end of a refresh, of its own rank's books.                          *)
LEMMA EndBalanced ==
    ASSUME DeviceInv, PowerInv, D.powers # {}, NEW e \in ends, NEW r \in Ranks, e.path[1] = r,
           r \notin misled, ends' = ends \ {e}, hist' = hist,
           \A d \in Banks : bank'[d] = IF Agree(e.path, d, 3) THEN [bank[d] EXCEPT !.st = "closed"]
                                       ELSE bank[d]
    PROVE  Balanced(D, Banks, hist', bank', ends', PowerAfterEnd(e, r), r)
<1> DEFINE p == power[r]
           q == PowerAfterEnd(e, r)
<1>1. /\ HistoryTypeOK /\ dut \in Catalogue /\ Banks \subseteq Bank3
      /\ NodesOver(Banks) \in SUBSET Nodes3
  BY DutFacts, NodesOverBanks DEF DeviceInv, HistoryTypeOK
<1>2. /\ p \in PowerStats /\ Balanced(D, Banks, hist, bank, ends, p, r)
      /\ Spent(D, hist, r) \in Int /\ Spent(D, hist', r) = Spent(D, hist, r)
  BY <1>1, SpentGrows DEF PowerInv
<1>3. /\ e.path \in NodesOver(Banks) /\ e.path \in Nodes3 /\ e.at \in Nat /\ e.cmd \in Refreshes
      /\ Len(e.path) = IF e.cmd \in RankWide THEN 1 ELSE 3
  <2>1. PICK i \in DOMAIN hist : hist[i].cmd = e.cmd /\ hist[i].path = e.path
    BY DEF DeviceInv, EndsStand
  <2>2. Len(e.path) = D.scope[e.cmd] /\ e.cmd \in Issuable(D)
    BY <1>1, <2>1, EntryFacts DEF DeviceInv, Asked
  <2>3. D.scope[e.cmd] = IF e.cmd \in RankWide THEN 1 ELSE 3
    BY <1>1, <2>2, DutFacts DEF FitsTogether
  <2>4. e.path \in NodesOver(Banks) /\ e.path \in Nodes3 /\ e.at \in Nat /\ e.cmd \in Refreshes
    BY <1>1 DEF HistoryTypeOK, Pending
  <2> QED
    BY <2>2, <2>3, <2>4
<1>4. \A d \in Banks : /\ Agree(e.path, d, 3) => bank[d].st # "opened" /\ bank'[d].st = "closed"
                       /\ ~Agree(e.path, d, 3) => bank'[d] = bank[d]
  <2> TAKE d \in Banks
  <2>1. bank[d] \in BankStates
    BY <1>1 DEF HistoryTypeOK
  <2>2. [bank[d] EXCEPT !.st = "closed"].st = "closed"
    BY <2>1 DEF BankStates
  <2>3. Agree(e.path, d, 3) => bank[d].st # "opened"
    BY DEF DeviceInv, EndsStand
  <2> QED
    BY <2>2, <2>3
<1>5. \A d \in Banks : bank'[d].st = "opened" <=> bank[d].st = "opened"
  BY <1>4
<1>6. \A d \in Banks : d[1] = r /\ (\E x \in ends : x.path = d) => bank[d].st = "refreshing"
  BY <1>2 DEF Balanced
<1>7. \A d \in Banks : d[1] = r /\ (\E x \in ends' : x.path = d) => bank'[d].st = "refreshing"
  <2> SUFFICES ASSUME NEW d \in Banks, d[1] = r, NEW x \in ends', x.path = d
               PROVE  bank'[d].st = "refreshing"
    OBVIOUS
  <2>1. x \in ends /\ x # e
    OBVIOUS
  <2>2. d \in Bank3 /\ Agree(d, d, 3)
    BY <1>1, AgreeOverBank, BankParts
  <2>3. ~Agree(e.path, d, 3)
    BY <2>1, <2>2, EndsApart
  <2> QED
    BY <1>4, <1>6, <2>1, <2>3
<1>8. CASE e.cmd \in RankWide
  <2>1. Len(e.path) = 1 /\ e.path = <<r>>
    BY <1>3, <1>8, NodeParts
  <2>2. \A d \in Banks : d[1] = r => Agree(e.path, d, 3)
    BY <1>1, <1>3, <2>1, NodeOverBank
  <2>3. \A d \in Banks : d[1] = r => bank[d].st # "opened" /\ bank'[d].st # "opened"
    BY <1>4, <2>2
  <2>4. ASSUME NEW x \in ends, x.path[1] = r
        PROVE  x = e
    <3>1. x.path \in NodesOver(Banks) /\ x.path \in Nodes3
      BY <1>1 DEF HistoryTypeOK, Pending
    <3>2. PICK d \in Banks : d[1] = r /\ Agree(x.path, d, 3)
      <4>1. CASE Len(x.path) = 1
        <5>1. PICK d \in Banks : d[1] = r
          BY <1>1, RanksAre
        <5> QED
          BY <1>1, <2>4, <3>1, <4>1, <5>1, NodeOverBank
      <4>2. CASE Len(x.path) # 1
        <5>1. x.path \in Banks
          BY <3>1, <4>2 DEF NodesOver
        <5>2. Agree(x.path, x.path, 3)
          BY <1>1, <5>1, AgreeOverBank, BankParts
        <5> QED
          BY <2>4, <5>1, <5>2
      <4> QED
        BY <4>1, <4>2
    <3> QED
      BY <2>2, <3>2, EndsApart
  <2>5. \A x \in ends' : x.path[1] # r
    BY <2>4
  <2>6. \A d \in Banks : Len(d) = 3
    BY <1>1, BankParts
  <2>7. ~Uses(Banks, bank, ends, r)
    <3> SUFFICES ASSUME NEW d \in Banks, d[1] = r, NEW x \in ends, x.path = d PROVE FALSE
      BY <2>3 DEF Uses
    <3>1. x = e
      BY <2>4
    <3> QED
      BY <2>1, <2>6, <3>1
  <2>8. ~Uses(Banks, bank', ends', r)
    BY <2>3, <2>5 DEF Uses
  <2>9. CASE e.cmd = "REFab"
    <3>1. p.mode = "refreshing"
      BY <1>2, <2>9 DEF Balanced
    <3>2. p.idle + p.active + Spent(D, hist, r) = e.at
      BY <1>2, <2>9, <3>1 DEF Balanced
    <3>3. q = [p EXCEPT !.idleFrom = e.at, !.mode = "idle"]
      BY <2>9 DEF PowerAfterEnd
    <3> HIDE DEF p
    <3>4. q.mode = "idle" /\ q.idleFrom = e.at /\ q.idle = p.idle /\ q.active = p.active
      BY <1>2, <3>3 DEF PowerStats
    <3> HIDE DEF q
    <3>5. Balanced(D, Banks, hist', bank', ends', q, r)
      BY <1>2, <1>7, <2>5, <2>8, <3>2, <3>4 DEF Balanced
    <3> QED
      BY <3>5 DEF q
  <2>10. CASE e.cmd # "REFab"
    <3>1. q = p
      BY <1>3, <1>8, <2>10 DEF PowerAfterEnd, Refreshes, RankWide, Syncs
    <3>2. p.mode = "idle"
      BY <1>2, <2>4, <2>7, <2>10 DEF Balanced, PowerStats
    <3>3. p.idle + p.active + Spent(D, hist, r) = p.idleFrom
      BY <1>2, <3>2 DEF Balanced
    <3> HIDE DEF p
    <3>4. Balanced(D, Banks, hist', bank', ends', p, r)
      BY <1>2, <1>7, <2>5, <2>8, <3>2, <3>3 DEF Balanced
    <3> QED
      BY <3>1, <3>4
  <2> QED
    BY <2>9, <2>10
<1>9. CASE e.cmd \notin RankWide
  <2>1. e.path \in Banks /\ e.cmd \in {"VRR", "RVRR"}
    BY <1>3, <1>9 DEF NodesOver, RankWide, Refreshes
  <2> DEFINE b == e.path
  <2>2. b \in Bank3 /\ b[1] = r /\ Agree(b, b, 3)
    <3>1. b \in Bank3 /\ b[1] = r
      BY <1>1, <2>1
    <3> HIDE DEF b
    <3>2. b \in Nodes3
      BY <3>1, BankParts
    <3>3. Agree(b, b, 3)
      BY <3>1, <3>2, AgreeOverBank
    <3> QED
      BY <3>1, <3>3
  <2>3. \A x \in ends : x.path[1] = r => x.path \in Banks
    <3> SUFFICES ASSUME NEW x \in ends, x.path[1] = r, x.path \notin Banks PROVE FALSE
      OBVIOUS
    <3>1. x.path \in NodesOver(Banks) /\ x.path \in Nodes3
      BY <1>1 DEF HistoryTypeOK, Pending
    <3>2. PICK d \in Banks : x.path = <<d[1]>>
      BY <3>1 DEF NodesOver
    <3>3. Len(x.path) = 1
      BY <3>2
    <3>4. Agree(x.path, b, 3)
      BY <2>2, <3>1, <3>3, NodeOverBank
    <3>5. x = e
      BY <2>1, <2>2, <3>4, EndsApart
    <3> QED
      BY <2>1, <3>5
  <2>4. \A d \in Banks : (\E x \in ends' : x.path = d) <=> d # b /\ \E x \in ends : x.path = d
    <3>1. \A x \in ends : x.path = b => x = e
      BY <2>1, <2>2, EndsApart
    <3> QED
      BY <3>1
  <2>5. ~\E x \in ends : x.cmd = "REFab" /\ x.path[1] = r
    <3> SUFFICES ASSUME NEW x \in ends, x.cmd = "REFab", x.path[1] = r PROVE FALSE
      OBVIOUS
    <3>1. x.path \in Banks
      BY <2>3
    <3>2. Len(x.path) = 3
      BY <1>1, <3>1, BankParts
    <3>3. PICK i \in DOMAIN hist : hist[i].cmd = x.cmd /\ hist[i].path = x.path
      BY DEF DeviceInv, EndsStand
    <3>4. Len(x.path) = D.scope[x.cmd] /\ x.cmd \in Issuable(D)
      BY <1>1, <3>3, EntryFacts DEF DeviceInv, Asked
    <3>5. D.scope[x.cmd] = IF x.cmd \in RankWide THEN 1 ELSE 3
      BY <1>1, <3>4, DutFacts DEF FitsTogether
    <3> QED
      BY <3>2, <3>4, <3>5 DEF RankWide
  <2>6. Uses(Banks, bank, ends, r)
    BY <2>1, <2>2 DEF Uses
  <2>7. p.mode = "active" /\ p.idle + p.active + Spent(D, hist, r) = p.activeFrom
    BY <1>2, <2>6 DEF Balanced
  <2> DEFINE last == Open(r) = 0 /\ Refreshing(r) = 1
  <2>8. q = IF last THEN GoesIdle(p, e.at) ELSE p
    BY <2>1 DEF PowerAfterEnd
  <2>9. last <=> ~Uses(Banks, bank', ends', r)
    <3> DEFINE S == BanksIn(Banks, bank, r, "refreshing")
    <3>1. /\ Open(r) = 0 <=> \A d \in Banks : d[1] = r => bank[d].st # "opened"
          /\ Refreshing(r) = Cardinality(S)
      BY <1>6, <2>3, QuietRank
    <3>2. \A d \in Banks : d[1] = r => (bank[d].st = "refreshing" <=> \E x \in ends : x.path = d)
      <4> TAKE d \in Banks
      <4>1. d \in Bank3 /\ Agree(d, d, 3)
        BY <1>1, AgreeOverBank, BankParts
      <4>2. ASSUME NEW x \in ends, x.path = d
            PROVE  d[1] = r => bank[d].st = "refreshing"
        BY <1>6, <4>2
      <4>3. ASSUME d[1] = r, bank[d].st = "refreshing"
            PROVE  \E x \in ends : x.path = d
        <5>1. PICK x \in ends : Agree(x.path, d, 3)
          BY <4>3 DEF DeviceInv, BanksStand
        <5>2. x.path \in Nodes3
          BY <1>1 DEF HistoryTypeOK, Pending
        <5>3. x.path[1] = r
          BY <4>1, <4>3, <5>1, <5>2, NodeOverBank
        <5>4. Len(x.path) = 3
          BY <1>1, <2>3, <5>3, BankParts
        <5>5. x.path = d
          BY <4>1, <5>1, <5>2, <5>4, NodeOverBank
        <5> QED
          BY <5>5
      <4> QED
        BY <4>2, <4>3
    <3>3. S = {d \in Banks : d[1] = r /\ \E x \in ends : x.path = d}
      BY <3>2 DEF BanksIn
    <3>4. b \in S
      BY <2>1, <2>2, <3>3
    <3>5. S \ {b} = {d \in Banks : d[1] = r /\ \E x \in ends' : x.path = d}
      BY <2>4, <3>3
    <3>6. IsFiniteSet(S)
      BY <1>1, BanksAreFinite
    <3>7. Uses(Banks, bank', ends', r) <=>
            \/ \E d \in Banks : d[1] = r /\ bank[d].st = "opened"
            \/ S \ {b} # {}
      BY <1>5, <3>5 DEF Uses
    <3> HIDE DEF S
    <3>8. /\ Cardinality(S \ {b}) = Cardinality(S) - 1 /\ Cardinality(S) \in Nat
          /\ Cardinality(S \ {b}) = 0 <=> S \ {b} = {}
      BY <3>4, <3>6, FS_RemoveElement, FS_CardinalityType, FS_EmptySet
    <3> QED
      BY <3>1, <3>7, <3>8
  <2> HIDE DEF last, p
  <2>10. /\ q.mode = IF last THEN "idle" ELSE "active"
         /\ last => q.idle + q.active + Spent(D, hist, r) = q.idleFrom
         /\ ~last => q.idle + q.active + Spent(D, hist, r) = q.activeFrom
    <3>1. CASE last
      <4>1. /\ q.mode = "idle"
            /\ q.active = p.active + e.at - p.activeFrom /\ q.idle = p.idle /\ q.idleFrom = e.at
        <5>1. p \in PowerStats /\ e.at \in Int
          BY <1>2, <1>3
        <5>2. q = GoesIdle(p, e.at)
          BY <2>8, <3>1
        <5> HIDE DEF p, q
        <5> QED
          BY <5>1, <5>2, GoesAre
      <4>2. /\ p.idle \in Int /\ p.active \in Int /\ p.activeFrom \in Int
        BY <1>2 DEF PowerStats
      <4> HIDE DEF q
      <4> DEFINE now2 == e.at
      <4>3. now2 \in Nat /\ q.active = p.active + now2 - p.activeFrom /\ q.idleFrom = now2
        BY <1>3, <4>1
      <4> HIDE DEF now2
      <4> QED
        BY <1>2, <2>7, <3>1, <4>1, <4>2, <4>3
    <3>2. CASE ~last
      BY <1>2, <2>7, <2>8, <3>2
    <3> QED
      BY <3>1, <3>2
  <2> HIDE DEF q
  <2>11. ~\E x \in ends' : x.cmd = "REFab" /\ x.path[1] = r
    BY <2>5
  <2>12. Balanced(D, Banks, hist', bank', ends', q, r)
    BY <1>2, <1>7, <2>9, <2>10, <2>11 DEF Balanced
  <2> QED
    BY <2>12 DEF q
<1> QED
  BY <1>8, <1>9

LEMMA EndKeepsBooks ==
    ASSUME DeviceInv, PowerInv, EndRefresh
    PROVE  PowerInv'
<1>1. PICK e \in ends :
        /\ ends' = ends \ {e}
        /\ power' = [r \in Ranks |-> IF Agree(e.path, <<r>>, 1) THEN PowerAfterEnd(e, r)
                                     ELSE power[r]]
        /\ bank' = [d \in Banks |-> IF Agree(e.path, d, 3) THEN [bank[d] EXCEPT !.st = "closed"]
                                    ELSE bank[d]]
        /\ dut' = dut /\ hist' = hist /\ strays' = strays /\ misled' = misled
  BY DEF EndRefresh, Below
<1>2. D' = D /\ Banks' = Banks /\ Ranks' = Ranks
  BY <1>1 DEF D, Banks, Targets, Ranks
<1>3. /\ HistoryTypeOK /\ dut \in Catalogue /\ Banks \subseteq Bank3
      /\ NodesOver(Banks) \in SUBSET Nodes3
  BY DutFacts, NodesOverBanks DEF DeviceInv, HistoryTypeOK
<1>4. e.path \in Nodes3 /\ e.at \in Nat /\ e.cmd \in Refreshes
  BY <1>3 DEF HistoryTypeOK, Pending
<1>5. \A r \in Ranks : Agree(e.path, <<r>>, 1) <=> e.path[1] = r
  <2> TAKE r \in Ranks
  <2> DEFINE x == e.path
             y == <<r>>
  <2>1. x \in Nodes3 /\ y \in Nodes3 /\ y[1] = r
    BY <1>3, <1>4, RanksAre DEF Nodes3
  <2> HIDE DEF x, y
  <2>2. Agree(x, y, 1) <=> x[1] = y[1]
    BY <2>1, AgreeNodes
  <2> QED
    BY <2>1, <2>2 DEF x, y
<1>6. \A r \in Ranks : power'[r] = IF e.path[1] = r THEN PowerAfterEnd(e, r) ELSE power[r]
  BY <1>1, <1>5
<1>7. \A r \in Ranks : power[r] \in PowerStats
  BY DEF PowerInv
<1>8. \A r \in Ranks : /\ power'[r] \in PowerStats
                         /\ power'[r].acts = power[r].acts /\ power'[r].pres = power[r].pres
  <2>1. ASSUME NEW r \in Ranks
        PROVE  /\ PowerAfterEnd(e, r) \in PowerStats
               /\ PowerAfterEnd(e, r).acts = power[r].acts
               /\ PowerAfterEnd(e, r).pres = power[r].pres
    <3> DEFINE p == power[r]
               at == e.at
    <3>1. p \in PowerStats /\ at \in Int
      BY <1>4, <1>7
    <3> HIDE DEF p, at
    <3> DEFINE p1 == [p EXCEPT !.idleFrom = at]
               p2 == [p1 EXCEPT !.mode = "idle"]
    <3>2. p2 \in PowerStats /\ p2.acts = p.acts /\ p2.pres = p.pres
      <4>1. p1 \in PowerStats /\ p1.acts = p.acts /\ p1.pres = p.pres
        BY <3>1 DEF PowerStats
      <4> HIDE DEF p1
      <4> QED
        BY <4>1 DEF PowerStats
    <3>3. LET g == GoesIdle(p, at)
          IN  g \in PowerStats /\ g.acts = p.acts /\ g.pres = p.pres
      BY <3>1, GoesAre
    <3>4. PowerAfterEnd(e, r) \in {p, p2, GoesIdle(p, at)}
      BY DEF PowerAfterEnd, p, at
    <3> HIDE DEF p2
    <3> QED
      BY <3>1, <3>2, <3>3, <3>4 DEF p
  <2> QED
    BY <1>6, <1>7, <2>1
<1>9. power' \in [Ranks -> PowerStats]
  BY <1>1, <1>8
<1>10. ASSUME D.powers # {}, NEW r \in Ranks
       PROVE  Counted(Banks, bank', power'[r], r, strays'[r])
  <2>1. Counted(Banks, bank, power[r], r, strays[r])
    BY <1>10 DEF PowerInv
  <2>2. \A d \in Banks : bank'[d].st = "opened" <=> bank[d].st = "opened"
    <3> TAKE d \in Banks
    <3>1. bank[d] \in BankStates
      BY <1>3 DEF HistoryTypeOK
    <3>2. [bank[d] EXCEPT !.st = "closed"].st = "closed"
      BY <3>1 DEF BankStates
    <3>3. Agree(e.path, d, 3) => bank[d].st # "opened"
      BY DEF DeviceInv, EndsStand
    <3> QED
      BY <1>1, <3>2, <3>3
  <2>3. BanksIn(Banks, bank', r, "opened") = BanksIn(Banks, bank, r, "opened")
    BY <2>2 DEF BanksIn
  <2> QED
    BY <1>1, <1>8, <2>1, <2>3 DEF Counted
<1>11. ASSUME D.powers # {}, NEW r \in Ranks, r \notin misled
       PROVE  Balanced(D, Banks, hist', bank', ends', power'[r], r)
  <2>1. \A d \in Banks : bank'[d] = IF Agree(e.path, d, 3) THEN [bank[d] EXCEPT !.st = "closed"]
                                    ELSE bank[d]
    BY <1>1
  <2>2. CASE e.path[1] = r
    <3>1. Balanced(D, Banks, hist', bank', ends', PowerAfterEnd(e, r), r)
      BY <1>1, <1>11, <2>1, <2>2, EndBalanced
    <3> QED
      BY <1>6, <2>2, <3>1
  <2>3. CASE e.path[1] # r
    <3>1. \A d \in Banks : d[1] = r => bank'[d] = bank[d]
      BY <1>3, <1>4, <2>1, <2>3, NodeOverBank
    <3>2. \A y : y.path[1] = r => (y \in ends' <=> y \in ends)
      BY <1>1, <2>3
    <3>3. \A x \in Banks : x[1] = r => ((\E y \in ends' : y.path = x) <=> \E y \in ends : y.path = x)
      BY <3>2
    <3>4. Balanced(D, Banks, hist, bank, ends, power[r], r)
      BY <1>11 DEF PowerInv
    <3>5. Cardinality(Begun(hist', r)) = Cardinality(Begun(hist, r))
      BY <1>1
    <3>6. \A x \in Banks : x[1] = r /\ (\E y \in ends : y.path = x) => bank'[x].st = "refreshing"
      BY <3>1, <3>4 DEF Balanced
    <3>7. Balanced(D, Banks, hist', bank', ends', power[r], r)
      BY <3>1, <3>2, <3>3, <3>4, <3>5, <3>6, BalancedSame
    <3> QED
      BY <1>6, <2>3, <3>7
  <2> QED
    BY <2>2, <2>3
<1> QED
  BY <1>1, <1>2, <1>9, <1>10, <1>11 DEF PowerInv

(* What is not over stays pending until its end.                           *)
LEMMA OutstandingKept ==
    ASSUME DeviceInv, [Next]_vars, Outstanding(D, hist, ends, now)
    PROVE  Outstanding(D, hist, ends, now)'
<1>1. /\ HistoryTypeOK /\ Times /\ dut \in Catalogue /\ now \in Nat
      /\ hist \in Seq(Entries(D, Banks))
  BY DEF DeviceInv, HistoryTypeOK
<1> DEFINE w == D.ends["REFab"]
           over == "REFab" \in DOMAIN D.ends
<1>2. \A i \in DOMAIN hist : hist[i].cmd = "REFab" /\ over => hist[i].at + w - 1 \in Int
  <2> SUFFICES ASSUME NEW i \in DOMAIN hist, hist[i].cmd = "REFab", over
               PROVE  hist[i].at + w - 1 \in Int
    OBVIOUS
  <2>1. hist[i].at \in Nat /\ "REFab" \in Issuable(D)
    BY <1>1, EntryFacts
  <2>2. w \in Nat
    BY <1>1, <2>1, CyclesAreNumbers DEF Refreshes
  <2> HIDE DEF w
  <2> QED
    BY <2>1, <2>2
<1>3. CASE EndRefresh
  <2>1. PICK e \in ends :
          ends' = ends \ {e} /\ dut' = dut /\ hist' = hist /\ now' = e.at
    BY <1>3 DEF EndRefresh
  <2>2. D' = D
    BY <2>1 DEF D
  <2>3. e.at \in Nat /\ now <= e.at
    BY <1>1 DEF HistoryTypeOK, Pending, Times
  <2>4. ASSUME NEW i \in DOMAIN hist, hist[i].cmd = "REFab", over
        PROVE  \/ hist[i].at + w - 1 <= e.at
               \/ \E x \in ends' : x.cmd = "REFab" /\ x.path = hist[i].path
                                   /\ x.at = hist[i].at + w - 1
    <3> DEFINE v == hist[i].at + w - 1
               at == e.at
    <3>1. v \in Int /\ at \in Nat /\ now <= at
      BY <1>2, <2>3, <2>4
    <3>2. v <= now \/ \E x \in ends : x.cmd = "REFab" /\ x.path = hist[i].path /\ x.at = v
      BY <2>4 DEF Outstanding
    <3> HIDE DEF v
    <3>3. v <= at \/ \E x \in ends' : x.cmd = "REFab" /\ x.path = hist[i].path /\ x.at = v
      <4>1. CASE v <= now
        BY <1>1, <3>1, <4>1
      <4>2. CASE \E x \in ends : x.cmd = "REFab" /\ x.path = hist[i].path /\ x.at = v
        <5>1. PICK x \in ends : x.cmd = "REFab" /\ x.path = hist[i].path /\ x.at = v
          BY <4>2
        <5>2. CASE x = e
          BY <3>1, <5>1, <5>2
        <5>3. CASE x # e
          BY <2>1, <5>1, <5>3
        <5> QED
          BY <5>2, <5>3
      <4> QED
        BY <3>2, <4>1, <4>2
    <3> QED
      BY <3>3 DEF v
  <2>5. Outstanding(D, hist', ends', now')
    BY <2>1, <2>4 DEF Outstanding
  <2> QED
    BY <2>2, <2>5
<1>4. CASE Next /\ ~EndRefresh
  <2>1. PICK type \in DOMAIN D.requests, b \in Banks, row \in Nat, c \in Issuable(D), t \in Nat :
          Issued(type, b, row, c, t)
    BY <1>1, <1>4, NextIssues
  <2>2. /\ D' = D /\ now' = t /\ now <= t
        /\ hist' = Append(hist, Entry(type, b, row, c, t))
        /\ ends' = ends \cup (IF c \in DOMAIN D.ends
                              THEN {[cmd |-> c, path |-> Path(c, b), at |-> t + D.ends[c] - 1]}
                              ELSE {})
    BY <2>1, IssueIs
  <2> DEFINE n == Len(hist)
             new == Entry(type, b, row, c, t)
             h2 == hist'
  <2>3. /\ n \in Nat /\ DOMAIN h2 = 1..(n + 1) /\ DOMAIN hist = 1..n
        /\ \A i \in 1..n : h2[i] = hist[i]
        /\ h2[n + 1] = new
    BY <1>1, <2>2, AppendIs
  <2> HIDE DEF n, h2
  <2>4. ASSUME NEW i \in DOMAIN h2, h2[i].cmd = "REFab", over
        PROVE  \/ h2[i].at + w - 1 <= t
               \/ \E x \in ends' : x.cmd = "REFab" /\ x.path = h2[i].path
                                   /\ x.at = h2[i].at + w - 1
    <3>1. CASE i = n + 1
      <4>1. c = "REFab" /\ h2[i].path = Path(c, b) /\ h2[i].at = t
        BY <2>3, <2>4, <3>1 DEF Entry
      <4>2. [cmd |-> c, path |-> Path(c, b), at |-> t + D.ends[c] - 1] \in ends'
        BY <2>2, <2>4, <4>1
      <4> QED
        BY <4>1, <4>2
    <3>2. CASE i # n + 1
      <4>1. i \in DOMAIN hist /\ h2[i] = hist[i]
        BY <2>3, <3>2
      <4> DEFINE v == hist[i].at + w - 1
      <4>2. v \in Int
        BY <1>2, <2>4, <4>1
      <4>3. v <= now \/ \E x \in ends : x.cmd = "REFab" /\ x.path = hist[i].path /\ x.at = v
        BY <2>4, <4>1 DEF Outstanding
      <4> HIDE DEF v
      <4>4. v <= t \/ \E x \in ends' : x.cmd = "REFab" /\ x.path = hist[i].path /\ x.at = v
        BY <1>1, <2>2, <4>2, <4>3
      <4> QED
        BY <4>1, <4>4 DEF v
    <3> QED
      BY <3>1, <3>2
  <2>5. Outstanding(D, hist', ends', now')
    BY <2>2, <2>4 DEF Outstanding, h2
  <2> QED
    BY <2>2, <2>5
<1>5. CASE UNCHANGED vars
  <2>1. hist' = hist /\ ends' = ends /\ now' = now /\ D' = D
    BY <1>5 DEF vars, D
  <2> QED
    BY <2>1
<1> QED
  BY <1>3, <1>4, <1>5

(* The books of a device with power functions are kept.                    *)
LEMMA BooksKept == Spec => [](PowerInv /\ Outstanding(D, hist, ends, now))
<1>1. Init => PowerInv /\ Outstanding(D, hist, ends, now)
  <2> SUFFICES ASSUME Init PROVE PowerInv /\ Outstanding(D, hist, ends, now)
    OBVIOUS
  <2>1. dut \in Catalogue /\ hist = <<>> /\ ends = {} /\ DOMAIN hist = {}
    BY DEF Init
  <2>2. Outstanding(D, hist, ends, now)
    BY <2>1 DEF Outstanding
  <2>3. \A b \in Banks : bank[b].st = "closed"
    BY DEF Init
  <2> DEFINE p0 == [mode |-> "idle", idle |-> 0, active |-> 0, idleFrom |-> 0,
                    activeFrom |-> -1, acts |-> 0, pres |-> 0]
  <2>4. power = [r \in Ranks |-> p0] /\ p0 \in PowerStats
    BY DEF Init, PowerStats
  <2>5. ASSUME D.powers # {}, NEW r \in Ranks
        PROVE  /\ Balanced(D, Banks, hist, bank, ends, power[r], r)
               /\ Counted(Banks, bank, power[r], r, strays[r])
    <3>1. power[r] = p0 /\ strays[r] = 0
      BY <2>4 DEF Init
    <3>2. Begun(hist, r) = {} /\ BanksIn(Banks, bank, r, "opened") = {}
      BY <2>1, <2>3 DEF Begun, BanksIn
    <3>3. /\ Cardinality(Begun(hist, r)) = 0
          /\ Cardinality(BanksIn(Banks, bank, r, "opened")) = 0
      BY <3>2, FS_EmptySet
    <3>4. D.ends["REFab"] \in Nat
      BY <2>1, <2>5, PowerTables
    <3> DEFINE w == D.ends["REFab"]
    <3>5. w \in Nat
      BY <3>4
    <3>6. Spent(D, hist, r) = 0
      <4>1. Spent(D, hist, r) = 0 * (w - 1)
        BY <3>3 DEF Spent
      <4> HIDE DEF w
      <4> QED
        BY <3>5, <4>1
    <3>7. ~Uses(Banks, bank, ends, r)
      BY <2>1, <2>3 DEF Uses
    <3> QED
      BY <2>1, <3>1, <3>3, <3>6, <3>7 DEF Balanced, Counted
  <2>6. strays \in [Ranks -> Int]
    BY DEF Init
  <2> QED
    BY <2>2, <2>4, <2>5, <2>6 DEF PowerInv
<1>2. DeviceInv /\ PowerInv /\ Outstanding(D, hist, ends, now) /\ [Next]_vars
        => PowerInv' /\ Outstanding(D, hist, ends, now)'
  <2> SUFFICES ASSUME DeviceInv, PowerInv, Outstanding(D, hist, ends, now), [Next]_vars
               PROVE  PowerInv' /\ Outstanding(D, hist, ends, now)'
    OBVIOUS
  <2>1. Outstanding(D, hist, ends, now)'
    BY OutstandingKept
  <2>2. CASE EndRefresh
    BY <2>1, <2>2, EndKeepsBooks
  <2>3. CASE Next /\ ~EndRefresh
    <3>1. HistoryTypeOK /\ Times
      BY DEF DeviceInv
    <3>2. PICK type \in DOMAIN D.requests, b \in Banks, row \in Nat, c \in Issuable(D), t \in Nat :
            Issued(type, b, row, c, t)
      BY <2>3, <3>1, NextIssues
    <3> QED
      BY <2>1, <3>2, IssueKeepsBooks
  <2>4. CASE UNCHANGED vars
    <3>1. /\ dut' = dut /\ hist' = hist /\ bank' = bank /\ ends' = ends /\ power' = power
          /\ strays' = strays /\ misled' = misled
      BY <2>4 DEF vars
    <3>2. D' = D /\ Banks' = Banks /\ Ranks' = Ranks
      BY <3>1 DEF D, Banks, Targets, Ranks
    <3> QED
      BY <2>1, <3>1, <3>2 DEF PowerInv
  <2> QED
    BY <2>2, <2>3, <2>4
<1> QED
  BY <1>1, <1>2, DevicesInvariant, PTL DEF Spec

(* The statistics add up, however long the device runs.  The rows opened   *)
(* are those still open or closed by the PREs counted without the stray    *)
(* ones.  In a rank whose power functions no stray PRE has misled, every   *)
(* cycle is counted once, as idle or active or as passed in a refresh, and *)
(* it is active exactly when a bank is open or refreshes a victim: so the  *)
(* stray PREs that Misleads names are all that can break these books.      *)
THEOREM StatisticsAddUp == Spec => []BooksBalance
<1>1. ASSUME DeviceInv, PowerInv, Outstanding(D, hist, ends, now), D.powers # {}, NEW r \in Ranks,
             r \notin misled
      PROVE  /\ CyclesCounted(r) + RefreshedCycles(r) = now
             /\ power[r].mode = "active" <=> \E b \in Banks : b[1] = r /\
                    \/ bank[b].st = "opened"
                    \/ \E e \in ends : e.path = b
  <2>1. HistoryTypeOK /\ dut \in Catalogue /\ now \in Nat /\ Times /\ Spaced(D, hist)
    BY <1>1 DEF DeviceInv, HistoryTypeOK
  <2> DEFINE p == power[r]
             w == D.ends["REFab"] - 1
             own == Begun(hist, r)
             n == Cardinality(own)
             running == {i \in own : now < hist[i].at + D.ends["REFab"] - 1}
  <2>2. p \in PowerStats /\ Balanced(D, Banks, hist, bank, ends, p, r)
    BY <1>1 DEF PowerInv
  <2>3. /\ p.idle \in Int /\ p.active \in Int /\ p.idleFrom \in Int /\ p.activeFrom \in Int
        /\ p.mode \in {"idle", "active", "refreshing"}
    BY <2>2 DEF PowerStats
  <2>4. n \in Nat /\ IsFiniteSet(own) /\ Spent(D, hist, r) = n * w
    BY <2>1, BegunGrows DEF HistoryTypeOK, Spent
  <2>5. w \in Nat /\ "REFab" \in DOMAIN D.ends /\ D.ends["REFab"] = w + 1
    BY <1>1, <2>1, PowerTables
  <2>6. \A i \in own : /\ i \in DOMAIN hist /\ hist[i].at \in Nat
                       /\ hist[i].cmd = "REFab" /\ hist[i].path[1] = r
    BY <2>1, EntryFacts DEF Begun
  <2>7. RefreshedCycles(r) = Cardinality(own \ running) * w
                             + (IF running = {} THEN 0 ELSE now - hist[Min(running)].at)
    BY DEF RefreshedCycles, Begun
  <2>8. \A i \in own : i \in running <=> now < hist[i].at + w
    <3> TAKE i \in own
    <3> DEFINE v == hist[i].at
               m == D.ends["REFab"]
    <3>1. v \in Nat /\ m = w + 1
      BY <2>5, <2>6
    <3>2. i \in running <=> now < v + m - 1
      OBVIOUS
    <3> HIDE DEF v, w, m, running
    <3>3. now < v + m - 1 <=> now < v + w
      BY <2>1, <2>5, <3>1
    <3> QED
      BY <3>2, <3>3 DEF v
  <2> DEFINE Ends(i, x) == /\ x.cmd = "REFab" /\ x.path = hist[i].path
                           /\ x.at = hist[i].at + w
  <2>9. ASSUME NEW i \in running
        PROVE  \E x \in ends : Ends(i, x) /\ x.path[1] = r
    <3> DEFINE v == hist[i].at
               m == D.ends["REFab"]
    <3>1. v \in Nat /\ m = w + 1 /\ now < v + w /\ i \in own
      BY <2>5, <2>6, <2>8
    <3>2. v + m - 1 <= now \/ \E x \in ends : x.cmd = "REFab" /\ x.path = hist[i].path /\ x.at = v + m - 1
      BY <1>1, <2>5, <2>6 DEF Outstanding
    <3>3. hist[i].path[1] = r
      BY <2>6
    <3> HIDE DEF v, m, w, running
    <3>4. \E x \in ends : x.cmd = "REFab" /\ x.path = hist[i].path /\ x.at = v + w
      BY <2>1, <2>5, <3>1, <3>2
    <3> QED
      BY <3>3, <3>4 DEF v
  <2> HIDE DEF w
  <2>10. CyclesCounted(r) + RefreshedCycles(r) = now
    <3>1. CyclesCounted(r) = p.idle + p.active
                             + (CASE p.mode = "idle" -> now - p.idleFrom
                                  [] p.mode = "active" -> now - p.activeFrom
                                  [] OTHER -> 0)
      BY DEF CyclesCounted
    <3>2. /\ p.mode = "idle" => p.idle + p.active + n * w = p.idleFrom
          /\ p.mode = "active" => p.idle + p.active + n * w = p.activeFrom
          /\ p.mode = "refreshing" <=> \E x \in ends : x.cmd = "REFab" /\ x.path[1] = r
          /\ p.mode = "refreshing" =>
                \A x \in ends : x.cmd = "REFab" /\ x.path[1] = r => p.idle + p.active + n * w = x.at
      BY <2>2, <2>4 DEF Balanced
    <3>3. running = {} => RefreshedCycles(r) = n * w
      <4>1. running = {} => own \ running = own
        OBVIOUS
      <4> HIDE DEF running, own, n
      <4>2. n * w \in Int
        BY <2>4, <2>5
      <4> QED
        BY <2>7, <4>1, <4>2 DEF n
    <3>4. CASE p.mode # "refreshing"
      <4>1. running = {}
        BY <2>9, <3>2, <3>4
      <4> HIDE DEF p, n, running
      <4>2. n * w \in Int
        BY <2>4, <2>5
      <4>3. p.mode = "idle" \/ p.mode = "active"
        BY <2>3, <3>4
      <4> QED
        BY <2>1, <2>3, <3>1, <3>2, <3>3, <4>1, <4>2, <4>3
    <3>5. CASE p.mode = "refreshing"
      <4>1. PICK x \in ends : x.cmd = "REFab" /\ x.path[1] = r
        BY <3>2, <3>5
      <4> DEFINE at == x.at
      <4>2. p.idle + p.active + n * w = at /\ at \in Nat /\ now <= at
        BY <2>1, <3>2, <3>5, <4>1 DEF HistoryTypeOK, Pending, Times
      <4>3. CyclesCounted(r) = p.idle + p.active
        <5> HIDE DEF p
        <5>1. CyclesCounted(r) = p.idle + p.active + 0
          BY <3>1, <3>5
        <5> QED
          BY <2>3, <5>1
      <4>4. \A i \in running : hist[i].at + w = at
        BY <2>9, <3>2, <3>5, <4>2
      <4>5. CASE at = now
        <5>1. running = {}
          <6> SUFFICES ASSUME NEW i \in running PROVE FALSE
            OBVIOUS
          <6>1. now < hist[i].at + w
            BY <2>8
          <6> HIDE DEF running, at
          <6> QED
            BY <2>1, <4>4, <4>5, <6>1
        <5> HIDE DEF p, n, running, at
        <5>2. n * w \in Int
          BY <2>4, <2>5
        <5> QED
          BY <2>3, <3>3, <4>2, <4>3, <4>5, <5>1, <5>2
      <4>6. CASE at # now
        <5>1. PICK i \in DOMAIN hist : /\ hist[i].cmd = x.cmd /\ hist[i].path = x.path
                                       /\ x.at = hist[i].at + D.ends[x.cmd] - 1
          BY <1>1 DEF DeviceInv, EndsStand
        <5> DEFINE v == hist[i].at
        <5>2. i \in own /\ v \in Nat /\ i \in Nat
          <6>1. i \in own
            BY <4>1, <5>1 DEF Begun
          <6>2. i \in 1..Len(hist) /\ Len(hist) \in Nat
            BY <2>1, EntryFacts
          <6> QED
            BY <2>6, <6>1, <6>2
        <5>3. at = v + w
          <6> DEFINE m == D.ends["REFab"]
          <6>1. at = v + m - 1 /\ m = w + 1
            BY <2>5, <4>1, <5>1
          <6> HIDE DEF m, at, v
          <6> QED
            BY <2>5, <5>2, <6>1
        <5>4. i \in running
          <6>1. now < v + w
            <7> HIDE DEF at, v
            <7> QED
              BY <2>1, <4>2, <4>6, <5>3
          <6> QED
            BY <2>8, <5>2, <6>1
        <5>5. running = {i}
          <6> SUFFICES ASSUME NEW j \in running PROVE j = i
            BY <5>4
          <6>1. j \in DOMAIN hist /\ j \in Nat /\ hist[j].at \in Nat
            <7>1. j \in own
              OBVIOUS
            <7>2. j \in DOMAIN hist /\ hist[j].at \in Nat
              BY <2>6, <7>1
            <7>3. j \in 1..Len(hist) /\ Len(hist) \in Nat
              BY <2>1, <7>2, EntryFacts
            <7> QED
              BY <7>2, <7>3
          <6>2. hist[j].at = hist[i].at
            <7> DEFINE u == hist[j].at
            <7>1. u + w = at /\ v + w = at /\ u \in Nat
              BY <4>4, <5>3, <6>1
            <7> HIDE DEF u, v, at
            <7>2. u = v
              BY <2>5, <4>2, <5>2, <7>1
            <7> QED
              BY <7>2 DEF u, v
          <6>3. ~(i < j) /\ ~(j < i)
            BY <2>1, <5>2, <6>1, <6>2 DEF Spaced
          <6> QED
            BY <5>2, <6>1, <6>3
        <5>6. Min(running) = i
          <6>1. Min({i}) = i
            BY DEF Min
          <6> QED
            BY <5>5, <6>1
        <5>7. Cardinality(own \ running) = n - 1
          <6> HIDE DEF own
          <6>1. Cardinality(own \ {i}) = Cardinality(own) - 1
            BY <2>4, <5>2, FS_RemoveElement
          <6> QED
            BY <5>5, <6>1 DEF n
        <5>8. RefreshedCycles(r) = (n - 1) * w + (now - v)
          BY <2>7, <5>4, <5>6, <5>7
        <5> HIDE DEF p, n, v, at, running
        <5>9. n * w \in Int /\ (n - 1) * w = n * w - w
          BY <2>4, <2>5
        <5> QED
          BY <2>1, <2>3, <2>5, <4>2, <4>3, <5>2, <5>3, <5>8, <5>9
      <4> QED
        BY <4>5, <4>6
    <3> QED
      BY <3>4, <3>5
  <2>11. p.mode = "active" <=> \E b \in Banks : b[1] = r /\
            \/ bank[b].st = "opened"
            \/ \E e \in ends : e.path = b
    BY <2>2 DEF Balanced, Uses
  <2> QED
    BY <2>10, <2>11
<1>2. ASSUME PowerInv, D.powers # {}, NEW r \in Ranks
      PROVE  power[r].acts = power[r].pres - strays[r] + Open(r)
  BY <1>2 DEF PowerInv, Counted, BanksIn, Open
<1>3. DeviceInv /\ PowerInv /\ Outstanding(D, hist, ends, now) => BooksBalance
  BY <1>1, <1>2 DEF BooksBalance
<1> QED
  BY <1>3, DevicesInvariant, BooksKept, PTL
=============================================================================
