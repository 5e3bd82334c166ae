---------------------------- MODULE ExpansionProofs ----------------------------
(***************************************************************************)
(* Proofs about what a token becomes.                                      *)
(*                                                                         *)
(* First the ESDM address generator and the split of a run of columns, for *)
(* every geometry and configuration (of the assumptions, only that of      *)
(* EsdmMapping is used).                                                   *)
(*                                                                         *)
(* Then the expansion of one token, for every configuration: it opens and  *)
(* closes its rows in turn, computes on the row it has open, is counted as *)
(* it is issued, and passes through the stages of ESEF in their order.     *)
(***************************************************************************)
EXTENDS EsefExpansion, FiniteSetTheorems, SequenceTheorems, WellFoundedInduction, TLAPS

LEMMA DivMod ==
    ASSUME NEW a \in Nat, NEW b \in Nat \ {0}
    PROVE  /\ a \div b \in Nat /\ a % b \in 0..(b - 1)
           /\ a = b * (a \div b) + (a % b)
  BY Z3

LEMMA Unique ==
    ASSUME NEW b \in Nat \ {0}, NEW p \in Int, NEW q \in Int,
           NEW r \in 0..(b - 1), NEW s \in 0..(b - 1),
           b * p + r = b * q + s
    PROVE  p = q /\ r = s
  BY Z3

LEMMA Multiple ==
    ASSUME NEW b \in Nat \ {0}, NEW q \in Int, NEW a \in Nat, a = b * q
    PROVE  a % b = 0
<1> DEFINE p == a \div b  r == a % b
<1>1. p \in Nat /\ r \in 0..(b - 1) /\ a = b * p + r
  BY DivMod
<1> HIDE DEF p, r
<1>2. q \in Int /\ r = b * (q - p) /\ q - p \in Int
  BY <1>1, Z3
<1>3. q - p < 1 /\ -1 < q - p
  BY <1>1, <1>2, Z3
<1>4. q - p = 0
  BY <1>2, <1>3
<1>5. r = 0
  BY <1>2, <1>4, Z3
<1>6. QED  BY <1>5 DEF r

LEMMA SameRemainder ==
    ASSUME NEW b \in Nat \ {0}, NEW x \in Nat, NEW y \in Nat,
           x % b = y % b, x < y + b, y < x + b
    PROVE  x = y
<1> DEFINE p == x \div b  q == y \div b  r == x % b
<1>1. p \in Nat /\ q \in Nat /\ r \in 0..(b - 1) /\ x = b * p + r /\ y = b * q + r
  BY DivMod
<1> HIDE DEF p, q, r
<1>2. b * (p - q) < b /\ b * (q - p) < b
  BY <1>1, Z3
<1>3. p - q < 1 /\ q - p < 1
  BY <1>1, <1>2, Z3
<1>4. QED  BY <1>1, <1>3, Z3

LEMMA ColumnsPerRowPositive == ColumnsPerRow \in Nat \ {0}
  BY MappingAssumption DEF ColumnsPerRow

(* The % of C++ leaves a multiple, also of a negative number.              *)
LEMMA Wrapped ==
    ASSUME NEW b \in Nat \ {0}, NEW x \in Int
    PROVE  \E p \in Int : x = b * p + Remainder(x, b)
<1>1. CASE x >= 0
  <2> DEFINE p == x \div b
  <2>1. x \in Nat
    BY <1>1
  <2>2. p \in Nat /\ x = b * p + (x % b)
    BY <2>1, DivMod
  <2>3. Remainder(x, b) = x % b
    BY <1>1 DEF Remainder
  <2>4. p \in Int /\ x = b * p + Remainder(x, b)
    BY <2>2, <2>3
  <2> HIDE DEF p
  <2> QED
    BY <2>4
<1>2. CASE ~(x >= 0)
  <2> DEFINE y == -x  p == y \div b  r == y % b  q == -p
  <2>1. y \in Nat
    BY <1>2
  <2>2. p \in Nat /\ r \in 0..(b - 1) /\ y = b * p + r
    BY <2>1, DivMod
  <2>3. Remainder(x, b) = -r
    BY <1>2 DEF Remainder
  <2> HIDE DEF p, r
  <2>4. q \in Int /\ b * q = -(b * p)
    BY <2>2, Z3
  <2>5. x = b * q + (-r)
    <3> DEFINE m == b * p  w == b * q
    <3>1. m \in Int /\ w = -m /\ y = m + r /\ r \in Int
      BY <2>2, <2>4
    <3> HIDE DEF m, w
    <3> QED
      BY <3>1 DEF w
  <2> QED
    BY <2>3, <2>4, <2>5
<1> QED
  BY <1>1, <1>2

LEMMA SameWrap ==
    ASSUME NEW b \in Nat \ {0}, NEW x \in Int, NEW y \in Int,
           Remainder(x, b) = Remainder(y, b), x < y + b, y < x + b
    PROVE  x = y
<1> DEFINE r == Remainder(x, b)
<1>1. PICK p \in Int : x = b * p + r
  BY Wrapped
<1>2. PICK q \in Int : y = b * q + r
  BY Wrapped
<1>3. r \in Int
  <2>1. x % b \in Int /\ (-x) % b \in Int
    OBVIOUS
  <2> QED
    BY <2>1 DEF Remainder
<1> HIDE DEF r
<1>4. b * (p - q) < b /\ b * (q - p) < b
  BY <1>1, <1>2, <1>3, Z3
<1>5. p - q < 1 /\ q - p < 1
  BY <1>4, Z3
<1>6. p = q
  BY <1>5
<1>7. QED  BY <1>1, <1>2, <1>6

(* The row of a column that is not negative.                               *)
LEMMA RowFormula ==
    ASSUME NEW base \in Nat, NEW off \in Int, NEW x \in Nat
    PROVE  /\ x \div ColumnsPerRow \in Nat
           /\ EsdmRow(base, off, x) = Remainder(base + off + (x \div ColumnsPerRow), NumRows)
<1>1. x \div ColumnsPerRow \in Nat
  BY ColumnsPerRowPositive, DivMod
<1>2. AtLeast(0, base) = base /\ AtLeast(0, x) = x
  BY DEF AtLeast
<1>3. QED  BY <1>1, <1>2 DEF EsdmRow

(* No two logical columns share a physical one, as long as the run is no   *)
(* longer than the bank and a row of the mapping fits a row of the device  *)
(* (make_esdm_addr).                                                       *)
THEOREM PlacesDistinct ==
    ASSUME NEW base \in Nat, NEW off \in Int, ColumnsPerRow <= NumCols,
           NEW x \in Nat, NEW y \in Nat,
           x \div ColumnsPerRow < (y \div ColumnsPerRow) + NumRows,
           y \div ColumnsPerRow < (x \div ColumnsPerRow) + NumRows,
           EsdmRow(base, off, x) = EsdmRow(base, off, y),
           EsdmCol(x) = EsdmCol(y)
    PROVE  x = y
<1> DEFINE c == ColumnsPerRow
           p == x \div c   q == y \div c
<1>1. c \in Nat \ {0} /\ p \in Nat /\ q \in Nat
  BY ColumnsPerRowPositive, DivMod
<1>2. /\ x % c \in 0..(c - 1) /\ x = c * p + (x % c)
      /\ y % c \in 0..(c - 1) /\ y = c * q + (y % c)
  BY <1>1, DivMod
<1>3. Remainder(base + off + p, NumRows) = Remainder(base + off + q, NumRows)
  <2>1. EsdmRow(base, off, x) = Remainder(base + off + p, NumRows)
    BY RowFormula
  <2>2. EsdmRow(base, off, y) = Remainder(base + off + q, NumRows)
    BY RowFormula
  <2>3. QED  BY <2>1, <2>2, Zenon
<1>4. p = q
  <2> DEFINE m == base + off + p  n == base + off + q
  <2>1. /\ m \in Int /\ n \in Int /\ m < n + NumRows /\ n < m + NumRows
        /\ Remainder(m, NumRows) = Remainder(n, NumRows)
    BY <1>1, <1>3, MappingAssumption
  <2>2. m = n
    <3> HIDE DEF m, n
    <3>1. QED  BY <2>1, SameWrap, MappingAssumption
  <2>3. QED  BY <1>1, <2>2
<1>5. x % c = y % c
  <2>1. EsdmCol(x) = (x % c) % NumCols /\ EsdmCol(y) = (y % c) % NumCols
    BY DEF EsdmCol, AtLeast
  <2>2. x % c < NumCols /\ y % c < NumCols
    BY <1>1, <1>2, MappingAssumption
  <2> DEFINE m == x % c  n == y % c
  <2>3. m % NumCols = n % NumCols
    BY <2>1
  <2> HIDE DEF c
  <2>4. m \in Nat /\ n \in Nat
    BY <1>1, <1>2
  <2>5. m < NumCols /\ n < NumCols
    BY <2>2
  <2> HIDE DEF m, n
  <2>6. m < n + NumCols /\ n < m + NumCols
    BY <2>4, <2>5, MappingAssumption
  <2>7. m = n
    BY <2>3, <2>4, <2>6, SameRemainder, MappingAssumption
  <2>8. QED  BY <2>7 DEF m, n
<1>6. QED  BY <1>2, <1>4, <1>5

(* Two regions whose rows do not overlap, counted from their offsets and   *)
(* without wrapping into each other, share no row (make_esdm_addr with     *)
(* kt_row_offset and v_row_offset).                                        *)
THEOREM RegionsApart ==
    ASSUME NEW base \in Nat, NEW kt \in Int, NEW v \in Int,
           NEW x \in Nat, NEW y \in Nat,
           kt + (x \div ColumnsPerRow) < v + (y \div ColumnsPerRow),
           v + (y \div ColumnsPerRow) < kt + (x \div ColumnsPerRow) + NumRows
    PROVE  EsdmRow(base, kt, x) # EsdmRow(base, v, y)
<1> DEFINE r == base + kt + (x \div ColumnsPerRow)
           s == base + v + (y \div ColumnsPerRow)
<1>1. /\ x \div ColumnsPerRow \in Nat /\ y \div ColumnsPerRow \in Nat
      /\ EsdmRow(base, kt, x) = Remainder(r, NumRows) /\ EsdmRow(base, v, y) = Remainder(s, NumRows)
  BY RowFormula
<1>2. r \in Int /\ s \in Int /\ r < s /\ s < r + NumRows
  BY <1>1, MappingAssumption
<1> HIDE DEF r, s
<1>3. r < s + NumRows /\ r # s
  BY <1>2, MappingAssumption
<1>4. QED  BY <1>1, <1>2, <1>3, SameWrap, MappingAssumption

(* One pass of the loop that splits a run takes at least one column, at    *)
(* most what is left, only columns of one row, and if any are left it      *)
(* stops where the next row begins (enqueue_qk_stage and                   *)
(* enqueue_sparse_pv_stage): the loop ends and never crosses a row.        *)
THEOREM PassStaysInRow ==
    ASSUME NEW base \in Nat, NEW off \in Int,
           NEW start \in Nat, NEW count \in Nat, NEW past \in 0..(count - 1)
    PROVE  LET len == ChunkLength(start, past, count)
           IN  /\ len \in 1..(count - past)
               /\ \A i \in 0..(len - 1) :
                     EsdmRow(base, off, start + past + i) = EsdmRow(base, off, start + past)
               /\ len < count - past => (start + past + len) % ColumnsPerRow = 0
<1> DEFINE c == ColumnsPerRow
           x == start + past
           k == count - past
           p == x \div c   r == x % c
           len == ChunkLength(start, past, count)
<1>1. x \in Nat /\ k \in Nat \ {0} /\ c \in Nat \ {0}
  BY ColumnsPerRowPositive
<1>2. p \in Nat /\ r \in 0..(c - 1) /\ x = c * p + r
  BY <1>1, DivMod
<1>3. len = IF k < c - r THEN k ELSE c - r
  BY <1>1 DEF ChunkLength, Smaller, Remainder
<1>a. \A y \in Nat : EsdmRow(base, off, y) = Remainder(base + off + (y \div c), NumRows)
  BY RowFormula
<1>b. p = x \div c
  OBVIOUS
<1> HIDE DEF c, x, k, p, r, len
<1>4. len \in 1..k /\ len <= c - r
  BY <1>1, <1>2, <1>3
<1>5. ASSUME NEW i \in 0..(len - 1)
      PROVE  EsdmRow(base, off, x + i) = EsdmRow(base, off, x)
  <2> DEFINE y == x + i
  <2>1. y \in Nat /\ r + i \in 0..(c - 1) /\ y = c * p + (r + i)
    BY <1>1, <1>2, <1>4
  <2> HIDE DEF y
  <2>2. y \div c = p
    <3>1. /\ y \div c \in Nat /\ y % c \in 0..(c - 1)
          /\ y = c * (y \div c) + (y % c)
      BY <1>1, <2>1, DivMod
    <3> DEFINE q == y \div c  m == y % c
    <3>2. q \in Int /\ m \in 0..(c - 1) /\ y = c * q + m /\ p \in Int
      BY <1>2, <3>1
    <3> HIDE DEF q, m
    <3>3. q = p
      BY <1>1, <1>2, <2>1, <3>2, Unique
    <3>4. QED  BY <3>3 DEF q
  <2>3. EsdmRow(base, off, y) = EsdmRow(base, off, x)
    BY <1>1, <1>a, <1>b, <2>1, <2>2
  <2>4. QED  BY <2>3 DEF y
<1>6. ASSUME len < k
      PROVE  (x + len) % c = 0
  <2>1. len = c - r
    BY <1>1, <1>2, <1>3, <1>6
  <2> DEFINE m == x + len  n == p + 1
  <2>2. m = c * n /\ m \in Nat /\ n \in Int
    BY <1>1, <1>2, <2>1, Z3
  <2> HIDE DEF m, n
  <2>3. m % c = 0
    BY <1>1, <2>2, Multiple
  <2>4. QED  BY <2>3 DEF m
<1>7. QED  BY <1>4, <1>5, <1>6 DEF c, x, k, len

-----------------------------------------------------------------------------
(* The expansion of a token.                                               *)
LEMMA LeastOf ==
    ASSUME NEW S \in SUBSET Nat, S # {}
    PROVE  \E x \in S : \A y \in S : x <= y
<1> DEFINE R == {ss \in Nat \X Nat : ss[1] < ss[2]}
<1>1. IsWellFoundedOn(R, Nat)
  BY NatLessThanWellFounded, Zenon DEF OpToRel
<1>2. \A x, y \in Nat : <<y, x>> \notin R => x <= y
  OBVIOUS
<1> HIDE DEF R
<1>3. \E x \in S : \A y \in S : <<y, x>> \notin R
  BY <1>1, WFMin
<1> QED
  BY <1>2, <1>3


(* A pass takes at least one column and at most what is left.              *)
LEMMA PassLength ==
    ASSUME NEW start \in Int, NEW count \in Int, NEW past \in 0..(count - 1)
    PROVE  ChunkLength(start, past, count) \in 1..(count - past)
<1> DEFINE c == ColumnsPerRow
           x == start + past
           r == Remainder(x, c)
<1>1. c \in Nat \ {0} /\ x \in Int
  BY ColumnsPerRowPositive
<1>2. r \in Int /\ r < c
  <2> HIDE DEF c, x
  <2>1. CASE x >= 0
    <3>1. x \in Nat /\ x % c \in 0..(c - 1)
      BY <1>1, <2>1, DivMod
    <3> QED
      BY <1>1, <2>1, <3>1 DEF Remainder
  <2>2. CASE ~(x >= 0)
    <3>1. -x \in Nat /\ (-x) % c \in 0..(c - 1)
      BY <1>1, <2>2, DivMod
    <3> QED
      BY <1>1, <2>2, <3>1 DEF Remainder
  <2> QED
    BY <2>1, <2>2
<1>3. ChunkLength(start, past, count) = Smaller(count - past, c - r)
  BY DEF ChunkLength
<1> HIDE DEF c, r
<1> QED
  BY <1>1, <1>2, <1>3 DEF Smaller

-----------------------------------------------------------------------------
(* The passes of the loop, one after the other.                            *)
Chunk == [first : Nat, len : Nat]
ChunkAt(start, count, d) == [first |-> d, len |-> ChunkLength(start, d, count)]

(* The loop from pass d on, given what it does from later passes on.       *)
PassesFrom(f, start, count, d) ==
    IF d >= count THEN <<>>
    ELSE <<ChunkAt(start, count, d)>> \o f[d + ChunkLength(start, d, count)]

Covers(c, d, start, count) ==
    /\ c \in Seq(Chunk)
    /\ c = <<>> <=> d >= count
    /\ \A k \in 1..Len(c) :
          /\ c[k] = ChunkAt(start, count, c[k].first)
          /\ c[k].first \in 0..(count - 1)
    /\ \A k \in 1..(Len(c) - 1) : c[k + 1].first = c[k].first + c[k].len
    /\ c # <<>> => /\ c[1].first = d
                   /\ c[Len(c)].first + c[Len(c)].len = count

LEMMA ChunkType ==
    ASSUME NEW start \in Int, NEW count \in Int, NEW d \in 0..(count - 1)
    PROVE  /\ ChunkAt(start, count, d) \in Chunk
           /\ ChunkAt(start, count, d).first = d
           /\ ChunkAt(start, count, d).len = ChunkLength(start, d, count)
           /\ ChunkLength(start, d, count) \in 1..(count - d)
<1>1. ChunkLength(start, d, count) \in 1..(count - d)
  BY PassLength
<1> QED
  BY <1>1 DEF Chunk, ChunkAt

LEMMA PassesExist ==
    ASSUME NEW start \in Int, NEW count \in Int
    PROVE  \E f : f = [d \in 0..AtLeast(0, count) |-> PassesFrom(f, start, count, d)]
<1> DEFINE n == AtLeast(0, count)
           Step(f, d) == PassesFrom(f, start, count, d)
           Solves(f, k) == /\ f \in [0..n -> Seq(Chunk)]
                           /\ \A d \in (n - k)..n : f[d] = Step(f, d)
           Bad == {k \in 0..n : ~\E f : Solves(f, k)}
<1>1. n \in Nat /\ (n > 0 => n = count) /\ n >= count
  BY DEF AtLeast
<1> HIDE DEF n
<1>2. Bad = {}
  <2> SUFFICES ASSUME Bad # {} PROVE FALSE
    OBVIOUS
  <2>1. PICK k \in Bad : \A y \in Bad : k <= y
    <3>1. Bad \in SUBSET Nat
      BY <1>1
    <3> HIDE DEF Bad
    <3> QED
      BY <3>1, LeastOf
  <2>2. k \in 0..n
    OBVIOUS
  <2>3. CASE k = 0
    <3> DEFINE f == [d \in 0..n |-> <<>>]
    <3>1. f \in [0..n -> Seq(Chunk)] /\ f[n] = <<>>
      BY <1>1
    <3> HIDE DEF f
    <3>2. Step(f, n) = <<>>
      BY <1>1 DEF PassesFrom
    <3>3. \A d \in (n - k)..n : d = n
      BY <1>1, <2>3
    <3>4. Solves(f, k)
      BY <3>1, <3>2, <3>3
    <3> QED
      BY <3>4
  <2>4. CASE k # 0
    <3>1. k - 1 \in 0..n /\ ~(k <= k - 1)
      BY <1>1, <2>2, <2>4
    <3>2. k - 1 \notin Bad
      <4> HIDE DEF Bad
      <4> QED
        BY <2>1, <3>1
    <3>3. PICK f : Solves(f, k - 1)
      BY <3>1, <3>2
    <3> DEFINE m == n - k
               g == [d \in 0..n |-> IF d = m THEN Step(f, m) ELSE f[d]]
    <3>4. m \in 0..n /\ m < n
      BY <1>1, <2>2, <2>4
    <3>5. m < count /\ count = n /\ m \in 0..(count - 1)
      BY <1>1, <3>4
    <3>6. /\ m + ChunkLength(start, m, count) \in (m + 1)..n
          /\ ChunkAt(start, count, m) \in Chunk
      <4>1. ChunkLength(start, m, count) \in 1..(count - m)
        BY <3>5, PassLength
      <4>2. ChunkAt(start, count, m) \in Chunk
        BY <3>5, ChunkType
      <4> HIDE DEF m
      <4> QED
        BY <3>4, <3>5, <4>1, <4>2
    <3>7. Step(f, m) \in Seq(Chunk)
      <4>1. f[m + ChunkLength(start, m, count)] \in Seq(Chunk)
        <5>1. m + ChunkLength(start, m, count) \in 0..n
          BY <3>4, <3>6
        <5> QED
          BY <3>3, <5>1
      <4>2. Step(f, m) = <<ChunkAt(start, count, m)>> \o f[m + ChunkLength(start, m, count)]
        BY <3>5 DEF PassesFrom
      <4> DEFINE a == ChunkAt(start, count, m)
                 q == f[m + ChunkLength(start, m, count)]
      <4>3. a \in Chunk /\ q \in Seq(Chunk)
        BY <3>6, <4>1
      <4> HIDE DEF a, q
      <4>4. <<a>> \o q \in Seq(Chunk)
        BY <4>3
      <4> QED
        BY <4>2, <4>4 DEF a, q
    <3>8. g \in [0..n -> Seq(Chunk)]
      <4> HIDE DEF m
      <4>1. f \in [0..n -> Seq(Chunk)]
        BY <3>3
      <4> HIDE DEF Solves, Step
      <4> QED
        BY <3>7, <4>1
    <3>9. ASSUME NEW d \in m..n PROVE g[d] = Step(g, d)
      <4>1. d + ChunkLength(start, d, count) \in (d + 1)..n \/ d >= count
        <5>1. CASE d < count
          <6>1. ChunkLength(start, d, count) \in 1..(count - d)
            BY <3>4, <5>1, PassLength
          <6> QED
            BY <3>4, <3>5, <6>1
        <5> QED
          BY <3>4, <3>5, <5>1
      <4>2. \A e \in (m + 1)..n : g[e] = f[e]
        BY <3>4
      <4>3. d + ChunkLength(start, d, count) \in (d + 1)..n =>
              g[d + ChunkLength(start, d, count)] = f[d + ChunkLength(start, d, count)]
        <5>1. \A e \in (d + 1)..n : e \in (m + 1)..n
          BY <3>4
        <5> QED
          BY <4>2, <5>1
      <4>4. Step(g, d) = Step(f, d)
        BY <4>1, <4>3 DEF PassesFrom
      <4>5. CASE d = m
        <5>1. g[m] = Step(f, m)
          BY <3>4
        <5> QED
          BY <4>4, <4>5, <5>1
      <4>6. CASE d # m
        <5>1. d \in (m + 1)..n /\ d \in (n - (k - 1))..n
          BY <1>1, <2>2, <3>4, <4>6
        <5>2. f[d] = Step(f, d)
          BY <3>3, <5>1
        <5> QED
          BY <4>2, <4>4, <5>1, <5>2
      <4> QED
        BY <4>5, <4>6
    <3>10. Solves(g, k)
      BY <3>8, <3>9
    <3> HIDE DEF g
    <3> QED
      BY <3>10
  <2> QED
    BY <2>3, <2>4
<1>3. PICK f : Solves(f, n)
  <2>1. n \in 0..n
    BY <1>1
  <2> HIDE DEF Solves
  <2> QED
    BY <1>2, <2>1
<1>4. \A d \in 0..n : f[d] = Step(f, d)
  BY <1>1, <1>3
<1>5. f = [d \in 0..n |-> Step(f, d)]
  BY <1>3, <1>4
<1> QED
  BY <1>5 DEF n

LEMMA ChunksSolve ==
    ASSUME NEW start \in Int, NEW count \in Int
    PROVE  \E f : /\ f = [d \in 0..AtLeast(0, count) |-> PassesFrom(f, start, count, d)]
                  /\ Chunks(start, count) = f[0]
<1> DEFINE Passes[past \in 0..AtLeast(0, count)] ==
            IF past >= count THEN <<>>
            ELSE <<[first |-> past, len |-> ChunkLength(start, past, count)]>>
                 \o Passes[past + ChunkLength(start, past, count)]
<1>1. Chunks(start, count) = Passes[0]
  BY Zenon DEF Chunks
<1>2. \E f : f = [past \in 0..AtLeast(0, count) |->
                     IF past >= count THEN <<>>
                     ELSE <<[first |-> past, len |-> ChunkLength(start, past, count)]>>
                          \o f[past + ChunkLength(start, past, count)]]
  BY PassesExist, Zenon DEF PassesFrom, ChunkAt
<1>3. Passes = [past \in 0..AtLeast(0, count) |->
                     IF past >= count THEN <<>>
                     ELSE <<[first |-> past, len |-> ChunkLength(start, past, count)]>>
                          \o Passes[past + ChunkLength(start, past, count)]]
  BY <1>2, Zenon DEF Passes
<1>4. Passes = [d \in 0..AtLeast(0, count) |-> PassesFrom(Passes, start, count, d)]
  BY <1>3, Zenon DEF PassesFrom, ChunkAt
<1> QED
  BY <1>1, <1>4, Zenon

LEMMA OnePassMore ==
    ASSUME NEW start \in Int, NEW count \in Int, NEW d \in 0..(count - 1), NEW c,
           Covers(c, d + ChunkLength(start, d, count), start, count)
    PROVE  Covers(<<ChunkAt(start, count, d)>> \o c, d, start, count)
<1> DEFINE a == ChunkAt(start, count, d)
           len == ChunkLength(start, d, count)
           s == <<a>> \o c
<1>1. /\ a \in Chunk /\ a.first = d /\ a.len = len /\ len \in 1..(count - d)
      /\ a = ChunkAt(start, count, a.first)
  <2>1. a \in Chunk /\ a.first = d /\ a.len = len /\ len \in 1..(count - d)
    BY ChunkType
  <2>2. a = ChunkAt(start, count, d)
    OBVIOUS
  <2> HIDE DEF a
  <2> QED
    BY <2>1, <2>2, Zenon
<1>2. Covers(c, d + len, start, count)
  OBVIOUS
<1> HIDE DEF a, len
<1>3. c \in Seq(Chunk)
  BY <1>2 DEF Covers
<1>4. /\ s \in Seq(Chunk) /\ Len(s) = Len(c) + 1 /\ Len(c) \in Nat /\ s # <<>>
      /\ s[1] = a /\ \A k \in 1..Len(c) : s[k + 1] = c[k]
  BY <1>1, <1>3
<1> HIDE DEF s
<1>5. \A k \in 1..Len(s) : k = 1 \/ (k - 1 \in 1..Len(c) /\ s[k] = c[k - 1])
  BY <1>4
<1>6. \A k \in 1..Len(s) : s[k] = ChunkAt(start, count, s[k].first)
                           /\ s[k].first \in 0..(count - 1)
  BY <1>1, <1>2, <1>4, <1>5 DEF Covers
<1>7. c # <<>> => c[1].first = d + len /\ c[Len(c)].first + c[Len(c)].len = count /\ Len(c) > 0
  BY <1>2, <1>3 DEF Covers
<1>8. c = <<>> => d + len = count
  <2>1. c = <<>> => d + len >= count
    BY <1>2 DEF Covers
  <2> QED
    BY <1>1, <2>1
<1>9. \A k \in 1..(Len(s) - 1) : s[k + 1].first = s[k].first + s[k].len
  <2> TAKE k \in 1..(Len(s) - 1)
  <2>1. k \in 1..Len(c) /\ s[k + 1] = c[k]
    BY <1>4
  <2>2. CASE k = 1
    BY <1>1, <1>3, <1>4, <1>7, <2>1, <2>2
  <2>3. CASE k # 1
    <3>1. k - 1 \in 1..(Len(c) - 1) /\ s[k] = c[k - 1] /\ (k - 1) + 1 = k
      BY <1>4, <1>5, <2>1, <2>3
    <3>2. c[(k - 1) + 1].first = c[k - 1].first + c[k - 1].len
      BY <1>2, <3>1 DEF Covers
    <3> QED
      BY <2>1, <3>1, <3>2
  <2> QED
    BY <2>2, <2>3
<1>10. s[Len(s)].first + s[Len(s)].len = count
  <2>1. CASE c = <<>>
    BY <1>1, <1>4, <1>8, <2>1
  <2>2. CASE c # <<>>
    <3>1. Len(c) \in 1..Len(c) /\ s[Len(s)] = c[Len(c)]
      BY <1>4, <1>7, <2>2
    <3> QED
      BY <1>7, <2>2, <3>1
  <2> QED
    BY <2>1, <2>2
<1>11. ~(d >= count)
  OBVIOUS
<1>12. Covers(s, d, start, count)
  BY <1>1, <1>4, <1>6, <1>9, <1>10, <1>11 DEF Covers
<1> QED
  BY <1>12 DEF s, a

(* What the loops of enqueue_qk_stage and enqueue_sparse_pv_stage pass     *)
(* over: each of the count columns once, in order, a pass at a time.       *)
LEMMA ChunksCover ==
    ASSUME NEW start \in Int, NEW count \in Int
    PROVE  Covers(Chunks(start, count), 0, start, count)
<1>1. PICK f : /\ f = [d \in 0..AtLeast(0, count) |-> PassesFrom(f, start, count, d)]
               /\ Chunks(start, count) = f[0]
  BY ChunksSolve
<1> DEFINE n == AtLeast(0, count)
           Bad == {k \in 0..n : ~Covers(f[n - k], n - k, start, count)}
<1>2. n \in Nat /\ (n > 0 => n = count) /\ n >= count
  BY DEF AtLeast
<1>3. \A d \in 0..n : f[d] = PassesFrom(f, start, count, d)
  BY <1>1
<1> HIDE DEF n
<1>4. Bad = {}
  <2> SUFFICES ASSUME Bad # {} PROVE FALSE
    OBVIOUS
  <2>1. PICK k \in Bad : \A y \in Bad : k <= y
    <3>1. Bad \in SUBSET Nat
      BY <1>2
    <3> HIDE DEF Bad
    <3> QED
      BY <3>1, LeastOf
  <2> DEFINE d == n - k
  <2>2. k \in 0..n /\ d \in 0..n /\ ~Covers(f[d], d, start, count)
    BY <1>2
  <2>5. f[d] = IF d >= count THEN <<>>
               ELSE <<ChunkAt(start, count, d)>> \o f[d + ChunkLength(start, d, count)]
    <3>1. f[d] = PassesFrom(f, start, count, d)
      BY <1>3, <2>2
    <3> HIDE DEF d
    <3> QED
      BY <3>1 DEF PassesFrom
  <2>3. CASE k = 0
    <3>1. d = n /\ f[d] = <<>>
      <4>1. d = n /\ d >= count
        BY <1>2, <2>2, <2>3
      <4> HIDE DEF d
      <4> QED
        BY <2>5, <4>1
    <3>2. Covers(<<>>, n, start, count)
      BY <1>2 DEF Covers
    <3> QED
      BY <2>2, <3>1, <3>2
  <2>4. CASE k # 0
    <3>1. d \in 0..(count - 1) /\ count = n
      BY <1>2, <2>2, <2>4
    <3> DEFINE len == ChunkLength(start, d, count)
    <3>2. len \in 1..(count - d)
      BY <3>1, PassLength
    <3>3. f[d] = <<ChunkAt(start, count, d)>> \o f[d + len]
      <4>1. ~(d >= count)
        BY <3>1
      <4> HIDE DEF d
      <4> QED
        BY <2>5, <4>1
    <3>4. k - len \in 0..n /\ n - (k - len) = d + len /\ ~(k <= k - len)
      <4> HIDE DEF len
      <4> QED
        BY <1>2, <2>2, <3>1, <3>2
    <3>5. Covers(f[d + len], d + len, start, count)
      <4>1. k - len \notin Bad
        <5> HIDE DEF Bad, len
        <5> QED
          BY <2>1, <3>4
      <4>2. Covers(f[n - (k - len)], n - (k - len), start, count)
        BY <3>4, <4>1
      <4> HIDE DEF d, len
      <4> QED
        BY <3>4, <4>2
    <3>6. Covers(f[d], d, start, count)
      BY <3>1, <3>3, <3>5, OnePassMore
    <3> QED
      BY <2>2, <3>6
  <2> QED
    BY <2>3, <2>4
<1>5. Covers(f[0], 0, start, count)
  <2>1. n \notin Bad /\ n \in 0..n /\ n - n = 0
    BY <1>2, <1>4
  <2>2. Covers(f[n - n], n - n, start, count)
    BY <2>1
  <2> QED
    BY <2>1, <2>2
<1> QED
  BY <1>1, <1>5

-----------------------------------------------------------------------------
(* Induction up to n, for a set instead of a predicate.                    *)
LEMMA UpTo ==
    ASSUME NEW m \in Nat, NEW n \in Nat, NEW S, m \in S,
           \A k \in m..(n - 1) : k \in S => k + 1 \in S
    PROVE  \A k \in m..n : k \in S
<1> DEFINE Bad == {k \in m..n : k \notin S}
<1> SUFFICES ASSUME Bad # {} PROVE FALSE
  OBVIOUS
<1>1. PICK k \in Bad : \A y \in Bad : k <= y
  <2>1. Bad \in SUBSET Nat
    OBVIOUS
  <2> HIDE DEF Bad
  <2> QED
    BY <2>1, LeastOf
<1>2. k \in m..n /\ k \notin S
  OBVIOUS
<1>3. k # m
  BY <1>2
<1>4. k - 1 \in m..(n - 1) /\ k - 1 \in m..n /\ (k - 1) + 1 = k /\ ~(k <= k - 1)
  BY <1>2, <1>3
<1>5. k - 1 \in S
  <2>1. k - 1 \notin Bad
    <3> HIDE DEF Bad
    <3> QED
      BY <1>1, <1>4
  <2> QED
    BY <1>4, <2>1
<1> QED
  BY <1>2, <1>4, <1>5

(* FlattenSeq() concatenates one sequence after the other.                 *)
LEMMA FlattenExists ==
    ASSUME NEW X, NEW q \in Seq(Seq(X)), q # <<>>
    PROVE  \E f \in [1..Len(q) -> Seq(X)] :
              f = [i \in 1..Len(q) |-> IF i = 1 THEN q[i] ELSE f[i - 1] \o q[i]]
<1> DEFINE n == Len(q)
           Step(f, i) == IF i = 1 THEN q[i] ELSE f[i - 1] \o q[i]
           Solves(f, k) == \A i \in 1..k : f[i] = Step(f, i)
           S == {k \in 1..n : \E f \in [1..n -> Seq(X)] : Solves(f, k)}
<1>1. n \in Nat /\ n > 0 /\ \A i \in 1..n : q[i] \in Seq(X)
  OBVIOUS
<1>2. 1 \in S
  <2> DEFINE f == [i \in 1..n |-> q[i]]
  <2>1. f \in [1..n -> Seq(X)]
    BY <1>1
  <2>2. 1 \in 1..n /\ Solves(f, 1)
    BY <1>1
  <2> HIDE DEF Solves, f
  <2> QED
    BY <2>1, <2>2
<1>3. ASSUME NEW k \in 1..(n - 1), k \in S PROVE k + 1 \in S
  <2>1. PICK f \in [1..n -> Seq(X)] : Solves(f, k)
    BY <1>3
  <2> DEFINE g == [i \in 1..n |-> IF i = k + 1 THEN f[k] \o q[k + 1] ELSE f[i]]
  <2>2. k + 1 \in 1..n /\ k \in 1..n /\ k + 1 # 1
    BY <1>1
  <2>3. f[k] \in Seq(X) /\ q[k + 1] \in Seq(X)
    BY <1>1, <2>2
  <2>4. f[k] \o q[k + 1] \in Seq(X)
    BY <2>3
  <2>5. g \in [1..n -> Seq(X)]
    BY <2>4
  <2>6. \A i \in 1..k : g[i] = f[i]
    BY <1>1
  <2>7. Solves(g, k + 1)
    <3> SUFFICES ASSUME NEW i \in 1..(k + 1) PROVE g[i] = Step(g, i)
      OBVIOUS
    <3>1. CASE i = k + 1
      <4>1. g[i] = f[k] \o q[k + 1] /\ g[k] = f[k] /\ i - 1 = k /\ i # 1
        BY <2>2, <2>6, <3>1
      <4> HIDE DEF g
      <4> QED
        BY <3>1, <4>1
    <3>2. CASE i # k + 1
      <4>1. i \in 1..k /\ (i # 1 => i - 1 \in 1..k)
        BY <3>2
      <4>2. g[i] = f[i] /\ (i # 1 => g[i - 1] = f[i - 1]) /\ f[i] = Step(f, i)
        BY <2>1, <2>6, <4>1
      <4> HIDE DEF g
      <4> QED
        BY <4>2
    <3> QED
      BY <3>1, <3>2
  <2> HIDE DEF Solves, g
  <2> QED
    BY <2>2, <2>5, <2>7
<1>4. n \in S
  <2>1. \A k \in 1..n : k \in S
    <3> HIDE DEF S, n
    <3> QED
      BY <1>1, <1>2, <1>3, UpTo
  <2>2. n \in 1..n
    BY <1>1
  <2> HIDE DEF S
  <2> QED
    BY <2>1, <2>2
<1>5. PICK f \in [1..n -> Seq(X)] : Solves(f, n)
  BY <1>4
<1>6. f = [i \in 1..n |-> Step(f, i)]
  BY <1>5
<1> QED
  BY <1>6

LEMMA Flattens ==
    ASSUME NEW X, NEW q \in Seq(Seq(X)), q # <<>>
    PROVE  \E f : /\ f[1] = q[1]
                  /\ \A i \in 2..Len(q) : f[i] = f[i - 1] \o q[i]
                  /\ FlattenSeq(q) = f[Len(q)]
<1> DEFINE flatten[i \in 1..Len(q)] == IF i = 1 THEN q[i] ELSE flatten[i - 1] \o q[i]
<1>1. Len(q) # 0 /\ Len(q) \in Nat
  OBVIOUS
<1>2. FlattenSeq(q) = flatten[Len(q)]
  BY <1>1, Zenon DEF FlattenSeq
<1>3. \E f : f = [i \in 1..Len(q) |-> IF i = 1 THEN q[i] ELSE f[i - 1] \o q[i]]
  <2>1. \E f \in [1..Len(q) -> Seq(X)] :
          f = [i \in 1..Len(q) |-> IF i = 1 THEN q[i] ELSE f[i - 1] \o q[i]]
    BY FlattenExists, Zenon
  <2> QED
    BY <2>1, Zenon
<1>4. flatten = [i \in 1..Len(q) |-> IF i = 1 THEN q[i] ELSE flatten[i - 1] \o q[i]]
  BY <1>3, Zenon DEF flatten
<1> HIDE DEF flatten
<1>5. /\ flatten[1] = q[1]
      /\ \A i \in 2..Len(q) : flatten[i] = flatten[i - 1] \o q[i]
  <2>1. \A i \in 1..Len(q) : flatten[i] = IF i = 1 THEN q[i] ELSE flatten[i - 1] \o q[i]
    BY <1>4, Zenon
  <2>2. 1 \in 1..Len(q) /\ \A i \in 2..Len(q) : i \in 1..Len(q) /\ i # 1
    BY <1>1
  <2> QED
    BY <2>1, <2>2
<1> QED
  BY <1>2, <1>5

(* What each part has and \o keeps, the whole has.                         *)
LEMMA FlattenKeeps ==
    ASSUME NEW X, NEW q \in Seq(Seq(X)), NEW S \in SUBSET Seq(X),
           <<>> \in S, \A i \in 1..Len(q) : q[i] \in S, \A a, b \in S : a \o b \in S
    PROVE  FlattenSeq(q) \in S
<1>1. CASE q = <<>>
  <2>1. Len(q) = 0
    BY <1>1
  <2> QED
    BY <1>1, <2>1 DEF FlattenSeq
<1>2. CASE q # <<>>
  <2>1. PICK f : /\ f[1] = q[1]
                 /\ \A i \in 2..Len(q) : f[i] = f[i - 1] \o q[i]
                 /\ FlattenSeq(q) = f[Len(q)]
    BY <1>2, Flattens
  <2> DEFINE n == Len(q)
             T == {k \in 1..n : f[k] \in S}
  <2>2. n \in Nat /\ n > 0
    BY <1>2
  <2>3. 1 \in T
    BY <2>1, <2>2
  <2>4. ASSUME NEW k \in 1..(n - 1), k \in T PROVE k + 1 \in T
    <3>1. k + 1 \in 2..Len(q) /\ (k + 1) - 1 = k /\ k + 1 \in 1..Len(q)
      BY <2>2
    <3>2. f[k + 1] = f[k] \o q[k + 1] /\ f[k] \in S /\ q[k + 1] \in S
      BY <2>1, <2>4, <3>1
    <3>3. f[k + 1] \in S
      BY <3>2
    <3> QED
      BY <3>1, <3>3
  <2>5. \A k \in 1..n : k \in T
    <3> HIDE DEF T, n
    <3> QED
      BY <2>2, <2>3, <2>4, UpTo
  <2> QED
    BY <2>1, <2>2, <2>5
<1> QED
  BY <1>1, <1>2

-----------------------------------------------------------------------------
(* The rows the operations leave open, one operation after the other.      *)
RowsThen(rows, op, bank) ==
    IF Reaches(op, "PRE", bank) THEN {}
    ELSE IF Reaches(op, "ACT", bank) THEN rows \cup {op.addr.row}
    ELSE rows

LEMMA OpenedFirst == \A ops, bank : Opened(ops, bank, 0) = {}
BY DEF Opened

LEMMA OpenedNext ==
    ASSUME NEW ops, NEW bank, NEW k \in Nat
    PROVE  Opened(ops, bank, k + 1) = RowsThen(Opened(ops, bank, k), ops[k + 1], bank)
<1> DEFINE Act(j) == Reaches(ops[j], "ACT", bank)
           Pre(j) == Reaches(ops[j], "PRE", bank)
           Row(j) == ops[j].addr.row
<1>1. \A n, x : x \in Opened(ops, bank, n) <=>
                  \E j \in 1..n : Act(j) /\ (\A i \in j + 1..n : ~Pre(i)) /\ x = Row(j)
  BY DEF Opened
<1>2. ~(Act(k + 1) /\ Pre(k + 1))
  BY DEF Reaches
<1>3. \A x : x \in RowsThen(Opened(ops, bank, k), ops[k + 1], bank) <=>
               ~Pre(k + 1) /\ (x \in Opened(ops, bank, k) \/ (Act(k + 1) /\ x = Row(k + 1)))
  <2> TAKE x
  <2>1. CASE Pre(k + 1)
    BY <2>1 DEF RowsThen
  <2>2. CASE ~Pre(k + 1) /\ Act(k + 1)
    BY <2>2 DEF RowsThen
  <2>3. CASE ~Pre(k + 1) /\ ~Act(k + 1)
    BY <2>3 DEF RowsThen
  <2> QED
    BY <2>1, <2>2, <2>3
<1> HIDE DEF Act, Pre, Row
<1>4. ASSUME NEW x
      PROVE  x \in Opened(ops, bank, k + 1) <=>
               ~Pre(k + 1) /\ (x \in Opened(ops, bank, k) \/ (Act(k + 1) /\ x = Row(k + 1)))
  <2>1. ASSUME NEW j \in 1..k + 1, Act(j), \A i \in j + 1..k + 1 : ~Pre(i), x = Row(j)
        PROVE  ~Pre(k + 1) /\ (x \in Opened(ops, bank, k) \/ (Act(k + 1) /\ x = Row(k + 1)))
    <3>1. CASE j = k + 1
      BY <1>2, <2>1, <3>1
    <3>2. CASE j # k + 1
      <4>1. j \in 1..k /\ k + 1 \in j + 1..k + 1 /\ \A i \in j + 1..k : i \in j + 1..k + 1
        BY <3>2
      <4> QED
        BY <1>1, <2>1, <4>1
    <3> QED
      BY <3>1, <3>2
  <2>2. ASSUME ~Pre(k + 1), x \in Opened(ops, bank, k)
        PROVE  x \in Opened(ops, bank, k + 1)
    <3>1. PICK j \in 1..k : Act(j) /\ (\A i \in j + 1..k : ~Pre(i)) /\ x = Row(j)
      BY <1>1, <2>2
    <3>2. j \in 1..k + 1 /\ \A i \in j + 1..k + 1 : i \in j + 1..k \/ i = k + 1
      OBVIOUS
    <3> QED
      BY <1>1, <2>2, <3>1, <3>2
  <2>3. ASSUME ~Pre(k + 1), Act(k + 1), x = Row(k + 1)
        PROVE  x \in Opened(ops, bank, k + 1)
    <3>1. k + 1 \in 1..k + 1 /\ \A i \in (k + 1) + 1..k + 1 : FALSE
      OBVIOUS
    <3> QED
      BY <1>1, <2>3, <3>1
  <2> QED
    BY <1>1, <2>1, <2>2, <2>3
<1> QED
  BY <1>3, <1>4

-----------------------------------------------------------------------------
(* Parts of an expansion that leave a bank as they found it, closed.       *)
Tidy(ops, bank) ==
    /\ \A i \in 1..Len(ops) :
          /\ Reaches(ops[i], "ACT", bank) => Opened(ops, bank, i - 1) = {}
          /\ Reaches(ops[i], "PRE", bank) => Opened(ops, bank, i - 1) = {ops[i].addr.row}
          /\ UsesOpenRow(ops[i]) => Opened(ops, bank, i - 1) = {ops[i].addr.row}
    /\ Opened(ops, bank, Len(ops)) = {}

LEMMA AppendParts ==
    ASSUME NEW X, NEW s \in Seq(X), NEW t \in Seq(X)
    PROVE  /\ s \o t \in Seq(X) /\ Len(s \o t) = Len(s) + Len(t)
           /\ Len(s) \in Nat /\ Len(t) \in Nat
           /\ \A i \in 1..Len(s) : (s \o t)[i] = s[i]
           /\ \A i \in 1..Len(t) : (s \o t)[Len(s) + i] = t[i]
           /\ \A i \in 1..Len(s \o t) :
                 \/ i \in 1..Len(s)
                 \/ i - Len(s) \in 1..Len(t) /\ i = Len(s) + (i - Len(s))
OBVIOUS

LEMMA OpenedAppend ==
    ASSUME NEW X, NEW s \in Seq(X), NEW t \in Seq(X), NEW bank,
           Opened(s, bank, Len(s)) = {}
    PROVE  /\ \A k \in 0..Len(s) : Opened(s \o t, bank, k) = Opened(s, bank, k)
           /\ \A k \in 0..Len(t) : Opened(s \o t, bank, Len(s) + k) = Opened(t, bank, k)
<1> DEFINE u == s \o t
           m == Len(s)
           n == Len(t)
           S == {k \in 0..m : Opened(u, bank, k) = Opened(s, bank, k)}
           T == {k \in 0..n : Opened(u, bank, m + k) = Opened(t, bank, k)}
<1>1. /\ m \in Nat /\ n \in Nat
      /\ \A i \in 1..m : u[i] = s[i]
      /\ \A i \in 1..n : u[m + i] = t[i]
  BY AppendParts
<1> HIDE DEF u, m, n
<1>2. \A k \in 0..m : k \in S
  <2>1. 0 \in S
    <3>1. Opened(u, bank, 0) = {} /\ Opened(s, bank, 0) = {}
      BY OpenedFirst, Zenon
    <3>2. 0 \in 0..m
      BY <1>1
    <3> QED
      BY <3>1, <3>2
  <2>2. ASSUME NEW k \in 0..(m - 1), k \in S PROVE k + 1 \in S
    <3>1. k \in Nat /\ k + 1 \in 1..m
      BY <1>1
    <3>2. Opened(u, bank, k + 1) = Opened(s, bank, k + 1)
      BY <1>1, <2>2, <3>1, OpenedNext
    <3> QED
      BY <3>1, <3>2
  <2> HIDE DEF S
  <2> QED
    BY <1>1, <2>1, <2>2, UpTo
<1>3. Opened(u, bank, m) = {}
  BY <1>1, <1>2 DEF m
<1>4. \A k \in 0..n : k \in T
  <2>1. 0 \in T
    <3>1. Opened(t, bank, 0) = {} /\ m + 0 = m /\ 0 \in 0..n
      BY <1>1, OpenedFirst
    <3> QED
      BY <1>3, <3>1
  <2>2. ASSUME NEW k \in 0..(n - 1), k \in T PROVE k + 1 \in T
    <3>1. k \in Nat /\ k + 1 \in 1..n /\ m + k \in Nat /\ (m + k) + 1 = m + (k + 1)
      BY <1>1
    <3>2. Opened(t, bank, k + 1) = RowsThen(Opened(t, bank, k), t[k + 1], bank)
      BY <3>1, OpenedNext
    <3>3. Opened(u, bank, (m + k) + 1)
             = RowsThen(Opened(u, bank, m + k), u[(m + k) + 1], bank)
      BY <3>1, OpenedNext
    <3>4. Opened(u, bank, m + (k + 1)) = Opened(t, bank, k + 1)
      BY <1>1, <2>2, <3>1, <3>2, <3>3
    <3> QED
      BY <3>1, <3>4
  <2> HIDE DEF T
  <2> QED
    BY <1>1, <2>1, <2>2, UpTo
<1> QED
  BY <1>2, <1>4 DEF u, m, n

LEMMA TidyAppend ==
    ASSUME NEW X, NEW s \in Seq(X), NEW t \in Seq(X), NEW bank,
           Tidy(s, bank), Tidy(t, bank)
    PROVE  Tidy(s \o t, bank)
<1> DEFINE u == s \o t
           m == Len(s)
           n == Len(t)
<1>1. /\ m \in Nat /\ n \in Nat /\ Len(u) = m + n
      /\ \A i \in 1..m : u[i] = s[i]
      /\ \A i \in 1..n : u[m + i] = t[i]
      /\ \A i \in 1..Len(u) : i \in 1..m \/ (i - m \in 1..n /\ i = m + (i - m))
  BY AppendParts
<1>2. /\ \A k \in 0..m : Opened(u, bank, k) = Opened(s, bank, k)
      /\ \A k \in 0..n : Opened(u, bank, m + k) = Opened(t, bank, k)
  BY OpenedAppend DEF Tidy
<1>3. /\ \A i \in 1..m :
            /\ Reaches(s[i], "ACT", bank) => Opened(s, bank, i - 1) = {}
            /\ Reaches(s[i], "PRE", bank) => Opened(s, bank, i - 1) = {s[i].addr.row}
            /\ UsesOpenRow(s[i]) => Opened(s, bank, i - 1) = {s[i].addr.row}
      /\ \A i \in 1..n :
            /\ Reaches(t[i], "ACT", bank) => Opened(t, bank, i - 1) = {}
            /\ Reaches(t[i], "PRE", bank) => Opened(t, bank, i - 1) = {t[i].addr.row}
            /\ UsesOpenRow(t[i]) => Opened(t, bank, i - 1) = {t[i].addr.row}
      /\ Opened(t, bank, n) = {}
  BY DEF Tidy
<1> HIDE DEF u, m, n
<1>4. ASSUME NEW i \in 1..Len(u)
      PROVE  /\ Reaches(u[i], "ACT", bank) => Opened(u, bank, i - 1) = {}
             /\ Reaches(u[i], "PRE", bank) => Opened(u, bank, i - 1) = {u[i].addr.row}
             /\ UsesOpenRow(u[i]) => Opened(u, bank, i - 1) = {u[i].addr.row}
  <2>1. CASE i \in 1..m
    <3>1. u[i] = s[i] /\ Opened(u, bank, i - 1) = Opened(s, bank, i - 1)
      <4>1. i - 1 \in 0..m
        BY <1>1, <2>1
      <4> QED
        BY <1>1, <1>2, <2>1, <4>1
    <3> QED
      BY <1>3, <2>1, <3>1
  <2>2. CASE i - m \in 1..n /\ i = m + (i - m)
    <3> DEFINE j == i - m
    <3>1. j \in 1..n /\ i = m + j /\ j - 1 \in 0..n /\ i - 1 = m + (j - 1)
      BY <1>1, <2>2
    <3> HIDE DEF j
    <3>2. u[i] = t[j] /\ Opened(u, bank, i - 1) = Opened(t, bank, j - 1)
      BY <1>1, <1>2, <3>1
    <3> QED
      BY <1>3, <3>1, <3>2
  <2> QED
    BY <1>1, <2>1, <2>2
<1>5. Opened(u, bank, Len(u)) = {}
  <2>1. n \in 0..n
    BY <1>1
  <2> QED
    BY <1>1, <1>2, <1>3, <2>1
<1>6. Tidy(u, bank)
  BY <1>4, <1>5 DEF Tidy
<1> QED
  BY <1>6 DEF u

(* Operations that neither move rows nor need one.                         *)
LEMMA QuietTidy ==
    ASSUME NEW X, NEW s \in Seq(X), NEW bank,
           \A i \in 1..Len(s) : /\ ~Reaches(s[i], "ACT", bank) /\ ~Reaches(s[i], "PRE", bank)
                                /\ ~UsesOpenRow(s[i])
    PROVE  Tidy(s, bank)
<1> DEFINE n == Len(s)
           S == {k \in 0..n : Opened(s, bank, k) = {}}
<1>1. n \in Nat
  OBVIOUS
<1> HIDE DEF n
<1>2. \A k \in 0..n : k \in S
  <2>1. 0 \in S
    BY <1>1, OpenedFirst
  <2>2. ASSUME NEW k \in 0..(n - 1), k \in S PROVE k + 1 \in S
    <3>1. k \in Nat /\ k + 1 \in 1..n
      BY <1>1
    <3>2. Opened(s, bank, k + 1) = RowsThen(Opened(s, bank, k), s[k + 1], bank)
      BY <3>1, OpenedNext
    <3>3. RowsThen(Opened(s, bank, k), s[k + 1], bank) = Opened(s, bank, k)
      BY <3>1 DEF RowsThen, n
    <3> QED
      BY <2>2, <3>1, <3>2, <3>3
  <2> HIDE DEF S
  <2> QED
    BY <1>1, <2>1, <2>2, UpTo
<1>3. Opened(s, bank, n) = {}
  BY <1>1, <1>2
<1> QED
  BY <1>3 DEF Tidy, n

-----------------------------------------------------------------------------
(* The banks in the order enqueue_per_bank_command() visits them.          *)
LEMMA Factors ==
    ASSUME NEW a \in Nat, NEW b \in Nat
    PROVE  /\ a * b \in Nat
           /\ a * b > 0 => a > 0 /\ b > 0
BY Z3

LEMMA BanksNat ==
    /\ TotalBanks \in Nat /\ NumBgs * NumBanks \in Nat
    /\ TotalBanks > 0 => NumBanks > 0 /\ NumBgs * NumBanks > 0
<1> DEFINE a == NumPchs * NumBgs
           b == NumBgs * NumBanks
<1>1. a \in Nat /\ (a > 0 => NumBgs > 0)
  BY ConfigAssumption, Factors
<1>2. a * NumBanks \in Nat /\ (a * NumBanks > 0 => a > 0 /\ NumBanks > 0)
  BY <1>1, ConfigAssumption, Factors
<1>3. b \in Nat
  BY ConfigAssumption, Factors
<1>4. NumBgs > 0 /\ NumBanks > 0 => b > 0
  <2> DEFINE p == NumBgs  q == NumBanks
  <2>1. p \in Nat /\ q \in Nat
    BY ConfigAssumption
  <2> HIDE DEF p, q
  <2>2. p > 0 /\ q > 0 => p * q > 0
    BY <2>1, Z3
  <2> QED
    BY <2>2 DEF p, q
<1> QED
  BY <1>1, <1>2, <1>3, <1>4 DEF TotalBanks

LEMMA BanksPositive == TotalBanks \in Nat \ {0}
<1> DEFINE p == NumPchs  g == NumBgs  b == NumBanks
<1>1. p \in Nat \ {0} /\ g \in Nat \ {0} /\ b \in Nat \ {0}
  BY ConfigAssumption
<1> HIDE DEF p, g, b
<1>2. p * g \in Nat \ {0}
  BY <1>1, Z3
<1>3. p * g * b \in Nat \ {0}
  <2> DEFINE r == p * g
  <2> HIDE DEF r
  <2>1. r * b \in Nat \ {0}
    BY <1>1, <1>2, Z3 DEF r
  <2> QED
    BY <2>1 DEF r
<1> QED
  BY <1>3 DEF TotalBanks, p, g, b

LEMMA BankIndex ==
    ASSUME NEW k \in 0..(TotalBanks - 1)
    PROVE  /\ BankPath(k) \in Nat \X Nat \X Nat
           /\ Len(BankPath(k)) = 3
           /\ k = (NumBgs * NumBanks) * BankPath(k)[1] + (NumBanks * BankPath(k)[2] + BankPath(k)[3])
<1> DEFINE w == NumBgs * NumBanks
           v == NumBanks
           r == k % w
<1>1. k \in Nat /\ w \in Nat \ {0} /\ v \in Nat \ {0}
  BY BanksNat, ConfigAssumption
<1>2. BankPath(k) = <<k \div w, r \div v, k % v>>
  BY DEF BankPath
<1> HIDE DEF w, v
<1>3. k \div w \in Nat /\ r \in Nat /\ k = w * (k \div w) + r
  <2>1. k \div w \in Nat /\ k % w \in 0..(w - 1) /\ k = w * (k \div w) + (k % w)
    BY <1>1, DivMod
  <2> QED
    BY <2>1
<1>4. r \div v \in Nat /\ r = v * (r \div v) + (r % v) /\ r % v \in Nat
  <2> HIDE DEF r
  <2>1. r \div v \in Nat /\ r % v \in 0..(v - 1) /\ r = v * (r \div v) + (r % v)
    BY <1>1, <1>3, DivMod
  <2> QED
    BY <2>1
<1>5. r % v = k % v
  <2> DEFINE g == NumBgs
             q == k \div w
             e == r \div v
             t == r % v
             h == g * q + e
  <2>1. /\ g \in Nat /\ q \in Nat /\ e \in Nat /\ t \in 0..(v - 1) /\ r = v * e + t
        /\ k = w * q + r /\ w = g * v
    <3>1. t \in 0..(v - 1)
      <4> HIDE DEF r
      <4> QED
        BY <1>1, <1>3, DivMod
    <3>2. w = g * v /\ g \in Nat
      BY ConfigAssumption DEF w, v
    <3> QED
      BY <1>3, <1>4, <3>1, <3>2
  <2> HIDE DEF g, q, e, t, r
  <2>2. (g * v) * q + (v * e + t) = v * (g * q + e) + t /\ g * q \in Int
    BY <1>1, <2>1, Z3
  <2>3. k = v * h + t /\ h \in Int
    BY <2>1, <2>2
  <2> HIDE DEF h
  <2>4. k \div v \in Int /\ k % v \in 0..(v - 1) /\ k = v * (k \div v) + (k % v)
    BY <1>1, DivMod
  <2> DEFINE p == k \div v
             s == k % v
  <2>5. p \in Int /\ s \in 0..(v - 1) /\ v * p + s = v * h + t
    BY <2>3, <2>4
  <2> HIDE DEF p, s
  <2>6. s = t
    <3>1. v \in Nat \ {0} /\ h \in Int /\ t \in 0..(v - 1)
      BY <1>1, <2>1, <2>3
    <3> QED
      BY <2>5, <3>1, Unique
  <2> QED
    BY <2>6 DEF s, t
<1>6. k = w * (k \div w) + (v * (r \div v) + (k % v))
  BY <1>3, <1>4, <1>5
<1> DEFINE a == k \div w
           b == r \div v
           c == k % v
<1>7. a \in Nat /\ b \in Nat /\ c \in Nat /\ BankPath(k) = <<a, b, c>> /\ k = w * a + (v * b + c)
  BY <1>2, <1>3, <1>4, <1>5, <1>6
<1> HIDE DEF a, b, c, r
<1>8. /\ BankPath(k) \in Nat \X Nat \X Nat /\ Len(BankPath(k)) = 3
      /\ BankPath(k)[1] = a /\ BankPath(k)[2] = b /\ BankPath(k)[3] = c
  BY <1>7
<1> QED
  BY <1>7, <1>8 DEF w, v

LEMMA ReachesAtBank ==
    ASSUME NEW j \in 0..(TotalBanks - 1), NEW k \in 0..(TotalBanks - 1), NEW cmd, NEW c,
           NEW addr \in [path : Int \X Int \X Int, row : Int, col : Int]
    PROVE  Reaches(CommandOp(cmd, AtBank(addr, j)), c, BankPath(k)) <=> cmd = c /\ j = k
<1> DEFINE op == CommandOp(cmd, AtBank(addr, j))
           p == BankPath(j)
           q == BankPath(k)
<1>1. op.kind = "Command" /\ op.command = cmd /\ op.addr.path = p
  BY DEF CommandOp, AtBank
<1>2. /\ p \in Nat \X Nat \X Nat /\ q \in Nat \X Nat \X Nat
      /\ j = (NumBgs * NumBanks) * p[1] + (NumBanks * p[2] + p[3])
      /\ k = (NumBgs * NumBanks) * q[1] + (NumBanks * q[2] + q[3])
  BY BankIndex
<1> HIDE DEF op, p, q
<1>3. /\ \A n \in 1..3 : p[n] \in Nat /\ q[n] \in Nat
      /\ p = <<p[1], p[2], p[3]>> /\ q = <<q[1], q[2], q[3]>>
  BY <1>2
<1>4. Reaches(op, c, q) <=> cmd = c /\ \A n \in 1..3 : p[n] = q[n]
  BY <1>1, <1>3 DEF Reaches
<1>5. (\A n \in 1..3 : p[n] = q[n]) => j = k
  <2> SUFFICES ASSUME \A n \in 1..3 : p[n] = q[n] PROVE j = k
    OBVIOUS
  <2>1. p[1] = q[1] /\ p[2] = q[2] /\ p[3] = q[3]
    OBVIOUS
  <2> QED
    BY <1>2, <2>1
<1>6. j = k => p = q
  BY DEF p, q
<1> QED
  BY <1>4, <1>5, <1>6 DEF op, q

-----------------------------------------------------------------------------
(* The operations of a token.                                              *)
OpAddr == [path : Int \X Int \X Int, row : Int, col : Int]
TokenOp(id) ==
    [kind : {"Command", "Delay", "ConfigureSPM", "Complete"},
     command : {"ACT", "PRE", "MAC", "SPM", "MOV", "EMUL", "ACC", "none"},
     addr : OpAddr, cycles : Int, request : {NoRequest, id}]

LEMMA CommandType ==
    ASSUME NEW id, NEW addr \in OpAddr,
           NEW cmd \in {"ACT", "PRE", "MAC", "SPM", "MOV", "EMUL", "ACC"}
    PROVE  /\ CommandOp(cmd, addr) \in TokenOp(id)
           /\ CommandOp(cmd, addr).kind = "Command" /\ CommandOp(cmd, addr).command = cmd
           /\ CommandOp(cmd, addr).addr = addr
BY DEF CommandOp, TokenOp

LEMMA AddrTypes ==
    ASSUME NEW addr \in OpAddr
    PROVE  /\ AllBanks(addr) \in OpAddr /\ AllBanks(addr).row = addr.row
           /\ \A k \in 0..(TotalBanks - 1) :
                 AtBank(addr, k) \in OpAddr /\ AtBank(addr, k).row = addr.row
<1>1. AnyBank \in Int \X Int \X Int
  BY DEF AnyBank
<1>2. ASSUME NEW k \in 0..(TotalBanks - 1)
      PROVE  AtBank(addr, k) \in OpAddr /\ AtBank(addr, k).row = addr.row
  <2>1. BankPath(k) \in Int \X Int \X Int
    <3>1. BankPath(k) \in Nat \X Nat \X Nat
      BY BankIndex
    <3> HIDE DEF TotalBanks
    <3> QED
      BY <3>1
  <2> QED
    BY <2>1 DEF AtBank, OpAddr
<1> QED
  BY <1>1, <1>2 DEF AllBanks, OpAddr

LEMMA PerBankIs ==
    ASSUME NEW id, NEW addr \in OpAddr, NEW cmd \in {"ACT", "PRE"}
    PROVE  /\ PerBank(cmd, addr) \in Seq(TokenOp(id))
           /\ Len(PerBank(cmd, addr)) = TotalBanks
           /\ \A i \in 1..TotalBanks :
                 PerBank(cmd, addr)[i] = CommandOp(cmd, AtBank(addr, i - 1))
<1>1. PerBank(cmd, addr) = [i \in 1..TotalBanks |-> CommandOp(cmd, AtBank(addr, i - 1))]
  <2>1. AtLeast(0, TotalBanks) = TotalBanks
    BY BanksNat DEF AtLeast
  <2> QED
    BY <2>1 DEF PerBank, Repeat
<1>2. \A i \in 1..TotalBanks : CommandOp(cmd, AtBank(addr, i - 1)) \in TokenOp(id)
  <2> TAKE i \in 1..TotalBanks
  <2>1. i - 1 \in 0..(TotalBanks - 1)
    BY BanksNat
  <2>2. AtBank(addr, i - 1) \in OpAddr
    BY <2>1, AddrTypes
  <2> QED
    BY <2>2, CommandType
<1> DEFINE n == TotalBanks
           Op(i) == CommandOp(cmd, AtBank(addr, i - 1))
           X == TokenOp(id)
           s == PerBank(cmd, addr)
<1>3. n \in Nat /\ s = [i \in 1..n |-> Op(i)] /\ \A i \in 1..n : Op(i) \in X
  BY <1>1, <1>2, BanksNat
<1> HIDE DEF n, Op, X, s
<1>4. s \in Seq(X) /\ Len(s) = n /\ \A i \in 1..n : s[i] = Op(i)
  BY <1>3
<1> QED
  BY <1>4 DEF n, Op, X, s

(* Places in the second and in the third of three parts.                  *)
LEMMA SecondPart ==
    ASSUME NEW n \in Nat, NEW l \in Nat, NEW k \in 0..(n - 1), NEW i \in n + 1..n + l
    PROVE  i # k + 1 /\ i # n + l + k + 1
OBVIOUS

LEMMA ThirdPart ==
    ASSUME NEW n \in Nat, NEW l \in Nat, NEW i \in n + l + 1..n + l + n
    PROVE  i - n - l \in 1..n /\ n + l + (i - n - l) = i
OBVIOUS

LEMMA RowTidy ==
    ASSUME NEW id, NEW addr \in OpAddr, NEW m \in Seq(TokenOp(id)),
           NEW k \in 0..(TotalBanks - 1),
           \A i \in 1..Len(m) :
              /\ ~Reaches(m[i], "ACT", BankPath(k)) /\ ~Reaches(m[i], "PRE", BankPath(k))
              /\ UsesOpenRow(m[i]) => m[i].addr.row = addr.row
    PROVE  Tidy(PerBank("ACT", addr) \o m \o PerBank("PRE", addr), BankPath(k))
<1> DEFINE a == PerBank("ACT", addr)
           z == PerBank("PRE", addr)
           s == a \o m \o z
           n == TotalBanks
           l == Len(m)
           b == BankPath(k)
           row == addr.row
           X == TokenOp(id)
<1>1. /\ n \in Nat /\ l \in Nat /\ k \in 0..(n - 1)
      /\ a \in Seq(X) /\ z \in Seq(X) /\ m \in Seq(X) /\ Len(a) = n /\ Len(z) = n /\ Len(m) = l
  BY BanksNat, PerBankIs
<1>2. ASSUME NEW i \in 1..n
      PROVE  /\ Reaches(a[i], "ACT", b) <=> i - 1 = k
             /\ ~Reaches(a[i], "PRE", b) /\ ~UsesOpenRow(a[i])
             /\ Reaches(z[i], "PRE", b) <=> i - 1 = k
             /\ ~Reaches(z[i], "ACT", b) /\ ~UsesOpenRow(z[i])
             /\ a[i].addr.row = row /\ z[i].addr.row = row
  <2>1. i - 1 \in 0..(TotalBanks - 1)
    BY BanksNat
  <2>2. /\ a[i] = CommandOp("ACT", AtBank(addr, i - 1))
        /\ z[i] = CommandOp("PRE", AtBank(addr, i - 1))
    BY PerBankIs
  <2>3. /\ Reaches(CommandOp("ACT", AtBank(addr, i - 1)), "ACT", b) <=> i - 1 = k
        /\ ~Reaches(CommandOp("ACT", AtBank(addr, i - 1)), "PRE", b)
        /\ Reaches(CommandOp("PRE", AtBank(addr, i - 1)), "PRE", b) <=> i - 1 = k
        /\ ~Reaches(CommandOp("PRE", AtBank(addr, i - 1)), "ACT", b)
    <3>1. addr \in [path : Int \X Int \X Int, row : Int, col : Int]
      BY Zenon DEF OpAddr
    <3>2. \A cmd, c : Reaches(CommandOp(cmd, AtBank(addr, i - 1)), c, b) <=> cmd = c /\ i - 1 = k
      BY <2>1, <3>1, ReachesAtBank
    <3> QED
      BY <3>2
  <2>4. AtBank(addr, i - 1) \in OpAddr /\ AtBank(addr, i - 1).row = row
    BY <2>1, AddrTypes
  <2>5. /\ CommandOp("ACT", AtBank(addr, i - 1)).command = "ACT"
        /\ CommandOp("ACT", AtBank(addr, i - 1)).addr.row = row
        /\ CommandOp("PRE", AtBank(addr, i - 1)).command = "PRE"
        /\ CommandOp("PRE", AtBank(addr, i - 1)).addr.row = row
    BY <2>4, CommandType
  <2> HIDE DEF a, z
  <2> QED
    BY <2>2, <2>3, <2>5 DEF UsesOpenRow
<1>3. \A i \in 1..l : /\ ~Reaches(m[i], "ACT", b) /\ ~Reaches(m[i], "PRE", b)
                      /\ UsesOpenRow(m[i]) => m[i].addr.row = row
  OBVIOUS
<1> HIDE DEF a, z, n, l, b, row, X
<1>4. a \o m \in Seq(X) /\ Len(a \o m) = n + l
  BY <1>1
<1>5. s \in Seq(X) /\ Len(s) = n + l + n
  BY <1>1, <1>4
<1>6. /\ \A i \in 1..n : s[i] = a[i]
      /\ \A i \in n + 1..n + l : i - n \in 1..l /\ s[i] = m[i - n]
      /\ \A i \in n + l + 1..n + l + n : i - n - l \in 1..n /\ s[i] = z[i - n - l]
  <2>1. \A i \in 1..(n + l) : s[i] = (a \o m)[i]
    BY <1>1, <1>4, AppendParts
  <2>2. \A i \in 1..n : s[n + l + i] = z[i]
    <3> DEFINE am == a \o m
    <3>1. am \in Seq(X) /\ Len(am) = n + l /\ z \in Seq(X) /\ Len(z) = n
      BY <1>1, <1>4
    <3>2. s = am \o z
      OBVIOUS
    <3> HIDE DEF am, s
    <3>3. \A i \in 1..Len(z) : s[Len(am) + i] = z[i]
      BY <3>1, <3>2, AppendParts
    <3> QED
      BY <3>1, <3>3
  <2>3. /\ \A i \in 1..n : (a \o m)[i] = a[i]
        /\ \A i \in 1..l : (a \o m)[n + i] = m[i]
    BY <1>1, AppendParts
  <2> HIDE DEF s
  <2>4. ASSUME NEW i \in n + 1..n + l PROVE i - n \in 1..l /\ s[i] = m[i - n]
    <3>1. i - n \in 1..l /\ n + (i - n) = i /\ i \in 1..(n + l)
      BY <1>1
    <3> QED
      BY <2>1, <2>3, <3>1
  <2>5. ASSUME NEW i \in n + l + 1..n + l + n PROVE i - n - l \in 1..n /\ s[i] = z[i - n - l]
    <3>1. i - n - l \in 1..n /\ n + l + (i - n - l) = i
      BY <1>1, ThirdPart
    <3> QED
      BY <2>2, <3>1
  <2>6. \A i \in 1..n : i \in 1..(n + l)
    BY <1>1
  <2> QED
    BY <2>1, <2>3, <2>4, <2>5, <2>6
<1>7. ASSUME NEW i \in 1..Len(s)
      PROVE  /\ Reaches(s[i], "ACT", b) <=> i = k + 1
             /\ Reaches(s[i], "PRE", b) <=> i = n + l + k + 1
             /\ UsesOpenRow(s[i]) => i \in n + 1..n + l
             /\ Reaches(s[i], "ACT", b) \/ Reaches(s[i], "PRE", b) \/ UsesOpenRow(s[i])
                   => s[i].addr.row = row
  <2> HIDE DEF s
  <2>1. CASE i \in 1..n
    <3>1. s[i] = a[i] /\ (i - 1 = k <=> i = k + 1) /\ i # n + l + k + 1
      BY <1>1, <1>6, <2>1
    <3> QED
      BY <1>2, <2>1, <3>1
  <2>2. CASE i \in n + 1..n + l
    <3>1. s[i] = m[i - n] /\ i - n \in 1..l
      BY <1>6, <2>2, Zenon
    <3>2. i # k + 1 /\ i # n + l + k + 1
      BY <1>1, <2>2, SecondPart
    <3> QED
      BY <1>3, <2>2, <3>1, <3>2
  <2>3. CASE i \in n + l + 1..n + l + n
    <3>1. /\ s[i] = z[i - n - l] /\ i - n - l \in 1..n /\ i # k + 1
          /\ ((i - n - l) - 1 = k <=> i = n + l + k + 1)
      <4>1. i \in Nat /\ i > n + l /\ i <= n + l + n
        BY <1>1, <2>3
      <4>2. i # k + 1 /\ ((i - n - l) - 1 = k <=> i = n + l + k + 1)
        BY <1>1, <4>1
      <4> QED
        BY <1>6, <2>3, <4>2
    <3> QED
      BY <1>2, <3>1
  <2> QED
    BY <1>1, <1>5, <2>1, <2>2, <2>3
<1> HIDE DEF s
<1> DEFINE At(i) == IF k < i /\ i <= n + l + k THEN {row} ELSE {}
           S == {i \in 0..Len(s) : Opened(s, b, i) = At(i)}
<1>8. \A i \in 0..Len(s) : i \in S
  <2>1. 0 \in S
    <3>1. Opened(s, b, 0) = {}
      BY OpenedFirst, Zenon
    <3>2. 0 \in 0..Len(s) /\ At(0) = {}
      BY <1>1, <1>5
    <3> HIDE DEF At
    <3> QED
      BY <3>1, <3>2
  <2>2. ASSUME NEW i \in 0..(Len(s) - 1), i \in S PROVE i + 1 \in S
    <3>1. i \in Nat /\ i + 1 \in 1..Len(s) /\ i + 1 \in 0..Len(s)
      BY <1>1, <1>5
    <3>2. Opened(s, b, i + 1) = RowsThen(Opened(s, b, i), s[i + 1], b)
      BY <3>1, OpenedNext
    <3>3. Opened(s, b, i) = At(i)
      BY <2>2
    <3>4. CASE i = k
      <4>1. /\ Reaches(s[i + 1], "ACT", b) /\ s[i + 1].addr.row = row
            /\ ~Reaches(s[i + 1], "PRE", b) /\ At(i) = {} /\ At(i + 1) = {row}
        BY <1>1, <1>7, <3>1, <3>4
      <4> HIDE DEF At
      <4>2. Opened(s, b, i + 1) = {row}
        BY <3>2, <3>3, <4>1 DEF RowsThen
      <4> QED
        BY <3>1, <4>1, <4>2
    <3>5. CASE i = n + l + k
      <4>1. Reaches(s[i + 1], "PRE", b) /\ At(i + 1) = {}
        BY <1>1, <1>7, <3>1, <3>5
      <4> HIDE DEF At
      <4>2. Opened(s, b, i + 1) = {}
        BY <3>2, <4>1 DEF RowsThen
      <4> QED
        BY <3>1, <4>1, <4>2
    <3>6. CASE i # k /\ i # n + l + k
      <4>1. /\ ~Reaches(s[i + 1], "PRE", b) /\ ~Reaches(s[i + 1], "ACT", b)
            /\ At(i + 1) = At(i)
        BY <1>1, <1>7, <3>1, <3>6
      <4> HIDE DEF At
      <4>2. Opened(s, b, i + 1) = At(i)
        BY <3>2, <3>3, <4>1 DEF RowsThen
      <4> QED
        BY <3>1, <4>1, <4>2
    <3> QED
      BY <3>4, <3>5, <3>6
  <2> HIDE DEF S
  <2>3. Len(s) \in Nat
    BY <1>1, <1>5
  <2> QED
    BY <2>1, <2>2, <2>3, UpTo
<1>9. ASSUME NEW i \in 1..Len(s)
      PROVE  Opened(s, b, i - 1) = At(i - 1)
  <2>1. i - 1 \in 0..Len(s)
    BY <1>5
  <2> QED
    BY <1>8, <2>1
<1>10. Opened(s, b, Len(s)) = {}
  <2>1. Len(s) \in 0..Len(s) /\ At(Len(s)) = {}
    BY <1>1, <1>5
  <2> HIDE DEF At
  <2> QED
    BY <1>8, <2>1
<1>11. ASSUME NEW i \in 1..Len(s)
       PROVE  /\ Reaches(s[i], "ACT", b) => Opened(s, b, i - 1) = {}
              /\ Reaches(s[i], "PRE", b) => Opened(s, b, i - 1) = {s[i].addr.row}
              /\ UsesOpenRow(s[i]) => Opened(s, b, i - 1) = {s[i].addr.row}
  <2>1. /\ Reaches(s[i], "ACT", b) => At(i - 1) = {}
        /\ Reaches(s[i], "PRE", b) => At(i - 1) = {row}
        /\ UsesOpenRow(s[i]) => At(i - 1) = {row}
    BY <1>1, <1>7
  <2> HIDE DEF At
  <2> QED
    BY <1>7, <1>9, <2>1
<1>12. Tidy(s, b)
  BY <1>10, <1>11 DEF Tidy
<1> QED
  BY <1>12 DEF s, a, z, b

-----------------------------------------------------------------------------
(* The stages of a token, one after the other.                             *)
TidyOps(id) ==
    {s \in Seq(TokenOp(id)) : \A k \in 0..(TotalBanks - 1) : Tidy(s, BankPath(k))}

LEMMA TidyOpsAppend ==
    ASSUME NEW id, NEW s \in TidyOps(id), NEW t \in TidyOps(id)
    PROVE  s \o t \in TidyOps(id)
<1> DEFINE X == TokenOp(id)
<1>1. /\ s \in Seq(X) /\ t \in Seq(X)
      /\ \A k \in 0..(TotalBanks - 1) : Tidy(s, BankPath(k)) /\ Tidy(t, BankPath(k))
  BY DEF TidyOps
<1> HIDE DEF X
<1>2. \A k \in 0..(TotalBanks - 1) : Tidy(s \o t, BankPath(k))
  BY <1>1, TidyAppend
<1>3. s \o t \in Seq(X)
  BY <1>1
<1> QED
  BY <1>2, <1>3 DEF TidyOps, X

LEMMA QuietOps ==
    ASSUME NEW id, NEW s \in Seq(TokenOp(id)),
           \A i \in 1..Len(s) : s[i].command \notin {"ACT", "PRE"} /\ ~UsesOpenRow(s[i])
    PROVE  s \in TidyOps(id)
<1>1. ASSUME NEW k \in 0..(TotalBanks - 1) PROVE Tidy(s, BankPath(k))
  <2> DEFINE X == TokenOp(id)
  <2>1. s \in Seq(X)
    OBVIOUS
  <2>2. \A i \in 1..Len(s) : /\ ~Reaches(s[i], "ACT", BankPath(k))
                             /\ ~Reaches(s[i], "PRE", BankPath(k)) /\ ~UsesOpenRow(s[i])
    BY DEF Reaches
  <2> HIDE DEF X
  <2> QED
    BY <2>1, <2>2, QuietTidy
<1> QED
  BY <1>1 DEF TidyOps

LEMMA NothingTidy ==
    ASSUME NEW id
    PROVE  <<>> \in TidyOps(id)
<1> DEFINE s == <<>>
<1>1. s \in Seq(TokenOp(id)) /\ Len(s) = 0
  OBVIOUS
<1> HIDE DEF s
<1>2. \A i \in 1..Len(s) : s[i].command \notin {"ACT", "PRE"} /\ ~UsesOpenRow(s[i])
  BY <1>1
<1> QED
  <2>1. s \in TidyOps(id)
    BY <1>1, <1>2, QuietOps
  <2> QED
    BY <2>1 DEF s

LEMMA OneQuietOp ==
    ASSUME NEW id, NEW op \in TokenOp(id), op.command \notin {"ACT", "PRE"}, ~UsesOpenRow(op)
    PROVE  <<op>> \in TidyOps(id)
<1> DEFINE s == <<op>>
<1>1. s \in Seq(TokenOp(id)) /\ Len(s) = 1 /\ s[1] = op
  OBVIOUS
<1> HIDE DEF s
<1>2. \A i \in 1..Len(s) : s[i].command \notin {"ACT", "PRE"} /\ ~UsesOpenRow(s[i])
  BY <1>1
<1>3. s \in TidyOps(id)
  BY <1>1, <1>2, QuietOps
<1> QED
  BY <1>3 DEF s

LEMMA EsdmAddrType ==
    ASSUME NEW base \in OpAddr, NEW off \in Int, NEW column \in Int
    PROVE  EsdmAddr(base, off, column) \in OpAddr
<1> DEFINE c == ColumnsPerRow
           x == AtLeast(0, column)
           y == AtLeast(0, base.row) + off + (x \div c)
<1>1. c \in Nat \ {0} /\ x \in Nat /\ AtLeast(0, base.row) \in Nat
  BY ColumnsPerRowPositive DEF AtLeast, OpAddr
<1> HIDE DEF c, x
<1>2. x \div c \in Nat /\ x % c \in 0..(c - 1)
  BY <1>1, DivMod
<1>3. y \in Int /\ x % c \in Nat
  BY <1>1, <1>2
<1> HIDE DEF y
<1>4. Remainder(y, NumRows) \in Int
  <2>1. CASE y >= 0
    <3>1. y \in Nat
      BY <1>3, <2>1
    <3>2. y % NumRows \in 0..(NumRows - 1)
      BY <3>1, MappingAssumption, DivMod
    <3> QED
      BY <2>1, <3>2 DEF Remainder
  <2>2. CASE ~(y >= 0)
    <3>1. -y \in Nat
      BY <1>3, <2>2
    <3>2. (-y) % NumRows \in 0..(NumRows - 1)
      BY <3>1, MappingAssumption, DivMod
    <3>3. Remainder(y, NumRows) = -((-y) % NumRows)
      BY <2>2 DEF Remainder
    <3> QED
      BY <3>2, <3>3
  <2> QED
    BY <2>1, <2>2
<1>5. (x % c) % NumCols \in Int
  <2> DEFINE w == x % c
  <2>1. w \in Nat
    BY <1>3
  <2> HIDE DEF w
  <2>2. w % NumCols \in 0..(NumCols - 1)
    BY <2>1, MappingAssumption, DivMod
  <2> QED
    BY <2>2, <1>3 DEF w
<1>6. EsdmRow(base.row, off, column) \in Int /\ EsdmCol(column) \in Int
  BY <1>4, <1>5 DEF EsdmRow, EsdmCol, y, x, c
<1> QED
  BY <1>6 DEF EsdmAddr, OpAddr

(* The columns of a pass lie in one row, those before column 0 included.   *)
StayInRow(base, off) ==
    \A start \in Int, count \in Int : \A past \in 0..(count - 1) :
        \A i \in 0..(ChunkLength(start, past, count) - 1) :
            EsdmAddr(base, off, start + past + i).row = EsdmAddr(base, off, start + past).row

LEMMA PassInRow == \A base, off : StayInRow(base, off)
<1> SUFFICES ASSUME NEW base, NEW off, NEW start \in Int, NEW count \in Int,
                    NEW past \in 0..(count - 1),
                    NEW i \in 0..(ChunkLength(start, past, count) - 1)
             PROVE  EsdmAddr(base, off, start + past + i).row = EsdmAddr(base, off, start + past).row
  BY DEF StayInRow
<1> DEFINE c == ColumnsPerRow
           x == start + past
           len == ChunkLength(start, past, count)
           q == x \div c   r == x % c
           nx == -x
           nq == nx \div c  nr == nx % c
<1>1. c \in Nat \ {0} /\ x \in Int /\ i \in Nat /\ i < len /\ len \in Nat
  <2>1. len \in 1..(count - past)
    BY PassLength
  <2>2. c \in Nat \ {0}
    BY ColumnsPerRowPositive
  <2> HIDE DEF len, c
  <2>3. i \in 0..(len - 1)
    BY DEF len
  <2> QED
    BY <2>1, <2>2, <2>3
<1>2. len <= c - Remainder(x, c)
  <2>1. Remainder(x, c) \in Int
    <3> HIDE DEF c, x
    <3>1. CASE x >= 0
      <4>1. x \in Nat /\ x % c \in 0..(c - 1)
        BY <1>1, <3>1, DivMod
      <4> QED
        BY <3>1, <4>1 DEF Remainder
    <3>2. CASE ~(x >= 0)
      <4>1. -x \in Nat /\ (-x) % c \in 0..(c - 1)
        BY <1>1, <3>2, DivMod
      <4> QED
        BY <3>2, <4>1 DEF Remainder
    <3> QED
      BY <3>1, <3>2
  <2>2. len = Smaller(count - past, c - Remainder(x, c))
    BY DEF ChunkLength
  <2> HIDE DEF c, x, len
  <2> QED
    BY <1>1, <2>1, <2>2 DEF Smaller
<1> HIDE DEF c, x, len
<1>3. AtLeast(0, x + i) \div c = AtLeast(0, x) \div c
  <2>1. CASE x >= 0
    <3>1. /\ q \in Nat /\ r \in 0..(c - 1) /\ x = c * q + r /\ x \in Nat
      <4>1. x \in Nat
        BY <1>1, <2>1
      <4> QED
        BY <1>1, <4>1, DivMod
    <3>2. i + r < c
      <4>1. Remainder(x, c) = r
        BY <2>1 DEF Remainder
      <4> HIDE DEF r
      <4> QED
        BY <1>1, <1>2, <3>1, <4>1
    <3> DEFINE y == x + i
    <3>3. y \in Nat /\ y = c * q + (r + i) /\ r + i \in 0..(c - 1)
      <4> HIDE DEF q, r
      <4>1. y \in Nat /\ r + i \in 0..(c - 1) /\ c * q \in Int
        BY <1>1, <3>1, <3>2
      <4> QED
        BY <1>1, <3>1, <4>1
    <3> HIDE DEF y
    <3>4. y \div c \in Nat /\ y % c \in 0..(c - 1) /\ y = c * (y \div c) + (y % c)
      BY <1>1, <3>3, DivMod
    <3> DEFINE p == y \div c  s == y % c  t == r + i
    <3>5. p \in Int /\ q \in Int /\ s \in 0..(c - 1) /\ t \in 0..(c - 1) /\ c * p + s = c * q + t
      BY <3>1, <3>3, <3>4
    <3> HIDE DEF p, q, s, t
    <3>6. p = q
      BY <1>1, <3>5, Unique
    <3>7. AtLeast(0, x + i) = y /\ AtLeast(0, x) = x
      BY <1>1, <2>1 DEF AtLeast, y
    <3> QED
      BY <3>6, <3>7 DEF p, q
  <2>2. CASE ~(x >= 0)
    <3>1. /\ nx \in Nat /\ nx > 0 /\ nq \in Nat /\ nr \in 0..(c - 1) /\ nx = c * nq + nr
      <4>1. nx \in Nat /\ nx > 0
        BY <1>1, <2>2
      <4> HIDE DEF nx
      <4> QED
        BY <1>1, <4>1, DivMod
    <3>2. i < c + nr
      <4>1. Remainder(x, c) = -nr
        BY <2>2 DEF Remainder
      <4> HIDE DEF nr, nx
      <4> QED
        BY <1>1, <1>2, <3>1, <4>1
    <3>3. x + i < c
      <4> DEFINE m == c * nq
      <4>1. m \in Nat
        <5> HIDE DEF nq
        <5> QED
          BY <1>1, <3>1, Z3
      <4>2. nx = m + nr
        BY <3>1
      <4> HIDE DEF m, nq, nr
      <4>3. x = -(m + nr)
        BY <1>1, <4>2
      <4> QED
        BY <1>1, <3>1, <3>2, <4>1, <4>3
    <3> DEFINE y == AtLeast(0, x + i)
    <3>4. y \in 0..(c - 1) /\ AtLeast(0, x) = 0
      BY <1>1, <2>2, <3>3 DEF AtLeast
    <3> HIDE DEF y
    <3>5. y \div c = 0 /\ 0 \div c = 0
      <4>1. \A v \in 0..(c - 1) : v \div c = 0
        BY <1>1, Z3
      <4> QED
        BY <1>1, <3>4, <4>1
    <3> QED
      BY <3>4, <3>5 DEF y
  <2> QED
    BY <2>1, <2>2
<1>4. EsdmRow(base.row, off, x + i) = EsdmRow(base.row, off, x)
  BY <1>3 DEF EsdmRow, c
<1> DEFINE e(v) == EsdmAddr(base, off, v)
<1>5. CASE ~Cfg.enable_esdm
  BY <1>5 DEF EsdmAddr
<1>6. CASE Cfg.enable_esdm
  <2>1. \A v : e(v).row = [base EXCEPT !.row = EsdmRow(base.row, off, v), !.col = EsdmCol(v)].row
    BY <1>6 DEF EsdmAddr
  <2>2. e(x + i).row = e(x).row
    BY <1>4, <2>1
  <2> QED
    BY <2>2 DEF x
<1> QED
  BY <1>5, <1>6

(* The MACs of one pass: one per column.                                   *)
RowMacs(base, column, n) ==
    Repeat(n, LAMBDA i : CommandOp("MAC", AllBanks(EsdmAddr(base, Cfg.kt_row_offset, column + i))))

RowMacsMade(id, s, base, column, n) ==
    /\ s \in Seq(TokenOp(id)) /\ Len(s) = AtLeast(0, n)
    /\ \A i \in 1..AtLeast(0, n) :
          /\ s[i].kind = "Command" /\ s[i].command = "MAC"
          /\ s[i].addr.row = EsdmAddr(base, Cfg.kt_row_offset, column + (i - 1)).row

LEMMA RowMacsAre ==
    ASSUME NEW id, NEW base \in OpAddr, NEW column \in Int, NEW n \in Int
    PROVE  RowMacsMade(id, RowMacs(base, column, n), base, column, n)
<1> DEFINE s == RowMacs(base, column, n)
           place(i) == EsdmAddr(base, Cfg.kt_row_offset, column + (i - 1))
           Op(i) == CommandOp("MAC", AllBanks(place(i)))
           l == AtLeast(0, n)
           X == TokenOp(id)
<1>1. l \in Nat
  BY DEF AtLeast
<1>2. s = [i \in 1..l |-> Op(i)]
  BY DEF RowMacs, Repeat
<1>3. ASSUME NEW i \in 1..l
      PROVE  /\ place(i) \in OpAddr /\ Op(i) \in X /\ Op(i).kind = "Command"
             /\ Op(i).command = "MAC" /\ Op(i).addr.row = place(i).row
  <2>1. Cfg.kt_row_offset \in Int /\ column + (i - 1) \in Int
    BY <1>1, ConfigAssumption
  <2>2. place(i) \in OpAddr
    BY <2>1, EsdmAddrType
  <2> HIDE DEF place
  <2>3. AllBanks(place(i)) \in OpAddr /\ AllBanks(place(i)).row = place(i).row
    BY <2>2, AddrTypes
  <2> QED
    BY <2>2, <2>3, CommandType
<1>4. \A i \in 1..l : Op(i) \in X
  BY <1>3
<1> HIDE DEF s, l, X, Op
<1>5. s \in Seq(X) /\ Len(s) = l /\ \A i \in 1..l : s[i] = Op(i)
  BY <1>1, <1>2, <1>4
<1>6. \A i \in 1..l : /\ s[i] = CommandOp("MAC", AllBanks(place(i)))
                      /\ s[i].kind = "Command" /\ s[i].command = "MAC"
                      /\ s[i].addr.row = place(i).row
  <2> HIDE DEF place
  <2>1. \A i \in 1..l : s[i] = CommandOp("MAC", AllBanks(place(i)))
    BY <1>5 DEF Op
  <2> QED
    BY <1>3, <1>5, <2>1
<1>7. /\ s \in Seq(X) /\ Len(s) = l
      /\ \A i \in 1..l : /\ s[i].kind = "Command" /\ s[i].command = "MAC"
                         /\ s[i].addr.row = place(i).row
  <2> HIDE DEF place
  <2> QED
    BY <1>5, <1>6
<1>8. RowMacsMade(id, s, base, column, n)
  BY <1>7, Zenon DEF RowMacsMade, l, X
<1> QED
  BY <1>8 DEF s

(* Opened in every bank, used, and closed.                                 *)
LEMMA BracketTidy ==
    ASSUME NEW id, NEW addr \in OpAddr, NEW m \in Seq(TokenOp(id)),
           \A i \in 1..Len(m) : m[i].command \notin {"ACT", "PRE"},
           \A i \in 1..Len(m) : UsesOpenRow(m[i]) => m[i].addr.row = addr.row
    PROVE  PerBank("ACT", addr) \o m \o PerBank("PRE", addr) \in TidyOps(id)
<1> DEFINE s == PerBank("ACT", addr) \o m \o PerBank("PRE", addr)
<1>1. ASSUME NEW k \in 0..(TotalBanks - 1) PROVE Tidy(s, BankPath(k))
  <2>1. \A i \in 1..Len(m) : /\ ~Reaches(m[i], "ACT", BankPath(k))
                             /\ ~Reaches(m[i], "PRE", BankPath(k))
                             /\ UsesOpenRow(m[i]) => m[i].addr.row = addr.row
    BY DEF Reaches
  <2> QED
    BY <2>1, RowTidy
<1>2. s \in Seq(TokenOp(id))
  <2> DEFINE X == TokenOp(id)  a == PerBank("ACT", addr)  z == PerBank("PRE", addr)
  <2>1. a \in Seq(X) /\ z \in Seq(X) /\ m \in Seq(X)
    BY PerBankIs
  <2> HIDE DEF X, a, z
  <2>2. a \o m \o z \in Seq(X)
    BY <2>1
  <2> QED
    BY <2>2 DEF X, a, z
<1> QED
  BY <1>1, <1>2 DEF TidyOps

LEMMA RowMacsOf ==
    ASSUME NEW id, NEW base \in OpAddr, NEW column \in Int, NEW n \in Nat
    PROVE  /\ RowMacs(base, column, n) \in Seq(TokenOp(id))
           /\ Len(RowMacs(base, column, n)) = n
           /\ \A i \in 1..n :
                 /\ RowMacs(base, column, n)[i].kind = "Command"
                 /\ RowMacs(base, column, n)[i].command = "MAC"
                 /\ RowMacs(base, column, n)[i].addr.row
                      = EsdmAddr(base, Cfg.kt_row_offset, column + (i - 1)).row
<1> DEFINE s == RowMacs(base, column, n)
           place(i) == EsdmAddr(base, Cfg.kt_row_offset, column + (i - 1))
           X == TokenOp(id)
<1>1. AtLeast(0, n) = n
  BY DEF AtLeast
<1>2. /\ s \in Seq(X) /\ Len(s) = AtLeast(0, n)
      /\ \A i \in 1..AtLeast(0, n) :
            /\ s[i].kind = "Command" /\ s[i].command = "MAC" /\ s[i].addr.row = place(i).row
  <2>1. n \in Int
    OBVIOUS
  <2> HIDE DEF s
  <2>2. RowMacsMade(id, s, base, column, n)
    BY <2>1, RowMacsAre DEF s
  <2> QED
    BY <2>2, Zenon DEF RowMacsMade, X
<1> HIDE DEF s, place, X
<1>3. s \in Seq(X) /\ Len(s) = n
      /\ \A i \in 1..n : /\ s[i].kind = "Command" /\ s[i].command = "MAC"
                         /\ s[i].addr.row = place(i).row
  BY <1>1, <1>2
<1> QED
  BY <1>3, Zenon DEF s, place, X

LEMMA QkRowIs ==
    ASSUME NEW base, NEW chunk
    PROVE  QkRow(base, chunk)
             = If(Cfg.enable_qk_act_pre,
                  PerBank("ACT", EsdmAddr(base, Cfg.kt_row_offset, Cfg.kt_col_start + chunk.first)))
               \o RowMacs(base, Cfg.kt_col_start + chunk.first, chunk.len)
               \o If(Cfg.enable_qk_act_pre,
                     PerBank("PRE", EsdmAddr(base, Cfg.kt_row_offset, Cfg.kt_col_start + chunk.first)))
BY Zenon DEF QkRow, RowMacs

QkRowMade(id, s, len) ==
    \E row \in OpAddr, m \in Seq(TokenOp(id)) :
       /\ s = If(Cfg.enable_qk_act_pre, PerBank("ACT", row)) \o m
                \o If(Cfg.enable_qk_act_pre, PerBank("PRE", row))
       /\ Len(m) = len
       /\ \A i \in 1..Len(m) : /\ m[i].kind = "Command" /\ m[i].command = "MAC"
                               /\ m[i].addr.row = row.row

LEMMA QkRowParts ==
    ASSUME NEW id, NEW base \in OpAddr, NEW macs \in Int, NEW d \in 0..(macs - 1)
    PROVE  QkRowMade(id, QkRow(base, ChunkAt(Cfg.kt_col_start, macs, d)),
                     ChunkLength(Cfg.kt_col_start, d, macs))
<1> DEFINE start == Cfg.kt_col_start
           len == ChunkLength(start, d, macs)
           column == start + d
           row == EsdmAddr(base, Cfg.kt_row_offset, column)
           m == RowMacs(base, column, len)
           X == TokenOp(id)
<1>1. /\ start \in Int /\ column \in Int /\ Cfg.kt_row_offset \in Int
      /\ len \in 1..(macs - d)
  BY ConfigAssumption, PassLength
<1>2. row \in OpAddr
  BY <1>1, EsdmAddrType
<1>3. AtLeast(0, len) = len /\ len \in Int
  BY <1>1 DEF AtLeast
<1>4. /\ m \in Seq(X) /\ Len(m) = len
      /\ \A i \in 1..len :
            /\ m[i].kind = "Command" /\ m[i].command = "MAC"
            /\ m[i].addr.row = EsdmAddr(base, Cfg.kt_row_offset, column + (i - 1)).row
  <2>1. len \in Nat
    BY <1>1
  <2> HIDE DEF column, len
  <2> QED
    BY <1>1, <2>1, RowMacsOf
<1>5. QkRow(base, ChunkAt(start, macs, d))
        = If(Cfg.enable_qk_act_pre, PerBank("ACT", row)) \o m
            \o If(Cfg.enable_qk_act_pre, PerBank("PRE", row))
  <2>1. /\ ChunkAt(start, macs, d).first = d
        /\ ChunkAt(start, macs, d).len = len
    BY DEF ChunkAt
  <2> DEFINE c == ChunkAt(start, macs, d)
  <2>2. c.first = d /\ c.len = len
    BY <2>1
  <2> HIDE DEF c, len, row, m
  <2>3. QkRow(base, c)
          = If(Cfg.enable_qk_act_pre,
               PerBank("ACT", EsdmAddr(base, Cfg.kt_row_offset, Cfg.kt_col_start + c.first)))
            \o RowMacs(base, Cfg.kt_col_start + c.first, c.len)
            \o If(Cfg.enable_qk_act_pre,
                  PerBank("PRE", EsdmAddr(base, Cfg.kt_row_offset, Cfg.kt_col_start + c.first)))
    BY QkRowIs, Zenon
  <2>4. /\ EsdmAddr(base, Cfg.kt_row_offset, Cfg.kt_col_start + c.first) = row
        /\ RowMacs(base, Cfg.kt_col_start + c.first, c.len) = m
    BY <2>2 DEF row, m
  <2>5. QkRow(base, c) = If(Cfg.enable_qk_act_pre, PerBank("ACT", row)) \o m
                           \o If(Cfg.enable_qk_act_pre, PerBank("PRE", row))
    BY <2>3, <2>4
  <2> QED
    BY <2>5 DEF c
<1>6. \A i \in 1..len : m[i].addr.row = row.row
  <2> TAKE i \in 1..len
  <2>1. i - 1 \in 0..(len - 1)
    BY <1>1
  <2> DEFINE j == i - 1
  <2>2. EsdmAddr(base, Cfg.kt_row_offset, column + j).row = row.row
    <3> HIDE DEF j, start
    <3>1. j \in 0..(ChunkLength(start, d, macs) - 1)
      BY <2>1 DEF j
    <3>2. start \in Int /\ macs \in Int /\ d \in 0..(macs - 1)
      BY <1>1
    <3> QED
      <4> DEFINE o == Cfg.kt_row_offset
      <4>1. o = Cfg.kt_row_offset
        OBVIOUS
      <4> HIDE DEF o
      <4>2. StayInRow(base, o)
        BY PassInRow, Zenon
      <4>3. \A w \in 0..(macs - 1) : \A y \in 0..(ChunkLength(start, w, macs) - 1) :
               EsdmAddr(base, o, start + w + y).row = EsdmAddr(base, o, start + w).row
        BY <3>2, <4>2, Zenon DEF StayInRow
      <4>4. EsdmAddr(base, o, (start + d) + j).row = EsdmAddr(base, o, start + d).row
        BY <3>1, <3>2, <4>3, Zenon
      <4> QED
        BY <4>1, <4>4, Zenon
  <2> HIDE DEF row, m, len, column
  <2> QED
    BY <1>4, <2>2
<1> HIDE DEF row, m, len, column
<1> HIDE DEF len, X
<1> QED
  <2> DEFINE s == QkRow(base, ChunkAt(start, macs, d))
             on == Cfg.enable_qk_act_pre
  <2>1. m \in Seq(TokenOp(id))
    BY <1>4, Zenon DEF X
  <2>2. Len(m) = ChunkLength(start, d, macs)
    BY <1>4, Zenon DEF len
  <2>3. \A i \in 1..Len(m) : m[i].kind = "Command" /\ m[i].command = "MAC" /\ m[i].addr.row = row.row
    BY <1>4, <1>6, Zenon
  <2> QED
    BY <1>2, <1>5, <2>1, <2>2, <2>3, Zenon DEF QkRowMade

LEMMA QkRowTidy ==
    ASSUME NEW id, NEW base \in OpAddr, NEW macs \in Int, NEW d \in 0..(macs - 1)
    PROVE  QkRow(base, ChunkAt(Cfg.kt_col_start, macs, d)) \in TidyOps(id)
<1> DEFINE s == QkRow(base, ChunkAt(Cfg.kt_col_start, macs, d))
           X == TokenOp(id)
<1>1. PICK row \in OpAddr, m \in Seq(X) :
         /\ s = If(Cfg.enable_qk_act_pre, PerBank("ACT", row)) \o m
                  \o If(Cfg.enable_qk_act_pre, PerBank("PRE", row))
         /\ \A i \in 1..Len(m) : /\ m[i].kind = "Command" /\ m[i].command = "MAC"
                                 /\ m[i].addr.row = row.row
  <2>1. QkRowMade(id, s, ChunkLength(Cfg.kt_col_start, d, macs))
    BY QkRowParts
  <2> HIDE DEF s
  <2> QED
    BY <2>1, Zenon DEF QkRowMade
<1> HIDE DEF s
<1>2. CASE Cfg.enable_qk_act_pre
  <2>1. PerBank("ACT", row) \o m \o PerBank("PRE", row) \in TidyOps(id)
    <3>1. \A i \in 1..Len(m) : m[i].command \notin {"ACT", "PRE"}
      BY <1>1
    <3>2. \A i \in 1..Len(m) : UsesOpenRow(m[i]) => m[i].addr.row = row.row
      BY <1>1
    <3> QED
      BY <3>1, <3>2, BracketTidy
  <2> QED
    BY <1>1, <1>2, <2>1 DEF If, s
<1>3. CASE ~Cfg.enable_qk_act_pre
  <2>1. \A i \in 1..Len(m) : m[i].command \notin {"ACT", "PRE"} /\ ~UsesOpenRow(m[i])
    BY <1>1, <1>3 DEF UsesOpenRow
  <2>2. m \in TidyOps(id)
    BY <2>1, QuietOps
  <2>3. s = <<>> \o m \o <<>>
    BY <1>1, <1>3 DEF If
  <2> HIDE DEF X
  <2>4. <<>> \o m \o <<>> = m
    OBVIOUS
  <2> QED
    BY <2>2, <2>3, <2>4 DEF s
<1> QED
  BY <1>2, <1>3

(* The rows of a stage, pass by pass.                                      *)
LEMMA PassesTidy ==
    ASSUME NEW id, NEW start \in Int, NEW count \in Int, NEW Row,
           NEW n, n = Len(Chunks(start, count)), NEW q, q = [k \in 1..n |-> Row[k]],
           \A k \in 1..n : Row[k] \in TidyOps(id)
    PROVE  FlattenSeq(q) \in TidyOps(id)
<1> DEFINE X == TokenOp(id)
           S == TidyOps(id)
<1>1. Covers(Chunks(start, count), 0, start, count)
  BY ChunksCover
<1>2. n \in Nat
  BY <1>1 DEF Covers
<1>3. S \in SUBSET Seq(X) /\ <<>> \in S
  BY NothingTidy DEF TidyOps
<1>4. \A a, b \in S : a \o b \in S
  BY TidyOpsAppend
<1> HIDE DEF X, S
<1>5. q \in Seq(Seq(X)) /\ \A i \in 1..Len(q) : q[i] \in S
  <2>1. \A k \in 1..n : Row[k] \in S
    BY DEF S
  <2>2. q \in Seq(S) /\ Len(q) = n
    BY <1>2, <2>1
  <2> QED
    BY <1>3, <2>2
<1>6. FlattenSeq(q) \in S
  BY <1>3, <1>4, <1>5, FlattenKeeps
<1> QED
  BY <1>6 DEF S

-----------------------------------------------------------------------------
(* The other operations and stages of a token.                             *)
LEMMA SpecialOps ==
    ASSUME NEW id, NEW cycles \in Int
    PROVE  /\ DelayOp(cycles) \in TokenOp(id) /\ DelayOp(cycles).kind = "Delay"
           /\ DelayOp(cycles).command = "none"
           /\ ConfigureSpmOp(cycles) \in TokenOp(id) /\ ConfigureSpmOp(cycles).kind = "ConfigureSPM"
           /\ ConfigureSpmOp(cycles).command = "none"
           /\ CompleteOp(id) \in TokenOp(id) /\ CompleteOp(id).kind = "Complete"
           /\ CompleteOp(id).command = "none"
<1>1. NoAddr \in OpAddr
  <2>1. AnyBank \in Int \X Int \X Int
    BY DEF AnyBank
  <2> QED
    BY <2>1 DEF NoAddr, OpAddr
<1>2. DelayOp(cycles) \in TokenOp(id)
  BY <1>1 DEF DelayOp, TokenOp
<1>3. ConfigureSpmOp(cycles) \in TokenOp(id)
  BY <1>1 DEF ConfigureSpmOp, TokenOp
<1>4. CompleteOp(id) \in TokenOp(id)
  BY <1>1 DEF CompleteOp, TokenOp
<1>5. /\ DelayOp(cycles).kind = "Delay" /\ DelayOp(cycles).command = "none"
      /\ ConfigureSpmOp(cycles).kind = "ConfigureSPM" /\ ConfigureSpmOp(cycles).command = "none"
      /\ CompleteOp(id).kind = "Complete" /\ CompleteOp(id).command = "none"
  BY DEF DelayOp, ConfigureSpmOp, CompleteOp
<1> QED
  BY <1>2, <1>3, <1>4, <1>5

LEMMA SpmLatencyInt ==
    ASSUME NEW voc \in Int
    PROVE  SpmLatency(voc) \in Int
<1> DEFINE a == Cfg.spm_fixed_cycles  b == Cfg.spm_cycles_per_voc
<1>1. a \in Int /\ b \in Int
  BY ConfigAssumption
<1> HIDE DEF a, b
<1>2. voc * b \in Int
  BY <1>1
<1>3. AtLeast(1, a + voc * b) \in Int
  BY <1>1, <1>2 DEF AtLeast
<1> QED
  BY <1>3 DEF SpmLatency, a, b

(* Sequences one after the other, taken from the right.                    *)
Associates(a, b, c) == a \o b \o c = a \o (b \o c)

LEMMA Associated ==
    ASSUME NEW X, NEW a \in Seq(X), NEW b \in Seq(X), NEW c \in Seq(X)
    PROVE  a \o b \in Seq(X) /\ b \o c \in Seq(X) /\ Associates(a, b, c)
<1>1. a \o b \in Seq(X) /\ b \o c \in Seq(X)
  OBVIOUS
<1>2. a \o b \o c = a \o (b \o c)
  BY ConcatAssociative
<1> QED
  BY <1>1, <1>2, Zenon DEF Associates

LEMMA PvRowTidy ==
    ASSUME NEW id, NEW row \in OpAddr, NEW voc \in Int
    PROVE  PvRow(row, voc) \in TidyOps(id)
<1> DEFINE X == TokenOp(id)
           op == CommandOp("SPM", AllBanks(row))
           set == ConfigureSpmOp(SpmLatency(voc))
           c == <<set>>
           m == <<op>>
<1>1. AllBanks(row) \in OpAddr /\ AllBanks(row).row = row.row
  BY AddrTypes
<1>2. op \in X /\ op.kind = "Command" /\ op.command = "SPM" /\ op.addr.row = row.row
  BY <1>1, CommandType
<1>3. set \in X /\ set.kind = "ConfigureSPM" /\ set.command = "none"
  BY SpmLatencyInt, SpecialOps
<1> HIDE DEF op, set, X
<1>4. c \in TidyOps(id)
  BY <1>3, OneQuietOp DEF UsesOpenRow, X
<1>5. c \in Seq(X) /\ m \in Seq(X) /\ Len(m) = 1 /\ m[1] = op
  BY <1>2, <1>3
<1> HIDE DEF c, m
<1>6. PvRow(row, voc) = c \o If(Cfg.enable_act_spm_pre, PerBank("ACT", row)) \o m
                          \o If(Cfg.enable_act_spm_pre, PerBank("PRE", row))
  BY Zenon DEF PvRow, c, m, set, op
<1>7. CASE Cfg.enable_act_spm_pre
  <2> DEFINE a == PerBank("ACT", row)  z == PerBank("PRE", row)
  <2>1. a \in Seq(X) /\ z \in Seq(X)
    BY PerBankIs DEF X
  <2>2. a \o m \o z \in TidyOps(id)
    <3>1. \A i \in 1..Len(m) : m[i].command \notin {"ACT", "PRE"} /\ m[i].addr.row = row.row
      BY <1>2, <1>5
    <3> QED
      BY <1>5, <3>1, BracketTidy DEF X
  <2>3. PvRow(row, voc) = c \o a \o m \o z
    BY <1>6, <1>7 DEF If
  <2> HIDE DEF a, z
  <2>4. c \o a \o m \o z = c \o (a \o m \o z)
    <3> DEFINE am == a \o m
    <3>1. am \in Seq(X) /\ Associates(c, a, m)
      BY <1>5, <2>1, Associated
    <3> HIDE DEF am
    <3>2. Associates(c, am, z)
      BY <1>5, <2>1, <3>1, Associated
    <3> QED
      BY <3>1, <3>2, Zenon DEF Associates, am
  <2> QED
    BY <1>4, <2>2, <2>3, <2>4, TidyOpsAppend
<1>8. CASE ~Cfg.enable_act_spm_pre
  <2>1. m \in TidyOps(id)
    <3>1. \A i \in 1..Len(m) : m[i].command \notin {"ACT", "PRE"} /\ ~UsesOpenRow(m[i])
      BY <1>2, <1>5, <1>8 DEF UsesOpenRow
    <3> QED
      BY <1>5, <3>1, QuietOps DEF X
  <2>2. PvRow(row, voc) = c \o <<>> \o m \o <<>>
    BY <1>6, <1>8 DEF If
  <2>3. c \o <<>> \o m \o <<>> = c \o m
    BY <1>5
  <2> QED
    BY <1>4, <2>1, <2>2, <2>3, TidyOpsAppend
<1> QED
  BY <1>7, <1>8

LEMMA ChunksAre ==
    ASSUME NEW start \in Int, NEW count \in Int
    PROVE  /\ Len(Chunks(start, count)) \in Nat
           /\ \A k \in 1..Len(Chunks(start, count)) :
                 \E d \in 0..(count - 1) : Chunks(start, count)[k] = ChunkAt(start, count, d)
<1> DEFINE c == Chunks(start, count)
<1>1. Covers(c, 0, start, count)
  BY ChunksCover
<1>2. Len(c) \in Nat
  <2>1. c \in Seq(Chunk)
    BY <1>1 DEF Covers
  <2> HIDE DEF c
  <2> QED
    BY <2>1
<1>3. \A k \in 1..Len(c) : /\ c[k] = ChunkAt(start, count, c[k].first)
                          /\ c[k].first \in 0..(count - 1)
  BY <1>1, Zenon DEF Covers
<1> QED
  BY <1>2, <1>3, Zenon

LEMMA QkStageTidy ==
    ASSUME NEW id, NEW base \in OpAddr, NEW macs \in Int
    PROVE  QkStage(base, macs) \in TidyOps(id)
<1>1. CASE Cfg.enable_esdm
  <2> DEFINE start == Cfg.kt_col_start
             c == Chunks(start, macs)
             n == Len(c)
             Row == [k \in 1..n |-> QkRow(base, c[k])]
  <2>1. start \in Int
    BY ConfigAssumption
  <2>2. \A k \in 1..n : QkRow(base, c[k]) \in TidyOps(id)
    <3> TAKE k \in 1..n
    <3>1. PICK d \in 0..(macs - 1) : c[k] = ChunkAt(start, macs, d)
      BY <2>1, ChunksAre
    <3>2. QkRow(base, ChunkAt(start, macs, d)) \in TidyOps(id)
      BY QkRowTidy
    <3> HIDE DEF c, n
    <3> QED
      BY <3>1, <3>2
  <2>3. QkStage(base, macs) = FlattenSeq(Row)
    BY <1>1, Zenon DEF QkStage, QkChunks
  <2>4. \A k \in 1..n : Row[k] \in TidyOps(id)
    <3> HIDE DEF c, n
    <3> QED
      BY <2>2
  <2>5. Row = [k \in 1..n |-> Row[k]]
    OBVIOUS
  <2>6. FlattenSeq(Row) \in TidyOps(id)
    <3> HIDE DEF Row
    <3> QED
      BY <2>1, <2>4, <2>5, PassesTidy
  <2> QED
    BY <2>3, <2>6
<1>2. CASE ~Cfg.enable_esdm
  <2> DEFINE X == TokenOp(id)
             op == CommandOp("MAC", AllBanks(base))
             l == AtLeast(0, macs)
             s == [i \in 1..l |-> op]
  <2>1. op \in X /\ op.command = "MAC"
    BY AddrTypes, CommandType
  <2>2. l \in Nat
    BY DEF AtLeast
  <2>3. QkStage(base, macs) = s
    BY <1>2 DEF QkStage, Repeat
  <2> HIDE DEF op, X, l
  <2>4. s \in Seq(X) /\ Len(s) = l /\ \A i \in 1..l : s[i] = op
    BY <2>1, <2>2
  <2> HIDE DEF s
  <2>5. \A i \in 1..Len(s) : s[i].command \notin {"ACT", "PRE"} /\ ~UsesOpenRow(s[i])
    BY <1>2, <2>1, <2>4 DEF UsesOpenRow
  <2>6. s \in TidyOps(id)
    BY <2>4, <2>5, QuietOps DEF X
  <2> QED
    BY <2>3, <2>6
<1> QED
  BY <1>1, <1>2

LEMMA PvStageTidy ==
    ASSUME NEW id, NEW base \in OpAddr, NEW maxVoc \in Int
    PROVE  PvStage(base, maxVoc) \in TidyOps(id)
<1>1. CASE Cfg.enable_esdm
  <2> DEFINE start == Cfg.v_col_start
             off == Cfg.v_row_offset
             c == Chunks(start, maxVoc)
             n == Len(c)
             One(chunk) == PvRow(EsdmAddr(base, off, start + chunk.first), chunk.len)
             Row == [k \in 1..n |-> One(c[k])]
  <2>1. start \in Int /\ off \in Int
    BY ConfigAssumption
  <2>2. \A k \in 1..n : One(c[k]) \in TidyOps(id)
    <3> TAKE k \in 1..n
    <3>1. PICK d \in 0..(maxVoc - 1) : c[k] = ChunkAt(start, maxVoc, d)
      BY <2>1, ChunksAre
    <3> HIDE DEF c, n, start, off
    <3>2. /\ ChunkAt(start, maxVoc, d).first = d
          /\ ChunkAt(start, maxVoc, d).len = ChunkLength(start, d, maxVoc)
          /\ ChunkLength(start, d, maxVoc) \in 1..(maxVoc - d)
      BY <2>1, ChunkType
    <3>3. c[k].first \in Int /\ c[k].len \in Int
      BY <3>1, <3>2
    <3>4. EsdmAddr(base, off, start + c[k].first) \in OpAddr
      <4>1. start + c[k].first \in Int
        BY <2>1, <3>3
      <4> QED
        BY <2>1, <4>1, EsdmAddrType
    <3> QED
      BY <3>3, <3>4, PvRowTidy
  <2>3. PvStage(base, maxVoc) = FlattenSeq(Row)
    BY <1>1, Zenon DEF PvStage, PvChunks
  <2>4. \A k \in 1..n : Row[k] \in TidyOps(id)
    <3> HIDE DEF c, n, One
    <3> QED
      BY <2>2
  <2>5. Row = [k \in 1..n |-> Row[k]]
    OBVIOUS
  <2>6. FlattenSeq(Row) \in TidyOps(id)
    <3> HIDE DEF Row
    <3> QED
      BY <2>1, <2>4, <2>5, PassesTidy
  <2> QED
    BY <2>3, <2>6
<1>2. CASE ~Cfg.enable_esdm
  <2>1. PvStage(base, maxVoc) = PvRow(base, maxVoc)
    BY <1>2 DEF PvStage
  <2> QED
    BY <2>1, PvRowTidy
<1> QED
  BY <1>1, <1>2

LEMMA ElemaxIs ==
    ASSUME NEW id, NEW base \in OpAddr
    PROVE  /\ ElemaxStage(base) \in Seq(TokenOp(id)) /\ Len(ElemaxStage(base)) = 2
           /\ \A i \in 1..2 : ElemaxStage(base)[i].kind = "Command"
           /\ ElemaxStage(base)[1].command = "MOV" /\ ElemaxStage(base)[2].command = "EMUL"
<1> DEFINE X == TokenOp(id)
           addr == AllBanks(EsdmAddr(base, Cfg.kt_row_offset, Cfg.kt_col_start))
           mov == CommandOp("MOV", addr)
           emul == CommandOp("EMUL", addr)
           s == <<mov, emul>>
<1>1. addr \in OpAddr
  <2>1. Cfg.kt_row_offset \in Int /\ Cfg.kt_col_start \in Int
    BY ConfigAssumption
  <2>2. EsdmAddr(base, Cfg.kt_row_offset, Cfg.kt_col_start) \in OpAddr
    BY <2>1, EsdmAddrType
  <2> QED
    BY <2>2, AddrTypes
<1>2. /\ mov \in X /\ mov.kind = "Command" /\ mov.command = "MOV"
      /\ emul \in X /\ emul.kind = "Command" /\ emul.command = "EMUL"
  <2> HIDE DEF addr
  <2> QED
    BY <1>1, CommandType
<1>3. ElemaxStage(base) = s
  BY Zenon DEF ElemaxStage
<1> HIDE DEF mov, emul, X
<1>4. s \in Seq(X) /\ Len(s) = 2 /\ s[1] = mov /\ s[2] = emul
  BY <1>2
<1> HIDE DEF s
<1>5. \A i \in 1..2 : s[i] = mov \/ s[i] = emul
  BY <1>4
<1> QED
  BY <1>2, <1>3, <1>4, <1>5 DEF X

LEMMA ElemaxTidy ==
    ASSUME NEW id, NEW base \in OpAddr
    PROVE  ElemaxStage(base) \in TidyOps(id)
<1> DEFINE s == ElemaxStage(base)
<1>1. /\ s \in Seq(TokenOp(id)) /\ Len(s) = 2
      /\ s[1].command = "MOV" /\ s[2].command = "EMUL"
  BY ElemaxIs
<1> HIDE DEF s
<1>2. \A i \in 1..Len(s) : s[i].command \in {"MOV", "EMUL"}
  BY <1>1
<1>3. \A i \in 1..Len(s) : s[i].command \notin {"ACT", "PRE"} /\ ~UsesOpenRow(s[i])
  BY <1>2 DEF UsesOpenRow
<1>4. s \in TidyOps(id)
  BY <1>1, <1>3, QuietOps
<1> QED
  BY <1>4 DEF s

LEMMA BgmuIs ==
    ASSUME NEW id, NEW summary, summary.bgmu_reads \in Int
    PROVE  /\ BgmuStage(summary) \in Seq(TokenOp(id))
           /\ Len(BgmuStage(summary)) = IF Cfg.bgmu_read_as_delay THEN 1 ELSE 0
           /\ \A i \in 1..Len(BgmuStage(summary)) :
                 BgmuStage(summary)[i].kind = "Delay" /\ BgmuStage(summary)[i].command = "none"
<1>1. AtLeast(1, BgmuLatency(summary)) \in Int
  <2> DEFINE r == BgmuReads(summary)
  <2>1. r \in Int /\ nCL \in Int /\ nCCDS \in Int /\ nBL \in Int
    BY ConfigAssumption DEF BgmuReads, AtLeast
  <2> HIDE DEF r
  <2>2. (r - 1) * nCCDS \in Int
    BY <2>1
  <2>3. nCL + (r - 1) * nCCDS + nBL \in Int
    BY <2>1, <2>2
  <2>4. BgmuLatency(summary) \in Int
    BY <2>3 DEF BgmuLatency, r
  <2> QED
    BY <2>4 DEF AtLeast
<1> DEFINE op == DelayOp(AtLeast(1, BgmuLatency(summary)))
           s == BgmuStage(summary)
           X == TokenOp(id)
<1>2. op \in X /\ op.kind = "Delay" /\ op.command = "none"
  BY <1>1, SpecialOps
<1>3. s = IF Cfg.bgmu_read_as_delay THEN <<op>> ELSE <<>>
  BY Zenon DEF BgmuStage, If
<1> HIDE DEF op, s, X
<1>4. CASE Cfg.bgmu_read_as_delay
  <2>1. s = <<op>>
    BY <1>3, <1>4
  <2>2. s \in Seq(X) /\ Len(s) = 1 /\ \A i \in 1..1 : s[i] = op
    BY <1>2, <2>1
  <2> QED
    BY <1>2, <1>4, <2>2 DEF s, X
<1>5. CASE ~Cfg.bgmu_read_as_delay
  <2>1. s = <<>>
    BY <1>3, <1>5
  <2>2. s \in Seq(X) /\ Len(s) = 0
    BY <2>1
  <2>3. \A i \in 1..Len(s) : s[i].kind = "Delay" /\ s[i].command = "none"
    BY <2>2
  <2> QED
    BY <1>5, <2>2, <2>3 DEF s, X
<1> QED
  BY <1>4, <1>5

LEMMA BgmuTidy ==
    ASSUME NEW id, NEW summary, summary.bgmu_reads \in Int
    PROVE  BgmuStage(summary) \in TidyOps(id)
<1> DEFINE s == BgmuStage(summary)
<1>1. /\ s \in Seq(TokenOp(id))
      /\ \A i \in 1..Len(s) : s[i].kind = "Delay" /\ s[i].command = "none"
  BY BgmuIs
<1> HIDE DEF s
<1>2. \A i \in 1..Len(s) : s[i].command \notin {"ACT", "PRE"} /\ ~UsesOpenRow(s[i])
  BY <1>1 DEF UsesOpenRow
<1>3. s \in TidyOps(id)
  BY <1>1, <1>2, QuietOps
<1> QED
  BY <1>3 DEF s

LEMMA AccIs ==
    ASSUME NEW id, NEW base \in OpAddr, NEW accs \in Int
    PROVE  /\ AccStage(base, accs) \in Seq(TokenOp(id))
           /\ Len(AccStage(base, accs)) = AtLeast(0, accs)
           /\ \A i \in 1..Len(AccStage(base, accs)) :
                 /\ AccStage(base, accs)[i].kind = "Command"
                 /\ AccStage(base, accs)[i].command = "ACC"
<1> DEFINE X == TokenOp(id)
           l == AtLeast(0, accs)
           Op(i) == CommandOp("ACC", AtBank(base, (i - 1) % TotalBanks))
           s == [i \in 1..l |-> Op(i)]
<1>1. l \in Nat
  BY DEF AtLeast
<1>2. \A i \in 1..l : Op(i) \in X /\ Op(i).kind = "Command" /\ Op(i).command = "ACC"
  <2> TAKE i \in 1..l
  <2>1. (i - 1) % TotalBanks \in 0..(TotalBanks - 1)
    <3>1. TotalBanks \in Nat \ {0}
      BY BanksPositive
    <3>2. i - 1 \in Nat
      BY <1>1
    <3> QED
      BY <3>1, <3>2, DivMod
  <2>2. AtBank(base, (i - 1) % TotalBanks) \in OpAddr
    BY <2>1, AddrTypes
  <2> QED
    BY <2>2, CommandType
<1>3. AccStage(base, accs) = s
  BY Zenon DEF AccStage, Repeat
<1> HIDE DEF Op, X, l
<1>4. s \in Seq(X) /\ Len(s) = l /\ \A i \in 1..l : s[i] = Op(i)
  BY <1>1, <1>2
<1> HIDE DEF s
<1>5. \A i \in 1..Len(s) : s[i].kind = "Command" /\ s[i].command = "ACC"
  BY <1>2, <1>4
<1> QED
  BY <1>3, <1>4, <1>5, Zenon DEF X, l

LEMMA AccStageTidy ==
    ASSUME NEW id, NEW base \in OpAddr, NEW accs \in Int
    PROVE  AccStage(base, accs) \in TidyOps(id)
<1> DEFINE s == AccStage(base, accs)
<1>1. s \in Seq(TokenOp(id)) /\ \A i \in 1..Len(s) : s[i].command = "ACC"
  BY AccIs
<1> HIDE DEF s
<1>2. \A i \in 1..Len(s) : s[i].command \notin {"ACT", "PRE"} /\ ~UsesOpenRow(s[i])
  BY <1>1 DEF UsesOpenRow
<1>3. s \in TidyOps(id)
  BY <1>1, <1>2, QuietOps
<1> QED
  BY <1>3 DEF s

-----------------------------------------------------------------------------
(* FoldLeft() takes the elements one after the other.                      *)
LEMMA MaxOf ==
    ASSUME NEW n \in Nat, NEW s \in SUBSET (1..n), s # {}
    PROVE  Max(s) \in s /\ \A y \in s : y <= Max(s)
<1> DEFINE T == {z \in Nat : n - z \in s}
<1>1. \A y \in s : y \in 1..n
  OBVIOUS
<1>2. \A y \in s : n - y \in T
  <2> TAKE y \in s
  <2>1. y \in 1..n
    BY <1>1
  <2>2. n - y \in Nat /\ n - (n - y) = y
    BY <2>1
  <2> QED
    BY <2>2
<1>3. PICK t \in T : \A y \in T : t <= y
  <2>1. T \in SUBSET Nat /\ T # {}
    BY <1>2
  <2> HIDE DEF T
  <2> QED
    BY <2>1, LeastOf
<1> DEFINE x == n - t
<1>4. x \in s /\ t \in Nat
  OBVIOUS
<1>5. \A y \in s : x >= y
  <2> TAKE y \in s
  <2>1. t <= n - y /\ y \in 1..n
    BY <1>1, <1>2, <1>3
  <2> QED
    BY <1>4, <2>1
<1> HIDE DEF x
<1>6. Max(s) \in s /\ \A y \in s : Max(s) >= y
  BY <1>4, <1>5, Zenon DEF Max
<1>7. Max(s) \in 1..n
  BY <1>1, <1>6
<1>8. \A y \in s : y <= Max(s)
  <2> TAKE y \in s
  <2>1. y \in 1..n /\ Max(s) >= y
    BY <1>1, <1>6
  <2> QED
    BY <1>7, <2>1
<1> QED
  BY <1>6, <1>8

LEMMA MaxIs ==
    ASSUME NEW n \in Nat, NEW k \in 1..n, NEW s \in SUBSET (1..k), k \in s
    PROVE  Max(s) = k
<1>1. k \in Nat
  OBVIOUS
<1>2. Max(s) \in s /\ \A y \in s : y <= Max(s)
  BY <1>1, MaxOf
<1>3. Max(s) \in 1..k
  BY <1>2
<1>4. k <= Max(s)
  BY <1>2
<1> QED
  BY <1>1, <1>3, <1>4

(* The recursive function of the fold, given the step as a function.       *)
FoldsUp(f, n, base, G) ==
    \A s \in SUBSET (1..n) :
        f[s] = IF s = {} THEN base ELSE G[<<f[s \ {Max(s)}], Max(s)>>]

LEMMA FoldExists ==
    ASSUME NEW n \in Nat, NEW A, NEW base \in A, NEW G \in [A \X (1..n) -> A]
    PROVE  \E f \in [SUBSET (1..n) -> A] : FoldsUp(f, n, base, G)
<1> DEFINE P == SUBSET (1..n)
           Step(f, s) == IF s = {} THEN base ELSE G[<<f[s \ {Max(s)}], Max(s)>>]
           Solves(f, k) == \A s \in SUBSET (1..k) : f[s] = Step(f, s)
           S == {k \in 0..n : \E f \in [P -> A] : Solves(f, k)}
<1>1. 0 \in S
  <2> DEFINE f == [s \in P |-> base]
  <2>1. f \in [P -> A]
    OBVIOUS
  <2>2. Solves(f, 0)
    <3>1. \A s \in SUBSET (1..0) : s = {}
      OBVIOUS
    <3>2. {} \in P
      OBVIOUS
    <3>3. f[{}] = base
      BY <3>2
    <3> HIDE DEF f
    <3> QED
      BY <3>1, <3>3
  <2>3. 0 \in 0..n
    OBVIOUS
  <2> HIDE DEF Solves, f
  <2> QED
    BY <2>1, <2>2, <2>3
<1>2. ASSUME NEW k \in 0..(n - 1), k \in S PROVE k + 1 \in S
  <2>1. PICK f \in [P -> A] : Solves(f, k)
    BY <1>2
  <2> DEFINE l == k + 1
             g == [s \in P |-> IF l \in s THEN G[<<f[s \ {l}], l>>] ELSE f[s]]
  <2>2. l \in 1..n /\ l \in 0..n /\ l \notin 1..k /\ \A x \in 1..l : x \in 1..k \/ x = l
    OBVIOUS
  <2> HIDE DEF l
  <2>3. \A s \in P : s \ {l} \in P
    OBVIOUS
  <2>4. \A s \in P : G[<<f[s \ {l}], l>>] \in A /\ f[s] \in A
    BY <2>1, <2>2, <2>3
  <2>5. g \in [P -> A]
    <3> HIDE DEF P
    <3> QED
      BY <2>4
  <2>6. \A s \in P : /\ l \notin s => g[s] = f[s]
                     /\ l \in s => g[s] = G[<<f[s \ {l}], l>>]
    <3> HIDE DEF P
    <3> QED
      OBVIOUS
  <2> HIDE DEF g
  <2>7. ASSUME NEW s \in SUBSET (1..l) PROVE g[s] = Step(g, s)
    <3>1. s \in P
      BY <2>2
    <3>2. CASE l \in s
      <4>1. Max(s) = l
        BY <2>2, <3>2, MaxIs
      <4>2. s \ {l} \in P /\ l \notin s \ {l}
        BY <2>3, <3>1
      <4>3. g[s \ {l}] = f[s \ {l}]
        BY <2>6, <4>2
      <4>4. g[s] = G[<<f[s \ {l}], l>>]
        BY <2>6, <3>1, <3>2
      <4>5. s # {}
        BY <3>2
      <4> QED
        BY <4>1, <4>3, <4>4, <4>5, Zenon
    <3>3. CASE l \notin s
      <4>1. s \in SUBSET (1..k)
        BY <2>2, <3>3
      <4>2. f[s] = Step(f, s)
        BY <2>1, <4>1
      <4>3. g[s] = f[s]
        BY <2>6, <3>1, <3>3
      <4>4. g[s \ {Max(s)}] = f[s \ {Max(s)}]
        <5>1. s \ {Max(s)} \in P /\ l \notin s \ {Max(s)}
          BY <3>1, <3>3
        <5> QED
          BY <2>6, <5>1
      <4> QED
        BY <4>2, <4>3, <4>4, Zenon
    <3> QED
      BY <3>2, <3>3
  <2>8. Solves(g, l)
    BY <2>7
  <2> HIDE DEF Solves
  <2>9. l \in S
    BY <2>2, <2>5, <2>8
  <2> HIDE DEF S
  <2> QED
    BY <2>9 DEF l
<1>3. n \in S
  <2>1. \A k \in 0..n : k \in S
    <3> HIDE DEF S
    <3>1. 0 \in Nat
      OBVIOUS
    <3> QED
      BY <1>1, <1>2, <3>1, UpTo
  <2>2. n \in 0..n
    OBVIOUS
  <2> HIDE DEF S
  <2> QED
    BY <2>1, <2>2
<1>4. PICK f \in [P -> A] : Solves(f, n)
  BY <1>3
<1>5. FoldsUp(f, n, base, G)
  BY <1>4, Zenon DEF FoldsUp
<1> QED
  BY <1>5

(* The sets it meets: the first k indices.                                 *)
LEMMA FirstIndices ==
    ASSUME NEW n \in Nat, NEW k \in 1..n
    PROVE  /\ 1..k \in SUBSET (1..n) /\ 1..k # {}
           /\ Max(1..k) = k /\ (1..k) \ {k} = 1..(k - 1)
<1>1. 1..k \in SUBSET (1..n) /\ k \in 1..k /\ 1..k # {} /\ 1..k \in SUBSET (1..k)
  OBVIOUS
<1>2. Max(1..k) = k
  BY <1>1, MaxIs
<1>3. (1..k) \ {k} = 1..(k - 1)
  OBVIOUS
<1> QED
  BY <1>1, <1>2, <1>3

NothingSeen == [max |-> 0, total |-> 0, updates |-> 0]
Scans(g, vocs) ==
    /\ g[0] = NothingSeen
    /\ \A k \in 1..Len(vocs) : g[k] = ScanVoc(g[k - 1], vocs[k])
    /\ \A k \in 0..Len(vocs) : g[k] \in [max : Nat, total : Int, updates : Int]

LEMMA ScanSteps ==
    ASSUME NEW vocs \in Seq(Int)
    PROVE  \E g : Scans(g, vocs) /\ FoldLeft(ScanVoc, NothingSeen, vocs) = g[Len(vocs)]
<1> DEFINE n == Len(vocs)
           A == [max : Nat, total : Int, updates : Int]
           base == NothingSeen
           G == [p \in A \X (1..n) |-> ScanVoc(p[1], vocs[p[2]])]
           folded[s \in SUBSET (DOMAIN vocs)] ==
               IF s = {} THEN base
               ELSE LET x == Max(s) IN ScanVoc(folded[s \ {x}], vocs[x])
<1>1. n \in Nat /\ DOMAIN vocs = 1..n /\ \A i \in 1..n : vocs[i] \in Int
  OBVIOUS
<1>2. FoldLeft(ScanVoc, base, vocs) = folded[DOMAIN vocs]
  BY Zenon DEF FoldLeft, MapThenFoldSet
<1>3. base \in A
  BY DEF NothingSeen
<1>4. ASSUME NEW a \in A, NEW v \in Int PROVE ScanVoc(a, v) \in A
  <2>1. AtLeast(0, v) \in Nat /\ AtLeast(a.max, AtLeast(0, v)) \in Nat
    BY DEF AtLeast
  <2> QED
    BY <2>1 DEF ScanVoc
<1> HIDE DEF A, base
<1>5. \A a \in A, i \in 1..n : ScanVoc(a, vocs[i]) \in A
  BY <1>1, <1>4
<1>6. G \in [A \X (1..n) -> A]
  <2> HIDE DEF n
  <2>1. \A p \in A \X (1..n) : p[1] \in A /\ p[2] \in 1..n
    OBVIOUS
  <2>2. \A p \in A \X (1..n) : ScanVoc(p[1], vocs[p[2]]) \in A
    BY <1>5, <2>1
  <2> QED
    BY <2>2
<1>7. \A a \in A, i \in 1..n : G[<<a, i>>] = ScanVoc(a, vocs[i])
  <2> HIDE DEF n
  <2> TAKE a \in A, i \in 1..n
  <2>1. <<a, i>> \in A \X (1..n) /\ <<a, i>>[1] = a /\ <<a, i>>[2] = i
    OBVIOUS
  <2> QED
    BY <2>1
<1> HIDE DEF G
<1>8. PICK f \in [SUBSET (1..n) -> A] : \A s \in SUBSET (1..n) :
              f[s] = IF s = {} THEN base ELSE G[<<f[s \ {Max(s)}], Max(s)>>]
  <2> HIDE DEF n
  <2>1. \E f \in [SUBSET (1..n) -> A] : FoldsUp(f, n, base, G)
    BY <1>1, <1>3, <1>6, FoldExists
  <2> QED
    BY <2>1, Zenon DEF FoldsUp
<1>9. \A s \in SUBSET (DOMAIN vocs) :
         f[s] = IF s = {} THEN base ELSE ScanVoc(f[s \ {Max(s)}], vocs[Max(s)])
  <2> SUFFICES ASSUME NEW s \in SUBSET (1..n), s # {}
               PROVE  f[s] = ScanVoc(f[s \ {Max(s)}], vocs[Max(s)])
    BY <1>1, <1>8
  <2>1. Max(s) \in 1..n /\ s \ {Max(s)} \in SUBSET (1..n)
    <3>1. Max(s) \in s
      BY <1>1, MaxOf
    <3> QED
      BY <3>1
  <2>2. f[s \ {Max(s)}] \in A
    BY <2>1
  <2>3. f[s] = G[<<f[s \ {Max(s)}], Max(s)>>]
    BY <1>8
  <2> QED
    BY <1>7, <2>1, <2>2, <2>3
<1> DEFINE It(g) == [s \in SUBSET (DOMAIN vocs) |->
               IF s = {} THEN base ELSE LET x == Max(s) IN ScanVoc(g[s \ {x}], vocs[x])]
<1>10. f = It(f)
  <2>1. DOMAIN f = SUBSET (DOMAIN vocs) /\ f = [s \in SUBSET (DOMAIN vocs) |-> f[s]]
    BY <1>1
  <2>2. [s \in SUBSET (DOMAIN vocs) |-> f[s]] = It(f)
    BY <1>9
  <2> QED
    BY <2>1, <2>2
<1>11. folded = It(folded)
  <2>1. \E g : g = It(g)
    BY <1>10
  <2> QED
    BY <2>1, Zenon DEF folded
<1> HIDE DEF folded
<1>12. folded[{}] = base /\ \A k \in 1..n : folded[1..k] = ScanVoc(folded[1..(k - 1)], vocs[k])
  <2>1. \A s \in SUBSET (1..n) :
           folded[s] = IF s = {} THEN base ELSE ScanVoc(folded[s \ {Max(s)}], vocs[Max(s)])
    BY <1>1, <1>11, Zenon
  <2>2. {} \in SUBSET (1..n)
    OBVIOUS
  <2>3. ASSUME NEW k \in 1..n PROVE folded[1..k] = ScanVoc(folded[1..(k - 1)], vocs[k])
    <3> HIDE DEF n
    <3>1. /\ 1..k \in SUBSET (1..n) /\ 1..k # {}
          /\ Max(1..k) = k /\ (1..k) \ {k} = 1..(k - 1)
      BY <1>1, FirstIndices
    <3>2. folded[1..k] = ScanVoc(folded[(1..k) \ {Max(1..k)}], vocs[Max(1..k)])
      BY <2>1, <3>1, Zenon
    <3> QED
      BY <3>1, <3>2, Zenon
  <2> QED
    BY <2>1, <2>2, <2>3, Zenon
<1> DEFINE S == {k \in 0..n : folded[1..k] \in A}
<1>13. 0 \in S
  <2>1. 1..0 = {} /\ 0 \in 0..n
    BY <1>1
  <2> QED
    BY <1>3, <1>12, <2>1
<1>14. ASSUME NEW k \in 0..(n - 1), k \in S PROVE k + 1 \in S
  <2>1. k + 1 \in 1..n /\ k + 1 \in 0..n /\ (k + 1) - 1 = k
    BY <1>1
  <2>2. folded[1..(k + 1)] = ScanVoc(folded[1..k], vocs[k + 1])
    BY <1>12, <2>1
  <2>3. folded[1..(k + 1)] \in A
    BY <1>5, <1>14, <2>1, <2>2
  <2> QED
    BY <2>1, <2>3
<1>15. \A k \in 0..n : k \in S
  <2> HIDE DEF S, n
  <2>1. 0 \in Nat
    OBVIOUS
  <2> QED
    BY <1>1, <1>13, <1>14, <2>1, UpTo
<1> DEFINE h == [k \in 0..n |-> folded[1..k]]
<1>16. FoldLeft(ScanVoc, base, vocs) = h[n]
  <2>1. n \in 0..n
    BY <1>1
  <2> QED
    BY <1>1, <1>2, <2>1
<1>17. h[0] = base
  <2>1. 1..0 = {} /\ 0 \in 0..n
    BY <1>1
  <2> QED
    BY <1>12, <2>1
<1>18. \A k \in 1..n : h[k] = ScanVoc(h[k - 1], vocs[k])
  <2> TAKE k \in 1..n
  <2>1. k \in 0..n /\ k - 1 \in 0..n
    BY <1>1
  <2>2. h[k] = folded[1..k] /\ h[k - 1] = folded[1..(k - 1)]
    BY <2>1
  <2> QED
    BY <1>12, <2>2
<1>19. \A k \in 0..n : h[k] \in A
  BY <1>15
<1> HIDE DEF h
<1>20. Scans(h, vocs)
  BY <1>17, <1>18, <1>19 DEF Scans, A, n, base
<1> QED
  BY <1>16, <1>20 DEF n, base

LEMMA VocsScanned ==
    ASSUME NEW vocs \in Seq(Int)
    PROVE  FoldLeft(ScanVoc, NothingSeen, vocs) \in [max : Nat, total : Int, updates : Int]
<1>1. PICK g : Scans(g, vocs) /\ FoldLeft(ScanVoc, NothingSeen, vocs) = g[Len(vocs)]
  BY ScanSteps
<1>2. Len(vocs) \in 0..Len(vocs)
  OBVIOUS
<1> QED
  BY <1>1, <1>2 DEF Scans

-----------------------------------------------------------------------------
(* A token as the trace frontend sends it.                                 *)
LEMMA CeilDivInt ==
    ASSUME NEW a \in Nat, NEW b \in Nat \ {0}
    PROVE  CeilDiv(a, b) \in Int
<1> DEFINE c == a + b - 1
<1>1. c \in Nat
  OBVIOUS
<1> HIDE DEF c
<1>2. c \div b \in Nat
  BY <1>1, DivMod
<1> QED
  BY <1>2 DEF CeilDiv, c

LEMMA SummaryType ==
    ASSUME NEW req, IsToken(req)
    PROVE  VocSummary(req).max_voc \in Nat /\ VocSummary(req).bgmu_reads \in Int
<1>1. CASE req.vocs # <<>>
  <2> DEFINE scan == FoldLeft(ScanVoc, NothingSeen, req.vocs)
             reads == CeilDiv(Len(req.vocs), NumBanks)
  <2>1. req.vocs \in Seq(Int)
    BY DEF IsToken
  <2>2. scan.max \in Nat
    <3>1. scan \in [max : Nat, total : Int, updates : Int]
      BY <2>1, VocsScanned
    <3> HIDE DEF scan
    <3> QED
      BY <3>1
  <2>3. reads \in Int
    <3>1. Len(req.vocs) \in Nat
      BY <2>1
    <3>2. NumBanks \in Nat \ {0}
      BY ConfigAssumption
    <3> QED
      BY <3>1, <3>2, CeilDivInt
  <2>4. VocSummary(req) = [max_voc |-> scan.max, total_voc |-> scan.total,
                           max_updates |-> scan.updates, bgmu_reads |-> reads,
                           voc_values |-> Len(req.vocs)]
    BY <1>1, Zenon DEF VocSummary, NothingSeen
  <2> HIDE DEF scan, reads
  <2> QED
    BY <2>2, <2>3, <2>4
<1>2. CASE req.vocs = <<>>
  <2> DEFINE max == AtLeast(0, req.max_voc)
  <2>1. max \in Nat
    BY DEF IsToken, AtLeast
  <2>2. VocSummary(req).max_voc = max /\ VocSummary(req).bgmu_reads = NumBgs
    BY <1>2 DEF VocSummary
  <2>3. NumBgs \in Int
    BY ConfigAssumption
  <2> QED
    BY <2>1, <2>2, <2>3
<1> QED
  BY <1>1, <1>2

LEMMA BaseType ==
    ASSUME NEW req, IsToken(req)
    PROVE  BaseAddr(req) \in OpAddr /\ MacCommands(req) \in Int /\ AccCommands(req) \in Int
<1>1. /\ req.path \in Int \X Int \X Int /\ req.row \in Int /\ req.col \in Int
      /\ req.mac \in Int /\ req.acc \in Int
  BY DEF IsToken
<1>2. AtLeast(0, req.row) \in Int /\ AtLeast(0, req.col) \in Int
  BY <1>1 DEF AtLeast
<1>3. BaseAddr(req) \in OpAddr
  BY <1>1, <1>2 DEF BaseAddr, OpAddr
<1>4. MacCommands(req) \in Int /\ AccCommands(req) \in Int
  BY <1>1, ConfigAssumption DEF MacCommands, AccCommands
<1> QED
  BY <1>3, <1>4

(* The parts of a token's operations.                                      *)
LEMMA TokenParts ==
    ASSUME NEW id, NEW req
    PROVE  TokenOps(id, req)
             = QkStage(BaseAddr(req), MacCommands(req)) \o ElemaxStage(BaseAddr(req))
               \o BgmuStage(VocSummary(req))
               \o If(VocSummary(req).max_voc # 0,
                     PvStage(BaseAddr(req), VocSummary(req).max_voc)
                       \o AccStage(BaseAddr(req), AccCommands(req)))
               \o <<CompleteOp(id)>>
BY Zenon DEF TokenOps

LEMMA TokenTidy ==
    ASSUME NEW id, NEW req, IsToken(req)
    PROVE  Expand(id, req) \in TidyOps(id)
<1> DEFINE base == BaseAddr(req)
           max == VocSummary(req).max_voc
           a == QkStage(base, MacCommands(req))
           b == ElemaxStage(base)
           c == BgmuStage(VocSummary(req))
           p == PvStage(base, max)
           q == AccStage(base, AccCommands(req))
           d == If(max # 0, p \o q)
           e == <<CompleteOp(id)>>
           S == TidyOps(id)
<1>1. /\ base \in OpAddr /\ MacCommands(req) \in Int /\ AccCommands(req) \in Int
      /\ max \in Int /\ VocSummary(req).bgmu_reads \in Int
  BY BaseType, SummaryType
<1>2. a \in S
  BY <1>1, QkStageTidy
<1>3. b \in S
  BY <1>1, ElemaxTidy
<1>4. c \in S
  BY <1>1, BgmuTidy
<1>5. p \in S
  BY <1>1, PvStageTidy
<1>6. q \in S
  BY <1>1, AccStageTidy
<1>7. e \in S
  <2>1. /\ CompleteOp(id) \in TokenOp(id) /\ CompleteOp(id).kind = "Complete"
        /\ CompleteOp(id).command = "none"
    <3>1. 0 \in Int
      OBVIOUS
    <3> QED
      BY <3>1, SpecialOps
  <2> QED
    BY <2>1, OneQuietOp DEF UsesOpenRow
<1>8. TokenOps(id, req) = a \o b \o c \o d \o e
  BY TokenParts
<1>9. Expand(id, req) = a \o b \o c \o d \o e
  <2>1. req.type = "spare-pim"
    BY DEF IsToken
  <2> QED
    BY <1>8, <2>1, Zenon DEF Expand
<1> HIDE DEF a, b, c, p, q, e, max
<1>10. \A s \in S, t \in S : s \o t \in S
  BY TidyOpsAppend
<1>11. <<>> \in S
  BY NothingTidy
<1> HIDE DEF S
<1>12. d \in S
  BY <1>5, <1>6, <1>10, <1>11 DEF If
<1> HIDE DEF d
<1>13. a \o b \in S
  BY <1>2, <1>3, <1>10
<1>14. a \o b \o c \in S
  BY <1>4, <1>10, <1>13
<1>15. a \o b \o c \o d \in S
  BY <1>10, <1>12, <1>14
<1>16. a \o b \o c \o d \o e \in S
  BY <1>7, <1>10, <1>15
<1> QED
  BY <1>9, <1>16 DEF S

(* Every bank of the channel is visited.                                   *)
LEMMA Below ==
    ASSUME NEW a \in Nat, NEW m \in Nat, NEW b \in Nat, NEW n \in Nat, a < m, b < n
    PROVE  n * a + b \in Nat /\ n * a + b < m * n
BY Z3

LEMMA UniqueDivMod ==
    ASSUME NEW v \in Nat \ {0}, NEW q \in Nat, NEW r \in 0..(v - 1), NEW a \in Nat, a = v * q + r
    PROVE  a \div v = q /\ a % v = r
<1>1. /\ a \div v \in Nat /\ a % v \in 0..(v - 1)
      /\ a = v * (a \div v) + (a % v)
  BY DivMod
<1> DEFINE p == a \div v  s == a % v
<1>2. p \in Nat /\ s \in 0..(v - 1) /\ v * p + s = v * q + r
  BY <1>1
<1> HIDE DEF p, s
<1>3. p = q /\ s = r
  <2>1. v \in Nat \ {0} /\ p \in Int /\ q \in Int /\ r \in 0..(v - 1) /\ s \in 0..(v - 1)
    BY <1>2
  <2> QED
    BY <1>2, <2>1, Unique
<1> QED
  BY <1>3 DEF p, s

Splits(a, v, q, r) == a = v * q + r

LEMMA SplitOnce ==
    ASSUME NEW v \in Nat \ {0}, NEW q \in Nat, NEW r \in 0..(v - 1), NEW a \in Nat,
           Splits(a, v, q, r)
    PROVE  a \div v = q /\ a % v = r
<1>1. a = v * q + r
  BY DEF Splits
<1> QED
  BY <1>1, UniqueDivMod

LEMMA BankVisited ==
    ASSUME NEW p \in 0..(NumPchs - 1), NEW g \in 0..(NumBgs - 1), NEW b \in 0..(NumBanks - 1)
    PROVE  \E k \in 0..(TotalBanks - 1) : BankPath(k) = <<p, g, b>>
<1> DEFINE P == NumPchs  G == NumBgs  v == NumBanks
           w == G * v
           r == v * g + b
           k == w * p + r
<1>1. P \in Nat \ {0} /\ G \in Nat \ {0} /\ v \in Nat \ {0}
  BY ConfigAssumption
<1>2. p \in Nat /\ p < P /\ g \in Nat /\ g < G /\ b \in Nat /\ b < v /\ b \in 0..(v - 1)
  BY <1>1
<1>3. TotalBanks = P * G * v
  BY DEF TotalBanks
<1>4. BankPath(k) = <<k \div w, (k % w) \div v, k % v>>
  BY Zenon DEF BankPath
<1> HIDE DEF P, G, v
<1>5. r \in Nat /\ r < w
  BY <1>1, <1>2, Below
<1>6. w \in Nat \ {0}
  BY <1>1, Z3
<1> HIDE DEF r, w
<1>7. k \in Nat /\ k < P * w
  BY <1>1, <1>2, <1>5, <1>6, Below
<1>8. P * w = TotalBanks
  BY <1>1, <1>3, Z3 DEF w
<1>9. k \div w = p /\ k % w = r
  <2>1. r \in 0..(w - 1)
    BY <1>5, <1>6
  <2> DEFINE kk == k
  <2>2. Splits(kk, w, p, r) /\ kk \in Nat
    BY <1>7, Zenon DEF Splits
  <2> HIDE DEF kk
  <2>3. kk \div w = p /\ kk % w = r
    <3>1. p \in Nat /\ w \in Nat \ {0}
      BY <1>2, <1>6
    <3> QED
      BY <2>1, <2>2, <3>1, SplitOnce
  <2> QED
    BY <2>3 DEF kk
<1>10. r \div v = g
  BY <1>1, <1>2, <1>5, UniqueDivMod DEF r
<1>11. k % v = b
  <2> DEFINE q == G * p + g
  <2>1. q \in Nat
    BY <1>1, <1>2, Z3
  <2>2. k = v * q + b
    BY <1>1, <1>2, Z3 DEF r, w
  <2> HIDE DEF q, k
  <2>3. k \in Nat
    BY <1>7 DEF k
  <2>4. v \in Nat \ {0} /\ b \in 0..(v - 1)
    BY <1>1, <1>2
  <2>5. k \div v = q /\ k % v = b
    BY <2>1, <2>2, <2>3, <2>4, UniqueDivMod
  <2> QED
    BY <2>5
<1> HIDE DEF k
<1>12. BankPath(k) = <<p, g, b>>
  BY <1>4, <1>9, <1>10, <1>11
<1>13. k \in 0..(TotalBanks - 1)
  BY <1>7, <1>8, BanksPositive
<1> QED
  BY <1>12, <1>13

(* The expansion of any token by expand_sparepim_token opens a row of a    *)
(* bank only when the bank is closed, closes every row it opens, and       *)
(* issues MAC and SPM on the row its bank has open, in every bank.         *)
THEOREM TokenBrackets ==
    ASSUME NEW id, NEW req, IsToken(req), NEW banks,
           \A x \in banks : \E p \in 0..(NumPchs - 1), g \in 0..(NumBgs - 1),
                               b \in 0..(NumBanks - 1) : x = <<p, g, b>>
    PROVE  BracketsRows(Expand(id, req), banks) /\ ComputesOnOpened(Expand(id, req), banks)
<1> DEFINE s == Expand(id, req)
<1>1. /\ s \in Seq(TokenOp(id))
      /\ \A k \in 0..(TotalBanks - 1) : Tidy(s, BankPath(k))
  BY TokenTidy DEF TidyOps
<1>2. \A bank \in banks : Tidy(s, bank)
  <2> TAKE bank \in banks
  <2>1. PICK p \in 0..(NumPchs - 1), g \in 0..(NumBgs - 1), b \in 0..(NumBanks - 1) :
           bank = <<p, g, b>>
    OBVIOUS
  <2>2. PICK k \in 0..(TotalBanks - 1) : BankPath(k) = <<p, g, b>>
    BY BankVisited
  <2> HIDE DEF s
  <2> QED
    BY <1>1, <2>1, <2>2
<1>3. \A i \in 1..Len(s) : s[i].command \notin {"PREA", "RDA", "WRA"}
  <2> DEFINE X == TokenOp(id)
  <2>1. \A op \in X : op.command \in {"ACT", "PRE", "MAC", "SPM", "MOV", "EMUL", "ACC", "none"}
    BY DEF TokenOp
  <2>2. \A i \in 1..Len(s) : s[i] \in X
    <3> HIDE DEF s, X
    <3>1. s \in Seq(X)
      BY <1>1 DEF X
    <3> QED
      BY <3>1
  <2> HIDE DEF s, X
  <2> QED
    BY <2>1, <2>2
<1> HIDE DEF s
<1>4. BracketsRows(s, banks)
  BY <1>2, <1>3 DEF BracketsRows, Tidy
<1>5. ComputesOnOpened(s, banks)
  BY <1>2 DEF ComputesOnOpened, Tidy
<1> QED
  BY <1>4, <1>5 DEF s

-----------------------------------------------------------------------------
(* The commands of an expansion, counted.                                  *)
LEMMA CommandsCounted ==
    ASSUME NEW X, NEW s \in Seq(X), NEW cmd
    PROVE  /\ IsFiniteSet(CommandsIn(s, cmd)) /\ Number(s, cmd) = Cardinality(CommandsIn(s, cmd))
           /\ Number(s, cmd) \in Nat
<1> DEFINE n == Len(s)
           S == CommandsIn(s, cmd)
<1>1. n \in Nat /\ S \in SUBSET (1..n)
  BY DEF CommandsIn
<1>2. Number(s, cmd) = Cardinality(S)
  BY Zenon DEF Number, CommandsIn
<1> HIDE DEF n, S
<1>3. IsFiniteSet(1..n)
  BY <1>1, FS_Interval
<1>4. IsFiniteSet(S)
  BY <1>1, <1>3, FS_Subset
<1>5. Cardinality(S) \in Nat
  BY <1>4, FS_CardinalityType
<1> QED
  BY <1>2, <1>4, <1>5 DEF S

LEMMA NumberAppend ==
    ASSUME NEW X, NEW s \in Seq(X), NEW t \in Seq(X), NEW cmd
    PROVE  Number(s \o t, cmd) = Number(s, cmd) + Number(t, cmd)
<1> DEFINE u == s \o t
           n == Len(s)
           Is(r, i) == r[i].kind = "Command" /\ r[i].command = cmd
           A == CommandsIn(s, cmd)
           B == CommandsIn(t, cmd)
           U == CommandsIn(u, cmd)
           C == U \ A
           f == [i \in B |-> n + i]
<1>1. /\ u \in Seq(X) /\ Len(u) = n + Len(t) /\ n \in Nat /\ Len(t) \in Nat
      /\ \A i \in 1..n : u[i] = s[i]
      /\ \A i \in 1..Len(t) : u[n + i] = t[i]
  OBVIOUS
<1>2. /\ \A i : i \in A <=> i \in 1..n /\ Is(s, i)
      /\ \A i : i \in B <=> i \in 1..Len(t) /\ Is(t, i)
      /\ \A i : i \in U <=> i \in 1..Len(u) /\ Is(u, i)
  BY DEF CommandsIn
<1>3. /\ IsFiniteSet(A) /\ IsFiniteSet(B) /\ IsFiniteSet(U)
      /\ Number(s, cmd) = Cardinality(A) /\ Number(t, cmd) = Cardinality(B)
      /\ Number(u, cmd) = Cardinality(U)
      /\ Number(s, cmd) \in Nat /\ Number(t, cmd) \in Nat
  <2> HIDE DEF u
  <2> QED
    BY <1>1, CommandsCounted
<1> HIDE DEF u, n, A, B, U
<1>4. \A i \in 1..n : Is(u, i) <=> Is(s, i)
  BY <1>1
<1>5. \A i \in 1..Len(t) : Is(u, n + i) <=> Is(t, i)
  BY <1>1
<1> HIDE DEF Is
<1>6. \A i \in A : i \in U
  <2> TAKE i \in A
  <2>1. i \in 1..n /\ Is(s, i)
    BY <1>2
  <2>2. i \in 1..Len(u) /\ Is(u, i)
    BY <1>1, <1>4, <2>1
  <2> QED
    BY <1>2, <2>2
<1>7. ASSUME NEW i \in B PROVE f[i] = n + i /\ f[i] \in C /\ i \in Nat
  <2>1. i \in 1..Len(t) /\ Is(t, i)
    BY <1>2
  <2>2. n + i \in 1..Len(u) /\ n + i \notin 1..n /\ Is(u, n + i) /\ i \in Nat
    BY <1>1, <1>5, <2>1
  <2> QED
    BY <1>2, <2>2
<1>8. ASSUME NEW j \in C PROVE \E i \in B : f[i] = j
  <2>1. j \in 1..Len(u) /\ Is(u, j) /\ j \notin A
    BY <1>2
  <2>2. j \notin 1..n
    BY <1>2, <1>4, <2>1
  <2>3. j - n \in 1..Len(t) /\ n + (j - n) = j
    BY <1>1, <2>1, <2>2
  <2>4. Is(t, j - n)
    BY <1>5, <2>1, <2>3
  <2>5. j - n \in B
    BY <1>2, <2>3, <2>4
  <2> QED
    BY <1>7, <2>3, <2>5
<1>9. f \in [B -> C]
  BY <1>7
<1>10. \A i, j \in B : f[i] = f[j] => i = j
  <2> TAKE i, j \in B
  <2>1. i \in Nat /\ j \in Nat /\ f[i] = n + i /\ f[j] = n + j
    BY <1>7
  <2> HIDE DEF f
  <2> QED
    BY <1>1, <2>1
<1> HIDE DEF f
<1>11. ExistsBijection(B, C)
  <2>1. f \in Bijection(B, C)
    BY <1>8, <1>9, <1>10 DEF Bijection, Injection, Surjection, IsInjective
  <2> QED
    BY <2>1 DEF ExistsBijection
<1>12. IsFiniteSet(C) /\ Cardinality(C) = Cardinality(B)
  <2> HIDE DEF C
  <2> QED
    BY <1>3, <1>11, FS_Bijection
<1>13. U = A \cup C /\ A \cap C = {}
  BY <1>6
<1> HIDE DEF C
<1>14. Cardinality(U) = Cardinality(A) + Cardinality(C) - Cardinality({})
  BY <1>3, <1>12, <1>13, FS_Union
<1>15. Cardinality({}) = 0
  BY FS_EmptySet
<1> QED
  BY <1>3, <1>12, <1>14, <1>15 DEF u

LEMMA NumberAll ==
    ASSUME NEW X, NEW s \in Seq(X), NEW cmd,
           \A i \in 1..Len(s) : s[i].kind = "Command" /\ s[i].command = cmd
    PROVE  Number(s, cmd) = Len(s)
<1> DEFINE n == Len(s)
<1>1. CommandsIn(s, cmd) = 1..n /\ n \in Nat
  BY DEF CommandsIn
<1>2. Number(s, cmd) = Cardinality(1..n)
  BY <1>1, CommandsCounted
<1> HIDE DEF n
<1>3. Cardinality(1..n) = n
  <2>1. 1 \in Int /\ n \in Int
    BY <1>1
  <2>2. Cardinality(1..n) = IF 1 > n THEN 0 ELSE n - 1 + 1
    BY <2>1, FS_Interval
  <2> QED
    BY <1>1, <2>2
<1> QED
  BY <1>2, <1>3 DEF n

LEMMA NumberNone ==
    ASSUME NEW X, NEW s \in Seq(X), NEW cmd, \A i \in 1..Len(s) : s[i].command # cmd
    PROVE  Number(s, cmd) = 0
<1>1. CommandsIn(s, cmd) = {}
  BY DEF CommandsIn
<1>2. Number(s, cmd) = Cardinality({})
  BY <1>1, CommandsCounted
<1> QED
  BY <1>2, FS_EmptySet

(* The count of a concatenation, part by part: v[k] after k parts.         *)
LEMMA FlattenCounts ==
    ASSUME NEW X, NEW q \in Seq(Seq(X)), NEW cmd, NEW v,
           v[0] = 0, \A k \in 1..Len(q) : v[k] = v[k - 1] + Number(q[k], cmd)
    PROVE  Number(FlattenSeq(q), cmd) = v[Len(q)]
<1>1. CASE q = <<>>
  <2>1. Len(q) = 0 /\ FlattenSeq(q) = q
    BY <1>1 DEF FlattenSeq
  <2>2. Number(q, cmd) = 0
    <3>1. q \in Seq(X)
      BY <1>1
    <3>2. \A i \in 1..Len(q) : q[i].command # cmd
      BY <2>1
    <3> QED
      BY <3>1, <3>2, NumberNone
  <2> QED
    BY <2>1, <2>2
<1>2. CASE q # <<>>
  <2>1. PICK f : /\ f[1] = q[1]
                 /\ \A i \in 2..Len(q) : f[i] = f[i - 1] \o q[i]
                 /\ FlattenSeq(q) = f[Len(q)]
    BY <1>2, Flattens
  <2> DEFINE n == Len(q)
             T == {k \in 1..n : f[k] \in Seq(X) /\ Number(f[k], cmd) = v[k]}
  <2>2. n \in Nat /\ n > 0 /\ \A k \in 1..n : q[k] \in Seq(X)
    BY <1>2
  <2>3. 1 \in T
    <3>1. 1 \in 1..n /\ f[1] = q[1] /\ q[1] \in Seq(X)
      BY <2>1, <2>2
    <3>2. v[1] = v[1 - 1] + Number(q[1], cmd) /\ Number(q[1], cmd) \in Nat
      BY <3>1, CommandsCounted
    <3>3. v[1] = Number(q[1], cmd)
      BY <3>2
    <3> QED
      BY <3>1, <3>3
  <2>4. ASSUME NEW k \in 1..(n - 1), k \in T PROVE k + 1 \in T
    <3>1. k + 1 \in 2..Len(q) /\ (k + 1) - 1 = k /\ k + 1 \in 1..n
      BY <2>2
    <3>2. /\ f[k + 1] = f[k] \o q[k + 1] /\ f[k] \in Seq(X) /\ q[k + 1] \in Seq(X)
          /\ Number(f[k], cmd) = v[k]
      BY <2>1, <2>2, <2>4, <3>1
    <3>3. Number(f[k + 1], cmd) = Number(f[k], cmd) + Number(q[k + 1], cmd)
      BY <3>2, NumberAppend
    <3>4. v[k + 1] = v[k] + Number(q[k + 1], cmd)
      BY <3>1
    <3>5. f[k + 1] \in Seq(X)
      BY <3>2
    <3> QED
      BY <3>1, <3>2, <3>3, <3>4, <3>5
  <2>5. \A k \in 1..n : k \in T
    <3> HIDE DEF T, n
    <3> QED
      BY <2>2, <2>3, <2>4, UpTo
  <2>6. n \in 1..n
    BY <2>2
  <2> QED
    BY <2>1, <2>5, <2>6
<1> QED
  BY <1>1, <1>2

(* The commands of one row: an ACT and a PRE of every bank if it is opened *)
(* and closed, and those in between.                                       *)
PerRow(flag, cmd) == IF flag /\ cmd \in {"ACT", "PRE"} THEN TotalBanks ELSE 0

LEMMA PerBankCounts ==
    ASSUME NEW id, NEW addr \in OpAddr, NEW c \in {"ACT", "PRE"}, NEW flag, NEW cmd
    PROVE  /\ If(flag, PerBank(c, addr)) \in Seq(TokenOp(id))
           /\ Number(If(flag, PerBank(c, addr)), cmd) = IF flag /\ cmd = c THEN TotalBanks ELSE 0
<1> DEFINE X == TokenOp(id)
           s == PerBank(c, addr)
           t == If(flag, s)
<1>1. s \in Seq(X) /\ Len(s) = TotalBanks /\ TotalBanks \in Nat
  BY PerBankIs, BanksNat
<1>2. \A i \in 1..Len(s) : s[i].kind = "Command" /\ s[i].command = c
  <2> TAKE i \in 1..Len(s)
  <2>1. i \in 1..TotalBanks
    BY <1>1
  <2>2. s[i] = CommandOp(c, AtBank(addr, i - 1))
    BY <2>1, PerBankIs
  <2> HIDE DEF s
  <2> QED
    BY <2>2 DEF CommandOp
<1> HIDE DEF s, X
<1>3. CASE flag
  <2>1. t = s
    BY <1>3 DEF If
  <2>2. CASE cmd = c
    <3>1. Number(s, cmd) = Len(s)
      BY <1>1, <1>2, <2>2, NumberAll
    <3> QED
      BY <1>1, <1>3, <2>1, <2>2, <3>1 DEF s, X
  <2>3. CASE cmd # c
    <3>1. \A i \in 1..Len(s) : s[i].command # cmd
      BY <1>2, <2>3
    <3>2. Number(s, cmd) = 0
      BY <1>1, <3>1, NumberNone
    <3> QED
      BY <1>1, <1>3, <2>1, <2>3, <3>2 DEF s, X
  <2> QED
    BY <2>2, <2>3
<1>4. CASE ~flag
  <2>1. t = <<>>
    BY <1>4 DEF If
  <2>2. t \in Seq(X) /\ Len(t) = 0
    BY <2>1
  <2> HIDE DEF t
  <2>3. \A i \in 1..Len(t) : t[i].command # cmd
    BY <2>2
  <2>4. Number(t, cmd) = 0
    BY <2>2, <2>3, NumberNone
  <2> QED
    BY <1>4, <2>2, <2>4 DEF t, s, X
<1> QED
  BY <1>3, <1>4

LEMMA BracketCounts ==
    ASSUME NEW id, NEW addr \in OpAddr, NEW m \in Seq(TokenOp(id)), NEW flag, NEW cmd
    PROVE  Number(If(flag, PerBank("ACT", addr)) \o m \o If(flag, PerBank("PRE", addr)), cmd)
             = PerRow(flag, cmd) + Number(m, cmd)
<1> DEFINE X == TokenOp(id)
           a == If(flag, PerBank("ACT", addr))
           z == If(flag, PerBank("PRE", addr))
<1>1. /\ a \in Seq(X) /\ Number(a, cmd) = IF flag /\ cmd = "ACT" THEN TotalBanks ELSE 0
      /\ z \in Seq(X) /\ Number(z, cmd) = IF flag /\ cmd = "PRE" THEN TotalBanks ELSE 0
  BY PerBankCounts
<1>2. TotalBanks \in Nat
  BY BanksNat
<1> HIDE DEF X, a, z
<1>3. m \in Seq(X)
  BY DEF X
<1>4. a \o m \in Seq(X)
  BY <1>1, <1>3
<1>5. Number(a \o m, cmd) = Number(a, cmd) + Number(m, cmd)
  BY <1>1, <1>3, NumberAppend
<1>6. Number(a \o m \o z, cmd) = Number(a \o m, cmd) + Number(z, cmd)
  <2> DEFINE am == a \o m
  <2>1. am \in Seq(X) /\ z \in Seq(X)
    BY <1>1, <1>4
  <2> HIDE DEF am
  <2>2. Number(am \o z, cmd) = Number(am, cmd) + Number(z, cmd)
    BY <2>1, NumberAppend
  <2> QED
    BY <2>2 DEF am
<1>7. Number(m, cmd) \in Nat
  BY <1>3, CommandsCounted
<1>8. Number(a \o m \o z, cmd) = PerRow(flag, cmd) + Number(m, cmd)
  <2> DEFINE x == Number(a, cmd)  y == Number(z, cmd)  w == Number(m, cmd)
  <2>1. x + w + y = PerRow(flag, cmd) + w
    <3>1. w \in Nat
      BY <1>7
    <3>2. /\ x = IF flag /\ cmd = "ACT" THEN TotalBanks ELSE 0
          /\ y = IF flag /\ cmd = "PRE" THEN TotalBanks ELSE 0
      BY <1>1
    <3> HIDE DEF x, y, w
    <3> QED
      BY <1>2, <3>1, <3>2 DEF PerRow
  <2> QED
    BY <1>5, <1>6, <2>1
<1> QED
  BY <1>8 DEF a, z

LEMMA QkRowCounts ==
    ASSUME NEW id, NEW s, NEW len \in Nat, QkRowMade(id, s, len), NEW cmd
    PROVE  Number(s, cmd) = PerRow(Cfg.enable_qk_act_pre, cmd) + IF cmd = "MAC" THEN len ELSE 0
<1> DEFINE X == TokenOp(id)  flag == Cfg.enable_qk_act_pre
<1>1. PICK row \in OpAddr, m \in Seq(X) :
         /\ s = If(flag, PerBank("ACT", row)) \o m \o If(flag, PerBank("PRE", row))
         /\ Len(m) = len
         /\ \A i \in 1..Len(m) : m[i].kind = "Command" /\ m[i].command = "MAC"
  BY Zenon DEF QkRowMade
<1> HIDE DEF X, flag
<1>2. Number(s, cmd) = PerRow(flag, cmd) + Number(m, cmd)
  BY <1>1, BracketCounts DEF X
<1>3. Number(m, cmd) = IF cmd = "MAC" THEN len ELSE 0
  <2>1. CASE cmd = "MAC"
    <3>1. Number(m, cmd) = Len(m)
      BY <1>1, <2>1, NumberAll
    <3> QED
      BY <1>1, <2>1, <3>1
  <2>2. CASE cmd # "MAC"
    <3>1. \A i \in 1..Len(m) : m[i].command # cmd
      BY <1>1, <2>2
    <3>2. Number(m, cmd) = 0
      BY <3>1, NumberNone
    <3> QED
      BY <2>2, <3>2
  <2> QED
    BY <2>1, <2>2
<1> QED
  BY <1>2, <1>3 DEF flag

PvRowMade(id, row, s) ==
    \E set \in TokenOp(id), op \in TokenOp(id) :
       /\ s = <<set>> \o (If(Cfg.enable_act_spm_pre, PerBank("ACT", row)) \o <<op>>
                            \o If(Cfg.enable_act_spm_pre, PerBank("PRE", row)))
       /\ set.kind = "ConfigureSPM" /\ set.command = "none"
       /\ op.kind = "Command" /\ op.command = "SPM" /\ op.addr.row = row.row

LEMMA PvRowParts ==
    ASSUME NEW id, NEW row \in OpAddr, NEW voc \in Int
    PROVE  PvRowMade(id, row, PvRow(row, voc))
<1> DEFINE X == TokenOp(id)
           op == CommandOp("SPM", AllBanks(row))
           set == ConfigureSpmOp(SpmLatency(voc))
           a == If(Cfg.enable_act_spm_pre, PerBank("ACT", row))
           z == If(Cfg.enable_act_spm_pre, PerBank("PRE", row))
<1>1. AllBanks(row) \in OpAddr /\ AllBanks(row).row = row.row
  BY AddrTypes
<1>2. op \in X /\ op.kind = "Command" /\ op.command = "SPM" /\ op.addr.row = row.row
  BY <1>1, CommandType
<1>3. set \in X /\ set.kind = "ConfigureSPM" /\ set.command = "none"
  BY SpmLatencyInt, SpecialOps
<1>4. a \in Seq(X) /\ z \in Seq(X)
  BY PerBankCounts
<1>5. PvRow(row, voc) = <<set>> \o a \o <<op>> \o z
  BY Zenon DEF PvRow
<1> HIDE DEF op, set, X, a, z
<1>6. <<set>> \o a \o <<op>> \o z = <<set>> \o (a \o <<op>> \o z)
  BY <1>2, <1>3, <1>4
<1>7. PvRow(row, voc) = <<set>> \o (a \o <<op>> \o z)
  BY <1>5, <1>6
<1> QED
  BY <1>2, <1>3, <1>7, Zenon DEF X, a, z, PvRowMade

LEMMA PvRowCounts ==
    ASSUME NEW id, NEW row \in OpAddr, NEW voc \in Int, NEW cmd \in PageCommands
    PROVE  Number(PvRow(row, voc), cmd)
             = PerRow(Cfg.enable_act_spm_pre, cmd) + IF cmd = "SPM" THEN 1 ELSE 0
<1> DEFINE X == TokenOp(id)  flag == Cfg.enable_act_spm_pre
           a == If(flag, PerBank("ACT", row))
           z == If(flag, PerBank("PRE", row))
<1>1. PICK set \in X, op \in X :
         /\ PvRow(row, voc) = <<set>> \o (a \o <<op>> \o z)
         /\ set.kind = "ConfigureSPM" /\ set.command = "none"
         /\ op.kind = "Command" /\ op.command = "SPM"
  <2>1. PvRowMade(id, row, PvRow(row, voc))
    BY PvRowParts
  <2> QED
    BY <2>1, Zenon DEF PvRowMade
<1> DEFINE m == <<op>>  c == <<set>>
<1>2. a \in Seq(X) /\ z \in Seq(X)
  BY PerBankCounts
<1> HIDE DEF X
<1>3. /\ m \in Seq(X) /\ Len(m) = 1 /\ m[1] = op
      /\ c \in Seq(X) /\ Len(c) = 1 /\ c[1] = set
  OBVIOUS
<1> HIDE DEF m, c
<1>4. Number(a \o m \o z, cmd) = PerRow(flag, cmd) + Number(m, cmd)
  BY <1>3, BracketCounts DEF X
<1> HIDE DEF a, z, flag
<1>5. a \o m \o z \in Seq(X)
  BY <1>2, <1>3
<1> DEFINE b == a \o m \o z
<1> HIDE DEF b
<1>6. Number(c \o b, cmd) = Number(c, cmd) + Number(b, cmd)
  <2>1. b \in Seq(X)
    BY <1>5, Zenon DEF b
  <2> QED
    BY <1>3, <2>1, NumberAppend
<1>7. Number(c, cmd) = 0
  <2>1. \A i \in 1..Len(c) : c[i].command # cmd
    BY <1>1, <1>3 DEF PageCommands
  <2> QED
    BY <1>3, <2>1, NumberNone
<1>8. Number(m, cmd) = IF cmd = "SPM" THEN 1 ELSE 0
  <2>1. CASE cmd = "SPM"
    <3>1. \A i \in 1..Len(m) : m[i].kind = "Command" /\ m[i].command = cmd
      BY <1>1, <1>3, <2>1
    <3>2. Number(m, cmd) = Len(m)
      BY <1>3, <3>1, NumberAll
    <3> QED
      BY <1>3, <2>1, <3>2
  <2>2. CASE cmd # "SPM"
    <3>1. \A i \in 1..Len(m) : m[i].command # cmd
      BY <1>1, <1>3, <2>2
    <3>2. Number(m, cmd) = 0
      BY <1>3, <3>1, NumberNone
    <3> QED
      BY <2>2, <3>2
  <2> QED
    BY <2>1, <2>2
<1>9. PvRow(row, voc) = c \o b
  BY <1>1 DEF b, c, m
<1>10. Number(b, cmd) = PerRow(flag, cmd) + Number(m, cmd) /\ Number(b, cmd) \in Nat
  <2>1. b \in Seq(X)
    BY <1>5 DEF b
  <2> QED
    BY <1>4, <2>1, CommandsCounted DEF b
<1>11. Number(PvRow(row, voc), cmd) = 0 + Number(b, cmd)
  BY <1>6, <1>7, <1>9
<1>12. Number(PvRow(row, voc), cmd) = Number(b, cmd)
  BY <1>10, <1>11
<1> QED
  BY <1>8, <1>10, <1>12 DEF flag

(* Where the k-th pass ends; the passes before it end where it begins.     *)
End(c, k) == IF k = 0 THEN 0 ELSE c[k].first + c[k].len

PassesEnd(c, start, count) ==
    /\ Len(c) \in Nat /\ c \in Seq(Chunk)
    /\ \A k \in 1..Len(c) :
          /\ c[k].first \in 0..(count - 1)
          /\ c[k] = ChunkAt(start, count, c[k].first)
          /\ c[k].len = ChunkLength(start, c[k].first, count)
          /\ c[k].len \in 1..(count - c[k].first)
          /\ End(c, k) \in Nat /\ End(c, k) = End(c, k - 1) + c[k].len
    /\ End(c, Len(c)) = AtLeast(0, count)

LEMMA PassEnds ==
    ASSUME NEW start \in Int, NEW count \in Int
    PROVE  PassesEnd(Chunks(start, count), start, count)
<1> DEFINE c == Chunks(start, count)
           n == Len(c)
<1>1. Covers(c, 0, start, count)
  BY ChunksCover
<1>2. /\ c \in Seq(Chunk) /\ (c = <<>> <=> 0 >= count)
      /\ \A k \in 1..n : c[k] = ChunkAt(start, count, c[k].first) /\ c[k].first \in 0..(count - 1)
      /\ \A k \in 1..(n - 1) : c[k + 1].first = c[k].first + c[k].len
      /\ c # <<>> => c[1].first = 0 /\ c[n].first + c[n].len = count
  BY <1>1, Zenon DEF Covers
<1>3. n \in Nat /\ (c = <<>> <=> n = 0)
  BY <1>2
<1> HIDE DEF c, n
<1>4. ASSUME NEW k \in 1..n
      PROVE  /\ c[k].len = ChunkLength(start, c[k].first, count)
             /\ c[k].len \in 1..(count - c[k].first)
  <2> DEFINE d == c[k].first
  <2>1. d \in 0..(count - 1) /\ c[k] = ChunkAt(start, count, d)
    BY <1>2
  <2> HIDE DEF d
  <2>2. /\ ChunkAt(start, count, d).len = ChunkLength(start, d, count)
        /\ ChunkLength(start, d, count) \in 1..(count - d)
    BY <2>1, ChunkType
  <2>3. c[k].len = ChunkLength(start, d, count)
    BY <2>1, <2>2
  <2> QED
    BY <2>2, <2>3 DEF d
<1>5. ASSUME NEW k \in 1..n
      PROVE  End(c, k) \in Nat /\ End(c, k) = End(c, k - 1) + c[k].len
  <2>1. k # 0 /\ c[k].first \in Nat /\ c[k].len \in Nat
    BY <1>2, <1>4
  <2>2. End(c, k) = c[k].first + c[k].len
    BY <2>1 DEF End
  <2>3. End(c, k - 1) = c[k].first
    <3>1. CASE k = 1
      <4>1. c # <<>>
        BY <1>3, <3>1
      <4> QED
        BY <1>2, <3>1, <4>1 DEF End
    <3>2. CASE k # 1
      <4>1. k - 1 \in 1..(n - 1) /\ (k - 1) + 1 = k /\ k - 1 # 0
        BY <1>3, <3>2
      <4>2. c[k].first = c[k - 1].first + c[k - 1].len
        BY <1>2, <4>1
      <4> QED
        BY <4>1, <4>2 DEF End
    <3> QED
      BY <3>1, <3>2
  <2> QED
    BY <2>1, <2>2, <2>3
<1>6. End(c, n) = AtLeast(0, count)
  <2>1. CASE n = 0
    BY <1>2, <1>3, <2>1 DEF End, AtLeast
  <2>2. CASE n # 0
    <3>1. c # <<>> /\ 0 < count
      BY <1>2, <1>3, <2>2
    <3> QED
      BY <1>2, <2>2, <3>1 DEF End, AtLeast
  <2> QED
    BY <2>1, <2>2
<1> QED
  BY <1>2, <1>3, <1>4, <1>5, <1>6 DEF PassesEnd, n, c

LEMMA OneMore ==
    ASSUME NEW k \in Nat \ {0}, NEW x \in Nat
    PROVE  k * x = (k - 1) * x + x /\ 0 * x = 0 /\ (k - 1) * x \in Nat
BY Z3

LEMMA QkStageCounts ==
    ASSUME NEW id, NEW base \in OpAddr, NEW macs \in Int, NEW cmd, Cfg.enable_esdm
    PROVE  Number(QkStage(base, macs), cmd)
             = Len(QkChunks(macs)) * PerRow(Cfg.enable_qk_act_pre, cmd)
               + IF cmd = "MAC" THEN AtLeast(0, macs) ELSE 0
<1> DEFINE X == TokenOp(id)
           start == Cfg.kt_col_start
           c == Chunks(start, macs)
           n == Len(c)
           q == [k \in 1..n |-> QkRow(base, c[k])]
           x == PerRow(Cfg.enable_qk_act_pre, cmd)
           y(k) == IF cmd = "MAC" THEN End(c, k) ELSE 0
           v == [k \in 0..n |-> k * x + y(k)]
<1>1. start \in Int
  BY ConfigAssumption
<1>2. /\ n \in Nat
      /\ \A k \in 1..n :
            /\ c[k].first \in 0..(macs - 1)
            /\ c[k] = ChunkAt(start, macs, c[k].first)
            /\ c[k].len = ChunkLength(start, c[k].first, macs)
            /\ c[k].len \in 1..(macs - c[k].first)
            /\ End(c, k) \in Nat /\ End(c, k) = End(c, k - 1) + c[k].len
      /\ End(c, n) = AtLeast(0, macs)
  <2>1. PassesEnd(c, start, macs)
    BY <1>1, PassEnds
  <2> HIDE DEF c
  <2> QED
    BY <2>1, Zenon DEF PassesEnd
<1>3. QkStage(base, macs) = FlattenSeq(q)
  BY Zenon DEF QkStage, QkChunks
<1>4. x \in Nat
  BY BanksNat DEF PerRow
<1> HIDE DEF c, n, x
<1>5. ASSUME NEW k \in 1..n PROVE QkRowMade(id, q[k], c[k].len) /\ c[k].len \in Nat
  <2> DEFINE d == c[k].first
  <2>1. d \in 0..(macs - 1) /\ c[k] = ChunkAt(start, macs, d) /\ c[k].len = ChunkLength(start, d, macs)
    BY <1>2
  <2>2. q[k] = QkRow(base, c[k])
    OBVIOUS
  <2> HIDE DEF d, q
  <2>3. QkRowMade(id, QkRow(base, ChunkAt(start, macs, d)), ChunkLength(start, d, macs))
    BY <2>1, QkRowParts
  <2>4. c[k].len \in 1..(macs - c[k].first)
    BY <1>2
  <2> HIDE DEF start
  <2> QED
    BY <2>1, <2>2, <2>3, <2>4
<1>6. q \in Seq(Seq(X)) /\ Len(q) = n
  <2>1. \A k \in 1..n : QkRow(base, c[k]) \in Seq(X)
    <3> TAKE k \in 1..n
    <3> DEFINE d == c[k].first
    <3>1. d \in 0..(macs - 1) /\ c[k] = ChunkAt(start, macs, d)
      BY <1>2
    <3> HIDE DEF d
    <3>2. QkRow(base, ChunkAt(start, macs, d)) \in TidyOps(id)
      BY <3>1, QkRowTidy
    <3> QED
      BY <3>1, <3>2 DEF TidyOps
  <2> HIDE DEF X
  <2> QED
    BY <1>2, <2>1
<1> HIDE DEF q, X
<1>7. ASSUME NEW k \in 1..n PROVE v[k] = v[k - 1] + Number(q[k], cmd)
  <2> DEFINE z == IF cmd = "MAC" THEN c[k].len ELSE 0
  <2>1. Number(q[k], cmd) = x + z
    BY <1>5, QkRowCounts DEF x
  <2>2. /\ k \in 0..n /\ k - 1 \in 0..n /\ k \in Nat \ {0}
    BY <1>2
  <2>3. v[k] = k * x + y(k) /\ v[k - 1] = (k - 1) * x + y(k - 1)
    BY <2>2
  <2>4. y(k) = y(k - 1) + z /\ y(k - 1) \in Int /\ z \in Int
    <3>1. End(c, k) = End(c, k - 1) + c[k].len /\ c[k].len \in Int
      BY <1>2, <1>5
    <3>2. End(c, k - 1) \in Int
      <4>1. CASE k = 1
        BY <4>1 DEF End
      <4>2. CASE k # 1
        <5>1. k - 1 \in 1..n
          BY <1>2, <4>2
        <5> QED
          BY <1>2, <5>1
      <4> QED
        BY <4>1, <4>2
    <3> QED
      BY <3>1, <3>2
  <2>5. k * x = (k - 1) * x + x /\ (k - 1) * x \in Nat
    BY <1>4, <2>2, OneMore
  <2> HIDE DEF v, y, z
  <2> DEFINE kx == k * x  k1x == (k - 1) * x  yk == y(k)  y1 == y(k - 1)
  <2>6. kx = k1x + x /\ k1x \in Nat /\ yk = y1 + z /\ y1 \in Int /\ z \in Int
    BY <2>4, <2>5
  <2>7. v[k] = kx + yk /\ v[k - 1] = k1x + y1
    BY <2>3
  <2> HIDE DEF kx, k1x, yk, y1
  <2>8. v[k] = v[k - 1] + (x + z)
    BY <1>4, <2>6, <2>7
  <2> QED
    BY <2>1, <2>8
<1>8. v[0] = 0
  <2>1. 0 \in 0..n /\ 1 \in Nat \ {0}
    BY <1>2
  <2>2. 0 * x = 0
    BY <1>4, <2>1, OneMore
  <2>3. y(0) = 0
    BY DEF End
  <2>4. v[0] = 0 * x + y(0)
    BY <2>1
  <2> QED
    BY <2>2, <2>3, <2>4
<1>9. Number(FlattenSeq(q), cmd) = v[n]
  <2> HIDE DEF v
  <2> QED
    BY <1>6, <1>7, <1>8, FlattenCounts
<1>10. v[n] = n * x + IF cmd = "MAC" THEN AtLeast(0, macs) ELSE 0
  <2>1. n \in 0..n
    BY <1>2
  <2> QED
    BY <1>2, <2>1
<1> HIDE DEF v
<1>11. n = Len(QkChunks(macs))
  BY DEF QkChunks, n, c
<1> QED
  BY <1>3, <1>9, <1>10, <1>11 DEF x

LEMMA PvStageCounts ==
    ASSUME NEW id, NEW base \in OpAddr, NEW maxVoc \in Int, NEW cmd \in PageCommands,
           Cfg.enable_esdm
    PROVE  Number(PvStage(base, maxVoc), cmd)
             = Len(PvChunks(maxVoc)) * (PerRow(Cfg.enable_act_spm_pre, cmd)
                                          + IF cmd = "SPM" THEN 1 ELSE 0)
<1> DEFINE X == TokenOp(id)
           start == Cfg.v_col_start
           off == Cfg.v_row_offset
           c == Chunks(start, maxVoc)
           n == Len(c)
           One(chunk) == PvRow(EsdmAddr(base, off, start + chunk.first), chunk.len)
           q == [k \in 1..n |-> One(c[k])]
           x == PerRow(Cfg.enable_act_spm_pre, cmd) + IF cmd = "SPM" THEN 1 ELSE 0
           v == [k \in 0..n |-> k * x]
<1>1. start \in Int /\ off \in Int
  BY ConfigAssumption
<1>2. /\ n \in Nat
      /\ \A k \in 1..n : c[k].first \in Int /\ c[k].len \in Int
  <2>1. PassesEnd(c, start, maxVoc)
    BY <1>1, PassEnds
  <2> HIDE DEF c
  <2>2. n \in Nat /\ \A k \in 1..n : /\ c[k].first \in 0..(maxVoc - 1)
                                     /\ c[k].len \in 1..(maxVoc - c[k].first)
    BY <2>1, Zenon DEF PassesEnd
  <2> QED
    BY <2>2
<1>3. PvStage(base, maxVoc) = FlattenSeq(q)
  BY Zenon DEF PvStage, PvChunks
<1>4. x \in Nat
  BY BanksNat DEF PerRow
<1> HIDE DEF c, n, x, start, off
<1>5. ASSUME NEW k \in 1..n PROVE Number(One(c[k]), cmd) = x /\ One(c[k]) \in Seq(X)
  <2> DEFINE row == EsdmAddr(base, off, start + c[k].first)  voc == c[k].len
  <2>1. row \in OpAddr
    <3>1. start + c[k].first \in Int
      BY <1>1, <1>2
    <3> QED
      BY <1>1, <3>1, EsdmAddrType
  <2>2. voc \in Int
    BY <1>2
  <2> HIDE DEF row, voc
  <2>3. Number(PvRow(row, voc), cmd) = x
    BY <2>1, <2>2, PvRowCounts DEF x
  <2>4. PvRow(row, voc) \in Seq(X)
    BY <2>1, <2>2, PvRowTidy DEF TidyOps
  <2> HIDE DEF X
  <2> QED
    BY <2>3, <2>4 DEF row, voc
<1> HIDE DEF X
<1>6. q \in Seq(Seq(X)) /\ Len(q) = n /\ \A k \in 1..n : Number(q[k], cmd) = x
  <2>1. \A k \in 1..n : One(c[k]) \in Seq(X) /\ Number(One(c[k]), cmd) = x
    BY <1>5
  <2> HIDE DEF One
  <2>2. q \in Seq(Seq(X)) /\ Len(q) = n
    BY <1>2, <2>1
  <2> QED
    BY <2>1, <2>2
<1> HIDE DEF q
<1>7. ASSUME NEW k \in 1..n PROVE v[k] = v[k - 1] + Number(q[k], cmd)
  <2>1. k \in 0..n /\ k - 1 \in 0..n /\ k \in Nat \ {0}
    BY <1>2
  <2>2. v[k] = k * x /\ v[k - 1] = (k - 1) * x
    BY <2>1
  <2>3. k * x = (k - 1) * x + x
    BY <1>4, <2>1, OneMore
  <2>4. Number(q[k], cmd) = x
    BY <1>6
  <2> HIDE DEF v
  <2> QED
    BY <2>2, <2>3, <2>4
<1>8. v[0] = 0
  <2>1. 0 \in 0..n /\ 1 \in Nat \ {0}
    BY <1>2
  <2>2. 0 * x = 0
    BY <1>4, <2>1, OneMore
  <2>3. v[0] = 0 * x
    BY <2>1
  <2> QED
    BY <2>2, <2>3
<1>9. v[n] = n * x
  <2>1. n \in 0..n
    BY <1>2
  <2> QED
    BY <2>1
<1>10. Number(FlattenSeq(q), cmd) = v[n]
  <2> HIDE DEF v
  <2> QED
    BY <1>6, <1>7, <1>8, FlattenCounts
<1> HIDE DEF v
<1>11. n = Len(PvChunks(maxVoc))
  BY DEF PvChunks, n, c, start
<1> QED
  BY <1>3, <1>9, <1>10, <1>11 DEF x

(* The page hits: all columns but the first of each pass.                  *)
LEMMA HitsAre ==
    ASSUME NEW start \in Int, NEW count \in Int
    PROVE  HitsOf(Chunks(start, count)) = AtLeast(0, count) - Len(Chunks(start, count))
<1> DEFINE c == Chunks(start, count)
           n == Len(c)
           G == [p \in Int \X (1..n) |-> p[1] + c[p[2]].len - 1]
           folded[s \in SUBSET (DOMAIN c)] ==
               IF s = {} THEN 0
               ELSE LET x == Max(s) IN folded[s \ {x}] + c[x].len - 1
<1>1. PassesEnd(c, start, count)
  BY PassEnds
<1>2. HitsOf(c) = folded[DOMAIN c]
  BY Zenon DEF HitsOf, FoldLeft, MapThenFoldSet
<1> HIDE DEF c
<1>3. /\ n \in Nat /\ c \in Seq(Chunk)
      /\ \A k \in 1..n : /\ c[k].first \in 0..(count - 1)
                         /\ c[k].len \in 1..(count - c[k].first)
                         /\ End(c, k) \in Nat /\ End(c, k) = End(c, k - 1) + c[k].len
      /\ End(c, n) = AtLeast(0, count)
  BY <1>1, Zenon DEF PassesEnd
<1>4. DOMAIN c = 1..n /\ \A k \in 1..n : c[k].len \in Nat
  BY <1>3
<1> HIDE DEF n
<1>5. G \in [Int \X (1..n) -> Int]
  <2>1. \A p \in Int \X (1..n) : p[1] \in Int /\ p[2] \in 1..n
    OBVIOUS
  <2>2. \A p \in Int \X (1..n) : p[1] + c[p[2]].len - 1 \in Int
    BY <1>4, <2>1
  <2> QED
    BY <2>2
<1>6. \A a \in Int, i \in 1..n : G[<<a, i>>] = a + c[i].len - 1
  <2> TAKE a \in Int, i \in 1..n
  <2>1. <<a, i>> \in Int \X (1..n) /\ <<a, i>>[1] = a /\ <<a, i>>[2] = i
    OBVIOUS
  <2> QED
    BY <2>1
<1> HIDE DEF G
<1>7. PICK f \in [SUBSET (1..n) -> Int] : \A s \in SUBSET (1..n) :
              f[s] = IF s = {} THEN 0 ELSE G[<<f[s \ {Max(s)}], Max(s)>>]
  <2>1. 0 \in Int
    OBVIOUS
  <2>2. \E f \in [SUBSET (1..n) -> Int] : FoldsUp(f, n, 0, G)
    BY <1>3, <1>5, <2>1, FoldExists
  <2> QED
    BY <2>2, Zenon DEF FoldsUp
<1>8. \A s \in SUBSET (DOMAIN c) :
         f[s] = IF s = {} THEN 0 ELSE f[s \ {Max(s)}] + c[Max(s)].len - 1
  <2> SUFFICES ASSUME NEW s \in SUBSET (1..n), s # {}
               PROVE  f[s] = f[s \ {Max(s)}] + c[Max(s)].len - 1
    BY <1>4, <1>7
  <2>1. Max(s) \in 1..n /\ s \ {Max(s)} \in SUBSET (1..n)
    <3>1. Max(s) \in s
      BY <1>3, MaxOf
    <3> QED
      BY <3>1
  <2>2. f[s \ {Max(s)}] \in Int
    BY <2>1
  <2>3. f[s] = G[<<f[s \ {Max(s)}], Max(s)>>]
    BY <1>7
  <2> QED
    BY <1>6, <2>1, <2>2, <2>3
<1> DEFINE It(g) == [s \in SUBSET (DOMAIN c) |->
               IF s = {} THEN 0 ELSE LET x == Max(s) IN g[s \ {x}] + c[x].len - 1]
<1>9. f = It(f)
  <2>1. DOMAIN f = SUBSET (DOMAIN c) /\ f = [s \in SUBSET (DOMAIN c) |-> f[s]]
    BY <1>4
  <2>2. [s \in SUBSET (DOMAIN c) |-> f[s]] = It(f)
    BY <1>8
  <2> QED
    BY <2>1, <2>2
<1>10. folded = It(folded)
  <2>1. \E g : g = It(g)
    BY <1>9
  <2> QED
    BY <2>1, Zenon DEF folded
<1> HIDE DEF folded
<1>11. folded[{}] = 0 /\ \A k \in 1..n : folded[1..k] = folded[1..(k - 1)] + c[k].len - 1
  <2>1. \A s \in SUBSET (1..n) :
           folded[s] = IF s = {} THEN 0 ELSE folded[s \ {Max(s)}] + c[Max(s)].len - 1
    BY <1>4, <1>10, Zenon
  <2>2. {} \in SUBSET (1..n)
    OBVIOUS
  <2>3. ASSUME NEW k \in 1..n PROVE folded[1..k] = folded[1..(k - 1)] + c[k].len - 1
    <3>1. /\ 1..k \in SUBSET (1..n) /\ 1..k # {}
          /\ Max(1..k) = k /\ (1..k) \ {k} = 1..(k - 1)
      BY <1>3, FirstIndices
    <3>2. folded[1..k] = folded[(1..k) \ {Max(1..k)}] + c[Max(1..k)].len - 1
      BY <2>1, <3>1, Zenon
    <3> QED
      BY <3>1, <3>2, Zenon
  <2> QED
    BY <2>1, <2>2, <2>3, Zenon
<1> DEFINE S == {k \in 0..n : folded[1..k] = End(c, k) - k}
<1>12. 0 \in S
  <2>1. 1..0 = {} /\ 0 \in 0..n
    BY <1>3
  <2>2. End(c, 0) = 0
    BY DEF End
  <2> QED
    BY <1>11, <2>1, <2>2
<1>13. ASSUME NEW k \in 0..(n - 1), k \in S PROVE k + 1 \in S
  <2>1. k + 1 \in 1..n /\ k + 1 \in 0..n /\ (k + 1) - 1 = k
    BY <1>3
  <2>2. folded[1..(k + 1)] = folded[1..k] + c[k + 1].len - 1
    BY <1>11, <2>1
  <2>3. End(c, k + 1) = End(c, k) + c[k + 1].len /\ c[k + 1].len \in Nat
    BY <1>3, <1>4, <2>1
  <2>4. End(c, k) \in Int
    <3>1. CASE k = 0
      BY <3>1 DEF End
    <3>2. CASE k # 0
      <4>1. k \in 1..n
        BY <1>3, <3>2
      <4> QED
        BY <1>3, <4>1
    <3> QED
      BY <3>1, <3>2
  <2>5. folded[1..k] = End(c, k) - k
    BY <1>13
  <2>6. folded[1..(k + 1)] = End(c, k + 1) - (k + 1)
    BY <2>2, <2>3, <2>4, <2>5
  <2> QED
    BY <2>1, <2>6
<1>14. n \in S
  <2>1. \A k \in 0..n : k \in S
    <3> HIDE DEF S
    <3>1. 0 \in Nat
      OBVIOUS
    <3> QED
      BY <1>3, <1>12, <1>13, <3>1, UpTo
  <2>2. n \in 0..n
    BY <1>3
  <2> HIDE DEF S
  <2> QED
    BY <2>1, <2>2
<1>15. folded[DOMAIN c] = AtLeast(0, count) - n
  BY <1>3, <1>4, <1>14
<1> QED
  BY <1>2, <1>15 DEF c, n

LEMMA OtherStagesCount ==
    ASSUME NEW id, NEW req, IsToken(req), NEW cmd \in PageCommands
    PROVE  /\ Number(ElemaxStage(BaseAddr(req)), cmd) = 0
           /\ Number(BgmuStage(VocSummary(req)), cmd) = 0
           /\ Number(AccStage(BaseAddr(req), AccCommands(req)), cmd) = 0
           /\ Number(<<CompleteOp(id)>>, cmd) = 0
<1> DEFINE base == BaseAddr(req)
           X == TokenOp(id)
           b == ElemaxStage(base)
           c == BgmuStage(VocSummary(req))
           q == AccStage(base, AccCommands(req))
           op == CompleteOp(id)
           e == <<op>>
<1>1. base \in OpAddr /\ AccCommands(req) \in Int /\ VocSummary(req).bgmu_reads \in Int
  BY BaseType, SummaryType
<1>2. cmd \in {"MAC", "SPM", "ACT", "PRE"}
  BY DEF PageCommands
<1>3. Number(b, cmd) = 0
  <2>1. b \in Seq(X) /\ Len(b) = 2 /\ b[1].command = "MOV" /\ b[2].command = "EMUL"
    BY <1>1, ElemaxIs
  <2> HIDE DEF b, X
  <2>2. \A i \in 1..Len(b) : b[i].command # cmd
    BY <1>2, <2>1
  <2> QED
    BY <2>1, <2>2, NumberNone
<1>4. Number(c, cmd) = 0
  <2>1. c \in Seq(X) /\ \A i \in 1..Len(c) : c[i].command = "none"
    BY <1>1, BgmuIs
  <2> HIDE DEF c, X
  <2>2. \A i \in 1..Len(c) : c[i].command # cmd
    BY <1>2, <2>1
  <2> QED
    BY <2>1, <2>2, NumberNone
<1>5. Number(q, cmd) = 0
  <2>1. q \in Seq(X) /\ \A i \in 1..Len(q) : q[i].command = "ACC"
    BY <1>1, AccIs
  <2> HIDE DEF q, X
  <2>2. \A i \in 1..Len(q) : q[i].command # cmd
    BY <1>2, <2>1
  <2> QED
    BY <2>1, <2>2, NumberNone
<1>6. Number(e, cmd) = 0
  <2>1. op \in X /\ op.command = "none"
    <3>1. 0 \in Int
      OBVIOUS
    <3> QED
      BY <3>1, SpecialOps
  <2> HIDE DEF op, X
  <2>2. e \in Seq(X) /\ Len(e) = 1 /\ e[1] = op
    BY <2>1
  <2> HIDE DEF e
  <2>3. \A i \in 1..Len(e) : e[i].command # cmd
    BY <1>2, <2>1, <2>2
  <2> QED
    BY <2>2, <2>3, NumberNone
<1> QED
  BY <1>3, <1>4, <1>5, <1>6

LEMMA NumberFive ==
    ASSUME NEW X, NEW a \in Seq(X), NEW b \in Seq(X), NEW c \in Seq(X), NEW d \in Seq(X),
           NEW e \in Seq(X), NEW cmd,
           Number(b, cmd) = 0, Number(c, cmd) = 0, Number(e, cmd) = 0
    PROVE  Number(a \o b \o c \o d \o e, cmd) = Number(a, cmd) + Number(d, cmd)
<1>1. Number(a, cmd) \in Nat /\ Number(d, cmd) \in Nat
  BY CommandsCounted
<1> DEFINE u == a \o b  v == u \o c  w == v \o d
<1>2. Number(u, cmd) = Number(a, cmd) + Number(b, cmd) /\ u \in Seq(X)
  BY NumberAppend
<1> HIDE DEF u
<1>3. Number(v, cmd) = Number(u, cmd) + Number(c, cmd) /\ v \in Seq(X)
  BY <1>2, NumberAppend
<1> HIDE DEF v
<1>4. Number(w, cmd) = Number(v, cmd) + Number(d, cmd) /\ w \in Seq(X)
  BY <1>3, NumberAppend
<1> HIDE DEF w
<1>5. Number(w \o e, cmd) = Number(w, cmd) + Number(e, cmd)
  BY <1>4, NumberAppend
<1>6. Number(w \o e, cmd) = Number(a, cmd) + Number(d, cmd)
  BY <1>1, <1>2, <1>3, <1>4, <1>5
<1> QED
  BY <1>6 DEF u, v, w

(* What one token issues, by command.                                      *)
LEMMA TokenCounts ==
    ASSUME NEW id, NEW req, IsToken(req), Cfg.enable_esdm, NEW cmd \in PageCommands
    PROVE  Number(Expand(id, req), cmd)
             = Len(QkChunks(MacCommands(req))) * PerRow(Cfg.enable_qk_act_pre, cmd)
               + (IF cmd = "MAC" THEN AtLeast(0, MacCommands(req)) ELSE 0)
               + Len(PvChunks(VocSummary(req).max_voc))
                   * (PerRow(Cfg.enable_act_spm_pre, cmd) + IF cmd = "SPM" THEN 1 ELSE 0)
<1> DEFINE base == BaseAddr(req)
           X == TokenOp(id)
           max == VocSummary(req).max_voc
           macs == MacCommands(req)
           a == QkStage(base, macs)
           b == ElemaxStage(base)
           c == BgmuStage(VocSummary(req))
           p == PvStage(base, max)
           q == AccStage(base, AccCommands(req))
           d == If(max # 0, p \o q)
           e == <<CompleteOp(id)>>
           x == PerRow(Cfg.enable_act_spm_pre, cmd) + IF cmd = "SPM" THEN 1 ELSE 0
           l == Len(PvChunks(max))
<1>1. /\ base \in OpAddr /\ macs \in Int /\ AccCommands(req) \in Int
      /\ max \in Nat /\ VocSummary(req).bgmu_reads \in Int
  BY BaseType, SummaryType
<1>2. a \in Seq(X) /\ b \in Seq(X) /\ c \in Seq(X) /\ p \in Seq(X) /\ q \in Seq(X) /\ e \in Seq(X)
  <2>1. a \in TidyOps(id)
    BY <1>1, QkStageTidy
  <2>2. b \in Seq(X)
    BY <1>1, ElemaxIs
  <2>3. c \in Seq(X)
    BY <1>1, BgmuIs
  <2>4. p \in TidyOps(id)
    <3>1. max \in Int
      BY <1>1
    <3> HIDE DEF max
    <3> QED
      BY <1>1, <3>1, PvStageTidy
  <2>5. q \in Seq(X)
    BY <1>1, AccIs
  <2>6. e \in Seq(X)
    <3>1. 0 \in Int
      OBVIOUS
    <3>2. CompleteOp(id) \in X
      BY <3>1, SpecialOps
    <3> QED
      BY <3>2
  <2> QED
    BY <2>1, <2>2, <2>3, <2>4, <2>5, <2>6 DEF TidyOps
<1>3. /\ Number(b, cmd) = 0 /\ Number(c, cmd) = 0
      /\ Number(q, cmd) = 0 /\ Number(e, cmd) = 0
  BY OtherStagesCount
<1>4. Expand(id, req) = a \o b \o c \o d \o e
  <2>1. req.type = "spare-pim"
    BY DEF IsToken
  <2> QED
    BY <2>1, TokenParts, Zenon DEF Expand
<1>5. Number(a, cmd) = Len(QkChunks(macs)) * PerRow(Cfg.enable_qk_act_pre, cmd)
                         + IF cmd = "MAC" THEN AtLeast(0, macs) ELSE 0
  <2> HIDE DEF base, macs
  <2> QED
    BY <1>1, QkStageCounts
<1>6. Number(p, cmd) = l * x
  <2>1. max \in Int
    BY <1>1
  <2> HIDE DEF base, max
  <2> QED
    BY <1>1, <2>1, PvStageCounts
<1>7. x \in Nat
  BY BanksNat DEF PerRow
<1>8. l \in Nat /\ (max = 0 => l = 0)
  <2> DEFINE start == Cfg.v_col_start  ch == Chunks(start, max)
  <2>1. start \in Int /\ max \in Int
    BY <1>1, ConfigAssumption
  <2>2. PassesEnd(ch, start, max)
    <3> HIDE DEF start, max
    <3> QED
      BY <2>1, PassEnds
  <2>3. l = Len(ch)
    BY DEF PvChunks
  <2> HIDE DEF ch, l, max
  <2>4. Len(ch) \in Nat /\ \A k \in 1..Len(ch) : ch[k].first \in 0..(max - 1)
    BY <2>2, Zenon DEF PassesEnd
  <2>5. ASSUME max = 0, Len(ch) # 0 PROVE FALSE
    <3>1. 1 \in 1..Len(ch)
      BY <2>4, <2>5
    <3> QED
      BY <2>4, <2>5, <3>1
  <2> QED
    BY <2>3, <2>4, <2>5
<1> HIDE DEF a, b, c, e, p, q, x, l, max, X
<1>9. d \in Seq(X) /\ Number(d, cmd) = l * x
  <2>1. CASE max = 0
    <3>1. d = <<>>
      BY <2>1 DEF If
    <3> HIDE DEF d
    <3>2. d \in Seq(X) /\ Len(d) = 0
      BY <3>1
    <3>3. Number(d, cmd) = 0
      <4>1. \A i \in 1..Len(d) : d[i].command # cmd
        BY <3>2
      <4> QED
        BY <3>2, <4>1, NumberNone
    <3>4. l * x = 0
      <4>1. 1 \in Nat \ {0} /\ l = 0
        BY <1>8, <2>1
      <4>2. 0 * x = 0
        BY <1>7, <4>1, OneMore
      <4> QED
        BY <4>1, <4>2
    <3> QED
      BY <3>2, <3>3, <3>4
  <2>2. CASE max # 0
    <3>1. d = p \o q
      BY <2>2 DEF If
    <3>2. Number(p \o q, cmd) = Number(p, cmd) + Number(q, cmd) /\ p \o q \in Seq(X)
      BY <1>2, NumberAppend
    <3>3. Number(p, cmd) \in Nat
      BY <1>2, CommandsCounted
    <3> HIDE DEF d
    <3>4. Number(d, cmd) = Number(p, cmd) + 0
      BY <1>3, <3>1, <3>2
    <3>5. Number(d, cmd) = Number(p, cmd)
      BY <3>3, <3>4
    <3> QED
      BY <1>6, <3>1, <3>2, <3>5
  <2> QED
    BY <2>1, <2>2
<1> HIDE DEF d
<1>10. Number(Expand(id, req), cmd) = Number(a, cmd) + Number(d, cmd)
  BY <1>2, <1>3, <1>4, <1>9, NumberFive
<1> QED
  BY <1>5, <1>9, <1>10 DEF x, l, max

LEMMA RowsTimes ==
    ASSUME NEW l \in Nat, NEW m \in Nat, NEW t \in Nat, NEW p \in BOOLEAN, NEW q \in BOOLEAN
    PROVE  l * (IF p THEN t ELSE 0) + m * (IF q THEN t ELSE 0)
             = t * ((IF p THEN l ELSE 0) + (IF q THEN m ELSE 0))
<1>1. CASE p /\ q
  <2>1. l * t + m * t = t * (l + m)
    BY Z3
  <2> QED
    BY <1>1, <2>1
<1>2. CASE p /\ ~q
  <2>1. l * t + m * 0 = t * (l + 0)
    BY Z3
  <2> QED
    BY <1>2, <2>1
<1>3. CASE ~p /\ q
  <2>1. l * 0 + m * t = t * (0 + m)
    BY Z3
  <2> QED
    BY <1>3, <2>1
<1>4. CASE ~p /\ ~q
  <2>1. l * 0 + m * 0 = t * (0 + 0)
    BY Z3
  <2> QED
    BY <1>4, <2>1
<1> QED
  BY <1>1, <1>2, <1>3, <1>4

LEMMA PageStats ==
    ASSUME NEW req, IsToken(req), Cfg.enable_esdm
    PROVE  /\ StatsOf(req).qk_rows = Len(QkChunks(MacCommands(req)))
           /\ StatsOf(req).qk_page_hits
                = AtLeast(0, MacCommands(req)) - Len(QkChunks(MacCommands(req)))
           /\ StatsOf(req).pv_rows = Len(PvChunks(VocSummary(req).max_voc))
           /\ StatsOf(req).pv_page_hits
                = VocSummary(req).max_voc - Len(PvChunks(VocSummary(req).max_voc))
           /\ StatsOf(req).max_voc_sum = VocSummary(req).max_voc
           /\ Len(QkChunks(MacCommands(req))) \in Nat /\ AtLeast(0, MacCommands(req)) \in Nat
           /\ Len(PvChunks(VocSummary(req).max_voc)) \in Nat /\ VocSummary(req).max_voc \in Nat
<1> DEFINE max == VocSummary(req).max_voc
           macs == MacCommands(req)
           qk == QkChunks(macs)
           pv == PvChunks(max)
           s == StatsOf(req)
<1>1. macs \in Int /\ max \in Nat
  BY BaseType, SummaryType
<1>2. s = TokenStats(req)
  <2>1. req.type = "spare-pim"
    BY DEF IsToken
  <2> QED
    BY <2>1, Zenon DEF StatsOf
<1>3. /\ s.qk_rows = Len(qk) /\ s.qk_page_hits = HitsOf(qk)
      /\ s.pv_rows = Len(pv) /\ s.pv_page_hits = HitsOf(pv) /\ s.max_voc_sum = max
  <2> HIDE DEF s
  <2> QED
    BY <1>2 DEF TokenStats
<1>4. Cfg.kt_col_start \in Int /\ Cfg.v_col_start \in Int /\ max \in Int
  BY <1>1, ConfigAssumption
<1> HIDE DEF max, macs
<1>5. HitsOf(qk) = AtLeast(0, macs) - Len(qk)
  BY <1>1, <1>4, HitsAre DEF QkChunks
<1>6. HitsOf(pv) = AtLeast(0, max) - Len(pv)
  BY <1>1, <1>4, HitsAre DEF PvChunks
<1>7. Len(qk) \in Nat
  <2>1. PassesEnd(qk, Cfg.kt_col_start, macs)
    BY <1>1, <1>4, PassEnds DEF QkChunks
  <2> HIDE DEF qk
  <2> QED
    BY <2>1, Zenon DEF PassesEnd
<1>8. Len(pv) \in Nat
  <2>1. PassesEnd(pv, Cfg.v_col_start, max)
    BY <1>1, <1>4, PassEnds DEF PvChunks
  <2> HIDE DEF pv
  <2> QED
    BY <2>1, Zenon DEF PassesEnd
<1>9. AtLeast(0, max) = max /\ AtLeast(0, macs) \in Nat
  BY <1>1 DEF AtLeast
<1> HIDE DEF s, qk, pv
<1>10. s.qk_page_hits = AtLeast(0, macs) - Len(qk) /\ s.pv_page_hits = max - Len(pv)
  BY <1>3, <1>5, <1>6, <1>9
<1> QED
  BY <1>1, <1>3, <1>7, <1>8, <1>9, <1>10 DEF s, qk, pv, max, macs

(* With ESDM, the page counters expand_sparepim_token adds for any token   *)
(* match the commands of its expansion: one MAC per row or hit of K^T, one *)
(* SPM per row of V, and an ACT and a PRE of every bank per row opened, as *)
(* enqueue_qk_stage and enqueue_sparse_pv_stage cut them.                  *)
THEOREM TokenCountersMatch ==
    ASSUME NEW id, NEW req, IsToken(req), Cfg.enable_qk_act_pre \in BOOLEAN,
           Cfg.enable_act_spm_pre \in BOOLEAN
    PROVE  CountersMatch([c \in PageCommands |-> Number(Expand(id, req), c)], StatsOf(req))
<1> SUFFICES ASSUME Cfg.enable_esdm
             PROVE  CountersMatch([c \in PageCommands |-> Number(Expand(id, req), c)], StatsOf(req))
  BY DEF CountersMatch
<1> DEFINE n == [c \in PageCommands |-> Number(Expand(id, req), c)]
           L == Len(QkChunks(MacCommands(req)))
           l == Len(PvChunks(VocSummary(req).max_voc))
           m == AtLeast(0, MacCommands(req))
           max == VocSummary(req).max_voc
           p == Cfg.enable_qk_act_pre
           q == Cfg.enable_act_spm_pre
           s == StatsOf(req)
           t == TotalBanks
<1>1. /\ s.qk_rows = L /\ s.qk_page_hits = m - L /\ s.pv_rows = l /\ s.pv_page_hits = max - l
      /\ s.max_voc_sum = max /\ L \in Nat /\ m \in Nat /\ l \in Nat /\ max \in Nat
  BY PageStats
<1>2. \A c \in PageCommands :
         n[c] = L * PerRow(p, c) + (IF c = "MAC" THEN m ELSE 0)
                + l * (PerRow(q, c) + IF c = "SPM" THEN 1 ELSE 0)
  BY TokenCounts
<1>3. p \in BOOLEAN /\ q \in BOOLEAN /\ t \in Nat
  BY BanksNat
<1>4. {"MAC", "SPM", "ACT", "PRE"} \subseteq PageCommands
  BY DEF PageCommands
<1>5. /\ PerRow(p, "MAC") = 0 /\ PerRow(q, "MAC") = 0 /\ PerRow(p, "SPM") = 0 /\ PerRow(q, "SPM") = 0
      /\ \A c \in {"ACT", "PRE"} : /\ PerRow(p, c) = IF p THEN t ELSE 0
                                   /\ PerRow(q, c) = IF q THEN t ELSE 0
  BY DEF PerRow
<1> HIDE DEF n, L, l, m, max, p, q, s, t
<1>6. L * 0 = 0 /\ l * 0 = 0 /\ l * 1 = l
  BY <1>1, Z3
<1>7. n["MAC"] = m
  <2>1. n["MAC"] = L * 0 + m + l * (0 + 0)
    BY <1>2, <1>4, <1>5
  <2> QED
    BY <1>1, <1>6, <2>1
<1>8. n["SPM"] = l
  <2>1. n["SPM"] = L * 0 + 0 + l * (0 + 1)
    BY <1>2, <1>4, <1>5
  <2> QED
    BY <1>1, <1>6, <2>1
<1>9. \A c \in {"ACT", "PRE"} : n[c] = t * ((IF p THEN L ELSE 0) + (IF q THEN l ELSE 0))
  <2> TAKE c \in {"ACT", "PRE"}
  <2> DEFINE x == L * (IF p THEN t ELSE 0)  y == l * (IF q THEN t ELSE 0)
             z == IF q THEN t ELSE 0
  <2>1. n[c] = x + 0 + l * (z + 0)
    BY <1>2, <1>4, <1>5
  <2>2. z + 0 = z /\ z \in Nat
    BY <1>3
  <2>3. n[c] = x + 0 + l * z
    BY <2>1, <2>2
  <2>4. x \in Nat /\ l * z \in Nat
    <3>1. x \in Nat
      <4>1. L * t \in Nat /\ L * 0 \in Nat
        BY <1>1, <1>3, Z3
      <4> QED
        BY <4>1
    <3>2. l * z \in Nat
      <4> HIDE DEF z
      <4> QED
        BY <1>1, <2>2, Z3
    <3> QED
      BY <3>1, <3>2
  <2>5. x + y = t * ((IF p THEN L ELSE 0) + (IF q THEN l ELSE 0))
    BY <1>1, <1>3, RowsTimes
  <2> HIDE DEF x
  <2>6. x + 0 + l * z = x + l * z
    BY <2>4
  <2> QED
    BY <2>3, <2>5, <2>6
<1>10. CountersMatch(n, s)
  <2>1. n["MAC"] = s.qk_rows + s.qk_page_hits
    BY <1>1, <1>7
  <2>2. n["SPM"] = s.pv_rows
    BY <1>1, <1>8
  <2>3. s.pv_rows + s.pv_page_hits = s.max_voc_sum
    BY <1>1
  <2>4. \A c \in {"ACT", "PRE"} :
          n[c] = t * ((IF p THEN s.qk_rows ELSE 0) + (IF q THEN s.pv_rows ELSE 0))
    BY <1>1, <1>9
  <2>5. /\ n["ACT"] = t * ((IF p THEN s.qk_rows ELSE 0) + (IF q THEN s.pv_rows ELSE 0))
        /\ n["PRE"] = t * ((IF p THEN s.qk_rows ELSE 0) + (IF q THEN s.pv_rows ELSE 0))
    BY <2>4
  <2> QED
    BY <2>1, <2>2, <2>3, <2>5 DEF CountersMatch, t, p, q
<1> QED
  BY <1>10 DEF n, s


-----------------------------------------------------------------------------
(* The stages: a token passes through them one after the other.            *)
LEMMA FromFirst ==
    ASSUME NEW S, NEW p \in Seq(S)
    PROVE  From(p, 1) = p
BY SubSeqFull DEF From

LEMMA FromNext ==
    ASSUME NEW S, NEW p \in Seq(S), NEW k \in 1..Len(p)
    PROVE  /\ Tail(From(p, k)) = From(p, k + 1)
           /\ Len(From(p, k)) = Len(p) - k + 1
<1> DEFINE n == Len(p)
<1>1. n \in Nat /\ k \in 1..n /\ n \in k..n
  OBVIOUS
<1>2. \A i \in k..n : p[i] \in S
  <2>1. \A i \in k..n : i \in 1..n
    BY <1>1
  <2> QED
    BY <2>1, ElementOfSeq
<1>3. Tail(SubSeq(p, k, n)) = SubSeq(p, k + 1, n)
  BY <1>1, HeadTailOfSubSeq
<1> HIDE DEF n
<1>4. Len(SubSeq(p, k, n)) = n - k + 1
  BY <1>1, <1>2, SubSeqProperties
<1> QED
  BY <1>3, <1>4 DEF From, n

(* What is left of a sequence from one of its places on.                   *)
LEMMA FromIs ==
    ASSUME NEW S, NEW p \in Seq(S), NEW k \in 1..Len(p)
    PROVE  /\ From(p, k) \in Seq(S) /\ Len(From(p, k)) = Len(p) - k + 1
           /\ \A i \in 1..(Len(p) - k + 1) : From(p, k)[i] = p[k + i - 1]
           /\ From(p, k) # <<>> /\ Head(From(p, k)) = p[k]
<1> DEFINE n == Len(p)  f == From(p, k)
<1>1. n \in Nat /\ k \in Int /\ k <= n /\ n - k + 1 \in Nat /\ n - k + 1 > 0
  OBVIOUS
<1>2. \A i \in k..n : p[i] \in S
  <2>1. \A i \in k..n : i \in 1..n
    BY <1>1
  <2> QED
    BY <2>1, ElementOfSeq
<1>3. f = SubSeq(p, k, n)
  BY DEF From
<1> HIDE DEF n, f
<1>4. /\ f \in Seq(S) /\ Len(f) = n - k + 1
      /\ \A i \in 1..n - k + 1 : f[i] = p[k + i - 1]
  BY <1>1, <1>2, <1>3, SubSeqProperties
<1>5. f # <<>> /\ Head(f) = f[1]
  BY <1>1, <1>4
<1>6. f[1] = p[k]
  <2>1. k + 1 - 1 = k
    BY <1>1
  <2> QED
    BY <1>1, <1>4, <2>1
<1> QED
  BY <1>4, <1>5, <1>6 DEF f, n

(* Past a first part, what is left is what is left of the second.          *)
LEMMA FromSecond ==
    ASSUME NEW S, NEW a \in Seq(S), NEW b \in Seq(S), NEW k \in 1..Len(b)
    PROVE  From(a \o b, Len(a) + k) = From(b, k)
<1> DEFINE p == a \o b  m == Len(a)  f == From(p, m + k)  g == From(b, k)
<1>1. /\ p \in Seq(S) /\ Len(p) = m + Len(b) /\ m \in Nat /\ Len(b) \in Nat
      /\ \A i \in 1..Len(b) : p[m + i] = b[i]
  BY AppendParts
<1> HIDE DEF p, m, f, g
<1>2. m + k \in 1..Len(p) /\ Len(p) - (m + k) + 1 = Len(b) - k + 1
  BY <1>1
<1>3. /\ f \in Seq(S) /\ Len(f) = Len(p) - (m + k) + 1
      /\ \A i \in 1..(Len(p) - (m + k) + 1) : f[i] = p[(m + k) + i - 1]
  BY <1>1, <1>2, FromIs DEF f
<1>4. /\ g \in Seq(S) /\ Len(g) = Len(b) - k + 1
      /\ \A i \in 1..(Len(b) - k + 1) : g[i] = b[k + i - 1]
  BY FromIs DEF g
<1>5. \A i \in 1..(Len(b) - k + 1) : p[(m + k) + i - 1] = b[k + i - 1]
  <2> TAKE i \in 1..(Len(b) - k + 1)
  <2>1. k + i - 1 \in 1..Len(b) /\ (m + k) + i - 1 = m + (k + i - 1)
    BY <1>1
  <2> QED
    BY <1>1, <2>1
<1>6. \A i \in 1..Len(f) : f[i] = g[i]
  BY <1>2, <1>3, <1>4, <1>5
<1>7. f = g
  BY <1>2, <1>3, <1>4, <1>6, SeqEqual
<1> QED
  BY <1>7 DEF f, g, p, m

-----------------------------------------------------------------------------
(* The stage number of every operation: it starts with the first stage and *)
(* goes up by at most one; past the last stage the request completes.      *)
StageAt(stages, j) == IF j \in 1..Len(stages) THEN stages[j] ELSE "complete"

Numbers(pos, ops, stages) ==
    /\ pos \in [1..Len(ops) -> 1..(Len(stages) + 1)]
    /\ pos[1] = 1 /\ pos[Len(ops)] = Len(stages) + 1
    /\ \A k \in 1..(Len(ops) - 1) : pos[k + 1] \in {pos[k], pos[k] + 1}
    /\ \A k \in 1..Len(ops) : HeadStage(From(ops, k)) = StageAt(stages, pos[k])

Staged(id, ops, stages, names) ==
    /\ ops \in Seq(TokenOp(id)) /\ ops # <<>>
    /\ names \in SUBSET StageNames /\ stages \in Seq(names)
    /\ \A i, j \in 1..Len(stages) : stages[i] = stages[j] => i = j
    /\ \E pos : Numbers(pos, ops, stages)

(* The stages left are those from the one of the head on.                  *)
LEMMA LeftFrom ==
    ASSUME NEW ops, NEW names \in SUBSET StageNames, NEW stages \in Seq(names),
           \A i, j \in 1..Len(stages) : stages[i] = stages[j] => i = j,
           NEW p \in 1..(Len(stages) + 1), HeadStage(ops) = StageAt(stages, p)
    PROVE  StagesLeft(ops, stages) = From(stages, p)
<1> DEFINE n == Len(stages)
           at == {i \in 1..n : stages[i] = HeadStage(ops)}
<1>1. n \in Nat
  OBVIOUS
<1>2. StagesLeft(ops, stages) = IF at = {} THEN <<>> ELSE From(stages, Min(at))
  BY DEF StagesLeft
<1>3. CASE p \in 1..n
  <2>1. HeadStage(ops) = stages[p]
    BY <1>3 DEF StageAt
  <2>2. at = {p}
    BY <1>3, <2>1
  <2>3. Min({p}) = p
    BY <1>1 DEF Min
  <2> QED
    BY <1>2, <2>2, <2>3
<1>4. CASE p \notin 1..n
  <2>1. p = n + 1
    BY <1>1, <1>4
  <2>2. HeadStage(ops) = "complete"
    BY <1>4 DEF StageAt
  <2>3. \A i \in 1..n : stages[i] \in StageNames
    OBVIOUS
  <2>4. at = {}
    BY <2>2, <2>3 DEF StageNames
  <2>5. From(stages, n + 1) = <<>>
    BY <1>1 DEF From
  <2> QED
    BY <1>2, <2>1, <2>4, <2>5
<1> QED
  BY <1>3, <1>4


LEMMA StagedFollows ==
    ASSUME NEW id, NEW ops, NEW stages, NEW names, Staged(id, ops, stages, names), Len(ops) > 1
    PROVE  FollowsStages(ops, stages)
<1> DEFINE n == Len(ops)  l == Len(stages)
<1>1. /\ ops \in Seq(TokenOp(id)) /\ names \in SUBSET StageNames /\ stages \in Seq(names)
      /\ \A i, j \in 1..l : stages[i] = stages[j] => i = j
  BY DEF Staged
<1>2. PICK pos : Numbers(pos, ops, stages)
  BY DEF Staged
<1>3. /\ pos \in [1..n -> 1..(l + 1)] /\ pos[1] = 1 /\ pos[n] = l + 1
      /\ \A k \in 1..(n - 1) : pos[k + 1] \in {pos[k], pos[k] + 1}
      /\ \A k \in 1..n : HeadStage(From(ops, k)) = StageAt(stages, pos[k])
  BY <1>2 DEF Numbers
<1>4. n \in Nat /\ l \in Nat
  BY <1>1
<1>5. \A k \in 1..n : StagesLeft(From(ops, k), stages) = From(stages, pos[k])
  <2> TAKE k \in 1..n
  <2>1. pos[k] \in 1..(l + 1) /\ HeadStage(From(ops, k)) = StageAt(stages, pos[k])
    BY <1>3
  <2> DEFINE r == From(ops, k)
  <2>2. HeadStage(r) = StageAt(stages, pos[k])
    BY <2>1
  <2> HIDE DEF r
  <2>3. StagesLeft(r, stages) = From(stages, pos[k])
    BY <1>1, <2>1, <2>2, LeftFrom
  <2> QED
    BY <2>3 DEF r
<1>6. stages \in Seq(StageNames)
  BY <1>1
<1>7. StagesLeft(ops, stages) = stages
  <2>1. From(ops, 1) = ops /\ From(stages, 1) = stages
    BY <1>1, FromFirst
  <2>2. 1 \in 1..n
    BY <1>4
  <2> HIDE DEF n, l
  <2> QED
    BY <1>3, <1>5, <2>1, <2>2
<1>8. StagesLeft(From(ops, n), stages) = <<>>
  <2>1. From(stages, l + 1) = <<>>
    BY <1>4 DEF From
  <2>2. n \in 1..n
    BY <1>4
  <2> HIDE DEF n, l
  <2> QED
    BY <1>3, <1>5, <2>1, <2>2
<1>9. ASSUME NEW k \in 1..(n - 1)
      PROVE  \/ StagesLeft(From(ops, k + 1), stages) = StagesLeft(From(ops, k), stages)
             \/ /\ StagesLeft(From(ops, k), stages) # <<>>
                /\ StagesLeft(From(ops, k + 1), stages) = Tail(StagesLeft(From(ops, k), stages))
  <2>1. k \in 1..n /\ k + 1 \in 1..n
    BY <1>4
  <2> DEFINE x == StagesLeft(From(ops, k), stages)  y == StagesLeft(From(ops, k + 1), stages)
  <2>2. x = From(stages, pos[k]) /\ y = From(stages, pos[k + 1])
    BY <1>5, <2>1
  <2> HIDE DEF x, y, n, l
  <2>3. pos[k + 1] = pos[k] \/ pos[k + 1] = pos[k] + 1
    BY <1>3
  <2>4. CASE pos[k + 1] = pos[k]
    BY <2>2, <2>4 DEF x, y
  <2>5. CASE pos[k + 1] = pos[k] + 1
    <3>1. pos[k] \in 1..(l + 1) /\ pos[k + 1] \in 1..(l + 1)
      BY <1>3, <2>1
    <3>2. pos[k] \in 1..l
      BY <1>4, <2>5, <3>1
    <3>3. Tail(From(stages, pos[k])) = From(stages, pos[k] + 1)
      BY <1>1, <3>2, FromNext DEF l
    <3>4. From(stages, pos[k]) # <<>>
      BY <1>1, <3>2, FromIs DEF l
    <3>5. x # <<>> /\ y = Tail(x)
      BY <2>2, <2>5, <3>3, <3>4
    <3> QED
      BY <3>5 DEF x, y
  <2> QED
    BY <2>3, <2>4, <2>5
<1> QED
  BY <1>6, <1>7, <1>8, <1>9 DEF FollowsStages

(* One more stage ahead of the others.                                     *)
LEMMA StageAhead ==
    ASSUME NEW id, NEW ops, NEW stages, NEW names, Staged(id, ops, stages, names),
           NEW b \in Seq(TokenOp(id)), b # <<>>, NEW s \in StageNames \ names,
           \A k \in 1..Len(b) : HeadStage(From(b \o ops, k)) = s
    PROVE  Staged(id, b \o ops, <<s>> \o stages, names \cup {s})
<1> DEFINE X == TokenOp(id)  m == Len(b)  n == Len(ops)  l == Len(stages)
           p == b \o ops  t == <<s>> \o stages  N == names \cup {s}
<1>1. /\ ops \in Seq(X) /\ ops # <<>> /\ b \in Seq(X)
      /\ names \in SUBSET StageNames /\ stages \in Seq(names)
      /\ \A i, j \in 1..l : stages[i] = stages[j] => i = j
  BY DEF Staged
<1>2. PICK pos : Numbers(pos, ops, stages)
  BY DEF Staged
<1>3. /\ pos \in [1..n -> 1..(l + 1)] /\ pos[1] = 1 /\ pos[n] = l + 1
      /\ \A k \in 1..(n - 1) : pos[k + 1] \in {pos[k], pos[k] + 1}
      /\ \A k \in 1..n : HeadStage(From(ops, k)) = StageAt(stages, pos[k])
  BY <1>2 DEF Numbers
<1> HIDE DEF X
<1>4. n \in Nat /\ n > 0 /\ l \in Nat /\ m \in Nat /\ m > 0
  BY <1>1
<1>5. p \in Seq(X) /\ Len(p) = m + n
  BY <1>1
<1>6. /\ t \in Seq(N) /\ Len(t) = l + 1 /\ t[1] = s
      /\ \A i \in 1..l : t[i + 1] = stages[i]
  BY <1>1
<1>7. N \in SUBSET StageNames
  BY <1>1
<1>8. \A i \in 1..l : stages[i] \in names /\ stages[i] # s
  BY <1>1
<1>9. \A i, j \in 1..(l + 1) : t[i] = t[j] => i = j
  <2> HIDE DEF t, l, N
  <2> TAKE i, j \in 1..(l + 1)
  <2>1. i = 1 \/ (i - 1 \in 1..l /\ (i - 1) + 1 = i)
    BY <1>4
  <2>2. j = 1 \/ (j - 1 \in 1..l /\ (j - 1) + 1 = j)
    BY <1>4
  <2>3. i # 1 => t[i] = stages[i - 1] /\ t[i] # s
    BY <1>6, <1>8, <2>1
  <2>4. j # 1 => t[j] = stages[j - 1] /\ t[j] # s
    BY <1>6, <1>8, <2>2
  <2>5. i # 1 /\ j # 1 /\ t[i] = t[j] => i - 1 = j - 1
    BY <1>1, <2>1, <2>2, <2>3, <2>4 DEF l
  <2> QED
    BY <1>6, <2>1, <2>2, <2>3, <2>4, <2>5
<1> DEFINE new == [k \in 1..(m + n) |-> IF k <= m THEN 1 ELSE pos[k - m] + 1]
<1>10. \A k \in 1..m : k \in 1..(m + n) /\ new[k] = 1
  BY <1>4
<1>11. \A k \in 1..n : m + k \in 1..(m + n) /\ new[m + k] = pos[k] + 1
  <2> TAKE k \in 1..n
  <2>1. m + k \in 1..(m + n) /\ ~(m + k <= m) /\ (m + k) - m = k
    BY <1>4
  <2> HIDE DEF m, n
  <2>2. new[m + k] = pos[(m + k) - m] + 1
    BY <2>1
  <2> QED
    BY <2>1, <2>2
<1>12. \A k \in 1..n : pos[k] \in 1..(l + 1)
  BY <1>3
<1>13. \A k \in 1..(m + n) : k \in 1..m \/ (k - m \in 1..n /\ m + (k - m) = k)
  BY <1>4
<1>14. new = [k \in 1..(m + n) |-> new[k]]
  OBVIOUS
<1> HIDE DEF new, m, n, l, p, t, N
<1>15. new \in [1..(m + n) -> 1..((l + 1) + 1)]
  <2>1. \A k \in 1..(m + n) : new[k] \in 1..((l + 1) + 1)
    <3> TAKE k \in 1..(m + n)
    <3>1. CASE k \in 1..m
      BY <1>4, <1>10, <3>1
    <3>2. CASE k - m \in 1..n /\ m + (k - m) = k
      <4>1. new[k] = pos[k - m] + 1 /\ pos[k - m] \in 1..(l + 1)
        BY <1>11, <1>12, <3>2
      <4> QED
        BY <1>4, <4>1
    <3> QED
      BY <1>13, <3>1, <3>2
  <2> QED
    BY <1>14, <2>1
<1>16. new[1] = 1 /\ new[m + n] = (l + 1) + 1
  <2>1. 1 \in 1..m /\ n \in 1..n
    BY <1>4
  <2> QED
    BY <1>3, <1>10, <1>11, <2>1
<1>17. ASSUME NEW k \in 1..((m + n) - 1) PROVE new[k + 1] \in {new[k], new[k] + 1}
  <2>1. CASE k + 1 \in 1..m
    <3>1. k \in 1..m
      BY <1>4, <2>1
    <3> QED
      BY <1>10, <2>1, <3>1
  <2>2. CASE k = m
    <3>1. m \in 1..m /\ 1 \in 1..n
      BY <1>4
    <3>2. new[m] = 1 /\ new[m + 1] = pos[1] + 1
      BY <1>10, <1>11, <3>1
    <3> QED
      BY <1>3, <2>2, <3>2
  <2>3. CASE k > m
    <3> DEFINE j == k - m
    <3>1. j \in 1..(n - 1) /\ j \in 1..n /\ j + 1 \in 1..n /\ m + j = k /\ m + (j + 1) = k + 1
      BY <1>4, <2>3
    <3> HIDE DEF j
    <3>2. new[k] = pos[j] + 1 /\ new[k + 1] = pos[j + 1] + 1
      BY <1>11, <3>1
    <3>3. pos[j + 1] = pos[j] \/ pos[j + 1] = pos[j] + 1
      BY <1>3, <3>1
    <3> QED
      BY <3>2, <3>3
  <2>4. k + 1 \in 1..m \/ k = m \/ k > m
    BY <1>4
  <2> QED
    BY <2>1, <2>2, <2>3, <2>4
<1>18. ASSUME NEW k \in 1..(m + n) PROVE HeadStage(From(p, k)) = StageAt(t, new[k])
  <2>1. CASE k \in 1..m
    <3>1. HeadStage(From(p, k)) = s
      BY <2>1 DEF m, p
    <3>2. new[k] = 1 /\ 1 \in 1..(l + 1)
      BY <1>4, <1>10, <2>1
    <3>3. StageAt(t, 1) = s
      BY <1>6, <3>2 DEF StageAt
    <3> QED
      BY <3>1, <3>2, <3>3
  <2>2. CASE k - m \in 1..n /\ m + (k - m) = k
    <3> DEFINE j == k - m  q == pos[j]
    <3>1. j \in 1..n /\ m + j = k
      BY <2>2
    <3>2. new[k] = q + 1 /\ q \in 1..(l + 1)
      BY <1>11, <1>12, <3>1
    <3> HIDE DEF j
    <3>3. From(p, k) = From(ops, j)
      <4>1. From(p, m + j) = From(ops, j)
        BY <1>1, <3>1, FromSecond DEF m, n, p
      <4> QED
        BY <3>1, <4>1
    <3>4. HeadStage(From(ops, j)) = StageAt(stages, q)
      BY <1>3, <3>1
    <3> HIDE DEF q
    <3>5. StageAt(stages, q) = StageAt(t, q + 1)
      <4>1. CASE q \in 1..l
        <5>1. q + 1 \in 1..(l + 1)
          BY <1>4, <4>1
        <5> QED
          BY <1>6, <4>1, <5>1 DEF StageAt, l
      <4>2. CASE q \notin 1..l
        <5>1. q + 1 \notin 1..(l + 1)
          BY <1>4, <3>2, <4>2
        <5> QED
          BY <1>6, <4>2, <5>1 DEF StageAt, l
      <4> QED
        BY <4>1, <4>2
    <3> QED
      BY <3>2, <3>3, <3>4, <3>5
  <2> QED
    BY <1>13, <2>1, <2>2
<1>19. Numbers(new, p, t)
  BY <1>5, <1>6, <1>15, <1>16, <1>17, <1>18 DEF Numbers
<1>20. p # <<>>
  BY <1>4, <1>5
<1>21. \A i, j \in 1..Len(t) : t[i] = t[j] => i = j
  BY <1>6, <1>9
<1> QED
  BY <1>5, <1>6, <1>7, <1>19, <1>20, <1>21 DEF Staged, X, p, t, N


(* A stage that some tokens pass through and others do not.                *)
LEMMA StageMaybeAhead ==
    ASSUME NEW id, NEW ops, NEW stages, NEW names, Staged(id, ops, stages, names),
           NEW b \in Seq(TokenOp(id)), NEW s \in StageNames \ names, NEW flag \in BOOLEAN,
           flag <=> b # <<>>,
           \A k \in 1..Len(b) : HeadStage(From(b \o ops, k)) = s
    PROVE  Staged(id, b \o ops, If(flag, <<s>>) \o stages, names \cup {s})
<1>1. CASE flag
  <2>1. Staged(id, b \o ops, <<s>> \o stages, names \cup {s})
    BY <1>1, StageAhead
  <2>2. If(flag, <<s>>) = <<s>>
    BY <1>1 DEF If
  <2> QED
    BY <2>1, <2>2
<1>2. CASE ~flag
  <2>1. /\ ops \in Seq(TokenOp(id)) /\ ops # <<>>
        /\ names \in SUBSET StageNames /\ stages \in Seq(names)
        /\ \A i, j \in 1..Len(stages) : stages[i] = stages[j] => i = j
        /\ \E pos : Numbers(pos, ops, stages)
    BY DEF Staged
  <2>2. b = <<>> /\ If(flag, <<s>>) = <<>>
    BY <1>2 DEF If
  <2> DEFINE X == TokenOp(id)
  <2>3. ops \in Seq(X)
    BY <2>1
  <2> HIDE DEF X
  <2>4. <<>> \o ops = ops /\ <<>> \o stages = stages
    BY <2>1, <2>3
  <2>5. b \o ops = ops /\ If(flag, <<s>>) \o stages = stages
    BY <2>2, <2>4
  <2>6. names \cup {s} \in SUBSET StageNames
    BY <2>1
  <2>7. stages \in Seq(names \cup {s})
    BY <2>1
  <2> DEFINE N == names \cup {s}
  <2> HIDE DEF N
  <2>8. Staged(id, ops, stages, N)
    BY <2>1, <2>6, <2>7 DEF Staged, N
  <2> QED
    BY <2>5, <2>8 DEF N
<1> QED
  BY <1>1, <1>2

(* The operation that completes the request ends every stage.              *)
LEMMA StagedLast ==
    ASSUME NEW id
    PROVE  Staged(id, <<CompleteOp(id)>>, <<>>, {})
<1> DEFINE op == CompleteOp(id)  ops == <<op>>  pos == [k \in 1..1 |-> 1]
<1>1. op \in TokenOp(id) /\ op.kind = "Complete" /\ op.command = "none"
  <2>1. 0 \in Int
    OBVIOUS
  <2> QED
    BY <2>1, SpecialOps
<1> DEFINE X == TokenOp(id)
<1>2. op \in X
  BY <1>1
<1> HIDE DEF op, X
<1>3. ops \in Seq(X) /\ Len(ops) = 1 /\ ops # <<>> /\ Head(ops) = op
  BY <1>2
<1> HIDE DEF ops
<1>4. HeadStage(ops) = "complete"
  BY <1>1, <1>3 DEF HeadStage
<1>5. From(ops, 1) = ops
  BY <1>3, FromFirst
<1> DEFINE none == <<>>
<1>6. none \in Seq({}) /\ Len(none) = 0 /\ {} \in SUBSET StageNames
  OBVIOUS
<1> HIDE DEF none
<1>7. StageAt(none, 1) = "complete"
  BY <1>6 DEF StageAt
<1>8. Numbers(pos, ops, none)
  <2>1. pos \in [1..Len(ops) -> 1..(Len(none) + 1)]
    BY <1>3, <1>6
  <2>2. pos[1] = 1 /\ \A k \in 1..1 : pos[k] = 1
    OBVIOUS
  <2>3. pos[Len(ops)] = Len(none) + 1
    BY <1>3, <1>6, <2>2
  <2>4. \A k \in 1..(Len(ops) - 1) : pos[k + 1] \in {pos[k], pos[k] + 1}
    BY <1>3
  <2>5. \A k \in 1..Len(ops) : HeadStage(From(ops, k)) = StageAt(none, pos[k])
    <3>1. \A k \in 1..Len(ops) : k = 1
      BY <1>3
    <3> HIDE DEF pos
    <3> QED
      BY <1>4, <1>5, <1>7, <2>2, <3>1
  <2> HIDE DEF pos
  <2> QED
    BY <2>1, <2>2, <2>3, <2>4, <2>5 DEF Numbers
<1>9. \E x : Numbers(x, ops, none)
  BY <1>8
<1>10. \A i, j \in 1..Len(none) : none[i] = none[j] => i = j
  BY <1>6
<1>11. Staged(id, ops, none, {})
  BY <1>3, <1>6, <1>9, <1>10 DEF Staged, X
<1> QED
  BY <1>11 DEF ops, op, none

-----------------------------------------------------------------------------
(* Which stage an operation belongs to.                                    *)
MovesAhead(ops) == \E i \in 1..Len(ops) : ops[i].command = "MOV"

LEMMA HeadStageIs ==
    ASSUME NEW ops, NEW op, op = Head(ops)
    PROVE  /\ op.command = "MAC" /\ op.kind = "Command" => HeadStage(ops) = "qk"
           /\ op.command \in {"MOV", "EMUL"} /\ op.kind = "Command" => HeadStage(ops) = "elemax"
           /\ op.command = "none" /\ op.kind = "Delay" => HeadStage(ops) = "bgmu"
           /\ op.command = "none" /\ op.kind = "ConfigureSPM" => HeadStage(ops) = "pv"
           /\ op.command = "SPM" /\ op.kind = "Command" => HeadStage(ops) = "pv"
           /\ op.command = "ACC" /\ op.kind = "Command" => HeadStage(ops) = "acc"
           /\ op.command \in {"ACT", "PRE"} /\ op.kind = "Command" /\ MovesAhead(ops)
                => HeadStage(ops) = "qk"
           /\ op.command \in {"ACT", "PRE"} /\ op.kind = "Command" /\ ~MovesAhead(ops)
                => HeadStage(ops) = "pv"
<1>1. op.command = "MAC" /\ op.kind = "Command" => HeadStage(ops) = "qk"
  BY DEF HeadStage
<1>2. op.command \in {"MOV", "EMUL"} /\ op.kind = "Command" => HeadStage(ops) = "elemax"
  BY DEF HeadStage
<1>3. op.command = "none" /\ op.kind = "Delay" => HeadStage(ops) = "bgmu"
  BY DEF HeadStage
<1>4. op.command = "none" /\ op.kind = "ConfigureSPM" => HeadStage(ops) = "pv"
  BY DEF HeadStage
<1>5. op.command = "SPM" /\ op.kind = "Command" => HeadStage(ops) = "pv"
  BY DEF HeadStage
<1>6. op.command = "ACC" /\ op.kind = "Command" => HeadStage(ops) = "acc"
  BY DEF HeadStage
<1>7. op.command \in {"ACT", "PRE"} /\ op.kind = "Command" /\ MovesAhead(ops)
        => HeadStage(ops) = "qk"
  BY DEF HeadStage, MovesAhead
<1>8. op.command \in {"ACT", "PRE"} /\ op.kind = "Command" /\ ~MovesAhead(ops)
        => HeadStage(ops) = "pv"
  BY DEF HeadStage, MovesAhead
<1> QED
  BY <1>1, <1>2, <1>3, <1>4, <1>5, <1>6, <1>7, <1>8

(* What is ahead in the midst of a first part.                             *)
LEMMA Ahead ==
    ASSUME NEW id, NEW b \in Seq(TokenOp(id)), NEW ops \in Seq(TokenOp(id)), NEW k \in 1..Len(b)
    PROVE  /\ Head(From(b \o ops, k)) = b[k]
           /\ MovesAhead(ops) => MovesAhead(From(b \o ops, k))
           /\ ~MovesAhead(b) /\ ~MovesAhead(ops)
                => ~MovesAhead(From(b \o ops, k)) /\ ~MovesAhead(b \o ops)
<1> DEFINE X == TokenOp(id)  p == b \o ops  m == Len(b)  n == Len(ops)  f == From(p, k)
<1>1. b \in Seq(X) /\ ops \in Seq(X) /\ k \in 1..m
  OBVIOUS
<1> HIDE DEF X
<1>2. /\ p \in Seq(X) /\ Len(p) = m + n /\ m \in Nat /\ n \in Nat
      /\ \A i \in 1..m : p[i] = b[i]
      /\ \A i \in 1..n : p[m + i] = ops[i]
      /\ \A i \in 1..Len(p) : i \in 1..m \/ (i - m \in 1..n /\ i = m + (i - m))
  BY <1>1, AppendParts
<1> HIDE DEF p, m, n, f
<1>3. k \in 1..Len(p) /\ Len(p) - k + 1 \in Nat
  BY <1>1, <1>2
<1>4. /\ Len(f) = Len(p) - k + 1 /\ Head(f) = p[k]
      /\ \A i \in 1..(Len(p) - k + 1) : f[i] = p[k + i - 1]
  BY <1>2, <1>3, FromIs DEF f
<1>5. Head(f) = b[k]
  BY <1>1, <1>2, <1>4
<1>6. ASSUME MovesAhead(ops) PROVE MovesAhead(f)
  <2>1. PICK i \in 1..n : ops[i].command = "MOV"
    BY <1>6 DEF MovesAhead, n
  <2>2. m + i = k + (m + i - k + 1) - 1 /\ m + i - k + 1 \in 1..(Len(p) - k + 1)
    BY <1>1, <1>2
  <2>3. f[m + i - k + 1] = ops[i]
    BY <1>2, <1>4, <2>2
  <2> QED
    BY <1>4, <2>1, <2>2, <2>3 DEF MovesAhead
<1>7. ASSUME ~MovesAhead(b), ~MovesAhead(ops)
      PROVE  ~MovesAhead(f) /\ ~MovesAhead(p)
  <2>1. \A i \in 1..m : b[i].command # "MOV"
    BY <1>7 DEF MovesAhead, m
  <2>2. \A i \in 1..n : ops[i].command # "MOV"
    BY <1>7 DEF MovesAhead, n
  <2>3. \A i \in 1..Len(p) : p[i].command # "MOV"
    BY <1>2, <2>1, <2>2
  <2>4. \A i \in 1..Len(f) : k + i - 1 \in 1..Len(p) /\ f[i] = p[k + i - 1]
    BY <1>2, <1>3, <1>4
  <2>5. \A i \in 1..Len(f) : f[i].command # "MOV"
    BY <2>3, <2>4
  <2> QED
    BY <2>3, <2>5 DEF MovesAhead
<1> QED
  BY <1>5, <1>6, <1>7 DEF f, p


-----------------------------------------------------------------------------
(* What the QK stage and the sparse PV stage consist of.                   *)
QkOp(id) == {op \in TokenOp(id) : op.kind = "Command" /\ op.command \in {"ACT", "PRE", "MAC"}}
PvOp(id) == {op \in TokenOp(id) : \/ op.kind = "ConfigureSPM" /\ op.command = "none"
                                  \/ op.kind = "Command" /\ op.command \in {"ACT", "PRE", "SPM"}}

LEMMA PerBankOps ==
    ASSUME NEW id, NEW addr \in OpAddr, NEW c \in {"ACT", "PRE"}, NEW flag
    PROVE  If(flag, PerBank(c, addr)) \in Seq(QkOp(id) \cap PvOp(id))
<1> DEFINE X == TokenOp(id)  Y == QkOp(id) \cap PvOp(id)  s == PerBank(c, addr)
<1>1. s \in Seq(X) /\ Len(s) = TotalBanks /\ TotalBanks \in Nat
  BY PerBankIs, BanksNat
<1>2. \A i \in 1..Len(s) : s[i] \in Y
  <2> TAKE i \in 1..Len(s)
  <2>1. i \in 1..TotalBanks
    BY <1>1
  <2>2. s[i] = CommandOp(c, AtBank(addr, i - 1))
    BY <2>1, PerBankIs
  <2>3. s[i] \in X
    BY <1>1, ElementOfSeq
  <2> HIDE DEF s
  <2>4. s[i].kind = "Command" /\ s[i].command = c
    BY <2>2 DEF CommandOp
  <2> QED
    BY <2>3, <2>4 DEF QkOp, PvOp
<1> HIDE DEF s, X, Y
<1>3. s \in Seq(Y) /\ <<>> \in Seq(Y)
  BY <1>1, <1>2
<1> QED
  BY <1>3 DEF If, s, Y

LEMMA QkRowOps ==
    ASSUME NEW id, NEW s, NEW len, QkRowMade(id, s, len)
    PROVE  s \in Seq(QkOp(id))
<1> DEFINE X == TokenOp(id)  Y == QkOp(id)  flag == Cfg.enable_qk_act_pre
<1>1. PICK row \in OpAddr, m \in Seq(X) :
         /\ s = If(flag, PerBank("ACT", row)) \o m \o If(flag, PerBank("PRE", row))
         /\ \A i \in 1..Len(m) : m[i].kind = "Command" /\ m[i].command = "MAC"
  BY Zenon DEF QkRowMade
<1> DEFINE a == If(flag, PerBank("ACT", row))  z == If(flag, PerBank("PRE", row))
<1>2. a \in Seq(QkOp(id) \cap PvOp(id)) /\ z \in Seq(QkOp(id) \cap PvOp(id))
  BY PerBankOps
<1>3. \A i \in 1..Len(m) : m[i] \in X
  BY ElementOfSeq
<1>4. \A i \in 1..Len(m) : m[i] \in Y
  BY <1>1, <1>3 DEF QkOp
<1> HIDE DEF a, z, X
<1>5. a \in Seq(Y) /\ z \in Seq(Y)
  BY <1>2
<1> HIDE DEF Y
<1>6. m \in Seq(Y)
  BY <1>4
<1>7. a \o m \o z \in Seq(Y)
  BY <1>5, <1>6
<1> QED
  BY <1>1, <1>7 DEF a, z, Y

LEMMA QkStageOps ==
    ASSUME NEW id, NEW base \in OpAddr, NEW macs \in Int
    PROVE  /\ QkStage(base, macs) \in Seq(QkOp(id))
           /\ macs > 0 <=> QkStage(base, macs) # <<>>
<1> DEFINE X == TokenOp(id)  Y == QkOp(id)
<1>1. CASE Cfg.enable_esdm
  <2> DEFINE start == Cfg.kt_col_start
             c == QkChunks(macs)
             n == Len(c)
             Row == [k \in 1..n |-> QkRow(base, c[k])]
  <2>1. start \in Int
    BY ConfigAssumption
  <2>2. /\ n \in Nat
        /\ \A k \in 1..n : \E d \in 0..(macs - 1) : c[k] = ChunkAt(start, macs, d)
    BY <2>1, ChunksAre DEF QkChunks
  <2>3. QkStage(base, macs) = FlattenSeq(Row)
    BY <1>1, Zenon DEF QkStage
  <2> HIDE DEF c, n
  <2>4. \A k \in 1..n : QkRow(base, c[k]) \in Seq(Y)
    <3> TAKE k \in 1..n
    <3>1. PICK d \in 0..(macs - 1) : c[k] = ChunkAt(start, macs, d)
      BY <2>2
    <3>2. QkRowMade(id, QkRow(base, ChunkAt(start, macs, d)), ChunkLength(start, d, macs))
      BY QkRowParts
    <3> DEFINE s == QkRow(base, ChunkAt(start, macs, d))
    <3> HIDE DEF s
    <3>3. s \in Seq(Y)
      BY <3>2, QkRowOps DEF s
    <3> QED
      BY <3>1, <3>3 DEF s
  <2> HIDE DEF Y
  <2>5. Row \in Seq(Seq(Y)) /\ Len(Row) = n
    BY <2>2, <2>4
  <2> HIDE DEF Row
  <2> DEFINE S == Seq(Y)
  <2>6. S \in SUBSET Seq(Y) /\ <<>> \in S /\ \A a, b \in S : a \o b \in S
    OBVIOUS
  <2>7. \A i \in 1..Len(Row) : Row[i] \in S
    BY <2>5, ElementOfSeq
  <2>8. FlattenSeq(Row) \in S
    <3> HIDE DEF S
    <3> QED
      BY <2>5, <2>6, <2>7, FlattenKeeps DEF S
  <2>9. ASSUME macs > 0 PROVE QkStage(base, macs) # <<>>
    <3>1. AtLeast(0, macs) = macs
      BY <2>9 DEF AtLeast
    <3>2. Number(QkStage(base, macs), "MAC")
            = Len(QkChunks(macs)) * PerRow(Cfg.enable_qk_act_pre, "MAC") + AtLeast(0, macs)
      BY <1>1, QkStageCounts
    <3>3. PerRow(Cfg.enable_qk_act_pre, "MAC") = 0
      BY DEF PerRow
    <3>4. n * 0 = 0
      BY <2>2
    <3>5. Number(QkStage(base, macs), "MAC") = macs
      BY <3>1, <3>2, <3>3, <3>4 DEF n, c
    <3> DEFINE e == <<>>
    <3>6. e \in Seq(X) /\ Len(e) = 0
      OBVIOUS
    <3> HIDE DEF e, X
    <3>7. Number(e, "MAC") = 0
      <4>1. \A i \in 1..Len(e) : e[i].command # "MAC"
        BY <3>6
      <4> QED
        BY <3>6, <4>1, NumberNone
    <3> QED
      BY <2>9, <3>5, <3>7 DEF e
  <2>10. ASSUME ~(macs > 0) PROVE QkStage(base, macs) = <<>>
    <3>1. 0..(macs - 1) = {}
      BY <2>10
    <3>2. n = 0
      BY <2>2, <3>1
    <3>3. Row = <<>>
      BY <2>5, <3>2
    <3>4. FlattenSeq(<<>>) = <<>>
      BY DEF FlattenSeq
    <3> QED
      BY <2>3, <3>3, <3>4
  <2> QED
    BY <2>3, <2>8, <2>9, <2>10 DEF Y
<1>2. CASE ~Cfg.enable_esdm
  <2> DEFINE op == CommandOp("MAC", AllBanks(base))
             l == AtLeast(0, macs)
             s == [i \in 1..l |-> op]
  <2>1. op \in X /\ op.command = "MAC" /\ op.kind = "Command"
    BY AddrTypes, CommandType
  <2>2. l \in Nat /\ (macs > 0 <=> l > 0)
    BY DEF AtLeast
  <2>3. QkStage(base, macs) = s
    BY <1>2 DEF QkStage, Repeat
  <2> HIDE DEF op, X, l
  <2>4. op \in Y
    BY <2>1 DEF QkOp, X
  <2> HIDE DEF Y
  <2>5. s \in Seq(Y) /\ Len(s) = l
    BY <2>2, <2>4
  <2> HIDE DEF s
  <2>6. l > 0 <=> s # <<>>
    BY <2>2, <2>5
  <2> QED
    BY <2>2, <2>3, <2>5, <2>6 DEF Y
<1> QED
  BY <1>1, <1>2

LEMMA PvRowOps ==
    ASSUME NEW id, NEW row \in OpAddr, NEW voc \in Int
    PROVE  PvRow(row, voc) \in Seq(PvOp(id))
<1> DEFINE X == TokenOp(id)  Y == PvOp(id)  flag == Cfg.enable_act_spm_pre
           a == If(flag, PerBank("ACT", row))
           z == If(flag, PerBank("PRE", row))
<1>1. PICK set \in X, op \in X :
         /\ PvRow(row, voc) = <<set>> \o (a \o <<op>> \o z)
         /\ set.kind = "ConfigureSPM" /\ set.command = "none"
         /\ op.kind = "Command" /\ op.command = "SPM"
  <2>1. PvRowMade(id, row, PvRow(row, voc))
    BY PvRowParts
  <2> QED
    BY <2>1, Zenon DEF PvRowMade
<1>2. a \in Seq(QkOp(id) \cap PvOp(id)) /\ z \in Seq(QkOp(id) \cap PvOp(id))
  BY PerBankOps
<1>3. set \in Y /\ op \in Y
  BY <1>1 DEF PvOp
<1> HIDE DEF a, z, X
<1>4. a \in Seq(Y) /\ z \in Seq(Y)
  BY <1>2
<1> HIDE DEF Y
<1>5. <<set>> \o (a \o <<op>> \o z) \in Seq(Y)
  BY <1>3, <1>4
<1> QED
  BY <1>1, <1>5 DEF Y

LEMMA PvStageOps ==
    ASSUME NEW id, NEW base \in OpAddr, NEW maxVoc \in Int
    PROVE  PvStage(base, maxVoc) \in Seq(PvOp(id))
<1> DEFINE Y == PvOp(id)
<1>1. CASE Cfg.enable_esdm
  <2> DEFINE start == Cfg.v_col_start
             off == Cfg.v_row_offset
             c == Chunks(start, maxVoc)
             n == Len(c)
             One(chunk) == PvRow(EsdmAddr(base, off, start + chunk.first), chunk.len)
             Row == [k \in 1..n |-> One(c[k])]
  <2>1. start \in Int /\ off \in Int
    BY ConfigAssumption
  <2>2. /\ n \in Nat
        /\ \A k \in 1..n : \E d \in 0..(maxVoc - 1) : c[k] = ChunkAt(start, maxVoc, d)
    BY <2>1, ChunksAre
  <2>3. PvStage(base, maxVoc) = FlattenSeq(Row)
    BY <1>1, Zenon DEF PvStage, PvChunks
  <2> HIDE DEF c, n, start, off
  <2>4. \A k \in 1..n : One(c[k]) \in Seq(Y)
    <3> TAKE k \in 1..n
    <3>1. PICK d \in 0..(maxVoc - 1) : c[k] = ChunkAt(start, maxVoc, d)
      BY <2>2
    <3>2. /\ ChunkAt(start, maxVoc, d).first = d
          /\ ChunkAt(start, maxVoc, d).len = ChunkLength(start, d, maxVoc)
          /\ ChunkLength(start, d, maxVoc) \in 1..(maxVoc - d)
      BY <2>1, ChunkType
    <3>3. c[k].first \in Int /\ c[k].len \in Int
      BY <3>1, <3>2
    <3>4. EsdmAddr(base, off, start + c[k].first) \in OpAddr
      <4>1. start + c[k].first \in Int
        BY <2>1, <3>3
      <4> QED
        BY <2>1, <4>1, EsdmAddrType
    <3> QED
      BY <3>3, <3>4, PvRowOps
  <2> HIDE DEF One, Y
  <2>5. Row \in Seq(Seq(Y)) /\ Len(Row) = n
    BY <2>2, <2>4
  <2> HIDE DEF Row
  <2> DEFINE S == Seq(Y)
  <2>6. S \in SUBSET Seq(Y) /\ <<>> \in S /\ \A a, b \in S : a \o b \in S
    OBVIOUS
  <2>7. \A i \in 1..Len(Row) : Row[i] \in S
    BY <2>5, ElementOfSeq
  <2>8. FlattenSeq(Row) \in S
    <3> HIDE DEF S
    <3> QED
      BY <2>5, <2>6, <2>7, FlattenKeeps DEF S
  <2> QED
    BY <2>3, <2>8 DEF Y
<1>2. CASE ~Cfg.enable_esdm
  <2>1. PvStage(base, maxVoc) = PvRow(base, maxVoc)
    BY <1>2 DEF PvStage
  <2> QED
    BY <2>1, PvRowOps
<1> QED
  BY <1>1, <1>2

LEMMA PvStageSome ==
    ASSUME NEW id, NEW base \in OpAddr, NEW maxVoc \in Int, maxVoc > 0
    PROVE  PvStage(base, maxVoc) # <<>>
<1> DEFINE X == TokenOp(id)  s == PvStage(base, maxVoc)
<1>1. PerRow(Cfg.enable_act_spm_pre, "SPM") = 0
  BY DEF PerRow
<1>2. Number(s, "SPM") \in Nat \ {0}
  <2>1. CASE Cfg.enable_esdm
    <3> DEFINE n == Len(PvChunks(maxVoc))
    <3>1. Number(s, "SPM") = n * (PerRow(Cfg.enable_act_spm_pre, "SPM") + 1)
      BY <2>1, PvStageCounts DEF PageCommands
    <3>2. n \in Nat \ {0}
      <4> DEFINE c == Chunks(Cfg.v_col_start, maxVoc)
      <4>1. PassesEnd(c, Cfg.v_col_start, maxVoc)
        BY ConfigAssumption, PassEnds
      <4> HIDE DEF c
      <4>2. Len(c) \in Nat /\ End(c, Len(c)) = AtLeast(0, maxVoc)
        BY <4>1, Zenon DEF PassesEnd
      <4>3. Len(c) # 0
        BY <4>2 DEF End, AtLeast
      <4> QED
        BY <4>2, <4>3 DEF c, PvChunks
    <3> HIDE DEF n, s
    <3> QED
      BY <1>1, <3>1, <3>2
  <2>2. CASE ~Cfg.enable_esdm
    <3>1. s = PvRow(base, maxVoc)
      BY <2>2 DEF PvStage
    <3>2. Number(PvRow(base, maxVoc), "SPM") = PerRow(Cfg.enable_act_spm_pre, "SPM") + 1
      BY PvRowCounts DEF PageCommands
    <3> HIDE DEF s
    <3> QED
      BY <1>1, <3>1, <3>2
  <2> QED
    BY <2>1, <2>2
<1> DEFINE e == <<>>
<1>3. e \in Seq(X) /\ Len(e) = 0
  OBVIOUS
<1> HIDE DEF e, X, s
<1>4. \A i \in 1..Len(e) : e[i].command # "SPM"
  BY <1>3
<1>5. Number(e, "SPM") = 0
  BY <1>3, <1>4, NumberNone
<1> QED
  BY <1>2, <1>5 DEF e, s


-----------------------------------------------------------------------------
(* The whole token.                                                        *)
LEMMA NoMoves ==
    ASSUME NEW X, NEW a \in Seq(X), NEW b \in Seq(X), ~MovesAhead(a), ~MovesAhead(b)
    PROVE  ~MovesAhead(a \o b)
<1> DEFINE p == a \o b  m == Len(a)  n == Len(b)
<1>1. /\ Len(p) = m + n /\ m \in Nat /\ n \in Nat
      /\ \A i \in 1..m : p[i] = a[i]
      /\ \A i \in 1..n : p[m + i] = b[i]
      /\ \A i \in 1..Len(p) : i \in 1..m \/ (i - m \in 1..n /\ i = m + (i - m))
  BY AppendParts
<1> HIDE DEF p, m, n
<1>2. \A i \in 1..m : a[i].command # "MOV"
  BY DEF MovesAhead, m
<1>3. \A i \in 1..n : b[i].command # "MOV"
  BY DEF MovesAhead, n
<1>4. \A i \in 1..Len(p) : p[i].command # "MOV"
  BY <1>1, <1>2, <1>3
<1> QED
  BY <1>4 DEF MovesAhead, p

LEMMA SomeMoves ==
    ASSUME NEW X, NEW a \in Seq(X), NEW b \in Seq(X), Len(a) = 2, a[1].command = "MOV"
    PROVE  MovesAhead(a \o b)
<1> DEFINE p == a \o b
<1>1. /\ Len(p) = Len(a) + Len(b) /\ Len(b) \in Nat
      /\ \A i \in 1..Len(a) : p[i] = a[i]
  BY AppendParts
<1> HIDE DEF p
<1>2. 1 \in 1..Len(a) /\ 1 \in 1..Len(p)
  BY <1>1
<1>3. p[1].command = "MOV"
  BY <1>1, <1>2
<1> QED
  BY <1>2, <1>3 DEF MovesAhead, p

LEMMA QkAhead ==
    ASSUME NEW id, NEW b \in Seq(QkOp(id)), NEW ops \in Seq(TokenOp(id)), MovesAhead(ops),
           NEW k \in 1..Len(b)
    PROVE  HeadStage(From(b \o ops, k)) = "qk"
<1> DEFINE f == From(b \o ops, k)
<1>1. b \in Seq(TokenOp(id))
  <2> DEFINE X == TokenOp(id)  Y == QkOp(id)
  <2>1. Y \subseteq X
    BY DEF QkOp
  <2> HIDE DEF X, Y
  <2>2. b \in Seq(Y)
    BY DEF Y
  <2>3. b \in Seq(X)
    BY <2>1, <2>2
  <2> QED
    BY <2>3 DEF X
<1>2. Head(f) = b[k] /\ MovesAhead(f)
  BY <1>1, Ahead
<1>3. b[k] \in QkOp(id)
  BY ElementOfSeq
<1>4. b[k].kind = "Command" /\ (b[k].command = "MAC" \/ b[k].command \in {"ACT", "PRE"})
  BY <1>3 DEF QkOp
<1> DEFINE op == b[k]
<1>5. op = Head(f) /\ op.kind = "Command" /\ (op.command = "MAC" \/ op.command \in {"ACT", "PRE"})
  BY <1>2, <1>4
<1> HIDE DEF f, op
<1>6. HeadStage(f) = "qk"
  BY <1>2, <1>5, HeadStageIs
<1> QED
  BY <1>6 DEF f

LEMMA PvAhead ==
    ASSUME NEW id, NEW b \in Seq(PvOp(id)), NEW ops \in Seq(TokenOp(id)), ~MovesAhead(ops),
           NEW k \in 1..Len(b)
    PROVE  HeadStage(From(b \o ops, k)) = "pv" /\ ~MovesAhead(b)
<1> DEFINE f == From(b \o ops, k)
<1>1. b \in Seq(TokenOp(id))
  <2> DEFINE X == TokenOp(id)  Y == PvOp(id)
  <2>1. Y \subseteq X
    BY DEF PvOp
  <2> HIDE DEF X, Y
  <2>2. b \in Seq(Y)
    BY DEF Y
  <2>3. b \in Seq(X)
    BY <2>1, <2>2
  <2> QED
    BY <2>3 DEF X
<1>2. \A i \in 1..Len(b) : b[i] \in PvOp(id)
  BY ElementOfSeq
<1>3. ~MovesAhead(b)
  BY <1>2 DEF PvOp, MovesAhead
<1>4. Head(f) = b[k] /\ ~MovesAhead(f)
  BY <1>1, <1>3, Ahead
<1>5. \/ b[k].kind = "ConfigureSPM" /\ b[k].command = "none"
      \/ b[k].kind = "Command" /\ b[k].command \in {"ACT", "PRE"}
      \/ b[k].kind = "Command" /\ b[k].command = "SPM"
  BY <1>2 DEF PvOp
<1> DEFINE op == b[k]
<1>6. /\ op = Head(f)
      /\ \/ op.kind = "ConfigureSPM" /\ op.command = "none"
         \/ op.kind = "Command" /\ op.command \in {"ACT", "PRE"}
         \/ op.kind = "Command" /\ op.command = "SPM"
  BY <1>4, <1>5
<1> HIDE DEF f, op
<1>7. HeadStage(f) = "pv"
  BY <1>4, <1>6, HeadStageIs
<1> QED
  BY <1>3, <1>7 DEF f

(* The other stages are told by their commands alone.                      *)
Plain(op, s) ==
    \/ s = "elemax" /\ op.kind = "Command" /\ op.command \in {"MOV", "EMUL"}
    \/ s = "bgmu" /\ op.kind = "Delay" /\ op.command = "none"
    \/ s = "acc" /\ op.kind = "Command" /\ op.command = "ACC"

LEMMA PlainAhead ==
    ASSUME NEW id, NEW b \in Seq(TokenOp(id)), NEW ops \in Seq(TokenOp(id)), NEW s,
           \A k \in 1..Len(b) : Plain(b[k], s),
           NEW k \in 1..Len(b)
    PROVE  HeadStage(From(b \o ops, k)) = s
<1> DEFINE f == From(b \o ops, k)  op == b[k]
<1>1. Head(f) = op
  BY Ahead
<1>2. \/ s = "elemax" /\ op.kind = "Command" /\ op.command \in {"MOV", "EMUL"}
      \/ s = "bgmu" /\ op.kind = "Delay" /\ op.command = "none"
      \/ s = "acc" /\ op.kind = "Command" /\ op.command = "ACC"
  BY DEF Plain
<1> HIDE DEF f, op
<1>3. HeadStage(f) = s
  BY <1>1, <1>2, HeadStageIs
<1> QED
  BY <1>3 DEF f

Regroups(a, b, c, p, q, e) ==
    a \o b \o c \o (p \o q) \o e = a \o (b \o (c \o (p \o (q \o e))))

(* Five sequences one after the other, taken from the right.               *)
Nests(a, b, c, d, e) == a \o b \o c \o d \o e = a \o (b \o (c \o (d \o e)))

LEMMA Nested ==
    ASSUME NEW X, NEW a \in Seq(X), NEW b \in Seq(X), NEW c \in Seq(X), NEW d \in Seq(X),
           NEW e \in Seq(X)
    PROVE  Nests(a, b, c, d, e)
<1> DEFINE ab == a \o b  abc == ab \o c  de == d \o e  cde == c \o de
<1>1. ab \in Seq(X) /\ de \in Seq(X)
  BY Associated
<1> HIDE DEF ab, de
<1>2. abc \in Seq(X) /\ cde \in Seq(X)
  BY <1>1, Associated
<1> HIDE DEF abc, cde
<1>3. Associates(abc, d, e)
  BY <1>2, Associated
<1>4. Associates(ab, c, de)
  BY <1>1, Associated
<1>5. Associates(a, b, cde)
  BY <1>2, Associated
<1> QED
  BY <1>3, <1>4, <1>5, Zenon DEF Nests, Associates, ab, abc, de, cde

LEMMA Regrouped ==
    ASSUME NEW X, NEW a \in Seq(X), NEW b \in Seq(X), NEW c \in Seq(X), NEW p \in Seq(X),
           NEW q \in Seq(X), NEW e \in Seq(X)
    PROVE  Regroups(a, b, c, p, q, e)
<1> DEFINE pq == p \o q
<1>1. pq \in Seq(X) /\ Associates(p, q, e)
  BY Associated
<1> HIDE DEF pq
<1>2. Nests(a, b, c, pq, e)
  BY <1>1, Nested
<1> QED
  BY <1>1, <1>2, Zenon DEF Associates, Nests, Regroups, pq


(* The expansion of any token by expand_sparepim_token passes through the  *)
(* stages of ESEF that its work calls for, in their order, and completes   *)
(* the token last.                                                         *)
THEOREM TokenStaged ==
    ASSUME NEW id, NEW req, IsToken(req), Cfg.bgmu_read_as_delay \in BOOLEAN
    PROVE  FollowsStages(Expand(id, req), StagesOf(req))
<1> DEFINE X == TokenOp(id)
           base == BaseAddr(req)
           macs == MacCommands(req)
           accs == AccCommands(req)
           max == VocSummary(req).max_voc
           read == Cfg.bgmu_read_as_delay
           a == QkStage(base, macs)
           b == ElemaxStage(base)
           c == BgmuStage(VocSummary(req))
           p == If(max # 0, PvStage(base, max))
           q == If(max # 0, AccStage(base, accs))
           e == <<CompleteOp(id)>>
           s1 == If(max > 0 /\ accs > 0, <<"acc">>)
           s2 == If(max > 0, <<"pv">>)
           s3 == If(read, <<"bgmu">>)
           s5 == If(macs > 0, <<"qk">>)
<1>1. /\ base \in OpAddr /\ macs \in Int /\ accs \in Int
      /\ max \in Nat /\ VocSummary(req).bgmu_reads \in Int
  BY BaseType, SummaryType
<1>2. a \in Seq(QkOp(id)) /\ (macs > 0 <=> a # <<>>)
  BY <1>1, QkStageOps
<1>3. /\ b \in Seq(X) /\ Len(b) = 2 /\ \A i \in 1..2 : b[i].kind = "Command"
      /\ b[1].command = "MOV" /\ b[2].command = "EMUL"
  BY <1>1, ElemaxIs
<1>4. /\ c \in Seq(X) /\ Len(c) = IF read THEN 1 ELSE 0
      /\ \A i \in 1..Len(c) : c[i].kind = "Delay" /\ c[i].command = "none"
  BY <1>1, BgmuIs
<1>5. p \in Seq(PvOp(id)) /\ (max > 0 <=> p # <<>>)
  <2> DEFINE s == PvStage(base, max)  Y == PvOp(id)
  <2>1. max \in Int
    BY <1>1
  <2>2. s \in Seq(Y)
    BY <1>1, <2>1, PvStageOps
  <2>3. max > 0 => s # <<>>
    BY <1>1, <2>1, PvStageSome
  <2> HIDE DEF s, Y, max
  <2>4. <<>> \in Seq(Y)
    OBVIOUS
  <2> QED
    BY <1>1, <2>2, <2>3, <2>4 DEF If, s, Y
<1>6. /\ q \in Seq(X) /\ (max > 0 /\ accs > 0 <=> q # <<>>)
      /\ \A i \in 1..Len(q) : q[i].kind = "Command" /\ q[i].command = "ACC"
  <2> DEFINE s == AccStage(base, accs)
  <2>1. /\ s \in Seq(X) /\ Len(s) = AtLeast(0, accs)
        /\ \A i \in 1..Len(s) : s[i].kind = "Command" /\ s[i].command = "ACC"
    BY <1>1, AccIs
  <2> HIDE DEF s, X, max, accs
  <2>2. accs > 0 <=> s # <<>>
    BY <1>1, <2>1 DEF AtLeast
  <2>3. CASE max # 0
    <3>1. q = s
      BY <2>3 DEF If, s
    <3>2. max > 0
      BY <1>1, <2>3
    <3> HIDE DEF q
    <3> QED
      BY <2>1, <2>2, <3>1, <3>2
  <2>4. CASE max = 0
    <3>1. q = <<>>
      BY <2>4 DEF If
    <3>2. ~(max > 0)
      BY <2>4
    <3> HIDE DEF q
    <3>3. q \in Seq(X) /\ Len(q) = 0
      BY <3>1
    <3> QED
      BY <3>1, <3>2, <3>3
  <2> QED
    BY <2>3, <2>4
<1>7. CompleteOp(id) \in X /\ CompleteOp(id).command = "none"
  <2>1. 0 \in Int
    OBVIOUS
  <2> QED
    BY <2>1, SpecialOps
<1>8. e \in Seq(X) /\ Len(e) = 1 /\ e[1].command = "none"
  <2> DEFINE op == CompleteOp(id)
  <2>1. op \in X /\ op.command = "none"
    BY <1>7
  <2> HIDE DEF op, X
  <2>2. <<op>> \in Seq(X) /\ Len(<<op>>) = 1 /\ <<op>>[1] = op
    BY <2>1
  <2> QED
    BY <2>1, <2>2 DEF op
<1>9. a \in Seq(X) /\ p \in Seq(X)
  <2> DEFINE Y == QkOp(id)  Z == PvOp(id)
  <2>1. Y \subseteq X /\ Z \subseteq X
    BY DEF QkOp, PvOp
  <2>2. a \in Seq(Y) /\ p \in Seq(Z)
    BY <1>2, <1>5
  <2> HIDE DEF X, Y, Z, a, p
  <2> QED
    BY <2>1, <2>2
<1>10. Expand(id, req) = a \o (b \o (c \o (p \o (q \o e))))
  <2> DEFINE v == PvStage(base, max)  w == AccStage(base, accs)
  <2>1. TokenOps(id, req) = a \o b \o c \o If(max # 0, v \o w) \o e
    BY TokenParts
  <2>2. If(max # 0, v \o w) = p \o q
    <3>1. CASE max # 0
      BY <3>1 DEF If
    <3>2. CASE max = 0
      <4>1. If(max # 0, v \o w) = <<>> /\ p = <<>> /\ q = <<>>
        BY <3>2 DEF If
      <4>2. <<>> \o <<>> = <<>>
        OBVIOUS
      <4> QED
        BY <4>1, <4>2
    <3> QED
      BY <3>1, <3>2
  <2>3. req.type = "spare-pim"
    BY DEF IsToken
  <2>4. Expand(id, req) = TokenOps(id, req)
    BY <2>3, Zenon DEF Expand
  <2> HIDE DEF a, b, c, p, q, e, X, v, w, max
  <2>5. Expand(id, req) = a \o b \o c \o (p \o q) \o e
    BY <2>1, <2>2, <2>4
  <2>6. a \o b \o c \o (p \o q) \o e = a \o (b \o (c \o (p \o (q \o e))))
    <3>1. a \in Seq(X) /\ b \in Seq(X) /\ c \in Seq(X)
      BY <1>3, <1>4, <1>9
    <3>2. p \in Seq(X) /\ q \in Seq(X) /\ e \in Seq(X)
      BY <1>6, <1>8, <1>9
    <3>3. Regroups(a, b, c, p, q, e)
      BY <3>1, <3>2, Regrouped
    <3> QED
      BY <3>3 DEF Regroups
  <2> QED
    BY <2>5, <2>6
<1>11. StagesOf(req) = s5 \o <<"elemax">> \o s3 \o s2 \o s1
  BY Zenon DEF StagesOf
<1> HIDE DEF a, b, c, p, q, s1, s2, s3, s5, max, macs, accs, base
<1>12. StagesOf(req) = s5 \o (<<"elemax">> \o (s3 \o (s2 \o (s1 \o <<>>))))
  <2> DEFINE s4 == <<"elemax">>  T == StageNames
  <2>1. s1 \in Seq(T) /\ s2 \in Seq(T) /\ s3 \in Seq(T) /\ s5 \in Seq(T) /\ s4 \in Seq(T)
    <3>1. {"acc", "pv", "bgmu", "qk", "elemax"} \subseteq T
      BY DEF StageNames
    <3> HIDE DEF T
    <3>2. <<"acc">> \in Seq(T) /\ <<"pv">> \in Seq(T) /\ <<"bgmu">> \in Seq(T)
          /\ <<"qk">> \in Seq(T) /\ <<"elemax">> \in Seq(T) /\ <<>> \in Seq(T)
      BY <3>1
    <3> QED
      BY <3>2 DEF s1, s2, s3, s5, If
  <2>2. StagesOf(req) = s5 \o s4 \o s3 \o s2 \o s1
    BY <1>11
  <2> HIDE DEF s4, T
  <2> DEFINE n == <<>>
  <2>3. s1 \o n = s1
    BY <2>1, ConcatEmptySeq, Zenon
  <2>4. StagesOf(req) = s5 \o (s4 \o (s3 \o (s2 \o s1)))
    <3>1. Nests(s5, s4, s3, s2, s1)
      BY <2>1, Nested
    <3> QED
      BY <2>2, <3>1, Zenon DEF Nests
  <2>5. StagesOf(req) = s5 \o (s4 \o (s3 \o (s2 \o (s1 \o n))))
    BY <2>3, <2>4, Zenon
  <2> QED
    BY <2>5 DEF s4, n
<1> DEFINE o1 == q \o e  o2 == p \o o1  o3 == c \o o2  o4 == b \o o3  o5 == a \o o4
           t0 == <<>>  t1 == s1 \o t0  t2 == s2 \o t1  t3 == s3 \o t2  t4 == <<"elemax">> \o t3  t5 == s5 \o t4
           n0 == {}  n1 == n0 \cup {"acc"}  n2 == n1 \cup {"pv"}  n3 == n2 \cup {"bgmu"}
           n4 == n3 \cup {"elemax"}  n5 == n4 \cup {"qk"}
<1>13. Staged(id, e, t0, n0)
  BY StagedLast
<1>14. /\ "acc" \in StageNames \ n0 /\ "pv" \in StageNames \ n1 /\ "bgmu" \in StageNames \ n2
       /\ "elemax" \in StageNames \ n3 /\ "qk" \in StageNames \ n4
  BY DEF StageNames
<1>15. /\ (max > 0 /\ accs > 0) \in BOOLEAN /\ (max > 0) \in BOOLEAN /\ read \in BOOLEAN
       /\ (macs > 0) \in BOOLEAN
  BY <1>1
<1>16. ~MovesAhead(e) /\ ~MovesAhead(q)
  BY <1>6, <1>8 DEF MovesAhead
<1> HIDE DEF e, t0, n0, read, X
<1>17. o1 \in Seq(X)
  BY <1>6, <1>8
<1>18. ~MovesAhead(o1)
  BY <1>6, <1>8, <1>16, NoMoves
<1>19. Staged(id, o1, t1, n1)
  <2>1. \A k \in 1..Len(q) : HeadStage(From(q \o e, k)) = "acc"
    <3>1. \A k \in 1..Len(q) : Plain(q[k], "acc")
      BY <1>6 DEF Plain
    <3> QED
      <4>1. q \in Seq(TokenOp(id)) /\ e \in Seq(TokenOp(id))
        BY <1>6, <1>8, Zenon DEF X
      <4> QED
        BY <3>1, <4>1, PlainAhead, Zenon
  <2> QED
    BY <1>6, <1>13, <1>14, <1>15, <2>1, StageMaybeAhead DEF X, s1
<1> HIDE DEF o1, t1, n1
<1>20. o2 \in Seq(X)
  BY <1>9, <1>17
<1>21. Staged(id, o2, t2, n2)
  <2>1. \A k \in 1..Len(p) : HeadStage(From(p \o o1, k)) = "pv"
    BY <1>5, <1>17, <1>18, PvAhead DEF X
  <2> QED
    BY <1>5, <1>9, <1>14, <1>15, <1>19, <2>1, StageMaybeAhead DEF X, s2
<1> HIDE DEF o2, t2, n2
<1>22. o3 \in Seq(X)
  BY <1>4, <1>20
<1>23. Staged(id, o3, t3, n3)
  <2>1. \A k \in 1..Len(c) : HeadStage(From(c \o o2, k)) = "bgmu"
    <3>1. \A k \in 1..Len(c) : Plain(c[k], "bgmu")
      BY <1>4 DEF Plain
    <3> QED
      <4>1. c \in Seq(TokenOp(id)) /\ o2 \in Seq(TokenOp(id))
        BY <1>4, <1>20, Zenon DEF X
      <4> QED
        BY <3>1, <4>1, PlainAhead, Zenon
  <2>2. read <=> c # <<>>
    BY <1>4
  <2> QED
    BY <1>4, <1>14, <1>15, <1>21, <2>1, <2>2, StageMaybeAhead DEF X, s3
<1> HIDE DEF o3, t3, n3
<1>24. o4 \in Seq(X) /\ MovesAhead(o4)
  <2>1. o4 \in Seq(X)
    BY <1>3, <1>22
  <2>2. MovesAhead(o4)
    BY <1>3, <1>22, SomeMoves
  <2> QED
    BY <2>1, <2>2
<1>25. Staged(id, o4, t4, n4)
  <2>1. \A k \in 1..Len(b) : b[k].kind = "Command" /\ b[k].command \in {"MOV", "EMUL"}
    <3>1. \A k \in 1..Len(b) : k = 1 \/ k = 2
      BY <1>3
    <3> QED
      BY <1>3, <3>1
  <2>2. \A k \in 1..Len(b) : HeadStage(From(b \o o3, k)) = "elemax"
    <3>1. \A k \in 1..Len(b) : Plain(b[k], "elemax")
      BY <2>1 DEF Plain
    <3> QED
      <4>1. b \in Seq(TokenOp(id)) /\ o3 \in Seq(TokenOp(id))
        BY <1>3, <1>22, Zenon DEF X
      <4> QED
        BY <3>1, <4>1, PlainAhead, Zenon
  <2>3. b # <<>>
    <3>1. b \in Seq(X) /\ Len(b) = 2
      BY <1>3
    <3> QED
      BY <3>1
  <2> QED
    BY <1>3, <1>14, <1>23, <2>2, <2>3, StageAhead DEF X
<1>26. Len(o4) > 1
  <2>1. b \in Seq(X) /\ Len(b) = 2
    BY <1>3
  <2>2. Len(b \o o3) = Len(b) + Len(o3) /\ Len(o3) \in Nat
    BY <1>22, <2>1, AppendParts
  <2> QED
    BY <2>1, <2>2
<1> HIDE DEF o4, t4, n4
<1>27. Staged(id, o5, t5, n5)
  <2>1. \A k \in 1..Len(a) : HeadStage(From(a \o o4, k)) = "qk"
    BY <1>2, <1>24, QkAhead DEF X
  <2> QED
    BY <1>2, <1>9, <1>14, <1>15, <1>25, <2>1, StageMaybeAhead DEF X, s5
<1>28. Len(o5) > 1
  BY <1>9, <1>24, <1>26
<1>29. Expand(id, req) = o5
  BY <1>10 DEF o1, o2, o3, o4
<1>30. StagesOf(req) = t5
  BY <1>12 DEF t0, t1, t2, t3, t4
<1> HIDE DEF o5, t5, n5
<1>31. FollowsStages(o5, t5)
  BY <1>27, <1>28, StagedFollows
<1> QED
  BY <1>29, <1>30, <1>31

-----------------------------------------------------------------------------
(* Sums.                                                                   *)
Sums(g, s) == g[0] = 0 /\ \A k \in 1..Len(s) : g[k] = g[k - 1] + s[k]

LEMMA SumTyped ==
    ASSUME NEW s \in Seq(Int), NEW g, Sums(g, s)
    PROVE  \A k \in 0..Len(s) : g[k] \in Int
<1> DEFINE n == Len(s)
           S == {k \in 0..n : g[k] \in Int}
<1>1. n \in Nat /\ \A k \in 1..n : s[k] \in Int
  OBVIOUS
<1>2. g[0] = 0 /\ \A k \in 1..n : g[k] = g[k - 1] + s[k]
  BY DEF Sums
<1> HIDE DEF n
<1>3. 0 \in S
  BY <1>1, <1>2
<1>4. ASSUME NEW k \in 0..(n - 1), k \in S PROVE k + 1 \in S
  <2>1. k + 1 \in 1..n /\ k + 1 \in 0..n /\ (k + 1) - 1 = k
    BY <1>1
  <2>2. g[k + 1] = g[k] + s[k + 1] /\ g[k] \in Int /\ s[k + 1] \in Int
    BY <1>1, <1>2, <1>4, <2>1
  <2> QED
    BY <2>1, <2>2
<1>5. \A k \in 0..n : k \in S
  <2> HIDE DEF S
  <2>1. 0 \in Nat
    OBVIOUS
  <2> QED
    BY <1>1, <1>3, <1>4, <2>1, UpTo
<1> QED
  BY <1>5 DEF n

LEMMA SumUnique ==
    ASSUME NEW s \in Seq(Int), NEW g, Sums(g, s), NEW h, Sums(h, s)
    PROVE  g[Len(s)] = h[Len(s)]
<1> DEFINE n == Len(s)
           S == {k \in 0..n : g[k] = h[k]}
<1>1. n \in Nat /\ \A k \in 1..n : s[k] \in Int
  OBVIOUS
<1>2. /\ g[0] = 0 /\ \A k \in 1..n : g[k] = g[k - 1] + s[k]
      /\ h[0] = 0 /\ \A k \in 1..n : h[k] = h[k - 1] + s[k]
  BY DEF Sums
<1> HIDE DEF n
<1>3. 0 \in S
  BY <1>1, <1>2
<1>4. ASSUME NEW k \in 0..(n - 1), k \in S PROVE k + 1 \in S
  <2>1. k + 1 \in 1..n /\ k + 1 \in 0..n /\ (k + 1) - 1 = k
    BY <1>1
  <2>2. g[k + 1] = g[k] + s[k + 1] /\ h[k + 1] = h[k] + s[k + 1] /\ g[k] = h[k]
    BY <1>2, <1>4, <2>1
  <2> QED
    BY <2>1, <2>2
<1>5. \A k \in 0..n : k \in S
  <2> HIDE DEF S
  <2>1. 0 \in Nat
    OBVIOUS
  <2> QED
    BY <1>1, <1>3, <1>4, <2>1, UpTo
<1>6. n \in 0..n
  BY <1>1
<1> QED
  BY <1>5, <1>6 DEF n

LEMMA Summed ==
    ASSUME NEW s \in Seq(Int)
    PROVE  \E g : Sums(g, s) /\ SumOf(s) = g[Len(s)]
<1> DEFINE n == Len(s)
           G == [p \in Int \X (1..n) |-> p[1] + s[p[2]]]
           folded[t \in SUBSET (DOMAIN s)] ==
               IF t = {} THEN 0 ELSE LET x == Max(t) IN folded[t \ {x}] + s[x]
<1>1. n \in Nat /\ DOMAIN s = 1..n /\ \A i \in 1..n : s[i] \in Int
  OBVIOUS
<1>2. SumOf(s) = folded[DOMAIN s]
  BY Zenon DEF SumOf, FoldLeft, MapThenFoldSet
<1>3. G \in [Int \X (1..n) -> Int]
  <2> HIDE DEF n
  <2>1. \A p \in Int \X (1..n) : p[1] \in Int /\ p[2] \in 1..n
    OBVIOUS
  <2>2. \A p \in Int \X (1..n) : p[1] + s[p[2]] \in Int
    BY <1>1, <2>1
  <2> QED
    BY <2>2
<1>4. \A a \in Int, i \in 1..n : G[<<a, i>>] = a + s[i]
  <2> HIDE DEF n
  <2> TAKE a \in Int, i \in 1..n
  <2>1. <<a, i>> \in Int \X (1..n) /\ <<a, i>>[1] = a /\ <<a, i>>[2] = i
    OBVIOUS
  <2> QED
    BY <2>1
<1> HIDE DEF G
<1>5. PICK f \in [SUBSET (1..n) -> Int] : \A t \in SUBSET (1..n) :
              f[t] = IF t = {} THEN 0 ELSE G[<<f[t \ {Max(t)}], Max(t)>>]
  <2> HIDE DEF n
  <2>1. 0 \in Int
    OBVIOUS
  <2>2. \E f \in [SUBSET (1..n) -> Int] : FoldsUp(f, n, 0, G)
    BY <1>1, <1>3, <2>1, FoldExists
  <2> QED
    BY <2>2, Zenon DEF FoldsUp
<1>6. \A t \in SUBSET (DOMAIN s) :
         f[t] = IF t = {} THEN 0 ELSE f[t \ {Max(t)}] + s[Max(t)]
  <2> SUFFICES ASSUME NEW t \in SUBSET (1..n), t # {}
               PROVE  f[t] = f[t \ {Max(t)}] + s[Max(t)]
    BY <1>1, <1>5
  <2>1. Max(t) \in 1..n /\ t \ {Max(t)} \in SUBSET (1..n)
    <3>1. Max(t) \in t
      BY <1>1, MaxOf
    <3> QED
      BY <3>1
  <2>2. f[t \ {Max(t)}] \in Int
    BY <2>1
  <2>3. f[t] = G[<<f[t \ {Max(t)}], Max(t)>>]
    BY <1>5
  <2> QED
    BY <1>4, <2>1, <2>2, <2>3
<1> DEFINE It(g) == [t \in SUBSET (DOMAIN s) |->
               IF t = {} THEN 0 ELSE LET x == Max(t) IN g[t \ {x}] + s[x]]
<1>7. f = It(f)
  <2>1. DOMAIN f = SUBSET (DOMAIN s) /\ f = [t \in SUBSET (DOMAIN s) |-> f[t]]
    BY <1>1
  <2>2. [t \in SUBSET (DOMAIN s) |-> f[t]] = It(f)
    BY <1>6
  <2> QED
    BY <2>1, <2>2
<1>8. folded = It(folded)
  <2>1. \E g : g = It(g)
    BY <1>7
  <2> QED
    BY <2>1, Zenon DEF folded
<1> HIDE DEF folded
<1>9. folded[{}] = 0 /\ \A k \in 1..n : folded[1..k] = folded[1..(k - 1)] + s[k]
  <2>1. \A t \in SUBSET (1..n) :
           folded[t] = IF t = {} THEN 0 ELSE folded[t \ {Max(t)}] + s[Max(t)]
    BY <1>1, <1>8, Zenon
  <2>2. {} \in SUBSET (1..n)
    OBVIOUS
  <2>3. ASSUME NEW k \in 1..n PROVE folded[1..k] = folded[1..(k - 1)] + s[k]
    <3> HIDE DEF n
    <3>1. /\ 1..k \in SUBSET (1..n) /\ 1..k # {}
          /\ Max(1..k) = k /\ (1..k) \ {k} = 1..(k - 1)
      BY <1>1, FirstIndices
    <3>2. folded[1..k] = folded[(1..k) \ {Max(1..k)}] + s[Max(1..k)]
      BY <2>1, <3>1, Zenon
    <3> QED
      BY <3>1, <3>2, Zenon
  <2> QED
    BY <2>1, <2>2, <2>3, Zenon
<1> DEFINE g == [k \in 0..n |-> folded[1..k]]
<1>10. Sums(g, s)
  <2>1. 1..0 = {} /\ 0 \in 0..n
    BY <1>1
  <2>2. g[0] = 0
    BY <1>9, <2>1
  <2>3. ASSUME NEW k \in 1..n PROVE g[k] = g[k - 1] + s[k]
    <3>1. k \in 0..n /\ k - 1 \in 0..n
      BY <1>1
    <3> HIDE DEF n
    <3> QED
      BY <1>9, <3>1
  <2> HIDE DEF g
  <2> QED
    BY <2>2, <2>3 DEF Sums, n
<1>11. SumOf(s) = g[n]
  <2>1. n \in 0..n
    BY <1>1
  <2> HIDE DEF n
  <2> QED
    BY <1>1, <1>2, <2>1
<1> HIDE DEF g
<1> QED
  BY <1>10, <1>11 DEF n

(* The sum of a sequence is the last of its partial sums.                  *)
LEMMA SumIs ==
    ASSUME NEW s \in Seq(Int), NEW g, Sums(g, s)
    PROVE  SumOf(s) = g[Len(s)] /\ SumOf(s) \in Int
<1>1. PICK h : Sums(h, s) /\ SumOf(s) = h[Len(s)]
  BY Summed
<1>2. g[Len(s)] = h[Len(s)]
  BY <1>1, SumUnique
<1>3. Len(s) \in 0..Len(s)
  OBVIOUS
<1>4. g[Len(s)] \in Int
  BY <1>3, SumTyped
<1> QED
  BY <1>1, <1>2, <1>4

LEMMA SumAppend ==
    ASSUME NEW s \in Seq(Int), NEW t \in Seq(Int)
    PROVE  SumOf(s \o t) = SumOf(s) + SumOf(t) /\ SumOf(s) \in Int /\ SumOf(t) \in Int
<1> DEFINE n == Len(s)  m == Len(t)  u == s \o t
<1>1. /\ u \in Seq(Int) /\ Len(u) = n + m /\ n \in Nat /\ m \in Nat
      /\ \A i \in 1..n : u[i] = s[i]
      /\ \A i \in 1..m : u[n + i] = t[i]
      /\ \A i \in 1..Len(u) : i \in 1..n \/ (i - n \in 1..m /\ i = n + (i - n))
  BY AppendParts
<1>2. PICK g : Sums(g, s) /\ SumOf(s) = g[n]
  BY Summed
<1>3. PICK h : Sums(h, t) /\ SumOf(t) = h[m]
  BY Summed
<1>4. /\ g[0] = 0 /\ \A k \in 1..n : g[k] = g[k - 1] + s[k]
      /\ h[0] = 0 /\ \A k \in 1..m : h[k] = h[k - 1] + t[k]
  BY <1>2, <1>3 DEF Sums
<1>5. /\ \A k \in 0..n : g[k] \in Int
      /\ \A k \in 0..m : h[k] \in Int
      /\ \A k \in 1..m : t[k] \in Int
  BY <1>2, <1>3, SumTyped
<1> HIDE DEF n, m, u
<1> DEFINE f == [k \in 0..(n + m) |-> IF k <= n THEN g[k] ELSE g[n] + h[k - n]]
<1>6. f[0] = 0 /\ f[n + m] = g[n] + h[m]
  <2>1. f[0] = g[0]
    BY <1>1
  <2>2. CASE m = 0
    <3>1. f[n + m] = g[n] /\ h[m] = 0 /\ g[n] \in Int
      BY <1>1, <1>4, <1>5, <2>2
    <3> HIDE DEF f
    <3> QED
      BY <1>4, <2>1, <3>1
  <2>3. CASE m # 0
    <3>1. n + m \in 0..(n + m) /\ ~(n + m <= n) /\ (n + m) - n = m
      BY <1>1, <2>3
    <3> QED
      BY <1>4, <2>1, <3>1
  <2> QED
    BY <2>2, <2>3
<1>7. ASSUME NEW k \in 1..(n + m) PROVE f[k] = f[k - 1] + u[k]
  <2>1. k \in 0..(n + m) /\ k - 1 \in 0..(n + m) /\ k \in 1..Len(u)
    BY <1>1
  <2>2. CASE k \in 1..n
    <3>1. k <= n /\ k - 1 <= n /\ u[k] = s[k] /\ g[k] = g[k - 1] + s[k]
      BY <1>1, <1>4, <2>2
    <3> QED
      BY <2>1, <3>1
  <2>3. CASE k \notin 1..n
    <3>1. k - n \in 1..m /\ k = n + (k - n) /\ ~(k <= n) /\ k - n \in 0..m /\ (k - n) - 1 \in 0..m
      BY <1>1, <2>1, <2>3
    <3>2. u[k] = t[k - n] /\ h[k - n] = h[(k - n) - 1] + t[k - n]
      BY <1>1, <1>4, <3>1
    <3>3. f[k] = g[n] + h[k - n]
      BY <2>1, <3>1
    <3>4. f[k - 1] = g[n] + h[(k - n) - 1]
      <4>1. CASE k - 1 <= n
        <5>1. k - 1 = n /\ (k - n) - 1 = 0
          BY <1>1, <2>1, <3>1, <4>1
        <5>2. f[k - 1] = g[n]
          BY <2>1, <5>1
        <5>3. g[n] \in Int
          BY <1>1, <1>5
        <5> HIDE DEF f
        <5> QED
          BY <1>4, <5>1, <5>2, <5>3
      <4>2. CASE ~(k - 1 <= n)
        <5>1. (k - 1) - n = (k - n) - 1
          BY <1>1, <2>1
        <5> QED
          BY <2>1, <4>2, <5>1
      <4> QED
        BY <4>1, <4>2
    <3>5. g[n] \in Int /\ h[(k - n) - 1] \in Int /\ t[k - n] \in Int
      BY <1>1, <1>5, <3>1
    <3> HIDE DEF f
    <3> QED
      BY <3>2, <3>3, <3>4, <3>5
  <2> QED
    BY <2>2, <2>3
<1>8. Sums(f, u)
  <2> HIDE DEF f
  <2> QED
    BY <1>1, <1>6, <1>7 DEF Sums
<1>9. SumOf(u) = f[n + m]
  <2> HIDE DEF f
  <2>1. SumOf(u) = f[Len(u)]
    BY <1>1, <1>8, SumIs
  <2> QED
    BY <1>1, <2>1
<1>10. g[n] \in Int /\ h[m] \in Int
  BY <1>1, <1>5
<1> HIDE DEF f
<1> QED
  BY <1>2, <1>3, <1>6, <1>9, <1>10 DEF u

-----------------------------------------------------------------------------
(* The latencies that are configured.                                      *)
LatenciesOf(s) == [i \in 1..Len(s) |-> IF s[i].kind = "ConfigureSPM" THEN s[i].cycles ELSE 0]

LEMMA Joined ==
    ASSUME NEW a \in Seq(Int), NEW b \in Seq(Int)
    PROVE  a \o b \in Seq(Int) /\ Len(a \o b) = Len(a) + Len(b)
OBVIOUS

LEMMA SameSequence ==
    ASSUME NEW a \in Seq(Int), NEW b \in Seq(Int), Len(a) = Len(b),
           \A i \in 1..Len(a) : a[i] = b[i]
    PROVE  a = b
OBVIOUS

LEMMA CyclesAre ==
    ASSUME NEW id, NEW s \in Seq(TokenOp(id))
    PROVE  /\ CyclesConfigured(s) = SumOf(LatenciesOf(s)) /\ LatenciesOf(s) \in Seq(Int)
           /\ Len(LatenciesOf(s)) = Len(s)
<1>1. CyclesConfigured(s) = SumOf(LatenciesOf(s))
  BY Zenon DEF CyclesConfigured, LatenciesOf
<1>2. \A i \in 1..Len(s) : s[i].cycles \in Int
  <2>1. \A x \in TokenOp(id) : x.cycles \in Int
    BY DEF TokenOp
  <2> DEFINE X == TokenOp(id)
  <2> HIDE DEF X
  <2>2. \A i \in 1..Len(s) : s[i] \in X
    BY DEF X
  <2> QED
    BY <2>1, <2>2 DEF X
<1>3. Len(s) \in Nat
  OBVIOUS
<1>4. LatenciesOf(s) \in Seq(Int) /\ Len(LatenciesOf(s)) = Len(s)
  BY <1>2, <1>3 DEF LatenciesOf
<1> QED
  BY <1>1, <1>4

LEMMA CyclesAppend ==
    ASSUME NEW id, NEW s \in Seq(TokenOp(id)), NEW t \in Seq(TokenOp(id))
    PROVE  /\ CyclesConfigured(s \o t) = CyclesConfigured(s) + CyclesConfigured(t)
           /\ CyclesConfigured(s) \in Int /\ CyclesConfigured(t) \in Int
<1> DEFINE X == TokenOp(id)  a == LatenciesOf(s)  b == LatenciesOf(t)  u == s \o t
           c == LatenciesOf(u)
<1>1. /\ u \in Seq(X) /\ Len(u) = Len(s) + Len(t) /\ Len(s) \in Nat /\ Len(t) \in Nat
      /\ \A i \in 1..Len(s) : u[i] = s[i]
      /\ \A i \in 1..Len(t) : u[Len(s) + i] = t[i]
      /\ \A i \in 1..Len(u) : i \in 1..Len(s) \/ (i - Len(s) \in 1..Len(t) /\ i = Len(s) + (i - Len(s)))
  <2> HIDE DEF X
  <2>1. s \in Seq(X) /\ t \in Seq(X)
    BY DEF X
  <2> QED
    BY <2>1
<1>2. /\ CyclesConfigured(s) = SumOf(a) /\ a \in Seq(Int) /\ Len(a) = Len(s)
      /\ CyclesConfigured(t) = SumOf(b) /\ b \in Seq(Int) /\ Len(b) = Len(t)
  BY CyclesAre
<1>3. CyclesConfigured(u) = SumOf(c) /\ c \in Seq(Int) /\ Len(c) = Len(u)
  <2> HIDE DEF u
  <2> QED
    BY <1>1, CyclesAre
<1>4. ASSUME NEW i \in 1..Len(u) PROVE c[i] = (a \o b)[i]
  <2>1. c[i] = IF u[i].kind = "ConfigureSPM" THEN u[i].cycles ELSE 0
    BY DEF LatenciesOf
  <2>2. CASE i \in 1..Len(s)
    <3>1. u[i] = s[i] /\ a[i] = IF s[i].kind = "ConfigureSPM" THEN s[i].cycles ELSE 0
      BY <1>1, <2>2 DEF LatenciesOf
    <3> HIDE DEF a, b, c, u
    <3>2. (a \o b)[i] = a[i]
      BY <1>2, <2>2
    <3> QED
      BY <2>1, <3>1, <3>2
  <2>3. CASE i \notin 1..Len(s)
    <3> DEFINE j == i - Len(s)
    <3>1. j \in 1..Len(t) /\ i = Len(s) + j
      BY <1>1, <2>3
    <3>2. u[i] = t[j] /\ b[j] = IF t[j].kind = "ConfigureSPM" THEN t[j].cycles ELSE 0
      BY <1>1, <3>1 DEF LatenciesOf
    <3> HIDE DEF a, b, c, u, j
    <3>3. (a \o b)[i] = b[j]
      BY <1>1, <1>2, <3>1
    <3> QED
      BY <2>1, <3>2, <3>3
  <2> QED
    BY <2>2, <2>3
<1> HIDE DEF a, b, c, u
<1>5. c = a \o b
  <2>1. a \o b \in Seq(Int) /\ Len(a \o b) = Len(c)
    <3>1. a \o b \in Seq(Int) /\ Len(a \o b) = Len(a) + Len(b)
      BY <1>2, Joined
    <3> QED
      BY <1>1, <1>2, <1>3, <3>1
  <2> DEFINE d == a \o b
  <2> HIDE DEF d
  <2>2. \A i \in 1..Len(c) : c[i] = d[i]
    BY <1>3, <1>4 DEF d
  <2>3. d \in Seq(Int) /\ c \in Seq(Int) /\ Len(d) = Len(c)
    BY <1>3, <2>1 DEF d
  <2>4. c = d
    BY <2>2, <2>3, SameSequence
  <2> QED
    BY <2>4 DEF d
<1>6. SumOf(a \o b) = SumOf(a) + SumOf(b) /\ SumOf(a) \in Int /\ SumOf(b) \in Int
  BY <1>2, SumAppend
<1> QED
  BY <1>2, <1>3, <1>5, <1>6 DEF u

LEMMA NoCycles ==
    ASSUME NEW id, NEW s \in Seq(TokenOp(id)), \A i \in 1..Len(s) : s[i].kind # "ConfigureSPM"
    PROVE  CyclesConfigured(s) = 0
<1> DEFINE a == LatenciesOf(s)  g == [k \in 0..Len(s) |-> 0]
<1>1. CyclesConfigured(s) = SumOf(a) /\ a \in Seq(Int) /\ Len(a) = Len(s) /\ Len(s) \in Nat
  BY CyclesAre
<1>2. \A k \in 1..Len(s) : a[k] = 0
  BY DEF LatenciesOf
<1>3. \A k \in 0..Len(s) : g[k] = 0
  OBVIOUS
<1> HIDE DEF a, g
<1>4. Sums(g, a)
  BY <1>1, <1>2, <1>3 DEF Sums
<1>5. SumOf(a) = g[Len(a)]
  BY <1>1, <1>4, SumIs
<1> QED
  BY <1>1, <1>3, <1>5

LEMMA OneCycles ==
    ASSUME NEW id, NEW op \in TokenOp(id), op.kind = "ConfigureSPM"
    PROVE  CyclesConfigured(<<op>>) = op.cycles
<1> DEFINE s == <<op>>  a == LatenciesOf(s)  g == [k \in 0..1 |-> IF k = 0 THEN 0 ELSE op.cycles]
<1>1. s \in Seq(TokenOp(id)) /\ Len(s) = 1 /\ s[1] = op /\ op.cycles \in Int
  BY DEF TokenOp
<1> HIDE DEF s
<1>2. CyclesConfigured(s) = SumOf(a) /\ a \in Seq(Int) /\ Len(a) = 1
  BY <1>1, CyclesAre
<1>3. a[1] = op.cycles
  BY <1>1 DEF LatenciesOf
<1>4. g[0] = 0 /\ g[1] = op.cycles
  OBVIOUS
<1> HIDE DEF a, g
<1>5. Sums(g, a)
  BY <1>1, <1>2, <1>3, <1>4 DEF Sums
<1>6. SumOf(a) = g[1]
  BY <1>2, <1>5, SumIs
<1> QED
  BY <1>2, <1>4, <1>6 DEF s

(* The latencies of a concatenation, part by part: v[k] after k parts.     *)
LEMMA FlattenCycles ==
    ASSUME NEW id, NEW q \in Seq(Seq(TokenOp(id))), NEW v,
           v[0] = 0, \A k \in 1..Len(q) : v[k] = v[k - 1] + CyclesConfigured(q[k])
    PROVE  CyclesConfigured(FlattenSeq(q)) = v[Len(q)]
<1> DEFINE X == TokenOp(id)
<1>1. CASE q = <<>>
  <2>1. Len(q) = 0 /\ FlattenSeq(q) = q
    BY <1>1 DEF FlattenSeq
  <2>2. CyclesConfigured(q) = 0
    <3>1. q \in Seq(X)
      BY <1>1
    <3>2. \A i \in 1..Len(q) : q[i].kind # "ConfigureSPM"
      BY <2>1
    <3> QED
      BY <3>1, <3>2, NoCycles
  <2> QED
    BY <2>1, <2>2
<1>2. CASE q # <<>>
  <2> HIDE DEF X
  <2>0. q \in Seq(Seq(X))
    BY DEF X
  <2>1. PICK f : /\ f[1] = q[1]
                 /\ \A i \in 2..Len(q) : f[i] = f[i - 1] \o q[i]
                 /\ FlattenSeq(q) = f[Len(q)]
    BY <1>2, <2>0, Flattens
  <2> DEFINE n == Len(q)
             T == {k \in 1..n : f[k] \in Seq(X) /\ CyclesConfigured(f[k]) = v[k]}
  <2>2. n \in Nat /\ n > 0 /\ \A k \in 1..n : q[k] \in Seq(X)
    BY <1>2, <2>0
  <2>3. 1 \in T
    <3>1. 1 \in 1..n /\ f[1] = q[1] /\ q[1] \in Seq(X)
      BY <2>1, <2>2
    <3>2. v[1] = v[1 - 1] + CyclesConfigured(q[1]) /\ CyclesConfigured(q[1]) \in Int
      BY <3>1, CyclesAppend DEF X
    <3>3. v[1] = CyclesConfigured(q[1])
      BY <3>2
    <3> QED
      BY <3>1, <3>3
  <2>4. ASSUME NEW k \in 1..(n - 1), k \in T PROVE k + 1 \in T
    <3>1. k + 1 \in 2..Len(q) /\ (k + 1) - 1 = k /\ k + 1 \in 1..n
      BY <2>2
    <3>2. /\ f[k + 1] = f[k] \o q[k + 1] /\ f[k] \in Seq(X) /\ q[k + 1] \in Seq(X)
          /\ CyclesConfigured(f[k]) = v[k]
      BY <2>1, <2>2, <2>4, <3>1
    <3>3. CyclesConfigured(f[k + 1]) = CyclesConfigured(f[k]) + CyclesConfigured(q[k + 1])
      BY <3>2, CyclesAppend DEF X
    <3>4. v[k + 1] = v[k] + CyclesConfigured(q[k + 1])
      BY <3>1
    <3>5. f[k + 1] \in Seq(X)
      BY <3>2
    <3> QED
      BY <3>1, <3>2, <3>3, <3>4, <3>5
  <2>5. \A k \in 1..n : k \in T
    <3> HIDE DEF T, n
    <3> QED
      BY <2>2, <2>3, <2>4, UpTo
  <2>6. n \in 1..n
    BY <2>2
  <2> QED
    BY <2>1, <2>5, <2>6
<1> QED
  BY <1>1, <1>2

-----------------------------------------------------------------------------
(* The SPMs and the latencies, by the places they have in a sequence.      *)
Between(S, k, i) == k < i /\ \A j \in k + 1..i - 1 : j \notin S
PairedIn(A, B) ==
    /\ \A i \in A : \E k \in B : Between(A \cup B, k, i)
    /\ \A k \in B : \E i \in A : Between(A \cup B, k, i)
Paired(ops) == PairedIn(CommandsIn(ops, "SPM"), ConfiguresIn(ops))

LEMMA PairedJoin ==
    ASSUME NEW n \in Nat, NEW m \in Nat, NEW A \in SUBSET (1..n), NEW B \in SUBSET (1..n),
           NEW C \in SUBSET (1..m), NEW D \in SUBSET (1..m), PairedIn(A, B), PairedIn(C, D)
    PROVE  PairedIn(A \cup {n + j : j \in C}, B \cup {n + j : j \in D})
<1> DEFINE E == A \cup {n + j : j \in C}  F == B \cup {n + j : j \in D}  U == E \cup F
<1>1. /\ \A j \in 1..n : j \in U <=> j \in A \cup B
      /\ \A j \in 1..m : n + j \in U <=> j \in C \cup D
      /\ \A j \in A : j \in E
      /\ \A j \in B : j \in F
      /\ \A j \in C : n + j \in E
      /\ \A j \in D : n + j \in F
  OBVIOUS
<1>2. ASSUME NEW k \in 1..n, NEW i \in 1..n, Between(A \cup B, k, i) PROVE Between(U, k, i)
  <2>1. \A j \in k + 1..i - 1 : j \in 1..n /\ j \notin A \cup B
    BY <1>2 DEF Between
  <2> HIDE DEF U
  <2>2. \A j \in k + 1..i - 1 : j \notin U
    BY <1>1, <2>1
  <2> QED
    BY <1>2, <2>2 DEF Between
<1>3. ASSUME NEW k \in 1..m, NEW i \in 1..m, Between(C \cup D, k, i)
      PROVE  Between(U, n + k, n + i)
  <2>1. \A j \in k + 1..i - 1 : j \in 1..m /\ j \notin C \cup D
    BY <1>3 DEF Between
  <2>2. \A j \in n + k + 1..n + i - 1 : j - n \in k + 1..i - 1 /\ j = n + (j - n)
    OBVIOUS
  <2> HIDE DEF U
  <2>3. \A j \in n + k + 1..n + i - 1 : j \notin U
    <3> TAKE j \in n + k + 1..n + i - 1
    <3> DEFINE x == j - n
    <3>1. x \in k + 1..i - 1 /\ j = n + x
      BY <2>2
    <3> HIDE DEF x
    <3> QED
      BY <1>1, <2>1, <3>1
  <2> QED
    BY <1>3, <2>3 DEF Between
<1>4. ASSUME NEW i \in E PROVE \E k \in F : Between(U, k, i)
  <2>1. CASE i \in A
    <3>1. PICK k \in B : Between(A \cup B, k, i)
      BY <2>1 DEF PairedIn
    <3> QED
      BY <1>1, <1>2, <2>1, <3>1
  <2>2. CASE i \notin A
    <3>1. PICK x \in C : i = n + x
      BY <1>4, <2>2
    <3>2. PICK k \in D : Between(C \cup D, k, x)
      BY <3>1 DEF PairedIn
    <3> QED
      BY <1>1, <1>3, <3>1, <3>2
  <2> QED
    BY <2>1, <2>2
<1>5. ASSUME NEW k \in F PROVE \E i \in E : Between(U, k, i)
  <2>1. CASE k \in B
    <3>1. PICK i \in A : Between(A \cup B, k, i)
      BY <2>1 DEF PairedIn
    <3> QED
      BY <1>1, <1>2, <2>1, <3>1
  <2>2. CASE k \notin B
    <3>1. PICK x \in D : k = n + x
      BY <1>5, <2>2
    <3>2. PICK i \in C : Between(C \cup D, x, i)
      BY <3>1 DEF PairedIn
    <3> QED
      BY <1>1, <1>3, <3>1, <3>2
  <2> QED
    BY <2>1, <2>2
<1> HIDE DEF E, F
<1>6. PairedIn(E, F)
  BY <1>4, <1>5 DEF PairedIn
<1> QED
  BY <1>6 DEF E, F

LEMMA PairedAppend ==
    ASSUME NEW X, NEW s \in Seq(X), NEW t \in Seq(X), Paired(s), Paired(t)
    PROVE  Paired(s \o t)
<1> DEFINE u == s \o t  n == Len(s)  m == Len(t)
           A == CommandsIn(s, "SPM")  B == ConfiguresIn(s)
           C == CommandsIn(t, "SPM")  D == ConfiguresIn(t)
<1>1. /\ Len(u) = n + m /\ n \in Nat /\ m \in Nat
      /\ \A i \in 1..n : u[i] = s[i]
      /\ \A i \in 1..m : u[n + i] = t[i]
      /\ \A i \in 1..Len(u) : i \in 1..n \/ (i - n \in 1..m /\ i = n + (i - n))
  BY AppendParts
<1>2. A \in SUBSET (1..n) /\ B \in SUBSET (1..n) /\ C \in SUBSET (1..m) /\ D \in SUBSET (1..m)
  BY DEF CommandsIn, ConfiguresIn
<1> HIDE DEF u
<1>3. CommandsIn(u, "SPM") = A \cup {n + j : j \in C}
  <2>1. \A j \in 1..m : n + j \in 1..Len(u)
    BY <1>1
  <2>2. \A i \in 1..n : i \in 1..Len(u)
    BY <1>1
  <2> HIDE DEF n, m
  <2>3. ASSUME NEW i \in CommandsIn(u, "SPM") PROVE i \in A \cup {n + j : j \in C}
    <3>1. i \in 1..Len(u) /\ u[i].kind = "Command" /\ u[i].command = "SPM"
      BY DEF CommandsIn
    <3>2. CASE i \in 1..n
      BY <1>1, <3>1, <3>2 DEF CommandsIn, n
    <3>3. CASE i \notin 1..n
      <4> DEFINE x == i - n
      <4>1. x \in 1..m /\ i = n + x
        BY <1>1, <3>1, <3>3
      <4> HIDE DEF x
      <4>2. x \in C
        BY <1>1, <3>1, <4>1 DEF CommandsIn, m
      <4> QED
        BY <4>1, <4>2
    <3> QED
      BY <3>2, <3>3
  <2>4. ASSUME NEW i \in A PROVE i \in CommandsIn(u, "SPM")
    BY <1>1, <1>2, <2>2 DEF CommandsIn
  <2>5. ASSUME NEW j \in C PROVE n + j \in CommandsIn(u, "SPM")
    BY <1>1, <1>2, <2>1 DEF CommandsIn
  <2> QED
    BY <2>3, <2>4, <2>5
<1>4. ConfiguresIn(u) = B \cup {n + j : j \in D}
  <2>1. \A j \in 1..m : n + j \in 1..Len(u)
    BY <1>1
  <2>2. \A i \in 1..n : i \in 1..Len(u)
    BY <1>1
  <2> HIDE DEF n, m
  <2>3. ASSUME NEW i \in ConfiguresIn(u) PROVE i \in B \cup {n + j : j \in D}
    <3>1. i \in 1..Len(u) /\ u[i].kind = "ConfigureSPM"
      BY DEF ConfiguresIn
    <3>2. CASE i \in 1..n
      BY <1>1, <3>1, <3>2 DEF ConfiguresIn, n
    <3>3. CASE i \notin 1..n
      <4> DEFINE x == i - n
      <4>1. x \in 1..m /\ i = n + x
        BY <1>1, <3>1, <3>3
      <4> HIDE DEF x
      <4>2. x \in D
        BY <1>1, <3>1, <4>1 DEF ConfiguresIn, m
      <4> QED
        BY <4>1, <4>2
    <3> QED
      BY <3>2, <3>3
  <2>4. ASSUME NEW i \in B PROVE i \in ConfiguresIn(u)
    BY <1>1, <1>2, <2>2 DEF ConfiguresIn
  <2>5. ASSUME NEW j \in D PROVE n + j \in ConfiguresIn(u)
    BY <1>1, <1>2, <2>1 DEF ConfiguresIn
  <2> QED
    BY <2>3, <2>4, <2>5
<1>5. PairedIn(A \cup {n + j : j \in C}, B \cup {n + j : j \in D})
  <2>1. PairedIn(A, B) /\ PairedIn(C, D)
    BY DEF Paired
  <2> HIDE DEF A, B, C, D, n, m
  <2> QED
    BY <1>1, <1>2, <2>1, PairedJoin
<1> QED
  BY <1>3, <1>4, <1>5 DEF Paired, u

LEMMA PairedNothing ==
    ASSUME NEW s, \A i \in 1..Len(s) : s[i].command # "SPM" /\ s[i].kind # "ConfigureSPM"
    PROVE  Paired(s)
<1>1. CommandsIn(s, "SPM") = {} /\ ConfiguresIn(s) = {}
  BY DEF CommandsIn, ConfiguresIn
<1> QED
  BY <1>1 DEF Paired, PairedIn

LEMMA PairedRow ==
    ASSUME NEW id, NEW row \in OpAddr, NEW voc \in Int
    PROVE  Paired(PvRow(row, voc))
<1> DEFINE X == TokenOp(id)  flag == Cfg.enable_act_spm_pre  s == PvRow(row, voc)
           a == If(flag, PerBank("ACT", row))
           z == If(flag, PerBank("PRE", row))
<1>1. PICK set \in X, op \in X :
         /\ s = <<set>> \o (a \o <<op>> \o z)
         /\ set.kind = "ConfigureSPM" /\ set.command = "none"
         /\ op.kind = "Command" /\ op.command = "SPM"
  <2>1. PvRowMade(id, row, s)
    BY PvRowParts
  <2> HIDE DEF s
  <2> QED
    BY <2>1, Zenon DEF PvRowMade
<1> DEFINE Y == {x \in X : x.kind = "Command" /\ x.command # "SPM"}
<1>2. a \in Seq(Y) /\ z \in Seq(Y)
  <2>1. a \in Seq(QkOp(id) \cap PvOp(id)) /\ z \in Seq(QkOp(id) \cap PvOp(id))
    BY PerBankOps
  <2>2. QkOp(id) \cap PvOp(id) \in SUBSET Y
    BY DEF QkOp, PvOp
  <2> DEFINE R == QkOp(id) \cap PvOp(id)
  <2> HIDE DEF a, z, Y, R
  <2>3. a \in Seq(R) /\ z \in Seq(R) /\ R \in SUBSET Y
    BY <2>1, <2>2 DEF R
  <2> QED
    BY <2>3
<1>3. /\ \A i \in 1..Len(a) : a[i].kind = "Command" /\ a[i].command # "SPM"
      /\ \A i \in 1..Len(z) : z[i].kind = "Command" /\ z[i].command # "SPM"
  <2>1. \A x \in Y : x.kind = "Command" /\ x.command # "SPM"
    OBVIOUS
  <2>2. (\A i \in 1..Len(a) : a[i] \in Y) /\ (\A i \in 1..Len(z) : z[i] \in Y)
    BY <1>2, ElementOfSeq
  <2> HIDE DEF Y
  <2> QED
    BY <2>1, <2>2
<1> HIDE DEF a, z, s, X
<1> DEFINE n == Len(a)
<1>4. Len(a) \in Nat /\ Len(z) \in Nat
  BY <1>2
<1>5. /\ Len(s) = n + 2 + Len(z) /\ s[1] = set /\ s[n + 2] = op
      /\ \A j \in 1..n : s[j + 1] = a[j]
      /\ \A j \in 1..Len(z) : s[n + 2 + j] = z[j]
  <2>1. a \in Seq(X) /\ z \in Seq(X)
    BY <1>2
  <2> QED
    BY <1>1, <2>1
<1> HIDE DEF n
<1>6. \A j \in 1..Len(s) : \/ j = 1 \/ j = n + 2
                           \/ j - 1 \in 1..n /\ j = (j - 1) + 1
                           \/ j - n - 2 \in 1..Len(z) /\ j = n + 2 + (j - n - 2)
  BY <1>4, <1>5 DEF n
<1>7. \A j \in 1..Len(s) : j # 1 /\ j # n + 2 => s[j].kind = "Command" /\ s[j].command # "SPM"
  <2> TAKE j \in 1..Len(s)
  <2> HAVE j # 1 /\ j # n + 2
  <2> DEFINE x == j - 1  y == j - n - 2
  <2>1. (x \in 1..n /\ j = x + 1) \/ (y \in 1..Len(z) /\ j = n + 2 + y)
    BY <1>6
  <2> HIDE DEF x, y
  <2>2. CASE x \in 1..n /\ j = x + 1
    BY <1>3, <1>5, <2>2 DEF n
  <2>3. CASE y \in 1..Len(z) /\ j = n + 2 + y
    BY <1>3, <1>5, <2>3
  <2> QED
    BY <2>1, <2>2, <2>3
<1>8. CommandsIn(s, "SPM") = {n + 2} /\ ConfiguresIn(s) = {1}
  <2>1. n + 2 \in 1..Len(s) /\ 1 \in 1..Len(s) /\ n + 2 # 1
    BY <1>4, <1>5 DEF n
  <2> DEFINE len == Len(s)
  <2> HIDE DEF n, len
  <2>2. /\ s[1].kind = "ConfigureSPM" /\ s[n + 2].kind = "Command" /\ s[n + 2].command = "SPM"
        /\ \A j \in 1..len : j # 1 /\ j # n + 2 => s[j].kind = "Command" /\ s[j].command # "SPM"
    BY <1>1, <1>5, <1>7 DEF len
  <2>3. n + 2 \in 1..len /\ 1 \in 1..len /\ n + 2 # 1
    BY <2>1 DEF len
  <2>4. {j \in 1..len : s[j].kind = "Command" /\ s[j].command = "SPM"} = {n + 2}
    BY <2>2, <2>3
  <2>5. {j \in 1..len : s[j].kind = "ConfigureSPM"} = {1}
    BY <2>2, <2>3
  <2> QED
    BY <2>4, <2>5, Zenon DEF CommandsIn, ConfiguresIn, len
<1>9. Between({n + 2} \cup {1}, 1, n + 2)
  BY <1>4 DEF Between, n
<1> QED
  BY <1>8, <1>9 DEF Paired, PairedIn, s

(* The latencies of the sparse PV stage.                                   *)
LEMMA PvRowCycles ==
    ASSUME NEW id, NEW row \in OpAddr, NEW voc \in Int
    PROVE  CyclesConfigured(PvRow(row, voc)) = SpmLatency(voc)
<1> DEFINE X == TokenOp(id)  flag == Cfg.enable_act_spm_pre
           set == ConfigureSpmOp(SpmLatency(voc))
           op == CommandOp("SPM", AllBanks(row))
           a == If(flag, PerBank("ACT", row))
           z == If(flag, PerBank("PRE", row))
           c == <<set>>
           m == <<op>>
           b == a \o m \o z
<1>1. SpmLatency(voc) \in Int
  BY SpmLatencyInt
<1>2. set \in X /\ set.kind = "ConfigureSPM" /\ set.cycles = SpmLatency(voc)
  BY <1>1, SpecialOps DEF ConfigureSpmOp
<1>3. op \in X /\ op.kind = "Command"
  BY AddrTypes, CommandType
<1>4. PvRow(row, voc) = c \o a \o m \o z
  BY Zenon DEF PvRow
<1> DEFINE Y == {x \in X : x.kind = "Command"}
<1>5. a \in Seq(Y) /\ z \in Seq(Y)
  <2>1. a \in Seq(QkOp(id) \cap PvOp(id)) /\ z \in Seq(QkOp(id) \cap PvOp(id))
    BY PerBankOps
  <2>2. QkOp(id) \cap PvOp(id) \in SUBSET Y
    BY DEF QkOp, PvOp
  <2> DEFINE R == QkOp(id) \cap PvOp(id)
  <2> HIDE DEF a, z, Y, R
  <2>3. a \in Seq(R) /\ z \in Seq(R) /\ R \in SUBSET Y
    BY <2>1, <2>2 DEF R
  <2> QED
    BY <2>3
<1>6. op \in Y /\ Y \in SUBSET X /\ \A x \in Y : x.kind = "Command"
  BY <1>3
<1> HIDE DEF a, z, X, Y, set, op
<1>7. c \in Seq(X) /\ b \in Seq(Y) /\ b \in Seq(X)
  BY <1>2, <1>5, <1>6
<1>8. c \o a \o m \o z = c \o b
  BY <1>2, <1>5, <1>6
<1> HIDE DEF b
<1>9. \A i \in 1..Len(b) : b[i].kind # "ConfigureSPM"
  BY <1>6, <1>7, ElementOfSeq
<1>10. CyclesConfigured(b) = 0
  BY <1>7, <1>9, NoCycles DEF X
<1>11. CyclesConfigured(c) = SpmLatency(voc)
  BY <1>2, OneCycles DEF X
<1> HIDE DEF c
<1>12. CyclesConfigured(c \o b) = CyclesConfigured(c) + CyclesConfigured(b)
  BY <1>7, CyclesAppend DEF X
<1>13. CyclesConfigured(c \o b) = SpmLatency(voc)
  <2> DEFINE x == CyclesConfigured(c)  y == CyclesConfigured(b)  w == CyclesConfigured(c \o b)
             r == SpmLatency(voc)
  <2>1. w = x + y /\ x = r /\ y = 0 /\ r \in Int
    BY <1>1, <1>10, <1>11, <1>12
  <2> HIDE DEF x, y, w, r
  <2>2. w = r
    BY <2>1
  <2> QED
    BY <2>2 DEF w, r
<1>14. PvRow(row, voc) = c \o b
  BY <1>4, <1>8 DEF m
<1> QED
  BY <1>13, <1>14

LEMMA PvStageLatencies ==
    ASSUME NEW id, NEW base \in OpAddr, NEW maxVoc \in Int, Cfg.enable_esdm
    PROVE  /\ CyclesConfigured(PvStage(base, maxVoc)) = SpmCyclesOf(PvChunks(maxVoc))
           /\ Paired(PvStage(base, maxVoc))
<1> DEFINE X == TokenOp(id)
           start == Cfg.v_col_start
           off == Cfg.v_row_offset
           c == Chunks(start, maxVoc)
           n == Len(c)
           One(chunk) == PvRow(EsdmAddr(base, off, start + chunk.first), chunk.len)
           q == [k \in 1..n |-> One(c[k])]
           l == [k \in 1..n |-> SpmLatency(c[k].len)]
<1>1. start \in Int /\ off \in Int
  BY ConfigAssumption
<1>2. /\ n \in Nat
      /\ \A k \in 1..n : c[k].first \in Int /\ c[k].len \in Int
  <2>1. PassesEnd(c, start, maxVoc)
    BY <1>1, PassEnds
  <2> HIDE DEF c
  <2>2. n \in Nat /\ \A k \in 1..n : /\ c[k].first \in 0..(maxVoc - 1)
                                     /\ c[k].len \in 1..(maxVoc - c[k].first)
    BY <2>1, Zenon DEF PassesEnd
  <2> QED
    BY <2>2
<1>3. PvStage(base, maxVoc) = FlattenSeq(q)
  BY Zenon DEF PvStage, PvChunks
<1>4. SpmCyclesOf(PvChunks(maxVoc)) = SumOf(l)
  BY Zenon DEF SpmCyclesOf, PvChunks
<1> HIDE DEF c, n, start, off
<1>5. ASSUME NEW k \in 1..n
      PROVE  /\ CyclesConfigured(One(c[k])) = SpmLatency(c[k].len) /\ SpmLatency(c[k].len) \in Int
             /\ One(c[k]) \in Seq(X) /\ Paired(One(c[k]))
  <2> DEFINE row == EsdmAddr(base, off, start + c[k].first)  voc == c[k].len
  <2>1. row \in OpAddr
    <3>1. start + c[k].first \in Int
      BY <1>1, <1>2
    <3> QED
      BY <1>1, <3>1, EsdmAddrType
  <2>2. voc \in Int
    BY <1>2
  <2> HIDE DEF row, voc
  <2>3. CyclesConfigured(PvRow(row, voc)) = SpmLatency(voc) /\ SpmLatency(voc) \in Int
    BY <2>1, <2>2, PvRowCycles, SpmLatencyInt
  <2>4. PvRow(row, voc) \in Seq(X) /\ Paired(PvRow(row, voc))
    BY <2>1, <2>2, PvRowTidy, PairedRow DEF TidyOps
  <2> HIDE DEF X
  <2> QED
    BY <2>3, <2>4 DEF row, voc
<1> HIDE DEF X, One
<1>6. /\ q \in Seq(Seq(X)) /\ Len(q) = n
      /\ l \in Seq(Int) /\ Len(l) = n
      /\ \A k \in 1..n : CyclesConfigured(q[k]) = l[k] /\ Paired(q[k])
  <2>1. q \in Seq(Seq(X)) /\ Len(q) = n
    BY <1>2, <1>5
  <2>2. l \in Seq(Int) /\ Len(l) = n
    BY <1>2, <1>5
  <2>3. \A k \in 1..n : CyclesConfigured(q[k]) = l[k] /\ Paired(q[k])
    BY <1>5
  <2> QED
    BY <2>1, <2>2, <2>3
<1> HIDE DEF q, l
<1>7. CyclesConfigured(FlattenSeq(q)) = SumOf(l)
  <2>1. PICK g : Sums(g, l) /\ SumOf(l) = g[Len(l)]
    BY <1>6, Summed
  <2>2. g[0] = 0 /\ \A k \in 1..Len(q) : g[k] = g[k - 1] + CyclesConfigured(q[k])
    BY <1>6, <2>1 DEF Sums
  <2>3. CyclesConfigured(FlattenSeq(q)) = g[Len(q)]
    BY <1>6, <2>2, FlattenCycles DEF X
  <2> QED
    BY <1>6, <2>1, <2>3
<1>8. Paired(FlattenSeq(q))
  <2> DEFINE S == {s \in Seq(X) : Paired(s)}  e == <<>>
  <2>1. e \in S
    <3>1. e \in Seq(X) /\ Len(e) = 0
      OBVIOUS
    <3> HIDE DEF e
    <3>2. \A i \in 1..Len(e) : e[i].command # "SPM" /\ e[i].kind # "ConfigureSPM"
      BY <3>1
    <3> QED
      BY <3>1, <3>2, PairedNothing
  <2>2. \A a, b \in S : a \o b \in S
    <3> TAKE a, b \in S
    <3>1. a \in Seq(X) /\ b \in Seq(X) /\ Paired(a) /\ Paired(b)
      OBVIOUS
    <3>2. Paired(a \o b)
      BY <3>1, PairedAppend
    <3>3. a \o b \in Seq(X)
      BY <3>1
    <3> QED
      BY <3>2, <3>3
  <2>3. \A i \in 1..Len(q) : q[i] \in S
    <3> TAKE i \in 1..Len(q)
    <3>1. q[i] \in Seq(X)
      BY <1>6, ElementOfSeq
    <3> QED
      BY <1>6, <3>1
  <2>4. S \in SUBSET Seq(X)
    OBVIOUS
  <2> HIDE DEF S
  <2>5. FlattenSeq(q) \in S
    BY <1>6, <2>1, <2>2, <2>3, <2>4, FlattenKeeps DEF e
  <2> QED
    BY <2>5 DEF S
<1> QED
  BY <1>3, <1>4, <1>7, <1>8

LEMMA Linear ==
    ASSUME NEW f \in Nat, NEW p \in Nat, f + p > 0, NEW v \in Nat \ {0}
    PROVE  f + v * p >= 1 /\ v * p \in Nat
BY Z3

LEMMA SpmLatencyIs ==
    ASSUME Cfg.spm_fixed_cycles >= 0, Cfg.spm_cycles_per_voc >= 0,
           Cfg.spm_fixed_cycles + Cfg.spm_cycles_per_voc > 0, NEW voc \in Nat \ {0}
    PROVE  SpmLatency(voc) = Cfg.spm_fixed_cycles + voc * Cfg.spm_cycles_per_voc
<1> DEFINE f == Cfg.spm_fixed_cycles  p == Cfg.spm_cycles_per_voc  x == f + voc * p
<1>1. f \in Nat /\ p \in Nat /\ f + p > 0
  BY ConfigAssumption
<1> HIDE DEF f, p
<1>2. x >= 1 /\ x \in Int
  BY <1>1, Linear
<1>3. SpmLatency(voc) = AtLeast(1, x)
  BY DEF SpmLatency, f, p
<1> HIDE DEF x
<1>4. AtLeast(1, x) = x
  BY <1>2 DEF AtLeast
<1> QED
  BY <1>3, <1>4 DEF x, f, p

LEMMA Distributes ==
    ASSUME NEW a \in Int, NEW b \in Int, NEW p \in Int
    PROVE  (a + b) * p = a * p + b * p /\ a * p \in Int /\ b * p \in Int /\ 0 * p = 0
BY Z3

LEMMA LatenciesSum ==
    ASSUME Cfg.spm_fixed_cycles >= 0, Cfg.spm_cycles_per_voc >= 0,
           Cfg.spm_fixed_cycles + Cfg.spm_cycles_per_voc > 0, NEW maxVoc \in Nat
    PROVE  SpmCyclesOf(PvChunks(maxVoc)) = Len(PvChunks(maxVoc)) * Cfg.spm_fixed_cycles
                                             + maxVoc * Cfg.spm_cycles_per_voc
<1> DEFINE start == Cfg.v_col_start
           c == Chunks(start, maxVoc)
           n == Len(c)
           f == Cfg.spm_fixed_cycles
           p == Cfg.spm_cycles_per_voc
           l == [k \in 1..n |-> SpmLatency(c[k].len)]
           v == [k \in 0..n |-> k * f + End(c, k) * p]
<1>1. start \in Int /\ f \in Int /\ p \in Int /\ maxVoc \in Int
  BY ConfigAssumption
<1>2. /\ n \in Nat
      /\ \A k \in 1..n :
            /\ c[k].first \in 0..(maxVoc - 1)
            /\ c[k].len \in 1..(maxVoc - c[k].first)
            /\ End(c, k) \in Nat /\ End(c, k) = End(c, k - 1) + c[k].len
      /\ End(c, n) = AtLeast(0, maxVoc)
  <2>1. PassesEnd(c, start, maxVoc)
    BY <1>1, PassEnds
  <2> HIDE DEF c
  <2> QED
    BY <2>1, Zenon DEF PassesEnd
<1>3. SpmCyclesOf(PvChunks(maxVoc)) = SumOf(l)
  BY Zenon DEF SpmCyclesOf, PvChunks
<1> HIDE DEF c, n, start
<1>4. ASSUME NEW k \in 1..n
      PROVE  /\ SpmLatency(c[k].len) = f + c[k].len * p
             /\ SpmLatency(c[k].len) \in Int
             /\ c[k].len \in Nat /\ End(c, k - 1) \in Nat
  <2>1. c[k].len \in Nat \ {0}
    BY <1>2
  <2>2. SpmLatency(c[k].len) = f + c[k].len * p
    BY <2>1, SpmLatencyIs
  <2>3. SpmLatency(c[k].len) \in Int
    BY <2>1, SpmLatencyInt
  <2>4. End(c, k - 1) \in Nat
    <3>1. CASE k = 1
      BY <3>1 DEF End
    <3>2. CASE k # 1
      <4>1. k - 1 \in 1..n
        BY <1>2, <3>2
      <4> QED
        BY <1>2, <4>1
    <3> QED
      BY <3>1, <3>2
  <2> HIDE DEF f, p
  <2> QED
    BY <2>1, <2>2, <2>3, <2>4
<1>5. l \in Seq(Int) /\ Len(l) = n /\ \A k \in 1..n : l[k] = SpmLatency(c[k].len)
  BY <1>2, <1>4
<1> HIDE DEF l, f, p
<1>6. ASSUME NEW k \in 1..n PROVE v[k] = v[k - 1] + l[k]
  <2> DEFINE e == End(c, k - 1)  w == c[k].len
  <2>1. k \in 0..n /\ k - 1 \in 0..n /\ k = (k - 1) + 1 /\ k - 1 \in Int
    BY <1>2
  <2>2. e \in Int /\ w \in Int /\ End(c, k) = e + w /\ l[k] = f + w * p
    BY <1>2, <1>4, <1>5
  <2>3. v[k] = k * f + End(c, k) * p /\ v[k - 1] = (k - 1) * f + e * p
    BY <2>1
  <2> HIDE DEF v, e, w
  <2>4. (e + w) * p = e * p + w * p /\ e * p \in Int /\ w * p \in Int
    BY <1>1, <2>2, Distributes
  <2> DEFINE j == k - 1
  <2>5. j \in Int /\ 1 \in Int /\ k = j + 1
    BY <2>1
  <2> HIDE DEF j
  <2>6. (j + 1) * f = j * f + 1 * f /\ j * f \in Int /\ 1 * f = f
    BY <1>1, <2>5, Distributes
  <2> DEFINE jf == j * f  ep == e * p  wp == w * p
  <2>7. v[k] = jf + f + (ep + wp) /\ v[k - 1] = jf + ep /\ l[k] = f + wp
    <3>1. (k - 1) * f = jf
      BY DEF j
    <3>2. k * f = jf + f
      BY <2>5, <2>6
    <3>3. End(c, k) * p = ep + wp
      BY <2>2, <2>4
    <3> QED
      BY <2>2, <2>3, <3>1, <3>2, <3>3
  <2>8. jf \in Int /\ ep \in Int /\ wp \in Int
    BY <2>4, <2>6
  <2> HIDE DEF jf, ep, wp
  <2> QED
    BY <1>1, <2>7, <2>8
<1>7. v[0] = 0
  <2>1. 0 \in 0..n
    BY <1>2
  <2>2. 0 * f = 0 /\ 0 * p = 0
    BY <1>1, Distributes
  <2>3. End(c, 0) = 0
    BY DEF End
  <2>4. v[0] = 0 * f + End(c, 0) * p
    BY <2>1
  <2> QED
    BY <2>2, <2>3, <2>4
<1>8. v[n] = n * f + maxVoc * p
  <2>1. n \in 0..n /\ AtLeast(0, maxVoc) = maxVoc
    BY <1>2 DEF AtLeast
  <2>2. v[n] = n * f + End(c, n) * p
    BY <2>1
  <2> QED
    BY <1>2, <2>1, <2>2
<1>9. SumOf(l) = v[n]
  <2> HIDE DEF v
  <2>1. Sums(v, l)
    BY <1>5, <1>6, <1>7 DEF Sums
  <2> QED
    BY <1>5, <2>1, SumIs
<1> HIDE DEF v
<1> QED
  BY <1>3, <1>8, <1>9 DEF PvChunks, n, c, start, f, p

(* An operation sequence that has nothing to do with SPM.                  *)
Inert(id, s) ==
    /\ s \in Seq(TokenOp(id))
    /\ \A i \in 1..Len(s) : s[i].command # "SPM" /\ s[i].kind # "ConfigureSPM"

LEMMA InertAdds ==
    ASSUME NEW id, NEW s, Inert(id, s)
    PROVE  CyclesConfigured(s) = 0 /\ Paired(s) /\ Number(s, "SPM") = 0 /\ s \in Seq(TokenOp(id))
<1>1. s \in Seq(TokenOp(id))
  BY DEF Inert
<1>2. \A i \in 1..Len(s) : s[i].kind # "ConfigureSPM"
  BY DEF Inert
<1>3. \A i \in 1..Len(s) : s[i].command # "SPM"
  BY DEF Inert
<1>4. CyclesConfigured(s) = 0
  BY <1>1, <1>2, NoCycles
<1>5. Paired(s)
  BY <1>2, <1>3, PairedNothing
<1>6. Number(s, "SPM") = 0
  BY <1>1, <1>3, NumberNone
<1> QED
  BY <1>1, <1>4, <1>5, <1>6

LEMMA StagesInert ==
    ASSUME NEW id, NEW req, IsToken(req)
    PROVE  /\ Inert(id, QkStage(BaseAddr(req), MacCommands(req)))
           /\ Inert(id, ElemaxStage(BaseAddr(req)))
           /\ Inert(id, BgmuStage(VocSummary(req)))
           /\ Inert(id, AccStage(BaseAddr(req), AccCommands(req)))
           /\ Inert(id, <<CompleteOp(id)>>)
           /\ Inert(id, <<>>)
<1> DEFINE base == BaseAddr(req)
           X == TokenOp(id)
           a == QkStage(base, MacCommands(req))
           b == ElemaxStage(base)
           c == BgmuStage(VocSummary(req))
           q == AccStage(base, AccCommands(req))
           op == CompleteOp(id)
           e == <<op>>
           o == <<>>
<1>1. /\ base \in OpAddr /\ AccCommands(req) \in Int /\ MacCommands(req) \in Int
      /\ VocSummary(req).bgmu_reads \in Int
  BY BaseType, SummaryType
<1>2. Inert(id, a)
  <2> DEFINE Y == QkOp(id)
  <2>1. a \in Seq(Y)
    BY <1>1, QkStageOps
  <2>2. Y \in SUBSET X /\ \A x \in Y : x.command # "SPM" /\ x.kind # "ConfigureSPM"
    BY DEF QkOp
  <2> HIDE DEF a, X, Y
  <2>3. \A i \in 1..Len(a) : a[i].command # "SPM" /\ a[i].kind # "ConfigureSPM"
    BY <2>1, <2>2, ElementOfSeq
  <2>4. a \in Seq(X)
    BY <2>1, <2>2
  <2> QED
    BY <2>3, <2>4 DEF Inert, X
<1>3. Inert(id, b)
  <2>1. /\ b \in Seq(X) /\ Len(b) = 2 /\ b[1].command = "MOV" /\ b[2].command = "EMUL"
        /\ \A i \in 1..2 : b[i].kind = "Command"
    BY <1>1, ElemaxIs
  <2> HIDE DEF b, X
  <2>2. \A i \in 1..Len(b) : b[i].command # "SPM" /\ b[i].kind # "ConfigureSPM"
    BY <2>1
  <2> QED
    BY <2>1, <2>2 DEF Inert, X
<1>4. Inert(id, c)
  <2>1. /\ c \in Seq(X)
        /\ \A i \in 1..Len(c) : c[i].kind = "Delay" /\ c[i].command = "none"
    BY <1>1, BgmuIs
  <2> HIDE DEF c, X
  <2>2. \A i \in 1..Len(c) : c[i].command # "SPM" /\ c[i].kind # "ConfigureSPM"
    BY <2>1
  <2> QED
    BY <2>1, <2>2 DEF Inert, X
<1>5. Inert(id, q)
  <2>1. q \in Seq(X) /\ \A i \in 1..Len(q) : q[i].kind = "Command" /\ q[i].command = "ACC"
    BY <1>1, AccIs
  <2> HIDE DEF q, X
  <2>2. \A i \in 1..Len(q) : q[i].command # "SPM" /\ q[i].kind # "ConfigureSPM"
    BY <2>1
  <2> QED
    BY <2>1, <2>2 DEF Inert, X
<1>6. Inert(id, e)
  <2>1. op \in X /\ op.command = "none" /\ op.kind = "Complete"
    <3>1. 0 \in Int
      OBVIOUS
    <3> QED
      BY <3>1, SpecialOps
  <2> HIDE DEF op, X
  <2>2. e \in Seq(X) /\ Len(e) = 1 /\ e[1] = op
    BY <2>1
  <2> HIDE DEF e
  <2>3. \A i \in 1..Len(e) : e[i].command # "SPM" /\ e[i].kind # "ConfigureSPM"
    BY <2>1, <2>2
  <2> QED
    BY <2>2, <2>3 DEF Inert, X
<1>7. Inert(id, o)
  <2>1. o \in Seq(X) /\ Len(o) = 0
    OBVIOUS
  <2> HIDE DEF o, X
  <2>2. \A i \in 1..Len(o) : o[i].command # "SPM" /\ o[i].kind # "ConfigureSPM"
    BY <2>1
  <2> QED
    BY <2>1, <2>2 DEF Inert, X
<1> QED
  BY <1>2, <1>3, <1>4, <1>5, <1>6, <1>7

LEMMA NoPasses ==
    SpmCyclesOf(PvChunks(0)) = 0 /\ Len(PvChunks(0)) = 0
<1> DEFINE start == Cfg.v_col_start
           c == Chunks(start, 0)
           n == Len(c)
           l == [k \in 1..n |-> SpmLatency(c[k].len)]
<1>1. start \in Int /\ 0 \in Int
  BY ConfigAssumption
<1>2. n = 0
  <2>1. PassesEnd(c, start, 0)
    BY <1>1, PassEnds
  <2> HIDE DEF c
  <2>2. n \in Nat /\ \A k \in 1..n : c[k].first \in 0..(0 - 1)
    BY <2>1, Zenon DEF PassesEnd
  <2>3. 0..(0 - 1) = {}
    OBVIOUS
  <2>4. ASSUME n # 0 PROVE FALSE
    <3>1. 1 \in 1..n
      BY <2>2, <2>4
    <3> QED
      BY <2>2, <2>3, <3>1
  <2> QED
    BY <2>4
<1>3. SpmCyclesOf(PvChunks(0)) = SumOf(l)
  BY Zenon DEF SpmCyclesOf, PvChunks
<1>4. Len(PvChunks(0)) = n
  BY DEF PvChunks
<1> HIDE DEF c, n
<1>5. l \in Seq(Int) /\ Len(l) = 0
  BY <1>2
<1> HIDE DEF l
<1>6. PICK g : Sums(g, l) /\ SumOf(l) = g[Len(l)]
  BY <1>5, Summed
<1>7. SumOf(l) = 0
  BY <1>5, <1>6 DEF Sums
<1> QED
  BY <1>2, <1>3, <1>4, <1>7

(* The sparse PV stage, over rows or not.                                  *)
LEMMA PvStageSpms ==
    ASSUME NEW id, NEW base \in OpAddr, NEW maxVoc \in Nat \ {0}
    PROVE  /\ PvStage(base, maxVoc) \in Seq(TokenOp(id)) /\ Paired(PvStage(base, maxVoc))
           /\ CyclesConfigured(PvStage(base, maxVoc))
                = IF Cfg.enable_esdm THEN SpmCyclesOf(PvChunks(maxVoc)) ELSE SpmLatency(maxVoc)
           /\ Number(PvStage(base, maxVoc), "SPM")
                = IF Cfg.enable_esdm THEN Len(PvChunks(maxVoc)) ELSE 1
<1>1. maxVoc \in Int
  OBVIOUS
<1>2. PvStage(base, maxVoc) \in Seq(TokenOp(id))
  BY <1>1, PvStageTidy DEF TidyOps
<1>3. PerRow(Cfg.enable_act_spm_pre, "SPM") = 0
  BY DEF PerRow
<1>4. CASE Cfg.enable_esdm
  <2> DEFINE n == Len(PvChunks(maxVoc))
  <2>1. n \in Nat
    <3> DEFINE c == Chunks(Cfg.v_col_start, maxVoc)
    <3>1. PassesEnd(c, Cfg.v_col_start, maxVoc)
      BY <1>1, ConfigAssumption, PassEnds
    <3> HIDE DEF c
    <3>2. Len(c) \in Nat
      BY <3>1, Zenon DEF PassesEnd
    <3> QED
      BY <3>2 DEF c, PvChunks
  <2>2. Number(PvStage(base, maxVoc), "SPM") = n * (PerRow(Cfg.enable_act_spm_pre, "SPM") + 1)
    BY <1>1, <1>4, PvStageCounts DEF PageCommands
  <2> HIDE DEF n
  <2>3. n * (PerRow(Cfg.enable_act_spm_pre, "SPM") + 1) = n
    BY <1>3, <2>1
  <2>4. /\ CyclesConfigured(PvStage(base, maxVoc)) = SpmCyclesOf(PvChunks(maxVoc))
        /\ Paired(PvStage(base, maxVoc))
    BY <1>1, <1>4, PvStageLatencies
  <2> QED
    BY <1>2, <1>4, <2>2, <2>3, <2>4 DEF n
<1>5. CASE ~Cfg.enable_esdm
  <2>1. PvStage(base, maxVoc) = PvRow(base, maxVoc)
    BY <1>5 DEF PvStage
  <2>2. Number(PvRow(base, maxVoc), "SPM") = PerRow(Cfg.enable_act_spm_pre, "SPM") + 1
    BY <1>1, PvRowCounts DEF PageCommands
  <2>3. CyclesConfigured(PvRow(base, maxVoc)) = SpmLatency(maxVoc) /\ Paired(PvRow(base, maxVoc))
    BY <1>1, PvRowCycles, PairedRow
  <2> QED
    BY <1>2, <1>3, <1>5, <2>1, <2>2, <2>3
<1> QED
  BY <1>4, <1>5

LEMMA FiveJoin ==
    ASSUME NEW id, NEW a, Inert(id, a), NEW b, Inert(id, b), NEW c, Inert(id, c),
           NEW e, Inert(id, e), NEW d \in Seq(TokenOp(id)), Paired(d)
    PROVE  /\ Paired(a \o b \o c \o d \o e)
           /\ CyclesConfigured(a \o b \o c \o d \o e) = CyclesConfigured(d)
           /\ Number(a \o b \o c \o d \o e, "SPM") = Number(d, "SPM")
<1> DEFINE X == TokenOp(id)
<1>1. /\ CyclesConfigured(a) = 0 /\ Paired(a) /\ Number(a, "SPM") = 0 /\ a \in Seq(X)
      /\ CyclesConfigured(b) = 0 /\ Paired(b) /\ Number(b, "SPM") = 0 /\ b \in Seq(X)
      /\ CyclesConfigured(c) = 0 /\ Paired(c) /\ Number(c, "SPM") = 0 /\ c \in Seq(X)
      /\ CyclesConfigured(e) = 0 /\ Paired(e) /\ Number(e, "SPM") = 0 /\ e \in Seq(X)
  BY InertAdds
<1>2. d \in Seq(X) /\ Paired(d) /\ CyclesConfigured(d) \in Int /\ Number(d, "SPM") \in Nat
  BY CyclesAppend, CommandsCounted
<1> DEFINE u == a \o b  v == u \o c  w == v \o d
<1>3. u \in Seq(X) /\ Paired(u) /\ CyclesConfigured(u) = 0
  <2>1. u \in Seq(X)
    <3> HIDE DEF X
    <3> QED
      BY <1>1
  <2>2. Paired(u)
    BY <1>1, PairedAppend
  <2>3. CyclesConfigured(u) = CyclesConfigured(a) + CyclesConfigured(b)
    BY <1>1, CyclesAppend
  <2> HIDE DEF u
  <2> QED
    BY <1>1, <2>1, <2>2, <2>3
<1> HIDE DEF u
<1>4. v \in Seq(X) /\ Paired(v) /\ CyclesConfigured(v) = 0
  <2>1. v \in Seq(X)
    <3> HIDE DEF X
    <3> QED
      BY <1>1, <1>3
  <2>2. Paired(v)
    BY <1>1, <1>3, PairedAppend
  <2>3. CyclesConfigured(v) = CyclesConfigured(u) + CyclesConfigured(c)
    BY <1>1, <1>3, CyclesAppend
  <2> HIDE DEF v
  <2> QED
    BY <1>1, <1>3, <2>1, <2>2, <2>3
<1> HIDE DEF v
<1>5. w \in Seq(X) /\ Paired(w) /\ CyclesConfigured(w) = CyclesConfigured(d)
  <2>1. w \in Seq(X)
    <3> HIDE DEF X
    <3> QED
      BY <1>2, <1>4
  <2>2. Paired(w)
    BY <1>2, <1>4, PairedAppend
  <2>3. CyclesConfigured(w) = CyclesConfigured(v) + CyclesConfigured(d)
    BY <1>2, <1>4, CyclesAppend
  <2> HIDE DEF w
  <2>4. CyclesConfigured(w) = CyclesConfigured(d)
    BY <1>2, <1>4, <2>3
  <2> QED
    BY <2>1, <2>2, <2>4
<1> HIDE DEF w
<1>6. Paired(w \o e) /\ CyclesConfigured(w \o e) = CyclesConfigured(d)
  <2>1. Paired(w \o e)
    BY <1>1, <1>5, PairedAppend
  <2>2. CyclesConfigured(w \o e) = CyclesConfigured(w) + CyclesConfigured(e)
    BY <1>1, <1>5, CyclesAppend
  <2>3. CyclesConfigured(w \o e) = CyclesConfigured(d)
    BY <1>1, <1>2, <1>5, <2>2
  <2> QED
    BY <2>1, <2>3
<1>7. Number(a \o b \o c \o d \o e, "SPM") = Number(a, "SPM") + Number(d, "SPM")
  BY <1>1, <1>2, NumberFive
<1>8. Number(a \o b \o c \o d \o e, "SPM") = Number(d, "SPM")
  <2> DEFINE x == Number(a, "SPM")  y == Number(d, "SPM")  z == Number(a \o b \o c \o d \o e, "SPM")
  <2>1. z = x + y /\ x = 0 /\ y \in Nat
    BY <1>1, <1>2, <1>7
  <2> HIDE DEF x, y, z
  <2>2. z = y
    BY <2>1
  <2> QED
    BY <2>2 DEF z, y
<1> QED
  BY <1>6, <1>8 DEF u, v, w

(* What a token configures and issues.                                     *)
TokenSpms(id, req) ==
    LET s == Expand(id, req)  max == VocSummary(req).max_voc  pv == PvChunks(max)
    IN  /\ s \in Seq(TokenOp(id)) /\ Paired(s)
        /\ CyclesConfigured(s) = IF Cfg.enable_esdm THEN SpmCyclesOf(pv)
                                 ELSE IF max = 0 THEN 0 ELSE SpmLatency(max)
        /\ Number(s, "SPM") = IF Cfg.enable_esdm THEN Len(pv)
                              ELSE IF max = 0 THEN 0 ELSE 1

LEMMA TokenSpmsAre ==
    ASSUME NEW id, NEW req, IsToken(req)
    PROVE  TokenSpms(id, req)
<1> DEFINE base == BaseAddr(req)
           X == TokenOp(id)
           max == VocSummary(req).max_voc
           pv == PvChunks(max)
           a == QkStage(base, MacCommands(req))
           b == ElemaxStage(base)
           c == BgmuStage(VocSummary(req))
           p == PvStage(base, max)
           q == AccStage(base, AccCommands(req))
           d == If(max # 0, p \o q)
           e == <<CompleteOp(id)>>
           s == a \o b \o c \o d \o e
           C == IF Cfg.enable_esdm THEN SpmCyclesOf(pv) ELSE IF max = 0 THEN 0 ELSE SpmLatency(max)
           N == IF Cfg.enable_esdm THEN Len(pv) ELSE IF max = 0 THEN 0 ELSE 1
<1>1. base \in OpAddr /\ max \in Nat
  BY BaseType, SummaryType
<1>2. /\ Inert(id, a) /\ Inert(id, b) /\ Inert(id, c) /\ Inert(id, q) /\ Inert(id, e)
      /\ Inert(id, <<>>)
  BY StagesInert
<1>3. Expand(id, req) = s
  <2>1. req.type = "spare-pim"
    BY DEF IsToken
  <2> QED
    BY <2>1, TokenParts, Zenon DEF Expand
<1>4. s \in Seq(X)
  <2>1. Expand(id, req) \in Seq(X)
    BY TokenTidy DEF TidyOps
  <2> HIDE DEF s
  <2> QED
    BY <1>3, <2>1
<1> HIDE DEF a, b, c, e, X, max, base
<1>5. /\ d \in Seq(X) /\ Paired(d)
      /\ CyclesConfigured(d) = C /\ Number(d, "SPM") = N
  <2>1. CASE max = 0
    <3>1. d = <<>>
      BY <2>1 DEF If
    <3>2. /\ CyclesConfigured(<<>>) = 0 /\ Paired(<<>>) /\ Number(<<>>, "SPM") = 0
          /\ <<>> \in Seq(TokenOp(id))
      BY <1>2, InertAdds
    <3>3. C = 0 /\ N = 0
      <4>1. pv = PvChunks(0)
        BY <2>1
      <4> HIDE DEF pv
      <4> QED
        BY <2>1, <4>1, NoPasses
    <3> HIDE DEF d, C, N
    <3> QED
      BY <3>1, <3>2, <3>3 DEF X
  <2>2. CASE max # 0
    <3>1. d = p \o q
      BY <2>2 DEF If
    <3>2. /\ p \in Seq(X) /\ Paired(p) /\ CyclesConfigured(p) = C /\ Number(p, "SPM") = N
      <4>1. max \in Nat \ {0}
        BY <1>1, <2>2
      <4>2. /\ p \in Seq(X) /\ Paired(p)
            /\ CyclesConfigured(p) = IF Cfg.enable_esdm THEN SpmCyclesOf(pv) ELSE SpmLatency(max)
            /\ Number(p, "SPM") = IF Cfg.enable_esdm THEN Len(pv) ELSE 1
        BY <1>1, <4>1, PvStageSpms DEF X
      <4> HIDE DEF p, pv
      <4> QED
        BY <2>2, <4>2
    <3>3. /\ CyclesConfigured(q) = 0 /\ Paired(q) /\ Number(q, "SPM") = 0 /\ q \in Seq(X)
      BY <1>2, InertAdds DEF X
    <3> HIDE DEF d, C, N, p, q
    <3>4. p \o q \in Seq(X)
      BY <3>2, <3>3
    <3>5. Paired(p \o q)
      BY <3>2, <3>3, PairedAppend
    <3>6. CyclesConfigured(p \o q) = C
      <4>1. /\ CyclesConfigured(p \o q) = CyclesConfigured(p) + CyclesConfigured(q)
            /\ CyclesConfigured(p) \in Int
        BY <3>2, <3>3, CyclesAppend DEF X
      <4> DEFINE x == CyclesConfigured(p)  y == CyclesConfigured(q)  w == CyclesConfigured(p \o q)
      <4>2. w = x + y /\ x \in Int /\ y = 0 /\ x = C
        BY <3>2, <3>3, <4>1
      <4> HIDE DEF x, y, w
      <4>3. w = C
        BY <4>2
      <4> QED
        BY <4>3 DEF w
    <3>7. Number(p \o q, "SPM") = N
      <4>1. Number(p \o q, "SPM") = Number(p, "SPM") + Number(q, "SPM") /\ Number(p, "SPM") \in Nat
        BY <3>2, <3>3, NumberAppend, CommandsCounted
      <4> DEFINE x == Number(p, "SPM")  y == Number(q, "SPM")  w == Number(p \o q, "SPM")
      <4>2. w = x + y /\ x \in Nat /\ y = 0 /\ x = N
        BY <3>2, <3>3, <4>1
      <4> HIDE DEF x, y, w
      <4>3. w = N
        BY <4>2
      <4> QED
        BY <4>3 DEF w
    <3> QED
      BY <3>1, <3>4, <3>5, <3>6, <3>7
  <2> QED
    BY <2>1, <2>2
<1> HIDE DEF d, C, N
<1>6. Paired(s) /\ CyclesConfigured(s) = C /\ Number(s, "SPM") = N
  <2>1. /\ Paired(s) /\ CyclesConfigured(s) = CyclesConfigured(d)
        /\ Number(s, "SPM") = Number(d, "SPM")
    BY <1>2, <1>5, FiveJoin DEF X
  <2> HIDE DEF s
  <2> QED
    BY <1>5, <2>1
<1> HIDE DEF s
<1>7. /\ Expand(id, req) \in Seq(TokenOp(id)) /\ Paired(Expand(id, req))
      /\ CyclesConfigured(Expand(id, req)) = C /\ Number(Expand(id, req), "SPM") = N
  BY <1>3, <1>4, <1>6 DEF X
<1> QED
  BY <1>7, Zenon DEF TokenSpms, C, N, pv, max

(* Each SPM that enqueue_sparse_pv_stage issues for any token runs under a *)
(* latency configured for it alone, the latencies are those                *)
(* expand_sparepim_token counts, and when none is raised to one cycle they *)
(* add up to the largest VOC and the fixed cycles of every SPM.            *)
THEOREM TokenLatencies ==
    ASSUME NEW id, NEW req, IsToken(req)
    PROVE  LatenciesAddUp(Expand(id, req), req)
<1> DEFINE s == Expand(id, req)
           max == VocSummary(req).max_voc
           pv == PvChunks(max)
           A == CommandsIn(s, "SPM")
           B == ConfiguresIn(s)
           f == Cfg.spm_fixed_cycles
           p == Cfg.spm_cycles_per_voc
<1>1. /\ Paired(s)
      /\ CyclesConfigured(s) = IF Cfg.enable_esdm THEN SpmCyclesOf(pv)
                               ELSE IF max = 0 THEN 0 ELSE SpmLatency(max)
      /\ Number(s, "SPM") = IF Cfg.enable_esdm THEN Len(pv)
                            ELSE IF max = 0 THEN 0 ELSE 1
  <2>1. TokenSpms(id, req)
    BY TokenSpmsAre
  <2> QED
    BY <2>1, Zenon DEF TokenSpms
<1>2. max \in Nat
  BY SummaryType
<1>3. StatsOf(req).spm_cycles = IF Cfg.enable_esdm THEN SpmCyclesOf(pv)
                                ELSE IF max = 0 THEN 0 ELSE SpmLatency(max)
  <2>1. req.type = "spare-pim"
    BY DEF IsToken
  <2>2. StatsOf(req) = TokenStats(req)
    BY <2>1, Zenon DEF StatsOf
  <2> DEFINE t == StatsOf(req)
  <2>3. t.spm_cycles = IF Cfg.enable_esdm THEN SpmCyclesOf(IF Cfg.enable_esdm THEN pv ELSE <<>>)
                       ELSE IF max = 0 THEN 0 ELSE SpmLatency(max)
    <3> HIDE DEF t
    <3> QED
      BY <2>2 DEF TokenStats, t
  <2> HIDE DEF t, pv, max
  <2>4. t.spm_cycles = IF Cfg.enable_esdm THEN SpmCyclesOf(pv)
                       ELSE IF max = 0 THEN 0 ELSE SpmLatency(max)
    BY <2>3
  <2> QED
    BY <2>4 DEF t
<1>4. ASSUME f >= 0, p >= 0, f + p > 0
      PROVE  CyclesConfigured(s) = Number(s, "SPM") * f + max * p
  <2>0. f \in Int /\ p \in Int
    BY ConfigAssumption
  <2>1. CASE Cfg.enable_esdm
    <3>1. SpmCyclesOf(pv) = Len(pv) * f + max * p
      <4> HIDE DEF max
      <4> QED
        BY <1>2, <1>4, LatenciesSum
    <3> HIDE DEF s, max, pv, f, p
    <3> QED
      BY <1>1, <2>1, <3>1
  <2>2. CASE ~Cfg.enable_esdm /\ max = 0
    <3>1. CyclesConfigured(s) = 0 /\ Number(s, "SPM") = 0
      <4> HIDE DEF s, max, pv
      <4> QED
        BY <1>1, <2>2
    <3>2. 0 * f = 0 /\ 0 * p = 0
      BY <2>0, Distributes
    <3> HIDE DEF s, max, f, p
    <3> QED
      BY <2>2, <3>1, <3>2
  <2>3. CASE ~Cfg.enable_esdm /\ max # 0
    <3>1. CyclesConfigured(s) = SpmLatency(max) /\ Number(s, "SPM") = 1
      <4> HIDE DEF s, max, pv
      <4> QED
        BY <1>1, <2>3
    <3>2. SpmLatency(max) = f + max * p
      <4>1. max \in Nat \ {0}
        BY <1>2, <2>3
      <4> HIDE DEF max
      <4> QED
        BY <1>4, <4>1, SpmLatencyIs
    <3>3. 1 * f = f
      BY <2>0
    <3> HIDE DEF s, max, f, p
    <3> QED
      BY <3>1, <3>2, <3>3
  <2> QED
    BY <2>1, <2>2, <2>3
<1>5. /\ \A i \in A : \E k \in B : NextTo(k, i, s)
      /\ \A k \in B : \E i \in A : NextTo(k, i, s)
  <2> HIDE DEF s
  <2>1. PairedIn(A, B)
    BY <1>1 DEF Paired
  <2>2. \A k, i : Between(A \cup B, k, i) => NextTo(k, i, s)
    BY Zenon DEF Between, NextTo
  <2> HIDE DEF A, B
  <2> QED
    BY <2>1, <2>2, Zenon DEF PairedIn
<1>6. CyclesConfigured(s) = StatsOf(req).spm_cycles
  <2> DEFINE C == IF Cfg.enable_esdm THEN SpmCyclesOf(pv)
                  ELSE IF max = 0 THEN 0 ELSE SpmLatency(max)
  <2>1. CyclesConfigured(s) = C
    BY <1>1
  <2>2. StatsOf(req).spm_cycles = C
    BY <1>3
  <2> HIDE DEF C, s
  <2> QED
    BY <2>1, <2>2
<1> HIDE DEF s
<1>7. LatenciesAddUp(s, req)
  BY <1>4, <1>5, <1>6, Zenon DEF LatenciesAddUp, A, B, f, p, max
<1> QED
  BY <1>7 DEF s

-----------------------------------------------------------------------------
(* The columns the MACs of a token address.                                *)
IsPlace(op, base, x) ==
    op.addr.row = EsdmRow(base.row, Cfg.kt_row_offset, x) /\ op.addr.col = EsdmCol(x)

(* One after the other they address columns from lo on and before hi.      *)
Ascends(s, base, lo, hi, g) ==
    \A i \in CommandsIn(s, "MAC") :
       /\ g[i] \in lo..(hi - 1) /\ IsPlace(s[i], base, g[i])
       /\ \A j \in CommandsIn(s, "MAC") : i < j => g[i] < g[j]
Ascending(s, base, lo, hi) == \E g : Ascends(s, base, lo, hi, g)

LEMMA AscendingAppend ==
    ASSUME NEW X, NEW s \in Seq(X), NEW t \in Seq(X), NEW base,
           NEW lo \in Int, NEW mid \in Int, NEW hi \in Int, lo <= mid, mid <= hi,
           Ascending(s, base, lo, mid), Ascending(t, base, mid, hi)
    PROVE  Ascending(s \o t, base, lo, hi)
<1> DEFINE u == s \o t  n == Len(s)  m == Len(t)
           A == CommandsIn(s, "MAC")  B == CommandsIn(t, "MAC")  U == CommandsIn(u, "MAC")
<1>1. /\ Len(u) = n + m /\ n \in Nat /\ m \in Nat
      /\ \A i \in 1..n : u[i] = s[i]
      /\ \A i \in 1..m : u[n + i] = t[i]
      /\ \A i \in 1..Len(u) : i \in 1..n \/ (i - n \in 1..m /\ i = n + (i - n))
  BY AppendParts
<1>2. PICK g : Ascends(s, base, lo, mid, g)
  BY DEF Ascending
<1>3. PICK h : Ascends(t, base, mid, hi, h)
  BY DEF Ascending
<1> DEFINE f == [i \in 1..Len(u) |-> IF i <= n THEN g[i] ELSE h[i - n]]
<1>4. ASSUME NEW i \in U
      PROVE  /\ i \in 1..Len(u)
             /\ \/ i \in A /\ i <= n /\ f[i] = g[i] /\ u[i] = s[i]
                \/ i - n \in B /\ i > n /\ f[i] = h[i - n] /\ u[i] = t[i - n]
  <2>1. i \in 1..Len(u) /\ u[i].kind = "Command" /\ u[i].command = "MAC"
    BY DEF CommandsIn
  <2>2. CASE i \in 1..n
    <3>1. u[i] = s[i] /\ i <= n
      BY <1>1, <2>2
    <3>2. f[i] = g[i]
      BY <2>1, <3>1
    <3>3. i \in A
      BY <2>1, <2>2, <3>1 DEF CommandsIn
    <3> HIDE DEF f, u, n, A, B, U
    <3> QED
      BY <2>1, <3>1, <3>2, <3>3
  <2>3. CASE i \notin 1..n
    <3> DEFINE x == i - n
    <3>1. x \in 1..m /\ i = n + x
      BY <1>1, <2>1, <2>3
    <3> HIDE DEF n, m
    <3>2. u[i] = t[x] /\ i > n /\ ~(i <= n)
      <4> HIDE DEF u, x
      <4> QED
        BY <1>1, <3>1
    <3>3. f[i] = h[x]
      <4> HIDE DEF u
      <4> QED
        BY <2>1, <3>2
    <3>4. x \in B
      <4> HIDE DEF x, u
      <4> QED
        BY <2>1, <3>1, <3>2 DEF CommandsIn, m
    <3> HIDE DEF f, u, A, B, U
    <3> QED
      BY <2>1, <3>2, <3>3, <3>4
  <2> QED
    BY <2>2, <2>3
<1>5. /\ \A i \in A : g[i] \in lo..(mid - 1) /\ IsPlace(s[i], base, g[i])
      /\ \A i, j \in A : i < j => g[i] < g[j]
  BY <1>2 DEF Ascends
<1>6. /\ \A i \in B : h[i] \in mid..(hi - 1) /\ IsPlace(t[i], base, h[i])
      /\ \A i, j \in B : i < j => h[i] < h[j]
  BY <1>3 DEF Ascends
<1>7. A \in SUBSET (1..n) /\ B \in SUBSET (1..m)
  BY DEF CommandsIn
<1> HIDE DEF f, u, n, m, A, B, U
<1>8. ASSUME NEW i \in U PROVE f[i] \in lo..(hi - 1) /\ IsPlace(u[i], base, f[i])
  <2>1. CASE i \in A /\ f[i] = g[i] /\ u[i] = s[i]
    <3>1. g[i] \in lo..(mid - 1) /\ IsPlace(s[i], base, g[i])
      BY <1>5, <2>1
    <3>2. f[i] \in lo..(hi - 1)
      BY <2>1, <3>1
    <3> QED
      BY <2>1, <3>1, <3>2
  <2>2. CASE i - n \in B /\ f[i] = h[i - n] /\ u[i] = t[i - n]
    <3>1. h[i - n] \in mid..(hi - 1) /\ IsPlace(t[i - n], base, h[i - n])
      BY <1>6, <2>2
    <3>2. f[i] \in lo..(hi - 1)
      BY <2>2, <3>1
    <3> QED
      BY <2>2, <3>1, <3>2
  <2> QED
    BY <1>4, <2>1, <2>2
<1>9. ASSUME NEW i \in U, NEW j \in U, i < j PROVE f[i] < f[j]
  <2>1. i \in 1..Len(u) /\ j \in 1..Len(u) /\ i \in Int /\ j \in Int
    BY <1>1, <1>4
  <2>2. CASE i \in A /\ f[i] = g[i] /\ j \in A /\ f[j] = g[j]
    BY <1>5, <1>9, <2>2
  <2>3. CASE i \in A /\ f[i] = g[i] /\ j - n \in B /\ f[j] = h[j - n]
    <3>1. g[i] \in lo..(mid - 1) /\ h[j - n] \in mid..(hi - 1)
      BY <1>5, <1>6, <2>3
    <3>2. f[i] \in lo..(mid - 1) /\ f[j] \in mid..(hi - 1)
      BY <2>3, <3>1
    <3> QED
      BY <3>2
  <2>4. CASE i - n \in B /\ f[i] = h[i - n] /\ j - n \in B /\ f[j] = h[j - n]
    <3>1. i - n < j - n
      BY <1>1, <1>9, <2>1
    <3>2. h[i - n] < h[j - n]
      BY <1>6, <2>4, <3>1
    <3> QED
      BY <2>4, <3>2
  <2>5. ASSUME i > n, j \in A PROVE FALSE
    BY <1>1, <1>7, <1>9, <2>1, <2>5
  <2> QED
    BY <1>4, <2>2, <2>3, <2>4, <2>5
<1>10. Ascends(u, base, lo, hi, f)
  BY <1>8, <1>9 DEF Ascends, U
<1> QED
  BY <1>10, Zenon DEF Ascending, u

LEMMA NoneAscends ==
    ASSUME NEW s, NEW base, NEW lo, NEW hi, \A i \in 1..Len(s) : s[i].command # "MAC"
    PROVE  Ascending(s, base, lo, hi)
<1>1. CommandsIn(s, "MAC") = {}
  BY DEF CommandsIn
<1>2. Ascends(s, base, lo, hi, <<>>)
  BY <1>1 DEF Ascends
<1> QED
  BY <1>2, Zenon DEF Ascending

LEMMA FlattenAscends ==
    ASSUME NEW X, NEW q \in Seq(Seq(X)), NEW base, NEW v,
           \A k \in 0..Len(q) : v[k] \in Int,
           \A k \in 1..Len(q) : v[k - 1] <= v[k] /\ Ascending(q[k], base, v[k - 1], v[k])
    PROVE  Ascending(FlattenSeq(q), base, v[0], v[Len(q)])
<1>1. CASE q = <<>>
  <2>1. Len(q) = 0 /\ FlattenSeq(q) = q
    BY <1>1 DEF FlattenSeq
  <2>2. \A i \in 1..Len(q) : q[i].command # "MAC"
    BY <2>1
  <2>3. Ascending(q, base, v[0], v[Len(q)])
    BY <2>2, NoneAscends
  <2> QED
    BY <2>1, <2>3
<1>2. CASE q # <<>>
  <2>1. PICK f : /\ f[1] = q[1]
                 /\ \A i \in 2..Len(q) : f[i] = f[i - 1] \o q[i]
                 /\ FlattenSeq(q) = f[Len(q)]
    BY <1>2, Flattens
  <2> DEFINE n == Len(q)
             T == {k \in 1..n : f[k] \in Seq(X) /\ v[0] <= v[k] /\ Ascending(f[k], base, v[0], v[k])}
  <2>2. n \in Nat /\ n > 0 /\ \A k \in 1..n : q[k] \in Seq(X)
    BY <1>2, ElementOfSeq
  <2>3. 1 \in T
    <3>1. 1 \in 1..n /\ f[1] = q[1] /\ q[1] \in Seq(X) /\ 1 - 1 = 0
      BY <2>1, <2>2
    <3>2. v[1 - 1] <= v[1] /\ Ascending(q[1], base, v[1 - 1], v[1])
      BY <3>1
    <3>3. v[0] <= v[1] /\ Ascending(q[1], base, v[0], v[1])
      BY <3>1, <3>2
    <3> QED
      BY <3>1, <3>3
  <2>4. ASSUME NEW k \in 1..(n - 1), k \in T PROVE k + 1 \in T
    <3>1. /\ k + 1 \in 2..Len(q) /\ (k + 1) - 1 = k /\ k + 1 \in 1..n
          /\ 0 \in 0..n /\ k \in 0..n /\ k + 1 \in 0..n
      BY <2>2
    <3>2. /\ f[k + 1] = f[k] \o q[k + 1] /\ f[k] \in Seq(X) /\ q[k + 1] \in Seq(X)
          /\ Ascending(f[k], base, v[0], v[k]) /\ v[0] <= v[k]
      BY <2>1, <2>2, <2>4, <3>1
    <3>3. v[k] <= v[k + 1] /\ Ascending(q[k + 1], base, v[k], v[k + 1])
      BY <3>1
    <3>4. v[0] \in Int /\ v[k] \in Int /\ v[k + 1] \in Int
      BY <3>1
    <3>5. Ascending(f[k] \o q[k + 1], base, v[0], v[k + 1])
      BY <3>2, <3>3, <3>4, AscendingAppend
    <3>6. f[k + 1] \in Seq(X)
      BY <3>2
    <3>7. v[0] <= v[k + 1]
      BY <3>2, <3>3, <3>4
    <3> QED
      BY <3>1, <3>2, <3>5, <3>6, <3>7
  <2>5. \A k \in 1..n : k \in T
    <3> HIDE DEF T, n
    <3> QED
      BY <2>2, <2>3, <2>4, UpTo
  <2>6. n \in 1..n
    BY <2>2
  <2> QED
    BY <2>1, <2>5, <2>6
<1> QED
  BY <1>1, <1>2

LEMMA RowMacsAscend ==
    ASSUME NEW id, NEW base \in OpAddr, NEW column \in Int, NEW n \in Nat, Cfg.enable_esdm
    PROVE  Ascending(RowMacs(base, column, n), base, column, column + n)
<1> DEFINE s == RowMacs(base, column, n)
           off == Cfg.kt_row_offset
           Op(i) == CommandOp("MAC", AllBanks(EsdmAddr(base, off, column + (i - 1))))
           g == [i \in 1..n |-> column + (i - 1)]
<1>1. AtLeast(0, n) = n
  BY DEF AtLeast
<1>2. s = [i \in 1..n |-> Op(i)]
  BY <1>1 DEF RowMacs, Repeat
<1>3. ASSUME NEW x \in Int
      PROVE  IsPlace(CommandOp("MAC", AllBanks(EsdmAddr(base, off, x))), base, x)
  <2> DEFINE r == EsdmRow(base.row, off, x)  c == EsdmCol(x)  a == EsdmAddr(base, off, x)
  <2>1. a = [base EXCEPT !.row = r, !.col = c]
    BY DEF EsdmAddr
  <2> HIDE DEF r, c, a
  <2>2. a.row = r /\ a.col = c /\ a = [path |-> base.path, row |-> r, col |-> c]
    BY <2>1 DEF OpAddr
  <2>3. AllBanks(a).row = r /\ AllBanks(a).col = c
    BY <2>2 DEF AllBanks
  <2>4. CommandOp("MAC", AllBanks(a)).addr = AllBanks(a)
    BY DEF CommandOp
  <2>5. CommandOp("MAC", AllBanks(a)).addr.row = r /\ CommandOp("MAC", AllBanks(a)).addr.col = c
    BY <2>3, <2>4
  <2> QED
    BY <2>5, Zenon DEF IsPlace, a, r, c
<1>4. ASSUME NEW i \in 1..n PROVE g[i] \in column..(column + n - 1) /\ IsPlace(s[i], base, g[i])
  <2>1. column + (i - 1) \in column..(column + n - 1) /\ column + (i - 1) \in Int
    OBVIOUS
  <2>2. g[i] = column + (i - 1)
    OBVIOUS
  <2>3. s[i] = Op(i)
    BY <1>2
  <2>4. IsPlace(Op(i), base, column + (i - 1))
    BY <1>3, <2>1
  <2> HIDE DEF s, g, Op
  <2> QED
    BY <2>1, <2>2, <2>3, <2>4
<1>5. CommandsIn(s, "MAC") \in SUBSET (1..n)
  <2>1. Len(s) = n
    BY <1>2
  <2> HIDE DEF s
  <2> QED
    BY <2>1 DEF CommandsIn
<1>6. \A i, j \in 1..n : i < j => g[i] < g[j]
  OBVIOUS
<1> HIDE DEF s, g
<1>7. Ascends(s, base, column, column + n, g)
  BY <1>4, <1>5, <1>6 DEF Ascends
<1> QED
  BY <1>7, Zenon DEF Ascending, s

LEMMA BankOpsAscend ==
    ASSUME NEW id, NEW addr \in OpAddr, NEW c \in {"ACT", "PRE"}, NEW flag, NEW base, NEW lo, NEW hi
    PROVE  /\ Ascending(If(flag, PerBank(c, addr)), base, lo, hi)
           /\ If(flag, PerBank(c, addr)) \in Seq(TokenOp(id))
<1> DEFINE s == If(flag, PerBank(c, addr))  X == TokenOp(id)  Y == QkOp(id) \cap PvOp(id)
<1>1. s \in Seq(Y)
  BY PerBankOps
<1>2. Y \in SUBSET X /\ \A op \in Y : op.command # "MAC"
  BY DEF QkOp, PvOp
<1> HIDE DEF s, X, Y
<1>3. s \in Seq(X) /\ \A i \in 1..Len(s) : s[i].command # "MAC"
  BY <1>1, <1>2, ElementOfSeq
<1>4. Ascending(s, base, lo, hi)
  BY <1>3, NoneAscends
<1> QED
  BY <1>3, <1>4 DEF s, X

LEMMA QkRowAscends ==
    ASSUME NEW id, NEW base \in OpAddr, NEW chunk, NEW column \in Int, NEW n \in Nat,
           column = Cfg.kt_col_start + chunk.first, n = chunk.len, Cfg.enable_esdm
    PROVE  Ascending(QkRow(base, chunk), base, column, column + n)
<1> DEFINE X == TokenOp(id)  flag == Cfg.enable_qk_act_pre
           row == EsdmAddr(base, Cfg.kt_row_offset, column)
           a == If(flag, PerBank("ACT", row))
           m == RowMacs(base, column, n)
           z == If(flag, PerBank("PRE", row))
           hi == column + n
<1>1. QkRow(base, chunk) = a \o m \o z
  BY QkRowIs
<1>2. row \in OpAddr
  BY EsdmAddrType, ConfigAssumption
<1>3. hi \in Int /\ column <= hi /\ hi <= hi /\ column <= column
  OBVIOUS
<1> HIDE DEF row
<1>4. Ascending(a, base, column, column) /\ a \in Seq(X)
  BY <1>2, BankOpsAscend
<1>5. Ascending(z, base, hi, hi) /\ z \in Seq(X)
  BY <1>2, BankOpsAscend
<1>6. Ascending(m, base, column, hi) /\ m \in Seq(X)
  BY RowMacsAscend, RowMacsOf
<1> HIDE DEF a, m, z, hi, X
<1>7. Ascending(a \o m, base, column, hi)
  BY <1>3, <1>4, <1>6, AscendingAppend
<1>8. a \o m \in Seq(X)
  BY <1>4, <1>6
<1>9. Ascending(a \o m \o z, base, column, hi)
  BY <1>3, <1>5, <1>7, <1>8, AscendingAppend
<1> QED
  BY <1>1, <1>9 DEF hi

LEMMA QkStageAscends ==
    ASSUME NEW id, NEW base \in OpAddr, NEW macs \in Int, Cfg.enable_esdm
    PROVE  Ascending(QkStage(base, macs), base, Cfg.kt_col_start,
                     Cfg.kt_col_start + AtLeast(0, macs))
<1> DEFINE X == TokenOp(id)
           start == Cfg.kt_col_start
           c == Chunks(start, macs)
           n == Len(c)
           q == [k \in 1..n |-> QkRow(base, c[k])]
           v == [k \in 0..n |-> start + End(c, k)]
<1>1. start \in Int
  BY ConfigAssumption
<1>2. /\ n \in Nat
      /\ \A k \in 1..n :
            /\ c[k].first \in 0..(macs - 1)
            /\ c[k] = ChunkAt(start, macs, c[k].first)
            /\ c[k].len \in 1..(macs - c[k].first)
            /\ End(c, k) \in Nat /\ End(c, k) = End(c, k - 1) + c[k].len
      /\ End(c, n) = AtLeast(0, macs)
  <2>1. PassesEnd(c, start, macs)
    BY <1>1, PassEnds
  <2> HIDE DEF c
  <2> QED
    BY <2>1, Zenon DEF PassesEnd
<1>3. QkStage(base, macs) = FlattenSeq(q)
  BY Zenon DEF QkStage, QkChunks
<1>4. \A k \in 1..n : QkRow(base, c[k]) \in Seq(X)
  <2> TAKE k \in 1..n
  <2> DEFINE d == c[k].first
  <2> HIDE DEF c, n
  <2>1. d \in 0..(macs - 1) /\ c[k] = ChunkAt(start, macs, d)
    BY <1>2
  <2> HIDE DEF d
  <2>2. QkRow(base, ChunkAt(start, macs, d)) \in TidyOps(id)
    BY <2>1, QkRowTidy
  <2> QED
    BY <2>1, <2>2 DEF TidyOps
<1> HIDE DEF c, n, X
<1>5. q \in Seq(Seq(X)) /\ Len(q) = n /\ \A k \in 1..n : q[k] = QkRow(base, c[k])
  BY <1>2, <1>4
<1> HIDE DEF q
<1>6. \A k \in 0..n : End(c, k) \in Nat
  <2> TAKE k \in 0..n
  <2>1. CASE k = 0
    BY <2>1 DEF End
  <2>2. CASE k # 0
    <3>1. k \in 1..n
      BY <1>2, <2>2
    <3> QED
      BY <1>2, <3>1
  <2> QED
    BY <2>1, <2>2
<1>7. \A k \in 0..n : v[k] = start + End(c, k) /\ v[k] \in Int
  <2> TAKE k \in 0..n
  <2>1. v[k] = start + End(c, k)
    OBVIOUS
  <2> HIDE DEF v, start
  <2> QED
    BY <1>1, <1>6, <2>1
<1> HIDE DEF v
<1>8. ASSUME NEW k \in 1..n
      PROVE  v[k - 1] <= v[k] /\ Ascending(q[k], base, v[k - 1], v[k])
  <2> DEFINE d == c[k].first  len == c[k].len  column == start + d
  <2>1. d \in Nat /\ len \in Nat /\ End(c, k) = End(c, k - 1) + len /\ k \in 0..n /\ k - 1 \in 0..n
    BY <1>2
  <2>2. End(c, k) = d + len
    BY <1>2 DEF End
  <2>3. v[k - 1] = column /\ v[k] = column + len /\ column \in Int
    <3>1. v[k - 1] = start + End(c, k - 1) /\ v[k] = start + End(c, k) /\ End(c, k - 1) \in Nat
      BY <1>6, <1>7, <2>1
    <3> HIDE DEF d, len, start
    <3> QED
      BY <1>1, <2>1, <2>2, <3>1
  <2>4. column = Cfg.kt_col_start + c[k].first /\ len = c[k].len
    OBVIOUS
  <2>5. v[k - 1] <= v[k]
    <3> HIDE DEF column, len, d
    <3> QED
      BY <2>1, <2>3
  <2>6. Ascending(QkRow(base, c[k]), base, column, column + len)
    <3> HIDE DEF column, len, d
    <3> QED
      BY <2>1, <2>3, <2>4, QkRowAscends DEF len
  <2> QED
    BY <1>5, <2>3, <2>5, <2>6
<1>9. Ascending(FlattenSeq(q), base, v[0], v[n])
  <2>1. \A k \in 0..Len(q) : v[k] \in Int
    BY <1>5, <1>7
  <2>2. \A k \in 1..Len(q) : v[k - 1] <= v[k] /\ Ascending(q[k], base, v[k - 1], v[k])
    BY <1>5, <1>8
  <2> QED
    BY <1>5, <2>1, <2>2, FlattenAscends
<1>10. v[0] = start /\ v[n] = start + AtLeast(0, macs)
  <2>1. 0 \in 0..n /\ n \in 0..n
    BY <1>2
  <2>2. End(c, 0) = 0
    BY DEF End
  <2>3. v[0] = start + 0
    BY <1>7, <2>1, <2>2
  <2> HIDE DEF start
  <2> QED
    BY <1>1, <1>2, <1>7, <2>1, <2>3
<1> QED
  BY <1>3, <1>9, <1>10

(* The rows the SPMs of a token address.                                   *)
VRows(base, maxVoc) ==
    {EsdmRow(base.row, Cfg.v_row_offset, Cfg.v_col_start + d) : d \in 0..(maxVoc - 1)}
SpmAt(id, base, maxVoc) ==
    {op \in TokenOp(id) : op.command = "SPM" => op.addr.row \in VRows(base, maxVoc)}

LEMMA InertRows ==
    ASSUME NEW id, NEW s, Inert(id, s), NEW base, NEW maxVoc
    PROVE  s \in Seq(SpmAt(id, base, maxVoc))
<1> DEFINE X == TokenOp(id)  Y == SpmAt(id, base, maxVoc)
<1>1. s \in Seq(X) /\ \A i \in 1..Len(s) : s[i].command # "SPM"
  BY DEF Inert
<1>2. \A op \in X : op.command # "SPM" => op \in Y
  BY DEF SpmAt
<1> HIDE DEF X, Y
<1>3. \A i \in 1..Len(s) : s[i] \in Y
  BY <1>1, <1>2, ElementOfSeq
<1>4. s \in Seq(Y)
  BY <1>1, <1>3
<1> QED
  BY <1>4 DEF Y

LEMMA PvRowRows ==
    ASSUME NEW id, NEW row \in OpAddr, NEW voc \in Int, NEW base, NEW maxVoc,
           row.row \in VRows(base, maxVoc)
    PROVE  PvRow(row, voc) \in Seq(SpmAt(id, base, maxVoc))
<1> DEFINE X == TokenOp(id)  Y == SpmAt(id, base, maxVoc)  flag == Cfg.enable_act_spm_pre
           a == If(flag, PerBank("ACT", row))
           z == If(flag, PerBank("PRE", row))
           R == QkOp(id) \cap PvOp(id)
<1>1. PICK set \in X, op \in X :
         /\ PvRow(row, voc) = <<set>> \o (a \o <<op>> \o z)
         /\ set.kind = "ConfigureSPM" /\ set.command = "none"
         /\ op.kind = "Command" /\ op.command = "SPM" /\ op.addr.row = row.row
  <2>1. PvRowMade(id, row, PvRow(row, voc))
    BY PvRowParts
  <2> QED
    BY <2>1, Zenon DEF PvRowMade
<1>2. a \in Seq(R) /\ z \in Seq(R)
  BY PerBankOps
<1>3. set \in Y /\ op \in Y /\ R \in SUBSET Y
  <2>1. set \in Y
    BY <1>1 DEF SpmAt
  <2>2. op \in Y
    BY <1>1 DEF SpmAt
  <2>3. R \in SUBSET Y
    BY DEF SpmAt, QkOp
  <2> QED
    BY <2>1, <2>2, <2>3
<1> HIDE DEF a, z, X, R, Y
<1>4. a \in Seq(Y) /\ z \in Seq(Y)
  BY <1>2, <1>3
<1>5. <<set>> \o (a \o <<op>> \o z) \in Seq(Y)
  BY <1>3, <1>4
<1> QED
  BY <1>1, <1>5 DEF Y

LEMMA PvStageRows ==
    ASSUME NEW id, NEW base \in OpAddr, NEW maxVoc \in Int, Cfg.enable_esdm
    PROVE  PvStage(base, maxVoc) \in Seq(SpmAt(id, base, maxVoc))
<1> DEFINE Y == SpmAt(id, base, maxVoc)
           start == Cfg.v_col_start
           off == Cfg.v_row_offset
           c == Chunks(start, maxVoc)
           n == Len(c)
           One(chunk) == PvRow(EsdmAddr(base, off, start + chunk.first), chunk.len)
           q == [k \in 1..n |-> One(c[k])]
<1>1. start \in Int /\ off \in Int
  BY ConfigAssumption
<1>2. /\ n \in Nat
      /\ \A k \in 1..n : c[k].first \in 0..(maxVoc - 1) /\ c[k].first \in Int /\ c[k].len \in Int
  <2>1. PassesEnd(c, start, maxVoc)
    BY <1>1, PassEnds
  <2> HIDE DEF c
  <2>2. n \in Nat /\ \A k \in 1..n : /\ c[k].first \in 0..(maxVoc - 1)
                                     /\ c[k].len \in 1..(maxVoc - c[k].first)
    BY <2>1, Zenon DEF PassesEnd
  <2> QED
    BY <2>2
<1>3. PvStage(base, maxVoc) = FlattenSeq(q)
  BY Zenon DEF PvStage, PvChunks
<1> HIDE DEF c, n
<1>4. ASSUME NEW k \in 1..n PROVE One(c[k]) \in Seq(Y)
  <2> DEFINE d == c[k].first  row == EsdmAddr(base, off, start + d)  voc == c[k].len
  <2>1. d \in 0..(maxVoc - 1) /\ start + d \in Int /\ voc \in Int
    BY <1>1, <1>2
  <2>2. row \in OpAddr
    BY <1>1, <2>1, EsdmAddrType
  <2>3. row.row = EsdmRow(base.row, off, start + d)
    <3> DEFINE r == EsdmRow(base.row, off, start + d)  e == EsdmCol(start + d)
    <3>1. row = [base EXCEPT !.row = r, !.col = e]
      BY DEF EsdmAddr
    <3> HIDE DEF r, e, row
    <3>2. row.row = r
      BY <3>1 DEF OpAddr
    <3> QED
      BY <3>2 DEF r
  <2> HIDE DEF d, row, voc
  <2>4. row.row \in VRows(base, maxVoc)
    BY <2>1, <2>3 DEF VRows
  <2>5. PvRow(row, voc) \in Seq(Y)
    BY <2>1, <2>2, <2>4, PvRowRows
  <2> QED
    BY <2>5 DEF row, voc, d
<1> HIDE DEF One, Y
<1>5. q \in Seq(Seq(Y)) /\ Len(q) = n
  BY <1>2, <1>4
<1> HIDE DEF q
<1> DEFINE S == Seq(Y)
<1>6. S \in SUBSET Seq(Y) /\ <<>> \in S /\ \A a, b \in S : a \o b \in S
  OBVIOUS
<1>7. \A i \in 1..Len(q) : q[i] \in S
  BY <1>5, ElementOfSeq
<1>8. FlattenSeq(q) \in S
  <2> HIDE DEF S
  <2> QED
    BY <1>5, <1>6, <1>7, FlattenKeeps DEF S
<1> QED
  BY <1>3, <1>8 DEF Y

(* Where the commands of a token lie.                                      *)
NoMac(id, s) == s \in Seq(TokenOp(id)) /\ \A i \in 1..Len(s) : s[i].command # "MAC"

LEMMA FiveAscend ==
    ASSUME NEW id, NEW a \in Seq(TokenOp(id)), NEW b, NoMac(id, b), NEW c, NoMac(id, c),
           NEW d, NoMac(id, d), NEW e, NoMac(id, e), NEW base, NEW lo \in Int, NEW hi \in Int,
           lo <= hi, Ascending(a, base, lo, hi)
    PROVE  Ascending(a \o b \o c \o d \o e, base, lo, hi)
<1> DEFINE X == TokenOp(id)
<1>1. /\ Ascending(b, base, hi, hi) /\ b \in Seq(X)
      /\ Ascending(c, base, hi, hi) /\ c \in Seq(X)
      /\ Ascending(d, base, hi, hi) /\ d \in Seq(X)
      /\ Ascending(e, base, hi, hi) /\ e \in Seq(X)
  BY NoneAscends DEF NoMac
<1>2. hi <= hi /\ a \in Seq(X)
  OBVIOUS
<1> HIDE DEF X
<1> DEFINE u == a \o b  v == u \o c  w == v \o d
<1>3. u \in Seq(X) /\ Ascending(u, base, lo, hi)
  BY <1>1, <1>2, AscendingAppend
<1> HIDE DEF u
<1>4. v \in Seq(X) /\ Ascending(v, base, lo, hi)
  BY <1>1, <1>2, <1>3, AscendingAppend
<1> HIDE DEF v
<1>5. w \in Seq(X) /\ Ascending(w, base, lo, hi)
  BY <1>1, <1>2, <1>4, AscendingAppend
<1> HIDE DEF w
<1>6. Ascending(w \o e, base, lo, hi)
  BY <1>1, <1>2, <1>5, AscendingAppend
<1> QED
  BY <1>6 DEF u, v, w

LEMMA FiveRows ==
    ASSUME NEW Y, NEW a \in Seq(Y), NEW b \in Seq(Y), NEW c \in Seq(Y), NEW d \in Seq(Y),
           NEW e \in Seq(Y)
    PROVE  a \o b \o c \o d \o e \in Seq(Y)
OBVIOUS

TokenPlaced(id, req) ==
    LET s == Expand(id, req)  base == BaseAddr(req)  lo == Cfg.kt_col_start
    IN  /\ Ascending(s, base, lo, lo + AtLeast(0, MacCommands(req)))
        /\ s \in Seq(SpmAt(id, base, VocSummary(req).max_voc))

LEMMA TokenIsPlaced ==
    ASSUME NEW id, NEW req, IsToken(req), Cfg.enable_esdm
    PROVE  TokenPlaced(id, req)
<1> DEFINE base == BaseAddr(req)
           macs == MacCommands(req)
           X == TokenOp(id)
           max == VocSummary(req).max_voc
           Y == SpmAt(id, base, max)
           a == QkStage(base, macs)
           b == ElemaxStage(base)
           c == BgmuStage(VocSummary(req))
           p == PvStage(base, max)
           q == AccStage(base, AccCommands(req))
           d == If(max # 0, p \o q)
           op == CompleteOp(id)
           e == <<op>>
           lo == Cfg.kt_col_start
           hi == lo + AtLeast(0, macs)
           o == <<>>
<1>1. /\ base \in OpAddr /\ max \in Int /\ macs \in Int /\ AccCommands(req) \in Int
      /\ VocSummary(req).bgmu_reads \in Int
  BY BaseType, SummaryType
<1>2. /\ Inert(id, a) /\ Inert(id, b) /\ Inert(id, c) /\ Inert(id, q) /\ Inert(id, e)
      /\ Inert(id, o)
  BY StagesInert
<1>3. Expand(id, req) = a \o b \o c \o d \o e
  <2>1. req.type = "spare-pim"
    BY DEF IsToken
  <2> QED
    BY <2>1, TokenParts, Zenon DEF Expand
<1>4. lo \in Int /\ hi \in Int /\ lo <= hi
  <2>1. lo \in Int /\ AtLeast(0, macs) \in Nat
    BY <1>1, ConfigAssumption DEF AtLeast
  <2> HIDE DEF lo, macs
  <2> QED
    BY <2>1
<1>5. Ascending(a, base, lo, hi)
  <2> HIDE DEF base, macs
  <2> QED
    BY <1>1, QkStageAscends
<1>6. NoMac(id, b)
  <2>1. b \in Seq(X) /\ Len(b) = 2 /\ b[1].command = "MOV" /\ b[2].command = "EMUL"
    BY <1>1, ElemaxIs
  <2> HIDE DEF b, X
  <2>2. \A i \in 1..Len(b) : b[i].command # "MAC"
    BY <2>1
  <2> QED
    BY <2>1, <2>2 DEF NoMac, X
<1>7. NoMac(id, c)
  <2>1. c \in Seq(X) /\ \A i \in 1..Len(c) : c[i].command = "none"
    BY <1>1, BgmuIs
  <2> HIDE DEF c, X
  <2>2. \A i \in 1..Len(c) : c[i].command # "MAC"
    BY <2>1
  <2> QED
    BY <2>1, <2>2 DEF NoMac, X
<1>8. NoMac(id, e)
  <2>1. op \in X /\ op.command = "none"
    <3>1. 0 \in Int
      OBVIOUS
    <3> QED
      BY <3>1, SpecialOps
  <2> HIDE DEF op, X
  <2>2. e \in Seq(X) /\ Len(e) = 1 /\ e[1] = op
    BY <2>1
  <2> HIDE DEF e
  <2>3. \A i \in 1..Len(e) : e[i].command # "MAC"
    BY <2>1, <2>2
  <2> QED
    BY <2>2, <2>3 DEF NoMac, X
<1>9. NoMac(id, d)
  <2> DEFINE Z == {x \in X : x.command # "MAC"}
  <2>1. p \in Seq(Z)
    <3> DEFINE W == PvOp(id)
    <3>1. p \in Seq(W)
      BY <1>1, PvStageOps
    <3>2. W \in SUBSET Z
      BY DEF PvOp
    <3> HIDE DEF p, W, Z
    <3> QED
      BY <3>1, <3>2
  <2>2. q \in Seq(Z)
    <3>1. q \in Seq(X) /\ \A i \in 1..Len(q) : q[i].command = "ACC"
      BY <1>1, AccIs
    <3> HIDE DEF q, X
    <3>2. \A i \in 1..Len(q) : q[i] \in Z
      BY <3>1, ElementOfSeq
    <3> HIDE DEF Z
    <3> QED
      BY <3>1, <3>2
  <2>3. Z \in SUBSET X /\ \A x \in Z : x.command # "MAC"
    OBVIOUS
  <2> HIDE DEF p, q, X, Z, max
  <2>4. d \in Seq(Z)
    <3>1. p \o q \in Seq(Z) /\ o \in Seq(Z)
      BY <2>1, <2>2
    <3> QED
      BY <3>1 DEF If
  <2> HIDE DEF d
  <2>5. d \in Seq(X) /\ \A i \in 1..Len(d) : d[i].command # "MAC"
    BY <2>3, <2>4, ElementOfSeq
  <2> QED
    BY <2>5 DEF NoMac, X
<1>10. a \in Seq(Y) /\ b \in Seq(Y) /\ c \in Seq(Y) /\ q \in Seq(Y) /\ e \in Seq(Y) /\ o \in Seq(Y)
  <2> HIDE DEF a, b, c, q, e, o
  <2> QED
    BY <1>2, InertRows
<1>11. p \in Seq(Y)
  <2> HIDE DEF base, max
  <2> QED
    BY <1>1, PvStageRows
<1>12. a \in Seq(X)
  BY <1>2 DEF Inert
<1> HIDE DEF a, b, c, e, p, q, Y, X, hi, lo, base, max
<1>13. d \in Seq(Y)
  <2>1. p \o q \in Seq(Y)
    BY <1>10, <1>11
  <2> QED
    BY <1>10, <2>1 DEF If
<1> HIDE DEF d
<1>14. Ascending(a \o b \o c \o d \o e, base, lo, hi)
  BY <1>4, <1>5, <1>6, <1>7, <1>8, <1>9, <1>12, FiveAscend DEF X
<1>15. a \o b \o c \o d \o e \in Seq(Y)
  BY <1>10, <1>13, FiveRows
<1>16. Ascending(Expand(id, req), base, lo, hi) /\ Expand(id, req) \in Seq(Y)
  BY <1>3, <1>14, <1>15
<1> QED
  BY <1>16, Zenon DEF TokenPlaced, Y, hi, lo, base, max

LEMMA RowBefore ==
    ASSUME NEW c \in Nat \ {0}, NEW x \in Nat, NEW n \in Nat, x < n
    PROVE  x \div c \in Nat /\ x \div c < CeilDiv(n, c) /\ CeilDiv(n, c) \in Int
<1> DEFINE q == x \div c  r == x % c  m == n + c - 1  Q == m \div c  R == m % c
<1>1. q \in Nat /\ r \in 0..(c - 1) /\ x = c * q + r
  BY DivMod
<1>2. m \in Nat
  OBVIOUS
<1>3. Q \in Nat /\ R \in 0..(c - 1) /\ m = c * Q + R
  BY <1>2, DivMod
<1>4. CeilDiv(n, c) = Q
  BY DEF CeilDiv
<1> HIDE DEF q, r, Q, R
<1>5. c * Q > c * q
  <2> DEFINE s == c * Q  t == c * q
  <2>1. s \in Int /\ t \in Int
    BY <1>1, <1>3
  <2> HIDE DEF s, t
  <2>2. n + c - 1 = s + R /\ x = t + r
    BY <1>1, <1>3 DEF s, t
  <2>3. s > t
    BY <1>1, <1>3, <2>1, <2>2
  <2> QED
    BY <2>3 DEF s, t
<1>6. Q > q
  BY <1>1, <1>3, <1>5, Z3
<1> QED
  BY <1>1, <1>3, <1>4, <1>6 DEF q

LEMMA RowWithin ==
    ASSUME NEW c \in Nat \ {0}, NEW x \in Nat, NEW n \in Nat, x < n * c
    PROVE  x \div c \in Nat /\ x \div c < n
<1> DEFINE q == x \div c  r == x % c
<1>1. q \in Nat /\ r \in 0..(c - 1) /\ x = c * q + r
  BY DivMod
<1> HIDE DEF q, r
<1>2. c * q < c * n
  BY <1>1, Z3
<1>3. q < n
  BY <1>1, <1>2, Z3
<1> QED
  BY <1>1, <1>3 DEF q

(* Where the regions of a token fit, no two MACs that enqueue_qk_stage     *)
(* issues read the same column of K^T, and where those of K^T and V lie    *)
(* apart, no SPM of enqueue_sparse_pv_stage runs on a row that a MAC reads *)
(* (make_esdm_addr).                                                       *)
THEOREM TokenPlaces ==
    ASSUME NEW id, NEW req, IsToken(req)
    PROVE  ColumnsApart(Expand(id, req), req)
<1> DEFINE s == Expand(id, req)
           base == BaseAddr(req)
           b == base.row
           max == VocSummary(req).max_voc
           macs == MacCommands(req)
           c == ColumnsPerRow
           kt == Cfg.kt_row_offset
           v == Cfg.v_row_offset
           lo == Cfg.kt_col_start
           vlo == Cfg.v_col_start
           hi == lo + macs
           A == CommandsIn(s, "MAC")
           B == CommandsIn(s, "SPM")
<1> SUFFICES ASSUME Fits(req)
             PROVE  /\ \A i, j \in A : s[i].addr.row = s[j].addr.row /\ s[i].addr.col = s[j].addr.col
                                         => i = j
                    /\ /\ kt + RowsOf(lo, macs) <= v
                       /\ v + RowsOf(vlo, max) <= kt + NumRows
                       => \A i \in A, j \in B : s[i].addr.row # s[j].addr.row
  BY Zenon DEF ColumnsApart
<1>1. /\ Cfg.enable_esdm /\ c <= NumCols /\ lo >= 0 /\ vlo >= 0
      /\ hi <= NumRows * c /\ vlo + max <= NumRows * c
  BY DEF Fits
<1>2. /\ b \in Nat /\ max \in Nat /\ macs \in Int
      /\ kt \in Int /\ v \in Int /\ lo \in Int /\ vlo \in Int
      /\ c \in Nat \ {0} /\ NumRows \in Nat \ {0} /\ NumCols \in Nat \ {0}
  <2>1. max \in Nat /\ macs \in Int
    BY BaseType, SummaryType
  <2>2. b \in Nat
    <3>1. b = AtLeast(0, req.row)
      BY DEF BaseAddr
    <3>2. req.row \in Int
      BY DEF IsToken
    <3> QED
      BY <3>1, <3>2 DEF AtLeast
  <2> HIDE DEF b, max, macs, c
  <2> QED
    BY <2>1, <2>2, ConfigAssumption, MappingAssumption, ColumnsPerRowPositive DEF c
<1>3. TokenPlaced(id, req)
  BY <1>1, TokenIsPlaced
<1>4. s \in Seq(SpmAt(id, base, max))
  BY <1>3, Zenon DEF TokenPlaced
<1>5. PICK g : Ascends(s, base, lo, lo + AtLeast(0, macs), g)
  <2>1. Ascending(s, base, lo, lo + AtLeast(0, macs))
    BY <1>3, Zenon DEF TokenPlaced
  <2> QED
    BY <2>1, Zenon DEF Ascending
<1>6. /\ \A i \in A : /\ g[i] \in lo..((lo + AtLeast(0, macs)) - 1)
                      /\ s[i].addr.row = EsdmRow(b, kt, g[i]) /\ s[i].addr.col = EsdmCol(g[i])
      /\ \A i, j \in A : i < j => g[i] < g[j]
  <2> HIDE DEF s, base, lo, kt
  <2> DEFINE top == lo + AtLeast(0, macs)
  <2>1. Ascends(s, base, lo, top, g)
    BY <1>5
  <2> HIDE DEF top
  <2>2. \A i \in A : /\ g[i] \in lo..(top - 1)
                    /\ s[i].addr.row = EsdmRow(b, kt, g[i]) /\ s[i].addr.col = EsdmCol(g[i])
                    /\ \A j \in A : i < j => g[i] < g[j]
    BY <2>1, Zenon DEF Ascends, IsPlace, kt
  <2> QED
    BY <2>2 DEF top
<1>7. A \in SUBSET Int
  BY DEF CommandsIn
<1>8. \A j \in B : \E y \in vlo..(vlo + max - 1) : s[j].addr.row = EsdmRow(b, v, y)
  <2> TAKE j \in B
  <2> DEFINE Y == SpmAt(id, base, max)
  <2>1. j \in 1..Len(s) /\ s[j].command = "SPM"
    BY DEF CommandsIn
  <2>2. s[j] \in Y
    <3> HIDE DEF s, Y
    <3> QED
      BY <1>4, <2>1, ElementOfSeq DEF Y
  <2> HIDE DEF s, base
  <2>3. s[j].addr.row \in VRows(base, max)
    BY <2>1, <2>2 DEF SpmAt
  <2>4. PICK d \in 0..(max - 1) : s[j].addr.row = EsdmRow(b, v, vlo + d)
    BY <2>3 DEF VRows
  <2>5. vlo + d \in vlo..(vlo + max - 1)
    <3> HIDE DEF max, vlo
    <3> QED
      BY <1>2
  <2> QED
    BY <2>4, <2>5
<1> HIDE DEF s, base, b, max, macs, c, kt, v, lo, vlo, A, B
<1>9. ASSUME NEW x \in lo..((lo + AtLeast(0, macs)) - 1)
      PROVE  /\ x \in Nat /\ x < hi /\ hi \in Nat
             /\ x \div c \in Nat /\ x \div c < NumRows
  <2>1. x \in Nat /\ x < hi /\ hi \in Nat
    BY <1>1, <1>2 DEF AtLeast
  <2>2. x < NumRows * c
    <3> DEFINE m == NumRows * c
    <3>1. m \in Int /\ hi <= m
      BY <1>1, <1>2
    <3> HIDE DEF m, hi
    <3>2. x < m
      BY <2>1, <3>1
    <3> QED
      BY <3>2 DEF m
  <2>3. x \div c \in Nat /\ x \div c < NumRows
    BY <1>2, <2>1, <2>2, RowWithin
  <2> QED
    BY <2>1, <2>3
<1>10. ASSUME NEW i \in A, NEW j \in A,
              s[i].addr.row = s[j].addr.row, s[i].addr.col = s[j].addr.col
       PROVE  i = j
  <2> DEFINE x == g[i]  y == g[j]
  <2>1. /\ x \in Nat /\ x \div c \in Nat /\ x \div c < NumRows
        /\ y \in Nat /\ y \div c \in Nat /\ y \div c < NumRows
    BY <1>6, <1>9
  <2>2. EsdmRow(b, kt, x) = EsdmRow(b, kt, y) /\ EsdmCol(x) = EsdmCol(y)
    BY <1>6, <1>10
  <2>3. x \div c < (y \div c) + NumRows /\ y \div c < (x \div c) + NumRows
    <3> DEFINE p == x \div c  q == y \div c
    <3>1. p \in Nat /\ q \in Nat /\ p < NumRows /\ q < NumRows
      BY <2>1
    <3> HIDE DEF p, q
    <3>2. p < q + NumRows /\ q < p + NumRows
      BY <1>2, <3>1
    <3> QED
      BY <3>2 DEF p, q
  <2> HIDE DEF x, y
  <2>4. x = y
    BY <1>1, <1>2, <2>1, <2>2, <2>3, PlacesDistinct DEF c
  <2>5. ~(i < j) /\ ~(j < i)
    BY <1>6, <2>1, <2>4 DEF x, y
  <2> QED
    BY <1>7, <2>5
<1>11. ASSUME kt + RowsOf(lo, macs) <= v, v + RowsOf(vlo, max) <= kt + NumRows,
              NEW i \in A, NEW j \in B
       PROVE  s[i].addr.row # s[j].addr.row
  <2> DEFINE x == g[i]
  <2>1. x \in Nat /\ x < hi /\ hi \in Nat /\ s[i].addr.row = EsdmRow(b, kt, x)
    BY <1>6, <1>9
  <2>2. PICK y \in vlo..(vlo + max - 1) : s[j].addr.row = EsdmRow(b, v, y)
    BY <1>8
  <2> HIDE DEF x
  <2>3. y \in Nat /\ y < vlo + max /\ vlo + max \in Nat
    BY <1>1, <1>2
  <2> DEFINE p == x \div c  q == y \div c  P == RowsOf(lo, macs)  Q == RowsOf(vlo, max)
  <2>4. p \in Nat /\ p < P /\ P \in Int
    <3>1. P = CeilDiv(hi, c)
      BY DEF RowsOf, c
    <3> HIDE DEF hi
    <3>2. x \in Nat /\ x < hi /\ hi \in Nat /\ c \in Nat \ {0}
      BY <1>2, <2>1
    <3>3. x \div c \in Nat /\ x \div c < CeilDiv(hi, c) /\ CeilDiv(hi, c) \in Int
      BY <3>2, RowBefore
    <3> QED
      BY <3>1, <3>3, Zenon
  <2>5. q \in Nat /\ q < Q /\ Q \in Int
    <3> DEFINE w == vlo + max
    <3>1. Q = CeilDiv(w, c) /\ w \in Nat /\ y < w
      BY <2>3 DEF RowsOf, c
    <3> HIDE DEF w
    <3> QED
      <4>1. y \in Nat /\ c \in Nat \ {0}
        BY <1>2, <2>3
      <4>2. y \div c \in Nat /\ y \div c < CeilDiv(w, c) /\ CeilDiv(w, c) \in Int
        BY <3>1, <4>1, RowBefore
      <4> QED
        BY <3>1, <4>2, Zenon
  <2> HIDE DEF p, q, P, Q
  <2>6. kt + P <= v /\ v + Q <= kt + NumRows
    BY <1>11 DEF P, Q
  <2>7. kt + p < v + q /\ v + q < kt + p + NumRows
    BY <1>2, <2>4, <2>5, <2>6
  <2>8. EsdmRow(b, kt, x) # EsdmRow(b, v, y)
    BY <1>2, <2>1, <2>3, <2>7, RegionsApart DEF p, q, c
  <2> QED
    BY <2>1, <2>2, <2>8
<1> QED
  BY <1>10, <1>11

-----------------------------------------------------------------------------
(* The scan of a list.                                                     *)
Clamped(vocs) == [i \in 1..Len(vocs) |-> AtLeast(0, vocs[i])]
Records(value, k) == {i \in 1..k : value[i] > 0 /\ \A j \in 1..(i - 1) : value[j] < value[i]}

(* The maximum and the updates after k values.                             *)
Seen(k, seen, value) ==
    /\ \A j \in 1..k : value[j] <= seen.max
    /\ seen.max = 0 \/ \E j \in 1..k : value[j] = seen.max
    /\ IsFiniteSet(Records(value, k)) /\ seen.updates = Cardinality(Records(value, k))

LEMMA ClampedType ==
    ASSUME NEW vocs \in Seq(Int)
    PROVE  /\ Clamped(vocs) \in Seq(Int) /\ Len(Clamped(vocs)) = Len(vocs)
           /\ \A i \in 1..Len(vocs) : Clamped(vocs)[i] \in Nat
           /\ \A i \in 1..Len(vocs) : Clamped(vocs)[i] = AtLeast(0, vocs[i])
<1> DEFINE n == Len(vocs)
<1>1. n \in Nat /\ \A i \in 1..n : vocs[i] \in Int
  OBVIOUS
<1>2. \A i \in 1..n : AtLeast(0, vocs[i]) \in Nat /\ AtLeast(0, vocs[i]) \in Int
  BY <1>1 DEF AtLeast
<1>3. Clamped(vocs) = [i \in 1..n |-> AtLeast(0, vocs[i])]
  BY DEF Clamped
<1> HIDE DEF n
<1>4. Clamped(vocs) \in Seq(Int) /\ Len(Clamped(vocs)) = n
  BY <1>1, <1>2, <1>3
<1> QED
  BY <1>2, <1>3, <1>4 DEF n

LEMMA RecordsGrow ==
    ASSUME NEW k \in Nat, NEW value
    PROVE  /\ value[k + 1] > 0 /\ (\A j \in 1..k : value[j] < value[k + 1])
              => Records(value, k + 1) = Records(value, k) \cup {k + 1}
           /\ ~(value[k + 1] > 0 /\ (\A j \in 1..k : value[j] < value[k + 1]))
              => Records(value, k + 1) = Records(value, k)
           /\ k + 1 \notin Records(value, k)
<1>1. 1..(k + 1) = (1..k) \cup {k + 1} /\ k + 1 \notin 1..k /\ (k + 1) - 1 = k
  OBVIOUS
<1> QED
  BY <1>1 DEF Records

LEMMA SeenNext ==
    ASSUME NEW k \in Nat, NEW value, \A i \in 1..(k + 1) : value[i] \in Nat,
           NEW seen \in [max : Nat, total : Int, updates : Int], Seen(k, seen, value),
           NEW voc \in Int, value[k + 1] = AtLeast(0, voc)
    PROVE  Seen(k + 1, ScanVoc(seen, voc), value)
<1> DEFINE tmp == value[k + 1]
           next == ScanVoc(seen, voc)
           higher == tmp > 0 /\ \A j \in 1..k : value[j] < tmp
<1>1. tmp \in Nat /\ seen.max \in Nat /\ seen.updates \in Int /\ \A j \in 1..k : value[j] \in Nat
  OBVIOUS
<1>2. /\ next.max = AtLeast(seen.max, tmp)
      /\ next.updates = seen.updates + IF tmp > seen.max THEN 1 ELSE 0
  BY DEF ScanVoc
<1>3. /\ \A j \in 1..k : value[j] <= seen.max
      /\ seen.max = 0 \/ \E j \in 1..k : value[j] = seen.max
      /\ IsFiniteSet(Records(value, k)) /\ seen.updates = Cardinality(Records(value, k))
  BY DEF Seen
<1>4. 1..(k + 1) = (1..k) \cup {k + 1}
  OBVIOUS
<1>5. tmp > seen.max <=> higher
  <2>1. tmp > seen.max => higher
    BY <1>1, <1>3
  <2>2. higher => tmp > seen.max
    BY <1>1, <1>3
  <2> QED
    BY <2>1, <2>2
<1>6. next.max \in Nat /\ seen.max <= next.max /\ tmp <= next.max
      /\ (next.max = seen.max \/ next.max = tmp)
  BY <1>1, <1>2 DEF AtLeast
<1>7. \A j \in 1..(k + 1) : value[j] <= next.max
  <2> TAKE j \in 1..(k + 1)
  <2>1. CASE j \in 1..k
    BY <1>1, <1>3, <1>6, <2>1
  <2>2. CASE j = k + 1
    BY <1>6, <2>2
  <2> QED
    BY <1>4, <2>1, <2>2
<1>8. next.max = 0 \/ \E j \in 1..(k + 1) : value[j] = next.max
  BY <1>3, <1>4, <1>6
<1>9. /\ IsFiniteSet(Records(value, k + 1))
      /\ next.updates = Cardinality(Records(value, k + 1))
  <2>1. CASE higher
    <3>1. Records(value, k + 1) = Records(value, k) \cup {k + 1} /\ k + 1 \notin Records(value, k)
      BY <2>1, RecordsGrow
    <3>2. next.updates = seen.updates + 1
      BY <1>2, <1>5, <2>1
    <3> HIDE DEF next, tmp, higher
    <3>3. /\ IsFiniteSet(Records(value, k) \cup {k + 1})
          /\ Cardinality(Records(value, k) \cup {k + 1}) = Cardinality(Records(value, k)) + 1
      BY <1>3, <3>1, FS_AddElement
    <3> QED
      BY <1>3, <3>1, <3>2, <3>3
  <2>2. CASE ~higher
    <3>1. Records(value, k + 1) = Records(value, k)
      BY <2>2, RecordsGrow
    <3>2. next.updates = seen.updates
      BY <1>1, <1>2, <1>5, <2>2
    <3> QED
      BY <1>3, <3>1, <3>2
  <2> QED
    BY <2>1, <2>2
<1> QED
  BY <1>7, <1>8, <1>9 DEF Seen

LEMMA ScannedSeen ==
    ASSUME NEW vocs \in Seq(Int), NEW g, Scans(g, vocs)
    PROVE  Seen(Len(vocs), g[Len(vocs)], Clamped(vocs))
<1> DEFINE n == Len(vocs)
           value == Clamped(vocs)
           S == {k \in 0..n : Seen(k, g[k], value)}
<1>1. n \in Nat /\ \A i \in 1..n : vocs[i] \in Int
  OBVIOUS
<1>2. /\ g[0] = NothingSeen
      /\ \A k \in 1..n : g[k] = ScanVoc(g[k - 1], vocs[k])
      /\ \A k \in 0..n : g[k] \in [max : Nat, total : Int, updates : Int]
  BY DEF Scans
<1>3. \A i \in 1..n : value[i] \in Nat /\ value[i] = AtLeast(0, vocs[i])
  BY ClampedType
<1> HIDE DEF n, value
<1>4. 0 \in S
  <2>1. 1..0 = {} /\ 0 \in 0..n
    BY <1>1
  <2>2. g[0].max = 0 /\ g[0].updates = 0
    BY <1>2 DEF NothingSeen
  <2>3. Records(value, 0) = {}
    BY <2>1 DEF Records
  <2>4. IsFiniteSet({}) /\ Cardinality({}) = 0
    BY FS_EmptySet
  <2> QED
    BY <2>1, <2>2, <2>3, <2>4 DEF Seen
<1>5. ASSUME NEW k \in 0..(n - 1), k \in S PROVE k + 1 \in S
  <2>1. k \in Nat /\ k + 1 \in 1..n /\ k + 1 \in 0..n /\ (k + 1) - 1 = k /\ k \in 0..n
    BY <1>1
  <2>2. /\ g[k + 1] = ScanVoc(g[k], vocs[k + 1])
        /\ g[k] \in [max : Nat, total : Int, updates : Int]
        /\ vocs[k + 1] \in Int /\ value[k + 1] = AtLeast(0, vocs[k + 1])
    BY <1>1, <1>2, <1>3, <2>1
  <2>3. \A i \in 1..(k + 1) : value[i] \in Nat
    BY <1>1, <1>3, <2>1
  <2>4. Seen(k, g[k], value)
    BY <1>5
  <2>5. Seen(k + 1, ScanVoc(g[k], vocs[k + 1]), value)
    BY <2>1, <2>2, <2>3, <2>4, SeenNext
  <2> QED
    BY <2>1, <2>2, <2>5
<1>6. \A k \in 0..n : k \in S
  <2> HIDE DEF S
  <2>1. 0 \in Nat
    OBVIOUS
  <2> QED
    BY <1>1, <1>4, <1>5, <2>1, UpTo
<1>7. n \in 0..n
  BY <1>1
<1> QED
  BY <1>6, <1>7 DEF n, value

(* The running totals are the sums of the clamped values.                  *)
LEMMA ScannedSum ==
    ASSUME NEW vocs \in Seq(Int), NEW g, Scans(g, vocs)
    PROVE  g[Len(vocs)].total = SumOf(Clamped(vocs))
<1> DEFINE n == Len(vocs)
           value == Clamped(vocs)
           h == [k \in 0..n |-> g[k].total]
<1>1. n \in Nat /\ \A i \in 1..n : vocs[i] \in Int
  OBVIOUS
<1>2. /\ g[0] = NothingSeen
      /\ \A k \in 1..n : g[k] = ScanVoc(g[k - 1], vocs[k])
  BY DEF Scans
<1>3. value \in Seq(Int) /\ Len(value) = n /\ \A i \in 1..n : value[i] = AtLeast(0, vocs[i])
  BY ClampedType
<1> HIDE DEF n, value
<1>4. h[0] = 0
  <2>1. 0 \in 0..n
    BY <1>1
  <2> QED
    BY <1>2, <2>1 DEF NothingSeen
<1>5. \A k \in 1..n : h[k] = h[k - 1] + value[k]
  <2> TAKE k \in 1..n
  <2>1. k \in 0..n /\ k - 1 \in 0..n
    BY <1>1
  <2>2. h[k] = g[k].total /\ h[k - 1] = g[k - 1].total
    BY <2>1
  <2>3. ScanVoc(g[k - 1], vocs[k]).total = g[k - 1].total + AtLeast(0, vocs[k])
    BY DEF ScanVoc
  <2>4. value[k] = AtLeast(0, vocs[k]) /\ g[k] = ScanVoc(g[k - 1], vocs[k])
    BY <1>2, <1>3
  <2> QED
    BY <2>2, <2>3, <2>4
<1>6. h[n] = g[n].total
  BY <1>1
<1> HIDE DEF h
<1>7. Sums(h, value)
  BY <1>3, <1>4, <1>5 DEF Sums
<1>8. SumOf(value) = h[n]
  BY <1>3, <1>7, SumIs
<1> QED
  BY <1>6, <1>8 DEF n, value

LEMMA GroupsRead ==
    ASSUME NEW n \in Nat, NEW b \in Nat \ {0}
    PROVE  CeilDiv(n, b) * b >= n /\ (CeilDiv(n, b) - 1) * b < n
<1> DEFINE c == n + b - 1
           r == c \div b
           x == b * r
<1>1. c \in Nat /\ c = n + (b - 1)
  OBVIOUS
<1> HIDE DEF c
<1>2. r \in Nat /\ c % b \in 0..(b - 1) /\ c = x + (c % b)
  BY <1>1, DivMod
<1>3. CeilDiv(n, b) = r
  BY DEF CeilDiv, c
<1> HIDE DEF r
<1>4. x \in Nat /\ r * b = x /\ (r - 1) * b = x - b
  BY <1>2, Z3
<1> HIDE DEF x
<1>5. x >= n /\ x - b < n
  BY <1>1, <1>2, <1>4
<1> QED
  BY <1>3, <1>4, <1>5

(* For every list and every geometry: read_bgmu_vocs_and_find_max()        *)
(* (sparepim_controller.cpp:423-460) finds the maximum and the sum of the  *)
(* clamped values, counts one update for each value above all earlier      *)
(* ones, and reads as many register groups as the list fills.              *)
THEOREM TokenScan ==
    ASSUME NEW req, IsToken(req)
    PROVE  ScanFindsVocs(req)
<1> SUFFICES ASSUME req.vocs # <<>> PROVE ScanFindsVocs(req)
  BY DEF ScanFindsVocs
<1> DEFINE vocs == req.vocs
           n == Len(vocs)
           value == Clamped(vocs)
           summary == VocSummary(req)
<1>1. vocs \in Seq(Int) /\ vocs # <<>>
  BY DEF IsToken
<1> DEFINE scan == FoldLeft(ScanVoc, NothingSeen, vocs)
<1>2. PICK g : Scans(g, vocs) /\ scan = g[n]
  BY <1>1, ScanSteps
<1>3. /\ summary.max_voc = scan.max /\ summary.total_voc = scan.total
      /\ summary.max_updates = scan.updates /\ summary.bgmu_reads = CeilDiv(n, NumBanks)
  <2>1. VocSummary(req) = [max_voc |-> scan.max, total_voc |-> scan.total,
                           max_updates |-> scan.updates, bgmu_reads |-> CeilDiv(n, NumBanks),
                           voc_values |-> n]
    BY <1>1, Zenon DEF VocSummary, NothingSeen
  <2> HIDE DEF scan, n, vocs
  <2> QED
    BY <2>1
<1> HIDE DEF scan, summary
<1>4. n \in Nat /\ n > 0
  BY <1>1
<1>5. /\ value \in Seq(Int) /\ Len(value) = n /\ DOMAIN value = 1..n
      /\ \A i \in 1..n : value[i] \in Nat
  BY <1>1, ClampedType
<1>6. Seen(n, scan, value)
  BY <1>1, <1>2, ScannedSeen
<1>7. scan.total = SumOf(value)
  BY <1>1, <1>2, ScannedSum
<1>8. scan.max \in Nat
  <2>1. n \in 0..n
    BY <1>4
  <2> QED
    BY <1>2, <2>1 DEF Scans
<1>9. [i \in 1..Len(req.vocs) |-> AtLeast(0, req.vocs[i])] = value
  BY DEF Clamped
<1> HIDE DEF value, n, vocs
<1>10. /\ \A j \in 1..n : value[j] <= scan.max
       /\ scan.max = 0 \/ \E j \in 1..n : value[j] = scan.max
       /\ scan.updates = Cardinality(Records(value, n))
  BY <1>6 DEF Seen
<1>11. Max({value[i] : i \in DOMAIN value}) = scan.max
  <2> DEFINE V == {value[i] : i \in DOMAIN value}
  <2>1. \A x \in V : x \in Nat /\ x <= scan.max
    BY <1>5, <1>10
  <2>2. scan.max \in V
    <3>1. 1 \in 1..n
      BY <1>4
    <3>2. \E j \in 1..n : value[j] = scan.max
      <4>1. CASE scan.max = 0
        <5>1. value[1] \in Nat /\ value[1] <= 0
          BY <1>5, <1>10, <3>1, <4>1
        <5>2. value[1] = scan.max
          BY <4>1, <5>1
        <5> QED
          BY <3>1, <5>2
      <4> QED
        BY <1>10, <4>1
    <3> QED
      BY <1>5, <3>2
  <2> HIDE DEF V
  <2>3. \A y \in V : scan.max >= y
    BY <1>8, <2>1
  <2>4. \E x \in V : \A y \in V : x >= y
    BY <2>2, <2>3
  <2>5. Max(V) \in V /\ \A y \in V : Max(V) >= y
    BY <2>4, Zenon DEF Max
  <2>6. Max(V) = scan.max
    BY <1>8, <2>1, <2>2, <2>5
  <2> QED
    BY <2>6 DEF V
<1>12. Records(value, n) = {i \in DOMAIN value :
                               value[i] > 0 /\ \A j \in 1..(i - 1) : value[j] < value[i]}
  BY <1>5 DEF Records
<1>13. CeilDiv(n, NumBanks) * NumBanks >= n /\ (CeilDiv(n, NumBanks) - 1) * NumBanks < n
  <2>1. NumBanks \in Nat \ {0}
    BY ConfigAssumption
  <2> QED
    BY <1>4, <2>1, GroupsRead
<1> DEFINE Finds(list) ==
             /\ summary.max_voc = Max({list[i] : i \in DOMAIN list})
             /\ summary.total_voc = SumOf(list)
             /\ summary.max_updates = Cardinality({i \in DOMAIN list :
                    list[i] > 0 /\ \A j \in 1..(i - 1) : list[j] < list[i]})
             /\ summary.bgmu_reads * NumBanks >= n
             /\ (summary.bgmu_reads - 1) * NumBanks < n
<1>14. Finds(value)
  BY <1>3, <1>7, <1>10, <1>11, <1>12, <1>13
<1> HIDE DEF Finds
<1>15. Finds([i \in 1..Len(req.vocs) |-> AtLeast(0, req.vocs[i])])
  BY <1>9, <1>14
<1> QED
  BY <1>15, Zenon DEF Finds, ScanFindsVocs, summary, n, vocs

(* The path of every bank has coordinates that the geometry has.           *)
LEMMA QuotientBelow ==
    ASSUME NEW a \in Nat, NEW b \in Nat \ {0}, NEW c \in Nat, a < b * c
    PROVE  a \div b \in 0..(c - 1)
<1> DEFINE q == a \div b  r == a % b
<1>1. q \in Nat /\ r \in 0..(b - 1) /\ a = b * q + r
  BY DivMod
<1> HIDE DEF q, r
<1>2. q < c
  <2> SUFFICES ASSUME c <= q PROVE FALSE
    BY <1>1
  <2>1. b * c <= b * q /\ b * c \in Int /\ b * q \in Int
    BY <1>1, Z3
  <2> DEFINE x == b * c  y == b * q
  <2>2. x <= y /\ a = y + r /\ a < x /\ x \in Int /\ y \in Int
    BY <1>1, <2>1
  <2> HIDE DEF x, y
  <2> QED
    BY <1>1, <2>2
<1> QED
  BY <1>1, <1>2 DEF q

LEMMA BankInside ==
    ASSUME NEW k \in 0..(TotalBanks - 1)
    PROVE  \E p \in 0..(NumPchs - 1), g \in 0..(NumBgs - 1), b \in 0..(NumBanks - 1) :
              BankPath(k) = <<p, g, b>>
<1> DEFINE P == NumPchs  G == NumBgs  v == NumBanks
           w == G * v
           r == k % w
<1>1. P \in Nat \ {0} /\ G \in Nat \ {0} /\ v \in Nat \ {0}
  BY ConfigAssumption
<1>2. BankPath(k) = <<k \div w, r \div v, k % v>>
  BY Zenon DEF BankPath
<1>3. TotalBanks = P * G * v
  BY DEF TotalBanks
<1>4. k \in Nat /\ k < TotalBanks
  BY BanksNat
<1> HIDE DEF P, G, v
<1>5. w \in Nat \ {0} /\ P * G * v = w * P /\ w = v * G
  BY <1>1, Z3
<1>6. k < w * P
  BY <1>3, <1>4, <1>5
<1> HIDE DEF w
<1>7. k \div w \in 0..(P - 1)
  BY <1>1, <1>4, <1>5, <1>6, QuotientBelow
<1>8. r \in Nat /\ r < v * G
  <2>1. k % w \in 0..(w - 1)
    BY <1>4, <1>5, DivMod
  <2> QED
    BY <1>5, <2>1
<1> HIDE DEF r
<1>9. r \div v \in 0..(G - 1)
  BY <1>1, <1>8, QuotientBelow
<1>10. k % v \in 0..(v - 1)
  BY <1>1, <1>4, DivMod
<1> QED
  BY <1>2, <1>7, <1>9, <1>10 DEF P, G, v

-----------------------------------------------------------------------------
(* No SPM of a token is configured for more than its largest VOC.          *)
UpToVoc(id, voc) ==
    {op \in TokenOp(id) : op.kind = "ConfigureSPM" => \E v \in 0..voc : op.cycles = SpmLatency(v)}

LEMMA InertUpTo ==
    ASSUME NEW id, NEW s, Inert(id, s), NEW voc
    PROVE  s \in Seq(UpToVoc(id, voc))
<1> DEFINE X == TokenOp(id)  Y == UpToVoc(id, voc)
<1>1. s \in Seq(X) /\ \A i \in 1..Len(s) : s[i].kind # "ConfigureSPM"
  BY DEF Inert
<1>2. \A op \in X : op.kind # "ConfigureSPM" => op \in Y
  BY DEF UpToVoc
<1> HIDE DEF X, Y
<1>3. \A i \in 1..Len(s) : s[i] \in Y
  BY <1>1, <1>2, ElementOfSeq
<1>4. s \in Seq(Y)
  BY <1>1, <1>3
<1> QED
  BY <1>4 DEF Y

LEMMA PvRowUpTo ==
    ASSUME NEW id, NEW row \in OpAddr, NEW most \in Int, NEW voc \in 0..most
    PROVE  PvRow(row, voc) \in Seq(UpToVoc(id, most))
<1> DEFINE X == TokenOp(id)  Y == UpToVoc(id, most)  flag == Cfg.enable_act_spm_pre
           set == ConfigureSpmOp(SpmLatency(voc))
           op == CommandOp("SPM", AllBanks(row))
           a == If(flag, PerBank("ACT", row))
           z == If(flag, PerBank("PRE", row))
           c == <<set>>
           m == <<op>>
           R == QkOp(id) \cap PvOp(id)
<1>1. voc \in Int /\ SpmLatency(voc) \in Int
  BY SpmLatencyInt
<1>2. set \in X /\ set.cycles = SpmLatency(voc)
  BY <1>1, SpecialOps DEF ConfigureSpmOp
<1>3. op \in X /\ op.kind = "Command"
  BY AddrTypes, CommandType
<1>4. PvRow(row, voc) = c \o a \o m \o z
  BY Zenon DEF PvRow
<1>5. a \in Seq(R) /\ z \in Seq(R)
  BY PerBankOps
<1>6. set \in Y /\ op \in Y /\ R \in SUBSET Y
  <2> HIDE DEF set, op
  <2>1. set \in Y
    BY <1>2 DEF UpToVoc
  <2>2. op \in Y
    BY <1>3 DEF UpToVoc
  <2>3. R \in SUBSET Y
    BY DEF UpToVoc, QkOp
  <2> QED
    BY <2>1, <2>2, <2>3
<1> HIDE DEF a, z, X, R, Y, set, op
<1>7. a \in Seq(Y) /\ z \in Seq(Y) /\ c \in Seq(Y) /\ m \in Seq(Y)
  BY <1>5, <1>6
<1> HIDE DEF c, m
<1>8. c \o a \o m \o z \in Seq(Y)
  BY <1>7
<1> QED
  BY <1>4, <1>8 DEF Y

LEMMA PvStageUpTo ==
    ASSUME NEW id, NEW base \in OpAddr, NEW maxVoc \in Nat
    PROVE  PvStage(base, maxVoc) \in Seq(UpToVoc(id, maxVoc))
<1> DEFINE Y == UpToVoc(id, maxVoc)
           start == Cfg.v_col_start
           off == Cfg.v_row_offset
           c == Chunks(start, maxVoc)
           n == Len(c)
           One(chunk) == PvRow(EsdmAddr(base, off, start + chunk.first), chunk.len)
           q == [k \in 1..n |-> One(c[k])]
<1>1. start \in Int /\ off \in Int /\ maxVoc \in Int /\ maxVoc \in 0..maxVoc
  BY ConfigAssumption
<1>2. CASE ~Cfg.enable_esdm
  <2>1. PvStage(base, maxVoc) = PvRow(base, maxVoc)
    BY <1>2, Zenon DEF PvStage
  <2>2. PvRow(base, maxVoc) \in Seq(Y)
    BY <1>1, PvRowUpTo
  <2> QED
    BY <2>1, <2>2
<1>3. CASE Cfg.enable_esdm
  <2>1. /\ n \in Nat
        /\ \A k \in 1..n : c[k].first \in Int /\ c[k].len \in 0..maxVoc
    <3>1. PassesEnd(c, start, maxVoc)
      BY <1>1, PassEnds
    <3> HIDE DEF c
    <3>2. n \in Nat /\ \A k \in 1..n : /\ c[k].first \in 0..(maxVoc - 1)
                                       /\ c[k].len \in 1..(maxVoc - c[k].first)
      BY <3>1, Zenon DEF PassesEnd
    <3> QED
      BY <3>2
  <2>2. PvStage(base, maxVoc) = FlattenSeq(q)
    BY <1>3, Zenon DEF PvStage, PvChunks
  <2> HIDE DEF c, n
  <2>3. ASSUME NEW k \in 1..n PROVE One(c[k]) \in Seq(Y)
    <3> DEFINE d == c[k].first  row == EsdmAddr(base, off, start + d)  voc == c[k].len
    <3>1. start + d \in Int /\ voc \in 0..maxVoc
      BY <1>1, <2>1
    <3>2. row \in OpAddr
      BY <1>1, <3>1, EsdmAddrType
    <3> HIDE DEF d, row, voc
    <3>3. PvRow(row, voc) \in Seq(Y)
      BY <1>1, <3>1, <3>2, PvRowUpTo
    <3> QED
      BY <3>3 DEF row, voc, d
  <2> HIDE DEF One, Y
  <2>4. q \in Seq(Seq(Y)) /\ Len(q) = n
    BY <2>1, <2>3
  <2> HIDE DEF q
  <2> DEFINE S == Seq(Y)
  <2>5. S \in SUBSET Seq(Y) /\ <<>> \in S /\ \A a, b \in S : a \o b \in S
    OBVIOUS
  <2>6. \A i \in 1..Len(q) : q[i] \in S
    BY <2>4, ElementOfSeq
  <2>7. FlattenSeq(q) \in S
    <3> HIDE DEF S
    <3> QED
      BY <2>4, <2>5, <2>6, FlattenKeeps DEF S
  <2> QED
    BY <2>2, <2>7 DEF Y
<1> QED
  BY <1>2, <1>3

LEMMA TokenUpTo ==
    ASSUME NEW id, NEW req, IsToken(req)
    PROVE  Expand(id, req) \in Seq(UpToVoc(id, VocSummary(req).max_voc))
<1> DEFINE base == BaseAddr(req)
           max == VocSummary(req).max_voc
           Y == UpToVoc(id, max)
           a == QkStage(base, MacCommands(req))
           b == ElemaxStage(base)
           c == BgmuStage(VocSummary(req))
           p == PvStage(base, max)
           q == AccStage(base, AccCommands(req))
           d == If(max # 0, p \o q)
           e == <<CompleteOp(id)>>
           o == <<>>
<1>1. base \in OpAddr /\ max \in Nat
  BY BaseType, SummaryType
<1>2. /\ Inert(id, a) /\ Inert(id, b) /\ Inert(id, c) /\ Inert(id, q) /\ Inert(id, e)
      /\ Inert(id, o)
  BY StagesInert
<1>3. Expand(id, req) = a \o b \o c \o d \o e
  <2>1. req.type = "spare-pim"
    BY DEF IsToken
  <2> QED
    BY <2>1, TokenParts, Zenon DEF Expand
<1>4. a \in Seq(Y) /\ b \in Seq(Y) /\ c \in Seq(Y) /\ q \in Seq(Y) /\ e \in Seq(Y) /\ o \in Seq(Y)
  <2> HIDE DEF a, b, c, q, e, o
  <2> QED
    BY <1>2, InertUpTo
<1>5. p \in Seq(Y)
  <2> HIDE DEF base, max
  <2> QED
    BY <1>1, PvStageUpTo
<1> HIDE DEF a, b, c, e, p, q, Y, base, max
<1>6. d \in Seq(Y)
  <2>1. p \o q \in Seq(Y)
    BY <1>4, <1>5
  <2> QED
    BY <1>4, <2>1 DEF If
<1> HIDE DEF d
<1>7. a \o b \o c \o d \o e \in Seq(Y)
  BY <1>4, <1>6, FiveRows
<1> QED
  BY <1>3, <1>7 DEF Y, max

(* With a cost per VOC that is not negative, no SPM takes longer than one  *)
(* for any bound on the largest VOC of the token.                          *)
LEMMA TokenLatenciesBounded ==
    ASSUME NEW id, NEW req, IsToken(req), Cfg.spm_cycles_per_voc >= 0,
           NEW most \in Int, VocSummary(req).max_voc <= most
    PROVE  \A i \in ConfiguresIn(Expand(id, req)) : Expand(id, req)[i].cycles <= SpmLatency(most)
<1> DEFINE s == Expand(id, req)
           max == VocSummary(req).max_voc
           Y == UpToVoc(id, max)
           f == Cfg.spm_fixed_cycles
           p == Cfg.spm_cycles_per_voc
<1>1. s \in Seq(Y)
  BY TokenUpTo
<1>2. f \in Int /\ p \in Nat /\ max \in Nat /\ max <= most
  BY SummaryType, ConfigAssumption
<1>3. ASSUME NEW v \in 0..max PROVE SpmLatency(v) <= SpmLatency(most)
  <2> HIDE DEF f, p, max
  <2>1. v \in Int /\ v <= most
    BY <1>2
  <2> DEFINE x == v * p  y == most * p
  <2>2. x <= y /\ x \in Int /\ y \in Int
    BY <1>2, <2>1, Z3
  <2>3. SpmLatency(v) = AtLeast(1, f + x) /\ SpmLatency(most) = AtLeast(1, f + y)
    BY Zenon DEF SpmLatency, f, p
  <2> HIDE DEF x, y
  <2>4. AtLeast(1, f + x) <= AtLeast(1, f + y)
    BY <1>2, <2>2 DEF AtLeast
  <2> QED
    BY <2>3, <2>4
<1>4. \A op \in Y : op.kind = "ConfigureSPM" => \E v \in 0..max : op.cycles = SpmLatency(v)
  BY DEF UpToVoc
<1> HIDE DEF s, Y, max
<1>5. \A i \in 1..Len(s) : s[i] \in Y
  BY <1>1, ElementOfSeq
<1>6. \A i \in ConfiguresIn(s) : s[i].cycles <= SpmLatency(most)
  <2> TAKE i \in ConfiguresIn(s)
  <2>1. i \in 1..Len(s) /\ s[i].kind = "ConfigureSPM"
    BY DEF ConfiguresIn
  <2>2. PICK v \in 0..max : s[i].cycles = SpmLatency(v)
    BY <1>4, <1>5, <2>1
  <2> QED
    BY <1>3, <2>2
<1> QED
  BY <1>6 DEF s

-----------------------------------------------------------------------------
(* What the list of a token says, when its values are no less than zero.   *)
LEMMA ElementsSum ==
    ASSUME NEW s \in Seq(Int), \A i \in 1..Len(s) : s[i] >= 0
    PROVE  SumOf(s) \in Nat /\ \A j \in 1..Len(s) : s[j] <= SumOf(s)
<1>1. PICK g : Sums(g, s) /\ SumOf(s) = g[Len(s)]
  BY Summed
<1> DEFINE n == Len(s)
           S == {k \in 0..n : g[k] \in Nat /\ \A j \in 1..k : s[j] <= g[k]}
<1>2. n \in Nat /\ \A k \in 1..n : s[k] \in Nat
  OBVIOUS
<1>3. g[0] = 0 /\ \A k \in 1..n : g[k] = g[k - 1] + s[k]
  BY <1>1 DEF Sums
<1> HIDE DEF n
<1>4. 0 \in S
  <2>1. 1..0 = {} /\ 0 \in 0..n
    BY <1>2
  <2> QED
    BY <1>3, <2>1
<1>5. ASSUME NEW k \in 0..(n - 1), k \in S PROVE k + 1 \in S
  <2>1. k + 1 \in 1..n /\ k + 1 \in 0..n /\ (k + 1) - 1 = k /\ k \in Nat
    BY <1>2
  <2>2. g[k + 1] = g[k] + s[k + 1] /\ s[k + 1] \in Nat /\ g[k] \in Nat
    BY <1>2, <1>3, <1>5, <2>1
  <2>3. \A j \in 1..k : s[j] <= g[k] /\ s[j] \in Nat
    BY <1>2, <1>5, <2>1
  <2>4. \A j \in 1..(k + 1) : j \in 1..k \/ j = k + 1
    BY <2>1
  <2>5. \A j \in 1..(k + 1) : s[j] <= g[k + 1]
    BY <2>2, <2>3, <2>4
  <2> QED
    BY <2>1, <2>2, <2>5
<1>6. \A k \in 0..n : k \in S
  <2> HIDE DEF S
  <2>1. 0 \in Nat
    OBVIOUS
  <2> QED
    BY <1>2, <1>4, <1>5, <2>1, UpTo
<1>7. n \in 0..n
  BY <1>2
<1> QED
  BY <1>1, <1>6, <1>7 DEF n

LEMMA GroupsFull ==
    ASSUME NEW g \in Nat \ {0}, NEW b \in Nat \ {0}
    PROVE  CeilDiv(g * b, b) = g
<1> DEFINE n == g * b  r == CeilDiv(n, b)
<1>1. n \in Nat
  OBVIOUS
<1>2. r \in Int /\ r * b >= n /\ (r - 1) * b < n
  <2> HIDE DEF n
  <2> QED
    BY <1>1, CeilDivInt, GroupsRead
<1> HIDE DEF r
<1>3. r >= g
  BY <1>2, Z3
<1>4. r - 1 < g
  BY <1>2, Z3
<1>5. r = g
  BY <1>2, <1>3, <1>4
<1> QED
  BY <1>5 DEF r

LEMMA ListScanned ==
    ASSUME NEW vocs \in Seq(Int), \A i \in 1..Len(vocs) : vocs[i] >= 0
    PROVE  LET scan == FoldLeft(ScanVoc, NothingSeen, vocs)
           IN  /\ scan.max \in Nat /\ scan.max = Max({0} \cup Range(vocs))
               /\ scan.total \in Nat /\ scan.total = SumOf(vocs)
               /\ scan.max <= scan.total
<1> DEFINE n == Len(vocs)
           scan == FoldLeft(ScanVoc, NothingSeen, vocs)
<1>1. n \in Nat /\ DOMAIN vocs = 1..n /\ \A i \in 1..n : vocs[i] \in Nat
  OBVIOUS
<1>2. PICK g : Scans(g, vocs) /\ scan = g[n]
  BY <1>1, ScanSteps
<1>3. Clamped(vocs) = vocs
  <2>1. \A i \in 1..n : AtLeast(0, vocs[i]) = vocs[i]
    BY <1>1 DEF AtLeast
  <2>2. /\ Clamped(vocs) \in Seq(Int) /\ Len(Clamped(vocs)) = n
        /\ \A i \in 1..n : Clamped(vocs)[i] = vocs[i]
    BY <1>1, <2>1, ClampedType
  <2> QED
    BY <1>1, <2>2, SameSequence DEF n
<1>4. Seen(n, scan, vocs)
  BY <1>2, <1>3, ScannedSeen
<1>5. scan.total = SumOf(vocs)
  BY <1>2, <1>3, ScannedSum
<1>6. SumOf(vocs) \in Nat /\ \A j \in 1..n : vocs[j] <= SumOf(vocs)
  BY <1>1, ElementsSum
<1>7. scan.max \in Nat
  <2>1. n \in 0..n
    BY <1>1
  <2> QED
    BY <1>2, <2>1 DEF Scans
<1> HIDE DEF scan, n
<1>8. /\ \A j \in 1..n : vocs[j] <= scan.max
      /\ scan.max = 0 \/ \E j \in 1..n : vocs[j] = scan.max
  BY <1>4 DEF Seen
<1>9. scan.max <= SumOf(vocs)
  BY <1>6, <1>8
<1>10. Max({0} \cup Range(vocs)) = scan.max
  <2> DEFINE V == {0} \cup Range(vocs)
  <2>1. Range(vocs) = {vocs[i] : i \in 1..n}
    BY <1>1 DEF Range
  <2>2. \A x \in V : x \in Nat /\ x <= scan.max
    BY <1>1, <1>7, <1>8, <2>1
  <2>3. scan.max \in V
    BY <1>8, <2>1
  <2> HIDE DEF V
  <2>4. \A y \in V : scan.max >= y
    BY <1>7, <2>2
  <2>5. \E x \in V : \A y \in V : x >= y
    BY <2>3, <2>4
  <2>6. Max(V) \in V /\ \A y \in V : Max(V) >= y
    BY <2>5, Zenon DEF Max
  <2>7. Max(V) = scan.max
    BY <1>7, <2>2, <2>3, <2>6
  <2> QED
    BY <2>7 DEF V
<1> QED
  BY <1>5, <1>6, <1>7, <1>9, <1>10 DEF scan

LEMMA ListTypes ==
    ASSUME NEW vocs \in Seq(Int), \A i \in 1..Len(vocs) : vocs[i] >= 0
    PROVE  Max({0} \cup Range(vocs)) \in Nat /\ SumOf(vocs) \in Nat
<1> DEFINE scan == FoldLeft(ScanVoc, NothingSeen, vocs)
<1>1. /\ scan.max \in Nat /\ scan.max = Max({0} \cup Range(vocs))
      /\ scan.total \in Nat /\ scan.total = SumOf(vocs)
  BY ListScanned
<1> HIDE DEF scan
<1> QED
  BY <1>1

(* The controller counts what the list says (read_bgmu_vocs_and_find_max). *)
LEMMA ListCounted ==
    ASSUME NEW req, IsToken(req), req.vocs # <<>>,
           \A i \in 1..Len(req.vocs) : req.vocs[i] >= 0
    PROVE  /\ VocSummary(req).max_voc = Max({0} \cup Range(req.vocs))
           /\ VocSummary(req).total_voc = SumOf(req.vocs)
           /\ VocSummary(req).max_voc <= VocSummary(req).total_voc
           /\ VocSummary(req).voc_values = Len(req.vocs)
           /\ Len(req.vocs) = NumBgs * NumBanks =>
                VocSummary(req).bgmu_reads * NumBanks = Len(req.vocs)
<1> DEFINE vocs == req.vocs
           n == Len(vocs)
           summary == VocSummary(req)
           scan == FoldLeft(ScanVoc, NothingSeen, vocs)
<1>1. vocs \in Seq(Int) /\ \A i \in 1..n : vocs[i] >= 0
  BY DEF IsToken
<1>2. /\ summary.max_voc = scan.max /\ summary.total_voc = scan.total
      /\ summary.bgmu_reads = CeilDiv(n, NumBanks) /\ summary.voc_values = n
  <2>1. VocSummary(req) = [max_voc |-> scan.max, total_voc |-> scan.total,
                           max_updates |-> scan.updates, bgmu_reads |-> CeilDiv(n, NumBanks),
                           voc_values |-> n]
    BY Zenon DEF VocSummary, NothingSeen
  <2> HIDE DEF scan, n, vocs
  <2> QED
    BY <2>1
<1>3. /\ scan.max = Max({0} \cup Range(vocs)) /\ scan.total = SumOf(vocs)
      /\ scan.max <= scan.total
  <2> HIDE DEF vocs
  <2> QED
    BY <1>1, ListScanned
<1> HIDE DEF scan, n, vocs, summary
<1>4. ASSUME n = NumBgs * NumBanks PROVE summary.bgmu_reads * NumBanks = n
  <2>1. NumBgs \in Nat \ {0} /\ NumBanks \in Nat \ {0}
    BY ConfigAssumption
  <2>2. CeilDiv(n, NumBanks) = NumBgs
    BY <1>4, <2>1, GroupsFull
  <2> QED
    BY <1>2, <1>4, <2>2
<1>5. /\ summary.max_voc = Max({0} \cup Range(vocs))
      /\ summary.total_voc = SumOf(vocs)
      /\ summary.max_voc <= summary.total_voc
      /\ summary.voc_values = n
  BY <1>2, <1>3
<1> QED
  BY <1>4, <1>5 DEF n, vocs, summary
=============================================================================
