----------------------------- MODULE SimpleO3Proofs -----------------------------
(***************************************************************************)
(* Proofs about the simple out-of-order processor and its cache: for every *)
(* number of cores, geometry of the cache, latency, trace and order of the *)
(* memory's answers, no miss and no store is lost.                         *)
(***************************************************************************)
EXTENDS SimpleO3, FiniteSetTheorems, WellFoundedInduction, TLAPS

-----------------------------------------------------------------------------
(* Sets of numbers and sequences.                                          *)
LEMMA NatMin ==
    ASSUME NEW S \in SUBSET Nat, S # {}
    PROVE  \E x \in S : \A y \in S : x <= y
<1> DEFINE R == {ss \in Nat \X Nat : ss[1] < ss[2]}
<1>1. IsWellFoundedOn(R, Nat)
  BY NatLessThanWellFounded, Zenon DEF OpToRel
<1>2. \A x, y \in Nat : <<y, x>> \notin R => x <= y
  OBVIOUS
<1> HIDE DEF R
<1>3. \E x \in S : \A y \in S : <<y, x>> \notin R
  BY <1>1, WFMin
<1> QED
  BY <1>2, <1>3

LEMMA LastOf ==
    ASSUME NEW n \in Nat, NEW S \in SUBSET (1..n), S # {}
    PROVE  \E x \in S : \A y \in S : ~(y > x)
<1> DEFINE T == {n - x : x \in S}
<1>1. T \in SUBSET Nat /\ T # {}
  <2>1. \A x \in S : n - x \in Nat
    OBVIOUS
  <2>2. T \in SUBSET Nat
    BY <2>1
  <2>3. PICK x \in S : TRUE
    OBVIOUS
  <2>4. n - x \in T
    OBVIOUS
  <2> QED
    BY <2>2, <2>4
<1>2. PICK t \in T : \A u \in T : t <= u
  <2> HIDE DEF T
  <2> QED
    BY <1>1, NatMin
<1>3. PICK x \in S : t = n - x
  OBVIOUS
<1>4. \A y \in S : n - x <= n - y
  BY <1>2, <1>3
<1> QED
  BY <1>3, <1>4

(* Places in a sequence, and how many of them come before one.             *)
Before(D, i) == {j \in D : j < i}
UpTo(D, i) == {j \in D : j <= i}

LEMMA PlacesFinite ==
    ASSUME NEW n \in Nat, NEW D \in SUBSET (1..n)
    PROVE  IsFiniteSet(D) /\ Cardinality(D) \in Nat
<1>1. IsFiniteSet(1..n)
  BY FS_Interval
<1> QED
  BY <1>1, FS_Subset, FS_CardinalityType

LEMMA RankFacts ==
    ASSUME NEW n \in Nat, NEW D \in SUBSET (1..n), NEW i \in D
    PROVE  /\ Cardinality(UpTo(D, i)) \in 1..Cardinality(D)
           /\ Cardinality(Before(D, i)) \in Nat
           /\ \A j \in D : i < j => /\ Cardinality(UpTo(D, i)) < Cardinality(UpTo(D, j))
                                    /\ Cardinality(Before(D, i)) < Cardinality(Before(D, j))
<1>1. IsFiniteSet(D) /\ Cardinality(D) \in Nat
  BY PlacesFinite
<1> D \subseteq Nat
  OBVIOUS
<1>2. ASSUME NEW j \in D
      PROVE  /\ UpTo(D, j) \in SUBSET D /\ IsFiniteSet(UpTo(D, j))
             /\ Before(D, j) \in SUBSET D /\ IsFiniteSet(Before(D, j))
             /\ Cardinality(UpTo(D, j)) \in Nat /\ Cardinality(Before(D, j)) \in Nat
             /\ Cardinality(UpTo(D, j)) <= Cardinality(D)
  <2>1. UpTo(D, j) \in SUBSET D /\ Before(D, j) \in SUBSET D
    BY DEF UpTo, Before
  <2> QED
    BY <1>1, <2>1, FS_Subset, FS_CardinalityType
<1>3. Cardinality(UpTo(D, i)) # 0
  <2>1. i \in UpTo(D, i)
    BY DEF UpTo
  <2> QED
    BY <1>2, <2>1, FS_EmptySet
<1>4. ASSUME NEW j \in D, i < j
      PROVE  /\ Cardinality(UpTo(D, i)) < Cardinality(UpTo(D, j))
             /\ Cardinality(Before(D, i)) < Cardinality(Before(D, j))
  <2>0. i \in Nat /\ j \in Nat
    OBVIOUS
  <2>1. UpTo(D, i) \in SUBSET UpTo(D, j) /\ j \in UpTo(D, j) /\ j \notin UpTo(D, i)
    <3>1. \A x \in D : x <= i => x <= j
      BY <1>4, <2>0
    <3>2. j <= j /\ ~(j <= i)
      BY <1>4, <2>0
    <3> QED
      BY <3>1, <3>2 DEF UpTo
  <2>2. Before(D, i) \in SUBSET Before(D, j) /\ i \in Before(D, j) /\ i \notin Before(D, i)
    <3>1. \A x \in D : x < i => x < j
      BY <1>4, <2>0
    <3>2. i < j /\ ~(i < i)
      BY <1>4, <2>0
    <3> QED
      BY <3>1, <3>2 DEF Before
  <2>3. UpTo(D, i) # UpTo(D, j) /\ Before(D, i) # Before(D, j)
    BY <2>1, <2>2
  <2>4. Cardinality(UpTo(D, i)) < Cardinality(UpTo(D, j))
    <3>1. Cardinality(UpTo(D, i)) <= Cardinality(UpTo(D, j))
      BY <1>2, <2>1, FS_Subset
    <3>2. Cardinality(UpTo(D, i)) # Cardinality(UpTo(D, j))
      BY <1>2, <2>1, <2>3, FS_Subset
    <3> QED
      BY <1>2, <3>1, <3>2
  <2>5. Cardinality(Before(D, i)) < Cardinality(Before(D, j))
    <3>1. Cardinality(Before(D, i)) <= Cardinality(Before(D, j))
      BY <1>2, <2>2, FS_Subset
    <3>2. Cardinality(Before(D, i)) # Cardinality(Before(D, j))
      BY <1>2, <2>2, <2>3, FS_Subset
    <3> QED
      BY <1>2, <3>1, <3>2
  <2> QED
    BY <2>4, <2>5
<1> QED
  BY <1>1, <1>2, <1>3, <1>4

(* The first `room` places of a set are no more than that.                 *)
LEMMA FirstFit ==
    ASSUME NEW n \in Nat, NEW D \in SUBSET (1..n), NEW room \in Nat
    PROVE  Cardinality({i \in D : Cardinality(Before(D, i)) < room}) <= room
<1> DEFINE T == {i \in D : Cardinality(Before(D, i)) < room}
           f == [i \in T |-> Cardinality(Before(D, i))]
<1>1. \A i \in T : Cardinality(Before(D, i)) \in 0..(room - 1)
  <2> SUFFICES ASSUME NEW i \in T PROVE Cardinality(Before(D, i)) \in 0..(room - 1)
    OBVIOUS
  <2>1. Cardinality(Before(D, i)) \in Nat
    BY RankFacts
  <2> QED
    BY <2>1
<1>2. T \in SUBSET (1..n) /\ T \subseteq D
  OBVIOUS
<1>3. ASSUME NEW i \in T, NEW j \in T, f[i] = f[j]
      PROVE  i = j
  <2>0. i \in Nat /\ j \in Nat /\ i \in D /\ j \in D
    BY <1>2
  <2>1. Cardinality(Before(D, i)) = Cardinality(Before(D, j))
    BY <1>3
  <2>2. ~(i < j)
    <3>1. Cardinality(Before(D, i)) \in Nat
      BY <2>0, RankFacts
    <3>2. i < j => Cardinality(Before(D, i)) < Cardinality(Before(D, j))
      BY <2>0, RankFacts
    <3> QED
      BY <2>1, <3>1, <3>2
  <2>3. ~(j < i)
    <3>1. Cardinality(Before(D, i)) \in Nat
      BY <2>0, RankFacts
    <3>2. j < i => Cardinality(Before(D, j)) < Cardinality(Before(D, i))
      BY <2>0, RankFacts
    <3> QED
      BY <2>1, <3>1, <3>2
  <2> QED
    BY <2>0, <2>2, <2>3
<1>4. IsFiniteSet(0..(room - 1)) /\ Cardinality(0..(room - 1)) = room
  BY FS_Interval
<1>5. f \in Injection(T, 0..(room - 1))
  <2>1. f \in [T -> 0..(room - 1)]
    BY <1>1
  <2> HIDE DEF f, T
  <2> QED
    BY <1>3, <2>1 DEF Injection, IsInjective
<1> QED
  BY <1>4, <1>5, FS_Injection

(* The ranks of the places are the numbers up to how many they are.        *)
LEMMA EveryRank ==
    ASSUME NEW n \in Nat, NEW D \in SUBSET (1..n)
    PROVE  /\ \A i \in D : Cardinality(UpTo(D, i)) \in 1..Cardinality(D)
           /\ \A k \in 1..Cardinality(D) : \E i \in D : Cardinality(UpTo(D, i)) = k
           /\ \A i, j \in D : Cardinality(UpTo(D, i)) = Cardinality(UpTo(D, j)) => i = j
<1> DEFINE f == [i \in D |-> Cardinality(UpTo(D, i))]
<1>1. IsFiniteSet(D) /\ Cardinality(D) \in Nat
  BY PlacesFinite
<1>2. \A i \in D : Cardinality(UpTo(D, i)) \in 1..Cardinality(D)
  BY RankFacts
<1>3. ASSUME NEW i \in D, NEW j \in D, f[i] = f[j]
      PROVE  i = j
  <2>0. i \in Nat /\ j \in Nat
    OBVIOUS
  <2>1. f[i] \in Nat /\ f[j] \in Nat
    BY <1>1, <1>2
  <2>2. i < j => f[i] < f[j]
    BY RankFacts
  <2>3. j < i => f[j] < f[i]
    BY RankFacts
  <2> QED
    BY <1>3, <2>0, <2>1, <2>2, <2>3
<1>4. f \in Injection(D, 1..Cardinality(D))
  <2>1. f \in [D -> 1..Cardinality(D)]
    BY <1>2
  <2> HIDE DEF f
  <2> QED
    BY <1>3, <2>1 DEF Injection, IsInjective
<1>5. IsFiniteSet(1..Cardinality(D)) /\ Cardinality(1..Cardinality(D)) = Cardinality(D)
  BY <1>1, FS_Interval
<1>6. f \in Surjection(D, 1..Cardinality(D))
  BY <1>1, <1>4, <1>5, FS_Injection
<1>7. \A k \in 1..Cardinality(D) : \E i \in D : f[i] = k
  BY <1>6 DEF Surjection
<1> QED
  BY <1>2, <1>3, <1>7

-----------------------------------------------------------------------------
(* The list of misses.                                                     *)
Older(e) == [e EXCEPT !.left = CountDown(@)]
ReadOf(e, a) == e.kind = "read" /\ e.addr = a
WriteOf(e, l) == e.kind = "write" /\ e.line = l

LEMMA OlderEntry ==
    ASSUME NEW e \in MissEntries
    PROVE  /\ Older(e) \in MissEntries
           /\ \A a \in Addrs : ReadOf(Older(e), a) <=> ReadOf(e, a)
           /\ \A l \in Lines : WriteOf(Older(e), l) <=> WriteOf(e, l)
<1>1. e.left \in 0..Latency /\ CountDown(e.left) \in 0..Latency
  <2>1. e.left \in 0..Latency
    BY DEF MissEntries, ReadMisses, WriteMisses
  <2> QED
    BY <2>1, CacheAssumption DEF CountDown
<1> DEFINE x == CountDown(e.left)
<1>2. Older(e) = [e EXCEPT !.left = x]
  BY DEF Older
<1> HIDE DEF x
<1>3. x \in 0..Latency
  BY <1>1 DEF x
<1>4. CASE e \in ReadMisses
  <2>1. Older(e) = [left |-> x, kind |-> "read", addr |-> e.addr] /\ e.kind = "read" /\ e.addr \in Addrs
    BY <1>2, <1>4 DEF ReadMisses
  <2> QED
    BY <1>3, <2>1 DEF MissEntries, ReadMisses, ReadOf, WriteOf
<1>5. CASE e \in WriteMisses
  <2>1. Older(e) = [left |-> x, kind |-> "write", line |-> e.line] /\ e.kind = "write" /\ e.line \in Lines
    BY <1>2, <1>5 DEF WriteMisses
  <2> QED
    BY <1>3, <2>1 DEF MissEntries, WriteMisses, ReadOf, WriteOf
<1> QED
  BY <1>4, <1>5 DEF MissEntries

LEMMA RemainingFacts ==
    ASSUME misses \in Seq(MissEntries), NEW kept \in SUBSET (1..Len(misses))
    PROVE  \E at \in [1..Cardinality(kept) -> kept] :
              /\ Remaining(kept) = [k \in 1..Cardinality(kept) |-> Older(misses[at[k]])]
              /\ \A i \in kept : \E k \in 1..Cardinality(kept) : at[k] = i
              /\ \A k, m \in 1..Cardinality(kept) : at[k] = at[m] => k = m
<1> DEFINE rank(i) == Cardinality({j \in kept : j <= i})
           place(k) == CHOOSE i \in kept : rank(i) = k
           n == Cardinality(kept)
           at == [k \in 1..n |-> place(k)]
<1>0. Len(misses) \in Nat
  OBVIOUS
<1>1. /\ \A i \in kept : rank(i) \in 1..n
      /\ \A k \in 1..n : \E i \in kept : rank(i) = k
      /\ \A i, j \in kept : rank(i) = rank(j) => i = j
  <2>1. \A i \in kept : rank(i) = Cardinality(UpTo(kept, i))
    BY DEF UpTo
  <2> HIDE DEF rank
  <2>2. /\ \A i \in kept : Cardinality(UpTo(kept, i)) \in 1..n
        /\ \A k \in 1..n : \E i \in kept : Cardinality(UpTo(kept, i)) = k
        /\ \A i, j \in kept : Cardinality(UpTo(kept, i)) = Cardinality(UpTo(kept, j)) => i = j
    BY <1>0, EveryRank
  <2> QED
    BY <2>1, <2>2
<1>2. Remaining(kept) = [k \in 1..n |-> Older(misses[at[k]])]
  BY DEF Remaining, Older
<1> HIDE DEF rank
<1>3. \A k \in 1..n : place(k) \in kept /\ rank(place(k)) = k
  BY <1>1
<1> HIDE DEF place, n
<1>4. \A k \in 1..n : at[k] \in kept /\ rank(at[k]) = k
  BY <1>3
<1>5. at \in [1..n -> kept]
  BY <1>4
<1> HIDE DEF at
<1>6. \A k, m \in 1..n : at[k] = at[m] => k = m
  BY <1>4
<1>7. \A i \in kept : at[rank(i)] = i
  BY <1>1, <1>4
<1>8. \A i \in kept : \E k \in 1..n : at[k] = i
  BY <1>1, <1>7
<1> QED
  BY <1>2, <1>5, <1>6, <1>8 DEF n

LEMMA RemainingMisses ==
    ASSUME misses \in Seq(MissEntries), NEW kept \in SUBSET (1..Len(misses))
    PROVE  LET new == Remaining(kept) IN
           /\ new \in Seq(MissEntries)
           /\ \A l \in Lines, i \in kept : WriteOf(misses[i], l) =>
                 \E k \in DOMAIN new : WriteOf(new[k], l)
           /\ \A a \in Addrs : (\A i \in kept : ~ReadOf(misses[i], a)) =>
                 {k \in DOMAIN new : ReadOf(new[k], a)} = {}
           /\ \A a \in Addrs, i \in kept :
                 ReadOf(misses[i], a) /\ (\A j \in kept : ReadOf(misses[j], a) => j = i) =>
                 \E k \in DOMAIN new : {m \in DOMAIN new : ReadOf(new[m], a)} = {k}
<1> DEFINE new == Remaining(kept)
           n == Cardinality(kept)
<1>0. Len(misses) \in Nat
  OBVIOUS
<1>1. n \in Nat
  BY <1>0, PlacesFinite
<1>2. PICK at \in [1..n -> kept] :
          /\ new = [k \in 1..n |-> Older(misses[at[k]])]
          /\ \A i \in kept : \E k \in 1..n : at[k] = i
          /\ \A k, m \in 1..n : at[k] = at[m] => k = m
  BY RemainingFacts
<1> HIDE DEF new, n
<1>3. ASSUME NEW k \in 1..n
      PROVE  /\ at[k] \in kept /\ new[k] \in MissEntries
             /\ \A a \in Addrs : ReadOf(new[k], a) <=> ReadOf(misses[at[k]], a)
             /\ \A l \in Lines : WriteOf(new[k], l) <=> WriteOf(misses[at[k]], l)
  <2>1. at[k] \in kept /\ at[k] \in 1..Len(misses)
    OBVIOUS
  <2>3. misses[at[k]] \in MissEntries
    BY <2>1
  <2>2. new[k] = Older(misses[at[k]])
    BY <1>2
  <2> QED
    BY <2>1, <2>2, <2>3, OlderEntry
<1>4. DOMAIN new = 1..n
  BY <1>2
<1>5. new \in Seq(MissEntries)
  <2>1. new \in [1..n -> MissEntries]
    BY <1>2, <1>3
  <2> QED
    BY <1>1, <2>1
<1>6. \A l \in Lines, i \in kept : WriteOf(misses[i], l) => \E k \in DOMAIN new : WriteOf(new[k], l)
  BY <1>2, <1>3, <1>4
<1>7. ASSUME NEW a \in Addrs, \A i \in kept : ~ReadOf(misses[i], a)
      PROVE  {k \in DOMAIN new : ReadOf(new[k], a)} = {}
  BY <1>3, <1>4, <1>7
<1>8. ASSUME NEW a \in Addrs, NEW i \in kept, ReadOf(misses[i], a),
             \A j \in kept : ReadOf(misses[j], a) => j = i
      PROVE  \E k \in DOMAIN new : {m \in DOMAIN new : ReadOf(new[m], a)} = {k}
  <2>1. PICK k \in 1..n : at[k] = i
    BY <1>2
  <2>2. \A m \in 1..n : ReadOf(new[m], a) <=> m = k
    <3> SUFFICES ASSUME NEW m \in 1..n PROVE ReadOf(new[m], a) <=> m = k
      OBVIOUS
    <3>1. at[m] \in kept /\ (ReadOf(new[m], a) <=> ReadOf(misses[at[m]], a))
      BY <1>3
    <3>2. ReadOf(misses[at[m]], a) <=> at[m] = i
      BY <1>8, <3>1
    <3>3. at[m] = i <=> m = k
      BY <1>2, <2>1
    <3> QED
      BY <3>1, <3>2, <3>3
  <2> QED
    BY <1>4, <2>2
<1> QED
  BY <1>5, <1>6, <1>7, <1>8 DEF new

-----------------------------------------------------------------------------
(* The lines of a set.                                                     *)
Distinct(L) == \A i, j \in DOMAIN L : L[i].line = L[j].line => i = j
Locked(L, held) == \A i \in DOMAIN L : ~L[i].ready <=> \E b \in held : LineOf[b] = L[i].line
Has(L, l) == \E i \in DOMAIN L : L[i].line = l
HasDirty(L, l) == \E i \in DOMAIN L : L[i].line = l /\ L[i].dirty

SetOK(L, s, held) ==
    /\ Len(L) <= Ways
    /\ Distinct(L)
    /\ \A i \in DOMAIN L : SetOf[L[i].line] = s
    /\ Locked(L, held)
    /\ \A b \in held : SetOf[LineOf[b]] = s => Has(L, LineOf[b])

(* M has what L has, without its entries at some places, and a new one.    *)
Replaces(L, M, gone, new) ==
    /\ \A k \in DOMAIN M : M[k] = new \/ \E j \in DOMAIN L \ gone : M[k] = L[j]
    /\ \A j \in DOMAIN L \ gone : \E k \in DOMAIN M : M[k] = L[j]
    /\ \E k \in DOMAIN M : M[k] = new

LEMMA RemoveAtFacts ==
    ASSUME NEW S, NEW t \in Seq(S), NEW i \in 1..Len(t)
    PROVE  /\ RemoveAt(t, i) \in Seq(S) /\ Len(RemoveAt(t, i)) = Len(t) - 1
           /\ \A k \in 1..(Len(t) - 1) :
                 RemoveAt(t, i)[k] = IF k < i THEN t[k] ELSE t[k + 1]
<1> DEFINE a == SubSeq(t, 1, i - 1)
           z == SubSeq(t, i + 1, Len(t))
<1>1. Len(t) \in Nat
  OBVIOUS
<1>2. a \in Seq(S) /\ Len(a) = i - 1 /\ \A k \in 1..(i - 1) : a[k] = t[k]
  BY <1>1
<1>3. z \in Seq(S) /\ Len(z) = Len(t) - i /\ \A k \in 1..(Len(t) - i) : z[k] = t[k + i]
  BY <1>1
<1>4. RemoveAt(t, i) = a \o z
  BY DEF RemoveAt
<1> HIDE DEF a, z
<1>5. /\ a \o z \in Seq(S) /\ Len(a \o z) = Len(t) - 1
      /\ \A k \in 1..(Len(t) - 1) : (a \o z)[k] = IF k < i THEN a[k] ELSE z[k - (i - 1)]
  <2>1. a \in Seq(S) /\ z \in Seq(S) /\ Len(a) = i - 1 /\ Len(z) = Len(t) - i
    BY <1>2, <1>3
  <2>2. /\ a \o z \in Seq(S) /\ Len(a \o z) = Len(a) + Len(z)
        /\ \A k \in 1..(Len(a) + Len(z)) :
              (a \o z)[k] = IF k <= Len(a) THEN a[k] ELSE z[k - Len(a)]
    <3>1. a \o z \in Seq(S)
      BY <2>1
    <3>2. Len(a \o z) = Len(a) + Len(z)
      BY <2>1
    <3>3. \A k \in 1..(Len(a) + Len(z)) :
              (a \o z)[k] = IF k <= Len(a) THEN a[k] ELSE z[k - Len(a)]
      BY <2>1
    <3> QED
      BY <3>1, <3>2, <3>3
  <2>3. i \in Nat /\ Len(a) + Len(z) = Len(t) - 1
    BY <1>1, <2>1
  <2> QED
    BY <1>1, <2>1, <2>2, <2>3
<1>6. ASSUME NEW k \in 1..(Len(t) - 1)
      PROVE  (a \o z)[k] = IF k < i THEN t[k] ELSE t[k + 1]
  <2>1. CASE k < i
    BY <1>2, <1>5, <2>1
  <2>2. CASE ~(k < i)
    <3>1. k - (i - 1) \in 1..(Len(t) - i) /\ (k - (i - 1)) + i = k + 1
      BY <1>1, <2>2
    <3> QED
      BY <1>3, <1>5, <2>2, <3>1
  <2> QED
    BY <2>1, <2>2
<1> QED
  BY <1>4, <1>5, <1>6

LEMMA MoveToEnd ==
    ASSUME NEW L \in Seq(LineStates), NEW i \in 1..Len(L), NEW new \in LineStates
    PROVE  LET M == Append(RemoveAt(L, i), new) IN
           /\ M \in Seq(LineStates) /\ Len(M) = Len(L)
           /\ Replaces(L, M, {i}, new)
           /\ Distinct(L) /\ (\A j \in DOMAIN L \ {i} : L[j].line # new.line) => Distinct(M)
<1> DEFINE M == Append(RemoveAt(L, i), new)
           R == RemoveAt(L, i)
           n == Len(L)
<1>1. n \in Nat /\ i \in 1..n /\ DOMAIN L = 1..n
  OBVIOUS
<1>2. R \in Seq(LineStates) /\ Len(R) = n - 1
      /\ \A k \in 1..(n - 1) : R[k] = IF k < i THEN L[k] ELSE L[k + 1]
  BY RemoveAtFacts
<1>3. M = Append(R, new)
  OBVIOUS
<1> HIDE DEF R
<1> HIDE DEF n
<1>4. /\ M \in Seq(LineStates) /\ Len(M) = Len(R) + 1 /\ M[Len(R) + 1] = new
      /\ \A k \in 1..Len(R) : M[k] = R[k]
  BY <1>2, <1>3
<1>5. Len(M) = n
  BY <1>1, <1>2, <1>4
<1>6. DOMAIN M = 1..n
  BY <1>4, <1>5
<1>7. M[n] = new /\ \A k \in 1..(n - 1) : M[k] = R[k]
  BY <1>1, <1>2, <1>4
<1>8. /\ M \in Seq(LineStates) /\ Len(M) = n /\ DOMAIN M = 1..n /\ M[n] = new
      /\ \A k \in 1..(n - 1) : M[k] = R[k]
  BY <1>4, <1>5, <1>6, <1>7
<1>9. \A k \in 1..(n - 1) : M[k] = IF k < i THEN L[k] ELSE L[k + 1]
  BY <1>2, <1>8
<1>10. \A k \in 1..(n - 1) : \E j \in 1..n \ {i} : M[k] = L[j] /\ j = IF k < i THEN k ELSE k + 1
  <2> SUFFICES ASSUME NEW k \in 1..(n - 1)
               PROVE  \E j \in 1..n \ {i} : M[k] = L[j] /\ j = IF k < i THEN k ELSE k + 1
    OBVIOUS
  <2> DEFINE j == IF k < i THEN k ELSE k + 1
  <2>1. j \in 1..n /\ j # i
    BY <1>1
  <2>2. M[k] = L[j]
    BY <1>9
  <2> QED
    BY <2>1, <2>2
<1>11. ASSUME NEW j \in 1..n \ {i}
       PROVE  \E k \in 1..n : M[k] = L[j]
  <2>1. CASE j < i
    <3>1. j \in 1..(n - 1) /\ j \in 1..n
      BY <1>1, <2>1
    <3> QED
      BY <1>9, <2>1, <3>1
  <2>2. CASE j > i
    <3>1. j - 1 \in 1..(n - 1) /\ ~(j - 1 < i) /\ (j - 1) + 1 = j /\ j - 1 \in 1..n
      BY <1>1, <2>2
    <3> QED
      BY <1>9, <3>1
  <2>3. j < i \/ j > i
    <3>1. j \in 1..n /\ j # i
      OBVIOUS
    <3> QED
      BY <1>1, <3>1
  <2> QED
    BY <2>1, <2>2, <2>3
<1>12. Replaces(L, M, {i}, new)
  <2>1. \A k \in 1..n : k = n \/ k \in 1..(n - 1)
    BY <1>1
  <2>2. n \in 1..n
    BY <1>1
  <2>3. \A k \in 1..n : M[k] = new \/ \E j \in 1..n \ {i} : M[k] = L[j]
    BY <1>8, <1>10, <2>1
  <2>4. \A j \in 1..n \ {i} : \E k \in 1..n : M[k] = L[j]
    BY <1>11
  <2>5. \E k \in 1..n : M[k] = new
    BY <1>8, <2>2
  <2>6. DOMAIN L = 1..n /\ DOMAIN M = 1..n
    BY <1>1, <1>8
  <2> QED
    BY <2>3, <2>4, <2>5, <2>6 DEF Replaces
<1>13. ASSUME Distinct(L), \A j \in DOMAIN L \ {i} : L[j].line # new.line
       PROVE  Distinct(M)
  <2>1. ASSUME NEW k \in 1..n, NEW m \in 1..n, M[k].line = M[m].line
        PROVE  k = m
    <3>1. CASE k = n /\ m = n
      BY <3>1
    <3>2. CASE k = n /\ m # n
      <4>1. m \in 1..(n - 1)
        BY <1>1, <3>2
      <4> QED
        BY <1>1, <1>8, <1>10, <1>13, <2>1, <3>2, <4>1
    <3>3. CASE k # n /\ m = n
      <4>1. k \in 1..(n - 1)
        BY <1>1, <3>3
      <4> QED
        BY <1>1, <1>8, <1>10, <1>13, <2>1, <3>3, <4>1
    <3>4. CASE k # n /\ m # n
      <4>1. k \in 1..(n - 1) /\ m \in 1..(n - 1)
        BY <1>1, <3>4
      <4>2. PICK j \in 1..n \ {i} : M[k] = L[j] /\ j = IF k < i THEN k ELSE k + 1
        BY <1>10, <4>1
      <4>3. PICK h \in 1..n \ {i} : M[m] = L[h] /\ h = IF m < i THEN m ELSE m + 1
        BY <1>10, <4>1
      <4>4. j = h
        BY <1>1, <1>13, <2>1, <4>2, <4>3 DEF Distinct
      <4> QED
        BY <1>1, <4>1, <4>2, <4>3, <4>4
    <3> QED
      BY <3>1, <3>2, <3>3, <3>4
  <2> QED
    BY <1>8, <2>1 DEF Distinct
<1> QED
  BY <1>8, <1>12, <1>13 DEF n

LEMMA AddToEnd ==
    ASSUME NEW L \in Seq(LineStates), NEW new \in LineStates
    PROVE  LET M == Append(L, new) IN
           /\ M \in Seq(LineStates) /\ Len(M) = Len(L) + 1
           /\ Replaces(L, M, {}, new)
           /\ Distinct(L) /\ (\A j \in DOMAIN L : L[j].line # new.line) => Distinct(M)
<1> DEFINE M == Append(L, new)
           n == Len(L)
<1>1. n \in Nat /\ DOMAIN L = 1..n
  OBVIOUS
<1>2. /\ M \in Seq(LineStates) /\ Len(M) = n + 1 /\ DOMAIN M = 1..(n + 1) /\ M[n + 1] = new
      /\ \A k \in 1..n : M[k] = L[k]
  BY <1>1
<1> HIDE DEF n, M
<1>3. \A k \in 1..(n + 1) : k = n + 1 \/ k \in 1..n
  BY <1>1
<1>4. n + 1 \in 1..(n + 1) /\ 1..n \subseteq 1..(n + 1)
  BY <1>1
<1>5. Replaces(L, M, {}, new)
  BY <1>1, <1>2, <1>3, <1>4 DEF Replaces
<1>6. ASSUME Distinct(L), \A j \in DOMAIN L : L[j].line # new.line
      PROVE  Distinct(M)
  <2>1. ASSUME NEW k \in 1..(n + 1), NEW m \in 1..(n + 1), M[k].line = M[m].line
        PROVE  k = m
    <3>1. CASE k \in 1..n /\ m \in 1..n
      BY <1>1, <1>2, <1>6, <2>1, <3>1 DEF Distinct
    <3>2. CASE k = n + 1 \/ m = n + 1
      BY <1>1, <1>2, <1>3, <1>6, <2>1, <3>2
    <3> QED
      BY <1>3, <3>1, <3>2
  <2> QED
    BY <1>2, <2>1 DEF Distinct
<1> QED
  BY <1>2, <1>5, <1>6 DEF n, M

-----------------------------------------------------------------------------
(* What an operation does to one set.                                      *)
NewLine(l, dirty, ready) == [line |-> l, dirty |-> dirty, ready |-> ready]

LEMMA LineFields ==
    ASSUME NEW l \in Lines, NEW d \in BOOLEAN, NEW r \in BOOLEAN
    PROVE  /\ NewLine(l, d, r) \in LineStates
           /\ NewLine(l, d, r).line = l /\ NewLine(l, d, r).dirty = d /\ NewLine(l, d, r).ready = r
BY DEF NewLine, LineStates

LEMMA EntryFields ==
    ASSUME NEW L \in Seq(LineStates), NEW i \in DOMAIN L
    PROVE  /\ L[i] \in LineStates
           /\ L[i].line \in Lines /\ L[i].dirty \in BOOLEAN /\ L[i].ready \in BOOLEAN
<1>1. L[i] \in LineStates
  OBVIOUS
<1> QED
  BY <1>1 DEF LineStates

(* A line that moves stays.                                                *)
LEMMA MovedSet ==
    ASSUME NEW L \in Seq(LineStates), NEW s, NEW held, SetOK(L, s, held),
           NEW i \in DOMAIN L, L[i].ready, NEW new,
           new.line = L[i].line, new.ready = TRUE, L[i].dirty => new.dirty,
           NEW M \in Seq(LineStates), Len(M) = Len(L), Distinct(M), Replaces(L, M, {i}, new)
    PROVE  /\ SetOK(M, s, held)
           /\ \A l : HasDirty(L, l) => HasDirty(M, l)
           /\ new.dirty => HasDirty(M, L[i].line)
<1>1. \A k \in DOMAIN M :
         \E j \in DOMAIN L : M[k].line = L[j].line /\ M[k].ready = (L[j].ready \/ j = i)
  <2> SUFFICES ASSUME NEW k \in DOMAIN M
               PROVE  \E j \in DOMAIN L : /\ M[k].line = L[j].line
                                          /\ M[k].ready = (L[j].ready \/ j = i)
    OBVIOUS
  <2>1. CASE M[k] = new
    BY <2>1
  <2>2. ASSUME NEW j \in DOMAIN L \ {i}, M[k] = L[j]
        PROVE  M[k].line = L[j].line /\ M[k].ready = (L[j].ready \/ j = i)
    <3>1. L[j].ready \in BOOLEAN
      BY EntryFields
    <3> QED
      BY <2>2, <3>1
  <2> QED
    BY <2>1, <2>2 DEF Replaces
<1>2. \A j \in DOMAIN L :
         \E k \in DOMAIN M : M[k].line = L[j].line /\ (L[j].dirty => M[k].dirty)
  <2> SUFFICES ASSUME NEW j \in DOMAIN L
               PROVE  \E k \in DOMAIN M : M[k].line = L[j].line /\ (L[j].dirty => M[k].dirty)
    OBVIOUS
  <2>1. CASE j = i
    BY <2>1 DEF Replaces
  <2>2. CASE j # i
    BY <2>2 DEF Replaces
  <2> QED
    BY <2>1, <2>2
<1>3. \A k \in DOMAIN M : SetOf[M[k].line] = s
  BY <1>1 DEF SetOK
<1>4. Locked(M, held)
  <2> SUFFICES ASSUME NEW k \in DOMAIN M
               PROVE  ~M[k].ready <=> \E b \in held : LineOf[b] = M[k].line
    BY DEF Locked
  <2>1. PICK j \in DOMAIN L : M[k].line = L[j].line /\ M[k].ready = (L[j].ready \/ j = i)
    BY <1>1
  <2>2. ~L[j].ready <=> \E b \in held : LineOf[b] = L[j].line
    BY DEF SetOK, Locked
  <2> QED
    BY <2>1, <2>2
<1>5. \A b \in held : SetOf[LineOf[b]] = s => Has(M, LineOf[b])
  BY <1>2 DEF SetOK, Has
<1>6. \A l : HasDirty(L, l) => HasDirty(M, l)
  BY <1>2 DEF HasDirty
<1>7. new.dirty => HasDirty(M, L[i].line)
  BY DEF Replaces, HasDirty
<1>8. Len(M) <= Ways
  BY DEF SetOK
<1>9. SetOK(M, s, held)
  BY <1>3, <1>4, <1>5, <1>8 DEF SetOK
<1> QED
  BY <1>6, <1>7, <1>9

(* A hit moves its line to the end.                                        *)
LEMMA HitSet ==
    ASSUME NEW L \in Seq(LineStates), NEW s, NEW held, SetOK(L, s, held),
           NEW i \in 1..Len(L), L[i].ready, NEW new \in LineStates,
           new.line = L[i].line, new.ready = TRUE, L[i].dirty => new.dirty
    PROVE  LET M == Append(RemoveAt(L, i), new) IN
           /\ M \in Seq(LineStates) /\ SetOK(M, s, held)
           /\ \A l : HasDirty(L, l) => HasDirty(M, l)
           /\ new.dirty => HasDirty(M, L[i].line)
<1> DEFINE M == Append(RemoveAt(L, i), new)
<1>1. i \in DOMAIN L
  OBVIOUS
<1>2. Distinct(L) /\ \A j \in DOMAIN L \ {i} : L[j].line # new.line
  BY <1>1 DEF SetOK, Distinct
<1>3. /\ M \in Seq(LineStates) /\ Len(M) = Len(L)
      /\ Replaces(L, M, {i}, new) /\ Distinct(M)
  BY <1>2, MoveToEnd
<1> QED
  BY <1>1, <1>3, MovedSet

(* A joined miss marks its line as written.                                *)
LEMMA JoinSet ==
    ASSUME NEW L \in Seq(LineStates), NEW s, NEW held, SetOK(L, s, held),
           NEW l, NEW w \in BOOLEAN
    PROVE  LET M == [i \in DOMAIN L |-> IF L[i].line = l THEN [L[i] EXCEPT !.dirty = @ \/ w]
                                        ELSE L[i]] IN
           /\ M \in Seq(LineStates) /\ SetOK(M, s, held)
           /\ \A k : HasDirty(L, k) => HasDirty(M, k)
           /\ w /\ Has(L, l) => HasDirty(M, l)
<1> DEFINE M == [i \in DOMAIN L |-> IF L[i].line = l THEN [L[i] EXCEPT !.dirty = @ \/ w]
                                    ELSE L[i]]
<1>1. /\ DOMAIN M = DOMAIN L /\ M = [i \in DOMAIN L |-> M[i]]
      /\ DOMAIN L = 1..Len(L) /\ Len(L) \in Nat
  OBVIOUS
<1>2. ASSUME NEW i \in DOMAIN L
      PROVE  /\ M[i] \in LineStates /\ M[i].line = L[i].line /\ M[i].ready = L[i].ready
             /\ M[i].dirty = (L[i].dirty \/ (L[i].line = l /\ w))
  <2>1. /\ L[i] \in LineStates /\ L[i].line \in Lines
        /\ L[i].dirty \in BOOLEAN /\ L[i].ready \in BOOLEAN
    BY EntryFields
  <2>2. M[i] = IF L[i].line = l THEN [L[i] EXCEPT !.dirty = @ \/ w] ELSE L[i]
    OBVIOUS
  <2>3. CASE L[i].line = l
    <3>1. M[i] = [L[i] EXCEPT !.dirty = L[i].dirty \/ w]
      BY <2>2, <2>3
    <3> QED
      BY <2>1, <2>3, <3>1 DEF LineStates
  <2>4. CASE L[i].line # l
    BY <2>1, <2>2, <2>4
  <2> QED
    BY <2>3, <2>4
<1> HIDE DEF M
<1>3. M \in Seq(LineStates) /\ Len(M) = Len(L)
  <2>1. M \in [1..Len(L) -> LineStates]
    BY <1>1, <1>2
  <2> QED
    BY <1>1, <2>1
<1>4. Distinct(M)
  BY <1>1, <1>2 DEF SetOK, Distinct
<1>5. Locked(M, held)
  BY <1>1, <1>2 DEF SetOK, Locked
<1>6. \A b \in held : SetOf[LineOf[b]] = s => Has(M, LineOf[b])
  BY <1>1, <1>2 DEF SetOK, Has
<1>7. \A i \in DOMAIN M : SetOf[M[i].line] = s
  BY <1>1, <1>2 DEF SetOK
<1>8. \A k : HasDirty(L, k) => HasDirty(M, k)
  BY <1>1, <1>2 DEF HasDirty
<1>9. w /\ Has(L, l) => HasDirty(M, l)
  BY <1>1, <1>2 DEF HasDirty, Has
<1>10. SetOK(M, s, held)
  BY <1>3, <1>4, <1>5, <1>6, <1>7 DEF SetOK
<1> QED
  BY <1>3, <1>8, <1>9, <1>10 DEF M

(* A miss on a line that is not there adds it, locked, and may evict one   *)
(* that is ready.                                                          *)
LEMMA MissSet ==
    ASSUME NEW L \in Seq(LineStates), NEW s, NEW held, SetOK(L, s, held),
           NEW a, LineOf[a] \in Lines, SetOf[LineOf[a]] = s, ~Has(L, LineOf[a]),
           NEW new, new.line = LineOf[a], new.ready = FALSE,
           NEW gone \in SUBSET DOMAIN L, NEW M \in Seq(LineStates),
           \A j \in gone : L[j].ready, Len(M) <= Ways, Distinct(M),
           Replaces(L, M, gone, new)
    PROVE  /\ SetOK(M, s, held \cup {a})
           /\ \A l : HasDirty(L, l) => HasDirty(M, l) \/ \E j \in gone : L[j].dirty /\ L[j].line = l
           /\ new.dirty => HasDirty(M, LineOf[a])
<1> DEFINE l == LineOf[a]
<1>1. \A k \in DOMAIN M : SetOf[M[k].line] = s
  BY DEF Replaces, SetOK
<1>2. Locked(M, held \cup {a})
  <2>1. \A j \in DOMAIN L : L[j].line # l
    BY DEF Has
  <2> SUFFICES ASSUME NEW k \in DOMAIN M
               PROVE  ~M[k].ready <=> \E b \in held \cup {a} : LineOf[b] = M[k].line
    BY DEF Locked
  <2>2. CASE M[k] = new
    BY <2>2
  <2>3. ASSUME NEW j \in DOMAIN L, M[k] = L[j]
        PROVE  ~M[k].ready <=> \E b \in held \cup {a} : LineOf[b] = M[k].line
    BY <2>1, <2>3 DEF SetOK, Locked
  <2> QED
    BY <2>2, <2>3 DEF Replaces
<1>3. ASSUME NEW b \in held \cup {a}, SetOf[LineOf[b]] = s
      PROVE  Has(M, LineOf[b])
  <2>1. CASE b = a
    BY <2>1 DEF Replaces, Has
  <2>2. CASE b \in held
    <3>1. PICK j \in DOMAIN L : L[j].line = LineOf[b]
      BY <1>3, <2>2 DEF SetOK, Has
    <3>2. ~L[j].ready
      BY <2>2, <3>1 DEF SetOK, Locked
    <3>3. j \in DOMAIN L \ gone
      BY <3>2
    <3> QED
      BY <3>1, <3>3 DEF Replaces, Has
  <2> QED
    BY <2>1, <2>2
<1>4. ASSUME NEW k, HasDirty(L, k)
      PROVE  HasDirty(M, k) \/ \E j \in gone : L[j].dirty /\ L[j].line = k
  BY <1>4 DEF Replaces, HasDirty
<1>5. new.dirty => HasDirty(M, l)
  BY DEF Replaces, HasDirty
<1>6. SetOK(M, s, held \cup {a})
  BY <1>1, <1>2, <1>3 DEF SetOK
<1> QED
  BY <1>4, <1>5, <1>6

(* A miss of another set leaves this one as it is.                         *)
LEMMA OtherSet ==
    ASSUME NEW L, NEW s, NEW held, SetOK(L, s, held), NEW a, SetOf[LineOf[a]] # s
    PROVE  SetOK(L, s, held \cup {a})
<1>1. Locked(L, held \cup {a})
  BY DEF SetOK, Locked
<1>2. \A b \in held \cup {a} : SetOf[LineOf[b]] = s => Has(L, LineOf[b])
  BY DEF SetOK
<1> QED
  BY <1>1, <1>2 DEF SetOK

(* An answer makes the lines of the MSHRs it frees ready.                  *)
Filled(L, freed) ==
    [i \in DOMAIN L |-> [L[i] EXCEPT !.ready = @ \/ L[i].line \in {LineOf[b] : b \in freed}]]

LEMMA AnsweredSet ==
    ASSUME NEW L \in Seq(LineStates), NEW s, NEW held, SetOK(L, s, held),
           NEW freed \in SUBSET held,
           \A b \in freed, d \in held : LineOf[b] = LineOf[d] => d \in freed
    PROVE  /\ Filled(L, freed) \in Seq(LineStates)
           /\ SetOK(Filled(L, freed), s, held \ freed)
           /\ \A l : HasDirty(L, l) => HasDirty(Filled(L, freed), l)
<1> DEFINE filled == {LineOf[b] : b \in freed}
           M == Filled(L, freed)
<1>1. /\ DOMAIN M = DOMAIN L /\ M = [i \in DOMAIN L |-> M[i]]
      /\ DOMAIN L = 1..Len(L) /\ Len(L) \in Nat
  BY DEF Filled
<1>2. ASSUME NEW i \in DOMAIN L
      PROVE  /\ M[i] \in LineStates /\ M[i].line = L[i].line /\ M[i].dirty = L[i].dirty
             /\ M[i].ready = (L[i].ready \/ \E b \in freed : LineOf[b] = L[i].line)
  <2>1. /\ L[i] \in LineStates /\ L[i].line \in Lines
        /\ L[i].dirty \in BOOLEAN /\ L[i].ready \in BOOLEAN
    BY EntryFields
  <2>2. M[i] = [L[i] EXCEPT !.ready = L[i].ready \/ L[i].line \in filled]
    BY DEF Filled
  <2>3. L[i].line \in filled <=> \E b \in freed : LineOf[b] = L[i].line
    OBVIOUS
  <2> HIDE DEF filled
  <2>4. /\ M[i] \in LineStates /\ M[i].line = L[i].line /\ M[i].dirty = L[i].dirty
        /\ M[i].ready = (L[i].ready \/ L[i].line \in filled)
    BY <2>1, <2>2 DEF LineStates
  <2> QED
    BY <2>3, <2>4
<1> HIDE DEF M
<1>3. M \in Seq(LineStates) /\ Len(M) = Len(L)
  <2>1. M \in [1..Len(L) -> LineStates]
    BY <1>1, <1>2
  <2> QED
    BY <1>1, <2>1
<1>4. Distinct(M)
  BY <1>1, <1>2 DEF SetOK, Distinct
<1>5. Locked(M, held \ freed)
  <2> SUFFICES ASSUME NEW i \in DOMAIN L
               PROVE  ~M[i].ready <=> \E b \in held \ freed : LineOf[b] = M[i].line
    BY <1>1 DEF Locked
  <2>1. ~L[i].ready <=> \E b \in held : LineOf[b] = L[i].line
    BY DEF SetOK, Locked
  <2> QED
    BY <1>2, <2>1
<1>6. ASSUME NEW b \in held \ freed, SetOf[LineOf[b]] = s
      PROVE  Has(M, LineOf[b])
  <2>1. PICK i \in DOMAIN L : L[i].line = LineOf[b]
    BY <1>6 DEF SetOK, Has
  <2> QED
    BY <1>1, <1>2, <2>1 DEF Has
<1>7. \A i \in DOMAIN M : SetOf[M[i].line] = s
  BY <1>1, <1>2 DEF SetOK
<1>8. \A k : HasDirty(L, k) => HasDirty(M, k)
  BY <1>1, <1>2 DEF HasDirty
<1>9. SetOK(M, s, held \ freed)
  BY <1>3, <1>4, <1>5, <1>6, <1>7 DEF SetOK
<1> QED
  BY <1>3, <1>8, <1>9 DEF M

-----------------------------------------------------------------------------
(* The cache: types, the state of its sets and MSHRs, and where a store    *)
(* and the requests of an address are.                                     *)
CacheTypes ==
    /\ sets \in [Sets -> Seq(LineStates)]
    /\ mshrs \in SUBSET Addrs /\ IsFiniteSet(mshrs)
    /\ waiters \in [Addrs -> SUBSET Requests]
    /\ hits \in SUBSET [left : 1..Latency, req : Requests]
    /\ misses \in Seq(MissEntries)

SetsOK == \A s \in Sets : SetOK(sets[s], s, mshrs)
MshrsOK == Cardinality(mshrs) <= Mshrs /\ \A b, d \in mshrs : LineOf[b] = LineOf[d] => b = d

Stored(l) ==
    HasDirty(sets[SetOf[l]], l) \/ \E i \in DOMAIN misses : WriteOf(misses[i], l)

(* An address with an MSHR has one read, in the memory or on its way; no   *)
(* other address has one.                                                  *)
Asked(a) == {i \in DOMAIN misses : ReadOf(misses[i], a)}

OneRead(a) ==
    IF a \in mshrs THEN \/ reading[a] = 1 /\ Asked(a) = {}
                        \/ reading[a] = 0 /\ \E i \in DOMAIN misses : Asked(a) = {i}
    ELSE reading[a] = 0 /\ Asked(a) = {}
ReadEach == \A a \in Addrs : OneRead(a)

WaitersHoldMshr == \A a \in Addrs : waiters[a] # {} => a \in mshrs

Waiting(req) == (\E h \in hits : h.req = req) \/ \E a \in Addrs : req \in waiters[a]

LEMMA AddressFacts ==
    ASSUME NEW a \in Addrs
    PROVE  LineOf[a] \in Lines /\ SetOf[LineOf[a]] \in Sets
BY DEF Lines, Sets

LEMMA SetChanged ==
    ASSUME sets \in [Sets -> Seq(LineStates)], NEW a \in Addrs, NEW M \in Seq(LineStates),
           sets' = WithSet(a, M)
    PROVE  /\ sets' \in [Sets -> Seq(LineStates)]
           /\ sets'[SetOf[LineOf[a]]] = M
           /\ \A s \in Sets : s # SetOf[LineOf[a]] => sets'[s] = sets[s]
BY AddressFacts DEF WithSet

(* send() keeps the cache in order, drops no store and no request.         *)
SendFacts(c, a, write) ==
    /\ CacheTypes' /\ SetsOK' /\ MshrsOK'
    /\ \A l \in Lines : Stored(l) => Stored(l)'
    /\ write => Stored(LineOf[a])'
    /\ Waiting([addr |-> a, core |-> c])'
    /\ WaitersHoldMshr => WaitersHoldMshr' /\ \A req : Waiting(req) => Waiting(req)'
    /\ ReadEach /\ reading' = reading => ReadEach'

LEMMA SendHitFacts ==
    ASSUME CacheTypes, SetsOK, MshrsOK, NEW c \in Cores, NEW a \in Addrs, NEW w \in BOOLEAN,
           SendHit(c, a, w)
    PROVE  SendFacts(c, a, w)
<1> DEFINE L == sets[SetOf[LineOf[a]]]
           s == SetOf[LineOf[a]]
           i == CHOOSE p \in PlacesOf(a) : SetWith(a)[p].ready
           new == [line |-> LineOf[a], dirty |-> L[i].dirty \/ w, ready |-> TRUE]
           M == Append(RemoveAt(L, i), new)
           q == [addr |-> a, core |-> c]
<1>1. LineOf[a] \in Lines /\ s \in Sets /\ L \in Seq(LineStates) /\ SetOK(L, s, mshrs)
  BY AddressFacts DEF CacheTypes, SetsOK
<1>2. i \in 1..Len(L) /\ L[i].line = LineOf[a] /\ L[i].ready
  BY DEF SendHit, Hit, PlacesOf, SetWith
<1>3. sets' = WithSet(a, M)
  BY DEF SendHit, HitLine, SetWith
<1>4. /\ mshrs' = mshrs /\ waiters' = waiters /\ misses' = misses
      /\ hits' = hits \cup {[left |-> Latency, req |-> q]}
  BY DEF SendHit
<1> HIDE DEF i
<1>5. L[i].dirty \in BOOLEAN
  BY <1>1, <1>2, EntryFields
<1>6. /\ new \in LineStates /\ new.line = L[i].line /\ new.ready = TRUE
      /\ new.dirty = (L[i].dirty \/ w)
  BY <1>1, <1>2, <1>5 DEF LineStates
<1> HIDE DEF new
<1>7. /\ M \in Seq(LineStates) /\ SetOK(M, s, mshrs)
      /\ \A l : HasDirty(L, l) => HasDirty(M, l)
      /\ new.dirty => HasDirty(M, L[i].line)
  <2>1. L[i].dirty => new.dirty
    BY <1>6
  <2> QED
    BY <1>1, <1>2, <1>6, <2>1, HitSet
<1> HIDE DEF M
<1>8. /\ sets' \in [Sets -> Seq(LineStates)]
      /\ sets'[s] = M /\ \A t \in Sets : t # s => sets'[t] = sets[t]
  BY <1>3, <1>7, SetChanged DEF CacheTypes
<1>9. q \in Requests /\ [left |-> Latency, req |-> q] \in [left : 1..Latency, req : Requests]
  BY CacheAssumption DEF Requests
<1>10. CacheTypes'
  BY <1>4, <1>8, <1>9 DEF CacheTypes
<1>11. SetsOK' /\ MshrsOK'
  BY <1>4, <1>7, <1>8 DEF SetsOK, MshrsOK
<1>12. ASSUME NEW l \in Lines, Stored(l)
       PROVE  Stored(l)'
  BY <1>4, <1>7, <1>8, <1>12 DEF Stored, Sets
<1>13. w => Stored(LineOf[a])'
  BY <1>2, <1>6, <1>7, <1>8 DEF Stored
<1> HIDE DEF q
<1>14. Waiting(q)'
  <2>1. [left |-> Latency, req |-> q] \in hits'
    BY <1>4
  <2> QED
    BY <2>1 DEF Waiting
<1>15. ASSUME NEW req, Waiting(req)
       PROVE  Waiting(req)'
  BY <1>4, <1>15 DEF Waiting
<1>16. WaitersHoldMshr => WaitersHoldMshr'
  BY <1>4 DEF WaitersHoldMshr
<1>17. ReadEach /\ reading' = reading => ReadEach'
  BY <1>4 DEF ReadEach, OneRead, Asked
<1> QED
  BY <1>10, <1>11, <1>12, <1>13, <1>14, <1>15, <1>16, <1>17 DEF SendFacts, q

LEMMA SendJoinFacts ==
    ASSUME CacheTypes, SetsOK, MshrsOK, NEW c \in Cores, NEW a \in Addrs, NEW w \in BOOLEAN,
           SendJoin(c, a, w)
    PROVE  SendFacts(c, a, w)
<1> DEFINE L == sets[SetOf[LineOf[a]]]
           s == SetOf[LineOf[a]]
           M == [i \in DOMAIN L |-> IF L[i].line = LineOf[a] THEN [L[i] EXCEPT !.dirty = @ \/ w]
                                    ELSE L[i]]
           q == [addr |-> a, core |-> c]
<1>1. LineOf[a] \in Lines /\ s \in Sets /\ L \in Seq(LineStates) /\ SetOK(L, s, mshrs)
  BY AddressFacts DEF CacheTypes, SetsOK
<1>2. sets' = WithSet(a, M)
  <2>1. \A i \in DOMAIN L : i \in PlacesOf(a) <=> L[i].line = LineOf[a]
    BY <1>1 DEF PlacesOf, SetWith
  <2>2. M = [i \in DOMAIN SetWith(a) |->
                IF i \in PlacesOf(a) THEN [SetWith(a)[i] EXCEPT !.dirty = @ \/ w]
                ELSE SetWith(a)[i]]
    BY <2>1 DEF SetWith
  <2> QED
    BY <2>2 DEF SendJoin
<1>3. PICK first \in MshrsOf(a) : waiters' = [waiters EXCEPT ![first] = @ \cup {q}]
  BY DEF SendJoin
<1>4. mshrs' = mshrs /\ misses' = misses /\ hits' = hits
  BY DEF SendJoin
<1>5. first \in mshrs /\ first \in Addrs /\ LineOf[first] = LineOf[a]
  BY DEF MshrsOf, CacheTypes
<1>6. /\ M \in Seq(LineStates) /\ SetOK(M, s, mshrs)
      /\ \A l : HasDirty(L, l) => HasDirty(M, l)
      /\ w /\ Has(L, LineOf[a]) => HasDirty(M, LineOf[a])
  <2> HIDE DEF L, s
  <2> DEFINE JoinedSet(l) == [i \in DOMAIN L |-> IF L[i].line = l THEN [L[i] EXCEPT !.dirty = @ \/ w]
                                               ELSE L[i]]
  <2>1. \A l : LET J == JoinedSet(l) IN
           /\ J \in Seq(LineStates) /\ SetOK(J, s, mshrs)
           /\ \A k : HasDirty(L, k) => HasDirty(J, k)
           /\ w /\ Has(L, l) => HasDirty(J, l)
    BY <1>1, JoinSet, Zenon
  <2>2. M = JoinedSet(LineOf[a])
    OBVIOUS
  <2> HIDE DEF M, JoinedSet
  <2> QED
    BY <2>1, <2>2, Zenon
<1> HIDE DEF M
<1>7. Has(L, LineOf[a])
  BY <1>1, <1>5 DEF SetOK
<1>8. /\ sets' \in [Sets -> Seq(LineStates)]
      /\ sets'[s] = M /\ \A t \in Sets : t # s => sets'[t] = sets[t]
  BY <1>2, <1>6, SetChanged DEF CacheTypes
<1>9. q \in Requests
  BY DEF Requests
<1> HIDE DEF q
<1>10. /\ waiters' \in [Addrs -> SUBSET Requests] /\ q \in waiters'[first]
       /\ \A b \in Addrs : waiters[b] \subseteq waiters'[b]
       /\ \A b \in Addrs : b # first => waiters'[b] = waiters[b]
  BY <1>3, <1>5, <1>9 DEF CacheTypes
<1>11. CacheTypes'
  BY <1>4, <1>8, <1>10 DEF CacheTypes
<1>12. SetsOK' /\ MshrsOK'
  BY <1>4, <1>6, <1>8 DEF SetsOK, MshrsOK
<1>13. ASSUME NEW l \in Lines, Stored(l)
       PROVE  Stored(l)'
  BY <1>4, <1>6, <1>8, <1>13 DEF Stored, Sets
<1>14. w => Stored(LineOf[a])'
  BY <1>6, <1>7, <1>8 DEF Stored
<1>15. Waiting(q)'
  BY <1>5, <1>10 DEF Waiting
<1>16. ASSUME NEW req, Waiting(req)
       PROVE  Waiting(req)'
  BY <1>4, <1>10, <1>16 DEF Waiting
<1>17. WaitersHoldMshr => WaitersHoldMshr'
  BY <1>4, <1>5, <1>10 DEF WaitersHoldMshr
<1>18. ReadEach /\ reading' = reading => ReadEach'
  BY <1>4 DEF ReadEach, OneRead, Asked
<1> QED
  BY <1>11, <1>12, <1>13, <1>14, <1>15, <1>16, <1>17, <1>18 DEF SendFacts, q

(* A new miss at the end of the list, behind the write-back of a victim.   *)
LEMMA MissesGrow ==
    ASSUME NEW T \in Seq(MissEntries), NEW W \in Seq(WriteMisses), Len(W) <= 1,
           NEW e \in ReadMisses
    PROVE  LET N == T \o W \o <<e>> IN
           /\ N \in Seq(MissEntries)
           /\ \A i \in DOMAIN T : i \in DOMAIN N /\ N[i] = T[i]
           /\ \A i \in DOMAIN W : \E k \in DOMAIN N : N[k] = W[i]
           /\ \E k \in DOMAIN N : /\ N[k] = e /\ k \notin DOMAIN T
                                  /\ \A i \in DOMAIN N :
                                        i = k \/ i \in DOMAIN T \/ N[i] \in WriteMisses
<1> DEFINE N == T \o W \o <<e>>
           n == Len(T)
           m == Len(W)
<1>1. n \in Nat /\ m \in Nat /\ DOMAIN T = 1..n /\ DOMAIN W = 1..m
  OBVIOUS
<1>2. WriteMisses \subseteq MissEntries /\ e \in MissEntries
  BY DEF MissEntries
<1> HIDE DEF ReadMisses, WriteMisses, MissEntries
<1>3. W \in Seq(MissEntries)
  BY <1>2
<1>4. /\ N \in Seq(MissEntries) /\ Len(N) = n + m + 1
      /\ \A i \in 1..n : N[i] = T[i]
      /\ \A i \in 1..m : N[n + i] = W[i]
      /\ N[n + m + 1] = e
  BY <1>1, <1>2, <1>3
<1> HIDE DEF N, n, m
<1>5. DOMAIN N = 1..(n + m + 1)
  BY <1>4
<1>6. \A i \in DOMAIN T : i \in DOMAIN N /\ N[i] = T[i]
  BY <1>1, <1>4, <1>5
<1>7. \A i \in DOMAIN W : \E k \in DOMAIN N : N[k] = W[i]
  <2> SUFFICES ASSUME NEW i \in 1..m
               PROVE  \E k \in DOMAIN N : N[k] = W[i]
    BY <1>1
  <2>1. n + i \in 1..(n + m + 1)
    BY <1>1
  <2> QED
    BY <1>4, <1>5, <2>1
<1>8. n + m + 1 \in DOMAIN N /\ n + m + 1 \notin DOMAIN T
  BY <1>1, <1>5
<1>9. ASSUME NEW i \in DOMAIN N, i # n + m + 1, i \notin DOMAIN T
      PROVE  N[i] \in WriteMisses
  <2>1. i - n \in 1..m /\ n + (i - n) = i
    BY <1>1, <1>5, <1>9
  <2>2. W[i - n] \in WriteMisses
    BY <1>1, <2>1
  <2> QED
    BY <1>4, <2>1, <2>2
<1> QED
  BY <1>4, <1>6, <1>7, <1>8, <1>9 DEF N

(* The lines of a set once a new one has been allocated in it.             *)
LEMMA AllocatedSet ==
    ASSUME CacheTypes, SetsOK, NEW a \in Addrs, NEW w \in BOOLEAN,
           ~Has(sets[SetOf[LineOf[a]]], LineOf[a]), CanAllocate(a)
    PROVE  LET L == sets[SetOf[LineOf[a]]]
               new == NewLine(LineOf[a], w, FALSE)
               M == Allocated(a, new)
               gone == IF NeedEviction(a) THEN {Victim(a)} ELSE {} IN
           /\ M \in Seq(LineStates) /\ Len(M) <= Ways /\ Distinct(M)
           /\ gone \in SUBSET DOMAIN L /\ \A j \in gone : L[j].ready
           /\ Replaces(L, M, gone, new)
<1> DEFINE L == sets[SetOf[LineOf[a]]]
           s == SetOf[LineOf[a]]
           new == NewLine(LineOf[a], w, FALSE)
           M == Allocated(a, new)
           v == Victim(a)
<1>1. LineOf[a] \in Lines /\ s \in Sets /\ L \in Seq(LineStates) /\ SetOK(L, s, mshrs)
  BY AddressFacts DEF CacheTypes, SetsOK
<1>2. new \in LineStates /\ new.line = LineOf[a]
  BY <1>1, LineFields
<1>3. Distinct(L) /\ Len(L) <= Ways /\ (\A j \in DOMAIN L : L[j].line # new.line)
  BY <1>1, <1>2 DEF SetOK, Has
<1>4. Len(L) \in Nat /\ Ways \in Nat
  BY <1>1, CacheAssumption
<1>5. M = Append(IF NeedEviction(a) THEN RemoveAt(L, v) ELSE L, new)
  BY DEF Allocated, SetWith
<1>6. NeedEviction(a) <=> Len(L) >= Ways
  BY DEF NeedEviction, SetWith
<1> HIDE DEF new, M, v
<1>7. CASE ~NeedEviction(a)
  <2>1. M = Append(L, new)
    BY <1>5, <1>7
  <2>2. /\ M \in Seq(LineStates) /\ Len(M) = Len(L) + 1 /\ Replaces(L, M, {}, new) /\ Distinct(M)
    BY <1>1, <1>2, <1>3, <2>1, AddToEnd
  <2>3. Len(M) <= Ways
    BY <1>4, <1>6, <1>7, <2>2
  <2> QED
    BY <1>7, <2>2, <2>3 DEF new, M
<1>8. CASE NeedEviction(a)
  <2>1. Victims(a) \in SUBSET Nat /\ Victims(a) # {}
    BY <1>4, <1>6, <1>8 DEF CanAllocate, Victims, SetWith
  <2>2. v \in Victims(a)
    <3>1. \E i \in Victims(a) : \A j \in Victims(a) : i <= j
      BY <2>1, NatMin
    <3> QED
      BY <3>1 DEF v, Victim
  <2>3. v \in 1..Len(L) /\ L[v].ready
    BY <2>2 DEF Victims, SetWith
  <2>4. M = Append(RemoveAt(L, v), new)
    BY <1>5, <1>8
  <2>5. v \in DOMAIN L /\ {v} \in SUBSET DOMAIN L
    BY <1>1, <2>3
  <2>6. /\ M \in Seq(LineStates) /\ Len(M) = Len(L) /\ Replaces(L, M, {v}, new) /\ Distinct(M)
    <3>1. \A j \in DOMAIN L \ {v} : L[j].line # new.line
      BY <1>3
    <3> QED
      BY <1>1, <1>2, <1>3, <2>3, <2>4, <3>1, MoveToEnd
  <2>7. Len(M) <= Ways
    BY <1>3, <2>6
  <2> QED
    BY <1>8, <2>3, <2>5, <2>6, <2>7 DEF new, M, v
<1> QED
  BY <1>7, <1>8

LEMMA SendMissFacts ==
    ASSUME CacheTypes, SetsOK, MshrsOK, NEW c \in Cores, NEW a \in Addrs, NEW w \in BOOLEAN,
           SendMiss(c, a, w)
    PROVE  SendFacts(c, a, w)
<1> DEFINE L == sets[SetOf[LineOf[a]]]
           s == SetOf[LineOf[a]]
           new == NewLine(LineOf[a], w, FALSE)
           M == Allocated(a, new)
           gone == IF NeedEviction(a) THEN {Victim(a)} ELSE {}
           W == IF NeedEviction(a) THEN Writeback(SetWith(a)[Victim(a)]) ELSE <<>>
           e == [left |-> Latency, kind |-> "read", addr |-> a]
           q == [addr |-> a, core |-> c]
           held == mshrs \cup {a}
<1>1. LineOf[a] \in Lines /\ s \in Sets /\ L \in Seq(LineStates) /\ SetOK(L, s, mshrs)
  BY AddressFacts DEF CacheTypes, SetsOK
<1>2. ~Hit(a) /\ MshrsOf(a) = {} /\ CanAllocate(a)
  BY DEF SendMiss
<1>3. /\ sets' = WithSet(a, M) /\ misses' = misses \o W \o <<e>>
      /\ mshrs' = held /\ waiters' = [waiters EXCEPT ![a] = {q}] /\ hits' = hits
  BY DEF SendMiss, NewLine
<1>4. a \notin mshrs /\ \A b \in mshrs : LineOf[b] # LineOf[a]
  BY <1>2 DEF MshrsOf
<1>5. ~Has(L, LineOf[a])
  <2> SUFFICES ASSUME NEW i \in DOMAIN L, L[i].line = LineOf[a]
               PROVE  FALSE
    BY DEF Has
  <2>1. L[i].ready
    BY <1>1, <1>4 DEF SetOK, Locked
  <2>2. i \in PlacesOf(a) /\ SetWith(a)[i].ready
    BY <1>1, <2>1 DEF PlacesOf, SetWith
  <2> QED
    BY <1>2, <2>2 DEF Hit
<1>6. /\ M \in Seq(LineStates) /\ Len(M) <= Ways /\ Distinct(M)
      /\ gone \in SUBSET DOMAIN L /\ \A j \in gone : L[j].ready
      /\ Replaces(L, M, gone, new)
  BY <1>2, <1>5, AllocatedSet
<1>7. W \in Seq(WriteMisses) /\ Len(W) <= 1
      /\ \A j \in gone : L[j].dirty =>
            \E i \in DOMAIN W : W[i].kind = "write" /\ W[i].line = L[j].line
  <2>1. CASE ~NeedEviction(a)
    BY <2>1
  <2>2. CASE NeedEviction(a)
    <3> DEFINE v == Victim(a)
               x == [left |-> Latency, kind |-> "write", line |-> L[v].line]
    <3>1. gone = {v} /\ v \in DOMAIN L
      BY <1>6, <2>2
    <3> HIDE DEF v
    <3>2. L[v].line \in Lines
      BY <1>1, <3>1, EntryFields
    <3>3. x \in WriteMisses /\ x.kind = "write" /\ x.line = L[v].line
      BY <3>2, CacheAssumption DEF WriteMisses
    <3>4. W = IF L[v].dirty THEN <<x>> ELSE <<>>
      BY <2>2 DEF Writeback, SetWith, v
    <3> HIDE DEF x, W
    <3>5. CASE L[v].dirty
      <4>1. W = <<x>>
        BY <3>4, <3>5
      <4>2. W \in Seq(WriteMisses) /\ Len(W) = 1 /\ 1 \in DOMAIN W /\ W[1] = x
        BY <3>3, <4>1
      <4> QED
        BY <3>1, <3>3, <4>2
    <3>6. CASE ~L[v].dirty
      BY <3>1, <3>4, <3>6
    <3> QED
      BY <3>5, <3>6
  <2> QED
    BY <2>1, <2>2
<1>8. e \in ReadMisses /\ ReadOf(e, a) /\ \A b \in Addrs : b # a => ~ReadOf(e, b)
  BY CacheAssumption DEF ReadMisses, ReadOf
<1> HIDE DEF M, gone, W, e
<1>9. /\ misses' \in Seq(MissEntries)
      /\ \A i \in DOMAIN misses : i \in DOMAIN misses' /\ misses'[i] = misses[i]
      /\ \A i \in DOMAIN W : \E k \in DOMAIN misses' : misses'[k] = W[i]
      /\ \E k \in DOMAIN misses' : /\ misses'[k] = e /\ k \notin DOMAIN misses
                                   /\ \A i \in DOMAIN misses' :
                                         i = k \/ i \in DOMAIN misses \/ misses'[i] \in WriteMisses
  <2> DEFINE N == misses \o W \o <<e>>
  <2>1. /\ N \in Seq(MissEntries)
        /\ \A i \in DOMAIN misses : i \in DOMAIN N /\ N[i] = misses[i]
        /\ \A i \in DOMAIN W : \E k \in DOMAIN N : N[k] = W[i]
        /\ \E k \in DOMAIN N : /\ N[k] = e /\ k \notin DOMAIN misses
                               /\ \A i \in DOMAIN N :
                                     i = k \/ i \in DOMAIN misses \/ N[i] \in WriteMisses
    BY <1>7, <1>8, MissesGrow DEF CacheTypes
  <2>2. misses' = N
    BY <1>3
  <2> HIDE DEF N
  <2> QED
    BY <2>1, <2>2
<1>10. /\ sets' \in [Sets -> Seq(LineStates)]
       /\ sets'[s] = M /\ \A t \in Sets : t # s => sets'[t] = sets[t]
  BY <1>3, <1>6, SetChanged DEF CacheTypes
<1>11. /\ SetOK(M, s, held)
       /\ \A l : HasDirty(L, l) => HasDirty(M, l) \/ \E j \in gone : L[j].dirty /\ L[j].line = l
       /\ w => HasDirty(M, LineOf[a])
  <2>1. new.line = LineOf[a] /\ new.ready = FALSE /\ new.dirty = w
    BY <1>1, LineFields
  <2> HIDE DEF new
  <2>2. /\ SetOK(M, s, held)
        /\ \A l : HasDirty(L, l) => HasDirty(M, l) \/ \E j \in gone : L[j].dirty /\ L[j].line = l
        /\ new.dirty => HasDirty(M, LineOf[a])
    BY <1>1, <1>5, <1>6, <2>1, MissSet
  <2> QED
    BY <2>1, <2>2
<1>12. SetsOK'
  <2> SUFFICES ASSUME NEW t \in Sets
               PROVE  SetOK(sets'[t], t, held)
    BY <1>3 DEF SetsOK
  <2>1. CASE t = s
    BY <1>10, <1>11, <2>1
  <2>2. CASE t # s
    BY <1>10, <2>2, OtherSet DEF SetsOK
  <2> QED
    BY <2>1, <2>2
<1>13. MshrsOK' /\ held \in SUBSET Addrs /\ IsFiniteSet(held)
  <2>1. IsFiniteSet(held) /\ Cardinality(held) = Cardinality(mshrs) + 1
    BY <1>4, FS_AddElement DEF CacheTypes
  <2>2. Cardinality(mshrs) \in Nat /\ Cardinality(mshrs) < Mshrs /\ Mshrs \in Nat
    BY <1>2, CacheAssumption, FS_CardinalityType DEF CacheTypes, CanAllocate
  <2>3. \A b, d \in held : LineOf[b] = LineOf[d] => b = d
    BY <1>4 DEF MshrsOK
  <2> QED
    BY <1>3, <2>1, <2>2, <2>3 DEF MshrsOK, CacheTypes
<1>14. q \in Requests
  BY DEF Requests
<1> HIDE DEF q
<1>15. /\ waiters' \in [Addrs -> SUBSET Requests] /\ waiters'[a] = {q}
       /\ \A b \in Addrs : b # a => waiters'[b] = waiters[b]
  BY <1>3, <1>14 DEF CacheTypes
<1>16. CacheTypes'
  BY <1>3, <1>9, <1>10, <1>13, <1>15 DEF CacheTypes
<1>17. ASSUME NEW l \in Lines, Stored(l)
       PROVE  Stored(l)'
  <2>1. CASE \E i \in DOMAIN misses : WriteOf(misses[i], l)
    BY <1>9, <2>1 DEF Stored
  <2>2. CASE HasDirty(sets[SetOf[l]], l)
    <3>1. CASE SetOf[l] # s
      BY <1>10, <2>2, <3>1 DEF Stored, Sets
    <3>2. ASSUME SetOf[l] = s, HasDirty(M, l)
          PROVE  Stored(l)'
      BY <1>10, <3>2 DEF Stored
    <3>3. ASSUME NEW j \in gone, L[j].dirty, L[j].line = l
          PROVE  Stored(l)'
      <4>1. PICK i \in DOMAIN W : W[i].kind = "write" /\ W[i].line = l
        BY <1>7, <3>3
      <4>2. PICK k \in DOMAIN misses' : misses'[k] = W[i]
        BY <1>9
      <4> QED
        BY <4>1, <4>2 DEF Stored, WriteOf
    <3> QED
      BY <1>11, <2>2, <3>1, <3>2, <3>3
  <2> QED
    BY <1>17, <2>1, <2>2 DEF Stored
<1>18. w => Stored(LineOf[a])'
  BY <1>10, <1>11 DEF Stored
<1>19. Waiting(q)'
  BY <1>15 DEF Waiting
<1>20. ASSUME WaitersHoldMshr
       PROVE  WaitersHoldMshr' /\ \A req : Waiting(req) => Waiting(req)'
  <2>1. waiters[a] = {}
    BY <1>4, <1>20 DEF WaitersHoldMshr
  <2>2. WaitersHoldMshr'
    BY <1>3, <1>15, <1>20 DEF WaitersHoldMshr
  <2>3. \A b \in Addrs : waiters[b] \subseteq waiters'[b]
    BY <1>15, <2>1
  <2> QED
    BY <1>3, <2>2, <2>3 DEF Waiting
<1>21. ASSUME ReadEach, reading' = reading, NEW b \in Addrs
       PROVE  OneRead(b)'
  <2>1. PICK k \in DOMAIN misses' : /\ misses'[k] = e /\ k \notin DOMAIN misses
                                    /\ \A i \in DOMAIN misses' :
                                          i = k \/ i \in DOMAIN misses \/ misses'[i] \in WriteMisses
    BY <1>9
  <2>2. \A i \in DOMAIN misses' : ReadOf(misses'[i], b) =>
            i = k \/ (i \in DOMAIN misses /\ ReadOf(misses[i], b))
    BY <1>9, <2>1 DEF ReadOf, WriteMisses
  <2>3. OneRead(b)
    BY <1>21 DEF ReadEach
  <2>4. CASE b = a
    <3>1. reading[b] = 0 /\ Asked(b) = {}
      BY <1>4, <2>3, <2>4 DEF OneRead
    <3>2. \A i \in DOMAIN misses' : ReadOf(misses'[i], b) <=> i = k
      BY <1>8, <2>1, <2>2, <2>4, <3>1 DEF Asked
    <3>3. Asked(b)' = {k}
      BY <2>1, <3>2 DEF Asked
    <3> QED
      BY <1>3, <1>21, <2>4, <3>1, <3>3 DEF OneRead
  <2>5. CASE b # a
    <3>1. \A i : i \in Asked(b)' <=> i \in Asked(b)
      BY <1>8, <1>9, <2>1, <2>2, <2>5 DEF Asked
    <3>2. Asked(b)' = Asked(b) /\ (b \in mshrs' <=> b \in mshrs)
      BY <1>3, <2>5, <3>1
    <3>3. \A i \in DOMAIN misses : Asked(b) = {i} => i \in DOMAIN misses'
      BY <1>9
    <3> QED
      BY <1>21, <2>3, <3>2, <3>3 DEF OneRead
  <2> QED
    BY <2>4, <2>5
<1> QED
  BY <1>12, <1>13, <1>16, <1>17, <1>18, <1>19, <1>20, <1>21 DEF SendFacts, ReadEach, q

LEMMA SendAcceptedFacts ==
    ASSUME CacheTypes, SetsOK, MshrsOK, NEW c \in Cores, NEW a \in Addrs, NEW w \in BOOLEAN,
           SendAccepted(c, a, w)
    PROVE  SendFacts(c, a, w)
BY SendHitFacts, SendJoinFacts, SendMissFacts DEF SendAccepted

(* Answers fill lines and clear waiters; a written line stays written.     *)
LEMMA ReceivedFacts ==
    ASSUME CacheTypes, SetsOK, MshrsOK, NEW answered \in SUBSET Addrs, Received(answered),
           hits' \in SUBSET [left : 1..Latency, req : Requests], misses' \in Seq(MissEntries)
    PROVE  /\ CacheTypes' /\ SetsOK' /\ MshrsOK'
           /\ \A l \in Lines : HasDirty(sets[SetOf[l]], l) => HasDirty(sets[SetOf[l]], l)'
<1> DEFINE freed == Freed(answered)
           held == mshrs \ freed
           M(s) == Filled(sets[s], freed)
<1>1. /\ mshrs' = held /\ sets' = [s \in Sets |-> M(s)]
      /\ waiters' = [a \in Addrs |-> IF a \in answered THEN {} ELSE waiters[a]]
  BY DEF Received, Filled
<1>2. freed \in SUBSET mshrs /\ \A b \in freed, d \in mshrs : LineOf[b] = LineOf[d] => d \in freed
  BY DEF Freed
<1> HIDE DEF freed
<1>3. ASSUME NEW s \in Sets
      PROVE  /\ M(s) \in Seq(LineStates) /\ SetOK(M(s), s, held)
             /\ \A l : HasDirty(sets[s], l) => HasDirty(M(s), l)
  <2>1. sets[s] \in Seq(LineStates) /\ SetOK(sets[s], s, mshrs)
    BY DEF CacheTypes, SetsOK
  <2> QED
    BY <1>2, <2>1, AnsweredSet
<1> HIDE DEF M
<1>4. sets' \in [Sets -> Seq(LineStates)] /\ \A s \in Sets : sets'[s] = M(s)
  BY <1>1, <1>3
<1>5. SetsOK'
  BY <1>1, <1>3, <1>4 DEF SetsOK
<1>6. held \in SUBSET mshrs /\ IsFiniteSet(held) /\ Cardinality(held) <= Cardinality(mshrs)
      /\ Cardinality(held) \in Nat /\ Cardinality(mshrs) \in Nat
  BY <1>2, FS_Subset, FS_CardinalityType DEF CacheTypes
<1>7. MshrsOK'
  <2>1. Cardinality(held) <= Mshrs
    BY <1>6, CacheAssumption DEF MshrsOK
  <2> QED
    BY <1>1, <2>1 DEF MshrsOK
<1>8. waiters' \in [Addrs -> SUBSET Requests]
  BY <1>1 DEF CacheTypes
<1>9. CacheTypes'
  BY <1>1, <1>4, <1>6, <1>8 DEF CacheTypes
<1>10. \A l \in Lines : HasDirty(sets[SetOf[l]], l) => HasDirty(sets[SetOf[l]], l)'
  <2>1. \A l \in Lines : SetOf[l] \in Sets
    BY DEF Sets
  <2> QED
    BY <1>3, <1>4, <2>1
<1> QED
  BY <1>5, <1>7, <1>9, <1>10

(* Every hit counts down, and is answered when it is due.                  *)
LEMMA HitsFacts ==
    ASSUME CacheTypes, hits' = {[h EXCEPT !.left = @ - 1] : h \in hits \ DueHits}
    PROVE  /\ hits' \in SUBSET [left : 1..Latency, req : Requests]
           /\ \A req : (\E h \in hits : h.req = req) =>
                 (\E h \in hits' : h.req = req) \/ \E h \in DueHits : h.req = req
           /\ DueHits \in SUBSET hits /\ \A h \in DueHits : h.req \in Requests
<1> DEFINE older(h) == [h EXCEPT !.left = @ - 1]
<1>1. hits' = {older(h) : h \in hits \ DueHits}
  OBVIOUS
<1>2. ASSUME NEW h \in hits
      PROVE  /\ h.left \in 1..Latency /\ h.req \in Requests
             /\ h.left # 1 => older(h) \in [left : 1..Latency, req : Requests]
             /\ older(h).req = h.req
  <2>1. h \in [left : 1..Latency, req : Requests]
    BY DEF CacheTypes
  <2>2. h.left \in 1..Latency /\ h.req \in Requests /\ h = [left |-> h.left, req |-> h.req]
    BY <2>1
  <2>3. older(h) = [left |-> h.left - 1, req |-> h.req]
    BY <2>2
  <2>4. h.left # 1 => h.left - 1 \in 1..Latency
    BY <2>2, CacheAssumption
  <2> HIDE DEF older
  <2> QED
    BY <2>2, <2>3, <2>4
<1> HIDE DEF older
<1>3. DueHits \in SUBSET hits /\ \A h \in hits : h \in DueHits <=> h.left = 1
  BY DEF DueHits
<1>4. hits' \in SUBSET [left : 1..Latency, req : Requests]
  BY <1>1, <1>2, <1>3
<1>5. ASSUME NEW h \in hits, h \notin DueHits
      PROVE  \E g \in hits' : g.req = h.req
  BY <1>1, <1>2, <1>5
<1> QED
  BY <1>2, <1>3, <1>4, <1>5

(* The memory takes due misses of a kind, no more than it has room for.    *)
LEMMA TakenFacts ==
    ASSUME misses \in Seq(MissEntries), NEW kind, NEW room
    PROVE  /\ Taken(kind, room) \in SUBSET (1..Len(misses))
           /\ \A i \in Taken(kind, room) : misses[i].kind = kind
           /\ IsFiniteSet(Taken(kind, room)) /\ Cardinality(Taken(kind, room)) \in Nat
           /\ room \in Nat => Cardinality(Taken(kind, room)) <= room
<1> DEFINE n == Len(misses)
           D == {i \in DueMisses : misses[i].kind = kind}
           F == {i \in D : Cardinality(Before(D, i)) < room}
<1>1. n \in Nat /\ D \in SUBSET (1..n) /\ \A i \in D : misses[i].kind = kind
  BY DEF DueMisses
<1>2. Taken(kind, room) = F
  <2>1. \A i : Before(D, i) = {j \in DueMisses : j < i /\ misses[j].kind = kind}
    BY DEF Before
  <2> QED
    BY <2>1 DEF Taken
<1> HIDE DEF D, n
<1>3. F \in SUBSET (1..n) /\ \A i \in F : misses[i].kind = kind
  BY <1>1
<1>4. IsFiniteSet(F) /\ Cardinality(F) \in Nat
  BY <1>1, <1>3, PlacesFinite
<1>5. room \in Nat => Cardinality(F) <= room
  BY <1>1, FirstFit
<1> HIDE DEF F
<1> QED
  BY <1>2, <1>3, <1>4, <1>5 DEF n

-----------------------------------------------------------------------------
(* The inductive invariant.  Beside the cache it says where the two things *)
(* are that may be lost.  A store the memory has not seen is in a dirty    *)
(* line or in a write-back.  An instruction that waits has a hit that      *)
(* counts down, or a place among the waiters of an address with an MSHR,   *)
(* which has exactly one read.  A hit that is answered after its line was  *)
(* missed again breaks the second part, and only that.                     *)
CoreTypes ==
    /\ window \in [Cores -> Seq(WindowEntries)]
    /\ \A c \in Cores : Len(window[c]) <= Depth
    /\ inst \in [Cores -> TraceLines]
    /\ next \in [Cores -> Nat] /\ \A c \in Cores : next[c] \in 1..Len(Trace[c])
    /\ retired \in [Cores -> 0..Expected]
    /\ pageOf \in [Cores -> [VPages -> PPages \cup {NoPage}]]

MemTypes ==
    /\ reading \in [Addrs -> Nat] /\ writing \in 0..WriteSlots
    /\ turn \in 0..Memory /\ overtaken \in BOOLEAN /\ unsaved \in SUBSET Lines

Awaits(c, entries) ==
    \A i \in DOMAIN entries : ~entries[i].ready => Waiting([addr |-> entries[i].addr, core |-> c])
Awaited == \A c \in Cores : Awaits(c, window[c])

StoresKept == \A l \in unsaved : Stored(l)
NoneLost == ~overtaken => ReadEach /\ WaitersHoldMshr /\ Awaited

Inv == CacheTypes /\ CoreTypes /\ MemTypes /\ SetsOK /\ MshrsOK /\ StoresKept /\ NoneLost

(* set_ready() wakes the instructions with an answered address.            *)
LEMMA WokenFacts ==
    ASSUME NEW c \in Cores, window[c] \in Seq(WindowEntries), NEW answered
    PROVE  LET M == Woken(c, answered) IN
           /\ M \in Seq(WindowEntries) /\ Len(M) = Len(window[c])
           /\ DOMAIN M = DOMAIN window[c]
           /\ \A i \in DOMAIN M : ~M[i].ready =>
                 /\ ~window[c][i].ready /\ M[i].addr = window[c][i].addr
                 /\ [addr |-> M[i].addr, core |-> c] \notin answered
<1> DEFINE w == window[c]
           M == Woken(c, answered)
           hit(i) == [addr |-> w[i].addr, core |-> c] \in answered
<1>1. /\ w \in Seq(WindowEntries) /\ Len(w) \in Nat /\ DOMAIN w = 1..Len(w)
      /\ DOMAIN M = DOMAIN w /\ M = [i \in DOMAIN w |-> M[i]]
  BY DEF Woken
<1>2. \A i \in DOMAIN w : M[i] = IF hit(i) THEN [w[i] EXCEPT !.ready = TRUE] ELSE w[i]
  BY DEF Woken
<1> HIDE DEF M, w
<1>3. ASSUME NEW i \in DOMAIN w
      PROVE  /\ M[i] \in WindowEntries /\ M[i].addr = w[i].addr
             /\ ~M[i].ready => ~w[i].ready /\ ~hit(i)
  <2>1. w[i] \in WindowEntries
    BY <1>1
  <2>2. CASE hit(i)
    <3>1. M[i] = [w[i] EXCEPT !.ready = TRUE]
      BY <1>2, <2>2
    <3> QED
      BY <2>1, <3>1 DEF WindowEntries
  <2>3. CASE ~hit(i)
    <3>1. M[i] = w[i]
      BY <1>2, <2>3
    <3> QED
      BY <2>1, <2>3, <3>1
  <2> QED
    BY <2>2, <2>3
<1>4. M \in Seq(WindowEntries) /\ Len(M) = Len(w)
  <2>1. M \in [1..Len(w) -> WindowEntries]
    BY <1>1, <1>3
  <2> QED
    BY <1>1, <2>1
<1>5. \A i \in DOMAIN M : ~M[i].ready =>
          ~w[i].ready /\ M[i].addr = w[i].addr /\ [addr |-> M[i].addr, core |-> c] \notin answered
  BY <1>1, <1>3
<1> QED
  BY <1>1, <1>4, <1>5 DEF w, M

LEMMA LlcTickInv ==
    ASSUME Inv, LlcTick
    PROVE  Inv'
<1> USE DEF Inv
<1> DEFINE reads == Taken("read", ReadSlots - ReadsHeld)
           writes == Taken("write", WriteSlots - writing)
           n == Len(misses)
           kept == (1..n) \ (reads \cup writes)
           answered == {h.req : h \in DueHits}
           lines == {h.req.addr : h \in DueHits}
           took(a) == {i \in reads : misses[i].addr = a}
           new == Remaining(kept)
<1>1. /\ turn = 0 /\ turn' = 1
      /\ misses' = new /\ Received(lines)
      /\ hits' = {[h EXCEPT !.left = @ - 1] : h \in hits \ DueHits}
      /\ reading' = [a \in Addrs |-> reading[a] + Cardinality(took(a))]
      /\ writing' = writing + Cardinality(writes)
      /\ unsaved' = {l \in unsaved :
                        Dirty(l) \/ \A i \in writes \cap WritebacksOf(l) :
                                       \E j \in WritebacksOf(l) : j > i}
      /\ window' = [c \in Cores |-> Woken(c, answered)]
      /\ overtaken' = (overtaken \/ \E h \in DueHits : MshrsOf(h.req.addr) # {})
      /\ UNCHANGED <<pageOf, inst, next, retired>>
  BY DEF LlcTick, LlcTickTaking, MissesLeft
<1>2. n \in Nat /\ DOMAIN misses = 1..n
  BY DEF CacheTypes
<1>3. WriteSlots - writing \in Nat /\ writing \in Nat /\ WriteSlots \in Nat
  BY ProcessorAssumption DEF MemTypes
<1>4. /\ reads \in SUBSET (1..n) /\ writes \in SUBSET (1..n)
      /\ \A i \in reads : misses[i].kind = "read"
      /\ \A i \in writes : misses[i].kind = "write"
      /\ Cardinality(writes) \in 0..(WriteSlots - writing)
  <2>1. misses \in Seq(MissEntries)
    BY DEF CacheTypes
  <2> QED
    BY <1>3, <2>1, TakenFacts
<1> HIDE DEF reads, writes
<1>5. kept \in SUBSET (1..n) /\ \A i \in 1..n : i \in kept <=> i \notin reads /\ i \notin writes
  OBVIOUS
<1> HIDE DEF kept
<1>6. /\ new \in Seq(MissEntries)
      /\ \A l \in Lines, i \in kept : WriteOf(misses[i], l) => \E k \in DOMAIN new : WriteOf(new[k], l)
      /\ \A a \in Addrs : (\A i \in kept : ~ReadOf(misses[i], a)) =>
            {k \in DOMAIN new : ReadOf(new[k], a)} = {}
      /\ \A a \in Addrs, i \in kept :
            ReadOf(misses[i], a) /\ (\A j \in kept : ReadOf(misses[j], a) => j = i) =>
            \E k \in DOMAIN new : {m \in DOMAIN new : ReadOf(new[m], a)} = {k}
  <2>1. misses \in Seq(MissEntries) /\ kept \in SUBSET (1..Len(misses))
    BY <1>5 DEF CacheTypes
  <2> QED
    BY <2>1, RemainingMisses
<1> HIDE DEF new
<1>7. /\ misses' \in Seq(MissEntries)
      /\ \A l \in Lines, i \in kept : WriteOf(misses[i], l) => \E k \in DOMAIN misses' : WriteOf(misses'[k], l)
      /\ \A a \in Addrs : (\A i \in kept : ~ReadOf(misses[i], a)) => Asked(a)' = {}
      /\ \A a \in Addrs, i \in kept :
            ReadOf(misses[i], a) /\ (\A j \in kept : ReadOf(misses[j], a) => j = i) =>
            \E k \in DOMAIN misses' : Asked(a)' = {k}
  BY <1>1, <1>6 DEF Asked
<1>8. /\ hits' \in SUBSET [left : 1..Latency, req : Requests]
      /\ \A req : (\E h \in hits : h.req = req) =>
            (\E h \in hits' : h.req = req) \/ \E h \in DueHits : h.req = req
      /\ DueHits \in SUBSET hits /\ \A h \in DueHits : h.req \in Requests
  BY <1>1, HitsFacts
<1>9. lines \in SUBSET Addrs
  BY <1>8 DEF Requests
<1>10. /\ CacheTypes' /\ SetsOK' /\ MshrsOK'
       /\ \A l \in Lines : HasDirty(sets[SetOf[l]], l) => HasDirty(sets[SetOf[l]], l)'
  <2> HIDE DEF lines
  <2> QED
    BY <1>1, <1>7, <1>8, <1>9, ReceivedFacts
<1>11. ASSUME NEW c \in Cores
       PROVE  /\ window'[c] \in Seq(WindowEntries) /\ Len(window'[c]) = Len(window[c])
              /\ DOMAIN window'[c] = DOMAIN window[c]
              /\ \A i \in DOMAIN window'[c] : ~window'[c][i].ready =>
                    /\ ~window[c][i].ready /\ window'[c][i].addr = window[c][i].addr
                    /\ [addr |-> window'[c][i].addr, core |-> c] \notin answered
  <2> DEFINE M == Woken(c, answered)
  <2>1. window[c] \in Seq(WindowEntries)
    BY DEF CoreTypes
  <2>2. window'[c] = M
    BY <1>1
  <2> HIDE DEF answered
  <2>3. /\ M \in Seq(WindowEntries) /\ Len(M) = Len(window[c])
        /\ DOMAIN M = DOMAIN window[c]
        /\ \A i \in DOMAIN M : ~M[i].ready =>
              /\ ~window[c][i].ready /\ M[i].addr = window[c][i].addr
              /\ [addr |-> M[i].addr, core |-> c] \notin answered
    BY <2>1, WokenFacts
  <2> HIDE DEF M
  <2> QED
    BY <2>2, <2>3
<1>12. CoreTypes'
  <2>1. window' \in [Cores -> Seq(WindowEntries)]
    BY <1>1, <1>11
  <2> QED
    BY <1>1, <1>11, <2>1 DEF CoreTypes
<1>13. \A a \in Addrs : took(a) = reads \cap Asked(a)
  BY <1>2, <1>4 DEF Asked, ReadOf
<1>14. \A a \in Addrs : Cardinality(took(a)) \in Nat
  <2>1. \A a \in Addrs : took(a) \in SUBSET (1..n)
    BY <1>4
  <2> HIDE DEF took
  <2> QED
    BY <1>2, <2>1, PlacesFinite
<1> HIDE DEF took
<1>15. MemTypes'
  <2>1. reading' \in [Addrs -> Nat]
    BY <1>1, <1>14 DEF MemTypes
  <2>2. writing' \in 0..WriteSlots
    BY <1>1, <1>3, <1>4
  <2>3. turn' \in 0..Memory
    BY <1>1, ProcessorAssumption, FS_CardinalityType DEF Memory
  <2>4. overtaken' \in BOOLEAN
    BY <1>1 DEF MemTypes
  <2>5. unsaved' \in SUBSET Lines
    BY <1>1 DEF MemTypes
  <2> QED
    BY <2>1, <2>2, <2>3, <2>4, <2>5 DEF MemTypes
<1>16. StoresKept'
  <2> SUFFICES ASSUME NEW l \in unsaved' PROVE Stored(l)'
    BY DEF StoresKept
  <2>1. /\ l \in unsaved /\ l \in Lines
        /\ \/ HasDirty(sets[SetOf[l]], l)
           \/ \A i \in writes \cap WritebacksOf(l) : \E j \in WritebacksOf(l) : j > i
    BY <1>1 DEF Dirty, HasDirty, MemTypes
  <2>2. CASE HasDirty(sets[SetOf[l]], l)
    BY <1>10, <2>1, <2>2 DEF Stored
  <2>3. CASE ~HasDirty(sets[SetOf[l]], l)
    <3> DEFINE W == WritebacksOf(l)
    <3>1. /\ W \in SUBSET (1..n) /\ W # {}
          /\ \A i \in W : misses[i].kind = "write" /\ WriteOf(misses[i], l)
      BY <1>2, <2>1, <2>3 DEF StoresKept, Stored, WritebacksOf, WriteOf
    <3>2. \A i \in writes \cap W : \E j \in W : j > i
      BY <2>1, <2>3
    <3> HIDE DEF W
    <3>3. PICK i \in W : \A j \in W : ~(j > i)
      BY <1>2, <3>1, LastOf
    <3>4. i \in kept
      BY <1>4, <1>5, <3>1, <3>2, <3>3
    <3>5. \E k \in DOMAIN misses' : WriteOf(misses'[k], l)
      BY <1>7, <2>1, <3>1, <3>4
    <3> QED
      BY <3>5 DEF Stored
  <2> QED
    BY <2>2, <2>3
<1>17. ASSUME ~overtaken'
       PROVE  (ReadEach /\ WaitersHoldMshr /\ Awaited)'
  <2>1. /\ ~overtaken /\ ReadEach /\ WaitersHoldMshr /\ Awaited
        /\ \A a \in lines : MshrsOf(a) = {}
    BY <1>1, <1>17 DEF NoneLost
  <2>2. Freed(lines) = {}
    BY <2>1 DEF Freed, MshrsOf
  <2>3. mshrs' = mshrs
    BY <1>1, <2>2 DEF Received
  <2>4. \A a \in Addrs : waiters'[a] = waiters[a]
    <3> SUFFICES ASSUME NEW a \in Addrs PROVE waiters'[a] = waiters[a]
      OBVIOUS
    <3>1. waiters'[a] = IF a \in lines THEN {} ELSE waiters[a]
      BY <1>1 DEF Received
    <3>2. a \in lines => waiters[a] = {}
      BY <2>1 DEF MshrsOf, WaitersHoldMshr
    <3> HIDE DEF lines
    <3> QED
      BY <3>1, <3>2
  <2>5. WaitersHoldMshr'
    BY <2>1, <2>3, <2>4 DEF WaitersHoldMshr
  <2>6. Awaited'
    <3> SUFFICES ASSUME NEW c \in Cores, NEW i \in DOMAIN window'[c], ~window'[c][i].ready,
                        NEW q, q = [addr |-> window'[c][i].addr, core |-> c]
                 PROVE  (\E h \in hits' : h.req = q) \/ \E a \in Addrs : q \in waiters'[a]
      BY DEF Awaited, Awaits, Waiting
    <3>1. /\ i \in DOMAIN window[c] /\ ~window[c][i].ready
          /\ q = [addr |-> window[c][i].addr, core |-> c] /\ q \notin answered
      BY <1>11
    <3>2. (\E h \in hits : h.req = q) \/ \E a \in Addrs : q \in waiters[a]
      BY <2>1, <3>1 DEF Awaited, Awaits, Waiting
    <3> QED
      BY <1>8, <2>4, <3>1, <3>2
  <2>7. ReadEach'
    <3> SUFFICES ASSUME NEW a \in Addrs PROVE OneRead(a)'
      BY DEF ReadEach
    <3>1. OneRead(a) /\ reading'[a] = reading[a] + Cardinality(took(a)) /\ reading[a] \in Nat
      BY <1>1, <2>1 DEF ReadEach, MemTypes
    <3>2. \A i \in DOMAIN misses : i \in Asked(a) <=> ReadOf(misses[i], a)
      BY DEF Asked
    <3>3. CASE Asked(a) = {}
      <4>1. took(a) = {}
        BY <1>13, <3>3
      <4>2. reading'[a] = reading[a]
        BY <3>1, <4>1, FS_EmptySet
      <4>3. Asked(a)' = {}
        BY <1>2, <1>5, <1>7, <3>2, <3>3
      <4> QED
        BY <2>3, <3>1, <3>3, <4>2, <4>3 DEF OneRead
    <3>4. ASSUME NEW i \in DOMAIN misses, Asked(a) = {i}
          PROVE  OneRead(a)'
      <4>1. a \in mshrs /\ reading[a] = 0
        BY <3>1, <3>4 DEF OneRead
      <4>2. CASE i \in reads
        <5>1. took(a) = {i}
          BY <1>13, <3>4, <4>2
        <5>2. reading'[a] = 1
          <6>1. Cardinality(took(a)) = 1
            BY <5>1, FS_Singleton
          <6> QED
            BY <3>1, <4>1, <6>1
        <5>3. \A j \in kept : ~ReadOf(misses[j], a)
          BY <1>2, <1>5, <3>2, <3>4, <4>2
        <5>4. Asked(a)' = {}
          BY <1>7, <5>3
        <5> QED
          BY <2>3, <4>1, <5>2, <5>4 DEF OneRead
      <4>3. CASE i \notin reads
        <5>1. took(a) = {}
          BY <1>13, <3>4, <4>3
        <5>2. reading'[a] = 0
          BY <3>1, <4>1, <5>1, FS_EmptySet
        <5>3. ReadOf(misses[i], a) /\ \A j \in kept : ReadOf(misses[j], a) => j = i
          BY <1>2, <1>5, <3>2, <3>4
        <5>4. i \in kept
          BY <1>2, <1>4, <1>5, <4>3, <5>3 DEF ReadOf
        <5>5. \E k \in DOMAIN misses' : Asked(a)' = {k}
          BY <1>7, <5>3, <5>4
        <5> QED
          BY <2>3, <4>1, <5>2, <5>5 DEF OneRead
      <4> QED
        BY <4>2, <4>3
    <3>5. Asked(a) = {} \/ \E i \in DOMAIN misses : Asked(a) = {i}
      BY <3>1 DEF OneRead
    <3> QED
      BY <3>3, <3>4, <3>5
  <2> QED
    BY <2>5, <2>6, <2>7
<1> QED
  BY <1>10, <1>12, <1>15, <1>16, <1>17 DEF NoneLost


(* The memory answers a read.                                              *)
LEMMA MemoryAnswerInv ==
    ASSUME Inv, NEW a \in Addrs, MemoryAnswer(a)
    PROVE  Inv'
<1> USE DEF Inv
<1>1. /\ turn' = turn /\ reading[a] > 0
      /\ reading' = [reading EXCEPT ![a] = @ - 1]
      /\ Received({a})
      /\ window' = [c \in Cores |-> Woken(c, waiters[a])]
      /\ UNCHANGED <<misses, hits, pageOf, inst, next, retired, writing, overtaken, unsaved>>
  BY DEF MemoryAnswer
<1>2. /\ CacheTypes' /\ SetsOK' /\ MshrsOK'
      /\ \A l \in Lines : HasDirty(sets[SetOf[l]], l) => HasDirty(sets[SetOf[l]], l)'
  <2>1. /\ hits' \in SUBSET [left : 1..Latency, req : Requests]
        /\ misses' \in Seq(MissEntries)
    BY <1>1 DEF CacheTypes
  <2> QED
    BY <1>1, <2>1, ReceivedFacts
<1>3. ASSUME NEW c \in Cores
      PROVE  /\ window'[c] \in Seq(WindowEntries) /\ Len(window'[c]) = Len(window[c])
             /\ DOMAIN window'[c] = DOMAIN window[c]
             /\ \A i \in DOMAIN window'[c] : ~window'[c][i].ready =>
                   /\ ~window[c][i].ready /\ window'[c][i].addr = window[c][i].addr
                   /\ [addr |-> window'[c][i].addr, core |-> c] \notin waiters[a]
  <2> DEFINE M == Woken(c, waiters[a])
  <2>1. window[c] \in Seq(WindowEntries)
    BY DEF CoreTypes
  <2>2. window'[c] = M
    BY <1>1
  <2>3. /\ M \in Seq(WindowEntries) /\ Len(M) = Len(window[c])
        /\ DOMAIN M = DOMAIN window[c]
        /\ \A i \in DOMAIN M : ~M[i].ready =>
              /\ ~window[c][i].ready /\ M[i].addr = window[c][i].addr
              /\ [addr |-> M[i].addr, core |-> c] \notin waiters[a]
    BY <2>1, WokenFacts
  <2> HIDE DEF M
  <2> QED
    BY <2>2, <2>3
<1>4. CoreTypes'
  <2>1. window' \in [Cores -> Seq(WindowEntries)]
    BY <1>1, <1>3
  <2> QED
    BY <1>1, <1>3, <2>1 DEF CoreTypes
<1>5. MemTypes'
  <2>1. reading' \in [Addrs -> Nat]
    BY <1>1 DEF MemTypes
  <2> QED
    BY <1>1, <2>1 DEF MemTypes
<1>6. StoresKept'
  BY <1>1, <1>2 DEF StoresKept, Stored, MemTypes
<1>7. ASSUME ~overtaken'
      PROVE  (ReadEach /\ WaitersHoldMshr /\ Awaited)'
  <2>1. ReadEach /\ WaitersHoldMshr /\ Awaited
    BY <1>1, <1>7 DEF NoneLost
  <2>2. reading[a] = 1 /\ Asked(a) = {} /\ a \in mshrs
    BY <1>1, <2>1 DEF ReadEach, OneRead
  <2>3. Freed({a}) = {a}
    BY <2>2 DEF Freed, MshrsOK
  <2>4. mshrs' = mshrs \ {a}
    BY <1>1, <2>3 DEF Received
  <2>5. \A b \in Addrs : waiters'[b] = IF b = a THEN {} ELSE waiters[b]
    BY <1>1 DEF Received
  <2>6. WaitersHoldMshr'
    BY <2>1, <2>4, <2>5 DEF WaitersHoldMshr
  <2>7. Awaited'
    <3> SUFFICES ASSUME NEW c \in Cores, NEW i \in DOMAIN window'[c], ~window'[c][i].ready,
                        NEW q, q = [addr |-> window'[c][i].addr, core |-> c]
                 PROVE  (\E h \in hits' : h.req = q) \/ \E b \in Addrs : q \in waiters'[b]
      BY DEF Awaited, Awaits, Waiting
    <3>1. /\ i \in DOMAIN window[c] /\ ~window[c][i].ready
          /\ q = [addr |-> window[c][i].addr, core |-> c] /\ q \notin waiters[a]
      BY <1>3
    <3>2. (\E h \in hits : h.req = q) \/ \E b \in Addrs : q \in waiters[b]
      BY <2>1, <3>1 DEF Awaited, Awaits, Waiting
    <3> QED
      BY <1>1, <2>5, <3>1, <3>2
  <2>8. ReadEach'
    <3> SUFFICES ASSUME NEW b \in Addrs PROVE OneRead(b)'
      BY DEF ReadEach
    <3>1. OneRead(b) /\ Asked(b)' = Asked(b) /\ misses' = misses
      BY <1>1, <2>1 DEF ReadEach, Asked
    <3>2. reading'[b] = IF b = a THEN 0 ELSE reading[b]
      BY <1>1, <2>2 DEF MemTypes
    <3> QED
      BY <2>2, <2>4, <3>1, <3>2 DEF OneRead
  <2> QED
    BY <2>6, <2>7, <2>8
<1> QED
  BY <1>2, <1>4, <1>5, <1>6, <1>7 DEF NoneLost


-----------------------------------------------------------------------------
(* What a tick of a core does before it sends: it retires and adds bubbles.*)
LEMMA LeastOf ==
    ASSUME NEW S \in SUBSET Nat, S # {}
    PROVE  Min(S) \in S /\ \A x \in S : Min(S) <= x
BY NatMin DEF Min

LEMMA RetireFacts ==
    ASSUME CoreTypes, NEW c \in Cores
    PROVE  RetireCount(c) \in 0..Len(window[c])
<1> DEFINE w == window[c]
           n == Len(w)
           S == {k \in 0..n : k = n \/ k = Ipc \/ ~w[k + 1].ready}
<1>1. n \in Nat /\ Ipc \in Nat \ {0}
  BY ProcessorAssumption DEF CoreTypes
<1>2. S \in SUBSET Nat /\ n \in S
  BY <1>1
<1>3. PICK k \in S : \A m \in S : k <= m
  BY <1>2, NatMin
<1>4. k \in 0..n /\ (k = n \/ k = Ipc \/ ~w[k + 1].ready)
  OBVIOUS
<1>5. k <= Ipc
  <2>1. Ipc <= n => Ipc \in S
    BY <1>1
  <2>2. k \in Nat /\ (Ipc <= n => k <= Ipc) /\ k <= n
    BY <1>1, <1>3, <1>4, <2>1
  <2> HIDE DEF n
  <2> QED
    BY <1>1, <2>2
<1>6. \A i \in 1..k : w[i].ready
  <2> SUFFICES ASSUME NEW i \in 1..k, ~w[i].ready PROVE FALSE
    OBVIOUS
  <2>1. i - 1 \in 0..n /\ (i - 1) + 1 = i /\ ~(k <= i - 1)
    BY <1>1, <1>4
  <2>2. i - 1 \in S
    BY <2>1
  <2> QED
    BY <1>3, <2>1, <2>2
<1> HIDE DEF S, w
<1>7. \E m \in 0..n : /\ m <= Ipc /\ \A i \in 1..m : w[i].ready
                      /\ m = n \/ m = Ipc \/ ~w[m + 1].ready
  BY <1>4, <1>5, <1>6
<1> QED
  BY <1>7 DEF RetireCount, w

LEMMA BubbleFacts ==
    ASSUME CoreTypes, NEW c \in Cores
    PROVE  /\ BubbleCount(c) \in Nat /\ BubbleCount(c) <= inst[c].bubbles
           /\ BubbleCount(c) <= Depth - (Len(window[c]) - RetireCount(c))
<1> DEFINE b == inst[c].bubbles
           d == Depth - (Len(window[c]) - RetireCount(c))
           S == {b, Ipc, d}
<1>1. b \in Nat
  BY DEF CoreTypes, TraceLines
<1>2. d \in Nat
  <2>1. RetireCount(c) \in 0..Len(window[c]) /\ Len(window[c]) \in Nat
    BY RetireFacts DEF CoreTypes
  <2>2. Len(window[c]) <= Depth /\ Depth \in Nat
    BY ProcessorAssumption DEF CoreTypes
  <2> QED
    BY <2>1, <2>2
<1>3. Ipc \in Nat
  BY ProcessorAssumption
<1>4. BubbleCount(c) = Min(S)
  BY DEF BubbleCount
<1> HIDE DEF b, d
<1>5. S \in SUBSET Nat /\ S # {} /\ b \in S /\ d \in S
  BY <1>1, <1>2, <1>3
<1> HIDE DEF S
<1>6. Min(S) \in S /\ \A x \in S : Min(S) <= x
  BY <1>5, LeastOf
<1> QED
  BY <1>4, <1>5, <1>6 DEF b, d

LEMMA OldestGone ==
    ASSUME NEW S, NEW w \in Seq(S), NEW r \in 0..Len(w)
    PROVE  LET old == SubSeq(w, r + 1, Len(w)) IN
           /\ old \in Seq(S) /\ Len(old) = Len(w) - r
           /\ \A i \in 1..Len(old) : old[i] = w[r + i] /\ r + i \in DOMAIN w
<1> DEFINE n == Len(w)  a == r + 1  old == SubSeq(w, a, n)
<1>1. n \in Nat /\ r \in 0..n /\ a \in 1..(n + 1) /\ DOMAIN w = 1..n
  OBVIOUS
<1>2. old \in Seq(S) /\ Len(old) = n - r
  OBVIOUS
<1>3. \A i \in 1..(n - r) : old[i] = w[r + i]
  OBVIOUS
<1>4. \A i \in 1..(n - r) : r + i \in 1..n
  BY <1>1
<1> HIDE DEF old
<1>5. \A i \in 1..Len(old) : old[i] = w[r + i] /\ r + i \in DOMAIN w
  BY <1>1, <1>2, <1>3, <1>4, Zenon
<1> QED
  BY <1>2, <1>5, Zenon DEF old

LEMMA WindowNowFacts ==
    ASSUME CoreTypes, NEW c \in Cores
    PROVE  /\ WindowNow(c) \in Seq(WindowEntries) /\ Len(WindowNow(c)) <= Depth
           /\ Len(WindowNow(c)) \in Nat
           /\ Awaits(c, window[c]) => Awaits(c, WindowNow(c))
<1> DEFINE w == window[c]
           r == RetireCount(c)
           n == BubbleCount(c)
           old == SubSeq(w, r + 1, Len(w))
           in == [i \in 1..n |-> Bubble]
           N == old \o in
<1>1. w \in Seq(WindowEntries) /\ Len(w) \in Nat /\ r \in 0..Len(w)
  BY RetireFacts DEF CoreTypes
<1>2. n \in Nat /\ n <= Depth - (Len(w) - r) /\ Depth \in Nat
  BY BubbleFacts, ProcessorAssumption
<1>3. Bubble \in WindowEntries /\ Bubble.ready
  BY DEF Bubble, WindowEntries
<1>4. WindowNow(c) = N
  BY DEF WindowNow
<1> HIDE DEF w, r, n
<1>5. old \in Seq(WindowEntries) /\ Len(old) = Len(w) - r
      /\ \A i \in 1..Len(old) : old[i] = w[r + i] /\ r + i \in DOMAIN w
  BY <1>1, OldestGone
<1>6. in \in Seq(WindowEntries) /\ Len(in) = n /\ \A i \in 1..n : in[i].ready
  <2>1. in \in [1..n -> WindowEntries]
    BY <1>3
  <2> QED
    BY <1>2, <1>3, <2>1
<1>7. Len(old) \in Nat /\ Len(in) \in Nat
  BY <1>1, <1>2, <1>5, <1>6
<1> HIDE DEF old, in
<1>8. /\ N \in Seq(WindowEntries) /\ Len(N) = Len(old) + Len(in)
      /\ \A i \in 1..Len(old) : N[i] = old[i]
      /\ \A i \in 1..Len(in) : N[Len(old) + i] = in[i]
  <2>1. N \in Seq(WindowEntries) /\ Len(N) = Len(old) + Len(in)
    BY <1>5, <1>6
  <2>2. \A i \in 1..Len(old) : N[i] = old[i]
    BY <1>5, <1>6, <1>7
  <2>3. \A i \in 1..Len(in) : N[Len(old) + i] = in[i]
    BY <1>5, <1>6, <1>7
  <2> QED
    BY <2>1, <2>2, <2>3
<1> HIDE DEF N
<1>9. Len(N) <= Depth /\ Len(N) \in Nat
  BY <1>1, <1>2, <1>5, <1>6, <1>8
<1>10. ASSUME Awaits(c, w)
       PROVE  Awaits(c, N)
  <2> SUFFICES ASSUME NEW i \in DOMAIN N, ~N[i].ready
               PROVE  Waiting([addr |-> N[i].addr, core |-> c])
    BY DEF Awaits
  <2>1. i \in 1..Len(N)
    BY <1>8
  <2>2. CASE i <= Len(old)
    <3>1. i \in 1..Len(old)
      BY <1>7, <1>9, <2>1, <2>2
    <3>2. N[i] = w[r + i] /\ r + i \in DOMAIN w
      BY <1>5, <1>8, <3>1
    <3> QED
      BY <1>10, <3>2 DEF Awaits
  <2>3. CASE ~(i <= Len(old))
    <3>1. i - Len(old) \in 1..Len(in) /\ Len(old) + (i - Len(old)) = i
      BY <1>7, <1>8, <1>9, <2>1, <2>3
    <3>2. N[i] = in[i - Len(old)] /\ in[i - Len(old)].ready
      BY <1>6, <1>8, <3>1
    <3> QED
      BY <3>2
  <2> QED
    BY <2>2, <2>3
<1> QED
  BY <1>4, <1>8, <1>9, <1>10 DEF w


-----------------------------------------------------------------------------
(* The fields of a tick of a core.                                         *)
LEMMA NextIndex ==
    ASSUME NEW n \in Nat \ {0}, NEW x \in Nat
    PROVE  1 + (x % n) \in 1..n
<1>1. x % n \in 0..(n - 1)
  BY Z3
<1> QED
  BY <1>1

LEMMA TraceFacts ==
    ASSUME NEW c \in Cores
    PROVE  /\ Trace[c] \in Seq(TraceLines) /\ Len(Trace[c]) \in Nat \ {0}
           /\ \A i \in 1..Len(Trace[c]) : Trace[c][i] \in TraceLines
<1>1. Trace[c] \in Seq(TraceLines) /\ Trace[c] # <<>>
  BY ProcessorAssumption DEF TraceLines
<1> HIDE DEF TraceLines
<1> QED
  BY <1>1

LEMMA LineChanged ==
    ASSUME NEW x \in TraceLines, NEW b \in Nat, NEW l \in VAddrs \cup {NoAddr}
    PROVE  [x EXCEPT !.bubbles = b, !.load = l] \in TraceLines
<1> DEFINE y == [x EXCEPT !.bubbles = b]
<1>1. y \in TraceLines
  BY DEF TraceLines
<1>2. [x EXCEPT !.bubbles = b, !.load = l] = [y EXCEPT !.load = l]
  BY DEF TraceLines
<1> HIDE DEF y
<1>3. [y EXCEPT !.load = l] \in TraceLines
  BY <1>1 DEF TraceLines
<1> QED
  BY <1>2, <1>3

InstTypesHold ==
    inst \in [Cores -> TraceLines] /\ next \in [Cores -> Nat]
    /\ \A c \in Cores : next[c] \in 1..Len(Trace[c])

LEMMA InstTypes ==
    ASSUME CoreTypes, NEW c \in Cores,
           NextInst(c) \/ \E load \in VAddrs \cup {NoAddr} : SameInst(c, load)
    PROVE  InstTypesHold'
<1>1. inst \in [Cores -> TraceLines] /\ next \in [Cores -> Nat]
      /\ \A d \in Cores : next[d] \in 1..Len(Trace[d])
  BY DEF CoreTypes
<1>2. CASE NextInst(c)
  <2> DEFINE n == Len(Trace[c])
             k == 1 + (next[c] % n)
             e == Trace[c][next[c]]
  <2>1. inst' = [inst EXCEPT ![c] = e] /\ next' = [next EXCEPT ![c] = k]
    BY <1>2 DEF NextInst
  <2>2. n \in Nat \ {0} /\ e \in TraceLines
    BY <1>1, TraceFacts
  <2>3. k \in 1..n
    BY <1>1, <2>2, NextIndex
  <2>4. k \in Nat
    BY <2>2, <2>3
  <2> HIDE DEF e, k
  <2> QED
    BY <1>1, <2>1, <2>2, <2>3, <2>4 DEF InstTypesHold
<1>3. ASSUME NEW load \in VAddrs \cup {NoAddr}, SameInst(c, load)
      PROVE  InstTypesHold'
  <2> DEFINE b == inst[c].bubbles - BubbleCount(c)
             e == [inst[c] EXCEPT !.bubbles = b, !.load = load]
  <2>1. b \in Nat
    <3>1. inst[c].bubbles \in Nat
      BY <1>1 DEF TraceLines
    <3> QED
      BY <3>1, BubbleFacts
  <2>2. inst[c] \in TraceLines
    BY <1>1
  <2>3. inst' = [inst EXCEPT ![c] = e] /\ next' = next
    <3>1. inst' = [inst EXCEPT ![c].bubbles = @ - BubbleCount(c), ![c].load = load] /\ next' = next
      BY <1>3 DEF SameInst
    <3> QED
      BY <1>1, <3>1, Zenon
  <2> HIDE DEF b
  <2>4. e \in TraceLines
    BY <2>1, <2>2, LineChanged
  <2> HIDE DEF e
  <2> QED
    BY <1>1, <2>3, <2>4 DEF InstTypesHold
<1> QED
  BY <1>2, <1>3

LEMMA RetiredTypes ==
    ASSUME CoreTypes, NEW c \in Cores, Retire(c)
    PROVE  retired' \in [Cores -> 0..Expected]
<1> DEFINE x == retired[c] + RetireCount(c)
           S == {Expected, x}
<1>1. Expected \in Nat /\ retired \in [Cores -> 0..Expected]
  BY ProcessorAssumption DEF CoreTypes
<1>2. x \in Nat
  <2>1. RetireCount(c) \in 0..Len(window[c]) /\ Len(window[c]) \in Nat
    BY RetireFacts DEF CoreTypes
  <2> QED
    BY <1>1, <2>1
<1>3. retired' = [retired EXCEPT ![c] = Min(S)]
  BY DEF Retire
<1> HIDE DEF x
<1>4. S \in SUBSET Nat /\ S # {} /\ Expected \in S
  BY <1>1, <1>2
<1> HIDE DEF S
<1>5. Min(S) \in S /\ Min(S) <= Expected
  BY <1>4, LeastOf
<1>6. Min(S) \in Nat
  BY <1>4, <1>5
<1>7. Min(S) \in 0..Expected
  BY <1>1, <1>5, <1>6
<1> QED
  BY <1>1, <1>3, <1>7

LEMMA TranslateTypes ==
    ASSUME CoreTypes, NEW c \in Cores, NEW v \in VPages, NEW p, Translate(c, v, p)
    PROVE  pageOf' \in [Cores -> [VPages -> PPages \cup {NoPage}]]
<1>1. pageOf \in [Cores -> [VPages -> PPages \cup {NoPage}]]
  BY DEF CoreTypes
<1>2. p \in PPages \cup {NoPage}
  BY <1>1 DEF Translate, PhysicalPages, Candidates
<1>3. pageOf' = [pageOf EXCEPT ![c] = [pageOf[c] EXCEPT ![v] = p]]
  BY <1>1 DEF Translate
<1> QED
  BY <1>1, <1>2, <1>3


LEMMA MemTypesNext ==
    ASSUME MemTypes, NEW c \in Cores, turn = c, turn' = turn + 1,
           UNCHANGED <<reading, writing, overtaken>>, unsaved' \in SUBSET Lines
    PROVE  MemTypes'
<1>1. turn' \in 0..Memory
  <2>1. c \in 1..Cardinality(Cores) /\ Cardinality(Cores) \in Nat
    BY ProcessorAssumption, FS_CardinalityType
  <2> QED
    BY <2>1 DEF Memory
<1> QED
  BY <1>1 DEF MemTypes

(* Only the window of the core changes.                                    *)
LEMMA CoreWindow ==
    ASSUME CoreTypes, NEW c \in Cores, NEW W \in Seq(WindowEntries), Len(W) <= Depth,
           window' = [window EXCEPT ![c] = W]
    PROVE  /\ window' \in [Cores -> Seq(WindowEntries)]
           /\ \A d \in Cores : Len(window'[d]) <= Depth
           /\ window'[c] = W
           /\ \A d \in Cores : d # c => window'[d] = window[d]
BY DEF CoreTypes

LEMMA CoreTypesNext ==
    ASSUME CoreTypes, NEW c \in Cores, Retire(c),
           NextInst(c) \/ \E load \in VAddrs \cup {NoAddr} : SameInst(c, load),
           window' \in [Cores -> Seq(WindowEntries)],
           \A d \in Cores : Len(window'[d]) <= Depth,
           pageOf' \in [Cores -> [VPages -> PPages \cup {NoPage}]]
    PROVE  CoreTypes'
<1>1. InstTypesHold'
  BY InstTypes
<1>2. retired' \in [Cores -> 0..Expected]
  BY RetiredTypes
<1> QED
  BY <1>1, <1>2 DEF CoreTypes, InstTypesHold

LEMMA AwaitedNext ==
    ASSUME Awaited, NEW c \in Cores,
           \A d \in Cores : d # c => window'[d] = window[d],
           \A req : Waiting(req) => Waiting(req)',
           Awaits(c, window[c])'
    PROVE  Awaited'
<1> SUFFICES ASSUME NEW d \in Cores, NEW i \in DOMAIN window'[d], ~window'[d][i].ready
             PROVE  Waiting([addr |-> window[d][i].addr, core |-> d])'
  BY DEF Awaited, Awaits
<1>1. CASE d = c
  BY <1>1 DEF Awaits
<1>2. CASE d # c
  <2>1. window'[d] = window[d]
    BY <1>2
  <2> DEFINE q == [addr |-> window[d][i].addr, core |-> d]
  <2>2. Waiting(q)
    BY <2>1 DEF Awaited, Awaits
  <2>3. PICK r : r = q
    OBVIOUS
  <2>4. Waiting(r)'
    BY <2>2, <2>3
  <2> QED
    BY <2>1, <2>3, <2>4
<1> QED
  BY <1>1, <1>2


-----------------------------------------------------------------------------
(* The actions of a core.                                                  *)
LEMMA CoreLoadInv ==
    ASSUME Inv, NEW c \in Cores, CoreLoad(c)
    PROVE  Inv'
<1> USE DEF Inv
<1>1. /\ turn = c /\ turn' = turn + 1 /\ MayLoad(c) /\ Retire(c)
      /\ IF inst[c].store # NoAddr THEN SameInst(c, NoAddr) ELSE NextInst(c)
      /\ UNCHANGED <<reading, writing, overtaken, unsaved>>
  BY DEF CoreLoad, memVars
<1>2. PICK v \in VAddrs : v = inst[c].load /\ v[1] \in VPages /\ v[2] \in Offsets
  <2>1. inst[c].load \in VAddrs
    BY <1>1 DEF MayLoad, CoreTypes, TraceLines
  <2> QED
    BY <2>1 DEF VAddrs
<1>3. PICK p : /\ p \in PhysicalPages(c, v[1]) /\ Translate(c, v[1], p)
               /\ SendAccepted(c, <<p, v[2]>>, FALSE)
               /\ window' = [window EXCEPT ![c] =
                                Append(WindowNow(c), [addr |-> <<p, v[2]>>, ready |-> FALSE])]
  BY <1>2 DEF CoreLoad
<1> DEFINE a == <<p, v[2]>>
           e == [addr |-> a, ready |-> FALSE]
           N == WindowNow(c)
           W == Append(N, e)
<1>4. p \in PPages
  BY <1>2, <1>3, TranslationAssumption DEF PhysicalPages, Candidates, CoreTypes
<1>5. a \in Addrs
  BY <1>2, <1>4, ProcessorAssumption
<1>6. SendFacts(c, a, FALSE)
  BY <1>3, <1>5, SendAcceptedFacts
<1> HIDE DEF a
<1>7. /\ CacheTypes' /\ SetsOK' /\ MshrsOK'
      /\ \A l \in Lines : Stored(l) => Stored(l)'
      /\ Waiting([addr |-> a, core |-> c])'
      /\ WaitersHoldMshr => WaitersHoldMshr' /\ \A req : Waiting(req) => Waiting(req)'
      /\ ReadEach => ReadEach'
  BY <1>1, <1>6 DEF SendFacts
<1>8. e \in WindowEntries /\ e.addr = a /\ ~e.ready
  BY <1>5 DEF WindowEntries
<1>9. /\ N \in Seq(WindowEntries) /\ Len(N) \in Nat /\ Len(N) < Depth
      /\ Awaits(c, window[c]) => Awaits(c, N)
  BY <1>1, WindowNowFacts DEF MayLoad
<1> HIDE DEF e, N
<1>10. /\ W \in Seq(WindowEntries) /\ Len(W) = Len(N) + 1 /\ DOMAIN W = 1..(Len(N) + 1)
       /\ \A i \in 1..Len(N) : W[i] = N[i]
       /\ W[Len(N) + 1] = e
  BY <1>8, <1>9
<1>11. window' = [window EXCEPT ![c] = W]
  BY <1>3 DEF e, N, a
<1>12. Len(W) <= Depth
  BY <1>9, <1>10, ProcessorAssumption
<1> HIDE DEF W
<1>13. /\ window' \in [Cores -> Seq(WindowEntries)]
       /\ \A d \in Cores : Len(window'[d]) <= Depth
       /\ window'[c] = W
       /\ \A d \in Cores : d # c => window'[d] = window[d]
  BY <1>10, <1>11, <1>12, CoreWindow
<1>14. CoreTypes'
  <2>1. pageOf' \in [Cores -> [VPages -> PPages \cup {NoPage}]]
    BY <1>2, <1>3, TranslateTypes
  <2>2. NextInst(c) \/ \E load \in VAddrs \cup {NoAddr} : SameInst(c, load)
    BY <1>1
  <2> QED
    BY <1>1, <1>13, <2>1, <2>2, CoreTypesNext
<1>15. MemTypes'
  <2>1. unsaved' \in SUBSET Lines
    BY <1>1 DEF MemTypes
  <2> QED
    BY <1>1, <2>1, MemTypesNext
<1>16. StoresKept'
  BY <1>1, <1>7 DEF StoresKept, MemTypes
<1>17. ASSUME ~overtaken'
       PROVE  (ReadEach /\ WaitersHoldMshr /\ Awaited)'
  <2>1. ReadEach /\ WaitersHoldMshr /\ Awaited
    BY <1>1, <1>17 DEF NoneLost
  <2>2. \A req : Waiting(req) => Waiting(req)'
    BY <1>7, <2>1
  <2>3. Awaits(c, N)
    BY <1>9, <2>1 DEF Awaited
  <2>4. Awaits(c, window[c])'
    <3> SUFFICES ASSUME NEW i \in DOMAIN window'[c], ~window'[c][i].ready
                 PROVE  Waiting([addr |-> window[c][i].addr, core |-> c])'
      BY DEF Awaits
    <3>1. i \in 1..(Len(N) + 1) /\ window'[c][i] = W[i] /\ ~W[i].ready
      BY <1>10, <1>13
    <3>2. CASE i = Len(N) + 1
      BY <1>7, <1>8, <1>10, <3>1, <3>2
    <3>3. CASE i # Len(N) + 1
      <4>1. i \in 1..Len(N) /\ i \in DOMAIN N
        BY <1>9, <3>1, <3>3
      <4>2. window'[c][i] = N[i] /\ ~N[i].ready
        BY <1>10, <3>1, <4>1
      <4>3. PICK r : r = [addr |-> N[i].addr, core |-> c]
        OBVIOUS
      <4>4. Waiting(r)
        BY <2>3, <4>1, <4>2, <4>3 DEF Awaits
      <4>5. Waiting(r)'
        BY <2>2, <4>4
      <4>6. r = [addr |-> window'[c][i].addr, core |-> c]
        BY <4>2, <4>3
      <4> QED
        BY <4>5, <4>6
    <3> QED
      BY <3>2, <3>3
  <2>5. Awaited'
    BY <1>13, <2>1, <2>2, <2>4, AwaitedNext
  <2> QED
    BY <1>7, <2>1, <2>5
<1> QED
  BY <1>7, <1>14, <1>15, <1>16, <1>17 DEF NoneLost

LEMMA CoreStoreInv ==
    ASSUME Inv, NEW c \in Cores, CoreStore(c)
    PROVE  Inv'
<1> USE DEF Inv
<1>1. /\ turn = c /\ turn' = turn + 1 /\ MayStore(c) /\ Retire(c) /\ NextInst(c)
      /\ window' = [window EXCEPT ![c] = WindowNow(c)]
      /\ UNCHANGED <<reading, writing, overtaken>>
  BY DEF CoreStore, memVars
<1>2. PICK v \in VAddrs : v = inst[c].store /\ v[1] \in VPages /\ v[2] \in Offsets
  <2>1. inst[c].store \in VAddrs
    BY <1>1 DEF MayStore, CoreTypes, TraceLines
  <2> QED
    BY <2>1 DEF VAddrs
<1>3. PICK p : /\ p \in PhysicalPages(c, v[1]) /\ Translate(c, v[1], p)
               /\ SendAccepted(c, <<p, v[2]>>, TRUE)
               /\ unsaved' = unsaved \cup {LineOf[<<p, v[2]>>]}
  BY <1>2 DEF CoreStore
<1> DEFINE a == <<p, v[2]>>
           N == WindowNow(c)
<1>4. p \in PPages
  BY <1>2, <1>3, TranslationAssumption DEF PhysicalPages, Candidates, CoreTypes
<1>5. a \in Addrs
  BY <1>2, <1>4, ProcessorAssumption
<1>6. SendFacts(c, a, TRUE)
  BY <1>3, <1>5, SendAcceptedFacts
<1>7. unsaved' = unsaved \cup {LineOf[a]}
  BY <1>3
<1> HIDE DEF a
<1>8. /\ CacheTypes' /\ SetsOK' /\ MshrsOK'
      /\ \A l \in Lines : Stored(l) => Stored(l)'
      /\ Stored(LineOf[a])'
      /\ WaitersHoldMshr => WaitersHoldMshr' /\ \A req : Waiting(req) => Waiting(req)'
      /\ ReadEach => ReadEach'
  BY <1>1, <1>6 DEF SendFacts
<1>9. /\ N \in Seq(WindowEntries) /\ Len(N) <= Depth
      /\ Awaits(c, window[c]) => Awaits(c, N)
  BY WindowNowFacts
<1>10. /\ window' \in [Cores -> Seq(WindowEntries)]
       /\ \A d \in Cores : Len(window'[d]) <= Depth
       /\ window'[c] = N
       /\ \A d \in Cores : d # c => window'[d] = window[d]
  <2> HIDE DEF N
  <2>1. window' = [window EXCEPT ![c] = N]
    BY <1>1 DEF N
  <2> QED
    BY <1>9, <2>1, CoreWindow
<1>11. CoreTypes'
  <2>1. pageOf' \in [Cores -> [VPages -> PPages \cup {NoPage}]]
    BY <1>2, <1>3, TranslateTypes
  <2> QED
    BY <1>1, <1>10, <2>1, CoreTypesNext
<1>12. MemTypes'
  <2>1. unsaved' \in SUBSET Lines
    BY <1>5, <1>7, AddressFacts DEF MemTypes
  <2> QED
    BY <1>1, <2>1, MemTypesNext
<1>13. StoresKept'
  BY <1>7, <1>8 DEF StoresKept, MemTypes
<1>14. ASSUME ~overtaken'
       PROVE  (ReadEach /\ WaitersHoldMshr /\ Awaited)'
  <2>1. ReadEach /\ WaitersHoldMshr /\ Awaited
    BY <1>1, <1>14 DEF NoneLost
  <2>2. \A req : Waiting(req) => Waiting(req)'
    BY <1>8, <2>1
  <2>3. Awaits(c, window[c])'
    <3>1. Awaits(c, N)
      BY <1>9, <2>1 DEF Awaited
    <3> HIDE DEF N
    <3> QED
      BY <1>10, <2>2, <3>1 DEF Awaits
  <2>4. Awaited'
    BY <1>10, <2>1, <2>2, <2>3, AwaitedNext
  <2> QED
    BY <1>8, <2>1, <2>4
<1> QED
  BY <1>8, <1>11, <1>12, <1>13, <1>14 DEF NoneLost

(* Nothing is sent: the cache has no room, or the core only retires.       *)
LEMMA CoreIdleInv ==
    ASSUME Inv, NEW c \in Cores, CoreRefused(c) \/ CoreBlocked(c)
    PROVE  Inv'
<1> USE DEF Inv
<1> DEFINE N == WindowNow(c)
<1>1. /\ turn = c /\ turn' = turn + 1 /\ Retire(c) /\ SameInst(c, inst[c].load)
      /\ window' = [window EXCEPT ![c] = N]
      /\ UNCHANGED <<sets, mshrs, waiters, misses, hits, reading, writing, overtaken, unsaved>>
  BY DEF CoreRefused, CoreBlocked, memVars, llcVars
<1>2. inst[c].load \in VAddrs \cup {NoAddr} /\ inst[c].store \in VAddrs \cup {NoAddr}
  BY DEF CoreTypes, TraceLines
<1>3. pageOf' \in [Cores -> [VPages -> PPages \cup {NoPage}]]
  <2>1. CASE CoreBlocked(c)
    BY <2>1 DEF CoreBlocked, CoreTypes
  <2>2. CASE CoreRefused(c)
    <3>1. PICK v, p : (v = inst[c].load \/ v = inst[c].store) /\ v # NoAddr
                      /\ Translate(c, v[1], p)
      BY <2>2 DEF CoreRefused, MayLoad, MayStore
    <3>2. v[1] \in VPages
      BY <1>2, <3>1 DEF VAddrs
    <3> QED
      BY <3>1, <3>2, TranslateTypes
  <2> QED
    BY <2>1, <2>2 DEF CoreRefused, CoreBlocked
<1>4. /\ N \in Seq(WindowEntries) /\ Len(N) <= Depth
      /\ Awaits(c, window[c]) => Awaits(c, N)
  BY WindowNowFacts
<1> HIDE DEF N
<1>5. /\ window' \in [Cores -> Seq(WindowEntries)]
      /\ \A d \in Cores : Len(window'[d]) <= Depth
      /\ window'[c] = N
      /\ \A d \in Cores : d # c => window'[d] = window[d]
  BY <1>1, <1>4, CoreWindow
<1>6. CoreTypes'
  BY <1>1, <1>2, <1>3, <1>5, CoreTypesNext
<1>7. MemTypes'
  <2>1. unsaved' \in SUBSET Lines
    BY <1>1 DEF MemTypes
  <2> QED
    BY <1>1, <2>1, MemTypesNext
<1>8. CacheTypes' /\ SetsOK' /\ MshrsOK'
  BY <1>1 DEF CacheTypes, SetsOK, MshrsOK
<1>9. StoresKept'
  BY <1>1 DEF StoresKept, Stored
<1>10. ASSUME ~overtaken'
       PROVE  (ReadEach /\ WaitersHoldMshr /\ Awaited)'
  <2>1. ReadEach /\ WaitersHoldMshr /\ Awaited
    BY <1>1, <1>10 DEF NoneLost
  <2>2. \A req : Waiting(req) => Waiting(req)'
    BY <1>1 DEF Waiting
  <2>3. Awaits(c, window[c])'
    BY <1>4, <1>5, <2>1, <2>2 DEF Awaits, Awaited
  <2>4. Awaited'
    BY <1>5, <2>1, <2>2, <2>3, AwaitedNext
  <2>5. ReadEach' /\ WaitersHoldMshr'
    BY <1>1, <2>1 DEF ReadEach, OneRead, Asked, WaitersHoldMshr
  <2> QED
    BY <2>4, <2>5
<1> QED
  BY <1>6, <1>7, <1>8, <1>9, <1>10 DEF NoneLost


-----------------------------------------------------------------------------
(* The invariant of the specification.                                     *)
LEMMA InitInv ==
    ASSUME Init
    PROVE  Inv
<1> USE DEF Init
<1>1. /\ sets = [s \in Sets |-> <<>>] /\ mshrs = {} /\ waiters = [a \in Addrs |-> {}]
      /\ misses = <<>> /\ hits = {}
      /\ pageOf = [c \in Cores |-> [v \in VPages |-> NoPage]]
  BY ProcessorAssumption DEF LlcInit, TranslationInit
<1>2. CacheTypes
  <2>1. sets \in [Sets -> Seq(LineStates)] /\ misses \in Seq(MissEntries)
    BY <1>1
  <2>2. mshrs \in SUBSET Addrs /\ IsFiniteSet(mshrs)
    BY <1>1, FS_EmptySet
  <2>3. waiters \in [Addrs -> SUBSET Requests]
    BY <1>1
  <2> QED
    BY <1>1, <2>1, <2>2, <2>3 DEF CacheTypes
<1>3. CoreTypes
  <2> DEFINE k(c) == 1 + (1 % Len(Trace[c]))
             e(c) == Trace[c][1]
  <2>1. \A c \in Cores : e(c) \in TraceLines /\ k(c) \in 1..Len(Trace[c]) /\ k(c) \in Nat
    <3> SUFFICES ASSUME NEW c \in Cores
                 PROVE  e(c) \in TraceLines /\ k(c) \in 1..Len(Trace[c]) /\ k(c) \in Nat
      OBVIOUS
    <3>1. Len(Trace[c]) \in Nat \ {0} /\ 1 \in 1..Len(Trace[c])
      BY TraceFacts
    <3>2. e(c) \in TraceLines
      BY <3>1, TraceFacts
    <3>3. k(c) \in 1..Len(Trace[c])
      BY <3>1, NextIndex
    <3> HIDE DEF k
    <3> QED
      BY <3>1, <3>2, <3>3
  <2>2. inst = [c \in Cores |-> e(c)] /\ next = [c \in Cores |-> k(c)]
    OBVIOUS
  <2> HIDE DEF k, e
  <2>3. inst \in [Cores -> TraceLines] /\ next \in [Cores -> Nat]
        /\ \A c \in Cores : next[c] \in 1..Len(Trace[c])
    <3>1. inst \in [Cores -> TraceLines]
      BY <2>1, <2>2, Zenon
    <3>2. next \in [Cores -> Nat] /\ \A c \in Cores : next[c] = k(c)
      BY <2>1, <2>2, Zenon
    <3> QED
      BY <2>1, <3>1, <3>2, Zenon
  <2>4. window \in [Cores -> Seq(WindowEntries)] /\ \A c \in Cores : Len(window[c]) <= Depth
    BY ProcessorAssumption
  <2>5. retired \in [Cores -> 0..Expected]
    BY ProcessorAssumption
  <2>6. pageOf \in [Cores -> [VPages -> PPages \cup {NoPage}]]
    BY <1>1
  <2> QED
    BY <2>3, <2>4, <2>5, <2>6 DEF CoreTypes
<1>4. MemTypes
  <2>1. WriteSlots \in Nat /\ Cardinality(Cores) \in Nat
    BY ProcessorAssumption, FS_CardinalityType
  <2>2. writing \in 0..WriteSlots /\ turn \in 0..Memory
    BY <2>1 DEF Memory
  <2>3. reading \in [Addrs -> Nat] /\ overtaken \in BOOLEAN /\ unsaved \in SUBSET Lines
    OBVIOUS
  <2> QED
    BY <2>2, <2>3 DEF MemTypes
<1>5. SetsOK
  <2>1. \A s \in Sets : sets[s] = <<>>
    BY <1>1
  <2> SUFFICES ASSUME NEW s \in Sets PROVE SetOK(<<>>, s, {})
    BY <1>1, <2>1 DEF SetsOK
  <2>2. Len(<<>>) = 0 /\ DOMAIN <<>> = {} /\ Ways \in Nat
    BY CacheAssumption
  <2> QED
    BY <2>2, CacheAssumption DEF SetOK, Distinct, Locked
<1>6. MshrsOK
  BY <1>1, FS_EmptySet, CacheAssumption DEF MshrsOK
<1>7. StoresKept
  BY DEF StoresKept
<1>8. NoneLost
  BY <1>1 DEF NoneLost, ReadEach, OneRead, Asked, WaitersHoldMshr, Awaited, Awaits
<1> QED
  BY <1>2, <1>3, <1>4, <1>5, <1>6, <1>7, <1>8 DEF Inv

LEMMA OthersInv ==
    ASSUME Inv, MemoryWrite \/ MemoryDone \/ UNCHANGED vars
    PROVE  Inv'
<1> USE DEF Inv
<1>1. /\ UNCHANGED <<sets, mshrs, waiters, misses, hits, pageOf, window, inst, next, retired,
                     reading, overtaken, unsaved>>
      /\ writing' = writing \/ (writing > 0 /\ writing' = writing - 1)
      /\ turn' = turn \/ turn' = 0
  BY DEF MemoryWrite, MemoryDone, vars, llcVars, coreVars, memVars
<1>2. CacheTypes' /\ SetsOK' /\ MshrsOK' /\ StoresKept'
  BY <1>1 DEF CacheTypes, SetsOK, MshrsOK, StoresKept, Stored
<1>3. CoreTypes'
  BY <1>1 DEF CoreTypes
<1>4. MemTypes'
  <2>1. writing' \in 0..WriteSlots
    BY <1>1, ProcessorAssumption DEF MemTypes
  <2>2. turn' \in 0..Memory
    BY <1>1, ProcessorAssumption, FS_CardinalityType DEF MemTypes, Memory
  <2> QED
    BY <1>1, <2>1, <2>2 DEF MemTypes
<1>5. NoneLost'
  BY <1>1 DEF NoneLost, ReadEach, OneRead, Asked, WaitersHoldMshr, Awaited, Awaits, Waiting
<1> QED
  BY <1>2, <1>3, <1>4, <1>5

LEMMA StepInv ==
    ASSUME Inv, [Next]_vars
    PROVE  Inv'
<1>1. CASE LlcTick
  BY <1>1, LlcTickInv
<1>2. ASSUME NEW c \in Cores, CoreTick(c)
      PROVE  Inv'
  BY <1>2, CoreLoadInv, CoreStoreInv, CoreIdleInv DEF CoreTick
<1>3. ASSUME NEW a \in Addrs, MemoryAnswer(a)
      PROVE  Inv'
  BY <1>3, MemoryAnswerInv
<1>4. CASE MemoryWrite \/ MemoryDone \/ UNCHANGED vars
  BY <1>4, OthersInv
<1> QED
  BY <1>1, <1>2, <1>3, <1>4 DEF Next

LEMMA InvHolds == Spec => []Inv
<1>1. Init => Inv
  BY InitInv
<1>2. Inv /\ [Next]_vars => Inv'
  BY StepInv
<1> QED
  BY <1>1, <1>2, PTL DEF Spec

(* Every variable of the processor, its cache and its memory keeps its     *)
(* type, whatever the trace and the order of the answers.                  *)
THEOREM TypesHold == Spec => []TypeOK
<1>1. Inv => TypeOK
  BY DEF Inv, CacheTypes, CoreTypes, MemTypes, TypeOK
<1> QED
  BY <1>1, InvHolds, PTL

(* A set holds a line once, in Ways places at most; a line is locked       *)
(* against eviction exactly while the one MSHR of its line waits for it;   *)
(* and unless a hit was answered late, every instruction that waits has an *)
(* answer on its way.                                                      *)
THEOREM AnswersComeOnce == Spec => []MissesAnswered
<1>1. Inv => LockedIffMshr
  <2> SUFFICES ASSUME Inv PROVE LockedIffMshr
    OBVIOUS
  <2>1. ASSUME NEW s \in Sets
        PROVE  /\ Len(sets[s]) <= Ways
               /\ \A i, j \in DOMAIN sets[s] : sets[s][i].line = sets[s][j].line => i = j
               /\ \A i \in DOMAIN sets[s] :
                     ~sets[s][i].ready <=> \E b \in mshrs : LineOf[b] = sets[s][i].line
    BY DEF Inv, SetsOK, SetOK, Distinct, Locked
  <2>2. ASSUME NEW b \in mshrs
        PROVE  PlacesOf(b) # {} /\ MshrsOf(b) = {b}
    <3>1. b \in Addrs /\ sets \in [Sets -> Seq(LineStates)]
      BY DEF Inv, CacheTypes
    <3>2. SetOf[LineOf[b]] \in Sets
      BY <3>1, AddressFacts
    <3>3. Has(sets[SetOf[LineOf[b]]], LineOf[b])
      BY <3>2 DEF Inv, SetsOK, SetOK
    <3>4. PlacesOf(b) # {}
      BY <3>1, <3>2, <3>3 DEF PlacesOf, SetWith, Has
    <3> QED
      BY <3>4 DEF Inv, MshrsOK, MshrsOf
  <2>3. Cardinality(mshrs) <= Mshrs
    BY DEF Inv, MshrsOK
  <2> QED
    BY <2>1, <2>2, <2>3 DEF LockedIffMshr
<1>2. Inv => NoWaiterLost
  <2> SUFFICES ASSUME Inv, ~overtaken, NEW c \in Cores, NEW i \in DOMAIN window[c],
                      NEW q, q = [addr |-> window[c][i].addr, core |-> c], ~window[c][i].ready
               PROVE  \/ \E h \in hits : h.req = q
                      \/ \E a \in Addrs : q \in waiters[a] /\ ReadPending(a)
    BY DEF NoWaiterLost
  <2>1. Waiting(q)
    BY DEF Inv, NoneLost, Awaited, Awaits
  <2>2. ASSUME NEW a \in Addrs, q \in waiters[a]
        PROVE  ReadPending(a)
    <3>1. a \in mshrs /\ OneRead(a)
      BY <2>2 DEF Inv, NoneLost, WaitersHoldMshr, ReadEach
    <3>2. DOMAIN misses = 1..Len(misses)
      BY DEF Inv, CacheTypes
    <3> QED
      BY <3>1, <3>2 DEF OneRead, Asked, ReadOf, ReadPending
  <2> QED
    BY <2>1, <2>2 DEF Waiting
<1> QED
  BY <1>1, <1>2, InvHolds, PTL DEF MissesAnswered

(* A store the cache has accepted is in a dirty line or in a write-back    *)
(* until the memory has taken that.                                        *)
THEOREM StoresAreKept == Spec => []StoresReachMemory
<1>1. Inv => StoresReachMemory
  <2>1. Inv => DOMAIN misses = 1..Len(misses)
    BY DEF Inv, CacheTypes
  <2> QED
    BY <2>1 DEF Inv, StoresKept, Stored, HasDirty, WriteOf, WritebacksOf, StoresReachMemory, Dirty
<1> QED
  BY <1>1, InvHolds, PTL
=============================================================================
