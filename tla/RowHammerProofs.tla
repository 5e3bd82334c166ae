---------------------------- MODULE RowHammerProofs ----------------------------
(***************************************************************************)
(* The RowHammer plugins, for every geometry, table size and threshold: no *)
(* activation escapes Graphene, TWiCe, OracleRH, RFMManager or Hydra, and  *)
(* how often a row may be activated before its neighbours are refreshed;   *)
(* PRAC's recoveries, and how often a row may be activated between them;   *)
(* which rows BlockHammer blacklists, and what it holds back; that RRS and *)
(* AQUA move a row in time and know where its data lies.                   *)
(***************************************************************************)
EXTENDS Hydra, RowSwap, Prac, BlockHammer, FiniteSetTheorems, WellFoundedInduction, TLAPS

(* A bank's entries, and a table of them.                                  *)
IsFunction(e) == e = [r \in DOMAIN e |-> e[r]]
IsTable(t) == t = [b \in Banks |-> t[b]] /\ \A b \in Banks : IsFunction(t[b])
Counts == [Banks -> [Rows -> Nat]]

-----------------------------------------------------------------------------
(* What the helpers return.                                                *)
LEMMA ActedAt ==
    ASSUME NEW a \in Counts, NEW b \in Banks, NEW r \in Rows
    PROVE  /\ Acted(a, b, r) \in Counts
           /\ \A c \in Banks, x \in Rows :
                 Acted(a, b, r)[c][x] = IF c = b /\ x = r THEN a[c][x] + 1 ELSE a[c][x]
BY DEF Acted, Counts

LEMMA RefreshedAt ==
    ASSUME NEW a \in Counts, NEW b \in Banks, NEW r \in Rows
    PROVE  /\ Refreshed(a, b, r) \in Counts
           /\ \A c \in Banks, x \in Rows :
                 Refreshed(a, b, r)[c][x] = IF c = b /\ x = r THEN 0 ELSE a[c][x]
BY DEF Refreshed, Counts

LEMMA NoActsAt ==
    NoActs \in Counts /\ \A b \in Banks, r \in Rows : NoActs[b][r] = 0
BY DEF NoActs, Counts

LEMMA EmptiedAt ==
    ASSUME NEW e, NEW r
    PROVE  /\ IsFunction(Emptied(e, r))
           /\ DOMAIN Emptied(e, r) = DOMAIN e \ {r}
           /\ \A x \in DOMAIN e : x # r => Emptied(e, r)[x] = e[x]
BY DEF Emptied, IsFunction

LEMMA ExceptAt ==
    ASSUME NEW t, IsTable(t), NEW b \in Banks, NEW e, IsFunction(e)
    PROVE  /\ IsTable([t EXCEPT ![b] = e])
           /\ [t EXCEPT ![b] = e][b] = e
           /\ \A c \in Banks : c # b => [t EXCEPT ![b] = e][c] = t[c]
BY DEF IsTable

LEMMA PlacesInUse ==
    ASSUME NEW p \in TrackerNames, NEW h \in Hot[p]
    PROVE  h[1] \in Banks /\ h[2] \in Rows
BY TrackersAssumption DEF TrackerNames, Banks, Rows

-----------------------------------------------------------------------------
(* Graphene: no entry exceeds the limit, and an entry, or the spillover    *)
(* counter for a row without one, covers the activations of its row.       *)
GrapheneOK(t, s, a) ==
    /\ IsTable(t) /\ s \in [Banks -> Nat] /\ a \in Counts
    /\ \A b \in Banks : \A r \in DOMAIN t[b] :
          t[b][r] \in Nat /\ t[b][r] <= Larger(ActivationThreshold - 1, s[b] + 1)
    /\ \A b \in Banks, r \in Rows : a[b][r] <= IF r \in DOMAIN t[b] THEN t[b][r] ELSE s[b]

LEMMA GrapheneNow ==
    ASSUME GrapheneOK(table, spill, acts)
    PROVE  GrapheneOK(GrapheneTable, SpillNow, ActsNow)
<1>1. CASE ~PeriodEnds
  BY <1>1 DEF GrapheneOK, GrapheneTable, SpillNow, ActsNow, IsTable, IsFunction
<1>2. CASE PeriodEnds
  BY <1>2, NoActsAt, TrackersAssumption
  DEF GrapheneOK, GrapheneTable, SpillNow, ActsNow, IsTable, IsFunction, Larger
<1> QED
  BY <1>1, <1>2

LEMMA GrapheneUpdate ==
    ASSUME NEW t, NEW s, NEW a, GrapheneOK(t, s, a), NEW b \in Banks, NEW r \in Rows,
           r \in DOMAIN t[b]
    PROVE  /\ t[b][r] + 1 >= ActivationThreshold =>
                 GrapheneOK([t EXCEPT ![b][r] = s[b]], s, Refreshed(a, b, r))
           /\ t[b][r] + 1 < ActivationThreshold =>
                 GrapheneOK([t EXCEPT ![b][r] = t[b][r] + 1], s, Acted(a, b, r))
<1> DEFINE put(v) == [t EXCEPT ![b][r] = v]
<1>1. \A v : /\ IsTable(put(v))
             /\ \A c \in Banks : DOMAIN put(v)[c] = DOMAIN t[c]
             /\ put(v)[b][r] = v
             /\ \A c \in Banks : \A x \in DOMAIN t[c] : (c # b \/ x # r) => put(v)[c][x] = t[c][x]
  BY DEF GrapheneOK, IsTable, IsFunction
<1> HIDE DEF put
<1>2. IsTable(t) /\ s \in [Banks -> Nat] /\ a \in Counts /\ t[b][r] \in Nat /\ s[b] \in Nat
  BY DEF GrapheneOK
<1>3. ASSUME t[b][r] + 1 >= ActivationThreshold
      PROVE  GrapheneOK(put(s[b]), s, Refreshed(a, b, r))
  BY <1>1, <1>2, RefreshedAt, TrackersAssumption DEF GrapheneOK, Larger
<1>4. ASSUME t[b][r] + 1 < ActivationThreshold
      PROVE  GrapheneOK(put(t[b][r] + 1), s, Acted(a, b, r))
  <2> DEFINE u == put(t[b][r] + 1)
             d == Acted(a, b, r)
  <2>1. IsTable(u) /\ d \in Counts
    BY <1>1, <1>2, ActedAt
  <2>2. ASSUME NEW c \in Banks, NEW x \in DOMAIN u[c]
        PROVE  u[c][x] \in Nat /\ u[c][x] <= Larger(ActivationThreshold - 1, s[c] + 1)
    <3>1. CASE c = b /\ x = r
      <4>1. u[c][x] = t[b][r] + 1
        BY <1>1, <3>1
      <4> QED
        BY <4>1, <1>2, <1>4, <3>1, TrackersAssumption DEF Larger
    <3>2. CASE ~(c = b /\ x = r)
      BY <1>1, <3>2 DEF GrapheneOK
    <3> QED
      BY <3>1, <3>2
  <2>3. ASSUME NEW c \in Banks, NEW x \in Rows
        PROVE  d[c][x] <= IF x \in DOMAIN u[c] THEN u[c][x] ELSE s[c]
    <3>1. CASE c = b /\ x = r
      BY <1>1, <1>2, <3>1, ActedAt DEF GrapheneOK, Counts
    <3>2. CASE ~(c = b /\ x = r)
      BY <1>1, <1>2, <3>2, ActedAt DEF GrapheneOK
    <3> QED
      BY <3>1, <3>2
  <2> QED
    BY <1>2, <2>1, <2>2, <2>3 DEF GrapheneOK
<1> QED
  BY <1>3, <1>4 DEF put

LEMMA GrapheneSwap ==
    ASSUME NEW t, NEW s, NEW a, GrapheneOK(t, s, a), NEW b \in Banks, NEW r \in Rows,
           r \notin DOMAIN t[b], NEW old \in DOMAIN t[b], t[b][old] = s[b]
    PROVE  GrapheneOK([t EXCEPT ![b] = With(Emptied(t[b], old), r, s[b] + 1)], s, Acted(a, b, r))
<1> DEFINE e == With(Emptied(t[b], old), r, s[b] + 1)
           u == [t EXCEPT ![b] = e]
           d == Acted(a, b, r)
<1>1. /\ IsFunction(e) /\ DOMAIN e = (DOMAIN t[b] \ {old}) \cup {r} /\ e[r] = s[b] + 1
      /\ \A x \in DOMAIN t[b] : x # old => e[x] = t[b][x]
  <2> DEFINE m == Emptied(t[b], old)
  <2>1. DOMAIN m = DOMAIN t[b] \ {old} /\ \A x \in DOMAIN t[b] : x # old => m[x] = t[b][x]
    BY EmptiedAt
  <2> DEFINE v == s[b] + 1
  <2> HIDE DEF m, v
  <2>2. IsFunction(With(m, r, v))
    BY DEF With, IsFunction
  <2>3. DOMAIN With(m, r, v) = DOMAIN m \cup {r}
    BY DEF With
  <2>4. With(m, r, v)[r] = v
    BY DEF With
  <2>5. \A x \in DOMAIN m : x # r => With(m, r, v)[x] = m[x]
    BY DEF With
  <2> QED
    BY <2>1, <2>2, <2>3, <2>4, <2>5 DEF m, v
<1>2. IsTable(t) /\ s \in [Banks -> Nat] /\ a \in Counts /\ s[b] \in Nat
  BY DEF GrapheneOK
<1> HIDE DEF e
<1>3. IsTable(u) /\ u[b] = e /\ \A c \in Banks : c # b => u[c] = t[c]
  BY <1>1, <1>2, ExceptAt
<1>4. /\ d \in Counts
      /\ \A c \in Banks, x \in Rows : d[c][x] = IF c = b /\ x = r THEN a[c][x] + 1 ELSE a[c][x]
  BY <1>2, ActedAt
<1> HIDE DEF u, d
<1>5. ASSUME NEW c \in Banks, NEW x \in DOMAIN u[c]
      PROVE  u[c][x] \in Nat /\ u[c][x] <= Larger(ActivationThreshold - 1, s[c] + 1)
  BY <1>1, <1>2, <1>3, TrackersAssumption DEF GrapheneOK, Larger
<1>6. ASSUME NEW c \in Banks, NEW x \in Rows
      PROVE  d[c][x] <= IF x \in DOMAIN u[c] THEN u[c][x] ELSE s[c]
  <2>1. a[c][x] \in Nat /\ a[c][x] <= IF x \in DOMAIN t[c] THEN t[c][x] ELSE s[c]
    BY <1>2 DEF GrapheneOK, Counts
  <2>2. CASE c # b
    BY <1>3, <1>4, <2>1, <2>2
  <2>3. CASE c = b /\ x = r
    BY <1>1, <1>2, <1>3, <1>4, <2>1, <2>3
  <2>4. CASE c = b /\ x # r
    BY <1>1, <1>2, <1>3, <1>4, <2>1, <2>4
  <2> QED
    BY <2>2, <2>3, <2>4
<1> QED
  BY <1>2, <1>3, <1>4, <1>5, <1>6 DEF GrapheneOK, u, d, e

LEMMA GrapheneOverflow ==
    ASSUME NEW t, NEW s, NEW a, GrapheneOK(t, s, a), NEW b \in Banks, NEW r \in Rows,
           r \notin DOMAIN t[b]
    PROVE  GrapheneOK(t, [s EXCEPT ![b] = @ + 1], Acted(a, b, r))
<1>1. s \in [Banks -> Nat] /\ a \in Counts
  BY DEF GrapheneOK
<1>2. /\ Acted(a, b, r) \in Counts
      /\ \A c \in Banks, x \in Rows :
            Acted(a, b, r)[c][x] = IF c = b /\ x = r THEN a[c][x] + 1 ELSE a[c][x]
  BY <1>1, ActedAt
<1>3. ASSUME NEW c \in Banks, NEW x \in DOMAIN t[c]
      PROVE  t[c][x] \in Nat
             /\ t[c][x] <= Larger(ActivationThreshold - 1, [s EXCEPT ![b] = @ + 1][c] + 1)
  BY <1>1, TrackersAssumption DEF GrapheneOK, Larger
<1>4. ASSUME NEW c \in Banks, NEW x \in Rows
      PROVE  Acted(a, b, r)[c][x]
                <= IF x \in DOMAIN t[c] THEN t[c][x] ELSE [s EXCEPT ![b] = @ + 1][c]
  BY <1>1, <1>2 DEF GrapheneOK, Counts
<1> QED
  BY <1>1, <1>2, <1>3, <1>4 DEF GrapheneOK

LEMMA GrapheneStep ==
    ASSUME GrapheneOK(table, spill, acts), GrapheneNext
    PROVE  GrapheneOK(table', spill', acts')
<1>1. GrapheneOK(GrapheneTable, SpillNow, ActsNow)
  BY GrapheneNow
<1>2. CASE GrapheneIdle
  BY <1>1, <1>2 DEF GrapheneIdle
<1>3. ASSUME NEW h \in Hot["Graphene"]
      PROVE  h[1] \in Banks /\ h[2] \in Rows
  BY PlacesInUse DEF TrackerNames
<1>4. ASSUME NEW b \in Banks, NEW r \in Rows, GrapheneCount(b, r)
      PROVE  GrapheneOK(table', spill', acts')
  <2> DEFINE t == GrapheneTable
             s == SpillNow
             a == ActsNow
  <2>1. /\ r \in DOMAIN t[b] /\ spill' = s
        /\ \/ t[b][r] + 1 >= ActivationThreshold /\ table' = [t EXCEPT ![b][r] = s[b]]
                 /\ acts' = Refreshed(a, b, r)
           \/ t[b][r] + 1 < ActivationThreshold /\ table' = [t EXCEPT ![b][r] = t[b][r] + 1]
                 /\ acts' = Acted(a, b, r)
    BY <1>4 DEF GrapheneCount
  <2>2. GrapheneOK(t, s, a)
    BY <1>1
  <2> HIDE DEF t, s, a
  <2>3. /\ t[b][r] + 1 >= ActivationThreshold =>
              GrapheneOK([t EXCEPT ![b][r] = s[b]], s, Refreshed(a, b, r))
        /\ t[b][r] + 1 < ActivationThreshold =>
              GrapheneOK([t EXCEPT ![b][r] = t[b][r] + 1], s, Acted(a, b, r))
    BY <2>1, <2>2, GrapheneUpdate
  <2> QED
    BY <2>1, <2>3
<1>5. ASSUME NEW b \in Banks, NEW r \in Rows, GrapheneReplace(b, r)
      PROVE  GrapheneOK(table', spill', acts')
  <2> DEFINE t == GrapheneTable
             s == SpillNow
             a == ActsNow
  <2>1. PICK old \in DOMAIN t[b] :
          t[b][old] = s[b] /\ table' = [t EXCEPT ![b] = With(Emptied(t[b], old), r, s[b] + 1)]
    BY <1>5 DEF GrapheneReplace
  <2>2. r \notin DOMAIN t[b] /\ spill' = s /\ acts' = Acted(a, b, r)
    BY <1>5 DEF GrapheneReplace
  <2>3. GrapheneOK(t, s, a)
    BY <1>1
  <2> HIDE DEF t, s, a
  <2> QED
    BY <2>1, <2>2, <2>3, GrapheneSwap
<1>6. ASSUME NEW b \in Banks, NEW r \in Rows, GrapheneSpill(b, r)
      PROVE  GrapheneOK(table', spill', acts')
  BY <1>1, <1>6, GrapheneOverflow DEF GrapheneSpill
<1> QED
  BY <1>2, <1>3, <1>4, <1>5, <1>6 DEF GrapheneNext

-----------------------------------------------------------------------------
(* TWiCe: an entry that is pruned had fewer activations than the pruning   *)
(* threshold for each refresh it has lived through, so what it forgets is  *)
(* what the refreshes allow.                                               *)
Forgotten(n) == n * PruningThreshold

LEMMA ForgottenGrows ==
    ASSUME NEW m \in Nat, NEW n \in Nat, m <= n
    PROVE  /\ Forgotten(m) \in Nat /\ Forgotten(n) \in Nat
           /\ Forgotten(m) <= Forgotten(n)
           /\ Forgotten(n - m) = Forgotten(n) - Forgotten(m)
<1>1. PICK d \in Nat : n = m + d
  OBVIOUS
<1>2. d * PruningThreshold \in Nat /\ m * PruningThreshold \in Nat
  BY TrackersAssumption
<1>3. (m + d) * PruningThreshold = m * PruningThreshold + d * PruningThreshold
  BY TrackersAssumption
<1> QED
  BY <1>1, <1>2, <1>3 DEF Forgotten

TwiceOK(t, a, n) ==
    /\ IsTable(t) /\ a \in Counts /\ n \in Nat
    /\ \A b \in Banks : \A r \in DOMAIN t[b] :
          /\ t[b][r] \in [act_count : Nat, life : Nat]
          /\ t[b][r].life <= n
          /\ t[b][r].act_count <= Larger(TwiceThreshold - 1, 1)
    /\ \A b \in Banks, r \in Rows :
          a[b][r] <= IF r \in DOMAIN t[b] THEN t[b][r].act_count + Forgotten(n - t[b][r].life)
                     ELSE Forgotten(n)

LEMMA TwiceRefreshOK ==
    ASSUME TwiceOK(table, acts, refs), TwiceRefresh
    PROVE  TwiceOK(table', acts', refs')
<1> DEFINE kept(b) == {r \in DOMAIN table[b] :
                         table[b][r].act_count >= table[b][r].life * PruningThreshold}
           entry(b, r) == [table[b][r] EXCEPT !.life = @ + 1]
<1> DEFINE t == [b \in Banks |-> [r \in kept(b) |-> entry(b, r)]]
<1>1. table' = t /\ refs' = refs + 1 /\ acts' = acts
  BY DEF TwiceRefresh
<1>2. refs \in Nat /\ acts \in Counts
  BY DEF TwiceOK
<1>3. /\ IsTable(t)
      /\ \A b \in Banks : DOMAIN t[b] = kept(b) /\ \A r \in kept(b) : t[b][r] = entry(b, r)
  BY DEF IsTable, IsFunction
<1>4. ASSUME NEW b \in Banks, NEW r \in DOMAIN table[b]
      PROVE  /\ entry(b, r) \in [act_count : Nat, life : Nat]
             /\ entry(b, r).life = table[b][r].life + 1
             /\ entry(b, r).act_count = table[b][r].act_count
             /\ table[b][r].life \in Nat /\ table[b][r].act_count \in Nat
             /\ table[b][r].life <= refs
             /\ table[b][r].act_count <= Larger(TwiceThreshold - 1, 1)
  BY DEF TwiceOK
<1> HIDE DEF t, entry
<1>5. ASSUME NEW b \in Banks, NEW r \in Rows
      PROVE  acts[b][r] <= IF r \in kept(b)
                           THEN entry(b, r).act_count + Forgotten(refs + 1 - entry(b, r).life)
                           ELSE Forgotten(refs + 1)
  <2>1. acts[b][r] \in Nat
    BY <1>2 DEF Counts
  <2>2. Forgotten(refs) \in Nat /\ Forgotten(refs + 1) \in Nat /\ Forgotten(refs) <= Forgotten(refs + 1)
    BY <1>2, ForgottenGrows
  <2>3. CASE r \notin DOMAIN table[b]
    BY <1>2, <2>1, <2>2, <2>3 DEF TwiceOK
  <2>4. CASE r \in kept(b)
    <3>1. refs + 1 - entry(b, r).life = refs - table[b][r].life
      BY <1>2, <1>4, <2>4
    <3>2. acts[b][r] <= table[b][r].act_count + Forgotten(refs - table[b][r].life)
      BY <2>4 DEF TwiceOK
    <3> QED
      BY <1>4, <2>4, <3>1, <3>2
  <2>5. CASE r \in DOMAIN table[b] /\ r \notin kept(b)
    <3> DEFINE l == table[b][r].life
               c == table[b][r].act_count
    <3>1. l \in Nat /\ c \in Nat /\ l <= refs /\ ~(c >= Forgotten(l))
      BY <1>4, <2>5 DEF Forgotten
    <3>2. acts[b][r] <= c + Forgotten(refs - l)
      BY <2>5 DEF TwiceOK
    <3> HIDE DEF l, c
    <3>3. Forgotten(l) \in Nat /\ Forgotten(refs - l) = Forgotten(refs) - Forgotten(l)
      BY <1>2, <3>1, ForgottenGrows
    <3> QED
      BY <1>2, <2>1, <2>2, <2>5, <3>1, <3>2, <3>3
  <2> QED
    BY <2>3, <2>4, <2>5
<1>6. ASSUME NEW b \in Banks, NEW r \in DOMAIN t[b]
      PROVE  /\ t[b][r] \in [act_count : Nat, life : Nat]
             /\ t[b][r].life <= refs + 1
             /\ t[b][r].act_count <= Larger(TwiceThreshold - 1, 1)
  <2>1. r \in DOMAIN table[b] /\ t[b][r] = entry(b, r)
    BY <1>3
  <2> QED
    BY <1>2, <1>4, <2>1
<1> HIDE DEF kept
<1>7. ASSUME NEW b \in Banks, NEW r \in Rows
      PROVE  acts[b][r] <= IF r \in DOMAIN t[b]
                           THEN t[b][r].act_count + Forgotten(refs + 1 - t[b][r].life)
                           ELSE Forgotten(refs + 1)
  BY <1>3, <1>5
<1>8. TwiceOK(t, acts, refs + 1)
  BY <1>2, <1>3, <1>6, <1>7 DEF TwiceOK
<1> QED
  BY <1>1, <1>8

LEMMA TwiceEnter ==
    ASSUME NEW t, NEW a, NEW n, TwiceOK(t, a, n), NEW b \in Banks, NEW r \in Rows,
           r \notin DOMAIN t[b]
    PROVE  TwiceOK([t EXCEPT ![b] = With(t[b], r, [act_count |-> 1, life |-> 0])],
                   Acted(a, b, r), n)
<1> DEFINE v == [act_count |-> 1, life |-> 0]
           e == With(t[b], r, v)
           u == [t EXCEPT ![b] = e]
           d == Acted(a, b, r)
<1>1. /\ IsFunction(e) /\ DOMAIN e = DOMAIN t[b] \cup {r} /\ e[r] = v
      /\ \A x \in DOMAIN t[b] : e[x] = t[b][x]
  BY DEF With, IsFunction
<1>2. IsTable(t) /\ a \in Counts /\ n \in Nat
  BY DEF TwiceOK
<1>3. v \in [act_count : Nat, life : Nat] /\ v.life = 0 /\ v.act_count = 1
  OBVIOUS
<1> HIDE DEF e, v
<1>4. IsTable(u) /\ u[b] = e /\ \A c \in Banks : c # b => u[c] = t[c]
  BY <1>1, <1>2, ExceptAt
<1>5. /\ d \in Counts
      /\ \A c \in Banks, x \in Rows : d[c][x] = IF c = b /\ x = r THEN a[c][x] + 1 ELSE a[c][x]
  BY <1>2, ActedAt
<1> HIDE DEF u, d
<1>6. ASSUME NEW c \in Banks, NEW x \in DOMAIN u[c]
      PROVE  /\ u[c][x] \in [act_count : Nat, life : Nat]
             /\ u[c][x].life <= n
             /\ u[c][x].act_count <= Larger(TwiceThreshold - 1, 1)
  <2>1. CASE c = b /\ x = r
    BY <1>1, <1>2, <1>3, <1>4, <2>1, TrackersAssumption DEF Larger
  <2>2. CASE ~(c = b /\ x = r)
    BY <1>1, <1>4, <2>2 DEF TwiceOK
  <2> QED
    BY <2>1, <2>2
<1>7. ASSUME NEW c \in Banks, NEW x \in Rows
      PROVE  d[c][x] <= IF x \in DOMAIN u[c] THEN u[c][x].act_count + Forgotten(n - u[c][x].life)
                        ELSE Forgotten(n)
  <2>1. a[c][x] \in Nat
           /\ a[c][x] <= IF x \in DOMAIN t[c] THEN t[c][x].act_count + Forgotten(n - t[c][x].life)
                         ELSE Forgotten(n)
    BY <1>2 DEF TwiceOK, Counts
  <2>2. CASE c = b /\ x = r
    <3>1. d[c][x] = a[c][x] + 1 /\ a[c][x] <= Forgotten(n) /\ Forgotten(n) \in Nat
      BY <1>2, <1>5, <2>1, <2>2, ForgottenGrows
    <3>2. x \in DOMAIN u[c] /\ u[c][x] = v /\ n - v.life = n
      BY <1>1, <1>2, <1>3, <1>4, <2>2
    <3> QED
      BY <1>3, <2>1, <3>1, <3>2
  <2>3. CASE ~(c = b /\ x = r)
    <3>1. (x \in DOMAIN u[c] <=> x \in DOMAIN t[c]) /\ (x \in DOMAIN t[c] => u[c][x] = t[c][x])
      BY <1>1, <1>4, <2>3
    <3>2. d[c][x] = a[c][x]
      BY <1>5, <2>3
    <3> QED
      BY <2>1, <3>1, <3>2
  <2> QED
    BY <2>2, <2>3
<1> QED
  BY <1>2, <1>4, <1>5, <1>6, <1>7 DEF TwiceOK, u, d, e, v

LEMMA TwiceCount ==
    ASSUME NEW t, NEW a, NEW n, TwiceOK(t, a, n), NEW b \in Banks, NEW r \in Rows,
           r \in DOMAIN t[b], t[b][r].act_count + 1 < TwiceThreshold
    PROVE  TwiceOK([t EXCEPT ![b][r].act_count = @ + 1], Acted(a, b, r), n)
<1> DEFINE v == [t[b][r] EXCEPT !.act_count = @ + 1]
           u == [t EXCEPT ![b][r].act_count = @ + 1]
           d == Acted(a, b, r)
<1>1. IsTable(t) /\ a \in Counts /\ n \in Nat
  BY DEF TwiceOK
<1>2. /\ t[b][r] \in [act_count : Nat, life : Nat] /\ t[b][r].life <= n
  BY DEF TwiceOK
<1>3. /\ v \in [act_count : Nat, life : Nat] /\ v.life = t[b][r].life
      /\ v.act_count = t[b][r].act_count + 1
  BY <1>2
<1>4. /\ IsTable(u)
      /\ \A c \in Banks : DOMAIN u[c] = DOMAIN t[c]
      /\ u[b][r] = v
      /\ \A c \in Banks : \A x \in DOMAIN t[c] : (c # b \/ x # r) => u[c][x] = t[c][x]
  BY <1>1 DEF IsTable, IsFunction
<1>5. /\ d \in Counts
      /\ \A c \in Banks, x \in Rows : d[c][x] = IF c = b /\ x = r THEN a[c][x] + 1 ELSE a[c][x]
  BY <1>1, ActedAt
<1> HIDE DEF u, d, v
<1>6. ASSUME NEW c \in Banks, NEW x \in DOMAIN u[c]
      PROVE  /\ u[c][x] \in [act_count : Nat, life : Nat]
             /\ u[c][x].life <= n
             /\ u[c][x].act_count <= Larger(TwiceThreshold - 1, 1)
  <2>1. CASE c = b /\ x = r
    BY <1>2, <1>3, <1>4, <2>1, TrackersAssumption DEF Larger
  <2>2. CASE ~(c = b /\ x = r)
    BY <1>4, <2>2 DEF TwiceOK
  <2> QED
    BY <2>1, <2>2
<1>7. ASSUME NEW c \in Banks, NEW x \in Rows
      PROVE  d[c][x] <= IF x \in DOMAIN u[c] THEN u[c][x].act_count + Forgotten(n - u[c][x].life)
                        ELSE Forgotten(n)
  <2>1. a[c][x] \in Nat
           /\ a[c][x] <= IF x \in DOMAIN t[c] THEN t[c][x].act_count + Forgotten(n - t[c][x].life)
                         ELSE Forgotten(n)
    BY <1>1 DEF TwiceOK, Counts
  <2>2. CASE c = b /\ x = r
    <3>1. /\ d[c][x] = a[c][x] + 1
          /\ a[c][x] <= t[b][r].act_count + Forgotten(n - t[b][r].life)
      BY <1>5, <2>1, <2>2
    <3>2. Forgotten(n - t[b][r].life) \in Int
      <4>1. t[b][r].life \in Nat
        BY <1>2
      <4>2. /\ Forgotten(n) \in Nat /\ Forgotten(t[b][r].life) \in Nat
            /\ Forgotten(n - t[b][r].life) = Forgotten(n) - Forgotten(t[b][r].life)
        BY <1>1, <1>2, <4>1, ForgottenGrows
      <4> QED
        BY <4>2
    <3>3. x \in DOMAIN u[c] /\ u[c][x] = v /\ t[b][r].act_count \in Nat
      BY <1>2, <1>4, <2>2
    <3> QED
      BY <1>3, <2>1, <3>1, <3>2, <3>3
  <2>3. CASE ~(c = b /\ x = r)
    <3>1. DOMAIN u[c] = DOMAIN t[c] /\ (x \in DOMAIN t[c] => u[c][x] = t[c][x])
      BY <1>4, <2>3
    <3>2. d[c][x] = a[c][x]
      BY <1>5, <2>3
    <3> QED
      BY <2>1, <3>1, <3>2
  <2> QED
    BY <2>2, <2>3
<1>8. TwiceOK(u, d, n)
  BY <1>1, <1>4, <1>5, <1>6, <1>7 DEF TwiceOK
<1> QED
  BY <1>8 DEF u, d

LEMMA TwiceRefreshNeighbours ==
    ASSUME NEW t, NEW a, NEW n, TwiceOK(t, a, n), NEW b \in Banks, NEW r \in Rows
    PROVE  TwiceOK([t EXCEPT ![b] = Emptied(t[b], r)], Refreshed(a, b, r), n)
<1> DEFINE e == Emptied(t[b], r)
           u == [t EXCEPT ![b] = e]
           d == Refreshed(a, b, r)
<1>1. IsFunction(e) /\ DOMAIN e = DOMAIN t[b] \ {r} /\ \A x \in DOMAIN e : e[x] = t[b][x]
  BY DEF Emptied, IsFunction
<1>2. IsTable(t) /\ a \in Counts /\ n \in Nat /\ Forgotten(n) \in Nat
  BY ForgottenGrows DEF TwiceOK
<1> HIDE DEF e
<1>3. IsTable(u) /\ u[b] = e /\ \A c \in Banks : c # b => u[c] = t[c]
  BY <1>1, <1>2, ExceptAt
<1>4. /\ d \in Counts
      /\ \A c \in Banks, x \in Rows : d[c][x] = IF c = b /\ x = r THEN 0 ELSE a[c][x]
  BY <1>2, RefreshedAt
<1> HIDE DEF u, d
<1>5. ASSUME NEW c \in Banks, NEW x \in DOMAIN u[c]
      PROVE  /\ u[c][x] \in [act_count : Nat, life : Nat]
             /\ u[c][x].life <= n
             /\ u[c][x].act_count <= Larger(TwiceThreshold - 1, 1)
  BY <1>1, <1>3 DEF TwiceOK
<1>6. ASSUME NEW c \in Banks, NEW x \in Rows
      PROVE  d[c][x] <= IF x \in DOMAIN u[c] THEN u[c][x].act_count + Forgotten(n - u[c][x].life)
                        ELSE Forgotten(n)
  <2>1. CASE c = b /\ x = r
    BY <1>1, <1>2, <1>3, <1>4, <2>1
  <2>2. CASE ~(c = b /\ x = r)
    <3>1. (x \in DOMAIN u[c] <=> x \in DOMAIN t[c]) /\ (x \in DOMAIN t[c] => u[c][x] = t[c][x])
      BY <1>1, <1>3, <2>2
    <3>2. d[c][x] = a[c][x]
      BY <1>4, <2>2
    <3>3. a[c][x] <= IF x \in DOMAIN t[c] THEN t[c][x].act_count + Forgotten(n - t[c][x].life)
                     ELSE Forgotten(n)
      BY DEF TwiceOK
    <3> QED
      BY <3>1, <3>2, <3>3
  <2> QED
    BY <2>1, <2>2
<1>7. TwiceOK(u, d, n)
  BY <1>2, <1>3, <1>4, <1>5, <1>6 DEF TwiceOK
<1> QED
  BY <1>7 DEF u, d, e

LEMMA TwiceStep ==
    ASSUME TwiceOK(table, acts, refs), TwiceNext
    PROVE  TwiceOK(table', acts', refs')
<1>1. CASE TwiceRefresh
  BY <1>1, TwiceRefreshOK
<1>2. ASSUME NEW h \in Hot["TWiCe"]
      PROVE  h[1] \in Banks /\ h[2] \in Rows
  BY PlacesInUse DEF TrackerNames
<1>3. ASSUME NEW b \in Banks, NEW r \in Rows, TwiceActivate(b, r)
      PROVE  TwiceOK(table', acts', refs')
  <2>1. refs' = refs
    BY <1>3 DEF TwiceActivate
  <2>2. CASE /\ r \notin DOMAIN table[b] /\ acts' = Acted(acts, b, r)
             /\ table' = [table EXCEPT ![b] = With(table[b], r, [act_count |-> 1, life |-> 0])]
    BY <2>1, <2>2, TwiceEnter
  <2>3. CASE /\ r \in DOMAIN table[b] /\ table[b][r].act_count + 1 < TwiceThreshold
             /\ table' = [table EXCEPT ![b][r].act_count = @ + 1] /\ acts' = Acted(acts, b, r)
    BY <2>1, <2>3, TwiceCount
  <2>4. CASE /\ table' = [table EXCEPT ![b] = Emptied(table[b], r)]
             /\ acts' = Refreshed(acts, b, r)
    BY <2>1, <2>4, TwiceRefreshNeighbours
  <2> QED
    BY <1>3, <2>2, <2>3, <2>4 DEF TwiceActivate
<1> QED
  BY <1>1, <1>2, <1>3 DEF TwiceNext

-----------------------------------------------------------------------------
(* OracleRH: an entry is the number of activations, or more.               *)
OracleOK(t, a) ==
    /\ IsTable(t) /\ a \in Counts
    /\ \A b \in Banks : \A r \in DOMAIN t[b] :
          t[b][r] \in Nat /\ t[b][r] <= Larger(RHThreshold - 1, 1)
    /\ \A b \in Banks, r \in Rows : a[b][r] <= IF r \in DOMAIN t[b] THEN t[b][r] ELSE 0

SameElsewhere(d, a, b, r) ==
    \A c \in Banks, x \in Rows : (c # b \/ x # r) => d[c][x] = a[c][x]

LEMMA OraclePut ==
    ASSUME NEW t, NEW a, OracleOK(t, a), NEW b \in Banks, NEW r \in Rows, r \in DOMAIN t[b],
           NEW v \in Nat, v <= Larger(RHThreshold - 1, 1),
           NEW d \in Counts, d[b][r] <= v, SameElsewhere(d, a, b, r)
    PROVE  OracleOK([t EXCEPT ![b][r] = v], d)
<1> DEFINE u == [t EXCEPT ![b][r] = v]
<1>1. /\ IsTable(u)
      /\ \A c \in Banks : DOMAIN u[c] = DOMAIN t[c]
      /\ u[b][r] = v
      /\ \A c \in Banks : \A x \in DOMAIN t[c] : (c # b \/ x # r) => u[c][x] = t[c][x]
  BY DEF OracleOK, IsTable, IsFunction
<1> HIDE DEF u
<1>2. ASSUME NEW c \in Banks, NEW x \in DOMAIN u[c]
      PROVE  u[c][x] \in Nat /\ u[c][x] <= Larger(RHThreshold - 1, 1)
  BY <1>1 DEF OracleOK
<1>3. ASSUME NEW c \in Banks, NEW x \in Rows
      PROVE  d[c][x] <= IF x \in DOMAIN u[c] THEN u[c][x] ELSE 0
  <2>1. CASE c = b /\ x = r
    BY <1>1, <2>1
  <2>2. CASE ~(c = b /\ x = r)
    BY <1>1, <2>2 DEF OracleOK, SameElsewhere
  <2> QED
    BY <2>1, <2>2
<1>4. OracleOK(u, d)
  BY <1>1, <1>2, <1>3 DEF OracleOK
<1> QED
  BY <1>4 DEF u

LEMMA OracleEnter ==
    ASSUME NEW t, NEW a, OracleOK(t, a), NEW b \in Banks, NEW r \in Rows, r \notin DOMAIN t[b]
    PROVE  OracleOK([t EXCEPT ![b] = With(t[b], r, 1)], Acted(a, b, r))
<1> DEFINE e == With(t[b], r, 1)
           u == [t EXCEPT ![b] = e]
           d == Acted(a, b, r)
<1>1. /\ IsFunction(e) /\ DOMAIN e = DOMAIN t[b] \cup {r} /\ e[r] = 1
      /\ \A x \in DOMAIN t[b] : e[x] = t[b][x]
  BY DEF With, IsFunction
<1>2. IsTable(t) /\ a \in Counts
  BY DEF OracleOK
<1> HIDE DEF e
<1>3. IsTable(u) /\ u[b] = e /\ \A c \in Banks : c # b => u[c] = t[c]
  BY <1>1, <1>2, ExceptAt
<1>4. /\ d \in Counts
      /\ \A c \in Banks, x \in Rows : d[c][x] = IF c = b /\ x = r THEN a[c][x] + 1 ELSE a[c][x]
  BY <1>2, ActedAt
<1> HIDE DEF u, d
<1>5. ASSUME NEW c \in Banks, NEW x \in DOMAIN u[c]
      PROVE  u[c][x] \in Nat /\ u[c][x] <= Larger(RHThreshold - 1, 1)
  <2>1. CASE c = b /\ x = r
    BY <1>1, <1>3, <2>1, TrackersAssumption DEF Larger
  <2>2. CASE ~(c = b /\ x = r)
    BY <1>1, <1>3, <2>2 DEF OracleOK
  <2> QED
    BY <2>1, <2>2
<1>6. ASSUME NEW c \in Banks, NEW x \in Rows
      PROVE  d[c][x] <= IF x \in DOMAIN u[c] THEN u[c][x] ELSE 0
  <2>1. a[c][x] \in Nat /\ a[c][x] <= IF x \in DOMAIN t[c] THEN t[c][x] ELSE 0
    BY <1>2 DEF OracleOK, Counts
  <2>2. CASE c = b /\ x = r
    BY <1>1, <1>3, <1>4, <2>1, <2>2
  <2>3. CASE ~(c = b /\ x = r)
    BY <1>1, <1>3, <1>4, <2>1, <2>3
  <2> QED
    BY <2>2, <2>3
<1>7. OracleOK(u, d)
  BY <1>3, <1>4, <1>5, <1>6 DEF OracleOK
<1> QED
  BY <1>7 DEF u, d, e

LEMMA OracleClear ==
    ASSUME NEW t, NEW a, OracleOK(t, a), NEW mine
    PROVE  OracleOK([b \in Banks |-> IF b \in mine THEN NoEntries ELSE t[b]],
                    [b \in Banks |-> IF b \in mine THEN NoActs[b] ELSE a[b]])
<1> DEFINE u == [b \in Banks |-> IF b \in mine THEN NoEntries ELSE t[b]]
           d == [b \in Banks |-> IF b \in mine THEN NoActs[b] ELSE a[b]]
<1>1. IsTable(t) /\ a \in Counts
  BY DEF OracleOK
<1>2. IsFunction(NoEntries) /\ DOMAIN NoEntries = {}
  BY DEF NoEntries, IsFunction
<1>3. IsTable(u) /\ \A b \in Banks : u[b] = IF b \in mine THEN NoEntries ELSE t[b]
  BY <1>1, <1>2 DEF IsTable
<1>4. d \in Counts /\ \A b \in Banks, r \in Rows : d[b][r] = IF b \in mine THEN 0 ELSE a[b][r]
  BY <1>1, NoActsAt DEF Counts
<1> HIDE DEF u, d
<1>5. ASSUME NEW c \in Banks, NEW x \in DOMAIN u[c]
      PROVE  u[c][x] \in Nat /\ u[c][x] <= Larger(RHThreshold - 1, 1)
  BY <1>2, <1>3 DEF OracleOK
<1>6. ASSUME NEW c \in Banks, NEW x \in Rows
      PROVE  d[c][x] <= IF x \in DOMAIN u[c] THEN u[c][x] ELSE 0
  BY <1>2, <1>3, <1>4 DEF OracleOK
<1>7. OracleOK(u, d)
  BY <1>3, <1>4, <1>5, <1>6 DEF OracleOK
<1> QED
  BY <1>7 DEF u, d

LEMMA OracleStep ==
    ASSUME OracleOK(table, acts), OracleNext
    PROVE  OracleOK(table', acts')
<1>1. IsTable(table) /\ acts \in Counts
  BY DEF OracleOK
<1>2. ASSUME NEW h \in Hot["OracleRH"]
      PROVE  h[1] \in Banks /\ h[2] \in Rows
  BY PlacesInUse DEF TrackerNames
<1>3. ASSUME NEW b \in Banks, NEW r \in Rows, OracleActivate(b, r)
      PROVE  OracleOK(table', acts')
  <2>1. CASE /\ r \in DOMAIN table[b]
             /\ table' = [table EXCEPT ![b][r] = 0] /\ acts' = Refreshed(acts, b, r)
    <3> DEFINE v == 0
               d == Refreshed(acts, b, r)
    <3>1. v \in Nat /\ v <= Larger(RHThreshold - 1, 1)
      BY TrackersAssumption DEF Larger
    <3>2. d \in Counts /\ d[b][r] <= v /\ SameElsewhere(d, acts, b, r)
      BY <1>1, RefreshedAt DEF SameElsewhere
    <3>3. table' = [table EXCEPT ![b][r] = v] /\ acts' = d /\ r \in DOMAIN table[b]
      BY <2>1
    <3> HIDE DEF v, d
    <3>4. OracleOK([table EXCEPT ![b][r] = v], d)
      BY <3>1, <3>2, <3>3, OraclePut
    <3> QED
      BY <3>3, <3>4
  <2>2. CASE /\ r \in DOMAIN table[b] /\ table[b][r] + 1 < RHThreshold
             /\ table' = [table EXCEPT ![b][r] = @ + 1] /\ acts' = Acted(acts, b, r)
    <3> DEFINE v == table[b][r] + 1
               d == Acted(acts, b, r)
    <3>1. v \in Nat /\ v <= Larger(RHThreshold - 1, 1) /\ acts[b][r] + 1 <= v
      BY <1>1, <2>2, TrackersAssumption DEF OracleOK, Larger, Counts
    <3>2. d \in Counts /\ d[b][r] <= v /\ SameElsewhere(d, acts, b, r)
      BY <1>1, <3>1, ActedAt DEF SameElsewhere
    <3>3. table' = [table EXCEPT ![b][r] = v] /\ acts' = d /\ r \in DOMAIN table[b]
      BY <2>2
    <3> HIDE DEF v, d
    <3>4. OracleOK([table EXCEPT ![b][r] = v], d)
      BY <3>1, <3>2, <3>3, OraclePut
    <3> QED
      BY <3>3, <3>4
  <2>3. CASE /\ r \notin DOMAIN table[b]
             /\ table' = [table EXCEPT ![b] = With(table[b], r, 1)] /\ acts' = Acted(acts, b, r)
    BY <2>3, OracleEnter
  <2> QED
    BY <1>3, <2>1, <2>2, <2>3 DEF OracleActivate
<1>4. ASSUME NEW rank \in 0..(NumRanks - 1), OracleRefresh(rank)
      PROVE  OracleOK(table', acts')
  <2> DEFINE mine == {b \in Banks : RankOf(b) = rank}
  <2>1. /\ table' = [b \in Banks |-> IF b \in mine THEN NoEntries ELSE table[b]]
        /\ acts' = [b \in Banks |-> IF b \in mine THEN NoActs[b] ELSE acts[b]]
    BY <1>4 DEF OracleRefresh
  <2> HIDE DEF mine
  <2>2. OracleOK([b \in Banks |-> IF b \in mine THEN NoEntries ELSE table[b]],
                 [b \in Banks |-> IF b \in mine THEN NoActs[b] ELSE acts[b]])
    BY OracleClear
  <2> QED
    BY <2>1, <2>2
<1> QED
  BY <1>2, <1>3, <1>4, Zenon DEF OracleNext

-----------------------------------------------------------------------------
(* RFMManager: no counter reaches the threshold, so clearing them forgets  *)
(* less than the threshold.                                                *)
Cleared(n) == n * (RfmThreshold - 1)

LEMMA ClearedNext ==
    ASSUME NEW n \in Nat
    PROVE  Cleared(n) \in Nat /\ Cleared(n + 1) = Cleared(n) + (RfmThreshold - 1)
BY TrackersAssumption DEF Cleared

RfmOK(s, a, n) ==
    /\ s \in [Banks -> Nat] /\ a \in Counts /\ n \in Nat
    /\ \A b \in Banks : s[b] <= RfmThreshold - 1
    /\ \A b \in Banks, r \in Rows : a[b][r] <= s[b] + Cleared(n)

LEMMA RfmCount ==
    ASSUME NEW s, NEW a, NEW n, RfmOK(s, a, n), NEW b \in Banks, NEW r \in Rows,
           s[b] + 1 < RfmThreshold
    PROVE  RfmOK([s EXCEPT ![b] = @ + 1], Acted(a, b, r), n)
<1>1. s \in [Banks -> Nat] /\ a \in Counts /\ n \in Nat /\ Cleared(n) \in Nat
  BY ClearedNext DEF RfmOK
<1>2. /\ Acted(a, b, r) \in Counts
      /\ \A c \in Banks, x \in Rows :
            Acted(a, b, r)[c][x] = IF c = b /\ x = r THEN a[c][x] + 1 ELSE a[c][x]
  BY <1>1, ActedAt
<1>3. ASSUME NEW c \in Banks
      PROVE  [s EXCEPT ![b] = @ + 1][c] <= RfmThreshold - 1
  BY <1>1, TrackersAssumption DEF RfmOK
<1>4. ASSUME NEW c \in Banks, NEW x \in Rows
      PROVE  Acted(a, b, r)[c][x] <= [s EXCEPT ![b] = @ + 1][c] + Cleared(n)
  BY <1>1, <1>2 DEF RfmOK, Counts
<1> QED
  BY <1>1, <1>2, <1>3, <1>4 DEF RfmOK

LEMMA RfmClear ==
    ASSUME NEW s, NEW a, NEW n, RfmOK(s, a, n), NEW b \in Banks
    PROVE  RfmOK([c \in Banks |-> 0],
                 [c \in Banks |-> IF RankOf(c) = RankOf(b) THEN NoActs[c] ELSE a[c]], n + 1)
<1> DEFINE d == [c \in Banks |-> IF RankOf(c) = RankOf(b) THEN NoActs[c] ELSE a[c]]
<1>1. s \in [Banks -> Nat] /\ a \in Counts /\ n \in Nat /\ Cleared(n) \in Nat
  BY ClearedNext DEF RfmOK
<1>2. /\ d \in Counts
      /\ \A c \in Banks, x \in Rows :
            d[c][x] = IF RankOf(c) = RankOf(b) THEN 0 ELSE a[c][x]
  BY <1>1, NoActsAt DEF Counts
<1> HIDE DEF d
<1>3. ASSUME NEW c \in Banks, NEW x \in Rows
      PROVE  d[c][x] <= Cleared(n + 1)
  <2>1. a[c][x] <= s[c] + Cleared(n) /\ s[c] <= RfmThreshold - 1 /\ a[c][x] \in Nat
    BY <1>1 DEF RfmOK, Counts
  <2> QED
    BY <1>1, <1>2, <2>1, ClearedNext, TrackersAssumption
<1>4. Cleared(n + 1) \in Nat /\ n + 1 \in Nat
  BY <1>1, ClearedNext
<1>5. RfmOK([c \in Banks |-> 0], d, n + 1)
  BY <1>2, <1>3, <1>4, TrackersAssumption DEF RfmOK
<1> QED
  BY <1>5 DEF d

LEMMA RfmStep ==
    ASSUME RfmOK(spill, acts, refs), RfmNext
    PROVE  RfmOK(spill', acts', refs')
<1>1. PICK h \in Hot["RFMManager"] : RfmActivate(h[1], h[2])
  BY DEF RfmNext
<1>2. h[1] \in Banks /\ h[2] \in Rows
  BY PlacesInUse DEF TrackerNames
<1> DEFINE b == h[1]
           r == h[2]
<1>3. CASE /\ spill[b] + 1 < RfmThreshold /\ spill' = [spill EXCEPT ![b] = @ + 1]
           /\ acts' = Acted(acts, b, r) /\ refs' = refs
  BY <1>2, <1>3, RfmCount
<1>4. CASE /\ spill' = [c \in Banks |-> 0] /\ refs' = refs + 1
           /\ acts' = [c \in Banks |-> IF RankOf(c) = RankOf(b) THEN NoActs[c] ELSE acts[c]]
  BY <1>2, <1>4, RfmClear
<1> QED
  BY <1>1, <1>3, <1>4 DEF RfmActivate

-----------------------------------------------------------------------------
(* The inductive invariant: what the plugin in use guarantees.             *)
TrackersInv ==
    /\ plugin \in TrackerNames
    /\ plugin = "Graphene" => GrapheneOK(table, spill, acts)
    /\ plugin = "TWiCe" => TwiceOK(table, acts, refs)
    /\ plugin = "OracleRH" => OracleOK(table, acts)
    /\ plugin = "RFMManager" => RfmOK(spill, acts, refs)

LEMMA NothingYet ==
    LET t == [b \in Banks |-> NoEntries] IN
    /\ IsTable(t) /\ \A b \in Banks : DOMAIN t[b] = {}
BY DEF IsTable, IsFunction, NoEntries

LEMMA TrackersInitInv ==
    ASSUME TrackersInit
    PROVE  TrackersInv
<1>1. CASE GrapheneInit
  <2>1. GrapheneOK(table, spill, acts)
    <3>1. IsTable(table) /\ spill \in [Banks -> Nat] /\ acts = NoActs
          /\ \A b \in Banks : spill[b] = 0 /\ \A r \in DOMAIN table[b] : table[b][r] = 0
      BY <1>1 DEF GrapheneInit, IsTable, IsFunction
    <3> QED
      BY <3>1, NoActsAt, TrackersAssumption DEF GrapheneOK, Larger
  <2> QED
    BY <1>1, <2>1 DEF GrapheneInit, TrackersInv, TrackerNames
<1>2. CASE TwiceInit
  <2>1. /\ IsTable(table) /\ (\A b \in Banks : DOMAIN table[b] = {})
        /\ acts = NoActs /\ refs = 0
    BY <1>2, NothingYet DEF TwiceInit
  <2>2. TwiceOK(table, acts, refs)
    BY <2>1, NoActsAt, ForgottenGrows DEF TwiceOK
  <2> QED
    BY <1>2, <2>2 DEF TwiceInit, TrackersInv, TrackerNames
<1>3. CASE OracleInit
  <2>1. /\ IsTable(table) /\ (\A b \in Banks : DOMAIN table[b] = {}) /\ acts = NoActs
    BY <1>3, NothingYet DEF OracleInit
  <2>2. OracleOK(table, acts)
    BY <2>1, NoActsAt DEF OracleOK
  <2> QED
    BY <1>3, <2>2 DEF OracleInit, TrackersInv, TrackerNames
<1>4. CASE RfmInit
  <2>1. spill = [b \in Banks |-> 0] /\ acts = NoActs /\ refs = 0
    BY <1>4 DEF RfmInit
  <2>2. RfmOK(spill, acts, refs)
    BY <2>1, NoActsAt, ClearedNext, TrackersAssumption DEF RfmOK
  <2> QED
    BY <1>4, <2>2 DEF RfmInit, TrackersInv, TrackerNames
<1> QED
  BY <1>1, <1>2, <1>3, <1>4 DEF TrackersInit

LEMMA TrackersStepInv ==
    ASSUME TrackersInv, [TrackersNext]_trackers
    PROVE  TrackersInv'
<1>1. CASE GrapheneNext
  <2>1. plugin = "Graphene" /\ plugin' = plugin
    BY <1>1 DEF GrapheneNext
  <2>2. GrapheneOK(table', spill', acts')
    BY <1>1, <2>1, GrapheneStep DEF TrackersInv
  <2> QED
    BY <2>1, <2>2 DEF TrackersInv, TrackerNames
<1>2. CASE TwiceNext
  <2>1. plugin = "TWiCe" /\ plugin' = plugin
    BY <1>2 DEF TwiceNext
  <2>2. TwiceOK(table', acts', refs')
    BY <1>2, <2>1, TwiceStep DEF TrackersInv
  <2> QED
    BY <2>1, <2>2 DEF TrackersInv, TrackerNames
<1>3. CASE OracleNext
  <2>1. plugin = "OracleRH" /\ plugin' = plugin
    BY <1>3 DEF OracleNext
  <2>2. OracleOK(table', acts')
    BY <1>3, <2>1, OracleStep DEF TrackersInv
  <2> QED
    BY <2>1, <2>2 DEF TrackersInv, TrackerNames
<1>4. CASE RfmNext
  <2>1. plugin = "RFMManager" /\ plugin' = plugin
    BY <1>4 DEF RfmNext
  <2>2. RfmOK(spill', acts', refs')
    BY <1>4, <2>1, RfmStep DEF TrackersInv
  <2> QED
    BY <2>1, <2>2 DEF TrackersInv, TrackerNames
<1>5. CASE UNCHANGED trackers
  BY <1>5 DEF trackers, TrackersInv
<1> QED
  BY <1>1, <1>2, <1>3, <1>4, <1>5 DEF TrackersNext

(* The invariant holds in every behaviour of the tracking plugins.         *)
THEOREM TrackersInvariant == TrackersSpec => []TrackersInv
<1>1. TrackersInit => TrackersInv
  BY TrackersInitInv
<1>2. TrackersInv /\ [TrackersNext]_trackers => TrackersInv'
  BY TrackersStepInv
<1> QED
  BY <1>1, <1>2, PTL DEF TrackersSpec

LEMMA EscapesNone ==
    ASSUME TrackersInv
    PROVE  NoActivationEscapes
<1> SUFFICES ASSUME NEW b \in Banks, NEW r \in Rows
             PROVE  acts[b][r] <= Counted(b, r)
  BY DEF NoActivationEscapes
<1>1. CASE plugin = "Graphene"
  BY <1>1 DEF TrackersInv, GrapheneOK, Counted
<1>2. CASE plugin = "TWiCe"
  BY <1>2 DEF TrackersInv, TwiceOK, Counted, Forgotten
<1>3. CASE plugin = "OracleRH"
  BY <1>3 DEF TrackersInv, OracleOK, Counted
<1>4. CASE plugin = "RFMManager"
  BY <1>4 DEF TrackersInv, RfmOK, Counted, Cleared
<1> QED
  BY <1>1, <1>2, <1>3, <1>4 DEF TrackersInv, TrackerNames

LEMMA InTime ==
    ASSUME TrackersInv
    PROVE  RefreshedInTime
<1> SUFFICES ASSUME NEW b \in Banks, NEW r \in Rows
             PROVE  acts[b][r] <= Limit(b)
  BY DEF RefreshedInTime
<1>1. CASE plugin = "Graphene"
  <2>1. GrapheneOK(table, spill, acts)
    BY <1>1 DEF TrackersInv
  <2>2. spill[b] \in Nat /\ acts[b][r] \in Nat
    BY <2>1 DEF GrapheneOK, Counts
  <2>3. acts[b][r] <= Larger(ActivationThreshold - 1, spill[b] + 1)
    <3>1. CASE r \in DOMAIN table[b]
      BY <2>1, <2>2, <3>1, TrackersAssumption DEF GrapheneOK, Larger
    <3>2. CASE r \notin DOMAIN table[b]
      BY <2>1, <2>2, <3>2, TrackersAssumption DEF GrapheneOK, Larger
    <3> QED
      BY <3>1, <3>2
  <2> QED
    BY <1>1, <2>3 DEF Limit
<1>2. CASE plugin = "TWiCe"
  <2>1. TwiceOK(table, acts, refs)
    BY <1>2 DEF TrackersInv
  <2>2. refs \in Nat /\ acts[b][r] \in Nat /\ Forgotten(refs) \in Nat
        /\ Larger(TwiceThreshold - 1, 1) \in Nat
    BY <2>1, ForgottenGrows, TrackersAssumption DEF TwiceOK, Counts, Larger
  <2>3. acts[b][r] <= Larger(TwiceThreshold - 1, 1) + Forgotten(refs)
    <3>1. CASE r \in DOMAIN table[b]
      <4> DEFINE l == table[b][r].life
                 c == table[b][r].act_count
      <4>1. /\ l \in Nat /\ c \in Nat /\ l <= refs /\ c <= Larger(TwiceThreshold - 1, 1)
            /\ acts[b][r] <= c + Forgotten(refs - l)
        BY <2>1, <3>1 DEF TwiceOK
      <4> HIDE DEF l, c
      <4>2. Forgotten(l) \in Nat /\ Forgotten(refs - l) = Forgotten(refs) - Forgotten(l)
        BY <2>2, <4>1, ForgottenGrows
      <4> QED
        BY <2>2, <4>1, <4>2
    <3>2. CASE r \notin DOMAIN table[b]
      <4>1. acts[b][r] <= Forgotten(refs)
        BY <2>1, <3>2 DEF TwiceOK
      <4> QED
        BY <2>2, <4>1
    <3> QED
      BY <3>1, <3>2
  <2> QED
    BY <1>2, <2>3 DEF Limit, Forgotten
<1>3. CASE plugin = "OracleRH"
  <2>1. OracleOK(table, acts)
    BY <1>3 DEF TrackersInv
  <2>2. acts[b][r] \in Nat /\ acts[b][r] <= Larger(RHThreshold - 1, 1)
    BY <2>1, TrackersAssumption DEF OracleOK, Counts, Larger
  <2> QED
    BY <1>3, <2>2 DEF Limit
<1>4. CASE plugin = "RFMManager"
  <2>1. RfmOK(spill, acts, refs)
    BY <1>4 DEF TrackersInv
  <2>2. /\ refs \in Nat /\ spill[b] \in Nat /\ acts[b][r] \in Nat
        /\ spill[b] <= RfmThreshold - 1 /\ acts[b][r] <= spill[b] + Cleared(refs)
    BY <2>1 DEF RfmOK, Counts
  <2>3. acts[b][r] <= Cleared(refs + 1)
    BY <2>2, ClearedNext, TrackersAssumption
  <2> QED
    BY <1>4, <2>3 DEF Limit, Cleared
<1> QED
  BY <1>1, <1>2, <1>3, <1>4 DEF TrackersInv, TrackerNames

(* Since its last preventive refresh no row has been activated more often  *)
(* than the plugin knows, for tables, thresholds and geometries of every   *)
(* size.                                                                   *)
THEOREM NothingEscapes == TrackersSpec => []NoActivationEscapes
BY TrackersInvariant, EscapesNone, PTL

(* The neighbours of a row are refreshed before it has been activated more *)
(* often than the limit of the plugin, for every size and threshold.       *)
THEOREM RefreshInTime == TrackersSpec => []RefreshedInTime
BY TrackersInvariant, InTime, PTL

-----------------------------------------------------------------------------
(* Hydra: division, and where rows, groups, tags and counters lie.         *)
LEMMA DivMod ==
    ASSUME NEW a \in Nat, NEW b \in Nat \ {0}
    PROVE  a \div b \in Nat /\ a % b \in 0..(b - 1) /\ a = b * (a \div b) + (a % b)
BY Z3

LEMMA UniqueDivMod ==
    ASSUME NEW b \in Nat \ {0}, NEW q \in Nat, NEW s \in 0..(b - 1), NEW a \in Nat, a = b * q + s
    PROVE  a \div b = q /\ a % b = s
<1> DEFINE p == a \div b
           r == a % b
<1>1. p \in Nat /\ r \in 0..(b - 1) /\ a = b * p + r
  BY DivMod
<1> HIDE DEF p, r
<1>2. b * p + r = b * q + s
  BY <1>1
<1>3. p = q /\ r = s
  BY <1>1, <1>2, Z3
<1> QED
  BY <1>3 DEF p, r

(* Below a multiple of b.                                                  *)
LEMMA BelowMultiple ==
    ASSUME NEW b \in Nat \ {0}, NEW n \in Nat, n % b = 0, NEW a \in 0..(n - 1)
    PROVE  n = b * (n \div b) /\ n \div b \in Nat \ {0} /\ a \div b < n \div b
<1> DEFINE m == n \div b
           p == a \div b
<1>1. m \in Nat /\ n = b * m
  BY DivMod
<1>2. p \in Nat /\ a % b \in 0..(b - 1) /\ a = b * p + (a % b)
  <2>1. a \in Nat
    OBVIOUS
  <2> QED
    BY <2>1, DivMod
<1> HIDE DEF m, p
<1>3. b * p < b * m
  BY <1>1, <1>2
<1>4. p < m
  BY <1>1, <1>2, <1>3, Z3
<1> QED
  BY <1>1, <1>2, <1>4 DEF m, p

LEMMA BankFacts ==
    ASSUME NEW b \in Banks
    PROVE  /\ BanksPerRank \in Nat \ {0} /\ RankOf(b) \in Ranks
           /\ BankInRank(b) \in 0..(BanksPerRank - 1)
           /\ b = RankOf(b) * BanksPerRank + BankInRank(b)
<1>1. /\ NumRanks \in Nat /\ BanksPerRank \in Nat
      /\ b \in 0..(NumRanks * BanksPerRank - 1) /\ b \in Nat
  BY TrackersAssumption DEF Banks
<1>2. BanksPerRank # 0
  BY <1>1, Z3
<1> DEFINE p == b \div BanksPerRank
<1>3. p \in Nat /\ b % BanksPerRank \in 0..(BanksPerRank - 1)
      /\ b = BanksPerRank * p + (b % BanksPerRank)
  BY <1>1, <1>2, DivMod
<1> HIDE DEF p
<1>4. BanksPerRank * p < BanksPerRank * NumRanks /\ BanksPerRank * p = p * BanksPerRank
  BY <1>1, <1>3, Z3
<1>5. p < NumRanks
  BY <1>1, <1>3, <1>4, Z3
<1> QED
  BY <1>1, <1>2, <1>3, <1>4, <1>5 DEF p, RankOf, Ranks, BankInRank

(* A row is found again from its rank, its set and its tag.                *)
LEMMA TagFacts ==
    ASSUME NEW b \in Banks, NEW r \in Rows
    PROVE  /\ SetOf(r) \in Sets
           /\ EvictedRow(Tag(b, r), SetOf(r)) = r
           /\ EvictedBank(Tag(b, r), RankOf(b)) = b
<1> DEFINE q == r \div RccSets
           s == r % RccSets
           k == BankInRank(b)
<1>1. RccSets \in Nat \ {0} /\ NumRows \in Nat /\ NumRows % RccSets = 0
      /\ r \in Nat /\ r \in 0..(NumRows - 1)
  BY TrackersAssumption, HydraAssumption DEF Rows
<1>2. q \in Nat /\ s \in 0..(RccSets - 1) /\ r = RccSets * q + s
  BY <1>1, DivMod
<1>3. TagRows \in Nat \ {0} /\ q < TagRows
  BY <1>1, BelowMultiple DEF TagRows
<1>4. k \in Nat
  BY BankFacts
<1>5. Tag(b, r) = q + k * TagRows /\ SetOf(r) = s
  BY DEF Tag, SetOf
<1> HIDE DEF q, s, k
<1>6. Tag(b, r) = TagRows * k + q /\ Tag(b, r) \in Nat /\ q \in 0..(TagRows - 1)
  BY <1>2, <1>3, <1>4, <1>5, Z3
<1>7. Tag(b, r) \div TagRows = k /\ Tag(b, r) % TagRows = q
  BY <1>3, <1>4, <1>6, UniqueDivMod
<1>8. s \in Sets
  BY <1>2 DEF Sets
<1>9. q * RccSets + s = r
  BY <1>1, <1>2, Z3
<1> QED
  BY <1>5, <1>7, <1>8, <1>9, BankFacts DEF EvictedRow, EvictedBank, k

LEMMA GroupFacts ==
    ASSUME NEW r \in Rows
    PROVE  /\ GroupOf(r) \in Nat /\ r \in RowsOfGroup(GroupOf(r))
           /\ RowsOfGroup(GroupOf(r)) \subseteq Rows
           /\ \A x \in RowsOfGroup(GroupOf(r)) : GroupOf(x) = GroupOf(r)
<1> DEFINE G == RowGroupSize
           g == r \div G
<1>1. G \in Nat \ {0} /\ NumRows \in Nat /\ NumRows % G = 0 /\ r \in Nat /\ r \in 0..(NumRows - 1)
  BY TrackersAssumption, HydraAssumption DEF Rows
<1>2. g \in Nat /\ r % G \in 0..(G - 1) /\ r = G * g + (r % G)
  BY <1>1, DivMod
<1> DEFINE m == NumRows \div G
<1>3. NumRows = G * m /\ m \in Nat /\ g < m
  BY <1>1, BelowMultiple
<1>4. GroupOf(r) = g
  BY DEF GroupOf
<1> HIDE DEF G, g, m
<1>5. g * G = G * g /\ G * g \in Nat
  BY <1>1, <1>2, Z3
<1>6. G * g + G <= NumRows
  <2>1. g + 1 <= m
    BY <1>2, <1>3
  <2>2. G * (g + 1) <= G * m
    BY <1>1, <1>2, <1>3, <2>1, Z3
  <2> QED
    BY <1>1, <1>2, <1>3, <2>2, Z3
<1>7. RowsOfGroup(g) = (G * g)..(G * g + G - 1)
  BY <1>5 DEF RowsOfGroup, G
<1>8. r \in RowsOfGroup(g) /\ RowsOfGroup(g) \subseteq Rows
  BY <1>1, <1>2, <1>5, <1>6, <1>7 DEF Rows
<1>9. ASSUME NEW x \in RowsOfGroup(g)
      PROVE  GroupOf(x) = g
  <2> DEFINE y == x - G * g
  <2>1. y \in 0..(G - 1) /\ x = G * g + y /\ x \in Nat
    BY <1>1, <1>5, <1>7
  <2> HIDE DEF y
  <2>2. G \in Nat \ {0} /\ g \in Nat /\ y \in 0..(G - 1) /\ x \in Nat /\ x = G * g + y
    BY <1>1, <1>2, <2>1
  <2>3. x \div G = g /\ x % G = y
    BY <2>2, UniqueDivMod
  <2> QED
    BY <2>3 DEF GroupOf, G
<1> QED
  BY <1>2, <1>4, <1>8, <1>9

LEMMA Products ==
    ASSUME NEW a \in Nat, NEW b \in Nat, NEW c \in Nat \ {0}
    PROVE  /\ c * a <= c * b <=> a <= b
           /\ c * a = c * b <=> a = b
           /\ a * b \in Nat /\ a * b = b * a
BY Z3

LEMMA Associates ==
    ASSUME NEW a \in Nat, NEW b \in Nat, NEW c \in Nat
    PROVE  (a * b) * c = a * (b * c)
BY Z3

(* A line holds RctPerLine counters, and the rows of the table all lines.  *)
LEMMA LineFacts ==
    /\ RctPerLine \in Nat \ {0} /\ LineBits = CounterBits * RctPerLine
    /\ RctPerRow = NumLines * RctPerLine /\ RctPerRow \in Nat \ {0}
    /\ RctRows \in Nat /\ NumRows <= RctPerRow * RctRows
<1> DEFINE C == CounterBits
           L == RctPerLine
           T == TotalRctLines
           R == RctRows
           N == NumLines
<1>1. C \in Nat \ {0} /\ LineBits \in Nat \ {0} /\ N \in Nat \ {0} /\ NumRows \in Nat
      /\ LineBits % C = 0 /\ (NumRows * C) % LineBits = 0
  BY TrackersAssumption, HydraAssumption
<1>2. L \in Nat /\ LineBits = C * L
  BY <1>1, DivMod DEF RctPerLine
<1>3. L \in Nat \ {0}
  BY <1>1, <1>2, Z3
<1>4. T \in Nat /\ NumRows * C = LineBits * T
  <2>1. NumRows * C \in Nat
    BY <1>1, Products
  <2> QED
    BY <1>1, <2>1, DivMod DEF TotalRctLines
<1>5. R \in Nat /\ T <= N * R
  <2> DEFINE x == T + N - 1
             m == x % N
  <2>1. x \in Nat
    BY <1>1, <1>4
  <2>2. R = x \div N
    BY DEF RctRows
  <2> HIDE DEF x
  <2>3. R \in Nat /\ m \in 0..(N - 1) /\ x = N * R + m
    BY <1>1, <2>1, <2>2, DivMod
  <2> HIDE DEF m, R, N
  <2>4. N * R \in Nat
    BY <1>1, <2>3, Products
  <2> QED
    BY <1>1, <1>4, <2>3, <2>4 DEF x
<1> HIDE DEF L, T, R
<1>6. RctPerRow = N * L
  <2>1. N * LineBits = C * (N * L)
    BY <1>1, <1>2, Z3
  <2>2. N * L \in Nat /\ N * LineBits \in Nat /\ N * LineBits = C * (N * L) + 0
    BY <1>1, <1>2, <2>1, Products
  <2> DEFINE p == N * L
             x == N * LineBits
  <2>3. p \in Nat /\ x \in Nat /\ x = C * p + 0 /\ 0 \in 0..(C - 1)
    BY <1>1, <2>2
  <2>4. RctPerRow = x \div C
    BY DEF RctPerRow
  <2> HIDE DEF p, x, C
  <2>5. x \div C = p /\ x % C = 0
    BY <1>1, <2>3, UniqueDivMod
  <2> QED
    BY <2>4, <2>5 DEF p
<1>7. NumRows = L * T
  <2>1. C * NumRows = C * (L * T)
    <3>1. C * NumRows = NumRows * C
      BY <1>1, Products
    <3>2. LineBits * T = C * (L * T)
      BY <1>1, <1>2, <1>4, Associates
    <3> QED
      BY <1>4, <3>1, <3>2
  <2> DEFINE x == L * T
  <2>2. x \in Nat /\ C * NumRows = C * x
    BY <1>3, <1>4, <2>1, Products
  <2> HIDE DEF x
  <2>3. NumRows = x
    BY <1>1, <2>2, Products
  <2> QED
    BY <2>3 DEF x
<1>8. NumRows <= (N * L) * R
  <2>1. N * R \in Nat
    BY <1>1, <1>5, Products
  <2>2. L * T <= L * (N * R)
    BY <1>3, <1>4, <1>5, <2>1, Products
  <2>3. L * (N * R) = (N * L) * R
    BY <1>1, <1>3, <1>5, Z3
  <2> QED
    BY <1>7, <2>2, <2>3
<1>9. N * L \in Nat \ {0}
  BY <1>1, <1>3, Z3
<1> QED
  BY <1>2, <1>3, <1>5, <1>6, <1>8, <1>9 DEF L, R

(* Every counter lies in the rows reserved for them.                       *)
LEMMA PlaceFacts ==
    ASSUME NEW r \in Rows
    PROVE  RctPlace(r)[1] < RctRows
<1> DEFINE P == RctPerRow
           R == RctRows
           p == r \div P
<1>1. P \in Nat \ {0} /\ R \in Nat /\ NumRows <= P * R /\ NumRows \in Nat
  BY LineFacts, TrackersAssumption
<1>2. r \in Nat /\ r < NumRows
  BY <1>1 DEF Rows
<1>3. p \in Nat /\ r % P \in 0..(P - 1) /\ r = P * p + (r % P)
  BY <1>1, <1>2, DivMod
<1>4. RctPlace(r)[1] = p
  BY DEF RctPlace
<1> HIDE DEF p, P, R
<1>5. P * p \in Nat /\ P * R \in Nat
  BY <1>1, <1>3, Products
<1>6. ~(P * R <= P * p)
  BY <1>1, <1>2, <1>3, <1>5
<1>7. p < R
  BY <1>1, <1>3, <1>6, Products
<1> QED
  BY <1>4, <1>7 DEF R

(* The first counters of a group's lines are those of rows of the group.   *)
LEMMA LeadFacts ==
    ASSUME NEW g \in Nat, NEW i \in 0..(GroupRctLines - 1)
    PROVE  g * RowGroupSize + i * RctPerLine \in RowsOfGroup(g)
<1> DEFINE G == RowGroupSize
           C == CounterBits
           L == RctPerLine
           N == GroupRctLines
<1>1. G \in Nat \ {0} /\ C \in Nat \ {0} /\ L \in Nat \ {0} /\ LineBits = C * L
      /\ LineBits \in Nat \ {0}
  BY HydraAssumption, LineFacts
<1>2. N \in Nat /\ LineBits * N <= G * C
  <2> DEFINE x == G * C
             m == x % LineBits
  <2>1. x \in Nat
    BY <1>1, Products
  <2>2. N = x \div LineBits
    BY DEF GroupRctLines
  <2> HIDE DEF x, N
  <2>3. N \in Nat /\ m \in 0..(LineBits - 1) /\ x = LineBits * N + m
    BY <1>1, <2>1, <2>2, DivMod
  <2> HIDE DEF m
  <2>4. LineBits * N \in Nat
    BY <1>1, <2>3, Products
  <2>5. LineBits * N <= x
    BY <1>1, <2>3, <2>4
  <2> QED
    BY <2>3, <2>5 DEF x
<1>3. L * N <= G
  <2>1. LineBits * N = C * (L * N) /\ G * C = C * G
    BY <1>1, <1>2, Associates, Products
  <2>2. L * N \in Nat
    BY <1>1, <1>2, Products
  <2> QED
    BY <1>1, <1>2, <2>1, <2>2, Products
<1>4. i \in Nat /\ i + 1 <= N
  BY <1>2
<1> HIDE DEF G, C, L, N
<1>5. L * (i + 1) <= L * N /\ L * (i + 1) = L * i + L /\ L * i \in Nat /\ i * L = L * i
  BY <1>1, <1>2, <1>4, Z3
<1>6. i * L \in 0..(G - 1)
  BY <1>1, <1>2, <1>3, <1>5
<1>7. g * G \in Nat
  BY <1>1, Products
<1> QED
  BY <1>1, <1>6, <1>7 DEF RowsOfGroup, G, L

LEMMA WithAt ==
    ASSUME NEW e, NEW r, NEW v
    PROVE  /\ IsFunction(With(e, r, v)) /\ DOMAIN With(e, r, v) = DOMAIN e \cup {r}
           /\ With(e, r, v)[r] = v
           /\ \A x \in DOMAIN e : x # r => With(e, r, v)[x] = e[x]
BY DEF With, IsFunction

-----------------------------------------------------------------------------
(* Hydra's tables: g of groups, t of rows, c cached, q of the rows that    *)
(* hold the counters themselves; a counts activations.                     *)
GroupEntries == [group_count : 0..GroupThreshold, initialized : BOOLEAN]
Most == Larger(TrackingThreshold - 1, GroupThreshold)
Opened(g, b, x) == x \in DOMAIN g[b] /\ g[b][x].initialized

(* A group whose rows have counters of their own has had all it can have   *)
(* as a group.                                                             *)
GroupsOK(g, t) ==
    /\ IsTable(g)
    /\ \A b \in Banks : \A x \in DOMAIN g[b] :
          /\ g[b][x] \in GroupEntries
          /\ g[b][x].initialized =>
                g[b][x].group_count = GroupThreshold /\ RowsOfGroup(x) \subseteq DOMAIN t[b]

RowsOK(t) ==
    IsTable(t) /\ \A b \in Banks : \A r \in DOMAIN t[b] : r \in Rows /\ t[b][r] \in 0..Most

RctRowsOK(q) ==
    IsTable(q) /\ \A b \in Banks : \A r \in DOMAIN q[b] : q[b][r] \in 0..Most

(* A cached counter is that of the row its rank, set and tag stand for.    *)
CachedRow(g, t, k, s, u, v) ==
    \E b \in Banks, r \in Rows :
        /\ RankOf(b) = k /\ SetOf(r) = s /\ Tag(b, r) = u
        /\ Opened(g, b, GroupOf(r)) /\ v = t[b][r]

CachesOK(g, t, c) ==
    /\ c = [k \in Ranks |-> c[k]]
    /\ \A k \in Ranks : c[k] = [s \in Sets |-> c[k][s]]
    /\ \A k \in Ranks, s \in Sets :
          IsFunction(c[k][s]) /\ \A u \in DOMAIN c[k][s] : CachedRow(g, t, k, s, u, c[k][s][u])

CountOf(g, t, q, b, r) ==
    IF r < RctRows THEN IF r \in DOMAIN q[b] THEN q[b][r] ELSE 0
    ELSE IF GroupOf(r) \notin DOMAIN g[b] THEN 0
    ELSE IF g[b][GroupOf(r)].initialized THEN t[b][r]
    ELSE g[b][GroupOf(r)].group_count

ActsCovered(g, t, q, a) ==
    a \in Counts /\ \A b \in Banks, r \in Rows : a[b][r] <= CountOf(g, t, q, b, r)

HydraOK(g, t, c, q, a) ==
    GroupsOK(g, t) /\ RowsOK(t) /\ RctRowsOK(q) /\ CachesOK(g, t, c) /\ ActsCovered(g, t, q, a)

SentOK(t, requests) ==
    \A x \in requests :
        /\ x.bank \in Banks
        /\ \E r \in DOMAIN t[x.bank] :
              /\ x.entry = <<SetOf(r), Tag(x.bank, r)>>
              /\ x.place = RctPlace(r) /\ x.place[1] < RctRows

LEMMA MostFacts ==
    Most \in Nat /\ GroupThreshold \in 0..Most /\ GroupThreshold \in Nat
    /\ \A n \in Nat : n < TrackingThreshold => n \in 0..Most
BY HydraAssumption DEF Most, Larger

(* The counter of a row is where its tag is.                               *)
LEMMA CacheHit ==
    ASSUME NEW g, NEW t, NEW c, CachesOK(g, t, c), NEW b \in Banks, NEW r \in Rows,
           Tag(b, r) \in DOMAIN c[RankOf(b)][SetOf(r)]
    PROVE  c[RankOf(b)][SetOf(r)][Tag(b, r)] = t[b][r]
<1>1. RankOf(b) \in Ranks /\ SetOf(r) \in Sets
  BY BankFacts, TagFacts
<1>2. PICK d \in Banks, x \in Rows :
          /\ RankOf(d) = RankOf(b) /\ SetOf(x) = SetOf(r) /\ Tag(d, x) = Tag(b, r)
          /\ c[RankOf(b)][SetOf(r)][Tag(b, r)] = t[d][x]
  BY <1>1 DEF CachesOK, CachedRow
<1>3. d = b
  <2>1. EvictedBank(Tag(b, r), RankOf(b)) = b /\ EvictedBank(Tag(d, x), RankOf(d)) = d
    BY TagFacts
  <2> QED
    BY <1>2, <2>1
<1>4. x = r
  <2>1. EvictedRow(Tag(b, r), SetOf(r)) = r /\ EvictedRow(Tag(d, x), SetOf(x)) = x
    BY TagFacts
  <2> QED
    BY <1>2, <2>1
<1> QED
  BY <1>2, <1>3, <1>4

NoTable == [b \in Banks |-> NoEntries]
NoCache == [k \in Ranks |-> [s \in Sets |-> NoEntries]]

LEMMA NothingCounted == HydraOK(NoTable, NoTable, NoCache, NoTable, NoActs)
<1>1. IsFunction(NoEntries) /\ DOMAIN NoEntries = {}
  BY DEF IsFunction, NoEntries
<1> DEFINE E == NoEntries
<1>2. /\ NoTable = [b \in Banks |-> E] /\ NoCache = [k \in Ranks |-> [s \in Sets |-> E]]
      /\ IsFunction(E) /\ DOMAIN E = {}
  BY <1>1 DEF NoTable, NoCache
<1> HIDE DEF E
<1>3. IsTable(NoTable) /\ \A b \in Banks : DOMAIN NoTable[b] = {}
  BY <1>2 DEF IsTable
<1>4. GroupsOK(NoTable, NoTable) /\ RowsOK(NoTable) /\ RctRowsOK(NoTable)
  BY <1>3 DEF GroupsOK, RowsOK, RctRowsOK
<1>5. CachesOK(NoTable, NoTable, NoCache)
  BY <1>2 DEF CachesOK
<1>6. ActsCovered(NoTable, NoTable, NoTable, NoActs)
  BY <1>3, NoActsAt DEF ActsCovered, CountOf
<1> QED
  BY <1>4, <1>5, <1>6 DEF HydraOK

LEMMA HydraNow ==
    ASSUME HydraOK(group_count_table, row_count_table, row_count_cache, rct_count_table, acts)
    PROVE  HydraOK(GctNow, RctNow, RccNow, RctctNow, ActsNow)
<1>1. CASE PeriodEnds
  <2>1. /\ GctNow = NoTable /\ RctNow = NoTable /\ RccNow = NoCache /\ RctctNow = NoTable
        /\ ActsNow = NoActs
    BY <1>1 DEF GctNow, RctNow, RccNow, RctctNow, ActsNow, NoTable, NoCache
  <2> QED
    BY <2>1, NothingCounted
<1>2. CASE ~PeriodEnds
  BY <1>2 DEF GctNow, RctNow, RccNow, RctctNow, ActsNow
<1> QED
  BY <1>1, <1>2

(* A row that holds counters itself.                                       *)
LEMMA RctRowStep ==
    ASSUME NEW g, NEW t, NEW c, NEW q, NEW a, HydraOK(g, t, c, q, a),
           NEW b \in Banks, NEW r \in Rows, r < RctRows,
           NEW n, n = (IF r \in DOMAIN q[b] THEN q[b][r] ELSE 0) + 1
    PROVE  /\ HydraOK(g, t, c, [q EXCEPT ![b] = Emptied(q[b], r)], Refreshed(a, b, r))
           /\ n < TrackingThreshold =>
                 HydraOK(g, t, c, [q EXCEPT ![b] = With(q[b], r, n)], Acted(a, b, r))
<1>1. GroupsOK(g, t) /\ RowsOK(t) /\ CachesOK(g, t, c) /\ IsTable(q) /\ a \in Counts
  BY DEF HydraOK, RctRowsOK, ActsCovered
<1>2. \A d \in Banks : \A x \in DOMAIN q[d] : q[d][x] \in 0..Most
  BY DEF HydraOK, RctRowsOK
<1>3. \A d \in Banks, x \in Rows : a[d][x] \in Nat /\ a[d][x] <= CountOf(g, t, q, d, x)
  BY <1>1 DEF HydraOK, ActsCovered, Counts
<1>4. n \in Nat /\ a[b][r] + 1 <= n
  BY <1>2, <1>3, MostFacts DEF CountOf
<1>5. HydraOK(g, t, c, [q EXCEPT ![b] = Emptied(q[b], r)], Refreshed(a, b, r))
  <2> DEFINE e == Emptied(q[b], r)
             p == [q EXCEPT ![b] = e]
             d == Refreshed(a, b, r)
  <2>1. /\ IsFunction(e) /\ DOMAIN e = DOMAIN q[b] \ {r}
        /\ \A x \in DOMAIN q[b] : x # r => e[x] = q[b][x]
    BY EmptiedAt
  <2> HIDE DEF e
  <2>2. IsTable(p) /\ p[b] = e /\ \A k \in Banks : k # b => p[k] = q[k]
    BY <1>1, <2>1, ExceptAt
  <2>3. /\ d \in Counts
        /\ \A k \in Banks, x \in Rows : d[k][x] = IF k = b /\ x = r THEN 0 ELSE a[k][x]
    BY <1>1, RefreshedAt
  <2> HIDE DEF p, d
  <2>4. RctRowsOK(p)
    BY <1>2, <2>1, <2>2 DEF RctRowsOK
  <2>5. ActsCovered(g, t, p, d)
    BY <1>3, <2>1, <2>2, <2>3 DEF ActsCovered, CountOf
  <2> QED
    BY <1>1, <2>4, <2>5 DEF HydraOK, p, d, e
<1>6. ASSUME n < TrackingThreshold
      PROVE  HydraOK(g, t, c, [q EXCEPT ![b] = With(q[b], r, n)], Acted(a, b, r))
  <2> DEFINE e == With(q[b], r, n)
             p == [q EXCEPT ![b] = e]
             d == Acted(a, b, r)
  <2>1. /\ IsFunction(e) /\ DOMAIN e = DOMAIN q[b] \cup {r} /\ e[r] = n
        /\ \A x \in DOMAIN q[b] : x # r => e[x] = q[b][x]
    BY DEF With, IsFunction
  <2> HIDE DEF e
  <2>2. IsTable(p) /\ p[b] = e /\ \A k \in Banks : k # b => p[k] = q[k]
    BY <1>1, <2>1, ExceptAt
  <2>3. /\ d \in Counts
        /\ \A k \in Banks, x \in Rows : d[k][x] = IF k = b /\ x = r THEN a[k][x] + 1 ELSE a[k][x]
    BY <1>1, ActedAt
  <2> HIDE DEF p, d
  <2>4. n \in 0..Most
    BY <1>4, <1>6, MostFacts
  <2>5. RctRowsOK(p)
    BY <1>2, <2>1, <2>2, <2>4 DEF RctRowsOK
  <2>6. ActsCovered(g, t, p, d)
    BY <1>3, <1>4, <2>1, <2>2, <2>3 DEF ActsCovered, CountOf
  <2> QED
    BY <1>1, <2>5, <2>6 DEF HydraOK, p, d, e
<1> QED
  BY <1>5, <1>6

(* What is cached stays so as groups are opened and counters begin.        *)
LEMMA CachesKept ==
    ASSUME NEW g, NEW t, NEW c, CachesOK(g, t, c), NEW g1, NEW t1,
           \A b \in Banks, r \in Rows : Opened(g, b, GroupOf(r)) =>
              Opened(g1, b, GroupOf(r)) /\ t1[b][r] = t[b][r]
    PROVE  CachesOK(g1, t1, c)
<1>1. ASSUME NEW k \in Ranks, NEW s \in Sets, NEW u \in DOMAIN c[k][s]
      PROVE  CachedRow(g1, t1, k, s, u, c[k][s][u])
  <2>1. PICK b \in Banks, r \in Rows :
          /\ RankOf(b) = k /\ SetOf(r) = s /\ Tag(b, r) = u
          /\ Opened(g, b, GroupOf(r)) /\ c[k][s][u] = t[b][r]
    BY DEF CachesOK, CachedRow
  <2> QED
    BY <2>1 DEF CachedRow
<1> QED
  BY <1>1 DEF CachesOK

(* A row whose group counts for it.                                        *)
LEMMA GroupStep ==
    ASSUME NEW g, NEW t, NEW c, NEW q, NEW a, HydraOK(g, t, c, q, a),
           NEW b \in Banks, NEW r \in Rows, r >= RctRows,
           NEW e, e = IF GroupOf(r) \in DOMAIN g[b] THEN g[b][GroupOf(r)]
                      ELSE [group_count |-> 0, initialized |-> FALSE],
           e.group_count < GroupThreshold
    PROVE  HydraOK([g EXCEPT ![b] = With(g[b], GroupOf(r), [e EXCEPT !.group_count = @ + 1])],
                   t, c, q, Acted(a, b, r))
<1> DEFINE x == GroupOf(r)
           f == [e EXCEPT !.group_count = @ + 1]
           w == With(g[b], x, f)
           p == [g EXCEPT ![b] = w]
           d == Acted(a, b, r)
<1>1. RowsOK(t) /\ RctRowsOK(q) /\ CachesOK(g, t, c) /\ IsTable(g) /\ a \in Counts
  BY DEF HydraOK, GroupsOK, ActsCovered
<1>2. \A k \in Banks : \A y \in DOMAIN g[k] :
          /\ g[k][y] \in GroupEntries
          /\ g[k][y].initialized =>
                g[k][y].group_count = GroupThreshold /\ RowsOfGroup(y) \subseteq DOMAIN t[k]
  BY DEF HydraOK, GroupsOK
<1>3. \A k \in Banks, y \in Rows : a[k][y] \in Nat /\ a[k][y] <= CountOf(g, t, q, k, y)
  BY <1>1 DEF HydraOK, ActsCovered, Counts
<1>4. e \in GroupEntries /\ ~e.initialized
  <2>1. CASE x \in DOMAIN g[b]
    <3>1. g[b][x] \in GroupEntries /\ (g[b][x].initialized => g[b][x].group_count = GroupThreshold)
      BY <1>2, <2>1
    <3>2. GroupThreshold \in Nat
      BY MostFacts
    <3> QED
      BY <2>1, <3>1, <3>2
  <2>2. CASE x \notin DOMAIN g[b]
    BY <2>2, MostFacts DEF GroupEntries
  <2> QED
    BY <2>1, <2>2
<1>5. f \in GroupEntries /\ ~f.initialized /\ f.group_count = e.group_count + 1
  <2>1. e.group_count \in Nat /\ e.group_count + 1 \in 0..GroupThreshold
    BY <1>4, MostFacts DEF GroupEntries
  <2> QED
    BY <1>4, <2>1 DEF GroupEntries
<1> HIDE DEF f
<1>6. /\ IsFunction(w) /\ DOMAIN w = DOMAIN g[b] \cup {x} /\ w[x] = f
      /\ \A y \in DOMAIN g[b] : y # x => w[y] = g[b][y]
  <2> HIDE DEF x
  <2> QED
    BY DEF With, IsFunction
<1> HIDE DEF w
<1>7. IsTable(p) /\ p[b] = w /\ \A k \in Banks : k # b => p[k] = g[k]
  BY <1>1, <1>6, ExceptAt
<1>8. /\ d \in Counts
      /\ \A k \in Banks, y \in Rows : d[k][y] = IF k = b /\ y = r THEN a[k][y] + 1 ELSE a[k][y]
  BY <1>1, ActedAt
<1> HIDE DEF p, d
<1>9. GroupsOK(p, t)
  BY <1>2, <1>5, <1>6, <1>7 DEF GroupsOK
<1>10. \A k \in Banks, y \in Rows : Opened(g, k, GroupOf(y)) => Opened(p, k, GroupOf(y))
  <2>1. ~Opened(g, b, x)
    BY <1>4 DEF Opened
  <2> HIDE DEF x
  <2> QED
    BY <1>6, <1>7, <2>1 DEF Opened
<1>11. CachesOK(p, t, c)
  BY <1>1, <1>10, CachesKept
<1>12. ASSUME NEW k \in Banks, NEW y \in Rows
       PROVE  d[k][y] <= CountOf(p, t, q, k, y)
  <2>1. a[k][y] \in Nat /\ a[k][y] <= CountOf(g, t, q, k, y)
    BY <1>3
  <2>2. CASE k # b \/ y < RctRows
    <3>1. CountOf(p, t, q, k, y) = CountOf(g, t, q, k, y)
      BY <1>7, <2>2 DEF CountOf
    <3>2. ~(k = b /\ y = r)
      BY <2>2, LineFacts DEF Rows
    <3>3. d[k][y] = a[k][y]
      BY <1>8, <3>2
    <3> QED
      BY <2>1, <3>1, <3>3
  <2>3. CASE k = b /\ ~(y < RctRows) /\ GroupOf(y) # x
    <3>1. CountOf(p, t, q, k, y) = CountOf(g, t, q, k, y)
      BY <1>6, <1>7, <2>3 DEF CountOf
    <3>2. d[k][y] = a[k][y]
      BY <1>8, <2>3
    <3> QED
      BY <2>1, <3>1, <3>2
  <2>4. CASE k = b /\ ~(y < RctRows) /\ GroupOf(y) = x
    <3>1. CountOf(p, t, q, k, y) = e.group_count + 1
      BY <1>5, <1>6, <1>7, <2>4 DEF CountOf
    <3>2. CountOf(g, t, q, k, y) = e.group_count
      BY <1>4, <2>4 DEF CountOf
    <3>3. e.group_count \in Nat
      BY <1>4, MostFacts DEF GroupEntries
    <3>4. d[k][y] \in {a[k][y], a[k][y] + 1}
      BY <1>8
    <3> QED
      BY <2>1, <3>1, <3>2, <3>3, <3>4
  <2> QED
    BY <2>2, <2>3, <2>4
<1> QED
  BY <1>1, <1>8, <1>9, <1>11, <1>12 DEF HydraOK, ActsCovered, p, d, w, f

(* The rows of a group get counters F of their own.                        *)
EntryOf(g, b, r) ==
    IF GroupOf(r) \in DOMAIN g[b] THEN g[b][GroupOf(r)]
    ELSE [group_count |-> 0, initialized |-> FALSE]

CountersOf(F, g, t, b, r) ==
    LET e == EntryOf(g, b, r) IN
    /\ IsFunction(F)
    /\ DOMAIN F = IF e.initialized THEN DOMAIN t[b] ELSE DOMAIN t[b] \cup RowsOfGroup(GroupOf(r))
    /\ \A x \in DOMAIN F :
          F[x] = IF ~e.initialized /\ x \in RowsOfGroup(GroupOf(r)) THEN GroupThreshold ELSE t[b][x]

LEMMA Opening ==
    ASSUME NEW g, NEW t, NEW c, NEW q, NEW a, HydraOK(g, t, c, q, a),
           NEW b \in Banks, NEW r \in Rows,
           EntryOf(g, b, r).group_count >= GroupThreshold, NEW F, CountersOf(F, g, t, b, r)
    PROVE  LET p == [g EXCEPT ![b] = With(g[b], GroupOf(r),
                                          [EntryOf(g, b, r) EXCEPT !.initialized = TRUE])]
           IN  HydraOK(p, [t EXCEPT ![b] = F], c, q, a) /\ Opened(p, b, GroupOf(r))
<1> DEFINE G == GroupOf(r)
           e == EntryOf(g, b, r)
           f == [e EXCEPT !.initialized = TRUE]
           w == With(g[b], G, f)
           p == [g EXCEPT ![b] = w]
           u == [t EXCEPT ![b] = F]
<1>1. RctRowsOK(q) /\ CachesOK(g, t, c) /\ IsTable(g) /\ IsTable(t) /\ a \in Counts
  BY DEF HydraOK, GroupsOK, RowsOK, ActsCovered
<1>2. \A k \in Banks : \A y \in DOMAIN g[k] :
          /\ g[k][y] \in GroupEntries
          /\ g[k][y].initialized =>
                g[k][y].group_count = GroupThreshold /\ RowsOfGroup(y) \subseteq DOMAIN t[k]
  BY DEF HydraOK, GroupsOK
<1>3. \A k \in Banks, y \in Rows : a[k][y] \in Nat /\ a[k][y] <= CountOf(g, t, q, k, y)
  BY <1>1 DEF HydraOK, ActsCovered, Counts
<1>4. \A k \in Banks : \A y \in DOMAIN t[k] : y \in Rows /\ t[k][y] \in 0..Most
  BY DEF HydraOK, RowsOK
<1>5. e \in GroupEntries
  BY <1>2, MostFacts DEF GroupEntries, EntryOf
<1>6. f \in GroupEntries /\ f.initialized /\ f.group_count = GroupThreshold
  <2>1. e.group_count = GroupThreshold
    BY <1>5, MostFacts DEF GroupEntries
  <2> QED
    BY <1>5, <2>1 DEF GroupEntries
<1>7. /\ e.initialized <=> Opened(g, b, G)
      /\ e.group_count = IF G \in DOMAIN g[b] THEN g[b][G].group_count ELSE 0
  BY DEF Opened, EntryOf
<1>9. /\ IsFunction(F)
      /\ DOMAIN F = IF e.initialized THEN DOMAIN t[b] ELSE DOMAIN t[b] \cup RowsOfGroup(G)
      /\ \A x \in DOMAIN F :
            F[x] = IF ~e.initialized /\ x \in RowsOfGroup(G) THEN GroupThreshold ELSE t[b][x]
  BY DEF CountersOf
<1> HIDE DEF f, e
<1>8. /\ IsFunction(w) /\ DOMAIN w = DOMAIN g[b] \cup {G} /\ w[G] = f
      /\ \A y \in DOMAIN g[b] : y # G => w[y] = g[b][y]
  <2> HIDE DEF G
  <2> QED
    BY DEF With, IsFunction
<1> HIDE DEF w
<1>10. IsTable(p) /\ p[b] = w /\ \A k \in Banks : k # b => p[k] = g[k]
  BY <1>1, <1>8, ExceptAt
<1>11. IsTable(u) /\ u[b] = F /\ \A k \in Banks : k # b => u[k] = t[k]
  BY <1>1, <1>9, ExceptAt
<1> HIDE DEF p, u
<1>12. /\ G \in Nat /\ RowsOfGroup(G) \subseteq Rows
       /\ \A x \in RowsOfGroup(G) : GroupOf(x) = G
       /\ \A x \in Rows : x \in RowsOfGroup(GroupOf(x))
  BY GroupFacts
<1>13. RowsOK(u)
  BY <1>4, <1>9, <1>11, <1>12, MostFacts DEF RowsOK
<1>14. /\ DOMAIN t[b] \subseteq DOMAIN u[b] /\ RowsOfGroup(G) \subseteq DOMAIN u[b]
  <2>1. e.initialized => RowsOfGroup(G) \subseteq DOMAIN t[b]
    BY <1>2, <1>7 DEF Opened
  <2> QED
    BY <1>9, <1>11, <2>1
<1>15. GroupsOK(p, u)
  <2>1. ASSUME NEW k \in Banks, NEW y \in DOMAIN p[k]
        PROVE  /\ p[k][y] \in GroupEntries
               /\ p[k][y].initialized =>
                     p[k][y].group_count = GroupThreshold /\ RowsOfGroup(y) \subseteq DOMAIN u[k]
    <3>1. CASE k = b /\ y = G
      BY <1>6, <1>8, <1>10, <1>14, <3>1
    <3>2. CASE k = b /\ y # G
      BY <1>2, <1>8, <1>10, <1>14, <3>2
    <3>3. CASE k # b
      BY <1>2, <1>10, <1>11, <3>3
    <3> QED
      BY <3>1, <3>2, <3>3
  <2> QED
    BY <1>10, <2>1 DEF GroupsOK
<1>16. Opened(p, b, G)
  BY <1>6, <1>8, <1>10 DEF Opened
<1>17. ASSUME NEW k \in Banks, NEW y \in Rows, Opened(g, k, GroupOf(y))
       PROVE  Opened(p, k, GroupOf(y)) /\ u[k][y] = t[k][y]
  <2>1. CASE k # b
    BY <1>10, <1>11, <1>17, <2>1 DEF Opened
  <2>2. CASE k = b
    <3>1. y \in DOMAIN t[b]
      BY <1>2, <1>12, <1>17, <2>2 DEF Opened
    <3>2. Opened(p, b, GroupOf(y))
      BY <1>6, <1>8, <1>10, <1>17, <2>2 DEF Opened
    <3>3. e.initialized \/ y \notin RowsOfGroup(G)
      BY <1>7, <1>12, <1>17, <2>2
    <3>4. y \in DOMAIN F
      BY <1>11, <1>14, <3>1
    <3>5. F[y] = t[b][y]
      BY <1>9, <3>3, <3>4
    <3> QED
      BY <1>11, <2>2, <3>2, <3>5
  <2> QED
    BY <2>1, <2>2
<1>18. CachesOK(p, u, c)
  <2>1. \A k \in Banks, y \in Rows : Opened(g, k, GroupOf(y)) =>
            Opened(p, k, GroupOf(y)) /\ u[k][y] = t[k][y]
    BY <1>17
  <2> QED
    BY <1>1, <2>1, CachesKept
<1>19. ASSUME NEW k \in Banks, NEW y \in Rows
       PROVE  a[k][y] <= CountOf(p, u, q, k, y)
  <2>1. a[k][y] \in Nat /\ a[k][y] <= CountOf(g, t, q, k, y)
    BY <1>3
  <2>2. CASE k # b \/ y < RctRows
    BY <1>10, <1>11, <2>1, <2>2 DEF CountOf
  <2>3. CASE k = b /\ ~(y < RctRows) /\ Opened(g, b, GroupOf(y))
    <3>1. CountOf(g, t, q, k, y) = t[k][y]
      BY <2>3 DEF CountOf, Opened
    <3>2. CountOf(p, u, q, k, y) = u[k][y]
      BY <1>17, <2>3 DEF CountOf, Opened
    <3> QED
      BY <1>17, <2>1, <2>3, <3>1, <3>2
  <2>4. CASE k = b /\ ~(y < RctRows) /\ ~Opened(g, b, GroupOf(y)) /\ GroupOf(y) # G
    <3>1. CountOf(p, u, q, k, y) = CountOf(g, t, q, k, y)
      BY <1>8, <1>10, <2>4 DEF CountOf, Opened
    <3> QED
      BY <2>1, <3>1
  <2>5. CASE k = b /\ ~(y < RctRows) /\ ~Opened(g, b, GroupOf(y)) /\ GroupOf(y) = G
    <3>1. CountOf(g, t, q, k, y) = e.group_count
      BY <1>7, <2>5 DEF CountOf, Opened
    <3>2. CountOf(p, u, q, k, y) = u[k][y]
      BY <1>16, <2>5 DEF CountOf, Opened
    <3>3. y \in RowsOfGroup(G) /\ ~e.initialized
      BY <1>7, <1>12, <2>5
    <3>4. u[k][y] = GroupThreshold
      BY <1>9, <1>11, <1>14, <2>5, <3>3
    <3>5. e.group_count \in 0..GroupThreshold
      BY <1>5 DEF GroupEntries
    <3> QED
      BY <2>1, <3>1, <3>2, <3>4, <3>5, MostFacts
  <2> QED
    BY <2>2, <2>3, <2>4, <2>5
<1> QED
  BY <1>1, <1>13, <1>15, <1>16, <1>18, <1>19 DEF HydraOK, ActsCovered, p, u, w, f, e

(* The caches when the counter of a row is v, and some have made room.     *)
Recached(c, b, r, gone, v) ==
    LET old == c[RankOf(b)][SetOf(r)] IN
    [c EXCEPT ![RankOf(b)][SetOf(r)] = With([x \in DOMAIN old \ gone |-> old[x]], Tag(b, r), v)]

(* A row that counts for itself: v is what becomes of its counter, and d   *)
(* of its activations.                                                     *)
LEMMA RowStep ==
    ASSUME NEW g, NEW t, NEW c, NEW q, NEW a, HydraOK(g, t, c, q, a),
           NEW b \in Banks, NEW r \in Rows, ~(r < RctRows), Opened(g, b, GroupOf(r)),
           NEW v \in 0..Most, NEW d \in Counts,
           \A k \in Banks, y \in Rows : k # b \/ y # r => d[k][y] = a[k][y],
           d[b][r] <= v,
           NEW gone
    PROVE  HydraOK(g, [t EXCEPT ![b] = With(t[b], r, v)],
                   Recached(c, b, r, gone, v), q, d)
<1> DEFINE w == With(t[b], r, v)
           K == RankOf(b)
           S == SetOf(r)
           T == Tag(b, r)
           old == [x \in DOMAIN c[K][S] \ gone |-> c[K][S][x]]
           new == With(old, T, v)
           u == [t EXCEPT ![b] = w]
           h == [c EXCEPT ![K][S] = new]
<1>1. RctRowsOK(q) /\ CachesOK(g, t, c) /\ IsTable(g) /\ IsTable(t)
  BY DEF HydraOK, GroupsOK, RowsOK
<1>2. /\ IsFunction(w) /\ DOMAIN w = DOMAIN t[b] \cup {r} /\ w[r] = v
      /\ \A y \in DOMAIN t[b] : y # r => w[y] = t[b][y]
  BY DEF With, IsFunction
<1> HIDE DEF w
<1>3. IsTable(u) /\ u[b] = w /\ \A k \in Banks : k # b => u[k] = t[k]
  BY <1>1, <1>2, ExceptAt
<1> HIDE DEF u
<1>4. RowsOK(u)
  BY <1>2, <1>3 DEF HydraOK, RowsOK
<1>5. GroupsOK(g, u)
  BY <1>2, <1>3 DEF HydraOK, GroupsOK
<1>6. K \in Ranks /\ S \in Sets
  BY BankFacts, TagFacts
<1>7. ASSUME NEW k \in Banks, NEW y \in Rows, Opened(g, k, GroupOf(y)), k # b \/ y # r
      PROVE  u[k][y] = t[k][y]
  <2>1. y \in DOMAIN t[k]
    BY <1>7, GroupFacts DEF HydraOK, GroupsOK, Opened
  <2> QED
    BY <1>2, <1>3, <1>7, <2>1
<1>8. /\ DOMAIN old = DOMAIN c[K][S] \ gone
      /\ \A x \in DOMAIN old : old[x] = c[K][S][x]
  OBVIOUS
<1> HIDE DEF old
<1>10. /\ IsFunction(new) /\ DOMAIN new = DOMAIN old \cup {T} /\ new[T] = v
       /\ \A x \in DOMAIN old : x # T => new[x] = old[x]
  <2> HIDE DEF T
  <2> QED
    BY DEF With, IsFunction
<1> HIDE DEF new, K, S, T
<1>11. c = [k \in Ranks |-> c[k]] /\ \A k \in Ranks : c[k] = [s \in Sets |-> c[k][s]]
  BY <1>1 DEF CachesOK
<1>12. /\ h = [k \in Ranks |-> h[k]] /\ \A k \in Ranks : h[k] = [s \in Sets |-> h[k][s]]
       /\ h[K][S] = new
       /\ \A k \in Ranks, s \in Sets : k # K \/ s # S => h[k][s] = c[k][s]
  <2> DEFINE m == [c[K] EXCEPT ![S] = new]
  <2>1. /\ m = [s \in Sets |-> m[s]] /\ m[S] = new
        /\ \A s \in Sets : s # S => m[s] = c[K][s]
    BY <1>6, <1>11
  <2>2. h = [c EXCEPT ![K] = m]
    OBVIOUS
  <2> HIDE DEF m, h
  <2>3. h = [k \in Ranks |-> h[k]] /\ h[K] = m /\ \A k \in Ranks : k # K => h[k] = c[k]
    BY <1>6, <1>11, <2>2
  <2> QED
    BY <1>11, <2>1, <2>3
<1> HIDE DEF h
<1>13. ASSUME NEW k \in Ranks, NEW s \in Sets, NEW x \in DOMAIN c[k][s],
              ~(k = K /\ s = S /\ x = T)
       PROVE  CachedRow(g, u, k, s, x, c[k][s][x])
  <2>1. PICK l \in Banks, y \in Rows :
          /\ RankOf(l) = k /\ SetOf(y) = s /\ Tag(l, y) = x
          /\ Opened(g, l, GroupOf(y)) /\ c[k][s][x] = t[l][y]
    BY <1>1 DEF CachesOK, CachedRow
  <2>2. l # b \/ y # r
    BY <1>13, <2>1 DEF K, S, T
  <2> QED
    BY <1>7, <2>1, <2>2 DEF CachedRow
<1>14. CachedRow(g, u, K, S, T, v)
  BY <1>2, <1>3 DEF CachedRow, K, S, T
<1>15. \A k \in Ranks, s \in Sets : IsFunction(c[k][s])
  BY <1>1 DEF CachesOK
<1>16. ASSUME NEW k \in Ranks, NEW s \in Sets
       PROVE  /\ IsFunction(h[k][s])
              /\ \A x \in DOMAIN h[k][s] : CachedRow(g, u, k, s, x, h[k][s][x])
  <2>1. CASE k = K /\ s = S
    <3>1. h[k][s] = new
      BY <1>12, <2>1
    <3>2. ASSUME NEW x \in DOMAIN new, x # T
          PROVE  CachedRow(g, u, K, S, x, new[x])
      <4>1. x \in DOMAIN c[K][S] /\ new[x] = c[K][S][x]
        BY <1>8, <1>10, <3>2
      <4> QED
        BY <1>6, <1>13, <3>2, <4>1
    <3>3. \A x \in DOMAIN new : CachedRow(g, u, K, S, x, new[x])
      BY <1>10, <1>14, <3>2
    <3> QED
      BY <1>10, <2>1, <3>1, <3>3
  <2>2. CASE k # K \/ s # S
    BY <1>12, <1>13, <1>15, <2>2
  <2> QED
    BY <2>1, <2>2
<1>17. CachesOK(g, u, h)
  BY <1>12, <1>16 DEF CachesOK
<1>18. ASSUME NEW k \in Banks, NEW y \in Rows
       PROVE  d[k][y] <= CountOf(g, u, q, k, y)
  <2>1. CASE k = b /\ y = r
    BY <1>2, <1>3, <2>1 DEF CountOf, Opened
  <2>2. CASE k # b \/ y # r
    <3>1. d[k][y] <= CountOf(g, t, q, k, y)
      BY <2>2 DEF HydraOK, ActsCovered
    <3>2. CountOf(g, u, q, k, y) = CountOf(g, t, q, k, y)
      BY <1>7, <2>2 DEF CountOf, Opened
    <3> QED
      BY <3>1, <3>2
  <2> QED
    BY <2>1, <2>2
<1> QED
  BY <1>1, <1>4, <1>5, <1>17, <1>18 DEF HydraOK, ActsCovered, Recached, u, h, w, new, old, K, S, T

(* Requests are for counters in the table t.                               *)
LEMMA RequestFacts ==
    ASSUME NEW t, NEW b \in Banks, NEW r \in Rows, r \in DOMAIN t[b], NEW y \in {"read", "write"}
    PROVE  SentOK(t, {Request(y, b, RctPlace(r), SetOf(r), Tag(b, r))})
<1> DEFINE x == Request(y, b, RctPlace(r), SetOf(r), Tag(b, r))
<1>1. x.bank = b /\ x.entry = <<SetOf(r), Tag(b, r)>> /\ x.place = RctPlace(r)
  BY DEF Request
<1>2. RctPlace(r)[1] < RctRows
  BY PlaceFacts
<1> HIDE DEF x
<1>3. SentOK(t, {x})
  BY <1>1, <1>2 DEF SentOK
<1> QED
  BY <1>3 DEF x

LEMMA CountRowStep ==
    ASSUME HydraOK(GctNow, RctNow, RccNow, RctctNow, ActsNow),
           NEW b \in Banks, NEW r \in Rows, CountRow(b, r)
    PROVE  /\ HydraOK(group_count_table', row_count_table', row_count_cache', rct_count_table', acts')
           /\ SentOK(row_count_table', sent')
<1> DEFINE g == GctNow
           t == RctNow
           c == RccNow
           q == RctctNow
           a == ActsNow
           e == EntryOf(g, b, r)
           F == InitializedRct(b, r)
           p == [g EXCEPT ![b] = With(g[b], GroupOf(r), [e EXCEPT !.initialized = TRUE])]
           u == [t EXCEPT ![b] = F]
           cache == c[RankOf(b)][SetOf(r)]
           hit == Tag(b, r) \in DOMAIN cache
           count == (IF hit THEN cache[Tag(b, r)] ELSE F[r]) + 1
           due == count >= TrackingThreshold
           evicted == IF hit \/ Cardinality(DOMAIN cache) # RccWays THEN {{}}
                      ELSE {{k} : k \in Victims(cache)}
           v == IF due THEN 0 ELSE count
           d == IF due THEN Refreshed(a, b, r) ELSE Acted(a, b, r)
           new(gone) == With([k \in DOMAIN cache \ gone |-> cache[k]], Tag(b, r), v)
           asked(gone) ==
               InitWrites(b, r) \cup {WriteBack(RankOf(b), SetOf(r), k) : k \in gone}
                   \cup (IF hit THEN {}
                         ELSE {Request("read", b, RctPlace(r), SetOf(r), Tag(b, r))})
<1>1. GroupEntry(b, r) = e
  BY DEF GroupEntry, EntryOf
<1>2. /\ ~(r < RctRows) /\ e.group_count >= GroupThreshold
      /\ group_count_table' = p /\ rct_count_table' = q /\ acts' = d
      /\ row_count_table' = [t EXCEPT ![b] = With(F, r, IF due THEN 0 ELSE F[r] + 1)]
  <2>1. r >= RctRows
    BY DEF CountRow
  <2>2. ~(r < RctRows)
    BY <2>1, LineFacts DEF Rows
  <2> QED
    BY <1>1, <2>2 DEF CountRow
<1>3. PICK gone \in evicted :
          /\ row_count_cache' = [c EXCEPT ![RankOf(b)][SetOf(r)] = new(gone)]
          /\ sent' = asked(gone)
  BY DEF CountRow
<1>4. gone \subseteq DOMAIN cache
  BY <1>3 DEF Victims
<1>5. IsTable(g) /\ IsTable(t) /\ a \in Counts
  BY DEF HydraOK, GroupsOK, RowsOK, ActsCovered
<1>6. CountersOf(F, g, t, b, r)
  <2>1. IsFunction(t[b])
    BY <1>5 DEF IsTable
  <2>2. F = IF e.initialized THEN t[b]
            ELSE [x \in DOMAIN t[b] \cup RowsOfGroup(GroupOf(r)) |->
                     IF x \in RowsOfGroup(GroupOf(r)) THEN GroupThreshold ELSE t[b][x]]
    BY <1>1 DEF InitializedRct
  <2> HIDE DEF g, t, e, F
  <2>3. IsFunction(F)
    BY <2>1, <2>2 DEF IsFunction
  <2>4. DOMAIN F = IF e.initialized THEN DOMAIN t[b] ELSE DOMAIN t[b] \cup RowsOfGroup(GroupOf(r))
    BY <2>2
  <2>5. \A x \in DOMAIN F :
            F[x] = IF ~e.initialized /\ x \in RowsOfGroup(GroupOf(r)) THEN GroupThreshold
                   ELSE t[b][x]
    BY <2>2
  <2> QED
    BY <2>3, <2>4, <2>5 DEF CountersOf, e
<1>7. InitWrites(b, r) = IF e.initialized THEN {}
          ELSE {Request("write", b, RctPlace(x), SetOf(x), Tag(b, x)) :
                   x \in {GroupOf(r) * RowGroupSize + i * RctPerLine : i \in 0..(GroupRctLines - 1)}}
  BY <1>1 DEF InitWrites
<1>8. HydraOK(g, t, c, q, a)
  OBVIOUS
<1> HIDE DEF g, t, c, q, a, F
<1>9. HydraOK(p, u, c, q, a) /\ Opened(p, b, GroupOf(r))
  BY <1>2, <1>6, <1>8, Opening
<1>10. u[b] = F
  BY <1>5 DEF IsTable
<1>11. RowsOfGroup(GroupOf(r)) \subseteq DOMAIN F /\ r \in DOMAIN F /\ F[r] \in 0..Most
  <2> HIDE DEF p, u
  <2>1. RowsOfGroup(GroupOf(r)) \subseteq DOMAIN u[b] /\ r \in RowsOfGroup(GroupOf(r))
    BY <1>9, GroupFacts DEF HydraOK, GroupsOK, Opened
  <2>2. u[b][r] \in 0..Most
    BY <1>9, <2>1 DEF HydraOK, RowsOK
  <2> QED
    BY <1>10, <2>1, <2>2
<1>12. count = F[r] + 1
  <2>1. CASE hit
    <3>1. CachesOK(p, u, c)
      BY <1>9 DEF HydraOK
    <3> HIDE DEF p, u
    <3>2. cache[Tag(b, r)] = u[b][r]
      BY <2>1, <3>1, CacheHit
    <3> QED
      BY <1>10, <2>1, <3>2
  <2>2. CASE ~hit
    BY <2>2
  <2> QED
    BY <2>1, <2>2
<1> HIDE DEF count
<1>13. v \in 0..Most
  BY <1>11, <1>12, MostFacts, HydraAssumption
<1>14. row_count_table' = [u EXCEPT ![b] = With(u[b], r, v)]
  <2>1. row_count_table' = [t EXCEPT ![b] = With(F, r, v)]
    BY <1>2, <1>12
  <2> HIDE DEF v
  <2>2. [u EXCEPT ![b] = With(F, r, v)] = [t EXCEPT ![b] = With(F, r, v)]
    BY <1>5 DEF IsTable
  <2> QED
    BY <1>10, <2>1, <2>2
<1>15. /\ d \in Counts
       /\ \A k \in Banks, y \in Rows : k # b \/ y # r => d[k][y] = a[k][y]
       /\ d[b][r] <= v
  <2>1. a[b][r] \in Nat /\ a[b][r] <= F[r]
    <3> HIDE DEF p, u
    <3>1. CountOf(p, u, q, b, r) = F[r]
      BY <1>2, <1>9, <1>10 DEF CountOf, Opened
    <3> QED
      BY <1>5, <1>9, <3>1 DEF HydraOK, ActsCovered, Counts
  <2>2. CASE due
    BY <1>5, <2>2, RefreshedAt
  <2>3. CASE ~due
    <3>1. d = Acted(a, b, r) /\ v = F[r] + 1
      BY <1>12, <2>3
    <3>2. /\ d \in Counts /\ d[b][r] = a[b][r] + 1
          /\ \A k \in Banks, y \in Rows : k # b \/ y # r => d[k][y] = a[k][y]
      BY <1>5, <3>1, ActedAt
    <3> QED
      BY <1>11, <2>1, <3>1, <3>2
  <2> QED
    BY <2>2, <2>3
<1> DEFINE w == [u EXCEPT ![b] = With(u[b], r, v)]
           h == Recached(c, b, r, gone, v)
<1>16. HydraOK(p, w, h, q, d)
  <2>1. ~(r < RctRows)
    BY <1>2
  <2> HIDE DEF v, d, p, u
  <2> QED
    BY <1>9, <1>13, <1>15, <2>1, RowStep
<1>17. w = row_count_table' /\ h = row_count_cache'
  BY <1>3, <1>14 DEF Recached
<1>18. /\ DOMAIN w[b] = DOMAIN F \cup {r}
       /\ \A k \in Banks : k # b => w[k] = t[k]
       /\ DOMAIN t[b] \subseteq DOMAIN w[b]
  <2>1. IsTable(u)
    BY <1>9 DEF HydraOK, RowsOK
  <2>2. \A k \in Banks : k # b => u[k] = t[k]
    BY <1>5 DEF IsTable
  <2>3. DOMAIN t[b] \subseteq DOMAIN F
    BY <1>6 DEF CountersOf
  <2> HIDE DEF u, v
  <2>4. w[b] = With(F, r, v) /\ \A k \in Banks : k # b => w[k] = u[k]
    BY <1>10, <2>1 DEF IsTable
  <2>5. DOMAIN With(F, r, v) = DOMAIN F \cup {r}
    BY DEF With
  <2> QED
    BY <2>2, <2>3, <2>4, <2>5
<1> HIDE DEF w, h, p, u, v, d, e
<1>19. ASSUME NEW x \in Rows, x \in DOMAIN F, NEW y \in {"read", "write"}
       PROVE  SentOK(w, {Request(y, b, RctPlace(x), SetOf(x), Tag(b, x))})
  BY <1>18, <1>19, RequestFacts
<1>20. SentOK(w, InitWrites(b, r))
  <2> DEFINE lead(i) == GroupOf(r) * RowGroupSize + i * RctPerLine
             ask(x) == Request("write", b, RctPlace(x), SetOf(x), Tag(b, x))
  <2>1. ASSUME NEW i \in 0..(GroupRctLines - 1)
        PROVE  SentOK(w, {ask(lead(i))})
    <3>1. lead(i) \in RowsOfGroup(GroupOf(r)) /\ RowsOfGroup(GroupOf(r)) \subseteq Rows
      BY GroupFacts, LeadFacts
    <3> HIDE DEF lead
    <3> QED
      BY <1>11, <1>19, <3>1
  <2>2. \A x \in InitWrites(b, r) : \E i \in 0..(GroupRctLines - 1) : x = ask(lead(i))
    BY <1>7
  <2> HIDE DEF ask, lead
  <2> QED
    BY <2>1, <2>2 DEF SentOK
<1>21. ASSUME NEW k \in gone
       PROVE  SentOK(w, {WriteBack(RankOf(b), SetOf(r), k)})
  <2>1. RankOf(b) \in Ranks /\ SetOf(r) \in Sets /\ k \in DOMAIN cache
    BY <1>4, BankFacts, TagFacts
  <2>2. CachesOK(g, t, c)
    BY <1>8 DEF HydraOK
  <2>3. PICK l \in Banks, x \in Rows :
          RankOf(l) = RankOf(b) /\ SetOf(x) = SetOf(r) /\ Tag(l, x) = k /\ Opened(g, l, GroupOf(x))
    BY <2>1, <2>2 DEF CachesOK, CachedRow
  <2>4. x \in DOMAIN t[l]
    BY <1>8, <2>3, GroupFacts DEF HydraOK, GroupsOK, Opened
  <2>5. x \in DOMAIN w[l]
    BY <1>18, <2>4
  <2>6. WriteBack(RankOf(b), SetOf(r), k) = Request("write", l, RctPlace(x), SetOf(x), Tag(l, x))
    <3>1. EvictedRow(k, SetOf(r)) = x /\ EvictedBank(k, RankOf(b)) = l
      BY <2>3, TagFacts
    <3> QED
      BY <2>3, <3>1 DEF WriteBack
  <2>7. SentOK(w, {Request("write", l, RctPlace(x), SetOf(x), Tag(l, x))})
    BY <2>5, RequestFacts
  <2> QED
    BY <2>6, <2>7
<1>22. SentOK(w, {Request("read", b, RctPlace(r), SetOf(r), Tag(b, r))})
  BY <1>11, <1>19
<1>23. SentOK(w, asked(gone))
  BY <1>20, <1>21, <1>22 DEF SentOK
<1> QED
  BY <1>2, <1>3, <1>16, <1>17, <1>23

-----------------------------------------------------------------------------
(* The invariant of a channel with Hydra.                                  *)
HydraInv ==
    /\ plugin = "Hydra"
    /\ HydraOK(group_count_table, row_count_table, row_count_cache, rct_count_table, acts)
    /\ SentOK(row_count_table, sent)

LEMMA InitHydra == HydraInit => HydraInv
<1> SUFFICES ASSUME HydraInit PROVE HydraInv
  OBVIOUS
<1>1. /\ group_count_table = NoTable /\ row_count_table = NoTable /\ row_count_cache = NoCache
      /\ rct_count_table = NoTable /\ acts = NoActs /\ sent = {} /\ plugin = "Hydra"
  BY DEF HydraInit, NoTable, NoCache
<1> QED
  BY <1>1, NothingCounted DEF HydraInv, SentOK

LEMMA StepHydra == HydraInv /\ [HydraNext]_<<trackers, hydra>> => HydraInv'
<1> SUFFICES ASSUME HydraInv, [HydraNext]_<<trackers, hydra>>
             PROVE  HydraInv'
  OBVIOUS
<1>1. CASE UNCHANGED <<trackers, hydra>>
  BY <1>1 DEF HydraInv, trackers, hydra
<1>2. CASE HydraNext
  <2>1. HydraOK(GctNow, RctNow, RccNow, RctctNow, ActsNow)
    BY HydraNow DEF HydraInv
  <2>2. plugin' = "Hydra"
    BY <1>2 DEF HydraNext, HydraInv
  <2>3. CASE HydraIdle
    BY <2>1, <2>2, <2>3 DEF HydraIdle, HydraInv, SentOK
  <2>4. ASSUME NEW h \in Hot["Hydra"]
        PROVE  h[1] \in Banks /\ h[2] \in Rows
    BY TrackersAssumption, HydraAssumption DEF Banks, Rows
  <2>5. ASSUME NEW b \in Banks, NEW r \in Rows, CountRctRow(b, r)
        PROVE  HydraInv'
    <3> DEFINE q == RctctNow
               n == (IF r \in DOMAIN q[b] THEN q[b][r] ELSE 0) + 1
    <3>1. /\ r < RctRows /\ sent' = {}
          /\ group_count_table' = GctNow /\ row_count_table' = RctNow /\ row_count_cache' = RccNow
          /\ \/ rct_count_table' = [q EXCEPT ![b] = Emptied(q[b], r)]
                /\ acts' = Refreshed(ActsNow, b, r)
             \/ n < TrackingThreshold /\ rct_count_table' = [q EXCEPT ![b] = With(q[b], r, n)]
                /\ acts' = Acted(ActsNow, b, r)
      BY <2>5 DEF CountRctRow
    <3>2. /\ HydraOK(GctNow, RctNow, RccNow, [q EXCEPT ![b] = Emptied(q[b], r)],
                     Refreshed(ActsNow, b, r))
          /\ n < TrackingThreshold =>
                HydraOK(GctNow, RctNow, RccNow, [q EXCEPT ![b] = With(q[b], r, n)],
                        Acted(ActsNow, b, r))
      <4>1. PICK m : m = n
        OBVIOUS
      <4>2. HydraOK(GctNow, RctNow, RccNow, q, ActsNow)
        BY <2>1
      <4> HIDE DEF q
      <4> QED
        BY <3>1, <4>1, <4>2, RctRowStep
    <3>3. HydraOK(group_count_table', row_count_table', row_count_cache', rct_count_table', acts')
      BY <3>1, <3>2
    <3> QED
      BY <2>2, <3>1, <3>3 DEF HydraInv, SentOK
  <2>6. ASSUME NEW b \in Banks, NEW r \in Rows, CountGroup(b, r)
        PROVE  HydraInv'
    <3>1. PICK e : e = GroupEntry(b, r)
      OBVIOUS
    <3>2. /\ r >= RctRows /\ e.group_count < GroupThreshold /\ sent' = {}
          /\ group_count_table' = [GctNow EXCEPT ![b] =
                With(GctNow[b], GroupOf(r), [e EXCEPT !.group_count = @ + 1])]
          /\ row_count_table' = RctNow /\ row_count_cache' = RccNow /\ rct_count_table' = RctctNow
          /\ acts' = Acted(ActsNow, b, r)
      BY <2>6, <3>1 DEF CountGroup
    <3>3. HydraOK([GctNow EXCEPT ![b] =
                      With(GctNow[b], GroupOf(r), [e EXCEPT !.group_count = @ + 1])],
                  RctNow, RccNow, RctctNow, Acted(ActsNow, b, r))
      <4>1. e = IF GroupOf(r) \in DOMAIN GctNow[b] THEN GctNow[b][GroupOf(r)]
                ELSE [group_count |-> 0, initialized |-> FALSE]
        BY <3>1 DEF GroupEntry
      <4> QED
        BY <2>1, <3>2, <4>1, GroupStep
    <3>4. HydraOK(group_count_table', row_count_table', row_count_cache', rct_count_table', acts')
      BY <3>2, <3>3
    <3> QED
      BY <2>2, <3>2, <3>4 DEF HydraInv, SentOK
  <2>7. ASSUME NEW b \in Banks, NEW r \in Rows, CountRow(b, r)
        PROVE  HydraInv'
    BY <2>1, <2>2, <2>7, CountRowStep DEF HydraInv
  <2> QED
    BY <1>2, <2>3, <2>4, <2>5, <2>6, <2>7 DEF HydraNext
<1> QED
  BY <1>1, <1>2

LEMMA HydraInvHolds == HydraSpec => []HydraInv
BY InitHydra, StepHydra, PTL DEF HydraSpec

(* A channel with Hydra counts every activation of a row, in its group, in *)
(* the table, in the cache or among the rows of the table, and no row      *)
(* reaches the tracking threshold (hydra.cpp:308-511).                     *)
THEOREM HydraCounts == HydraSpec => []HydraInTime
<1>1. HydraInv => HydraInTime
  <2> SUFFICES ASSUME HydraInv, NEW b \in Banks, NEW r \in Rows
               PROVE  acts[b][r] <= HydraCounted(b, r) /\ acts[b][r] <= Most
    BY DEF HydraInTime, Most
  <2>1. CountOf(group_count_table, row_count_table, rct_count_table, b, r) = HydraCounted(b, r)
    BY DEF CountOf, HydraCounted
  <2>2. acts[b][r] \in Nat /\ acts[b][r] <= HydraCounted(b, r)
    BY <2>1 DEF HydraInv, HydraOK, ActsCovered, Counts
  <2>3. HydraCounted(b, r) \in 0..Most
    <3> DEFINE G == GroupOf(r)
    <3>1. CASE r < RctRows
      BY <3>1, MostFacts DEF HydraCounted, HydraInv, HydraOK, RctRowsOK
    <3>2. CASE ~(r < RctRows) /\ G \notin DOMAIN group_count_table[b]
      BY <3>2, MostFacts DEF HydraCounted
    <3>3. CASE ~(r < RctRows) /\ G \in DOMAIN group_count_table[b]
               /\ group_count_table[b][G].initialized
      <4>1. r \in DOMAIN row_count_table[b]
        BY <3>3, GroupFacts DEF HydraInv, HydraOK, GroupsOK
      <4>2. row_count_table[b][r] \in 0..Most
        BY <4>1 DEF HydraInv, HydraOK, RowsOK
      <4> QED
        BY <3>3, <4>2 DEF HydraCounted
    <3>4. CASE ~(r < RctRows) /\ G \in DOMAIN group_count_table[b]
               /\ ~group_count_table[b][G].initialized
      <4>1. group_count_table[b][G].group_count \in 0..GroupThreshold
        BY <3>4 DEF HydraInv, HydraOK, GroupsOK, GroupEntries
      <4> QED
        BY <3>4, <4>1, MostFacts DEF HydraCounted
    <3> QED
      BY <3>1, <3>2, <3>3, <3>4
  <2> QED
    BY <2>2, <2>3, MostFacts
<1> QED
  BY <1>1, HydraInvHolds, PTL

(* A cached counter is the table's, and a request for a counter goes to    *)
(* the bank of its row and to a place among the rows reserved for counters *)
(* (hydra.cpp:412-430).                                                    *)
THEOREM CountersPlaced == HydraSpec => []CountersKeepTheirPlace
<1>1. HydraInv => CountersKeepTheirPlace
  <2> SUFFICES ASSUME HydraInv PROVE CountersKeepTheirPlace
    OBVIOUS
  <2>1. CachesOK(group_count_table, row_count_table, row_count_cache)
    BY DEF HydraInv, HydraOK
  <2>2. ASSUME NEW b \in Banks, NEW r \in Rows,
               Tag(b, r) \in DOMAIN row_count_cache[RankOf(b)][SetOf(r)]
        PROVE  row_count_cache[RankOf(b)][SetOf(r)][Tag(b, r)] = row_count_table[b][r]
    BY <2>1, <2>2, CacheHit
  <2>3. SentOK(row_count_table, sent)
    BY DEF HydraInv
  <2> QED
    BY <2>2, <2>3 DEF CountersKeepTheirPlace, SentOK
<1> QED
  BY <1>1, HydraInvHolds, PTL

-----------------------------------------------------------------------------
(* PRAC: the steps of a recovery, and what is left of them after k.        *)
Turns == NumRanks * (1 + AboRecoveryRefs)
Rest(k) == [i \in 1..(Turns - k) |-> Recovery[k + i]]
LeftRfm(k) == Turns - Larger(k, NumRanks)

LEMMA TurnFacts ==
    /\ NumRanks \in Nat /\ AboRecoveryRefs \in Nat \ {0} /\ Turns \in Nat
    /\ Turns - NumRanks = AboRecoveryRefs * NumRanks /\ NumRanks <= Turns
    /\ NumRanks > 0 => NumRanks < Turns
<1>1. NumRanks \in Nat /\ AboRecoveryRefs \in Nat \ {0}
  BY TrackersAssumption, PracAssumption
<1>2. NumRanks * (1 + AboRecoveryRefs) = NumRanks + AboRecoveryRefs * NumRanks
  BY <1>1, Z3
<1>3. AboRecoveryRefs * NumRanks \in Nat /\ (NumRanks > 0 => AboRecoveryRefs * NumRanks > 0)
  BY <1>1, Z3
<1> QED
  BY <1>1, <1>2, <1>3 DEF Turns

LEMMA RestFacts ==
    ASSUME NEW k \in 0..Turns
    PROVE  /\ Len(Rest(k)) = Turns - k /\ (Rest(k) = <<>> <=> k = Turns)
           /\ \A i \in 1..(Turns - k) :
                 Rest(k)[i] = <<IF k + i <= NumRanks THEN "PREA" ELSE "RFMab", (k + i - 1) % NumRanks>>
           /\ k < Turns => Tail(Rest(k)) = Rest(k + 1)
<1> DEFINE step(i) == <<IF i <= NumRanks THEN "PREA" ELSE "RFMab", (i - 1) % NumRanks>>
<1>1. Turns \in Nat /\ k \in Nat /\ Turns - k \in Nat
  BY TurnFacts
<1>2. Recovery = [i \in 1..Turns |-> step(i)]
  BY DEF Recovery, Turns
<1>3. Rest(k) = [i \in 1..(Turns - k) |-> step(k + i)]
  BY <1>1, <1>2 DEF Rest
<1>4. k < Turns => Rest(k + 1) = [i \in 1..(Turns - (k + 1)) |-> step((k + 1) + i)]
  BY <1>1, <1>2 DEF Rest
<1> HIDE DEF step
<1>5. Len(Rest(k)) = Turns - k
  BY <1>1, <1>3
<1>6. Rest(k) = <<>> <=> k = Turns
  <2>1. CASE k = Turns
    BY <1>1, <1>3, <2>1
  <2>2. CASE k # Turns
    BY <1>1, <1>5, <2>2
  <2> QED
    BY <2>1, <2>2
<1>7. ASSUME k < Turns
      PROVE  Tail(Rest(k)) = Rest(k + 1)
  <2>1. Rest(k) \in Seq({step(i) : i \in Nat})
    BY <1>1, <1>3
  <2>2. Rest(k) # <<>>
    BY <1>1, <1>6, <1>7
  <2>3. /\ Tail(Rest(k)) \in Seq({step(i) : i \in Nat})
        /\ Len(Tail(Rest(k))) = Len(Rest(k)) - 1
        /\ \A i \in 1..Len(Tail(Rest(k))) : Tail(Rest(k))[i] = Rest(k)[i + 1]
    BY <2>1, <2>2
  <2>5. Len(Tail(Rest(k))) = Turns - (k + 1)
    BY <1>1, <1>5, <2>3
  <2>4. \A i \in 1..(Turns - (k + 1)) : Rest(k)[i + 1] = step((k + 1) + i)
    <3>1. ASSUME NEW i \in 1..(Turns - (k + 1))
          PROVE  i + 1 \in 1..(Turns - k) /\ k + (i + 1) = (k + 1) + i
      BY <1>1
    <3> QED
      BY <1>3, <3>1
  <2> QED
    BY <1>4, <1>7, <2>3, <2>4, <2>5
<1>8. \A i \in 1..(Turns - k) : Rest(k)[i] = step(k + i)
  BY <1>3
<1>9. \A i \in 1..(Turns - k) :
        step(k + i) = <<IF k + i <= NumRanks THEN "PREA" ELSE "RFMab", (k + i - 1) % NumRanks>>
  BY DEF step
<1> QED
  BY <1>5, <1>6, <1>7, <1>8, <1>9

(* PRAC's variables take the values they should.                            *)
Orders == {"REFab", "PRE"} \X Int

PracTyped ==
    /\ plugin = "PRAC" /\ m_state \in {"NORMAL", "PRE_RECOVERY", "RECOVERY", "DELAY"}
    /\ IF m_state = "PRE_RECOVERY" THEN recovery_start \in 0..(AboActCycles - 1)
       ELSE recovery_start = Never
    /\ m_state = "DELAY" => rem_acts \in 1..AboDelayActs
    /\ m_counters \in Counts /\ m_is_abo_needed \in BOOLEAN
    /\ active_buffer \subseteq Banks /\ open_row \in [Banks -> Rows \cup {Closed}]
    /\ \A b \in active_buffer : open_row[b] # Closed
    /\ priority_buffer \in Seq(Orders)

(* The recovery's buffer is a rest of the recovery, and which one goes     *)
(* with the state of the back-off.                                         *)
Popped == Turns - Len(prac_buffer)

PracShape ==
    /\ Popped \in 0..Turns /\ prac_buffer = Rest(Popped)
    /\ m_state \in {"NORMAL", "DELAY"} => Popped = Turns
    /\ m_state = "PRE_RECOVERY" => Popped = Turns \/ Popped <= NumRanks
    /\ m_state = "RECOVERY" => rem_refs = LeftRfm(Popped) /\ (NumRanks > 0 => Popped < Turns)

PoppedNow == IF PracBuffer = prac_buffer THEN Popped ELSE 0

LEMMA PracBufferFacts ==
    ASSUME PracTyped, PracShape
    PROVE  /\ PoppedNow \in 0..Turns /\ PracBuffer = Rest(PoppedNow)
           /\ m_state # "PRE_RECOVERY" => PoppedNow = Popped
           /\ m_state = "PRE_RECOVERY" => PoppedNow = Turns \/ PoppedNow <= NumRanks
           /\ m_state = "PRE_RECOVERY" /\ recovery_start = 0 => PoppedNow <= NumRanks
<1>1. Recovery = Rest(0)
  BY TurnFacts DEF Recovery, Rest, Turns
<1>2. m_state # "PRE_RECOVERY" => recovery_start = Never
  BY DEF PracTyped
<1>3. PracBuffer = prac_buffer \/ PracBuffer = Recovery
  BY DEF PracBuffer
<1>4. PoppedNow \in 0..Turns /\ PracBuffer = Rest(PoppedNow)
  BY <1>1, <1>3, TurnFacts DEF PracShape, PoppedNow
<1>5. m_state # "PRE_RECOVERY" => PoppedNow = Popped
  BY <1>2 DEF PracBuffer, PoppedNow
<1>6. m_state = "PRE_RECOVERY" => PoppedNow = Turns \/ PoppedNow <= NumRanks
  BY TurnFacts DEF PracShape, PoppedNow
<1>7. ASSUME m_state = "PRE_RECOVERY", recovery_start = 0
      PROVE  PoppedNow <= NumRanks
  <2>1. recovery_start # Never /\ recovery_start <= SetupCycles
    BY <1>7, PracAssumption DEF Never
  <2>2. CASE prac_buffer = <<>>
    <3>1. PracBuffer = Rest(0)
      BY <1>1, <2>1, <2>2 DEF PracBuffer
    <3>2. CASE Rest(0) = prac_buffer
      <4>1. Turns = 0
        BY <2>2, <3>2, RestFacts, TurnFacts
      <4> QED
        BY <1>4, <4>1, TurnFacts
    <3>3. CASE Rest(0) # prac_buffer
      BY <3>1, <3>3, TurnFacts DEF PoppedNow
    <3> QED
      BY <3>2, <3>3
  <2>3. CASE prac_buffer # <<>>
    <3>1. PoppedNow = Popped
      BY <2>3 DEF PracBuffer, PoppedNow
    <3>2. Popped # Turns
      BY <2>3, RestFacts DEF PracShape
    <3> QED
      BY <1>7, <3>1, <3>2 DEF PracShape
  <2> QED
    BY <2>2, <2>3
<1> QED
  BY <1>4, <1>5, <1>6, <1>7

-----------------------------------------------------------------------------
(* PRAC: what a tick may issue.                                            *)
Issued(q) ==
    /\ q.command = "RFMab" =>
          /\ q.from = "prac" /\ PracBuffer # <<>> /\ m_state # "PRE_RECOVERY"
          /\ PracBuffer[1][1] = "RFMab" /\ PracBuffer[1][2] = q.at
    /\ q.command = "ACT" =>
          /\ q.from = "requests" /\ PracBuffer = <<>>
          /\ q.at \in Banks /\ q.row \in Rows /\ q.row \in HotRows(q.at)
          /\ open_row[q.at] = Closed /\ Fits("ACT")
    /\ q.command = "RD" => q.at \in Banks
    /\ q.from = "prac" => PracBuffer # <<>>
    /\ q.from = "priority" => PriorityBuffer # <<>>
    /\ q.from = "active" => q.command = "RD"
    /\ Closes(q) \cap active_buffer = {}

LEMMA PriorityTyped ==
    ASSUME PracTyped
    PROVE  PriorityBuffer \in Seq(Orders)
<1>1. Refreshes \in Seq(Orders)
  BY TrackersAssumption DEF Refreshes, Orders
<1>2. priority_buffer \in Seq(Orders)
  BY DEF PracTyped
<1> HIDE DEF Orders
<1> QED
  BY <1>1, <1>2 DEF PriorityBuffer

LEMMA ChosenFacts ==
    ASSUME PracTyped, PracShape, NEW ready \in SUBSET Buffers, NEW chosen \in Chosen(ready)
    PROVE  Issued(Kept(chosen))
<1>1. Issued(Nothing) /\ (Kept(chosen) = chosen \/ Kept(chosen) = Nothing)
  BY DEF Issued, Nothing, Found, Closes, Kept
<1>2. Kept(chosen) # Nothing => Closes(chosen) \cap active_buffer = {}
  BY DEF Kept
<1>3. CASE chosen = Nothing
  BY <1>1, <1>3
<1>4. CASE chosen \in ActiveChoices(ready)
  <2>1. PICK b \in active_buffer : chosen = Found("active", "RD", b, open_row[b])
    BY <1>4 DEF ActiveChoices
  <2>2. b \in Banks
    BY DEF PracTyped
  <2>3. /\ chosen.from = "active" /\ chosen.command = "RD" /\ chosen.at = b
        /\ Closes(chosen) = {}
    BY <2>1 DEF Found, Closes
  <2> HIDE DEF Found
  <2>4. Issued(chosen)
    BY <2>2, <2>3 DEF Issued
  <2> QED
    BY <1>1, <2>4
<1>5. CASE PracBuffer # <<>> /\ chosen \in PracChoices(ready)
  <2> DEFINE final == PracBuffer[1][1]
             rank == PracBuffer[1][2]
             cmd == Preq(final, rank)
  <2>1. chosen = Found("prac", cmd, rank, 0) /\ ~(cmd = "RFMab" /\ m_state = "PRE_RECOVERY")
    BY <1>5 DEF PracChoices
  <2>2. chosen.from = "prac" /\ chosen.command = cmd /\ chosen.at = rank
    BY <2>1 DEF Found
  <2>3. cmd = "PREA" \/ cmd = final
    BY DEF Preq
  <2>4. PracBuffer[1][1] \in {"PREA", "RFMab"}
    <3>1. PoppedNow \in 0..Turns /\ PracBuffer = Rest(PoppedNow)
      BY PracBufferFacts
    <3>2. PoppedNow # Turns /\ Turns \in Nat
      BY <1>5, <3>1, RestFacts, TurnFacts
    <3>3. 1 \in 1..(Turns - PoppedNow)
      BY <3>1, <3>2
    <3> QED
      BY <3>1, <3>3, RestFacts
  <2> HIDE DEF cmd
  <2>5. Closes(chosen) \cap active_buffer = {} => Issued(chosen)
    BY <1>5, <2>1, <2>2, <2>3, <2>4 DEF Issued
  <2> QED
    BY <1>1, <1>2, <2>5
<1>6. CASE PriorityBuffer # <<>> /\ chosen \in PriorityChoices(ready)
  <2> DEFINE final == PriorityBuffer[1][1]
             at == PriorityBuffer[1][2]
             cmd == Preq(final, at)
  <2>1. chosen = Found("priority", cmd, at, 0)
    BY <1>6 DEF PriorityChoices
  <2>2. chosen.from = "priority" /\ chosen.command = cmd
    BY <2>1 DEF Found
  <2>3. final \in {"REFab", "PRE"}
    <3>1. PriorityBuffer[1] \in Orders
      BY <1>6, PriorityTyped
    <3> QED
      BY <3>1 DEF Orders
  <2>4. cmd \in {"REFab", "PRE", "PREA"}
    BY <2>3 DEF Preq
  <2> HIDE DEF cmd
  <2>5. Closes(chosen) \cap active_buffer = {} => Issued(chosen)
    BY <1>6, <2>2, <2>4 DEF Issued
  <2> QED
    BY <1>1, <1>2, <2>5
<1>7. CASE PracBuffer = <<>> /\ chosen \in RequestChoices(ready) /\ chosen # Nothing
  <2>1. PICK h \in Hot["PRAC"] :
          /\ chosen = Found("requests",
                IF open_row[h[1]] = Closed THEN "ACT"
                ELSE IF open_row[h[1]] = h[2] THEN "RD" ELSE "PRE", h[1], h[2])
          /\ Fits(chosen.command)
    BY <1>7 DEF RequestChoices
  <2>2. h[1] \in Banks /\ h[2] \in Rows /\ h[2] \in HotRows(h[1])
    BY TrackersAssumption, PracAssumption DEF Banks, Rows, HotRows
  <2>3. /\ chosen.from = "requests" /\ chosen.at = h[1] /\ chosen.row = h[2]
        /\ \/ chosen.command = "ACT" /\ open_row[h[1]] = Closed
           \/ chosen.command \in {"RD", "PRE"}
    BY <2>1 DEF Found
  <2>4. Closes(chosen) \cap active_buffer = {} => Issued(chosen)
    BY <1>7, <2>1, <2>2, <2>3 DEF Issued
  <2> QED
    BY <1>1, <1>2, <2>4
<1> QED
  BY <1>3, <1>4, <1>5, <1>6, <1>7 DEF Chosen, OrNothing

(* What a command leaves of the recovery.                                  *)
PoppedAfter(q) ==
    IF q.from = "prac" /\ q.command = PracBuffer[1][1] THEN PoppedNow + 1 ELSE PoppedNow

LEMMA AfterFacts ==
    ASSUME PracTyped, PracShape, NEW q, Issued(q)
    PROVE  /\ PoppedAfter(q) \in 0..Turns /\ PracBufferAfter(q) = Rest(PoppedAfter(q))
           /\ q.command = "RFMab" =>
                 /\ PoppedAfter(q) = PoppedNow + 1 /\ NumRanks <= PoppedNow /\ PoppedNow < Turns
                 /\ q.at = PoppedNow % NumRanks /\ m_state # "PRE_RECOVERY"
           /\ q.command # "RFMab" =>
                 PoppedAfter(q) = PoppedNow \/ (PoppedAfter(q) = PoppedNow + 1 /\ PoppedNow < NumRanks)
           /\ q.command = "ACT" => PoppedNow = Turns
<1> DEFINE k == PoppedNow
<1>1. k \in 0..Turns /\ PracBuffer = Rest(k)
  BY PracBufferFacts
<1>2. /\ Len(Rest(k)) = Turns - k /\ (Rest(k) = <<>> <=> k = Turns)
      /\ k < Turns => Tail(Rest(k)) = Rest(k + 1)
      /\ \A i \in 1..(Turns - k) :
            Rest(k)[i] = <<IF k + i <= NumRanks THEN "PREA" ELSE "RFMab", (k + i - 1) % NumRanks>>
  BY <1>1, RestFacts
<1>3. Turns \in Nat /\ NumRanks \in Nat
  BY TurnFacts
<1> HIDE DEF k
<1>4. k < Turns => Rest(k)[1] = <<IF k < NumRanks THEN "PREA" ELSE "RFMab", k % NumRanks>>
  <2>1. ASSUME k < Turns
        PROVE  /\ 1 \in 1..(Turns - k) /\ k + 1 - 1 = k /\ (k + 1 <= NumRanks <=> k < NumRanks)
    BY <1>1, <1>3, <2>1
  <2> QED
    BY <1>2, <2>1
<1>5. CASE q.from = "prac"
  <2>1. k < Turns
    BY <1>1, <1>2, <1>3, <1>5 DEF Issued
  <2>2. /\ PracBuffer[1][1] = IF k < NumRanks THEN "PREA" ELSE "RFMab"
        /\ PracBuffer[1][2] = k % NumRanks
    BY <1>1, <1>4, <2>1
  <2>3. PracBufferAfter(q) = IF q.command = PracBuffer[1][1] THEN Rest(k + 1) ELSE Rest(k)
    BY <1>1, <1>2, <1>5, <2>1 DEF PracBufferAfter
  <2>4. PoppedAfter(q) = IF q.command = PracBuffer[1][1] THEN k + 1 ELSE k
    BY <1>5 DEF PoppedAfter, k
  <2>5. q.command # "ACT"
    BY <1>5 DEF Issued
  <2>6. PoppedAfter(q) \in 0..Turns /\ PracBufferAfter(q) = Rest(PoppedAfter(q))
    BY <1>1, <1>3, <2>1, <2>3, <2>4
  <2>7. ASSUME q.command = "RFMab"
        PROVE  /\ PoppedAfter(q) = k + 1 /\ NumRanks <= k
               /\ q.at = k % NumRanks /\ m_state # "PRE_RECOVERY"
    <3>1. PracBuffer[1][1] = "RFMab" /\ PracBuffer[1][2] = q.at /\ m_state # "PRE_RECOVERY"
      BY <2>7 DEF Issued
    <3> QED
      BY <1>1, <1>3, <2>2, <2>4, <2>7, <3>1
  <2>8. ASSUME q.command # "RFMab"
        PROVE  PoppedAfter(q) = k \/ (PoppedAfter(q) = k + 1 /\ k < NumRanks)
    BY <2>2, <2>4, <2>8
  <2> QED
    BY <2>1, <2>5, <2>6, <2>7, <2>8 DEF k
<1>6. CASE q.from # "prac"
  <2>1. PracBufferAfter(q) = Rest(k) /\ PoppedAfter(q) = k
    BY <1>1, <1>6 DEF PracBufferAfter, PoppedAfter, k
  <2>2. q.command # "RFMab"
    BY <1>6 DEF Issued
  <2>3. q.command = "ACT" => k = Turns
    BY <1>1, <1>2 DEF Issued
  <2> QED
    BY <1>1, <2>1, <2>2, <2>3 DEF k
<1> QED
  BY <1>5, <1>6

LEMMA ShapeStep ==
    ASSUME PracTyped, PracShape, NEW q, Issued(q), StateMachine(q),
           prac_buffer' = PracBufferAfter(q)
    PROVE  PracShape' /\ Popped' = PoppedAfter(q)
<1> DEFINE k == PoppedNow
           n == PoppedAfter(q)
<1>1. /\ n \in 0..Turns /\ prac_buffer' = Rest(n)
      /\ q.command = "RFMab" => n = k + 1 /\ NumRanks <= k /\ k < Turns /\ m_state # "PRE_RECOVERY"
      /\ q.command # "RFMab" => n = k \/ (n = k + 1 /\ k < NumRanks)
      /\ q.command = "ACT" => k = Turns
  BY AfterFacts
<1>2. /\ k \in 0..Turns
      /\ m_state # "PRE_RECOVERY" => k = Popped
      /\ m_state = "PRE_RECOVERY" => k = Turns \/ k <= NumRanks
      /\ m_state = "PRE_RECOVERY" /\ recovery_start = 0 => k <= NumRanks
  BY PracBufferFacts
<1>3. Len(prac_buffer') = Turns - n
  BY <1>1, RestFacts
<1>4. Popped' = n
  BY <1>1, <1>3, TurnFacts DEF Popped
<1>5. /\ NumRanks \in Nat /\ Turns \in Nat /\ NumRanks <= Turns
      /\ NumRanks > 0 => NumRanks < Turns
      /\ Turns - NumRanks = AboRecoveryRefs * NumRanks
  BY TurnFacts
<1> SUFFICES PracShape'
  BY <1>4
<1> HIDE DEF k, n
<1>6. Popped' \in 0..Turns /\ prac_buffer' = Rest(Popped')
  BY <1>1, <1>4
<1>7. CASE Alert \/ (Remain(q) /\ m_state = "NORMAL")
  <2>1. m_state = "NORMAL" /\ m_state' \in {"NORMAL", "PRE_RECOVERY"}
    BY <1>7 DEF Alert, Remain
  <2>2. k = Turns
    BY <1>2, <2>1 DEF PracShape
  <2>3. n = Turns
    BY <1>1, <1>2, <1>5, <2>2
  <2> QED
    BY <1>4, <1>6, <2>1, <2>3 DEF PracShape
<1>8. CASE AwaitRecovery
  <2>1. m_state = "PRE_RECOVERY" /\ m_state' = "PRE_RECOVERY"
    BY <1>8 DEF AwaitRecovery
  <2>2. n = Turns \/ n <= NumRanks
    BY <1>1, <1>2, <1>5, <2>1
  <2> QED
    BY <1>4, <1>6, <2>1, <2>2 DEF PracShape
<1>9. CASE BeginRecovery
  <2>1. /\ m_state = "PRE_RECOVERY" /\ recovery_start = 0 /\ m_state' = "RECOVERY"
        /\ rem_refs' = AboRecoveryRefs * NumRanks
    BY <1>9 DEF BeginRecovery
  <2>2. n <= NumRanks
    BY <1>1, <1>2, <1>5, <2>1
  <2>3. Larger(n, NumRanks) = NumRanks
    BY <1>1, <1>5, <2>2 DEF Larger
  <2>4. rem_refs' = LeftRfm(n)
    BY <1>5, <2>1, <2>3 DEF LeftRfm
  <2>5. NumRanks > 0 => n < Turns
    BY <1>1, <1>5, <2>2
  <2> QED
    BY <1>4, <1>6, <2>1, <2>4, <2>5 DEF PracShape
<1>10. CASE Recover(q)
  <2>1. /\ m_state = "RECOVERY" /\ q.command = "RFMab" /\ rem_refs' = rem_refs - 1
        /\ m_state' = IF rem_refs = 1 THEN "DELAY" ELSE "RECOVERY"
    BY <1>10 DEF Recover
  <2>2. k = Popped /\ rem_refs = LeftRfm(k)
    BY <1>2, <2>1 DEF PracShape
  <2>3. rem_refs = Turns - k /\ n = k + 1 /\ NumRanks <= k /\ k < Turns
    BY <1>1, <1>2, <1>5, <2>1, <2>2 DEF LeftRfm, Larger
  <2>4. LeftRfm(n) = Turns - n
    BY <1>2, <1>5, <2>3 DEF LeftRfm, Larger
  <2>5. CASE rem_refs = 1
    <3>1. n = Turns /\ m_state' = "DELAY"
      BY <1>2, <1>5, <2>1, <2>3, <2>5
    <3> QED
      BY <1>4, <1>6, <3>1 DEF PracShape
  <2>6. CASE rem_refs # 1
    <3>1. n < Turns /\ rem_refs' = LeftRfm(n) /\ m_state' = "RECOVERY"
      BY <1>2, <1>5, <2>1, <2>3, <2>4, <2>6
    <3> QED
      BY <1>4, <1>6, <3>1 DEF PracShape
  <2> QED
    BY <2>5, <2>6
<1>11. CASE Remain(q) /\ m_state = "RECOVERY"
  <2>1. /\ m_state' = "RECOVERY" /\ rem_refs' = rem_refs /\ q.command # "RFMab"
    BY <1>11 DEF Remain
  <2>2. k = Popped /\ rem_refs = LeftRfm(k) /\ (NumRanks > 0 => k < Turns)
    BY <1>2, <1>11 DEF PracShape
  <2>3. LeftRfm(n) = LeftRfm(k) /\ (NumRanks > 0 => n < Turns)
    BY <1>1, <1>2, <1>5, <2>1, <2>2 DEF LeftRfm, Larger
  <2> QED
    BY <1>4, <1>6, <2>1, <2>2, <2>3 DEF PracShape
<1>12. CASE Delay(q) \/ (Remain(q) /\ m_state = "DELAY")
  <2>1. m_state = "DELAY" /\ m_state' \in {"NORMAL", "DELAY"}
    BY <1>12 DEF Delay, Remain
  <2>2. k = Turns
    BY <1>2, <2>1 DEF PracShape
  <2>3. n = Turns
    BY <1>1, <1>2, <1>5, <2>2
  <2> QED
    BY <1>4, <1>6, <2>1, <2>3 DEF PracShape
<1>13. Remain(q) => m_state \in {"NORMAL", "RECOVERY", "DELAY"}
  BY DEF Remain
<1> QED
  BY <1>7, <1>8, <1>9, <1>10, <1>11, <1>12, <1>13 DEF StateMachine

LEMMA TypedStep ==
    ASSUME PracTyped, PracShape, NEW q, Issued(q), StateMachine(q), Issue(q),
           CountAct(q) \/ CountRfm(q) \/ CountNothing(q), UNCHANGED trackers
    PROVE  PracTyped'
<1>1. plugin' = "PRAC"
  BY DEF trackers, PracTyped
<1>2. /\ m_state' \in {"NORMAL", "PRE_RECOVERY", "RECOVERY", "DELAY"}
      /\ IF m_state' = "PRE_RECOVERY" THEN recovery_start' \in 0..(AboActCycles - 1)
         ELSE recovery_start' = Never
      /\ m_state' = "DELAY" => rem_acts' \in 1..AboDelayActs
  <2>1. CASE Alert
    BY <2>1, PracAssumption DEF Alert
  <2>2. CASE AwaitRecovery
    BY <2>2, PracAssumption DEF AwaitRecovery, PracTyped
  <2>3. CASE BeginRecovery
    BY <2>3 DEF BeginRecovery
  <2>4. CASE Recover(q)
    BY <2>4, PracAssumption DEF Recover, PracTyped
  <2>5. CASE Delay(q)
    BY <2>5, PracAssumption DEF Delay, PracTyped
  <2>6. CASE Remain(q)
    BY <2>6 DEF Remain, PracTyped
  <2> QED
    BY <2>1, <2>2, <2>3, <2>4, <2>5, <2>6 DEF StateMachine
<1>3. m_counters' \in Counts /\ m_is_abo_needed' \in BOOLEAN
  <2>1. CASE CountAct(q)
    <3>1. q.at \in Banks /\ q.row \in Rows /\ m_counters \in Counts
      BY <2>1 DEF CountAct, Issued, PracTyped
    <3>2. m_counters' \in Counts
      BY <2>1, <3>1, ActedAt DEF CountAct
    <3>3. NeededNow(q) \in BOOLEAN
      BY DEF NeededNow, PracTyped
    <3> QED
      BY <2>1, <3>2, <3>3 DEF CountAct
  <2>2. CASE CountRfm(q)
    <3>1. PICK victim \in [BanksOf(q.at) -> Rows] :
            m_counters' = [b \in Banks |->
                IF b \in BanksOf(q.at) THEN [m_counters[b] EXCEPT ![victim[b]] = 0] ELSE m_counters[b]]
      BY <2>2 DEF CountRfm
    <3>2. \A b \in Banks : m_counters'[b] \in [Rows -> Nat]
      BY <3>1 DEF PracTyped, Counts
    <3> QED
      BY <2>2, <3>1, <3>2 DEF CountRfm, PracTyped, Counts
  <2>3. CASE CountNothing(q)
    BY <2>3 DEF CountNothing, PracTyped
  <2> QED
    BY <2>1, <2>2, <2>3
<1>4. /\ active_buffer' \subseteq Banks /\ open_row' \in [Banks -> Rows \cup {Closed}]
      /\ \A b \in active_buffer' : open_row'[b] # Closed
  <2>1. /\ active_buffer \subseteq Banks /\ open_row \in [Banks -> Rows \cup {Closed}]
        /\ \A b \in active_buffer : open_row[b] # Closed /\ b \notin Closes(q)
    BY DEF PracTyped, Issued
  <2>2. q.command = "ACT" => q.at \in Banks /\ q.row \in Rows /\ q.from # "active"
    BY DEF Issued
  <2>3. /\ open_row' = [b \in Banks |->
              IF b \in Closes(q) THEN Closed
              ELSE IF q.command = "ACT" /\ q.at = b THEN q.row ELSE open_row[b]]
        /\ active_buffer' =
              IF q.from = "active" THEN active_buffer \ {q.at}
              ELSE IF q.command = "ACT" THEN active_buffer \cup {q.at} ELSE active_buffer
    BY DEF Issue
  <2>4. q.command = "ACT" => Closes(q) = {} /\ q.row # Closed
    BY <2>2 DEF Closes, Rows, Closed
  <2>5. open_row' \in [Banks -> Rows \cup {Closed}]
    BY <2>1, <2>2, <2>3
  <2>6. active_buffer' \subseteq Banks
    BY <2>1, <2>2, <2>3
  <2>7. ASSUME NEW b \in active_buffer'
        PROVE  open_row'[b] # Closed
    <3>1. CASE q.command = "ACT" /\ q.at = b
      BY <2>2, <2>3, <2>4, <3>1
    <3>2. CASE ~(q.command = "ACT" /\ q.at = b)
      BY <2>1, <2>3, <3>2
    <3> QED
      BY <3>1, <3>2
  <2> QED
    BY <2>5, <2>6, <2>7
<1>5. priority_buffer' \in Seq(Orders)
  <2>1. PriorityBuffer \in Seq(Orders)
    BY PriorityTyped
  <2>2. PriorityAfter(q) \in Seq(Orders)
    <3> HIDE DEF Orders
    <3>1. q.from = "priority" => PriorityBuffer # <<>>
      BY DEF Issued
    <3> QED
      BY <2>1, <3>1 DEF PriorityAfter
  <2>3. CASE priority_buffer' = PriorityAfter(q)
    BY <2>2, <2>3
  <2>4. CASE q.command = "RD" /\ priority_buffer' = Append(PriorityAfter(q), <<"PRE", q.at>>)
    <3>1. <<"PRE", q.at>> \in Orders
      BY <2>4 DEF Issued, Orders, Banks
    <3> HIDE DEF Orders
    <3> QED
      BY <2>2, <2>4, <3>1
  <2> QED
    BY <2>3, <2>4 DEF Issue
<1> QED
  BY <1>1, <1>2, <1>3, <1>4, <1>5 DEF PracTyped

(* How many refreshes the rest of a recovery still holds.                  *)
LEMMA RfmsLeft ==
    ASSUME NEW k \in 0..Turns
    PROVE  Cardinality({i \in DOMAIN Rest(k) : Rest(k)[i][1] = "RFMab"}) = LeftRfm(k)
<1> DEFINE left == {i \in DOMAIN Rest(k) : Rest(k)[i][1] = "RFMab"}
           first == IF k >= NumRanks THEN 1 ELSE NumRanks - k + 1
<1>1. Turns \in Nat /\ NumRanks \in Nat /\ NumRanks <= Turns
  BY TurnFacts
<1>2. DOMAIN Rest(k) = 1..(Turns - k)
  BY DEF Rest
<1>3. \A i \in 1..(Turns - k) : Rest(k)[i][1] = "RFMab" <=> k + i > NumRanks
  <2>1. ASSUME NEW i \in 1..(Turns - k)
        PROVE  Rest(k)[i][1] = "RFMab" <=> k + i > NumRanks
    <3>1. Rest(k)[i][1] = IF k + i <= NumRanks THEN "PREA" ELSE "RFMab"
      BY RestFacts
    <3> QED
      BY <1>1, <3>1
  <2> QED
    BY <2>1
<1>4. left = first..(Turns - k)
  <2>1. \A i \in first..(Turns - k) : i \in 1..(Turns - k) /\ k + i > NumRanks
    BY <1>1
  <2>2. \A i \in 1..(Turns - k) : k + i > NumRanks => i \in first..(Turns - k)
    BY <1>1
  <2> HIDE DEF first
  <2> QED
    BY <1>2, <1>3, <2>1, <2>2
<1>5. first \in Int /\ Turns - k \in Int
  BY <1>1
<1>6. Cardinality(first..(Turns - k)) = IF first > Turns - k THEN 0 ELSE (Turns - k) - first + 1
  <2> HIDE DEF first
  <2> QED
    BY <1>5, FS_Interval
<1>7. (IF first > Turns - k THEN 0 ELSE (Turns - k) - first + 1) = LeftRfm(k)
  BY <1>1 DEF LeftRfm, Larger
<1> HIDE DEF first
<1> QED
  BY <1>4, <1>6, <1>7

PracInv == PracTyped /\ PracShape

LEMMA InitPrac == PracInit => PracInv
<1> SUFFICES ASSUME PracInit
             PROVE  PracInv
  OBVIOUS
<1>1. PracTyped
  <2>1. <<>> \in Seq(Orders)
    OBVIOUS
  <2>2. m_counters \in Counts
    BY NoActsAt DEF PracInit
  <2> QED
    BY <2>1, <2>2 DEF PracInit, PracTyped
<1>2. Popped = Turns /\ Turns \in 0..Turns
  BY TurnFacts DEF PracInit, Popped
<1>3. Rest(Turns) = <<>>
  BY <1>2, RestFacts
<1> QED
  BY <1>1, <1>2, <1>3 DEF PracInit, PracInv, PracShape

(* What one tick does, whatever is chosen in it.                           *)
LEMMA TickFacts ==
    ASSUME PracInv, PracNext
    PROVE  \E q : /\ Issued(q) /\ StateMachine(q) /\ Issue(q)
                  /\ CountAct(q) \/ CountRfm(q) \/ CountNothing(q)
                  /\ UNCHANGED trackers
<1>1. PICK ready \in SUBSET Buffers : PracTick(ready)
  BY DEF PracNext
<1>2. PICK chosen \in Chosen(ready) :
        /\ StateMachine(Kept(chosen)) /\ Issue(Kept(chosen))
        /\ CountAct(Kept(chosen)) \/ CountRfm(Kept(chosen)) \/ CountNothing(Kept(chosen))
  BY <1>1 DEF PracTick
<1>3. Issued(Kept(chosen))
  BY ChosenFacts DEF PracInv
<1>4. UNCHANGED trackers
  BY <1>1 DEF PracTick
<1> QED
  BY <1>2, <1>3, <1>4

LEMMA StepPrac == PracInv /\ [PracNext]_<<trackers, prac>> => PracInv'
<1>1. ASSUME PracInv, PracNext
      PROVE  PracInv'
  <2>1. PICK q : /\ Issued(q) /\ StateMachine(q) /\ Issue(q)
                 /\ CountAct(q) \/ CountRfm(q) \/ CountNothing(q)
                 /\ UNCHANGED trackers
    BY <1>1, TickFacts
  <2>2. PracTyped /\ PracShape
    BY <1>1 DEF PracInv
  <2>3. prac_buffer' = PracBufferAfter(q)
    BY <2>1 DEF Issue
  <2>4. PracShape'
    BY <2>1, <2>2, <2>3, ShapeStep
  <2>5. PracTyped'
    BY <2>1, <2>2, TypedStep
  <2> QED
    BY <2>4, <2>5 DEF PracInv
<1>2. ASSUME PracInv, UNCHANGED <<trackers, prac>>
      PROVE  PracInv'
  BY <1>2 DEF PracInv, PracTyped, PracShape, Popped, trackers, prac
<1> QED
  BY <1>1, <1>2

LEMMA PracInvHolds == PracSpec => []PracInv
BY InitPrac, StepPrac, PTL DEF PracSpec

LEMMA Paired == PracInv => RecoveryPaired
<1> SUFFICES ASSUME PracInv
             PROVE  RecoveryPaired
  OBVIOUS
<1> DEFINE left == {i \in DOMAIN prac_buffer : prac_buffer[i][1] = "RFMab"}
<1>1. Popped \in 0..Turns /\ prac_buffer = Rest(Popped)
  BY DEF PracInv, PracShape
<1>2. Cardinality(left) = LeftRfm(Popped)
  BY <1>1, RfmsLeft
<1>3. m_state = "RECOVERY" => LeftRfm(Popped) = rem_refs
  BY DEF PracInv, PracShape
<1>4. m_state = "PRE_RECOVERY" => LeftRfm(Popped) \in {0, AboRecoveryRefs * NumRanks}
  <2>1. m_state = "PRE_RECOVERY" => Popped = Turns \/ Popped <= NumRanks
    BY DEF PracInv, PracShape
  <2> DEFINE p == AboRecoveryRefs * NumRanks
  <2>2. Turns - NumRanks = p /\ NumRanks <= Turns /\ NumRanks \in Nat /\ Turns \in Nat
    BY TurnFacts
  <2> HIDE DEF p
  <2>3. LeftRfm(Turns) = 0 /\ (Popped <= NumRanks => LeftRfm(Popped) = p)
    BY <1>1, <2>2 DEF LeftRfm, Larger
  <2> QED
    BY <2>1, <2>3 DEF p
<1>5. m_state \in {"NORMAL", "DELAY"} => prac_buffer = <<>>
  BY <1>1, RestFacts DEF PracInv, PracShape
<1>6. m_state \in {"NORMAL", "PRE_RECOVERY", "RECOVERY", "DELAY"}
  BY DEF PracInv, PracTyped
<1> HIDE DEF left
<1>7. (CASE m_state = "RECOVERY" -> Cardinality(left) = rem_refs
        [] m_state = "PRE_RECOVERY" -> Cardinality(left) \in {0, AboRecoveryRefs * NumRanks}
        [] OTHER -> prac_buffer = <<>>)
  BY <1>2, <1>3, <1>4, <1>5, <1>6
<1> QED
  BY <1>7 DEF RecoveryPaired, left

(* PRAC: no refresh of a recovery is issued before it or left over after   *)
(* it, and none is missing when it begins, however many ranks and          *)
(* refreshes a recovery has and whatever the timings are.                  *)
THEOREM RecoveriesPaired == PracSpec => []RecoveryPaired
BY PracInvHolds, Paired, PTL

-----------------------------------------------------------------------------
(* PRAC: how often a row may be activated.  A bank is served by a refresh  *)
(* in the turns of its rank: RefreshesOf(x, k) are left to rank x after k  *)
(* turns.  Waits(b) is how many ticks at least go by before a row of bank  *)
(* b may be activated.                                                     *)
RefreshesOf(x, k) ==
    IF k < NumRanks THEN AboRecoveryRefs
    ELSE (AboRecoveryRefs + 1) - (k \div NumRanks) - (IF k % NumRanks > x THEN 1 ELSE 0)

Waits(b) == IF b \in active_buffer THEN 2 ELSE IF open_row[b] # Closed THEN 1 ELSE 0

Raised(b) == {r \in Rows : m_counters[b][r] > 0}

LEMMA TurnsOfRank ==
    ASSUME NEW x \in 0..(NumRanks - 1), NEW k \in 0..Turns
    PROVE  /\ RefreshesOf(x, k) \in Nat
           /\ k <= NumRanks => RefreshesOf(x, k) = AboRecoveryRefs
           /\ k = Turns => RefreshesOf(x, k) = 0
           /\ NumRanks <= k /\ k < Turns =>
                 RefreshesOf(x, k + 1) = RefreshesOf(x, k) - (IF k % NumRanks = x THEN 1 ELSE 0)
<1> DEFINE a == AboRecoveryRefs
           n == NumRanks
           d == k \div n
           m == k % n
<1>1. n \in Nat \ {0} /\ a \in Nat \ {0} /\ Turns \in Nat /\ n <= Turns /\ n < Turns
  BY TurnFacts
<1>2. k \in Nat
  BY <1>1
<1>3. d \in Nat /\ m \in 0..(n - 1) /\ k = n * d + m
  <2> HIDE DEF n
  <2> QED
    BY <1>1, <1>2, DivMod
<1>4. Turns = n * (a + 1)
  <2>1. Turns = n * (1 + a)
    BY DEF Turns
  <2> HIDE DEF n, a
  <2> QED
    BY <1>1, <2>1
<1>5. RefreshesOf(x, k) = IF k < n THEN a ELSE (a + 1) - d - (IF m > x THEN 1 ELSE 0)
  BY DEF RefreshesOf
<1>6. RefreshesOf(x, k + 1) =
        IF k + 1 < n THEN a
        ELSE (a + 1) - ((k + 1) \div n) - (IF (k + 1) % n > x THEN 1 ELSE 0)
  BY DEF RefreshesOf
<1>7. (m + 1 < n => (k + 1) \div n = d /\ (k + 1) % n = m + 1)
      /\ (m + 1 = n => (k + 1) \div n = d + 1 /\ (k + 1) % n = 0)
  <2>1. k + 1 \in Nat
    BY <1>2
  <2>2. ASSUME m + 1 < n
        PROVE  (k + 1) \div n = d /\ (k + 1) % n = m + 1
    <3> DEFINE s == m + 1
               e == k + 1
    <3>1. s \in 0..(n - 1) /\ e \in Nat
      BY <1>1, <1>2, <1>3, <2>2
    <3>2. e = n * d + s
      <4> DEFINE p == n * d
      <4>1. p \in Int
        BY <1>1, <1>3
      <4> HIDE DEF p, n, m, d
      <4> QED
        BY <1>2, <1>3, <4>1 DEF p
    <3> HIDE DEF n, d, s, e, m
    <3>3. e \div n = d /\ e % n = s
      BY <1>1, <1>3, <3>1, <3>2, UniqueDivMod
    <3> QED
      BY <3>3 DEF s, e
  <2>3. ASSUME m + 1 = n
        PROVE  (k + 1) \div n = d + 1 /\ (k + 1) % n = 0
    <3> DEFINE f == d + 1
               e == k + 1
    <3>1. f \in Nat /\ e \in Nat /\ 0 \in 0..(n - 1)
      BY <1>1, <1>2, <1>3
    <3>2. e = n * f + 0
      <4> DEFINE p == n * d
      <4> HIDE DEF m, d, n
      <4>1. p \in Int /\ n * (d + 1) = p + n
        BY <1>1, <1>3, Z3
      <4> HIDE DEF p
      <4>2. e = p + n
        BY <1>1, <1>2, <1>3, <2>3, <4>1 DEF p, e
      <4> QED
        BY <1>1, <4>1, <4>2 DEF f
    <3> HIDE DEF n, d, f, e, m
    <3>3. e \div n = f /\ e % n = 0
      BY <1>1, <3>1, <3>2, UniqueDivMod
    <3> QED
      BY <3>3 DEF f, e
  <2> QED
    BY <2>2, <2>3
<1> HIDE DEF d, m, n, a
<1>8. x \in 0..(n - 1)
  BY DEF n
<1>9. k < Turns => d <= a
  <2>1. n * d <= k
    BY <1>1, <1>2, <1>3, Z3
  <2>2. ASSUME k < Turns
        PROVE  d <= a
    <3>1. n * d < n * (a + 1)
      BY <1>1, <1>2, <1>3, <1>4, <2>1, <2>2
    <3> QED
      BY <1>1, <1>3, <3>1, Z3
  <2> QED
    BY <2>2
<1>10. k = Turns => d = a + 1 /\ m = 0
  <2>1. ASSUME k = Turns
        PROVE  d = a + 1 /\ m = 0
    <3>1. k = n * (a + 1) + 0 /\ a + 1 \in Nat /\ 0 \in 0..(n - 1)
      BY <1>1, <1>4, <2>1
    <3>2. k \div n = a + 1 /\ k % n = 0
      BY <1>1, <1>2, <3>1, UniqueDivMod
    <3> QED
      BY <3>2 DEF d, m
  <2> QED
    BY <2>1
<1>11. (k < n => d = 0 /\ m = k) /\ (k = n => d = 1 /\ m = 0)
  <2>1. ASSUME k < n
        PROVE  d = 0 /\ m = k
    <3>1. k = n * 0 + k /\ k \in 0..(n - 1)
      BY <1>1, <1>2, <2>1
    <3>2. k \div n = 0 /\ k % n = k
      BY <1>1, <1>2, <3>1, UniqueDivMod
    <3> QED
      BY <3>2 DEF d, m
  <2>2. ASSUME k = n
        PROVE  d = 1 /\ m = 0
    <3>1. k = n * 1 + 0 /\ 0 \in 0..(n - 1)
      BY <1>1, <1>2, <2>2
    <3>2. k \div n = 1 /\ k % n = 0
      BY <1>1, <1>2, <3>1, UniqueDivMod
    <3> QED
      BY <3>2 DEF d, m
  <2> QED
    BY <2>1, <2>2
<1>12. RefreshesOf(x, k) \in Nat /\ (k = Turns => RefreshesOf(x, k) = 0)
  BY <1>1, <1>2, <1>3, <1>5, <1>8, <1>9, <1>10
<1>13. k <= n => RefreshesOf(x, k) = a
  BY <1>1, <1>2, <1>5, <1>8, <1>11
<1>14. n <= k /\ k < Turns =>
         RefreshesOf(x, k + 1) = RefreshesOf(x, k) - (IF m = x THEN 1 ELSE 0)
  BY <1>1, <1>2, <1>3, <1>5, <1>6, <1>7, <1>8
<1> QED
  BY <1>12, <1>13, <1>14 DEF n, a, m

(* What a command does to the waits of a bank and the counts of its rows.  *)
LEMMA WaitStep ==
    ASSUME PracTyped, NEW q, Issued(q), Issue(q), NEW b \in Banks
    PROVE  /\ Waits(b) \in 0..2 /\ Waits(b)' \in 0..2 /\ Waits(b) - 1 <= Waits(b)'
           /\ b \in active_buffer => Waits(b) = 2
           /\ q.command = "ACT" /\ q.at = b =>
                 Waits(b) = 0 /\ Waits(b)' = 2 /\ b \in active_buffer'
<1>1. Waits(b) \in 0..2 /\ (b \in active_buffer => Waits(b) = 2)
  BY DEF Waits
<1>2. Waits(b)' = IF b \in active_buffer' THEN 2 ELSE IF open_row'[b] # Closed THEN 1 ELSE 0
  BY DEF Waits
<1>3. /\ open_row' = [x \in Banks |->
            IF x \in Closes(q) THEN Closed
            ELSE IF q.command = "ACT" /\ q.at = x THEN q.row ELSE open_row[x]]
      /\ active_buffer' =
            IF q.from = "active" THEN active_buffer \ {q.at}
            ELSE IF q.command = "ACT" THEN active_buffer \cup {q.at} ELSE active_buffer
  BY DEF Issue
<1>4. b \in active_buffer => open_row[b] # Closed /\ b \notin Closes(q)
  BY DEF PracTyped, Issued
<1>5. ASSUME b \in active_buffer
      PROVE  Waits(b)' >= 1
  <2>1. CASE b \in active_buffer'
    BY <1>2, <2>1
  <2>2. CASE b \notin active_buffer'
    <3>1. q.from = "active"
      BY <1>3, <1>5, <2>2
    <3>2. q.command # "ACT"
      BY <3>1 DEF Issued
    <3>3. open_row'[b] = open_row[b]
      BY <1>3, <1>4, <1>5, <3>2
    <3> QED
      BY <1>2, <1>4, <1>5, <2>2, <3>3
  <2> QED
    BY <2>1, <2>2
<1>6. ASSUME q.command = "ACT", q.at = b
      PROVE  Waits(b) = 0 /\ Waits(b)' = 2 /\ b \in active_buffer'
  <2>1. open_row[b] = Closed /\ q.from = "requests"
    BY <1>6 DEF Issued
  <2>2. b \notin active_buffer /\ b \in active_buffer'
    BY <1>3, <1>4, <1>6, <2>1
  <2> QED
    BY <1>2, <2>1, <2>2 DEF Waits
<1>7. Waits(b)' \in 0..2
  BY <1>2
<1>8. Waits(b) - 1 <= Waits(b)'
  BY <1>1, <1>2, <1>5 DEF Waits
<1> QED
  BY <1>1, <1>6, <1>7, <1>8

LEMMA CountStep ==
    ASSUME PracTyped, NEW q, Issued(q), CountAct(q) \/ CountRfm(q) \/ CountNothing(q),
           NEW b \in Banks, NEW r \in Rows
    PROVE  /\ m_counters[b][r] \in Nat /\ m_counters'[b][r] \in Nat
           /\ \/ m_counters'[b][r] <= m_counters[b][r]
              \/ /\ q.command = "ACT" /\ q.at = b /\ q.row = r
                 /\ m_counters'[b][r] = m_counters[b][r] + 1
                 /\ m_counters'[b][r] >= AboThreshold => m_is_abo_needed'
<1>1. m_counters \in Counts
  BY DEF PracTyped
<1>2. m_counters[b][r] \in Nat
  BY <1>1 DEF Counts
<1>3. CASE CountAct(q)
  <2>1. q.at \in Banks /\ q.row \in Rows
    BY <1>3 DEF CountAct, Issued
  <2>2. \A c \in Banks, x \in Rows :
          m_counters'[c][x] =
            IF c = q.at /\ x = q.row THEN m_counters[c][x] + 1 ELSE m_counters[c][x]
    <3>1. m_counters' = Acted(m_counters, q.at, q.row)
      BY <1>3 DEF CountAct
    <3>2. \A a \in Counts, at \in Banks, row \in Rows, c \in Banks, x \in Rows :
            Acted(a, at, row)[c][x] = IF c = at /\ x = row THEN a[c][x] + 1 ELSE a[c][x]
      BY ActedAt
    <3> QED
      BY <1>1, <2>1, <3>1, <3>2
  <2>3. m_counters[q.at][q.row] + 1 >= AboThreshold => m_is_abo_needed'
    BY <1>3 DEF CountAct
  <2>4. q.command = "ACT"
    BY <1>3 DEF CountAct
  <2> QED
    BY <1>2, <2>2, <2>3, <2>4
<1>4. CASE CountRfm(q)
  <2>1. PICK victim \in [BanksOf(q.at) -> Rows] :
          m_counters' = [c \in Banks |->
              IF c \in BanksOf(q.at) THEN [m_counters[c] EXCEPT ![victim[c]] = 0] ELSE m_counters[c]]
    BY <1>4 DEF CountRfm
  <2>2. m_counters[b] \in [Rows -> Nat]
    BY <1>1 DEF Counts
  <2>3. m_counters'[b][r] = m_counters[b][r] \/ m_counters'[b][r] = 0
    BY <2>1, <2>2
  <2> QED
    BY <1>2, <2>3
<1>5. CASE CountNothing(q)
  BY <1>2, <1>5 DEF CountNothing
<1> QED
  BY <1>3, <1>4, <1>5

(* What the theorem asks of the configuration: the time from an alert to   *)
(* the recovery is enough for an activation, and no row becomes critical   *)
(* in the delay after a recovery.                                          *)
PracLimits == MinCycles["ACT"] <= AboActCycles /\ AboDelayActs <= AboThreshold

(* How often a row has been activated, by the state of the back-off.       *)
CountWithin(b, r) ==
    /\ 3 * m_counters[b][r] <= 3 * AboThreshold + (AboActCycles - MinCycles["ACT"])
    /\ m_state = "NORMAL" =>
          \/ m_counters[b][r] < AboThreshold
          \/ m_counters[b][r] = AboThreshold /\ m_is_abo_needed /\ b \in active_buffer
    /\ m_state = "PRE_RECOVERY" =>
          3 * m_counters[b][r] + recovery_start + 2 <= 3 * AboThreshold + AboActCycles + Waits(b)
    /\ m_state = "DELAY" => m_counters[b][r] <= AboDelayActs - rem_acts

LEMMA CountWithinStep ==
    ASSUME PracLimits, PracInv, NEW q, Issued(q), StateMachine(q), Issue(q),
           CountAct(q) \/ CountRfm(q) \/ CountNothing(q),
           NEW b \in Banks, NEW r \in Rows, CountWithin(b, r),
           m_state = "RECOVERY" /\ m_state' = "DELAY" => m_counters'[b][r] = 0
    PROVE  CountWithin(b, r)'
<1> DEFINE c == m_counters[b][r]
           d == m_counters'[b][r]
           T == AboThreshold
           A == AboActCycles
           M == MinCycles["ACT"]
           D == AboDelayActs
           v == Waits(b)
           w == Waits(b)'
           act == q.command = "ACT" /\ q.at = b /\ d = c + 1
<1>1. /\ T \in Nat \ {0} /\ A \in Nat \ {0} /\ M \in Nat /\ D \in Nat \ {0}
      /\ M <= A /\ D <= T
  BY PracAssumption DEF PracLimits
<1>2. PracTyped /\ PracShape
  BY DEF PracInv
<1>3. /\ v \in 0..2 /\ w \in 0..2 /\ v - 1 <= w /\ (b \in active_buffer => v = 2)
      /\ act => v = 0 /\ w = 2 /\ b \in active_buffer'
  BY <1>2, WaitStep
<1>4. /\ c \in Nat /\ d \in Nat /\ (d <= c \/ act)
      /\ act /\ d >= T => m_is_abo_needed'
  BY <1>2, CountStep
<1>5. act => PoppedNow = Turns /\ (recovery_start = Never \/ M < recovery_start)
  BY <1>2, AfterFacts DEF Issued, Fits
<1>6. /\ 3 * c <= 3 * T + (A - M)
      /\ m_state = "NORMAL" => c < T \/ (c = T /\ m_is_abo_needed /\ b \in active_buffer)
      /\ m_state = "PRE_RECOVERY" => 3 * c + recovery_start + 2 <= 3 * T + A + v
      /\ m_state = "DELAY" => c <= D - rem_acts
  BY DEF CountWithin
<1>7. /\ m_state = "PRE_RECOVERY" => recovery_start \in 0..(A - 1)
      /\ m_state # "PRE_RECOVERY" => recovery_start = Never
      /\ m_state = "DELAY" => rem_acts \in 1..D
  BY <1>2 DEF PracTyped
<1> SUFFICES
      /\ 3 * d <= 3 * T + (A - M)
      /\ m_state' = "NORMAL" => d < T \/ (d = T /\ m_is_abo_needed' /\ b \in active_buffer')
      /\ m_state' = "PRE_RECOVERY" => 3 * d + recovery_start' + 2 <= 3 * T + A + w
      /\ m_state' = "DELAY" => d <= D - rem_acts'
  BY DEF CountWithin
<1>8. m_state = "RECOVERY" => ~act
  <2>1. m_state = "RECOVERY" => PoppedNow = Popped /\ (NumRanks > 0 => Popped < Turns)
    BY <1>2, PracBufferFacts DEF PracShape
  <2>2. NumRanks > 0 /\ Turns \in Nat /\ Popped \in 0..Turns
    BY <1>2, BankFacts, TurnFacts DEF Ranks, PracShape
  <2> QED
    BY <1>5, <2>1, <2>2
<1>9. m_state = "RECOVERY" /\ m_state' = "DELAY" => d = 0
  OBVIOUS
<1> HIDE DEF c, d, T, A, M, D, v, w, act
<1>10. CASE Alert
  <2>1. m_state = "NORMAL" /\ m_state' = "PRE_RECOVERY" /\ recovery_start' = A - 1
    BY <1>10 DEF Alert, A
  <2> QED
    BY <1>1, <1>3, <1>4, <1>6, <2>1 DEF act
<1>11. CASE AwaitRecovery
  <2>1. /\ m_state = "PRE_RECOVERY" /\ m_state' = "PRE_RECOVERY" /\ recovery_start # 0
        /\ recovery_start' = recovery_start - 1
    BY <1>11 DEF AwaitRecovery
  <2>2. recovery_start \in 0..(A - 1) /\ 3 * c + recovery_start + 2 <= 3 * T + A + v
    BY <1>6, <1>7, <2>1
  <2>3. CASE act
    <3>1. M < recovery_start /\ d = c + 1 /\ v = 0 /\ w = 2
      BY <1>3, <1>5, <2>2, <2>3 DEF act, Never
    <3> QED
      BY <1>1, <1>4, <2>1, <2>2, <3>1
  <2>4. CASE ~act
    BY <1>1, <1>3, <1>4, <1>6, <2>1, <2>2, <2>4
  <2> QED
    BY <2>3, <2>4
<1>12. CASE BeginRecovery
  <2>1. m_state = "PRE_RECOVERY" /\ m_state' = "RECOVERY" /\ recovery_start = 0
    BY <1>12 DEF BeginRecovery
  <2>2. ~act
    BY <1>1, <1>5, <2>1 DEF Never
  <2> QED
    BY <1>1, <1>4, <1>6, <2>1, <2>2
<1>13. CASE Recover(q)
  <2>1. m_state = "RECOVERY" /\ m_state' \in {"RECOVERY", "DELAY"}
        /\ (m_state' = "DELAY" => rem_acts' = D)
    BY <1>13 DEF Recover, D
  <2> QED
    BY <1>1, <1>4, <1>6, <1>8, <1>9, <2>1
<1>14. CASE Delay(q)
  <2>1. /\ m_state = "DELAY" /\ rem_acts' = rem_acts - 1
        /\ m_state' = IF rem_acts = 1 THEN "NORMAL" ELSE "DELAY"
    BY <1>14 DEF Delay
  <2>2. rem_acts \in 1..D /\ c <= D - rem_acts
    BY <1>6, <1>7, <2>1
  <2>3. d <= D - rem_acts'
    BY <1>1, <1>4, <2>1, <2>2 DEF act
  <2>4. rem_acts = 1 => d < T \/ (d = T /\ m_is_abo_needed' /\ b \in active_buffer')
    BY <1>1, <1>3, <1>4, <2>2 DEF act
  <2>5. 3 * d <= 3 * T + (A - M)
    BY <1>1, <1>4, <2>1, <2>2, <2>3
  <2> QED
    BY <2>1, <2>3, <2>4, <2>5
<1>15. CASE Remain(q)
  <2>1. /\ m_state' = m_state /\ recovery_start' = recovery_start /\ rem_acts' = rem_acts
        /\ m_state # "PRE_RECOVERY"
        /\ m_state = "NORMAL" => ~m_is_abo_needed
        /\ m_state = "DELAY" => q.command # "ACT"
    BY <1>15 DEF Remain
  <2>2. CASE act
    <3>1. m_state = "NORMAL"
      BY <1>2, <1>8, <2>1, <2>2 DEF act, PracTyped
    <3>2. d = c + 1 /\ c < T /\ b \in active_buffer'
      BY <1>3, <1>6, <2>1, <2>2, <3>1 DEF act
    <3> QED
      BY <1>1, <1>4, <2>1, <2>2, <3>1, <3>2
  <2>3. CASE ~act
    BY <1>1, <1>4, <1>6, <1>7, <2>1, <2>3
  <2> QED
    BY <2>2, <2>3
<1> QED
  BY <1>10, <1>11, <1>12, <1>13, <1>14, <1>15 DEF StateMachine

(* Each refresh of its rank leaves a bank one row fewer to refresh.        *)
LEMMA RaisedFinite ==
    ASSUME NEW b \in Banks
    PROVE  IsFiniteSet(Raised(b)) /\ Cardinality(Raised(b)) \in Nat
<1>1. IsFiniteSet(Rows)
  BY TrackersAssumption, FS_Interval DEF Rows
<1>2. Raised(b) \subseteq Rows
  BY DEF Raised
<1>3. IsFiniteSet(Raised(b))
  BY <1>1, <1>2, FS_Subset
<1> QED
  BY <1>3, FS_CardinalityType

LEMMA HotRowsFinite ==
    ASSUME NEW b \in Banks
    PROVE  IsFiniteSet(HotRows(b)) /\ HotRows(b) \subseteq Rows
<1>1. IsFiniteSet(Rows)
  BY TrackersAssumption, FS_Interval DEF Rows
<1>2. HotRows(b) \subseteq Rows
  BY TrackersAssumption, PracAssumption DEF HotRows, Rows
<1> QED
  BY <1>1, <1>2, FS_Subset

LEMMA RaisedKept ==
    ASSUME PracTyped, NEW q, Issued(q), CountAct(q) \/ CountRfm(q) \/ CountNothing(q),
           NEW b \in Banks, Raised(b) \subseteq HotRows(b)
    PROVE  /\ Raised(b)' \subseteq HotRows(b)
           /\ q.command # "ACT" => Raised(b)' \subseteq Raised(b)
<1>1. ASSUME NEW r \in Raised(b)'
      PROVE  r \in HotRows(b) /\ (q.command # "ACT" => r \in Raised(b))
  <2>1. r \in Rows /\ m_counters'[b][r] > 0
    BY <1>1 DEF Raised
  <2>2. /\ m_counters[b][r] \in Nat /\ m_counters'[b][r] \in Nat
        /\ \/ m_counters'[b][r] <= m_counters[b][r]
           \/ q.command = "ACT" /\ q.at = b /\ q.row = r
    BY <2>1, CountStep
  <2>3. CASE m_counters[b][r] > 0
    BY <2>1, <2>3 DEF Raised
  <2>4. CASE ~(m_counters[b][r] > 0)
    <3>1. q.command = "ACT" /\ q.at = b /\ q.row = r
      BY <2>1, <2>2, <2>4
    <3> QED
      BY <3>1 DEF Issued
  <2> QED
    BY <2>3, <2>4
<1> QED
  BY <1>1

LEMMA VictimTaken ==
    ASSUME PracTyped, NEW q, q.command = "RFMab",
           CountAct(q) \/ CountRfm(q) \/ CountNothing(q), NEW b \in Banks, RankOf(b) = q.at
    PROVE  \E x \in Rows : /\ Raised(b)' \subseteq Raised(b) \ {x}
                           /\ Raised(b) # {} => x \in Raised(b)
<1>1. CountRfm(q)
  BY DEF CountAct, CountNothing
<1>2. b \in BanksOf(q.at)
  BY DEF BanksOf
<1>3. PICK victim \in [BanksOf(q.at) -> Rows] :
        /\ \A c \in BanksOf(q.at) : victim[c] \in MostActivated(c)
        /\ m_counters' = [c \in Banks |->
              IF c \in BanksOf(q.at) THEN [m_counters[c] EXCEPT ![victim[c]] = 0] ELSE m_counters[c]]
  BY <1>1 DEF CountRfm
<1>4. PICK x \in Rows : x = victim[b]
  BY <1>2
<1>5. m_counters[b] \in [Rows -> Nat]
  BY DEF PracTyped, Counts
<1>6. m_counters'[b] = [m_counters[b] EXCEPT ![x] = 0]
  BY <1>2, <1>3, <1>4
<1>7. Raised(b)' \subseteq Raised(b) \ {x}
  <2>1. \A r \in Rows : m_counters'[b][r] > 0 => r # x /\ m_counters[b][r] > 0
    BY <1>5, <1>6
  <2> QED
    BY <2>1 DEF Raised
<1>8. Raised(b) # {} => x \in Raised(b)
  <2>1. \A r \in Rows : m_counters[b][r] <= m_counters[b][x]
    BY <1>2, <1>3, <1>4 DEF MostActivated
  <2>2. \A r \in Rows : m_counters[b][r] > 0 => m_counters[b][x] > 0
    BY <1>5, <2>1
  <2> QED
    BY <2>2 DEF Raised
<1> QED
  BY <1>7, <1>8

BankWithin(b) ==
    /\ Raised(b) \subseteq HotRows(b)
    /\ m_state = "RECOVERY" => Cardinality(Raised(b)) <= RefreshesOf(RankOf(b), Popped)
    /\ \A r \in Rows : CountWithin(b, r)

LEMMA RefreshTurn ==
    ASSUME PracInv, NEW q, Issued(q), StateMachine(q), Issue(q),
           CountAct(q) \/ CountRfm(q) \/ CountNothing(q), NEW b \in Banks, BankWithin(b),
           m_state = "RECOVERY"
    PROVE  Cardinality(Raised(b)') <= RefreshesOf(RankOf(b), Popped')
<1> DEFINE x == RankOf(b)
           k == Popped
           n == PoppedAfter(q)
           before == Raised(b)
           after == Raised(b)'
<1>1. PracTyped /\ PracShape /\ prac_buffer' = PracBufferAfter(q)
  BY DEF PracInv, Issue
<1>2. x \in 0..(NumRanks - 1) /\ NumRanks \in Nat \ {0} /\ Turns \in Nat
  BY BankFacts, TurnFacts DEF Ranks
<1>3. Popped' = n
  BY <1>1, ShapeStep
<1>4. k \in 0..Turns /\ PoppedNow = k /\ k < Turns
  BY <1>1, <1>2, PracBufferFacts DEF PracShape
<1>5. /\ q.command = "RFMab" => n = k + 1 /\ NumRanks <= k /\ q.at = k % NumRanks
      /\ q.command # "RFMab" => n = k \/ (n = k + 1 /\ k < NumRanks)
      /\ q.command # "ACT"
  BY <1>1, <1>4, AfterFacts
<1>6. before \subseteq HotRows(b) /\ Cardinality(before) <= RefreshesOf(x, k)
  BY DEF BankWithin
<1>7. after \subseteq before
  BY <1>1, <1>5, <1>6, RaisedKept
<1>8. IsFiniteSet(before) /\ Cardinality(before) \in Nat
  BY RaisedFinite
<1>9. IsFiniteSet(after) /\ Cardinality(after) <= Cardinality(before) /\ Cardinality(after) \in Nat
  <2> HIDE DEF before, after
  <2> QED
    BY <1>7, <1>8, FS_Subset, FS_CardinalityType
<1>10. /\ RefreshesOf(x, k) \in Nat
       /\ k <= NumRanks => RefreshesOf(x, k) = AboRecoveryRefs
       /\ NumRanks <= k => RefreshesOf(x, k + 1) = RefreshesOf(x, k) - (IF k % NumRanks = x THEN 1 ELSE 0)
  BY <1>2, <1>4, TurnsOfRank
<1>11. k + 1 \in 0..Turns
  BY <1>2, <1>4
<1>12. RefreshesOf(x, k + 1) \in Nat /\ (k + 1 <= NumRanks => RefreshesOf(x, k + 1) = AboRecoveryRefs)
  BY <1>2, <1>11, TurnsOfRank
<1>13. CASE q.command = "RFMab" /\ x = q.at
  <2>1. PICK row \in Rows : after \subseteq before \ {row} /\ (before # {} => row \in before)
    BY <1>1, <1>13, VictimTaken
  <2>2. RefreshesOf(x, n) = RefreshesOf(x, k) - 1 /\ RefreshesOf(x, n) \in Nat
    BY <1>5, <1>10, <1>12, <1>13
  <2> HIDE DEF before, after
  <2>3. Cardinality(after) <= Cardinality(before \ {row})
    BY <1>8, <2>1, FS_RemoveElement, FS_Subset
  <2>4. CASE before = {}
    <3>1. Cardinality(after) = 0
      BY <1>7, <2>4, FS_EmptySet
    <3> QED
      BY <1>3, <2>2, <3>1 DEF x, after
  <2>5. CASE before # {}
    <3>1. Cardinality(before \ {row}) = Cardinality(before) - 1
      BY <1>8, <2>1, <2>5, FS_RemoveElement
    <3>2. Cardinality(after) <= RefreshesOf(x, n)
      BY <1>6, <1>8, <1>9, <1>10, <2>2, <2>3, <3>1
    <3> QED
      BY <1>3, <3>2 DEF x, after
  <2> QED
    BY <2>4, <2>5
<1>14. CASE ~(q.command = "RFMab" /\ x = q.at)
  <2>1. RefreshesOf(x, n) = RefreshesOf(x, k)
    <3>1. CASE n = k
      BY <3>1
    <3>2. CASE n = k + 1 /\ k < NumRanks
      BY <1>2, <1>4, <1>10, <1>12, <3>2
    <3>3. CASE q.command = "RFMab"
      BY <1>5, <1>10, <1>14, <3>3
    <3> QED
      BY <1>5, <3>1, <3>2, <3>3
  <2>2. Cardinality(after) <= RefreshesOf(x, n)
    <3> HIDE DEF before, after
    <3> QED
      BY <1>6, <1>8, <1>9, <1>10, <2>1
  <2> QED
    BY <1>3, <2>2
<1> QED
  BY <1>13, <1>14

LEMMA BankWithinStep ==
    ASSUME PracLimits, PracInv, PracInv', NEW q, Issued(q), StateMachine(q), Issue(q),
           CountAct(q) \/ CountRfm(q) \/ CountNothing(q),
           NEW b \in Banks, Cardinality(HotRows(b)) <= AboRecoveryRefs, BankWithin(b)
    PROVE  BankWithin(b)'
<1>1. PracTyped /\ PracShape /\ prac_buffer' = PracBufferAfter(q)
  BY DEF PracInv, Issue
<1>2. Raised(b) \subseteq HotRows(b) /\ \A r \in Rows : CountWithin(b, r)
  BY DEF BankWithin
<1>3. Raised(b)' \subseteq HotRows(b)
  BY <1>1, <1>2, RaisedKept
<1>4. RankOf(b) \in 0..(NumRanks - 1) /\ NumRanks \in Nat \ {0} /\ Turns \in Nat
  BY BankFacts, TurnFacts DEF Ranks
<1>5. /\ IsFiniteSet(Raised(b)') /\ Cardinality(Raised(b)') \in Nat
      /\ Cardinality(Raised(b)') <= AboRecoveryRefs
  <2> DEFINE after == Raised(b)'
  <2>1. after \subseteq HotRows(b)
    BY <1>3
  <2>2. IsFiniteSet(HotRows(b)) /\ Cardinality(HotRows(b)) \in Nat
    BY HotRowsFinite, FS_CardinalityType
  <2> HIDE DEF after
  <2>3. IsFiniteSet(after) /\ Cardinality(after) <= Cardinality(HotRows(b))
    BY <2>1, <2>2, FS_Subset
  <2>4. Cardinality(after) \in Nat
    BY <2>3, FS_CardinalityType
  <2>5. Cardinality(after) <= AboRecoveryRefs
    BY <2>2, <2>3, <2>4, PracAssumption
  <2> QED
    BY <2>3, <2>4, <2>5 DEF after
<1>6. m_state = "RECOVERY" => Cardinality(Raised(b)') <= RefreshesOf(RankOf(b), Popped')
  BY RefreshTurn
<1>7. BeginRecovery => Cardinality(Raised(b)') <= RefreshesOf(RankOf(b), Popped')
  <2> SUFFICES ASSUME BeginRecovery
               PROVE  Cardinality(Raised(b)') <= RefreshesOf(RankOf(b), Popped')
    OBVIOUS
  <2>1. m_state = "PRE_RECOVERY" /\ recovery_start = 0
    BY DEF BeginRecovery
  <2>2. PoppedNow <= NumRanks /\ PoppedNow \in 0..Turns
    BY <1>1, <2>1, PracBufferFacts
  <2>3. Popped' = PoppedAfter(q)
    BY <1>1, ShapeStep
  <2>4. /\ q.command # "RFMab"
        /\ PoppedAfter(q) \in 0..Turns
        /\ PoppedAfter(q) = PoppedNow \/ (PoppedAfter(q) = PoppedNow + 1 /\ PoppedNow < NumRanks)
    BY <1>1, <2>1, AfterFacts
  <2>5. PoppedAfter(q) \in 0..Turns /\ PoppedAfter(q) <= NumRanks
    BY <1>4, <2>2, <2>4
  <2>6. RefreshesOf(RankOf(b), PoppedAfter(q)) = AboRecoveryRefs
    BY <1>4, <2>5, TurnsOfRank
  <2> QED
    BY <1>5, <2>3, <2>6
<1>8. m_state' = "RECOVERY" => m_state = "RECOVERY" \/ BeginRecovery
  BY DEF StateMachine, Alert, AwaitRecovery, Recover, Delay, Remain
<1>9. ASSUME NEW r \in Rows
      PROVE  CountWithin(b, r)'
  <2>1. ASSUME m_state = "RECOVERY", m_state' = "DELAY"
        PROVE  m_counters'[b][r] = 0
    <3>1. Popped' = Turns
      BY <2>1 DEF PracInv, PracShape
    <3>2. Turns \in 0..Turns
      BY <1>4
    <3>3. RefreshesOf(RankOf(b), Turns) = 0
      BY <1>4, <3>2, TurnsOfRank
    <3>4. Cardinality(Raised(b)') = 0
      BY <1>5, <1>6, <2>1, <3>1, <3>3
    <3>5. Raised(b)' = {}
      BY <1>5, <3>4, FS_EmptySet
    <3>6. m_counters'[b][r] \in Nat
      BY <1>1, CountStep
    <3>7. ~(m_counters'[b][r] > 0)
      BY <3>5 DEF Raised
    <3> QED
      BY <3>6, <3>7
  <2>2. CountWithin(b, r)
    BY <1>2
  <2> QED
    BY <2>1, <2>2, CountWithinStep
<1> QED
  BY <1>3, <1>6, <1>7, <1>8, <1>9 DEF BankWithin, HotRows

CountsInv ==
    PracInv /\ \A b \in Banks : Cardinality(HotRows(b)) <= AboRecoveryRefs => BankWithin(b)

LEMMA InitCounts == PracLimits /\ PracInit => CountsInv
<1> SUFFICES ASSUME PracLimits, PracInit, NEW b \in Banks
             PROVE  BankWithin(b)
  BY InitPrac DEF CountsInv
<1>1. \A r \in Rows : m_counters[b][r] = 0
  BY NoActsAt DEF PracInit
<1>2. Raised(b) = {}
  BY <1>1 DEF Raised
<1>3. \A r \in Rows : CountWithin(b, r)
  BY <1>1, PracAssumption DEF CountWithin, PracInit, PracLimits
<1> QED
  BY <1>2, <1>3 DEF BankWithin, PracInit

LEMMA StepCounts == PracLimits /\ CountsInv /\ [PracNext]_<<trackers, prac>> => CountsInv'
<1>1. ASSUME PracLimits, CountsInv, PracNext
      PROVE  CountsInv'
  <2>1. PracInv /\ PracInv'
    BY <1>1, StepPrac DEF CountsInv
  <2>2. PICK q : /\ Issued(q) /\ StateMachine(q) /\ Issue(q)
                 /\ CountAct(q) \/ CountRfm(q) \/ CountNothing(q)
    BY <1>1, <2>1, TickFacts
  <2>3. ASSUME NEW b \in Banks, Cardinality(HotRows(b)) <= AboRecoveryRefs
        PROVE  BankWithin(b)'
    <3>1. BankWithin(b)
      BY <1>1, <2>3 DEF CountsInv
    <3> QED
      BY <1>1, <2>1, <2>2, <2>3, <3>1, BankWithinStep
  <2> QED
    BY <2>1, <2>3 DEF CountsInv, HotRows
<1>2. ASSUME CountsInv, UNCHANGED <<trackers, prac>>
      PROVE  CountsInv'
  <2>1. PracInv'
    BY <1>2, StepPrac DEF CountsInv
  <2>2. \A b \in Banks : BankWithin(b) => BankWithin(b)'
    BY <1>2 DEF BankWithin, Raised, CountWithin, Waits, Popped, HotRows, prac
  <2> QED
    BY <1>2, <2>1, <2>2 DEF CountsInv, HotRows
<1> QED
  BY <1>1, <1>2

LEMMA WithinBounds == PracLimits /\ CountsInv => CountersBounded
<1> SUFFICES ASSUME PracLimits, CountsInv, NEW b \in Banks,
                    Cardinality(HotRows(b)) <= AboRecoveryRefs, NEW r \in Rows
             PROVE  m_counters[b][r] <= AboThreshold + (AboActCycles - MinCycles["ACT"]) \div 3
  BY DEF CountersBounded
<1> DEFINE c == m_counters[b][r]
           d == AboActCycles - MinCycles["ACT"]
           T == AboThreshold
<1>1. T \in Nat /\ d \in Nat
  BY PracAssumption DEF PracLimits
<1>2. c \in Nat
  BY DEF CountsInv, PracInv, PracTyped, Counts
<1>3. 3 * c <= 3 * T + d
  BY DEF CountsInv, BankWithin, CountWithin
<1> HIDE DEF c, d, T
<1>4. d \div 3 \in Nat /\ d % 3 \in 0..2 /\ d = 3 * (d \div 3) + (d % 3)
  BY <1>1, DivMod
<1>5. c <= T + d \div 3
  BY <1>1, <1>2, <1>3, <1>4
<1> QED
  BY <1>5 DEF c, d, T

(* PRAC: a row of a bank with no more rows in use than a recovery          *)
(* refreshes is activated no more often than the threshold and what fits   *)
(* between an alert and its recovery, for every geometry, threshold and    *)
(* timing with time for an activation before a recovery, and a delay that  *)
(* is no longer than the threshold.                                        *)
THEOREM CountsBounded ==
    ASSUME MinCycles["ACT"] <= AboActCycles, AboDelayActs <= AboThreshold
    PROVE  PracSpec => []CountersBounded
<1>1. PracLimits
  BY DEF PracLimits
<1>2. PracInit => CountsInv
  BY <1>1, InitCounts
<1>3. CountsInv /\ [PracNext]_<<trackers, prac>> => CountsInv'
  BY <1>1, StepCounts
<1>4. CountsInv => CountersBounded
  BY <1>1, WithinBounds
<1> QED
  BY <1>2, <1>3, <1>4, PTL DEF PracSpec

-----------------------------------------------------------------------------
(* BlockHammer's filters.  A filter has counted the activations of so many *)
(* epochs before this one as its age says: the one that was cleared last   *)
(* has age 0, the one that is tested the highest.                          *)
Age(t, f) == IF f < t THEN t - 1 - f ELSE t + NumFilters - 1 - f

Counters == [0..(NumCounters - 1) -> Nat]

LEMMA BhPlace ==
    ASSUME NEW h \in HotPlaces
    PROVE  /\ h[1] \in BhBanks /\ h[2] \in BhRows /\ h[2] \in Nat
           /\ h = <<h[1], h[2]>> /\ RankOf(h[1]) \in BhRanks
<1>1. h \in (0..(NumRanks * BanksPerRank - 1)) \X (0..(NumRows - 1))
  BY TrackersAssumption, BlockHammerAssumption DEF HotPlaces
<1> QED
  BY <1>1 DEF BhBanks, BhRows, BhRanks

LEMMA NextFilter ==
    ASSUME NEW t \in SubFilters
    PROVE  (t + 1) % NumFilters = IF t + 1 = NumFilters THEN 0 ELSE t + 1
<1>1. NumFilters \in Nat \ {0} /\ t + 1 \in Nat /\ t + 1 <= NumFilters
  BY BlockHammerAssumption DEF SubFilters
<1> DEFINE n == NumFilters
           u == t + 1
<1> HIDE DEF n, u
<1>2. n \in Nat \ {0} /\ u \in Nat /\ u <= n
  BY <1>1 DEF n, u
<1>3. CASE u = n
  <2>1. u = n * 1 + 0 /\ 0 \in 0..(n - 1)
    BY <1>2, <1>3
  <2>2. u % n = 0
    BY <1>2, <2>1, UniqueDivMod
  <2> QED
    BY <1>3, <2>2 DEF n, u
<1>4. CASE u # n
  <2>1. u = n * 0 + u /\ u \in 0..(n - 1)
    BY <1>2, <1>4
  <2>2. u % n = u
    BY <1>2, <2>1, UniqueDivMod
  <2> QED
    BY <1>4, <2>2 DEF n, u
<1> QED
  BY <1>3, <1>4

LEMMA AgeFacts ==
    ASSUME NEW t \in SubFilters, NEW f \in SubFilters
    PROVE  /\ (t + 1) % NumFilters \in SubFilters
           /\ Age(t, f) \in SubFilters /\ Age(t, t) = NumFilters - 1
           /\ Age((t + 1) % NumFilters, f) = IF f = t THEN 0 ELSE Age(t, f) + 1
<1>1. NumFilters \in Nat \ {0} /\ t \in 0..(NumFilters - 1) /\ f \in 0..(NumFilters - 1)
  BY BlockHammerAssumption DEF SubFilters
<1> DEFINE u == (t + 1) % NumFilters
<1>2. u = IF t + 1 = NumFilters THEN 0 ELSE t + 1
  BY NextFilter
<1> HIDE DEF u
<1>3. u \in SubFilters
  BY <1>1, <1>2 DEF SubFilters
<1>4. Age(t, f) \in SubFilters /\ Age(t, t) = NumFilters - 1
  BY <1>1 DEF Age, SubFilters
<1>5. Age(u, f) = IF f = t THEN 0 ELSE Age(t, f) + 1
  BY <1>1, <1>2 DEF Age
<1> QED
  BY <1>3, <1>4, <1>5 DEF u

FiltersTyped ==
    /\ filters \in [BhBanks -> [SubFilters -> Counters]]
    /\ saturate \in [BhBanks \X SubFilters -> BOOLEAN] /\ test_idx \in SubFilters
    /\ window \in [HotPlaces -> [SubFilters -> 0..CtrThreshold]]

(* Every counter of a row covers its activations since the filter was      *)
(* cleared, in a filter of which none has overflowed.                      *)
Covers(fs, w, gone, t) ==
    \A h \in HotPlaces, f \in SubFilters, i \in DOMAIN HashOf :
        <<h[1], f>> \notin gone => w[h][Age(t, f)] <= fs[h[1]][f][HashOf[i][h[2]]]

FiltersInv == FiltersTyped /\ Covers(filters, window, wrapped, test_idx)

FiltersNow == [b \in BhBanks |-> [f \in SubFilters |-> SubFilterNow(b, f)]]

(* What the end of an epoch, if it has come, leaves.                       *)
LEMMA EpochStep ==
    ASSUME FiltersInv
    PROVE  /\ TestIdxNow \in SubFilters
           /\ FiltersNow \in [BhBanks -> [SubFilters -> Counters]]
           /\ WindowNow \in [HotPlaces -> [SubFilters -> 0..CtrThreshold]]
           /\ Covers(FiltersNow, WindowNow, WrappedNow, TestIdxNow)
<1>1. /\ filters \in [BhBanks -> [SubFilters -> Counters]] /\ test_idx \in SubFilters
      /\ window \in [HotPlaces -> [SubFilters -> 0..CtrThreshold]]
  BY DEF FiltersInv, FiltersTyped
<1>2. NumFilters \in Nat \ {0} /\ NumCounters \in Nat \ {0} /\ CtrThreshold \in Nat
  BY BlockHammerAssumption
<1>3. Empty \in Counters /\ \A c \in 0..(NumCounters - 1) : Empty[c] = 0
  BY DEF Empty, Counters
<1>4. TestIdxNow \in SubFilters
  BY <1>1, AgeFacts DEF TestIdxNow
<1>5. \A b \in BhBanks, f \in SubFilters :
        FiltersNow[b][f] = IF EpochEnds /\ f = test_idx THEN Empty ELSE filters[b][f]
  BY DEF FiltersNow, SubFilterNow
<1>6. FiltersNow \in [BhBanks -> [SubFilters -> Counters]]
  <2>1. \A b \in BhBanks, f \in SubFilters : SubFilterNow(b, f) \in Counters
    BY <1>1, <1>3 DEF SubFilterNow
  <2> QED
    BY <2>1 DEF FiltersNow
<1>7. \A h \in HotPlaces, e \in SubFilters :
        WindowNow[h][e] = IF EpochEnds THEN (IF e = 0 THEN 0 ELSE window[h][e - 1]) ELSE window[h][e]
  BY DEF WindowNow
<1>8. WindowNow \in [HotPlaces -> [SubFilters -> 0..CtrThreshold]]
  <2>1. CASE EpochEnds
    <3>1. \A h \in HotPlaces, e \in SubFilters :
            (IF e = 0 THEN 0 ELSE window[h][e - 1]) \in 0..CtrThreshold
      <4>1. ASSUME NEW h \in HotPlaces, NEW e \in SubFilters, e # 0
            PROVE  window[h][e - 1] \in 0..CtrThreshold
        <5>1. e - 1 \in SubFilters
          BY <1>2, <4>1 DEF SubFilters
        <5> QED
          BY <1>1, <5>1
      <4> QED
        BY <1>2, <4>1
    <3>2. WindowNow =
            [h \in HotPlaces |-> [e \in SubFilters |-> IF e = 0 THEN 0 ELSE window[h][e - 1]]]
      BY <2>1 DEF WindowNow
    <3> QED
      BY <3>1, <3>2
  <2>2. CASE ~EpochEnds
    BY <1>1, <2>2 DEF WindowNow
  <2> QED
    BY <2>1, <2>2
<1>9. ASSUME NEW h \in HotPlaces, NEW f \in SubFilters, NEW i \in DOMAIN HashOf,
             <<h[1], f>> \notin WrappedNow
      PROVE  WindowNow[h][Age(TestIdxNow, f)] <= FiltersNow[h[1]][f][HashOf[i][h[2]]]
  <2>1. h[1] \in BhBanks /\ HashOf[i][h[2]] \in 0..(NumCounters - 1)
    BY BhPlace, BlockHammerAssumption
  <2>2. <<h[1], f>> \notin wrapped \/ (EpochEnds /\ f = test_idx)
    BY <1>9 DEF WrappedNow
  <2>3. <<h[1], f>> \notin wrapped =>
          window[h][Age(test_idx, f)] <= filters[h[1]][f][HashOf[i][h[2]]]
    BY DEF FiltersInv, Covers
  <2>4. CASE ~EpochEnds
    <3>1. TestIdxNow = test_idx /\ Age(test_idx, f) \in SubFilters
      BY <1>1, <2>4, AgeFacts DEF TestIdxNow
    <3> QED
      BY <1>5, <1>7, <2>1, <2>2, <2>3, <2>4, <3>1
  <2>5. CASE EpochEnds /\ f = test_idx
    <3>1. Age(TestIdxNow, f) = 0 /\ 0 \in SubFilters
      BY <1>1, <1>2, <2>5, AgeFacts DEF TestIdxNow, SubFilters
    <3>2. FiltersNow[h[1]][f][HashOf[i][h[2]]] = 0
      BY <1>3, <1>5, <2>1, <2>5
    <3>3. WindowNow[h][0] = 0
      BY <1>7, <2>5, <3>1
    <3> QED
      BY <3>1, <3>2, <3>3
  <2>6. CASE EpochEnds /\ f # test_idx
    <3>1. Age(TestIdxNow, f) = Age(test_idx, f) + 1 /\ Age(test_idx, f) \in SubFilters
      BY <1>1, <2>6, AgeFacts DEF TestIdxNow
    <3>2. Age(TestIdxNow, f) \in SubFilters
      BY <1>4, AgeFacts
    <3>3. WindowNow[h][Age(TestIdxNow, f)] = window[h][Age(test_idx, f)]
      BY <1>2, <1>7, <2>6, <3>1, <3>2 DEF SubFilters
    <3>4. FiltersNow[h[1]][f] = filters[h[1]][f]
      BY <1>5, <2>1, <2>6
    <3> QED
      BY <2>2, <2>3, <2>6, <3>3, <3>4
  <2> QED
    BY <2>4, <2>5, <2>6
<1>10. Covers(FiltersNow, WindowNow, WrappedNow, TestIdxNow)
  BY <1>9 DEF Covers
<1> QED
  BY <1>4, <1>6, <1>8, <1>10

(* A counter that a hash function names grows with an insertion, and none  *)
(* shrinks, unless it overflows.                                           *)
LEMMA HashesFacts ==
    ASSUME NEW r, NEW c
    PROVE  Hashes(r, c) \in Nat /\ \A i \in DOMAIN HashOf : HashOf[i][r] = c => Hashes(r, c) >= 1
<1> DEFINE S == {i \in DOMAIN HashOf : HashOf[i][r] = c}
<1>1. IsFiniteSet(S)
  BY BlockHammerAssumption, FS_Subset
<1>2. Cardinality(S) \in Nat /\ (Cardinality(S) = 0 <=> S = {})
  <2> HIDE DEF S
  <2> QED
    BY <1>1, FS_CardinalityType, FS_EmptySet
<1>3. Hashes(r, c) = Cardinality(S)
  BY DEF Hashes
<1>4. \A i \in DOMAIN HashOf : HashOf[i][r] = c => S # {}
  OBVIOUS
<1> HIDE DEF S
<1> QED
  BY <1>2, <1>3, <1>4

LEMMA Lesser ==
    ASSUME NEW m \in Nat, NEW n \in Nat
    PROVE  Min({m, n}) = IF m <= n THEN m ELSE n
<1> DEFINE x == IF m <= n THEN m ELSE n
<1>1. x \in {m, n} /\ \A y \in {m, n} : x <= y
  OBVIOUS
<1>2. \A z \in {m, n} : (\A y \in {m, n} : z <= y) => z = x
  OBVIOUS
<1> HIDE DEF x
<1>3. (CHOOSE z \in {m, n} : \A y \in {m, n} : z <= y) = x
  BY <1>1, <1>2
<1> QED
  BY <1>3 DEF Min, x

LEMMA InsertedFacts ==
    ASSUME NEW f, saturate[f] \in BOOLEAN, NEW old \in Counters, NEW r
    PROVE  /\ Inserted(f, old, r) \in Counters
           /\ \A c \in 0..(NumCounters - 1) :
                 \/ ~saturate[f] /\ old[c] + Hashes(r, c) >= CtrValues
                 \/ Inserted(f, old, r)[c] >= old[c] + Hashes(r, c)
                 \/ Inserted(f, old, r)[c] >= CtrThreshold
<1>1. CtrValues \in Nat \ {0} /\ CtrThreshold \in Nat
  BY BlockHammerAssumption
<1> DEFINE sum(c) == old[c] + Hashes(r, c)
           new(c) == IF ~saturate[f] THEN sum(c) % CtrValues
                     ELSE IF old[c] >= CtrThreshold THEN old[c] ELSE Min({sum(c), CtrThreshold})
<1>2. DOMAIN Empty = 0..(NumCounters - 1)
  BY DEF Empty
<1>3. Inserted(f, old, r) = [c \in 0..(NumCounters - 1) |-> new(c)]
  BY <1>2 DEF Inserted
<1>4. ASSUME NEW c \in 0..(NumCounters - 1)
      PROVE  /\ new(c) \in Nat
             /\ \/ ~saturate[f] /\ sum(c) >= CtrValues
                \/ new(c) >= sum(c) \/ new(c) >= CtrThreshold
  <2>1. old[c] \in Nat /\ sum(c) \in Nat
    BY HashesFacts DEF Counters
  <2>2. CASE ~saturate[f]
    <3>1. new(c) = sum(c) % CtrValues
      BY <2>2
    <3> HIDE DEF sum, new
    <3>2. sum(c) % CtrValues \in Nat
      BY <1>1, <2>1, DivMod
    <3>3. sum(c) < CtrValues => sum(c) % CtrValues = sum(c)
      BY <1>1, <2>1
    <3> QED
      BY <1>1, <2>1, <2>2, <3>1, <3>2, <3>3
  <2>3. CASE saturate[f]
    <3>1. new(c) = IF old[c] >= CtrThreshold THEN old[c]
                   ELSE IF sum(c) <= CtrThreshold THEN sum(c) ELSE CtrThreshold
      BY <1>1, <2>1, <2>3, Lesser
    <3> HIDE DEF sum, new
    <3> QED
      BY <1>1, <2>1, <3>1
  <2> QED
    BY <2>2, <2>3
<1>5. Inserted(f, old, r) \in Counters
  <2> HIDE DEF new
  <2> QED
    BY <1>3, <1>4 DEF Counters
<1>6. \A c \in 0..(NumCounters - 1) : Inserted(f, old, r)[c] = new(c)
  BY <1>3
<1> HIDE DEF new
<1> QED
  BY <1>4, <1>5, <1>6

(* The window of a place after an activation of it.                        *)
WindowWith(b, r) == [WindowNow EXCEPT ![<<b, r>>] = OneMore(@)]

LEMMA WindowWithAt ==
    ASSUME FiltersInv, NEW h \in HotPlaces
    PROVE  /\ WindowWith(h[1], h[2]) \in [HotPlaces -> [SubFilters -> 0..CtrThreshold]]
           /\ \A g \in HotPlaces, e \in SubFilters :
                 WindowWith(h[1], h[2])[g][e] =
                    IF g = h /\ WindowNow[g][e] < CtrThreshold THEN WindowNow[g][e] + 1
                    ELSE WindowNow[g][e]
<1>1. WindowNow \in [HotPlaces -> [SubFilters -> 0..CtrThreshold]]
  BY EpochStep
<1>2. h = <<h[1], h[2]>>
  BY BhPlace
<1>3. WindowWith(h[1], h[2]) = [WindowNow EXCEPT ![h] = OneMore(WindowNow[h])]
  BY <1>2 DEF WindowWith
<1>4. OneMore(WindowNow[h]) \in [SubFilters -> 0..CtrThreshold]
  BY <1>1, BlockHammerAssumption DEF OneMore
<1>5. \A e \in SubFilters :
        OneMore(WindowNow[h])[e] =
          IF WindowNow[h][e] < CtrThreshold THEN WindowNow[h][e] + 1 ELSE WindowNow[h][e]
  BY DEF OneMore
<1> DEFINE more == OneMore(WindowNow[h])
<1> HIDE DEF more
<1>6. [WindowNow EXCEPT ![h] = more] \in [HotPlaces -> [SubFilters -> 0..CtrThreshold]]
  BY <1>1, <1>4 DEF more
<1>7. \A g \in HotPlaces :
        [WindowNow EXCEPT ![h] = more][g] = IF g = h THEN more ELSE WindowNow[g]
  BY <1>1
<1> QED
  BY <1>3, <1>5, <1>6, <1>7 DEF more

LEMMA InsertStep ==
    ASSUME FiltersInv, NEW h \in HotPlaces
    PROVE  LET b == h[1]
               r == h[2]
           IN  /\ FiltersWith(b, r) \in [BhBanks -> [SubFilters -> Counters]]
               /\ Covers(FiltersWith(b, r), WindowWith(b, r),
                         WrappedNow \cup ({b} \X Overflowing(b, r)), TestIdxNow)
<1> DEFINE b == h[1]
           r == h[2]
           put(x, f) == IF x = b THEN Inserted(<<x, f>>, SubFilterNow(x, f), r) ELSE SubFilterNow(x, f)
           gone == WrappedNow \cup ({b} \X Overflowing(b, r))
<1>1. /\ TestIdxNow \in SubFilters
      /\ FiltersNow \in [BhBanks -> [SubFilters -> Counters]]
      /\ WindowNow \in [HotPlaces -> [SubFilters -> 0..CtrThreshold]]
      /\ Covers(FiltersNow, WindowNow, WrappedNow, TestIdxNow)
  BY EpochStep
<1>2. \A x \in BhBanks, f \in SubFilters :
        SubFilterNow(x, f) = FiltersNow[x][f] /\ SubFilterNow(x, f) \in Counters
  BY <1>1 DEF FiltersNow
<1>3. b \in BhBanks /\ h = <<b, r>>
  BY BhPlace
<1>4. \A f \in SubFilters : saturate[<<b, f>>] \in BOOLEAN
  BY <1>3 DEF FiltersInv, FiltersTyped
<1>5. \A f \in SubFilters :
        /\ Inserted(<<b, f>>, SubFilterNow(b, f), r) \in Counters
        /\ \A c \in 0..(NumCounters - 1) :
              \/ ~saturate[<<b, f>>] /\ SubFilterNow(b, f)[c] + Hashes(r, c) >= CtrValues
              \/ Inserted(<<b, f>>, SubFilterNow(b, f), r)[c] >= SubFilterNow(b, f)[c] + Hashes(r, c)
              \/ Inserted(<<b, f>>, SubFilterNow(b, f), r)[c] >= CtrThreshold
  BY <1>2, <1>3, <1>4, InsertedFacts
<1>6. FiltersWith(b, r) = [x \in BhBanks |-> [f \in SubFilters |-> put(x, f)]]
  BY DEF FiltersWith
<1>7. \A x \in BhBanks, f \in SubFilters : put(x, f) \in Counters
  BY <1>2, <1>5
<1>8. /\ FiltersWith(b, r) \in [BhBanks -> [SubFilters -> Counters]]
      /\ \A x \in BhBanks, f \in SubFilters : FiltersWith(b, r)[x][f] = put(x, f)
  <2> HIDE DEF put
  <2> QED
    BY <1>6, <1>7
<1>9. DOMAIN Empty = 0..(NumCounters - 1)
  BY DEF Empty
<1>10. ASSUME NEW g \in HotPlaces, NEW f \in SubFilters, NEW i \in DOMAIN HashOf,
              <<g[1], f>> \notin gone
       PROVE  WindowWith(b, r)[g][Age(TestIdxNow, f)] <= FiltersWith(b, r)[g[1]][f][HashOf[i][g[2]]]
  <2> DEFINE c == HashOf[i][g[2]]
             a == Age(TestIdxNow, f)
             w == WindowNow[g][a]
             old == FiltersNow[g[1]][f][c]
             new == FiltersWith(b, r)[g[1]][f][c]
  <2>1. g[1] \in BhBanks /\ c \in 0..(NumCounters - 1) /\ a \in SubFilters
    BY <1>1, BhPlace, BlockHammerAssumption, AgeFacts
  <2>2. w \in 0..CtrThreshold /\ old \in Nat /\ new \in Nat /\ CtrThreshold \in Nat
    <3>1. FiltersNow[g[1]][f] \in Counters /\ FiltersWith(b, r)[g[1]][f] \in Counters
      BY <1>1, <1>8, <2>1
    <3>2. \A v \in Counters : v[c] \in Nat
      BY <2>1 DEF Counters
    <3>3. w \in 0..CtrThreshold /\ CtrThreshold \in Nat
      BY <1>1, <2>1, BlockHammerAssumption
    <3> QED
      BY <3>1, <3>2, <3>3
  <2>3. w <= old
    <3>1. <<g[1], f>> \notin WrappedNow
      BY <1>10
    <3> QED
      BY <1>1, <3>1 DEF Covers
  <2>4. WindowWith(b, r)[g][a] = IF g = h /\ w < CtrThreshold THEN w + 1 ELSE w
    BY <2>1, WindowWithAt
  <2>5. CASE g[1] # b
    <3>1. g # h /\ new = old
      <4>1. FiltersWith(b, r)[g[1]][f] = put(g[1], f) /\ SubFilterNow(g[1], f) = FiltersNow[g[1]][f]
        BY <1>2, <1>8, <2>1, Zenon
      <4>2. put(g[1], f) = SubFilterNow(g[1], f)
        BY <2>5, Zenon
      <4>3. g # h
        BY <2>5, Zenon
      <4> HIDE DEF put
      <4> QED
        BY <4>1, <4>2, <4>3, Zenon
    <3> QED
      BY <2>2, <2>3, <2>4, <3>1
  <2>6. CASE g[1] = b
    <3>1. f \notin Overflowing(b, r)
      BY <1>10, <2>6
    <3>2. ~(~saturate[<<b, f>>] /\ SubFilterNow(b, f)[c] + Hashes(r, c) >= CtrValues)
      BY <1>9, <2>1, <3>1 DEF Overflowing
    <3>3. new = Inserted(<<b, f>>, SubFilterNow(b, f), r)[c] /\ old = SubFilterNow(b, f)[c]
      BY <1>2, <1>8, <2>1, <2>6
    <3>4. new >= old + Hashes(r, c) \/ new >= CtrThreshold
      BY <1>5, <2>1, <3>2, <3>3
    <3>5. Hashes(r, c) \in Nat /\ (g = h => Hashes(r, c) >= 1)
      BY HashesFacts
    <3> HIDE DEF w, old, new, c, a
    <3>6. WindowWith(b, r)[g][a] <= new
      BY <2>2, <2>3, <2>4, <3>4, <3>5
    <3> QED
      BY <3>6 DEF new, c, a
  <2> QED
    BY <2>5, <2>6
<1>11. Covers(FiltersWith(b, r), WindowWith(b, r), gone, TestIdxNow)
  BY <1>10 DEF Covers
<1> QED
  BY <1>8, <1>11

LEMMA FiltersIdleStep ==
    ASSUME FiltersInv, FilterIdle
    PROVE  FiltersInv'
<1>1. /\ filters' = FiltersNow /\ window' = WindowNow /\ wrapped' = WrappedNow
      /\ test_idx' = TestIdxNow /\ saturate' = saturate
  BY DEF FilterIdle, FilterTick, FiltersNow
<1>2. FiltersTyped'
  BY <1>1, EpochStep DEF FiltersInv, FiltersTyped
<1>3. Covers(filters', window', wrapped', test_idx')
  BY <1>1, EpochStep
<1> QED
  BY <1>2, <1>3 DEF FiltersInv, Covers, Age

LEMMA FiltersInsertStep ==
    ASSUME FiltersInv, NEW h \in HotPlaces, FilterInsert(h[1], h[2])
    PROVE  FiltersInv'
<1>1. /\ filters' = FiltersWith(h[1], h[2]) /\ window' = WindowWith(h[1], h[2])
      /\ wrapped' = WrappedNow \cup ({h[1]} \X Overflowing(h[1], h[2]))
      /\ test_idx' = TestIdxNow /\ saturate' = saturate
  BY DEF FilterInsert, FilterTick, WindowWith
<1>2. FiltersTyped'
  BY <1>1, EpochStep, InsertStep, WindowWithAt DEF FiltersInv, FiltersTyped
<1>3. Covers(filters', window', wrapped', test_idx')
  BY <1>1, InsertStep
<1> QED
  BY <1>2, <1>3 DEF FiltersInv, Covers, Age

LEMMA InitFilters == BlockHammerInit => FiltersInv
<1> SUFFICES ASSUME BlockHammerInit
             PROVE  FiltersInv
  OBVIOUS
<1>1. Empty \in Counters /\ \A c \in 0..(NumCounters - 1) : Empty[c] = 0
  BY DEF Empty, Counters
<1>2. 0 \in SubFilters /\ 0 \in 0..CtrThreshold
  BY BlockHammerAssumption DEF SubFilters
<1>3. FiltersTyped
  BY <1>1, <1>2, BlockHammerAssumption DEF BlockHammerInit, FiltersTyped
<1>4. ASSUME NEW h \in HotPlaces, NEW f \in SubFilters, NEW i \in DOMAIN HashOf
      PROVE  window[h][Age(test_idx, f)] <= filters[h[1]][f][HashOf[i][h[2]]]
  <2>1. h[1] \in BhBanks /\ HashOf[i][h[2]] \in 0..(NumCounters - 1)
        /\ Age(test_idx, f) \in SubFilters
    BY <1>3, BhPlace, BlockHammerAssumption, AgeFacts DEF FiltersTyped
  <2>2. filters[h[1]][f][HashOf[i][h[2]]] = 0 /\ window[h][Age(test_idx, f)] = 0
    BY <1>1, <2>1 DEF BlockHammerInit
  <2> QED
    BY <2>2
<1> QED
  BY <1>3, <1>4 DEF FiltersInv, Covers

LEMMA HotOnesTested == FiltersInv => HotRowsBlacklisted
<1> SUFFICES ASSUME FiltersInv, NEW h \in HotPlaces, ActsInWindow(h) >= CtrThreshold,
                    <<h[1], test_idx>> \notin wrapped, NEW i \in DOMAIN HashOf
             PROVE  filters[h[1]][test_idx][HashOf[i][h[2]]] >= CtrThreshold
  BY DEF HotRowsBlacklisted, Blacklisted, Passes
<1> DEFINE x == filters[h[1]][test_idx][HashOf[i][h[2]]]
           w == window[h][NumFilters - 1]
<1>1. test_idx \in SubFilters /\ Age(test_idx, test_idx) = NumFilters - 1
      /\ NumFilters - 1 \in SubFilters
  BY AgeFacts, BlockHammerAssumption DEF FiltersInv, FiltersTyped, SubFilters
<1>2. w <= x
  BY <1>1 DEF FiltersInv, Covers
<1>3. w >= CtrThreshold
  BY DEF ActsInWindow
<1>4. w \in Nat /\ CtrThreshold \in Nat
  BY <1>1, BlockHammerAssumption DEF FiltersInv, FiltersTyped
<1>5. x \in Nat
  <2>1. h[1] \in BhBanks /\ HashOf[i][h[2]] \in 0..(NumCounters - 1)
    BY BhPlace, BlockHammerAssumption
  <2>2. filters[h[1]][test_idx] \in Counters
    BY <1>1, <2>1 DEF FiltersInv, FiltersTyped
  <2> QED
    BY <2>1, <2>2 DEF Counters
<1> HIDE DEF x, w
<1>6. x >= CtrThreshold
  BY <1>2, <1>3, <1>4, <1>5
<1> QED
  BY <1>6 DEF x

-----------------------------------------------------------------------------
(* BlockHammer's history.  Of a row that no older entry has taken off, the *)
(* counter holds the activations of the last m_size ticks.                 *)
HistoryTyped ==
    /\ elem_counter \in [BhRanks -> [BhRows -> Nat]]
    /\ recent \in [BhRanks -> [BhRows -> SUBSET (1..HistSize)]]

Remembers(counts, ages, dropped) ==
    \A k \in BhRanks, r \in BhRows : r \notin dropped[k] => Cardinality(ages[k][r]) <= counts[k][r]

HistoryInv == HistoryTyped /\ Remembers(elem_counter, recent, early)

LEMMA AgesFinite ==
    ASSUME NEW S \in SUBSET (1..HistSize)
    PROVE  IsFiniteSet(S) /\ Cardinality(S) \in Nat
<1>1. IsFiniteSet(1..HistSize)
  BY BlockHammerAssumption, FS_Interval
<1>2. IsFiniteSet(S)
  BY <1>1, FS_Subset
<1> QED
  BY <1>2, FS_CardinalityType

LEMMA OlderFacts ==
    ASSUME NEW S \in SUBSET (1..HistSize), NEW T, T = {a + 1 : a \in S \ {HistSize}}
    PROVE  /\ T \in SUBSET (1..HistSize) /\ 1 \notin T
           /\ Cardinality(T) <= Cardinality(S)
           /\ HistSize \in S => Cardinality(T) <= Cardinality(S) - 1
<1> DEFINE R == S \ {HistSize}
<1>1. HistSize \in Nat \ {0} /\ R \in SUBSET (1..HistSize) /\ \A a \in R : a \in 1..(HistSize - 1)
  BY BlockHammerAssumption
<1>2. T \in SUBSET (1..HistSize) /\ 1 \notin T
  BY <1>1
<1>3. /\ IsFiniteSet(S) /\ Cardinality(S) \in Nat /\ IsFiniteSet(R) /\ Cardinality(R) \in Nat
      /\ Cardinality(T) \in Nat
  BY <1>1, <1>2, AgesFinite
<1>4. Cardinality(R) = IF HistSize \in S THEN Cardinality(S) - 1 ELSE Cardinality(S)
  BY <1>3, FS_RemoveElement
<1> DEFINE f == [a \in R |-> a + 1]
<1>5. f \in Surjection(R, T)
  BY DEF Surjection
<1> HIDE DEF f, R
<1>6. Cardinality(T) <= Cardinality(R)
  BY <1>3, <1>5, FS_Surjection
<1> QED
  BY <1>2, <1>3, <1>4, <1>6

(* What a tick leaves before an activation is written.                     *)
LEMMA HistoryNow ==
    ASSUME HistoryInv
    PROVE  /\ ElemNow \in [BhRanks -> [BhRows -> Nat]]
           /\ RecentNow \in [BhRanks -> [BhRows -> SUBSET (1..HistSize)]]
           /\ \A k \in BhRanks, r \in BhRows : 1 \notin RecentNow[k][r]
           /\ Remembers(ElemNow, RecentNow, EarlyNow)
<1>1. /\ elem_counter \in [BhRanks -> [BhRows -> Nat]]
      /\ recent \in [BhRanks -> [BhRows -> SUBSET (1..HistSize)]]
  BY DEF HistoryInv, HistoryTyped
<1> DEFINE aged(k, r) == {a + 1 : a \in recent[k][r] \ {HistSize}}
<1>2. RecentNow = [k \in BhRanks |-> [r \in BhRows |-> aged(k, r)]]
  BY DEF RecentNow
<1>3. ASSUME NEW k \in BhRanks, NEW r \in BhRows
      PROVE  /\ aged(k, r) \in SUBSET (1..HistSize) /\ 1 \notin aged(k, r)
             /\ Cardinality(aged(k, r)) <= Cardinality(recent[k][r])
             /\ HistSize \in recent[k][r] =>
                   Cardinality(aged(k, r)) <= Cardinality(recent[k][r]) - 1
  <2>1. recent[k][r] \in SUBSET (1..HistSize)
    BY <1>1
  <2> QED
    BY <2>1, OlderFacts
<1> HIDE DEF aged
<1>4. /\ RecentNow \in [BhRanks -> [BhRows -> SUBSET (1..HistSize)]]
      /\ \A k \in BhRanks, r \in BhRows : RecentNow[k][r] = aged(k, r) /\ 1 \notin RecentNow[k][r]
  BY <1>2, <1>3
<1> DEFINE less(k) ==
      IF TakesOff(k) THEN [elem_counter[k] EXCEPT ![history[k][SlotNow]] = @ - 1] ELSE elem_counter[k]
<1>5. ElemNow = [k \in BhRanks |-> less(k)]
  BY DEF ElemNow
<1>6. ASSUME NEW k \in BhRanks
      PROVE  /\ less(k) \in [BhRows -> Nat]
             /\ \A r \in BhRows :
                   less(k)[r] = IF TakesOff(k) /\ r = history[k][SlotNow] THEN elem_counter[k][r] - 1
                                ELSE elem_counter[k][r]
  <2> DEFINE row == history[k][SlotNow]
             e == elem_counter[k]
  <2>1. e \in [BhRows -> Nat]
    BY <1>1
  <2>2. TakesOff(k) => e[row] > 0
    BY DEF TakesOff
  <2>3. less(k) = IF TakesOff(k) THEN [e EXCEPT ![row] = @ - 1] ELSE e
    OBVIOUS
  <2> HIDE DEF row, e, less
  <2>4. \A r \in BhRows : [e EXCEPT ![row] = @ - 1][r] = IF r = row THEN e[r] - 1 ELSE e[r]
    BY <2>1
  <2>5. TakesOff(k) => [e EXCEPT ![row] = @ - 1] \in [BhRows -> Nat]
    <3>1. TakesOff(k) => \A r \in BhRows : (IF r = row THEN e[r] - 1 ELSE e[r]) \in Nat
      BY <2>1, <2>2
    <3> QED
      BY <2>1, <2>4, <3>1
  <2>6. less(k) \in [BhRows -> Nat]
    BY <2>1, <2>3, <2>5
  <2>7. \A r \in BhRows : less(k)[r] = IF TakesOff(k) /\ r = row THEN e[r] - 1 ELSE e[r]
    BY <2>3, <2>4
  <2> QED
    BY <2>6, <2>7 DEF row, e
<1> HIDE DEF less
<1>7. /\ ElemNow \in [BhRanks -> [BhRows -> Nat]]
      /\ \A k \in BhRanks : ElemNow[k] = less(k)
  BY <1>5, <1>6
<1>8. ASSUME NEW k \in BhRanks, NEW r \in BhRows, r \notin EarlyNow[k]
      PROVE  Cardinality(RecentNow[k][r]) <= ElemNow[k][r]
  <2> DEFINE row == history[k][SlotNow]
             stale == TakesOff(k) /\ HistSize \notin recent[k][row]
             old == Cardinality(recent[k][r])
             new == Cardinality(aged(k, r))
             c == elem_counter[k][r]
  <2>1. EarlyNow[k] =
          {x \in early[k] \cup (IF stale THEN {row} ELSE {}) : RecentNow[k][x] # {}}
    BY DEF EarlyNow
  <2>2. RecentNow[k][r] = aged(k, r) /\ ElemNow[k][r] \in Nat
    BY <1>4, <1>7
  <2>3. CASE aged(k, r) = {}
    BY <2>2, <2>3, FS_EmptySet
  <2>4. CASE aged(k, r) # {}
    <3>1. r \notin early[k] /\ ~(stale /\ r = row)
      BY <1>8, <2>1, <2>2, <2>4
    <3>2. old <= c
      BY <3>1 DEF HistoryInv, Remembers
    <3>3. old \in Nat /\ new \in Nat /\ c \in Nat
      BY <1>1, <1>3, AgesFinite
    <3>4. ElemNow[k][r] = IF TakesOff(k) /\ r = row THEN c - 1 ELSE c
      BY <1>6, <1>7
    <3>5. new <= old /\ (HistSize \in recent[k][r] => new <= old - 1)
      BY <1>3
    <3>6. TakesOff(k) /\ r = row => HistSize \in recent[k][r]
      BY <3>1
    <3> HIDE DEF old, new, c, row, stale
    <3>7. new <= ElemNow[k][r]
      BY <3>2, <3>3, <3>4, <3>5, <3>6
    <3> QED
      BY <2>2, <3>7 DEF new
  <2> QED
    BY <2>3, <2>4
<1> QED
  BY <1>4, <1>7, <1>8 DEF Remembers

LEMMA HistoryIdleStep ==
    ASSUME HistoryInv, HistoryIdle
    PROVE  HistoryInv'
BY HistoryNow DEF HistoryIdle, HistoryInv, HistoryTyped, Remembers

LEMMA HistoryInsertStep ==
    ASSUME HistoryInv, NEW k \in BhRanks, NEW r \in BhRows, HistoryInsert(k, r)
    PROVE  HistoryInv'
<1>1. /\ ElemNow \in [BhRanks -> [BhRows -> Nat]]
      /\ RecentNow \in [BhRanks -> [BhRows -> SUBSET (1..HistSize)]]
      /\ 1 \notin RecentNow[k][r] /\ Remembers(ElemNow, RecentNow, EarlyNow)
  BY HistoryNow
<1>2. /\ elem_counter' = [ElemNow EXCEPT ![k][r] = @ + 1]
      /\ recent' = [RecentNow EXCEPT ![k][r] = @ \cup {1}]
      /\ early' = EarlyNow
  BY DEF HistoryInsert
<1> DEFINE E == ElemNow
           R == RecentNow
<1> HIDE DEF E, R
<1>3. /\ elem_counter' \in [BhRanks -> [BhRows -> Nat]]
      /\ \A j \in BhRanks, x \in BhRows :
            elem_counter'[j][x] = IF j = k /\ x = r THEN E[j][x] + 1 ELSE E[j][x]
  <2> DEFINE e == [E[k] EXCEPT ![r] = @ + 1]
  <2>1. E \in [BhRanks -> [BhRows -> Nat]] /\ elem_counter' = [E EXCEPT ![k] = e]
    BY <1>1, <1>2 DEF E
  <2>2. e \in [BhRows -> Nat] /\ \A x \in BhRows : e[x] = IF x = r THEN E[k][x] + 1 ELSE E[k][x]
    BY <2>1
  <2> HIDE DEF e
  <2> QED
    BY <2>1, <2>2
<1>4. 1 \in 1..HistSize
  BY BlockHammerAssumption
<1>5. /\ recent' \in [BhRanks -> [BhRows -> SUBSET (1..HistSize)]]
      /\ \A j \in BhRanks, x \in BhRows :
            recent'[j][x] = IF j = k /\ x = r THEN R[j][x] \cup {1} ELSE R[j][x]
  <2> DEFINE e == [R[k] EXCEPT ![r] = @ \cup {1}]
  <2>1. R \in [BhRanks -> [BhRows -> SUBSET (1..HistSize)]] /\ recent' = [R EXCEPT ![k] = e]
    BY <1>1, <1>2 DEF R
  <2>2. R[k] \in [BhRows -> SUBSET (1..HistSize)] /\ R[k][r] \cup {1} \in SUBSET (1..HistSize)
    BY <1>4, <2>1
  <2>3. e \in [BhRows -> SUBSET (1..HistSize)]
        /\ \A x \in BhRows : e[x] = IF x = r THEN R[k][x] \cup {1} ELSE R[k][x]
    BY <2>2
  <2> HIDE DEF e
  <2> QED
    BY <2>1, <2>3
<1>6. ASSUME NEW j \in BhRanks, NEW x \in BhRows, x \notin early'[j]
      PROVE  Cardinality(recent'[j][x]) <= elem_counter'[j][x]
  <2>1. Cardinality(R[j][x]) <= E[j][x] /\ E[j][x] \in Nat
    BY <1>1, <1>2, <1>6 DEF Remembers, E, R
  <2>2. CASE j = k /\ x = r
    <3>1. 1 \notin R[j][x] /\ IsFiniteSet(R[j][x]) /\ Cardinality(R[j][x]) \in Nat
      BY <1>1, <2>2, AgesFinite DEF R
    <3>2. Cardinality(R[j][x] \cup {1}) = Cardinality(R[j][x]) + 1
      BY <3>1, FS_AddElement
    <3>3. recent'[j][x] = R[j][x] \cup {1} /\ elem_counter'[j][x] = E[j][x] + 1
      BY <1>3, <1>5, <2>2
    <3> QED
      BY <2>1, <3>1, <3>2, <3>3
  <2>3. CASE ~(j = k /\ x = r)
    <3>1. recent'[j][x] = R[j][x] /\ elem_counter'[j][x] = E[j][x]
      BY <1>3, <1>5, <2>3
    <3> QED
      BY <2>1, <3>1
  <2> QED
    BY <2>2, <2>3
<1> QED
  BY <1>3, <1>5, <1>6 DEF HistoryInv, HistoryTyped, Remembers

LEMMA InitHistory == BlockHammerInit => HistoryInv
<1> SUFFICES ASSUME BlockHammerInit
             PROVE  HistoryInv
  OBVIOUS
<1>1. HistoryTyped
  BY DEF BlockHammerInit, HistoryTyped
<1>2. \A k \in BhRanks, r \in BhRows : recent[k][r] = {} /\ elem_counter[k][r] = 0
  BY DEF BlockHammerInit
<1>3. Cardinality({}) = 0
  BY FS_EmptySet
<1>4. \A k \in BhRanks, r \in BhRows : Cardinality(recent[k][r]) <= elem_counter[k][r]
  <2> SUFFICES ASSUME NEW k \in BhRanks, NEW r \in BhRows
               PROVE  Cardinality(recent[k][r]) <= elem_counter[k][r]
    OBVIOUS
  <2>1. recent[k][r] = {} /\ elem_counter[k][r] = 0
    BY <1>2
  <2> QED
    BY <1>3, <2>1
<1> QED
  BY <1>1, <1>4 DEF HistoryInv, Remembers

-----------------------------------------------------------------------------
(* BlockHammer: the plugin behind its scheduler.                           *)
BlockHammerInv ==
    /\ plugin = "BlockHammer" /\ FiltersInv /\ HistoryInv /\ bh_buffer \in Seq(HotPlaces)

LEMMA RemoveOne ==
    ASSUME NEW S, NEW t \in Seq(S), NEW i \in 1..Len(t)
    PROVE  /\ RemoveAt(t, i) \in Seq(S)
           /\ \A j \in 1..Len(t) : j # i => Contains(RemoveAt(t, i), t[j])
<1> DEFINE a == SubSeq(t, 1, i - 1)
           z == SubSeq(t, i + 1, Len(t))
<1>1. Len(t) \in Nat /\ i \in Nat
  OBVIOUS
<1>2. a \in Seq(S) /\ Len(a) = i - 1 /\ \A k \in 1..(i - 1) : a[k] = t[k]
  BY <1>1
<1>3. z \in Seq(S) /\ Len(z) = Len(t) - i /\ \A k \in 1..(Len(t) - i) : z[k] = t[k + i]
  BY <1>1
<1>4. RemoveAt(t, i) = a \o z
  BY DEF RemoveAt
<1> HIDE DEF a, z
<1>5. a \o z \in Seq(S) /\ Len(a \o z) = Len(a) + Len(z)
  <2>1. a \in Seq(S) /\ z \in Seq(S)
    BY <1>2, <1>3
  <2> QED
    BY <2>1
<1>6. \A k \in 1..(Len(a) + Len(z)) :
        (a \o z)[k] = IF k <= Len(a) THEN a[k] ELSE z[k - Len(a)]
  <2>1. a \in Seq(S) /\ z \in Seq(S)
    BY <1>2, <1>3
  <2> QED
    BY <2>1
<1>7. Len(a) + Len(z) = Len(t) - 1
  <2>1. Len(a) = i - 1 /\ Len(z) = Len(t) - i
    BY <1>2, <1>3
  <2> QED
    BY <1>1, <2>1
<1>8. ASSUME NEW j \in 1..Len(t), j # i
      PROVE  \E k \in 1..Len(a \o z) : (a \o z)[k] = t[j]
  <2>1. CASE j < i
    <3>1. j \in 1..(Len(a) + Len(z)) /\ j <= Len(a) /\ j \in 1..(i - 1)
      BY <1>1, <1>2, <1>7, <2>1
    <3>2. (a \o z)[j] = t[j]
      BY <1>2, <1>6, <3>1
    <3> QED
      BY <1>5, <3>1, <3>2
  <2>2. CASE ~(j < i)
    <3>1. /\ j - 1 \in 1..(Len(a) + Len(z)) /\ ~(j - 1 <= Len(a))
          /\ (j - 1) - Len(a) = j - i /\ j - i \in 1..(Len(t) - i) /\ (j - i) + i = j
      BY <1>1, <1>2, <1>7, <1>8, <2>2
    <3>2. (a \o z)[j - 1] = t[j]
      BY <1>3, <1>6, <3>1
    <3> QED
      BY <1>5, <3>1, <3>2
  <2> QED
    BY <2>1, <2>2
<1> QED
  BY <1>4, <1>5, <1>8 DEF Contains

(* A set of numbers has a least one.                                       *)
LEMMA NatMin ==
    ASSUME NEW S \in SUBSET Nat, S # {}
    PROVE  \E x \in S : \A y \in S : x <= y
<1> DEFINE R == {ss \in Nat \X Nat : ss[1] < ss[2]}
<1>1. IsWellFoundedOn(R, Nat)
  BY NatLessThanWellFounded, Zenon DEF OpToRel
<1>2. \A x, y \in Nat : <<y, x>> \notin R => x <= y
  OBVIOUS
<1> HIDE DEF R
<1>3. \E x \in S : \A y \in S : <<y, x>> \notin R
  BY <1>1, WFMin
<1> QED
  BY <1>2, <1>3

LEMMA CandidateFacts ==
    ASSUME bh_buffer \in Seq(HotPlaces), Eligible # {}
    PROVE  Candidate \in Eligible /\ Candidate \in 1..Len(bh_buffer)
<1>1. Eligible \in SUBSET Nat /\ Eligible \subseteq 1..Len(bh_buffer)
  BY DEF Eligible
<1>2. \E x \in Eligible : \A y \in Eligible : x <= y
  BY <1>1, NatMin
<1>3. Candidate \in Eligible
  BY <1>2 DEF Candidate, Min
<1> QED
  BY <1>1, <1>3

LEMMA InitBlockHammer == BlockHammerInit => BlockHammerInv
BY InitFilters, InitHistory DEF BlockHammerInit, BlockHammerInv

LEMMA StepBlockHammer ==
    BlockHammerInv /\ [BlockHammerNext]_<<trackers, blockHammer>> => BlockHammerInv'
<1> SUFFICES ASSUME BlockHammerInv, [BlockHammerNext]_<<trackers, blockHammer>>
             PROVE  BlockHammerInv'
  OBVIOUS
<1>1. FiltersInv /\ HistoryInv /\ bh_buffer \in Seq(HotPlaces) /\ plugin = "BlockHammer"
  BY DEF BlockHammerInv
<1>2. CASE BhIdle /\ UNCHANGED trackers
  <2>1. FiltersInv' /\ HistoryInv'
    BY <1>1, <1>2, FiltersIdleStep, HistoryIdleStep DEF BhIdle
  <2> QED
    BY <1>1, <1>2, <2>1 DEF BhIdle, trackers, BlockHammerInv
<1>3. CASE BhActivate /\ UNCHANGED trackers
  <2>1. Candidate \in 1..Len(bh_buffer) /\ bh_buffer' = RemoveAt(bh_buffer, Candidate)
    BY <1>1, <1>3, CandidateFacts DEF BhActivate
  <2> DEFINE h == bh_buffer[Candidate]
  <2>2. h \in HotPlaces
    BY <1>1, <2>1
  <2>3. HistoryInsert(RankOf(h[1]), h[2]) /\ FilterInsert(h[1], h[2])
    BY <1>3 DEF BhActivate
  <2> HIDE DEF h
  <2>4. h[2] \in BhRows /\ RankOf(h[1]) \in BhRanks
    BY <2>2, BhPlace
  <2>5. FiltersInv' /\ HistoryInv'
    BY <1>1, <2>2, <2>3, <2>4, FiltersInsertStep, HistoryInsertStep
  <2>6. bh_buffer' \in Seq(HotPlaces)
    BY <1>1, <2>1, RemoveOne
  <2> QED
    BY <1>1, <1>3, <2>5, <2>6 DEF trackers, BlockHammerInv
<1>4. ASSUME NEW h \in HotPlaces, BhSend(h)
      PROVE  BlockHammerInv'
  <2>1. bh_buffer' \in Seq(HotPlaces)
    BY <1>1, <1>4 DEF BhSend
  <2>2. UNCHANGED <<trackers, filterVars, historyVars>>
    BY <1>4 DEF BhSend
  <2> QED
    BY <1>1, <2>1, <2>2
       DEF BlockHammerInv, trackers, filterVars, historyVars, FiltersInv, FiltersTyped, Covers, Age,
           HistoryInv, HistoryTyped, Remembers
<1>5. CASE UNCHANGED <<trackers, blockHammer>>
  BY <1>1, <1>5
     DEF BlockHammerInv, trackers, blockHammer, filterVars, historyVars, FiltersInv, FiltersTyped,
         Covers, Age, HistoryInv, HistoryTyped, Remembers
<1> QED
  BY <1>2, <1>3, <1>4, <1>5 DEF BlockHammerNext, BhTick

LEMMA BlockHammerInvHolds == BlockHammerSpec => []BlockHammerInv
BY InitBlockHammer, StepBlockHammer, PTL DEF BlockHammerSpec

(* BlockHammer: a row activated as often as the threshold says within the  *)
(* epochs the filters remember is blacklisted, whatever rows share its     *)
(* counters, for any hash functions, sizes and number of filters.          *)
THEOREM HotOnesBlacklisted == BlockHammerSpec => []HotRowsBlacklisted
<1>1. BlockHammerInv => HotRowsBlacklisted
  BY HotOnesTested DEF BlockHammerInv
<1> QED
  BY <1>1, BlockHammerInvHolds, PTL

LEMMA HeldBackStep ==
    ASSUME HistMaxFreq >= 1, BlockHammerInv, [BlockHammerNext]_<<trackers, blockHammer>>,
           NEW i \in DOMAIN bh_buffer,
           ~Contains(bh_buffer', bh_buffer[i]), Blacklisted(bh_buffer[i][1], bh_buffer[i][2])
    PROVE  \/ Cardinality(recent[RankOf(bh_buffer[i][1])][bh_buffer[i][2]]) < HistMaxFreq
           \/ bh_buffer[i][2] \in early[RankOf(bh_buffer[i][1])]
<1> DEFINE h == bh_buffer[i]
           k == RankOf(h[1])
           r == h[2]
<1>1. /\ bh_buffer \in Seq(HotPlaces) /\ HistoryInv
      /\ DOMAIN bh_buffer = 1..Len(bh_buffer) /\ Len(bh_buffer) \in Nat
  BY DEF BlockHammerInv
<1>2. Contains(bh_buffer, h)
  BY <1>1 DEF Contains
<1>3. h \in HotPlaces
  BY <1>1
<1>4. CASE BhActivate
  <2>1. /\ Candidate \in Eligible /\ Candidate \in 1..Len(bh_buffer)
        /\ bh_buffer' = RemoveAt(bh_buffer, Candidate)
    BY <1>1, <1>4, CandidateFacts DEF BhActivate
  <2>2. i = Candidate
    BY <1>1, <2>1, RemoveOne
  <2>3. ActSafe(h)
    BY <2>1, <2>2 DEF Eligible
  <2>4. ~Held(k, r)
    BY <2>3 DEF ActSafe
  <2>5. k \in BhRanks /\ r \in BhRows
    BY <1>3, BhPlace
  <2> HIDE DEF h, k, r
  <2>6. elem_counter[k][r] \in Nat /\ recent[k][r] \in SUBSET (1..HistSize)
    BY <1>1, <2>5 DEF HistoryInv, HistoryTyped
  <2>7. elem_counter[k][r] < HistMaxFreq
    BY <2>4, <2>6, BlockHammerAssumption DEF Held
  <2>8. r \notin early[k] => Cardinality(recent[k][r]) <= elem_counter[k][r]
    BY <1>1, <2>5 DEF HistoryInv, Remembers
  <2>9. Cardinality(recent[k][r]) \in Nat
    BY <2>6, AgesFinite
  <2>10. r \notin early[k] => Cardinality(recent[k][r]) < HistMaxFreq
    BY <2>6, <2>7, <2>8, <2>9, BlockHammerAssumption
  <2> QED
    BY <2>10 DEF h, k, r
<1>5. CASE BhIdle \/ UNCHANGED <<trackers, blockHammer>>
  <2>1. bh_buffer' = bh_buffer
    BY <1>5 DEF BhIdle, blockHammer
  <2> QED
    BY <1>2, <2>1
<1>6. ASSUME NEW g \in HotPlaces, BhSend(g)
      PROVE  FALSE
  <2>1. bh_buffer' = Append(bh_buffer, g)
    BY <1>6 DEF BhSend
  <2>2. Contains(bh_buffer', h)
    <3>1. i \in 1..Len(bh_buffer') /\ bh_buffer'[i] = h
      BY <1>1, <1>6, <2>1
    <3> HIDE DEF h
    <3> QED
      BY <3>1 DEF Contains
  <2> QED
    BY <2>2
<1> QED
  BY <1>4, <1>5, <1>6 DEF BlockHammerNext, BhTick

(* BlockHammer: a blacklisted row is activated again only when fewer       *)
(* activations of it than allowed lie in the history, or an older entry    *)
(* has taken it off, for every size of the history.                        *)
THEOREM ActivationsHeldBack ==
    ASSUME HistMaxFreq >= 1
    PROVE  BlockHammerSpec => HeldBack
<1>1. BlockHammerInv /\ [BlockHammerNext]_<<trackers, blockHammer>>
        => [\A i \in DOMAIN bh_buffer :
              LET h == bh_buffer[i]
                  k == RankOf(h[1])
              IN  ~Contains(bh_buffer', h) /\ Blacklisted(h[1], h[2]) =>
                     Cardinality(recent[k][h[2]]) < HistMaxFreq \/ h[2] \in early[k]]_blockHammer
  BY HeldBackStep
<1> QED
  BY <1>1, BlockHammerInvHolds, PTL DEF BlockHammerSpec, HeldBack

-----------------------------------------------------------------------------
(* RRS and AQUA: an entry of the hot-row tracker, taken modulo the         *)
(* threshold, covers the activations of a place since its data has moved,  *)
(* and the spillover counter those of a place without an entry.  The       *)
(* counter is zero until the table is full.                                *)
GoesOn(reason) == reason = ""
Entries(t) ==
    IsFunction(t) /\ IsFiniteSet(DOMAIN t) /\ \A p \in DOMAIN t : t[p] \in Nat
HrtCover(t, s, p) == IF p \in DOMAIN t THEN t[p] % MoveThreshold ELSE s
HrtOK(t, s, a) ==
    /\ Entries(t) /\ s \in Nat /\ a \in [Places -> Nat]
    /\ Cardinality(DOMAIN t) < NumHrtEntries => s = 0
    /\ s < MoveThreshold => \A p \in Places : a[p] <= HrtCover(t, s, p)

HotRowsInv ==
    /\ plugin \in {"RRS", "AQUA"}
    /\ GoesOn(halted) => \A b \in Banks : HrtOK(table[b], spill[b], acts[b])
    /\ GoesOn(halted) => spill \in [Banks -> Nat] /\ acts \in [Banks -> [Places -> Nat]]

LEMMA UpdatedAt ==
    ASSUME NEW e, IsFunction(e), NEW r \in DOMAIN e, NEW v
    PROVE  /\ IsFunction([e EXCEPT ![r] = v]) /\ DOMAIN [e EXCEPT ![r] = v] = DOMAIN e
           /\ [e EXCEPT ![r] = v][r] = v
           /\ \A x \in DOMAIN e : x # r => [e EXCEPT ![r] = v][x] = e[x]
BY DEF IsFunction

LEMMA NoEntriesAt == IsFunction(NoEntries) /\ DOMAIN NoEntries = {}
BY DEF NoEntries, IsFunction

LEMMA ThresholdMod ==
    ASSUME NEW n \in Nat
    PROVE  /\ n % MoveThreshold \in 0..(MoveThreshold - 1) /\ n % MoveThreshold <= n
           /\ n < MoveThreshold => n % MoveThreshold = n
           /\ (n + 1) % MoveThreshold \in {0, (n % MoveThreshold) + 1}
           /\ MoveThreshold % MoveThreshold = 0
<1> DEFINE m == MoveThreshold
           q == n \div m
           r == n % m
<1>1. m \in Nat /\ m > 0
  BY SwapAssumption
<1>2. q \in Nat /\ r \in 0..(m - 1) /\ n = m * q + r
  BY <1>1, DivMod
<1>3. m * q \in Nat
  BY <1>1, <1>2
<1>4. r <= n
  <2> HIDE DEF q, r, m
  <2> QED
    BY <1>2, <1>3
<1>5. n < m => n % m = n
  BY <1>1, UniqueDivMod
<1>6. \A a \in Nat, x \in Nat, s \in 0..(m - 1) : a = m * x + s => a % m = s
  BY <1>1, UniqueDivMod
<1> HIDE DEF q, r
<1>8. (n + 1) % m \in {0, r + 1}
  <2>1. CASE r + 1 < m
    <3>1. n + 1 = m * q + (r + 1) /\ r + 1 \in 0..(m - 1)
      BY <1>1, <1>2, <1>3, <2>1
    <3> QED
      BY <1>2, <1>6, <3>1
  <2>2. CASE r + 1 >= m
    <3>1. r = m - 1
      BY <1>1, <1>2, <2>2
    <3>2. n + 1 = m * (q + 1) + 0
      BY <1>1, <1>2, <1>3, <3>1
    <3> QED
      BY <1>1, <1>2, <1>6, <3>2
  <2> QED
    BY <1>1, <1>2, <2>1, <2>2
<1>7. m % m = 0
  <2>1. m = m * 1 + 0
    BY <1>1
  <2> QED
    BY <1>1, <2>1, UniqueDivMod
<1> QED
  BY <1>2, <1>4, <1>5, <1>7, <1>8 DEF r

LEMMA TracksNow ==
    ASSUME NEW b \in Banks, HrtOK(table[b], spill[b], acts[b]), spill \in [Banks -> Nat]
    PROVE  HrtOK(HrtNow(b), SpillNow[b], MovesNow[b])
<1>1. CASE ~PeriodEnds
  BY <1>1 DEF HrtNow, SpillNow, MovesNow
<1>2. CASE PeriodEnds
  <2>1. HrtNow(b) = NoEntries /\ SpillNow[b] = 0 /\ MovesNow[b] = [r \in Places |-> 0]
    BY <1>2 DEF HrtNow, SpillNow, MovesNow, NoMoves
  <2>2. Entries(NoEntries)
    BY NoEntriesAt, FS_EmptySet DEF Entries
  <2> QED
    BY <2>1, <2>2, NoEntriesAt DEF HrtOK, HrtCover
<1> QED
  BY <1>1, <1>2

(* A row that has been counted: its entry, and those of the others.        *)
LEMMA TrackOne ==
    ASSUME NEW b \in Banks, NEW p, NEW hrt \in Trackings(b, p), NEW a,
           HrtOK(HrtNow(b), SpillNow[b], a)
    PROVE  /\ Entries(hrt) /\ p \in DOMAIN hrt
           /\ Cardinality(DOMAIN hrt) < NumHrtEntries => SpillNow[b] = 0
           /\ SpillNow[b] < MoveThreshold =>
                 /\ \A x \in Places : x # p => a[x] <= HrtCover(hrt, SpillNow[b], x)
                 /\ p \in Places /\ hrt[p] % MoveThreshold # 0 =>
                       a[p] + 1 <= HrtCover(hrt, SpillNow[b], p)
<1> DEFINE t == HrtNow(b)
           s == SpillNow[b]
<1>1. /\ Entries(t) /\ s \in Nat /\ a \in [Places -> Nat]
      /\ Cardinality(DOMAIN t) < NumHrtEntries => s = 0
      /\ s < MoveThreshold => \A x \in Places : a[x] <= HrtCover(t, s, x)
  BY DEF HrtOK
<1>2. MoveThreshold \in Nat \ {0}
  BY SwapAssumption
<1>3. CASE p \in DOMAIN t /\ hrt = [t EXCEPT ![p] = @ + 1]
  <2>1. /\ Entries(hrt) /\ DOMAIN hrt = DOMAIN t /\ hrt[p] = t[p] + 1 /\ t[p] \in Nat
        /\ \A x \in DOMAIN t : x # p => hrt[x] = t[x]
    <3> DEFINE v == t[p] + 1
    <3>1. hrt = [t EXCEPT ![p] = v] /\ p \in DOMAIN t /\ v \in Nat /\ t[p] \in Nat
      BY <1>1, <1>3 DEF Entries
    <3> HIDE DEF t, v
    <3>2. /\ IsFunction(hrt) /\ DOMAIN hrt = DOMAIN t /\ hrt[p] = v
          /\ \A x \in DOMAIN t : x # p => hrt[x] = t[x]
      BY <1>1, <3>1, UpdatedAt DEF Entries
    <3>3. Entries(hrt)
      BY <1>1, <3>1, <3>2 DEF Entries
    <3> QED
      BY <3>1, <3>2, <3>3 DEF v
  <2>2. hrt[p] % MoveThreshold \in {0, (t[p] % MoveThreshold) + 1}
    BY <2>1, ThresholdMod
  <2>3. t[p] % MoveThreshold \in Nat
    BY <1>2, <2>1, ThresholdMod
  <2>4. ASSUME s < MoveThreshold, NEW x \in Places, x # p
        PROVE  a[x] <= HrtCover(hrt, s, x)
    BY <1>1, <2>1, <2>4 DEF HrtCover
  <2>5. ASSUME s < MoveThreshold, p \in Places, hrt[p] % MoveThreshold # 0
        PROVE  a[p] + 1 <= HrtCover(hrt, s, p)
    <3>1. a[p] <= t[p] % MoveThreshold /\ a[p] \in Nat
      BY <1>1, <1>3, <2>5 DEF HrtCover
    <3> QED
      BY <1>3, <2>1, <2>2, <2>3, <2>5, <3>1 DEF HrtCover
  <2> QED
    BY <1>1, <1>3, <2>1, <2>4, <2>5
<1>4. CASE p \notin DOMAIN t /\ Cardinality(DOMAIN t) < NumHrtEntries /\ hrt = With(t, p, 1)
  <2>1. /\ IsFunction(hrt) /\ DOMAIN hrt = DOMAIN t \cup {p} /\ hrt[p] = 1
        /\ \A x \in DOMAIN t : hrt[x] = t[x]
    <3> HIDE DEF t
    <3>1. /\ IsFunction(With(t, p, 1)) /\ DOMAIN With(t, p, 1) = DOMAIN t \cup {p}
          /\ With(t, p, 1)[p] = 1
          /\ \A x \in DOMAIN t : x # p => With(t, p, 1)[x] = t[x]
      BY DEF With, IsFunction
    <3> QED
      BY <1>4, <3>1
  <2>2. Entries(hrt)
    BY <1>1, <2>1, FS_AddElement DEF Entries
  <2>3. s = 0
    BY <1>1, <1>4
  <2>4. ASSUME NEW x \in Places, x # p
        PROVE  a[x] <= HrtCover(hrt, s, x)
    BY <1>1, <1>2, <2>1, <2>3, <2>4 DEF HrtCover
  <2>5. ASSUME p \in Places, hrt[p] % MoveThreshold # 0
        PROVE  a[p] + 1 <= HrtCover(hrt, s, p)
    <3>1. a[p] <= 0 /\ a[p] \in Nat
      BY <1>1, <1>2, <1>4, <2>3, <2>5 DEF HrtCover
    <3>2. hrt[p] % MoveThreshold \in Nat
      BY <1>2, <2>1, ThresholdMod
    <3> QED
      BY <2>1, <2>5, <3>1, <3>2 DEF HrtCover
  <2> QED
    BY <2>1, <2>2, <2>3, <2>4, <2>5
<1>5. CASE /\ p \notin DOMAIN t /\ ~(Cardinality(DOMAIN t) < NumHrtEntries)
           /\ \E old \in DOMAIN t : t[old] = s /\ hrt = With(Emptied(t, old), p, s + 1)
  <2>1. PICK old \in DOMAIN t : t[old] = s /\ hrt = With(Emptied(t, old), p, s + 1)
    BY <1>5
  <2> DEFINE e == Emptied(t, old)
             v == s + 1
  <2>2. IsFunction(e) /\ DOMAIN e = DOMAIN t \ {old} /\ \A x \in DOMAIN t : x # old => e[x] = t[x]
    BY EmptiedAt
  <2> HIDE DEF e, v
  <2>3. /\ IsFunction(hrt) /\ DOMAIN hrt = DOMAIN e \cup {p} /\ hrt[p] = v
        /\ \A x \in DOMAIN e : x # p => hrt[x] = e[x]
    <3>1. /\ IsFunction(With(e, p, v)) /\ DOMAIN With(e, p, v) = DOMAIN e \cup {p}
          /\ With(e, p, v)[p] = v
          /\ \A x \in DOMAIN e : x # p => With(e, p, v)[x] = e[x]
      BY DEF With, IsFunction
    <3>2. hrt = With(e, p, v)
      BY <2>1 DEF e, v
    <3> QED
      BY <3>1, <3>2
  <2>4. IsFiniteSet(DOMAIN e) /\ Cardinality(DOMAIN e) = Cardinality(DOMAIN t) - 1
    BY <1>1, <2>2, FS_RemoveElement DEF Entries
  <2>5. IsFiniteSet(DOMAIN hrt) /\ Cardinality(DOMAIN hrt) = Cardinality(DOMAIN t)
    <3>1. p \notin DOMAIN e
      BY <1>5, <2>2
    <3>2. Cardinality(DOMAIN t) \in Nat
      BY <1>1, FS_CardinalityType DEF Entries
    <3>3. IsFiniteSet(DOMAIN e \cup {p}) /\ Cardinality(DOMAIN e \cup {p}) = Cardinality(DOMAIN e) + 1
      BY <2>4, <3>1, FS_AddElement
    <3> QED
      BY <2>3, <2>4, <3>2, <3>3
  <2>6. Entries(hrt)
    BY <1>1, <2>2, <2>3, <2>5 DEF Entries, v
  <2>7. ASSUME s < MoveThreshold, NEW x \in Places, x # p
        PROVE  a[x] <= HrtCover(hrt, s, x)
    <3>1. a[x] <= HrtCover(t, s, x) /\ a[x] \in Nat
      BY <1>1, <2>7
    <3>2. CASE x = old
      <4>1. a[x] <= s % MoveThreshold /\ s % MoveThreshold <= s /\ s % MoveThreshold \in Nat
        BY <1>1, <1>2, <2>1, <3>1, <3>2, ThresholdMod DEF HrtCover
      <4>2. x \notin DOMAIN hrt
        BY <2>2, <2>3, <2>7, <3>2
      <4> QED
        BY <1>1, <3>1, <4>1, <4>2 DEF HrtCover
    <3>3. CASE x # old
      BY <2>2, <2>3, <2>7, <3>1, <3>3 DEF HrtCover
    <3> QED
      BY <3>2, <3>3
  <2>8. ASSUME s < MoveThreshold, p \in Places, hrt[p] % MoveThreshold # 0
        PROVE  a[p] + 1 <= HrtCover(hrt, s, p)
    <3>1. a[p] <= s /\ a[p] \in Nat
      BY <1>1, <1>5, <2>8 DEF HrtCover
    <3>2. s + 1 # MoveThreshold
      BY <2>3, <2>8, ThresholdMod DEF v
    <3>3. s + 1 \in Nat /\ s + 1 < MoveThreshold
      BY <1>1, <1>2, <2>8, <3>2
    <3>4. (s + 1) % MoveThreshold = s + 1
      BY <3>3, ThresholdMod
    <3> QED
      BY <1>1, <2>3, <3>1, <3>4 DEF HrtCover, v
  <2> QED
    BY <1>1, <2>3, <2>5, <2>6, <2>7, <2>8
<1>6. \/ p \in DOMAIN t /\ hrt = [t EXCEPT ![p] = @ + 1]
      \/ p \notin DOMAIN t /\ Cardinality(DOMAIN t) < NumHrtEntries /\ hrt = With(t, p, 1)
      \/ /\ p \notin DOMAIN t /\ ~(Cardinality(DOMAIN t) < NumHrtEntries)
         /\ \E old \in DOMAIN t : t[old] = s /\ hrt = With(Emptied(t, old), p, s + 1)
  BY DEF Trackings
<1> QED
  BY <1>3, <1>4, <1>5, <1>6

(* A bank on the way through update(), and what each change leaves alone.  *)
IsBank(st) ==
    st = [rit |-> st.rit, rpt |-> st.rpt, data |-> st.data, moved |-> st.moved, stop |-> st.stop]

Entered(st, src, dst, new) ==
    /\ IsBank(new)
    /\ new.rit = With(With(st.rit, src, [dst_row |-> dst, lock |-> TRUE]), dst,
                     [dst_row |-> src, lock |-> TRUE])
    /\ new.rpt = st.rpt /\ new.data = st.data /\ new.moved = st.moved
    /\ new.stop \in {"RIT is full", st.stop}
Removed(st, src, dst, new) ==
    /\ IsBank(new) /\ new.rit = Emptied(Emptied(st.rit, src), dst)
    /\ new.rpt = st.rpt /\ new.data = st.data /\ new.moved = st.moved /\ new.stop = st.stop
Swapped(st, src, dst, new) ==
    /\ IsBank(new) /\ new.moved = st.moved \cup {src, dst}
    /\ new.data = [st.data EXCEPT ![src] = st.data[dst], ![dst] = st.data[src]]
    /\ new.rit = st.rit /\ new.rpt = st.rpt /\ new.stop = st.stop
Migrated(st, src, dst, new) ==
    /\ IsBank(new) /\ new.moved = st.moved \cup {src, dst}
    /\ new.data = [st.data EXCEPT ![dst] = st.data[src], ![src] = Vacant]
    /\ new.rit = st.rit /\ new.rpt = st.rpt /\ new.stop = st.stop

LEMMA InsertEntryAt ==
    ASSUME NEW st, IsBank(st), NEW src, NEW dst
    PROVE  Entered(st, src, dst, InsertEntry(st, src, dst))
<1> DEFINE t == With(With(st.rit, src, [dst_row |-> dst, lock |-> TRUE]), dst, [dst_row |-> src, lock |-> TRUE])
           stop == IF Cardinality(DOMAIN t) > NumRitEntries THEN "RIT is full" ELSE st.stop
           mid == [st EXCEPT !.rit = t]
           new == [mid EXCEPT !.stop = stop]
<1>1. InsertEntry(st, src, dst) = new
  BY DEF InsertEntry
<1>2. stop \in {"RIT is full", st.stop}
  OBVIOUS
<1> HIDE DEF t, stop
<1>5. /\ IsBank(mid) /\ mid.rit = t /\ mid.stop = st.stop
      /\ mid.rpt = st.rpt /\ mid.data = st.data /\ mid.moved = st.moved
  BY DEF IsBank
<1> HIDE DEF mid
<1>3. /\ IsBank(new) /\ new.rit = mid.rit /\ new.stop = stop
      /\ new.rpt = mid.rpt /\ new.data = mid.data /\ new.moved = mid.moved
  BY <1>5 DEF IsBank
<1> HIDE DEF new
<1>4. Entered(st, src, dst, new)
  BY <1>2, <1>3, <1>5 DEF Entered, t
<1> QED
  BY <1>1, <1>4 DEF new, mid

LEMMA RemoveEntryAt ==
    ASSUME NEW st, IsBank(st), NEW src, NEW dst
    PROVE  Removed(st, src, dst, RemoveEntry(st, src, dst))
<1> DEFINE t == Emptied(Emptied(st.rit, src), dst)
           new == [st EXCEPT !.rit = t]
<1>1. RemoveEntry(st, src, dst) = new
  BY DEF RemoveEntry
<1> HIDE DEF t
<1>2. /\ IsBank(new) /\ new.rit = t /\ new.stop = st.stop
      /\ new.rpt = st.rpt /\ new.data = st.data /\ new.moved = st.moved
  BY DEF IsBank
<1> HIDE DEF new
<1>3. Removed(st, src, dst, new)
  BY <1>2 DEF Removed, t
<1> QED
  BY <1>1, <1>3

LEMMA SwapAt ==
    ASSUME NEW st, IsBank(st), NEW src, NEW dst
    PROVE  Swapped(st, src, dst, Swap(st, src, dst))
<1> DEFINE d == [st.data EXCEPT ![src] = st.data[dst], ![dst] = st.data[src]]
           m == st.moved \cup {src, dst}
           mid == [st EXCEPT !.data = d]
           new == [mid EXCEPT !.moved = m]
<1>1. Swap(st, src, dst) = new
  BY DEF Swap
<1> HIDE DEF d, m
<1>4. /\ IsBank(mid) /\ mid.data = d /\ mid.moved = st.moved
      /\ mid.rpt = st.rpt /\ mid.rit = st.rit /\ mid.stop = st.stop
  BY DEF IsBank
<1> HIDE DEF mid
<1>2. /\ IsBank(new) /\ new.data = mid.data /\ new.moved = m
      /\ new.rpt = mid.rpt /\ new.rit = mid.rit /\ new.stop = mid.stop
  BY <1>4 DEF IsBank
<1> HIDE DEF new
<1>3. Swapped(st, src, dst, new)
  BY <1>2, <1>4 DEF Swapped, d, m
<1> QED
  BY <1>1, <1>3 DEF new, mid

LEMMA MigrateAt ==
    ASSUME NEW st, IsBank(st), NEW src, NEW dst
    PROVE  Migrated(st, src, dst, Migrate(st, src, dst))
<1> DEFINE d == [st.data EXCEPT ![dst] = st.data[src], ![src] = Vacant]
           m == st.moved \cup {src, dst}
           mid == [st EXCEPT !.data = d]
           new == [mid EXCEPT !.moved = m]
<1>1. Migrate(st, src, dst) = new
  BY DEF Migrate
<1> HIDE DEF d, m
<1>4. /\ IsBank(mid) /\ mid.data = d /\ mid.moved = st.moved
      /\ mid.rpt = st.rpt /\ mid.rit = st.rit /\ mid.stop = st.stop
  BY DEF IsBank
<1> HIDE DEF mid
<1>2. /\ IsBank(new) /\ new.data = mid.data /\ new.moved = m
      /\ new.rpt = mid.rpt /\ new.rit = mid.rit /\ new.stop = mid.stop
  BY <1>4 DEF IsBank
<1> HIDE DEF new
<1>3. Migrated(st, src, dst, new)
  BY <1>2, <1>4 DEF Migrated, d, m
<1> QED
  BY <1>1, <1>3 DEF new, mid

LEMMA StartAt ==
    ASSUME NEW b
    PROVE  LET st == Start(b)
           IN  /\ IsBank(st) /\ st.rit = RitNow(b) /\ st.rpt = rpt[b] /\ st.data = data[b]
               /\ st.moved = {} /\ GoesOn(st.stop)
BY DEF Start, IsBank, GoesOn

(* Room is made, or the simulator stops.                                   *)
LEMMA RoomAt ==
    ASSUME NEW st, IsBank(st), NEW hrt, NEW x \in WithRoom(st, hrt)
    PROVE  /\ IsBank(x)
           /\ \/ x = st
              \/ ~GoesOn(x.stop)
              \/ \E r \in DOMAIN st.rit : \E y :
                    Swapped(st, r, st.rit[r].dst_row, y) /\ Removed(y, r, st.rit[r].dst_row, x)
<1>1. \/ x = st
      \/ x = [st EXCEPT !.stop = "No unlocked entry"]
      \/ \E r \in DOMAIN st.rit :
            x = RemoveEntry(Swap(st, r, st.rit[r].dst_row), r, st.rit[r].dst_row)
  BY DEF WithRoom, Unswappable
<1>2. CASE x = [st EXCEPT !.stop = "No unlocked entry"]
  BY <1>2 DEF IsBank, GoesOn
<1>3. CASE x = st
  BY <1>3
<1>4. ASSUME NEW r \in DOMAIN st.rit,
             x = RemoveEntry(Swap(st, r, st.rit[r].dst_row), r, st.rit[r].dst_row)
      PROVE  IsBank(x) /\ \E y : Swapped(st, r, st.rit[r].dst_row, y) /\ Removed(y, r, st.rit[r].dst_row, x)
  <2> DEFINE d == st.rit[r].dst_row
             y == Swap(st, r, d)
  <2>1. Swapped(st, r, d, y)
    BY SwapAt
  <2>2. x = RemoveEntry(y, r, d)
    BY <1>4
  <2> HIDE DEF y, d
  <2>3. IsBank(y)
    BY <2>1 DEF Swapped
  <2>4. Removed(y, r, d, x)
    BY <2>2, <2>3, RemoveEntryAt
  <2>5. IsBank(x)
    BY <2>4 DEF Removed
  <2> QED
    BY <2>1, <2>4, <2>5 DEF d
<1> QED
  BY <1>1, <1>2, <1>3, <1>4

(* Whatever way a row is moved, its place counts as moved.                 *)
LEMMA SwapAndInsert ==
    ASSUME NEW st, IsBank(st), NEW src, NEW dst
    PROVE  \E y : /\ Swapped(st, src, dst, y)
                  /\ Entered(y, src, dst, InsertEntry(Swap(st, src, dst), src, dst))
<1> DEFINE y == Swap(st, src, dst)
<1>1. Swapped(st, src, dst, y)
  BY SwapAt
<1> HIDE DEF y
<1>2. IsBank(y)
  BY <1>1 DEF Swapped
<1>3. Entered(y, src, dst, InsertEntry(y, src, dst))
  BY <1>2, InsertEntryAt
<1> QED
  BY <1>1, <1>3 DEF y

LEMMA FirstSwapMoves ==
    ASSUME NEW st, IsBank(st), NEW hrt, NEW row, NEW x \in FirstSwaps(st, hrt, row), GoesOn(x.stop)
    PROVE  /\ GoesOn(st.stop)
           /\ \E dst \in RandRows(st, hrt, row) : \E y :
                 Swapped(st, row, dst, y) /\ Entered(y, row, dst, x)
           /\ row \in x.moved
<1>1. GoesOn(st.stop)
  BY DEF FirstSwaps, GoesOn
<1>2. PICK dst \in RandRows(st, hrt, row) : x = InsertEntry(Swap(st, row, dst), row, dst)
  BY <1>1 DEF FirstSwaps, GoesOn
<1>3. PICK y : Swapped(st, row, dst, y) /\ Entered(y, row, dst, x)
  BY <1>2, SwapAndInsert
<1>4. row \in y.moved /\ x.moved = y.moved
  BY <1>3 DEF Swapped, Entered
<1> QED
  BY <1>1, <1>3, <1>4

LEMMA LaterSwapMoves ==
    ASSUME NEW st, IsBank(st), NEW hrt, NEW row, NEW x \in LaterSwaps(st, hrt, row)
    PROVE  /\ \E dst \in RandRows(st, hrt, row) : \E w, home, y :
                 /\ Swapped(st, row, st.rit[row].dst_row, w) /\ Removed(w, row, st.rit[row].dst_row, home)
                 /\ Swapped(home, row, dst, y) /\ Entered(y, row, dst, x)
           /\ row \in x.moved
<1> DEFINE prev == st.rit[row].dst_row
           w == Swap(st, row, prev)
           home == RemoveEntry(w, row, prev)
<1>1. PICK dst \in RandRows(st, hrt, row) : x = InsertEntry(Swap(home, row, dst), row, dst)
  BY DEF LaterSwaps
<1>2. Swapped(st, row, prev, w)
  BY SwapAt
<1>3. IsBank(w)
  BY <1>2 DEF Swapped
<1>4. Removed(w, row, prev, home)
  BY <1>3, RemoveEntryAt
<1>5. IsBank(home)
  BY <1>4 DEF Removed
<1> HIDE DEF home, w
<1>6. PICK y : Swapped(home, row, dst, y) /\ Entered(y, row, dst, x)
  BY <1>1, <1>5, SwapAndInsert
<1>7. row \in y.moved /\ x.moved = y.moved
  BY <1>6 DEF Swapped, Entered
<1> QED
  BY <1>2, <1>4, <1>6, <1>7

LEMMA ReswapMoves ==
    ASSUME NEW st, IsBank(st), NEW hrt, NEW row, NEW x \in Reswaps(st, hrt, row), GoesOn(x.stop)
    PROVE  row \in x.moved
<1>1. GoesOn(st.stop)
  BY DEF Reswaps, GoesOn
<1> DEFINE prev == st.rit[row].dst_row
           out == RemoveEntry(st, row, prev)
<1>2. PICK d \in RandRows(st, hrt, row) \X RandRows(st, hrt, row) :
        x = InsertEntry(InsertEntry(Swap(Swap(out, row, d[1]), prev, d[2]), row, d[2]), prev, d[1])
  BY <1>1 DEF Reswaps, GoesOn
<1> DEFINE d1 == d[1]
           d2 == d[2]
<1>3. x = InsertEntry(InsertEntry(Swap(Swap(out, row, d1), prev, d2), row, d2), prev, d1)
  BY <1>2
<1>4. Removed(st, row, prev, out)
  BY RemoveEntryAt
<1> HIDE DEF out, d1, d2, prev
<1> DEFINE y == Swap(out, row, d1)
           z == Swap(y, prev, d2)
           w == InsertEntry(z, row, d2)
<1>5. IsBank(out)
  BY <1>4 DEF Removed
<1>6. Swapped(out, row, d1, y)
  BY <1>5, SwapAt
<1> HIDE DEF y
<1>7. IsBank(y) /\ row \in y.moved
  BY <1>6 DEF Swapped
<1>8. Swapped(y, prev, d2, z)
  BY <1>7, SwapAt
<1> HIDE DEF z
<1>9. IsBank(z) /\ row \in z.moved
  BY <1>7, <1>8 DEF Swapped
<1>10. Entered(z, row, d2, w)
  BY <1>9, InsertEntryAt
<1> HIDE DEF w
<1>11. IsBank(w) /\ row \in w.moved
  BY <1>9, <1>10 DEF Entered
<1>12. Entered(w, prev, d1, InsertEntry(w, prev, d1))
  BY <1>11, InsertEntryAt
<1>13. x = InsertEntry(w, prev, d1)
  BY <1>3 DEF w, z, y
<1>14. x.moved = w.moved
  BY <1>12, <1>13 DEF Entered
<1> QED
  BY <1>11, <1>14

LEMMA RrsMovesRow ==
    ASSUME NEW b, NEW hrt, NEW row, NEW st \in RrsMoves(b, hrt, row), GoesOn(st.stop)
    PROVE  row \in st.moved
<1> DEFINE s0 == Start(b)
<1>1. IsBank(s0)
  BY StartAt
<1>2. \/ st \in LaterSwaps(s0, hrt, row)
      \/ \E x \in WithRoom(s0, hrt) : st \in FirstSwaps(x, hrt, row) \/ st \in Reswaps(x, hrt, row)
  BY DEF RrsMoves
<1> HIDE DEF s0
<1>3. CASE st \in LaterSwaps(s0, hrt, row)
  BY <1>1, <1>3, LaterSwapMoves
<1>4. ASSUME NEW x \in WithRoom(s0, hrt), st \in FirstSwaps(x, hrt, row) \/ st \in Reswaps(x, hrt, row)
      PROVE  row \in st.moved
  <2>1. IsBank(x)
    BY <1>1, RoomAt
  <2>2. CASE st \in FirstSwaps(x, hrt, row)
    BY <2>1, <2>2, FirstSwapMoves
  <2>3. CASE st \in Reswaps(x, hrt, row)
    BY <2>1, <2>3, ReswapMoves
  <2> QED
    BY <1>4, <2>2, <2>3
<1> QED
  BY <1>2, <1>3, <1>4

(* AQUA, in the same terms.                                                *)
Pointed(st, pointers, new) ==
    /\ IsBank(new) /\ new.rpt = pointers
    /\ new.rit = st.rit /\ new.data = st.data /\ new.moved = st.moved /\ new.stop = st.stop
SentHome(st, new) ==
    \/ rqa_head \notin DOMAIN st.rpt /\ new = st
    \/ /\ rqa_head \in DOMAIN st.rpt
       /\ \E y, z : /\ Removed(st, rqa_head, st.rpt[rqa_head], y)
                    /\ Pointed(y, Emptied(st.rpt, rqa_head), z)
                    /\ Migrated(z, rqa_head, st.rpt[rqa_head], new)
Original(st, row) == IF row \in DOMAIN st.rpt THEN st.rpt[row] ELSE 0

LEMMA PointedAt ==
    ASSUME NEW st, IsBank(st), NEW pointers
    PROVE  Pointed(st, pointers, [st EXCEPT !.rpt = pointers])
BY DEF Pointed, IsBank

LEMMA EvictedAt ==
    ASSUME NEW st, IsBank(st)
    PROVE  SentHome(st, Evicted(st)) /\ IsBank(Evicted(st))
<1>1. CASE rqa_head \notin DOMAIN st.rpt
  <2>1. Evicted(st) = st
    BY <1>1 DEF Evicted
  <2> QED
    BY <1>1, <2>1 DEF SentHome
<1>2. CASE rqa_head \in DOMAIN st.rpt
  <2> DEFINE org == st.rpt[rqa_head]
             y == RemoveEntry(st, rqa_head, org)
             p == Emptied(y.rpt, rqa_head)
             z == [y EXCEPT !.rpt = p]
  <2>1. Evicted(st) = Migrate(z, rqa_head, org)
    BY <1>2 DEF Evicted
  <2>2. Removed(st, rqa_head, org, y)
    BY RemoveEntryAt
  <2> HIDE DEF y
  <2>3. IsBank(y) /\ p = Emptied(st.rpt, rqa_head)
    BY <2>2 DEF Removed
  <2> HIDE DEF p
  <2>4. Pointed(y, p, z)
    BY <2>3, PointedAt
  <2> HIDE DEF z
  <2>5. IsBank(z)
    BY <2>4 DEF Pointed
  <2>6. Migrated(z, rqa_head, org, Evicted(st))
    BY <2>1, <2>5, MigrateAt
  <2>7. IsBank(Evicted(st))
    <3> DEFINE x == Evicted(st)
    <3>1. Migrated(z, rqa_head, org, x)
      BY <2>6
    <3> HIDE DEF x
    <3>2. IsBank(x)
      BY <3>1 DEF Migrated
    <3> QED
      BY <3>2 DEF x
  <2> QED
    BY <1>2, <2>2, <2>3, <2>4, <2>6, <2>7 DEF SentHome
<1> QED
  BY <1>1, <1>2

LEMMA AquaShape ==
    ASSUME NEW b, NEW row, NEW x, x = AquaMove(b, row)
    PROVE  \E s1, st :
              /\ s1 = Evicted(Start(b))
              /\ SentHome(Start(b), s1) /\ Migrated(s1, row, rqa_head, st)
              /\ \/ /\ row < NumQRows
                    /\ \E y, z : /\ Removed(st, row, Original(st, row), y)
                                 /\ Pointed(y, With(Emptied(st.rpt, row), rqa_head, Original(st, row)), z)
                                 /\ Entered(z, rqa_head, Original(st, row), x)
                 \/ /\ ~(row < NumQRows)
                    /\ \E z : /\ Pointed(st, With(st.rpt, rqa_head, row), z)
                              /\ Entered(z, row, rqa_head, x)
<1> DEFINE s1 == Evicted(Start(b))
           st == Migrate(s1, row, rqa_head)
           org == Original(st, row)
           y == RemoveEntry(st, row, org)
           p == With(Emptied(y.rpt, row), rqa_head, org)
           z == [y EXCEPT !.rpt = p]
           q == With(st.rpt, rqa_head, row)
           u == [st EXCEPT !.rpt = q]
<1>1. x = IF row < NumQRows THEN InsertEntry(z, rqa_head, org) ELSE InsertEntry(u, row, rqa_head)
  BY DEF AquaMove, Original
<1>2. SentHome(Start(b), s1) /\ IsBank(s1) /\ s1 = Evicted(Start(b))
  BY StartAt, EvictedAt
<1> HIDE DEF s1
<1>3. Migrated(s1, row, rqa_head, st)
  BY <1>2, MigrateAt
<1> HIDE DEF st
<1>4. IsBank(st)
  BY <1>3 DEF Migrated
<1>5. CASE row < NumQRows
  <2>1. Removed(st, row, org, y)
    BY <1>4, RemoveEntryAt
  <2> HIDE DEF y
  <2>2. IsBank(y) /\ p = With(Emptied(st.rpt, row), rqa_head, org)
    BY <2>1 DEF Removed
  <2> HIDE DEF p
  <2>3. Pointed(y, p, z)
    BY <2>2, PointedAt
  <2> HIDE DEF z
  <2>4. IsBank(z)
    BY <2>3 DEF Pointed
  <2>5. x = InsertEntry(z, rqa_head, org)
    BY <1>1, <1>5
  <2>6. Entered(z, rqa_head, org, x)
    BY <2>4, <2>5, InsertEntryAt
  <2> QED
    BY <1>2, <1>3, <1>5, <2>1, <2>2, <2>3, <2>6
<1>6. CASE ~(row < NumQRows)
  <2> HIDE DEF q
  <2>1. Pointed(st, q, u)
    BY <1>4, PointedAt
  <2> HIDE DEF u
  <2>2. IsBank(u)
    BY <2>1 DEF Pointed
  <2>3. x = InsertEntry(u, row, rqa_head)
    BY <1>1, <1>6
  <2>4. Entered(u, row, rqa_head, x)
    BY <2>2, <2>3, InsertEntryAt
  <2> QED
    BY <1>2, <1>3, <1>6, <2>1, <2>4 DEF q
<1> QED
  BY <1>5, <1>6

LEMMA AquaMovesRow ==
    ASSUME NEW b, NEW row, NEW x, x = AquaMove(b, row)
    PROVE  row \in x.moved
<1>1. PICK s1, st :
         /\ Migrated(s1, row, rqa_head, st)
         /\ \/ \E y, z : /\ Removed(st, row, Original(st, row), y)
                         /\ Pointed(y, With(Emptied(st.rpt, row), rqa_head, Original(st, row)), z)
                         /\ Entered(z, rqa_head, Original(st, row), x)
            \/ \E z : Pointed(st, With(st.rpt, rqa_head, row), z) /\ Entered(z, row, rqa_head, x)
  BY AquaShape
<1>2. row \in st.moved
  BY <1>1 DEF Migrated
<1>3. CASE \E y, z : /\ Removed(st, row, Original(st, row), y)
                     /\ Pointed(y, With(Emptied(st.rpt, row), rqa_head, Original(st, row)), z)
                     /\ Entered(z, rqa_head, Original(st, row), x)
  BY <1>2, <1>3 DEF Removed, Pointed, Entered
<1>4. CASE \E z : Pointed(st, With(st.rpt, rqa_head, row), z) /\ Entered(z, row, rqa_head, x)
  BY <1>2, <1>4 DEF Pointed, Entered
<1> QED
  BY <1>1, <1>3, <1>4

-----------------------------------------------------------------------------
LEMMA SwapInitHot == SwapInit => HotRowsInv
<1> SUFFICES ASSUME SwapInit PROVE HotRowsInv
  OBVIOUS
<1>1. /\ plugin \in {"RRS", "AQUA"} /\ table = [b \in Banks |-> NoEntries]
      /\ spill = [b \in Banks |-> 0] /\ acts = NoMoves
  BY DEF SwapInit
<1>2. Entries(NoEntries)
  BY NoEntriesAt, FS_EmptySet DEF Entries
<1>3. spill \in [Banks -> Nat] /\ acts \in [Banks -> [Places -> Nat]]
  BY <1>1 DEF NoMoves
<1>4. ASSUME NEW b \in Banks
      PROVE  HrtOK(table[b], spill[b], acts[b])
  <2>1. table[b] = NoEntries /\ spill[b] = 0 /\ acts[b] = [r \in Places |-> 0]
    BY <1>1 DEF NoMoves
  <2> QED
    BY <1>2, <2>1, NoEntriesAt DEF HrtOK, HrtCover
<1> QED
  BY <1>1, <1>3, <1>4 DEF HotRowsInv

(* Before the command is looked at.                                        *)
LEMMA HotRowsNow ==
    ASSUME HotRowsInv, GoesOn(halted)
    PROVE  /\ \A b \in Banks : HrtOK(HrtNow(b), SpillNow[b], MovesNow[b])
           /\ SpillNow \in [Banks -> Nat] /\ MovesNow \in [Banks -> [Places -> Nat]]
<1>1. spill \in [Banks -> Nat] /\ acts \in [Banks -> [Places -> Nat]]
  BY DEF HotRowsInv
<1>2. \A b \in Banks : HrtOK(table[b], spill[b], acts[b])
  BY DEF HotRowsInv
<1>3. SpillNow \in [Banks -> Nat] /\ MovesNow \in [Banks -> [Places -> Nat]]
  BY <1>1 DEF SpillNow, MovesNow, NoMoves
<1> QED
  BY <1>1, <1>2, <1>3, TracksNow

(* One activation more.                                                    *)
ActedOnce(a, b, row, new) ==
    /\ new \in [Banks -> [Places -> Nat]]
    /\ \A c \in Banks : c # b => new[c] = a[c]
    /\ \A x \in Places : new[b][x] = IF x = row THEN a[b][x] + 1 ELSE a[b][x]

LEMMA MovesActed ==
    ASSUME NEW a \in [Banks -> [Places -> Nat]], NEW b \in Banks, NEW row
    PROVE  ActedOnce(a, b, row, Acted(a, b, row))
<1> DEFINE f == a[b]
           e == [f EXCEPT ![row] = @ + 1]
           new == [a EXCEPT ![b] = e]
<1>1. f \in [Places -> Nat]
  OBVIOUS
<1> HIDE DEF f
<1>2. e \in [Places -> Nat] /\ \A x \in Places : e[x] = IF x = row THEN f[x] + 1 ELSE f[x]
  <2>1. CASE row \in Places
    BY <1>1, <2>1
  <2>2. CASE row \notin Places
    <3>1. e = f
      BY <1>1, <2>2
    <3> QED
      BY <1>1, <2>2, <3>1
  <2> QED
    BY <2>1, <2>2
<1>3. Acted(a, b, row) = new
  BY DEF Acted, f
<1> HIDE DEF e
<1>4. new \in [Banks -> [Places -> Nat]]
  BY <1>2
<1>5. \A c \in Banks : new[c] = IF c = b THEN e ELSE a[c]
  OBVIOUS
<1> HIDE DEF new
<1>6. ActedOnce(a, b, row, new)
  BY <1>2, <1>4, <1>5 DEF ActedOnce, f
<1> QED
  BY <1>3, <1>6

(* The counters after a row has found no place, and after it has.          *)
LEMMA SpilledOK ==
    ASSUME NEW t, NEW s, NEW a, HrtOK(t, s, a), NEW row, row \notin DOMAIN t,
           ~(Cardinality(DOMAIN t) < NumHrtEntries), NEW later \in [Places -> Nat],
           \A x \in Places : later[x] = IF x = row THEN a[x] + 1 ELSE a[x]
    PROVE  HrtOK(t, s + 1, later)
<1>1. /\ Entries(t) /\ s \in Nat /\ a \in [Places -> Nat]
      /\ s < MoveThreshold => \A x \in Places : a[x] <= HrtCover(t, s, x)
  BY DEF HrtOK
<1>2. MoveThreshold \in Nat
  BY SwapAssumption
<1>3. ASSUME s + 1 < MoveThreshold, NEW x \in Places
      PROVE  later[x] <= HrtCover(t, s + 1, x)
  <2>1. s < MoveThreshold
    BY <1>1, <1>2, <1>3
  <2>2. a[x] <= HrtCover(t, s, x) /\ a[x] \in Nat
    BY <1>1, <1>3, <2>1
  <2>3. CASE x \in DOMAIN t
    BY <1>3, <2>2, <2>3 DEF HrtCover
  <2>4. CASE x \notin DOMAIN t
    <3>1. a[x] <= s /\ HrtCover(t, s + 1, x) = s + 1
      BY <2>2, <2>4 DEF HrtCover
    <3>2. later[x] \in {a[x], a[x] + 1}
      BY <1>3
    <3> QED
      BY <1>1, <2>2, <3>1, <3>2
  <2> QED
    BY <2>3, <2>4
<1> QED
  BY <1>1, <1>3 DEF HrtOK

LEMMA CountedOK ==
    ASSUME NEW t, NEW s \in Nat, NEW a \in [Places -> Nat], NEW p, Entries(t), p \in DOMAIN t,
           Cardinality(DOMAIN t) < NumHrtEntries => s = 0,
           s < MoveThreshold => \A x \in Places : x # p => a[x] <= HrtCover(t, s, x),
           s < MoveThreshold /\ p \in Places => a[p] + 1 <= HrtCover(t, s, p),
           NEW later \in [Places -> Nat],
           \A x \in Places : later[x] = IF x = p THEN a[x] + 1 ELSE a[x]
    PROVE  HrtOK(t, s, later)
<1>1. ASSUME s < MoveThreshold, NEW x \in Places
      PROVE  later[x] <= HrtCover(t, s, x)
  <2>1. CASE x = p
    BY <1>1, <2>1
  <2>2. CASE x # p
    BY <1>1, <2>2
  <2> QED
    BY <2>1, <2>2
<1> QED
  BY <1>1 DEF HrtOK

(* Where data has moved counting starts anew.                              *)
CoveredBut(t, s, a, p) == s < MoveThreshold => \A x \in Places : x # p => a[x] <= HrtCover(t, s, x)
Restarts(a, moved, later) == \A x \in Places : later[x] = IF x \in moved THEN 0 ELSE a[x]

LEMMA MovedOK ==
    ASSUME NEW t, NEW s \in Nat, NEW a \in [Places -> Nat], NEW p, Entries(t),
           Cardinality(DOMAIN t) < NumHrtEntries => s = 0,
           CoveredBut(t, s, a, p),
           NEW moved, p \in moved, NEW later \in [Places -> Nat], Restarts(a, moved, later)
    PROVE  HrtOK(t, s, later)
<1>1. ASSUME s < MoveThreshold, NEW x \in Places
      PROVE  later[x] <= HrtCover(t, s, x)
  <2>1. CASE x \in moved
    <3>1. HrtCover(t, s, x) \in Nat
      <4>1. CASE x \in DOMAIN t
        <5>1. t[x] \in Nat
          BY <4>1 DEF Entries
        <5> DEFINE c == t[x] % MoveThreshold
        <5>3. c \in 0..(MoveThreshold - 1)
          BY <5>1, ThresholdMod
        <5> HIDE DEF c
        <5>2. c \in Nat
          BY <5>3
        <5> QED
          BY <4>1, <5>2 DEF HrtCover, c
      <4>2. CASE x \notin DOMAIN t
        BY <4>2 DEF HrtCover
      <4> QED
        BY <4>1, <4>2
    <3> QED
      BY <1>1, <2>1, <3>1 DEF Restarts
  <2>2. CASE x \notin moved
    BY <1>1, <2>2 DEF CoveredBut, Restarts
  <2> QED
    BY <2>1, <2>2
<1> QED
  BY <1>1 DEF HrtOK

LEMMA AddOne == \A n \in Nat : n + 1 \in Nat
OBVIOUS

LEMMA SwapSpillHot ==
    ASSUME HotRowsInv, GoesOn(halted), NEW b \in Banks, NEW row, SwapSpill(b, row), plugin' = plugin
    PROVE  HotRowsInv'
<1> DEFINE sp == SpillNow
           mv == MovesNow
<1>1. \A c \in Banks : HrtOK(HrtNow(c), sp[c], mv[c])
  BY HotRowsNow
<1>11. sp \in [Banks -> Nat] /\ mv \in [Banks -> [Places -> Nat]]
  BY HotRowsNow
<1>2. /\ \A c \in Banks : table'[c] = HrtNow(c)
      /\ spill' = [sp EXCEPT ![b] = @ + 1] /\ acts' = Acted(mv, b, row)
  BY DEF SwapSpill
<1>3. row \notin DOMAIN HrtNow(b) /\ ~(Cardinality(DOMAIN HrtNow(b)) < NumHrtEntries)
  <2>1. Trackings(b, row) = {}
    BY DEF SwapSpill
  <2> QED
    BY <2>1 DEF Trackings
<1> HIDE DEF sp, mv
<1> DEFINE n == sp[b] + 1
<1>4. n \in Nat
  <2>1. sp[b] \in Nat
    BY <1>11, Zenon
  <2> QED
    BY <2>1, AddOne, Zenon
<1>5. spill' = [sp EXCEPT ![b] = n]
  BY <1>2
<1>6. ActedOnce(mv, b, row, acts')
  BY <1>11, <1>2, MovesActed
<1>7. /\ acts' \in [Banks -> [Places -> Nat]]
      /\ \A c \in Banks : c # b => acts'[c] = mv[c]
      /\ \A x \in Places : acts'[b][x] = IF x = row THEN mv[b][x] + 1 ELSE mv[b][x]
  BY <1>6 DEF ActedOnce
<1> HIDE DEF n
<1>8. /\ spill' \in [Banks -> Nat] /\ spill'[b] = n
      /\ \A c \in Banks : c # b => spill'[c] = sp[c]
  BY <1>11, <1>4, <1>5
<1>9. ASSUME NEW c \in Banks
      PROVE  HrtOK(table'[c], spill'[c], acts'[c])
  <2>1. HrtOK(HrtNow(c), sp[c], mv[c]) /\ table'[c] = HrtNow(c)
    BY <1>1, <1>2
  <2>2. CASE c # b
    BY <1>7, <1>8, <2>1, <2>2
  <2>3. CASE c = b
    <3> DEFINE tb == HrtNow(b)
               sb == sp[b]
               ab == mv[b]
               lb == acts'[b]
    <3>1. HrtOK(tb, sb, ab) /\ row \notin DOMAIN tb /\ ~(Cardinality(DOMAIN tb) < NumHrtEntries)
      BY <1>1, <1>3
    <3>2. lb \in [Places -> Nat] /\ \A x \in Places : lb[x] = IF x = row THEN ab[x] + 1 ELSE ab[x]
      BY <1>7
    <3> HIDE DEF tb, sb, ab, lb
    <3>3. HrtOK(tb, sb + 1, lb)
      BY <3>1, <3>2, SpilledOK
    <3> QED
      BY <1>8, <2>1, <2>3, <3>3 DEF n, tb, sb, lb
  <2> QED
    BY <2>2, <2>3
<1>10. plugin' \in {"RRS", "AQUA"}
  BY DEF HotRowsInv
<1> QED
  BY <1>7, <1>8, <1>9, <1>10 DEF HotRowsInv
LEMMA SwapIdleHot ==
    ASSUME HotRowsInv, GoesOn(halted), SwapIdle, plugin' = plugin
    PROVE  HotRowsInv'
<1>1. \A c \in Banks : HrtOK(HrtNow(c), SpillNow[c], MovesNow[c])
  BY HotRowsNow
<1>2. SpillNow \in [Banks -> Nat] /\ MovesNow \in [Banks -> [Places -> Nat]]
  BY HotRowsNow
<1>3. spill' = SpillNow /\ acts' = MovesNow /\ \A c \in Banks : table'[c] = HrtNow(c)
  BY DEF SwapIdle
<1>4. plugin' \in {"RRS", "AQUA"}
  BY DEF HotRowsInv
<1>5. spill' \in [Banks -> Nat] /\ acts' \in [Banks -> [Places -> Nat]]
  BY <1>2, <1>3
<1>6. \A c \in Banks : HrtOK(table'[c], spill'[c], acts'[c])
  BY <1>1, <1>3
<1> QED
  BY <1>4, <1>5, <1>6 DEF HotRowsInv

LEMMA SwapCountHot ==
    ASSUME HotRowsInv, GoesOn(halted), NEW b \in Banks, NEW row, SwapCount(b, row), plugin' = plugin
    PROVE  HotRowsInv'
<1> DEFINE sp == SpillNow
           mv == MovesNow
<1>1. \A c \in Banks : HrtOK(HrtNow(c), sp[c], mv[c])
  BY HotRowsNow
<1>2. sp \in [Banks -> Nat] /\ mv \in [Banks -> [Places -> Nat]]
  BY HotRowsNow
<1>3. PICK hrt \in Trackings(b, row) :
        /\ hrt[row] % MoveThreshold # 0
        /\ table' = [c \in Banks |-> IF c = b THEN hrt ELSE HrtNow(c)] /\ spill' = sp
        /\ acts' = Acted(mv, b, row)
  BY DEF SwapCount
<1>4. /\ Entries(hrt) /\ row \in DOMAIN hrt
      /\ Cardinality(DOMAIN hrt) < NumHrtEntries => sp[b] = 0
      /\ sp[b] < MoveThreshold =>
            /\ \A x \in Places : x # row => mv[b][x] <= HrtCover(hrt, sp[b], x)
            /\ row \in Places => mv[b][row] + 1 <= HrtCover(hrt, sp[b], row)
  <2> DEFINE a == mv[b]
  <2>1. HrtOK(HrtNow(b), SpillNow[b], a)
    BY <1>1
  <2> HIDE DEF a
  <2>2. /\ Entries(hrt) /\ row \in DOMAIN hrt
        /\ Cardinality(DOMAIN hrt) < NumHrtEntries => SpillNow[b] = 0
        /\ SpillNow[b] < MoveThreshold =>
              /\ \A x \in Places : x # row => a[x] <= HrtCover(hrt, SpillNow[b], x)
              /\ row \in Places /\ hrt[row] % MoveThreshold # 0 =>
                    a[row] + 1 <= HrtCover(hrt, SpillNow[b], row)
    BY <2>1, TrackOne
  <2> QED
    BY <1>3, <2>2 DEF a
<1>5. spill' = sp /\ table'[b] = hrt /\ \A c \in Banks : c # b => table'[c] = HrtNow(c)
  BY <1>3
<1> HIDE DEF sp, mv
<1>6. ActedOnce(mv, b, row, acts')
  BY <1>2, <1>3, MovesActed
<1>7. /\ acts' \in [Banks -> [Places -> Nat]]
      /\ \A c \in Banks : c # b => acts'[c] = mv[c]
      /\ \A x \in Places : acts'[b][x] = IF x = row THEN mv[b][x] + 1 ELSE mv[b][x]
  BY <1>6 DEF ActedOnce
<1>8. HrtOK(hrt, sp[b], acts'[b])
  <2> DEFINE sb == sp[b]
             ab == mv[b]
             lb == acts'[b]
  <2>1. sb \in Nat /\ ab \in [Places -> Nat] /\ lb \in [Places -> Nat]
    BY <1>2, <1>7, Zenon
  <2>2. \A x \in Places : lb[x] = IF x = row THEN ab[x] + 1 ELSE ab[x]
    BY <1>7
  <2>3. /\ Entries(hrt) /\ row \in DOMAIN hrt
        /\ Cardinality(DOMAIN hrt) < NumHrtEntries => sb = 0
        /\ sb < MoveThreshold => \A x \in Places : x # row => ab[x] <= HrtCover(hrt, sb, x)
        /\ sb < MoveThreshold /\ row \in Places => ab[row] + 1 <= HrtCover(hrt, sb, row)
    BY <1>4
  <2> HIDE DEF sb, ab, lb
  <2>4. HrtOK(hrt, sb, lb)
    BY <2>1, <2>2, <2>3, CountedOK
  <2> QED
    BY <2>4 DEF sb, lb
<1>9. \A c \in Banks : HrtOK(table'[c], spill'[c], acts'[c])
  BY <1>1, <1>5, <1>7, <1>8
<1>10. plugin' \in {"RRS", "AQUA"} /\ spill' \in [Banks -> Nat]
  BY <1>2, <1>5 DEF HotRowsInv
<1> QED
  BY <1>7, <1>9, <1>10 DEF HotRowsInv

LEMMA TrackOthers ==
    ASSUME NEW b \in Banks, NEW row, NEW hrt \in Trackings(b, row),
           \A c \in Banks : HrtOK(HrtNow(c), SpillNow[c], MovesNow[c])
    PROVE  /\ Entries(hrt)
           /\ Cardinality(DOMAIN hrt) < NumHrtEntries => SpillNow[b] = 0
           /\ SpillNow[b] < MoveThreshold =>
                 \A x \in Places : x # row => MovesNow[b][x] <= HrtCover(hrt, SpillNow[b], x)
<1> DEFINE a == MovesNow[b]
<1>1. HrtOK(HrtNow(b), SpillNow[b], a)
  OBVIOUS
<1> HIDE DEF a
<1>2. /\ Entries(hrt) /\ row \in DOMAIN hrt
      /\ Cardinality(DOMAIN hrt) < NumHrtEntries => SpillNow[b] = 0
      /\ SpillNow[b] < MoveThreshold =>
            /\ \A x \in Places : x # row => a[x] <= HrtCover(hrt, SpillNow[b], x)
            /\ row \in Places /\ hrt[row] % MoveThreshold # 0 =>
                  a[row] + 1 <= HrtCover(hrt, SpillNow[b], row)
  BY <1>1, TrackOne
<1> QED
  BY <1>2 DEF a

LEMMA MoveRowHot ==
    ASSUME HotRowsInv, GoesOn(halted), NEW b \in Banks, NEW row, MoveRow(b, row), plugin' = plugin
    PROVE  HotRowsInv'
<1> DEFINE sp == SpillNow
           mv == MovesNow
<1>1. \A c \in Banks : HrtOK(HrtNow(c), sp[c], mv[c])
  BY HotRowsNow
<1>2. sp \in [Banks -> Nat] /\ mv \in [Banks -> [Places -> Nat]]
  BY HotRowsNow
<1>10. plugin' \in {"RRS", "AQUA"}
  BY DEF HotRowsInv
<1>11. CASE ~GoesOn(halted')
  BY <1>10, <1>11 DEF HotRowsInv
<1>12. CASE GoesOn(halted')
  <2>1. PICK hrt \in Trackings(b, row) :
        \E st \in IF plugin = "RRS" THEN RrsMoves(b, hrt, row) ELSE {AquaMove(b, row)} :
          /\ table' = [c \in Banks |-> IF c = b THEN hrt ELSE HrtNow(c)] /\ spill' = sp
          /\ acts' = [mv EXCEPT ![b] = [r \in Places |-> IF r \in st.moved THEN 0 ELSE @[r]]]
          /\ halted' = st.stop
    BY DEF MoveRow
  <2>2. PICK st \in IF plugin = "RRS" THEN RrsMoves(b, hrt, row) ELSE {AquaMove(b, row)} :
          /\ table' = [c \in Banks |-> IF c = b THEN hrt ELSE HrtNow(c)] /\ spill' = sp
          /\ acts' = [mv EXCEPT ![b] = [r \in Places |-> IF r \in st.moved THEN 0 ELSE @[r]]]
          /\ halted' = st.stop
    BY <2>1
  <2> DEFINE moved == st.moved
             e == [r \in Places |-> IF r \in moved THEN 0 ELSE mv[b][r]]
  <2>3. row \in moved
    <3>1. CASE plugin = "RRS"
      <4>1. st \in RrsMoves(b, hrt, row) /\ GoesOn(st.stop)
        BY <1>12, <2>2, <3>1
      <4> QED
        BY <4>1, RrsMovesRow
    <3>2. CASE plugin # "RRS"
      <4>1. st = AquaMove(b, row)
        BY <2>2, <3>2
      <4> QED
        BY <4>1, AquaMovesRow
    <3> QED
      BY <3>1, <3>2
  <2> HIDE DEF moved
  <2>4. /\ Entries(hrt)
        /\ Cardinality(DOMAIN hrt) < NumHrtEntries => sp[b] = 0
        /\ sp[b] < MoveThreshold =>
              \A x \in Places : x # row => mv[b][x] <= HrtCover(hrt, sp[b], x)
    BY <1>1, TrackOthers
  <2>5. /\ spill' = sp /\ table'[b] = hrt /\ \A c \in Banks : c # b => table'[c] = HrtNow(c)
        /\ acts' = [mv EXCEPT ![b] = e]
    BY <2>2 DEF moved
  <2> HIDE DEF sp, mv
  <2>6. mv[b] \in [Places -> Nat] /\ sp[b] \in Nat
    BY <1>2, Zenon
  <2>7. e \in [Places -> Nat] /\ \A x \in Places : e[x] = IF x \in moved THEN 0 ELSE mv[b][x]
    BY <2>6
  <2> HIDE DEF e
  <2>8. /\ acts' \in [Banks -> [Places -> Nat]] /\ acts'[b] = e
        /\ \A c \in Banks : c # b => acts'[c] = mv[c]
    BY <1>2, <2>5, <2>7
  <2>9. HrtOK(hrt, sp[b], e)
    <3> DEFINE sb == sp[b]
               ab == mv[b]
    <3>1. /\ sb \in Nat /\ ab \in [Places -> Nat]
          /\ Entries(hrt)
          /\ Cardinality(DOMAIN hrt) < NumHrtEntries => sb = 0
          /\ CoveredBut(hrt, sb, ab, row) /\ Restarts(ab, moved, e)
      BY <2>4, <2>6, <2>7, Zenon DEF CoveredBut, Restarts
    <3>2. row \in moved /\ e \in [Places -> Nat]
      BY <2>3, <2>7, Zenon
    <3> HIDE DEF sb, ab
    <3>3. HrtOK(hrt, sb, e)
      BY <3>1, <3>2, MovedOK
    <3> QED
      BY <3>3 DEF sb
  <2>10. \A c \in Banks : HrtOK(table'[c], spill'[c], acts'[c])
    BY <1>1, <2>5, <2>8, <2>9
  <2> QED
    BY <1>2, <1>10, <2>5, <2>8, <2>10 DEF HotRowsInv
<1> QED
  BY <1>11, <1>12

LEMMA SwapNextHot == HotRowsInv /\ [SwapNext]_<<trackers, swap>> => HotRowsInv'
<1> SUFFICES ASSUME HotRowsInv, [SwapNext]_<<trackers, swap>> PROVE HotRowsInv'
  OBVIOUS
<1>1. ASSUME UNCHANGED <<plugin, table, spill, acts, halted>>
      PROVE  HotRowsInv'
  BY <1>1 DEF HotRowsInv
<1>2. CASE UNCHANGED <<trackers, swap>>
  <2>1. UNCHANGED <<plugin, table, spill, acts, halted>>
    BY <1>2 DEF trackers, swap
  <2> QED
    BY <1>1, <2>1
<1>3. ASSUME NEW h \in Hot[plugin], SwapSend(h[1], h[2])
      PROVE  HotRowsInv'
  <2>1. UNCHANGED <<plugin, table, spill, acts, halted>>
    BY <1>3 DEF SwapSend, trackers
  <2> QED
    BY <1>1, <2>1
<1>4. ASSUME NEW b \in Banks, NEW row \in Places, SwapServe(b, row)
      PROVE  HotRowsInv'
  <2>1. UNCHANGED <<plugin, table, spill, acts, halted>>
    BY <1>4 DEF SwapServe, trackers
  <2> QED
    BY <1>1, <2>1
<1>5. ASSUME SwapTick, GoesOn(halted)
      PROVE  HotRowsInv'
  <2>1. plugin' = plugin /\ plugin \in {"RRS", "AQUA"}
    BY <1>5 DEF SwapTick, HotRowsInv
  <2>2. CASE SwapIdle
    BY <1>5, <2>1, <2>2, SwapIdleHot
  <2>3. ASSUME NEW b \in Banks, NEW row \in Places, SwapActivate(b, row)
        PROVE  HotRowsInv'
    <3>1. SwapSpill(b, row) \/ SwapCount(b, row) \/ MoveRow(b, row)
      BY <2>3 DEF SwapActivate
    <3> QED
      BY <1>5, <2>1, <3>1, SwapSpillHot, SwapCountHot, MoveRowHot
  <2> QED
    BY <1>5, <2>2, <2>3 DEF SwapTick
<1> QED
  BY <1>2, <1>3, <1>4, <1>5 DEF SwapNext, GoesOn

LEMMA CoverBelow ==
    ASSUME NEW t, NEW s \in Nat, NEW p, Entries(t), s < MoveThreshold
    PROVE  HrtCover(t, s, p) \in 0..(MoveThreshold - 1)
<1>1. CASE p \in DOMAIN t
  <2>1. t[p] \in Nat
    BY <1>1 DEF Entries
  <2>2. t[p] % MoveThreshold \in 0..(MoveThreshold - 1)
    BY <2>1, ThresholdMod
  <2> QED
    BY <1>1, <2>2 DEF HrtCover
<1>2. CASE p \notin DOMAIN t
  BY <1>2, SwapAssumption DEF HrtCover
<1> QED
  BY <1>1, <1>2

LEMMA HotRowsSafe == HotRowsInv => HotRowsMove
<1> SUFFICES ASSUME HotRowsInv, GoesOn(halted), NEW b \in Banks, NEW p \in Places, spill[b] < MoveThreshold
             PROVE  acts[b][p] < MoveThreshold
  BY DEF HotRowsMove, GoesOn
<1> DEFINE t == table[b]
           s == spill[b]
           a == acts[b]
           c == HrtCover(t, s, p)
<1>1. HrtOK(t, s, a)
  BY DEF HotRowsInv
<1> HIDE DEF t, s, a
<1>2. s < MoveThreshold
  BY DEF s
<1>3. a[p] <= c /\ a[p] \in Nat /\ s \in Nat /\ Entries(t)
  BY <1>1, <1>2 DEF HrtOK
<1>4. c \in 0..(MoveThreshold - 1)
  BY <1>2, <1>3, CoverBelow
<1> DEFINE v == a[p]
<1>5. v <= c /\ v \in Nat /\ MoveThreshold \in Nat
  BY <1>3, SwapAssumption
<1> HIDE DEF c, v
<1>6. v < MoveThreshold
  BY <1>4, <1>5
<1> QED
  BY <1>6 DEF v, a

(* A row is moved before its place has been activated as often as the      *)
(* threshold, as long as the spillover counter stays below it.             *)
THEOREM HotRowsAreMoved == SwapSpec => []HotRowsMove
BY SwapInitHot, SwapNextHot, HotRowsSafe, PTL DEF SwapSpec

-----------------------------------------------------------------------------
(* Data and the indirection table.  The entries of a bank, and what a move *)
(* does with them and with the data, row by row.                           *)
IsPair(e) == e \in [dst_row : Places, lock : BOOLEAN]
Exchanged(d, r, p, new) ==
    /\ DOMAIN new = Places /\ new[r] = d[p] /\ new[p] = d[r]
    /\ \A x \in Places \ {r, p} : new[x] = d[x]
MovedOver(d, r, p, new) ==
    /\ DOMAIN new = Places /\ new[p] = d[r]
    /\ \A x \in Places \ {r, p} : new[x] = d[x]
Without(t, r, p, new) ==
    DOMAIN new = DOMAIN t \ {r, p} /\ \A x \in DOMAIN t \ {r, p} : new[x] = t[x]
Joined(t, r, p, new) ==
    /\ DOMAIN new = DOMAIN t \cup {r, p} /\ IsPair(new[r]) /\ IsPair(new[p])
    /\ new[r].dst_row = p /\ new[p].dst_row = r
    /\ \A x \in DOMAIN t \ {r, p} : new[x] = t[x]

LEMMA ExchangedAt ==
    ASSUME NEW st, DOMAIN st.data = Places, NEW r \in Places, NEW p \in Places, r # p, NEW new,
           Swapped(st, r, p, new)
    PROVE  Exchanged(st.data, r, p, new.data)
<1> DEFINE d == st.data
           e == new.data
<1>1. e = [d EXCEPT ![r] = d[p], ![p] = d[r]] /\ DOMAIN d = Places
  BY DEF Swapped
<1> HIDE DEF d, e
<1>2. Exchanged(d, r, p, e)
  BY <1>1 DEF Exchanged
<1> QED
  BY <1>2 DEF d, e

LEMMA CarriedAt ==
    ASSUME NEW st, DOMAIN st.data = Places, NEW r \in Places, NEW p \in Places, r # p, NEW new,
           Migrated(st, r, p, new)
    PROVE  MovedOver(st.data, r, p, new.data)
<1> DEFINE d == st.data
           e == new.data
<1>1. e = [d EXCEPT ![p] = d[r], ![r] = Vacant] /\ DOMAIN d = Places
  BY DEF Migrated
<1> HIDE DEF d, e
<1>2. MovedOver(d, r, p, e)
  BY <1>1 DEF MovedOver
<1> QED
  BY <1>2 DEF d, e

LEMMA WithoutAt ==
    ASSUME NEW st, NEW r, NEW p, NEW new, Removed(st, r, p, new)
    PROVE  Without(st.rit, r, p, new.rit)
<1> DEFINE t == st.rit
           u == new.rit
           e == Emptied(t, r)
<1>1. u = Emptied(e, p)
  BY DEF Removed
<1>2. DOMAIN e = DOMAIN t \ {r} /\ \A x \in DOMAIN t : x # r => e[x] = t[x]
  BY EmptiedAt
<1> HIDE DEF t, u, e
<1>3. DOMAIN u = DOMAIN e \ {p} /\ \A x \in DOMAIN e : x # p => u[x] = e[x]
  BY <1>1, EmptiedAt
<1>4. Without(t, r, p, u)
  BY <1>2, <1>3 DEF Without
<1> QED
  BY <1>4 DEF t, u

LEMMA JoinedAt ==
    ASSUME NEW st, NEW r \in Places, NEW p \in Places, r # p, NEW new, Entered(st, r, p, new)
    PROVE  Joined(st.rit, r, p, new.rit)
<1> DEFINE t == st.rit
           u == new.rit
           there == [dst_row |-> p, lock |-> TRUE]
           back == [dst_row |-> r, lock |-> TRUE]
           e == With(t, r, there)
<1>1. u = With(e, p, back)
  BY DEF Entered
<1>2. IsPair(there) /\ IsPair(back) /\ there.dst_row = p /\ back.dst_row = r
  BY DEF IsPair
<1> HIDE DEF t, u, there, back
<1>3. DOMAIN e = DOMAIN t \cup {r} /\ e[r] = there /\ \A x \in DOMAIN t : x # r => e[x] = t[x]
  BY DEF With
<1> HIDE DEF e
<1>4. DOMAIN u = DOMAIN e \cup {p} /\ u[p] = back /\ \A x \in DOMAIN e : x # p => u[x] = e[x]
  BY <1>1 DEF With
<1>5. u[r] = there
  BY <1>3, <1>4
<1>6. \A x \in DOMAIN t \ {r, p} : u[x] = t[x]
  BY <1>3, <1>4
<1>7. Joined(t, r, p, u)
  BY <1>2, <1>3, <1>4, <1>5, <1>6 DEF Joined
<1> QED
  BY <1>7 DEF t, u

(* RRS: the rows of the table are paired, and every row lies where the     *)
(* table says.                                                             *)
Twinned(t, d) ==
    /\ DOMAIN t \subseteq Places /\ DOMAIN d = Places
    /\ \A r \in DOMAIN t : /\ IsPair(t[r]) /\ t[r].dst_row \in DOMAIN t /\ t[r].dst_row # r
                           /\ t[t[r].dst_row].dst_row = r /\ d[t[r].dst_row] = r
    /\ \A r \in Places \ DOMAIN t : d[r] = r

LEMMA PairUndone ==
    ASSUME NEW t, NEW d, Twinned(t, d), NEW r \in DOMAIN t, NEW p, p = t[r].dst_row,
           NEW t1, Without(t, r, p, t1), NEW d1, Exchanged(d, r, p, d1)
    PROVE  Twinned(t1, d1) /\ DOMAIN t1 = DOMAIN t \ {r, p}
<1>1. /\ r \in Places /\ p \in Places /\ p \in DOMAIN t /\ p # r /\ t[p].dst_row = r
      /\ d[p] = r /\ d[r] = p
  BY DEF Twinned
<1>2. DOMAIN t1 = DOMAIN t \ {r, p} /\ \A x \in DOMAIN t1 : t1[x] = t[x]
  BY DEF Without
<1>3. DOMAIN d1 = Places /\ d1[r] = r /\ d1[p] = p /\ \A x \in Places \ {r, p} : d1[x] = d[x]
  BY <1>1 DEF Exchanged
<1>4. ASSUME NEW x \in DOMAIN t1
      PROVE  /\ IsPair(t1[x]) /\ t1[x].dst_row \in DOMAIN t1 /\ t1[x].dst_row # x
             /\ t1[t1[x].dst_row].dst_row = x /\ d1[t1[x].dst_row] = x
  <2> DEFINE y == t[x].dst_row
  <2>1. /\ x \in DOMAIN t /\ IsPair(t[x]) /\ y \in DOMAIN t /\ y # x /\ t[y].dst_row = x
        /\ d[y] = x /\ y \in Places /\ t1[x] = t[x]
    BY <1>2 DEF Twinned
  <2> HIDE DEF y
  <2>2. y # r /\ y # p
    BY <1>1, <1>2, <2>1
  <2>3. y \in DOMAIN t1 /\ t1[y] = t[y] /\ d1[y] = d[y]
    BY <1>2, <1>3, <2>1, <2>2
  <2>4. t1[x].dst_row = y
    BY <2>1 DEF y
  <2> QED
    BY <2>1, <2>3, <2>4
<1>5. \A x \in Places \ DOMAIN t1 : d1[x] = x
  BY <1>2, <1>3 DEF Twinned
<1> QED
  BY <1>2, <1>3, <1>4, <1>5 DEF Twinned

LEMMA PairMade ==
    ASSUME NEW t, NEW d, Twinned(t, d), NEW r \in Places, NEW p \in Places, r # p,
           r \notin DOMAIN t, p \notin DOMAIN t,
           NEW t1, Joined(t, r, p, t1), NEW d1, Exchanged(d, r, p, d1)
    PROVE  Twinned(t1, d1)
<1>1. d[r] = r /\ d[p] = p
  BY DEF Twinned
<1>2. /\ DOMAIN t1 = DOMAIN t \cup {r, p} /\ \A x \in DOMAIN t : t1[x] = t[x]
      /\ IsPair(t1[r]) /\ IsPair(t1[p]) /\ t1[r].dst_row = p /\ t1[p].dst_row = r
  BY DEF Joined
<1>3. DOMAIN d1 = Places /\ d1[r] = p /\ d1[p] = r /\ \A x \in Places \ {r, p} : d1[x] = d[x]
  BY <1>1 DEF Exchanged
<1>4. ASSUME NEW x \in DOMAIN t
      PROVE  /\ IsPair(t1[x]) /\ t1[x].dst_row \in DOMAIN t1 /\ t1[x].dst_row # x
             /\ t1[t1[x].dst_row].dst_row = x /\ d1[t1[x].dst_row] = x
  <2> DEFINE y == t[x].dst_row
  <2>1. /\ IsPair(t[x]) /\ y \in DOMAIN t /\ y # x /\ t[y].dst_row = x
        /\ d[y] = x /\ y \in Places /\ t1[x] = t[x]
    BY <1>2 DEF Twinned
  <2> HIDE DEF y
  <2>3. y \in DOMAIN t1 /\ t1[y] = t[y] /\ d1[y] = d[y]
    BY <1>2, <1>3, <2>1
  <2>4. t1[x].dst_row = y
    BY <2>1 DEF y
  <2> QED
    BY <2>1, <2>3, <2>4
<1>5. ASSUME NEW x \in {r, p}
      PROVE  /\ IsPair(t1[x]) /\ t1[x].dst_row \in DOMAIN t1 /\ t1[x].dst_row # x
             /\ t1[t1[x].dst_row].dst_row = x /\ d1[t1[x].dst_row] = x
  BY <1>2, <1>3
<1>6. \A x \in Places \ DOMAIN t1 : d1[x] = x
  BY <1>2, <1>3 DEF Twinned
<1>7. DOMAIN t1 \subseteq Places
  BY <1>2 DEF Twinned
<1> QED
  BY <1>2, <1>3, <1>4, <1>5, <1>6, <1>7 DEF Twinned

(* One change of RRS after the other.                                      *)
PartnerOf(st, r, p) == p = st.rit[r].dst_row

LEMMA SwappedBack ==
    ASSUME NEW st, Twinned(st.rit, st.data), NEW r \in DOMAIN st.rit, NEW p, NEW y, NEW x,
           PartnerOf(st, r, p), Swapped(st, r, p, y), Removed(y, r, p, x)
    PROVE  Twinned(x.rit, x.data) /\ DOMAIN x.rit = DOMAIN st.rit \ {r, p}
<1> DEFINE t == st.rit
           d == st.data
           t1 == x.rit
           d1 == x.data
<1>1. /\ Twinned(t, d) /\ r \in DOMAIN t
      /\ r \in Places /\ p \in Places /\ p # r /\ DOMAIN d = Places
  BY DEF Twinned, PartnerOf
<1>2. Exchanged(d, r, p, y.data)
  BY <1>1, ExchangedAt
<1>3. Without(y.rit, r, p, t1)
  BY WithoutAt
<1>4. y.rit = t
  BY DEF Swapped
<1>5. y.data = d1
  BY DEF Removed
<1>6. p = t[r].dst_row
  BY DEF PartnerOf
<1>7. Without(t, r, p, t1) /\ Exchanged(d, r, p, d1)
  BY <1>2, <1>3, <1>4, <1>5
<1> HIDE DEF t, d, t1, d1
<1>8. Twinned(t1, d1) /\ DOMAIN t1 = DOMAIN t \ {r, p}
  BY <1>1, <1>6, <1>7, PairUndone
<1> QED
  BY <1>8 DEF t, d, t1, d1

LEMMA SwappedAway ==
    ASSUME NEW st, Twinned(st.rit, st.data), NEW r \in Places, NEW p \in Places, r # p,
           r \notin DOMAIN st.rit, p \notin DOMAIN st.rit, NEW y, NEW x,
           Swapped(st, r, p, y), Entered(y, r, p, x)
    PROVE  Twinned(x.rit, x.data)
<1> DEFINE t == st.rit
           d == st.data
           t1 == x.rit
           d1 == x.data
<1>1. Twinned(t, d) /\ r \notin DOMAIN t /\ p \notin DOMAIN t /\ DOMAIN d = Places
  BY DEF Twinned
<1>2. Exchanged(d, r, p, y.data)
  BY <1>1, ExchangedAt
<1>3. Joined(y.rit, r, p, t1)
  BY JoinedAt
<1>4. y.rit = t
  BY DEF Swapped
<1>5. y.data = d1
  BY DEF Entered
<1>7. Joined(t, r, p, t1) /\ Exchanged(d, r, p, d1)
  BY <1>2, <1>3, <1>4, <1>5
<1> HIDE DEF t, d, t1, d1
<1>8. Twinned(t1, d1)
  BY <1>1, <1>7, PairMade
<1> QED
  BY <1>8 DEF t, d, t1, d1

(* The end of a period changes no pair.                                    *)
LEMMA UnlockedAt ==
    ASSUME NEW e, IsPair(e)
    PROVE  LET f == [e EXCEPT !.lock = FALSE] IN IsPair(f) /\ f.dst_row = e.dst_row
BY DEF IsPair

(* The tables differ in nothing but locks.                                 *)
SamePairs(t, u) ==
    /\ DOMAIN u = DOMAIN t
    /\ \A r \in DOMAIN t : IsPair(t[r]) => IsPair(u[r]) /\ u[r].dst_row = t[r].dst_row

LEMMA RitNowAt ==
    ASSUME NEW b
    PROVE  SamePairs(rit[b], RitNow(b))
<1> DEFINE t == rit[b]
           u == RitNow(b)
<1>1. CASE PeriodEnds /\ plugin = "RRS"
  <2>1. u = [r \in DOMAIN t |-> [t[r] EXCEPT !.lock = FALSE]]
    BY <1>1 DEF RitNow
  <2> HIDE DEF t, u
  <2>2. ASSUME NEW r \in DOMAIN t, IsPair(t[r])
        PROVE  IsPair(u[r]) /\ u[r].dst_row = t[r].dst_row
    <3> DEFINE e == t[r]
               f == u[r]
    <3>1. f = [e EXCEPT !.lock = FALSE] /\ IsPair(e)
      BY <2>1, <2>2
    <3> HIDE DEF e, f
    <3>2. IsPair(f) /\ f.dst_row = e.dst_row
      BY <3>1, UnlockedAt
    <3> QED
      BY <3>2 DEF e, f
  <2>3. SamePairs(t, u)
    BY <2>1, <2>2 DEF SamePairs
  <2> QED
    BY <2>3 DEF t, u
<1>2. CASE ~(PeriodEnds /\ plugin = "RRS")
  <2>1. u = t
    BY <1>2 DEF RitNow
  <2> HIDE DEF t, u
  <2>2. SamePairs(t, u)
    BY <2>1 DEF SamePairs
  <2> QED
    BY <2>2 DEF t, u
<1> QED
  BY <1>1, <1>2

LEMMA SamePaired ==
    ASSUME NEW t, NEW u, NEW d, Twinned(t, d), SamePairs(t, u)
    PROVE  Twinned(u, d)
<1>1. /\ DOMAIN u = DOMAIN t
      /\ \A r \in DOMAIN t : IsPair(u[r]) /\ u[r].dst_row = t[r].dst_row
  BY DEF Twinned, SamePairs
<1>2. ASSUME NEW r \in DOMAIN u
      PROVE  /\ IsPair(u[r]) /\ u[r].dst_row \in DOMAIN u /\ u[r].dst_row # r
             /\ u[u[r].dst_row].dst_row = r /\ d[u[r].dst_row] = r
  <2> DEFINE p == t[r].dst_row
  <2>1. r \in DOMAIN t /\ p \in DOMAIN t /\ p # r /\ t[p].dst_row = r /\ d[p] = r /\ u[r].dst_row = p
    BY <1>1 DEF Twinned
  <2> HIDE DEF p
  <2>2. u[p].dst_row = r
    BY <1>1, <2>1
  <2> QED
    BY <1>1, <2>1, <2>2
<1> QED
  BY <1>1, <1>2 DEF Twinned

LEMMA RoomPaired ==
    ASSUME NEW st, IsBank(st), Twinned(st.rit, st.data), NEW hrt, NEW x \in WithRoom(st, hrt),
           GoesOn(x.stop)
    PROVE  IsBank(x) /\ Twinned(x.rit, x.data) /\ DOMAIN x.rit \subseteq DOMAIN st.rit
<1>1. /\ IsBank(x)
      /\ \/ x = st
         \/ \E r \in DOMAIN st.rit : \E y :
               Swapped(st, r, st.rit[r].dst_row, y) /\ Removed(y, r, st.rit[r].dst_row, x)
  BY RoomAt
<1>2. CASE x = st
  BY <1>2
<1>3. ASSUME NEW r \in DOMAIN st.rit, NEW y,
             Swapped(st, r, st.rit[r].dst_row, y), Removed(y, r, st.rit[r].dst_row, x)
      PROVE  Twinned(x.rit, x.data) /\ DOMAIN x.rit \subseteq DOMAIN st.rit
  <2> DEFINE p == st.rit[r].dst_row
  <2>1. PartnerOf(st, r, p) /\ Swapped(st, r, p, y) /\ Removed(y, r, p, x)
    BY <1>3 DEF PartnerOf
  <2> HIDE DEF p
  <2> QED
    BY <2>1, SwappedBack
<1> QED
  BY <1>1, <1>2, <1>3

LEMMA FirstPaired ==
    ASSUME NEW st, IsBank(st), Twinned(st.rit, st.data), NEW hrt, NEW row \in Places,
           row \notin DOMAIN st.rit, NEW x \in FirstSwaps(st, hrt, row), GoesOn(x.stop)
    PROVE  Twinned(x.rit, x.data)
<1>1. PICK dst \in RandRows(st, hrt, row) : \E y :
         Swapped(st, row, dst, y) /\ Entered(y, row, dst, x)
  BY FirstSwapMoves
<1>2. dst \in Places /\ dst # row /\ dst \notin DOMAIN st.rit
  BY DEF RandRows
<1> QED
  BY <1>1, <1>2, SwappedAway

LEMMA LaterPaired ==
    ASSUME NEW st, IsBank(st), Twinned(st.rit, st.data), NEW hrt, NEW row \in DOMAIN st.rit,
           NEW x \in LaterSwaps(st, hrt, row)
    PROVE  Twinned(x.rit, x.data)
<1>1. PICK dst \in RandRows(st, hrt, row) : \E w, home, y :
         /\ Swapped(st, row, st.rit[row].dst_row, w) /\ Removed(w, row, st.rit[row].dst_row, home)
         /\ Swapped(home, row, dst, y) /\ Entered(y, row, dst, x)
  BY LaterSwapMoves
<1>2. PICK w, home, y :
         /\ Swapped(st, row, st.rit[row].dst_row, w) /\ Removed(w, row, st.rit[row].dst_row, home)
         /\ Swapped(home, row, dst, y) /\ Entered(y, row, dst, x)
  BY <1>1
<1>3. Twinned(home.rit, home.data) /\ DOMAIN home.rit = DOMAIN st.rit \ {row, st.rit[row].dst_row}
  <2> DEFINE p == st.rit[row].dst_row
  <2>1. PartnerOf(st, row, p) /\ Swapped(st, row, p, w) /\ Removed(w, row, p, home)
    BY <1>2 DEF PartnerOf
  <2> HIDE DEF p
  <2>2. Twinned(home.rit, home.data) /\ DOMAIN home.rit = DOMAIN st.rit \ {row, p}
    BY <2>1, SwappedBack
  <2> QED
    BY <2>2 DEF p
<1>4. dst \in Places /\ dst # row /\ dst \notin DOMAIN st.rit
  BY DEF RandRows
<1>5. row \in Places /\ row \notin DOMAIN home.rit /\ dst \notin DOMAIN home.rit
  BY <1>3, <1>4 DEF Twinned
<1> QED
  BY <1>2, <1>3, <1>4, <1>5, SwappedAway

(* A move of RRS that is not the second one of its period.                 *)
LEMMA RrsPaired ==
    ASSUME NEW b, Twinned(rit[b], data[b]), NEW hrt, NEW row \in Places,
           ~(row \in DOMAIN RitNow(b) /\ RitNow(b)[row].lock),
           NEW x \in RrsMoves(b, hrt, row), GoesOn(x.stop)
    PROVE  Twinned(x.rit, x.data)
<1> DEFINE st == Start(b)
<1>1. IsBank(st) /\ st.rit = RitNow(b) /\ st.data = data[b]
  BY StartAt
<1>2. Twinned(st.rit, st.data)
  <2> DEFINE t == rit[b]
             u == RitNow(b)
             d == data[b]
  <2>1. Twinned(t, d) /\ SamePairs(t, u)
    BY RitNowAt
  <2> HIDE DEF t, u, d
  <2>2. Twinned(u, d)
    BY <2>1, SamePaired
  <2> QED
    BY <1>1, <2>2 DEF u, d
<1>3. \/ row \in DOMAIN st.rit /\ x \in LaterSwaps(st, hrt, row)
      \/ row \notin DOMAIN st.rit /\ \E y \in WithRoom(st, hrt) : x \in FirstSwaps(y, hrt, row)
  BY <1>1 DEF RrsMoves
<1> HIDE DEF st
<1>4. CASE row \in DOMAIN st.rit /\ x \in LaterSwaps(st, hrt, row)
  BY <1>1, <1>2, <1>4, LaterPaired
<1>5. ASSUME row \notin DOMAIN st.rit, NEW y \in WithRoom(st, hrt), x \in FirstSwaps(y, hrt, row)
      PROVE  Twinned(x.rit, x.data)
  <2>1. IsBank(y)
    BY <1>1, RoomAt
  <2>2. GoesOn(y.stop)
    BY <1>5, <2>1, FirstSwapMoves
  <2>3. Twinned(y.rit, y.data) /\ row \notin DOMAIN y.rit
    BY <1>1, <1>2, <1>5, <2>2, RoomPaired
  <2> QED
    BY <1>5, <2>1, <2>3, FirstPaired
<1> QED
  BY <1>3, <1>4, <1>5

(* AQUA: a place of the quarantine area either is free or holds the data   *)
(* of a row outside it; a row that is not there is at home.                *)
Area == 0..(NumQRows - 1)
HomeRows == NumQRows..NumRows
Parked(t, q, d) ==
    /\ DOMAIN d = Places
    /\ \A h \in DOMAIN q : /\ h \in Area /\ q[h] \in HomeRows
                           /\ h \in DOMAIN t /\ t[h].dst_row = q[h]
                           /\ q[h] \in DOMAIN t /\ t[q[h]].dst_row = h /\ d[h] = q[h]
    /\ \A r \in DOMAIN t : r \in DOMAIN q \/ \E h \in DOMAIN q : q[h] = r
    /\ \A r \in HomeRows \ DOMAIN t : d[r] = r

(* The pointers of the area with one less, and with one more.              *)
Dropped(q, h, new) ==
    DOMAIN new = DOMAIN q \ {h} /\ \A x \in DOMAIN q \ {h} : new[x] = q[x]
Added(q, h, org, new) ==
    /\ DOMAIN new = DOMAIN q \cup {h} /\ new[h] = org
    /\ \A x \in DOMAIN q \ {h} : new[x] = q[x]

LEMMA AreasApart ==
    /\ \A x \in Area : x \in Places /\ x \notin HomeRows
    /\ \A x \in HomeRows : x \in Places /\ x \notin Area
<1>1. NumQRows \in 1..NumRows /\ NumRows \in Nat
  <2>1. NumRows \in Nat
    BY TrackersAssumption
  <2> QED
    BY <2>1, SwapAssumption
<1> QED
  BY <1>1 DEF Area, HomeRows, Places

LEMMA HomeAbove == \A x \in Places : ~(x < NumQRows) => x \in HomeRows
<1>1. NumQRows \in Nat /\ NumRows \in Nat
  <2>1. NumRows \in Nat
    BY TrackersAssumption
  <2> QED
    BY <2>1, SwapAssumption
<1> QED
  BY <1>1 DEF Places, HomeRows

LEMMA EvictParked ==
    ASSUME NEW t, NEW q, NEW d, Parked(t, q, d), NEW h \in DOMAIN q, NEW org, org = q[h],
           NEW t1, Without(t, h, org, t1), NEW q1, Dropped(q, h, q1),
           NEW d1, MovedOver(d, h, org, d1)
    PROVE  Parked(t1, q1, d1)
<1>1. h \in Area /\ org \in HomeRows /\ t[org].dst_row = h /\ d[h] = org
  BY DEF Parked
<1>2. DOMAIN t1 = DOMAIN t \ {h, org} /\ \A x \in DOMAIN t1 : t1[x] = t[x]
  BY DEF Without
<1>3. DOMAIN q1 = DOMAIN q \ {h} /\ \A x \in DOMAIN q1 : q1[x] = q[x]
  BY DEF Dropped
<1>4. DOMAIN d1 = Places /\ d1[org] = org /\ \A x \in Places \ {h, org} : d1[x] = d[x]
  BY <1>1 DEF MovedOver
<1>5. ASSUME NEW x \in DOMAIN q1
      PROVE  /\ x \in Area /\ q1[x] \in HomeRows
             /\ x \in DOMAIN t1 /\ t1[x].dst_row = q1[x]
             /\ q1[x] \in DOMAIN t1 /\ t1[q1[x]].dst_row = x /\ d1[x] = q1[x]
  <2> DEFINE y == q[x]
  <2>1. /\ x \in DOMAIN q /\ x # h /\ q1[x] = y /\ x \in Area /\ y \in HomeRows
        /\ x \in DOMAIN t /\ t[x].dst_row = y /\ y \in DOMAIN t /\ t[y].dst_row = x /\ d[x] = y
    BY <1>3 DEF Parked
  <2> HIDE DEF y
  <2>2. y # org /\ y # h /\ x # org /\ x \in Places
    BY <1>1, <2>1, AreasApart
  <2>3. x \in DOMAIN t1 /\ t1[x] = t[x] /\ y \in DOMAIN t1 /\ t1[y] = t[y] /\ d1[x] = d[x]
    BY <1>2, <1>4, <2>1, <2>2
  <2> QED
    BY <2>1, <2>3
<1>6. ASSUME NEW r \in DOMAIN t1
      PROVE  r \in DOMAIN q1 \/ \E x \in DOMAIN q1 : q1[x] = r
  <2>1. r \in DOMAIN t /\ r # h /\ r # org
    BY <1>2
  <2>2. r \in DOMAIN q \/ \E x \in DOMAIN q : q[x] = r
    BY <2>1 DEF Parked
  <2> QED
    BY <1>3, <2>1, <2>2
<1>7. ASSUME NEW r \in HomeRows \ DOMAIN t1
      PROVE  d1[r] = r
  <2>1. CASE r = org
    BY <1>4, <2>1
  <2>2. CASE r # org
    <3>1. r # h /\ r \in Places
      BY <1>1, AreasApart
    <3>2. r \notin DOMAIN t
      BY <1>2, <2>2, <3>1
    <3>3. d[r] = r
      BY <3>2 DEF Parked
    <3> QED
      BY <1>4, <2>2, <3>1, <3>3
  <2> QED
    BY <2>1, <2>2
<1> QED
  BY <1>4, <1>5, <1>6, <1>7 DEF Parked

LEMMA ParkHome ==
    ASSUME NEW t, NEW q, NEW d, Parked(t, q, d), NEW h \in Area, h \notin DOMAIN q,
           NEW r \in HomeRows, r \notin DOMAIN t,
           NEW t1, Joined(t, r, h, t1), NEW q1, Added(q, h, r, q1), NEW d1, MovedOver(d, r, h, d1)
    PROVE  Parked(t1, q1, d1)
<1>1. d[r] = r
  BY DEF Parked
<1>2. /\ DOMAIN t1 = DOMAIN t \cup {r, h} /\ t1[r].dst_row = h /\ t1[h].dst_row = r
      /\ \A x \in DOMAIN t \ {r, h} : t1[x] = t[x]
  BY DEF Joined
<1>3. DOMAIN q1 = DOMAIN q \cup {h} /\ q1[h] = r /\ \A x \in DOMAIN q : q1[x] = q[x]
  BY DEF Added
<1>4. DOMAIN d1 = Places /\ d1[h] = r /\ \A x \in Places \ {r, h} : d1[x] = d[x]
  BY <1>1 DEF MovedOver
<1>5. ASSUME NEW x \in DOMAIN q
      PROVE  /\ x \in Area /\ q1[x] \in HomeRows
             /\ x \in DOMAIN t1 /\ t1[x].dst_row = q1[x]
             /\ q1[x] \in DOMAIN t1 /\ t1[q1[x]].dst_row = x /\ d1[x] = q1[x]
  <2> DEFINE y == q[x]
  <2>1. /\ x # h /\ q1[x] = y /\ x \in Area /\ y \in HomeRows
        /\ x \in DOMAIN t /\ t[x].dst_row = y /\ y \in DOMAIN t /\ t[y].dst_row = x /\ d[x] = y
    BY <1>3 DEF Parked
  <2> HIDE DEF y
  <2>2. x # r /\ y # r /\ y # h /\ x \in Places
    BY <2>1, AreasApart
  <2>3. x \in DOMAIN t1 /\ t1[x] = t[x] /\ y \in DOMAIN t1 /\ t1[y] = t[y] /\ d1[x] = d[x]
    BY <1>2, <1>4, <2>1, <2>2
  <2> QED
    BY <2>1, <2>3
<1>6. /\ h \in Area /\ q1[h] \in HomeRows
      /\ h \in DOMAIN t1 /\ t1[h].dst_row = q1[h]
      /\ q1[h] \in DOMAIN t1 /\ t1[q1[h]].dst_row = h /\ d1[h] = q1[h]
  BY <1>2, <1>3, <1>4
<1>7. ASSUME NEW x \in DOMAIN t1
      PROVE  x \in DOMAIN q1 \/ \E y \in DOMAIN q1 : q1[y] = x
  <2>1. CASE x \in {r, h}
    BY <1>3, <2>1
  <2>2. CASE x \notin {r, h}
    <3>1. x \in DOMAIN q \/ \E y \in DOMAIN q : q[y] = x
      BY <1>2, <2>2 DEF Parked
    <3> QED
      BY <1>3, <3>1
  <2> QED
    BY <2>1, <2>2
<1>8. ASSUME NEW x \in HomeRows \ DOMAIN t1
      PROVE  d1[x] = x
  <2>1. x \notin DOMAIN t /\ x # r /\ x # h /\ x \in Places
    BY <1>2, AreasApart
  <2>2. d[x] = x
    BY <2>1 DEF Parked
  <2> QED
    BY <1>4, <2>1, <2>2
<1> QED
  BY <1>3, <1>4, <1>5, <1>6, <1>7, <1>8 DEF Parked

LEMMA ParkOn ==
    ASSUME NEW t, NEW q, NEW d, Parked(t, q, d), NEW h \in Area, h \notin DOMAIN q,
           NEW r \in DOMAIN q, NEW org, org = q[r],
           NEW t1, Without(t, r, org, t1), NEW t2, Joined(t1, h, org, t2),
           NEW q1, Dropped(q, r, q1), NEW q2, Added(q1, h, org, q2), NEW d1, MovedOver(d, r, h, d1)
    PROVE  Parked(t2, q2, d1)
<1>1. /\ r \in Area /\ org \in HomeRows /\ t[org].dst_row = r /\ d[r] = org /\ r # h
      /\ org \in DOMAIN t /\ r \in DOMAIN t
  BY DEF Parked
<1>2. org # r /\ org # h /\ h \in Places /\ r \in Places
  BY <1>1, AreasApart
<1>3. /\ DOMAIN t2 = (DOMAIN t \ {r, org}) \cup {h, org}
      /\ t2[h].dst_row = org /\ t2[org].dst_row = h
      /\ \A x \in DOMAIN t \ {r, org, h} : t2[x] = t[x]
  <2>1. DOMAIN t1 = DOMAIN t \ {r, org} /\ \A x \in DOMAIN t \ {r, org} : t1[x] = t[x]
    BY DEF Without
  <2>2. /\ DOMAIN t2 = DOMAIN t1 \cup {h, org} /\ t2[h].dst_row = org /\ t2[org].dst_row = h
        /\ \A x \in DOMAIN t1 \ {h, org} : t2[x] = t1[x]
    BY DEF Joined
  <2> QED
    BY <2>1, <2>2
<1>4. /\ DOMAIN q2 = (DOMAIN q \ {r}) \cup {h} /\ q2[h] = org
      /\ \A x \in DOMAIN q \ {r} : q2[x] = q[x]
  <2>1. DOMAIN q1 = DOMAIN q \ {r} /\ \A x \in DOMAIN q \ {r} : q1[x] = q[x]
    BY DEF Dropped
  <2>2. DOMAIN q2 = DOMAIN q1 \cup {h} /\ q2[h] = org /\ \A x \in DOMAIN q1 \ {h} : q2[x] = q1[x]
    BY DEF Added
  <2> QED
    BY <2>1, <2>2
<1>5. DOMAIN d1 = Places /\ d1[h] = org /\ \A x \in Places \ {r, h} : d1[x] = d[x]
  BY <1>1 DEF MovedOver
<1>6. ASSUME NEW x \in DOMAIN q \ {r}
      PROVE  /\ x \in Area /\ q2[x] \in HomeRows
             /\ x \in DOMAIN t2 /\ t2[x].dst_row = q2[x]
             /\ q2[x] \in DOMAIN t2 /\ t2[q2[x]].dst_row = x /\ d1[x] = q2[x]
  <2> DEFINE y == q[x]
  <2>1. /\ x # h /\ x # r /\ q2[x] = y /\ x \in Area /\ y \in HomeRows
        /\ x \in DOMAIN t /\ t[x].dst_row = y /\ y \in DOMAIN t /\ t[y].dst_row = x /\ d[x] = y
    BY <1>4 DEF Parked
  <2> HIDE DEF y
  <2>2. x # org /\ y # org /\ y # h /\ y # r /\ x \in Places
    BY <1>1, <2>1, AreasApart
  <2>3. x \in DOMAIN t2 /\ t2[x] = t[x] /\ y \in DOMAIN t2 /\ t2[y] = t[y] /\ d1[x] = d[x]
    BY <1>3, <1>5, <2>1, <2>2
  <2> QED
    BY <2>1, <2>3
<1>7. /\ h \in Area /\ q2[h] \in HomeRows
      /\ h \in DOMAIN t2 /\ t2[h].dst_row = q2[h]
      /\ q2[h] \in DOMAIN t2 /\ t2[q2[h]].dst_row = h /\ d1[h] = q2[h]
  BY <1>1, <1>3, <1>4, <1>5
<1>8. ASSUME NEW x \in DOMAIN t2
      PROVE  x \in DOMAIN q2 \/ \E y \in DOMAIN q2 : q2[y] = x
  <2>1. CASE x \in {h, org}
    BY <1>4, <2>1
  <2>2. CASE x \notin {h, org}
    <3>1. x \in DOMAIN t /\ x # r /\ x # org
      BY <1>3, <2>2
    <3>2. x \in DOMAIN q \/ \E y \in DOMAIN q : q[y] = x
      BY <3>1 DEF Parked
    <3> QED
      BY <1>4, <3>1, <3>2
  <2> QED
    BY <2>1, <2>2
<1>9. ASSUME NEW x \in HomeRows \ DOMAIN t2
      PROVE  d1[x] = x
  <2>1. x # r /\ x # h /\ x \in Places
    BY <1>1, AreasApart
  <2>2. x \notin DOMAIN t
    BY <1>3, <2>1
  <2>3. d[x] = x
    BY <2>2 DEF Parked
  <2> QED
    BY <1>5, <2>1, <2>3
<1>10. \A x \in DOMAIN q2 : x = h \/ x \in DOMAIN q \ {r}
  BY <1>4
<1> QED
  BY <1>5, <1>6, <1>7, <1>8, <1>9, <1>10 DEF Parked

LEMMA DroppedAt == ASSUME NEW q, NEW h PROVE Dropped(q, h, Emptied(q, h))
BY DEF Dropped, Emptied

LEMMA AddedAt == ASSUME NEW q, NEW h, NEW org PROVE Added(q, h, org, With(q, h, org))
BY DEF Added, With

(* What the head of the area holds goes home.                              *)
LEMMA SentHomeParked ==
    ASSUME NEW st, Parked(st.rit, st.rpt, st.data), NEW new, SentHome(st, new)
    PROVE  /\ Parked(new.rit, new.rpt, new.data)
           /\ DOMAIN new.rpt = DOMAIN st.rpt \ {rqa_head}
           /\ DOMAIN new.rit \subseteq DOMAIN st.rit
<1>1. CASE rqa_head \notin DOMAIN st.rpt
  <2>1. new = st
    BY <1>1 DEF SentHome
  <2> QED
    BY <1>1, <2>1
<1>2. CASE rqa_head \in DOMAIN st.rpt
  <2> DEFINE org == st.rpt[rqa_head]
             p == Emptied(st.rpt, rqa_head)
             t == st.rit
             q == st.rpt
             d == st.data
             t1 == new.rit
             q1 == new.rpt
             d1 == new.data
  <2>1. PICK y, z : Removed(st, rqa_head, org, y) /\ Pointed(y, p, z) /\ Migrated(z, rqa_head, org, new)
    BY <1>2 DEF SentHome
  <2>2. Dropped(q, rqa_head, p)
    BY DroppedAt
  <2>3. Parked(t, q, d) /\ rqa_head \in DOMAIN q /\ org = q[rqa_head]
    BY <1>2
  <2> HIDE DEF org, p
  <2>4. Without(t, rqa_head, org, y.rit)
    BY <2>1, WithoutAt
  <2>5. y.data = d /\ z.data = y.data /\ z.rit = y.rit /\ z.rpt = p
    BY <2>1 DEF Removed, Pointed
  <2>6. t1 = z.rit /\ q1 = z.rpt
    BY <2>1 DEF Migrated
  <2>7. rqa_head \in Places /\ org \in Places /\ rqa_head # org /\ DOMAIN d = Places
    <3> HIDE DEF t, q, d
    <3>1. rqa_head \in Area /\ org \in HomeRows /\ DOMAIN d = Places
      BY <2>3 DEF Parked
    <3> QED
      BY <3>1, AreasApart
  <2>8. DOMAIN z.data = Places
    BY <2>5, <2>7
  <2>9. MovedOver(z.data, rqa_head, org, d1)
    BY <2>1, <2>7, <2>8, CarriedAt
  <2>10. /\ Without(t, rqa_head, org, t1) /\ Dropped(q, rqa_head, q1) /\ MovedOver(d, rqa_head, org, d1)
    BY <2>2, <2>4, <2>5, <2>6, <2>9
  <2> HIDE DEF t, q, d, t1, q1, d1
  <2>11. Parked(t1, q1, d1)
    BY <2>3, <2>10, EvictParked
  <2>12. DOMAIN q1 = DOMAIN q \ {rqa_head} /\ DOMAIN t1 \subseteq DOMAIN t
    BY <2>10 DEF Dropped, Without
  <2> QED
    BY <2>11, <2>12 DEF t, q, d, t1, q1, d1
<1> QED
  BY <1>1, <1>2

(* A row enters the area.                                                  *)
LEMMA ArrivalParked ==
    ASSUME NEW s1, Parked(s1.rit, s1.rpt, s1.data), rqa_head \in Area, rqa_head \notin DOMAIN s1.rpt,
           NEW row \in HomeRows, row \notin DOMAIN s1.rit,
           NEW st, Migrated(s1, row, rqa_head, st),
           NEW z, Pointed(st, With(st.rpt, rqa_head, row), z), NEW x, Entered(z, row, rqa_head, x)
    PROVE  Parked(x.rit, x.rpt, x.data)
<1> DEFINE t == s1.rit
           q == s1.rpt
           d == s1.data
           t1 == x.rit
           q1 == x.rpt
           d1 == x.data
<1>1. row \in Places /\ rqa_head \in Places /\ row # rqa_head
  BY AreasApart
<1>2. DOMAIN s1.data = Places
  BY DEF Parked
<1>3. MovedOver(d, row, rqa_head, st.data) /\ Joined(z.rit, row, rqa_head, t1)
  BY <1>1, <1>2, CarriedAt, JoinedAt
<1>4. st.rit = t /\ st.rpt = q
  BY DEF Migrated
<1>5. z.rit = st.rit /\ z.data = st.data /\ z.rpt = With(st.rpt, rqa_head, row)
  BY DEF Pointed
<1>6. d1 = z.data /\ q1 = z.rpt
  BY DEF Entered
<1>7. /\ Parked(t, q, d) /\ rqa_head \notin DOMAIN q /\ row \notin DOMAIN t
      /\ MovedOver(d, row, rqa_head, d1) /\ Joined(t, row, rqa_head, t1) /\ q1 = With(q, rqa_head, row)
  BY <1>3, <1>4, <1>5, <1>6
<1> HIDE DEF t, q, d, t1, q1, d1
<1>8. Added(q, rqa_head, row, q1)
  BY <1>7, AddedAt
<1>9. Parked(t1, q1, d1)
  BY <1>7, <1>8, ParkHome
<1> QED
  BY <1>9 DEF t, q, d, t1, q1, d1

(* A row of the area goes on to its head.                                  *)
LEMMA OnwardParked ==
    ASSUME NEW s1, Parked(s1.rit, s1.rpt, s1.data), rqa_head \in Area, rqa_head \notin DOMAIN s1.rpt,
           NEW row \in DOMAIN s1.rpt, NEW st, Migrated(s1, row, rqa_head, st),
           NEW org, org = Original(st, row), NEW y, Removed(st, row, org, y),
           NEW z, Pointed(y, With(Emptied(st.rpt, row), rqa_head, org), z),
           NEW x, Entered(z, rqa_head, org, x)
    PROVE  Parked(x.rit, x.rpt, x.data)
<1> DEFINE t == s1.rit
           q == s1.rpt
           d == s1.data
           t1 == y.rit
           t2 == x.rit
           q1 == Emptied(q, row)
           q2 == x.rpt
           d1 == x.data
<1>1. st.rit = t /\ st.rpt = q
  BY DEF Migrated
<1>2. org = q[row]
  BY <1>1 DEF Original
<1>3. Parked(t, q, d) /\ row \in DOMAIN q /\ rqa_head \notin DOMAIN q
  OBVIOUS
<1>4. /\ row \in Places /\ rqa_head \in Places /\ row # rqa_head /\ org \in Places /\ org # rqa_head
      /\ DOMAIN d = Places
  <2> HIDE DEF t, q, d
  <2>1. row \in Area /\ org \in HomeRows /\ DOMAIN d = Places
    BY <1>2, <1>3 DEF Parked
  <2> QED
    BY <1>3, <2>1, AreasApart
<1>5. MovedOver(d, row, rqa_head, st.data) /\ Joined(z.rit, rqa_head, org, t2)
  BY <1>4, CarriedAt, JoinedAt
<1>6. Without(st.rit, row, org, t1)
  BY WithoutAt
<1>7. y.data = st.data
  BY DEF Removed
<1>8. z.rit = y.rit /\ z.data = y.data /\ z.rpt = With(Emptied(st.rpt, row), rqa_head, org)
  BY DEF Pointed
<1>9. d1 = z.data /\ q2 = z.rpt
  BY DEF Entered
<1>10. /\ Without(t, row, org, t1) /\ Joined(t1, rqa_head, org, t2) /\ MovedOver(d, row, rqa_head, d1)
       /\ q2 = With(q1, rqa_head, org)
  BY <1>1, <1>5, <1>6, <1>7, <1>8, <1>9
<1>11. Dropped(q, row, q1)
  BY DroppedAt
<1> HIDE DEF t, q, d, t1, t2, q1, q2, d1
<1>12. Added(q1, rqa_head, org, q2)
  BY <1>10, AddedAt
<1>13. Parked(t2, q2, d1)
  BY <1>2, <1>3, <1>10, <1>11, <1>12, ParkOn
<1> QED
  BY <1>13 DEF t2, q2, d1

LEMMA AquaParked ==
    ASSUME NEW b, Parked(rit[b], rpt[b], data[b]), plugin = "AQUA", rqa_head \in Area,
           NEW row \in Places, ~Misleads(b, row), NEW x, x = AquaMove(b, row)
    PROVE  Parked(x.rit, x.rpt, x.data)
<1> DEFINE s0 == Start(b)
<1>1. IsBank(s0) /\ s0.rit = RitNow(b) /\ s0.rpt = rpt[b] /\ s0.data = data[b]
  BY StartAt
<1>2. RitNow(b) = rit[b]
  BY DEF RitNow
<1>3. PICK s1, st :
         /\ s1 = Evicted(Start(b)) /\ SentHome(s0, s1) /\ Migrated(s1, row, rqa_head, st)
         /\ \/ /\ row < NumQRows
               /\ \E y, z : /\ Removed(st, row, Original(st, row), y)
                            /\ Pointed(y, With(Emptied(st.rpt, row), rqa_head, Original(st, row)), z)
                            /\ Entered(z, rqa_head, Original(st, row), x)
            \/ /\ ~(row < NumQRows)
               /\ \E z : /\ Pointed(st, With(st.rpt, rqa_head, row), z)
                         /\ Entered(z, row, rqa_head, x)
  BY AquaShape
<1>4. IF row < NumQRows THEN row \in DOMAIN s1.rpt ELSE row \notin DOMAIN s1.rit
  <2>1. s1 = Evicted(Start(b))
    BY <1>3
  <2> QED
    BY <2>1 DEF Misleads
<1> HIDE DEF s0
<1>5. Parked(s0.rit, s0.rpt, s0.data)
  BY <1>1, <1>2
<1>6. Parked(s1.rit, s1.rpt, s1.data) /\ rqa_head \notin DOMAIN s1.rpt
  BY <1>3, <1>5, SentHomeParked
<1>7. CASE row < NumQRows
  <2>1. row \in DOMAIN s1.rpt
    BY <1>4, <1>7
  <2>2. \E y, z : /\ Removed(st, row, Original(st, row), y)
                  /\ Pointed(y, With(Emptied(st.rpt, row), rqa_head, Original(st, row)), z)
                  /\ Entered(z, rqa_head, Original(st, row), x)
    BY <1>3, <1>7
  <2> QED
    BY <1>3, <1>6, <2>1, <2>2, OnwardParked
<1>8. CASE ~(row < NumQRows)
  <2>1. row \notin DOMAIN s1.rit
    BY <1>4, <1>8
  <2>2. row \in HomeRows
    BY <1>8, HomeAbove
  <2>3. \E z : Pointed(st, With(st.rpt, rqa_head, row), z) /\ Entered(z, row, rqa_head, x)
    BY <1>3, <1>8
  <2> QED
    BY <1>3, <1>6, <2>1, <2>2, <2>3, ArrivalParked
<1> QED
  BY <1>7, <1>8

-----------------------------------------------------------------------------
(* The banks whose table has not been misled.                              *)
BankFollows(name, t, q, d) ==
    (name = "RRS" => Twinned(t, d)) /\ (name = "AQUA" => Parked(t, q, d))
DataInv ==
    /\ plugin \in {"RRS", "AQUA"} /\ misled \in [Banks -> BOOLEAN]
    /\ DOMAIN rpt = Banks /\ DOMAIN data = Banks /\ rqa_head \in Area
    /\ GoesOn(halted) =>
          \A b \in Banks : misled[b] \/ BankFollows(plugin, rit[b], rpt[b], data[b])

LEMMA NamesApart == "RRS" # "AQUA"
OBVIOUS

LEMMA SwapInitData == SwapInit => DataInv
<1> SUFFICES ASSUME SwapInit PROVE DataInv
  OBVIOUS
<1>1. /\ plugin \in {"RRS", "AQUA"} /\ rit = [b \in Banks |-> NoEntries] /\ rqa_head = 0
      /\ rpt = [b \in Banks |-> NoEntries] /\ data = [b \in Banks |-> [r \in Places |-> r]]
      /\ misled = [b \in Banks |-> FALSE]
  BY DEF SwapInit
<1> DEFINE none == NoEntries
           home == [r \in Places |-> r]
<1>2. DOMAIN none = {}
  BY NoEntriesAt
<1>3. DOMAIN home = Places /\ \A r \in Places : home[r] = r
  OBVIOUS
<1>4. \A b \in Banks : rit[b] = none /\ rpt[b] = none /\ data[b] = home
  BY <1>1
<1>5. rqa_head \in Area
  <2>1. NumQRows \in Nat /\ NumQRows >= 1
    <3>1. NumRows \in Nat
      BY TrackersAssumption
    <3> QED
      BY <3>1, SwapAssumption
  <2> QED
    BY <1>1, <2>1 DEF Area
<1> HIDE DEF none, home
<1>6. Twinned(none, home)
  BY <1>2, <1>3 DEF Twinned
<1>7. Parked(none, none, home)
  <2>1. \A r \in HomeRows : home[r] = r
    BY <1>3, AreasApart
  <2> QED
    BY <1>2, <1>3, <2>1 DEF Parked
<1>8. \A b \in Banks : BankFollows(plugin, rit[b], rpt[b], data[b])
  BY <1>4, <1>6, <1>7 DEF BankFollows
<1> QED
  BY <1>1, <1>5, <1>8 DEF DataInv

(* The end of a period misplaces nothing.                                  *)
LEMMA FollowsNow ==
    ASSUME plugin \in {"RRS", "AQUA"}, NEW b, BankFollows(plugin, rit[b], rpt[b], data[b])
    PROVE  BankFollows(plugin, RitNow(b), rpt[b], data[b])
<1>1. CASE plugin = "RRS"
  <2> DEFINE t == rit[b]
             u == RitNow(b)
             d == data[b]
  <2>1. Twinned(t, d) /\ SamePairs(t, u)
    BY <1>1, RitNowAt DEF BankFollows
  <2> HIDE DEF t, u, d
  <2>2. Twinned(u, d)
    BY <2>1, SamePaired
  <2>3. Twinned(RitNow(b), data[b])
    BY <2>2 DEF u, d
  <2> QED
    BY <1>1, <2>3, NamesApart DEF BankFollows
<1>2. CASE plugin = "AQUA"
  <2>1. RitNow(b) = rit[b]
    BY <1>2, NamesApart DEF RitNow
  <2> QED
    BY <2>1
<1> QED
  BY <1>1, <1>2

LEMMA StillData ==
    ASSUME DataInv, GoesOn(halted), plugin' = plugin, \A c \in Banks : rit'[c] = RitNow(c),
           UNCHANGED <<rpt, rqa_head, data, misled, halted>>
    PROVE  DataInv'
<1>1. /\ plugin \in {"RRS", "AQUA"} /\ misled \in [Banks -> BOOLEAN]
      /\ DOMAIN rpt = Banks /\ DOMAIN data = Banks /\ rqa_head \in Area
  BY DEF DataInv
<1>2. \A c \in Banks : misled[c] \/ BankFollows(plugin, rit[c], rpt[c], data[c])
  BY DEF DataInv
<1>3. ASSUME NEW c \in Banks
      PROVE  misled'[c] \/ BankFollows(plugin', rit'[c], rpt'[c], data'[c])
  <2>1. CASE misled[c]
    BY <2>1
  <2>2. CASE BankFollows(plugin, rit[c], rpt[c], data[c])
    <3>1. BankFollows(plugin, RitNow(c), rpt[c], data[c])
      BY <1>1, <2>2, FollowsNow
    <3> QED
      BY <1>3, <3>1
  <2> QED
    BY <1>2, <1>3, <2>1, <2>2
<1> QED
  BY <1>1, <1>3 DEF DataInv

(* The place of a request's row.                                           *)
LEMMA PairedPlace ==
    ASSUME NEW t, NEW d, Twinned(t, d), NEW r \in Places
    PROVE  Indirect(t, r) \in Places /\ d[Indirect(t, r)] = r
<1>1. CASE r \in DOMAIN t
  <2>1. Indirect(t, r) = t[r].dst_row
    BY <1>1 DEF Indirect
  <2> QED
    BY <1>1, <2>1 DEF Twinned
<1>2. CASE r \notin DOMAIN t
  <2>1. Indirect(t, r) = r
    BY <1>2 DEF Indirect
  <2> QED
    BY <1>2, <2>1 DEF Twinned
<1> QED
  BY <1>1, <1>2

LEMMA ParkedPlace ==
    ASSUME NEW t, NEW q, NEW d, Parked(t, q, d), NEW r \in HomeRows
    PROVE  /\ Indirect(t, r) \in DOMAIN q \/ (Indirect(t, r) = r /\ r \notin DOMAIN t)
           /\ d[Indirect(t, r)] = r
<1>1. CASE r \in DOMAIN t
  <2>1. r \notin DOMAIN q
    <3>1. \A h \in DOMAIN q : h \in Area
      BY DEF Parked
    <3> QED
      BY <3>1, AreasApart
  <2>2. PICK h \in DOMAIN q : q[h] = r
    BY <1>1, <2>1 DEF Parked
  <2>3. t[r].dst_row = h /\ d[h] = r
    BY <2>2 DEF Parked
  <2>4. Indirect(t, r) = h
    BY <1>1, <2>3 DEF Indirect
  <2> QED
    BY <2>2, <2>3, <2>4
<1>2. CASE r \notin DOMAIN t
  <2>1. Indirect(t, r) = r
    BY <1>2 DEF Indirect
  <2>2. d[r] = r
    BY <1>2 DEF Parked
  <2> QED
    BY <1>2, <2>1, <2>2
<1> QED
  BY <1>1, <1>2

(* A move that does not mislead the table of its bank.                     *)
LEMMA MoveFollows ==
    ASSUME plugin \in {"RRS", "AQUA"}, rqa_head \in Area, NEW b, NEW row \in Places,
           BankFollows(plugin, rit[b], rpt[b], data[b]), ~Misleads(b, row), NEW hrt,
           NEW x \in IF plugin = "RRS" THEN RrsMoves(b, hrt, row) ELSE {AquaMove(b, row)},
           GoesOn(x.stop)
    PROVE  BankFollows(plugin, x.rit, x.rpt, x.data)
<1>1. CASE plugin = "RRS"
  <2>1. Twinned(rit[b], data[b])
    BY <1>1 DEF BankFollows
  <2>2. ~(row \in DOMAIN RitNow(b) /\ RitNow(b)[row].lock)
    BY <1>1 DEF Misleads
  <2>3. x \in RrsMoves(b, hrt, row)
    BY <1>1
  <2>4. Twinned(x.rit, x.data)
    BY <2>1, <2>2, <2>3, RrsPaired
  <2> QED
    BY <1>1, <2>4, NamesApart DEF BankFollows
<1>2. CASE plugin = "AQUA"
  <2>1. Parked(rit[b], rpt[b], data[b])
    BY <1>2 DEF BankFollows
  <2>2. x = AquaMove(b, row)
    BY <1>2, NamesApart
  <2>3. Parked(x.rit, x.rpt, x.data)
    BY <1>2, <2>1, <2>2, AquaParked
  <2> QED
    BY <1>2, <2>3, NamesApart DEF BankFollows
<1> QED
  BY <1>1, <1>2

LEMMA MoveRowData ==
    ASSUME DataInv, GoesOn(halted), plugin' = plugin, NEW b \in Banks, NEW row \in Places,
           MoveRow(b, row)
    PROVE  DataInv'
<1> DEFINE Did(hrt, st) ==
             /\ hrt[row] % MoveThreshold = 0
             /\ table' = [c \in Banks |-> IF c = b THEN hrt ELSE HrtNow(c)] /\ spill' = SpillNow
             /\ rit' = [c \in Banks |-> IF c = b THEN st.rit ELSE RitNow(c)]
             /\ rpt' = [rpt EXCEPT ![b] = st.rpt]
             /\ rqa_head' = IF plugin = "AQUA" THEN (rqa_head + 1) % NumQRows ELSE rqa_head
             /\ waiting' = [waiting EXCEPT ![b] = @ \cup st.moved]
             /\ data' = [data EXCEPT ![b] = st.data]
             /\ acts' = [MovesNow EXCEPT ![b] =
                            [r \in Places |-> IF r \in st.moved THEN 0 ELSE @[r]]]
             /\ misled' = [misled EXCEPT ![b] = @ \/ Misleads(b, row)]
             /\ halted' = st.stop
<1>1. /\ plugin \in {"RRS", "AQUA"} /\ misled \in [Banks -> BOOLEAN]
      /\ DOMAIN rpt = Banks /\ DOMAIN data = Banks /\ rqa_head \in Area
  BY DEF DataInv
<1>2. \A c \in Banks : misled[c] \/ BankFollows(plugin, rit[c], rpt[c], data[c])
  BY DEF DataInv
<1>3. b \in Banks
  OBVIOUS
<1>4. PICK hrt \in Trackings(b, row) :
        \E st \in IF plugin = "RRS" THEN RrsMoves(b, hrt, row) ELSE {AquaMove(b, row)} : Did(hrt, st)
  BY Zenon DEF MoveRow
<1>5. PICK st \in IF plugin = "RRS" THEN RrsMoves(b, hrt, row) ELSE {AquaMove(b, row)} : Did(hrt, st)
  BY <1>4, Zenon
<1>6. /\ DOMAIN rpt' = Banks /\ DOMAIN data' = Banks
      /\ rit'[b] = st.rit /\ rpt'[b] = st.rpt /\ data'[b] = st.data
      /\ \A c \in Banks : c # b => /\ rit'[c] = RitNow(c) /\ rpt'[c] = rpt[c] /\ data'[c] = data[c]
  BY <1>1, <1>3, <1>5
<1>7. /\ misled' \in [Banks -> BOOLEAN] /\ \A c \in Banks : c # b => misled'[c] = misled[c]
      /\ misled[b] \/ Misleads(b, row) => misled'[b]
  <2> DEFINE m == misled[b] \/ Misleads(b, row)
  <2>1. misled' = [misled EXCEPT ![b] = m] /\ m \in BOOLEAN
    BY <1>1, <1>3, <1>5, Zenon
  <2> HIDE DEF m
  <2>2. /\ misled' \in [Banks -> BOOLEAN] /\ \A c \in Banks : c # b => misled'[c] = misled[c]
        /\ misled'[b] = m
    BY <1>1, <1>3, <2>1
  <2> QED
    BY <2>2, Zenon DEF m
<1>8. rqa_head' \in Area
  <2>1. CASE plugin = "AQUA"
    <3> DEFINE n == rqa_head + 1
    <3>1. NumQRows \in Nat \ {0}
      <4>1. NumRows \in Nat
        BY TrackersAssumption
      <4> QED
        BY <4>1, SwapAssumption
    <3>2. n \in Nat
      BY <1>1, <3>1 DEF Area
    <3>3. rqa_head' = n % NumQRows
      BY <1>5, <2>1
    <3> HIDE DEF n
    <3>4. n % NumQRows \in 0..(NumQRows - 1)
      BY <3>1, <3>2, DivMod
    <3> QED
      BY <3>3, <3>4 DEF Area
  <2>2. CASE plugin # "AQUA"
    BY <1>1, <1>5, <2>2
  <2> QED
    BY <2>1, <2>2
<1>9. ASSUME GoesOn(halted'), NEW c \in Banks, ~misled'[c]
      PROVE  BankFollows(plugin', rit'[c], rpt'[c], data'[c])
  <2>1. CASE c = b
    <3>1. ~misled[b] /\ ~Misleads(b, row)
      BY <1>7, <1>9, <2>1, Zenon
    <3>2. BankFollows(plugin, rit[b], rpt[b], data[b])
      BY <1>2, <1>3, <3>1, Zenon
    <3>3. GoesOn(st.stop)
      BY <1>5, <1>9
    <3>4. BankFollows(plugin, st.rit, st.rpt, st.data)
      BY <1>1, <3>1, <3>2, <3>3, MoveFollows
    <3> QED
      BY <1>6, <2>1, <3>4
  <2>2. CASE c # b
    <3>1. BankFollows(plugin, rit[c], rpt[c], data[c])
      BY <1>2, <1>7, <1>9, <2>2, Zenon
    <3>2. BankFollows(plugin, RitNow(c), rpt[c], data[c])
      BY <1>1, <3>1, FollowsNow
    <3> QED
      BY <1>6, <1>9, <2>2, <3>2
  <2> QED
    BY <2>1, <2>2
<1> QED
  BY <1>1, <1>6, <1>7, <1>8, <1>9, Zenon DEF DataInv

LEMMA SwapNextData == DataInv /\ [SwapNext]_<<trackers, swap>> => DataInv'
<1> SUFFICES ASSUME DataInv, [SwapNext]_<<trackers, swap>> PROVE DataInv'
  OBVIOUS
<1>1. ASSUME UNCHANGED <<plugin, rit, rpt, rqa_head, data, misled, halted>>
      PROVE  DataInv'
  BY <1>1 DEF DataInv
<1>2. CASE UNCHANGED <<trackers, swap>>
  <2>1. UNCHANGED <<plugin, rit, rpt, rqa_head, data, misled, halted>>
    BY <1>2 DEF trackers, swap
  <2> QED
    BY <1>1, <2>1
<1>3. ASSUME NEW h \in Hot[plugin], SwapSend(h[1], h[2])
      PROVE  DataInv'
  <2>1. UNCHANGED <<plugin, rit, rpt, rqa_head, data, misled, halted>>
    BY <1>3 DEF SwapSend, trackers
  <2> QED
    BY <1>1, <2>1
<1>4. ASSUME NEW b \in Banks, NEW row \in Places, SwapServe(b, row)
      PROVE  DataInv'
  <2>1. UNCHANGED <<plugin, rit, rpt, rqa_head, data, misled, halted>>
    BY <1>4 DEF SwapServe, trackers
  <2> QED
    BY <1>1, <2>1
<1>5. ASSUME SwapTick, GoesOn(halted)
      PROVE  DataInv'
  <2>1. plugin' = plugin
    BY <1>5 DEF SwapTick
  <2>2. CASE SwapIdle
    <3>1. /\ \A c \in Banks : rit'[c] = RitNow(c)
          /\ UNCHANGED <<rpt, rqa_head, data, misled, halted>>
      BY <2>2 DEF SwapIdle
    <3> QED
      BY <1>5, <2>1, <3>1, StillData
  <2>3. ASSUME NEW b \in Banks, NEW row \in Places, SwapActivate(b, row)
        PROVE  DataInv'
    <3>1. SwapSpill(b, row) \/ SwapCount(b, row) \/ MoveRow(b, row)
      BY <2>3 DEF SwapActivate
    <3>2. CASE SwapSpill(b, row) \/ SwapCount(b, row)
      <4>1. /\ \A c \in Banks : rit'[c] = RitNow(c)
            /\ UNCHANGED <<rpt, rqa_head, data, misled, halted>>
        BY <3>2 DEF SwapSpill, SwapCount
      <4> QED
        BY <1>5, <2>1, <4>1, StillData
    <3>3. CASE MoveRow(b, row)
      BY <1>5, <2>1, <3>3, MoveRowData
    <3> QED
      BY <3>1, <3>2, <3>3
  <2> QED
    BY <1>5, <2>2, <2>3 DEF SwapTick
<1> QED
  BY <1>2, <1>3, <1>4, <1>5 DEF SwapNext, GoesOn

LEMMA DataSafe == DataInv => DataFollowsRows
<1> SUFFICES ASSUME DataInv, GoesOn(halted), NEW b \in Banks, NEW r \in UserRows, ~misled[b]
             PROVE  data[b][Indirect(rit[b], r)] = r
  BY DEF DataFollowsRows, GoesOn
<1> DEFINE t == rit[b]
           q == rpt[b]
           d == data[b]
<1>1. plugin \in {"RRS", "AQUA"} /\ BankFollows(plugin, t, q, d)
  BY DEF DataInv
<1> HIDE DEF t, q, d
<1>2. NumRows \in Nat
  BY TrackersAssumption
<1>3. CASE plugin = "RRS"
  <2>1. Twinned(t, d)
    BY <1>1, <1>3 DEF BankFollows
  <2>2. r \in 0..(NumRows - 1)
    BY <1>3, NamesApart DEF UserRows, Rows
  <2>3. r \in Places
    BY <1>2, <2>2 DEF Places
  <2>4. d[Indirect(t, r)] = r
    BY <2>1, <2>3, PairedPlace
  <2> QED
    BY <2>4 DEF t, d
<1>4. CASE plugin = "AQUA"
  <2>1. Parked(t, q, d)
    BY <1>1, <1>4 DEF BankFollows
  <2>2. r \in NumQRows..(NumRows - 1)
    BY <1>4 DEF UserRows
  <2>4. NumQRows \in Nat
    BY <1>2, SwapAssumption
  <2>5. r \in HomeRows
    BY <1>2, <2>2, <2>4 DEF HomeRows
  <2>3. d[Indirect(t, r)] = r
    BY <2>1, <2>5, ParkedPlace
  <2> QED
    BY <2>3 DEF t, d
<1> QED
  BY <1>1, <1>3, <1>4

(* Every row is found where its data lies, as long as no move has misled   *)
(* the table of its bank.                                                  *)
THEOREM RowsAreFound == SwapSpec => []DataFollowsRows
BY SwapInitData, SwapNextData, DataSafe, PTL DEF SwapSpec
=============================================================================
