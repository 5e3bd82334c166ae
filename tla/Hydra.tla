--------------------------------- MODULE Hydra ---------------------------------
(***************************************************************************)
(* The Hydra plugin: groups of rows share a counter (GCT) until it reaches *)
(* the group threshold, then every row of the group has a counter of its   *)
(* own in the DRAM (RCT), cached per rank (RCC).  The first rows of a bank *)
(* hold the RCT; their own activations are counted apart.  Reads and       *)
(* writes of the RCT are requests Hydra puts into the priority buffer.     *)
(***************************************************************************)
EXTENDS RowTrackers

CONSTANTS
    RowGroupSize,       \* hydra_row_group_size
    RccSets, RccWays,   \* sets of the cache and entries of a set (16 in the code)
    RccPolicy,          \* "RANDOM" or "MIN_COUNT"
    TrackingThreshold, GroupThreshold,  \* hydra_tracking_threshold, hydra_group_threshold
    CounterBits,        \* bits of a counter, a multiple of 8
    LineBits, NumLines  \* bits of a cache line (512), lines of a row

(* The code cuts rows, groups and sets out of the bits of an address, so   *)
(* their numbers are powers of two; it asks for them as divisors only.     *)
(* Counters of 24 bits (a threshold above 65536) do not fill a line.       *)
ASSUME HydraAssumption ==
    /\ "Hydra" \in DOMAIN Hot /\ "Hydra" \in DOMAIN ResetPeriod
    /\ {RowGroupSize, RccSets, RccWays, CounterBits, LineBits, NumLines} \subseteq Nat \ {0}
    /\ TrackingThreshold \in Nat /\ GroupThreshold \in Nat
    /\ NumRows % RowGroupSize = 0 /\ NumRows % RccSets = 0
    /\ LineBits % CounterBits = 0 /\ (NumRows * CounterBits) % LineBits = 0

VARIABLES
    group_count_table,  \* by bank, then group of rows: [group_count, initialized]
    row_count_table,    \* by bank, then row
    row_count_cache,    \* by rank, then set, then tag
    rct_count_table,    \* by bank, then row of the RCT
    sent                \* the RCT requests of the latest update()

hydra == <<group_count_table, row_count_table, row_count_cache, rct_count_table, sent>>

Ranks == 0..(NumRanks - 1)
Sets == 0..(RccSets - 1)
BankInRank(b) == b % BanksPerRank

(* Rows, lines and counters of the RCT: m_total_rct_row_size and so on.    *)
TotalRctLines == (NumRows * CounterBits) \div LineBits
RctRows == (TotalRctLines + NumLines - 1) \div NumLines
RctPerRow == (NumLines * LineBits) \div CounterBits
RctPerLine == LineBits \div CounterBits
GroupRctLines == (RowGroupSize * CounterBits) \div LineBits

GroupOf(r) == r \div RowGroupSize
RowsOfGroup(g) == g * RowGroupSize .. g * RowGroupSize + RowGroupSize - 1
SetOf(r) == r % RccSets
TagRows == NumRows \div RccSets
Tag(b, r) == (r \div RccSets) + BankInRank(b) * TagRows

(* Where the counter of a row lies: generate_row_col_id.                   *)
RctPlace(r) == <<r \div RctPerRow, 8 * (((r % RctPerRow) * CounterBits) \div LineBits)>>

(* A request for a counter, with the cache entry of that counter beside it.*)
Request(type, bank, place, set, tag) ==
    [type |-> type, bank |-> bank, place |-> place, entry |-> <<set, tag>>]

(* Mutant: the set is left out of the evicted row.                         *)
EvictedRowOfTag(tag, set) == (tag % TagRows) * RccSets

(* The request that writes an evicted entry back: row and bank come out of *)
(* the tag and the set, the rank is that of the row activated.             *)
EvictedRow(tag, set) == (tag % TagRows) * RccSets + set
EvictedBank(tag, rank) == rank * BanksPerRank + tag \div TagRows
WriteBack(rank, set, tag) ==
    Request("write", EvictedBank(tag, rank), RctPlace(EvictedRow(tag, set)), set, tag)

Victims(cache) ==
    IF RccPolicy = "RANDOM" THEN DOMAIN cache
    ELSE {t \in DOMAIN cache : \A u \in DOMAIN cache : cache[t] <= cache[u]}

-----------------------------------------------------------------------------
HydraInit ==
    /\ plugin = "Hydra" /\ m_clk = -1
    /\ table = [b \in Banks |-> NoEntries]
    /\ spill = [b \in Banks |-> 0] /\ acts = NoActs /\ refs = 0
    /\ group_count_table = [b \in Banks |-> NoEntries]
    /\ row_count_table = [b \in Banks |-> NoEntries]
    /\ row_count_cache = [k \in Ranks |-> [s \in Sets |-> NoEntries]]
    /\ rct_count_table = [b \in Banks |-> NoEntries]
    /\ sent = {}

(* The tables when the command is looked at.                               *)
GctNow == IF PeriodEnds THEN [b \in Banks |-> NoEntries] ELSE group_count_table
RctNow == IF PeriodEnds THEN [b \in Banks |-> NoEntries] ELSE row_count_table
RccNow == IF PeriodEnds THEN [k \in Ranks |-> [s \in Sets |-> NoEntries]] ELSE row_count_cache
RctctNow == IF PeriodEnds THEN [b \in Banks |-> NoEntries] ELSE rct_count_table

GroupEntry(b, r) ==
    IF GroupOf(r) \in DOMAIN GctNow[b] THEN GctNow[b][GroupOf(r)]
    ELSE [group_count |-> 0, initialized |-> FALSE]

HydraIdle ==
    /\ group_count_table' = GctNow /\ row_count_table' = RctNow /\ row_count_cache' = RccNow
    /\ rct_count_table' = RctctNow /\ acts' = ActsNow /\ sent' = {}

(* An activation of a row of the RCT itself.                               *)
CountRctRow(b, r) ==
    LET count == (IF r \in DOMAIN RctctNow[b] THEN RctctNow[b][r] ELSE 0) + 1 IN
    /\ r < RctRows
    /\ \/ /\ count >= TrackingThreshold
          /\ rct_count_table' = [RctctNow EXCEPT ![b] = Emptied(@, r)]
          /\ acts' = Refreshed(ActsNow, b, r)
       \/ /\ count < TrackingThreshold
          /\ rct_count_table' = [RctctNow EXCEPT ![b] = With(@, r, count)]
          /\ acts' = Acted(ActsNow, b, r)
    /\ group_count_table' = GctNow /\ row_count_table' = RctNow /\ row_count_cache' = RccNow
    /\ sent' = {}

CountGroup(b, r) ==
    LET entry == GroupEntry(b, r) IN
    /\ r >= RctRows
    /\ entry.group_count < GroupThreshold
    /\ group_count_table' =
          [GctNow EXCEPT ![b] = With(@, GroupOf(r), [entry EXCEPT !.group_count = @ + 1])]
    /\ row_count_table' = RctNow /\ row_count_cache' = RccNow /\ rct_count_table' = RctctNow
    /\ acts' = Acted(ActsNow, b, r) /\ sent' = {}

(* Mutant: the counters of a group begin at zero.                          *)
InitializedRctFromZero(b, r) ==
    IF GroupEntry(b, r).initialized THEN RctNow[b]
    ELSE [x \in DOMAIN RctNow[b] \cup RowsOfGroup(GroupOf(r)) |->
             IF x \in RowsOfGroup(GroupOf(r)) THEN 0 ELSE RctNow[b][x]]

(* The counters of a group begin at what all of its rows together had.     *)
InitializedRct(b, r) ==
    IF GroupEntry(b, r).initialized THEN RctNow[b]
    ELSE [x \in DOMAIN RctNow[b] \cup RowsOfGroup(GroupOf(r)) |->
             IF x \in RowsOfGroup(GroupOf(r)) THEN GroupThreshold ELSE RctNow[b][x]]
InitWrites(b, r) ==
    IF GroupEntry(b, r).initialized THEN {}
    ELSE LET leads == {GroupOf(r) * RowGroupSize + i * RctPerLine : i \in 0..(GroupRctLines - 1)}
         IN  {Request("write", b, RctPlace(x), SetOf(x), Tag(b, x)) : x \in leads}

(* count is the row's new number in cache and table, over the threshold or *)
(* not; cache is its set without the entry that has to go.                 *)
CountRow(b, r) ==
    LET rank == RankOf(b)
        set == SetOf(r)
        tag == Tag(b, r)
        counters == InitializedRct(b, r)
        cache == RccNow[rank][set]
        hit == tag \in DOMAIN cache
        count == (IF hit THEN cache[tag] ELSE counters[r]) + 1
        due == count >= TrackingThreshold
        evicted == IF hit \/ Cardinality(DOMAIN cache) # RccWays THEN {{}}
                   ELSE {{t} : t \in Victims(cache)}
    IN
    /\ r >= RctRows
    /\ GroupEntry(b, r).group_count >= GroupThreshold
    /\ group_count_table' =
          [GctNow EXCEPT ![b] = With(@, GroupOf(r), [GroupEntry(b, r) EXCEPT !.initialized = TRUE])]
    /\ row_count_table' =
          [RctNow EXCEPT ![b] = With(counters, r, IF due THEN 0 ELSE counters[r] + 1)]
    /\ \E gone \in evicted :
          /\ row_count_cache' =
                [RccNow EXCEPT ![rank][set] =
                    With([t \in DOMAIN cache \ gone |-> cache[t]], tag, IF due THEN 0 ELSE count)]
          /\ sent' = InitWrites(b, r) \cup {WriteBack(rank, set, t) : t \in gone}
                        \cup (IF hit THEN {} ELSE {Request("read", b, RctPlace(r), set, tag)})
    /\ rct_count_table' = RctctNow
    /\ acts' = IF due THEN Refreshed(ActsNow, b, r) ELSE Acted(ActsNow, b, r)

HydraNext ==
    /\ plugin = "Hydra" /\ Ticks
    /\ UNCHANGED <<plugin, table, spill, refs>>
    /\ \/ HydraIdle
       \/ \E h \in Hot["Hydra"] :
             CountRctRow(h[1], h[2]) \/ CountGroup(h[1], h[2]) \/ CountRow(h[1], h[2])

HydraSpec == HydraInit /\ [][HydraNext]_<<trackers, hydra>>

-----------------------------------------------------------------------------
(* What Hydra has counted of a row.                                        *)
HydraCounted(b, r) ==
    LET g == GroupOf(r) IN
    IF r < RctRows THEN IF r \in DOMAIN rct_count_table[b] THEN rct_count_table[b][r] ELSE 0
    ELSE IF g \notin DOMAIN group_count_table[b] THEN 0
    ELSE IF group_count_table[b][g].initialized THEN row_count_table[b][r]
    ELSE group_count_table[b][g].group_count

(* No row is activated more often than Hydra has counted since its latest  *)
(* preventive refresh or the start of the period, while counting moves     *)
(* from the group to the row and the counter in and out of the cache; so   *)
(* none reaches the tracking threshold (hydra.cpp:308-511).                *)
HydraInTime ==
    plugin = "Hydra" => \A b \in Banks, r \in Rows :
        /\ acts[b][r] <= HydraCounted(b, r)
        /\ acts[b][r] <= Larger(TrackingThreshold - 1, GroupThreshold)

(* Cached counters are those of the table, and every request Hydra sends   *)
(* for a counter goes to the bank of the row it counts and to a place      *)
(* inside the rows reserved for counters: the row is recovered from the    *)
(* cache's tag and set when an entry is evicted (hydra.cpp:412-430).       *)
CountersKeepTheirPlace ==
    plugin = "Hydra" =>
        /\ \A b \in Banks, r \in Rows :
              LET cache == row_count_cache[RankOf(b)][SetOf(r)] IN
              Tag(b, r) \in DOMAIN cache => cache[Tag(b, r)] = row_count_table[b][r]
        /\ \A q \in sent : \E r \in DOMAIN row_count_table[q.bank] :
              /\ q.entry = <<SetOf(r), Tag(q.bank, r)>>
              /\ q.place = RctPlace(r) /\ q.place[1] < RctRows
=============================================================================
