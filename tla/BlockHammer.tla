------------------------------- MODULE BlockHammer ------------------------------
(***************************************************************************)
(* BlockHammer: counting Bloom filters blacklist the rows of a bank that   *)
(* are activated often, a history buffer holds back their next             *)
(* activation, and a throttler takes MSHRs from the cores that ask for it. *)
(* With the plugin come its scheduler, which skips what is held back, and  *)
(* the quota in the processor's cache.                                     *)
(*                                                                         *)
(* A request is its place <<bank, row>>.  It waits in the read buffer, and *)
(* holds its core's MSHR, until its row is activated; every request finds  *)
(* its bank closed and the device ready; where it would have to wait for   *)
(* them, it arrives that much later here.                                  *)
(***************************************************************************)
EXTENDS RowTrackers, Sequences, SequencesExt

CONSTANTS
    NumFilters,     \* bf_num_filters
    EpochClk,       \* m_bf_len_epoch_clk
    NumCounters,    \* bf_ctr_count
    CtrThreshold,   \* bf_ctr_thresh
    CtrBits,        \* bits of a counter (16 in the code)
    HashOf,         \* the hash functions: row -> counter
    HistSize,       \* m_bf_hist_size
    HistMaxFreq,    \* bf_hist_max_freq
    RhliQuota,      \* n_rh * t_cbf / t_refw - n_bl
    CoreMshrs,      \* m_num_mshr_per_core
    SourceOf,       \* place -> the core that reads there
    Leftovers       \* what a sub-filter's m_saturate may have been before

HotPlaces == Hot["BlockHammer"]
BhBanks == {h[1] : h \in HotPlaces}
BhRows == {h[2] : h \in HotPlaces}
BhRanks == {RankOf(b) : b \in BhBanks}
BhCores == {SourceOf[h] : h \in HotPlaces}
SubFilters == 0..(NumFilters - 1)
NoRow == -1
CtrValues == 2^CtrBits

(* The threshold is one that a counter can reach.                          *)
ASSUME BlockHammerAssumption ==
    /\ NumFilters \in Nat \ {0} /\ EpochClk \in Nat \ {0} /\ NumCounters \in Nat \ {0}
    /\ CtrBits \in Nat /\ CtrValues \in Nat /\ CtrThreshold \in 0..(CtrValues - 1)
    /\ IsFiniteSet(DOMAIN HashOf)
    /\ \A i \in DOMAIN HashOf, r \in BhRows : HashOf[i][r] \in 0..(NumCounters - 1)
    /\ HistSize \in Nat \ {0} /\ HistMaxFreq \in Nat /\ "BlockHammer" \in DOMAIN Hot
    /\ RhliQuota \in Nat \ {0} /\ CoreMshrs \in Nat
    /\ Leftovers \subseteq [BhBanks \X SubFilters -> BOOLEAN]

VARIABLES
    filters,        \* by bank, sub-filter and counter
    saturate,       \* m_saturate of the sub-filters
    epoch_clk,      \* m_tick of the filters, the same in every bank
    test_idx,       \* m_test_idx, the same in every bank
    history,        \* by rank: the rows in the slots of the history
    hist_slot,      \* m_tick % m_size
    elem_counter,   \* by rank, then row; zero for a row that is not there
    act_counters,   \* of the throttler: by counter map, core and bank
    throttle_clk, active_idx,
    blacklist,      \* the cores with m_blacklist_status
    max_mshrs,      \* m_blacklist_max_mshrs
    bh_buffer,      \* the read buffer, oldest first
    window,         \* by place, then n: activations in this epoch and the n before,
                    \* counted up to the threshold (observer)
    wrapped,        \* the sub-filters of which a counter has overflowed (observer)
    recent,         \* by rank, then row: ages of its latest activations (observer)
    early           \* by rank: rows taken off by a slot of an older entry (observer)

filterVars == <<filters, saturate, epoch_clk, test_idx, window, wrapped>>
historyVars == <<history, hist_slot, elem_counter, recent, early>>
throttleVars == <<act_counters, throttle_clk, active_idx, blacklist, max_mshrs>>
blockHammer == <<filterVars, historyVars, throttleVars, bh_buffer>>

Empty == [c \in 0..(NumCounters - 1) |-> 0]

(* The constructor of a sub-filter assigns m_saturate to itself: what it   *)
(* holds is whatever was there.                                            *)
BlockHammerInit ==
    /\ plugin = "BlockHammer" /\ m_clk = 0
    /\ table = [b \in Banks |-> NoEntries]
    /\ spill = [b \in Banks |-> 0] /\ acts = NoActs /\ refs = 0
    /\ filters = [b \in BhBanks |-> [f \in SubFilters |-> Empty]]
    /\ saturate \in Leftovers
    /\ epoch_clk = 0 /\ test_idx = 0
    /\ history = [k \in BhRanks |-> [s \in 0..(HistSize - 1) |-> NoRow]]
    /\ hist_slot = 0
    /\ elem_counter = [k \in BhRanks |-> [r \in BhRows |-> 0]]
    /\ act_counters = [f \in SubFilters |-> [c \in BhCores |-> [b \in BhBanks |-> 0]]]
    /\ throttle_clk = -1 /\ active_idx = 0
    /\ blacklist = {} /\ max_mshrs = [c \in BhCores |-> 0]
    /\ bh_buffer = <<>>
    /\ window = [h \in HotPlaces |-> [e \in SubFilters |-> 0]]
    /\ wrapped = {}
    /\ recent = [k \in BhRanks |-> [r \in BhRows |-> {}]]
    /\ early = [k \in BhRanks |-> {}]

-----------------------------------------------------------------------------
(* UnifiedBloomFilter: at the end of an epoch the filter that is tested is *)
(* cleared and the next one takes its place.                               *)
EpochEnds == epoch_clk + 1 >= EpochClk
EpochClkNow == IF EpochEnds THEN 0 ELSE epoch_clk + 1
TestIdxNow == IF EpochEnds THEN (test_idx + 1) % NumFilters ELSE test_idx

(* Mutant: the filter that comes next is cleared.                          *)
SubFilterNowNext(b, f) == IF EpochEnds /\ f = TestIdxNow THEN Empty ELSE filters[b][f]

SubFilterNow(b, f) == IF EpochEnds /\ f = test_idx THEN Empty ELSE filters[b][f]

(* CountingBloomFilter::insert(): how often the counter is incremented,    *)
(* and what becomes of it.                                                 *)
Hashes(r, c) == Cardinality({i \in DOMAIN HashOf : HashOf[i][r] = c})

Inserted(f, old, r) ==
    [c \in DOMAIN Empty |->
        LET new == old[c] + Hashes(r, c)
        IN  IF ~saturate[f] THEN new % CtrValues
            ELSE IF old[c] >= CtrThreshold THEN old[c] ELSE Min({new, CtrThreshold})]

FiltersWith(b, r) ==
    [x \in BhBanks |-> [f \in SubFilters |->
        IF x = b THEN Inserted(<<x, f>>, SubFilterNow(x, f), r) ELSE SubFilterNow(x, f)]]

Passes(fs, idx, b, r) == \A i \in DOMAIN HashOf : fs[b][idx][HashOf[i][r]] >= CtrThreshold
Blacklisted(b, r) == Passes(filters, test_idx, b, r)

WindowNow ==
    [h \in HotPlaces |->
        IF EpochEnds THEN [e \in SubFilters |-> IF e = 0 THEN 0 ELSE window[h][e - 1]] ELSE window[h]]
OneMore(counts) ==
    [e \in SubFilters |-> IF counts[e] < CtrThreshold THEN counts[e] + 1 ELSE counts[e]]
Overflowing(b, r) ==
    {f \in SubFilters : ~saturate[<<b, f>>] /\
        \E c \in DOMAIN Empty : SubFilterNow(b, f)[c] + Hashes(r, c) >= CtrValues}
WrappedNow == IF EpochEnds THEN wrapped \ (BhBanks \X {test_idx}) ELSE wrapped

FilterTick ==
    /\ epoch_clk' = EpochClkNow /\ test_idx' = TestIdxNow
    /\ UNCHANGED saturate

FilterIdle ==
    /\ FilterTick
    /\ filters' = [b \in BhBanks |-> [f \in SubFilters |-> SubFilterNow(b, f)]]
    /\ window' = WindowNow /\ wrapped' = WrappedNow

FilterInsert(b, r) ==
    /\ FilterTick
    /\ filters' = FiltersWith(b, r)
    /\ window' = [WindowNow EXCEPT ![<<b, r>>] = OneMore(@)]
    /\ wrapped' = WrappedNow \cup ({b} \X Overflowing(b, r))

-----------------------------------------------------------------------------
(* HistoryBuffer.  A tick takes off the row in the slot it comes to.  A    *)
(* slot keeps its row until another one is written there, and takes it off *)
(* each time around.                                                       *)
SlotNow == (hist_slot + 1) % HistSize
TakesOff(k) == history[k][SlotNow] # NoRow /\ elem_counter[k][history[k][SlotNow]] > 0

ElemNow ==
    [k \in BhRanks |->
        IF TakesOff(k) THEN [elem_counter[k] EXCEPT ![history[k][SlotNow]] = @ - 1] ELSE elem_counter[k]]

RecentNow == [k \in BhRanks |-> [r \in BhRows |-> {a + 1 : a \in recent[k][r] \ {HistSize}}]]
EarlyNow ==
    [k \in BhRanks |->
        LET row == history[k][SlotNow]
            stale == TakesOff(k) /\ HistSize \notin recent[k][row]
        IN  {r \in early[k] \cup (IF stale THEN {row} ELSE {}) : RecentNow[k][r] # {}}]

HistoryIdle ==
    /\ hist_slot' = SlotNow /\ elem_counter' = ElemNow
    /\ recent' = RecentNow /\ early' = EarlyNow
    /\ UNCHANGED history

HistoryInsert(k, r) ==
    /\ hist_slot' = SlotNow
    /\ history' = [history EXCEPT ![k][SlotNow] = r]
    /\ elem_counter' = [ElemNow EXCEPT ![k][r] = @ + 1]
    /\ recent' = [RecentNow EXCEPT ![k][r] = @ \cup {1}]
    /\ early' = EarlyNow

Held(k, r) == elem_counter[k][r] > 0 /\ elem_counter[k][r] >= HistMaxFreq

-----------------------------------------------------------------------------
(* AttackThrottler.  Its clock begins one tick behind that of the filters. *)
ThrottleEnds == throttle_clk + 1 >= EpochClk
ActiveIdxNow == IF ThrottleEnds THEN (active_idx + 1) % NumFilters ELSE active_idx
NoCounts == [c \in BhCores |-> [b \in BhBanks |-> 0]]
ActCountersNow == IF ThrottleEnds THEN [act_counters EXCEPT ![active_idx] = NoCounts] ELSE act_counters

ThrottleTick ==
    /\ throttle_clk' = IF ThrottleEnds THEN 0 ELSE throttle_clk + 1
    /\ active_idx' = ActiveIdxNow

ThrottleIdle ==
    /\ ThrottleTick
    /\ act_counters' = ActCountersNow
    /\ UNCHANGED <<blacklist, max_mshrs>>

(* m_num_mshr_per_core * (1 - rhli), rounded towards zero.                 *)
MshrsFor(count) ==
    IF count <= RhliQuota THEN (CoreMshrs * (RhliQuota - count)) \div RhliQuota
    ELSE -((CoreMshrs * (count - RhliQuota)) \div RhliQuota)

ThrottleInsert(core, b) ==
    /\ ThrottleTick
    /\ act_counters' = [f \in SubFilters |-> [ActCountersNow[f] EXCEPT ![core][b] = @ + 1]]
    /\ blacklist' = blacklist \cup {core}
    /\ max_mshrs' = [max_mshrs EXCEPT ![core] = MshrsFor(act_counters'[ActiveIdxNow][core][b])]

-----------------------------------------------------------------------------
(* Mutant: one activation more than the history allows.                    *)
ActSafeOneMore(h) ==
    ~Blacklisted(h[1], h[2]) \/ elem_counter[RankOf(h[1])][h[2]] <= HistMaxFreq

(* is_act_safe().                                                          *)
ActSafe(h) == ~Blacklisted(h[1], h[2]) \/ ~Held(RankOf(h[1]), h[2])

Eligible == {i \in DOMAIN bh_buffer : ActSafe(bh_buffer[i])}

(* Mutant: of two the younger one is taken.                                *)
CandidateYoungest == Max(Eligible)

(* BlockingScheduler: of the requests that are not held back the oldest.   *)
Candidate == Min(Eligible)

(* A tick without an activation.                                           *)
BhIdle ==
    /\ Eligible = {}
    /\ FilterIdle /\ HistoryIdle /\ ThrottleIdle
    /\ UNCHANGED bh_buffer

(* The plugin's update() with an ACT.  The row is tested in the filter     *)
(* that counts this activation.                                            *)
BhActivate ==
    /\ Eligible # {}
    /\ LET h == bh_buffer[Candidate] IN
          /\ HistoryInsert(RankOf(h[1]), h[2])
          /\ FilterInsert(h[1], h[2])
          /\ IF Passes(FiltersWith(h[1], h[2]), TestIdxNow, h[1], h[2])
             THEN ThrottleInsert(SourceOf[h], h[1]) ELSE ThrottleIdle
    /\ bh_buffer' = RemoveAt(bh_buffer, Candidate)

BhTick ==
    /\ plugin = "BlockHammer"
    /\ BhIdle \/ BhActivate
    /\ UNCHANGED trackers

(* A miss takes an MSHR unless the core has what its quota allows.         *)
Allocated(core) == Cardinality({i \in DOMAIN bh_buffer : SourceOf[bh_buffer[i]] = core})

BhSend(h) ==
    /\ plugin = "BlockHammer"
    /\ ~Contains(bh_buffer, h)
    /\ SourceOf[h] \in blacklist => Allocated(SourceOf[h]) < max_mshrs[SourceOf[h]]
    /\ Len(bh_buffer) < CoreMshrs * Cardinality(BhCores)
    /\ bh_buffer' = Append(bh_buffer, h)
    /\ UNCHANGED <<trackers, filterVars, historyVars, throttleVars>>

BlockHammerNext ==
    \/ \E h \in HotPlaces : BhSend(h)
    \/ BhTick

BlockHammerSpec == BlockHammerInit /\ [][BlockHammerNext]_<<trackers, blockHammer>>

(* The loop ticks the controller for ever.                                 *)
BhTicks == plugin = "BlockHammer" /\ hist_slot' = SlotNow

-----------------------------------------------------------------------------
(* A row that is activated as often as the threshold says within this      *)
(* epoch and the ones the filters remember is blacklisted, whatever rows   *)
(* share its counters and however the filters take turns, unless a counter *)
(* has overflowed (blockhammer_util.h:42-62, 87-100).                       *)
ActsInWindow(h) == window[h][NumFilters - 1]
HotRowsBlacklisted ==
    plugin = "BlockHammer" =>
        \A h \in HotPlaces :
            (ActsInWindow(h) >= CtrThreshold /\ <<h[1], test_idx>> \notin wrapped)
                => Blacklisted(h[1], h[2])

(* "We allow 'max_freq' activations within 'size' ticks"                   *)
(* (blockhammer_util.h:123): a blacklisted row is activated again only     *)
(* when fewer than that lie in the history, in whichever bank of the rank. *)
(* It does not hold for a row that the slot of an older entry has taken    *)
(* off: HistoryBuffer::update() does not look at the timestamps.           *)
HeldBack ==
    [][\A i \in DOMAIN bh_buffer :
          LET h == bh_buffer[i]
              k == RankOf(h[1])
          IN  ~Contains(bh_buffer', h) /\ Blacklisted(h[1], h[2]) =>
                 Cardinality(recent[k][h[2]]) < HistMaxFreq \/ h[2] \in early[k]]_blockHammer

(* A request is held back, not starved: though all banks of a rank share   *)
(* the history, and others keep writing its row there, its turn comes      *)
(* (blocking_scheduler.cpp:57-83).                                         *)
HeldRequestsServed ==
    \A h \in HotPlaces :
        (plugin = "BlockHammer" /\ Contains(bh_buffer, h)) ~> ~Contains(bh_buffer, h)
=============================================================================
