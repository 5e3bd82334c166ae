------------------------------ MODULE RowTrackers ------------------------------
(***************************************************************************)
(* The controller plugins that count activations and ask for preventive    *)
(* refreshes: Graphene, TWiCe, OracleRH and RFMManager.  A controller      *)
(* calls update() of its plugins at every tick with the command it is      *)
(* about to issue; of all commands the plugins look at the ACT of a row    *)
(* and the refresh of a rank only.                                         *)
(*                                                                         *)
(* A requested refresh counts as done at once: it waits in the priority    *)
(* buffer, and while that buffer holds anything the controller starts no   *)
(* read or write (GenericController, Candidates).  For the same reason the *)
(* plugin's request always finds room.                                     *)
(***************************************************************************)
EXTENDS Integers, FiniteSets

CONSTANTS
    NumRanks, BanksPerRank, NumRows,    \* the geometry of the channel
    Hot,                                \* by plugin: the places <<bank, row>> in use
    MaxUpdates,                         \* by plugin: bound on calls of update()
    ResetPeriod,                        \* by plugin: m_reset_period_clk
    NumTableEntries,                    \* num_table_entries (Graphene)
    ActivationThreshold,                \* activation_threshold (Graphene)
    TwiceThreshold, PruningThreshold,   \* twice_rh_threshold, twice_pruning_interval_threshold
    RHThreshold,                        \* tRH (OracleRH)
    RfmThreshold                        \* m_rfm_thresh (RFMManager)

ASSUME TrackersAssumption ==
    /\ NumRanks \in Nat /\ BanksPerRank \in Nat /\ NumRows \in Nat
    /\ NumTableEntries \in Nat /\ ActivationThreshold \in Nat
    /\ \A p \in DOMAIN MaxUpdates : MaxUpdates[p] \in Nat
    /\ \A p \in DOMAIN ResetPeriod : ResetPeriod[p] \in Nat \ {0}
    /\ TwiceThreshold \in Nat /\ PruningThreshold \in Nat
    /\ RHThreshold \in Nat /\ RfmThreshold \in Nat \ {0}
    /\ {"Graphene", "TWiCe", "OracleRH", "RFMManager"} \subseteq DOMAIN Hot
    /\ \A p \in DOMAIN Hot :
          Hot[p] \subseteq (0..(NumRanks * BanksPerRank - 1)) \X (0..(NumRows - 1))

VARIABLES
    plugin,     \* the plugin the controller has
    m_clk,      \* calls of update()
    table,      \* what the plugin holds of each row, by bank
    spill,      \* m_spillover_counter, by bank
    acts,       \* activations of each row since its neighbours were refreshed (observer)
    refs        \* refreshes of a rank so far (observer)

trackers == <<plugin, m_clk, table, spill, acts, refs>>

(* Banks by their flat number; rows of a bank.                             *)
Banks == 0..(NumRanks * BanksPerRank - 1)
RankOf(bank) == bank \div BanksPerRank
Rows == 0..(NumRows - 1)

NoActs == [b \in Banks |-> [r \in Rows |-> 0]]
Emptied(t, row) == [r \in DOMAIN t \ {row} |-> t[r]]
With(t, row, entry) == [r \in DOMAIN t \cup {row} |-> IF r = row THEN entry ELSE t[r]]
NoEntries == [r \in {} |-> 0]

Ticks == m_clk < MaxUpdates[plugin] /\ m_clk' = m_clk + 1
Acted(a, b, r) == [a EXCEPT ![b][r] = @ + 1]
Refreshed(a, b, r) == [a EXCEPT ![b][r] = 0]

(***************************************************************************)
(* Graphene: a Misra-Gries table of fixed size and a spillover counter per *)
(* bank.  Rows that do not exist fill the table at first.                  *)
(***************************************************************************)
GrapheneInit ==
    /\ plugin = "Graphene" /\ m_clk = -1
    /\ table = [b \in Banks |-> [r \in -NumRows..(NumTableEntries - NumRows - 1) |-> 0]]
    /\ spill = [b \in Banks |-> 0]
    /\ acts = NoActs /\ refs = 0

(* The tables when the command is looked at: a period has just ended, or   *)
(* not.  With it ends the window in which activations are counted.         *)
PeriodEnds == (m_clk + 1) % ResetPeriod[plugin] = 0
ActsNow == IF PeriodEnds THEN NoActs ELSE acts
SpillNow == [b \in Banks |-> IF PeriodEnds THEN 0 ELSE spill[b]]
GrapheneTable ==
    [b \in Banks |-> [r \in DOMAIN table[b] |-> IF PeriodEnds THEN 0 ELSE table[b][r]]]

GrapheneIdle ==
    /\ table' = GrapheneTable /\ spill' = SpillNow /\ acts' = ActsNow

GrapheneCount(b, r) ==
    LET count == GrapheneTable[b][r] + 1 IN
    /\ r \in DOMAIN GrapheneTable[b]
    /\ spill' = SpillNow
    /\ \/ /\ count >= ActivationThreshold
          /\ table' = [GrapheneTable EXCEPT ![b][r] = SpillNow[b]]
          /\ acts' = Refreshed(ActsNow, b, r)
       \/ /\ count < ActivationThreshold
          /\ table' = [GrapheneTable EXCEPT ![b][r] = count]
          /\ acts' = Acted(ActsNow, b, r)

(* Mutant: the new row begins at one, not above the spillover counter.     *)
GrapheneReplaceFromOne(b, r) ==
    /\ r \notin DOMAIN GrapheneTable[b]
    /\ \E old \in DOMAIN GrapheneTable[b] :
          /\ GrapheneTable[b][old] = SpillNow[b]
          /\ table' = [GrapheneTable EXCEPT ![b] = With(Emptied(@, old), r, 1)]
    /\ spill' = SpillNow /\ acts' = Acted(ActsNow, b, r)

(* A row not in the table takes the place of one whose count is that of    *)
(* the spillover counter, the first that the hash table comes across.      *)
GrapheneReplace(b, r) ==
    /\ r \notin DOMAIN GrapheneTable[b]
    /\ \E old \in DOMAIN GrapheneTable[b] :
          /\ GrapheneTable[b][old] = SpillNow[b]
          /\ table' = [GrapheneTable EXCEPT ![b] = With(Emptied(@, old), r, SpillNow[b] + 1)]
    /\ spill' = SpillNow /\ acts' = Acted(ActsNow, b, r)

GrapheneSpill(b, r) ==
    /\ r \notin DOMAIN GrapheneTable[b]
    /\ \A old \in DOMAIN GrapheneTable[b] : GrapheneTable[b][old] # SpillNow[b]
    /\ table' = GrapheneTable
    /\ spill' = [SpillNow EXCEPT ![b] = @ + 1]
    /\ acts' = Acted(ActsNow, b, r)

GrapheneNext ==
    /\ plugin = "Graphene" /\ Ticks
    /\ UNCHANGED <<plugin, refs>>
    /\ \/ GrapheneIdle
       \/ \E h \in Hot["Graphene"] :
             GrapheneCount(h[1], h[2]) \/ GrapheneReplace(h[1], h[2]) \/ GrapheneSpill(h[1], h[2])

(***************************************************************************)
(* TWiCe: entries [act_count, life], pruned when a refresh finds that the  *)
(* row has been activated too seldom for its age.  A refresh of any rank   *)
(* ages the entries of every bank of the channel.  The threshold per       *)
(* refresh is a whole number here.                                         *)
(***************************************************************************)
TwiceInit ==
    /\ plugin = "TWiCe" /\ m_clk = -1
    /\ table = [b \in Banks |-> NoEntries]
    /\ spill = [b \in Banks |-> 0] /\ acts = NoActs /\ refs = 0

TwiceRefresh ==
    /\ table' = [b \in Banks |->
          LET kept == {r \in DOMAIN table[b] :
                          table[b][r].act_count >= table[b][r].life * PruningThreshold}
          IN  [r \in kept |-> [table[b][r] EXCEPT !.life = @ + 1]]]
    /\ refs' = refs + 1
    /\ UNCHANGED acts

(* Mutant: the refresh is asked for one activation late.                   *)
TwiceActivateLate(b, r) ==
    LET known == r \in DOMAIN table[b] IN
    /\ \/ /\ ~known
          /\ table' = [table EXCEPT ![b] = With(@, r, [act_count |-> 1, life |-> 0])]
          /\ acts' = Acted(acts, b, r)
       \/ /\ known /\ table[b][r].act_count < TwiceThreshold
          /\ table' = [table EXCEPT ![b][r].act_count = @ + 1]
          /\ acts' = Acted(acts, b, r)
       \/ /\ known /\ table[b][r].act_count >= TwiceThreshold
          /\ table' = [table EXCEPT ![b] = Emptied(@, r)]
          /\ acts' = Refreshed(acts, b, r)
    /\ UNCHANGED refs

TwiceActivate(b, r) ==
    LET known == r \in DOMAIN table[b] IN
    /\ \/ /\ ~known
          /\ table' = [table EXCEPT ![b] = With(@, r, [act_count |-> 1, life |-> 0])]
          /\ acts' = Acted(acts, b, r)
       \/ /\ known /\ table[b][r].act_count + 1 < TwiceThreshold
          /\ table' = [table EXCEPT ![b][r].act_count = @ + 1]
          /\ acts' = Acted(acts, b, r)
       \/ /\ known /\ table[b][r].act_count + 1 >= TwiceThreshold
          /\ table' = [table EXCEPT ![b] = Emptied(@, r)]
          /\ acts' = Refreshed(acts, b, r)
    /\ UNCHANGED refs

TwiceNext ==
    /\ plugin = "TWiCe" /\ Ticks
    /\ UNCHANGED <<plugin, spill>>
    /\ TwiceRefresh \/ \E h \in Hot["TWiCe"] : TwiceActivate(h[1], h[2])

(***************************************************************************)
(* OracleRH: a counter for every row, cleared by the refresh of its rank.  *)
(***************************************************************************)
OracleInit ==
    /\ plugin = "OracleRH" /\ m_clk = -1
    /\ table = [b \in Banks |-> NoEntries]
    /\ spill = [b \in Banks |-> 0] /\ acts = NoActs /\ refs = 0

OracleActivate(b, r) ==
    LET known == r \in DOMAIN table[b] IN
    \/ /\ known /\ table[b][r] + 1 >= RHThreshold
       /\ table' = [table EXCEPT ![b][r] = 0]
       /\ acts' = Refreshed(acts, b, r)
    \/ /\ known /\ table[b][r] + 1 < RHThreshold
       /\ table' = [table EXCEPT ![b][r] = @ + 1]
       /\ acts' = Acted(acts, b, r)
    \/ /\ ~known
       /\ table' = [table EXCEPT ![b] = With(@, r, 1)]
       /\ acts' = Acted(acts, b, r)

OracleRefresh(rank) ==
    LET mine == {b \in Banks : RankOf(b) = rank} IN
    /\ table' = [b \in Banks |-> IF b \in mine THEN NoEntries ELSE table[b]]
    /\ acts' = [b \in Banks |-> IF b \in mine THEN NoActs[b] ELSE acts[b]]

OracleNext ==
    /\ plugin = "OracleRH" /\ Ticks
    /\ UNCHANGED <<plugin, spill, refs>>
    /\ \/ \E h \in Hot["OracleRH"] : OracleActivate(h[1], h[2])
       \/ \E rank \in 0..(NumRanks - 1) : OracleRefresh(rank)

(***************************************************************************)
(* RFMManager: a counter per bank.  One that reaches the threshold clears  *)
(* the counters of every rank, and its own rank gets a refresh management  *)
(* command.  spill holds the counters; table is not used.                  *)
(***************************************************************************)
RfmInit ==
    /\ plugin = "RFMManager" /\ m_clk = -1
    /\ table = [b \in Banks |-> NoEntries]
    /\ spill = [b \in Banks |-> 0] /\ acts = NoActs /\ refs = 0

RfmActivate(b, r) ==
    \/ /\ spill[b] + 1 < RfmThreshold
       /\ spill' = [spill EXCEPT ![b] = @ + 1]
       /\ acts' = Acted(acts, b, r)
       /\ UNCHANGED refs
    \/ /\ spill[b] + 1 >= RfmThreshold
       /\ spill' = [c \in Banks |-> 0]
       /\ acts' = [c \in Banks |-> IF RankOf(c) = RankOf(b) THEN NoActs[c] ELSE acts[c]]
       /\ refs' = refs + 1

RfmNext ==
    /\ plugin = "RFMManager" /\ Ticks
    /\ UNCHANGED <<plugin, table>>
    /\ \E h \in Hot["RFMManager"] : RfmActivate(h[1], h[2])

-----------------------------------------------------------------------------
TrackersInit == GrapheneInit \/ TwiceInit \/ OracleInit \/ RfmInit

TrackersNext == GrapheneNext \/ TwiceNext \/ OracleNext \/ RfmNext

TrackersSpec == TrackersInit /\ [][TrackersNext]_trackers

TrackerNames == {"Graphene", "TWiCe", "OracleRH", "RFMManager"}

(* What a plugin knows of a row.  Graphene: its entry, or no more than the *)
(* spillover counter.  TWiCe: its entry, and the pruning threshold for     *)
(* every refresh the entry did not live through.  OracleRH: its entry.     *)
(* RFMManager: the counter of its bank, and one less than the threshold    *)
(* for every time the counters were cleared.                               *)
Counted(b, r) ==
    LET known == r \in DOMAIN table[b] IN
    CASE plugin = "Graphene" -> IF known THEN table[b][r] ELSE spill[b]
      [] plugin = "TWiCe" ->
            IF known THEN table[b][r].act_count + (refs - table[b][r].life) * PruningThreshold
            ELSE refs * PruningThreshold
      [] plugin = "OracleRH" -> IF known THEN table[b][r] ELSE 0
      [] plugin = "RFMManager" -> spill[b] + refs * (RfmThreshold - 1)

(* No activation escapes a tracker: since its last preventive refresh no   *)
(* row has been activated more often than the plugin knows, whether it was *)
(* in the table all the time, was replaced, pruned, found no place or was  *)
(* cleared with the counters of another rank (graphene.cpp:118-180,        *)
(* twice.cpp:96-150, oracle_rh.cpp:77-97, rfm_manager.cpp:99-118).         *)
NoActivationEscapes ==
    plugin \in TrackerNames => \A b \in Banks, r \in Rows : acts[b][r] <= Counted(b, r)

(* So how often may a row be activated before its neighbours are           *)
(* refreshed?  With Graphene less than the threshold as long as the        *)
(* spillover counter stays two below it, which the size of the table is    *)
(* for; an entry that takes another's place is not compared with the       *)
(* threshold.  Nor is a first activation.                                  *)
Larger(m, n) == IF m > n THEN m ELSE n
Limit(b) ==
    CASE plugin = "Graphene" -> Larger(ActivationThreshold - 1, spill[b] + 1)
      [] plugin = "TWiCe" -> Larger(TwiceThreshold - 1, 1) + refs * PruningThreshold
      [] plugin = "OracleRH" -> Larger(RHThreshold - 1, 1)
      [] plugin = "RFMManager" -> (refs + 1) * (RfmThreshold - 1)

RefreshedInTime ==
    plugin \in TrackerNames => \A b \in Banks, r \in Rows : acts[b][r] <= Limit(b)
=============================================================================
