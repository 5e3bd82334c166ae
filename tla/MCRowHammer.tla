------------------------------ MODULE MCRowHammer ------------------------------
(***************************************************************************)
(* A controller with one of the RowHammer plugins.  Each plugin keeps its  *)
(* own tables; those of the plugins that are not there stay empty.  Two    *)
(* ranks of two banks of four rows, few of which are activated.            *)
(***************************************************************************)
EXTENDS Hydra, RowSwap, Prac, BlockHammer

MCAddrBits == <<1, 1, 0, 1, 3, 3>>

MCResetPeriod ==
    [p \in {"RRS"} |-> 5] @@ [p \in {"Graphene", "AQUA"} |-> 6] @@ [p \in {"Hydra"} |-> 11]

MCMaxUpdates ==
    [p \in {"RRS"} |-> 6] @@ [p \in {"TWiCe"} |-> 8]
    @@ [p \in {"Graphene", "OracleRH", "RFMManager", "AQUA"} |-> 9] @@ [p \in {"Hydra"} |-> 11]

MCHot ==
    [p \in {"Graphene", "TWiCe", "OracleRH"} |-> {<<0, 1>>, <<0, 2>>, <<0, 3>>, <<2, 1>>}]
    @@ [p \in {"RFMManager"} |-> {<<0, 2>>, <<1, 2>>, <<1, 3>>, <<2, 3>>}]
    @@ [p \in {"Hydra"} |-> {<<0, 0>>, <<0, 1>>, <<0, 3>>, <<1, 1>>, <<1, 3>>, <<2, 3>>}]
    @@ [p \in {"RRS"} |-> {<<0, 1>>, <<0, 2>>, <<0, 3>>}]
    @@ [p \in {"AQUA"} |-> {<<0, 2>>, <<1, 2>>}]
    @@ [p \in {"PRAC"} |-> {<<0, 0>>, <<2, 0>>, <<2, 1>>}]
    @@ [p \in {"BlockHammer"} |-> {<<0, 1>>, <<0, 2>>, <<1, 1>>}]

(* Rows 1 and 2 share a counter.  One core reads both in one bank, another *)
(* one row 1 in the other bank.                                            *)
MCHashOf == <<[r \in {1, 2} |-> 0], [r \in {1, 2} |-> r - 1]>>
MCSourceOf == [h \in MCHot["BlockHammer"] |-> h[1]]
MCLeftovers == {[s \in (0..1) \X (0..1) |-> v] : v \in BOOLEAN}

MCMinCycles ==
    [c \in {"ACT"} |-> 3] @@ [c \in {"RD"} |-> 1] @@ [c \in {"REFab", "RFMab"} |-> 4]
    @@ [c \in {"PRE", "PREA"} |-> 0]

(* No two addresses of a transfer are one place (linear_mappers.cpp:64-123,*)
(* rit.cpp:150-226).                                                       *)
ASSUME MappersOneToOne ==
    \A places \in { {ChRaBaRoCo(a) : a \in Addresses}, {RoBaRaCoCh(a) : a \in Addresses},
                    {MOP4CLXOR(a) : a \in Addresses} } :
        Cardinality(places) = Cardinality(Addresses)

-----------------------------------------------------------------------------
rowHammer == <<trackers, hydra, swap, prac, blockHammer>>

NoHydra ==
    /\ group_count_table = NoEntries /\ row_count_table = NoEntries
    /\ row_count_cache = NoEntries /\ rct_count_table = NoEntries /\ sent = {}

NoSwap ==
    /\ rit = NoEntries /\ rpt = NoEntries /\ rqa_head = 0 /\ waiting = NoEntries
    /\ data = NoEntries /\ misled = NoEntries /\ halted = ""

NoPrac ==
    /\ m_state = "NORMAL" /\ recovery_start = Never /\ rem_refs = 0 /\ rem_acts = 0
    /\ m_is_abo_needed = FALSE /\ m_counters = NoEntries /\ m_critical_rows = NoEntries
    /\ prac_buffer = <<>> /\ priority_buffer = <<>> /\ active_buffer = {}
    /\ open_row = NoEntries /\ next_refresh = 0

NoBlockHammer ==
    /\ filters = NoEntries /\ saturate = NoEntries /\ epoch_clk = 0 /\ test_idx = 0
    /\ window = NoEntries /\ wrapped = {}
    /\ history = NoEntries /\ hist_slot = 0 /\ elem_counter = NoEntries
    /\ recent = NoEntries /\ early = NoEntries
    /\ act_counters = NoEntries /\ throttle_clk = -1 /\ active_idx = 0
    /\ blacklist = {} /\ max_mshrs = NoEntries /\ bh_buffer = <<>>

RowHammerInit ==
    \/ TrackersInit /\ NoHydra /\ NoSwap /\ NoPrac /\ NoBlockHammer
    \/ HydraInit /\ NoSwap /\ NoPrac /\ NoBlockHammer
    \/ SwapInit /\ NoHydra /\ NoPrac /\ NoBlockHammer
    \/ PracInit /\ NoHydra /\ NoSwap /\ NoBlockHammer
    \/ BlockHammerInit /\ NoHydra /\ NoSwap /\ NoPrac

RowHammerNext ==
    \/ TrackersNext /\ UNCHANGED <<hydra, swap, prac, blockHammer>>
    \/ HydraNext /\ UNCHANGED <<swap, prac, blockHammer>>
    \/ SwapNext /\ UNCHANGED <<hydra, prac, blockHammer>>
    \/ PracNext /\ UNCHANGED <<hydra, swap, blockHammer>>
    \/ BlockHammerNext /\ UNCHANGED <<hydra, swap, prac>>

RowHammerSpec ==
    /\ RowHammerInit /\ [][RowHammerNext]_rowHammer
    /\ WF_rowHammer(PracTicks /\ UNCHANGED <<hydra, swap, blockHammer>>)
    /\ WF_hist_slot(BhTicks)
=============================================================================
