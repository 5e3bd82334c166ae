-------------------------------- MODULE RowSwap --------------------------------
(***************************************************************************)
(* The plugins that move a row that is activated too often, RRS (which     *)
(* swaps it with another) and AQUA (which moves it into a quarantine area, *)
(* the first rows of the bank), and the address mappers with the row       *)
(* indirection table that both of them keep.                               *)
(*                                                                         *)
(* A request is translated when it is sent and activates its row later:    *)
(* the row may have moved by then, and what is activated is the place it   *)
(* has left.  The requests that carry a move out activate rows as well,    *)
(* and their activations count.                                            *)
(***************************************************************************)
EXTENDS RowTrackers, Sequences, SequencesExt

CONSTANTS
    AddrBits,           \* m_addr_bits: channel, rank, bank group, bank, row, column
    NumHrtEntries,      \* num_hrt_entries, num_art_entries
    MoveThreshold,      \* rss_threshold, art_threshold
    NumRitEntries,      \* m_num_rit_entries
    NumQRows,           \* num_qrows_per_bank (AQUA)
    MaxWaiting          \* places of a bank that sent requests may be for at a time

(* AQUA reserves its quarantine area with the translation                  *)
(* (reserve_rows_for_aqua()): no request is for a row of it.               *)
ASSUME SwapAssumption ==
    /\ NumHrtEntries \in Nat /\ MoveThreshold \in Nat \ {0} /\ NumRitEntries \in Nat
    /\ MaxWaiting \in Nat \ {0}
    /\ NumQRows \in 1..NumRows
    /\ {"RRS", "AQUA"} \subseteq DOMAIN Hot \cap DOMAIN ResetPeriod
    /\ \A h \in Hot["AQUA"] : h[2] >= NumQRows

VARIABLES
    rit,        \* m_row_indirection_table: by bank, then row: [dst_row, lock]
    rpt,        \* m_reverse_pointer_table: by bank, then row of the quarantine area
    rqa_head,   \* m_rqa_head, one for all banks
    waiting,    \* by bank: the places that requests in the buffers are for
    data,       \* by bank and place: the row whose data lies there once the
                \* moves issued so far have been carried out (observer)
    misled,     \* by bank: the table has been told a wrong place (observer)
    halted      \* why the simulator has called exit(), or ""

swap == <<rit, rpt, rqa_head, waiting, data, misled, halted>>

-----------------------------------------------------------------------------
(* The mappers.  Fields takes fields of the given widths from an address,  *)
(* the lowest first; addresses count units of a transfer (m_tx_offset).    *)
(* The levels are channel, rank, bank group, bank, row and column.         *)
Rank == 2
Row == 5
Column == 6
Levels == 1..6
Widths(order) == [i \in DOMAIN order |-> AddrBits[order[i]]]
BitsBelow(widths, i) == FoldLeft(+, 0, SubSeq(widths, 1, i - 1))
Fields(addr, widths) ==
    [i \in DOMAIN widths |-> (addr \div 2^BitsBelow(widths, i)) % 2^widths[i]]

InOrder(addr, order) ==
    [lvl \in Levels |-> Fields(addr, Widths(order))[SelectInSeq(order, LAMBDA o : o = lvl)]]
ChRaBaRoCo(addr) == InOrder(addr, <<6, 5, 4, 3, 2, 1>>)
RoBaRaCoCh(addr) == InOrder(addr, <<1, 6, 2, 3, 4, 5>>)

(* Two bits of the column lie lowest; then every level takes its share of  *)
(* the column's bits, from the lowest, and is changed by exclusive or.     *)
Xor(a, b, bits) ==
    FoldLeft(+, 0, [i \in 1..bits |-> 2^(i - 1) * ((a \div 2^(i - 1) + b \div 2^(i - 1)) % 2)])

MOP4CLXOR(addr) ==
    LET widths == <<2, AddrBits[1], AddrBits[2], AddrBits[3], AddrBits[4],
                    AddrBits[Column] - 2, AddrBits[Row]>>
        f == Fields(addr, widths)
        column == f[1] + 4 * f[6]
        plain == <<f[2], f[3], f[4], f[5], f[7]>>
        mask(lvl) == (column \div 2^BitsBelow(AddrBits, lvl)) % 2^AddrBits[lvl]
    IN  [lvl \in Levels |-> IF lvl = Column THEN column
                         ELSE Xor(plain[lvl], mask(lvl), AddrBits[lvl])]

Addresses == 0..(2^BitsBelow(AddrBits, 7) - 1)

-----------------------------------------------------------------------------
(* Rows of a bank; the row after the last one is there because RRS draws   *)
(* from 0..m_num_rows_per_bank.                                            *)
Places == 0..NumRows
NoMoves == [b \in Banks |-> [r \in Places |-> 0]]
Vacant == -1

(* What check_rit() and apply_indirection() make of a row.                 *)
Indirect(t, row) == IF row \in DOMAIN t THEN t[row].dst_row ELSE row

(* A bank on the way through update(): its tables, the data of its places, *)
(* the places whose data has moved and why the simulator stops.            *)
InsertEntry(st, src, dst) ==
    LET entry(row) == [dst_row |-> row, lock |-> TRUE]
        t == With(With(st.rit, src, entry(dst)), dst, entry(src))
    IN  [st EXCEPT !.rit = t,
                   !.stop = IF Cardinality(DOMAIN t) > NumRitEntries THEN "RIT is full" ELSE @]

(* Mutant: a pair leaves the table in one direction only.                  *)
RemoveEntryOneWay(st, src, dst) == [st EXCEPT !.rit = Emptied(@, src)]

RemoveEntry(st, src, dst) == [st EXCEPT !.rit = Emptied(Emptied(@, src), dst)]

Swap(st, src, dst) ==
    [st EXCEPT !.data = [@ EXCEPT ![src] = st.data[dst], ![dst] = st.data[src]],
               !.moved = @ \cup {src, dst}]
Migrate(st, src, dst) ==
    [st EXCEPT !.data = [@ EXCEPT ![dst] = st.data[src], ![src] = Vacant],
               !.moved = @ \cup {src, dst}]

(* The hot-row tracker: Graphene's, with a table that is empty at first.   *)
(* No table is left if the row finds no place.                             *)
HrtNow(b) == IF PeriodEnds THEN NoEntries ELSE table[b]

(* Mutant: a row that takes the place of another begins at one.            *)
TrackingsFromOne(b, p) ==
    LET t == HrtNow(b) IN
    IF p \in DOMAIN t THEN {[t EXCEPT ![p] = @ + 1]}
    ELSE IF Cardinality(DOMAIN t) < NumHrtEntries THEN {With(t, p, 1)}
    ELSE {With(Emptied(t, old), p, 1) : old \in {x \in DOMAIN t : t[x] = SpillNow[b]}}

Trackings(b, p) ==
    LET t == HrtNow(b) IN
    IF p \in DOMAIN t THEN {[t EXCEPT ![p] = @ + 1]}
    ELSE IF Cardinality(DOMAIN t) < NumHrtEntries THEN {With(t, p, 1)}
    ELSE {With(Emptied(t, old), p, SpillNow[b] + 1) : old \in {x \in DOMAIN t : t[x] = SpillNow[b]}}

-----------------------------------------------------------------------------
(* RRS.  The end of a period unlocks all entries of the indirection table. *)
RitNow(b) ==
    IF PeriodEnds /\ plugin = "RRS" THEN [r \in DOMAIN rit[b] |-> [rit[b][r] EXCEPT !.lock = FALSE]]
    ELSE rit[b]

Start(b) == [rit |-> RitNow(b), rpt |-> rpt[b], data |-> data[b], moved |-> {}, stop |-> ""]

(* get_rand_row(): drawn until it is no tracked, moved or hot row.         *)
RandRows(st, hrt, row) == Places \ (DOMAIN hrt \cup DOMAIN st.rit \cup {row})

(* A full table gives up a pair of an earlier period, if there is one.     *)
Unswappable(st, hrt) ==
    {r \in DOMAIN st.rit : ~st.rit[r].lock /\ {r, st.rit[r].dst_row} \cap DOMAIN hrt = {}}
WithRoom(st, hrt) ==
    IF Cardinality(DOMAIN st.rit) < NumRitEntries THEN {st}
    ELSE IF Unswappable(st, hrt) = {} THEN {[st EXCEPT !.stop = "No unlocked entry"]}
    ELSE {RemoveEntry(Swap(st, r, st.rit[r].dst_row), r, st.rit[r].dst_row) : r \in Unswappable(st, hrt)}

FirstSwaps(st, hrt, row) ==
    IF st.stop # "" THEN {st}
    ELSE {InsertEntry(Swap(st, row, dst), row, dst) : dst \in RandRows(st, hrt, row)}

(* A row moved in an earlier period goes home first.                       *)
LaterSwaps(st, hrt, row) ==
    LET prev == st.rit[row].dst_row
        home == RemoveEntry(Swap(st, row, prev), row, prev)
    IN  {InsertEntry(Swap(home, row, dst), row, dst) : dst \in RandRows(st, hrt, row)}

(* A row moved in this period goes on to another place, and so does the    *)
(* row it was swapped with; the table is told crosswise.                   *)
Reswaps(st, hrt, row) ==
    LET prev == st.rit[row].dst_row
        moved(d0, d1) == Swap(Swap(RemoveEntry(st, row, prev), row, d0), prev, d1)
    IN  IF st.stop # "" THEN {st}
        ELSE {InsertEntry(InsertEntry(moved(d[1], d[2]), row, d[2]), prev, d[1]) :
                 d \in RandRows(st, hrt, row) \X RandRows(st, hrt, row)}

RrsMoves(b, hrt, row) ==
    LET st == Start(b) IN
    IF row \notin DOMAIN st.rit THEN UNION {FirstSwaps(x, hrt, row) : x \in WithRoom(st, hrt)}
    ELSE IF st.rit[row].lock THEN UNION {Reswaps(x, hrt, row) : x \in WithRoom(st, hrt)}
    ELSE LaterSwaps(st, hrt, row)

-----------------------------------------------------------------------------
(* AQUA.  What the head of the quarantine area holds goes home, the hot    *)
(* row takes its place.                                                    *)
Evicted(st) ==
    IF rqa_head \notin DOMAIN st.rpt THEN st
    ELSE LET org == st.rpt[rqa_head]
         IN  Migrate([RemoveEntry(st, rqa_head, org) EXCEPT !.rpt = Emptied(@, rqa_head)], rqa_head, org)

AquaMove(b, row) ==
    LET st == Migrate(Evicted(Start(b)), row, rqa_head)
        org == IF row \in DOMAIN st.rpt THEN st.rpt[row] ELSE 0
    IN  IF row < NumQRows
        THEN InsertEntry([RemoveEntry(st, row, org) EXCEPT !.rpt = With(Emptied(@, row), rqa_head, org)],
                    rqa_head, org)
        ELSE InsertEntry([st EXCEPT !.rpt = With(@, rqa_head, row)], row, rqa_head)

-----------------------------------------------------------------------------
SwapInit ==
    /\ plugin \in {"RRS", "AQUA"} /\ m_clk = 0
    /\ table = [b \in Banks |-> NoEntries]
    /\ spill = [b \in Banks |-> 0] /\ acts = NoMoves /\ refs = 0
    /\ rit = [b \in Banks |-> NoEntries]
    /\ rpt = [b \in Banks |-> NoEntries] /\ rqa_head = 0
    /\ waiting = [b \in Banks |-> {}]
    /\ data = [b \in Banks |-> [r \in Places |-> r]]
    /\ misled = [b \in Banks |-> FALSE] /\ halted = ""

MovesNow == IF PeriodEnds THEN NoMoves ELSE acts

SwapIdle ==
    /\ table' = [b \in Banks |-> HrtNow(b)] /\ spill' = SpillNow
    /\ rit' = [b \in Banks |-> RitNow(b)] /\ acts' = MovesNow
    /\ UNCHANGED <<rpt, rqa_head, waiting, data, misled, halted>>

(* A row that finds no place in a full tracker.                            *)
SwapSpill(b, row) ==
    /\ Trackings(b, row) = {}
    /\ table' = [c \in Banks |-> HrtNow(c)] /\ spill' = [SpillNow EXCEPT ![b] = @ + 1]
    /\ rit' = [c \in Banks |-> RitNow(c)] /\ acts' = Acted(MovesNow, b, row)
    /\ UNCHANGED <<rpt, rqa_head, waiting, data, misled, halted>>

SwapCount(b, row) ==
    \E hrt \in Trackings(b, row) :
        /\ hrt[row] % MoveThreshold # 0
        /\ table' = [c \in Banks |-> IF c = b THEN hrt ELSE HrtNow(c)] /\ spill' = SpillNow
        /\ rit' = [c \in Banks |-> RitNow(c)] /\ acts' = Acted(MovesNow, b, row)
        /\ UNCHANGED <<rpt, rqa_head, waiting, data, misled, halted>>

(* A move after which the table is wrong.  RRS moves a row twice in one    *)
(* period.  AQUA moves a place of the area that holds nothing by then,     *)
(* whose original row is read as row 0: the head, which has just been      *)
(* emptied, or a place that an earlier move has vacated.  Or it moves a    *)
(* row that is in the area already, from the place it has left.            *)
Misleads(b, row) ==
    \/ plugin = "RRS" /\ row \in DOMAIN RitNow(b) /\ RitNow(b)[row].lock
    \/ /\ plugin = "AQUA"
       /\ LET st == Evicted(Start(b))
          IN  IF row < NumQRows THEN row \notin DOMAIN st.rpt ELSE row \in DOMAIN st.rit

(* The count of a row is a multiple of the threshold: it is moved by       *)
(* requests to the places of the move, which start anew.                   *)
MoveRow(b, row) ==
    \E hrt \in Trackings(b, row) :
    \E st \in IF plugin = "RRS" THEN RrsMoves(b, hrt, row) ELSE {AquaMove(b, row)} :
        /\ hrt[row] % MoveThreshold = 0
        /\ table' = [c \in Banks |-> IF c = b THEN hrt ELSE HrtNow(c)] /\ spill' = SpillNow
        /\ rit' = [c \in Banks |-> IF c = b THEN st.rit ELSE RitNow(c)]
        /\ rpt' = [rpt EXCEPT ![b] = st.rpt]
        /\ rqa_head' = IF plugin = "AQUA" THEN (rqa_head + 1) % NumQRows ELSE rqa_head
        /\ waiting' = [waiting EXCEPT ![b] = @ \cup st.moved]
        /\ data' = [data EXCEPT ![b] = st.data]
        /\ acts' = [MovesNow EXCEPT ![b] = [r \in Places |-> IF r \in st.moved THEN 0 ELSE @[r]]]
        /\ misled' = [misled EXCEPT ![b] = @ \/ Misleads(b, row)]
        /\ halted' = st.stop

(* send(): the request gets the place its row has now.                     *)
SwapSend(b, row) ==
    /\ Cardinality(waiting[b]) < MaxWaiting
    /\ waiting' = [waiting EXCEPT ![b] = @ \cup {Indirect(rit[b], row)}]
    /\ UNCHANGED <<trackers, rit, rpt, rqa_head, data, misled, halted>>

(* The last of the requests for a place leaves the buffers.                *)
SwapServe(b, row) ==
    /\ row \in waiting[b]
    /\ waiting' = [waiting EXCEPT ![b] = @ \ {row}]
    /\ UNCHANGED <<trackers, rit, rpt, rqa_head, data, misled, halted>>

(* A row may be closed before it is accessed, and be activated again.      *)
SwapActivate(b, row) ==
    /\ row \in waiting[b]
    /\ SwapSpill(b, row) \/ SwapCount(b, row) \/ MoveRow(b, row)

SwapTick ==
    /\ Ticks /\ UNCHANGED <<plugin, refs>>
    /\ SwapIdle \/ \E b \in Banks, row \in Places : SwapActivate(b, row)

SwapNext ==
    /\ plugin \in {"RRS", "AQUA"} /\ halted = ""
    /\ \/ SwapTick
       \/ \E h \in Hot[plugin] : SwapSend(h[1], h[2])
       \/ \E b \in Banks, row \in Places : SwapServe(b, row)

SwapSpec == SwapInit /\ [][SwapNext]_<<trackers, swap>>

-----------------------------------------------------------------------------
(* Rows that addresses may name: the quarantine area is reserved.          *)
UserRows == IF plugin = "AQUA" THEN NumQRows..(NumRows - 1) ELSE Rows

(* Data moves and the table follows: every row is found where its data     *)
(* lies, through swaps, evictions, the end of periods and activations of   *)
(* places that have been left, until a move misleads the table: RRS moves  *)
(* a row twice in one period and tells the table that the two rows drawn   *)
(* went where the other one is, or AQUA moves a place of the quarantine    *)
(* area that holds nothing any more or a row that has left its place       *)
(* (rrs.cpp:276-283, aqua.cpp:244-297).                                    *)
DataFollowsRows ==
    plugin \in {"RRS", "AQUA"} /\ halted = "" =>
        \A b \in Banks, r \in UserRows :
            ~misled[b] => data[b][Indirect(rit[b], r)] = r

(* While the spillover counter is below the threshold, no data is          *)
(* activated as often as the threshold in one place: it moves before, also *)
(* if its row has just been admitted with a count above the spilled ones.  *)
HotRowsMove ==
    plugin \in {"RRS", "AQUA"} /\ halted = "" =>
        \A b \in Banks, p \in Places :
            spill[b] < MoveThreshold => acts[b][p] < MoveThreshold
=============================================================================
