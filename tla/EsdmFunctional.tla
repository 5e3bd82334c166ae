---------------------------- MODULE EsdmFunctional ----------------------------
(***************************************************************************)
(* The functional data path of SPAREPIMController with enable_functional:  *)
(* setup_functional_data writes the columns of K and V into the bank       *)
(* storage, expand_sparepim_token executes one position of the sequence    *)
(* for every token of the trace, and finalize() compares the outputs with  *)
(* those of the golden model.                                              *)
(*                                                                         *)
(* All banks receive the same columns and only the first is read, so one   *)
(* bank stands for all, and one batch for the batches that are never       *)
(* executed.  Integers stand for FP16 values.                              *)
(***************************************************************************)
EXTENDS Integers, Sequences, SequencesExt

CONSTANTS
    Layouts,            \* configurations of the controller
    BankRows, BankCols, \* the geometry of a bank
    KeyRows, KeyCols,   \* rows and columns the storage's key tells apart (16 bits each)
    Width,              \* values of one column (FP16_PER_COLUMN)
    Q(_, _, _), K(_, _, _), V(_, _, _), We(_, _),  \* the tensors, by head, position, dimension
    MaxTokens           \* bound on the tokens of the trace

(* The parameters by their types in the code; a model has positions, heads *)
(* and dimensions, though there may be none to compute.                    *)
ASSUME DataPathAssumption ==
    /\ Layouts \subseteq
          [enable_esdm : BOOLEAN, esdm_columns_per_row : Int,
           kt_row_offset : Int, kt_col_start : Int, v_row_offset : Int, v_col_start : Int,
           seq_len : Nat, d_head : Nat, num_heads : Nat \ {0}, num_kv_heads : Nat \ {0}]
    /\ {BankRows, BankCols, KeyRows, KeyCols, Width} \subseteq Nat \ {0}

VARIABLES
    layout,         \* the configuration
    loaded,         \* how many columns setup_functional_data has written
    storage,        \* m_storage, a function from keys to columns
    tokens,         \* tokens expanded so far
    m_current_sq,   \* positions executed so far
    m_hw_output,    \* the values computed for them, in a row
    verdict         \* what finalize() found: "none" before

pathVars == <<layout, loaded, storage, tokens, m_current_sq, m_hw_output, verdict>>

M == INSTANCE EsdmMapping WITH Cfg <- layout, NumRows <- BankRows, NumCols <- BankCols

(* The sum of f[0], ..., f[n - 1].                                         *)
Sum(n, f) == FoldLeft(LAMBDA sum, i : sum + f[i - 1], 0, [i \in 1..n |-> i])
ReLU(x) == IF x < 0 THEN 0 ELSE x

Positions == 0..(layout.seq_len - 1)
Dims == 0..(layout.d_head - 1)
ColsPerKt == (layout.d_head + Width - 1) \div Width

(* What is stored of head 0: t is "K" or "V".                              *)
Value(t, sk, d) == IF t = "K" THEN K(0, sk, d) ELSE V(0, sk, d)

(* The key of column c of position sk.  logical_base is row 0 and column   *)
(* 0; pack_addr() keeps the low bits of row and column.                    *)
Base == [path |-> <<0, 0, 0>>, row |-> 0, col |-> 0]
EsdmPlace(t, sk, c) ==
    IF t = "K" THEN M!EsdmAddr(Base, layout.kt_row_offset, layout.kt_col_start + sk * ColsPerKt + c)
               ELSE M!EsdmAddr(Base, layout.v_row_offset, layout.v_col_start + sk * ColsPerKt + c)
Key(t, sk, c) ==
    LET addr == EsdmPlace(t, sk, c) IN <<addr.row % KeyRows, addr.col % KeyCols>>

(* Mutant: every column of a position holds its first values.              *)
ColumnDataUnaligned(t, sk, c) ==
    [i \in 0..(Width - 1) |-> IF i < layout.d_head THEN Value(t, sk, i) ELSE 0]

(* Column c of position sk, filled up with zeros.                          *)
ColumnData(t, sk, c) ==
    [i \in 0..(Width - 1) |->
        IF c * Width + i < layout.d_head THEN Value(t, sk, c * Width + i) ELSE 0]

(* The columns are written position by position, those of K before those   *)
(* of V.                                                                   *)
Columns == layout.seq_len * 2 * ColsPerKt
Written(n) ==
    [tensor |-> IF n % (2 * ColsPerKt) < ColsPerKt THEN "K" ELSE "V",
     position |-> n \div (2 * ColsPerKt), column |-> n % ColsPerKt]
WriteCol(s, key, data) == [k \in DOMAIN s \cup {key} |-> IF k = key THEN data ELSE s[k]]

(* Every column is written before the first is read.                       *)
ReadCol(t, sk, c) == storage[Key(t, sk, c)]
Stored(t, sk, d) == ReadCol(t, sk, d \div Width)[d % Width]

-----------------------------------------------------------------------------
(* The sparse product of the scores of all positions, which pass the ReLU  *)
(* and are weighted, with one dimension of V.                              *)
SparsePV(weight, score, value) ==
    Sum(layout.seq_len, [sk \in Positions |->
            IF ReLU(score[sk]) > 0 THEN weight * ReLU(score[sk]) * value[sk] ELSE 0])

(* execute_functional_token() for head 0.                                  *)
Executed(sq) ==
    LET score == [sk \in Positions |->
                    Sum(layout.d_head, [d \in Dims |-> Q(0, sq, d) * Stored("K", sk, d)])]
    IN  [i \in 1..layout.d_head |->
            SparsePV(We(0, sq), score, [sk \in Positions |-> Stored("V", sk, i - 1)])]

(* ElemaxSDPA::compute(): heads share K and V in groups, and the outputs   *)
(* follow each other by head, position and dimension.                      *)
GoldenAt(h, sq, d) ==
    LET kv == (h * layout.num_kv_heads) \div layout.num_heads
        score == [sk \in Positions |->
                    Sum(layout.d_head, [e \in Dims |-> Q(h, sq, e) * K(kv, sk, e)])]
    IN  SparsePV(We(h, sq), score, [sk \in Positions |-> V(kv, sk, d)])
GoldenOutput ==
    [i \in 1..(layout.num_heads * layout.seq_len * layout.d_head) |->
        GoldenAt((i - 1) \div (layout.seq_len * layout.d_head),
                 ((i - 1) \div layout.d_head) % layout.seq_len,
                 (i - 1) % layout.d_head)]

-----------------------------------------------------------------------------
PathInit ==
    /\ layout \in Layouts
    /\ loaded = 0 /\ storage = [k \in {} |-> 0]
    /\ tokens = 0 /\ m_current_sq = 0 /\ m_hw_output = <<>> /\ verdict = "none"

(* setup_functional_data() writes one column.                              *)
LoadColumn ==
    /\ loaded < Columns
    /\ loaded' = loaded + 1
    /\ LET w == Written(loaded)
       IN  storage' = WriteCol(storage, Key(w.tensor, w.position, w.column),
                               ColumnData(w.tensor, w.position, w.column))
    /\ UNCHANGED <<layout, tokens, m_current_sq, m_hw_output, verdict>>

(* A token is expanded: a position is executed while there is one left.    *)
ExecuteToken ==
    /\ loaded = Columns /\ verdict = "none" /\ tokens < MaxTokens
    /\ tokens' = tokens + 1
    /\ IF m_current_sq < layout.seq_len
       THEN /\ m_current_sq' = m_current_sq + 1
            /\ m_hw_output' = m_hw_output \o Executed(m_current_sq)
       ELSE UNCHANGED <<m_current_sq, m_hw_output>>
    /\ UNCHANGED <<layout, loaded, storage, verdict>>

(* The program ends, after any number of tokens.                           *)
Finalize ==
    /\ loaded = Columns /\ verdict = "none"
    /\ verdict' = IF m_hw_output = SubSeq(GoldenOutput, 1, m_current_sq * layout.d_head)
                  THEN "passed" ELSE "failed"
    /\ UNCHANGED <<layout, loaded, storage, tokens, m_current_sq, m_hw_output>>

PathNext == LoadColumn \/ ExecuteToken \/ Finalize

PathSpec == PathInit /\ [][PathNext]_pathVars

-----------------------------------------------------------------------------
(* The regions of K and V, in rows of the mapping, lie apart in the bank:  *)
(* neither reaches the other or the rows the key confuses, and a row of    *)
(* the mapping fits a row of the device.  README.md:81 asks for it.        *)
RowsOf(start) == (start + layout.seq_len * ColsPerKt + M!ColumnsPerRow - 1) \div M!ColumnsPerRow
KEnd == layout.kt_row_offset + RowsOf(layout.kt_col_start)
VEnd == layout.v_row_offset + RowsOf(layout.v_col_start)
Apart ==
    /\ layout.enable_esdm
    /\ M!ColumnsPerRow <= BankCols /\ BankCols <= KeyCols
    /\ {layout.kt_row_offset, layout.v_row_offset,
        layout.kt_col_start, layout.v_col_start} \subseteq Nat
    /\ KEnd <= layout.v_row_offset \/ VEnd <= layout.kt_row_offset
    /\ M!AtLeast(KEnd, VEnd) <= M!Smaller(BankRows, KeyRows)

(* Then every value of K and V is read back as it was written.             *)
ReadsBack ==
    loaded = Columns /\ Apart =>
        \A t \in {"K", "V"}, sk \in Positions, d \in Dims :
            Stored(t, sk, d) = Value(t, sk, d)

(* And the comparison with the golden model passes, however many tokens    *)
(* the trace has and however many heads share K and V.                     *)
MatchesGolden == Apart => verdict # "failed"

(* When the regions of K^T and V lie apart, every value is read back as it *)
(* was written, and the comparison of finalize() with the golden model     *)
(* passes (sparepim_controller.cpp:678-820).                               *)
DataPathAgrees == ReadsBack /\ MatchesGolden
=============================================================================
