---------------------------- MODULE EsdmMapping ----------------------------
(***************************************************************************)
(* The ESDM address generator of SPAREPIMController: where a logical       *)
(* column of K^T or V lies (make_esdm_addr) and how a run of consecutive   *)
(* columns is split at row boundaries (the loops of enqueue_qk_stage and   *)
(* enqueue_sparse_pv_stage).                                               *)
(***************************************************************************)
EXTENDS Integers, Sequences

CONSTANTS
    Cfg,       \* the controller's parameters, a record with the code's names
    NumRows,   \* rows of a bank
    NumCols    \* columns of a row

ASSUME MappingAssumption ==
    /\ NumRows \in Nat \ {0} /\ NumCols \in Nat \ {0}
    /\ Cfg.esdm_columns_per_row \in Int

Smaller(a, b) == IF a < b THEN a ELSE b
AtLeast(a, b) == IF a < b THEN b ELSE a

(* m_esdm_columns_per_row after setup(): a value that is not positive      *)
(* stands for the device's own column count.                               *)
ColumnsPerRow ==
    IF Cfg.esdm_columns_per_row <= 0 THEN NumCols ELSE Cfg.esdm_columns_per_row

(* The % of C++, which takes the sign of its left operand.                 *)
Remainder(a, b) == IF a >= 0 THEN a % b ELSE -((-a) % b)

(* Mutant: K^T and V are not kept apart by their offsets.                  *)
EsdmRowIgnoringOffset(baseRow, rowOffset, column) ==
    Remainder(AtLeast(0, baseRow) + (AtLeast(0, column) \div ColumnsPerRow), NumRows)

EsdmRow(baseRow, rowOffset, column) ==
    Remainder(AtLeast(0, baseRow) + rowOffset + (AtLeast(0, column) \div ColumnsPerRow), NumRows)

EsdmCol(column) == (AtLeast(0, column) % ColumnsPerRow) % NumCols

(* make_esdm_addr(): without ESDM the address is left as it is.            *)
EsdmAddr(addr, rowOffset, column) ==
    IF ~Cfg.enable_esdm THEN addr
    ELSE [addr EXCEPT !.row = EsdmRow(addr.row, rowOffset, column),
                      !.col = EsdmCol(column)]

(* Mutant: a pass takes a whole row wherever it starts.                    *)
ChunkLengthWholeRow(start, done, count) == Smaller(count - done, ColumnsPerRow)

(* The columns one pass of the loop takes: up to the end of the row that   *)
(* holds column start + done, and no more than are left.  (Columns before  *)
(* 0 all lie at column 0, and one pass takes them with the row they share.) *)
ChunkLength(start, done, count) ==
    Smaller(count - done, ColumnsPerRow - Remainder(start + done, ColumnsPerRow))

(* All passes of the loop over count columns from column start.            *)
Chunks(start, count) ==
    LET From[done \in 0..AtLeast(0, count)] ==
            IF done >= count THEN <<>>
            ELSE <<[first |-> done, len |-> ChunkLength(start, done, count)]>>
                 \o From[done + ChunkLength(start, done, count)]
    IN  From[0]
=============================================================================
