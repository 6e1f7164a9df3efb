---------------------------- MODULE WeightLayout ----------------------------
(***************************************************************************)
(* wgt_align_chunk (providers/pim/math/gemm.h): the weight matrix of a     *)
(* Gemm, row by row in src, is laid out for the banks in column chunks of  *)
(* CHUNK elements: all rows of the first chunk, then all rows of the next, *)
(* the last chunk filled up with zeros.                                    *)
(*                                                                         *)
(* An element is its position in src, so the layout is checked whatever    *)
(* the weights are.  The products of the dimensions fit an int.            *)
(***************************************************************************)
EXTENDS Integers

CONSTANTS CHUNK, Rows, Cols, ZERO

ASSUME ChunkAssumption == CHUNK \in Nat \ {0}
ASSUME DimAssumption == Rows \subseteq Nat \ {0} /\ Cols \subseteq Nat \ {0}
ASSUME ZeroAssumption == ZERO \notin Nat

VARIABLES
  row_dim, col_dim,
  i, j, k, dest_idx,
  dst,              \* what has been written so far, from position 0 on
  pc

vars == <<row_dim, col_dim, i, j, k, dest_idx, dst, pc>>

Init ==
  /\ row_dim \in Rows /\ col_dim \in Cols
  /\ i = 0 /\ j = 0 /\ k = 0 /\ dest_idx = 0
  /\ dst = [d \in {} |-> ZERO]
  /\ pc = "start"

\* A defective variant: a partial chunk is not counted.
col_chunk_num_Floor == col_dim \div CHUNK

\* The number of column chunks, the last one possibly partial.
col_chunk_num ==
  IF col_dim % CHUNK # 0 THEN (CHUNK * (col_dim \div CHUNK + 1)) \div CHUNK
  ELSE col_dim \div CHUNK

Write(d, x) == dst' = [e \in 0..d |-> IF e = d THEN x ELSE dst[e]]

\* The three cases of the width.
Start ==
  /\ pc = "start"
  /\ \/ col_dim > CHUNK /\ pc' = "chunks"
     \/ col_dim = CHUNK /\ pc' = "copy"
     \/ col_dim < CHUNK /\ pc' = "unsupported"
  /\ UNCHANGED <<row_dim, col_dim, i, j, k, dest_idx, dst>>

\* A defective variant: rows are taken to be one chunk long.
CopyElement_ChunkStride ==
  /\ pc = "chunks" /\ i < col_chunk_num /\ j < row_dim /\ k < CHUNK
  /\ Write(dest_idx,
           IF i < col_chunk_num - 1 \/ i * CHUNK + k < col_dim
           THEN i * CHUNK + j * CHUNK + k
           ELSE ZERO)
  /\ dest_idx' = dest_idx + 1
  /\ k' = k + 1
  /\ UNCHANGED <<row_dim, col_dim, i, j, pc>>

\* The body of the innermost loop: in the last chunk, zeros stand for the
\* columns that the matrix does not have.
CopyElement ==
  /\ pc = "chunks" /\ i < col_chunk_num /\ j < row_dim /\ k < CHUNK
  /\ Write(dest_idx,
           IF i < col_chunk_num - 1 \/ i * CHUNK + k < col_dim
           THEN i * CHUNK + j * col_dim + k
           ELSE ZERO)
  /\ dest_idx' = dest_idx + 1
  /\ k' = k + 1
  /\ UNCHANGED <<row_dim, col_dim, i, j, pc>>

NextRow ==
  /\ pc = "chunks" /\ i < col_chunk_num /\ j < row_dim /\ k = CHUNK
  /\ j' = j + 1 /\ k' = 0
  /\ UNCHANGED <<row_dim, col_dim, i, dest_idx, dst, pc>>

NextChunk ==
  /\ pc = "chunks" /\ i < col_chunk_num /\ j = row_dim
  /\ i' = i + 1 /\ j' = 0
  /\ UNCHANGED <<row_dim, col_dim, k, dest_idx, dst, pc>>

\* A matrix one chunk wide is copied as it is.
CopyPlain ==
  /\ pc = "copy" /\ i < row_dim * col_dim
  /\ Write(i, i)
  /\ i' = i + 1
  /\ UNCHANGED <<row_dim, col_dim, j, k, dest_idx, pc>>

Return ==
  /\ \/ pc = "chunks" /\ i = col_chunk_num
     \/ pc = "copy" /\ i = row_dim * col_dim
  /\ pc' = "done"
  /\ UNCHANGED <<row_dim, col_dim, i, j, k, dest_idx, dst>>

\* The next matrix.
Again ==
  /\ pc \in {"done", "unsupported"}
  /\ row_dim' \in Rows /\ col_dim' \in Cols
  /\ i' = 0 /\ j' = 0 /\ k' = 0 /\ dest_idx' = 0
  /\ dst' = [d \in {} |-> ZERO]
  /\ pc' = "start"

Next ==
  \/ Start \/ CopyElement \/ NextRow \/ NextChunk \/ CopyPlain \/ Return \/ Again

Spec == Init /\ [][Next]_vars

-----------------------------------------------------------------------------
Chunk == 0..(col_chunk_num - 1)
Row == 0..(row_dim - 1)
Lane == 0..(CHUNK - 1)

\* Where lane l of chunk c in row r belongs, and what belongs there.
Position(c, r, l) == (c * row_dim + r) * CHUNK + l
Element(c, r, l) ==
  IF c * CHUNK + l < col_dim THEN r * col_dim + (c * CHUNK + l) ELSE ZERO

\* How much of dst is written.
Count == IF col_dim = CHUNK THEN i ELSE dest_idx

TypeOK ==
  /\ row_dim \in Rows /\ col_dim \in Cols
  /\ i \in Nat /\ j \in 0..row_dim /\ k \in 0..CHUNK /\ dest_idx \in Nat
  /\ dst \in [0..(Count - 1) -> Nat \cup {ZERO}]
  /\ pc \in {"start", "chunks", "copy", "done", "unsupported"}

\* Whatever is written is in place: dest_idx, which only counts up, is where
\* the element at hand belongs.
InPlace ==
  \A c \in Chunk, r \in Row, l \in Lane :
    Position(c, r, l) < Count => dst[Position(c, r, l)] = Element(c, r, l)

\* A call that returns normally has filled the padded matrix, and written
\* nothing beyond it.
Filled == pc = "done" => Count = (col_chunk_num * row_dim) * CHUNK

\* No weight is lost and none is there twice.
EveryWeightOnce ==
  pc = "done" =>
    \A e \in 0..(row_dim * col_dim - 1) :
      \E d \in DOMAIN dst :
        dst[d] = e /\ \A f \in DOMAIN dst : dst[f] = e => f = d
=============================================================================
