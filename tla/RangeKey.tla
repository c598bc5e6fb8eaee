------------------------------ MODULE RangeKey ------------------------------
(***************************************************************************)
(* Identifiers of transactions, from common/src/range_key.rs.              *)
(*                                                                         *)
(* A UniqueU64BlobId is one integer that packs a KeyRange and a KeyOffset. *)
(* The two sizes the code fixes at 2^30 and 2^34 - 1 are CONSTANTS here,   *)
(* so that a run can reach the end of a range with a handful of ids.       *)
(***************************************************************************)
EXTENDS Integers

CONSTANTS SINGLE_BLOB_SIZE,     \* how many offsets one range has
          MAX_BLOCK_INDEX       \* the index of the last range

ASSUME RangeKeyAssumption ==
  /\ SINGLE_BLOB_SIZE \in Nat \ {0}
  /\ MAX_BLOCK_INDEX \in Nat

KeyRange  == 0..MAX_BLOCK_INDEX
KeyOffset == 0..(SINGLE_BLOB_SIZE - 1)

\* The ids range_from_unique_blob_id decodes; it panics on every larger one.
UniqueBlobId == 0..(MAX_BLOCK_INDEX * SINGLE_BLOB_SIZE)

\* A key absent from one of the code's maps of offsets.
None == -1

MaybeOffset == KeyOffset \cup {None}

unique_blob_id_from_range_and_offset(range, offset) ==
  range * SINGLE_BLOB_SIZE + offset

\* What there is of an id that is out of range: the code panics, and nothing
\* can be done with this value. Callers that may meet such an id say what
\* becomes of them.
OutOfRange == "out of range"

range_from_unique_blob_id(global_key) ==
  IF global_key \in UniqueBlobId THEN global_key \div SINGLE_BLOB_SIZE ELSE OutOfRange

\* The other half of range_offset_from_unique_blob_id, which panics likewise.
offset_from_unique_blob_id(global_key) ==
  IF global_key \in UniqueBlobId THEN global_key % SINGLE_BLOB_SIZE ELSE OutOfRange

(***************************************************************************)
(* A U64BlobIdClosedInterval is the record of its two ends; its ids are a  *)
(* set, or a sequence where the order of iteration matters.                *)
(***************************************************************************)
new_from_range_and_offsets(range, left, right) ==
  [left  |-> unique_blob_id_from_range_and_offset(range, left),
   right |-> unique_blob_id_from_range_and_offset(range, right)]

ids(interval) == interval.left..interval.right

ids_count(interval) == interval.right - interval.left + 1

iter(interval) ==
  [i \in 1..ids_count(interval) |-> interval.left + i - 1]
=============================================================================
