----------------------------- MODULE Linearizer -----------------------------
(***************************************************************************)
(* The linear order a node gives to committed transactions, from           *)
(* maroon/src/linearizer.rs: each epoch's increments, sorted, are iterated *)
(* and appended to the log one id after another.                           *)
(***************************************************************************)
EXTENDS RangeKey, SequencesExt

\* The increments of an epoch in the order of their first ids: the code keeps
\* them in the order of a HashMap, and sorts them. They overlap nowhere.
sorted(increments) ==
  CHOOSE seq \in SetToSeqs(increments) :
    \A i, j \in DOMAIN seq : i < j => seq[i].left < seq[j].left

\* The log after the block of ids of one epoch.
\* new_epoch_alone is a faulty form: the log is replaced by the block.
new_epoch_alone(sequence, increments) ==
  FlattenSeq([i \in DOMAIN sorted(increments) |-> iter(sorted(increments)[i])])

new_epoch(sequence, increments) ==
  sequence \o
    FlattenSeq([i \in DOMAIN sorted(increments) |-> iter(sorted(increments)[i])])

(***************************************************************************)
(* What such a log promises: the n-th id of a range comes in n-th place    *)
(* among the ids of that range. It follows that no id is logged twice and  *)
(* that no id is logged before a smaller one of its range.                 *)
(***************************************************************************)
InOrderWithoutGaps(log) ==
  \A i \in DOMAIN log :
     offset_from_unique_blob_id(log[i]) =
       Cardinality({j \in 1..(i - 1) :
                      range_from_unique_blob_id(log[j])
                        = range_from_unique_blob_id(log[i])})
=============================================================================
