----------------------------- MODULE EpochCommit ----------------------------
(***************************************************************************)
(* The commit path of one node, from maroon/src/app/app.rs,                *)
(* maroon/src/epoch.rs and maroon/src/linearizer.rs: at each tick of the   *)
(* epoch timer, whatever consensus has confirmed since the last epoch is   *)
(* put in a new epoch and appended to the node's log.                      *)
(*                                                                         *)
(* The consensus offsets come from the rest of the node. Here they are an  *)
(* environment that may move any of them, forwards or backwards, between   *)
(* two ticks: they are recomputed from what other peers said last, and an  *)
(* entry, once there, is never removed.                                    *)
(***************************************************************************)
EXTENDS MaroonApp

CONSTANT MaxEpochs      \* bound: how many epochs are created

ASSUME EpochCommitAssumption == MaxEpochs \in Nat

VARIABLES
  consensus_offset,     \* KeyRange -> MaybeOffset
  commited_offsets,     \* KeyRange -> MaybeOffset
  epochs,               \* the increments of each epoch, oldest first
  sequence              \* the linearizer's log

vars == <<consensus_offset, commited_offsets, epochs, sequence>>

Init ==
  /\ consensus_offset = [range \in KeyRange |-> None]
  /\ commited_offsets = [range \in KeyRange |-> None]
  /\ epochs = <<>>
  /\ sequence = <<>>

\* The offsets peers may speak of in a range: those of ids they could decode.
OffsetsOf(range) ==
  {offset \in KeyOffset :
     unique_blob_id_from_range_and_offset(range, offset) \in UniqueBlobId}

\* recalculate_consensus_offsets, over all it may be given.
Recalculate ==
  /\ consensus_offset' \in [KeyRange -> MaybeOffset]
  /\ \A range \in KeyRange :
       \/ consensus_offset'[range] \in OffsetsOf(range)
       \/ consensus_offset'[range] = None /\ consensus_offset[range] = None
  /\ UNCHANGED <<commited_offsets, epochs, sequence>>

\* commit_epoch_if_needed. An epoch is made even when nothing is new: its set
\* of increments is then empty.
\* commit_all_marked is a faulty form: commited_offsets is set to consensus.
commit_all_marked ==
  LET increments == calculate_epoch_increments(consensus_offset, commited_offsets)
  IN  /\ Len(epochs) < MaxEpochs
      /\ sequence' = new_epoch(sequence, increments)
      /\ epochs' = Append(epochs, increments)
      /\ commited_offsets' = consensus_offset
      /\ UNCHANGED consensus_offset

commit_epoch_if_needed ==
  LET increments == calculate_epoch_increments(consensus_offset, commited_offsets)
  IN  /\ Len(epochs) < MaxEpochs
      /\ sequence' = new_epoch(sequence, increments)
      /\ commited_offsets' = CommitedAfter(commited_offsets, increments)
      /\ epochs' = Append(epochs, increments)
      /\ UNCHANGED consensus_offset

Next == Recalculate \/ commit_epoch_if_needed

Spec == Init /\ [][Next]_vars

-----------------------------------------------------------------------------
(***************************************************************************)
(* Properties.                                                             *)
(***************************************************************************)

\* The maps hold offsets, the epochs hold intervals of one range, and the log
\* holds ids.
TypeOK ==
  /\ consensus_offset \in [KeyRange -> MaybeOffset]
  /\ commited_offsets \in [KeyRange -> MaybeOffset]
  /\ epochs \in Seq(SUBSET [left : Nat, right : Nat])
  /\ Len(epochs) <= MaxEpochs
  /\ sequence \in Seq(Nat)

\* The ids some epoch covers.
EpochIds == UNION {UNION {ids(interval) : interval \in epochs[i]} : i \in DOMAIN epochs}

\* The ids of a range up to a committed offset.
Prefix(range, offset) ==
  {unique_blob_id_from_range_and_offset(range, o) : o \in 0..offset}

\* "commited_offsets can be recalculated from `epochs`" (app.rs:52): the
\* epochs cover exactly the transactions of each range up to the committed
\* offset, whichever way consensus moved in between.
EpochsCoverCommited ==
  EpochIds = UNION {Prefix(range, commited_offsets[range]) : range \in KeyRange}

\* No transaction is in two intervals, of one epoch or of two: a new epoch
\* starts above the committed offset even when consensus fell behind it
\* (calculate_epoch_increments).
EpochsAreDisjoint ==
  \A i, j \in DOMAIN epochs : \A x \in epochs[i], y \in epochs[j] :
     (i # j \/ x # y) => ids(x) \cap ids(y) = {}

\* The linearizer's log, which is kept apart from the epochs, holds the ids of
\* the epochs and nothing else.
LogHoldsTheEpochs == Range(sequence) = EpochIds

\* Every node's log is a TransactionLog: it only grows, and each range is in
\* order, without a gap or a repetition.
Log == INSTANCE TransactionLog WITH log <- sequence
LogIsATransactionLog == Log!Spec

\* A tick leaves at most one confirmed transaction of a range uncommitted:
\* the bound on what calculate_epoch_increments holds back.
CommitLagsByAtMostOne ==
  [][epochs' # epochs =>
       \A range \in KeyRange : consensus_offset[range] - commited_offsets'[range] <= 1]_vars

\* A tick commits what consensus has confirmed. params.rs:7 describes
\* consensus_nodes as what it takes "to confirm" a transaction.
CommitReachesConsensus ==
  [][epochs' # epochs =>
       \A range \in KeyRange : consensus_offset[range] <= commited_offsets'[range]]_vars
=============================================================================
