------------------------------ MODULE MaroonApp -----------------------------
(***************************************************************************)
(* The functions of maroon/src/app/app.rs that a node's App is built from. *)
(* They read and write the maps of the node; here each of them takes the   *)
(* maps it reads and returns the map, or the set of messages, it produces. *)
(*                                                                         *)
(* A map from KeyRange to KeyOffset is a function into MaybeOffset, with   *)
(* None where the key is absent. A transaction is its id: the code never   *)
(* looks at its payload.                                                   *)
(***************************************************************************)
EXTENDS Linearizer, Functions

-----------------------------------------------------------------------------
(***************************************************************************)
(* Receiving transactions: update_self_offsets.                            *)
(***************************************************************************)

\* txs_to_range_tx_map: the ranges of a batch. The code goes through them in
\* the order of a HashMap; rank gives each of them its place in that order.
RangesOf(txs) == {range_from_unique_blob_id(tx) : tx \in txs}

Ranks(txs) == Bijection(RangesOf(txs), 1..Cardinality(RangesOf(txs)))

\* What the node holds when it walks `range`: the batch is stored one range
\* at a time.
HeldAt(range, transactions, txs, rank) ==
  transactions \cup
    {tx \in txs : rank[range_from_unique_blob_id(tx)] <= rank[range]}

\* Where the walk starts; None when the range is not started and its first
\* transaction is not in the batch.
StartOffset(range, self_offsets, txs) ==
  IF self_offsets[range] # None THEN self_offsets[range]
  ELSE IF unique_blob_id_from_range_and_offset(range, 0) \in txs THEN 0
  ELSE None

\* The last id of the unbroken run of held ids that begins at `key`. The run
\* does not stop at the end of a range.
walk(held, key) ==
  Min({k \in key..(MAX_BLOCK_INDEX * SINGLE_BLOB_SIZE) : k + 1 \notin held})

\* The entries update_self_offsets returns: it writes them, changed or not.
UpdatedRanges(self_offsets, txs) ==
  {range \in RangesOf(txs) : StartOffset(range, self_offsets, txs) # None}

\* update_to_newest is a faulty form: the pointer is set to the largest offset
\* that arrived.
update_to_newest(self_offsets, transactions, txs, rank) ==
  [range \in KeyRange |->
     IF range \notin RangesOf(txs) THEN self_offsets[range]
     ELSE Max({offset_from_unique_blob_id(tx) :
                 tx \in {t \in txs : range_from_unique_blob_id(t) = range}})]

\* update_without_walk is a faulty form: it moves by one transaction at most.
update_without_walk(self_offsets, transactions, txs, rank) ==
  [range \in KeyRange |->
     IF unique_blob_id_from_range_and_offset(range, self_offsets[range] + 1) \in txs
     THEN self_offsets[range] + 1 ELSE self_offsets[range]]

update_self_offsets(self_offsets, transactions, txs, rank) ==
  [range \in KeyRange |->
     IF range \notin UpdatedRanges(self_offsets, txs) THEN self_offsets[range]
     ELSE offset_from_unique_blob_id(
            walk(HeldAt(range, transactions, txs, rank),
                 unique_blob_id_from_range_and_offset(
                   range, StartOffset(range, self_offsets, txs))))]

\* move_offset_pointer, for every entry update_self_offsets returned.
\* The first form is faulty: the table is not told of the move.
no_offset_pointer(offsets, peer_id, updated, self_offsets) == offsets

move_offset_pointers(offsets, peer_id, updated, self_offsets) ==
  [range \in KeyRange |->
     IF range \in updated
     THEN [offsets[range] EXCEPT ![peer_id] = self_offsets[range]]
     ELSE offsets[range]]

-----------------------------------------------------------------------------
(***************************************************************************)
(* Comparing with the other nodes: self_delays. offsets[range] is the      *)
(* table of what each peer said of that range.                             *)
(***************************************************************************)

\* The peers max_by_key may return: which of several equal ones depends on
\* the order of a HashMap.
MaxPeers(nodes) ==
  {q \in DOMAIN nodes : nodes[q] # None /\ \A other \in DOMAIN nodes : nodes[other] <= nodes[q]}

\* The ranges some peer is further in than this node.
DelayedRanges(self_offsets, offsets) ==
  {range \in KeyRange :
     \E q \in DOMAIN offsets[range] : offsets[range][q] > self_offsets[range]}

\* The ids the intervals of one range cover: those above the node's own
\* offset up to `right_border` that it does not hold. The set is empty, and
\* an empty request is sent, when the node holds all of them.
\* missing_from_own and missing_past_border are faulty forms: the left end or
\* the right end is off by one. missing_before_border leaves the last one out.
missing_from_own(range, transactions, self_offset, right_border) ==
  {unique_blob_id_from_range_and_offset(range, offset) :
     offset \in self_offset..right_border} \ transactions

missing_past_border(range, transactions, self_offset, right_border) ==
  {unique_blob_id_from_range_and_offset(range, offset) :
     offset \in (self_offset + 1)..(right_border + 1)} \ transactions

missing_before_border(range, transactions, self_offset, right_border) ==
  {unique_blob_id_from_range_and_offset(range, offset) :
     offset \in (self_offset + 1)..(right_border - 1)} \ transactions

MissingIds(range, transactions, self_offset, right_border) ==
  {unique_blob_id_from_range_and_offset(range, offset) :
     offset \in (self_offset + 1)..right_border} \ transactions

\* The messages of self_delays, given the peer chosen for each delayed range.
self_delays(transactions, self_offsets, offsets, chosen) ==
  {[to  |-> q,
    ids |-> UNION {MissingIds(range, transactions, self_offsets[range],
                              offsets[range][q]) :
                     range \in {r \in DOMAIN chosen : chosen[r] = q}}] :
     q \in Range(chosen)}

-----------------------------------------------------------------------------
(***************************************************************************)
(* Consensus and commit.                                                   *)
(***************************************************************************)

\* The largest offset that at least n peers have reached: the n-th of the
\* offsets sorted downwards; None when fewer than n peers spoke.
\* consensus_of_fewer is a faulty form: n - 1 peers are enough.
consensus_of_fewer(nodes, n) ==
  LET reached(offset) == {q \in DOMAIN nodes : nodes[q] # None /\ nodes[q] >= offset}
  IN  IF Cardinality({q \in DOMAIN nodes : nodes[q] # None}) < n THEN None
      ELSE Max({offset \in Range(nodes) \ {None} : Cardinality(reached(offset)) >= n - 1})

\* consensus_or_any is a faulty form: it drops the count of peers.
consensus_or_any(nodes, n) == Max(Range(nodes))

consensus_maximum(nodes, n) ==
  LET reached(offset) == {q \in DOMAIN nodes : nodes[q] # None /\ nodes[q] >= offset}
  IN  IF Cardinality({q \in DOMAIN nodes : nodes[q] # None}) < n THEN None
      ELSE Max({offset \in Range(nodes) \ {None} : Cardinality(reached(offset)) >= n})

\* recalculate_consensus_offsets: an entry is replaced, never removed.
recalculate_consensus_offsets(consensus_offset, offsets, n) ==
  [range \in KeyRange |->
     IF consensus_maximum(offsets[range], n) = None THEN consensus_offset[range]
     ELSE consensus_maximum(offsets[range], n)]

\* calculate_epoch_increments. A range with exactly one new transaction is
\* left for a later epoch: start = offset does not make an increment.
IncrementStart(commited_offset) ==
  IF commited_offset = None THEN 0 ELSE commited_offset + 1

\* increments_from_last is a faulty form: it starts at the last commited id.
increments_from_last(consensus_offset, commited_offsets) ==
  {new_from_range_and_offsets(range, Max({0, commited_offsets[range]}),
                              consensus_offset[range]) :
     range \in {r \in KeyRange : commited_offsets[r] < consensus_offset[r]}}

\* increments_unguarded is a faulty form: it also runs when consensus is
\* behind what was committed.
increments_unguarded(consensus_offset, commited_offsets) ==
  {new_from_range_and_offsets(range, 0, consensus_offset[range]) :
     range \in {r \in KeyRange : consensus_offset[r] # None /\ consensus_offset[r] # commited_offsets[r]}}

\* increments_of_three is a faulty form: a third transaction is waited for.
increments_of_three(consensus_offset, commited_offsets) ==
  {new_from_range_and_offsets(range, IncrementStart(commited_offsets[range]),
                              consensus_offset[range]) :
     range \in {r \in KeyRange :
                  /\ consensus_offset[r] # None
                  /\ IncrementStart(commited_offsets[r]) + 1 < consensus_offset[r]}}

calculate_epoch_increments(consensus_offset, commited_offsets) ==
  {new_from_range_and_offsets(range, IncrementStart(commited_offsets[range]),
                              consensus_offset[range]) :
     range \in {r \in KeyRange :
                  /\ consensus_offset[r] # None
                  /\ IncrementStart(commited_offsets[r]) < consensus_offset[r]}}

\* commited_as_id is a faulty form: the id is kept in place of its offset.
commited_as_id(commited_offsets, increments) ==
  [range \in KeyRange |->
     LET ends == {interval.right : interval \in increments}
         own  == {id \in ends : range_from_unique_blob_id(id) = range}
     IN  IF own = {} THEN commited_offsets[range] ELSE CHOOSE id \in own : TRUE]

\* commited_offsets after an epoch: the end of each of its intervals. A range
\* has one increment in an epoch at most.
CommitedAfter(commited_offsets, increments) ==
  [range \in KeyRange |->
     LET ends == {interval.right : interval \in increments}
         own  == {id \in ends : range_from_unique_blob_id(id) = range}
     IN  IF own = {} THEN commited_offsets[range]
         ELSE offset_from_unique_blob_id(CHOOSE id \in own : TRUE)]
=============================================================================
