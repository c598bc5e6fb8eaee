---------------------------- MODULE ClusterProofs ---------------------------
(***************************************************************************)
(* Safety of Cluster for any number of peers, any transactions, any size   *)
(* of the ranges (so also when walks run past the end of a range) and any  *)
(* consensus_nodes.                                                        *)
(***************************************************************************)
EXTENDS ClusterRefinement, MaroonAppProofs

\* What a State message in flight says of its sender is held by the sender.
StatesAreHeld ==
  \A m \in states, range \in KeyRange : Holds(m.from, range, m.offsets[range])

\* The inductive invariant. A table is only as good as the messages it is
\* filled from, those only as good as the sender's own offsets, and a request
\* can be answered because the table it was made from was right.
IndInv ==
  /\ TypeOK
  /\ SelfOffsetsAreHeld
  /\ StatesAreHeld
  /\ TableIsHeld
  /\ RequestsCanBeAnswered
  /\ NoNodeHangs
  /\ ConsensusIsReplicated
  /\ CommitedIsReplicated

-----------------------------------------------------------------------------
\* Everything said of what peers hold stays true when they hold more.
LEMMA HoldingStays ==
  ASSUME \A p \in PeerId : transactions[p] \subseteq transactions'[p]
  PROVE  /\ \A p \in PeerId, range \in KeyRange, offset \in MaybeOffset :
              Holds(p, range, offset) => Holds(p, range, offset)'
         /\ \A range \in KeyRange, offset \in MaybeOffset :
              Cardinality(Holders(range, offset)) >= consensus_nodes
                => Cardinality(Holders(range, offset)') >= consensus_nodes
<1>1. \A p \in PeerId, range \in KeyRange, offset \in MaybeOffset :
        Holds(p, range, offset) => Holds(p, range, offset)'
  BY DEF Holds
<1>2. ASSUME NEW range \in KeyRange, NEW offset \in MaybeOffset,
             Cardinality(Holders(range, offset)) >= consensus_nodes
      PROVE  Cardinality(Holders(range, offset)') >= consensus_nodes
  <2>1. Holders(range, offset) \subseteq Holders(range, offset)'
        /\ Holders(range, offset)' \subseteq PeerId
    BY <1>1 DEF Holders
  <2>2. IsFiniteSet(Holders(range, offset)')
    BY <2>1, ClusterAssumption, FS_Subset
  <2>3. /\ Cardinality(Holders(range, offset)) <= Cardinality(Holders(range, offset)')
        /\ IsFiniteSet(Holders(range, offset))
    BY <2>1, <2>2, FS_Subset
  <2>4. /\ Cardinality(Holders(range, offset)) \in Nat
        /\ Cardinality(Holders(range, offset)') \in Nat
    BY <2>2, <2>3, FS_CardinalityType
  <2>. QED
    BY <1>2, <2>3, <2>4, ClusterAssumption, SMT
<1>. QED
  BY <1>1, <1>2

\* A node that stores a batch (NewTransaction, MissingTx) holds what its own
\* offsets and its row of the table then say.
LEMMA StoreKeeps ==
  ASSUME IndInv, NEW p \in PeerId, NEW txs \in SUBSET TxIds, Store(p, txs)
  PROVE  /\ transactions' \in [PeerId -> SUBSET TxIds]
         /\ \A q \in PeerId : transactions[q] \subseteq transactions'[q]
         /\ self_offsets' \in [PeerId -> [KeyRange -> MaybeOffset]]
         /\ offsets' \in [PeerId -> [KeyRange -> [PeerId -> MaybeOffset]]]
         /\ SelfOffsetsAreHeld'
         /\ TableIsHeld'
<1> USE DEF IndInv
<1>1. PICK rank \in Ranks(txs) :
        LET moved == update_self_offsets(self_offsets[p], transactions[p], txs, rank)
        IN  /\ transactions' = [transactions EXCEPT ![p] = @ \cup txs]
            /\ self_offsets' = [self_offsets EXCEPT ![p] = moved]
            /\ offsets' = [offsets EXCEPT ![p] =
                 move_offset_pointers(@, p, UpdatedRanges(self_offsets[p], txs), moved)]
  BY DEF Store
<1> DEFINE moved == update_self_offsets(self_offsets[p], transactions[p], txs, rank)
<1>2. /\ moved \in [KeyRange -> MaybeOffset]
      /\ \A range \in KeyRange : \A o \in 0..moved[range] :
           unique_blob_id_from_range_and_offset(range, o) \in transactions[p] \cup txs
  <2>1. /\ self_offsets[p] \in [KeyRange -> MaybeOffset]
        /\ transactions[p] \in SUBSET UniqueBlobId
        /\ txs \in SUBSET UniqueBlobId
    BY ClusterAssumption DEF TypeOK
  <2>2. \A range \in KeyRange : \A o \in 0..self_offsets[p][range] :
          unique_blob_id_from_range_and_offset(range, o) \in transactions[p]
    BY DEF SelfOffsetsAreHeld, Holds
  <2>. QED  BY <2>1, <2>2, UpdatedOffsetsAreHeld
<1>3. /\ transactions' = [transactions EXCEPT ![p] = @ \cup txs]
      /\ self_offsets' = [self_offsets EXCEPT ![p] = moved]
      /\ offsets' = [offsets EXCEPT ![p] =
           move_offset_pointers(@, p, UpdatedRanges(self_offsets[p], txs), moved)]
  BY <1>1
<1> HIDE DEF moved
<1>4. transactions' \in [PeerId -> SUBSET TxIds]
      /\ \A q \in PeerId : transactions[q] \subseteq transactions'[q]
  BY <1>3 DEF TypeOK
<1>5. self_offsets' \in [PeerId -> [KeyRange -> MaybeOffset]]
  BY <1>2, <1>3 DEF TypeOK
<1> DEFINE row == move_offset_pointers(offsets[p], p, UpdatedRanges(self_offsets[p], txs), moved)
<1>6. /\ row \in [KeyRange -> [PeerId -> MaybeOffset]]
      /\ \A range \in KeyRange, q \in PeerId :
           row[range][q] = offsets[p][range][q] \/ (q = p /\ row[range][q] = moved[range])
  BY <1>2 DEF move_offset_pointers, TypeOK
<1>7. offsets' = [offsets EXCEPT ![p] = row]
  BY <1>3
<1> HIDE DEF row
<1>8. offsets' \in [PeerId -> [KeyRange -> [PeerId -> MaybeOffset]]]
  BY <1>6, <1>7 DEF TypeOK
<1>9. \A range \in KeyRange : \A o \in 0..moved[range] :
        unique_blob_id_from_range_and_offset(range, o) \in transactions'[p]
  BY <1>2, <1>3 DEF TypeOK
<1>10. SelfOffsetsAreHeld'
  <2> SUFFICES ASSUME NEW q \in PeerId, NEW range \in KeyRange
               PROVE  Holds(q, range, self_offsets[q][range])'
    BY DEF SelfOffsetsAreHeld
  <2>1. CASE q = p
    <3>1. self_offsets'[q] = moved
      BY <1>3, <2>1 DEF TypeOK
    <3>. QED  BY <1>9, <2>1, <3>1 DEF Holds
  <2>2. CASE q # p
    <3>1. self_offsets'[q] = self_offsets[q]
      BY <1>3, <2>2 DEF TypeOK
    <3>. QED  BY <1>4, <3>1 DEF SelfOffsetsAreHeld, Holds
  <2>. QED  BY <2>1, <2>2
<1>11. TableIsHeld'
  <2> SUFFICES ASSUME NEW q \in PeerId, NEW s \in PeerId, NEW range \in KeyRange
               PROVE  Holds(s, range, offsets[q][range][s])'
    BY DEF TableIsHeld
  <2>1. CASE offsets'[q][range][s] = offsets[q][range][s]
    BY <1>4, <2>1 DEF TableIsHeld, Holds
  <2>2. CASE s = p /\ offsets'[q][range][s] = moved[range]
    BY <1>9, <2>2 DEF Holds
  <2>3. offsets'[q] = IF q = p THEN row ELSE offsets[q]
    BY <1>7 DEF TypeOK
  <2>. QED  BY <1>6, <2>1, <2>2, <2>3
<1>. QED
  BY <1>4, <1>5, <1>8, <1>10, <1>11

\* self_delays asks each peer for transactions that peer holds, whichever of
\* several equal peers is chosen.
LEMMA DelaysAreHeld ==
  ASSUME IndInv, NEW p \in PeerId,
         NEW chosen \in [DelayedRanges(self_offsets[p], offsets[p]) -> PeerId],
         NEW d \in self_delays(transactions[p], self_offsets[p], offsets[p], chosen)
  PROVE  d.to \in PeerId /\ d.ids \subseteq transactions[d.to]
<1>1. PICK q \in Range(chosen) :
        d = [to  |-> q,
             ids |-> UNION {MissingIds(range, transactions[p], self_offsets[p][range],
                                       offsets[p][range][q]) :
                              range \in {r \in DOMAIN chosen : chosen[r] = q}}]
  BY DEF self_delays
<1>2. q \in PeerId
  BY DEF Range
<1>3. ASSUME NEW id \in d.ids PROVE id \in transactions[q]
  <2>1. PICK range \in DOMAIN chosen :
          id \in MissingIds(range, transactions[p], self_offsets[p][range],
                           offsets[p][range][q])
    BY <1>1
  <2>2. range \in KeyRange
    BY DEF DelayedRanges
  <2>3. PICK o \in (self_offsets[p][range] + 1)..offsets[p][range][q] :
          id = unique_blob_id_from_range_and_offset(range, o)
    BY <2>1 DEF MissingIds
  <2>4. self_offsets[p][range] \in MaybeOffset /\ offsets[p][range][q] \in MaybeOffset
    BY <1>2, <2>2 DEF IndInv, TypeOK
  <2>5. o \in 0..offsets[p][range][q]
    BY <2>3, <2>4, RangeKeyAssumption, SMT DEF MaybeOffset, KeyOffset, None
  <2>. QED  BY <1>2, <2>2, <2>3, <2>5 DEF IndInv, TableIsHeld, Holds
<1>. QED
  BY <1>1, <1>2, <1>3

\* A tick of the advertising timer.
LEMMA AdvertiseKeeps ==
  ASSUME IndInv, NEW p \in PeerId, Advertise(p)
  PROVE  IndInv'
<1> USE DEF IndInv
<1>1. UNCHANGED <<status, transactions, self_offsets, offsets, commited_offsets, replies>>
  BY DEF Advertise, held_vars, commit_vars
<1>2. PICK chosen \in [DelayedRanges(self_offsets[p], offsets[p]) -> PeerId] :
        requests' = Send(requests,
          {[from |-> p, to |-> d.to, ids |-> d.ids] :
             d \in self_delays(transactions[p], self_offsets[p], offsets[p], chosen)})
  BY DEF Advertise
<1>3. ASSUME NEW m \in requests', m \notin requests
      PROVE  m \in RequestMsg /\ m.ids \subseteq transactions[m.to]
  <2>1. PICK d \in self_delays(transactions[p], self_offsets[p], offsets[p], chosen) :
          m = [from |-> p, to |-> d.to, ids |-> d.ids]
    BY <1>2, <1>3 DEF Send
  <2>2. d.to \in PeerId /\ d.ids \subseteq transactions[d.to]
    BY DelaysAreHeld
  <2>3. transactions[d.to] \subseteq TxIds
    BY <2>2 DEF TypeOK
  <2>. QED  BY <2>1, <2>2, <2>3 DEF RequestMsg
<1>4. ASSUME NEW m \in states', m \notin states
      PROVE  m \in StateMsg /\ m.from = p /\ m.offsets = self_offsets[p]
  <2>1. PICK q \in PeerId : m = [from |-> p, to |-> q, offsets |-> self_offsets[p]]
    BY <1>4 DEF Advertise, Send
  <2>. QED  BY <2>1 DEF StateMsg, TypeOK
<1> DEFINE new == recalculate_consensus_offsets(consensus_offset[p], offsets[p], consensus_nodes)
<1>5. /\ new \in [KeyRange -> MaybeOffset]
      /\ \A range \in KeyRange :
           \/ new[range] = consensus_offset[p][range]
           \/ /\ new[range] \in KeyOffset
              /\ Cardinality(Reached(offsets[p][range], new[range])) >= consensus_nodes
  BY ClusterAssumption, RecalculatedConsensus DEF TypeOK
<1>6. consensus_offset' = [consensus_offset EXCEPT ![p] = new]
  BY DEF Advertise
<1> HIDE DEF new
<1>7. TypeOK'
  BY <1>1, <1>3, <1>4, <1>5, <1>6 DEF TypeOK
<1>8. SelfOffsetsAreHeld' /\ TableIsHeld' /\ NoNodeHangs' /\ CommitedIsReplicated'
  BY <1>1 DEF SelfOffsetsAreHeld, TableIsHeld, NoNodeHangs, CommitedIsReplicated,
              Holders, Holds
<1>9. StatesAreHeld'
  BY <1>1, <1>4 DEF StatesAreHeld, SelfOffsetsAreHeld, Holds
<1>10. RequestsCanBeAnswered'
  BY <1>1, <1>3 DEF RequestsCanBeAnswered
<1>11. ConsensusIsReplicated'
  <2> SUFFICES ASSUME NEW q \in PeerId, NEW range \in KeyRange,
                      consensus_offset'[q][range] # None
               PROVE  Cardinality(Holders(range, consensus_offset'[q][range])) >= consensus_nodes
    BY <1>1 DEF ConsensusIsReplicated, Holders, Holds
  <2>1. CASE consensus_offset'[q][range] = consensus_offset[q][range]
    BY <2>1 DEF ConsensusIsReplicated
  <2>2. CASE consensus_offset'[q][range] # consensus_offset[q][range]
    <3>1. q = p /\ consensus_offset'[q][range] = new[range]
      BY <1>6, <2>2 DEF TypeOK
    <3>2. /\ new[range] \in KeyOffset
          /\ Cardinality(Reached(offsets[p][range], new[range])) >= consensus_nodes
      BY <1>5, <2>2, <3>1
    <3>3. Reached(offsets[p][range], new[range]) \subseteq Holders(range, new[range])
      <4> SUFFICES ASSUME NEW r \in PeerId, offsets[p][range][r] >= new[range],
                          NEW o \in 0..new[range]
                   PROVE  unique_blob_id_from_range_and_offset(range, o) \in transactions[r]
        BY DEF Reached, Holders, Holds, TypeOK
      <4>1. o \in 0..offsets[p][range][r]
        <5>1. offsets[p][range][r] \in Int /\ new[range] \in Int
          BY <3>2, RangeKeyAssumption DEF TypeOK, MaybeOffset, KeyOffset, None
        <5>. QED  BY <5>1
      <4>. QED  BY <4>1 DEF TableIsHeld, Holds
    <3>4. /\ IsFiniteSet(Holders(range, new[range]))
          /\ Holders(range, new[range]) \subseteq PeerId
      BY ClusterAssumption, FS_Subset DEF Holders
    <3>5. /\ Cardinality(Reached(offsets[p][range], new[range]))
               <= Cardinality(Holders(range, new[range]))
          /\ IsFiniteSet(Reached(offsets[p][range], new[range]))
      BY <3>3, <3>4, FS_Subset
    <3>6. /\ Cardinality(Reached(offsets[p][range], new[range])) \in Nat
          /\ Cardinality(Holders(range, new[range])) \in Nat
      BY <3>4, <3>5, FS_CardinalityType
    <3>. QED  BY <3>1, <3>2, <3>5, <3>6, ClusterAssumption, SMT
  <2>. QED  BY <2>1, <2>2
<1>. QED
  BY <1>7, <1>8, <1>9, <1>10, <1>11

\* A consensus offset is the offset of an id that can be decoded: some peer
\* holds it.
LEMMA ConsensusIsHeld ==
  ASSUME IndInv, NEW p \in PeerId
  PROVE  Decodable(consensus_offset[p])
<1> SUFFICES ASSUME NEW range \in KeyRange, consensus_offset[p][range] # None
             PROVE  unique_blob_id_from_range_and_offset(range, consensus_offset[p][range])
                      \in UniqueBlobId
  BY DEF Decodable
<1> DEFINE o == consensus_offset[p][range]
<1>1. o \in KeyOffset /\ o \in 0..o
  BY RangeKeyAssumption DEF IndInv, TypeOK, MaybeOffset, KeyOffset
<1>2. Cardinality(Holders(range, o)) >= consensus_nodes
  BY DEF IndInv, ConsensusIsReplicated
<1>3. Holders(range, o) # {}
  <2>1. consensus_nodes \in Nat \ {0} /\ Cardinality({}) = 0
    BY ClusterAssumption, FS_EmptySet
  <2>. QED  BY <1>2, <2>1
<1>4. PICK q \in PeerId : Holds(q, range, o)
  BY <1>3 DEF Holders
<1>5. unique_blob_id_from_range_and_offset(range, o) \in transactions[q]
  BY <1>1, <1>4 DEF Holds
<1>6. transactions[q] \subseteq UniqueBlobId
  BY ClusterAssumption DEF IndInv, TypeOK
<1>. QED
  BY <1>1, <1>5, <1>6

\* What a node commits is what it took for confirmed at its last tick.
LEMMA CommitKeeps ==
  ASSUME IndInv, NEW p \in PeerId, Commit(p)
  PROVE  IndInv'
<1> USE DEF IndInv
<1> DEFINE new == CommitedAfter(commited_offsets[p],
                    calculate_epoch_increments(consensus_offset[p], commited_offsets[p]))
<1>1. UNCHANGED <<status, transactions, self_offsets, offsets, consensus_offset,
                  states, requests, replies>>
  BY DEF Commit, held_vars, net_vars
<1>2. commited_offsets' = [commited_offsets EXCEPT ![p] = new]
  BY DEF Commit
<1>3. /\ new \in [KeyRange -> MaybeOffset]
      /\ \A range \in KeyRange : \/ new[range] = commited_offsets[p][range]
                                 \/ new[range] = consensus_offset[p][range]
  <2>1. /\ consensus_offset[p] \in [KeyRange -> MaybeOffset]
        /\ commited_offsets[p] \in [KeyRange -> MaybeOffset]
    BY DEF TypeOK
  <2>2. Decodable(consensus_offset[p])
    BY ConsensusIsHeld
  <2>. QED  BY <2>1, <2>2, CommitedIsConsensus
<1> HIDE DEF new
<1>4. TypeOK'
  BY <1>1, <1>2, <1>3 DEF TypeOK
<1>5. CommitedIsReplicated'
  <2> SUFFICES ASSUME NEW q \in PeerId, NEW range \in KeyRange,
                      commited_offsets'[q][range] # None
               PROVE  Cardinality(Holders(range, commited_offsets'[q][range])) >= consensus_nodes
    BY <1>1 DEF CommitedIsReplicated, Holders, Holds
  <2>1. \/ commited_offsets'[q][range] = commited_offsets[q][range]
        \/ commited_offsets'[q][range] = consensus_offset[q][range]
    BY <1>2, <1>3 DEF TypeOK
  <2>. QED  BY <2>1 DEF ConsensusIsReplicated, CommitedIsReplicated
<1>6. /\ SelfOffsetsAreHeld' /\ StatesAreHeld' /\ TableIsHeld'
      /\ RequestsCanBeAnswered' /\ NoNodeHangs' /\ ConsensusIsReplicated'
  BY <1>1 DEF SelfOffsetsAreHeld, StatesAreHeld, TableIsHeld, RequestsCanBeAnswered,
              NoNodeHangs, ConsensusIsReplicated, Holders, Holds
<1>. QED
  BY <1>4, <1>5, <1>6

\* A batch makes its receiver hold more; every other statement is about what
\* peers hold and stays true. The messages in flight may lose the one that
\* was delivered.
LEMMA BatchKeeps ==
  ASSUME IndInv, NEW p \in PeerId, NEW txs \in SUBSET TxIds, Store(p, txs),
         UNCHANGED <<status, consensus_offset, commited_offsets, states, requests>>,
         replies' \subseteq replies
  PROVE  IndInv'
<1> USE DEF IndInv
<1>1. /\ transactions' \in [PeerId -> SUBSET TxIds]
      /\ \A q \in PeerId : transactions[q] \subseteq transactions'[q]
      /\ self_offsets' \in [PeerId -> [KeyRange -> MaybeOffset]]
      /\ offsets' \in [PeerId -> [KeyRange -> [PeerId -> MaybeOffset]]]
      /\ SelfOffsetsAreHeld'
      /\ TableIsHeld'
  BY StoreKeeps
<1>2. /\ \A q \in PeerId, range \in KeyRange, offset \in MaybeOffset :
           Holds(q, range, offset) => Holds(q, range, offset)'
      /\ \A range \in KeyRange, offset \in MaybeOffset :
           Cardinality(Holders(range, offset)) >= consensus_nodes
             => Cardinality(Holders(range, offset)') >= consensus_nodes
  BY <1>1, HoldingStays
<1>3. TypeOK'
  BY <1>1 DEF TypeOK
<1>4. StatesAreHeld'
  <2> SUFFICES ASSUME NEW m \in states, NEW range \in KeyRange
               PROVE  Holds(m.from, range, m.offsets[range])'
    BY DEF StatesAreHeld
  <2>1. m.from \in PeerId /\ m.offsets[range] \in MaybeOffset
    BY DEF TypeOK, StateMsg
  <2>. QED  BY <1>2, <2>1 DEF StatesAreHeld
<1>5. RequestsCanBeAnswered'
  <2>1. \A m \in requests : m.to \in PeerId
    BY DEF TypeOK, RequestMsg
  <2>. QED  BY <1>1, <2>1 DEF RequestsCanBeAnswered
<1>6. ConsensusIsReplicated'
  <2> SUFFICES ASSUME NEW q \in PeerId, NEW range \in KeyRange,
                      consensus_offset[q][range] # None
               PROVE  Cardinality(Holders(range, consensus_offset[q][range])') >= consensus_nodes
    BY DEF ConsensusIsReplicated, Holders, Holds
  <2>1. consensus_offset[q][range] \in MaybeOffset
    BY DEF TypeOK
  <2>2. Cardinality(Holders(range, consensus_offset[q][range])) >= consensus_nodes
    BY DEF ConsensusIsReplicated
  <2>. QED  BY <1>2, <2>1, <2>2
<1>7. CommitedIsReplicated'
  <2> SUFFICES ASSUME NEW q \in PeerId, NEW range \in KeyRange,
                      commited_offsets[q][range] # None
               PROVE  Cardinality(Holders(range, commited_offsets[q][range])') >= consensus_nodes
    BY DEF CommitedIsReplicated, Holders, Holds
  <2>1. commited_offsets[q][range] \in MaybeOffset
    BY DEF TypeOK
  <2>2. Cardinality(Holders(range, commited_offsets[q][range])) >= consensus_nodes
    BY DEF CommitedIsReplicated
  <2>. QED  BY <1>2, <2>1, <2>2
<1>8. NoNodeHangs'
  BY DEF NoNodeHangs
<1>. QED
  BY <1>1, <1>3, <1>4, <1>5, <1>6, <1>7, <1>8

\* A State message, however late, only writes into the table what its sender
\* holds.
LEMMA ReceiveStateKeeps ==
  ASSUME IndInv, NEW m \in states, ReceiveState(m)
  PROVE  IndInv'
<1> USE DEF IndInv
<1> DEFINE row == [range \in KeyRange |->
             IF m.offsets[range] = None THEN offsets[m.to][range]
             ELSE [offsets[m.to][range] EXCEPT ![m.from] = m.offsets[range]]]
<1>1. /\ UNCHANGED <<status, transactions, self_offsets, consensus_offset,
                     commited_offsets, requests, replies>>
      /\ states' \subseteq states
  BY DEF ReceiveState, Receive, held_vars, commit_vars
<1>2. offsets' = [offsets EXCEPT ![m.to] = row]
  BY DEF ReceiveState
<1>3. /\ m.from \in PeerId /\ m.to \in PeerId
      /\ \A range \in KeyRange : /\ m.offsets[range] \in MaybeOffset
                                 /\ Holds(m.from, range, m.offsets[range])
  BY DEF TypeOK, StateMsg, StatesAreHeld
<1>4. /\ row \in [KeyRange -> [PeerId -> MaybeOffset]]
      /\ \A range \in KeyRange, q \in PeerId : Holds(q, range, row[range][q])
  <2>1. \A range \in KeyRange : row[range] \in [PeerId -> MaybeOffset]
    BY <1>3 DEF TypeOK
  <2>2. ASSUME NEW range \in KeyRange, NEW q \in PeerId
        PROVE  \/ row[range][q] = offsets[m.to][range][q]
               \/ q = m.from /\ row[range][q] = m.offsets[range]
    BY <1>3 DEF TypeOK
  <2>. QED  BY <1>3, <2>1, <2>2 DEF TableIsHeld
<1> HIDE DEF row
<1>5. TypeOK'
  BY <1>1, <1>2, <1>4 DEF TypeOK
<1>6. TableIsHeld'
  <2> SUFFICES ASSUME NEW q \in PeerId, NEW s \in PeerId, NEW range \in KeyRange
               PROVE  Holds(s, range, offsets'[q][range][s])
    BY <1>1 DEF TableIsHeld, Holds
  <2>1. offsets'[q] = IF q = m.to THEN row ELSE offsets[q]
    BY <1>2 DEF TypeOK
  <2>. QED  BY <1>4, <2>1 DEF TableIsHeld
<1>7. /\ SelfOffsetsAreHeld' /\ StatesAreHeld' /\ RequestsCanBeAnswered'
      /\ NoNodeHangs' /\ ConsensusIsReplicated' /\ CommitedIsReplicated'
  BY <1>1 DEF SelfOffsetsAreHeld, StatesAreHeld, RequestsCanBeAnswered, NoNodeHangs,
              ConsensusIsReplicated, CommitedIsReplicated, Holders, Holds
<1>. QED
  BY <1>5, <1>6, <1>7

\* Steps that touch neither the maps of a node nor what is asked of it: starts,
\* crashes, losses, and a request that can be answered.
LEMMA OtherStepsKeep ==
  ASSUME IndInv,
         UNCHANGED <<transactions, self_offsets, offsets, consensus_offset, commited_offsets>>,
         status' \in [PeerId -> {"off", "running", "hung", "crashed"}],
         \A p \in PeerId : status'[p] # "hung",
         states' \subseteq states, requests' \subseteq requests, replies' \subseteq ReplyMsg
  PROVE  IndInv'
<1> USE DEF IndInv
<1>1. TypeOK' /\ NoNodeHangs'
  BY DEF TypeOK, NoNodeHangs
<1>2. SelfOffsetsAreHeld' /\ TableIsHeld'
  BY DEF SelfOffsetsAreHeld, TableIsHeld, Holds
<1>3. StatesAreHeld'
  BY DEF StatesAreHeld, Holds
<1>4. RequestsCanBeAnswered'
  BY DEF RequestsCanBeAnswered
<1>5. ConsensusIsReplicated' /\ CommitedIsReplicated'
  BY DEF ConsensusIsReplicated, CommitedIsReplicated, Holders, Holds
<1>. QED
  BY <1>1, <1>2, <1>3, <1>4, <1>5

\* Nothing is held and nothing is claimed at the start (App::new).
LEMMA IndInvInit == Init => IndInv
<1> SUFFICES ASSUME Init PROVE IndInv
  OBVIOUS
<1> USE DEF Init
<1>1. None \in MaybeOffset /\ 0..None = {}
  BY SMT DEF MaybeOffset, None
<1>2. TypeOK
  BY <1>1 DEF TypeOK
<1>3. SelfOffsetsAreHeld /\ TableIsHeld
  BY <1>1 DEF SelfOffsetsAreHeld, TableIsHeld, Holds
<1>4. StatesAreHeld /\ RequestsCanBeAnswered /\ NoNodeHangs
  BY DEF StatesAreHeld, RequestsCanBeAnswered, NoNodeHangs
<1>5. ConsensusIsReplicated /\ CommitedIsReplicated
  BY DEF ConsensusIsReplicated, CommitedIsReplicated
<1>. QED
  BY <1>2, <1>3, <1>4, <1>5 DEF IndInv

\* Every turn of a node's loop, and every event of the network, keeps the
\* invariant.
LEMMA IndInvStep == IndInv /\ [Next]_vars => IndInv'
<1> SUFFICES ASSUME IndInv, [Next]_vars PROVE IndInv'
  OBVIOUS
<1> USE DEF held_vars, commit_vars, net_vars
<1>0. TypeOK /\ NoNodeHangs
  BY DEF IndInv
<1>1. ASSUME NEW p \in PeerId, NEW id \in TxIds, NewTransaction(p, id)
      PROVE  IndInv'
  BY <1>1, BatchKeeps DEF NewTransaction
<1>2. ASSUME NEW m \in replies, ReceiveMissingTx(m)
      PROVE  IndInv'
  <2>1. m.to \in PeerId /\ m.txs \in SUBSET TxIds
    BY <1>0 DEF TypeOK, ReplyMsg
  <2>. QED  BY <1>2, <2>1, BatchKeeps DEF ReceiveMissingTx, Receive
<1>3. ASSUME NEW m \in states, ReceiveState(m)
      PROVE  IndInv'
  BY <1>3, ReceiveStateKeeps
<1>4. ASSUME NEW m \in requests, ReceiveRequest(m)
      PROVE  IndInv'
  <2>1. m.ids \subseteq transactions[m.to]
    BY DEF IndInv, RequestsCanBeAnswered
  <2>2. m.from \in PeerId /\ m.ids \in SUBSET TxIds
    BY <1>0 DEF TypeOK, RequestMsg
  <2>3. status' = status /\ replies' = Send(replies, {[to |-> m.from, txs |-> m.ids]})
    BY <1>4, <2>1 DEF ReceiveRequest
  <2>4. replies' \subseteq ReplyMsg
    BY <1>0, <2>2, <2>3 DEF TypeOK, Send, ReplyMsg
  <2>5. UNCHANGED <<transactions, self_offsets, offsets, consensus_offset,
                    commited_offsets, states>> /\ requests' \subseteq requests
    BY <1>4 DEF ReceiveRequest, Receive
  <2>. QED  BY <1>0, <2>3, <2>4, <2>5, OtherStepsKeep DEF TypeOK, NoNodeHangs
<1>5. ASSUME NEW p \in PeerId, Advertise(p)
      PROVE  IndInv'
  BY <1>5, AdvertiseKeeps
<1>6. ASSUME NEW p \in PeerId, Commit(p)
      PROVE  IndInv'
  BY <1>6, CommitKeeps
<1>7. ASSUME NEW p \in PeerId, Start(p)
      PROVE  IndInv'
  BY <1>0, <1>7, OtherStepsKeep DEF Start, TypeOK, NoNodeHangs
<1>8. ASSUME NEW p \in PeerId, Crash(p)
      PROVE  IndInv'
  BY <1>0, <1>8, OtherStepsKeep DEF Crash, TypeOK, NoNodeHangs
<1>9. CASE Lose
  BY <1>0, <1>9, OtherStepsKeep DEF Lose, TypeOK, NoNodeHangs
<1>10. CASE UNCHANGED vars
  BY <1>0, <1>10, OtherStepsKeep DEF vars, TypeOK, NoNodeHangs
<1>. QED
  BY <1>1, <1>2, <1>3, <1>4, <1>5, <1>6, <1>7, <1>8, <1>9, <1>10 DEF Next

-----------------------------------------------------------------------------
\* The invariant holds throughout.
THEOREM IndInvHolds == Spec => []IndInv
  BY IndInvInit, IndInvStep, PTL DEF Spec

\* The maps and the messages always have their types.
THEOREM TypeCorrect == Spec => []TypeOK
  BY IndInvHolds, PTL DEF IndInv

\* A node's own offsets never cover a transaction it does not hold, whatever
\* order, batches and ranges the transactions come in (update_self_offsets).
THEOREM OwnOffsetsAreHeld == Spec => []SelfOffsetsAreHeld
  BY IndInvHolds, PTL DEF IndInv

\* No message order makes a table say of a peer more than it holds
\* (handle_inbox_message, State).
THEOREM TablesAreHeld == Spec => []TableIsHeld
  BY IndInvHolds, PTL DEF IndInv

\* A node is only asked for what it holds (self_delays).
THEOREM RequestsAreForTheHeld == Spec => []RequestsCanBeAnswered
  BY IndInvHolds, PTL DEF IndInv

\* The loop that answers a request always ends (handle_inbox_message,
\* RequestMissingTxs).
THEOREM NodesNeverHang == Spec => []NoNodeHangs
  BY IndInvHolds, PTL DEF IndInv

\* A consensus offset is held by consensus_nodes peers
\* (recalculate_consensus_offsets).
THEOREM ConfirmedIsReplicated == Spec => []ConsensusIsReplicated
  BY IndInvHolds, PTL DEF IndInv

\* All that a node commits is held by consensus_nodes peers, though the offset
\* it commits may be of an earlier tick (commit_epoch_if_needed).
THEOREM LogIsReplicated == Spec => []CommitedIsReplicated
  BY IndInvHolds, PTL DEF IndInv

-----------------------------------------------------------------------------
(***************************************************************************)
(* The node's own row of its table.                                        *)
(***************************************************************************)

\* Nobody sends its offsets to itself: no message writes the receiver's row.
StatesGoToOthers == \A m \in states : m.from # m.to

\* update_self_offsets returns every range it moves, and move_offset_pointer
\* writes those into the row.
LEMMA StoreKeepsRow ==
  ASSUME TypeOK, OwnRowIsCurrent, NEW p \in PeerId, NEW txs, Store(p, txs)
  PROVE  OwnRowIsCurrent'
<1>1. PICK rank \in Ranks(txs) :
        LET moved == update_self_offsets(self_offsets[p], transactions[p], txs, rank)
        IN  /\ transactions' = [transactions EXCEPT ![p] = @ \cup txs]
            /\ self_offsets' = [self_offsets EXCEPT ![p] = moved]
            /\ offsets' = [offsets EXCEPT ![p] =
                 move_offset_pointers(@, p, UpdatedRanges(self_offsets[p], txs), moved)]
  BY DEF Store
<1> DEFINE moved   == update_self_offsets(self_offsets[p], transactions[p], txs, rank)
           updated == UpdatedRanges(self_offsets[p], txs)
           row     == move_offset_pointers(offsets[p], p, updated, moved)
<1>2. self_offsets' = [self_offsets EXCEPT ![p] = moved] /\ offsets' = [offsets EXCEPT ![p] = row]
  BY <1>1
<1>3. ASSUME NEW range \in KeyRange PROVE row[range][p] = moved[range]
  <2>1. offsets[p][range] \in [PeerId -> MaybeOffset]
    BY DEF TypeOK
  <2>2. range \notin updated => moved[range] = self_offsets[p][range]
    BY DEF update_self_offsets
  <2>3. offsets[p][range][p] = self_offsets[p][range]
    BY DEF OwnRowIsCurrent
  <2> HIDE DEF moved, updated
  <2>. QED  BY <2>1, <2>2, <2>3 DEF move_offset_pointers
<1> HIDE DEF moved, row
<1>4. ASSUME NEW q \in PeerId, NEW range \in KeyRange
      PROVE  offsets'[q][range][q] = self_offsets'[q][range]
  <2>1. /\ offsets'[q] = IF q = p THEN row ELSE offsets[q]
        /\ self_offsets'[q] = IF q = p THEN moved ELSE self_offsets[q]
    BY <1>2 DEF TypeOK
  <2>. QED  BY <1>3, <2>1 DEF OwnRowIsCurrent
<1>. QED
  BY <1>4 DEF OwnRowIsCurrent

\* Consensus always counts a node by the offsets it has now.
THEOREM OwnRowsAreCurrent == Spec => []OwnRowIsCurrent
<1>1. Init => StatesGoToOthers /\ OwnRowIsCurrent
  BY DEF Init, StatesGoToOthers, OwnRowIsCurrent
<1>2. TypeOK /\ StatesGoToOthers /\ OwnRowIsCurrent /\ [Next]_vars
        => StatesGoToOthers' /\ OwnRowIsCurrent'
  <2> SUFFICES ASSUME TypeOK, StatesGoToOthers, OwnRowIsCurrent, [Next]_vars
               PROVE  StatesGoToOthers' /\ OwnRowIsCurrent'
    OBVIOUS
  <2> USE DEF held_vars, commit_vars, net_vars
  <2>1. ASSUME NEW p \in PeerId, NEW id \in TxIds, NewTransaction(p, id)
        PROVE  StatesGoToOthers' /\ OwnRowIsCurrent'
    BY <2>1, StoreKeepsRow DEF NewTransaction, StatesGoToOthers
  <2>2. ASSUME NEW m \in replies, ReceiveMissingTx(m)
        PROVE  StatesGoToOthers' /\ OwnRowIsCurrent'
    <3>1. m.to \in PeerId
      BY DEF TypeOK, ReplyMsg
    <3>. QED  BY <2>2, <3>1, StoreKeepsRow DEF ReceiveMissingTx, StatesGoToOthers
  <2>3. ASSUME NEW m \in states, ReceiveState(m)
        PROVE  StatesGoToOthers' /\ OwnRowIsCurrent'
    <3>1. m.from \in PeerId /\ m.to \in PeerId /\ m.from # m.to
      BY DEF TypeOK, StateMsg, StatesGoToOthers
    <3>2. StatesGoToOthers'
      BY <2>3 DEF ReceiveState, Receive, StatesGoToOthers
    <3>3. self_offsets' = self_offsets
      BY <2>3 DEF ReceiveState
    <3>4. ASSUME NEW q \in PeerId, NEW range \in KeyRange
          PROVE  offsets'[q][range][q] = offsets[q][range][q]
      <4>1. q # m.to => offsets'[q] = offsets[q]
        BY <2>3 DEF ReceiveState, TypeOK
      <4>2. offsets'[m.to][range]
              = IF m.offsets[range] = None THEN offsets[m.to][range]
                ELSE [offsets[m.to][range] EXCEPT ![m.from] = m.offsets[range]]
        BY <2>3, <3>1 DEF ReceiveState, TypeOK
      <4>3. offsets[m.to][range] \in [PeerId -> MaybeOffset]
        BY <3>1 DEF TypeOK
      <4>. QED  BY <3>1, <4>1, <4>2, <4>3
    <3>. QED  BY <3>2, <3>3, <3>4 DEF OwnRowIsCurrent
  <2>4. ASSUME NEW p \in PeerId, Advertise(p)
        PROVE  StatesGoToOthers' /\ OwnRowIsCurrent'
    BY <2>4 DEF Advertise, Send, StatesGoToOthers, OwnRowIsCurrent
  <2>5. ASSUME UNCHANGED <<self_offsets, offsets>>, states' \subseteq states
        PROVE  StatesGoToOthers' /\ OwnRowIsCurrent'
    BY <2>5 DEF StatesGoToOthers, OwnRowIsCurrent
  <2>6. ASSUME NEW m \in requests, ReceiveRequest(m)
        PROVE  StatesGoToOthers' /\ OwnRowIsCurrent'
    BY <2>5, <2>6 DEF ReceiveRequest
  <2>7. ASSUME NEW p \in PeerId, Commit(p) \/ Start(p) \/ Crash(p)
        PROVE  StatesGoToOthers' /\ OwnRowIsCurrent'
    BY <2>5, <2>7 DEF Commit, Start, Crash
  <2>8. CASE Lose \/ UNCHANGED vars
    BY <2>5, <2>8 DEF Lose, vars
  <2>. QED
    BY <2>1, <2>2, <2>3, <2>4, <2>6, <2>7, <2>8 DEF Next
<1>. QED
  BY <1>1, <1>2, TypeCorrect, PTL DEF Spec

-----------------------------------------------------------------------------
(***************************************************************************)
(* Offsets while no walk leaves its range.                                 *)
(***************************************************************************)

\* Nobody sends both the last transaction of a range and the first of the next.
RangesStayApart == NoWayOut(TxIds)

\* A batch moves the pointers of its receiver forwards, and as far as they go.
LEMMA StoreAdvances ==
  ASSUME RangesStayApart, IndInv, SelfOffsetsAreMaximal,
         NEW p \in PeerId, NEW txs \in SUBSET TxIds, Store(p, txs)
  PROVE  /\ SelfOffsetsAreMaximal'
         /\ \A q \in PeerId, range \in KeyRange :
              self_offsets'[q][range] >= self_offsets[q][range]
<1>1. PICK rank \in Ranks(txs) :
        LET moved == update_self_offsets(self_offsets[p], transactions[p], txs, rank)
        IN  /\ transactions' = [transactions EXCEPT ![p] = @ \cup txs]
            /\ self_offsets' = [self_offsets EXCEPT ![p] = moved]
  BY DEF Store
<1> DEFINE moved == update_self_offsets(self_offsets[p], transactions[p], txs, rank)
<1>2. /\ self_offsets[p] \in [KeyRange -> MaybeOffset]
      /\ transactions[p] \in SUBSET UniqueBlobId
      /\ txs \in SUBSET UniqueBlobId
      /\ transactions[p] \cup txs \subseteq TxIds
  BY ClusterAssumption DEF IndInv, TypeOK
<1>3. \A range \in KeyRange : \A o \in 0..self_offsets[p][range] :
        unique_blob_id_from_range_and_offset(range, o) \in transactions[p]
  BY DEF IndInv, SelfOffsetsAreHeld, Holds
<1>4. NoWayOut(transactions[p] \cup txs)
  BY <1>2 DEF RangesStayApart, NoWayOut
<1>5. ASSUME NEW range \in KeyRange
      PROVE  /\ moved[range] >= self_offsets[p][range]
             /\ unique_blob_id_from_range_and_offset(range, moved[range] + 1)
                  \notin transactions[p] \cup txs
  <2>1. unique_blob_id_from_range_and_offset(range, self_offsets[p][range] + 1)
          \notin transactions[p]
    BY DEF SelfOffsetsAreMaximal
  <2>. QED  BY <1>2, <1>3, <1>4, <2>1, UpdatedOffsetsAdvance
<1> HIDE DEF moved
<1>6. ASSUME NEW q \in PeerId, NEW range \in KeyRange
      PROVE  /\ self_offsets'[q][range] >= self_offsets[q][range]
             /\ unique_blob_id_from_range_and_offset(range, self_offsets'[q][range] + 1)
                  \notin transactions'[q]
  <2>1. /\ self_offsets'[q] = IF q = p THEN moved ELSE self_offsets[q]
        /\ transactions'[q] = IF q = p THEN transactions[p] \cup txs ELSE transactions[q]
    BY <1>1 DEF IndInv, TypeOK, moved
  <2>2. CASE q = p
    BY <1>5, <2>1, <2>2
  <2>3. CASE q # p
    <3>1. self_offsets[q][range] >= self_offsets[q][range]
      <4>1. self_offsets[q][range] \in Int
        BY RangeKeyAssumption, SMT DEF IndInv, TypeOK, MaybeOffset, KeyOffset, None
      <4>. QED  BY <4>1
    <3>. QED  BY <2>1, <2>3, <3>1 DEF SelfOffsetsAreMaximal
  <2>. QED  BY <2>2, <2>3
<1>. QED
  BY <1>6 DEF SelfOffsetsAreMaximal

\* What StoreAdvances says of a batch is so of every step.
LEMMA StepAdvances ==
  ASSUME RangesStayApart, IndInv, SelfOffsetsAreMaximal, [Next]_vars
  PROVE  /\ SelfOffsetsAreMaximal'
         /\ \A q \in PeerId, range \in KeyRange :
              self_offsets'[q][range] >= self_offsets[q][range]
<1> USE DEF held_vars
<1>1. ASSUME NEW p \in PeerId, NEW id \in TxIds, NewTransaction(p, id)
      PROVE  /\ SelfOffsetsAreMaximal'
             /\ \A q \in PeerId, range \in KeyRange :
                  self_offsets'[q][range] >= self_offsets[q][range]
  BY <1>1, StoreAdvances DEF NewTransaction
<1>2. ASSUME NEW m \in replies, ReceiveMissingTx(m)
      PROVE  /\ SelfOffsetsAreMaximal'
             /\ \A q \in PeerId, range \in KeyRange :
                  self_offsets'[q][range] >= self_offsets[q][range]
  <2>1. m.to \in PeerId /\ m.txs \in SUBSET TxIds
    BY DEF IndInv, TypeOK, ReplyMsg
  <2>. QED  BY <1>2, <2>1, StoreAdvances DEF ReceiveMissingTx
<1>3. ASSUME UNCHANGED <<transactions, self_offsets>>
      PROVE  /\ SelfOffsetsAreMaximal'
             /\ \A q \in PeerId, range \in KeyRange :
                  self_offsets'[q][range] >= self_offsets[q][range]
  <2>1. \A q \in PeerId, range \in KeyRange : self_offsets[q][range] \in Int
    BY RangeKeyAssumption, SMT DEF IndInv, TypeOK, MaybeOffset, KeyOffset, None
  <2>. QED  BY <1>3, <2>1 DEF SelfOffsetsAreMaximal
<1>4. ASSUME \/ \E p \in PeerId : Advertise(p) \/ Commit(p) \/ Start(p) \/ Crash(p)
             \/ \E m \in states : ReceiveState(m)
             \/ \E m \in requests : ReceiveRequest(m)
             \/ Lose \/ UNCHANGED vars
      PROVE  UNCHANGED <<transactions, self_offsets>>
  BY <1>4 DEF Advertise, Commit, Start, Crash, ReceiveState, ReceiveRequest, Lose, vars
<1>. QED
  BY <1>1, <1>2, <1>3, <1>4 DEF Next

\* While no walk leaves its range, a node never waits for a transaction that it
\* already holds, in whatever order they came (update_self_offsets).
THEOREM OwnOffsetsAreMaximal ==
  ASSUME RangesStayApart PROVE Spec => []SelfOffsetsAreMaximal
<1>1. Init => SelfOffsetsAreMaximal
  BY DEF Init, SelfOffsetsAreMaximal
<1>2. IndInv /\ SelfOffsetsAreMaximal /\ [Next]_vars => SelfOffsetsAreMaximal'
  BY StepAdvances
<1>. QED
  BY <1>1, <1>2, IndInvHolds, PTL DEF Spec

\* While no walk leaves its range, no batch, repeated or late, takes back an offset
\* the node has told the others (update_self_offsets).
THEOREM OffsetsOnlyGrow ==
  ASSUME RangesStayApart PROVE Spec => OffsetsNeverRegress
<1>1. IndInv /\ SelfOffsetsAreMaximal /\ [Next]_vars
        => \A p \in PeerId, range \in KeyRange :
             self_offsets'[p][range] >= self_offsets[p][range]
  BY StepAdvances
<1>. QED
  BY <1>1, IndInvHolds, OwnOffsetsAreMaximal, PTL DEF Spec, OffsetsNeverRegress

-----------------------------------------------------------------------------
(***************************************************************************)
(* A node of the cluster commits as EpochCommit says.                      *)
(***************************************************************************)

\* The state and the steps of EpochCommit, read off the maps of one node.
NodeState ==
  <<consensus_offset[node], commited_offsets[node], epochs[node], sequence[node]>>

NodeRecalculates ==
  /\ consensus_offset'[node] \in [KeyRange -> MaybeOffset]
  /\ \A range \in KeyRange :
       \/ /\ consensus_offset'[node][range] \in KeyOffset
          /\ unique_blob_id_from_range_and_offset(range, consensus_offset'[node][range])
               \in UniqueBlobId
       \/ consensus_offset'[node][range] = None /\ consensus_offset[node][range] = None
  /\ UNCHANGED <<commited_offsets[node], epochs[node], sequence[node]>>

NodeCommits ==
  LET increments == calculate_epoch_increments(consensus_offset[node], commited_offsets[node])
  IN  /\ Len(epochs[node]) < MaxEpochs
      /\ sequence'[node] = new_epoch(sequence[node], increments)
      /\ commited_offsets'[node] = CommitedAfter(commited_offsets[node], increments)
      /\ epochs'[node] = Append(epochs[node], increments)
      /\ UNCHANGED consensus_offset[node]

\* Every peer has its epochs and its log, one that never runs too.
EveryNodeHasALog == DOMAIN epochs = PeerId /\ DOMAIN sequence = PeerId

LEMMA LogsStay == IndInv /\ EveryNodeHasALog /\ [Next]_vars => EveryNodeHasALog'
<1> SUFFICES ASSUME IndInv, EveryNodeHasALog, [Next]_vars PROVE EveryNodeHasALog'
  OBVIOUS
<1>1. UNCHANGED <<epochs, sequence>> => EveryNodeHasALog'
  BY DEF EveryNodeHasALog
<1>2. ASSUME NEW p \in PeerId, Commit(p) PROVE EveryNodeHasALog'
  BY <1>2 DEF Commit, EveryNodeHasALog
<1>. QED
  BY <1>1, <1>2 DEF Next, vars, commit_vars, NewTransaction, Advertise, Start, Crash,
                    ReceiveState, ReceiveRequest, ReceiveMissingTx, Lose

ConsensusIsDecodable ==
  \A range \in KeyRange : consensus_offset[node][range] # None =>
    /\ consensus_offset[node][range] \in KeyOffset
    /\ unique_blob_id_from_range_and_offset(range, consensus_offset[node][range])
         \in UniqueBlobId

LEMMA TheNodeDecodes == IndInv => ConsensusIsDecodable
<1> SUFFICES ASSUME IndInv PROVE ConsensusIsDecodable
  OBVIOUS
<1>1. Decodable(consensus_offset[node])
  BY ConsensusIsHeld, ClusterRefinementAssumption
<1>2. consensus_offset[node] \in [KeyRange -> MaybeOffset]
  BY ClusterRefinementAssumption DEF IndInv, TypeOK
<1>. QED
  BY <1>1, <1>2 DEF ConsensusIsDecodable, Decodable, MaybeOffset

LEMMA AdvertiseRecalculates ==
  ASSUME IndInv, IndInv', ConsensusIsDecodable', Advertise(node)
  PROVE  NodeRecalculates
<1>1. /\ consensus_offset'[node] \in [KeyRange -> MaybeOffset]
      /\ consensus_offset \in [PeerId -> [KeyRange -> MaybeOffset]]
  BY ClusterRefinementAssumption DEF IndInv, TypeOK
<1>2. consensus_offset'[node]
        = recalculate_consensus_offsets(consensus_offset[node], offsets[node], consensus_nodes)
  BY <1>1, ClusterRefinementAssumption DEF Advertise
<1>3. \A range \in KeyRange :
        consensus_offset'[node][range] = None => consensus_offset[node][range] = None
  BY <1>2 DEF recalculate_consensus_offsets
<1>4. \A range \in KeyRange : consensus_offset'[node][range] # None =>
        /\ consensus_offset'[node][range] \in KeyOffset
        /\ unique_blob_id_from_range_and_offset(range, consensus_offset'[node][range])
             \in UniqueBlobId
  BY DEF ConsensusIsDecodable
<1>5. UNCHANGED <<commited_offsets, epochs, sequence>>
  BY DEF Advertise, commit_vars
<1>. QED
  BY <1>1, <1>3, <1>4, <1>5 DEF NodeRecalculates

\* Each step of the cluster is a step of the node's commit path, or leaves it
\* alone.
LEMMA NodeSteps ==
  ASSUME IndInv, IndInv', EveryNodeHasALog, ConsensusIsDecodable', [Next]_vars
  PROVE  NodeRecalculates \/ NodeCommits \/ UNCHANGED NodeState
<1>1. /\ node \in PeerId
      /\ DOMAIN consensus_offset = PeerId /\ DOMAIN commited_offsets = PeerId
      /\ DOMAIN epochs = PeerId /\ DOMAIN sequence = PeerId
  BY ClusterRefinementAssumption DEF IndInv, TypeOK, EveryNodeHasALog
<1>2. ASSUME NEW p \in PeerId, Advertise(p)
      PROVE  NodeRecalculates \/ UNCHANGED NodeState
  <2>1. CASE p = node
    BY <1>2, <2>1, AdvertiseRecalculates
  <2>2. CASE p # node
    BY <1>1, <1>2, <2>2 DEF Advertise, commit_vars, NodeState
  <2>. QED  BY <2>1, <2>2
<1>3. ASSUME NEW p \in PeerId, Commit(p)
      PROVE  NodeCommits \/ UNCHANGED NodeState
  <2>1. CASE p = node
    BY <1>1, <1>3, <2>1 DEF Commit, NodeCommits
  <2>2. CASE p # node
    BY <1>1, <1>3, <2>2 DEF Commit, NodeState
  <2>. QED  BY <2>1, <2>2
<1>4. UNCHANGED <<consensus_offset, commit_vars>> => UNCHANGED NodeState
  BY DEF commit_vars, NodeState
<1>. QED
  BY <1>2, <1>3, <1>4 DEF Next, vars, NewTransaction, Start, Crash,
                          ReceiveState, ReceiveRequest, ReceiveMissingTx, Lose

\* The operators of EpochCommit are those of Cluster.
LEMMA SameConstants ==
  /\ Node!KeyRange = KeyRange /\ Node!KeyOffset = KeyOffset
  /\ Node!UniqueBlobId = UniqueBlobId /\ Node!None = None
  /\ Node!MaybeOffset = MaybeOffset
  /\ \A S : Node!Cardinality(S) = Cardinality(S)
BY DEF KeyRange, Node!KeyRange, KeyOffset, Node!KeyOffset, UniqueBlobId, Node!UniqueBlobId,
       None, Node!None, MaybeOffset, Node!MaybeOffset, Cardinality, Node!Cardinality

LEMMA SameIds ==
  /\ \A range, offset : Node!unique_blob_id_from_range_and_offset(range, offset)
                          = unique_blob_id_from_range_and_offset(range, offset)
  /\ \A id : Node!range_from_unique_blob_id(id) = range_from_unique_blob_id(id)
  /\ \A id : Node!offset_from_unique_blob_id(id) = offset_from_unique_blob_id(id)
  /\ \A x : Node!iter(x) = iter(x)
BY DEF unique_blob_id_from_range_and_offset, Node!unique_blob_id_from_range_and_offset,
       OutOfRange, Node!OutOfRange, UniqueBlobId, Node!UniqueBlobId,
       range_from_unique_blob_id, Node!range_from_unique_blob_id,
       offset_from_unique_blob_id, Node!offset_from_unique_blob_id,
       iter, Node!iter, ids_count, Node!ids_count

LEMMA SameIncrements ==
  ASSUME NEW c, NEW d
  PROVE  Node!calculate_epoch_increments(c, d) = calculate_epoch_increments(c, d)
BY SameConstants, SameIds
   DEF calculate_epoch_increments, Node!calculate_epoch_increments,
       new_from_range_and_offsets, Node!new_from_range_and_offsets,
       IncrementStart, Node!IncrementStart

LEMMA SameCommited ==
  ASSUME NEW d, NEW I
  PROVE  Node!CommitedAfter(d, I) = CommitedAfter(d, I)
BY DEF CommitedAfter, Node!CommitedAfter, KeyRange, Node!KeyRange,
       OutOfRange, Node!OutOfRange, UniqueBlobId, Node!UniqueBlobId,
       range_from_unique_blob_id, Node!range_from_unique_blob_id,
       offset_from_unique_blob_id, Node!offset_from_unique_blob_id

LEMMA SameLog ==
  ASSUME NEW log, NEW I
  PROVE  Node!new_epoch(log, I) = new_epoch(log, I)
<1>1. \A S : Node!SetToSeqs(S) = SetToSeqs(S)
  BY SameConstants DEF SetToSeqs, Node!SetToSeqs
<1>2. Node!sorted(I) = sorted(I)
  BY <1>1 DEF sorted, Node!sorted
<1>3. \A seqs : Node!FlattenSeq(seqs) = FlattenSeq(seqs)
  BY DEF FlattenSeq, Node!FlattenSeq
<1>. QED
  BY <1>2, <1>3, SameIds DEF new_epoch, Node!new_epoch

\* Every node of the cluster implements EpochCommit, whatever the network does
\* to its messages and whoever crashes.
THEOREM EachNodeImplementsEpochCommit == Spec => EveryNodeCommits
<1>1. Init => Node!Init /\ EveryNodeHasALog
  BY SameConstants, ClusterRefinementAssumption DEF Init, Node!Init, EveryNodeHasALog
<1>2. NodeRecalculates => Node!Recalculate
  BY SameConstants, SameIds DEF NodeRecalculates, Node!Recalculate, Node!OffsetsOf
<1>3. NodeCommits => Node!commit_epoch_if_needed
  BY SameIncrements, SameCommited, SameLog DEF NodeCommits, Node!commit_epoch_if_needed
<1>4. UNCHANGED NodeState => UNCHANGED Node!vars
  BY DEF NodeState, Node!vars
<1>5. IndInv /\ IndInv' /\ EveryNodeHasALog /\ ConsensusIsDecodable' /\ [Next]_vars
        => [Node!Next]_(Node!vars)
  BY <1>2, <1>3, <1>4, NodeSteps DEF Node!Next
<1>. QED
  BY <1>1, <1>5, IndInvInit, IndInvStep, LogsStay, TheNodeDecodes, PTL
     DEF Spec, EveryNodeCommits, Node!Spec

-----------------------------------------------------------------------------
(***************************************************************************)
(* What a node has put in its log is not lost with it.                     *)
(***************************************************************************)

\* The theorems of EpochCommit, at a node of the cluster.
NodeLog == INSTANCE EpochCommitProofs WITH
             consensus_offset <- consensus_offset[node],
             commited_offsets <- commited_offsets[node],
             epochs <- epochs[node],
             sequence <- sequence[node]

LEMMA SameCommitPath == Node!Spec => NodeLog!Spec
<1>1. Node!Init => NodeLog!Init
  BY DEF Node!Init, NodeLog!Init, Node!KeyRange, NodeLog!KeyRange, Node!None, NodeLog!None
<1>2. UNCHANGED Node!vars => UNCHANGED NodeLog!vars
  BY DEF Node!vars, NodeLog!vars
<1>3. Node!Recalculate => NodeLog!Recalculate
  BY DEF Node!Recalculate, NodeLog!Recalculate, Node!KeyRange, NodeLog!KeyRange,
         Node!None, NodeLog!None, Node!MaybeOffset, NodeLog!MaybeOffset,
         Node!KeyOffset, NodeLog!KeyOffset, Node!OffsetsOf, NodeLog!OffsetsOf,
         Node!UniqueBlobId, NodeLog!UniqueBlobId,
         Node!unique_blob_id_from_range_and_offset,
         NodeLog!unique_blob_id_from_range_and_offset
<1>4. Node!calculate_epoch_increments(consensus_offset[node], commited_offsets[node])
        = NodeLog!calculate_epoch_increments(consensus_offset[node], commited_offsets[node])
  BY DEF Node!calculate_epoch_increments, NodeLog!calculate_epoch_increments,
         Node!KeyRange, NodeLog!KeyRange, Node!None, NodeLog!None,
         Node!new_from_range_and_offsets, NodeLog!new_from_range_and_offsets,
         Node!IncrementStart, NodeLog!IncrementStart,
         Node!unique_blob_id_from_range_and_offset,
         NodeLog!unique_blob_id_from_range_and_offset
<1>5. ASSUME NEW I
      PROVE  Node!CommitedAfter(commited_offsets[node], I)
               = NodeLog!CommitedAfter(commited_offsets[node], I)
  BY DEF Node!CommitedAfter, NodeLog!CommitedAfter, Node!KeyRange, NodeLog!KeyRange,
         Node!OutOfRange, NodeLog!OutOfRange, Node!UniqueBlobId, NodeLog!UniqueBlobId,
         Node!range_from_unique_blob_id, NodeLog!range_from_unique_blob_id,
         Node!offset_from_unique_blob_id, NodeLog!offset_from_unique_blob_id
<1>6. ASSUME NEW I
      PROVE  Node!new_epoch(sequence[node], I) = NodeLog!new_epoch(sequence[node], I)
  <2>1. \A S : Node!SetToSeqs(S) = NodeLog!SetToSeqs(S)
    BY DEF Node!SetToSeqs, NodeLog!SetToSeqs, Node!Cardinality, NodeLog!Cardinality
  <2>2. Node!sorted(I) = NodeLog!sorted(I)
    BY <2>1 DEF Node!sorted, NodeLog!sorted
  <2>3. \A seqs : Node!FlattenSeq(seqs) = NodeLog!FlattenSeq(seqs)
    BY DEF Node!FlattenSeq, NodeLog!FlattenSeq
  <2>4. \A x : Node!iter(x) = NodeLog!iter(x)
    BY DEF Node!iter, NodeLog!iter, Node!ids_count, NodeLog!ids_count
  <2>. QED
    BY <2>2, <2>3, <2>4 DEF Node!new_epoch, NodeLog!new_epoch
<1>7. Node!commit_epoch_if_needed => NodeLog!commit_epoch_if_needed
  BY <1>4, <1>5, <1>6 DEF Node!commit_epoch_if_needed, NodeLog!commit_epoch_if_needed
<1>8. [Node!Next]_(Node!vars) => [NodeLog!Next]_(NodeLog!vars)
  BY <1>2, <1>3, <1>7 DEF Node!Next, NodeLog!Next
<1>. QED
  BY <1>1, <1>8, PTL DEF Node!Spec, NodeLog!Spec

\* The log of a node is what it has committed.
LEMMA LogIsCommited ==
  Spec => [](Range(sequence[node])
               = UNION {{unique_blob_id_from_range_and_offset(range, o) :
                           o \in 0..commited_offsets[node][range]} : range \in KeyRange})
<1>1. NodeLog!LogHoldsTheEpochs /\ NodeLog!EpochsCoverCommited
        => Range(sequence[node])
             = UNION {{unique_blob_id_from_range_and_offset(range, o) :
                         o \in 0..commited_offsets[node][range]} : range \in KeyRange}
  BY DEF NodeLog!LogHoldsTheEpochs, NodeLog!EpochsCoverCommited, NodeLog!Prefix,
         NodeLog!KeyRange, KeyRange, NodeLog!Range, Range,
         unique_blob_id_from_range_and_offset, NodeLog!unique_blob_id_from_range_and_offset
<1>2. NodeLog!Spec => []NodeLog!LogHoldsTheEpochs
  BY NodeLog!LogAndEpochsAgree, RangeKeyAssumption, ClusterAssumption
<1>3. NodeLog!Spec => []NodeLog!EpochsCoverCommited
  BY NodeLog!EpochsCoverTheCommited, RangeKeyAssumption, ClusterAssumption
<1>. QED
  BY <1>1, <1>2, <1>3, SameCommitPath, EachNodeImplementsEpochCommit, PTL
     DEF EveryNodeCommits

\* A transaction that a node has put in its log (new_epoch) is held by
\* consensus_nodes peers, whoever has crashed since.
THEOREM LoggedTransactionsAreReplicated == Spec => []LoggedIsReplicated
<1> DEFINE Logged == Range(sequence[node])
                       = UNION {{unique_blob_id_from_range_and_offset(range, o) :
                                   o \in 0..commited_offsets[node][range]} : range \in KeyRange}
<1>1. IndInv /\ Logged => LoggedIsReplicated
  <2> SUFFICES ASSUME IndInv, Logged, NEW id \in Range(sequence[node])
               PROVE  Cardinality({p \in PeerId : id \in transactions[p]}) >= consensus_nodes
    BY DEF LoggedIsReplicated
  <2>1. PICK range \in KeyRange : \E o \in 0..commited_offsets[node][range] :
          id = unique_blob_id_from_range_and_offset(range, o)
    OBVIOUS
  <2> DEFINE last == commited_offsets[node][range]
  <2>2. last # None
    BY <2>1, SMT DEF None
  <2>3. Cardinality(Holders(range, last)) >= consensus_nodes
    BY <2>2, ClusterRefinementAssumption DEF IndInv, CommitedIsReplicated
  <2>4. Holders(range, last) \subseteq {p \in PeerId : id \in transactions[p]}
    BY <2>1 DEF Holders, Holds
  <2>5. IsFiniteSet({p \in PeerId : id \in transactions[p]})
    BY ClusterAssumption, FS_Subset
  <2>6. /\ Cardinality(Holders(range, last)) <= Cardinality({p \in PeerId : id \in transactions[p]})
        /\ Cardinality(Holders(range, last)) \in Nat
        /\ Cardinality({p \in PeerId : id \in transactions[p]}) \in Nat
    BY <2>4, <2>5, FS_Subset, FS_CardinalityType
  <2>. QED
    BY <2>3, <2>6, ClusterAssumption
<1>. QED
  BY <1>1, LogIsCommited, IndInvHolds, PTL

\* In the cluster too, a node's log only grows, and has each range in order,
\* without a gap or a repetition (commit_epoch_if_needed, new_epoch).
THEOREM EachNodeKeepsATransactionLog == Spec => NodeLog!LogIsATransactionLog
<1>1. NodeLog!Spec => NodeLog!LogIsATransactionLog
  BY NodeLog!TheLogIsATransactionLog, RangeKeyAssumption, ClusterAssumption
<1>. QED
  BY <1>1, SameCommitPath, EachNodeImplementsEpochCommit DEF EveryNodeCommits
=============================================================================
