-------------------------- MODULE EpochCommitProofs -------------------------
(***************************************************************************)
(* Safety of EpochCommit for any ranges and any moves of the consensus     *)
(* offsets between two epochs.                                             *)
(***************************************************************************)
EXTENDS EpochCommit, MaroonAppProofs

\* An increment covers the ids of its range from above the committed offset to
\* the consensus offset (calculate_epoch_increments).
LEMMA IdsOfAnIncrement ==
  ASSUME NEW c \in [KeyRange -> MaybeOffset], NEW d \in [KeyRange -> MaybeOffset],
         NEW range \in Advancing(c, d)
  PROVE  LET x == new_from_range_and_offsets(range, IncrementStart(d[range]), c[range])
         IN  /\ x \in [left : Nat, right : Nat]
             /\ ids(x) = {unique_blob_id_from_range_and_offset(range, o) :
                            o \in (d[range] + 1)..c[range]}
             /\ (d[range] + 1)..c[range] \subseteq KeyOffset
<1> DEFINE x == new_from_range_and_offsets(range, IncrementStart(d[range]), c[range])
<1>1. range \in KeyRange /\ range \in Nat /\ c[range] \in KeyOffset /\ d[range] \in MaybeOffset
  BY DEF Advancing, MaybeOffset, KeyRange
<1>2. /\ IncrementStart(d[range]) = d[range] + 1
      /\ IncrementStart(d[range]) \in Nat
      /\ c[range] \in Nat
      /\ (d[range] + 1)..c[range] \subseteq KeyOffset
  BY <1>1, RangeKeyAssumption, SMT DEF IncrementStart, MaybeOffset, KeyOffset, None
<1>3. IncrementStart(d[range]) \in KeyOffset
  BY <1>1, <1>2, RangeKeyAssumption, SMT DEF Advancing, KeyOffset
<1>4. x \in [left : Nat, right : Nat]
  BY <1>1, <1>3, IdIsNatural DEF new_from_range_and_offsets
<1>5. ids(x) = {unique_blob_id_from_range_and_offset(range, o) :
                  o \in IncrementStart(d[range])..c[range]}
  BY <1>1, <1>2, IdsOfAnInterval
<1>. QED
  BY <1>2, <1>4, <1>5

\* Ids of ranges and offsets are equal only when both are.
LEMMA IdsAreDistinct ==
  ASSUME NEW r \in KeyRange, NEW s \in KeyRange, NEW a \in KeyOffset, NEW b \in KeyOffset,
         unique_blob_id_from_range_and_offset(r, a) = unique_blob_id_from_range_and_offset(s, b)
  PROVE  r = s /\ a = b
<1>1. /\ r \in Nat /\ s \in Nat /\ SINGLE_BLOB_SIZE \in Nat \ {0}
      /\ a \in 0..(SINGLE_BLOB_SIZE - 1) /\ b \in 0..(SINGLE_BLOB_SIZE - 1)
  BY RangeKeyAssumption DEF KeyRange, KeyOffset
<1>2. SINGLE_BLOB_SIZE * r + a = SINGLE_BLOB_SIZE * s + b
  BY <1>1, SMT DEF unique_blob_id_from_range_and_offset
<1>. QED
  BY <1>1, <1>2, EuclideanUnique

-----------------------------------------------------------------------------
\* The inductive invariant: to see that a new epoch meets none of the old
\* ones, one must know that the old ones end where commited_offsets says, and
\* that what is committed can be decoded (range_offset_from_unique_blob_id in
\* commit_epoch_if_needed does not panic).
IndInv ==
  /\ consensus_offset \in [KeyRange -> MaybeOffset]
  /\ commited_offsets \in [KeyRange -> MaybeOffset]
  /\ Decodable(consensus_offset)
  /\ Decodable(commited_offsets)
  /\ epochs \in Seq(SUBSET [left : Nat, right : Nat])
  /\ EpochsCoverCommited
  /\ EpochsAreDisjoint

\* An epoch (commit_epoch_if_needed) takes the next ids of the ranges that
\* advance, and nothing else.
LEMMA CommitKeeps ==
  ASSUME IndInv, commit_epoch_if_needed
  PROVE  IndInv'
<1> USE DEF IndInv
<1> DEFINE c == consensus_offset
           d == commited_offsets
           I == calculate_epoch_increments(c, d)
           n == Len(epochs) + 1
           grown(range) == IF range \in Advancing(c, d)
                           THEN {unique_blob_id_from_range_and_offset(range, o) :
                                   o \in (d[range] + 1)..c[range]}
                           ELSE {}
<1>1. /\ c' = c
      /\ d' = CommitedAfter(d, I)
      /\ epochs' = Append(epochs, I)
  BY DEF commit_epoch_if_needed
<1>2. /\ d' \in [KeyRange -> MaybeOffset]
      /\ \A range \in KeyRange :
           d'[range] = IF range \in Advancing(c, d) THEN c[range] ELSE d[range]
  BY <1>1, CommitedIsConsensus
<1>3. \A x \in I : \E range \in Advancing(c, d) :
        x = new_from_range_and_offsets(range, IncrementStart(d[range]), c[range])
  BY DEF calculate_epoch_increments, Advancing
<1>4. \A range \in Advancing(c, d) :
        new_from_range_and_offsets(range, IncrementStart(d[range]), c[range]) \in I
  BY DEF calculate_epoch_increments, Advancing
<1>5. ASSUME NEW x \in I
      PROVE  /\ x \in [left : Nat, right : Nat]
             /\ \E range \in Advancing(c, d) :
                  /\ x = new_from_range_and_offsets(range, IncrementStart(d[range]), c[range])
                  /\ ids(x) = grown(range)
                  /\ (d[range] + 1)..c[range] \subseteq KeyOffset
  <2>1. PICK range \in Advancing(c, d) :
          x = new_from_range_and_offsets(range, IncrementStart(d[range]), c[range])
    BY <1>3
  <2>. QED  BY <2>1, IdsOfAnIncrement
<1>6. UNION {ids(x) : x \in I} = UNION {grown(range) : range \in KeyRange}
  <2>1. ASSUME NEW range \in KeyRange, NEW id \in grown(range)
        PROVE  \E x \in I : id \in ids(x)
    <3>1. range \in Advancing(c, d)
      OBVIOUS
    <3> DEFINE x == new_from_range_and_offsets(range, IncrementStart(d[range]), c[range])
    <3>2. x \in I /\ ids(x) = grown(range)
      BY <1>4, <3>1, IdsOfAnIncrement
    <3>. QED  BY <3>2
  <2>2. ASSUME NEW x \in I, NEW id \in ids(x)
        PROVE  \E range \in KeyRange : id \in grown(range)
    BY <1>5 DEF Advancing
  <2> HIDE DEF I, grown
  <2>3. \A id : id \in UNION {ids(x) : x \in I} <=> \E x \in I : id \in ids(x)
    OBVIOUS
  <2>4. \A id : id \in UNION {grown(range) : range \in KeyRange}
                  <=> \E range \in KeyRange : id \in grown(range)
    OBVIOUS
  <2>. QED  BY <2>1, <2>2, <2>3, <2>4
<1>7. ASSUME NEW range \in KeyRange
      PROVE  Prefix(range, d'[range]) = Prefix(range, d[range]) \cup grown(range)
  <2>1. CASE range \in Advancing(c, d)
    <3>1. /\ d'[range] = c[range] /\ c[range] \in Nat
          /\ d[range] \in Int /\ d[range] >= -1 /\ d[range] < c[range]
      BY <1>2, <2>1, RangeKeyAssumption, SMT
         DEF Advancing, MaybeOffset, KeyOffset, None, IncrementStart
    <3>2. 0..c[range] = (0..d[range]) \cup ((d[range] + 1)..c[range])
      BY <3>1, SMT
    <3>. QED  BY <2>1, <3>1, <3>2 DEF Prefix
  <2>2. CASE range \notin Advancing(c, d)
    BY <1>2, <2>2
  <2>. QED  BY <2>1, <2>2
<1>8. /\ epochs' \in Seq(SUBSET [left : Nat, right : Nat])
      /\ DOMAIN epochs' = DOMAIN epochs \cup {n} /\ n \notin DOMAIN epochs
      /\ epochs'[n] = I /\ \A i \in DOMAIN epochs : epochs'[i] = epochs[i]
  <2>1. I \in SUBSET [left : Nat, right : Nat]
    BY <1>5
  <2> HIDE DEF I
  <2>. QED  BY <1>1, <2>1
<1> HIDE DEF c, d, I, n, grown
<1>9. EpochIds' = EpochIds \cup UNION {ids(x) : x \in I}
  BY <1>8 DEF EpochIds
<1>10. EpochsCoverCommited'
  <2>1. EpochIds = UNION {Prefix(range, d[range]) : range \in KeyRange}
    BY DEF EpochsCoverCommited, d
  <2>2. EpochIds' = UNION {Prefix(range, d'[range]) : range \in KeyRange}
    <3>1. \A id : id \in EpochIds' <=> \E range \in KeyRange :
                                         id \in Prefix(range, d[range]) \cup grown(range)
      BY <1>6, <1>9, <2>1
    <3>2. \A id : id \in EpochIds' <=> \E range \in KeyRange : id \in Prefix(range, d'[range])
      BY <1>7, <3>1
    <3>. QED  BY <3>2
  <2>. QED  BY <2>2 DEF EpochsCoverCommited, d, Prefix
<1>11. ASSUME NEW x \in I, NEW y \in I, x # y PROVE ids(x) \cap ids(y) = {}
  <2> SUFFICES ASSUME NEW id \in ids(x), id \in ids(y) PROVE FALSE
    OBVIOUS
  <2>1. PICK r \in Advancing(c, d) :
          /\ x = new_from_range_and_offsets(r, IncrementStart(d[r]), c[r])
          /\ ids(x) = grown(r) /\ (d[r] + 1)..c[r] \subseteq KeyOffset
    BY <1>5
  <2>2. PICK s \in Advancing(c, d) :
          /\ y = new_from_range_and_offsets(s, IncrementStart(d[s]), c[s])
          /\ ids(y) = grown(s) /\ (d[s] + 1)..c[s] \subseteq KeyOffset
    BY <1>5
  <2>3. PICK a \in KeyOffset : id = unique_blob_id_from_range_and_offset(r, a)
    BY <2>1 DEF grown
  <2>4. PICK b \in KeyOffset : id = unique_blob_id_from_range_and_offset(s, b)
    BY <2>2 DEF grown
  <2>5. r = s
    BY <2>3, <2>4, IdsAreDistinct DEF Advancing
  <2>. QED  BY <1>11, <2>1, <2>2, <2>5
<1>12. ASSUME NEW x \in I PROVE ids(x) \cap EpochIds = {}
  <2> SUFFICES ASSUME NEW id \in ids(x), id \in EpochIds PROVE FALSE
    OBVIOUS
  <2>1. PICK r \in Advancing(c, d) :
          ids(x) = grown(r) /\ (d[r] + 1)..c[r] \subseteq KeyOffset
    BY <1>5
  <2>2. PICK a \in (d[r] + 1)..c[r] : id = unique_blob_id_from_range_and_offset(r, a)
    BY <2>1 DEF grown
  <2>3. PICK s \in KeyRange : id \in Prefix(s, d[s])
    BY DEF EpochsCoverCommited, d
  <2>4. PICK b \in 0..d[s] : id = unique_blob_id_from_range_and_offset(s, b)
    BY <2>3 DEF Prefix
  <2>5. r \in KeyRange /\ d[r] \in MaybeOffset /\ d[s] \in MaybeOffset
    BY DEF Advancing, d
  <2>6. b \in KeyOffset
    BY <2>4, <2>5, RangeKeyAssumption, SMT DEF MaybeOffset, KeyOffset, None
  <2>7. r = s /\ a = b
    <3>1. a \in KeyOffset
      BY <2>1, <2>2
    <3>2. unique_blob_id_from_range_and_offset(r, a) = unique_blob_id_from_range_and_offset(s, b)
      BY <2>2, <2>4
    <3>3. r \in KeyRange /\ s \in KeyRange /\ b \in KeyOffset
      BY <2>5, <2>6
    <3>. QED  BY <3>1, <3>2, <3>3, IdsAreDistinct
  <2>. QED  BY <2>2, <2>4, <2>5, <2>7, RangeKeyAssumption, SMT
            DEF MaybeOffset, KeyOffset, None
<1>13. EpochsAreDisjoint'
  <2> SUFFICES ASSUME NEW i \in DOMAIN epochs', NEW j \in DOMAIN epochs',
                      NEW x \in epochs'[i], NEW y \in epochs'[j], i # j \/ x # y
               PROVE  ids(x) \cap ids(y) = {}
    BY DEF EpochsAreDisjoint
  <2>1. CASE i = n /\ j = n
    BY <1>8, <1>11, <2>1
  <2>2. CASE i = n /\ j # n
    <3>1. x \in I /\ ids(y) \subseteq EpochIds
      BY <1>8, <2>2 DEF EpochIds
    <3>. QED  BY <1>12, <3>1
  <2>3. CASE i # n /\ j = n
    <3>1. y \in I /\ ids(x) \subseteq EpochIds
      BY <1>8, <2>3 DEF EpochIds
    <3>. QED  BY <1>12, <3>1
  <2>4. CASE i # n /\ j # n
    BY <1>8, <2>4 DEF EpochsAreDisjoint
  <2>. QED  BY <2>1, <2>2, <2>3, <2>4
<1>14. consensus_offset' \in [KeyRange -> MaybeOffset]
  BY <1>1 DEF c
<1>15. commited_offsets' \in [KeyRange -> MaybeOffset]
  BY <1>2 DEF d
<1>16. epochs' \in Seq(SUBSET [left : Nat, right : Nat])
  BY <1>8
<1>17. Decodable(consensus_offset)' /\ Decodable(commited_offsets)'
  BY <1>1, <1>2 DEF Decodable, c, d
<1>. QED
  BY <1>10, <1>13, <1>14, <1>15, <1>16, <1>17

LEMMA IndInvInit == Init => IndInv
<1> SUFFICES ASSUME Init PROVE IndInv
  OBVIOUS
<1> USE DEF Init
<1>1. None \in MaybeOffset /\ 0..None = {}
  BY SMT DEF MaybeOffset, None
<1>2. epochs \in Seq(SUBSET [left : Nat, right : Nat]) /\ DOMAIN epochs = {}
  OBVIOUS
<1>3. EpochsCoverCommited
  BY <1>1, <1>2 DEF EpochsCoverCommited, EpochIds, Prefix
<1>4. EpochsAreDisjoint
  BY <1>2 DEF EpochsAreDisjoint
<1>. QED
  BY <1>1, <1>2, <1>3, <1>4 DEF IndInv, Decodable

LEMMA IndInvStep == IndInv /\ [Next]_vars => IndInv'
<1> SUFFICES ASSUME IndInv, [Next]_vars PROVE IndInv'
  OBVIOUS
<1>1. CASE commit_epoch_if_needed
  BY <1>1, CommitKeeps
<1>2. ASSUME UNCHANGED <<commited_offsets, epochs>>,
             consensus_offset' \in [KeyRange -> MaybeOffset],
             Decodable(consensus_offset)'
      PROVE  IndInv'
  <2>1. /\ epochs' \in Seq(SUBSET [left : Nat, right : Nat])
        /\ commited_offsets' \in [KeyRange -> MaybeOffset]
        /\ Decodable(commited_offsets)'
    BY <1>2 DEF IndInv, Decodable
  <2>2. EpochIds' = EpochIds
    BY <1>2 DEF EpochIds
  <2>3. EpochsCoverCommited'
    BY <1>2, <2>2 DEF IndInv, EpochsCoverCommited
  <2>4. EpochsAreDisjoint'
    BY <1>2 DEF IndInv, EpochsAreDisjoint
  <2>. QED
    BY <1>2, <2>1, <2>3, <2>4 DEF IndInv
<1>3. CASE Recalculate
  <2>1. Decodable(consensus_offset)'
    BY <1>3 DEF Recalculate, OffsetsOf, Decodable
  <2>. QED  BY <1>2, <1>3, <2>1 DEF Recalculate
<1>4. CASE UNCHANGED vars
  BY <1>2, <1>4 DEF vars, IndInv, Decodable
<1>. QED
  BY <1>1, <1>3, <1>4 DEF Next

\* Whichever way consensus moves, the epochs cover exactly the transactions up
\* to the committed offsets (app.rs:51).
THEOREM EpochsCoverTheCommited == Spec => []EpochsCoverCommited
  BY IndInvInit, IndInvStep, PTL DEF Spec, IndInv

\* No transaction is ever in two increments (calculate_epoch_increments).
THEOREM NoTransactionTwice == Spec => []EpochsAreDisjoint
  BY IndInvInit, IndInvStep, PTL DEF Spec, IndInv

\* A tick of the epoch timer leaves at most one confirmed transaction of each
\* range for later (commit_epoch_if_needed).
THEOREM LagIsAtMostOne == Spec => CommitLagsByAtMostOne
<1>1. ASSUME IndInv, [Next]_vars, epochs' # epochs, NEW range \in KeyRange
      PROVE  consensus_offset[range] - commited_offsets'[range] <= 1
  <2>1. commit_epoch_if_needed
    BY <1>1 DEF Next, Recalculate, vars
  <2>2. /\ consensus_offset[range] \in MaybeOffset
        /\ commited_offsets[range] \in MaybeOffset
        /\ commited_offsets'[range]
             = IF range \in Advancing(consensus_offset, commited_offsets)
               THEN consensus_offset[range] ELSE commited_offsets[range]
    BY <1>1, <2>1, CommitedIsConsensus DEF IndInv, commit_epoch_if_needed
  <2>. QED
    BY <2>2, RangeKeyAssumption, SMT
       DEF Advancing, IncrementStart, MaybeOffset, KeyOffset, None
<1>2. IndInv /\ [Next]_vars =>
        [epochs' # epochs =>
           \A range \in KeyRange : consensus_offset[range] - commited_offsets'[range] <= 1]_vars
  BY <1>1
<1>. QED
  BY <1>2, IndInvInit, IndInvStep, PTL DEF Spec, CommitLagsByAtMostOne

-----------------------------------------------------------------------------
(***************************************************************************)
(* The log                                                                 *)
(***************************************************************************)

\* Within a range, ids are logged from the smallest to the largest.
RangesAscend(log) ==
  \A i, j \in DOMAIN log :
     i < j /\ range_from_unique_blob_id(log[i]) = range_from_unique_blob_id(log[j])
       => log[i] < log[j]

\* What the log adds to the invariant: LogHoldsTheEpochs alone does not say in
\* what order, nor that no id comes twice.
LogInv ==
  /\ sequence \in Seq(Nat)
  /\ LogHoldsTheEpochs
  /\ RangesAscend(sequence)

\* What comes before an id that decodes decodes.
LEMMA UpToDecodable ==
  ASSUME NEW range \in Nat, NEW a \in KeyOffset, NEW b \in KeyOffset, a <= b,
         unique_blob_id_from_range_and_offset(range, b) \in UniqueBlobId
  PROVE  unique_blob_id_from_range_and_offset(range, a) \in UniqueBlobId
<1> DEFINE x == unique_blob_id_from_range_and_offset(range, a)
           y == unique_blob_id_from_range_and_offset(range, b)
<1>1. x \in Nat /\ y \in Nat /\ x <= y
  BY IdIsNatural, OffsetsOrderIds
<1>2. MAX_BLOCK_INDEX * SINGLE_BLOB_SIZE \in Nat
  BY RangeKeyAssumption, SMT
<1> HIDE DEF x, y
<1>3. x \in UniqueBlobId
  <2>1. y \in UniqueBlobId
    BY DEF y
  <2>. QED  BY <1>1, <1>2, <2>1 DEF UniqueBlobId
<1>. QED
  BY <1>3 DEF x

\* An id up to a committed offset, and what it decodes to.
LEMMA InAPrefix ==
  ASSUME NEW d \in [KeyRange -> MaybeOffset], Decodable(d),
         NEW r \in KeyRange, NEW id \in Prefix(r, d[r])
  PROVE  /\ id \in Nat /\ range_from_unique_blob_id(id) = r
         /\ offset_from_unique_blob_id(id) \in KeyOffset
         /\ offset_from_unique_blob_id(id) <= d[r]
         /\ id = unique_blob_id_from_range_and_offset(r, offset_from_unique_blob_id(id))
<1>1. PICK o \in 0..d[r] : id = unique_blob_id_from_range_and_offset(r, o)
  BY DEF Prefix
<1>2. r \in Nat /\ d[r] \in MaybeOffset
  BY DEF KeyRange
<1>3. o \in KeyOffset /\ o <= d[r] /\ d[r] # None
  BY <1>1, <1>2, RangeKeyAssumption, SMT DEF MaybeOffset, KeyOffset, None
<1>4. id \in UniqueBlobId
  BY <1>1, <1>2, <1>3, UpToDecodable DEF MaybeOffset, Decodable
<1>. QED
  BY <1>1, <1>2, <1>3, <1>4, DecodeEncode, IdIsNatural

\* A log that holds exactly the ids up to an offset of each range, and each
\* range in ascending order, gives every id the place its offset says.
LEMMA AscendingLogHasNoGaps ==
  ASSUME NEW log \in Seq(Nat), NEW d \in [KeyRange -> MaybeOffset], Decodable(d),
         Range(log) = UNION {Prefix(range, d[range]) : range \in KeyRange},
         RangesAscend(log)
  PROVE  InOrderWithoutGaps(log)
<1> DEFINE rng(i) == range_from_unique_blob_id(log[i])
           off(i) == offset_from_unique_blob_id(log[i])
           earlier(i) == {j \in 1..(i - 1) : rng(j) = rng(i)}
<1>1. DOMAIN log = 1..Len(log) /\ Len(log) \in Nat
  OBVIOUS
<1>2. ASSUME NEW i \in DOMAIN log
      PROVE  /\ rng(i) \in KeyRange /\ off(i) \in KeyOffset /\ off(i) <= d[rng(i)]
             /\ log[i] = unique_blob_id_from_range_and_offset(rng(i), off(i))
  <2>1. log[i] \in UNION {Prefix(range, d[range]) : range \in KeyRange}
    BY DEF Range
  <2>2. PICK range \in KeyRange : log[i] \in Prefix(range, d[range])
    BY <2>1
  <2>. QED  BY <2>2, InAPrefix
<1>3. ASSUME NEW i \in DOMAIN log, NEW o \in 0..off(i)
      PROVE  \E j \in DOMAIN log : rng(j) = rng(i) /\ off(j) = o
  <2>1. o \in KeyOffset /\ o \in 0..d[rng(i)]
    <3>1. off(i) \in KeyOffset /\ off(i) <= d[rng(i)] /\ d[rng(i)] \in MaybeOffset
      BY <1>2
    <3> HIDE DEF off, rng
    <3>. QED  BY <3>1, RangeKeyAssumption, SMT DEF KeyOffset, MaybeOffset, None
  <2>2. unique_blob_id_from_range_and_offset(rng(i), o) \in Prefix(rng(i), d[rng(i)])
    BY <2>1 DEF Prefix
  <2>3. PICK j \in DOMAIN log : log[j] = unique_blob_id_from_range_and_offset(rng(i), o)
    BY <1>2, <2>2 DEF Range
  <2>4. rng(i) \in KeyRange /\ rng(j) \in KeyRange /\ off(j) \in KeyOffset
        /\ log[j] = unique_blob_id_from_range_and_offset(rng(j), off(j))
    BY <1>2
  <2>. QED  BY <2>1, <2>3, <2>4, IdsAreDistinct
<1>4. ASSUME NEW i \in DOMAIN log, NEW j \in DOMAIN log, rng(i) = rng(j)
      PROVE  i < j <=> off(i) < off(j)
  <2>1. /\ rng(i) \in Nat /\ off(i) \in KeyOffset /\ off(j) \in KeyOffset
        /\ log[i] = unique_blob_id_from_range_and_offset(rng(i), off(i))
        /\ log[j] = unique_blob_id_from_range_and_offset(rng(i), off(j))
    BY <1>2, <1>4 DEF KeyRange
  <2>2. (off(j) <= off(i)) <=> (log[j] <= log[i])
    BY <2>1, OffsetsOrderIds
  <2>3. off(i) \in Nat /\ off(j) \in Nat /\ log[i] \in Nat /\ log[j] \in Nat /\ i \in Nat /\ j \in Nat
    <3>1. off(i) \in Nat /\ off(j) \in Nat
      BY <2>1, RangeKeyAssumption, SMT DEF KeyOffset
    <3>. QED  BY <1>1, <3>1
  <2>4. (i < j => log[i] < log[j]) /\ (j < i => log[j] < log[i])
    BY <1>4 DEF RangesAscend
  <2> HIDE DEF off, rng
  <2>. QED  BY <2>2, <2>3, <2>4, SMT
<1>5. ASSUME NEW i \in DOMAIN log
      PROVE  off(i) = Cardinality(earlier(i))
  <2>1. i \in Nat /\ earlier(i) \subseteq DOMAIN log /\ off(i) \in Nat
    <3>1. off(i) \in Nat
      BY <1>2, RangeKeyAssumption, SMT DEF KeyOffset
    <3>. QED  BY <1>1, <3>1
  <2> DEFINE place == [j \in earlier(i) |-> off(j)]
  <2>2. ASSUME NEW j \in earlier(i) PROVE off(j) \in 0..(off(i) - 1)
    <3>1. off(j) \in Nat /\ j < i /\ off(j) < off(i)
      <4>1. j \in DOMAIN log /\ j < i /\ rng(j) = rng(i)
        BY <2>1
      <4>2. off(j) \in Nat
        BY <1>2, <4>1, RangeKeyAssumption, SMT DEF KeyOffset
      <4>. QED  BY <1>4, <4>1, <4>2
    <3> HIDE DEF off
    <3>. QED  BY <2>1, <3>1, SMT
  <2>3. place \in [earlier(i) -> 0..(off(i) - 1)]
    BY <2>2
  <2>4. ASSUME NEW j \in earlier(i), NEW k \in earlier(i), off(j) = off(k) PROVE j = k
    <3>1. /\ j \in DOMAIN log /\ k \in DOMAIN log /\ rng(j) = rng(k)
          /\ j \in Nat /\ k \in Nat /\ off(j) \in Nat
      <4>1. j \in DOMAIN log /\ k \in DOMAIN log /\ rng(j) = rng(k)
        BY <2>1
      <4>. QED  BY <1>1, <1>2, <4>1, RangeKeyAssumption, SMT DEF KeyOffset
    <3>2. ~(j < k) /\ ~(k < j)
      BY <1>4, <2>4, <3>1
    <3>. QED  BY <3>1, <3>2
  <2>5. ASSUME NEW o \in 0..(off(i) - 1) PROVE \E j \in earlier(i) : off(j) = o
    <3>1. o \in 0..off(i) /\ o < off(i)
      BY <2>1, SMT
    <3>2. PICK j \in DOMAIN log : rng(j) = rng(i) /\ off(j) = o
      BY <1>3, <3>1
    <3>3. j < i
      BY <1>4, <3>1, <3>2
    <3>. QED  BY <1>1, <3>2, <3>3
  <2>6. place \in Bijection(earlier(i), 0..(off(i) - 1))
    BY <2>3, <2>4, <2>5 DEF Bijection, Injection, Surjection, IsInjective
  <2>7. IsFiniteSet(earlier(i))
    <3>1. earlier(i) \in SUBSET (1..(i - 1))
      OBVIOUS
    <3>2. 1 \in Int /\ i - 1 \in Int
      BY <2>1
    <3>3. IsFiniteSet(1..(i - 1))
      BY <3>2, FS_Interval
    <3>. QED  BY <3>1, <3>3, FS_Subset
  <2>8. Cardinality(0..(off(i) - 1)) = Cardinality(earlier(i))
    BY <2>6, <2>7, FS_Bijection DEF ExistsBijection
  <2>9. Cardinality(0..(off(i) - 1)) = off(i)
    <3> HIDE DEF off
    <3>1. 0 \in Int /\ off(i) - 1 \in Int
      BY <2>1
    <3>2. Cardinality(0..(off(i) - 1)) = IF 0 > off(i) - 1 THEN 0 ELSE (off(i) - 1) - 0 + 1
      BY <3>1, FS_Interval
    <3>3. off(i) \in Nat
      BY <2>1
    <3>. QED  BY <3>2, <3>3, SMT
  <2>. QED  BY <2>8, <2>9
<1>. QED
  BY <1>5 DEF InOrderWithoutGaps

\* An epoch has finitely many increments: one for a range at most.
LEMMA IncrementsAreFinite ==
  LET I == calculate_epoch_increments(consensus_offset, commited_offsets)
  IN  IsFiniteSet(I) /\ Cardinality(I) \in Nat
<1> DEFINE R == {r \in KeyRange :
                   /\ consensus_offset[r] # None
                   /\ IncrementStart(commited_offsets[r]) < consensus_offset[r]}
           f(r) == new_from_range_and_offsets(r, IncrementStart(commited_offsets[r]),
                                              consensus_offset[r])
<1>1. IsFiniteSet(R)
  <2>1. IsFiniteSet(KeyRange)
    BY RangeKeyAssumption, FS_Interval DEF KeyRange
  <2>. QED
    BY <2>1, FS_Subset
<1>2. IsFiniteSet({f(r) : r \in R})
  <2> HIDE DEF R, f
  <2> DEFINE image == [r \in R |-> f(r)]
  <2>1. image \in Surjection(R, {f(r) : r \in R})
    BY DEF Surjection
  <2>. QED
    BY <1>1, <2>1, FS_Surjection
<1>. QED
  BY <1>2, FS_CardinalityType DEF calculate_epoch_increments

\* What the increments of an epoch are, given the invariant: a finite set of
\* intervals that hold something and meet neither each other nor the epochs.
LEMMA IncrementsAreApart ==
  ASSUME IndInv, commit_epoch_if_needed
  PROVE  LET I == calculate_epoch_increments(consensus_offset, commited_offsets)
         IN  /\ I \in SUBSET [left : Nat, right : Nat] /\ IsFiniteSet(I)
             /\ \A x \in I : x.left <= x.right
             /\ \A x, y \in I : x # y => ids(x) \cap ids(y) = {}
             /\ EpochIds' = EpochIds \cup UNION {ids(x) : x \in I}
<1> DEFINE c == consensus_offset
           d == commited_offsets
           I == calculate_epoch_increments(c, d)
           n == Len(epochs) + 1
<1>1. IsFiniteSet(I)
  BY IncrementsAreFinite
<1>2. ASSUME NEW x \in I
      PROVE  x \in [left : Nat, right : Nat] /\ x.left <= x.right
  <2>1. PICK range \in Advancing(c, d) :
          x = new_from_range_and_offsets(range, IncrementStart(d[range]), c[range])
    BY DEF calculate_epoch_increments, Advancing
  <2>2. x \in [left : Nat, right : Nat]
    BY <2>1, IdsOfAnIncrement DEF IndInv
  <2>3. /\ range \in Nat /\ c[range] \in KeyOffset /\ IncrementStart(d[range]) \in KeyOffset
        /\ IncrementStart(d[range]) <= c[range]
    <3>1. range \in KeyRange /\ c[range] \in MaybeOffset /\ d[range] \in MaybeOffset
      BY DEF Advancing, IndInv
    <3>. QED
      BY <3>1, RangeKeyAssumption, SMT
         DEF Advancing, KeyRange, IncrementStart, MaybeOffset, KeyOffset, None
  <2>4. x.left <= x.right
    BY <2>1, <2>3, OffsetsOrderIds DEF new_from_range_and_offsets
  <2>. QED  BY <2>2, <2>4
<1>3. /\ epochs \in Seq(SUBSET [left : Nat, right : Nat])
      /\ epochs' = Append(epochs, I)
  BY DEF IndInv, commit_epoch_if_needed
<1>4. I \in SUBSET [left : Nat, right : Nat]
  BY <1>2
<1> HIDE DEF I
<1>5. /\ DOMAIN epochs' = DOMAIN epochs \cup {n} /\ epochs'[n] = I
      /\ \A i \in DOMAIN epochs : epochs'[i] = epochs[i]
  BY <1>3, <1>4
<1> HIDE DEF n
<1>6. \A x, y \in I : x # y => ids(x) \cap ids(y) = {}
  <2>1. EpochsAreDisjoint'
    BY CommitKeeps DEF IndInv
  <2>. QED  BY <1>5, <2>1 DEF EpochsAreDisjoint
<1>7. EpochIds' = EpochIds \cup UNION {ids(x) : x \in I}
  BY <1>5 DEF EpochIds
<1>. QED
  BY <1>1, <1>2, <1>4, <1>6, <1>7 DEF I

\* An id of an increment comes after every id of its range in the epochs.
LEMMA IncrementsAreAbove ==
  ASSUME IndInv,
         NEW x \in calculate_epoch_increments(consensus_offset, commited_offsets),
         NEW new \in ids(x), NEW old \in EpochIds,
         range_from_unique_blob_id(new) = range_from_unique_blob_id(old)
  PROVE  old < new
<1> DEFINE c == consensus_offset
           d == commited_offsets
<1>1. c \in [KeyRange -> MaybeOffset] /\ d \in [KeyRange -> MaybeOffset]
  BY DEF IndInv
<1>2. PICK r \in Advancing(c, d) :
        x = new_from_range_and_offsets(r, IncrementStart(d[r]), c[r])
  BY DEF calculate_epoch_increments, Advancing
<1>3. /\ ids(x) = {unique_blob_id_from_range_and_offset(r, o) : o \in (d[r] + 1)..c[r]}
      /\ (d[r] + 1)..c[r] \subseteq KeyOffset
  BY <1>1, <1>2, IdsOfAnIncrement
<1>4. PICK a \in (d[r] + 1)..c[r] : new = unique_blob_id_from_range_and_offset(r, a)
  BY <1>3
<1>5. r \in KeyRange /\ r \in Nat /\ a \in KeyOffset /\ d[r] \in MaybeOffset
  BY <1>1, <1>3 DEF Advancing, KeyRange
<1>6. range_from_unique_blob_id(new) = r /\ new \in Nat
  <2>1. c[r] \in KeyOffset /\ a <= c[r] /\ Decodable(c) /\ c[r] # None
    BY <1>1, <1>4, <1>5, RangeKeyAssumption, SMT
       DEF Advancing, MaybeOffset, KeyOffset, None, IndInv
  <2>2. new \in UniqueBlobId
    BY <1>4, <1>5, <2>1, UpToDecodable DEF Decodable
  <2>. QED  BY <1>4, <1>5, <2>2, DecodeEncode, IdIsNatural
<1>7. PICK s \in KeyRange : old \in Prefix(s, d[s])
  BY DEF IndInv, EpochsCoverCommited
<1> DEFINE b == offset_from_unique_blob_id(old)
<1>8. /\ old \in Nat /\ range_from_unique_blob_id(old) = s
      /\ b \in KeyOffset /\ b <= d[s]
      /\ old = unique_blob_id_from_range_and_offset(s, b)
  BY <1>1, <1>7, InAPrefix DEF IndInv
<1> HIDE DEF b
<1>9. s = r
  BY <1>6, <1>8
<1>10. ~(a <= b)
  BY <1>4, <1>5, <1>8, <1>9, RangeKeyAssumption, SMT DEF MaybeOffset, KeyOffset, None
<1>11. ~(new <= old)
  BY <1>4, <1>5, <1>8, <1>9, <1>10, OffsetsOrderIds
<1>. QED
  BY <1>6, <1>8, <1>11, SMT

\* An epoch extends the log by what it adds to the epochs, in order.
LEMMA CommitKeepsLog ==
  ASSUME IndInv, LogInv, commit_epoch_if_needed
  PROVE  LogInv' /\ IsPrefix(sequence, sequence')
<1> DEFINE I == calculate_epoch_increments(consensus_offset, commited_offsets)
           m == Len(sequence)
<1>1. /\ I \in SUBSET [left : Nat, right : Nat] /\ IsFiniteSet(I)
      /\ \A x \in I : x.left <= x.right
      /\ \A x, y \in I : x # y => ids(x) \cap ids(y) = {}
      /\ EpochIds' = EpochIds \cup UNION {ids(x) : x \in I}
  BY IncrementsAreApart
<1>2. sequence \in Seq(Nat) /\ Range(sequence) = EpochIds /\ RangesAscend(sequence)
  BY DEF LogInv, LogHoldsTheEpochs
<1>3. sequence' = new_epoch(sequence, I)
  BY DEF commit_epoch_if_needed
<1>4. \A x \in I : \A new \in ids(x), old \in EpochIds :
        range_from_unique_blob_id(new) = range_from_unique_blob_id(old) => old < new
  BY IncrementsAreAbove
<1> HIDE DEF I
<1>5. PICK block \in Seq(Nat) :
        /\ new_epoch(sequence, I) = sequence \o block
        /\ Range(block) = UNION {ids(x) : x \in I}
        /\ Ascending(block)
  BY <1>1, <1>2, NewEpochAppends
<1> DEFINE n == Len(block)
           longer == sequence \o block
<1>6. /\ longer \in Seq(Nat) /\ Len(longer) = m + n /\ DOMAIN longer = 1..(m + n)
      /\ \A i \in 1..(m + n) : longer[i] = IF i <= m THEN sequence[i] ELSE block[i - m]
      /\ m \in Nat /\ n \in Nat
      /\ DOMAIN sequence = 1..m /\ DOMAIN block = 1..n
  <2>1. /\ longer \in Seq(Nat) /\ Len(longer) = m + n
        /\ \A i \in 1..(m + n) : longer[i] = IF i <= m THEN sequence[i] ELSE block[i - m]
    BY <1>2, ConcatProperties
  <2> HIDE DEF longer
  <2>. QED  BY <1>2, <2>1, LenProperties
<1>7. sequence' = longer
  BY <1>3, <1>5
<1> HIDE DEF longer, m, n
<1>8. /\ \A i \in 1..m : i \in 1..(m + n) /\ longer[i] = sequence[i]
      /\ \A i \in 1..(m + n) : i > m => i - m \in 1..n /\ longer[i] = block[i - m]
      /\ \A i \in 1..n : i + m \in 1..(m + n) /\ longer[i + m] = block[i]
  BY <1>6
<1>9. Range(longer) = Range(sequence) \cup Range(block)
  <2>1. \A i \in 1..(m + n) : longer[i] \in Range(sequence) \cup Range(block)
    <3>. TAKE i \in 1..(m + n)
    <3>1. i \in 1..m \/ i > m
      BY <1>6
    <3>. QED  BY <1>6, <1>8, <3>1 DEF Range
  <2>2. \A id \in Range(sequence) : \E i \in 1..(m + n) : longer[i] = id
    BY <1>6, <1>8 DEF Range
  <2>3. \A id \in Range(block) : \E i \in 1..(m + n) : longer[i] = id
    BY <1>6, <1>8 DEF Range
  <2>4. Range(longer) = {longer[i] : i \in 1..(m + n)}
    BY <1>6 DEF Range
  <2>. QED  BY <2>1, <2>2, <2>3, <2>4
<1>10. RangesAscend(longer)
  <2> SUFFICES ASSUME NEW i \in 1..(m + n), NEW j \in 1..(m + n), i < j,
                      range_from_unique_blob_id(longer[i])
                        = range_from_unique_blob_id(longer[j])
               PROVE  longer[i] < longer[j]
    BY <1>6 DEF RangesAscend
  <2>1. CASE j <= m
    <3>1. i \in 1..m /\ j \in 1..m
      BY <1>6, <2>1
    <3>. QED  BY <1>2, <1>6, <1>8, <3>1 DEF RangesAscend
  <2>2. CASE i <= m /\ j > m
    <3>1. i \in 1..m
      BY <1>6, <2>2
    <3>2. longer[i] \in EpochIds /\ longer[j] \in UNION {ids(x) : x \in I}
      BY <1>2, <1>5, <1>6, <1>8, <2>2, <3>1 DEF Range
    <3>. QED  BY <1>4, <3>2
  <2>3. CASE i > m /\ j > m
    <3>1. i - m < j - m
      BY <1>6
    <3>2. /\ i - m \in DOMAIN block /\ longer[i] = block[i - m]
          /\ j - m \in DOMAIN block /\ longer[j] = block[j - m]
      BY <1>6, <1>8, <2>3
    <3>. QED  BY <1>5, <3>1, <3>2 DEF Ascending
  <2>. QED  BY <1>6, <2>1, <2>2, <2>3
<1>11. LogHoldsTheEpochs'
  BY <1>1, <1>2, <1>5, <1>7, <1>9 DEF LogHoldsTheEpochs
<1>12. IsPrefix(sequence, longer)
  <2>1. SubSeq(sequence, 1, m) = SubSeq(longer, 1, m)
    <3>1. SubSeq(sequence, 1, m) = [i \in 1..m |-> sequence[i]]
      BY <1>2, <1>6
    <3>2. SubSeq(longer, 1, m) = [i \in 1..m |-> longer[i]]
      BY <1>6
    <3>. QED  BY <1>8, <3>1, <3>2
  <2>. QED  BY <1>6, <2>1 DEF IsPrefix, m
<1>. QED
  BY <1>6, <1>7, <1>10, <1>11, <1>12 DEF LogInv

LEMMA LogInvInit == Init => LogInv
<1> SUFFICES ASSUME Init PROVE LogInv
  OBVIOUS
<1>1. sequence = <<>> /\ epochs = <<>> /\ DOMAIN sequence = {} /\ DOMAIN epochs = {}
  BY DEF Init
<1>2. sequence \in Seq(Nat)
  BY <1>1
<1>. QED
  BY <1>1, <1>2 DEF LogInv, LogHoldsTheEpochs, RangesAscend, EpochIds, Range

LEMMA LogInvStep == IndInv /\ LogInv /\ [Next]_vars => LogInv'
<1>1. UNCHANGED <<sequence, epochs>> /\ LogInv => LogInv'
  BY DEF LogInv, LogHoldsTheEpochs, EpochIds
<1>. QED
  BY <1>1, CommitKeepsLog DEF Next, Recalculate, vars

\* The log and the epochs, which the code keeps apart, never come to hold
\* different ids (LogLineriazer::new_epoch).
THEOREM LogAndEpochsAgree == Spec => []LogHoldsTheEpochs
<1>1. LogInv => LogHoldsTheEpochs
  BY DEF LogInv
<1>. QED
  BY <1>1, IndInvInit, IndInvStep, LogInvInit, LogInvStep, PTL DEF Spec

\* The maps, the epochs and the log hold what their types say, and no more
\* epochs are made than the bound.
THEOREM TypeCorrect == Spec => []TypeOK
<1>1. Init => Len(epochs) <= MaxEpochs
  BY EpochCommitAssumption DEF Init
<1>2. IndInv /\ Len(epochs) <= MaxEpochs /\ [Next]_vars => (Len(epochs) <= MaxEpochs)'
  <2> SUFFICES ASSUME IndInv, Len(epochs) <= MaxEpochs, [Next]_vars
               PROVE  Len(epochs') <= MaxEpochs
    OBVIOUS
  <2>1. CASE commit_epoch_if_needed
    <3> DEFINE I == calculate_epoch_increments(consensus_offset, commited_offsets)
    <3>1. Len(epochs) < MaxEpochs /\ epochs' = Append(epochs, I) /\ Len(epochs) \in Nat
      BY <2>1 DEF commit_epoch_if_needed, IndInv
    <3> HIDE DEF I
    <3>2. Len(epochs') = Len(epochs) + 1
      BY <3>1 DEF IndInv
    <3>. QED  BY <3>1, <3>2, EpochCommitAssumption
  <2>. QED  BY <2>1 DEF Next, Recalculate, vars
<1>3. IndInv /\ LogInv /\ Len(epochs) <= MaxEpochs => TypeOK
  BY DEF IndInv, LogInv, TypeOK
<1>. QED
  BY <1>1, <1>2, <1>3, IndInvInit, IndInvStep, LogInvInit, LogInvStep, PTL DEF Spec

\* The log is one that only grows, in which every range comes in order and
\* without a gap: EpochCommit implements TransactionLog.
THEOREM TheLogIsATransactionLog == Spec => LogIsATransactionLog
<1>1. Init => Log!Init
  BY DEF Init, Log!Init
<1>2. IndInv /\ LogInv /\ IndInv' /\ LogInv' /\ [Next]_vars => [Log!AppendBlock]_sequence
  <2> SUFFICES ASSUME IndInv, LogInv, IndInv', LogInv', Next
               PROVE  Log!AppendBlock \/ UNCHANGED sequence
    BY DEF vars
  <2>1. CASE commit_epoch_if_needed
    <3>1. IsPrefix(sequence, sequence')
      BY <2>1, CommitKeepsLog
    <3>2. /\ sequence' \in Seq(Nat) /\ commited_offsets' \in [KeyRange -> MaybeOffset]
          /\ Decodable(commited_offsets')
          /\ Range(sequence')
               = UNION {Prefix(range, commited_offsets'[range]) : range \in KeyRange}
          /\ RangesAscend(sequence')
      BY DEF IndInv, LogInv, LogHoldsTheEpochs, EpochsCoverCommited
    <3>3. InOrderWithoutGaps(sequence')
      BY <3>2, AscendingLogHasNoGaps
    <3>4. Log!IsPrefix(sequence, sequence')
      BY <3>1 DEF IsPrefix, Log!IsPrefix
    <3>5. \A S : Log!Cardinality(S) = Cardinality(S)
      BY DEF Cardinality, Log!Cardinality
    <3>6. Log!InOrderWithoutGaps(sequence')
      BY <3>3, <3>5 DEF InOrderWithoutGaps, Log!InOrderWithoutGaps,
                  range_from_unique_blob_id, Log!range_from_unique_blob_id, OutOfRange, Log!OutOfRange,
                  UniqueBlobId, Log!UniqueBlobId,
                  offset_from_unique_blob_id, Log!offset_from_unique_blob_id
    <3>. QED  BY <3>4, <3>6 DEF Log!AppendBlock
  <2>2. CASE Recalculate
    BY <2>2 DEF Recalculate
  <2>. QED  BY <2>1, <2>2 DEF Next
<1>. QED
  BY <1>1, <1>2, IndInvInit, IndInvStep, LogInvInit, LogInvStep, PTL
     DEF Spec, LogIsATransactionLog, Log!Spec
=============================================================================
