--------------------------- MODULE MaroonAppProofs --------------------------
(***************************************************************************)
(* Facts about what a node computes, for every size of a range and every   *)
(* number of ranges, transactions and increments: ids and their            *)
(* conversions (RangeKey), the block of ids an epoch adds to the log       *)
(* (Linearizer), and the functions of app.rs (MaroonApp). The proofs about *)
(* the specifications cite these and leave the operators unexpanded.       *)
(***************************************************************************)
EXTENDS MaroonApp, TLAPS, WellFoundedInduction, FiniteSetTheorems, SequenceTheorems

(***************************************************************************)
(* Transaction ids                                                         *)
(***************************************************************************)

\* A number has one quotient and one remainder by S.
LEMMA EuclideanUnique ==
  ASSUME NEW S \in Nat \ {0}, NEW q \in Int, NEW r \in Int,
         NEW m \in 0..(S - 1), NEW o \in 0..(S - 1), S * q + m = S * r + o
  PROVE  q = r /\ m = o
<1>1. CASE q > r
  <2>1. S * q >= S * (r + 1)
    BY <1>1, SMT
  <2>2. S * (r + 1) = S * r + S
    BY SMT
  <2>. QED  BY <2>1, <2>2, SMT
<1>2. CASE r > q
  <2>1. S * r >= S * (q + 1)
    BY <1>2, SMT
  <2>2. S * (q + 1) = S * q + S
    BY SMT
  <2>. QED  BY <2>1, <2>2, SMT
<1>3. CASE q = r
  BY <1>3, SMT
<1>. QED  BY <1>1, <1>2, <1>3

\* What \div and % are.
LEMMA Euclidean ==
  ASSUME NEW S \in Nat \ {0}, NEW x \in Nat
  PROVE  /\ x \div S \in Nat
         /\ x % S \in 0..(S - 1)
         /\ x = S * (x \div S) + (x % S)
BY SMT

\* An id is the id of its range and its offset
\* (range_offset_from_unique_blob_id, then back).
LEMMA EncodeDecode ==
  ASSUME NEW id \in UniqueBlobId
  PROVE  /\ range_from_unique_blob_id(id) \in Nat
         /\ offset_from_unique_blob_id(id) \in KeyOffset
         /\ unique_blob_id_from_range_and_offset(
              range_from_unique_blob_id(id), offset_from_unique_blob_id(id)) = id
<1>1. SINGLE_BLOB_SIZE \in Nat \ {0} /\ id \in Nat
  BY RangeKeyAssumption, SMT DEF UniqueBlobId
<1>2. /\ id \div SINGLE_BLOB_SIZE \in Nat
      /\ id % SINGLE_BLOB_SIZE \in 0..(SINGLE_BLOB_SIZE - 1)
      /\ id = SINGLE_BLOB_SIZE * (id \div SINGLE_BLOB_SIZE) + (id % SINGLE_BLOB_SIZE)
  BY <1>1, Euclidean
<1>. QED
  BY <1>1, <1>2 DEF range_from_unique_blob_id, offset_from_unique_blob_id,
                    unique_blob_id_from_range_and_offset, KeyOffset

LEMMA IdIsNatural ==
  ASSUME NEW range \in Nat, NEW offset \in KeyOffset
  PROVE  unique_blob_id_from_range_and_offset(range, offset) \in Nat
<1>1. SINGLE_BLOB_SIZE \in Nat /\ offset \in Nat /\ range * SINGLE_BLOB_SIZE \in Nat
  BY RangeKeyAssumption, SMT DEF KeyOffset
<1>. QED
  BY <1>1 DEF unique_blob_id_from_range_and_offset

\* The range and the offset of an id that decodes are the ones it was made of.
LEMMA DecodeEncode ==
  ASSUME NEW range \in Nat, NEW offset \in KeyOffset,
         unique_blob_id_from_range_and_offset(range, offset) \in UniqueBlobId
  PROVE  /\ range_from_unique_blob_id(
              unique_blob_id_from_range_and_offset(range, offset)) = range
         /\ offset_from_unique_blob_id(
              unique_blob_id_from_range_and_offset(range, offset)) = offset
<1> DEFINE id == unique_blob_id_from_range_and_offset(range, offset)
<1>1. SINGLE_BLOB_SIZE \in Nat \ {0} /\ offset \in 0..(SINGLE_BLOB_SIZE - 1)
  BY RangeKeyAssumption DEF KeyOffset
<1>2. id = SINGLE_BLOB_SIZE * range + offset
  BY <1>1, SMT DEF unique_blob_id_from_range_and_offset
<1>3. id \in Nat
  BY <1>1, <1>2, SMT
<1>4. /\ id \div SINGLE_BLOB_SIZE \in Nat
      /\ id % SINGLE_BLOB_SIZE \in 0..(SINGLE_BLOB_SIZE - 1)
      /\ id = SINGLE_BLOB_SIZE * (id \div SINGLE_BLOB_SIZE) + (id % SINGLE_BLOB_SIZE)
  BY <1>1, <1>3, Euclidean
<1>5. id \div SINGLE_BLOB_SIZE = range /\ id % SINGLE_BLOB_SIZE = offset
  <2> HIDE DEF id
  <2>1. id \in Nat /\ id \div SINGLE_BLOB_SIZE \in Nat
    BY <1>3, <1>4
  <2>. QED  BY <1>1, <1>2, <1>4, <2>1, EuclideanUnique
<1>. QED
  BY <1>5 DEF range_from_unique_blob_id, offset_from_unique_blob_id

\* A decodable id belongs to one of the ranges.
LEMMA RangeOfUniqueBlobId ==
  ASSUME NEW id \in UniqueBlobId
  PROVE  id \in Nat /\ range_from_unique_blob_id(id) \in KeyRange
<1>1. SINGLE_BLOB_SIZE \in Nat \ {0} /\ MAX_BLOCK_INDEX \in Nat
  BY RangeKeyAssumption
<1>2. id \in Nat /\ id <= MAX_BLOCK_INDEX * SINGLE_BLOB_SIZE
  BY <1>1, SMT DEF UniqueBlobId
<1> DEFINE q == id \div SINGLE_BLOB_SIZE
           m == id % SINGLE_BLOB_SIZE
<1>3. q \in Nat /\ m \in 0..(SINGLE_BLOB_SIZE - 1) /\ id = SINGLE_BLOB_SIZE * q + m
  BY <1>1, <1>2, Euclidean
<1>4. q <= MAX_BLOCK_INDEX
  <2> HIDE DEF q, m
  <2> SUFFICES ASSUME q >= MAX_BLOCK_INDEX + 1 PROVE FALSE
    BY <1>1, <1>3
  <2>1. SINGLE_BLOB_SIZE * q >= SINGLE_BLOB_SIZE * (MAX_BLOCK_INDEX + 1)
    BY <1>1, <1>3, SMT
  <2>2. SINGLE_BLOB_SIZE * (MAX_BLOCK_INDEX + 1)
          = MAX_BLOCK_INDEX * SINGLE_BLOB_SIZE + SINGLE_BLOB_SIZE
    BY <1>1, SMT
  <2>. QED  BY <1>1, <1>2, <1>3, <2>1, <2>2, SMT
<1>. QED
  BY <1>1, <1>2, <1>3, <1>4 DEF range_from_unique_blob_id, KeyRange

\* An id at or above a range's first is, whatever range it is in, at or above
\* that range's id with the same offset: the pointer that a walk leaves behind
\* never names an id the walk has not passed.
LEMMA SameOffsetBelow ==
  ASSUME NEW range \in Nat, NEW start \in KeyOffset, NEW offset \in KeyOffset,
         NEW id \in UniqueBlobId,
         unique_blob_id_from_range_and_offset(range, start) <= id,
         offset <= offset_from_unique_blob_id(id)
  PROVE  unique_blob_id_from_range_and_offset(range, offset) <= id
<1> DEFINE S == SINGLE_BLOB_SIZE
           q == id \div S
           m == id % S
<1>1. S \in Nat \ {0} /\ start \in 0..(S - 1) /\ offset \in 0..(S - 1) /\ id \in Nat
  BY RangeKeyAssumption, SMT DEF KeyOffset, UniqueBlobId
<1>2. q \in Nat /\ m \in 0..(S - 1) /\ id = S * q + m
  BY <1>1, Euclidean
<1>3. range * S + start <= id /\ offset <= m
  BY DEF unique_blob_id_from_range_and_offset, offset_from_unique_blob_id
<1> HIDE DEF S, q, m
<1>4. range <= q
  <2> SUFFICES ASSUME range >= q + 1 PROVE FALSE
    BY <1>2
  <2>1. range * S >= (q + 1) * S
    BY <1>1, <1>2, SMT
  <2>2. (q + 1) * S = S * q + S
    BY <1>1, <1>2, SMT
  <2>. QED  BY <1>1, <1>2, <1>3, <2>1, <2>2, SMT
<1>5. range * S <= S * q
  BY <1>1, <1>2, <1>4, SMT
<1>6. range * S + offset <= id
  BY <1>1, <1>2, <1>3, <1>5, SMT
<1>. QED
  BY <1>6 DEF S, unique_blob_id_from_range_and_offset

\* Within a range, ids are ordered as their offsets are.
LEMMA OffsetsOrderIds ==
  ASSUME NEW range \in Nat, NEW a \in KeyOffset, NEW b \in KeyOffset
  PROVE  a <= b <=> unique_blob_id_from_range_and_offset(range, a)
                      <= unique_blob_id_from_range_and_offset(range, b)
<1>1. SINGLE_BLOB_SIZE \in Nat /\ range * SINGLE_BLOB_SIZE \in Nat /\ a \in Nat /\ b \in Nat
  BY RangeKeyAssumption, SMT DEF KeyOffset
<1>. QED
  BY <1>1, SMT DEF unique_blob_id_from_range_and_offset

-----------------------------------------------------------------------------
(***************************************************************************)
(* Induction over the naturals, stated of a set of them.                   *)
(***************************************************************************)

\* A set of naturals that is not empty has a least element.
LEMMA LeastNatural ==
  ASSUME NEW T \in SUBSET Nat, T # {}
  PROVE  \E x \in T : \A y \in T : x <= y
<1> DEFINE less == OpToRel(<, Nat)
<1>1. \A a, b \in Nat : a < b => <<a, b>> \in less
  BY DEF OpToRel
<1>2. IsWellFoundedOn(less, Nat)
  BY NatLessThanWellFounded, Zenon
<1> HIDE DEF less
<1>3. PICK x \in T : \A y \in T : ~(<<y, x>> \in less)
  BY <1>2, WFMin
<1>4. \A y \in T : ~(y < x)
  BY <1>1, <1>3
<1>5. \A y \in T : x <= y
  BY <1>4, SMT
<1>. QED
  BY <1>5

LEMMA SetInduction ==
  ASSUME NEW Q, 0 \in Q, \A n \in Nat : n \in Q => n + 1 \in Q
  PROVE  Nat \subseteq Q
<1> SUFFICES ASSUME Nat \ Q # {} PROVE FALSE
  OBVIOUS
<1>1. PICK x \in Nat \ Q : \A y \in Nat \ Q : x <= y
  BY LeastNatural
<1>2. x - 1 \in Nat /\ x - 1 \in Q
  BY <1>1, SMT
<1>. QED
  BY <1>1, <1>2, SMT

-----------------------------------------------------------------------------
(***************************************************************************)
(* The increments of an epoch, sorted                                      *)
(***************************************************************************)

\* sorted lists every increment once, by its first id. Each goes in the place
\* of its rank: the number of increments that do not begin after it.
LEMMA SortedIncrements ==
  ASSUME NEW I, IsFiniteSet(I), \A x \in I : x.left \in Nat,
         \A x, y \in I : x.left = y.left => x = y
  PROVE  /\ Cardinality(I) \in Nat
         /\ sorted(I) \in [1..Cardinality(I) -> I]
         /\ \A x \in I : \E i \in 1..Cardinality(I) : sorted(I)[i] = x
         /\ \A i, j \in 1..Cardinality(I) : i < j => sorted(I)[i].left < sorted(I)[j].left
<1> DEFINE n == Cardinality(I)
           below(x) == {y \in I : y.left <= x.left}
           rank == [x \in I |-> Cardinality(below(x))]
           seq == [i \in 1..n |-> CHOOSE x \in I : rank[x] = i]
           InOrder(s) == \A i, j \in DOMAIN s : i < j => s[i].left < s[j].left
<1>1. n \in Nat /\ IsFiniteSet(1..n) /\ Cardinality(1..n) = n
  BY FS_CardinalityType, FS_Interval
<1>2. ASSUME NEW x \in I
      PROVE  /\ IsFiniteSet(below(x)) /\ Cardinality(below(x)) \in 1..n
             /\ rank[x] = Cardinality(below(x))
  <2>1. below(x) \in SUBSET I /\ x \in below(x)
    OBVIOUS
  <2>2. /\ IsFiniteSet(below(x)) /\ Cardinality(below(x)) <= n
        /\ Cardinality(below(x)) \in Nat
    BY <2>1, FS_Subset, FS_CardinalityType
  <2>3. Cardinality(below(x)) # 0
    BY <2>1, <2>2, FS_EmptySet
  <2>. QED  BY <1>1, <2>2, <2>3
<1> HIDE DEF rank
<1>3. ASSUME NEW x \in I, NEW y \in I, x.left < y.left
      PROVE  rank[x] < rank[y]
  <2>1. below(x) \in SUBSET below(y) /\ y \in below(y) /\ y \notin below(x)
    BY <1>3
  <2>2. Cardinality(below(x)) <= Cardinality(below(y))
        /\ Cardinality(below(x)) # Cardinality(below(y))
    BY <1>2, <2>1, FS_Subset
  <2> HIDE DEF below, n
  <2>. QED  BY <1>1, <1>2, <2>2
<1>4. rank \in Surjection(I, 1..n)
  <2>1. ASSUME NEW x \in I, NEW y \in I, rank[x] = rank[y]
        PROVE  x = y
    <3> HIDE DEF below, n
    <3>1. ~(x.left < y.left) /\ ~(y.left < x.left)
      BY <1>1, <1>2, <1>3, <2>1
    <3>. QED  BY <3>1
  <2>2. rank \in [I -> 1..n]
    BY <1>2 DEF rank
  <2>3. rank \in Injection(I, 1..n)
    BY <2>1, <2>2 DEF Injection, IsInjective
  <2>. QED  BY <1>1, <2>3, FS_Injection
<1>5. ASSUME NEW i \in 1..n PROVE seq[i] \in I /\ rank[seq[i]] = i
  BY <1>4 DEF Surjection
<1> HIDE DEF n, rank
<1>6. seq \in SetToSeqs(I) /\ InOrder(seq)
  <2>1. ASSUME NEW i \in 1..n, NEW j \in 1..n, i < j
        PROVE  seq[i].left < seq[j].left
    <3>1. seq[i] \in I /\ seq[j] \in I /\ rank[seq[i]] = i /\ rank[seq[j]] = j
      BY <1>5
    <3>2. ~(seq[j].left < seq[i].left) /\ seq[i].left # seq[j].left
      <4> HIDE DEF seq
      <4>. QED  BY <1>1, <1>3, <2>1, <3>1
    <3>. QED  BY <3>1, <3>2
  <2>2. \A i, j \in 1..n : i # j => seq[i] # seq[j]
    BY <1>5
  <2>3. seq \in [1..n -> I]
    BY <1>5
  <2>. QED  BY <2>1, <2>2, <2>3 DEF SetToSeqs, n
<1> HIDE DEF seq
<1>7. sorted(I) \in SetToSeqs(I) /\ InOrder(sorted(I))
  BY <1>6 DEF sorted
<1>8. sorted(I) \in [1..n -> I] /\ \A i, j \in 1..n : i # j => sorted(I)[i] # sorted(I)[j]
  BY <1>7 DEF SetToSeqs, n
<1>9. sorted(I) \in Surjection(1..n, I)
  <2>1. sorted(I) \in Injection(1..n, I)
    BY <1>8 DEF Injection, IsInjective
  <2>. QED  BY <1>1, <2>1, FS_Injection DEF n
<1>. QED
  BY <1>1, <1>7, <1>8, <1>9 DEF Surjection, n

-----------------------------------------------------------------------------
(***************************************************************************)
(* The ids of the sorted increments, one after another                     *)
(***************************************************************************)

Ascending(seq) == \A i, j \in DOMAIN seq : i < j => seq[i] < seq[j]

\* One more interval, all of it above what is there, is iterated in order.
LEMMA AppendInterval ==
  ASSUME NEW seq \in Seq(Nat), Ascending(seq),
         NEW x \in [left : Nat, right : Nat], x.left <= x.right,
         \A id \in Range(seq) : id < x.left
  PROVE  /\ seq \o iter(x) \in Seq(Nat)
         /\ Range(seq \o iter(x)) = Range(seq) \cup ids(x)
         /\ Ascending(seq \o iter(x))
<1> DEFINE n == ids_count(x)
           m == Len(seq)
           longer == seq \o iter(x)
<1>1. n \in Nat /\ m \in Nat /\ iter(x) = [i \in 1..n |-> x.left + i - 1]
  BY DEF ids_count, iter
<1>2. iter(x) \in Seq(Nat) /\ Len(iter(x)) = n
  <2>1. \A i \in 1..n : x.left + i - 1 \in Nat
    BY <1>1, SMT
  <2>2. iter(x) \in [1..n -> Nat]
    BY <1>1, <2>1
  <2>. QED  BY <1>1, <2>2, SeqDef
<1>3. /\ longer \in Seq(Nat) /\ Len(longer) = m + n /\ DOMAIN longer = 1..(m + n)
      /\ \A i \in 1..(m + n) : longer[i] = IF i <= m THEN seq[i] ELSE iter(x)[i - m]
  <2>1. /\ longer \in Seq(Nat) /\ Len(longer) = m + Len(iter(x))
        /\ \A i \in 1..(m + Len(iter(x))) :
             longer[i] = IF i <= m THEN seq[i] ELSE iter(x)[i - m]
    BY <1>2, ConcatProperties
  <2> HIDE DEF longer, n
  <2>. QED  BY <1>2, <2>1, LenProperties
<1>4. \A i \in 1..(m + n) :
        longer[i] = IF i <= m THEN seq[i] ELSE x.left + (i - m) - 1
  <2>. TAKE i \in 1..(m + n)
  <2>1. CASE i > m
    BY <1>1, <1>3, <2>1
  <2>. QED  BY <1>1, <1>3, <2>1
<1>5. DOMAIN seq = 1..m /\ \A i \in 1..m : seq[i] \in Nat /\ seq[i] < x.left
  <2>1. DOMAIN seq = 1..m
    OBVIOUS
  <2>. QED  BY <2>1 DEF Range
<1> HIDE DEF longer, m, n
<1>6. Range(longer) = Range(seq) \cup ids(x)
  <2>1. ASSUME NEW i \in 1..(m + n) PROVE longer[i] \in Range(seq) \cup ids(x)
    <3>1. CASE i <= m
      <4>1. i \in 1..m /\ longer[i] = seq[i]
        BY <1>1, <1>4, <3>1
      <4>. QED  BY <1>5, <4>1 DEF Range
    <3>2. CASE i > m
      BY <1>1, <1>4, <3>2 DEF n, ids, ids_count
    <3>. QED  BY <1>1, <3>1, <3>2
  <2>2. ASSUME NEW id \in Range(seq) PROVE \E i \in 1..(m + n) : longer[i] = id
    <3>1. PICK i \in 1..m : seq[i] = id
      BY <1>5 DEF Range
    <3>2. i \in 1..(m + n) /\ i <= m
      BY <1>1
    <3>. QED  BY <1>4, <3>1, <3>2
  <2>3. ASSUME NEW id \in ids(x) PROVE \E i \in 1..(m + n) : longer[i] = id
    <3>1. id \in Nat /\ x.left <= id /\ id <= x.right
      BY DEF ids
    <3>2. /\ m + (id - x.left) + 1 \in 1..(m + n) /\ m + (id - x.left) + 1 > m
          /\ x.left + ((m + (id - x.left) + 1) - m) - 1 = id
      BY <1>1, <3>1 DEF n, ids_count
    <3>3. longer[m + (id - x.left) + 1] = id
      BY <1>1, <1>4, <3>2
    <3>. QED  BY <3>2, <3>3
  <2>4. Range(longer) = {longer[i] : i \in 1..(m + n)}
    BY <1>3 DEF Range
  <2>. QED  BY <2>1, <2>2, <2>3, <2>4
<1>7. ASSUME NEW i \in 1..(m + n), NEW j \in 1..(m + n), i < j
      PROVE  longer[i] < longer[j]
  <2>1. CASE j <= m
    <3>1. i \in 1..m /\ j \in 1..m
      BY <1>1, <1>7, <2>1
    <3>2. longer[i] = seq[i] /\ longer[j] = seq[j]
      BY <1>4, <3>1
    <3>. QED  BY <1>5, <1>7, <3>1, <3>2 DEF Ascending
  <2>2. CASE i > m
    <3>1. j > m
      BY <1>1, <1>7, <2>2
    <3>2. longer[i] = x.left + (i - m) - 1 /\ longer[j] = x.left + (j - m) - 1
      BY <1>1, <1>4, <2>2, <3>1
    <3>. QED  BY <1>1, <1>7, <3>2
  <2>3. CASE i <= m /\ j > m
    BY <1>1, <1>4, <1>5, <2>3
  <2>. QED  BY <1>1, <2>1, <2>2, <2>3
<1>. QED
  BY <1>3, <1>6, <1>7 DEF longer, Ascending

\* FlattenSeq is the last of the concatenations it goes through. That there is
\* a function with its recursive definition is shown length by length.
LEMMA Flattened ==
  ASSUME NEW n \in Nat \ {0}, NEW seqs \in [1..n -> Seq(Nat)]
  PROVE  \E f : /\ FlattenSeq(seqs) = f[n]
                /\ f[1] = seqs[1]
                /\ \A i \in 2..n : f[i] = f[i - 1] \o seqs[i]
<1> DEFINE step(f, i) == IF i = 1 THEN seqs[i] ELSE f[i - 1] \o seqs[i]
           Q == {m \in Nat : \E f : f = [i \in 1..m |-> step(f, i)]}
<1>1. 0 \in Q
  <2>1. <<>> = [i \in 1..0 |-> step(<<>>, i)]
    BY SMT
  <2>. QED  BY <2>1
<1>2. ASSUME NEW m \in Nat, m \in Q PROVE m + 1 \in Q
  <2>1. PICK f : f = [i \in 1..m |-> step(f, i)]
    BY <1>2
  <2> DEFINE g == [i \in 1..(m + 1) |-> IF i \in 1..m THEN f[i] ELSE step(f, i)]
  <2>2. ASSUME NEW i \in 1..(m + 1) PROVE g[i] = step(g, i)
    <3>1. CASE i = 1
      BY <2>1, <3>1
    <3>2. CASE i # 1
      <4>1. i - 1 \in 1..m /\ i - 1 \in 1..(m + 1)
        BY <3>2, SMT
      <4>2. g[i - 1] = f[i - 1]
        BY <4>1
      <4>3. i \in 1..m => f[i] = step(f, i)
        BY <2>1
      <4>4. g[i] = step(f, i)
        BY <4>3
      <4>. QED  BY <3>2, <4>2, <4>4
    <3>. QED  BY <3>1, <3>2
  <2>3. g = [i \in 1..(m + 1) |-> step(g, i)]
    <3>1. g = [i \in 1..(m + 1) |-> g[i]]
      OBVIOUS
    <3> HIDE DEF g
    <3>. QED  BY <2>2, <3>1
  <2> HIDE DEF g, step
  <2>4. \E h : h = [i \in 1..(m + 1) |-> step(h, i)]
    BY <2>3
  <2>. QED  BY <2>4
<1>3. \E f : f = [i \in 1..n |-> step(f, i)]
  <2>1. n \in Q
    BY <1>1, <1>2, SetInduction
  <2>. QED  BY <2>1
<1> DEFINE flatten == CHOOSE f : f = [i \in 1..n |-> step(f, i)]
<1>4. flatten = [i \in 1..n |-> step(flatten, i)]
  BY <1>3
<1>5. Len(seqs) = n
  BY SeqDef
<1>6. FlattenSeq(seqs) = flatten[n]
  BY <1>5 DEF FlattenSeq
<1> HIDE DEF flatten
<1>7. \A i \in 1..n : flatten[i] = step(flatten, i)
  BY <1>4
<1>8. flatten[1] = seqs[1]
  BY <1>7
<1>9. ASSUME NEW i \in 2..n PROVE flatten[i] = flatten[i - 1] \o seqs[i]
  <2>1. i \in 1..n /\ i # 1
    OBVIOUS
  <2>. QED  BY <1>7, <2>1
<1>. QED
  BY <1>6, <1>8, <1>9

\* Intervals that follow one another are iterated in order, whatever their
\* number: the two loops of LogLineriazer::new_epoch.
LEMMA FlattenedIntervals ==
  ASSUME NEW n \in Nat, NEW s \in [1..n -> [left : Nat, right : Nat]],
         \A i \in 1..n : s[i].left <= s[i].right,
         \A i, j \in 1..n : i < j => s[i].right < s[j].left
  PROVE  LET block == FlattenSeq([i \in 1..n |-> iter(s[i])])
         IN  /\ block \in Seq(Nat)
             /\ Range(block) = UNION {ids(s[i]) : i \in 1..n}
             /\ Ascending(block)
<1> DEFINE seqs == [i \in 1..n |-> iter(s[i])]
           upto(m) == UNION {ids(s[i]) : i \in 1..m}
           Good(seq, m) == seq \in Seq(Nat) /\ Range(seq) = upto(m) /\ Ascending(seq)
<1>1. <<>> \in Seq(Nat) /\ Range(<<>>) = {} /\ Ascending(<<>>)
  BY DEF Range, Ascending
<1>2. CASE n = 0
  <2>1. 1..n = {} /\ seqs = <<>>
    BY <1>2, SMT
  <2>2. FlattenSeq(<<>>) = <<>>
    BY DEF FlattenSeq
  <2>. QED  BY <1>1, <2>1, <2>2
<1>3. CASE n # 0
  <2>1. ASSUME NEW i \in 1..n
        PROVE  /\ s[i] \in [left : Nat, right : Nat]
               /\ <<>> \o iter(s[i]) = iter(s[i])
               /\ iter(s[i]) \in Seq(Nat)
    <3>1. s[i] \in [left : Nat, right : Nat] /\ ids_count(s[i]) \in Nat
      BY DEF ids_count
    <3>2. \A k \in 1..ids_count(s[i]) : s[i].left + k - 1 \in Nat
      BY <3>1, SMT
    <3>3. iter(s[i]) \in [1..ids_count(s[i]) -> Nat]
      BY <3>2 DEF iter
    <3>4. iter(s[i]) \in Seq(Nat)
      BY <3>1, <3>3, SeqDef
    <3>. QED  BY <3>1, <3>4, ConcatEmptySeq
  <2>2. seqs \in [1..n -> Seq(Nat)] /\ \A i \in 1..n : seqs[i] = iter(s[i])
    BY <2>1
  <2> HIDE DEF seqs
  <2>3. PICK f : /\ FlattenSeq(seqs) = f[n]
                 /\ f[1] = seqs[1]
                 /\ \A i \in 2..n : f[i] = f[i - 1] \o seqs[i]
    <3>1. n \in Nat \ {0}
      BY <1>3
    <3>. QED  BY <2>2, <3>1, Flattened
  <2> DEFINE Q == {m \in Nat : m + 1 \in 1..n => Good(f[m + 1], m + 1)}
  <2>4. ASSUME NEW seq, NEW m \in Nat, m + 1 \in 1..n, Good(seq, m)
        PROVE  Good(seq \o iter(s[m + 1]), m + 1)
    <3>1. \A id \in Range(seq) : id < s[m + 1].left
      <4>. TAKE id \in Range(seq)
      <4>1. PICK i \in 1..m : id \in ids(s[i])
        BY <2>4
      <4>2. i \in 1..n /\ i < m + 1
        BY <2>4, SMT
      <4>3. s[i].right < s[m + 1].left
        BY <2>4, <4>2
      <4>. QED  BY <2>1, <2>4, <4>1, <4>2, <4>3 DEF ids
    <3>2. /\ seq \o iter(s[m + 1]) \in Seq(Nat)
          /\ Range(seq \o iter(s[m + 1])) = Range(seq) \cup ids(s[m + 1])
          /\ Ascending(seq \o iter(s[m + 1]))
      BY <2>1, <2>4, <3>1, AppendInterval
    <3>3. upto(m + 1) = upto(m) \cup ids(s[m + 1])
      <4>1. 1..(m + 1) = 1..m \cup {m + 1}
        BY SMT
      <4>. QED  BY <4>1
    <3>. QED  BY <2>4, <3>2, <3>3
  <2>5. Good(<<>>, 0)
    <3>1. upto(0) = {}
      BY SMT
    <3>. QED  BY <1>1, <3>1
  <2> HIDE DEF Good
  <2>6. 0 \in Q
    <3>1. 1 \in 1..n /\ 0 + 1 = 1
      BY <1>3, SMT
    <3>2. Good(<<>> \o iter(s[1]), 1)
      <4>1. Good(<<>> \o iter(s[0 + 1]), 0 + 1)
        BY <2>4, <2>5, <3>1, Zenon
      <4>. QED  BY <3>1, <4>1
    <3>. QED  BY <2>1, <2>2, <2>3, <3>1, <3>2
  <2>7. ASSUME NEW m \in Nat, m \in Q PROVE m + 1 \in Q
    <3> SUFFICES ASSUME m + 2 \in 1..n PROVE Good(f[m + 2], m + 2)
      OBVIOUS
    <3>1. m + 1 \in 1..n /\ m + 1 \in Nat /\ (m + 1) + 1 = m + 2 /\ m + 2 \in 2..n
          /\ (m + 2) - 1 = m + 1
      BY SMT
    <3>2. Good(f[m + 1], m + 1)
      BY <2>7, <3>1
    <3>3. Good(f[m + 1] \o iter(s[m + 2]), m + 2)
      BY <2>4, <3>1, <3>2
    <3>4. f[m + 2] = f[m + 1] \o iter(s[m + 2])
      BY <2>2, <2>3, <3>1
    <3>. QED  BY <3>3, <3>4
  <2>8. Good(f[n], n)
    <3>1. n - 1 \in Q /\ (n - 1) + 1 = n
      <4>1. n - 1 \in Nat /\ (n - 1) + 1 = n
        BY <1>3, SMT
      <4> HIDE DEF Q
      <4>. QED  BY <2>6, <2>7, <4>1, SetInduction
    <3>. QED  BY <1>3, <3>1
  <2>. QED  BY <2>3, <2>8 DEF Good, seqs
<1>. QED
  BY <1>2, <1>3

\* An epoch adds one block of ids to the log: those of its increments, each of
\* them once, from the smallest to the largest.
LEMMA NewEpochAppends ==
  ASSUME NEW sequence \in Seq(Nat),
         NEW I \in SUBSET [left : Nat, right : Nat], IsFiniteSet(I),
         \A x \in I : x.left <= x.right,
         \A x, y \in I : x # y => ids(x) \cap ids(y) = {}
  PROVE  \E block \in Seq(Nat) :
            /\ new_epoch(sequence, I) = sequence \o block
            /\ Range(block) = UNION {ids(x) : x \in I}
            /\ Ascending(block)
<1> DEFINE n == Cardinality(I)
           s == sorted(I)
           block == FlattenSeq([i \in DOMAIN s |-> iter(s[i])])
<1>1. ASSUME NEW x \in I, NEW y \in I, x.left <= y.left, y.left <= x.right
      PROVE  x = y
  <2>1. y.left \in ids(x) /\ y.left \in ids(y)
    BY <1>1 DEF ids
  <2>. QED  BY <2>1
<1>2. \A x \in I : x.left \in Nat
  OBVIOUS
<1>3. \A x, y \in I : x.left = y.left => x = y
  BY <1>1
<1>4. /\ n \in Nat /\ s \in [1..n -> I]
      /\ \A x \in I : \E i \in 1..n : s[i] = x
      /\ \A i, j \in 1..n : i < j => s[i].left < s[j].left
  BY <1>2, <1>3, SortedIncrements
<1> HIDE DEF n, s
<1>5. s \in [1..n -> [left : Nat, right : Nat]] /\ DOMAIN s = 1..n
  BY <1>4
<1>6. \A i \in 1..n : s[i].left <= s[i].right
  BY <1>4
<1>7. \A i, j \in 1..n : i < j => s[i].right < s[j].left
  <2>. TAKE i, j \in 1..n
  <2> SUFFICES ASSUME i < j, ~(s[i].right < s[j].left) PROVE FALSE
    OBVIOUS
  <2>1. s[i] \in I /\ s[j] \in I /\ s[i].left < s[j].left
    BY <1>4
  <2>2. s[i].left \in Nat /\ s[i].right \in Nat /\ s[j].left \in Nat
    BY <2>1
  <2>3. s[i].left <= s[j].left /\ s[j].left <= s[i].right
    BY <2>1, <2>2
  <2>4. s[i] = s[j]
    BY <1>1, <2>1, <2>3
  <2>. QED  BY <2>1, <2>2, <2>4
<1>8. /\ block \in Seq(Nat)
      /\ Range(block) = UNION {ids(s[i]) : i \in 1..n}
      /\ Ascending(block)
  BY <1>4, <1>5, <1>6, <1>7, FlattenedIntervals
<1>9. UNION {ids(s[i]) : i \in 1..n} = UNION {ids(x) : x \in I}
  <2>1. \A id : (\E i \in 1..n : id \in ids(s[i])) <=> (\E x \in I : id \in ids(x))
    BY <1>4
  <2>. QED  BY <2>1
<1>10. new_epoch(sequence, I) = sequence \o block
  BY DEF new_epoch, s
<1> HIDE DEF block
<1>. QED
  BY <1>8, <1>9, <1>10

-----------------------------------------------------------------------------
(***************************************************************************)
(* The functions of app.rs                                                 *)
(***************************************************************************)

\* Min and Max do return the least and the greatest element.
LEMMA MinOfNaturals ==
  ASSUME NEW T \in SUBSET Nat, T # {}
  PROVE  Min(T) \in T /\ \A y \in T : Min(T) <= y
BY LeastNatural DEF Min

LEMMA MaxOfBoundedNaturals ==
  ASSUME NEW T \in SUBSET Nat, T # {}, NEW b \in Nat, \A y \in T : y <= b
  PROVE  Max(T) \in T /\ \A y \in T : Max(T) >= y
<1> DEFINE D == {b - y : y \in T}
<1>1. D \in SUBSET Nat /\ D # {}
  OBVIOUS
<1>2. Min(D) \in D /\ \A d \in D : Min(D) <= d
  BY <1>1, MinOfNaturals
<1>3. PICK x \in T : Min(D) = b - x
  BY <1>2
<1>4. \A y \in T : x >= y
  <2>. TAKE y \in T
  <2>1. b - x <= b - y
    BY <1>2, <1>3
  <2>. QED  BY <2>1
<1>. QED
  BY <1>3, <1>4 DEF Max

\* An interval within a range covers the ids of the offsets between its ends.
LEMMA IdsOfAnInterval ==
  ASSUME NEW range \in KeyRange, NEW a \in Nat, NEW b \in Nat
  PROVE  ids(new_from_range_and_offsets(range, a, b))
           = {unique_blob_id_from_range_and_offset(range, o) : o \in a..b}
<1>1. PICK base \in Nat : base = range * SINGLE_BLOB_SIZE
  BY RangeKeyAssumption, SMT DEF KeyRange
<1>2. ids(new_from_range_and_offsets(range, a, b)) = (base + a)..(base + b)
  BY <1>1 DEF ids, new_from_range_and_offsets, unique_blob_id_from_range_and_offset
<1>3. {unique_blob_id_from_range_and_offset(range, o) : o \in a..b} = {base + o : o \in a..b}
  BY <1>1 DEF unique_blob_id_from_range_and_offset
<1>4. ASSUME NEW x \in (base + a)..(base + b) PROVE x \in {base + o : o \in a..b}
  <2>1. x - base \in a..b /\ x = base + (x - base)
    BY SMT
  <2>. QED  BY <2>1
<1>5. ASSUME NEW o \in a..b PROVE base + o \in (base + a)..(base + b)
  BY SMT
<1>. QED
  BY <1>2, <1>3, <1>4, <1>5

\* The walk of update_self_offsets only passes ids that are held, and stops
\* only where the next one is not.
LEMMA WalkIsHeld ==
  ASSUME NEW held \in SUBSET UniqueBlobId, NEW key \in held
  PROVE  /\ walk(held, key) \in Nat
         /\ key <= walk(held, key)
         /\ \A id \in key..walk(held, key) : id \in held
         /\ walk(held, key) + 1 \notin held
<1> DEFINE last == MAX_BLOCK_INDEX * SINGLE_BLOB_SIZE
           M == {k \in key..last : k + 1 \notin held}
<1>1. last \in Nat /\ UniqueBlobId = 0..last
  BY RangeKeyAssumption, SMT DEF UniqueBlobId
<1>2. key \in 0..last
  BY <1>1
<1> HIDE DEF last
<1>3. last \in M
  BY <1>1, <1>2
<1>4. M \in SUBSET Nat /\ M # {}
  <2>1. \A k \in key..last : k \in Nat
    BY <1>1, <1>2, SMT
  <2>. QED  BY <1>3, <2>1
<1>5. Min(M) \in M /\ \A k \in M : Min(M) <= k
  BY <1>4, MinOfNaturals
<1>6. walk(held, key) = Min(M)
  BY DEF walk, last
<1>7. ASSUME NEW id \in key..Min(M) PROVE id \in held
  <2>1. CASE id = key
    BY <2>1
  <2>2. CASE id # key
    <3>1. id - 1 \in key..last /\ id - 1 < Min(M)
      BY <1>1, <1>2, <1>5, <2>2
    <3>2. id - 1 \notin M
      BY <1>1, <1>2, <1>5, <3>1, SMT
    <3>3. (id - 1) + 1 = id
      BY <1>1, <1>2, <1>5, SMT
    <3>. QED  BY <3>1, <3>2, <3>3
  <2>. QED  BY <2>1, <2>2
<1>. QED
  BY <1>2, <1>4, <1>5, <1>6, <1>7

\* A batch has finitely many ranges, each one with a place of its own.
LEMMA RanksAreNumbers ==
  ASSUME NEW txs \in SUBSET UniqueBlobId, NEW rank \in Ranks(txs)
  PROVE  rank \in [RangesOf(txs) -> Nat]
<1>1. RangesOf(txs) \subseteq KeyRange
  BY RangeOfUniqueBlobId DEF RangesOf
<1>2. IsFiniteSet(KeyRange)
  BY FS_Interval, RangeKeyAssumption DEF KeyRange
<1>3. Cardinality(RangesOf(txs)) \in Nat
  BY <1>1, <1>2, FS_Subset, FS_CardinalityType
<1>4. rank \in [RangesOf(txs) -> 1..Cardinality(RangesOf(txs))]
  BY DEF Ranks, Bijection, Injection
<1>. QED
  BY <1>3, <1>4

\* The pointers that update_self_offsets returns cover only what the node then
\* holds, if the pointers it was given did: whatever the batch, the order of
\* its ranges, and even when a walk runs into the next range.
LEMMA UpdatedOffsetsAreHeld ==
  ASSUME NEW self \in [KeyRange -> MaybeOffset],
         NEW T \in SUBSET UniqueBlobId, NEW txs \in SUBSET UniqueBlobId,
         NEW rank \in Ranks(txs),
         \A range \in KeyRange : \A o \in 0..self[range] :
           unique_blob_id_from_range_and_offset(range, o) \in T
  PROVE  /\ update_self_offsets(self, T, txs, rank) \in [KeyRange -> MaybeOffset]
         /\ \A range \in KeyRange :
              \A o \in 0..update_self_offsets(self, T, txs, rank)[range] :
                unique_blob_id_from_range_and_offset(range, o) \in T \cup txs
<1> DEFINE new == update_self_offsets(self, T, txs, rank)
<1>1. ASSUME NEW range \in KeyRange, range \notin UpdatedRanges(self, txs)
      PROVE  new[range] = self[range]
  BY <1>1 DEF update_self_offsets
<1>2. ASSUME NEW range \in KeyRange, range \in UpdatedRanges(self, txs)
      PROVE  /\ new[range] \in KeyOffset
             /\ \A o \in 0..new[range] :
                  unique_blob_id_from_range_and_offset(range, o) \in T \cup txs
  <2> DEFINE start == StartOffset(range, self, txs)
             key == unique_blob_id_from_range_and_offset(range, start)
             held == HeldAt(range, T, txs, rank)
             last == walk(held, key)
  <2>1. range \in Nat /\ range \in RangesOf(txs) /\ start # None
    BY <1>2 DEF UpdatedRanges, KeyRange
  <2>2. held \in SUBSET UniqueBlobId /\ T \subseteq held /\ held \subseteq T \cup txs
    BY DEF HeldAt
  <2>3. start \in KeyOffset
    <3>1. 0 \in KeyOffset
      BY RangeKeyAssumption, SMT DEF KeyOffset
    <3>. QED  BY <2>1, <3>1 DEF StartOffset, MaybeOffset
  <2>4. key \in held
    <3>1. CASE self[range] # None
      <4>1. start = self[range] /\ start \in 0..self[range]
        BY <2>3, <3>1, SMT DEF StartOffset, KeyOffset
      <4>. QED  BY <2>2, <4>1
    <3>2. CASE self[range] = None
      <4>1. start = 0 /\ key \in txs
        BY <2>1, <3>2 DEF StartOffset
      <4>2. range_from_unique_blob_id(key) = range
        BY <2>1, <2>3, <4>1, DecodeEncode
      <4>3. rank[range] <= rank[range]
        BY <2>1, RanksAreNumbers, SMT
      <4>. QED  BY <4>1, <4>2, <4>3 DEF HeldAt
    <3>. QED  BY <3>1, <3>2
  <2>5. /\ last \in Nat
        /\ key <= last
        /\ \A id \in key..last : id \in held
        /\ last \in UniqueBlobId
    <3>1. /\ last \in Nat /\ key <= last /\ key \in Nat
          /\ \A id \in key..last : id \in held
      BY <2>1, <2>2, <2>3, <2>4, WalkIsHeld, IdIsNatural
    <3>2. last \in key..last
      <4> HIDE DEF last, key
      <4>. QED  BY <3>1
    <3>. QED  BY <2>2, <3>1, <3>2
  <2>6. new[range] = offset_from_unique_blob_id(last)
    BY <1>2 DEF update_self_offsets
  <2>7. offset_from_unique_blob_id(last) \in KeyOffset
    BY <2>5, EncodeDecode
  <2>8. ASSUME NEW o \in 0..new[range]
        PROVE  unique_blob_id_from_range_and_offset(range, o) \in held
    <3> DEFINE id == unique_blob_id_from_range_and_offset(range, o)
    <3>1. o \in KeyOffset /\ o <= offset_from_unique_blob_id(last)
      BY <2>6, <2>7, RangeKeyAssumption, SMT DEF KeyOffset
    <3>2. id \in Nat
      BY <2>1, <3>1, IdIsNatural
    <3>3. CASE start <= o
      <4>1. key <= id
        BY <2>1, <2>3, <3>1, <3>3, OffsetsOrderIds
      <4>2. id <= last
        BY <2>1, <2>3, <2>5, <3>1, SameOffsetBelow
      <4>3. key \in Nat
        BY <2>1, <2>3, IdIsNatural
      <4>. QED  BY <2>5, <3>2, <4>1, <4>2, <4>3
    <3>4. CASE o < start
      <4>1. self[range] = start
        BY <2>3, <3>1, <3>4, SMT DEF StartOffset, KeyOffset
      <4>2. o \in 0..self[range]
        BY <2>3, <3>1, <3>4, <4>1, SMT DEF KeyOffset
      <4>. QED  BY <2>2, <4>2
    <3>. QED  BY <2>3, <3>1, <3>3, <3>4, SMT DEF KeyOffset
  <2>. QED  BY <2>2, <2>6, <2>7, <2>8
<1>3. new = [range \in KeyRange |-> new[range]]
  BY DEF update_self_offsets
<1>4. \A range \in KeyRange : new[range] \in MaybeOffset
  BY <1>1, <1>2 DEF MaybeOffset
<1>. QED
  <2> HIDE DEF new
  <2>1. new \in [KeyRange -> MaybeOffset]
    BY <1>3, <1>4
  <2>2. ASSUME NEW range \in KeyRange, NEW o \in 0..new[range]
        PROVE  unique_blob_id_from_range_and_offset(range, o) \in T \cup txs
    BY <1>1, <1>2
  <2>. QED  BY <2>1, <2>2 DEF new

-----------------------------------------------------------------------------
\* Where the last id of a range is held, the first of the next is not.
NoWayOut(held) ==
  \A id \in held : offset_from_unique_blob_id(id) = SINGLE_BLOB_SIZE - 1 => id + 1 \notin held

\* A walk that cannot pass the end of a range stays in the range it began in
\* and goes as far there as it can.
LEMMA WalkStaysInItsRange ==
  ASSUME NEW held \in SUBSET UniqueBlobId, NEW range \in Nat, NEW start \in KeyOffset,
         unique_blob_id_from_range_and_offset(range, start) \in held, NoWayOut(held)
  PROVE  LET key == unique_blob_id_from_range_and_offset(range, start)
             o   == offset_from_unique_blob_id(walk(held, key))
         IN  /\ o \in KeyOffset /\ start <= o
             /\ unique_blob_id_from_range_and_offset(range, o) \in held
             /\ unique_blob_id_from_range_and_offset(range, o + 1) \notin held
<1> DEFINE key  == unique_blob_id_from_range_and_offset(range, start)
           last == walk(held, key)
           top  == unique_blob_id_from_range_and_offset(range, SINGLE_BLOB_SIZE - 1)
           o    == last - range * SINGLE_BLOB_SIZE
<1>1. /\ last \in Nat /\ key <= last
      /\ \A id \in key..last : id \in held
      /\ last + 1 \notin held
  BY WalkIsHeld
<1>2. SINGLE_BLOB_SIZE \in Nat \ {0} /\ SINGLE_BLOB_SIZE - 1 \in KeyOffset
  BY RangeKeyAssumption, SMT DEF KeyOffset
<1>3. top \in Nat /\ key \in Nat
  BY <1>2, IdIsNatural
<1>4. key <= top
  <2>1. start <= SINGLE_BLOB_SIZE - 1
    BY <1>2 DEF KeyOffset
  <2>. QED  BY <1>2, <2>1, OffsetsOrderIds
<1> HIDE DEF last
<1>5. last <= top
  <2> SUFFICES ASSUME top + 1 <= last PROVE FALSE
    <3> HIDE DEF key, top
    <3>. QED  BY <1>1, <1>3
  <2>1. top \in held /\ top + 1 \in held
    <3> HIDE DEF key, top
    <3>. QED  BY <1>1, <1>3, <1>4
  <2>2. offset_from_unique_blob_id(top) = SINGLE_BLOB_SIZE - 1
    BY <1>2, <2>1, DecodeEncode
  <2> HIDE DEF top
  <2>. QED  BY <2>1, <2>2 DEF NoWayOut
<1>6. PICK base \in Nat : base = range * SINGLE_BLOB_SIZE
  BY <1>2, SMT
<1>7. /\ key = base + start
      /\ top = base + (SINGLE_BLOB_SIZE - 1)
      /\ o = last - base
  BY <1>6 DEF unique_blob_id_from_range_and_offset
<1>8. /\ o \in KeyOffset /\ start <= o
      /\ last = base + o
  <2> HIDE DEF o, key, top
  <2>. QED  BY <1>1, <1>2, <1>5, <1>6, <1>7, SMT DEF KeyOffset
<1>9. /\ last = unique_blob_id_from_range_and_offset(range, o)
      /\ last + 1 = unique_blob_id_from_range_and_offset(range, o + 1)
  <2> HIDE DEF o
  <2>. QED  BY <1>1, <1>2, <1>6, <1>8, SMT
            DEF unique_blob_id_from_range_and_offset, KeyOffset
<1>10. last \in held
  <2> HIDE DEF key
  <2>. QED  BY <1>1, <1>3
<1>11. offset_from_unique_blob_id(last) = o
  <2> HIDE DEF o
  <2>. QED  BY <1>8, <1>9, <1>10, DecodeEncode
<1>. QED
  BY <1>1, <1>8, <1>9, <1>10, <1>11 DEF last

\* While no walk can leave its range, update_self_offsets moves a pointer
\* forwards only, and as far as what is held then allows.
LEMMA UpdatedOffsetsAdvance ==
  ASSUME NEW self \in [KeyRange -> MaybeOffset],
         NEW T \in SUBSET UniqueBlobId, NEW txs \in SUBSET UniqueBlobId,
         NEW rank \in Ranks(txs),
         \A range \in KeyRange : \A o \in 0..self[range] :
           unique_blob_id_from_range_and_offset(range, o) \in T,
         NoWayOut(T \cup txs),
         NEW range \in KeyRange,
         unique_blob_id_from_range_and_offset(range, self[range] + 1) \notin T
  PROVE  LET new == update_self_offsets(self, T, txs, rank)
         IN  /\ new[range] >= self[range]
             /\ unique_blob_id_from_range_and_offset(range, new[range] + 1) \notin T \cup txs
<1> DEFINE new   == update_self_offsets(self, T, txs, rank)
           start == StartOffset(range, self, txs)
           key   == unique_blob_id_from_range_and_offset(range, start)
           held  == HeldAt(range, T, txs, rank)
           next(o) == unique_blob_id_from_range_and_offset(range, o)
<1>1. range \in Nat /\ self[range] \in MaybeOffset /\ 0 \in KeyOffset
  BY RangeKeyAssumption, SMT DEF KeyRange, KeyOffset
<1>2. held \in SUBSET UniqueBlobId /\ T \subseteq held /\ held \subseteq T \cup txs
  BY DEF HeldAt
<1>3. ASSUME NEW o \in KeyOffset, next(o) \in txs PROVE next(o) \in held
  <2>1. range_from_unique_blob_id(next(o)) = range
    BY <1>1, <1>3, DecodeEncode
  <2>2. range \in RangesOf(txs)
    BY <1>3, <2>1 DEF RangesOf
  <2>3. rank[range] <= rank[range]
    BY <2>2, RanksAreNumbers, SMT
  <2>. QED  BY <1>3, <2>1, <2>3 DEF HeldAt
<1>4. ASSUME NEW o \in KeyOffset, next(o) \in T \cup txs
      PROVE  o + 1 \in KeyOffset \/ next(o + 1) \notin T \cup txs
  <2>1. CASE o = SINGLE_BLOB_SIZE - 1
    <3>1. offset_from_unique_blob_id(next(o)) = SINGLE_BLOB_SIZE - 1
      BY <1>1, <1>4, <2>1, DecodeEncode
    <3>2. next(o) + 1 = next(o + 1)
      <4>1. range * SINGLE_BLOB_SIZE \in Nat /\ o \in Nat
        BY <1>1, RangeKeyAssumption, SMT DEF KeyOffset
      <4>. QED  BY <4>1 DEF unique_blob_id_from_range_and_offset
    <3> HIDE DEF next
    <3>. QED  BY <1>4, <3>1, <3>2 DEF NoWayOut
  <2>2. CASE o # SINGLE_BLOB_SIZE - 1
    BY <2>2, RangeKeyAssumption, SMT DEF KeyOffset
  <2>. QED  BY <2>1, <2>2
<1>5. CASE range \in UpdatedRanges(self, txs)
  <2>1. range \in RangesOf(txs) /\ start # None
    BY <1>5 DEF UpdatedRanges
  <2>2. start \in KeyOffset /\ self[range] <= start /\ key \in held
    <3>1. CASE self[range] # None
      <4>1. start = self[range] /\ start \in KeyOffset
        BY <1>1, <3>1 DEF StartOffset, MaybeOffset
      <4>2. start \in 0..self[range] /\ self[range] <= start
        BY <4>1, RangeKeyAssumption, SMT DEF KeyOffset
      <4>. QED  BY <1>2, <4>1, <4>2
    <3>2. CASE self[range] = None
      <4>1. start = 0 /\ key \in txs
        BY <2>1, <3>2 DEF StartOffset
      <4>. QED  BY <1>1, <1>3, <3>2, <4>1, SMT DEF None
    <3>. QED  BY <3>1, <3>2
  <2>3. new[range] = offset_from_unique_blob_id(walk(held, key))
    BY <1>5 DEF update_self_offsets
  <2>4. NoWayOut(held)
    BY <1>2 DEF NoWayOut
  <2>5. /\ new[range] \in KeyOffset /\ start <= new[range] /\ next(new[range]) \in held
        /\ next(new[range] + 1) \notin held
    <3> HIDE DEF held, start, new
    <3>. QED  BY <1>1, <1>2, <2>2, <2>3, <2>4, WalkStaysInItsRange
  <2>6. next(new[range] + 1) \notin T \cup txs
    <3> HIDE DEF next, new, held
    <3>. QED  BY <1>2, <1>3, <1>4, <2>5
  <2>7. new[range] >= self[range]
    <3> HIDE DEF new, start
    <3>. QED  BY <1>1, <2>2, <2>5, RangeKeyAssumption, SMT DEF MaybeOffset, KeyOffset, None
  <2>. QED  BY <2>6, <2>7
<1>6. CASE range \notin UpdatedRanges(self, txs)
  <2>1. new[range] = self[range]
    BY <1>6 DEF update_self_offsets
  <2>2. next(self[range] + 1) \notin txs
    <3> SUFFICES ASSUME next(self[range] + 1) \in txs PROVE FALSE
      OBVIOUS
    <3>0. self[range] + 1 \in KeyOffset
      <4>1. CASE self[range] = None
        BY <1>1, <4>1, SMT DEF None
      <4>2. CASE self[range] # None
        <5>1. self[range] \in KeyOffset /\ self[range] \in 0..self[range]
          BY <1>1, <4>2, RangeKeyAssumption, SMT DEF MaybeOffset, KeyOffset
        <5>. QED  BY <1>4, <5>1
      <4>. QED  BY <4>1, <4>2
    <3>1. range_from_unique_blob_id(next(self[range] + 1)) = range
      BY <1>1, <3>0, DecodeEncode
    <3>2. range \in RangesOf(txs)
      BY <3>1 DEF RangesOf
    <3>3. start = None
      BY <1>6, <3>2 DEF UpdatedRanges
    <3>4. self[range] = None /\ next(0) \notin txs
      BY <3>3, SMT DEF StartOffset, None
    <3>. QED  BY <3>4, SMT DEF None
  <2>3. self[range] >= self[range]
    BY <1>1, RangeKeyAssumption, SMT DEF MaybeOffset, KeyOffset, None
  <2>. QED  BY <2>1, <2>2, <2>3
<1>. QED
  BY <1>5, <1>6

-----------------------------------------------------------------------------
\* The peers of a table that have reached an offset.
Reached(nodes, offset) == {q \in DOMAIN nodes : nodes[q] # None /\ nodes[q] >= offset}

\* consensus_maximum returns an offset that n peers of the table have reached,
\* or None.
LEMMA ConsensusIsReached ==
  ASSUME NEW P, IsFiniteSet(P), NEW nodes \in [P -> MaybeOffset], NEW n \in Nat \ {0}
  PROVE  /\ consensus_maximum(nodes, n) \in MaybeOffset
         /\ consensus_maximum(nodes, n) # None =>
              Cardinality(Reached(nodes, consensus_maximum(nodes, n))) >= n
<1> DEFINE spoke == {q \in DOMAIN nodes : nodes[q] # None}
           V == Range(nodes) \ {None}
           E == {offset \in V : Cardinality(Reached(nodes, offset)) >= n}
<1>1. consensus_maximum(nodes, n) = IF Cardinality(spoke) < n THEN None ELSE Max(E)
  BY Zenon DEF consensus_maximum, Reached
<1>2. CASE Cardinality(spoke) < n
  BY <1>1, <1>2 DEF MaybeOffset
<1>3. CASE ~(Cardinality(spoke) < n)
  <2>1. spoke # {}
    BY <1>3, FS_EmptySet, SMT
  <2>2. V \in SUBSET KeyOffset /\ V # {}
    BY <2>1 DEF Range, MaybeOffset
  <2>3. KeyOffset \subseteq Nat /\ SINGLE_BLOB_SIZE \in Nat
        /\ \A o \in KeyOffset : o <= SINGLE_BLOB_SIZE
    BY RangeKeyAssumption, SMT DEF KeyOffset
  <2>4. PICK least \in V : \A v \in V : least <= v
    BY <2>2, <2>3, MinOfNaturals
  <2>5. Reached(nodes, least) = spoke
    <3>1. ASSUME NEW q \in spoke PROVE nodes[q] >= least
      <4>1. nodes[q] \in V
        BY DEF Range
      <4>2. least <= nodes[q] /\ nodes[q] \in Nat /\ least \in Nat
        BY <2>2, <2>3, <2>4, <4>1
      <4>. QED  BY <4>2, SMT
    <3>. QED  BY <3>1 DEF Reached
  <2>6. Cardinality(spoke) \in Nat
    BY FS_Subset, FS_CardinalityType
  <2>7. least \in E
    BY <1>3, <2>4, <2>5, <2>6, SMT
  <2>8. E \in SUBSET Nat /\ E # {} /\ \A y \in E : y <= SINGLE_BLOB_SIZE
    BY <2>2, <2>3, <2>7
  <2>9. Max(E) \in E
    BY <2>3, <2>8, MaxOfBoundedNaturals
  <2>10. consensus_maximum(nodes, n) = Max(E)
    BY <1>1, <1>3
  <2>. QED
    BY <2>2, <2>9, <2>10 DEF MaybeOffset
<1>. QED
  BY <1>2, <1>3

\* recalculate_consensus_offsets keeps an entry or takes one that n peers have
\* reached.
LEMMA RecalculatedConsensus ==
  ASSUME NEW P, IsFiniteSet(P), NEW n \in Nat \ {0},
         NEW c \in [KeyRange -> MaybeOffset],
         NEW table \in [KeyRange -> [P -> MaybeOffset]]
  PROVE  LET new == recalculate_consensus_offsets(c, table, n)
         IN  /\ new \in [KeyRange -> MaybeOffset]
             /\ \A range \in KeyRange :
                  \/ new[range] = c[range]
                  \/ /\ new[range] \in KeyOffset
                     /\ Cardinality(Reached(table[range], new[range])) >= n
<1> DEFINE new == recalculate_consensus_offsets(c, table, n)
<1>1. ASSUME NEW range \in KeyRange
      PROVE  /\ consensus_maximum(table[range], n) \in MaybeOffset
             /\ consensus_maximum(table[range], n) # None =>
                  Cardinality(Reached(table[range], consensus_maximum(table[range], n))) >= n
  BY ConsensusIsReached
<1>2. \A range \in KeyRange :
        new[range] = IF consensus_maximum(table[range], n) = None THEN c[range]
                     ELSE consensus_maximum(table[range], n)
  BY DEF recalculate_consensus_offsets
<1>3. new = [range \in KeyRange |-> new[range]]
  BY DEF recalculate_consensus_offsets
<1> HIDE DEF new
<1>4. \A range \in KeyRange : new[range] \in MaybeOffset
  BY <1>1, <1>2
<1>5. new \in [KeyRange -> MaybeOffset]
  BY <1>3, <1>4
<1>6. \A range \in KeyRange :
        \/ new[range] = c[range]
        \/ /\ new[range] \in KeyOffset
           /\ Cardinality(Reached(table[range], new[range])) >= n
  BY <1>1, <1>2 DEF MaybeOffset
<1>. QED
  BY <1>5, <1>6 DEF new

\* Offsets that with their ranges are ids the code can decode.
Decodable(c) ==
  \A range \in KeyRange :
    c[range] # None => unique_blob_id_from_range_and_offset(range, c[range]) \in UniqueBlobId

\* The ranges an epoch has an increment for.
Advancing(c, d) == {range \in KeyRange : c[range] # None /\ IncrementStart(d[range]) < c[range]}

\* An epoch moves the committed offset of the ranges it has an increment for to
\* the consensus offset and leaves the others.
LEMMA CommitedIsConsensus ==
  ASSUME NEW c \in [KeyRange -> MaybeOffset], NEW d \in [KeyRange -> MaybeOffset],
         Decodable(c)
  PROVE  LET new == CommitedAfter(d, calculate_epoch_increments(c, d))
         IN  /\ new \in [KeyRange -> MaybeOffset]
             /\ \A range \in KeyRange :
                  new[range] = IF range \in Advancing(c, d) THEN c[range] ELSE d[range]
<1> DEFINE increments == calculate_epoch_increments(c, d)
           own(range) == {id \in {interval.right : interval \in increments} :
                            range_from_unique_blob_id(id) = range}
           new == CommitedAfter(d, increments)
<1>1. ASSUME NEW range \in KeyRange, NEW id \in own(range)
      PROVE  offset_from_unique_blob_id(id) = c[range] /\ range \in Advancing(c, d)
  <2>1. PICK interval \in increments : id = interval.right
    OBVIOUS
  <2>2. PICK r \in Advancing(c, d) :
          interval = new_from_range_and_offsets(r, IncrementStart(d[r]), c[r])
    BY DEF calculate_epoch_increments, Advancing
  <2>3. id = unique_blob_id_from_range_and_offset(r, c[r])
    BY <2>1, <2>2 DEF new_from_range_and_offsets
  <2>4. r \in Nat /\ c[r] \in KeyOffset /\ id \in UniqueBlobId
    BY <2>2, <2>3 DEF Advancing, KeyRange, MaybeOffset, Decodable
  <2>5. range_from_unique_blob_id(id) = r /\ offset_from_unique_blob_id(id) = c[r]
    BY <2>3, <2>4, DecodeEncode
  <2>. QED  BY <2>2, <2>5
<1>2. ASSUME NEW range \in Advancing(c, d) PROVE own(range) # {}
  <2> DEFINE interval == new_from_range_and_offsets(range, IncrementStart(d[range]), c[range])
  <2>1. interval \in increments
    BY DEF calculate_epoch_increments, Advancing
  <2>2. interval.right = unique_blob_id_from_range_and_offset(range, c[range])
    BY DEF new_from_range_and_offsets
  <2>3. range \in Nat /\ c[range] \in KeyOffset /\ interval.right \in UniqueBlobId
    BY <2>2 DEF Advancing, KeyRange, MaybeOffset, Decodable
  <2>4. range_from_unique_blob_id(interval.right) = range
    BY <2>2, <2>3, DecodeEncode
  <2>. QED  BY <2>1, <2>4
<1>3. new = [range \in KeyRange |->
               IF own(range) = {} THEN d[range]
               ELSE offset_from_unique_blob_id(CHOOSE id \in own(range) : TRUE)]
  BY DEF CommitedAfter
<1>4. ASSUME NEW range \in KeyRange
      PROVE  new[range] = IF range \in Advancing(c, d) THEN c[range] ELSE d[range]
  <2>1. CASE own(range) = {}
    <3>1. new[range] = d[range]
      BY <1>3, <2>1
    <3>. QED  BY <1>2, <2>1, <3>1
  <2>2. CASE own(range) # {}
    <3>1. PICK id \in own(range) : new[range] = offset_from_unique_blob_id(id)
      BY <1>3, <2>2
    <3>. QED  BY <1>1, <3>1
  <2>. QED  BY <2>1, <2>2
<1>. QED
  <2> HIDE DEF new, own
  <2>1. new \in [KeyRange -> MaybeOffset]
    BY <1>3, <1>4
  <2>. QED  BY <1>4, <2>1 DEF new
=============================================================================
