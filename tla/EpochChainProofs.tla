-------------------------- MODULE EpochChainProofs --------------------------
(***************************************************************************)
(* The chain of hashes: the epochs a hash tells, for any ranges and any    *)
(* order in which the increments of an epoch are hashed.                   *)
(***************************************************************************)
EXTENDS EpochChain, EpochCommitProofs

\* The inductive invariant: a hash that is appended extends the last one.
ChainInv ==
  /\ epochs \in Seq(SUBSET [left : Nat, right : Nat])
  /\ hashes \in Seq(Seq(Seq([left : Nat, right : Nat])))
  /\ HashPinsHistory

\* An order of a finite set of increments lists each of them.
LEMMA OrdersList ==
  ASSUME NEW S, NEW order \in Orders(S), Cardinality(S) \in Nat
  PROVE  order \in Seq(S) /\ Range(order) = S
<1>1. order \in [1..Cardinality(S) -> S] /\ \A x \in S : \E i \in 1..Cardinality(S) : order[i] = x
  BY DEF Orders, Bijection, Injection, Surjection
<1>. QED
  BY <1>1 DEF Range

LEMMA SeqOfMore ==
  ASSUME NEW S, NEW T, S \subseteq T, NEW seq \in Seq(S)
  PROVE  seq \in Seq(T)
<1>1. Len(seq) \in Nat /\ seq \in [1..Len(seq) -> S]
  OBVIOUS
<1>2. seq \in [1..Len(seq) -> T]
  BY <1>1
<1>. QED
  BY <1>1, <1>2

\* A hash is put after the others: it holds what the last of them holds, and
\* the increments of the new epoch.
LEMMA ChainCommitKeeps ==
  ASSUME IndInv, ChainInv, ChainCommit
  PROVE  ChainInv'
<1> DEFINE I == calculate_epoch_increments(consensus_offset, commited_offsets)
           History == Seq(Seq([left : Nat, right : Nat]))
           n == Len(epochs)
<1>1. /\ epochs \in Seq(SUBSET [left : Nat, right : Nat])
      /\ hashes \in Seq(History)
      /\ Len(hashes) = n /\ n \in Nat
      /\ epochs' = Append(epochs, I)
  BY DEF ChainInv, HashPinsHistory, ChainCommit, commit_epoch_if_needed
<1>2. I \in SUBSET [left : Nat, right : Nat] /\ epochs' \in Seq(SUBSET [left : Nat, right : Nat])
  <2>1. IndInv'
    BY CommitKeeps DEF ChainCommit
  <2>2. epochs' \in Seq(SUBSET [left : Nat, right : Nat])
    BY <2>1 DEF IndInv
  <2> HIDE DEF I
  <2>3. epochs'[n + 1] = I /\ n + 1 \in DOMAIN epochs'
    BY <1>1
  <2>. QED
    BY <2>2, <2>3
<1>3. PICK order \in Orders(I) :
        hashes' = Append(hashes,
          EpochHash(order, IF hashes = <<>> THEN NoHash ELSE hashes[Len(hashes)]))
  BY DEF ChainCommit
<1>4. order \in Seq(I) /\ Range(order) = I
  BY OrdersList, IncrementsAreFinite
<1> DEFINE prev == IF hashes = <<>> THEN NoHash ELSE hashes[Len(hashes)]
<1>5. /\ prev \in History /\ Len(prev) = n
      /\ \A j \in 1..n : Range(prev[j]) = epochs[j]
  <2>1. CASE n = 0
    BY <1>1, <2>1 DEF NoHash
  <2>2. CASE n # 0
    <3>1. hashes # <<>> /\ n \in DOMAIN hashes /\ n \in DOMAIN epochs
      BY <1>1, <2>2
    <3>. QED
      BY <1>1, <3>1 DEF ChainInv, HashPinsHistory
  <2>. QED
    BY <2>1, <2>2
<1>6. order \in Seq([left : Nat, right : Nat])
  BY <1>2, <1>4, SeqOfMore
<1> HIDE DEF I, prev, History
<1> DEFINE hash == Append(prev, order)
<1>7. /\ hash \in History /\ Len(hash) = n + 1
      /\ \A j \in 1..n : hash[j] = prev[j]
      /\ hash[n + 1] = order
  BY <1>1, <1>5, <1>6 DEF History
<1>8. hashes' = Append(hashes, hash)
  BY <1>3 DEF prev, EpochHash
<1> HIDE DEF hash
<1>9. /\ hashes' \in Seq(History) /\ Len(hashes') = n + 1 /\ hashes'[n + 1] = hash
      /\ \A i \in 1..n : hashes'[i] = hashes[i]
  BY <1>1, <1>7, <1>8
<1>10. /\ Len(epochs') = n + 1 /\ DOMAIN epochs' = 1..(n + 1) /\ epochs'[n + 1] = I
       /\ \A i \in 1..n : i \in DOMAIN epochs /\ epochs'[i] = epochs[i]
  BY <1>1, <1>2
<1>11. ASSUME NEW i \in 1..(n + 1)
       PROVE  Len(hashes'[i]) = i /\ \A j \in 1..i : Range(hashes'[i][j]) = epochs'[j]
  <2>1. CASE i = n + 1
    <3>1. ASSUME NEW j \in 1..(n + 1) PROVE Range(hash[j]) = epochs'[j]
      <4>1. CASE j = n + 1
        BY <1>4, <1>7, <1>10, <4>1
      <4>2. CASE j # n + 1
        <5>1. j \in 1..n
          BY <1>1, <4>2
        <5>. QED
          BY <1>5, <1>7, <1>10, <5>1
      <4>. QED
        BY <4>1, <4>2
    <3>. QED
      BY <1>7, <1>9, <2>1, <3>1
  <2>2. CASE i # n + 1
    <3>1. i \in 1..n /\ \A j \in 1..i : j \in 1..n
      BY <1>1, <2>2
    <3>2. Len(hashes[i]) = i /\ \A j \in 1..i : Range(hashes[i][j]) = epochs[j]
      BY <1>10, <3>1 DEF ChainInv, HashPinsHistory
    <3>. QED
      BY <1>9, <1>10, <3>1, <3>2
  <2>. QED
    BY <2>1, <2>2
<1>. QED
  BY <1>2, <1>9, <1>10, <1>11 DEF ChainInv, HashPinsHistory, History

\* The last hash of a node tells all of its epochs (Epoch::new).
THEOREM HashesPinHistory == ChainSpec => []HashPinsHistory
<1>1. ChainInit => IndInv /\ ChainInv
  <2> SUFFICES ASSUME ChainInit PROVE IndInv /\ ChainInv
    OBVIOUS
  <2>1. IndInv
    BY IndInvInit DEF ChainInit
  <2>2. epochs = <<>> /\ hashes = <<>> /\ DOMAIN epochs = {}
    BY DEF ChainInit, Init
  <2>3. /\ epochs \in Seq(SUBSET [left : Nat, right : Nat])
        /\ hashes \in Seq(Seq(Seq([left : Nat, right : Nat])))
    BY <2>2
  <2>. QED
    BY <2>1, <2>2, <2>3 DEF ChainInv, HashPinsHistory
<1>2. IndInv /\ ChainInv /\ [ChainNext]_chain_vars => (IndInv /\ ChainInv)'
  <2> SUFFICES ASSUME IndInv, ChainInv, [ChainNext]_chain_vars PROVE IndInv' /\ ChainInv'
    OBVIOUS
  <2>1. IndInv'
    <3>1. [Next]_vars
      BY DEF ChainNext, ChainCommit, ChainRecalculate, Next, chain_vars
    <3>. QED
      BY <3>1, IndInvStep
  <2>2. CASE ChainCommit
    BY <2>1, <2>2, ChainCommitKeeps
  <2>3. UNCHANGED <<epochs, hashes>> => ChainInv'
    BY DEF ChainInv, HashPinsHistory
  <2>4. ChainRecalculate \/ UNCHANGED chain_vars => UNCHANGED <<epochs, hashes>>
    BY DEF ChainRecalculate, Recalculate, chain_vars, vars
  <2>. QED
    BY <2>1, <2>2, <2>3, <2>4 DEF ChainNext
<1>3. ChainInv => HashPinsHistory
  BY DEF ChainInv
<1>. QED
  BY <1>1, <1>2, <1>3, PTL DEF ChainSpec
=============================================================================
