----------------------------- MODULE EpochChain -----------------------------
(***************************************************************************)
(* The hashes of a node's epochs, from maroon/src/epoch.rs: each is taken  *)
(* over the one before and the increments of the epoch.                    *)
(*                                                                         *)
(* A hash stands for what went into it, so two are equal only if the same  *)
(* went into both: it is the sequence of the increments of all epochs up   *)
(* to its own. The increments of an epoch come in the order of a HashMap,  *)
(* which any two nodes, and any two ticks, may see differently.            *)
(***************************************************************************)
EXTENDS EpochCommit

VARIABLE hashes         \* the hash of each epoch, oldest first

chain_vars == <<vars, hashes>>

NoHash == <<>>

\* The vectors calculate_epoch_increments may return for a set of increments.
Orders(increments) == Bijection(1..Cardinality(increments), increments)

\* Epoch::new.
\* EpochAlone is a faulty form: the hash before is left out.
EpochAlone(increments, prev_hash) == <<increments>>

EpochHash(increments, prev_hash) == Append(prev_hash, increments)

ChainInit == Init /\ hashes = <<>>

ChainRecalculate == Recalculate /\ UNCHANGED hashes

ChainCommit ==
  /\ commit_epoch_if_needed
  /\ \E order \in Orders(calculate_epoch_increments(consensus_offset, commited_offsets)) :
       hashes' = Append(hashes,
         EpochHash(order, IF hashes = <<>> THEN NoHash ELSE hashes[Len(hashes)]))

ChainNext == ChainRecalculate \/ ChainCommit

ChainSpec == ChainInit /\ [][ChainNext]_chain_vars

-----------------------------------------------------------------------------
\* The hash of an epoch determines that epoch and every one before it, in
\* order, empty ones included: two nodes that agree on a hash agree on all of
\* their history up to it. The converse does not hold: the same epochs may
\* have other hashes on another node.
HashPinsHistory ==
  /\ Len(hashes) = Len(epochs)
  /\ \A i \in DOMAIN epochs :
       /\ Len(hashes[i]) = i
       /\ \A j \in 1..i : Range(hashes[i][j]) = epochs[j]
=============================================================================
