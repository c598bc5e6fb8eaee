-------------------------- MODULE ClusterRefinement -------------------------
(***************************************************************************)
(* A node of Cluster, seen from its commit path alone, is an EpochCommit:  *)
(* the consensus offsets that EpochCommit leaves to its environment are    *)
(* those the other nodes' State messages give it.                          *)
(***************************************************************************)
EXTENDS Cluster

CONSTANT node           \* the node that is looked at: any of them

ASSUME ClusterRefinementAssumption == node \in PeerId

Node == INSTANCE EpochCommit WITH
          consensus_offset <- consensus_offset[node],
          commited_offsets <- commited_offsets[node],
          epochs <- epochs[node],
          sequence <- sequence[node]

\* Every node commits as EpochCommit says, with the consensus offsets the
\* cluster gives it (advertise_offsets_and_request_missing and
\* commit_epoch_if_needed).
EveryNodeCommits == Node!Spec

\* What is in a node's log is held by consensus_nodes peers, those that have
\* crashed since among them: a transaction that was given its place in the
\* order (new_epoch) is not lost with the node that ordered it.
LoggedIsReplicated ==
  \A id \in Range(sequence[node]) :
     Cardinality({p \in PeerId : id \in transactions[p]}) >= consensus_nodes
=============================================================================
