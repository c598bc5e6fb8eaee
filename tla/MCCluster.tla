------------------------------ MODULE MCCluster -----------------------------
(***************************************************************************)
(* Small clusters for TLC. Peers are model values; the other constants are *)
(* numbers, given in the .cfg files.                                       *)
(***************************************************************************)
EXTENDS Cluster

CONSTANTS n1, n2, n3

\* Peers are only ever compared for equality; those a gateway is connected to
\* can be exchanged with each other, and so can the others.
Symmetry ==
  Permutations(GatewayPeers) \cup Permutations(PeerId \ GatewayPeers)
=============================================================================
