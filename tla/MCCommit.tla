------------------------------ MODULE MCCommit ------------------------------
(***************************************************************************)
(* A cluster of two, for TLC. The two peers can be exchanged, so that what *)
(* holds of node = n1 holds of n2.                                         *)
(***************************************************************************)
EXTENDS ClusterRefinement

CONSTANTS n1, n2
=============================================================================
