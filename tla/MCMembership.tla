---------------------------- MODULE MCMembership ----------------------------
(* Peers are model values.                                                  *)
EXTENDS Membership

CONSTANTS n1, n2, g1

\* Two nodes that have each other's url, as the deployment files give them,
\* and a gateway.
BothWays == {<<n1, n2>>, <<n2, n1>>, <<g1, n1>>}
=============================================================================
