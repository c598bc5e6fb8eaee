------------------------------ MODULE MCGateway -----------------------------
(* One gateway that dials two nodes, which do not dial each other: what the *)
(* nodes are to each other does not matter to the gateway. The App of one   *)
(* of them may end; the nodes are alike, so it does not matter whose.       *)
EXTENDS Gateway

CONSTANTS n1, n2, g1

FromGateway == {<<g1, n1>>, <<g1, n2>>}
=============================================================================
