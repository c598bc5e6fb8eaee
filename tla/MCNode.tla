------------------------------- MODULE MCNode -------------------------------
(* A transaction from a gateway and one from a peer, a request of a peer    *)
(* and what a peer says of its offsets. The ids that decode are 0 and 1; a  *)
(* gateway may send another, a peer does not, having stored what it sends.  *)
EXTENDS Node

FromGateway(tx) == [kind |-> "NewTransaction", id |-> tx]

FromPeer == {[kind |-> "MissingTx", id |-> 1], [kind |-> "GetMissingTx", id |-> 0]}

Messages ==
  {{FromGateway(0), [kind |-> "State", id |-> 0]} \cup FromPeer,
   {FromGateway(2)} \cup FromPeer}
=============================================================================
