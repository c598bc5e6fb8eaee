------------------------------- MODULE Gateway ------------------------------
(***************************************************************************)
(* Gateways that broadcast transactions to the nodes they are connected    *)
(* to, from gateway/src/core.rs, gateway/src/p2p.rs, gateway/src/main.rs   *)
(* and the receiving side in maroon/src/network/p2p.rs. The connections    *)
(* are those of Membership.                                                *)
(*                                                                         *)
(* send_request puts a request in the channel to the event loop and        *)
(* returns Ok; the event loop sends it to each peer it knows at that time. *)
(* The loop has a task of its own, which nobody stops: when the Gateway is *)
(* dropped it goes on, until it has an acknowledgement to hand over.       *)
(***************************************************************************)
EXTENDS Membership, Integers, Sequences

CONSTANTS
  MaxTransactions,      \* bound: how many a gateway sends
  Ending                \* bound: the nodes whose App may end

ASSUME GatewayAssumption ==
  /\ IsFiniteSet(Nodes)
  /\ MaxTransactions \in Nat
  /\ Ending \subseteq Nodes

VARIABLES
  requests,             \* Gateways -> the channel from send_request to the event loop
  sent,                 \* Gateways -> the offset of the next transaction
  gm_wire,              \* transactions and acknowledgements on their way
  app,                  \* Nodes -> "held", "gone": the App, which the node's P2P outlives
  received,             \* Nodes -> the transactions the node's P2P took and acknowledged
  delivered,            \* Nodes -> those of them its App was there to be handed
  acks,                 \* Gateways -> acknowledgements in the channel to the user
  user,                 \* Gateways -> "held", "dropped": the Gateway
  event_loop            \* Gateways -> "running", "panicked"

node_vars == <<app, received, delivered>>
gateway_vars == <<requests, sent, gm_wire, node_vars, acks, user, event_loop>>
all_vars == <<vars, gateway_vars>>

GatewayInit ==
  /\ Init
  /\ requests = [g \in Gateways |-> <<>>]
  /\ sent = [g \in Gateways |-> 0]
  /\ gm_wire = {}
  /\ app = [p \in Nodes |-> "held"]
  /\ received = [p \in Nodes |-> {}]
  /\ delivered = [p \in Nodes |-> {}]
  /\ acks = [g \in Gateways |-> 0]
  /\ user = [g \in Gateways |-> "held"]
  /\ event_loop = [g \in Gateways |-> "running"]

\* Gateway::send_request, for the next offset of the gateway's range. Before
\* the first connection is up as well as after.
send_request(g) ==
  /\ user[g] = "held" /\ sent[g] < MaxTransactions
  /\ requests' = [requests EXCEPT ![g] = Append(@, sent[g])]
  /\ sent' = [sent EXCEPT ![g] = @ + 1]
  /\ UNCHANGED <<vars, gm_wire, node_vars, acks, user, event_loop>>

\* The event loop takes a request from the channel.
\* broadcast_to_one is a faulty form: it stops at the first peer.
broadcast_to_one(g) ==
  /\ event_loop[g] = "running" /\ requests[g] # <<>>
  /\ requests' = [requests EXCEPT ![g] = Tail(@)]
  /\ LET some == {q \in maroon_peer_ids[g] : q = CHOOSE first \in maroon_peer_ids[g] : TRUE}
     IN  gm_wire' = gm_wire \cup
           Put({[kind |-> "tx", id |-> <<g, Head(requests[g])>>, to |-> q,
                 on |-> CHOOSE c \in Open(g, q) : TRUE] : q \in some})
  /\ UNCHANGED <<vars, sent, node_vars, acks, user, event_loop>>

Broadcast(g) ==
  /\ event_loop[g] = "running" /\ requests[g] # <<>>
  /\ requests' = [requests EXCEPT ![g] = Tail(@)]
  /\ \E over \in [maroon_peer_ids[g] -> Dials] :
       /\ \A q \in DOMAIN over : over[q] \in Open(g, q)
       /\ gm_wire' = gm_wire \cup
            Put({[kind |-> "tx", id |-> <<g, Head(requests[g])>>, to |-> q, on |-> over[q]] :
                   q \in DOMAIN over})
  /\ UNCHANGED <<vars, sent, node_vars, acks, user, event_loop>>

Acknowledgement(m) == [kind |-> "ack", id |-> m.id, to |-> From(m), on |-> m.on]

\* `_ = to_app.send(..)` of a node: the transaction goes to the App, and
\* nothing happens when the App is gone.
HandOver(p, id) ==
  delivered' = IF app[p] = "held" THEN [delivered EXCEPT ![p] = @ \cup {id}] ELSE delivered

\* handle_request_response of a node: whatever came of the hand-over, the
\* gateway gets an acknowledgement on the same connection.
\* accept_twice is a faulty form: the transaction is not taken off the wire.
accept_twice(m) ==
  /\ m \in gm_wire /\ m.kind = "tx" /\ seen[m.on][m.to] = "open"
  /\ HandOver(m.to, m.id)
  /\ received' = [received EXCEPT ![m.to] = @ \cup {m.id}]
  /\ gm_wire' = gm_wire \cup Put({Acknowledgement(m)})
  /\ UNCHANGED <<vars, requests, sent, app, acks, user, event_loop>>

ReceiveTransaction(m) ==
  /\ m \in gm_wire /\ m.kind = "tx" /\ seen[m.on][m.to] = "open"
  /\ HandOver(m.to, m.id)
  /\ received' = [received EXCEPT ![m.to] = @ \cup {m.id}]
  /\ gm_wire' = (gm_wire \ {m}) \cup Put({Acknowledgement(m)})
  /\ UNCHANGED <<vars, requests, sent, app, acks, user, event_loop>>

\* A node's App is told to stop, or panics, and is dropped with its end of the
\* channel; P2P has a task of its own and goes on (Node has the details).
AppEnds(p) ==
  /\ p \in Ending /\ app[p] = "held"
  /\ app' = [app EXCEPT ![p] = "gone"]
  /\ UNCHANGED <<vars, requests, sent, gm_wire, received, delivered, acks, user, event_loop>>

\* The event loop ends by a panic, and the gateway's ends of its connections
\* with it.
Panic(g) ==
  /\ event_loop' = [event_loop EXCEPT ![g] = "panicked"]
  /\ link' = [c \in Dials |-> IF g \in Ends(c) THEN "down" ELSE link[c]]
  /\ seen' = [c \in Dials |-> IF g \in Ends(c) THEN [seen[c] EXCEPT ![g] = "closed"] ELSE seen[c]]
  /\ wire' = {m \in wire : m.to # g}
  /\ gm_wire' = {m \in gm_wire : m.to # g}
  /\ maroon_peer_ids' = [maroon_peer_ids EXCEPT ![g] = {}]
  /\ UNCHANGED <<alive_peer_ids, alive_gateway_ids, to_app>>

\* The gateway passes an acknowledgement on without what it acknowledges; the
\* other end of the channel is expected to be there.
\* ack_into_bounded is a faulty form: nobody reads these acknowledgements, and
\* the channel has room for one.
ack_into_bounded(m) ==
  /\ m \in gm_wire /\ m.kind = "ack" /\ seen[m.on][m.to] = "open"
  /\ IF user[m.to] = "held" /\ acks[m.to] = 0
     THEN /\ acks' = [acks EXCEPT ![m.to] = @ + 1]
          /\ gm_wire' = gm_wire \ {m}
          /\ UNCHANGED <<vars, event_loop>>
     ELSE Panic(m.to) /\ UNCHANGED acks
  /\ UNCHANGED <<requests, sent, node_vars, user>>

ReceiveAck(m) ==
  /\ m \in gm_wire /\ m.kind = "ack" /\ seen[m.on][m.to] = "open"
  /\ IF user[m.to] = "held"
     THEN /\ acks' = [acks EXCEPT ![m.to] = @ + 1]
          /\ gm_wire' = gm_wire \ {m}
          /\ UNCHANGED <<vars, event_loop>>
     ELSE Panic(m.to) /\ UNCHANGED acks
  /\ UNCHANGED <<requests, sent, node_vars, user>>

\* The Gateway goes; what it has put in the channel stays there.
DropGateway(g) ==
  /\ user[g] = "held"
  /\ user' = [user EXCEPT ![g] = "dropped"]
  /\ UNCHANGED <<vars, requests, sent, gm_wire, node_vars, acks, event_loop>>

\* What is on its way to an end that closes is lost.
MembershipStep ==
  /\ Next
  /\ gm_wire' = {m \in gm_wire : seen'[m.on][m.to] # "closed"}
  /\ UNCHANGED <<requests, sent, node_vars, acks, user, event_loop>>

GatewayNext ==
  \/ MembershipStep
  \/ \E g \in Gateways : send_request(g) \/ Broadcast(g) \/ DropGateway(g)
  \/ \E m \in gm_wire : ReceiveTransaction(m) \/ ReceiveAck(m)
  \/ \E p \in Nodes : AppEnds(p)

\* As in Membership: event loops go on, open connections deliver. Nobody has
\* to send anything, and no App has to end.
GatewayFairness ==
  /\ \A c \in Dials : \A p, q \in Ends(c) :
       WF_all_vars(Established(p, q, c) /\ MembershipStep)
  /\ \A g \in Gateways : WF_all_vars(Broadcast(g))
  /\ \A p \in Nodes : \A g \in Gateways : \A tx \in 0..(MaxTransactions - 1) :
       WF_all_vars(\E m \in gm_wire : m.to = p /\ m.id = <<g, tx>> /\ ReceiveTransaction(m))

GatewaySpec == GatewayInit /\ [][GatewayNext]_all_vars

FairGatewaySpec == GatewaySpec /\ GatewayFairness

-----------------------------------------------------------------------------
(***************************************************************************)
(* Properties.                                                             *)
(***************************************************************************)

\* The transaction of g at offset tx has come to p, and to its App if that was
\* there.
Arrived(g, p, tx) ==
  \/ <<g, tx>> \in delivered[p]
  \/ app[p] = "gone" /\ <<g, tx>> \in received[p]

\* No acknowledgement without delivery, save by a node whose App is gone
\* (maroon/src/network/p2p.rs:340): the acknowledgements a gateway counts and
\* those on their way are no more than the transactions of its that were handed
\* to an App, or came to a node when it had none any more.
AcksCountDeliveries ==
  \A g \in Gateways :
    acks[g] + Cardinality({m \in gm_wire : m.kind = "ack" /\ m.to = g})
      <= Cardinality({d \in Nodes \X (0..(MaxTransactions - 1)) : Arrived(g, d[1], d[2])})

\* The event loop outlives the Gateway, and ends by a panic only then, and only
\* after P2P of some node took a transaction of the gateway's
\* (gateway/src/p2p.rs:150).
LoopEndsAfterGateway ==
  \A g \in Gateways :
    event_loop[g] = "panicked" =>
      /\ user[g] = "dropped"
      /\ \E p \in Nodes, tx \in 0..(MaxTransactions - 1) : <<g, tx>> \in received[p]

\* A transaction that waits in the channel while the gateway knows a node gets
\* to that node and its App, if it still has one, unless their connection is
\* cut, even when the Gateway has been dropped meanwhile.
TransactionsArrive ==
  \A g \in Gateways, p \in Nodes, tx \in 0..(MaxTransactions - 1) :
    (p \in maroon_peer_ids[g] /\ \E i \in DOMAIN requests[g] : requests[g][i] = tx)
      ~> (Arrived(g, p, tx) \/ \E c \in Between(g, p) : link[c] = "down")
=============================================================================
