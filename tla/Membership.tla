----------------------------- MODULE Membership -----------------------------
(***************************************************************************)
(* Who is connected to whom, and who is what, from                         *)
(* maroon/src/network/p2p.rs, gateway/src/p2p.rs and                       *)
(* common/src/meta_exchange.rs.                                            *)
(*                                                                         *)
(* Each peer runs an event loop over its swarm. When a node sees a new     *)
(* connection it asks the peer at the other end for its role, and keeps    *)
(* the nodes and the gateways it heard of in two sets; a gateway takes     *)
(* every peer it is connected to for a node. An end of a connection sees   *)
(* it open and close in its own time.                                      *)
(*                                                                         *)
(* A peer dials each of its urls once, when it is prepared, and never      *)
(* again: a connection is named by who dials whom. Two nodes that have     *)
(* each other's url may be connected twice.                                *)
(***************************************************************************)
EXTENDS FiniteSets

CONSTANTS Nodes, Gateways,
          Dials         \* the pairs <<p, q>> such that p dials q

Peers == Nodes \cup Gateways

ASSUME MembershipAssumption ==
  /\ Nodes \cap Gateways = {}
  /\ Dials \subseteq Peers \X Nodes         \* a gateway does not listen
  /\ \A c \in Dials : c[1] # c[2]           \* libp2p refuses such a connection

VARIABLES
  link,                 \* Dials -> "unused", "up", "down"
  seen,                 \* Dials -> Peers -> "no", "open", "closed": what an end saw
  wire,                 \* requests and responses on their way
  alive_peer_ids,       \* Nodes -> set of nodes
  alive_gateway_ids,    \* Nodes -> set of gateways
  maroon_peer_ids,      \* Gateways -> set of nodes
  to_app                \* Nodes -> the last Inbox::Nodes handed to the App, {} before any

member_vars == <<alive_peer_ids, alive_gateway_ids, maroon_peer_ids, to_app>>
vars == <<link, seen, wire, member_vars>>

Role(p) == IF p \in Nodes THEN "Node" ELSE "Gateway"

Ends(c) == {c[1], c[2]}

Between(p, q) == {c \in Dials : Ends(c) = {p, q}}

Open(p, q) == {c \in Between(p, q) : seen[c][p] = "open"}

Init ==
  /\ link = [c \in Dials |-> "unused"]
  /\ seen = [c \in Dials |-> [p \in Peers |-> "no"]]
  /\ wire = {}
  /\ alive_peer_ids = [p \in Nodes |-> {p}]
  /\ alive_gateway_ids = [p \in Nodes |-> {}]
  /\ maroon_peer_ids = [g \in Gateways |-> {}]
  /\ to_app = [p \in Nodes |-> {}]

\* Messages put on their connections; those to an end that has closed are lost.
Put(messages) == {m \in messages : seen[m.on][m.to] # "closed"}

-----------------------------------------------------------------------------
(***************************************************************************)
(* Connections                                                             *)
(***************************************************************************)

\* P2P::prepare. A dial that fails is not tried again.
Dial(c) ==
  /\ link[c] = "unused"
  /\ \E outcome \in {"up", "down"} : link' = [link EXCEPT ![c] = outcome]
  /\ UNCHANGED <<seen, wire, member_vars>>

Cut(c) ==
  /\ link[c] = "up"
  /\ link' = [link EXCEPT ![c] = "down"]
  /\ UNCHANGED <<seen, wire, member_vars>>

\* SwarmEvent::ConnectionEstablished. The question of a node goes over any of
\* its connections to that peer.
Established(p, q, c) ==
  /\ c \in Between(p, q) /\ link[c] = "up" /\ seen[c][p] = "no"
  /\ seen' = [seen EXCEPT ![c][p] = "open"]
  /\ \/ /\ p \in Nodes
        /\ \E on \in Open(p, q) \cup {c} :
             wire' = wire \cup Put({[kind |-> "request", about |-> c, on |-> on, to |-> q, role |-> Role(p)]})
        /\ UNCHANGED member_vars
     \/ /\ p \in Gateways
        /\ maroon_peer_ids' = [maroon_peer_ids EXCEPT ![p] = @ \cup {q}]
        /\ UNCHANGED <<wire, alive_peer_ids, alive_gateway_ids, to_app>>
  /\ UNCHANGED link

\* SwarmEvent::ConnectionClosed, of one connection to q: another may be open.
\* closed_for_gateways is a faulty form: the nodes are not looked at.
closed_for_gateways(p, q, c) ==
  /\ c \in Between(p, q) /\ link[c] = "down" /\ seen[c][p] = "open"
  /\ seen' = [seen EXCEPT ![c][p] = "closed"]
  /\ wire' = {m \in wire : ~(m.on = c /\ m.to = p)}
  /\ alive_gateway_ids' =
       [n \in Nodes |-> alive_gateway_ids[n] \ (IF n = p THEN {q} ELSE {})]
  /\ maroon_peer_ids' =
       [g \in Gateways |-> maroon_peer_ids[g] \ (IF g = p THEN {q} ELSE {})]
  /\ UNCHANGED <<link, alive_peer_ids, to_app>>

Closed(p, q, c) ==
  /\ c \in Between(p, q) /\ link[c] = "down" /\ seen[c][p] = "open"
  /\ seen' = [seen EXCEPT ![c][p] = "closed"]
  /\ wire' = {m \in wire : ~(m.on = c /\ m.to = p)}
  /\ \/ /\ p \in Gateways
        /\ maroon_peer_ids' = [maroon_peer_ids EXCEPT ![p] = @ \ {q}]
        /\ UNCHANGED <<alive_peer_ids, alive_gateway_ids, to_app>>
     \/ /\ p \in Nodes
        /\ alive_gateway_ids' = [alive_gateway_ids EXCEPT ![p] = @ \ {q}]
        /\ alive_peer_ids' = [alive_peer_ids EXCEPT ![p] = @ \ {q}]
        /\ to_app' = IF q \in alive_peer_ids[p]
                     THEN [to_app EXCEPT ![p] = alive_peer_ids'[p]]
                     ELSE to_app
        /\ UNCHANGED maroon_peer_ids
  /\ UNCHANGED link

-----------------------------------------------------------------------------
(***************************************************************************)
(* The exchange of roles                                                   *)
(***************************************************************************)

\* insert_by_role. The App is told of every node, known or not.
\* insert_after_telling is a faulty form: the App gets the set as it was.
insert_after_telling(p, q, role) ==
  /\ alive_peer_ids' =
       [alive_peer_ids EXCEPT ![p] = IF role = "Node" THEN @ \cup {q} ELSE @]
  /\ alive_gateway_ids' =
       [alive_gateway_ids EXCEPT ![p] = IF role = "Gateway" THEN @ \cup {q} ELSE @]
  /\ to_app' = IF role = "Node" THEN [to_app EXCEPT ![p] = alive_peer_ids[p]]
               ELSE to_app

insert_by_role(p, q, role) ==
  \/ /\ role = "Gateway"
     /\ alive_gateway_ids' = [alive_gateway_ids EXCEPT ![p] = @ \cup {q}]
     /\ UNCHANGED <<alive_peer_ids, to_app>>
  \/ /\ role = "Node"
     /\ alive_peer_ids' = [alive_peer_ids EXCEPT ![p] = @ \cup {q}]
     /\ to_app' = [to_app EXCEPT ![p] = alive_peer_ids'[p]]
     /\ UNCHANGED alive_gateway_ids

From(m) == CHOOSE p \in Ends(m.on) : p # m.to

\* A request for the role: answered on the same connection. The one who asks
\* tells its own role, which a gateway has no use for.
\* answer_as_node is a faulty form: every peer answers as a node.
answer_as_node(m) ==
  /\ m \in wire /\ m.kind = "request" /\ seen[m.on][m.to] = "open"
  /\ wire' = (wire \ {m}) \cup Put({[m EXCEPT !.kind = "response", !.to = From(m), !.role = "Node"]})
  /\ \/ m.to \in Nodes /\ insert_by_role(m.to, From(m), m.role)
     \/ m.to \in Gateways /\ UNCHANGED <<alive_peer_ids, alive_gateway_ids, to_app>>
  /\ UNCHANGED <<link, seen, maroon_peer_ids>>

\* no_answer is a faulty form: a gateway leaves the question unanswered.
no_answer(m) ==
  /\ m \in wire /\ m.kind = "request" /\ seen[m.on][m.to] = "open"
  /\ wire' = wire \ {m}
  /\ \/ m.to \in Nodes /\ insert_by_role(m.to, From(m), m.role)
     \/ m.to \in Gateways /\ UNCHANGED <<alive_peer_ids, alive_gateway_ids, to_app>>
  /\ UNCHANGED <<link, seen, maroon_peer_ids>>

ReceiveRequest(m) ==
  /\ m \in wire /\ m.kind = "request" /\ seen[m.on][m.to] = "open"
  /\ wire' = (wire \ {m}) \cup
       Put({[kind |-> "response", about |-> m.about, on |-> m.on, to |-> From(m),
             role |-> Role(m.to)]})
  /\ \/ m.to \in Nodes /\ insert_by_role(m.to, From(m), m.role)
     \/ m.to \in Gateways /\ UNCHANGED <<alive_peer_ids, alive_gateway_ids, to_app>>
  /\ UNCHANGED <<link, seen, maroon_peer_ids>>

\* The answer. Only nodes ask.
ReceiveResponse(m) ==
  /\ m \in wire /\ m.kind = "response" /\ seen[m.on][m.to] = "open"
  /\ wire' = wire \ {m}
  /\ insert_by_role(m.to, From(m), m.role)
  /\ UNCHANGED <<link, seen, maroon_peer_ids>>

Next ==
  \/ \E c \in Dials : Dial(c) \/ Cut(c)
  \/ \E c \in Dials : \E p, q \in Ends(c) : Established(p, q, c) \/ Closed(p, q, c)
  \/ \E m \in wire : ReceiveRequest(m) \/ ReceiveResponse(m)

Spec == Init /\ [][Next]_vars

\* An event loop that has something to handle handles something; there is only
\* so much, since a connection opens and closes once. Connections are never
\* obliged to come up, nor to be cut.
Handle(p) ==
  \/ \E c \in Dials : p \in Ends(c) /\ \E q \in Ends(c) \ {p} :
       Established(p, q, c) \/ Closed(p, q, c)
  \/ \E m \in wire : m.to = p /\ (ReceiveRequest(m) \/ ReceiveResponse(m))

Fairness == \A p \in Peers : WF_vars(Handle(p))

FairSpec == Spec /\ Fairness

-----------------------------------------------------------------------------
(***************************************************************************)
(* Properties.                                                             *)
(***************************************************************************)

Message == [kind : {"request", "response"}, about : Dials, on : Dials,
            to : Peers, role : {"Node", "Gateway"}]

\* Messages are on a connection of the peer they go to, and nodes and gateways
\* are kept apart: the gateways' ids are never handed to the App as nodes.
TypeOK ==
  /\ link \in [Dials -> {"unused", "up", "down"}]
  /\ seen \in [Dials -> [Peers -> {"no", "open", "closed"}]]
  /\ wire \subseteq Message
  /\ \A m \in wire : m.to \in Ends(m.on)
  /\ alive_peer_ids \in [Nodes -> SUBSET Nodes]
  /\ alive_gateway_ids \in [Nodes -> SUBSET Gateways]
  /\ maroon_peer_ids \in [Gateways -> SUBSET Nodes]
  /\ to_app \in [Nodes -> SUBSET Nodes]

\* A peer that is counted as alive is one there is an open connection to,
\* whenever the answer about its role came and whichever connection closed.
AliveAreConnected ==
  /\ \A p \in Nodes : \A q \in (alive_peer_ids[p] \ {p}) \cup alive_gateway_ids[p] :
       Open(p, q) # {}
  /\ \A g \in Gateways : \A q \in maroon_peer_ids[g] : Open(g, q) # {}

\* What the App was told last is what is alive, and the node is always part of
\* it: recalculate_order "expects" that (app.rs:441).
AppIsUpToDate ==
  \A p \in Nodes :
    /\ p \in alive_peer_ids[p]
    /\ alive_peer_ids[p] = IF to_app[p] = {} THEN {p} ELSE to_app[p]

Known(p) == IF p \in Nodes THEN alive_peer_ids[p] \cup alive_gateway_ids[p]
            ELSE maroon_peer_ids[p]

\* Peers that are connected learn of each other, unless a connection between
\* them is cut. The end of one connection makes them forget each other even
\* while another is up, and neither asks again.
ConnectedPeersMeet ==
  \A c \in Dials :
    link[c] = "up" ~> \/ link[c] = "down"
                      \/ \E d \in Between(c[1], c[2]) : \E p \in Ends(d) : seen[d][p] = "closed"
                      \/ c[1] \in Known(c[2]) /\ c[2] \in Known(c[1])
=============================================================================
