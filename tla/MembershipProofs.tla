--------------------------- MODULE MembershipProofs -------------------------
(***************************************************************************)
(* Proofs about Membership: the sets a peer keeps of the others are always *)
(* within what it is connected to, and the App knows the latest of them.   *)
(***************************************************************************)
EXTENDS Membership, TLAPS

\* Connections are between two peers, one of which is a node.
LEMMA TwoEnds ==
  ASSUME NEW p, NEW q, NEW c \in Between(p, q)
  PROVE  c \in Dials /\ Ends(c) = {p, q} /\ p # q /\ (p \notin Nodes => q \in Nodes)
<1>1. c \in Dials /\ {c[1], c[2]} = {p, q}
  BY DEF Between, Ends
<1>2. c[2] \in Nodes /\ c[1] # c[2]
  BY <1>1, MembershipAssumption
<1>3. (c[1] = p /\ c[2] = q) \/ (c[1] = q /\ c[2] = p)
  BY <1>1, <1>2
<1>. QED
  BY <1>1, <1>2, <1>3 DEF Ends

\* The other end of a message's connection.
LEMMA FromIsTheOtherEnd ==
  ASSUME NEW m, m.on \in Dials, m.to \in Ends(m.on)
  PROVE  /\ From(m) \in Peers /\ From(m) # m.to
         /\ Ends(m.on) = {m.to, From(m)}
         /\ m.on \in Between(m.to, From(m))
<1>1. /\ m.on[1] \in Peers /\ m.on[2] \in Peers /\ m.on[1] # m.on[2]
  BY MembershipAssumption DEF Peers
<1>2. \E p \in Ends(m.on) : p # m.to
  BY <1>1 DEF Ends
<1>3. From(m) \in Ends(m.on) /\ From(m) # m.to
  BY <1>2 DEF From
<1>. QED
  BY <1>1, <1>3 DEF Ends, Between

\* The inductive invariant. That the answers about a role are of one who has
\* it is what keeps nodes and gateways apart.
WireIsSound ==
  /\ wire \subseteq Message
  /\ \A m \in wire : m.to \in Ends(m.on)
  /\ \A m \in wire : m.role = Role(From(m))
  /\ \A m \in wire : m.kind = "response" => m.to \in Nodes
  /\ \A m \in wire : m.kind = "request" => From(m) \in Nodes

IndInv ==
  /\ link \in [Dials -> {"unused", "up", "down"}]
  /\ seen \in [Dials -> [Peers -> {"no", "open", "closed"}]]
  /\ WireIsSound
  /\ alive_peer_ids \in [Nodes -> SUBSET Nodes]
  /\ alive_gateway_ids \in [Nodes -> SUBSET Gateways]
  /\ maroon_peer_ids \in [Gateways -> SUBSET Nodes]
  /\ to_app \in [Nodes -> SUBSET Nodes]
  /\ AliveAreConnected
  /\ AppIsUpToDate

LEMMA IndInvInit == Init => IndInv
<1> SUFFICES ASSUME Init PROVE IndInv
  OBVIOUS
<1> USE DEF Init
<1>1. WireIsSound
  BY DEF WireIsSound
<1>2. AliveAreConnected
  BY DEF AliveAreConnected
<1>3. AppIsUpToDate
  BY DEF AppIsUpToDate
<1>4. to_app \in [Nodes -> SUBSET Nodes]
  OBVIOUS
<1>. QED
  BY <1>1, <1>2, <1>3, <1>4 DEF IndInv

\* Messages of Put are among those given.
LEMMA PutIsAmong == \A messages : Put(messages) \subseteq messages
  BY DEF Put

\* What the App knows after the node told it of its set.
LEMMA Told ==
  ASSUME to_app \in [Nodes -> SUBSET Nodes], NEW p \in Nodes,
         NEW S \in SUBSET Nodes, p \in S, AppIsUpToDate,
         alive_peer_ids \in [Nodes -> SUBSET Nodes],
         alive_peer_ids' = [alive_peer_ids EXCEPT ![p] = S],
         to_app' = [to_app EXCEPT ![p] = S]
  PROVE  /\ to_app' \in [Nodes -> SUBSET Nodes]
         /\ AppIsUpToDate'
<1>1. \A r \in Nodes : /\ to_app'[r] = IF r = p THEN S ELSE to_app[r]
                      /\ alive_peer_ids'[r] = IF r = p THEN S ELSE alive_peer_ids[r]
  OBVIOUS
<1>2. to_app' \in [Nodes -> SUBSET Nodes]
  OBVIOUS
<1>3. ASSUME NEW r \in Nodes
      PROVE  /\ r \in alive_peer_ids'[r]
             /\ alive_peer_ids'[r] = IF to_app'[r] = {} THEN {r} ELSE to_app'[r]
  <2>1. CASE r = p
    <3>1. alive_peer_ids'[r] = S /\ to_app'[r] = S /\ S # {}
      BY <1>1, <2>1
    <3>. QED  BY <2>1, <3>1
  <2>2. CASE r # p
    <3>1. alive_peer_ids'[r] = alive_peer_ids[r] /\ to_app'[r] = to_app[r]
      BY <1>1, <2>2
    <3>2. /\ r \in alive_peer_ids[r]
          /\ alive_peer_ids[r] = IF to_app[r] = {} THEN {r} ELSE to_app[r]
      BY DEF AppIsUpToDate
    <3>. QED  BY <3>1, <3>2
  <2>. QED  BY <2>1, <2>2
<1>4. AppIsUpToDate'
  BY <1>3 DEF AppIsUpToDate
<1>. QED
  BY <1>2, <1>4

\* What a node learns of a peer it has a connection to.
LEMMA InsertKeeps ==
  ASSUME IndInv, NEW p \in Nodes, NEW q \in Peers, q # p, Open(p, q) # {},
         insert_by_role(p, q, Role(q)), UNCHANGED <<link, seen, maroon_peer_ids>>,
         WireIsSound'
  PROVE  IndInv'
<1> USE DEF IndInv
<1>1. \A r, t \in Peers : Open(r, t)' = Open(r, t)
  BY DEF Open, Between, Ends
<1>2. CASE q \in Gateways
  <2>1. Role(q) = "Gateway"
    BY <1>2, MembershipAssumption DEF Role
  <2>2. /\ alive_gateway_ids' = [alive_gateway_ids EXCEPT ![p] = @ \cup {q}]
        /\ UNCHANGED <<alive_peer_ids, to_app>>
    BY <2>1 DEF insert_by_role
  <2>3. AliveAreConnected'
    BY <1>1, <1>2, <2>2 DEF AliveAreConnected, Peers
  <2>4. AppIsUpToDate'
    BY <2>2 DEF AppIsUpToDate
  <2>5. alive_gateway_ids' \in [Nodes -> SUBSET Gateways]
    BY <1>2, <2>2
  <2>. QED
    BY <2>2, <2>3, <2>4, <2>5
<1>3. CASE q \in Nodes
  <2>1. Role(q) = "Node"
    BY <1>3 DEF Role
  <2> DEFINE S == alive_peer_ids[p] \cup {q}
  <2>2. /\ alive_peer_ids' = [alive_peer_ids EXCEPT ![p] = S]
        /\ to_app' = [to_app EXCEPT ![p] = alive_peer_ids'[p]]
        /\ UNCHANGED alive_gateway_ids
    BY <2>1 DEF insert_by_role
  <2>3. S \in SUBSET Nodes /\ p \in S /\ alive_peer_ids'[p] = S
    BY <1>3, <2>2 DEF AppIsUpToDate
  <2>4. AliveAreConnected'
    BY <1>1, <2>2 DEF AliveAreConnected, Peers
  <2>5. to_app' = [to_app EXCEPT ![p] = S]
    BY <2>2, <2>3
  <2>6. alive_peer_ids' \in [Nodes -> SUBSET Nodes]
    BY <2>2, <2>3
  <2> HIDE DEF S
  <2>7. to_app' \in [Nodes -> SUBSET Nodes] /\ AppIsUpToDate'
    BY <2>2, <2>3, <2>5, Told
  <2>. QED
    BY <2>2, <2>4, <2>6, <2>7
<1>. QED
  BY <1>2, <1>3 DEF Peers

-----------------------------------------------------------------------------
\* The steps.

LEMMA EstablishedKeeps ==
  ASSUME IndInv, NEW p \in Peers, NEW q \in Peers, NEW c \in Dials, Established(p, q, c)
  PROVE  IndInv'
<1> USE DEF IndInv
<1>1. /\ c \in Between(p, q) /\ Ends(c) = {p, q} /\ p # q
      /\ seen' = [seen EXCEPT ![c][p] = "open"] /\ UNCHANGED link
  <2>1. c \in Between(p, q) /\ seen' = [seen EXCEPT ![c][p] = "open"] /\ UNCHANGED link
    BY DEF Established
  <2>. QED  BY <2>1, TwoEnds
<1>2. seen' \in [Dials -> [Peers -> {"no", "open", "closed"}]]
  BY <1>1
<1>3. \A r, t \in Peers : Open(r, t) \subseteq Open(r, t)'
  BY <1>1 DEF Open, Between, Ends
<1>4. c \in Open(p, q)'
  BY <1>1 DEF Open, Between, Ends
<1>5. CASE p \in Nodes
  <2>1. p \notin Gateways
    BY <1>5, MembershipAssumption
  <2>2. UNCHANGED member_vars
    BY <2>1 DEF Established
  <2>3. PICK on \in Open(p, q) \cup {c} :
          wire' = wire \cup Put({[kind |-> "request", about |-> c, on |-> on, to |-> q,
                                 role |-> Role(p)]})
    BY <2>1 DEF Established
  <2> DEFINE msg == [kind |-> "request", about |-> c, on |-> on, to |-> q, role |-> Role(p)]
  <2>4. on \in Dials /\ Ends(on) = {p, q}
    BY <1>1 DEF Open, Between
  <2>5. msg \in Message /\ msg.to \in Ends(msg.on)
    BY <2>4 DEF Message, Role
  <2>6. From(msg) = p
    BY <1>1, <2>4, <2>5, FromIsTheOtherEnd
  <2>7. \A m \in wire' : m \in wire \/ m = msg
    BY <2>3, PutIsAmong
  <2>8. msg.role = Role(From(msg)) /\ msg.kind = "request" /\ From(msg) \in Nodes
    BY <1>5, <2>6
  <2> HIDE DEF msg
  <2>9. WireIsSound'
    <3>1. \A m \in wire' :
            /\ m \in Message /\ m.to \in Ends(m.on) /\ m.role = Role(From(m))
            /\ m.kind = "response" => m.to \in Nodes
            /\ m.kind = "request" => From(m) \in Nodes
      BY <2>5, <2>7, <2>8 DEF WireIsSound
    <3>. QED  BY <3>1 DEF WireIsSound
  <2>10. AliveAreConnected' /\ AppIsUpToDate'
    BY <1>3, <2>2 DEF AliveAreConnected, AppIsUpToDate, member_vars, Peers
  <2>. QED
    BY <1>1, <1>2, <2>2, <2>9, <2>10 DEF member_vars
<1>6. CASE p \in Gateways
  <2>1. p \notin Nodes
    BY <1>6, MembershipAssumption
  <2>2. /\ maroon_peer_ids' = [maroon_peer_ids EXCEPT ![p] = @ \cup {q}]
        /\ UNCHANGED <<wire, alive_peer_ids, alive_gateway_ids, to_app>>
    BY <2>1 DEF Established
  <2>3. q \in Nodes
    BY <1>1, <2>1, TwoEnds
  <2>4. maroon_peer_ids' \in [Gateways -> SUBSET Nodes]
    BY <2>2, <2>3
  <2>5. AliveAreConnected'
    BY <1>3, <1>4, <1>6, <2>2 DEF AliveAreConnected, Peers
  <2>6. WireIsSound' /\ AppIsUpToDate'
    BY <2>2 DEF WireIsSound, AppIsUpToDate
  <2>. QED
    BY <1>1, <1>2, <2>2, <2>4, <2>5, <2>6
<1>. QED
  BY <1>5, <1>6 DEF Peers

\* The end of a connection to q changes what is open to nobody else.
LEMMA ClosedKeeps ==
  ASSUME IndInv, NEW p \in Peers, NEW q \in Peers, NEW c \in Dials, Closed(p, q, c)
  PROVE  IndInv'
<1> USE DEF IndInv
<1>1. /\ c \in Between(p, q) /\ Ends(c) = {p, q} /\ p # q
      /\ seen' = [seen EXCEPT ![c][p] = "closed"] /\ UNCHANGED link
      /\ wire' \subseteq wire
  <2>1. c \in Between(p, q) /\ seen' = [seen EXCEPT ![c][p] = "closed"] /\ UNCHANGED link
    BY DEF Closed
  <2>2. wire' \subseteq wire
    BY DEF Closed
  <2>. QED  BY <2>1, <2>2, TwoEnds
<1>2. seen' \in [Dials -> [Peers -> {"no", "open", "closed"}]]
  BY <1>1
<1>3. WireIsSound'
  BY <1>1 DEF WireIsSound
<1>4. ASSUME NEW r \in Peers, NEW t \in Peers, r # p \/ t # q
      PROVE  Open(r, t) \subseteq Open(r, t)'
  <2>1. SUFFICES ASSUME NEW d \in Between(r, t), seen[d][r] = "open"
                 PROVE  seen'[d][r] = "open"
    BY DEF Open, Between
  <2>2. d \in Dials /\ Ends(d) = {r, t} /\ r # t
    BY TwoEnds
  <2>3. d # c \/ r # p
    BY <1>1, <1>4, <2>2
  <2>. QED
    BY <1>1, <2>1, <2>2, <2>3
<1>5. CASE p \in Gateways
  <2>1. p \notin Nodes
    BY <1>5, MembershipAssumption
  <2>2. /\ maroon_peer_ids' = [maroon_peer_ids EXCEPT ![p] = @ \ {q}]
        /\ UNCHANGED <<alive_peer_ids, alive_gateway_ids, to_app>>
    BY <2>1 DEF Closed
  <2>3. AliveAreConnected'
    <3>1. \A r \in Nodes : \A t \in (alive_peer_ids'[r] \ {r}) \cup alive_gateway_ids'[r] :
            Open(r, t)' # {}
      BY <1>4, <2>1, <2>2 DEF AliveAreConnected, Peers
    <3>2. ASSUME NEW g \in Gateways, NEW t \in maroon_peer_ids'[g] PROVE Open(g, t)' # {}
      <4>1. t \in maroon_peer_ids[g] /\ (g # p \/ t # q) /\ t \in Peers /\ g \in Peers
        BY <2>2, <3>2 DEF Peers
      <4>. QED  BY <1>4, <4>1 DEF AliveAreConnected
    <3>. QED  BY <3>1, <3>2 DEF AliveAreConnected
  <2>4. AppIsUpToDate'
    BY <2>2 DEF AppIsUpToDate
  <2>. QED
    BY <1>1, <1>2, <1>3, <2>2, <2>3, <2>4
<1>6. CASE p \in Nodes
  <2>1. p \notin Gateways
    BY <1>6, MembershipAssumption
  <2> DEFINE S == alive_peer_ids[p] \ {q}
  <2>2. /\ alive_gateway_ids' = [alive_gateway_ids EXCEPT ![p] = @ \ {q}]
        /\ alive_peer_ids' = [alive_peer_ids EXCEPT ![p] = S]
        /\ to_app' = IF q \in alive_peer_ids[p]
                     THEN [to_app EXCEPT ![p] = alive_peer_ids'[p]]
                     ELSE to_app
        /\ UNCHANGED maroon_peer_ids
    BY <2>1 DEF Closed
  <2>3. S \in SUBSET Nodes /\ p \in S /\ alive_peer_ids'[p] = S
    BY <1>1, <1>6, <2>2 DEF AppIsUpToDate
  <2>4. AliveAreConnected'
    <3>1. ASSUME NEW r \in Nodes, NEW t \in (alive_peer_ids'[r] \ {r}) \cup alive_gateway_ids'[r]
          PROVE  Open(r, t)' # {}
      <4>1. /\ t \in (alive_peer_ids[r] \ {r}) \cup alive_gateway_ids[r]
            /\ r # p \/ t # q
        BY <2>2, <3>1
      <4>2. t \in Peers /\ r \in Peers
        BY <4>1 DEF Peers
      <4>. QED  BY <1>4, <4>1, <4>2 DEF AliveAreConnected
    <3>2. ASSUME NEW g \in Gateways, NEW t \in maroon_peer_ids'[g] PROVE Open(g, t)' # {}
      <4>1. t \in maroon_peer_ids[g] /\ g # p /\ t \in Peers /\ g \in Peers
        BY <2>1, <2>2, <3>2 DEF Peers
      <4>. QED  BY <1>4, <4>1 DEF AliveAreConnected
    <3>. QED  BY <3>1, <3>2 DEF AliveAreConnected
  <2>5. alive_peer_ids' \in [Nodes -> SUBSET Nodes]
    BY <2>2, <2>3
  <2>6. to_app' \in [Nodes -> SUBSET Nodes] /\ AppIsUpToDate'
    <3>1. CASE q \in alive_peer_ids[p]
      <4>1. to_app' = [to_app EXCEPT ![p] = S]
        BY <2>2, <2>3, <3>1
      <4> HIDE DEF S
      <4>. QED  BY <1>6, <2>2, <2>3, <4>1, Told
    <3>2. CASE q \notin alive_peer_ids[p]
      <4>1. S = alive_peer_ids[p]
        BY <3>2
      <4>2. alive_peer_ids' = alive_peer_ids /\ to_app' = to_app
        BY <2>2, <3>2, <4>1
      <4>. QED  BY <4>2 DEF AppIsUpToDate
    <3>. QED  BY <3>1, <3>2
  <2>. QED
    BY <1>1, <1>2, <1>3, <2>2, <2>4, <2>5, <2>6
<1>. QED
  BY <1>5, <1>6 DEF Peers

LEMMA ReceiveRequestKeeps ==
  ASSUME IndInv, NEW m \in wire, ReceiveRequest(m)
  PROVE  IndInv'
<1> USE DEF IndInv
<1> DEFINE answer == [kind |-> "response", about |-> m.about, on |-> m.on, to |-> From(m),
                     role |-> Role(m.to)]
<1>1. /\ m \in Message /\ m.to \in Ends(m.on) /\ m.role = Role(From(m))
      /\ m.kind = "request" /\ From(m) \in Nodes
  BY DEF WireIsSound, ReceiveRequest
<1>2. /\ m.to \in Peers /\ From(m) \in Peers /\ From(m) # m.to
      /\ m.on \in Between(m.to, From(m)) /\ Ends(m.on) = {m.to, From(m)}
  BY <1>1, FromIsTheOtherEnd DEF Message
<1>3. /\ answer \in Message /\ answer.on = m.on /\ answer.to = From(m)
      /\ answer.role = Role(m.to) /\ answer.kind = "response"
  BY <1>1, <1>2 DEF Message, Role
<1>4. answer.to \in Ends(answer.on) /\ From(answer) = m.to
  <2>1. answer.on \in Dials /\ answer.to \in Ends(answer.on)
    BY <1>1, <1>2, <1>3 DEF Message
  <2> HIDE DEF answer
  <2>2. From(answer) # answer.to /\ Ends(answer.on) = {answer.to, From(answer)}
    BY <2>1, FromIsTheOtherEnd
  <2>. QED  BY <1>2, <1>3, <2>1, <2>2
<1>5. /\ UNCHANGED <<link, seen, maroon_peer_ids>>
      /\ seen[m.on][m.to] = "open"
      /\ \A n \in wire' : n \in wire \/ n = answer
  BY PutIsAmong DEF ReceiveRequest
<1> HIDE DEF answer
<1>6. WireIsSound'
  <2>1. \A n \in wire' :
          /\ n \in Message /\ n.to \in Ends(n.on) /\ n.role = Role(From(n))
          /\ n.kind = "response" => n.to \in Nodes
          /\ n.kind = "request" => From(n) \in Nodes
    BY <1>1, <1>3, <1>4, <1>5 DEF WireIsSound
  <2>. QED  BY <2>1 DEF WireIsSound
<1>7. Open(m.to, From(m)) # {}
  BY <1>2, <1>5 DEF Open
<1>8. CASE m.to \in Nodes
  <2>1. insert_by_role(m.to, From(m), Role(From(m)))
    BY <1>1, <1>8, MembershipAssumption DEF ReceiveRequest
  <2>. QED
    BY <1>2, <1>5, <1>6, <1>7, <1>8, <2>1, InsertKeeps
<1>9. CASE m.to \in Gateways
  <2>1. UNCHANGED <<alive_peer_ids, alive_gateway_ids, to_app>>
    BY <1>9, MembershipAssumption DEF ReceiveRequest
  <2>2. AliveAreConnected'
    <3>1. \A r, t : Open(r, t)' = Open(r, t)
      BY <1>5 DEF Open, Between, Ends
    <3>. QED  BY <1>5, <2>1, <3>1 DEF AliveAreConnected
  <2>3. AppIsUpToDate'
    BY <2>1 DEF AppIsUpToDate
  <2>. QED
    BY <1>5, <1>6, <2>1, <2>2, <2>3
<1>. QED
  BY <1>2, <1>8, <1>9 DEF Peers

LEMMA ReceiveResponseKeeps ==
  ASSUME IndInv, NEW m \in wire, ReceiveResponse(m)
  PROVE  IndInv'
<1> USE DEF IndInv
<1>1. /\ m \in Message /\ m.to \in Ends(m.on) /\ m.role = Role(From(m)) /\ m.to \in Nodes
  BY DEF WireIsSound, ReceiveResponse
<1>2. /\ From(m) \in Peers /\ From(m) # m.to /\ m.on \in Between(m.to, From(m))
  BY <1>1, FromIsTheOtherEnd DEF Message
<1>3. /\ UNCHANGED <<link, seen, maroon_peer_ids>> /\ seen[m.on][m.to] = "open"
      /\ wire' \subseteq wire
      /\ insert_by_role(m.to, From(m), Role(From(m)))
  BY <1>1 DEF ReceiveResponse
<1>4. WireIsSound'
  BY <1>3 DEF WireIsSound
<1>5. Open(m.to, From(m)) # {}
  BY <1>2, <1>3 DEF Open
<1>. QED
  BY <1>1, <1>2, <1>3, <1>4, <1>5, InsertKeeps

LEMMA IndInvStep == IndInv /\ [Next]_vars => IndInv'
<1> SUFFICES ASSUME IndInv, [Next]_vars PROVE IndInv'
  OBVIOUS
<1>1. ASSUME UNCHANGED <<seen, wire, member_vars>>,
             link' \in [Dials -> {"unused", "up", "down"}]
      PROVE  IndInv'
  <2>1. UNCHANGED <<seen, wire, alive_peer_ids, alive_gateway_ids, maroon_peer_ids, to_app>>
    BY <1>1 DEF member_vars
  <2>2. \A r, t : Open(r, t)' = Open(r, t)
    BY <2>1 DEF Open, Between, Ends
  <2>3. AliveAreConnected'
    BY <2>1, <2>2 DEF AliveAreConnected, IndInv
  <2>4. WireIsSound' /\ AppIsUpToDate'
    BY <2>1 DEF WireIsSound, AppIsUpToDate, IndInv
  <2>. QED
    BY <1>1, <2>1, <2>3, <2>4 DEF IndInv
<1>2. ASSUME NEW c \in Dials, Dial(c) \/ Cut(c) PROVE IndInv'
  BY <1>1, <1>2 DEF Dial, Cut, IndInv
<1>3. CASE UNCHANGED vars
  BY <1>1, <1>3 DEF vars, IndInv
<1>4. ASSUME NEW c \in Dials, NEW p \in Ends(c), NEW q \in Ends(c),
             Established(p, q, c) \/ Closed(p, q, c)
      PROVE  IndInv'
  <2>1. p \in Peers /\ q \in Peers
    BY MembershipAssumption DEF Ends, Peers
  <2>. QED
    BY <1>4, <2>1, EstablishedKeeps, ClosedKeeps
<1>5. ASSUME NEW m \in wire, ReceiveRequest(m) \/ ReceiveResponse(m) PROVE IndInv'
  BY <1>5, ReceiveRequestKeeps, ReceiveResponseKeeps
<1>. QED
  BY <1>2, <1>3, <1>4, <1>5 DEF Next

-----------------------------------------------------------------------------
\* Nodes and gateways are kept apart in every set and on every connection.
THEOREM TypeCorrect == Spec => []TypeOK
<1>1. IndInv => TypeOK
  BY DEF IndInv, WireIsSound, TypeOK
<1>. QED
  BY <1>1, IndInvInit, IndInvStep, PTL DEF Spec

\* Whoever is counted as alive is connected (ConnectionClosed and
\* insert_by_role), with any number of connections between two peers.
THEOREM AliveMeansConnected == Spec => []AliveAreConnected
  BY IndInvInit, IndInvStep, PTL DEF Spec, IndInv

\* The App always knows the latest set, and a node is in every set it tells
\* (recalculate_order).
THEOREM AppFindsItself == Spec => []AppIsUpToDate
  BY IndInvInit, IndInvStep, PTL DEF Spec, IndInv
=============================================================================
