---------------------------- MODULE GatewayProofs ---------------------------
(***************************************************************************)
(* The end of a gateway's event loop, for any nodes and gateways, whoever  *)
(* dials whom, and any number of transactions.                             *)
(***************************************************************************)
EXTENDS Gateway, MembershipProofs, FiniteSetTheorems

Offsets == 0..(MaxTransactions - 1)

\* A transaction goes from its gateway to a node, an acknowledgement from a
\* node whose P2P took the transaction to its gateway.
GmWireIsSound ==
  \A m \in gm_wire :
    /\ m.on \in Dials /\ m.to \in Ends(m.on)
    /\ m.kind \in {"tx", "ack"}
    /\ m.kind = "tx" => /\ m.to \in Nodes /\ From(m) \in Gateways
                        /\ \E tx \in Offsets : m.id = <<From(m), tx>>
    /\ m.kind = "ack" => /\ m.to \in Gateways
                         /\ \E p \in Nodes, tx \in Offsets :
                              m.id = <<m.to, tx>> /\ m.id \in received[p]

GatewayInv ==
  /\ maroon_peer_ids \in [Gateways -> SUBSET Nodes]
  /\ sent \in [Gateways -> Nat]
  /\ requests \in [Gateways -> Seq(Offsets)]
  /\ received \in [Nodes -> SUBSET (Gateways \X Offsets)]
  /\ user \in [Gateways -> {"held", "dropped"}]
  /\ event_loop \in [Gateways -> {"running", "panicked"}]
  /\ GmWireIsSound
  /\ LoopEndsAfterGateway

\* Messages that were lost, and receipts that were added, harm nobody.
LEMMA LessOnTheWire ==
  ASSUME GatewayInv, gm_wire' \subseteq gm_wire,
         received' \in [Nodes -> SUBSET (Gateways \X Offsets)],
         \A p \in Nodes : received[p] \subseteq received'[p]
  PROVE  GmWireIsSound'
<1> SUFFICES ASSUME NEW m \in gm_wire'
             PROVE  (/\ m.on \in Dials /\ m.to \in Ends(m.on)
                     /\ m.kind \in {"tx", "ack"}
                     /\ m.kind = "tx" => /\ m.to \in Nodes /\ From(m) \in Gateways
                                         /\ \E tx \in Offsets : m.id = <<From(m), tx>>
                     /\ m.kind = "ack" => /\ m.to \in Gateways
                                          /\ \E p \in Nodes, tx \in Offsets :
                                               m.id = <<m.to, tx>> /\ m.id \in received'[p])
  BY DEF GmWireIsSound
<1>. QED
  BY DEF GatewayInv, GmWireIsSound

\* A loop that has panicked did so after a receipt, and receipts stay.
LEMMA PanicsStay ==
  ASSUME GatewayInv, UNCHANGED <<event_loop>>,
         \A g \in Gateways : user[g] = "dropped" => user'[g] = "dropped",
         \A p \in Nodes : received[p] \subseteq received'[p]
  PROVE  LoopEndsAfterGateway'
  BY DEF GatewayInv, LoopEndsAfterGateway

\* The nodes a gateway knows are nodes: it dials them, and nobody dials it.
LEMMA MembershipStepKeeps ==
  ASSUME GatewayInv, MembershipStep
  PROVE  GatewayInv'
<1>1. /\ UNCHANGED <<requests, sent, received, acks, user, event_loop>>
      /\ gm_wire' \subseteq gm_wire
  BY DEF MembershipStep, node_vars
<1>2. maroon_peer_ids' \in [Gateways -> SUBSET Nodes]
  <2>1. ASSUME NEW c \in Dials, NEW p \in Ends(c), NEW q \in Ends(c), Established(p, q, c)
        PROVE  maroon_peer_ids' \in [Gateways -> SUBSET Nodes]
    <3>1. CASE p \in Nodes /\ UNCHANGED member_vars
      BY <3>1 DEF member_vars, GatewayInv
    <3>2. CASE /\ p \in Gateways
               /\ maroon_peer_ids' = [maroon_peer_ids EXCEPT ![p] = @ \cup {q}]
      <4>1. Ends(c) = {p, q}
        BY <2>1 DEF Established, Between
      <4>2. c[2] \in Nodes /\ c[2] \in Ends(c) /\ p \notin Nodes
        BY <3>2, MembershipAssumption DEF Ends
      <4>3. q \in Nodes
        BY <4>1, <4>2
      <4>. QED  BY <3>2, <4>3 DEF GatewayInv
    <3>. QED  BY <2>1, <3>1, <3>2 DEF Established
  <2>2. ASSUME NEW c \in Dials, NEW p \in Ends(c), NEW q \in Ends(c), Closed(p, q, c)
        PROVE  maroon_peer_ids' \in [Gateways -> SUBSET Nodes]
    BY <2>2 DEF Closed, GatewayInv
  <2>3. ASSUME \/ \E c \in Dials : Dial(c) \/ Cut(c)
               \/ \E m \in wire : ReceiveRequest(m) \/ ReceiveResponse(m)
        PROVE  maroon_peer_ids' = maroon_peer_ids
    BY <2>3 DEF Dial, Cut, ReceiveRequest, ReceiveResponse, member_vars
  <2>. QED
    BY <2>1, <2>2, <2>3 DEF MembershipStep, Next, GatewayInv
<1>3. GmWireIsSound'
  BY <1>1, LessOnTheWire DEF GatewayInv
<1>4. LoopEndsAfterGateway'
  BY <1>1, PanicsStay
<1>. QED
  BY <1>1, <1>2, <1>3, <1>4 DEF GatewayInv

\* A gateway sends its own transactions, to nodes.
LEMMA BroadcastKeeps ==
  ASSUME GatewayInv, NEW g \in Gateways, Broadcast(g)
  PROVE  GatewayInv'
<1>1. PICK over \in [maroon_peer_ids[g] -> Dials] :
        /\ \A q \in DOMAIN over : over[q] \in Open(g, q)
        /\ gm_wire' = gm_wire \cup
             Put({[kind |-> "tx", id |-> <<g, Head(requests[g])>>, to |-> q, on |-> over[q]] :
                    q \in DOMAIN over})
  BY DEF Broadcast, node_vars
<1>2. /\ UNCHANGED <<maroon_peer_ids, sent, received, acks, user, event_loop>>
      /\ requests[g] # <<>> /\ requests' = [requests EXCEPT ![g] = Tail(@)]
  BY DEF Broadcast, node_vars, vars, member_vars
<1>3. requests[g] \in Seq(Offsets) /\ Head(requests[g]) \in Offsets
  BY <1>2 DEF GatewayInv
<1>4. requests' \in [Gateways -> Seq(Offsets)]
  BY <1>2, <1>3 DEF GatewayInv
<1>5. ASSUME NEW m \in gm_wire', m \notin gm_wire
      PROVE  /\ m.on \in Dials /\ m.to \in Ends(m.on) /\ m.kind = "tx"
             /\ m.to \in Nodes /\ From(m) \in Gateways
             /\ \E tx \in Offsets : m.id = <<From(m), tx>>
  <2>1. PICK q \in maroon_peer_ids[g] :
          m = [kind |-> "tx", id |-> <<g, Head(requests[g])>>, to |-> q, on |-> over[q]]
    BY <1>1, <1>5, PutIsAmong
  <2>2. q \in Nodes /\ over[q] \in Dials /\ Ends(over[q]) = {g, q}
    BY <1>1 DEF GatewayInv, Open, Between
  <2>3. g # q
    BY <2>2, MembershipAssumption
  <2>4. From(m) = g
    BY <2>1, <2>2, <2>3 DEF From
  <2>. QED  BY <1>3, <2>1, <2>2, <2>4
<1>6. GmWireIsSound'
  BY <1>2, <1>5, Zenon DEF GatewayInv, GmWireIsSound, From
<1>7. LoopEndsAfterGateway'
  BY <1>2, PanicsStay
<1>. QED
  BY <1>2, <1>4, <1>6, <1>7 DEF GatewayInv

\* A node notes a transaction in the step that acknowledges it, whatever comes
\* of the hand-over to its App.
LEMMA ReceiveTransactionKeeps ==
  ASSUME GatewayInv, NEW m \in gm_wire, ReceiveTransaction(m)
  PROVE  GatewayInv'
<1>1. /\ UNCHANGED <<maroon_peer_ids, requests, sent, acks, user, event_loop>>
      /\ received' = [received EXCEPT ![m.to] = @ \cup {m.id}]
      /\ \A n \in gm_wire' : n \in gm_wire \/ n = Acknowledgement(m)
      /\ m.kind = "tx"
  BY PutIsAmong DEF ReceiveTransaction, node_vars, vars, member_vars
<1>2. /\ m.on \in Dials /\ m.to \in Ends(m.on) /\ m.to \in Nodes /\ From(m) \in Gateways
      /\ \E tx \in Offsets : m.id = <<From(m), tx>>
  BY <1>1 DEF GatewayInv, GmWireIsSound
<1>3. PICK tx \in Offsets : m.id = <<From(m), tx>>
  BY <1>2
<1>4. /\ received' \in [Nodes -> SUBSET (Gateways \X Offsets)]
      /\ \A p \in Nodes : received[p] \subseteq received'[p]
      /\ m.id \in received'[m.to]
  BY <1>1, <1>2, <1>3 DEF GatewayInv
<1>5. GmWireIsSound'
  <2> SUFFICES ASSUME NEW n \in gm_wire'
               PROVE  (/\ n.on \in Dials /\ n.to \in Ends(n.on)
                       /\ n.kind \in {"tx", "ack"}
                       /\ n.kind = "tx" => /\ n.to \in Nodes /\ From(n) \in Gateways
                                           /\ \E t \in Offsets : n.id = <<From(n), t>>
                       /\ n.kind = "ack" => /\ n.to \in Gateways
                                            /\ \E p \in Nodes, t \in Offsets :
                                                 n.id = <<n.to, t>> /\ n.id \in received'[p])
    BY DEF GmWireIsSound
  <2>1. CASE n \in gm_wire
    BY <1>4, <2>1 DEF GatewayInv, GmWireIsSound
  <2>2. CASE n = Acknowledgement(m)
    <3>1. /\ n.kind = "ack" /\ n.on = m.on /\ n.to = From(m) /\ n.id = m.id
      BY <2>2 DEF Acknowledgement
    <3>2. From(m) \in Ends(m.on)
      BY <1>2, FromIsTheOtherEnd
    <3>. QED  BY <1>2, <1>3, <1>4, <3>1, <3>2
  <2>. QED  BY <1>1, <2>1, <2>2
<1>6. LoopEndsAfterGateway'
  BY <1>1, <1>4, PanicsStay
<1>. QED
  BY <1>1, <1>4, <1>5, <1>6 DEF GatewayInv


\* A panic of the loop takes nothing but the gateway's own ends away.
LEMMA PanicKeeps ==
  ASSUME GatewayInv, NEW g \in Gateways, Panic(g), user[g] = "dropped",
         \E p \in Nodes, tx \in Offsets : <<g, tx>> \in received[p],
         UNCHANGED <<requests, sent, received, user>>
  PROVE  GatewayInv'
<1>1. /\ event_loop' = [event_loop EXCEPT ![g] = "panicked"]
      /\ gm_wire' \subseteq gm_wire
      /\ maroon_peer_ids' = [maroon_peer_ids EXCEPT ![g] = {}]
  BY DEF Panic, node_vars
<1>2. GmWireIsSound'
  BY <1>1, LessOnTheWire DEF GatewayInv
<1>3. LoopEndsAfterGateway'
  <2> SUFFICES ASSUME NEW h \in Gateways, event_loop'[h] = "panicked"
               PROVE  /\ user[h] = "dropped"
                      /\ \E p \in Nodes, tx \in Offsets : <<h, tx>> \in received[p]
    BY DEF LoopEndsAfterGateway, Offsets
  <2>1. CASE h = g
    BY <2>1
  <2>2. CASE h # g
    BY <1>1, <2>2 DEF GatewayInv, LoopEndsAfterGateway, Offsets
  <2>. QED  BY <2>1, <2>2
<1>. QED
  BY <1>1, <1>2, <1>3 DEF GatewayInv

\* What is acknowledged was received, so that is what a panic follows.
LEMMA ReceiveAckKeeps ==
  ASSUME GatewayInv, NEW m \in gm_wire, ReceiveAck(m)
  PROVE  GatewayInv'
<1>1. UNCHANGED <<requests, sent, received, user>> /\ m.kind = "ack"
  BY DEF ReceiveAck, node_vars
<1>2. PICK p \in Nodes, tx \in Offsets : m.id = <<m.to, tx>> /\ m.id \in received[p]
  BY <1>1 DEF GatewayInv, GmWireIsSound
<1>3. m.to \in Gateways
  BY <1>1 DEF GatewayInv, GmWireIsSound
<1>4. CASE user[m.to] = "held"
  <2>1. gm_wire' \subseteq gm_wire /\ UNCHANGED <<maroon_peer_ids, event_loop>>
    BY <1>4 DEF ReceiveAck, node_vars, vars, member_vars
  <2>2. GmWireIsSound'
    BY <1>1, <2>1, LessOnTheWire DEF GatewayInv
  <2>3. LoopEndsAfterGateway'
    BY <1>1, <2>1, PanicsStay
  <2>. QED  BY <1>1, <2>1, <2>2, <2>3 DEF GatewayInv
<1>5. CASE user[m.to] # "held"
  <2>1. Panic(m.to)
    BY <1>5 DEF ReceiveAck, node_vars
  <2>2. user[m.to] = "dropped"
    BY <1>3, <1>5 DEF GatewayInv
  <2>. QED  BY <1>1, <1>2, <1>3, <2>1, <2>2, PanicKeeps
<1>. QED
  BY <1>4, <1>5

LEMMA send_requestKeeps ==
  ASSUME GatewayInv, NEW g \in Gateways, send_request(g)
  PROVE  GatewayInv'
<1>1. /\ UNCHANGED <<maroon_peer_ids, gm_wire, received, acks, user, event_loop>>
      /\ sent[g] < MaxTransactions /\ sent' = [sent EXCEPT ![g] = @ + 1]
      /\ requests' = [requests EXCEPT ![g] = Append(@, sent[g])]
  BY DEF send_request, node_vars, vars, member_vars
<1>2. sent[g] \in Offsets /\ sent[g] + 1 \in Nat
  BY <1>1, GatewayAssumption DEF GatewayInv, Offsets
<1>3. requests[g] \in Seq(Offsets)
  BY DEF GatewayInv
<1>4. Append(requests[g], sent[g]) \in Seq(Offsets)
  BY <1>2, <1>3
<1>5. requests' \in [Gateways -> Seq(Offsets)] /\ sent' \in [Gateways -> Nat]
  BY <1>1, <1>2, <1>4 DEF GatewayInv
<1>6. GmWireIsSound'
  BY <1>1, LessOnTheWire DEF GatewayInv
<1>7. LoopEndsAfterGateway'
  BY <1>1, PanicsStay
<1>. QED
  BY <1>1, <1>5, <1>6, <1>7 DEF GatewayInv

LEMMA DropGatewayKeeps ==
  ASSUME GatewayInv, NEW g \in Gateways, DropGateway(g)
  PROVE  GatewayInv'
<1>1. /\ UNCHANGED <<maroon_peer_ids, requests, sent, gm_wire, received, acks, event_loop>>
      /\ user' = [user EXCEPT ![g] = "dropped"]
  BY DEF DropGateway, node_vars, vars, member_vars
<1>2. user' \in [Gateways -> {"held", "dropped"}]
  BY <1>1 DEF GatewayInv
<1>3. \A h \in Gateways : user[h] = "dropped" => user'[h] = "dropped"
  BY <1>1 DEF GatewayInv
<1>4. GmWireIsSound'
  BY <1>1, LessOnTheWire DEF GatewayInv
<1>5. LoopEndsAfterGateway'
  BY <1>1, <1>3, PanicsStay
<1>. QED
  BY <1>1, <1>2, <1>4, <1>5 DEF GatewayInv

LEMMA AppEndsKeeps ==
  ASSUME GatewayInv, NEW p \in Nodes, AppEnds(p)
  PROVE  GatewayInv'
<1>1. UNCHANGED <<maroon_peer_ids, requests, sent, gm_wire, received, acks, user, event_loop>>
  BY DEF AppEnds, vars, member_vars
<1>2. GmWireIsSound'
  BY <1>1, LessOnTheWire DEF GatewayInv
<1>3. LoopEndsAfterGateway'
  BY <1>1, PanicsStay
<1>. QED
  BY <1>1, <1>2, <1>3 DEF GatewayInv

LEMMA GatewayInvInit == GatewayInit => GatewayInv
<1> SUFFICES ASSUME GatewayInit PROVE GatewayInv
  OBVIOUS
<1>1. GmWireIsSound /\ LoopEndsAfterGateway
  BY DEF GatewayInit, GmWireIsSound, LoopEndsAfterGateway
<1>2. requests \in [Gateways -> Seq(Offsets)]
  BY DEF GatewayInit
<1>3. maroon_peer_ids \in [Gateways -> SUBSET Nodes]
  BY DEF GatewayInit, Init
<1>. QED
  BY <1>1, <1>2, <1>3 DEF GatewayInit, GatewayInv

LEMMA GatewayInvStep == GatewayInv /\ [GatewayNext]_all_vars => GatewayInv'
<1> SUFFICES ASSUME GatewayInv, [GatewayNext]_all_vars PROVE GatewayInv'
  OBVIOUS
<1>1. CASE UNCHANGED all_vars
  <2>1. UNCHANGED <<maroon_peer_ids, gateway_vars>>
    BY <1>1 DEF all_vars, vars, member_vars
  <2>2. UNCHANGED <<requests, sent, gm_wire, received, acks, user, event_loop>>
    BY <2>1 DEF gateway_vars, node_vars
  <2>3. GmWireIsSound'
    BY <2>2, LessOnTheWire DEF GatewayInv
  <2>4. LoopEndsAfterGateway'
    BY <2>2, PanicsStay
  <2>. QED  BY <2>1, <2>2, <2>3, <2>4 DEF GatewayInv
<1>2. CASE GatewayNext
  BY <1>2, MembershipStepKeeps, send_requestKeeps, BroadcastKeeps, DropGatewayKeeps,
     ReceiveTransactionKeeps, ReceiveAckKeeps, AppEndsKeeps DEF GatewayNext
<1>. QED
  BY <1>1, <1>2

-----------------------------------------------------------------------------
\* The event loop outlives the Gateway and ends by a panic only after it, and
\* only after a transaction of the gateway has got through: however the
\* connections open and close (gateway/src/p2p.rs:150).
THEOREM TheLoopOutlivesTheGateway == GatewaySpec => []LoopEndsAfterGateway
<1>1. GatewayInv => LoopEndsAfterGateway
  BY DEF GatewayInv
<1>. QED
  BY <1>1, GatewayInvInit, GatewayInvStep, PTL DEF GatewaySpec

-----------------------------------------------------------------------------
(***************************************************************************)
(* A gateway counts no acknowledgement twice.                              *)
(***************************************************************************)

\* The transaction of g at offset k has left the channel: it is on its way to
\* a node, or was there.
IsOut(g, k) ==
  \/ \E m \in gm_wire : m.kind = "tx" /\ m.id = <<g, k>>
  \/ \E p \in Nodes : <<g, k>> \in received[p]

\* Each transaction is broadcast once: what waits in the channel has been
\* nowhere, and what is on its way to a node has not been there.
EachIsSentOnce ==
  /\ \A g \in Gateways : \A i \in DOMAIN requests[g] :
       /\ requests[g][i] < sent[g]
       /\ ~ IsOut(g, requests[g][i])
       /\ \A j \in DOMAIN requests[g] : requests[g][i] = requests[g][j] => i = j
  /\ \A g \in Gateways, k \in Offsets : IsOut(g, k) => k < sent[g]
  /\ \A m \in gm_wire : m.kind = "tx" => m.id \notin received[m.to]

AcksTo(g) == {m \in gm_wire : m.kind = "ack" /\ m.to = g}

Receipts(g) == {d \in Nodes \X Offsets : <<g, d[2]>> \in received[d[1]]}

AckInv ==
  /\ acks \in [Gateways -> Nat]
  /\ IsFiniteSet(gm_wire)
  /\ \A m \in gm_wire : m = [kind |-> m.kind, id |-> m.id, to |-> m.to, on |-> m.on]
  /\ EachIsSentOnce
  /\ \A g \in Gateways : acks[g] + Cardinality(AcksTo(g)) <= Cardinality(Receipts(g))

LEMMA ReceiptsAreFinite ==
  ASSUME NEW g \in Gateways
  PROVE  IsFiniteSet(Receipts(g)) /\ Cardinality(Receipts(g)) \in Nat
<1>1. IsFiniteSet(Offsets)
  BY GatewayAssumption, FS_Interval DEF Offsets
<1>2. IsFiniteSet(Nodes \X Offsets)
  BY <1>1, GatewayAssumption, FS_Product
<1>3. Receipts(g) \subseteq Nodes \X Offsets
  BY DEF Receipts
<1>. QED
  BY <1>2, <1>3, FS_Subset, FS_CardinalityType

LEMMA AcksAreFinite ==
  ASSUME AckInv, NEW g \in Gateways
  PROVE  IsFiniteSet(AcksTo(g)) /\ Cardinality(AcksTo(g)) \in Nat
<1>1. AcksTo(g) \subseteq gm_wire
  BY DEF AcksTo
<1>. QED
  BY <1>1, FS_Subset, FS_CardinalityType DEF AckInv

\* There is one connection between a gateway and a node, the gateway's own, so
\* that one transaction goes to one node in one message.
LEMMA OneMessageEach ==
  ASSUME GatewayInv, AckInv, NEW m \in gm_wire, NEW n \in gm_wire,
         m.kind = "tx", n.kind = "tx", m.id = n.id, m.to = n.to
  PROVE  m = n
<1>1. ASSUME NEW x \in gm_wire, x.kind = "tx"
      PROVE  x.on = <<From(x), x.to>> /\ \E tx \in Offsets : x.id = <<From(x), tx>>
  <2>1. /\ x.on \in Dials /\ x.to \in Ends(x.on) /\ x.to \in Nodes /\ From(x) \in Gateways
        /\ \E tx \in Offsets : x.id = <<From(x), tx>>
    BY <1>1 DEF GatewayInv, GmWireIsSound
  <2>2. Ends(x.on) = {x.to, From(x)}
    BY <2>1, FromIsTheOtherEnd
  <2>3. x.on \in Peers \X Nodes /\ x.on[1] # x.on[2] /\ From(x) \notin Nodes
    BY <2>1, MembershipAssumption
  <2>4. x.on[2] = x.to /\ x.on[1] = From(x)
    BY <2>2, <2>3 DEF Ends
  <2>. QED  BY <2>1, <2>3, <2>4
<1>2. From(m) = From(n)
  BY <1>1
<1>3. m.on = n.on
  BY <1>1, <1>2
<1>. QED
  BY <1>3 DEF AckInv

\* What is lost harms nobody.
LEMMA FewerOnTheWire ==
  ASSUME GatewayInv, AckInv, gm_wire' \subseteq gm_wire,
         UNCHANGED <<requests, sent, received, acks>>
  PROVE  AckInv'
<1>1. IsFiniteSet(gm_wire')
  BY FS_Subset DEF AckInv
<1>2. \A g, k : IsOut(g, k)' => IsOut(g, k)
  BY DEF IsOut
<1>3. EachIsSentOnce'
  BY <1>2 DEF AckInv, EachIsSentOnce
<1>4. ASSUME NEW g \in Gateways
      PROVE  acks'[g] + Cardinality(AcksTo(g)') <= Cardinality(Receipts(g)')
  <2>1. AcksTo(g)' \subseteq AcksTo(g) /\ Receipts(g)' = Receipts(g)
    BY DEF AcksTo, Receipts
  <2>2. /\ Cardinality(AcksTo(g)') <= Cardinality(AcksTo(g))
        /\ Cardinality(AcksTo(g)') \in Nat /\ Cardinality(AcksTo(g)) \in Nat
    BY <2>1, AcksAreFinite, FS_Subset, FS_CardinalityType
  <2>3. acks[g] \in Nat /\ acks'[g] = acks[g]
    BY DEF AckInv
  <2>4. acks[g] + Cardinality(AcksTo(g)) <= Cardinality(Receipts(g))
    BY DEF AckInv
  <2>5. Cardinality(Receipts(g)) \in Nat
    BY ReceiptsAreFinite
  <2>. QED  BY <2>1, <2>2, <2>3, <2>4, <2>5
<1>. QED
  BY <1>1, <1>3, <1>4 DEF AckInv

\* An acknowledgement that is counted is no longer on its way.
LEMMA CountedOnce ==
  ASSUME GatewayInv, AckInv, NEW m \in gm_wire, ReceiveAck(m)
  PROVE  AckInv'
<1>1. UNCHANGED <<requests, sent, received, user>> /\ m.kind = "ack" /\ m.to \in Gateways
  BY DEF ReceiveAck, node_vars, GatewayInv, GmWireIsSound
<1>2. CASE user[m.to] # "held"
  BY <1>1, <1>2, FewerOnTheWire DEF ReceiveAck, Panic, node_vars, node_vars
<1>3. CASE user[m.to] = "held"
  <2>1. acks' = [acks EXCEPT ![m.to] = @ + 1] /\ gm_wire' = gm_wire \ {m}
    BY <1>3 DEF ReceiveAck, node_vars
  <2>2. acks' \in [Gateways -> Nat] /\ IsFiniteSet(gm_wire')
    <3>1. acks' \in [Gateways -> Nat]
      BY <1>1, <2>1 DEF AckInv
    <3>2. IsFiniteSet(gm_wire')
      BY <2>1, FS_RemoveElement DEF AckInv
    <3>. QED  BY <3>1, <3>2
  <2>3. \A g, k : IsOut(g, k)' => IsOut(g, k)
    BY <1>1, <2>1 DEF IsOut
  <2>4. EachIsSentOnce'
    BY <1>1, <2>1, <2>3 DEF AckInv, EachIsSentOnce
  <2>5. ASSUME NEW g \in Gateways
        PROVE  acks'[g] + Cardinality(AcksTo(g)') <= Cardinality(Receipts(g)')
    <3>1. Receipts(g)' = Receipts(g) /\ acks[g] \in Nat
      BY <1>1 DEF Receipts, AckInv
    <3>2. /\ acks[g] + Cardinality(AcksTo(g)) <= Cardinality(Receipts(g))
          /\ IsFiniteSet(AcksTo(g)) /\ Cardinality(AcksTo(g)) \in Nat
          /\ Cardinality(Receipts(g)) \in Nat
      BY AcksAreFinite, ReceiptsAreFinite DEF AckInv
    <3>3. CASE g = m.to
      <4>1. m \in AcksTo(g) /\ AcksTo(g)' = AcksTo(g) \ {m} /\ acks'[g] = acks[g] + 1
        BY <1>1, <2>1, <3>3 DEF AcksTo, AckInv
      <4>2. Cardinality(AcksTo(g)') = Cardinality(AcksTo(g)) - 1
        BY <3>2, <4>1, FS_RemoveElement
      <4>. QED  BY <3>1, <3>2, <4>1, <4>2
    <3>4. CASE g # m.to
      <4>1. AcksTo(g)' = AcksTo(g) /\ acks'[g] = acks[g]
        BY <2>1, <3>4 DEF AcksTo, AckInv
      <4>. QED  BY <3>1, <3>2, <4>1
    <3>. QED  BY <3>3, <3>4
  <2>. QED
    BY <2>1, <2>2, <2>4, <2>5 DEF AckInv
<1>. QED
  BY <1>2, <1>3

\* What is sent is new (send_request).
LEMMA SentIsNew ==
  ASSUME GatewayInv, AckInv, NEW g \in Gateways, send_request(g)
  PROVE  AckInv'
<1>1. /\ UNCHANGED <<gm_wire, received, acks>>
      /\ requests' = [requests EXCEPT ![g] = Append(@, sent[g])]
      /\ sent' = [sent EXCEPT ![g] = @ + 1]
      /\ sent[g] < MaxTransactions
  BY DEF send_request, node_vars
<1>2. /\ \A h, k : IsOut(h, k)' <=> IsOut(h, k)
      /\ \A h : AcksTo(h)' = AcksTo(h) /\ Receipts(h)' = Receipts(h)
  BY <1>1 DEF IsOut, AcksTo, Receipts
<1>3. \A h \in Gateways : /\ requests[h] \in Seq(Offsets) /\ sent[h] \in Nat
                          /\ sent'[h] \in Nat /\ sent[h] <= sent'[h]
                          /\ \A i \in DOMAIN requests[h] : requests[h][i] \in Nat
  BY <1>1, GatewayAssumption DEF GatewayInv, Offsets
<1>4. ASSUME NEW h \in Gateways, NEW i \in DOMAIN requests'[h]
      PROVE  /\ requests'[h][i] < sent'[h]
             /\ ~ IsOut(h, requests'[h][i])
             /\ \A j \in DOMAIN requests'[h] : requests'[h][i] = requests'[h][j] => i = j
  <2>1. CASE h # g
    BY <1>1, <1>3, <1>4, <2>1 DEF GatewayInv, AckInv, EachIsSentOnce
  <2>2. CASE h = g
    <3> DEFINE old == requests[g]
    <3>1. /\ old \in Seq(Offsets) /\ Len(old) \in Nat /\ DOMAIN old = 1..Len(old)
          /\ requests'[g] = Append(old, sent[g]) /\ sent'[g] = sent[g] + 1 /\ sent[g] \in Nat
          /\ sent[g] \in Offsets
      BY <1>1, <1>3, GatewayAssumption DEF GatewayInv, Offsets
    <3> HIDE DEF old
    <3>2. /\ DOMAIN requests'[g] = 1..(Len(old) + 1)
          /\ \A j \in 1..Len(old) : requests'[g][j] = old[j]
          /\ requests'[g][Len(old) + 1] = sent[g]
      BY <3>1
    <3>3. \A j \in 1..Len(old) :
            /\ old[j] < sent[g] /\ old[j] \in Nat /\ ~ IsOut(g, old[j])
            /\ \A k \in 1..Len(old) : old[j] = old[k] => j = k
      BY <1>3, <3>1 DEF AckInv, EachIsSentOnce, old
    <3>4. ~ IsOut(g, sent[g])
      <4>1. IsOut(g, sent[g]) => sent[g] < sent[g]
        BY <3>1 DEF AckInv, EachIsSentOnce
      <4>. QED  BY <3>1, <4>1
    <3>5. i \in 1..Len(old) \/ i = Len(old) + 1
      BY <1>4, <2>2, <3>1, <3>2
    <3>6. CASE i \in 1..Len(old)
      <4>1. requests'[g][i] = old[i] /\ old[i] < sent[g] + 1 /\ ~ IsOut(g, old[i])
        BY <3>1, <3>2, <3>3, <3>6
      <4>2. ASSUME NEW j \in 1..(Len(old) + 1), old[i] = requests'[g][j] PROVE i = j
        <5>1. j \in 1..Len(old) \/ j = Len(old) + 1
          BY <3>1
        <5>. QED  BY <3>1, <3>2, <3>3, <3>6, <4>2, <5>1
      <4>. QED  BY <2>2, <3>1, <3>2, <4>1, <4>2
    <3>7. CASE i = Len(old) + 1
      <4>1. requests'[g][i] = sent[g] /\ sent[g] < sent[g] + 1
        BY <3>1, <3>2, <3>7
      <4>2. ASSUME NEW j \in 1..(Len(old) + 1), sent[g] = requests'[g][j] PROVE i = j
        <5>1. j \in 1..Len(old) \/ j = Len(old) + 1
          BY <3>1
        <5>. QED  BY <3>1, <3>2, <3>3, <3>7, <4>2, <5>1
      <4>. QED  BY <2>2, <3>1, <3>2, <3>4, <4>1, <4>2
    <3>. QED  BY <3>5, <3>6, <3>7
  <2>. QED  BY <2>1, <2>2
<1>5. ASSUME NEW h \in Gateways, NEW k \in Offsets, IsOut(h, k)
      PROVE  k < sent'[h]
  <2>1. k < sent[h] /\ k \in Nat
    BY <1>5, GatewayAssumption DEF AckInv, EachIsSentOnce, Offsets
  <2>. QED  BY <1>3, <2>1
<1>6. EachIsSentOnce'
  BY <1>1, <1>2, <1>4, <1>5 DEF AckInv, EachIsSentOnce
<1>. QED
  BY <1>1, <1>2, <1>6 DEF AckInv

\* A node that gets a transaction did not have it, so that its acknowledgement
\* stands for a receipt of its own.
LEMMA AcknowledgedOnce ==
  ASSUME GatewayInv, AckInv, NEW m \in gm_wire, ReceiveTransaction(m)
  PROVE  AckInv'
<1> DEFINE ack == Acknowledgement(m)
<1>1. /\ UNCHANGED <<requests, sent, acks>>
      /\ received' = [received EXCEPT ![m.to] = @ \cup {m.id}]
      /\ \A n \in gm_wire' : (n \in gm_wire /\ n # m) \/ n = ack
      /\ gm_wire' \subseteq gm_wire \cup {ack}
      /\ m.kind = "tx"
  BY PutIsAmong DEF ReceiveTransaction, Acknowledgement, node_vars
<1>2. PICK g \in Gateways, tx \in Offsets :
        /\ m.to \in Nodes /\ From(m) = g /\ m.id = <<g, tx>>
  BY <1>1 DEF GatewayInv, GmWireIsSound
<1>3. /\ ack = [kind |-> "ack", id |-> m.id, to |-> g, on |-> m.on]
      /\ ack.kind = "ack" /\ ack.to = g
      /\ ack = [kind |-> ack.kind, id |-> ack.id, to |-> ack.to, on |-> ack.on]
  BY <1>2 DEF Acknowledgement
<1> HIDE DEF ack
<1>4. IsFiniteSet(gm_wire')
  <2>1. IsFiniteSet(gm_wire \cup {ack})
    BY FS_AddElement DEF AckInv
  <2>. QED  BY <1>1, <2>1, FS_Subset
<1>5. \A p \in Nodes : received'[p] = IF p = m.to THEN received[p] \cup {m.id} ELSE received[p]
  BY <1>1, <1>2 DEF GatewayInv
<1>6. IsOut(g, tx) /\ \A h, k : IsOut(h, k)' => IsOut(h, k)
  BY <1>1, <1>2, <1>3, <1>5 DEF IsOut
<1>7. ASSUME NEW n \in gm_wire', n.kind = "tx" PROVE n.id \notin received'[n.to]
  <2>1. n \in gm_wire /\ n # m
    BY <1>1, <1>3, <1>7
  <2>2. n.id \notin received[n.to] /\ n.to \in Nodes
    BY <1>7, <2>1 DEF GatewayInv, GmWireIsSound, AckInv, EachIsSentOnce
  <2>3. ~ (n.id = m.id /\ n.to = m.to)
    BY <1>1, <1>7, <2>1, OneMessageEach
  <2>. QED  BY <1>5, <2>2, <2>3
<1>8. EachIsSentOnce'
  BY <1>1, <1>6, <1>7 DEF AckInv, EachIsSentOnce
<1>9. ASSUME NEW h \in Gateways
      PROVE  acks'[h] + Cardinality(AcksTo(h)') <= Cardinality(Receipts(h)')
  <2>1. /\ acks[h] + Cardinality(AcksTo(h)) <= Cardinality(Receipts(h))
        /\ IsFiniteSet(AcksTo(h)) /\ Cardinality(AcksTo(h)) \in Nat
        /\ IsFiniteSet(Receipts(h)) /\ Cardinality(Receipts(h)) \in Nat
        /\ acks[h] \in Nat /\ acks'[h] = acks[h]
    BY <1>1, AcksAreFinite, ReceiptsAreFinite DEF AckInv
  <2>2. CASE h # g
    <3>1. AcksTo(h)' \subseteq AcksTo(h)
      BY <1>1, <1>3, <2>2 DEF AcksTo
    <3>2. Receipts(h)' = Receipts(h)
      <4>1. ASSUME NEW d \in Nodes \X Offsets
            PROVE  <<h, d[2]>> \in received'[d[1]] <=> <<h, d[2]>> \in received[d[1]]
        <5>1. d[1] \in Nodes /\ <<h, d[2]>> # m.id
          BY <1>2, <2>2
        <5>. QED  BY <1>5, <5>1
      <4>. QED  BY <4>1 DEF Receipts
    <3>3. Cardinality(AcksTo(h)') <= Cardinality(AcksTo(h)) /\ Cardinality(AcksTo(h)') \in Nat
      BY <2>1, <3>1, FS_Subset, FS_CardinalityType
    <3>. QED  BY <2>1, <3>2, <3>3
  <2>3. CASE h = g
    <3>1. AcksTo(g)' \subseteq AcksTo(g) \cup {ack}
      BY <1>1 DEF AcksTo
    <3>2. /\ IsFiniteSet(AcksTo(g) \cup {ack})
          /\ Cardinality(AcksTo(g) \cup {ack}) <= Cardinality(AcksTo(g)) + 1
          /\ Cardinality(AcksTo(g) \cup {ack}) \in Nat
      <4>1. IsFiniteSet(AcksTo(g)) /\ Cardinality(AcksTo(g)) \in Nat
        BY <2>1, <2>3
      <4>2. /\ IsFiniteSet(AcksTo(g) \cup {ack})
            /\ Cardinality(AcksTo(g) \cup {ack})
                 = IF ack \in AcksTo(g) THEN Cardinality(AcksTo(g)) ELSE Cardinality(AcksTo(g)) + 1
        BY <4>1, FS_AddElement
      <4>. QED  BY <4>1, <4>2
    <3>3. /\ Cardinality(AcksTo(g)') <= Cardinality(AcksTo(g) \cup {ack})
          /\ Cardinality(AcksTo(g)') \in Nat
      BY <3>1, <3>2, FS_Subset, FS_CardinalityType
    <3>4. <<m.to, tx>> \notin Receipts(g)
      BY <1>1, <1>2 DEF Receipts, AckInv, EachIsSentOnce
    <3>5. Receipts(g)' = Receipts(g) \cup {<<m.to, tx>>}
      <4>1. ASSUME NEW d \in Nodes \X Offsets
            PROVE  <<g, d[2]>> \in received'[d[1]]
                     <=> <<g, d[2]>> \in received[d[1]] \/ d = <<m.to, tx>>
        <5>1. d[1] \in Nodes /\ (d = <<m.to, tx>> <=> d[1] = m.to /\ d[2] = tx)
          OBVIOUS
        <5>2. <<g, d[2]>> = m.id <=> d[2] = tx
          BY <1>2
        <5>. QED  BY <1>5, <5>1, <5>2
      <4>2. <<m.to, tx>> \in Nodes \X Offsets
        BY <1>2
      <4>. QED  BY <4>1, <4>2 DEF Receipts
    <3>6. Cardinality(Receipts(g)') = Cardinality(Receipts(g)) + 1
      BY <2>1, <2>3, <3>4, <3>5, FS_AddElement
    <3>. QED  BY <2>1, <2>3, <3>2, <3>3, <3>6
  <2>. QED  BY <2>2, <2>3
<1>10. \A n \in gm_wire' : n = [kind |-> n.kind, id |-> n.id, to |-> n.to, on |-> n.on]
  BY <1>1, <1>3 DEF AckInv
<1>. QED
  BY <1>1, <1>4, <1>8, <1>9, <1>10 DEF AckInv

\* The event loop takes a transaction from the channel for the last time.
LEMMA BroadcastOnce ==
  ASSUME GatewayInv, AckInv, NEW g \in Gateways, Broadcast(g)
  PROVE  AckInv'
<1> DEFINE old == requests[g]
           k == Head(old)
<1>1. PICK over \in [maroon_peer_ids[g] -> Dials] :
        gm_wire' = gm_wire \cup
          Put({[kind |-> "tx", id |-> <<g, k>>, to |-> q, on |-> over[q]] : q \in DOMAIN over})
  BY DEF Broadcast, node_vars
<1> DEFINE new == {[kind |-> "tx", id |-> <<g, k>>, to |-> q, on |-> over[q]] :
                     q \in maroon_peer_ids[g]}
<1>2. gm_wire \subseteq gm_wire' /\ gm_wire' \subseteq gm_wire \cup new
  BY <1>1, PutIsAmong
<1>3. /\ UNCHANGED <<sent, received, acks>>
      /\ requests[g] # <<>> /\ requests' = [requests EXCEPT ![g] = Tail(@)]
  BY DEF Broadcast, node_vars
<1>4. /\ old \in Seq(Offsets) /\ Len(old) \in Nat \ {0} /\ DOMAIN old = 1..Len(old)
      /\ k = old[1] /\ k \in Offsets /\ requests'[g] = Tail(old)
      /\ 1 \in DOMAIN old
  BY <1>3 DEF GatewayInv
<1>5. maroon_peer_ids[g] \in SUBSET Nodes
  BY DEF GatewayInv
<1>6. /\ k < sent[g] /\ ~ IsOut(g, k)
      /\ \A i, j \in DOMAIN old : old[i] = old[j] => i = j
  BY <1>4 DEF AckInv, EachIsSentOnce
<1>7. IsFiniteSet(gm_wire')
  <2> DEFINE message == [q \in maroon_peer_ids[g] |->
                           [kind |-> "tx", id |-> <<g, k>>, to |-> q, on |-> over[q]]]
  <2>1. IsFiniteSet(maroon_peer_ids[g])
    BY <1>5, GatewayAssumption, FS_Subset
  <2>2. message \in Surjection(maroon_peer_ids[g], new)
    BY DEF Surjection
  <2>3. IsFiniteSet(new)
    BY <2>1, <2>2, FS_Surjection
  <2>4. IsFiniteSet(gm_wire \cup new)
    BY <2>3, FS_Union DEF AckInv
  <2>. QED  BY <1>2, <2>4, FS_Subset
<1>8. ASSUME NEW n \in new
      PROVE  /\ n.kind = "tx" /\ n.id = <<g, k>> /\ n.to \in Nodes
             /\ n = [kind |-> n.kind, id |-> n.id, to |-> n.to, on |-> n.on]
  BY <1>5
<1> HIDE DEF new, k, old
<1>9. \A h, x : IsOut(h, x)' => IsOut(h, x) \/ (h = g /\ x = k)
  BY <1>2, <1>3, <1>8 DEF IsOut
<1>10. ASSUME NEW h \in Gateways, NEW i \in DOMAIN requests'[h], NEW x, x = requests'[h][i]
       PROVE  /\ x < sent[h]
              /\ ~ IsOut(h, x)'
              /\ \A j \in DOMAIN requests'[h] : x = requests'[h][j] => i = j
  <2>1. CASE h # g
    <3>1. requests'[h] = requests[h]
      BY <1>3, <2>1 DEF GatewayInv
    <3>2. /\ requests[h][i] < sent[h] /\ ~ IsOut(h, requests[h][i])
          /\ \A j \in DOMAIN requests[h] : requests[h][i] = requests[h][j] => i = j
      BY <1>10, <3>1 DEF AckInv, EachIsSentOnce
    <3>. QED  BY <1>9, <1>10, <2>1, <3>1, <3>2
  <2>2. CASE h = g
    <3>1. /\ DOMAIN requests'[g] = 1..(Len(old) - 1)
          /\ \A j \in 1..(Len(old) - 1) : requests'[g][j] = old[j + 1] /\ j + 1 \in DOMAIN old
      BY <1>4
    <3>2. \A j \in DOMAIN old : old[j] < sent[g] /\ ~ IsOut(g, old[j])
      BY DEF AckInv, EachIsSentOnce, old
    <3>3. i \in 1..(Len(old) - 1) /\ i + 1 \in DOMAIN old /\ requests'[g][i] = old[i + 1]
      BY <1>10, <2>2, <3>1
    <3>4. old[i + 1] # k
      <4>1. i + 1 # 1
        BY <1>4, <3>3
      <4>. QED  BY <1>4, <1>6, <3>3, <4>1
    <3>5. ASSUME NEW j \in 1..(Len(old) - 1), requests'[g][i] = requests'[g][j]
          PROVE  i = j
      <4>1. i + 1 = j + 1
        BY <1>6, <3>1, <3>3, <3>5
      <4>. QED  BY <1>4, <3>3, <4>1
    <3>. QED  BY <1>9, <1>10, <2>2, <3>1, <3>2, <3>3, <3>4, <3>5
  <2>. QED  BY <2>1, <2>2
<1>11. \A h \in Gateways, x \in Offsets : IsOut(h, x)' => x < sent[h]
  BY <1>6, <1>9 DEF AckInv, EachIsSentOnce
<1>12. ASSUME NEW n \in gm_wire', n.kind = "tx" PROVE n.id \notin received[n.to]
  <2>1. CASE n \in gm_wire
    BY <1>12, <2>1 DEF AckInv, EachIsSentOnce
  <2>2. CASE n \in new
    BY <1>6, <1>8, <2>2 DEF IsOut
  <2>. QED  BY <1>2, <2>1, <2>2
<1>13. EachIsSentOnce'
  BY <1>3, <1>10, <1>11, <1>12 DEF EachIsSentOnce
<1>14. \A h : AcksTo(h)' = AcksTo(h) /\ Receipts(h)' = Receipts(h)
  BY <1>2, <1>3, <1>8 DEF AcksTo, Receipts
<1>15. \A n \in gm_wire' : n = [kind |-> n.kind, id |-> n.id, to |-> n.to, on |-> n.on]
  <2>1. \A n \in gm_wire : n = [kind |-> n.kind, id |-> n.id, to |-> n.to, on |-> n.on]
    BY DEF AckInv
  <2>. QED  BY <1>2, <1>8, <2>1
<1>. QED
  BY <1>3, <1>7, <1>13, <1>14, <1>15 DEF AckInv

LEMMA AckInvInit == GatewayInit => AckInv
<1> SUFFICES ASSUME GatewayInit PROVE AckInv
  OBVIOUS
<1>1. /\ gm_wire = {} /\ acks = [g \in Gateways |-> 0]
      /\ \A g \in Gateways : requests[g] = <<>> /\ DOMAIN requests[g] = {}
      /\ \A p \in Nodes : received[p] = {}
  BY DEF GatewayInit
<1>2. EachIsSentOnce
  BY <1>1 DEF EachIsSentOnce, IsOut
<1>3. ASSUME NEW g \in Gateways PROVE acks[g] + Cardinality(AcksTo(g)) <= Cardinality(Receipts(g))
  <2>1. AcksTo(g) = {}
    BY <1>1 DEF AcksTo
  <2>2. Cardinality(AcksTo(g)) = 0 /\ acks[g] = 0
    BY <1>1, <2>1, FS_EmptySet
  <2>. QED  BY <2>2, ReceiptsAreFinite
<1>4. IsFiniteSet(gm_wire) /\ acks \in [Gateways -> Nat]
  BY <1>1, FS_EmptySet
<1>. QED
  BY <1>1, <1>2, <1>3, <1>4 DEF AckInv

LEMMA AckInvStep == GatewayInv /\ AckInv /\ [GatewayNext]_all_vars => AckInv'
<1> SUFFICES ASSUME GatewayInv, AckInv, [GatewayNext]_all_vars PROVE AckInv'
  OBVIOUS
<1>1. CASE UNCHANGED all_vars
  BY <1>1, FewerOnTheWire DEF all_vars, gateway_vars, node_vars
<1>2. CASE MembershipStep
  BY <1>2, FewerOnTheWire DEF MembershipStep, node_vars
<1>3. ASSUME NEW g \in Gateways, DropGateway(g) PROVE AckInv'
  BY <1>3, FewerOnTheWire DEF DropGateway, node_vars
<1>4. ASSUME NEW p \in Nodes, AppEnds(p) PROVE AckInv'
  BY <1>4, FewerOnTheWire DEF AppEnds
<1>. QED
  BY <1>1, <1>2, <1>3, <1>4, SentIsNew, BroadcastOnce, AcknowledgedOnce, CountedOnce DEF GatewayNext

-----------------------------------------------------------------------------
(***************************************************************************)
(* What becomes of a transaction at a node.                                *)
(***************************************************************************)

\* What P2P took it has handed to the App, unless the App is gone; and nothing
\* else gets to the App.
HandedOverInv ==
  /\ app \in [Nodes -> {"held", "gone"}]
  /\ received \in [Nodes -> SUBSET (Gateways \X Offsets)]
  /\ delivered \in [Nodes -> SUBSET (Gateways \X Offsets)]
  /\ \A p \in Nodes : delivered[p] \subseteq received[p]
  /\ \A p \in Nodes : received[p] \subseteq delivered[p] \/ app[p] = "gone"

LEMMA HandedOverInvInit == GatewayInit => HandedOverInv
  BY DEF GatewayInit, HandedOverInv

\* The hand-over fails only where the App is gone (ReceiveTransaction), and an
\* App that is gone does not come back (AppEnds).
LEMMA HandedOverInvStep ==
  GatewayInv /\ HandedOverInv /\ [GatewayNext]_all_vars => HandedOverInv'
<1> SUFFICES ASSUME GatewayInv, HandedOverInv, [GatewayNext]_all_vars PROVE HandedOverInv'
  OBVIOUS
<1>1. ASSUME NEW m \in gm_wire, ReceiveTransaction(m) PROVE HandedOverInv'
  <2>1. m.to \in Nodes /\ m.id \in Gateways \X Offsets
    <3>1. m.kind = "tx"
      BY <1>1 DEF ReceiveTransaction
    <3>2. /\ m.to \in Nodes /\ From(m) \in Gateways
          /\ \E tx \in Offsets : m.id = <<From(m), tx>>
      BY <3>1 DEF GatewayInv, GmWireIsSound
    <3>. QED  BY <3>2
  <2>2. UNCHANGED app /\ received' = [received EXCEPT ![m.to] = @ \cup {m.id}]
    BY <1>1 DEF ReceiveTransaction
  <2>3. CASE app[m.to] = "held"
    <3>1. delivered' = [delivered EXCEPT ![m.to] = @ \cup {m.id}]
      BY <1>1, <2>3 DEF ReceiveTransaction, HandOver
    <3>. QED  BY <2>1, <2>2, <3>1 DEF HandedOverInv
  <2>4. CASE app[m.to] = "gone"
    <3>1. UNCHANGED delivered
      BY <1>1, <2>4 DEF ReceiveTransaction, HandOver
    <3>. QED  BY <2>1, <2>2, <2>4, <3>1 DEF HandedOverInv
  <2>. QED  BY <2>1, <2>3, <2>4 DEF HandedOverInv
<1>2. ASSUME NEW p \in Nodes, AppEnds(p) PROVE HandedOverInv'
  BY <1>2 DEF AppEnds, HandedOverInv
<1>3. ASSUME UNCHANGED <<app, received, delivered>> PROVE HandedOverInv'
  BY <1>3 DEF HandedOverInv
<1>4. ASSUME NEW g \in Gateways, send_request(g) \/ Broadcast(g) \/ DropGateway(g)
      PROVE  UNCHANGED <<app, received, delivered>>
  BY <1>4 DEF send_request, Broadcast, DropGateway, node_vars
<1>5. ASSUME NEW m \in gm_wire, ReceiveAck(m)
      PROVE  UNCHANGED <<app, received, delivered>>
  BY <1>5 DEF ReceiveAck, node_vars
<1>6. MembershipStep \/ UNCHANGED all_vars => UNCHANGED <<app, received, delivered>>
  BY DEF MembershipStep, all_vars, gateway_vars, node_vars
<1>. QED
  BY <1>1, <1>2, <1>3, <1>4, <1>5, <1>6 DEF GatewayNext

\* A gateway hands over no more acknowledgements than its transactions were
\* handed to Apps or came to nodes that had no App any more, however the
\* connections open and close and whenever the Apps end
\* (handle_request_response, maroon/src/network/p2p.rs:340).
THEOREM NoAckWithoutDelivery == GatewaySpec => []AcksCountDeliveries
<1>1. ASSUME AckInv, HandedOverInv
      PROVE  AcksCountDeliveries
  <2>1. ASSUME NEW g \in Gateways
        PROVE  Receipts(g) = {d \in Nodes \X Offsets : Arrived(g, d[1], d[2])}
    <3>1. ASSUME NEW d \in Nodes \X Offsets
          PROVE  <<g, d[2]>> \in received[d[1]] <=> Arrived(g, d[1], d[2])
      BY <1>1 DEF HandedOverInv, Arrived
    <3>. QED  BY <3>1 DEF Receipts
  <2>. QED
    BY <1>1, <2>1 DEF AckInv, AcksCountDeliveries, AcksTo, Offsets
<1>. QED
  BY <1>1, GatewayInvInit, GatewayInvStep, AckInvInit, AckInvStep,
     HandedOverInvInit, HandedOverInvStep, PTL DEF GatewaySpec
=============================================================================
