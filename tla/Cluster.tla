------------------------------- MODULE Cluster ------------------------------
(***************************************************************************)
(* Maroon nodes that replicate transactions and agree on how far they are  *)
(* replicated, from maroon/src/app/app.rs and the network it talks to.     *)
(*                                                                         *)
(* A node is identified by the PeerId it draws when it starts              *)
(* (maroon/src/network/p2p.rs): one that starts again is a new peer with   *)
(* nothing in memory. One action is one turn of App::loop_until_shutdown,  *)
(* which handles one message or one tick at a time, to the end.            *)
(*                                                                         *)
(* The network between the nodes may lose, delay and reorder messages:     *)
(* nothing in the code waits for an answer or sends a message again.       *)
(***************************************************************************)
EXTENDS MaroonApp

CONSTANTS
  PeerId,               \* every peer that may ever run
  InitialPeers,         \* the ones that run from the beginning
  consensus_nodes,      \* Params::consensus_nodes
  GatewayPeers,         \* the peers gateways are connected to
  TxIds,                \* the transactions gateways may send
  MaxEpochs,            \* bound: epochs a node creates
  MaxCrashes,           \* bound: nodes that crash
  KeepMessages          \* TRUE: a delivered message may be delivered again

ASSUME ClusterAssumption ==
  /\ IsFiniteSet(PeerId)
  /\ InitialPeers \subseteq PeerId
  /\ GatewayPeers \subseteq PeerId
  /\ consensus_nodes \in Nat \ {0}
  /\ TxIds \subseteq UniqueBlobId
  /\ MaxEpochs \in Nat
  /\ MaxCrashes \in Nat
  /\ KeepMessages \in BOOLEAN

VARIABLES
  status,               \* PeerId -> "off", "running", "hung", "crashed"
  transactions,         \* PeerId -> the ids the node holds
  self_offsets,         \* PeerId -> KeyRange -> MaybeOffset
  offsets,              \* PeerId -> KeyRange -> PeerId -> MaybeOffset
  consensus_offset,     \* PeerId -> KeyRange -> MaybeOffset
  commited_offsets,     \* PeerId -> KeyRange -> MaybeOffset
  epochs,               \* PeerId -> the increments of each epoch
  sequence,             \* PeerId -> the linearizer's log
  states,               \* Outbox::State in flight
  requests,             \* Outbox::RequestMissingTxs in flight
  replies               \* Outbox::RequestedTxsForPeer in flight

held_vars   == <<transactions, self_offsets>>
commit_vars == <<commited_offsets, epochs, sequence>>
net_vars    == <<states, requests, replies>>
vars == <<status, held_vars, offsets, consensus_offset, commit_vars, net_vars>>

StateMsg   == [from : PeerId, to : PeerId, offsets : [KeyRange -> MaybeOffset]]
RequestMsg == [from : PeerId, to : PeerId, ids : SUBSET TxIds]
ReplyMsg   == [to : PeerId, txs : SUBSET TxIds]

\* App::new: every map is empty.
Init ==
  /\ status = [p \in PeerId |-> IF p \in InitialPeers THEN "running" ELSE "off"]
  /\ transactions = [p \in PeerId |-> {}]
  /\ self_offsets = [p \in PeerId |-> [range \in KeyRange |-> None]]
  /\ offsets = [p \in PeerId |-> [range \in KeyRange |-> [q \in PeerId |-> None]]]
  /\ consensus_offset = [p \in PeerId |-> [range \in KeyRange |-> None]]
  /\ commited_offsets = [p \in PeerId |-> [range \in KeyRange |-> None]]
  /\ epochs = [p \in PeerId |-> <<>>]
  /\ sequence = [p \in PeerId |-> <<>>]
  /\ states = {} /\ requests = {} /\ replies = {}

Running == {p \in PeerId : status[p] = "running"}

\* Nothing reaches a node that does not run, and nothing waits for it.
Send(net, messages) == net \cup {m \in messages : m.to \in Running}

Receive(net, m) == IF KeepMessages THEN net ELSE net \ {m}

-----------------------------------------------------------------------------
(***************************************************************************)
(* handle_inbox_message                                                    *)
(***************************************************************************)

\* The node stores a batch and moves its own offsets, in its map and in its
\* row of the table. The code does it for NewTransaction and for MissingTx.
Store(p, txs) ==
  \E rank \in Ranks(txs) :
    LET moved == update_self_offsets(self_offsets[p], transactions[p], txs, rank)
    IN  /\ transactions' = [transactions EXCEPT ![p] = @ \cup txs]
        /\ self_offsets' = [self_offsets EXCEPT ![p] = moved]
        /\ offsets' = [offsets EXCEPT ![p] =
             move_offset_pointers(@, p, UpdatedRanges(self_offsets[p], txs), moved)]

\* Inbox::NewTransaction. A gateway sends a transaction to the nodes it is
\* connected to; which of them it reaches, and when, is left open.
NewTransaction(p, id) ==
  /\ p \in GatewayPeers \cap Running
  /\ Store(p, {id})
  /\ UNCHANGED <<status, consensus_offset, commit_vars, net_vars>>

\* Inbox::MissingTx
ReceiveMissingTx(m) ==
  /\ m \in replies /\ m.to \in Running
  /\ Store(m.to, m.txs)
  /\ replies' = Receive(replies, m)
  /\ UNCHANGED <<status, consensus_offset, commit_vars, states, requests>>

\* Inbox::State. Each offset in the message replaces the one known before,
\* whichever is larger.
\* receive_as_own is a faulty form: it writes the receiver's own row.
receive_as_own(m) ==
  /\ m \in states /\ m.to \in Running
  /\ offsets' = [offsets EXCEPT ![m.to] =
       [range \in KeyRange |->
          IF m.offsets[range] = None THEN @[range]
          ELSE [@[range] EXCEPT ![m.to] = m.offsets[range]]]]
  /\ states' = Receive(states, m)
  /\ UNCHANGED <<status, held_vars, consensus_offset, commit_vars, requests, replies>>

ReceiveState(m) ==
  /\ m \in states /\ m.to \in Running
  /\ offsets' = [offsets EXCEPT ![m.to] =
       [range \in KeyRange |->
          IF m.offsets[range] = None THEN @[range]
          ELSE [@[range] EXCEPT ![m.from] = m.offsets[range]]]]
  /\ states' = Receive(states, m)
  /\ UNCHANGED <<status, held_vars, consensus_offset, commit_vars, requests, replies>>

\* Inbox::RequestMissingTxs. The loop that collects the ids of an interval
\* does not move on from one the node does not hold: the node then handles
\* nothing any more.
ReceiveRequest(m) ==
  /\ m \in requests /\ m.to \in Running
  /\ requests' = Receive(requests, m)
  /\ IF m.ids \subseteq transactions[m.to]
     THEN /\ replies' = Send(replies, {[to |-> m.from, txs |-> m.ids]})
          /\ UNCHANGED status
     ELSE /\ status' = [status EXCEPT ![m.to] = "hung"]
          /\ UNCHANGED replies
  /\ UNCHANGED <<held_vars, offsets, consensus_offset, commit_vars, states>>

-----------------------------------------------------------------------------
(***************************************************************************)
(* The two timers                                                          *)
(***************************************************************************)

\* advertise_offsets_and_request_missing. A State with no offset in it, which
\* changes nothing where it arrives, is not put in flight.
Advertise(p) ==
  /\ p \in Running
  /\ consensus_offset' = [consensus_offset EXCEPT ![p] =
       recalculate_consensus_offsets(@, offsets[p], consensus_nodes)]
  /\ states' = IF \A range \in KeyRange : self_offsets[p][range] = None THEN states
               ELSE Send(states, {[from |-> p, to |-> q, offsets |-> self_offsets[p]] :
                                    q \in PeerId \ {p}})
  /\ \E chosen \in [DelayedRanges(self_offsets[p], offsets[p]) -> PeerId] :
       /\ \A range \in DOMAIN chosen : chosen[range] \in MaxPeers(offsets[p][range])
       /\ requests' = Send(requests,
            {[from |-> p, to |-> d.to, ids |-> d.ids] :
               d \in self_delays(transactions[p], self_offsets[p], offsets[p], chosen)})
  /\ UNCHANGED <<status, held_vars, offsets, commit_vars, replies>>

\* commit_epoch_if_needed, with the consensus offsets of the last Advertise.
\* commit_not_logged is a faulty form: the linearizer is not called.
commit_not_logged(p) ==
  LET increments == calculate_epoch_increments(consensus_offset[p], commited_offsets[p])
  IN  /\ p \in Running
      /\ Len(epochs[p]) < MaxEpochs
      /\ commited_offsets' = [commited_offsets EXCEPT ![p] = CommitedAfter(@, increments)]
      /\ epochs' = [epochs EXCEPT ![p] = Append(@, increments)]
      /\ UNCHANGED <<status, held_vars, offsets, consensus_offset, sequence, net_vars>>

Commit(p) ==
  LET increments == calculate_epoch_increments(consensus_offset[p], commited_offsets[p])
  IN  /\ p \in Running
      /\ Len(epochs[p]) < MaxEpochs
      /\ sequence' = [sequence EXCEPT ![p] = new_epoch(@, increments)]
      /\ commited_offsets' = [commited_offsets EXCEPT ![p] = CommitedAfter(@, increments)]
      /\ epochs' = [epochs EXCEPT ![p] = Append(@, increments)]
      /\ UNCHANGED <<status, held_vars, offsets, consensus_offset, net_vars>>

-----------------------------------------------------------------------------
(***************************************************************************)
(* Nodes and the network                                                   *)
(***************************************************************************)

Start(p) ==
  /\ status[p] = "off"
  /\ status' = [status EXCEPT ![p] = "running"]
  /\ UNCHANGED <<held_vars, offsets, consensus_offset, commit_vars, net_vars>>

\* The maps of a crashed node are kept as a record of what it held; no action
\* reads them.
Crash(p) ==
  /\ p \in Running
  /\ Cardinality({q \in PeerId : status[q] = "crashed"}) < MaxCrashes
  /\ status' = [status EXCEPT ![p] = "crashed"]
  /\ states'   = {m \in states : m.to # p}
  /\ requests' = {m \in requests : m.to # p}
  /\ replies'  = {m \in replies : m.to # p}
  /\ UNCHANGED <<held_vars, offsets, consensus_offset, commit_vars>>

\* A message that may be delivered only once may be lost instead.
Lose ==
  /\ ~KeepMessages
  /\ \/ \E m \in states : states' = states \ {m} /\ UNCHANGED <<requests, replies>>
     \/ \E m \in requests : requests' = requests \ {m} /\ UNCHANGED <<states, replies>>
     \/ \E m \in replies : replies' = replies \ {m} /\ UNCHANGED <<states, requests>>
  /\ UNCHANGED <<status, held_vars, offsets, consensus_offset, commit_vars>>

Next ==
  \/ \E p \in PeerId : \/ \E id \in TxIds : NewTransaction(p, id)
                       \/ Advertise(p)
                       \/ Commit(p)
                       \/ Start(p)
                       \/ Crash(p)
  \/ \E m \in states : ReceiveState(m)
  \/ \E m \in requests : ReceiveRequest(m)
  \/ \E m \in replies : ReceiveMissingTx(m)
  \/ Lose

Spec == Init /\ [][Next]_vars

\* Both timers of a running node tick for ever (only the advertising one
\* matters here); a message that is sent again and again between two nodes, as
\* each tick does, gets through now and then.
Fairness ==
  /\ \A p \in PeerId : WF_vars(Advertise(p))
  /\ \A p \in PeerId : \A q \in PeerId \ {p} :
       /\ SF_vars(\E m \in states : m.from = p /\ m.to = q /\ ReceiveState(m))
       /\ SF_vars(\E m \in requests : m.from = p /\ m.to = q /\ ReceiveRequest(m))
  /\ \A p \in PeerId : SF_vars(\E m \in replies : m.to = p /\ ReceiveMissingTx(m))

FairSpec == Spec /\ Fairness

-----------------------------------------------------------------------------
(***************************************************************************)
(* Properties.                                                             *)
(***************************************************************************)

\* Every map has entries of its type and every message names peers and ids.
TypeOK ==
  /\ status \in [PeerId -> {"off", "running", "hung", "crashed"}]
  /\ transactions \in [PeerId -> SUBSET TxIds]
  /\ self_offsets \in [PeerId -> [KeyRange -> MaybeOffset]]
  /\ offsets \in [PeerId -> [KeyRange -> [PeerId -> MaybeOffset]]]
  /\ consensus_offset \in [PeerId -> [KeyRange -> MaybeOffset]]
  /\ commited_offsets \in [PeerId -> [KeyRange -> MaybeOffset]]
  /\ states \subseteq StateMsg
  /\ requests \subseteq RequestMsg
  /\ replies \subseteq ReplyMsg

\* The node holds a range from its first transaction up to an offset.
Holds(p, range, offset) ==
  \A o \in 0..offset :
     unique_blob_id_from_range_and_offset(range, o) \in transactions[p]

Holders(range, offset) == {p \in PeerId : Holds(p, range, offset)}

\* A node's own offset never covers a gap, in whatever order and in whatever
\* batches the transactions reached it (update_self_offsets).
SelfOffsetsAreHeld ==
  \A p \in PeerId, range \in KeyRange : Holds(p, range, self_offsets[p][range])

\* A node's own offset covers everything without a gap: it does not wait for
\* a transaction that is already there. Not so once a walk has left its range.
SelfOffsetsAreMaximal ==
  \A p \in PeerId, range \in KeyRange :
     unique_blob_id_from_range_and_offset(range, self_offsets[p][range] + 1)
       \notin transactions[p]

\* What a node's table says of a peer was true of it at some time and still
\* is, however late the State message was handled: the peer holds all that.
TableIsHeld ==
  \A p, q \in PeerId, range \in KeyRange : Holds(q, range, offsets[p][range][q])

\* The node's row in its own table is its own offsets: consensus counts the
\* node itself as it is now (move_offset_pointer).
OwnRowIsCurrent ==
  \A p \in PeerId, range \in KeyRange : offsets[p][range][p] = self_offsets[p][range]

\* A node is only ever asked for transactions it holds.
RequestsCanBeAnswered == \A m \in requests : m.ids \subseteq transactions[m.to]

\* The loop of RequestMissingTxs that never moves past a missing id
\* (app.rs:172-178) is never entered with one.
NoNodeHangs == \A p \in PeerId : status[p] # "hung"

\* A consensus offset is one that consensus_nodes peers have reached, counting
\* those that have crashed since, even if newer messages were overtaken by
\* older ones.
ConsensusIsReplicated ==
  \A p \in PeerId, range \in KeyRange :
     consensus_offset[p][range] # None =>
       Cardinality(Holders(range, consensus_offset[p][range])) >= consensus_nodes

\* What a node has committed is held by consensus_nodes peers.
CommitedIsReplicated ==
  \A p \in PeerId, range \in KeyRange :
     commited_offsets[p][range] # None =>
       Cardinality(Holders(range, commited_offsets[p][range])) >= consensus_nodes

\* What a node has said of its own offsets it never takes back, as long as no
\* walk leaves its range: update_self_offsets writes an offset even when no
\* transaction is new.
OffsetsNeverRegress ==
  [][\A p \in PeerId, range \in KeyRange :
       self_offsets'[p][range] >= self_offsets[p][range]]_vars

\* consensus_offset is "collected from currently running nodes" (app.rs:45): a
\* tick that gives a range a new consensus offset does so on the word of
\* enough nodes that run.
ConsensusOfRunningNodes ==
  [][\A p \in PeerId, range \in KeyRange :
       consensus_offset'[p][range] # consensus_offset[p][range] =>
         Cardinality(Holders(range, consensus_offset'[p][range]) \cap Running)
           >= consensus_nodes]_vars

\* In the end all running nodes have come as far as any of them, and each
\* knows it: what request_missed_txs.rs:101 waits for.
NodesSettle ==
  <>[](\A p, q \in Running :
         /\ self_offsets[p] = self_offsets[q]
         /\ consensus_offset[p] = self_offsets[p])
=============================================================================
