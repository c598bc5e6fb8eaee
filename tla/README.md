# Maroon in TLA+

A verification project for maroon-migrator: nodes that replicate transactions
received from gateways, agree on how far each key range is replicated, and put
what is confirmed into epochs and a linear log.

Contents: [the system](#the-system) · [modules](#modules) ·
[correspondence](#how-the-model-corresponds-to-the-code) · [runs](#runs) ·
[proofs](#proofs) · [what the checks show](#what-the-checks-show-of-the-code) ·
[not modelled](#what-is-not-modelled) · [plan](#plan)

## The system

### Components

| Component | Code | State | Operations |
|---|---|---|---|
| App, replication | `maroon/src/app/app.rs` | `transactions`, `self_offsets`, `offsets` (range -> peer -> offset), `consensus_offset` | five inbox messages (State, Nodes, NewTransaction, MissingTx, RequestMissingTxs), the advertise tick, the GetState request |
| App, commit | `app.rs`, `maroon/src/epoch.rs` | `commited_offsets`, `epochs` | the epoch tick |
| Linearizer | `maroon/src/linearizer.rs` | `sequence` | `new_epoch` |
| Range keys | `common/src/range_key.rs` | none | packing of (range, offset) in an id, closed intervals of ids |
| Maroon P2P | `maroon/src/network/p2p.rs` | alive peers, alive gateways, the swarm | the App's outbox, gossip, direct requests, meta exchange, connections opened and closed |
| Gateway | `gateway/src/{core,p2p,main}.rs` | connected nodes | broadcast of a request, responses, meta exchange, connections |
| Invoker and handler | `common/src/invoker_handler.rs` | a channel of requests, a oneshot per request | request, answer, poll |
| Duplex channel | `common/src/duplex_channel.rs` | two unbounded channels | send, receive |
| Wiring | `stack.rs`, `main.rs`, `params.rs` | none after the start | constructors |

### Interaction

A gateway draws ids from its key range and sends each transaction to every node
it is connected to. A node's P2P task hands what it receives to the App through
the duplex channel, and the App's outbox goes the other way: `State` is
gossiped to all nodes, `RequestMissingTxs` and `RequestedTxsForPeer` go to one
peer. The App is one task: `loop_until_shutdown` handles one message, one
request or one tick at a time, to the end. Each advertise tick recomputes the
consensus offsets, gossips the node's own offsets and asks, for every range in
which some peer is ahead, the peer that is furthest for what is missing. Each
epoch tick turns the difference between consensus and committed offsets into an
epoch and appends it to the log.

Users of a node, in its own process, ask the App for its state through an
`InvokerInterface` and await the answer on a oneshot channel. P2P and the App are
two tasks; the App stops when its shutdown channel resolves, P2P is never told
to. A gateway is two tasks too: the owner of a `Gateway` and the event loop,
which goes on when the `Gateway` is dropped.

Nothing is persisted. A node that starts again draws a new `PeerId`
(`p2p.rs:77`) and is a new peer with empty maps.

### What is hard

Messages of several nodes in any order, lost or late; tables of what others said
that go stale; nodes that crash and stay in the tables of the others; ticks of
two timers between any two messages; the arithmetic at the end of a range; one
loop that never ends when asked for a transaction the node lacks; tasks that end
in any order while the others hold the other ends of their channels. The list, with
its lines, is `hazards` in `PROJECT.json`.

### What makes each component correct

* Replication: an offset covers no gap and misses nothing that is there; what a
  table says of a peer is true of it; what is confirmed is held by
  `consensus_nodes` peers; no node is asked for what it lacks; nodes that can
  talk catch up with each other.
* Commit: epochs take every transaction once, in order, up to the committed
  offset; the log holds what the epochs hold; what is confirmed is committed; the
  hash of an epoch determines all of the history up to it.
* Linearizer: the log only grows, and each range is in order without a gap.
* Range keys: encoding and decoding are inverse; ids of different ranges never
  meet; loops over the ids of an interval do not run over the largest integer.
* Loops over intervals: what is asked for is exactly what is missing, in as few
  intervals as possible, and the answer is exactly that.
* P2P: whoever counts as alive is connected, connected peers learn of each
  other, and the App knows the latest set, with the node itself in it.
* Gateway: a transaction reaches every node that stays connected, and its App if
  that is there; acknowledgements are no more than such arrivals.
* Invoker: each request gets an answer or learns that there is none, nobody waits
  for ever, and a later answer never tells of fewer transactions.
* The tasks of a node: only the shutdown, or a transaction it cannot decode, ends
  the App, P2P does not end before it, and what was acknowledged is handled unless
  the App ends.

## Modules

| Module | What it is |
|---|---|
| `RangeKey` | ids, ranges, offsets, intervals; `SINGLE_BLOB_SIZE` and `MAX_BLOCK_INDEX` are constants |
| `Linearizer` | `new_epoch` as a function on logs, and what a log must satisfy |
| `TransactionLog` | abstract specification: a log to which blocks are appended, each range in order, without gap or repetition |
| `MaroonApp` | the functions of `app.rs` as operators on the maps they read |
| `EpochCommit` | the commit path of one node; consensus offsets are its environment |
| `EpochChain` | extends `EpochCommit` by the hash of each epoch |
| `SelfDelays` | the loops of `self_delays` and of `RequestMissingTxs`, iteration by iteration |
| `Node` | the tasks of one node: App, P2P, users, and the channels between them |
| `Cluster` | nodes and the network between them; one action per handler and timer |
| `ClusterRefinement` | a node of `Cluster`, whichever it is, is an `EpochCommit` |
| `Membership` | the event loops of nodes and gateways: connections, the exchange of roles, the sets of alive peers |
| `Gateway` | extends `Membership` by gateways that broadcast transactions to the nodes they are connected to |
| `MCEpochCommit`, `MCCluster`, `MCCommit`, `MCMembership`, `MCGateway`, `MCNode`, `MCSelfDelays` | instances for TLC |
| `MaroonAppProofs`, `EpochCommitProofs`, `EpochChainProofs`, `ClusterProofs`, `MembershipProofs`, `NodeProofs`, `SelfDelaysProofs`, `GatewayProofs` | theorems and their proofs |

Refinement goes in two steps: a node of `Cluster` implements `EpochCommit`
(`EveryNodeCommits`), and `EpochCommit` implements `TransactionLog`
(`LogIsATransactionLog`). Both are checked and proved. The node that is looked at
is a constant, `node`, of which nothing is assumed but that it is a peer: the
theorems hold for each. The run `commit` looks at one of two nodes; the other is
the same but for its name. `MissingIds`, the set of ids a `Cluster` request
carries, is the specification of the loops in `SelfDelays`
(`IntervalsAreMissing`, `AnswerIsExact`), as `TableIsHeld` of `Cluster` is their
assumption about the peer that answers. `Node` and `Cluster` look at the same
loops from two sides: `Cluster` at what a handler does to the maps, `Node` at
which handler may run when, and with which of its channels still open.

Operators such as `update_to_newest` or `commit_all_marked`, whose comments call
them faulty, are forms of the operator that follows them with a plausible
mistake in it. No specification uses them. They are listed as `mutants` in
`PROJECT.json`: with the faulty form in place, the property named there fails.

## How the model corresponds to the code

**Maps.** A `HashMap<KeyRange, KeyOffset>` is a function from `KeyRange` into
`MaybeOffset`, with `None` (-1) for an absent key. No entry of these maps is
ever removed in the code.

**Transactions** are their ids: the App never reads a status.

**Atomicity.** One action of `Cluster` is one turn of the loop. `NewTransaction`,
`ReceiveMissingTx`, `ReceiveState` and `ReceiveRequest` are the branches of
`handle_inbox_message`; `Advertise` is the whole of
`advertise_offsets_and_request_missing`, with the recomputation of consensus it
starts with; `Commit` is `commit_epoch_if_needed`. `GetState` changes no map; it
is in `Node`. `Nodes` is left out, since its handler writes a line of log.

**Order of a HashMap.** `update_self_offsets` goes through the ranges of a batch
in any order (`rank`), which matters when a walk leaves its range; `self_delays`
picks any of several peers that are equally far (`chosen`).

**Ids that are refused.** `range_from_unique_blob_id` panics on an id that is not in
`UniqueBlobId`: all ids of the last range but its first. The operator is then
`OutOfRange`, which is no number: TLC stops with an error should a run ever compute
with it, and the proofs show that each id that is decoded is in `UniqueBlobId`
(`Decodable`). In `Cluster` the transactions are such ids (`ClusterAssumption`); what
another id does to a node is shown by `Node`, and to the rest of the cluster it is a
`Crash`.

**The walk.** `walk` goes on past the last id of a range, as the code does, and
the offset is then taken modulo the size of a range.

**Intervals.** A request of `Cluster` carries the set of ids its intervals cover,
which is `MissingIds`, and may be empty, as in the code. `SelfDelays` has the
intervals: `Scan` is a round of the `while` of `self_delays`, `EndOfScan` the `if`
after it, `Collect` a round of the inner loop of `RequestMissingTxs` on the peer
that is furthest, `NextInterval` the outer `for`. `Push` is
`new_from_range_and_offsets` with the panic of `new`. One range is enough: the
loops share nothing between ranges but the list they append to. Ids fill the
integers 0 to `Width` - 1 as they fill a u64 in the code, and `id_pointer`
overflows after the last of them.

**The hanging loop.** `RequestMissingTxs` for an id the node lacks never ends
(`app.rs:172-178`): the node goes to the status "hung" and does nothing more.

**Network.** Messages in flight are sets, so they may be delivered in any order.
With `KeepMessages` TRUE a delivered message stays and may be delivered again;
since no message has to be delivered either, this covers loss and delay, and more
duplication than the network has: safety is checked and proved under it. With
`KeepMessages` FALSE each message is delivered once at most and `Lose` may
remove it: liveness is checked under it. The duplex channels are part of the
network here. A `State` with no offset in it changes nothing where it arrives
and is not put in flight. Messages to a peer that does not run vanish.

**Nodes.** `PeerId` is the identity of one life of a node; `Start` brings a new
one up, `Crash` stops one. A crashed peer's maps are kept in the model as a
record of what it held, and no action reads them. A shutdown, which breaks out of
the loop, is a crash to the others.

**The tasks of a node** (`Node`). One action is one turn of the App's loop, one
turn of P2P's, or one step of a user. `inbox` and `outbox` are the two channels of
`create_a_b_duplex_pair`. A send to a receiver that was dropped fails, and the code
takes that in three ways, all of which are kept: it ignores it (`Deliver`), logs
it (`Endpoint::send`, in `Advertise`) or panics (`SendOrPanic`,
`handle_m2m_req_res`). A transaction whose id is refused (`Refused`) panics the App in
`txs_to_range_tx_map`, before anything of its message is stored. `Stop` is the shutdown branch, which resolves when the
sender is used and when it is dropped; `DropApp` is the later moment at which the
App goes with the task that ran it, and with it what waits in its channels, the
oneshot senders of requests included. The integration tests run the App in a task of its own, and
P2P outlives it; in `maroon/src/main.rs` the process ends with the App, which to the
others is a crash. `request` and `poll` are those of the
invoker, panics included; a user may drop the future, and may drop the invoker,
as `main` does. What the App does to its maps is abstracted to the set of
messages it has handled: an answer to `GetState` is a function of the maps, and
what matters of it is what had been stored when it was made.

**Hashes** (`EpochChain`). SHA-256 is taken to be without collisions: a hash stands
for what went into it, the increments of all epochs so far, each epoch's in the
order of its vector. The vector's order is that of a HashMap and may be any
(`Orders`).

**Gateways** are an environment: any transaction of `TxIds` may reach any node
of `GatewayPeers` at any time, again and again.

**Connections** (`Membership`). Every url is dialled once, in `prepare`, so a
connection is named by the pair of who dials whom; two nodes that have each
other's url may be connected twice. A dial may fail and a connection may be cut
at any time (a crash, an idle timeout, the network). Each end sees it open and
close in its own time, and what is on its way to an end that has closed is lost.
`request_response` may send over any connection to the peer that is open, and
answers over the one the request came on; this, `Cut`, `Put` and the sets of
connections are libp2p's and marked external in the map. Time-outs of single
requests are not modelled: while a connection is up, it delivers.

**Roles.** `Established`, `Closed`, `ReceiveRequest` and `ReceiveResponse` are the
branches of `handle_swarm_event` of both programs; `insert_by_role` is the
closure of `handle_meta_exchange`. `to_app` is the last `Inbox::Nodes`. A gateway
answers with its role, asks nobody and takes whoever it is connected to for a
node.

**Transactions of a gateway** (`Gateway`). `send_request` puts one in the channel
and is possible from the start, connected or not; `Broadcast` sends it to the
peers in the set at that time; acknowledgements are counted where the code puts
them in a channel nobody reads. On the node's side `ReceiveTransaction` keeps apart what
P2P took and acknowledged (`received`) and what it could hand to the App (`delivered`):
`HandOver` ignores a failed `to_app.send` as the code does. `AppEnds` lets the App of
a node go at any time, for whatever reason; the reasons are the matter of `Node`. `DropGateway` may come at any time; the loop
goes on, its channel included, until it has an acknowledgement to hand over
(`Panic`), and then its connections go with it. Offsets are those of `main.rs`, 0 and up.
`Cluster` does not use this module: it lets any transaction reach any node at any
time, which is more than these gateways can do.

**Bounds**: `MaxEpochs`, `MaxCrashes`, `MaxTransactions`, `Ending` (the nodes whose App
may end in `Gateway`), `MaxRequests` (how often users ask), `MaxOutbox` (no tick while
the outbox of `Node` is that long), and the finite sets of peers, transactions and
messages (`Wires` of `Node`: what the network brings is one of these sets, each message
once). Nothing else is bounded; connections are finitely many
since nobody dials again.

## Runs

| Run | Instance | States | What it checks |
|---|---|---|---|
| `replication` | 2 nodes, 3 transactions of one range, 1 crash, redelivery | 336,000 | `SelfOffsetsAreHeld`, `SelfOffsetsAreMaximal`: offsets are exact whatever the order of arrival. `TableIsHeld`, `OwnRowIsCurrent`: tables are true. `RequestsCanBeAnswered`. `OffsetsNeverRegress`. `TypeOK` |
| `late_node` | 3 peers, one starts late, 1 crash | 19,000 | `ConsensusIsReplicated` with new and dead peers |
| `range_end` | 2 nodes, ranges of 2, 3 transactions | 457,000 | `SelfOffsetsAreHeld`, `NoNodeHangs` when a walk leaves its range |
| `commit` | 2 nodes, 2 transactions, 2 epochs each | 68,000 | `CommitedIsReplicated`, and `EveryNodeCommits`, the refinement |
| `catch_up` | 2 nodes, 2 transactions, lossy links, fairness | 44,000 | `NodesSettle` |
| `epoch_commit` | 2 ranges of 4 and the first id of a third, 3 epochs | 12,300 | `EpochsCoverCommited`, `EpochsAreDisjoint`, `LogHoldsTheEpochs`, `HashPinsHistory`, `LogIsATransactionLog`, `CommitLagsByAtMostOne`, `TypeOK` |
| `membership` | 2 nodes that dial each other, 1 gateway that dials one of them, fairness | 200,000 | `AliveAreConnected`, `AppIsUpToDate`, `ConnectedPeersMeet`, `TypeOK` |
| `gateway` | 1 gateway, 2 nodes, one of whose Apps may end, 2 transactions, fairness | 214,000 | `AcksCountDeliveries`, `LoopEndsAfterGateway`, `TransactionsArrive` |
| `node` | 4 messages from the network, or 3 with an id that is refused, 2 requests, fairness | 409,000 | `TheAppEndsForAReason`, `P2POutlivesTheApp`, `CanceledOnlyAfterStop`, `AnswersKeepOrder`, `RequestsAreResolved`, `AckedIsHandled`, `TypeOK` |
| `self_delays` | 2 ranges of 6, the last one included; every set of held transactions, fairness | 4,000 | `IntervalsAreMissing`, `IntervalsAreApart`, `NobodyPanics`, `AnswerIsExact`, `DelaysAreAnswered`, `TypeOK` |
| `commit_holds_back` | as `epoch_commit` with ranges of 3 | | violated: `CommitReachesConsensus` |
| `dead_consensus` | 3 nodes, 1 transaction, 1 crash | | violated: `ConsensusOfRunningNodes` |

**Why the bounds are enough.** Two nodes and three transactions of one range give
every order of arrival with a gap, an answer that overlaps with what came from a
gateway meanwhile, and a State overtaken by a newer one; three is the least with
a gap of more than one way to fill. Three peers with `consensus_nodes` = 2 are
the least in which a quorum may leave out the node itself or include a dead one.
Ranges of two with three transactions are the least in which a walk leaves its
range. Three epochs let consensus go up, fall back and come up again with an
epoch cut each time. What these runs check of safety is proved for all sizes,
except where the section on proofs says otherwise.

Two nodes that dial each other are the least that are connected twice, and a
gateway the least that has another role. Two transactions and two nodes let a
broadcast come between two connections. In `gateway` the App of one node may end and
that of the other may not, so the gateway counts acknowledgements of both kinds; the
nodes are alike, and it does not matter whose App it is. The proofs have any set of
them. The runs of `Membership` and `Gateway` do
not check for deadlock: when every connection has come and gone and nobody sends,
the system does stop.

`late_node` has a single transaction, so it has no State overtaken by a newer one;
`replication` has those. `commit` has no crash: late nodes, crashes and quorums are the
matter of `late_node` and of the proofs.

In `node`, one message of each kind puts every way of sending against every state
of the App; where the gateway's transaction is refused, the messages that come after it
are those of nodes, on which P2P insists; and two requests are the least that can be answered out of order; a
third would only repeat the second. `MaxOutbox` of 1 lets a tick find the
outbox empty only, which hides nothing: the App looks at the outbox nowhere. The
run does not check for deadlock, since a node that has been shut down stops.
Ranges of 6 in `self_delays` have room for three intervals with something held
between them, and one at either border; the second of two ranges is the last one,
of which one id only can be decoded.

`replication` and `range_end` use symmetry: peers are compared for equality only,
and the permutations keep the set of peers with a gateway. `catch_up`, which
checks liveness, uses none. `commit` and `catch_up` do not either.

**Fairness** (`Fairness` in `Cluster`). Weak fairness of each running node's
advertise tick: `interval` fires for ever, and the loop always comes back to
`select!` (that it does is `NoNodeHangs`). Strong fairness of delivery on each link and for each kind of message: the code repeats its State, and a request
for what is still missing, at each tick, and a link that carries something again
and again gets some of it through; single messages may all the same be lost by
`Lose`. No fairness of gateways, of epochs, of starts or of crashes.

In `Membership`, weak fairness of each peer's event loop: it handles something
while it has something to handle, whatever it picks (`Handle`). That is enough
because there is only so much to handle. In `Gateway`, weak fairness of opening
each connection, of each gateway's `Broadcast` and of each transaction's arrival:
`select!` picks at random among the branches that are ready, and an open
connection delivers in the end. Nobody has to dial, to cut or to send, and no App has to
end.

In `Node`, weak fairness of each branch of `select!` that has a message, of the
shutdown branch, of dropping the App once its loop has ended, of P2P's handling of
the outbox and of polling a future that has something to see. `select!` picks at
random among the branches that are ready, so none is passed over for ever. No
fairness of ticks, of the network, of users and of the shutdown. In `SelfDelays`,
weak fairness of the next step: the loops do not yield.

## Proofs

All theorems hold for every value of the constants allowed by
`RangeKeyAssumption`, `EpochCommitAssumption`, `ClusterAssumption`,
`ClusterRefinementAssumption`, `MembershipAssumption`, `GatewayAssumption`,
`NodeAssumption` and `SelfDelaysAssumption`: any finite set of peers, any number of
ranges, of any size, any `consensus_nodes`, any messages, requests and
transactions.

* `MaroonAppProofs`. What the operators return. Encoding and decoding are inverse
  where decoding does not panic (`EncodeDecode`, `DecodeEncode`) from the uniqueness of division with remainder,
  and ids are ordered as their offsets within a range. The ids a walk passes are
  held (`WalkIsHeld`), so the offsets of `update_self_offsets` are
  (`UpdatedOffsetsAreHeld`); `consensus_maximum` is an offset that n peers have
  reached (`ConsensusIsReached`); commit moves exactly the ranges with an
  increment to their consensus offset (`CommitedIsConsensus`). Increments that do
  not overlap can be sorted in one way (`SortedIncrements`), and `new_epoch` then
  appends their ids to the log, each once and in ascending order
  (`NewEpochAppends`).
* `ClusterProofs`. `TypeCorrect`, `OwnOffsetsAreHeld`, `TablesAreHeld`,
  `RequestsAreForTheHeld`, `NodesNeverHang`, `ConfirmedIsReplicated`,
  `LogIsReplicated`, `OwnRowsAreCurrent`. Under the hypothesis `RangesStayApart`,
  also `OwnOffsetsAreMaximal` and `OffsetsOnlyGrow`: nobody sends both the last
  transaction of a range and the first of the next, so no walk leaves its range.
  Without it both are false, as the section on the code says.
  `EachNodeImplementsEpochCommit` is the refinement, and with it come, of any
  node's log, `EachNodeKeepsATransactionLog` and `LoggedTransactionsAreReplicated`.
* `EpochCommitProofs`. `TypeCorrect`, `EpochsCoverTheCommited`,
  `NoTransactionTwice`, `LagIsAtMostOne`, `LogAndEpochsAgree`, and the refinement of
  the abstract log, `TheLogIsATransactionLog`.
* `EpochChainProofs`. `HashesPinHistory`.
* `MembershipProofs`. `TypeCorrect`, `AliveMeansConnected`, `AppFindsItself`, for
  any nodes and gateways and whoever dials whom (`MembershipAssumption`: gateways
  do not listen, nobody dials itself).
* `GatewayProofs`. `TheLoopOutlivesTheGateway`, `NoAckWithoutDelivery`, for finitely
  many nodes (`GatewayAssumption`), without which there is no count.
* `NodeProofs`. `TypeCorrect`, `TheAppIsEnded`, `TheAppPanicsOnNoSend`,
  `OnlyTheEndCancels`, `AnswersAreInOrder`, `NothingAckedIsLost`, `NoRequestIsLost`.
* `SelfDelaysProofs`. `TypeCorrect`, `AskedIsMissing`, `AskedIsApart`,
  `LoopsAreSafe`, `AnswersAreExact`, for ranges of more than one offset: with one
  only, the last of all ids could be decoded and the loop over ids would overflow.

**The cluster's invariant** says the same of every place an offset can be: a
node's own map, a message in flight (`StatesAreHeld`), a table, a consensus
offset, a committed offset. None of the safety properties is inductive alone.
`NoNodeHangs` needs that requests name only what the receiver holds; this needs
that tables are true; this needs that State messages are; this that own offsets
are. Since a node never drops a transaction (`HoldingStays`), what was true when
a message was sent still is when it is handled, which is why late and repeated
messages do no harm. A walk that leaves its range is covered: the offset it
leaves is of a transaction that the walk passed, or is small and was passed
before.

**The commit path's invariant** joins `EpochsCoverCommited` and
`EpochsAreDisjoint`: that a new increment meets no old one follows from the old
ones ending at the committed offset. It adds that consensus and committed offsets are
those of ids that can be decoded (`Decodable`), since `commit_epoch_if_needed` decodes
the ends of its increments.

**The log's invariant** (`LogInv`) adds to `LogHoldsTheEpochs` that the ids of each
range are in ascending order. A block that is appended keeps it, since all ids of
an increment are above those of its range that the epochs cover
(`IncrementsAreAbove`). That there is no gap need not be carried along: what the log
holds of a range is all ids up to the committed offset, they ascend, and so the
n-th is the one at offset n (`AscendingLogHasNoGaps`). What `new_epoch` appends is a
concatenation of any number of intervals, which takes an induction over the set of
increments; it is had from the least element of a set of naturals, which needs no
operator for a parameter (`LeastNatural`, `SetInduction`, `FlattenedIntervals`).

**The node in the cluster.** `NodeSteps`: each step of `Cluster` is a tick of the
node's epoch timer, a recomputation of its consensus offsets, or leaves its commit
path alone. `EpochCommit` lets consensus move to any offset of an id that can be
decoded, and not vanish once there; that the cluster keeps to it is
`ConsensusIsHeld`: some peer holds that id, having decoded it. `LoggedIsReplicated` then puts the parts
together. The log holds what the epochs hold (`LogAndEpochsAgree`), which is what is
up to the committed offsets (`EpochsCoverTheCommited`), which `consensus_nodes` peers
hold (`LogIsReplicated`). So what a node has given its place in the order is not
lost with that node.

**The invariant of membership** adds to the properties that every message on its
way tells the role its sender has, goes along a connection it belongs to, and
that only nodes ask (`WireIsSound`). Without it the answer of a gateway could put
it among the nodes. `AliveAreConnected` is then a matter of the two actions that
touch both sides: a set grows only with a peer a message of which has just come
over an open connection, and a connection closes only together with its peer's
leaving the sets.

**That offsets advance** needs more than the invariant. A batch may be handled in
any order of its ranges, so the walk of one range must not depend on what another
brings: with `RangesStayApart` a walk ends in its own range (`WalkStaysInItsRange`),
the offset it leaves is at least the one it came from, and the id after it is not
held (`UpdatedOffsetsAdvance`).

**The invariant of the loops** (`IndInv` of `SelfDelaysProofs`) is what each of
the two loops has done so far: behind `left_border` the intervals cover what is
missing and from there to `pointer` everything is missing (`ScanIsSound`); the
answer and what is left of the intervals together are what was asked
(`AnswerIsSound`). That no id overflows follows from the one fact that the furthest
peer's offset is of an id that can be decoded.

**The invariants of a node** say of each request where it is: in the channel of
requests at most once and with an open oneshot, answered, or cancelled with the
App gone. Answers keep order since requests are in the order of their numbers in
the channel and the stored transactions only grow. `AckedIsKept` and
`OpenRequestsAreKept` are the safety halves of `AckedIsHandled` and
`RequestsAreResolved`: what must be handled in the end waits in a channel until then,
and its channel is not closed before the App ends. `AckedIsKept` rests on
`P2POutlivesTheApp`, for the outbox goes with P2P.

**The gateway's invariants.** An acknowledgement on its way is for a transaction of
the gateway it goes to that some node has received (`GmWireIsSound`), and what a node
has received its App was handed, or the App is gone (`HandedOverInv`). That is not yet a
count: two acknowledgements might stand for one delivery. They do not, since each
transaction leaves the channel once (`EachIsSentOnce`: what waits there has been
nowhere, and what is on its way to a node has not been there), and there is one
connection between a gateway and a node to take it (`OneMessageEach`), as a gateway
does not listen.

**Model-checked only.** Liveness (`NodesSettle`, `ConnectedPeersMeet`,
`TransactionsArrive`, `RequestsAreResolved`, `AckedIsHandled`,
`DelaysAreAnswered`), which the prover does not reach. Every other property of the
passing runs is a theorem.

## What the checks show of the code

* `calculate_epoch_increments` leaves out a range with exactly one new
  transaction (`app.rs:263`): the last transaction of a range may be confirmed
  and never committed. `CommitLagsByAtMostOne` bounds the damage to one.
* Consensus counts peers that have crashed (`app.rs:118`), against the comment
  on `consensus_offset` (`dead_consensus`).
* At the end of a range the walk goes on into the next and the offset wraps round
  (`app.rs:337-343`), rather than growing above the maximum as the comment above
  it has it. An own offset may then go back and be less than what is held: hence the
  hypothesis of `OwnOffsetsAreMaximal` and `OffsetsOnlyGrow`. It does not endanger
  replication: `SelfOffsetsAreHeld` and `NoNodeHangs` are proved all the same.
* A node may confirm, and log, transactions it does not hold (`app.rs:428`): two
  other peers are enough. `tests_single.rs` expects it so.
* Only the peer that is furthest in a range is asked (`app.rs:363-369`), and the
  entry of a peer that has crashed stays: while its offset is the largest nobody
  else is asked.
* An acknowledgement does not mean that a transaction is stored: P2P sends it when
  the transaction is in the channel, and sends it also when the App is gone and the
  hand-over has failed (`p2p.rs:340-345`). `AckedIsHandled` has to except an App that
  ends, `AcksCountDeliveries` a node whose App has ended. For the same
  reason a `GetState` asked after the acknowledgement may be answered without
  the transaction; `AnswersKeepOrder` is what does hold.
* A transaction whose id is in the last range, above its first id, ends the App of
  every node that receives it (`app.rs:452`, `range_key.rs:142`); it is acknowledged all the
  same. A gateway whose `KEY_RANGE` is that range sends such ids from its second
  transaction on (`gateway/src/main.rs`). `TheAppEndsForAReason` has to name this end
  beside the shutdown.
* `params.rs:7` asks for `consensus_nodes` nodes "(+ current one)" to confirm a
  transaction; `consensus_maximum` is content with any `consensus_nodes` entries of the
  table, the node's own among them or not, as `tests_single.rs` expects.
* After a shutdown, or such a panic, P2P goes on unless the process ends: it accepts transactions for nobody and panics at
  the first request of another node (`p2p.rs:310`). While the App lives it cannot
  (`P2POutlivesTheApp`).
* The future's comment calls a sender that was dropped "unexpected"
  (`invoker_handler.rs:47`): it is what happens to each request that waits when the
  App is shut down, and to nobody before (`CanceledOnlyAfterStop`).
* Equal hashes mean equal histories, but equal histories need not have equal
  hashes: the order of a HashMap goes into them (`epoch.rs:22`).
* All ids of the last range but its first are refused when decoded
  (`range_key.rs:142`), though `full_interval_for_range` hands them out. It is what
  keeps the loops over ids from overflowing: with those ids let in, `NobodyPanics`
  fails.
* A node forgets a peer when one of two connections to it closes
  (`p2p.rs:276-281`), and asks nobody again: `ConnectedPeersMeet` has to except
  peers one of whose connections was lost, and is violated without that
  exception. The deployment gives every node the urls of the others, so two that
  start together may well be connected twice. The effect is on the alive sets, which
  only feed a line of log so far.
* A transaction that leaves the gateway's channel when nobody is connected is
  lost though `send_request` returned Ok (`gateway/src/p2p.rs:116`); what
  `docs/gateway.md` calls a broadcast to all nodes reaches those that are
  connected. `TransactionsArrive` says what is certain, a `Gateway` that is dropped
  meanwhile included: its loop goes on until the first acknowledgement comes.
* The panic of `recalculate_order` (`app.rs:441`) cannot happen:
  `AppFindsItself`.

## What is not modelled

* What the App does with `Inbox::Nodes`: a line of log.
* Messages of P2P that cannot be serialized, pings, and time-outs of single
  libp2p requests: none changes any state of the program.
* `full_interval_for_range` and the iterator's end at the largest integer
  (`range_key.rs:117`): the first has no caller in the program, and the second is
  reached only by the linearizer, with intervals whose ids could be decoded.
* `Gateway::start_in_background` called twice, which panics; the arguments and the
  environment of the programs.
* Memory: no queue and no map has a limit in the code, and nothing is ever dropped
  from `transactions` or `epochs`.
* The catching up of a node whose furthest peer has crashed, as a liveness
  property: three peers with strong fairness of every link are out of TLC's reach
  in reasonable time, and what happens is described above.
* libp2p, tokio, etcd and the deployment files.

## Plan

Done: replication, commit, log and their refinement; membership; the gateway's
broadcast, acknowledgements and end; the tasks of a node with invoker and shutdown;
the interval loops at a small width; the hashes of epochs; theorems about each.

Worth doing next:

1. That two nodes have the same transaction of a range at the same place, as a
   theorem about two nodes of a cluster: it follows from each having a
   `TransactionLog`.
2. What is behind the remaining liveness properties as safety, as `AckedIsKept` is
   behind `AckedIsHandled`: a bound on the rounds left of the loops of `SelfDelays`,
   and where a transaction of a gateway may be.
3. The order by delay that `recalculate_order` prepares for, and the epochs that
   are to go to etcd, once the code has them.
