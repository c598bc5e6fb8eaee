-------------------------------- MODULE Node --------------------------------
(***************************************************************************)
(* The tasks of one node and the channels between them, from               *)
(* maroon/src/stack.rs, common/src/invoker_handler.rs,                     *)
(* common/src/duplex_channel.rs and the two loops of                       *)
(* maroon/src/app/app.rs and maroon/src/network/p2p.rs.                    *)
(*                                                                         *)
(* P2P runs in a task of its own and is never told to stop. The App runs   *)
(* until its shutdown channel resolves; it is dropped some time after that *)
(* and its ends of the channels with it. Users ask the App for its state   *)
(* through an InvokerInterface and await the answers.                      *)
(*                                                                         *)
(* What the App makes of a message is the matter of Cluster. Here it is    *)
(* enough that a transaction is stored, unless its id cannot be decoded,   *)
(* and a peer's request is answered.                                       *)
(***************************************************************************)
EXTENDS RangeKey, Sequences

CONSTANTS
  Wires,                \* what the network may bring, each message once: one of these sets
  MaxRequests,          \* bound: how often users call request
  MaxOutbox             \* bound: no tick while so many messages wait in the outbox

Wire == UNION Wires

ASSUME NodeAssumption ==
  /\ \A m \in Wire : m.kind \in {"State", "NewTransaction", "MissingTx", "GetMissingTx"}
  /\ MaxRequests \in Nat
  /\ MaxOutbox \in Nat

VARIABLES
  shutdown,             \* "held", "resolved": the sender was used or dropped
  app,                  \* "running", "stopped", "panicked", "dropped"
  handled,              \* the messages the App has handled
  inbox,                \* channel from P2P to the App
  outbox,               \* channel from the App to P2P
  p2p,                  \* "running", "panicked"
  wire,                 \* what the network has not brought yet
  acked,                \* the messages P2P has acknowledged to their sender
  replied,              \* the requests of peers whose answer P2P has sent
  invoker,              \* "held", "dropped"
  requests,             \* channel from the invoker to the handler
  oneshot,              \* request -> "none", "open", "sent", "closed"
  answer,               \* request -> the transactions in its answer
  caller                \* request -> "idle", "waiting", "gone", "answered", "panicked"

app_vars  == <<shutdown, app, handled>>
p2p_vars  == <<p2p, wire, acked, replied>>
user_vars == <<invoker, requests, oneshot, answer, caller>>
vars == <<app_vars, inbox, outbox, p2p_vars, user_vars>>

Requests == 1..MaxRequests

Init ==
  /\ shutdown = "held" /\ app = "running" /\ handled = {}
  /\ inbox = <<>> /\ outbox = <<>>
  /\ p2p = "running" /\ wire \in Wires /\ acked = {} /\ replied = {}
  /\ invoker = "held" /\ requests = <<>>
  /\ oneshot = [r \in Requests |-> "none"]
  /\ answer = [r \in Requests |-> {}]
  /\ caller = [r \in Requests |-> "idle"]

IsTransaction(m) == m.kind \in {"NewTransaction", "MissingTx"}

\* txs_to_range_tx_map decodes the id of every transaction that comes.
Refused(m) == IsTransaction(m) /\ m.id \notin UniqueBlobId

\* What GetState returns: it grows with each batch of transactions.
Stored == {m \in handled : IsTransaction(m) /\ ~ Refused(m)}

-----------------------------------------------------------------------------
(***************************************************************************)
(* loop_until_shutdown: select! takes any branch that is ready.            *)
(***************************************************************************)

\* UnboundedSender::send with expect: it fails when the receiver is dropped.
SendOrPanic(message) ==
  IF p2p = "running" THEN outbox' = Append(outbox, message) /\ UNCHANGED app
  ELSE app' = "panicked" /\ UNCHANGED outbox

\* handle_inbox_message. A peer's request makes a message. A transaction whose
\* id is out of range panics the App before anything is stored.
HandleInbox ==
  /\ app = "running" /\ inbox # <<>>
  /\ inbox' = Tail(inbox)
  /\ handled' = handled \cup {Head(inbox)}
  /\ IF Refused(Head(inbox)) THEN app' = "panicked" /\ UNCHANGED outbox
     ELSE IF Head(inbox).kind = "GetMissingTx"
     THEN SendOrPanic([kind |-> "RequestedTxsForPeer", for |-> Head(inbox)])
     ELSE UNCHANGED <<outbox, app>>
  /\ UNCHANGED <<shutdown, p2p_vars, user_vars>>

\* advertise_offsets_and_request_missing: Endpoint::send only logs that the
\* other end is gone, the requests for what is missing insist on it.
Advertise ==
  /\ app = "running" /\ Len(outbox) < MaxOutbox
  /\ \/ /\ outbox' = IF p2p = "running" THEN Append(outbox, [kind |-> "State"]) ELSE outbox
        /\ UNCHANGED app
     \/ IF p2p = "running"
        THEN outbox' = outbox \o <<[kind |-> "State"], [kind |-> "RequestMissingTxs"]>> /\ UNCHANGED app
        ELSE app' = "panicked" /\ UNCHANGED outbox
  /\ UNCHANGED <<shutdown, handled, inbox, p2p_vars, user_vars>>

\* handle_request. An answer nobody waits for any more is only logged.
\* Faulty forms: take_newest takes the requests in the wrong order;
\* ignore_early lets go of a request that finds nothing stored;
\* answer_of_all puts every message in the answer.
Answer(r, state) ==
  /\ oneshot' = [oneshot EXCEPT ![r] = IF caller[r] = "gone" THEN "closed" ELSE "sent"]
  /\ answer' = [answer EXCEPT ![r] = IF caller[r] = "gone" THEN @ ELSE state]
  /\ UNCHANGED <<app_vars, inbox, outbox, p2p_vars, invoker, caller>>

take_newest ==
  /\ app = "running" /\ requests # <<>>
  /\ requests' = SubSeq(requests, 1, Len(requests) - 1)
  /\ Answer(requests[Len(requests)], Stored)

answer_of_all ==
  /\ app = "running" /\ requests # <<>>
  /\ requests' = Tail(requests)
  /\ Answer(Head(requests), handled)

ignore_early ==
  /\ app = "running" /\ requests # <<>>
  /\ requests' = Tail(requests)
  /\ IF Stored # {} THEN Answer(Head(requests), Stored)
     ELSE /\ oneshot' = [oneshot EXCEPT ![Head(requests)] = "closed"]
          /\ UNCHANGED <<app_vars, inbox, outbox, p2p_vars, invoker, caller, answer>>

HandleRequest ==
  /\ app = "running" /\ requests # <<>>
  /\ requests' = Tail(requests)
  /\ Answer(Head(requests), Stored)

\* The shutdown branch. A closed channel of the other branches only disables
\* them. stop_without_invoker is a faulty form: the loop also ends when no
\* request can come any more.
stop_without_invoker ==
  /\ app = "running"
  /\ shutdown = "resolved" \/ (invoker = "dropped" /\ requests = <<>>)
  /\ app' = "stopped"
  /\ UNCHANGED <<shutdown, handled, inbox, outbox, p2p_vars, user_vars>>

Stop ==
  /\ app = "running" /\ shutdown = "resolved"
  /\ app' = "stopped"
  /\ UNCHANGED <<shutdown, handled, inbox, outbox, p2p_vars, user_vars>>

\* The App goes with the task that ran its loop: what waits in its channels is
\* dropped, and the oneshot senders with the requests.
\* drop_but_handler is a faulty form: the handler's end is kept somewhere.
drop_but_handler ==
  /\ app \in {"stopped", "panicked"}
  /\ app' = "dropped"
  /\ inbox' = <<>>
  /\ UNCHANGED <<shutdown, handled, outbox, p2p_vars, user_vars>>

DropApp ==
  /\ app \in {"stopped", "panicked"}
  /\ app' = "dropped"
  /\ inbox' = <<>> /\ requests' = <<>>
  /\ oneshot' = [r \in Requests |-> IF oneshot[r] = "open" THEN "closed" ELSE oneshot[r]]
  /\ UNCHANGED <<shutdown, handled, outbox, p2p_vars, invoker, answer, caller>>

-----------------------------------------------------------------------------
(***************************************************************************)
(* start_event_loop of P2P                                                 *)
(***************************************************************************)

\* handle_receiver_outbox. A State that cannot be published is only logged.
\* publish_or_panic is a faulty form: it is not.
publish_or_panic ==
  /\ p2p = "running" /\ outbox # <<>>
  /\ \/ Head(outbox).kind = "State" /\ p2p' = "panicked" /\ outbox' = <<>>
     \/ outbox' = Tail(outbox) /\ UNCHANGED p2p
  /\ replied' = replied \cup
       {m \in handled : Head(outbox).kind = "RequestedTxsForPeer" /\ Head(outbox).for = m}
  /\ UNCHANGED <<app_vars, inbox, wire, acked, user_vars>>

HandleOutbox ==
  /\ p2p = "running" /\ outbox # <<>>
  /\ outbox' = Tail(outbox)
  /\ replied' = IF Head(outbox).kind = "RequestedTxsForPeer"
                THEN replied \cup {Head(outbox).for} ELSE replied
  /\ UNCHANGED <<app_vars, inbox, p2p, wire, acked, user_vars>>

\* `_ = to_app.send(..)`: nothing happens when the App has been dropped.
Deliver(m) == inbox' = IF app = "dropped" THEN inbox ELSE Append(inbox, m)

\* Messages of gossip, which nobody acknowledges.
ReceiveState(m) ==
  /\ p2p = "running" /\ m \in wire /\ m.kind = "State"
  /\ wire' = wire \ {m}
  /\ Deliver(m)
  /\ UNCHANGED <<app_vars, outbox, p2p, acked, replied, user_vars>>

\* handle_request_response: acknowledged, delivered or not.
\* try_deliver is a faulty form: the inbox has room for one message.
try_deliver(m) ==
  /\ p2p = "running" /\ m \in wire /\ m.kind = "NewTransaction"
  /\ wire' = wire \ {m}
  /\ inbox' = IF app = "dropped" \/ inbox # <<>> THEN inbox ELSE Append(inbox, m)
  /\ acked' = acked \cup {m}
  /\ UNCHANGED <<app_vars, outbox, p2p, replied, user_vars>>

handle_request_response(m) ==
  /\ p2p = "running" /\ m \in wire /\ m.kind = "NewTransaction"
  /\ wire' = wire \ {m}
  /\ Deliver(m)
  /\ acked' = acked \cup {m}
  /\ UNCHANGED <<app_vars, outbox, p2p, replied, user_vars>>

\* handle_m2m_req_res: to_app.send is expected to succeed.
handle_m2m_req_res(m) ==
  /\ p2p = "running" /\ m \in wire /\ m.kind \in {"MissingTx", "GetMissingTx"}
  /\ wire' = wire \ {m}
  /\ IF app = "dropped"
     THEN p2p' = "panicked" /\ outbox' = <<>> /\ UNCHANGED <<inbox, acked>>
     ELSE Deliver(m) /\ acked' = acked \cup {m} /\ UNCHANGED <<p2p, outbox>>
  /\ UNCHANGED <<app_vars, replied, user_vars>>

-----------------------------------------------------------------------------
(***************************************************************************)
(* The users of the node                                                   *)
(***************************************************************************)

\* InvokerInterface::request: todo! when the handler has been dropped.
request(r) ==
  /\ invoker = "held" /\ caller[r] = "idle" /\ \A s \in 1..(r - 1) : caller[s] # "idle"
  /\ IF app = "dropped"
     THEN caller' = [caller EXCEPT ![r] = "panicked"] /\ UNCHANGED <<requests, oneshot>>
     ELSE /\ caller' = [caller EXCEPT ![r] = "waiting"]
          /\ oneshot' = [oneshot EXCEPT ![r] = "open"]
          /\ requests' = Append(requests, r)
  /\ UNCHANGED <<app_vars, inbox, outbox, p2p_vars, invoker, answer>>

\* ResultFuture::poll once there is something to see.
poll(r) ==
  /\ caller[r] = "waiting" /\ oneshot[r] \in {"sent", "closed"}
  /\ caller' = [caller EXCEPT ![r] = IF oneshot[r] = "sent" THEN "answered" ELSE "panicked"]
  /\ UNCHANGED <<app_vars, inbox, outbox, p2p_vars, invoker, requests, oneshot, answer>>

\* The user gives up: the future is dropped.
DropFuture(r) ==
  /\ caller[r] = "waiting"
  /\ caller' = [caller EXCEPT ![r] = "gone"]
  /\ UNCHANGED <<app_vars, inbox, outbox, p2p_vars, invoker, requests, oneshot, answer>>

\* main drops the invoker before the App runs.
DropInvoker ==
  /\ invoker = "held"
  /\ invoker' = "dropped"
  /\ UNCHANGED <<app_vars, inbox, outbox, p2p_vars, requests, oneshot, answer, caller>>

\* The other end of the shutdown channel is used, or dropped: both resolve it.
ShutDown ==
  /\ shutdown = "held"
  /\ shutdown' = "resolved"
  /\ UNCHANGED <<app, handled, inbox, outbox, p2p_vars, user_vars>>

Next ==
  \/ HandleInbox \/ Advertise \/ HandleRequest \/ Stop \/ DropApp
  \/ HandleOutbox
  \/ \E m \in wire : ReceiveState(m) \/ handle_request_response(m) \/ handle_m2m_req_res(m)
  \/ \E r \in Requests : request(r) \/ poll(r) \/ DropFuture(r)
  \/ DropInvoker \/ ShutDown

Spec == Init /\ [][Next]_vars

\* Each loop comes back to select!, which picks at random among the branches
\* that are ready; a task whose loop has ended ends; a future that is kept is
\* polled. Nobody has to shut the node down, and the network owes nothing.
Fairness ==
  /\ WF_vars(HandleInbox) /\ WF_vars(HandleRequest) /\ WF_vars(Stop) /\ WF_vars(DropApp)
  /\ WF_vars(HandleOutbox)
  /\ \A r \in Requests : WF_vars(poll(r))

FairSpec == Spec /\ Fairness

-----------------------------------------------------------------------------
(***************************************************************************)
(* Properties.                                                             *)
(***************************************************************************)

OutboxMessage ==
  [kind : {"State", "RequestMissingTxs"}] \cup
  [kind : {"RequestedTxsForPeer"}, for : {m \in Wire : m.kind = "GetMissingTx"}]

\* The channels carry what belongs in them; an answer holds transactions that
\* could be stored.
TypeOK ==
  /\ shutdown \in {"held", "resolved"}
  /\ app \in {"running", "stopped", "panicked", "dropped"}
  /\ handled \subseteq Wire
  /\ inbox \in Seq(Wire)
  /\ outbox \in Seq(OutboxMessage)
  /\ p2p \in {"running", "panicked"}
  /\ wire \subseteq Wire /\ acked \subseteq Wire
  /\ replied \subseteq {m \in Wire : m.kind = "GetMissingTx"}
  /\ invoker \in {"held", "dropped"}
  /\ requests \in Seq(Requests)
  /\ oneshot \in [Requests -> {"none", "open", "sent", "closed"}]
  /\ answer \in [Requests -> SUBSET {m \in Wire : IsTransaction(m) /\ ~ Refused(m)}]
  /\ caller \in [Requests -> {"idle", "waiting", "gone", "answered", "panicked"}]

\* Two things end the App's loop: the shutdown channel, and a transaction it
\* has been sent and cannot decode (range_key.rs:142). It is not an invoker that
\* was dropped, as main does, and not a failure of P2P, whose end of the
\* channel the App "expects" to be there (app.rs:186, app.rs:210).
TheAppEndsForAReason ==
  app # "running" => shutdown = "resolved" \/ \E m \in handled : Refused(m)

\* P2P lives as long as the App: the one thing that panics it is a message
\* between nodes that finds the App gone (p2p.rs:310). So the App never panics
\* for want of P2P: if it has panicked, it was over a transaction.
P2POutlivesTheApp ==
  /\ p2p = "panicked" => app = "dropped"
  /\ app = "panicked" => \E m \in handled : Refused(m)

\* The case the future calls "unexpected" (invoker_handler.rs:47), a request
\* that will have no answer, comes only with the end of the App.
CanceledOnlyAfterStop ==
  \A r \in Requests :
    (caller[r] = "panicked" \/ (caller[r] = "waiting" /\ oneshot[r] = "closed"))
      => app = "dropped"

\* Of two requests, the later one never gets a state with less stored, whoever
\* asked and whatever the App handled in between. (The consensus offsets, which
\* the answer holds too, may go back.)
AnswersKeepOrder ==
  \A r, s \in Requests :
    r < s /\ oneshot[r] = "sent" /\ oneshot[s] = "sent" => answer[r] \subseteq answer[s]

\* Nobody waits for ever: not when the App stops with requests in its channel,
\* nor when a request slips in between the end of the loop and the end of the
\* App.
RequestsAreResolved ==
  \A r \in Requests : caller[r] = "waiting" ~> caller[r] # "waiting"

\* What P2P acknowledges the App handles, and if it was a request of a peer
\* the answer is sent, unless the App stops.
AckedIsHandled ==
  \A m \in Wire :
    m \in acked ~> \/ app # "running"
                   \/ m \in handled /\ (m.kind = "GetMissingTx" => m \in replied)

Waits(message, channel) == \E i \in DOMAIN channel : channel[i] = message

\* What AckedIsHandled rests on: while the App is there, a message that was
\* acknowledged waits in its inbox or has been handled, and the answer to a
\* peer's request waits in the outbox or has been sent.
AckedIsKept ==
  app # "dropped" =>
    \A m \in acked :
      \/ Waits(m, inbox)
      \/ m \in handled /\ m.kind # "GetMissingTx"
      \/ m \in replied
      \/ Waits([kind |-> "RequestedTxsForPeer", for |-> m], outbox)

\* What RequestsAreResolved rests on: a request whose oneshot is open waits in
\* the channel of requests, and the App is there to take it or to drop it.
OpenRequestsAreKept ==
  \A r \in Requests : oneshot[r] = "open" => app # "dropped" /\ Waits(r, requests)
=============================================================================
