----------------------------- MODULE NodeProofs -----------------------------
(***************************************************************************)
(* Proofs about Node: its channels carry what they should, the App ends    *)
(* only when it is told to or meets an id it cannot decode, P2P does not   *)
(* end before it, and requests are answered in order or, when the App is   *)
(* gone, not at all.                                                       *)
(***************************************************************************)
EXTENDS Node, TLAPS

AppSteps  == HandleInbox \/ Advertise \/ HandleRequest \/ Stop \/ DropApp
WireSteps == \E m \in wire : ReceiveState(m) \/ handle_request_response(m) \/ handle_m2m_req_res(m)
UserSteps == \E r \in Requests : request(r) \/ poll(r) \/ DropFuture(r)

-----------------------------------------------------------------------------
(***************************************************************************)
(* Types                                                                   *)
(***************************************************************************)

LEMMA TypeInit == Init => TypeOK
<1> SUFFICES ASSUME Init PROVE TypeOK
  OBVIOUS
<1>1. inbox \in Seq(Wire) /\ outbox \in Seq(OutboxMessage) /\ requests \in Seq(Requests)
  BY DEF Init
<1>2. /\ oneshot \in [Requests -> {"none", "open", "sent", "closed"}]
      /\ answer \in [Requests -> SUBSET {m \in Wire : IsTransaction(m) /\ ~ Refused(m)}]
      /\ caller \in [Requests -> {"idle", "waiting", "gone", "answered", "panicked"}]
  BY DEF Init
<1>. QED
  BY <1>1, <1>2 DEF Init, TypeOK, Wire

LEMMA HandleInboxType == TypeOK /\ HandleInbox => TypeOK'
<1> SUFFICES ASSUME TypeOK, HandleInbox PROVE TypeOK'
  OBVIOUS
<1>1. Head(inbox) \in Wire /\ inbox' \in Seq(Wire)
  BY DEF TypeOK, HandleInbox
<1>2. outbox' \in Seq(OutboxMessage) /\ app' \in {"running", "stopped", "panicked", "dropped"}
  <2>1. CASE ~ Refused(Head(inbox)) /\ Head(inbox).kind = "GetMissingTx"
    <3>1. [kind |-> "RequestedTxsForPeer", for |-> Head(inbox)] \in OutboxMessage
      BY <1>1, <2>1 DEF OutboxMessage
    <3>2. outbox \in Seq(OutboxMessage) /\ SendOrPanic([kind |-> "RequestedTxsForPeer", for |-> Head(inbox)])
      BY <2>1 DEF HandleInbox, TypeOK
    <3>3. Append(outbox, [kind |-> "RequestedTxsForPeer", for |-> Head(inbox)]) \in Seq(OutboxMessage)
      BY <3>1, <3>2
    <3>. QED
      BY <3>2, <3>3 DEF SendOrPanic, TypeOK
  <2>2. CASE Refused(Head(inbox))
    BY <2>2 DEF HandleInbox, TypeOK
  <2>3. CASE ~ Refused(Head(inbox)) /\ Head(inbox).kind # "GetMissingTx"
    BY <2>3 DEF HandleInbox, TypeOK
  <2>. QED
    BY <2>1, <2>2, <2>3
<1>3. handled' \subseteq Wire
  BY <1>1 DEF HandleInbox, TypeOK
<1>. QED
  BY <1>1, <1>2, <1>3 DEF HandleInbox, TypeOK, p2p_vars, user_vars

LEMMA AdvertiseType == TypeOK /\ Advertise => TypeOK'
<1> SUFFICES ASSUME TypeOK, Advertise PROVE TypeOK'
  OBVIOUS
<1>1. [kind |-> "State"] \in OutboxMessage /\ [kind |-> "RequestMissingTxs"] \in OutboxMessage
  BY DEF OutboxMessage
<1>2. outbox \in Seq(OutboxMessage)
  BY DEF TypeOK
<1>3. /\ Append(outbox, [kind |-> "State"]) \in Seq(OutboxMessage)
      /\ outbox \o <<[kind |-> "State"], [kind |-> "RequestMissingTxs"]>> \in Seq(OutboxMessage)
  BY <1>1, <1>2
<1>4. outbox' \in Seq(OutboxMessage) /\ app' \in {"running", "stopped", "panicked", "dropped"}
  BY <1>2, <1>3 DEF Advertise
<1>. QED
  BY <1>4 DEF Advertise, TypeOK, p2p_vars, user_vars

LEMMA HandleRequestType == TypeOK /\ HandleRequest => TypeOK'
<1> SUFFICES ASSUME TypeOK, HandleRequest PROVE TypeOK'
  OBVIOUS
<1>1. Head(requests) \in Requests /\ requests' \in Seq(Requests)
  BY DEF TypeOK, HandleRequest
<1>2. Stored \in SUBSET {m \in Wire : IsTransaction(m) /\ ~ Refused(m)}
  BY DEF Stored, TypeOK
<1>3. /\ oneshot' \in [Requests -> {"none", "open", "sent", "closed"}]
      /\ answer' \in [Requests -> SUBSET {m \in Wire : IsTransaction(m) /\ ~ Refused(m)}]
  BY <1>1, <1>2 DEF TypeOK, HandleRequest, Answer
<1>. QED
  BY <1>1, <1>3 DEF HandleRequest, Answer, TypeOK, app_vars, p2p_vars

LEMMA EndType == TypeOK /\ (Stop \/ DropApp) => TypeOK'
<1>1. TypeOK /\ Stop => TypeOK'
  BY DEF Stop, TypeOK, p2p_vars, user_vars
<1>2. ASSUME TypeOK, DropApp PROVE TypeOK'
  <2>1. inbox' \in Seq(Wire) /\ requests' \in Seq(Requests)
    BY <1>2 DEF DropApp
  <2>2. oneshot' \in [Requests -> {"none", "open", "sent", "closed"}]
    BY <1>2 DEF DropApp, TypeOK
  <2>. QED
    BY <1>2, <2>1, <2>2 DEF DropApp, TypeOK, p2p_vars
<1>. QED
  BY <1>1, <1>2

LEMMA HandleOutboxType == TypeOK /\ HandleOutbox => TypeOK'
<1> SUFFICES ASSUME TypeOK, HandleOutbox PROVE TypeOK'
  OBVIOUS
<1>1. Head(outbox) \in OutboxMessage /\ outbox' \in Seq(OutboxMessage)
  BY DEF TypeOK, HandleOutbox
<1>2. ASSUME Head(outbox).kind = "RequestedTxsForPeer"
      PROVE  Head(outbox).for \in {m \in Wire : m.kind = "GetMissingTx"}
  BY <1>1, <1>2 DEF OutboxMessage
<1>3. replied' \subseteq {m \in Wire : m.kind = "GetMissingTx"}
  BY <1>2 DEF TypeOK, HandleOutbox
<1>. QED
  BY <1>1, <1>3 DEF HandleOutbox, TypeOK, app_vars, user_vars

LEMMA WireType == TypeOK /\ WireSteps => TypeOK'
<1> SUFFICES ASSUME TypeOK, NEW m \in wire,
                    ReceiveState(m) \/ handle_request_response(m) \/ handle_m2m_req_res(m)
             PROVE  TypeOK'
  BY DEF WireSteps
<1>1. m \in Wire /\ inbox \in Seq(Wire) /\ outbox \in Seq(OutboxMessage)
  BY DEF TypeOK
<1>2. Deliver(m) => inbox' \in Seq(Wire)
  BY <1>1 DEF Deliver
<1>3. CASE ReceiveState(m)
  <2>1. inbox' \in Seq(Wire) /\ wire' \subseteq Wire
    BY <1>1, <1>2, <1>3 DEF ReceiveState, TypeOK
  <2>. QED
    BY <1>3, <2>1 DEF ReceiveState, TypeOK, app_vars, user_vars
<1>4. CASE handle_request_response(m)
  <2>1. inbox' \in Seq(Wire) /\ acked' \subseteq Wire /\ wire' \subseteq Wire
    BY <1>1, <1>2, <1>4 DEF handle_request_response, TypeOK
  <2>. QED
    BY <1>4, <2>1 DEF handle_request_response, TypeOK, app_vars, user_vars
<1>5. CASE handle_m2m_req_res(m)
  <2>0. <<>> \in Seq(OutboxMessage)
    OBVIOUS
  <2>1. inbox' \in Seq(Wire) /\ outbox' \in Seq(OutboxMessage)
    BY <1>1, <1>2, <1>5, <2>0 DEF handle_m2m_req_res
  <2>2. p2p' \in {"running", "panicked"} /\ acked' \subseteq Wire /\ wire' \subseteq Wire
    BY <1>1, <1>5 DEF handle_m2m_req_res, TypeOK
  <2>. QED
    BY <1>5, <2>1, <2>2 DEF handle_m2m_req_res, TypeOK, app_vars, user_vars
<1>. QED
  BY <1>3, <1>4, <1>5

LEMMA UserType == TypeOK /\ (UserSteps \/ DropInvoker \/ ShutDown) => TypeOK'
<1>1. ASSUME TypeOK, NEW r \in Requests, request(r) PROVE TypeOK'
  <2>0. requests \in Seq(Requests) /\ Append(requests, r) \in Seq(Requests)
    BY <1>1 DEF TypeOK
  <2>1. requests' \in Seq(Requests)
    BY <1>1, <2>0 DEF request
  <2>2. /\ oneshot' \in [Requests -> {"none", "open", "sent", "closed"}]
        /\ caller' \in [Requests -> {"idle", "waiting", "gone", "answered", "panicked"}]
    BY <1>1 DEF request, TypeOK
  <2>. QED
    BY <1>1, <2>1, <2>2 DEF request, TypeOK, app_vars, p2p_vars
<1>2. ASSUME TypeOK, NEW r \in Requests, poll(r) \/ DropFuture(r) PROVE TypeOK'
  <2>1. caller' \in [Requests -> {"idle", "waiting", "gone", "answered", "panicked"}]
    BY <1>2 DEF poll, DropFuture, TypeOK
  <2>. QED
    BY <1>2, <2>1 DEF poll, DropFuture, TypeOK, app_vars, p2p_vars
<1>3. TypeOK /\ (DropInvoker \/ ShutDown) => TypeOK'
  BY DEF DropInvoker, ShutDown, TypeOK, app_vars, p2p_vars, user_vars
<1>. QED
  BY <1>1, <1>2, <1>3 DEF UserSteps

LEMMA Steps ==
  Next <=> AppSteps \/ HandleOutbox \/ WireSteps \/ UserSteps \/ DropInvoker \/ ShutDown
BY DEF Next, AppSteps, WireSteps, UserSteps

LEMMA TypeNext == TypeOK /\ [Next]_vars => TypeOK'
<1>1. TypeOK /\ UNCHANGED vars => TypeOK'
  BY DEF vars, app_vars, p2p_vars, user_vars, TypeOK
<1>. QED
  BY <1>1, Steps, HandleInboxType, AdvertiseType, HandleRequestType, EndType, HandleOutboxType,
     WireType, UserType DEF AppSteps

\* Every channel, map and flag of a node keeps its type (all handlers).
THEOREM TypeCorrect == Spec => []TypeOK
BY TypeInit, TypeNext, PTL DEF Spec

-----------------------------------------------------------------------------
(***************************************************************************)
(* Who ends before whom                                                    *)
(***************************************************************************)

Ends == TheAppEndsForAReason /\ P2POutlivesTheApp

\* While P2P runs, a send of the App does not fail: the one message it cannot
\* cope with is a transaction it cannot decode.
LEMMA SendsSucceed ==
  ASSUME TypeOK, Ends, app = "running"
  PROVE  /\ p2p = "running"
         /\ HandleInbox => UNCHANGED app \/ (Refused(Head(inbox)) /\ app' = "panicked")
         /\ Advertise => UNCHANGED app
<1>1. p2p = "running"
  BY DEF TypeOK, Ends, P2POutlivesTheApp
<1>2. ASSUME HandleInbox PROVE UNCHANGED app \/ (Refused(Head(inbox)) /\ app' = "panicked")
  BY <1>1, <1>2 DEF HandleInbox, SendOrPanic
<1>3. ASSUME Advertise PROVE UNCHANGED app
  BY <1>1, <1>3 DEF Advertise
<1>. QED
  BY <1>1, <1>2, <1>3

LEMMA EndsNext == TypeOK /\ Ends /\ [Next]_vars => Ends'
<1> SUFFICES ASSUME TypeOK, Ends, [Next]_vars PROVE Ends'
  OBVIOUS
<1> USE DEF Ends, TheAppEndsForAReason, P2POutlivesTheApp
<1>1. ASSUME UNCHANGED <<app, shutdown, p2p>>, handled \subseteq handled' PROVE Ends'
  BY <1>1
<1>2. CASE AppSteps
  <2>1. CASE HandleInbox
    <3>1. /\ app = "running" /\ UNCHANGED <<shutdown, p2p>>
          /\ handled' = handled \cup {Head(inbox)}
      BY <2>1 DEF HandleInbox, p2p_vars
    <3>2. UNCHANGED app \/ (Refused(Head(inbox)) /\ app' = "panicked")
      BY <2>1, <3>1, SendsSucceed
    <3>. QED
      BY <3>1, <3>2, <1>1, SendsSucceed
  <2>2. CASE Advertise
    <3>1. app = "running" /\ UNCHANGED <<shutdown, p2p, handled>>
      BY <2>2 DEF Advertise, p2p_vars
    <3>. QED
      BY <2>2, <3>1, <1>1, SendsSucceed
  <2>3. CASE HandleRequest
    BY <2>3, <1>1 DEF HandleRequest, Answer, app_vars, p2p_vars
  <2>4. CASE Stop
    BY <2>4 DEF Stop, p2p_vars
  <2>5. CASE DropApp
    BY <2>5 DEF DropApp, p2p_vars
  <2>. QED
    BY <1>2, <2>1, <2>2, <2>3, <2>4, <2>5 DEF AppSteps
<1>3. CASE HandleOutbox
  BY <1>3, <1>1 DEF HandleOutbox, app_vars
<1>4. CASE WireSteps
  <2> PICK m \in wire : ReceiveState(m) \/ handle_request_response(m) \/ handle_m2m_req_res(m)
    BY <1>4 DEF WireSteps
  <2>1. UNCHANGED <<app, shutdown, handled>> /\ (app # "dropped" => UNCHANGED p2p)
    BY DEF ReceiveState, handle_request_response, handle_m2m_req_res, app_vars
  <2>. QED
    BY <2>1
<1>5. CASE UserSteps
  BY <1>5, <1>1 DEF UserSteps, request, poll, DropFuture, app_vars, p2p_vars
<1>6. CASE DropInvoker
  BY <1>6, <1>1 DEF DropInvoker, app_vars, p2p_vars
<1>7. CASE ShutDown
  BY <1>7 DEF ShutDown, p2p_vars
<1>8. CASE UNCHANGED vars
  BY <1>8, <1>1 DEF vars, app_vars, p2p_vars
<1>. QED
  BY <1>2, <1>3, <1>4, <1>5, <1>6, <1>7, <1>8, Steps

LEMMA EndsHold == Spec => []Ends
<1>1. Init => Ends
  BY DEF Init, Ends, TheAppEndsForAReason, P2POutlivesTheApp
<1>. QED
  BY <1>1, EndsNext, TypeCorrect, PTL DEF Spec

\* An App that has left its loop was told to (loop_until_shutdown), or has been
\* sent a transaction whose id it could not decode (range_from_unique_blob_id).
THEOREM TheAppIsEnded == Spec => []TheAppEndsForAReason
<1>1. Ends => TheAppEndsForAReason
  BY DEF Ends
<1>. QED
  BY <1>1, EndsHold, PTL

\* The App panics on no send: P2P is there as long as the App is, and an App
\* that has panicked was sent an id it could not decode.
THEOREM TheAppPanicsOnNoSend == Spec => []P2POutlivesTheApp
<1>1. Ends => P2POutlivesTheApp
  BY DEF Ends
<1>. QED
  BY <1>1, EndsHold, PTL

-----------------------------------------------------------------------------
(***************************************************************************)
(* Requests without an answer                                              *)
(***************************************************************************)

\* CanceledOnlyAfterStop says nothing of a future that has not been asked
\* for or has been answered; the closed channels are those of futures nobody
\* holds any more, or of an App that has gone.
CancelInv ==
  \A r \in Requests :
    (caller[r] = "panicked" \/ (oneshot[r] = "closed" /\ caller[r] # "gone")) => app = "dropped"

LEMMA CancelNext == TypeOK /\ CancelInv /\ [Next]_vars => CancelInv'
<1> SUFFICES ASSUME TypeOK, CancelInv, [Next]_vars, NEW r \in Requests,
                    (caller[r] = "panicked" \/ (oneshot[r] = "closed" /\ caller[r] # "gone"))'
             PROVE  app' = "dropped"
  BY DEF CancelInv
<1>0. /\ oneshot \in [Requests -> {"none", "open", "sent", "closed"}]
      /\ caller \in [Requests -> {"idle", "waiting", "gone", "answered", "panicked"}]
      /\ caller[r] = "panicked" \/ (oneshot[r] = "closed" /\ caller[r] # "gone") => app = "dropped"
  BY DEF TypeOK, CancelInv
<1>1. CASE UNCHANGED <<caller, oneshot>> /\ (app = "dropped" => app' = "dropped")
  BY <1>0, <1>1
<1>2. CASE AppSteps
  <2>1. CASE HandleInbox \/ Advertise \/ Stop
    BY <2>1, <1>1 DEF HandleInbox, Advertise, Stop, user_vars
  <2>2. CASE HandleRequest
    <3>1. /\ UNCHANGED caller /\ app = "running"
          /\ oneshot'[r] = "closed" => oneshot[r] = "closed" \/ caller[r] = "gone"
      BY <2>2, <1>0 DEF HandleRequest, Answer
    <3>. QED
      BY <3>1, <1>0
  <2>3. CASE DropApp
    BY <2>3 DEF DropApp
  <2>. QED
    BY <1>2, <2>1, <2>2, <2>3 DEF AppSteps
<1>3. CASE HandleOutbox
  BY <1>3, <1>1 DEF HandleOutbox, app_vars, user_vars
<1>4. CASE WireSteps
  BY <1>4, <1>1 DEF WireSteps, ReceiveState, handle_request_response, handle_m2m_req_res,
                    app_vars, user_vars
<1>5. CASE UserSteps
  <2> PICK s \in Requests : request(s) \/ poll(s) \/ DropFuture(s)
    BY <1>5 DEF UserSteps
  <2>1. CASE request(s)
    BY <2>1, <1>0 DEF request, app_vars
  <2>2. CASE poll(s)
    BY <2>2, <1>0 DEF poll, app_vars
  <2>3. CASE DropFuture(s)
    BY <2>3, <1>0 DEF DropFuture, app_vars
  <2>. QED
    BY <2>1, <2>2, <2>3
<1>6. CASE DropInvoker \/ ShutDown
  BY <1>6, <1>1 DEF DropInvoker, ShutDown, app_vars, user_vars
<1>7. CASE UNCHANGED vars
  BY <1>7, <1>1 DEF vars, app_vars, user_vars
<1>. QED
  BY <1>2, <1>3, <1>4, <1>5, <1>6, <1>7, Steps

\* A request is left without an answer only when the App has gone: handle_request
\* answers whatever it takes from the channel.
THEOREM OnlyTheEndCancels == Spec => []CanceledOnlyAfterStop
<1>1. Init => CancelInv
  BY DEF Init, CancelInv
<1>2. CancelInv => CanceledOnlyAfterStop
  BY DEF CancelInv, CanceledOnlyAfterStop
<1>. QED
  BY <1>1, <1>2, CancelNext, TypeCorrect, PTL DEF Spec

-----------------------------------------------------------------------------
(***************************************************************************)
(* The order of answers                                                    *)
(***************************************************************************)

\* What waits in the channel is in the order of the requests, unanswered, and
\* later than whatever has been answered.
QueueInv ==
  /\ \A i, j \in DOMAIN requests : i < j => requests[i] < requests[j]
  /\ \A i \in DOMAIN requests : oneshot[requests[i]] = "open"
  /\ \A i \in DOMAIN requests : \A r \in Requests : oneshot[r] = "sent" => r < requests[i]

\* Requests are made one after the other.
IdleInv ==
  /\ \A r, s \in Requests : r < s /\ caller[r] = "idle" => caller[s] = "idle"
  /\ \A r \in Requests : caller[r] = "idle" => oneshot[r] = "none"

AnswerInv ==
  /\ \A r \in Requests : oneshot[r] = "sent" => answer[r] \subseteq Stored
  /\ AnswersKeepOrder

LEMMA IdleNext == TypeOK /\ QueueInv /\ IdleInv /\ [Next]_vars => IdleInv'
<1> SUFFICES ASSUME TypeOK, QueueInv, IdleInv, [Next]_vars PROVE IdleInv'
  OBVIOUS
<1>0. /\ oneshot \in [Requests -> {"none", "open", "sent", "closed"}]
      /\ caller \in [Requests -> {"idle", "waiting", "gone", "answered", "panicked"}]
      /\ requests \in Seq(Requests)
      /\ MaxRequests \in Nat
  BY NodeAssumption DEF TypeOK
<1>1. CASE UNCHANGED <<caller, oneshot>>
  BY <1>1 DEF IdleInv
<1>2. CASE HandleRequest
  <2>1. Head(requests) \in Requests /\ oneshot[Head(requests)] = "open"
    BY <1>0, <1>2 DEF HandleRequest, QueueInv
  <2>2. /\ UNCHANGED caller
        /\ \A r \in Requests \ {Head(requests)} : oneshot'[r] = oneshot[r]
    BY <1>0, <1>2 DEF HandleRequest, Answer
  <2>. QED
    BY <2>1, <2>2 DEF IdleInv
<1>3. CASE DropApp
  BY <1>3, <1>0 DEF DropApp, IdleInv
<1>4. ASSUME NEW r \in Requests, request(r) PROVE IdleInv'
  <2>1. /\ \A s \in 1..(r - 1) : caller[s] # "idle"
        /\ caller'[r] # "idle"
        /\ \A s \in Requests \ {r} : caller'[s] = caller[s] /\ oneshot'[s] = oneshot[s]
    BY <1>0, <1>4 DEF request
  <2>2. \A s \in Requests : s < r => s \in 1..(r - 1)
    BY <1>0 DEF Requests
  <2>. QED
    BY <2>1, <2>2 DEF IdleInv
<1>5. ASSUME NEW r \in Requests, poll(r) \/ DropFuture(r) PROVE IdleInv'
  <2>1. /\ UNCHANGED oneshot
        /\ \A s \in Requests : caller'[s] = "idle" <=> caller[s] = "idle"
    BY <1>0, <1>5 DEF poll, DropFuture
  <2>. QED
    BY <2>1 DEF IdleInv
<1>6. HandleInbox \/ Advertise \/ Stop \/ HandleOutbox \/ WireSteps \/ DropInvoker \/ ShutDown \/ UNCHANGED vars
        => UNCHANGED <<caller, oneshot>>
  BY DEF HandleInbox, Advertise, Stop, HandleOutbox, WireSteps, ReceiveState,
         handle_request_response, handle_m2m_req_res, DropInvoker, ShutDown, vars, user_vars
<1>. QED
  BY <1>1, <1>2, <1>3, <1>4, <1>5, <1>6, Steps DEF AppSteps, UserSteps

LEMMA QueueNext == TypeOK /\ QueueInv /\ IdleInv /\ [Next]_vars => QueueInv'
<1> SUFFICES ASSUME TypeOK, QueueInv, IdleInv, [Next]_vars PROVE QueueInv'
  OBVIOUS
<1>0. /\ oneshot \in [Requests -> {"none", "open", "sent", "closed"}]
      /\ caller \in [Requests -> {"idle", "waiting", "gone", "answered", "panicked"}]
      /\ requests \in Seq(Requests)
      /\ Requests \subseteq Nat
  BY NodeAssumption DEF TypeOK, Requests
<1>1. CASE UNCHANGED <<requests, oneshot>>
  BY <1>1 DEF QueueInv
<1>2. CASE HandleRequest
  <2>1. /\ requests' = Tail(requests) /\ requests # <<>>
        /\ \A r \in Requests \ {requests[1]} : oneshot'[r] = oneshot[r]
    BY <1>0, <1>2 DEF HandleRequest, Answer
  <2>2. \A i \in DOMAIN requests' :
          i + 1 \in DOMAIN requests /\ requests'[i] = requests[i + 1] /\ requests[1] < requests[i + 1]
    BY <1>0, <2>1 DEF QueueInv
  <2>3. \A i, j \in DOMAIN requests' : i < j => requests'[i] < requests'[j]
    <3> TAKE i, j \in DOMAIN requests'
    <3> HAVE i < j
    <3>1. i + 1 < j + 1
      BY <1>0, <2>1
    <3>. QED
      BY <2>2, <3>1 DEF QueueInv
  <2>4. \A i \in DOMAIN requests' : requests'[i] \in Requests \ {requests[1]}
    BY <1>0, <2>1, <2>2
  <2>5. \A i \in DOMAIN requests' : oneshot'[requests'[i]] = "open"
    BY <2>1, <2>2, <2>4 DEF QueueInv
  <2>6. \A i \in DOMAIN requests' : \A r \in Requests : oneshot'[r] = "sent" => r < requests'[i]
    BY <2>1, <2>2 DEF QueueInv
  <2>. QED
    BY <2>3, <2>5, <2>6 DEF QueueInv
<1>3. CASE DropApp
  <2>1. requests' = <<>>
    BY <1>3 DEF DropApp
  <2>. QED
    BY <2>1 DEF QueueInv
<1>4. ASSUME NEW r \in Requests, request(r) PROVE QueueInv'
  <2>1. CASE app = "dropped"
    BY <1>1, <1>4, <2>1 DEF request
  <2>2. CASE app # "dropped"
    <3>1. /\ requests' = Append(requests, r) /\ caller[r] = "idle" /\ oneshot[r] = "none"
          /\ \A s \in Requests \ {r} : oneshot'[s] = oneshot[s]
          /\ oneshot'[r] = "open"
      BY <1>0, <1>4, <2>2 DEF request, IdleInv
    <3>2. \A s \in Requests : oneshot[s] # "none" => s < r
      BY <1>0, <3>1 DEF IdleInv
    <3>3. \A i \in DOMAIN requests : requests[i] \in Requests /\ requests[i] < r
      BY <1>0, <3>2 DEF QueueInv
    <3>4. \A i \in DOMAIN requests' :
            \/ i \in DOMAIN requests /\ requests'[i] = requests[i]
            \/ i = Len(requests) + 1 /\ requests'[i] = r
      BY <1>0, <3>1
    <3>5. \A i, j \in DOMAIN requests' : i < j => requests'[i] < requests'[j]
      <4> TAKE i, j \in DOMAIN requests'
      <4> HAVE i < j
      <4>1. i \in DOMAIN requests /\ requests'[i] = requests[i]
        BY <1>0, <3>1, <3>4
      <4>. QED
        BY <3>3, <3>4, <4>1 DEF QueueInv
    <3>6. \A i \in DOMAIN requests' : oneshot'[requests'[i]] = "open"
      BY <3>1, <3>3, <3>4 DEF QueueInv
    <3>7. \A i \in DOMAIN requests' : \A s \in Requests : oneshot'[s] = "sent" => s < requests'[i]
      BY <3>1, <3>2, <3>4 DEF QueueInv
    <3>. QED
      BY <3>5, <3>6, <3>7 DEF QueueInv
  <2>. QED
    BY <2>1, <2>2
<1>5. HandleInbox \/ Advertise \/ Stop \/ HandleOutbox \/ WireSteps \/ DropInvoker \/ ShutDown \/ UNCHANGED vars
        => UNCHANGED <<requests, oneshot>>
  BY DEF HandleInbox, Advertise, Stop, HandleOutbox, WireSteps, ReceiveState,
         handle_request_response, handle_m2m_req_res, DropInvoker, ShutDown, vars, user_vars
<1>6. ASSUME NEW r \in Requests, poll(r) \/ DropFuture(r) PROVE UNCHANGED <<requests, oneshot>>
  BY <1>6 DEF poll, DropFuture
<1>. QED
  BY <1>1, <1>2, <1>3, <1>4, <1>5, <1>6, Steps DEF AppSteps, UserSteps

LEMMA AnswerNext == TypeOK /\ QueueInv /\ AnswerInv /\ [Next]_vars => AnswerInv'
<1> SUFFICES ASSUME TypeOK, QueueInv, AnswerInv, [Next]_vars PROVE AnswerInv'
  OBVIOUS
<1> USE DEF AnswerInv, AnswersKeepOrder
<1>0. /\ oneshot \in [Requests -> {"none", "open", "sent", "closed"}]
      /\ answer \in [Requests -> SUBSET {m \in Wire : IsTransaction(m) /\ ~ Refused(m)}]
      /\ requests \in Seq(Requests)
      /\ Requests \subseteq Nat
  BY NodeAssumption DEF TypeOK, Requests
<1>1. CASE /\ UNCHANGED answer /\ Stored \subseteq Stored'
           /\ \A r \in Requests : oneshot'[r] = "sent" => oneshot[r] = "sent"
  BY <1>1
<1>2. CASE HandleRequest
  <2> DEFINE h == requests[1]
  <2>1. /\ h \in Requests /\ UNCHANGED handled
        /\ \A r \in Requests \ {h} : oneshot'[r] = oneshot[r] /\ answer'[r] = answer[r]
        /\ oneshot'[h] = "sent" => answer'[h] = Stored
    BY <1>0, <1>2 DEF HandleRequest, Answer, app_vars
  <2>2. \A r \in Requests : oneshot[r] = "sent" => r < h
    BY <1>0, <1>2 DEF HandleRequest, QueueInv
  <2>3. Stored' = Stored
    BY <2>1 DEF Stored
  <2> HIDE DEF h
  <2>4. \A r \in Requests : oneshot'[r] = "sent" => answer'[r] \subseteq Stored'
    BY <2>1, <2>3
  <2>5. ASSUME NEW r \in Requests, NEW s \in Requests, r < s, oneshot'[r] = "sent", oneshot'[s] = "sent"
        PROVE  answer'[r] \subseteq answer'[s]
    <3>1. CASE s = h
      BY <2>1, <2>3, <2>4, <2>5, <3>1
    <3>2. CASE s # h
      <4>1. s < h /\ r # h
        BY <1>0, <2>1, <2>2, <2>5, <3>2
      <4>. QED
        BY <2>1, <2>5, <3>2, <4>1
    <3>. QED
      BY <3>1, <3>2
  <2>. QED
    BY <2>4, <2>5
<1>3. CASE DropApp
  BY <1>0, <1>1, <1>3 DEF DropApp, Stored
<1>4. ASSUME NEW r \in Requests, request(r) PROVE AnswerInv'
  BY <1>0, <1>1, <1>4 DEF request, Stored, app_vars
<1>5. ASSUME NEW r \in Requests, poll(r) \/ DropFuture(r) PROVE AnswerInv'
  BY <1>1, <1>5 DEF poll, DropFuture, Stored, app_vars
<1>6. HandleInbox => AnswerInv'
  BY <1>1 DEF HandleInbox, Stored, user_vars
<1>7. Advertise \/ Stop \/ HandleOutbox \/ WireSteps \/ DropInvoker \/ ShutDown \/ UNCHANGED vars
        => UNCHANGED <<answer, oneshot, handled>>
  BY DEF Advertise, Stop, HandleOutbox, WireSteps, ReceiveState,
         handle_request_response, handle_m2m_req_res, DropInvoker, ShutDown, vars, app_vars, user_vars
<1>8. UNCHANGED <<answer, oneshot, handled>> => AnswerInv'
  BY <1>1 DEF Stored
<1>. QED
  BY <1>2, <1>3, <1>4, <1>5, <1>6, <1>7, <1>8, Steps DEF AppSteps, UserSteps

\* A later request is answered with a state that is at least as far: the
\* channel keeps the order, and nothing that was stored is dropped.
THEOREM AnswersAreInOrder == Spec => []AnswersKeepOrder
<1>1. Init => QueueInv /\ IdleInv /\ AnswerInv
  BY DEF Init, QueueInv, IdleInv, AnswerInv, AnswersKeepOrder
<1>2. TypeOK /\ (QueueInv /\ IdleInv /\ AnswerInv) /\ [Next]_vars => (QueueInv /\ IdleInv /\ AnswerInv)'
  BY QueueNext, IdleNext, AnswerNext
<1>3. AnswerInv => AnswersKeepOrder
  BY DEF AnswerInv
<1>. QED
  BY <1>1, <1>2, <1>3, TypeCorrect, PTL DEF Spec

-----------------------------------------------------------------------------
(***************************************************************************)
(* Nothing is lost in a channel                                            *)
(***************************************************************************)

LEMMA SendingKeeps ==
  ASSUME NEW S, NEW channel \in Seq(S), NEW x \in S, NEW y \in S
  PROVE  /\ Waits(x, Append(channel, x))
         /\ \A m : Waits(m, channel) => Waits(m, Append(channel, x))
         /\ \A m : Waits(m, channel) => Waits(m, channel \o <<x, y>>)
<1>1. Append(channel, x)[Len(channel) + 1] = x /\ Len(channel) + 1 \in DOMAIN Append(channel, x)
  OBVIOUS
<1>2. \A i \in DOMAIN channel :
        /\ i \in DOMAIN Append(channel, x) /\ Append(channel, x)[i] = channel[i]
        /\ i \in DOMAIN (channel \o <<x, y>>) /\ (channel \o <<x, y>>)[i] = channel[i]
  OBVIOUS
<1>. QED
  BY <1>1, <1>2 DEF Waits

LEMMA TakingKeeps ==
  ASSUME NEW S, NEW channel \in Seq(S), channel # <<>>, NEW m, Waits(m, channel)
  PROVE  m = Head(channel) \/ Waits(m, Tail(channel))
<1>1. PICK i \in DOMAIN channel : channel[i] = m
  BY DEF Waits
<1>2. CASE i = 1
  BY <1>1, <1>2
<1>3. CASE i # 1
  <2>1. i - 1 \in DOMAIN Tail(channel) /\ Tail(channel)[i - 1] = channel[i]
    BY <1>1, <1>3
  <2>. QED  BY <1>1, <2>1 DEF Waits
<1>. QED
  BY <1>2, <1>3

LEMMA AckedNext == TypeOK /\ Ends /\ AckedIsKept /\ [Next]_vars => AckedIsKept'
<1> SUFFICES ASSUME TypeOK, Ends, AckedIsKept, [Next]_vars, app' # "dropped", NEW m \in acked'
             PROVE  (\/ Waits(m, inbox)
                     \/ m \in handled /\ m.kind # "GetMissingTx"
                     \/ m \in replied
                     \/ Waits([kind |-> "RequestedTxsForPeer", for |-> m], outbox))'
  BY DEF AckedIsKept
<1> DEFINE reply == [kind |-> "RequestedTxsForPeer", for |-> m]
<1>0. /\ inbox \in Seq(Wire) /\ outbox \in Seq(OutboxMessage)
      /\ app # "dropped" /\ m \in acked
           => \/ Waits(m, inbox)
              \/ m \in handled /\ m.kind # "GetMissingTx"
              \/ m \in replied
              \/ Waits(reply, outbox)
  BY DEF TypeOK, AckedIsKept
<1> HIDE DEF reply
<1> SUFFICES \/ Waits(m, inbox')
             \/ m \in handled' /\ m.kind # "GetMissingTx"
             \/ m \in replied'
             \/ Waits(reply, outbox')
  BY Zenon DEF reply, Waits
<1>1. CASE UNCHANGED <<app, inbox, handled, acked, replied, outbox>>
  BY <1>0, <1>1
<1>2. CASE HandleInbox
  <2>1. /\ app = "running" /\ p2p = "running" /\ inbox # <<>> /\ inbox' = Tail(inbox)
        /\ handled' = handled \cup {Head(inbox)} /\ UNCHANGED <<acked, replied>>
    BY <1>2, SendsSucceed DEF HandleInbox, p2p_vars
  <2>2. Head(inbox) \in Wire
    BY <1>0, <2>1
  <2>3. CASE Head(inbox).kind # "GetMissingTx"
    <3>1. outbox' = outbox
      BY <1>2, <2>3 DEF HandleInbox
    <3>. QED  BY <1>0, <2>1, <2>3, <3>1, TakingKeeps
  <2>4. CASE Head(inbox).kind = "GetMissingTx"
    <3> DEFINE new == [kind |-> "RequestedTxsForPeer", for |-> Head(inbox)]
    <3>1. new \in OutboxMessage /\ (m = Head(inbox) => reply = new)
      BY <2>2, <2>4 DEF OutboxMessage, reply
    <3>2. outbox' = Append(outbox, new)
      BY <1>2, <2>1, <2>4 DEF HandleInbox, SendOrPanic, Refused, IsTransaction
    <3> HIDE DEF new
    <3>3. Waits(new, outbox') /\ (Waits(reply, outbox) => Waits(reply, outbox'))
      BY <1>0, <3>1, <3>2, SendingKeeps
    <3>. QED  BY <1>0, <2>1, <3>1, <3>3, TakingKeeps
  <2>. QED  BY <2>3, <2>4
<1>3. CASE Advertise
  <2>1. /\ app = "running" /\ p2p = "running"
        /\ UNCHANGED <<inbox, handled, acked, replied>>
        /\ \/ outbox' = Append(outbox, [kind |-> "State"])
           \/ outbox' = outbox \o <<[kind |-> "State"], [kind |-> "RequestMissingTxs"]>>
    BY <1>3, SendsSucceed DEF Advertise, p2p_vars
  <2>2. [kind |-> "State"] \in OutboxMessage /\ [kind |-> "RequestMissingTxs"] \in OutboxMessage
    BY DEF OutboxMessage
  <2>3. Waits(reply, outbox) => Waits(reply, outbox')
    BY <1>0, <2>1, <2>2, SendingKeeps
  <2>. QED  BY <1>0, <2>1, <2>3
<1>4. CASE HandleOutbox
  <2>1. /\ outbox # <<>> /\ outbox' = Tail(outbox) /\ UNCHANGED <<app, inbox, handled, acked>>
        /\ replied' = IF Head(outbox).kind = "RequestedTxsForPeer"
                      THEN replied \cup {Head(outbox).for} ELSE replied
    BY <1>4 DEF HandleOutbox, app_vars
  <2>2. Head(outbox) = reply => m \in replied'
    BY <2>1 DEF reply
  <2>. QED  BY <1>0, <2>1, <2>2, TakingKeeps
<1>5. ASSUME NEW n \in wire, ReceiveState(n) \/ handle_request_response(n) \/ handle_m2m_req_res(n)
      PROVE  \/ Waits(m, inbox')
             \/ m \in handled' /\ m.kind # "GetMissingTx"
             \/ m \in replied'
             \/ Waits(reply, outbox')
  <2>1. /\ UNCHANGED <<app, handled, replied>> /\ app # "dropped"
        /\ inbox' = Append(inbox, n) /\ outbox' = outbox /\ acked' \subseteq acked \cup {n}
    BY <1>5 DEF ReceiveState, handle_request_response, handle_m2m_req_res, Deliver, app_vars
  <2>2. n \in Wire
    BY DEF TypeOK
  <2>3. Waits(n, inbox') /\ (Waits(m, inbox) => Waits(m, inbox'))
    BY <1>0, <2>1, <2>2, SendingKeeps
  <2>. QED  BY <1>0, <2>1, <2>3
<1>6. HandleRequest \/ Stop \/ UserSteps \/ DropInvoker \/ ShutDown \/ UNCHANGED vars
        => /\ UNCHANGED <<inbox, handled, acked, replied, outbox>>
           /\ app' # "dropped" => app # "dropped"
  BY DEF HandleRequest, Answer, Stop, UserSteps, request, poll, DropFuture, DropInvoker, ShutDown,
         vars, app_vars, p2p_vars
<1>7. ~ DropApp
  BY DEF DropApp
<1>. QED
  BY <1>0, <1>2, <1>3, <1>4, <1>5, <1>6, <1>7, Steps DEF AppSteps, WireSteps

\* P2P acknowledges a message once it is in the channel to the App
\* (handle_request_response, handle_m2m_req_res), and from there on it is not
\* lost before the App is.
THEOREM NothingAckedIsLost == Spec => []AckedIsKept
<1>1. Init => AckedIsKept
  BY DEF Init, AckedIsKept
<1>. QED
  BY <1>1, AckedNext, EndsHold, TypeCorrect, PTL DEF Spec

LEMMA OpenNext == TypeOK /\ OpenRequestsAreKept /\ [Next]_vars => OpenRequestsAreKept'
<1> SUFFICES ASSUME TypeOK, OpenRequestsAreKept, [Next]_vars, NEW r \in Requests,
                    oneshot'[r] = "open"
             PROVE  app' # "dropped" /\ Waits(r, requests')
  BY Zenon DEF OpenRequestsAreKept, Waits
<1>0. /\ oneshot \in [Requests -> {"none", "open", "sent", "closed"}]
      /\ requests \in Seq(Requests)
      /\ oneshot[r] = "open" => app # "dropped" /\ Waits(r, requests)
  BY DEF TypeOK, OpenRequestsAreKept
<1>1. CASE HandleRequest
  <2>1. /\ requests # <<>> /\ requests' = Tail(requests) /\ UNCHANGED app /\ app = "running"
        /\ Head(requests) \in Requests /\ oneshot'[Head(requests)] # "open"
        /\ oneshot[r] = "open"
    BY <1>0, <1>1 DEF HandleRequest, Answer, app_vars
  <2>. QED  BY <1>0, <2>1, TakingKeeps
<1>2. CASE DropApp
  BY <1>0, <1>2 DEF DropApp
<1>3. ASSUME NEW s \in Requests, request(s)
      PROVE  app' # "dropped" /\ Waits(r, requests')
  <2>1. CASE app = "dropped"
    BY <1>0, <1>3, <2>1 DEF request
  <2>2. CASE app # "dropped"
    <3>1. /\ requests' = Append(requests, s) /\ UNCHANGED app
          /\ r # s => oneshot'[r] = oneshot[r]
      BY <1>0, <1>3, <2>2 DEF request, app_vars
    <3>2. Waits(s, requests') /\ (Waits(r, requests) => Waits(r, requests'))
      BY <1>0, <3>1, SendingKeeps
    <3>. QED  BY <1>0, <2>2, <3>1, <3>2
  <2>. QED  BY <2>1, <2>2
<1>4. CASE UNCHANGED <<oneshot, requests>> /\ (app # "dropped" => app' # "dropped")
  BY <1>0, <1>4
<1>5. ASSUME \/ HandleInbox \/ Advertise \/ Stop \/ HandleOutbox \/ WireSteps
             \/ DropInvoker \/ ShutDown \/ UNCHANGED vars
             \/ \E s \in Requests : poll(s) \/ DropFuture(s)
      PROVE  UNCHANGED <<oneshot, requests>> /\ (app # "dropped" => app' # "dropped")
  BY <1>5 DEF HandleInbox, SendOrPanic, Advertise, Stop, HandleOutbox, WireSteps, ReceiveState,
              handle_request_response, handle_m2m_req_res, DropInvoker, ShutDown, poll, DropFuture,
              vars, app_vars, user_vars
<1>. QED
  BY <1>1, <1>2, <1>3, <1>4, <1>5, Steps DEF AppSteps, UserSteps

\* A request that nobody has answered is in the channel of an App that is there
\* (InvokerInterface::request): one that comes between the end of the loop and
\* the end of the App is dropped with it.
THEOREM NoRequestIsLost == Spec => []OpenRequestsAreKept
<1>1. Init => OpenRequestsAreKept
  BY DEF Init, OpenRequestsAreKept
<1>. QED
  BY <1>1, OpenNext, TypeCorrect, PTL DEF Spec
=============================================================================
