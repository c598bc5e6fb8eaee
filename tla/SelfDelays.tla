----------------------------- MODULE SelfDelays -----------------------------
(***************************************************************************)
(* The two loops that find out what a node lacks of a range and collect it *)
(* on another node, iteration by iteration: self_delays and the branch     *)
(* RequestMissingTxs of handle_inbox_message, in maroon/src/app/app.rs,    *)
(* over the intervals of common/src/range_key.rs.                          *)
(*                                                                         *)
(* MaroonApp says in one expression, MissingIds, what is asked for, and    *)
(* Cluster that the answer holds just that. Here both are shown of the     *)
(* loops, with ids as wide as in the code: all of them together fill the   *)
(* integers, and one more overflows.                                       *)
(***************************************************************************)
EXTENDS MaroonApp

\* In the code a range has 2^30 offsets. With one only, the last of all ids
\* could be decoded, and the loop over the ids would overflow.
ASSUME SelfDelaysAssumption == SINGLE_BLOB_SIZE > 1

VARIABLES
  range,                \* the range the node is behind in
  self_offset,          \* how far it is: its entry of self_offsets
  right_border,         \* how far the furthest peer is
  transactions,         \* what the node holds
  pc,                   \* "scan", "answer", "done", "panicked", "hung"
  left_border, pointer, \* offsets, in the loop of self_delays
  new_intervals,        \* what is asked for
  todo,                 \* the intervals the peer has not gone through
  id_pointer,           \* an id, in the loop of RequestMissingTxs
  response              \* the ids of the answer

input_vars == <<range, self_offset, right_border, transactions>>
scan_vars  == <<left_border, pointer, new_intervals>>
peer_vars  == <<todo, id_pointer, response>>
vars == <<input_vars, pc, scan_vars, peer_vars>>

\* The offsets in a range of ids that can be decoded. Of the last range that
\* is the first one only.
\* every_offset is a faulty form: it takes full_interval_for_range at its word.
every_offset(r) == KeyOffset

Offsets(r) ==
  {offset \in KeyOffset : unique_blob_id_from_range_and_offset(r, offset) \in UniqueBlobId}

\* How many integers there are, 2^64 in the code.
Width == (MAX_BLOCK_INDEX + 1) * SINGLE_BLOB_SIZE

\* A range in which the node is behind, and anything it may hold of it above
\* its offset: not the first id, which would have started the range.
Init ==
  /\ range \in KeyRange
  /\ right_border \in Offsets(range)
  /\ self_offset \in MaybeOffset /\ self_offset < right_border
  /\ transactions \in SUBSET {unique_blob_id_from_range_and_offset(range, offset) :
                                offset \in {o \in Offsets(range) : o > self_offset /\ o # 0}}
  /\ left_border = self_offset + 1 /\ pointer = self_offset + 1
  /\ new_intervals = <<>>
  /\ todo = <<>> /\ id_pointer = 0 /\ response = <<>>
  /\ pc = "scan"

-----------------------------------------------------------------------------
(***************************************************************************)
(* self_delays                                                             *)
(***************************************************************************)

\* U64BlobIdClosedInterval::new panics when the ends are the wrong way round.
Push(left, right, next) ==
  /\ new_intervals' = Append(new_intervals, new_from_range_and_offsets(range, left, right))
  /\ pc' = IF right < left THEN "panicked" ELSE next

\* A round of the loop.
\* scan_forgetting is a faulty form: left_border stays where it was.
\* scan_one_by_one is a faulty form: it closes an interval at every id.
\* scan_in_place is a faulty form: it does not move past an id that is held.
scan_forgetting ==
  /\ pc = "scan" /\ pointer <= right_border
  /\ pointer' = pointer + 1
  /\ IF unique_blob_id_from_range_and_offset(range, pointer) \in transactions /\ left_border < pointer
     THEN Push(left_border, pointer - 1, "scan")
     ELSE UNCHANGED <<new_intervals, pc>>
  /\ UNCHANGED <<input_vars, peer_vars, left_border>>

scan_one_by_one ==
  /\ pc = "scan" /\ pointer <= right_border
  /\ pointer' = pointer + 1 /\ left_border' = pointer + 1
  /\ IF unique_blob_id_from_range_and_offset(range, pointer) \notin transactions
     THEN Push(pointer, pointer, "scan")
     ELSE UNCHANGED <<new_intervals, pc>>
  /\ UNCHANGED <<input_vars, peer_vars>>

scan_in_place ==
  /\ pc = "scan" /\ pointer <= right_border
  /\ IF unique_blob_id_from_range_and_offset(range, pointer) \in transactions
     THEN /\ left_border' = pointer + 1 /\ UNCHANGED pointer
          /\ IF left_border < pointer THEN Push(left_border, pointer - 1, "scan")
             ELSE UNCHANGED <<new_intervals, pc>>
     ELSE pointer' = pointer + 1 /\ UNCHANGED <<left_border, new_intervals, pc>>
  /\ UNCHANGED <<input_vars, peer_vars>>

Scan ==
  /\ pc = "scan" /\ pointer <= right_border
  /\ pointer' = pointer + 1
  /\ IF unique_blob_id_from_range_and_offset(range, pointer) \in transactions
     THEN /\ left_border' = pointer + 1
          /\ IF left_border < pointer THEN Push(left_border, pointer - 1, "scan")
             ELSE UNCHANGED <<new_intervals, pc>>
     ELSE UNCHANGED <<left_border, new_intervals, pc>>
  /\ UNCHANGED <<input_vars, peer_vars>>

\* What is after the loop: the last interval, and the request on its way.
Ask(intervals) ==
  /\ todo' = intervals
  /\ id_pointer' = IF intervals = <<>> THEN 0 ELSE intervals[1].left
  /\ UNCHANGED <<input_vars, left_border, pointer, response>>

EndOfScan ==
  /\ pc = "scan" /\ pointer > right_border
  /\ IF pointer # left_border THEN Push(left_border, pointer - 1, "answer")
     ELSE pc' = "answer" /\ UNCHANGED new_intervals
  /\ Ask(new_intervals')

-----------------------------------------------------------------------------
(***************************************************************************)
(* RequestMissingTxs, on the peer that is furthest                         *)
(***************************************************************************)

\* The peer holds the range up to its offset (TableIsHeld of Cluster).
Held == {unique_blob_id_from_range_and_offset(range, offset) : offset \in 0..right_border}

\* The condition of the inner loop.
\* within_half_open is a faulty form: the last id is left out.
within_half_open(id, interval) == id < interval.right

Within(id, interval) == id <= interval.right

\* A round of the inner loop: an id that is not held is not moved past, and
\* the pointer goes one past the end of the interval, where it may overflow.
Collect ==
  /\ pc = "answer" /\ todo # <<>> /\ Within(id_pointer, todo[1])
  /\ IF id_pointer \notin Held
     THEN pc' = "hung" /\ UNCHANGED <<id_pointer, response>>
     ELSE /\ response' = Append(response, id_pointer)
          /\ id_pointer' = (id_pointer + 1) % Width
          /\ pc' = IF id_pointer + 1 = Width THEN "panicked" ELSE pc
  /\ UNCHANGED <<input_vars, scan_vars, todo>>

\* The outer loop goes to the next interval.
NextInterval ==
  /\ pc = "answer" /\ todo # <<>> /\ ~Within(id_pointer, todo[1])
  /\ todo' = Tail(todo)
  /\ id_pointer' = IF Len(todo) = 1 THEN 0 ELSE todo[2].left
  /\ UNCHANGED <<input_vars, pc, scan_vars, response>>

\* The answer is sent.
EndOfAnswer ==
  /\ pc = "answer" /\ todo = <<>>
  /\ pc' = "done"
  /\ UNCHANGED <<input_vars, scan_vars, peer_vars>>

Next == Scan \/ EndOfScan \/ Collect \/ NextInterval \/ EndOfAnswer

Spec == Init /\ [][Next]_vars

\* Neither loop yields: the task goes on until it has left it.
FairSpec == Spec /\ WF_vars(Next)

-----------------------------------------------------------------------------
(***************************************************************************)
(* Properties.                                                             *)
(***************************************************************************)

Interval == [left : Nat, right : Nat]

\* Offsets and ids are where they should be; nobody has subtracted from zero.
TypeOK ==
  /\ range \in KeyRange
  /\ self_offset \in MaybeOffset
  /\ right_border \in KeyOffset
  /\ transactions \subseteq UniqueBlobId
  /\ pc \in {"scan", "answer", "done", "panicked", "hung"}
  /\ pointer \in (self_offset + 1)..(right_border + 1)
  /\ left_border \in (self_offset + 1)..pointer
  /\ new_intervals \in Seq(Interval)
  /\ todo \in Seq(Interval)
  /\ id_pointer \in 0..(Width - 1)
  /\ response \in Seq(Nat)

Missing == MissingIds(range, transactions, self_offset, right_border)

Covers(intervals) == UNION {ids(intervals[i]) : i \in DOMAIN intervals}

Apart(intervals) ==
  \A i, j \in DOMAIN intervals :
    /\ intervals[i].left <= intervals[i].right
    /\ i < j => intervals[i].right + 1 < intervals[j].left

\* The loop of self_delays asks for just what MissingIds says: nothing the
\* node holds, and nothing it lacks is left out.
IntervalsAreMissing == pc \in {"answer", "done"} => Covers(new_intervals) = Missing

\* The intervals of self_delays are in order, and between two of them there is
\* something the node holds: there are as few as possible.
IntervalsAreApart == Apart(new_intervals)

\* No interval is the wrong way round, no id overflows past the largest, and
\* the loop over the ids does not stop at one the peer lacks: neither node
\* panics or hangs over a request. The ids of the last range, which would
\* overflow, are never stored since they are refused when decoded
\* (range_key.rs:142).
NobodyPanics == pc \notin {"panicked", "hung"}

\* The answer holds each missing id once, in order.
AnswerIsExact ==
  pc = "done" =>
    /\ Range(response) = Missing
    /\ \A i, j \in DOMAIN response : i < j => response[i] < response[j]

\* Both loops end.
DelaysAreAnswered == <>(pc = "done")
=============================================================================
