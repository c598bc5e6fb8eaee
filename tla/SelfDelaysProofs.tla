-------------------------- MODULE SelfDelaysProofs --------------------------
(***************************************************************************)
(* The two loops of SelfDelays are right for every size of a range, every  *)
(* pair of offsets and every set of transactions held between them.        *)
(***************************************************************************)
EXTENDS SelfDelays, MaroonAppProofs

-----------------------------------------------------------------------------
(***************************************************************************)
(* Lists of intervals.                                                     *)
(***************************************************************************)

\* Pushing an interval adds its ids, and keeps the list in order if it begins
\* past all the others with something in between.
LEMMA PushKeeps ==
  ASSUME NEW intervals \in Seq(Interval), NEW interval \in Interval
  PROVE  LET more == Append(intervals, interval)
         IN  /\ more \in Seq(Interval)
             /\ Covers(more) = Covers(intervals) \cup ids(interval)
             /\ (/\ Apart(intervals) /\ interval.left <= interval.right
                 /\ \A i \in DOMAIN intervals : intervals[i].right + 1 < interval.left)
                  => Apart(more)
<1> DEFINE more == Append(intervals, interval)
           n    == Len(intervals)
<1>1. /\ more \in Seq(Interval) /\ n \in Nat
      /\ DOMAIN intervals = 1..n /\ DOMAIN more = 1..(n + 1)
      /\ \A i \in 1..n : more[i] = intervals[i]
      /\ more[n + 1] = interval
  OBVIOUS
<1> HIDE DEF more, n
<1>2. 1..(n + 1) = 1..n \cup {n + 1}
  BY <1>1, SMT
<1>3. Covers(more) = Covers(intervals) \cup ids(interval)
  BY <1>1, <1>2, Zenon DEF Covers
<1>4. ASSUME Apart(intervals), interval.left <= interval.right,
             \A i \in DOMAIN intervals : intervals[i].right + 1 < interval.left
      PROVE  Apart(more)
  <2> SUFFICES ASSUME NEW i \in 1..(n + 1), NEW j \in 1..(n + 1)
               PROVE  /\ more[i].left <= more[i].right
                      /\ i < j => more[i].right + 1 < more[j].left
    BY <1>1 DEF Apart
  <2>1. CASE i \in 1..n /\ j \in 1..n
    BY <1>1, <1>4, <2>1 DEF Apart
  <2>2. CASE i \in 1..n /\ j = n + 1
    BY <1>1, <1>4, <2>2 DEF Apart
  <2>3. CASE i = n + 1
    BY <1>1, <1>4, <2>3
  <2>. QED
    BY <1>2, <2>1, <2>2, <2>3
<1>. QED
  BY <1>1, <1>3, <1>4 DEF more

\* The ids of a list in order are those of its first interval, and beyond
\* those the ids of the rest, none of which is below the next one's start.
LEMMA FirstOfApart ==
  ASSUME NEW intervals \in Seq(Interval), intervals # <<>>, Apart(intervals)
  PROVE  /\ intervals[1] \in Interval
         /\ Tail(intervals) \in Seq(Interval) /\ Apart(Tail(intervals))
         /\ Covers(intervals) = ids(intervals[1]) \cup Covers(Tail(intervals))
         /\ \A id \in Covers(intervals) : id >= intervals[1].left
         /\ \A id \in Covers(Tail(intervals)) : id > intervals[1].right + 1
         /\ Len(intervals) = 1 => Tail(intervals) = <<>>
         /\ Len(intervals) # 1 => /\ Tail(intervals) # <<>>
                                  /\ Tail(intervals)[1] = intervals[2]
<1> DEFINE rest == Tail(intervals)
           n    == Len(intervals)
<1>1. /\ n \in Nat \ {0} /\ DOMAIN intervals = 1..n
      /\ rest \in Seq(Interval) /\ DOMAIN rest = 1..(n - 1) /\ Len(rest) = n - 1
      /\ \A i \in 1..(n - 1) : rest[i] = intervals[i + 1]
      /\ \A i \in 1..n : intervals[i] \in Interval
  OBVIOUS
<1> HIDE DEF rest, n
<1>2. 1 \in 1..n /\ \A i \in 1..n : i = 1 \/ i - 1 \in 1..(n - 1)
  BY <1>1
<1>3. \A i \in 1..(n - 1) : i + 1 \in 1..n /\ 1 < i + 1
  BY <1>1
<1>4. Apart(rest)
  <2> SUFFICES ASSUME NEW i \in 1..(n - 1), NEW j \in 1..(n - 1)
               PROVE  /\ rest[i].left <= rest[i].right
                      /\ i < j => rest[i].right + 1 < rest[j].left
    BY <1>1 DEF Apart
  <2>1. i < j => i + 1 < j + 1
    OBVIOUS
  <2>. QED  BY <1>1, <1>3, <2>1 DEF Apart
<1>5. Covers(intervals) = ids(intervals[1]) \cup Covers(rest)
  <2>1. ASSUME NEW id \in Covers(intervals)
        PROVE  id \in ids(intervals[1]) \cup Covers(rest)
    <3>1. PICK i \in 1..n : id \in ids(intervals[i])
      BY <1>1 DEF Covers
    <3>2. CASE i = 1
      BY <3>1, <3>2
    <3>3. CASE i # 1
      <4>1. i - 1 \in 1..(n - 1) /\ (i - 1) + 1 = i
        BY <1>2, <3>3
      <4>2. rest[i - 1] = intervals[i]
        BY <1>1, <4>1
      <4>. QED  BY <1>1, <3>1, <4>1, <4>2 DEF Covers
    <3>. QED  BY <3>2, <3>3
  <2>2. ids(intervals[1]) \subseteq Covers(intervals)
    BY <1>1, <1>2 DEF Covers
  <2>3. Covers(rest) \subseteq Covers(intervals)
    BY <1>1, <1>3 DEF Covers
  <2>. QED  BY <2>1, <2>2, <2>3
<1>6. ASSUME NEW id \in Covers(rest) PROVE id > intervals[1].right + 1
  <2>1. PICK i \in 1..(n - 1) : id \in ids(intervals[i + 1])
    BY <1>1 DEF Covers
  <2>2. intervals[1].right + 1 < intervals[i + 1].left
    BY <1>1, <1>2, <1>3 DEF Apart
  <2>3. intervals[1] \in Interval /\ intervals[i + 1] \in Interval
    BY <1>1, <1>2, <1>3
  <2>. QED  BY <2>1, <2>2, <2>3 DEF ids, Interval
<1>7. ASSUME NEW id \in Covers(intervals) PROVE id >= intervals[1].left
  <2>1. intervals[1] \in Interval /\ intervals[1].left <= intervals[1].right
    BY <1>1, <1>2 DEF Apart
  <2>2. CASE id \in ids(intervals[1])
    BY <2>1, <2>2 DEF ids, Interval
  <2>3. CASE id \in Covers(rest)
    <3>1. id \in Int
      <4>1. PICK i \in 1..(n - 1) : id \in ids(rest[i])
        BY <1>1, <2>3 DEF Covers
      <4>. QED  BY <1>1, <4>1 DEF ids, Interval
    <3>. QED  BY <1>6, <2>1, <2>3, <3>1 DEF Interval
  <2>. QED  BY <1>5, <2>2, <2>3
<1>8. /\ n = 1 => rest = <<>>
      /\ n # 1 => rest # <<>> /\ rest[1] = intervals[2]
  <2>1. n = 1 => Len(rest) = 0
    BY <1>1
  <2>2. n # 1 => Len(rest) # 0 /\ 1 \in 1..(n - 1)
    BY <1>1
  <2>. QED  BY <1>1, <2>1, <2>2
<1>. QED
  BY <1>1, <1>2, <1>4, <1>5, <1>6, <1>7, <1>8 DEF rest, n

-----------------------------------------------------------------------------
(***************************************************************************)
(* The invariant of the two loops.                                         *)
(***************************************************************************)

\* The id of the range's offset 0; ids and offsets differ by it.
Base == range * SINGLE_BLOB_SIZE

\* What never changes.
InputsAreSound ==
  /\ range \in KeyRange
  /\ self_offset \in MaybeOffset
  /\ right_border \in KeyOffset
  /\ self_offset < right_border
  /\ unique_blob_id_from_range_and_offset(range, right_border) \in UniqueBlobId
  /\ transactions \subseteq UniqueBlobId

\* What is below left_border has been dealt with, in intervals that end before
\* it; what is between left_border and pointer is missing.
ScanIsSound ==
  pc = "scan" =>
    /\ todo = <<>> /\ id_pointer = 0 /\ response = <<>>
    /\ Covers(new_intervals) = ((Base + self_offset + 1)..(Base + left_border - 1)) \ transactions
    /\ \A id \in (Base + left_border)..(Base + pointer - 1) : id \notin transactions
    /\ \A i \in DOMAIN new_intervals : new_intervals[i].right + 1 < Base + left_border

\* The answer holds what is missing below id_pointer; the rest is in the
\* intervals that are left.
AnswerIsSound ==
  pc \in {"answer", "done"} =>
    /\ Covers(new_intervals) = Missing
    /\ Apart(todo) /\ Covers(todo) \subseteq Missing
    /\ todo # <<>> =>
         /\ todo[1].left <= id_pointer /\ id_pointer <= todo[1].right + 1
         /\ Range(response) = {id \in Missing : id < id_pointer}
         /\ \A id \in Missing : id >= id_pointer => id \in Covers(todo)
    /\ todo = <<>> => id_pointer = 0 /\ Range(response) = Missing
    /\ pc = "done" => todo = <<>>

InOrder(list) == \A i, j \in DOMAIN list : i < j => list[i] < list[j]

IndInv ==
  /\ TypeOK
  /\ InputsAreSound
  /\ NobodyPanics
  /\ IntervalsAreApart
  /\ ScanIsSound
  /\ AnswerIsSound
  /\ InOrder(response)

\* The arithmetic of offsets and ids, once and for all.
LEMMA Bounds ==
  ASSUME InputsAreSound
  PROVE  /\ Base \in Nat /\ self_offset \in Int /\ -1 <= self_offset
         /\ right_border \in Nat /\ self_offset < right_border
         /\ Width \in Nat /\ Base + right_border + 1 < Width
<1>1. /\ SINGLE_BLOB_SIZE \in Nat \ {0} /\ MAX_BLOCK_INDEX \in Nat /\ SINGLE_BLOB_SIZE > 1
  BY RangeKeyAssumption, SelfDelaysAssumption
<1>2. /\ self_offset \in Int /\ -1 <= self_offset /\ right_border \in Nat
      /\ self_offset < right_border /\ range \in Nat
  BY <1>1, SMT DEF InputsAreSound, MaybeOffset, KeyOffset, None, KeyRange
<1>3. Base \in Nat
  BY <1>1, <1>2, SMT DEF Base
<1>4. Base + right_border <= MAX_BLOCK_INDEX * SINGLE_BLOB_SIZE
  BY DEF InputsAreSound, UniqueBlobId, unique_blob_id_from_range_and_offset, Base
<1>5. Width = MAX_BLOCK_INDEX * SINGLE_BLOB_SIZE + SINGLE_BLOB_SIZE
      /\ MAX_BLOCK_INDEX * SINGLE_BLOB_SIZE \in Nat
  BY <1>1, SMT DEF Width
<1>. QED
  BY <1>1, <1>2, <1>3, <1>4, <1>5, SMT

\* Missing in terms of ids.
LEMMA MissingIs ==
  ASSUME InputsAreSound
  PROVE  Missing = ((Base + self_offset + 1)..(Base + right_border)) \ transactions
<1>1. Base \in Nat /\ self_offset \in Int /\ right_border \in Nat
  BY Bounds
<1>2. Missing = {Base + o : o \in (self_offset + 1)..right_border} \ transactions
  BY DEF Missing, MissingIds, unique_blob_id_from_range_and_offset, Base
<1> HIDE DEF Base
<1>3. ASSUME NEW id \in (Base + self_offset + 1)..(Base + right_border)
      PROVE  id \in {Base + o : o \in (self_offset + 1)..right_border}
  <2>1. id - Base \in (self_offset + 1)..right_border /\ id = Base + (id - Base)
    BY <1>1, SMT
  <2>. QED  BY <2>1
<1>4. ASSUME NEW o \in (self_offset + 1)..right_border
      PROVE  Base + o \in (Base + self_offset + 1)..(Base + right_border)
  BY <1>1, SMT
<1>. QED
  BY <1>2, <1>3, <1>4

\* An interval that self_delays pushes.
LEMMA IntervalIs ==
  ASSUME InputsAreSound, NEW a \in Nat, NEW b \in Nat
  PROVE  LET interval == new_from_range_and_offsets(range, a, b)
         IN  /\ interval \in Interval
             /\ interval.left = Base + a /\ interval.right = Base + b
             /\ ids(interval) = (Base + a)..(Base + b)
<1>1. Base \in Nat
  BY Bounds
<1>. QED
  BY <1>1 DEF new_from_range_and_offsets, unique_blob_id_from_range_and_offset, Interval,
              ids, Base

\* The last push of an interval, or none when nothing is missing behind the
\* last id that is held: both as Scan and as EndOfScan do it.
LEMMA PushIsSound ==
  ASSUME IndInv, pc = "scan", left_border < pointer
  PROVE  LET interval == new_from_range_and_offsets(range, left_border, pointer - 1)
             more     == Append(new_intervals, interval)
         IN  /\ more \in Seq(Interval) /\ Apart(more)
             /\ Covers(more) = ((Base + self_offset + 1)..(Base + pointer - 1)) \ transactions
             /\ \A i \in DOMAIN more : more[i].right + 1 < Base + pointer + 1
             /\ ~(pointer - 1 < left_border)
<1> DEFINE interval == new_from_range_and_offsets(range, left_border, pointer - 1)
           more     == Append(new_intervals, interval)
<1>1. Base \in Nat /\ self_offset \in Int /\ -1 <= self_offset /\ right_border \in Nat
  BY Bounds DEF IndInv
<1>2. /\ left_border \in Nat /\ pointer \in Nat /\ pointer - 1 \in Nat
      /\ self_offset + 1 <= left_border
      /\ new_intervals \in Seq(Interval) /\ Apart(new_intervals)
  BY <1>1, SMT DEF IndInv, TypeOK, IntervalsAreApart
<1>3. /\ interval \in Interval /\ interval.left = Base + left_border
      /\ interval.right = Base + (pointer - 1)
      /\ ids(interval) = (Base + left_border)..(Base + (pointer - 1))
  BY <1>2, IntervalIs DEF IndInv
<1>4. /\ Covers(new_intervals)
           = ((Base + self_offset + 1)..(Base + left_border - 1)) \ transactions
      /\ \A id \in (Base + left_border)..(Base + pointer - 1) : id \notin transactions
      /\ \A i \in DOMAIN new_intervals : new_intervals[i].right + 1 < Base + left_border
  BY DEF IndInv, ScanIsSound
<1> HIDE DEF interval
<1>5. more \in Seq(Interval) /\ Apart(more) /\ Covers(more) = Covers(new_intervals) \cup ids(interval)
  BY <1>1, <1>2, <1>3, <1>4, PushKeeps
<1>6. Covers(more) = ((Base + self_offset + 1)..(Base + pointer - 1)) \ transactions
  <2>1. (Base + self_offset + 1)..(Base + pointer - 1)
          = (Base + self_offset + 1)..(Base + left_border - 1)
              \cup (Base + left_border)..(Base + (pointer - 1))
    BY <1>1, <1>2, SMT
  <2>2. (Base + left_border)..(Base + (pointer - 1)) = (Base + left_border)..(Base + pointer - 1)
    BY <1>1, <1>2, SMT
  <2> HIDE DEF more
  <2>. QED  BY <1>3, <1>4, <1>5, <2>1, <2>2, Zenon
<1>7. ASSUME NEW i \in DOMAIN more PROVE more[i].right + 1 < Base + pointer + 1
  <2>1. CASE i \in DOMAIN new_intervals
    <3>1. more[i] = new_intervals[i] /\ new_intervals[i] \in Interval
      BY <1>2, <2>1
    <3>. QED  BY <1>1, <1>2, <1>4, <2>1, <3>1 DEF Interval
  <2>2. CASE i \notin DOMAIN new_intervals
    <3>1. more[i] = interval
      BY <1>2, <2>2
    <3>. QED  BY <1>1, <1>2, <1>3, <3>1
  <2>. QED  BY <2>1, <2>2
<1>. QED
  BY <1>2, <1>5, <1>6, <1>7 DEF interval

\* A round of the loop of self_delays.
LEMMA ScanKeeps == ASSUME IndInv, Scan PROVE IndInv'
<1> DEFINE id == unique_blob_id_from_range_and_offset(range, pointer)
<1>1. /\ UNCHANGED <<range, self_offset, right_border, transactions, todo, id_pointer, response>>
      /\ pc = "scan" /\ pointer <= right_border /\ pointer' = pointer + 1
  BY DEF Scan, input_vars, peer_vars
<1>2. /\ Base \in Nat /\ self_offset \in Int /\ -1 <= self_offset /\ right_border \in Nat
      /\ Base' = Base
  BY <1>1, Bounds DEF IndInv, Base
<1>3. /\ pointer \in Nat /\ left_border \in Nat /\ left_border <= pointer
      /\ self_offset + 1 <= left_border
      /\ new_intervals \in Seq(Interval) /\ Apart(new_intervals)
      /\ todo = <<>> /\ response = <<>> /\ id_pointer = 0
  BY <1>1, <1>2, SMT DEF IndInv, TypeOK, IntervalsAreApart, ScanIsSound
<1>4. id = Base + pointer
  BY DEF unique_blob_id_from_range_and_offset, Base
<1>5. /\ Covers(new_intervals)
           = ((Base + self_offset + 1)..(Base + left_border - 1)) \ transactions
      /\ \A x \in (Base + left_border)..(Base + pointer - 1) : x \notin transactions
      /\ \A i \in DOMAIN new_intervals : new_intervals[i].right + 1 < Base + left_border
  BY <1>1 DEF IndInv, ScanIsSound
<1>6. ASSUME /\ pc' = "scan"
             /\ new_intervals' \in Seq(Interval) /\ Apart(new_intervals')
             /\ left_border' \in Nat /\ self_offset + 1 <= left_border'
             /\ left_border' <= pointer + 1
             /\ Covers(new_intervals')
                  = ((Base + self_offset + 1)..(Base + left_border' - 1)) \ transactions
             /\ \A x \in (Base + left_border')..(Base + pointer) : x \notin transactions
             /\ \A i \in DOMAIN new_intervals' :
                  new_intervals'[i].right + 1 < Base + left_border'
      PROVE  IndInv'
  <2>1. TypeOK'
    BY <1>1, <1>2, <1>3, <1>6 DEF TypeOK, IndInv, Width
  <2>2. InputsAreSound' /\ NobodyPanics' /\ IntervalsAreApart' /\ AnswerIsSound'
    BY <1>1, <1>6 DEF IndInv, InputsAreSound, NobodyPanics, IntervalsAreApart, AnswerIsSound
  <2>3. ScanIsSound'
    <3>1. (Base + pointer' - 1) = Base + pointer
      BY <1>1, <1>2, <1>3
    <3>. QED  BY <1>1, <1>2, <1>3, <1>6, <3>1 DEF ScanIsSound
  <2>4. InOrder(response)'
    BY <1>1 DEF IndInv, InOrder
  <2>. QED  BY <2>1, <2>2, <2>3, <2>4 DEF IndInv
<1>7. CASE id \notin transactions
  <2>1. UNCHANGED <<left_border, new_intervals, pc>>
    BY <1>7 DEF Scan
  <2>2. \A x \in (Base + left_border)..(Base + pointer) :
           x = Base + pointer \/ x \in (Base + left_border)..(Base + pointer - 1)
    BY <1>2, <1>3, SMT
  <2>3. left_border <= pointer + 1
    BY <1>3
  <2> HIDE DEF id
  <2>. QED  BY <1>1, <1>3, <1>4, <1>5, <1>6, <1>7, <2>1, <2>2, <2>3
<1>8. CASE id \in transactions
  <2>1. left_border' = pointer + 1 /\ self_offset + 1 <= pointer + 1
    BY <1>2, <1>3, <1>8 DEF Scan
  <2>2. (Base + left_border')..(Base + pointer) = {}
    BY <1>2, <1>3, <2>1, SMT
  <2>3. ((Base + self_offset + 1)..(Base + left_border' - 1)) \ transactions
          = ((Base + self_offset + 1)..(Base + pointer - 1)) \ transactions
    <3>1. Base + left_border' - 1 = Base + pointer
      BY <1>2, <1>3, <2>1
    <3>2. (Base + self_offset + 1)..(Base + pointer)
            = ((Base + self_offset + 1)..(Base + pointer - 1)) \cup {Base + pointer}
      BY <1>2, <1>3, SMT
    <3> HIDE DEF id
    <3>. QED  BY <1>4, <1>8, <3>1, <3>2
  <2>4. CASE left_border < pointer
    <3>1. /\ new_intervals' = Append(new_intervals,
                               new_from_range_and_offsets(range, left_border, pointer - 1))
          /\ pc' = IF pointer - 1 < left_border THEN "panicked" ELSE "scan"
      BY <1>8, <2>4 DEF Scan, Push
    <3>2. /\ new_intervals' \in Seq(Interval) /\ Apart(new_intervals')
          /\ Covers(new_intervals')
               = ((Base + self_offset + 1)..(Base + pointer - 1)) \ transactions
          /\ \A i \in DOMAIN new_intervals' : new_intervals'[i].right + 1 < Base + pointer + 1
          /\ ~(pointer - 1 < left_border)
      BY <1>1, <2>4, <3>1, PushIsSound
    <3>3. /\ pc' = "scan" /\ Base + pointer + 1 = Base + left_border'
          /\ left_border' \in Nat /\ left_border' <= pointer + 1
      BY <1>2, <1>3, <2>1, <3>1, <3>2
    <3>. QED  BY <1>6, <2>1, <2>2, <2>3, <3>2, <3>3
  <2>5. CASE ~(left_border < pointer)
    <3>1. left_border = pointer /\ UNCHANGED <<new_intervals, pc>>
      BY <1>3, <1>8, <2>5 DEF Scan
    <3>2. \A i \in DOMAIN new_intervals : new_intervals[i].right + 1 < Base + left_border'
      <4> SUFFICES ASSUME NEW i \in DOMAIN new_intervals
                   PROVE  new_intervals[i].right + 1 < Base + left_border'
        OBVIOUS
      <4>1. new_intervals[i] \in Interval
        BY <1>3
      <4>. QED  BY <1>2, <1>3, <1>5, <2>1, <3>1, <4>1 DEF Interval
    <3>3. left_border' \in Nat /\ left_border' <= pointer + 1
      BY <1>3, <2>1
    <3>. QED  BY <1>1, <1>3, <1>5, <1>6, <2>1, <2>2, <2>3, <3>1, <3>2, <3>3
  <2>. QED  BY <2>4, <2>5
<1>. QED
  BY <1>7, <1>8

\* The end of the loop of self_delays: what was asked for is what is missing,
\* and nothing of it is below the first interval.
LEMMA EndOfScanKeeps == ASSUME IndInv, EndOfScan PROVE IndInv'
<1>1. /\ UNCHANGED <<range, self_offset, right_border, transactions, left_border, pointer, response>>
      /\ pc = "scan" /\ pointer > right_border
      /\ todo' = new_intervals'
      /\ id_pointer' = IF new_intervals' = <<>> THEN 0 ELSE new_intervals'[1].left
  BY DEF EndOfScan, Ask, input_vars
<1>2. /\ Base \in Nat /\ self_offset \in Int /\ -1 <= self_offset /\ right_border \in Nat
      /\ Width \in Nat /\ Base + right_border + 1 < Width
      /\ Missing = ((Base + self_offset + 1)..(Base + right_border)) \ transactions
      /\ Base' = Base /\ Missing' = Missing
  BY <1>1, Bounds, MissingIs DEF IndInv, Base, Missing
<1>3. /\ pointer = right_border + 1 /\ left_border \in Nat /\ left_border <= pointer
      /\ new_intervals \in Seq(Interval) /\ Apart(new_intervals) /\ response = <<>>
  BY <1>1, <1>2, SMT DEF IndInv, TypeOK, IntervalsAreApart, ScanIsSound
<1>4. /\ pc' = "answer"
      /\ new_intervals' \in Seq(Interval) /\ Apart(new_intervals')
      /\ Covers(new_intervals') = Missing
  <2>1. CASE pointer # left_border
    <3>1. /\ new_intervals' = Append(new_intervals,
                               new_from_range_and_offsets(range, left_border, pointer - 1))
          /\ pc' = IF pointer - 1 < left_border THEN "panicked" ELSE "answer"
      BY <2>1 DEF EndOfScan, Push
    <3>2. left_border < pointer /\ Base + pointer - 1 = Base + right_border
      BY <1>2, <1>3, <2>1
    <3>. QED  BY <1>1, <1>2, <3>1, <3>2, PushIsSound
  <2>2. CASE pointer = left_border
    <3>1. UNCHANGED new_intervals /\ pc' = "answer"
      BY <2>2 DEF EndOfScan
    <3>2. Base + left_border - 1 = Base + right_border
      BY <1>2, <1>3, <2>2
    <3>. QED  BY <1>1, <1>2, <1>3, <3>1, <3>2 DEF IndInv, ScanIsSound
  <2>. QED  BY <2>1, <2>2
<1> DEFINE new == new_intervals'
<1>5. ASSUME new # <<>>
      PROVE  /\ new[1].left \in Nat /\ new[1].left <= new[1].right + 1
             /\ new[1].left < Width
             /\ \A id \in Missing : id >= new[1].left
  <2>1. /\ new[1] \in Interval /\ Covers(new) = ids(new[1]) \cup Covers(Tail(new))
        /\ \A id \in Covers(new) : id >= new[1].left
    BY <1>4, <1>5, FirstOfApart
  <2>2. new[1].left <= new[1].right
    <3>1. 1 \in DOMAIN new
      BY <1>4, <1>5
    <3>. QED  BY <1>4, <3>1 DEF Apart
  <2>3. new[1].left \in Missing
    BY <1>4, <2>1, <2>2 DEF ids, Interval
  <2>. QED  BY <1>2, <1>4, <2>1, <2>2, <2>3 DEF Interval
<1>6. id_pointer' \in 0..(Width - 1)
  BY <1>1, <1>2, <1>5
<1>7. TypeOK'
  BY <1>1, <1>4, <1>6 DEF TypeOK, IndInv, Width
<1>8. /\ InputsAreSound' /\ NobodyPanics' /\ IntervalsAreApart' /\ ScanIsSound'
      /\ InOrder(response)'
  BY <1>1, <1>4 DEF IndInv, InputsAreSound, NobodyPanics, IntervalsAreApart, ScanIsSound, InOrder
<1>9. AnswerIsSound'
  <2>1. Range(response) = {}
    BY <1>3 DEF Range
  <2>2. new = <<>> => Missing = {}
    BY <1>4 DEF Covers
  <2>3. \A id \in Missing : id \in Int
    BY <1>2, SMT
  <2>4. new # <<>> => {id \in Missing : id < id_pointer'} = {}
    BY <1>1, <1>5, <2>3
  <2>. QED  BY <1>1, <1>2, <1>4, <1>5, <2>1, <2>2, <2>4 DEF AnswerIsSound, Covers
<1>. QED
  BY <1>7, <1>8, <1>9 DEF IndInv

-----------------------------------------------------------------------------
(***************************************************************************)
(* The loops of RequestMissingTxs.                                         *)
(***************************************************************************)

\* What is below the width does not wrap round.
LEMMA NoWrap ==
  ASSUME NEW W \in Nat, NEW x \in Nat, x < W
  PROVE  x % W = x
<1>1. W \in Nat \ {0}
  OBVIOUS
<1>2. /\ x \div W \in Nat /\ x % W \in 0..(W - 1)
      /\ x = W * (x \div W) + (x % W)
  BY <1>1, Euclidean
<1>3. x \in 0..(W - 1) /\ x = W * 0 + x
  BY <1>1, SMT
<1> DEFINE q == x \div W
           m == x % W
<1>4. q \in Int /\ 0 \in Int /\ m \in 0..(W - 1) /\ W * q + m = W * 0 + x
  BY <1>2, <1>3
<1> HIDE DEF q, m
<1>5. m = x
  BY <1>1, <1>3, <1>4, EuclideanUnique
<1>. QED
  BY <1>5 DEF m

\* What the first interval that is left covers is missing here and held there.
LEMMA FirstIsMissing ==
  ASSUME IndInv, pc = "answer", todo # <<>>
  PROVE  /\ todo[1] \in Interval /\ todo[1].left <= todo[1].right
         /\ \A id \in ids(todo[1]) : id \in Missing /\ id \in Held /\ id + 1 < Width
<1>1. /\ Base \in Nat /\ self_offset \in Int /\ -1 <= self_offset /\ right_border \in Nat
      /\ Width \in Nat /\ Base + right_border + 1 < Width
      /\ Missing = ((Base + self_offset + 1)..(Base + right_border)) \ transactions
  BY Bounds, MissingIs DEF IndInv
<1>2. todo \in Seq(Interval) /\ Apart(todo) /\ Covers(todo) \subseteq Missing
  BY DEF IndInv, TypeOK, AnswerIsSound
<1>3. todo[1] \in Interval /\ Covers(todo) = ids(todo[1]) \cup Covers(Tail(todo))
  BY <1>2, FirstOfApart
<1>4. todo[1].left <= todo[1].right
  <2>1. 1 \in DOMAIN todo
    BY <1>2
  <2>. QED  BY <1>2, <2>1 DEF Apart
<1>5. ASSUME NEW id \in ids(todo[1])
      PROVE  id \in Missing /\ id \in Held /\ id + 1 < Width
  <2>1. id \in Missing
    BY <1>2, <1>3
  <2>2. id \in Int /\ Base <= id /\ id <= Base + right_border
    BY <1>1, <2>1
  <2>3. id - Base \in 0..right_border /\ id = Base + (id - Base)
    BY <1>1, <2>2
  <2>4. id = unique_blob_id_from_range_and_offset(range, id - Base)
    BY <2>3 DEF unique_blob_id_from_range_and_offset, Base
  <2>5. id \in Held
    BY <2>3, <2>4 DEF Held
  <2>. QED  BY <1>1, <2>1, <2>2, <2>5
<1>. QED
  BY <1>3, <1>4, <1>5

\* A round of the inner loop: the id is held, and the next one fits.
LEMMA CollectKeeps == ASSUME IndInv, Collect PROVE IndInv'
<1>1. /\ UNCHANGED <<range, self_offset, right_border, transactions,
                     left_border, pointer, new_intervals, todo>>
      /\ pc = "answer" /\ todo # <<>> /\ id_pointer <= todo[1].right
  BY DEF Collect, Within, input_vars, scan_vars
<1>2. /\ todo[1] \in Interval
      /\ \A id \in ids(todo[1]) : id \in Missing /\ id \in Held /\ id + 1 < Width
  BY <1>1, FirstIsMissing
<1>3. /\ todo[1].left <= id_pointer /\ id_pointer \in Nat /\ response \in Seq(Nat)
      /\ Width \in Nat
      /\ Range(response) = {id \in Missing : id < id_pointer}
      /\ \A id \in Missing : id >= id_pointer => id \in Covers(todo)
      /\ \A id \in Missing : id \in Int
  <2>1. /\ todo[1].left <= id_pointer
        /\ Range(response) = {id \in Missing : id < id_pointer}
        /\ \A id \in Missing : id >= id_pointer => id \in Covers(todo)
    BY <1>1 DEF IndInv, AnswerIsSound
  <2>2. Width \in Nat /\ Base \in Nat /\ self_offset \in Int /\ right_border \in Nat
    BY Bounds DEF IndInv
  <2>3. id_pointer \in Nat /\ response \in Seq(Nat)
    BY <2>2 DEF IndInv, TypeOK
  <2>4. \A id \in Missing : id \in Int
    BY <2>2, MissingIs DEF IndInv
  <2>. QED  BY <2>1, <2>2, <2>3, <2>4
<1>4. id_pointer \in ids(todo[1])
  BY <1>1, <1>2, <1>3 DEF ids, Interval
<1>5. id_pointer \in Missing /\ id_pointer \in Held /\ id_pointer + 1 < Width
  BY <1>2, <1>4
<1>6. (id_pointer + 1) % Width = id_pointer + 1
  <2>1. id_pointer + 1 \in Nat
    BY <1>3
  <2>. QED  BY <1>3, <1>5, <2>1, NoWrap
<1>7. /\ response' = Append(response, id_pointer)
      /\ id_pointer' = id_pointer + 1 /\ pc' = "answer"
  BY <1>1, <1>3, <1>5, <1>6 DEF Collect
<1>8. /\ response' \in Seq(Nat) /\ Len(response) \in Nat
      /\ DOMAIN response = 1..Len(response)
      /\ DOMAIN response' = 1..(Len(response) + 1)
      /\ \A i \in 1..Len(response) : response'[i] = response[i] /\ response[i] \in Nat
      /\ response'[Len(response) + 1] = id_pointer
  BY <1>3, <1>7
<1>9. Range(response') = Range(response) \cup {id_pointer}
  <2>1. 1..(Len(response) + 1) = 1..Len(response) \cup {Len(response) + 1}
    BY <1>8, SMT
  <2>. QED  BY <1>8, <2>1 DEF Range
<1>10. Range(response') = {id \in Missing : id < id_pointer'}
  <2>1. \A id \in Missing : id < id_pointer' <=> id < id_pointer \/ id = id_pointer
    BY <1>3, <1>7
  <2>. QED  BY <1>3, <1>5, <1>9, <2>1
<1>11. InOrder(response')
  <2> SUFFICES ASSUME NEW i \in 1..(Len(response) + 1), NEW j \in 1..(Len(response) + 1), i < j
               PROVE  response'[i] < response'[j]
    BY <1>8 DEF InOrder
  <2>1. i \in 1..Len(response)
    BY <1>8
  <2>2. CASE j \in 1..Len(response)
    BY <1>8, <2>1, <2>2 DEF IndInv, InOrder
  <2>3. CASE j = Len(response) + 1
    <3>1. response[i] \in Range(response)
      BY <1>8, <2>1 DEF Range
    <3>. QED  BY <1>3, <1>8, <2>1, <2>3, <3>1
  <2>. QED  BY <1>8, <2>2, <2>3
<1>12. Missing' = Missing
  BY <1>1 DEF Missing
<1>13. TypeOK'
  BY <1>1, <1>3, <1>5, <1>7, <1>8 DEF TypeOK, IndInv, Width
<1>14. InputsAreSound' /\ NobodyPanics' /\ IntervalsAreApart' /\ ScanIsSound'
  BY <1>1, <1>7 DEF IndInv, InputsAreSound, NobodyPanics, IntervalsAreApart, ScanIsSound
<1>15. AnswerIsSound'
  <2>1. todo[1].left <= id_pointer' /\ id_pointer' <= todo[1].right + 1
    BY <1>1, <1>2, <1>3, <1>7 DEF Interval
  <2>2. \A id \in Missing : id >= id_pointer' => id \in Covers(todo)
    BY <1>3, <1>7
  <2>3. Covers(new_intervals) = Missing /\ Apart(todo) /\ Covers(todo) \subseteq Missing
    BY <1>1 DEF IndInv, AnswerIsSound
  <2>. QED  BY <1>1, <1>7, <1>10, <1>12, <2>1, <2>2, <2>3 DEF AnswerIsSound
<1>. QED
  BY <1>11, <1>13, <1>14, <1>15 DEF IndInv

\* The step to the next interval: nothing that is missing lies in between.
LEMMA NextIntervalKeeps == ASSUME IndInv, NextInterval PROVE IndInv'
<1>1. /\ UNCHANGED <<range, self_offset, right_border, transactions, pc,
                     left_border, pointer, new_intervals, response>>
      /\ pc = "answer" /\ todo # <<>> /\ ~(id_pointer <= todo[1].right)
      /\ todo' = Tail(todo)
      /\ id_pointer' = IF Len(todo) = 1 THEN 0 ELSE todo[2].left
  BY DEF NextInterval, Within, input_vars, scan_vars
<1>2. /\ todo \in Seq(Interval) /\ Apart(todo) /\ Covers(todo) \subseteq Missing
      /\ id_pointer \in Nat /\ id_pointer <= todo[1].right + 1
      /\ Range(response) = {id \in Missing : id < id_pointer}
      /\ \A id \in Missing : id >= id_pointer => id \in Covers(todo)
      /\ Covers(new_intervals) = Missing
  <2>1. id_pointer \in Nat
    <3>1. Width \in Nat
      BY Bounds DEF IndInv
    <3>. QED  BY <3>1 DEF IndInv, TypeOK
  <2>2. todo \in Seq(Interval)
    BY DEF IndInv, TypeOK
  <2>. QED  BY <1>1, <2>1, <2>2 DEF IndInv, AnswerIsSound
<1>3. /\ todo[1] \in Interval
      /\ Tail(todo) \in Seq(Interval) /\ Apart(Tail(todo))
      /\ Covers(todo) = ids(todo[1]) \cup Covers(Tail(todo))
      /\ Len(todo) = 1 => Tail(todo) = <<>>
      /\ Len(todo) # 1 => Tail(todo) # <<>> /\ Tail(todo)[1] = todo[2]
  BY <1>1, <1>2, FirstOfApart
<1>4. /\ \A id \in Missing : id \in Int
      /\ Width \in Nat /\ Base \in Nat /\ Base + right_border + 1 < Width /\ right_border \in Nat
      /\ \A id \in Missing : id <= Base + right_border
      /\ Missing' = Missing
  BY <1>1, Bounds, MissingIs DEF IndInv, Missing
<1>5. ASSUME NEW id \in Missing, id >= id_pointer
      PROVE  id \in Covers(Tail(todo))
  <2>1. id \notin ids(todo[1])
    <3>1. /\ id \in Int /\ todo[1].left \in Nat /\ todo[1].right \in Nat
          /\ ~(id_pointer <= todo[1].right)
      BY <1>1, <1>3, <1>4 DEF Interval
    <3>. QED  BY <1>2, <1>5, <3>1 DEF ids
  <2>. QED  BY <1>2, <1>3, <1>5, <2>1
<1> DEFINE rest == Tail(todo)
<1>6. CASE Len(todo) = 1
  <2>1. rest = <<>> /\ id_pointer' = 0 /\ Covers(rest) = {}
    BY <1>1, <1>3, <1>6 DEF Covers
  <2>2. Range(response) = Missing
    BY <1>2, <1>4, <1>5, <2>1
  <2>3. TypeOK'
    BY <1>1, <1>3, <1>4, <2>1 DEF TypeOK, IndInv, Width
  <2>4. AnswerIsSound'
    BY <1>1, <1>2, <1>3, <1>4, <2>1, <2>2 DEF AnswerIsSound
  <2>. QED
    BY <1>1, <2>3, <2>4
    DEF IndInv, InputsAreSound, NobodyPanics, IntervalsAreApart, ScanIsSound, InOrder
<1>7. CASE Len(todo) # 1
  <2>1. rest # <<>> /\ id_pointer' = rest[1].left
    BY <1>1, <1>3, <1>7
  <2>2. /\ rest[1] \in Interval
        /\ \A id \in Covers(rest) : id >= rest[1].left
        /\ Covers(rest) = ids(rest[1]) \cup Covers(Tail(rest))
    <3> HIDE DEF rest
    <3>. QED  BY <1>3, <2>1, FirstOfApart DEF rest
  <2>3. rest[1].left <= rest[1].right
    <3>1. 1 \in DOMAIN rest
      BY <1>3, <2>1
    <3> HIDE DEF rest
    <3>. QED  BY <1>3, <3>1 DEF Apart, rest
  <2>4. rest[1].left \in Covers(rest) /\ rest[1].left \in Missing
    <3> HIDE DEF rest
    <3>1. rest[1].left \in ids(rest[1])
      BY <2>2, <2>3 DEF ids, Interval
    <3>2. Covers(rest) \subseteq Missing
      BY <1>2, <1>3 DEF rest
    <3>. QED  BY <2>2, <3>1, <3>2
  <2>5. rest[1].left > todo[1].right + 1
    BY <1>1, <1>2, <2>4, FirstOfApart
  <2>6. id_pointer' \in Nat /\ id_pointer <= id_pointer'
    <3>1. todo[1].right \in Nat /\ rest[1].left \in Nat
      BY <1>3, <2>2 DEF Interval
    <3> HIDE DEF rest
    <3>. QED  BY <1>2, <2>1, <2>5, <3>1
  <2>7. {id \in Missing : id < id_pointer'} = {id \in Missing : id < id_pointer}
    <3>1. ASSUME NEW id \in Missing
          PROVE  id < id_pointer' <=> id < id_pointer
      <4>1. id \in Int /\ id_pointer' \in Nat /\ id_pointer <= id_pointer'
        BY <1>4, <2>6
      <4>2. id >= id_pointer => id >= id_pointer'
        BY <1>5, <2>1, <2>2
      <4>. QED  BY <1>2, <4>1, <4>2
    <3>. QED  BY <3>1
  <2>8. \A id \in Missing : id >= id_pointer' => id \in Covers(rest)
    BY <1>2, <1>4, <1>5, <2>6
  <2>9. id_pointer' \in 0..(Width - 1)
    BY <1>4, <2>1, <2>2, <2>4 DEF Interval
  <2>10. TypeOK'
    BY <1>1, <1>3, <2>9 DEF TypeOK, IndInv, Width
  <2>11. rest[1].left <= id_pointer' /\ id_pointer' <= rest[1].right + 1
    BY <2>1, <2>2, <2>3 DEF Interval
  <2>12. AnswerIsSound'
    BY <1>1, <1>2, <1>3, <1>4, <2>1, <2>7, <2>8, <2>11 DEF AnswerIsSound
  <2>. QED
    BY <1>1, <2>10, <2>12
    DEF IndInv, InputsAreSound, NobodyPanics, IntervalsAreApart, ScanIsSound, InOrder
<1>. QED
  BY <1>6, <1>7

-----------------------------------------------------------------------------
(***************************************************************************)
(* Theorems.                                                               *)
(***************************************************************************)

\* Before the first round nothing has been dealt with.
LEMMA IndInvInit == Init => IndInv
<1> SUFFICES ASSUME Init PROVE IndInv
  OBVIOUS
<1> USE DEF Init
<1>1. InputsAreSound
  <2>1. transactions \subseteq UniqueBlobId
    BY DEF Offsets
  <2>. QED  BY <2>1 DEF InputsAreSound, Offsets
<1>2. /\ Base \in Nat /\ self_offset \in Int /\ right_border \in Nat
      /\ self_offset < right_border /\ Width \in Nat /\ Base + right_border + 1 < Width
  BY <1>1, Bounds
<1>3. TypeOK
  <2>1. /\ pointer \in (self_offset + 1)..(right_border + 1)
        /\ left_border \in (self_offset + 1)..pointer
        /\ id_pointer \in 0..(Width - 1)
    BY <1>2
  <2>. QED  BY <1>1, <2>1 DEF TypeOK, InputsAreSound
<1>4. NobodyPanics /\ IntervalsAreApart /\ AnswerIsSound /\ InOrder(response)
  BY DEF NobodyPanics, IntervalsAreApart, Apart, AnswerIsSound, InOrder
<1>5. ScanIsSound
  <2>1. Covers(new_intervals) = {}
    BY DEF Covers
  <2>2. /\ (Base + self_offset + 1)..(Base + left_border - 1) = {}
        /\ (Base + left_border)..(Base + pointer - 1) = {}
    BY <1>2
  <2>. QED  BY <2>1, <2>2 DEF ScanIsSound
<1>. QED
  BY <1>1, <1>3, <1>4, <1>5 DEF IndInv

\* Every round of either loop keeps the invariant.
LEMMA IndInvStep == IndInv /\ [Next]_vars => IndInv'
<1> SUFFICES ASSUME IndInv, [Next]_vars PROVE IndInv'
  OBVIOUS
<1>1. CASE EndOfAnswer
  <2>1. /\ UNCHANGED <<range, self_offset, right_border, transactions, left_border, pointer,
                       new_intervals, todo, id_pointer, response>>
        /\ pc = "answer" /\ todo = <<>> /\ pc' = "done"
    BY <1>1 DEF EndOfAnswer, input_vars, scan_vars, peer_vars
  <2>2. TypeOK' /\ InputsAreSound' /\ NobodyPanics' /\ IntervalsAreApart'
    BY <2>1 DEF IndInv, TypeOK, InputsAreSound, NobodyPanics, IntervalsAreApart, Width
  <2>3. ScanIsSound' /\ AnswerIsSound' /\ InOrder(response)'
    BY <2>1 DEF IndInv, ScanIsSound, AnswerIsSound, InOrder, Missing
  <2>. QED  BY <2>2, <2>3 DEF IndInv
<1>2. CASE UNCHANGED vars
  <2>1. UNCHANGED <<range, self_offset, right_border, transactions, pc, left_border, pointer,
                    new_intervals, todo, id_pointer, response>>
    BY <1>2 DEF vars, input_vars, scan_vars, peer_vars
  <2>2. TypeOK' /\ InputsAreSound' /\ NobodyPanics' /\ IntervalsAreApart'
    BY <2>1 DEF IndInv, TypeOK, InputsAreSound, NobodyPanics, IntervalsAreApart, Width
  <2>3. ScanIsSound' /\ AnswerIsSound' /\ InOrder(response)'
    BY <2>1 DEF IndInv, ScanIsSound, AnswerIsSound, InOrder, Missing, Base
  <2>. QED  BY <2>2, <2>3 DEF IndInv
<1>. QED
  BY <1>1, <1>2, ScanKeeps, EndOfScanKeeps, CollectKeeps, NextIntervalKeeps DEF Next

\* Both loops keep their variables within the range and below the width.
THEOREM TypeCorrect == Spec => []TypeOK
  BY IndInvInit, IndInvStep, PTL DEF Spec, IndInv

\* A node asks for exactly what it lacks, whatever it holds (self_delays).
THEOREM AskedIsMissing == Spec => []IntervalsAreMissing
<1>1. IndInv => IntervalsAreMissing
  BY DEF IndInv, AnswerIsSound, IntervalsAreMissing
<1>. QED
  BY IndInvInit, IndInvStep, <1>1, PTL DEF Spec

\* It asks in as few intervals as there can be, in order (self_delays).
THEOREM AskedIsApart == Spec => []IntervalsAreApart
  BY IndInvInit, IndInvStep, PTL DEF Spec, IndInv

\* Neither loop panics or hangs, at the end of the range and of all ranges
\* included (self_delays, RequestMissingTxs).
THEOREM LoopsAreSafe == Spec => []NobodyPanics
  BY IndInvInit, IndInvStep, PTL DEF Spec, IndInv

\* The answer holds exactly what is missing, once and in order
\* (RequestMissingTxs).
THEOREM AnswersAreExact == Spec => []AnswerIsExact
<1>1. IndInv => AnswerIsExact
  BY DEF IndInv, AnswerIsSound, AnswerIsExact, InOrder
<1>. QED
  BY IndInvInit, IndInvStep, <1>1, PTL DEF Spec
=============================================================================
