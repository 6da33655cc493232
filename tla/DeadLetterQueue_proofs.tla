----------------------- MODULE DeadLetterQueue_proofs -----------------------
(***************************************************************************)
(* The dead-letter view and its books, for any number of publishes, any    *)
(* capacity, threshold, page size and subjects cap.                        *)
(***************************************************************************)
EXTENDS DeadLetterQueue, SequenceTheorems, FiniteSetTheorems, FunctionTheorems, TLAPS

(* Only acknowledged publishes are in the view or in a walk.               *)
Settled ==
  /\ \A i \in 1..Len(queue) : pc[queue[i]] \in {"done", "failed"} /\ queue[i] \in durable
  /\ \A j \in 1..Len(seen) : pc[seen[j]] \in {"done", "failed"} /\ seen[j] \in durable

(* The view has no entry twice, and what a walk has read of it lies before *)
(* the offset the walk has reached: appends and evictions only move        *)
(* entries towards the front.                                              *)
BehindTheOffset ==
  /\ \A i, j \in 1..Len(queue) : queue[i] = queue[j] => i = j
  /\ \A i \in 1..Len(queue), j \in 1..Len(seen) : queue[i] = seen[j] => i =< Len(seen)

ViewInv == TypeOK /\ Settled /\ BehindTheOffset /\ WalkNeverRepeats

(* What the metrics say about the view.                                    *)
Books == DepthGaugeExact /\ Conservation

-----------------------------------------------------------------------------
(***************************************************************************)
(* Sequences                                                               *)
(***************************************************************************)

(* Push keeps the capacity: the new entry is last, the others keep their   *)
(* place or move up by one.                                                *)
LEMMA PushShape ==
  ASSUME queue \in Seq(Requests), Len(queue) =< Capacity, NEW r \in Requests
  PROVE  /\ Push(r) \in Seq(Requests) /\ Len(Push(r)) =< Capacity
         /\ Len(queue) = Capacity => Len(Push(r)) = Len(queue)
         /\ Len(queue) # Capacity => Len(Push(r)) = Len(queue) + 1
         /\ Push(r)[Len(Push(r))] = r
         /\ \A i \in 1..Len(Push(r)) : i # Len(Push(r)) =>
              \E k \in 1..Len(queue) :
                /\ k = IF Len(queue) = Capacity THEN i + 1 ELSE i
                /\ Push(r)[i] = queue[k]
<1>1. Capacity \in Nat /\ Capacity > 0 /\ Len(queue) \in Nat
  BY SizesAssumption, LenProperties
<1>2. CASE Len(queue) = Capacity
  <2>1. /\ Tail(queue) \in Seq(Requests) /\ Len(Tail(queue)) = Capacity - 1
        /\ \A i \in 1..Len(Tail(queue)) : Tail(queue)[i] = queue[i + 1]
    BY <1>1, <1>2
  <2>2. QED
    BY <1>1, <1>2, <2>1 DEF Push
<1>3. CASE Len(queue) # Capacity
  BY <1>1, <1>3 DEF Push
<1>4. QED
  BY <1>2, <1>3

(* A page read at the end of the walk is the next stretch of the view.     *)
LEMMA PageShape ==
  ASSUME queue \in Seq(Requests), seen \in Seq(Requests), NEW limit \in (-PageMax)..PageMax
  PROVE  LET p == Page(Len(seen), limit)
         IN  /\ p \in Seq(Requests)
             /\ \A k \in 1..Len(p) : /\ Len(seen) + k \in 1..Len(queue)
                                     /\ p[k] = queue[Len(seen) + k]
<1> DEFINE n == Len(queue)
           from == Position(Len(seen), n) + 1
           to == Position(Len(seen) + limit, n)
<1>1. n \in Nat /\ Len(seen) \in Nat /\ limit \in Int
  BY SizesAssumption, LenProperties
<1>2. /\ from \in Nat /\ to \in Nat /\ from >= 1 /\ to =< n
      /\ Len(seen) =< n => from = Len(seen) + 1
      /\ Len(seen) > n => to < from
  BY <1>1 DEF Position
<1>3. Page(Len(seen), limit) = SubSeq(queue, from, to)
  BY DEF Page, Slice
<1> HIDE DEF n, from, to
<1>4. /\ SubSeq(queue, from, to) \in Seq(Requests)
      /\ Len(SubSeq(queue, from, to)) = IF from =< to THEN to - from + 1 ELSE 0
      /\ \A k \in 1..(to - from + 1) : SubSeq(queue, from, to)[k] = queue[from + k - 1]
  BY <1>1, <1>2, SubSeqProperties DEF n
<1>5. ASSUME NEW k \in 1..Len(SubSeq(queue, from, to))
      PROVE  /\ Len(seen) + k \in 1..Len(queue)
             /\ SubSeq(queue, from, to)[k] = queue[Len(seen) + k]
  <2>1. from =< to /\ k \in 1..(to - from + 1)
    BY <1>1, <1>2, <1>4, <1>5
  <2>2. from = Len(seen) + 1
    BY <1>1, <1>2, <2>1
  <2>3. QED
    BY <1>1, <1>2, <1>4, <2>1, <2>2 DEF n
<1>6. QED
  BY <1>3, <1>4, <1>5

LEMMA TouchType ==
  ASSUME active \in Seq(Subjects), maxSubjects \in Nat, NEW s \in Subjects, Trackable(s)
  PROVE  Touch(s) \in Seq(Subjects)
<1>1. CASE s \in Elements(active)
  <2> DEFINE i == CHOOSE i \in 1..Len(active) : active[i] = s
  <2>1. i \in 1..Len(active)
    BY <1>1 DEF Elements
  <2>2. /\ SubSeq(active, 1, i - 1) \in Seq(Subjects)
        /\ SubSeq(active, i + 1, Len(active)) \in Seq(Subjects)
    <3> HIDE DEF i
    <3>1. \A k \in 1..Len(active) : active[k] \in Subjects
      BY ElementOfSeq
    <3>2. QED
      BY <2>1, <3>1, SubSeqProperties, LenProperties
  <2>3. Without(s) \in Seq(Subjects)
    BY <2>2, ConcatProperties DEF Without
  <2>4. QED
    BY <1>1, <2>3 DEF Touch
<1>2. CASE s \notin Elements(active)
  <2>1. active # <<>> => Tail(active) \in Seq(Subjects)
    OBVIOUS
  <2>2. Len(active) >= maxSubjects => active # <<>>
    BY <1>2 DEF Trackable
  <2>3. QED
    BY <1>2, <2>1, <2>2 DEF Touch
<1>3. QED
  BY <1>1, <1>2

(* With room for a subject, _track_subject never raises.                   *)
LEMMA AlwaysTrackable ==
  ASSUME maxSubjects > 0, TypeOK, NEW s
  PROVE  Trackable(s)
BY SizesAssumption DEF TypeOK, Trackable

-----------------------------------------------------------------------------
(***************************************************************************)
(* The view                                                                *)
(***************************************************************************)

(* Appending an acknowledged publish, with or without an eviction.         *)
LEMMA AppendKeepsView ==
  ASSUME ViewInv, NEW r \in Requests, Acked(r), queue' = Push(r),
         NEW w \in {"done", "failed"}, pc' = [pc EXCEPT ![r] = w],
         UNCHANGED <<durable, seen>>
  PROVE  Settled' /\ BehindTheOffset' /\ WalkNeverRepeats'
<1> DEFINE q == Push(r)
<1>1. /\ queue \in Seq(Requests) /\ Len(queue) \in Nat /\ Len(seen) \in Nat
      /\ Len(queue) =< Capacity
      /\ \A i \in 1..Len(queue) : queue[i] \in Requests
      /\ \A j \in 1..Len(seen) : seen[j] \in Requests
  BY DEF ViewInv, TypeOK
<1>2. /\ Len(q) \in Nat /\ q[Len(q)] = r
      /\ \A i \in 1..Len(q) : i # Len(q) =>
           \E k \in 1..Len(queue) :
             /\ k = IF Len(queue) = Capacity THEN i + 1 ELSE i
             /\ q[i] = queue[k]
  <2>1. q \in Seq(Requests) /\ Len(q) \in Nat
    BY <1>1, PushShape, LenProperties
  <2>2. QED
    BY <1>1, <2>1, PushShape
<1> HIDE DEF q
<1>3. /\ \A i \in 1..Len(queue) : queue[i] # r
      /\ \A j \in 1..Len(seen) : seen[j] # r
  BY DEF ViewInv, Settled, Acked
<1>4. Settled'
  <2>1. ASSUME NEW i \in 1..Len(q)
        PROVE  pc'[q[i]] \in {"done", "failed"} /\ q[i] \in durable
    <3>1. CASE i = Len(q)
      BY <1>2, <3>1 DEF ViewInv, TypeOK, Acked
    <3>2. CASE i # Len(q)
      BY <1>1, <1>2, <1>3, <3>2 DEF ViewInv, TypeOK, Settled
    <3>3. QED
      BY <3>1, <3>2
  <2>2. \A j \in 1..Len(seen) : pc'[seen[j]] \in {"done", "failed"} /\ seen[j] \in durable
    BY <1>1, <1>3 DEF ViewInv, TypeOK, Settled
  <2>3. QED
    BY <2>1, <2>2 DEF Settled, q
<1>5. ASSUME NEW i \in 1..Len(q), NEW j \in 1..Len(q), q[i] = q[j]
      PROVE  i = j
  <2>1. CASE i = Len(q) \/ j = Len(q)
    BY <1>2, <1>3, <1>5, <2>1
  <2>2. CASE i # Len(q) /\ j # Len(q)
    <3>1. PICK k \in 1..Len(queue) :
            (k = IF Len(queue) = Capacity THEN i + 1 ELSE i) /\ q[i] = queue[k]
      BY <1>2, <2>2
    <3>2. PICK m \in 1..Len(queue) :
            (m = IF Len(queue) = Capacity THEN j + 1 ELSE j) /\ q[j] = queue[m]
      BY <1>2, <2>2
    <3>3. k = m
      BY <1>5, <3>1, <3>2 DEF ViewInv, BehindTheOffset
    <3>4. QED
      BY <3>1, <3>2, <3>3
  <2>3. QED
    BY <2>1, <2>2
<1>6. ASSUME NEW i \in 1..Len(q), NEW j \in 1..Len(seen), q[i] = seen[j]
      PROVE  i =< Len(seen)
  <2>1. i # Len(q)
    BY <1>2, <1>3, <1>6
  <2>2. PICK k \in 1..Len(queue) :
          (k = IF Len(queue) = Capacity THEN i + 1 ELSE i) /\ q[i] = queue[k]
    BY <1>2, <2>1
  <2>3. k =< Len(seen)
    BY <1>6, <2>2 DEF ViewInv, BehindTheOffset
  <2>4. QED
    BY <1>1, <2>2, <2>3
<1>7. BehindTheOffset'
  BY <1>5, <1>6 DEF BehindTheOffset, q
<1>8. QED
  BY <1>4, <1>7 DEF ViewInv, WalkNeverRepeats

(* Reading the next page.                                                  *)
LEMMA WalkKeepsView ==
  ASSUME ViewInv, NEW limit \in (-PageMax)..PageMax, Walk(limit)
  PROVE  seen' \in Seq(Requests) /\ Settled' /\ BehindTheOffset' /\ WalkNeverRepeats'
<1> DEFINE p == Page(Len(seen), limit)
<1>1. /\ queue \in Seq(Requests) /\ seen \in Seq(Requests)
      /\ Len(queue) \in Nat /\ Len(seen) \in Nat
      /\ UNCHANGED <<queue, pc, durable>>
  BY DEF ViewInv, TypeOK, Walk, publishVars, queueVars
<1>2. /\ p \in Seq(Requests)
      /\ \A k \in 1..Len(p) : Len(seen) + k \in 1..Len(queue) /\ p[k] = queue[Len(seen) + k]
  BY <1>1, PageShape
<1>3. seen' = IF p = <<>> THEN <<>> ELSE seen \o p
  BY DEF Walk
<1> HIDE DEF p
<1>4. CASE p = <<>>
  BY <1>1, <1>3, <1>4
  DEF ViewInv, Settled, BehindTheOffset, WalkNeverRepeats
<1>5. CASE p # <<>>
  <2>1. /\ seen' \in Seq(Requests) /\ Len(p) \in Nat
        /\ Len(seen') = Len(seen) + Len(p)
        /\ \A j \in 1..Len(seen) : seen'[j] = seen[j]
        /\ \A j \in 1..Len(seen') : j \notin 1..Len(seen) =>
             j \in 1..Len(queue) /\ seen'[j] = queue[j]
    <3>1. seen' = seen \o p
      BY <1>3, <1>5
    <3>2. /\ seen' \in Seq(Requests) /\ Len(p) \in Nat /\ Len(seen') = Len(seen) + Len(p)
          /\ \A j \in 1..Len(seen') : seen'[j] = IF j =< Len(seen) THEN seen[j] ELSE p[j - Len(seen)]
      BY <1>1, <1>2, <3>1
    <3>3. ASSUME NEW j \in 1..Len(seen'), j \notin 1..Len(seen)
          PROVE  j \in 1..Len(queue) /\ seen'[j] = queue[j]
      <4>1. j - Len(seen) \in 1..Len(p) /\ Len(seen) + (j - Len(seen)) = j /\ ~(j =< Len(seen))
        BY <1>1, <3>2, <3>3
      <4>2. QED
        BY <1>2, <3>2, <4>1
    <3>4. QED
      BY <1>1, <3>2, <3>3
  <2>2. Settled'
    BY <1>1, <2>1 DEF ViewInv, Settled
  <2>3. BehindTheOffset'
    <3>1. ASSUME NEW i \in 1..Len(queue), NEW j \in 1..Len(seen'), queue[i] = seen'[j]
          PROVE  i =< Len(seen')
      <4>1. CASE j \in 1..Len(seen)
        BY <1>1, <2>1, <3>1, <4>1 DEF ViewInv, BehindTheOffset
      <4>2. CASE j \notin 1..Len(seen)
        <5>1. i = j
          BY <2>1, <3>1, <4>2 DEF ViewInv, BehindTheOffset
        <5>2. QED
          BY <1>1, <2>1, <5>1
      <4>3. QED
        BY <4>1, <4>2
    <3>2. QED
      BY <1>1, <3>1 DEF ViewInv, BehindTheOffset
  <2>4. WalkNeverRepeats'
    <3>1. ASSUME NEW i \in 1..Len(seen'), NEW j \in 1..Len(seen'), seen'[i] = seen'[j]
          PROVE  i = j
      <4>1. CASE i \in 1..Len(seen) /\ j \in 1..Len(seen)
        BY <2>1, <3>1, <4>1 DEF ViewInv, WalkNeverRepeats
      <4>2. CASE i \notin 1..Len(seen) /\ j \notin 1..Len(seen)
        BY <2>1, <3>1, <4>2 DEF ViewInv, BehindTheOffset
      <4>3. CASE i \in 1..Len(seen) /\ j \notin 1..Len(seen)
        <5>1. j =< Len(seen)
          BY <2>1, <3>1, <4>3 DEF ViewInv, BehindTheOffset
        <5>2. QED
          BY <1>1, <2>1, <4>3, <5>1
      <4>4. CASE i \notin 1..Len(seen) /\ j \in 1..Len(seen)
        <5>1. i =< Len(seen)
          BY <2>1, <3>1, <4>4 DEF ViewInv, BehindTheOffset
        <5>2. QED
          BY <1>1, <2>1, <4>4, <5>1
      <4>5. QED
        BY <4>1, <4>2, <4>3, <4>4
    <3>2. QED
      BY <3>1 DEF WalkNeverRepeats
  <2>5. QED
    BY <2>1, <2>2, <2>3, <2>4
<1>6. QED
  BY <1>4, <1>5

(* A step that leaves the view and the walk alone.                         *)
LEMMA OtherKeepsView ==
  ASSUME ViewInv, UNCHANGED <<queue, seen>>, durable \subseteq durable',
         \A r \in Requests : pc[r] \in {"done", "failed"} => pc'[r] = pc[r]
  PROVE  Settled' /\ BehindTheOffset' /\ WalkNeverRepeats'
<1>1. /\ \A i \in 1..Len(queue) : queue[i] \in Requests
      /\ \A j \in 1..Len(seen) : seen[j] \in Requests
  BY DEF ViewInv, TypeOK
<1>2. QED
  BY <1>1 DEF ViewInv, Settled, BehindTheOffset, WalkNeverRepeats

-----------------------------------------------------------------------------
LEMMA InitInv == Init => ViewInv /\ Books
<1> SUFFICES ASSUME Init PROVE ViewInv /\ Books
  OBVIOUS
<1>1. TypeOK
  BY SizesAssumption DEF Init, TypeOK
<1>2. QED
  BY <1>1
  DEF Init, ViewInv, Settled, BehindTheOffset, WalkNeverRepeats, Books, DepthGaugeExact,
      Conservation

LEMMA NextViewInv == ViewInv /\ [Next]_vars => ViewInv'
<1> SUFFICES ASSUME ViewInv, [Next]_vars PROVE ViewInv'
  OBVIOUS
<1> USE DEF publishVars, queueVars, activeVars
<1>1. ASSUME NEW r \in Requests, Send(r) \/ Fail(r) PROVE ViewInv'
  <2>1. TypeOK'
    BY <1>1 DEF Send, Fail, ViewInv, TypeOK
  <2>2. QED
    BY <1>1, <2>1, OtherKeepsView DEF Send, Fail, ViewInv, TypeOK
<1>2. ASSUME NEW r \in Requests, PublishKnown(r) PROVE ViewInv'
  <2>1. active' \in Seq(Subjects) /\ Len(active') \in Nat /\ history' \in Seq(Subjects)
    BY <1>2, TouchType, LenProperties, SizesAssumption DEF PublishKnown, Track, ViewInv, TypeOK
  <2>2. TypeOK'
    BY <1>2, <2>1 DEF PublishKnown, Track, Finish, ViewInv, TypeOK
  <2>3. QED
    BY <1>2, <2>2, OtherKeepsView DEF PublishKnown, Finish, Acked, ViewInv, TypeOK
<1>3. ASSUME NEW r \in Requests, DeadLetter(r) PROVE ViewInv'
  <2>1. active' \in Seq(Subjects) /\ Len(active') \in Nat /\ history' \in Seq(Subjects)
    BY <1>3, TouchType, LenProperties, SizesAssumption DEF DeadLetter, Track, ViewInv, TypeOK
  <2>2. queue' \in Seq(Requests) /\ Len(queue') \in Nat /\ Len(queue') =< Capacity
    BY <1>3, PushShape, LenProperties DEF DeadLetter, ViewInv, TypeOK
  <2>3. evictions' \in Nat /\ alerts' \in Nat
    BY <1>3 DEF DeadLetter, CountEviction, Alert, ViewInv, TypeOK
  <2>4. TypeOK'
    BY <1>3, <2>1, <2>2, <2>3 DEF DeadLetter, Track, Finish, ViewInv, TypeOK
  <2>5. QED
    BY <1>3, <2>4, AppendKeepsView DEF DeadLetter, Finish, ViewInv
<1>4. ASSUME NEW r \in Requests, TrackRaises(r) PROVE ViewInv'
  <2>1. CASE subject[r] \in KnownSubjects
    <3>1. UNCHANGED <<queue, deadLetters>>
      BY <1>4, <2>1, SubjectsAssumption DEF TrackRaises
    <3>2. TypeOK'
      BY <1>4, <3>1 DEF TrackRaises, Raise, ViewInv, TypeOK
    <3>3. QED
      BY <1>4, <3>1, <3>2, OtherKeepsView DEF TrackRaises, Raise, Acked, ViewInv, TypeOK
  <2>2. CASE subject[r] \in DeadSubjects
    <3>1. queue' = Push(r) /\ deadLetters' = deadLetters + 1
      BY <1>4, <2>2, SubjectsAssumption DEF TrackRaises, ViewInv, TypeOK
    <3>2. queue' \in Seq(Requests) /\ Len(queue') =< Capacity
      BY <3>1, PushShape DEF ViewInv, TypeOK
    <3>3. TypeOK'
      BY <1>4, <3>1, <3>2 DEF TrackRaises, Raise, ViewInv, TypeOK
    <3>4. QED
      BY <1>4, <3>1, <3>3, AppendKeepsView DEF TrackRaises, Raise, ViewInv
  <2>3. QED
    BY <1>4, <2>1, <2>2 DEF TrackRaises
<1>5. CASE Drain
  <2>1. TypeOK'
    BY <1>5, SizesAssumption DEF Drain, ViewInv, TypeOK
  <2>2. QED
    BY <1>5, <2>1 DEF Drain, ViewInv, Settled, BehindTheOffset, WalkNeverRepeats
<1>6. ASSUME NEW limit \in (-PageMax)..PageMax, Walk(limit) PROVE ViewInv'
  <2>1. seen' \in Seq(Requests) /\ Settled' /\ BehindTheOffset' /\ WalkNeverRepeats'
    BY <1>6, WalkKeepsView
  <2>2. TypeOK'
    BY <1>6, <2>1 DEF Walk, ViewInv, TypeOK
  <2>3. QED
    BY <2>1, <2>2 DEF ViewInv
<1>7. CASE UNCHANGED vars
  BY <1>7 DEF vars, ViewInv, TypeOK, Settled, BehindTheOffset, WalkNeverRepeats
<1>8. QED
  BY <1>1, <1>2, <1>3, <1>4, <1>5, <1>6, <1>7 DEF Next

(* As long as a subject can be tracked, the books stay balanced.           *)
LEMMA NextBooks == TypeOK /\ Books /\ [Next]_vars => Books'
<1> SUFFICES ASSUME TypeOK, Books, [Next]_vars PROVE Books'
  OBVIOUS
<1> USE DEF publishVars, queueVars, activeVars, Books, DepthGaugeExact, Conservation
<1>1. ASSUME NEW r \in Requests, Send(r) \/ Fail(r) \/ PublishKnown(r) PROVE Books'
  BY <1>1 DEF Send, Fail, PublishKnown, Track
<1>2. ASSUME NEW r \in Requests, DeadLetter(r) PROVE Books'
  <2>1. /\ Len(queue) \in Nat /\ Len(queue) =< Capacity /\ AlertAt =< Capacity
        /\ AlertAt \in Nat /\ Capacity \in Nat /\ deadLetters \in Nat /\ evictions \in Nat
        /\ alerts \in Nat /\ drained \in Nat
    BY SizesAssumption, LenProperties DEF TypeOK
  <2>2. Len(queue') = IF Len(queue) = Capacity THEN Capacity ELSE Len(queue) + 1
    BY <1>2, PushShape DEF DeadLetter, TypeOK
  <2>3. /\ deadLetters' = deadLetters + 1 /\ drained' = drained
        /\ maxSubjects' = maxSubjects
        /\ depthGauge' = Len(queue')
        /\ evictions' = IF Len(queue) = Capacity THEN evictions + 1 ELSE evictions
        /\ alerts' = IF Len(queue') >= AlertAt THEN alerts + 1 ELSE alerts
    BY <1>2 DEF DeadLetter, CountEviction, Alert, Track
  <2>4. QED
    BY <2>1, <2>2, <2>3
<1>3. ASSUME NEW r \in Requests, TrackRaises(r) PROVE Books'
  <2>1. ~(maxSubjects > 0) /\ UNCHANGED <<maxSubjects, evictions, alerts, depthGauge, drained>>
    BY <1>3, AlwaysTrackable DEF TrackRaises
  <2>2. /\ Len(queue) \in Nat /\ Capacity \in Nat /\ deadLetters \in Nat
        /\ evictions \in Nat /\ drained \in Nat /\ depthGauge \in Nat
    BY SizesAssumption, LenProperties DEF TypeOK
  <2>3. CASE UNCHANGED <<queue, deadLetters>>
    BY <2>1, <2>3
  <2>4. CASE queue' = Push(r) /\ deadLetters' = deadLetters + 1
    <3>1. Len(queue') = IF Len(queue) = Capacity THEN Capacity ELSE Len(queue) + 1
      BY <2>4, PushShape DEF TypeOK
    <3>2. QED
      BY <2>1, <2>2, <2>4, <3>1
  <2>5. QED
    BY <1>3, <2>3, <2>4 DEF TrackRaises
<1>4. CASE Drain
  BY <1>4, LenProperties DEF Drain, TypeOK
<1>5. ASSUME NEW limit \in (-PageMax)..PageMax, Walk(limit) PROVE Books'
  BY <1>5 DEF Walk
<1>6. CASE UNCHANGED vars
  BY <1>6 DEF vars
<1>7. QED
  BY <1>1, <1>2, <1>3, <1>4, <1>5, <1>6 DEF Next

LEMMA ViewInvariance == Spec => []ViewInv
BY InitInv, NextViewInv, PTL DEF Spec

-----------------------------------------------------------------------------
(***************************************************************************)
(* Theorems                                                                *)
(***************************************************************************)

(* Every variable keeps its type; the deque never outgrows its capacity.   *)
THEOREM TypeCorrect == Spec => []TypeOK
BY ViewInvariance, PTL DEF ViewInv

(* The in-memory view never holds an event JetStream has not stored.       *)
THEOREM ViewBehindJetStream == Spec => []ViewIsDurable
<1>1. ViewInv => ViewIsDurable
  BY DEF ViewInv, Settled, ViewIsDurable, Elements
<1>2. QED
  BY <1>1, ViewInvariance, PTL

(* No walk over the pages reads an entry twice, whatever is appended,      *)
(* evicted and drained while it goes on.                                   *)
THEOREM NoEntryTwice == Spec => []WalkNeverRepeats
BY ViewInvariance, PTL DEF ViewInv

LEMMA BooksInvariance == Spec => [](TypeOK /\ Books)
<1>1. Init => Books
  BY InitInv
<1>2. TypeOK /\ Books /\ [Next]_vars => Books'
  BY NextBooks
<1>3. QED
  BY <1>1, <1>2, TypeCorrect, PTL DEF Spec

(* The depth gauge is the length of the queue, if at least one subject may *)
(* be tracked, and never more.                                             *)
THEOREM GaugeIsDepth == Spec => []DepthGaugeExact
BY BooksInvariance, PTL DEF Books

(* Under the same condition every dead letter is in view, counted as       *)
(* evicted, or was reported as drained.                                    *)
THEOREM NothingUnaccounted == Spec => []Conservation
BY BooksInvariance, PTL DEF Books

-----------------------------------------------------------------------------
(***************************************************************************)
(* The LRU of active subjects                                              *)
(***************************************************************************)

(* t was used after the last use of s, as far as the history h goes.       *)
UsedIn(h, t, s) ==
  \E j \in 1..Len(h) : h[j] = t /\ \A i \in j..Len(h) : h[i] # s

(* What makes the list an LRU: it is in order of last use, and whatever    *)
(* was used and is not in it was last used before all that is.             *)
LruInv ==
  /\ Len(active) =< maxSubjects /\ activeGauge = Len(active)
  /\ \A i, j \in 1..Len(active) : active[i] = active[j] => i = j
  /\ Elements(active) \subseteq Elements(history)
  /\ \A i, j \in 1..Len(active) : i < j => UsedIn(history, active[j], active[i])
  /\ \A u \in Elements(history) \ Elements(active) :
       /\ Len(active) = maxSubjects
       /\ \A i \in 1..Len(active) : UsedIn(history, active[i], u)

(* A use makes its subject the most recent one and changes nothing else    *)
(* about who was used after whom.                                          *)
LEMMA UseIsLast ==
  ASSUME NEW S, NEW h \in Seq(S), NEW s \in S, NEW t, NEW u
  PROVE  UsedIn(Append(h, s), t, u) <=> u # s /\ (t = s \/ UsedIn(h, t, u))
<1> DEFINE n == Len(h)
           g == Append(h, s)
<1>1. /\ n \in Nat /\ Len(g) = n + 1 /\ g[n + 1] = s
      /\ \A i \in 1..n : g[i] = h[i]
  BY LenProperties, AppendProperties
<1>2. UsedIn(g, t, u) <=> \E j \in 1..(n + 1) : g[j] = t /\ \A i \in j..(n + 1) : g[i] # u
  BY <1>1 DEF UsedIn
<1>3. UsedIn(h, t, u) <=> \E j \in 1..n : h[j] = t /\ \A i \in j..n : h[i] # u
  BY DEF UsedIn
<1> HIDE DEF n, g
<1>4. CASE u = s
  BY <1>1, <1>2, <1>4 DEF g
<1>5. CASE u # s /\ t = s
  BY <1>1, <1>2, <1>5 DEF g
<1>6. CASE u # s /\ t # s
  <2>1. ASSUME UsedIn(h, t, u) PROVE UsedIn(g, t, u)
    <3>1. PICK j \in 1..n : h[j] = t /\ \A i \in j..n : h[i] # u
      BY <1>3, <2>1
    <3>2. j \in 1..(n + 1) /\ g[j] = t /\ \A i \in j..(n + 1) : g[i] # u
      BY <1>1, <1>6, <3>1
    <3>3. QED
      BY <1>2, <3>2
  <2>2. ASSUME UsedIn(g, t, u) PROVE UsedIn(h, t, u)
    <3>1. PICK j \in 1..(n + 1) : g[j] = t /\ \A i \in j..(n + 1) : g[i] # u
      BY <1>2, <2>2
    <3>2. j \in 1..n /\ h[j] = t /\ \A i \in j..n : h[i] # u
      BY <1>1, <1>6, <3>1
    <3>3. QED
      BY <1>3, <3>2
  <2>3. QED
    BY <1>6, <2>1, <2>2 DEF g
<1>7. QED
  BY <1>4, <1>5, <1>6

(* Of two subjects only one can be the more recent.                        *)
LEMMA UsedInIsAsymmetric ==
  ASSUME NEW S, NEW h \in Seq(S), NEW t, NEW u, UsedIn(h, t, u)
  PROVE  t \in Elements(h) /\ ~UsedIn(h, u, t)
<1>1. PICK j \in 1..Len(h) : h[j] = t /\ \A i \in j..Len(h) : h[i] # u
  BY DEF UsedIn
<1>2. ASSUME UsedIn(h, u, t) PROVE FALSE
  <2>1. PICK k \in 1..Len(h) : h[k] = u /\ \A i \in k..Len(h) : h[i] # t
    BY <1>2 DEF UsedIn
  <2>2. Len(h) \in Nat
    BY LenProperties
  <2>3. CASE j =< k
    BY <1>1, <2>1, <2>2, <2>3
  <2>4. CASE k =< j
    BY <1>1, <2>1, <2>2, <2>4
  <2>5. QED
    BY <2>2, <2>3, <2>4
<1>3. QED
  BY <1>1, <1>2 DEF Elements

(* A sequence without its p-th element.                                    *)
LEMMA OneLess ==
  ASSUME NEW S, NEW q \in Seq(S), NEW p \in 1..Len(q)
  PROVE  LET w == SubSeq(q, 1, p - 1) \o SubSeq(q, p + 1, Len(q))
         IN  /\ w \in Seq(S) /\ Len(w) = Len(q) - 1
             /\ \A i \in 1..(Len(q) - 1) : w[i] = IF i < p THEN q[i] ELSE q[i + 1]
<1> DEFINE n == Len(q)
           a == SubSeq(q, 1, p - 1)
           b == SubSeq(q, p + 1, n)
           w == a \o b
<1>1. n \in Nat /\ p \in Nat /\ p >= 1 /\ p =< n /\ \A k \in 1..n : q[k] \in S
  BY LenProperties, ElementOfSeq
<1>2. /\ a \in Seq(S) /\ Len(a) = p - 1
      /\ \A i \in 1..(p - 1) : a[i] = q[i]
  BY <1>1, SubSeqProperties
<1>3. /\ b \in Seq(S) /\ Len(b) = n - p
      /\ \A i \in 1..(n - p) : b[i] = q[i + p]
  <2>1. \A k \in (p + 1)..n : q[k] \in S
    BY <1>1
  <2>2. /\ b \in Seq(S) /\ Len(b) = IF p + 1 =< n THEN n - (p + 1) + 1 ELSE 0
        /\ \A i \in 1..(n - (p + 1) + 1) : b[i] = q[(p + 1) + i - 1]
    BY <1>1, <2>1, SubSeqProperties
  <2> HIDE DEF n, b
  <2>3. n - (p + 1) + 1 = n - p
    BY <1>1
  <2>4. QED
    BY <1>1, <2>2, <2>3
<1> HIDE DEF n, a, b
<1>4. /\ w \in Seq(S) /\ Len(w) = Len(a) + Len(b)
      /\ \A i \in 1..(Len(a) + Len(b)) : w[i] = IF i =< Len(a) THEN a[i] ELSE b[i - Len(a)]
  BY <1>2, <1>3, ConcatProperties
<1> HIDE DEF w
<1>5. Len(w) = n - 1
  BY <1>1, <1>2, <1>3, <1>4
<1>6. ASSUME NEW i \in 1..(n - 1) PROVE w[i] = IF i < p THEN q[i] ELSE q[i + 1]
  <2>1. w[i] = IF i =< p - 1 THEN a[i] ELSE b[i - (p - 1)]
    BY <1>1, <1>2, <1>3, <1>4
  <2>2. CASE i < p
    BY <1>1, <1>2, <2>1, <2>2
  <2>3. CASE ~(i < p)
    <3>1. i - (p - 1) \in 1..(n - p) /\ ~(i =< p - 1) /\ (i - (p - 1)) + p = i + 1
      BY <1>1, <2>3
    <3>2. QED
      BY <1>3, <2>1, <2>3, <3>1
  <2>4. QED
    BY <2>2, <2>3
<1>7. QED
  BY <1>4, <1>5, <1>6 DEF n, a, b, w

(* new is the list after a use of s: the subject is last, the others keep  *)
(* their order, and only the first may have gone, from a list that is full.*)
MovedLast(s, new) ==
  /\ new \in Seq(Subjects) /\ Len(new) \in 1..maxSubjects
  /\ Len(new) >= Len(active) /\ new[Len(new)] = s
  /\ \A i \in 1..(Len(new) - 1) : new[i] # s /\ new[i] \in Elements(active)
  /\ \A i, j \in 1..(Len(new) - 1) : i < j =>
       \E k, l \in 1..Len(active) :
         k < l /\ new[i] = active[k] /\ new[j] = active[l]
  /\ \A u \in Elements(active) \ Elements(new) :
       /\ Len(new) = maxSubjects
       /\ \A i \in 1..(Len(new) - 1) :
            \E k, l \in 1..Len(active) :
              k < l /\ u = active[k] /\ new[i] = active[l]

LEMMA TouchMovesLast ==
  ASSUME active \in Seq(Subjects), maxSubjects \in Nat, NEW s \in Subjects, Trackable(s),
         Len(active) =< maxSubjects,
         \A i, j \in 1..Len(active) : active[i] = active[j] => i = j
  PROVE  MovedLast(s, Touch(s))
<1> DEFINE n == Len(active)
           new == Touch(s)
<1> SUFFICES MovedLast(s, new)
  OBVIOUS
<1>1. n \in Nat /\ \A k \in 1..n : active[k] \in Subjects
  BY LenProperties, ElementOfSeq
<1>2. new \in Seq(Subjects)
  BY TouchType
<1> HIDE DEF new
<1>3. CASE s \in Elements(active)
  <2> DEFINE p == CHOOSE i \in 1..Len(active) : active[i] = s
  <2>1. p \in 1..n /\ active[p] = s
    BY <1>3 DEF Elements
  <2> DEFINE w == SubSeq(active, 1, p - 1) \o SubSeq(active, p + 1, n)
  <2>2. new = Append(w, s)
    BY <1>3 DEF new, Touch, Without
  <2> HIDE DEF p
  <2>3. /\ w \in Seq(Subjects) /\ Len(w) = n - 1
        /\ \A i \in 1..(n - 1) : w[i] = IF i < p THEN active[i] ELSE active[i + 1]
    BY <2>1, OneLess
  <2> HIDE DEF w
  <2>4. /\ Len(new) = Len(w) + 1 /\ new[Len(w) + 1] = s
        /\ \A i \in 1..Len(w) : new[i] = w[i]
    BY <2>2, <2>3, AppendProperties
  <2>5. n \in Nat
    BY <1>1
  <2> HIDE DEF n
  <2>6. /\ Len(new) = n /\ new[n] = s
        /\ \A i \in 1..(n - 1) : new[i] = IF i < p THEN active[i] ELSE active[i + 1]
    BY <2>1, <2>3, <2>4, <2>5
  <2>7. \A i \in 1..(n - 1) : new[i] # s /\ new[i] \in Elements(active)
    BY <1>1, <2>1, <2>6 DEF Elements, n
  <2>8. \A i, j \in 1..(n - 1) : i < j =>
          \E k, l \in 1..n : k < l /\ new[i] = active[k] /\ new[j] = active[l]
    BY <1>1, <2>1, <2>6
  <2>9. Elements(active) \subseteq Elements(new)
    <3> SUFFICES \A k \in 1..n : \E i \in 1..n : new[i] = active[k]
      BY <2>6 DEF Elements, n
    <3> TAKE k \in 1..n
    <3>1. CASE k < p
      BY <2>1, <2>5, <2>6, <3>1
    <3>2. CASE k = p
      BY <2>1, <2>5, <2>6, <3>2
    <3>3. CASE k > p
      <4>1. k - 1 \in 1..(n - 1) /\ ~(k - 1 < p) /\ (k - 1) + 1 = k
        BY <1>1, <2>1, <3>3
      <4>2. new[k - 1] = active[k]
        BY <2>6, <4>1
      <4>3. QED
        BY <1>1, <4>1, <4>2
    <3>4. QED
      BY <1>1, <2>1, <3>1, <3>2, <3>3
  <2>10. QED
    BY <1>1, <1>2, <2>1, <2>6, <2>7, <2>8, <2>9 DEF n, MovedLast
<1>4. CASE s \notin Elements(active) /\ n < maxSubjects
  <2>1. new = Append(active, s)
    BY <1>1, <1>4 DEF new, Touch
  <2>2. /\ Len(new) = n + 1 /\ new[n + 1] = s
        /\ \A i \in 1..n : new[i] = active[i]
    BY <1>1, <2>1, AppendProperties
  <2>3. QED
    BY <1>1, <1>2, <1>4, <2>2 DEF Elements, MovedLast
<1>5. CASE s \notin Elements(active) /\ n = maxSubjects
  <2>1. new = Append(Tail(active), s) /\ active # <<>>
    BY <1>1, <1>5 DEF new, Touch, Trackable
  <2>2. /\ n >= 1 /\ Tail(active) \in Seq(Subjects) /\ Len(Tail(active)) = n - 1
        /\ \A i \in 1..(n - 1) : Tail(active)[i] = active[i + 1]
    BY <1>1, <2>1, HeadTailProperties, EmptySeq
  <2>3. /\ Len(new) = n /\ new[n] = s
        /\ \A i \in 1..(n - 1) : new[i] = active[i + 1]
    BY <1>1, <2>1, <2>2, AppendProperties
  <2> HIDE DEF n
  <2>4. \A i \in 1..(n - 1) : i + 1 \in 1..n
    BY <1>1
  <2>5. \A i \in 1..(n - 1) : new[i] # s /\ new[i] \in Elements(active)
    BY <1>5, <2>3, <2>4 DEF Elements, n
  <2>6. \A i, j \in 1..(n - 1) : i < j =>
          \E k, l \in 1..n : k < l /\ new[i] = active[k] /\ new[j] = active[l]
    BY <1>1, <2>3, <2>4
  <2>7. ASSUME NEW k \in 1..n, active[k] \notin Elements(new) PROVE k = 1
    <3>1. CASE k # 1
      <4>1. k - 1 \in 1..(n - 1) /\ (k - 1) + 1 = k
        BY <1>1, <3>1
      <4>2. new[k - 1] = active[k]
        BY <2>3, <4>1
      <4>3. QED
        BY <1>1, <2>3, <2>7, <4>1, <4>2 DEF Elements
    <3>2. QED
      BY <3>1
  <2>8. \A u \in Elements(active) \ Elements(new) : u = active[1]
    BY <2>7 DEF Elements, n
  <2>9. 1 \in 1..n
    BY <1>1, <2>2
  <2>10. \A u \in Elements(active) \ Elements(new) :
           \A i \in 1..(n - 1) :
             \E k, l \in 1..n : k < l /\ u = active[k] /\ new[i] = active[l]
    BY <1>1, <2>3, <2>4, <2>8, <2>9
  <2>11. QED
    BY <1>1, <1>2, <1>5, <2>2, <2>3, <2>5, <2>6, <2>10 DEF n, MovedLast
<1>6. QED
  BY <1>1, <1>3, <1>4, <1>5 DEF new

LEMMA TrackKeepsLru ==
  ASSUME TypeOK, LruInv, NEW s \in Subjects, Track(s)
  PROVE  LruInv'
<1> DEFINE n == Len(active')
<1>1. /\ active \in Seq(Subjects) /\ history \in Seq(Subjects) /\ maxSubjects \in Nat
      /\ maxSubjects' = maxSubjects
  BY SizesAssumption DEF TypeOK, Track
<1>2. /\ active' \in Seq(Subjects) /\ n \in 1..maxSubjects
      /\ n >= Len(active) /\ active'[n] = s
      /\ \A i \in 1..(n - 1) : active'[i] # s /\ active'[i] \in Elements(active)
      /\ \A i, j \in 1..(n - 1) : i < j =>
           \E k, l \in 1..Len(active) : k < l /\ active'[i] = active[k] /\ active'[j] = active[l]
      /\ \A u \in Elements(active) \ Elements(active') :
           /\ n = maxSubjects
           /\ \A i \in 1..(n - 1) :
                \E k, l \in 1..Len(active) : k < l /\ u = active[k] /\ active'[i] = active[l]
  <2>1. Trackable(s) /\ active' = Touch(s)
    BY DEF Track
  <2>2. /\ Len(active) =< maxSubjects
        /\ \A i, j \in 1..Len(active) : active[i] = active[j] => i = j
    BY DEF LruInv
  <2>3. MovedLast(s, active')
    BY <1>1, <2>1, <2>2, TouchMovesLast
  <2>4. QED
    BY <2>3 DEF MovedLast
<1>3. history' = Append(history, s) /\ activeGauge' = n
  BY DEF Track
<1>4. \A t, u : UsedIn(history', t, u) <=> u # s /\ (t = s \/ UsedIn(history, t, u))
  BY <1>1, <1>3, UseIsLast
<1>5. Elements(history') = Elements(history) \cup {s}
  <2>1. /\ Len(history) \in Nat /\ Len(history') = Len(history) + 1
        /\ history'[Len(history) + 1] = s
        /\ \A i \in 1..Len(history) : history'[i] = history[i]
    BY <1>1, <1>3, LenProperties, AppendProperties
  <2>2. QED
    BY <2>1 DEF Elements
<1>6. Len(active) \in Nat
  BY <1>1, LenProperties
<1> HIDE DEF n
<1>7. ASSUME NEW i \in 1..n, NEW j \in 1..n, i < j
      PROVE  active'[i] # active'[j] /\ UsedIn(history', active'[j], active'[i])
  <2>1. i \in 1..(n - 1)
    BY <1>2, <1>7
  <2>2. CASE j = n
    <3>1. active'[i] # s /\ active'[j] = s
      BY <1>2, <2>1, <2>2
    <3>2. QED
      BY <1>4, <3>1
  <2>3. CASE j # n
    <3>1. j \in 1..(n - 1)
      BY <1>2, <2>3
    <3>2. PICK k \in 1..Len(active), l \in 1..Len(active) :
            k < l /\ active'[i] = active[k] /\ active'[j] = active[l]
      BY <1>2, <1>7, <2>1, <3>1
    <3>3. UsedIn(history, active[l], active[k]) /\ active[k] # active[l]
      BY <1>6, <3>2 DEF LruInv
    <3>4. active'[i] # s
      BY <1>2, <2>1
    <3>5. QED
      BY <1>4, <3>2, <3>3, <3>4
  <2>4. QED
    BY <2>2, <2>3
<1>8. \A i, j \in 1..n : active'[i] = active'[j] => i = j
  BY <1>2, <1>7
<1>9. Elements(active') \subseteq Elements(history')
  <2> SUFFICES ASSUME NEW i \in 1..n PROVE active'[i] \in Elements(history')
    BY DEF Elements, n
  <2>1. CASE i = n
    BY <1>2, <1>5, <2>1
  <2>2. CASE i # n
    <3>1. i \in 1..(n - 1)
      BY <1>2, <2>2
    <3>2. QED
      BY <1>2, <1>5, <3>1 DEF LruInv
  <2>3. QED
    BY <2>1, <2>2
<1>10. ASSUME NEW u \in Elements(history') \ Elements(active')
       PROVE  n = maxSubjects /\ \A i \in 1..n : UsedIn(history', active'[i], u)
  <2>1. u # s /\ u \in Elements(history)
    <3>1. n \in 1..n
      BY <1>1, <1>2
    <3>2. s \in Elements(active')
      BY <1>2, <3>1 DEF Elements, n
    <3>3. QED
      BY <1>5, <1>10, <3>2
  <2>2. CASE u \in Elements(active)
    <3>1. n = maxSubjects
      BY <1>2, <1>10, <2>2
    <3>2. ASSUME NEW i \in 1..n PROVE UsedIn(history', active'[i], u)
      <4>1. CASE i = n
        BY <1>2, <1>4, <2>1, <4>1
      <4>2. CASE i # n
        <5>1. i \in 1..(n - 1)
          BY <1>2, <4>2
        <5>2. PICK k \in 1..Len(active), l \in 1..Len(active) :
                k < l /\ u = active[k] /\ active'[i] = active[l]
          BY <1>2, <1>10, <2>2, <5>1
        <5>3. UsedIn(history, active[l], active[k])
          BY <5>2 DEF LruInv
        <5>4. QED
          BY <1>4, <2>1, <5>2, <5>3
      <4>3. QED
        BY <4>1, <4>2
    <3>3. QED
      BY <3>1, <3>2
  <2>3. CASE u \notin Elements(active)
    <3>1. Len(active) = maxSubjects /\ \A i \in 1..Len(active) : UsedIn(history, active[i], u)
      BY <2>1, <2>3 DEF LruInv
    <3>2. n = maxSubjects
      BY <1>1, <1>2, <1>6, <3>1
    <3>3. \A t \in Elements(active) : UsedIn(history, t, u)
      BY <3>1 DEF Elements
    <3>4. ASSUME NEW i \in 1..n PROVE UsedIn(history', active'[i], u)
      <4>1. CASE i = n
        BY <1>2, <1>4, <2>1, <4>1
      <4>2. CASE i # n
        <5>1. i \in 1..(n - 1)
          BY <1>2, <4>2
        <5>2. QED
          BY <1>2, <1>4, <2>1, <3>3, <5>1
      <4>3. QED
        BY <4>1, <4>2
    <3>5. QED
      BY <3>2, <3>4
  <2>4. QED
    BY <2>2, <2>3
<1>11. QED
  <2>1. n =< maxSubjects'
    BY <1>1, <1>2
  <2>2. QED
    BY <1>1, <1>3, <1>7, <1>8, <1>9, <1>10, <2>1 DEF LruInv, n

LEMMA NextLru == TypeOK /\ LruInv /\ [Next]_vars => LruInv'
<1> SUFFICES ASSUME TypeOK, LruInv, [Next]_vars PROVE LruInv'
  OBVIOUS
<1> USE DEF publishVars, queueVars, activeVars
<1>1. ASSUME NEW r \in Requests, PublishKnown(r) \/ DeadLetter(r) PROVE LruInv'
  <2>1. subject[r] \in Subjects /\ Track(subject[r])
    BY <1>1 DEF PublishKnown, DeadLetter, TypeOK
  <2>2. QED
    BY <2>1, TrackKeepsLru
<1>2. ASSUME NEW r \in Requests, Send(r) \/ Fail(r) \/ TrackRaises(r) PROVE UNCHANGED activeVars
  BY <1>2 DEF Send, Fail, TrackRaises
<1>3. ASSUME Drain \/ UNCHANGED vars PROVE UNCHANGED activeVars
  BY <1>3 DEF Drain, vars
<1>4. ASSUME NEW limit \in (-PageMax)..PageMax, Walk(limit) PROVE UNCHANGED activeVars
  BY <1>4 DEF Walk
<1>5. CASE UNCHANGED activeVars
  BY <1>5 DEF LruInv
<1>6. QED
  BY <1>1, <1>2, <1>3, <1>4, <1>5 DEF Next

(* The order of the list says how many subjects were used after each.      *)
LEMMA LruSelects ==
  ASSUME TypeOK, LruInv
  PROVE  LruIsMostRecent
<1> DEFINE n == Len(active)
           After(s) == {t \in Subjects : UsedIn(history, t, s)}
<1>1. /\ active \in Seq(Subjects) /\ history \in Seq(Subjects) /\ maxSubjects \in Nat
      /\ n \in Nat /\ n =< maxSubjects /\ Len(history) \in Nat
      /\ \A i \in 1..n : active[i] \in Subjects
  BY SizesAssumption, LenProperties, ElementOfSeq DEF TypeOK, LruInv
<1>2. IsFiniteSet(Elements(history))
  <2>1. [i \in 1..Len(history) |-> history[i]]
          \in Surjection(1..Len(history), Elements(history))
    BY DEF Surjection, Elements
  <2>2. IsFiniteSet(1..Len(history))
    BY <1>1, FS_Interval
  <2>3. QED
    BY <2>1, <2>2, FS_Surjection
<1>3. \A s : After(s) \subseteq Elements(history)
  BY <1>1, UsedInIsAsymmetric
<1>4. \A s : IsFiniteSet(After(s)) /\ Cardinality(After(s)) \in Nat
  BY <1>2, <1>3, FS_Subset, FS_CardinalityType
<1>5. Cardinality(Elements(active)) = n /\ IsFiniteSet(Elements(active))
  <2>1. [i \in 1..n |-> active[i]] \in Surjection(1..n, Elements(active))
    BY DEF Surjection, Elements
  <2>2. [i \in 1..n |-> active[i]] \in Injection(1..n, Elements(active))
    BY DEF Injection, IsInjective, Elements, LruInv
  <2> HIDE DEF n
  <2>3. IsFiniteSet(1..n) /\ Cardinality(1..n) = n
    <3>1. 1 \in Int /\ n \in Int /\ n = IF 1 > n THEN 0 ELSE n - 1 + 1
      BY <1>1
    <3>2. QED
      BY <3>1, FS_Interval
  <2>4. QED
    BY <2>1, <2>2, <2>3, FS_Surjection
<1>6. ASSUME NEW i \in 1..n PROVE Cardinality(After(active[i])) < maxSubjects
  <2> DEFINE later == (i + 1)..n
             T == {active[k] : k \in later}
  <2>1. After(active[i]) \subseteq T
    <3> SUFFICES ASSUME NEW t, UsedIn(history, t, active[i]) PROVE t \in T
      OBVIOUS
    <3>1. t \in Elements(history) /\ ~UsedIn(history, active[i], t)
      BY <1>1, UsedInIsAsymmetric
    <3>2. t \in Elements(active)
      BY <3>1 DEF LruInv
    <3>3. PICK k \in 1..n : t = active[k]
      BY <3>2 DEF Elements
    <3>4. k # i
      BY <1>1, <3>1, <3>3
    <3>5. ~(k < i)
      BY <3>1, <3>3 DEF LruInv
    <3>6. k \in later
      BY <1>1, <3>4, <3>5
    <3>7. QED
      BY <3>3, <3>6
  <2>2. IsFiniteSet(later) /\ Cardinality(later) = n - i
    <3> HIDE DEF n
    <3>1. i + 1 \in Int /\ n \in Int /\ n - i = IF i + 1 > n THEN 0 ELSE n - (i + 1) + 1
      BY <1>1
    <3>2. QED
      BY <3>1, FS_Interval
  <2>3. [k \in later |-> active[k]] \in Surjection(later, T)
    BY DEF Surjection
  <2> HIDE DEF later, T, n, After
  <2>4. IsFiniteSet(T) /\ Cardinality(T) =< n - i /\ Cardinality(T) \in Nat
    BY <2>2, <2>3, FS_Surjection, FS_CardinalityType
  <2>5. Cardinality(After(active[i])) =< Cardinality(T)
    BY <2>1, <2>4, FS_Subset
  <2>6. QED
    BY <1>1, <1>4, <2>4, <2>5
<1>7. ASSUME NEW u \in Elements(history) \ Elements(active)
      PROVE  ~(Cardinality(After(u)) < maxSubjects)
  <2>1. n = maxSubjects /\ Elements(active) \subseteq After(u)
    BY <1>1 DEF LruInv, Elements
  <2>2. Cardinality(Elements(active)) =< Cardinality(After(u))
    BY <1>4, <2>1, FS_Subset
  <2>3. QED
    BY <1>1, <1>4, <1>5, <2>1, <2>2
<1>8. Elements(active) = {s \in Elements(history) : Cardinality(After(s)) < maxSubjects}
  <2>1. \A s \in Elements(active) : Cardinality(After(s)) < maxSubjects
    BY <1>6 DEF Elements
  <2>2. Elements(active) \subseteq Elements(history)
    BY DEF LruInv
  <2> HIDE DEF After
  <2>3. QED
    BY <1>7, <2>1, <2>2
<1>9. activeGauge = Cardinality(Elements(active))
  BY <1>5 DEF LruInv
<1>10. \A i, j \in 1..Len(active) : i < j => UsedIn(history, active[j], active[i])
  BY DEF LruInv
<1>11. QED
  BY <1>8, <1>9, <1>10 DEF LruIsMostRecent, UsedAfter, UsedIn

(* The subjects tracked are the most recently used ones, as many as may be *)
(* tracked, in the order of their last use, through every eviction and     *)
(* return; the gauge counts them.                                          *)
THEOREM ActiveAreMostRecent == Spec => []LruIsMostRecent
<1>1. Init => LruInv
  BY SizesAssumption DEF Init, LruInv, Elements
<1>2. TypeOK /\ LruInv /\ [Next]_vars => LruInv'
  BY NextLru
<1>3. TypeOK /\ LruInv => LruIsMostRecent
  BY LruSelects
<1>4. QED
  BY <1>1, <1>2, <1>3, TypeCorrect, PTL DEF Spec
=============================================================================
