----------------------- MODULE WebhookGateway_proofs -----------------------
(***************************************************************************)
(* Safety of the webhook gateway for any finite set of requests, any       *)
(* number of retries and drain polls, and both settings switches; and the  *)
(* refinement of Bridge.                                                   *)
(***************************************************************************)
EXTENDS WebhookGateway, FiniteSetTheorems, TLAPS

(* How far a request has come bounds what JetStream can hold for it.       *)
SendsBounded ==
  \A r \in Requests :
    /\ stored[r] =< attempt[r]
    /\ pc[r] \in {"idle", "routed"} => attempt[r] = 0
    /\ pc[r] = "backoff" => attempt[r] < Retries
    /\ pc[r] \in {"publish", "deadletter"} /\ ackable[r] => stored[r] > 0

(* A clean drain presupposes the signal, and disconnect() has started.     *)
DrainOrder ==
  /\ cleanDrain => shutdown /\ server \in {"disconnecting", "exited"}
  /\ CleanDrainIsFinal

IInv == TypeOK /\ SendsBounded /\ InflightExact /\ NoFalseAck /\ DrainOrder

-----------------------------------------------------------------------------
(***************************************************************************)
(* Counting requests                                                       *)
(***************************************************************************)
LEMMA InsideFinite == IsFiniteSet(Inside) /\ Cardinality(Inside) \in Nat
<1>1. IsFiniteSet(Inside)
  BY RequestsAssumption, FS_Subset DEF Inside
<1>2. QED
  BY <1>1, FS_CardinalityType

(* One request enters the context.                                         *)
LEMMA EnterInside ==
  ASSUME TypeOK, NEW r \in Requests, r \notin Inside,
         NEW p \in InContext, pc' = [pc EXCEPT ![r] = p]
  PROVE  Cardinality(Inside') = Cardinality(Inside) + 1
<1>1. Inside' = Inside \cup {r}
  BY DEF Inside, TypeOK
<1>2. QED
  BY <1>1, InsideFinite, FS_AddElement

(* One request leaves it.                                                  *)
LEMMA LeaveInside ==
  ASSUME TypeOK, NEW r \in Requests, r \in Inside, pc' = [pc EXCEPT ![r] = "done"]
  PROVE  Cardinality(Inside') = Cardinality(Inside) - 1
<1>1. Inside' = Inside \ {r}
  BY DEF Inside, TypeOK, InContext
<1>2. QED
  BY <1>1, InsideFinite, FS_RemoveElement

(* A request moves without crossing the context's border.                  *)
LEMMA SameInside ==
  ASSUME TypeOK, NEW r \in Requests, NEW p, pc' = [pc EXCEPT ![r] = p],
         r \in Inside <=> p \in InContext
  PROVE  Inside' = Inside
BY DEF Inside, TypeOK

-----------------------------------------------------------------------------
LEMMA InitIInv == Init => IInv
<1> SUFFICES ASSUME Init PROVE IInv
  OBVIOUS
<1>1. Inside = {} /\ Cardinality(Inside) = 0
  BY FS_EmptySet DEF Init, Inside, InContext
<1>2. /\ pc \in [Requests -> {"idle", "routed", "done"} \cup InContext]
      /\ reply \in [Requests -> {"none", "accepted"} \cup Refusals \cup Crashes]
      /\ \A r \in Requests : reply[r] = "none" <=> pc[r] # "done"
  BY DEF Init
<1>3. /\ attempt \in [Requests -> 0..Retries]
      /\ stored \in [Requests -> 0..Retries] /\ ackable \in [Requests -> BOOLEAN]
      /\ elapsed \in 0..Polls
  BY SettingsAssumption DEF Init
<1>4. deadLetter \in BOOLEAN /\ js \in BOOLEAN /\ up \in BOOLEAN /\ (up => js)
  <2>1. deadLetter \in BOOLEAN /\ js \in BOOLEAN /\ (up = FALSE \/ up = js)
    BY DEF Init
  <2>2. up \in BOOLEAN
    BY <2>1
  <2>3. ASSUME up PROVE js
    <3>1. up = TRUE
      BY <2>2, <2>3
    <3>2. js = TRUE
      BY <2>1, <3>1
    <3>3. QED
      BY <3>2
  <2>4. QED
    BY <2>1, <2>2, <2>3
<1>5. TypeOK
  BY <1>2, <1>3, <1>4 DEF Init, TypeOK, Publisher!TypeOK
<1>6. QED
  BY <1>1, <1>5
  DEF Init, IInv, SendsBounded, InflightExact, NoFalseAck, DrainOrder, CleanDrainIsFinal

(* A request that is outside the context is answered without entering it.  *)
LEMMA AnswerOutside ==
  ASSUME IInv, NEW r \in Requests, pc[r] \in {"idle", "routed"},
         NEW w \in Refusals, Answer(r, w),
         UNCHANGED <<attempt, stored, ackable, inflight, serverVars, linkVars>>,
         received' \in Nat, failures' \in Nat
  PROVE  IInv'
<1> USE DEF IInv, Answer, serverVars, linkVars
<1>1. Inside' = Inside
  BY SameInside DEF Inside, InContext
<1>2. TypeOK'
  BY DEF TypeOK, Refusals, Publisher!TypeOK
<1>3. SendsBounded' /\ NoFalseAck'
  BY DEF SendsBounded, NoFalseAck, Refusals, TypeOK
<1>4. QED
  BY <1>1, <1>2, <1>3 DEF InflightExact, DrainOrder, CleanDrainIsFinal

(* A request leaves the context with an answer; "accepted" needs a copy.   *)
LEMMA LeaveIInv ==
  ASSUME IInv, NEW r \in Requests, pc[r] \in InContext,
         NEW w \in {"accepted"} \cup Refusals \cup Crashes, Leave(r, w),
         w = "accepted" => stored[r] > 0
  PROVE  IInv'
<1> USE DEF IInv, Leave, Answer, serverVars, linkVars
<1>1. Cardinality(Inside') = Cardinality(Inside) - 1 /\ r \in Inside
  BY LeaveInside DEF Inside
<1>2. Cardinality(Inside') \in Nat
  <2>1. IsFiniteSet(Inside')
    BY RequestsAssumption, FS_Subset DEF Inside
  <2>2. QED
    BY <2>1, FS_CardinalityType
<1>3. InflightExact' /\ inflight' \in Nat
  BY <1>1, <1>2 DEF InflightExact
<1>4. TypeOK'
  BY <1>3 DEF TypeOK, Refusals, Crashes, Publisher!TypeOK
<1>5. SendsBounded' /\ NoFalseAck'
  BY DEF SendsBounded, NoFalseAck, TypeOK, InContext
<1>6. DrainOrder'
  BY <1>1 DEF DrainOrder, CleanDrainIsFinal
<1>7. QED
  BY <1>3, <1>4, <1>5, <1>6

LEMMA NextIInv == IInv /\ [Next]_vars => IInv'
<1> SUFFICES ASSUME IInv, [Next]_vars PROVE IInv'
  OBVIOUS
<1> USE RequestsAssumption, SettingsAssumption
<1>1. ASSUME NEW r \in Requests, Limited(r) PROVE IInv'
  BY <1>1, AnswerOutside DEF Limited, Refusals, metricVars, IInv, TypeOK
<1>2. ASSUME NEW r \in Requests, Route(r) PROVE IInv'
  <2>1. CASE Answer(r, "shutting_down")
    BY <1>2, <2>1, AnswerOutside DEF Route, Refusals, metricVars, IInv, TypeOK
  <2>2. CASE pc' = [pc EXCEPT ![r] = "routed"] /\ UNCHANGED reply
    <3>1. Inside' = Inside
      BY <1>2, <2>2, SameInside DEF Route, IInv, Inside, InContext
    <3>2. TypeOK'
      BY <1>2, <2>2 DEF Route, IInv, TypeOK, metricVars, serverVars, linkVars,
                        Publisher!TypeOK
    <3>3. QED
      BY <1>2, <2>2, <3>1, <3>2
      DEF Route, IInv, TypeOK, SendsBounded, InflightExact, NoFalseAck, DrainOrder,
          CleanDrainIsFinal, metricVars, serverVars, linkVars
  <2>3. QED
    BY <1>2, <2>1, <2>2 DEF Route
<1>3. ASSUME NEW r \in Requests, RejectShutdown(r) PROVE IInv'
  BY <1>3, AnswerOutside DEF RejectShutdown, Rejected, Refusals, IInv, TypeOK
<1>4. ASSUME NEW r \in Requests, RejectMalformed(r) PROVE IInv'
  BY <1>4, AnswerOutside DEF RejectMalformed, Admit, Rejected, Refusals, IInv, TypeOK
<1>5. ASSUME NEW r \in Requests, RejectUnpublishable(r) PROVE IInv'
  BY <1>5, AnswerOutside DEF RejectUnpublishable, Admit, Rejected, Refusals, IInv, TypeOK
<1>6. ASSUME NEW r \in Requests, StartPublish(r) PROVE IInv'
  <2>1. PICK p \in {"publish", "deadletter"} : pc' = [pc EXCEPT ![r] = p]
    BY <1>6 DEF StartPublish
  <2>2. r \notin Inside /\ attempt[r] = 0 /\ stored[r] = 0 /\ ~shutdown
    BY <1>6 DEF StartPublish, Admit, Inside, InContext, IInv, SendsBounded, TypeOK
  <2>3. Cardinality(Inside') = Cardinality(Inside) + 1
    BY <2>1, <2>2, EnterInside DEF IInv, InContext
  <2>4. PICK s \in BOOLEAN :
          /\ ackable' = [ackable EXCEPT ![r] = s]
          /\ stored' = [stored EXCEPT ![r] = IF s THEN @ + 1 ELSE @]
    BY <1>6 DEF StartPublish, Send
  <2>5. TypeOK'
    <3>1. /\ pc' \in [Requests -> {"idle", "routed", "done"} \cup InContext]
          /\ \A q \in Requests : reply'[q] = "none" <=> pc'[q] # "done"
      BY <1>6, <2>1 DEF StartPublish, Admit, IInv, TypeOK, InContext
    <3>2. /\ attempt' \in [Requests -> 0..Retries]
          /\ stored' \in [Requests -> 0..Retries] /\ ackable' \in [Requests -> BOOLEAN]
      BY <1>6, <2>2, <2>4 DEF StartPublish, IInv, TypeOK
    <3>3. inflight' \in Nat /\ received' \in Nat
      BY <1>6 DEF StartPublish, IInv, TypeOK
    <3>4. QED
      BY <1>6, <3>1, <3>2, <3>3
      DEF StartPublish, IInv, TypeOK, serverVars, linkVars, Publisher!TypeOK
  <2>6. SendsBounded' /\ NoFalseAck'
    BY <1>6, <2>1, <2>2, <2>4 DEF StartPublish, IInv, TypeOK, SendsBounded, NoFalseAck
  <2>7. InflightExact'
    BY <1>6, <2>3 DEF StartPublish, IInv, InflightExact
  <2>8. DrainOrder'
    BY <1>6, <2>2 DEF StartPublish, IInv, DrainOrder, CleanDrainIsFinal, serverVars
  <2>9. QED
    BY <2>5, <2>6, <2>7, <2>8 DEF IInv
<1>7. ASSUME NEW r \in Requests, Acked(r) PROVE IInv'
  BY <1>7, LeaveIInv DEF Acked, InContext, IInv, SendsBounded
<1>8. ASSUME NEW r \in Requests, RetryLater(r) PROVE IInv'
  <2>1. Inside' = Inside
    BY <1>8, SameInside DEF RetryLater, IInv, Inside, InContext
  <2>2. TypeOK'
    BY <1>8 DEF RetryLater, IInv, TypeOK, InContext, metricVars, serverVars, linkVars,
                Publisher!TypeOK
  <2>3. QED
    BY <1>8, <2>1, <2>2
    DEF RetryLater, IInv, TypeOK, SendsBounded, InflightExact, NoFalseAck, DrainOrder,
        CleanDrainIsFinal, metricVars, serverVars, linkVars
<1>9. ASSUME NEW r \in Requests, GiveUp(r) PROVE IInv'
  BY <1>9, LeaveIInv DEF GiveUp, InContext, Refusals
<1>10. ASSUME NEW r \in Requests, Unhandled(r) PROVE IInv'
  BY <1>10, LeaveIInv DEF Unhandled, InContext, Crashes
<1>11. ASSUME NEW r \in Requests, Resend(r) PROVE IInv'
  <2>1. CASE Leave(r, "no_publisher")
    BY <1>11, <2>1, LeaveIInv DEF Resend, InContext, Crashes
  <2>2. CASE ~Leave(r, "no_publisher")
    <3>1. /\ pc[r] = "backoff" /\ pc' = [pc EXCEPT ![r] = "publish"]
          /\ attempt' = [attempt EXCEPT ![r] = @ + 1]
          /\ UNCHANGED <<reply, inflight, metricVars, serverVars, linkVars>>
      BY <1>11, <2>2 DEF Resend
    <3>2. PICK s \in BOOLEAN :
            /\ ackable' = [ackable EXCEPT ![r] = s]
            /\ stored' = [stored EXCEPT ![r] = IF s THEN @ + 1 ELSE @]
      BY <1>11, <2>2 DEF Resend, Send
    <3>3. attempt[r] < Retries /\ stored[r] =< attempt[r]
      BY <3>1 DEF IInv, SendsBounded
    <3>4. Inside' = Inside
      BY <3>1, SameInside DEF IInv, Inside, InContext
    <3>5. TypeOK'
      BY <3>1, <3>2, <3>3
      DEF IInv, TypeOK, InContext, metricVars, serverVars, linkVars, Publisher!TypeOK
    <3>6. SendsBounded' /\ NoFalseAck'
      BY <3>1, <3>2, <3>3 DEF IInv, TypeOK, SendsBounded, NoFalseAck
    <3>7. QED
      BY <3>1, <3>4, <3>5, <3>6
      DEF IInv, InflightExact, DrainOrder, CleanDrainIsFinal, serverVars
  <2>3. QED
    BY <2>1, <2>2
<1>12. CASE Poll
  <2>1. /\ UNCHANGED <<requestVars, inflight, metricVars, shutdown, deadLetter>>
        /\ Inside' = Inside
    BY <1>12 DEF Poll, requestVars, linkVars, Inside
  <2>2. CASE elapsed < Polls /\ elapsed' = elapsed + 1 /\ UNCHANGED <<server, cleanDrain, linkVars>>
    BY <2>1, <2>2
    DEF IInv, TypeOK, SendsBounded, InflightExact, NoFalseAck, DrainOrder,
        CleanDrainIsFinal, requestVars, metricVars, linkVars, Publisher!TypeOK
  <2>3. CASE /\ elapsed = Polls \/ inflight = 0
             /\ server' = "disconnecting" /\ cleanDrain' = (elapsed < Polls /\ shutdown)
             /\ Publisher!Begin("disconnect") /\ UNCHANGED elapsed
    <3>1. cleanDrain' => Inside = {}
      <4>1. cleanDrain' => inflight = 0
        <5>1. cleanDrain' => elapsed < Polls
          BY <2>3
        <5>2. elapsed \in Nat /\ ~(Polls < Polls)
          BY DEF IInv, TypeOK
        <5>3. QED
          BY <2>3, <5>1, <5>2
      <4>2. QED
        BY <4>1, InsideFinite, FS_EmptySet DEF IInv, InflightExact
    <3>2. TypeOK'
      BY <2>1, <2>3
      DEF IInv, TypeOK, requestVars, metricVars, Publisher!TypeOK, Publisher!Begin
    <3>3. QED
      BY <2>1, <2>3, <3>1, <3>2
      DEF IInv, SendsBounded, InflightExact, NoFalseAck, DrainOrder, CleanDrainIsFinal,
          requestVars
  <2>4. QED
    BY <1>12, <2>2, <2>3 DEF Poll
<1>13. ASSUME UNCHANGED <<requestVars, inflight, metricVars, elapsed, cleanDrain>>,
              shutdown => shutdown', TypeOK',
              server \in {"disconnecting", "exited"} => server' \in {"disconnecting", "exited"}
       PROVE IInv'
  <2>1. Inside' = Inside
    BY <1>13 DEF requestVars, Inside
  <2>2. QED
    BY <1>13, <2>1
    DEF IInv, SendsBounded, InflightExact, NoFalseAck, DrainOrder, CleanDrainIsFinal,
        requestVars
<1>14. CASE OnShutdownSignal
  <2>1. TypeOK'
    BY <1>14 DEF OnShutdownSignal, requestVars, metricVars, linkVars, IInv, TypeOK,
                 Publisher!TypeOK
  <2>2. QED
    BY <1>13, <1>14, <2>1 DEF OnShutdownSignal
<1>15. CASE LifespanExit
  <2>1. TypeOK'
    BY <1>15 DEF LifespanExit, requestVars, metricVars, linkVars, IInv, TypeOK,
                 Publisher!TypeOK
  <2>2. QED
    BY <1>13, <1>15, <2>1 DEF LifespanExit
<1>16. CASE Disconnecting
  <2>1. Publisher!TypeOK' /\ (up' => js')
    <3>1. CASE Publisher!LoopEnds
      BY <3>1 DEF IInv, TypeOK, Publisher!TypeOK, Publisher!LoopEnds
    <3>2. CASE Publisher!DisconnectEnds
      <4>1. call' \in {"none"} /\ looping' \in BOOLEAN
        BY <3>2 DEF Publisher!DisconnectEnds
      <4>2. CASE Publisher!Dropped
        BY <4>1, <4>2 DEF Publisher!TypeOK, Publisher!Dropped
      <4>3. CASE UNCHANGED <<js, up>>
        BY <4>1, <4>3 DEF IInv, TypeOK, Publisher!TypeOK
      <4>4. QED
        BY <3>2, <4>2, <4>3 DEF Publisher!DisconnectEnds
    <3>3. QED
      BY <1>16, <3>1, <3>2 DEF Disconnecting
  <2>2. server' \in {"disconnecting", "exited"}
    BY <1>16 DEF Disconnecting
  <2>3. TypeOK'
    BY <1>16, <2>1, <2>2 DEF Disconnecting, requestVars, metricVars, IInv, TypeOK
  <2>4. QED
    BY <1>13, <1>16, <2>2, <2>3 DEF Disconnecting
<1>17. CASE LinkChanges
  <2>1. Publisher!TypeOK' /\ (up' => js')
    <3>1. CASE Publisher!LinkUp
      BY <3>1 DEF IInv, TypeOK, Publisher!TypeOK, Publisher!LinkUp
    <3>2. CASE Publisher!LinkDown
      BY <3>2 DEF IInv, TypeOK, Publisher!TypeOK, Publisher!LinkDown
    <3>3. QED
      BY <1>17, <3>1, <3>2 DEF LinkChanges
  <2>2. TypeOK'
    BY <1>17, <2>1 DEF LinkChanges, requestVars, metricVars, serverVars, IInv, TypeOK
  <2>3. QED
    BY <1>13, <1>17, <2>2 DEF LinkChanges, serverVars
<1>18. CASE UNCHANGED vars
  <2>1. TypeOK'
    BY <1>18 DEF vars, requestVars, metricVars, serverVars, linkVars, IInv, TypeOK,
                 Publisher!TypeOK
  <2>2. QED
    BY <1>13, <1>18, <2>1 DEF vars, serverVars
<1>19. QED
  BY <1>1, <1>2, <1>3, <1>4, <1>5, <1>6, <1>7, <1>8, <1>9, <1>10, <1>11, <1>12, <1>14,
     <1>15, <1>16, <1>17, <1>18
  DEF Next, RequestStep, ServerStep

LEMMA Invariance == Spec => []IInv
<1>1. Init => IInv
  BY InitIInv
<1>2. IInv /\ [Next]_vars => IInv'
  BY NextIInv
<1>3. QED
  BY <1>1, <1>2, PTL DEF Spec

-----------------------------------------------------------------------------
(***************************************************************************)
(* The books: what an answer does to the sets of answered requests.        *)
(***************************************************************************)
LEMMA AnsweredCount ==
  ASSUME NEW W PROVE Cardinality(Answered(W)) \in Nat
<1>1. IsFiniteSet(Answered(W))
  BY RequestsAssumption, FS_Subset DEF Answered
<1>2. QED
  BY <1>1, FS_CardinalityType

LEMMA AnswerIsCounted ==
  ASSUME TypeOK, NEW r \in Requests, pc[r] # "done", NEW w, Answer(r, w),
         NEW W, "none" \notin W, w \in W
  PROVE  Cardinality(Answered(W)') = Cardinality(Answered(W)) + 1
<1>1. Answered(W)' = Answered(W) \cup {r} /\ r \notin Answered(W)
  BY DEF Answered, Answer, TypeOK
<1>2. IsFiniteSet(Answered(W))
  BY RequestsAssumption, FS_Subset DEF Answered
<1>3. QED
  BY <1>1, <1>2, FS_AddElement

LEMMA AnswerNotCounted ==
  ASSUME TypeOK, NEW r \in Requests, pc[r] # "done", NEW w, Answer(r, w),
         NEW W, "none" \notin W, w \notin W
  PROVE  Answered(W)' = Answered(W)
BY DEF Answered, Answer, TypeOK

LEMMA LeaveBalances ==
  ASSUME IInv, Accounting, NEW r \in Requests, pc[r] \in InContext,
         NEW w \in {"accepted", "publish_timeout"} \cup Crashes, Leave(r, w)
  PROVE  Accounting'
<1> USE DEF IInv, Leave, InContext
<1>1. Cardinality(Answered(AfterReceipt)') = Cardinality(Answered(AfterReceipt)) + 1
  BY AnswerIsCounted DEF AfterReceipt, Crashes
<1>2. received' = inflight' + Cardinality(Answered(AfterReceipt)')
  BY <1>1, AnsweredCount DEF Accounting, TypeOK
<1>3. failures' = Cardinality(Answered(Metered)')
  <2>1. CASE w = "publish_timeout"
    BY <2>1, AnswerIsCounted, AnsweredCount DEF Accounting, Metered
  <2>2. CASE w # "publish_timeout"
    BY <2>2, AnswerNotCounted DEF Accounting, Metered, Crashes
  <2>3. QED
    BY <2>1, <2>2
<1>4. QED
  BY <1>2, <1>3 DEF Accounting

LEMMA NextAccounting == IInv /\ Accounting /\ [Next]_vars => Accounting'
<1> SUFFICES ASSUME IInv, Accounting, [Next]_vars PROVE Accounting'
  OBVIOUS
<1> USE DEF IInv
<1>0. ASSUME UNCHANGED <<reply, inflight, metricVars>> PROVE Accounting'
  BY <1>0 DEF Accounting, Answered, metricVars
<1>1. ASSUME NEW r \in Requests, pc[r] \in {"idle", "routed"},
             NEW w \in {"limited", "shutting_down", "signature_error"}, Answer(r, w),
             UNCHANGED <<inflight, metricVars>>
      PROVE  Accounting'
  BY <1>1, AnswerNotCounted
  DEF Accounting, AfterReceipt, Metered, Crashes, metricVars
<1>2. ASSUME NEW r \in Requests, RejectMalformed(r) PROVE Accounting'
  <2>0. CASE Rejected(r, "signature_error", FALSE)
    BY <1>1, <1>2, <2>0 DEF RejectMalformed, Admit, Rejected, metricVars
  <2> SUFFICES ASSUME ~Rejected(r, "signature_error", FALSE) PROVE Accounting'
    BY <2>0
  <2>1. PICK w \in {"invalid_signature", "invalid_payload"} : Rejected(r, w, TRUE)
    BY <1>2 DEF RejectMalformed
  <2>2. /\ pc[r] # "done" /\ Answer(r, w) /\ failures' = failures + 1
        /\ UNCHANGED <<inflight, received>>
    BY <1>2, <2>1 DEF RejectMalformed, Admit, Rejected
  <2>3. Answered(AfterReceipt)' = Answered(AfterReceipt)
    BY <2>2, AnswerNotCounted DEF AfterReceipt, Crashes
  <2>4. Cardinality(Answered(Metered)') = Cardinality(Answered(Metered)) + 1
    BY <2>2, AnswerIsCounted DEF Metered
  <2>5. QED
    BY <2>2, <2>3, <2>4, AnsweredCount DEF Accounting
<1>3. ASSUME NEW r \in Requests, RejectUnpublishable(r) PROVE Accounting'
  <2>1. PICK w \in {"nats_not_connected", "unknown_event_type"} : Rejected(r, w, TRUE)
    BY <1>3 DEF RejectUnpublishable
  <2>2. /\ pc[r] # "done" /\ Answer(r, w) /\ failures' = failures + 1
        /\ received' = received + 1 /\ UNCHANGED inflight
    BY <1>3, <2>1 DEF RejectUnpublishable, Admit, Rejected
  <2>3. Cardinality(Answered(AfterReceipt)') = Cardinality(Answered(AfterReceipt)) + 1
    BY <2>2, AnswerIsCounted DEF AfterReceipt, Crashes
  <2>4. Cardinality(Answered(Metered)') = Cardinality(Answered(Metered)) + 1
    BY <2>2, AnswerIsCounted DEF Metered
  <2>5. QED
    BY <2>2, <2>3, <2>4, AnsweredCount DEF Accounting, TypeOK
<1>4. ASSUME NEW r \in Requests, StartPublish(r) PROVE Accounting'
  <2>1. /\ Answered(AfterReceipt)' = Answered(AfterReceipt)
        /\ Answered(Metered)' = Answered(Metered)
        /\ received' = received + 1 /\ inflight' = inflight + 1 /\ failures' = failures
    BY <1>4 DEF StartPublish, Answered
  <2>2. received \in Nat /\ inflight \in Nat /\ Cardinality(Answered(AfterReceipt)) \in Nat
    BY AnsweredCount DEF TypeOK
  <2>3. QED
    BY <2>1, <2>2 DEF Accounting
<1>5. ASSUME NEW r \in Requests,
             Acked(r) \/ GiveUp(r) \/ Unhandled(r) \/ (Resend(r) /\ ~js)
      PROVE  Accounting'
  <2>1. pc[r] \in InContext
    BY <1>5 DEF Acked, GiveUp, Unhandled, Resend, InContext
  <2>2. PICK w \in {"accepted", "publish_timeout", "nats_error", "no_publisher"} :
          Leave(r, w)
    BY <1>5 DEF Acked, GiveUp, Unhandled, Resend
  <2>3. QED
    BY <2>1, <2>2, LeaveBalances DEF Crashes
<1>6. ASSUME NEW r \in Requests, RequestStep(r) PROVE Accounting'
  <2>1. CASE Limited(r)
    BY <1>1, <2>1 DEF Limited
  <2>2. CASE Route(r) \/ RejectShutdown(r)
    <3>1. CASE Answer(r, "shutting_down")
      BY <1>1, <2>2, <3>1 DEF Route, RejectShutdown, Rejected, metricVars
    <3>2. CASE ~Answer(r, "shutting_down")
      BY <1>0, <2>2, <3>2 DEF Route, RejectShutdown, Rejected
    <3>3. QED
      BY <3>1, <3>2
  <2>3. CASE RetryLater(r) \/ (Resend(r) /\ js)
    BY <1>0, <2>3 DEF RetryLater, Resend
  <2>4. QED
    BY <1>2, <1>3, <1>4, <1>5, <1>6, <2>1, <2>2, <2>3 DEF RequestStep
<1>7. CASE OnShutdownSignal \/ LifespanExit \/ ServerStep \/ LinkChanges \/ UNCHANGED vars
  BY <1>0, <1>7
  DEF OnShutdownSignal, LifespanExit, ServerStep, Poll, Disconnecting, LinkChanges, vars,
      requestVars
<1>8. QED
  BY <1>6, <1>7 DEF Next

-----------------------------------------------------------------------------
(***************************************************************************)
(* The refinement of Bridge: what is sent may persist, an answer settles.  *)
(***************************************************************************)
Outcomes == [r \in Requests |-> OutcomeOf(reply[r])]

LEMMA SendPersists ==
  ASSUME IInv, NEW r \in Requests, reply[r] = "none", UNCHANGED reply,
         stored[r] < Retries, NEW s \in BOOLEAN,
         stored' = [stored EXCEPT ![r] = IF s THEN @ + 1 ELSE @]
  PROVE  [Promise!Next]_Promise!vars
<1>1. CASE s
  <2>1. Outcomes[r] = "pending" /\ Outcomes' = Outcomes
    BY DEF Outcomes, OutcomeOf
  <2>2. stored' = [stored EXCEPT ![r] = @ + 1]
    BY <1>1
  <2>3. Promise!Persist(r)
    BY <2>1, <2>2 DEF Promise!Persist, Outcomes
  <2>4. QED
    BY <2>3 DEF Promise!Next
<1>2. CASE ~s
  <2>1. stored' = stored
    BY <1>2 DEF IInv, TypeOK
  <2>2. QED
    BY <2>1 DEF Promise!vars
<1>3. QED
  BY <1>1, <1>2

LEMMA AnswerSettles ==
  ASSUME IInv, NEW r \in Requests, reply[r] = "none", UNCHANGED stored,
         NEW w \in {"accepted"} \cup Refusals \cup Crashes, Answer(r, w),
         w = "accepted" => stored[r] > 0
  PROVE  [Promise!Next]_Promise!vars
<1>1. Outcomes[r] = "pending"
  BY DEF Outcomes, OutcomeOf
<1>2. Outcomes' = [Outcomes EXCEPT ![r] = OutcomeOf(w)]
  BY DEF Outcomes, OutcomeOf, Answer, IInv, TypeOK
<1>3. CASE w = "accepted"
  <2>1. Promise!Accept(r)
    BY <1>1, <1>2, <1>3 DEF Promise!Accept, Outcomes, OutcomeOf
  <2>2. QED
    BY <2>1 DEF Promise!Next
<1>4. CASE w # "accepted"
  <2>1. OutcomeOf(w) = "refused"
    BY <1>4 DEF OutcomeOf, Refusals, Crashes
  <2>2. Promise!Refuse(r)
    BY <1>1, <1>2, <2>1 DEF Promise!Refuse, Outcomes
  <2>3. QED
    BY <2>2 DEF Promise!Next
<1>5. QED
  BY <1>3, <1>4

LEMMA NextKeepsPromise == IInv /\ [Next]_vars => [Promise!Next]_Promise!vars
<1> SUFFICES ASSUME IInv, [Next]_vars PROVE [Promise!Next]_Promise!vars
  OBVIOUS
<1>0. ASSUME UNCHANGED <<reply, stored>> PROVE [Promise!Next]_Promise!vars
  BY <1>0 DEF Promise!vars
<1>1. \A r \in Requests : pc[r] # "done" => reply[r] = "none"
  BY DEF IInv, TypeOK
<1>2. ASSUME NEW r \in Requests, RequestStep(r) PROVE [Promise!Next]_Promise!vars
  <2>1. reply[r] = "none"
    BY <1>1, <1>2 DEF RequestStep, Limited, Route, RejectShutdown, RejectMalformed,
       RejectUnpublishable, StartPublish, Admit, Acked, RetryLater, GiveUp, Unhandled,
       Resend
  <2>2. CASE Limited(r) \/ Route(r) \/ RejectShutdown(r) \/ RejectMalformed(r)
             \/ RejectUnpublishable(r)
    <3>1. UNCHANGED stored
      BY <2>2 DEF Limited, Route, RejectShutdown, RejectMalformed, RejectUnpublishable,
                  Rejected
    <3>2. UNCHANGED reply \/ \E w \in Refusals : Answer(r, w)
      BY <2>2 DEF Limited, Route, RejectShutdown, RejectMalformed, RejectUnpublishable,
                  Rejected, Refusals
    <3>3. "accepted" \notin Refusals
      BY DEF Refusals
    <3>4. QED
      BY <1>0, <2>1, <3>1, <3>2, <3>3, AnswerSettles
  <2>3. CASE StartPublish(r)
    <3>1. stored[r] = 0 /\ Retries > 0
      BY <2>3, SettingsAssumption DEF StartPublish, Admit, IInv, TypeOK, SendsBounded
    <3>2. QED
      BY <2>1, <2>3, <3>1, SendPersists DEF StartPublish, Send
  <2>4. CASE Acked(r)
    BY <2>1, <2>4, AnswerSettles DEF Acked, Leave, IInv, SendsBounded
  <2>5. CASE GiveUp(r)
    BY <2>1, <2>5, AnswerSettles DEF GiveUp, Leave, Refusals
  <2>6. CASE Unhandled(r)
    BY <2>1, <2>6, AnswerSettles DEF Unhandled, Leave, Crashes
  <2>7. CASE RetryLater(r)
    BY <1>0, <2>7 DEF RetryLater
  <2>8. CASE Resend(r)
    <3>1. CASE Leave(r, "no_publisher")
      BY <2>1, <3>1, AnswerSettles DEF Leave, Crashes
    <3>2. CASE ~Leave(r, "no_publisher")
      <4>1. stored[r] < Retries
        <5>1. stored[r] =< attempt[r] /\ attempt[r] < Retries
          BY <2>8 DEF Resend, IInv, SendsBounded
        <5>2. stored[r] \in Nat /\ attempt[r] \in Nat /\ Retries \in Nat
          BY SettingsAssumption DEF IInv, TypeOK
        <5>3. QED
          BY <5>1, <5>2
      <4>2. UNCHANGED reply /\ Send(r)
        BY <2>8, <3>2 DEF Resend
      <4>3. QED
        BY <2>1, <4>1, <4>2, SendPersists DEF Send
    <3>3. QED
      BY <3>1, <3>2
  <2>9. QED
    BY <1>2, <2>2, <2>3, <2>4, <2>5, <2>6, <2>7, <2>8 DEF RequestStep
<1>3. CASE OnShutdownSignal \/ LifespanExit \/ ServerStep \/ LinkChanges \/ UNCHANGED vars
  BY <1>0, <1>3
  DEF OnShutdownSignal, LifespanExit, ServerStep, Poll, Disconnecting, LinkChanges, vars,
      requestVars
<1>4. QED
  BY <1>2, <1>3 DEF Next

-----------------------------------------------------------------------------
(***************************************************************************)
(* Theorems                                                                *)
(***************************************************************************)

(* Every variable of the gateway keeps its type.                           *)
THEOREM TypeCorrect == Spec => []TypeOK
BY Invariance, PTL DEF IInv

(* The number lifespan() polls is the number of requests in the context.   *)
THEOREM InflightIsExact == Spec => []InflightExact
BY Invariance, PTL DEF IInv

(* After a drain that ended on zero under a signal nobody publishes.       *)
THEOREM DrainedMeansQuiet == Spec => []CleanDrainIsFinal
BY Invariance, PTL DEF IInv, DrainOrder

(* No webhook is acknowledged that JetStream has not stored.               *)
THEOREM AckedMeansStored == Spec => []NoFalseAck
BY Invariance, PTL DEF IInv

(* Receipts and failures are counted once each, whatever the way out.      *)
THEOREM BooksBalance == Spec => []Accounting
<1>1. Init => Accounting
  <2> SUFFICES ASSUME Init PROVE Accounting
    OBVIOUS
  <2>1. Answered(AfterReceipt) = {} /\ Answered(Metered) = {}
    BY DEF Init, Answered, AfterReceipt, Metered, Crashes
  <2>2. QED
    BY <2>1, FS_EmptySet DEF Init, Accounting
<1>2. IInv /\ Accounting /\ [Next]_vars => Accounting'
  BY NextAccounting
<1>3. QED
  BY <1>1, <1>2, Invariance, PTL DEF Spec

(* The gateway implements the promise made to webhook senders.             *)
THEOREM GatewayKeepsPromise == Spec => KeepsPromise
<1>1. Init => Promise!Init
  BY DEF Init, Promise!Init, OutcomeOf
<1>2. IInv /\ [Next]_vars => [Promise!Next]_Promise!vars
  BY NextKeepsPromise
<1>3. QED
  BY <1>1, <1>2, Invariance, PTL DEF Spec, KeepsPromise, Promise!Spec
=============================================================================
