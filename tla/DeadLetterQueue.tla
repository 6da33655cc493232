--------------------------- MODULE DeadLetterQueue ---------------------------
(***************************************************************************)
(* What publish() keeps in memory about what it has published: the deque   *)
(* behind GET and DELETE /dead-letters with its metrics, and the LRU of    *)
(* active subjects.                                                        *)
(*                                                                         *)
(* A publish suspends once, for the acknowledgement of JetStream; all that *)
(* follows it is one step, and so is each of the two endpoints.  Several   *)
(* publishes wait at a time and are acknowledged in any order.  Retries    *)
(* change nothing here: see WebhookGateway.                                *)
(***************************************************************************)
EXTENDS Integers, Sequences, FiniteSets

CONSTANTS
  Requests,       \* publish() calls; the entry a call appends is named after it
  KnownSubjects,  \* hi.agents.> and hi.tasks.>
  DeadSubjects,   \* hi.deadletter.>
  Capacity,       \* settings.dead_letter_max_size
  AlertAt,        \* the least depth >= dead_letter_alert_threshold * capacity
  SubjectCaps,    \* what settings.active_subjects_max may be: 0 is accepted
  PageMax         \* settings.dead_letter_page_size_max

Subjects == KnownSubjects \cup DeadSubjects

ASSUME SizesAssumption ==
  /\ Capacity \in Nat \ {0} /\ AlertAt \in 1..Capacity
  /\ SubjectCaps \subseteq Nat /\ PageMax \in Nat \ {0}
ASSUME SubjectsAssumption == KnownSubjects \cap DeadSubjects = {}

VARIABLES
  pc,             \* each publish: "idle", "sent", "done", "failed"
  subject,        \* where it is published to
  durable,        \* publishes JetStream has stored (or will)
  queue,          \* _dead_letters, oldest first
  deadLetters,    \* DEAD_LETTERS, all labels
  evictions,      \* DEAD_LETTER_EVICTIONS
  alerts,         \* DEAD_LETTER_QUEUE_ALERTS
  depthGauge,     \* DEAD_LETTER_QUEUE_DEPTH
  maxSubjects,    \* _max_subjects
  active,         \* _active_subjects, least recently used first
  activeGauge,    \* ACTIVE_SUBJECTS
  drained,        \* ghost: the sum of what DELETE /dead-letters has answered
  history,        \* ghost: the subjects tracked so far
  seen            \* a client's walk over GET /dead-letters: entries so far

publishVars == <<pc, subject, durable>>
queueVars == <<queue, deadLetters, evictions, alerts, depthGauge>>
activeVars == <<maxSubjects, active, activeGauge, history>>
vars == <<publishVars, queueVars, activeVars, drained, seen>>

Init ==
  /\ pc = [r \in Requests |-> "idle"]
  /\ subject \in [Requests -> Subjects]
  /\ durable = {}
  /\ queue = <<>> /\ deadLetters = 0 /\ evictions = 0 /\ alerts = 0
  /\ depthGauge = 0
  /\ maxSubjects \in SubjectCaps /\ active = <<>> /\ activeGauge = 0 /\ history = <<>>
  /\ drained = 0 /\ seen = <<>>

Elements(s) == {s[i] : i \in 1..Len(s)}

-----------------------------------------------------------------------------
(***************************************************************************)
(* publish(): the message, and its fate                                    *)
(***************************************************************************)
Send(r) ==
  /\ pc[r] = "idle"
  /\ pc' = [pc EXCEPT ![r] = "sent"]
  /\ durable' \in {durable, durable \cup {r}}
  /\ UNCHANGED <<subject, queueVars, activeVars, drained, seen>>

(* The await raises, whether or not the message was stored.                *)
Fail(r) ==
  /\ pc[r] = "sent"
  /\ pc' = [pc EXCEPT ![r] = "failed"]
  /\ UNCHANGED <<subject, durable, queueVars, activeVars, drained, seen>>

AckedBlindly(r) == pc[r] = "sent"              \* faulty: fire and forget
Acked(r) == pc[r] = "sent" /\ r \in durable

-----------------------------------------------------------------------------
(***************************************************************************)
(* _track_subject                                                          *)
(***************************************************************************)
(* move_to_end() of a key, which occurs once.                              *)
Without(s) ==
  LET i == CHOOSE i \in 1..Len(active) : active[i] = s
  IN  SubSeq(active, 1, i - 1) \o SubSeq(active, i + 1, Len(active))

TouchInPlace(s) ==                             \* faulty: a hit moves nothing
  IF s \in Elements(active) THEN active
  ELSE Append(IF Len(active) >= maxSubjects THEN Tail(active) ELSE active, s)

Touch(s) ==
  IF s \in Elements(active) THEN Append(Without(s), s)
  ELSE Append(IF Len(active) >= maxSubjects THEN Tail(active) ELSE active, s)

(* popitem() of an empty OrderedDict is a KeyError.                        *)
Trackable(s) == s \in Elements(active) \/ Len(active) < maxSubjects \/ active # <<>>

Track(s) ==
  /\ Trackable(s) /\ UNCHANGED maxSubjects
  /\ active' = Touch(s)
  /\ activeGauge' = Len(active')
  /\ history' = Append(history, s)

-----------------------------------------------------------------------------
(***************************************************************************)
(* publish() after the acknowledgement                                     *)
(***************************************************************************)
Finish(r) == pc' = [pc EXCEPT ![r] = "done"] /\ UNCHANGED <<subject, durable>>
Raise(r) == pc' = [pc EXCEPT ![r] = "failed"] /\ UNCHANGED <<subject, durable>>

PushUnbounded(r) == Append(queue, r)           \* faulty: no maxlen
PushLeft(r) ==                                 \* faulty: newest first
  <<r>> \o (IF Len(queue) = Capacity THEN SubSeq(queue, 1, Capacity - 1) ELSE queue)
Push(r) == Append(IF Len(queue) = Capacity THEN Tail(queue) ELSE queue, r)

(* Faulty: eviction sought in the length after the append (issue #533).    *)
CountEvictionLate == evictions' = IF Len(queue') > Capacity THEN evictions + 1 ELSE evictions
CountEviction == evictions' = IF Len(queue) = Capacity THEN evictions + 1 ELSE evictions

(* Decided by the depth after every append, not by its crossing the        *)
(* threshold: at a full queue each eviction is counted.                    *)
Alert == alerts' = IF Len(queue') >= AlertAt THEN alerts + 1 ELSE alerts

PublishKnown(r) ==
  /\ Acked(r) /\ subject[r] \in KnownSubjects
  /\ Track(subject[r])
  /\ Finish(r)
  /\ UNCHANGED <<queueVars, drained, seen>>

DeadLetter(r) ==
  /\ Acked(r) /\ subject[r] \in DeadSubjects
  /\ queue' = Push(r)
  /\ deadLetters' = deadLetters + 1
  /\ Track(subject[r])
  /\ CountEviction
  /\ depthGauge' = Len(queue')
  /\ Alert
  /\ Finish(r)
  /\ UNCHANGED <<drained, seen>>

(* _track_subject raises: what precedes it stays, what follows is skipped. *)
TrackRaises(r) ==
  /\ Acked(r) /\ ~Trackable(subject[r])
  /\ \/ subject[r] \in KnownSubjects /\ UNCHANGED <<queue, deadLetters>>
     \/ /\ subject[r] \in DeadSubjects
        /\ queue' = Push(r) /\ deadLetters' = deadLetters + 1
  /\ Raise(r)
  /\ UNCHANGED <<evictions, alerts, depthGauge, activeVars, drained, seen>>

-----------------------------------------------------------------------------
(***************************************************************************)
(* The endpoints                                                           *)
(***************************************************************************)
DrainKeepsGauge ==                             \* faulty: the gauge is not reset
  /\ drained' = drained + Len(queue)
  /\ queue' = <<>>
  /\ UNCHANGED <<publishVars, deadLetters, evictions, alerts, depthGauge,
                 activeVars, seen>>

Drain ==
  /\ drained' = drained + Len(queue)
  /\ queue' = <<>> /\ depthGauge' = 0
  /\ UNCHANGED <<publishVars, deadLetters, evictions, alerts, activeVars, seen>>

(* s[from : to] of Python: negative positions count from the end.          *)
Position(i, n) == IF i < 0 THEN (IF n + i < 0 THEN 0 ELSE n + i) ELSE IF i > n THEN n ELSE i
Slice(s, from, to) == SubSeq(s, Position(from, Len(s)) + 1, Position(to, Len(s)))

(* The items GET /dead-letters answers with, once the limit is accepted.   *)
Accepted(limit) == limit =< PageMax
Page(offset, limit) == Slice(queue, offset, offset + limit)

(* A client asks for the page after the entries it has; an empty page ends *)
(* its walk.                                                               *)
Walk(limit) ==
  /\ Accepted(limit)
  /\ LET items == Page(Len(seen), limit)
     IN  seen' = IF items = <<>> THEN <<>> ELSE seen \o items
  /\ UNCHANGED <<publishVars, queueVars, activeVars, drained>>

-----------------------------------------------------------------------------
Next ==
  \/ \E r \in Requests :
       Send(r) \/ Fail(r) \/ PublishKnown(r) \/ DeadLetter(r) \/ TrackRaises(r)
  \/ Drain
  \/ \E limit \in (-PageMax)..PageMax : Walk(limit)

Spec == Init /\ [][Next]_vars

-----------------------------------------------------------------------------
(***************************************************************************)
(* Properties                                                              *)
(***************************************************************************)
TypeOK ==
  /\ pc \in [Requests -> {"idle", "sent", "done", "failed"}]
  /\ subject \in [Requests -> Subjects] /\ durable \subseteq Requests
  /\ queue \in Seq(Requests) /\ Len(queue) =< Capacity
  /\ deadLetters \in Nat /\ evictions \in Nat /\ alerts \in Nat /\ depthGauge \in Nat
  /\ active \in Seq(Subjects) /\ activeGauge \in Nat /\ history \in Seq(Subjects)
  /\ maxSubjects \in SubjectCaps /\ drained \in Nat /\ seen \in Seq(Requests)

(* As long as a subject can be tracked at all, the gauge scraped by        *)
(* Prometheus and the queue an operator reads never disagree, through      *)
(* appends, evictions and drains; where none can, and tracking raises half *)
(* way through the update, the gauge still never overstates the queue.     *)
DepthGaugeExact ==
  /\ depthGauge =< Len(queue)
  /\ maxSubjects > 0 => depthGauge = Len(queue)

(* Every dead letter is accounted for: it is still in view, or its         *)
(* eviction was counted, or a DELETE reported it (issue #533).  Where      *)
(* tracking raises evictions go uncounted, but nothing is counted twice.   *)
Conservation ==
  /\ Len(queue) + evictions + drained =< deadLetters
  /\ maxSubjects > 0 => deadLetters = Len(queue) + evictions + drained

(* The view is never ahead of JetStream (ADR-002: the durable copy is      *)
(* published before the deque append, so an eviction loses no data).       *)
ViewIsDurable == Elements(queue) \cup Elements(seen) \subseteq durable

(* An operator who walks the pages while events arrive, age out and are    *)
(* drained may miss entries but never reads the same one twice, not even   *)
(* with the negative limits that the endpoint lets through and that slice  *)
(* from the end.                                                           *)
WalkNeverRepeats ==
  \A i, j \in 1..Len(seen) : seen[i] = seen[j] => i = j

(* t was used after the last use of s.                                     *)
UsedAfter(t, s) ==
  \E j \in 1..Len(history) :
    history[j] = t /\ \A i \in j..Len(history) : history[i] # s

(* The tracked subjects are exactly the _max_subjects most recently        *)
(* published to, in the order of their last use, whatever was evicted and  *)
(* came back in between, and the gauge counts them.  (GET /subjects sorts  *)
(* them by name.)                                                          *)
LruIsMostRecent ==
  /\ Elements(active) = {s \in Elements(history) :
       Cardinality({t \in Subjects : UsedAfter(t, s)}) < maxSubjects}
  /\ \A i, j \in 1..Len(active) : i < j => UsedAfter(active[j], active[i])
  /\ activeGauge = Cardinality(Elements(active))
=============================================================================
