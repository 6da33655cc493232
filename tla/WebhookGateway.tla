--------------------------- MODULE WebhookGateway ---------------------------
(***************************************************************************)
(* POST /webhook of hermes.server from the middleware to the reply, the    *)
(* in-flight counter, the shutdown signal, and the drain that lifespan()   *)
(* performs before it disconnects the publisher.                           *)
(*                                                                         *)
(* The publisher is seen through ConnectionContract, which NatsPublisher   *)
(* implements; JetStream through what a js.publish() may do.  Steps are    *)
(* the code between two awaits.  _inflight_lock is never held across an    *)
(* await, so taking it never suspends: a request goes from the end of its  *)
(* body to the first js.publish(), or to its rejection, in one step.       *)
(***************************************************************************)
EXTENDS Naturals, FiniteSets

CONSTANTS
  Requests,           \* webhook deliveries
  Retries,            \* settings.publish_retries
  Polls,              \* drain polls that fit in settings.shutdown_timeout
  HmacEnabled         \* settings.webhook_secret is set

ASSUME RequestsAssumption == IsFiniteSet(Requests)
ASSUME SettingsAssumption ==
  /\ Retries \in Nat \ {0} /\ Polls \in Nat \ {0}
  /\ HmacEnabled \in BOOLEAN

VARIABLES
  pc,          \* where each request is suspended
  reply,       \* how it was answered: the reason, "accepted" or "none"
  attempt,     \* js.publish() calls made for it
  stored,      \* copies of it JetStream has stored (or will: see Send)
  ackable,     \* whether the last one sent is among them
  inflight,    \* _inflight
  received,    \* WEBHOOKS_RECEIVED, all labels
  failures,    \* WEBHOOKS_FAILED, all labels
  shutdown,    \* _shutdown_event.is_set()
  server,      \* how far lifespan() is past its yield
  elapsed,     \* drain polls slept through
  cleanDrain,  \* ghost: the drain ended on zero, with the event set
  deadLetter,  \* publisher._enable_dead_letter, as configured
  js, up, looping, call \* the publisher: see ConnectionContract

requestVars == <<pc, reply, attempt, stored, ackable>>
metricVars == <<received, failures>>
serverVars == <<shutdown, server, elapsed, cleanDrain>>
linkVars == <<deadLetter, js, up, looping, call>>
vars == <<requestVars, inflight, metricVars, serverVars, linkVars>>

Publisher == INSTANCE ConnectionContract

InContext == {"publish", "deadletter", "backoff"}   \* inside _inflight_context
Inside == {r \in Requests : pc[r] \in InContext}

(* Startup is over, connected or degraded.                                 *)
Init ==
  /\ pc = [r \in Requests |-> "idle"] /\ reply = [r \in Requests |-> "none"]
  /\ attempt = [r \in Requests |-> 0] /\ stored = [r \in Requests |-> 0]
  /\ ackable = [r \in Requests |-> FALSE]
  /\ inflight = 0 /\ received = 0 /\ failures = 0
  /\ shutdown = FALSE /\ server = "serving" /\ elapsed = 0 /\ cleanDrain = FALSE
  /\ deadLetter \in BOOLEAN
  /\ js \in BOOLEAN /\ up \in {FALSE, js} /\ looping \in BOOLEAN /\ call = "none"

-----------------------------------------------------------------------------
(***************************************************************************)
(* Before the handler                                                      *)
(***************************************************************************)
Answer(r, what) ==
  /\ pc' = [pc EXCEPT ![r] = "done"]
  /\ reply' = [reply EXCEPT ![r] = what]

(* 413 from PayloadSizeLimitMiddleware, outside ShutdownMiddleware, or 429 *)
(* from the rate limit of the route, inside it: see RequestPipeline.       *)
Limited(r) ==
  /\ pc[r] = "routed" \/ (pc[r] = "idle" /\ server # "exited")
  /\ Answer(r, "limited")
  /\ UNCHANGED <<attempt, stored, ackable, inflight, metricVars, serverVars, linkVars>>

(* ShutdownMiddleware.dispatch; call_next and the body are awaits.         *)
Route(r) ==
  /\ pc[r] = "idle" /\ server # "exited"
  /\ \/ shutdown /\ Answer(r, "shutting_down")
     \/ ~shutdown /\ pc' = [pc EXCEPT ![r] = "routed"] /\ UNCHANGED reply
  /\ UNCHANGED <<attempt, stored, ackable, inflight, metricVars, serverVars, linkVars>>

-----------------------------------------------------------------------------
(***************************************************************************)
(* _handle_webhook up to publisher.publish()                               *)
(***************************************************************************)

(* Leaving the context early undoes the increment within the step.         *)
Rejected(r, what, counted) ==
  /\ Answer(r, what)
  /\ failures' = IF counted THEN failures + 1 ELSE failures
  /\ UNCHANGED <<attempt, stored, ackable, inflight, serverVars, linkVars>>

AdmitAlways(r) == pc[r] = "routed"             \* faulty: no second check (#440)
Admit(r) == pc[r] = "routed" /\ ~shutdown

RejectShutdown(r) ==
  /\ pc[r] = "routed" /\ shutdown
  /\ Rejected(r, "shutting_down", FALSE)
  /\ UNCHANGED received

(* hmac.compare_digest raises a TypeError, which nobody catches, for a     *)
(* header that is not ASCII: a 500, and no failure counted.                *)
RejectMalformed(r) ==
  /\ Admit(r)
  /\ \/ HmacEnabled /\ Rejected(r, "invalid_signature", TRUE)
     \/ HmacEnabled /\ Rejected(r, "signature_error", FALSE)
     \/ Rejected(r, "invalid_payload", TRUE)
  /\ UNCHANGED received

RejectUnpublishable(r) ==
  /\ Admit(r)
  /\ \/ ~up /\ Rejected(r, "nats_not_connected", TRUE)
     \/ up /\ ~deadLetter /\ Rejected(r, "unknown_event_type", TRUE)
  /\ received' = received + 1

(* A message is sent; JetStream stores it, now or later, or it is lost.    *)
Send(r) ==
  \E s \in BOOLEAN :
    /\ ackable' = [ackable EXCEPT ![r] = s]
    /\ stored' = [stored EXCEPT ![r] = IF s THEN @ + 1 ELSE @]

(* A known event is published with retries, an unknown one dead-lettered.  *)
StartPublish(r) ==
  /\ Admit(r) /\ up
  /\ received' = received + 1 /\ inflight' = inflight + 1
  /\ \/ pc' = [pc EXCEPT ![r] = "publish"]
     \/ deadLetter /\ pc' = [pc EXCEPT ![r] = "deadletter"]
  /\ attempt' = [attempt EXCEPT ![r] = 1]
  /\ Send(r)
  /\ UNCHANGED <<reply, failures, serverVars, linkVars>>

-----------------------------------------------------------------------------
(***************************************************************************)
(* publisher.publish() and the end of the handler                          *)
(***************************************************************************)

(* _inflight_context decrements on every way out.                          *)
LeaveNoFinally(r, what) ==                     \* faulty: no decrement on a raise
  /\ Answer(r, what)
  /\ inflight' = IF what = "nats_error" THEN inflight ELSE inflight - 1
  /\ failures' = IF what = "publish_timeout" THEN failures + 1 ELSE failures
  /\ UNCHANGED <<attempt, stored, ackable, received, serverVars, linkVars>>

LeaveUnmetered(r, what) ==                     \* faulty: a timeout not counted
  /\ Answer(r, what)
  /\ inflight' = inflight - 1
  /\ UNCHANGED <<attempt, stored, ackable, metricVars, serverVars, linkVars>>

Leave(r, what) ==
  /\ Answer(r, what)
  /\ inflight' = inflight - 1
  /\ failures' = IF what = "publish_timeout" THEN failures + 1 ELSE failures
  /\ UNCHANGED <<attempt, stored, ackable, received, serverVars, linkVars>>

AckedBlindly(r) ==                             \* faulty: fire and forget
  /\ pc[r] \in {"publish", "deadletter"}
  /\ Leave(r, "accepted")

Acked(r) ==
  /\ pc[r] \in {"publish", "deadletter"} /\ ackable[r]
  /\ Leave(r, "accepted")

(* An error of _RETRYABLE_PUBLISH_ERRORS with attempts left: sleep.        *)
RetryForever(r) ==                             \* faulty: attempts not limited
  /\ pc[r] = "publish"
  /\ pc' = [pc EXCEPT ![r] = "backoff"]
  /\ UNCHANGED <<reply, attempt, stored, ackable, inflight, metricVars, serverVars,
                 linkVars>>

RetryLater(r) ==
  /\ pc[r] = "publish" /\ attempt[r] < Retries
  /\ pc' = [pc EXCEPT ![r] = "backoff"]
  /\ UNCHANGED <<reply, attempt, stored, ackable, inflight, metricVars, serverVars,
                 linkVars>>

(* The last attempt's error, or the only one of a dead letter: TimeoutError*)
(* becomes 503; the others, the transient ones included, are not caught.   *)
GiveUp(r) ==
  /\ pc[r] = "publish" => attempt[r] = Retries
  /\ pc[r] \in {"publish", "deadletter"}
  /\ Leave(r, "publish_timeout")

(* Any NATS error that is not retried, or that ends the last attempt and   *)
(* is not a TimeoutError (NoRespondersError, StaleConnectionError, a closed*)
(* connection ...) propagates: the server answers 500.                     *)
Unhandled(r) ==
  /\ pc[r] \in {"publish", "deadletter"}
  /\ Leave(r, "nats_error")

ResendUncounted(r) ==                          \* faulty: the same attempt again
  /\ pc[r] = "backoff" /\ js
  /\ pc' = [pc EXCEPT ![r] = "publish"]
  /\ UNCHANGED <<reply, attempt, stored, ackable, inflight, metricVars, serverVars,
                 linkVars>>

(* self._js is read again for every attempt: after disconnect() it is None.*)
Resend(r) ==
  /\ pc[r] = "backoff"
  /\ \/ /\ js
        /\ pc' = [pc EXCEPT ![r] = "publish"]
        /\ attempt' = [attempt EXCEPT ![r] = @ + 1]
        /\ Send(r)
        /\ UNCHANGED <<reply, inflight, metricVars, serverVars, linkVars>>
     \/ ~js /\ Leave(r, "no_publisher")          \* AttributeError: 500

-----------------------------------------------------------------------------
(***************************************************************************)
(* Signal, drain and disconnect                                            *)
(***************************************************************************)
OnShutdownSignal ==
  /\ ~shutdown /\ shutdown' = TRUE
  /\ UNCHANGED <<requestVars, inflight, metricVars, server, elapsed, cleanDrain, linkVars>>

(* The ASGI server ends the lifespan: with or without a signal, and with   *)
(* requests still running if it is forced to.                              *)
LifespanExit ==
  /\ server = "serving" /\ server' = "draining"
  /\ UNCHANGED <<requestVars, inflight, metricVars, shutdown, elapsed, cleanDrain, linkVars>>

(* One turn of the drain loop; disconnect() starts in the step that leaves *)
(* it, on zero or at the deadline.                                         *)
PollWithoutDeadline ==                         \* faulty: elapsed never advances
  /\ server = "draining"
  /\ inflight = 0
  /\ server' = "disconnecting"
  /\ cleanDrain' = shutdown
  /\ Publisher!Begin("disconnect")
  /\ UNCHANGED <<requestVars, inflight, metricVars, shutdown, elapsed, deadLetter>>

Poll ==
  /\ server = "draining"
  /\ \/ /\ elapsed < Polls /\ inflight # 0
        /\ elapsed' = elapsed + 1
        /\ UNCHANGED <<server, cleanDrain, linkVars>>
     \/ /\ elapsed = Polls \/ inflight = 0
        /\ server' = "disconnecting"
        /\ cleanDrain' = (elapsed < Polls /\ shutdown)
        /\ Publisher!Begin("disconnect")
        /\ UNCHANGED <<elapsed, deadLetter>>
  /\ UNCHANGED <<requestVars, inflight, metricVars, shutdown>>

(* disconnect() stops the loop, then drops _js unless its drain() raised.  *)
Disconnecting ==
  /\ server = "disconnecting"
  /\ \/ looping /\ Publisher!LoopEnds /\ UNCHANGED server
     \/ Publisher!DisconnectEnds /\ server' = "exited"
  /\ UNCHANGED <<requestVars, inflight, metricVars, shutdown, elapsed, cleanDrain,
                 deadLetter>>

(* The publisher on its own.                                               *)
LinkChanges ==
  /\ Publisher!LinkUp \/ Publisher!LinkDown
  /\ UNCHANGED <<requestVars, inflight, metricVars, serverVars, deadLetter>>

-----------------------------------------------------------------------------
RequestStep(r) ==
  \/ Limited(r) \/ Route(r)
  \/ RejectShutdown(r) \/ RejectMalformed(r) \/ RejectUnpublishable(r)
  \/ StartPublish(r)
  \/ Acked(r) \/ RetryLater(r) \/ GiveUp(r) \/ Unhandled(r) \/ Resend(r)

ServerStep == Poll \/ Disconnecting

Next ==
  \/ \E r \in Requests : RequestStep(r)
  \/ OnShutdownSignal \/ LifespanExit \/ ServerStep \/ LinkChanges

Spec == Init /\ [][Next]_vars

(***************************************************************************)
(* Every await inside the context is bounded (publish_timeout, the sleep   *)
(* of the backoff), and so is every await of the shutdown: the two         *)
(* fairness conditions.  Each liveness property assumes only the one it    *)
(* rests on.  No fairness is asked of the sender, the signal or the link.  *)
(***************************************************************************)
Finish(r) == Acked(r) \/ RetryLater(r) \/ GiveUp(r) \/ Unhandled(r) \/ Resend(r)
RequestFairness == \A r \in Requests : WF_vars(Finish(r))
ServerFairness == WF_vars(ServerStep)

ServerSpec == Spec /\ ServerFairness

-----------------------------------------------------------------------------
(***************************************************************************)
(* Properties                                                              *)
(***************************************************************************)
Refusals == {"limited", "shutting_down", "invalid_signature", "signature_error",
             "invalid_payload", "nats_not_connected", "unknown_event_type", "publish_timeout"}
Crashes == {"nats_error", "no_publisher"}
Metered == {"invalid_signature", "invalid_payload", "nats_not_connected",
            "unknown_event_type", "publish_timeout"}
AfterReceipt == {"accepted", "nats_not_connected", "unknown_event_type",
                 "publish_timeout"} \cup Crashes

Answered(replies) == {r \in Requests : reply[r] \in replies}

TypeOK ==
  /\ pc \in [Requests -> {"idle", "routed", "done"} \cup InContext]
  /\ reply \in [Requests -> {"none", "accepted"} \cup Refusals \cup Crashes]
  /\ \A r \in Requests : reply[r] = "none" <=> pc[r] # "done"
  /\ attempt \in [Requests -> 0..Retries]
  /\ stored \in [Requests -> 0..Retries] /\ ackable \in [Requests -> BOOLEAN]
  /\ inflight \in Nat /\ received \in Nat /\ failures \in Nat
  /\ shutdown \in BOOLEAN /\ cleanDrain \in BOOLEAN
  /\ server \in {"serving", "draining", "disconnecting", "exited"}
  /\ elapsed \in 0..Polls
  /\ deadLetter \in BOOLEAN
  /\ Publisher!TypeOK /\ (up => js)

(* The counter the drain polls is the number of requests that entered      *)
(* _inflight_context and have not left it, whatever way they leave.        *)
InflightExact == inflight = Cardinality(Inside)

(* Issues #440 and #441: if the drain ended on zero after a signal, then   *)
(* from the moment disconnect() starts no request is publishing, and none  *)
(* that had already passed ShutdownMiddleware can start to.                *)
CleanDrainIsFinal == cleanDrain => Inside = {}

(* ADR-001: 202 is only ever answered for an event JetStream has stored.   *)
NoFalseAck == \A r \in Requests : reply[r] = "accepted" => stored[r] > 0

(* Every webhook counted as received is in flight or was answered after    *)
(* its receipt, and the failure counter is the number of failures that     *)
(* have a reason label: none is missed, none is counted twice.             *)
Accounting ==
  /\ received = inflight + Cardinality(Answered(AfterReceipt))
  /\ failures = Cardinality(Answered(Metered))

(* A request that entered the context is answered, because every await of  *)
(* it ends and the attempts are bounded, whatever the link and the         *)
(* shutdown do meanwhile.                                                  *)
InflightTerminates ==
  RequestFairness => \A r \in Requests : pc[r] \in InContext ~> pc[r] = "done"

(* shutdown_timeout bounds the drain even if a publish never returns.      *)
DrainIsBounded == server = "draining" ~> server = "exited"

OutcomeOf(answer) ==
  IF answer = "none" THEN "pending"
  ELSE IF answer = "accepted" THEN "accepted" ELSE "refused"

Promise == INSTANCE Bridge WITH
  Events <- Requests,
  Limit <- Retries,
  outcome <- [r \in Requests |-> OutcomeOf(reply[r])],
  durable <- stored

(* The gateway keeps the promise made to webhook senders: see Bridge.      *)
KeepsPromise == Promise!Spec

-----------------------------------------------------------------------------
(***************************************************************************)
(* What the documentation says and the code does not do.                   *)
(***************************************************************************)

(* "signature/payload/connectivity failures map to 401/422/503"            *)
(* (server.py:478).  Only TimeoutError is caught around publish().         *)
ConnectivityFailuresAreMapped == \A r \in Requests : reply[r] \notin Crashes
=============================================================================
