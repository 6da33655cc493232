------------------------------ MODULE Lifespan ------------------------------
(***************************************************************************)
(* How the application drives the publisher: lifespan() and                *)
(* _connect_with_retries() of hermes.server.  Startup makes a bounded      *)
(* number of connect() attempts, each under wait_for; it serves whatever   *)
(* the outcome; shutdown ends in one disconnect().  The drain of in-flight *)
(* requests before it does not touch the publisher: see WebhookGateway.    *)
(***************************************************************************)
EXTENDS NatsPublisher, FiniteSets

CONSTANT Attempts       \* settings.nats_retry_attempts, at least 1

ASSUME AttemptsAssumption == Attempts \in Nat \ {0}

VARIABLES
  phase,     \* how far lifespan() is
  attempt,   \* connect() attempts made by _connect_with_retries
  degraded   \* last_exc is not None: every attempt failed

lifespanVars == <<phase, attempt, degraded>>
allVars == <<vars, lifespanVars>>

LifespanInit ==
  /\ Init
  /\ phase = "starting" /\ attempt = 0 /\ degraded = FALSE

(* The first attempt, and each retry once its sleep is over.               *)
TryConnectUncounted ==                       \* faulty: the loop never counts
  /\ phase \in {"starting", "backoff"} /\ phase' = "connecting"
  /\ BeginConnect
  /\ UNCHANGED <<attempt, degraded>>

TryConnect ==
  /\ phase \in {"starting", "backoff"} /\ phase' = "connecting"
  /\ attempt' = attempt + 1
  /\ BeginConnect
  /\ UNCHANGED degraded

DialReturns ==
  /\ phase = "connecting"
  /\ \E c \in Clients : DialSucceeds(Caller, c)
  /\ UNCHANGED lifespanVars

TryRaisesOnceMore ==                         \* faulty: one attempt too many
  /\ phase = "connecting"
  /\ ConnectRaises
  /\ IF attempt =< Attempts
       THEN phase' = "backoff" /\ UNCHANGED degraded
       ELSE phase' = "serving" /\ degraded' = TRUE
  /\ UNCHANGED attempt

TryRaises ==
  /\ phase = "connecting"
  /\ ConnectRaises
  /\ IF attempt < Attempts
       THEN phase' = "backoff" /\ UNCHANGED degraded
       ELSE phase' = "serving" /\ degraded' = TRUE
  /\ UNCHANGED attempt

TryReturns ==
  /\ phase = "connecting"
  /\ ConnectEnsured
  /\ phase' = IF pc'[Caller] = "idle" THEN "serving" ELSE phase
  /\ UNCHANGED <<attempt, degraded>>

(* After the yield: disconnect(), in one step or in several.               *)
Shutdown ==
  /\ \/ phase = "serving" /\ BeginDisconnect
     \/ phase = "stopping" /\ (DisconnectJoined \/ DrainCompletes \/ DrainRaises)
  /\ phase' = IF pc'[Caller] = "idle" THEN "stopped" ELSE "stopping"
  /\ UNCHANGED <<attempt, degraded>>

Startup == TryConnect \/ DialReturns \/ TryRaises \/ TryReturns

Background ==
  /\ (\E t \in Tasks : LoopStep(t)) \/ Environment
  /\ UNCHANGED lifespanVars

LifespanNext == Startup \/ Shutdown \/ Background

LifespanSpec == LifespanInit /\ [][LifespanNext]_allVars

(* Startup never stops half way, a loop's sleeps and attempts end, a dial  *)
(* that is retried for ever against a running server succeeds in the end.  *)
(* Nothing obliges the operator to shut the service down.                  *)
LifespanFairness ==
  /\ WF_allVars(Startup)
  /\ \A t \in Tasks :
       /\ WF_allVars(LoopStep(t) /\ UNCHANGED lifespanVars)
       /\ SF_allVars((\E c \in Clients : DialSucceeds(t, c)) /\ UNCHANGED lifespanVars)
  /\ \A c \in Clients : WF_allVars(OnDisconnected(c) /\ UNCHANGED lifespanVars)

FairLifespanSpec == LifespanSpec /\ LifespanFairness

-----------------------------------------------------------------------------
(***************************************************************************)
(* Properties                                                              *)
(***************************************************************************)

LifespanTypeOK ==
  /\ TypeOK
  /\ phase \in {"starting", "connecting", "backoff", "serving", "stopping", "stopped"}
  /\ attempt \in 0..Attempts /\ degraded \in BOOLEAN
  /\ phase = "connecting" <=> pc[Caller] \in {"dial", "ensure", "join"}
  /\ phase = "stopping" <=> pc[Caller] \in {"stop", "drain"}

(* A service that started on a connection keeps its reconnect loop for as  *)
(* long as it serves: no failed attempt, lost client or late callback ends *)
(* the loop.                                                               *)
LoopOutlivesFailures == phase = "serving" /\ ~degraded => LoopActive

(* Clients that are connected and that no field refers to any more: no     *)
(* disconnect() will ever close them.                                      *)
Orphans == {c \in Clients : ~IsClosed(c) /\ c # nc}

(* Startup may leave the client of a failed attempt behind, one for each   *)
(* attempt that another one followed.  The loop leaves none, although it   *)
(* decides to dial before the await in which it dials: however long the    *)
(* service runs and however often NATS goes, the leak does not grow.       *)
LeaksAreBounded == Cardinality(Orphans) =< IF attempt = 0 THEN 0 ELSE attempt - 1

(* Startup ends, connected or degraded, whatever NATS does.                *)
StartupTerminates == phase = "starting" ~> phase \in {"serving", "stopping", "stopped"}

(* From some point on NATS can be dialled and closes no connection.        *)
NatsSettles ==
  <>[]natsUp /\ <>[][\A c \in Clients : status[c] = "open" => status'[c] # "closed"]_allVars

Linked == nc # None /\ status[nc] = "open"

(* Once NATS settles, a service that started on a connection ends up with  *)
(* an open client, or is shut down.                                        *)
LoopRestoresClient ==
  NatsSettles => <>[](Linked \/ degraded \/ phase \in {"stopping", "stopped"})

-----------------------------------------------------------------------------
(***************************************************************************)
(* What the documentation says and the code does not do: each is checked   *)
(* by a run that expects TLC to violate it.                                *)
(***************************************************************************)

(* "starting in degraded mode - /health will return 503" (server.py:139).  *)
(* An attempt that opened the client and then failed in _ensure_streams    *)
(* leaves is_connected true, so /health answers 200.                       *)
DegradedIsUnhealthy == phase = "serving" /\ degraded => ~IsConnected

(* "/webhook will return 503 until NATS recovers" (server.py:129).  No     *)
(* loop runs after a degraded start, so nothing notices the recovery.      *)
DegradedRecovers ==
  NatsSettles => [](phase = "serving" /\ degraded => <>(Linked \/ phase # "serving"))

(* "/health accurately reflects both connection state ..." (ADR-004). A    *)
(* disconnected_cb of an earlier client clears the flag of the publisher   *)
(* while the client in use is open, and no later step sets it again.       *)
HealthReflectsLink ==
  phase = "serving" /\ Linked /\ callbackDue = {} => IsConnected
=============================================================================
