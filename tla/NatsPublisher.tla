--------------------------- MODULE NatsPublisher ---------------------------
(***************************************************************************)
(* The connection lifecycle of hermes.publisher.Publisher: connect(),      *)
(* disconnect(), the background reconnect loop, and the nats-py client     *)
(* they own.                                                               *)
(*                                                                         *)
(* Everything runs on one asyncio event loop, so the code between two      *)
(* awaits is one step.  The actors are the coroutine that calls the API    *)
(* (Caller, one call at a time, as the application lifespan does) and the  *)
(* reconnect tasks it has spawned.  pc[a] names the await the actor is     *)
(* suspended at.                                                           *)
(*                                                                         *)
(* _js is assigned and cleared in the same steps as _nc, so nc stands for  *)
(* both.  last_error and last_reconnect_attempt_at are texts no property   *)
(* tells apart and are left out.  _ensure_streams is one await, "ensure":  *)
(* what it does on the server is not the lifecycle's concern.              *)
(***************************************************************************)
EXTENDS Naturals

CONSTANTS
  Clients,        \* nats-py Client objects
  Tasks,          \* asyncio tasks running _reconnect_loop
  Caller,         \* the coroutine that calls connect() and disconnect()
  None,           \* Python's None
  MaxExponent,    \* where failed_attempts saturates: 32 in the code
  CounterBound    \* bound on the two diagnostic counters of the model

ASSUME ActorsAssumption == Caller \notin Tasks /\ None \notin Tasks \cup Clients
ASSUME BoundsAssumption ==
  MaxExponent \in Nat /\ CounterBound \in Nat /\ MaxExponent =< CounterBound

VARIABLES
  nc,                   \* self._nc: the client in use, or None
  connected,            \* self._connected
  stopEvent,            \* self._stop_event.is_set()
  task,                 \* self._reconnect_task
  pc,                   \* the await each actor is suspended at
  mine,                 \* the client an actor's suspended frame holds
  cancelled,            \* tasks whose cancel() has not been delivered yet
  failed,               \* failed_attempts, a local of each loop
  consecutiveFailures,  \* self.consecutive_reconnect_failures
  reconnectCount,       \* self.reconnect_count
  status,               \* nats-py: the state of each client
  callbackDue,          \* nats-py: closed clients yet to run disconnected_cb
  natsUp                \* whether the NATS server can be dialled

publisherVars == <<nc, connected, stopEvent, task, cancelled, failed,
                   consecutiveFailures, reconnectCount>>
libraryVars == <<status, callbackDue, natsUp>>
vars == <<publisherVars, pc, mine, libraryVars>>

Actors == Tasks \cup {Caller}
Live(t) == pc[t] # "none"                      \* not task.done()
LoopActive == task # None /\ Live(task)        \* reconnect_loop_active
IsClosed(c) == status[c] = "closed"            \* Client.is_closed
IsConnected == connected /\ nc # None /\ ~IsClosed(nc)

(* A client object nobody refers to any more stands for a new one.         *)
Fresh(c) ==
  /\ IsClosed(c) /\ c # nc /\ c \notin callbackDue
  /\ \A a \in Actors : mine[a] # c

BumpUnsaturated(n, bound) == n + 1            \* faulty: "if < 32" forgotten

(* A counter that stops at the model's bound: "n or more".                 *)
Bump(n, bound) == IF n < bound THEN n + 1 ELSE n

Init ==
  /\ nc = None /\ connected = FALSE /\ stopEvent = FALSE /\ task = None
  /\ pc = [a \in Actors |-> IF a = Caller THEN "idle" ELSE "none"]
  /\ mine = [a \in Actors |-> None]
  /\ cancelled = {} /\ failed = [t \in Tasks |-> 0]
  /\ consecutiveFailures = 0 /\ reconnectCount = 0
  /\ status = [c \in Clients |-> "closed"]
  /\ callbackDue = {} /\ natsUp \in BOOLEAN

-----------------------------------------------------------------------------
(***************************************************************************)
(* _connect_internal, shared by connect() and the loop.                    *)
(***************************************************************************)

(* nats.connect returns: the new client replaces self._nc, whatever it was,*)
(* before the streams are ensured over it.                                 *)
DialSucceeds(a, c) ==
  /\ pc[a] = "dial" /\ a \notin cancelled
  /\ natsUp /\ Fresh(c)
  /\ nc' = c /\ connected' = TRUE
  /\ status' = [status EXCEPT ![c] = "open"]
  /\ mine' = [mine EXCEPT ![a] = c]
  /\ pc' = [pc EXCEPT ![a] = "ensure"]
  /\ UNCHANGED <<stopEvent, task, cancelled, failed, consecutiveFailures,
                 reconnectCount, callbackDue, natsUp>>

-----------------------------------------------------------------------------
(***************************************************************************)
(* connect()                                                               *)
(***************************************************************************)

BeginConnect ==
  /\ pc[Caller] = "idle"
  /\ pc' = [pc EXCEPT ![Caller] = "dial"]
  /\ UNCHANGED <<publisherVars, mine, libraryVars>>

(* nats.connect or _ensure_streams raises, or the caller's wait_for        *)
(* cancels the call there.  Nothing that was assigned is undone.           *)
ConnectRaises ==
  /\ pc[Caller] \in {"dial", "ensure"}
  /\ pc' = [pc EXCEPT ![Caller] = "idle"]
  /\ mine' = [mine EXCEPT ![Caller] = None]
  /\ UNCHANGED <<publisherVars, libraryVars>>

(* The last lines of connect(): clear the stop event, start a loop.        *)
SpawnLoop(t) ==
  /\ ~Live(t)
  /\ task' = t /\ stopEvent' = FALSE
  /\ failed' = [failed EXCEPT ![t] = 0]
  /\ pc' = [pc EXCEPT ![t] = "sleep", ![Caller] = "idle"]
  /\ mine' = [mine EXCEPT ![Caller] = None]

(* A loop left over from an earlier connect() is cancelled and awaited     *)
(* before the new one starts.                                              *)
JoinUncancelled ==                             \* faulty: awaits, never cancels
  /\ LoopActive
  /\ pc' = [pc EXCEPT ![Caller] = "join"]
  /\ mine' = [mine EXCEPT ![Caller] = None]
  /\ UNCHANGED <<task, stopEvent, failed, cancelled>>

CancelLeftover ==
  /\ LoopActive
  /\ cancelled' = cancelled \cup {task}
  /\ pc' = [pc EXCEPT ![Caller] = "join"]
  /\ mine' = [mine EXCEPT ![Caller] = None]
  /\ UNCHANGED <<task, stopEvent, failed>>
StartWithoutJoin ==
  /\ \E t \in Tasks : SpawnLoop(t)
  /\ UNCHANGED cancelled
ReplaceLoopNoCancel == StartWithoutJoin        \* faulty: leftover ignored
ReplaceLoop == IF LoopActive THEN CancelLeftover ELSE StartWithoutJoin

ConnectEnsured ==
  /\ pc[Caller] = "ensure"
  /\ ReplaceLoop
  /\ UNCHANGED <<nc, connected, consecutiveFailures, reconnectCount, libraryVars>>

ConnectJoined ==
  /\ pc[Caller] = "join" /\ ~LoopActive
  /\ \E t \in Tasks : SpawnLoop(t)
  /\ UNCHANGED <<nc, connected, cancelled, consecutiveFailures, reconnectCount,
                 libraryVars>>

-----------------------------------------------------------------------------
(***************************************************************************)
(* disconnect()                                                            *)
(***************************************************************************)

ForgetClient ==
  /\ nc' = None /\ connected' = FALSE
  /\ pc' = [pc EXCEPT ![Caller] = "idle"]
  /\ mine' = [mine EXCEPT ![Caller] = None]

(* Once no loop is left: nothing to do without a client; drain() is only   *)
(* awaited on an open one, and returns at once when already draining.      *)
DropClient ==
  \/ /\ nc = None
     /\ pc' = [pc EXCEPT ![Caller] = "idle"]
     /\ UNCHANGED <<nc, connected, mine, status>>
  \/ /\ nc # None /\ status[nc] \in {"closed", "draining"}
     /\ ForgetClient
     /\ UNCHANGED status
  \/ /\ nc # None /\ status[nc] = "open"
     /\ status' = [status EXCEPT ![nc] = "draining"]
     /\ mine' = [mine EXCEPT ![Caller] = nc]
     /\ pc' = [pc EXCEPT ![Caller] = "drain"]
     /\ UNCHANGED <<nc, connected>>

(* Faulty: relies on the stop event alone.                                 *)
BeginDisconnectNoCancel ==
  /\ pc[Caller] = "idle"
  /\ stopEvent' = TRUE
  /\ pc' = [pc EXCEPT ![Caller] = "stop"]
  /\ UNCHANGED <<nc, connected, task, cancelled, failed, consecutiveFailures,
                 reconnectCount, mine, libraryVars>>

(* Faulty: waits for the loop without telling it to end.                   *)
BeginDisconnectSilent ==
  /\ pc[Caller] = "idle"
  /\ pc' = [pc EXCEPT ![Caller] = "stop"]
  /\ UNCHANGED <<publisherVars, mine, libraryVars>>

BeginDisconnect ==
  /\ pc[Caller] = "idle"
  /\ stopEvent' = TRUE
  /\ \/ /\ LoopActive
        /\ cancelled' = cancelled \cup {task}
        /\ pc' = [pc EXCEPT ![Caller] = "stop"]
        /\ UNCHANGED <<task, nc, connected, mine, status>>
     \/ /\ ~LoopActive
        /\ task' = None
        /\ DropClient
        /\ UNCHANGED cancelled
  /\ UNCHANGED <<failed, consecutiveFailures, reconnectCount, callbackDue, natsUp>>

(* Faulty: cancels the loop and does not await it.                         *)
DisconnectWithoutJoin ==
  /\ pc[Caller] = "stop"
  /\ task' = None
  /\ DropClient
  /\ UNCHANGED <<stopEvent, cancelled, failed, consecutiveFailures,
                 reconnectCount, callbackDue, natsUp>>

DisconnectJoined ==
  /\ pc[Caller] = "stop" /\ ~LoopActive
  /\ task' = None
  /\ DropClient
  /\ UNCHANGED <<stopEvent, cancelled, failed, consecutiveFailures,
                 reconnectCount, callbackDue, natsUp>>

(* drain() closes the client and runs its callbacks before it returns.     *)
DrainCompletes ==
  /\ pc[Caller] = "drain"
  /\ status' = [status EXCEPT ![mine[Caller]] = "closed"]
  /\ ForgetClient
  /\ UNCHANGED <<stopEvent, task, cancelled, failed, consecutiveFailures,
                 reconnectCount, callbackDue, natsUp>>

(* The flush inside drain() times out, or the client was closed under it:  *)
(* the exception leaves disconnect() with its fields as they were.         *)
DrainRaises ==
  /\ pc[Caller] = "drain"
  /\ pc' = [pc EXCEPT ![Caller] = "idle"]
  /\ mine' = [mine EXCEPT ![Caller] = None]
  /\ UNCHANGED <<publisherVars, libraryVars>>

-----------------------------------------------------------------------------
(***************************************************************************)
(* _reconnect_loop                                                         *)
(***************************************************************************)

(* The loop never gets to return on the stop event: disconnect() sets it   *)
(* and cancels the task in one step, and the cancellation wins.            *)
LoopFinds(t) == pc[t] = "sleep" /\ t \notin cancelled /\ ~stopEvent

LoopFindsHealthy(t) ==
  /\ LoopFinds(t)
  /\ nc # None /\ ~IsClosed(nc)
  /\ failed' = [failed EXCEPT ![t] = 0]
  /\ UNCHANGED <<nc, connected, stopEvent, task, cancelled, consecutiveFailures,
                 reconnectCount, pc, mine, libraryVars>>

(* Faulty: trusts the flag the callbacks write.                            *)
LoopFindsFlagDown(t) ==
  /\ LoopFinds(t)
  /\ ~IsConnected
  /\ pc' = [pc EXCEPT ![t] = "dial"]
  /\ UNCHANGED <<publisherVars, mine, libraryVars>>

LoopFindsLost(t) ==
  /\ LoopFinds(t)
  /\ nc = None \/ IsClosed(nc)
  /\ pc' = [pc EXCEPT ![t] = "dial"]
  /\ UNCHANGED <<publisherVars, mine, libraryVars>>

(* Faulty: the exponent survives a successful reconnect.                   *)
LoopReconnectsKeepBackoff(t) ==
  /\ pc[t] = "ensure" /\ t \notin cancelled
  /\ reconnectCount' = Bump(reconnectCount, CounterBound)
  /\ consecutiveFailures' = 0
  /\ pc' = [pc EXCEPT ![t] = "sleep"]
  /\ mine' = [mine EXCEPT ![t] = None]
  /\ UNCHANGED <<nc, connected, stopEvent, task, cancelled, failed, libraryVars>>

LoopReconnects(t) ==
  /\ pc[t] = "ensure" /\ t \notin cancelled
  /\ reconnectCount' = Bump(reconnectCount, CounterBound)
  /\ failed' = [failed EXCEPT ![t] = 0]
  /\ consecutiveFailures' = 0
  /\ pc' = [pc EXCEPT ![t] = "sleep"]
  /\ mine' = [mine EXCEPT ![t] = None]
  /\ UNCHANGED <<nc, connected, stopEvent, task, cancelled, libraryVars>>

(* Faulty: the exception leaves the loop.                                  *)
LoopAttemptEscapes(t) ==
  /\ pc[t] \in {"dial", "ensure"} /\ t \notin cancelled
  /\ pc' = [pc EXCEPT ![t] = "none"]
  /\ mine' = [mine EXCEPT ![t] = None]
  /\ UNCHANGED <<publisherVars, libraryVars>>

(* The attempt raises or its hard timeout expires, at either await.        *)
LoopAttemptFails(t) ==
  /\ pc[t] \in {"dial", "ensure"} /\ t \notin cancelled
  /\ failed' = [failed EXCEPT ![t] = Bump(@, MaxExponent)]
  /\ consecutiveFailures' = Bump(consecutiveFailures, CounterBound)
  /\ pc' = [pc EXCEPT ![t] = "sleep"]
  /\ mine' = [mine EXCEPT ![t] = None]
  /\ UNCHANGED <<nc, connected, stopEvent, task, cancelled, reconnectCount,
                 libraryVars>>

(* CancelledError is raised at whichever await the task is suspended at;   *)
(* "except Exception" does not catch it.                                   *)
LoopCancelled(t) ==
  /\ t \in cancelled /\ Live(t)
  /\ cancelled' = cancelled \ {t}
  /\ pc' = [pc EXCEPT ![t] = "none"]
  /\ mine' = [mine EXCEPT ![t] = None]
  /\ UNCHANGED <<nc, connected, stopEvent, task, failed, consecutiveFailures,
                 reconnectCount, libraryVars>>

-----------------------------------------------------------------------------
(***************************************************************************)
(* nats-py and the server                                                  *)
(***************************************************************************)

(* A connection ends: nats-py marks the client closed first and runs       *)
(* disconnected_cb some awaits later, or not at all.                       *)
ClientCloses(c) ==
  /\ ~IsClosed(c)
  /\ status' = [status EXCEPT ![c] = "closed"]
  /\ callbackDue' \in {callbackDue, callbackDue \cup {c}}
  /\ UNCHANGED <<publisherVars, pc, mine, natsUp>>

(* _on_disconnected: a closure over the publisher, not over its client.    *)
OnDisconnected(c) ==
  /\ c \in callbackDue
  /\ connected' = FALSE
  /\ callbackDue' = callbackDue \ {c}
  /\ UNCHANGED <<nc, stopEvent, task, cancelled, failed, consecutiveFailures,
                 reconnectCount, pc, mine, status, natsUp>>

ServerToggles ==
  /\ natsUp' = ~natsUp
  /\ UNCHANGED <<publisherVars, pc, mine, status, callbackDue>>

-----------------------------------------------------------------------------
CallerStep ==
  \/ ConnectRaises \/ ConnectEnsured \/ ConnectJoined
  \/ DisconnectJoined \/ DrainCompletes \/ DrainRaises
  \/ \E c \in Clients : DialSucceeds(Caller, c)

LoopStep(t) ==
  \/ LoopFindsHealthy(t) \/ LoopFindsLost(t)
  \/ LoopReconnects(t) \/ LoopAttemptFails(t)
  \/ LoopCancelled(t)
  \/ \E c \in Clients : DialSucceeds(t, c)

Environment ==
  \/ ServerToggles
  \/ \E c \in Clients : ClientCloses(c) \/ OnDisconnected(c)

Next ==
  \/ BeginConnect \/ BeginDisconnect
  \/ CallerStep
  \/ \E t \in Tasks : LoopStep(t)
  \/ Environment

Spec == Init /\ [][Next]_vars

(***************************************************************************)
(* Fairness.  The event loop runs whatever is ready, every await of the    *)
(* code is bounded by a timeout or by the end of a task it cancelled, and  *)
(* a closing client gets to its callback.                                  *)
(***************************************************************************)
Fairness ==
  /\ WF_vars(CallerStep)
  /\ \A t \in Tasks : WF_vars(LoopStep(t))
  /\ \A c \in Clients : WF_vars(OnDisconnected(c))

FairSpec == Spec /\ Fairness

-----------------------------------------------------------------------------
(***************************************************************************)
(* Properties                                                              *)
(***************************************************************************)

TypeOK ==
  /\ nc \in Clients \cup {None}
  /\ connected \in BOOLEAN /\ stopEvent \in BOOLEAN /\ natsUp \in BOOLEAN
  /\ task \in Tasks \cup {None}
  /\ pc \in [Actors -> {"none", "idle", "dial", "ensure", "sleep", "join",
                        "stop", "drain"}]
  /\ pc[Caller] \in {"idle", "dial", "ensure", "join", "stop", "drain"}
  /\ \A t \in Tasks : pc[t] \in {"none", "sleep", "dial", "ensure"}
  /\ mine \in [Actors -> Clients \cup {None}]
  /\ \A a \in Actors : mine[a] # None <=> pc[a] \in {"ensure", "drain"}
  /\ cancelled \subseteq Tasks
  /\ failed \in [Tasks -> 0..MaxExponent]
  /\ consecutiveFailures \in 0..CounterBound
  /\ reconnectCount \in 0..CounterBound
  /\ status \in [Clients -> {"open", "draining", "closed"}]
  /\ callbackDue \subseteq Clients

(* connect()'s promise that "we never have two concurrent loops racing on  *)
(* the same event" (publisher.py:102-103): the only task that can be alive *)
(* is the one self._reconnect_task refers to, across any sequence of       *)
(* connects, failed connects and disconnects.                              *)
OneLoop == \A t \in Tasks : Live(t) => t = task

(* disconnect() stops the loop for good: from the moment it has awaited    *)
(* the task, and until a later connect() completes, no loop is alive.      *)
StoppedMeansNoLoop ==
  stopEvent /\ pc[Caller] # "stop" => \A t \in Tasks : ~Live(t)

(* The back-off exponent never exceeds the failures /health reports: a     *)
(* loop cannot still be backing off for failures that were already         *)
(* cleared by a success, whoever achieved it.                              *)
BackoffTracksFailures ==
  \A t \in Tasks : Live(t) => failed[t] =< consecutiveFailures

(* Nobody brings the link up behind disconnect()'s back: a client is only  *)
(* installed by a connect() in progress or by a loop that has been asked   *)
(* neither to stop nor to cancel.                                          *)
OnlyTheWantedDial ==
  [][ nc' # nc /\ nc' # None =>
        \/ pc[Caller] = "dial"
        \/ ~stopEvent /\ LoopActive /\ task \notin cancelled ]_vars

(* Every call comes back: connect() even when it has to reap an earlier    *)
(* loop, disconnect() from awaiting the loop it cancelled and the drain.   *)
CallsReturn == pc[Caller] # "idle" ~> pc[Caller] = "idle"

-----------------------------------------------------------------------------
(***************************************************************************)
(* What the rest of the service relies on.                                 *)
(***************************************************************************)
CallInProgress ==
  IF pc[Caller] = "idle" THEN "none"
  ELSE IF pc[Caller] \in {"stop", "drain"} THEN "disconnect" ELSE "connect"
Looping == \E t \in Tasks : Live(t)

HasHandle == nc # None

Contract == INSTANCE ConnectionContract
              WITH js <- HasHandle, up <- IsConnected, looping <- Looping,
                   call <- CallInProgress

(* The publisher keeps the contract the webhook handler and the lifespan   *)
(* are written against: see ConnectionContract.                            *)
ImplementsContract == Contract!Spec
=============================================================================
