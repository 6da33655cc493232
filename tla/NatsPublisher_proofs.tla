------------------------ MODULE NatsPublisher_proofs ------------------------
(***************************************************************************)
(* Safety of the connection lifecycle, for any number of clients and       *)
(* reconnect tasks and any saturation bound.                               *)
(***************************************************************************)
EXTENDS NatsPublisher, TLAPS

(* A task is only ever cancelled by the call that then awaits it, and is   *)
(* the one the publisher refers to.                                        *)
CancelledIsAwaited ==
  \A t \in cancelled : Live(t) /\ t = task /\ pc[Caller] \in {"join", "stop"}

(* While a call awaits the loop, the loop has been cancelled.              *)
AwaitedIsCancelled ==
  pc[Caller] \in {"join", "stop"} /\ LoopActive => task \in cancelled

(* disconnect() runs with the stop event set.                              *)
StopIsSignalled == pc[Caller] \in {"stop", "drain"} => stopEvent

IInv ==
  /\ TypeOK
  /\ OneLoop
  /\ StoppedMeansNoLoop
  /\ BackoffTracksFailures
  /\ CancelledIsAwaited
  /\ AwaitedIsCancelled
  /\ StopIsSignalled

(* The saturating counter stays within its bound and keeps order, which is *)
(* what relates the exponent to the failure count.                         *)
LEMMA BumpBounds ==
  ASSUME NEW m \in Nat, NEW n \in 0..m PROVE Bump(n, m) \in 0..m
BY DEF Bump

LEMMA BumpKeepsOrder ==
  ASSUME NEW f \in 0..MaxExponent, NEW c \in 0..CounterBound, f =< c
  PROVE  Bump(f, MaxExponent) =< Bump(c, CounterBound)
BY BoundsAssumption DEF Bump

-----------------------------------------------------------------------------
LEMMA InitIInv == Init => IInv
<1> SUFFICES ASSUME Init PROVE IInv
  OBVIOUS
<1> USE ActorsAssumption, BoundsAssumption DEF Init, Live, LoopActive, Actors
<1>1. /\ pc[Caller] = "idle" /\ \A t \in Tasks : pc[t] = "none"
      /\ \A a \in Actors : mine[a] = None /\ pc[a] \in {"idle", "none"}
  OBVIOUS
<1>2. TypeOK
  <2>1. /\ pc \in [Actors -> {"none", "idle", "dial", "ensure", "sleep", "join",
                             "stop", "drain"}]
        /\ mine \in [Actors -> Clients \cup {None}]
    OBVIOUS
  <2>2. /\ failed \in [Tasks -> 0..MaxExponent]
        /\ status \in [Clients -> {"open", "draining", "closed"}]
        /\ consecutiveFailures \in 0..CounterBound
        /\ reconnectCount \in 0..CounterBound
    OBVIOUS
  <2>3. \A a \in Actors : mine[a] # None <=> pc[a] \in {"ensure", "drain"}
    BY <1>1
  <2>4. QED
    BY <1>1, <2>1, <2>2, <2>3 DEF TypeOK
<1>3. QED
  BY <1>1, <1>2
  DEF IInv, OneLoop, StoppedMeansNoLoop, BackoffTracksFailures, CancelledIsAwaited,
      AwaitedIsCancelled, StopIsSignalled

(* A connect() that found no loop alive may start one.                     *)
LEMMA SpawnIInv ==
  ASSUME IInv, NEW t \in Tasks, SpawnLoop(t),
         pc[Caller] \in {"ensure", "join"}, ~LoopActive,
         UNCHANGED <<nc, connected, cancelled, consecutiveFailures, reconnectCount,
                     libraryVars>>
  PROVE  IInv'
<1> USE ActorsAssumption, BoundsAssumption DEF IInv, Actors, libraryVars
<1>1. \A u \in Tasks : ~Live(u)
  BY DEF OneLoop, LoopActive, TypeOK
<1>2. cancelled = {}
  BY <1>1 DEF CancelledIsAwaited, TypeOK
<1>3. /\ pc' \in [Actors -> {"none", "idle", "dial", "ensure", "sleep", "join",
                            "stop", "drain"}]
      /\ pc'[Caller] = "idle" /\ pc'[t] = "sleep"
      /\ \A u \in Tasks \ {t} : pc'[u] = "none"
  BY <1>1 DEF SpawnLoop, TypeOK, Live
<1>4. mine' \in [Actors -> Clients \cup {None}] /\ \A a \in Actors : mine'[a] = None
  BY <1>1 DEF SpawnLoop, TypeOK, Live
<1>5. failed' \in [Tasks -> 0..MaxExponent] /\ failed'[t] = 0
  BY DEF SpawnLoop, TypeOK
<1>6. task' = t /\ stopEvent' = FALSE
  BY DEF SpawnLoop
<1>7. TypeOK'
  BY <1>3, <1>4, <1>5, <1>6 DEF TypeOK
<1>8. QED
  BY <1>2, <1>3, <1>5, <1>6, <1>7
  DEF TypeOK, OneLoop, StoppedMeansNoLoop, BackoffTracksFailures, CancelledIsAwaited,
      AwaitedIsCancelled, StopIsSignalled, LoopActive, Live

LEMMA NextIInv == IInv /\ [Next]_vars => IInv'
<1> SUFFICES ASSUME IInv, [Next]_vars PROVE IInv'
  OBVIOUS
<1> USE ActorsAssumption, BoundsAssumption
    DEF IInv, TypeOK, OneLoop, StoppedMeansNoLoop, BackoffTracksFailures,
        CancelledIsAwaited, AwaitedIsCancelled, StopIsSignalled, LoopActive, Live,
        Actors, publisherVars, libraryVars
<1>1. CASE BeginConnect
  BY <1>1 DEF BeginConnect
<1>2. CASE BeginDisconnect
  <2>1. CASE LoopActive /\ cancelled' = cancelled \cup {task}
    BY <1>2, <2>1 DEF BeginDisconnect, DropClient, ForgetClient
  <2>2. CASE ~LoopActive /\ nc = None
    BY <1>2, <2>2 DEF BeginDisconnect, DropClient, ForgetClient
  <2>3. CASE ~LoopActive /\ nc # None /\ status[nc] \in {"closed", "draining"}
    <3>1. ForgetClient /\ UNCHANGED <<status, cancelled>> /\ task' = None
      BY <1>2, <2>3 DEF BeginDisconnect, DropClient
    <3>2. TypeOK'
      BY <1>2, <3>1 DEF BeginDisconnect, ForgetClient
    <3>3. QED
      BY <1>2, <2>3, <3>1, <3>2 DEF BeginDisconnect, ForgetClient
  <2>4. CASE ~LoopActive /\ nc # None /\ status[nc] = "open"
    BY <1>2, <2>4 DEF BeginDisconnect, DropClient, ForgetClient
  <2>5. QED
    BY <1>2, <2>1, <2>2, <2>3, <2>4 DEF BeginDisconnect
<1>3. CASE ConnectRaises
  BY <1>3 DEF ConnectRaises
<1>4. CASE ConnectEnsured
  <2>1. CASE CancelLeftover
    BY <1>4, <2>1 DEF ConnectEnsured, CancelLeftover
  <2>2. CASE ~LoopActive /\ StartWithoutJoin
    <3>1. PICK t \in Tasks : SpawnLoop(t)
      BY <2>2 DEF StartWithoutJoin
    <3>2. UNCHANGED <<nc, connected, cancelled, consecutiveFailures, reconnectCount,
                      libraryVars>>
      BY <1>4, <2>2 DEF ConnectEnsured, StartWithoutJoin
    <3>3. pc[Caller] = "ensure" /\ ~LoopActive
      BY <1>4, <2>2 DEF ConnectEnsured
    <3>4. QED
      BY <3>1, <3>2, <3>3, SpawnIInv
  <2>3. QED
    BY <1>4, <2>1, <2>2 DEF ConnectEnsured, ReplaceLoop
<1>5. CASE ConnectJoined
  <2>1. PICK t \in Tasks : SpawnLoop(t)
    BY <1>5 DEF ConnectJoined
  <2>2. QED
    BY <1>5, <2>1, SpawnIInv DEF ConnectJoined
<1>6. CASE DisconnectJoined
  <2>1. CASE nc = None
    BY <1>6, <2>1 DEF DisconnectJoined, DropClient, ForgetClient
  <2>2. CASE nc # None /\ status[nc] \in {"closed", "draining"}
    <3>1. ForgetClient /\ UNCHANGED status
      BY <2>2, <1>6 DEF DisconnectJoined, DropClient
    <3>2. TypeOK'
      BY <1>6, <3>1 DEF DisconnectJoined, ForgetClient
    <3>3. QED
      BY <1>6, <3>1, <3>2 DEF DisconnectJoined, ForgetClient
  <2>3. CASE nc # None /\ status[nc] = "open"
    BY <1>6, <2>3 DEF DisconnectJoined, DropClient, ForgetClient
  <2>4. QED
    BY <1>6, <2>1, <2>2, <2>3
<1>7. CASE DrainCompletes
  BY <1>7 DEF DrainCompletes, ForgetClient
<1>8. CASE DrainRaises
  BY <1>8 DEF DrainRaises
<1>9. ASSUME NEW a \in Actors, NEW c \in Clients, DialSucceeds(a, c) PROVE IInv'
  BY <1>9 DEF DialSucceeds
<1>10. ASSUME NEW t \in Tasks, LoopFindsHealthy(t) PROVE IInv'
  BY <1>10 DEF LoopFindsHealthy, LoopFinds
<1>11. ASSUME NEW t \in Tasks, LoopFindsLost(t) PROVE IInv'
  BY <1>11 DEF LoopFindsLost, LoopFinds
<1>12. ASSUME NEW t \in Tasks, LoopReconnects(t) PROVE IInv'
  BY <1>12, BumpBounds DEF LoopReconnects
<1>13. ASSUME NEW t \in Tasks, LoopAttemptFails(t) PROVE IInv'
  <2>1. Bump(failed[t], MaxExponent) \in 0..MaxExponent
    BY BumpBounds
  <2>2. Bump(consecutiveFailures, CounterBound) \in 0..CounterBound
    BY BumpBounds
  <2>3. Bump(failed[t], MaxExponent) =< Bump(consecutiveFailures, CounterBound)
    BY <1>13, BumpKeepsOrder DEF LoopAttemptFails
  <2>4. QED
    BY <1>13, <2>1, <2>2, <2>3 DEF LoopAttemptFails
<1>14. ASSUME NEW t \in Tasks, LoopCancelled(t) PROVE IInv'
  BY <1>14 DEF LoopCancelled
<1>15. ASSUME NEW c \in Clients, ClientCloses(c) PROVE IInv'
  BY <1>15 DEF ClientCloses
<1>16. ASSUME NEW c \in Clients, OnDisconnected(c) PROVE IInv'
  BY <1>16 DEF OnDisconnected
<1>17. CASE ServerToggles
  BY <1>17 DEF ServerToggles
<1>18. CASE UNCHANGED vars
  BY <1>18 DEF vars
<1>19. QED
  BY <1>1, <1>2, <1>3, <1>4, <1>5, <1>6, <1>7, <1>8, <1>9, <1>10, <1>11, <1>12,
     <1>13, <1>14, <1>15, <1>16, <1>17, <1>18
  DEF Next, CallerStep, LoopStep, Environment

LEMMA Invariance == Spec => []IInv
<1>1. Init => IInv
  BY InitIInv
<1>2. IInv /\ [Next]_vars => IInv'
  BY NextIInv
<1>3. QED
  BY <1>1, <1>2, PTL DEF Spec

-----------------------------------------------------------------------------
(***************************************************************************)
(* Theorems                                                                *)
(***************************************************************************)

(* Every variable of the publisher keeps its type, and an actor's frame    *)
(* holds a client exactly while it ensures streams or drains.              *)
THEOREM TypeCorrect == Spec => []TypeOK
BY Invariance, PTL DEF IInv

(* connect() never leaves two reconnect loops running on one stop event.   *)
THEOREM AtMostOneLoop == Spec => []OneLoop
BY Invariance, PTL DEF IInv

(* Once disconnect() has awaited the loop, none runs until a connect()     *)
(* completes.                                                              *)
THEOREM DisconnectStopsLoop == Spec => []StoppedMeansNoLoop
BY Invariance, PTL DEF IInv

(* The exponent of a live loop never exceeds the reported failure count.   *)
THEOREM BackoffIsJustified == Spec => []BackoffTracksFailures
BY Invariance, PTL DEF IInv

(* A client is installed by a connect() in progress or by a loop that was  *)
(* asked neither to stop nor to cancel.                                    *)
THEOREM NoUnwantedDial == Spec => OnlyTheWantedDial
<1> DEFINE Wanted == nc' # nc /\ nc' # None =>
                       \/ pc[Caller] = "dial"
                       \/ ~stopEvent /\ LoopActive /\ task \notin cancelled
<1>1. IInv /\ [Next]_vars => [Wanted]_vars
  <2> SUFFICES ASSUME IInv, Next, nc' # nc, nc' # None
               PROVE  \/ pc[Caller] = "dial"
                      \/ ~stopEvent /\ LoopActive /\ task \notin cancelled
    BY DEF vars, publisherVars
  <2>1. \E a \in Actors, c \in Clients : DialSucceeds(a, c)
    BY DEF Next, CallerStep, LoopStep, Environment, Actors, publisherVars, BeginConnect,
           BeginDisconnect, ConnectRaises, ConnectEnsured, ConnectJoined, DisconnectJoined,
           DrainCompletes, DrainRaises, DropClient, ForgetClient, LoopFindsHealthy,
           LoopFindsLost, LoopReconnects, LoopAttemptFails, LoopCancelled,
           ServerToggles, ClientCloses, OnDisconnected
  <2>2. PICK a \in Actors, c \in Clients : DialSucceeds(a, c)
    BY <2>1
  <2>3. CASE a = Caller
    BY <2>2, <2>3 DEF DialSucceeds
  <2>4. CASE a \in Tasks
    <3>1. Live(a) /\ a = task /\ a \notin cancelled
      BY <2>2, <2>4 DEF DialSucceeds, Live, IInv, OneLoop
    <3>2. LoopActive
      BY <3>1, <2>4, ActorsAssumption DEF LoopActive
    <3>3. ~stopEvent
      BY <2>4, <3>1, <3>2 DEF IInv, StoppedMeansNoLoop, AwaitedIsCancelled
    <3>4. QED
      BY <3>1, <3>2, <3>3
  <2>5. QED
    BY <2>3, <2>4 DEF Actors
<1>2. QED
  BY <1>1, Invariance, PTL DEF Spec, OnlyTheWantedDial

-----------------------------------------------------------------------------
(***************************************************************************)
(* Refinement: every step of the publisher is a step of its contract or    *)
(* changes nothing the contract mentions.                                  *)
(***************************************************************************)
LEMMA InitRefines == Init => Contract!Init
BY ActorsAssumption
DEF Init, Contract!Init, HasHandle, IsConnected, Looping, CallInProgress, Live, Actors

LEMMA LoopingIsActive == IInv => Looping = LoopActive
<1>1. IInv => (Looping <=> LoopActive)
  BY ActorsAssumption DEF IInv, OneLoop, Looping, LoopActive, TypeOK
<1>2. Looping \in BOOLEAN /\ LoopActive \in BOOLEAN
  BY DEF Looping, LoopActive
<1>3. QED
  BY <1>1, <1>2

LEMMA NextRefines == IInv /\ [Next]_vars => [Contract!Next]_Contract!vars
<1> SUFFICES ASSUME IInv, [Next]_vars PROVE [Contract!Next]_Contract!vars
  OBVIOUS
<1>0. IInv' /\ Looping = LoopActive /\ Looping' = LoopActive'
  <2>1. IInv'
    BY NextIInv
  <2>2. Looping = LoopActive
    BY LoopingIsActive
  <2>3. (Looping = LoopActive)'
    <3> HIDE DEF Looping, LoopActive, IInv
    <3>1. QED
      BY <2>1, LoopingIsActive, PTL
  <2>4. QED
    BY <2>1, <2>2, <2>3
<1> USE ActorsAssumption, <1>0 DEF IInv, TypeOK, Actors, publisherVars, libraryVars, Live,
      LoopActive, IsClosed, IsConnected, HasHandle, CallInProgress, Contract!vars,
      Contract!Next
<1>1. CASE BeginConnect
  BY <1>1 DEF BeginConnect, Contract!Begin
<1>2. CASE BeginDisconnect
  <2>1. CASE LoopActive
    BY <1>2, <2>1 DEF BeginDisconnect, Contract!Begin
  <2>2. CASE ~LoopActive /\ (nc = None \/ status[nc] = "open")
    BY <1>2, <2>2 DEF BeginDisconnect, DropClient, ForgetClient, Contract!Begin
  <2>3. CASE ~LoopActive /\ nc # None /\ status[nc] # "open"
    <3>1. ForgetClient /\ task' = None /\ pc[Caller] = "idle"
      BY <1>2, <2>3 DEF BeginDisconnect, DropClient
    <3>2. /\ ~HasHandle' /\ ~IsConnected'
          /\ CallInProgress = "none" /\ UNCHANGED CallInProgress
          /\ ~Looping /\ Looping' = Looping
      BY <2>3, <3>1 DEF ForgetClient
    <3>3. QED
      BY <3>2 DEF Contract!DisconnectAtOnce, Contract!Dropped
  <2>4. QED
    BY <2>1, <2>2, <2>3
<1>3. CASE ConnectRaises
  BY <1>3 DEF ConnectRaises, Contract!ConnectRaises
<1>4. CASE ConnectEnsured
  <2>1. CASE LoopActive
    BY <1>4, <2>1 DEF ConnectEnsured, ReplaceLoop, CancelLeftover
  <2>2. CASE ~LoopActive
    <3>1. PICK t \in Tasks : SpawnLoop(t)
      BY <1>4, <2>2 DEF ConnectEnsured, ReplaceLoop, StartWithoutJoin
    <3>2. LoopActive' /\ CallInProgress = "connect" /\ CallInProgress' = "none"
      BY <1>4, <3>1 DEF ConnectEnsured, SpawnLoop
    <3>3. UNCHANGED <<HasHandle, IsConnected>>
      BY <1>4 DEF ConnectEnsured
    <3>4. QED
      BY <3>2, <3>3 DEF Contract!ConnectReturns
  <2>3. QED
    BY <2>1, <2>2
<1>5. CASE ConnectJoined
  <2>1. PICK t \in Tasks : SpawnLoop(t)
    BY <1>5 DEF ConnectJoined
  <2>2. LoopActive' /\ CallInProgress = "connect" /\ CallInProgress' = "none"
    BY <1>5, <2>1 DEF ConnectJoined, SpawnLoop
  <2>3. UNCHANGED <<HasHandle, IsConnected>>
    BY <1>5 DEF ConnectJoined
  <2>4. QED
    BY <2>2, <2>3 DEF Contract!ConnectReturns
<1>6. CASE DisconnectJoined
  <2>1. ~Looping /\ ~Looping' /\ CallInProgress = "disconnect"
    BY <1>6 DEF DisconnectJoined
  <2>2. CASE nc = None
    BY <1>6, <2>1, <2>2 DEF DisconnectJoined, DropClient, Contract!DisconnectEnds
  <2>3. CASE nc # None /\ status[nc] # "open"
    <3>1. ForgetClient
      BY <1>6, <2>3 DEF DisconnectJoined, DropClient
    <3>2. ~HasHandle' /\ ~IsConnected' /\ CallInProgress' = "none"
      BY <3>1 DEF ForgetClient
    <3>3. QED
      BY <2>1, <3>2 DEF Contract!DisconnectEnds, Contract!Dropped
  <2>4. CASE nc # None /\ status[nc] = "open"
    BY <1>6, <2>1, <2>4 DEF DisconnectJoined, DropClient
  <2>5. QED
    BY <2>2, <2>3, <2>4
<1>7. CASE DrainCompletes
  <2>1. ~LoopActive /\ ~LoopActive'
    BY <1>7 DEF DrainCompletes, ForgetClient, StopIsSignalled, StoppedMeansNoLoop
  <2>2. /\ ~HasHandle' /\ ~IsConnected'
        /\ CallInProgress = "disconnect" /\ CallInProgress' = "none"
    BY <1>7 DEF DrainCompletes, ForgetClient
  <2>3. QED
    BY <2>1, <2>2 DEF Contract!DisconnectEnds, Contract!Dropped
<1>8. CASE DrainRaises
  BY <1>8 DEF DrainRaises, Contract!DisconnectEnds, StopIsSignalled, StoppedMeansNoLoop
<1>9. ASSUME NEW a \in Actors, NEW c \in Clients, DialSucceeds(a, c)
      PROVE  [Contract!Next]_Contract!vars
  <2>1. HasHandle' /\ IsConnected'
    BY <1>9 DEF DialSucceeds
  <2>2. UNCHANGED <<LoopActive, CallInProgress>>
    BY <1>9 DEF DialSucceeds
  <2>3. CallInProgress = "connect" \/ (LoopActive /\ CallInProgress = "none")
    <3>1. CASE a = Caller
      BY <1>9, <3>1 DEF DialSucceeds
    <3>2. CASE a \in Tasks
      <4>1. a = task /\ LoopActive /\ task \notin cancelled
        BY <1>9, <3>2 DEF DialSucceeds, OneLoop
      <4>2. pc[Caller] \notin {"join", "stop"} /\ ~stopEvent
        BY <4>1, <3>2 DEF AwaitedIsCancelled, StoppedMeansNoLoop
      <4>3. QED
        BY <4>1, <4>2 DEF StopIsSignalled
    <3>3. QED
      BY <3>1, <3>2
  <2>4. QED
    BY <2>1, <2>2, <2>3 DEF Contract!LinkUp
<1>10. ASSUME NEW t \in Tasks,
              \/ LoopFindsHealthy(t) \/ LoopFindsLost(t) \/ LoopReconnects(t)
              \/ LoopAttemptFails(t)
       PROVE  UNCHANGED Contract!vars
  BY <1>10 DEF LoopFindsHealthy, LoopFindsLost, LoopFinds, LoopReconnects,
       LoopAttemptFails, OneLoop
<1>11. ASSUME NEW t \in Tasks, LoopCancelled(t)
       PROVE  [Contract!Next]_Contract!vars
  <2>1. UNCHANGED <<HasHandle, IsConnected, CallInProgress>> /\ ~LoopActive'
    BY <1>11 DEF LoopCancelled, OneLoop
  <2>2. CallInProgress # "none"
    BY <1>11 DEF LoopCancelled, StoppedMeansNoLoop, CancelledIsAwaited
  <2>3. QED
    BY <2>1, <2>2 DEF Contract!LoopEnds
<1>12. ASSUME NEW c \in Clients, ClientCloses(c) \/ OnDisconnected(c)
       PROVE  [Contract!Next]_Contract!vars
  BY <1>12 DEF ClientCloses, OnDisconnected, Contract!LinkDown
<1>13. CASE ServerToggles \/ UNCHANGED vars
  BY <1>13 DEF ServerToggles, vars
<1>14. QED
  BY <1>1, <1>2, <1>3, <1>4, <1>5, <1>6, <1>7, <1>8, <1>9, <1>10, <1>11, <1>12, <1>13
  DEF Next, CallerStep, LoopStep, Environment

(* The publisher implements the connection contract.                       *)
THEOREM PublisherImplementsContract == Spec => ImplementsContract
<1>1. Init => Contract!Init
  BY InitRefines
<1>2. IInv /\ [Next]_vars => [Contract!Next]_Contract!vars
  BY NextRefines
<1>3. QED
  BY <1>1, <1>2, Invariance, PTL DEF Spec, ImplementsContract, Contract!Spec
=============================================================================
