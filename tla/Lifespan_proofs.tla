--------------------------- MODULE Lifespan_proofs ---------------------------
(***************************************************************************)
(* Safety of the publisher as lifespan() drives it, for any number of      *)
(* clients, tasks and startup attempts.  What NatsPublisher_proofs shows   *)
(* of every caller holds of this one; the rest is about the order of its   *)
(* calls.                                                                  *)
(***************************************************************************)
EXTENDS Lifespan, NatsPublisher_proofs, FiniteSetTheorems

(* Where lifespan() is, and what its call is doing meanwhile.              *)
PhaseInv ==
  /\ phase \in {"starting", "connecting", "backoff", "serving", "stopping", "stopped"}
  /\ attempt \in 0..Attempts /\ degraded \in BOOLEAN
  /\ phase = "connecting" <=> pc[Caller] \in {"dial", "ensure", "join"}
  /\ phase = "stopping" <=> pc[Caller] \in {"stop", "drain"}
  /\ phase = "starting" <=> attempt = 0
  /\ phase = "backoff" => attempt < Attempts

(* A loop is alive from a successful start to the shutdown, never before   *)
(* and never after.                                                        *)
NoLoop == \A t \in Tasks : ~Live(t)
LoopInv ==
  /\ phase \in {"starting", "connecting", "backoff"} => NoLoop /\ ~degraded
  /\ phase = "serving" => IF degraded THEN NoLoop ELSE LoopActive
  /\ phase = "stopped" => NoLoop

(* Only the final disconnect() drains, and a loop that dials has no open   *)
(* client to lose.                                                         *)
Held == nc # None /\ ~IsClosed(nc)
HoldInv ==
  /\ \A c \in Clients :
       status[c] = "draining" => c = nc /\ phase \in {"stopping", "stopped"}
  /\ pc[Caller] = "stop" => \A c \in Clients : status[c] # "draining"
  /\ pc[Caller] = "drain" => mine[Caller] = nc
  /\ \A t \in Tasks : pc[t] = "dial" => ~Held

(* An attempt adds at most the client of the one before it.                *)
LeakInv ==
  /\ IsFiniteSet(Orphans)
  /\ LeaksAreBounded
  /\ phase \in {"starting", "backoff"} \/ pc[Caller] = "dial" =>
       LET made == IF pc[Caller] = "dial" THEN attempt - 1 ELSE attempt IN
         /\ Cardinality(Orphans) =< made
         /\ Held => Cardinality(Orphans) < made

LInv == IInv /\ PhaseInv /\ LoopInv /\ HoldInv /\ LeakInv

-----------------------------------------------------------------------------
(* The application does nothing but what a caller of Publisher may do.     *)
LEMMA LifespanDrives == LifespanNext \/ UNCHANGED allVars => [Next]_vars
BY DEF LifespanNext, Startup, Shutdown, Background, TryConnect, DialReturns, TryRaises,
       TryReturns, Next, CallerStep, Environment, allVars

LEMMA InitLInv == LifespanInit => LInv
<1> SUFFICES ASSUME LifespanInit PROVE LInv
  OBVIOUS
<1>1. IInv
  BY InitIInv DEF LifespanInit
<1>2. /\ pc[Caller] = "idle" /\ NoLoop /\ Orphans = {} /\ nc = None
      /\ \A c \in Clients : status[c] = "closed"
  BY ActorsAssumption DEF LifespanInit, Init, Actors, NoLoop, Live, Orphans, IsClosed
<1>3. IsFiniteSet(Orphans) /\ Cardinality(Orphans) = 0
  BY <1>2, FS_EmptySet
<1>4. PhaseInv
  <2>1. 0 \in 0..Attempts /\ 0 < Attempts
    BY AttemptsAssumption
  <2>2. phase = "starting" /\ attempt = 0 /\ degraded = FALSE
    BY DEF LifespanInit
  <2>3. QED
    BY <1>2, <2>1, <2>2 DEF PhaseInv
<1>5. LoopInv
  BY <1>2 DEF LifespanInit, LoopInv
<1>6. HoldInv
  BY <1>2 DEF HoldInv, Held, NoLoop, Live
<1>7. LeakInv
  BY <1>2, <1>3 DEF LifespanInit, LeakInv, LeaksAreBounded, Held
<1>8. QED
  BY <1>1, <1>4, <1>5, <1>6, <1>7 DEF LInv

-----------------------------------------------------------------------------
(***************************************************************************)
(* The phases and the loop                                                 *)
(***************************************************************************)
LEMMA StepPhase ==
  ASSUME LInv, LifespanNext \/ UNCHANGED allVars
  PROVE  PhaseInv' /\ LoopInv'
<1> USE ActorsAssumption, AttemptsAssumption
    DEF LInv, IInv, PhaseInv, LoopInv, NoLoop, TypeOK, Actors, Live, LoopActive, OneLoop,
        CancelledIsAwaited, AwaitedIsCancelled, StopIsSignalled, StoppedMeansNoLoop,
        publisherVars, libraryVars, lifespanVars
<1>1. CASE TryConnect
  BY <1>1 DEF TryConnect, BeginConnect
<1>2. CASE DialReturns
  BY <1>2 DEF DialReturns, DialSucceeds
<1>3. CASE TryRaises
  BY <1>3 DEF TryRaises, ConnectRaises
<1>4. CASE TryReturns
  <2>1. PICK t \in Tasks : SpawnLoop(t)
    BY <1>4 DEF TryReturns, ConnectEnsured, ReplaceLoop, StartWithoutJoin
  <2>2. pc'[t] = "sleep" /\ pc'[Caller] = "idle" /\ task' = t
    BY <2>1 DEF SpawnLoop
  <2>3. phase' = "serving" /\ UNCHANGED <<attempt, degraded>> /\ ~degraded /\ attempt # 0
    BY <1>4, <2>2 DEF TryReturns
  <2>4. QED
    BY <2>2, <2>3
<1>5. CASE Shutdown
  <2>1. CASE phase = "serving" /\ BeginDisconnect
    <3>1. CASE LoopActive /\ pc' = [pc EXCEPT ![Caller] = "stop"]
      BY <1>5, <2>1, <3>1 DEF Shutdown
    <3>2. CASE ~LoopActive /\ DropClient
      BY <1>5, <2>1, <3>2 DEF Shutdown, DropClient, ForgetClient
    <3>3. QED
      BY <2>1, <3>1, <3>2 DEF BeginDisconnect
  <2>2. CASE phase = "stopping" /\ DisconnectJoined
    BY <1>5, <2>2 DEF Shutdown, DisconnectJoined, DropClient, ForgetClient
  <2>3. CASE phase = "stopping" /\ (DrainCompletes \/ DrainRaises)
    BY <1>5, <2>3 DEF Shutdown, DrainCompletes, DrainRaises, ForgetClient
  <2>4. QED
    BY <1>5, <2>1, <2>2, <2>3 DEF Shutdown
<1>6. ASSUME NEW t \in Tasks, LoopStep(t), UNCHANGED lifespanVars
      PROVE  PhaseInv' /\ LoopInv'
  <2>1. UNCHANGED task /\ pc'[Caller] = pc[Caller] /\ Live(t)
    BY <1>6 DEF LoopStep, LoopFindsHealthy, LoopFindsLost, LoopFinds, LoopReconnects,
       LoopAttemptFails, LoopCancelled, DialSucceeds
  <2>2. \A u \in Tasks \ {t} : pc'[u] = pc[u]
    BY <1>6 DEF LoopStep, LoopFindsHealthy, LoopFindsLost, LoopFinds, LoopReconnects,
       LoopAttemptFails, LoopCancelled, DialSucceeds
  <2>3. phase = "serving" => pc'[t] # "none"
    BY <1>6 DEF LoopStep, LoopFindsHealthy, LoopFindsLost, LoopFinds, LoopReconnects,
       LoopAttemptFails, LoopCancelled, DialSucceeds
  <2>4. QED
    BY <1>6, <2>1, <2>2, <2>3
<1>7. CASE Environment /\ UNCHANGED lifespanVars
  BY <1>7 DEF Environment, ServerToggles, ClientCloses, OnDisconnected
<1>8. CASE UNCHANGED allVars
  BY <1>8 DEF allVars, vars
<1>9. QED
  BY <1>1, <1>2, <1>3, <1>4, <1>5, <1>6, <1>7, <1>8
  DEF LifespanNext, Startup, Background

-----------------------------------------------------------------------------
(***************************************************************************)
(* The client in use                                                       *)
(***************************************************************************)
LEMMA StepHold ==
  ASSUME LInv, LifespanNext \/ UNCHANGED allVars
  PROVE  HoldInv'
<1> USE ActorsAssumption
    DEF LInv, IInv, PhaseInv, LoopInv, HoldInv, Held, NoLoop, TypeOK, Actors, Live,
        LoopActive, OneLoop, StopIsSignalled, StoppedMeansNoLoop, IsClosed,
        publisherVars, libraryVars, lifespanVars
<1>1. CASE TryConnect
  BY <1>1 DEF TryConnect, BeginConnect
<1>2. CASE DialReturns
  BY <1>2 DEF DialReturns, DialSucceeds
<1>3. CASE TryRaises
  BY <1>3 DEF TryRaises, ConnectRaises
<1>4. CASE TryReturns
  <2>1. PICK t \in Tasks : SpawnLoop(t)
    BY <1>4 DEF TryReturns, ConnectEnsured, ReplaceLoop, StartWithoutJoin
  <2>2. UNCHANGED <<nc, status>>
    BY <1>4 DEF TryReturns, ConnectEnsured
  <2>3. pc' = [pc EXCEPT ![t] = "sleep", ![Caller] = "idle"]
    BY <2>1 DEF SpawnLoop
  <2>4. phase = "connecting"
    BY <1>4 DEF TryReturns
  <2>5. QED
    BY <2>2, <2>3, <2>4
<1>5. CASE Shutdown
  <2>1. CASE phase = "serving" /\ BeginDisconnect
    <3>1. CASE LoopActive /\ pc' = [pc EXCEPT ![Caller] = "stop"] /\ UNCHANGED <<nc, status>>
      BY <1>5, <2>1, <3>1 DEF Shutdown
    <3>2. CASE ~LoopActive /\ DropClient
      BY <1>5, <2>1, <3>2 DEF Shutdown, DropClient, ForgetClient
    <3>3. QED
      BY <2>1, <3>1, <3>2 DEF BeginDisconnect
  <2>2. CASE phase = "stopping" /\ DisconnectJoined
    BY <1>5, <2>2 DEF Shutdown, DisconnectJoined, DropClient, ForgetClient
  <2>3. CASE phase = "stopping" /\ (DrainCompletes \/ DrainRaises)
    BY <1>5, <2>3 DEF Shutdown, DrainCompletes, DrainRaises, ForgetClient
  <2>4. QED
    BY <1>5, <2>1, <2>2, <2>3 DEF Shutdown
<1>6. ASSUME NEW t \in Tasks, LoopStep(t), UNCHANGED lifespanVars PROVE HoldInv'
  <2>1. CASE \E c \in Clients : DialSucceeds(t, c)
    BY <1>6, <2>1 DEF DialSucceeds
  <2>2. CASE LoopFindsLost(t)
    BY <1>6, <2>2 DEF LoopFindsLost, LoopFinds
  <2>3. CASE LoopFindsHealthy(t) \/ LoopReconnects(t) \/ LoopAttemptFails(t)
             \/ LoopCancelled(t)
    BY <1>6, <2>3 DEF LoopFindsHealthy, LoopReconnects, LoopAttemptFails, LoopCancelled
  <2>4. QED
    BY <1>6, <2>1, <2>2, <2>3 DEF LoopStep
<1>7. CASE Environment /\ UNCHANGED lifespanVars
  BY <1>7 DEF Environment, ServerToggles, ClientCloses, OnDisconnected
<1>8. CASE UNCHANGED allVars
  BY <1>8 DEF allVars, vars
<1>9. QED
  BY <1>1, <1>2, <1>3, <1>4, <1>5, <1>6, <1>7, <1>8
  DEF LifespanNext, Startup, Background

-----------------------------------------------------------------------------
(***************************************************************************)
(* The clients left behind                                                 *)
(***************************************************************************)

(* A dial leaves behind the client it replaces, if that one was open.      *)
LEMMA DialLeavesBehind ==
  ASSUME LInv, NEW a \in Actors, NEW c \in Clients, DialSucceeds(a, c)
  PROVE  /\ Orphans' = IF Held THEN Orphans \cup {nc} ELSE Orphans
         /\ Held'
<1>1. IsClosed(c) /\ c # nc /\ nc' = c /\ c # None
  BY ActorsAssumption DEF DialSucceeds, Fresh
<1>2. \A d \in Clients : IsClosed(d)' <=> IsClosed(d) /\ d # c
  BY DEF DialSucceeds, IsClosed, LInv, IInv, TypeOK
<1>3. nc \in Clients \cup {None}
  BY DEF LInv, IInv, TypeOK
<1>4. Held'
  BY <1>1, <1>2 DEF Held
<1>5. CASE Held
  BY <1>1, <1>2, <1>3, <1>4, <1>5 DEF Orphans, Held
<1>6. CASE ~Held
  BY <1>1, <1>2, <1>3, <1>4, <1>6, ActorsAssumption DEF Orphans, Held
<1>7. QED
  BY <1>4, <1>5, <1>6

(* Whatever is not a dial leaves no client behind.                         *)
LEMMA NothingElseLeaks ==
  ASSUME LInv, LifespanNext \/ UNCHANGED allVars,
         \A a \in Actors, c \in Clients : ~DialSucceeds(a, c)
  PROVE  Orphans' \subseteq Orphans /\ (Held' => Held)
<1> USE ActorsAssumption
    DEF LInv, IInv, PhaseInv, HoldInv, Held, Orphans, TypeOK, Actors, IsClosed,
        publisherVars, libraryVars
<1>1. CASE TryConnect \/ TryRaises
  BY <1>1 DEF TryConnect, BeginConnect, TryRaises, ConnectRaises
<1>2. CASE DialReturns
  BY <1>2 DEF DialReturns
<1>3. CASE TryReturns
  BY <1>3 DEF TryReturns, ConnectEnsured
<1>4. CASE Shutdown
  <2>1. CASE phase = "serving" /\ BeginDisconnect
    <3>1. CASE UNCHANGED <<nc, status>>
      BY <3>1
    <3>2. CASE DropClient
      BY <2>1, <3>2 DEF DropClient, ForgetClient
    <3>3. QED
      BY <2>1, <3>1, <3>2 DEF BeginDisconnect
  <2>2. CASE phase = "stopping" /\ DisconnectJoined
    BY <2>2 DEF DisconnectJoined, DropClient, ForgetClient
  <2>3. CASE phase = "stopping" /\ (DrainCompletes \/ DrainRaises)
    BY <2>3 DEF DrainCompletes, DrainRaises, ForgetClient
  <2>4. QED
    BY <1>4, <2>1, <2>2, <2>3 DEF Shutdown
<1>5. ASSUME NEW t \in Tasks, LoopStep(t)
      PROVE  Orphans' \subseteq Orphans /\ (Held' => Held)
  <2>1. UNCHANGED <<nc, status>>
    BY <1>5 DEF LoopStep, LoopFindsHealthy, LoopFindsLost, LoopReconnects,
       LoopAttemptFails, LoopCancelled
  <2>2. QED
    BY <2>1
<1>6. CASE Environment
  BY <1>6 DEF Environment, ServerToggles, ClientCloses, OnDisconnected
<1>7. CASE UNCHANGED allVars
  BY <1>7 DEF allVars, vars
<1>8. QED
  BY <1>1, <1>2, <1>3, <1>4, <1>5, <1>6, <1>7
  DEF LifespanNext, Startup, Background

LEMMA StepLeak ==
  ASSUME LInv, LifespanNext \/ UNCHANGED allVars
  PROVE  LeakInv'
<1>1. /\ attempt \in Nat /\ attempt' \in Nat
      /\ IsFiniteSet(Orphans) /\ Cardinality(Orphans) \in Nat
      /\ Cardinality(Orphans) =< IF attempt = 0 THEN 0 ELSE attempt - 1
  <2>1. PhaseInv'
    BY StepPhase
  <2>2. QED
    BY <2>1, AttemptsAssumption, FS_CardinalityType
    DEF LInv, LeakInv, LeaksAreBounded, PhaseInv
<1>2. CASE DialReturns
  <2>1. PICK c \in Clients : DialSucceeds(Caller, c)
    BY <1>2 DEF DialReturns
  <2>2. Orphans' = IF Held THEN Orphans \cup {nc} ELSE Orphans
    BY <2>1, DialLeavesBehind DEF Actors
  <2>3. nc \notin Orphans
    BY DEF Orphans
  <2>4. IsFiniteSet(Orphans')
        /\ Cardinality(Orphans') =< Cardinality(Orphans) + IF Held THEN 1 ELSE 0
    <3>1. CASE Held
      <4>1. Orphans' = Orphans \cup {nc}
        BY <2>2, <3>1
      <4>2. /\ IsFiniteSet(Orphans \cup {nc})
            /\ Cardinality(Orphans \cup {nc}) = Cardinality(Orphans) + 1
        BY <1>1, <2>3, FS_AddElement
      <4>3. QED
        BY <1>1, <3>1, <4>1, <4>2
    <3>2. CASE ~Held
      <4>1. Orphans' = Orphans
        BY <2>2, <3>2
      <4>2. QED
        BY <1>1, <3>2, <4>1
    <3>3. QED
      BY <3>1, <3>2
  <2>5. pc[Caller] = "dial" /\ pc'[Caller] = "ensure" /\ phase = "connecting"
        /\ UNCHANGED <<phase, attempt>>
    BY <1>2, <2>1 DEF DialReturns, DialSucceeds, LInv, IInv, TypeOK, Actors, lifespanVars
  <2>6. attempt # 0
    BY <2>5 DEF LInv, PhaseInv
  <2>7. Cardinality(Orphans) =< attempt - 1 /\ (Held => Cardinality(Orphans) < attempt - 1)
    BY <2>5 DEF LInv, LeakInv
  <2>8. Cardinality(Orphans') \in Nat
    BY <2>4, FS_CardinalityType
  <2>9. Cardinality(Orphans') =< attempt - 1
    BY <1>1, <2>4, <2>6, <2>7, <2>8
  <2>10. QED
    BY <2>4, <2>5, <2>6, <2>9 DEF LeakInv, LeaksAreBounded
<1>3. ASSUME NEW t \in Tasks, NEW c \in Clients, DialSucceeds(t, c),
             UNCHANGED lifespanVars
      PROVE  LeakInv'
  <2>1. ~Held /\ pc[t] = "dial"
    BY <1>3 DEF DialSucceeds, LInv, HoldInv
  <2>2. Orphans' = Orphans
    BY <1>3, <2>1, DialLeavesBehind DEF Actors
  <2>3. phase \notin {"starting", "connecting", "backoff"}
    BY <2>1 DEF LInv, LoopInv, NoLoop, Live
  <2>4. phase' \notin {"starting", "backoff"} /\ attempt' = attempt
    BY <1>3, <2>3 DEF lifespanVars
  <2>5. pc'[Caller] # "dial"
    BY <1>3, <2>3, ActorsAssumption
    DEF DialSucceeds, LInv, PhaseInv, IInv, TypeOK, Actors
  <2>6. QED
    BY <2>2, <2>4, <2>5 DEF LInv, LeakInv, LeaksAreBounded
<1>4. CASE \A a \in Actors, c \in Clients : ~DialSucceeds(a, c)
  <2>1. Orphans' \subseteq Orphans /\ (Held' => Held)
    BY <1>4, NothingElseLeaks
  <2>2. /\ IsFiniteSet(Orphans') /\ Cardinality(Orphans') \in Nat
        /\ Cardinality(Orphans') =< Cardinality(Orphans)
    BY <1>1, <2>1, FS_Subset, FS_CardinalityType
  <2>3. CASE TryConnect
    <3>1. attempt' = attempt + 1 /\ phase' = "connecting" /\ phase \in {"starting", "backoff"}
      BY <2>3 DEF TryConnect
    <3>2. pc'[Caller] = "dial"
      BY <2>3 DEF TryConnect, BeginConnect, LInv, IInv, TypeOK, Actors
    <3>3. pc[Caller] # "dial"
      BY <2>3 DEF TryConnect, BeginConnect
    <3>4. Cardinality(Orphans) =< attempt /\ (Held => Cardinality(Orphans) < attempt)
      BY <3>1, <3>3 DEF LInv, LeakInv
    <3>5. attempt' - 1 = attempt /\ attempt' # 0
      BY <1>1, <3>1
    <3>6. Cardinality(Orphans') =< attempt /\ (Held' => Cardinality(Orphans') < attempt)
      BY <1>1, <2>1, <2>2, <3>4
    <3>7. QED
      BY <2>2, <3>2, <3>5, <3>6 DEF LeakInv, LeaksAreBounded
  <2>4. CASE TryRaises
    <3>1. attempt' = attempt /\ pc'[Caller] # "dial" /\ phase = "connecting"
      BY <2>4 DEF TryRaises, ConnectRaises, LInv, IInv, TypeOK, Actors
    <3>2. attempt # 0
      BY <3>1 DEF LInv, PhaseInv
    <3>3. Cardinality(Orphans') =< attempt - 1 /\ Cardinality(Orphans') < attempt
      BY <1>1, <2>2, <3>2
    <3>4. QED
      BY <1>1, <2>2, <3>1, <3>2, <3>3 DEF LeakInv, LeaksAreBounded
  <2>5. CASE TryReturns \/ Shutdown
    <3>1. attempt' = attempt /\ phase' \notin {"starting", "backoff"}
      BY <2>5 DEF TryReturns, Shutdown
    <3>2. pc'[Caller] # "dial"
      <4>1. CASE TryReturns
        <5>1. PICK t \in Tasks : SpawnLoop(t)
          BY <4>1 DEF TryReturns, ConnectEnsured, ReplaceLoop, StartWithoutJoin,
             LInv, LoopInv, NoLoop, LoopActive, IInv, TypeOK
        <5>2. QED
          BY <5>1 DEF SpawnLoop, LInv, IInv, TypeOK, Actors
      <4>2. CASE Shutdown
        BY <4>2 DEF Shutdown, BeginDisconnect, DisconnectJoined, DrainCompletes,
           DrainRaises, DropClient, ForgetClient, LInv, IInv, TypeOK, Actors
      <4>3. QED
        BY <2>5, <4>1, <4>2
    <3>3. Cardinality(Orphans') =< IF attempt = 0 THEN 0 ELSE attempt - 1
      BY <1>1, <2>2
    <3>4. QED
      BY <2>2, <3>1, <3>2, <3>3 DEF LeakInv, LeaksAreBounded
  <2>6. CASE Background \/ UNCHANGED allVars
    <3>1. UNCHANGED lifespanVars /\ pc'[Caller] = pc[Caller]
      <4>1. ASSUME NEW t \in Tasks, LoopStep(t) PROVE pc'[Caller] = pc[Caller]
        BY <4>1, ActorsAssumption
        DEF LoopStep, LoopFindsHealthy, LoopFindsLost, LoopReconnects, LoopAttemptFails,
            LoopCancelled, DialSucceeds, LInv, IInv, TypeOK, Actors
      <4>2. ASSUME Environment PROVE pc'[Caller] = pc[Caller]
        BY <4>2 DEF Environment, ServerToggles, ClientCloses, OnDisconnected
      <4>3. QED
        BY <2>6, <4>1, <4>2 DEF Background, allVars, vars
    <3>2. UNCHANGED <<phase, attempt>>
      BY <3>1 DEF lifespanVars
    <3>3. Cardinality(Orphans') =< IF attempt = 0 THEN 0 ELSE attempt - 1
      BY <1>1, <2>2
    <3>4. ASSUME phase \in {"starting", "backoff"} \/ pc[Caller] = "dial"
          PROVE  LET made == IF pc[Caller] = "dial" THEN attempt - 1 ELSE attempt IN
                   /\ Cardinality(Orphans') =< made
                   /\ Held' => Cardinality(Orphans') < made
      <4> DEFINE made == IF pc[Caller] = "dial" THEN attempt - 1 ELSE attempt
      <4>1. Cardinality(Orphans) =< made /\ (Held => Cardinality(Orphans) < made)
        BY <3>4 DEF LInv, LeakInv
      <4>2. made \in Int
        BY <1>1
      <4>3. QED
        BY <1>1, <2>1, <2>2, <4>1, <4>2
    <3>5. QED
      BY <2>2, <3>1, <3>2, <3>3, <3>4 DEF LeakInv, LeaksAreBounded
  <2>7. QED
    BY <1>4, <2>3, <2>4, <2>5, <2>6 DEF LifespanNext, Startup, DialReturns, Actors
<1>5. QED
  <2>1. CASE \E t \in Tasks, c \in Clients : DialSucceeds(t, c)
    <3>1. PICK t \in Tasks, c \in Clients : DialSucceeds(t, c)
      BY <2>1
    <3>2. pc[t] = "dial" /\ pc'[t] = "ensure"
      BY <3>1 DEF DialSucceeds, LInv, IInv, TypeOK, Actors
    <3>3. phase \notin {"starting", "connecting", "backoff"}
      BY <3>2 DEF LInv, LoopInv, NoLoop, Live
    <3>4. ~Startup
      BY <3>3 DEF Startup, TryConnect, DialReturns, TryRaises, TryReturns
    <3>5. nc' # nc /\ nc' # None
      BY <3>1, ActorsAssumption DEF DialSucceeds, Fresh
    <3>6. ~Shutdown
      BY <3>5 DEF Shutdown, BeginDisconnect, DisconnectJoined, DrainCompletes,
         DrainRaises, DropClient, ForgetClient, publisherVars
    <3>7. UNCHANGED lifespanVars
      BY <3>4, <3>6 DEF LifespanNext, Background, allVars
    <3>8. QED
      BY <1>3, <3>1, <3>7
  <2>2. CASE \E c \in Clients : DialSucceeds(Caller, c)
    <3>1. PICK c \in Clients : DialSucceeds(Caller, c)
      BY <2>2
    <3>2. pc[Caller] = "dial" /\ pc'[Caller] = "ensure" /\ phase = "connecting"
      BY <3>1 DEF DialSucceeds, LInv, IInv, TypeOK, Actors, PhaseInv
    <3>3. nc' # nc /\ nc' # None
      BY <3>1, ActorsAssumption DEF DialSucceeds, Fresh
    <3>4. ~TryConnect /\ ~TryRaises /\ ~TryReturns /\ ~Shutdown
      BY <3>2, <3>3 DEF TryConnect, TryRaises, ConnectRaises, TryReturns,
         ConnectEnsured, Shutdown, publisherVars
    <3>5. ~Background /\ ~UNCHANGED allVars
      <4>1. ASSUME NEW t \in Tasks, LoopStep(t) PROVE FALSE
        BY <3>2, <4>1, ActorsAssumption
        DEF LoopStep, LoopFindsHealthy, LoopFindsLost, LoopReconnects, LoopAttemptFails,
            LoopCancelled, DialSucceeds, LInv, IInv, TypeOK, Actors
      <4>2. ~Environment
        BY <3>3 DEF Environment, ServerToggles, ClientCloses, OnDisconnected, publisherVars
      <4>3. QED
        BY <3>3, <4>1, <4>2 DEF Background, allVars, vars, publisherVars
    <3>6. QED
      BY <1>2, <3>4, <3>5 DEF LifespanNext, Startup
  <2>3. QED
    BY <1>4, <2>1, <2>2 DEF Actors

-----------------------------------------------------------------------------
LEMMA LifespanInvariance == LifespanSpec => []LInv
<1>1. LInv /\ [LifespanNext]_allVars => LInv'
  <2> SUFFICES ASSUME LInv, [LifespanNext]_allVars PROVE LInv'
    OBVIOUS
  <2>1. LifespanNext \/ UNCHANGED allVars
    OBVIOUS
  <2>2. IInv'
    BY <2>1, LifespanDrives, NextIInv DEF LInv
  <2>3. QED
    BY <2>1, <2>2, StepPhase, StepHold, StepLeak DEF LInv
<1>2. QED
  BY InitLInv, <1>1, PTL DEF LifespanSpec

(* lifespan() is where its call is: it waits in connect() while starting   *)
(* and in disconnect() while stopping, and nowhere else; it makes no more  *)
(* attempts than it may.                                                   *)
THEOREM LifespanTypes == LifespanSpec => []LifespanTypeOK
<1>1. LInv => LifespanTypeOK
  BY DEF LInv, IInv, PhaseInv, LifespanTypeOK
<1>2. QED
  BY <1>1, LifespanInvariance, PTL

(* While the service runs on a connection it started with, its reconnect   *)
(* loop is alive: nothing the loop meets ends it.                          *)
THEOREM LoopLivesOn == LifespanSpec => []LoopOutlivesFailures
<1>1. LInv => LoopOutlivesFailures
  BY DEF LInv, LoopInv, LoopOutlivesFailures
<1>2. QED
  BY <1>1, LifespanInvariance, PTL

(* The open clients nobody refers to are never more than the startup       *)
(* attempts that another one followed, however long the loop works.        *)
THEOREM FewLeaks == LifespanSpec => []LeaksAreBounded
<1>1. LInv => LeaksAreBounded
  BY DEF LInv, LeakInv
<1>2. QED
  BY <1>1, LifespanInvariance, PTL

(* The service drives the publisher as any caller may, so whatever is      *)
(* proved of every caller (one loop, stop means stop, justified back-off,  *)
(* no unwanted dial) is proved of the service.                             *)
THEOREM LifespanIsACaller == LifespanSpec => Spec
<1>1. LifespanInit => Init
  BY DEF LifespanInit
<1>2. [LifespanNext]_allVars => [Next]_vars
  BY LifespanDrives
<1>3. QED
  BY <1>1, <1>2, PTL DEF LifespanSpec, Spec

(* In particular the contract that the gateway is written against holds    *)
(* from the first attempt of startup to the last step of shutdown.         *)
THEOREM LifespanKeepsContract == LifespanSpec => ImplementsContract
BY LifespanIsACaller, PublisherImplementsContract, PTL
=============================================================================
