------------------------- MODULE ConnectionContract -------------------------
(***************************************************************************)
(* What Publisher promises its users about the connection, without saying  *)
(* how: when is_connected may become true, how long a publish finds a      *)
(* JetStream handle, who keeps the reconnect loop alive, and what holds    *)
(* when connect() and disconnect() return.                                 *)
(***************************************************************************)
VARIABLES
  js,       \* _js is not None: publish() has something to publish with
  up,       \* is_connected
  looping,  \* a reconnect loop is alive
  call      \* the lifecycle call in progress: "none", "connect", "disconnect"

vars == <<js, up, looping, call>>

TypeOK ==
  /\ js \in BOOLEAN /\ up \in BOOLEAN /\ looping \in BOOLEAN
  /\ call \in {"none", "connect", "disconnect"}

Init == ~js /\ ~up /\ ~looping /\ call = "none"

(* The link comes up inside connect(), or by a loop nobody has stopped.    *)
LinkUp ==
  /\ call = "connect" \/ (looping /\ call = "none")
  /\ js' = TRUE /\ up' = TRUE
  /\ UNCHANGED <<looping, call>>

(* It may go down at any time; the handle stays.                           *)
LinkDown ==
  /\ up' = FALSE
  /\ UNCHANGED <<js, looping, call>>

Begin(c) ==
  /\ call = "none" /\ call' = c
  /\ UNCHANGED <<js, up, looping>>

(* A loop only ends for the sake of a connect() or a disconnect().         *)
LoopEnds ==
  /\ call # "none" /\ looping' = FALSE
  /\ UNCHANGED <<js, up, call>>

ConnectReturns ==
  /\ call = "connect" /\ call' = "none"
  /\ looping' = TRUE
  /\ UNCHANGED <<js, up>>

ConnectRaises ==
  /\ call = "connect" /\ call' = "none"
  /\ UNCHANGED <<js, up, looping>>

(* Normally handle and link are gone afterwards; if the drain raised both  *)
(* are as they were.  Either way no loop survives.                         *)
Dropped == js' = FALSE /\ up' = FALSE
DisconnectEnds ==
  /\ call = "disconnect" /\ call' = "none"
  /\ ~looping /\ looping' = FALSE
  /\ Dropped \/ UNCHANGED <<js, up>>

(* disconnect() without a loop to stop or a client to drain never suspends.*)
DisconnectAtOnce ==
  /\ call = "none" /\ ~looping
  /\ Dropped
  /\ UNCHANGED <<looping, call>>

Next ==
  \/ LinkUp \/ LinkDown \/ Begin("connect") \/ Begin("disconnect")
  \/ LoopEnds \/ ConnectReturns \/ ConnectRaises
  \/ DisconnectEnds \/ DisconnectAtOnce

Spec == Init /\ [][Next]_vars
=============================================================================
