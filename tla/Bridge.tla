------------------------------- MODULE Bridge -------------------------------
(***************************************************************************)
(* What Hermes promises a webhook sender: 202 only for an event that is    *)
(* durably in JetStream; any other answer, or none, promises nothing and   *)
(* may leave at most Limit copies behind (retries whose ack was lost).     *)
(***************************************************************************)
EXTENDS Naturals

CONSTANTS Events, Limit

VARIABLES outcome, durable

vars == <<outcome, durable>>

Init ==
  /\ outcome = [e \in Events |-> "pending"]
  /\ durable = [e \in Events |-> 0]

Persist(e) ==
  /\ outcome[e] = "pending" /\ durable[e] < Limit
  /\ durable' = [durable EXCEPT ![e] = @ + 1]
  /\ UNCHANGED outcome

Accept(e) ==
  /\ outcome[e] = "pending" /\ durable[e] > 0
  /\ outcome' = [outcome EXCEPT ![e] = "accepted"]
  /\ UNCHANGED durable

Refuse(e) ==
  /\ outcome[e] = "pending"
  /\ outcome' = [outcome EXCEPT ![e] = "refused"]
  /\ UNCHANGED durable

Next == \E e \in Events : Persist(e) \/ Accept(e) \/ Refuse(e)

Spec == Init /\ [][Next]_vars
=============================================================================
