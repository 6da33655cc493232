-------------------------- MODULE MCDeadLetterQueue --------------------------
(* A small instance of DeadLetterQueue: publishes, and the subjects of each *)
(* kind, are interchangeable.                                              *)
EXTENDS DeadLetterQueue, TLC

Symmetry ==
  Permutations(Requests) \cup Permutations(KnownSubjects) \cup Permutations(DeadSubjects)
=============================================================================
