-------------------------- MODULE MCRequestPipeline --------------------------
(* A small instance of RequestPipeline: requests are interchangeable.      *)
EXTENDS RequestPipeline, TLC

Symmetry == Permutations(Requests)
=============================================================================
