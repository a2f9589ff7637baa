---------------------------- MODULE MCFaultBroker ----------------------------
(* FaultBroker on a few slots, for TLC. *)
EXTENDS FaultBroker, TLC

Symmetric == Permutations(Handlers) \cup Permutations(Keys) \cup Permutations(Results)
=============================================================================
