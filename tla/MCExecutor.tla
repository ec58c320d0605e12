----------------------------- MODULE MCExecutor -----------------------------
(***************************************************************************)
(* Instances of Executor for TLC; the cfg files give the bounds.           *)
(***************************************************************************)
EXTENDS Executor, TLC

CallersAndReplicas == Permutations(Caller) \cup Permutations(Replica)
=============================================================================
