------------------------------ MODULE MCRollout ------------------------------
(***************************************************************************)
(* Instances of Rollout for TLC; the cfg files say which.                  *)
(***************************************************************************)
EXTENDS Rollout, TLC

Callers == Permutations(Op)

\* Release 2 never answers its probe; and every release answers.
SecondIsBroken == {2}
NoneBroken == {}
==============================================================================
