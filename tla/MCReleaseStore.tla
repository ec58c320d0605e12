-------------------------- MODULE MCReleaseStore --------------------------
(***************************************************************************)
(* Instance of ReleaseStore for TLC.  Two apps show that the rows of one   *)
(* app do not constrain the other's; three releases and four rows are the  *)
(* least that tell activation order from release numbers apart after two   *)
(* rollbacks.                                                              *)
(***************************************************************************)
EXTENDS ReleaseStore, TLC

Apps == Permutations(App)
=============================================================================
