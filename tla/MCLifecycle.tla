---------------------------- MODULE MCLifecycle ----------------------------
(***************************************************************************)
(* Instances of Lifecycle for TLC: up to three accepted mutations.         *)
(***************************************************************************)
EXTENDS Lifecycle
=============================================================================
