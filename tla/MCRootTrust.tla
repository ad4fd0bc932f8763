---------------------------- MODULE MCRootTrust ----------------------------
(***************************************************************************)
(* Instances of RootTrust for TLC: one or two refreshing tasks, the root's *)
(* key and a foreign one, up to three versions.                            *)
(***************************************************************************)
EXTENDS RootTrust, TLC

CONSTANTS k1, k2, t1, t2

TaskSymmetry == Permutations({t1, t2})
=============================================================================
