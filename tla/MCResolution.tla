---------------------------- MODULE MCResolution ----------------------------
(***************************************************************************)
(* Instances of Resolution for TLC: two operators, two registry versions,  *)
(* every registry type.                                                    *)
(***************************************************************************)
EXTENDS Resolution, TLC

CONSTANTS o1, o2, t1, t2

OperatorSymmetry == Permutations({o1, o2})
=============================================================================
