--------------------------- MODULE MCContentCache ---------------------------
(***************************************************************************)
(* Instances of ContentCache for TLC: two handlers, three blocks, one of   *)
(* which is alone larger than the cap.                                     *)
(***************************************************************************)
EXTENDS ContentCache, TLC

CONSTANTS b1, b2, b3, t1, t2

MCSize == b1 :> 1 @@ b2 :> 1 @@ b3 :> 2

Symmetry == Permutations({t1, t2})
=============================================================================
