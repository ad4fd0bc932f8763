--------------------------- MODULE MCDirectory ---------------------------
(***************************************************************************)
(* Instances of Directory for TLC: two nodes and one or two addresses, a   *)
(* clock just longer than the age at which a node is stale.                *)
(***************************************************************************)
EXTENDS Directory, TLC

CONSTANTS n1, n2, a1, a2, b1

NodeSymmetry == Permutations({n1, n2})

AddrSymmetry == Permutations({a1, a2})
=============================================================================
