------------------------------ MODULE MCRelay ------------------------------
(***************************************************************************)
(* Instances of Relay for TLC: two nodes that relay to each other, one of  *)
(* them old, and a third that has wrong copies.                            *)
(***************************************************************************)
EXTENDS Relay, TLC

CONSTANTS a, b, x, c1, c2, c3

MCProviders == a :> << x, b >> @@ b :> << a >> @@ x :> << >>

MCVersions == a :> {0, 1} @@ b :> {0} @@ x :> {0, 1}
=============================================================================
