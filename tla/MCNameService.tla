--------------------------- MODULE MCNameService ---------------------------
(***************************************************************************)
(* An instance of NameService for TLC: one gateway node and two addresses, *)
(* two packets and one connection.                                         *)
(*                                                                         *)
(* Bound: queries are asked only while no gateway has run, and gateways    *)
(* and the directory restart only where no query was asked.  The two meet  *)
(* in `gateways` alone, which an answer reads and nothing else of a query. *)
(***************************************************************************)
EXTENDS NameService

CONSTANTS n1, n2, a1, a2, u1, u2, t1

queryVars == << zone, cached, task, restarts >>

Unasked ==
    /\ ~zone /\ ~cached
    /\ \A t \in Tasks : task[t] = NoTask
    /\ restarts = 0

Apart ==
    /\ queryVars' # queryVars => moves = 0 /\ \A n \in Nodes : ~up[n]
    /\ moves' # moves => Unasked

MCSpec == InitNames /\ [][NextNames /\ Apart]_allVars /\ FairnessNames
=============================================================================
