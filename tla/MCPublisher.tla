---------------------------- MODULE MCPublisher ----------------------------
(***************************************************************************)
(* An instance of Publisher for TLC: two machines with alice's key publish *)
(* a site each, three runs in all, to a registry that is seeded, stops and *)
(* starts.                                                                 *)
(***************************************************************************)
EXTENDS Publisher

CONSTANTS p1, p2

MCNames == {"fed", "home.fed"}
MCIdentity == [n \in MCNames |-> n]
MCTldOf == [d \in {"home.fed"} |-> "fed"]

MCSites == { [domain |-> "home.fed", owner |-> "alice", rev |-> r] : r \in 1 .. 2 }

\* p1 has an older package beside its site, p2 one of another owner.
MCSite == [c \in Clients |-> IF c = p1 THEN 2 ELSE 1]

MCFolder ==
    [c \in Clients |->
        { m \in MCSites : c = p1 /\ m.rev = 1 }
        \cup { [m EXCEPT !.owner = "op"] : m \in { s \in MCSites : c = p2 } }]

MCSeedFile == {[name |-> "fed", kind |-> "create_tld"]}

\* Bound: three challenges, so three runs.
MCRequests ==
    [nonce : Nonces, actor : {"alice"}, version : 1 .. Cardinality(Nonces),
     issued_at : {0}, genuine : {TRUE},
     action : [kind : {"publish_site"}, name : {"home.fed"}, manifest : MCSites]]
=============================================================================
