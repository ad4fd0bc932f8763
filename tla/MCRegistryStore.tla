-------------------------- MODULE MCRegistryStore --------------------------
(* Instances of RegistryStore for TLC.                                     *)
EXTENDS RegistryPromise, TLC

MCNames == {"fed", "home.fed"}
MCIdentity == [n \in MCNames |-> n]
MCTldOf == [d \in {"home.fed"} |-> "fed"]

MCSite == [domain |-> "home.fed", owner |-> "alice", rev |-> 1]

Envelopes(actor, versions, actions) ==
    [nonce : Nonces, actor : {actor}, version : versions, issued_at : {0},
     genuine : {TRUE}, action : actions]

MCSeedFile == {[name |-> "fed", kind |-> "create_tld"]}

\* The seeded TLD is disabled by root while alice publishes.
MCRequests ==
    Envelopes("root", {2}, {[kind |-> "set_tld_status", name |-> "fed",
                                  status |-> "disabled"]})
    \cup Envelopes("alice", {1, 2}, {[kind |-> "publish_site", name |-> "home.fed",
                                      manifest |-> MCSite]})

\* .arte is delegated to carol, whose registry is pinned and re-pinned; a second
\* delegation of the same name, to dave, dated after the start and also forged,
\* must come to nothing.
MCFaultNames == {"arte"}
MCFaultIdentity == [n \in MCFaultNames |-> n]
MCNoDomains == [d \in {} |-> "arte"]

Delegate(operator) == [kind |-> "delegate_tld", name |-> "arte", operator |-> operator,
                       registry_type |-> "delegated_manifest", expires_at |-> NoExpiry]
Repin(v) == [kind |-> "update_registry_pointer", name |-> "arte",
             registry |-> [tld |-> "arte", signer |-> "carol", version |-> v]]

MCFaultRequests ==
    Envelopes("root", {1}, {Delegate("carol")})
    \cup {[e EXCEPT !.issued_at = 1] : e \in Envelopes("root", {3}, {Delegate("dave")})}
    \cup {[e EXCEPT !.genuine = FALSE] : e \in Envelopes("root", {1}, {Delegate("dave")})}
    \cup Envelopes("carol", {2}, {Repin(2)})
    \cup Envelopes("carol", {2, 3}, {Repin(1)})

MCPackages == {MCSite}

MCSymmetry == Permutations(Handlers) \cup Permutations(Nonces)
=============================================================================
