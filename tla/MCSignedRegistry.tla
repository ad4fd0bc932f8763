-------------------------- MODULE MCSignedRegistry --------------------------
(* Instances of SignedRegistry for TLC: every kind of mutation, from every *)
(* key that could try it.                                                  *)
EXTENDS SignedRegistry

MCDomains == {"a.fed", "a.com"}
MCTlds == {"fed", "com"}
MCIdentity == [n \in MCTlds \cup MCDomains |-> n]
MCTldOf == [d \in MCDomains |-> IF d = "a.fed" THEN "fed" ELSE "com"]

Site(domain, owner) == [domain |-> domain, owner |-> owner, rev |-> 1]
IssuedRecord(owner, domain, status, signer) ==
    [owner |-> owner, manifest |-> Site(domain, owner), status |-> status,
     expires_at |-> NoExpiry, signer |-> signer]

Signed(actors, versions, actions) ==
    [nonce : Nonces, actor : actors, version : versions, issued_at : {0},
     genuine : {TRUE}, action : actions]

Publish(d, owner) == [kind |-> "publish_site", name |-> d, manifest |-> Site(d, owner)]

MCEnvelope ==
    Signed({"root"}, {1}, [kind : {"create_tld"}, name : MCTlds])
    \cup Signed({"root"}, {1}, [kind : {"reserve_tld", "block_tld"}, name : {"com"}])
    \cup Signed({"root"}, {2}, {[kind |-> "set_tld_status", name |-> "com",
                                 status |-> "official"]})
    \cup Signed({"root"}, {2}, {[kind |-> "update_tld", name |-> "fed", expires_at |-> 1]})
    \cup Signed({"alice"}, {1, 3}, {Publish("a.fed", "alice"), Publish("a.com", "alice")})
    \cup Signed({"bob"}, {3}, {Publish("a.fed", "bob"),
                               [kind |-> "update_domain_manifest", name |-> "a.fed",
                                manifest |-> Site("a.fed", "bob")]})
    \cup Signed({"root", "op", "alice"}, {2},
                [kind : {"set_domain_status"}, name : {"a.fed"},
                 status : {"suspended", "revoked"}])
    \cup Signed({"op", "root"}, {3},
                [kind : {"set_domain_status"}, name : {"a.fed"}, status : {"active"}])
    \cup Signed({"op"}, {3}, {[kind |-> "issue_domain", name |-> "a.fed",
                               record |-> IssuedRecord("bob", "a.fed", "active", "op")]})
    \cup Signed({"root"}, {3}, {[kind |-> "issue_domain", name |-> "a.com",
                               record |-> IssuedRecord("bob", "a.com", "active", "root")]})

MCDocument == {Site("a.fed", "alice"), Site("a.com", "alice"), Site("a.fed", "bob")}
=============================================================================
