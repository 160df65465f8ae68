----------------------------- MODULE MCAccountKey -----------------------------
(***************************************************************************)
(* Instances of AccountKey for TLC: a CA that tells staging from           *)
(* production by its host, as Let's Encrypt does, and one that only tells  *)
(* them apart by the path of the directory.                                *)
(***************************************************************************)
EXTENDS AccountKey

CONSTANTS prodHost, testHost, acme, test

Production == [host |-> prodHost, path |-> acme]
Staging == [host |-> testHost, path |-> acme]
SameHost == [host |-> testHost, path |-> test]
URLs == {Production, Staging, SameHost}

Config(s, d, u) == [staging |-> s, directory |-> d, stagingURL |-> u,
                    kid |-> FALSE, hmac |-> "absent"]
Bound(kid, hmac) == [Config(FALSE, Production, NoURL) EXCEPT !.kid = kid, !.hmac = hmac]
Sections ==
    {Config(s, d, u) : s \in BOOLEAN, d \in {Production, SameHost, NoURL}, u \in {Staging, NoURL}}
    \cup {Bound(TRUE, "decodes"), Bound(TRUE, "garbled"), Bound(TRUE, "absent"),
          Bound(FALSE, "decodes")}
===============================================================================
