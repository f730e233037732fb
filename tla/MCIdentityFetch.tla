-------------------------- MODULE MCIdentityFetch --------------------------
(***************************************************************************)
(* Every handler, given and inferred.  OAuth hosts that do not belong      *)
(* together are tried with two providers and a foreign host, and with a    *)
(* given handler only where it looks at them (Salesforce's); openid is     *)
(* tried where it matters (Slack's).                                       *)
(***************************************************************************)
EXTENDS IdentityFetch

MCDomainsOf == [t \in Tenant |-> IF t = "acme" THEN {"acme.com", "acme.org"} ELSE {"zenith.io"}]

Mixed == {"google", "salesforce", Foreign}

MCSetups ==
    {s \in Setup : /\ s.authorize = s.token \/ {s.authorize, s.token} \subseteq Mixed
                   /\ s.given \notin {Absent, "salesforce"} =>
                          s.authorize = Foreign /\ s.token = Foreign
                   /\ s.openid => SignsIn(s) = "slack"}
=============================================================================
