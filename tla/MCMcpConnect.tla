---------------------------- MODULE MCMcpConnect ----------------------------
(***************************************************************************)
(* Discovery over good and bad origins, and configuration over every set   *)
(* of advertised methods.                                                  *)
(***************************************************************************)
EXTENDS McpConnect

Good == [scheme |-> "https", host |-> "public"]
Plain == [Good EXCEPT !.scheme = "http"]

\* A validator that accepts every URL, and one that lets no hint pass and
\* none of the OIDC fallbacks of a server with a path.
Lenient(u) == "accepts"
Strict(u) ==
    CASE u.doc = "hint"      -> "raises_OAuthError"
      [] u.doc = "path_oidc" -> "raises_other"
      [] OTHER               -> "accepts"

\* One way through discovery, for the runs about what comes after it.
Narrow(u) ==
    IF u.doc \in {"page", "hint", "oidc_root"} THEN "raises_other" ELSE "accepts"

OneOrigin == {Good}
MixedOrigins == {Good, Plain}

FewMethodSets == {{}}
TellingMethodSets ==
    {{}, {"none"}, {"private_key_jwt"}, {"client_secret_post", "client_secret_basic"},
     {"client_secret_basic", "none"}}
=============================================================================
