------------------------ MODULE AuthorizationRequest ------------------------
(***************************************************************************)
(* The parameters of the authorization URL get_authorization_url builds,   *)
(* as the dictionary a server reads: a function from parameter names.      *)
(* client_id, response_type, scope and code_challenge_method are left out. *)
(***************************************************************************)
CONSTANTS Query,       \* parameters already in ProviderConfig.authorize_url
          ExtraParams, \* ProviderConfig.extra_params
          Resource,    \* ProviderConfig.resource, or None
          None

\* dict.update: the entries of e replace those of d.
Updated(d, e) ==
    [n \in DOMAIN d \cup DOMAIN e |-> IF n \in DOMAIN e THEN e[n] ELSE d[n]]

\* The parameters that belong to the flow of pending state p.
OwnParams(p) ==
    [n \in {"state", "redirect_uri"}
           \cup (IF p.payload.code_verifier # None THEN {"code_challenge"} ELSE {}) |->
        CASE n = "state"          -> p.state
          [] n = "redirect_uri"   -> p.payload.redirect_uri
          [] n = "code_challenge" -> p.payload.code_verifier]

ResourceParam == [n \in (IF Resource # None THEN {"resource"} ELSE {}) |-> Resource]

\* Mutant: the escape hatch has the last word on the resource.
UrlExtraLast(p) ==
    Updated(Query, Updated(Updated(OwnParams(p), ResourceParam), ExtraParams))

\* extra_params may replace what the flow set, the resource replaces what they
\* set, and all of them replace what was in the URL.
Url(p) == Updated(Query, Updated(Updated(OwnParams(p), ExtraParams), ResourceParam))

\* A parameter as the server reads it.
Param(url, n) == IF n \in DOMAIN url THEN url[n] ELSE None
=============================================================================
