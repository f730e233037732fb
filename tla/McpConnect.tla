----------------------------- MODULE McpConnect -----------------------------
(***************************************************************************)
(* apron_auth.mcp: connecting to an MCP server nobody configured.  The     *)
(* caller is the one README.md (Connecting to an MCP server) shows:        *)
(* discover, then obtain a client identity (pre-registered, a metadata     *)
(* document, or register_client), then to_provider_config, and from then   *)
(* on OAuthClient requests the endpoints of the configuration.             *)
(*                                                                         *)
(* A URL is an origin and the document asked of it; Policy is what the     *)
(* caller's url_validator does with it.                                    *)
(***************************************************************************)
EXTENDS ProviderConfig, Integers, Sequences

CONSTANTS Origin,       \* records: scheme and host
          Policy(_),    \* what url_validator does with a URL
          MethodSets,   \* token_endpoint_auth_methods a server may advertise
          Issuer        \* the issuer its metadata may name

\* What a URL asks of its origin: what it was given with, or a document
\* discovery looks for.
WellKnown == {"prm_path", "prm_root", "asm_root", "oidc_root", "asm_path", "oidc_path",
              "path_oidc"}
Url == [origin : Origin, doc : {"root", "page", "hint", "endpoint"} \cup WellKnown]

ServerUrl == [origin : Origin, doc : {"root", "page"}]
HintUrl == [origin : Origin, doc : {"hint"}]
EndpointUrl == [origin : Origin, doc : {"endpoint"}]

ASSUME McpAssumption ==
    /\ Origin \subseteq [scheme : {"https", "http"}, host : {"public", "blocked"}]
    /\ \A u \in Url : Policy(u) \in {"accepts", "raises_OAuthError", "raises_other"}
    /\ Issuer # Absent

VARIABLES pc,           \* where the caller is
          todo,         \* candidate URLs of the metadata fetch in progress
          urls,         \* what discovery started from: server, hint, auth
          resource,     \* the protected resource's identifier
          meta,         \* ServerMetadata
          client,       \* client identity: secret, registered method
          config,       \* ProviderConfig
          error,        \* the exception that ended it, and why
          requested     \* history: every URL a request was sent to

vars == <<pc, todo, urls, resource, meta, client, config, error, requested>>

NoUrls == [server |-> Absent, hint |-> Absent, auth |-> Absent]

Init ==
    /\ pc = "start"
    /\ todo = <<>>
    /\ urls = NoUrls
    /\ resource = Absent
    /\ meta = Absent
    /\ client = Absent
    /\ config = Absent
    /\ error = Absent
    /\ requested = {}

------------------------------------------------------------------------------
\* _validate_url: "ok", or the class of the exception it raises.
Validation(u, errorClass) ==
    IF u.origin.scheme # "https" \/ u.origin.host = "blocked" THEN errorClass
    ELSE CASE Policy(u) = "accepts"           -> "ok"
           [] Policy(u) = "raises_OAuthError" -> "OAuthError"
           [] Policy(u) = "raises_other"      -> errorClass

Passes(u) == Validation(u, "rejected") = "ok"

At(u, doc) == [u EXCEPT !.doc = doc]

\* _prm_candidate_urls and _asm_candidate_urls, in the order they are tried.
PrmCandidates(hint, server) ==
    (IF hint = Absent THEN <<>> ELSE <<hint>>)
    \o (IF server.doc = "root" THEN <<>> ELSE <<At(server, "prm_path")>>)
    \o <<At(server, "prm_root")>>

AsmCandidates(auth) ==
    IF auth.doc = "root"
    THEN <<At(auth, "asm_root"), At(auth, "oidc_root")>>
    ELSE <<At(auth, "asm_path"), At(auth, "oidc_path"), At(auth, "path_oidc")>>

Fail(class, reason) ==
    /\ pc' = "failed"
    /\ error' = [class |-> class, reason |-> reason, phase |-> pc]

\* The verdict on a list of URLs, absent ones skipped: that of the first bad one.
FirstRejection(list, errorClass) ==
    LET bad == {i \in DOMAIN list : list[i] # Absent /\ ~ Passes(list[i])}
    IN  IF bad = {} THEN "ok"
        ELSE Validation(list[CHOOSE i \in bad : \A j \in bad : i <= j], errorClass)

------------------------------------------------------------------------------
\* discover: the server URL is looked at before anything is requested.
Discover(server, hint) ==
    LET v == Validation(server, "McpDiscoveryError")
    IN  /\ pc = "start"
        /\ urls' = [NoUrls EXCEPT !.server = server, !.hint = hint]
        /\ IF v # "ok"
           THEN Fail(v, "rejected") /\ UNCHANGED todo
           ELSE /\ pc' = "prm"
                /\ todo' = PrmCandidates(hint, server)
                /\ UNCHANGED error
        /\ UNCHANGED <<resource, meta, client, config, requested>>

Fetching == pc \in {"prm", "asm"} /\ todo # <<>>

\* _fetch_first_metadata: a rejected candidate ends discovery, before it is
\* requested.
CandidateRejected ==
    /\ Fetching
    /\ ~ Passes(Head(todo))
    /\ Fail(Validation(Head(todo), "McpDiscoveryError"), "rejected")
    /\ UNCHANGED <<todo, urls, resource, meta, client, config, requested>>

\* Mutant: the candidate is put back, to be tried again after the others.
CandidateRetried ==
    /\ Fetching
    /\ Passes(Head(todo))
    /\ requested' = requested \cup {Head(todo)}
    /\ todo' = Append(Tail(todo), Head(todo))
    /\ UNCHANGED <<pc, urls, resource, meta, client, config, error>>

\* The request fails, or its answer is no 200, no JSON or no object: next.
CandidateSkipped ==
    /\ Fetching
    /\ Passes(Head(todo))
    /\ requested' = requested \cup {Head(todo)}
    /\ todo' = Tail(todo)
    /\ UNCHANGED <<pc, urls, resource, meta, client, config, error>>

\* Mutant: the last candidate is never tried.
ExhaustedEarly ==
    /\ pc \in {"prm", "asm"}
    /\ Len(todo) <= 1
    /\ Fail("McpDiscoveryError", "exhausted")
    /\ UNCHANGED <<todo, urls, resource, meta, client, config, requested>>

\* No candidate is left.
Exhausted ==
    /\ pc \in {"prm", "asm"}
    /\ todo = <<>>
    /\ Fail("McpDiscoveryError", "exhausted")
    /\ UNCHANGED <<todo, urls, resource, meta, client, config, requested>>

\* The protected-resource metadata: its first authorization server is looked
\* at, then that server's metadata is fetched.
ResourceMetadata(auth, res) ==
    LET v == IF auth = Absent THEN "McpDiscoveryError"
             ELSE Validation(auth, "McpDiscoveryError")
    IN  /\ pc = "prm" /\ Fetching
        /\ Passes(Head(todo))
        /\ requested' = requested \cup {Head(todo)}
        /\ IF v # "ok"
           THEN Fail(v, "rejected") /\ UNCHANGED <<todo, urls, resource>>
           ELSE /\ pc' = "asm"
                /\ todo' = AsmCandidates(auth)
                /\ urls' = [urls EXCEPT !.auth = auth]
                /\ resource' = res
                /\ UNCHANGED error
        /\ UNCHANGED <<meta, client, config>>

\* Mutant: the revocation endpoint is taken over unseen.
EndpointsVerdictUnrevoked(m) ==
    IF m.authorize = Absent \/ m.token = Absent THEN "McpDiscoveryError"
    ELSE FirstRejection(<<m.authorize, m.token, m.registration>>, "McpDiscoveryError")

\* Both endpoints of the flow are required, and every endpoint is looked at.
EndpointsVerdict(m) ==
    IF m.authorize = Absent \/ m.token = Absent THEN "McpDiscoveryError"
    ELSE FirstRejection(<<m.authorize, m.token, m.registration, m.revocation>>,
                        "McpDiscoveryError")

\* The authorization server's metadata, and the end of discover.
ServerMetadata(m) ==
    /\ pc = "asm" /\ Fetching
    /\ Passes(Head(todo))
    /\ requested' = requested \cup {Head(todo)}
    /\ IF EndpointsVerdict(m) # "ok"
       THEN Fail(EndpointsVerdict(m), "rejected") /\ UNCHANGED meta
       ELSE pc' = "discovered" /\ meta' = m /\ UNCHANGED error
    /\ UNCHANGED <<todo, urls, resource, client, config>>

Optional(set) == set \cup {Absent}

Metadata ==
    [authorize : Optional(EndpointUrl), token : Optional(EndpointUrl),
     registration : Optional(EndpointUrl), revocation : Optional(EndpointUrl),
     methods : MethodSets, s256 : {"unstated", "listed", "missing"},
     issuer : {Issuer, Absent}, issSupported : BOOLEAN]

------------------------------------------------------------------------------
Performable == {"client_secret_post", "client_secret_basic"}
Method == {"none", "private_key_jwt"} \cup Performable

\* A client known beforehand (registered by hand, or earlier by
\* register_client, or named by the URL of its metadata document): nothing is
\* requested.
UseKnownClient(secret, method) ==
    /\ pc = "discovered"
    /\ client' = [secret |-> secret, method |-> method]
    /\ pc' = "identified"
    /\ UNCHANGED <<todo, urls, resource, meta, config, error, requested>>

\* register_client: the URL is looked at (for the second time: discover did),
\* the request sent, the answer read.
Register(secret, method) ==
    /\ pc = "discovered"
    /\ meta.registration # Absent
    /\ Passes(meta.registration)
    /\ requested' = requested \cup {meta.registration}
    /\ client' = [secret |-> secret, method |-> method]
    /\ pc' = "identified"
    /\ UNCHANGED <<todo, urls, resource, meta, config, error>>

\* The request fails, or the status is not 200 or 201, or the body is no JSON
\* object with a client_id.
RegisterFails ==
    /\ pc = "discovered"
    /\ meta.registration # Absent
    /\ Passes(meta.registration)
    /\ requested' = requested \cup {meta.registration}
    /\ Fail("McpRegistrationError", "refused")
    /\ UNCHANGED <<todo, urls, resource, meta, client, config>>

\* Mutants: a registered method is taken as it is; a public client is given
\* "none" whatever is advertised; any advertised method will do.
HonoredUnchecked(registered, secret) == registered
DerivedUnchecked(secret, advertised) ==
    IF ~ secret THEN "none"
    ELSE IF advertised = {} THEN "client_secret_basic"
    ELSE CASE "client_secret_post" \in advertised  -> "client_secret_post"
           [] "client_secret_basic" \in advertised -> "client_secret_basic"
           [] OTHER -> "unusable"

DerivedFromAny(secret, advertised) ==
    IF ~ secret THEN IF advertised = {} \/ "none" \in advertised THEN "none" ELSE "unusable"
    ELSE IF advertised = {} THEN "client_secret_basic"
    ELSE CHOOSE method \in advertised : method # "none" \/ advertised = {"none"}

\* _honor_registered_auth_method, or "unusable" where it raises.
Honored(registered, secret) ==
    IF registered = "none" /\ ~ secret THEN "none"
    ELSE IF registered \in Performable /\ secret THEN registered
    ELSE "unusable"

\* _select_auth_method without a registered method, or "unusable".
Derived(secret, advertised) ==
    IF ~ secret THEN IF advertised = {} \/ "none" \in advertised THEN "none" ELSE "unusable"
    ELSE IF advertised = {} THEN "client_secret_basic"
    ELSE CASE "client_secret_post" \in advertised  -> "client_secret_post"
           [] "client_secret_basic" \in advertised -> "client_secret_basic"
           [] OTHER -> "unusable"

SelectAuthMethod(secret, advertised, registered) ==
    IF registered # Absent THEN Honored(registered, secret)
    ELSE Derived(secret, advertised)

\* to_provider_config, with ProviderConfig's own validation.
ToProviderConfig ==
    LET method == SelectAuthMethod(client.secret, meta.methods, client.method)
    IN  /\ pc = "identified"
        /\ IF method = "unusable"
           THEN Fail("McpDiscoveryError", "method") /\ UNCHANGED config
           ELSE IF ~ SecretMatchesMethod(client.secret, method)
           THEN Fail("ValidationError", "secret") /\ UNCHANGED config
           ELSE IF resource = "relative"
           THEN Fail("ValidationError", "resource") /\ UNCHANGED config
           ELSE /\ pc' = "configured"
                /\ config' = [token |-> meta.token, revocation |-> meta.revocation,
                              secret |-> client.secret, method |-> method,
                              usePkce |-> meta.s256 # "missing",
                              issuer |-> meta.issuer, requireIss |-> meta.issSupported,
                              resource |-> resource]
                /\ UNCHANGED error
        /\ UNCHANGED <<todo, urls, resource, meta, client, requested>>

\* OAuthClient exchanges, refreshes and revokes at the discovered endpoints.
UseClient ==
    /\ pc = "configured"
    /\ \E u \in {config.token, config.revocation} \ {Absent} :
          requested' = requested \cup {u}
    /\ UNCHANGED <<pc, todo, urls, resource, meta, client, config, error>>

------------------------------------------------------------------------------
Step ==
    \/ \E s \in ServerUrl, h \in Optional(HintUrl) : Discover(s, h)
    \/ CandidateRejected
    \/ CandidateSkipped
    \/ Exhausted
    \/ \E a \in Optional(ServerUrl), r \in {"absolute", "relative", Absent} :
          ResourceMetadata(a, r)
    \/ \E m \in Metadata : ServerMetadata(m)
    \/ \E secret \in BOOLEAN, method \in Optional(Method) :
          UseKnownClient(secret, method) \/ Register(secret, method)
    \/ RegisterFails
    \/ ToProviderConfig

Next == Step \/ UseClient

Spec == Init /\ [][Next]_vars

\* The caller goes on, and every request is answered or times out (httpx,
\* ten seconds for a fetch of discovery).
FairSpec == Spec /\ WF_vars(Step)

------------------------------------------------------------------------------
Client == [secret : BOOLEAN, method : Optional(Method)]

Configuration ==
    [token : EndpointUrl, revocation : Optional(EndpointUrl), secret : BOOLEAN,
     method : {"none"} \cup Performable, usePkce : BOOLEAN, issuer : {Issuer, Absent},
     requireIss : BOOLEAN, resource : {"absolute", Absent}]

Failure ==
    [class : {"McpDiscoveryError", "McpRegistrationError", "OAuthError", "ValidationError"},
     reason : {"rejected", "exhausted", "refused", "method", "secret", "resource"},
     phase : {"start", "prm", "asm", "discovered", "identified"}]

\* Absent is none of the objects it stands in for.
ASSUME AbsentIsNoObject ==
    Absent \notin Url \cup Metadata \cup Client \cup Configuration \cup Failure \cup Method

\* Types of the state; a configuration has a token endpoint and a method that
\* OAuthClient can perform.
TypeOK ==
    /\ pc \in {"start", "prm", "asm", "discovered", "identified", "configured", "failed"}
    /\ todo \in Seq(Url)
    /\ urls \in [server : Optional(ServerUrl), hint : Optional(HintUrl),
                auth : Optional(ServerUrl)]
    /\ resource \in {"absolute", "relative", Absent}
    /\ meta \in Optional(Metadata)
    /\ client \in Optional(Client)
    /\ config \in Optional(Configuration)
    /\ error \in Optional(Failure)
    /\ requested \subseteq Url

\* Every URL a request is ever sent to passed _validate_url: the hint, every
\* well-known candidate, the registration endpoint, and later the token and
\* revocation endpoints, which OAuthClient itself does not look at.
RequestsAreValidated == \A u \in requested : Passes(u)

\* Discovery gives up for want of metadata only after every candidate, the
\* OIDC fallbacks included, was requested.
GivesUpAfterAll ==
    error # Absent /\ error.reason = "exhausted" =>
        LET list == IF error.phase = "prm" THEN PrmCandidates(urls.hint, urls.server)
                    ELSE AsmCandidates(urls.auth)
        IN  \A i \in 1..Len(list) : list[i] \in requested

\* The configuration's method is one the server accepts from this client: the
\* registered one, else an advertised one, else (nothing advertised) a default.
MethodIsAccepted ==
    config # Absent =>
        IF client.method # Absent THEN config.method = client.method
        ELSE meta.methods # {} => config.method \in meta.methods

\* A configuration never contradicts itself: the selection of the method fails
\* before ProviderConfig could refuse the secret, and a method that presents a
\* secret has one.
SecretAgrees ==
    /\ error # Absent => error.reason # "secret"
    /\ config # Absent => (PresentsBasicAuth(config.secret, config.method) <=> config.secret)

\* Connecting ends, with a configuration or with an exception.
ConnectEnds == <>(pc \in {"configured", "failed"})

\* README.md:539: "When the server advertises `iss` support, a callback that
\* omits `iss` is also rejected."
MissingIssIsRejected ==
    config # Absent /\ meta.issSupported =>
        ~ IssuerAccepted(config.issuer, config.requireIss, Absent)
=============================================================================
