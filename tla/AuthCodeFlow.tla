---------------------------- MODULE AuthCodeFlow ----------------------------
(***************************************************************************)
(* The authorization-code flow: OAuthClient.get_authorization_url and      *)
(* exchange_code of one configured client, its MemoryStateStore, the       *)
(* authorization server, and browsers that deliver a response late, twice, *)
(* never, under another flow's state token or without its iss parameter.   *)
(*                                                                         *)
(* exchange_code runs without suspending up to the token request, so that  *)
(* part is one step; any number of calls may be waiting for the endpoint   *)
(* at once.  A request may reach the server after its caller has given up. *)
(***************************************************************************)
EXTENDS Integers, FiniteSets

CONSTANTS Flow,        \* state tokens, one drawn per get_authorization_url
          Code,        \* authorization codes
          Call,        \* invocations of exchange_code
          Redirect,    \* redirect URIs
          Home,        \* issuer of the configured authorization server
          Elsewhere,   \* issuers of other authorization servers
          ExpectedIss, \* ProviderConfig.issuer, or None
          RequireIss,  \* ProviderConfig.require_iss
          UsePkce,     \* ProviderConfig.use_pkce
          Audience,    \* resource indicators
          Resource,    \* ProviderConfig.resource, or None
          ExtraParams, \* ProviderConfig.extra_params, a function from names
          Query,       \* parameters in ProviderConfig.authorize_url, likewise
          Modes,       \* how calls are made: with "state", with "args"
          MaxAge, MaxTime, MaxBack, \* of the store, see MemoryStateStore
          None

Issuer == {Home} \cup Elsewhere

ASSUME FlowAssumption ==
    /\ Home \notin Elsewhere
    /\ ExpectedIss \in {Home, None}
    /\ RequireIss \in BOOLEAN /\ UsePkce \in BOOLEAN
    /\ Modes \subseteq {"state", "args"}
    /\ None \notin Flow \cup Code \cup Redirect \cup Issuer \cup Audience

\* extra_params is the caller's to fill, and may name the flow's own parameters;
\* what the flow promises, it promises a caller who leaves them alone.  The
\* authorize_url may name any of them, but no challenge when PKCE is off.
ASSUME RequestAssumption ==
    /\ Resource \in Audience \cup {None}
    /\ \A n \in DOMAIN ExtraParams : n \notin {"state", "redirect_uri", "code_challenge"}
    /\ UsePkce \/ "code_challenge" \notin DOMAIN Query
    /\ "resource" \in DOMAIN ExtraParams => ExtraParams["resource"] \in Audience
    /\ "resource" \in DOMAIN Query => Query["resource"] \in Audience

VARIABLES states, now, \* the store's dictionary and the clock
          pending,     \* per flow, the OAuthPendingState its URL was built from
          grants,      \* per code, what the server that minted it remembers
          responses,   \* authorization responses handed to browsers
          calls        \* the invocations of exchange_code

vars == <<states, now, pending, grants, responses, calls>>

\* A verifier is drawn per flow, so it is named by its flow; so is the
\* caller's metadata.
Payload == [redirect_uri : Redirect, code_verifier : Flow \cup {None}, metadata : Flow]

Store == INSTANCE MemoryStateStore WITH Key <- Flow, NoPending <- None

Endpoint == INSTANCE TokenEndpoint WITH
               Token <- Code,
               ErrorCode <- {"invalid_grant", "server_error"},
               ExtraPermanent <- {}

Config == INSTANCE ProviderConfig WITH Absent <- None

Request == INSTANCE AuthorizationRequest

ASSUME StoreConstants ==
    /\ MaxAge \in Nat /\ MaxTime \in Nat /\ MaxBack \in Nat
    /\ None \notin Store!Pending

Response == [state : Flow, code : Code, iss : Issuer \cup {None}]

Grant == [minter : Issuer, flow : Flow, redirect_uri : Redirect,
          challenge : Flow \cup {None}, audience : Audience \cup {None},
          redeemed : BOOLEAN]

Form == [code : Code, redirect_uri : Redirect, code_verifier : Flow \cup {None},
         resource : Audience \cup {None}]

\* Python's None is none of the objects it stands in for.
ASSUME NoneIsNoObject == None \notin Grant /\ None \notin Response /\ None \notin Form

\* Answers that say nothing of the code: what a proxy or a broken server sends.
Useless ==
    {[status |-> "5xx", body |-> "text", error |-> "absent", token |-> "absent",
      lifetime |-> "readable"],
     [status |-> "below_500", body |-> "object", error |-> "absent", token |-> "absent",
      lifetime |-> "readable"]}

IdleCall == [pc |-> "idle", response |-> None, consumed |-> None, form |-> None,
             context |-> None, wire |-> "none", answer |-> None, outcome |-> "none"]

Init ==
    /\ Store!StoreInit
    /\ pending = [f \in Flow |-> None]
    /\ grants = [c \in Code |-> None]
    /\ responses = {}
    /\ calls = [x \in Call |-> IdleCall]

------------------------------------------------------------------------------
\* Mutant: the verifier is drawn once for the client, not once per flow.
GetAuthorizationUrlOneVerifier(f, r) ==
    \E v \in Flow :
        LET p == [state |-> f, created_at |-> now,
                  payload |-> [redirect_uri |-> r, code_verifier |-> v, metadata |-> f]]
        IN  /\ \A g \in Flow : pending[g] # None => pending[g].payload.code_verifier = v
            /\ pending[f] = None
            /\ pending' = [pending EXCEPT ![f] = p]
            /\ Store!Save(p)
            /\ UNCHANGED <<grants, responses, calls>>

\* get_authorization_url: a fresh state token, a verifier with PKCE, the
\* pending state saved and returned.  There is a redirect URI: without one it
\* raises a ConfigurationError before it does any of this.
GetAuthorizationUrl(f, r) ==
    LET p == [state |-> f, created_at |-> now,
              payload |-> [redirect_uri |-> r,
                           code_verifier |-> IF UsePkce THEN f ELSE None,
                           metadata |-> f]]
    IN  /\ pending[f] = None
        /\ pending' = [pending EXCEPT ![f] = p]
        /\ Store!Save(p)
        /\ UNCHANGED <<grants, responses, calls>>

\* The URL of a flow.
Url(f) == Request!Url(pending[f])

\* The server behind issuer i reads the URL, asks the user and sends a response;
\* another server than Home was reached with Home's state token by a mix-up.
Authorize(f, c, i) ==
    /\ pending[f] # None
    /\ grants[c] = None
    /\ grants' = [grants EXCEPT ![c] =
                    [minter |-> i, flow |-> f,
                     redirect_uri |-> Request!Param(Url(f), "redirect_uri"),
                     challenge |-> Request!Param(Url(f), "code_challenge"),
                     audience |-> Request!Param(Url(f), "resource"),
                     redeemed |-> FALSE]]
    /\ responses' = responses \cup
                       {[state |-> Request!Param(Url(f), "state"), code |-> c, iss |-> i]}
    /\ UNCHANGED <<states, now, pending, calls>>

\* What may arrive at the redirect URI: a response as sent, under another
\* flow's state token, or without iss.
Delivered ==
    responses
    \cup {[r EXCEPT !.state = g] : r \in responses, g \in Flow}
    \cup {[r EXCEPT !.iss = None] : r \in responses}

------------------------------------------------------------------------------
\* validate_issuer, for this client's configuration.
Accepts(iss) == Config!IssuerAccepted(ExpectedIss, RequireIss, iss)

Begin(x, r) == calls[x].pc = "idle" /\ r \in Delivered

\* Mutant: the outcome is lost.
FinishUnfiled(x, r, outcome) == calls' = [calls EXCEPT ![x].pc = "done", ![x].outcome = None]

Finish(x, r, outcome) ==
    calls' = [calls EXCEPT ![x] = [IdleCall EXCEPT !.pc = "done", !.response = r,
                                                   !.outcome = outcome]]

\* The token request leaves, and the call is suspended until it ends.
Send(x, r, p, consumed, context) ==
    calls' = [calls EXCEPT ![x] =
                [IdleCall EXCEPT
                   !.pc = "waiting", !.response = r, !.consumed = consumed,
                   !.form = [code |-> r.code,
                             redirect_uri |-> p.payload.redirect_uri,
                             code_verifier |-> p.payload.code_verifier,
                             resource |-> Resource],
                   !.context = context, !.wire = "request"]]

\* Mutant: the state is consumed before the issuer is looked at.
ExchangeIssuerRejectedBurning(x, r) ==
    /\ Begin(x, r)
    /\ ~ Accepts(r.iss)
    /\ Finish(x, r, "IssuerValidationError")
    /\ Store!ConsumeMissing(r.state) \/ Store!ConsumeExpired(r.state)
       \/ Store!ConsumeGood(r.state)
    /\ UNCHANGED <<pending, grants, responses>>

\* exchange_code: the issuer is validated before anything else.
ExchangeIssuerRejected(x, r) ==
    /\ Begin(x, r)
    /\ ~ Accepts(r.iss)
    /\ Finish(x, r, "IssuerValidationError")
    /\ UNCHANGED <<states, now, pending, grants, responses>>

\* exchange_code(code, state): the store has no such state any more.
ExchangeStateRejected(x, r) ==
    /\ "state" \in Modes
    /\ Begin(x, r)
    /\ Accepts(r.iss)
    /\ Store!ConsumeMissing(r.state) \/ Store!ConsumeExpired(r.state)
    /\ Finish(x, r, "StateError")
    /\ UNCHANGED <<pending, grants, responses>>

\* Mutant: the stored verifier is not taken over.
ExchangeStateNoVerifier(x, r) ==
    /\ "state" \in Modes
    /\ Begin(x, r)
    /\ Accepts(r.iss)
    /\ Store!ConsumeGood(r.state)
    /\ Send(x, r, [states[r.state] EXCEPT !.payload.code_verifier = None], r.state,
            states[r.state].payload.metadata)
    /\ UNCHANGED <<pending, grants, responses>>

\* exchange_code(code, state): redirect URI, verifier and context are those
\* stored under the state token.
ExchangeState(x, r) ==
    /\ "state" \in Modes
    /\ Begin(x, r)
    /\ Accepts(r.iss)
    /\ Store!ConsumeGood(r.state)
    /\ Send(x, r, states[r.state], r.state, states[r.state].payload.metadata)
    /\ UNCHANGED <<pending, grants, responses>>

\* exchange_code(code, redirect_uri, code_verifier): the caller kept the
\* pending state of the flow; the store is not asked, the context is empty.  So
\* it is with a state token when the client has no store.
ExchangeArgs(x, r) ==
    /\ "args" \in Modes
    /\ Begin(x, r)
    /\ Accepts(r.iss)
    /\ pending[r.state] # None
    /\ Send(x, r, pending[r.state], None, None)
    /\ UNCHANGED <<states, now, pending, grants, responses>>

------------------------------------------------------------------------------
\* RFC 6749, 7636 and 8707, as a conforming server applies them to a form; the
\* error stands for invalid_target too.
Redeemable(form) ==
    LET g == grants[form.code]
    IN  /\ g # None
        /\ g.minter = Home
        /\ ~ g.redeemed
        /\ g.redirect_uri = form.redirect_uri
        /\ g.challenge # None => g.challenge = form.code_verifier
        /\ form.resource # None => g.audience = form.resource

\* The token endpoint works on the request of call x, whether or not its
\* caller still waits; the answer may be lost in something useless.
EndpointRedeems(x) ==
    /\ calls[x].wire = "request"
    /\ Redeemable(calls[x].form)
    /\ grants' = [grants EXCEPT ![calls[x].form.code].redeemed = TRUE]
    /\ \E a \in {Endpoint!TokenReply(calls[x].form.code)} \cup Useless :
          calls' = [calls EXCEPT ![x].wire = "answered", ![x].answer = a]
    /\ UNCHANGED <<states, now, pending, responses>>

EndpointRefuses(x) ==
    /\ calls[x].wire = "request"
    /\ ~ Redeemable(calls[x].form)
    /\ \E a \in {Endpoint!ErrorReply("invalid_grant")} \cup Useless :
          calls' = [calls EXCEPT ![x].wire = "answered", ![x].answer = a]
    /\ UNCHANGED <<states, now, pending, grants, responses>>

\* The answer arrives and the suspended call ends.
Answered(x) ==
    /\ calls[x].pc = "waiting"
    /\ calls[x].wire = "answered"
    /\ calls' = [calls EXCEPT ![x].pc = "done",
                              ![x].outcome = Endpoint!ExchangeOutcome(calls[x].answer)]
    /\ UNCHANGED <<states, now, pending, grants, responses>>

\* Mutant: the state is put back so that the caller may try again.
UnansweredRestoring(x) ==
    /\ calls[x].pc = "waiting"
    /\ calls' = [calls EXCEPT ![x].pc = "done",
                              ![x].outcome = Endpoint!ExchangeOutcome(Endpoint!NoAnswer)]
    /\ states' = [f \in Flow |-> IF f = calls[x].consumed THEN pending[f] ELSE states[f]]
    /\ UNCHANGED <<now, pending, grants, responses>>

\* No answer: httpx raises on a broken connection or after its timeout.
Unanswered(x) ==
    /\ calls[x].pc = "waiting"
    /\ calls' = [calls EXCEPT ![x].pc = "done",
                              ![x].outcome = Endpoint!ExchangeOutcome(Endpoint!NoAnswer)]
    /\ UNCHANGED <<states, now, pending, grants, responses>>

ClockMoves == Store!Tick /\ UNCHANGED <<pending, grants, responses, calls>>

Exchange(x, r) ==
    \/ ExchangeIssuerRejected(x, r)
    \/ ExchangeStateRejected(x, r)
    \/ ExchangeState(x, r)
    \/ ExchangeArgs(x, r)

CallEnds(x) == Answered(x) \/ Unanswered(x)

Next ==
    \/ \E f \in Flow, r \in Redirect : GetAuthorizationUrl(f, r)
    \/ \E f \in Flow, c \in Code, i \in Issuer : Authorize(f, c, i)
    \/ \E x \in Call, r \in Delivered : Exchange(x, r)
    \/ \E x \in Call : EndpointRedeems(x) \/ EndpointRefuses(x) \/ CallEnds(x)
    \/ ClockMoves

Spec == Init /\ [][Next]_vars

------------------------------------------------------------------------------
Outcomes == {"none", "IssuerValidationError", "StateError"} \cup Endpoint!Outcome

CallRecord == [pc : {"idle", "waiting", "done"}, response : Response \cup {None},
               consumed : Flow \cup {None}, form : Form \cup {None},
               context : Flow \cup {None}, wire : {"none", "request", "answered"},
               answer : Endpoint!Reply \cup {None}, outcome : Outcomes]

\* Types of the state; a pending state is filed under its own state token.
TypeOK ==
    /\ Store!StoreTypeOK
    /\ pending \in [Flow -> Store!Pending \cup {None}]
    /\ \A f \in Flow : pending[f] # None => pending[f].state = f
    /\ grants \in [Code -> Grant \cup {None}]
    /\ responses \subseteq Response
    /\ calls \in [Call -> CallRecord]

\* Among all calls, concurrent and repeated, at most one sends a token request
\* on the strength of a stored state (client.py: consume before the request).
OneRequestPerState ==
    \A x, y \in Call :
        calls[x].consumed # None /\ calls[x].consumed = calls[y].consumed => x = y

\* The store gives a flow up only when it expired or when a call whose iss was
\* accepted took it: a response refused for its iss burns nothing.  (Stated for
\* a clock that does not step back.)
BurntForACause ==
    \A f \in Flow :
        pending[f] # None /\ states[f] = None =>
            \/ Store!IsExpired(pending[f], now)
            \/ \E x \in Call : /\ calls[x].consumed = f
                               /\ Accepts(calls[x].response.iss)

\* A call is told that its state is invalid only when, at that moment, the flow
\* was never begun, has expired, or was taken by another call.
StateErrorIsDeserved ==
    [][\A x \in Call : calls[x].outcome = "none" /\ calls'[x].outcome = "StateError" =>
          LET f == calls'[x].response.state
          IN  \/ pending[f] = None
              \/ Store!IsExpired(pending[f], now)
              \/ \E y \in Call : calls[y].consumed = f]_vars

\* With an expected issuer and require_iss, a code minted elsewhere never
\* reaches the token endpoint, whatever became of its iss parameter.
ForeignCodesStayAway ==
    \A x \in Call : calls[x].form # None => grants[calls[x].form.code].minter = Home

\* With PKCE, the context a TokenSet carries is that of the flow whose user
\* granted it, even when a response arrives under another flow's state token.
ContextFitsGrant ==
    \A x \in Call : calls[x].outcome = "TokenSet" /\ calls[x].context # None =>
        grants[calls[x].form.code].flow = calls[x].context

\* client.py: the escape hatch of extra_params "must not be able to suppress or
\* redirect" the resource indicator.  Whatever it and the authorize_url name,
\* users grant tokens for the configured service only.
ResourceIsAuthoritative ==
    \A c \in Code : grants[c] # None /\ Resource # None => grants[c].audience = Resource

\* A response delivered as the server sent it is never refused with
\* invalid_grant, unless its code was redeemed by another call: the form always
\* carries the redirect URI, the verifier and the resource of the URL the user
\* saw, whatever parameters the authorize_url had of its own.
GenuineIsHonoured ==
    \A x \in Call :
        /\ calls[x].wire = "answered"
        /\ calls[x].answer = Endpoint!ErrorReply("invalid_grant")
        /\ calls[x].response \in responses
        /\ grants[calls[x].form.code].minter = Home
        => grants[calls[x].form.code].redeemed

------------------------------------------------------------------------------
\* What the flow promises a login, as seen from outside: one attempt.
Attempt(f) == {x \in Call : calls[x].consumed = f}
Phase(f) ==
    IF pending[f] = None THEN "unopened"
    ELSE IF Attempt(f) = {} THEN IF states[f] # None THEN "open" ELSE "lapsed"
    ELSE IF \E x \in Attempt(f) : calls[x].pc = "waiting" THEN "redeeming"
    ELSE IF \E x \in Attempt(f) : calls[x].outcome = "TokenSet" THEN "granted"
    ELSE "failed"

Login == INSTANCE OneShotLogin WITH phase <- [f \in Flow |-> Phase(f)]

\* Each stored flow gets one attempt at redemption and then is over.
OneShot == Login!Spec
=============================================================================
