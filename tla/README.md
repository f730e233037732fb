# Verification of apron-auth

apron-auth is an asynchronous, stateless OAuth 2.0 client library: it builds
authorization URLs, exchanges codes, refreshes and revokes tokens, fetches the
identity of a user, and connects to MCP servers nobody configured. This
directory holds TLA+ models of it, the TLC configurations that check them, and
proofs that the TLA+ proof system (tlapm) checks.

Paths below are relative to the library's package, `src/apron_auth/`, unless
they start with `/`.

## 1. The system

| part | code | state it keeps | operations |
|---|---|---|---|
| state store | `stores.py`, protocol in `protocols.py` | `_states`: state token → pending authorization | `save`, `consume`, lazy pruning |
| OAuth client, code flow | `client.py` | none of its own; the store's, and one suspended call per exchange | `get_authorization_url`, `exchange_code` |
| OAuth client, tokens | `client.py` | none; the application keeps the tokens | `refresh_token`, `_token_request`, `_parse_token_response` |
| revocation | `client.py`, `protocols.py`, `providers/{github,google,hubspot,notion,slack}.py` | none | `revoke_token`, six handlers |
| identity | `client.py`, `providers/identity.py`, `_host_match.py`, one handler per provider | none | inference, `fetch_identity` |
| MCP | `mcp.py` | none; results are handed from call to call | `discover`, `register_client`, `to_provider_config` |
| configuration | `models.py` | immutable | secret/method rule, `basic_auth`, `validate_issuer` |
| scopes | `scopes.py` | loop state | `resolve_implicit_scopes`, joining and splitting |
| profiles | `models.py` | immutable | `owns_domain`, `verified_email`, `identity_key` |
| presets | `providers/*.py` | none | one function per provider |
| PKCE, errors, package | `pkce.py`, `errors.py`, `__init__.py` | none | pure functions, classes |

How they interact. A client owns a configuration and may be given a store, a
revocation handler and an identity handler. `get_authorization_url` saves a
pending state in the store. A browser carries the response of the authorization
server to the application, which calls `exchange_code`; that validates `iss`,
consumes the pending state, and suspends in the token request. `refresh_token`,
`revoke_token` and `fetch_identity` are requests on tokens the application
holds. MCP discovery produces a configuration that a client then uses like any
other.

What is hard. Nothing in the library locks; it relies on having no await point
between a check and its effect. Calls of any number of workers interleave at
the requests. The parties outside (browser, servers, proxies) deliver late,
twice, never, or something else. The library reads each answer once and the
caller acts on the class of the exception alone: deletes its token, tries again,
or tells the user to sign in. And the clock is the wall clock.

The properties asked of each part are in sections 3 and 4; `PROJECT.json` lists
the hazards behind them, each at its line.

## 2. The modules

| module | what it is |
|---|---|
| `OneTimeStore` | abstract: what the `StateStore` protocol promises |
| `MemoryStateStore` | operations of the in-memory store |
| `StoreHistory` | the store under every order of calls, with history; refines `OneTimeStore` |
| `ProviderConfig` | pure rules of the configuration |
| `TokenEndpoint` | pure: what each possible answer of a token endpoint becomes |
| `OneShotLogin` | abstract: a login gets one attempt |
| `AuthorizationRequest` | pure: the parameters of the authorization URL |
| `AuthCodeFlow` | the code flow; uses `MemoryStateStore`, `ProviderConfig`, `TokenEndpoint`, `AuthorizationRequest`; refines `OneShotLogin` |
| `TokenRefresh` | refresh in the life of one grant; extends `TokenEndpoint` |
| `Revocation` | `revoke_token` and its handlers against one grant |
| `Presets` | pure: what each provider's preset puts into its configuration |
| `ScopeTiers` | abstract: what `disconnect_fully_revokes` promises |
| `ScopeReduction` | connecting, disconnecting and connecting again through a preset; uses `Presets` and `Revocation`; refines `ScopeTiers` |
| `McpConnect` | discovery, registration, configuration and use; extends `ProviderConfig` |
| `IdentityProfile` | pure: `owns_domain`, `domain_owning_tenancies`, `verified_email` |
| `IdentityFetch` | handler inference, the requests of all ten handlers and the profiles they build; extends `IdentityProfile`, uses `Presets` |
| `ScopeClosure` | the worklist of `resolve_implicit_scopes` |
| `MC*` | values for TLC |
| `*_proofs` | theorems and proofs |

Definitions whose comment begins with "Mutant" are deliberately wrong variants
of the definition that follows. No specification uses them; they document which
mistake each property would catch.

### Correspondence with the code

**Store.** `states` is `_states`, `now` is `time.time()`. Each coroutine runs
without suspending, so each call is one step. `Save` is prune-then-insert.
`consume` pops first and looks at the age after, hence three actions:
`ConsumeMissing`, `ConsumeExpired` (the entry is gone anyway) and
`ConsumeGood`. The clock may go forward by any amount and be stepped back by at
most `MaxBack`.

**Flow.** `GetAuthorizationUrl` draws a fresh state token (a flow *is* its
token), and with PKCE a fresh verifier, saves the pending state and returns it.
`exchange_code` up to the token request is one step, with one action per way out:
`ExchangeIssuerRejected`, `ExchangeStateRejected`, `ExchangeState` (the state is
consumed, the request sent) and `ExchangeArgs` (the caller passes redirect URI
and verifier itself). Then the call waits; `Answered` and `Unanswered` end it.
The token endpoint may work on a request after its caller has given up.

The URL is a function from parameter names to values: the query the
`authorize_url` already has, overridden by the flow's own parameters, overridden
by `extra_params`, overridden by `resource`. The server reads the URL, not the
pending state, and redeems what it read. `RequestAssumption` says that
`extra_params` leaves `state`, `redirect_uri` and `code_challenge` alone; the code
does not check it, and a caller who names them has broken the flow.

Every mode of `ExchangeArgs` starts from a pending state the caller kept; a
caller that passes unrelated arguments is not modelled. `metadata` is named by
its flow. Drawing random tokens is modelled as drawing a fresh one.

**Token endpoint.** An answer is a status class, the kind of its body and three
members: `error`, `access_token`, and whether `int()` can read its lifetime (a
lifetime it cannot read is a bare `ValueError`; authlib reads `expires_in` itself
where there is no `expires_at`, so that this is left to answers that have both).
`ExchangeOutcome` and `RefreshOutcome` are the classification in
`_token_request` with the parsing done by authlib, which raises for a 5xx status,
a body that is not JSON, and an object with `error`. authlib is not part of the
repository: what it does is taken from how `client.py` guards against it. Two of
Python's corner cases are folded: an empty JSON list or string, which `dict()`
accepts, counts as an object without members.

**Refresh.** The library keeps no token, so the module includes the application
`/README.md` shows: it stores what comes back, deletes on
`PermanentOAuthError`, and otherwise tries again. When the answer omits
`refresh_token`, the `TokenSet` has `None` there and the application is assumed
to keep the old one. `Provider` says how the provider hands out the next token.
`Refuse` answers with any permanent code: `invalid_grant` only about a token that
is no longer good, every other one (`invalid_client`, `unauthorized_client`, and
what the application gave as `permanent_error_codes`) while `client` is refused,
whatever the state of the grant. Noise has no permanent code.

**Revocation.** The handler's rules are one operator each; `Outcome` is the
wrapper in `revoke_token`. What the endpoints do is external and taken from the
docstrings of the handlers: which answer says "unknown token", what is dropped
besides the token itself. About a token that works an endpoint may fail with any
status but one: the 404 that GitHub's and HubSpot's handlers and the 400 that
Notion's reads as "already gone" (`AlreadyGone`). That the endpoints keep these
statuses for tokens that are gone is the docstrings' word, and an assumption here.

**Presets and scope reduction.** `Presets` has one definition per preset
function, on top of `ProviderConfig`'s defaults. In `ScopeReduction` the provider
keeps a portal-level grant, named by the first token issued under it, apart from
the tokens; connecting while there is a grant adds to it, as `models.py:76`
describes. `EndpointRevokes` drops the grant exactly where the preset names an
endpoint that does (Google's by its handler's claim, GitHub's by the `/grant`
path) and a single token elsewhere. What is made of the answers is taken from
`Revocation` through an instance. A token that ran out while its grant lives on is
excepted from both properties: GitHub's handler confirms on a 404, and nothing in
the repository says whether the endpoint answers 404 for such a token.

**MCP.** A URL is an origin and the kind of document asked of it; `Policy` is the
caller's `url_validator`. `Validation` is `_validate_url`: scheme and literal
host first, the validator after. `_fetch_first_metadata` is the pair of actions
`CandidateRejected` and `CandidateSkipped` over the list `todo`, which ends in
`Exhausted` or in a document. `UseClient` is the later use of the configuration
by a client, which looks at no URL.

**Identity.** A host stands for the provider it matches (the suffixes are
disjoint). `StartWith` is `fetch_identity` up to the first request. The handlers
differ in whether there is a second request, in what its failure means, and in
the profile they make: one operator per handler, named after it. A domain is a
record of its normalized name and whether it is spelled oddly; an answer's
verified flag is a boolean or something else. A tenant stands for its identifier;
`DomainsOf` says which domains it has verified. Google's `hd` names a domain of
the member's own organization: a statement about the provider. Claims are those a
sign-in of the given kind can come with. The bearer token need not be of the same
sign-in as Microsoft's ID token: the directory may answer about another tenant,
and the ID token's `email_verified` is said of an address (`about`) that may be
another than userinfo's.

**Scopes.** One action is one turn of the loop. The order in which a Python set
is iterated is arbitrary, so the list is a set from which any member is taken.

## 3. What the runs check

"Distinct" is the number of distinct states TLC reports.

| run | properties | bounds | distinct |
|---|---|---|---|
| `store` | `AtMostOnce`, `LiveIsServed`, `LapsedIsNeverServed`, `StoreInv`, `SavePrunes`, `KeepsPromise` | 2 tokens, 2 saves each, clock 0..4, age 2, steps back ≤ 2 | 13 713 |
| `flow` | `TypeOK`, `OneRequestPerState`, `BurntForACause`, `StateErrorIsDeserved`, `ForeignCodesStayAway`, `ContextFitsGrant`, `GenuineIsHonoured`, `ResourceIsAuthoritative`, `OneShot` | 2 flows, 2 codes, 2 calls, 2 servers, clock 0..2, age 1, no step back; `extra_params` and the query name everything they may | 82 151 |
| `refresh` | `NoiseDeletesNothing`, `DeletedOnlyIfDead`, `RevocationIsNoticed` | 2 workers, every kind of provider, 1 rotation, every noisy answer, 4 permanent codes | 48 384 |
| `scope_closure` | `ReturnsClosure`, `LoopInv`, `Terminates` | all maps on 3 scopes | 18 816 |
| `mcp_discovery` | `RequestsAreValidated`, `GivesUpAfterAll`, `ConnectEnds` | good and plain-http origins, a validator that refuses some | 57 445 |
| `mcp_config` | `TypeOK`, `MethodIsAccepted`, `SecretAgrees` | 5 sets of advertised methods, every client | 23 709 |
| `revoke` | `TypeOK`, `ConfirmedIsDead`, `OnlyNamedErrors`, `RetryIsConfirmed` | 2 calls, 6 handlers | 32 024 |
| `identity_safety` | `OwnershipIsProven`, `GateAgrees`, `OwnersAreCapable`, `VerifiedEmailIsAsserted`, `BearerStaysHome`, `DirectoryFailsNoSignIn` | 10 handlers, 2 tenants with 3 domains, 2 addresses, ≤ 2 domains in a second answer | 160 320 |
| `scope_reduction` | `TypeOK`, `ConfirmedEndsItsGrant`, `ReductionTakesEffect` | 10 presets, 2 scopes, 2 workers, 2 connections | 2 279 248 |

The three runs that look for a counterexample are listed further down.

What they show, in words:

- *Store.* Whatever the order of saves, consumes and clock adjustments, a saved
  state is handed out at most once; one that was never seen expired is served;
  saves sweep out expired entries; the store implements the protocol's promise.
  While the clock has not been set back, an expired state is never served, looked
  at or not; after a step back it can be. This is a real limit of `time.time()`,
  and the history variable `clock` says when it applies.
- *Flow.* One stored state leads to one token request. A response with a wrong or
  missing `iss` burns no state. A `StateError` is deserved when it is raised. A
  code of another server stays away from the token endpoint if `issuer` and
  `require_iss` are set. With PKCE, the returned context belongs to the user who
  granted the code, although a response may come back under another login's
  state. A response that arrives as sent is honoured unless the code was spent.
  Whatever `extra_params` and the query of the `authorize_url` name, users grant
  tokens for the configured resource only.
- *Refresh.* No broken answer, an unreadable lifetime included, makes the
  application give up its token, and a
  revoked grant is noticed, with whatever status it is reported. A token that is
  deleted was dead: revoked, or rotated away, possibly with the answer that named
  its successor lost. `DeletedOnlyIfDead` names the cases in which it need not be.
  The code may be a permanent one that is not about the token: `invalid_client`,
  `unauthorized_client` or one the application added; `errors.py` says that these
  do not mean the token is dead, and the recipe of `/README.md` deletes it all the
  same. Or two workers refreshed with rotation: the loser is told `invalid_grant`
  about the token it had sent, and the application deletes the one the winner has
  stored. `/README.md` names this limit, and the library, which keeps no tokens,
  cannot remove it.
- *Revocation.* A confirmed revocation is one: a failure that Slack reports with
  status 200 is not taken for it, nor any status but those the docstrings name,
  whose meaning is assumed (section 2). And asking again after lost answers
  ends in a confirmation for the handlers that take "already gone" for success.
  Nothing in the repository says how Google's and Slack's endpoints answer about
  a token that is gone, so nothing is claimed of them there. HubSpot's handler
  asks for the refresh token: its endpoint knows no access tokens, answers 404 to
  one, and 404 is confirmed; `ConfirmedIsDead` is about the tokens a handler asks
  for.
- *MCP.* No URL is requested that the validation refused, including endpoints
  first used long after discovery. Discovery gives up only after all candidates.
  The selected method is one the server accepts from that client and agrees with
  the presence of a secret, so `ProviderConfig`'s own check never fires there.
- *Scope reduction.* Where `disconnect_fully_revokes` is set, a confirmed
  revocation has ended the grant, though its answer was lost, another worker or
  the user was faster, or the user has already connected again; so the next
  connection has exactly the scopes it asks for. The flag of each of the ten
  presets is right for the endpoint it names.
- *Identity.* `owns_domain`, however the domain is spelled, is true only of a
  member of the tenant that controls it, and agrees with
  `domain_owning_tenancies`; only presets flagged `can_assert_domain_ownership`
  lead there. An address is called verified only when its provider said so of
  that address. There are two exceptions. Slack's and GitHub's handlers read a flag
  that is no boolean by its truth value, where the other handlers ignore it. And
  Microsoft's takes the flag from the ID token and the address from userinfo, and
  does not look whether the one is about the other: an ID token of another sign-in,
  or one kept since before the address changed, vouches for an address nobody
  verified, which `models.py:567` does not say. With the exception taken out TLC
  finds this in three states. Bearer
  tokens stay with the provider. A failing directory fails no sign-in.
- *Scopes.* The loop ends with exactly the transitive closure.

### Disagreements between code and documentation

Each has a run in which TLC finds a counterexample.

| run | documented | what happens |
|---|---|---|
| `refresh_foreign_error` | `/README.md:595`: every exception is an `OAuthError` | an object without `access_token` raises a bare `KeyError`, one with a lifetime that is no number and got past authlib a bare `ValueError`, because the parsing happens outside the `try` |
| `refresh_permanent_gone` | `/README.md:601`: on `PermanentOAuthError` the token is gone | `invalid_client` and `unauthorized_client` raise it while the token is good (`errors.py:62` agrees with the code) |
| `mcp_missing_iss` | `/README.md:539`: when the server advertises `iss`, a callback without it is rejected | not if the metadata names no issuer (`models.py:130` agrees with the code) |

### Why the bounds are enough

Two flows, codes and calls make up every race that matters here: the same state
presented twice, two responses swapped, a foreign code in the place of one of
ours. A third flow adds no new relation between two. The store's clock runs two
units beyond the maximal age, so entries are met young, exactly at `max_age` and
past it, and can be brought back. One rotation is enough for a superseded
token and its successor to be in use at once. One grant has two tokens and two
concurrent revocations. Two connections let a revocation of the first be asked for
again after the second was made. Two addresses and two domains in a second
answer let flags and owners be mixed up. Configurations with unrelated OAuth hosts
are tried with two providers and a foreign host (`MCSetups`), since a host only
matches or does not. The closure is run on all maps of three scopes, so on
cycles and chains of every shape of that size. What TLC shows for these sizes is, for the properties
of section 4, proved for all. Symmetry is used in runs without liveness
properties only, over sets whose members are interchangeable.

`CHECK_DEADLOCK FALSE` is given where the modelled history really ends: all calls
made, all codes used up, all connections made, a token deleted, discovery or a sign-in over. The store
and the closure can always step and are checked for deadlock.

### Fairness

- `TokenRefresh`: the application keeps trying and every call returns (weak).
  `Refuse` and `RaisesPermanent` are strongly fair: noise may come again and
  again, but not always and for ever.
- `McpConnect`: the caller goes on and every fetch is answered or times out after
  ten seconds, so `Step` is weakly fair.
- `Revocation`: the application asks again, and out of endlessly many requests the
  endpoint answers one as it should (strong).
- `ScopeClosure`: the loop is not interrupted.

## 4. What is proved

All theorems hold for every value of the constants under the named assumptions
of the modules, which say of what kind the constants are (`FlowAssumption`,
`StoreAssumption`, ...), and that `None` is none of the objects it stands in for.

| theorem | states |
|---|---|
| `StoreInvariant`, `StoreAtMostOnce`, `StoreServesLive`, `StoreSavePrunes` | the safety of the store |
| `StoreNeverServesLapsed` | no expired entry is served while the clock was never set back |
| `StoreKeepsPromise` | the store refines `OneTimeStore` |
| `FlowTypeOK`, `FlowOneRequestPerState` | types; one request per stored state, for any clock |
| `FlowBurntForACause` | assuming `MaxBack = 0`, nothing is burnt without a cause |
| `FlowForeignCodesStayAway` | assuming an expected issuer and `require_iss` |
| `RefreshInvariant`, `RefreshNoiseDeletesNothing` | the bookkeeping of one grant; only a permanent code deletes the token |
| `RefreshDeletesTheDead` | a deleted token was dead, but for a permanent code other than `invalid_grant` and for another worker's refresh in between |
| `ScopeLoopInvariant`, `ScopeReturnsClosure`, `ScopeQueuedOnce` | the closure is computed exactly; no scope is looked at twice |
| `ScopeTurnsRunOut` | assuming `IsFiniteSet(Scope)`, each turn of the loop leaves fewer scopes to be followed |
| `FlowResourceIsAuthoritative` | assuming `RequestAssumption`, users grant for the configured resource |
| `FlowGenuineIsHonoured` | a response that arrives as sent is refused only after its code was redeemed, for any configuration and clock |
| `FlowContextFitsGrant` | assuming `UsePkce`, a returned context belongs to the user who granted |
| `FlowStateErrorIsDeserved` | assuming `MaxBack = 0`, a `StateError` has a cause when it is raised |
| `FlowOneShot` | the flow refines `OneShotLogin`, for any clock |
| `McpTypeOK`, `McpRequestsAreValidated`, `McpGivesUpAfterAll` | types; what is requested was validated; what is given up was tried |
| `McpMethodIsAccepted`, `McpSecretAgrees` | the configured method fits server and client |
| `McpStepsAreNearer` | each step of connecting reaches a later stage or leaves fewer candidates |
| `IdentityOwnershipIsProven`, `IdentityGateAgrees`, `IdentityOwnersAreCapable` | domains are owned by members only; the two ways to ask agree; the presets' flags are right |
| `IdentityVerifiedEmailIsAsserted` | verified addresses are those the provider verified, but for flags that are no booleans at Slack and GitHub and for Microsoft's ID tokens about another address |
| `IdentityBearerStaysHome`, `IdentityDirectoryFailsNoSignIn` | where tokens go; what the directory cannot spoil |
| `RevocationTypeOK`, `RevocationConfirmedIsDead`, `RevocationOnlyNamedErrors` | what `revoke_token` confirms is dead; it raises nothing but what it names |
| `ReductionTypeOK`, `ReductionConfirmedEndsItsGrant` | a confirmed full revocation has ended its grant |
| `ReductionRefinesTiers` | scope reduction refines `ScopeTiers` |

The arguments:

- *Store.* "Returned at most once per save" is not inductive by itself: an entry
  may be held that was already returned. `HeldIsUnreturned` counts a held entry
  as a return still to come. That a live entry is served needs `LiveIsHeld`: live
  entries are held and unexpired *now*, which saves and the clock keep up. The
  refinement maps each call to one abstract call; pruning becomes the freedom to
  forget, and a clock tick stutters.
- *One request per state.* `TakenIsGone`: a state that some call goes on with is
  not in the store and its flow is open. Its token cannot return, because a flow
  is opened once. A second consume finds nothing, so no second call can go on
  with it. `HeldIsPending` supplies that what is held belongs to an open flow.
- *Nothing burnt without a cause.* A lemma lists what can remove an entry
  (pruning, a late consume, a consume after an accepted `iss`), and another shows
  that such a cause never ceases: expired stays expired as long as the clock is
  not set back, and a call never forgets the state it took.
- *Foreign codes.* Each response a server sent names the minter of its code
  (`ResponsesAreMinted`). Deliveries may strip the issuer or swap states but not
  invent an issuer, so an accepted response carries a code of the home server,
  and so does every form sent (`FormsAreFromHome`). Minters never change.
- *Genuine responses.* `FormInv` says where everything in a form comes from: the
  code from the response the call was given, redirect URI and verifier from the
  pending state that response arrived under (`FormsFitState`); and a grant
  remembers the URL of its flow, which was built from the same pending state
  (`GrantsFitUrl`). A response as sent names the flow its code was granted for
  (`ResponsesFitGrants`), so what the form says and what the grant remembers
  agree, and only a spent code is left as a reason to refuse.
- *Context.* With PKCE the challenge a grant remembers is its own flow's verifier
  (`PendingIsOwn`), and the form carries the verifier of the flow the response
  arrived under. Redeeming the form makes the two equal, so the flow of the grant
  is the flow whose context the call returns (`PkceBindsState`). Without PKCE
  nothing binds them, hence the assumption: a swapped response with the same
  redirect URI would be redeemed.
- *State errors.* Only a look into the store that finds nothing, or something
  expired, ends in one: no answer of an endpoint is read as a `StateError`. That
  nothing was found for a cause is the invariant `BurntForACause`, which brings in
  the assumption on the clock.
- *One attempt.* The refinement maps a flow to a phase that is computed from four
  parts of the state. `PhaseIsClear` shows that under `AttemptInv` they cannot
  disagree: what the store holds nobody took, and what was taken was taken by one
  call, whose end is the end of the login. Each action then moves one login by one
  step (`GetAuthorizationUrl` opens one and lets expired ones lapse, a refused
  call may let its own lapse, `ExchangeState` redeems, the end of the call grants
  or fails) and the rest stutter.
- *MCP.* Requests are validated at once or, for the endpoints, when the metadata
  is accepted and long before they are used: `EndpointsVetted` says that every
  endpoint of accepted metadata passes, and that a configuration has its endpoints
  from there. That no candidate is left out is `NoneSkipped`: a candidate was
  requested or is still to come. `Progress` says which answers are in hand at each
  stage, which is what the method is selected from. `McpStepsAreNearer` is the
  measure that ends `ConnectEnds`; that the caller does go on is fairness and left
  to TLC.
- *Refresh.* Whatever deletes the token has read a permanent code. `invalid_grant` was
  true when it was given and stays true (`VerdictStands`): a revoked grant stays
  revoked, and a superseded token stays superseded because tokens are numbered in
  the order they were issued (`NoneFromTheFuture`).
- *Scopes.* The loop invariant `LoopInv`: what has left the list has its
  implications in place, and everything is within each closed superset of the
  grant. With the list empty, that says closed and least. `ScopeTurnsRunOut` counts
  the scopes that are not yet in the result with their implications in place;
  with it the loop runs at most once per scope, whatever the map.
- *Identity.* A profile is *credible*: each owning tenancy names a domain of the
  member's own organization and comes from a capable handler, and its verified
  address was asserted. `FirstProfileIsCredible` shows it handler by handler.
  `AcceptedIsMember` shows that no claims but a member's pass
  `WorkforceTenant`, and `MicrosoftAsserts` that its flag is true of the address the
  ID token is about, whenever it is read.
- *Revocation.* The invariant adds the answers under way: one that the handler will
  take for a confirmation is about a token that is dead already. A token that is
  dead stays dead, and no handler takes a failure for a confirmation
  (`FailuresDoNotConfirm`). HubSpot's is only known of the refresh token.
- *Scope reduction.* Confirmed is not dead for good reason: a token may be confirmed
  after it ran out. The invariant (`GoneInv`, `ConfirmedInv`, `AnswerInv`) says that
  a token that is gone took its grant along, and that one confirmed, or about to
  be, is not live. `EpochInv` keeps the stored connection under the present grant,
  so that an ended grant means there is none and the next consent is fresh.

Model-checked only: `Terminates`, `ConnectEnds`, `RetryIsConfirmed` and
`RevocationIsNoticed`, because liveness under fairness is out of the prover's
reach; of the first two the measure is proved that every step lowers. Every other
property of a passing run is proved.

The assumptions on the clock and on PKCE are needed: with `MaxBack = 1`, or
without PKCE, TLC finds counterexamples to the three properties on the instance of
`flow`. After a step back an entry pruned as expired may count as young again, so
that its loss has no cause to point at; one request per state, one attempt per
login and everything about forms hold all the same.

## 5. What is not modelled

- Text: the layout of URLs, header and body encodings, scope strings, log
  messages, the exact host-literal rules of `_validate_url`.
- What a lifetime becomes (`expires_at`), and the metadata copied into a
  `TokenSet`.
- The profile's display fields and subjects, `identity_key`.
- The presets' URLs, consent texts and defaults of `extra_params`, and the check of
  Salesforce's host; a preset used without its own handler; the registry's check of its modules; `cimd_client_id`
  and the inference of the application type, which are checks of URLs.
- Cancellation of a call by its caller, other than through the time-out.
- `get_authorization_url` without a redirect URI, which raises a
  `ConfigurationError` before anything is drawn or saved. A state token given to a
  client without a store is ignored, which makes the call one of `ExchangeArgs`.
- Cryptography: verifiers and challenges are compared for equality, tokens are
  fresh by construction.
- Other implementations of `StateStore`. `OneTimeStore` says what they have to
  satisfy, except that a save must not be lost while it is live.

Browsers, authorization servers, token and revocation endpoints, directories and
authlib are modelled from how the library uses them and marked external.

## 6. Plan

Order of work so far: store, flow, refresh, scopes, MCP, revocation, identity,
the URL and its parameters, profiles, presets and scope reduction, each with its
proofs. Next:

1. `TokenLife`: exchange, refresh and revocation of one grant by several workers,
   composing the three modules; abstract specification: a grant that is held,
   lost or given up.
2. The flow over `OneTimeStore`, to show which of its properties need no more than
   the protocol's promise.
