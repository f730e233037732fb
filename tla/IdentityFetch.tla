--------------------------- MODULE IdentityFetch ---------------------------
(***************************************************************************)
(* OAuthClient.fetch_identity: which built-in handler a configuration is   *)
(* given, the one or two requests that handler makes with the user's       *)
(* bearer token, and what the profile it builds then says of the user's    *)
(* email address and of the domains the user belongs to, on which          *)
(* README.md (Domain-bound tenancy access) lets an application grant       *)
(* membership.                                                             *)
(*                                                                         *)
(* A host stands for the provider whose suffixes it matches (the built-in  *)
(* suffixes are disjoint), or matches none.  A tenant stands for its GUID. *)
(* Fields of a profile that only display (name, picture, ...) are left     *)
(* out.                                                                    *)
(***************************************************************************)
EXTENDS Naturals, FiniteSets, IdentityProfile

CONSTANTS Provider,     \* those of BuiltIn whose resolvers are registered
          Tenant,       \* organizations a user may be a member of
          DomainsOf,    \* the domains each has verified
          Address,      \* email addresses
          MaxNamed,     \* bound on the domains named in a second answer
          Foreign,      \* a host no resolver knows
          Setups        \* the clients considered, see Setup

Config == INSTANCE Presets WITH Base <- <<>>

BuiltIn == Config!BuiltIn

Host == Provider \cup {Foreign}

\* A client and the provider behind it: the handler given to the client, its
\* OAuth hosts, whether it asks for openid, and how the provider writes its
\* flags: as JSON booleans, or as something else ("false", 0, ...).
Setup == [given : Provider \cup {Absent}, authorize : Host, token : Host,
          openid : BOOLEAN, flags : {"boolean", "other"}]

ASSUME IdentityAssumption ==
    /\ Absent \notin Provider \cup Tenant \cup Domain \cup Address \cup Spelling
    /\ Absent \notin {"", "other", "true", "false"} /\ "" \notin Domain
    /\ Provider \subseteq BuiltIn /\ Foreign \notin Provider
    /\ Tenant \cap {"consumers", "no_guid", "other"} = {}
    /\ DomainsOf \in [Tenant -> SUBSET Domain]
    /\ Setups \subseteq Setup
    /\ MaxNamed \in Nat

VARIABLES setup,        \* the client and the provider behind it
          user,         \* who signed in, at or as a guest of which tenant
          idToken,      \* the ID token, see IdTokens
          handler,      \* the handler that establishes the identity
          pc,           \* "start", "first" or "second" request, "done"
          body,         \* the first usable answer
          sentTo,       \* history: hosts the bearer token was sent to
          result        \* what fetch_identity returned or raised, and when

vars == <<setup, user, idToken, handler, pc, body, sentTo, result>>

User == [kind : {"member", "guest", "personal", "stranger"}, tenant : Tenant,
         verified : SUBSET Address]

\* How the provider writes what it knows of an address of the user's.
Written(a) == IF setup.flags = "other" THEN "other"
              ELSE IF a \in user.verified THEN "true" ELSE "false"

\* External: what the ID token of a sign-in may claim of its tenant.  A member's
\* names no other identity provider; a guest's does; a stranger's comes from an
\* authority that lets its customers name any tenant.
ClaimsOf(u) ==
    CASE u.kind = "member"   -> [tid : {u.tenant}, iss : {u.tenant}, idp : {Absent, u.tenant}]
      [] u.kind = "guest"    -> [tid : {u.tenant}, iss : {u.tenant}, idp : {"other"}]
      [] u.kind = "personal" -> [tid : {"consumers"}, iss : {"consumers"}, idp : {Absent}]
      [] u.kind = "stranger" -> [tid : {u.tenant, "no_guid"}, iss : {"other"}, idp : {Absent}]

Missing == [tid |-> Absent, iss |-> Absent, idp |-> Absent]

\* The ID tokens a sign-in may come with.  email_verified is said of the address
\* the user had when the token was issued, which the token need not name.
IdTokens(u) ==
    {t \in [claims : ClaimsOf(u) \cup {Missing}, about : Address,
            email_verified : {"true", "false", "other", Absent}] :
        t.email_verified \in {Written(t.about), Absent}}

\* The provider whose handler a client may use.
SignsIn(s) == IF s.given = Absent THEN s.token ELSE s.given

\* Only Microsoft's handler reads the ID token; it may be missing or unreadable.
Init ==
    /\ setup \in Setups
    /\ user \in User
    /\ idToken \in {Absent} \cup (IF SignsIn(setup) = "microsoft"
                                  THEN IdTokens(user) ELSE {})
    /\ handler = Absent
    /\ pc = "start"
    /\ body = Absent
    /\ sentTo = {}
    /\ result = Absent

------------------------------------------------------------------------------
\* Mutant: one matching host is enough.
EitherHostMatches(p) == p \in {setup.authorize, setup.token}

\* oauth_hosts_match: both OAuth hosts are the provider's.
HostsMatch(p) == setup.authorize = p /\ setup.token = p

\* infer_identity_handler: the handlers whose resolver matches.
Matching == {p \in Provider : HostsMatch(p)}

\* Where a handler sends its first request: Salesforce's asks the host of the
\* authorize_url, the others hosts of their own.
FirstHost(p) == IF p = "salesforce" THEN setup.authorize ELSE p

\* Salesforce's handler looks at the host itself: it may have been given.
Refused(p) == p = "salesforce" /\ setup.authorize # "salesforce"

End(class, profile) ==
    /\ pc' = "done"
    /\ result' = [class |-> class, profile |-> profile, phase |-> pc]

\* fetch_identity with a handler, given or inferred, up to its first request.
StartWith(p) ==
    /\ handler' = p
    /\ IF Refused(p)
       THEN End("IdentityFetchError", Absent) /\ UNCHANGED sentTo
       ELSE /\ pc' = "first"
            /\ sentTo' = sentTo \cup {FirstHost(p)}
            /\ UNCHANGED result
    /\ UNCHANGED <<setup, user, idToken, body>>

FetchGiven ==
    /\ pc = "start"
    /\ setup.given # Absent
    /\ StartWith(setup.given)

FetchInferred ==
    /\ pc = "start"
    /\ setup.given = Absent
    /\ \E p \in Provider : Matching = {p} /\ StartWith(p)

\* No match, or more than one.
FetchUnsupported ==
    /\ pc = "start"
    /\ setup.given = Absent
    /\ Cardinality(Matching) # 1
    /\ End(IF Matching = {} THEN "IdentityNotSupportedError" ELSE "ConfigurationError",
           Absent)
    /\ UNCHANGED <<setup, user, idToken, handler, body, sentTo>>

------------------------------------------------------------------------------
\* Mutant: a guest is taken for a member.
GuestTenant(token) ==
    IF /\ token # Absent
       /\ token.claims.tid \in Tenant
       /\ token.claims.iss = token.claims.tid
    THEN token.claims.tid ELSE Absent

\* _verified_workforce_tenant_id, Absent for an ID token that is missing or
\* unreadable too.
WorkforceTenant(token) ==
    IF /\ token # Absent
       /\ token.claims.tid \in Tenant
       /\ token.claims.iss = token.claims.tid
       /\ token.claims.idp \in {Absent, token.claims.iss}
    THEN token.claims.tid ELSE Absent

------------------------------------------------------------------------------
\* The answers a provider may give to the bearer token, which need not be that of
\* the ID token's sign-in: an address and what it says of it, and the domain
\* (host, workspace handle) it names.  Google's hd names a domain of a Workspace
\* account's organization.
NamedDomains ==
    CASE handler = "google" ->
             {d \in Spelling : \/ Fold(d) = ""
                               \/ /\ user.kind = "member"
                                  /\ Fold(d) \in DomainsOf[user.tenant]}
      [] handler \in {"slack", "linear", "hubspot", "salesforce"} -> Spelling
      [] OTHER -> {}

Bodies ==
    {b \in [email : Address \cup {Absent}, flag : {"true", "false", "other", Absent},
            domain : NamedDomains \cup {Absent}] : b.flag \in {Written(b.email), Absent}}

\* email_verified is honoured only as a genuine boolean.
Genuine(flag) == IF flag \in {"true", "false"} THEN flag ELSE Absent

\* bool(): anything else that is there reads as true.
Coerced(flag) == IF flag = "other" THEN "true" ELSE flag

Profile(email, flag, tenancies) ==
    [email |-> email, email_verified |-> flag, tenancies |-> tenancies]

Tenancies(domains, owns) == [domain : domains, owns_email_domain : {owns}]

\* The tenancy of an answer that carries the id it is known by.
Anchored(domain, identified) == Tenancies(IF identified THEN {domain} ELSE {}, FALSE)

(***************************************************************************)
(* The profile each handler makes of its answer.  Google's tenancy owns    *)
(* its domain; those of the others, Microsoft's apart, own nothing.        *)
(***************************************************************************)
\* Mutant: the flag is coerced, as Slack's is.
GoogleProfileCoerced(b) ==
    Profile(b.email, Coerced(b.flag), Tenancies({d \in {b.domain} : ~ Falsy(d)}, TRUE))

GoogleProfile(b) ==
    Profile(b.email, Genuine(b.flag), Tenancies({d \in {b.domain} : ~ Falsy(d)}, TRUE))

\* The host of the identity URL.
SalesforceProfile(b, identified) ==
    Profile(b.email, Genuine(b.flag),
            Anchored(IF Falsy(b.domain) THEN Absent ELSE b.domain, identified))

LinearProfile(b, identified) == Profile(b.email, Absent, Anchored(b.domain, identified))

HubSpotProfile(b, identified) == Profile(b.email, Absent, Anchored(b.domain, identified))

NotionProfile(b, identified) == Profile(b.email, Absent, Anchored(Absent, identified))

TypeformProfile(b) == Profile(b.email, Absent, {})

SlackPerson(b, identified) == Profile(b.email, Coerced(b.flag), Anchored(b.domain, identified))

\* A Slack token without openid is a workspace's, not a person's.
SlackWorkspace(domain, identified) == Profile(Absent, Absent, Anchored(domain, identified))

AtlassianProfile(b, named) ==
    Profile(b.email, Absent, Tenancies({IF Falsy(d) THEN Absent ELSE d : d \in named}, FALSE))

\* The address is userinfo's, whose own flag is not read; the flag is the ID
\* token's, and nothing looks whether it is about that address.
MicrosoftProfile(b, tenancies) ==
    Profile(b.email, IF idToken = Absent THEN Absent ELSE Genuine(idToken.email_verified),
            tenancies)

\* The handlers that make one request, and Microsoft's with no member's ID token.
FirstProfile(b, identified) ==
    CASE handler = "google"     -> GoogleProfile(b)
      [] handler = "salesforce" -> SalesforceProfile(b, identified)
      [] handler = "linear"     -> LinearProfile(b, identified)
      [] handler = "hubspot"    -> HubSpotProfile(b, identified)
      [] handler = "notion"     -> NotionProfile(b, identified)
      [] handler = "typeform"   -> TypeformProfile(b)
      [] handler = "microsoft"  -> MicrosoftProfile(b, {})
      [] handler = "slack"      -> IF setup.openid THEN SlackPerson(b, identified)
                                   ELSE SlackWorkspace(b.domain, identified)

\* The handlers that always ask a second time.
AsksTwice == {"github", "atlassian"}

\* The first answer is no use: unreachable, a bad status, no JSON, no object,
\* or a refusal within a 200.  Whatever the handler raises, fetch_identity
\* raises an IdentityFetchError.  (GitHub's handler parses the first body, and
\* Atlassian's finds it is no object, after the second request: for them such a
\* body is among the usable ones, and SecondFails its end.)
FirstFails ==
    /\ pc = "first"
    /\ End("IdentityFetchError", Absent)
    /\ UNCHANGED <<setup, user, idToken, handler, body, sentTo>>

AskAgain ==
    /\ pc' = "second"
    /\ sentTo' = sentTo \cup {handler}
    /\ UNCHANGED result

\* The first answer is a usable body.
FirstAnswers ==
    /\ pc = "first"
    /\ \E b \in Bodies, identified \in BOOLEAN :
         /\ body' = b
         /\ IF \/ handler \in AsksTwice
               \/ handler = "microsoft" /\ WorkforceTenant(idToken) # Absent
            THEN AskAgain
            ELSE End("profile", FirstProfile(b, identified)) /\ UNCHANGED sentTo
    /\ UNCHANGED <<setup, user, idToken, handler>>

\* Slack without the openid scope: team.info answers missing_scope, and
\* auth.test is asked.
TeamInfoLacksScope ==
    /\ pc = "first"
    /\ handler = "slack"
    /\ ~ setup.openid
    /\ AskAgain
    /\ UNCHANGED <<setup, user, idToken, handler, body>>

\* Mutant: a directory that cannot be asked fails the sign-in.
SecondFailsHard ==
    /\ pc = "second"
    /\ End("IdentityFetchError", Absent)
    /\ UNCHANGED <<setup, user, idToken, handler, body, sentTo>>

\* The second answer is no use: GitHub's, Atlassian's and Slack's handlers
\* raise, Microsoft's asserts nothing.
SecondFails ==
    /\ pc = "second"
    /\ IF handler = "microsoft" THEN End("profile", MicrosoftProfile(body, {}))
       ELSE End("IdentityFetchError", Absent)
    /\ UNCHANGED <<setup, user, idToken, handler, body, sentTo>>

\* _derive_github_email: a primary verified address, else any verified one,
\* else the profile's own, which counts as unverified.
GitHubEmail(listed, email, flag) ==
    LET verified == {e \in listed : Coerced(e.flag) = "true"}
        primary  == {e \in verified : e.primary}
    IN IF verified # {}
       THEN /\ flag = "true"
            /\ \E e \in IF primary # {} THEN primary ELSE verified : email = e.address
       ELSE email = body.email /\ flag = IF email = Absent THEN Absent ELSE "false"

\* GitHub lists the user's addresses.
EmailsAnswer ==
    /\ pc = "second"
    /\ handler = "github"
    /\ \E listed \in SUBSET {e \in [address : Address, primary : BOOLEAN,
                                    flag : {"true", "false", "other"}] :
                                 e.flag = Written(e.address)},
          email \in Address \cup {Absent}, flag \in {"true", "false", Absent} :
         /\ GitHubEmail(listed, email, flag)
         /\ End("profile", Profile(email, flag, {}))
    /\ UNCHANGED <<setup, user, idToken, handler, body, sentTo>>

\* accessible-resources names the sites.
SitesAnswer(named) ==
    /\ pc = "second"
    /\ handler = "atlassian"
    /\ End("profile", AtlassianProfile(body, named))
    /\ UNCHANGED <<setup, user, idToken, handler, body, sentTo>>

\* auth.test names the workspace.
AuthTestAnswers(domain, identified) ==
    /\ pc = "second"
    /\ handler = "slack"
    /\ End("profile", SlackWorkspace(domain, identified))
    /\ UNCHANGED <<setup, user, idToken, handler, body, sentTo>>

\* _fetch_verified_tenancies: the directory names an organization, that of
\* another sign-in if the tokens were mixed up, and domains it has verified.
DirectoryAnswers(organization, named) ==
    /\ pc = "second"
    /\ handler = "microsoft"
    /\ \A n \in named : Fold(n) = "" \/ Fold(n) \in DomainsOf[organization]
    /\ LET owned == {n \in named : ~ Falsy(n)}
       IN End("profile", MicrosoftProfile(body, IF organization = WorkforceTenant(idToken)
                                                THEN Tenancies(owned, TRUE) ELSE {}))
    /\ UNCHANGED <<setup, user, idToken, handler, body, sentTo>>

------------------------------------------------------------------------------
Named(S) == {named \in SUBSET S : Cardinality(named) <= MaxNamed}

Next ==
    \/ FetchGiven
    \/ FetchInferred
    \/ FetchUnsupported
    \/ FirstFails
    \/ FirstAnswers
    \/ TeamInfoLacksScope
    \/ SecondFails
    \/ EmailsAnswer
    \/ \E named \in Named(Spelling \cup {Absent}) : SitesAnswer(named)
    \/ \E d \in Spelling \cup {Absent}, identified \in BOOLEAN : AuthTestAnswers(d, identified)
    \/ \E o \in Tenant : \E named \in Named(Spelling) : DirectoryAnswers(o, named)

Spec == Init /\ [][Next]_vars

------------------------------------------------------------------------------
SignedIn == result # Absent /\ result.class = "profile"

\* README.md (Domain-bound tenancy access): owns_domain, however the domain is
\* spelled, is true only of a user who belongs to the organization that
\* controls it.  A guest, a personal account, a token of another authority, a
\* directory answer about another organization: none of them is.
OwnershipIsProven ==
    SignedIn => \A d \in Spelling : OwnsDomain(result.profile, d) =>
        user.kind = "member" /\ Fold(d) \in DomainsOf[user.tenant]

\* models.py (can_assert_domain_ownership): an application that refuses, at
\* startup, the providers whose presets do not set the flag turns away no
\* sign-in that would have proven the ownership of a domain.
OwnersAreCapable ==
    SignedIn /\ DomainOwningTenancies(result.profile) # {}
        => Config!Preset(handler).can_assert_domain_ownership

\* models.py (domain_owning_tenancies): asking whether any tenancy owns a domain
\* agrees with owns_domain; a tenancy flagged as owning that names a blank
\* domain must not make the one say yes where the other can only say no.
GateAgrees ==
    SignedIn => (DomainOwningTenancies(result.profile) # {}
                    <=> \E d \in Spelling : OwnsDomain(result.profile, d))

\* verified_email returns an address only when the provider said of that very
\* address that it is verified.  A flag that is no boolean says nothing; but
\* Slack's and GitHub's handlers read it by its truth value.  And Microsoft's
\* vouches for the address of userinfo on an ID token that is about another: one
\* of another sign-in, or one from before the address changed.
VerifiedEmailIsAsserted ==
    SignedIn /\ VerifiedEmail(result.profile) # Absent =>
        \/ VerifiedEmail(result.profile) \in user.verified
        \/ setup.flags = "other" /\ handler \in {"slack", "github"}
        \/ handler = "microsoft" /\ idToken.about # VerifiedEmail(result.profile)

\* A bearer token goes to hosts of the provider whose handler establishes the
\* identity, and an inferred handler is that of the server both OAuth URLs
\* point to.
BearerStaysHome ==
    /\ sentTo \subseteq {handler}
    /\ sentTo # {} /\ setup.given = Absent => sentTo = {setup.token}

\* Once Microsoft's userinfo identified the user, nothing the directory does
\* fails the sign-in.
DirectoryFailsNoSignIn ==
    result # Absent /\ handler = "microsoft" /\ result.phase = "second" => SignedIn
=============================================================================
