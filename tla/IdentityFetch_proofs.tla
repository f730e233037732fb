------------------------ MODULE IdentityFetch_proofs ------------------------
(***************************************************************************)
(* What a profile may be relied on for, whatever the providers, tenants    *)
(* and domains and whatever the servers answer: a domain is owned by its   *)
(* organization's own members only, the two ways to ask for ownership      *)
(* agree, and a verified address is one the provider verified.             *)
(***************************************************************************)
EXTENDS IdentityFetch, TLAPS

\* A sign-in, and an ID token it may come with.
Login ==
    /\ setup.flags \in {"boolean", "other"}
    /\ setup.given \in Provider \cup {Absent}
    /\ user \in User
    /\ idToken \in IdTokens(user) \cup {Absent}

\* An ID token that _verified_workforce_tenant_id accepts is a member's, and
\* the tenant it returns is the member's own.
LEMMA AcceptedIsMember ==
    ASSUME Login, WorkforceTenant(idToken) # Absent
    PROVE  user.kind = "member" /\ WorkforceTenant(idToken) = user.tenant
<1> DEFINE c == idToken.claims
<1>1. /\ idToken # Absent
      /\ c.tid \in Tenant
      /\ c.iss = c.tid
      /\ c.idp \in {Absent, c.iss}
      /\ WorkforceTenant(idToken) = c.tid
  BY DEF WorkforceTenant
<1>2. c # Missing
  <2>1. Absent \notin Tenant
    BY Zenon, IdentityAssumption
  <2>2. QED  BY <1>1, <2>1 DEF Missing
<1>3. c \in ClaimsOf(user)
  BY <1>1, <1>2 DEF Login, IdTokens
<1> HIDE DEF c
<1>4. CASE user.kind = "member"
  BY <1>1, <1>3, <1>4 DEF ClaimsOf
<1>5. CASE user.kind = "guest"
  <2>1. c.idp = "other" /\ c.iss = user.tenant
    BY <1>3, <1>5 DEF ClaimsOf
  <2>2. "other" \notin Tenant /\ "other" # Absent
    BY IdentityAssumption
  <2>3. QED  BY <1>1, <2>1, <2>2
<1>6. CASE user.kind = "personal"
  <2>1. c.tid = "consumers"
    BY <1>3, <1>6 DEF ClaimsOf
  <2>2. QED  BY <1>1, <2>1, IdentityAssumption
<1>7. CASE user.kind = "stranger"
  <2>1. c.iss = "other"
    BY <1>3, <1>7 DEF ClaimsOf
  <2>2. QED  BY <1>1, <2>1, IdentityAssumption
<1>8. QED  BY <1>4, <1>5, <1>6, <1>7 DEF Login, User

------------------------------------------------------------------------------
\* What every profile keeps to.
Proven(t) ==
    t.owns_email_domain =>
        /\ handler \in {"google", "microsoft"}
        /\ \/ t.domain = Absent
           \/ Fold(t.domain) = ""
           \/ user.kind = "member" /\ Fold(t.domain) \in DomainsOf[user.tenant]

Asserted(p) ==
    VerifiedEmail(p) # Absent =>
        \/ VerifiedEmail(p) \in user.verified
        \/ setup.flags = "other" /\ handler \in {"slack", "github"}
        \/ handler = "microsoft" /\ idToken.about # VerifiedEmail(p)

Credible(p) ==
    /\ p.tenancies \subseteq Tenancy
    /\ \A t \in p.tenancies : Proven(t)
    /\ Asserted(p)

\* The flag of an answer is what the provider says of its address, or missing.
Truthful(b) == b.flag \in {Written(b.email), Absent}

\* The inductive invariant: a profile that was returned is credible.
IInv ==
    /\ Login
    /\ pc # "done" => result = Absent
    /\ pc = "first" => handler \in BuiltIn
    /\ SignedIn => Credible(result.profile)

\* What the handlers make of a truthful flag.
LEMMA FlagIsAsserted ==
    ASSUME Login, NEW b, Truthful(b), NEW ts, NEW f,
           f \in {Absent, Genuine(b.flag)} \/ (handler = "slack" /\ f = Coerced(b.flag))
    PROVE  Asserted(Profile(b.email, f, ts))
<1> DEFINE p == Profile(b.email, f, ts)
<1>1. p.email = b.email /\ p.email_verified = f
  BY DEF Profile
<1> SUFFICES ASSUME VerifiedEmail(p) # Absent
             PROVE  \/ VerifiedEmail(p) \in user.verified
                    \/ setup.flags = "other" /\ handler \in {"slack", "github"}
  BY DEF Asserted
<1>2. f = "true" /\ VerifiedEmail(p) = b.email
  BY <1>1 DEF VerifiedEmail
<1>3. \/ b.flag = "true"
      \/ b.flag = "other" /\ handler = "slack"
  BY <1>2, IdentityAssumption DEF Genuine, Coerced
<1>4. b.flag = Written(b.email)
  BY <1>3, IdentityAssumption DEF Truthful
<1>5. CASE b.flag = "true"
  BY <1>2, <1>4, <1>5 DEF Written
<1>6. CASE b.flag = "other" /\ handler = "slack"
  BY <1>4, <1>6 DEF Written
<1>7. QED  BY <1>3, <1>5, <1>6

\* Microsoft's flag is true of the address the ID token is about.
LEMMA MicrosoftAsserts ==
    ASSUME Login, handler = "microsoft", NEW b, NEW ts
    PROVE  Asserted(MicrosoftProfile(b, ts))
<1> DEFINE p == MicrosoftProfile(b, ts)
<1>1. SUFFICES ASSUME VerifiedEmail(p) # Absent, idToken.about = VerifiedEmail(p)
               PROVE  VerifiedEmail(p) \in user.verified
  BY DEF Asserted
<1>2. /\ idToken # Absent /\ Genuine(idToken.email_verified) = "true"
      /\ VerifiedEmail(p) = b.email
  BY <1>1, IdentityAssumption DEF VerifiedEmail, MicrosoftProfile, Profile
<1>3. idToken.email_verified = "true" /\ idToken \in IdTokens(user)
  BY <1>2, IdentityAssumption DEF Genuine, Login
<1>4. Written(idToken.about) = "true"
  BY <1>3, IdentityAssumption DEF IdTokens
<1>5. QED  BY <1>1, <1>4 DEF Written

\* No flag, nothing asserted.
LEMMA NoFlag == ASSUME NEW email, NEW ts PROVE Asserted(Profile(email, Absent, ts))
BY IdentityAssumption DEF Asserted, VerifiedEmail, Profile

\* Tenancies that own nothing prove nothing and claim nothing.
LEMMA UnownedIsProven ==
    ASSUME NEW D \in SUBSET (Spelling \cup {Absent})
    PROVE  Tenancies(D, FALSE) \subseteq Tenancy /\ \A t \in Tenancies(D, FALSE) : Proven(t)
BY DEF Tenancies, Tenancy, Proven

LEMMA AnchoredIsProven ==
    ASSUME NEW d \in Spelling \cup {Absent}, NEW identified \in BOOLEAN
    PROVE  /\ Anchored(d, identified) \subseteq Tenancy
           /\ \A t \in Anchored(d, identified) : Proven(t)
<1> DEFINE D == IF identified THEN {d} ELSE {}
<1>1. D \in SUBSET (Spelling \cup {Absent})
  OBVIOUS
<1>2. Anchored(d, identified) = Tenancies(D, FALSE)
  BY DEF Anchored
<1> HIDE DEF D
<1>3. QED  BY <1>1, <1>2, UnownedIsProven

LEMMA CredibleParts ==
    ASSUME NEW email, NEW f, NEW ts \in SUBSET Tenancy, \A t \in ts : Proven(t),
           Asserted(Profile(email, f, ts))
    PROVE  Credible(Profile(email, f, ts))
BY DEF Credible, Profile

\* Every handler makes a credible profile of a first answer.
LEMMA FirstProfileIsCredible ==
    ASSUME Login, handler \in BuiltIn \ AsksTwice, NEW b \in Bodies, NEW identified \in BOOLEAN
    PROVE  Credible(FirstProfile(b, identified))
<1>1. Truthful(b) /\ b.domain \in NamedDomains \cup {Absent}
  BY DEF Bodies, Truthful
<1>2. b.domain \in Spelling \cup {Absent}
  BY <1>1 DEF NamedDomains
<1>3. \A d \in Spelling \cup {Absent} : /\ Anchored(d, identified) \subseteq Tenancy
                                       /\ \A t \in Anchored(d, identified) : Proven(t)
  BY AnchoredIsProven
<1>4. CASE handler = "google"
  <2> DEFINE ts == Tenancies({d \in {b.domain} : ~ Falsy(d)}, TRUE)
  <2>1. ts \subseteq Tenancy
    BY <1>2 DEF Tenancies, Tenancy
  <2>2. \A t \in ts : Proven(t)
    BY <1>1, <1>4 DEF Tenancies, Falsy, NamedDomains, Proven
  <2> HIDE DEF ts
  <2>3. Asserted(Profile(b.email, Genuine(b.flag), ts))
    BY <1>1, FlagIsAsserted
  <2>4. FirstProfile(b, identified) = Profile(b.email, Genuine(b.flag), ts)
    BY <1>4 DEF FirstProfile, GoogleProfile, ts
  <2>5. QED  BY <2>1, <2>2, <2>3, <2>4, CredibleParts
<1>5. CASE handler = "salesforce"
  <2> DEFINE d == IF Falsy(b.domain) THEN Absent ELSE b.domain
  <2>1. d \in Spelling \cup {Absent}
    BY <1>2
  <2>2. FirstProfile(b, identified)
          = Profile(b.email, Genuine(b.flag), Anchored(d, identified))
    BY <1>5 DEF FirstProfile, SalesforceProfile
  <2> HIDE DEF d
  <2>3. Asserted(Profile(b.email, Genuine(b.flag), Anchored(d, identified)))
    BY <1>1, FlagIsAsserted
  <2>4. QED  BY <1>3, <2>1, <2>2, <2>3, CredibleParts
<1>6. CASE handler \in {"linear", "hubspot", "notion"}
  <2> DEFINE d == IF handler = "notion" THEN Absent ELSE b.domain
  <2>1. d \in Spelling \cup {Absent}
    BY <1>2
  <2>2. FirstProfile(b, identified) = Profile(b.email, Absent, Anchored(d, identified))
    BY <1>6 DEF FirstProfile, LinearProfile, HubSpotProfile, NotionProfile
  <2> HIDE DEF d
  <2>3. QED  BY <1>3, <2>1, <2>2, NoFlag, CredibleParts
<1>7. CASE handler = "typeform"
  <2>1. FirstProfile(b, identified) = Profile(b.email, Absent, {})
    BY <1>7 DEF FirstProfile, TypeformProfile
  <2>2. QED  BY <2>1, NoFlag, CredibleParts
<1>8. CASE handler = "microsoft"
  <2>1. FirstProfile(b, identified) = MicrosoftProfile(b, {})
    BY <1>8 DEF FirstProfile
  <2>2. Asserted(MicrosoftProfile(b, {}))
    BY <1>8, MicrosoftAsserts
  <2>3. MicrosoftProfile(b, {}).tenancies = {}
    BY DEF MicrosoftProfile, Profile
  <2>4. QED  BY <2>1, <2>2, <2>3 DEF Credible
<1>9. CASE handler = "slack" /\ setup.openid
  <2>1. FirstProfile(b, identified)
          = Profile(b.email, Coerced(b.flag), Anchored(b.domain, identified))
    BY <1>9 DEF FirstProfile, SlackPerson
  <2>2. Asserted(Profile(b.email, Coerced(b.flag), Anchored(b.domain, identified)))
    BY <1>1, <1>9, FlagIsAsserted
  <2>3. QED  BY <1>2, <1>3, <2>1, <2>2, CredibleParts
<1>10. CASE handler = "slack" /\ ~ setup.openid
  <2>1. FirstProfile(b, identified) = Profile(Absent, Absent, Anchored(b.domain, identified))
    BY <1>10 DEF FirstProfile, SlackWorkspace
  <2>2. QED  BY <1>2, <1>3, <2>1, NoFlag, CredibleParts
<1>11. QED
  BY <1>4, <1>5, <1>6, <1>7, <1>8, <1>9, <1>10 DEF BuiltIn, Config!BuiltIn, AsksTwice

------------------------------------------------------------------------------
\* An error leaves nothing to prove.
LEMMA ErrorEnds ==
    ASSUME IInv, NEW class, class # "profile", End(class, Absent),
           UNCHANGED <<setup, user, idToken>>
    PROVE  IInv'
BY DEF IInv, End, SignedIn, Login, User, IdTokens, Written, ClaimsOf, Missing

\* A credible profile may be returned.
LEMMA ProfileEnds ==
    ASSUME IInv, NEW p, Credible(p), End("profile", p),
           UNCHANGED <<setup, user, idToken, handler>>
    PROVE  IInv'
<1>1. Login' /\ pc' = "done" /\ result'.profile = p
  BY DEF IInv, Login, User, IdTokens, Written, ClaimsOf, Missing, End
<1>2. Credible(result.profile)'
  BY <1>1 DEF Credible, Proven, Asserted
<1>3. QED  BY <1>1, <1>2 DEF IInv

LEMMA StartStep == ASSUME IInv, pc = "start", NEW p \in Provider, StartWith(p) PROVE IInv'
<1>1. CASE End("IdentityFetchError", Absent)
  BY <1>1, ErrorEnds DEF StartWith
<1>2. CASE pc' = "first" /\ UNCHANGED result
  BY <1>2, IdentityAssumption
  DEF StartWith, IInv, SignedIn, Login, User, IdTokens, Written, ClaimsOf, Missing
<1>3. QED  BY <1>1, <1>2 DEF StartWith

LEMMA FirstAnswersStep == ASSUME IInv, FirstAnswers PROVE IInv'
<1>1. PICK b \in Bodies, identified \in BOOLEAN :
        IF \/ handler \in AsksTwice
           \/ handler = "microsoft" /\ WorkforceTenant(idToken) # Absent
        THEN AskAgain
        ELSE End("profile", FirstProfile(b, identified)) /\ UNCHANGED sentTo
  BY DEF FirstAnswers
<1>2. UNCHANGED <<setup, user, idToken, handler>> /\ pc = "first"
  BY <1>1 DEF FirstAnswers
<1>3. CASE AskAgain
  <2>1. Login' /\ UNCHANGED result /\ pc' = "second"
    BY <1>2, <1>3 DEF AskAgain, IInv, Login, User, IdTokens, Written, ClaimsOf, Missing
  <2>2. QED  BY <1>2, <2>1 DEF IInv, SignedIn
<1>4. CASE handler \notin AsksTwice /\ End("profile", FirstProfile(b, identified))
  <2>1. Credible(FirstProfile(b, identified))
    BY <1>2, <1>4, FirstProfileIsCredible DEF IInv
  <2>2. QED  BY <1>2, <1>4, <2>1, ProfileEnds
<1>5. QED  BY <1>1, <1>3, <1>4

LEMMA SecondFailsStep == ASSUME IInv, SecondFails PROVE IInv'
<1>1. CASE handler = "microsoft"
  <2> DEFINE p == MicrosoftProfile(body, {})
  <2>1. Asserted(p)
    BY <1>1, MicrosoftAsserts DEF IInv
  <2>2. p.tenancies = {}
    BY DEF MicrosoftProfile, Profile
  <2>3. Credible(p)
    BY <2>1, <2>2 DEF Credible
  <2>4. End("profile", p) /\ UNCHANGED <<setup, user, idToken, handler>>
    BY <1>1 DEF SecondFails
  <2> HIDE DEF p
  <2>5. QED  BY <2>3, <2>4, ProfileEnds
<1>2. CASE handler # "microsoft"
  BY <1>2, ErrorEnds DEF SecondFails
<1>3. QED  BY <1>1, <1>2

LEMMA EmailsAnswerStep == ASSUME IInv, EmailsAnswer PROVE IInv'
<1>1. PICK listed \in SUBSET {e \in [address : Address, primary : BOOLEAN,
                                     flag : {"true", "false", "other"}] :
                                  e.flag = Written(e.address)},
           email \in Address \cup {Absent}, flag \in {"true", "false", Absent} :
        /\ GitHubEmail(listed, email, flag)
        /\ End("profile", Profile(email, flag, {}))
  BY DEF EmailsAnswer
<1> DEFINE p == Profile(email, flag, {})
<1>2. ASSUME flag = "true"
      PROVE  \E e \in listed : email = e.address /\ Coerced(e.flag) = "true"
  BY <1>1, <1>2, IdentityAssumption DEF GitHubEmail
<1>3. ASSUME flag = "true"
      PROVE  email \in user.verified \/ setup.flags = "other"
  <2>1. PICK e \in listed : email = e.address /\ Coerced(e.flag) = "true"
    BY <1>2, <1>3
  <2>2. e.flag = Written(email)
    BY <2>1
  <2>3. e.flag \in {"true", "other"}
    BY <2>1 DEF Coerced
  <2>4. QED  BY <2>2, <2>3 DEF Written
<1>4. Asserted(p)
  BY <1>3 DEF Asserted, VerifiedEmail, EmailsAnswer, Profile
<1>5. Credible(p)
  BY <1>4, CredibleParts
<1> HIDE DEF p
<1>6. End("profile", p) /\ UNCHANGED <<setup, user, idToken, handler>>
  BY <1>1 DEF EmailsAnswer, p
<1>7. QED  BY <1>5, <1>6, ProfileEnds

LEMMA SitesStep ==
    ASSUME IInv, NEW named \in SUBSET (Spelling \cup {Absent}), SitesAnswer(named)
    PROVE  IInv'
<1> DEFINE D == {IF Falsy(d) THEN Absent ELSE d : d \in named}
<1>1. D \in SUBSET (Spelling \cup {Absent})
  OBVIOUS
<1>2. AtlassianProfile(body, named) = Profile(body.email, Absent, Tenancies(D, FALSE))
  BY DEF AtlassianProfile
<1> HIDE DEF D
<1>3. Credible(AtlassianProfile(body, named))
  BY <1>1, <1>2, UnownedIsProven, NoFlag, CredibleParts
<1>4. QED  BY <1>3, ProfileEnds DEF SitesAnswer

LEMMA AuthTestStep ==
    ASSUME IInv, NEW d \in Spelling \cup {Absent}, NEW identified \in BOOLEAN,
           AuthTestAnswers(d, identified)
    PROVE  IInv'
<1>1. Credible(SlackWorkspace(d, identified))
  BY AnchoredIsProven, NoFlag, CredibleParts DEF SlackWorkspace
<1>2. QED  BY <1>1, ProfileEnds DEF AuthTestAnswers

LEMMA DirectoryStep ==
    ASSUME IInv, NEW o \in Tenant, NEW named \in SUBSET Spelling, DirectoryAnswers(o, named)
    PROVE  IInv'
<1> DEFINE ts == IF o = WorkforceTenant(idToken)
                 THEN Tenancies({n \in named : ~ Falsy(n)}, TRUE) ELSE {}
           p == MicrosoftProfile(body, ts)
<1>1. ts \subseteq Tenancy
  BY DEF Tenancy, Tenancies
<1>2. \A t \in ts : Proven(t)
  <2>1. CASE o = WorkforceTenant(idToken)
    <3>1. user.kind = "member" /\ o = user.tenant
      <4>1. WorkforceTenant(idToken) # Absent
        BY <2>1, IdentityAssumption
      <4>2. QED  BY <2>1, <4>1, AcceptedIsMember DEF IInv
    <3>2. handler = "microsoft"
      BY DEF DirectoryAnswers
    <3>3. \A n \in named : Fold(n) = "" \/ Fold(n) \in DomainsOf[o]
      BY DEF DirectoryAnswers
    <3>4. QED  BY <2>1, <3>1, <3>2, <3>3 DEF Proven, Tenancies
  <2>2. QED  BY <2>1
<1>3. Asserted(p)
  BY MicrosoftAsserts DEF IInv, DirectoryAnswers
<1>4. p.tenancies = ts
  BY DEF MicrosoftProfile, Profile
<1>5. End("profile", p) /\ UNCHANGED <<setup, user, idToken, handler>>
  BY DEF DirectoryAnswers
<1> HIDE DEF ts, p
<1>6. Credible(p)
  BY <1>1, <1>2, <1>3, <1>4 DEF Credible
<1>7. QED  BY <1>5, <1>6, ProfileEnds

------------------------------------------------------------------------------
LEMMA IInvInit == Init => IInv
<1> SUFFICES ASSUME Init PROVE IInv
  OBVIOUS
<1>1. Login
  BY IdentityAssumption DEF Init, Login, Setup
<1>2. QED  BY <1>1 DEF Init, IInv, SignedIn

LEMMA IInvStep == IInv /\ [Next]_vars => IInv'
<1> SUFFICES ASSUME IInv, [Next]_vars
             PROVE  IInv'
  OBVIOUS
<1>1. CASE FetchGiven
  <2>1. setup.given \in Provider
    BY <1>1 DEF FetchGiven, IInv, Login
  <2>2. QED  BY <1>1, <2>1, StartStep DEF FetchGiven
<1>2. CASE FetchInferred
  BY <1>2, StartStep DEF FetchInferred
<1>3. CASE FetchUnsupported
  BY <1>3, ErrorEnds DEF FetchUnsupported
<1>4. CASE FirstFails
  BY <1>4, ErrorEnds DEF FirstFails
<1>5. CASE FirstAnswers
  BY <1>5, FirstAnswersStep
<1>6. CASE TeamInfoLacksScope
  BY <1>6 DEF TeamInfoLacksScope, AskAgain, IInv, SignedIn, Login, User, IdTokens, Written,
               ClaimsOf, Missing
<1>7. CASE SecondFails
  BY <1>7, SecondFailsStep
<1>8. CASE EmailsAnswer
  BY <1>8, EmailsAnswerStep
<1>9. ASSUME NEW named \in Named(Spelling \cup {Absent}), SitesAnswer(named)  PROVE IInv'
  BY <1>9, SitesStep DEF Named
<1>10. ASSUME NEW d \in Spelling \cup {Absent}, NEW identified \in BOOLEAN,
              AuthTestAnswers(d, identified)
       PROVE  IInv'
  BY <1>10, AuthTestStep
<1>11. ASSUME NEW o \in Tenant, NEW named \in Named(Spelling), DirectoryAnswers(o, named)
       PROVE  IInv'
  BY <1>11, DirectoryStep DEF Named
<1>12. CASE UNCHANGED vars
  BY <1>12 DEF vars, IInv, SignedIn, Login, User, IdTokens, Written, ClaimsOf, Missing,
               Credible, Proven, Asserted
<1>13. QED
  BY <1>1, <1>2, <1>3, <1>4, <1>5, <1>6, <1>7, <1>8, <1>9, <1>10, <1>11, <1>12 DEF Next

\* Every profile fetch_identity returns is credible.
LEMMA IdentityInvariant == Spec => []IInv
BY IInvInit, IInvStep, PTL DEF Spec

\* What owns_domain answers to, in terms of one tenancy.
LEMMA OwnerFound ==
    ASSUME NEW p, NEW d \in Spelling, OwnsDomain(p, d)
    PROVE  \E t \in p.tenancies : /\ t.owns_email_domain /\ t.domain # Absent
                                  /\ Fold(t.domain) = Fold(d) /\ Fold(d) # ""
<1>1. PICK t \in p.tenancies : VerifiedDomain(t) = Fold(d)
  BY DEF OwnsDomain
<1>2. Fold(d) # "" /\ Fold(d) # Absent
  BY IdentityAssumption DEF OwnsDomain, Fold, Spelling
<1>3. QED  BY <1>1, <1>2 DEF VerifiedDomain

\* A domain, however spelled, is only ever owned by a member of the
\* organization that controls it.
THEOREM IdentityOwnershipIsProven == Spec => []OwnershipIsProven
<1>1. IInv => OwnershipIsProven
  <2> SUFFICES ASSUME IInv, SignedIn, NEW d \in Spelling, OwnsDomain(result.profile, d)
               PROVE  user.kind = "member" /\ Fold(d) \in DomainsOf[user.tenant]
    BY DEF OwnershipIsProven
  <2>1. PICK t \in result.profile.tenancies :
               /\ t.owns_email_domain /\ t.domain # Absent
               /\ Fold(t.domain) = Fold(d) /\ Fold(d) # ""
    BY OwnerFound
  <2>2. Proven(t)
    BY <2>1 DEF IInv, Credible
  <2>3. QED  BY <2>1, <2>2 DEF Proven
<1>2. QED  BY <1>1, IdentityInvariant, PTL

\* Only sign-ins whose preset is flagged as capable of it prove ownership.
THEOREM IdentityOwnersAreCapable == Spec => []OwnersAreCapable
<1>1. IInv => OwnersAreCapable
  <2> SUFFICES ASSUME IInv, SignedIn, NEW t \in DomainOwningTenancies(result.profile)
               PROVE  Config!Preset(handler).can_assert_domain_ownership
    BY DEF OwnersAreCapable
  <2>1. t \in result.profile.tenancies /\ t.owns_email_domain
    BY DEF DomainOwningTenancies, VerifiedDomain
  <2>2. handler \in {"google", "microsoft"}
    BY <2>1 DEF IInv, Credible, Proven
  <2>3. Config!Google.can_assert_domain_ownership /\ Config!Microsoft.can_assert_domain_ownership
    BY DEF Config!Google, Config!Microsoft, Config!Default
  <2>4. QED  BY <2>2, <2>3 DEF Config!Preset
<1>2. QED  BY <1>1, IdentityInvariant, PTL

\* The list of owning tenancies is empty exactly when owns_domain has nothing
\* to say yes to.
THEOREM IdentityGateAgrees == Spec => []GateAgrees
<1>1. IInv => GateAgrees
  <2> SUFFICES ASSUME IInv, SignedIn
               PROVE  DomainOwningTenancies(result.profile) # {}
                        <=> \E d \in Spelling : OwnsDomain(result.profile, d)
    BY DEF GateAgrees
  <2>1. ASSUME NEW t \in DomainOwningTenancies(result.profile)
        PROVE  \E d \in Spelling : OwnsDomain(result.profile, d)
    <3>1. t \in result.profile.tenancies /\ VerifiedDomain(t) # Absent
      BY DEF DomainOwningTenancies
    <3>2. /\ t.domain # Absent /\ Fold(t.domain) # "" /\ VerifiedDomain(t) = Fold(t.domain)
      BY <3>1 DEF VerifiedDomain
    <3>3. t.domain \in Spelling
      BY <3>1, <3>2 DEF IInv, Credible, Tenancy
    <3>4. OwnsDomain(result.profile, t.domain)
      BY <3>1, <3>2 DEF OwnsDomain
    <3>5. QED  BY <3>3, <3>4
  <2>2. ASSUME NEW d \in Spelling, OwnsDomain(result.profile, d)
        PROVE  DomainOwningTenancies(result.profile) # {}
    <3>1. PICK t \in result.profile.tenancies :
                 /\ t.owns_email_domain /\ t.domain # Absent
                 /\ Fold(t.domain) = Fold(d) /\ Fold(d) # ""
      BY <2>2, OwnerFound
    <3>2. VerifiedDomain(t) = Fold(d) /\ Fold(d) # Absent
      BY <3>1, IdentityAssumption DEF VerifiedDomain, Fold, Spelling
    <3>3. t \in DomainOwningTenancies(result.profile)
      BY <3>2 DEF DomainOwningTenancies
    <3>4. QED  BY <3>3
  <2>3. QED  BY <2>1, <2>2
<1>2. QED  BY <1>1, IdentityInvariant, PTL

\* An address a profile calls verified is one the provider called verified, where
\* the handler takes nothing but a boolean for that and, at Microsoft, where the
\* ID token is about the address that userinfo names.
THEOREM IdentityVerifiedEmailIsAsserted == Spec => []VerifiedEmailIsAsserted
<1>1. IInv => VerifiedEmailIsAsserted
  BY DEF IInv, Credible, Asserted, VerifiedEmailIsAsserted
<1>2. QED  BY <1>1, IdentityInvariant, PTL

------------------------------------------------------------------------------
\* Where the bearer token has been, and whom an inferred handler belongs to.
HomeInv ==
    /\ pc = "start" => sentTo = {}
    /\ sentTo \subseteq {handler}
    /\ (pc \in {"first", "second"} \/ sentTo # {}) /\ setup.given = Absent =>
           handler = setup.token

LEMMA HomeStart ==
    ASSUME HomeInv, pc = "start", NEW p, StartWith(p), setup.given = Absent => p = setup.token
    PROVE  HomeInv'
<1>1. sentTo = {}
  BY DEF HomeInv
<1>2. CASE Refused(p)
  BY <1>1, <1>2 DEF StartWith, End, HomeInv
<1>3. CASE ~ Refused(p)
  <2>1. FirstHost(p) = p
    BY <1>3 DEF Refused, FirstHost
  <2>2. QED  BY <1>1, <1>3, <2>1 DEF StartWith, HomeInv
<1>4. QED  BY <1>2, <1>3

\* The bearer token never leaves the provider whose handler was chosen, and an
\* inferred handler is that of the token endpoint's host.
THEOREM IdentityBearerStaysHome == Spec => []BearerStaysHome
<1>1. Init => HomeInv
  BY DEF Init, HomeInv
<1>2. HomeInv /\ [Next]_vars => HomeInv'
  <2> SUFFICES ASSUME HomeInv, [Next]_vars PROVE HomeInv'
    OBVIOUS
  <2>1. CASE FetchGiven
    BY <2>1, HomeStart DEF FetchGiven
  <2>2. CASE FetchInferred
    <3>1. PICK p \in Provider : Matching = {p} /\ StartWith(p)
      BY <2>2 DEF FetchInferred
    <3>2. p = setup.token
      BY <3>1 DEF Matching, HostsMatch
    <3>3. QED  BY <2>2, <3>1, <3>2, HomeStart DEF FetchInferred
  <2>3. CASE FetchUnsupported
    BY <2>3 DEF FetchUnsupported, End, HomeInv
  <2>4. CASE FirstFails \/ SecondFails
    BY <2>4 DEF FirstFails, SecondFails, End, HomeInv
  <2>5. CASE FirstAnswers
    <3>1. /\ pc = "first" /\ UNCHANGED <<setup, handler>>
          /\ AskAgain \/ (pc' = "done" /\ UNCHANGED sentTo)
      BY <2>5 DEF FirstAnswers, End
    <3>2. QED  BY <3>1 DEF AskAgain, HomeInv
  <2>6. CASE TeamInfoLacksScope
    BY <2>6 DEF TeamInfoLacksScope, AskAgain, HomeInv
  <2>7. CASE EmailsAnswer
    BY <2>7 DEF EmailsAnswer, End, HomeInv
  <2>8. CASE (\E named : SitesAnswer(named)) \/ \E d, i : AuthTestAnswers(d, i)
    BY <2>8 DEF SitesAnswer, AuthTestAnswers, End, HomeInv
  <2>9. ASSUME NEW o, NEW named, DirectoryAnswers(o, named)  PROVE HomeInv'
    BY <2>9 DEF DirectoryAnswers, End, HomeInv
  <2>10. CASE UNCHANGED vars
    BY <2>10 DEF vars, HomeInv
  <2>11. QED
    BY <2>1, <2>2, <2>3, <2>4, <2>5, <2>6, <2>7, <2>8, <2>9, <2>10 DEF Next
<1>3. HomeInv => BearerStaysHome
  BY DEF HomeInv, BearerStaysHome
<1>4. QED  BY <1>1, <1>2, <1>3, PTL DEF Spec

\* Microsoft's directory, asked second, cannot fail a sign-in: whatever it
\* answers, or if it does not, the profile is returned.
THEOREM IdentityDirectoryFailsNoSignIn == Spec => []DirectoryFailsNoSignIn
<1> DEFINE Inv == DirectoryFailsNoSignIn /\ (pc # "done" => result = Absent)
<1>1. Init => Inv
  BY DEF Init, DirectoryFailsNoSignIn
<1>2. Inv /\ [Next]_vars => Inv'
  <2> SUFFICES ASSUME Inv, [Next]_vars PROVE Inv'
    OBVIOUS
  <2>1. ASSUME NEW p, pc = "start", StartWith(p)  PROVE Inv'
    BY <2>1 DEF StartWith, End, DirectoryFailsNoSignIn
  <2>2. CASE FetchGiven \/ FetchInferred
    BY <2>1, <2>2 DEF FetchGiven, FetchInferred
  <2>3. CASE FetchUnsupported \/ FirstFails
    BY <2>3 DEF FetchUnsupported, FirstFails, End, DirectoryFailsNoSignIn
  <2>4. CASE FirstAnswers \/ TeamInfoLacksScope
    BY <2>4 DEF FirstAnswers, TeamInfoLacksScope, AskAgain, End, DirectoryFailsNoSignIn
  <2>5. CASE SecondFails \/ EmailsAnswer
    BY <2>5 DEF SecondFails, EmailsAnswer, End, DirectoryFailsNoSignIn, SignedIn
  <2>6. CASE (\E named : SitesAnswer(named)) \/ \E d, i : AuthTestAnswers(d, i)
    BY <2>6 DEF SitesAnswer, AuthTestAnswers, End, DirectoryFailsNoSignIn
  <2>7. ASSUME NEW o, NEW named, DirectoryAnswers(o, named)  PROVE Inv'
    BY <2>7 DEF DirectoryAnswers, End, DirectoryFailsNoSignIn, SignedIn
  <2>8. CASE UNCHANGED vars
    BY <2>8 DEF vars, DirectoryFailsNoSignIn, SignedIn
  <2>9. QED
    BY <2>2, <2>3, <2>4, <2>5, <2>6, <2>7, <2>8 DEF Next
<1>3. QED  BY <1>1, <1>2, PTL DEF Spec
=============================================================================
