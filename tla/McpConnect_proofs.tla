------------------------- MODULE McpConnect_proofs -------------------------
(***************************************************************************)
(* Connecting to an MCP server, for every set of origins, every validator  *)
(* of URLs and every set of advertised methods: what is requested was      *)
(* validated, what is given up was tried, and what is configured fits the  *)
(* server and the client.                                                  *)
(***************************************************************************)
EXTENDS McpConnect, SequenceTheorems, TLAPS

------------------------------------------------------------------------------
(* URLs and candidates.                                                    *)

ErrorClass == {"McpDiscoveryError", "McpRegistrationError", "OAuthError", "ValidationError"}

\* _validate_url raises the class it was given or OAuthError, and raises
\* nothing only for a URL that passes, whatever class it was given.
LEMMA ValidationVerdict ==
    ASSUME NEW u \in Url, NEW class \in ErrorClass
    PROVE  /\ Validation(u, class) \in ErrorClass \cup {"ok"}
           /\ Validation(u, class) = "ok" <=> Passes(u)
<1>1. Policy(u) \in {"accepts", "raises_OAuthError", "raises_other"}
  BY McpAssumption
<1>2. QED  BY <1>1 DEF Validation, Passes, ErrorClass

\* The URLs discovery is given and finds are URLs.
LEMMA GivenAreUrls == ServerUrl \cup HintUrl \cup EndpointUrl \subseteq Url
BY DEF ServerUrl, HintUrl, EndpointUrl, Url

LEMMA AtIsUrl == ASSUME NEW u \in Url, NEW d \in WellKnown PROVE At(u, d) \in Url
BY DEF At, Url

\* Candidates are URLs.
LEMMA PrmCandidatesTyped ==
    ASSUME NEW h \in Optional(HintUrl), NEW s \in ServerUrl
    PROVE  PrmCandidates(h, s) \in Seq(Url)
<1> DEFINE a == IF h = Absent THEN <<>> ELSE <<h>>
           b == IF s.doc = "root" THEN <<>> ELSE <<At(s, "prm_path")>>
           c == <<At(s, "prm_root")>>
<1>1. a \in Seq(Url)
  BY GivenAreUrls DEF Optional
<1>2. b \in Seq(Url) /\ c \in Seq(Url)
  <2>1. At(s, "prm_path") \in Url /\ At(s, "prm_root") \in Url
    BY GivenAreUrls, AtIsUrl DEF WellKnown
  <2>2. QED  BY <2>1
<1> HIDE DEF a, b, c
<1>3. a \o b \o c \in Seq(Url)
  BY <1>1, <1>2
<1>4. QED  BY <1>3 DEF PrmCandidates, a, b, c

LEMMA AsmCandidatesTyped ==
    ASSUME NEW s \in ServerUrl
    PROVE  AsmCandidates(s) \in Seq(Url)
<1>1. \A d \in WellKnown : At(s, d) \in Url
  BY GivenAreUrls, AtIsUrl
<1>2. /\ At(s, "asm_root") \in Url /\ At(s, "oidc_root") \in Url
      /\ At(s, "asm_path") \in Url /\ At(s, "oidc_path") \in Url /\ At(s, "path_oidc") \in Url
  BY <1>1 DEF WellKnown
<1>3. QED  BY <1>2 DEF AsmCandidates

\* A sequence without its head has all its elements but that one.
LEMMA TailKeepsTheRest ==
    ASSUME NEW S, NEW s \in Seq(S), s # <<>>, NEW i \in 1..Len(s), s[i] # Head(s)
    PROVE  \E j \in 1..Len(Tail(s)) : Tail(s)[j] = s[i]
<1>1. i - 1 \in 1..Len(Tail(s)) /\ Tail(s)[i - 1] = s[i]
  OBVIOUS
<1>2. QED  BY <1>1

\* The first of up to four places is one of them.
LEMMA FirstPlace ==
    ASSUME NEW T \in SUBSET (1..4), T # {}
    PROVE  (CHOOSE i \in T : \A j \in T : i <= j) \in T
<1>1. \E i \in T : \A j \in T : i <= j
  <2>1. CASE 1 \in T
    BY <2>1
  <2>2. CASE 1 \notin T /\ 2 \in T
    <3>1. \A j \in T : 2 <= j
      BY <2>2
    <3>2. QED  BY <2>2, <3>1
  <2>3. CASE 1 \notin T /\ 2 \notin T /\ 3 \in T
    <3>1. \A j \in T : 3 <= j
      BY <2>3
    <3>2. QED  BY <2>3, <3>1
  <2>4. CASE 1 \notin T /\ 2 \notin T /\ 3 \notin T
    <3>1. \A j \in T : j = 4
      BY <2>4
    <3>2. 4 \in T
      BY <3>1
    <3>3. QED  BY <3>1, <3>2
  <2>5. QED  BY <2>1, <2>2, <2>3, <2>4
<1>2. QED  BY <1>1

\* The four endpoints are found good only if each that is there passes; else
\* the verdict is the class of an exception.
LEMMA FourEndpoints ==
    ASSUME NEW list \in Seq(Url \cup {Absent}), Len(list) = 4, NEW class \in ErrorClass
    PROVE  /\ FirstRejection(list, class) = "ok" =>
                  \A i \in 1..4 : list[i] # Absent => Passes(list[i])
           /\ FirstRejection(list, class) \in ErrorClass \cup {"ok"}
<1> DEFINE bad == {i \in DOMAIN list : list[i] # Absent /\ ~ Passes(list[i])}
           m == CHOOSE i \in bad : \A j \in bad : i <= j
<1>1. bad \subseteq 1..4 /\ DOMAIN list = 1..4
  OBVIOUS
<1>2. \A i \in bad : list[i] \in Url /\ ~ Passes(list[i])
  <2>1. \A i \in 1..4 : list[i] \in Url \cup {Absent}
    BY ElementOfSeq
  <2>2. QED  BY <1>1, <2>1
<1>3. \A i \in 1..4 : i \notin bad => list[i] = Absent \/ Passes(list[i])
  BY <1>1
<1>4. FirstRejection(list, class) = IF bad = {} THEN "ok" ELSE Validation(list[m], class)
  BY Zenon DEF FirstRejection
<1>5. bad # {} => m \in bad
  <2> HIDE DEF bad
  <2>1. QED  BY <1>1, FirstPlace
<1> HIDE DEF bad, m
<1>6. bad # {} => list[m] \in Url /\ ~ Passes(list[m])
  BY <1>2, <1>5
<1>7. bad # {} => FirstRejection(list, class) \in ErrorClass
  BY <1>4, <1>6, ValidationVerdict
<1>8. QED  BY <1>3, <1>4, <1>7 DEF ErrorClass

\* What EndpointsVerdict lets through: both endpoints of the flow are there,
\* and each endpoint that is there passed.
Vetted(m) == /\ m.authorize # Absent /\ m.token # Absent
             /\ \A u \in {m.authorize, m.token, m.registration, m.revocation} :
                   u # Absent => Passes(u)

\* The verdict is "ok" only for vetted metadata, else the class of an exception.
LEMMA EndpointsAreVetted ==
    ASSUME NEW m \in Metadata
    PROVE  /\ EndpointsVerdict(m) = "ok" => Vetted(m)
           /\ EndpointsVerdict(m) \in ErrorClass \cup {"ok"}
<1> DEFINE list == <<m.authorize, m.token, m.registration, m.revocation>>
<1>1. /\ m.authorize \in Url \cup {Absent} /\ m.token \in Url \cup {Absent}
      /\ m.registration \in Url \cup {Absent} /\ m.revocation \in Url \cup {Absent}
  BY GivenAreUrls DEF Metadata, Optional
<1>2. list \in Seq(Url \cup {Absent}) /\ Len(list) = 4
      /\ list[1] = m.authorize /\ list[2] = m.token /\ list[3] = m.registration
      /\ list[4] = m.revocation
  BY <1>1
<1>3. EndpointsVerdict(m) = IF m.authorize = Absent \/ m.token = Absent
                            THEN "McpDiscoveryError"
                            ELSE FirstRejection(list, "McpDiscoveryError")
  BY DEF EndpointsVerdict
<1> HIDE DEF list
<1>4. /\ FirstRejection(list, "McpDiscoveryError") = "ok" =>
            \A i \in 1..4 : list[i] # Absent => Passes(list[i])
      /\ FirstRejection(list, "McpDiscoveryError") \in ErrorClass \cup {"ok"}
  BY <1>2, FourEndpoints DEF ErrorClass
<1>5. 1 \in 1..4 /\ 2 \in 1..4 /\ 3 \in 1..4 /\ 4 \in 1..4
  OBVIOUS
<1>6. QED  BY <1>2, <1>3, <1>4, <1>5 DEF Vetted, ErrorClass

------------------------------------------------------------------------------
(* The method of token requests.                                           *)

\* A method is selected that OAuthClient can perform, that fits the secret and
\* that the server named, if it named any; else the selection raises.
LEMMA SelectedMethodFits ==
    ASSUME NEW secret \in BOOLEAN, NEW advertised,
           NEW registered \in Optional(Method),
           SelectAuthMethod(secret, advertised, registered) # "unusable"
    PROVE  LET method == SelectAuthMethod(secret, advertised, registered)
           IN  /\ method \in {"none"} \cup Performable
               /\ SecretMatchesMethod(secret, method)
               /\ PresentsBasicAuth(secret, method) <=> secret
               /\ IF registered # Absent THEN method = registered
                  ELSE advertised # {} => method \in advertised
<1>1. CASE registered # Absent
  BY <1>1 DEF SelectAuthMethod, Honored, Performable, SecretMatchesMethod, PresentsBasicAuth
<1>2. CASE registered = Absent
  <2>1. SelectAuthMethod(secret, advertised, registered) = Derived(secret, advertised)
    BY <1>2 DEF SelectAuthMethod
  <2>2. CASE secret
    BY <1>2, <2>1, <2>2 DEF Derived, Performable, SecretMatchesMethod, PresentsBasicAuth
  <2>3. CASE ~ secret
    BY <1>2, <2>1, <2>3 DEF Derived, Performable, SecretMatchesMethod, PresentsBasicAuth
  <2>4. QED  BY <2>2, <2>3
<1>3. QED  BY <1>1, <1>2

------------------------------------------------------------------------------
(* The inductive invariant.                                                *)

\* What is there at which point of the connection.
Progress ==
    /\ pc # "start" => urls.server # Absent
    /\ pc = "asm" => urls.auth # Absent
    /\ pc \in {"discovered", "identified", "configured"} => meta # Absent
    /\ pc \in {"identified", "configured"} => client # Absent
    /\ pc = "configured" <=> config # Absent
    /\ pc = "failed" <=> error # Absent

\* The endpoints of metadata that was accepted were looked at, and those of
\* the configuration are among them.
EndpointsVetted ==
    /\ meta # Absent => Vetted(meta)
    /\ config # Absent =>
          meta # Absent /\ config.token = meta.token /\ config.revocation = meta.revocation

\* The candidates of a phase of discovery.
Candidates(phase) ==
    IF phase = "prm" THEN PrmCandidates(urls.hint, urls.server) ELSE AsmCandidates(urls.auth)

\* A candidate is still to be tried or was requested.
NoneSkipped(phase) ==
    \A i \in 1..Len(Candidates(phase)) :
        \/ Candidates(phase)[i] \in requested
        \/ \E j \in 1..Len(todo) : todo[j] = Candidates(phase)[i]

IInv ==
    /\ TypeOK
    /\ Progress
    /\ EndpointsVetted
    /\ RequestsAreValidated
    /\ pc \in {"prm", "asm"} => NoneSkipped(pc)
    /\ GivesUpAfterAll
    /\ MethodIsAccepted
    /\ SecretAgrees

LEMMA IInvInit == Init => IInv
BY AbsentIsNoObject
   DEF Init, NoUrls, IInv, TypeOK, Progress, EndpointsVetted, RequestsAreValidated,
       GivesUpAfterAll, MethodIsAccepted, SecretAgrees, Optional

\* A failure ends the connection with the class it is given.
LEMMA FailureStep ==
    ASSUME IInv, NEW class \in ErrorClass,
           NEW reason \in {"rejected", "refused", "method", "resource"},
           pc \in {"start", "prm", "asm", "discovered", "identified"},
           Fail(class, reason), UNCHANGED <<resource, meta, client, config>>,
           todo' \in Seq(Url),
           urls' \in [server : Optional(ServerUrl), hint : Optional(HintUrl),
                      auth : Optional(ServerUrl)],
           urls'.server # Absent,
           requested' \subseteq Url, \A u \in requested' : Passes(u)
    PROVE  IInv'
<1> DEFINE e == [class |-> class, reason |-> reason, phase |-> pc]
<1>1. e \in Failure
  BY DEF Failure, ErrorClass
<1>2. e # Absent
  BY <1>1, AbsentIsNoObject
<1>3. pc' = "failed" /\ error' = e /\ e.reason = reason
  BY DEF Fail
<1> HIDE DEF e
<1>4. config = Absent
  BY DEF IInv, Progress
<1>5. TypeOK'
  BY <1>1, <1>3 DEF IInv, TypeOK, Optional
<1>6. Progress'
  BY <1>2, <1>3, <1>4 DEF IInv, Progress
<1>7. EndpointsVetted' /\ RequestsAreValidated'
  BY <1>4 DEF IInv, EndpointsVetted, RequestsAreValidated, Vetted
<1>8. GivesUpAfterAll'
  BY <1>3 DEF GivesUpAfterAll
<1>9. MethodIsAccepted' /\ SecretAgrees'
  BY <1>3, <1>4 DEF MethodIsAccepted, SecretAgrees
<1>10. QED  BY <1>3, <1>5, <1>6, <1>7, <1>8, <1>9 DEF IInv

LEMMA DiscoverStep ==
    ASSUME IInv, NEW s \in ServerUrl, NEW h \in Optional(HintUrl), Discover(s, h)
    PROVE  IInv'
<1> DEFINE v == Validation(s, "McpDiscoveryError")
<1>1. s \in Url /\ s # Absent
  BY GivenAreUrls, AbsentIsNoObject
<1>2. v \in ErrorClass \cup {"ok"}
  BY <1>1, ValidationVerdict DEF ErrorClass
<1>3. /\ urls' = [server |-> s, hint |-> h, auth |-> Absent] /\ pc = "start"
      /\ UNCHANGED <<resource, meta, client, config, requested>>
  BY DEF Discover, NoUrls
<1>4. /\ urls' \in [server : Optional(ServerUrl), hint : Optional(HintUrl),
                     auth : Optional(ServerUrl)]
      /\ urls'.server = s /\ urls'.hint = h
  BY <1>3 DEF Optional
<1>5. requested' \subseteq Url /\ \A u \in requested' : Passes(u)
  BY <1>3 DEF IInv, TypeOK, RequestsAreValidated
<1>6. CASE v # "ok"
  <2>1. Fail(v, "rejected") /\ todo' = todo
    BY <1>6 DEF Discover
  <2>2. v \in ErrorClass /\ todo' \in Seq(Url)
    BY <1>2, <1>6, <2>1 DEF IInv, TypeOK
  <2> HIDE DEF v
  <2>3. QED  BY <1>1, <1>3, <1>4, <1>5, <2>1, <2>2, FailureStep
<1>7. CASE v = "ok"
  <2>1. pc' = "prm" /\ todo' = PrmCandidates(h, s) /\ error' = error
    BY <1>7 DEF Discover
  <2>2. TypeOK'
    BY <1>3, <1>4, <2>1, PrmCandidatesTyped DEF IInv, TypeOK
  <2>3. meta' = meta /\ config' = Absent /\ error' = Absent
    BY <1>3, <2>1 DEF IInv, Progress
  <2>4. Progress' /\ EndpointsVetted'
    BY <1>1, <1>3, <1>4, <2>1, <2>3 DEF IInv, Progress, EndpointsVetted, Vetted
  <2>5. NoneSkipped("prm")'
    BY <1>4, <2>1 DEF NoneSkipped, Candidates
  <2>6. RequestsAreValidated' /\ GivesUpAfterAll' /\ MethodIsAccepted' /\ SecretAgrees'
    BY <1>5, <2>3 DEF RequestsAreValidated, GivesUpAfterAll, MethodIsAccepted, SecretAgrees
  <2>7. QED  BY <2>1, <2>2, <2>4, <2>5, <2>6 DEF IInv
<1>8. QED  BY <1>6, <1>7

\* The candidate looked at while fetching is a URL.
LEMMA HeadIsUrl ==
    ASSUME TypeOK, Fetching
    PROVE  Head(todo) \in Url /\ Tail(todo) \in Seq(Url)
BY DEF TypeOK, Fetching

LEMMA CandidateRejectedStep == ASSUME IInv, CandidateRejected PROVE IInv'
<1> DEFINE v == Validation(Head(todo), "McpDiscoveryError")
<1>1. v \in ErrorClass
  BY HeadIsUrl, ValidationVerdict DEF CandidateRejected, IInv, ErrorClass
<1>2. /\ pc \in {"prm", "asm"} /\ Fail(v, "rejected")
      /\ UNCHANGED <<todo, urls, resource, meta, client, config, requested>>
  BY DEF CandidateRejected, Fetching
<1> HIDE DEF v
<1>3. QED
  BY <1>1, <1>2, FailureStep DEF IInv, TypeOK, Progress, RequestsAreValidated

\* A request to the candidate looked at keeps what is said of requests.
LEMMA CandidateRequested ==
    ASSUME IInv, Fetching, Passes(Head(todo)), requested' = requested \cup {Head(todo)}
    PROVE  requested' \subseteq Url /\ \A u \in requested' : Passes(u)
BY HeadIsUrl DEF IInv, TypeOK, RequestsAreValidated

LEMMA CandidateSkippedStep == ASSUME IInv, CandidateSkipped PROVE IInv'
<1>1. /\ Fetching /\ Passes(Head(todo)) /\ pc \in {"prm", "asm"} /\ todo # <<>>
      /\ requested' = requested \cup {Head(todo)} /\ todo' = Tail(todo)
      /\ UNCHANGED <<pc, urls, resource, meta, client, config, error>>
  BY DEF CandidateSkipped, Fetching
<1>2. requested' \subseteq Url /\ \A u \in requested' : Passes(u)
  BY <1>1, CandidateRequested
<1>3. TypeOK'
  BY <1>1, <1>2, HeadIsUrl DEF IInv, TypeOK
<1>4. NoneSkipped(pc)'
  <2>1. Candidates(pc)' = Candidates(pc)
    BY <1>1 DEF Candidates
  <2>2. SUFFICES ASSUME NEW i \in 1..Len(Candidates(pc)),
                        Candidates(pc)[i] \notin requested'
                 PROVE  \E j \in 1..Len(todo') : todo'[j] = Candidates(pc)[i]
    BY <2>1 DEF NoneSkipped
  <2>3. PICK j \in 1..Len(todo) : todo[j] = Candidates(pc)[i]
    BY <1>1, <2>2 DEF IInv, NoneSkipped
  <2>4. todo[j] # Head(todo)
    BY <1>1, <2>2, <2>3
  <2>5. QED  BY <1>1, <2>3, <2>4, TailKeepsTheRest DEF IInv, TypeOK
<1>5. error = Absent /\ config = Absent
  BY <1>1 DEF IInv, Progress
<1>6. Progress' /\ EndpointsVetted'
  BY <1>1 DEF IInv, Progress, EndpointsVetted, Vetted
<1>7. RequestsAreValidated' /\ GivesUpAfterAll' /\ MethodIsAccepted' /\ SecretAgrees'
  BY <1>1, <1>2, <1>5 DEF RequestsAreValidated, GivesUpAfterAll, MethodIsAccepted, SecretAgrees
<1>8. QED  BY <1>1, <1>3, <1>4, <1>6, <1>7 DEF IInv

LEMMA ExhaustedStep == ASSUME IInv, Exhausted PROVE IInv'
<1> DEFINE e == [class |-> "McpDiscoveryError", reason |-> "exhausted", phase |-> pc]
<1>1. /\ pc \in {"prm", "asm"} /\ todo = <<>> /\ pc' = "failed" /\ error' = e
      /\ UNCHANGED <<todo, urls, resource, meta, client, config, requested>>
  BY DEF Exhausted, Fail
<1>2. e \in Failure /\ e # Absent /\ e.reason = "exhausted" /\ e.phase = pc
  BY <1>1, AbsentIsNoObject DEF Failure
<1> HIDE DEF e
<1>3. config = Absent
  BY <1>1 DEF IInv, Progress
<1>4. TypeOK' /\ Progress' /\ EndpointsVetted' /\ RequestsAreValidated'
  BY <1>1, <1>2, <1>3
  DEF IInv, TypeOK, Optional, Progress, EndpointsVetted, Vetted, RequestsAreValidated
<1>5. \A i \in 1..Len(Candidates(pc)) : Candidates(pc)[i] \in requested
  BY <1>1 DEF IInv, NoneSkipped
<1>6. GivesUpAfterAll'
  BY <1>1, <1>2, <1>5 DEF GivesUpAfterAll, Candidates
<1>7. MethodIsAccepted' /\ SecretAgrees'
  BY <1>1, <1>2, <1>3 DEF MethodIsAccepted, SecretAgrees
<1>8. QED  BY <1>1, <1>4, <1>6, <1>7 DEF IInv

LEMMA ResourceMetadataStep ==
    ASSUME IInv, NEW a \in Optional(ServerUrl), NEW r \in {"absolute", "relative", Absent},
           ResourceMetadata(a, r)
    PROVE  IInv'
<1> DEFINE v == IF a = Absent THEN "McpDiscoveryError" ELSE Validation(a, "McpDiscoveryError")
<1>1. /\ pc = "prm" /\ Fetching /\ Passes(Head(todo))
      /\ requested' = requested \cup {Head(todo)} /\ UNCHANGED <<meta, client, config>>
  BY DEF ResourceMetadata
<1>2. requested' \subseteq Url /\ \A u \in requested' : Passes(u)
  BY <1>1, CandidateRequested
<1>3. a # Absent => a \in ServerUrl /\ a \in Url
  BY GivenAreUrls DEF Optional
<1>4. v \in ErrorClass \cup {"ok"}
  BY <1>3, ValidationVerdict DEF ErrorClass
<1>5. CASE v # "ok"
  <2>1. Fail(v, "rejected") /\ UNCHANGED <<todo, urls, resource>>
    BY <1>5 DEF ResourceMetadata
  <2>2. v \in ErrorClass
    BY <1>4, <1>5
  <2> HIDE DEF v
  <2>3. QED  BY <1>1, <1>2, <2>1, <2>2, FailureStep DEF IInv, TypeOK, Progress
<1>6. CASE v = "ok"
  <2>1. /\ pc' = "asm" /\ todo' = AsmCandidates(a) /\ resource' = r /\ error' = error
        /\ urls' = [urls EXCEPT !.auth = a]
    BY <1>6 DEF ResourceMetadata
  <2>2. a \in ServerUrl /\ a # Absent
    BY <1>3, <1>6, GivenAreUrls, AbsentIsNoObject
  <2>3. /\ urls' \in [server : Optional(ServerUrl), hint : Optional(HintUrl),
                       auth : Optional(ServerUrl)]
        /\ urls'.auth = a /\ urls'.server = urls.server
    BY <2>1 DEF IInv, TypeOK
  <2>4. TypeOK'
    BY <1>1, <1>2, <2>1, <2>2, <2>3, AsmCandidatesTyped DEF IInv, TypeOK
  <2>5. error' = Absent /\ config' = Absent
    BY <1>1, <2>1 DEF IInv, Progress
  <2>6. Progress' /\ EndpointsVetted'
    BY <1>1, <2>1, <2>2, <2>3, <2>5 DEF IInv, Progress, EndpointsVetted, Vetted
  <2>7. NoneSkipped("asm")'
    BY <2>1, <2>3 DEF NoneSkipped, Candidates
  <2>8. RequestsAreValidated' /\ GivesUpAfterAll' /\ MethodIsAccepted' /\ SecretAgrees'
    BY <1>2, <2>5 DEF RequestsAreValidated, GivesUpAfterAll, MethodIsAccepted, SecretAgrees
  <2>9. QED  BY <2>1, <2>4, <2>6, <2>7, <2>8 DEF IInv
<1>7. QED  BY <1>5, <1>6

\* A step that goes on past discovery, without a failure or a configuration.
LEMMA OnwardStep ==
    ASSUME IInv, config = Absent, UNCHANGED <<todo, urls, resource, config, error>>,
           error = Absent,
           \/ pc' = "discovered"
           \/ pc' = "identified" /\ client' # Absent,
           urls.server # Absent,
           meta' \in Metadata, Vetted(meta'),
           client' \in Optional(Client),
           requested' \subseteq Url, \A u \in requested' : Passes(u)
    PROVE  IInv'
<1>1. meta' # Absent
  BY AbsentIsNoObject
<1>2. TypeOK'
  BY DEF IInv, TypeOK, Optional
<1>3. Progress' /\ EndpointsVetted'
  BY <1>1 DEF IInv, Progress, EndpointsVetted, Vetted
<1>4. RequestsAreValidated' /\ GivesUpAfterAll' /\ MethodIsAccepted' /\ SecretAgrees'
  BY DEF RequestsAreValidated, GivesUpAfterAll, MethodIsAccepted, SecretAgrees
<1>5. QED  BY <1>2, <1>3, <1>4 DEF IInv

LEMMA ServerMetadataStep ==
    ASSUME IInv, NEW m \in Metadata, ServerMetadata(m)
    PROVE  IInv'
<1> DEFINE v == EndpointsVerdict(m)
<1>1. /\ pc = "asm" /\ Fetching /\ Passes(Head(todo))
      /\ requested' = requested \cup {Head(todo)}
      /\ UNCHANGED <<todo, urls, resource, client, config>>
  BY DEF ServerMetadata
<1>2. requested' \subseteq Url /\ \A u \in requested' : Passes(u)
  BY <1>1, CandidateRequested
<1>3. CASE v # "ok"
  <2>1. Fail(v, "rejected") /\ meta' = meta
    BY <1>3 DEF ServerMetadata
  <2>2. v \in ErrorClass
    BY <1>3, EndpointsAreVetted
  <2> HIDE DEF v
  <2>3. QED  BY <1>1, <1>2, <2>1, <2>2, FailureStep DEF IInv, TypeOK, Progress
<1>4. CASE v = "ok"
  <2>1. pc' = "discovered" /\ meta' = m /\ error' = error /\ Vetted(m)
    BY <1>4, EndpointsAreVetted DEF ServerMetadata
  <2>2. config = Absent /\ error = Absent /\ urls.server # Absent
    BY <1>1 DEF IInv, Progress
  <2>3. client' \in Optional(Client)
    BY <1>1 DEF IInv, TypeOK
  <2>4. QED  BY <1>1, <1>2, <2>1, <2>2, <2>3, OnwardStep
<1>5. QED  BY <1>3, <1>4

\* What holds once the metadata was accepted and nothing else has happened.
LEMMA AtDiscovered ==
    ASSUME IInv, pc = "discovered"
    PROVE  /\ meta \in Metadata /\ Vetted(meta) /\ config = Absent /\ error = Absent
           /\ urls.server # Absent
           /\ requested \subseteq Url /\ \A u \in requested : Passes(u)
BY DEF IInv, TypeOK, Optional, Progress, EndpointsVetted, RequestsAreValidated

LEMMA UseKnownClientStep ==
    ASSUME IInv, NEW secret \in BOOLEAN, NEW method \in Optional(Method),
           UseKnownClient(secret, method)
    PROVE  IInv'
<1> DEFINE c == [secret |-> secret, method |-> method]
<1>1. c \in Client /\ c # Absent
  BY AbsentIsNoObject DEF Client
<1>2. /\ pc = "discovered" /\ pc' = "identified" /\ client' = c
      /\ UNCHANGED <<todo, urls, resource, meta, config, error, requested>>
  BY DEF UseKnownClient
<1> HIDE DEF c
<1>3. client' \in Optional(Client)
  BY <1>1, <1>2 DEF Optional
<1>4. QED  BY <1>1, <1>2, <1>3, AtDiscovered, OnwardStep

\* A request to the registration endpoint keeps what is said of requests.
LEMMA RegistrationRequested ==
    ASSUME IInv, pc = "discovered", meta.registration # Absent,
           Passes(meta.registration), requested' = requested \cup {meta.registration}
    PROVE  requested' \subseteq Url /\ \A u \in requested' : Passes(u)
<1>1. meta.registration \in Url
  BY AtDiscovered, GivenAreUrls DEF Metadata, Optional
<1>2. QED  BY <1>1, AtDiscovered

LEMMA RegisterStep ==
    ASSUME IInv, NEW secret \in BOOLEAN, NEW method \in Optional(Method),
           Register(secret, method)
    PROVE  IInv'
<1> DEFINE c == [secret |-> secret, method |-> method]
<1>1. c \in Client /\ c # Absent
  BY AbsentIsNoObject DEF Client
<1>2. /\ pc = "discovered" /\ pc' = "identified" /\ client' = c
      /\ meta.registration # Absent /\ Passes(meta.registration)
      /\ requested' = requested \cup {meta.registration}
      /\ UNCHANGED <<todo, urls, resource, meta, config, error>>
  BY DEF Register
<1> HIDE DEF c
<1>3. client' \in Optional(Client)
  BY <1>1, <1>2 DEF Optional
<1>4. requested' \subseteq Url /\ \A u \in requested' : Passes(u)
  BY <1>2, RegistrationRequested
<1>5. QED  BY <1>1, <1>2, <1>3, <1>4, AtDiscovered, OnwardStep

LEMMA RegisterFailsStep == ASSUME IInv, RegisterFails PROVE IInv'
<1>1. /\ pc = "discovered" /\ meta.registration # Absent /\ Passes(meta.registration)
      /\ requested' = requested \cup {meta.registration}
      /\ Fail("McpRegistrationError", "refused")
      /\ UNCHANGED <<todo, urls, resource, meta, client, config>>
  BY DEF RegisterFails
<1>2. requested' \subseteq Url /\ \A u \in requested' : Passes(u)
  BY <1>1, RegistrationRequested
<1>3. QED  BY <1>1, <1>2, FailureStep DEF IInv, TypeOK, Progress, ErrorClass

LEMMA ToProviderConfigStep == ASSUME IInv, ToProviderConfig PROVE IInv'
<1> DEFINE method == SelectAuthMethod(client.secret, meta.methods, client.method)
           k == [token |-> meta.token, revocation |-> meta.revocation,
                 secret |-> client.secret, method |-> method,
                 usePkce |-> meta.s256 # "missing",
                 issuer |-> meta.issuer, requireIss |-> meta.issSupported,
                 resource |-> resource]
<1>1. /\ pc = "identified" /\ meta \in Metadata /\ client \in Client /\ Vetted(meta)
      /\ urls.server # Absent /\ error = Absent
      /\ UNCHANGED <<todo, urls, resource, meta, client, requested>>
  BY DEF ToProviderConfig, IInv, TypeOK, Optional, Progress, EndpointsVetted
<1>2. ASSUME NEW class \in ErrorClass, NEW reason \in {"method", "resource"},
             Fail(class, reason), config' = config
      PROVE  IInv'
  BY <1>1, <1>2, FailureStep DEF IInv, TypeOK, RequestsAreValidated
<1>3. CASE method = "unusable"
  BY <1>2, <1>3 DEF ToProviderConfig, ErrorClass
<1>4. CASE method # "unusable"
  <2>1. /\ method \in {"none"} \cup Performable
        /\ SecretMatchesMethod(client.secret, method)
        /\ PresentsBasicAuth(client.secret, method) <=> client.secret
        /\ IF client.method # Absent THEN method = client.method
           ELSE meta.methods # {} => method \in meta.methods
    BY <1>1, <1>4, SelectedMethodFits DEF Client
  <2>2. CASE resource = "relative"
    BY <1>2, <1>4, <2>1, <2>2 DEF ToProviderConfig, ErrorClass
  <2>3. CASE resource # "relative"
    <3>1. pc' = "configured" /\ config' = k /\ error' = error
      BY <1>4, <2>1, <2>3 DEF ToProviderConfig
    <3>2. k \in Configuration
      <4>1. resource \in {"absolute", Absent}
        BY <2>3 DEF IInv, TypeOK
      <4>2. meta.token \in EndpointUrl
        BY <1>1 DEF Metadata, Optional, Vetted
      <4> HIDE DEF method
      <4>3. QED  BY <1>1, <2>1, <4>1, <4>2 DEF Metadata, Client, Configuration
    <3>3. k # Absent
      BY <3>2, AbsentIsNoObject
    <3>4. /\ k.token = meta.token /\ k.revocation = meta.revocation
          /\ k.method = method /\ k.secret = client.secret
      OBVIOUS
    <3>5. meta # Absent /\ client # Absent
      BY <1>1, AbsentIsNoObject
    <3> HIDE DEF k, method
    <3>6. TypeOK'
      BY <1>1, <3>1, <3>2 DEF IInv, TypeOK, Optional
    <3>7. Progress' /\ EndpointsVetted'
      BY <1>1, <3>1, <3>3, <3>4, <3>5 DEF IInv, Progress, EndpointsVetted, Vetted
    <3>8. RequestsAreValidated' /\ GivesUpAfterAll'
      BY <1>1, <3>1 DEF IInv, RequestsAreValidated, GivesUpAfterAll
    <3>9. MethodIsAccepted' /\ SecretAgrees'
      BY <1>1, <2>1, <3>1, <3>4 DEF MethodIsAccepted, SecretAgrees
    <3>10. QED  BY <3>1, <3>6, <3>7, <3>8, <3>9 DEF IInv
  <2>4. QED  BY <2>2, <2>3
<1>5. QED  BY <1>3, <1>4

LEMMA UseClientStep == ASSUME IInv, UseClient PROVE IInv'
<1>1. /\ pc = "configured" /\ UNCHANGED <<pc, todo, urls, resource, meta, client, config, error>>
  BY DEF UseClient
<1>2. /\ config.token = meta.token /\ config.revocation = meta.revocation
      /\ meta \in Metadata /\ Vetted(meta) /\ error = Absent
  BY <1>1 DEF IInv, TypeOK, Optional, Progress, EndpointsVetted
<1>3. PICK u \in {meta.token, meta.revocation} \ {Absent} : requested' = requested \cup {u}
  BY <1>2 DEF UseClient
<1>4. u \in Url /\ Passes(u)
  BY <1>2, GivenAreUrls DEF Metadata, Optional, Vetted
<1>5. TypeOK' /\ RequestsAreValidated'
  BY <1>1, <1>3, <1>4 DEF IInv, TypeOK, RequestsAreValidated
<1>6. Progress' /\ EndpointsVetted'
  BY <1>1 DEF IInv, Progress, EndpointsVetted, Vetted
<1>7. GivesUpAfterAll' /\ MethodIsAccepted' /\ SecretAgrees'
  BY <1>1, <1>2 DEF IInv, GivesUpAfterAll, MethodIsAccepted, SecretAgrees
<1>8. QED  BY <1>1, <1>5, <1>6, <1>7 DEF IInv

LEMMA IInvStep == IInv /\ [Next]_vars => IInv'
<1> SUFFICES ASSUME IInv, [Next]_vars
             PROVE  IInv'
  OBVIOUS
<1>1. ASSUME NEW s \in ServerUrl, NEW h \in Optional(HintUrl), Discover(s, h)  PROVE IInv'
  BY <1>1, DiscoverStep
<1>2. CASE CandidateRejected
  BY <1>2, CandidateRejectedStep
<1>3. CASE CandidateSkipped
  BY <1>3, CandidateSkippedStep
<1>4. CASE Exhausted
  BY <1>4, ExhaustedStep
<1>5. ASSUME NEW a \in Optional(ServerUrl), NEW r \in {"absolute", "relative", Absent},
             ResourceMetadata(a, r)
      PROVE  IInv'
  BY <1>5, ResourceMetadataStep
<1>6. ASSUME NEW m \in Metadata, ServerMetadata(m)  PROVE IInv'
  BY <1>6, ServerMetadataStep
<1>7. ASSUME NEW secret \in BOOLEAN, NEW method \in Optional(Method),
             UseKnownClient(secret, method) \/ Register(secret, method)
      PROVE  IInv'
  BY <1>7, UseKnownClientStep, RegisterStep
<1>8. CASE RegisterFails
  BY <1>8, RegisterFailsStep
<1>9. CASE ToProviderConfig
  BY <1>9, ToProviderConfigStep
<1>10. CASE UseClient
  BY <1>10, UseClientStep
<1>11. CASE UNCHANGED vars
  BY <1>11
  DEF vars, IInv, TypeOK, Progress, EndpointsVetted, Vetted, RequestsAreValidated,
      NoneSkipped, Candidates, GivesUpAfterAll, MethodIsAccepted, SecretAgrees
<1>12. QED
  BY <1>1, <1>2, <1>3, <1>4, <1>5, <1>6, <1>7, <1>8, <1>9, <1>10, <1>11 DEF Next, Step

LEMMA McpInvariant == Spec => []IInv
BY IInvInit, IInvStep, PTL DEF Spec

------------------------------------------------------------------------------
\* The state is typed: in particular, every configuration has a token endpoint
\* and a method of authentication that OAuthClient can perform.
THEOREM McpTypeOK == Spec => []TypeOK
<1>1. IInv => TypeOK
  BY DEF IInv
<1>2. QED  BY <1>1, McpInvariant, PTL

\* No request, of discovery, of registration or of the client that is configured
\* in the end, goes to a URL that _validate_url did not let pass, whatever the
\* servers name and whatever the caller's validator allows.
THEOREM McpRequestsAreValidated == Spec => []RequestsAreValidated
<1>1. IInv => RequestsAreValidated
  BY DEF IInv
<1>2. QED  BY <1>1, McpInvariant, PTL

\* Discovery gives up for want of metadata only when every candidate was asked.
THEOREM McpGivesUpAfterAll == Spec => []GivesUpAfterAll
<1>1. IInv => GivesUpAfterAll
  BY DEF IInv
<1>2. QED  BY <1>1, McpInvariant, PTL

\* to_provider_config settles on the method the client was registered with, or
\* else on one the server advertises, if it advertises any.
THEOREM McpMethodIsAccepted == Spec => []MethodIsAccepted
<1>1. IInv => MethodIsAccepted
  BY DEF IInv
<1>2. QED  BY <1>1, McpInvariant, PTL

\* ProviderConfig never refuses the secret of a configuration made from
\* discovered metadata, and the method presents a secret just if there is one.
THEOREM McpSecretAgrees == Spec => []SecretAgrees
<1>1. IInv => SecretAgrees
  BY DEF IInv
<1>2. QED  BY <1>1, McpInvariant, PTL
------------------------------------------------------------------------------
\* How far the caller has still to go.
Rank == IF pc = "start" THEN 5 ELSE IF pc = "prm" THEN 4 ELSE IF pc = "asm" THEN 3
        ELSE IF pc = "discovered" THEN 2 ELSE IF pc = "identified" THEN 1 ELSE 0

Nearer == Rank' < Rank \/ (Rank' = Rank /\ Len(todo') < Len(todo))

LEMMA StepIsNearer == ASSUME IInv, Step PROVE Nearer
<1>1. todo \in Seq(Url)
  BY DEF IInv, TypeOK
<1>2. ASSUME NEW s \in ServerUrl, NEW h \in Optional(HintUrl), Discover(s, h)
      PROVE  pc = "start" /\ pc' \in {"prm", "failed"}
  BY <1>2 DEF Discover, Fail
<1>3. ASSUME CandidateRejected \/ Exhausted
      PROVE  pc \in {"prm", "asm"} /\ pc' = "failed"
  BY <1>3 DEF CandidateRejected, Exhausted, Fetching, Fail
<1>4. CASE CandidateSkipped
  <2>1. Len(todo') < Len(todo) /\ pc' = pc
    BY <1>1, <1>4 DEF CandidateSkipped, Fetching
  <2>2. QED  BY <2>1 DEF Nearer, Rank
<1>5. ASSUME NEW a \in Optional(ServerUrl), NEW r \in {"absolute", "relative", Absent},
             ResourceMetadata(a, r)
      PROVE  pc = "prm" /\ pc' \in {"asm", "failed"}
  BY <1>5, Zenon DEF ResourceMetadata, Fail
<1>6. ASSUME NEW m \in Metadata, ServerMetadata(m)
      PROVE  pc = "asm" /\ pc' \in {"discovered", "failed"}
  BY <1>6 DEF ServerMetadata, Fail
<1>7. ASSUME NEW secret \in BOOLEAN, NEW method \in Optional(Method),
             UseKnownClient(secret, method) \/ Register(secret, method)
      PROVE  pc = "discovered" /\ pc' = "identified"
  BY <1>7 DEF UseKnownClient, Register
<1>8. ASSUME RegisterFails PROVE pc = "discovered" /\ pc' = "failed"
  BY <1>8 DEF RegisterFails, Fail
<1>9. ASSUME ToProviderConfig PROVE pc = "identified" /\ pc' \in {"configured", "failed"}
  BY <1>9, Zenon DEF ToProviderConfig, Fail
<1>10. QED
  BY <1>2, <1>3, <1>4, <1>5, <1>6, <1>7, <1>8, <1>9 DEF Step, Nearer, Rank

\* Each step of connecting brings the caller nearer to the end: to a later stage,
\* or in the same stage to fewer candidates.  A caller that is not held up for
\* ever has therefore ended: no answer of a server makes discovery go round.
THEOREM McpStepsAreNearer == Spec => [][Step => Nearer]_vars
<1>1. IInv /\ [Next]_vars => [Step => Nearer]_vars
  BY StepIsNearer
<1>2. QED  BY <1>1, McpInvariant, PTL DEF Spec
=============================================================================
