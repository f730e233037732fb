------------------------- MODULE Revocation_proofs -------------------------
(***************************************************************************)
(* revoke_token for any number of calls: what it confirms is dead, and it  *)
(* raises nothing but what it names, through every handler.                *)
(***************************************************************************)
EXTENDS Revocation, TLAPS

\* revoke_token returns True or raises a RevocationError.
LEMMA OutcomeIsNamed == \A r : Outcome(r) \in {"True", "RevocationError"}
BY DEF Outcome

\* The answers an endpoint may give, as replies.
LEMMA AnswersAreReplies ==
    ASSUME handler \in Handler
    PROVE  /\ Accepted \in Reply
           /\ Unknown \subseteq Reply
           /\ Trouble \cup {"no_connection"} \subseteq Reply
<1>1. Accepted \in Reply
  BY DEF Accepted, Reply, Handler
<1>2. Unknown \subseteq Reply
  BY DEF Unknown, Reply, Handler
<1>3. QED  BY <1>1, <1>2 DEF Trouble, Reply

\* No handler takes a failure for a confirmation.
LEMMA FailuresDoNotConfirm ==
    ASSUME handler \in Handler, NEW r \in Trouble \cup {"no_connection"}
    PROVE  Outcome(r) # "True"
<1>1. CASE handler = "slack"
  BY <1>1 DEF Trouble, Outcome, Raises, Confirms, SlackConfirms
<1>2. CASE handler = "standard"
  BY <1>2 DEF Trouble, Outcome, Raises, Confirms, StandardConfirms, IsSuccess
<1>3. CASE handler = "google"
  BY <1>3 DEF Trouble, Outcome, Raises, Confirms, GoogleConfirms, IsSuccess
<1>4. CASE handler = "github"
  BY <1>4 DEF Trouble, AlreadyGone, Outcome, Raises, Confirms, GitHubConfirms
<1>5. CASE handler = "hubspot"
  BY <1>5 DEF Trouble, AlreadyGone, Outcome, Raises, Confirms, HubSpotConfirms
<1>6. CASE handler = "notion"
  BY <1>6 DEF Trouble, AlreadyGone, Outcome, Raises, Confirms, NotionConfirms
<1>7. QED  BY <1>1, <1>2, <1>3, <1>4, <1>5, <1>6 DEF Handler

\* The token a call is about is dead, as far as the handler can tell.
Dead(c) == (handler = "hubspot" => calls[c].token = "refresh") => calls[c].token \notin live

\* The inductive invariant: an answer that will be taken for a confirmation is
\* about a dead token, and so is each confirmation given.
IInv ==
    /\ TypeOK
    /\ \A c \in Call : calls[c].status = "answered" /\ Outcome(calls[c].reply) = "True" => Dead(c)
    /\ \A c \in Call : calls[c].outcome = "True" => Dead(c)
    /\ \A c \in Call : calls[c].outcome # "raw"

\* Steps that leave the calls alone or change one, and revive no token.
LEMMA CallStep ==
    ASSUME IInv, UNCHANGED <<handler, config>>, live' \in SUBSET live, NEW c \in Call,
           NEW k, calls' = [calls EXCEPT ![c] = k],
           k \in [status : {"idle", "sent", "answered", "done"},
                  token : Passed \cup {Absent}, reply : Reply \cup {Absent},
                  outcome : {Absent, "True", "RevocationError", "ConfigurationError"}],
           k.status = "answered" /\ Outcome(k.reply) = "True" => Dead(c)',
           k.outcome = "True" => Dead(c)'
    PROVE  IInv'
<1>1. TypeOK'
  BY DEF IInv, TypeOK
<1>2. \A r : Outcome(r)' = Outcome(r)
  BY DEF Outcome, Raises, Confirms, StandardConfirms, GoogleConfirms, GitHubConfirms,
         HubSpotConfirms, NotionConfirms, SlackConfirms, IsSuccess
<1>3. \A d \in Call : calls'[d] = IF d = c THEN k ELSE calls[d]
  BY DEF IInv, TypeOK
<1>4. \A d \in Call : d # c /\ Dead(d) => Dead(d)'
  BY <1>3 DEF Dead
<1>5. k.outcome # "raw"
  BY PassedAssumption
<1>6. QED  BY <1>1, <1>2, <1>3, <1>4, <1>5 DEF IInv

------------------------------------------------------------------------------
\* The record of a call after Record.
LEMMA Recorded ==
    ASSUME TypeOK, NEW c \in Call, NEW status, NEW reply, NEW outcome,
           Record(c, status, reply, outcome)
    PROVE  calls' = [calls EXCEPT ![c] = [status |-> status, token |-> calls[c].token,
                                          reply |-> reply, outcome |-> outcome]]
BY DEF Record

\* Answers are kept if they are replies and, if they confirm, about dead tokens.
LEMMA AnswerStep ==
    ASSUME IInv, NEW c \in Call, NEW r \in Reply, UNCHANGED <<handler, config>>,
           live' \in SUBSET live, Record(c, "answered", r, Absent),
           Outcome(r) = "True" => Dead(c)'
    PROVE  IInv'
<1> DEFINE k == [status |-> "answered", token |-> calls[c].token, reply |-> r,
                 outcome |-> Absent]
<1>1. calls' = [calls EXCEPT ![c] = k]
  BY Recorded DEF IInv
<1>2. k \in [status : {"idle", "sent", "answered", "done"},
             token : Passed \cup {Absent}, reply : Reply \cup {Absent},
             outcome : {Absent, "True", "RevocationError", "ConfigurationError"}]
  BY DEF IInv, TypeOK
<1>3. k.status = "answered" /\ k.reply = r /\ k.outcome # "True"
  BY PassedAssumption
<1> HIDE DEF k
<1>4. QED  BY <1>1, <1>2, <1>3, CallStep

LEMMA RevokeStep == ASSUME IInv, NEW c \in Call, NEW t \in Passed, Revoke(c, t) PROVE IInv'
<1> DEFINE k == [Idle EXCEPT !.status = "sent", !.token = t]
<1>1. k \in [status : {"idle", "sent", "answered", "done"},
             token : Passed \cup {Absent}, reply : Reply \cup {Absent},
             outcome : {Absent, "True", "RevocationError", "ConfigurationError"}]
      /\ k.status = "sent" /\ k.outcome # "True"
  BY PassedAssumption DEF Idle
<1>2. calls' = [calls EXCEPT ![c] = k] /\ UNCHANGED <<handler, config>> /\ live' \in SUBSET live
  BY DEF Revoke
<1> HIDE DEF k
<1>3. QED  BY <1>1, <1>2, CallStep

LEMMA RetryStep == ASSUME IInv, NEW c \in Call, Retry(c) PROVE IInv'
<1> DEFINE k == [Idle EXCEPT !.status = "sent", !.token = calls[c].token]
<1>1. k \in [status : {"idle", "sent", "answered", "done"},
             token : Passed \cup {Absent}, reply : Reply \cup {Absent},
             outcome : {Absent, "True", "RevocationError", "ConfigurationError"}]
      /\ k.status = "sent" /\ k.outcome # "True"
  BY PassedAssumption DEF Idle, IInv, TypeOK
<1>2. calls' = [calls EXCEPT ![c] = k] /\ UNCHANGED <<handler, config>> /\ live' \in SUBSET live
  BY DEF Retry
<1> HIDE DEF k
<1>3. QED  BY <1>1, <1>2, CallStep

LEMMA RevokeUnconfiguredStep == ASSUME IInv, NEW c \in Call, RevokeUnconfigured(c) PROVE IInv'
<1> DEFINE k == [status |-> "done", token |-> calls[c].token, reply |-> Absent,
                 outcome |-> "ConfigurationError"]
<1>1. k \in [status : {"idle", "sent", "answered", "done"},
             token : Passed \cup {Absent}, reply : Reply \cup {Absent},
             outcome : {Absent, "True", "RevocationError", "ConfigurationError"}]
      /\ k.status = "done" /\ k.outcome # "True"
  BY DEF IInv, TypeOK
<1>2. calls' = [calls EXCEPT ![c] = k] /\ UNCHANGED <<handler, config>> /\ live' \in SUBSET live
  BY Recorded DEF RevokeUnconfigured, IInv
<1> HIDE DEF k
<1>3. QED  BY <1>1, <1>2, CallStep

LEMMA ReturnStep == ASSUME IInv, NEW c \in Call, Return(c) PROVE IInv'
<1> DEFINE o == Outcome(calls[c].reply)
           k == [status |-> "done", token |-> calls[c].token, reply |-> calls[c].reply,
                 outcome |-> o]
<1>1. o \in {"True", "RevocationError"}
  BY OutcomeIsNamed
<1>2. calls' = [calls EXCEPT ![c] = k] /\ UNCHANGED <<handler, config, live>>
  BY Recorded DEF Return, IInv
<1>3. o = "True" => Dead(c)
  BY DEF Return, IInv
<1> HIDE DEF o
<1>4. k \in [status : {"idle", "sent", "answered", "done"},
             token : Passed \cup {Absent}, reply : Reply \cup {Absent},
             outcome : {Absent, "True", "RevocationError", "ConfigurationError"}]
      /\ k.status = "done" /\ k.outcome = o
  BY <1>1 DEF IInv, TypeOK
<1>5. Dead(c) => Dead(c)'
  BY <1>2 DEF Dead, IInv, TypeOK
<1> HIDE DEF k
<1>6. QED  BY <1>2, <1>3, <1>4, <1>5, CallStep

LEMMA EndpointRevokesStep ==
    ASSUME IInv, NEW c \in Call, NEW delivered \in BOOLEAN, EndpointRevokes(c, delivered)
    PROVE  IInv'
<1> DEFINE r == IF delivered THEN Accepted ELSE "no_connection"
<1>1. r \in Reply
  BY AnswersAreReplies DEF IInv, TypeOK
<1>2. /\ live' = LeftAfter(calls[c].token) /\ UNCHANGED <<handler, config>>
      /\ Record(c, "answered", r, Absent) /\ calls[c].token \in live
  BY DEF EndpointRevokes, Finds
<1>3. live' \subseteq live /\ calls[c].token \notin live'
  BY <1>2 DEF LeftAfter
<1> HIDE DEF r
<1>4. calls'[c].token = calls[c].token
  BY <1>2, Recorded DEF IInv, TypeOK
<1>5. Dead(c)'
  BY <1>3, <1>4 DEF Dead
<1>6. QED  BY <1>1, <1>2, <1>3, <1>5, AnswerStep

LEMMA EndpointDoesNotKnowStep ==
    ASSUME IInv, NEW c \in Call, EndpointDoesNotKnow(c)
    PROVE  IInv'
<1>1. PICK r \in Unknown : Record(c, "answered", r, Absent)
  BY DEF EndpointDoesNotKnow
<1>2. r \in Reply
  BY AnswersAreReplies DEF IInv, TypeOK
<1>3. UNCHANGED <<handler, config, live>> /\ ~ Finds(calls[c].token)
  BY DEF EndpointDoesNotKnow
<1>4. calls'[c].token = calls[c].token
  BY <1>1, Recorded DEF IInv, TypeOK
<1>5. Dead(c)'
  BY <1>3, <1>4 DEF Dead, Finds
<1>6. QED  BY <1>1, <1>2, <1>3, <1>5, AnswerStep

LEMMA EndpointFailsStep ==
    ASSUME IInv, NEW c \in Call, EndpointFails(c)
    PROVE  IInv'
<1>1. PICK r \in Trouble \cup {"no_connection"} : Record(c, "answered", r, Absent)
  BY DEF EndpointFails
<1>2. r \in Reply /\ Outcome(r) # "True"
  BY AnswersAreReplies, FailuresDoNotConfirm DEF IInv, TypeOK
<1>3. UNCHANGED <<handler, config, live>>
  BY DEF EndpointFails
<1>4. QED  BY <1>1, <1>2, <1>3, AnswerStep

LEMMA LapseStep == ASSUME IInv, Lapse PROVE IInv'
<1>1. live' \subseteq live /\ UNCHANGED <<handler, config, calls>>
  BY DEF Lapse
<1>2. TypeOK'
  BY <1>1 DEF IInv, TypeOK
<1>3. \A r : Outcome(r)' = Outcome(r)
  BY <1>1 DEF Outcome, Raises, Confirms, StandardConfirms, GoogleConfirms, GitHubConfirms,
         HubSpotConfirms, NotionConfirms, SlackConfirms, IsSuccess
<1>4. \A c \in Call : Dead(c) => Dead(c)'
  BY <1>1 DEF Dead
<1>5. QED  BY <1>1, <1>2, <1>3, <1>4 DEF IInv

------------------------------------------------------------------------------
LEMMA IInvInit == Init => IInv
BY PassedAssumption DEF Init, IInv, TypeOK, Idle

LEMMA IInvStep == IInv /\ [Next]_vars => IInv'
<1> SUFFICES ASSUME IInv, [Next]_vars
             PROVE  IInv'
  OBVIOUS
<1>1. ASSUME NEW c \in Call, RevokeUnconfigured(c)  PROVE IInv'
  BY <1>1, RevokeUnconfiguredStep
<1>2. ASSUME NEW c \in Call, NEW t \in Passed, Revoke(c, t)  PROVE IInv'
  BY <1>2, RevokeStep
<1>3. ASSUME NEW c \in Call, NEW d \in BOOLEAN, EndpointRevokes(c, d)  PROVE IInv'
  BY <1>3, EndpointRevokesStep
<1>4. ASSUME NEW c \in Call, EndpointDoesNotKnow(c)  PROVE IInv'
  BY <1>4, EndpointDoesNotKnowStep
<1>5. ASSUME NEW c \in Call, EndpointFails(c)  PROVE IInv'
  BY <1>5, EndpointFailsStep
<1>6. ASSUME NEW c \in Call, Return(c)  PROVE IInv'
  BY <1>6, ReturnStep
<1>7. ASSUME NEW c \in Call, Retry(c)  PROVE IInv'
  BY <1>7, RetryStep
<1>8. CASE Lapse
  BY <1>8, LapseStep
<1>9. CASE UNCHANGED vars
  <2>1. \A r : Outcome(r)' = Outcome(r)
    BY <1>9 DEF vars, Outcome, Raises, Confirms, StandardConfirms, GoogleConfirms,
       GitHubConfirms, HubSpotConfirms, NotionConfirms, SlackConfirms, IsSuccess
  <2>2. QED  BY <1>9, <2>1 DEF vars, IInv, TypeOK, Dead
<1>10. QED
  BY <1>1, <1>2, <1>3, <1>4, <1>5, <1>6, <1>7, <1>8, <1>9 DEF Next

LEMMA RevocationInvariant == Spec => []IInv
BY IInvInit, IInvStep, PTL DEF Spec

\* The state is typed for any number of calls.
THEOREM RevocationTypeOK == Spec => []TypeOK
<1>1. IInv => TypeOK
  BY DEF IInv
<1>2. QED  BY <1>1, RevocationInvariant, PTL

\* A token whose revocation was confirmed is not honoured any more, whatever
\* was lost, repeated or done at the same time.
THEOREM RevocationConfirmedIsDead == Spec => []ConfirmedIsDead
<1>1. IInv => ConfirmedIsDead
  BY DEF IInv, Dead, ConfirmedIsDead
<1>2. QED  BY <1>1, RevocationInvariant, PTL

\* No exception but RevocationError and ConfigurationError leaves revoke_token.
THEOREM RevocationOnlyNamedErrors == Spec => []OnlyNamedErrors
<1>1. IInv => OnlyNamedErrors
  BY DEF IInv, OnlyNamedErrors
<1>2. QED  BY <1>1, RevocationInvariant, PTL
=============================================================================
