----------------------- MODULE ScopeReduction_proofs -----------------------
(***************************************************************************)
(* Scope reduction for any scopes, workers and number of connections: a    *)
(* revocation confirmed by a provider with disconnect_fully_revokes ends   *)
(* its grant, so that the next connection has what it asks for.            *)
(***************************************************************************)
EXTENDS ScopeReduction, TLAPS

Fully == Config.disconnect_fully_revokes

\* The presets that claim it revoke at an endpoint that drops the grant, and
\* their handlers take no failure for a confirmation.
LEMMA FullyDropsGrants ==
    ASSUME provider \in Provider, Fully
    PROVE  Config.revocation_url = "grant" /\ Config.handler \in {"google", "github"}
<1>1. provider \in BuiltIn
  BY ReductionAssumption
<1>2. provider \in {"google", "github"}
  BY <1>1 DEF Fully, Config, Preset, BuiltIn, Default, Atlassian, HubSpot, Linear, Microsoft,
              Notion, Salesforce, Slack, Typeform
<1>3. QED  BY <1>2 DEF Config, Preset, Default, Google, GitHub

LEMMA FailuresDoNotConfirm ==
    ASSUME provider \in Provider, Fully, NEW r \in Revoking!Trouble \cup {"no_connection"}
    PROVE  Revoking!Outcome(r) # "True"
<1>1. CASE Config.handler = Absent
  BY <1>1, FullyDropsGrants, ReductionAssumption DEF Revoking!Trouble, Revoking!Outcome,
     Revoking!Raises, Revoking!Confirms, Revoking!StandardConfirms, Revoking!IsSuccess
<1>2. CASE Config.handler # Absent
  <2>1. Config.handler = "google" \/ Config.handler = "github"
    BY FullyDropsGrants
  <2>2. QED
    BY <1>2, <2>1 DEF Revoking!Trouble, Revoking!AlreadyGone, Revoking!Outcome,
       Revoking!Raises, Revoking!Confirms, Revoking!GoogleConfirms, Revoking!GitHubConfirms, Revoking!IsSuccess
<1>3. QED  BY <1>1, <1>2

------------------------------------------------------------------------------
\* The inductive invariant: epochs are those of connections made, the stored
\* connection is under the present grant, and with a preset that claims to
\* revoke fully, a token that is gone has taken its grant along, while one that
\* is confirmed, or about to be, is not live.
EpochInv ==
    /\ portal # Absent => portal.epoch <= Len(tokens)
    /\ \A t \in DOMAIN tokens : tokens[t].epoch <= Len(tokens)
    /\ portal # Absent /\ tokens # <<>> => portal.epoch = tokens[Len(tokens)].epoch

GoneInv == Fully => \A t \in DOMAIN tokens : tokens[t].status = "gone" => GrantEnded(t)

ConfirmedInv == Fully => \A t \in DOMAIN tokens : tokens[t].confirmed => tokens[t].status # "live"

AnswerInv ==
    Fully => \A w \in Worker :
        calls[w].status = "answered" /\ Revoking!Outcome(calls[w].reply) = "True"
            => tokens[calls[w].token].status # "live"

IInv == TypeOK /\ EpochInv /\ GoneInv /\ ConfirmedInv /\ AnswerInv

\* What every step but Connect leaves of the connections.
Kept ==
    /\ tokens' \in Seq(Token)
    /\ Len(tokens') = Len(tokens)
    /\ \A t \in DOMAIN tokens :
          /\ tokens'[t].epoch = tokens[t].epoch
          /\ tokens'[t].asked = tokens[t].asked
          /\ tokens'[t].scopes = tokens[t].scopes
          /\ tokens'[t].status # tokens[t].status => tokens[t].status = "live"

LEMMA ChangedIsKept ==
    ASSUME tokens \in Seq(Token), NEW t \in DOMAIN tokens, NEW u \in Token,
           u.epoch = tokens[t].epoch, u.asked = tokens[t].asked, u.scopes = tokens[t].scopes,
           u.status # tokens[t].status => tokens[t].status = "live",
           tokens' = [tokens EXCEPT ![t] = u]
    PROVE  Kept
BY DEF Kept

LEMMA SweptIsKept ==
    ASSUME tokens \in Seq(Token), NEW e, tokens' = Swept(e)
    PROVE  /\ Kept
           /\ \A t \in DOMAIN tokens :
                 /\ tokens'[t].confirmed = tokens[t].confirmed
                 /\ tokens[t].epoch = e /\ tokens[t].status = "live" =>
                       tokens'[t].status = "gone"
<1>1. \A t \in DOMAIN tokens : tokens[t] \in Token
  OBVIOUS
<1>2. \A t \in DOMAIN tokens : tokens'[t] \in Token
  BY <1>1 DEF Swept, Token
<1>3. DOMAIN tokens' = 1..Len(tokens)
  BY DEF Swept
<1>4. tokens' \in Seq(Token) /\ Len(tokens') = Len(tokens)
  BY <1>2, <1>3 DEF Swept
<1>5. Kept
  BY <1>1, <1>4 DEF Kept, Swept, Token
<1>6. QED  BY <1>1, <1>5 DEF Swept, Token

------------------------------------------------------------------------------
\* The preset does not change, nor what is made of an answer.
LEMMA PresetStays ==
    ASSUME UNCHANGED provider
    PROVE  Config' = Config /\ Fully' = Fully
BY DEF Config, Fully

LEMMA OutcomeStays ==
    ASSUME UNCHANGED provider, NEW r, NEW r1, r1 = r
    PROVE  Revoking!Outcome(r1)' = Revoking!Outcome(r)
BY PresetStays DEF Revoking!Outcome, Revoking!Raises, Revoking!Confirms,
   Revoking!StandardConfirms, Revoking!GoogleConfirms, Revoking!GitHubConfirms,
   Revoking!HubSpotConfirms, Revoking!NotionConfirms, Revoking!SlackConfirms,
   Revoking!IsSuccess

\* A token may only go together with its grant, and only be confirmed when it
\* is not live; nothing else about connections that were made is ever at risk.
LEMMA KeptStep ==
    ASSUME IInv, Kept, UNCHANGED provider, portal' \in {portal, Absent},
           \A t \in DOMAIN tokens :
              Fully /\ tokens'[t].status = "gone" /\ tokens[t].status # "gone"
                 => portal' = Absent,
           \A t \in DOMAIN tokens :
              Fully /\ tokens'[t].confirmed /\ ~ tokens[t].confirmed
                 => tokens'[t].status # "live"
    PROVE  EpochInv' /\ GoneInv' /\ ConfirmedInv'
<1>1. DOMAIN tokens' = DOMAIN tokens /\ Len(tokens') = Len(tokens) /\ Fully' = Fully
  BY PresetStays DEF Kept, IInv, TypeOK
<1>2. EpochInv'
  BY <1>1 DEF IInv, EpochInv, TypeOK, Kept
<1>3. GoneInv'
  BY <1>1 DEF IInv, GoneInv, GrantEnded, Kept
<1>4. ConfirmedInv'
  BY <1>1 DEF IInv, ConfirmedInv, Kept, TypeOK, Token
<1>5. QED  BY <1>2, <1>3, <1>4

\* An answer that will confirm arrives only for a token that is not live.
LEMMA AnswerStep ==
    ASSUME IInv, Kept, UNCHANGED provider,
           \A w \in Worker : calls'[w].status = "answered" =>
              \/ calls'[w] = calls[w]
              \/ /\ calls'[w].token \in DOMAIN tokens
                 /\ Fully => \/ Revoking!Outcome(calls'[w].reply) # "True"
                             \/ tokens'[calls'[w].token].status # "live"
    PROVE  AnswerInv'
<1> SUFFICES ASSUME Fully, NEW w \in Worker, calls'[w].status = "answered",
                    Revoking!Outcome(calls[w].reply)' = "True"
             PROVE  tokens'[calls'[w].token].status # "live"
  BY PresetStays DEF AnswerInv
<1>1. Revoking!Outcome(calls'[w].reply) = "True"
  BY OutcomeStays
<1>2. CASE calls'[w] = calls[w]
  <2>1. tokens[calls[w].token].status # "live" /\ calls[w].token \in DOMAIN tokens
    BY <1>1, <1>2 DEF IInv, AnswerInv, TypeOK
  <2>2. QED  BY <1>2, <2>1 DEF Kept
<1>3. QED  BY <1>1, <1>2

------------------------------------------------------------------------------
LEMMA ConnectStep ==
    ASSUME IInv, NEW asked \in SUBSET Scope, Connect(asked)
    PROVE  IInv'
<1> DEFINE requested == Requested(provider, asked)
           n == Len(tokens) + 1
           grant == IF portal = Absent THEN [epoch |-> n, scopes |-> requested]
                    ELSE [portal EXCEPT !.scopes = @ \cup requested]
           token == [epoch |-> grant.epoch, status |-> "live", asked |-> requested,
                     scopes |-> grant.scopes, confirmed |-> FALSE]
<1>1. requested \in SUBSET Scope
  BY ReductionAssumption DEF Requested
<1>2. /\ grant \in [epoch : Nat, scopes : SUBSET Scope]
      /\ grant.epoch = IF portal = Absent THEN n ELSE portal.epoch
  BY <1>1 DEF IInv, TypeOK
<1>3. portal' = grant /\ tokens' = Append(tokens, token) /\ UNCHANGED <<provider, calls>>
  BY DEF Connect
<1>4. token \in Token
  BY <1>1, <1>2 DEF Token
<1>5. grant # Absent
  BY <1>2, ReductionAssumption
<1> HIDE DEF grant, requested
<1>6. /\ tokens' \in Seq(Token) /\ DOMAIN tokens' = DOMAIN tokens \cup {n} /\ Len(tokens') = n
      /\ \A t \in DOMAIN tokens : tokens'[t] = tokens[t] /\ t # n
      /\ tokens'[n] = token /\ tokens' # <<>>
  BY <1>3, <1>4 DEF IInv, TypeOK
<1>7. /\ tokens'[n].epoch = grant.epoch /\ tokens'[n].status = "live"
      /\ ~ tokens'[n].confirmed
  BY <1>6
<1>8. /\ Len(tokens) \in Nat /\ n = Len(tokens) + 1 /\ DOMAIN tokens = 1..Len(tokens)
      /\ \A t \in DOMAIN tokens : tokens[t].epoch \in Nat /\ tokens[t].epoch <= Len(tokens)
      /\ portal # Absent => portal.epoch \in Nat /\ portal.epoch <= Len(tokens)
  <2>1. \A t \in DOMAIN tokens : tokens[t] \in Token
    BY DEF IInv, TypeOK
  <2>2. QED  BY <2>1 DEF IInv, TypeOK, EpochInv, Token
<1>9. TypeOK'
  BY <1>2, <1>3, <1>6 DEF IInv, TypeOK, CallRecord, Revoking!Reply
<1> HIDE DEF token, n
<1>10. EpochInv'
  BY <1>2, <1>3, <1>6, <1>7, <1>8 DEF EpochInv
<1>11. GoneInv'
  <2>1. ASSUME NEW t \in DOMAIN tokens, GrantEnded(t)  PROVE GrantEnded(t)'
    BY <1>2, <1>3, <1>6, <1>8, <2>1 DEF GrantEnded
  <2>2. QED  BY <1>3, <1>6, <1>7, <2>1, PresetStays DEF IInv, GoneInv
<1>12. ConfirmedInv'
  BY <1>3, <1>6, <1>7, PresetStays DEF IInv, ConfirmedInv
<1>13. AnswerInv'
  <2>1. ASSUME NEW w \in Worker, calls[w].status = "answered"
        PROVE  tokens'[calls[w].token] = tokens[calls[w].token]
    BY <1>6, <2>1 DEF IInv, TypeOK
  <2>2. QED  BY <1>3, <2>1, PresetStays, OutcomeStays DEF IInv, AnswerInv
<1>14. QED  BY <1>9, <1>10, <1>11, <1>12, <1>13 DEF IInv

\* The steps that touch neither connections nor grant.
LEMMA CallStep ==
    ASSUME IInv, UNCHANGED <<provider, portal, tokens>>, calls' \in [Worker -> CallRecord],
           \A w \in Worker : calls'[w].status # "idle" => calls'[w].token \in DOMAIN tokens,
           \A w \in Worker : calls'[w].status = "answered" =>
              \/ calls'[w] = calls[w]
              \/ Fully => \/ Revoking!Outcome(calls'[w].reply) # "True"
                          \/ tokens[calls'[w].token].status # "live"
    PROVE  IInv'
<1>1. Kept
  BY DEF Kept, IInv, TypeOK
<1>2. TypeOK'
  BY DEF IInv, TypeOK, CallRecord, Revoking!Reply
<1>3. EpochInv' /\ GoneInv' /\ ConfirmedInv'
  BY <1>1, KeptStep
<1>4. AnswerInv'
  BY <1>1, AnswerStep
<1>5. QED  BY <1>2, <1>3, <1>4 DEF IInv

LEMMA RevokeStep == ASSUME IInv, NEW w \in Worker, Revoke(w) PROVE IInv'
<1>1. Len(tokens) \in DOMAIN tokens
  BY DEF Revoke, IInv, TypeOK
<1>2. calls' \in [Worker -> CallRecord]
  <2>1. [Idle EXCEPT !.status = "sent", !.token = Len(tokens)] \in CallRecord
    <3>1. Len(tokens) \in Nat
      BY DEF IInv, TypeOK
    <3>2. QED  BY <3>1 DEF Idle, CallRecord
  <2>2. QED  BY <2>1 DEF Revoke, IInv, TypeOK
<1>3. \A v \in Worker :
        \/ calls'[v] = calls[v]
        \/ calls'[v].status = "sent" /\ calls'[v].token = Len(tokens)
  BY DEF Revoke, IInv, TypeOK, Idle
<1>4. UNCHANGED <<provider, portal, tokens>>
  BY DEF Revoke
<1>5. \A v \in Worker : calls[v].status # "idle" => calls[v].token \in DOMAIN tokens
  BY DEF IInv, TypeOK
<1>6. QED  BY <1>1, <1>2, <1>3, <1>4, <1>5, CallStep

\* What an answer does to the calls.
LEMMA AnswerTypes ==
    ASSUME IInv, NEW w \in Worker, calls[w].status = "sent",
           NEW r \in Revoking!Reply, Answer(w, r)
    PROVE  /\ calls' \in [Worker -> CallRecord]
           /\ \A v \in Worker : calls'[v].status # "idle" => calls'[v].token \in DOMAIN tokens
           /\ \A v \in Worker :
                 \/ calls'[v] = calls[v]
                 \/ calls'[v].reply = r /\ calls'[v].token = calls[w].token
BY DEF Answer, IInv, TypeOK, CallRecord

LEMMA RepliesAreReplies ==
    ASSUME provider \in Provider
    PROVE  /\ Revoking!Unknown \subseteq Revoking!Reply
           /\ Revoking!Trouble \subseteq Revoking!Reply
           /\ Revoking!Accepted \in Revoking!Reply
           /\ "no_connection" \in Revoking!Reply
<1> DEFINE h == IF Config.handler = Absent THEN "standard" ELSE Config.handler
<1>1. h \in {"standard", "google", "github", "hubspot", "notion", "slack"}
  <2>1. provider \in BuiltIn
    BY ReductionAssumption
  <2>2. QED
    BY <2>1 DEF Config, Preset, BuiltIn, Default, Atlassian, GitHub, Google, HubSpot, Linear,
       Microsoft, Notion, Salesforce, Slack, Typeform
<1>2. Revoking!Trouble \subseteq Revoking!Reply /\ "no_connection" \in Revoking!Reply
  BY DEF Revoking!Trouble, Revoking!Reply
<1>3. Revoking!Unknown \subseteq Revoking!Reply /\ Revoking!Accepted \in Revoking!Reply
  BY <1>1 DEF Revoking!Unknown, Revoking!Accepted, Revoking!Reply
<1>4. QED  BY <1>2, <1>3

------------------------------------------------------------------------------
LEMMA EndpointRevokesStep ==
    ASSUME IInv, NEW w \in Worker, NEW delivered \in BOOLEAN, EndpointRevokes(w, delivered)
    PROVE  IInv' /\ Kept /\ \A t \in DOMAIN tokens : tokens'[t].confirmed = tokens[t].confirmed
<1> DEFINE t == calls[w].token
           r == IF delivered THEN Revoking!Accepted ELSE "no_connection"
<1>1. /\ calls[w].status = "sent" /\ tokens[t].status = "live" /\ UNCHANGED provider
      /\ Answer(w, r)
      /\ \/ /\ Config.revocation_url = "grant"
            /\ portal' = Absent
            /\ tokens' = Swept(tokens[t].epoch)
         \/ /\ Config.revocation_url # "grant"
            /\ UNCHANGED portal
            /\ tokens' = [tokens EXCEPT ![t].status = "gone"]
  BY DEF EndpointRevokes
<1>2. t \in DOMAIN tokens /\ tokens[t] \in Token /\ provider \in Provider /\ tokens \in Seq(Token)
  BY <1>1 DEF IInv, TypeOK
<1>3. r \in Revoking!Reply
  BY <1>2, RepliesAreReplies
<1> HIDE DEF r
<1>4. Kept
  <2>1. CASE tokens' = Swept(tokens[t].epoch)
    BY <1>2, <2>1, SweptIsKept
  <2>2. CASE tokens' = [tokens EXCEPT ![t].status = "gone"]
    <3> DEFINE u == [tokens[t] EXCEPT !.status = "gone"]
    <3>1. u \in Token /\ u.epoch = tokens[t].epoch /\ u.asked = tokens[t].asked
          /\ u.scopes = tokens[t].scopes
      BY <1>2 DEF Token
    <3>2. tokens' = [tokens EXCEPT ![t] = u]
      BY <2>2
    <3> HIDE DEF u
    <3>3. QED  BY <1>1, <1>2, <3>1, <3>2, ChangedIsKept
  <2>3. QED  BY <1>1, <2>1, <2>2
<1>5. /\ \A v \in DOMAIN tokens : tokens'[v].confirmed = tokens[v].confirmed
      /\ tokens'[t].status = "gone"
  <2>1. CASE tokens' = Swept(tokens[t].epoch)
    BY <1>1, <1>2, <2>1, SweptIsKept
  <2>2. CASE tokens' = [tokens EXCEPT ![t].status = "gone"]
    BY <1>2, <2>2 DEF Token
  <2>3. QED  BY <1>1, <2>1, <2>2
<1>6. portal' \in {portal, Absent} /\ (Fully => portal' = Absent)
  BY <1>1, <1>2, FullyDropsGrants
<1>7. TypeOK'
  BY <1>1, <1>3, <1>4, <1>6, AnswerTypes DEF IInv, TypeOK, Kept, CallRecord, Revoking!Reply
<1>8. EpochInv' /\ GoneInv' /\ ConfirmedInv'
  BY <1>1, <1>4, <1>5, <1>6, KeptStep
<1>9. AnswerInv'
  <2>1. \A v \in Worker : calls'[v] = calls[v] \/ calls'[v].token = t
    BY <1>1, <1>3, AnswerTypes
  <2>2. QED  BY <1>1, <1>2, <1>4, <1>5, <2>1, AnswerStep
<1>10. QED  BY <1>4, <1>5, <1>7, <1>8, <1>9 DEF IInv

LEMMA EndpointDoesNotKnowStep ==
    ASSUME IInv, NEW w \in Worker, EndpointDoesNotKnow(w)
    PROVE  IInv'
<1>1. provider \in Provider /\ calls[w].status = "sent" /\ UNCHANGED <<provider, portal, tokens>>
      /\ tokens[calls[w].token].status # "live"
  BY DEF IInv, TypeOK, EndpointDoesNotKnow
<1>2. PICK r \in Revoking!Unknown : Answer(w, r)
  BY DEF EndpointDoesNotKnow
<1>3. r \in Revoking!Reply
  BY <1>1, RepliesAreReplies
<1>4. QED  BY <1>1, <1>2, <1>3, AnswerTypes, CallStep

LEMMA EndpointFailsStep ==
    ASSUME IInv, NEW w \in Worker, EndpointFails(w)
    PROVE  IInv'
<1>1. provider \in Provider /\ calls[w].status = "sent" /\ UNCHANGED <<provider, portal, tokens>>
  BY DEF IInv, TypeOK, EndpointFails
<1>2. PICK r \in Revoking!Trouble \cup {"no_connection"} : Answer(w, r)
  BY DEF EndpointFails
<1>3. r \in Revoking!Reply
  BY <1>1, RepliesAreReplies
<1>4. Fully => Revoking!Outcome(r) # "True"
  BY <1>1, FailuresDoNotConfirm
<1>5. QED  BY <1>1, <1>2, <1>3, <1>4, AnswerTypes, CallStep

LEMMA ReturnConfirmedStep ==
    ASSUME IInv, NEW w \in Worker, ReturnConfirmed(w)
    PROVE  /\ IInv' /\ Kept /\ UNCHANGED <<provider, portal>>
           /\ calls[w].token \in DOMAIN tokens
           /\ \A v \in DOMAIN tokens :
                 /\ tokens'[v].confirmed <=> tokens[v].confirmed \/ v = calls[w].token
                 /\ tokens'[v].status = tokens[v].status
<1> DEFINE t == calls[w].token
           u == [tokens[t] EXCEPT !.confirmed = TRUE]
<1>1. t \in DOMAIN tokens /\ tokens[t] \in Token /\ provider \in Provider /\ tokens \in Seq(Token)
  BY DEF IInv, TypeOK, ReturnConfirmed
<1>2. /\ u \in Token /\ u.epoch = tokens[t].epoch /\ u.asked = tokens[t].asked
      /\ u.scopes = tokens[t].scopes /\ u.status = tokens[t].status /\ u.confirmed
  BY <1>1 DEF Token
<1>3. tokens' = [tokens EXCEPT ![t] = u] /\ UNCHANGED <<provider, portal>>
  BY DEF ReturnConfirmed
<1> HIDE DEF u
<1>4. Kept
  BY <1>1, <1>2, <1>3, ChangedIsKept
<1>5. \A v \in DOMAIN tokens :
        /\ tokens'[v].confirmed <=> tokens[v].confirmed \/ v = t
        /\ tokens'[v].status = tokens[v].status
  BY <1>1, <1>2, <1>3
<1>6. Fully => tokens[t].status # "live"
  BY DEF IInv, AnswerInv, ReturnConfirmed
<1>7. calls' = [calls EXCEPT ![w] = Idle] /\ Idle \in CallRecord /\ Idle.status = "idle"
  BY DEF ReturnConfirmed, Idle, CallRecord
<1>8. TypeOK'
  BY <1>3, <1>4, <1>7 DEF IInv, TypeOK, Kept, CallRecord, Revoking!Reply
<1>9. EpochInv' /\ GoneInv' /\ ConfirmedInv'
  BY <1>3, <1>4, <1>5, <1>6, KeptStep
<1>10. AnswerInv'
  BY <1>3, <1>4, <1>7, AnswerStep DEF IInv, TypeOK
<1>11. QED  BY <1>1, <1>3, <1>4, <1>5, <1>8, <1>9, <1>10 DEF IInv

\* Failing, asking again, giving up.
LEMMA FailedStep ==
    ASSUME IInv, NEW w \in Worker, ReturnFailed(w) \/ Retry(w) \/ GiveUp(w)
    PROVE  IInv'
<1>1. UNCHANGED <<provider, portal, tokens>>
  BY DEF ReturnFailed, Retry, GiveUp
<1>2. Idle \in CallRecord /\ Idle.status = "idle"
  BY DEF Idle, CallRecord
<1>3. calls' \in [Worker -> CallRecord]
  BY <1>2 DEF ReturnFailed, Retry, GiveUp, IInv, TypeOK, CallRecord
<1>4. \A v \in Worker : calls'[v].status # "idle" =>
        calls[v].status # "idle" /\ calls'[v].token = calls[v].token
  BY <1>2 DEF ReturnFailed, Retry, GiveUp, IInv, TypeOK, CallRecord
<1>5. \A v \in Worker : calls'[v].status = "answered" => calls'[v] = calls[v]
  BY <1>2 DEF ReturnFailed, Retry, GiveUp, IInv, TypeOK, CallRecord
<1>6. QED  BY <1>1, <1>3, <1>4, <1>5, CallStep DEF IInv, TypeOK

LEMMA LapseStep ==
    ASSUME IInv, NEW t \in DOMAIN tokens, Lapse(t)
    PROVE  /\ IInv' /\ Kept /\ tokens[t].status = "live"
           /\ \A v \in DOMAIN tokens :
                 /\ tokens'[v].confirmed = tokens[v].confirmed
                 /\ v # t => tokens'[v].status = tokens[v].status
<1> DEFINE u == [tokens[t] EXCEPT !.status = "lapsed"]
<1>1. tokens[t] \in Token /\ tokens \in Seq(Token) /\ tokens[t].status = "live"
  BY DEF IInv, TypeOK, Lapse
<1>2. /\ u \in Token /\ u.epoch = tokens[t].epoch /\ u.asked = tokens[t].asked
      /\ u.scopes = tokens[t].scopes /\ u.status = "lapsed"
      /\ u.confirmed = tokens[t].confirmed
  BY <1>1 DEF Token
<1>3. tokens' = [tokens EXCEPT ![t] = u] /\ UNCHANGED <<provider, portal, calls>>
  BY DEF Lapse
<1> HIDE DEF u
<1>4. Kept
  BY <1>1, <1>2, <1>3, ChangedIsKept
<1>5. \A v \in DOMAIN tokens :
        /\ tokens'[v].confirmed = tokens[v].confirmed
        /\ v # t => tokens'[v].status = tokens[v].status
        /\ tokens'[v].status = "gone" => tokens[v].status = "gone"
  BY <1>1, <1>2, <1>3
<1>6. TypeOK'
  BY <1>3, <1>4 DEF IInv, TypeOK, Kept, CallRecord, Revoking!Reply
<1>7. EpochInv' /\ GoneInv' /\ ConfirmedInv'
  BY <1>3, <1>4, <1>5, KeptStep
<1>8. AnswerInv'
  BY <1>3, <1>4, AnswerStep
<1>9. QED  BY <1>1, <1>4, <1>5, <1>6, <1>7, <1>8 DEF IInv

LEMMA UserRemovesStep ==
    ASSUME IInv, UserRemoves
    PROVE  IInv' /\ Kept /\ \A t \in DOMAIN tokens : tokens'[t].confirmed = tokens[t].confirmed
<1>1. /\ tokens \in Seq(Token) /\ portal' = Absent /\ tokens' = Swept(portal.epoch)
      /\ UNCHANGED <<provider, calls>>
  BY DEF IInv, TypeOK, UserRemoves
<1>2. Kept
  BY <1>1, SweptIsKept
<1>3. \A t \in DOMAIN tokens : tokens'[t].confirmed = tokens[t].confirmed
  BY <1>1, SweptIsKept
<1>4. TypeOK'
  BY <1>1, <1>2 DEF IInv, TypeOK, Kept, CallRecord, Revoking!Reply
<1>5. EpochInv' /\ GoneInv' /\ ConfirmedInv'
  BY <1>1, <1>2, <1>3, KeptStep
<1>6. AnswerInv'
  BY <1>1, <1>2, AnswerStep
<1>7. QED  BY <1>2, <1>3, <1>4, <1>5, <1>6 DEF IInv

------------------------------------------------------------------------------
LEMMA IInvInit == Init => IInv
BY ReductionAssumption DEF Init, IInv, TypeOK, Idle, CallRecord, EpochInv, GoneInv,
   ConfirmedInv, AnswerInv

LEMMA IInvStep == IInv /\ [Next]_vars => IInv'
<1> SUFFICES ASSUME IInv, [Next]_vars
             PROVE  IInv'
  OBVIOUS
<1>1. ASSUME NEW asked \in SUBSET Scope, Connect(asked)  PROVE IInv'
  BY <1>1, ConnectStep
<1>2. ASSUME NEW w \in Worker, Revoke(w)  PROVE IInv'
  BY <1>2, RevokeStep
<1>3. ASSUME NEW w \in Worker, NEW d \in BOOLEAN, EndpointRevokes(w, d)  PROVE IInv'
  BY <1>3, EndpointRevokesStep
<1>4. ASSUME NEW w \in Worker, EndpointDoesNotKnow(w)  PROVE IInv'
  BY <1>4, EndpointDoesNotKnowStep
<1>5. ASSUME NEW w \in Worker, EndpointFails(w)  PROVE IInv'
  BY <1>5, EndpointFailsStep
<1>6. ASSUME NEW w \in Worker, ReturnConfirmed(w)  PROVE IInv'
  BY <1>6, ReturnConfirmedStep
<1>7. ASSUME NEW w \in Worker, ReturnFailed(w) \/ Retry(w) \/ GiveUp(w)  PROVE IInv'
  BY <1>7, FailedStep
<1>8. ASSUME NEW t \in DOMAIN tokens, Lapse(t)  PROVE IInv'
  BY <1>8, LapseStep
<1>9. CASE UserRemoves
  BY <1>9, UserRemovesStep
<1>10. CASE UNCHANGED vars
  <2>1. calls' \in [Worker -> CallRecord]
    BY <1>10 DEF vars, IInv, TypeOK
  <2>2. QED  BY <1>10, <2>1, CallStep DEF vars, IInv, TypeOK
<1>11. QED
  BY <1>1, <1>2, <1>3, <1>4, <1>5, <1>6, <1>7, <1>8, <1>9, <1>10 DEF Next

LEMMA ReductionInvariant == Spec => []IInv
BY IInvInit, IInvStep, PTL DEF Spec

\* The state is typed for any number of scopes, workers and connections.
THEOREM ReductionTypeOK == Spec => []TypeOK
<1>1. IInv => TypeOK
  BY DEF IInv
<1>2. QED  BY <1>1, ReductionInvariant, PTL

LEMMA ConfirmedHasEnded == IInv => ConfirmedEndsItsGrant
<1> SUFFICES ASSUME IInv, NEW t \in DOMAIN tokens, tokens[t].confirmed, Fully,
                    tokens[t].status # "lapsed"
             PROVE  GrantEnded(t)
  BY DEF ConfirmedEndsItsGrant, Fully
<1>1. tokens[t].status \in {"live", "lapsed", "gone"}
  <2>1. tokens[t] \in Token
    BY DEF IInv, TypeOK
  <2>2. QED  BY <2>1 DEF Token
<1>2. tokens[t].status = "gone"
  BY <1>1 DEF IInv, ConfirmedInv
<1>3. QED  BY <1>2 DEF IInv, GoneInv

\* Where disconnect_fully_revokes is set, a confirmed revocation of a token
\* that had not run out has ended the grant the token was issued under.
THEOREM ReductionConfirmedEndsItsGrant == Spec => []ConfirmedEndsItsGrant
BY ConfirmedHasEnded, ReductionInvariant, PTL

------------------------------------------------------------------------------
\* The abstract state, on a step that makes no connection.
LEMMA KeptStored ==
    ASSUME IInv, Kept, UNCHANGED provider
    PROVE  /\ UNCHANGED <<Asked, Held>>
           /\ tokens' = <<>> <=> tokens = <<>>
           /\ tokens # <<>> => /\ Len(tokens) \in DOMAIN tokens
                              /\ Stored' = tokens'[Len(tokens)]
<1>1. Len(tokens') = Len(tokens) /\ tokens \in Seq(Token) /\ tokens' \in Seq(Token)
  BY DEF Kept, IInv, TypeOK
<1>2. tokens' = <<>> <=> tokens = <<>>
  BY <1>1
<1>3. tokens # <<>> => Len(tokens) \in DOMAIN tokens
  BY <1>1
<1>4. tokens # <<>> => Stored' = tokens'[Len(tokens)]
  BY <1>1 DEF Stored
<1>5. UNCHANGED <<Asked, Held>>
  BY <1>2, <1>3, <1>4 DEF Asked, Held, Stored, Kept
<1>6. QED  BY <1>2, <1>3, <1>4, <1>5

\* A step that confirms nothing and lets no confirmed token lapse owes what
\* was owed.
LEMMA KeptStutters ==
    ASSUME IInv, Kept, UNCHANGED provider,
           \A t \in DOMAIN tokens : tokens'[t].confirmed = tokens[t].confirmed,
           \A t \in DOMAIN tokens :
              tokens[t].confirmed /\ Fully =>
                 (tokens'[t].status = "lapsed" <=> tokens[t].status = "lapsed")
    PROVE  UNCHANGED <<Owed, Asked, Held>>
<1>1. Fully' = Fully
  BY PresetStays
<1>2. Owed' = Owed
  BY <1>1, KeptStored DEF Owed, Fully, Stored
<1>3. QED  BY <1>2, KeptStored

LEMMA ConnectRefines ==
    ASSUME IInv, NEW asked \in SUBSET Scope, Connect(asked)
    PROVE  Tiers!Connect
<1> DEFINE requested == Requested(provider, asked)
           grant == IF portal = Absent THEN [epoch |-> Len(tokens) + 1, scopes |-> requested]
                    ELSE [portal EXCEPT !.scopes = @ \cup requested]
           token == [epoch |-> grant.epoch, status |-> "live", asked |-> requested,
                     scopes |-> grant.scopes, confirmed |-> FALSE]
<1>1. requested \in SUBSET Scope
  BY ReductionAssumption DEF Requested
<1>2. /\ grant.scopes \in SUBSET Scope
      /\ requested \subseteq grant.scopes
      /\ portal = Absent => grant.scopes = requested
  BY <1>1 DEF IInv, TypeOK
<1>3. /\ tokens' = Append(tokens, token)
      /\ token.asked = requested /\ token.scopes = grant.scopes /\ ~ token.confirmed
      /\ tokens \in Seq(Token)
  BY DEF Connect, IInv, TypeOK
<1> HIDE DEF requested, grant, token
<1>4. tokens' # <<>> /\ Stored' = token
  BY <1>3 DEF Stored
<1>5. Asked' = requested /\ Held' = grant.scopes /\ Owed' = FALSE
  BY <1>3, <1>4 DEF Asked, Held, Owed
<1>6. Owed => portal = Absent
  <2> SUFFICES ASSUME Owed PROVE portal = Absent
    OBVIOUS
  <2>1. Len(tokens) \in DOMAIN tokens
    BY <1>3 DEF Owed
  <2>2. GrantEnded(Len(tokens))
    BY <2>1, ConfirmedHasEnded DEF Owed, Stored, ConfirmedEndsItsGrant
  <2>3. QED  BY <2>2 DEF Owed, GrantEnded, IInv, EpochInv
<1>7. QED  BY <1>1, <1>2, <1>5, <1>6 DEF Tiers!Connect

LEMMA ReturnConfirmedRefines ==
    ASSUME IInv, NEW w \in Worker, ReturnConfirmed(w)
    PROVE  Tiers!Confirm \/ UNCHANGED <<Owed, Asked, Held>>
<1>1. /\ Kept /\ UNCHANGED <<provider, portal>>
      /\ \A v \in DOMAIN tokens :
            /\ tokens[v].confirmed => tokens'[v].confirmed
            /\ tokens'[v].status = tokens[v].status
  BY ReturnConfirmedStep
<1>2. UNCHANGED <<Asked, Held>> /\ Fully' = Fully
  BY <1>1, KeptStored, PresetStays
<1>3. Owed => Owed'
  BY <1>1, <1>2, KeptStored DEF Owed, Fully, Stored
<1>4. Owed \in BOOLEAN /\ Owed' \in BOOLEAN
  BY DEF Owed
<1>5. QED  BY <1>2, <1>3, <1>4 DEF Tiers!Confirm

LEMMA StepRefines ==
    IInv /\ [Next]_vars => [Tiers!Connect \/ Tiers!Confirm]_<<Owed, Asked, Held>>
<1> SUFFICES ASSUME IInv, [Next]_vars
             PROVE  Tiers!Connect \/ Tiers!Confirm \/ UNCHANGED <<Owed, Asked, Held>>
  OBVIOUS
<1>1. ASSUME NEW asked \in SUBSET Scope, Connect(asked)  PROVE Tiers!Connect
  BY <1>1, ConnectRefines
<1>2. ASSUME NEW w \in Worker, ReturnConfirmed(w)
      PROVE  Tiers!Confirm \/ UNCHANGED <<Owed, Asked, Held>>
  BY <1>2, ReturnConfirmedRefines
<1>3. ASSUME NEW w \in Worker, NEW d \in BOOLEAN, EndpointRevokes(w, d)
      PROVE  UNCHANGED <<Owed, Asked, Held>>
  <2>1. UNCHANGED provider
    BY <1>3 DEF EndpointRevokes
  <2>2. QED  BY <1>3, <2>1, EndpointRevokesStep, KeptStutters DEF IInv, ConfirmedInv, Kept
<1>4. CASE UserRemoves
  <2>1. UNCHANGED provider
    BY <1>4 DEF UserRemoves
  <2>2. QED  BY <1>4, <2>1, UserRemovesStep, KeptStutters DEF IInv, ConfirmedInv, Kept
<1>5. ASSUME NEW t \in DOMAIN tokens, Lapse(t)  PROVE UNCHANGED <<Owed, Asked, Held>>
  <2>1. UNCHANGED provider
    BY <1>5 DEF Lapse
  <2>2. QED  BY <1>5, <2>1, LapseStep, KeptStutters DEF IInv, ConfirmedInv
<1>6. ASSUME UNCHANGED <<provider, tokens>>  PROVE UNCHANGED <<Owed, Asked, Held>>
  BY <1>6, PresetStays DEF Owed, Asked, Held, Stored
<1>7. ASSUME NEW w \in Worker,
             \/ Revoke(w) \/ EndpointDoesNotKnow(w) \/ EndpointFails(w)
             \/ ReturnFailed(w) \/ Retry(w) \/ GiveUp(w)
      PROVE  UNCHANGED <<provider, tokens>>
  BY <1>7 DEF Revoke, EndpointDoesNotKnow, EndpointFails, ReturnFailed, Retry, GiveUp
<1>8. CASE UNCHANGED vars
  BY <1>6, <1>8 DEF vars
<1>9. QED
  BY <1>1, <1>2, <1>3, <1>4, <1>5, <1>6, <1>7, <1>8 DEF Next

\* However revocations, their repetitions, lapses and reconnections interleave,
\* the application gets what disconnect_fully_revokes promises it.
THEOREM ReductionRefinesTiers == Spec => ReductionTakesEffect
<1>1. Init => Tiers!Init
  BY DEF Init, Tiers!Init, Owed, Asked, Held
<1>2. QED
  BY <1>1, StepRefines, ReductionInvariant, PTL DEF Spec, ReductionTakesEffect, Tiers!Spec
=============================================================================
