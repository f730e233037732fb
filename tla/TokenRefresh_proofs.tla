------------------------ MODULE TokenRefresh_proofs ------------------------
(***************************************************************************)
(* Proofs about TokenRefresh for every number of workers and rotations,    *)
(* every provider and every kind of noise.                                 *)
(***************************************************************************)
EXTENDS TokenRefresh, TLAPS

\* Only a code of the permanent set reads as permanent, and it always does
\* unless the answer carries tokens.
LEMMA PermanentOnlyByCode ==
    ASSUME NEW r, RefreshOutcome(r) = "PermanentOAuthError"
    PROVE  RequestErrorCode(r) \in Permanent
BY DEF RefreshOutcome, ParseOutcome

\* Neither a lost connection nor a proxy's page, a 5xx status or a malformed
\* body makes the application delete its token: only a permanent code does.
THEOREM RefreshNoiseDeletesNothing == Spec => []NoiseDeletesNothing
<1>1. Init => NoiseDeletesNothing
  BY DEF Init, NoiseDeletesNothing, Deleted
<1>2. NoiseDeletesNothing /\ [Next]_vars => NoiseDeletesNothing'
  <2> SUFFICES ASSUME NoiseDeletesNothing, [Next]_vars
               PROVE  NoiseDeletesNothing'
    OBVIOUS
  <2>1. ASSUME NEW w \in Worker, Ends(w)
        PROVE  NoiseDeletesNothing'
    <3>1. CASE ReturnsTokens(w)
      BY <3>1 DEF ReturnsTokens, Returned, Adopt, NoiseDeletesNothing, Deleted, Omitted
    <3>2. CASE RaisesPermanent(w)
      <4>1. RequestErrorCode(calls[w].reply) \in Permanent
        BY <3>2, PermanentOnlyByCode DEF RaisesPermanent, Returned
      <4> QED
        BY <3>2, <4>1 DEF RaisesPermanent, Returned, NoiseDeletesNothing
    <3>3. CASE RaisesOther(w)
      BY <3>3 DEF RaisesOther, Returned, NoiseDeletesNothing
    <3> QED
      BY <2>1, <3>1, <3>2, <3>3 DEF Ends
  <2>2. CASE UNCHANGED vars
    BY <2>2 DEF vars, NoiseDeletesNothing
  <2>3. ASSUME NEW w \in Worker, Refresh(w) \/ Issue(w) \/ Refuse(w) \/ Disturb(w)
        PROVE  NoiseDeletesNothing'
    BY <2>3 DEF Refresh, Issue, Refuse, Disturb, NoiseDeletesNothing
  <2>4. CASE UserRevokes \/ ClientChanges
    BY <2>4 DEF UserRevokes, ClientChanges, NoiseDeletesNothing
  <2> QED
    BY <2>1, <2>2, <2>3, <2>4 DEF Next
<1> QED
  BY <1>1, <1>2, PTL DEF Spec

------------------------------------------------------------------------------
\* What an answer leaves in the call it answers.
LEMMA AnswerEffect ==
    ASSUME TypeOK, NEW w \in Worker, NEW r \in Reply,
           NEW f \in RefreshToken \cup {Omitted}, Answer(w, r, f)
    PROVE  /\ calls' \in [Worker -> CallRecord]
           /\ calls'[w].sent = calls[w].sent /\ calls'[w].refresh = f
           /\ calls'[w].reply = r
           /\ \A v \in Worker \ {w} : calls'[v] = calls[v]
<1> DEFINE rec == [calls[w] EXCEPT !.pc = "answered", !.reply = r, !.refresh = f]
<1>1. calls[w] \in CallRecord
  BY DEF TypeOK
<1>2. /\ rec \in CallRecord /\ rec.sent = calls[w].sent /\ rec.refresh = f
      /\ rec.reply = r
  BY <1>1 DEF CallRecord
<1>3. calls' = [calls EXCEPT ![w] = rec]
  BY DEF Answer, TypeOK
<1> HIDE DEF rec
<1> QED
  BY <1>2, <1>3 DEF TypeOK

\* The answers of the provider can be read.
LEMMA AnswersTyped ==
    /\ \A t \in Token : TokenReply(t) \in Reply
    /\ NoAnswer \in Reply
    /\ \A e \in Permanent, s \in ErrorStatus :
          /\ [ErrorReply(e) EXCEPT !.status = s] \in Reply
          /\ RequestErrorCode([ErrorReply(e) EXCEPT !.status = s]) = e
<1>1. ASSUME NEW t \in Token PROVE TokenReply(t) \in Reply
  BY DEF TokenReply, Reply
<1>2. NoAnswer \in Reply
  BY DEF NoAnswer, Reply
<1>3. ASSUME NEW e \in Permanent, NEW s \in ErrorStatus
      PROVE  /\ [ErrorReply(e) EXCEPT !.status = s] \in Reply
             /\ RequestErrorCode([ErrorReply(e) EXCEPT !.status = s]) = e
  <2>1. e \in ErrorCode /\ s \in {"below_500", "5xx"}
    BY RefreshAssumption
  <2> QED
    BY <2>1 DEF ErrorReply, Reply, RequestErrorCode, ErrorCodeOf
<1> QED
  BY <1>1, <1>2, <1>3

LEMMA RefreshInit == Init => RefreshInv
<1> SUFFICES ASSUME Init PROVE RefreshInv
  OBVIOUS
<1>1. IdleCall \in CallRecord /\ IdleCall.pc = "idle" /\ IdleCall.sent = -1
      /\ IdleCall.refresh = -1
  BY AnswersTyped DEF IdleCall, CallRecord, Deleted, Omitted
<1>2. TypeOK
  <2>1. told \in BOOLEAN
    BY Zenon DEF Init
  <2>2. 0 \in RefreshToken
    BY RefreshAssumption DEF RefreshToken
  <2> QED
    BY <1>1, <2>1, <2>2 DEF Init, TypeOK
<1> HIDE DEF IdleCall
<1>3. NoneFromTheFuture /\ VerdictStands
  BY <1>1 DEF Init, NoneFromTheFuture, VerdictStands
<1> QED
  BY <1>2, <1>3 DEF RefreshInv

\* A provider issues tokens in order.
LEMMA IssueStep == ASSUME RefreshInv, NEW w \in Worker, Issue(w) PROVE RefreshInv'
<1> USE DEF RefreshInv
<1>1. PICK how \in Provider, t \in Token :
        /\ how = "rotate" => valid < MaxRotations
        /\ valid' = IF how = "rotate" THEN valid + 1 ELSE valid
        /\ Answer(w, TokenReply(t), IF how = "omit" THEN Omitted ELSE valid')
  BY DEF Issue
<1>2. valid \in Nat /\ valid' \in RefreshToken /\ valid' >= valid
  BY <1>1, RefreshAssumption DEF TypeOK, RefreshToken
<1> DEFINE f == IF how = "omit" THEN Omitted ELSE valid'
<1>3. f \in RefreshToken \cup {Omitted} /\ f <= valid'
  BY <1>2 DEF Omitted, RefreshToken
<1>4. TokenReply(t) \in Reply /\ Answer(w, TokenReply(t), f)
  BY <1>1, AnswersTyped
<1> HIDE DEF f
<1>5. /\ calls' \in [Worker -> CallRecord]
      /\ calls'[w].sent = calls[w].sent /\ calls'[w].refresh = f
      /\ calls'[w].reply = TokenReply(t)
      /\ \A v \in Worker \ {w} : calls'[v] = calls[v]
  BY <1>3, <1>4, AnswerEffect
<1>6. /\ held \in Int /\ \A v \in Worker : calls[v].sent \in Int /\ calls[v].refresh \in Int
  BY DEF TypeOK, CallRecord, RefreshToken, Deleted, Omitted
<1>7. TypeOK'
  BY <1>2, <1>5 DEF Issue, TypeOK
<1>8. NoneFromTheFuture'
  BY <1>2, <1>3, <1>5, <1>6 DEF Issue, NoneFromTheFuture
<1>9. RequestErrorCode(TokenReply(t)) \notin Permanent
  BY EndpointAssumption DEF RequestErrorCode, ErrorCodeOf, TokenReply, Permanent
<1>10. VerdictStands'
  <2> SUFFICES ASSUME NEW v \in Worker, calls'[v].pc = "answered",
                      RequestErrorCode(calls'[v].reply) \in Permanent
               PROVE  \/ grant' = "revoked" \/ calls'[v].sent # valid'
                      \/ NotAboutToken(calls'[v].reply)
    BY DEF VerdictStands
  <2>1. v # w /\ calls'[v] = calls[v]
    BY <1>5, <1>9
  <2> QED
    BY <1>2, <1>6, <2>1 DEF Issue, VerdictStands, NoneFromTheFuture
<1> QED
  BY <1>7, <1>8, <1>10

\* Numbers of tokens are integers.
LEMMA TokensAreNumbers ==
    ASSUME TypeOK
    PROVE  /\ held \in Int /\ valid \in Int
           /\ \A v \in Worker : calls[v].sent \in Int /\ calls[v].refresh \in Int
BY RefreshAssumption DEF TypeOK, CallRecord, RefreshToken, Deleted, Omitted

\* A refusal tells the truth, and noise says nothing.
LEMMA RefuseStep ==
    ASSUME RefreshInv, NEW w \in Worker, Refuse(w) \/ Disturb(w)
    PROVE  RefreshInv'
<1> USE DEF RefreshInv
<1>1. PICK r \in Reply :
        /\ Answer(w, r, Omitted)
        /\ RequestErrorCode(r) \in Permanent =>
              \/ grant = "revoked" \/ calls[w].sent # valid
              \/ NotAboutToken(r)
  <2>1. CASE Refuse(w)
    <3>1. PICK e \in Permanent, s \in ErrorStatus :
            /\ Answer(w, [ErrorReply(e) EXCEPT !.status = s], Omitted)
            /\ e = "invalid_grant" => grant = "revoked" \/ calls[w].sent # valid
      BY <2>1 DEF Refuse
    <3> QED
      BY <3>1, AnswersTyped DEF NotAboutToken
  <2>2. CASE Disturb(w)
    BY <2>2, RefreshAssumption DEF Disturb
  <2> QED
    BY <2>1, <2>2
<1>2. /\ calls' \in [Worker -> CallRecord]
      /\ calls'[w].sent = calls[w].sent /\ calls'[w].refresh = Omitted
      /\ calls'[w].reply = r
      /\ \A v \in Worker \ {w} : calls'[v] = calls[v]
  BY <1>1, AnswerEffect
<1>3. UNCHANGED <<held, valid, grant, client, told>>
  BY DEF Refuse, Disturb
<1>4. TypeOK'
  BY <1>2, <1>3 DEF TypeOK
<1>5. NoneFromTheFuture'
  BY <1>2, <1>3, TokensAreNumbers, RefreshAssumption
     DEF NoneFromTheFuture, Omitted, TypeOK, RefreshToken
<1>6. VerdictStands'
  BY <1>1, <1>2, <1>3 DEF VerdictStands
<1> QED
  BY <1>4, <1>5, <1>6

LEMMA SendStep == ASSUME RefreshInv, NEW w \in Worker, Refresh(w) PROVE RefreshInv'
<1> USE DEF RefreshInv
<1> DEFINE rec == [IdleCall EXCEPT !.pc = "requested", !.sent = held]
<1>1. held \in RefreshToken \cup {Deleted}
  BY DEF TypeOK
<1>2. /\ rec \in CallRecord /\ rec.pc = "requested" /\ rec.sent = held
      /\ rec.refresh = Omitted
  BY <1>1, AnswersTyped DEF IdleCall, CallRecord
<1>3. calls' = [calls EXCEPT ![w] = rec] /\ UNCHANGED <<held, valid, grant, client, told>>
  BY DEF Refresh
<1> HIDE DEF rec
<1>4. /\ calls' \in [Worker -> CallRecord] /\ calls'[w] = rec
      /\ \A v \in Worker \ {w} : calls'[v] = calls[v]
  BY <1>2, <1>3 DEF TypeOK
<1>5. TypeOK'
  BY <1>3, <1>4 DEF TypeOK
<1>6. NoneFromTheFuture'
  BY <1>2, <1>3, <1>4, TokensAreNumbers, RefreshAssumption
     DEF NoneFromTheFuture, Omitted, TypeOK, RefreshToken
<1>7. VerdictStands'
  BY <1>2, <1>3, <1>4 DEF VerdictStands
<1> QED
  BY <1>5, <1>6, <1>7

\* A call ends, and the application stores or deletes.
LEMMA EndStep == ASSUME RefreshInv, NEW w \in Worker, Ends(w) PROVE RefreshInv'
<1> USE DEF RefreshInv
<1>1. PICK o \in Outcome : Returned(w, o)
  BY DEF Ends, ReturnsTokens, RaisesPermanent, RaisesOther, Outcome
<1> DEFINE rec == [IdleCall EXCEPT !.sent = calls[w].sent, !.outcome = o]
<1>2. calls[w] \in CallRecord
  BY DEF TypeOK
<1>3. /\ rec \in CallRecord /\ rec.pc = "idle" /\ rec.sent = calls[w].sent
      /\ rec.refresh = Omitted
  BY <1>2, AnswersTyped DEF IdleCall, CallRecord
<1>4. calls' = [calls EXCEPT ![w] = rec] /\ UNCHANGED <<valid, grant, client>>
  BY <1>1 DEF Returned
<1> HIDE DEF rec
<1>5. /\ calls' \in [Worker -> CallRecord] /\ calls'[w] = rec
      /\ \A v \in Worker \ {w} : calls'[v] = calls[v]
  BY <1>3, <1>4 DEF TypeOK
<1>6. held' \in RefreshToken \cup {Deleted} /\ held' <= valid
  <2>1. \/ held' \in {held, Deleted}
        \/ held' = calls[w].refresh /\ held' # Omitted
    BY DEF Ends, ReturnsTokens, RaisesPermanent, RaisesOther, Adopt
  <2>2. /\ held \in RefreshToken \cup {Deleted} /\ valid \in RefreshToken
        /\ calls[w].refresh \in RefreshToken \cup {Omitted}
        /\ held <= valid /\ calls[w].refresh <= valid
    BY <1>2 DEF TypeOK, CallRecord, NoneFromTheFuture
  <2> QED
    BY <2>1, <2>2, RefreshAssumption DEF RefreshToken, Deleted, Omitted
<1>7. told' \in BOOLEAN
  BY <1>1, Zenon DEF Returned
<1>8. TypeOK'
  BY <1>4, <1>5, <1>6, <1>7 DEF TypeOK
<1>9. NoneFromTheFuture'
  BY <1>3, <1>4, <1>5, <1>6, TokensAreNumbers, RefreshAssumption
     DEF NoneFromTheFuture, Omitted, TypeOK, RefreshToken
<1>10. VerdictStands'
  BY <1>3, <1>4, <1>5 DEF VerdictStands
<1> QED
  BY <1>8, <1>9, <1>10

LEMMA RefreshStep == RefreshInv /\ [Next]_vars => RefreshInv'
<1> SUFFICES ASSUME RefreshInv, [Next]_vars PROVE RefreshInv'
  OBVIOUS
<1>1. CASE UserRevokes \/ ClientChanges \/ UNCHANGED vars
  BY <1>1 DEF UserRevokes, ClientChanges, vars, RefreshInv, TypeOK, NoneFromTheFuture,
              VerdictStands
<1> QED
  BY <1>1, IssueStep, RefuseStep, SendStep, EndStep DEF Next

\* The invariant holds for any number of workers and rotations.
THEOREM RefreshInvariant == Spec => []RefreshInv
BY RefreshInit, RefreshStep, PTL DEF Spec

\* Whatever is lost or answered in its place, a token the application deletes was
\* dead, but for a permanent code that is not about the token and for another
\* worker's rotation meanwhile.
THEOREM RefreshDeletesTheDead == Spec => DeletedOnlyIfDead
<1>1. RefreshInv /\ [Next]_vars =>
        [\A w \in Worker : RaisesPermanent(w) /\ held # Deleted =>
            \/ grant = "revoked"
            \/ held # valid
            \/ NotAboutToken(calls[w].reply)
            \/ calls[w].sent # valid /\ calls[w].sent # held]_vars
  <2> SUFFICES ASSUME RefreshInv, NEW w \in Worker, RaisesPermanent(w)
               PROVE  \/ grant = "revoked"
                      \/ held # valid
                      \/ NotAboutToken(calls[w].reply)
                      \/ calls[w].sent # valid /\ calls[w].sent # held
    OBVIOUS
  <2>1. calls[w].pc = "answered" /\ RequestErrorCode(calls[w].reply) \in Permanent
    BY PermanentOnlyByCode DEF RaisesPermanent, Returned
  <2> QED
    BY <2>1 DEF RefreshInv, VerdictStands
<1> QED
  BY <1>1, RefreshInvariant, PTL DEF Spec, DeletedOnlyIfDead
=============================================================================
