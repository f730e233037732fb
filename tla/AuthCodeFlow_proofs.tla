------------------------ MODULE AuthCodeFlow_proofs ------------------------
(***************************************************************************)
(* Proofs about the authorization-code flow for every number of logins,    *)
(* codes and concurrent calls, every configuration of the client and every *)
(* behaviour of the clock, the browsers and the servers.                   *)
(***************************************************************************)
EXTENDS AuthCodeFlow, TLAPS

------------------------------------------------------------------------------
(* Types.                                                                  *)

\* A call whose request is on the wire has the form it sent.
AskedHasForm == \A x \in Call : calls[x].wire = "request" => calls[x].form \in Form

\* With PKCE every pending state has its verifier.
PkceKept == \A f \in Flow :
    pending[f] # None /\ UsePkce => pending[f].payload.code_verifier # None

TypeInv == TypeOK /\ AskedHasForm /\ PkceKept

\* Whatever a browser delivers has the shape of a response.
LEMMA DeliveredTyped ==
    ASSUME TypeOK
    PROVE  Delivered \subseteq Response
BY DEF TypeOK, Delivered, Response

\* Saving a pending state keeps the store typed, files the state under its own
\* token, and leaves no other entry that was not there.
LEMMA SaveEffect ==
    ASSUME Store!StoreTypeOK, NEW p \in Store!Pending, Store!Save(p)
    PROVE  /\ Store!StoreTypeOK' /\ now' = now
           /\ states'[p.state] = p
           /\ \A f \in Flow \ {p.state} :
                 /\ states'[f] \in {None, states[f]}
                 /\ states'[f] = None => states[f] = None \/ Store!IsExpired(states[f], now)
<1>1. p.state \in Flow /\ p # None
  BY StoreConstants DEF Store!Pending
<1>2. \A f \in Flow : states'[f] = IF f = p.state THEN p ELSE Store!Prune[f]
  BY <1>1 DEF Store!Save, Store!Prune
<1>3. \A f \in Flow : Store!Prune[f] = IF states[f] # None /\ Store!IsExpired(states[f], now)
                                       THEN None ELSE states[f]
  BY DEF Store!Prune
<1>4. states' \in [Flow -> Store!Pending \cup {None}]
  BY <1>1, <1>3 DEF Store!Save, Store!StoreTypeOK, Store!Prune
<1> QED
  BY <1>1, <1>2, <1>3, <1>4 DEF Store!Save, Store!StoreTypeOK

\* Consuming removes the entry, whatever becomes of it, and no other.
LEMMA ConsumeEffect ==
    ASSUME Store!StoreTypeOK, NEW f \in Flow,
           Store!ConsumeMissing(f) \/ Store!ConsumeExpired(f) \/ Store!ConsumeGood(f)
    PROVE  /\ Store!StoreTypeOK' /\ now' = now
           /\ \A g \in Flow : states'[g] = IF g = f THEN None ELSE states[g]
BY DEF Store!StoreTypeOK, Store!ConsumeMissing, Store!ConsumeExpired, Store!ConsumeGood,
       Store!storeVars

\* The form sent for the code of r and the pending state p.
FormOf(r, p) == [code |-> r.code, redirect_uri |-> p.payload.redirect_uri,
                 code_verifier |-> p.payload.code_verifier, resource |-> Resource]

\* The two ways exchange_code files a call.
LEMMA SendEffect ==
    ASSUME TypeInv, NEW x \in Call, NEW r \in Response, NEW p \in Store!Pending,
           NEW consumed \in Flow \cup {None}, NEW context \in Flow \cup {None},
           Send(x, r, p, consumed, context)
    PROVE  /\ calls' \in [Call -> CallRecord] /\ AskedHasForm'
           /\ \A y \in Call \ {x} : calls'[y] = calls[y]
           /\ calls'[x].consumed = consumed /\ calls'[x].response = r
           /\ calls'[x].form = FormOf(r, p) /\ calls'[x].form.code = r.code
           /\ calls'[x].context = context
           /\ calls'[x].pc = "waiting" /\ calls'[x].wire = "request"
           /\ calls'[x].outcome = "none"
<1> DEFINE form == FormOf(r, p)
           rec == [IdleCall EXCEPT !.pc = "waiting", !.response = r, !.consumed = consumed,
                                   !.form = form, !.context = context, !.wire = "request"]
<1>1. form \in Form
  BY RequestAssumption DEF Form, FormOf, Response, Store!Pending, Payload
<1>1a. calls' = [calls EXCEPT ![x] = rec]
  BY DEF Send, FormOf
<1>1b. form.code = r.code
  BY DEF FormOf
<1> HIDE DEF form
<1>2. /\ rec \in CallRecord /\ rec.form = form /\ rec.consumed = consumed
      /\ rec.response = r /\ rec.pc = "waiting" /\ rec.context = context
      /\ rec.wire = "request" /\ rec.outcome = "none"
  BY <1>1 DEF CallRecord, IdleCall, Outcomes
<1>3. calls' = [calls EXCEPT ![x] = rec]
  BY <1>1a
<1> HIDE DEF rec
<1>4. calls' \in [Call -> CallRecord] /\ calls'[x] = rec
      /\ \A y \in Call \ {x} : calls'[y] = calls[y]
  BY <1>2, <1>3 DEF TypeInv, TypeOK
<1> QED
  BY <1>1, <1>1b, <1>2, <1>4 DEF AskedHasForm, TypeInv, form

LEMMA FinishEffect ==
    ASSUME TypeInv, NEW x \in Call, NEW r \in Response, NEW o \in Outcomes, Finish(x, r, o)
    PROVE  /\ calls' \in [Call -> CallRecord] /\ AskedHasForm'
           /\ \A y \in Call \ {x} : calls'[y] = calls[y]
           /\ calls'[x].consumed = None /\ calls'[x].form = None
           /\ calls'[x].pc = "done" /\ calls'[x].wire = "none"
           /\ calls'[x].response = r /\ calls'[x].outcome = o
<1> DEFINE rec == [IdleCall EXCEPT !.pc = "done", !.response = r, !.outcome = o]
<1>1. /\ rec \in CallRecord /\ rec.form = None /\ rec.consumed = None /\ rec.wire = "none"
      /\ rec.pc = "done" /\ rec.response = r /\ rec.outcome = o
  BY DEF CallRecord, IdleCall
<1>2. calls' = [calls EXCEPT ![x] = rec]
  BY DEF Finish
<1> HIDE DEF rec
<1> QED
  BY <1>1, <1>2 DEF AskedHasForm, TypeInv, TypeOK

\* What later happens to a call leaves its response, form, context and consumed
\* state.
Kept(x) == /\ calls'[x].consumed = calls[x].consumed
           /\ calls'[x].form = calls[x].form
           /\ calls'[x].response = calls[x].response
           /\ calls'[x].context = calls[x].context
           /\ calls'[x].pc = "idle" => calls[x].pc = "idle"

LEMMA AnswerEffect ==
    ASSUME TypeInv, NEW x \in Call, NEW a \in Endpoint!Reply,
           calls' = [calls EXCEPT ![x].wire = "answered", ![x].answer = a]
    PROVE  /\ calls' \in [Call -> CallRecord] /\ AskedHasForm' /\ \A y \in Call : Kept(y)
           /\ \A y \in Call \ {x} : calls'[y] = calls[y]
           /\ calls'[x].wire = "answered" /\ calls'[x].answer = a
           /\ calls'[x].pc = calls[x].pc /\ calls'[x].outcome = calls[x].outcome
<1>1. calls[x] \in CallRecord
  BY DEF TypeInv, TypeOK
<1> DEFINE rec == [calls[x] EXCEPT !.wire = "answered", !.answer = a]
<1>2. /\ rec \in CallRecord /\ rec.wire = "answered" /\ rec.form = calls[x].form
      /\ rec.consumed = calls[x].consumed /\ rec.response = calls[x].response
      /\ rec.pc = calls[x].pc /\ rec.context = calls[x].context
      /\ rec.outcome = calls[x].outcome /\ rec.answer = a
  BY <1>1 DEF CallRecord
<1>3. calls' = [calls EXCEPT ![x] = rec]
  BY DEF TypeInv, TypeOK
<1> HIDE DEF rec
<1> QED
  BY <1>2, <1>3 DEF AskedHasForm, TypeInv, TypeOK, Kept

LEMMA EndEffect ==
    ASSUME TypeInv, NEW x \in Call, NEW o \in Outcomes,
           calls' = [calls EXCEPT ![x].pc = "done", ![x].outcome = o]
    PROVE  /\ calls' \in [Call -> CallRecord] /\ AskedHasForm' /\ \A y \in Call : Kept(y)
           /\ \A y \in Call \ {x} : calls'[y] = calls[y]
           /\ calls'[x].pc = "done" /\ calls'[x].outcome = o
           /\ calls'[x].wire = calls[x].wire /\ calls'[x].answer = calls[x].answer
<1>1. calls[x] \in CallRecord
  BY DEF TypeInv, TypeOK
<1> DEFINE rec == [calls[x] EXCEPT !.pc = "done", !.outcome = o]
<1>2. /\ rec \in CallRecord /\ rec.wire = calls[x].wire /\ rec.form = calls[x].form
      /\ rec.consumed = calls[x].consumed /\ rec.response = calls[x].response
      /\ rec.pc = "done" /\ rec.context = calls[x].context
      /\ rec.outcome = o /\ rec.answer = calls[x].answer
  BY <1>1 DEF CallRecord
<1>3. calls' = [calls EXCEPT ![x] = rec]
  BY DEF TypeInv, TypeOK
<1> HIDE DEF rec
<1> QED
  BY <1>2, <1>3 DEF AskedHasForm, TypeInv, TypeOK, Kept

\* Every answer the endpoint of the model gives is one OAuthClient can read,
\* and every reading is an outcome.
LEMMA AnswersTyped ==
    /\ \A c \in Code : Endpoint!TokenReply(c) \in Endpoint!Reply
    /\ Endpoint!ErrorReply("invalid_grant") \in Endpoint!Reply
    /\ Useless \subseteq Endpoint!Reply
    /\ \A a : Endpoint!ExchangeOutcome(a) \in Outcomes
<1>1. \A c \in Code : Endpoint!TokenReply(c) \in Endpoint!Reply
  BY DEF Endpoint!TokenReply, Endpoint!Reply
<1>2. Endpoint!ErrorReply("invalid_grant") \in Endpoint!Reply
  BY DEF Endpoint!ErrorReply, Endpoint!Reply
<1>3. Useless \subseteq Endpoint!Reply
  BY DEF Useless, Endpoint!Reply
<1>4. \A a : Endpoint!ExchangeOutcome(a) \in Outcomes
  BY DEF Endpoint!ExchangeOutcome, Endpoint!ParseOutcome, Outcomes, Endpoint!Outcome
<1> QED
  BY <1>1, <1>2, <1>3, <1>4

LEMMA TypeInit == Init => TypeInv
BY DEF Init, TypeInv, TypeOK, AskedHasForm, PkceKept, Store!StoreInit, Store!StoreTypeOK,
       CallRecord, IdleCall, Outcomes

\* The pending state a new flow is given.
PendingFor(f, r) ==
    [state |-> f, created_at |-> now,
     payload |-> [redirect_uri |-> r, code_verifier |-> IF UsePkce THEN f ELSE None,
                  metadata |-> f]]

LEMMA OpenEffect ==
    ASSUME TypeInv, NEW f \in Flow, NEW r \in Redirect, GetAuthorizationUrl(f, r)
    PROVE  /\ PendingFor(f, r) \in Store!Pending /\ PendingFor(f, r).state = f
           /\ pending[f] = None /\ pending' = [pending EXCEPT ![f] = PendingFor(f, r)]
           /\ Store!Save(PendingFor(f, r))
           /\ UNCHANGED <<grants, responses, calls>>
<1>1. now \in Store!Time
  BY DEF TypeInv, TypeOK, Store!StoreTypeOK
<1> QED
  BY <1>1, FlowAssumption DEF GetAuthorizationUrl, PendingFor, Store!Pending, Payload

\* What a consuming call does to the store, and with which state it goes on.
LEMMA ExchangeStateEffect ==
    ASSUME TypeInv, NEW x \in Call, NEW r \in Delivered, ExchangeState(x, r)
    PROVE  /\ r \in Response /\ Accepts(r.iss) /\ states[r.state] # None
           /\ Store!StoreTypeOK' /\ now' = now
           /\ \A g \in Flow : states'[g] = IF g = r.state THEN None ELSE states[g]
           /\ calls' \in [Call -> CallRecord] /\ AskedHasForm'
           /\ \A y \in Call \ {x} : calls'[y] = calls[y]
           /\ calls'[x].consumed = r.state /\ calls'[x].response = r
           /\ calls'[x].form = FormOf(r, states[r.state]) /\ calls'[x].form.code = r.code
           /\ calls'[x].context = states[r.state].payload.metadata
           /\ calls[x].pc = "idle" /\ calls'[x].pc = "waiting"
           /\ calls'[x].wire = "request" /\ calls'[x].outcome = "none"
           /\ UNCHANGED <<pending, grants, responses>>
<1>1. r \in Response /\ r.state \in Flow
  BY DeliveredTyped DEF TypeInv, Response
<1>2. Store!ConsumeGood(r.state) /\ states[r.state] # None
  BY DEF ExchangeState, Store!ConsumeGood
<1>3. states[r.state] \in Store!Pending /\ states[r.state].payload.metadata \in Flow
  BY <1>1, <1>2 DEF TypeInv, TypeOK, Store!StoreTypeOK, Store!Pending, Payload
<1>4. Send(x, r, states[r.state], r.state, states[r.state].payload.metadata)
  BY DEF ExchangeState
<1>5. /\ Store!StoreTypeOK' /\ now' = now
      /\ \A g \in Flow : states'[g] = IF g = r.state THEN None ELSE states[g]
  BY <1>1, <1>2, ConsumeEffect DEF TypeInv, TypeOK
<1> QED
  BY <1>1, <1>2, <1>3, <1>4, <1>5, SendEffect DEF ExchangeState, Begin

LEMMA ExchangeArgsEffect ==
    ASSUME TypeInv, NEW x \in Call, NEW r \in Delivered, ExchangeArgs(x, r)
    PROVE  /\ r \in Response /\ Accepts(r.iss)
           /\ calls' \in [Call -> CallRecord] /\ AskedHasForm'
           /\ \A y \in Call \ {x} : calls'[y] = calls[y]
           /\ pending[r.state] # None
           /\ calls'[x].consumed = None /\ calls'[x].response = r
           /\ calls'[x].form = FormOf(r, pending[r.state]) /\ calls'[x].form.code = r.code
           /\ calls'[x].context = None
           /\ calls[x].pc = "idle" /\ calls'[x].pc = "waiting"
           /\ calls'[x].wire = "request" /\ calls'[x].outcome = "none"
           /\ UNCHANGED <<states, now, pending, grants, responses>>
<1>1. r \in Response /\ r.state \in Flow
  BY DeliveredTyped DEF TypeInv, Response
<1>2. pending[r.state] \in Store!Pending
  BY <1>1 DEF ExchangeArgs, TypeInv, TypeOK
<1>3. Send(x, r, pending[r.state], None, None)
  BY DEF ExchangeArgs
<1> DEFINE p == pending[r.state]
<1> HIDE DEF p
<1>4. /\ calls' \in [Call -> CallRecord] /\ AskedHasForm'
      /\ \A y \in Call \ {x} : calls'[y] = calls[y]
      /\ calls'[x].consumed = None /\ calls'[x].response = r
      /\ calls'[x].form = FormOf(r, p) /\ calls'[x].form.code = r.code
      /\ calls'[x].context = None
      /\ calls'[x].pc = "waiting" /\ calls'[x].wire = "request"
      /\ calls'[x].outcome = "none"
  <2>1. p \in Store!Pending /\ Send(x, r, p, None, None)
    BY <1>2, <1>3 DEF p
  <2>2. None \in Flow \cup {None}
    OBVIOUS
  <2> QED
    BY <1>1, <2>1, <2>2, SendEffect
<1> QED
  BY <1>1, <1>4 DEF ExchangeArgs, Begin, p

\* A call that is refused consumes nothing but an entry that had expired.
LEMMA ExchangeRejectedEffect ==
    ASSUME TypeInv, NEW x \in Call, NEW r \in Delivered,
           ExchangeIssuerRejected(x, r) \/ ExchangeStateRejected(x, r)
    PROVE  /\ Store!StoreTypeOK' /\ now' = now
           /\ \A g \in Flow :
                 \/ states'[g] = states[g]
                 \/ states'[g] = None /\ Store!IsExpired(states[g], now)
           /\ calls' \in [Call -> CallRecord] /\ AskedHasForm'
           /\ \A y \in Call \ {x} : calls'[y] = calls[y]
           /\ calls'[x].consumed = None /\ calls'[x].form = None
           /\ calls[x].pc = "idle" /\ calls'[x].pc = "done" /\ calls'[x].wire = "none"
           /\ calls'[x].outcome \in {"IssuerValidationError", "StateError"}
           /\ UNCHANGED <<pending, grants, responses>>
<1>1. r \in Response /\ r.state \in Flow
  BY DeliveredTyped DEF TypeInv, Response
<1>2. /\ Store!StoreTypeOK' /\ now' = now
      /\ \A g \in Flow :
            \/ states'[g] = states[g]
            \/ states'[g] = None /\ Store!IsExpired(states[g], now)
  <2>1. CASE ExchangeIssuerRejected(x, r)
    BY <2>1 DEF ExchangeIssuerRejected, TypeInv, TypeOK, Store!StoreTypeOK
  <2>2. CASE ExchangeStateRejected(x, r) /\ Store!ConsumeMissing(r.state)
    BY <2>2 DEF Store!ConsumeMissing, Store!storeVars, TypeInv, TypeOK, Store!StoreTypeOK
  <2>3. CASE ExchangeStateRejected(x, r) /\ Store!ConsumeExpired(r.state)
    <3>1. Store!IsExpired(states[r.state], now) /\ Store!StoreTypeOK
      BY <2>3 DEF Store!ConsumeExpired, TypeInv, TypeOK
    <3> QED
      BY <1>1, <2>3, <3>1, ConsumeEffect
  <2> QED
    BY <2>1, <2>2, <2>3 DEF ExchangeStateRejected
<1>3. \E o \in Outcomes \cap {"IssuerValidationError", "StateError"} : Finish(x, r, o)
  BY DEF ExchangeIssuerRejected, ExchangeStateRejected, Outcomes
<1> QED
  BY <1>1, <1>2, <1>3, FinishEffect DEF ExchangeIssuerRejected, ExchangeStateRejected, Begin

\* A grant that is there stays what it is, but may be marked redeemed.
SameGrant(c) == /\ grants'[c].minter = grants[c].minter
                /\ grants'[c].flow = grants[c].flow
                /\ grants'[c].redirect_uri = grants[c].redirect_uri
                /\ grants'[c].challenge = grants[c].challenge
                /\ grants'[c].audience = grants[c].audience
                /\ grants[c].redeemed => grants'[c].redeemed

\* The endpoint and the end of a call: a grant may be marked redeemed.
Later(x) == EndpointRedeems(x) \/ EndpointRefuses(x) \/ CallEnds(x)

LEMMA LaterEffect ==
    ASSUME TypeInv, NEW x \in Call, Later(x)
    PROVE  /\ calls' \in [Call -> CallRecord] /\ AskedHasForm' /\ \A y \in Call : Kept(y)
           /\ \A y \in Call \ {x} : calls'[y] = calls[y]
           /\ grants' \in [Code -> Grant \cup {None}]
           /\ \A c \in Code : /\ grants'[c] = None <=> grants[c] = None
                              /\ grants[c] # None => SameGrant(c)
           /\ UNCHANGED <<states, now, pending, responses>>
<1>1. CASE EndpointRedeems(x)
  <2>1. PICK a \in Endpoint!Reply :
           calls' = [calls EXCEPT ![x].wire = "answered", ![x].answer = a]
    <3>1. calls[x].form.code \in Code
      BY <1>1 DEF EndpointRedeems, TypeInv, AskedHasForm, Form
    <3> QED
      BY <1>1, <3>1, AnswersTyped DEF EndpointRedeems
  <2> DEFINE c == calls[x].form.code
             g == [grants[c] EXCEPT !.redeemed = TRUE]
  <2>2. c \in Code /\ grants[c] # None
    BY <1>1 DEF EndpointRedeems, Redeemable, TypeInv, AskedHasForm, Form
  <2>3. /\ g \in Grant /\ g.minter = grants[c].minter /\ g.audience = grants[c].audience
        /\ g.flow = grants[c].flow /\ g.redirect_uri = grants[c].redirect_uri
        /\ g.challenge = grants[c].challenge /\ g.redeemed
    BY <2>2 DEF TypeInv, TypeOK, Grant
  <2>4. g # None
    BY <2>3, NoneIsNoObject
  <2>5. grants' = [grants EXCEPT ![c] = g]
    BY <1>1 DEF EndpointRedeems, TypeInv, TypeOK
  <2>6. UNCHANGED <<states, now, pending, responses>>
    BY <1>1 DEF EndpointRedeems
  <2>7. /\ calls' \in [Call -> CallRecord] /\ AskedHasForm' /\ \A y \in Call : Kept(y)
        /\ \A y \in Call \ {x} : calls'[y] = calls[y]
    BY <2>1, AnswerEffect
  <2>8. grants \in [Code -> Grant \cup {None}]
    BY DEF TypeInv, TypeOK
  <2> HIDE DEF c, g
  <2>9. /\ grants' \in [Code -> Grant \cup {None}]
        /\ \A d \in Code : /\ grants'[d] = None <=> grants[d] = None
                           /\ grants[d] # None => SameGrant(d)
    BY <2>2, <2>3, <2>4, <2>5, <2>8 DEF SameGrant
  <2> QED
    BY <2>6, <2>7, <2>9
<1>2. CASE EndpointRefuses(x)
  BY <1>2, AnswersTyped, AnswerEffect DEF EndpointRefuses, TypeInv, TypeOK, SameGrant
<1>3. CASE CallEnds(x)
  BY <1>3, AnswersTyped, EndEffect DEF CallEnds, Answered, Unanswered, TypeInv, TypeOK, SameGrant
<1> QED
  BY <1>1, <1>2, <1>3 DEF Later

\* The URL of a flow carries the flow's own state token, redirect URI and
\* challenge, and the configured resource, whatever else was to go into it.
LEMMA UrlIsTheFlows ==
    ASSUME TypeInv, NEW f \in Flow, pending[f] # None
    PROVE  /\ Request!Param(Url(f), "state") = f
           /\ Request!Param(Url(f), "redirect_uri") = pending[f].payload.redirect_uri
           /\ Request!Param(Url(f), "code_challenge") = pending[f].payload.code_verifier
           /\ Request!Param(Url(f), "resource") \in Audience \cup {None}
           /\ Resource # None => Request!Param(Url(f), "resource") = Resource
<1>1. pending[f].state = f
  BY DEF TypeInv, TypeOK
<1>2. UsePkce => pending[f].payload.code_verifier # None
  BY DEF TypeInv, PkceKept
<1> QED
  BY <1>1, <1>2, RequestAssumption DEF Url, Request!Url, Request!Param, Request!Updated,
     Request!OwnParams, Request!ResourceParam

\* A response of any server to any flow, stored with the grant it names.
LEMMA AuthorizeEffect ==
    ASSUME TypeInv, NEW f \in Flow, NEW c \in Code, NEW i \in Issuer, Authorize(f, c, i)
    PROVE  /\ grants' \in [Code -> Grant \cup {None}]
           /\ grants[c] = None /\ grants'[c] # None /\ grants'[c].minter = i
           /\ pending[f] # None /\ grants'[c].flow = f
           /\ grants'[c].redirect_uri = pending[f].payload.redirect_uri
           /\ grants'[c].challenge = pending[f].payload.code_verifier
           /\ Resource # None => grants'[c].audience = Resource
           /\ \A d \in Code \ {c} : grants'[d] = grants[d]
           /\ responses' \subseteq Response
           /\ responses' = responses \cup {[state |-> f, code |-> c, iss |-> i]}
           /\ UNCHANGED <<states, now, pending, calls>>
<1> DEFINE g == [minter |-> i, flow |-> f,
                 redirect_uri |-> Request!Param(Url(f), "redirect_uri"),
                 challenge |-> Request!Param(Url(f), "code_challenge"),
                 audience |-> Request!Param(Url(f), "resource"), redeemed |-> FALSE]
<1>1. pending[f] \in Store!Pending /\ pending[f] # None
  BY DEF Authorize, TypeInv, TypeOK
<1>2. /\ g \in Grant /\ g.minter = i /\ (Resource # None => g.audience = Resource)
      /\ g.flow = f /\ g.redirect_uri = pending[f].payload.redirect_uri
      /\ g.challenge = pending[f].payload.code_verifier
  BY <1>1, UrlIsTheFlows DEF Grant, Store!Pending, Payload
<1>3. g # None
  BY <1>2, NoneIsNoObject
<1>4. grants' = [grants EXCEPT ![c] = g]
  BY DEF Authorize
<1> HIDE DEF g
<1>5. /\ grants' \in [Code -> Grant \cup {None}] /\ grants'[c] = g
      /\ \A d \in Code \ {c} : grants'[d] = grants[d]
  BY <1>2, <1>4 DEF TypeInv, TypeOK
<1>6. [state |-> f, code |-> c, iss |-> i] \in Response
  BY DEF Response
<1>7. responses' = responses \cup {[state |-> f, code |-> c, iss |-> i]}
  BY <1>1, UrlIsTheFlows DEF Authorize
<1> QED
  BY <1>2, <1>3, <1>5, <1>6, <1>7 DEF Authorize, TypeInv, TypeOK

\* The cases of a step.
Rejected(x, r) == ExchangeIssuerRejected(x, r) \/ ExchangeStateRejected(x, r)

LEMMA StepCases ==
    ASSUME [Next]_vars
    PROVE  \/ \E f \in Flow, r \in Redirect : GetAuthorizationUrl(f, r)
           \/ \E f \in Flow, c \in Code, i \in Issuer : Authorize(f, c, i)
           \/ \E x \in Call, r \in Delivered : Rejected(x, r)
           \/ \E x \in Call, r \in Delivered : ExchangeState(x, r)
           \/ \E x \in Call, r \in Delivered : ExchangeArgs(x, r)
           \/ \E x \in Call : Later(x)
           \/ ClockMoves
           \/ UNCHANGED vars
BY DEF Next, Exchange, Rejected, Later

LEMMA TypeStep == TypeInv /\ [Next]_vars => TypeInv'
<1> SUFFICES ASSUME TypeInv, [Next]_vars PROVE TypeInv'
  OBVIOUS
<1>1. ASSUME NEW f \in Flow, NEW r \in Redirect, GetAuthorizationUrl(f, r) PROVE TypeInv'
  <2>1. Store!StoreTypeOK
    BY DEF TypeInv, TypeOK
  <2>2. Store!StoreTypeOK'
    BY <1>1, <2>1, OpenEffect, SaveEffect
  <2> DEFINE p == PendingFor(f, r)
  <2>3. /\ p \in Store!Pending /\ p.state = f
        /\ pending' = [pending EXCEPT ![f] = p]
        /\ UNCHANGED <<grants, responses, calls>>
    BY <1>1, OpenEffect
  <2>4. UsePkce => p.payload.code_verifier # None
    BY FlowAssumption DEF PendingFor
  <2> HIDE DEF p
  <2> QED
    BY <2>2, <2>3, <2>4 DEF TypeInv, TypeOK, AskedHasForm, PkceKept
<1>2. ASSUME NEW f \in Flow, NEW c \in Code, NEW i \in Issuer, Authorize(f, c, i)
      PROVE  TypeInv'
  BY <1>2, AuthorizeEffect DEF TypeInv, TypeOK, AskedHasForm, PkceKept, Store!StoreTypeOK
<1>3. ASSUME NEW x \in Call, NEW r \in Delivered, Rejected(x, r) PROVE TypeInv'
  BY <1>3, ExchangeRejectedEffect DEF TypeInv, TypeOK, PkceKept, Rejected
<1>4. ASSUME NEW x \in Call, NEW r \in Delivered, ExchangeState(x, r) PROVE TypeInv'
  BY <1>4, ExchangeStateEffect DEF TypeInv, TypeOK, PkceKept
<1>5. ASSUME NEW x \in Call, NEW r \in Delivered, ExchangeArgs(x, r) PROVE TypeInv'
  BY <1>5, ExchangeArgsEffect DEF TypeInv, TypeOK, PkceKept, Store!StoreTypeOK
<1>6. ASSUME NEW x \in Call, Later(x) PROVE TypeInv'
  BY <1>6, LaterEffect DEF TypeInv, TypeOK, PkceKept, Store!StoreTypeOK
<1>7. CASE ClockMoves
  BY <1>7 DEF ClockMoves, Store!Tick, TypeInv, TypeOK, AskedHasForm, PkceKept, Store!StoreTypeOK
<1>8. CASE UNCHANGED vars
  BY <1>8 DEF vars, TypeInv, TypeOK, AskedHasForm, PkceKept, Store!StoreTypeOK
<1> QED
  BY <1>1, <1>2, <1>3, <1>4, <1>5, <1>6, <1>7, <1>8, StepCases

\* Grants are never forgotten, and nothing changes in them but that they are
\* redeemed.
GrantsStay == \A c \in Code : grants[c] # None => grants'[c] # None /\ SameGrant(c)

LEMMA GrantsStayStep == TypeInv /\ [Next]_vars => GrantsStay
<1> SUFFICES ASSUME TypeInv, [Next]_vars PROVE GrantsStay
  OBVIOUS
<1>1. ASSUME NEW f \in Flow, NEW c \in Code, NEW i \in Issuer, Authorize(f, c, i)
      PROVE  GrantsStay
  BY <1>1, AuthorizeEffect DEF GrantsStay, SameGrant
<1>2. ASSUME NEW x \in Call, Later(x) PROVE GrantsStay
  BY <1>2, LaterEffect DEF GrantsStay, SameGrant
<1>3. ASSUME NEW x \in Call, NEW r \in Delivered,
             Rejected(x, r) \/ ExchangeState(x, r) \/ ExchangeArgs(x, r)
      PROVE  grants' = grants
  BY <1>3, ExchangeRejectedEffect, ExchangeStateEffect, ExchangeArgsEffect DEF Rejected
<1>4. ASSUME UNCHANGED grants PROVE GrantsStay
  BY <1>4 DEF GrantsStay, SameGrant
<1> QED
  BY <1>1, <1>2, <1>3, <1>4, StepCases DEF GetAuthorizationUrl, ClockMoves, vars

\* The state of the flow is typed throughout, for every number of concurrent
\* calls and every order of deliveries, answers and clock adjustments.
THEOREM FlowTypeOK == Spec => []TypeOK
<1>1. Init => TypeInv
  BY TypeInit
<1>2. TypeInv /\ [Next]_vars => TypeInv'
  BY TypeStep
<1>3. TypeInv => TypeOK
  BY DEF TypeInv
<1> QED
  BY <1>1, <1>2, <1>3, PTL DEF Spec

------------------------------------------------------------------------------
(* One attempt per stored state, and nothing burnt without a cause.        *)

\* What the store still holds is what the URL was built from.
HeldIsPending == \A f \in Flow : states[f] # None => pending[f] = states[f]

\* A state some call goes on with has left the store, and cannot come back:
\* its flow is open, so no URL is built for it again.
TakenIsGone ==
    \A x \in Call : calls[x].consumed # None =>
        pending[calls[x].consumed] # None /\ states[calls[x].consumed] = None

\* A call that has not begun goes on with nothing.
IdleIsBlank == \A x \in Call :
    calls[x].pc = "idle" => calls[x].consumed = None /\ calls[x].form = None

AttemptInv == /\ TypeInv /\ HeldIsPending /\ TakenIsGone /\ IdleIsBlank
              /\ OneRequestPerState

LEMMA AttemptInit == Init => AttemptInv
<1> SUFFICES ASSUME Init PROVE AttemptInv
  OBVIOUS
<1>1. \A x \in Call : calls[x] = IdleCall
  BY DEF Init
<1>2. \A x \in Call : calls[x].consumed = None /\ calls[x].form = None
  BY <1>1 DEF IdleCall
<1>3. \A f \in Flow : states[f] = None
  BY DEF Init, Store!StoreInit
<1> QED
  BY <1>2, <1>3, TypeInit DEF AttemptInv, HeldIsPending, TakenIsGone, IdleIsBlank,
                              OneRequestPerState

LEMMA AttemptStep == AttemptInv /\ [Next]_vars => AttemptInv'
<1> SUFFICES ASSUME AttemptInv, [Next]_vars PROVE AttemptInv'
  OBVIOUS
<1> USE DEF AttemptInv
<1>0. TypeInv'
  BY TypeStep
<1>0a. \A x \in Call : calls[x].consumed \in Flow \cup {None}
  BY DEF TypeInv, TypeOK, CallRecord
<1>0b. \A f \in Flow : pending[f] \in Store!Pending \cup {None}
  BY DEF TypeInv, TypeOK
<1>1. ASSUME NEW f \in Flow, NEW r \in Redirect, GetAuthorizationUrl(f, r) PROVE AttemptInv'
  <2> DEFINE p == PendingFor(f, r)
  <2>1. /\ p \in Store!Pending /\ p.state = f /\ p # None
        /\ pending[f] = None /\ pending' = [pending EXCEPT ![f] = p]
        /\ Store!Save(p)
        /\ UNCHANGED <<grants, responses, calls>>
    BY <1>1, OpenEffect, StoreConstants
  <2> HIDE DEF p
  <2>2. Store!StoreTypeOK
    BY DEF TypeInv, TypeOK
  <2>3. /\ states'[f] = p
        /\ \A g \in Flow \ {f} : states'[g] \in {None, states[g]}
    BY <2>1, <2>2, SaveEffect
  <2>4. pending'[f] = p /\ \A g \in Flow \ {f} : pending'[g] = pending[g]
    BY <2>1 DEF TypeInv, TypeOK
  <2>5. HeldIsPending'
    BY <2>3, <2>4 DEF HeldIsPending
  <2>6. TakenIsGone'
    BY <1>0a, <2>1, <2>3, <2>4 DEF TakenIsGone
  <2> QED
    BY <1>0, <2>1, <2>5, <2>6 DEF IdleIsBlank, OneRequestPerState
<1>2. ASSUME NEW f \in Flow, NEW c \in Code, NEW i \in Issuer, Authorize(f, c, i)
      PROVE  AttemptInv'
  BY <1>0, <1>2 DEF Authorize, HeldIsPending, TakenIsGone, IdleIsBlank, OneRequestPerState
<1>3. ASSUME NEW x \in Call, NEW r \in Delivered, Rejected(x, r) PROVE AttemptInv'
  <2>1. /\ \A g \in Flow : states'[g] \in {None, states[g]}
        /\ \A y \in Call \ {x} : calls'[y] = calls[y]
        /\ calls'[x].consumed = None /\ calls'[x].form = None /\ pending' = pending
    BY <1>3, ExchangeRejectedEffect DEF Rejected
  <2>2. HeldIsPending'
    BY <2>1 DEF HeldIsPending
  <2>3. TakenIsGone'
    BY <1>0a, <2>1 DEF TakenIsGone
  <2> QED
    BY <1>0, <2>1, <2>2, <2>3 DEF IdleIsBlank, OneRequestPerState
<1>4. ASSUME NEW x \in Call, NEW r \in Delivered, ExchangeState(x, r) PROVE AttemptInv'
  <2>1. /\ r \in Response /\ states[r.state] # None
        /\ \A g \in Flow : states'[g] = IF g = r.state THEN None ELSE states[g]
        /\ \A y \in Call \ {x} : calls'[y] = calls[y]
        /\ calls'[x].consumed = r.state /\ calls'[x].pc # "idle" /\ pending' = pending
    BY <1>4, ExchangeStateEffect
  <2>2. r.state \in Flow
    BY <2>1 DEF Response
  <2>3. HeldIsPending'
    BY <2>1 DEF HeldIsPending
  <2>4. pending[r.state] # None
    BY <2>1, <2>2 DEF HeldIsPending
  <2>5. TakenIsGone'
    BY <1>0a, <2>1, <2>2, <2>4 DEF TakenIsGone
  <2>6. \A y \in Call : calls[y].consumed # r.state
    BY <2>1, <2>2, FlowAssumption DEF TakenIsGone
  <2>7. OneRequestPerState'
    BY <2>1, <2>6 DEF OneRequestPerState
  <2> QED
    BY <1>0, <2>1, <2>3, <2>5, <2>7 DEF IdleIsBlank
<1>5. ASSUME NEW x \in Call, NEW r \in Delivered, ExchangeArgs(x, r) PROVE AttemptInv'
  <2>1. /\ \A y \in Call \ {x} : calls'[y] = calls[y]
        /\ calls'[x].consumed = None /\ calls'[x].pc # "idle"
        /\ UNCHANGED <<states, pending>>
    BY <1>5, ExchangeArgsEffect
  <2> QED
    BY <1>0, <1>0a, <2>1
    DEF HeldIsPending, TakenIsGone, IdleIsBlank, OneRequestPerState
<1>6. ASSUME NEW x \in Call, Later(x) PROVE AttemptInv'
  <2>1. (\A y \in Call : Kept(y)) /\ UNCHANGED <<states, pending>>
    BY <1>6, LaterEffect
  <2> QED
    BY <1>0, <2>1 DEF Kept, HeldIsPending, TakenIsGone, IdleIsBlank, OneRequestPerState
<1>7. CASE ClockMoves
  BY <1>0, <1>7 DEF ClockMoves, Store!Tick, HeldIsPending, TakenIsGone, IdleIsBlank,
                    OneRequestPerState
<1>8. CASE UNCHANGED vars
  BY <1>0, <1>8 DEF vars, HeldIsPending, TakenIsGone, IdleIsBlank, OneRequestPerState
<1> QED
  BY <1>1, <1>2, <1>3, <1>4, <1>5, <1>6, <1>7, <1>8, StepCases

\* However many calls of exchange_code are given the same state, at the same
\* time or later, and whatever becomes of their token requests, at most one of
\* them goes on with it, also when the clock steps back.
THEOREM FlowOneRequestPerState == Spec => []OneRequestPerState
<1>1. AttemptInv => OneRequestPerState
  BY DEF AttemptInv
<1> QED
  BY <1>1, AttemptInit, AttemptStep, PTL DEF Spec

\* Why the store may be without a flow that was begun.
Cause(f) == \/ Store!IsExpired(pending[f], now)
            \/ \E x \in Call : calls[x].consumed = f /\ Accepts(calls[x].response.iss)

\* A step changes no pending state that is there, no call that took a state,
\* and the clock only forward, when it cannot step back.
LEMMA NothingUndone ==
    ASSUME AttemptInv, [Next]_vars
    PROVE  /\ MaxBack = 0 => now' >= now
           /\ now \in Int /\ now' \in Int
           /\ \A f \in Flow : pending[f] # None => pending'[f] = pending[f]
           /\ \A x \in Call : calls[x].consumed # None =>
                 calls'[x].consumed = calls[x].consumed
                 /\ calls'[x].response = calls[x].response
<1> USE DEF AttemptInv
<1>1. TypeInv' /\ TypeInv
  BY TypeStep
<1>2. now \in Int /\ now' \in Int
  BY <1>1, StoreConstants DEF TypeInv, TypeOK, Store!StoreTypeOK, Store!Time
<1>3. ASSUME NEW f \in Flow, NEW r \in Redirect, GetAuthorizationUrl(f, r)
      PROVE  /\ now' = now /\ calls' = calls
             /\ \A g \in Flow : pending[g] # None => pending'[g] = pending[g]
  BY <1>3, OpenEffect DEF Store!Save, TypeInv, TypeOK
<1>4. ASSUME NEW x \in Call, NEW r \in Delivered,
             Rejected(x, r) \/ ExchangeState(x, r) \/ ExchangeArgs(x, r)
      PROVE  /\ now' = now /\ pending' = pending
             /\ \A y \in Call \ {x} : calls'[y] = calls[y]
             /\ calls[x].consumed = None
  BY <1>4, ExchangeRejectedEffect, ExchangeStateEffect, ExchangeArgsEffect
     DEF Rejected, IdleIsBlank
<1>5. ASSUME NEW x \in Call, Later(x)
      PROVE  now' = now /\ pending' = pending /\ \A y \in Call : Kept(y)
  BY <1>5, LaterEffect
<1>6. CASE ClockMoves
  BY <1>2, <1>6 DEF ClockMoves, Store!Tick
<1>7. CASE UNCHANGED vars
  BY <1>2, <1>7 DEF vars
<1>8. ASSUME NEW f \in Flow, NEW c \in Code, NEW i \in Issuer, Authorize(f, c, i)
      PROVE  UNCHANGED <<now, pending, calls>>
  BY <1>8 DEF Authorize
<1> QED
  BY <1>2, <1>3, <1>4, <1>5, <1>6, <1>7, <1>8, StepCases DEF Kept

LEMMA CauseStays ==
    ASSUME AttemptInv, [Next]_vars, MaxBack = 0, NEW f \in Flow, pending[f] # None, Cause(f)
    PROVE  Cause(f)'
<1>1. pending'[f] = pending[f]
  BY NothingUndone
<1>2. CASE Store!IsExpired(pending[f], now)
  <2>1. pending[f].created_at \in Int /\ MaxAge \in Int
    BY StoreConstants DEF AttemptInv, TypeInv, TypeOK, Store!Pending, Store!Time
  <2>2. now' >= now /\ now \in Int /\ now' \in Int
    BY NothingUndone
  <2>3. Store!IsExpired(pending[f], now')
    BY <1>2, <2>1, <2>2 DEF Store!IsExpired
  <2> QED
    BY <1>1, <2>3 DEF Cause
<1>3. ASSUME NEW x \in Call, calls[x].consumed = f, Accepts(calls[x].response.iss)
      PROVE  Cause(f)'
  <2>1. calls[x].consumed # None
    BY <1>3, FlowAssumption
  <2>2. calls'[x].consumed = f /\ calls'[x].response = calls[x].response
    BY <1>3, <2>1, NothingUndone
  <2> QED
    BY <1>3, <2>2 DEF Cause
<1> QED
  BY <1>2, <1>3 DEF Cause

\* What leaves the store leaves it for a cause.
LEMMA LeavesForACause ==
    ASSUME AttemptInv, [Next]_vars, NEW f \in Flow, states[f] # None, states'[f] = None
    PROVE  /\ pending'[f] = pending[f]
           /\ \/ Store!IsExpired(pending[f], now) /\ now' = now
              \/ Cause(f)'
<1> USE DEF AttemptInv
<1>0. pending[f] = states[f] /\ states[f] # None
  BY DEF HeldIsPending
<1>1. ASSUME NEW g \in Flow, NEW r \in Redirect, GetAuthorizationUrl(g, r)
      PROVE  pending'[f] = pending[f] /\ Store!IsExpired(pending[f], now) /\ now' = now
  <2> DEFINE p == PendingFor(g, r)
  <2>1. /\ p \in Store!Pending /\ p.state = g /\ pending[g] = None
        /\ pending' = [pending EXCEPT ![g] = p] /\ Store!Save(p)
    BY <1>1, OpenEffect
  <2> HIDE DEF p
  <2>2. f # g
    BY <1>0, <2>1
  <2>3. Store!StoreTypeOK
    BY DEF TypeInv, TypeOK
  <2>4. Store!IsExpired(states[f], now) /\ now' = now
    BY <2>1, <2>2, <2>3, SaveEffect
  <2> QED
    BY <1>0, <2>1, <2>2, <2>4 DEF TypeInv, TypeOK
<1>2. ASSUME NEW x \in Call, NEW r \in Delivered, Rejected(x, r)
      PROVE  pending' = pending /\ Store!IsExpired(pending[f], now) /\ now' = now
  BY <1>0, <1>2, ExchangeRejectedEffect DEF Rejected
<1>3. ASSUME NEW x \in Call, NEW r \in Delivered, ExchangeState(x, r)
      PROVE  pending' = pending /\ Cause(f)'
  <2>1. r.state = f
    BY <1>3, ExchangeStateEffect
  <2>2. calls'[x].consumed = f /\ calls'[x].response = r /\ Accepts(r.iss)
    BY <1>3, <2>1, ExchangeStateEffect
  <2>3. pending' = pending
    BY <1>3, ExchangeStateEffect
  <2> QED
    BY <2>2, <2>3 DEF Cause
<1>4. ASSUME NEW x \in Call, NEW r \in Delivered, ExchangeArgs(x, r) PROVE FALSE
  BY <1>4, ExchangeArgsEffect
<1>5. ASSUME NEW x \in Call, Later(x) PROVE FALSE
  BY <1>5, LaterEffect
<1>6. ASSUME NEW g \in Flow, NEW c \in Code, NEW i \in Issuer, Authorize(g, c, i) PROVE FALSE
  BY <1>6 DEF Authorize
<1>7. ~ ClockMoves /\ ~ UNCHANGED vars
  BY DEF ClockMoves, Store!Tick, vars
<1> QED
  BY <1>1, <1>2, <1>3, <1>4, <1>5, <1>6, <1>7, StepCases

\* What was not in the store and is pending after a step was pending before,
\* or is in the store now.
LEMMA OpensInStore ==
    ASSUME AttemptInv, [Next]_vars, NEW f \in Flow, pending[f] = None, states'[f] = None
    PROVE  pending'[f] = None
<1> USE DEF AttemptInv
<1>1. ASSUME NEW g \in Flow, NEW r \in Redirect, GetAuthorizationUrl(g, r)
      PROVE  pending'[f] = None
  <2> DEFINE p == PendingFor(g, r)
  <2>1. /\ p \in Store!Pending /\ p.state = g /\ p # None
        /\ pending' = [pending EXCEPT ![g] = p] /\ Store!Save(p)
    BY <1>1, OpenEffect, StoreConstants
  <2> HIDE DEF p
  <2>2. states'[g] = p
    BY <2>1, SaveEffect DEF TypeInv, TypeOK
  <2> QED
    BY <2>1, <2>2 DEF TypeInv, TypeOK
<1>2. ASSUME NEW x \in Call, NEW r \in Delivered,
             Rejected(x, r) \/ ExchangeState(x, r) \/ ExchangeArgs(x, r)
      PROVE  pending' = pending
  BY <1>2, ExchangeRejectedEffect, ExchangeStateEffect, ExchangeArgsEffect DEF Rejected
<1>3. ASSUME NEW x \in Call, Later(x) PROVE pending' = pending
  BY <1>3, LaterEffect
<1> QED
  BY <1>1, <1>2, <1>3, StepCases DEF Authorize, ClockMoves, vars

LEMMA BurntStep ==
    ASSUME AttemptInv, BurntForACause, [Next]_vars, MaxBack = 0
    PROVE  BurntForACause'
<1> SUFFICES ASSUME NEW f \in Flow, pending'[f] # None, states'[f] = None PROVE Cause(f)'
  BY DEF BurntForACause, Cause
<1>1. pending[f] # None /\ pending'[f] = pending[f]
  BY OpensInStore, NothingUndone
<1>2. CASE states[f] = None
  BY <1>1, <1>2, CauseStays DEF BurntForACause, Cause
<1>3. CASE states[f] # None
  BY <1>1, <1>3, LeavesForACause DEF Cause
<1> QED
  BY <1>2, <1>3

\* Under a clock that is never set back, a flow that was begun and is no longer
\* in the store has expired or was taken by a call whose iss was accepted: a
\* response from the wrong server cannot burn a login.
THEOREM FlowBurntForACause ==
    ASSUME MaxBack = 0 PROVE Spec => []BurntForACause
<1>1. Init => AttemptInv /\ BurntForACause
  BY AttemptInit DEF Init, BurntForACause
<1>2. AttemptInv /\ BurntForACause /\ [Next]_vars => AttemptInv' /\ BurntForACause'
  BY AttemptStep, BurntStep
<1> QED
  BY <1>1, <1>2, PTL DEF Spec

------------------------------------------------------------------------------
(* Codes of other servers.                                                 *)

Strict == ExpectedIss = Home /\ RequireIss

\* A response names the server that minted its code, and a request that left
\* carries a code of this client's server.
ResponsesAreMinted == \A r \in responses :
    grants[r.code] # None /\ r.iss = grants[r.code].minter
FormsAreFromHome == \A x \in Call : calls[x].form # None =>
    /\ calls[x].form.code \in Code
    /\ grants[calls[x].form.code] # None
    /\ grants[calls[x].form.code].minter = Home

CodeInv == AttemptInv /\ ResponsesAreMinted /\ FormsAreFromHome

\* What is accepted under a strict configuration carries a code of Home: a
\* delivery may lose its iss or change its state, never gain another iss.
LEMMA AcceptedIsFromHome ==
    ASSUME CodeInv, Strict, NEW r \in Delivered, Accepts(r.iss)
    PROVE  r.code \in Code /\ grants[r.code] # None /\ grants[r.code].minter = Home
<1>1. r.iss = Home
  <2>1. Home # None
    BY FlowAssumption DEF Issuer
  <2> QED
    BY <2>1 DEF Strict, Accepts, Config!IssuerAccepted
<1>2. responses \subseteq Response /\ Home # None
  BY FlowAssumption DEF CodeInv, AttemptInv, TypeInv, TypeOK, Issuer
<1>3. PICK q \in responses : r = q \/ (\E g \in Flow : r = [q EXCEPT !.state = g])
                            \/ r = [q EXCEPT !.iss = None]
  BY DEF Delivered
<1>4. q \in Response
  BY <1>2
<1>5. r.code = q.code /\ q.code \in Code /\ q.iss = Home
  BY <1>1, <1>2, <1>3, <1>4 DEF Response
<1> QED
  BY <1>5 DEF CodeInv, ResponsesAreMinted

LEMMA CodeStep == CodeInv /\ Strict /\ [Next]_vars => CodeInv'
<1> SUFFICES ASSUME CodeInv, Strict, [Next]_vars PROVE CodeInv'
  OBVIOUS
<1>1. AttemptInv' /\ TypeInv /\ IdleIsBlank /\ GrantsStay
  BY AttemptStep, GrantsStayStep DEF CodeInv, AttemptInv
<1>2. responses \subseteq Response
  BY <1>1 DEF TypeInv, TypeOK
<1>3. ASSUME responses' = responses PROVE ResponsesAreMinted'
  <2>1. \A r \in responses : r.code \in Code
    BY <1>2 DEF Response
  <2> QED
    BY <1>1, <1>3, <2>1 DEF CodeInv, ResponsesAreMinted, GrantsStay, SameGrant
<1>4. ASSUME \A x \in Call : calls'[x].form = calls[x].form PROVE FormsAreFromHome'
  BY <1>1, <1>4 DEF CodeInv, FormsAreFromHome, GrantsStay, SameGrant
<1>5. ASSUME NEW x \in Call, NEW r \in Delivered,
             Rejected(x, r) \/ ExchangeState(x, r) \/ ExchangeArgs(x, r)
      PROVE  FormsAreFromHome' /\ responses' = responses
  <2>1. /\ \A y \in Call \ {x} : calls'[y] = calls[y]
        /\ responses' = responses /\ grants' = grants
        /\ calls'[x].form # None => Accepts(r.iss) /\ calls'[x].form.code = r.code
    BY <1>1, <1>5, ExchangeRejectedEffect, ExchangeStateEffect, ExchangeArgsEffect
       DEF Rejected
  <2>2. calls'[x].form # None =>
           /\ calls'[x].form.code \in Code /\ grants'[calls'[x].form.code] # None
           /\ grants'[calls'[x].form.code].minter = Home
    BY <2>1, AcceptedIsFromHome
  <2> QED
    BY <2>1, <2>2 DEF CodeInv, FormsAreFromHome
<1>6. ASSUME NEW x \in Call, Later(x) PROVE CodeInv'
  BY <1>1, <1>3, <1>4, <1>6, LaterEffect DEF CodeInv, Kept
<1>7. ASSUME NEW f \in Flow, NEW c \in Code, NEW i \in Issuer, Authorize(f, c, i)
      PROVE  CodeInv'
  <2>1. /\ grants[c] = None /\ grants'[c] # None /\ grants'[c].minter = i
        /\ responses' = responses \cup {[state |-> f, code |-> c, iss |-> i]}
        /\ calls' = calls
    BY <1>1, <1>7, AuthorizeEffect
  <2>2. \A r \in responses : r.code \in Code
    BY <1>2 DEF Response
  <2>3. ResponsesAreMinted'
    BY <1>1, <2>1, <2>2 DEF CodeInv, ResponsesAreMinted, GrantsStay, SameGrant
  <2> QED
    BY <1>1, <1>4, <2>1, <2>3 DEF CodeInv
<1>8. ASSUME UNCHANGED <<responses, calls>> PROVE CodeInv'
  BY <1>1, <1>3, <1>4, <1>8 DEF CodeInv
<1>9. ASSUME NEW x \in Call, NEW r \in Delivered,
             Rejected(x, r) \/ ExchangeState(x, r) \/ ExchangeArgs(x, r)
      PROVE  CodeInv'
  BY <1>1, <1>3, <1>5, <1>9 DEF CodeInv
<1> QED
  BY <1>6, <1>7, <1>8, <1>9, StepCases DEF GetAuthorizationUrl, ClockMoves, vars

\* A client configured with its server's issuer and require_iss never sends a
\* code another server minted to its own token endpoint, whatever browsers do
\* to the iss parameter short of forging it.
THEOREM FlowForeignCodesStayAway ==
    ASSUME Strict PROVE Spec => []ForeignCodesStayAway
<1>1. Init => CodeInv
  <2>1. Init => AttemptInv /\ responses = {} /\ \A x \in Call : calls[x] = IdleCall
    BY AttemptInit DEF Init
  <2>2. IdleCall.form = None
    BY DEF IdleCall
  <2> QED
    BY <2>1, <2>2 DEF CodeInv, ResponsesAreMinted, FormsAreFromHome
<1>2. CodeInv /\ [Next]_vars => CodeInv'
  BY CodeStep
<1>3. CodeInv => ForeignCodesStayAway
  BY DEF CodeInv, FormsAreFromHome, ForeignCodesStayAway
<1> QED
  BY <1>1, <1>2, <1>3, PTL DEF Spec

------------------------------------------------------------------------------
(* The resource indicator.                                                 *)

\* Whatever extra_params and the authorize_url name, every grant a user gives
\* is for the configured resource.
THEOREM FlowResourceIsAuthoritative == Spec => []ResourceIsAuthoritative
<1> DEFINE Inv == TypeInv /\ ResourceIsAuthoritative
<1>1. Init => Inv
  BY TypeInit DEF Init, ResourceIsAuthoritative
<1>2. Inv /\ [Next]_vars => Inv'
  <2> SUFFICES ASSUME Inv, [Next]_vars PROVE ResourceIsAuthoritative'
    BY TypeStep
  <2>1. ASSUME UNCHANGED grants PROVE ResourceIsAuthoritative'
    BY <2>1 DEF ResourceIsAuthoritative
  <2>2. ASSUME NEW f \in Flow, NEW c \in Code, NEW i \in Issuer, Authorize(f, c, i)
        PROVE  ResourceIsAuthoritative'
    BY <2>2, AuthorizeEffect DEF ResourceIsAuthoritative
  <2>3. ASSUME NEW x \in Call, Later(x) PROVE ResourceIsAuthoritative'
    BY <2>3, LaterEffect DEF ResourceIsAuthoritative, SameGrant
  <2>4. ASSUME NEW x \in Call, NEW r \in Delivered,
               Rejected(x, r) \/ ExchangeState(x, r) \/ ExchangeArgs(x, r)
        PROVE  UNCHANGED grants
    BY <2>4 DEF Rejected, ExchangeIssuerRejected, ExchangeStateRejected, ExchangeState,
                ExchangeArgs
  <2> QED
    BY <2>1, <2>2, <2>3, <2>4, StepCases DEF GetAuthorizationUrl, ClockMoves, vars
<1>3. Inv => ResourceIsAuthoritative
  OBVIOUS
<1> QED
  BY <1>1, <1>2, <1>3, PTL DEF Spec

------------------------------------------------------------------------------
(* What forms and grants have of the URL they come from.                   *)

\* A pending state carries its own flow's verifier and metadata.
PendingIsOwn == \A f \in Flow : pending[f] # None =>
    /\ pending[f].payload.code_verifier = IF UsePkce THEN f ELSE None
    /\ pending[f].payload.metadata = f

\* A grant remembers the URL of its flow.
GrantsFitUrl == \A c \in Code : grants[c] # None =>
    LET p == pending[grants[c].flow]
    IN  /\ p # None
        /\ grants[c].redirect_uri = p.payload.redirect_uri
        /\ grants[c].challenge = p.payload.code_verifier
        /\ Resource # None => grants[c].audience = Resource

\* A response as sent names the flow its code was granted for.
ResponsesFitGrants == \A r \in responses :
    grants[r.code] # None /\ grants[r.code].flow = r.state

\* A form carries the code of the response it answers, and the rest from the
\* pending state of the flow that response arrived under.
FormFitsState(x) == LET r == calls[x].response
                    IN  /\ r \in Response /\ grants[r.code] # None
                        /\ pending[r.state] # None
                        /\ calls[x].form = FormOf(r, pending[r.state])
                        /\ calls[x].context # None => calls[x].context = r.state
FormsFitState == \A x \in Call : calls[x].form # None => FormFitsState(x)

WiredHasForm == \A x \in Call : calls[x].wire # "none" => calls[x].form # None

FormInv == /\ AttemptInv /\ PendingIsOwn /\ GrantsFitUrl /\ ResponsesFitGrants
           /\ FormsFitState /\ WiredHasForm

\* The code of a form was granted.
LEMMA FormCode ==
    ASSUME FormInv, NEW x \in Call, calls[x].form # None
    PROVE  /\ calls[x].response \in Response /\ calls[x].form.code = calls[x].response.code
           /\ calls[x].form.code \in Code /\ grants[calls[x].form.code] # None
<1>1. FormFitsState(x)
  BY DEF FormInv, FormsFitState
<1>2. calls[x].form.code = calls[x].response.code
  BY <1>1 DEF FormFitsState, FormOf
<1> QED
  BY <1>1, <1>2 DEF FormFitsState, Response

\* What a step may be to one call.
LEMMA CallCases ==
    ASSUME AttemptInv, [Next]_vars, NEW x \in Call
    PROVE  \/ calls'[x] = calls[x]
           \/ \E r \in Delivered : Rejected(x, r)
           \/ \E r \in Delivered : ExchangeState(x, r)
           \/ \E r \in Delivered : ExchangeArgs(x, r)
           \/ EndpointRedeems(x) \/ EndpointRefuses(x) \/ CallEnds(x)
<1>0. TypeInv
  BY DEF AttemptInv
<1>1. ASSUME NEW y \in Call, NEW r \in Delivered,
             Rejected(y, r) \/ ExchangeState(y, r) \/ ExchangeArgs(y, r)
      PROVE  y # x => calls'[x] = calls[x]
  BY <1>0, <1>1, ExchangeRejectedEffect, ExchangeStateEffect, ExchangeArgsEffect DEF Rejected
<1>2. ASSUME NEW y \in Call, Later(y) PROVE y # x => calls'[x] = calls[x]
  BY <1>0, <1>2, LaterEffect
<1>3. ASSUME UNCHANGED calls PROVE calls'[x] = calls[x]
  BY <1>3
<1> QED
  BY <1>1, <1>2, <1>3, StepCases DEF GetAuthorizationUrl, Authorize, ClockMoves, vars, Later

\* Whatever is delivered carries a code that was granted.
LEMMA DeliveredIsGranted ==
    ASSUME TypeInv, ResponsesFitGrants, NEW r \in Delivered
    PROVE  r \in Response /\ grants[r.code] # None
<1>1. responses \subseteq Response /\ r \in Response
  BY DeliveredTyped DEF TypeInv, TypeOK
<1>2. \E q \in responses : r.code = q.code
  BY <1>1 DEF Delivered, Response
<1> QED
  BY <1>1, <1>2 DEF ResponsesFitGrants

\* A response with a code granted before is not new.
LEMMA NewResponseHasNewCode ==
    ASSUME TypeInv, [Next]_vars, NEW r \in responses', r \notin responses
    PROVE  grants[r.code] = None
<1>1. ASSUME NEW f \in Flow, NEW c \in Code, NEW i \in Issuer, Authorize(f, c, i)
      PROVE  grants[r.code] = None
  <2>1. r = [state |-> f, code |-> c, iss |-> i] /\ grants[c] = None
    BY <1>1, AuthorizeEffect
  <2> QED
    BY <2>1
<1>2. ASSUME NEW x \in Call, NEW q \in Delivered,
             Rejected(x, q) \/ ExchangeState(x, q) \/ ExchangeArgs(x, q)
      PROVE  responses' = responses
  BY <1>2, ExchangeRejectedEffect, ExchangeStateEffect, ExchangeArgsEffect DEF Rejected
<1>3. ASSUME NEW x \in Call, Later(x) PROVE responses' = responses
  BY <1>3, LaterEffect
<1> QED
  BY <1>1, <1>2, <1>3, StepCases DEF GetAuthorizationUrl, ClockMoves, vars

LEMMA FormInit == Init => FormInv
<1> SUFFICES ASSUME Init PROVE FormInv
  OBVIOUS
<1>1. \A x \in Call : calls[x].form = None /\ calls[x].wire = "none"
  BY DEF Init, IdleCall
<1> QED
  BY <1>1, AttemptInit
  DEF Init, FormInv, PendingIsOwn, GrantsFitUrl, ResponsesFitGrants, FormsFitState, WiredHasForm

LEMMA PendingIsOwnStep == FormInv /\ [Next]_vars => PendingIsOwn'
<1> SUFFICES ASSUME FormInv, [Next]_vars PROVE PendingIsOwn'
  OBVIOUS
<1>0. TypeInv
  BY DEF FormInv, AttemptInv
<1>1. ASSUME NEW f \in Flow, NEW r \in Redirect, GetAuthorizationUrl(f, r)
      PROVE  PendingIsOwn'
  <2> DEFINE p == PendingFor(f, r)
  <2>1. pending' = [pending EXCEPT ![f] = p]
    BY <1>0, <1>1, OpenEffect
  <2>2. p.payload.code_verifier = (IF UsePkce THEN f ELSE None) /\ p.payload.metadata = f
    BY DEF PendingFor
  <2> HIDE DEF p
  <2>3. \A g \in Flow : pending'[g] = IF g = f THEN p ELSE pending[g]
    BY <1>0, <2>1 DEF TypeInv, TypeOK
  <2> QED
    BY <2>2, <2>3 DEF FormInv, PendingIsOwn
<1>2. ASSUME UNCHANGED pending PROVE PendingIsOwn'
  BY <1>2 DEF FormInv, PendingIsOwn
<1>3. ASSUME NEW x \in Call, NEW r \in Delivered,
             Rejected(x, r) \/ ExchangeState(x, r) \/ ExchangeArgs(x, r)
      PROVE  UNCHANGED pending
  BY <1>0, <1>3, ExchangeRejectedEffect, ExchangeStateEffect, ExchangeArgsEffect DEF Rejected
<1>4. ASSUME NEW x \in Call, Later(x) PROVE UNCHANGED pending
  BY <1>0, <1>4, LaterEffect
<1> QED
  BY <1>1, <1>2, <1>3, <1>4, StepCases DEF Authorize, ClockMoves, vars

\* A code is granted by Authorize, and by nothing else.
LEMMA GrantedByAuthorize ==
    ASSUME TypeInv, [Next]_vars, NEW c \in Code, grants[c] = None, grants'[c] # None
    PROVE  \E f \in Flow, i \in Issuer : Authorize(f, c, i)
<1>1. ASSUME NEW f \in Flow, NEW d \in Code, NEW i \in Issuer, Authorize(f, d, i)
      PROVE  d = c
  BY <1>1, AuthorizeEffect
<1>2. ASSUME NEW x \in Call, NEW r \in Delivered,
             Rejected(x, r) \/ ExchangeState(x, r) \/ ExchangeArgs(x, r)
      PROVE  grants' = grants
  BY <1>2, ExchangeRejectedEffect, ExchangeStateEffect, ExchangeArgsEffect DEF Rejected
<1>3. ASSUME NEW x \in Call, Later(x) PROVE FALSE
  BY <1>3, LaterEffect
<1> QED
  BY <1>1, <1>2, <1>3, StepCases DEF GetAuthorizationUrl, ClockMoves, vars

LEMMA GrantsFitUrlStep == FormInv /\ [Next]_vars => GrantsFitUrl'
<1> SUFFICES ASSUME FormInv, [Next]_vars, NEW c \in Code, grants'[c] # None
             PROVE  LET p == pending'[grants'[c].flow]
                    IN  /\ p # None
                        /\ grants'[c].redirect_uri = p.payload.redirect_uri
                        /\ grants'[c].challenge = p.payload.code_verifier
                        /\ Resource # None => grants'[c].audience = Resource
  BY DEF GrantsFitUrl
<1>0. TypeInv /\ TypeInv' /\ AttemptInv /\ GrantsStay
  BY TypeStep, GrantsStayStep DEF FormInv, AttemptInv
<1>1. \A f \in Flow : pending[f] # None => pending'[f] = pending[f]
  BY <1>0, NothingUndone
<1>2. CASE grants[c] # None
  <2>1. grants[c].flow \in Flow
    BY <1>0, <1>2 DEF TypeInv, TypeOK, Grant
  <2> QED
    BY <1>0, <1>1, <1>2, <2>1 DEF FormInv, GrantsFitUrl, GrantsStay, SameGrant
<1>3. CASE grants[c] = None
  <2>1. PICK f \in Flow, i \in Issuer : Authorize(f, c, i)
    BY <1>0, <1>3, GrantedByAuthorize
  <2> QED
    BY <1>0, <2>1, AuthorizeEffect
<1> QED
  BY <1>2, <1>3

LEMMA ResponsesFitGrantsStep == FormInv /\ [Next]_vars => ResponsesFitGrants'
<1> SUFFICES ASSUME FormInv, [Next]_vars, NEW r \in responses'
             PROVE  grants'[r.code] # None /\ grants'[r.code].flow = r.state
  BY DEF ResponsesFitGrants
<1>0. TypeInv /\ TypeInv' /\ GrantsStay
  BY TypeStep, GrantsStayStep DEF FormInv, AttemptInv
<1>1. CASE r \in responses
  <2>1. r.code \in Code
    BY <1>0, <1>1 DEF TypeInv, TypeOK, Response
  <2> QED
    BY <1>0, <1>1, <2>1 DEF FormInv, ResponsesFitGrants, GrantsStay, SameGrant
<1>2. ASSUME NEW f \in Flow, NEW c \in Code, NEW i \in Issuer, Authorize(f, c, i),
             r \notin responses
      PROVE  grants'[r.code] # None /\ grants'[r.code].flow = r.state
  <2>1. r = [state |-> f, code |-> c, iss |-> i] /\ grants'[c] # None /\ grants'[c].flow = f
    BY <1>0, <1>2, AuthorizeEffect
  <2> QED
    BY <2>1
<1>3. ASSUME NEW x \in Call, NEW q \in Delivered,
             Rejected(x, q) \/ ExchangeState(x, q) \/ ExchangeArgs(x, q)
      PROVE  responses' = responses
  BY <1>0, <1>3, ExchangeRejectedEffect, ExchangeStateEffect, ExchangeArgsEffect DEF Rejected
<1>4. ASSUME NEW x \in Call, Later(x) PROVE responses' = responses
  BY <1>0, <1>4, LaterEffect
<1> QED
  BY <1>1, <1>2, <1>3, <1>4, StepCases DEF GetAuthorizationUrl, ClockMoves, vars

LEMMA FormsFitStateStep ==
    FormInv /\ [Next]_vars => FormsFitState' /\ WiredHasForm'
<1> SUFFICES ASSUME FormInv, [Next]_vars, NEW x \in Call
             PROVE  /\ calls'[x].form # None => FormFitsState(x)'
                    /\ calls'[x].wire # "none" => calls'[x].form # None
  BY DEF FormsFitState, WiredHasForm
<1>0. TypeInv /\ TypeInv' /\ AttemptInv /\ GrantsStay
  BY TypeStep, GrantsStayStep DEF FormInv, AttemptInv
<1>1. \A f \in Flow : pending[f] # None => pending'[f] = pending[f]
  BY <1>0, NothingUndone
<1>2. ASSUME calls[x].form # None, calls'[x].form = calls[x].form,
             calls'[x].response = calls[x].response, calls'[x].context = calls[x].context
      PROVE  FormFitsState(x)'
  <2>1. FormFitsState(x)
    BY <1>2 DEF FormInv, FormsFitState
  <2>2. calls[x].response.code \in Code /\ calls[x].response.state \in Flow
    BY <2>1 DEF FormFitsState, Response
  <2> QED
    BY <1>0, <1>1, <1>2, <2>1, <2>2 DEF FormFitsState, GrantsStay, FormOf
<1>3. CASE calls'[x] = calls[x]
  BY <1>2, <1>3 DEF FormInv, WiredHasForm
<1>4. ASSUME NEW r \in Delivered, Rejected(x, r)
      PROVE  calls'[x].form = None /\ calls'[x].wire = "none"
  BY <1>0, <1>4, ExchangeRejectedEffect DEF Rejected
<1>5. ASSUME NEW r \in Delivered, ExchangeState(x, r)
      PROVE  FormFitsState(x)' /\ calls'[x].form # None
  <2>1. /\ r \in Response /\ states[r.state] # None
        /\ calls'[x].response = r /\ calls'[x].form = FormOf(r, states[r.state])
        /\ calls'[x].context = states[r.state].payload.metadata
        /\ UNCHANGED <<pending, grants>>
    BY <1>0, <1>5, ExchangeStateEffect
  <2>2. r.state \in Flow /\ r.code \in Code
    BY <2>1 DEF Response
  <2>3. pending[r.state] = states[r.state] /\ pending[r.state] # None
    BY <1>0, <2>1, <2>2 DEF AttemptInv, HeldIsPending
  <2>4. pending[r.state].payload.metadata = r.state
    BY <2>2, <2>3 DEF FormInv, PendingIsOwn
  <2>5. grants[r.code] # None
    BY <1>0, DeliveredIsGranted DEF FormInv
  <2>6. FormFitsState(x)'
    BY <2>1, <2>3, <2>4, <2>5 DEF FormFitsState
  <2>7. calls'[x].form \in Form
    BY <1>0, <1>5, ExchangeStateEffect DEF AskedHasForm
  <2> QED
    BY <2>6, <2>7, NoneIsNoObject
<1>6. ASSUME NEW r \in Delivered, ExchangeArgs(x, r)
      PROVE  FormFitsState(x)' /\ calls'[x].form # None
  <2>1. /\ r \in Response /\ pending[r.state] # None
        /\ calls'[x].response = r /\ calls'[x].form = FormOf(r, pending[r.state])
        /\ calls'[x].context = None
        /\ UNCHANGED <<pending, grants>>
    BY <1>0, <1>6, ExchangeArgsEffect
  <2>2. grants[r.code] # None
    BY <1>0, DeliveredIsGranted DEF FormInv
  <2>3. FormFitsState(x)'
    BY <2>1, <2>2 DEF FormFitsState
  <2>4. calls'[x].form \in Form
    BY <1>0, <1>6, ExchangeArgsEffect DEF AskedHasForm
  <2> QED
    BY <2>3, <2>4, NoneIsNoObject
<1>7. CASE EndpointRedeems(x) \/ EndpointRefuses(x) \/ CallEnds(x)
  <2>1. Kept(x)
    BY <1>0, <1>7, LaterEffect DEF Later
  <2>2. calls'[x].wire # "none" => calls[x].wire # "none"
    <3>1. CASE EndpointRedeems(x) \/ EndpointRefuses(x)
      BY <3>1 DEF EndpointRedeems, EndpointRefuses
    <3>2. CASE CallEnds(x)
      BY <1>0, <3>2, AnswersTyped, EndEffect DEF CallEnds, Answered, Unanswered
    <3> QED
      BY <1>7, <3>1, <3>2
  <2> QED
    BY <1>2, <2>1, <2>2 DEF Kept, FormInv, WiredHasForm
<1> QED
  BY <1>0, <1>3, <1>4, <1>5, <1>6, <1>7, CallCases

LEMMA FormStep == FormInv /\ [Next]_vars => FormInv'
BY AttemptStep, PendingIsOwnStep, GrantsFitUrlStep, ResponsesFitGrantsStep, FormsFitStateStep
DEF FormInv

\* The answer that says the code is bad differs from all others, and only the
\* answer with a token makes a TokenSet.
LEMMA AnswersDiffer ==
    /\ Endpoint!ErrorReply("invalid_grant") \notin Useless
    /\ \A c : Endpoint!TokenReply(c) # Endpoint!ErrorReply("invalid_grant")
    /\ \A a \in Useless \cup {Endpoint!ErrorReply("invalid_grant"), Endpoint!NoAnswer} :
          Endpoint!ExchangeOutcome(a) # "TokenSet"
<1>1. Endpoint!ErrorReply("invalid_grant").error = "invalid_grant"
  BY DEF Endpoint!ErrorReply
<1>2. \A a \in Useless : a.error = "absent"
  BY DEF Useless
<1>3. \A c : Endpoint!TokenReply(c).error = "absent"
  BY DEF Endpoint!TokenReply
<1>4. \A a \in Useless : Endpoint!ExchangeOutcome(a) # "TokenSet"
  BY DEF Useless, Endpoint!ExchangeOutcome, Endpoint!IsTokenBody, Endpoint!ParseOutcome
<1>5. Endpoint!ExchangeOutcome(Endpoint!ErrorReply("invalid_grant")) # "TokenSet"
  BY DEF Endpoint!ErrorReply, Endpoint!ExchangeOutcome, Endpoint!IsTokenBody
<1>6. Endpoint!ExchangeOutcome(Endpoint!NoAnswer) # "TokenSet"
  BY DEF Endpoint!NoAnswer, Endpoint!ExchangeOutcome, Endpoint!IsTokenBody
<1> QED
  BY <1>1, <1>2, <1>3, <1>4, <1>5, <1>6

\* The call whose request the endpoint works on, and what it is told.
LEMMA RedeemedCall ==
    ASSUME TypeInv, NEW x \in Call, EndpointRedeems(x)
    PROVE  /\ calls[x].wire = "request" /\ Redeemable(calls[x].form)
           /\ calls'[x].wire = "answered" /\ calls'[x].outcome = calls[x].outcome
           /\ calls'[x].pc = calls[x].pc
           /\ calls'[x].answer \in Useless \cup {Endpoint!TokenReply(calls[x].form.code)}
<1>1. PICK a \in {Endpoint!TokenReply(calls[x].form.code)} \cup Useless :
         calls' = [calls EXCEPT ![x].wire = "answered", ![x].answer = a]
  BY DEF EndpointRedeems
<1>2. calls[x].form.code \in Code
  BY DEF EndpointRedeems, TypeInv, AskedHasForm, Form
<1>3. a \in Endpoint!Reply
  BY <1>2, AnswersTyped
<1> QED
  BY <1>1, <1>3, AnswerEffect DEF EndpointRedeems

LEMMA RefusedCall ==
    ASSUME TypeInv, NEW x \in Call, EndpointRefuses(x)
    PROVE  /\ calls[x].wire = "request" /\ ~ Redeemable(calls[x].form)
           /\ calls'[x].wire = "answered" /\ calls'[x].outcome = calls[x].outcome
           /\ calls'[x].pc = calls[x].pc
           /\ calls'[x].answer \in Useless \cup {Endpoint!ErrorReply("invalid_grant")}
           /\ UNCHANGED <<grants, responses>>
<1>1. PICK a \in {Endpoint!ErrorReply("invalid_grant")} \cup Useless :
         calls' = [calls EXCEPT ![x].wire = "answered", ![x].answer = a]
  BY DEF EndpointRefuses
<1>2. a \in Endpoint!Reply
  BY AnswersTyped
<1> QED
  BY <1>1, <1>2, AnswerEffect DEF EndpointRefuses

LEMMA EndedCall ==
    ASSUME TypeInv, NEW x \in Call, CallEnds(x)
    PROVE  /\ calls'[x].wire = calls[x].wire /\ calls'[x].answer = calls[x].answer
           /\ calls'[x].pc = "done" /\ calls[x].pc = "waiting"
           /\ \/ /\ calls[x].wire = "answered"
                 /\ calls'[x].outcome = Endpoint!ExchangeOutcome(calls[x].answer)
              \/ calls'[x].outcome = Endpoint!ExchangeOutcome(Endpoint!NoAnswer)
BY AnswersTyped, EndEffect DEF CallEnds, Answered, Unanswered

\* The form sent for a response that arrived as it was sent is redeemable, if
\* its code is this client's server's and not yet redeemed.
LEMMA GenuineFormIsRedeemable ==
    ASSUME FormInv, NEW x \in Call, calls[x].form # None, calls[x].response \in responses,
           grants[calls[x].form.code].minter = Home, ~ grants[calls[x].form.code].redeemed
    PROVE  Redeemable(calls[x].form)
<1> DEFINE r == calls[x].response
           g == grants[r.code]
           p == pending[r.state]
<1>1. /\ r \in Response /\ g # None /\ p # None /\ calls[x].form = FormOf(r, p)
  BY DEF FormInv, FormsFitState, FormFitsState
<1>2. r.code \in Code /\ g.flow = r.state
  BY <1>1 DEF FormInv, ResponsesFitGrants, Response
<1>3. /\ g.redirect_uri = p.payload.redirect_uri
      /\ g.challenge = p.payload.code_verifier
      /\ Resource # None => g.audience = Resource
  BY <1>1, <1>2 DEF FormInv, GrantsFitUrl
<1>4. /\ calls[x].form.code = r.code /\ calls[x].form.redirect_uri = p.payload.redirect_uri
      /\ calls[x].form.code_verifier = p.payload.code_verifier
      /\ calls[x].form.resource = Resource
  BY <1>1 DEF FormOf
<1> QED
  BY <1>1, <1>3, <1>4 DEF Redeemable

LEMMA GenuineStep == FormInv /\ GenuineIsHonoured /\ [Next]_vars => GenuineIsHonoured'
<1> SUFFICES ASSUME FormInv, GenuineIsHonoured, [Next]_vars, NEW x \in Call,
                    calls'[x].wire = "answered",
                    calls'[x].answer = Endpoint!ErrorReply("invalid_grant"),
                    calls'[x].response \in responses',
                    grants'[calls'[x].form.code].minter = Home
             PROVE  grants'[calls'[x].form.code].redeemed
  BY DEF GenuineIsHonoured
<1>0. TypeInv /\ AttemptInv /\ GrantsStay
  BY GrantsStayStep DEF FormInv, AttemptInv
<1> DEFINE Settled == /\ calls[x].form # None /\ calls'[x].form = calls[x].form
                      /\ calls'[x].response = calls[x].response
<1>1. ASSUME Settled
      PROVE  /\ calls[x].form.code \in Code /\ grants[calls[x].form.code] # None
             /\ calls[x].response \in responses
  <2>1. /\ calls[x].response \in Response /\ grants[calls[x].response.code] # None
        /\ calls[x].form.code = calls[x].response.code
    BY <1>1, FormCode
  <2>2. calls[x].response \in responses
    BY <1>0, <1>1, <2>1, NewResponseHasNewCode
  <2> QED
    BY <2>1, <2>2 DEF Response
<1>2. ASSUME Settled, calls[x].wire = "answered", calls'[x].answer = calls[x].answer
      PROVE  grants'[calls'[x].form.code].redeemed
  BY <1>0, <1>1, <1>2 DEF GenuineIsHonoured, GrantsStay, SameGrant
<1>3. calls[x].wire # "none" => calls[x].form # None
  BY DEF FormInv, WiredHasForm
<1>4. CASE calls'[x] = calls[x]
  BY <1>2, <1>3, <1>4
<1>5. ASSUME NEW r \in Delivered, Rejected(x, r) \/ ExchangeState(x, r) \/ ExchangeArgs(x, r)
      PROVE  FALSE
  BY <1>0, <1>5, ExchangeRejectedEffect, ExchangeStateEffect, ExchangeArgsEffect DEF Rejected
<1>6. CASE EndpointRedeems(x)
  BY <1>0, <1>6, RedeemedCall, AnswersDiffer
<1>7. CASE EndpointRefuses(x)
  <2>1. /\ calls[x].wire = "request" /\ ~ Redeemable(calls[x].form)
        /\ UNCHANGED <<grants, responses>>
    BY <1>0, <1>7, RefusedCall
  <2>2. Settled
    BY <1>0, <1>3, <1>7, <2>1, LaterEffect DEF Later, Kept
  <2> QED
    BY <1>1, <2>1, <2>2, GenuineFormIsRedeemable
<1>8. CASE CallEnds(x)
  <2>1. calls'[x].wire = calls[x].wire /\ calls'[x].answer = calls[x].answer
    BY <1>0, <1>8, EndedCall
  <2>2. Settled
    BY <1>0, <1>3, <1>8, <2>1, LaterEffect DEF Later, Kept
  <2> QED
    BY <1>2, <2>1, <2>2
<1> QED
  BY <1>0, <1>4, <1>5, <1>6, <1>7, <1>8, CallCases

\* Whatever the configuration, the number of logins under way and the order in
\* which responses arrive: the token endpoint has no reason to refuse the form
\* of a response that arrived as it was sent, but that its code was redeemed.
THEOREM FlowGenuineIsHonoured == Spec => []GenuineIsHonoured
<1>1. Init => FormInv /\ GenuineIsHonoured
  <2>1. Init => \A x \in Call : calls[x].wire = "none"
    BY DEF Init, IdleCall
  <2> QED
    BY <2>1, FormInit DEF GenuineIsHonoured
<1>2. FormInv /\ GenuineIsHonoured /\ [Next]_vars => FormInv' /\ GenuineIsHonoured'
  BY FormStep, GenuineStep
<1> QED
  BY <1>1, <1>2, PTL DEF Spec

------------------------------------------------------------------------------
(* The context of a TokenSet.                                              *)

\* A call that has a token in its answer sent the code of the flow its response
\* arrived under; a TokenSet is made of such an answer only.
GotToken(x) == /\ calls[x].wire = "answered"
               /\ Endpoint!ExchangeOutcome(calls[x].answer) = "TokenSet"
TokensFitState == \A x \in Call :
    /\ GotToken(x) => grants[calls[x].form.code].flow = calls[x].response.state
    /\ calls[x].outcome = "TokenSet" => GotToken(x)

\* With PKCE the endpoint redeems a form only under the state of its own flow.
LEMMA PkceBindsState ==
    ASSUME FormInv, UsePkce, NEW x \in Call, calls[x].form # None, Redeemable(calls[x].form)
    PROVE  /\ calls[x].form.code \in Code /\ grants[calls[x].form.code] # None
           /\ grants[calls[x].form.code].flow = calls[x].response.state
<1> DEFINE r == calls[x].response
           g == grants[r.code]
<1>0. TypeInv
  BY DEF FormInv, AttemptInv
<1>1. /\ r \in Response /\ g # None /\ pending[r.state] # None
      /\ calls[x].form = FormOf(r, pending[r.state])
  BY DEF FormInv, FormsFitState, FormFitsState
<1>2. calls[x].form.code = r.code /\ r.code \in Code /\ r.state \in Flow
      /\ calls[x].form.code_verifier = pending[r.state].payload.code_verifier
  BY <1>1 DEF FormOf, Response
<1>3. g.flow \in Flow /\ pending[g.flow] # None
      /\ g.challenge = pending[g.flow].payload.code_verifier
  BY <1>0, <1>1, <1>2 DEF FormInv, GrantsFitUrl, TypeInv, TypeOK, Grant
<1>4. g.challenge = g.flow /\ calls[x].form.code_verifier = r.state
  BY <1>1, <1>2, <1>3 DEF FormInv, PendingIsOwn
<1>5. g.challenge = calls[x].form.code_verifier
  BY <1>2, <1>3, <1>4, FlowAssumption DEF Redeemable
<1> QED
  BY <1>1, <1>2, <1>4, <1>5

LEMMA TokensFitStateStep ==
    FormInv /\ TokensFitState /\ UsePkce /\ [Next]_vars => TokensFitState'
<1> SUFFICES ASSUME FormInv, TokensFitState, UsePkce, [Next]_vars, NEW x \in Call
             PROVE  /\ GotToken(x)' => grants'[calls'[x].form.code].flow
                                         = calls'[x].response.state
                    /\ calls'[x].outcome = "TokenSet" => GotToken(x)'
  BY DEF TokensFitState
<1>0. TypeInv /\ AttemptInv /\ GrantsStay
  BY GrantsStayStep DEF FormInv, AttemptInv
<1>1. calls[x].wire # "none" =>
         /\ calls[x].form # None /\ calls[x].form.code \in Code
         /\ grants[calls[x].form.code] # None
  BY FormCode DEF FormInv, WiredHasForm
<1>2. ASSUME calls'[x].wire = calls[x].wire, calls'[x].answer = calls[x].answer,
             calls'[x].form = calls[x].form, calls'[x].response = calls[x].response
      PROVE  /\ GotToken(x)' <=> GotToken(x)
             /\ GotToken(x)' => grants'[calls'[x].form.code].flow = calls'[x].response.state
  BY <1>0, <1>1, <1>2 DEF GotToken, TokensFitState, GrantsStay, SameGrant
<1>3. CASE calls'[x] = calls[x]
  BY <1>2, <1>3 DEF TokensFitState
<1>4. ASSUME NEW r \in Delivered, Rejected(x, r) \/ ExchangeState(x, r) \/ ExchangeArgs(x, r)
      PROVE  calls'[x].wire # "answered" /\ calls'[x].outcome # "TokenSet"
  BY <1>0, <1>4, ExchangeRejectedEffect, ExchangeStateEffect, ExchangeArgsEffect DEF Rejected
<1>5. CASE EndpointRedeems(x)
  <2>1. /\ calls[x].wire = "request" /\ Redeemable(calls[x].form)
        /\ calls'[x].outcome = calls[x].outcome
    BY <1>0, <1>5, RedeemedCall
  <2>2. /\ grants[calls[x].form.code] # None /\ calls[x].form.code \in Code
        /\ grants[calls[x].form.code].flow = calls[x].response.state
    BY <1>1, <2>1, PkceBindsState
  <2>3. Kept(x)
    BY <1>0, <1>5, LaterEffect DEF Later
  <2>4. calls'[x].outcome # "TokenSet"
    BY <2>1 DEF TokensFitState, GotToken
  <2> QED
    BY <1>0, <2>2, <2>3, <2>4 DEF Kept, GrantsStay, SameGrant
<1>6. CASE EndpointRefuses(x)
  <2>1. ~ GotToken(x)'
    BY <1>0, <1>6, RefusedCall, AnswersDiffer DEF GotToken
  <2>2. calls'[x].outcome = calls[x].outcome /\ calls[x].wire = "request"
    BY <1>0, <1>6, RefusedCall
  <2> QED
    BY <2>1, <2>2 DEF TokensFitState, GotToken
<1>7. CASE CallEnds(x)
  <2>1. /\ calls'[x].wire = calls[x].wire /\ calls'[x].answer = calls[x].answer /\ Kept(x)
    BY <1>0, <1>7, EndedCall, LaterEffect DEF Later
  <2>2. calls'[x].outcome = "TokenSet" => GotToken(x)
    BY <1>0, <1>7, EndedCall, AnswersDiffer DEF GotToken
  <2> QED
    BY <1>2, <2>1, <2>2 DEF Kept
<1> QED
  BY <1>0, <1>3, <1>4, <1>5, <1>6, <1>7, CallCases DEF GotToken

\* With PKCE a TokenSet carries the context of the flow whose user granted it,
\* however the responses of other flows were swapped on their way.
THEOREM FlowContextFitsGrant ==
    ASSUME UsePkce PROVE Spec => []ContextFitsGrant
<1>1. Init => FormInv /\ TokensFitState
  <2>1. Init => \A x \in Call : calls[x].wire = "none" /\ calls[x].outcome = "none"
    BY DEF Init, IdleCall
  <2> QED
    BY <2>1, FormInit DEF TokensFitState, GotToken
<1>2. FormInv /\ TokensFitState /\ [Next]_vars => FormInv' /\ TokensFitState'
  BY FormStep, TokensFitStateStep
<1>3. FormInv /\ TokensFitState => ContextFitsGrant
  BY DEF FormInv, TokensFitState, GotToken, WiredHasForm, FormsFitState, FormFitsState,
         ContextFitsGrant
<1> QED
  BY <1>1, <1>2, <1>3, PTL DEF Spec
------------------------------------------------------------------------------
(* A state is called invalid when it is.                                   *)

\* The call that is told so looked in the store and found nothing, or what had
\* expired.
LEMMA StateErrorCall ==
    ASSUME TypeInv, NEW x \in Call, NEW r \in Delivered, Rejected(x, r),
           calls'[x].outcome = "StateError"
    PROVE  /\ r.state \in Flow /\ calls'[x].response = r
           /\ \/ states[r.state] = None
              \/ states[r.state] # None /\ Store!IsExpired(states[r.state], now)
<1>1. r \in Response /\ r.state \in Flow
  BY DeliveredTyped DEF TypeInv, Response
<1>2. CASE ExchangeIssuerRejected(x, r)
  <2>1. "IssuerValidationError" \in Outcomes /\ Finish(x, r, "IssuerValidationError")
    BY <1>2 DEF ExchangeIssuerRejected, Outcomes
  <2> QED
    BY <1>1, <2>1, FinishEffect
<1>3. CASE ExchangeStateRejected(x, r)
  <2>1. "StateError" \in Outcomes /\ Finish(x, r, "StateError")
    BY <1>3 DEF ExchangeStateRejected, Outcomes
  <2>2. calls'[x].response = r
    BY <1>1, <2>1, FinishEffect
  <2> QED
    BY <1>1, <1>3, <2>2 DEF ExchangeStateRejected, Store!ConsumeMissing, Store!ConsumeExpired
<1> QED
  BY <1>2, <1>3 DEF Rejected

\* No answer of the token endpoint, and no lack of one, is read as a bad state.
LEMMA AnswersAreNoStateError == \A a : Endpoint!ExchangeOutcome(a) # "StateError"
BY DEF Endpoint!ExchangeOutcome, Endpoint!ParseOutcome

\* Under a clock that is never set back: when a call is told that its state is
\* invalid, its flow was never begun, has expired, or was taken by another call.
THEOREM FlowStateErrorIsDeserved ==
    ASSUME MaxBack = 0 PROVE Spec => StateErrorIsDeserved
<1>1. AttemptInv /\ BurntForACause /\ [Next]_vars =>
        [\A x \in Call : calls[x].outcome = "none" /\ calls'[x].outcome = "StateError" =>
            LET f == calls'[x].response.state
            IN  \/ pending[f] = None
                \/ Store!IsExpired(pending[f], now)
                \/ \E y \in Call : calls[y].consumed = f]_vars
  <2> SUFFICES ASSUME AttemptInv, BurntForACause, [Next]_vars, NEW x \in Call,
                      calls[x].outcome = "none", calls'[x].outcome = "StateError",
                      pending[calls'[x].response.state] # None
               PROVE  LET f == calls'[x].response.state
                      IN  \/ Store!IsExpired(pending[f], now)
                          \/ \E y \in Call : calls[y].consumed = f
    OBVIOUS
  <2>0. TypeInv
    BY DEF AttemptInv
  <2>1. ASSUME NEW r \in Delivered, ExchangeState(x, r) \/ ExchangeArgs(x, r) PROVE FALSE
    BY <2>0, <2>1, ExchangeStateEffect, ExchangeArgsEffect
  <2>2. ~ EndpointRedeems(x) /\ ~ EndpointRefuses(x)
    BY <2>0, RedeemedCall, RefusedCall
  <2>3. ~ CallEnds(x)
    BY <2>0, EndedCall, AnswersAreNoStateError
  <2>4. PICK r \in Delivered : Rejected(x, r)
    BY <2>1, <2>2, <2>3, CallCases
  <2>5. /\ r.state \in Flow /\ calls'[x].response = r
        /\ \/ states[r.state] = None
           \/ states[r.state] # None /\ Store!IsExpired(states[r.state], now)
    BY <2>0, <2>4, StateErrorCall
  <2>6. CASE states[r.state] = None
    BY <2>5, <2>6 DEF BurntForACause
  <2>7. CASE states[r.state] # None
    BY <2>5, <2>7 DEF AttemptInv, HeldIsPending
  <2> QED
    BY <2>6, <2>7
<1>2. Init => AttemptInv /\ BurntForACause
  BY AttemptInit DEF Init, BurntForACause
<1>3. AttemptInv /\ BurntForACause /\ [Next]_vars => AttemptInv' /\ BurntForACause'
  BY AttemptStep, BurntStep
<1> QED
  BY <1>1, <1>2, <1>3, PTL DEF Spec, StateErrorIsDeserved
------------------------------------------------------------------------------
(* What the flow promises a login.                                         *)

\* The phase of a login one call went on with.
CallPhase(x) == IF calls[x].pc = "waiting" THEN "redeeming"
                ELSE IF calls[x].outcome = "TokenSet" THEN "granted" ELSE "failed"

PhaseFacts == \A f \in Flow :
    /\ pending[f] = None => Phase(f) = "unopened"
    /\ states[f] # None => Phase(f) = "open"
    /\ \A x \in Call : calls[x].consumed = f => Phase(f) = CallPhase(x)
    /\ pending[f] # None /\ states[f] = None /\ (\A x \in Call : calls[x].consumed # f)
          => Phase(f) = "lapsed"

\* As long as one call at most goes on with a state, and the store holds none
\* that was taken, the phase can be told from any of them.
LEMMA PhaseIsClear == AttemptInv => PhaseFacts
<1> SUFFICES ASSUME AttemptInv, NEW f \in Flow
             PROVE  /\ pending[f] = None => Phase(f) = "unopened"
                    /\ states[f] # None => Phase(f) = "open"
                    /\ \A x \in Call : calls[x].consumed = f => Phase(f) = CallPhase(x)
                    /\ pending[f] # None /\ states[f] = None
                       /\ (\A x \in Call : calls[x].consumed # f) => Phase(f) = "lapsed"
  BY DEF PhaseFacts
<1>1. f # None
  BY FlowAssumption
<1>2. states[f] # None => pending[f] # None /\ Attempt(f) = {}
  BY <1>1 DEF AttemptInv, HeldIsPending, TakenIsGone, Attempt
<1>3. ASSUME NEW x \in Call, calls[x].consumed = f
      PROVE  pending[f] # None /\ Attempt(f) = {x}
  BY <1>1, <1>3 DEF AttemptInv, TakenIsGone, OneRequestPerState, Attempt
<1>4. ASSUME NEW x \in Call, calls[x].consumed = f PROVE Phase(f) = CallPhase(x)
  BY <1>3, <1>4 DEF Phase, CallPhase
<1> QED
  BY <1>2, <1>4 DEF Phase, Attempt

\* A login none of the parts of whose phase changes stays in its phase.
LEMMA PhaseStays ==
    ASSUME PhaseFacts, PhaseFacts', NEW f \in Flow, pending'[f] = pending[f],
           states'[f] = None <=> states[f] = None,
           \A x \in Call : /\ calls'[x].consumed = f <=> calls[x].consumed = f
                           /\ calls[x].consumed = f => CallPhase(x)' = CallPhase(x)
    PROVE  Phase(f)' = Phase(f)
<1>1. CASE pending[f] = None
  BY <1>1 DEF PhaseFacts
<1>2. CASE states[f] # None
  BY <1>2 DEF PhaseFacts
<1>3. ASSUME NEW x \in Call, calls[x].consumed = f PROVE Phase(f)' = Phase(f)
  BY <1>3 DEF PhaseFacts
<1>4. CASE pending[f] # None /\ states[f] = None /\ \A x \in Call : calls[x].consumed # f
  BY <1>4 DEF PhaseFacts
<1> QED
  BY <1>1, <1>2, <1>3, <1>4

\* When the phase of one login moves and no other's, the login moves.
LEMMA OneMoves ==
    ASSUME NEW f \in Flow, NEW a, NEW b, Phase(f) = a, Phase(f)' = b,
           \A g \in Flow \ {f} : Phase(g)' = Phase(g)
    PROVE  Login!Move(f, a, b)
BY DEF Login!Move

\* Where the store and the calls that took a state from it stay as they are,
\* nothing happens to any login.
LEMMA NoneMoves ==
    ASSUME PhaseFacts, PhaseFacts', UNCHANGED <<states, pending>>,
           \A x \in Call : /\ calls'[x].consumed = calls[x].consumed
                           /\ calls[x].consumed # None => CallPhase(x)' = CallPhase(x)
    PROVE  UNCHANGED [f \in Flow |-> Phase(f)]
<1>1. ASSUME NEW f \in Flow PROVE Phase(f)' = Phase(f)
  BY FlowAssumption, PhaseStays
<1> QED
  BY <1>1

\* A begun flow is opened, and those the store then finds expired lapse.
LEMMA OpenMaps ==
    ASSUME AttemptInv, PhaseFacts, PhaseFacts', NEW f \in Flow, NEW r \in Redirect,
           GetAuthorizationUrl(f, r)
    PROVE  Login!Open(f)
<1> DEFINE p == PendingFor(f, r)
<1>1. /\ p \in Store!Pending /\ p.state = f /\ p # None
      /\ pending[f] = None /\ pending' = [pending EXCEPT ![f] = p]
      /\ Store!Save(p) /\ calls' = calls
  BY OpenEffect, StoreConstants DEF AttemptInv
<1> HIDE DEF p
<1>2. /\ states'[f] = p
      /\ \A g \in Flow \ {f} : states'[g] \in {None, states[g]} /\ pending'[g] = pending[g]
  BY <1>1, SaveEffect DEF AttemptInv, TypeInv, TypeOK
<1>3. Phase(f) = "unopened" /\ Phase(f)' = "open"
  BY <1>1, <1>2 DEF PhaseFacts
<1>4. ASSUME NEW g \in Flow \ {f}
      PROVE  \/ Phase(g)' = Phase(g)
             \/ Phase(g) = "open" /\ Phase(g)' = "lapsed"
  <2>1. CASE states'[g] = None <=> states[g] = None
    <3>1. \A x \in Call : CallPhase(x)' = CallPhase(x)
      BY <1>1 DEF CallPhase
    <3> QED
      BY <1>1, <1>2, <2>1, <3>1, PhaseStays
  <2>2. CASE states[g] # None /\ states'[g] = None
    <3>1. pending'[g] # None /\ \A x \in Call : calls'[x].consumed # g
      BY <1>1, <1>2, <2>2, FlowAssumption DEF AttemptInv, HeldIsPending, TakenIsGone
    <3> QED
      BY <2>2, <3>1 DEF PhaseFacts
  <2> QED
    BY <1>2, <2>1, <2>2
<1> QED
  BY <1>3, <1>4 DEF Login!Open, Login!Lapsing

\* A refused call lets its own login lapse, if that had expired, and no other.
LEMMA RejectedMaps ==
    ASSUME AttemptInv, PhaseFacts, PhaseFacts', NEW x \in Call, NEW r \in Delivered,
           Rejected(x, r)
    PROVE  \/ r.state \in Flow /\ Login!Lapse(r.state)
           \/ UNCHANGED [f \in Flow |-> Phase(f)]
<1>1. r.state \in Flow
  BY DeliveredTyped DEF AttemptInv, TypeInv, Response
<1>2. /\ calls[x].consumed = None /\ calls'[x].consumed = None
      /\ \A y \in Call \ {x} : calls'[y] = calls[y]
      /\ pending' = pending
  BY ExchangeRejectedEffect DEF AttemptInv, IdleIsBlank, Rejected
<1>3. \A g \in Flow \ {r.state} : states'[g] = states[g]
  <2>1. CASE Store!ConsumeExpired(r.state)
    BY <1>1, <2>1, ConsumeEffect DEF AttemptInv, TypeInv, TypeOK
  <2> QED
    BY <2>1 DEF Rejected, ExchangeIssuerRejected, ExchangeStateRejected,
                Store!ConsumeMissing, Store!storeVars
<1>4. \A g \in Flow : states'[g] \in {None, states[g]}
  BY ExchangeRejectedEffect DEF AttemptInv, Rejected
<1>5. \A y \in Call : /\ calls'[y].consumed = calls[y].consumed
                      /\ calls[y].consumed # None => CallPhase(y)' = CallPhase(y)
  BY <1>2 DEF CallPhase
<1>6. ASSUME NEW g \in Flow, states'[g] = None <=> states[g] = None
      PROVE  Phase(g)' = Phase(g)
  BY <1>2, <1>5, <1>6, FlowAssumption, PhaseStays
<1>7. CASE states'[r.state] = None <=> states[r.state] = None
  BY <1>3, <1>6, <1>7
<1>8. CASE states[r.state] # None /\ states'[r.state] = None
  <2>1. pending'[r.state] # None /\ \A y \in Call : calls'[y].consumed # r.state
    BY <1>1, <1>2, <1>5, <1>8, FlowAssumption DEF AttemptInv, HeldIsPending, TakenIsGone
  <2>2. Phase(r.state) = "open" /\ Phase(r.state)' = "lapsed"
    BY <1>1, <1>8, <2>1 DEF PhaseFacts
  <2>3. \A g \in Flow \ {r.state} : Phase(g)' = Phase(g)
    BY <1>3, <1>6
  <2> QED
    BY <1>1, <2>2, <2>3, OneMoves DEF Login!Lapse
<1> QED
  BY <1>1, <1>4, <1>7, <1>8

\* A call that goes on with a stored state begins the one redemption.
LEMMA ExchangeStateMaps ==
    ASSUME AttemptInv, PhaseFacts, PhaseFacts', NEW x \in Call, NEW r \in Delivered,
           ExchangeState(x, r)
    PROVE  r.state \in Flow /\ Login!Redeem(r.state)
<1>1. /\ r \in Response /\ states[r.state] # None
      /\ \A g \in Flow : states'[g] = IF g = r.state THEN None ELSE states[g]
      /\ \A y \in Call \ {x} : calls'[y] = calls[y]
      /\ calls[x].pc = "idle" /\ calls'[x].consumed = r.state /\ calls'[x].pc = "waiting"
      /\ pending' = pending
  BY ExchangeStateEffect DEF AttemptInv
<1>2. r.state \in Flow
  BY <1>1 DEF Response
<1>3. Phase(r.state) = "open" /\ Phase(r.state)' = "redeeming"
  BY <1>1, <1>2 DEF PhaseFacts, CallPhase
<1>4. calls[x].consumed = None
  BY <1>1 DEF AttemptInv, IdleIsBlank
<1>5. ASSUME NEW g \in Flow \ {r.state} PROVE Phase(g)' = Phase(g)
  <2>1. \A y \in Call : /\ calls'[y].consumed = g <=> calls[y].consumed = g
                        /\ calls[y].consumed = g => CallPhase(y)' = CallPhase(y)
    BY <1>1, <1>4, FlowAssumption DEF CallPhase
  <2> QED
    BY <1>1, <2>1, PhaseStays
<1> QED
  BY <1>2, <1>3, <1>5, OneMoves DEF Login!Redeem

\* The end of a call that went on with a state ends its login; no other call
\* ends one.
LEMMA CallEndsMaps ==
    ASSUME AttemptInv, PhaseFacts, PhaseFacts', NEW x \in Call, CallEnds(x)
    PROVE  \/ UNCHANGED [f \in Flow |-> Phase(f)]
           \/ \E f \in Flow : Login!Granted(f) \/ Login!Failed(f)
<1>1. /\ \A y \in Call \ {x} : calls'[y] = calls[y]
      /\ calls'[x].consumed = calls[x].consumed
      /\ UNCHANGED <<states, pending>>
  BY LaterEffect DEF AttemptInv, Later, Kept
<1>2. calls[x].pc = "waiting" /\ calls'[x].pc = "done"
  BY EndedCall DEF AttemptInv
<1>3. CASE calls[x].consumed = None
  <2>1. \A y \in Call : /\ calls'[y].consumed = calls[y].consumed
                        /\ calls[y].consumed # None => CallPhase(y)' = CallPhase(y)
    BY <1>1, <1>3 DEF CallPhase
  <2> QED
    BY <1>1, <2>1, NoneMoves
<1>4. CASE calls[x].consumed # None
  <2>1. PICK f \in Flow : calls[x].consumed = f
    BY <1>4 DEF AttemptInv, TypeInv, TypeOK, CallRecord
  <2>2. Phase(f) = "redeeming" /\ Phase(f)' \in {"granted", "failed"}
    <3>1. Phase(f) = CallPhase(x) /\ Phase(f)' = CallPhase(x)'
      BY <1>1, <2>1 DEF PhaseFacts
    <3> QED
      BY <1>2, <3>1 DEF CallPhase
  <2>3. ASSUME NEW g \in Flow \ {f} PROVE Phase(g)' = Phase(g)
    <3>1. \A y \in Call : /\ calls'[y].consumed = g <=> calls[y].consumed = g
                          /\ calls[y].consumed = g => CallPhase(y)' = CallPhase(y)
      BY <1>1, <2>1 DEF CallPhase
    <3> QED
      BY <1>1, <3>1, PhaseStays
  <2> QED
    BY <2>2, <2>3, OneMoves DEF Login!Granted, Login!Failed
<1> QED
  BY <1>3, <1>4

LEMMA LoginStep ==
    AttemptInv /\ AttemptInv' /\ [Next]_vars => [Login!Next]_([f \in Flow |-> Phase(f)])
<1>1. AttemptInv => PhaseFacts
  BY PhaseIsClear
<1>2. AttemptInv' => PhaseFacts'
  BY PhaseIsClear, PTL
<1> SUFFICES ASSUME AttemptInv, PhaseFacts, PhaseFacts', [Next]_vars,
                    [f \in Flow |-> Phase(f)]' # [f \in Flow |-> Phase(f)]
             PROVE  Login!Next
  BY <1>1, <1>2
<1>0. TypeInv
  BY DEF AttemptInv
<1>3. ASSUME NEW f \in Flow, NEW r \in Redirect, GetAuthorizationUrl(f, r) PROVE Login!Next
  BY <1>3, OpenMaps DEF Login!Next
<1>4. ASSUME NEW x \in Call, NEW r \in Delivered, Rejected(x, r) PROVE Login!Next
  BY <1>4, RejectedMaps DEF Login!Next
<1>5. ASSUME NEW x \in Call, NEW r \in Delivered, ExchangeState(x, r) PROVE Login!Next
  BY <1>5, ExchangeStateMaps DEF Login!Next
<1>6. ASSUME NEW x \in Call, NEW r \in Delivered, ExchangeArgs(x, r) PROVE FALSE
  <2>1. /\ \A y \in Call \ {x} : calls'[y] = calls[y]
        /\ calls[x].consumed = None /\ calls'[x].consumed = None
        /\ UNCHANGED <<states, pending>>
    BY <1>0, <1>6, ExchangeArgsEffect DEF AttemptInv, IdleIsBlank
  <2>2. \A y \in Call : /\ calls'[y].consumed = calls[y].consumed
                        /\ calls[y].consumed # None => CallPhase(y)' = CallPhase(y)
    BY <2>1 DEF CallPhase
  <2> QED
    BY <2>1, <2>2, NoneMoves
<1>7. ASSUME NEW x \in Call, EndpointRedeems(x) \/ EndpointRefuses(x) PROVE FALSE
  <2>1. /\ \A y \in Call \ {x} : calls'[y] = calls[y]
        /\ \A y \in Call : calls'[y].consumed = calls[y].consumed
        /\ UNCHANGED <<states, pending>>
    BY <1>0, <1>7, LaterEffect DEF Later, Kept
  <2>2. calls'[x].pc = calls[x].pc /\ calls'[x].outcome = calls[x].outcome
    BY <1>0, <1>7, RedeemedCall, RefusedCall
  <2>3. \A y \in Call : CallPhase(y)' = CallPhase(y)
    BY <2>1, <2>2 DEF CallPhase
  <2> QED
    BY <2>1, <2>3, NoneMoves
<1>8. ASSUME NEW x \in Call, CallEnds(x) PROVE Login!Next
  BY <1>8, CallEndsMaps DEF Login!Next
<1>9. ASSUME UNCHANGED <<states, pending, calls>> PROVE FALSE
  <2>1. \A y \in Call : calls'[y].consumed = calls[y].consumed /\ CallPhase(y)' = CallPhase(y)
    BY <1>9 DEF CallPhase
  <2> QED
    BY <1>9, <2>1, NoneMoves
<1> QED
  BY <1>3, <1>4, <1>5, <1>6, <1>7, <1>8, <1>9, StepCases
  DEF Later, Authorize, ClockMoves, Store!Tick, vars

\* Each stored login is opened once and then lapses or is redeemed in a single
\* attempt, which grants or fails, whatever calls overlap and whatever becomes
\* of their requests; nothing reopens it, not even a clock set back.
THEOREM FlowOneShot == Spec => OneShot
<1>1. Init => Login!Init
  BY DEF Init, Login!Init, Phase
<1>2. AttemptInv /\ AttemptInv' /\ [Next]_vars => [Login!Next]_([f \in Flow |-> Phase(f)])
  BY LoginStep
<1> QED
  BY <1>1, <1>2, AttemptInit, AttemptStep, PTL DEF Spec, OneShot, Login!Spec
=============================================================================
