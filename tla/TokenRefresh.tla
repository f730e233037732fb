---------------------------- MODULE TokenRefresh ----------------------------
(***************************************************************************)
(* OAuthClient.refresh_token in the life of one stored grant: workers that *)
(* share the stored refresh token, a provider that may rotate it, revoke   *)
(* the grant or refuse the client, and answers that get lost or replaced   *)
(* by what a proxy has to say.                                             *)
(*                                                                         *)
(* The application is the one README.md (Token refresh) shows: it stores   *)
(* what a refresh returns, deletes the token on a PermanentOAuthError and  *)
(* otherwise tries again.  When a response omits refresh_token, TokenSet   *)
(* has None there; the application is assumed to keep the old one.         *)
(***************************************************************************)
EXTENDS TokenEndpoint, Integers

CONSTANTS Worker,        \* concurrent callers of refresh_token
          MaxRotations,  \* bound on the rotations of the refresh token
          Provider,      \* how it hands out the next token: subset of
                         \* {"rotate", "repeat", "omit"}
          ErrorStatus,   \* statuses it reports OAuth errors with
          ClientBreaks,  \* whether it may come to refuse the client
          GrantDies,     \* whether the user may revoke the grant
          Noise          \* answers that tell nothing of the grant

ASSUME RefreshAssumption ==
    /\ MaxRotations \in Nat
    /\ Provider \subseteq {"rotate", "repeat", "omit"} /\ Provider # {}
    /\ ErrorStatus \subseteq {"below_500", "5xx"} /\ ErrorStatus # {}
    /\ ClientBreaks \in BOOLEAN /\ GrantDies \in BOOLEAN
    /\ Permanent \subseteq ErrorCode
    /\ Noise \subseteq Reply
    /\ \A r \in Noise : /\ RequestErrorCode(r) \notin Permanent
                        /\ RefreshOutcome(r) # "TokenSet"

VARIABLES held,      \* refresh token the application stores, -1 once deleted
          valid,     \* refresh token the provider accepts
          grant,     \* "alive" or "revoked"
          client,    \* "accepted" or "refused" by the provider
          calls,     \* per worker, the call in progress and how the last ended
          told       \* history: an answer with a permanent code was received

vars == <<held, valid, grant, client, calls, told>>

Deleted == -1
Omitted == -1
RefreshToken == 0..MaxRotations

IdleCall == [pc |-> "idle", sent |-> Deleted, reply |-> NoAnswer, refresh |-> Omitted,
             outcome |-> "none"]

Init ==
    /\ held = 0
    /\ valid = 0
    /\ grant = "alive"
    /\ client = "accepted"
    /\ calls = [w \in Worker |-> IdleCall]
    /\ told = FALSE

------------------------------------------------------------------------------
\* refresh_token sends the token it was given and waits.
Refresh(w) ==
    /\ calls[w].pc = "idle"
    /\ held # Deleted
    /\ calls' = [calls EXCEPT ![w] = [IdleCall EXCEPT !.pc = "requested", !.sent = held]]
    /\ UNCHANGED <<held, valid, grant, client, told>>

Answer(w, r, refresh) ==
    calls' = [calls EXCEPT ![w].pc = "answered", ![w].reply = r, ![w].refresh = refresh]

\* The provider accepts the token; the next one is new, the same or not named.
Issue(w) ==
    /\ calls[w].pc = "requested"
    /\ client = "accepted" /\ grant = "alive" /\ calls[w].sent = valid
    /\ \E how \in Provider, t \in Token :
         /\ how = "rotate" => valid < MaxRotations
         /\ valid' = IF how = "rotate" THEN valid + 1 ELSE valid
         /\ Answer(w, TokenReply(t), IF how = "omit" THEN Omitted ELSE valid')
    /\ UNCHANGED <<held, grant, client, told>>

\* invalid_grant says that the token is no longer good.  Every other permanent
\* code, one the application added included, is about something else: the
\* credentials of the client, what it is registered for, its account.
Refuse(w) ==
    /\ calls[w].pc = "requested"
    /\ \E e \in Permanent, s \in ErrorStatus :
         /\ IF e = "invalid_grant" THEN grant = "revoked" \/ calls[w].sent # valid
            ELSE client = "refused"
         /\ Answer(w, [ErrorReply(e) EXCEPT !.status = s], Omitted)
    /\ UNCHANGED <<held, valid, grant, client, told>>

\* Something else answers, or the provider's answer is lost on its way back:
\* by then it may have issued the next token.  A permanent code is the
\* provider's to say (Refuse), so noise has none.
Disturb(w) ==
    /\ calls[w].pc \in {"requested", "answered"}
    /\ \E r \in Noise : calls[w].reply # r /\ Answer(w, r, Omitted)
    /\ UNCHANGED <<held, valid, grant, client, told>>

------------------------------------------------------------------------------
\* The token the application stores after a successful refresh.
Adopt(w) == IF calls[w].refresh = Omitted THEN held ELSE calls[w].refresh

\* refresh_token returns or raises, and the application acts on it.
Returned(w, outcome) ==
    /\ calls[w].pc = "answered"
    /\ RefreshOutcome(calls[w].reply) = outcome
    /\ calls' = [calls EXCEPT ![w] = [IdleCall EXCEPT !.sent = calls[w].sent,
                                                      !.outcome = outcome]]
    /\ told' = (told \/ RequestErrorCode(calls[w].reply) \in Permanent)
    /\ UNCHANGED <<valid, grant, client>>

ReturnsTokens(w) ==
    /\ Returned(w, "TokenSet")
    /\ held' = IF held = Deleted THEN Deleted ELSE Adopt(w)

RaisesPermanent(w) ==
    /\ Returned(w, "PermanentOAuthError")
    /\ held' = Deleted

RaisesOther(w) ==
    /\ \E o \in {"TokenRefreshError", "ValueError", "KeyError", "ValidationError"} : Returned(w, o)
    /\ UNCHANGED held

Ends(w) == ReturnsTokens(w) \/ RaisesPermanent(w) \/ RaisesOther(w)

\* The user revokes the grant at the provider.
UserRevokes ==
    /\ GrantDies /\ grant = "alive"
    /\ grant' = "revoked"
    /\ UNCHANGED <<held, valid, client, calls, told>>

\* A secret is rotated on one side only, the client is no longer authorized to
\* refresh or its account is suspended; and later that is put right.
ClientChanges ==
    /\ ClientBreaks
    /\ client' = IF client = "accepted" THEN "refused" ELSE "accepted"
    /\ UNCHANGED <<held, valid, grant, calls, told>>

Next ==
    \/ \E w \in Worker : Refresh(w) \/ Issue(w) \/ Refuse(w) \/ Disturb(w) \/ Ends(w)
    \/ UserRevokes
    \/ ClientChanges

Spec == Init /\ [][Next]_vars

\* The application keeps trying, every call returns, and of endlessly many
\* requests the provider gets to answer some.
FairSpec ==
    /\ Spec
    /\ \A w \in Worker :
         /\ WF_vars(Refresh(w))
         /\ WF_vars(ReturnsTokens(w))
         /\ SF_vars(RaisesPermanent(w))
         /\ WF_vars(RaisesOther(w))
         /\ SF_vars(Refuse(w))

------------------------------------------------------------------------------
CallRecord == [pc : {"idle", "requested", "answered"},
               sent : RefreshToken \cup {Deleted}, reply : Reply,
               refresh : RefreshToken \cup {Omitted}, outcome : Outcome \cup {"none"}]

\* Types of the state.
TypeOK ==
    /\ held \in RefreshToken \cup {Deleted}
    /\ valid \in RefreshToken
    /\ grant \in {"alive", "revoked"}
    /\ client \in {"accepted", "refused"}
    /\ calls \in [Worker -> CallRecord]
    /\ told \in BOOLEAN

\* The permanent codes that a token may outlive.
NotAboutToken(r) == RequestErrorCode(r) \in Permanent \ {"invalid_grant"}

\* A lost connection, a proxy's page, a 5xx or a malformed body never makes
\* the application give its token up: only a permanent code does.
NoiseDeletesNothing == held = Deleted => told

\* A token that was deleted is one the provider would no longer have taken: it
\* was rotated away (its successor's answer may have been lost) or the grant is
\* revoked.  Not so in two cases: the code was one of those that are permanent
\* but not about the token (invalid_client, unauthorized_client, what the
\* application added), which errors.py says of PermanentOAuthError; and, the
\* limit README.md states, several workers refresh with rotation and the token
\* stored meanwhile by another is deleted on the word about the one this call
\* had sent.
DeletedOnlyIfDead ==
    [][\A w \in Worker : RaisesPermanent(w) /\ held # Deleted =>
          \/ grant = "revoked"
          \/ held # valid
          \/ NotAboutToken(calls[w].reply)
          \/ calls[w].sent # valid /\ calls[w].sent # held]_vars

\* When the user has revoked the grant, an application that keeps refreshing
\* is told so for good, whatever statuses the provider reports errors with.
RevocationIsNoticed == grant = "revoked" ~> held = Deleted

\* Strengthening under which it is inductive: tokens are numbered in the order
\* they were issued, and a permanent code was true when it was said and is yet.
NoneFromTheFuture ==
    /\ held <= valid
    /\ \A w \in Worker : calls[w].sent <= valid /\ calls[w].refresh <= valid
VerdictStands ==
    \A w \in Worker :
        calls[w].pc = "answered" /\ RequestErrorCode(calls[w].reply) \in Permanent =>
            \/ grant = "revoked"
            \/ calls[w].sent # valid
            \/ NotAboutToken(calls[w].reply)
RefreshInv == TypeOK /\ NoneFromTheFuture /\ VerdictStands

\* README.md:601: "The token is gone" when PermanentOAuthError is raised.
PermanentMeansGone ==
    [][\A w \in Worker :
          calls[w].pc = "answered" /\ calls'[w].outcome = "PermanentOAuthError"
             => grant = "revoked" \/ calls[w].sent # valid]_vars

\* README.md:595: "All exceptions inherit from OAuthError".
OnlyOAuthErrors ==
    \A w \in Worker : calls[w].outcome \notin {"ValueError", "KeyError", "ValidationError"}
=============================================================================
