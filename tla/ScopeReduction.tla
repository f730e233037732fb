--------------------------- MODULE ScopeReduction ---------------------------
(***************************************************************************)
(* Scope reduction (README.md, Scope reduction tiers): one user of an      *)
(* application that connects through a preset, revokes with revoke_token   *)
(* and connects again to end up with fewer scopes.                         *)
(*                                                                         *)
(* The provider keeps a portal-level grant apart from the tokens issued    *)
(* under it.  Several workers may revoke the connection's token, whose     *)
(* answers get lost, while the user has already connected again.  A token  *)
(* stands for what its provider's handler wants: HubSpot's is the refresh  *)
(* token.                                                                  *)
(***************************************************************************)
EXTENDS Naturals, Sequences, Presets

CONSTANTS Provider,  \* the presets considered
          Scope,
          Worker,    \* those who may call revoke_token
          MaxTokens  \* bound on the connections made

ASSUME ReductionAssumption ==
    /\ Provider \subseteq BuiltIn
    /\ Base \in [Merging -> SUBSET Scope]
    /\ MaxTokens \in Nat
    /\ Absent \notin [epoch : Nat, scopes : SUBSET Scope]

VARIABLES provider, \* the preset in use
          portal,   \* the user's grant: the first token under it, its scopes
          tokens,   \* the connections in their order; the last is the stored one
          calls     \* [Worker -> status, token, reply]

vars == <<provider, portal, tokens, calls>>

Config == Preset(provider)

\* revoke_token and the handlers, as Revocation has them.
Revoking == INSTANCE Revocation WITH
               Call <- Worker, Passed <- {"access", "refresh"}, live <- {},
               config <- [url |-> Config.revocation_url # Absent, secret |-> TRUE],
               handler <- IF Config.handler = Absent THEN "standard" ELSE Config.handler

Idle == [status |-> "idle", token |-> 0, reply |-> Absent]

\* A grant may be left from before the application knew the user.
Init ==
    /\ provider \in Provider
    /\ portal \in {Absent} \cup [epoch : {0}, scopes : SUBSET Scope]
    /\ tokens = <<>>
    /\ calls = [w \in Worker |-> Idle]

------------------------------------------------------------------------------
\* The user goes through the authorization flow.  A provider that has a grant
\* already adds to it (models.py: "the user keeps their previously-granted
\* scopes regardless of what's requested").
Connect(asked) ==
    LET requested == Requested(provider, asked)
        n         == Len(tokens) + 1
        grant     == IF portal = Absent THEN [epoch |-> n, scopes |-> requested]
                     ELSE [portal EXCEPT !.scopes = @ \cup requested]
    IN  /\ n <= MaxTokens
        /\ ~ Refused(provider, asked)
        /\ portal' = grant
        /\ tokens' = Append(tokens, [epoch |-> grant.epoch, status |-> "live",
                                     asked |-> requested, scopes |-> grant.scopes,
                                     confirmed |-> FALSE])
        /\ UNCHANGED <<provider, calls>>

\* Mutant: the application revokes though it has stored no connection.
RevokeNothing(w) ==
    /\ calls[w].status = "idle"
    /\ Config.revocation_url # Absent
    /\ calls' = [calls EXCEPT ![w] = [Idle EXCEPT !.status = "sent", !.token = Len(tokens)]]
    /\ UNCHANGED <<provider, portal, tokens>>

\* revoke_token on the stored token, up to the handler's request.  A preset
\* without a revocation_url only gets a ConfigurationError.
Revoke(w) ==
    /\ calls[w].status = "idle" /\ tokens # <<>>
    /\ Config.revocation_url # Absent
    /\ calls' = [calls EXCEPT ![w] = [Idle EXCEPT !.status = "sent", !.token = Len(tokens)]]
    /\ UNCHANGED <<provider, portal, tokens>>

Answer(w, reply) == calls' = [calls EXCEPT ![w].status = "answered", ![w].reply = reply]

\* The tokens when all under one grant are gone.
Swept(epoch) ==
    [t \in DOMAIN tokens |->
        IF tokens[t].epoch = epoch /\ tokens[t].status = "live"
        THEN [tokens[t] EXCEPT !.status = "gone"] ELSE tokens[t]]

\* External: the endpoint revokes a live token, or the whole grant it is under.
EndpointRevokes(w, delivered) ==
    LET t == calls[w].token
    IN  /\ calls[w].status = "sent"
        /\ tokens[t].status = "live"
        /\ IF Config.revocation_url = "grant"
           THEN portal' = Absent /\ tokens' = Swept(tokens[t].epoch)
           ELSE tokens' = [tokens EXCEPT ![t].status = "gone"] /\ UNCHANGED portal
        /\ Answer(w, IF delivered THEN Revoking!Accepted ELSE "no_connection")
        /\ UNCHANGED provider

\* External: the token is not live any more.
EndpointDoesNotKnow(w) ==
    /\ calls[w].status = "sent"
    /\ tokens[calls[w].token].status # "live"
    /\ \E r \in Revoking!Unknown : Answer(w, r)
    /\ UNCHANGED <<provider, portal, tokens>>

\* External: the endpoint fails or cannot be reached.
EndpointFails(w) ==
    /\ calls[w].status = "sent"
    /\ \E r \in Revoking!Trouble \cup {"no_connection"} : Answer(w, r)
    /\ UNCHANGED <<provider, portal, tokens>>

\* The end of revoke_token: it returns True, or raises a RevocationError.
ReturnConfirmed(w) ==
    /\ calls[w].status = "answered"
    /\ Revoking!Outcome(calls[w].reply) = "True"
    /\ tokens' = [tokens EXCEPT ![calls[w].token].confirmed = TRUE]
    /\ calls' = [calls EXCEPT ![w] = Idle]
    /\ UNCHANGED <<provider, portal>>

ReturnFailed(w) ==
    /\ calls[w].status = "answered"
    /\ Revoking!Outcome(calls[w].reply) = "RevocationError"
    /\ calls' = [calls EXCEPT ![w].status = "failed", ![w].reply = Absent]
    /\ UNCHANGED <<provider, portal, tokens>>

\* A worker that was not confirmed asks again about the same token, or does not.
Retry(w) ==
    /\ calls[w].status = "failed"
    /\ calls' = [calls EXCEPT ![w].status = "sent"]
    /\ UNCHANGED <<provider, portal, tokens>>

GiveUp(w) ==
    /\ calls[w].status = "failed"
    /\ calls' = [calls EXCEPT ![w] = Idle]
    /\ UNCHANGED <<provider, portal, tokens>>

\* External: a token runs out while its grant lives on.
Lapse(t) ==
    /\ tokens[t].status = "live"
    /\ tokens' = [tokens EXCEPT ![t].status = "lapsed"]
    /\ UNCHANGED <<provider, portal, calls>>

\* External: the user removes the grant in the provider's settings (tier 3).
UserRemoves ==
    /\ portal # Absent
    /\ portal' = Absent
    /\ tokens' = Swept(portal.epoch)
    /\ UNCHANGED <<provider, calls>>

Next ==
    \/ \E asked \in SUBSET Scope : Connect(asked)
    \/ \E w \in Worker :
          \/ Revoke(w) \/ EndpointDoesNotKnow(w) \/ EndpointFails(w)
          \/ \E delivered \in BOOLEAN : EndpointRevokes(w, delivered)
          \/ ReturnConfirmed(w) \/ ReturnFailed(w) \/ Retry(w) \/ GiveUp(w)
    \/ \E t \in DOMAIN tokens : Lapse(t)
    \/ UserRemoves

Spec == Init /\ [][Next]_vars

------------------------------------------------------------------------------
Token == [epoch : Nat, status : {"live", "lapsed", "gone"}, asked : SUBSET Scope,
          scopes : SUBSET Scope, confirmed : BOOLEAN]

CallRecord == [status : {"idle", "sent", "answered", "failed"}, token : Nat,
               reply : Revoking!Reply \cup {Absent}]

\* Types of the state; a call that was sent is about a connection that was made.
TypeOK ==
    /\ provider \in Provider
    /\ portal \in {Absent} \cup [epoch : Nat, scopes : SUBSET Scope]
    /\ tokens \in Seq(Token)
    /\ calls \in [Worker -> CallRecord]
    /\ \A w \in Worker : calls[w].status # "idle" => calls[w].token \in DOMAIN tokens

\* The grant token t was issued under is no more; a later one may be.
GrantEnded(t) == portal = Absent \/ portal.epoch # tokens[t].epoch

\* A revocation confirmed by a provider with disconnect_fully_revokes took the
\* grant away, though its answer was lost, another worker or the user was
\* faster, or the user connected again meanwhile.  Nothing of the kind is true
\* of a token that had run out: its grant lives on and GitHub's handler takes
\* the 404 for confirmation.
ConfirmedEndsItsGrant ==
    \A t \in DOMAIN tokens :
        /\ tokens[t].confirmed
        /\ Config.disconnect_fully_revokes
        /\ tokens[t].status # "lapsed"
        => GrantEnded(t)

------------------------------------------------------------------------------
\* What the application may count on.
Stored == tokens[Len(tokens)]

Owed == /\ tokens # <<>>
        /\ Config.disconnect_fully_revokes
        /\ Stored.confirmed /\ Stored.status # "lapsed"

Asked == IF tokens = <<>> THEN {} ELSE Stored.asked
Held == IF tokens = <<>> THEN {} ELSE Stored.scopes

Tiers == INSTANCE ScopeTiers WITH owed <- Owed, asked <- Asked, held <- Held

\* models.py (disconnect_fully_revokes): a confirmed revocation makes the next
\* connection show a fresh consent screen, so the narrower scopes it asks for
\* take effect.
ReductionTakesEffect == Tiers!Spec
=============================================================================
