----------------------------- MODULE Revocation -----------------------------
(***************************************************************************)
(* OAuthClient.revoke_token and the revocation handlers behind it, called  *)
(* by an application that disconnects a user and asks again when a         *)
(* revocation was not confirmed.                                           *)
(*                                                                         *)
(* The provider holds one grant with an access and a refresh token.  What  *)
(* its endpoint does and answers is external: it is what the handlers'     *)
(* docstrings say of it, and where they say nothing, any answer: one       *)
(* assumption of weight is that the status a docstring reads as "already   *)
(* gone" is not sent about a token that still works.  A status             *)
(* stands for its class: "server_error" is every 5xx.                      *)
(***************************************************************************)
CONSTANTS Absent,       \* Python's None
          Call,         \* calls of revoke_token
          Passed        \* the tokens an application passes

ASSUME PassedAssumption ==
    /\ Passed \subseteq {"access", "refresh"}
    /\ Absent \notin {"access", "refresh", "True", "raw"}

Handler == {"standard", "google", "github", "hubspot", "notion", "slack"}

\* A JSON answer of Slack's, sent with status 200, is told by its ok field.
Reply == {"200", "204", "400", "401", "404", "422", "server_error",
          "ok_true", "ok_false", "not_json", "not_object", "no_connection"}

VARIABLES handler,      \* the handler the client was given
          config,       \* url: is there a revocation_url; secret: is there one
          live,         \* the tokens the provider still honours
          calls         \* [Call -> status, token, reply, outcome]

vars == <<handler, config, live, calls>>

Idle == [status |-> "idle", token |-> Absent, reply |-> Absent, outcome |-> Absent]

Init ==
    /\ handler \in Handler
    /\ config \in [url : BOOLEAN, secret : BOOLEAN]
    /\ live = {"access", "refresh"}
    /\ calls = [c \in Call |-> Idle]

TypeOK ==
    /\ handler \in Handler
    /\ config \in [url : BOOLEAN, secret : BOOLEAN]
    /\ live \subseteq {"access", "refresh"}
    /\ calls \in [Call -> [status : {"idle", "sent", "answered", "done"},
                           token : Passed \cup {Absent},
                           reply : Reply \cup {Absent},
                           outcome : {Absent, "True", "RevocationError",
                                      "ConfigurationError", "raw"}]]

------------------------------------------------------------------------------
\* The handlers that present the client's secret with Basic authentication; the
\* standard one names the client in the body when there is no secret.
Authenticated == handler \in {"github", "notion"} => config.secret

\* The token a handler's endpoint looks for: HubSpot's knows refresh tokens.
Finds(token) ==
    IF handler = "hubspot" THEN token = "refresh" /\ "refresh" \in live
    ELSE token \in live

\* What revoking it leaves: Google and GitHub drop the grant, HubSpot and an
\* RFC 7009 endpoint what the refresh token stands for, the others one token.
LeftAfter(token) ==
    IF handler \in {"google", "github"} \/ token = "refresh" THEN {}
    ELSE live \ {token}

Accepted ==
    CASE handler \in {"standard", "google", "notion"} -> "200"
      [] handler \in {"github", "hubspot"}            -> "204"
      [] handler = "slack"                            -> "ok_true"

\* The answers about a token the endpoint does not know: RFC 7009 wants a 200,
\* the docstrings name 404 and 400, and say nothing of Google's and Slack's.
Unknown ==
    CASE handler = "standard"              -> {"200"}
      [] handler = "google"                -> {"200", "400"}
      [] handler = "notion"                -> {"400"}
      [] handler \in {"github", "hubspot"} -> {"404"}
      [] handler = "slack"                 -> {"ok_true", "ok_false"}

\* The status the docstrings of three handlers keep for "already gone".
AlreadyGone ==
    CASE handler \in {"github", "hubspot"} -> {"404"}
      [] handler = "notion"                -> {"400"}
      [] OTHER                             -> {}

\* Trouble that has nothing to do with the token: any other failure.
Trouble == ({"400", "401", "404", "422", "server_error"} \ AlreadyGone)
           \cup (IF handler = "slack" THEN {"ok_false", "not_json", "not_object"} ELSE {})

------------------------------------------------------------------------------
Record(c, status, reply, outcome) ==
    calls' = [calls EXCEPT ![c] = [status |-> status, token |-> calls[c].token,
                                   reply |-> reply, outcome |-> outcome]]

\* revoke_token without a revocation_url.
RevokeUnconfigured(c) ==
    /\ calls[c].status = "idle"
    /\ ~ config.url
    /\ Record(c, "done", Absent, "ConfigurationError")
    /\ UNCHANGED <<handler, config, live>>

\* revoke_token up to the handler's request.
Revoke(c, token) ==
    /\ calls[c].status = "idle"
    /\ config.url
    /\ calls' = [calls EXCEPT ![c] = [Idle EXCEPT !.status = "sent", !.token = token]]
    /\ UNCHANGED <<handler, config, live>>

\* External: the endpoint revokes the token it finds; the answer may get lost.
EndpointRevokes(c, delivered) ==
    /\ calls[c].status = "sent"
    /\ Authenticated
    /\ Finds(calls[c].token)
    /\ live' = LeftAfter(calls[c].token)
    /\ Record(c, "answered", IF delivered THEN Accepted ELSE "no_connection", Absent)
    /\ UNCHANGED <<handler, config>>

\* External: the endpoint does not know the token.
EndpointDoesNotKnow(c) ==
    /\ calls[c].status = "sent"
    /\ Authenticated
    /\ ~ Finds(calls[c].token)
    /\ \E r \in Unknown : Record(c, "answered", r, Absent)
    /\ UNCHANGED <<handler, config, live>>

\* External: the endpoint refuses the client, fails, or cannot be reached.
EndpointFails(c) ==
    /\ calls[c].status = "sent"
    /\ \E r \in Trouble \cup {"no_connection"} : Record(c, "answered", r, Absent)
    /\ UNCHANGED <<handler, config, live>>

\* External: a token runs out, or the user removes the grant.
Lapse ==
    /\ live' \in {live \ {"access"}, {}}
    /\ live' # live
    /\ UNCHANGED <<handler, config, calls>>

------------------------------------------------------------------------------
IsSuccess(reply) == reply \in {"200", "204", "ok_true", "ok_false", "not_json", "not_object"}

StandardConfirms(reply) == IsSuccess(reply)
GoogleConfirms(reply) == IsSuccess(reply)

\* Mutant: only what was revoked just now counts.
GitHubConfirmsFresh(reply) == reply = "204"

\* Revoked, or already gone.
GitHubConfirms(reply) == reply \in {"204", "404"}
HubSpotConfirms(reply) == reply \in {"204", "404"}
NotionConfirms(reply) == reply \in {"200", "400"}

\* Mutant: Slack's status is believed.
SlackConfirmsStatus(reply) == IsSuccess(reply)

\* The body's ok field.
SlackConfirms(reply) == reply = "ok_true"

\* The handler returns a true value.
Confirms(reply) ==
    CASE handler = "standard" -> StandardConfirms(reply)
      [] handler = "google"   -> GoogleConfirms(reply)
      [] handler = "github"   -> GitHubConfirms(reply)
      [] handler = "hubspot"  -> HubSpotConfirms(reply)
      [] handler = "notion"   -> NotionConfirms(reply)
      [] handler = "slack"    -> SlackConfirms(reply)

\* The exception the handler lets out, or Absent: RevocationError, or for a
\* body of Slack's that is no JSON object, an AttributeError.
Raises(reply) ==
    CASE reply = "no_connection"                           -> "RevocationError"
      [] reply = "not_json" /\ handler = "slack"           -> "RevocationError"
      [] reply = "not_object" /\ handler = "slack"         -> "raw"
      [] OTHER                                             -> Absent

\* Mutants: only a RevocationError is expected of a handler; a handler's False
\* is handed to the caller.
OutcomeUnwrapped(reply) ==
    IF Raises(reply) # Absent THEN Raises(reply)
    ELSE IF Confirms(reply) THEN "True" ELSE "RevocationError"

OutcomeFalse(reply) ==
    IF Raises(reply) # Absent THEN "RevocationError"
    ELSE IF Confirms(reply) THEN "True" ELSE "False"

\* revoke_token on the handler's result: any exception becomes a
\* RevocationError, and so does a False.
Outcome(reply) ==
    IF Raises(reply) # Absent THEN "RevocationError"
    ELSE IF Confirms(reply) THEN "True" ELSE "RevocationError"

\* The end of revoke_token.
Return(c) ==
    /\ calls[c].status = "answered"
    /\ Record(c, "done", calls[c].reply, Outcome(calls[c].reply))
    /\ UNCHANGED <<handler, config, live>>

\* The application asks again when the revocation was not confirmed, with
\* the same token.
Retry(c) ==
    /\ calls[c].status = "done"
    /\ calls[c].outcome = "RevocationError"
    /\ calls' = [calls EXCEPT ![c] = [Idle EXCEPT !.status = "sent", !.token = calls[c].token]]
    /\ UNCHANGED <<handler, config, live>>

------------------------------------------------------------------------------
Next ==
    \/ \E c \in Call :
          \/ RevokeUnconfigured(c)
          \/ \E token \in Passed : Revoke(c, token)
          \/ \E delivered \in BOOLEAN : EndpointRevokes(c, delivered)
          \/ EndpointDoesNotKnow(c)
          \/ EndpointFails(c)
          \/ Return(c)
          \/ Retry(c)
    \/ Lapse

Spec == Init /\ [][Next]_vars

\* The application goes on asking, and the provider is not out of order for
\* ever: of the requests it is sent again and again, one gets its answer.
EndpointAnswers(c) == EndpointRevokes(c, TRUE) \/ EndpointDoesNotKnow(c)

FairSpec ==
    /\ Spec
    /\ \A c \in Call :
          /\ WF_vars(EndpointFails(c))
          /\ SF_vars(EndpointAnswers(c))
          /\ WF_vars(Return(c))
          /\ WF_vars(Retry(c))

------------------------------------------------------------------------------
\* A confirmed revocation is one: whatever was lost, repeated or done at the
\* same time, the token no longer works.  This is about what a handler reads as
\* a confirmation: Slack reports failures with status 200, and GitHub's, HubSpot's
\* and Notion's take "already gone" for success, on the assumption above.
\* HubSpotRevocationHandler asks for the refresh token: its endpoint knows no
\* other, so that its 404 to an access token says nothing of that token.
ConfirmedIsDead ==
    \A c \in Call :
        calls[c].outcome = "True" /\ (handler = "hubspot" => calls[c].token = "refresh")
            => calls[c].token \notin live

\* No exception but those revoke_token names reaches the application, whatever
\* a handler makes of a body that is no JSON object.
OnlyNamedErrors == \A c \in Call : calls[c].outcome # "raw"

\* Where the endpoint's word for "already gone" is taken for success, a
\* revocation whose answer was lost, or which another call or the user forestalled,
\* is confirmed by asking again.  (Nothing says so of Google's and Slack's.)
RetryIsConfirmed ==
    \A c \in Call :
        calls[c].status = "sent" /\ Authenticated /\ handler \notin {"google", "slack"}
            ~> calls[c].outcome = "True"
=============================================================================
