--------------------------- MODULE TokenEndpoint ---------------------------
(***************************************************************************)
(* How OAuthClient reads the answer of a token endpoint: _token_request    *)
(* with authlib's parsing (a library, modelled from its use here) turns    *)
(* every answer or failure into a body or an error code, and the callers   *)
(* turn that into a TokenSet or an exception.                              *)
(***************************************************************************)
CONSTANTS Token,       \* access tokens
          ErrorCode,   \* OAuth error codes, strings
          ExtraPermanent \* permanent_error_codes given to the constructor

\* DEFAULT_PERMANENT_ERROR_CODES, which the constructor only ever adds to.
DefaultPermanent == {"invalid_grant", "unauthorized_client", "invalid_client"}
Permanent == DefaultPermanent \cup ExtraPermanent

ASSUME EndpointAssumption ==
    /\ "" \notin Permanent \cup ErrorCode
    /\ Token \cap {"absent", "null"} = {}
    /\ ErrorCode \cap {"absent", "not_string"} = {}

(***************************************************************************)
(* What comes back from the endpoint:                                      *)
(*   status  "none" (no answer: connection refused, reset, timed out),     *)
(*           "below_500" or "5xx";                                         *)
(*   body    "object" (JSON that dict() accepts), "other_json" or "text";  *)
(*   error   the object's "error" member;                                  *)
(*   token   its "access_token" member;                                    *)
(*   lifetime  whether int() can read its "expires_in" member, or there is *)
(*           none.                                                         *)
(***************************************************************************)
Reply == [status : {"none", "below_500", "5xx"},
          body   : {"object", "other_json", "text"},
          error  : ErrorCode \cup {"absent", "not_string"},
          token  : Token \cup {"absent", "null"},
          lifetime : {"readable", "unreadable"}]

NoAnswer == [status |-> "none", body |-> "text", error |-> "absent", token |-> "absent",
             lifetime |-> "readable"]
TokenReply(t) == [status |-> "below_500", body |-> "object", error |-> "absent", token |-> t,
                  lifetime |-> "readable"]
ErrorReply(e) == [status |-> "below_500", body |-> "object", error |-> e, token |-> "absent",
                  lifetime |-> "readable"]

\* The error code of an object body; "" when it has none that is a string.
ErrorCodeOf(r) == IF r.body = "object" /\ r.error \in ErrorCode THEN r.error ELSE ""

\* authlib raises for a 5xx status, for a body that is not JSON and for an
\* object with an "error" member; dict() fails on any other JSON.
IsTokenBody(r) == r.status = "below_500" /\ r.body = "object" /\ r.error = "absent"

\* _token_request: the code of the _TokenEndpointError it raises.
RequestErrorCode(r) == IF r.status = "none" THEN "" ELSE ErrorCodeOf(r)

\* _parse_token_response reads expires_in first, then access_token: no number
\* is a ValueError, no token a KeyError, a null one a ValidationError; none of
\* them is an exception of this library.  Most lifetimes that are no number fail
\* in authlib before, which reads expires_in where there is no expires_at, and
\* come back as an answer that is no JSON would; "unreadable" is for the rest.
ParseOutcome(r) == CASE r.lifetime = "unreadable" -> "ValueError"
                     [] r.lifetime = "readable" /\ r.token = "absent" -> "KeyError"
                     [] r.lifetime = "readable" /\ r.token = "null"   -> "ValidationError"
                     [] OTHER -> "TokenSet"

\* exchange_code, once the request is out.
ExchangeOutcome(r) == IF IsTokenBody(r) THEN ParseOutcome(r) ELSE "TokenExchangeError"

\* Mutants: a code found in a 5xx answer is dropped; any code is permanent.
RefreshOutcome4xxOnly(r) ==
    IF IsTokenBody(r) THEN ParseOutcome(r)
    ELSE IF r.status # "5xx" /\ RequestErrorCode(r) \in Permanent
         THEN "PermanentOAuthError" ELSE "TokenRefreshError"
RefreshOutcomeAnyCode(r) ==
    IF IsTokenBody(r) THEN ParseOutcome(r)
    ELSE IF r.status # "none" /\ r.body # "text"
         THEN "PermanentOAuthError" ELSE "TokenRefreshError"

\* refresh_token, once the request is out.
RefreshOutcome(r) ==
    IF IsTokenBody(r) THEN ParseOutcome(r)
    ELSE IF RequestErrorCode(r) \in Permanent THEN "PermanentOAuthError"
    ELSE "TokenRefreshError"

Outcome == {"TokenSet", "ValueError", "KeyError", "ValidationError",
            "TokenExchangeError", "PermanentOAuthError", "TokenRefreshError"}
=============================================================================
