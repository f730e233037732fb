--------------------------- MODULE MCTokenRefresh ---------------------------
(***************************************************************************)
(* Token refresh with two workers, every kind of provider and every noise. *)
(***************************************************************************)
EXTENDS TokenRefresh, FiniteSets

MCToken == {"access"}
MCErrorCode == {"invalid_grant", "invalid_client", "unauthorized_client",
                "account_suspended", "slow_down"}
MCExtraPermanent == {"account_suspended"}

\* Every reply of the endpoint's types that names no permanent code and yields
\* no TokenSet; only an answer has a body, only an object has members, and the
\* lifetime is read of a token body only.
AllNoise ==
    {r \in Reply : /\ RequestErrorCode(r) \notin Permanent
                   /\ RefreshOutcome(r) # "TokenSet"
                   /\ r.lifetime = "unreadable" => IsTokenBody(r)
                   /\ r.body # "object" => r.error = "absent" /\ r.token = "absent"
                   /\ r.status = "none" => r = NoAnswer}

SomeNoise == {NoAnswer, ErrorReply("slow_down"), [NoAnswer EXCEPT !.status = "5xx"]}

NoiseUnreadable ==
    SomeNoise \cup {TokenReply("absent"),
                    [TokenReply("access") EXCEPT !.lifetime = "unreadable"]}
=============================================================================
