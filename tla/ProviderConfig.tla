--------------------------- MODULE ProviderConfig ---------------------------
(***************************************************************************)
(* The rules apron_auth.models.ProviderConfig enforces on itself and       *)
(* answers its users with.  A secret is present or not; an issuer is a     *)
(* value or Absent (Python's None).                                        *)
(***************************************************************************)
CONSTANT Absent

\* _client_secret_presence_matches_auth_method does not raise.
SecretMatchesMethod(hasSecret, method) == hasSecret <=> method # "none"

\* basic_auth returns a credential.
PresentsBasicAuth(hasSecret, method) == method # "none" /\ hasSecret

\* Mutant: an absent iss is let through.
IssuerAcceptedLax(issuer, requireIss, iss) ==
    issuer = Absent \/ iss \in {issuer, Absent}

\* validate_issuer does not raise.
IssuerAccepted(issuer, requireIss, iss) ==
    \/ issuer = Absent
    \/ iss = Absent /\ ~ requireIss
    \/ iss # Absent /\ iss = issuer
=============================================================================
