------------------------------ MODULE Presets ------------------------------
(***************************************************************************)
(* The provider presets: what each preset function of                      *)
(* apron_auth.providers puts into its ProviderConfig, and the handler it   *)
(* is paired with.  URLs are told apart by what their endpoint does; the   *)
(* consent-screen texts and the defaults merged into extra_params are left *)
(* out.                                                                    *)
(***************************************************************************)
CONSTANTS Absent, \* Python's None
          Base    \* Base[p]: the scopes preset p adds to those asked for

BuiltIn == {"atlassian", "github", "google", "hubspot", "linear", "microsoft",
            "notion", "salesforce", "slack", "typeform"}

\* The presets that have BASE_SCOPES.
Merging == {"atlassian", "github", "google", "hubspot", "microsoft", "salesforce"}

\* The fields of ProviderConfig a preset may leave at their defaults.
Default == [revocation_url |-> Absent, disconnect_fully_revokes |-> FALSE,
            can_assert_domain_ownership |-> FALSE, use_pkce |-> TRUE,
            method |-> "client_secret_post", handler |-> Absent]

Atlassian == [Default EXCEPT !.revocation_url = "token", !.handler = "standard"]

\* Mutant: the endpoint that invalidates a single token.
GitHubToken == [Default EXCEPT !.revocation_url = "token", !.handler = "github",
                               !.disconnect_fully_revokes = TRUE]

\* /applications/{client_id}/grant, not .../token.
GitHub == [Default EXCEPT !.revocation_url = "grant", !.handler = "github",
                          !.disconnect_fully_revokes = TRUE]

Google == [Default EXCEPT !.revocation_url = "grant", !.handler = "google",
                          !.disconnect_fully_revokes = TRUE,
                          !.can_assert_domain_ownership = TRUE]

HubSpot == [Default EXCEPT !.revocation_url = "token", !.handler = "hubspot"]

Linear == [Default EXCEPT !.revocation_url = "token", !.handler = "standard"]

\* Mutant: the flag is forgotten.
MicrosoftUnflagged == Default

Microsoft == [Default EXCEPT !.can_assert_domain_ownership = TRUE]

Notion == [Default EXCEPT !.revocation_url = "token", !.handler = "notion",
                          !.method = "client_secret_basic"]

Salesforce == [Default EXCEPT !.revocation_url = "token", !.handler = "standard"]

\* Mutant: the flag claims too much.
SlackOverclaiming == [Default EXCEPT !.revocation_url = "token", !.handler = "slack",
                                     !.disconnect_fully_revokes = TRUE]

Slack == [Default EXCEPT !.revocation_url = "token", !.handler = "slack"]

Typeform == [Default EXCEPT !.use_pkce = FALSE]

Preset(p) ==
    CASE p = "atlassian"  -> Atlassian
      [] p = "github"     -> GitHub
      [] p = "google"     -> Google
      [] p = "hubspot"    -> HubSpot
      [] p = "linear"     -> Linear
      [] p = "microsoft"  -> Microsoft
      [] p = "notion"     -> Notion
      [] p = "salesforce" -> Salesforce
      [] p = "slack"      -> Slack
      [] p = "typeform"   -> Typeform

\* The scopes a preset's configuration requests.
Requested(p, asked) == asked \cup (IF p \in Merging THEN Base[p] ELSE {})

\* Slack's preset raises a ValueError for a request without any scope.
Refused(p, asked) == p = "slack" /\ asked = {}
=============================================================================
