--------------------------- MODULE MCAuthCodeFlow ---------------------------
(***************************************************************************)
(* Two logins, two codes and two calls: enough for one state token to be   *)
(* presented twice, for two responses to be swapped, and for a code of     *)
(* another server to arrive in the place of one of ours.                   *)
(***************************************************************************)
EXTENDS AuthCodeFlow, TLC

CONSTANTS f1, f2, c1, c2, x1, x2, cb, home, other, api, elsewhere, stray, none

MCFlow == {f1, f2}
MCCode == {c1, c2}
MCCall == {x1, x2}
MCRedirect == {cb}
MCElsewhere == {other}
MCAudience == {api, elsewhere}

\* Both places a parameter may come from name everything they may.
MCExtraParams == [n \in {"resource"} |-> elsewhere]
MCQuery == [n \in {"state", "redirect_uri", "code_challenge", "resource"} |->
               IF n = "resource" THEN elsewhere ELSE stray]

Symmetry == Permutations(MCFlow) \cup Permutations(MCCode) \cup Permutations(MCCall)
=============================================================================
