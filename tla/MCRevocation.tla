---------------------------- MODULE MCRevocation ----------------------------
(***************************************************************************)
(* Two calls of revoke_token on the tokens of one grant.                   *)
(***************************************************************************)
EXTENDS Revocation

BothTokens == {"access", "refresh"}
=============================================================================
