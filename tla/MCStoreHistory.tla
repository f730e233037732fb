--------------------------- MODULE MCStoreHistory ---------------------------
(***************************************************************************)
(* The state store on two state tokens.  MaxTime exceeds MaxAge by two,     *)
(* so entries are met young, at exactly max_age and past it.               *)
(***************************************************************************)
EXTENDS StoreHistory, TLC

CONSTANTS k1, k2, none, ctx

MCKey == {k1, k2}
MCPayload == {ctx}
Symmetry == Permutations(MCKey)
=============================================================================
