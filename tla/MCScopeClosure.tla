--------------------------- MODULE MCScopeClosure ---------------------------
(***************************************************************************)
(* The closure over every map on three scopes, cyclic maps included.       *)
(***************************************************************************)
EXTENDS ScopeClosure

CONSTANTS a, b, c

MCScope == {a, b, c}
AllMaps == [MCScope -> SUBSET MCScope]
=============================================================================
