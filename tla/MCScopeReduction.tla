-------------------------- MODULE MCScopeReduction --------------------------
(***************************************************************************)
(* Two workers and two connections: enough for one to revoke while the     *)
(* user is connected again and the other revokes anew.                     *)
(***************************************************************************)
EXTENDS ScopeReduction, TLC

CONSTANTS w1, w2

MCWorker == {w1, w2}
MCBase == [p \in Merging |-> {"base"}]

Symmetry == Permutations(MCWorker)
=============================================================================
