----------------------------- MODULE ScopeTiers -----------------------------
(***************************************************************************)
(* What disconnect_fully_revokes promises an application: once such a      *)
(* provider confirmed a revocation, the next connection has exactly the    *)
(* scopes it asks for.  Without that, a connection has those it asks for   *)
(* and possibly more.                                                      *)
(***************************************************************************)
CONSTANT Scope

VARIABLES owed,  \* is a fresh consent screen owed to the application?
          asked, \* the scopes the last connection asked for
          held   \* the scopes it got

Init == owed = FALSE /\ asked = {} /\ held = {}

Connect ==
    /\ asked' \in SUBSET Scope
    /\ held' \in SUBSET Scope
    /\ asked' \subseteq held'
    /\ owed => held' = asked'
    /\ owed' = FALSE

Confirm == ~ owed /\ owed' = TRUE /\ UNCHANGED <<asked, held>>

Spec == Init /\ [][Connect \/ Confirm]_<<owed, asked, held>>
=============================================================================
