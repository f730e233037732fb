---------------------------- MODULE ScopeClosure ----------------------------
(***************************************************************************)
(* apron_auth.scopes.resolve_implicit_scopes: a worklist over the map of   *)
(* implied scopes.  The list holds no scope twice (it starts from a set,   *)
(* and a scope joins it only when it is new) and starts in the arbitrary   *)
(* order of a Python set, so it is modelled as a set popped in any order.  *)
(***************************************************************************)
CONSTANTS Scope,       \* scope names
          Maps         \* the implicit_scopes maps considered; a scope the
                       \* dictionary does not list maps to {}

ASSUME ScopeAssumption == Maps \subseteq [Scope -> SUBSET Scope]

VARIABLES granted,     \* argument: scopes the provider reports
          implicit,    \* argument: scope -> scopes it implies
          explicit,    \* the set being built and returned
          pending      \* scopes whose implications are still to be added

vars == <<granted, implicit, explicit, pending>>

Init ==
    /\ granted \in SUBSET Scope
    /\ implicit \in Maps
    /\ explicit = granted
    /\ pending = granted

\* Mutants: implied scopes are added and not followed; a scope already known
\* is queued again.
StepShallow ==
    \E s \in pending :
       /\ explicit' = explicit \cup implicit[s]
       /\ pending' = pending \ {s}
       /\ UNCHANGED <<granted, implicit>>
StepRequeue ==
    \E s \in pending :
       /\ explicit' = explicit \cup implicit[s]
       /\ pending' = (pending \ {s}) \cup implicit[s]
       /\ UNCHANGED <<granted, implicit>>

\* One turn of the while loop, with its inner for loop.
Step ==
    \E s \in pending :
       /\ explicit' = explicit \cup implicit[s]
       /\ pending' = (pending \ {s}) \cup (implicit[s] \ explicit)
       /\ UNCHANGED <<granted, implicit>>

\* The function has returned.
Returned == pending = {} /\ UNCHANGED vars

Next == Step \/ Returned

Spec == Init /\ [][Next]_vars /\ WF_vars(Step)

------------------------------------------------------------------------------
Closed(C) == \A s \in C : implicit[s] \subseteq C

\* What the function promises: the least set that holds the granted scopes
\* and every scope a member implies.
IsClosure(C) ==
    /\ granted \subseteq C
    /\ Closed(C)
    /\ \A D \in SUBSET Scope : granted \subseteq D /\ Closed(D) => C \subseteq D

\* When the loop is over, the result is the transitive closure of the grant:
\* no implied scope is missing and none is there without being implied.
ReturnsClosure == pending = {} => IsClosure(explicit)

\* The loop ends, also on a cyclic map (comment in scopes.py).
Terminates == <>(pending = {})

\* No scope is looked at twice: what is queued was not known before.
QueuedOnce == [][\A s \in pending' \ pending : s \notin explicit]_vars

TypeOK ==
    /\ granted \in SUBSET Scope
    /\ implicit \in [Scope -> SUBSET Scope]
    /\ explicit \in SUBSET Scope
    /\ pending \in SUBSET Scope

\* The loop invariant: what has left the list has its implications in place,
\* and nothing but the closure has been added.
LoopInv ==
    /\ TypeOK
    /\ granted \subseteq explicit
    /\ pending \subseteq explicit
    /\ \A s \in explicit \ pending : implicit[s] \subseteq explicit
    /\ \A D \in SUBSET Scope : granted \subseteq D /\ Closed(D) => explicit \subseteq D
=============================================================================
