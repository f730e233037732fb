------------------------ MODULE ScopeClosure_proofs ------------------------
(***************************************************************************)
(* Partial correctness of resolve_implicit_scopes for every set of scopes  *)
(* and every map, cyclic ones included.                                    *)
(***************************************************************************)
EXTENDS ScopeClosure, FiniteSetTheorems, TLAPS

\* A turn of the loop keeps its invariant.
LEMMA StepKeepsLoopInv ==
    ASSUME LoopInv, Step
    PROVE  LoopInv'
<1>1. PICK s \in pending :
         /\ explicit' = explicit \cup implicit[s]
         /\ pending' = (pending \ {s}) \cup (implicit[s] \ explicit)
         /\ UNCHANGED <<granted, implicit>>
  BY DEF Step
<1>2. s \in explicit /\ s \in Scope /\ implicit[s] \in SUBSET Scope
  BY <1>1 DEF LoopInv, TypeOK
<1>3. TypeOK'
  BY <1>1, <1>2 DEF LoopInv, TypeOK
<1>4. granted' \subseteq explicit' /\ pending' \subseteq explicit'
  BY <1>1 DEF LoopInv
<1>5. \A t \in explicit' \ pending' : implicit'[t] \subseteq explicit'
  <2> SUFFICES ASSUME NEW t \in explicit' \ pending'
               PROVE  implicit[t] \subseteq explicit'
    BY <1>1
  <2>1. CASE t = s
    BY <1>1, <2>1
  <2>2. CASE t # s
    <3>1. t \in explicit \ pending
      BY <1>1, <2>2
    <3> QED
      BY <1>1, <3>1 DEF LoopInv
  <2> QED
    BY <2>1, <2>2
<1>6. ASSUME NEW D \in SUBSET Scope, granted \subseteq D, Closed(D)
      PROVE  explicit' \subseteq D
  <2>1. explicit \subseteq D
    BY <1>6 DEF LoopInv
  <2>2. implicit[s] \subseteq D
    BY <1>2, <1>6, <2>1 DEF Closed
  <2> QED
    BY <1>1, <2>1, <2>2
<1>7. \A D \in SUBSET Scope : granted' \subseteq D /\ Closed(D)' => explicit' \subseteq D
  BY <1>1, <1>6 DEF Closed
<1> QED
  BY <1>3, <1>4, <1>5, <1>7 DEF LoopInv

\* The loop invariant holds in every behaviour.
THEOREM ScopeLoopInvariant == Spec => []LoopInv
<1>1. Init => LoopInv
  BY ScopeAssumption DEF Init, LoopInv, TypeOK, Closed
<1>2. LoopInv /\ [Next]_vars => LoopInv'
  <2> SUFFICES ASSUME LoopInv, [Next]_vars PROVE LoopInv'
    OBVIOUS
  <2>1. CASE Step
    BY <2>1, StepKeepsLoopInv
  <2>2. CASE UNCHANGED vars
    BY <2>2 DEF vars, LoopInv, TypeOK, Closed
  <2> QED
    BY <2>1, <2>2 DEF Next, Returned
<1> QED
  BY <1>1, <1>2, PTL DEF Spec

\* What the loop returns is the closure of the grant, for every map.
THEOREM ScopeReturnsClosure == Spec => []ReturnsClosure
<1>1. LoopInv => ReturnsClosure
  BY DEF LoopInv, ReturnsClosure, IsClosure, Closed
<1> QED
  BY <1>1, ScopeLoopInvariant, PTL

\* No scope is queued twice, which is what bounds the loop by the number of
\* scopes.
THEOREM ScopeQueuedOnce == Spec => QueuedOnce
<1>1. [Next]_vars => [\A s \in pending' \ pending : s \notin explicit]_vars
  BY DEF Next, Step, Returned, vars
<1> QED
  BY <1>1, PTL DEF Spec, QueuedOnce

\* The scopes whose implications are not in place yet.
Left == Scope \ (explicit \ pending)

\* Each turn of the loop leaves fewer of them, also where the map goes round in
\* a circle: over finitely many scopes the loop ends after as many turns at most.
THEOREM ScopeTurnsRunOut ==
    ASSUME IsFiniteSet(Scope)
    PROVE  Spec => [][Step => Cardinality(Left') < Cardinality(Left)]_vars
<1>1. ASSUME LoopInv, Step PROVE Cardinality(Left') < Cardinality(Left)
  <2>1. PICK s \in pending :
           /\ explicit' = explicit \cup implicit[s]
           /\ pending' = (pending \ {s}) \cup (implicit[s] \ explicit)
    BY <1>1 DEF Step
  <2>2. s \in Scope /\ s \in explicit
    BY <1>1, <2>1 DEF LoopInv, TypeOK
  <2>3. s \in Left /\ s \notin Left'
    BY <2>1, <2>2 DEF Left
  <2>4. Left' \subseteq Left
    BY <1>1, <2>1 DEF Left, LoopInv, TypeOK
  <2>5. IsFiniteSet(Left)
    BY FS_Subset DEF Left
  <2>6. /\ IsFiniteSet(Left') /\ Cardinality(Left') <= Cardinality(Left)
        /\ Cardinality(Left') # Cardinality(Left)
    BY <2>3, <2>4, <2>5, FS_Subset
  <2> QED
    BY <2>5, <2>6, FS_CardinalityType
<1>2. LoopInv /\ [Next]_vars => [Step => Cardinality(Left') < Cardinality(Left)]_vars
  BY <1>1
<1> QED
  BY <1>2, ScopeLoopInvariant, PTL DEF Spec
=============================================================================
