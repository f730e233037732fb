---------------------------- MODULE OneTimeStore ----------------------------
(***************************************************************************)
(* What apron_auth.protocols.StateStore promises its callers, with no word *)
(* of clocks or dictionaries: a pending authorization that was saved is on *)
(* offer until it is handed out once, replaced by a later save of the same *)
(* state token, or forgotten.  A store may forget at any call (entries     *)
(* expire); it may never hand out what is not on offer, nor hand the same  *)
(* saved entry out twice.                                                  *)
(***************************************************************************)
CONSTANTS Key,         \* state tokens
          Pending,     \* pending authorizations, records with a field "state"
          NoPending    \* Python's None

VARIABLES offers,      \* pending authorizations a consume may still return
          last         \* the call answered last, with its answer

vars == <<offers, last>>

SaveCall(p) == [op |-> "save", key |-> p.state, answer |-> NoPending]
ConsumeCall(k, a) == [op |-> "consume", key |-> k, answer |-> a]
NoCall == [op |-> "none", key |-> NoPending, answer |-> NoPending]

Others(k) == {p \in offers : p.state # k}

Init == offers = {} /\ last = NoCall

\* The saved entry is on offer; of the rest any part may have been forgotten.
Save(p) ==
    /\ \E kept \in SUBSET Others(p.state) : offers' = kept \cup {p}
    /\ last' = SaveCall(p)

HandOut(k) ==
    \E p \in offers :
       /\ p.state = k
       /\ offers' = Others(k)
       /\ last' = ConsumeCall(k, p)

Refuse(k) ==
    /\ offers' = Others(k)
    /\ last' = ConsumeCall(k, NoPending)

Next == \/ \E p \in Pending : Save(p)
        \/ \E k \in Key : HandOut(k) \/ Refuse(k)

Spec == Init /\ [][Next]_vars
=============================================================================
