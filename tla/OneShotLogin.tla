---------------------------- MODULE OneShotLogin ----------------------------
(***************************************************************************)
(* A login as its user sees it: opened once, then either it lapses or one  *)
(* attempt is made to redeem the answer, which is granted or fails.  Other *)
(* logins may lapse at any time; nothing ever reopens one.                 *)
(***************************************************************************)
CONSTANT Flow

VARIABLE phase

Init == phase = [f \in Flow |-> "unopened"]

Lapsing(q) == {f \in Flow : phase[f] = "open" /\ q[f] = "lapsed"}

\* Opening a login sweeps out others that have expired.
Open(f) ==
    /\ phase[f] = "unopened"
    /\ phase'[f] = "open"
    /\ phase' = [g \in Flow |-> IF g = f THEN "open"
                                ELSE IF g \in Lapsing(phase') THEN "lapsed" ELSE phase[g]]

Move(f, from, to) == phase[f] = from /\ phase' = [phase EXCEPT ![f] = to]

Lapse(f) == Move(f, "open", "lapsed")
Redeem(f) == Move(f, "open", "redeeming")
Granted(f) == Move(f, "redeeming", "granted")
Failed(f) == Move(f, "redeeming", "failed")

Next == \E f \in Flow : Open(f) \/ Lapse(f) \/ Redeem(f) \/ Granted(f) \/ Failed(f)

Spec == Init /\ [][Next]_phase
=============================================================================
