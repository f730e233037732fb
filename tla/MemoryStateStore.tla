-------------------------- MODULE MemoryStateStore --------------------------
(***************************************************************************)
(* apron_auth.stores.MemoryStateStore: the dictionary of pending           *)
(* authorizations, pruned lazily on save, popped and checked on consume,   *)
(* both against the wall clock, which an adjustment may step back.         *)
(* Neither coroutine has an await point, so each call is one step.         *)
(*                                                                         *)
(* The module holds the operations; StoreHistory drives them with every    *)
(* order of calls, AuthCodeFlow with the calls of the OAuth client.        *)
(***************************************************************************)
EXTENDS Integers

CONSTANTS Key,         \* state tokens
          Payload,     \* the rest of a pending authorization
          NoPending,   \* None: the entry is absent
          MaxAge,      \* max_age, in clock units
          MaxTime,     \* bound on the clock
          MaxBack      \* furthest a clock adjustment steps back

Time == 0..MaxTime

Pending == [state : Key, created_at : Time, payload : Payload]

ASSUME StoreAssumption ==
    /\ MaxAge \in Nat
    /\ MaxTime \in Nat
    /\ MaxBack \in Nat
    /\ NoPending \notin Pending
    /\ NoPending \notin Key

VARIABLES states,      \* the dictionary _states
          now          \* time.time()

storeVars == <<states, now>>

StoreInit ==
    /\ states = [k \in Key |-> NoPending]
    /\ now \in Time

\* _is_expired, at clock reading t.
IsExpired(p, t) == t - p.created_at >= MaxAge

\* Mutants: nothing is pruned; an entry is pruned one unit early.
PruneNothing == states
PruneEarly == [k \in Key |-> IF states[k] # NoPending /\ IsExpired(states[k], now + 1)
                             THEN NoPending ELSE states[k]]

\* _prune: what is left of the dictionary at the current clock reading.
Prune == [k \in Key |-> IF states[k] # NoPending /\ IsExpired(states[k], now)
                        THEN NoPending ELSE states[k]]

\* save: prune first, then insert, replacing an entry of the same token.
Save(p) ==
    /\ states' = [Prune EXCEPT ![p.state] = p]
    /\ UNCHANGED now

\* consume, entry missing: pop finds nothing, None is returned.
ConsumeMissing(k) ==
    /\ states[k] = NoPending
    /\ UNCHANGED storeVars

\* Mutant: the age is looked at before the entry is popped.
ConsumeExpiredKept(k) ==
    /\ states[k] # NoPending
    /\ IsExpired(states[k], now)
    /\ UNCHANGED storeVars

\* consume, entry expired: already popped when its age is looked at.
ConsumeExpired(k) ==
    /\ states[k] # NoPending
    /\ IsExpired(states[k], now)
    /\ states' = [states EXCEPT ![k] = NoPending]
    /\ UNCHANGED now

\* Mutants: the entry is read and not popped; its age is not looked at.
ConsumeGoodKept(k) ==
    /\ states[k] # NoPending
    /\ ~ IsExpired(states[k], now)
    /\ UNCHANGED storeVars
ConsumeGoodUnchecked(k) ==
    /\ states[k] # NoPending
    /\ states' = [states EXCEPT ![k] = NoPending]
    /\ UNCHANGED now

\* consume, entry good: popped, and returned to the caller.
ConsumeGood(k) ==
    /\ states[k] # NoPending
    /\ ~ IsExpired(states[k], now)
    /\ states' = [states EXCEPT ![k] = NoPending]
    /\ UNCHANGED now

\* The wall clock moves: forward, or back by an adjustment.
Tick ==
    /\ now' \in Time \ {now}
    /\ now' >= now - MaxBack
    /\ UNCHANGED states

\* Types of the dictionary and the clock; the dictionary is keyed by the
\* state token of its entries.
StoreTypeOK ==
    /\ states \in [Key -> Pending \cup {NoPending}]
    /\ now \in Time
    /\ \A k \in Key : states[k] # NoPending => states[k].state = k
=============================================================================
