---------------------------- MODULE StoreHistory ----------------------------
(***************************************************************************)
(* MemoryStateStore under every order of calls by any number of callers,   *)
(* with the history its correctness is stated over.  The variables life,   *)
(* saves, returns, last and clock record what callers and the clock have   *)
(* done; no action reads them but the bound on the number of saves.        *)
(***************************************************************************)
EXTENDS MemoryStateStore

CONSTANT MaxSaves      \* bound on the saves of one key

ASSUME HistoryAssumption == MaxSaves \in Nat

VARIABLES life,        \* per key: "unsaved", or since its last save "live",
                       \* "lapsed" (seen expired) or "taken" (consumed live)
          saves,       \* per key: how often it was saved
          returns,     \* per key: how often a consume returned its entry
          last,        \* the last call: operation, key, answer, life before
          clock        \* "set_back" once the clock was set back, else "steady"

vars == <<states, now, life, saves, returns, last, clock>>

Call(op, k, answer) == [op |-> op, key |-> k, answer |-> answer, before |-> life[k]]

NoCall == [op |-> "none", key |-> NoPending, answer |-> NoPending, before |-> "unsaved"]

Init ==
    /\ StoreInit
    /\ life = [k \in Key |-> "unsaved"]
    /\ saves = [k \in Key |-> 0]
    /\ returns = [k \in Key |-> 0]
    /\ last = NoCall
    /\ clock = "steady"

CallSave(p) ==
    /\ saves[p.state] < MaxSaves
    /\ Save(p)
    /\ life' = [life EXCEPT ![p.state] = IF IsExpired(p, now) THEN "lapsed" ELSE "live"]
    /\ saves' = [saves EXCEPT ![p.state] = @ + 1]
    /\ last' = Call("save", p.state, NoPending)
    /\ UNCHANGED <<returns, clock>>

\* A consume answered with None.
CallConsumeNone(k) ==
    /\ ConsumeMissing(k) \/ ConsumeExpired(k)
    /\ last' = Call("consume", k, NoPending)
    /\ UNCHANGED <<life, saves, returns, clock>>

\* A consume answered with the entry.
CallConsumeSome(k) ==
    /\ ConsumeGood(k)
    /\ life' = [life EXCEPT ![k] = IF @ = "live" THEN "taken" ELSE @]
    /\ returns' = [returns EXCEPT ![k] = @ + 1]
    /\ last' = Call("consume", k, states[k])
    /\ UNCHANGED <<saves, clock>>

\* The clock moves, and carries live entries past max_age.
ClockMoves ==
    /\ Tick
    /\ life' = [k \in Key |->
                  IF life[k] = "live" /\ states[k] # NoPending /\ IsExpired(states[k], now')
                  THEN "lapsed" ELSE life[k]]
    /\ clock' = IF now' < now THEN "set_back" ELSE clock
    /\ UNCHANGED <<saves, returns, last>>

Next ==
    \/ \E p \in Pending : CallSave(p)
    \/ \E k \in Key : CallConsumeNone(k) \/ CallConsumeSome(k)
    \/ ClockMoves

Spec == Init /\ [][Next]_vars

------------------------------------------------------------------------------
Lives == {"unsaved", "live", "lapsed", "taken"}

\* Types of the dictionary, the clock and the history.
TypeOK ==
    /\ StoreTypeOK
    /\ life \in [Key -> Lives]
    /\ saves \in [Key -> 0..MaxSaves]
    /\ returns \in [Key -> Nat]
    /\ last \in [op : {"none", "save", "consume"}, key : Key \cup {NoPending},
                 answer : Pending \cup {NoPending}, before : Lives]
    /\ clock \in {"steady", "set_back"}

\* However saves, consumes and clock changes interleave, no saved pending
\* authorization is returned by two consumes (stores.py: consume pops).
AtMostOnce == \A k \in Key : returns[k] <= saves[k]

\* A consume that arrives before its entry was ever seen expired is answered
\* with the entry: no save of another key prunes it, no other call loses it.
LiveIsServed ==
    last.op = "consume" /\ last.before = "live" => last.answer # NoPending

\* While the clock was never set back, an entry that has been expired at any
\* moment, looked at then or not, is never handed out later.
LapsedIsNeverServed ==
    clock = "steady" /\ last.op = "consume" /\ last.before # "live" =>
        last.answer = NoPending

\* A save leaves no expired entry behind but possibly the one it stores, so
\* entries nobody consumes cannot pile up in the dictionary.
SavePrunes ==
    [][\A p \in Pending : CallSave(p) =>
          \A k \in Key \ {p.state} :
             states'[k] # NoPending => ~ IsExpired(states'[k], now)]_vars

\* The store implements the promise of the StateStore protocol.
Offers == {states[k] : k \in Key} \ {NoPending}
LastCall == [op |-> last.op, key |-> last.key, answer |-> last.answer]
Promise == INSTANCE OneTimeStore WITH offers <- Offers, last <- LastCall
KeepsPromise == Promise!Spec

------------------------------------------------------------------------------
\* Strengthening under which the safety invariants are inductive.

\* An entry still held has not been returned since its last save.
HeldIsUnreturned ==
    \A k \in Key : returns[k] + (IF states[k] = NoPending THEN 0 ELSE 1) <= saves[k]

\* A live entry is held and unexpired right now.
LiveIsHeld ==
    \A k \in Key : life[k] = "live" =>
        states[k] # NoPending /\ ~ IsExpired(states[k], now)

\* While the clock was never set back, a held entry that is not live is expired.
LapsedStaysExpired ==
    clock = "steady" =>
        \A k \in Key :
            states[k] # NoPending /\ life[k] # "live" => IsExpired(states[k], now)

\* The inductive invariant: types, one return per save, live entries served.
StoreInv == TypeOK /\ HeldIsUnreturned /\ LiveIsHeld /\ LiveIsServed
=============================================================================
