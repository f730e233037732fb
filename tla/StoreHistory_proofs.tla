------------------------- MODULE StoreHistory_proofs -------------------------
(***************************************************************************)
(* Proofs about the state store for every set of keys and payloads, every  *)
(* maximum age and every behaviour of the clock.                           *)
(***************************************************************************)
EXTENDS StoreHistory, TLAPS

USE StoreAssumption, HistoryAssumption DEF Time, storeVars

\* What each operation of the store does to the dictionary, entry by entry.
LEMMA SaveEffect ==
    ASSUME StoreTypeOK, NEW p \in Pending, Save(p)
    PROVE  /\ StoreTypeOK' /\ now' = now /\ p.state \in Key /\ p # NoPending
           /\ states'[p.state] = p
           /\ \A k \in Key \ {p.state} :
                 /\ states'[k] = NoPending \/ states'[k] = states[k]
                 /\ states'[k] # NoPending => ~ IsExpired(states[k], now)
                 /\ states'[k] = NoPending => states[k] = NoPending \/ IsExpired(states[k], now)
<1>1. p.state \in Key /\ p # NoPending
  BY DEF Pending
<1>2. \A k \in Key : states'[k] = IF k = p.state THEN p ELSE Prune[k]
  BY <1>1 DEF Save, Prune
<1>3. \A k \in Key : Prune[k] = IF states[k] # NoPending /\ IsExpired(states[k], now)
                                THEN NoPending ELSE states[k]
  BY DEF Prune
<1>4. states' \in [Key -> Pending \cup {NoPending}]
  BY <1>1, <1>3 DEF Save, StoreTypeOK, Prune
<1> QED
  BY <1>1, <1>2, <1>3, <1>4 DEF Save, StoreTypeOK

LEMMA ConsumeEffect ==
    ASSUME StoreTypeOK, NEW k \in Key,
           ConsumeMissing(k) \/ ConsumeExpired(k) \/ ConsumeGood(k)
    PROVE  /\ StoreTypeOK' /\ now' = now
           /\ \A j \in Key : states'[j] = IF j = k THEN NoPending ELSE states[j]
BY DEF StoreTypeOK, ConsumeMissing, ConsumeExpired, ConsumeGood

LEMMA InitStoreInv == Init => StoreInv
BY DEF Init, StoreInit, StoreInv, TypeOK, StoreTypeOK, HeldIsUnreturned, LiveIsHeld,
       LiveIsServed, NoCall, Lives

------------------------------------------------------------------------------
\* A save keeps the store's invariant.
LEMMA SaveStep ==
    ASSUME StoreInv, NEW p \in Pending, CallSave(p)
    PROVE  StoreInv'
<1> USE DEF StoreInv
<1>1. /\ StoreTypeOK' /\ now' = now /\ p.state \in Key /\ p # NoPending
      /\ states'[p.state] = p
      /\ \A k \in Key \ {p.state} :
            /\ states'[k] = NoPending \/ states'[k] = states[k]
            /\ states'[k] # NoPending => ~ IsExpired(states[k], now)
            /\ states'[k] = NoPending => states[k] = NoPending \/ IsExpired(states[k], now)
  BY SaveEffect DEF CallSave, TypeOK
<1>2. TypeOK'
  <2>1. saves' \in [Key -> 0..MaxSaves]
    BY <1>1 DEF CallSave, TypeOK
  <2>2. last' \in [op : {"none", "save", "consume"}, key : Key \cup {NoPending},
                   answer : Pending \cup {NoPending}, before : Lives]
    BY <1>1 DEF CallSave, Call, TypeOK
  <2>3. life' \in [Key -> Lives]
    BY <1>1 DEF CallSave, TypeOK, Lives
  <2> QED
    BY <1>1, <2>1, <2>2, <2>3 DEF CallSave, TypeOK
<1>3. HeldIsUnreturned'
  <2> SUFFICES ASSUME NEW k \in Key
               PROVE  (returns[k] + (IF states[k] = NoPending THEN 0 ELSE 1) <= saves[k])'
    BY DEF HeldIsUnreturned
  <2>1. returns[k] + (IF states[k] = NoPending THEN 0 ELSE 1) <= saves[k]
    BY DEF HeldIsUnreturned
  <2>2. saves[k] \in Nat /\ returns[k] \in Nat
    BY DEF TypeOK
  <2>3. saves'[k] = (IF k = p.state THEN saves[k] + 1 ELSE saves[k]) /\ returns'[k] = returns[k]
    BY <1>1 DEF CallSave, TypeOK
  <2> QED
    BY <1>1, <2>1, <2>2, <2>3
<1>4. LiveIsHeld'
  <2> SUFFICES ASSUME NEW k \in Key, life'[k] = "live"
               PROVE  states'[k] # NoPending /\ ~ IsExpired(states'[k], now')
    BY DEF LiveIsHeld, IsExpired
  <2>1. CASE k = p.state
    BY <1>1, <2>1 DEF CallSave, TypeOK
  <2>2. CASE k # p.state
    <3>1. life[k] = "live"
      BY <2>2 DEF CallSave, TypeOK
    <3> QED
      BY <1>1, <2>2, <3>1 DEF LiveIsHeld
  <2> QED
    BY <2>1, <2>2
<1>5. LiveIsServed'
  BY DEF CallSave, Call, LiveIsServed
<1> QED
  BY <1>2, <1>3, <1>4, <1>5

\* A consume keeps it, whatever it finds.
LEMMA ConsumeStep ==
    ASSUME StoreInv, NEW k \in Key, CallConsumeNone(k) \/ CallConsumeSome(k)
    PROVE  StoreInv'
<1> USE DEF StoreInv
<1>1. /\ StoreTypeOK' /\ now' = now
      /\ \A j \in Key : states'[j] = IF j = k THEN NoPending ELSE states[j]
  BY ConsumeEffect DEF CallConsumeNone, CallConsumeSome, TypeOK
<1>2. CASE CallConsumeNone(k)
  <2>1. life[k] # "live"
    BY <1>2 DEF CallConsumeNone, ConsumeMissing, ConsumeExpired, LiveIsHeld
  <2>2. TypeOK'
    BY <1>1, <1>2 DEF CallConsumeNone, Call, TypeOK
  <2>3. HeldIsUnreturned'
    BY <1>1, <1>2 DEF CallConsumeNone, HeldIsUnreturned, TypeOK
  <2>4. LiveIsHeld'
    BY <1>1, <1>2, <2>1 DEF CallConsumeNone, LiveIsHeld, IsExpired
  <2>5. LiveIsServed'
    BY <1>2, <2>1 DEF CallConsumeNone, Call, LiveIsServed
  <2> QED
    BY <2>2, <2>3, <2>4, <2>5
<1>3. CASE CallConsumeSome(k)
  <2>1. states[k] \in Pending
    BY <1>3 DEF CallConsumeSome, ConsumeGood, TypeOK, StoreTypeOK
  <2>2. TypeOK'
    BY <1>1, <1>3, <2>1 DEF CallConsumeSome, Call, TypeOK, Lives
  <2>3. HeldIsUnreturned'
    <3> SUFFICES ASSUME NEW j \in Key
                 PROVE  (returns[j] + (IF states[j] = NoPending THEN 0 ELSE 1) <= saves[j])'
      BY DEF HeldIsUnreturned
    <3>1. returns[j] + (IF states[j] = NoPending THEN 0 ELSE 1) <= saves[j]
      BY DEF HeldIsUnreturned
    <3>2. saves[j] \in Nat /\ returns[j] \in Nat
      BY DEF TypeOK
    <3> QED
      BY <1>1, <1>3, <3>1, <3>2 DEF CallConsumeSome, ConsumeGood, TypeOK
  <2>4. LiveIsHeld'
    BY <1>1, <1>3 DEF CallConsumeSome, LiveIsHeld, IsExpired, TypeOK
  <2>5. LiveIsServed'
    BY <1>3 DEF CallConsumeSome, ConsumeGood, Call, LiveIsServed
  <2> QED
    BY <2>2, <2>3, <2>4, <2>5
<1> QED
  BY <1>2, <1>3

\* The clock keeps it: an entry the clock carries past max_age is live no more.
LEMMA ClockStep ==
    ASSUME StoreInv, ClockMoves
    PROVE  StoreInv'
<1> USE DEF StoreInv
<1>1. UNCHANGED <<states, saves, returns, last>>
  BY DEF ClockMoves, Tick
<1>2. TypeOK'
  BY <1>1 DEF ClockMoves, Tick, TypeOK, StoreTypeOK, Lives
<1>3. LiveIsHeld'
  BY <1>1 DEF ClockMoves, Tick, LiveIsHeld, TypeOK
<1> QED
  BY <1>1, <1>2, <1>3 DEF HeldIsUnreturned, LiveIsServed

\* The invariant of the store holds in every behaviour.
THEOREM StoreInvariant == Spec => []StoreInv
<1>1. StoreInv /\ [Next]_vars => StoreInv'
  <2> SUFFICES ASSUME StoreInv, [Next]_vars PROVE StoreInv'
    OBVIOUS
  <2>1. CASE UNCHANGED vars
    BY <2>1 DEF vars, StoreInv, TypeOK, StoreTypeOK, HeldIsUnreturned, LiveIsHeld,
                LiveIsServed, IsExpired
  <2> QED
    BY <2>1, SaveStep, ConsumeStep, ClockStep DEF Next
<1> QED
  BY <1>1, InitStoreInv, PTL DEF Spec

\* However saves, consumes and clock changes interleave, a saved pending
\* authorization is returned by at most one consume.
THEOREM StoreAtMostOnce == Spec => []AtMostOnce
<1>1. StoreInv => AtMostOnce
  <2> SUFFICES ASSUME StoreInv, NEW k \in Key PROVE returns[k] <= saves[k]
    BY DEF AtMostOnce
  <2>1. returns[k] + (IF states[k] = NoPending THEN 0 ELSE 1) <= saves[k]
    BY DEF StoreInv, HeldIsUnreturned
  <2>2. returns[k] \in Nat /\ saves[k] \in Nat
    BY DEF StoreInv, TypeOK
  <2> QED
    BY <2>1, <2>2
<1> QED
  BY <1>1, StoreInvariant, PTL

\* A consume that comes before its entry was ever seen expired gets the entry.
THEOREM StoreServesLive == Spec => []LiveIsServed
<1>1. StoreInv => LiveIsServed
  BY DEF StoreInv
<1> QED
  BY <1>1, StoreInvariant, PTL

------------------------------------------------------------------------------
\* A monotone clock never gives a lapsed entry back its youth.
LEMMA MonotoneStep ==
    ASSUME StoreInv, LapsedStaysExpired, LapsedIsNeverServed, [Next]_vars
    PROVE  LapsedStaysExpired' /\ LapsedIsNeverServed'
<1> USE DEF StoreInv
<1>0. SUFFICES ASSUME clock' = "steady" PROVE LapsedStaysExpired' /\ LapsedIsNeverServed'
  BY DEF LapsedStaysExpired, LapsedIsNeverServed
<1>0a. clock = "steady"
  BY <1>0 DEF Next, CallSave, CallConsumeNone, CallConsumeSome, ClockMoves, vars
<1>0b. ClockMoves => now' >= now
  BY <1>0 DEF ClockMoves, Tick, TypeOK, StoreTypeOK
<1>1. ASSUME NEW p \in Pending, CallSave(p)
      PROVE  LapsedStaysExpired' /\ LapsedIsNeverServed'
  <2>1. /\ now' = now /\ p.state \in Key /\ states'[p.state] = p
        /\ \A k \in Key \ {p.state} :
              states'[k] # NoPending => states'[k] = states[k] /\ ~ IsExpired(states[k], now)
    BY <1>1, SaveEffect DEF CallSave, TypeOK
  <2>2. ASSUME NEW k \in Key, states'[k] # NoPending, life'[k] # "live"
        PROVE  IsExpired(states'[k], now')
    <3>1. CASE k = p.state
      BY <1>1, <2>1, <2>2, <3>1 DEF CallSave, TypeOK
    <3>2. CASE k # p.state
      BY <1>0a, <1>1, <2>1, <2>2, <3>2 DEF CallSave, TypeOK, LapsedStaysExpired
    <3> QED
      BY <3>1, <3>2
  <2>3. LapsedIsNeverServed'
    BY <1>1 DEF CallSave, Call, LapsedIsNeverServed
  <2> QED
    BY <2>2, <2>3 DEF LapsedStaysExpired, IsExpired
<1>2. ASSUME NEW k \in Key, CallConsumeNone(k) \/ CallConsumeSome(k)
      PROVE  LapsedStaysExpired' /\ LapsedIsNeverServed'
  <2>1. /\ now' = now
        /\ \A j \in Key : states'[j] = IF j = k THEN NoPending ELSE states[j]
    BY <1>2, ConsumeEffect DEF CallConsumeNone, CallConsumeSome, TypeOK
  <2>2. \A j \in Key : j # k => life'[j] = life[j]
    BY <1>2 DEF CallConsumeNone, CallConsumeSome, TypeOK
  <2>3. LapsedStaysExpired'
    BY <1>0a, <2>1, <2>2 DEF LapsedStaysExpired, IsExpired
  <2>4. ~ IsExpired(states[k], now) /\ states[k] # NoPending => life[k] = "live"
    BY <1>0a DEF LapsedStaysExpired
  <2>5. LapsedIsNeverServed'
    BY <1>2, <2>4 DEF CallConsumeNone, CallConsumeSome, ConsumeGood, Call, LapsedIsNeverServed
  <2> QED
    BY <2>3, <2>5
<1>3. ASSUME ClockMoves
      PROVE  LapsedStaysExpired' /\ LapsedIsNeverServed'
  <2>1. now' >= now /\ now' \in Time /\ now \in Time /\ states' = states
    BY <1>0b, <1>3 DEF ClockMoves, Tick, TypeOK, StoreTypeOK
  <2>2. ASSUME NEW k \in Key, states'[k] # NoPending, life'[k] # "live"
        PROVE  IsExpired(states'[k], now')
    <3>1. CASE life[k] = "live"
      BY <1>3, <2>1, <2>2, <3>1 DEF ClockMoves
    <3>2. CASE life[k] # "live"
      <4>1. states[k] \in Pending /\ IsExpired(states[k], now)
        BY <1>0a, <2>1, <2>2, <3>2 DEF LapsedStaysExpired, TypeOK, StoreTypeOK
      <4> QED
        BY <2>1, <4>1 DEF IsExpired, Pending
    <3> QED
      BY <3>1, <3>2
  <2>3. LapsedIsNeverServed'
    BY <1>0a, <1>3 DEF ClockMoves, LapsedIsNeverServed
  <2> QED
    BY <2>2, <2>3 DEF LapsedStaysExpired, IsExpired
<1>4. CASE UNCHANGED vars
  BY <1>4 DEF vars, LapsedStaysExpired, LapsedIsNeverServed, IsExpired
<1> QED
  BY <1>1, <1>2, <1>3, <1>4 DEF Next

\* As long as the clock was never set back, an entry that was expired at any
\* moment is not handed out afterwards.
THEOREM StoreNeverServesLapsed == Spec => []LapsedIsNeverServed
<1>1. Init => LapsedStaysExpired /\ LapsedIsNeverServed
  BY DEF Init, StoreInit, LapsedStaysExpired, LapsedIsNeverServed, NoCall
<1>2. StoreInv /\ LapsedStaysExpired /\ LapsedIsNeverServed /\ [Next]_vars
        => LapsedStaysExpired' /\ LapsedIsNeverServed'
  BY MonotoneStep
<1> QED
  BY <1>1, <1>2, StoreInvariant, PTL DEF Spec

------------------------------------------------------------------------------
\* A save leaves no expired entry of another key behind.
THEOREM StoreSavePrunes == Spec => SavePrunes
<1>1. StoreInv /\ [Next]_vars =>
        [\A p \in Pending : CallSave(p) =>
            \A k \in Key \ {p.state} :
               states'[k] # NoPending => ~ IsExpired(states'[k], now)]_vars
  <2> SUFFICES ASSUME StoreInv, NEW p \in Pending, CallSave(p), NEW k \in Key \ {p.state},
                      states'[k] # NoPending
               PROVE  ~ IsExpired(states'[k], now)
    OBVIOUS
  <2> QED
    BY SaveEffect DEF CallSave, StoreInv, TypeOK
<1> QED
  BY <1>1, StoreInvariant, PTL DEF Spec, SavePrunes

------------------------------------------------------------------------------
\* Every step of the store is a step of the promise, or invisible to callers.
LEMMA PromiseStep ==
    ASSUME StoreInv, [Next]_vars
    PROVE  [Promise!Next]_(Promise!vars)
<1>1. ASSUME NEW p \in Pending, CallSave(p)
      PROVE  Promise!Save(p)
  <2> DEFINE kept == {states'[j] : j \in Key \ {p.state}} \ {NoPending}
  <2>1. /\ p.state \in Key /\ p # NoPending /\ states'[p.state] = p
        /\ \A k \in Key \ {p.state} : states'[k] = NoPending \/ states'[k] = states[k]
    BY <1>1, SaveEffect DEF CallSave, StoreInv, TypeOK
  <2>2. \A j \in Key : states[j] # NoPending => states[j].state = j
    BY DEF StoreInv, TypeOK, StoreTypeOK
  <2>3. kept \in SUBSET Promise!Others(p.state)
    BY <2>1, <2>2 DEF Promise!Others, Offers
  <2>4. Offers' = kept \cup {p}
    BY <2>1 DEF Offers
  <2>5. LastCall' = Promise!SaveCall(p)
    BY <1>1 DEF LastCall, CallSave, Call, Promise!SaveCall
  <2> QED
    BY <2>3, <2>4, <2>5 DEF Promise!Save
<1>2. ASSUME NEW k \in Key, CallConsumeNone(k) \/ CallConsumeSome(k)
      PROVE  Promise!HandOut(k) \/ Promise!Refuse(k)
  <2>1. \A j \in Key : states'[j] = IF j = k THEN NoPending ELSE states[j]
    BY <1>2, ConsumeEffect DEF CallConsumeNone, CallConsumeSome, StoreInv, TypeOK
  <2>2. \A j \in Key : states[j] # NoPending => states[j].state = j
    BY DEF StoreInv, TypeOK, StoreTypeOK
  <2>3. Offers' = Promise!Others(k)
    BY <2>1, <2>2 DEF Promise!Others, Offers
  <2>4. CASE CallConsumeSome(k)
    <3>1. states[k] \in Offers /\ states[k].state = k
      BY <2>2, <2>4 DEF CallConsumeSome, ConsumeGood, Offers
    <3>2. LastCall' = Promise!ConsumeCall(k, states[k])
      BY <2>4 DEF CallConsumeSome, LastCall, Call, Promise!ConsumeCall
    <3> QED
      BY <2>3, <3>1, <3>2 DEF Promise!HandOut
  <2>5. CASE CallConsumeNone(k)
    <3>1. LastCall' = Promise!ConsumeCall(k, NoPending)
      BY <2>5 DEF CallConsumeNone, LastCall, Call, Promise!ConsumeCall
    <3> QED
      BY <2>3, <3>1 DEF Promise!Refuse
  <2> QED
    BY <1>2, <2>4, <2>5
<1>3. ASSUME ClockMoves \/ UNCHANGED vars
      PROVE  UNCHANGED Promise!vars
  BY <1>3 DEF ClockMoves, Tick, vars, Promise!vars, Offers, LastCall
<1> QED
  BY <1>1, <1>2, <1>3 DEF Next, Promise!Next

\* The store implements the promise of the StateStore protocol.
THEOREM StoreKeepsPromise == Spec => KeepsPromise
<1>1. Init => Promise!Init
  BY DEF Init, StoreInit, Promise!Init, Offers, LastCall, NoCall, Promise!NoCall
<1>2. StoreInv /\ [Next]_vars => [Promise!Next]_(Promise!vars)
  BY PromiseStep
<1> QED
  BY <1>1, <1>2, StoreInvariant, PTL DEF Spec, Promise!Spec, KeepsPromise
=============================================================================
