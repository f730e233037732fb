SPECIFICATION Spec
CONSTANTS
  k1 = k1
  k2 = k2
  none = none
  ctx = ctx
  Key <- MCKey
  Payload <- MCPayload
  NoPending = none
  MaxAge = 2
  MaxTime = 4
  MaxBack = 2
  MaxSaves = 2
SYMMETRY Symmetry
INVARIANTS
  AtMostOnce
  LiveIsServed
  LapsedIsNeverServed
  StoreInv
PROPERTIES
  SavePrunes
  KeepsPromise
