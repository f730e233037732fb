SPECIFICATION Spec
CONSTANTS
  w1 = w1
  w2 = w2
  Absent = Absent
  Provider <- BuiltIn
  Base <- MCBase
  Scope = {"base", "write"}
  Worker <- MCWorker
  MaxTokens = 2
SYMMETRY Symmetry
CHECK_DEADLOCK FALSE
INVARIANTS
  TypeOK
  ConfirmedEndsItsGrant
PROPERTIES
  ReductionTakesEffect
