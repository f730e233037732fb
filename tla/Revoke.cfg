SPECIFICATION FairSpec
CONSTANTS
  Absent = Absent
  Call = {c1, c2}
  Passed <- BothTokens
CHECK_DEADLOCK FALSE
INVARIANTS
  TypeOK
  ConfirmedIsDead
  OnlyNamedErrors
PROPERTIES
  RetryIsConfirmed
