SPECIFICATION FairSpec
CONSTANTS
  Absent = Absent
  Issuer = Issuer
  Origin <- MixedOrigins
  Policy <- Strict
  MethodSets <- FewMethodSets
CHECK_DEADLOCK FALSE
INVARIANTS
  RequestsAreValidated
  GivesUpAfterAll
PROPERTIES
  ConnectEnds
