SPECIFICATION Spec
CONSTANTS
  Absent = Absent
  Issuer = Issuer
  Origin <- OneOrigin
  Policy <- Narrow
  MethodSets <- TellingMethodSets
CHECK_DEADLOCK FALSE
INVARIANTS
  TypeOK
  MethodIsAccepted
  SecretAgrees
