SPECIFICATION Spec
CONSTANTS
  Absent = Absent
  Issuer = Issuer
  Origin <- OneOrigin
  Policy <- Lenient
  MethodSets <- FewMethodSets
CHECK_DEADLOCK FALSE
INVARIANTS
  MissingIssIsRejected
