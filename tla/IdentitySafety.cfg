SPECIFICATION Spec
CONSTANTS
  Absent = Absent
  Foreign = Foreign
  Provider <- BuiltIn
  Tenant = {"acme", "zenith"}
  Domain = {"acme.com", "acme.org", "zenith.io"}
  DomainsOf <- MCDomainsOf
  Address = {"ann@acme", "ann@home"}
  MaxNamed = 2
  Setups <- MCSetups
CHECK_DEADLOCK FALSE
INVARIANTS
  OwnershipIsProven
  GateAgrees
  OwnersAreCapable
  VerifiedEmailIsAsserted
  BearerStaysHome
  DirectoryFailsNoSignIn
