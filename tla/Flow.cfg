SPECIFICATION Spec
CONSTANTS
  f1 = f1
  f2 = f2
  c1 = c1
  c2 = c2
  x1 = x1
  x2 = x2
  cb = cb
  home = home
  other = other
  none = none
  api = api
  elsewhere = elsewhere
  stray = stray
  Audience <- MCAudience
  Resource = api
  ExtraParams <- MCExtraParams
  Query <- MCQuery
  Code <- MCCode
  Redirect <- MCRedirect
  Home = home
  Elsewhere <- MCElsewhere
  ExpectedIss = home
  None = none
  UsePkce = TRUE
  Flow <- MCFlow
  Call <- MCCall
  RequireIss = TRUE
  Modes = {"state", "args"}
  MaxAge = 1
  MaxTime = 2
  MaxBack = 0
SYMMETRY Symmetry
CHECK_DEADLOCK FALSE
INVARIANTS
  TypeOK
  OneRequestPerState
  BurntForACause
  ForeignCodesStayAway
  ContextFitsGrant
  GenuineIsHonoured
  ResourceIsAuthoritative
PROPERTIES
  StateErrorIsDeserved
  OneShot
