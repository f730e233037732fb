SPECIFICATION FairSpec
CONSTANTS
  Token <- MCToken
  ErrorCode <- MCErrorCode
  ExtraPermanent <- MCExtraPermanent
  Worker = {"w1", "w2"}
  MaxRotations = 1
  Provider = {"rotate", "repeat", "omit"}
  ErrorStatus = {"below_500", "5xx"}
  ClientBreaks = TRUE
  GrantDies = TRUE
  Noise <- AllNoise
CHECK_DEADLOCK FALSE
INVARIANTS
  NoiseDeletesNothing
PROPERTIES
  DeletedOnlyIfDead
  RevocationIsNoticed
