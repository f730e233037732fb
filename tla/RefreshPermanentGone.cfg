SPECIFICATION Spec
CONSTANTS
  Token <- MCToken
  ErrorCode <- MCErrorCode
  ExtraPermanent <- MCExtraPermanent
  Worker = {"w1"}
  MaxRotations = 2
  Provider = {"repeat"}
  ErrorStatus = {"below_500"}
  ClientBreaks = TRUE
  GrantDies = FALSE
  Noise <- SomeNoise
CHECK_DEADLOCK FALSE
PROPERTIES
  PermanentMeansGone
