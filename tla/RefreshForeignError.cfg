SPECIFICATION Spec
CONSTANTS
  Token <- MCToken
  ErrorCode <- MCErrorCode
  ExtraPermanent <- MCExtraPermanent
  Worker = {"w1"}
  MaxRotations = 2
  Provider = {"repeat"}
  ErrorStatus = {"below_500"}
  ClientBreaks = FALSE
  GrantDies = FALSE
  Noise <- NoiseUnreadable
CHECK_DEADLOCK FALSE
INVARIANTS
  OnlyOAuthErrors
