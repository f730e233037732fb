SPECIFICATION Spec
CONSTANTS
  a = a
  b = b
  c = c
  Scope <- MCScope
  Maps <- AllMaps
INVARIANTS
  ReturnsClosure
  LoopInv
PROPERTIES
  Terminates
