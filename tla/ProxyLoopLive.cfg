CONSTANTS
  NPorts = 2
  MaxReq = 2
  Kinds = {"plain"}
  MaxZero = 1
  Nested = 0
  Drops = FALSE
SPECIFICATION FairSpec
INVARIANTS ExecutedOnce
PROPERTIES PinReleased Answered
