CONSTANTS
  NPorts = 2
  MaxReq = 2
  Kinds = {"call", "exit"}
  MaxZero = 0
  Nested = 1
  Drops = FALSE
SPECIFICATION Spec
INVARIANT Pinned
