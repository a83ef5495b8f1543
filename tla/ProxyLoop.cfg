CONSTANTS
  NPorts = 2
  MaxReq = 1
  Kinds = {"call", "write", "exit"}
  MaxZero = 1
  Nested = 1
  Drops = TRUE
SPECIFICATION Spec
INVARIANTS  NoInterleaving
