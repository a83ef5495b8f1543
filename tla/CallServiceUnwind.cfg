CONSTANTS
  Sessions = {1, 2}
  Nonces = {1, 2}
  Clients = {"a", "b"}
  Views = {"none", "good", "poisoned"}
  Exits = {"unwind"}
  Ticks = TRUE
SPECIFICATION FairSpec
INVARIANTS  HeldByPoll
PROPERTIES  StopDelivered FaultServed
