CONSTANTS
  Sessions = {1}
  Nonces = {1}
  Clients = {"a"}
  Views = {"none", "bad"}
  Exits = {"unwind"}
  Ticks = FALSE
SPECIFICATION FairSpec
PROPERTY FaultServed
