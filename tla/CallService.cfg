CONSTANTS
  Sessions = {1, 2}
  Nonces = {1, 2, 3}
  Clients = {"a", "b"}
  Views = {"none", "good", "poisoned", "bad"}
  Exits = {"resume", "unwind"}
  Ticks = TRUE
SPECIFICATION Spec
PROPERTY StopsAsPromised
