CONSTANTS
  NPorts = 1
  Absent = {}
  Peers = {"host", "gadget"}
  Happens = {"fault", "cable", "link", "refresh", "chainload", "reset"}
SPECIFICATION Spec
INVARIANTS EngineInv DmaExclusive
PROPERTIES KeepsLiveLinks GivesUpOnlyForDma PollOwnsPorts
