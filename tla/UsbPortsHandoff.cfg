CONSTANTS
  NPorts = 1
  Absent = {}
  Peers = {"host"}
  Happens = {"fault", "chainload"}
SPECIFICATION Spec
INVARIANT HandoffQuiesced
