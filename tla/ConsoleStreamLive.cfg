CONSTANTS
  Owners = {"a"}
  InLen = 2
  OutLen = 4
  InMax = 2
  OutMax = 2
  InRoom = {1, 2}
  OutSize = 3
  Flags = {"none", "peek"}
  Word = 8
SPECIFICATION FairSpec
INVARIANTS OutputFaithful InputInOrder
PROPERTIES InputArrives OutputArrives
