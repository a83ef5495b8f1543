CONSTANTS
  NPorts = 1
  Absent = {}
  Peers = {"host", "gadget"}
  Happens = {"cable", "link"}
SPECIFICATION FairSpec
PROPERTIES EnumerationEnds FindsPeer
