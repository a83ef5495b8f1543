CONSTANTS
  Chunks = 2
  MaxTrouble = 3
SPECIFICATION HostSpec
INVARIANTS HostTypeOK NothingLeftOn MemoryApart VerdictsHonest   
           AlgorithmsExact
 
CHECK_DEADLOCK FALSE
