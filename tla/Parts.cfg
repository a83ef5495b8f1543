CONSTANTS
  Entries = 3
  MaxCid = 4
  Slots = 2
  CompletionReads = 2
  MaxCmds = 4
  MaxGarbled = 1
  Extents = 2
  MaxRuns = 4
  MaxFaults = 2
SPECIFICATION PartsSpec
INVARIANTS PartsTypeOK  CompletionsMatch PassMeansDone HeaderVouches RangesExact
PROPERTIES ProbesOnlyWhenQuiet OnlyOwnerTypes ProbedFirst
CHECK_DEADLOCK FALSE
