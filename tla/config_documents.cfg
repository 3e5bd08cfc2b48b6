SPECIFICATION DocSpec
CHECK_DEADLOCK FALSE
CONSTANTS
  Scalars <- Words
  Loops <- LoopNames
  Lower <- LowerCase
  Atoi <- Number
  Addresses = {"a1", "a2"}
  ListCapacity = 2
  MemoryFails = FALSE
  Documents <- AllDocuments
  NotMappings <- NoMappings
INVARIANTS
  LoadsWhatItSays
  RefusesWhatIsWrong
PROPERTIES
  LoadingEnds
