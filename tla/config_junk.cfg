SPECIFICATION JunkSpec
CHECK_DEADLOCK FALSE
CONSTANTS
  Scalars <- Words
  Loops <- LoopNames
  Lower <- LowerCase
  Atoi <- Number
  Addresses = {"a1", "a2", "sample"}
  ListCapacity = 1
  MemoryFails = TRUE
  MaxEvents = 12
  Noise = {"servers", "listen", "runtime", "sample_option", "sample"}
INVARIANTS
  BlocksHaveServers
  RuntimesOwned
