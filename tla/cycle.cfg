SPECIFICATION FairCycle
CHECK_DEADLOCK FALSE
CONSTANTS
  Scalars <- Words
  Loops <- BothLoops
  Lower <- LowerCase
  Atoi <- Number
  Addresses = {"a1", "a2", "a3"}
  ListCapacity = 2
  MemoryFails = TRUE
  Documents <- Streams
  Unix = {"a1", "a3"}
  DefaultEvents = 4
  DefaultConnections = 2
  DefaultSize = 2
INVARIANTS
  StartsAgain
  AllServed
  ListenersHaveAll
  CleanStop
PROPERTIES
  ImplementsContract
  StartDecides
  SignalStops
