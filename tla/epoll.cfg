SPECIFICATION Spec
CHECK_DEADLOCK FALSE
SYMMETRY Alike
CONSTANTS
  c1 = c1
  c2 = c2
  c3 = c3
  s1 = s1
  s2 = s2
  Servers = {s1, s2}
  Clients = {c1, c2, c3}
  Dial <- DialTwo
  BufferSize <- Buffers
  Capacity = 2
  MaxEvents = 2
  EdgeTriggered = TRUE
  MaxQueue = 2
  MaxFaults = 1
INVARIANTS
  ServerInv
  EventStillReadable
  OpenConnectionUsable
  FreshArena
  CleanExit
  DataNotStranded
  EdgeHasClient
PROPERTIES
  ImplementsContract
