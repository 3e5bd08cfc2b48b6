SPECIFICATION Spec
CHECK_DEADLOCK FALSE
CONSTANTS
  c1 = c1
  c2 = c2
  c3 = c3
  s1 = s1
  s2 = s2
  Servers = {s1}
  Clients = {c1, c2, c3}
  Dial <- DialOne
  BufferSize <- Buffers
  Capacity = 1
  MaxEvents = 4
  EdgeTriggered = FALSE
  MaxQueue = 1
  MaxFaults = 0
PROPERTY
  PeerPerformedShutdown
