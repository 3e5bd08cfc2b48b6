SPECIFICATION Spec
CHECK_DEADLOCK FALSE
CONSTANTS
  Requests <- MCRequests
  Bodies <- MCBodies
  Streams <- AllStreams
  MaxJunk = 4
INVARIANTS
  ParsesWhatWasSent
  NothingLeftOver
  OverwritesSeparators
  HeaderInOrder
