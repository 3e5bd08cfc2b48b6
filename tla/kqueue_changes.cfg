SPECIFICATION Spec
CHECK_DEADLOCK FALSE
CONSTANTS
  Handlers = {a1, a2, h1, h2}
  Acceptors = {a1, a2}
  Handles = {f1, f2, f3, f4}
  EventsLength = 3
  NoHandle = NoHandle
  NoHandler = NoHandler
INVARIANTS
  OverrunOnlyCrowded
  KnotesOwned
PROPERTIES
  WaitWatchesAll
