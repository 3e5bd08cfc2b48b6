SPECIFICATION Spec
CHECK_DEADLOCK FALSE
CONSTANTS
  Handlers = {a1, h1, h2}
  Acceptors = {a1}
  Handles = {f1, f2, f3}
  EventsLength = 2
  NoHandle = NoHandle
  NoHandler = NoHandler
INVARIANT
  WritesInTable
