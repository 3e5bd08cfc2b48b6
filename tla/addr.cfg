SPECIFICATION MCSpec
CHECK_DEADLOCK FALSE
CONSTANTS
  Chars <- Letters
  SunPath = 5
  Inet <- InetOnes
  Inet6 <- Inet6Ones
  Loopback <- Loop
  MaxLength = 8
INVARIANTS
  MemoryInOrder
  AsksForTheText
  NameLeadsBack
