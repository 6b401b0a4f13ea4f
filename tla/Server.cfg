SPECIFICATION Spec
CONSTANTS
  Socks = {3, 4}
  MaxConns = 2
  MaxSessions = 2
  Slots = 4
  CleanUpDelay = 2
  Heartbeat = 2
  MaxHandling = 1
INVARIANTS
  MapsAreInverse
  OnlyReuseShares
  
PROPERTY UnusedIsCleanedUp
CHECK_DEADLOCK FALSE
