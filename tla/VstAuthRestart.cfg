\* An authenticated connection that restarts up to twice.
CONSTANTS
  u1 = u1
  u2 = u2
  io1 = io1
  io2 = io2
  Users = {u1}
  IoThreads = {io1}
  MaxRequests = 1
  MaxAttempts = 3
  MaxLoops = 3
  MaxFaults = 1
  MaxTimeouts = 0
  ChunksPerResponse = 1
  Ssl = FALSE
  Auth = TRUE
SPECIFICATION Spec
CHECK_DEADLOCK FALSE
INVARIANTS
  QueueServed
PROPERTIES
  ImplementsConnection
