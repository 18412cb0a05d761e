\* The first connect fails.
CONSTANTS
  u1 = u1
  u2 = u2
  io1 = io1
  io2 = io2
  Users = {u1}
  IoThreads = {io1}
  MaxRequests = 1
  MaxAttempts = 1
  MaxLoops = 2
  MaxFaults = 1
  MaxTimeouts = 0
  ChunksPerResponse = 1
  Ssl = FALSE
  Auth = FALSE
SPECIFICATION ServedSpec
CHECK_DEADLOCK FALSE
PROPERTIES
  EveryRequestAnswered
