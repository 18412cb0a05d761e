\* Deadlines that race with responses, on two io threads.
CONSTANTS
  u1 = u1
  u2 = u2
  io1 = io1
  io2 = io2
  Users = {u1}
  IoThreads = {io1, io2}
  MaxRequests = 1
  MaxAttempts = 2
  MaxLoops = 3
  MaxFaults = 0
  MaxTimeouts = 1
  ChunksPerResponse = 1
  Ssl = FALSE
  Auth = FALSE
SPECIFICATION Spec
CHECK_DEADLOCK FALSE
INVARIANTS
  HandedBack
