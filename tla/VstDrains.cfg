\* A server that may fall silent, and users that drop the connection at any
\* time: deadlines answer what was sent, then everything stops.
CONSTANTS
  u1 = u1
  u2 = u2
  io1 = io1
  io2 = io2
  Users = {u1}
  IoThreads = {io1}
  MaxRequests = 1
  MaxAttempts = 2
  MaxLoops = 3
  MaxFaults = 1
  MaxTimeouts = 1
  ChunksPerResponse = 1
  Ssl = FALSE
  Auth = FALSE
SPECIFICATION LifeSpec
CHECK_DEADLOCK FALSE
INVARIANTS
  NothingLeaks
PROPERTIES
  DestroyedDrained
  StoredIsAnswered
  ServiceStops
