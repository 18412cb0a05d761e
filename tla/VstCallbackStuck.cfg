\* A connection is lost, and the callback of a request that it fails sends
\* the request again.
CONSTANTS
  u1 = u1
  u2 = u2
  io1 = io1
  io2 = io2
  Users = {u1}
  IoThreads = {io1}
  MaxRequests = 2
  MaxAttempts = 2
  MaxLoops = 3
  MaxFaults = 1
  MaxTimeouts = 0
  ChunksPerResponse = 1
  Ssl = FALSE
  Auth = FALSE
SPECIFICATION CallSpec
CHECK_DEADLOCK FALSE
PROPERTIES
  SendReturns
