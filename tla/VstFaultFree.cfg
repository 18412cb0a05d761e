\* No failures: authentication, two io threads, a server that answers, and
\* requests that are sent by a user or by the callback of the one before.
CONSTANTS
  u1 = u1
  u2 = u2
  io1 = io1
  io2 = io2
  Users = {u1}
  IoThreads = {io1, io2}
  MaxRequests = 2
  MaxAttempts = 1
  MaxLoops = 3
  MaxFaults = 0
  MaxTimeouts = 0
  ChunksPerResponse = 1
  Ssl = FALSE
  Auth = TRUE
SPECIFICATION CallSpec
CHECK_DEADLOCK FALSE
INVARIANTS
  NeverDies
  OneWriteAtATime
  HandshakeFirst
  AuthenticatesFirst
PROPERTIES
  EveryRequestAnswered
