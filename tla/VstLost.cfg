\* An SSL connection that is lost once, at any moment.
CONSTANTS
  u1 = u1
  u2 = u2
  io1 = io1
  io2 = io2
  Users = {u1}
  IoThreads = {io1}
  MaxRequests = 2
  MaxAttempts = 2
  MaxLoops = 3
  MaxFaults = 1
  MaxTimeouts = 0
  ChunksPerResponse = 2
  Ssl = TRUE
  Auth = FALSE
SPECIFICATION Spec
CHECK_DEADLOCK FALSE
INVARIANTS
  TypeOK
  StoreOwnsRequest
  Accounted
  QueueServed
  StoreWatched
