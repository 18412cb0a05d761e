\* Requests with deadlines, responses in portions, connections that break.
CONSTANTS
  h1 = h1
  h2 = h2
  h3 = h3
  s1 = s1
  s2 = s2
  io1 = io1
  io2 = io2
  NoHandle = NoHandle
  Handles = {h1, h2}
  Sockets = {s1}
  IoThreads = {io1}
  Portions = 2
  MaxPolls = 0
  Deadlines = TRUE
SPECIFICATION FairSpec
CHECK_DEADLOCK FALSE
INVARIANTS
  TypeOK
  OneOwner
  TimerKept
  WatchedInUse
  LeftSettles
PROPERTIES
  ImplementsConnection
  EveryHttpRequestAnswered
