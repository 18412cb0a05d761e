\* A response that arrives in two portions, for a request without timeout.
CONSTANTS
  h1 = h1
  h2 = h2
  h3 = h3
  s1 = s1
  s2 = s2
  io1 = io1
  io2 = io2
  NoHandle = NoHandle
  Handles = {h1}
  Sockets = {s1}
  IoThreads = {io1}
  Portions = 2
  MaxPolls = 1
  Deadlines = FALSE
SPECIFICATION ServedSpec
CHECK_DEADLOCK FALSE
PROPERTIES
  EveryHttpRequestAnswered
