\* Three events, waited for with wait, or with wait_for that may time out.
CONSTANTS
  e1 = e1
  e2 = e2
  e3 = e3
  Events = {e1, e2, e3}
  Timed = TRUE
SPECIFICATION FairSpec
CHECK_DEADLOCK FALSE
INVARIANTS
  TypeOK
  ReturnIsSafe
PROPERTIES
  WaitReturns
