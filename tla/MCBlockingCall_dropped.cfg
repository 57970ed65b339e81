SPECIFICATION FairSpec
CONSTANTS
  Request = request
  Body = body
  Job = job
  NoHandle = NoHandle
  Timed = TRUE
  OutlivesWait = FALSE
INVARIANT GoneIsNotNotified
CHECK_DEADLOCK FALSE
