\* Three requests for one or two threads, downloads and uploads, with bodies of
\* any length from one unit, a Thread.start that may fail, and an in_flight
\* that is counted without a lock.
SPECIFICATION FairSpec
CONSTANTS
  Requests = 3
  Limits = {1, 2}
  Body = 1
  EventShared = TRUE
  ThreadErrors = TRUE
  None = None
CHECK_DEADLOCK FALSE
INVARIANTS TypeOK AtMostMax PutBlocksByLoss WaitsByLoss Accounted
PROPERTIES KeepsPromise Ends
