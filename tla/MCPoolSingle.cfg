SPECIFICATION Spec
CONSTANTS
  Requests = 3
  Limits = {1}
  Body = 1
  EventShared = TRUE
  ThreadErrors = FALSE
  None = None
CHECK_DEADLOCK FALSE
INVARIANT SingleConnection
