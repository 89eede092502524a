SPECIFICATION Spec
CONSTANTS
  Conn = {c1, c2}
  Session = {s1, s2}
  NoSession = NoSession
  MultiStream = TRUE
  ConnectionRetries = 1
  MaxStreams = 2
CHECK_DEADLOCK FALSE
INVARIANT ConnectionDroppedOnly
