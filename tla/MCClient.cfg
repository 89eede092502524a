\* Three connections, two sessions to dial and one stream in each at a time.
SPECIFICATION FairSpec
CONSTANTS
  Conn = {c1, c2, c3}
  Session = {s1, s2}
  NoSession = NoSession
  MultiStream = TRUE
  ConnectionRetries = 2
  MaxStreams = 1
CHECK_DEADLOCK FALSE
INVARIANTS TypeOK NilNeedsRival
PROPERTY Settles
