CONSTANTS
  Units <- TwoUp
  SockBuf = 1
  StreamWindow = 4
  PreambleLen = 2
  AddressLen = 2
  LongAddressLen = 3
SPECIFICATION Spec
INVARIANTS TypeOK InOrder CloseHasCause
PROPERTIES OneConnection
CHECK_DEADLOCK FALSE
