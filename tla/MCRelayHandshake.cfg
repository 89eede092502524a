CONSTANTS
  Units <- OneEach
  SockBuf = 1
  StreamWindow = 3
  PreambleLen = 1
  AddressLen = 2
  LongAddressLen = 2
SPECIFICATION Spec
INVARIANTS
  CorrectHandshake
CHECK_DEADLOCK FALSE
