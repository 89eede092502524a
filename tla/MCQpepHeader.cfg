CONSTANTS
  IPv4len = 4
  IPv6len = 16
  Address <- MCAddress
  Payload <- MCPayload
SPECIFICATION Spec
INVARIANTS
  TypeOK
  HeaderDelivered
  NeverAsksForLess
  LossBounded
  ReadersAgree
CHECK_DEADLOCK FALSE
