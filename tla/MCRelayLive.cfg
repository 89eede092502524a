\* A small instance for liveness: two units from the destination, one from the
\* application.  Each of the header's Reads is for one unit and so is never
\* short: MCRelaySafety has the short ones.
CONSTANTS
  Units <- TwoDown
  SockBuf = 1
  StreamWindow = 2
  PreambleLen = 1
  AddressLen = 1
  LongAddressLen = 1
SPECIFICATION FairSpec
PROPERTIES GoneReleases SessionLossReleases LateDataReleases UpReachesSocket DownReachesSocket
CHECK_DEADLOCK FALSE
