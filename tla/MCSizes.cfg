SPECIFICATION Spec
CONSTANTS
  Ratios <- MCRatios
  MaxChunks = {1, 4, 10}
  Block = 8192
CHECK_DEADLOCK FALSE
INVARIANTS CountsAgree NeverMore
