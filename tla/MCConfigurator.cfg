SPECIFICATION Spec
CONSTANTS
  Heads = {"172.10", "172.12"}
  MaxEdits = 2
  MaxRuns = 2
CHECK_DEADLOCK FALSE
INVARIANTS TypeOK Consistent
