\* 38 command lines, and a program of three calls; three servers, one of them
\* ignored.
SPECIFICATION CallersFairSpec
CONSTANTS
  Server = {1, 2, 3}
  Distance <- MCDistance
  Ignored = {3}
  Lists = {{}, {1, 2, 3}, {2, 3}}
  Limit = 2
  Latency = {1}
  Failed = 10
  Rate = {0, 2}
  FastRate = 1
  Threads = 2
  FastThreads = 8
  Mini = 0
  None = None
  Args <- MCArgs
  Filters <- MCFilters
  MaxCalls = 3
CHECK_DEADLOCK FALSE
INVARIANTS TypeOK ChosenAllowed OneServerInShell Delivered
PROPERTIES WholeRound ShellEnds
