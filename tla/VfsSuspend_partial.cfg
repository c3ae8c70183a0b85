SPECIFICATION MCSpec
CONSTANTS
  Proc = {1, 2, 3}
  Boot = {1, 2, 3}
  OPEN_MAX = 2
  NR_FILPS = 3
  PIPE_BUF = 2
  Sizes = {1, 3}
  NR_LOCKS = 2
  Positions = {1, 2, 3}
  LockTypes = {"RDLCK", "WRLCK"}
  Calls = {"faults"}
  NIL = NIL
  Workloads = {"pipe"}
INVARIANT PartialCleared
CHECK_DEADLOCK FALSE
