SPECIFICATION MCSpec
CONSTANTS
  Dst = {"tty", "disk"}
  Msg = {"reply", "select"}
  ASYN_NR = 3
  NIL = NIL
INVARIANT NothingStuck
PROPERTY ChannelSpec
CHECK_DEADLOCK FALSE
