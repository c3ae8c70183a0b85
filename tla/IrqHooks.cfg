SPECIFICATION MCFairSpec
CONSTANTS
  Hook = {1, 2}
  Irq = {5, 11}
  Driver = {"audio", "net"}
  LinesOf <- OwnLine
  Policies = {TRUE, FALSE}
  Disablers <- Net
  Removers <- Audio
  WhileClearing = FALSE
  NONE = NONE
  Workloads = {"own", "remove", "shared"}
INVARIANT HooksSound
PROPERTIES OpenedQuiet HandlerKept OwnInterruptsTaken
CHECK_DEADLOCK FALSE
