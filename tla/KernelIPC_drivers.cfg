SPECIFICATION MCFairSpec
CONSTANTS
  Proc <- DriverProc
  PM = 0
  SysProc <- DriverSys
  USER_PRIV = 99
  s_id <- Ids
  BITCHUNK_BITS = 4
  s_trap_mask <- TrapMask
  MaySend <- SendMask
  MaxGen = 2
  ANY = ANY
  Programs <- DriverPrograms
  ASYN_NR = 2
  FreeAtBoot <- Slot4
  Forkers <- Nobody
  Mortal <- Slots234
  Killers <- Slot1
  KillTargets <- Slot3
  Stoppable <- Nobody
  IrqTargets <- Slot1
  AlarmTargets <- Slots12
  Workloads = {"notify", "async", "calls", "fork"}
INVARIANTS NotificationsKept AsyncKept
PROPERTIES SignalsReachPM SendersServed
CHECK_DEADLOCK FALSE
