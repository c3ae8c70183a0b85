SPECIFICATION MCSpec
CONSTANTS
  Proc <- DriverProc
  PM = 0
  SysProc <- DriverSys
  USER_PRIV = 99
  s_id <- Ids
  BITCHUNK_BITS = 4
  s_trap_mask <- TrapMask
  MaySend <- SendMask
  MaxGen = 2
  ANY = ANY
  Programs <- DriverPrograms
  ASYN_NR = 2
  FreeAtBoot <- Slot4
  Forkers <- Nobody
  Mortal <- Slot2
  Killers <- Nobody
  KillTargets <- Nobody
  Stoppable <- Nobody
  IrqTargets <- Slot1
  AlarmTargets <- Slots12
  Workloads = {"notify"}
INVARIANT NoMissedNotification
CHECK_DEADLOCK FALSE
