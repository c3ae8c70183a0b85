SPECIFICATION MCSpec
CONSTANTS
  Proc <- CoreProc
  PM = 0
  SysProc <- CoreSys
  USER_PRIV = 99
  s_id <- Ids
  BITCHUNK_BITS = 16
  s_trap_mask <- TrapMask
  MaySend <- SendMask
  MaxGen = 3
  ANY = ANY
  Programs <- CoreRunPrograms
  ASYN_NR = 0
  FreeAtBoot <- Slot4
  Forkers <- Slot3
  Mortal <- CoreMortal
  Killers <- Slot1
  KillTargets <- Slot3
  Stoppable <- Slot3
  IrqTargets <- Nobody
  AlarmTargets <- Nobody
  Workloads = {"core", "signals", "served"}
INVARIANTS TypeOK QueueSound BlockedOnLive NoMissedRendezvous NoWaitCycle
           OneMessage SignalNotLost EndksigSucceeds
PROPERTY WakeHasCause
CHECK_DEADLOCK FALSE
