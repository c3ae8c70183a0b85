SPECIFICATION Spec
CONSTANTS
  Proc <- SmallProc
  PM = 0
  SysProc <- SmallSys
  USER_PRIV = 99
  s_id <- Ids
  BITCHUNK_BITS = 16
  s_trap_mask <- TrapMask
  MaySend <- SendMask
  MaxGen = 3
  ANY = ANY
  Programs <- ServerPrograms
  ASYN_NR = 0
  FreeAtBoot <- Slot4
  Forkers <- Slot1
  Mortal <- Nobody
  Killers <- Nobody
  KillTargets <- Nobody
  Stoppable <- Nobody
  IrqTargets <- Nobody
  AlarmTargets <- Nobody
INVARIANT QueueSound
CHECK_DEADLOCK FALSE
