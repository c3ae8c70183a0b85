SPECIFICATION MCFairSpec
CONSTANTS
  NrProcs = 4
  Boot <- Slots12
  Priv <- Nobody
  Signals <- SignalOrder
  CoreSigs <- Kill1
  Sent <- KillChld
  Dispositions <- DefaultOrCatch
  NoStack <- Slot3
  NewSlots <- Slots23
  Calls <- OrphanCalls
  Queueing = FALSE
  Workloads = {"family", "signals", "delay", "trace", "service", "orphans"}
INVARIANTS FamilySound StoppedForAReason RepliesAwaited
PROPERTIES NoPanic PendingCarried ChildrenFreed
CHECK_DEADLOCK FALSE
