SPECIFICATION MCFairSpec
CONSTANTS
  Proc <- Full
  PM = 0
  Preemptible <- NotTasks
  Billable <- UsersAndIdle
  FreeAtBoot <- Slot2
  boot_priority <- BootPriority
  p_quantum_size <- One
  IDLE_Q = 4
  Q_BALANCE_TICKS = 1
  MaxTicks = 1
  MinTicks = 0
  Talkers <- Slots12
  Drivers <- Slot1
  Nice <- Queues02
  Niced <- Slot1
  Mortal <- Slots12
  Forkers <- Slot1
  Timed <- Slot1
  TickAt <- ClockPoints
  NIL = NIL
  Workloads = {"nice", "life", "compute"}
INVARIANTS RunqueuesSound HighestRuns
PROPERTIES EverybodyRuns TaskNotPreempted
