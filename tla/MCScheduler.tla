----------------------------- MODULE MCScheduler -----------------------------
(***************************************************************************)
(* Small instances of Scheduler: IDLE, CLOCK and SYSTEM are slots -4, -3   *)
(* and -2, 0 is PM, 1 and 2 are user processes.  A run starts with one of  *)
(* its workloads, which fixes what the processes do.                       *)
(***************************************************************************)
EXTENDS Scheduler

CONSTANT Workloads
VARIABLE workload

Full == {-4, -3, -2, 0, 1, 2}
NotTasks == Proc \ {-3, -2}
UsersAndIdle == {-4} \cup {p \in Proc : p > 0}
Nobody == {}
Slot1 == {1}
Slot2 == {2}
Slots12 == {1, 2}

BootPriority == [p \in Proc |-> CASE p = -4 -> IDLE_Q [] p < -1 -> 0
                                  [] p = 0 -> 2 [] OTHER -> 3]
One == [p \in Proc |-> 1]
Two == [p \in Proc |-> IF p = 1 THEN 2 ELSE 1]
Queues02 == {0, 2}
Windows == {"start", "requeue", "receive"}

(* PM waits for a competitor that computes on a better queue. *)
UnequalPriority == [p \in Proc |-> CASE p = -4 -> IDLE_Q [] p < -1 -> 0
                                     [] p = 1 -> 1 [] OTHER -> 2]

(* Two users, one of them a driver that is niced, talk to PM. *)
Niceness == INSTANCE Scheduler WITH
    FreeAtBoot <- Nobody, Drivers <- Slot1, Niced <- Slot1,
    Mortal <- Nobody, Forkers <- Nobody, Timed <- Nobody

(* A user with virtual timers forks, parent and child exit. *)
Lifetimes == INSTANCE Scheduler WITH
    FreeAtBoot <- Slot2, Drivers <- Nobody, Niced <- Nobody,
    Mortal <- Slots12, Forkers <- Slot1, Timed <- Slot1, Talkers <- Slot1,
    TickAt <- Windows

(* Users that never block, one of them on a better queue than the other    *)
(* and PM, which makes kernel calls as it likes.                           *)
Computing == INSTANCE Scheduler WITH
    FreeAtBoot <- Nobody, Drivers <- Nobody, Nice <- Nobody, Niced <- Nobody,
    Mortal <- Nobody, Forkers <- Nobody, Timed <- Nobody, Talkers <- Nobody,
    TickAt <- Nobody, boot_priority <- UnequalPriority, p_quantum_size <- Two,
    Q_BALANCE_TICKS <- 4

MCInit ==
    /\ workload \in Workloads
    /\ \/ workload = "nice" /\ Niceness!Init
       \/ workload = "life" /\ Lifetimes!Init
       \/ workload = "compute" /\ Computing!Init

MCNext ==
    /\ \/ workload = "nice" /\ Niceness!Next
       \/ workload = "life" /\ Lifetimes!Next
       \/ workload = "compute" /\ Computing!Next
    /\ UNCHANGED workload

MCSpec == MCInit /\ [][MCNext]_<<vars, workload>>

(* Ticks come and the tasks go on. *)
MCFairSpec ==
    /\ MCSpec
    /\ WF_vars(workload = "compute" /\ Computing!balance_queues)
    /\ WF_vars(workload = "compute" /\ Computing!clock_handler)
    /\ WF_vars(workload = "compute" /\ Computing!ClockTask)
    /\ WF_vars(workload = "compute" /\ Computing!SystemTask)

(* Where users compute, a runnable process gets to run and quanta end.     *)
EverybodyRuns == workload = "compute" => Computing!NoStarvation
=============================================================================
