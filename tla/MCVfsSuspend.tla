---------------------------- MODULE MCVfsSuspend ----------------------------
(***************************************************************************)
(* Small instances of VfsSuspend: a pipe that a process shares with the    *)
(* processes it forks; a FIFO that three processes open; shared and        *)
(* exclusive locks on a byte; exclusive locks on three bytes, which        *)
(* unlocking may split.                                                    *)
(***************************************************************************)
EXTENDS VfsSuspend

CONSTANT Workloads
VARIABLE workload

First == {1}
Two == {1, 2}
Exclusive == {"WRLCK"}
PipeCalls == {"pipe", "read", "write", "close", "fork", "exit", "unpause"}
FifoCalls == {"fifo", "read", "write", "close", "setfl", "unpause", "faults"}
LockCalls == {"file", "lock", "unlock", "close", "exit", "unpause"}

APipe == INSTANCE VfsSuspend WITH Boot <- First, Calls <- PipeCalls
AFifo == INSTANCE VfsSuspend WITH Calls <- FifoCalls
Locks == INSTANCE VfsSuspend WITH Positions <- First, Calls <- LockCalls
Ranges == INSTANCE VfsSuspend WITH Boot <- Two, LockTypes <- Exclusive, Calls <- LockCalls

MCInit ==
    /\ workload \in Workloads
    /\ \/ workload = "pipe" /\ APipe!Init
       \/ workload = "fifo" /\ AFifo!Init
       \/ workload = "locks" /\ Locks!Init
       \/ workload = "ranges" /\ Ranges!Init

MCNext ==
    /\ \/ workload = "pipe" /\ APipe!Next
       \/ workload = "fifo" /\ AFifo!Next
       \/ workload = "locks" /\ Locks!Next
       \/ workload = "ranges" /\ Ranges!Next
    /\ UNCHANGED workload

MCSpec == MCInit /\ [][MCNext]_<<vars, workload>>

MCFairSpec == MCSpec /\ WF_vars(get_work)
=============================================================================
