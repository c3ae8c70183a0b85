-------------------------- MODULE MCProcessManager --------------------------
(***************************************************************************)
(* Small instances of ProcessManager: INIT is slot 1.  A run starts with   *)
(* one of its workloads, which fixes the processes at first and the calls  *)
(* they make.                                                              *)
(***************************************************************************)
EXTENDS ProcessManager

CONSTANT Workloads
VARIABLE workload

SignalOrder == <<"KILL", "CHLD", "USR", "STOP">>
Nobody == {}
Slot2 == {2}
Slot3 == {3}
Users == {2, 3, 4}
Slots23 == {2, 3}
Slots12 == {1, 2}
Slots123 == {1, 2, 3}
Kill1 == {"KILL"}
KillChld == {"KILL", "CHLD"}
KillUsr == {"KILL", "USR"}
Default == {"dfl"}
DefaultOrCatch == {"dfl", "catch"}
IgnoreOrCatch == {"ign", "catch"}

(* Fork, exit and wait, with processes that are killed and dump core. *)
FamilyCalls == {"fork", "init_fork", "exit", "wait", "waitpid", "nohang", "kill"}
Families == INSTANCE ProcessManager WITH
    Boot <- Slots12, Priv <- Nobody, CoreSigs <- Kill1, Sent <- Kill1,
    Dispositions <- Default, NoStack <- Nobody, Calls <- FamilyCalls, Queueing <- FALSE,
    NewSlots <- Users

(* Signals caught, ignored and blocked, next to calls that go to FS. *)
SignalCalls == {"exit", "wait", "kill", "group", "mask", "sigsuspend",
                "sigaction", "exec"}
Signalled == INSTANCE ProcessManager WITH
    Boot <- Slots123, Priv <- Nobody, CoreSigs <- Nobody, Sent <- KillUsr,
    Dispositions <- IgnoreOrCatch, NoStack <- Slot3, Calls <- SignalCalls, Queueing <- FALSE

(* Calls that wait in the kernel while their process is signalled. *)
DelayCalls == {"exit", "kill", "mask", "pause", "sigaction", "fork", "exec", "setuid"}
Delayed == INSTANCE ProcessManager WITH
    Boot <- Slots12, Priv <- Nobody, CoreSigs <- Nobody, Sent <- KillUsr,
    Dispositions <- DefaultOrCatch, NoStack <- Nobody, Calls <- DelayCalls, Queueing <- TRUE,
    NewSlots <- Slot3

(* Tracers and their children. *)
TraceCalls == {"exit", "wait", "kill", "attach", "trace_ok", "trace_exit", "detach",
               "resume", "issue", "setuid", "pause"}
Tracing == INSTANCE ProcessManager WITH
    Boot <- Slots123, Priv <- Nobody, CoreSigs <- Nobody, Sent <- KillUsr,
    Dispositions <- DefaultOrCatch, NoStack <- Nobody, Calls <- TraceCalls, Queueing <- FALSE

(* A system process that starts others. *)
ServiceCalls == {"fork_nb", "exit", "setuid", "wait", "kill", "mask", "sigaction", "pause"}
Service == INSTANCE ProcessManager WITH
    Boot <- Slots12, Priv <- Slot2, CoreSigs <- Kill1, Sent <- KillUsr,
    Dispositions <- DefaultOrCatch, NoStack <- Nobody, Calls <- ServiceCalls, Queueing <- FALSE

(* Children that INIT inherits, of parents that may catch SIGCHLD. *)
OrphanCalls == {"fork", "exit", "wait", "kill", "sigaction"}
Orphans == INSTANCE ProcessManager WITH
    Boot <- Slots12, Priv <- Nobody, CoreSigs <- Kill1, Sent <- KillChld,
    Dispositions <- DefaultOrCatch, NoStack <- Slot3, Calls <- OrphanCalls, Queueing <- FALSE

MCInit ==
    /\ workload \in Workloads
    /\ \/ workload \in {"family", "orphans", "delay"} /\ Families!Init
       \/ workload \in {"signals", "trace"} /\ Signalled!Init
       \/ workload = "service" /\ Service!Init

(* Of each instance, the actions that its calls allow. *)
MCNext ==
    /\ \E p \in Slot :
       \/ workload = "family" /\ (Families!Family(p) \/ Families!Files(p))
       \/ workload = "signals" /\ (Signalled!Family(p) \/ Signalled!Signalling(p) \/ Signalled!Files(p))
       \/ workload = "delay" /\ (\/ Delayed!Family(p) \/ Delayed!Signalling(p)
                                 \/ Delayed!Kernel(p) \/ Delayed!Files(p))
       \/ workload = "trace" /\ (\/ Tracing!Family(p) \/ Tracing!Signalling(p)
                                 \/ Tracing!Trace(p) \/ Tracing!Files(p))
       \/ workload = "service" /\ (Service!Family(p) \/ Service!Signalling(p) \/ Service!Files(p))
       \/ workload = "orphans" /\ (Orphans!Family(p) \/ Orphans!Signalling(p) \/ Orphans!Files(p))
    /\ UNCHANGED workload

MCSpec == MCInit /\ [][MCNext]_<<vars, workload>>

ForkAndExit == workload \in {"family", "orphans"}

(* The fairness of ProcessManager, where processes fork, exit and wait. *)
MCFairSpec ==
    /\ MCSpec
    /\ []<>~(ForkAndExit /\ Idle /\ CanRun(INIT)) \/ []<><<ForkAndExit /\ Wait(INIT)>>_vars
    /\ \A p \in Slot : \/ []<>~(ForkAndExit /\ Idle /\ fsreq[p] # "none")
                       \/ []<><<ForkAndExit /\ FsReply(p, TRUE)>>_vars

(* Where processes fork, exit and are killed, the slots of the children    *)
(* INIT was given, or inherited, are freed.                                *)
ChildrenFreed == ForkAndExit => SlotFreed
=============================================================================
