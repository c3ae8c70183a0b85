---------------------------- MODULE MCKernelIPC ----------------------------
(***************************************************************************)
(* Small instances of KernelIPC.  Slots: 0 is PM, 1 a server, 2 a second   *)
(* server or driver, 3 and 4 user processes, of which 4 may be free at     *)
(* boot.  A run starts with one of its workloads, which fixes what the     *)
(* programs do; the process table is the same for the workloads of a run.  *)
(***************************************************************************)
EXTENDS KernelIPCInv

CONSTANT Workloads
VARIABLE workload

Tasks == {-3, -2, -1}
Ids == [p \in SysProc |-> p + 4]
TrapMask == [q \in Priv |-> CASE q \in Tasks   -> {"RECEIVE"}
                              [] q = USER_PRIV -> {"SENDREC"}
                              [] OTHER         -> Traps]
SendMask == {pq \in (Proc \ Tasks) \X Proc :
                pq[1] # pq[2] /\ (pq[1] \in SysProc \/ pq[2] \in SysProc)}
Nobody == {}
Users == {3, 4}
Slot1 == {1}
Slot2 == {2}
Slot3 == {3}
Slot4 == {4}
Slots12 == {1, 2}
Slots234 == {2, 3, 4}
CoreProc == Tasks \cup {0, 1, 3, 4}
CoreSys == Tasks \cup {0, 1}
CoreMortal == {1, 3, 4}
DriverProc == Tasks \cup {0, 1, 2, 3, 4}
DriverSys == Tasks \cup {0, 1, 2}

(* Users call PM and a server, PM and the server talk to each other, users *)
(* fork and anyone but PM may die.                                         *)
CorePrograms ==
    {<<0, "RECEIVE", ANY>>, <<0, "SENDNB", 3>>, <<0, "SENDNB", 4>>, <<0, "SEND", 1>>,
     <<1, "RECEIVE", ANY>>, <<1, "RECEIVE", 0>>, <<1, "SENDREC", 0>>, <<1, "SENDNB", 3>>,
     <<3, "SENDREC", 0>>, <<3, "SENDREC", 1>>, <<4, "SENDREC", 0>>}
Core == INSTANCE KernelIPC WITH
    Programs <- CorePrograms, Mortal <- CoreMortal,
    Killers <- Nobody, KillTargets <- Nobody, Stoppable <- Nobody

(* The server signals users, PM stops, resumes and lets them exit. *)
SignalPrograms ==
    {<<0, "RECEIVE", ANY>>, <<0, "SENDNB", 3>>,
     <<1, "RECEIVE", ANY>>, <<1, "RECEIVE", 3>>, <<1, "SENDNB", 3>>,
     <<3, "SENDREC", 0>>, <<3, "SENDREC", 1>>}
Signalled == INSTANCE KernelIPC WITH
    Programs <- SignalPrograms, Mortal <- Slot3,
    Killers <- Slot1, KillTargets <- Slot3, Stoppable <- Slot3

(* Users call server 1, which calls PM and forks, as RS does, whenever     *)
(* nobody is queued at it; its child calls both and may die.  That the     *)
(* queue is copied otherwise is what MCForkQueue shows.                    *)
ServedPrograms ==
    {<<0, "RECEIVE", ANY>>, <<0, "SENDNB", 1>>, <<0, "SENDNB", 4>>,
     <<1, "RECEIVE", ANY>>, <<1, "SENDREC", 0>>, <<1, "SENDNB", 3>>, <<1, "SENDNB", 4>>,
     <<3, "SENDREC", 1>>, <<4, "SENDREC", 0>>, <<4, "SENDREC", 1>>}
Served == INSTANCE KernelIPC WITH
    Programs <- ServedPrograms, Mortal <- CoreMortal, Forkers <- Slot1,
    Killers <- Nobody, KillTargets <- Nobody, Stoppable <- Nobody

CoreRunPrograms == CorePrograms \cup SignalPrograms \cup ServedPrograms

(* Interrupts, alarms and a second server notify a driver. *)
NotifyPrograms ==
    {<<1, "RECEIVE", ANY>>, <<1, "RECEIVE", -1>>, <<1, "SENDREC", 2>>, <<1, "NOTIFY", 2>>,
     <<2, "RECEIVE", ANY>>, <<2, "RECEIVE", 1>>, <<2, "NOTIFY", 1>>, <<2, "SEND", 1>>}
Notified == INSTANCE KernelIPC WITH
    Programs <- NotifyPrograms, Mortal <- Slot2, IrqTargets <- Slot1,
    AlarmTargets <- Slots12, Killers <- Nobody, KillTargets <- Nobody

(* Asynchronous messages of server 1 to server 2 and a user process. *)
AsyncPrograms ==
    {<<1, "SENDA", 2>>, <<1, "SENDA", 3>>, <<1, "RECEIVE", ANY>>,
     <<2, "RECEIVE", ANY>>, <<2, "RECEIVE", 1>>,
     <<3, "SENDREC", 1>>}
Async == INSTANCE KernelIPC WITH
    Programs <- AsyncPrograms, Mortal <- Slot2, IrqTargets <- Nobody,
    AlarmTargets <- Nobody, Killers <- Nobody, KillTargets <- Nobody

(* Everyone calls PM, which answers; server 1 signals the user process. *)
CallPrograms ==
    {<<0, "RECEIVE", ANY>>, <<0, "SENDNB", 1>>, <<0, "SENDNB", 2>>, <<0, "SENDNB", 3>>,
     <<1, "SENDREC", 0>>, <<1, "SEND", 0>>, <<2, "SENDREC", 0>>, <<3, "SENDREC", 0>>}
Calling == INSTANCE KernelIPC WITH
    Programs <- CallPrograms, Mortal <- Slot3, IrqTargets <- Nobody,
    AlarmTargets <- Nobody, Killers <- Slot1, KillTargets <- Slot3

(* Server 2 forks a child that becomes a user process, calls PM and dies. *)
ForkPrograms ==
    {<<0, "RECEIVE", ANY>>, <<0, "SENDNB", 2>>, <<0, "SENDNB", 4>>,
     <<2, "SENDREC", 0>>, <<4, "SENDREC", 0>>, <<1, "NOTIFY", 2>>}
Forking == INSTANCE KernelIPC WITH
    Programs <- ForkPrograms, Mortal <- Slot4, Forkers <- Slot2, IrqTargets <- Nobody,
    AlarmTargets <- Nobody, Killers <- Nobody, KillTargets <- Nobody

DriverPrograms == NotifyPrograms \cup AsyncPrograms \cup CallPrograms \cup ForkPrograms

MCInit == Init /\ workload \in Workloads

MCNext ==
    /\ \/ workload = "core" /\ Core!Next
       \/ workload = "signals" /\ Signalled!Next
       \/ workload = "served" /\ Served!Next /\ ~Served!QueueForked
       \/ workload = "notify" /\ Notified!Next
       \/ workload = "async" /\ Async!Next
       \/ workload = "calls" /\ Calling!Next
       \/ workload = "fork" /\ Forking!Next
    /\ UNCHANGED workload

MCSpec == MCInit /\ [][MCNext]_<<vars, workload>>

(* The fairness of KernelIPC, where everyone calls PM. *)
MCFairSpec ==
    /\ MCSpec
    /\ \A p \in Proc \ Tasks : WF_vars(workload = "calls" /\ Calling!DeliverMsg(p))
    /\ WF_vars(workload = "calls" /\ Calling!Receive(PM, ANY))
    /\ WF_vars(workload = "calls" /\ Calling!DoGetKsig)
    /\ WF_vars(workload = "calls" /\ Calling!DoEndKsig)

(* Where everyone calls PM, its signal loop comes to each signal.          *)
SignalsReachPM == workload = "calls" => SignalReachesPM

(* Where everyone calls PM, everyone is served.                            *)
SendersServed == workload = "calls" => SenderServed
=============================================================================
