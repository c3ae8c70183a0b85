---------------------------- MODULE KernelIPCInv ----------------------------
(***************************************************************************)
(* The inductive invariant behind QueueSound, BlockedOnLive,               *)
(* NoMissedRendezvous, OneMessage and NoWaitCycle, and what it asks of the *)
(* programs.                                                               *)
(***************************************************************************)
EXTENDS KernelIPC

(* What the kernel leaves to the programs.  Nobody receives from itself:   *)
(* deadlock() does not notice it, and no program of the tree does it.      *)
(* Nobody notifies a user process, which could not receive it: the         *)
(* structure user processes share keeps its bits when the last of them is  *)
(* gone.                                                                   *)
ASSUME DisciplineAssumption ==
    /\ \A c \in Programs : c[2] = "RECEIVE" => c[3] # c[1]
    /\ \A c \in Programs : c[2] = "NOTIFY" => c[3] \in SysProc

(* What the flags of one process say about each other: a free slot has no  *)
(* other flag, a process without endpoint is in no call, a SENDREC in its  *)
(* first half sends to whom it will receive from, and only a system process*)
(* that is not waiting for a reply waits for ANY.                          *)
FlagsSound ==
    \A p \in Proc :
        /\ "SLOT_FREE" \in rts[p] => rts[p] = {"SLOT_FREE"}
        /\ "NO_ENDPOINT" \in rts[p] => "SENDING" \notin rts[p] /\ "RECEIVING" \notin rts[p]
        /\ "SENDING" \in rts[p] /\ "RECEIVING" \in rts[p] => getfrom[p] = sendto[p]
        /\ "RECEIVING" \in rts[p] /\ getfrom[p] = ANY =>
              p \in SysProc /\ "REPLY_PEND" \notin misc[p]

(* The inductive invariant: every step of the kernel preserves it; most of  *)
(* its parts are preserved only together with the others.                  *)
IPCInv ==
    /\ TypeOK
    /\ FlagsSound
    /\ QueueSound
    /\ BlockedOnLive
    /\ NoMissedRendezvous
    /\ OneMessage

(* Kernel tasks live for ever, nobody signals them or stops them. *)
TasksSafe ==
    \A k \in Kernel : Alive(k) /\ "SIGNALED" \notin rts[k] /\ "SIG_DELAY" \notin misc[k]

(* The inductive invariant of signals, next to IPCInv. *)
SignalInv == TasksSafe /\ SignalNotLost /\ EndksigSucceeds

(* The inductive invariant of notifications, next to IPCInv and TasksSafe:  *)
(* no bit is set in the structure that user processes share.                *)
NotifyMapInv == NotificationsKept /\ s_notify_pending[USER_PRIV] = {}

(* The inductive invariant of asynchronous messages, next to IPCInv: the    *)
(* kernel has no table of a process that cannot send, and a SENDREC in its  *)
(* first half awaits a reply.                                               *)
AsyncInv ==
    /\ AsyncKept
    /\ \A s \in SysProc : asynsize[s] => Alive(s)
    /\ \A p \in Proc : {"SENDING", "RECEIVING"} \subseteq rts[p] => "REPLY_PEND" \in misc[p]
=============================================================================
