------------------------------ MODULE KernelIPC ------------------------------
(***************************************************************************)
(* Message passing in the MINIX 3 kernel: the system calls of kernel/proc.c*)
(* (SEND, RECEIVE, SENDREC, NOTIFY, SENDNB, SENDA), the delivery done when *)
(* a process is scheduled again, notifications from interrupts and alarms, *)
(* and the kernel calls that rewrite the state these rest on: sys_exit,    *)
(* sys_fork, sys_kill, sys_getksig, sys_endksig, sys_runctl, sys_privctl.  *)
(*                                                                         *)
(* Granularity.  sys_call() runs with interrupts disabled, so one trap is  *)
(* one step.  A kernel call is one step as well: the SYSTEM task has the   *)
(* highest priority, is not preemptible and always waits in receive(ANY)   *)
(* when another process runs, so the request, its handler and the reply    *)
(* are not interleaved with another process.                               *)
(*                                                                         *)
(* An operator whose name ends in _F is a seeded fault: what the definition*)
(* after it would be with a plausible bug.  The specification uses none of *)
(* them; each shows that a property notices the bug.                       *)
(***************************************************************************)
EXTENDS Integers, Sequences, FiniteSets, SequencesExt

CONSTANTS
    Proc,        \* the process table: slot numbers, kernel tasks are negative
    PM,          \* slot of the process manager
    SysProc,     \* slots whose process owns a privilege structure (SYS_PROC)
    USER_PRIV,   \* names the structure all user processes share
    s_id,        \* privilege id of each system process: its notify-map bit
    BITCHUNK_BITS,
    s_trap_mask, \* the traps each privilege structure allows
    MaySend,     \* the pairs <<p, q>> for which may_send_to(p, q)
    MaxGen,      \* _ENDPOINT_MAX_GENERATION
    ANY,
    Programs,    \* the calls <<p, trap, q>> the programs issue, q a slot or ANY
    ASYN_NR,     \* size of the table of asynchronous messages of a process
    FreeAtBoot,  \* slots that no process of the boot image occupies
    Forkers,     \* slots whose process asks PM to fork it
    Mortal,      \* slots whose process may exit
    Killers,     \* system processes that use sys_kill
    KillTargets, \* slots whose process may be signalled
    Stoppable,   \* slots whose process PM may stop with sys_runctl
    IrqTargets,  \* drivers that registered an interrupt hook
    AlarmTargets \* processes with a synchronous alarm

HARDWARE == -1
SYSTEM   == -2
CLOCK    == -3

Kernel   == {HARDWARE, SYSTEM, CLOCK}
Priv     == SysProc \cup {USER_PRIV}
Traps    == {"SEND", "RECEIVE", "SENDREC", "NOTIFY", "SENDNB", "SENDA"}
Signals  == {"SIGKILL", "SIGTERM", "SIGSEGV", "SIGNDELAY", "SIGKSIG"}
Interrupts == {"irq0", "irq1"}
Endpoints == (0 .. MaxGen - 1) \X Proc

ASSUME ProcAssumption ==
    /\ Proc \subseteq Int /\ PM \in SysProc /\ PM >= 0
    /\ SysProc \subseteq Proc /\ Kernel \subseteq SysProc
    /\ USER_PRIV \notin SysProc
    /\ FreeAtBoot \subseteq Proc \ SysProc

ASSUME NumberAssumption ==
    /\ MaxGen \in Nat /\ MaxGen >= 2
    /\ BITCHUNK_BITS \in Nat \ {0}
    /\ ASYN_NR \in Nat
    /\ s_id \in [SysProc -> Nat]
    /\ \A p, q \in SysProc : s_id[p] = s_id[q] => p = q

ASSUME AnyAssumption == ANY \notin Int /\ ANY \notin Nat \X Int

(* set_sendto_bit never lets a process send to itself. *)
ASSUME PrivAssumption ==
    /\ s_trap_mask \in [Priv -> SUBSET Traps]
    /\ s_trap_mask[USER_PRIV] \subseteq {"SENDREC"}
    /\ MaySend \subseteq Proc \X Proc
    /\ \A p \in Proc : <<p, p>> \notin MaySend

(* Kernel tasks make no calls here, their requests are the kernel calls    *)
(* below; PM is never a victim (cause_sig and clear_endpoint panic on it). *)
ASSUME ProgramAssumption ==
    /\ Programs \subseteq Proc \X Traps \X (Proc \cup {ANY})
    /\ \A c \in Programs : c[1] \notin Kernel
    /\ \A c \in Programs : c[3] \in Kernel => c[2] = "RECEIVE"
    /\ Forkers \subseteq Proc \ (Kernel \cup {PM})
    /\ Mortal \subseteq Proc \ (Kernel \cup {PM})
    /\ KillTargets \subseteq Proc \ (Kernel \cup {PM})
    /\ Stoppable \subseteq Proc \ (Kernel \cup {PM})
    /\ Killers \subseteq SysProc \ Kernel
    /\ IrqTargets \subseteq SysProc \ Kernel
    /\ AlarmTargets \subseteq SysProc \ Kernel

VARIABLES
    rts,      \* p_rts_flags: the reasons why a process is not runnable
    misc,     \* p_misc_flags
    gen,      \* generation of the slot's endpoint
    getfrom,  \* p_getfrom_e
    sendto,   \* p_sendto_e
    callerq,  \* p_caller_q, the processes linked through p_q_link
    inmsg,    \* p_delivermsg, meaningful while MF_DELIVERMSG is set
    retreg,   \* result left in the registers of a process that called
    s_notify_pending, s_int_pending, s_sig_pending,
    p_pending,\* signals PM has not fetched yet
    asyn,     \* a process's table of asynchronous messages, from first_slot on
    asynsize, \* s_asynsize # 0: the kernel scans the table
    ksig,     \* PM's loop over kernel signals: "idle", "get" or "handle" ...
    ksig_e    \* ... the signals of the process with this endpoint

ipcvars  == <<gen, getfrom, sendto, callerq>>
sigvars  == <<s_sig_pending, p_pending>>
pmvars   == <<ksig, ksig_e>>
asynvars == <<asyn, asynsize>>
vars     == <<rts, misc, ipcvars, inmsg, retreg, s_notify_pending,
              s_int_pending, sigvars, asynvars, ksig, ksig_e>>

-----------------------------------------------------------------------------
(* Process table and endpoints. *)

priv(p) == IF p \in SysProc THEN p ELSE USER_PRIV

Endpoint(p) == <<gen[p], p>>

isemptyp(p) == rts[p] = {"SLOT_FREE"}

isokendpt(e) == e[2] \in Proc /\ ~isemptyp(e[2]) /\ Endpoint(e[2]) = e

(* It forgets that a receiver may wait for ANY. *)
WillReceiveNoAny_F(r, target, source) ==
    /\ "RECEIVING" \in r[target] /\ "SENDING" \notin r[target]
    /\ getfrom[target] = Endpoint(source)

(* It takes a SENDREC that has not sent yet for one that receives. *)
WillReceiveSending_F(r, target, source) ==
    "RECEIVING" \in r[target] /\ getfrom[target] \in {ANY, Endpoint(source)}

(* In the state with run-time flags r: target waits for a message of source. *)
WILLRECEIVE(r, target, source) ==
    /\ "RECEIVING" \in r[target] /\ "SENDING" \notin r[target]
    /\ getfrom[target] \in {ANY, Endpoint(source)}

(* schedcheck() copies a waiting message out before the process continues. *)
Running(p) == p \notin Kernel /\ rts[p] = {} /\ "DELIVERMSG" \notin misc[p]

-----------------------------------------------------------------------------
(* deadlock(): who waits for whom, and whether the chain leads back. *)

WaitsFor(p, q) ==
    IF "RECEIVING" \in rts[p] THEN getfrom[p] # ANY /\ getfrom[p][2] = q
    ELSE "SENDING" \in rts[p] /\ sendto[p][2] = q

Blocked == {p \in Proc : "RECEIVING" \in rts[p] \/ "SENDING" \in rts[p]}

(* The chain of blocked processes that starts at q leads to c: so does     *)
(* every set of them that has q and follows the chain.                     *)
ChainReaches(q, c) ==
    \A S \in SUBSET Blocked :
        (q \in S /\ \A x \in S, y \in Blocked : WaitsFor(x, y) => y \in S)
            => \E x \in S : WaitsFor(x, c)

(* Every group of two is taken for a rendezvous. *)
DeadlockGroupOfTwo_F(function, c, q) ==
    q # c /\ q \in Blocked /\ ChainReaches(q, c) /\ ~WaitsFor(q, c)

(* A group of two that sends one way and receives the other is no deadlock. *)
deadlock(function, c, q) ==
    /\ q # c
    /\ q \in Blocked
    /\ ChainReaches(q, c)
    /\ WaitsFor(q, c) =>
          ("SENDING" \in rts[q]) = (function \in {"SEND", "SENDREC"})

(* The checks of sys_call() in front of the trap's own work.  A call that  *)
(* fails one of them returns an error and changes no state.                *)
Allowed(p, call, e) ==
    /\ e = ANY => call = "RECEIVE"
    /\ e # ANY => /\ isokendpt(e)
                  /\ call # "RECEIVE" => <<p, e[2]>> \in MaySend
                  /\ e[2] < 0 => call \in {"SENDREC", "RECEIVE"}
    /\ call \in s_trap_mask[priv(p)]
    /\ (call \in {"SEND", "SENDREC", "RECEIVE"} /\ e # ANY)
          => ~deadlock(call, p, e[2])

(* Process p traps with a call its program makes; the endpoint may be stale. *)
sys_call(p, call, e) ==
    /\ Running(p)
    /\ \/ e \in Endpoints /\ <<p, call, e[2]>> \in Programs
       \/ e = ANY /\ <<p, call, ANY>> \in Programs
    /\ (p = PM /\ call = "RECEIVE") => ksig = "idle"
    /\ Allowed(p, call, e)

-----------------------------------------------------------------------------
(* Notifications and signals, on top of flags r, m, messages i and maps np *)
(* that the surrounding action has already updated.                        *)

NoMessage == [src |-> <<0, SYSTEM>>, kind |-> "msg", arg |-> {}]

Message(p, k, a) == [src |-> Endpoint(p), kind |-> k, arg |-> a]

(* A notification of source for a process with privilege structure q: the  *)
(* pseudo sources HARDWARE and SYSTEM pass on what is pending there.       *)
BuildNotifyMessage(source, q, ints, sigs) ==
    Message(source, "notify", IF source = HARDWARE THEN ints[q]
                              ELSE IF source = SYSTEM THEN sigs[q] ELSE {})

(* mini_notify(source, target), ints being the interrupts pending by now. *)
mini_notify(source, target, ints, sigs, r, m, i, np) ==
    IF WILLRECEIVE(r, target, source) /\ "REPLY_PEND" \notin m[target]
    THEN /\ rts' = [r EXCEPT ![target] = @ \ {"RECEIVING"}]
         /\ misc' = [m EXCEPT ![target] = @ \cup {"DELIVERMSG"}]
         /\ inmsg' = [i EXCEPT ![target] =
                         BuildNotifyMessage(source, priv(target), ints, sigs)]
         /\ s_notify_pending' = np
         /\ s_int_pending' = IF source = HARDWARE
                             THEN [ints EXCEPT ![priv(target)] = {}] ELSE ints
         /\ s_sig_pending' = IF source = SYSTEM
                             THEN [sigs EXCEPT ![priv(target)] = {}] ELSE sigs
    ELSE /\ rts' = r /\ misc' = m /\ inmsg' = i
         /\ s_notify_pending' = [np EXCEPT ![priv(target)] = @ \cup {source}]
         /\ s_int_pending' = ints
         /\ s_sig_pending' = sigs

(* It asks whether PM is still handling an earlier signal. *)
CauseSigHandled_F(target, sig, r, m, i, np) ==
    /\ p_pending' = [p_pending EXCEPT ![target] = @ \cup {sig}]
    /\ IF sig \notin p_pending[target] /\ "SIG_PENDING" \notin r[target]
       THEN mini_notify(SYSTEM, PM, s_int_pending,
               [s_sig_pending EXCEPT ![PM] = @ \cup {"SIGKSIG"}],
               [r EXCEPT ![target] = @ \cup {"SIGNALED", "SIG_PENDING"}], m, i, np)
       ELSE /\ rts' = r /\ misc' = m /\ inmsg' = i /\ s_notify_pending' = np
            /\ UNCHANGED <<s_int_pending, s_sig_pending>>

(* It leaves out send_sig(). *)
CauseSigSilent_F(target, sig, r, m, i, np) ==
    /\ p_pending' = [p_pending EXCEPT ![target] = @ \cup {sig}]
    /\ rts' = [r EXCEPT ![target] = @ \cup {"SIGNALED", "SIG_PENDING"}]
    /\ misc' = m /\ inmsg' = i /\ s_notify_pending' = np
    /\ UNCHANGED <<s_int_pending, s_sig_pending>>

(* cause_sig(target, sig): block the process and tell PM, unless PM has    *)
(* been told and has not fetched the signals yet.                          *)
cause_sig(target, sig, r, m, i, np) ==
    /\ p_pending' = [p_pending EXCEPT ![target] = @ \cup {sig}]
    /\ IF sig \notin p_pending[target] /\ "SIGNALED" \notin r[target]
       THEN mini_notify(SYSTEM, PM, s_int_pending,
               [s_sig_pending EXCEPT ![PM] = @ \cup {"SIGKSIG"}],
               [r EXCEPT ![target] = @ \cup {"SIGNALED", "SIG_PENDING"}], m, i, np)
       ELSE /\ rts' = r /\ misc' = m /\ inmsg' = i /\ s_notify_pending' = np
            /\ UNCHANGED <<s_int_pending, s_sig_pending>>

-----------------------------------------------------------------------------
(* SEND, SENDNB, SENDREC and NOTIFY. *)

(* Hand a message of p to d, which waits for it. *)
QueueMess(p, d, r, m) ==
    /\ rts' = [r EXCEPT ![d] = @ \ {"RECEIVING"}]
    /\ misc' = [m EXCEPT ![d] = @ \cup {"DELIVERMSG"}]
    /\ inmsg' = [inmsg EXCEPT ![d] = Message(p, "msg", {})]

(* It puts the sender in front of the queue. *)
EnqueueFirst_F(p, e, f) ==
    /\ rts' = [rts EXCEPT ![p] = @ \cup f]
    /\ sendto' = [sendto EXCEPT ![p] = e]
    /\ callerq' = [callerq EXCEPT ![e[2]] = <<p>> \o @]

(* Block p with flags f and put it at the end of the queue of e's process. *)
Enqueue(p, e, f) ==
    /\ rts' = [rts EXCEPT ![p] = @ \cup f]
    /\ sendto' = [sendto EXCEPT ![p] = e]
    /\ callerq' = [callerq EXCEPT ![e[2]] = Append(@, p)]

Send(p, e) ==
    /\ sys_call(p, "SEND", e)
    /\ "NO_ENDPOINT" \notin rts[e[2]]
    /\ IF WILLRECEIVE(rts, e[2], p)
       THEN QueueMess(p, e[2], rts, misc) /\ UNCHANGED <<sendto, callerq>>
       ELSE Enqueue(p, e, {"SENDING"}) /\ UNCHANGED <<misc, inmsg>>
    /\ retreg' = [retreg EXCEPT ![p] = "OK"]
    /\ UNCHANGED <<gen, getfrom, s_notify_pending, s_int_pending, sigvars,
                   asynvars, pmvars>>

SendNB(p, e) ==
    /\ sys_call(p, "SENDNB", e)
    /\ "NO_ENDPOINT" \notin rts[e[2]]
    /\ WILLRECEIVE(rts, e[2], p)
    /\ QueueMess(p, e[2], rts, misc)
    /\ retreg' = [retreg EXCEPT ![p] = "OK"]
    /\ UNCHANGED <<ipcvars, s_notify_pending, s_int_pending, sigvars,
                   asynvars, pmvars>>

Notify(p, e) ==
    /\ sys_call(p, "NOTIFY", e)
    /\ mini_notify(p, e[2], s_int_pending, s_sig_pending, rts, misc, inmsg,
                   s_notify_pending)
    /\ retreg' = [retreg EXCEPT ![p] = "OK"]
    /\ UNCHANGED <<ipcvars, p_pending, asynvars, pmvars>>

-----------------------------------------------------------------------------
(* Asynchronous messages: what the kernel finds in the table of a sender.  *)

(* An AMF_NOREPLY message never completes a SENDREC. *)
Suits(entry, m, d) == ~(entry.noreply /\ "REPLY_PEND" \in m[d])

(* Entry i of s is still to be delivered, and to d. *)
PendingFor(s, d, i) ==
    i \in DOMAIN asyn[s] /\ ~asyn[s][i].done /\ asyn[s][i].dst = Endpoint(d)

(* try_one(): entry i of s is the first one that d may take. *)
TryOne(s, d, m, i) ==
    /\ asynsize[s] /\ <<s, d>> \in MaySend
    /\ PendingFor(s, d, i) /\ Suits(asyn[s][i], m, d)
    /\ \A j \in 1 .. i - 1 : PendingFor(s, d, j) => ~Suits(asyn[s][j], m, d)

HasOne(s, d, m) == \E i \in DOMAIN asyn[s] : TryOne(s, d, m, i)

(* A scan that meets only finished entries makes the kernel drop the table. *)
Scanned(S, d) ==
    [s \in SysProc |-> /\ asynsize[s]
                       /\ ~(/\ s \in S /\ <<s, d>> \in MaySend
                            /\ \A i \in DOMAIN asyn[s] : asyn[s][i].done)]

(* A NOREPLY message for d stays behind, so d must be scanned again. *)
Postponed(d, m) ==
    \E s \in SysProc : /\ asynsize[s] /\ <<s, d>> \in MaySend
                       /\ \E i \in DOMAIN asyn[s] : /\ PendingFor(s, d, i)
                                                    /\ ~Suits(asyn[s][i], m, d)

(* mini_receive takes a message of src out of the asynchronous tables: of  *)
(* src only, or for ANY of the first process that has one.                 *)
TakeAsync(p, src, m, s, i) ==
    /\ "ASYNMSG" \in m[p]
    /\ TryOne(s, p, m, i)
    /\ IF src = ANY THEN \A t \in SysProc : HasOne(t, p, m) => s_id[s] <= s_id[t]
       ELSE s = src[2]
    /\ asyn' = [asyn EXCEPT ![s][i].done = TRUE]
    /\ asynsize' = IF src = ANY
                   THEN Scanned({t \in SysProc : s_id[t] < s_id[s]}, p) ELSE asynsize
    /\ misc' = [m EXCEPT ![p] = @ \cup {"DELIVERMSG"}]
    /\ inmsg' = [inmsg EXCEPT ![p] = Message(s, "msg", {})]

(* It clears MF_ASYNMSG after it looked at one source only. *)
NoAsyncForgets_F(p, src, m) ==
    /\ "ASYNMSG" \in m[p] =>
          \A s \in SysProc : (src = ANY \/ s = src[2]) => ~HasOne(s, p, m)
    /\ misc' = [m EXCEPT ![p] = @ \ {"ASYNMSG"}]
    /\ asynsize' = IF "ASYNMSG" \notin m[p] THEN asynsize
                   ELSE Scanned(IF src = ANY THEN SysProc ELSE {src[2]}, p)

(* mini_receive scans the tables for a message of src and finds none. *)
NoAsync(p, src, m) ==
    /\ "ASYNMSG" \in m[p] =>
          \A s \in SysProc : (src = ANY \/ s = src[2]) => ~HasOne(s, p, m)
    /\ misc' = IF src = ANY /\ ~Postponed(p, m)
               THEN [m EXCEPT ![p] = @ \ {"ASYNMSG"}] ELSE m
    /\ asynsize' = IF "ASYNMSG" \notin m[p] THEN asynsize
                   ELSE Scanned(IF src = ANY THEN SysProc ELSE {src[2]}, p)

(* The table asynsend3() passes: the k leading entries that are done are   *)
(* dropped and one is added.                                               *)
AsynTable(p, e, noreply, k) ==
    Append(SubSeq(asyn[p], k + 1, Len(asyn[p])),
           [dst |-> e, noreply |-> noreply, done |-> FALSE])

(* Entry i of table t of p is completed with an error. *)
BadEntry(p, t, i) ==
    \/ ~isokendpt(t[i].dst)
    \/ <<p, t[i].dst[2]>> \notin MaySend
    \/ "NO_ENDPOINT" \in rts[t[i].dst[2]]

(* Entry i can be handed over at once. *)
Fits(p, t, i) ==
    /\ ~t[i].done /\ ~BadEntry(p, t, i)
    /\ WILLRECEIVE(rts, t[i].dst[2], p) /\ Suits(t[i], misc, t[i].dst[2])

(* The first entry that suits a waiting process is handed over. *)
Given(p, t, i) ==
    Fits(p, t, i) /\ \A j \in 1 .. i - 1 : ~(Fits(p, t, j) /\ t[j].dst = t[i].dst)

(* Every other good entry stays and its destination is flagged. *)
Kept(p, t, i) == ~t[i].done /\ ~BadEntry(p, t, i) /\ ~Given(p, t, i)

(* SENDA: the kernel scans the whole table. *)
SendA(p, e, noreply, k) ==
    LET table   == AsynTable(p, e, noreply, k)
        Served  == {q \in Proc : \E i \in DOMAIN table :
                                    table[i].dst[2] = q /\ Given(p, table, i)}
        Flagged == {q \in Proc : \E i \in DOMAIN table :
                                    table[i].dst[2] = q /\ Kept(p, table, i)}
    IN  /\ Running(p) /\ p \in SysProc
        /\ <<p, "SENDA", e[2]>> \in Programs /\ "SENDA" \in s_trap_mask[p]
        /\ k <= Len(asyn[p]) /\ \A i \in 1 .. k : asyn[p][i].done
        /\ k < Len(asyn[p]) => ~asyn[p][k + 1].done
        /\ Len(table) <= ASYN_NR
        /\ rts' = [q \in Proc |-> IF q \in Served THEN rts[q] \ {"RECEIVING"}
                                                  ELSE rts[q]]
        /\ misc' = [q \in Proc |->
                       misc[q] \cup {f \in {"DELIVERMSG", "ASYNMSG"} :
                                       \/ f = "DELIVERMSG" /\ q \in Served
                                       \/ f = "ASYNMSG" /\ q \in Flagged}]
        /\ inmsg' = [q \in Proc |-> IF q \in Served THEN Message(p, "msg", {})
                                                    ELSE inmsg[q]]
        /\ asyn' = [asyn EXCEPT ![p] =
              [i \in DOMAIN table |-> [table[i] EXCEPT !.done = ~Kept(p, table, i)]]]
        /\ asynsize' = [asynsize EXCEPT ![p] = \E i \in DOMAIN table : Kept(p, table, i)]
        /\ retreg' = [retreg EXCEPT ![p] = "OK"]
        /\ UNCHANGED <<ipcvars, s_notify_pending, s_int_pending, sigvars, pmvars>>

-----------------------------------------------------------------------------
(* RECEIVE and SENDREC. *)

(* Block p until a message of src arrives. *)
Block(p, src, r) ==
    /\ rts' = [r EXCEPT ![p] = @ \cup {"RECEIVING"}]
    /\ getfrom' = [getfrom EXCEPT ![p] = src]

(* mini_receive looks at the lowest bit of every chunk of the notify map. *)
ChunkHeads(map) ==
    {s \in map : \A t \in map :
        s_id[t] \div BITCHUNK_BITS = s_id[s] \div BITCHUNK_BITS => s_id[s] <= s_id[t]}

Acceptable(p, src) ==
    {s \in ChunkHeads(s_notify_pending[priv(p)]) : src = ANY \/ s = src[2]}

InQueue(p, src) ==
    {i \in DOMAIN callerq[p] : src = ANY \/ callerq[p][i] = src[2]}

ReceiveNotification(p, src, m) ==
    \E s \in Acceptable(p, src) :
        /\ \A t \in Acceptable(p, src) : s_id[s] <= s_id[t]
        /\ misc' = [m EXCEPT ![p] = @ \cup {"DELIVERMSG"}]
        /\ inmsg' = [inmsg EXCEPT ![p] =
                        BuildNotifyMessage(s, priv(p), s_int_pending, s_sig_pending)]
        /\ s_notify_pending' = [s_notify_pending EXCEPT ![priv(p)] = @ \ {s}]
        /\ s_int_pending' = IF s = HARDWARE
                            THEN [s_int_pending EXCEPT ![priv(p)] = {}] ELSE s_int_pending
        /\ s_sig_pending' = IF s = SYSTEM
                            THEN [s_sig_pending EXCEPT ![priv(p)] = {}] ELSE s_sig_pending
        /\ UNCHANGED <<rts, ipcvars, p_pending, asynvars>>

(* Take the first acceptable sender off the queue; a sender whose stop was *)
(* delayed is reported to PM before it is made ready.                      *)
ReceiveQueued(p, src, m) ==
    \E i \in InQueue(p, src) :
      LET x  == callerq[p][i]
          r  == [rts EXCEPT ![x] = @ \ {"SENDING"}]
          m1 == [m EXCEPT ![p] = @ \cup {"DELIVERMSG"}]
          i1 == [inmsg EXCEPT ![p] = Message(x, "msg", {})]
      IN /\ \A j \in InQueue(p, src) : i <= j
         /\ callerq' = [callerq EXCEPT ![p] = RemoveAt(@, i)]
         /\ IF "SIG_DELAY" \in misc[x]
            THEN cause_sig(x, "SIGNDELAY", r, [m1 EXCEPT ![x] = @ \ {"SIG_DELAY"}],
                           i1, s_notify_pending)
            ELSE /\ rts' = r /\ misc' = m1 /\ inmsg' = i1
                 /\ UNCHANGED <<s_notify_pending, s_int_pending, sigvars>>
         /\ UNCHANGED <<gen, getfrom, sendto, asynvars>>

ReceiveAsync(p, src, m) ==
    /\ \E s \in SysProc : \E i \in DOMAIN asyn[s] : TakeAsync(p, src, m, s, i)
    /\ UNCHANGED <<rts, ipcvars, s_notify_pending, s_int_pending, sigvars>>

ReceiveBlocks(p, src, m) ==
    /\ NoAsync(p, src, m)
    /\ Block(p, src, rts)
    /\ UNCHANGED <<gen, sendto, callerq, inmsg, s_notify_pending, s_int_pending,
                   sigvars, asyn>>

Receive(p, src) ==
    LET m == [misc EXCEPT ![p] = @ \ {"REPLY_PEND"}]
    IN  /\ sys_call(p, "RECEIVE", src)
        /\ src # ANY => "NO_ENDPOINT" \notin rts[src[2]]
        /\ IF Acceptable(p, src) # {} THEN ReceiveNotification(p, src, m)
           ELSE IF InQueue(p, src) # {} THEN ReceiveQueued(p, src, m)
           ELSE ReceiveAsync(p, src, m) \/ ReceiveBlocks(p, src, m)
        /\ retreg' = [retreg EXCEPT ![p] = "OK"]
        /\ UNCHANGED pmvars

(* RECEIVE of, or SENDREC to, a process that lost its endpoint fails after *)
(* MF_REPLY_PEND has been changed.                                         *)
PeerDied(p, call, e) ==
    /\ call \in {"RECEIVE", "SENDREC"} /\ e # ANY
    /\ sys_call(p, call, e)
    /\ "NO_ENDPOINT" \in rts[e[2]]
    /\ misc' = [misc EXCEPT ![p] = IF call = "SENDREC" THEN @ \cup {"REPLY_PEND"}
                                                       ELSE @ \ {"REPLY_PEND"}]
    /\ retreg' = [retreg EXCEPT ![p] = IF call = "SENDREC" THEN "EDSTDIED"
                                                           ELSE "ESRCDIED"]
    /\ UNCHANGED <<rts, ipcvars, inmsg, s_notify_pending, s_int_pending, sigvars,
                   asynvars, pmvars>>

(* The message is handed over and p waits for the answer.  The queue of p  *)
(* cannot hold d, which was receiving.                                     *)
SendRecDelivers(p, e) ==
    LET d  == e[2]
        r  == [rts EXCEPT ![d] = @ \ {"RECEIVING"}]
        m  == [misc EXCEPT ![p] = @ \cup {"REPLY_PEND"}, ![d] = @ \cup {"DELIVERMSG"}]
        i1 == [inmsg EXCEPT ![d] = Message(p, "msg", {})]
    IN  /\ WILLRECEIVE(rts, d, p)
        /\ \/ /\ d \in SysProc /\ "ASYNMSG" \in m[p]
              /\ \E i \in DOMAIN asyn[d] :
                    /\ TryOne(d, p, m, i)
                    /\ asyn' = [asyn EXCEPT ![d][i].done = TRUE]
              /\ rts' = r
              /\ misc' = [m EXCEPT ![p] = @ \cup {"DELIVERMSG"}]
              /\ inmsg' = [i1 EXCEPT ![p] = Message(d, "msg", {})]
              /\ UNCHANGED <<getfrom, asynsize>>
           \/ /\ NoAsync(p, e, m)
              /\ Block(p, e, r)
              /\ inmsg' = i1
              /\ UNCHANGED asyn
        /\ UNCHANGED <<sendto, callerq>>

(* The destination is not ready: p waits to send and then to receive. *)
SendRecBlocks(p, e) ==
    /\ ~WILLRECEIVE(rts, e[2], p)
    /\ Enqueue(p, e, {"SENDING", "RECEIVING"})
    /\ getfrom' = [getfrom EXCEPT ![p] = e]
    /\ misc' = [misc EXCEPT ![p] = @ \cup {"REPLY_PEND"}]
    /\ UNCHANGED <<inmsg, asynvars>>

SendRec(p, e) ==
    /\ sys_call(p, "SENDREC", e)
    /\ "NO_ENDPOINT" \notin rts[e[2]]
    /\ SendRecDelivers(p, e) \/ SendRecBlocks(p, e)
    /\ retreg' = [retreg EXCEPT ![p] = "OK"]
    /\ UNCHANGED <<gen, s_notify_pending, s_int_pending, sigvars, pmvars>>

-----------------------------------------------------------------------------
(* Delivery when a process is scheduled, interrupts, alarms, exceptions. *)

(* PM that is handed a SIGKSIG notification starts to fetch signals. *)
DeliverMsg(p) ==
    /\ rts[p] = {} /\ "DELIVERMSG" \in misc[p]
    /\ misc' = [misc EXCEPT ![p] = @ \ {"DELIVERMSG"}]
    /\ ksig' = IF p = PM /\ inmsg[p].src[2] = SYSTEM /\ "SIGKSIG" \in inmsg[p].arg
               THEN "get" ELSE ksig
    /\ inmsg' = [inmsg EXCEPT ![p] = NoMessage]
    /\ UNCHANGED <<ksig_e, rts, ipcvars, retreg, s_notify_pending, s_int_pending, sigvars,
                   asynvars>>

(* generic_handler() for the hook of driver d. *)
Interrupt(d, irq) ==
    /\ d \in IrqTargets /\ ~isemptyp(d)
    /\ mini_notify(HARDWARE, d, [s_int_pending EXCEPT ![d] = @ \cup {irq}],
                   s_sig_pending, rts, misc, inmsg, s_notify_pending)
    /\ UNCHANGED <<ipcvars, retreg, p_pending, asynvars, pmvars>>

(* cause_alarm() for a process whose timer expires. *)
Alarm(d) ==
    /\ d \in AlarmTargets /\ ~isemptyp(d)
    /\ mini_notify(CLOCK, d, s_int_pending, s_sig_pending, rts, misc, inmsg,
                   s_notify_pending)
    /\ UNCHANGED <<ipcvars, retreg, p_pending, asynvars, pmvars>>

(* A CPU exception of the running process. *)
Exception(p) ==
    /\ p \in KillTargets /\ Running(p)
    /\ cause_sig(p, "SIGSEGV", rts, misc, inmsg, s_notify_pending)
    /\ UNCHANGED <<ipcvars, retreg, asynvars, pmvars>>

-----------------------------------------------------------------------------
(* Kernel calls.  The caller used SENDREC on SYSTEM and has its reply. *)

KernelCall(p, m) == [m EXCEPT ![p] = @ \cup {"REPLY_PEND"}]

(* clear_endpoint(c): c leaves the queue it waits in, and every process    *)
(* that waits for c is released with an error.                             *)
Abandons(p, c, flag) ==
    /\ flag \in rts[p] /\ p # c
    /\ Endpoint(c) = IF flag = "SENDING" THEN sendto[p] ELSE getfrom[p]

(* Receivers are not released. *)
FlagsClearedSenders_F(c) ==
    [p \in Proc |-> IF p = c THEN (rts[c] \cup {"NO_ENDPOINT"}) \ {"SENDING", "RECEIVING"}
                    ELSE {f \in rts[p] : ~(f = "SENDING" /\ Abandons(p, c, f))}]

FlagsCleared(c) ==
    [p \in Proc |-> IF p = c THEN (rts[c] \cup {"NO_ENDPOINT"}) \ {"SENDING", "RECEIVING"}
                    ELSE {f \in rts[p] : ~(f \in {"SENDING", "RECEIVING"}
                                            /\ Abandons(p, c, f))}]

(* The dead process stays in the queue. *)
QueuesClearedNot_F(c) == callerq

QueuesCleared(c) ==
    IF "SENDING" \in rts[c]
    THEN [callerq EXCEPT ![sendto[c][2]] = RemoveFirst(@, c)] ELSE callerq

(* Released processes see their call succeed. *)
ResultsClearedNot_F(c) == retreg

ResultsCleared(c) ==
    [p \in Proc |-> IF Abandons(p, c, "SENDING") THEN "EDSTDIED"
                    ELSE IF Abandons(p, c, "RECEIVING") THEN "ESRCDIED"
                    ELSE retreg[p]]

(* The whole map is wiped. *)
NotifiesClearedAll_F(c) == [q \in Priv |-> {}]

NotifiesCleared(c) ==
    [q \in Priv |-> IF \E p \in Proc : priv(p) = q /\ ~isemptyp(p)
                    THEN s_notify_pending[q] \ {priv(c)} ELSE s_notify_pending[q]]

SizesCleared(c) == [s \in SysProc |-> asynsize[s] /\ s # c]

clear_proc(c) ==
    /\ rts' = [FlagsCleared(c) EXCEPT ![c] = {"SLOT_FREE"}]
    /\ callerq' = QueuesCleared(c)
    /\ retreg' = ResultsCleared(c)
    /\ s_notify_pending' = NotifiesCleared(c)
    /\ asynsize' = SizesCleared(c)
    /\ UNCHANGED <<gen, getfrom, sendto, inmsg, s_int_pending, sigvars, asyn, pmvars>>

(* do_exit(): PM reports the exit of a process. *)
DoExit(c) ==
    /\ Running(PM) /\ ksig = "idle"
    /\ c \in Mortal /\ ~isemptyp(c)
    /\ clear_proc(c)
    /\ misc' = KernelCall(PM, misc)

(* do_exit(): a system process exits by itself and gets no reply. *)
DoExitSelf(c) ==
    /\ Running(c) /\ c \in Mortal \cap SysProc
    /\ clear_proc(c)
    /\ misc' = KernelCall(c, misc)

(* The bound itself is used as a generation. *)
NextGenOver_F(c) == IF gen[c] + 1 > MaxGen THEN 1 ELSE gen[c] + 1

(* The generation of the next process in slot c; 0 is for the boot image. *)
NextGen(c) == IF gen[c] + 1 >= MaxGen THEN 1 ELSE gen[c] + 1

(* do_fork(): PM forks f, which waits for the answer to its request, into  *)
(* slot c.  The child is a copy, its queue included.                       *)
DoFork(f, c) ==
    LET g == NextGen(c)
    IN  /\ Running(PM) /\ ksig = "idle"
        /\ f \in Forkers /\ ~isemptyp(f) /\ isemptyp(c)
        /\ "RECEIVING" \in rts[f] /\ "SENDING" \notin rts[f]
        /\ getfrom[f] = Endpoint(PM)
        /\ f \in SysProc => ~asynsize[f]
        /\ gen' = [gen EXCEPT ![c] = g]
        /\ rts' = [rts EXCEPT ![c] = (rts[f] \ {"SIGNALED", "SIG_PENDING"})
                                     \cup (IF f \in SysProc THEN {"NO_PRIV"} ELSE {})]
        /\ misc' = KernelCall(PM, [misc EXCEPT ![c] = misc[f]])
        /\ getfrom' = [getfrom EXCEPT ![c] = getfrom[f]]
        /\ sendto' = [sendto EXCEPT ![c] = sendto[f]]
        /\ callerq' = [callerq EXCEPT ![c] = callerq[f]]
        /\ inmsg' = [inmsg EXCEPT ![c] = inmsg[f]]
        /\ retreg' = [retreg EXCEPT ![c] = "OK"]
        /\ p_pending' = [p_pending EXCEPT ![c] = {}]
        /\ UNCHANGED <<s_notify_pending, s_int_pending, s_sig_pending, asynvars, pmvars>>

(* A process is forked while others are queued at it: do_fork.c:63 copies  *)
(* p_caller_q, and then two slots have the same queue.                     *)
QueueForked == \E f, c \in Proc : DoFork(f, c) /\ callerq[f] # <<>>

(* A child gets an endpoint for which a sender still has an asynchronous   *)
(* message: the table outlives the destination, and generations repeat.    *)
EndpointReused ==
    \E f, c \in Proc : /\ DoFork(f, c)
                       /\ \E s \in SysProc : \E i \in DOMAIN asyn[s] :
                             ~asyn[s][i].done /\ asyn[s][i].dst = <<NextGen(c), c>>

(* do_privctl() with SYS_PRIV_USER, as RS asks for the scripts it runs:    *)
(* the child of a system process, which makes the call, becomes a user     *)
(* process.  SYS_PRIV_INIT, which gives the child of start_service() a     *)
(* privilege structure of its own, is left out: SysProc is fixed.          *)
DoPrivctl(c) ==
    /\ "NO_PRIV" \in rts[c]
    /\ rts' = [rts EXCEPT ![c] = @ \ {"NO_PRIV"}]
    /\ \E p \in Forkers \cap SysProc : Running(p) /\ misc' = KernelCall(p, misc)
    /\ UNCHANGED <<ipcvars, inmsg, retreg, s_notify_pending, s_int_pending, sigvars,
                   asynvars, pmvars>>

(* do_kill(): SIGKILL takes the endpoint away at once, before PM acts.     *)
(* clear_endpoint and cause_sig touch different state of the target.       *)
DoKill(p, t, sig) ==
    /\ Running(p) /\ p \in Killers /\ p # t
    /\ t \in KillTargets /\ ~isemptyp(t)
    /\ IF sig = "SIGKILL"
       THEN /\ cause_sig(t, sig, FlagsCleared(t), KernelCall(p, misc), inmsg,
                         NotifiesCleared(t))
            /\ callerq' = QueuesCleared(t)
            /\ retreg' = ResultsCleared(t)
            /\ asynsize' = SizesCleared(t)
       ELSE /\ cause_sig(t, sig, rts, KernelCall(p, misc), inmsg, s_notify_pending)
            /\ UNCHANGED <<callerq, retreg, asynsize>>
    /\ UNCHANGED <<gen, getfrom, sendto, asyn, pmvars>>

(* Fetching the signals already ends their handling. *)
DoGetKsigEnds_F ==
    LET Signaled == {p \in Proc \ Kernel : "SIGNALED" \in rts[p]}
    IN  /\ Running(PM) /\ ksig = "get"
        /\ \/ /\ Signaled = {}
              /\ ksig' = "idle"
              /\ UNCHANGED <<rts, p_pending, ksig_e>>
           \/ \E p \in Signaled :
                 /\ \A q \in Signaled : p <= q
                 /\ ksig' = "handle" /\ ksig_e' = Endpoint(p)
                 /\ rts' = [rts EXCEPT ![p] = @ \ {"SIGNALED", "SIG_PENDING"}]
                 /\ p_pending' = [p_pending EXCEPT ![p] = {}]
        /\ misc' = KernelCall(PM, misc)
        /\ UNCHANGED <<ipcvars, inmsg, retreg, s_notify_pending, s_int_pending,
                       s_sig_pending, asynvars>>

(* do_getksig(): the lowest slot that has been signalled, or NONE. *)
DoGetKsig ==
    LET Signaled == {p \in Proc \ Kernel : "SIGNALED" \in rts[p]}
    IN  /\ Running(PM) /\ ksig = "get"
        /\ \/ /\ Signaled = {}
              /\ ksig' = "idle"
              /\ UNCHANGED <<rts, p_pending, ksig_e>>
           \/ \E p \in Signaled :
                 /\ \A q \in Signaled : p <= q
                 /\ ksig' = "handle" /\ ksig_e' = Endpoint(p)
                 /\ rts' = [rts EXCEPT ![p] = @ \ {"SIGNALED"}]
                 /\ p_pending' = [p_pending EXCEPT ![p] = {}]
        /\ misc' = KernelCall(PM, misc)
        /\ UNCHANGED <<ipcvars, inmsg, retreg, s_notify_pending, s_int_pending,
                       s_sig_pending, asynvars>>

(* do_endksig(), unless PM decides to let the process exit. *)
DoEndKsig ==
    /\ Running(PM) /\ ksig = "handle"
    /\ \/ /\ isokendpt(ksig_e) /\ "SIG_PENDING" \in rts[ksig_e[2]]
          /\ rts' = [rts EXCEPT ![ksig_e[2]] = IF "SIGNALED" \in @ THEN @
                                               ELSE @ \ {"SIG_PENDING"}]
          /\ misc' = KernelCall(PM, misc)
       \/ ksig_e[2] \in Mortal /\ UNCHANGED <<rts, misc>>
    /\ ksig' = "get"
    /\ UNCHANGED <<ipcvars, inmsg, retreg, s_notify_pending, s_int_pending, sigvars,
                   asynvars, ksig_e>>

(* do_runctl() with RC_STOP, delay being RC_DELAY. *)
DoStop(t, delay) ==
    /\ Running(PM) /\ t \in Stoppable /\ ~isemptyp(t)
    /\ IF delay /\ ("SENDING" \in rts[t] \/ "SIG_DELAY" \in misc[t])
       THEN /\ misc' = KernelCall(PM, [misc EXCEPT ![t] = @ \cup {"SIG_DELAY"}])
            /\ UNCHANGED rts
       ELSE /\ misc' = KernelCall(PM, misc)
            /\ rts' = [rts EXCEPT ![t] = @ \cup {"PROC_STOP"}]
    /\ UNCHANGED <<ipcvars, inmsg, retreg, s_notify_pending, s_int_pending, sigvars,
                   asynvars, pmvars>>

(* do_runctl() with RC_RESUME. *)
DoResume(t) ==
    /\ Running(PM) /\ t \in Stoppable /\ ~isemptyp(t)
    /\ "PROC_STOP" \in rts[t]
    /\ rts' = [rts EXCEPT ![t] = @ \ {"PROC_STOP"}]
    /\ misc' = KernelCall(PM, misc)
    /\ UNCHANGED <<ipcvars, inmsg, retreg, s_notify_pending, s_int_pending, sigvars,
                   asynvars, pmvars>>

-----------------------------------------------------------------------------
Init ==
    /\ rts = [p \in Proc |-> IF p \in FreeAtBoot THEN {"SLOT_FREE"} ELSE {}]
    /\ misc = [p \in Proc |-> {}]
    /\ gen = [p \in Proc |-> 0]
    /\ getfrom = [p \in Proc |-> ANY]
    /\ sendto = [p \in Proc |-> <<0, PM>>]
    /\ callerq = [p \in Proc |-> <<>>]
    /\ inmsg = [p \in Proc |-> NoMessage]
    /\ retreg = [p \in Proc |-> "OK"]
    /\ s_notify_pending = [q \in Priv |-> {}]
    /\ s_int_pending = [q \in Priv |-> {}]
    /\ s_sig_pending = [q \in Priv |-> {}]
    /\ p_pending = [p \in Proc |-> {}]
    /\ asyn = [s \in SysProc |-> <<>>]
    /\ asynsize = [s \in SysProc |-> FALSE]
    /\ ksig = "idle" /\ ksig_e = <<0, PM>>

(* The endpoints, current or stale, that the program of p uses. *)
Peers == [p \in Proc |-> {e \in Endpoints : \E call \in Traps : <<p, call, e[2]>> \in Programs}]

Trap(p) ==
    /\ Running(p)
    /\ \/ \E e \in Peers[p] :
             \/ Send(p, e) \/ SendNB(p, e) \/ SendRec(p, e) \/ Notify(p, e)
             \/ \E call \in {"RECEIVE", "SENDREC"} : PeerDied(p, call, e)
             \/ \E noreply \in BOOLEAN, k \in 0 .. ASYN_NR : SendA(p, e, noreply, k)
       \/ \E src \in Peers[p] \cup {ANY} : Receive(p, src)

Signal(p) ==
    \/ Exception(p)
    \/ \E t \in KillTargets, sig \in {"SIGKILL", "SIGTERM"} : DoKill(p, t, sig)

Lifecycle(p) ==
    \/ DoExit(p) \/ DoExitSelf(p) \/ DoPrivctl(p)
    \/ \E c \in Proc \ SysProc : DoFork(p, c)

Stop(p) == DoResume(p) \/ \E delay \in BOOLEAN : DoStop(p, delay)

External(p) == Alarm(p) \/ \E irq \in Interrupts : Interrupt(p, irq)

Next ==
    \/ \E p \in Proc : \/ Trap(p) \/ DeliverMsg(p) \/ External(p)
                       \/ Signal(p) \/ Lifecycle(p) \/ Stop(p)
    \/ DoGetKsig \/ DoEndKsig

Spec == Init /\ [][Next]_vars

(* A runnable process is scheduled and its message delivered, and PM's main*)
(* loop always comes back to receive(ANY) and finishes its signal loop.    *)
Fairness ==
    /\ \A p \in Proc \ Kernel : WF_vars(DeliverMsg(p))
    /\ WF_vars(Receive(PM, ANY))
    /\ WF_vars(DoGetKsig)
    /\ WF_vars(DoEndKsig)

FairSpec == Spec /\ Fairness

-----------------------------------------------------------------------------
(* Properties. *)

Results == {"OK", "EDSTDIED", "ESRCDIED"}
RtsFlags == {"SLOT_FREE", "SENDING", "RECEIVING", "SIGNALED", "SIG_PENDING",
             "PROC_STOP", "NO_PRIV", "NO_ENDPOINT"}
MiscFlags == {"DELIVERMSG", "REPLY_PEND", "ASYNMSG", "SIG_DELAY"}
Messages == [src : Endpoints, kind : {"msg", "notify"},
             arg : SUBSET (Signals \cup Interrupts)]
Entries == [dst : Endpoints, noreply : BOOLEAN, done : BOOLEAN]

(* The kernel's tables hold what their declarations in proc.h, priv.h and  *)
(* ipc.h allow.                                                            *)
TypeOK ==
    /\ rts \in [Proc -> SUBSET RtsFlags]
    /\ misc \in [Proc -> SUBSET MiscFlags]
    /\ gen \in [Proc -> 0 .. MaxGen - 1]
    /\ getfrom \in [Proc -> Endpoints \cup {ANY}]
    /\ sendto \in [Proc -> Endpoints]
    /\ callerq \in [Proc -> Seq(Proc)]
    /\ inmsg \in [Proc -> Messages]
    /\ retreg \in [Proc -> Results]
    /\ s_notify_pending \in [Priv -> SUBSET SysProc]
    /\ s_int_pending \in [Priv -> SUBSET Interrupts]
    /\ s_sig_pending \in [Priv -> SUBSET Signals]
    /\ p_pending \in [Proc -> SUBSET Signals]
    /\ asyn \in [SysProc -> Seq(Entries)]
    /\ asynsize \in [SysProc -> BOOLEAN]
    /\ ksig \in {"idle", "get", "handle"} /\ ksig_e \in Endpoints

Alive(p) == "SLOT_FREE" \notin rts[p] /\ "NO_ENDPOINT" \notin rts[p]

(* The queue p_caller_q of a living process holds exactly the processes    *)
(* that are blocked sending to its present endpoint, each of them once:    *)
(* mini_send, mini_receive and clear_endpoint keep queues and flags in     *)
(* step, and so does do_fork unless others are queued at the process that  *)
(* is forked (QueueForked), when parent and child have the same queue.     *)
QueueSound ==
    \A d \in Proc : Alive(d) =>
        /\ \A i, j \in DOMAIN callerq[d] : callerq[d][i] = callerq[d][j] => i = j
        /\ \A p \in Proc : (\E i \in DOMAIN callerq[d] : callerq[d][i] = p)
                             <=> ("SENDING" \in rts[p] /\ sendto[p] = Endpoint(d))

(* A process is only ever blocked on an endpoint that is valid and whose   *)
(* process can still send and receive, so the okendpt() of deadlock() and  *)
(* clear_endpoint() never panics and no one waits for the dead.            *)
BlockedOnLive ==
    \A p \in Proc :
        /\ "SENDING" \in rts[p] => isokendpt(sendto[p]) /\ Alive(sendto[p][2])
        /\ ("RECEIVING" \in rts[p] /\ getfrom[p] # ANY)
              => isokendpt(getfrom[p]) /\ Alive(getfrom[p][2])

(* No process sleeps in RECEIVE while a sender it would accept waits in its*)
(* queue, nor in receive(ANY) while a notification is pending.             *)
NoMissedRendezvous ==
    \A p \in Proc : ("RECEIVING" \in rts[p] /\ "SENDING" \notin rts[p]) =>
        /\ \A i \in DOMAIN callerq[p] :
              getfrom[p] # ANY /\ getfrom[p] # Endpoint(callerq[p][i])
        /\ getfrom[p] = ANY => s_notify_pending[priv(p)] = {}

(* There is no cycle of blocked processes: every group has a member that   *)
(* waits for no one in the group.  So deadlock()'s walk along the chain    *)
(* ends, and no set of processes waits for each other for ever.            *)
NoWaitCycle ==
    \A S \in SUBSET Proc : S # {} => \E p \in S : \A q \in S : ~WaitsFor(p, q)

(* A process that has a message to be copied out is not blocked in a call: *)
(* QueueMess's assertion holds, no message overwrites another.             *)
OneMessage ==
    \A p \in Proc : "DELIVERMSG" \in misc[p] =>
        "RECEIVING" \notin rts[p] /\ "SENDING" \notin rts[p]

(* An interrupt that has not reached its driver is still announced by the  *)
(* HARDWARE bit, however notifications, deaths and scans interleave.       *)
InterruptNotLost ==
    \A q \in Priv : s_int_pending[q] # {} => HARDWARE \in s_notify_pending[q]

(* A notification is pending only from a process that can still send: once*)
(* clear_endpoint is done, the bit of a privilege structure that is handed *)
(* to a new process does not announce the old one.                         *)
NoGhostNotification ==
    \A p \in Proc : Alive(p) => \A s \in s_notify_pending[priv(p)] : Alive(s)

(* The notify maps say what happened: every interrupt that is not delivered *)
(* is in them, and nothing of a process that is gone.                       *)
NotificationsKept == InterruptNotLost /\ NoGhostNotification

(* PM has the SIGKSIG notification pending, is being handed it, or is in   *)
(* its loop over the signals.                                              *)
PMTold ==
    \/ "SIGKSIG" \in s_sig_pending[PM] /\ SYSTEM \in s_notify_pending[PM]
    \/ /\ "DELIVERMSG" \in misc[PM] /\ inmsg[PM].src[2] = SYSTEM
       /\ "SIGKSIG" \in inmsg[PM].arg
    \/ ksig # "idle"

(* As long as a process is SIGNALED it stays blocked and PM is told; and a *)
(* living process has signals pending, and is SIGNALED, for as long as PM  *)
(* has not fetched them: cause_sig's single notification for many signals  *)
(* loses none, whatever clear_endpoint, do_getksig and do_endksig do.      *)
SignalNotLost ==
    \A p \in Proc :
        /\ "SIGNALED" \in rts[p] => PMTold /\ "SIG_PENDING" \in rts[p]
        /\ ~isemptyp(p) => (p_pending[p] # {} <=> "SIGNALED" \in rts[p])

(* The sys_endksig() of PM's signal loop never fails: the process PM is    *)
(* handling a signal for is still there and marked SIG_PENDING.            *)
EndksigSucceeds ==
    ksig = "handle" => isokendpt(ksig_e) /\ "SIG_PENDING" \in rts[ksig_e[2]]

(* As long as an asynchronous message that the kernel accepted from a      *)
(* living process for a living process is not delivered, the kernel keeps  *)
(* the sender's table and MF_ASYNMSG makes a later receive look there.     *)
AsyncNotLost ==
    \A s \in SysProc, d \in Proc : \A i \in DOMAIN asyn[s] :
        (Alive(s) /\ <<s, d>> \in MaySend /\ Alive(d) /\ PendingFor(s, d, i))
            => asynsize[s] /\ "ASYNMSG" \in misc[d]

(* No process sleeps in a plain RECEIVE while the kernel has an            *)
(* asynchronous message for it that it would accept.  (A SENDREC that had  *)
(* to wait before it could send is not covered: see the README.)           *)
NoMissedAsync ==
    \A p \in Proc : ("RECEIVING" \in rts[p] /\ "REPLY_PEND" \notin misc[p]) =>
        \A s \in SysProc : getfrom[p] \in {ANY, Endpoint(s)} => ~HasOne(s, p, misc)

(* An asynchronous message stays known to the kernel until it is delivered, *)
(* and no receiver sleeps on while there is one for it.                     *)
AsyncKept == AsyncNotLost /\ NoMissedAsync

(* A process blocked in RECEIVE or SENDREC only wakes up with a message it *)
(* asked for, no notification if it awaits a reply, or with the error that *)
(* says its peer died; a blocked sender only when its message was taken or *)
(* with that error.                                                        *)
WakeUp(p) ==
    /\ ("RECEIVING" \in rts[p] /\ "RECEIVING" \notin rts'[p] /\ Alive(p)') =>
          \/ /\ "DELIVERMSG" \in misc'[p]
             /\ getfrom[p] \in {ANY, inmsg'[p].src}
             /\ "REPLY_PEND" \in misc[p] => inmsg'[p].kind = "msg"
          \/ retreg'[p] \in {"ESRCDIED", "EDSTDIED"} /\ ~Alive(getfrom[p][2])'
    /\ ("SENDING" \in rts[p] /\ "SENDING" \notin rts'[p] /\ Alive(p)') =>
          \/ /\ "DELIVERMSG" \in misc'[sendto[p][2]]
             /\ inmsg'[sendto[p][2]].src = Endpoint(p)
          \/ retreg'[p] = "EDSTDIED" /\ ~Alive(sendto[p][2])'

WakeHasCause == [][\A p \in Proc : WakeUp(p)]_vars

(* As the comment of mini_receive has it: a process does not sleep in a    *)
(* RECEIVE from one source while a notification of that source is pending. *)
NoMissedNotification ==
    \A p \in Proc : ("RECEIVING" \in rts[p] /\ "REPLY_PEND" \notin misc[p]
                        /\ getfrom[p] # ANY) =>
        getfrom[p][2] \notin s_notify_pending[priv(p)]

(* As do_runctl has it: a delayed stop is reported to PM as soon as the    *)
(* process is done sending, so MF_SIG_DELAY does not outlast SENDING.      *)
DelayReported ==
    \A p \in Proc : (~isemptyp(p) /\ "SIG_DELAY" \in misc[p]) => "SENDING" \in rts[p]

(* A process that is signalled is eventually taken up by PM's signal loop. *)
SignalReachesPM ==
    (\E p \in Proc : "SIGNALED" \in rts[p]) ~> (ksig # "idle")

(* A process that waits to send to PM is eventually served, unless signals *)
(* keep coming: mini_receive looks at notifications before the queue, and  *)
(* the queue is served in the order of arrival.                            *)
SenderServed ==
    \A p \in Proc :
        \/ []<>(\E q \in Proc : "SIGNALED" \in rts[q])
        \/ ("SENDING" \in rts[p] /\ sendto[p][2] = PM) ~> ("SENDING" \notin rts[p])
=============================================================================
