------------------------------ MODULE Scheduler ------------------------------
(***************************************************************************)
(* The scheduler of the MINIX 3 kernel: the ready queues of kernel/proc.c, *)
(* the macros of proc.h that keep them in step with p_rts_flags, quanta    *)
(* and priorities, and what drives them: system calls, the clock interrupt *)
(* and the clock task (kernel/clock.c), virtual timers, and the kernel     *)
(* calls that rewrite scheduling fields (sys_nice, sys_fork, sys_exit,     *)
(* sys_vtimer, sys_getksig, sys_endksig).                                  *)
(*                                                                         *)
(* Granularity.  A trap and an interrupt run with interrupts disabled and  *)
(* end in schedcheck().  The tasks CLOCK and SYSTEM run with interrupts    *)
(* enabled except between lock and unlock, so a clock tick may come        *)
(* between any two of their steps.  Message contents, queues of senders    *)
(* and system call tracing are left out: a process blocks (RECEIVING) and  *)
(* is woken.                                                               *)
(*                                                                         *)
(* A definition whose name ends in _F is a faulty variant of the one that  *)
(* follows it, which the specification does not use.                       *)
(***************************************************************************)
EXTENDS Integers, Sequences, FiniteSets, SequencesExt

CONSTANTS
    Proc,           \* slots in use or free, as integers; tasks are negative
    PM,             \* slot of the process manager
    Preemptible,    \* slots whose process has PREEMPTIBLE ...
    Billable,       \* ... and BILLABLE among its s_flags
    FreeAtBoot,     \* slots no process of the boot image occupies
    boot_priority,  \* the queue of each process in the image table
    p_quantum_size,
    IDLE_Q,         \* the lowest queue
    Q_BALANCE_TICKS,
    MaxTicks,       \* bound: balance_queues' period and a virtual timer
    MinTicks,       \* bound: p_ticks_left of a billed process stays above it
    Talkers,        \* processes that make system calls, besides PM
    Drivers,        \* processes a device interrupt wakes
    Nice,           \* the queues do_nice may put a process on
    Niced, Mortal, Forkers, \* the processes PM does this to
    Timed,          \* the processes with virtual timers
    TickAt,         \* the points of do_clocktick a tick may interrupt
    NIL

IDLE   == -4
CLOCK  == -3
SYSTEM == -2
Queues == 0 .. IDLE_Q
Users  == {p \in Proc : p >= 0}
VTimer == {"SIGVTALRM", "SIGPROF"}
ClockPoints == {"start", "requeue", "vprev", "vbill", "timers", "balance", "receive"}

ASSUME SchedAssumption ==
    /\ Proc \subseteq Int /\ IsFiniteSet(Proc) /\ {IDLE, CLOCK, SYSTEM} \subseteq Proc
    /\ \A p \in Proc : p < 0 => p \in {IDLE, CLOCK, SYSTEM}
    /\ PM \in Users /\ NIL \notin Int
    /\ Preemptible \subseteq Proc /\ Billable \subseteq Preemptible
    /\ {CLOCK, SYSTEM} \cap Preemptible = {} /\ IDLE \in Billable
    /\ FreeAtBoot \subseteq Users \ {PM}
    /\ Talkers \subseteq Users \ {PM} /\ Niced \subseteq Users
    /\ Mortal \subseteq Users \ {PM} /\ Forkers \subseteq Users \ {PM}
    /\ Timed \subseteq Users \ {PM} /\ Drivers \subseteq Users \ {PM}
    /\ FreeAtBoot \cup Forkers \subseteq Billable

ASSUME QuantumAssumption ==
    /\ IDLE_Q \in Nat /\ IDLE_Q >= 2
    /\ Q_BALANCE_TICKS \in Nat \ {0} /\ MaxTicks \in Nat \ {0}
    /\ MinTicks \in Int /\ MinTicks <= 0
    /\ boot_priority \in [Proc -> Queues]
    /\ \A p \in Proc : p # IDLE <=> boot_priority[p] < IDLE_Q
    /\ boot_priority[CLOCK] = 0 /\ boot_priority[SYSTEM] = 0
    /\ p_quantum_size \in [Proc -> Nat \ {0}]
    /\ Nice \subseteq 0 .. IDLE_Q - 1
    /\ TickAt \subseteq ClockPoints

VARIABLES
    rts,         \* p_rts_flags
    p_priority, p_max_priority, p_ticks_left,
    rdy,         \* rdy_head ... rdy_tail of each queue, as a sequence
    proc_ptr, next_ptr, prev_ptr, bill_ptr,
    timeout,     \* ticks until next_timeout, the time of queue_timer
    notified,    \* CLOCK has a notification it has not received
    clk,         \* where the clock task is
    bill_copy,   \* do_clocktick's local variable
    bal,         \* the slot balance_queues is at, NIL outside it
    ticks_added, \* its local variable
    sysop,       \* what the system task is doing, and for whom
    armed,       \* MF_VIRT_TIMER and MF_PROF_TIMER of each process
    vleft,       \* p_virt_left and p_prof_left
    p_pending    \* signals PM has not fetched yet

queuevars == <<rts, p_priority, p_ticks_left, rdy, proc_ptr, next_ptr, bill_ptr>>
clockvars == <<prev_ptr, timeout, notified, clk, bill_copy, bal, ticks_added>>
vtvars    == <<armed, vleft, p_pending>>
vars      == <<queuevars, p_max_priority, clockvars, sysop, vtvars>>

Greater(a, b) == IF a > b THEN a ELSE b

-----------------------------------------------------------------------------
(* The functions of proc.c work on the global scheduling state, here a     *)
(* record they are applied to one after the other.                         *)

Now == [rts |-> rts, pri |-> p_priority, left |-> p_ticks_left, rdy |-> rdy,
        proc |-> proc_ptr, next |-> next_ptr, bill |-> bill_ptr]

Becomes(k) ==
    /\ rts' = k.rts /\ p_priority' = k.pri /\ p_ticks_left' = k.left
    /\ rdy' = k.rdy /\ proc_ptr' = k.proc /\ next_ptr' = k.next
    /\ bill_ptr' = k.bill

(* A process that used up its quantum keeps its priority. *)
SchedKeeps_F(k, p) ==
    IF k.left[p] > 0 THEN k ELSE [k EXCEPT !.left[p] = p_quantum_size[p]]

(* A process without time left gets a new quantum on the next lower queue. *)
sched(k, p) ==
    IF k.left[p] > 0 THEN k
    ELSE [k EXCEPT !.left[p] = p_quantum_size[p],
                   !.pri[p] = IF @ < IDLE_Q - 1 THEN @ + 1 ELSE @]

FirstQueue(k) == CHOOSE q \in Queues : /\ k.rdy[q] # <<>>
                                       /\ \A r \in Queues : r < q => k.rdy[r] = <<>>

pick_proc(k) ==
    LET p == Head(k.rdy[FirstQueue(k)])
    IN  [k EXCEPT !.next = p, !.bill = IF p \in Billable THEN p ELSE @]

(* It does not compare priorities: only a process that blocks is replaced. *)
EnqueueLazy_F(k, p) ==
    LET s == sched(k, p)
    IN  [s EXCEPT !.rdy[s.pri[p]] = IF k.left[p] > 0 THEN <<p>> \o @ ELSE Append(@, p)]

(* Nobody is protected from preemption. *)
EnqueueEager_F(k, p) ==
    LET s == sched(k, p)
        e == [s EXCEPT !.rdy[s.pri[p]] = IF k.left[p] > 0 THEN <<p>> \o @ ELSE Append(@, p)]
    IN  IF e.pri[e.proc] >= e.pri[p] THEN pick_proc(e) ELSE e

enqueue(k, p) ==
    LET s == sched(k, p)
        e == [s EXCEPT !.rdy[s.pri[p]] = IF k.left[p] > 0 THEN <<p>> \o @ ELSE Append(@, p)]
    IN  IF e.pri[e.proc] > e.pri[p] /\ e.proc \in Preemptible THEN pick_proc(e) ELSE e

dequeue(k, p) ==
    LET d == [k EXCEPT !.rdy[k.pri[p]] = RemoveFirst(@, p)]
    IN  IF Contains(k.rdy[k.pri[p]], p) /\ p \in {k.proc, k.next}
        THEN pick_proc(d) ELSE d

RTS_SET(k, p, f) ==
    LET d == IF k.rts[p] = {} THEN dequeue(k, p) ELSE k
    IN  [d EXCEPT !.rts[p] = @ \cup f]

RTS_UNSET(k, p, f) ==
    LET u == [k EXCEPT !.rts[p] = @ \ f]
    IN  IF k.rts[p] # {} /\ u.rts[p] = {} THEN enqueue(u, p) ELSE u

RTS_LOCK_SETFLAGS(k, p, f) ==
    LET d == IF k.rts[p] = {} /\ f # {} THEN dequeue(k, p) ELSE k
    IN  [d EXCEPT !.rts[p] = f]

schedcheck(k) == IF k.next = NIL THEN k ELSE [k EXCEPT !.proc = k.next, !.next = NIL]

isemptyp(p) == rts[p] = {"SLOT_FREE"}

(* A process in receive(ANY) or waiting for a peer other than SYSTEM. *)
Waits(p) == "RECEIVING" \in rts[p] /\ ~(p = PM /\ sysop.op # "none")

-----------------------------------------------------------------------------
(* System calls of processes and interrupts of devices, as the scheduler   *)
(* sees them: the caller wakes somebody, blocks, or does both.             *)

Caller(p) == bal = NIL /\ proc_ptr = p /\ p \in Talkers \cup {PM}

Release(p, q) ==
    /\ Caller(p) /\ q \in Talkers \cup {PM} \cup FreeAtBoot /\ Waits(q)
    /\ Becomes(schedcheck(RTS_UNSET(Now, q, {"RECEIVING"})))
    /\ UNCHANGED <<p_max_priority, clockvars, sysop, vtvars>>

Block(p) ==
    /\ Caller(p)
    /\ Becomes(schedcheck(RTS_SET(Now, p, {"RECEIVING"})))
    /\ UNCHANGED <<p_max_priority, clockvars, sysop, vtvars>>

(* SENDREC to a process that waits. *)
Call(p, q) ==
    /\ Caller(p) /\ q \in Talkers \cup {PM} /\ q # p /\ Waits(q)
    /\ Becomes(schedcheck(RTS_SET(RTS_UNSET(Now, q, {"RECEIVING"}), p, {"RECEIVING"})))
    /\ UNCHANGED <<p_max_priority, clockvars, sysop, vtvars>>

Interrupt(q) ==
    /\ bal = NIL /\ q \in Drivers /\ Waits(q)
    /\ Becomes(schedcheck(RTS_UNSET(Now, q, {"RECEIVING"})))
    /\ UNCHANGED <<p_max_priority, clockvars, sysop, vtvars>>

(* PM asks the system task for something. *)
KernelCall ==
    /\ Caller(PM) /\ sysop.op = "none"
    /\ Becomes(schedcheck(RTS_SET(RTS_UNSET(Now, SYSTEM, {"RECEIVING"}), PM, {"RECEIVING"})))
    /\ sysop' = [op |-> "request", on |-> NIL]
    /\ UNCHANGED <<p_max_priority, clockvars, vtvars>>

-----------------------------------------------------------------------------
(* The system task. *)

Handles(op) == bal = NIL /\ proc_ptr = SYSTEM /\ sysop.op = op

Done == sysop' = [op |-> "reply", on |-> NIL]

(* The process is taken off its queue ... *)
DoNiceLock(p) ==
    /\ Handles("request") /\ p \in Niced /\ ~isemptyp(p)
    /\ Becomes(RTS_SET(Now, p, {"SYS_LOCK"}))
    /\ sysop' = [op |-> "nice", on |-> p]
    /\ UNCHANGED <<p_max_priority, clockvars, vtvars>>

(* ... and put back where its new priority belongs. *)
DoNiceSet(q) ==
    /\ Handles("nice")
    /\ Becomes(RTS_UNSET([Now EXCEPT !.pri[sysop.on] = q], sysop.on, {"SYS_LOCK"}))
    /\ p_max_priority' = [p_max_priority EXCEPT ![sysop.on] = q]
    /\ Done
    /\ UNCHANGED <<clockvars, vtvars>>

(* Parent and child share the quantum; C's division truncates. *)
Half(n) == IF n >= 0 THEN n \div 2 ELSE -((-n) \div 2)

(* The child is a copy of the parent, which is blocked in its call. *)
DoFork(p, c) ==
    /\ Handles("request") /\ p \in Forkers /\ "RECEIVING" \in rts[p]
    /\ c \in Users /\ isemptyp(c)
    /\ rts' = [rts EXCEPT ![c] = rts[p] \ {"SIGNALED", "SIG_PENDING"}]
    /\ p_priority' = [p_priority EXCEPT ![c] = p_priority[p]]
    /\ p_max_priority' = [p_max_priority EXCEPT ![c] = p_max_priority[p]]
    /\ p_ticks_left' = [p_ticks_left EXCEPT ![c] = Half(p_ticks_left[p] + 1),
                                            ![p] = Half(@)]
    /\ armed' = [armed EXCEPT ![c] = {}]
    /\ vleft' = [vleft EXCEPT ![c] = [t \in VTimer |-> 0]]
    /\ p_pending' = [p_pending EXCEPT ![c] = {}]
    /\ Done
    /\ UNCHANGED <<rdy, proc_ptr, next_ptr, bill_ptr, clockvars>>

(* clear_proc(): timers of the clock are reset, virtual timers are not. *)
DoExit(p) ==
    /\ Handles("request") /\ p \in Mortal /\ ~isemptyp(p)
    /\ Becomes(RTS_LOCK_SETFLAGS(Now, p, {"SLOT_FREE"}))
    /\ Done
    /\ UNCHANGED <<p_max_priority, clockvars, vtvars>>

(* do_vtimer takes the flag away, so that the interrupt handler leaves the *)
(* counter alone, ...                                                      *)
DoVtimerOff(p, t) ==
    /\ Handles("request") /\ p \in Timed /\ ~isemptyp(p)
    /\ armed' = [armed EXCEPT ![p] = @ \ {t}]
    /\ sysop' = [op |-> t, on |-> p]
    /\ UNCHANGED <<queuevars, p_max_priority, clockvars, vleft, p_pending>>

(* ... and gives it back after it set the counter, unless to zero. *)
DoVtimerOn(t, n) ==
    /\ Handles(t)
    /\ vleft' = [vleft EXCEPT ![sysop.on][t] = n]
    /\ armed' = IF n > 0 THEN [armed EXCEPT ![sysop.on] = @ \cup {t}] ELSE armed
    /\ Done
    /\ UNCHANGED <<queuevars, p_max_priority, clockvars, p_pending>>

DoGetKsig(p) ==
    /\ Handles("request") /\ p \in Users /\ "SIGNALED" \in rts[p]
    /\ \A q \in Users : "SIGNALED" \in rts[q] => p <= q
    /\ p_pending' = [p_pending EXCEPT ![p] = {}]
    /\ Becomes(RTS_UNSET(Now, p, {"SIGNALED"}))
    /\ Done
    /\ UNCHANGED <<p_max_priority, clockvars, armed, vleft>>

DoEndKsig(p) ==
    /\ Handles("request") /\ p \in Users
    /\ "SIG_PENDING" \in rts[p] /\ "SIGNALED" \notin rts[p]
    /\ Becomes(RTS_UNSET(Now, p, {"SIG_PENDING"}))
    /\ Done
    /\ UNCHANGED <<p_max_priority, clockvars, vtvars>>

(* The reply, and back to receive(ANY). *)
SysReply ==
    /\ Handles("reply")
    /\ Becomes(schedcheck(RTS_SET(RTS_UNSET(Now, PM, {"RECEIVING"}), SYSTEM, {"RECEIVING"})))
    /\ sysop' = [op |-> "none", on |-> NIL]
    /\ UNCHANGED <<p_max_priority, clockvars, vtvars>>

(* A request that is refused, or that has nothing to do with scheduling. *)
DoOther ==
    /\ Handles("request") /\ Done
    /\ UNCHANGED <<queuevars, p_max_priority, clockvars, vtvars>>

-----------------------------------------------------------------------------
(* The clock interrupt. *)

(* The virtual timers a tick decrements: both of the running process, the  *)
(* profile timer of the process billed for the time of an unbillable one.  *)
Charged(p, t) ==
    /\ t \in armed[p]
    /\ p = proc_ptr \/ (proc_ptr \notin Billable /\ p = bill_ptr /\ t = "SIGPROF")

ChargeTick(k) ==
    [k EXCEPT !.left = [p \in Proc |->
        IF \/ p = proc_ptr /\ p \in Preemptible
           \/ p = bill_ptr /\ proc_ptr \notin Billable
        THEN Greater(@[p] - 1, MinTicks) ELSE @[p]]]

(* Counters of virtual timers stay at 0 here once they expired. *)
clock_handler ==
    LET k == ChargeTick(Now)
        v == [p \in Proc |-> [t \in VTimer |->
                IF Charged(p, t) THEN Greater(vleft[p][t] - 1, 0) ELSE vleft[p][t]]]
        expired == \E p \in Proc, t \in VTimer : Charged(p, t) /\ v[p][t] <= 0
        call == timeout <= 1 \/ k.left[proc_ptr] <= 0 \/ expired
    IN  /\ bal = NIL /\ (proc_ptr = CLOCK => clk \in TickAt)
        /\ vleft' = v
        /\ timeout' = Greater(timeout - 1, 0)
        /\ prev_ptr' = IF call THEN proc_ptr ELSE prev_ptr
        /\ notified' = (notified \/ (call /\ ~Waits(CLOCK)))
        /\ Becomes(schedcheck(IF call THEN RTS_UNSET(k, CLOCK, {"RECEIVING"}) ELSE k))
        /\ UNCHANGED <<p_max_priority, clk, bill_copy, bal, ticks_added, sysop, armed, p_pending>>

-----------------------------------------------------------------------------
(* The clock task: do_clocktick(), one step per access to shared state.    *)

ClockAt(l) == bal = NIL /\ proc_ptr = CLOCK /\ clk = l

(* The process that was running used up its quantum and is runnable. *)
ClockTest ==
    /\ ClockAt("start")
    /\ bill_copy' = bill_ptr
    /\ clk' = IF /\ p_ticks_left[prev_ptr] <= 0 /\ prev_ptr \in Preemptible
                 /\ rts[prev_ptr] = {}
              THEN "requeue" ELSE "vprev"
    /\ UNCHANGED <<queuevars, p_max_priority, prev_ptr, timeout, notified, bal,
                   ticks_added, sysop, vtvars>>

(* Under the lock; prev_ptr is read again. *)
ClockRequeue ==
    /\ ClockAt("requeue")
    /\ Becomes(enqueue(dequeue(Now, prev_ptr), prev_ptr))
    /\ clk' = "vprev"
    /\ UNCHANGED <<p_max_priority, prev_ptr, timeout, notified, bill_copy, bal,
                   ticks_added, sysop, vtvars>>

(* vtimer_check() with cause_sig(): the process is blocked and PM notified *)
(* unless it has been already.                                             *)
vtimer_check(p) ==
    LET due == {t \in armed[p] : vleft[p][t] <= 0}
        s == RTS_SET(Now, p, {"SIGNALED", "SIG_PENDING"})
    IN  /\ armed' = [armed EXCEPT ![p] = @ \ due]
        /\ p_pending' = [p_pending EXCEPT ![p] = @ \cup due]
        /\ IF due \subseteq p_pending[p] \/ "SIGNALED" \in rts[p] THEN Becomes(Now)
           ELSE Becomes(IF Waits(PM) THEN RTS_UNSET(s, PM, {"RECEIVING"}) ELSE s)

ClockPrev ==
    /\ ClockAt("vprev")
    /\ vtimer_check(prev_ptr)
    /\ clk' = IF prev_ptr # bill_copy THEN "vbill" ELSE "timers"
    /\ UNCHANGED <<p_max_priority, prev_ptr, timeout, notified, bill_copy, bal,
                   ticks_added, sysop, vleft>>

ClockBilled ==
    /\ ClockAt("vbill")
    /\ vtimer_check(bill_copy)
    /\ clk' = "timers"
    /\ UNCHANGED <<p_max_priority, prev_ptr, timeout, notified, bill_copy, bal,
                   ticks_added, sysop, vleft>>

(* The only timer here is the one that balances the queues. *)
ClockTimers ==
    /\ ClockAt("timers")
    /\ IF timeout = 0 THEN bal' = IDLE /\ clk' = "balance"
                       ELSE bal' = bal /\ clk' = "receive"
    /\ ticks_added' = 0
    /\ UNCHANGED <<queuevars, p_max_priority, prev_ptr, timeout, notified,
                   bill_copy, sysop, vtvars>>

(* The round is over and the timer is set, after the lock is given up. *)
ClockBalanced ==
    /\ ClockAt("balance")
    /\ timeout' = Greater(Q_BALANCE_TICKS, ticks_added)
    /\ clk' = "receive"
    /\ ticks_added' = 0
    /\ UNCHANGED <<queuevars, p_max_priority, prev_ptr, notified, bill_copy, bal,
                   sysop, vtvars>>

(* receive(ANY) takes the notification that came meanwhile, or blocks. *)
ClockReceive ==
    /\ ClockAt("receive")
    /\ clk' = "start" /\ bill_copy' = IDLE
    /\ notified' = FALSE
    /\ Becomes(schedcheck(IF notified THEN Now ELSE RTS_SET(Now, CLOCK, {"RECEIVING"})))
    /\ UNCHANGED <<p_max_priority, prev_ptr, timeout, bal, ticks_added, sysop, vtvars>>

ClockTask ==
    \/ ClockTest \/ ClockRequeue \/ ClockPrev \/ ClockBilled
    \/ ClockTimers \/ ClockBalanced \/ ClockReceive

-----------------------------------------------------------------------------
(* balance_queues() walks the process table with interrupts disabled: bal  *)
(* is the slot it is at, and no other step comes between.                  *)

NextSlot(p) ==
    IF \E q \in Proc : q > p
    THEN CHOOSE q \in Proc : q > p /\ \A r \in Proc : r > p => q <= r
    ELSE NIL

Raise(p) == p_priority[p] > p_max_priority[p]

(* The priority changes while the process is on a queue. *)
BalanceInPlace_F(p) ==
    /\ IF isemptyp(p) THEN Becomes(Now) /\ ticks_added' = ticks_added
       ELSE IF Raise(p)
       THEN /\ Becomes([Now EXCEPT !.pri[p] = @ - 1])
            /\ ticks_added' = ticks_added + p_quantum_size[p]
       ELSE /\ Becomes([Now EXCEPT !.left[p] = p_quantum_size[p]])
            /\ ticks_added' = ticks_added + p_quantum_size[p] - p_ticks_left[p]

BalanceOne(p) ==
    LET up(k) == [k EXCEPT !.pri[p] = @ - 1]
    IN  IF isemptyp(p) THEN Becomes(Now) /\ ticks_added' = ticks_added
        ELSE IF Raise(p)
        THEN /\ Becomes(IF rts[p] = {} THEN enqueue(up(dequeue(Now, p)), p) ELSE up(Now))
             /\ ticks_added' = ticks_added + p_quantum_size[p]
        ELSE /\ Becomes([Now EXCEPT !.left[p] = p_quantum_size[p]])
             /\ ticks_added' = ticks_added + p_quantum_size[p] - p_ticks_left[p]

balance_queues ==
    /\ bal # NIL
    /\ BalanceOne(bal)
    /\ bal' = NextSlot(bal)
    /\ UNCHANGED <<p_max_priority, prev_ptr, timeout, notified, clk, bill_copy,
                   sysop, vtvars>>

-----------------------------------------------------------------------------
(* The state after boot: the tasks wait, every other process of the boot   *)
(* image is ready, init_clock() has balanced the queues once.  main() adds *)
(* each process in front of its queue.                                     *)
BootFlags == [p \in Proc |-> IF p \in {CLOCK, SYSTEM} THEN {"RECEIVING"}
                            ELSE IF p \in FreeAtBoot THEN {"SLOT_FREE"} ELSE {}]

(* Each stands behind those that came after it. *)
Descending(S) == [i \in 1 .. Cardinality(S) |->
    CHOOSE p \in S : Cardinality({r \in S : r > p}) = i - 1]

BootQueues == [q \in Queues |->
    Descending({p \in Proc : BootFlags[p] = {} /\ boot_priority[p] = q})]

First == Head(BootQueues[CHOOSE q \in Queues : /\ BootQueues[q] # <<>>
                                               /\ \A r \in Queues : r < q => BootQueues[r] = <<>>])

Init ==
    /\ rts = BootFlags
    /\ p_priority = boot_priority /\ p_max_priority = boot_priority
    /\ p_ticks_left = p_quantum_size
    /\ rdy = BootQueues
    /\ proc_ptr = First /\ next_ptr = NIL /\ prev_ptr = First
    /\ bill_ptr = IF First \in Billable THEN First ELSE IDLE
    /\ timeout = Q_BALANCE_TICKS /\ notified = FALSE /\ clk = "start"
    /\ bill_copy = IDLE /\ bal = NIL /\ ticks_added = 0
    /\ sysop = [op |-> "none", on |-> NIL]
    /\ armed = [p \in Proc |-> {}]
    /\ vleft = [p \in Proc |-> [t \in VTimer |-> 0]]
    /\ p_pending = [p \in Proc |-> {}]

SysCalls ==
    \/ KernelCall
    \/ \E p \in Users : Block(p) \/ \E q \in Users : Release(p, q) \/ Call(p, q)

SystemTask ==
    \/ DoOther \/ SysReply
    \/ \E p \in Users : DoNiceLock(p) \/ DoExit(p) \/ DoGetKsig(p) \/ DoEndKsig(p)
    \/ \E q \in Nice : DoNiceSet(q)
    \/ \E p, c \in Users : DoFork(p, c)
    \/ \E p \in Users, t \in VTimer : DoVtimerOff(p, t)
    \/ \E t \in VTimer, n \in 0 .. MaxTicks : DoVtimerOn(t, n)

Next ==
    \/ balance_queues \/ clock_handler \/ ClockTask \/ SystemTask \/ SysCalls
    \/ \E q \in Drivers : Interrupt(q)

Spec == Init /\ [][Next]_vars

(* Ticks keep coming, and the code that runs makes progress: the clock     *)
(* task through its loop, the system task to its reply.                    *)
Fairness ==
    /\ WF_vars(balance_queues)
    /\ WF_vars(clock_handler)
    /\ WF_vars(ClockTask)
    /\ WF_vars(SystemTask)

FairSpec == Spec /\ Fairness

-----------------------------------------------------------------------------
(* Type correctness, with the bounds of the counters. *)
TypeOK ==
    /\ rts \in [Proc -> SUBSET {"SLOT_FREE", "RECEIVING", "SYS_LOCK", "SIGNALED", "SIG_PENDING"}]
    /\ p_priority \in [Proc -> Queues] /\ p_max_priority \in [Proc -> Queues]
    /\ p_ticks_left \in [Proc -> Int]
    /\ \A p \in Proc : p_ticks_left[p] >= MinTicks /\ p_ticks_left[p] <= p_quantum_size[p]
    /\ rdy \in [Queues -> Seq(Proc)]
    /\ {proc_ptr, prev_ptr, bill_ptr, bill_copy} \subseteq Proc
    /\ {next_ptr, bal} \subseteq Proc \cup {NIL}
    /\ timeout \in Nat /\ notified \in BOOLEAN /\ ticks_added \in Int
    /\ clk \in ClockPoints
    /\ sysop \in [op : {"none", "request", "nice", "reply"} \cup VTimer, on : Proc \cup {NIL}]
    /\ armed \in [Proc -> SUBSET VTimer]
    /\ vleft \in [Proc -> [VTimer -> 0 .. MaxTicks]]
    /\ p_pending \in [Proc -> SUBSET VTimer]

OnQueue(p, q) == Cardinality({i \in DOMAIN rdy[q] : rdy[q][i] = p})

(* The ready queues hold exactly the runnable processes, each once and on  *)
(* the queue of its priority: what check_runqueues_f() tests, whichever    *)
(* handler set or cleared the flags, and although priorities change.       *)
(* Quanta lower a priority and balancing raises it, but never above the    *)
(* limit set by sys_nice nor into the queue that is IDLE's alone.          *)
RunqueuesSound ==
    /\ \A p \in Proc, q \in Queues :
           OnQueue(p, q) = IF rts[p] = {} /\ p_priority[p] = q THEN 1 ELSE 0
    /\ \A p \in Proc \ {IDLE} : p_priority[p] < IDLE_Q
    /\ p_priority[IDLE] = IDLE_Q
    /\ \A p \in Proc : ~isemptyp(p) => p_max_priority[p] <= p_priority[p]

(* The process that runs and the one chosen to be next are runnable, as    *)
(* schedcheck() and pick_proc() assert, even when the one chosen is        *)
(* blocked by a signal before it gets to run; and a preemptible process    *)
(* never runs while one of a better queue is ready: enqueue() and          *)
(* dequeue() decide alone, between them, when to pick again.  The one      *)
(* exception is the time in which the clock task is ready and does not     *)
(* run: a tick between do_clocktick()'s test of prev_ptr (clock.c:119) and *)
(* its lock (clock.c:121) makes prev_ptr the clock task itself, which is   *)
(* then dequeued and so replaced by whoever dequeue() picks.               *)
HighestRuns ==
    /\ rts[proc_ptr] = {} /\ (next_ptr # NIL => rts[next_ptr] = {})
    /\ (proc_ptr \in Preemptible /\ bal = NIL /\ rts[CLOCK] # {})
           => \A p \in Proc : rts[p] = {} => p_priority[proc_ptr] <= p_priority[p]

(* A task that is not preemptible gives up the processor by blocking only  *)
(* (const.h:135: "kernel tasks are not preemptible"), whatever interrupts  *)
(* come while it runs, except the clock task once it has dequeued itself   *)
(* in do_clocktick() and dequeue() has chosen another to be next.          *)
TaskNotPreempted ==
    [][(proc_ptr \notin Preemptible /\ proc_ptr' # proc_ptr)
           => \/ rts'[proc_ptr] # {}
              \/ proc_ptr = CLOCK /\ next_ptr # NIL]_vars

(* do_exit() ends what the clock holds for a process: no timer signals a   *)
(* slot that has been freed.                                               *)
DeadNotSignalled == \A p \in Proc : "SLOT_FREE" \in rts[p] => "SIGNALED" \notin rts[p]

(* A runnable process gets to run, however much its competitors compute,   *)
(* because quanta cost them their priority faster than balancing gives it  *)
(* back, and the clock task is called whenever a quantum has expired.      *)
NoStarvation ==
    /\ \A p \in Proc \ {IDLE} : rts[p] = {} ~> (proc_ptr = p \/ rts[p] # {})
    /\ (proc_ptr \in Preemptible /\ p_ticks_left[proc_ptr] <= 0) ~> (proc_ptr = CLOCK)
=============================================================================
