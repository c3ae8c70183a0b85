---------------------------- MODULE ProcessManager --------------------------
(* The process manager (servers/pm): fork, exit, wait, signals, exec and    *)
(* tracing, with the requests it sends to the file server (FS) and answers  *)
(* later, and what it asks of the kernel. A handler is a function from a    *)
(* state of PM's world to the next one; an action is one pass of PM's main  *)
(* loop, with the replies that it sends at its end.                         *)
EXTENDS Integers, FiniteSets, SequencesExt

CONSTANTS
    NrProcs,   \* slots of mproc[], without PM's own
    Boot,      \* slots in use at first
    Priv,      \* those of them that are system processes
    Signals,   \* the signals used, in the order of their numbers
    CoreSigs,  \* those that dump core
    Sent,      \* those that processes send, catch, ignore and block
    Dispositions, \* what sigaction() sets: of "dfl", "ign" and "catch"
    NoStack,   \* processes whose stack has no room for a signal frame
    NewSlots,  \* bound: the slots that new processes are given
    Calls,     \* the calls that processes make
    Queueing   \* a call may wait in the kernel until PM has time for it

Slot == 1 .. NrProcs
INIT == 1        \* INIT_PROC_NR
PM == 0          \* PM_PROC_NR: the parent of INIT and of the system processes
NO_TRACER == 0
ANY == 0         \* waitpid(-1)
SlotSeq == [i \in 1 .. NrProcs |-> i]
Sig == Range(Signals)

ASSUME PMAssumption ==
    /\ NrProcs \in Nat /\ Boot \subseteq Slot /\ INIT \in Boot
    /\ Priv \subseteq Boot \ {INIT}
    /\ {"KILL", "CHLD", "STOP"} \subseteq Sig /\ CoreSigs \cup Sent \subseteq Sig
    /\ NoStack \subseteq Slot \ {INIT} /\ NewSlots \subseteq Slot /\ Queueing \in BOOLEAN
    /\ Dispositions \subseteq {"dfl", "ign", "catch"}

VARIABLES
    mproc,   \* the table: flags, parent, tracer, signals, ...
    kproc,   \* the kernel's side: is it stopped, is it in a call to PM, ...
    fsreq,   \* the request to FS on behalf of a process that is not answered
    procs_in_use,
    panic,   \* PM has called panic()
    stray    \* processes that were sent a reply that they did not wait for

vars == <<mproc, kproc, fsreq, procs_in_use, panic, stray>>

NoProc == [flags |-> {}, parent |-> INIT, tracer |-> NO_TRACER, sigpending |-> {},
           sigmask |-> {}, sigtrace |-> {}, act |-> [g \in Sig |-> "dfl"], wpid |-> ANY]

(* call: "run", "sending" to PM, "wait" for its reply, or "dead".           *)
(* sigdelay: MF_SIG_DELAY; ndelay: SIGNDELAY is pending for PM.             *)
NoKProc == [call |-> "dead", stop |-> FALSE, sigdelay |-> FALSE, ndelay |-> FALSE]

World == [m |-> mproc, k |-> kproc, f |-> fsreq, n |-> procs_in_use, x |-> panic, y |-> stray]

-----------------------------------------------------------------------------
(* Elementary steps on a world s. *)

Has(s, p, F) == s.m[p].flags \cap F # {}
Set(s, p, F) == [s EXCEPT !.m[p].flags = @ \cup F]
Clear(s, p, F) == [s EXCEPT !.m[p].flags = @ \ F]
Alive(s, p) == s.m[p].flags \cap {"IN_USE", "EXITING"} = {"IN_USE"}
Panic(s) == [s EXCEPT !.x = TRUE]
Pend(s, p, g) == [s EXCEPT !.m[p].sigpending = @ \cup {g}]

setreply(s, p) == Set(s, p, {"REPLY"})

tell_fs(s, p, req) ==
    IF Has(s, p, {"FS_CALL"}) THEN Panic(s) ELSE Set([s EXCEPT !.f[p] = req], p, {"FS_CALL"})

(* Kernel calls. *)
sys_stop(s, p) == IF s.k[p].call = "dead" THEN Panic(s) ELSE [s EXCEPT !.k[p].stop = TRUE]
sys_resume(s, p) == IF s.k[p].call = "dead" THEN Panic(s) ELSE [s EXCEPT !.k[p].stop = FALSE]
sys_exit(s, p) == IF s.k[p].call = "dead" THEN Panic(s) ELSE [s EXCEPT !.k[p] = NoKProc]

StopWaiting(s, p) == [Clear(s, p, {"WAITING"}) EXCEPT !.m[p].wpid = ANY]

wait_test(s, p, child) ==
    Has(s, p, {"WAITING"}) /\ s.m[p].wpid \in {ANY, child}

cleanup(s, p) == [s EXCEPT !.m[p] = NoProc, !.n = @ - 1]

tell_parent(s, child) ==
    IF ~Has(s, child, {"ZOMBIE"}) \/ Has(s, child, {"TOLD_PARENT"}) THEN Panic(s)
    ELSE LET s1 == StopWaiting(setreply(s, s.m[child].parent), s.m[child].parent)
         IN  Set(Clear(s1, child, {"ZOMBIE"}), child, {"TOLD_PARENT"})

tell_tracer(s, child) ==
    IF ~Has(s, child, {"TRACE_ZOMBIE"}) THEN Panic(s)
    ELSE LET s1 == StopWaiting(setreply(s, s.m[child].tracer), s.m[child].tracer)
         IN  Set(Clear(s1, child, {"TRACE_ZOMBIE"}), child, {"ZOMBIE"})

(* sys_trace(T_STOP), and the tracer that waits for the process is told. *)
stop_proc(s, p, g) ==
    LET t == s.m[p].tracer  s1 == Set(s, p, {"STOPPED"})
    IN  IF wait_test(s, t, p)
        THEN StopWaiting(setreply([s1 EXCEPT !.m[p].sigtrace = @ \ {g}], t), t)
        ELSE s1

-----------------------------------------------------------------------------
(* Signals. *)

Hanging == {"PAUSED", "WAITING", "SIGSUSPENDED"}

unpause(s, p) ==
    IF Has(s, p, {"DELAY_CALL"}) THEN s
    ELSE IF Has(s, p, Hanging) THEN Set(sys_stop(s, p), p, {"UNPAUSED"})
    ELSE IF Has(s, p, {"PM_SIG_PENDING"}) THEN tell_fs(s, p, "unpause")
    ELSE IF s.k[p].call = "sending"
         THEN Set([s EXCEPT !.k[p].sigdelay = TRUE], p, {"DELAY_CALL"})
    ELSE tell_fs(Set(sys_stop(s, p), p, {"PM_SIG_PENDING"}), p, "unpause")

(* The call that is interrupted stays recorded. *)
sig_send_F(s, p, g) ==
    LET Masked(w) == [w EXCEPT !.m[p].sigmask = @ \cup {g}, !.m[p].sigpending = @ \ {g}]
        Interrupted(w) == IF Has(w, p, Hanging) THEN setreply(w, p) ELSE w
        Resumed(w) == IF Has(w, p, {"PM_SIG_PENDING"}) THEN w
                      ELSE sys_resume(Clear(w, p, {"UNPAUSED"}), p)
    IN  IF p \in NoStack THEN Masked(s) ELSE Resumed(Interrupted(Masked(s)))

(* The frame is set up, when there is room for it.  The handler's sa_mask,  *)
(* SA_NODEFER and SA_RESETHAND are left out: the signal itself is blocked   *)
(* while it is handled, and its action stays as it was.                     *)
sig_send(s, p, g) ==
    LET Masked(w) == [w EXCEPT !.m[p].sigmask = @ \cup {g}, !.m[p].sigpending = @ \ {g}]
        Interrupted(w) == IF Has(w, p, Hanging)
                          THEN setreply(Clear(StopWaiting(w, p), p, Hanging), p) ELSE w
        Resumed(w) == IF Has(w, p, {"PM_SIG_PENDING"}) THEN w
                      ELSE sys_resume(Clear(w, p, {"UNPAUSED"}), p)
        Framed(w) == IF p \in NoStack THEN w ELSE Resumed(Interrupted(w))
    IN  Framed(Masked(IF Has(s, p, {"UNPAUSED"}) THEN s ELSE Panic(s)))

RECURSIVE exit_proc(_, _, _), sig_proc(_, _, _, _)

check_parent(s, child, try_cleanup) ==
    LET p == s.m[child].parent
    IN  IF p = PM THEN s  \* PM ignores all signals
        ELSE IF Has(s, p, {"EXITING"}) THEN s
        ELSE IF wait_test(s, p, child)
        THEN LET Freed(w) == IF try_cleanup /\ ~Has(w, child, {"FS_CALL"})
                             THEN cleanup(w, child) ELSE w
             IN  Freed(tell_parent(s, child))
        ELSE sig_proc(s, p, "CHLD", TRUE)

zombify(s, p) ==
    LET t == s.m[p].tracer
        traced == t \notin {NO_TRACER, s.m[p].parent}
        s1 == Set(s, p, {IF traced THEN "TRACE_ZOMBIE" ELSE "ZOMBIE"})
    IN  IF Has(s, p, {"ZOMBIE", "TRACE_ZOMBIE"}) THEN Panic(s)
        ELSE IF traced /\ ~wait_test(s, t, p) THEN s1
        ELSE check_parent(IF traced THEN tell_tracer(s1, p) ELSE s1, p, FALSE)

tracer_died(s, child) ==
    LET s1 == Clear([s EXCEPT !.m[child].tracer = NO_TRACER], child, {"TRACE_EXIT"})
    IN  IF ~Has(s, child, {"EXITING"}) THEN sig_proc(s1, child, "KILL", TRUE)
        ELSE IF Has(s, child, {"TRACE_ZOMBIE"})
        THEN check_parent(Set(Clear(s1, child, {"TRACE_ZOMBIE"}), child, {"ZOMBIE"}), child, TRUE)
        ELSE s1

(* The children keep the parent that is gone. *)
Disinherit_F(s, p) ==
    LET Step(w, q) == IF Has(w, q, {"IN_USE"}) /\ w.m[q].tracer = p THEN tracer_died(w, q) ELSE w
    IN  FoldLeft(Step, s, SlotSeq)

(* A child q of p gets INIT as its parent. *)
Adopt(s, q, p) ==
    LET s1 == [s EXCEPT !.m[q].parent = INIT]
    IN  IF s.m[q].parent # p THEN s
        ELSE IF Has(s1, q, {"ZOMBIE"}) THEN check_parent(s1, q, TRUE) ELSE s1

Disinherit(s, p) ==
    LET Step(w, q) == IF ~Has(w, q, {"IN_USE"}) THEN w
                      ELSE Adopt(IF w.m[q].tracer = p THEN tracer_died(w, q) ELSE w, q, p)
    IN  FoldLeft(Step, s, SlotSeq)

exit_proc(s, p, dump_core) ==
    LET core == dump_core /\ ~Has(s, p, {"PRIV_PROC"})
        Destroyed(w) == IF Has(w, p, {"PRIV_PROC"}) THEN sys_exit(w, p) ELSE w
        Marked(w) == [w EXCEPT !.m[p].wpid = ANY, !.m[p].flags =
                         (@ \cap {"IN_USE", "FS_CALL", "PRIV_PROC", "TRACE_EXIT"}) \cup {"EXITING"}]
        Ended(w) == IF core THEN w ELSE zombify(w, p)
    IN  Disinherit(Ended(Marked(Destroyed(
            tell_fs(sys_stop(s, p), p, IF core THEN "core" ELSE "exit")))), p)

sig_proc(s, p, g, trace) ==
    IF ~Alive(s, p) THEN Panic(s)
    ELSE IF trace /\ s.m[p].tracer # NO_TRACER /\ g # "KILL"
    THEN LET s1 == [s EXCEPT !.m[p].sigtrace = @ \cup {g}]
         IN  IF Has(s, p, {"STOPPED"}) THEN s1 ELSE stop_proc(s1, p, g)
    ELSE IF Has(s, p, {"FS_CALL"})
    THEN LET s1 == Pend(s, p, g)
         IN  IF Has(s, p, {"PM_SIG_PENDING"}) THEN s1
             ELSE Set(sys_stop(s1, p), p, {"PM_SIG_PENDING"})
    ELSE IF s.m[p].act[g] = "ign" THEN s
    ELSE IF g \in s.m[p].sigmask THEN Pend(s, p, g)
    ELSE IF Has(s, p, {"STOPPED"}) /\ g # "KILL" THEN Pend(s, p, g)
    ELSE IF s.m[p].act[g] # "catch" /\ g = "CHLD" THEN s  \* ignored by default
    ELSE LET caught == s.m[p].act[g] = "catch"
             Terminated(w) == IF caught /\ p \notin NoStack THEN w
                              ELSE exit_proc(w, p, g \in CoreSigs)
             Delivered(w) == IF caught /\ ~Has(w, p, {"UNPAUSED"}) THEN Pend(w, p, g)
                             ELSE Terminated(IF caught THEN sig_send(w, p, g) ELSE w)
         IN  Delivered(IF caught /\ ~Has(s, p, {"UNPAUSED"}) THEN unpause(s, p) ELSE s)

(* The signals are tried in turn, until one makes PM wait for FS. *)
check_pending(s, p) ==
    LET Tried(w) == [s |-> w, done |-> Has(w, p, {"FS_CALL"})]
        Step(w, g) ==
            IF w.done \/ g \notin w.s.m[p].sigpending \ w.s.m[p].sigmask THEN w
            ELSE Tried(sig_proc([w.s EXCEPT !.m[p].sigpending = @ \ {g}], p, g, FALSE))
    IN  FoldLeft(Step, [s |-> s, done |-> FALSE], Signals).s

(* Signal g for the processes of T. *)
check_sig(s, T, g) ==
    LET Step(w, q) == IF q \in T /\ Alive(w, q) THEN sig_proc(w, q, g, TRUE) ELSE w
    IN  FoldLeft(Step, s, SlotSeq)

(* The process stays stopped. *)
RestartStops_F(s, p) ==
    LET Resume(w) == IF Has(w, p, {"FS_CALL"}) THEN w
                     ELSE Clear(w, p, {"PM_SIG_PENDING", "UNPAUSED"})
    IN  IF Has(s, p, {"FS_CALL", "EXITING"}) THEN s
        ELSE IF Has(s, p, {"TRACE_EXIT"}) THEN exit_proc(s, p, FALSE)
        ELSE IF Has(s, p, {"PM_SIG_PENDING"}) THEN Resume(check_pending(s, p)) ELSE s

restart_sigs(s, p) ==
    LET Resume(w) == IF Has(w, p, {"FS_CALL"}) THEN w
                     ELSE sys_resume(Clear(w, p, {"PM_SIG_PENDING", "UNPAUSED"}), p)
    IN  IF Has(s, p, {"FS_CALL", "EXITING"}) THEN s
        ELSE IF Has(s, p, {"TRACE_EXIT"}) THEN exit_proc(s, p, FALSE)
        ELSE IF Has(s, p, {"PM_SIG_PENDING"}) THEN Resume(check_pending(s, p)) ELSE s

-----------------------------------------------------------------------------
(* Calls. A handler returns <<world, whether the caller is replied to>>.    *)

Reply(s) == <<s, TRUE>>
SUSPEND(s) == <<s, FALSE>>

(* The child is put into slot c by VM and the kernel, where it waits like   *)
(* its parent; PM copies the parent's slot.                                 *)
MakeChild(s, p, c) ==
    [s EXCEPT !.n = @ + 1,
              !.k[c] = [NoKProc EXCEPT !.call = "wait"],
              !.m[c] = [s.m[p] EXCEPT !.flags = @ \cap {"IN_USE", "PRIV_PROC", "DELAY_CALL"},
                                      !.parent = p, !.tracer = NO_TRACER, !.sigtrace = {}]]

(* No slot: EAGAIN. The slot that do_fork finds is any free one. *)
do_fork(s, p, c) == SUSPEND(tell_fs(MakeChild(s, p, c), c, "fork"))

do_fork_nb(s, p, c) ==
    Reply(setreply(tell_fs(MakeChild(s, p, c), c, "fork_nb"), c))

do_exit(s, p) == SUSPEND(exit_proc(s, p, FALSE))

(* The children that qualify, and those that have something to tell. *)
Waitable(s, p, arg) ==
    {q \in Slot : /\ Has(s, q, {"IN_USE"}) /\ ~Has(s, q, {"TOLD_PARENT"})
                  /\ p \in {s.m[q].parent, s.m[q].tracer}
                  /\ s.m[q].parent = p \/ ~Has(s, q, {"ZOMBIE"})
                  /\ arg \in {ANY, q}}

Telling(s, p, arg) ==
    {q \in Waitable(s, p, arg) :
        \/ s.m[q].tracer = p /\ (\/ Has(s, q, {"TRACE_ZOMBIE"})
                                 \/ (Has(s, q, {"STOPPED"}) /\ s.m[q].sigtrace # {}))
        \/ s.m[q].parent = p /\ Has(s, q, {"ZOMBIE"})}

FirstSig(S) == Signals[CHOOSE i \in DOMAIN Signals :
                          Signals[i] \in S /\ \A j \in DOMAIN Signals : Signals[j] \in S => i <= j]

(* The child is cleaned up although FS still deals with its exit. *)
Collect_F(s, p, q) ==
    IF s.m[q].tracer = p /\ Has(s, q, {"TRACE_ZOMBIE"})
    THEN SUSPEND(check_parent(tell_tracer(s, q), q, TRUE))
    ELSE IF s.m[q].tracer = p /\ Has(s, q, {"STOPPED"}) /\ s.m[q].sigtrace # {}
    THEN Reply([s EXCEPT !.m[q].sigtrace = @ \ {FirstSig(@)}])
    ELSE SUSPEND(cleanup(tell_parent(s, q), q))

(* What the wait call does with the child q that it has found. *)
Collect(s, p, q) ==
    IF s.m[q].tracer = p /\ Has(s, q, {"TRACE_ZOMBIE"})
    THEN SUSPEND(check_parent(tell_tracer(s, q), q, TRUE))
    ELSE IF s.m[q].tracer = p /\ Has(s, q, {"STOPPED"}) /\ s.m[q].sigtrace # {}
    THEN Reply([s EXCEPT !.m[q].sigtrace = @ \ {FirstSig(@)}])
    ELSE LET s1 == tell_parent(s, q)
         IN  SUSPEND(IF Has(s1, q, {"FS_CALL"}) THEN s1 ELSE cleanup(s1, q))

do_waitpid(s, p, arg, nohang) ==
    IF Telling(s, p, arg) # {} THEN Collect(s, p, Min(Telling(s, p, arg)))
    ELSE IF Waitable(s, p, arg) = {} \/ nohang THEN Reply(s)
    ELSE SUSPEND(Set([s EXCEPT !.m[p].wpid = arg], p, {"WAITING"}))

do_pause(s, p) == SUSPEND(Set(s, p, {"PAUSED"}))

do_sigsuspend(s, p, mask) ==
    SUSPEND(check_pending(Set([s EXCEPT !.m[p].sigmask = mask \ {"KILL", "STOP"}],
                              p, {"SIGSUSPENDED"}), p))

(* SIG_SETMASK and SIG_UNBLOCK; SIG_BLOCK leads to the same masks. Also     *)
(* do_sigreturn, which takes the mask from the signal frame.                *)
do_sigprocmask(s, p, mask) ==
    Reply(check_pending([s EXCEPT !.m[p].sigmask = mask \ {"KILL", "STOP"}], p))

do_sigaction(s, p, g, d) ==
    Reply([s EXCEPT !.m[p].act[g] = d,
                    !.m[p].sigpending = IF d = "ign" THEN @ \ {g} ELSE @])

(* A process that has killed itself gets no reply. *)
do_kill(s, p, T, g) ==
    LET Done(w) == IF Alive(w, p) THEN Reply(w) ELSE SUSPEND(w) IN Done(check_sig(s, T, g))

(* exec(), and setuid(), setsid() and the like, are passed on to FS. *)
do_exec(s, p) == SUSPEND(tell_fs(s, p, "exec"))
do_getset(s, p) == SUSPEND(tell_fs(s, p, "setuid"))

(* ptrace() *)
T_OK(s, p) ==
    Reply(IF s.m[p].tracer = NO_TRACER THEN [s EXCEPT !.m[p].tracer = s.m[p].parent] ELSE s)

T_ATTACH(s, p, c) ==
    IF ~Alive(s, c) \/ c = p \/ s.m[c].tracer # NO_TRACER THEN Reply(s)
    ELSE Reply(sig_proc([s EXCEPT !.m[c].tracer = p], c, "STOP", TRUE))

Traced(s, p, c) == Alive(s, c) /\ s.m[c].tracer = p /\ Has(s, c, {"STOPPED"})

T_EXIT(s, p, c) ==
    LET s1 == Set(s, c, {"TRACE_EXIT"})
    IN  SUSPEND(IF Has(s, c, {"FS_CALL"}) THEN s1 ELSE exit_proc(s1, c, FALSE))

(* data is a set with the signal to issue, or an empty one. *)
Issue(s, c, data, trace) ==
    IF data = {} THEN s ELSE sig_proc(s, c, CHOOSE g \in data : TRUE, trace)

T_DETACH(s, p, c, data) ==
    LET Step(w, g) == IF g \notin w.m[c].sigtrace THEN w
                      ELSE check_sig([w EXCEPT !.m[c].sigtrace = @ \ {g}], {c}, g)
        s1 == FoldLeft(Step, [s EXCEPT !.m[c].tracer = NO_TRACER], Signals)
    IN  Reply(check_pending(Clear(Issue(s1, c, data, TRUE), c, {"STOPPED"}), c))

T_RESUME(s, p, c, data) ==
    LET Go(w) == IF w.m[c].sigtrace # {} THEN w ELSE check_pending(Clear(w, c, {"STOPPED"}), c)
    IN  Reply(Go(Issue(s, c, data, FALSE)))

-----------------------------------------------------------------------------
(* The main loop: a handler's outcome, and the replies at the end. A reply  *)
(* to a process that is not waiting for one is not delivered (sendnb).      *)

SendReplies(s) ==
    LET To == {p \in Slot : Alive(s, p) /\ Has(s, p, {"REPLY"})}
    IN  [s EXCEPT !.m = [p \in Slot |-> IF p \in To THEN [s.m[p] EXCEPT !.flags = @ \ {"REPLY"}]
                                                    ELSE s.m[p]],
                  !.k = [p \in Slot |-> IF p \in To /\ s.k[p].call = "wait"
                                        THEN [s.k[p] EXCEPT !.call = "run"] ELSE s.k[p]],
                  !.y = @ \cup {p \in To : s.k[p].call # "wait"}]

Become(s) ==
    LET r == IF s.x THEN s ELSE SendReplies(s)
    IN  /\ mproc' = r.m /\ kproc' = r.k /\ fsreq' = r.f
        /\ procs_in_use' = r.n /\ panic' = r.x /\ stray' = r.y

(* PM panics once. Notifications are received before messages: SIGNDELAY    *)
(* is dealt with before the next call.                                      *)
Idle == ~panic /\ \A p \in Slot : ~kproc[p].ndelay

(* p calls PM, or PM receives p's call; the kernel then reports the end of  *)
(* the delay, if p was not stopped because of it.                           *)
Received(p) ==
    [World EXCEPT !.k[p].call = "wait", !.k[p].sigdelay = FALSE,
                  !.k[p].ndelay = kproc[p].sigdelay]

CanRun(p) ==
    kproc[p].call = "run" /\ ~kproc[p].stop /\ ~kproc[p].ndelay /\ "STOPPED" \notin mproc[p].flags

Sending(p) ==
    /\ Queueing /\ ~panic /\ CanRun(p)
    /\ kproc' = [kproc EXCEPT ![p].call = "sending"]
    /\ UNCHANGED <<mproc, fsreq, procs_in_use, panic, stray>>

(* The main loop: r is what the handler makes of p's call, with TRUE where  *)
(* there is a reply.                                                        *)
Handle(p, name, r) ==
    /\ name \in Calls /\ Idle /\ Alive(World, p)
    /\ IF Queueing THEN kproc[p].call = "sending" ELSE CanRun(p)
    /\ Become(IF r[2] THEN setreply(r[1], p) ELSE r[1])

Free == {c \in NewSlots : "IN_USE" \notin mproc[c].flags}
User == Slot \ {INIT}

Fork(p) ==
    /\ p = INIT => "init_fork" \in Calls
    /\ \/ \E c \in Free : Handle(p, "fork", do_fork(Received(p), p, c))
       \/ Free = {} /\ Handle(p, "fork", Reply(Received(p)))

ForkNb(p) ==
    /\ "PRIV_PROC" \in mproc[p].flags
    /\ \E c \in Free : Handle(p, "fork_nb", do_fork_nb(Received(p), p, c))

Exit(p) == p # INIT /\ Handle(p, "exit", do_exit(Received(p), p))

Wait(p) ==
    \E arg \in {ANY} \cup (Slot \ {p}), nohang \in BOOLEAN :
        /\ arg # ANY => "waitpid" \in Calls /\ p # INIT
        /\ nohang => "nohang" \in Calls /\ p # INIT
        /\ Handle(p, "wait", do_waitpid(Received(p), p, arg, nohang))

Pause(p) == p # INIT /\ Handle(p, "pause", do_pause(Received(p), p))

SetMask(p) ==
    \E mask \in SUBSET Sent : p # INIT /\
        \/ Handle(p, "mask", do_sigprocmask(Received(p), p, mask))
        \/ Handle(p, "sigsuspend", do_sigsuspend(Received(p), p, mask))

Sigaction(p) ==
    \E g \in Sent \ {"KILL", "STOP"}, d \in Dispositions : p # INIT /\
        Handle(p, "sigaction", do_sigaction(Received(p), p, g, d))

(* One process, or all those of a process group. *)
Kill(p) ==
    \E T \in {{q} : q \in User} \cup {User}, g \in Sent \ {"CHLD", "STOP"} :
        /\ T = User => "group" \in Calls
        /\ Handle(p, "kill", do_kill(Received(p), p, T, g))

ExecOrSet(p) ==
    p # INIT /\ (\/ Handle(p, "exec", do_exec(Received(p), p))
                 \/ Handle(p, "setuid", do_getset(Received(p), p)))

Trace(p) ==
    p # INIT /\
    \/ Handle(p, "trace_ok", T_OK(Received(p), p))
    \/ \E c \in User : Handle(p, "attach", T_ATTACH(Received(p), p, c))
    \/ \E c \in User : Traced(World, p, c) /\
        \/ Handle(p, "trace_exit", T_EXIT(Received(p), p, c))
        \/ \E data \in {{}} \cup IF "issue" \in Calls THEN {{g} : g \in Sent} ELSE {} :
             \/ Handle(p, "detach", T_DETACH(Received(p), p, c, data))
             \/ Handle(p, "resume", T_RESUME(Received(p), p, c, data))

(* The call of a process that is exiting is dropped. *)
DropCall(p) ==
    /\ Idle /\ kproc[p].call = "sending" /\ "EXITING" \in mproc[p].flags
    /\ Become(Received(p))

-----------------------------------------------------------------------------
(* ksig_pending() and handle_ksig(), for SIGNDELAY. *)

(* The signal that was delayed is not taken up again. *)
handle_ksig_F(s, p) ==
    IF ~Alive(s, p) \/ ~Has(s, p, {"DELAY_CALL"}) THEN s
    ELSE LET s1 == Clear(s, p, {"DELAY_CALL"})
         IN  IF Has(s1, p, {"FS_CALL", "PM_SIG_PENDING"}) THEN Panic(s1) ELSE s1

handle_ksig(s, p) ==
    IF ~Alive(s, p) \/ ~Has(s, p, {"DELAY_CALL"}) THEN s
    ELSE LET s1 == Clear(s, p, {"DELAY_CALL"})
             Done(w) == IF Has(w, p, {"DELAY_CALL"}) THEN Panic(w) ELSE w
         IN  IF Has(s1, p, {"FS_CALL", "PM_SIG_PENDING"}) THEN Panic(s1)
             ELSE Done(check_pending(s1, p))

ksig_pending(p) ==
    /\ ~panic /\ kproc[p].ndelay
    /\ Become(handle_ksig([World EXCEPT !.k[p].ndelay = FALSE], p))

-----------------------------------------------------------------------------
(* handle_fs_reply() *)

(* The slot is not given free when the parent was told first. *)
RestartKeepsSlot_F(s, p, core) ==
    LET Destroyed(w) == IF Has(w, p, {"PRIV_PROC"}) THEN w ELSE sys_exit(w, p)
        Told(w) == IF Has(w, p, {"TRACE_EXIT"}) THEN setreply(w, w.m[p].tracer) ELSE w
    IN  Told(Destroyed(IF core THEN zombify(s, p) ELSE s))

exit_restart(s, p, core) ==
    LET Destroyed(w) == IF Has(w, p, {"PRIV_PROC"}) THEN w ELSE sys_exit(w, p)
        Told(w) == IF Has(w, p, {"TRACE_EXIT"}) THEN setreply(w, w.m[p].tracer) ELSE w
        Freed(w) == IF Has(w, p, {"TOLD_PARENT"}) THEN cleanup(w, p) ELSE w
    IN  Freed(Told(Destroyed(IF core THEN zombify(s, p) ELSE s)))

(* sys_exec() makes the process run its new image. *)
exec_restart(s, p, ok) ==
    IF ok
    THEN LET s1 == [Clear(s, p, {"PARTIAL_EXEC"}) EXCEPT
                       !.m[p].act = [g \in Sig |-> IF @[g] = "catch" THEN "dfl" ELSE @[g]]]
             s2 == IF s1.m[p].tracer = NO_TRACER THEN s1 ELSE sig_proc(s1, p, "STOP", TRUE)
         IN  [s2 EXCEPT !.k[p].call = "run"]
    ELSE IF Has(s, p, {"PARTIAL_EXEC"}) THEN exit_proc(s, p, FALSE)
    ELSE setreply(s, p)

handle_fs_reply(s, p, req, ok) ==
    LET s0 == IF Has(s, p, {"FS_CALL"}) /\ ~Has(s, p, {"UNPAUSED"}) THEN s ELSE Panic(s)
        s1 == Clear(s0, p, {"FS_CALL"})
        Restart(w) == IF Alive(w, p) THEN restart_sigs(w, p) ELSE w
    IN  Restart(CASE req \in {"exit", "core"} -> exit_restart(s1, p, req = "core")
                  [] req = "fork"    -> setreply(setreply(s1, p), s1.m[p].parent)
                  [] req = "fork_nb" -> s1
                  [] req = "unpause" -> Set(s1, p, {"UNPAUSED"})
                  [] req = "setuid"  -> setreply(s1, p)
                  [] req = "exec"    -> exec_restart(s1, p, ok))

(* FS deals with the requests in some order. Only an exec can fail. *)
FsReply(p, ok) ==
    /\ Idle /\ fsreq[p] # "none"
    /\ ok \/ fsreq[p] = "exec"
    /\ Become(handle_fs_reply([World EXCEPT !.f[p] = "none"], p, fsreq[p], ok))

(* FS has PM make the memory for the new image. *)
exec_newmem(p) ==
    /\ Idle /\ fsreq[p] = "exec"
    /\ Become(Set(World, p, {"PARTIAL_EXEC"}))

-----------------------------------------------------------------------------
Init ==
    /\ mproc = [p \in Slot |->
                  IF p \notin Boot THEN NoProc
                  ELSE [NoProc EXCEPT
                          !.flags = {"IN_USE"} \cup IF p \in Priv THEN {"PRIV_PROC"} ELSE {},
                          !.parent = IF p \in Priv \cup {INIT} THEN PM ELSE INIT]]
    /\ kproc = [p \in Slot |-> IF p \in Boot THEN [NoKProc EXCEPT !.call = "run"] ELSE NoKProc]
    /\ fsreq = [p \in Slot |-> "none"]
    /\ procs_in_use = Cardinality(Boot) /\ panic = FALSE /\ stray = {}

(* Processes come, go and wait for each other; they deal with signals; the  *)
(* kernel and FS do their part.                                             *)
Family(p) == Fork(p) \/ ForkNb(p) \/ Exit(p) \/ Wait(p) \/ Kill(p)
Signalling(p) == Pause(p) \/ SetMask(p) \/ Sigaction(p)
Kernel(p) == Sending(p) \/ DropCall(p) \/ ksig_pending(p)
Files(p) == ExecOrSet(p) \/ exec_newmem(p) \/ \E ok \in BOOLEAN : FsReply(p, ok)

Next == \E p \in Slot :
    Family(p) \/ Signalling(p) \/ Trace(p) \/ Kernel(p) \/ Files(p)

Spec == Init /\ [][Next]_vars

(* FS answers, PM runs, and INIT goes on waiting for its children: weak     *)
(* fairness of these actions, with what enables them written out.           *)
Fairness ==
    /\ []<>~(Idle /\ CanRun(INIT)) \/ []<><<Wait(INIT)>>_vars
    /\ \A p \in Slot : []<>~(Idle /\ fsreq[p] # "none") \/ []<><<FsReply(p, TRUE)>>_vars

FairSpec == Spec /\ Fairness

-----------------------------------------------------------------------------
Flag == {"IN_USE", "WAITING", "ZOMBIE", "PAUSED", "EXITING", "TOLD_PARENT", "STOPPED",
         "SIGSUSPENDED", "REPLY", "FS_CALL", "PM_SIG_PENDING", "UNPAUSED", "PRIV_PROC",
         "PARTIAL_EXEC", "TRACE_EXIT", "TRACE_ZOMBIE", "DELAY_CALL"}

TypeOK ==
    /\ mproc \in [Slot -> [flags : SUBSET Flag, parent : Slot \cup {PM}, tracer : Slot \cup {NO_TRACER},
                           sigpending : SUBSET Sig, sigmask : SUBSET (Sig \ {"KILL"}),
                           sigtrace : SUBSET Sig, act : [Sig -> {"dfl", "ign", "catch"}],
                           wpid : Slot \cup {ANY}]]
    /\ kproc \in [Slot -> [call : {"run", "sending", "wait", "dead"}, stop : BOOLEAN,
                           sigdelay : BOOLEAN, ndelay : BOOLEAN]]
    /\ fsreq \in [Slot -> {"none", "exit", "core", "fork", "fork_nb", "unpause", "exec", "setuid"}]
    /\ panic \in BOOLEAN /\ stray \subseteq Slot

(* A delayed call of p has gone on to FS when the end of its delay is dealt *)
(* with.                                                                    *)
DelayedCallAtFS(p) == kproc[p].ndelay /\ {"DELAY_CALL", "FS_CALL"} \subseteq mproc[p].flags

(* p, stopped for its tracer and with signals pending, is killed.           *)
KilledByTracer(p) ==
    /\ "STOPPED" \in mproc[p].flags /\ mproc[p].sigpending \cup mproc[p].sigtrace # {}
    /\ "EXITING" \in mproc'[p].flags

(* p, which do_fork_nb has woken, makes a call before FS knows of it.       *)
CallsTooEarly(p) == fsreq[p] = "fork_nb" /\ kproc[p].call = "run" /\ kproc'[p].call # "run"

(* PM panics in three cases only: handle_ksig() finds that a delayed call   *)
(* is at FS ("bad process state"); a tracer resumes its child with SIGKILL, *)
(* and check_pending() then signals the child that is exiting; a child of   *)
(* do_fork_nb() has PM tell FS of it a second time.  Otherwise no process   *)
(* becomes a zombie twice, no parent is told twice, no second request goes  *)
(* to FS before the answer to the first, no signal goes to a process that   *)
(* is exiting, and no kernel call to one that the kernel has destroyed.     *)
NoPanic == [][panic' => \E p \in Slot :
                 DelayedCallAtFS(p) \/ KilledByTracer(p) \/ CallsTooEarly(p)]_vars

(* The table and the kernel agree. A slot is counted, and has a parent, and *)
(* a tracer if any, that is in use and not exiting; an exiting process      *)
(* exists for the kernel as long as FS is busy with it.                     *)
FamilySound ==
    LET InUse == {p \in Slot : "IN_USE" \in mproc[p].flags}
        Live(p) == Alive(World, p)
    IN  panic \/
        /\ procs_in_use = Cardinality(InUse)
        /\ \A p \in InUse : /\ mproc[p].parent # PM => Live(mproc[p].parent)
                            /\ mproc[p].tracer # NO_TRACER => Live(mproc[p].tracer)
        /\ \A p \in Slot : fsreq[p] # "none" <=> "FS_CALL" \in mproc[p].flags
        /\ \A p \in Slot : Live(p) => kproc[p].call # "dead"

(* A process is stopped only while FS deals with a request for it, after    *)
(* which it is resumed: nobody is left stopped for good.                    *)
StoppedForAReason ==
    \A p \in Slot : Alive(World, p) /\ ~panic =>
        /\ kproc[p].stop => fsreq[p] # "none"
        /\ "UNPAUSED" \notin mproc[p].flags

(* PM waits for the end of a delay of which the kernel will not tell it.    *)
Stuck(p) == Alive(World, p) /\ "DELAY_CALL" \in mproc[p].flags
            /\ ~kproc[p].sigdelay /\ ~kproc[p].ndelay

(* The signals that are pending for p and not blocked are going to be       *)
(* delivered: p is stopped for its tracer, or PM waits for FS or for the    *)
(* end of a delay.                                                          *)
Carried(p) ==
    Alive(World, p) /\ mproc[p].sigpending \ mproc[p].sigmask # {} =>
        \/ "STOPPED" \in mproc[p].flags
        \/ {"FS_CALL", "PM_SIG_PENDING"} \subseteq mproc[p].flags
        \/ "DELAY_CALL" \in mproc[p].flags /\ (kproc[p].sigdelay \/ kproc[p].ndelay)

(* No signal that is pending and not blocked is forgotten, unless PM waits  *)
(* for the end of a delay that is over; which it does only for the child of *)
(* a fork() that was delayed itself, as do_fork() lets it inherit           *)
(* DELAY_CALL.                                                              *)
PendingCarried == [][~panic' => \A p \in Slot :
    /\ Carried(p)' \/ Stuck(p)'
    /\ Stuck(p)' => \/ Stuck(p)
                    \/ /\ "IN_USE" \notin mproc[p].flags
                       /\ "DELAY_CALL" \in mproc[mproc'[p].parent].flags]_vars

(* PM replies to processes that wait for a reply, and to them once.  (INIT *)
(* is the exception: when the caller of fork() is killed before FS answers, *)
(* handle_fs_reply() replies to the child's parent of then, which is INIT.) *)
RepliesAwaited == stray \subseteq {INIT}

(* Every process that has exited and whose parent is INIT goes away: its    *)
(* slot is given free when both INIT and FS have been told, in either       *)
(* order.  As waitpid() takes the lowest slot, this needs that children in  *)
(* lower slots do not keep exiting.                                         *)
SlotFreed ==
    \A p \in Slot :
        \/ []<>(\E q \in Slot : q < p /\ "EXITING" \in mproc[q].flags)
        \/ ("EXITING" \in mproc[p].flags /\ mproc[p].parent = INIT)
              ~> ("EXITING" \notin mproc[p].flags)
=============================================================================
