# A TLA+ development of MINIX 3 and of the course's thread programs

The repository holds study material on operating systems: notes and small
programs per chapter, and the complete source of MINIX 3 under `Minix3/`. The
parts with concurrency and protocols of their own are modelled here:

* the microkernel: message passing, signals, process lifetimes, the scheduler,
  interrupt hooks, timers;
* what the library and the servers build directly on it: asynchronous sending,
  the process manager, and the part of the file server that suspends processes
  and revives them;
* the thread programs of chapter 2.

The models are checked with TLC on small instances. The safety properties of all
modules but the process manager's are also proved with TLAPS, for any number of
processes, drivers, timers, open files or threads, and so are both refinements.

Paths below are relative to `src/Minix3/` unless they say otherwise; the thread
programs are in `src/Chapter/Chapter2/Codes/`.

## Inventory

| Component | State | Operations | Interacts with | Hard behaviour |
|---|---|---|---|---|
| Message passing, `kernel/proc.c` | per process `p_rts_flags`, `p_misc_flags`, `p_getfrom_e`, `p_sendto_e`, `p_caller_q`/`p_q_link`, `p_delivermsg`; per privilege structure `s_notify_pending`, `s_asyntab`, `s_asynsize` | SEND, RECEIVE, SENDREC, NOTIFY, SENDNB, SENDA, `deadlock`, `try_async`, `try_one` | everything | a rendezvous that is noticed from two sides; three sources of messages scanned in order; chains of blocked processes; stale endpoints |
| Signals and lifecycle, `kernel/system.c`, `kernel/system/do_{exit,fork,kill,getksig,endksig,runctl,privctl}.c` | `p_pending`, `s_sig_pending`, SIGNALED, SIG_PENDING, PROC_STOP, MF_SIG_DELAY, generations of slots | `cause_sig`, `send_sig`, `sig_delay_done`, `clear_endpoint`, the kernel calls | notifies PM; rewrites flags and queues of message passing | a process dies while others wait for it or while it waits itself; one notification for many signals; copies of a process structure |
| Delivery and exceptions, `kernel/arch/i386/{memory,exception}.c` | MF_DELIVERMSG | `delivermsg`, `exception` | runs when a process is scheduled | a message that arrives before the last one was copied out |
| Scheduler, `kernel/proc.c`, `proc.h`, `clock.c` | `rdy_head`/`rdy_tail`, `next_ptr`, `p_priority`, `p_ticks_left`, `prev_ptr`, `bill_ptr` | `enqueue`, `dequeue`, `sched`, `pick_proc`, `balance_queues`, `clock_handler`, `do_clocktick`, `vtimer_check` | called by every RTS_SET and RTS_UNSET | queue membership against flags; the clock task interrupted by ticks; starvation |
| Interrupt hooks, `kernel/interrupt.c`, `kernel/system/do_irqctl.c` | `irq_handlers`, `irq_actids`, `irq_hooks`, `s_int_pending` | `put_irq_handler`, `rm_irq_handler`, `irq_handle`, `enable_irq`, `disable_irq` | notifies drivers as HARDWARE | masks shared by handlers; removal while interrupts come |
| Clock and timers, `kernel/clock.c`, `do_setalarm.c`, `lib/timers`, `servers/pm/{timers,alarm}.c`, `lib/sysutil/tickdelay.c` | `clock_timers`, `next_timeout`; PM's `pm_timers`, ALARM_ON | `set_timer`, `reset_timer`, `tmrs_exptimers`, `pm_set_timer`, `pm_cancel_timer`, `pm_expire_timers`, `cause_sigalrm`, `tickdelay` | notifies as CLOCK; PM signals users | ticks between the steps of a task; one alarm that stands for many; late expiry |
| Asynchronous sending, `lib/sysutil/asynsend.c` | `msgtable`, `first_slot`, `next_slot` | `asynsend3` | shares its table with the kernel | a table changed by both sides; a full table |
| Process manager, `servers/pm/{main,forkexit,signal,trace,exec}.c` | `mproc`: flags, parent, tracer, signal sets | fork, exit, wait, kill, sigaction and the like, ptrace, exec, `handle_ksig`, `handle_fs_reply` | asks the kernel, and FS, which answers later | everything that happens between a request to FS and its answer; stops that are delayed; cascades of deaths |
| File server: suspension, `servers/vfs/{main,pipe,read,open,lock,misc,filedes}.c` | `fproc`, `filp`, `file_lock`, `susp_count`, `reviving` | read, write, pipe, open, close, fcntl, fork, exit, `unpause`, `release`, `revive`, `get_work` | PM's requests; MFS for the data | processes that are woken and find the state changed by those woken before them; partial writes; interrupted calls |
| File server: the rest, MFS | paths, mounts, devices, `select`, cache | their own | drivers | not modelled |
| Grants, copying, tracing, VM control, device I/O | grant tables, page tables, registers | about 30 further kernel calls | servers and drivers | mostly I/O; `verify_grant` is a check worth a module |
| Protection and boot, `kernel/{start,main}.c`, `kernel/arch/` | descriptors, boot image | boot | - | hardware |
| RS, DS, VM, IPC server, drivers, inet, libraries, commands | their own tables | their protocols | the kernel, through the calls modelled here | not modelled |
| Thread programs, `Codes/*.c` | a few shared variables each | `pthread` and `dispatch` programs | none | interleavings, lost updates, wakeups, deadlock |

What makes each of them correct, and where it can go wrong, is the list `hazards`
of `PROJECT.json`; the properties below are aimed at it.

## Modules

| Module | Contents |
|---|---|
| `KernelIPC` | Message passing, signals and lifetimes: constants and their assumptions, state, one action per system call, kernel call and external event, the properties. |
| `KernelIPCInv` | What the kernel leaves to its programs (`DisciplineAssumption`), the inductive invariant `IPCInv` and those of signals, notifications and asynchronous messages. |
| `KernelIPCProofs` | Its proofs: types, queues and flags, the absence of cycles; signals, notifications, causes of waking up; asynchronous messages. |
| `Scheduler` | Ready queues, quanta, the clock task's work on them, virtual timers. |
| `Timers` | The kernel's alarms, PM's alarms on top of one of them, `tickdelay()`. |
| `IrqHooks` | Handlers of interrupt lines and their masks. |
| `AsynSend` | The table of asynchronous messages, shared by library and kernel. |
| `AsyncChannel` | What it promises: a channel per destination. `AsynSend` implements it. |
| `ProcessManager` | The process manager with the kernel and FS as it sees them. |
| `VfsSuspend` | Suspension and revival in the file server. |
| `ProgramParameters` | Constants and assumptions of the thread programs. |
| `Philosophers`, `BoundedBuffer`, `SharedCounter`, `FuelStation` | `dinning.c`; `producer.c`; `race.c`, `mutex.c` and `mutual.c`; `conditionvar2.c`. |
| `BoundedStack` | What the buffer of `producer.c` promises. `BoundedBuffer` implements it. |
| `SchedulerProofs`, `TimersProofs`, `IrqHooksProofs`, `AsynSendProofs`, `VfsSuspendProofs`, `ProgramProofs` | The proofs about the other modules, the last about `MCPrograms`. |
| `QueueLemmas` | Facts about sequences without repetitions, least numbers and sums that the proofs share. |
| `MCKernelIPC`, `MCForkQueue`, `MCScheduler`, `MCTimers`, `MCIrqHooks`, `MCAsynSend`, `MCProcessManager`, `MCVfsSuspend`, `MCPrograms` | The small instances. |

**Workloads.** Most MC modules instantiate their component several times with
different constants (who may fork, who dies, which calls are made) over the same
variables. The variable `workload` is chosen initially and never changes, so a run
is the union of several small instances, each of which brings together the
operations that disturb each other; one instance with everything at once would be
out of reach.

### KernelIPC

#### State

| TLA+ | Code |
|---|---|
| `rts[p]`, `misc[p]` | the set of flags in `p_rts_flags`, `p_misc_flags`; a process is runnable iff `rts[p] = {}` |
| `gen[p]`, `Endpoint(p)` | the generation and `p_endpoint` of slot p |
| `getfrom`, `sendto` | `p_getfrom_e`, `p_sendto_e` |
| `callerq[p]` | the list from `p_caller_q` through `p_q_link`, as a sequence |
| `inmsg[p]` | `p_delivermsg`, meaningful while MF_DELIVERMSG is set: source, kind and, for notifications, the signals or interrupts that `BuildNotifyMessage` puts in |
| `retreg[p]` | the result of a call that changed state or was ended by a death |
| `s_notify_pending[q]`, `s_int_pending[q]`, `s_sig_pending[q]` | the maps of privilege structure q; `USER_PRIV` is the one all user processes share |
| `p_pending` | signals PM has not fetched |
| `asyn[s]`, `asynsize[s]` | the table of `asynsend.c` from `first_slot` on; whether `s_asynsize` is not 0 |
| `ksig`, `ksig_e` | where PM is in `ksig_pending()`: outside it, about to call `sys_getksig`, or between `sys_getksig` and `sys_endksig` of endpoint `ksig_e` |

#### Actions

| Action | Code |
|---|---|
| `Send`, `SendNB`, `SendRec`, `Receive`, `Notify`, `SendA`, `PeerDied` | `sys_call()` with `mini_send`, `mini_receive`, `mini_notify`, `mini_senda`; `PeerDied` is the call to a process whose endpoint is still valid but which has NO_ENDPOINT |
| `DeliverMsg` | `delivermsg()`, done for a process about to run |
| `Interrupt`, `Alarm`, `Exception` | `generic_handler`, `cause_alarm`, `exception` |
| `DoExit`, `DoExitSelf` | `do_exit`, `clear_proc`, `clear_endpoint`: asked for by PM, or a system process's own |
| `DoFork`, `DoPrivctl` | `do_fork`; of `do_privctl` the case SYS_PRIV_USER, with which RS lets the scripts it forks run |
| `DoKill`, `DoStop`, `DoResume` | `do_kill` with `cause_sig` (a SIGKILL clears the endpoint at once), `do_runctl` |
| `DoGetKsig`, `DoEndKsig` | one round of PM's signal loop |

#### Granularity and abstractions

* A trap is one step, because `sys_call()` runs with interrupts disabled. A
  kernel call is one step: the SYSTEM task has the highest priority, is not
  preemptible and is in `receive(ANY)` whenever somebody else runs, so request,
  handler and reply are not interleaved with another process. What such a
  SENDREC leaves behind in the caller, MF_REPLY_PEND, is kept (`KernelCall`).
* Calls that are refused before they change anything (ECALLDENIED, ETRAPDENIED,
  EDEADSRCDST, ELOCKED, ENOTREADY) are the negation of the guard `sys_call` and
  would be stuttering steps.
* Programs are a set of calls a process may issue at any time it runs
  (`Programs`). The endpoints they use range over every generation, so stale
  endpoints are tried too.
* A message is its source and kind; payloads are left out except the signal and
  interrupt sets of notifications. `inmsg` is reset on delivery.
* Privilege structures are static: SYS_PROC slots own one, everybody else
  shares `USER_PRIV`. `get_priv` and SYS_PRIV_INIT, with which RS makes the child of
  `start_service` a system process, are not modelled.
* Left out: faults in message buffers (EFAULT and the suspension on behalf of
  VM), system call tracing (MF_SC_DEFER) and the ready queues. Every runnable
  process may take the next step.

### Scheduler

`rts` holds the flags that stop a process; `rdy[q]` is the list from `rdy_head[q]`
to `rdy_tail[q]`. `proc_ptr`, `next_ptr`, `prev_ptr` and `bill_ptr` are the
pointers of the code. A trap or interrupt is one step that ends in `schedcheck`.
The clock task's `do_clocktick` is several steps (`clk` says where it is): ticks may
come between them, also in the loop of `balance_queues`, which holds the lock for one
process at a time. The system task's `do_nice` and `do_vtimer` are split likewise
(`sysop`). Messages are abstracted to blocking in RECEIVE and being woken. `TickAt`
is the set of points of the clock task at which ticks come. Workload `nice` has all of
them and `life` the start, the wait and the window between `do_clocktick`'s test of
`prev_ptr` and its lock; `compute`, which is about liveness, has ticks while others run
only. `Nice` holds the queues that `do_nice` can choose in an instance, the clock task's
queue 0 among them. `timeout` counts down to the time of `queue_timer`.

### Timers

Times are relative to the uptime, so the state space is finite: a tick takes one off
each. `clock_timers` and `pm_timers` are the sorted lists of `lib/timers`
(`tmrs_settimer`, `tmrs_clrtimer`, `tmrs_exptimers`). `sys` is where the system task is
in `do_setalarm`, between the list and `next_timeout`; `pm` where PM is, between the
expiry of timers and its own `sys_setalarm`. `MaxLate` bounds how late a timer may be
handled, and `NEVER` is TMR_NEVER. The driver's alarm and its `tickdelay()`, which
replaces that alarm and puts it back, run next to PM.

### IrqHooks

`irq_handlers[l]` is the list of hooks of line l, `irq_actids[l]` the ids that are
active, `masked` the mask of the interrupt controller, `request` the lines of devices
that want attention. The system task is interruptible between the accesses to these
(`sys`): `enable_irq` is the test that clears the handler's bit, then `Unmask`;
`disable_irq` the test that sets it, then `Close`; `rm_irq_handler` three steps. An `&=`
or `|=` on a word of `irq_actids` is one instruction, and `irq_handle` runs with
interrupts off. `sys.open` is history, not state of the kernel: whether `enable_irq`
found the line open. `todo` is the driver's own memory of what it has yet to acknowledge.
`Removers` are drivers that give hooks up with IRQ_RMPOLICY, as the audio framework does
(`drivers/audio/framework/audio_fw.c:617`), on lines of their own or shared; `Disablers`
those that disable their line. `Start` is `start_service` of RS.

### AsynSend

`asynsend3()` in the steps in which the kernel may see it: stop the kernel from
looking (`senda(NULL, 0)`), move the entries together, write destination, message and
flags of a new one, SENDA. The kernel's part is `try_one`, which a receiver runs at any
time, and the pass that `mini_senda` makes. `alive` are the destinations that live and
that the sender's mask allows: an entry for another is completed with EDEADSRCDST or
ECALLDENIED. Initially any set of them is, and `Die` is what `clear_endpoint` means for
the table.

### ProcessManager

A handler of PM is a function from a record, the state of PM's world, to such a
record, written like the code; an action is one pass of the main loop with the replies
it sends at the end. `mproc` is the table; `kproc[p]` what the kernel knows (is p
computing, sending to PM, waiting for it, stopped, stopped as soon as its call is
over); `fsreq[p]` the request to FS for p. PM sends no second one before the answer
to the first: it panics if it would (`panic`). FS answers in any order between
processes, successfully or not. `stray` collects processes that were sent a reply they
were not waiting for. `Next` is the disjunction of the groups `Family` (fork, exit,
wait), `Signalling` (kill, sigaction, sigprocmask, sigsuspend, sigreturn, pause),
`Trace`, `Kernel` (signals from the kernel, ends of delays) and `Files` (exec, setuid,
answers of FS).

Abstractions: a new process gets any free slot of `NewSlots`; permissions, process
groups smaller than all users, TO_TRACEFORK, alarms (in `Timers`), `sa_mask`,
SA_NODEFER and SA_RESETHAND of a handler (`signal.c:672-682`) and the contents of signal
frames and core files are left out.

### VfsSuspend

Functions of VFS map a record of the whole state to the next one and a result. One
pipe or FIFO and one regular file exist; a pipe's contents are the numbers `size`, `rd`
and `wr`. `fproc[p].susp` is the call that `fp_fd`, `fp_buffer` and `fp_nbytes`
remember; `blocked_on`, `revived` and `partial` are `fp_blocked_on`, `fp_revived` and
`fp_cum_io_partial`. `get_work` is a step per process that is revived, in the order of
the table, and no message is received before it is done. `ok = FALSE` is a request that
MFS fails (calls "faults").

Abstractions: descriptors are found as in `get_fd`, but calls that fail for lack of
them (EMFILE, ENFILE), which change nothing, are left out, as are F_GETLK, `select`,
devices, and the data. A process opens the FIFO or the file only when it has nothing
open (a bound).

### The thread programs

One action per statement that touches shared state; an update such as `count++` or
`mails++` is a read and a write where the programs may be interrupted in between.
`SharedCounter` follows the three instructions of `race.s`, the unoptimised build; an
optimiser may keep the counter in a register, or the `turn` of `mutual.c`, which is not
`volatile`. Semaphores, mutexes and condition variables are external: a wakeup may be
spurious, and who gets a mutex is open. In `dinning.c` EATING is 0 and `state[]` is never
set, so `Philosophers` starts with everybody EATING.

### Seeded faults

Operators whose name ends in `_F` precede the definition they are a faulty variant
of: a release that is forgotten, a wrong bound, a queue that grows at the wrong end.
The specification uses none of them. For each property of each run, `PROJECT.json` names
one (`mutants`); with it in place of the correct definition TLC finds the property
violated, so no property holds vacuously.

## Runs

In this directory, `tlc -workers 2 -config KernelIPC_core.cfg MCKernelIPC`, and
likewise for the others.

| Run | Module | Instances | Properties | States |
|---|---|---|---|---|
| `core` | `MCKernelIPC` | PM, a server, a user process and a slot for its child; everyone but PM may die; 3 generations. Workloads: `core` (all kinds of calls), `signals` (signals, SIGKILL, delayed stops, exceptions), `served` (a server that forks while clients call it, as RS does, but when some are queued) | `TypeOK`, `QueueSound`, `BlockedOnLive`, `NoMissedRendezvous`, `NoWaitCycle`, `OneMessage`, `SignalNotLost`, `EndksigSucceeds`, `WakeHasCause` | 240 229 |
| `drivers` | `MCKernelIPC` | PM, two system processes, two users; 4 bits per chunk, so that notification ids lie in two chunks. Workloads: `notify` (two interrupt lines, alarms, a notifier that dies), `async` (a table of 2 messages), `calls` (everybody calls PM, one kills), `fork` (a server whose child becomes a user) | `NotificationsKept`, `AsyncKept`, `SignalsReachPM`, `SendersServed` | 159 286 |
| `scheduler` | `MCScheduler` | IDLE, CLOCK, SYSTEM, PM and two users on five queues. Workloads: `nice`, `life` (fork, exit, virtual timers), `compute` | `RunqueuesSound`, `HighestRuns`, `TaskNotPreempted`, `EverybodyRuns` | 894 606 |
| `timers` | `MCTimers` | two users, PM, a driver; alarms of 1 to 3 ticks; one tick late. Workloads: interval timers; `tickdelay()` | `AlarmCovers`, `TimersOfTheLiving`, `AlarmsRing` | 318 186 |
| `irq` | `MCIrqHooks` | two drivers, two hooks, two lines. Workloads: `own` (a line each), `shared` (one line, one driver disables it), `remove` (one line, one driver gives hooks up); in the last two interrupts come during `clear_proc` too | `HooksSound`, `OpenedQuiet`, `HandlerKept`, `OwnInterruptsTaken` | 155 952 |
| `asyn` | `MCAsynSend` | a table of 3; two messages to one destination, or one to two, each of which may live and be allowed or not | `NothingStuck`, `ChannelSpec` | 305 296 |
| `pm` | `MCProcessManager` | INIT and up to three more processes; signals KILL, CHLD, one to catch, STOP. Workloads: `family`, `signals`, `delay` (calls that are delayed: exit, kill, sigaction, pause, fork, exec, setuid), `trace`, `service`, `orphans` | `NoPanic`, `FamilySound`, `StoppedForAReason`, `PendingCarried`, `RepliesAwaited`, `ChildrenFreed` | 155 664 |
| `vfs` | `MCVfsSuspend` | three processes, PIPE_BUF 2, requests of 1 and 3 bytes, two locks. Workloads: `pipe` (with fork), `fifo` (with failing requests), `locks`, `ranges` (locks that are split) | `SuspendedRightly`, `Counted`, `BackToWork` | 164 056 |
| `programs` | `MCPrograms` | five philosophers; three producers, two consumers, two slots; 20 increments each (4 in the race); two fillers, three cars | `ForksShared`, `Accounted`, `StackSpec`, `ThreadsGoOn` | 60 035 |
| `notify_scan`, `fork_queue`, `vfs_partial` | | see below | one each | violations |

### What the properties say

Message passing and signals:

* `QueueSound`: the queue of a living process holds exactly the processes that
  are blocked sending to it, each once. The passing runs and the proofs leave out one
  step, `QueueForked`: a process forks while others are queued at it (`fork_queue`).
* `BlockedOnLive`: whoever is blocked waits for a valid endpoint of a process
  that can still answer.
* `NoMissedRendezvous`: nobody sleeps in RECEIVE with an acceptable sender in its
  queue, or in `receive(ANY)` with a notification pending.
* `NoWaitCycle`: no set of processes waits for itself. `deadlock()` follows the
  chain of blocked processes without a bound, so this is also why its loop ends.
* `OneMessage`: `QueueMess` never overwrites a message that was not copied out.
* `WakeHasCause` (a property of steps): a blocked process is released only with a
  message of the source it asked for, never by a notification in the middle of
  a SENDREC, or with the error that its peer died, and then the peer did die.
* `SignalNotLost`, `EndksigSucceeds`: `cause_sig` sends one notification however
  many signals come; PM still gets all of them, and its `sys_endksig` (PM panics
  when it fails) always succeeds, even when the process is killed meanwhile.
* `NotificationsKept`: an interrupt that did not reach its driver is still
  announced; a dead process is announced by nobody.
* `AsyncKept`: an asynchronous message the kernel accepted stays findable until it
  is delivered, and no plain RECEIVE sleeps over one.
* `SignalsReachPM`, `SendersServed`: a signalled process is taken up by PM; a queued
  sender is served.

Scheduling, clock, interrupts:

* `RunqueuesSound`: the ready queues hold exactly the runnable processes, each once and
  on the queue of its priority (what `check_runqueues_f()` tests), within the limits
  of `sys_nice` and above IDLE's queue.
* `HighestRuns`: the running process and the chosen one are runnable, and no
  preemptible process runs while a better one is ready, unless the clock task is ready
  and does not run, which the tick window makes possible.
* `TaskNotPreempted`: a task leaves the processor only by blocking, except the clock task
  after it has dequeued itself in that window.
* `EverybodyRuns`: among processes that only compute, everybody runs, and a used-up
  quantum brings the clock task.
* `AlarmCovers`: PM's one kernel alarm is no later than the first of its timers, and
  `next_timeout` no later than the first of the kernel's.
* `TimersOfTheLiving`: the lists are sorted and without duplicates; PM's holds
  exactly the timers of existing processes marked ALARM_ON.
* `AlarmsRing`: what is due is rung, cancelled or goes with its process.
* `HooksSound`: handlers of a line belong to living drivers under distinct ids; where
  nobody gives hooks up, hooks in use are linked and an active bit has a handler.
* `OpenedQuiet` (of steps): a closed line is opened only when no handler of it is active,
  unless by an `enable_irq` that found it open and was interrupted.
* `HandlerKept` (of steps): a handler leaves a line only when `rm_irq_handler` is run for
  it, or run again for a hook that had been given up.
* `OwnInterruptsTaken`: the interrupts of a driver on a line of its own are taken.
* `NothingStuck`, `ChannelSpec`: see the refinements.

Servers:

* `NoPanic` (of steps): PM panics in three cases only, named in the formula and described
  below; otherwise no second request to FS, no zombie twice, no parent told twice, no
  signal to a process that is exiting, no kernel call for one the kernel has destroyed.
* `FamilySound`: parents and tracers live, slots are counted, PM and FS agree on which
  requests are out, and whoever PM thinks alive exists for the kernel.
* `StoppedForAReason`: a process is stopped only while FS works on a request for it.
* `PendingCarried` (of steps): a deliverable signal that is pending will be looked at
  again, except that of a child whose parent was delayed in `fork()`.
* `RepliesAwaited`: nobody but INIT gets a reply it did not wait for.
* `ChildrenFreed`: a dead child of INIT goes away, whichever of INIT's wait and FS's
  answer comes first.
* `SuspendedRightly`: when VFS waits for a message, each suspended process has a reason: a
  reader has an empty pipe and a writer; a writer has a reader that is not itself
  suspended, though its bytes may fit; who opens a FIFO has no partner; who wants a lock
  meets one.
* `Counted`: `susp_count`, `reviving` and `filp_count` are the numbers they stand for,
  what `check_pipe()` tests, and the panics about them are never reached.
* `BackToWork`: `get_work()` always comes back to receiving, although a revived process
  may suspend again and revive those that revived it.

Programs: `ForksShared` (neighbours apart, turns neither lost nor given twice, whoever
waits has a neighbour that is down as eating or hungry or will look at it, and they do
not all wait), `StackSpec`, `Accounted` (no slot, increment or litre
is lost, and the race loses no more than its interleavings can: the counter ends between
2 and the number of increments), `ThreadsGoOn` (meals, items and fuel go on, and the
counting threads end).

### Refinements

`AsynSend` implements `AsyncChannel`: the queue of a destination is the sequence of its
entries that are not done, read in table order and, during the compaction, from the
part that was moved already and the part that was not. Every message is received once,
whole and in order, wherever it is moved and whenever receivers look.

`BoundedBuffer` implements `BoundedStack`: `producer.c` takes items from the end at
which it puts them, so its buffer is a bounded stack, not a queue. The mapping hides the
store that precedes the increment of `count`.

### Bounds

The code treats processes alike except for PM, kernel tasks and the owners of
privilege structures, and each instance has at least one process of each relevant sort.
A rendezvous has two parties and the death of one of them a third witness; a cycle that
`deadlock()` must find, and the pairs it must allow, need two and three. Three
generations are the fewest in which a number is reused after the boot generation. For
the properties marked as proved below no bound matters. `async` leaves fork out, so a
destination that is followed by another process, and an endpoint that is reused after a
wrap-around while an old table still names it, are not reached there; the proof of
`AsyncKept` covers the first and excludes the second by name.

The scheduler's quanta are one or two ticks and `Q_BALANCE_TICKS` 1 or 4, so that
quanta end and balancing happens within a few steps; five queues leave room above and
below the users, for PM and for IDLE. Timers of 1 and 3 ticks, with intervals of 2, give every order of
two timers, equal ones included. Two hooks suffice for two handlers of a line, ids that
are reused, and a hook removed twice. A table of 3 asynchronous messages can be full,
half done, and compacted over a gap. In PM, a grandchild, a tracer that is not the
parent, and an orphan need four slots. In VFS, a pipe of 2 with requests of 1 and 3 gives
empty, full, partial and exact transfers; three processes are two waiting at one end
and one at the other; two lock slots are full when one lock is split.

### Deadlock

TLC's deadlock check is on where the system never stops (`scheduler`, `timers`).
It is off for the kernel and PM, where processes that all wait for input are a
normal state of an instance without further events (that nobody is stuck in a cycle is
`NoWaitCycle`); for `asyn`, whose library panics; for `irq`, where the kernel may; for `vfs`, where all may be suspended
with no signal to come; and for the programs, some of which end.

### Fairness

* `KernelIPC`: weak fairness of `DeliverMsg` for each process, of PM's `receive(ANY)`
  and of the two calls of PM's signal loop. The first says that a runnable process is
  scheduled: the message is copied out at that moment. The others say that PM is
  scheduled and that its program comes back to the main loop, an endless
  `while (TRUE) get_work()` with `ksig_pending()` for SYSTEM's notification
  (`servers/pm/main.c:63-91`, `signal.c:220-241`). Nothing is assumed of the clients.
  Notifications precede queued senders and `mini_send` appends, so both are served;
  notifications without end can starve senders, by design, and the workload of
  `SendersServed` has none.
* `Scheduler`: ticks come, the clock task and the system task go on when it is their
  turn: nothing is assumed of users. `EverybodyRuns` depends on PM, which makes kernel calls as
  it likes, not sharing the lowest user queue.
* `Timers`: ticks come (strongly, since the bound `InTime` may hold them up), tasks go
  on, and PM is scheduled again and again (strongly), as `Scheduler` shows.
* `IrqHooks`: an unmasked request is taken by the processor, the system task goes on,
  and a driver that was told of an interrupt receives and enables the line again.
* `ProcessManager`: FS answers each request, PM runs, INIT waits again and again
  (`servers/init/init.c` loops). `waitpid()` reports the lowest slot first, so
  `ChildrenFreed` assumes that lower slots do not exit for ever.
* `VfsSuspend`: `get_work()` goes on; clients do as they like.
* Programs: threads run (weakly). Which of those that wait for a mutex or a semaphore
  gets it is open, as POSIX has it: a thread may always come too late. `ThreadsGoOn`
  therefore says that meals, items and fuel go on, not that everybody has a share.

### Where the code and its comments disagree

Three runs end in a counterexample.

* `notify_scan`: `mini_receive` looks at the lowest bit of each chunk of
  `s_notify_pending` only (`kernel/proc.c:641`). If that is another source than the
  requested one, it does not look behind it, and the caller sleeps although the
  notification it asked for is pending. The comment promises to "Find a pending
  notification from the requested source."
* `fork_queue`: `do_fork` copies `p_caller_q` with the rest of the structure and
  does not reset it (`kernel/system/do_fork.c:63`). Clients queued at the parent are then
  on two queues. It takes a process that others call, a server, to fork, and RS does: it
  forks in `start_service` and `run_script` (`servers/rs/manager.c:809`, `812`, `1107`)
  while clients may be blocked in a SENDREC to it (`lib/other/minix_rs.c:31`,
  `servers/rs/service.c`): whoever calls RS while it waits for PM to fork it is queued.
* `vfs_partial`: a process that is interrupted in the middle of a write of more than
  PIPE_BUF bytes keeps `fp_cum_io_partial` (`servers/vfs/pipe.c:503` does not reset it), and
  so does one whose write fails half way (`read.c:290`, `379`). Its next read or write of
  a pipe makes VFS panic (`read.c:94`), whose premise is stated at `read.c:283`.
  `Counted` and `SuspendedRightly` hold up to that panic.

The passing runs of `KernelIPC` and its proofs leave out that one step, a fork of a
process at which others are queued (`QueueForked`), and no program: servers that are
called do fork in workload `served`.

### Further behaviours met while modelling

These were seen as counterexamples. An entry that begins with the name of a property is
about one that a module states, that is false, and that no run checks. In the others the
behaviour is, unless the entry says otherwise, part of a run, and the property that it
would break names it as an exception in its formula: the run, and the proof if there is
one, shows that nothing else breaks it.

* `DelayReported` (`KernelIPC`): a delayed stop is reported when the message is received
  (`proc.c:683`), not when the destination dies (`system.c:533`). MF_SIG_DELAY stays set
  and PM is not told.
* A RECEIVE from one's own endpoint passes `deadlock()` (`proc.c:458`). No program of the
  tree does it, and `DisciplineAssumption` excludes it.
* An entry for a dead process stays in a table of asynchronous messages, and once the
  generations of the slot have come round it names a process that was never told of it
  (`do_fork.c:67`). The run does not reach this; the proof names the step
  (`EndpointReused`).
* A SENDREC that had to block in its sending half skipped the scan of asynchronous
  tables (`proc.c:630`), and nobody scans them when its message is taken. `AsyncKept`
  therefore speaks of processes without MF_REPLY_PEND.
* Tick window (`Scheduler`; in the run, an exception in `TaskNotPreempted` and
  `HighestRuns`): `do_clocktick` tests `prev_ptr` (`clock.c:119-120`) before it disables
  interrupts and reads it again inside (`123-124`). A tick in between can set `prev_ptr` to CLOCK, and the
  clock task is dequeued and enqueued, so that another process may be picked in the
  middle of it, and runs until `enqueue` or `dequeue` picks again.
  `include/minix/const.h:135`: "kernel tasks are not preemptible".
* `DeadNotSignalled` (`Scheduler`): `clear_proc` turns off the alarm timer only
  (`do_exit.c:64`); the virtual timers of the freed slot stay armed and `bill_ptr` may still
  point to it, so `vtimer_check` signals a free slot.
* `do_nice` maps the best priorities to queue 0, the clock task's (`do_nice.c:36`); as
  `enqueue` switches to a better queue only, a process there that does not block is never
  interrupted, whatever its quantum (`clock.c:187-190` says that the clock task is called
  when "the scheduling quantum of the running process has expired"). Workload `nice` has
  queue 0; `EverybodyRuns` is about a workload without `do_nice`.
* `DelayHolds` (`Timers`): `tickdelay()` takes any notification of CLOCK for its own
  (`tickdelay.c:27`), so an alarm that is pending ends the delay at once.
  `AlarmRestored`: when the previous alarm is due but was not run yet, `do_setalarm`
  replaces it and reports 0 ticks left, and `tickdelay()` does not put it back (`30`).
* `NoPanic` (`IrqHooks`, with `WhileClearing = TRUE`): `clear_proc` marks the slot free
  before it removes its hooks (`do_exit.c:70-79`), with interrupts enabled; an interrupt in
  between finds a hook of a dead process, and the kernel panics. Workloads `shared` and
  `remove` go on until then.
* Enabling window (`IrqHooks`; in the run, an exception in `OpenedQuiet`): `enable_irq` and
  `put_irq_handler` test `irq_actids` and unmask with interrupts on (`interrupt.c:143-144`,
  `65-66`). When the line was open already, as it is after `sys_irqsetpolicy` when the
  floppy driver enables it (`drivers/floppy/floppy.c:319-321`), an interrupt in between
  makes a handler active and masks the line, and it is opened again nevertheless.
* `LineOpen` (`IrqHooks`): removing one of several handlers masks the line, and nothing
  opens it for those that stay (`interrupt.c:84`). `OwnInterruptsTaken` speaks of lines
  with one driver.
* IRQ_RMPOLICY removes the handler and leaves the hook to its owner (`do_irqctl.c:121`);
  when the owner ends, it is removed again, and with it the handler that got its id
  meanwhile, or a bit is left set that nobody clears. Workload `remove` does this on a
  shared line; `HandlerKept` and `HooksSound` have it as their exception.
* PM: `do_fork` copies `mp_sigpending` (`servers/pm/forkexit.c:87`), while
  `man/man2/fork.2:50` says "The child starts with no pending signals".
* PM, the exceptions of `NoPanic`, all reached in the run: when a delayed call turns out
  to be one that goes to FS, such as exec, FS_CALL is set before the SIGNDELAY is looked at, and `handle_ksig` panics
  (`signal.c:311`); a tracer that resumes its child with SIGKILL while another signal is
  pending makes `sig_proc` panic, since `check_pending` is called for the exiting child
  (`trace.c:205`); a child of `do_fork_nb`, woken at once (`forkexit.c:207`), that exits before
  FS knows of it makes `tell_fs` panic.
* PM, the exception of `PendingCarried`, reached in the run: a child inherits DELAY_CALL
  (`forkexit.c:95`) of a parent that was delayed in `fork()`, and no SIGNDELAY will come for
  it. Of `RepliesAwaited`: when the caller of fork is killed before
  FS answers, the reply goes to the parent the child has then, INIT (`main.c:486`).
* VFS, further: a suspended writer is woken only by a reader that finds the pipe empty
  (`pipe.c:164`), so it may stay suspended although its bytes fit; F_UNLCK also removes the
  locks of other processes (`lock.c:84-85`); when a lock cannot be split for want of a slot
  the call returns before it wakes those who wait for what it has unlocked already
  (`lock.c:123`), which theorem `NoWakeupLost` shows to be the only way in which VFS
  forgets to wake somebody; an interrupted open of a FIFO leaves the descriptor open; cycles
  of processes that wait for each other's locks are not detected.
* `dinning.c`: everybody starts as EATING (`dinning.c:25-31`), so a philosopher that asks
  first waits for neighbours that do not eat, and when they ask in their turn nobody
  tests it: both forks are free and it waits. Two neighbours can also eat in turns so
  that the one between them never does (`dinning.c:71`). `ThreadsGoOn` promises only that
  somebody eats again.
  `philosopher.c:59` signals the semaphore it should wait for, so neighbours eat at the same
  time. The car of `conditionvar.c` locks once before its loop and unlocks in every round
  (`41`), so later rounds take fuel without the mutex. Seeded faults reproduce both.

## Proofs

`tlapm KernelIPCProofs.tla`, and likewise `SchedulerProofs`, `TimersProofs`,
`IrqHooksProofs`, `AsynSendProofs`, `VfsSuspendProofs`, `ProgramProofs` and
`QueueLemmas`. The first and `VfsSuspendProofs` take some ten minutes each.
The theorems are about the specifications that the runs check, with every value of the
constants that their assumptions allow. TLC evaluates the assumptions on each passing
run.

| Theorem | States | Under |
|---|---|---|
| `TypeCorrect` | `TypeOK` of `KernelIPC` | |
| `IPCInvariant`; `QueuesAlwaysSound`, `NobodyWaitsForTheDead`, `NoRendezvousMissed`, `OneMessageAtATime` | `IPCInv`; its parts | no `QueueForked` step |
| `NoDeadlockCycle` | `NoWaitCycle` | no `QueueForked` step; nobody receives from itself |
| `NoSignalLost`, `EndksigNeverFails` | `SignalNotLost`, `EndksigSucceeds` | no `QueueForked` step |
| `NoNotificationLost` | `NotificationsKept` | no `QueueForked` step; nobody notifies a user process |
| `NoSpuriousWakeUp` | `WakeHasCause`, of steps | no `QueueForked` step |
| `NoAsyncMessageLost` | `AsyncKept` | no `QueueForked` and no `EndpointReused` step |
| `QueuesStaySound`, `OnlyReadyProcessesRun` | `RunqueuesSound`; the first part of `HighestRuns` | |
| `BestProcessRuns`, `TasksRunOn` | `HighestRuns`; `TaskNotPreempted`, of steps | |
| `AlarmsCovered`, `TimersBelongToTheLiving` | `AlarmCovers`, `TimersOfTheLiving` | |
| `ListsStaySound`, `LinesQuiet` | `HooksInv`; `OpenedQuiet`, of steps | |
| `HooksStaySound`, `NobodyCutOff` | `HooksSound`; `HandlerKept`, of steps | |
| `NothingGetsStuck`, `TableIsChannel` | `NothingStuck`; the refinement `ChannelSpec` | |
| `TheCountsAreRight` | `Counted` | |
| `NoPipeWakeupLost` | the part of `SuspendedRightly` about pipes and FIFOs | |
| `NoWakeupLost` | `SuspendedRightly` | no unlock that ends halfway (`EndsHalfway`) |
| `ForksAreShared` | `ForksShared` | |
| `BufferIsStack` | the refinement `StackSpec` | |
| `SlotsAreCounted`, `NoIncrementLost`, `RaceIsBounded`, `NothingGoesMissing` | the parts of `Accounted`, and the whole | |

### Message passing

The theorems hold for every process table, finite or not, every set of programs and
masks, and every number of generations, under the assumptions of `KernelIPC` (slots are
integers, the kernel tasks own privilege structures and make no calls of their own, ids
are unique, nobody may send to itself, user processes may only use SENDREC, PM is never
a victim) and `DisciplineAssumption`: nobody receives from itself, and nobody notifies a
user process (the system processes notify tasks, drivers and servers only; the shared
privilege structure of the users has one map for all of them). Except for `TypeCorrect`
they are about behaviours without a `QueueForked` step, `Spec /\ [][~QueueForked]_vars`:
any process may fork, servers that others call included, but not while somebody is queued
at it. Run `fork_queue` shows what happens otherwise; that the theorems need no more than
this says that `do_fork.c:63` is the only statement of the modelled code that can part
queues and flags.

**The invariant.** None of the properties is inductive by itself. A death removes the
dead from the queue its `p_sendto_e` names and releases those whose field names it: that
this leaves no queue with a dead process needs `QueueSound` and `BlockedOnLive`
together. A receiver that takes a message from its queue wakes that sender: that the
sender has no message to be copied out, `OneMessage`, needs `QueueSound` and the fact
that it is blocked. `FlagsSound` adds how the flags of a single process hang together: a
free slot has no other flag, a process without endpoint is in no call, a SENDREC that
still sends will receive from the same endpoint, only a system process waits for ANY.
`IPCInv` is their conjunction with `TypeOK`. It is what the proofs carry along; run `core`
checks the parts that mean something by themselves.

**The steps.** `KernelIPCProofs` sorts the actions by what they do to flags and queues,
proves one lemma for each kind (a message is delivered to a process that waits for it; a
queued sender is taken; a process blocks; a process dies; a process is forked; only
flags that play no part in message passing change) and shows that every action of `Next`
is of one of these kinds. The queue operations themselves are in `QueueLemmas`.

**Cycles.** `NoWaitCycle` says that each non-empty set of processes has a member that
waits for nobody in the set, which for finite tables is the absence of cycles and needs
no notion of path. `KernelIPCProofs` shows that most steps only remove edges of the
relation "waits for", and that a blocking call adds a single one, leaving from a process
that had none. A set closed under waiting that this edge creates contains the caller and
the process it now waits for; that the chain from the latter reaches the caller is
exactly what `deadlock()` tests. Where `deadlock()` lets a pair through, a SEND meeting
a RECEIVE from each other, the rendezvous takes place and the partner no longer waits. A
fork copies an edge into a slot nobody waits for.

**Signals.** `SignalNotLost` and `EndksigSucceeds` are inductive together, next to
`IPCInv`, once it is known that the kernel tasks live and are neither signalled nor
stopped (`TasksSafe`): a notification of SYSTEM cannot be taken away by a death. PM
leaves its loop only when `sys_getksig` finds nobody, so one notification is enough for
any number of signals.

**Notifications.** `NotifyMapInv` adds to `NotificationsKept` that the structure the
user processes share has no bit set. Without that a bit would go to whichever user
receives first, and a death would have to be looked for in a map that belongs to nobody
in particular. A death takes the bit of the dead from every map, and as only living
processes notify it does not come back.

**Waking up.** `NoSpuriousWakeUp` is about steps. For each kind of step the proof names
the processes that leave RECEIVING or SENDING: a delivery wakes one, with the message it
asked for; taking from a queue wakes its sender; a death wakes those that
`BlockedOnLive` says wait for the dead. Nothing else removes these flags.

**Asynchronous messages.** `AsyncKept` says that the kernel knows of every entry it has
not delivered (the table is registered and MF_ASYNMSG is set at the destination) and that
no process sleeps in RECEIVE while there is one for it. `AsyncInv` adds what makes this
inductive: a registered table belongs to a living process, so that the death of a sender
takes its entries away; and a SENDREC that still sends has MF_REPLY_PEND, so that taking
its message leaves no plain RECEIVE unscanned. `try_async` clears MF_ASYNMSG only when no
table has an entry left for the process. One more step is left out, `EndpointReused`: a
child gets the very endpoint, slot and generation, that an undelivered entry names. It
has to be: `clear_endpoint` does not look into the tables of others, so an entry for a
dead process stays, and once the generations of its slot have come round it names a
process that was never told of it. Destinations that die and are followed by others of
a different generation are covered.

### Scheduler

`SchedInv` describes a state between any two steps of `do_clocktick` and of the system
task: the queues hold the runnable processes on the queues of their priorities
(`Sound`), the process that runs, and the one that is chosen to be next, is runnable
and, if preemptible, the best (`QueueInv`, with `Chosen` and `Runs`),
maximum priorities are within the limits (`MaxInv`), and what the clock task and the
system task remember between two of their steps is still so (`ClockInv`, `SysInv`): the
process that is being niced is locked and hence on no queue. `enqueue` and `dequeue`
compare with `next_ptr` and `proc_ptr` only; that this suffices is the lemma that, after
them, the chosen process is the best. The queues at boot are the descending enumerations
of finite sets.

A tick between the test of `prev_ptr` and its second read (see the tick window above)
makes the clock task requeue itself: another process is chosen while the clock task goes
on, and the next trap or tick switches to it. The invariant covers this: only the clock
task runs on with another process chosen, which is runnable and is chosen anew when it is
blocked or moved to another queue; and who runs is the best unless the clock task is
ready. None of the theorems has a hypothesis about ticks. `HighestRuns` and
`TaskNotPreempted` name the states that the window leads to, and the proofs show that it
is the only way to them.

### Timers

`TimerInv` has five parts: the lists are sorted and without duplicates (`ListInv`);
`next_timeout` is no later than the kernel's first timer, but in the middle of
`do_setalarm` (`KernelInv`); the alarm that PM asks for is for its first timer
(`CallInv`); PM's timers are those of living processes with ALARM_ON (`LivingInv`); and
when PM waits, its alarm is no later than its first timer or has gone off (`CoverInv`).
A process that dies of SIGALRM cancels its timer in the middle of `pm_expire_timers`;
that PM asks for a new alarm afterwards is what `CallInv` and `CoverInv` say together.

### Interrupt hooks

`HooksInv` holds at any moment of a kernel call: a list has no id twice and holds hooks
in use (`ListsSound`), and the hook the system task has in hand is in use, of the driver
that called or is being cleared (`SysSound`). `QuietInv` adds that while the system task
is about to open a line that it found closed, the line stays closed and nobody becomes
active on it: `irq_handle` takes no interrupt of a masked line. `LinkedInv` says that
hooks in use are linked and bits are those of handlers, on lines where nobody gives hooks
up. On the other lines an id may be given to a second driver while the first one's stale
hook still names it; that `rm_irq_handler` then takes the wrong handler, and that this
happens for an unlinked hook only, is what `NobodyCutOff` shows.

### Asynchronous sending

`AsynInv` says where `asynsend3()` is with its indices and the entry it writes
(`IndexInv`), that the kernel does not look while entries are moved (`MoveInv`), and
that of the pending entries the kernel sees the oldest, and none that is not in use
(`CoverInv`). The queue of a destination is the ascending enumeration of the slots
waiting for it. Such an enumeration is unique, so it is enough to compare sets: a new
last slot is an `Append`, a slot that is done is removed from its place, and a slot
moved by the compaction changes its number but not its rank, so that the compaction is a
stutter.

### File server

The functions of `VfsSuspend` map a record of the whole state to the next one, as the
functions of VFS change its tables in place; `VfsSuspendProofs` has one lemma for each of
them, and composes these to one per action.

**Counts.** `VfsInv` says of a state that its tables are well formed (`Typed`), that the
fields of a process fit each other (`EntryOK`: only a call that is tried again is
reviving, the call that is kept fits what the process is blocked on and the descriptor it
is about is open), that `susp_count` and `reviving` are the sizes of the sets they stand
for (`Tallied`) and that each filp is counted once per descriptor (`Referred`). It holds
between any two functions, not only when VFS waits: `release()` takes from `susp_count`
as many as it wakes, and adds to `reviving` those of them that try again (who opens a
FIFO is answered at once), so its panic is out of reach. The close of all descriptors in
`free_proc` and the walk over the locks are recursive functions; that such a function
exists is a lemma of its own.

**Wakeups.** `AllRight` says in which state a suspended process that nobody has revived
may be: a reader has an empty pipe and a writer left (`ReadersRight`); a writer has a
reader left and no reader is suspended with it (`WritersRight`); who opens a FIFO has no
partner (`OpenersRight`); who waits for a lock has a conflict (`LockersRight`). The
shape of the pipe (`PipeShape`: read position below the size, or both 0), that a filp of
the pipe has one direction (`OneWay`), that nothing is kept for a process that is not
blocked (`NothingKept`) and that who is blocked on a pipe has a descriptor of it
(`OnThePipe`) make it inductive. Unlike `SuspendedRightly` it speaks of processes that
are not reviving, so that it holds while others still wait to be retried. A retry may
read what another was woken for, fill the pipe again or close the last descriptor of one
end. The argument is therefore about what a step does to those that stay suspended
(`Calmer`: nobody waits who did not before; `StillAwaited`: what they wait for has not
come) and asks of each function that it revives everybody for whom this fails. When VFS
is idle nobody is reviving, by `Tallied`, and `SuspendedRightly` follows.

`NoPipeWakeupLost` has no hypothesis. For locks one is needed: `EndsHalfway` is an
F_UNLCK that frees a part of one lock, then finds no slot to split another and returns
ENOLCK before `lock_revive()` (`lock.c:123`). In an instance with two processes, three
positions, two slots and both lock types TLC finds such a step after which a process
waits for a range that is free; without such steps `SuspendedRightly` holds there, and
the theorem says that it does everywhere.

`VfsAssumption` asks for a finite process table, positive sizes, and a NIL that is
neither a number nor the name of a call.

### Thread programs

`ProgramProofs` proves about `MCInit /\ [][MCNext]_mcvars`, the composition that the run
checks.

* `PhilInv`: one thread is between the mutex's wait and its signal; the state of a
  philosopher, its semaphore and the place in its loop hang together; and who is HUNGRY
  has a neighbour that is EATING, that is about to look at it in `put_fork()`, or that
  is HUNGRY as well and asked for its first meal later. The last is needed because all
  start as EATING: the proof keeps a rank, the order of the first requests, along which
  such waits cannot form a circle.
* `BufferInv`: one thread is at work on the buffer, the semaphores and the threads under
  way add up to the slots, the first `count` slots hold items, and a producer that has
  stored but not counted has its item at `count`. That a producer on its way finds room,
  and a consumer an item, follows by counting threads (finitely many, which is assumed).
  Then raising the count is a push, lowering it a pop, and every other step a stutter.
* `CounterInv`: with the mutex or the turns one thread is in the body, and what it has
  loaded is the counter. Without them, a thread that has stored once loads at least 1
  from then on, since no store writes 0; the last store of all is in a thread's last
  pass, so with two passes or more it writes at least 2.
* `FuelInv`: one thread is between test and unlock, what it has read is the fuel, and
  the fuel is what the passes of the fillers gave less what was sold. The passes are a
  sum over the fillers; `QueueLemmas` shows that the fold which computes it exists and
  grows by one with one of its terms, by taking a smallest set for which it would not.

### Only model-checked

* Liveness: `SignalsReachPM`, `SendersServed`, `EverybodyRuns`, `AlarmsRing`,
  `OwnInterruptsTaken`, `ChildrenFreed`, `BackToWork` and `ThreadsGoOn`. Fairness is out
  of the prover's reach.
* `ProcessManager`: `exit_proc` and `sig_proc` call each other (a death ends other
  processes from within the handler) and are recursive operators here too, which the
  prover cannot work with.

`ChainReaches`, the test in `deadlock()`, is stated through sets closed under waiting
rather than as a recursive walk, so that it can be proved about.

## Not modelled

* Message passing: faults in message buffers, system call tracing, dynamic privilege
  structures, SYS_PRIV_INIT.
* PM: `TO_TRACEFORK`, process groups, permissions, `sa_mask` and the flags of `sigaction`,
  core file contents, `brk` and time calls.
* VFS: paths, mounts, device I/O, `select`, and the data of files. MFS and its cache.
* Grants and copying, VM, RS, DS, the IPC server: candidates for modules, see the plan.
* Hardware protection and boot code, drivers, the network stack, bulk I/O, libraries and
  about two hundred commands make up nearly all of the half million lines of the
  repository. Most of it is device registers, text processing, or sequential code without
  state that outlives a call; the development therefore covers the concurrent core and a
  small share of the lines.

`PROJECT.json` gives the reason per component.

## Plan

Done: message passing, scheduler, timers, interrupt hooks, asynchronous sending,
suspension in VFS and the thread programs, with proofs; the process manager,
model-checked. What is left, in this order:

1. `ProcessManager` with folds in place of recursion, and `FamilySound` proved.
2. An abstract specification of message passing (each message is accepted, delivered once
   or refused, in order per pair) that `KernelIPC` refines.
3. `verify_grant` and indirect grants; `get_priv` and dynamic privilege structures.
4. More of VFS: `select` and devices, with drivers that answer late or die.
5. The block cache of MFS, semaphores of the IPC server, subscriptions of DS, restarts by RS.
