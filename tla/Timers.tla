------------------------------- MODULE Timers -------------------------------
(***************************************************************************)
(* Watchdog timers in MINIX 3: the library lib/timers, the kernel's list   *)
(* of synchronous alarms (kernel/clock.c, system/do_setalarm.c), the list  *)
(* PM keeps on top of its one alarm for the alarms and interval timers of  *)
(* user processes (servers/pm/timers.c, alarm.c), and tickdelay(), which a *)
(* driver uses to sleep on the same alarm (lib/sysutil/tickdelay.c).       *)
(*                                                                         *)
(* Times are relative to the uptime: a tick takes 1 off all of them, so    *)
(* that a time is due when it is not positive.                             *)
(*                                                                         *)
(* Granularity.  The tasks CLOCK and SYSTEM exclude each other and the     *)
(* processes, but not the clock interrupt, which may come between any two  *)
(* of their steps.  PM's own list is touched by PM alone.                  *)
(***************************************************************************)
EXTENDS Integers, Sequences, SequencesExt

CONSTANTS
    PM, Driver,  \* the system processes with a synchronous alarm
    User,        \* the processes PM keeps alarms for
    Ticks,       \* delays that user processes ask for
    DriverTicks, \* delays that the driver asks for
    Intervals,   \* intervals that are asked for, 0 for none
    MaxLate,     \* bound: ticks stop while a timer is overdue by more
    Delay,       \* the argument of tickdelay()
    NEVER        \* TMR_NEVER

Owner == {PM, Driver}

ASSUME TimersAssumption ==
    /\ PM # Driver
    /\ Ticks \cup DriverTicks \subseteq Nat \ {0} /\ Delay \in Nat
    /\ Intervals \subseteq Nat
    /\ MaxLate \in Nat
    /\ NEVER \in Nat /\ \A n \in Ticks \cup DriverTicks \cup Intervals \cup {Delay} : n < NEVER

VARIABLES
    clock_timers, \* the kernel's list: records of owner and time
    next_timeout, \* when the interrupt handler calls the clock task
    clk,          \* the clock task: "wait", "start", "loop" or "receive"
    realtime,     \* the uptime do_clocktick passed to tmrs_exptimers
    notified,     \* a HARDWARE notification is pending for CLOCK
    alarm,        \* processes with a notification of CLOCK pending
    sys,          \* the do_setalarm call the system task is at
    pm_timers,    \* PM's list, owners being user processes
    pm,           \* PM: "idle", "expiring" or "alarm" (in sys_setalarm)
    now,          \* the timestamp of the notification PM is handling
    IN_USE,       \* user processes that exist
    ALARM_ON,     \* those with an alarm
    mp_interval,  \* the interval of their alarms
    drv,          \* the driver: "idle", "set" (in sys_setalarm), "call"
                  \* (in that of tickdelay()), "delay" or "back"
    left,         \* ALRM_TIME_LEFT as tickdelay() got it
    delay,        \* ticks that are left of the driver's delay
    expects       \* the driver set an alarm that it has not been given

kvars == <<clock_timers, next_timeout, clk, realtime, notified, alarm, sys>>
pvars == <<pm_timers, pm, now, IN_USE, ALARM_ON, mp_interval>>
dvars == <<drv, left, delay, expects>>
vars  == <<kvars, pvars, dvars>>

None == [at |-> "none", who |-> PM, exp |-> 0]

-----------------------------------------------------------------------------
(* lib/timers.  The C functions return the head's time before, and pass    *)
(* the one after back, as 0 for an empty list; here NEVER.                 *)

HeadTime(s) == IF s = <<>> THEN NEVER ELSE s[1].exp

tmrs_clrtimer(s, tp) == RemoveFirstMatch(s, LAMBDA t : t.tp = tp)

tmrs_settimer(s, tp, e) ==
    LET c == tmrs_clrtimer(s, tp)
        i == SelectInSeq(c, LAMBDA t : e < t.exp)
    IN  InsertAt(c, IF i = 0 THEN Len(c) + 1 ELSE i, [tp |-> tp, exp |-> e])

(* The loop of tmrs_exptimers() has something left to do. *)
Expired(s, t) == s # <<>> /\ s[1].exp <= t

Armed(s, tp) == \E i \in DOMAIN s : s[i].tp = tp

TimeOf(s, tp) == s[CHOOSE i \in DOMAIN s : s[i].tp = tp].exp

-----------------------------------------------------------------------------
(* The clock interrupt and the clock task. *)

(* One tick later; beyond MaxLate it makes no difference how late it is. *)
Less(e) == IF e < -MaxLate THEN e ELSE e - 1

Aged(s) == [i \in DOMAIN s |-> [s[i] EXCEPT !.exp = Less(@)]]

(* Something is under way that will look at the timers. *)
Busy == clk # "wait" \/ sys.at # "none" \/ PM \in alarm \/ pm # "idle"

(* Bound: what is under way is not late by more than MaxLate ticks. *)
InTime == Busy => /\ \A i \in DOMAIN clock_timers : clock_timers[i].exp > -MaxLate
                  /\ \A i \in DOMAIN pm_timers : pm_timers[i].exp > -MaxLate

(* A tick passes for all that is counted in ticks. *)
Tick ==
    /\ clock_timers' = Aged(clock_timers) /\ pm_timers' = Aged(pm_timers)
    /\ next_timeout' = IF next_timeout = NEVER THEN NEVER ELSE Less(next_timeout)
    /\ realtime' = IF clk = "loop" THEN Less(realtime) ELSE 0
    /\ now' = IF pm = "expiring" THEN Less(now) ELSE 0
    /\ sys' = IF sys.at = "list" /\ sys.who = PM /\ sys.exp # NEVER
              THEN [sys EXCEPT !.exp = Less(@)] ELSE sys
    /\ delay' = IF drv = "delay" /\ delay > 0 THEN delay - 1 ELSE delay
    /\ UNCHANGED <<alarm, pm, IN_USE, ALARM_ON, mp_interval, drv, left, expects>>

(* It looks for the exact tick. *)
TickExact_F ==
    /\ InTime /\ Tick
    /\ IF next_timeout' = 0
       THEN /\ clk' = IF clk = "wait" THEN "start" ELSE clk
            /\ notified' = (clk # "wait")
       ELSE UNCHANGED <<clk, notified>>

clock_handler ==
    /\ InTime /\ Tick
    /\ IF next_timeout' <= 0
       THEN /\ clk' = IF clk = "wait" THEN "start" ELSE clk
            /\ notified' = (clk # "wait")
       ELSE UNCHANGED <<clk, notified>>

do_clocktick ==
    /\ clk = "start" /\ sys.at # "next"
    /\ clk' = IF next_timeout <= 0 THEN "loop" ELSE "receive"
    /\ realtime' = 0
    /\ UNCHANGED <<clock_timers, next_timeout, notified, alarm, sys, pvars, dvars>>

(* tmrs_exptimers(): one expired timer, whose watchdog is cause_alarm(). *)
Expire ==
    /\ clk = "loop" /\ Expired(clock_timers, realtime)
    /\ clock_timers' = Tail(clock_timers)
    /\ alarm' = alarm \cup {Head(clock_timers).tp}
    /\ UNCHANGED <<next_timeout, clk, realtime, notified, sys, pvars, dvars>>

(* Its end: the next timeout is that of the timer now in front. *)
ExpireEnd ==
    /\ clk = "loop" /\ ~Expired(clock_timers, realtime)
    /\ next_timeout' = HeadTime(clock_timers)
    /\ clk' = "receive" /\ realtime' = 0
    /\ UNCHANGED <<clock_timers, notified, alarm, sys, pvars, dvars>>

clock_task ==
    /\ clk = "receive"
    /\ clk' = IF notified THEN "start" ELSE "wait"
    /\ notified' = FALSE
    /\ UNCHANGED <<clock_timers, next_timeout, realtime, alarm, sys, pvars, dvars>>

-----------------------------------------------------------------------------
(* sys_setalarm(): the list first, next_timeout after it. *)

(* p asks for an alarm at time e, or, with NEVER, for none. *)
Request(p, e) == sys' = [at |-> "list", who |-> p, exp |-> e]

do_setalarm ==
    /\ sys.at = "list" /\ clk \in {"wait", "start"}
    /\ clock_timers' = IF sys.exp = NEVER THEN tmrs_clrtimer(clock_timers, sys.who)
                       ELSE tmrs_settimer(clock_timers, sys.who, sys.exp)
    /\ left' = IF drv # "call" \/ sys.who # Driver THEN left
               ELSE IF Armed(clock_timers, Driver) /\ TimeOf(clock_timers, Driver) > 0
                    THEN TimeOf(clock_timers, Driver) ELSE 0
    /\ sys' = [sys EXCEPT !.at = "next"]
    /\ UNCHANGED <<next_timeout, clk, realtime, notified, alarm, pvars,
                   drv, delay, expects>>

(* set_timer() and reset_timer() set next_timeout, and the caller goes on. *)
SetNextTimeout ==
    /\ sys.at = "next"
    /\ next_timeout' = HeadTime(clock_timers)
    /\ sys' = None
    /\ pm' = IF sys.who = PM THEN "idle" ELSE pm
    /\ drv' = IF sys.who # Driver THEN drv
              ELSE IF drv = "call" THEN "delay" ELSE "idle"
    /\ UNCHANGED <<clock_timers, clk, realtime, notified, alarm, pm_timers, now,
                   IN_USE, ALARM_ON, mp_interval, left, delay, expects>>

(* The tasks are done: other processes run. *)
TasksIdle == clk = "wait" /\ sys.at = "none"

-----------------------------------------------------------------------------
(* PM.  It serves a notification before the requests of processes. *)

PMReady == TasksIdle /\ pm = "idle" /\ PM \notin alarm

(* PM's list becomes s; its alarm is moved to time e if it has to be. *)
Reschedule(s, moved, e) ==
    /\ pm_timers' = s
    /\ IF moved THEN Request(PM, e) /\ pm' = "alarm" ELSE UNCHANGED <<sys, pm>>

(* The alarm is left alone when it was set already. *)
pm_set_timer_F(u, t) ==
    LET s == tmrs_settimer(pm_timers, u, t)
    IN  Reschedule(s, pm_timers = <<>>, HeadTime(s))

pm_set_timer(u, t) ==
    LET s == tmrs_settimer(pm_timers, u, t)
    IN  Reschedule(s, pm_timers = <<>> \/ HeadTime(pm_timers) > HeadTime(s), HeadTime(s))

pm_cancel_timer(u) ==
    LET s == tmrs_clrtimer(pm_timers, u)
    IN  Reschedule(s, HeadTime(pm_timers) < HeadTime(s) \/ s = <<>>, HeadTime(s))

(* do_alarm and do_itimer with a delay, through set_realtimer. *)
set_alarm(u, t, i) ==
    /\ PMReady /\ u \in IN_USE
    /\ pm_set_timer(u, t)
    /\ ALARM_ON' = ALARM_ON \cup {u}
    /\ mp_interval' = [mp_interval EXCEPT ![u] = i]
    /\ UNCHANGED <<clock_timers, next_timeout, clk, realtime, notified, alarm,
                   now, IN_USE, dvars>>

(* The same calls without one. *)
clear_alarm(u) ==
    /\ PMReady /\ u \in IN_USE
    /\ IF u \in ALARM_ON THEN pm_cancel_timer(u) ELSE UNCHANGED <<pm_timers, pm, sys>>
    /\ ALARM_ON' = ALARM_ON \ {u}
    /\ mp_interval' = [mp_interval EXCEPT ![u] = 0]
    /\ UNCHANGED <<clock_timers, next_timeout, clk, realtime, notified, alarm,
                   now, IN_USE, dvars>>

(* The timer of the process that exits stays. *)
ExitKeepsTimer_F(u) ==
    /\ PMReady /\ u \in IN_USE
    /\ IN_USE' = IN_USE \ {u}
    /\ ALARM_ON' = ALARM_ON \ {u}
    /\ UNCHANGED <<kvars, pm_timers, pm, now, mp_interval, dvars>>

exit_proc(u) ==
    /\ PMReady /\ u \in IN_USE
    /\ IF u \in ALARM_ON THEN pm_cancel_timer(u) ELSE UNCHANGED <<pm_timers, pm, sys>>
    /\ IN_USE' = IN_USE \ {u}
    /\ ALARM_ON' = ALARM_ON \ {u}
    /\ UNCHANGED <<clock_timers, next_timeout, clk, realtime, notified, alarm,
                   now, mp_interval, dvars>>

do_fork(u) ==
    /\ PMReady /\ u \notin IN_USE
    /\ IN_USE' = IN_USE \cup {u}
    /\ mp_interval' = [mp_interval EXCEPT ![u] = 0]
    /\ UNCHANGED <<kvars, pm_timers, pm, now, ALARM_ON, dvars>>

(* PM is given the notification of its alarm. *)
pm_expire_timers ==
    /\ TasksIdle /\ pm = "idle" /\ PM \in alarm
    /\ alarm' = alarm \ {PM}
    /\ pm' = "expiring" /\ now' = 0
    /\ UNCHANGED <<clock_timers, next_timeout, clk, realtime, notified, sys,
                   pm_timers, IN_USE, ALARM_ON, mp_interval, dvars>>

(* cause_sigalrm(u) for the timer in front; the signal may end u, and the   *)
(* timer that was just set again goes with it.                             *)
cause_sigalrm ==
    /\ TasksIdle /\ pm = "expiring" /\ Expired(pm_timers, now)
    /\ LET u == Head(pm_timers).tp
           again == mp_interval[u] > 0
       IN \E dies \in BOOLEAN :
          /\ pm_timers' = IF again /\ ~dies
                          THEN tmrs_settimer(Tail(pm_timers), u, mp_interval[u])
                          ELSE Tail(pm_timers)
          /\ ALARM_ON' = IF again /\ ~dies THEN ALARM_ON ELSE ALARM_ON \ {u}
          /\ IN_USE' = IF dies THEN IN_USE \ {u} ELSE IN_USE
    /\ UNCHANGED <<kvars, pm, now, mp_interval, dvars>>

(* The end of pm_expire_timers(). *)
RescheduleAfterExpiry ==
    /\ TasksIdle /\ pm = "expiring" /\ ~Expired(pm_timers, now)
    /\ IF pm_timers = <<>> THEN pm' = "idle" /\ UNCHANGED sys
       ELSE pm' = "alarm" /\ Request(PM, HeadTime(pm_timers))
    /\ now' = 0
    /\ UNCHANGED <<clock_timers, next_timeout, clk, realtime, notified, alarm,
                   pm_timers, IN_USE, ALARM_ON, mp_interval, dvars>>

-----------------------------------------------------------------------------
(* A driver with an alarm of its own that also calls tickdelay(). *)

DriverReady == TasksIdle /\ drv = "idle"

(* sys_setalarm() with a relative time, or with none. *)
DriverAlarm(e) ==
    /\ DriverReady
    /\ Request(Driver, e) /\ drv' = "set"
    /\ expects' = (e # NEVER)
    /\ UNCHANGED <<clock_timers, next_timeout, clk, realtime, notified, alarm,
                   pvars, left, delay>>

(* The driver's main loop is given the notification. *)
DriverReceive ==
    /\ DriverReady /\ Driver \in alarm
    /\ alarm' = alarm \ {Driver}
    /\ expects' = FALSE
    /\ UNCHANGED <<clock_timers, next_timeout, clk, realtime, notified, sys,
                   pvars, drv, left, delay>>

tickdelay ==
    /\ DriverReady /\ Delay > 0
    /\ Request(Driver, Delay) /\ drv' = "call" /\ delay' = Delay
    /\ UNCHANGED <<clock_timers, next_timeout, clk, realtime, notified, alarm,
                   pvars, left, expects>>

(* receive(CLOCK) returns, and the alarm there was before is set again.     *)
(* `left' is the time that alarm had left when the delay began.             *)
DelayOver ==
    /\ TasksIdle /\ drv = "delay" /\ Driver \in alarm
    /\ alarm' = alarm \ {Driver}
    /\ delay' = 0
    /\ IF left > 0
       THEN /\ Request(Driver, IF left > Delay THEN left - Delay ELSE 1) /\ drv' = "back"
       ELSE /\ drv' = "idle" /\ UNCHANGED sys
    /\ left' = 0
    /\ UNCHANGED <<clock_timers, next_timeout, clk, realtime, notified,
                   pvars, expects>>

-----------------------------------------------------------------------------
Init ==
    /\ clock_timers = <<>> /\ next_timeout = NEVER
    /\ clk = "wait" /\ realtime = 0 /\ notified = FALSE
    /\ alarm = {} /\ sys = None
    /\ pm_timers = <<>> /\ pm = "idle" /\ now = 0
    /\ IN_USE = User /\ ALARM_ON = {} /\ mp_interval = [u \in User |-> 0]
    /\ drv = "idle" /\ left = 0 /\ delay = 0 /\ expects = FALSE

ClockTask == do_clocktick \/ Expire \/ ExpireEnd \/ clock_task

SystemTask == do_setalarm \/ SetNextTimeout

PMExpiry == pm_expire_timers \/ cause_sigalrm \/ RescheduleAfterExpiry

PMCall == \E u \in User :
    \/ \E t \in Ticks, i \in Intervals : set_alarm(u, t, i)
    \/ clear_alarm(u) \/ exit_proc(u) \/ do_fork(u)

DriverStep ==
    \/ \E e \in DriverTicks \cup {NEVER} : DriverAlarm(e)
    \/ DriverReceive
    \/ tickdelay \/ DelayOver

Next == clock_handler \/ ClockTask \/ SystemTask \/ PMExpiry \/ PMCall \/ DriverStep

Spec == Init /\ [][Next]_vars

(* The clock never stops (strongly: the bound InTime may hold it up), and   *)
(* the tasks are given the processor.  PM gets its turn among the other     *)
(* processes when the tasks leave it to them, which Scheduler shows.        *)
Fairness ==
    /\ SF_vars(clock_handler) /\ WF_vars(ClockTask) /\ WF_vars(SystemTask)
    /\ SF_vars(PMExpiry)

FairSpec == Spec /\ Fairness

-----------------------------------------------------------------------------
Timer(O) == [tp : O, exp : -(MaxLate + 1) .. NEVER - 1]

TypeOK ==
    /\ clock_timers \in Seq(Timer(Owner)) /\ pm_timers \in Seq(Timer(User))
    /\ next_timeout \in Int /\ realtime \in Int /\ now \in Int
    /\ clk \in {"wait", "start", "loop", "receive"} /\ notified \in BOOLEAN
    /\ alarm \subseteq Owner
    /\ sys \in [at : {"none", "list", "next"}, who : Owner, exp : Int]
    /\ pm \in {"idle", "expiring", "alarm"}
    /\ ALARM_ON \subseteq User /\ IN_USE \subseteq User
    /\ mp_interval \in [User -> Intervals \cup {0}]
    /\ drv \in {"idle", "set", "call", "delay", "back"}
    /\ left \in Nat /\ delay \in Nat /\ expects \in BOOLEAN

Sorted(s) == \A i, j \in DOMAIN s : i < j => s[i].exp <= s[j].exp /\ s[i].tp # s[j].tp

(* When PM waits for messages and has timers, its one alarm at the kernel   *)
(* is set no later than the first of them, or its notification is there:    *)
(* pm_set_timer() and pm_cancel_timer() only move the alarm when they find  *)
(* that they have to, and pm_expire_timers() moves it once for all.         *)
(* Likewise, between the calls of the system task and the clock task, the   *)
(* next_timeout that the interrupt handler looks at is no later than the    *)
(* first timer of the kernel's list.                                        *)
AlarmCovers ==
    /\ pm = "idle" /\ pm_timers # <<>> =>
           \/ PM \in alarm
           \/ Armed(clock_timers, PM) /\ TimeOf(clock_timers, PM) <= HeadTime(pm_timers)
    /\ TasksIdle => next_timeout <= HeadTime(clock_timers)

(* Both lists of timers are sorted by time and hold a timer at most once,   *)
(* however timers are set again, cancelled and run out; and a process has a *)
(* timer in PM's list exactly when it exists and is marked as having one,   *)
(* also when the signal of an alarm ends the process while the list is      *)
(* being walked, and when its slot is used again.                           *)
TimersOfTheLiving ==
    /\ Sorted(clock_timers) /\ Sorted(pm_timers)
    /\ ALARM_ON = {u \in User : Armed(pm_timers, u)} /\ ALARM_ON \subseteq IN_USE

(* An alarm that is due is given to its process, through the kernel's list, *)
(* the notification of PM and PM's list.                                    *)
AlarmsRing == \A u \in User :
    (Armed(pm_timers, u) /\ TimeOf(pm_timers, u) <= 0)
        ~> ~(Armed(pm_timers, u) /\ TimeOf(pm_timers, u) <= 0)

(* tickdelay() does not return before the ticks have passed, whatever alarm *)
(* the process had (the comment at its head says that it works even then).  *)
DelayHolds == [][drv = "delay" /\ drv' # "delay" => delay = 0]_vars

(* An alarm that a driver set before tickdelay() is still to come after it. *)
AlarmRestored ==
    drv = "idle" /\ expects => Driver \in alarm \/ Armed(clock_timers, Driver)
=============================================================================
