------------------------------ MODULE MCTimers ------------------------------
(***************************************************************************)
(* A small instance of Timers, with two workloads: user processes with     *)
(* interval timers next to a driver with an alarm, and a driver that also  *)
(* sleeps with tickdelay() next to user processes with plain alarms.       *)
(***************************************************************************)
EXTENDS Timers

VARIABLE workload

Two == {2}
OneThree == {1, 3}
NoInterval == {0}
NoneOrTwo == {0, 2}

UserAlarms == INSTANCE Timers WITH Delay <- 0
DriverDelays == INSTANCE Timers WITH Ticks <- Two, Intervals <- NoInterval

MCInit == Init /\ workload \in {"alarms", "delays"}

MCNext ==
    /\ \/ workload = "alarms" /\ UserAlarms!Next
       \/ workload = "delays" /\ DriverDelays!Next
    /\ UNCHANGED workload

MCSpec == MCInit /\ [][MCNext]_<<vars, workload>> /\ Fairness
=============================================================================
