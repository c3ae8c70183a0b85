----------------------------- MODULE MCIrqHooks -----------------------------
(***************************************************************************)
(* Small instances of IrqHooks: two drivers with a line each, two drivers  *)
(* that share line 11, and two that share line 5, one giving hooks up.     *)
(* Where a line is shared, interrupts come during clear_proc() as well; a  *)
(* panic of generic_handler() ends such a behaviour.                       *)
(***************************************************************************)
EXTENDS IrqHooks

CONSTANT Workloads
VARIABLE workload

Nobody == {}
OwnLine == [d \in Driver |-> IF d = "audio" THEN {5} ELSE {11}]
Line5 == [d \in Driver |-> {5}]
Line11 == [d \in Driver |-> {11}]
Audio == {"audio"}
Net == {"net"}

Own == INSTANCE IrqHooks WITH LinesOf <- OwnLine, Disablers <- Nobody, Removers <- Nobody
Shared == INSTANCE IrqHooks WITH LinesOf <- Line11, Removers <- Nobody, WhileClearing <- TRUE
Removing == INSTANCE IrqHooks WITH LinesOf <- Line5, WhileClearing <- TRUE

MCInit == Init /\ workload \in Workloads

MCNext ==
    /\ \/ workload = "own" /\ Own!Next
       \/ workload = "remove" /\ Removing!Next
       \/ workload = "shared" /\ Shared!Next
    /\ UNCHANGED workload

MCSpec == MCInit /\ [][MCNext]_<<vars, workload>>

MCFairSpec == MCSpec /\ Fairness

(* Where no driver shares a line or gives a hook up, the interrupts of a   *)
(* line that has a handler are taken: irq_handle() masks the line, the     *)
(* driver's IRQ_ENABLE or the policy IRQ_REENABLE opens it again.          *)
OwnInterruptsTaken == workload = "own" => InterruptsTaken
=============================================================================
