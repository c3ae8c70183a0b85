---------------------------- MODULE MCForkQueue -----------------------------
(* A server, slot 1, forks while a user process, 3, may be queued at it,   *)
(* as RS does: the step that QueueForked of KernelIPC names.               *)
EXTENDS KernelIPC

Tasks == {-3, -2, -1}
SmallProc == Tasks \cup {0, 1, 3, 4}
SmallSys == Tasks \cup {0, 1}
Ids == [p \in SysProc |-> p + 4]
TrapMask == [q \in Priv |-> CASE q \in Tasks   -> {"RECEIVE"}
                              [] q = USER_PRIV -> {"SENDREC"}
                              [] OTHER         -> Traps]
SendMask == {<<0, 1>>, <<1, 0>>, <<1, 3>>, <<3, 1>>, <<3, 0>>, <<0, 3>>}
ServerPrograms ==
    {<<0, "RECEIVE", ANY>>, <<1, "RECEIVE", ANY>>, <<1, "SENDREC", 0>>, <<3, "SENDREC", 1>>}
Nobody == {}
Slot1 == {1}
Slot4 == {4}
=============================================================================
