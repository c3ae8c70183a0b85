---------------------------- MODULE MCAsynSend ----------------------------
(***************************************************************************)
(* A small instance of AsynSend, with two workloads: different messages to *)
(* one destination, whose order matters, and messages to two destinations. *)
(***************************************************************************)
EXTENDS AsynSend

VARIABLE workload

OneDst == {"tty"}
OneMsg == {"reply"}

Order == INSTANCE AsynSend WITH Dst <- OneDst
Spread == INSTANCE AsynSend WITH Msg <- OneMsg

MCInit == Init /\ workload \in {"order", "spread"}

MCNext ==
    /\ \/ workload = "order" /\ Order!Next
       \/ workload = "spread" /\ Spread!Next
    /\ UNCHANGED workload

MCSpec == MCInit /\ [][MCNext]_<<vars, workload>>
=============================================================================
