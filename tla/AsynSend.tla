------------------------------ MODULE AsynSend ------------------------------
(***************************************************************************)
(* Asynchronous sending by a system process: the table that asynsend3()    *)
(* keeps in the process (lib/sysutil/asynsend.c) and the kernel's use of   *)
(* it (mini_senda and try_one in kernel/proc.c).  The kernel reads the     *)
(* table, and marks its entries as done, whenever a destination receives:  *)
(* between any two steps of asynsend3().                                   *)
(***************************************************************************)
EXTENDS Integers, FiniteSets, SequencesExt

CONSTANTS
    Dst, Msg,
    ASYN_NR,  \* entries in the table
    NIL       \* an address that was not written yet

Slot == 0 .. ASYN_NR - 1

ASSUME AsynAssumption == ASYN_NR \in Nat \ {0} /\ NIL \notin Dst \cup Msg

VARIABLES
    msgtable,              \* entries with dst, msg, noreply, valid and done
    first_slot, next_slot,
    pc,                    \* where asynsend3() is
    arg,                   \* what it was called with
    src_ind, dst_ind,      \* its indices while it moves entries together
    s_asyntab, s_asynsize, \* the part of the table the kernel looks at
    alive                  \* destinations that live and that may_send_to() allows

vars == <<msgtable, first_slot, next_slot, pc, arg, src_ind, dst_ind,
          s_asyntab, s_asynsize, alive>>

Empty == [dst |-> NIL, msg |-> NIL, noreply |-> FALSE, valid |-> FALSE, done |-> FALSE]

(* An entry whose message is still to be taken. *)
Pending(e) == e.valid /\ ~e.done

(* Slots the kernel looks at. *)
Covered == {i \in Slot : s_asyntab <= i /\ i < s_asyntab + s_asynsize}

First(S) == {i \in S : \A j \in S : i <= j}

(* The entry of table t that d is given, out of the slots S. *)
Found(t, S, d, replying) ==
    First({i \in S : Pending(t[i]) /\ t[i].dst = d /\ ~(replying /\ t[i].noreply)})

Done(t, S) == [i \in Slot |-> IF i \in S THEN [t[i] EXCEPT !.done = TRUE] ELSE t[i]]

-----------------------------------------------------------------------------
(* The kernel. *)

(* d receives, and try_one() looks for a message to it, if it may.          *)
try_one(d, replying) ==
    /\ d \in alive /\ Covered # {}
    /\ msgtable' = Done(msgtable, Found(msgtable, Covered, d, replying))
    /\ s_asynsize' = IF \E i \in Covered : Pending(msgtable[i]) THEN s_asynsize ELSE 0
    /\ UNCHANGED <<first_slot, next_slot, pc, arg, src_ind, dst_ind, s_asyntab, alive>>

(* mini_senda() on the entries from slot f on, when the processes in w wait *)
(* for a message, and those in r of them for a reply.  What is for a dead   *)
(* process, or denied by the IPC mask, is done with an error.               *)
mini_senda(f, n, w, r) ==
    LET S    == f .. f + n - 1
        dead == {i \in S : Pending(msgtable[i]) /\ msgtable[i].dst \notin alive}
        got  == UNION {Found(msgtable, S, d, d \in r) : d \in w \cap alive}
        t    == Done(msgtable, dead \cup got)
    IN  /\ msgtable' = t
        /\ s_asyntab' = f
        /\ s_asynsize' = IF \E i \in S : Pending(t[i]) THEN n ELSE 0

-----------------------------------------------------------------------------
(* asynsend3(arg.dst, arg.msg, arg.noreply) *)

(* The first entry that is not done, or the end. *)
FirstPending == LET S == {i \in first_slot .. next_slot - 1 : Pending(msgtable[i])}
                IN  IF S = {} THEN next_slot ELSE CHOOSE i \in S : \A j \in S : i <= j

(* Until the test for a full table. *)
asynsend3(d, m, nr) ==
    /\ pc = "idle"
    /\ arg' = [dst |-> d, msg |-> m, noreply |-> nr]
    /\ IF FirstPending >= next_slot
       THEN first_slot' = 0 /\ next_slot' = 0
       ELSE first_slot' = FirstPending /\ UNCHANGED next_slot
    /\ pc' = IF next_slot' >= ASYN_NR THEN "stop" ELSE "dst"
    /\ UNCHANGED <<msgtable, src_ind, dst_ind, s_asyntab, s_asynsize, alive>>

(* The kernel goes on looking at the table. *)
StopNot_F ==
    /\ pc = "stop"
    /\ src_ind' = first_slot /\ dst_ind' = 0
    /\ pc' = "copy"
    /\ UNCHANGED <<msgtable, first_slot, next_slot, arg, s_asyntab, s_asynsize, alive>>

(* senda(NULL, 0) *)
Stop ==
    /\ pc = "stop"
    /\ s_asyntab' = -1 /\ s_asynsize' = 0
    /\ src_ind' = first_slot /\ dst_ind' = 0
    /\ pc' = "copy"
    /\ UNCHANGED <<msgtable, first_slot, next_slot, arg, alive>>

(* One turn of the loop that moves the pending entries to the front. *)
Copy ==
    /\ pc = "copy" /\ src_ind < next_slot
    /\ IF Pending(msgtable[src_ind])
       THEN /\ msgtable' = [msgtable EXCEPT ![dst_ind] = msgtable[src_ind]]
            /\ dst_ind' = dst_ind + 1
       ELSE UNCHANGED <<msgtable, dst_ind>>
    /\ src_ind' = src_ind + 1
    /\ UNCHANGED <<first_slot, next_slot, pc, arg, s_asyntab, s_asynsize, alive>>

CopyEnd ==
    /\ pc = "copy" /\ src_ind = next_slot
    /\ first_slot' = 0 /\ next_slot' = dst_ind
    /\ pc' = IF dst_ind >= ASYN_NR THEN "panic" ELSE "dst"
    /\ src_ind' = 0 /\ dst_ind' = 0
    /\ UNCHANGED <<msgtable, arg, s_asyntab, s_asynsize, alive>>

(* The three parts of the entry are written one after the other. *)
WriteDst ==
    /\ pc = "dst"
    /\ msgtable' = [msgtable EXCEPT ![next_slot].dst = arg.dst]
    /\ pc' = "msg"
    /\ UNCHANGED <<first_slot, next_slot, arg, src_ind, dst_ind,
                   s_asyntab, s_asynsize, alive>>

WriteMsg ==
    /\ pc = "msg"
    /\ msgtable' = [msgtable EXCEPT ![next_slot].msg = arg.msg]
    /\ pc' = "flags"
    /\ UNCHANGED <<first_slot, next_slot, arg, src_ind, dst_ind,
                   s_asyntab, s_asynsize, alive>>

(* "Has to be last" *)
WriteFlags ==
    /\ pc = "flags"
    /\ msgtable' = [msgtable EXCEPT ![next_slot] =
           [@ EXCEPT !.noreply = arg.noreply, !.valid = TRUE, !.done = FALSE]]
    /\ next_slot' = next_slot + 1
    /\ pc' = "senda"
    /\ UNCHANGED <<first_slot, arg, src_ind, dst_ind, s_asyntab, s_asynsize, alive>>

(* The number of new entries is passed, not that of all. *)
SendaLast_F(w, r) ==
    /\ pc = "senda"
    /\ mini_senda(next_slot - 1, 1, w, r)
    /\ pc' = "idle"
    /\ arg' = [dst |-> NIL, msg |-> NIL, noreply |-> FALSE]
    /\ UNCHANGED <<first_slot, next_slot, src_ind, dst_ind, alive>>

Senda(w, r) ==
    /\ pc = "senda"
    /\ mini_senda(first_slot, next_slot - first_slot, w, r)
    /\ pc' = "idle"
    /\ arg' = [dst |-> NIL, msg |-> NIL, noreply |-> FALSE]
    /\ UNCHANGED <<first_slot, next_slot, src_ind, dst_ind, alive>>

(* clear_endpoint() of a destination: NO_ENDPOINT is set. *)
Die(d) ==
    /\ d \in alive
    /\ alive' = alive \ {d}
    /\ UNCHANGED <<msgtable, first_slot, next_slot, pc, arg, src_ind, dst_ind,
                   s_asyntab, s_asynsize>>

-----------------------------------------------------------------------------
Init ==
    /\ msgtable = [i \in Slot |-> Empty]
    /\ first_slot = 0 /\ next_slot = 0 /\ pc = "idle"
    /\ arg = [dst |-> NIL, msg |-> NIL, noreply |-> FALSE]
    /\ src_ind = 0 /\ dst_ind = 0
    /\ s_asyntab = -1 /\ s_asynsize = 0
    /\ alive \in SUBSET Dst

Next ==
    \/ \E d \in Dst, m \in Msg, nr \in BOOLEAN : asynsend3(d, m, nr)
    \/ Stop \/ Copy \/ CopyEnd \/ WriteDst \/ WriteMsg \/ WriteFlags
    \/ \E w \in SUBSET Dst : \E r \in SUBSET w : Senda(w, r)
    \/ \E d \in Dst : Die(d) \/ \E replying \in BOOLEAN : try_one(d, replying)

Spec == Init /\ [][Next]_vars

-----------------------------------------------------------------------------
TypeOK ==
    /\ msgtable \in [Slot -> [dst : Dst \cup {NIL}, msg : Msg \cup {NIL},
                              noreply : BOOLEAN, valid : BOOLEAN, done : BOOLEAN]]
    /\ first_slot \in 0 .. ASYN_NR /\ next_slot \in first_slot .. ASYN_NR
    /\ pc \in {"idle", "stop", "copy", "dst", "msg", "flags", "senda", "panic"}
    /\ arg \in [dst : Dst \cup {NIL}, msg : Msg \cup {NIL}, noreply : BOOLEAN]
    /\ src_ind \in 0 .. ASYN_NR /\ dst_ind \in 0 .. ASYN_NR
    /\ s_asyntab \in -1 .. ASYN_NR - 1 /\ s_asynsize \in 0 .. ASYN_NR
    /\ alive \subseteq Dst

(* Slots that hold messages in the order in which they were sent: while     *)
(* entries are moved, those moved already and those still to be moved.      *)
Current == IF pc = "copy" THEN (0 .. dst_ind - 1) \cup (src_ind .. next_slot - 1)
           ELSE first_slot .. next_slot - 1

Waiting(d) == {i \in Current : Pending(msgtable[i]) /\ msgtable[i].dst = d}

(* The members of S in order. *)
Ascending(S) == [k \in 1 .. Cardinality(S) |->
                    CHOOSE i \in S : Cardinality({j \in S : j < i}) = k - 1]

(* What the entries S of table t hold, in order. *)
Contents(t, S) == [k \in 1 .. Cardinality(S) |->
    [msg |-> t[Ascending(S)[k]].msg, noreply |-> t[Ascending(S)[k]].noreply]]

Queue(d) == Contents(msgtable, Waiting(d))

Channel == INSTANCE AsyncChannel WITH chan <- [d \in Dst |-> Queue(d)]

(* Each message is received once, whole, and in its turn, wherever it is    *)
(* moved in the table and whenever receivers and the kernel look at it.     *)
ChannelSpec == Channel!Spec

(* Between calls of asynsend3() the kernel looks at every entry that is     *)
(* not done, so that no message is left that only a further call would let  *)
(* go; and asynsend3() panics only when no receiver has taken any of the    *)
(* ASYN_NR messages that are in the table.                                  *)
NothingStuck ==
    /\ pc = "idle" => \A i \in Current : Pending(msgtable[i]) => i \in Covered
    /\ pc = "panic" => \A i \in Slot : Pending(msgtable[i])
=============================================================================
