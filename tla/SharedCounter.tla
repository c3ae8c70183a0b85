---------------------------- MODULE SharedCounter ---------------------------
(* Two threads that add to one counter: unprotected (Codes/race.c), under a *)
(* mutex (Codes/mutex.c) and taking turns (Codes/mutual.c). As in race.s,   *)
(* mails++ is three instructions: a load, an add and a store.               *)
EXTENDS Integers, ProgramParameters

Thread == {0, 1}

VARIABLES mails, turn, mutex, i, eax, pc

vars == <<mails, turn, mutex, i, eax, pc>>

Free == 2  \* nobody holds the mutex

Goto(t, from, to) == pc[t] = from /\ pc' = [pc EXCEPT ![t] = to]

(* The lock is tested but not taken. *)
Enter_F(t) ==
    /\ i[t] < Rounds /\ Goto(t, "loop", "load")
    /\ Discipline = "mutual" => turn = t
    /\ Discipline = "mutex" => mutex = Free
    /\ UNCHANGED <<mails, turn, mutex, i, eax>>

(* The head of the loop, with pthread_mutex_lock() or the busy waiting. *)
Enter(t) ==
    /\ i[t] < Rounds /\ Goto(t, "loop", "load")
    /\ Discipline = "mutual" => turn = t
    /\ IF Discipline = "mutex" THEN mutex = Free /\ mutex' = t ELSE UNCHANGED mutex
    /\ UNCHANGED <<mails, turn, i, eax>>

(* while (turn != t); *)
Spin(t) ==
    /\ i[t] < Rounds /\ pc[t] = "loop"
    /\ Discipline = "mutual" /\ turn # t
    /\ UNCHANGED vars

Load(t) ==
    /\ Goto(t, "load", "store")
    /\ eax' = [eax EXCEPT ![t] = mails]
    /\ UNCHANGED <<mails, turn, mutex, i>>

Store(t) ==
    /\ Goto(t, "store", "leave")
    /\ mails' = eax[t] + 1
    /\ UNCHANGED <<turn, mutex, i, eax>>

(* The end of the loop, with pthread_mutex_unlock() or the turn passed on. *)
Leave(t) ==
    /\ Goto(t, "leave", "loop")
    /\ i' = [i EXCEPT ![t] = @ + 1]
    /\ turn' = IF Discipline = "mutual" THEN 1 - t ELSE turn
    /\ mutex' = IF Discipline = "mutex" THEN Free ELSE mutex
    /\ UNCHANGED <<mails, eax>>

Finished == \A t \in Thread : i[t] = Rounds

Init ==
    /\ mails = 0 /\ turn = 0 /\ mutex = Free
    /\ i = [t \in Thread |-> 0] /\ eax = i /\ pc = [t \in Thread |-> "loop"]

routine(t) == Spin(t) \/ Enter(t) \/ Load(t) \/ Store(t) \/ Leave(t)

(* main() joins both threads; after that nothing happens. *)
Next == (\E t \in Thread : routine(t)) \/ (Finished /\ UNCHANGED vars)

Spec == Init /\ [][Next]_vars

-----------------------------------------------------------------------------
TypeOK ==
    /\ mails \in 0 .. 2 * Rounds /\ turn \in Thread /\ mutex \in Thread \cup {Free}
    /\ i \in [Thread -> 0 .. Rounds] /\ eax \in [Thread -> 0 .. 2 * Rounds]
    /\ pc \in [Thread -> {"loop", "load", "store", "leave"}]

(* With the mutex or the turns no increment is lost: whenever no thread is  *)
(* inside the loop's body mails is the number of passes made.               *)
MailsCounted == (\A t \in Thread : pc[t] = "loop") => mails = i[0] + i[1]

(* Without them mails may end anywhere between 2, as every pass but a last  *)
(* one of each thread may be undone by the other's stale store, and the     *)
(* number of passes. It cannot end at 1.                                    *)
RaceBounds == Finished => mails \in (IF Rounds = 1 THEN 1 ELSE 2) .. 2 * Rounds

(* Both threads finish: nobody spins for a turn that never comes.           *)
BothFinish == <>Finished
=============================================================================
