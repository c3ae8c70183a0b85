----------------------------- MODULE FuelStation ----------------------------
(* Codes/conditionvar2.c: threads that fill fuel, and cars that wait on a   *)
(* condition variable until there is enough of it.                          *)
(* An update of fuel is a read and a write.                                 *)
EXTENDS Integers, FiniteSets, FiniteSetsExt, ProgramParameters

Thread == Filler \cup Car

VARIABLES
    fuel, mutexFuel,
    waiting,  \* the threads in condFuel's queue
    pc,
    got,      \* the fuel a thread has read
    filled,   \* passes a filler has made
    sold      \* times that fuel was taken

vars == <<fuel, mutexFuel, waiting, pc, got, filled, sold>>

Goto(t, from, to) == pc[t] = from /\ pc' = [pc EXCEPT ![t] = to]

(* The mutex is free after its owner unlocks it. Unlocked by another thread *)
(* it may be freed all the same, or the call may fail.                      *)
UnlockBy(t) == mutexFuel' \in IF mutexFuel = t THEN {NIL} ELSE {NIL, mutexFuel}

(* The mutex is not waited for. *)
LockNot_F(t) ==
    /\ t \in Filler => filled[t] < Fills
    /\ Goto(t, "lock", IF t \in Car THEN "test" ELSE "read")
    /\ mutexFuel' = t
    /\ UNCHANGED <<fuel, waiting, got, filled, sold>>

Lock(t) ==
    /\ t \in Filler => filled[t] < Fills
    /\ Goto(t, "lock", IF t \in Car THEN "test" ELSE "read")
    /\ mutexFuel = NIL /\ mutexFuel' = t
    /\ UNCHANGED <<fuel, waiting, got, filled, sold>>

Read(t) ==
    /\ Goto(t, "read", "write")
    /\ got' = [got EXCEPT ![t] = fuel]
    /\ UNCHANGED <<fuel, mutexFuel, waiting, filled, sold>>

(* A car starts again at its test without locking, as in Codes/conditionvar.c. *)
Unlock_F(t) ==
    /\ UnlockBy(t)
    /\ Goto(t, "unlock", IF t \in Filler THEN "broadcast" ELSE "test")
    /\ UNCHANGED <<fuel, waiting, got, filled, sold>>

Unlock(t) ==
    /\ UnlockBy(t)
    /\ Goto(t, "unlock", IF t \in Filler THEN "broadcast" ELSE "done")
    /\ UNCHANGED <<fuel, waiting, got, filled, sold>>

-----------------------------------------------------------------------------
(* fuel_filling() *)

Add(t) ==
    /\ t \in Filler /\ Goto(t, "write", "unlock")
    /\ fuel' = got[t] + Fill
    /\ filled' = [filled EXCEPT ![t] = @ + 1]
    /\ got' = [got EXCEPT ![t] = 0]
    /\ UNCHANGED <<mutexFuel, waiting, sold>>

(* pthread_cond_broadcast(), after the unlock; pthread_cond_signal() in the *)
(* program with one car does the same. Then the filler sleeps a second.     *)
Broadcast(t) ==
    /\ Goto(t, "broadcast", "lock")
    /\ waiting' = {}
    /\ UNCHANGED <<fuel, mutexFuel, got, filled, sold>>

-----------------------------------------------------------------------------
(* car() *)

(* pthread_cond_wait() gives up the mutex and starts to wait in one step.   *)
CondWait(t) ==
    /\ Goto(t, "test", "wait") /\ fuel < Need
    /\ UnlockBy(t)
    /\ waiting' = waiting \cup {t}
    /\ UNCHANGED <<fuel, got, filled, sold>>

(* A car that was woken up takes the mutex again and goes to the test. *)
Wakeup(t) ==
    /\ Goto(t, "wait", "test") /\ t \notin waiting
    /\ mutexFuel = NIL /\ mutexFuel' = t
    /\ UNCHANGED <<fuel, waiting, got, filled, sold>>

(* pthread_cond_wait() may also return when nobody has signalled. *)
SpuriousWakeup(t) ==
    /\ waiting' = waiting \ {t} /\ t \in waiting
    /\ UNCHANGED <<fuel, mutexFuel, pc, got, filled, sold>>

EnoughFuel(t) ==
    /\ Goto(t, "test", "read") /\ fuel >= Need
    /\ UNCHANGED <<fuel, mutexFuel, waiting, got, filled, sold>>

Take(t) ==
    /\ t \in Car /\ Goto(t, "write", "unlock")
    /\ fuel' = got[t] - Need
    /\ sold' = sold + 1
    /\ got' = [got EXCEPT ![t] = 0]
    /\ UNCHANGED <<mutexFuel, waiting, filled>>

-----------------------------------------------------------------------------
Init ==
    /\ fuel = 0 /\ mutexFuel = NIL /\ waiting = {} /\ sold = 0
    /\ pc = [t \in Thread |-> "lock"]
    /\ got = [t \in Thread |-> 0] /\ filled = [t \in Filler |-> 0]

fuel_filling(t) == Lock(t) \/ Read(t) \/ Add(t) \/ Unlock(t) \/ Broadcast(t)

car(t) ==
    \/ Lock(t) \/ CondWait(t) \/ Wakeup(t) \/ EnoughFuel(t)
    \/ Read(t) \/ Take(t) \/ Unlock(t)

Next ==
    \/ \E t \in Filler : fuel_filling(t)
    \/ \E t \in Car : car(t) \/ SpuriousWakeup(t)

Spec == Init /\ [][Next]_vars

-----------------------------------------------------------------------------
MaxFuel == Fill * Fills * Cardinality(Filler)

TypeOK ==
    /\ fuel \in 0 .. MaxFuel /\ mutexFuel \in Thread \cup {NIL} /\ waiting \subseteq Car
    /\ pc \in [Thread -> {"lock", "test", "wait", "read", "write", "unlock", "broadcast", "done"}]
    /\ got \in [Thread -> 0 .. MaxFuel] /\ filled \in [Filler -> 0 .. Fills] /\ sold \in Nat

(* The fuel there is is what was filled less what was taken: no update is   *)
(* lost, whichever of the threads come between its read and its write.      *)
FuelAccounted == fuel = Fill * MapThenSumSet(LAMBDA t : filled[t], Filler) - Need * sold

(* Every car that the fuel filled suffices for gets it, unless cars are     *)
(* woken up for nothing again and again and keep the fillers from the       *)
(* mutex: no wakeup is lost between a car's test of fuel and its waiting.   *)
CarsServed ==
    \/ <>(\A c \in Car : pc[c] = "done")
    \/ []<><<\E c \in Car : SpuriousWakeup(c)>>_vars
=============================================================================
