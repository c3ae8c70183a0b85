---------------------------- MODULE Philosophers ----------------------------
(***************************************************************************)
(* The dining philosophers of the course notes, as threads with a mutex    *)
(* and a semaphore per philosopher: Codes/dinning.c.  EATING is 0 and      *)
(* main() does not set state[]: everybody starts as one that eats, and is  *)
(* taken for one by its neighbours until it has asked for its forks once.  *)
(***************************************************************************)
EXTENDS Integers, ProgramParameters

Phil == 0 .. N - 1

LEFT(i)  == (i + N - 1) % N
RIGHT(i) == (i + 1) % N

VARIABLES
    state,  \* THINKING, HUNGRY or EATING, under the mutex
    mutex,  \* count of the semaphore `mutex'
    S,      \* count of the semaphore of each philosopher
    pc      \* where each thread is

vars == <<state, mutex, S, pc>>

Points == {"think", "hungry", "leave", "wait", "eat", "put", "left", "right", "done"}

Goto(i, from, to) == pc[i] = from /\ pc' = [pc EXCEPT ![i] = to]

(* dispatch_semaphore_wait(mutex) and dispatch_semaphore_signal(mutex) *)
Down(i, from, to) == Goto(i, from, to) /\ mutex > 0 /\ mutex' = mutex - 1
                     /\ UNCHANGED <<state, S>>
Up(i, from, to)   == Goto(i, from, to) /\ mutex' = mutex + 1 /\ UNCHANGED <<state, S>>

(* test(i), with state[] being st *)
test(i, st) ==
    LET eats == st[i] = "HUNGRY" /\ st[LEFT(i)] # "EATING" /\ st[RIGHT(i)] # "EATING"
    IN  /\ state' = IF eats THEN [st EXCEPT ![i] = "EATING"] ELSE st
        /\ S' = IF eats THEN [S EXCEPT ![i] = @ + 1] ELSE S

-----------------------------------------------------------------------------
(* take_fork() *)

TakeMutex(i) == Down(i, "think", "hungry")

TakeTest(i) ==
    /\ Goto(i, "hungry", "leave")
    /\ test(i, [state EXCEPT ![i] = "HUNGRY"])
    /\ UNCHANGED mutex

(* The mutex is kept until the philosopher has got its forks. *)
TakeLeave_F(i) == S[i] > 0 /\ Up(i, "leave", "wait")

TakeLeave(i) == Up(i, "leave", "wait")

(* The semaphore is signalled, as the last line of Codes/philosopher.c has it. *)
TakeWait_F(i) ==
    /\ Goto(i, "wait", "eat")
    /\ S[i] < MaxCount /\ S' = [S EXCEPT ![i] = @ + 1]
    /\ UNCHANGED <<state, mutex>>

TakeWait(i) ==
    /\ Goto(i, "wait", "eat")
    /\ S[i] > 0 /\ S' = [S EXCEPT ![i] = @ - 1]
    /\ UNCHANGED <<state, mutex>>

-----------------------------------------------------------------------------
(* put_fork() *)

PutMutex(i) == Down(i, "eat", "put")

PutState(i) ==
    /\ Goto(i, "put", "left")
    /\ state' = [state EXCEPT ![i] = "THINKING"]
    /\ UNCHANGED <<mutex, S>>

PutLeft(i)  == Goto(i, "left", "right") /\ test(LEFT(i), state) /\ UNCHANGED mutex

PutRight(i) == Goto(i, "right", "done") /\ test(RIGHT(i), state) /\ UNCHANGED mutex

PutLeave(i) == Up(i, "done", "think")

philospher(i) ==
    \/ TakeMutex(i) \/ TakeTest(i) \/ TakeLeave(i) \/ TakeWait(i)
    \/ PutMutex(i) \/ PutState(i) \/ PutLeft(i) \/ PutRight(i) \/ PutLeave(i)

Init ==
    /\ state = [i \in Phil |-> "EATING"]
    /\ mutex = 1 /\ S = [i \in Phil |-> 0]
    /\ pc = [i \in Phil |-> "think"]

Next == \E i \in Phil : philospher(i)

Spec == Init /\ [][Next]_vars

-----------------------------------------------------------------------------
TypeOK ==
    /\ state \in [Phil -> {"THINKING", "HUNGRY", "EATING"}]
    /\ mutex \in 0 .. 1 /\ S \in [Phil -> 0 .. MaxCount]
    /\ pc \in [Phil -> Points]

(* Two neighbours never eat at the same time: they share a fork.             *)
NeighboursApart == \A i \in Phil : pc[i] = "eat" => pc[RIGHT(i)] # "eat"

(* The semaphore of a philosopher has been raised exactly when it has been   *)
(* given the forks and has not come past its wait: test() is called for it   *)
(* by three threads, and its turn is neither lost nor given twice.           *)
TurnGivenOnce == \A i \in Phil :
    S[i] = IF state[i] = "EATING" /\ pc[i] \in {"leave", "wait"} THEN 1 ELSE 0

(* A philosopher that waits has a neighbour that is down as eating, that is  *)
(* about to look at it, or that waits as well: one that was down as eating   *)
(* before its first meal asks for forks without looking at its neighbours.   *)
WaitsForNeighbour == \A i \in Phil :
    pc[i] = "wait" /\ S[i] = 0 =>
        \/ {state[LEFT(i)], state[RIGHT(i)]} \cap {"EATING", "HUNGRY"} # {}
        \/ pc[RIGHT(i)] = "left" \/ pc[LEFT(i)] \in {"left", "right"}

(* They do not all wait for each other: somebody can go on, or has been      *)
(* given its turn.  The waits of the first meals may form a chain around     *)
(* the table, but it ends with whoever asked last.                           *)
NotAllWait == \E i \in Phil : pc[i] # "wait" \/ S[i] > 0

(* The meals go on: again and again somebody eats.  Not everybody need: two  *)
(* philosophers can starve the one between them.                             *)
MealsGoOn == []<>(\E i \in Phil : pc[i] = "eat")
=============================================================================
