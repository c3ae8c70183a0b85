---------------------------- MODULE BoundedBuffer ---------------------------
(* The producers and consumers of Codes/producer.c: threads that share a    *)
(* buffer, with semaphores that count its empty and its full slots and a    *)
(* mutex around the buffer and its count.                                   *)
EXTENDS Integers, Sequences, FiniteSets, ProgramParameters

Thread == Producer \cup Consumer

VARIABLES
    semEmpty, semFull, mutexBuffer,  \* the mutex is held by a thread or NIL
    buffer, count,
    pc,  \* "begin", "lock", "use", "count", "unlock" or "signal"
    x    \* what the thread has produced or has got

vars == <<semEmpty, semFull, mutexBuffer, buffer, count, pc, x>>

Goto(t, from, to) == pc[t] = from /\ pc' = [pc EXCEPT ![t] = to]

(* The mutex is taken although another thread holds it. *)
LockNot_F(t) ==
    /\ Goto(t, "lock", "use")
    /\ mutexBuffer' = t
    /\ UNCHANGED <<semEmpty, semFull, buffer, count, x>>

(* pthread_mutex_lock() and pthread_mutex_unlock() *)
Lock(t) ==
    /\ Goto(t, "lock", "use")
    /\ mutexBuffer = NIL /\ mutexBuffer' = t
    /\ UNCHANGED <<semEmpty, semFull, buffer, count, x>>

Unlock(t) ==
    /\ Goto(t, "unlock", "signal")
    /\ mutexBuffer' = NIL
    /\ UNCHANGED <<semEmpty, semFull, buffer, count, x>>

-----------------------------------------------------------------------------
(* producer() *)

Produce(t, i) ==
    /\ Goto(t, "begin", "lock")
    /\ semEmpty > 0 /\ semEmpty' = semEmpty - 1
    /\ x' = [x EXCEPT ![t] = i]
    /\ UNCHANGED <<semFull, mutexBuffer, buffer, count>>

Store(t) ==
    /\ t \in Producer /\ Goto(t, "use", "count")
    /\ buffer' = [buffer EXCEPT ![count] = x[t]]
    /\ UNCHANGED <<semEmpty, semFull, mutexBuffer, count, x>>

Increment(t) ==
    /\ t \in Producer /\ Goto(t, "count", "unlock")
    /\ count' = count + 1
    /\ UNCHANGED <<semEmpty, semFull, mutexBuffer, buffer, x>>

SignalFull(t) ==
    /\ t \in Producer /\ Goto(t, "signal", "begin")
    /\ semFull' = semFull + 1
    /\ x' = [x EXCEPT ![t] = NIL]
    /\ UNCHANGED <<semEmpty, mutexBuffer, buffer, count>>

-----------------------------------------------------------------------------
(* consumer() *)

AwaitFull(t) ==
    /\ Goto(t, "begin", "lock")
    /\ semFull > 0 /\ semFull' = semFull - 1
    /\ UNCHANGED <<semEmpty, mutexBuffer, buffer, count, x>>

Fetch(t) ==
    /\ t \in Consumer /\ Goto(t, "use", "count")
    /\ x' = [x EXCEPT ![t] = buffer[count - 1]]
    /\ UNCHANGED <<semEmpty, semFull, mutexBuffer, buffer, count>>

Decrement(t) ==
    /\ t \in Consumer /\ Goto(t, "count", "unlock")
    /\ count' = count - 1
    /\ UNCHANGED <<semEmpty, semFull, mutexBuffer, buffer, x>>

SignalEmpty(t) ==
    /\ t \in Consumer /\ Goto(t, "signal", "begin")
    /\ semEmpty' = semEmpty + 1
    /\ x' = [x EXCEPT ![t] = NIL]
    /\ UNCHANGED <<semFull, mutexBuffer, buffer, count>>

-----------------------------------------------------------------------------
Init ==
    /\ semEmpty = Size /\ semFull = 0 /\ mutexBuffer = NIL
    /\ buffer = [k \in 0 .. Size - 1 |-> NIL] /\ count = 0
    /\ pc = [t \in Thread |-> "begin"] /\ x = [t \in Thread |-> NIL]

producer(t) ==
    \/ \E i \in Item : Produce(t, i)
    \/ Lock(t) \/ Store(t) \/ Increment(t) \/ Unlock(t) \/ SignalFull(t)

consumer(t) ==
    \/ AwaitFull(t)
    \/ Lock(t) \/ Fetch(t) \/ Decrement(t) \/ Unlock(t) \/ SignalEmpty(t)

Next == (\E t \in Producer : producer(t)) \/ (\E t \in Consumer : consumer(t))

Spec == Init /\ [][Next]_vars

-----------------------------------------------------------------------------
TypeOK ==
    /\ semEmpty \in 0 .. Size /\ semFull \in 0 .. Size
    /\ mutexBuffer \in Thread \cup {NIL}
    /\ buffer \in [0 .. Size - 1 -> Item \cup {NIL}] /\ count \in 0 .. Size
    /\ pc \in [Thread -> {"begin", "lock", "use", "count", "unlock", "signal"}]
    /\ x \in [Thread -> Item \cup {NIL}]

(* Every slot is counted once: as empty, as full, or as being dealt with by *)
(* one thread, and count is the number of those that hold an item.          *)
SlotsCounted ==
    LET Between(S) == Cardinality({t \in S : pc[t] # "begin"})
        Stored   == Cardinality({t \in Producer : pc[t] \in {"unlock", "signal"}})
        Unfetched == Cardinality({t \in Consumer : pc[t] \in {"lock", "use", "count"}})
    IN  /\ semEmpty + semFull + Between(Thread) = Size
        /\ count = semFull + Stored + Unfetched

Stack == INSTANCE BoundedStack
             WITH items <- [k \in 1 .. count |-> buffer[k - 1]]

(* The items are those of a stack of Size places: nothing that was produced *)
(* is overwritten, lost or got twice, however the threads take turns.       *)
StackSpec == Stack!Spec

(* Items go on being stored and got: the threads do not all wait for a      *)
(* semaphore or the mutex.  A single thread can always come too late.       *)
ItemsGoOn ==
    /\ []<>(\E t \in Producer : pc[t] = "signal")
    /\ []<>(\E t \in Consumer : pc[t] = "signal")
=============================================================================
