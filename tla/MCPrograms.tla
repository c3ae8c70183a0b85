----------------------------- MODULE MCPrograms -----------------------------
(***************************************************************************)
(* The programs of the course notes side by side: a behaviour is one of    *)
(* the program that was started, the others stay as they are initially.    *)
(***************************************************************************)
EXTENDS ProgramParameters

VARIABLES
    program,
    state, mutexP, S, pcP,                                           \* dinning.c
    semEmpty, semFull, mutexBuffer, buffer, count, pcB, x,           \* producer.c
    mails, turn, mutexC, i, eax, pcC,                    \* race.c, mutex.c, mutual.c
    fuel, mutexFuel, waiting, pcF, got, filled, sold                 \* conditionvar2.c

Dinning == INSTANCE Philosophers WITH mutex <- mutexP, pc <- pcP
Buffer  == INSTANCE BoundedBuffer WITH pc <- pcB
Race    == INSTANCE SharedCounter WITH
               mutex <- mutexC, pc <- pcC, Discipline <- "race", Rounds <- RaceRounds
Mutex   == INSTANCE SharedCounter WITH mutex <- mutexC, pc <- pcC, Discipline <- "mutex"
Mutual  == INSTANCE SharedCounter WITH mutex <- mutexC, pc <- pcC, Discipline <- "mutual"
Fuel    == INSTANCE FuelStation WITH pc <- pcF

Programs == {"dinning", "producer", "race", "mutex", "mutual", "conditionvar2"}

dinningVars == <<state, mutexP, S, pcP>>
bufferVars == <<semEmpty, semFull, mutexBuffer, buffer, count, pcB, x>>
counterVars == <<mails, turn, mutexC, i, eax, pcC>>
fuelVars == <<fuel, mutexFuel, waiting, pcF, got, filled, sold>>
mcvars == <<program, dinningVars, bufferVars, counterVars, fuelVars>>

MCInit == program \in Programs /\ Dinning!Init /\ Buffer!Init /\ Race!Init /\ Fuel!Init

MCNext ==
    /\ UNCHANGED program
    /\ \/ /\ program = "dinning" /\ Dinning!Next
          /\ UNCHANGED <<bufferVars, counterVars, fuelVars>>
       \/ /\ program = "producer" /\ Buffer!Next
          /\ UNCHANGED <<dinningVars, counterVars, fuelVars>>
       \/ /\ program = "race" /\ Race!Next
          /\ UNCHANGED <<dinningVars, bufferVars, fuelVars>>
       \/ /\ program = "mutex" /\ Mutex!Next
          /\ UNCHANGED <<dinningVars, bufferVars, fuelVars>>
       \/ /\ program = "mutual" /\ Mutual!Next
          /\ UNCHANGED <<dinningVars, bufferVars, fuelVars>>
       \/ /\ program = "conditionvar2" /\ Fuel!Next
          /\ UNCHANGED <<dinningVars, bufferVars, counterVars>>

(* Threads are numbered, in each of the programs. *)
Thread == 0 .. 4

(* A step of thread t. *)
Runs(t) ==
    \/ program = "dinning" /\ t \in Dinning!Phil /\ Dinning!philospher(t)
    \/ program = "producer" /\ t \in Producer /\ Buffer!producer(t)
    \/ program = "producer" /\ t \in Consumer /\ Buffer!consumer(t)
    \/ program = "mutex" /\ t \in Mutex!Thread /\ Mutex!routine(t)
    \/ program = "mutual" /\ t \in Mutual!Thread /\ Mutual!routine(t)
    \/ program = "conditionvar2" /\ t \in Filler /\ Fuel!fuel_filling(t)
    \/ program = "conditionvar2" /\ t \in Car /\ Fuel!car(t)

(* The threads of the program run.  Which of those that wait for a mutex or *)
(* a semaphore gets it is open: one of them may always come too late.       *)
MCFairSpec ==
    /\ MCInit /\ [][MCNext]_mcvars
    /\ \A t \in Thread : WF_mcvars(Runs(t) /\ MCNext)

-----------------------------------------------------------------------------
(* dinning.c: neighbours do not eat at the same time, a turn is neither     *)
(* lost nor given twice, whoever waits has a neighbour that is down as      *)
(* eating or hungry or will look at it, and they do not all wait.           *)
ForksShared ==
    /\ Dinning!NeighboursApart /\ Dinning!TurnGivenOnce
    /\ Dinning!WaitsForNeighbour /\ Dinning!NotAllWait

(* producer.c: the buffer is a bounded stack.                               *)
StackSpec == Buffer!StackSpec

(* Nothing that is counted gets lost: the slots of producer.c are a buffer  *)
(* entry, a permit of a semaphore or in the hands of a thread; mutex.c and  *)
(* mutual.c count every increment, and race.c loses no more than its        *)
(* interleavings can; the fuel of conditionvar2.c is what was filled and    *)
(* not sold.                                                                *)
Accounted ==
    /\ Buffer!SlotsCounted
    /\ program = "race" => Race!RaceBounds
    /\ program \in {"mutex", "mutual"} => Mutex!MailsCounted
    /\ Fuel!FuelAccounted

(* Every program gets on: again and again a philosopher eats, an item is    *)
(* stored and an item is got; both threads of mutex.c and mutual.c come to  *)
(* their end, and every car gets its fuel, unless cars never cease to wake  *)
(* up for nothing.                                                          *)
ThreadsGoOn ==
    /\ program = "dinning" => Dinning!MealsGoOn
    /\ program = "producer" => Buffer!ItemsGoOn
    /\ program = "mutex" => Mutex!BothFinish
    /\ program = "mutual" => Mutual!BothFinish
    /\ program = "conditionvar2" => Fuel!CarsServed
=============================================================================
