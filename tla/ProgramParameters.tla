-------------------------- MODULE ProgramParameters -------------------------
(* The sizes of the programs of the course notes, each with what the code   *)
(* has in its place.                                                        *)
EXTENDS Integers, FiniteSets

CONSTANTS
    N,                   \* philosophers, 5 in dinning.c
    MaxCount,            \* bound on the count of a philosopher's semaphore
    Producer, Consumer,  \* threads of producer.c
    Item,                \* what a producer makes
    Size,                \* slots of buffer[], 10 in the code
    Discipline,          \* "race", "mutex" or "mutual", after the program
    Rounds,              \* passes of a thread that counts, 1000000 in the code
    RaceRounds,          \* the same, for the program without a lock
    Filler, Car,         \* threads of conditionvar2.c, 2 and 4
    Fill, Need,          \* litres, in tens: 3 and 4
    Fills,               \* passes of a filler's loop, 5 in the code
    NIL

ASSUME PhilAssumption == N \in Nat /\ N > 1 /\ MaxCount \in Nat \ {0}

ASSUME BufferAssumption ==
    /\ Size \in Nat \ {0} /\ NIL \notin Item
    /\ Producer \cap Consumer = {} /\ NIL \notin Producer \cup Consumer
    /\ IsFiniteSet(Producer) /\ IsFiniteSet(Consumer)

ASSUME CounterAssumption ==
    /\ Discipline \in {"race", "mutex", "mutual"}
    /\ Rounds \in Nat \ {0} /\ RaceRounds \in Nat \ {0}

ASSUME FuelAssumption ==
    /\ Fill \in Nat \ {0} /\ Need \in Nat \ {0} /\ Fills \in Nat
    /\ Filler \cap Car = {} /\ NIL \notin Filler \cup Car /\ IsFiniteSet(Filler)
=============================================================================
