---------------------------- MODULE ProgramProofs ----------------------------
(***************************************************************************)
(* The programs of the course notes for any number of threads: the         *)
(* philosophers of dinning.c share their forks, and the buffer of          *)
(* producer.c is a bounded stack.                                          *)
(***************************************************************************)
EXTENDS MCPrograms, QueueLemmas, FiniteSetTheorems

-----------------------------------------------------------------------------
(* dinning.c *)

Phil == Dinning!Phil
L(p) == Dinning!LEFT(p)
R(p) == Dinning!RIGHT(p)

(* Neighbours are each other's neighbours. *)
LEMMA Neighbours ==
    ASSUME NEW p \in Phil
    PROVE  /\ L(p) \in Phil /\ R(p) \in Phil /\ L(p) # p /\ R(p) # p
           /\ R(L(p)) = p /\ L(R(p)) = p
  <1>1. N \in Nat /\ N > 1 /\ p \in 0 .. N - 1 BY PhilAssumption DEF Phil, Dinning!Phil
  <1>2. \A k \in 0 .. N - 1 : k % N = k BY <1>1
  <1>3. \A k \in N .. 2 * N - 1 : k % N = k - N
    <2> SUFFICES ASSUME NEW k \in N .. 2 * N - 1 PROVE k % N = k - N OBVIOUS
    <2>1. k \in Int /\ k >= N /\ k < 2 * N BY <1>1
    <2> QED BY <1>1, <2>1
  <1>4. ASSUME NEW q \in 0 .. N - 1 PROVE L(q) = IF q = 0 THEN N - 1 ELSE q - 1
    <2>1. L(q) = (q + N - 1) % N BY DEF L, Dinning!LEFT
    <2>2. CASE q = 0
      <3>1. q + N - 1 = N - 1 /\ N - 1 \in 0 .. N - 1 BY <1>1, <2>2
      <3> QED BY <1>2, <2>1, <2>2, <3>1
    <2>3. CASE q # 0
      <3>1. q + N - 1 \in N .. 2 * N - 1 /\ q + N - 1 - N = q - 1 BY <1>1, <2>3
      <3> DEFINE k == q + N - 1
      <3> HIDE DEF k
      <3>2. k % N = k - N BY <1>3, <3>1 DEF k
      <3>3. L(q) = k % N BY <2>1 DEF k
      <3>4. k - N = q - 1 BY <1>1 DEF k
      <3> QED BY <2>3, <3>2, <3>3, <3>4
    <2> QED BY <2>2, <2>3
  <1>5. ASSUME NEW q \in 0 .. N - 1 PROVE R(q) = IF q = N - 1 THEN 0 ELSE q + 1
    <2>1. R(q) = (q + 1) % N BY DEF R, Dinning!RIGHT
    <2>2. CASE q = N - 1
      <3>1. q + 1 \in N .. 2 * N - 1 /\ q + 1 - N = 0 BY <1>1, <2>2
      <3> DEFINE k == q + 1
      <3> HIDE DEF k
      <3>2. k % N = k - N BY <1>3, <3>1 DEF k
      <3>3. R(q) = k % N BY <2>1 DEF k
      <3>4. k - N = 0 BY <1>1, <2>2 DEF k
      <3> QED BY <2>2, <3>2, <3>3, <3>4
    <2>3. CASE q # N - 1
      <3>1. q + 1 \in 0 .. N - 1 BY <1>1, <2>3
      <3> QED BY <1>2, <2>1, <2>3, <3>1
    <2> QED BY <2>2, <2>3
  <1>6. L(p) \in 0 .. N - 1 /\ R(p) \in 0 .. N - 1 /\ L(p) # p /\ R(p) # p BY <1>1, <1>4, <1>5
  <1>7. R(L(p)) = p
    <2>1. CASE p = 0 BY <1>1, <1>4, <1>5, <2>1
    <2>2. CASE p # 0 BY <1>1, <1>4, <1>5, <2>2
    <2> QED BY <2>1, <2>2
  <1>8. L(R(p)) = p
    <2>1. CASE p = N - 1 BY <1>1, <1>4, <1>5, <2>1
    <2>2. CASE p # N - 1 BY <1>1, <1>4, <1>5, <2>2
    <2> QED BY <2>1, <2>2
  <1> QED BY <1>6, <1>7, <1>8 DEF Phil, Dinning!Phil

PhilType ==
    /\ state \in [Phil -> {"THINKING", "HUNGRY", "EATING"}]
    /\ mutexP \in 0 .. 1 /\ S \in [Phil -> Nat]
    /\ pcP \in [Phil -> Dinning!Points]

(* Threads between their wait for the mutex and its signal. *)
AtTable(p) == pcP[p] \in {"hungry", "leave", "put", "left", "right", "done"}

(* One thread at a time looks at state[] and changes it. *)
TableInv ==
    /\ \A p \in Phil : AtTable(p) => mutexP = 0
    /\ \A p, q \in Phil : (AtTable(p) /\ AtTable(q)) => p = q

(* What state[] says of where a philosopher is, and whether its semaphore   *)
(* has been raised.                                                         *)
Placed(p) ==
    /\ pcP[p] \in {"think", "hungry"} => state[p] \in {"THINKING", "EATING"}
    /\ pcP[p] \in {"left", "right", "done"} => state[p] = "THINKING"
    /\ pcP[p] \in {"leave", "wait"} => state[p] \in {"HUNGRY", "EATING"}
    /\ pcP[p] \in {"eat", "put"} => state[p] = "EATING"
    /\ S[p] = IF state[p] = "EATING" /\ pcP[p] \in {"leave", "wait"} THEN 1 ELSE 0

StateInv == \A p \in Phil : Placed(p)

(* Who has been given its forks: before its first meal a philosopher is     *)
(* down as eating without having any.                                       *)
HasForks(p) == state[p] = "EATING" /\ pcP[p] \notin {"think", "hungry"}

ForkInv == \A p \in Phil : HasForks(p) => ~HasForks(R(p))

(* Somebody will look at a philosopher that is hungry. *)
Watched(p) ==
    \/ state[L(p)] = "EATING" \/ state[R(p)] = "EATING"
    \/ pcP[R(p)] = "left" \/ pcP[L(p)] \in {"left", "right"}

(* A neighbour came to wait after p did, and has not eaten since. *)
WaitsFor(p, rank) == \E q \in {L(p), R(p)} : state[q] = "HUNGRY" /\ rank[q] > rank[p]

(* Nobody is forgotten, if rank is the order in which philosophers first    *)
(* asked for their forks.                                                   *)
Ranked(rank) == \A p \in Phil : state[p] = "HUNGRY" => Watched(p) \/ WaitsFor(p, rank)

HungryInv == \E k \in Nat : \E rank \in [Phil -> 0 .. k] : Ranked(rank)

PhilInv == PhilType /\ TableInv /\ StateInv /\ ForkInv /\ HungryInv

(* test(): q gets its forks, or nothing changes. *)
Free(q, st) == st[q] = "HUNGRY" /\ st[L(q)] # "EATING" /\ st[R(q)] # "EATING"

LEMMA TestIs ==
    ASSUME NEW q \in Phil, NEW st, Dinning!test(q, st)
    PROVE  \/ Free(q, st) /\ state' = [st EXCEPT ![q] = "EATING"] /\ S' = [S EXCEPT ![q] = S[q] + 1]
           \/ ~Free(q, st) /\ state' = st /\ S' = S
  BY DEF Dinning!test, Free, L, R

LEMMA PhilInit == ASSUME Dinning!Init PROVE PhilInv
  <1>1. PhilType BY DEF PhilType, Dinning!Init, Phil, Dinning!Points
  <1>2. \A p \in Phil : state[p] = "EATING" /\ pcP[p] = "think" /\ S[p] = 0
    BY DEF Dinning!Init, Phil
  <1>3. HungryInv
    <2> DEFINE rank == [p \in Phil |-> 0]
    <2>1. 0 \in Nat /\ rank \in [Phil -> 0 .. 0] /\ Ranked(rank) BY <1>2 DEF Ranked
    <2> QED BY <2>1 DEF HungryInv
  <1> QED BY <1>1, <1>2, <1>3
      DEF PhilInv, TableInv, StateInv, Placed, ForkInv, HasForks, AtTable

(* Steps that leave state[] alone and end no look at a neighbour. *)
LEMMA HungryStays ==
    ASSUME HungryInv, state' = state, \A q \in Phil : Watched(q) => Watched(q)'
    PROVE  HungryInv'
  <1>1. PICK k \in Nat : \E rank \in [Phil -> 0 .. k] : Ranked(rank) BY DEF HungryInv
  <1>2. PICK rank \in [Phil -> 0 .. k] : Ranked(rank) BY <1>1
  <1>3. \A q \in Phil : state'[q] = "HUNGRY" => Watched(q)' \/ WaitsFor(q, rank)'
    BY <1>2 DEF Ranked, WaitsFor, L, R
  <1>4. Ranked(rank)' BY <1>3 DEF Ranked
  <1> QED BY <1>4 DEF HungryInv

(* The same where the hungry stay hungry, or eat. *)
LEMMA HungryServed ==
    ASSUME HungryInv,
           \A q \in Phil : state'[q] = "HUNGRY" => state[q] = "HUNGRY",
           \A q \in Phil : state[q] = "HUNGRY" => state'[q] \in {"HUNGRY", "EATING"},
           \A q \in Phil : state'[q] = "HUNGRY" /\ Watched(q) => Watched(q)'
    PROVE  HungryInv'
  <1>1. PICK k \in Nat : \E rank \in [Phil -> 0 .. k] : Ranked(rank) BY DEF HungryInv
  <1>2. PICK rank \in [Phil -> 0 .. k] : Ranked(rank) BY <1>1
  <1>3. ASSUME NEW q \in Phil, state'[q] = "HUNGRY" PROVE Watched(q)' \/ WaitsFor(q, rank)'
    <2>1. L(q) \in Phil /\ R(q) \in Phil /\ L(q)' = L(q) /\ R(q)' = R(q)
      BY Neighbours DEF L, R
    <2>2. CASE Watched(q) BY <1>3, <2>2
    <2>3. CASE WaitsFor(q, rank)
      <3>1. PICK r \in {L(q), R(q)} : state[r] = "HUNGRY" /\ rank[r] > rank[q]
        BY <2>3 DEF WaitsFor
      <3>2. state'[r] \in {"HUNGRY", "EATING"} BY <2>1, <3>1
      <3>3. CASE state'[r] = "HUNGRY" BY <2>1, <3>1, <3>3 DEF WaitsFor
      <3>4. CASE state'[r] = "EATING" BY <2>1, <3>1, <3>4 DEF Watched
      <3> QED BY <3>2, <3>3, <3>4
    <2> QED BY <1>2, <1>3, <2>2, <2>3 DEF Ranked
  <1>4. Ranked(rank)' BY <1>3 DEF Ranked
  <1> QED BY <1>4 DEF HungryInv

(* A thread that takes the mutex. *)
LEMMA PhilDown ==
    ASSUME PhilInv, NEW p \in Phil, Dinning!TakeMutex(p) \/ Dinning!PutMutex(p)
    PROVE  PhilInv'
  <1>0. PhilType /\ TableInv /\ StateInv /\ ForkInv /\ HungryInv BY DEF PhilInv
  <1>1. /\ mutexP > 0 /\ mutexP' = mutexP - 1 /\ state' = state /\ S' = S
        /\ \/ pcP[p] = "think" /\ pcP' = [pcP EXCEPT ![p] = "hungry"]
           \/ pcP[p] = "eat" /\ pcP' = [pcP EXCEPT ![p] = "put"]
    BY DEF Dinning!TakeMutex, Dinning!PutMutex, Dinning!Down, Dinning!Goto
  <1>2. PhilType' BY <1>0, <1>1 DEF PhilType, Dinning!Points
  <1>3. mutexP = 1 /\ mutexP' = 0 BY <1>0, <1>1 DEF PhilType
  <1>4. \A q \in Phil : q # p => pcP'[q] = pcP[q] BY <1>0, <1>1 DEF PhilType
  <1>5. \A q \in Phil : ~AtTable(q) BY <1>0, <1>3 DEF TableInv
  <1>6. TableInv' BY <1>3, <1>4, <1>5 DEF TableInv, AtTable
  <1>7. \/ pcP[p] = "think" /\ pcP'[p] = "hungry"
        \/ pcP[p] = "eat" /\ pcP'[p] = "put"
    BY <1>0, <1>1 DEF PhilType
  <1>8. StateInv'
    <2> SUFFICES ASSUME NEW q \in Phil PROVE Placed(q)' BY DEF StateInv
    <2>1. CASE q = p BY <1>0, <1>1, <1>7, <2>1 DEF StateInv, Placed
    <2>2. CASE q # p BY <1>0, <1>1, <1>4, <2>2 DEF StateInv, Placed
    <2> QED BY <2>1, <2>2
  <1>9. ForkInv'
    <2>1. \A q \in Phil : HasForks(q)' => HasForks(q) BY <1>1, <1>4, <1>7 DEF HasForks
    <2>2. \A q \in Phil : R(q) \in Phil /\ R(q)' = R(q) BY Neighbours DEF R
    <2> QED BY <1>0, <2>1, <2>2 DEF ForkInv
  <1>10. \A q \in Phil : Watched(q) => Watched(q)'
    <2> SUFFICES ASSUME NEW q \in Phil, Watched(q) PROVE Watched(q)' OBVIOUS
    <2>1. L(q) \in Phil /\ R(q) \in Phil BY Neighbours
    <2>2. L(q)' = L(q) /\ R(q)' = R(q) BY DEF L, R
    <2>3. pcP[p] \notin {"left", "right"} BY <1>7
    <2> QED BY <1>1, <1>4, <2>1, <2>2, <2>3 DEF Watched
  <1>11. HungryInv' BY <1>0, <1>1, <1>10, HungryStays
  <1> QED BY <1>2, <1>6, <1>8, <1>9, <1>11 DEF PhilInv

(* A thread that gives the mutex back. *)
LEMMA PhilUp ==
    ASSUME PhilInv, NEW p \in Phil, Dinning!TakeLeave(p) \/ Dinning!PutLeave(p)
    PROVE  PhilInv'
  <1>0. PhilType /\ TableInv /\ StateInv /\ ForkInv /\ HungryInv BY DEF PhilInv
  <1>1. /\ mutexP' = mutexP + 1 /\ state' = state /\ S' = S
        /\ \/ pcP[p] = "leave" /\ pcP' = [pcP EXCEPT ![p] = "wait"]
           \/ pcP[p] = "done" /\ pcP' = [pcP EXCEPT ![p] = "think"]
    BY DEF Dinning!TakeLeave, Dinning!PutLeave, Dinning!Up, Dinning!Goto
  <1>2. AtTable(p) /\ mutexP = 0 BY <1>0, <1>1 DEF AtTable, TableInv
  <1>3. PhilType' BY <1>0, <1>1, <1>2 DEF PhilType, Dinning!Points
  <1>4. \A q \in Phil : q # p => pcP'[q] = pcP[q] BY <1>0, <1>1 DEF PhilType
  <1>5. \/ pcP[p] = "leave" /\ pcP'[p] = "wait"
        \/ pcP[p] = "done" /\ pcP'[p] = "think"
    BY <1>0, <1>1 DEF PhilType
  <1>6. \A q \in Phil : ~AtTable(q)'
    <2> SUFFICES ASSUME NEW q \in Phil PROVE ~AtTable(q)' OBVIOUS
    <2>1. CASE q = p BY <1>5, <2>1 DEF AtTable
    <2>2. CASE q # p
      <3>1. ~AtTable(q) BY <1>0, <1>2, <2>2 DEF TableInv
      <3> QED BY <1>4, <2>2, <3>1 DEF AtTable
    <2> QED BY <2>1, <2>2
  <1>7. TableInv' BY <1>6 DEF TableInv
  <1>8. StateInv'
    <2> SUFFICES ASSUME NEW q \in Phil PROVE Placed(q)' BY DEF StateInv
    <2>1. CASE q = p BY <1>0, <1>1, <1>5, <2>1 DEF StateInv, Placed
    <2>2. CASE q # p BY <1>0, <1>1, <1>4, <2>2 DEF StateInv, Placed
    <2> QED BY <2>1, <2>2
  <1>9. ForkInv'
    <2>1. \A q \in Phil : HasForks(q)' => HasForks(q) BY <1>1, <1>4, <1>5 DEF HasForks
    <2>2. \A q \in Phil : R(q) \in Phil /\ R(q)' = R(q) BY Neighbours DEF R
    <2> QED BY <1>0, <2>1, <2>2 DEF ForkInv
  <1>10. \A q \in Phil : Watched(q) => Watched(q)'
    <2> SUFFICES ASSUME NEW q \in Phil, Watched(q) PROVE Watched(q)' OBVIOUS
    <2>1. L(q) \in Phil /\ R(q) \in Phil BY Neighbours
    <2>2. L(q)' = L(q) /\ R(q)' = R(q) BY DEF L, R
    <2>3. pcP[p] \notin {"left", "right"} BY <1>5
    <2> QED BY <1>1, <1>4, <2>1, <2>2, <2>3 DEF Watched
  <1>11. HungryInv' BY <1>0, <1>1, <1>10, HungryStays
  <1> QED BY <1>3, <1>7, <1>8, <1>9, <1>11 DEF PhilInv

(* A philosopher comes past its semaphore. *)
LEMMA PhilWait ==
    ASSUME PhilInv, NEW p \in Phil, Dinning!TakeWait(p)
    PROVE  PhilInv'
  <1>0. PhilType /\ TableInv /\ StateInv /\ ForkInv /\ HungryInv BY DEF PhilInv
  <1>1. /\ S[p] > 0 /\ S' = [S EXCEPT ![p] = S[p] - 1] /\ state' = state /\ mutexP' = mutexP
        /\ pcP[p] = "wait" /\ pcP' = [pcP EXCEPT ![p] = "eat"]
    BY DEF Dinning!TakeWait, Dinning!Goto
  <1>2. /\ pcP'[p] = "eat" /\ S'[p] = S[p] - 1
        /\ \A q \in Phil : q # p => pcP'[q] = pcP[q] /\ S'[q] = S[q]
    BY <1>0, <1>1 DEF PhilType
  <1>3. S[p] = 1 /\ state[p] = "EATING"
    <2>1. Placed(p) BY <1>0 DEF StateInv
    <2>2. S[p] # 0 BY <1>1
    <2> QED BY <1>1, <2>1, <2>2 DEF Placed
  <1>4. PhilType'
    <2>1. S' \in [Phil -> Nat] BY <1>0, <1>1, <1>3 DEF PhilType
    <2> QED BY <1>0, <1>1, <2>1 DEF PhilType, Dinning!Points
  <1>5. \A q \in Phil : AtTable(q)' => AtTable(q) BY <1>2 DEF AtTable
  <1>6. TableInv' BY <1>0, <1>1, <1>5 DEF TableInv
  <1>7. StateInv'
    <2> SUFFICES ASSUME NEW q \in Phil PROVE Placed(q)' BY DEF StateInv
    <2>1. CASE q = p BY <1>1, <1>2, <1>3, <2>1 DEF Placed
    <2>2. CASE q # p BY <1>0, <1>1, <1>2, <2>2 DEF StateInv, Placed
    <2> QED BY <2>1, <2>2
  <1>8. ForkInv'
    <2>1. \A q \in Phil : HasForks(q)' => HasForks(q) BY <1>1, <1>2 DEF HasForks
    <2>2. \A q \in Phil : R(q) \in Phil /\ R(q)' = R(q) BY Neighbours DEF R
    <2> QED BY <1>0, <2>1, <2>2 DEF ForkInv
  <1>9. \A q \in Phil : Watched(q) => Watched(q)'
    <2> SUFFICES ASSUME NEW q \in Phil, Watched(q) PROVE Watched(q)' OBVIOUS
    <2>1. L(q) \in Phil /\ R(q) \in Phil BY Neighbours
    <2>2. L(q)' = L(q) /\ R(q)' = R(q) BY DEF L, R
    <2> QED BY <1>1, <1>2, <2>1, <2>2 DEF Watched
  <1>10. HungryInv' BY <1>0, <1>1, <1>9, HungryStays
  <1> QED BY <1>4, <1>6, <1>7, <1>8, <1>10 DEF PhilInv

(* The thread at the table goes on there: nobody else comes or goes.        *)
LEMMA TableStays ==
    ASSUME PhilInv, NEW p \in Phil, AtTable(p), AtTable(p)', mutexP' = mutexP,
           \A q \in Phil : q # p => pcP'[q] = pcP[q]
    PROVE  TableInv'
  <1>1. \A q \in Phil : AtTable(q)' => AtTable(q) BY DEF AtTable
  <1> QED BY <1>1 DEF PhilInv, TableInv

(* The forks are given to q, whose neighbours are not down as eating. *)
LEMMA ForksGiven ==
    ASSUME ForkInv, NEW q \in Phil, state'[L(q)] # "EATING", state'[R(q)] # "EATING",
           \A r \in Phil : r # q /\ HasForks(r)' => HasForks(r)
    PROVE  ForkInv'
  <1> SUFFICES ASSUME NEW r \in Phil, HasForks(r)' PROVE ~HasForks(R(r))'
    BY DEF ForkInv, R
  <1>1. /\ R(r) \in Phil /\ R(q) # q /\ L(q) # q /\ L(R(r)) = r /\ R(r)' = R(r)
        /\ L(q) \in Phil /\ R(q) \in Phil
    BY Neighbours DEF R
  <1>2. CASE r = q BY <1>1, <1>2 DEF HasForks
  <1>3. CASE r # q
    <2>1. HasForks(r) /\ state'[r] = "EATING" BY <1>3 DEF HasForks
    <2>2. R(r) # q BY <1>1, <2>1
    <2> QED BY <1>1, <2>1, <2>2 DEF ForkInv
  <1> QED BY <1>2, <1>3

(* take_fork(), under the mutex. *)
LEMMA PhilTakeTest ==
    ASSUME PhilInv, NEW p \in Phil, Dinning!TakeTest(p)
    PROVE  PhilInv'
  <1> DEFINE st == [state EXCEPT ![p] = "HUNGRY"]
  <1>0. PhilType /\ TableInv /\ StateInv /\ ForkInv /\ HungryInv BY DEF PhilInv
  <1>1. /\ Dinning!test(p, st) /\ mutexP' = mutexP
        /\ pcP[p] = "hungry" /\ pcP' = [pcP EXCEPT ![p] = "leave"]
    BY DEF Dinning!TakeTest, Dinning!Goto
  <1>2. /\ st \in [Phil -> {"THINKING", "HUNGRY", "EATING"}] /\ st[p] = "HUNGRY"
        /\ \A q \in Phil : q # p => st[q] = state[q]
    BY <1>0 DEF PhilType
  <1>3. \/ Free(p, st) /\ state' = [st EXCEPT ![p] = "EATING"] /\ S' = [S EXCEPT ![p] = S[p] + 1]
        \/ ~Free(p, st) /\ state' = st /\ S' = S
    BY <1>1, TestIs
  <1> HIDE DEF st
  <1>4. pcP'[p] = "leave" /\ \A q \in Phil : q # p => pcP'[q] = pcP[q]
    BY <1>0, <1>1 DEF PhilType
  <1>5. state[p] # "HUNGRY" /\ S[p] = 0
    <2>1. Placed(p) BY <1>0 DEF StateInv
    <2> QED BY <1>1, <2>1 DEF Placed
  <1>6. PhilType'
    <2>1. CASE state' = st /\ S' = S
      BY <1>0, <1>1, <1>2, <2>1 DEF PhilType, Dinning!Points
    <2>2. CASE state' = [st EXCEPT ![p] = "EATING"] /\ S' = [S EXCEPT ![p] = S[p] + 1]
      BY <1>0, <1>1, <1>2, <1>5, <2>2 DEF PhilType, Dinning!Points
    <2> QED BY <1>3, <2>1, <2>2
  <1>7. TableInv' BY <1>1, <1>4, TableStays DEF AtTable
  <1>8. /\ \A q \in Phil : q # p => state'[q] = state[q] /\ S'[q] = S[q]
        /\ \/ Free(p, st) /\ state'[p] = "EATING" /\ S'[p] = 1
           \/ ~Free(p, st) /\ state'[p] = "HUNGRY" /\ S'[p] = 0
    <2>1. CASE ~Free(p, st) /\ state' = st /\ S' = S BY <1>2, <1>5, <2>1
    <2>2. CASE Free(p, st) /\ state' = [st EXCEPT ![p] = "EATING"] /\ S' = [S EXCEPT ![p] = S[p] + 1]
      BY <1>0, <1>2, <1>5, <2>2 DEF PhilType
    <2> QED BY <1>3, <2>1, <2>2
  <1>9. StateInv'
    <2> SUFFICES ASSUME NEW q \in Phil PROVE Placed(q)' BY DEF StateInv
    <2>1. CASE q = p BY <1>4, <1>8, <2>1 DEF Placed
    <2>2. CASE q # p BY <1>0, <1>4, <1>8, <2>2 DEF StateInv, Placed
    <2> QED BY <2>1, <2>2
  <1>10. \A r \in Phil : r # p /\ HasForks(r)' => HasForks(r) BY <1>4, <1>8 DEF HasForks
  <1>11. ForkInv'
    <2>0. /\ L(p) \in Phil /\ R(p) \in Phil /\ L(p) # p /\ R(p) # p
          /\ \A r \in Phil : R(r) \in Phil /\ R(r)' = R(r)
      BY Neighbours DEF R
    <2>1. CASE ~Free(p, st)
      <3>1. ~HasForks(p)' BY <1>8, <2>1 DEF HasForks
      <3> QED BY <1>0, <1>10, <2>0, <3>1 DEF ForkInv
    <2>2. CASE Free(p, st)
      <3>1. state'[L(p)] # "EATING" /\ state'[R(p)] # "EATING"
        BY <1>2, <1>8, <2>0, <2>2 DEF Free
      <3> QED BY <1>0, <1>10, <3>1, ForksGiven
    <2> QED BY <2>1, <2>2
  <1>12. HungryInv'
    <2>a. PICK k \in Nat : \E rank \in [Phil -> 0 .. k] : Ranked(rank) BY <1>0 DEF HungryInv
    <2>b. PICK rank \in [Phil -> 0 .. k] : Ranked(rank) BY <2>a
    <2> DEFINE now == [rank EXCEPT ![p] = k + 1]
    <2>c. /\ now \in [Phil -> 0 .. k + 1] /\ k + 1 \in Nat
          /\ now[p] = k + 1 /\ \A q \in Phil : q # p => now[q] = rank[q] /\ rank[q] \in 0 .. k
      OBVIOUS
    <2> HIDE DEF now
    <2> SUFFICES ASSUME NEW q \in Phil, state'[q] = "HUNGRY"
                 PROVE  Watched(q)' \/ WaitsFor(q, now)'
      <3>1. Ranked(now)' BY DEF Ranked
      <3> QED BY <2>c, <3>1 DEF HungryInv
    <2>1. /\ L(q) \in Phil /\ R(q) \in Phil /\ L(q) # q /\ R(q) # q
          /\ L(q)' = L(q) /\ R(q)' = R(q)
      BY Neighbours DEF L, R
    <2>2. CASE q = p
      <3>1. ~Free(p, st) BY <1>8, <2>2
      <3>2. st[L(p)] = "EATING" \/ st[R(p)] = "EATING" BY <1>2, <3>1 DEF Free
      <3>3. state'[L(p)] = "EATING" \/ state'[R(p)] = "EATING" BY <1>2, <1>8, <2>1, <2>2, <3>2
      <3> QED BY <2>1, <2>2, <3>3 DEF Watched
    <2>3. CASE q # p
      <3>1. Watched(q) \/ WaitsFor(q, rank) BY <1>8, <2>3, <2>b DEF Ranked
      <3>2. \A r \in Phil : r # p /\ state[r] = "EATING" => state'[r] = "EATING" BY <1>8
      <3>3. \A r \in Phil : pcP[r] \in {"left", "right"} => pcP'[r] = pcP[r] BY <1>1, <1>4
      <3>4. CASE p \in {L(q), R(q)}
        <4>1. now[p] > now[q] BY <2>3, <2>c
        <4>2. state'[p] = "HUNGRY" \/ state'[p] = "EATING" BY <1>8
        <4>3. CASE state'[p] = "EATING" BY <2>1, <3>4, <4>3 DEF Watched
        <4>4. CASE state'[p] = "HUNGRY"
          BY <2>1, <3>4, <4>1, <4>4 DEF WaitsFor
        <4> QED BY <4>2, <4>3, <4>4
      <3>5. CASE p \notin {L(q), R(q)}
        <4>1. CASE Watched(q) BY <2>1, <3>2, <3>3, <3>5, <4>1 DEF Watched
        <4>2. CASE WaitsFor(q, rank)
          <5>1. PICK r \in {L(q), R(q)} : state[r] = "HUNGRY" /\ rank[r] > rank[q]
            BY <4>2 DEF WaitsFor
          <5>2. r \in Phil /\ r # p BY <2>1, <3>5
          <5>3. state'[r] = "HUNGRY" /\ now[r] > now[q] BY <1>8, <2>3, <2>c, <5>1, <5>2
          <5> QED BY <2>1, <5>3 DEF WaitsFor
        <4> QED BY <3>1, <4>1, <4>2
      <3> QED BY <3>4, <3>5
    <2> QED BY <2>2, <2>3
  <1> QED BY <1>6, <1>7, <1>9, <1>11, <1>12 DEF PhilInv

(* put_fork(): the forks are given up. *)
LEMMA PhilPutState ==
    ASSUME PhilInv, NEW p \in Phil, Dinning!PutState(p)
    PROVE  PhilInv'
  <1>0. PhilType /\ TableInv /\ StateInv /\ ForkInv /\ HungryInv BY DEF PhilInv
  <1>1. /\ state' = [state EXCEPT ![p] = "THINKING"] /\ mutexP' = mutexP /\ S' = S
        /\ pcP[p] = "put" /\ pcP' = [pcP EXCEPT ![p] = "left"]
    BY DEF Dinning!PutState, Dinning!Goto
  <1>2. /\ pcP'[p] = "left" /\ state'[p] = "THINKING"
        /\ \A q \in Phil : q # p => pcP'[q] = pcP[q] /\ state'[q] = state[q]
    BY <1>0, <1>1 DEF PhilType
  <1>3. PhilType' BY <1>0, <1>1 DEF PhilType, Dinning!Points
  <1>4. TableInv' BY <1>1, <1>2, TableStays DEF AtTable
  <1>5. StateInv'
    <2> SUFFICES ASSUME NEW q \in Phil PROVE Placed(q)' BY DEF StateInv
    <2>1. CASE q = p BY <1>0, <1>1, <1>2, <2>1 DEF StateInv, Placed
    <2>2. CASE q # p BY <1>0, <1>1, <1>2, <2>2 DEF StateInv, Placed
    <2> QED BY <2>1, <2>2
  <1>6. ForkInv'
    <2>1. \A q \in Phil : HasForks(q)' => HasForks(q) BY <1>1, <1>2 DEF HasForks
    <2>2. \A q \in Phil : R(q) \in Phil /\ R(q)' = R(q) BY Neighbours DEF R
    <2> QED BY <1>0, <2>1, <2>2 DEF ForkInv
  <1>7. HungryInv'
    <2>a. state[p] # "HUNGRY"
      <3>1. Placed(p) BY <1>0 DEF StateInv
      <3> QED BY <1>1, <3>1 DEF Placed
    <2> SUFFICES ASSUME NEW q \in Phil, state'[q] = "HUNGRY", Watched(q) PROVE Watched(q)'
      BY <1>0, <1>2, <2>a, HungryServed
    <2>1. /\ L(q) \in Phil /\ R(q) \in Phil /\ L(q)' = L(q) /\ R(q)' = R(q)
      BY Neighbours DEF L, R
    <2>2. q # p BY <1>2
    <2>3. CASE L(q) = p \/ R(q) = p BY <1>2, <2>1, <2>3 DEF Watched
    <2>4. CASE L(q) # p /\ R(q) # p BY <1>2, <2>1, <2>4 DEF Watched
    <2> QED BY <2>3, <2>4
  <1> QED BY <1>3, <1>4, <1>5, <1>6, <1>7 DEF PhilInv

(* put_fork(): a neighbour is looked at, first the left, then the right one. *)
LEMMA PhilPutTest ==
    ASSUME PhilInv, NEW p \in Phil, Dinning!PutLeft(p) \/ Dinning!PutRight(p)
    PROVE  PhilInv'
  <1> DEFINE q == IF Dinning!PutLeft(p) THEN L(p) ELSE R(p)
  <1>0. PhilType /\ TableInv /\ StateInv /\ ForkInv /\ HungryInv BY DEF PhilInv
  <1>1. /\ Dinning!test(q, state) /\ mutexP' = mutexP
        /\ \/ q = L(p) /\ pcP[p] = "left" /\ pcP' = [pcP EXCEPT ![p] = "right"]
           \/ q = R(p) /\ pcP[p] = "right" /\ pcP' = [pcP EXCEPT ![p] = "done"]
    <2>1. CASE Dinning!PutLeft(p) BY <2>1 DEF Dinning!PutLeft, Dinning!Goto, L
    <2>2. CASE ~Dinning!PutLeft(p)
      <3>1. Dinning!PutRight(p) BY <2>2
      <3> QED BY <2>2, <3>1 DEF Dinning!PutRight, Dinning!Goto, R
    <2> QED BY <2>1, <2>2
  <1>2. q \in Phil /\ q # p BY Neighbours
  <1> HIDE DEF q
  <1>3. \/ Free(q, state) /\ state' = [state EXCEPT ![q] = "EATING"] /\ S' = [S EXCEPT ![q] = S[q] + 1]
        \/ ~Free(q, state) /\ state' = state /\ S' = S
    BY <1>1, <1>2, TestIs
  <1>4. /\ \A r \in Phil : r # p => pcP'[r] = pcP[r]
        /\ \/ q = L(p) /\ pcP[p] = "left" /\ pcP'[p] = "right"
           \/ q = R(p) /\ pcP[p] = "right" /\ pcP'[p] = "done"
    BY <1>0, <1>1 DEF PhilType
  <1>5. PhilType'
    <2>1. pcP' \in [Phil -> Dinning!Points] BY <1>0, <1>1 DEF PhilType, Dinning!Points
    <2>2. CASE state' = state /\ S' = S BY <1>0, <1>1, <2>1, <2>2 DEF PhilType
    <2>3. CASE state' = [state EXCEPT ![q] = "EATING"] /\ S' = [S EXCEPT ![q] = S[q] + 1]
      <3>1. S[q] + 1 \in Nat BY <1>0, <1>2 DEF PhilType
      <3> QED BY <1>0, <1>1, <2>1, <2>3, <3>1 DEF PhilType
    <2> QED BY <1>3, <2>2, <2>3
  <1>6. TableInv' BY <1>1, <1>4, TableStays DEF AtTable
  <1>7. /\ \A r \in Phil : r # q => state'[r] = state[r] /\ S'[r] = S[r]
        /\ \/ Free(q, state) /\ state[q] = "HUNGRY" /\ state'[q] = "EATING" /\ S'[q] = S[q] + 1
           \/ ~Free(q, state) /\ state'[q] = state[q] /\ S'[q] = S[q]
    BY <1>0, <1>2, <1>3 DEF PhilType, Free
  <1>8. StateInv'
    <2> SUFFICES ASSUME NEW r \in Phil PROVE Placed(r)' BY DEF StateInv
    <2>0. Placed(r) BY <1>0 DEF StateInv
    <2>1. CASE r = p BY <1>2, <1>4, <1>7, <2>0, <2>1 DEF Placed
    <2>2. CASE r = q
      <3>1. pcP'[r] = pcP[r] BY <1>2, <1>4, <2>2
      <3>2. CASE ~Free(q, state) BY <1>7, <2>0, <2>2, <3>1, <3>2 DEF Placed
      <3>3. CASE Free(q, state)
        <4>1. state[r] = "HUNGRY" /\ state'[r] = "EATING" /\ S'[r] = S[r] + 1 BY <1>7, <2>2, <3>3
        <4>2. pcP[r] \in {"leave", "wait"} /\ S[r] = 0
          <5>1. pcP[r] \in Dinning!Points BY <1>0 DEF PhilType
          <5> QED BY <2>0, <4>1, <5>1 DEF Placed, Dinning!Points
        <4> QED BY <3>1, <4>1, <4>2 DEF Placed
      <3> QED BY <3>2, <3>3
    <2>3. CASE r # p /\ r # q BY <1>4, <1>7, <2>0, <2>3 DEF Placed
    <2> QED BY <2>1, <2>2, <2>3
  <1>9. ForkInv'
    <2>0. /\ L(q) \in Phil /\ R(q) \in Phil /\ L(q) # q /\ R(q) # q
          /\ \A r \in Phil : R(r) \in Phil /\ R(r)' = R(r)
      BY <1>2, Neighbours DEF R
    <2>1. CASE ~Free(q, state)
      <3>1. \A r \in Phil : HasForks(r)' => HasForks(r) BY <1>4, <1>7, <2>1 DEF HasForks
      <3> QED BY <1>0, <2>0, <3>1 DEF ForkInv
    <2>2. CASE Free(q, state)
      <3>1. state'[L(q)] # "EATING" /\ state'[R(q)] # "EATING" BY <1>7, <2>0, <2>2 DEF Free
      <3>2. \A r \in Phil : r # q /\ HasForks(r)' => HasForks(r) BY <1>4, <1>7 DEF HasForks
      <3> QED BY <1>0, <1>2, <3>1, <3>2, ForksGiven
    <2> QED BY <2>1, <2>2
  <1>10. HungryInv'
    <2>a. \A r \in Phil : /\ state'[r] = "HUNGRY" => state[r] = "HUNGRY"
                          /\ state[r] = "HUNGRY" => state'[r] \in {"HUNGRY", "EATING"}
      BY <1>7
    <2> SUFFICES ASSUME NEW r \in Phil, state'[r] = "HUNGRY", Watched(r) PROVE Watched(r)'
      BY <1>0, <2>a, HungryServed
    <2>1. /\ L(r) \in Phil /\ R(r) \in Phil /\ L(r)' = L(r) /\ R(r)' = R(r)
          /\ L(R(r)) = r /\ R(L(r)) = r
      BY Neighbours DEF L, R
    <2>2. state[r] = "HUNGRY" /\ (r = q => ~Free(q, state)) BY <1>7
    <2>3. \A s \in Phil : state[s] = "EATING" => state'[s] = "EATING" BY <1>7
    <2>5. CASE state[L(r)] = "EATING" \/ state[R(r)] = "EATING" BY <2>1, <2>3, <2>5 DEF Watched
    <2>6. CASE r = q
      <3>1. state[L(r)] = "EATING" \/ state[R(r)] = "EATING" BY <2>2, <2>6 DEF Free
      <3> QED BY <2>5, <3>1
    <2>7. CASE r # q /\ pcP[R(r)] = "left"
      <3>1. R(r) # p
        <4>1. CASE R(r) = p
          <5>1. r = L(p) BY <2>1, <4>1
          <5> QED BY <1>4, <2>7, <4>1, <5>1
        <4> QED BY <4>1
      <3> QED BY <1>4, <2>1, <2>7, <3>1 DEF Watched
    <2>8. CASE r # q /\ pcP[L(r)] \in {"left", "right"}
      <3>1. CASE L(r) = p
        <4>1. r = R(p) BY <2>1, <3>1
        <4>2. pcP'[p] = "right" BY <1>4, <2>8, <4>1
        <4> QED BY <2>1, <3>1, <4>2 DEF Watched
      <3>2. CASE L(r) # p BY <1>4, <2>1, <2>8, <3>2 DEF Watched
      <3> QED BY <3>1, <3>2
    <2> QED BY <2>5, <2>6, <2>7, <2>8 DEF Watched
  <1> QED BY <1>5, <1>6, <1>8, <1>9, <1>10 DEF PhilInv

LEMMA PhilNext == ASSUME PhilInv, [MCNext]_mcvars PROVE PhilInv'
  <1>1. CASE UNCHANGED dinningVars
    BY <1>1 DEF dinningVars, PhilInv, PhilType, TableInv, AtTable, StateInv, Placed, ForkInv,
                HasForks, HungryInv, Ranked, WaitsFor, Watched, L, R
  <1>2. CASE Dinning!Next
    <2>1. PICK p \in Phil : Dinning!philospher(p) BY <1>2 DEF Dinning!Next, Phil
    <2> QED BY <2>1, PhilDown, PhilUp, PhilWait, PhilTakeTest, PhilPutState, PhilPutTest
        DEF Dinning!philospher
  <1>3. UNCHANGED dinningVars \/ Dinning!Next BY Zenon DEF MCNext, mcvars
  <1> QED BY <1>1, <1>2, <1>3

(* A nonempty set of numbers up to k has a largest. *)
LEMMA Largest ==
    ASSUME NEW k \in Nat, NEW T \in SUBSET (0 .. k), T # {}
    PROVE  \E m \in T : \A y \in T : y <= m
  <1> DEFINE U == {k - m : m \in T}
  <1>1. U \subseteq Nat
    <2>1. \A m \in T : m \in Int /\ m <= k OBVIOUS
    <2> QED BY <2>1
  <1>2. U # {} OBVIOUS
  <1>3. PICK u \in U : \A v \in U : u <= v BY <1>1, <1>2, LeastExists
  <1>4. PICK m \in T : u = k - m OBVIOUS
  <1>5. ASSUME NEW y \in T PROVE y <= m
    <2>1. k - y \in U OBVIOUS
    <2>2. k - m <= k - y BY <1>3, <1>4, <2>1
    <2>3. m \in Int /\ y \in Int
      <3>1. m \in 0 .. k /\ y \in 0 .. k BY Zenon
      <3> QED BY <3>1
    <2> QED BY <2>2, <2>3
  <1> QED BY <1>5

(* If everybody waited, one would have to wait for another that came after  *)
(* it, and so on without end.                                               *)
LEMMA SomebodyEats == ASSUME PhilInv PROVE Dinning!NotAllWait
  <1> SUFFICES ASSUME \A p \in Phil : pcP[p] = "wait" /\ ~(S[p] > 0) PROVE FALSE
    BY DEF Dinning!NotAllWait, Phil
  <1>1. \A p \in Phil : pcP[p] = "wait" /\ state[p] = "HUNGRY"
    <2> SUFFICES ASSUME NEW p \in Phil PROVE state[p] = "HUNGRY" OBVIOUS
    <2>1. Placed(p) /\ S[p] \in Nat BY DEF PhilInv, StateInv, PhilType
    <2>2. S[p] = 0 BY <2>1
    <2> QED BY <2>1, <2>2 DEF Placed
  <1>2. \A p \in Phil : L(p) \in Phil /\ R(p) \in Phil BY Neighbours
  <1>3. \A p \in Phil : ~Watched(p) BY <1>1, <1>2 DEF Watched
  <1>4. PICK k \in Nat : \E rank \in [Phil -> 0 .. k] : Ranked(rank) BY DEF PhilInv, HungryInv
  <1>5. PICK rank \in [Phil -> 0 .. k] : Ranked(rank) BY <1>4
  <1> DEFINE T == {rank[p] : p \in Phil}
  <1>6. T \in SUBSET (0 .. k) /\ T # {}
    <2>1. 0 \in Phil BY PhilAssumption DEF Phil, Dinning!Phil
    <2> QED BY <2>1
  <1> HIDE DEF T
  <1>7. PICK m \in T : \A y \in T : y <= m BY <1>6, Largest
  <1>8. PICK p \in Phil : rank[p] = m BY DEF T
  <1>9. PICK q \in {L(p), R(p)} : rank[q] > rank[p]
    BY <1>1, <1>3, <1>5 DEF Ranked, WaitsFor
  <1>10. q \in Phil /\ rank[q] \in T BY <1>2 DEF T
  <1>11. rank[q] \in Nat /\ rank[p] \in Nat BY <1>10
  <1> QED BY <1>7, <1>8, <1>9, <1>10, <1>11

(* Neighbours never eat at the same time, a turn is neither lost nor given  *)
(* twice, a philosopher that waits has a neighbour that is down as eating   *)
(* or hungry or will look at it, and they do not all wait, for every number *)
(* of philosophers of dinning.c.                                            *)
THEOREM ForksAreShared == MCInit /\ [][MCNext]_mcvars => []ForksShared
  <1>1. MCInit => PhilInv BY PhilInit DEF MCInit
  <1>2. PhilInv /\ [MCNext]_mcvars => PhilInv' BY PhilNext
  <1>3. PhilInv => ForksShared
    <2> SUFFICES ASSUME PhilInv PROVE ForksShared OBVIOUS
    <2>0. StateInv /\ ForkInv /\ HungryInv /\ PhilType BY DEF PhilInv
    <2>1. \A p \in Phil : L(p) \in Phil /\ R(p) \in Phil BY Neighbours
    <2>2. \A p \in Phil : pcP[p] = "eat" => pcP[R(p)] # "eat"
      <3>1. \A p \in Phil : pcP[p] = "eat" => HasForks(p) BY <2>0 DEF StateInv, Placed, HasForks
      <3> QED BY <2>0, <2>1, <3>1 DEF ForkInv
    <2>3. \A p \in Phil : S[p] = IF state[p] = "EATING" /\ pcP[p] \in {"leave", "wait"} THEN 1 ELSE 0
      BY <2>0 DEF StateInv, Placed
    <2>4. \A p \in Phil : pcP[p] = "wait" /\ S[p] = 0 =>
              Watched(p) \/ state[L(p)] = "HUNGRY" \/ state[R(p)] = "HUNGRY"
      <3> SUFFICES ASSUME NEW p \in Phil, pcP[p] = "wait", S[p] = 0
                   PROVE  Watched(p) \/ state[L(p)] = "HUNGRY" \/ state[R(p)] = "HUNGRY"
        OBVIOUS
      <3>1. state[p] = "HUNGRY" BY <2>0 DEF StateInv, Placed
      <3>2. PICK k \in Nat : \E rank \in [Phil -> 0 .. k] : Ranked(rank) BY <2>0 DEF HungryInv
      <3>3. PICK rank \in [Phil -> 0 .. k] : Ranked(rank) BY <3>2
      <3> QED BY <3>1, <3>3 DEF Ranked, WaitsFor
    <2>5. Dinning!NeighboursApart BY <2>2 DEF Dinning!NeighboursApart, Phil, R
    <2>6. Dinning!TurnGivenOnce BY <2>3 DEF Dinning!TurnGivenOnce, Phil
    <2>7. Dinning!WaitsForNeighbour
      BY <2>4 DEF Dinning!WaitsForNeighbour, Phil, Watched, L, R
    <2>8. Dinning!NotAllWait BY SomebodyEats
    <2> QED BY <2>5, <2>6, <2>7, <2>8 DEF ForksShared
  <1> QED BY <1>1, <1>2, <1>3, PTL

-----------------------------------------------------------------------------
(* producer.c *)

Workers == Buffer!Thread
BufferPoints == {"begin", "lock", "use", "count", "unlock", "signal"}

(* Threads of T at one of the points P. *)
At(T, P) == {t \in T : pcB[t] \in P}

Busy == At(Workers, BufferPoints \ {"begin"})
Stored == At(Producer, {"unlock", "signal"})
Unfetched == At(Consumer, {"lock", "use", "count"})

LEMMA WorkersFinite ==
    /\ IsFiniteSet(Workers) /\ Workers = Producer \cup Consumer
    /\ IsFiniteSet(Producer) /\ IsFiniteSet(Consumer)
    /\ Producer \cap Consumer = {} /\ NIL \notin Workers
    /\ Size \in Nat /\ Size > 0 /\ NIL \notin Item
  <1>1. Workers = Producer \cup Consumer BY DEF Workers, Buffer!Thread
  <1>2. IsFiniteSet(Producer \cup Consumer) BY BufferAssumption, FS_Union
  <1> QED BY <1>1, <1>2, BufferAssumption

(* Counting threads: when t goes from a to b it leaves or joins a set. *)
LEMMA AtMoves ==
    ASSUME NEW T, IsFiniteSet(T), T \subseteq Workers, pcB \in [Workers -> BufferPoints], NEW P,
           NEW t \in Workers, NEW b, pcB' = [pcB EXCEPT ![t] = b]
    PROVE  /\ Cardinality(At(T, P)) \in Nat /\ Cardinality(At(T, P))' \in Nat
           /\ (t \in T /\ pcB[t] \notin P /\ b \in P) =>
                 Cardinality(At(T, P))' = Cardinality(At(T, P)) + 1
           /\ (t \in T /\ pcB[t] \in P /\ b \notin P) =>
                 Cardinality(At(T, P))' = Cardinality(At(T, P)) - 1
           /\ (t \notin T \/ (pcB[t] \in P <=> b \in P)) =>
                 Cardinality(At(T, P))' = Cardinality(At(T, P))
  <1> DEFINE A == At(T, P)
             B == {u \in T : pcB'[u] \in P}
  <1>1. At(T, P)' = B /\ Cardinality(At(T, P))' = Cardinality(B) BY DEF At
  <1>2. A \in SUBSET T /\ B \in SUBSET T BY DEF At
  <1>3. /\ IsFiniteSet(A) /\ IsFiniteSet(B)
        /\ Cardinality(A) \in Nat /\ Cardinality(B) \in Nat
    BY <1>2, FS_Subset, FS_CardinalityType
  <1>4. \A u \in T : u # t => (u \in B <=> u \in A) BY DEF At
  <1>5. t \in T => (t \in B <=> b \in P) /\ (t \in A <=> pcB[t] \in P) BY DEF At
  <1> HIDE DEF A, B
  <1>6. ASSUME t \in T, pcB[t] \notin P, b \in P PROVE Cardinality(B) = Cardinality(A) + 1
    <2>1. B = A \cup {t} /\ t \notin A BY <1>2, <1>4, <1>5, <1>6
    <2> QED BY <1>3, <2>1, FS_AddElement
  <1>7. ASSUME t \in T, pcB[t] \in P, b \notin P PROVE Cardinality(B) = Cardinality(A) - 1
    <2>1. B = A \ {t} /\ t \in A BY <1>2, <1>4, <1>5, <1>7
    <2> QED BY <1>3, <2>1, FS_RemoveElement
  <1>8. ASSUME t \notin T \/ (pcB[t] \in P <=> b \in P) PROVE B = A
    BY <1>2, <1>4, <1>5, <1>8
  <1> QED BY <1>1, <1>3, <1>6, <1>7, <1>8 DEF A

BufferType ==
    /\ semEmpty \in Nat /\ semFull \in Nat /\ count \in Nat
    /\ mutexBuffer \in Workers \cup {NIL}
    /\ buffer \in [0 .. Size - 1 -> Item \cup {NIL}]
    /\ pcB \in [Workers -> BufferPoints]
    /\ x \in [Workers -> Item \cup {NIL}]

(* One thread at a time uses the buffer and its count. *)
HoldInv == \A t \in Workers : pcB[t] \in {"use", "count", "unlock"} => mutexBuffer = t

(* Slots are counted by the semaphores, or dealt with by a thread. *)
CountInv ==
    /\ semEmpty + semFull + Cardinality(Busy) = Size
    /\ count = semFull + Cardinality(Stored) + Cardinality(Unfetched)

(* What is in the buffer, and what a producer has put behind it. *)
ItemInv ==
    /\ \A k \in 0 .. count - 1 : buffer[k] \in Item
    /\ \A t \in Producer : pcB[t] # "begin" => x[t] \in Item
    /\ \A t \in Producer : pcB[t] = "count" => buffer[count] = x[t]

BufferInv == BufferType /\ HoldInv /\ CountInv /\ ItemInv

LEMMA BufferInit == ASSUME Buffer!Init PROVE BufferInv
  <1>1. Size \in Nat /\ Size > 0 BY WorkersFinite
  <1>2. /\ semEmpty = Size /\ semFull = 0 /\ mutexBuffer = NIL /\ count = 0
        /\ buffer = [k \in 0 .. Size - 1 |-> NIL]
        /\ pcB = [t \in Workers |-> "begin"] /\ x = [t \in Workers |-> NIL]
    BY DEF Buffer!Init, Workers
  <1>3. BufferType BY <1>1, <1>2 DEF BufferType, BufferPoints
  <1>4. \A t \in Workers : pcB[t] = "begin" BY <1>2
  <1>5. Busy = {} /\ Stored = {} /\ Unfetched = {}
    BY <1>4, WorkersFinite DEF Busy, Stored, Unfetched, At
  <1>6. CountInv BY <1>1, <1>2, <1>5, FS_EmptySet DEF CountInv
  <1>7. HoldInv BY <1>4 DEF HoldInv
  <1>8. ItemInv BY <1>2, <1>4, WorkersFinite DEF ItemInv
  <1> QED BY <1>3, <1>6, <1>7, <1>8 DEF BufferInv

(* The numbers after a step of thread t from a to b. *)
LEMMA Counts ==
    ASSUME BufferType, NEW t \in Workers, NEW a \in BufferPoints, NEW b \in BufferPoints,
           pcB[t] = a, pcB' = [pcB EXCEPT ![t] = b]
    PROVE  /\ Cardinality(Busy) \in Nat /\ Cardinality(Stored) \in Nat
           /\ Cardinality(Unfetched) \in Nat
           /\ (a = "begin" /\ b # "begin") => Cardinality(Busy)' = Cardinality(Busy) + 1
           /\ (a # "begin" /\ b = "begin") => Cardinality(Busy)' = Cardinality(Busy) - 1
           /\ (a # "begin" /\ b # "begin") => Cardinality(Busy)' = Cardinality(Busy)
           /\ (t \in Producer /\ a = "count" /\ b = "unlock") =>
                 Cardinality(Stored)' = Cardinality(Stored) + 1
           /\ (t \in Producer /\ a = "signal" /\ b = "begin") =>
                 Cardinality(Stored)' = Cardinality(Stored) - 1
           /\ (t \in Consumer \/ b \in {"lock", "use", "count"} \/ (a = "unlock" /\ b = "signal")) =>
                 ((a \notin {"unlock", "signal"} \/ b \in {"unlock", "signal"} \/ t \in Consumer) =>
                    Cardinality(Stored)' = Cardinality(Stored))
           /\ (t \in Consumer /\ a = "begin" /\ b = "lock") =>
                 Cardinality(Unfetched)' = Cardinality(Unfetched) + 1
           /\ (t \in Consumer /\ a = "count" /\ b = "unlock") =>
                 Cardinality(Unfetched)' = Cardinality(Unfetched) - 1
           /\ (\/ t \in Producer
               \/ a \in {"lock", "use"} /\ b \in {"use", "count"}
               \/ a \in {"unlock", "signal"} /\ b \in {"signal", "begin"}) =>
                 Cardinality(Unfetched)' = Cardinality(Unfetched)
  <1>0. /\ IsFiniteSet(Workers) /\ IsFiniteSet(Producer) /\ IsFiniteSet(Consumer)
        /\ Workers \subseteq Workers /\ Producer \subseteq Workers /\ Consumer \subseteq Workers
        /\ Producer \cap Consumer = {} /\ pcB \in [Workers -> BufferPoints]
    BY WorkersFinite DEF BufferType
  <1> DEFINE P == BufferPoints \ {"begin"}
             Q == {"unlock", "signal"}
             V == {"lock", "use", "count"}
  <1>p. /\ a \in P <=> a # "begin"
        /\ b \in P <=> b # "begin"
    OBVIOUS
  <1>q. /\ a \in Q <=> a \in {"unlock", "signal"}
        /\ b \in Q <=> b \in {"unlock", "signal"}
    OBVIOUS
  <1>v. /\ a \in V <=> a \in {"lock", "use", "count"}
        /\ b \in V <=> b \in {"lock", "use", "count"}
    OBVIOUS
  <1> HIDE DEF P, Q, V
  <1>1. /\ Cardinality(At(Workers, P)) \in Nat
        /\ (t \in Workers /\ pcB[t] \notin P /\ b \in P) =>
              Cardinality(At(Workers, P))' = Cardinality(At(Workers, P)) + 1
        /\ (t \in Workers /\ pcB[t] \in P /\ b \notin P) =>
              Cardinality(At(Workers, P))' = Cardinality(At(Workers, P)) - 1
        /\ (t \notin Workers \/ (pcB[t] \in P <=> b \in P)) =>
              Cardinality(At(Workers, P))' = Cardinality(At(Workers, P))
    BY <1>0, AtMoves
  <1>2. /\ Cardinality(At(Producer, Q)) \in Nat
        /\ (t \in Producer /\ pcB[t] \notin Q /\ b \in Q) =>
              Cardinality(At(Producer, Q))' = Cardinality(At(Producer, Q)) + 1
        /\ (t \in Producer /\ pcB[t] \in Q /\ b \notin Q) =>
              Cardinality(At(Producer, Q))' = Cardinality(At(Producer, Q)) - 1
        /\ (t \notin Producer \/ (pcB[t] \in Q <=> b \in Q)) =>
              Cardinality(At(Producer, Q))' = Cardinality(At(Producer, Q))
    BY <1>0, AtMoves
  <1>3. /\ Cardinality(At(Consumer, V)) \in Nat
        /\ (t \in Consumer /\ pcB[t] \notin V /\ b \in V) =>
              Cardinality(At(Consumer, V))' = Cardinality(At(Consumer, V)) + 1
        /\ (t \in Consumer /\ pcB[t] \in V /\ b \notin V) =>
              Cardinality(At(Consumer, V))' = Cardinality(At(Consumer, V)) - 1
        /\ (t \notin Consumer \/ (pcB[t] \in V <=> b \in V)) =>
              Cardinality(At(Consumer, V))' = Cardinality(At(Consumer, V))
    BY <1>0, AtMoves
  <1>4. /\ Busy = At(Workers, P) /\ Cardinality(Busy)' = Cardinality(At(Workers, P))'
        /\ Stored = At(Producer, Q) /\ Cardinality(Stored)' = Cardinality(At(Producer, Q))'
        /\ Unfetched = At(Consumer, V) /\ Cardinality(Unfetched)' = Cardinality(At(Consumer, V))'
    BY DEF Busy, Stored, Unfetched, P, Q, V
  <1> QED BY <1>0, <1>1, <1>2, <1>3, <1>4, <1>p, <1>q, <1>v
(* A producer on its way to the buffer finds room in it, a consumer on its  *)
(* way finds an item: this is what the semaphores are for.                  *)
LEMMA RoomAndItems ==
    ASSUME BufferInv, NEW t \in Workers, pcB[t] \in {"lock", "use", "count"}
    PROVE  /\ t \in Producer => count < Size
           /\ t \in Consumer => count >= 1
  <1>0. /\ semEmpty \in Nat /\ semFull \in Nat /\ count \in Nat /\ Size \in Nat
        /\ semEmpty + semFull + Cardinality(Busy) = Size
        /\ count = semFull + Cardinality(Stored) + Cardinality(Unfetched)
        /\ pcB \in [Workers -> BufferPoints]
    BY WorkersFinite DEF BufferInv, BufferType, CountInv
  <1>1. Busy \subseteq Workers /\ Stored \subseteq Workers /\ Unfetched \subseteq Workers
    BY WorkersFinite DEF Busy, Stored, Unfetched, At
  <1>2. IsFiniteSet(Busy) /\ IsFiniteSet(Stored) /\ IsFiniteSet(Unfetched)
    BY <1>1, WorkersFinite, FS_Subset
  <1>3. /\ Cardinality(Busy) \in Nat /\ Cardinality(Stored) \in Nat
        /\ Cardinality(Unfetched) \in Nat
    BY <1>2, FS_CardinalityType
  <1>4. Stored \subseteq Busy /\ Unfetched \subseteq Busy /\ Stored \cap Unfetched = {}
    BY WorkersFinite DEF Busy, Stored, Unfetched, At, BufferPoints
  <1>5. t \in Busy /\ t \notin Stored
    BY DEF Busy, Stored, At, BufferPoints
  <1>6. ASSUME t \in Producer PROVE count < Size
    <2>1. t \notin Unfetched BY <1>6, WorkersFinite DEF Unfetched, At
    <2>2. IsFiniteSet(Stored \cup Unfetched)
          /\ Cardinality(Stored \cup Unfetched)
                = Cardinality(Stored) + Cardinality(Unfetched) - Cardinality(Stored \cap Unfetched)
      BY <1>2, FS_Union
    <2>3. Cardinality(Stored \cup Unfetched) = Cardinality(Stored) + Cardinality(Unfetched)
      BY <1>3, <1>4, <2>2, FS_EmptySet
    <2>4. IsFiniteSet(Busy \ {t}) /\ Cardinality(Busy \ {t}) = Cardinality(Busy) - 1
      BY <1>2, <1>5, FS_RemoveElement
    <2>5. Stored \cup Unfetched \in SUBSET (Busy \ {t}) BY <1>4, <1>5, <2>1
    <2>6. Cardinality(Stored \cup Unfetched) <= Cardinality(Busy \ {t})
      BY <2>4, <2>5, FS_Subset
    <2> QED BY <1>0, <1>3, <2>3, <2>4, <2>6
  <1>7. ASSUME t \in Consumer PROVE count >= 1
    <2>1. Unfetched # {} BY <1>7 DEF Unfetched, At
    <2>2. Cardinality(Unfetched) # 0 BY <1>2, <2>1, FS_EmptySet
    <2> QED BY <1>0, <1>3, <2>2
  <1> QED BY <1>6, <1>7

(* The buffer never overflows. *)
LEMMA CountFits == ASSUME BufferInv PROVE count <= Size
  <1>0. /\ semEmpty \in Nat /\ semFull \in Nat /\ count \in Nat /\ Size \in Nat
        /\ semEmpty + semFull + Cardinality(Busy) = Size
        /\ count = semFull + Cardinality(Stored) + Cardinality(Unfetched)
    BY WorkersFinite DEF BufferInv, BufferType, CountInv
  <1>1. Busy \subseteq Workers /\ Stored \subseteq Workers /\ Unfetched \subseteq Workers
    BY WorkersFinite DEF Busy, Stored, Unfetched, At
  <1>2. IsFiniteSet(Busy) /\ IsFiniteSet(Stored) /\ IsFiniteSet(Unfetched)
    BY <1>1, WorkersFinite, FS_Subset
  <1>3. /\ Cardinality(Busy) \in Nat /\ Cardinality(Stored) \in Nat
        /\ Cardinality(Unfetched) \in Nat
    BY <1>2, FS_CardinalityType
  <1>4. Stored \cup Unfetched \in SUBSET Busy /\ Stored \cap Unfetched = {}
    BY WorkersFinite DEF Busy, Stored, Unfetched, At, BufferPoints
  <1>5. Cardinality(Stored \cup Unfetched)
           = Cardinality(Stored) + Cardinality(Unfetched) - Cardinality(Stored \cap Unfetched)
    BY <1>2, FS_Union
  <1>6. Cardinality(Stored \cup Unfetched) = Cardinality(Stored) + Cardinality(Unfetched)
    BY <1>3, <1>4, <1>5, FS_EmptySet
  <1>7. Cardinality(Stored \cup Unfetched) <= Cardinality(Busy) BY <1>2, <1>4, FS_Subset
  <1> QED BY <1>0, <1>3, <1>6, <1>7
(* One thread is at work on the buffer. *)
LEMMA OneAtWork ==
    ASSUME HoldInv, NEW t \in Workers, NEW u \in Workers,
           pcB[t] \in {"use", "count", "unlock"}, pcB[u] \in {"use", "count", "unlock"}
    PROVE  u = t
  BY DEF HoldInv

(* A thread starts: it has a slot or an item from its semaphore. *)
LEMMA BufferBegins ==
    ASSUME BufferInv, NEW t \in Workers,
           \/ t \in Producer /\ \E k \in Item : Buffer!Produce(t, k)
           \/ t \in Consumer /\ Buffer!AwaitFull(t)
    PROVE  BufferInv'
  <1>0. BufferType /\ HoldInv /\ CountInv /\ ItemInv BY DEF BufferInv
  <1>1. /\ pcB[t] = "begin" /\ pcB' = [pcB EXCEPT ![t] = "lock"]
        /\ mutexBuffer' = mutexBuffer /\ buffer' = buffer /\ count' = count
    BY DEF Buffer!Produce, Buffer!AwaitFull, Buffer!Goto
  <1>2. /\ t \in Producer => \E k \in Item : /\ semEmpty > 0 /\ semEmpty' = semEmpty - 1
                                             /\ semFull' = semFull
                                             /\ x' = [x EXCEPT ![t] = k]
        /\ t \in Consumer => semFull > 0 /\ semFull' = semFull - 1 /\ semEmpty' = semEmpty /\ x' = x
    BY WorkersFinite DEF Buffer!Produce, Buffer!AwaitFull
  <1>3. t \in Producer \/ t \in Consumer BY WorkersFinite
  <1>4. BufferType'
    <2>1. pcB' \in [Workers -> BufferPoints] BY <1>0, <1>1 DEF BufferType, BufferPoints
    <2>2. semEmpty' \in Nat /\ semFull' \in Nat BY <1>0, <1>2, <1>3 DEF BufferType
    <2>3. x' \in [Workers -> Item \cup {NIL}] BY <1>0, <1>2, <1>3 DEF BufferType
    <2> QED BY <1>0, <1>1, <2>1, <2>2, <2>3 DEF BufferType
  <1>5. HoldInv' BY <1>0, <1>1 DEF HoldInv, BufferType
  <1>6. CountInv'
    <2>1. "begin" \in BufferPoints /\ "lock" \in BufferPoints BY DEF BufferPoints
    <2>2. /\ Cardinality(Busy) \in Nat /\ Cardinality(Stored) \in Nat
          /\ Cardinality(Unfetched) \in Nat
          /\ Cardinality(Busy)' = Cardinality(Busy) + 1
          /\ Cardinality(Stored)' = Cardinality(Stored)
          /\ t \in Consumer => Cardinality(Unfetched)' = Cardinality(Unfetched) + 1
          /\ t \in Producer => Cardinality(Unfetched)' = Cardinality(Unfetched)
      BY <1>0, <1>1, <2>1, Counts
    <2>3. semEmpty \in Nat /\ semFull \in Nat /\ count \in Nat /\ Size \in Nat
      BY <1>0, WorkersFinite DEF BufferType
    <2>4. CASE t \in Producer BY <1>0, <1>1, <1>2, <2>2, <2>3, <2>4 DEF CountInv
    <2>5. CASE t \in Consumer BY <1>0, <1>1, <1>2, <2>2, <2>3, <2>5 DEF CountInv
    <2> QED BY <1>3, <2>4, <2>5
  <1>7. ItemInv'
    <2>1. \A k \in 0 .. count' - 1 : buffer'[k] \in Item BY <1>0, <1>1 DEF ItemInv
    <2>2. \A u \in Producer : pcB'[u] # "begin" => x'[u] \in Item
      <3>1. CASE t \in Producer
        BY <1>0, <1>1, <1>2, <3>1, WorkersFinite DEF ItemInv, BufferType
      <3>2. CASE t \in Consumer
        BY <1>0, <1>1, <1>2, <3>2, WorkersFinite DEF ItemInv, BufferType
      <3> QED BY <1>3, <3>1, <3>2
    <2>3. \A u \in Producer : pcB'[u] = "count" => u # t /\ pcB[u] = "count" /\ x'[u] = x[u]
      <3>1. CASE t \in Producer
        BY <1>0, <1>1, <1>2, <3>1, WorkersFinite DEF BufferType
      <3>2. CASE t \in Consumer
        BY <1>0, <1>1, <1>2, <3>2, WorkersFinite DEF BufferType
      <3> QED BY <1>3, <3>1, <3>2
    <2>4. \A u \in Producer : pcB'[u] = "count" => buffer'[count'] = x'[u]
      BY <1>0, <1>1, <2>3 DEF ItemInv
    <2> QED BY <2>1, <2>2, <2>4 DEF ItemInv
  <1> QED BY <1>4, <1>5, <1>6, <1>7 DEF BufferInv

(* The mutex is taken and given back. *)
LEMMA BufferLocks ==
    ASSUME BufferInv, NEW t \in Workers, Buffer!Lock(t) \/ Buffer!Unlock(t)
    PROVE  BufferInv'
  <1>0. BufferType /\ HoldInv /\ CountInv /\ ItemInv BY DEF BufferInv
  <1>1. /\ semEmpty' = semEmpty /\ semFull' = semFull
        /\ buffer' = buffer /\ count' = count /\ x' = x
    BY DEF Buffer!Lock, Buffer!Unlock
  <1>2. PICK a \in BufferPoints, b \in BufferPoints :
           /\ pcB[t] = a /\ pcB' = [pcB EXCEPT ![t] = b]
           /\ \/ a = "lock" /\ b = "use" /\ mutexBuffer = NIL /\ mutexBuffer' = t
              \/ a = "unlock" /\ b = "signal" /\ mutexBuffer' = NIL
    BY DEF Buffer!Lock, Buffer!Unlock, Buffer!Goto, BufferPoints
  <1>3. t \in Producer \/ t \in Consumer BY WorkersFinite
  <1>4. BufferType' BY <1>0, <1>1, <1>2 DEF BufferType
  <1>5. HoldInv'
    <2>1. CASE a = "lock"
      <3>1. \A u \in Workers : pcB[u] \notin {"use", "count", "unlock"}
        BY <1>0, <1>2, <2>1, WorkersFinite DEF HoldInv
      <3> QED BY <1>0, <1>2, <2>1, <3>1 DEF HoldInv, BufferType
    <2>2. CASE a = "unlock"
      <3>1. \A u \in Workers : pcB[u] \in {"use", "count", "unlock"} => u = t
        BY <1>0, <1>2, <2>2, OneAtWork
      <3> QED BY <1>0, <1>2, <2>2, <3>1 DEF HoldInv, BufferType
    <2> QED BY <1>2, <2>1, <2>2
  <1>6. CountInv'
    <2>2. /\ Cardinality(Busy)' = Cardinality(Busy)
          /\ Cardinality(Stored)' = Cardinality(Stored)
          /\ Cardinality(Unfetched)' = Cardinality(Unfetched)
      BY <1>0, <1>2, <1>3, Counts
    <2> QED BY <1>0, <1>1, <2>2 DEF CountInv
  <1>7. ItemInv'
    <2>1. \A u \in Producer : pcB'[u] # "begin" => pcB[u] # "begin"
      BY <1>0, <1>2, WorkersFinite DEF BufferType
    <2>2. \A u \in Producer : pcB'[u] = "count" => pcB[u] = "count"
      BY <1>0, <1>2, WorkersFinite DEF BufferType
    <2> QED BY <1>0, <1>1, <2>1, <2>2 DEF ItemInv
  <1> QED BY <1>4, <1>5, <1>6, <1>7 DEF BufferInv
(* An item is put behind those in the buffer, or the last one is read. *)
LEMMA BufferUses ==
    ASSUME BufferInv, NEW t \in Workers, Buffer!Store(t) \/ Buffer!Fetch(t)
    PROVE  BufferInv' /\ count' = count /\ \A k \in 0 .. count - 1 : buffer'[k] = buffer[k]
  <1>0. BufferType /\ HoldInv /\ CountInv /\ ItemInv BY DEF BufferInv
  <1>1. /\ semEmpty' = semEmpty /\ semFull' = semFull /\ mutexBuffer' = mutexBuffer
        /\ count' = count /\ pcB[t] = "use" /\ pcB' = [pcB EXCEPT ![t] = "count"]
    BY DEF Buffer!Store, Buffer!Fetch, Buffer!Goto
  <1>2. \/ t \in Producer /\ buffer' = [buffer EXCEPT ![count] = x[t]] /\ x' = x
        \/ t \in Consumer /\ buffer' = buffer /\ x' = [x EXCEPT ![t] = buffer[count - 1]]
    BY DEF Buffer!Store, Buffer!Fetch
  <1>3. /\ t \in Producer => count < Size
        /\ t \in Consumer => count >= 1
    BY <1>1, RoomAndItems
  <1>4. count <= Size /\ count \in Nat /\ Size \in Nat
    BY <1>0, CountFits, WorkersFinite DEF BufferType
  <1>5. count \in 0 .. Size - 1 \/ t \in Consumer BY <1>2, <1>3, <1>4
  <1>6. BufferType'
    <2>1. pcB' \in [Workers -> BufferPoints] BY <1>0, <1>1 DEF BufferType, BufferPoints
    <2>2. CASE t \in Producer
      <3>1. x[t] \in Item \cup {NIL} BY <1>0 DEF BufferType
      <3>2. buffer' \in [0 .. Size - 1 -> Item \cup {NIL}] /\ x' = x
        BY <1>0, <1>2, <2>2, <3>1, WorkersFinite DEF BufferType
      <3> QED BY <1>0, <1>1, <2>1, <3>2 DEF BufferType
    <2>3. CASE t \in Consumer
      <3>1. count - 1 \in 0 .. Size - 1 BY <1>3, <1>4, <2>3
      <3>2. buffer[count - 1] \in Item \cup {NIL} BY <1>0, <3>1 DEF BufferType
      <3>3. x' \in [Workers -> Item \cup {NIL}] /\ buffer' = buffer
        BY <1>0, <1>2, <2>3, <3>2, WorkersFinite DEF BufferType
      <3> QED BY <1>0, <1>1, <2>1, <3>3 DEF BufferType
    <2> QED BY <1>2, <2>2, <2>3
  <1>7. HoldInv' BY <1>0, <1>1 DEF HoldInv, BufferType
  <1>8. CountInv'
    <2>1. "use" \in BufferPoints /\ "count" \in BufferPoints BY DEF BufferPoints
    <2>2. /\ Cardinality(Busy)' = Cardinality(Busy)
          /\ Cardinality(Stored)' = Cardinality(Stored)
          /\ Cardinality(Unfetched)' = Cardinality(Unfetched)
      BY <1>0, <1>1, <2>1, Counts
    <2> QED BY <1>0, <1>1, <2>2 DEF CountInv
  <1>9. \A k \in 0 .. count - 1 : buffer'[k] = buffer[k]
    <2>1. CASE t \in Producer
      BY <1>0, <1>2, <1>4, <2>1, WorkersFinite DEF BufferType
    <2>2. CASE t \in Consumer BY <1>2, <2>2, WorkersFinite
    <2> QED BY <1>2, <2>1, <2>2
  <1>10. ItemInv'
    <2>1. \A k \in 0 .. count' - 1 : buffer'[k] \in Item BY <1>0, <1>1, <1>9 DEF ItemInv
    <2>2. \A u \in Producer : x'[u] = x[u]
      BY <1>0, <1>2, WorkersFinite DEF BufferType
    <2>3. \A u \in Producer : pcB'[u] # "begin" => pcB[u] # "begin"
      BY <1>0, <1>1, WorkersFinite DEF BufferType
    <2>4. \A u \in Producer : pcB'[u] = "count" => u = t
      <3>1. \A u \in Producer : u # t => pcB'[u] = pcB[u]
        BY <1>0, <1>1, WorkersFinite DEF BufferType
      <3>2. \A u \in Producer : pcB[u] = "count" => u = t
        BY <1>0, <1>1, OneAtWork, WorkersFinite
      <3> QED BY <3>1, <3>2
    <2>5. t \in Producer => buffer'[count'] = x'[t]
      BY <1>0, <1>1, <1>2, <1>3, <1>4, WorkersFinite DEF BufferType
    <2> QED BY <1>0, <2>1, <2>2, <2>3, <2>4, <2>5 DEF ItemInv
  <1> QED BY <1>1, <1>6, <1>7, <1>8, <1>9, <1>10 DEF BufferInv

(* A thread has done: its semaphore is signalled. *)
LEMMA BufferSignals ==
    ASSUME BufferInv, NEW t \in Workers, Buffer!SignalFull(t) \/ Buffer!SignalEmpty(t)
    PROVE  BufferInv'
  <1>0. BufferType /\ HoldInv /\ CountInv /\ ItemInv BY DEF BufferInv
  <1>1. /\ pcB[t] = "signal" /\ pcB' = [pcB EXCEPT ![t] = "begin"]
        /\ mutexBuffer' = mutexBuffer /\ buffer' = buffer /\ count' = count
        /\ x' = [x EXCEPT ![t] = NIL]
    BY DEF Buffer!SignalFull, Buffer!SignalEmpty, Buffer!Goto
  <1>2. \/ t \in Producer /\ semFull' = semFull + 1 /\ semEmpty' = semEmpty
        \/ t \in Consumer /\ semEmpty' = semEmpty + 1 /\ semFull' = semFull
    BY DEF Buffer!SignalFull, Buffer!SignalEmpty
  <1>4. BufferType'
    <2>1. pcB' \in [Workers -> BufferPoints] BY <1>0, <1>1 DEF BufferType, BufferPoints
    <2>2. semEmpty' \in Nat /\ semFull' \in Nat BY <1>0, <1>2 DEF BufferType
    <2>3. x' \in [Workers -> Item \cup {NIL}] BY <1>0, <1>1 DEF BufferType
    <2> QED BY <1>0, <1>1, <2>1, <2>2, <2>3 DEF BufferType
  <1>5. HoldInv' BY <1>0, <1>1 DEF HoldInv, BufferType
  <1>6. CountInv'
    <2>1. "begin" \in BufferPoints /\ "signal" \in BufferPoints BY DEF BufferPoints
    <2>2. /\ Cardinality(Busy) \in Nat /\ Cardinality(Stored) \in Nat
          /\ Cardinality(Unfetched) \in Nat
          /\ Cardinality(Busy)' = Cardinality(Busy) - 1
          /\ t \in Producer => Cardinality(Stored)' = Cardinality(Stored) - 1
          /\ t \in Consumer => Cardinality(Stored)' = Cardinality(Stored)
          /\ Cardinality(Unfetched)' = Cardinality(Unfetched)
      BY <1>0, <1>1, <2>1, Counts
    <2>3. semEmpty \in Nat /\ semFull \in Nat /\ count \in Nat /\ Size \in Nat
      BY <1>0, WorkersFinite DEF BufferType
    <2>4. CASE t \in Producer /\ semFull' = semFull + 1 /\ semEmpty' = semEmpty
      BY <1>0, <1>1, <2>2, <2>3, <2>4 DEF CountInv
    <2>5. CASE t \in Consumer /\ semEmpty' = semEmpty + 1 /\ semFull' = semFull
      BY <1>0, <1>1, <2>2, <2>3, <2>5 DEF CountInv
    <2> QED BY <1>2, <2>4, <2>5
  <1>7. ItemInv'
    <2>1. \A u \in Producer : pcB'[u] # "begin" => u # t /\ pcB'[u] = pcB[u] /\ x'[u] = x[u]
      BY <1>0, <1>1, WorkersFinite DEF BufferType
    <2> QED BY <1>0, <1>1, <2>1 DEF ItemInv
  <1> QED BY <1>4, <1>5, <1>6, <1>7 DEF BufferInv

(* The count follows the item. *)
LEMMA BufferCounts ==
    ASSUME BufferInv, NEW t \in Workers, Buffer!Increment(t) \/ Buffer!Decrement(t)
    PROVE  /\ BufferInv' /\ buffer' = buffer
           /\ \/ count' = count + 1 /\ count < Size /\ buffer[count] \in Item
              \/ count' = count - 1 /\ count >= 1
  <1>0. BufferType /\ HoldInv /\ CountInv /\ ItemInv BY DEF BufferInv
  <1>1. /\ pcB[t] = "count" /\ pcB' = [pcB EXCEPT ![t] = "unlock"]
        /\ mutexBuffer' = mutexBuffer /\ buffer' = buffer /\ x' = x
        /\ semEmpty' = semEmpty /\ semFull' = semFull
    BY DEF Buffer!Increment, Buffer!Decrement, Buffer!Goto
  <1>2. \/ t \in Producer /\ count' = count + 1
        \/ t \in Consumer /\ count' = count - 1
    BY DEF Buffer!Increment, Buffer!Decrement
  <1>3. /\ t \in Producer => count < Size
        /\ t \in Consumer => count >= 1
    BY <1>1, RoomAndItems
  <1>4. semEmpty \in Nat /\ semFull \in Nat /\ count \in Nat /\ Size \in Nat
    BY <1>0, WorkersFinite DEF BufferType
  <1>5. t \in Producer => buffer[count] = x[t] /\ x[t] \in Item
    BY <1>0, <1>1 DEF ItemInv
  <1>6. BufferType'
    <2>1. pcB' \in [Workers -> BufferPoints] BY <1>0, <1>1 DEF BufferType, BufferPoints
    <2>2. count' \in Nat BY <1>2, <1>3, <1>4
    <2> QED BY <1>0, <1>1, <2>1, <2>2 DEF BufferType
  <1>7. HoldInv' BY <1>0, <1>1 DEF HoldInv, BufferType
  <1>8. CountInv'
    <2>1. "count" \in BufferPoints /\ "unlock" \in BufferPoints BY DEF BufferPoints
    <2>2. /\ Cardinality(Busy) \in Nat /\ Cardinality(Stored) \in Nat
          /\ Cardinality(Unfetched) \in Nat
          /\ Cardinality(Busy)' = Cardinality(Busy)
          /\ t \in Producer => /\ Cardinality(Stored)' = Cardinality(Stored) + 1
                               /\ Cardinality(Unfetched)' = Cardinality(Unfetched)
          /\ t \in Consumer => /\ Cardinality(Stored)' = Cardinality(Stored)
                               /\ Cardinality(Unfetched)' = Cardinality(Unfetched) - 1
      BY <1>0, <1>1, <2>1, Counts
    <2>4. CASE t \in Producer /\ count' = count + 1
      BY <1>0, <1>1, <1>4, <2>2, <2>4 DEF CountInv
    <2>5. CASE t \in Consumer /\ count' = count - 1
      BY <1>0, <1>1, <1>4, <2>2, <2>5 DEF CountInv
    <2> QED BY <1>2, <2>4, <2>5
  <1>9. ItemInv'
    <2>1. \A k \in 0 .. count' - 1 : buffer'[k] \in Item
      <3>1. CASE t \in Producer /\ count' = count + 1
        <4>1. \A k \in 0 .. count' - 1 : k \in 0 .. count - 1 \/ k = count BY <1>4, <3>1
        <4> QED BY <1>0, <1>1, <1>5, <3>1, <4>1 DEF ItemInv
      <3>2. CASE t \in Consumer /\ count' = count - 1
        <4>1. \A k \in 0 .. count' - 1 : k \in 0 .. count - 1 BY <1>4, <3>2
        <4> QED BY <1>0, <1>1, <4>1 DEF ItemInv
      <3> QED BY <1>2, <3>1, <3>2
    <2>2. \A u \in Producer : pcB'[u] # "begin" => pcB[u] # "begin"
      BY <1>0, <1>1, WorkersFinite DEF BufferType
    <2>3. \A u \in Producer : pcB'[u] # "count"
      <3>1. \A u \in Producer : u # t => pcB'[u] = pcB[u]
        BY <1>0, <1>1, WorkersFinite DEF BufferType
      <3>2. \A u \in Producer : pcB[u] = "count" => u = t
        BY <1>0, <1>1, OneAtWork, WorkersFinite
      <3>3. pcB'[t] = "unlock" BY <1>0, <1>1 DEF BufferType
      <3> QED BY <3>1, <3>2, <3>3
    <2> QED BY <1>0, <1>1, <2>1, <2>2, <2>3 DEF ItemInv
  <1> QED BY <1>1, <1>2, <1>3, <1>5, <1>6, <1>7, <1>8, <1>9 DEF BufferInv
(* The items that the count takes in. *)
Items == [k \in 1 .. count |-> buffer[k - 1]]

LEMMA ItemsKept ==
    ASSUME count' = count, count \in Nat, \A k \in 0 .. count - 1 : buffer'[k] = buffer[k]
    PROVE  Items' = Items
  <1>1. \A k \in 1 .. count : k - 1 \in 0 .. count - 1 OBVIOUS
  <1>2. \A k \in 1 .. count : buffer'[k - 1] = buffer[k - 1] BY <1>1
  <1> QED BY <1>2 DEF Items

(* What a step of producer.c does to the items. *)
ItemStep ==
    \/ Items' = Items
    \/ /\ count \in Nat /\ count' = count + 1 /\ count < Size
       /\ buffer[count] \in Item /\ buffer' = buffer
    \/ count \in Nat /\ count' = count - 1 /\ count >= 1 /\ buffer' = buffer

LEMMA BufferStep == ASSUME BufferInv, [MCNext]_mcvars PROVE BufferInv' /\ ItemStep
  <1>0. count \in Nat BY DEF BufferInv, BufferType
  <1>1. ASSUME count' = count, buffer' = buffer PROVE Items' = Items
    BY <1>0, <1>1, ItemsKept
  <1>2. CASE UNCHANGED bufferVars
    <2>1. Cardinality(Busy)' = Cardinality(Busy) /\ Cardinality(Stored)' = Cardinality(Stored)
          /\ Cardinality(Unfetched)' = Cardinality(Unfetched)
      BY <1>2 DEF bufferVars, Busy, Stored, Unfetched, At
    <2>2. BufferInv'
      BY <1>2, <2>1 DEF bufferVars, BufferInv, BufferType, HoldInv, CountInv, ItemInv
    <2> QED BY <1>1, <1>2, <2>2 DEF bufferVars, ItemStep
  <1>3. CASE Buffer!Next
    <2>1. PICK t \in Workers : \/ t \in Producer /\ Buffer!producer(t)
                               \/ t \in Consumer /\ Buffer!consumer(t)
      BY <1>3, WorkersFinite DEF Buffer!Next
    <2>2. CASE \/ t \in Producer /\ \E k \in Item : Buffer!Produce(t, k)
               \/ t \in Consumer /\ Buffer!AwaitFull(t)
      <3>1. BufferInv' BY <2>2, BufferBegins
      <3>2. count' = count /\ buffer' = buffer BY <2>2 DEF Buffer!Produce, Buffer!AwaitFull
      <3> QED BY <1>1, <3>1, <3>2 DEF ItemStep
    <2>3. CASE Buffer!Lock(t) \/ Buffer!Unlock(t)
      <3>1. BufferInv' BY <2>3, BufferLocks
      <3>2. count' = count /\ buffer' = buffer BY <2>3 DEF Buffer!Lock, Buffer!Unlock
      <3> QED BY <1>1, <3>1, <3>2 DEF ItemStep
    <2>4. CASE Buffer!Store(t) \/ Buffer!Fetch(t)
      BY <1>0, <2>4, BufferUses, ItemsKept DEF ItemStep
    <2>5. CASE Buffer!SignalFull(t) \/ Buffer!SignalEmpty(t)
      <3>1. BufferInv' BY <2>5, BufferSignals
      <3>2. count' = count /\ buffer' = buffer BY <2>5 DEF Buffer!SignalFull, Buffer!SignalEmpty
      <3> QED BY <1>1, <3>1, <3>2 DEF ItemStep
    <2>6. CASE Buffer!Increment(t) \/ Buffer!Decrement(t)
      BY <1>0, <2>6, BufferCounts DEF ItemStep
    <2> QED BY <2>1, <2>2, <2>3, <2>4, <2>5, <2>6 DEF Buffer!producer, Buffer!consumer
  <1> QED BY <1>2, <1>3 DEF MCNext, mcvars, dinningVars, counterVars, fuelVars

LEMMA SameCardinality == ASSUME NEW T PROVE Buffer!Cardinality(T) = Cardinality(T)
  BY Zenon DEF Cardinality, Buffer!Cardinality

(* Every slot of producer.c is counted once, by a semaphore or by the       *)
(* thread that deals with it, and the count is the number of slots that     *)
(* hold an item, for any size and any number of threads.                    *)
THEOREM SlotsAreCounted == MCInit /\ [][MCNext]_mcvars => []Buffer!SlotsCounted
  <1>1. MCInit => BufferInv BY BufferInit DEF MCInit
  <1>2. BufferInv /\ [MCNext]_mcvars => BufferInv' BY BufferStep
  <1>3. BufferInv => Buffer!SlotsCounted
    <2> SUFFICES ASSUME BufferInv PROVE Buffer!SlotsCounted OBVIOUS
    <2>1. Busy = {t \in Buffer!Thread : pcB[t] # "begin"}
      BY DEF BufferInv, BufferType, Busy, At, Workers
    <2>2. /\ Buffer!Cardinality(Busy) = Cardinality(Busy)
          /\ Buffer!Cardinality(Stored) = Cardinality(Stored)
          /\ Buffer!Cardinality(Unfetched) = Cardinality(Unfetched)
      BY SameCardinality
    <2>3. /\ semEmpty + semFull + Buffer!Cardinality(Busy) = Size
          /\ count = semFull + Buffer!Cardinality(Stored) + Buffer!Cardinality(Unfetched)
      BY <2>2 DEF BufferInv, CountInv
    <2> QED BY <2>1, <2>3 DEF Buffer!SlotsCounted, Stored, Unfetched, At
  <1> QED BY <1>1, <1>2, <1>3, PTL

(* A count that is raised pushes the item behind the others, one that is    *)
(* lowered pops the last of them.                                           *)
LEMMA StackStep ==
    ASSUME BufferInv, [MCNext]_mcvars
    PROVE  [Buffer!Stack!Next]_Items
  <1>1. ItemStep BY BufferStep
  <1>2. CASE Items' = Items BY <1>2
  <1>3. CASE /\ count \in Nat /\ count' = count + 1 /\ count < Size
             /\ buffer[count] \in Item /\ buffer' = buffer
    <2>1. Items' = [k \in 1 .. count + 1 |-> buffer[k - 1]] BY <1>3 DEF Items
    <2>2. Len(Items) = count BY <1>3 DEF Items
    <2>3. Append(Items, buffer[count]) = [k \in 1 .. count + 1 |-> buffer[k - 1]]
      BY <1>3 DEF Items
    <2>4. PICK k \in Item : k = buffer[count] BY <1>3
    <2>5. Buffer!Stack!Push(k)
      BY <1>3, <2>1, <2>2, <2>3, <2>4 DEF Buffer!Stack!Push, Items
    <2> QED BY <2>5 DEF Buffer!Stack!Next
  <1>4. CASE count \in Nat /\ count' = count - 1 /\ count >= 1 /\ buffer' = buffer
    <2>1. Items' = [k \in 1 .. count - 1 |-> buffer[k - 1]] BY <1>4 DEF Items
    <2>2. Len(Items) = count BY <1>4 DEF Items
    <2>3. Buffer!Stack!Front(Items) = [k \in 1 .. count - 1 |-> buffer[k - 1]]
      BY <1>4, <2>2 DEF Items, Buffer!Stack!Front
    <2>4. Items # <<>> BY <1>4, <2>2
    <2>5. Buffer!Stack!Pop BY <2>1, <2>3, <2>4 DEF Buffer!Stack!Pop, Items
    <2> QED BY <2>5 DEF Buffer!Stack!Next
  <1> QED BY <1>1, <1>2, <1>3, <1>4 DEF ItemStep

(* The buffer of producer.c is a bounded stack: an item that was produced   *)
(* is on it when the count is raised, and stays until a consumer, having    *)
(* read it, lowers the count. Nothing is overwritten or got twice.          *)
THEOREM BufferIsStack == MCInit /\ [][MCNext]_mcvars => StackSpec
  <1>1. MCInit => BufferInv BY BufferInit DEF MCInit
  <1>2. BufferInv /\ [MCNext]_mcvars => BufferInv' BY BufferStep
  <1>3. MCInit => Buffer!Stack!Init
    BY DEF MCInit, Buffer!Init, Buffer!Stack!Init
  <1>4. BufferInv /\ [MCNext]_mcvars =>
           [Buffer!Stack!Next]_[k \in 1 .. count |-> buffer[k - 1]]
    BY StackStep DEF Items
  <1> QED BY <1>1, <1>2, <1>3, <1>4, PTL DEF StackSpec, Buffer!StackSpec, Buffer!Stack!Spec
-----------------------------------------------------------------------------
(* race.c, mutex.c and mutual.c *)

CounterPoints == {"loop", "load", "store", "leave"}

(* Passes in which thread t has stored. *)
Stores(t) == i[t] + (IF pcC[t] = "leave" THEN 1 ELSE 0)

CounterType ==
    /\ mails \in Nat /\ i \in [{0, 1} -> Nat] /\ eax \in [{0, 1} -> Nat]
    /\ pcC \in [{0, 1} -> CounterPoints]

(* Where there is a mutex, or turns, one thread is in the loop's body. *)
InsideInv ==
    \A t \in {0, 1} : pcC[t] # "loop" =>
        (program = "mutex" => mutexC = t) /\ (program = "mutual" => turn = t)

(* What the other thread cannot disturb then. *)
MailsInv ==
    program \in {"mutex", "mutual"} =>
        /\ mails = Stores(0) + Stores(1)
        /\ \A t \in {0, 1} : pcC[t] = "store" => eax[t] = mails

(* And what is true without them. A thread's second pass, and every later   *)
(* one, loads at least 1; so the last store of all leaves at least 2.       *)
RaceInv ==
    program = "race" =>
        /\ mails <= Stores(0) + Stores(1)
        /\ \A t \in {0, 1} :
              /\ i[t] <= RaceRounds /\ (pcC[t] # "loop" => i[t] < RaceRounds)
              /\ Stores(t) >= 1 => mails >= 1
              /\ pcC[t] = "store" =>
                    eax[t] <= Stores(0) + Stores(1) /\ (i[t] >= 1 => eax[t] >= 1)
        /\ RaceRounds >= 2 /\ Stores(0) = RaceRounds /\ Stores(1) = RaceRounds => mails >= 2

CounterInv == CounterType /\ InsideInv /\ MailsInv /\ RaceInv

(* A step of one of the three programs, from what its instance says. *)
Enters(t) ==
    /\ pcC[t] = "loop" /\ pcC' = [pcC EXCEPT ![t] = "load"]
    /\ program = "race" => i[t] < RaceRounds
    /\ program = "mutual" => turn = t
    /\ program = "mutex" => mutexC = 2 /\ mutexC' = t
    /\ mails' = mails /\ turn' = turn /\ i' = i /\ eax' = eax

Loads(t) ==
    /\ pcC[t] = "load" /\ pcC' = [pcC EXCEPT ![t] = "store"]
    /\ eax' = [eax EXCEPT ![t] = mails]
    /\ mails' = mails /\ turn' = turn /\ i' = i /\ mutexC' = mutexC

Writes(t) ==
    /\ pcC[t] = "store" /\ pcC' = [pcC EXCEPT ![t] = "leave"]
    /\ mails' = eax[t] + 1
    /\ turn' = turn /\ i' = i /\ eax' = eax /\ mutexC' = mutexC

Leaves(t) ==
    /\ pcC[t] = "leave" /\ pcC' = [pcC EXCEPT ![t] = "loop"]
    /\ i' = [i EXCEPT ![t] = @ + 1]
    /\ mails' = mails /\ eax' = eax

CounterMoves ==
    \/ UNCHANGED counterVars
    \/ \E t \in {0, 1} : Enters(t) \/ Loads(t) \/ Writes(t) \/ Leaves(t)

LEMMA CounterMove == ASSUME [MCNext]_mcvars PROVE program' = program /\ CounterMoves
  <1>1. program' = program BY DEF MCNext, mcvars
  <1> SUFFICES CounterMoves BY <1>1
  <1>2. CASE program = "race" /\ Race!Next
    <2>1. CASE Race!Finished /\ UNCHANGED Race!vars
      BY <2>1 DEF Race!vars, CounterMoves, counterVars
    <2>2. CASE \E t \in {0, 1} : Race!routine(t)
      <3>1. PICK t \in {0, 1} : Race!routine(t) BY <2>2
      <3>2. CASE Race!Spin(t) BY <3>2 DEF Race!Spin, Race!vars, CounterMoves, counterVars
      <3>3. CASE Race!Enter(t) BY <1>2, <3>3 DEF Race!Enter, Race!Goto, CounterMoves, Enters
      <3>4. CASE Race!Load(t) BY <3>4 DEF Race!Load, Race!Goto, CounterMoves, Loads
      <3>5. CASE Race!Store(t) BY <3>5 DEF Race!Store, Race!Goto, CounterMoves, Writes
      <3>6. CASE Race!Leave(t) BY <3>6 DEF Race!Leave, Race!Goto, CounterMoves, Leaves
      <3> QED BY <3>1, <3>2, <3>3, <3>4, <3>5, <3>6 DEF Race!routine
    <2> QED BY <1>2, <2>1, <2>2 DEF Race!Next, Race!Thread
  <1>3. CASE program = "mutex" /\ Mutex!Next
    <2>1. CASE Mutex!Finished /\ UNCHANGED Mutex!vars
      BY <2>1 DEF Mutex!vars, CounterMoves, counterVars
    <2>2. CASE \E t \in {0, 1} : Mutex!routine(t)
      <3>1. PICK t \in {0, 1} : Mutex!routine(t) BY <2>2
      <3>2. CASE Mutex!Spin(t) BY <3>2 DEF Mutex!Spin, Mutex!vars, CounterMoves, counterVars
      <3>3. CASE Mutex!Enter(t)
        BY <1>3, <3>3 DEF Mutex!Enter, Mutex!Goto, Mutex!Free, CounterMoves, Enters
      <3>4. CASE Mutex!Load(t) BY <3>4 DEF Mutex!Load, Mutex!Goto, CounterMoves, Loads
      <3>5. CASE Mutex!Store(t) BY <3>5 DEF Mutex!Store, Mutex!Goto, CounterMoves, Writes
      <3>6. CASE Mutex!Leave(t) BY <3>6 DEF Mutex!Leave, Mutex!Goto, CounterMoves, Leaves
      <3> QED BY <3>1, <3>2, <3>3, <3>4, <3>5, <3>6 DEF Mutex!routine
    <2> QED BY <1>3, <2>1, <2>2 DEF Mutex!Next, Mutex!Thread
  <1>4. CASE program = "mutual" /\ Mutual!Next
    <2>1. CASE Mutual!Finished /\ UNCHANGED Mutual!vars
      BY <2>1 DEF Mutual!vars, CounterMoves, counterVars
    <2>2. CASE \E t \in {0, 1} : Mutual!routine(t)
      <3>1. PICK t \in {0, 1} : Mutual!routine(t) BY <2>2
      <3>2. CASE Mutual!Spin(t) BY <3>2 DEF Mutual!Spin, Mutual!vars, CounterMoves, counterVars
      <3>3. CASE Mutual!Enter(t) BY <1>4, <3>3 DEF Mutual!Enter, Mutual!Goto, CounterMoves, Enters
      <3>4. CASE Mutual!Load(t) BY <3>4 DEF Mutual!Load, Mutual!Goto, CounterMoves, Loads
      <3>5. CASE Mutual!Store(t) BY <3>5 DEF Mutual!Store, Mutual!Goto, CounterMoves, Writes
      <3>6. CASE Mutual!Leave(t) BY <3>6 DEF Mutual!Leave, Mutual!Goto, CounterMoves, Leaves
      <3> QED BY <3>1, <3>2, <3>3, <3>4, <3>5, <3>6 DEF Mutual!routine
    <2> QED BY <1>4, <2>1, <2>2 DEF Mutual!Next, Mutual!Thread
  <1>5. CASE UNCHANGED counterVars BY <1>5 DEF CounterMoves
  <1> QED BY <1>2, <1>3, <1>4, <1>5 DEF MCNext, mcvars, counterVars

LEMMA CounterInit == ASSUME MCInit PROVE CounterInv
  <1>1. /\ mails = 0 /\ i = [t \in {0, 1} |-> 0] /\ eax = i
        /\ pcC = [t \in {0, 1} |-> "loop"]
    BY DEF MCInit, Race!Init, Race!Thread
  <1>2. Stores(0) = 0 /\ Stores(1) = 0 BY <1>1 DEF Stores
  <1>3. RaceRounds \in Nat BY CounterAssumption
  <1> QED BY <1>1, <1>2, <1>3
          DEF CounterInv, CounterType, CounterPoints, InsideInv, MailsInv, RaceInv

LEMMA CounterStep == ASSUME CounterInv, program' = program, CounterMoves PROVE CounterInv'
  <1>0. CounterType /\ InsideInv /\ MailsInv /\ RaceInv /\ RaceRounds \in Nat
    BY CounterAssumption DEF CounterInv
  <1>1. CASE UNCHANGED counterVars
    BY <1>0, <1>1 DEF counterVars, CounterInv, CounterType, InsideInv, MailsInv, RaceInv, Stores
  <1>2. CASE \E t \in {0, 1} : Enters(t) \/ Loads(t) \/ Writes(t) \/ Leaves(t)
    <2>1. PICK t \in {0, 1} : Enters(t) \/ Loads(t) \/ Writes(t) \/ Leaves(t) BY <1>2
    <2>2. PICK u \in {0, 1} : u # t /\ {0, 1} = {t, u} OBVIOUS
    <2>3. \A r \in {0, 1} : i[r] \in Nat /\ eax[r] \in Nat /\ pcC[r] \in CounterPoints
      BY <1>0 DEF CounterType
    <2>4. pcC'[u] = pcC[u] /\ i'[u] = i[u] /\ eax'[u] = eax[u]
      BY <1>0, <2>1, <2>2 DEF CounterType, Enters, Loads, Writes, Leaves
    <2>5. Stores(t) \in Nat /\ Stores(u) \in Nat /\ Stores(0) \in Nat /\ Stores(1) \in Nat
      BY <2>3 DEF Stores
    <2>6. Stores(u)' = Stores(u) BY <2>2, <2>4 DEF Stores
    <2>7. /\ Stores(0) + Stores(1) = Stores(t) + Stores(u)
          /\ (Stores(0) + Stores(1))' = Stores(t)' + Stores(u)'
      <3>1. CASE t = 0 /\ u = 1 BY <2>5, <3>1
      <3>2. CASE t = 1 /\ u = 0
        <4>1. Stores(1)' \in Nat /\ Stores(0)' \in Nat
          BY <2>1, <2>3, <2>4, <3>2, <1>0
             DEF Stores, Enters, Loads, Writes, Leaves, CounterType
        <4> QED BY <2>5, <3>2, <4>1
      <3> QED BY <2>2, <3>1, <3>2
    <2> DEFINE All == Stores(0) + Stores(1)
    <2>8. All \in Nat /\ All = Stores(t) + Stores(u) BY <2>5, <2>7
    <2>9. CASE Enters(t)
      <3>1. /\ pcC'[t] = "load" /\ pcC'[u] = pcC[u] /\ i'[u] = i[u] /\ eax'[u] = eax[u]
            /\ mails' = mails /\ turn' = turn /\ i'[t] = i[t] /\ eax'[t] = eax[t]
        BY <1>0, <2>3, <2>4, <2>9 DEF Enters, CounterType
      <3>2. CounterType' BY <1>0, <2>3, <2>9 DEF Enters, CounterType, CounterPoints
      <3>3. Stores(t)' = Stores(t) BY <3>1, <2>9 DEF Stores, Enters
      <3>4. InsideInv'
        <4>1. program = "mutex" => pcC[u] = "loop" BY <1>0, <2>9, <2>2 DEF Enters, InsideInv
        <4>2. program = "mutual" => pcC[u] = "loop" BY <1>0, <2>9, <2>2 DEF Enters, InsideInv
        <4> QED BY <2>2, <2>9, <3>1, <4>1, <4>2 DEF Enters, InsideInv
      <3>5. MailsInv' BY <1>0, <2>2, <2>6, <2>7, <3>1, <3>3 DEF MailsInv
      <3>6. RaceInv'
        <4>1. (Stores(0) + Stores(1))' = All /\ Stores(0)' = Stores(0) /\ Stores(1)' = Stores(1)
          BY <2>2, <2>6, <2>7, <3>3
        <4>2. program = "race" => i[t] < RaceRounds BY <2>9 DEF Enters
        <4> QED BY <1>0, <2>2, <3>1, <4>1, <4>2 DEF RaceInv
      <3> QED BY <3>2, <3>4, <3>5, <3>6 DEF CounterInv
    <2>10. CASE Loads(t)
      <3>1. /\ pcC'[t] = "store" /\ pcC'[u] = pcC[u] /\ i'[u] = i[u] /\ eax'[u] = eax[u]
            /\ mails' = mails /\ turn' = turn /\ mutexC' = mutexC /\ i'[t] = i[t] /\ eax'[t] = mails
        BY <1>0, <2>3, <2>4, <2>10 DEF Loads, CounterType
      <3>2. CounterType' BY <1>0, <2>3, <2>10 DEF Loads, CounterType, CounterPoints
      <3>3. Stores(t)' = Stores(t) BY <3>1, <2>10 DEF Stores, Loads
      <3>4. InsideInv' BY <1>0, <2>2, <2>10, <3>1 DEF Loads, InsideInv
      <3>5. MailsInv' BY <1>0, <2>2, <2>6, <2>7, <3>1, <3>3 DEF MailsInv
      <3>6. RaceInv'
        <4>1. (Stores(0) + Stores(1))' = All /\ Stores(0)' = Stores(0) /\ Stores(1)' = Stores(1)
          BY <2>2, <2>6, <2>7, <3>3
        <4>2. Stores(t) = i[t] /\ pcC[t] # "loop" BY <2>3, <2>10 DEF Stores, Loads
        <4> QED BY <1>0, <2>2, <3>1, <4>1, <4>2 DEF RaceInv
      <3> QED BY <3>2, <3>4, <3>5, <3>6 DEF CounterInv
    <2>11. CASE Writes(t)
      <3>1. /\ pcC'[t] = "leave" /\ pcC'[u] = pcC[u] /\ i'[u] = i[u] /\ eax'[u] = eax[u]
            /\ mails' = eax[t] + 1 /\ turn' = turn /\ mutexC' = mutexC /\ i'[t] = i[t] /\ eax'[t] = eax[t]
        BY <1>0, <2>3, <2>4, <2>11 DEF Writes, CounterType
      <3>2. CounterType' BY <1>0, <2>3, <2>11 DEF Writes, CounterType, CounterPoints
      <3>3. Stores(t) = i[t] /\ Stores(t)' = i[t] + 1 BY <2>3, <3>1, <2>11 DEF Stores, Writes
      <3>4. InsideInv' BY <1>0, <2>2, <2>11, <3>1 DEF Writes, InsideInv
      <3>5. MailsInv'
        <4>1. ASSUME program \in {"mutex", "mutual"}
              PROVE  mails' = (Stores(0) + Stores(1))' /\ pcC[u] = "loop"
          <5>1. eax[t] = mails /\ mails = All BY <1>0, <2>11, <4>1 DEF MailsInv, Writes
          <5>2. pcC[u] = "loop" BY <1>0, <2>2, <2>11, <4>1 DEF InsideInv, Writes
          <5> QED BY <2>5, <2>6, <2>7, <3>1, <3>3, <5>1, <5>2
        <4>2. (Stores(0) + Stores(1))' = Stores(0)' + Stores(1)' OBVIOUS
        <4> QED BY <2>2, <3>1, <4>1, <4>2 DEF MailsInv
      <3>6. RaceInv'
        <4> SUFFICES ASSUME program' = "race" PROVE RaceInv' BY DEF RaceInv
        <4>0. program = "race" OBVIOUS
        <4>1. (Stores(0) + Stores(1))' = All + 1 BY <2>5, <2>6, <2>7, <3>3
        <4>2. eax[t] <= All /\ (i[t] >= 1 => eax[t] >= 1) /\ i[t] < RaceRounds
              /\ i[u] <= RaceRounds /\ (pcC[u] # "loop" => i[u] < RaceRounds)
          BY <1>0, <2>2, <2>11, <4>0 DEF RaceInv, Writes
        <4>3. pcC[u] = "store" => eax[u] <= All /\ (i[u] >= 1 => eax[u] >= 1)
          BY <1>0, <4>0 DEF RaceInv
        <4>4. mails' \in Nat /\ mails' <= All + 1 /\ mails' >= 1 /\ (i[t] >= 1 => mails' >= 2)
          BY <2>3, <2>8, <3>1, <4>2
        <4>5. Stores(t)' = RaceRounds /\ RaceRounds >= 2 => mails' >= 2
          BY <1>0, <2>3, <3>3, <4>4
        <4>6. \A r \in {0, 1} :
                 /\ i'[r] <= RaceRounds /\ (pcC'[r] # "loop" => i'[r] < RaceRounds)
                 /\ pcC'[r] = "store" => eax'[r] <= All + 1 /\ (i'[r] >= 1 => eax'[r] >= 1)
          BY <1>0, <2>2, <2>3, <2>8, <3>1, <4>2, <4>3
        <4>7. RaceRounds >= 2 /\ Stores(0)' = RaceRounds /\ Stores(1)' = RaceRounds => mails' >= 2
          BY <2>2, <4>5
        <4>8. (Stores(0) + Stores(1))' = Stores(0)' + Stores(1)' OBVIOUS
        <4> QED BY <4>1, <4>4, <4>6, <4>7, <4>8 DEF RaceInv
      <3> QED BY <3>2, <3>4, <3>5, <3>6 DEF CounterInv
    <2>12. CASE Leaves(t)
      <3>1. /\ pcC'[t] = "loop" /\ pcC'[u] = pcC[u] /\ i'[u] = i[u] /\ eax'[u] = eax[u]
            /\ mails' = mails /\ i'[t] = i[t] + 1 /\ eax'[t] = eax[t]
        BY <1>0, <2>3, <2>4, <2>12 DEF Leaves, CounterType
      <3>2. CounterType' BY <1>0, <2>3, <2>12 DEF Leaves, CounterType, CounterPoints
      <3>3. Stores(t)' = Stores(t) BY <2>3, <3>1, <2>12 DEF Stores, Leaves
      <3>4. InsideInv'
        <4>1. program \in {"mutex", "mutual"} => pcC[u] = "loop"
          BY <1>0, <2>2, <2>12 DEF InsideInv, Leaves
        <4> QED BY <2>2, <3>1, <4>1 DEF InsideInv
      <3>5. MailsInv' BY <1>0, <2>2, <2>6, <2>7, <3>1, <3>3 DEF MailsInv
      <3>6. RaceInv'
        <4>1. (Stores(0) + Stores(1))' = All /\ Stores(0)' = Stores(0) /\ Stores(1)' = Stores(1)
          BY <2>2, <2>6, <2>7, <3>3
        <4>2. program = "race" => i[t] < RaceRounds BY <1>0, <2>12 DEF RaceInv, Leaves
        <4>3. program = "race" => i'[t] <= RaceRounds BY <1>0, <2>3, <3>1, <4>2
        <4> QED BY <1>0, <2>2, <3>1, <4>1, <4>3 DEF RaceInv
      <3> QED BY <3>2, <3>4, <3>5, <3>6 DEF CounterInv
    <2> QED BY <2>1, <2>9, <2>10, <2>11, <2>12
  <1> QED BY <1>1, <1>2 DEF CounterMoves
(* The increments are counted where one thread at a time makes them,        *)
(* whatever the number of rounds: mutex.c and mutual.c lose none.           *)
THEOREM NoIncrementLost ==
    MCInit /\ [][MCNext]_mcvars => [](program \in {"mutex", "mutual"} => Mutex!MailsCounted)
  <1>1. MCInit => CounterInv BY CounterInit
  <1>2. CounterInv /\ [MCNext]_mcvars => CounterInv' BY CounterMove, CounterStep
  <1>3. CounterInv => (program \in {"mutex", "mutual"} => Mutex!MailsCounted)
    <2> SUFFICES ASSUME CounterInv, program \in {"mutex", "mutual"},
                        \A t \in {0, 1} : pcC[t] = "loop"
                 PROVE  mails = i[0] + i[1]
      BY DEF Mutex!MailsCounted, Mutex!Thread
    <2>1. mails = Stores(0) + Stores(1) BY DEF CounterInv, MailsInv
    <2>2. i[0] \in Nat /\ i[1] \in Nat BY DEF CounterInv, CounterType
    <2>3. Stores(0) = i[0] /\ Stores(1) = i[1] BY <2>2 DEF Stores
    <2> QED BY <2>1, <2>3
  <1> QED BY <1>1, <1>2, <1>3, PTL

(* race.c may lose increments, but never all: with two passes or more the   *)
(* counter ends at 2 at least, and never above the number of passes.        *)
THEOREM RaceIsBounded ==
    MCInit /\ [][MCNext]_mcvars => [](program = "race" => Race!RaceBounds)
  <1>1. MCInit => CounterInv BY CounterInit
  <1>2. CounterInv /\ [MCNext]_mcvars => CounterInv' BY CounterMove, CounterStep
  <1>3. CounterInv => (program = "race" => Race!RaceBounds)
    <2> SUFFICES ASSUME CounterInv, program = "race",
                        \A t \in {0, 1} : i[t] = RaceRounds
                 PROVE  mails \in (IF RaceRounds = 1 THEN 1 ELSE 2) .. 2 * RaceRounds
      BY DEF Race!RaceBounds, Race!Finished, Race!Thread
    <2>1. RaceRounds \in Nat \ {0} /\ mails \in Nat
      BY CounterAssumption DEF CounterInv, CounterType
    <2>2. i[0] = RaceRounds /\ i[1] = RaceRounds OBVIOUS
    <2>3. pcC[0] = "loop" /\ pcC[1] = "loop" BY <2>1, <2>2 DEF CounterInv, RaceInv
    <2>4. Stores(0) = RaceRounds /\ Stores(1) = RaceRounds BY <2>1, <2>2, <2>3 DEF Stores
    <2>5. mails <= Stores(0) + Stores(1) /\ mails >= 1 /\ (RaceRounds >= 2 => mails >= 2)
      BY <2>1, <2>4 DEF CounterInv, RaceInv
    <2> QED BY <2>1, <2>4, <2>5
  <1> QED BY <1>1, <1>2, <1>3, PTL
-----------------------------------------------------------------------------
(* conditionvar2.c *)

(* Passes that the fillers have made, together. *)
Passes == SumOver(filled, Filler)

LEMMA PassesIs == Fuel!MapThenSumSet(LAMBDA t : filled[t], Filler) = Passes
  BY Zenon DEF Fuel!MapThenSumSet, Fuel!MapThenFoldSet, Passes, SumOver, IsSum, SumOne, FirstOf
FuelThreads == Filler \cup Car
FuelPoints == {"lock", "test", "wait", "read", "write", "unlock", "broadcast", "done"}

FuelType ==
    /\ fuel \in Int /\ sold \in Nat /\ filled \in [Filler -> Nat]
    /\ pcF \in [FuelThreads -> FuelPoints] /\ got \in [FuelThreads -> Int]

(* One thread at a time tests, reads and writes; what it has read is the    *)
(* fuel that there is.                                                      *)
PumpInv ==
    \A t \in FuelThreads :
        /\ pcF[t] \in {"test", "read", "write", "unlock"} => mutexFuel = t
        /\ pcF[t] = "write" => got[t] = fuel

FuelInv == FuelType /\ PumpInv /\ fuel = Fill * Passes - Need * sold

LEMMA FuelFacts ==
    /\ Fill \in Nat /\ Need \in Nat /\ IsFiniteSet(Filler)
    /\ Filler \cap Car = {} /\ NIL \notin FuelThreads
  BY FuelAssumption DEF FuelThreads

LEMMA FuelInit == ASSUME MCInit PROVE FuelInv
  <1>1. /\ fuel = 0 /\ sold = 0 /\ filled = [t \in Filler |-> 0]
        /\ pcF = [t \in FuelThreads |-> "lock"] /\ got = [t \in FuelThreads |-> 0]
    BY DEF MCInit, Fuel!Init, Fuel!Thread, FuelThreads
  <1>2. FuelType BY <1>1 DEF FuelType, FuelPoints
  <1>3. PumpInv BY <1>1 DEF PumpInv
  <1>4. filled \in [Filler -> Nat] /\ \A t \in Filler : filled[t] = 0 BY <1>1
  <1>5. Passes = 0 BY <1>4, FuelFacts, SumOfZeros DEF Passes
  <1> QED BY <1>1, <1>2, <1>3, <1>5, FuelFacts DEF FuelInv

(* A step of thread t from one point to another, without the fuel. *)
FuelGoes(t, a, b) ==
    /\ pcF[t] = a /\ pcF' = [pcF EXCEPT ![t] = b]
    /\ fuel' = fuel /\ filled' = filled /\ sold' = sold

(* Steps that leave the fuel alone. *)
FuelRests(t) ==
    \/ /\ \E b \in {"test", "read"} : FuelGoes(t, "lock", b)
       /\ mutexFuel = NIL /\ mutexFuel' = t /\ got' = got
    \/ FuelGoes(t, "wait", "test") /\ mutexFuel = NIL /\ mutexFuel' = t /\ got' = got
    \/ FuelGoes(t, "test", "read") /\ mutexFuel' = mutexFuel /\ got' = got
    \/ FuelGoes(t, "read", "write") /\ mutexFuel' = mutexFuel /\ got' = [got EXCEPT ![t] = fuel]
    \/ FuelGoes(t, "broadcast", "lock") /\ mutexFuel' = mutexFuel /\ got' = got
    \/ /\ \E b \in {"broadcast", "done"} : FuelGoes(t, "unlock", b)
       /\ mutexFuel = t => mutexFuel' = NIL
       /\ got' = got
    \/ FuelGoes(t, "test", "wait") /\ (mutexFuel = t => mutexFuel' = NIL) /\ got' = got

(* The update of fuel, by a filler or by a car. *)
FuelChanges(t) ==
    /\ pcF[t] = "write" /\ pcF' = [pcF EXCEPT ![t] = "unlock"]
    /\ mutexFuel' = mutexFuel /\ got' = [got EXCEPT ![t] = 0]
    /\ \/ /\ t \in Filler /\ fuel' = got[t] + Fill
          /\ filled' = [filled EXCEPT ![t] = @ + 1] /\ sold' = sold
       \/ /\ t \in Car /\ fuel' = got[t] - Need
          /\ sold' = sold + 1 /\ filled' = filled

FuelMoves ==
    \/ fuel' = fuel /\ mutexFuel' = mutexFuel /\ pcF' = pcF /\ got' = got /\ filled' = filled /\ sold' = sold
    \/ \E t \in FuelThreads : FuelRests(t) \/ FuelChanges(t)

LEMMA FuelMove == ASSUME [MCNext]_mcvars PROVE FuelMoves
  <1>1. CASE UNCHANGED fuelVars BY <1>1 DEF fuelVars, FuelMoves
  <1>2. CASE Fuel!Next
    <2>0. SUFFICES ASSUME NEW t \in FuelThreads,
                          Fuel!fuel_filling(t) \/ Fuel!car(t) \/ Fuel!SpuriousWakeup(t)
                   PROVE  FuelMoves
      BY <1>2 DEF Fuel!Next, FuelThreads
    <2>1. CASE Fuel!SpuriousWakeup(t) BY <2>1 DEF Fuel!SpuriousWakeup, FuelMoves
    <2>2. CASE Fuel!Add(t) \/ Fuel!Take(t)
      <3>1. FuelChanges(t) BY <2>2 DEF Fuel!Add, Fuel!Take, Fuel!Goto, FuelChanges
      <3> QED BY <3>1 DEF FuelMoves
    <2>3. ASSUME \/ Fuel!Lock(t) \/ Fuel!Read(t) \/ Fuel!Unlock(t) \/ Fuel!Broadcast(t)
                 \/ Fuel!CondWait(t) \/ Fuel!Wakeup(t) \/ Fuel!EnoughFuel(t)
          PROVE  FuelRests(t)
      <3>1. CASE Fuel!Lock(t)
        <4>1. \E b \in {"test", "read"} : FuelGoes(t, "lock", b)
          BY <3>1 DEF Fuel!Lock, Fuel!Goto, FuelGoes
        <4> QED BY <3>1, <4>1 DEF Fuel!Lock, FuelRests
      <3>2. CASE Fuel!Read(t) BY <3>2 DEF Fuel!Read, Fuel!Goto, FuelRests, FuelGoes
      <3>3. CASE Fuel!Unlock(t)
        <4>1. \E b \in {"broadcast", "done"} : FuelGoes(t, "unlock", b)
          BY <3>3 DEF Fuel!Unlock, Fuel!Goto, FuelGoes
        <4>2. mutexFuel = t => mutexFuel' = NIL BY <3>3 DEF Fuel!Unlock, Fuel!UnlockBy
        <4> QED BY <3>3, <4>1, <4>2 DEF Fuel!Unlock, FuelRests
      <3>4. CASE Fuel!Broadcast(t) BY <3>4 DEF Fuel!Broadcast, Fuel!Goto, FuelRests, FuelGoes
      <3>5. CASE Fuel!CondWait(t)
        <4>1. FuelGoes(t, "test", "wait") BY <3>5 DEF Fuel!CondWait, Fuel!Goto, FuelGoes
        <4>2. mutexFuel = t => mutexFuel' = NIL BY <3>5 DEF Fuel!CondWait, Fuel!UnlockBy
        <4> QED BY <3>5, <4>1, <4>2 DEF Fuel!CondWait, FuelRests
      <3>6. CASE Fuel!Wakeup(t) BY <3>6 DEF Fuel!Wakeup, Fuel!Goto, FuelRests, FuelGoes
      <3>7. CASE Fuel!EnoughFuel(t) BY <3>7 DEF Fuel!EnoughFuel, Fuel!Goto, FuelRests, FuelGoes
      <3> QED BY <2>3, <3>1, <3>2, <3>3, <3>4, <3>5, <3>6, <3>7
    <2>4. FuelRests(t) => FuelMoves BY DEF FuelMoves
    <2> QED BY <2>0, <2>1, <2>2, <2>3, <2>4 DEF Fuel!fuel_filling, Fuel!car
  <1> QED BY <1>1, <1>2 DEF MCNext, mcvars, fuelVars

LEMMA FuelRest ==
    ASSUME FuelInv, NEW t \in FuelThreads, FuelRests(t)
    PROVE  FuelInv'
  <1>0. FuelType /\ PumpInv BY DEF FuelInv
  <1>1. PICK a \in FuelPoints, b \in FuelPoints : FuelGoes(t, a, b)
    BY DEF FuelRests, FuelPoints
  <1>2. fuel' = fuel /\ filled' = filled /\ sold' = sold BY <1>1 DEF FuelGoes
  <1>3. got' = got \/ got' = [got EXCEPT ![t] = fuel] BY DEF FuelRests
  <1>4. FuelType' BY <1>0, <1>1, <1>2, <1>3 DEF FuelType, FuelGoes
  <1>5. \A u \in FuelThreads : u # t => pcF'[u] = pcF[u] /\ got'[u] = got[u]
    BY <1>0, <1>1, <1>3 DEF FuelType, FuelGoes
  <1>6. Passes' = Passes BY <1>2 DEF Passes
  <1> DEFINE Held == {"test", "read", "write", "unlock"}
  <1>7. PumpInv'
    <2>1. CASE mutexFuel = NIL /\ mutexFuel' = t /\ pcF'[t] # "write"
      <3>1. \A u \in FuelThreads : pcF[u] \notin Held BY <1>0, <2>1, FuelFacts DEF PumpInv
      <3> QED BY <1>2, <1>5, <2>1, <3>1 DEF PumpInv
    <2>2. CASE mutexFuel' = mutexFuel /\ (pcF'[t] \in Held => pcF[t] \in Held)
               /\ (pcF'[t] = "write" => got'[t] = fuel)
      BY <1>0, <1>2, <1>5, <2>2 DEF PumpInv
    <2>3. CASE pcF[t] \in Held /\ pcF'[t] \notin Held
      <3>1. \A u \in FuelThreads : u # t => pcF[u] \notin Held BY <1>0, <2>3 DEF PumpInv
      <3> QED BY <1>5, <2>3, <3>1 DEF PumpInv
    <2> QED
      <3>1. pcF'[t] = b /\ pcF[t] = a BY <1>0, <1>1 DEF FuelType, FuelGoes
      <3>2. FuelGoes(t, "read", "write") => got' = [got EXCEPT ![t] = fuel]
        BY DEF FuelRests, FuelGoes
      <3>3. pcF'[t] = "write" => got'[t] = fuel
        BY <1>0, <3>1 DEF FuelRests, FuelGoes, FuelType
      <3> QED BY <1>0, <2>1, <2>2, <2>3, <3>1, <3>3 DEF FuelRests, FuelGoes, FuelType
  <1> QED BY <1>2, <1>4, <1>6, <1>7 DEF FuelInv

LEMMA FuelChange ==
    ASSUME FuelInv, NEW t \in FuelThreads, FuelChanges(t)
    PROVE  FuelInv'
  <1>0. FuelType /\ PumpInv /\ fuel = Fill * Passes - Need * sold BY DEF FuelInv
  <1>1. /\ pcF[t] = "write" /\ pcF' = [pcF EXCEPT ![t] = "unlock"]
        /\ mutexFuel' = mutexFuel /\ got' = [got EXCEPT ![t] = 0]
    BY DEF FuelChanges
  <1>2. got[t] = fuel /\ mutexFuel = t BY <1>0, <1>1 DEF PumpInv
  <1>3. fuel \in Int /\ sold \in Nat /\ Fill \in Nat /\ Need \in Nat
    BY <1>0, FuelFacts DEF FuelType
  <1>4. PumpInv'
    <2>1. \A u \in FuelThreads : u # t => pcF[u] \notin {"test", "read", "write", "unlock"}
      BY <1>0, <1>2 DEF PumpInv
    <2>2. \A u \in FuelThreads : u # t => pcF'[u] = pcF[u] BY <1>0, <1>1 DEF FuelType
    <2>3. pcF'[t] = "unlock" BY <1>0, <1>1 DEF FuelType
    <2> QED BY <1>1, <1>2, <2>1, <2>2, <2>3 DEF PumpInv
  <1>5. pcF' \in [FuelThreads -> FuelPoints] /\ got' \in [FuelThreads -> Int]
    BY <1>0, <1>1 DEF FuelType, FuelPoints
  <1>6. CASE /\ t \in Filler /\ fuel' = got[t] + Fill
             /\ filled' = [filled EXCEPT ![t] = @ + 1] /\ sold' = sold
    <2>1. FuelType' BY <1>0, <1>2, <1>3, <1>5, <1>6 DEF FuelType
    <2>2. filled \in [Filler -> Nat] BY <1>0 DEF FuelType
    <2>3. /\ SumOver(filled, Filler) \in Nat
          /\ SumOver(filled', Filler) = SumOver(filled, Filler) + 1
      BY <1>6, <2>2, FuelFacts, SumRaised
    <2>4. Passes \in Nat /\ Passes' = Passes + 1 BY <2>3 DEF Passes
    <2>5. Fill * (Passes + 1) = Fill * Passes + Fill BY <1>3, <2>4
    <2>6. Fill * Passes \in Nat /\ Need * sold \in Nat BY <1>3, <2>4
    <2>7. fuel' = Fill * Passes' - Need * sold' BY <1>0, <1>2, <1>3, <1>6, <2>4, <2>5, <2>6
    <2> QED BY <1>4, <2>1, <2>7 DEF FuelInv
  <1>7. CASE /\ t \in Car /\ fuel' = got[t] - Need
             /\ sold' = sold + 1 /\ filled' = filled
    <2>1. FuelType' BY <1>0, <1>2, <1>3, <1>5, <1>7 DEF FuelType
    <2>2. Passes' = Passes BY <1>7 DEF Passes
    <2>3. Need * (sold + 1) = Need * sold + Need BY <1>3
    <2> DEFINE in == Fill * Passes
               out == Need * sold
    <2>4. out \in Nat BY <1>3
    <2>5. in \in Int
      <3>1. filled \in [Filler -> Nat] BY <1>0 DEF FuelType
      <3>2. SumOver(filled, Filler) \in Nat BY <3>1, FuelFacts, SumIsNat
      <3> QED BY <1>3, <3>2 DEF Passes
    <2>6. fuel = in - out /\ fuel' = fuel - Need /\ Need * sold' = out + Need
      BY <1>0, <1>2, <1>7, <2>3
    <2>7. Fill * Passes' = in BY <2>2
    <2> HIDE DEF in, out
    <2>8. fuel' = Fill * Passes' - Need * sold' BY <1>3, <2>4, <2>5, <2>6, <2>7
    <2> QED BY <1>4, <2>1, <2>8 DEF FuelInv
  <1> QED BY <1>6, <1>7 DEF FuelChanges

LEMMA FuelStep == ASSUME FuelInv, FuelMoves PROVE FuelInv'
  <1>1. CASE /\ fuel' = fuel /\ mutexFuel' = mutexFuel /\ pcF' = pcF /\ got' = got
             /\ filled' = filled /\ sold' = sold
    <2>1. Passes' = Passes BY <1>1 DEF Passes
    <2> QED BY <1>1, <2>1 DEF FuelInv, FuelType, PumpInv
  <1> QED BY <1>1, FuelRest, FuelChange DEF FuelMoves

(* Nothing that the programs count gets lost, whatever their sizes and      *)
(* numbers of threads are: the slots of producer.c, the increments of       *)
(* mutex.c and mutual.c, all but what a race can undo of race.c, and the    *)
(* fuel of conditionvar2.c.                                                 *)
THEOREM NothingGoesMissing == MCInit /\ [][MCNext]_mcvars => []Accounted
  <1>1. MCInit => FuelInv BY FuelInit
  <1>2. FuelInv /\ [MCNext]_mcvars => FuelInv' BY FuelMove, FuelStep
  <1>3. FuelInv => Fuel!FuelAccounted BY PassesIs DEF FuelInv, Fuel!FuelAccounted
  <1>4. /\ Buffer!SlotsCounted
        /\ program = "race" => Race!RaceBounds
        /\ program \in {"mutex", "mutual"} => Mutex!MailsCounted
        /\ Fuel!FuelAccounted
        => Accounted
    BY Zenon DEF Accounted
  <1> QED BY <1>1, <1>2, <1>3, <1>4, SlotsAreCounted, NoIncrementLost, RaceIsBounded, PTL
=============================================================================
