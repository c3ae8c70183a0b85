--------------------------- MODULE AsynSendProofs ---------------------------
(***************************************************************************)
(* Asynchronous sending through a table of any size to any destinations:   *)
(* nothing is stuck in the table, and the table implements AsyncChannel,   *)
(* one queue per destination.                                              *)
(***************************************************************************)
EXTENDS AsynSend, QueueLemmas, FiniteSetTheorems

-----------------------------------------------------------------------------
(* A finite set of numbers in order.  The number at position k is the one   *)
(* that has k - 1 below it, so the enumeration is the only one.             *)

Below(S, x) == {j \in S : j < x}

Increasing(s, m) == \A a, b \in 1 .. m : a < b => s[a] < s[b]

Enumerates(s, m, S) ==
    /\ s \in [1 .. m -> S] /\ Increasing(s, m)
    /\ \A x \in S : \E a \in 1 .. m : s[a] = x

LEMMA BelowIs ==
    ASSUME NEW S, S \subseteq Int, IsFiniteSet(S), NEW x \in S
    PROVE  /\ IsFiniteSet(Below(S, x)) /\ Cardinality(Below(S, x)) \in Nat
           /\ Cardinality(Below(S, x)) < Cardinality(S)
           /\ \A y \in S : x <= y => Cardinality(Below(S, x)) <= Cardinality(Below(S, y))
           /\ \A y \in S : x < y => Cardinality(Below(S, x)) # Cardinality(Below(S, y))
  <1>1. \A y \in S : Below(S, y) \in SUBSET S BY DEF Below
  <1>2. \A y \in S : IsFiniteSet(Below(S, y)) /\ Cardinality(Below(S, y)) \in Nat
    BY <1>1, FS_Subset, FS_CardinalityType
  <1>3. Cardinality(Below(S, x)) < Cardinality(S)
    <2>1. x \notin Below(S, x) /\ Below(S, x) # S BY DEF Below
    <2>2. Cardinality(Below(S, x)) <= Cardinality(S) /\ Cardinality(S) # Cardinality(Below(S, x))
      BY <1>1, <2>1, FS_Subset
    <2>3. Cardinality(S) \in Nat BY FS_CardinalityType
    <2> QED BY <1>2, <2>2, <2>3
  <1>4. ASSUME NEW y \in S, x <= y PROVE Below(S, x) \in SUBSET Below(S, y)
    <2>1. \A j \in S : j \in Int /\ x \in Int /\ y \in Int OBVIOUS
    <2>2. \A j \in S : j < x => j < y BY <1>4, <2>1
    <2> QED BY <2>2 DEF Below
  <1>5. ASSUME NEW y \in S, x <= y
        PROVE  Cardinality(Below(S, x)) <= Cardinality(Below(S, y))
    BY <1>2, <1>4, <1>5, FS_Subset
  <1>6. ASSUME NEW y \in S, x < y
        PROVE  Cardinality(Below(S, x)) # Cardinality(Below(S, y))
    <2>1. x \in Int /\ y \in Int /\ x <= y BY <1>6
    <2>2. x \in Below(S, y) /\ x \notin Below(S, x) BY <1>6, <2>1 DEF Below
    <2> QED BY <1>2, <1>4, <2>1, <2>2, FS_Subset
  <1> QED BY <1>2, <1>3, <1>5, <1>6

LEMMA AscendingIs ==
    ASSUME NEW S, S \subseteq Int, IsFiniteSet(S)
    PROVE  /\ Cardinality(S) \in Nat /\ Enumerates(Ascending(S), Cardinality(S), S)
           /\ \A a \in 1 .. Cardinality(S) : Cardinality(Below(S, Ascending(S)[a])) = a - 1
  <1> DEFINE n == Cardinality(S)
             f == [x \in S |-> Cardinality(Below(S, x)) + 1]
             g == Ascending(S)
  <1>1. n \in Nat BY FS_CardinalityType
  <1> HIDE DEF n
  <1>2. \A x \in S : Cardinality(Below(S, x)) \in Nat /\ Cardinality(Below(S, x)) < n
    BY BelowIs DEF n
  <1>3. f \in Injection(S, 1 .. n)
    <2>1. f \in [S -> 1 .. n] BY <1>1, <1>2
    <2>2. ASSUME NEW x \in S, NEW y \in S, f[x] = f[y] PROVE x = y
      <3>1. Cardinality(Below(S, x)) = Cardinality(Below(S, y))
        <4>1. Cardinality(Below(S, x)) + 1 = Cardinality(Below(S, y)) + 1 BY <2>2
        <4> HIDE DEF f
        <4> QED BY <1>2, <4>1
      <3>2. x < y \/ y < x \/ x = y OBVIOUS
      <3> HIDE DEF f
      <3> QED BY <3>1, <3>2, BelowIs
    <2> HIDE DEF f
    <2> QED BY <2>1, <2>2 DEF Injection, IsInjective
  <1>4. IsFiniteSet(1 .. n) /\ Cardinality(1 .. n) = n BY <1>1, FS_Interval
  <1>5. f \in Surjection(S, 1 .. n)
    <2> HIDE DEF f
    <2> QED BY <1>3, <1>4, FS_Injection DEF n
  <1>6. \A a \in 1 .. n : \E x \in S : Cardinality(Below(S, x)) = a - 1
    <2> SUFFICES ASSUME NEW a \in 1 .. n PROVE \E x \in S : Cardinality(Below(S, x)) = a - 1
      OBVIOUS
    <2>1. PICK x \in S : f[x] = a
      <3> HIDE DEF f
      <3> QED BY <1>5 DEF Surjection
    <2>2. Cardinality(Below(S, x)) + 1 = a BY <2>1
    <2> QED BY <1>1, <1>2, <2>2
  <1>7. \A a \in 1 .. n : g[a] \in S /\ Cardinality(Below(S, g[a])) = a - 1
    <2> SUFFICES ASSUME NEW a \in 1 .. n
                 PROVE  g[a] \in S /\ Cardinality(Below(S, g[a])) = a - 1
      OBVIOUS
    <2>1. g[a] = CHOOSE x \in S : Cardinality(Below(S, x)) = a - 1 BY DEF Ascending, Below, n
    <2> HIDE DEF g
    <2> QED BY <1>6, <2>1
  <1>8. g \in [1 .. n -> S]
    <2>1. g = [a \in 1 .. n |-> g[a]] BY SMTT(40) DEF Ascending, n
    <2> HIDE DEF g
    <2> QED BY <1>7, <2>1
  <1> HIDE DEF g
  <1>9. Increasing(g, n)
    <2> SUFFICES ASSUME NEW a \in 1 .. n, NEW b \in 1 .. n, a < b PROVE g[a] < g[b]
      BY DEF Increasing
    <2>1. g[a] \in S /\ g[b] \in S /\ g[a] \in Int /\ g[b] \in Int BY <1>7
    <2>2. CASE g[b] <= g[a]
      <3>1. Cardinality(Below(S, g[b])) <= Cardinality(Below(S, g[a])) BY <2>1, <2>2, BelowIs
      <3>2. b - 1 <= a - 1 BY <1>7, <3>1
      <3> QED BY <1>1, <3>2
    <2> QED BY <2>1, <2>2
  <1>10. ASSUME NEW x \in S PROVE \E a \in 1 .. n : g[a] = x
    <2>1. f[x] \in 1 .. n /\ f[x] = Cardinality(Below(S, x)) + 1 BY <1>1, <1>2
    <2> HIDE DEF f
    <2>2. Cardinality(Below(S, g[f[x]])) = Cardinality(Below(S, x)) /\ g[f[x]] \in S
      BY <1>2, <1>7, <2>1
    <2>i. g[f[x]] \in Int /\ x \in Int BY <2>2
    <2>3. g[f[x]] < x \/ x < g[f[x]] \/ g[f[x]] = x BY <2>i
    <2>4. g[f[x]] = x BY <2>2, <2>3, BelowIs
    <2> QED BY <2>1, <2>4
  <1> QED BY <1>1, <1>7, <1>8, <1>9, <1>10 DEF Enumerates, g, n

(* An enumeration in order is the enumeration in order. *)
LEMMA AscendingUnique ==
    ASSUME NEW S, S \subseteq Int, NEW m \in Nat, NEW s, Enumerates(s, m, S)
    PROVE  IsFiniteSet(S) /\ Cardinality(S) = m /\ s = Ascending(S)
  <1>0. s \in [1 .. m -> S] /\ Increasing(s, m) /\ \A x \in S : \E a \in 1 .. m : s[a] = x
    BY DEF Enumerates
  <1>i. \A a \in 1 .. m : s[a] \in Int BY <1>0
  <1>1. ASSUME NEW a \in 1 .. m, NEW b \in 1 .. m PROVE (s[a] < s[b] <=> a < b) /\ (s[a] = s[b] => a = b)
    <2>1. a < b \/ b < a \/ a = b OBVIOUS
    <2> QED BY <1>0, <1>i, <2>1 DEF Increasing
  <1>2. IsFiniteSet(1 .. m) /\ Cardinality(1 .. m) = m BY FS_Interval
  <1>3. s \in Bijection(1 .. m, S)
    BY <1>0, <1>1 DEF Bijection, Injection, Surjection, IsInjective
  <1>4. IsFiniteSet(S) /\ Cardinality(S) = m
    BY <1>2, <1>3, FS_Bijection DEF ExistsBijection
  <1>5. ASSUME NEW a \in 1 .. m PROVE Cardinality(Below(S, s[a])) = a - 1
    <2> DEFINE t == [b \in 1 .. a - 1 |-> s[b]]
    <2>1. \A b \in 1 .. a - 1 : b \in 1 .. m /\ b < a OBVIOUS
    <2>2. t \in [1 .. a - 1 -> Below(S, s[a])] BY <1>0, <1>1, <2>1 DEF Below
    <2>3. \A b, c \in 1 .. a - 1 : t[b] = t[c] => b = c BY <1>1, <2>1
    <2>4. ASSUME NEW x \in Below(S, s[a]) PROVE \E b \in 1 .. a - 1 : t[b] = x
      <3>1. x \in S /\ x < s[a] BY DEF Below
      <3>2. PICK b \in 1 .. m : s[b] = x BY <1>0, <3>1
      <3>3. b \in 1 .. a - 1 BY <1>1, <3>1, <3>2
      <3> QED BY <3>2, <3>3
    <2> HIDE DEF t
    <2>5. t \in Bijection(1 .. a - 1, Below(S, s[a]))
      BY <2>2, <2>3, <2>4 DEF Bijection, Injection, Surjection, IsInjective
    <2>6. IsFiniteSet(1 .. a - 1) /\ Cardinality(1 .. a - 1) = a - 1
      <3>1. a - 1 \in Int /\ 1 \in Int /\ a - 1 >= 0 OBVIOUS
      <3>2. IsFiniteSet(1 .. a - 1) /\ Cardinality(1 .. a - 1) = IF 1 > a - 1 THEN 0 ELSE a - 1 - 1 + 1
        BY <3>1, FS_Interval
      <3> QED BY <3>1, <3>2
    <2> QED BY <2>5, <2>6, FS_Bijection DEF ExistsBijection
  <1> DEFINE g == Ascending(S)
  <1>6. /\ g \in [1 .. m -> S] /\ \A a \in 1 .. m : Cardinality(Below(S, g[a])) = a - 1
    BY <1>4, AscendingIs DEF Enumerates
  <1> HIDE DEF g
  <1>7. \A a \in 1 .. m : g[a] = s[a]
    <2> SUFFICES ASSUME NEW a \in 1 .. m PROVE g[a] = s[a] OBVIOUS
    <2>1. PICK b \in 1 .. m : s[b] = g[a] BY <1>0, <1>6
    <2>2. b - 1 = a - 1 BY <1>5, <1>6, <2>1
    <2>3. a = b BY <2>2
    <2> QED BY <2>1, <2>3
  <1>8. s = g BY <1>0, <1>6, <1>7
  <1> QED BY <1>4, <1>8 DEF g

-----------------------------------------------------------------------------
(* The inductive invariant. *)

Writing == pc \in {"dst", "msg", "flags"}

(* The indices of asynsend3(), and the entry it is writing. *)
IndexInv ==
    /\ pc # "idle" => arg.dst \in Dst /\ arg.msg \in Msg
    /\ Writing => next_slot < ASYN_NR
    /\ pc \in {"msg", "flags"} => msgtable[next_slot].dst = arg.dst
    /\ pc = "flags" => msgtable[next_slot].msg = arg.msg
    /\ pc = "senda" => first_slot < next_slot

(* While entries are moved the kernel does not look at the table.           *)
MoveInv ==
    /\ pc = "copy" =>
          /\ s_asynsize = 0 /\ dst_ind <= src_ind /\ src_ind <= next_slot
          /\ \A i \in 0 .. dst_ind - 1 : Pending(msgtable[i])
    /\ pc = "panic" => s_asynsize = 0 /\ \A i \in Slot : Pending(msgtable[i])

(* The entries in use that are pending, and those the kernel sees that are. *)
InUse(i) == i \in Current /\ Pending(msgtable[i])
Seen(i) == i \in Covered /\ Pending(msgtable[i])

AllSeen == \A i \in Int : InUse(i) => Seen(i)

(* The kernel sees no entry that is not in use, and of those in use the     *)
(* oldest, so that what a receiver is given is the oldest.  When a new      *)
(* entry is written, it sees all of them, or none.                          *)
CoverInv ==
    /\ \A i \in Int : Seen(i) => InUse(i)
    /\ \A i, j \in Int : (InUse(i) /\ ~Seen(i) /\ Seen(j)) => j < i
    /\ pc \in {"idle", "stop"} => AllSeen
    /\ Writing => Covered = {} \/ AllSeen

AsynInv == TypeOK /\ IndexInv /\ MoveInv /\ CoverInv

Row == [dst : Dst \cup {NIL}, msg : Msg \cup {NIL},
        noreply : BOOLEAN, valid : BOOLEAN, done : BOOLEAN]

(* Marking entries as done changes nothing else in them. *)
LEMMA DoneIs ==
    ASSUME NEW t \in [Slot -> Row], NEW S
    PROVE  /\ Done(t, S) \in [Slot -> Row]
           /\ \A i \in Slot :
                 /\ Done(t, S)[i].dst = t[i].dst /\ Done(t, S)[i].msg = t[i].msg
                 /\ Done(t, S)[i].noreply = t[i].noreply
                 /\ Pending(Done(t, S)[i]) <=> (Pending(t[i]) /\ i \notin S)
  <1>1. ASSUME NEW i \in Slot, i \in S
        PROVE  Done(t, S)[i] = [t[i] EXCEPT !.done = TRUE]
    BY <1>1 DEF Done
  <1>2. ASSUME NEW i \in Slot, i \notin S PROVE Done(t, S)[i] = t[i] BY <1>2 DEF Done
  <1>3. Done(t, S) = [i \in Slot |-> Done(t, S)[i]] BY DEF Done
  <1>4. ASSUME NEW i \in Slot, i \in S
        PROVE  /\ Done(t, S)[i] \in Row
               /\ Done(t, S)[i].dst = t[i].dst /\ Done(t, S)[i].msg = t[i].msg
               /\ Done(t, S)[i].noreply = t[i].noreply
               /\ Done(t, S)[i].done = TRUE
    <2>1. t[i] \in Row OBVIOUS
    <2> QED BY <1>1, <1>4, <2>1 DEF Row
  <1> QED BY <1>2, <1>3, <1>4 DEF Pending

LEMMA InvInit == ASSUME Init PROVE AsynInv
  <1>1. ASYN_NR \in Nat /\ ASYN_NR >= 1 BY AsynAssumption
  <1>2. TypeOK
    <2>1. Empty \in Row BY DEF Empty, Row
    <2>2. msgtable \in [Slot -> Row] BY <2>1 DEF Init
    <2>3. arg \in [dst : Dst \cup {NIL}, msg : Msg \cup {NIL}, noreply : BOOLEAN] BY DEF Init
    <2> QED BY <1>1, <2>2, <2>3 DEF Init, TypeOK, Row
  <1>3. IndexInv /\ MoveInv BY DEF Init, IndexInv, MoveInv, Writing
  <1>4. Current = {} BY DEF Init, Current
  <1>5. Covered = {} BY DEF Init, Covered, Slot
  <1>6. CoverInv BY <1>4, <1>5 DEF CoverInv, AllSeen, InUse, Seen
  <1> QED BY <1>2, <1>3, <1>6 DEF AsynInv

(* What follows from the invariant about numbers and slots. *)
LEMMA Numbers ==
    ASSUME TypeOK
    PROVE  /\ ASYN_NR \in Nat /\ ASYN_NR >= 1
           /\ first_slot \in Nat /\ next_slot \in Nat /\ src_ind \in Nat /\ dst_ind \in Nat
           /\ first_slot <= next_slot /\ next_slot <= ASYN_NR
           /\ s_asyntab \in Int /\ s_asynsize \in Nat
           /\ msgtable \in [Slot -> Row]
  BY AsynAssumption DEF TypeOK, Row

LEMMA CurrentSlots == ASSUME TypeOK, MoveInv PROVE Current \subseteq Slot
  <1>1. /\ ASYN_NR \in Nat /\ first_slot \in Nat /\ next_slot \in Nat /\ src_ind \in Nat
        /\ dst_ind \in Nat /\ next_slot <= ASYN_NR BY Numbers
  <1>2. pc = "copy" => dst_ind <= src_ind /\ src_ind <= next_slot BY DEF MoveInv
  <1>3. CASE pc = "copy" BY <1>1, <1>2, <1>3 DEF Current, Slot
  <1>4. CASE pc # "copy" BY <1>1, <1>4 DEF Current, Slot
  <1> QED BY <1>3, <1>4

(* FirstPending is the first pending entry of those in use, or their end.   *)
LEMMA FirstPendingIs ==
    ASSUME TypeOK
    PROVE  /\ FirstPending \in first_slot .. next_slot
           /\ \A i \in first_slot .. next_slot - 1 : Pending(msgtable[i]) => FirstPending <= i
  <1> DEFINE S == {i \in first_slot .. next_slot - 1 : Pending(msgtable[i])}
  <1>1. first_slot \in Nat /\ next_slot \in Nat /\ first_slot <= next_slot BY Numbers
  <1>2. FirstPending = IF S = {} THEN next_slot ELSE CHOOSE i \in S : \A j \in S : i <= j
    BY DEF FirstPending
  <1>3. S \subseteq Nat /\ S \subseteq first_slot .. next_slot - 1 BY <1>1
  <1>4. \A i \in first_slot .. next_slot - 1 : Pending(msgtable[i]) => i \in S OBVIOUS
  <1> HIDE DEF S
  <1>5. CASE S = {} BY <1>1, <1>2, <1>4, <1>5
  <1>6. CASE S # {}
    <2>1. \E i \in S : \A j \in S : i <= j BY <1>3, <1>6, LeastExists
    <2>2. FirstPending \in S /\ \A j \in S : FirstPending <= j BY <1>2, <1>6, <2>1
    <2>3. FirstPending \in first_slot .. next_slot - 1 BY <1>3, <2>2
    <2>4. FirstPending \in first_slot .. next_slot BY <1>1, <2>3
    <2> QED BY <1>4, <2>2, <2>4
  <1> QED BY <1>5, <1>6

(* asynsend3() steps over the entries that are done, and over no other. *)
LEMMA Asynsend3InUse ==
    ASSUME AsynInv, NEW d \in Dst, NEW m \in Msg, NEW nr \in BOOLEAN, asynsend3(d, m, nr)
    PROVE  \A i \in Int : InUse(i)' <=> InUse(i)
  <1>0. TypeOK BY DEF AsynInv
  <1>1. /\ first_slot \in Nat /\ next_slot \in Nat /\ first_slot <= next_slot
    BY <1>0, Numbers
  <1>2. /\ FirstPending \in Nat /\ first_slot <= FirstPending /\ FirstPending <= next_slot
        /\ \A i \in first_slot .. next_slot - 1 : Pending(msgtable[i]) => FirstPending <= i
    <2>1. FirstPending \in first_slot .. next_slot BY <1>0, FirstPendingIs
    <2> QED BY <1>0, <1>1, <2>1, FirstPendingIs
  <1>3. pc = "idle" /\ pc' \in {"stop", "dst"} /\ msgtable' = msgtable BY DEF asynsend3
  <1>4. \/ FirstPending >= next_slot /\ first_slot' = 0 /\ next_slot' = 0
        \/ FirstPending < next_slot /\ first_slot' = FirstPending /\ next_slot' = next_slot
    BY <1>1, <1>2 DEF asynsend3
  <1>5. \A i \in Int : InUse(i)' <=> InUse(i)
    <2>1. Current = first_slot .. next_slot - 1 /\ Current' = first_slot' .. next_slot' - 1
      BY <1>3 DEF Current
    <2>2. CASE FirstPending >= next_slot /\ first_slot' = 0 /\ next_slot' = 0
      <3>1. \A i \in Int : i \notin Current' BY <2>1, <2>2
      <3>2. \A i \in Current : ~Pending(msgtable[i]) BY <1>1, <1>2, <2>1, <2>2
      <3> QED BY <3>1, <3>2 DEF InUse
    <2>3. CASE FirstPending < next_slot /\ first_slot' = FirstPending /\ next_slot' = next_slot
      <3>1. \A i \in Current' : i \in Current BY <1>1, <1>2, <2>1, <2>3
      <3>2. \A i \in Current : Pending(msgtable[i]) => i \in Current' BY <1>1, <1>2, <2>1, <2>3
      <3> QED BY <1>3, <3>1, <3>2 DEF InUse
    <2> QED BY <1>4, <2>2, <2>3
  <1> QED BY <1>5

LEMMA InvAsynsend3 ==
    ASSUME AsynInv, NEW d \in Dst, NEW m \in Msg, NEW nr \in BOOLEAN, asynsend3(d, m, nr)
    PROVE  AsynInv'
  <1>0. TypeOK /\ IndexInv /\ MoveInv /\ CoverInv BY DEF AsynInv
  <1>1. /\ ASYN_NR \in Nat /\ ASYN_NR >= 1 /\ first_slot \in Nat /\ next_slot \in Nat
        /\ first_slot <= next_slot /\ next_slot <= ASYN_NR
    BY <1>0, Numbers
  <1>2. /\ FirstPending \in Nat /\ first_slot <= FirstPending /\ FirstPending <= next_slot
        /\ \A i \in first_slot .. next_slot - 1 : Pending(msgtable[i]) => FirstPending <= i
    <2>1. FirstPending \in first_slot .. next_slot BY <1>0, FirstPendingIs
    <2> QED BY <1>0, <1>1, <2>1, FirstPendingIs
  <1>3. /\ pc = "idle" /\ pc' \in {"stop", "dst"}
        /\ pc' = "dst" => next_slot' < ASYN_NR
        /\ arg' = [dst |-> d, msg |-> m, noreply |-> nr]
        /\ UNCHANGED <<msgtable, src_ind, dst_ind, s_asyntab, s_asynsize, alive>>
    <2>1. next_slot' \in Nat BY <1>1, <1>2 DEF asynsend3
    <2> QED BY <1>1, <2>1 DEF asynsend3
  <1>4. \/ FirstPending >= next_slot /\ first_slot' = 0 /\ next_slot' = 0
        \/ FirstPending < next_slot /\ first_slot' = FirstPending /\ next_slot' = next_slot
    BY <1>1, <1>2 DEF asynsend3
  <1>5. TypeOK'
    <2>1. first_slot' \in 0 .. ASYN_NR /\ next_slot' \in first_slot' .. ASYN_NR
      BY <1>1, <1>2, <1>4
    <2>2. arg' \in [dst : Dst \cup {NIL}, msg : Msg \cup {NIL}, noreply : BOOLEAN] BY <1>3
    <2> QED BY <1>0, <1>3, <2>1, <2>2 DEF TypeOK
  <1>6. IndexInv' /\ MoveInv' BY <1>3 DEF IndexInv, MoveInv, Writing
  <1>7. \A i \in Int : InUse(i)' <=> InUse(i) BY Asynsend3InUse
  <1>8. \A i \in Int : Seen(i)' <=> Seen(i) BY <1>3 DEF Seen, Covered
  <1>9. /\ \A i \in Int : Seen(i) <=> InUse(i)
    <2>1. /\ \A i \in Int : Seen(i) => InUse(i)
          /\ \A i \in Int : InUse(i) => Seen(i)
      BY <1>0, <1>3 DEF CoverInv, AllSeen
    <2> QED BY <2>1
  <1>10. \A i \in Int : Seen(i)' <=> InUse(i)' BY <1>7, <1>8, <1>9
  <1>11. CoverInv' BY <1>10 DEF CoverInv, AllSeen
  <1> QED BY <1>5, <1>6, <1>11 DEF AsynInv

LEMMA InvStop == ASSUME AsynInv, Stop PROVE AsynInv'
  <1>0. TypeOK /\ IndexInv /\ MoveInv /\ CoverInv BY DEF AsynInv
  <1>1. /\ ASYN_NR \in Nat /\ ASYN_NR >= 1 /\ first_slot \in Nat /\ next_slot \in Nat
        /\ first_slot <= next_slot /\ next_slot <= ASYN_NR
    BY <1>0, Numbers
  <1>2. TypeOK' BY <1>0, <1>1 DEF TypeOK, Stop
  <1>3. IndexInv' BY <1>0 DEF IndexInv, Stop, Writing
  <1>4. MoveInv' BY <1>1 DEF MoveInv, Stop
  <1>5. Covered' = {} BY DEF Stop, Covered, Slot
  <1>6. CoverInv' BY <1>5 DEF CoverInv, Stop, Writing, Seen
  <1> QED BY <1>2, <1>3, <1>4, <1>6 DEF AsynInv

LEMMA InvCopy == ASSUME AsynInv, Copy PROVE AsynInv'
  <1>0. TypeOK /\ IndexInv /\ MoveInv /\ CoverInv BY DEF AsynInv
  <1>1. /\ ASYN_NR \in Nat /\ ASYN_NR >= 1 /\ src_ind \in Nat /\ dst_ind \in Nat
        /\ next_slot \in Nat /\ next_slot <= ASYN_NR /\ msgtable \in [Slot -> Row]
        /\ s_asyntab \in Int
    BY <1>0, Numbers
  <1>2. /\ pc = "copy" /\ s_asynsize = 0 /\ dst_ind <= src_ind /\ src_ind < next_slot
        /\ \A i \in 0 .. dst_ind - 1 : Pending(msgtable[i])
    BY <1>0 DEF MoveInv, Copy
  <1>3. src_ind \in Slot /\ dst_ind \in Slot BY <1>1, <1>2 DEF Slot
  <1>4. CASE Pending(msgtable[src_ind])
    <2>1. /\ msgtable' = [msgtable EXCEPT ![dst_ind] = msgtable[src_ind]]
          /\ dst_ind' = dst_ind + 1 /\ src_ind' = src_ind + 1
          /\ UNCHANGED <<first_slot, next_slot, pc, arg, s_asyntab, s_asynsize, alive>>
      BY <1>4 DEF Copy
    <2>2. msgtable' \in [Slot -> Row] BY <1>1, <1>3, <2>1
    <2>3. TypeOK' BY <1>0, <1>1, <1>2, <2>1, <2>2 DEF TypeOK, Row
    <2>4. \A i \in 0 .. dst_ind' - 1 : Pending(msgtable'[i])
      <3> SUFFICES ASSUME NEW i \in 0 .. dst_ind' - 1 PROVE Pending(msgtable'[i]) OBVIOUS
      <3>1. i \in Slot /\ (i = dst_ind \/ i \in 0 .. dst_ind - 1) BY <1>1, <1>2, <2>1 DEF Slot
      <3>2. CASE i = dst_ind BY <1>1, <1>3, <1>4, <2>1, <3>2
      <3>3. CASE i # dst_ind
        <4>1. msgtable'[i] = msgtable[i] BY <1>1, <2>1, <3>1, <3>3
        <4> QED BY <1>2, <3>1, <3>3, <4>1
      <3> QED BY <3>2, <3>3
    <2> QED BY <1>0, <1>1, <1>2, <2>1, <2>3, <2>4
        DEF AsynInv, IndexInv, MoveInv, CoverInv, Writing, Seen, Covered, Slot
  <1>5. CASE ~Pending(msgtable[src_ind])
    <2>1. /\ UNCHANGED <<msgtable, dst_ind>> /\ src_ind' = src_ind + 1
          /\ UNCHANGED <<first_slot, next_slot, pc, arg, s_asyntab, s_asynsize, alive>>
      BY <1>5 DEF Copy
    <2>2. TypeOK' BY <1>0, <1>1, <1>2, <2>1 DEF TypeOK
    <2> QED BY <1>0, <1>1, <1>2, <2>1, <2>2
        DEF AsynInv, IndexInv, MoveInv, CoverInv, Writing, Seen, Covered, Slot
  <1> QED BY <1>4, <1>5

LEMMA InvCopyEnd == ASSUME AsynInv, CopyEnd PROVE AsynInv'
  <1>0. TypeOK /\ IndexInv /\ MoveInv /\ CoverInv BY DEF AsynInv
  <1>1. /\ ASYN_NR \in Nat /\ ASYN_NR >= 1 /\ src_ind \in Nat /\ dst_ind \in Nat
        /\ next_slot \in Nat /\ next_slot <= ASYN_NR /\ s_asyntab \in Int
    BY <1>0, Numbers
  <1>2. /\ pc = "copy" /\ s_asynsize = 0 /\ dst_ind <= next_slot
        /\ \A i \in 0 .. dst_ind - 1 : Pending(msgtable[i])
    BY <1>0 DEF MoveInv, CopyEnd
  <1>3. /\ first_slot' = 0 /\ next_slot' = dst_ind /\ src_ind' = 0 /\ dst_ind' = 0
        /\ pc' = (IF dst_ind >= ASYN_NR THEN "panic" ELSE "dst")
        /\ UNCHANGED <<msgtable, arg, s_asyntab, s_asynsize, alive>>
    BY DEF CopyEnd
  <1>4. TypeOK' BY <1>0, <1>1, <1>2, <1>3 DEF TypeOK
  <1>5. IndexInv' BY <1>0, <1>1, <1>2, <1>3 DEF IndexInv, Writing
  <1>6. MoveInv' BY <1>1, <1>2, <1>3 DEF MoveInv, Slot
  <1>7. Covered' = {} BY <1>1, <1>2, <1>3 DEF Covered, Slot
  <1>8. CoverInv' BY <1>3, <1>7 DEF CoverInv, Seen
  <1> QED BY <1>4, <1>5, <1>6, <1>8 DEF AsynInv

(* A step that leaves every entry as pending as it was, and the indices. *)
LEMMA CoverStays ==
    ASSUME TypeOK, MoveInv, CoverInv, Writing, Writing' \/ pc' = pc,
           \A i \in Slot : Pending(msgtable'[i]) <=> Pending(msgtable[i]),
           UNCHANGED <<first_slot, next_slot, s_asyntab, s_asynsize>>
    PROVE  CoverInv'
  <1>1. pc # "copy" /\ pc' # "copy" /\ pc' \notin {"idle", "stop"} BY DEF Writing
  <1>2. Current' = Current /\ Covered' = Covered /\ Current \subseteq Slot /\ Covered \subseteq Slot
    BY <1>1, CurrentSlots DEF Current, Covered
  <1>3. \A i \in Int : (InUse(i)' <=> InUse(i)) /\ (Seen(i)' <=> Seen(i))
    BY <1>2 DEF InUse, Seen
  <1> QED BY <1>1, <1>2, <1>3 DEF CoverInv, AllSeen

LEMMA InvWriteDst == ASSUME AsynInv, WriteDst PROVE AsynInv'
  <1>0. TypeOK /\ IndexInv /\ MoveInv /\ CoverInv /\ Writing /\ pc = "dst" /\ pc' = "msg"
    BY DEF AsynInv, WriteDst, Writing
  <1>1. /\ ASYN_NR \in Nat /\ next_slot \in Nat /\ next_slot < ASYN_NR
        /\ msgtable \in [Slot -> Row] /\ next_slot \in Slot
        /\ arg.dst \in Dst /\ arg.msg \in Msg
    <2>1. ASYN_NR \in Nat /\ next_slot \in Nat /\ msgtable \in [Slot -> Row] BY <1>0, Numbers
    <2> QED BY <1>0, <2>1 DEF IndexInv, Slot
  <1>2. /\ msgtable' = [msgtable EXCEPT ![next_slot] = [@ EXCEPT !.dst = arg.dst]]
        /\ UNCHANGED <<first_slot, next_slot, arg, src_ind, dst_ind,
                       s_asyntab, s_asynsize, alive>>
    BY DEF WriteDst
  <1>3. [msgtable[next_slot] EXCEPT !.dst = arg.dst] \in Row
    <2>1. msgtable[next_slot] \in Row BY <1>1
    <2> QED BY <1>1, <2>1 DEF Row
  <1>4. msgtable' \in [Slot -> Row] BY <1>1, <1>2, <1>3
  <1>5. TypeOK' BY <1>0, <1>2, <1>4 DEF TypeOK, Row
  <1>6. msgtable'[next_slot] = [msgtable[next_slot] EXCEPT !.dst = arg.dst] BY <1>1, <1>2
  <1>7. msgtable'[next_slot].dst = arg.dst /\ (Pending(msgtable'[next_slot]) <=> Pending(msgtable[next_slot]))
    <2>1. msgtable[next_slot] \in Row BY <1>1
    <2> QED BY <1>6, <2>1 DEF Row, Pending
  <1>8. \A i \in Slot : i # next_slot => msgtable'[i] = msgtable[i] BY <1>1, <1>2
  <1>9. CoverInv' BY <1>0, <1>2, <1>7, <1>8, CoverStays DEF Writing
  <1>10. IndexInv' BY <1>0, <1>1, <1>2, <1>7 DEF IndexInv, Writing
  <1> QED BY <1>0, <1>5, <1>9, <1>10 DEF AsynInv, MoveInv

LEMMA InvWriteMsg == ASSUME AsynInv, WriteMsg PROVE AsynInv'
  <1>0. TypeOK /\ IndexInv /\ MoveInv /\ CoverInv /\ Writing /\ pc = "msg" /\ pc' = "flags"
    BY DEF AsynInv, WriteMsg, Writing
  <1>1. /\ ASYN_NR \in Nat /\ next_slot \in Nat /\ next_slot < ASYN_NR
        /\ msgtable \in [Slot -> Row] /\ next_slot \in Slot
        /\ arg.dst \in Dst /\ arg.msg \in Msg /\ msgtable[next_slot].dst = arg.dst
    <2>1. ASYN_NR \in Nat /\ next_slot \in Nat /\ msgtable \in [Slot -> Row] BY <1>0, Numbers
    <2> QED BY <1>0, <2>1 DEF IndexInv, Slot
  <1>2. /\ msgtable' = [msgtable EXCEPT ![next_slot] = [@ EXCEPT !.msg = arg.msg]]
        /\ UNCHANGED <<first_slot, next_slot, arg, src_ind, dst_ind,
                       s_asyntab, s_asynsize, alive>>
    BY DEF WriteMsg
  <1>3. [msgtable[next_slot] EXCEPT !.msg = arg.msg] \in Row
    <2>1. msgtable[next_slot] \in Row BY <1>1
    <2> QED BY <1>1, <2>1 DEF Row
  <1>4. msgtable' \in [Slot -> Row] BY <1>1, <1>2, <1>3
  <1>5. TypeOK' BY <1>0, <1>2, <1>4 DEF TypeOK, Row
  <1>6. msgtable'[next_slot] = [msgtable[next_slot] EXCEPT !.msg = arg.msg] BY <1>1, <1>2
  <1>7. /\ msgtable'[next_slot].msg = arg.msg
        /\ msgtable'[next_slot].dst = arg.dst
        /\ Pending(msgtable'[next_slot]) <=> Pending(msgtable[next_slot])
    <2>1. msgtable[next_slot] \in Row BY <1>1
    <2> QED BY <1>1, <1>6, <2>1 DEF Row, Pending
  <1>8. \A i \in Slot : i # next_slot => msgtable'[i] = msgtable[i] BY <1>1, <1>2
  <1>9. CoverInv' BY <1>0, <1>2, <1>7, <1>8, CoverStays DEF Writing
  <1>10. IndexInv' BY <1>0, <1>1, <1>2, <1>7 DEF IndexInv, Writing
  <1> QED BY <1>0, <1>5, <1>9, <1>10 DEF AsynInv, MoveInv

(* What the entry holds once its flags are written. *)
LEMMA FlagsWritten ==
    ASSUME AsynInv, WriteFlags
    PROVE  /\ next_slot \in Slot /\ msgtable' \in [Slot -> Row]
           /\ \A i \in Slot : i # next_slot => msgtable'[i] = msgtable[i]
           /\ Pending(msgtable'[next_slot])
           /\ msgtable'[next_slot].dst = arg.dst /\ msgtable'[next_slot].msg = arg.msg
           /\ msgtable'[next_slot].noreply = arg.noreply
           /\ arg.dst \in Dst /\ arg.msg \in Msg /\ arg.noreply \in BOOLEAN
           /\ next_slot' = next_slot + 1 /\ next_slot < ASYN_NR
           /\ Current = first_slot .. next_slot - 1 /\ Current' = first_slot .. next_slot
  <1>0. TypeOK /\ IndexInv /\ pc = "flags" /\ Writing BY DEF AsynInv, WriteFlags, Writing
  <1>1. ASYN_NR \in Nat /\ next_slot \in Nat /\ first_slot \in Nat /\ msgtable \in [Slot -> Row]
    BY <1>0, Numbers
  <1>2. /\ next_slot < ASYN_NR /\ next_slot \in Slot
        /\ arg.dst \in Dst /\ arg.msg \in Msg /\ arg.noreply \in BOOLEAN
        /\ msgtable[next_slot].dst = arg.dst /\ msgtable[next_slot].msg = arg.msg
    BY <1>0, <1>1 DEF IndexInv, Slot, TypeOK
  <1> DEFINE e == [msgtable[next_slot] EXCEPT !.noreply = arg.noreply, !.valid = TRUE, !.done = FALSE]
  <1>3. msgtable' = [msgtable EXCEPT ![next_slot] = e] BY DEF WriteFlags
  <1>4. /\ e \in Row /\ e.dst = msgtable[next_slot].dst /\ e.msg = msgtable[next_slot].msg
        /\ e.noreply = arg.noreply /\ Pending(e)
    <2>1. msgtable[next_slot] \in Row BY <1>1, <1>2
    <2> QED BY <1>2, <2>1 DEF Row, Pending
  <1> HIDE DEF e
  <1>5. msgtable' \in [Slot -> Row] /\ msgtable'[next_slot] = e BY <1>1, <1>2, <1>3, <1>4
  <1>6. \A i \in Slot : i # next_slot => msgtable'[i] = msgtable[i] BY <1>1, <1>3
  <1>7. Current = first_slot .. next_slot - 1 BY <1>0 DEF Current
  <1>8. next_slot' = next_slot + 1 /\ first_slot' = first_slot /\ pc' = "senda" BY DEF WriteFlags
  <1>9. Current' = first_slot .. next_slot BY <1>1, <1>8 DEF Current
  <1> QED BY <1>2, <1>4, <1>5, <1>6, <1>7, <1>8, <1>9

LEMMA InvWriteFlags == ASSUME AsynInv, WriteFlags PROVE AsynInv'
  <1>0. TypeOK /\ IndexInv /\ MoveInv /\ CoverInv /\ Writing BY DEF AsynInv, WriteFlags, Writing
  <1>1. /\ ASYN_NR \in Nat /\ next_slot \in Nat /\ first_slot \in Nat /\ first_slot <= next_slot
    BY <1>0, Numbers
  <1>2. /\ next_slot \in Slot /\ msgtable' \in [Slot -> Row]
        /\ \A i \in Slot : i # next_slot => msgtable'[i] = msgtable[i]
        /\ Pending(msgtable'[next_slot])
        /\ arg.dst \in Dst /\ arg.msg \in Msg
        /\ next_slot' = next_slot + 1 /\ next_slot < ASYN_NR
        /\ Current = first_slot .. next_slot - 1 /\ Current' = first_slot .. next_slot
    BY FlagsWritten
  <1>3. /\ pc' = "senda"
        /\ UNCHANGED <<first_slot, arg, src_ind, dst_ind, s_asyntab, s_asynsize, alive>>
    BY DEF WriteFlags
  <1>4. TypeOK' BY <1>0, <1>1, <1>2, <1>3 DEF TypeOK, Row
  <1>5. IndexInv' /\ MoveInv' BY <1>1, <1>2, <1>3 DEF IndexInv, MoveInv, Writing
  <1>6. Covered' = Covered /\ Covered \subseteq Slot BY <1>3 DEF Covered
  <1>7. \A i \in Int : InUse(i)' <=> (InUse(i) \/ i = next_slot)
    <2> SUFFICES ASSUME NEW i \in Int PROVE InUse(i)' <=> (InUse(i) \/ i = next_slot) OBVIOUS
    <2>1. CASE i = next_slot
      <3>1. i \in Current' BY <1>1, <1>2, <2>1
      <3> QED BY <1>2, <2>1, <3>1 DEF InUse
    <2>2. CASE i # next_slot
      <3>1. i \in Current' <=> i \in Current BY <1>1, <1>2, <2>2
      <3>2. i \in Current => i \in Slot BY <1>0, CurrentSlots
      <3> QED BY <1>2, <2>2, <3>1, <3>2 DEF InUse
    <2> QED BY <2>1, <2>2
  <1>8. \A i \in Int : Seen(i)' <=> (Seen(i) \/ (i = next_slot /\ next_slot \in Covered))
    <2> SUFFICES ASSUME NEW i \in Int
                 PROVE  Seen(i)' <=> (Seen(i) \/ (i = next_slot /\ next_slot \in Covered))
      OBVIOUS
    <2>1. CASE i = next_slot
      <3>1. Seen(i)' <=> i \in Covered BY <1>2, <1>6, <2>1 DEF Seen
      <3> QED BY <2>1, <3>1 DEF Seen
    <2>2. CASE i # next_slot BY <1>2, <1>6, <2>2 DEF Seen
    <2> QED BY <2>1, <2>2
  <1>9. \A i \in Int : InUse(i) => i < next_slot
    <2>1. \A i \in Current : i < next_slot BY <1>1, <1>2
    <2> QED BY <2>1 DEF InUse
  <1>10. \A i \in Int : Seen(i)' => InUse(i)' BY <1>0, <1>7, <1>8 DEF CoverInv
  <1>11. ASSUME NEW i \in Int, NEW j \in Int, InUse(i)', ~Seen(i)', Seen(j)' PROVE j < i
    <2>1. Covered # {} /\ AllSeen
      <3>1. Covered # {} BY <1>6, <1>11 DEF Seen
      <3> QED BY <1>0, <3>1 DEF CoverInv
    <2>2. i = next_slot /\ next_slot \notin Covered BY <1>7, <1>8, <1>11, <2>1 DEF AllSeen
    <2>3. Seen(j) BY <1>8, <1>11, <2>2
    <2>4. InUse(j) BY <1>0, <2>3 DEF CoverInv
    <2> QED BY <1>9, <2>2, <2>4
  <1>12. CoverInv' BY <1>3, <1>10, <1>11 DEF CoverInv, Writing
  <1> QED BY <1>4, <1>5, <1>12 DEF AsynInv

LEMMA InvDie == ASSUME AsynInv, NEW d \in Dst, Die(d) PROVE AsynInv'
  BY DEF AsynInv, Die, TypeOK, IndexInv, MoveInv, CoverInv, Writing, InUse, Seen, AllSeen,
         Current, Covered

(* What try_one() finds is pending, and it is the only thing that changes. *)
LEMMA TryOneDoes ==
    ASSUME AsynInv, NEW d \in Dst, NEW replying \in BOOLEAN, try_one(d, replying),
           NEW F, F = Found(msgtable, Covered, d, replying)
    PROVE  /\ d \in alive /\ Covered # {} /\ Covered \subseteq Slot
           /\ pc \notin {"copy", "panic"}
           /\ msgtable' = Done(msgtable, F) /\ msgtable \in [Slot -> Row]
           /\ \A i \in F : Seen(i)
           /\ UNCHANGED <<first_slot, next_slot, pc, arg, src_ind, dst_ind, s_asyntab, alive>>
           /\ Current' = Current /\ Current \subseteq Slot
           /\ \/ Covered' = Covered /\ s_asynsize' = s_asynsize
              \/ (\A i \in Int : ~Seen(i)) /\ F = {} /\ Covered' = {} /\ s_asynsize' = 0
  <1>0. TypeOK /\ IndexInv /\ MoveInv /\ CoverInv BY DEF AsynInv
  <1>1. s_asyntab \in Int /\ s_asynsize \in Nat /\ msgtable \in [Slot -> Row] BY <1>0, Numbers
  <1>2. /\ d \in alive /\ Covered # {} /\ msgtable' = Done(msgtable, F)
        /\ UNCHANGED <<first_slot, next_slot, pc, arg, src_ind, dst_ind, s_asyntab, alive>>
        /\ s_asynsize' = IF \E i \in Covered : Pending(msgtable[i]) THEN s_asynsize ELSE 0
    BY DEF try_one
  <1>3. Covered \subseteq Slot /\ Slot \subseteq Int BY DEF Covered, Slot
  <1>4. s_asynsize # 0
    <2>1. PICK i \in Covered : TRUE BY <1>2
    <2> QED BY <1>1, <1>3, <2>1 DEF Covered
  <1>5. pc \notin {"copy", "panic"} BY <1>0, <1>4 DEF MoveInv
  <1>6. \A i \in F : Seen(i) BY DEF Found, First, Seen
  <1>7. Current' = Current /\ Current \subseteq Slot BY <1>0, <1>2, CurrentSlots DEF Current
  <1>8. \/ Covered' = Covered /\ s_asynsize' = s_asynsize
        \/ (\A i \in Int : ~Seen(i)) /\ F = {} /\ Covered' = {} /\ s_asynsize' = 0
    <2>1. CASE \E i \in Covered : Pending(msgtable[i])
      <3>1. s_asynsize' = s_asynsize /\ s_asyntab' = s_asyntab BY <1>2, <2>1
      <3> QED BY <3>1 DEF Covered
    <2>2. CASE ~\E i \in Covered : Pending(msgtable[i])
      <3>1. \A i \in Int : ~Seen(i) BY <2>2 DEF Seen
      <3>2. F = {} BY <1>6, <2>2 DEF Seen
      <3>3. s_asynsize' = 0 /\ s_asyntab' = s_asyntab BY <1>2, <2>2
      <3>4. Covered' = {}
        <4>1. Covered' = {i \in Slot : s_asyntab <= i /\ i < s_asyntab + 0} BY <3>3 DEF Covered
        <4>2. \A i \in Slot : i \in Int BY <1>3
        <4> QED BY <1>1, <4>1, <4>2
      <3> QED BY <3>1, <3>2, <3>3, <3>4
    <2> QED BY <2>1, <2>2
  <1> QED BY <1>1, <1>2, <1>3, <1>5, <1>6, <1>7, <1>8

LEMMA InvTryOne ==
    ASSUME AsynInv, NEW d \in Dst, NEW replying \in BOOLEAN, try_one(d, replying)
    PROVE  AsynInv'
  <1> DEFINE F == Found(msgtable, Covered, d, replying)
  <1>0. TypeOK /\ IndexInv /\ MoveInv /\ CoverInv BY DEF AsynInv
  <1>n. ASYN_NR \in Nat /\ next_slot \in Nat /\ s_asynsize \in Nat BY <1>0, Numbers
  <1>1. /\ Covered \subseteq Slot /\ Slot \subseteq Int
        /\ pc \notin {"copy", "panic"}
        /\ msgtable' = Done(msgtable, F) /\ msgtable \in [Slot -> Row]
        /\ \A i \in F : Seen(i)
        /\ UNCHANGED <<first_slot, next_slot, pc, arg, src_ind, dst_ind, s_asyntab, alive>>
        /\ Current' = Current /\ Current \subseteq Slot
    <2>1. Slot \subseteq Int BY DEF Slot
    <2> QED BY <2>1, TryOneDoes
  <1>2. \/ Covered' = Covered /\ s_asynsize' = s_asynsize
        \/ (\A i \in Int : ~Seen(i)) /\ F = {} /\ Covered' = {} /\ s_asynsize' = 0
    BY TryOneDoes
  <1> HIDE DEF F
  <1>3. /\ msgtable' \in [Slot -> Row]
        /\ \A i \in Slot :
              /\ msgtable'[i].dst = msgtable[i].dst /\ msgtable'[i].msg = msgtable[i].msg
              /\ Pending(msgtable'[i]) <=> (Pending(msgtable[i]) /\ i \notin F)
    BY <1>1, DoneIs
  <1>4. TypeOK'
    <2>1. s_asynsize' \in 0 .. ASYN_NR BY <1>0, <1>2, <1>n DEF TypeOK
    <2> QED BY <1>0, <1>1, <1>3, <2>1 DEF TypeOK, Row
  <1>5. IndexInv'
    <2>1. Writing => next_slot \in Slot BY <1>0, <1>n DEF IndexInv, Slot
    <2> QED BY <1>0, <1>1, <1>3, <2>1 DEF IndexInv, Writing
  <1>6. MoveInv' BY <1>1 DEF MoveInv
  <1>7. \A i \in Int : InUse(i)' <=> (InUse(i) /\ i \notin F) BY <1>1, <1>3 DEF InUse
  <1>8. CASE Covered' = Covered /\ s_asynsize' = s_asynsize
    <2>1. \A i \in Int : Seen(i)' <=> (Seen(i) /\ i \notin F) BY <1>1, <1>3, <1>8 DEF Seen
    <2>2. CoverInv' BY <1>0, <1>1, <1>7, <1>8, <2>1 DEF CoverInv, AllSeen, Writing
    <2> QED BY <1>4, <1>5, <1>6, <2>2 DEF AsynInv
  <1>9. CASE (\A i \in Int : ~Seen(i)) /\ F = {} /\ Covered' = {} /\ s_asynsize' = 0
    <2>1. \A i \in Int : ~Seen(i)' BY <1>9 DEF Seen
    <2>2. pc \in {"idle", "stop"} => \A i \in Int : ~InUse(i)
      BY <1>0, <1>9 DEF CoverInv, AllSeen
    <2>3. CoverInv' BY <1>1, <1>7, <1>9, <2>1, <2>2 DEF CoverInv, AllSeen
    <2> QED BY <1>4, <1>5, <1>6, <2>3 DEF AsynInv
  <1> QED BY <1>2, <1>8, <1>9

(* What mini_senda() marks as done, out of the slots S. *)
Gone(S, w, r) ==
    {i \in S : Pending(msgtable[i]) /\ msgtable[i].dst \notin alive}
    \cup UNION {Found(msgtable, S, d, d \in r) : d \in w \cap alive}

LEMMA SendaDoes ==
    ASSUME AsynInv, NEW w \in SUBSET Dst, NEW r \in SUBSET w, Senda(w, r)
    PROVE  /\ pc = "senda" /\ pc' = "idle"
           /\ Current = first_slot .. next_slot - 1 /\ Current' = Current
           /\ Current \subseteq Slot /\ msgtable \in [Slot -> Row]
           /\ msgtable' = Done(msgtable, Gone(Current, w, r))
           /\ s_asyntab' = first_slot
           /\ s_asynsize' = IF \E i \in Current : Pending(msgtable'[i])
                            THEN next_slot - first_slot ELSE 0
           /\ arg' = [dst |-> NIL, msg |-> NIL, noreply |-> FALSE]
           /\ UNCHANGED <<first_slot, next_slot, src_ind, dst_ind, alive>>
  <1>0. TypeOK /\ IndexInv /\ MoveInv /\ CoverInv BY DEF AsynInv
  <1>1. first_slot \in Nat /\ next_slot \in Nat /\ msgtable \in [Slot -> Row] BY <1>0, Numbers
  <1>2. /\ pc = "senda" /\ pc' = "idle"
        /\ arg' = [dst |-> NIL, msg |-> NIL, noreply |-> FALSE]
        /\ UNCHANGED <<first_slot, next_slot, src_ind, dst_ind, alive>>
        /\ mini_senda(first_slot, next_slot - first_slot, w, r)
    BY DEF Senda
  <1>3. Current = first_slot .. next_slot - 1 /\ Current' = Current /\ Current \subseteq Slot
    BY <1>0, <1>2, CurrentSlots DEF Current
  <1>4. first_slot .. first_slot + (next_slot - first_slot) - 1 = Current
    <2>1. first_slot + (next_slot - first_slot) - 1 = next_slot - 1 BY <1>1
    <2> QED BY <1>3, <2>1
  <1>5. /\ msgtable' = Done(msgtable, Gone(Current, w, r))
        /\ s_asyntab' = first_slot
        /\ s_asynsize' = IF \E i \in Current : Pending(Done(msgtable, Gone(Current, w, r))[i])
                         THEN next_slot - first_slot ELSE 0
    BY <1>2, <1>4, Zenon DEF mini_senda, Gone
  <1> QED BY <1>1, <1>2, <1>3, <1>5, Zenon

LEMMA InvSenda ==
    ASSUME AsynInv, NEW w \in SUBSET Dst, NEW r \in SUBSET w, Senda(w, r)
    PROVE  AsynInv'
  <1>0. TypeOK /\ IndexInv /\ MoveInv /\ CoverInv BY DEF AsynInv
  <1>n. /\ ASYN_NR \in Nat /\ ASYN_NR >= 1 /\ first_slot \in Nat /\ next_slot \in Nat
        /\ first_slot <= next_slot /\ next_slot <= ASYN_NR
    BY <1>0, Numbers
  <1>1. /\ pc = "senda" /\ pc' = "idle"
        /\ Current = first_slot .. next_slot - 1 /\ Current' = Current
        /\ Current \subseteq Slot /\ msgtable \in [Slot -> Row]
        /\ msgtable' = Done(msgtable, Gone(Current, w, r))
        /\ s_asyntab' = first_slot
        /\ arg' = [dst |-> NIL, msg |-> NIL, noreply |-> FALSE]
        /\ UNCHANGED <<first_slot, next_slot, src_ind, dst_ind, alive>>
    BY SendaDoes
  <1>2. s_asynsize' = IF \E i \in Current : Pending(msgtable'[i])
                      THEN next_slot - first_slot ELSE 0
    BY SendaDoes
  <1>3. msgtable' \in [Slot -> Row] BY <1>1, DoneIs
  <1>f. first_slot < next_slot BY <1>0, <1>1 DEF IndexInv
  <1>4. TypeOK'
    <2>1. s_asynsize' \in 0 .. ASYN_NR BY <1>2, <1>n
    <2>2. s_asyntab' \in -1 .. ASYN_NR - 1 BY <1>1, <1>n, <1>f
    <2>3. arg' \in [dst : Dst \cup {NIL}, msg : Msg \cup {NIL}, noreply : BOOLEAN] BY <1>1
    <2> QED BY <1>0, <1>1, <1>3, <2>1, <2>2, <2>3 DEF TypeOK, Row
  <1>5. IndexInv' /\ MoveInv' BY <1>1 DEF IndexInv, MoveInv, Writing
  <1>6. CASE \E i \in Current : Pending(msgtable'[i])
    <2>1. s_asynsize' = next_slot - first_slot BY <1>2, <1>6
    <2>2. Covered' = Current'
      <3>1. Covered' = {i \in Slot : first_slot <= i /\ i < first_slot + (next_slot - first_slot)}
        BY <1>1, <2>1 DEF Covered
      <3>2. \A i \in Slot : i \in Int BY DEF Slot
      <3>3. Current \subseteq Slot /\ Current = first_slot .. next_slot - 1 /\ Current' = Current
        BY <1>1
      <3>4. \A i \in Slot : (first_slot <= i /\ i < first_slot + (next_slot - first_slot))
                            <=> i \in first_slot .. next_slot - 1
        BY <1>n, <3>2
      <3>5. Covered' = {i \in Slot : i \in Current} BY <3>1, <3>3, <3>4
      <3> QED BY <3>3, <3>5
    <2>3. CoverInv' BY <1>1, <2>2 DEF CoverInv, AllSeen, InUse, Seen, Writing
    <2> QED BY <1>4, <1>5, <2>3 DEF AsynInv
  <1>7. CASE ~\E i \in Current : Pending(msgtable'[i])
    <2>1. s_asynsize' = 0 BY <1>2, <1>7
    <2>2. Covered' = {}
      <3>1. Covered' = {i \in Slot : first_slot <= i /\ i < first_slot + 0} BY <1>1, <2>1 DEF Covered
      <3>2. \A i \in Slot : i \in Int BY DEF Slot
      <3> QED BY <1>n, <3>1, <3>2
    <2>3. \A i \in Int : ~InUse(i)' /\ ~Seen(i)' BY <1>1, <1>7, <2>2 DEF InUse, Seen
    <2>4. CoverInv' BY <2>3 DEF CoverInv, AllSeen
    <2> QED BY <1>4, <1>5, <2>4 DEF AsynInv
  <1> QED BY <1>6, <1>7

LEMMA InvNext == ASSUME AsynInv, [Next]_vars PROVE AsynInv'
  <1>1. CASE \E d \in Dst, m \in Msg, nr \in BOOLEAN : asynsend3(d, m, nr)
    BY <1>1, InvAsynsend3
  <1>2. CASE Stop BY <1>2, InvStop
  <1>3. CASE Copy BY <1>3, InvCopy
  <1>4. CASE CopyEnd BY <1>4, InvCopyEnd
  <1>5. CASE WriteDst BY <1>5, InvWriteDst
  <1>6. CASE WriteMsg BY <1>6, InvWriteMsg
  <1>7. CASE WriteFlags BY <1>7, InvWriteFlags
  <1>8. CASE \E w \in SUBSET Dst : \E r \in SUBSET w : Senda(w, r) BY <1>8, InvSenda
  <1>9. CASE \E d \in Dst : Die(d) BY <1>9, InvDie
  <1>10. CASE \E d \in Dst : \E replying \in BOOLEAN : try_one(d, replying) BY <1>10, InvTryOne
  <1>11. CASE UNCHANGED vars
    BY <1>11 DEF vars, AsynInv, TypeOK, IndexInv, MoveInv, CoverInv, Writing, InUse, Seen,
                 AllSeen, Current, Covered
  <1> QED BY <1>1, <1>2, <1>3, <1>4, <1>5, <1>6, <1>7, <1>8, <1>9, <1>10, <1>11, Zenon DEF Next

LEMMA InvAlways == Spec => []AsynInv
  <1>1. Init => AsynInv BY InvInit
  <1>2. AsynInv /\ [Next]_vars => AsynInv' BY InvNext
  <1> QED BY <1>1, <1>2, PTL DEF Spec

(* Between calls of asynsend3() every message that is still to be taken is  *)
(* where the kernel looks, and asynsend3() panics only when no entry of a   *)
(* full table was taken: for every size of the table.                       *)
THEOREM NothingGetsStuck == Spec => []NothingStuck
  <1>1. AsynInv => NothingStuck
    <2> SUFFICES ASSUME AsynInv PROVE NothingStuck OBVIOUS
    <2>1. ASSUME pc = "idle", NEW i \in Current, Pending(msgtable[i]) PROVE i \in Covered
      <3>1. i \in Int BY DEF Current
      <3> QED BY <2>1, <3>1 DEF AsynInv, CoverInv, AllSeen, InUse, Seen
    <2> QED BY <2>1 DEF AsynInv, MoveInv, NothingStuck
  <1> QED BY <1>1, InvAlways, PTL

-----------------------------------------------------------------------------
(* What a set of entries holds, in order. *)

Ent(t, i) == [msg |-> t[i].msg, noreply |-> t[i].noreply]

(* c is what the entries s[1] .. s[m] of table t hold. *)
Lists(c, m, t, s) == c = [k \in 1 .. m |-> Ent(t, s[k])]

LEMMA ContentsIs ==
    ASSUME NEW S, S \subseteq Int, NEW m \in Nat, NEW s, Enumerates(s, m, S), NEW t
    PROVE  Lists(Contents(t, S), m, t, s)
  <1>1. Cardinality(S) = m /\ s = Ascending(S) BY AscendingUnique
  <1> QED BY <1>1 DEF Contents, Ent, Lists

Inside(m, t, s, V) == \A k \in 1 .. m : Ent(t, s[k]) \in V

Collected(c, m, t, s, V) == c \in Seq(V) /\ Len(c) = m /\ \A k \in 1 .. m : c[k] = Ent(t, s[k])

LEMMA ListsIs ==
    ASSUME NEW c, NEW m \in Nat, NEW t, NEW s, NEW V, Lists(c, m, t, s), Inside(m, t, s, V)
    PROVE  Collected(c, m, t, s, V)
  <1>1. c = [k \in 1 .. m |-> Ent(t, s[k])] BY DEF Lists
  <1>2. \A k \in 1 .. m : c[k] = Ent(t, s[k]) BY <1>1
  <1>3. c \in [1 .. m -> V] BY <1>1 DEF Inside
  <1> QED BY <1>2, <1>3 DEF Collected

(* Every finite set has its enumeration. *)
LEMMA Enumeration ==
    ASSUME NEW S, S \subseteq Int, IsFiniteSet(S)
    PROVE  \E m \in Nat : Enumerates(Ascending(S), m, S)
  BY AscendingIs

LEMMA ContentsOfNone == ASSUME NEW t PROVE Contents(t, {}) = <<>>
  <1> DEFINE s == [k \in 1 .. 0 |-> 0]
  <1>1. s \in [1 .. 0 -> {}] OBVIOUS
  <1>2. Enumerates(s, 0, {}) BY <1>1 DEF Enumerates, Increasing
  <1> HIDE DEF s
  <1>3. {} \subseteq Int /\ 0 \in Nat OBVIOUS
  <1>4. Lists(Contents(t, {}), 0, t, s) BY <1>2, <1>3, ContentsIs
  <1>5. Contents(t, {}) \in Seq({}) /\ Len(Contents(t, {})) = 0
    <2>1. Inside(0, t, s, {}) BY DEF Inside
    <2>2. Collected(Contents(t, {}), 0, t, s, {}) BY <1>3, <1>4, <2>1, ListsIs
    <2> QED BY <2>2 DEF Collected
  <1> QED BY <1>5

(* An entry after the others is the last. *)
LEMMA ContentsAdd ==
    ASSUME NEW S, S \subseteq Int, IsFiniteSet(S), NEW x \in Int, \A y \in S : y < x,
           NEW t, NEW u, \A y \in S : Ent(u, y) = Ent(t, y)
    PROVE  Contents(u, S \cup {x}) = Append(Contents(t, S), Ent(u, x))
  <1> DEFINE s == Ascending(S)
             a == [k \in 1 .. Cardinality(S) + 1 |-> IF k \in 1 .. Cardinality(S) THEN s[k] ELSE x]
             c == Contents(t, S)
             d == Contents(u, S \cup {x})
             V == {Ent(t, i) : i \in S} \cup {Ent(u, x)}
  <1>1. PICK m \in Nat : Enumerates(s, m, S) BY Enumeration
  <1>2. Cardinality(S) = m BY <1>1, AscendingUnique
  <1> HIDE DEF s
  <1>3. s \in [1 .. m -> S] /\ Increasing(s, m) /\ \A y \in S : \E k \in 1 .. m : s[k] = y
    BY <1>1 DEF Enumerates
  <1>4. /\ \A k \in 1 .. m : k \in 1 .. m + 1 /\ a[k] = s[k]
        /\ m + 1 \in 1 .. m + 1 /\ a[m + 1] = x
    BY <1>2
  <1>5. a \in [1 .. m + 1 -> S \cup {x}] BY <1>2, <1>3
  <1> HIDE DEF a
  <1>6. \A k \in 1 .. m + 1 : k \in 1 .. m \/ k = m + 1 OBVIOUS
  <1>7. Increasing(a, m + 1)
    <2> SUFFICES ASSUME NEW k \in 1 .. m + 1, NEW l \in 1 .. m + 1, k < l PROVE a[k] < a[l]
      BY DEF Increasing
    <2>1. k \in 1 .. m /\ a[k] = s[k] /\ s[k] \in S BY <1>3, <1>4
    <2>2. CASE l \in 1 .. m BY <1>3, <1>4, <2>1, <2>2 DEF Increasing
    <2>3. CASE l = m + 1 BY <1>4, <2>1, <2>3
    <2> QED BY <1>6, <2>2, <2>3
  <1>8. \A y \in S \cup {x} : \E k \in 1 .. m + 1 : a[k] = y
    <2> SUFFICES ASSUME NEW y \in S \cup {x} PROVE \E k \in 1 .. m + 1 : a[k] = y OBVIOUS
    <2>1. CASE y = x BY <1>4, <2>1
    <2>2. CASE y \in S
      <3>1. PICK k \in 1 .. m : s[k] = y BY <1>3, <2>2
      <3> QED BY <1>4, <3>1
    <2> QED BY <2>1, <2>2
  <1>9. Enumerates(a, m + 1, S \cup {x}) BY <1>5, <1>7, <1>8 DEF Enumerates
  <1>10. Lists(c, m, t, s) BY <1>1, ContentsIs
  <1>11. Lists(d, m + 1, u, a)
    <2>1. S \cup {x} \subseteq Int /\ m + 1 \in Nat OBVIOUS
    <2> QED BY <1>9, <2>1, ContentsIs
  <1> HIDE DEF c, d
  <1>12. \A k \in 1 .. m : s[k] \in S /\ Ent(t, s[k]) \in V /\ Ent(u, s[k]) = Ent(t, s[k])
    BY <1>3
  <1> DEFINE v == Ent(u, x)
  <1>13. v \in V /\ v = Ent(u, x) OBVIOUS
  <1> HIDE DEF V, v
  <1>14. c \in Seq(V) /\ Len(c) = m /\ \A k \in 1 .. m : c[k] = Ent(t, s[k])
    <2>1. Inside(m, t, s, V) BY <1>12 DEF Inside
    <2>2. Collected(c, m, t, s, V) BY <1>10, <2>1, ListsIs
    <2> QED BY <2>2 DEF Collected
  <1>15. \A k \in 1 .. m + 1 : Ent(u, a[k]) = IF k \in 1 .. m THEN c[k] ELSE v
    <2> SUFFICES ASSUME NEW k \in 1 .. m + 1
                 PROVE  Ent(u, a[k]) = IF k \in 1 .. m THEN c[k] ELSE v
      OBVIOUS
    <2>1. CASE k \in 1 .. m
      <3>1. a[k] = s[k] BY <1>4, <2>1
      <3> QED BY <1>12, <1>14, <2>1, <3>1
    <2>2. CASE k = m + 1
      <3>1. a[k] = x /\ k \notin 1 .. m BY <1>4, <2>2
      <3> QED BY <1>13, <3>1
    <2> QED BY <1>6, <2>1, <2>2
  <1>16. \A k \in 1 .. m + 1 : Ent(u, a[k]) \in V BY <1>12, <1>13, <1>14, <1>15
  <1>17. d \in Seq(V) /\ Len(d) = m + 1 /\ \A k \in 1 .. m + 1 : d[k] = Ent(u, a[k])
    <2>1. m + 1 \in Nat /\ Inside(m + 1, u, a, V) BY <1>16 DEF Inside
    <2>2. Collected(d, m + 1, u, a, V) BY <1>11, <2>1, ListsIs
    <2> QED BY <2>2 DEF Collected
  <1>18. /\ Append(c, v) \in Seq(V) /\ Len(Append(c, v)) = m + 1
         /\ \A k \in 1 .. m + 1 : Append(c, v)[k] = IF k \in 1 .. m THEN c[k] ELSE v
    BY <1>13, <1>14
  <1>19. d = Append(c, v) BY <1>15, <1>17, <1>18
  <1> QED BY <1>19 DEF c, d, v

(* What a finite set of entries holds is a sequence. *)
LEMMA ContentsSeq ==
    ASSUME NEW S, S \subseteq Int, IsFiniteSet(S), NEW t, NEW V, \A i \in S : Ent(t, i) \in V
    PROVE  \E m \in Nat : /\ Enumerates(Ascending(S), m, S)
                          /\ Collected(Contents(t, S), m, t, Ascending(S), V)
  <1> DEFINE s == Ascending(S)
  <1>1. PICK m \in Nat : Enumerates(s, m, S) BY Enumeration
  <1> HIDE DEF s
  <1>2. \A k \in 1 .. m : s[k] \in S BY <1>1 DEF Enumerates
  <1>3. Inside(m, t, s, V) BY <1>2 DEF Inside
  <1>4. Lists(Contents(t, S), m, t, s) BY <1>1, ContentsIs
  <1>5. Collected(Contents(t, S), m, t, s, V) BY <1>3, <1>4, ListsIs
  <1> QED BY <1>1, <1>5 DEF s

LEMMA ContentsSame ==
    ASSUME NEW S, S \subseteq Int, IsFiniteSet(S), NEW t, NEW u,
           \A y \in S : Ent(u, y) = Ent(t, y)
    PROVE  Contents(u, S) = Contents(t, S)
  <1> DEFINE s == Ascending(S)
             V == {Ent(t, i) : i \in S}
  <1>1. \A i \in S : Ent(t, i) \in V OBVIOUS
  <1> HIDE DEF V
  <1>2. PICK m \in Nat : Enumerates(s, m, S) /\ Collected(Contents(t, S), m, t, s, V)
    BY <1>1, ContentsSeq
  <1> HIDE DEF s
  <1>3. \A k \in 1 .. m : s[k] \in S BY <1>2 DEF Enumerates
  <1>4. Lists(Contents(u, S), m, u, s) /\ Lists(Contents(t, S), m, t, s) BY <1>2, ContentsIs
  <1>5. \A k \in 1 .. m : Ent(u, s[k]) = Ent(t, s[k]) BY <1>3
  <1> QED BY <1>4, <1>5 DEF Lists

(* d is c without the place that x has in S. *)
Shorter(c, d, S, x) ==
    \E p \in 1 .. Len(c) : Ascending(S)[p] = x /\ d = RemoveAt(c, p)

(* Without one of the entries, its place is gone. *)
LEMMA ContentsDrop ==
    ASSUME NEW S, S \subseteq Int, IsFiniteSet(S), NEW x \in S,
           NEW t, NEW u, \A y \in S \ {x} : Ent(u, y) = Ent(t, y)
    PROVE  Shorter(Contents(t, S), Contents(u, S \ {x}), S, x)
  <1> DEFINE s == Ascending(S)
             c == Contents(t, S)
             d == Contents(u, S \ {x})
             V == {Ent(t, i) : i \in S}
  <1>1. \A i \in S : Ent(t, i) \in V OBVIOUS
  <1> HIDE DEF V
  <1>2. PICK m \in Nat : Enumerates(s, m, S) /\ Collected(c, m, t, s, V) BY <1>1, ContentsSeq
  <1> HIDE DEF s, c
  <1>3. s \in [1 .. m -> S] /\ Increasing(s, m) /\ \A y \in S : \E k \in 1 .. m : s[k] = y
    BY <1>2 DEF Enumerates
  <1>4. c \in Seq(V) /\ Len(c) = m /\ \A k \in 1 .. m : c[k] = Ent(t, s[k]) BY <1>2 DEF Collected
  <1>5. PICK p \in 1 .. m : s[p] = x BY <1>3
  <1>6. m - 1 \in Nat /\ p \in Int OBVIOUS
  <1> DEFINE a == [k \in 1 .. m - 1 |-> IF k < p THEN s[k] ELSE s[k + 1]]
             next(k) == IF k < p THEN k ELSE k + 1
  <1>7. \A k \in 1 .. m - 1 : a[k] = s[next(k)] BY DEF next
  <1>8. \A k \in 1 .. m - 1 : next(k) \in 1 .. m /\ next(k) # p OBVIOUS
  <1>9. \A k, l \in 1 .. m - 1 : k < l => next(k) < next(l) OBVIOUS
  <1>10. \A l \in 1 .. m : l # p => \E k \in 1 .. m - 1 : next(k) = l
    <2> SUFFICES ASSUME NEW l \in 1 .. m, l # p PROVE \E k \in 1 .. m - 1 : next(k) = l
      OBVIOUS
    <2>1. CASE l < p
      <3>1. l \in 1 .. m - 1 /\ next(l) = l BY <2>1
      <3> QED BY <3>1
    <2>2. CASE l > p
      <3>1. l - 1 \in 1 .. m - 1 /\ next(l - 1) = l BY <2>2
      <3> QED BY <3>1
    <2> QED BY <2>1, <2>2
  <1>11. a = [k \in 1 .. m - 1 |-> a[k]] OBVIOUS
  <1>n. \A k \in 1 .. m - 1 : next(k) = IF k < p THEN k ELSE k + 1 OBVIOUS
  <1> HIDE DEF a, next
  <1>12. \A k, l \in 1 .. m : s[k] = s[l] => k = l
    <2> SUFFICES ASSUME NEW k \in 1 .. m, NEW l \in 1 .. m, k # l PROVE s[k] # s[l] OBVIOUS
    <2>1. s[k] \in Int /\ s[l] \in Int BY <1>3
    <2>2. k < l \/ l < k OBVIOUS
    <2>3. CASE k < l BY <1>3, <2>1, <2>3 DEF Increasing
    <2>4. CASE l < k BY <1>3, <2>1, <2>4 DEF Increasing
    <2> QED BY <2>2, <2>3, <2>4
  <1>13. \A k \in 1 .. m - 1 : a[k] \in S \ {x} BY <1>3, <1>5, <1>7, <1>8, <1>12
  <1>14. a \in [1 .. m - 1 -> S \ {x}] BY <1>11, <1>13
  <1>15. Increasing(a, m - 1) BY <1>3, <1>7, <1>8, <1>9 DEF Increasing
  <1>16. \A y \in S \ {x} : \E k \in 1 .. m - 1 : a[k] = y
    <2> SUFFICES ASSUME NEW y \in S \ {x} PROVE \E k \in 1 .. m - 1 : a[k] = y OBVIOUS
    <2>1. PICK l \in 1 .. m : s[l] = y BY <1>3
    <2>2. PICK k \in 1 .. m - 1 : next(k) = l BY <1>5, <1>10, <2>1
    <2> QED BY <1>7, <2>1, <2>2
  <1>17. Enumerates(a, m - 1, S \ {x}) BY <1>14, <1>15, <1>16 DEF Enumerates
  <1>18. Lists(d, m - 1, u, a)
    <2>1. S \ {x} \subseteq Int OBVIOUS
    <2> QED BY <1>6, <1>17, <2>1, ContentsIs
  <1> HIDE DEF d
  <1>19. \A k \in 1 .. m - 1 : Ent(u, a[k]) = c[next(k)] /\ Ent(u, a[k]) \in V
    <2> SUFFICES ASSUME NEW k \in 1 .. m - 1
                 PROVE  Ent(u, a[k]) = c[next(k)] /\ Ent(u, a[k]) \in V
      OBVIOUS
    <2>1. Ent(u, a[k]) = Ent(t, a[k]) /\ a[k] \in S BY <1>13
    <2>2. Ent(t, a[k]) = c[next(k)] BY <1>4, <1>7, <1>8
    <2> QED BY <1>1, <2>1, <2>2
  <1>20. Collected(d, m - 1, u, a, V)
    <2>1. Inside(m - 1, u, a, V) BY <1>19 DEF Inside
    <2> QED BY <1>6, <1>18, <2>1, ListsIs
  <1>21. d \in Seq(V) /\ Len(d) = m - 1 /\ \A k \in 1 .. m - 1 : d[k] = Ent(u, a[k])
    BY <1>20 DEF Collected
  <1>22. /\ RemoveAt(c, p) \in Seq(V) /\ Len(RemoveAt(c, p)) = m - 1
         /\ \A k \in 1 .. m - 1 : RemoveAt(c, p)[k] = IF k < p THEN c[k] ELSE c[k + 1]
    <2>1. p \in 1 .. Len(c) BY <1>4
    <2> QED BY <1>4, <2>1, RemoveAtIs
  <1>23. \A k \in 1 .. m - 1 : RemoveAt(c, p)[k] = d[k]
    <2> SUFFICES ASSUME NEW k \in 1 .. m - 1 PROVE RemoveAt(c, p)[k] = d[k] OBVIOUS
    <2>1. d[k] = c[next(k)] BY <1>19, <1>21
    <2>2. RemoveAt(c, p)[k] = c[next(k)] BY <1>22, <1>n
    <2> QED BY <2>1, <2>2
  <1>24. d = RemoveAt(c, p)
    <2> DEFINE e == RemoveAt(c, p)
    <2>1. e \in Seq(V) /\ Len(e) = m - 1 /\ \A k \in 1 .. m - 1 : e[k] = d[k] BY <1>22, <1>23
    <2> HIDE DEF e
    <2>2. d = e BY <1>6, <1>21, <2>1
    <2> QED BY <2>2 DEF e
  <1> QED BY <1>4, <1>5, <1>24 DEF c, d, s, Shorter

(* An entry that is moved, past no other, leaves them in order. *)
LEMMA ContentsMove ==
    ASSUME NEW S, S \subseteq Int, IsFiniteSet(S), NEW x \in S, NEW y \in Int, y <= x,
           \A z \in S \ {x} : z < y \/ x < z,
           NEW t, NEW u, Ent(u, y) = Ent(t, x), \A z \in S \ {x} : Ent(u, z) = Ent(t, z)
    PROVE  Contents(u, (S \ {x}) \cup {y}) = Contents(t, S)
  <1> DEFINE s == Ascending(S)
             T == (S \ {x}) \cup {y}
  <1>1. PICK m \in Nat : Enumerates(s, m, S) BY Enumeration
  <1>2. T \subseteq Int OBVIOUS
  <1>3. Lists(Contents(t, S), m, t, s) BY <1>1, ContentsIs
  <1> DEFINE a == [k \in 1 .. m |-> IF s[k] = x THEN y ELSE s[k]]
  <1>4. \A k \in 1 .. m : a[k] = IF s[k] = x THEN y ELSE s[k] OBVIOUS
  <1> HIDE DEF s
  <1>5. s \in [1 .. m -> S] /\ Increasing(s, m) /\ \A z \in S : \E k \in 1 .. m : s[k] = z
    BY <1>1 DEF Enumerates
  <1>6. a \in [1 .. m -> T] BY <1>5
  <1> HIDE DEF a
  <1>7. Increasing(a, m)
    <2> SUFFICES ASSUME NEW k \in 1 .. m, NEW l \in 1 .. m, k < l PROVE a[k] < a[l]
      BY DEF Increasing
    <2>1. /\ s[k] \in S /\ s[l] \in S /\ s[k] < s[l] /\ s[k] \in Int /\ s[l] \in Int /\ x \in Int
      BY <1>5 DEF Increasing
    <2>2. CASE s[k] = x
      <3>1. s[l] # x BY <2>1, <2>2
      <3>2. a[k] = y /\ a[l] = s[l] BY <1>4, <2>2, <3>1
      <3> QED BY <2>1, <2>2, <3>2
    <2>3. CASE s[l] = x
      <3>1. s[k] # x BY <2>1, <2>3
      <3>2. a[l] = y /\ a[k] = s[k] BY <1>4, <2>3, <3>1
      <3>3. s[k] < y BY <2>1, <2>3, <3>1
      <3> QED BY <3>2, <3>3
    <2>4. CASE s[k] # x /\ s[l] # x BY <1>4, <2>1, <2>4
    <2> QED BY <2>2, <2>3, <2>4
  <1>8. \A z \in T : \E k \in 1 .. m : a[k] = z
    <2> SUFFICES ASSUME NEW z \in T PROVE \E k \in 1 .. m : a[k] = z OBVIOUS
    <2>1. CASE z = y
      <3>1. PICK k \in 1 .. m : s[k] = x BY <1>5
      <3> QED BY <1>4, <2>1, <3>1
    <2>2. CASE z \in S \ {x}
      <3>1. PICK k \in 1 .. m : s[k] = z BY <1>5, <2>2
      <3> QED BY <1>4, <2>2, <3>1
    <2> QED BY <2>1, <2>2
  <1>9. Enumerates(a, m, T) BY <1>6, <1>7, <1>8 DEF Enumerates
  <1>10. Lists(Contents(u, T), m, u, a) BY <1>2, <1>9, ContentsIs
  <1>11. \A k \in 1 .. m : Ent(u, a[k]) = Ent(t, s[k])
    <2> SUFFICES ASSUME NEW k \in 1 .. m PROVE Ent(u, a[k]) = Ent(t, s[k]) OBVIOUS
    <2>1. s[k] \in S BY <1>5
    <2>2. CASE s[k] = x BY <1>4, <2>2
    <2>3. CASE s[k] # x BY <1>4, <2>1, <2>3
    <2> QED BY <2>2, <2>3
  <1>12. Contents(u, T) = Contents(t, S) BY <1>3, <1>10, <1>11 DEF Lists
  <1> QED BY <1>12

-----------------------------------------------------------------------------
(* The queue of a destination, step by step. *)

(* An entry that waits for d, now and after the step. *)
For(i, d) == InUse(i) /\ msgtable[i].dst = d

LEMMA WaitingIs ==
    ASSUME AsynInv, NEW d
    PROVE  /\ Waiting(d) \subseteq Int /\ IsFiniteSet(Waiting(d)) /\ Waiting(d) \subseteq Slot
           /\ \A i \in Int : i \in Waiting(d) <=> For(i, d)
  <1>1. Current \subseteq Slot /\ Slot \subseteq Int BY CurrentSlots DEF AsynInv, Slot
  <1>2. Waiting(d) \subseteq Slot BY <1>1 DEF Waiting
  <1>3. IsFiniteSet(Slot)
    <2>1. 0 \in Int /\ ASYN_NR - 1 \in Int BY AsynAssumption
    <2> QED BY <2>1, FS_Interval DEF Slot
  <1>4. IsFiniteSet(Waiting(d)) BY <1>2, <1>3, FS_Subset
  <1> QED BY <1>1, <1>2, <1>4 DEF Waiting, For, InUse

SameEntry(i) == Ent(msgtable', i) = Ent(msgtable, i)

(* A step that neither adds, removes nor changes an entry for d. *)
LEMMA QueueStays ==
    ASSUME AsynInv, AsynInv', NEW d,
           \A i \in Int : For(i, d)' <=> For(i, d), \A i \in Int : For(i, d) => SameEntry(i)
    PROVE  Queue(d)' = Queue(d)
  <1>1. /\ Waiting(d) \subseteq Int /\ IsFiniteSet(Waiting(d))
        /\ \A i \in Int : i \in Waiting(d) <=> For(i, d)
    BY WaitingIs
  <1>2. Waiting(d)' \subseteq Int /\ \A i \in Int : i \in Waiting(d)' <=> For(i, d)'
    <2>1. Current' \subseteq Int BY DEF Current
    <2> QED BY <2>1 DEF Waiting, For, InUse
  <1>3. Waiting(d)' = Waiting(d) BY <1>1, <1>2
  <1>4. \A i \in Waiting(d) : Ent(msgtable', i) = Ent(msgtable, i) BY <1>1 DEF SameEntry
  <1>5. Contents(msgtable', Waiting(d)) = Contents(msgtable, Waiting(d))
    BY <1>1, <1>4, ContentsSame
  <1> QED BY <1>3, <1>5 DEF Queue

LEMMA QueueAsynsend3 ==
    ASSUME AsynInv, NEW x \in Dst, NEW m \in Msg, NEW nr \in BOOLEAN, asynsend3(x, m, nr), NEW d
    PROVE  Queue(d)' = Queue(d) /\ alive' = alive
  <1>1. AsynInv' BY InvAsynsend3
  <1>2. \A i \in Int : InUse(i)' <=> InUse(i) BY Asynsend3InUse
  <1>3. msgtable' = msgtable /\ alive' = alive BY DEF asynsend3
  <1>4. \A i \in Int : (For(i, d)' <=> For(i, d)) /\ SameEntry(i) BY <1>2, <1>3 DEF For, SameEntry
  <1> QED BY <1>1, <1>3, <1>4, QueueStays

LEMMA QueueStop == ASSUME AsynInv, Stop, NEW d PROVE Queue(d)' = Queue(d) /\ alive' = alive
  <1>1. AsynInv' BY InvStop
  <1>2. first_slot \in Nat /\ next_slot \in Nat BY Numbers DEF AsynInv
  <1>3. msgtable' = msgtable /\ alive' = alive BY DEF Stop
  <1>4. Current' = Current
    <2>1. Current = first_slot .. next_slot - 1 BY DEF Stop, Current
    <2>2. Current' = (0 .. 0 - 1) \cup (first_slot .. next_slot - 1) BY DEF Stop, Current
    <2>3. 0 .. 0 - 1 = {} OBVIOUS
    <2> QED BY <2>1, <2>2, <2>3
  <1>5. \A i \in Int : (For(i, d)' <=> For(i, d)) /\ SameEntry(i)
    BY <1>3, <1>4 DEF For, InUse, SameEntry
  <1> QED BY <1>1, <1>3, <1>5, QueueStays

LEMMA QueueCopyEnd == ASSUME AsynInv, CopyEnd, NEW d PROVE Queue(d)' = Queue(d) /\ alive' = alive
  <1>1. AsynInv' BY InvCopyEnd
  <1>2. dst_ind \in Nat /\ next_slot \in Nat BY Numbers DEF AsynInv
  <1>3. msgtable' = msgtable /\ alive' = alive BY DEF CopyEnd
  <1>4. Current' = Current
    <2>1. Current = (0 .. dst_ind - 1) \cup (next_slot .. next_slot - 1) BY DEF CopyEnd, Current
    <2>2. next_slot .. next_slot - 1 = {} BY <1>2
    <2>3. Current' = 0 .. dst_ind - 1 BY DEF CopyEnd, Current
    <2> QED BY <2>1, <2>2, <2>3
  <1>5. \A i \in Int : (For(i, d)' <=> For(i, d)) /\ SameEntry(i)
    BY <1>3, <1>4 DEF For, InUse, SameEntry
  <1> QED BY <1>1, <1>3, <1>5, QueueStays

(* The entry that is being written is not one that anybody is to receive.   *)
LEMMA QueueWrite ==
    ASSUME AsynInv, WriteDst \/ WriteMsg, NEW d
    PROVE  Queue(d)' = Queue(d) /\ alive' = alive
  <1>1. AsynInv' BY InvWriteDst, InvWriteMsg
  <1>2. first_slot \in Nat /\ next_slot \in Nat BY Numbers DEF AsynInv
  <1>3. /\ pc \in {"dst", "msg"} /\ pc' # "copy" /\ alive' = alive
        /\ UNCHANGED <<first_slot, next_slot>>
    BY DEF WriteDst, WriteMsg
  <1>4. \A i \in Slot : i # next_slot => msgtable'[i] = msgtable[i]
    <2>1. msgtable \in [Slot -> Row] BY Numbers DEF AsynInv
    <2> QED BY <2>1 DEF WriteDst, WriteMsg
  <1>5. Current' = Current /\ Current = first_slot .. next_slot - 1 BY <1>3 DEF Current
  <1>6. next_slot \notin Current /\ Current \subseteq Slot
    BY <1>2, <1>5, CurrentSlots DEF AsynInv
  <1>7. \A i \in Int : i \in Current => msgtable'[i] = msgtable[i] BY <1>4, <1>6
  <1>8. \A i \in Int : (For(i, d)' <=> For(i, d)) /\ (For(i, d) => SameEntry(i))
    BY <1>5, <1>7 DEF For, InUse, SameEntry, Ent
  <1> QED BY <1>1, <1>3, <1>8, QueueStays

(* An entry that is moved stays in its place in the queue. *)
LEMMA QueueCopy == ASSUME AsynInv, Copy, NEW d PROVE Queue(d)' = Queue(d) /\ alive' = alive
  <1>1. AsynInv' BY InvCopy
  <1>2. /\ src_ind \in Nat /\ dst_ind \in Nat /\ next_slot \in Nat /\ ASYN_NR \in Nat
        /\ next_slot <= ASYN_NR /\ msgtable \in [Slot -> Row]
    BY Numbers DEF AsynInv
  <1>3. pc = "copy" /\ pc' = "copy" /\ dst_ind <= src_ind /\ src_ind < next_slot
    BY DEF Copy, AsynInv, MoveInv
  <1>4. alive' = alive /\ next_slot' = next_slot /\ src_ind' = src_ind + 1 BY DEF Copy
  <1>5. /\ Current = (0 .. dst_ind - 1) \cup (src_ind .. next_slot - 1)
        /\ Current' = (0 .. dst_ind' - 1) \cup (src_ind + 1 .. next_slot - 1)
    BY <1>3, <1>4 DEF Current
  <1>6. CASE ~Pending(msgtable[src_ind])
    <2>1. msgtable' = msgtable /\ dst_ind' = dst_ind BY <1>6 DEF Copy
    <2>2. \A i \in Int : i # src_ind => (i \in Current' <=> i \in Current) BY <1>2, <1>3, <1>5, <2>1
    <2>3. \A i \in Int : InUse(i)' <=> InUse(i)
      <3> SUFFICES ASSUME NEW i \in Int PROVE InUse(i)' <=> InUse(i) OBVIOUS
      <3>1. CASE i = src_ind BY <1>6, <2>1, <3>1 DEF InUse
      <3>2. CASE i # src_ind BY <2>1, <2>2, <3>2 DEF InUse
      <3> QED BY <3>1, <3>2
    <2>4. \A i \in Int : (For(i, d)' <=> For(i, d)) /\ SameEntry(i)
      BY <2>1, <2>3 DEF For, SameEntry
    <2> QED BY <1>1, <1>4, <2>4, QueueStays
  <1>7. CASE Pending(msgtable[src_ind])
    <2>1. /\ msgtable' = [msgtable EXCEPT ![dst_ind] = msgtable[src_ind]]
          /\ dst_ind' = dst_ind + 1
      BY <1>7 DEF Copy
    <2>2. src_ind \in Slot /\ dst_ind \in Slot BY <1>2, <1>3 DEF Slot
    <2>3. /\ msgtable'[dst_ind] = msgtable[src_ind]
          /\ \A i \in Slot : i # dst_ind => msgtable'[i] = msgtable[i]
      BY <1>2, <2>1, <2>2
    <2>4. Current \subseteq Slot BY CurrentSlots DEF AsynInv
    <2>5. /\ src_ind \in Current /\ dst_ind \in Current'
          /\ \A i \in Current : i # src_ind => i < dst_ind \/ src_ind < i
          /\ \A i \in Int : i \in Current' <=> (i = dst_ind \/ (i \in Current /\ i # src_ind))
      BY <1>2, <1>3, <1>5, <2>1
    <2>6. \A i \in Int : (i \in Current /\ i # src_ind) => i # dst_ind /\ msgtable'[i] = msgtable[i]
      <3> SUFFICES ASSUME NEW i \in Int, i \in Current, i # src_ind
                   PROVE  i # dst_ind /\ msgtable'[i] = msgtable[i]
        OBVIOUS
      <3>1. i < dst_ind \/ src_ind < i BY <2>5
      <3>2. i # dst_ind BY <1>2, <1>3, <3>1
      <3> QED BY <2>3, <2>4, <3>2
    <2>7. \A i \in Int : For(i, d)' <=> \/ i = dst_ind /\ For(src_ind, d)
                                        \/ i # src_ind /\ For(i, d)
      <3> SUFFICES ASSUME NEW i \in Int
                   PROVE  For(i, d)' <=> \/ i = dst_ind /\ For(src_ind, d)
                                         \/ i # src_ind /\ For(i, d)
        OBVIOUS
      <3>1. For(src_ind, d) <=> msgtable[src_ind].dst = d BY <1>7, <2>5 DEF For, InUse
      <3>2. CASE i = dst_ind
        <4>1. For(i, d)' <=> msgtable[src_ind].dst = d BY <1>7, <2>3, <2>5, <3>2 DEF For, InUse
        <4>2. (i # src_ind /\ For(i, d)) => FALSE BY <2>6, <3>2 DEF For, InUse
        <4> QED BY <3>1, <3>2, <4>1, <4>2
      <3>3. CASE i # dst_ind
        <4>1. CASE i \in Current /\ i # src_ind BY <2>5, <2>6, <3>3, <4>1 DEF For, InUse
        <4>2. CASE ~(i \in Current /\ i # src_ind) BY <2>5, <3>3, <4>2 DEF For, InUse
        <4> QED BY <4>1, <4>2
      <3> QED BY <3>2, <3>3
    <2>8. \A i \in Int : (For(i, d) /\ i # src_ind) => SameEntry(i)
      BY <2>6 DEF For, InUse, SameEntry, Ent
    <2>w. /\ Waiting(d) \subseteq Int /\ IsFiniteSet(Waiting(d))
          /\ \A i \in Int : i \in Waiting(d) <=> For(i, d)
      BY WaitingIs
    <2>v. Waiting(d)' \subseteq Int /\ \A i \in Int : i \in Waiting(d)' <=> For(i, d)'
      <3>1. Current' \subseteq Int BY DEF Current
      <3> QED BY <3>1 DEF Waiting, For, InUse
    <2>9. CASE For(src_ind, d)
      <3>1. src_ind \in Waiting(d) /\ dst_ind \in Int BY <1>2, <2>9, <2>w
      <3>2. Waiting(d)' = (Waiting(d) \ {src_ind}) \cup {dst_ind}
        <4>1. \A i \in Int : i \in Waiting(d)' <=> i \in (Waiting(d) \ {src_ind}) \cup {dst_ind}
          BY <2>7, <2>9, <2>v, <2>w
        <4>2. (Waiting(d) \ {src_ind}) \cup {dst_ind} \subseteq Int BY <2>w, <3>1
        <4> QED BY <2>v, <4>1, <4>2
      <3>3. \A z \in Waiting(d) \ {src_ind} : z < dst_ind \/ src_ind < z
        BY <2>5, <2>w DEF Waiting
      <3>4. Ent(msgtable', dst_ind) = Ent(msgtable, src_ind) BY <2>3 DEF Ent
      <3>5. \A z \in Waiting(d) \ {src_ind} : Ent(msgtable', z) = Ent(msgtable, z)
        BY <2>8, <2>w DEF SameEntry
      <3>6. Contents(msgtable', (Waiting(d) \ {src_ind}) \cup {dst_ind})
            = Contents(msgtable, Waiting(d))
        BY <1>3, <2>w, <3>1, <3>3, <3>4, <3>5, ContentsMove
      <3> QED BY <1>4, <3>2, <3>6 DEF Queue
    <2>10. CASE ~For(src_ind, d)
      <3>1. \A i \in Int : (For(i, d)' <=> For(i, d)) /\ (For(i, d) => SameEntry(i))
        BY <2>7, <2>8, <2>10
      <3> QED BY <1>1, <1>4, <3>1, QueueStays
    <2> QED BY <2>9, <2>10
  <1> QED BY <1>6, <1>7

(* Writing the flags sends the message. *)
LEMMA QueueWriteFlags ==
    ASSUME AsynInv, WriteFlags
    PROVE  /\ arg.dst \in Dst /\ arg.msg \in Msg /\ arg.noreply \in BOOLEAN /\ alive' = alive
           /\ \A d \in Dst : d # arg.dst => Queue(d)' = Queue(d)
           /\ \A d \in Dst : d = arg.dst =>
                 Queue(d)' = Append(Queue(d), [msg |-> arg.msg, noreply |-> arg.noreply])
  <1>1. AsynInv' BY InvWriteFlags
  <1>2. /\ next_slot \in Slot
        /\ \A i \in Slot : i # next_slot => msgtable'[i] = msgtable[i]
        /\ Pending(msgtable'[next_slot])
        /\ msgtable'[next_slot].dst = arg.dst /\ msgtable'[next_slot].msg = arg.msg
        /\ msgtable'[next_slot].noreply = arg.noreply
        /\ arg.dst \in Dst /\ arg.msg \in Msg /\ arg.noreply \in BOOLEAN
        /\ Current = first_slot .. next_slot - 1 /\ Current' = first_slot .. next_slot
    BY FlagsWritten
  <1>3. first_slot \in Nat /\ next_slot \in Nat /\ first_slot <= next_slot BY Numbers DEF AsynInv
  <1>4. /\ next_slot \in Current' /\ \A i \in Current : i < next_slot
        /\ \A i \in Int : i # next_slot => (i \in Current' <=> i \in Current)
        /\ Current \subseteq Slot
    BY <1>2, <1>3, CurrentSlots DEF AsynInv
  <1>5. \A i \in Int : i \in Current => i # next_slot /\ msgtable'[i] = msgtable[i]
    <2> SUFFICES ASSUME NEW i \in Int, i \in Current
                 PROVE  i # next_slot /\ msgtable'[i] = msgtable[i]
      OBVIOUS
    <2>1. i < next_slot /\ i \in Slot BY <1>4
    <2>2. i # next_slot BY <1>3, <2>1
    <2> QED BY <1>2, <2>1, <2>2
  <1>6. ASSUME NEW d \in Dst, NEW i \in Int
        PROVE  /\ For(i, d)' <=> (For(i, d) \/ (i = next_slot /\ d = arg.dst))
               /\ For(i, d) => SameEntry(i)
    <2>1. CASE i = next_slot
      <3>1. For(i, d)' <=> d = arg.dst BY <1>2, <1>4, <2>1 DEF For, InUse
      <3>2. ~For(i, d) BY <1>5, <2>1 DEF For, InUse
      <3> QED BY <2>1, <3>1, <3>2
    <2>2. CASE i # next_slot BY <1>4, <1>5, <2>2 DEF For, InUse, SameEntry, Ent
    <2> QED BY <2>1, <2>2
  <1>7. ASSUME NEW d \in Dst, d # arg.dst PROVE Queue(d)' = Queue(d)
    <2>1. \A i \in Int : (For(i, d)' <=> For(i, d)) /\ (For(i, d) => SameEntry(i))
      BY <1>6, <1>7
    <2> QED BY <1>1, <2>1, QueueStays
  <1>8. ASSUME NEW d \in Dst, d = arg.dst
        PROVE  Queue(d)' = Append(Queue(d), [msg |-> arg.msg, noreply |-> arg.noreply])
    <2>1. /\ Waiting(d) \subseteq Int /\ IsFiniteSet(Waiting(d))
          /\ \A i \in Int : i \in Waiting(d) <=> For(i, d)
      BY WaitingIs
    <2>2. Waiting(d)' \subseteq Int /\ \A i \in Int : i \in Waiting(d)' <=> For(i, d)'
      <3>1. Current' \subseteq Int BY DEF Current
      <3> QED BY <3>1 DEF Waiting, For, InUse
    <2>3. next_slot \in Int BY <1>3
    <2>4. Waiting(d)' = Waiting(d) \cup {next_slot}
      <3>1. \A i \in Int : i \in Waiting(d)' <=> i \in Waiting(d) \cup {next_slot}
        BY <1>6, <1>8, <2>1, <2>2
      <3> QED BY <2>1, <2>2, <2>3, <3>1
    <2>5. \A y \in Waiting(d) : y < next_slot BY <1>4 DEF Waiting
    <2>6. \A y \in Waiting(d) : Ent(msgtable', y) = Ent(msgtable, y)
      BY <1>6, <2>1 DEF SameEntry
    <2>7. Contents(msgtable', Waiting(d) \cup {next_slot})
          = Append(Contents(msgtable, Waiting(d)), Ent(msgtable', next_slot))
      BY ZenonT(60), <2>1, <2>3, <2>5, <2>6, ContentsAdd
    <2>8. Ent(msgtable', next_slot) = [msg |-> arg.msg, noreply |-> arg.noreply]
      BY <1>2 DEF Ent
    <2> QED BY <2>4, <2>7, <2>8 DEF Queue
  <1>9. alive' = alive BY DEF WriteFlags
  <1> QED BY <1>2, <1>7, <1>8, <1>9

(* d takes the first entry for it that it may take, or none. *)
LEMMA QueueTake ==
    ASSUME AsynInv, AsynInv', NEW d, NEW rep \in BOOLEAN,
           NEW x \in Int, For(x, d), ~(rep /\ msgtable[x].noreply),
           \A j \in Int : (For(j, d) /\ ~(rep /\ msgtable[j].noreply)) => x <= j,
           \A i \in Int : For(i, d)' <=> (For(i, d) /\ i # x),
           \A i \in Int : For(i, d) => SameEntry(i)
    PROVE  \E p \in Channel!Takes(Queue(d), rep) : Queue(d)' = RemoveAt(Queue(d), p)
  <1> DEFINE S == Waiting(d)
             s == Ascending(S)
             c == Contents(msgtable, S)
             V == {Ent(msgtable, i) : i \in S}
  <1>1. S \subseteq Int /\ IsFiniteSet(S) /\ \A i \in Int : i \in S <=> For(i, d)
    BY WaitingIs
  <1>2. Waiting(d)' \subseteq Int /\ \A i \in Int : i \in Waiting(d)' <=> For(i, d)'
    <2>1. Current' \subseteq Int BY DEF Current
    <2> QED BY <2>1 DEF Waiting, For, InUse
  <1>q. Queue(d) = c /\ Queue(d)' = Contents(msgtable', Waiting(d)') BY DEF Queue
  <1> HIDE DEF S
  <1>3. Waiting(d)' = S \ {x} /\ x \in S
    <2>1. \A i \in Int : i \in Waiting(d)' <=> i \in S \ {x} BY <1>1, <1>2
    <2> QED BY <1>1, <1>2, <2>1
  <1>4. \A i \in S : Ent(msgtable, i) \in V OBVIOUS
  <1> HIDE DEF V
  <1>5. PICK m \in Nat : Enumerates(s, m, S) /\ Collected(c, m, msgtable, s, V)
    BY <1>1, <1>4, ContentsSeq
  <1>6. \A y \in S \ {x} : Ent(msgtable', y) = Ent(msgtable, y) BY <1>1 DEF SameEntry
  <1>7. PICK p \in 1 .. Len(c) : s[p] = x /\ Contents(msgtable', S \ {x}) = RemoveAt(c, p)
    <2>1. Shorter(c, Contents(msgtable', S \ {x}), S, x) BY <1>1, <1>3, <1>6, ContentsDrop
    <2> HIDE DEF c
    <2> QED BY <2>1 DEF Shorter
  <1> HIDE DEF s, c
  <1>8. s \in [1 .. m -> S] /\ Increasing(s, m) BY <1>5 DEF Enumerates
  <1>9. c \in Seq(V) /\ Len(c) = m /\ \A k \in 1 .. m : c[k] = Ent(msgtable, s[k])
    BY <1>5 DEF Collected
  <1>10. DOMAIN c = 1 .. m /\ p \in 1 .. m BY <1>9
  <1>11. \A k \in 1 .. m : c[k].noreply = msgtable[s[k]].noreply BY <1>9 DEF Ent
  <1>12. ~(rep /\ c[p].noreply) BY <1>7, <1>10, <1>11
  <1>13. ASSUME NEW j \in 1 .. m, ~(rep /\ c[j].noreply) PROVE p <= j
    <2>1. s[j] \in Int /\ For(s[j], d) BY <1>1, <1>8
    <2>2. x <= s[j] BY <1>11, <1>13, <2>1
    <2>3. CASE j < p
      <3>1. s[j] < s[p] BY <1>8, <1>10, <2>3 DEF Increasing
      <3> QED BY <1>7, <2>1, <2>2, <3>1
    <2> QED BY <1>10, <2>3
  <1>14. p \in Channel!Takes(c, rep)
    <2> DEFINE P == {i \in DOMAIN c : ~(rep /\ c[i].noreply)}
    <2>1. Channel!Takes(c, rep) = {i \in P : \A j \in P : i <= j} BY DEF Channel!Takes
    <2>2. p \in P BY <1>10, <1>12
    <2>3. \A j \in P : p <= j BY <1>10, <1>13
    <2> QED BY <2>1, <2>2, <2>3
  <1>15. Queue(d)' = RemoveAt(c, p) BY <1>3, <1>7, <1>q
  <1> QED BY <1>14, <1>15, <1>q

(* The queue of a process that is not alive is dropped. *)
LEMMA QueueDrop ==
    ASSUME NEW d, \A i \in Int : ~For(i, d)' PROVE Queue(d)' = <<>>
  <1>1. Waiting(d)' = {}
    <2>1. Current' \subseteq Int BY DEF Current
    <2> QED BY <2>1 DEF Waiting, For, InUse
  <1>2. Queue(d)' = Contents(msgtable', Waiting(d)') BY DEF Queue
  <1> QED BY <1>1, <1>2, ContentsOfNone

(* The kernel marks the entries D as done. *)
LEMMA DoneFor ==
    ASSUME AsynInv, NEW D, msgtable' = Done(msgtable, D), Current' = Current, NEW d, NEW i \in Int
    PROVE  (For(i, d)' <=> (For(i, d) /\ i \notin D)) /\ (For(i, d) => SameEntry(i))
  <1>1. msgtable \in [Slot -> Row] /\ Current \subseteq Slot BY Numbers, CurrentSlots DEF AsynInv
  <1>2. CASE i \in Current
    <2>1. /\ msgtable'[i].dst = msgtable[i].dst /\ msgtable'[i].msg = msgtable[i].msg
          /\ msgtable'[i].noreply = msgtable[i].noreply
          /\ Pending(msgtable'[i]) <=> (Pending(msgtable[i]) /\ i \notin D)
      BY <1>1, <1>2, DoneIs
    <2> QED BY <1>2, <2>1 DEF For, InUse, SameEntry, Ent
  <1>3. CASE i \notin Current BY <1>3 DEF For, InUse
  <1> QED BY <1>2, <1>3

(* The step of AsyncChannel that a destination sees when the kernel looks   *)
(* at the table.                                                            *)
TakeBy(d, rep) ==
    \/ Queue(d)' = Queue(d)
    \/ d \notin alive /\ Queue(d)' = <<>>
    \/ d \in alive /\ \E p \in Channel!Takes(Queue(d), rep) : Queue(d)' = RemoveAt(Queue(d), p)

(* Marking what Found gives, among slots that hold the oldest entries.      *)
LEMMA TakeFound ==
    ASSUME AsynInv, AsynInv', NEW d \in alive, NEW rep \in BOOLEAN, NEW D,
           msgtable' = Done(msgtable, D), Current' = Current, NEW S, S \subseteq Slot,
           \A i \in Int : (i \in S /\ Pending(msgtable[i])) => InUse(i),
           \A i, j \in Int : (InUse(i) /\ i \notin S /\ j \in S /\ Pending(msgtable[j])) => j < i,
           \A i \in Int : For(i, d) => (i \in D <=> i \in Found(msgtable, S, d, rep))
    PROVE  TakeBy(d, rep)
  <1> DEFINE F == Found(msgtable, S, d, rep)
             G == {i \in S : Pending(msgtable[i]) /\ msgtable[i].dst = d
                             /\ ~(rep /\ msgtable[i].noreply)}
  <1>1. F = {i \in G : \A j \in G : i <= j} BY DEF Found, First
  <1>2. Slot \subseteq Int BY DEF Slot
  <1>3. \A i \in G : i \in Int /\ For(i, d) /\ ~(rep /\ msgtable[i].noreply) BY <1>2 DEF For
  <1>4. \A i \in Int : (For(i, d)' <=> (For(i, d) /\ i \notin F)) /\ (For(i, d) => SameEntry(i))
    <2> SUFFICES ASSUME NEW i \in Int
                 PROVE  (For(i, d)' <=> (For(i, d) /\ i \notin F)) /\ (For(i, d) => SameEntry(i))
      OBVIOUS
    <2>1. (For(i, d)' <=> (For(i, d) /\ i \notin D)) /\ (For(i, d) => SameEntry(i)) BY DoneFor
    <2>2. For(i, d) => (i \in D <=> i \in F) OBVIOUS
    <2> QED BY <2>1, <2>2
  <1>5. \A j \in Int : (For(j, d) /\ j \in S /\ ~(rep /\ msgtable[j].noreply)) => j \in G
    BY DEF For, InUse
  <1> HIDE DEF F, G
  <1>6. CASE F = {}
    <2>1. \A i \in Int : (For(i, d)' <=> For(i, d)) /\ (For(i, d) => SameEntry(i)) BY <1>4, <1>6
    <2> QED BY <2>1, QueueStays DEF TakeBy
  <1>7. CASE F # {}
    <2>1. PICK x \in F : TRUE BY <1>7
    <2>2. x \in G /\ x \in Int /\ For(x, d) /\ ~(rep /\ msgtable[x].noreply) BY <1>1, <1>3
    <2>3. \A i \in F : i = x
      <3> SUFFICES ASSUME NEW i \in F PROVE i = x OBVIOUS
      <3>1. i \in G /\ i \in Int /\ i <= x /\ x <= i BY <1>1, <1>3, <2>1, <2>2
      <3> QED BY <2>2, <3>1
    <2>4. ASSUME NEW j \in Int, For(j, d), ~(rep /\ msgtable[j].noreply) PROVE x <= j
      <3>1. CASE j \in S BY <1>1, <1>5, <2>1, <2>4, <3>1
      <3>2. CASE j \notin S
        <4>1. x \in S /\ Pending(msgtable[x]) BY <2>2 DEF G
        <4>2. InUse(j) BY <2>4 DEF For
        <4>3. x < j BY <2>2, <3>2, <4>1, <4>2
        <4> QED BY <2>2, <4>3
      <3> QED BY <3>1, <3>2
    <2>5. \A i \in Int : For(i, d)' <=> (For(i, d) /\ i # x) BY <1>4, <2>1, <2>3
    <2>6. \A i \in Int : For(i, d) => SameEntry(i) BY <1>4
    <2>7. \E p \in Channel!Takes(Queue(d), rep) : Queue(d)' = RemoveAt(Queue(d), p)
      BY <2>2, <2>4, <2>5, <2>6, QueueTake
    <2> QED BY <2>7 DEF TakeBy
  <1> QED BY <1>6, <1>7

LEMMA TakeTryOne ==
    ASSUME AsynInv, NEW d \in Dst, NEW replying \in BOOLEAN, try_one(d, replying), NEW e \in Dst
    PROVE  TakeBy(e, replying) /\ alive' = alive
  <1> DEFINE F == Found(msgtable, Covered, d, replying)
  <1>1. AsynInv' BY InvTryOne
  <1>2. /\ d \in alive /\ Covered \subseteq Slot /\ msgtable' = Done(msgtable, F)
        /\ Current' = Current /\ alive' = alive
    BY TryOneDoes
  <1>3. CASE e = d
    <2>1. \A i \in Int : (i \in Covered /\ Pending(msgtable[i])) => InUse(i)
      BY DEF AsynInv, CoverInv, Seen
    <2>2. \A i, j \in Int : (InUse(i) /\ i \notin Covered /\ j \in Covered /\ Pending(msgtable[j])) => j < i
      BY DEF AsynInv, CoverInv, Seen
    <2>3. TakeBy(d, replying) BY <1>1, <1>2, <2>1, <2>2, TakeFound
    <2> QED BY <1>2, <1>3, <2>3
  <1>4. CASE e # d
    <2>1. \A i \in F : msgtable[i].dst = d BY DEF Found, First
    <2> HIDE DEF F
    <2>2. \A i \in Int : (For(i, e)' <=> (For(i, e) /\ i \notin F)) /\ (For(i, e) => SameEntry(i))
      BY <1>2, DoneFor
    <2>3. \A i \in Int : For(i, e) => i \notin F BY <1>4, <2>1 DEF For
    <2>4. \A i \in Int : (For(i, e)' <=> For(i, e)) /\ (For(i, e) => SameEntry(i)) BY <2>2, <2>3
    <2>5. Queue(e)' = Queue(e) BY <1>1, <2>4, QueueStays
    <2> QED BY <1>2, <2>5 DEF TakeBy
  <1> QED BY <1>3, <1>4

LEMMA TakeSenda ==
    ASSUME AsynInv, NEW w \in SUBSET Dst, NEW r \in SUBSET w, Senda(w, r), NEW e \in Dst
    PROVE  TakeBy(e, e \in r) /\ alive' = alive
  <1> DEFINE D == Gone(Current, w, r)
  <1>1. AsynInv' BY InvSenda
  <1>2. /\ Current \subseteq Slot /\ msgtable' = Done(msgtable, D)
        /\ Current' = Current /\ alive' = alive
    BY SendaDoes
  <1>3. \A i \in D : \/ msgtable[i].dst \notin alive
                     \/ \E d \in w \cap alive : i \in Found(msgtable, Current, d, d \in r)
    BY DEF Gone
  <1>4. \A d \in w \cap alive : Found(msgtable, Current, d, d \in r) \subseteq D BY DEF Gone
  <1>5. \A i \in Int : (InUse(i) /\ msgtable[i].dst \notin alive) => i \in D BY DEF Gone, InUse
  <1>6. \A d : \A i \in Found(msgtable, Current, d, d \in r) : msgtable[i].dst = d
    BY DEF Found, First
  <1> HIDE DEF D
  <1>7. \A i \in Int : (For(i, e)' <=> (For(i, e) /\ i \notin D)) /\ (For(i, e) => SameEntry(i))
    BY <1>2, DoneFor
  <1>8. CASE e \notin alive
    <2>1. \A i \in Int : ~For(i, e)' BY <1>5, <1>7, <1>8 DEF For
    <2> QED BY <1>2, <1>8, <2>1, QueueDrop DEF TakeBy
  <1>9. CASE e \in alive /\ e \in w
    <2>1. ASSUME NEW i \in Int, For(i, e)
          PROVE  i \in D <=> i \in Found(msgtable, Current, e, e \in r)
      <3>1. msgtable[i].dst = e BY <2>1 DEF For
      <3>2. i \in D => i \in Found(msgtable, Current, e, e \in r) BY <1>3, <1>6, <1>9, <3>1
      <3>3. i \in Found(msgtable, Current, e, e \in r) => i \in D BY <1>4, <1>9
      <3> QED BY <3>2, <3>3
    <2>2. \A i \in Int : (i \in Current /\ Pending(msgtable[i])) => InUse(i) BY DEF InUse
    <2>3. \A i, j \in Int : (InUse(i) /\ i \notin Current /\ j \in Current /\ Pending(msgtable[j])) => j < i
      BY DEF InUse
    <2>4. (e \in r) \in BOOLEAN OBVIOUS
    <2>5. TakeBy(e, e \in r) BY <1>1, <1>2, <1>9, <2>1, <2>2, <2>3, <2>4, TakeFound
    <2> QED BY <1>2, <2>5
  <1>10. CASE e \in alive /\ e \notin w
    <2>1. \A i \in Int : For(i, e) => i \notin D BY <1>3, <1>6, <1>10 DEF For
    <2>2. \A i \in Int : (For(i, e)' <=> For(i, e)) /\ (For(i, e) => SameEntry(i)) BY <1>7, <2>1
    <2>3. Queue(e)' = Queue(e) BY <1>1, <2>2, QueueStays
    <2> QED BY <1>2, <2>3 DEF TakeBy
  <1> QED BY <1>8, <1>9, <1>10

LEMMA ChannelTake ==
    ASSUME NEW rep \in [Dst -> BOOLEAN], \A d \in Dst : TakeBy(d, rep[d]), alive' = alive
    PROVE  Channel!Take
  <1> DEFINE chan == [d \in Dst |-> Queue(d)]
  <1>1. DOMAIN chan' = Dst OBVIOUS
  <1>2. \A d \in Dst : chan[d] = Queue(d) /\ chan'[d] = Queue(d)' OBVIOUS
  <1>3. \A q, n : Channel!RemoveAt(q, n) = RemoveAt(q, n) BY DEF Channel!RemoveAt, RemoveAt
  <1>4. \A d \in Dst :
            \/ chan'[d] = chan[d]
            \/ d \notin alive /\ chan'[d] = <<>>
            \/ d \in alive /\ \E i \in Channel!Takes(chan[d], rep[d]) :
                                 chan'[d] = Channel!RemoveAt(chan[d], i)
    BY <1>2, <1>3, Zenon DEF TakeBy
  <1>5. /\ \E replying \in [Dst -> BOOLEAN] :
              \A d \in Dst :
                 \/ chan'[d] = chan[d]
                 \/ d \notin alive /\ chan'[d] = <<>>
                 \/ d \in alive /\ \E i \in Channel!Takes(chan[d], replying[d]) :
                                      chan'[d] = Channel!RemoveAt(chan[d], i)
    BY <1>4, Zenon
  <1> QED BY <1>1, <1>5, Zenon DEF Channel!Take

(* A step that changes no queue and no destination. *)
LEMMA ChannelStays ==
    ASSUME \A d \in Dst : Queue(d)' = Queue(d), alive' = alive
    PROVE  UNCHANGED <<[d \in Dst |-> Queue(d)], alive>>
  OBVIOUS

LEMMA ChannelSend ==
    ASSUME AsynInv, WriteFlags
    PROVE  \E d \in Dst, e \in Channel!Entry : Channel!Send(d, e)
  <1> DEFINE chan == [d \in Dst |-> Queue(d)]
             x == arg.dst
             e == [msg |-> arg.msg, noreply |-> arg.noreply]
  <1>1. x \in Dst /\ e \in Channel!Entry /\ alive' = alive
    BY QueueWriteFlags DEF Channel!Entry
  <1>2. \A d \in Dst : d # x => Queue(d)' = Queue(d) BY QueueWriteFlags
  <1>3. \A d \in Dst : d = x => Queue(d)' = Append(Queue(d), e) BY QueueWriteFlags
  <1> HIDE DEF x, e
  <1>4. chan' = [chan EXCEPT ![x] = Append(chan[x], e)] BY <1>1, <1>2, <1>3
  <1>5. Channel!Send(x, e) BY <1>1, <1>4 DEF Channel!Send
  <1> QED BY <1>1, <1>5

LEMMA ChannelInit == ASSUME Init PROVE Channel!Init
  <1>1. Current = {} BY DEF Init, Current
  <1>2. \A d \in Dst : Waiting(d) = {} BY <1>1 DEF Waiting
  <1>3. \A d \in Dst : Queue(d) = <<>> BY <1>2, ContentsOfNone DEF Queue
  <1>4. alive \in SUBSET Dst BY DEF Init
  <1> QED BY <1>3, <1>4 DEF Channel!Init

LEMMA ChannelStep ==
    ASSUME AsynInv, [Next]_vars
    PROVE  [Channel!Next]_<<[d \in Dst |-> Queue(d)], alive>>
  <1>1. CASE \E d \in Dst, m \in Msg, nr \in BOOLEAN : asynsend3(d, m, nr)
    <2>1. (\A d \in Dst : Queue(d)' = Queue(d)) /\ alive' = alive BY <1>1, QueueAsynsend3
    <2> QED BY <2>1, ChannelStays
  <1>2. CASE Stop
    <2>1. (\A d \in Dst : Queue(d)' = Queue(d)) /\ alive' = alive
      BY <1>2, QueueStop DEF Stop
    <2> QED BY <2>1, ChannelStays
  <1>3. CASE Copy
    <2>1. (\A d \in Dst : Queue(d)' = Queue(d)) /\ alive' = alive
      BY <1>3, QueueCopy DEF Copy
    <2> QED BY <2>1, ChannelStays
  <1>4. CASE CopyEnd
    <2>1. (\A d \in Dst : Queue(d)' = Queue(d)) /\ alive' = alive
      BY <1>4, QueueCopyEnd DEF CopyEnd
    <2> QED BY <2>1, ChannelStays
  <1>5. CASE WriteDst \/ WriteMsg
    <2>1. \A d \in Dst : Queue(d)' = Queue(d) BY <1>5, QueueWrite
    <2>2. alive' = alive BY <1>5 DEF WriteDst, WriteMsg
    <2> QED BY <2>1, <2>2, ChannelStays
  <1>6. CASE WriteFlags
    <2>1. \E d \in Dst, e \in Channel!Entry : Channel!Send(d, e) BY <1>6, ChannelSend
    <2> QED BY <2>1, Zenon DEF Channel!Next
  <1>7. CASE \E w \in SUBSET Dst : \E r \in SUBSET w : Senda(w, r)
    <2>0. PICK w \in SUBSET Dst : \E r \in SUBSET w : Senda(w, r) BY <1>7
    <2>1. PICK r \in SUBSET w : Senda(w, r) BY <2>0
    <2> DEFINE rep == [d \in Dst |-> d \in r]
    <2>2. rep \in [Dst -> BOOLEAN] OBVIOUS
    <2>3. \A d \in Dst : TakeBy(d, d \in r) BY <2>1, TakeSenda
    <2>4. \A d \in Dst : rep[d] = (d \in r) OBVIOUS
    <2>5. alive' = alive BY <2>1 DEF Senda
    <2> HIDE DEF rep
    <2>6. \A d \in Dst : TakeBy(d, rep[d]) BY <2>3, <2>4, Zenon
    <2>7. Channel!Take BY <2>2, <2>5, <2>6, ChannelTake
    <2> QED BY <2>7, Zenon DEF Channel!Next
  <1>8. CASE \E d \in Dst : Die(d)
    <2>1. PICK x \in Dst : Die(x) BY <1>8
    <2>2. AsynInv' BY <2>1, InvDie
    <2>3. msgtable' = msgtable /\ Current' = Current /\ alive' = alive \ {x}
      BY <2>1 DEF Die, Current
    <2>4. \A d \in Dst : Queue(d)' = Queue(d)
      BY <2>3 DEF Queue, Contents, Waiting
    <2>5. Channel!Die(x) BY <2>3, <2>4 DEF Channel!Die
    <2> QED BY <2>5, Zenon DEF Channel!Next
  <1>9. CASE \E d \in Dst : \E replying \in BOOLEAN : try_one(d, replying)
    <2>1. PICK d \in Dst, b \in BOOLEAN : try_one(d, b) BY <1>9
    <2> DEFINE rep == [e \in Dst |-> b]
    <2>2. rep \in [Dst -> BOOLEAN] /\ \A e \in Dst : rep[e] = b OBVIOUS
    <2>3. \A e \in Dst : TakeBy(e, b) BY <2>1, TakeTryOne
    <2>4. alive' = alive BY <2>1 DEF try_one
    <2> HIDE DEF rep
    <2>5. \A e \in Dst : TakeBy(e, rep[e]) BY <2>2, <2>3, Zenon
    <2>6. Channel!Take BY <2>2, <2>4, <2>5, ChannelTake
    <2> QED BY <2>6, Zenon DEF Channel!Next
  <1>10. CASE UNCHANGED vars
    <2>1. msgtable' = msgtable /\ Current' = Current /\ alive' = alive
      BY <1>10 DEF vars, Current
    <2>2. \A d \in Dst : Queue(d)' = Queue(d) BY <2>1 DEF Queue, Contents, Waiting
    <2> QED BY <2>1, <2>2, ChannelStays
  <1> QED BY <1>1, <1>2, <1>3, <1>4, <1>5, <1>6, <1>7, <1>8, <1>9, <1>10, Zenon DEF Next

(* The table implements one queue per destination: each message is taken    *)
(* at most once, whole and in its turn, for every size of the table, every  *)
(* set of destinations, and every moment at which the kernel looks.         *)
THEOREM TableIsChannel == Spec => ChannelSpec
  <1>1. Init => Channel!Init BY ChannelInit
  <1>2. AsynInv /\ [Next]_vars => [Channel!Next]_<<[d \in Dst |-> Queue(d)], alive>>
    BY ChannelStep
  <1> QED BY <1>1, <1>2, InvAlways, PTL DEF Spec, ChannelSpec, Channel!Spec
=============================================================================
