---------------------------- MODULE TimersProofs ----------------------------
(***************************************************************************)
(* The two lists of timers and the one alarm that PM has at the kernel,    *)
(* for any number of user processes and any delays they ask for.  The      *)
(* lists are described by which timers they hold and for when; what the    *)
(* functions of lib/timers do to them is proved first.                     *)
(***************************************************************************)
EXTENDS Timers, QueueLemmas

When == -(MaxLate + 1) .. NEVER - 1

(* A list of timers of O as the library keeps it. *)
TimerList(O, s) == s \in Seq(Timer(O)) /\ Sorted(s)

LEMMA Numbers ==
    /\ MaxLate \in Nat /\ NEVER \in Nat /\ PM # Driver /\ Owner = {PM, Driver}
    /\ \A n \in Ticks \cup DriverTicks \cup Intervals \cup {Delay} : n \in 0 .. NEVER - 1
    /\ Delay \in Nat
  <1>1. /\ MaxLate \in Nat /\ NEVER \in Nat /\ PM # Driver /\ Owner = {PM, Driver} /\ Delay \in Nat
    BY TimersAssumption DEF Owner
  <1>2. ASSUME NEW n \in Ticks \cup DriverTicks \cup Intervals \cup {Delay}
        PROVE  n \in Nat /\ n < NEVER
    BY <1>1, TimersAssumption
  <1>3. \A n \in Nat : n < NEVER => n \in 0 .. NEVER - 1 BY <1>1
  <1> QED BY <1>1, <1>2, <1>3

LEMMA NotEmpty ==
    ASSUME NEW S, NEW s \in Seq(S), s # <<>>
    PROVE  Len(s) \in Nat /\ Len(s) > 0 /\ 1 \in 1 .. Len(s)
  OBVIOUS

(* The members of a list. *)
LEMMA Members ==
    ASSUME NEW O, NEW s, TimerList(O, s)
    PROVE  /\ Len(s) \in Nat /\ DOMAIN s = 1 .. Len(s)
           /\ \A i \in 1 .. Len(s) : s[i].tp \in O /\ s[i].exp \in When /\ s[i].exp \in Int
           /\ \A i, j \in 1 .. Len(s) : i < j => s[i].exp <= s[j].exp
           /\ \A i, j \in 1 .. Len(s) : s[i].tp = s[j].tp => i = j
  <1>1. Len(s) \in Nat /\ DOMAIN s = 1 .. Len(s) BY DEF TimerList
  <1>2. \A i \in 1 .. Len(s) : s[i] \in Timer(O) BY DEF TimerList
  <1>3. \A i \in 1 .. Len(s) : s[i].tp \in O /\ s[i].exp \in When
    BY <1>2 DEF Timer, When
  <1>4. \A e \in When : e \in Int BY Numbers DEF When
  <1>5. \A i, j \in 1 .. Len(s) : i < j => s[i].exp <= s[j].exp /\ s[i].tp # s[j].tp
    BY <1>1 DEF TimerList, Sorted
  <1>6. ASSUME NEW i \in 1 .. Len(s), NEW j \in 1 .. Len(s), s[i].tp = s[j].tp PROVE i = j
    <2>1. ~(i < j) /\ ~(j < i) BY <1>5, <1>6
    <2> QED BY <1>1, <2>1
  <1> QED BY <1>1, <1>3, <1>4, <1>5, <1>6

(* The time a timer is set for. *)
LEMMA TimeOfIs ==
    ASSUME NEW O, NEW s, TimerList(O, s), NEW i \in 1 .. Len(s)
    PROVE  Armed(s, s[i].tp) /\ TimeOf(s, s[i].tp) = s[i].exp
  <1>1. i \in DOMAIN s /\ \A j \in DOMAIN s : s[j].tp = s[i].tp => j = i BY Members
  <1>2. Armed(s, s[i].tp) BY <1>1 DEF Armed
  <1>3. (CHOOSE j \in DOMAIN s : s[j].tp = s[i].tp) = i BY <1>1
  <1> QED BY <1>2, <1>3 DEF TimeOf

(* A timer that is set has a place. *)
LEMMA ArmedIs ==
    ASSUME NEW O, NEW s, TimerList(O, s), NEW x, Armed(s, x)
    PROVE  \E i \in 1 .. Len(s) : s[i].tp = x /\ TimeOf(s, x) = s[i].exp
  <1>1. PICK i \in 1 .. Len(s) : s[i].tp = x BY Members DEF Armed
  <1> QED BY <1>1, TimeOfIs

(* The time of the first timer. *)
LEMMA HeadIs ==
    ASSUME NEW O, NEW s, TimerList(O, s)
    PROVE  /\ HeadTime(s) \in Int /\ HeadTime(s) \in -(MaxLate + 1) .. NEVER
           /\ s # <<>> => HeadTime(s) \in When /\ HeadTime(s) = s[1].exp /\ Len(s) > 0
           /\ s = <<>> => HeadTime(s) = NEVER /\ Len(s) = 0
           /\ s # <<>> <=> HeadTime(s) # NEVER
           /\ \A x : Armed(s, x) => /\ x \in O /\ TimeOf(s, x) \in When
                                    /\ TimeOf(s, x) \in Int /\ s # <<>>
                                    /\ HeadTime(s) <= TimeOf(s, x)
  <1>0. MaxLate \in Nat /\ NEVER \in Nat BY Numbers
  <1>1. CASE s = <<>>
    <2>1. HeadTime(s) = NEVER /\ Len(s) = 0 BY <1>1 DEF HeadTime
    <2>2. \A x : ~Armed(s, x) BY <2>1, Members DEF Armed
    <2> QED BY <1>0, <1>1, <2>1, <2>2
  <1>2. CASE s # <<>>
    <2>1. HeadTime(s) = s[1].exp BY <1>2 DEF HeadTime
    <2>a. s \in Seq(Timer(O)) BY DEF TimerList
    <2>2. Len(s) > 0 /\ 1 \in 1 .. Len(s) BY <1>2, <2>a, NotEmpty
    <2>b. /\ \A i \in 1 .. Len(s) : s[i].tp \in O /\ s[i].exp \in When /\ s[i].exp \in Int
          /\ \A i, j \in 1 .. Len(s) : i < j => s[i].exp <= s[j].exp
      BY Members
    <2>3. HeadTime(s) \in When BY <2>1, <2>2, <2>b
    <2>4. HeadTime(s) \in -(MaxLate + 1) .. NEVER /\ HeadTime(s) \in Int /\ HeadTime(s) # NEVER
      BY <1>0, <2>3 DEF When
    <2>5. ASSUME NEW x, Armed(s, x)
          PROVE  x \in O /\ TimeOf(s, x) \in When /\ TimeOf(s, x) \in Int /\ HeadTime(s) <= TimeOf(s, x)
      <3>1. PICK i \in 1 .. Len(s) : s[i].tp = x /\ TimeOf(s, x) = s[i].exp BY <2>5, ArmedIs
      <3>2. x \in O /\ TimeOf(s, x) \in When /\ TimeOf(s, x) \in Int BY <2>b, <3>1
      <3>3. CASE i = 1 BY <2>1, <2>4, <3>1, <3>2, <3>3
      <3>4. CASE i # 1
        <4>1. 1 < i BY <3>4
        <4>2. s[1].exp <= s[i].exp BY <2>2, <2>b, <4>1
        <4> QED BY <2>1, <3>1, <3>2, <4>2
      <3> QED BY <3>2, <3>3, <3>4
    <2> QED BY <1>2, <2>1, <2>2, <2>3, <2>4, <2>5
  <1> QED BY <1>1, <1>2

(* s and c have the same timers but for that of tp. *)
SameBut(s, c, tp) ==
    \A x : x # tp => /\ Armed(c, x) <=> Armed(s, x)
                     /\ Armed(s, x) => TimeOf(c, x) = TimeOf(s, x)

(* A list without its entry at n. *)
LEMMA RemovedIs ==
    ASSUME NEW O, NEW s, TimerList(O, s), NEW n \in 1 .. Len(s),
           NEW c \in Seq(Timer(O)), Len(c) = Len(s) - 1,
           \A i \in 1 .. Len(s) - 1 : c[i] = IF i < n THEN s[i] ELSE s[i + 1]
    PROVE  /\ TimerList(O, c) /\ ~Armed(c, s[n].tp) /\ SameBut(s, c, s[n].tp)
           /\ HeadTime(s) <= HeadTime(c)
  <1>0. Len(s) \in Nat /\ DOMAIN c = 1 .. Len(s) - 1 BY Members
  <1> DEFINE At(i) == IF i < n THEN i ELSE i + 1
  <1>1. \A i \in 1 .. Len(s) - 1 : At(i) \in 1 .. Len(s) /\ At(i) # n /\ c[i] = s[At(i)]
    BY <1>0
  <1>2. \A i, j \in 1 .. Len(s) - 1 : i < j => At(i) < At(j)
    BY <1>0
  <1> HIDE DEF At
  <1>3. Sorted(c)
    <2> SUFFICES ASSUME NEW i \in 1 .. Len(s) - 1, NEW j \in 1 .. Len(s) - 1, i < j
                 PROVE  c[i].exp <= c[j].exp /\ c[i].tp # c[j].tp
      BY <1>0 DEF Sorted
    <2>1. At(i) < At(j) /\ At(i) \in 1 .. Len(s) /\ At(j) \in 1 .. Len(s) BY <1>1, <1>2
    <2>2. At(i) # At(j) BY <1>0, <2>1
    <2>3. s[At(i)].exp <= s[At(j)].exp /\ s[At(i)].tp # s[At(j)].tp BY <2>1, <2>2, Members
    <2> QED BY <1>1, <2>3
  <1>4. TimerList(O, c) BY <1>3 DEF TimerList
  <1>5. ASSUME NEW x, Armed(c, x)
        PROVE  x # s[n].tp /\ Armed(s, x) /\ TimeOf(c, x) = TimeOf(s, x)
    <2>1. PICK i \in 1 .. Len(c) : c[i].tp = x /\ TimeOf(c, x) = c[i].exp BY <1>4, <1>5, ArmedIs
    <2>2. At(i) \in 1 .. Len(s) /\ At(i) # n /\ c[i] = s[At(i)] BY <1>1, <2>1
    <2>3. x # s[n].tp BY <2>1, <2>2, Members
    <2> QED BY <2>1, <2>2, <2>3, TimeOfIs
  <1>6. ASSUME NEW x, Armed(s, x), x # s[n].tp PROVE Armed(c, x)
    <2>1. PICK j \in 1 .. Len(s) : s[j].tp = x BY <1>6, ArmedIs
    <2>2. CASE j < n
      <3>1. j \in 1 .. Len(s) - 1 /\ c[j] = s[j] BY <1>0, <2>2
      <3> QED BY <1>0, <2>1, <3>1 DEF Armed
    <2>3. CASE j > n
      <3>1. j - 1 \in 1 .. Len(s) - 1 /\ ~(j - 1 < n) /\ (j - 1) + 1 = j BY <1>0, <2>3
      <3>2. c[j - 1] = s[j] BY <3>1
      <3> QED BY <1>0, <2>1, <3>1, <3>2 DEF Armed
    <2> QED BY <1>6, <2>1, <2>2, <2>3
  <1>7. HeadTime(s) <= HeadTime(c)
    <2>1. CASE c = <<>>
      <3>1. HeadTime(c) = NEVER /\ HeadTime(s) \in -(MaxLate + 1) .. NEVER /\ NEVER \in Nat /\ MaxLate \in Nat
        BY <1>4, <2>1, HeadIs, Numbers
      <3> QED BY <3>1
    <2>2. CASE c # <<>>
      <3>1. 1 \in 1 .. Len(c) /\ HeadTime(c) = c[1].exp BY <1>4, <2>2, HeadIs
      <3>2. Armed(c, c[1].tp) /\ TimeOf(c, c[1].tp) = HeadTime(c) BY <1>4, <3>1, TimeOfIs
      <3>3. Armed(s, c[1].tp) /\ TimeOf(s, c[1].tp) = HeadTime(c) BY <1>5, <3>2
      <3> QED BY <3>3, HeadIs
    <2> QED BY <2>1, <2>2
  <1> QED BY <1>4, <1>5, <1>6, <1>7 DEF SameBut

(* tmrs_clrtimer() takes the timer out and no other. *)
LEMMA ClearIs ==
    ASSUME NEW O, NEW s, TimerList(O, s), NEW tp
    PROVE  LET c == tmrs_clrtimer(s, tp)
           IN  /\ TimerList(O, c) /\ ~Armed(c, tp) /\ SameBut(s, c, tp)
               /\ HeadTime(s) <= HeadTime(c)
  <1> DEFINE c == tmrs_clrtimer(s, tp)
  <1>0. Len(s) \in Nat /\ DOMAIN s = 1 .. Len(s) BY Members
  <1>1. CASE Armed(s, tp)
    <2> DEFINE I == {i \in 1 .. Len(s) : s[i].tp = tp}
    <2>1. I # {} /\ I \subseteq Nat /\ \E i \in 1 .. Len(s) : s[i].tp = tp BY <1>0, <1>1 DEF Armed
    <2>2. SelectInSeq(s, LAMBDA t : t.tp = tp) = Min(I) BY <2>1 DEF SelectInSeq
    <2>3. c = RemoveAt(s, SelectInSeq(s, LAMBDA t : t.tp = tp))
      BY <2>1 DEF tmrs_clrtimer, RemoveFirstMatch
    <2>4. Min(I) \in 1 .. Len(s) /\ s[Min(I)].tp = tp
      <3> HIDE DEF I
      <3>1. Min(I) \in I BY <2>1, MinIs
      <3> QED BY <3>1 DEF I
    <2> DEFINE n == Min(I)
    <2> HIDE DEF I
    <2>5. n \in 1 .. Len(s) /\ s[n].tp = tp /\ c = RemoveAt(s, n) BY <2>2, <2>3, <2>4
    <2> HIDE DEF n, c
    <2>6. /\ c \in Seq(Timer(O)) /\ Len(c) = Len(s) - 1
          /\ \A i \in 1 .. Len(s) - 1 : c[i] = IF i < n THEN s[i] ELSE s[i + 1]
      BY <2>5, RemoveAtIs DEF TimerList
    <2>7. /\ TimerList(O, c) /\ ~Armed(c, s[n].tp) /\ SameBut(s, c, s[n].tp)
          /\ HeadTime(s) <= HeadTime(c)
      BY <2>5, <2>6, RemovedIs
    <2> QED BY <2>5, <2>7 DEF c
  <1>2. CASE ~Armed(s, tp)
    <2>1. ~\E i \in 1 .. Len(s) : s[i].tp = tp BY <1>0, <1>2 DEF Armed
    <2>2. c = s BY <2>1 DEF tmrs_clrtimer, RemoveFirstMatch
    <2> HIDE DEF c
    <2>3. SameBut(s, c, tp) BY <2>2 DEF SameBut
    <2>4. HeadTime(s) <= HeadTime(c) BY <2>2, HeadIs
    <2> QED BY <1>2, <2>2, <2>3, <2>4 DEF c
  <1> QED BY <1>1, <1>2

(* The first timer is taken off the list. *)
LEMMA TailIs ==
    ASSUME NEW O, NEW s, TimerList(O, s), s # <<>>
    PROVE  /\ TimerList(O, Tail(s)) /\ SameBut(s, Tail(s), Head(s).tp)
           /\ ~Armed(Tail(s), Head(s).tp) /\ HeadTime(s) <= HeadTime(Tail(s))
           /\ Head(s).tp \in O
  <1>1. /\ Tail(s) \in Seq(Timer(O)) /\ Len(Tail(s)) = Len(s) - 1 /\ Head(s) = s[1]
        /\ \A i \in 1 .. Len(s) - 1 : Tail(s)[i] = s[i + 1]
        /\ 1 \in 1 .. Len(s) /\ Len(s) \in Nat
    BY DEF TimerList
  <1>2. \A i \in 1 .. Len(s) - 1 : Tail(s)[i] = IF i < 1 THEN s[i] ELSE s[i + 1] BY <1>1
  <1>3. /\ TimerList(O, Tail(s)) /\ ~Armed(Tail(s), s[1].tp) /\ SameBut(s, Tail(s), s[1].tp)
        /\ HeadTime(s) <= HeadTime(Tail(s))
    BY <1>1, <1>2, RemovedIs
  <1> QED BY <1>1, <1>3, Members
(* A list with an entry put in at n, between earlier and later ones. *)
LEMMA InsertedIs ==
    ASSUME NEW O, NEW c, TimerList(O, c), NEW tp \in O, ~Armed(c, tp), NEW e \in When,
           NEW n \in 1 .. Len(c) + 1,
           \A j \in 1 .. Len(c) : j < n => c[j].exp <= e,
           \A j \in 1 .. Len(c) : j >= n => e <= c[j].exp
    PROVE  LET r == InsertAt(c, n, [tp |-> tp, exp |-> e])
           IN  /\ TimerList(O, r) /\ Armed(r, tp) /\ TimeOf(r, tp) = e /\ SameBut(c, r, tp)
  <1> DEFINE t == [tp |-> tp, exp |-> e]
             r == InsertAt(c, n, t)
             At(i) == IF i < n THEN i ELSE i - 1
  <1>0. Len(c) \in Nat /\ DOMAIN c = 1 .. Len(c) BY Members
  <1>1. t \in Timer(O) /\ t.tp = tp /\ t.exp = e BY DEF Timer, When
  <1> HIDE DEF t
  <1>2. /\ r \in Seq(Timer(O)) /\ Len(r) = Len(c) + 1
        /\ \A i \in 1 .. Len(c) + 1 :
              r[i] = IF i < n THEN c[i] ELSE IF i = n THEN t ELSE c[i - 1]
    BY <1>1, InsertAtIs DEF TimerList
  <1> HIDE DEF r
  <1>3. DOMAIN r = 1 .. Len(c) + 1 /\ n \in 1 .. Len(c) + 1 /\ r[n] = t BY <1>0, <1>2
  <1>4. \A i \in 1 .. Len(c) + 1 : i # n =>
           At(i) \in 1 .. Len(c) /\ r[i] = c[At(i)] /\ (i < n => At(i) < n) /\ (i > n => At(i) >= n)
    BY <1>0, <1>2
  <1>5. \A i, j \in 1 .. Len(c) + 1 : i # n /\ j # n /\ i < j => At(i) < At(j)
    BY <1>0
  <1> HIDE DEF At
  <1>6. \A j \in 1 .. Len(c) : c[j].tp # tp BY <1>0 DEF Armed
  <1>7. Sorted(r)
    <2> SUFFICES ASSUME NEW i \in 1 .. Len(c) + 1, NEW j \in 1 .. Len(c) + 1, i < j
                 PROVE  r[i].exp <= r[j].exp /\ r[i].tp # r[j].tp
      BY <1>3 DEF Sorted
    <2>1. CASE i = n
      <3>1. j # n /\ j > n BY <1>0, <2>1
      <3> QED BY <1>1, <1>3, <1>4, <1>6, <2>1, <3>1
    <2>2. CASE j = n
      <3>1. i # n /\ i < n BY <1>0, <2>2
      <3> QED BY <1>1, <1>3, <1>4, <1>6, <2>2, <3>1
    <2>3. CASE i # n /\ j # n
      <3>1. At(i) < At(j) /\ At(i) \in 1 .. Len(c) /\ At(j) \in 1 .. Len(c)
            /\ r[i] = c[At(i)] /\ r[j] = c[At(j)]
        BY <1>4, <1>5, <2>3
      <3>2. At(i) # At(j) BY <1>0, <3>1
      <3>3. c[At(i)].exp <= c[At(j)].exp /\ c[At(i)].tp # c[At(j)].tp BY <3>1, <3>2, Members
      <3> QED BY <3>1, <3>3
    <2> QED BY <2>1, <2>2, <2>3
  <1>8. TimerList(O, r) BY <1>2, <1>7 DEF TimerList
  <1>9. Armed(r, tp) /\ TimeOf(r, tp) = e
    <2>1. n \in 1 .. Len(r) /\ r[n].tp = tp /\ r[n].exp = e BY <1>1, <1>2, <1>3
    <2>2. Armed(r, r[n].tp) /\ TimeOf(r, r[n].tp) = r[n].exp BY <1>8, <2>1, TimeOfIs
    <2> QED BY <2>1, <2>2
  <1>10. ASSUME NEW x, x # tp, Armed(r, x) PROVE Armed(c, x)
    <2>1. PICK i \in 1 .. Len(r) : r[i].tp = x BY <1>8, <1>10, ArmedIs
    <2>2. i # n BY <1>1, <1>3, <1>10, <2>1
    <2>3. At(i) \in 1 .. Len(c) /\ r[i] = c[At(i)] BY <1>2, <1>4, <2>1, <2>2
    <2> QED BY <1>0, <2>1, <2>3 DEF Armed
  <1>11. ASSUME NEW x, Armed(c, x) PROVE Armed(r, x) /\ TimeOf(r, x) = TimeOf(c, x)
    <2>1. PICK j \in 1 .. Len(c) : c[j].tp = x /\ TimeOf(c, x) = c[j].exp BY <1>11, ArmedIs
    <2>2. \E i \in 1 .. Len(r) : r[i] = c[j]
      <3>1. CASE j < n
        <4>1. j \in 1 .. Len(c) + 1 /\ r[j] = c[j] BY <1>0, <1>2, <3>1
        <4> QED BY <1>2, <4>1
      <3>2. CASE ~(j < n)
        <4>1. j + 1 \in 1 .. Len(c) + 1 /\ ~(j + 1 < n) /\ j + 1 # n /\ (j + 1) - 1 = j
          BY <1>0, <3>2
        <4>2. r[j + 1] = c[j] BY <1>2, <4>1
        <4> QED BY <1>2, <4>1, <4>2
      <3> QED BY <3>1, <3>2
    <2>3. PICK i \in 1 .. Len(r) : r[i] = c[j] BY <2>2
    <2> QED BY <1>8, <2>1, <2>3, TimeOfIs
  <1> QED BY <1>8, <1>9, <1>10, <1>11 DEF SameBut, r, t

(* tmrs_settimer() sets the timer to e and no other. *)
LEMMA SetIs ==
    ASSUME NEW O, NEW s, TimerList(O, s), NEW tp \in O, NEW e \in When
    PROVE  LET r == tmrs_settimer(s, tp, e)
           IN  /\ TimerList(O, r) /\ Armed(r, tp) /\ TimeOf(r, tp) = e /\ SameBut(s, r, tp)
  <1> DEFINE c == tmrs_clrtimer(s, tp)
             r == tmrs_settimer(s, tp, e)
             I == {j \in 1 .. Len(c) : e < c[j].exp}
             i == SelectInSeq(c, LAMBDA t : e < t.exp)
             n == IF i = 0 THEN Len(c) + 1 ELSE i
  <1>1. TimerList(O, c) /\ ~Armed(c, tp) /\ SameBut(s, c, tp) BY ClearIs
  <1>2. r = InsertAt(c, n, [tp |-> tp, exp |-> e]) BY DEF tmrs_settimer
  <1>3. i = IF I # {} THEN Min(I) ELSE 0 BY DEF SelectInSeq
  <1> HIDE DEF c, i, r
  <1>4. Len(c) \in Nat /\ I \subseteq Nat BY <1>1, Members
  <1>e. e \in Int /\ \A j \in 1 .. Len(c) : c[j].exp \in Int
    <2>1. \A d \in When : d \in Int BY Numbers DEF When
    <2> QED BY <1>1, <2>1, Members
  <1>5. /\ n \in 1 .. Len(c) + 1
        /\ \A j \in 1 .. Len(c) : j < n => c[j].exp <= e
        /\ \A j \in 1 .. Len(c) : j >= n => e <= c[j].exp
    <2>1. CASE I = {}
      <3>1. n = Len(c) + 1 /\ \A j \in 1 .. Len(c) : ~(e < c[j].exp) BY <1>3, <2>1
      <3> QED BY <1>4, <1>e, <3>1
    <2>2. CASE I # {}
      <3>1. i \in I /\ \A y \in I : i <= y
        <4> HIDE DEF I
        <4> QED BY <1>3, <1>4, <2>2, MinIs
      <3>2. i \in 1 .. Len(c) /\ e < c[i].exp /\ n = i BY <1>4, <3>1
      <3>3. ASSUME NEW j \in 1 .. Len(c), j < i PROVE c[j].exp <= e
        <4>1. ~(e < c[j].exp) BY <1>4, <3>1, <3>2, <3>3
        <4> QED BY <1>e, <4>1
      <3>4. ASSUME NEW j \in 1 .. Len(c), j >= i PROVE e <= c[j].exp
        <4>1. CASE j = i BY <1>e, <3>2, <4>1
        <4>2. CASE j # i
          <5>1. i < j BY <3>2, <3>4, <4>2
          <5>2. c[i].exp <= c[j].exp BY <1>1, <3>2, <5>1, Members
          <5> QED BY <1>e, <3>2, <5>2
        <4> QED BY <4>1, <4>2
      <3> QED BY <1>4, <3>2, <3>3, <3>4
    <2> QED BY <2>1, <2>2
  <1> HIDE DEF n
  <1>6. TimerList(O, r) /\ Armed(r, tp) /\ TimeOf(r, tp) = e /\ SameBut(c, r, tp)
    BY <1>1, <1>2, <1>5, InsertedIs
  <1>7. SameBut(s, r, tp) BY <1>1, <1>6 DEF SameBut
  <1> QED BY <1>6, <1>7 DEF r

LEMMA LessIs ==
    ASSUME NEW e \in Int, NEW f \in Int
    PROVE  /\ Less(e) \in Int /\ Less(e) <= e
           /\ e <= f => Less(e) <= Less(f)
           /\ e \in When => Less(e) \in When
  <1>0. MaxLate \in Nat /\ NEVER \in Nat BY Numbers
  <1>1. Less(e) \in Int /\ Less(e) <= e BY <1>0 DEF Less
  <1>2. e <= f => Less(e) <= Less(f) BY <1>0 DEF Less
  <1>3. e \in When => Less(e) \in When BY <1>0 DEF Less, When
  <1> QED BY <1>1, <1>2, <1>3

(* c has the timers of s, all for one tick less. *)
Later(s, c) ==
    /\ \A x : Armed(c, x) <=> Armed(s, x)
    /\ \A x : Armed(s, x) => TimeOf(c, x) = Less(TimeOf(s, x))
    /\ c = <<>> <=> s = <<>>
    /\ s # <<>> => HeadTime(c) = Less(HeadTime(s))

(* A tick later the same timers are set. *)
LEMMA AgedIs ==
    ASSUME NEW O, NEW s, TimerList(O, s)
    PROVE  TimerList(O, Aged(s)) /\ Later(s, Aged(s))
  <1> DEFINE c == Aged(s)
  <1>0. Len(s) \in Nat /\ DOMAIN s = 1 .. Len(s) BY Members
  <1>1. DOMAIN c = 1 .. Len(s) /\ \A i \in 1 .. Len(s) : c[i] = [s[i] EXCEPT !.exp = Less(@)]
    BY <1>0 DEF Aged
  <1>2. \A i \in 1 .. Len(s) : s[i] \in Timer(O) /\ s[i].exp \in Int /\ s[i].exp \in When
    BY Members DEF TimerList
  <1>3. ASSUME NEW i \in 1 .. Len(s)
        PROVE  c[i] \in Timer(O) /\ c[i].tp = s[i].tp /\ c[i].exp = Less(s[i].exp)
    <2>1. Less(s[i].exp) \in When BY <1>2, LessIs
    <2> QED BY <1>1, <1>2, <2>1 DEF Timer, When
  <1>a. c = [i \in 1 .. Len(s) |-> c[i]] BY <1>0 DEF Aged
  <1> HIDE DEF c
  <1>4. c \in Seq(Timer(O)) /\ Len(c) = Len(s)
    <2>1. c \in [1 .. Len(s) -> Timer(O)] BY <1>3, <1>a
    <2> QED BY <1>0, <2>1
  <1>5. Sorted(c)
    <2> SUFFICES ASSUME NEW i \in 1 .. Len(s), NEW j \in 1 .. Len(s), i < j
                 PROVE  c[i].exp <= c[j].exp /\ c[i].tp # c[j].tp
      BY <1>1 DEF Sorted
    <2>1. s[i].exp <= s[j].exp /\ s[i].tp # s[j].tp BY <1>0 DEF TimerList, Sorted
    <2>2. Less(s[i].exp) <= Less(s[j].exp) BY <1>2, <2>1, LessIs
    <2> QED BY <1>3, <2>1, <2>2
  <1>6. TimerList(O, c) BY <1>4, <1>5 DEF TimerList
  <1>7. \A x : Armed(c, x) <=> Armed(s, x) BY <1>0, <1>1, <1>3 DEF Armed, c
  <1>8. ASSUME NEW x, Armed(s, x) PROVE TimeOf(c, x) = Less(TimeOf(s, x))
    <2>1. PICK i \in 1 .. Len(s) : s[i].tp = x /\ TimeOf(s, x) = s[i].exp BY <1>8, ArmedIs
    <2>2. TimeOf(c, c[i].tp) = c[i].exp BY <1>4, <1>6, TimeOfIs
    <2> QED BY <1>3, <2>1, <2>2
  <1>9. c = <<>> <=> s = <<>>
    <2>1. \A q \in Seq(Timer(O)) : q = <<>> <=> Len(q) = 0 BY EmptySeq
    <2> QED BY <1>4, <2>1 DEF TimerList
  <1>10. ASSUME s # <<>> PROVE HeadTime(c) = Less(HeadTime(s))
    <2>1. HeadTime(s) = s[1].exp /\ HeadTime(c) = c[1].exp /\ Len(s) > 0
      BY <1>6, <1>9, <1>10, HeadIs
    <2>2. 1 \in 1 .. Len(s) BY <1>0, <2>1
    <2> QED BY <1>3, <2>1, <2>2
  <1> QED BY <1>6, <1>7, <1>8, <1>9, <1>10 DEF Later, c
-----------------------------------------------------------------------------
(* The inductive invariant. *)

(* The lists are kept as lib/timers keeps them. *)
ListInv == TimerList(Owner, clock_timers) /\ TimerList(User, pm_timers)

(* next_timeout is no later than the kernel's first timer, but in the middle *)
(* of do_setalarm, and then the clock task does not run.                    *)
KernelInv ==
    /\ next_timeout \in Int /\ next_timeout <= NEVER
    /\ sys.at # "next" => next_timeout <= HeadTime(clock_timers)

(* The alarm PM asks for is for its first timer. *)
CallInv ==
    /\ sys \in [at : {"none", "list", "next"}, who : Owner, exp : -(MaxLate + 1) .. NEVER]
    /\ left \in 0 .. NEVER - 1
    /\ pm = "alarm" <=> (sys.at # "none" /\ sys.who = PM)
    /\ (sys.at = "list" /\ sys.who = PM) => sys.exp = HeadTime(pm_timers)

LivingInv ==
    /\ \A u \in User : u \in ALARM_ON <=> Armed(pm_timers, u)
    /\ ALARM_ON \subseteq IN_USE /\ IN_USE \subseteq User
    /\ mp_interval \in [User -> Intervals \cup {0}]

(* PM's alarm is set in time, or has gone off. *)
Covered ==
    \/ PM \in alarm
    \/ Armed(clock_timers, PM) /\ TimeOf(clock_timers, PM) <= HeadTime(pm_timers)

CoverInv ==
    (pm = "idle" \/ (sys.at = "next" /\ sys.who = PM)) /\ pm_timers # <<>> => Covered

TimerInv == ListInv /\ KernelInv /\ CallInv /\ LivingInv /\ CoverInv

LEMMA EmptyList == ASSUME NEW O PROVE TimerList(O, <<>>) /\ \A x : ~Armed(<<>>, x)
  <1>1. <<>> \in Seq(Timer(O)) /\ DOMAIN <<>> = {} OBVIOUS
  <1> QED BY <1>1 DEF TimerList, Sorted, Armed

LEMMA InitTimers == Init => TimerInv
  <1> SUFFICES ASSUME Init PROVE TimerInv OBVIOUS
  <1>0. /\ clock_timers = <<>> /\ next_timeout = NEVER /\ sys = None /\ pm_timers = <<>>
        /\ pm = "idle" /\ left = 0 /\ IN_USE = User /\ ALARM_ON = {}
        /\ mp_interval = [u \in User |-> 0]
    BY DEF Init
  <1>1. HeadTime(<<>>) = NEVER BY DEF HeadTime
  <1>2. NEVER \in Nat /\ MaxLate \in Nat /\ PM \in Owner /\ 0 \in 0 .. NEVER - 1 BY Numbers
  <1>3. ListInv BY <1>0, EmptyList DEF ListInv
  <1>4. KernelInv BY <1>0, <1>1, <1>2 DEF KernelInv
  <1>5. CallInv BY <1>0, <1>2 DEF CallInv, None
  <1>6. LivingInv BY <1>0, EmptyList DEF LivingInv
  <1>7. CoverInv BY <1>0 DEF CoverInv
  <1> QED BY <1>3, <1>4, <1>5, <1>6, <1>7 DEF TimerInv

(* The parts of sys. *)
LEMMA SysIs ==
    ASSUME CallInv
    PROVE  /\ sys.at \in {"none", "list", "next"} /\ sys.who \in Owner
           /\ sys.exp \in -(MaxLate + 1) .. NEVER /\ sys.exp \in Int
           /\ sys = [at |-> sys.at, who |-> sys.who, exp |-> sys.exp]
  <1>1. sys \in [at : {"none", "list", "next"}, who : Owner, exp : -(MaxLate + 1) .. NEVER]
    BY DEF CallInv
  <1> QED BY <1>1, Numbers

(* A tick is taken off everything at once. *)
LEMMA TickStep == ASSUME TimerInv, clock_handler PROVE TimerInv'
  <1>0. /\ ListInv /\ KernelInv /\ CallInv /\ LivingInv /\ CoverInv BY DEF TimerInv
  <1> DEFINE k == clock_timers
             m == pm_timers
  <1>1. /\ clock_timers' = Aged(k) /\ pm_timers' = Aged(m)
        /\ next_timeout' = (IF next_timeout = NEVER THEN NEVER ELSE Less(next_timeout))
        /\ sys' = (IF sys.at = "list" /\ sys.who = PM /\ sys.exp # NEVER
                   THEN [sys EXCEPT !.exp = Less(@)] ELSE sys)
        /\ UNCHANGED <<alarm, pm, IN_USE, ALARM_ON, mp_interval, left>>
    BY DEF clock_handler, Tick
  <1>2. /\ TimerList(Owner, k) /\ TimerList(User, m) BY <1>0 DEF ListInv
  <1> HIDE DEF k, m
  <1>3. /\ TimerList(Owner, Aged(k)) /\ \A x : Armed(Aged(k), x) <=> Armed(k, x)
        /\ \A x : Armed(k, x) => TimeOf(Aged(k), x) = Less(TimeOf(k, x))
        /\ Aged(k) = <<>> <=> k = <<>>
        /\ k # <<>> => HeadTime(Aged(k)) = Less(HeadTime(k))
    <2>1. TimerList(Owner, Aged(k)) /\ Later(k, Aged(k)) BY <1>2, AgedIs
    <2> QED BY <2>1, Zenon DEF Later
  <1>4. /\ TimerList(User, Aged(m)) /\ \A x : Armed(Aged(m), x) <=> Armed(m, x)
        /\ Aged(m) = <<>> <=> m = <<>>
        /\ m # <<>> => HeadTime(Aged(m)) = Less(HeadTime(m))
    <2>1. TimerList(User, Aged(m)) /\ Later(m, Aged(m)) BY <1>2, AgedIs
    <2> QED BY <2>1, Zenon DEF Later
  <1>5. NEVER \in Nat /\ MaxLate \in Nat BY Numbers
  <1>6. /\ sys'.at = sys.at /\ sys'.who = sys.who
        /\ sys'.exp = IF sys.at = "list" /\ sys.who = PM /\ sys.exp # NEVER THEN Less(sys.exp) ELSE sys.exp
        /\ sys' \in [at : {"none", "list", "next"}, who : Owner, exp : -(MaxLate + 1) .. NEVER]
    <2>0. /\ sys.at \in {"none", "list", "next"} /\ sys.who \in Owner
          /\ sys.exp \in -(MaxLate + 1) .. NEVER /\ sys.exp \in Int
          /\ sys \in [at : {"none", "list", "next"}, who : Owner, exp : -(MaxLate + 1) .. NEVER]
      BY <1>0, SysIs DEF CallInv
    <2>1. CASE sys.at = "list" /\ sys.who = PM /\ sys.exp # NEVER
      <3>1. sys.exp \in When BY <1>5, <2>0, <2>1 DEF When
      <3>2. Less(sys.exp) \in When BY <2>0, <3>1, LessIs
      <3>3. Less(sys.exp) \in -(MaxLate + 1) .. NEVER BY <1>5, <3>2 DEF When
      <3>4. sys' = [sys EXCEPT !.exp = Less(sys.exp)] BY <1>1, <2>1
      <3> QED BY <2>0, <2>1, <3>3, <3>4
    <2>2. CASE ~(sys.at = "list" /\ sys.who = PM /\ sys.exp # NEVER)
      <3>1. sys' = sys BY <1>1, <2>2
      <3> QED BY <2>0, <2>2, <3>1
    <2> QED BY <2>1, <2>2
  <1>h. /\ HeadTime(k) \in Int /\ HeadTime(m) \in Int /\ HeadTime(Aged(k)) \in Int
        /\ k = <<>> => HeadTime(k) = NEVER
        /\ k # <<>> => HeadTime(k) # NEVER
        /\ m = <<>> => HeadTime(m) = NEVER
        /\ m # <<>> => HeadTime(m) # NEVER
        /\ Aged(k) = <<>> => HeadTime(Aged(k)) = NEVER
        /\ Aged(m) = <<>> => HeadTime(Aged(m)) = NEVER
        /\ \A x : Armed(k, x) => TimeOf(k, x) \in Int
    BY <1>2, <1>3, <1>4, HeadIs
  <1>7. ListInv' BY <1>1, <1>3, <1>4 DEF ListInv, k, m
  <1>8. KernelInv'
    <2>1. next_timeout \in Int /\ next_timeout <= NEVER BY <1>0 DEF KernelInv
    <2>2. next_timeout' \in Int /\ next_timeout' <= NEVER
      <3>1. Less(next_timeout) \in Int /\ Less(next_timeout) <= next_timeout BY <2>1, LessIs
      <3> QED BY <1>1, <1>5, <2>1, <3>1
    <2>3. ASSUME sys.at # "next" PROVE next_timeout' <= HeadTime(Aged(k))
      <3>1. next_timeout <= HeadTime(k) BY <1>0, <2>3 DEF KernelInv, k
      <3>2. CASE k = <<>> BY <1>3, <1>h, <2>2, <3>2
      <3>3. CASE k # <<>>
        <4>1. next_timeout # NEVER
          <5>1. HeadTime(k) \in When BY <1>2, <3>3, HeadIs
          <5> QED BY <1>5, <2>1, <3>1, <5>1 DEF When
        <4>2. Less(next_timeout) <= Less(HeadTime(k)) BY <1>h, <2>1, <3>1, LessIs
        <4> QED BY <1>1, <1>3, <3>3, <4>1, <4>2
      <3> QED BY <3>2, <3>3
    <2> QED BY <1>1, <1>6, <2>2, <2>3 DEF KernelInv, k
  <1>9. CallInv'
    <2>1. (sys.at = "list" /\ sys.who = PM) => sys'.exp = HeadTime(Aged(m))
      <3> SUFFICES ASSUME sys.at = "list", sys.who = PM PROVE sys'.exp = HeadTime(Aged(m)) OBVIOUS
      <3>1. sys.exp = HeadTime(m) BY <1>0 DEF CallInv, m
      <3>2. CASE m = <<>> BY <1>4, <1>6, <1>h, <3>1, <3>2
      <3>3. CASE m # <<>> BY <1>4, <1>6, <1>h, <3>1, <3>3
      <3> QED BY <3>2, <3>3
    <2> QED BY <1>0, <1>1, <1>6, <2>1 DEF CallInv, m
  <1>10. LivingInv' BY <1>0, <1>1, <1>4 DEF LivingInv, m
  <1>11. CoverInv'
    <2> SUFFICES ASSUME pm = "idle" \/ (sys.at = "next" /\ sys.who = PM), Aged(m) # <<>>, PM \notin alarm
                 PROVE  Armed(Aged(k), PM) /\ TimeOf(Aged(k), PM) <= HeadTime(Aged(m))
      BY <1>1, <1>6 DEF CoverInv, Covered, k, m
    <2>1. m # <<>> BY <1>4
    <2>2. Armed(k, PM) /\ TimeOf(k, PM) <= HeadTime(m) BY <1>0, <2>1 DEF CoverInv, Covered, k, m
    <2>3. Less(TimeOf(k, PM)) <= Less(HeadTime(m)) BY <1>h, <2>2, LessIs
    <2> QED BY <1>3, <1>4, <2>1, <2>2, <2>3
  <1> QED BY <1>7, <1>8, <1>9, <1>10, <1>11 DEF TimerInv
(* What the invariant speaks of. *)
invvars == <<clock_timers, next_timeout, alarm, sys, pm_timers, pm, IN_USE, ALARM_ON,
             mp_interval, left>>

LEMMA SameTimers == ASSUME TimerInv, UNCHANGED invvars PROVE TimerInv'
  BY DEF TimerInv, ListInv, KernelInv, CallInv, LivingInv, CoverInv, Covered, invvars

(* A timer of the kernel's list runs out. *)
LEMMA ExpireStep == ASSUME TimerInv, Expire PROVE TimerInv'
  <1>0. ListInv /\ KernelInv /\ CallInv /\ LivingInv /\ CoverInv BY DEF TimerInv
  <1> DEFINE k == clock_timers
             h == Head(clock_timers).tp
  <1>1. /\ k # <<>> /\ clock_timers' = Tail(k) /\ alarm' = alarm \cup {h}
        /\ UNCHANGED <<next_timeout, sys, pm_timers, pm, IN_USE, ALARM_ON, mp_interval, left>>
    BY DEF Expire, Expired, pvars, dvars
  <1>2. TimerList(Owner, k) /\ TimerList(User, pm_timers) BY <1>0 DEF ListInv
  <1>3. /\ TimerList(Owner, Tail(k)) /\ SameBut(k, Tail(k), h)
        /\ ~Armed(Tail(k), h) /\ HeadTime(k) <= HeadTime(Tail(k))
    BY <1>1, <1>2, TailIs
  <1>4. HeadTime(k) \in Int /\ HeadTime(Tail(k)) \in Int BY <1>2, <1>3, HeadIs
  <1> HIDE DEF h
  <1>5. ListInv' BY <1>1, <1>2, <1>3 DEF ListInv
  <1>6. KernelInv'
    <2>1. next_timeout \in Int /\ (sys.at # "next" => next_timeout <= HeadTime(k))
      BY <1>0 DEF KernelInv
    <2>2. sys.at # "next" => next_timeout <= HeadTime(Tail(k)) BY <1>3, <1>4, <2>1
    <2> QED BY <1>0, <1>1, <2>2 DEF KernelInv
  <1>7. CallInv' /\ LivingInv' BY <1>0, <1>1 DEF CallInv, LivingInv
  <1>8. CoverInv'
    <2> SUFFICES ASSUME pm = "idle" \/ (sys.at = "next" /\ sys.who = PM), pm_timers # <<>>,
                        PM \notin alarm'
                 PROVE  Armed(Tail(k), PM) /\ TimeOf(Tail(k), PM) <= HeadTime(pm_timers)
      BY <1>1 DEF CoverInv, Covered
    <2>1. PM # h /\ PM \notin alarm BY <1>1
    <2>2. Armed(k, PM) /\ TimeOf(k, PM) <= HeadTime(pm_timers) BY <1>0, <2>1 DEF CoverInv, Covered
    <2>3. Armed(Tail(k), PM) /\ TimeOf(Tail(k), PM) = TimeOf(k, PM)
      BY <1>3, <2>1, <2>2 DEF SameBut
    <2> QED BY <2>2, <2>3
  <1> QED BY <1>5, <1>6, <1>7, <1>8 DEF TimerInv

LEMMA ClockSteps == ASSUME TimerInv, ClockTask PROVE TimerInv'
  <1>1. CASE do_clocktick BY <1>1, SameTimers DEF do_clocktick, invvars, pvars, dvars
  <1>2. CASE Expire BY <1>2, ExpireStep
  <1>3. CASE ExpireEnd
    <2>0. ListInv /\ KernelInv /\ CallInv /\ LivingInv /\ CoverInv BY DEF TimerInv
    <2>1. /\ next_timeout' = HeadTime(clock_timers)
          /\ UNCHANGED <<clock_timers, alarm, sys, pm_timers, pm, IN_USE, ALARM_ON, mp_interval, left>>
      BY <1>3 DEF ExpireEnd, pvars, dvars
    <2>2. HeadTime(clock_timers) \in Int /\ HeadTime(clock_timers) <= NEVER
          /\ HeadTime(clock_timers) <= HeadTime(clock_timers)
      <3>1. HeadTime(clock_timers) \in -(MaxLate + 1) .. NEVER /\ NEVER \in Nat /\ MaxLate \in Nat
        BY <2>0, HeadIs, Numbers DEF ListInv
      <3> QED BY <3>1
    <2>3. KernelInv' BY <2>1, <2>2 DEF KernelInv
    <2>4. ListInv' /\ CallInv' /\ LivingInv' /\ CoverInv'
      BY <2>0, <2>1 DEF ListInv, CallInv, LivingInv, CoverInv, Covered
    <2> QED BY <2>3, <2>4 DEF TimerInv
  <1>4. CASE clock_task BY <1>4, SameTimers DEF clock_task, invvars, pvars, dvars
  <1> QED BY <1>1, <1>2, <1>3, <1>4 DEF ClockTask

(* The list is changed for the process that asked. *)
LEMMA SetAlarmStep == ASSUME TimerInv, do_setalarm PROVE TimerInv'
  <1>0. ListInv /\ KernelInv /\ CallInv /\ LivingInv /\ CoverInv BY DEF TimerInv
  <1> DEFINE k == clock_timers
             w == sys.who
             e == sys.exp
             c == IF e = NEVER THEN tmrs_clrtimer(k, w) ELSE tmrs_settimer(k, w, e)
             had == Armed(k, Driver) /\ TimeOf(k, Driver) > 0
  <1>1. /\ sys.at = "list" /\ clock_timers' = c
        /\ left' = (IF drv # "call" \/ w # Driver THEN left
                    ELSE IF had THEN TimeOf(k, Driver) ELSE 0)
        /\ sys' = [sys EXCEPT !.at = "next"]
        /\ UNCHANGED <<next_timeout, alarm, pm_timers, pm, IN_USE, ALARM_ON, mp_interval>>
    BY DEF do_setalarm, pvars
  <1>2. /\ w \in Owner /\ e \in -(MaxLate + 1) .. NEVER /\ e \in Int
        /\ NEVER \in Nat /\ MaxLate \in Nat /\ PM # Driver /\ Owner = {PM, Driver}
    BY <1>0, SysIs, Numbers
  <1>3. TimerList(Owner, k) /\ TimerList(User, pm_timers) BY <1>0 DEF ListInv
  <1>4. TimerList(Owner, c) /\ SameBut(k, c, w) /\ (e # NEVER => Armed(c, w) /\ TimeOf(c, w) = e)
    <2>1. CASE e = NEVER
      <3>1. c = tmrs_clrtimer(k, w) BY <2>1
      <3> HIDE DEF c, k, w
      <3> QED BY <1>3, <2>1, <3>1, ClearIs
    <2>2. CASE e # NEVER
      <3>1. c = tmrs_settimer(k, w, e) BY <2>2
      <3>2. e \in When BY <1>2, <2>2 DEF When
      <3> HIDE DEF c, k, w, e
      <3> QED BY <1>2, <1>3, <3>1, <3>2, SetIs
    <2> QED BY <2>1, <2>2
  <1>5. left' \in 0 .. NEVER - 1
    <2>1. left \in 0 .. NEVER - 1 BY <1>0 DEF CallInv
    <2>2. CASE drv # "call" \/ w # Driver BY <1>1, <2>1, <2>2
    <2>3. CASE ~(drv # "call" \/ w # Driver) /\ had
      <3>1. left' = TimeOf(k, Driver) BY <1>1, <2>3
      <3>2. TimeOf(k, Driver) \in When BY <1>3, <2>3, HeadIs
      <3> QED BY <1>2, <2>3, <3>1, <3>2 DEF When
    <2>4. CASE ~(drv # "call" \/ w # Driver) /\ ~had
      <3>1. left' = 0 BY <1>1, <2>4
      <3> QED BY <1>2, <2>1, <3>1
    <2> QED BY <2>2, <2>3, <2>4
  <1>6. sys' \in [at : {"none", "list", "next"}, who : Owner, exp : -(MaxLate + 1) .. NEVER]
        /\ sys'.at = "next" /\ sys'.who = w
    BY <1>0, <1>1 DEF CallInv
  <1> HIDE DEF c, k, w, e, had
  <1>7. ListInv' BY <1>1, <1>3, <1>4 DEF ListInv
  <1>8. KernelInv' BY <1>0, <1>1, <1>6 DEF KernelInv
  <1>9. CallInv' BY <1>0, <1>1, <1>5, <1>6 DEF CallInv, w
  <1>10. LivingInv' BY <1>0, <1>1 DEF LivingInv
  <1>11. CoverInv'
    <2> SUFFICES ASSUME pm = "idle" \/ w = PM, pm_timers # <<>>, PM \notin alarm
                 PROVE  Armed(c, PM) /\ TimeOf(c, PM) <= HeadTime(pm_timers)
      BY <1>1, <1>6 DEF CoverInv, Covered
    <2>0. HeadTime(pm_timers) \in Int /\ HeadTime(pm_timers) # NEVER BY <1>3, HeadIs
    <2>1. CASE w = PM
      <3>1. e = HeadTime(pm_timers) BY <1>0, <1>1, <2>1 DEF CallInv, w, e
      <3> QED BY <1>4, <2>0, <2>1, <3>1
    <2>2. CASE w # PM
      <3>1. Armed(k, PM) /\ TimeOf(k, PM) <= HeadTime(pm_timers)
        BY <1>0, <2>2 DEF CoverInv, Covered, k
      <3> QED BY <1>4, <2>2, <3>1 DEF SameBut
    <2> QED BY <2>1, <2>2
  <1> QED BY <1>7, <1>8, <1>9, <1>10, <1>11 DEF TimerInv

LEMMA NextTimeoutStep == ASSUME TimerInv, SetNextTimeout PROVE TimerInv'
  <1>0. ListInv /\ KernelInv /\ CallInv /\ LivingInv /\ CoverInv BY DEF TimerInv
  <1>1. /\ sys.at = "next" /\ next_timeout' = HeadTime(clock_timers) /\ sys' = None
        /\ pm' = (IF sys.who = PM THEN "idle" ELSE pm)
        /\ UNCHANGED <<clock_timers, alarm, pm_timers, IN_USE, ALARM_ON, mp_interval, left>>
    BY DEF SetNextTimeout
  <1>2. HeadTime(clock_timers) \in Int /\ HeadTime(clock_timers) <= NEVER
        /\ HeadTime(clock_timers) <= HeadTime(clock_timers)
    <2>1. HeadTime(clock_timers) \in -(MaxLate + 1) .. NEVER /\ NEVER \in Nat /\ MaxLate \in Nat
      BY <1>0, HeadIs, Numbers DEF ListInv
    <2> QED BY <2>1
  <1>3. /\ sys' \in [at : {"none", "list", "next"}, who : Owner, exp : -(MaxLate + 1) .. NEVER]
        /\ sys'.at = "none"
    BY <1>1, Numbers DEF None
  <1>4. pm' # "alarm"
    <2>1. CASE sys.who = PM BY <1>1, <2>1
    <2>2. CASE sys.who # PM BY <1>0, <1>1, <2>2 DEF CallInv
    <2> QED BY <2>1, <2>2
  <1>5. KernelInv' BY <1>1, <1>2, <1>3 DEF KernelInv
  <1>6. ListInv' /\ LivingInv' BY <1>0, <1>1 DEF ListInv, LivingInv
  <1>7. CallInv' BY <1>0, <1>1, <1>3, <1>4 DEF CallInv
  <1>8. CoverInv'
    <2> SUFFICES ASSUME pm' = "idle", pm_timers # <<>> PROVE Covered
      BY <1>1, <1>3 DEF CoverInv, Covered
    <2>1. pm = "idle" \/ (sys.at = "next" /\ sys.who = PM) BY <1>1
    <2> QED BY <1>0, <2>1 DEF CoverInv
  <1> QED BY <1>5, <1>6, <1>7, <1>8 DEF TimerInv
(* PM's list becomes s.  If its alarm is not moved, it was early enough. *)
LEMMA RescheduleStep ==
    ASSUME TimerInv, pm = "idle", PM \notin alarm, sys.at = "none",
           NEW s, TimerList(User, s), NEW moved \in BOOLEAN,
           Reschedule(s, moved, HeadTime(s)),
           UNCHANGED <<clock_timers, next_timeout, alarm, left>>,
           ~moved => (s = <<>> \/ (pm_timers # <<>> /\ HeadTime(pm_timers) <= HeadTime(s)))
    PROVE  ListInv' /\ KernelInv' /\ CallInv' /\ CoverInv' /\ pm_timers' = s
  <1>0. ListInv /\ KernelInv /\ CallInv /\ CoverInv BY DEF TimerInv
  <1>1. pm_timers' = s BY DEF Reschedule
  <1>2. ListInv' BY <1>0, <1>1 DEF ListInv
  <1>3. CASE moved
    <2>1. sys' = [at |-> "list", who |-> PM, exp |-> HeadTime(s)] /\ pm' = "alarm"
      BY <1>3 DEF Reschedule, Request
    <2>2. HeadTime(s) \in -(MaxLate + 1) .. NEVER /\ PM \in Owner BY HeadIs, Numbers
    <2>3. sys' \in [at : {"none", "list", "next"}, who : Owner, exp : -(MaxLate + 1) .. NEVER]
          /\ sys'.at = "list" /\ sys'.who = PM /\ sys'.exp = HeadTime(s)
      BY <2>1, <2>2
    <2>4. KernelInv' BY <1>0, <2>3 DEF KernelInv
    <2>5. CallInv' BY <1>0, <1>1, <2>1, <2>3 DEF CallInv
    <2>6. CoverInv' BY <2>1, <2>3 DEF CoverInv
    <2> QED BY <1>1, <1>2, <2>4, <2>5, <2>6
  <1>4. CASE ~moved
    <2>1. sys' = sys /\ pm' = pm BY <1>4 DEF Reschedule
    <2>2. KernelInv' BY <1>0, <2>1 DEF KernelInv
    <2>3. CallInv' BY <1>0, <1>1, <2>1 DEF CallInv
    <2>4. CoverInv'
      <3> SUFFICES ASSUME s # <<>>
                   PROVE  Armed(clock_timers, PM) /\ TimeOf(clock_timers, PM) <= HeadTime(s)
        BY <1>1, <2>1 DEF CoverInv, Covered
      <3>1. pm_timers # <<>> /\ HeadTime(pm_timers) <= HeadTime(s) BY <1>4
      <3>2. Armed(clock_timers, PM) /\ TimeOf(clock_timers, PM) <= HeadTime(pm_timers)
        BY <1>0, <3>1 DEF CoverInv, Covered
      <3>3. TimeOf(clock_timers, PM) \in Int BY <1>0, <3>2, HeadIs DEF ListInv
      <3>4. HeadTime(pm_timers) \in Int BY <1>0, HeadIs DEF ListInv
      <3>5. HeadTime(s) \in Int BY HeadIs
      <3> QED BY <3>1, <3>2, <3>3, <3>4, <3>5
    <2> QED BY <1>1, <1>2, <2>2, <2>3, <2>4
  <1> QED BY <1>3, <1>4

LEMMA ReadyIs == ASSUME PMReady PROVE pm = "idle" /\ PM \notin alarm /\ sys.at = "none"
  BY DEF PMReady, TasksIdle

(* PM sets the timer of u. *)
LEMMA AlarmSetStep ==
    ASSUME TimerInv, NEW u \in User, NEW t \in Ticks, NEW i \in Intervals, set_alarm(u, t, i)
    PROVE  TimerInv'
  <1>0. ListInv /\ LivingInv BY DEF TimerInv
  <1> DEFINE m == pm_timers
             s == tmrs_settimer(m, u, t)
             moved == m = <<>> \/ HeadTime(m) > HeadTime(s)
  <1>1. /\ PMReady /\ u \in IN_USE /\ Reschedule(s, moved, HeadTime(s))
        /\ ALARM_ON' = ALARM_ON \cup {u} /\ mp_interval' = [mp_interval EXCEPT ![u] = i]
        /\ UNCHANGED <<clock_timers, next_timeout, alarm, left, IN_USE>>
    BY DEF set_alarm, pm_set_timer, dvars
  <1>2. TimerList(User, m) BY <1>0 DEF ListInv
  <1>3. t \in When BY Numbers DEF When
  <1>4. TimerList(User, s) /\ Armed(s, u) /\ SameBut(m, s, u) BY <1>2, <1>3, SetIs
  <1> HIDE DEF m, s
  <1>5. HeadTime(m) \in Int /\ HeadTime(s) \in Int BY <1>2, <1>4, HeadIs
  <1>6. moved \in BOOLEAN /\ (~moved => m # <<>> /\ HeadTime(m) <= HeadTime(s)) BY <1>5
  <1> HIDE DEF moved
  <1>7. ListInv' /\ KernelInv' /\ CallInv' /\ CoverInv' /\ pm_timers' = s
    BY <1>1, <1>4, <1>6, ReadyIs, RescheduleStep DEF m
  <1>8. LivingInv'
    <2>1. \A v \in User : v \in ALARM_ON' <=> Armed(s, v)
      BY <1>0, <1>1, <1>4 DEF LivingInv, SameBut, m
    <2> QED BY <1>0, <1>1, <1>7, <2>1 DEF LivingInv
  <1> QED BY <1>7, <1>8 DEF TimerInv

(* PM takes the timer of u out, if it has one. *)
LEMMA AlarmOffStep ==
    ASSUME TimerInv, NEW u \in User, PMReady,
           IF u \in ALARM_ON THEN pm_cancel_timer(u) ELSE UNCHANGED <<pm_timers, pm, sys>>,
           ALARM_ON' = ALARM_ON \ {u}, IN_USE' \in {IN_USE, IN_USE \ {u}},
           mp_interval' \in {mp_interval, [mp_interval EXCEPT ![u] = 0]},
           UNCHANGED <<clock_timers, next_timeout, alarm, left>>
    PROVE  TimerInv'
  <1>0. ListInv /\ KernelInv /\ CallInv /\ LivingInv /\ CoverInv BY DEF TimerInv
  <1> DEFINE m == pm_timers
             s == tmrs_clrtimer(m, u)
             moved == HeadTime(m) < HeadTime(s) \/ s = <<>>
  <1>1. CASE u \in ALARM_ON
    <2>1. Reschedule(s, moved, HeadTime(s)) BY <1>1 DEF pm_cancel_timer
    <2>2. TimerList(User, m) BY <1>0 DEF ListInv
    <2>3. TimerList(User, s) /\ ~Armed(s, u) /\ SameBut(m, s, u) /\ HeadTime(m) <= HeadTime(s)
      BY <2>2, ClearIs
    <2>a. m # <<>>
      <3>1. Armed(m, u) BY <1>0, <1>1 DEF LivingInv
      <3> QED BY <2>2, <3>1, HeadIs
    <2> HIDE DEF m, s
    <2>4. moved \in BOOLEAN /\ (~moved => m # <<>> /\ HeadTime(m) <= HeadTime(s)) BY <2>3, <2>a
    <2> HIDE DEF moved
    <2>5. ListInv' /\ KernelInv' /\ CallInv' /\ CoverInv' /\ pm_timers' = s
      BY <2>1, <2>3, <2>4, ReadyIs, RescheduleStep DEF m
    <2>6. LivingInv'
      <3>1. \A v \in User : v \in ALARM_ON' <=> Armed(s, v)
        BY <1>0, <2>3 DEF LivingInv, SameBut, m
      <3>2. mp_interval' \in [User -> Intervals \cup {0}] BY <1>0 DEF LivingInv
      <3>3. ALARM_ON' \subseteq IN_USE' /\ IN_USE' \subseteq User BY <1>0 DEF LivingInv
      <3> QED BY <2>5, <3>1, <3>2, <3>3 DEF LivingInv
    <2> QED BY <2>5, <2>6 DEF TimerInv
  <1>2. CASE u \notin ALARM_ON
    <2>1. UNCHANGED <<pm_timers, pm, sys>> /\ ALARM_ON' = ALARM_ON BY <1>2
    <2>2. ListInv' /\ KernelInv' /\ CallInv' /\ CoverInv'
      BY <1>0, <2>1 DEF ListInv, KernelInv, CallInv, CoverInv, Covered
    <2>3. mp_interval' \in [User -> Intervals \cup {0}] BY <1>0 DEF LivingInv
    <2>4. ALARM_ON' \subseteq IN_USE' /\ IN_USE' \subseteq User BY <1>0, <1>2, <2>1 DEF LivingInv
    <2> QED BY <1>0, <2>1, <2>2, <2>3, <2>4 DEF TimerInv, LivingInv
  <1> QED BY <1>1, <1>2

LEMMA CallSteps == ASSUME TimerInv, PMCall PROVE TimerInv'
  <1>1. PICK u \in User : \/ \E t \in Ticks, i \in Intervals : set_alarm(u, t, i)
                          \/ clear_alarm(u) \/ exit_proc(u) \/ do_fork(u)
    BY DEF PMCall
  <1>2. CASE \E t \in Ticks, i \in Intervals : set_alarm(u, t, i) BY <1>2, AlarmSetStep
  <1>3. CASE clear_alarm(u) BY <1>3, AlarmOffStep DEF clear_alarm, dvars
  <1>4. CASE exit_proc(u) BY <1>4, AlarmOffStep DEF exit_proc, dvars
  <1>5. CASE do_fork(u)
    <2>0. ListInv /\ KernelInv /\ CallInv /\ LivingInv /\ CoverInv BY DEF TimerInv
    <2>1. /\ IN_USE' = IN_USE \cup {u} /\ mp_interval' = [mp_interval EXCEPT ![u] = 0]
          /\ UNCHANGED <<clock_timers, next_timeout, alarm, sys, pm_timers, pm, ALARM_ON, left>>
      BY <1>5 DEF do_fork, kvars, dvars
    <2>2. ListInv' /\ KernelInv' /\ CallInv' /\ CoverInv'
      BY <2>0, <2>1 DEF ListInv, KernelInv, CallInv, CoverInv, Covered
    <2>3. LivingInv' BY <2>0, <2>1 DEF LivingInv
    <2> QED BY <2>2, <2>3 DEF TimerInv
  <1> QED BY <1>1, <1>2, <1>3, <1>4, <1>5

(* A timer of PM's list runs out, while PM has no call under way. *)
LEMMA SigalrmStep == ASSUME TimerInv, cause_sigalrm PROVE TimerInv'
  <1>0. ListInv /\ KernelInv /\ CallInv /\ LivingInv /\ CoverInv BY DEF TimerInv
  <1> DEFINE m == pm_timers
             u == Head(m).tp
             again == mp_interval[u] > 0
             r == tmrs_settimer(Tail(m), u, mp_interval[u])
  <1>1. /\ sys.at = "none" /\ pm = "expiring" /\ m # <<>>
        /\ UNCHANGED <<clock_timers, next_timeout, alarm, sys, pm, mp_interval, left>>
    BY DEF cause_sigalrm, TasksIdle, Expired, kvars, dvars
  <1>2. PICK dies \in BOOLEAN :
          /\ pm_timers' = IF again /\ ~dies THEN r ELSE Tail(m)
          /\ ALARM_ON' = IF again /\ ~dies THEN ALARM_ON ELSE ALARM_ON \ {u}
          /\ IN_USE' = IF dies THEN IN_USE \ {u} ELSE IN_USE
    BY DEF cause_sigalrm
  <1>3. TimerList(User, m) BY <1>0 DEF ListInv
  <1>4. /\ TimerList(User, Tail(m)) /\ SameBut(m, Tail(m), u) /\ ~Armed(Tail(m), u) /\ u \in User
    BY <1>1, <1>3, TailIs
  <1>5. Armed(m, u)
    <2>1. m \in Seq(Timer(User)) /\ m # <<>> /\ Head(m) = m[1] BY <1>1, <1>3 DEF TimerList
    <2>2. 1 \in 1 .. Len(m) BY <2>1, NotEmpty
    <2>3. Armed(m, m[1].tp) BY <1>3, <2>2, TimeOfIs
    <2> QED BY <2>1, <2>3
  <1>6. /\ mp_interval[u] \in When BY <1>0, <1>4, Numbers DEF LivingInv, When
  <1>7. TimerList(User, r) /\ Armed(r, u) /\ SameBut(Tail(m), r, u)
    <2> HIDE DEF u, m
    <2> QED BY <1>4, <1>6, SetIs
  <1> HIDE DEF m, u, r, again
  <1>8. TimerList(User, pm_timers')
        /\ (\A v \in User : v \in ALARM_ON' <=> Armed(pm_timers', v)) /\ ALARM_ON' \subseteq IN_USE'
    <2>0. (\A v \in User : v \in ALARM_ON <=> Armed(m, v)) /\ ALARM_ON \subseteq IN_USE
      BY <1>0 DEF LivingInv, m
    <2>1. CASE again /\ ~dies
      <3>1. pm_timers' = r /\ ALARM_ON' = ALARM_ON /\ IN_USE' = IN_USE BY <1>2, <2>1
      <3> QED BY <1>4, <1>5, <1>7, <2>0, <3>1 DEF SameBut
    <2>2. CASE ~(again /\ ~dies)
      <3>1. pm_timers' = Tail(m) /\ ALARM_ON' = ALARM_ON \ {u} /\ IN_USE' \in {IN_USE, IN_USE \ {u}}
        BY <1>2, <2>2
      <3> QED BY <1>4, <1>5, <2>0, <3>1 DEF SameBut
    <2> QED BY <2>1, <2>2
  <1>9. ListInv' BY <1>0, <1>1, <1>8 DEF ListInv
  <1>10. IN_USE' \subseteq User BY <1>0, <1>2 DEF LivingInv
  <1>11. LivingInv' BY <1>0, <1>1, <1>8, <1>10 DEF LivingInv
  <1>12. KernelInv' /\ CallInv' BY <1>0, <1>1 DEF KernelInv, CallInv
  <1>13. CoverInv' BY <1>1 DEF CoverInv
  <1> QED BY <1>9, <1>11, <1>12, <1>13 DEF TimerInv

LEMMA ExpirySteps == ASSUME TimerInv, PMExpiry PROVE TimerInv'
  <1>0. ListInv /\ KernelInv /\ CallInv /\ LivingInv /\ CoverInv BY DEF TimerInv
  <1>1. CASE pm_expire_timers
    <2>1. /\ sys.at = "none" /\ pm' = "expiring"
          /\ UNCHANGED <<clock_timers, next_timeout, sys, pm_timers, IN_USE, ALARM_ON, mp_interval, left>>
      BY <1>1 DEF pm_expire_timers, TasksIdle, dvars
    <2>2. ListInv' /\ KernelInv' /\ CallInv' /\ LivingInv'
      BY <1>0, <2>1 DEF ListInv, KernelInv, CallInv, LivingInv
    <2>3. CoverInv' BY <2>1 DEF CoverInv
    <2> QED BY <2>2, <2>3 DEF TimerInv
  <1>2. CASE cause_sigalrm BY <1>2, SigalrmStep
  <1>3. CASE RescheduleAfterExpiry
    <2>1. /\ sys.at = "none"
          /\ IF pm_timers = <<>> THEN pm' = "idle" /\ sys' = sys
             ELSE pm' = "alarm" /\ sys' = [at |-> "list", who |-> PM, exp |-> HeadTime(pm_timers)]
          /\ UNCHANGED <<clock_timers, next_timeout, alarm, pm_timers, IN_USE, ALARM_ON, mp_interval, left>>
      BY <1>3 DEF RescheduleAfterExpiry, TasksIdle, Request, dvars
    <2>2. ListInv' /\ LivingInv' BY <1>0, <2>1 DEF ListInv, LivingInv
    <2>3. CASE pm_timers = <<>>
      BY <1>0, <2>1, <2>2, <2>3 DEF TimerInv, KernelInv, CallInv, CoverInv
    <2>4. CASE pm_timers # <<>>
      <3>1. HeadTime(pm_timers) \in -(MaxLate + 1) .. NEVER /\ PM \in Owner
        BY <1>0, HeadIs, Numbers DEF ListInv
      <3>2. /\ sys' \in [at : {"none", "list", "next"}, who : Owner, exp : -(MaxLate + 1) .. NEVER]
            /\ sys'.at = "list" /\ sys'.who = PM /\ sys'.exp = HeadTime(pm_timers) /\ pm' = "alarm"
        BY <2>1, <2>4, <3>1
      <3>3. KernelInv' BY <1>0, <2>1, <3>2 DEF KernelInv
      <3>4. CallInv' BY <1>0, <2>1, <3>2 DEF CallInv
      <3>5. CoverInv' BY <3>2 DEF CoverInv
      <3> QED BY <2>2, <3>3, <3>4, <3>5 DEF TimerInv
    <2> QED BY <2>3, <2>4
  <1> QED BY <1>1, <1>2, <1>3 DEF PMExpiry
(* The driver asks for an alarm at e; PM's is not touched. *)
LEMMA DriverAsks ==
    ASSUME TimerInv, sys.at = "none", NEW e \in -(MaxLate + 1) .. NEVER, Request(Driver, e),
           left' \in 0 .. NEVER - 1, alarm' \in {alarm, alarm \ {Driver}},
           UNCHANGED <<clock_timers, next_timeout, pm_timers, pm, IN_USE, ALARM_ON, mp_interval>>
    PROVE  TimerInv'
  <1>0. ListInv /\ KernelInv /\ CallInv /\ LivingInv /\ CoverInv BY DEF TimerInv
  <1>1. PM # Driver /\ Driver \in Owner BY Numbers
  <1>2. /\ sys' \in [at : {"none", "list", "next"}, who : Owner, exp : -(MaxLate + 1) .. NEVER]
        /\ sys'.at = "list" /\ sys'.who = Driver
    BY <1>1 DEF Request
  <1>3. ListInv' /\ KernelInv' /\ LivingInv' BY <1>0, <1>2 DEF ListInv, KernelInv, LivingInv
  <1>4. CallInv' BY <1>0, <1>1, <1>2 DEF CallInv
  <1>5. CoverInv'
    <2>1. PM \in alarm' <=> PM \in alarm BY <1>1
    <2> QED BY <1>0, <1>1, <1>2, <2>1 DEF CoverInv, Covered
  <1> QED BY <1>3, <1>4, <1>5 DEF TimerInv

LEMMA DriverSteps == ASSUME TimerInv, DriverStep PROVE TimerInv'
  <1>0. ListInv /\ KernelInv /\ CallInv /\ LivingInv /\ CoverInv BY DEF TimerInv
  <1>n. NEVER \in Nat /\ MaxLate \in Nat /\ PM # Driver /\ left \in 0 .. NEVER - 1
        /\ Delay \in 0 .. NEVER - 1
    BY <1>0, Numbers DEF CallInv
  <1>1. ASSUME NEW e \in DriverTicks \cup {NEVER}, DriverAlarm(e) PROVE TimerInv'
    <2>1. e \in -(MaxLate + 1) .. NEVER
      <3>1. CASE e = NEVER BY <1>n, <3>1
      <3>2. CASE e # NEVER
        <4>1. e \in 0 .. NEVER - 1 BY <1>1, <3>2, Numbers
        <4> QED BY <1>n, <4>1
      <3> QED BY <3>1, <3>2
    <2>2. /\ sys.at = "none" /\ Request(Driver, e) /\ left' = left /\ alarm' = alarm
          /\ UNCHANGED <<clock_timers, next_timeout, pm_timers, pm, IN_USE, ALARM_ON, mp_interval>>
      BY <1>1 DEF DriverAlarm, DriverReady, TasksIdle, pvars
    <2> QED BY <1>n, <2>1, <2>2, DriverAsks
  <1>2. CASE tickdelay
    <2>1. Delay \in -(MaxLate + 1) .. NEVER BY <1>n
    <2>2. /\ sys.at = "none" /\ Request(Driver, Delay) /\ left' = left /\ alarm' = alarm
          /\ UNCHANGED <<clock_timers, next_timeout, pm_timers, pm, IN_USE, ALARM_ON, mp_interval>>
      BY <1>2 DEF tickdelay, DriverReady, TasksIdle, pvars
    <2> QED BY <1>n, <2>1, <2>2, DriverAsks
  <1>3. ASSUME alarm' = alarm \ {Driver}, left' \in 0 .. NEVER - 1, sys' = sys,
               UNCHANGED <<clock_timers, next_timeout, pm_timers, pm, IN_USE, ALARM_ON, mp_interval>>
        PROVE  TimerInv'
    <2>1. PM \in alarm' <=> PM \in alarm BY <1>3, <1>n
    <2>2. ListInv' /\ KernelInv' /\ LivingInv' /\ CallInv'
      BY <1>0, <1>3 DEF ListInv, KernelInv, LivingInv, CallInv
    <2>3. CoverInv' BY <1>0, <1>3, <2>1 DEF CoverInv, Covered
    <2> QED BY <2>2, <2>3 DEF TimerInv
  <1>4. CASE DriverReceive BY <1>3, <1>4, <1>n DEF DriverReceive, pvars
  <1>5. CASE DelayOver
    <2>1. /\ sys.at = "none" /\ alarm' = alarm \ {Driver} /\ left' = 0
          /\ UNCHANGED <<clock_timers, next_timeout, pm_timers, pm, IN_USE, ALARM_ON, mp_interval>>
      BY <1>5 DEF DelayOver, TasksIdle, pvars
    <2>2. left' \in 0 .. NEVER - 1 BY <1>n, <2>1
    <2>3. CASE left > 0
      <3> DEFINE e == IF left > Delay THEN left - Delay ELSE 1
      <3>1. Request(Driver, e) BY <1>5, <2>3 DEF DelayOver
      <3>2. e \in -(MaxLate + 1) .. NEVER BY <1>n, <2>3
      <3> HIDE DEF e
      <3> QED BY <2>1, <2>2, <3>1, <3>2, DriverAsks
    <2>4. CASE ~(left > 0)
      <3>1. sys' = sys BY <1>5, <2>4 DEF DelayOver
      <3> QED BY <1>3, <2>1, <2>2, <3>1
    <2> QED BY <2>3, <2>4
  <1> QED BY <1>1, <1>2, <1>4, <1>5 DEF DriverStep

LEMMA NextTimers == ASSUME TimerInv, [Next]_vars PROVE TimerInv'
  <1>1. CASE UNCHANGED vars BY <1>1, SameTimers DEF vars, kvars, pvars, dvars, invvars
  <1>2. CASE Next
    BY <1>2, TickStep, ClockSteps, SetAlarmStep, NextTimeoutStep, ExpirySteps, CallSteps, DriverSteps
       DEF Next, SystemTask
  <1> QED BY <1>1, <1>2

LEMMA TimersHold == ASSUME TimerInv PROVE AlarmCovers /\ TimersOfTheLiving
  <1>0. ListInv /\ KernelInv /\ LivingInv /\ CoverInv BY DEF TimerInv
  <1>1. AlarmCovers
    <2>1. pm = "idle" /\ pm_timers # <<>> => Covered BY <1>0 DEF CoverInv
    <2>2. TasksIdle => next_timeout <= HeadTime(clock_timers) BY <1>0 DEF TasksIdle, KernelInv
    <2> QED BY <2>1, <2>2 DEF AlarmCovers, Covered
  <1>2. TimersOfTheLiving
    <2>1. Sorted(clock_timers) /\ Sorted(pm_timers) BY <1>0 DEF ListInv, TimerList
    <2>2. ALARM_ON = {u \in User : Armed(pm_timers, u)} /\ ALARM_ON \subseteq IN_USE
      BY <1>0 DEF LivingInv
    <2> QED BY <2>1, <2>2 DEF TimersOfTheLiving
  <1> QED BY <1>1, <1>2

-----------------------------------------------------------------------------
(* PM's one alarm at the kernel is early enough for the first timer of its  *)
(* list whenever PM waits, although pm_set_timer() and pm_cancel_timer()    *)
(* only move it when they think they have to, and next_timeout is early     *)
(* enough for the kernel's list whenever the tasks are done, although the   *)
(* clock interrupt comes between any two steps of do_setalarm() and of      *)
(* tmrs_exptimers().                                                        *)
THEOREM AlarmsCovered == Spec => []AlarmCovers
  <1>1. TimerInv => AlarmCovers BY TimersHold
  <1>2. TimerInv /\ [Next]_vars => TimerInv' BY NextTimers
  <1> QED BY InitTimers, <1>1, <1>2, PTL DEF Spec

(* Both lists stay sorted, hold a timer at most once, and PM's holds those  *)
(* of living processes marked ALARM_ON and no others, also when a process   *)
(* dies of the signal that its alarm causes.                                *)
THEOREM TimersBelongToTheLiving == Spec => []TimersOfTheLiving
  <1>1. TimerInv => TimersOfTheLiving BY TimersHold
  <1>2. TimerInv /\ [Next]_vars => TimerInv' BY NextTimers
  <1> QED BY InitTimers, <1>1, <1>2, PTL DEF Spec
=============================================================================
