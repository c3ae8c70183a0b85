----------------------------- MODULE QueueLemmas -----------------------------
(***************************************************************************)
(* Facts about the queues of processes of proc.c, which are sequences      *)
(* without repetitions: what joining at the end (QueueMess, mini_send) and *)
(* unlinking a member (mini_receive, clear_endpoint) do to their members.  *)
(* And about sums over finite sets, which count what many contribute to.   *)
(***************************************************************************)
EXTENDS Integers, Sequences, SequencesExt, SequenceTheorems,
        WellFoundedInduction, FiniteSetTheorems, TLAPS

Distinct(q) == \A i, j \in DOMAIN q : q[i] = q[j] => i = j

Member(x, q) == \E i \in DOMAIN q : q[i] = x

(* A set of numbers that is not empty has a least one. *)
LEMMA LeastExists ==
    ASSUME NEW T, T \subseteq Nat, T # {}
    PROVE  \E x \in T : \A y \in T : x <= y
  <1> DEFINE R == OpToRel(<, Nat)
  <1>1. IsWellFoundedOn(R, Nat)
    BY NatLessThanWellFounded
  <1>2. \A x, y \in Nat : y < x => <<y, x>> \in R
    BY DEF OpToRel
  <1> HIDE DEF R
  <1>3. PICK x \in T : \A y \in T : ~(<<y, x>> \in R)
    BY <1>1, WFMin, Zenon
  <1>4. \A y \in T : x \in Nat /\ y \in Nat /\ ~(y < x)
    BY <1>2, <1>3, Zenon
  <1> QED BY <1>4

(* The queue with a process at its end. *)
LEMMA AppendQueue ==
    ASSUME NEW S, NEW q \in Seq(S), NEW x \in S
    PROVE  /\ Append(q, x) \in Seq(S)
           /\ \A y : Member(y, Append(q, x)) <=> (Member(y, q) \/ y = x)
           /\ (Distinct(q) /\ ~Member(x, q)) => Distinct(Append(q, x))
  <1>1. /\ Append(q, x) \in Seq(S)
        /\ DOMAIN Append(q, x) = 1 .. Len(q) + 1
        /\ DOMAIN q = 1 .. Len(q)
        /\ \A i \in 1 .. Len(q) : Append(q, x)[i] = q[i]
        /\ Append(q, x)[Len(q) + 1] = x
        /\ Len(q) \in Nat
    OBVIOUS
  <1>2. ASSUME NEW y PROVE Member(y, Append(q, x)) <=> (Member(y, q) \/ y = x)
    BY <1>1 DEF Member
  <1>3. (Distinct(q) /\ ~Member(x, q)) => Distinct(Append(q, x))
    BY <1>1 DEF Distinct, Member
  <1> QED BY <1>1, <1>2, <1>3

(* The queue without the process at position n. *)
LEMMA RemoveAtIs ==
    ASSUME NEW S, NEW q \in Seq(S), NEW n \in 1 .. Len(q)
    PROVE  /\ RemoveAt(q, n) \in Seq(S)
           /\ Len(RemoveAt(q, n)) = Len(q) - 1
           /\ \A i \in 1 .. Len(q) - 1 : RemoveAt(q, n)[i] = IF i < n THEN q[i] ELSE q[i + 1]
  <1> DEFINE a == SubSeq(q, 1, n - 1)
             b == SubSeq(q, n + 1, Len(q))
  <1>0. Len(q) \in Nat OBVIOUS
  <1>1. a \in Seq(S) /\ Len(a) = n - 1 /\ \A i \in 1 .. n - 1 : a[i] = q[i]
    BY <1>0
  <1>2. b \in Seq(S) /\ Len(b) = Len(q) - n /\ \A i \in 1 .. Len(q) - n : b[i] = q[n + i]
    BY <1>0
  <1>3. RemoveAt(q, n) = a \o b
    BY DEF RemoveAt
  <1> HIDE DEF a, b
  <1>4. /\ a \o b \in Seq(S) /\ Len(a \o b) = Len(q) - 1
        /\ \A i \in 1 .. Len(q) - 1 :
              (a \o b)[i] = IF i <= n - 1 THEN a[i] ELSE b[i - (n - 1)]
    <2>1. /\ a \o b \in Seq(S) /\ Len(a \o b) = Len(a) + Len(b)
          /\ \A i \in 1 .. Len(a) + Len(b) :
                (a \o b)[i] = IF i <= Len(a) THEN a[i] ELSE b[i - Len(a)]
      BY <1>1, <1>2, ConcatProperties
    <2>2. Len(a) + Len(b) = Len(q) - 1
      BY <1>0, <1>1, <1>2
    <2> QED BY <1>1, <2>1, <2>2
  <1>5. ASSUME NEW i \in 1 .. Len(q) - 1
        PROVE  (a \o b)[i] = IF i < n THEN q[i] ELSE q[i + 1]
    <2>1. CASE i < n
      BY <1>0, <1>1, <1>4, <2>1
    <2>2. CASE ~(i < n)
      <3>1. i - (n - 1) \in 1 .. Len(q) - n /\ n + (i - (n - 1)) = i + 1
        BY <1>0, <2>2
      <3> QED BY <1>0, <1>2, <1>4, <2>2, <3>1
    <2> QED BY <2>1, <2>2
  <1> QED BY <1>3, <1>4, <1>5

(* Removing position i of a queue without duplicates removes exactly its member there. *)
LEMMA RemoveAtQueue ==
    ASSUME NEW S, NEW q \in Seq(S), NEW n \in 1 .. Len(q), Distinct(q)
    PROVE  /\ Distinct(RemoveAt(q, n))
           /\ \A y : Member(y, RemoveAt(q, n)) <=> (Member(y, q) /\ y # q[n])
  <1> DEFINE t == RemoveAt(q, n)
  <1>0. Len(q) \in Nat /\ DOMAIN q = 1 .. Len(q) OBVIOUS
  <1>1. /\ t \in Seq(S) /\ Len(t) = Len(q) - 1
        /\ \A i \in 1 .. Len(q) - 1 : t[i] = IF i < n THEN q[i] ELSE q[i + 1]
    BY RemoveAtIs
  <1> HIDE DEF t
  <1>2. DOMAIN t = 1 .. Len(q) - 1
    BY <1>0, <1>1
  <1>3. Distinct(t)
    BY <1>0, <1>1, <1>2 DEF Distinct
  <1>4. ASSUME NEW y, Member(y, t) PROVE Member(y, q) /\ y # q[n]
    <2>1. PICK i \in 1 .. Len(q) - 1 : t[i] = y
      BY <1>2, <1>4 DEF Member
    <2>2. PICK j \in 1 .. Len(q) : j # n /\ q[j] = y
      <3>1. CASE i < n
        BY <1>0, <1>1, <2>1, <3>1
      <3>2. CASE ~(i < n)
        <4>1. i + 1 \in 1 .. Len(q) /\ i + 1 # n
          BY <1>0, <3>2
        <4>2. q[i + 1] = y
          BY <1>1, <2>1, <3>2
        <4> QED BY <4>1, <4>2
      <3> QED BY <3>1, <3>2
    <2> QED BY <1>0, <2>2 DEF Member, Distinct
  <1>5. ASSUME NEW y, Member(y, q), y # q[n] PROVE Member(y, t)
    <2>1. PICK j \in 1 .. Len(q) : q[j] = y
      BY <1>0, <1>5 DEF Member
    <2>2. CASE j < n
      BY <1>0, <1>1, <1>2, <2>1, <2>2 DEF Member
    <2>3. CASE j > n
      <3>1. j - 1 \in 1 .. Len(q) - 1 /\ t[j - 1] = q[(j - 1) + 1] /\ (j - 1) + 1 = j
        BY <1>0, <1>1, <2>3
      <3> QED BY <1>2, <2>1, <3>1 DEF Member
    <2> QED BY <1>5, <2>1, <2>2, <2>3
  <1> QED BY <1>3, <1>4, <1>5 DEF t

(* RemoveFirst unlinks one position that holds the process, if there is one. *)
LEMMA RemoveFirstIs ==
    ASSUME NEW S, NEW q \in Seq(S), NEW x, Member(x, q)
    PROVE  \E n \in 1 .. Len(q) : q[n] = x /\ RemoveFirst(q, x) = RemoveAt(q, n)
  <1> DEFINE I == {j \in 1 .. Len(q) : q[j] = x}
  <1>0. I # {} /\ I \subseteq Nat /\ \E j \in 1 .. Len(q) : q[j] = x
    BY DEF Member
  <1>1. Min(I) \in I
    <2>1. \E j \in I : \A y \in I : j <= y
      BY <1>0, LeastExists
    <2> HIDE DEF I
    <2> QED BY <2>1 DEF Min
  <1>2. SelectInSeq(q, LAMBDA v : v = x) = Min(I)
    BY <1>0 DEF SelectInSeq
  <1>3. RemoveFirst(q, x) = RemoveAt(q, SelectInSeq(q, LAMBDA v : v = x))
    BY <1>0 DEF RemoveFirst
  <1> QED BY <1>1, <1>2, <1>3

(* RemoveFirst removes exactly the named member, as clear_endpoint's walk does. *)
LEMMA RemoveFirstQueue ==
    ASSUME NEW S, NEW q \in Seq(S), NEW x
    PROVE  /\ RemoveFirst(q, x) \in Seq(S)
           /\ Distinct(q) =>
                 /\ Distinct(RemoveFirst(q, x))
                 /\ \A y : Member(y, RemoveFirst(q, x)) <=> (Member(y, q) /\ y # x)
  <1>1. CASE Member(x, q)
    <2>1. PICK n \in 1 .. Len(q) : q[n] = x /\ RemoveFirst(q, x) = RemoveAt(q, n)
      BY <1>1, RemoveFirstIs
    <2> QED BY <2>1, RemoveAtIs, RemoveAtQueue
  <1>2. CASE ~Member(x, q)
    <2>1. RemoveFirst(q, x) = q
      BY <1>2 DEF RemoveFirst, Member
    <2> QED BY <1>2, <2>1
  <1> QED BY <1>1, <1>2

(* The queue with x put in at position n. *)
LEMMA InsertAtIs ==
    ASSUME NEW S, NEW q \in Seq(S), NEW x \in S, NEW n \in 1 .. Len(q) + 1
    PROVE  /\ InsertAt(q, n, x) \in Seq(S)
           /\ Len(InsertAt(q, n, x)) = Len(q) + 1
           /\ \A i \in 1 .. Len(q) + 1 :
                 InsertAt(q, n, x)[i] = IF i < n THEN q[i] ELSE IF i = n THEN x ELSE q[i - 1]
  <1> DEFINE a == SubSeq(q, 1, n - 1)
             b == SubSeq(q, n, Len(q))
             c == a \o <<x>>
  <1>0. Len(q) \in Nat OBVIOUS
  <1>1. a \in Seq(S) /\ Len(a) = n - 1 /\ \A i \in 1 .. n - 1 : a[i] = q[i]
    BY <1>0
  <1>2. b \in Seq(S) /\ Len(b) = Len(q) - n + 1
        /\ \A i \in 1 .. Len(q) - n + 1 : b[i] = q[n + i - 1]
    BY <1>0
  <1>3. InsertAt(q, n, x) = c \o b
    BY DEF InsertAt
  <1> HIDE DEF a, b
  <1>4. c \in Seq(S) /\ Len(c) = n /\ c[n] = x /\ \A i \in 1 .. n - 1 : c[i] = q[i]
    <2>0. <<x>> \in Seq(S) /\ Len(<<x>>) = 1 /\ <<x>>[1] = x OBVIOUS
    <2>1. /\ c \in Seq(S) /\ Len(c) = Len(a) + Len(<<x>>)
          /\ \A i \in 1 .. Len(a) + Len(<<x>>) :
                c[i] = IF i <= Len(a) THEN a[i] ELSE <<x>>[i - Len(a)]
      BY <1>1, <2>0, ConcatProperties
    <2> HIDE DEF c
    <2>2. Len(c) = n BY <1>0, <1>1, <2>0, <2>1
    <2>3. c[n] = x
      <3>1. n \in 1 .. Len(a) + Len(<<x>>) /\ ~(n <= Len(a)) /\ n - Len(a) = 1
        BY <1>0, <1>1, <2>0
      <3> QED BY <2>0, <2>1, <3>1
    <2>4. ASSUME NEW i \in 1 .. n - 1 PROVE c[i] = q[i]
      <3>1. i \in 1 .. Len(a) + Len(<<x>>) /\ i <= Len(a) BY <1>0, <1>1, <2>0
      <3> QED BY <1>1, <2>1, <3>1
    <2> QED BY <2>1, <2>2, <2>3, <2>4
  <1> HIDE DEF c
  <1>5. /\ c \o b \in Seq(S) /\ Len(c \o b) = Len(q) + 1
        /\ \A i \in 1 .. Len(q) + 1 : (c \o b)[i] = IF i <= n THEN c[i] ELSE b[i - n]
    <2>1. /\ c \o b \in Seq(S) /\ Len(c \o b) = Len(c) + Len(b)
          /\ \A i \in 1 .. Len(c) + Len(b) :
                (c \o b)[i] = IF i <= Len(c) THEN c[i] ELSE b[i - Len(c)]
      BY <1>2, <1>4, ConcatProperties
    <2>2. Len(c) + Len(b) = Len(q) + 1
      BY <1>0, <1>2, <1>4
    <2> QED BY <1>4, <2>1, <2>2
  <1>6. ASSUME NEW i \in 1 .. Len(q) + 1
        PROVE  (c \o b)[i] = IF i < n THEN q[i] ELSE IF i = n THEN x ELSE q[i - 1]
    <2>1. CASE i < n BY <1>0, <1>4, <1>5, <2>1
    <2>2. CASE i = n BY <1>0, <1>4, <1>5, <2>2
    <2>3. CASE i > n
      <3>1. i - n \in 1 .. Len(q) - n + 1 /\ n + (i - n) - 1 = i - 1 /\ ~(i <= n)
        BY <1>0, <2>3
      <3>2. b[i - n] = q[n + (i - n) - 1] BY <1>2, <3>1
      <3> QED BY <1>5, <2>3, <3>1, <3>2
    <2>4. i < n \/ i = n \/ i > n BY <1>0
    <2> QED BY <2>1, <2>2, <2>3, <2>4
  <1> QED BY <1>3, <1>5, <1>6

(* The least number of a set of positions is one of them. *)
LEMMA MinIs ==
    ASSUME NEW I, I \subseteq Nat, I # {}
    PROVE  Min(I) \in I /\ \A y \in I : Min(I) <= y
  <1>1. \E j \in I : \A y \in I : j <= y
    BY LeastExists
  <1> QED BY <1>1 DEF Min

-----------------------------------------------------------------------------
(* Sums over a finite set are folds, which take one element after the other *)
(* in an order that CHOOSE fixes.                                           *)
FirstOf(s) == CHOOSE x \in s : TRUE

(* What a fold over s gives, from what g gives for smaller sets. *)
SumOne(f, g, s) == IF s = {} THEN 0 ELSE f[FirstOf(s)] + g[s \ {FirstOf(s)}]

(* g[s] is the sum of f over s, for the subsets s of T. *)
IsSum(g, f, T) == g = [s \in SUBSET T |-> SumOne(f, g, s)]

SumOver(f, T) == (CHOOSE g : IsSum(g, f, T))[T]

LEMMA SumsExist ==
    ASSUME NEW T, IsFiniteSet(T), NEW f \in [T -> Nat]
    PROVE  \E g \in [SUBSET T -> Nat] : IsSum(g, f, T)
  <1> DEFINE Upto(g, n) == \A s \in SUBSET T : Cardinality(s) <= n => g[s] = SumOne(f, g, s)
             Reach(n) == \E g \in [SUBSET T -> Nat] : Upto(g, n)
             B == {n \in Nat : ~Reach(n)}
  <1>1. \A s \in SUBSET T : IsFiniteSet(s) /\ Cardinality(s) \in Nat /\ Cardinality(s) <= Cardinality(T)
    BY FS_Subset, FS_CardinalityType
  <1>2. \A s \in SUBSET T : s # {} =>
           /\ FirstOf(s) \in s /\ s \ {FirstOf(s)} \in SUBSET T
           /\ Cardinality(s \ {FirstOf(s)}) = Cardinality(s) - 1
    <2> SUFFICES ASSUME NEW s \in SUBSET T, s # {}
                 PROVE  /\ FirstOf(s) \in s /\ s \ {FirstOf(s)} \in SUBSET T
                        /\ Cardinality(s \ {FirstOf(s)}) = Cardinality(s) - 1
      OBVIOUS
    <2>1. FirstOf(s) \in s BY DEF FirstOf
    <2> QED BY <1>1, <2>1, FS_RemoveElement
  <1>3. Reach(0)
    <2> DEFINE g == [s \in SUBSET T |-> 0]
    <2>1. g \in [SUBSET T -> Nat] OBVIOUS
    <2>2. \A s \in SUBSET T : Cardinality(s) <= 0 => s = {} BY <1>1, FS_EmptySet
    <2>3. Upto(g, 0) BY <2>2 DEF SumOne
    <2> QED BY <2>1, <2>3
  <1>4. ASSUME NEW n \in Nat, Reach(n) PROVE Reach(n + 1)
    <2>1. PICK g \in [SUBSET T -> Nat] : Upto(g, n) BY <1>4
    <2> DEFINE h == [s \in SUBSET T |-> IF Cardinality(s) <= n THEN g[s] ELSE SumOne(f, g, s)]
    <2>2. \A s \in SUBSET T : SumOne(f, g, s) \in Nat
      <3> HIDE DEF h
      <3> SUFFICES ASSUME NEW s \in SUBSET T PROVE SumOne(f, g, s) \in Nat OBVIOUS
      <3>1. CASE s = {} BY <3>1 DEF SumOne
      <3>2. CASE s # {}
        <4>1. FirstOf(s) \in T /\ s \ {FirstOf(s)} \in SUBSET T BY <1>2, <3>2
        <4>2. f[FirstOf(s)] \in Nat /\ g[s \ {FirstOf(s)}] \in Nat BY <4>1
        <4>3. SumOne(f, g, s) = f[FirstOf(s)] + g[s \ {FirstOf(s)}] BY <3>2 DEF SumOne
        <4> QED BY <4>2, <4>3
      <3> QED BY <3>1, <3>2
    <2>3. h \in [SUBSET T -> Nat] BY <2>2
    <2>4. ASSUME NEW s \in SUBSET T, Cardinality(s) <= n + 1 PROVE h[s] = SumOne(f, h, s)
      <3>1. h[s] = SumOne(f, g, s) BY <2>1
      <3>2. s # {} => h[s \ {FirstOf(s)}] = g[s \ {FirstOf(s)}]
        <4> SUFFICES ASSUME s # {} PROVE h[s \ {FirstOf(s)}] = g[s \ {FirstOf(s)}] OBVIOUS
        <4>1. s \ {FirstOf(s)} \in SUBSET T /\ Cardinality(s \ {FirstOf(s)}) <= n
          BY <1>1, <1>2, <2>4
        <4> QED BY <4>1
      <3> HIDE DEF h
      <3> QED BY <3>1, <3>2 DEF SumOne
    <2>5. Upto(h, n + 1) BY <2>4
    <2> QED BY <2>3, <2>5
  <1> HIDE DEF Reach
  <1>5. \A n \in Nat : Reach(n)
    <2> SUFFICES ASSUME B # {} PROVE FALSE OBVIOUS
    <2>1. B \subseteq Nat OBVIOUS
    <2>2. PICK m \in B : \A y \in B : m <= y BY <2>1, LeastExists
    <2>3. m \in Nat /\ m # 0 /\ ~Reach(m) BY <2>2, <1>3
    <2>4. m - 1 \in Nat /\ m - 1 \notin B BY <2>2, <2>3
    <2>5. Reach(m - 1) BY <2>4
    <2>6. Reach(m - 1 + 1) BY <1>4, <2>4, <2>5
    <2> QED BY <2>3, <2>6
  <1>6. Cardinality(T) \in Nat BY FS_CardinalityType
  <1>7. PICK g \in [SUBSET T -> Nat] : Upto(g, Cardinality(T)) BY <1>5, <1>6 DEF Reach
  <1>8. \A s \in SUBSET T : g[s] = SumOne(f, g, s) BY <1>1, <1>7
  <1>9. g = [s \in SUBSET T |-> g[s]] OBVIOUS
  <1>10. g = [s \in SUBSET T |-> SumOne(f, g, s)] BY <1>8, <1>9
  <1> QED BY <1>10 DEF IsSum

(* A sum grows by what one of its terms grows by. *)
LEMMA SumRaised ==
    ASSUME NEW T, IsFiniteSet(T), NEW f \in [T -> Nat], NEW t \in T, NEW h,
           h = [f EXCEPT ![t] = @ + 1]
    PROVE  SumOver(f, T) \in Nat /\ SumOver(h, T) = SumOver(f, T) + 1
  <1>1. h \in [T -> Nat] /\ h[t] = f[t] + 1 /\ \A u \in T : u # t => h[u] = f[u] OBVIOUS
  <1>2. PICK a : IsSum(a, f, T) /\ SumOver(f, T) = a[T] BY SumsExist DEF SumOver
  <1>3. PICK b : IsSum(b, h, T) /\ SumOver(h, T) = b[T] BY <1>1, SumsExist DEF SumOver
  <1>4. /\ \A s \in SUBSET T : a[s] = SumOne(f, a, s)
        /\ \A s \in SUBSET T : b[s] = SumOne(h, b, s)
    BY <1>2, <1>3 DEF IsSum
  <1> DEFINE Good(s) == a[s] \in Nat /\ b[s] = a[s] + (IF t \in s THEN 1 ELSE 0)
             Bad == {Cardinality(s) : s \in {r \in SUBSET T : ~Good(r)}}
  <1>5. \A s \in SUBSET T : IsFiniteSet(s) /\ Cardinality(s) \in Nat
    BY FS_Subset, FS_CardinalityType
  <1>6. \A s \in SUBSET T : s # {} =>
           /\ FirstOf(s) \in s /\ s \ {FirstOf(s)} \in SUBSET T
           /\ Cardinality(s \ {FirstOf(s)}) = Cardinality(s) - 1
    <2> SUFFICES ASSUME NEW s \in SUBSET T, s # {}
                 PROVE  /\ FirstOf(s) \in s /\ s \ {FirstOf(s)} \in SUBSET T
                        /\ Cardinality(s \ {FirstOf(s)}) = Cardinality(s) - 1
      OBVIOUS
    <2>1. FirstOf(s) \in s BY DEF FirstOf
    <2> QED BY <1>5, <2>1, FS_RemoveElement
  <1>7. Good({})
    <2>1. SumOne(f, a, {}) = 0 /\ SumOne(h, b, {}) = 0 BY DEF SumOne
    <2>2. a[{}] = 0 /\ b[{}] = 0 BY <1>4, <2>1
    <2> QED BY <2>2
  <1>8. ASSUME NEW s \in SUBSET T, s # {}, Good(s \ {FirstOf(s)}) PROVE Good(s)
    <2>1. FirstOf(s) \in s /\ FirstOf(s) \in T BY <1>6, <1>8
    <2>2. /\ a[s] = f[FirstOf(s)] + a[s \ {FirstOf(s)}]
          /\ b[s] = h[FirstOf(s)] + b[s \ {FirstOf(s)}]
      BY <1>4, <1>8 DEF SumOne
    <2>3. CASE FirstOf(s) = t BY <1>1, <1>8, <2>1, <2>2, <2>3
    <2>4. CASE FirstOf(s) # t
      <3>1. t \in s <=> t \in s \ {FirstOf(s)} BY <2>4
      <3> QED BY <1>1, <1>8, <2>1, <2>2, <2>4, <3>1
    <2> QED BY <2>3, <2>4
  <1> HIDE DEF Good
  <1>9. \A s \in SUBSET T : Good(s)
    <2> SUFFICES ASSUME NEW r \in SUBSET T, ~Good(r) PROVE FALSE OBVIOUS
    <2>1. Bad \subseteq Nat /\ Bad # {} BY <1>5
    <2>2. PICK m \in Bad : \A y \in Bad : m <= y BY <2>1, LeastExists
    <2>3. PICK s \in SUBSET T : ~Good(s) /\ m = Cardinality(s) BY <2>2
    <2>4. s # {} BY <1>7, <2>3
    <2>5. s \ {FirstOf(s)} \in SUBSET T /\ Cardinality(s \ {FirstOf(s)}) < m
      BY <1>5, <1>6, <2>3, <2>4
    <2>6. Good(s \ {FirstOf(s)})
      <3>1. SUFFICES ASSUME ~Good(s \ {FirstOf(s)}) PROVE FALSE OBVIOUS
      <3>2. Cardinality(s \ {FirstOf(s)}) \in Bad BY <2>5, <3>1
      <3>3. m <= Cardinality(s \ {FirstOf(s)}) BY <2>2, <3>2
      <3> HIDE DEF Bad
      <3>4. m \in Nat /\ Cardinality(s \ {FirstOf(s)}) \in Nat BY <2>1, <2>2, <3>2
      <3> QED BY <2>5, <3>3, <3>4
    <2> QED BY <1>8, <2>3, <2>4, <2>6
  <1>10. Good(T) BY <1>9
  <1> QED BY <1>2, <1>3, <1>10 DEF Good

LEMMA SumOfZeros ==
    ASSUME NEW T, IsFiniteSet(T), NEW f \in [T -> Nat], \A u \in T : f[u] = 0
    PROVE  SumOver(f, T) = 0
  <1>1. PICK a : IsSum(a, f, T) /\ SumOver(f, T) = a[T] BY SumsExist DEF SumOver
  <1>2. \A s \in SUBSET T : a[s] = SumOne(f, a, s) BY <1>1 DEF IsSum
  <1> DEFINE Bad == {Cardinality(s) : s \in {r \in SUBSET T : a[r] # 0}}
  <1>3. \A s \in SUBSET T : IsFiniteSet(s) /\ Cardinality(s) \in Nat
    BY FS_Subset, FS_CardinalityType
  <1>4. \A s \in SUBSET T : a[s] = 0
    <2> SUFFICES ASSUME NEW r \in SUBSET T, a[r] # 0 PROVE FALSE OBVIOUS
    <2>1. Bad \subseteq Nat /\ Bad # {} BY <1>3
    <2>2. PICK m \in Bad : \A y \in Bad : m <= y BY <2>1, LeastExists
    <2>3. PICK s \in SUBSET T : a[s] # 0 /\ m = Cardinality(s) BY <2>2
    <2>4. s # {} BY <1>2, <2>3 DEF SumOne
    <2>5. FirstOf(s) \in s BY <2>4 DEF FirstOf
    <2>6. s \ {FirstOf(s)} \in SUBSET T /\ Cardinality(s \ {FirstOf(s)}) < m
      BY <1>3, <2>3, <2>5, FS_RemoveElement
    <2>7. a[s \ {FirstOf(s)}] = 0
      <3>1. SUFFICES ASSUME a[s \ {FirstOf(s)}] # 0 PROVE FALSE OBVIOUS
      <3>2. Cardinality(s \ {FirstOf(s)}) \in Bad BY <2>6, <3>1
      <3>3. m <= Cardinality(s \ {FirstOf(s)}) BY <2>2, <3>2
      <3> HIDE DEF Bad
      <3>4. m \in Nat /\ Cardinality(s \ {FirstOf(s)}) \in Nat BY <2>1, <2>2, <3>2
      <3> QED BY <2>6, <3>3, <3>4
    <2> QED BY <1>2, <2>3, <2>4, <2>5, <2>7 DEF SumOne
  <1> QED BY <1>1, <1>4
LEMMA SumIsNat ==
    ASSUME NEW T, IsFiniteSet(T), NEW f \in [T -> Nat]
    PROVE  SumOver(f, T) \in Nat
  <1>1. CASE T = {}
    <2>1. \A u \in T : f[u] = 0 BY <1>1
    <2>2. SumOver(f, T) = 0 BY <2>1, SumOfZeros
    <2> QED BY <2>2
  <1>2. CASE T # {}
    <2>1. PICK t \in T : TRUE BY <1>2
    <2> QED BY <2>1, SumRaised
  <1> QED BY <1>1, <1>2
=============================================================================
