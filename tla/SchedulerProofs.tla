--------------------------- MODULE SchedulerProofs ---------------------------
(***************************************************************************)
(* The ready queues stay sound and the best process runs, for any number   *)
(* of processes and queues.                                                *)
(***************************************************************************)
EXTENDS Scheduler, QueueLemmas, FiniteSetTheorems

LEMMA PrependQueue ==
    ASSUME NEW S, NEW q \in Seq(S), NEW x \in S
    PROVE  /\ <<x>> \o q \in Seq(S)
           /\ \A y : Member(y, <<x>> \o q) <=> (Member(y, q) \/ y = x)
           /\ (Distinct(q) /\ ~Member(x, q)) => Distinct(<<x>> \o q)
  <1> DEFINE t == <<x>> \o q
  <1>0. Len(q) \in Nat /\ DOMAIN q = 1 .. Len(q) OBVIOUS
  <1>1. t \in Seq(S) /\ Len(t) = Len(q) + 1 /\ DOMAIN t = 1 .. Len(q) + 1
    OBVIOUS
  <1>2. t[1] = x /\ \A i \in 1 .. Len(q) : t[i + 1] = q[i]
    OBVIOUS
  <1> HIDE DEF t
  <1>3. \A i \in 1 .. Len(q) + 1 : i = 1 \/ (i - 1 \in 1 .. Len(q) /\ t[i] = q[i - 1])
    BY <1>0, <1>2
  <1>4. \A y : Member(y, t) <=> (Member(y, q) \/ y = x)
    <2>1. ASSUME NEW y, Member(y, t) PROVE Member(y, q) \/ y = x
      BY <1>0, <1>1, <1>2, <1>3, <2>1 DEF Member
    <2>2. ASSUME NEW y, Member(y, q) PROVE Member(y, t)
      <3>1. PICK i \in 1 .. Len(q) : q[i] = y BY <1>0, <2>2 DEF Member
      <3>2. i + 1 \in DOMAIN t /\ t[i + 1] = y BY <1>0, <1>1, <1>2, <3>1
      <3> QED BY <3>2 DEF Member
    <2>3. Member(x, t)
      <3>1. 1 \in DOMAIN t /\ t[1] = x BY <1>0, <1>1, <1>2
      <3> QED BY <3>1 DEF Member
    <2> QED BY <2>1, <2>2, <2>3
  <1>5. ASSUME Distinct(q), ~Member(x, q) PROVE Distinct(t)
    <2>1. SUFFICES ASSUME NEW i \in 1 .. Len(q) + 1, NEW j \in 1 .. Len(q) + 1, t[i] = t[j]
                   PROVE  i = j
      BY <1>1 DEF Distinct
    <2>2. \A a \in 1 .. Len(q) : q[a] # x BY <1>0, <1>5 DEF Member
    <2>3. \A a, b \in 1 .. Len(q) : q[a] = q[b] => a = b BY <1>0, <1>5 DEF Distinct
    <2>4. CASE i = 1 BY <1>0, <1>2, <1>3, <2>1, <2>2, <2>4
    <2>5. CASE j = 1 BY <1>0, <1>2, <1>3, <2>1, <2>2, <2>5
    <2>6. CASE i # 1 /\ j # 1
      <3>1. i - 1 = j - 1 BY <1>3, <2>1, <2>3, <2>6
      <3> QED BY <1>0, <3>1
    <2> QED BY <2>4, <2>5, <2>6
  <1> QED BY <1>1, <1>4, <1>5 DEF t

(* A set of slots as a sequence, highest first. *)
LEMMA DescendingIs ==
    ASSUME NEW S, S \subseteq Int, IsFiniteSet(S)
    PROVE  /\ Descending(S) \in Seq(S) /\ Distinct(Descending(S))
           /\ \A p : Member(p, Descending(S)) <=> p \in S
  <1> DEFINE n == Cardinality(S)
             Above(x) == {r \in S : r > x}
             f == [x \in S |-> Cardinality(Above(x)) + 1]
             g == [i \in 1 .. n |-> CHOOSE p \in S : Cardinality(Above(p)) = i - 1]
  <1>1. n \in Nat BY FS_CardinalityType
  <1>2. \A p \in S : IsFiniteSet(Above(p)) /\ Cardinality(Above(p)) \in Nat
    <2>1. \A p \in S : Above(p) \in SUBSET S OBVIOUS
    <2> QED BY <2>1, FS_Subset, FS_CardinalityType
  <1>3. \A p \in S : Cardinality(Above(p)) < n
    <2> SUFFICES ASSUME NEW p \in S PROVE Cardinality(Above(p)) < n OBVIOUS
    <2>1. Above(p) \in SUBSET S /\ p \notin Above(p) OBVIOUS
    <2> HIDE DEF Above
    <2>2. Cardinality(Above(p)) <= n /\ Cardinality(Above(p)) # n
      BY <2>1, FS_Subset
    <2> QED BY <1>1, <1>2, <2>2
  <1>4. ASSUME NEW p \in S, NEW q \in S, p < q
        PROVE  Cardinality(Above(p)) # Cardinality(Above(q))
    <2>a. p \in Int /\ q \in Int /\ \A r \in S : r \in Int OBVIOUS
    <2>b. \A r \in S : r > q => r > p BY <1>4, <2>a
    <2>1. Above(q) \in SUBSET Above(p) BY <2>b
    <2>2. q \in Above(p) BY <1>4
    <2>3. q \notin Above(q) BY <2>a
    <2>4. IsFiniteSet(Above(p)) BY <1>2
    <2> HIDE DEF Above
    <2> QED BY <2>1, <2>2, <2>3, <2>4, FS_Subset
  <1>5. f \in Injection(S, 1 .. n)
    <2>1. f \in [S -> 1 .. n]
      <3> HIDE DEF n, Above
      <3> QED BY <1>1, <1>2, <1>3
    <2>2. ASSUME NEW p \in S, NEW q \in S, f[p] = f[q] PROVE p = q
      <3>1. Cardinality(Above(p)) = Cardinality(Above(q))
        <4>1. f[p] = Cardinality(Above(p)) + 1 /\ f[q] = Cardinality(Above(q)) + 1
          OBVIOUS
        <4>2. Cardinality(Above(p)) \in Nat /\ Cardinality(Above(q)) \in Nat BY <1>2
        <4>3. \A a, b \in Nat : a + 1 = b + 1 => a = b OBVIOUS
        <4>4. Cardinality(Above(p)) + 1 = Cardinality(Above(q)) + 1 BY <2>2, <4>1
        <4> HIDE DEF f, Above
        <4> QED BY <4>2, <4>3, <4>4
      <3>2. p < q \/ q < p \/ p = q OBVIOUS
      <3> HIDE DEF Above, f
      <3> QED BY <1>4, <3>1, <3>2
    <2> HIDE DEF f, n
    <2> QED BY <2>1, <2>2 DEF Injection, IsInjective
  <1>6. IsFiniteSet(1 .. n) /\ Cardinality(1 .. n) = n
    <2> HIDE DEF n
    <2> QED BY <1>1, FS_Interval
  <1>7. f \in Surjection(S, 1 .. n)
    <2> HIDE DEF f
    <2> QED BY <1>5, <1>6, FS_Injection
  <1>8. \A i \in 1 .. n : \E p \in S : Cardinality(Above(p)) = i - 1
    <2> SUFFICES ASSUME NEW i \in 1 .. n PROVE \E p \in S : Cardinality(Above(p)) = i - 1
      OBVIOUS
    <2>1. PICK p \in S : f[p] = i
      <3> HIDE DEF f
      <3> QED BY <1>7 DEF Surjection
    <2>2. Cardinality(Above(p)) + 1 = i BY <2>1
    <2> HIDE DEF Above, n
    <2> QED BY <1>1, <1>2, <2>2
  <1>9. \A i \in 1 .. n : g[i] \in S /\ f[g[i]] = i
    <2> SUFFICES ASSUME NEW i \in 1 .. n PROVE g[i] \in S /\ f[g[i]] = i
      OBVIOUS
    <2>1. g[i] \in S /\ Cardinality(Above(g[i])) = i - 1
      <3>1. g[i] = CHOOSE p \in S : Cardinality(Above(p)) = i - 1 OBVIOUS
      <3> HIDE DEF g, Above, n
      <3> QED BY <1>8, <3>1
    <2>2. f[g[i]] = Cardinality(Above(g[i])) + 1 BY <2>1
    <2> HIDE DEF f, g, n, Above
    <2> QED BY <1>1, <2>1, <2>2
  <1>10. Descending(S) = g /\ DOMAIN g = 1 .. n BY DEF Descending
  <1>a. g \in [1 .. n -> S] BY <1>9
  <1> HIDE DEF f, g, n
  <1>11. g \in Seq(S)
    BY <1>1, <1>a
  <1>12. Distinct(g)
    BY <1>9, <1>10 DEF Distinct
  <1>13. \A p : Member(p, g) <=> p \in S
    <2>1. \A p \in S : f[p] \in 1 .. n /\ g[f[p]] = p
      BY <1>5, <1>9 DEF Injection, IsInjective
    <2> QED BY <1>9, <1>10, <2>1 DEF Member
  <1> QED BY <1>10, <1>11, <1>12, <1>13
-----------------------------------------------------------------------------
(* The inductive invariant, on the record that the functions of proc.c are  *)
(* applied to.                                                              *)

Flag == {"SLOT_FREE", "RECEIVING", "SYS_LOCK", "SIGNALED", "SIG_PENDING"}

State == [rts : [Proc -> SUBSET Flag], pri : [Proc -> Queues], left : [Proc -> Int],
          rdy : [Queues -> Seq(Proc)], proc : Proc, next : Proc \cup {NIL}, bill : Proc]

Ready(k) == {p \in Proc : k.rts[p] = {}}

(* The queues hold the processes of R, each once, by priority. *)
Queued(k, R) == \A q \in Queues :
    /\ Distinct(k.rdy[q])
    /\ \A p \in Proc : Member(p, k.rdy[q]) <=> (p \in R /\ k.pri[p] = q)

Best(k, R, p) == p \in R /\ \A r \in R : k.pri[p] <= k.pri[r]

(* IDLE is always ready and alone on its queue, and CLOCK, which is never   *)
(* billed, stays on the first one.                                          *)
Limits(k) ==
    /\ k.rts[IDLE] = {} /\ k.pri[IDLE] = IDLE_Q
    /\ \A p \in Proc \ {IDLE} : k.pri[p] < IDLE_Q
    /\ k.pri[CLOCK] = 0 /\ k.left[CLOCK] > 0
    /\ k.bill \in Billable

Sound(k) == k \in State /\ Queued(k, Ready(k)) /\ Limits(k)

(* The clock task waits for a tick. *)
Asleep(k) == k.rts[CLOCK] # {}

(* The one that runs may be replaced: it is preemptible, or blocked, or the *)
(* clock task, which can dequeue itself.                                    *)
Leaves(k) == k.proc \in Preemptible \/ k.rts[k.proc] # {} \/ k.proc = CLOCK

(* The process that runs is ready and, while the clock task waits, need not *)
(* make room for anybody ...                                                *)
Runs(k) ==
    /\ k.rts[k.proc] = {}
    /\ Asleep(k) => (k.proc \in Preemptible => Best(k, Ready(k), k.proc))

(* ... or the one that is chosen to be next is ready and need not.          *)
Chosen(k) ==
    IF k.next = NIL THEN Runs(k)
    ELSE /\ k.rts[k.next] = {}
         /\ Asleep(k) => Best(k, Ready(k), k.next)
         /\ Leaves(k)

(* A process has been chosen only if the clock task dequeued itself. *)
Alone(k) == k.next = NIL \/ (k.proc = CLOCK /\ k.rts[CLOCK] = {})

(* Priorities and their limits, and what the tasks have in hand. *)
MaxInv ==
    /\ p_max_priority \in [Proc -> Queues] /\ p_max_priority[IDLE] = IDLE_Q
    /\ \A p \in Proc : p_max_priority[p] <= p_priority[p]

(* With a tick in the window the clock task may requeue itself, and then    *)
(* goes on, up to the next trap or tick, with another process chosen.       *)
ClockInv ==
    /\ {prev_ptr, bill_copy} \subseteq Proc /\ bal \in Proc \cup {NIL}
    /\ bal # NIL => proc_ptr = CLOCK /\ clk = "balance"
    /\ clk \in {"start", "requeue"} => next_ptr = NIL
    /\ clk = "requeue" => /\ proc_ptr = CLOCK /\ rts[prev_ptr] = {}
                          /\ prev_ptr \in Preemptible \/ prev_ptr = CLOCK

SysInv ==
    /\ sysop.op = "nice" => sysop.on \in Users /\ "SYS_LOCK" \in rts[sysop.on]
    /\ sysop.op \in VTimer => sysop.on \in Timed
    /\ armed \in [Proc -> SUBSET VTimer] /\ p_pending \in [Proc -> SUBSET VTimer]
    /\ \A p \in Proc \ Timed : armed[p] = {}

QueueInv ==
    /\ Sound(Now) /\ Chosen(Now) /\ rts[proc_ptr] = {}
    /\ next_ptr # NIL => proc_ptr = CLOCK

SchedInv ==
    /\ QueueInv
    /\ MaxInv /\ ClockInv /\ SysInv

LEMMA Slots ==
    /\ IDLE \in Proc /\ CLOCK \in Proc /\ SYSTEM \in Proc /\ PM \in Proc
    /\ IDLE # CLOCK /\ IDLE # SYSTEM /\ CLOCK # SYSTEM
    /\ CLOCK \notin Preemptible /\ SYSTEM \notin Preemptible
    /\ \A p \in Users : p \in Proc /\ p # IDLE /\ p # CLOCK /\ p # SYSTEM
    /\ NIL \notin Proc /\ PM \in Users /\ Billable \subseteq Proc
    /\ CLOCK \notin Billable
  <1>1. IDLE \in Proc /\ CLOCK \in Proc /\ SYSTEM \in Proc /\ PM \in Proc /\ PM \in Users
    BY SchedAssumption DEF Users
  <1>2. IDLE # CLOCK /\ IDLE # SYSTEM /\ CLOCK # SYSTEM BY DEF IDLE, CLOCK, SYSTEM
  <1>3. CLOCK \notin Preemptible /\ SYSTEM \notin Preemptible /\ Billable \subseteq Preemptible
        /\ Preemptible \subseteq Proc
    BY SchedAssumption
  <1>4. \A p \in Users : p \in Proc /\ p # IDLE /\ p # CLOCK /\ p # SYSTEM
    BY DEF IDLE, CLOCK, SYSTEM, Users
  <1>5. NIL \notin Proc BY SchedAssumption
  <1> QED BY <1>1, <1>2, <1>3, <1>4, <1>5

LEMMA QueueNumbers == IDLE_Q \in Nat /\ IDLE_Q >= 2 /\ Queues \subseteq Nat /\ Queues \subseteq Int
  BY QuantumAssumption DEF Queues

(* sched: the priority and quantum of one process. *)
LEMMA SchedIs ==
    ASSUME NEW k \in State, Limits(k), NEW p \in Proc
    PROVE  LET s == sched(k, p)
           IN  /\ s \in State /\ Limits(s)
               /\ s.rts = k.rts /\ s.rdy = k.rdy /\ s.proc = k.proc /\ s.next = k.next
               /\ s.bill = k.bill
               /\ \A r \in Proc : r # p => s.pri[r] = k.pri[r] /\ s.left[r] = k.left[r]
               /\ k.pri[p] <= s.pri[p]
  <1>1. CASE k.left[p] > 0
    <2>1. sched(k, p) = k BY <1>1 DEF sched
    <2>2. k.pri[p] \in Int BY QuantumAssumption DEF State, Queues
    <2> QED BY <2>1, <2>2
  <1>2. CASE ~(k.left[p] > 0)
    <2> DEFINE s == sched(k, p)
    <2>0. k.pri \in [Proc -> Queues] /\ k.left \in [Proc -> Int] /\ IDLE_Q \in Nat /\ IDLE_Q >= 2
          /\ p_quantum_size[p] \in Nat \ {0}
      BY QuantumAssumption DEF State
    <2>1. s = [k EXCEPT !.left[p] = p_quantum_size[p],
                        !.pri[p] = IF @ < IDLE_Q - 1 THEN @ + 1 ELSE @]
      BY <1>2 DEF sched
    <2>2. /\ s.rts = k.rts /\ s.rdy = k.rdy /\ s.proc = k.proc /\ s.next = k.next /\ s.bill = k.bill
          /\ s.left = [k.left EXCEPT ![p] = p_quantum_size[p]]
          /\ s.pri = [k.pri EXCEPT ![p] = IF @ < IDLE_Q - 1 THEN @ + 1 ELSE @]
      BY <2>1 DEF State
    <2>3. /\ s.pri \in [Proc -> Queues] /\ s.left \in [Proc -> Int]
          /\ \A r \in Proc : r # p => s.pri[r] = k.pri[r] /\ s.left[r] = k.left[r]
          /\ s.left[p] = p_quantum_size[p]
          /\ s.pri[p] = IF k.pri[p] < IDLE_Q - 1 THEN k.pri[p] + 1 ELSE k.pri[p]
      BY <2>0, <2>2 DEF Queues
    <2>4. s \in State
      BY <2>1, <2>2, <2>3 DEF State
    <2>5. Limits(s)
      BY <1>2, <2>0, <2>2, <2>3, Slots DEF Limits, Queues
    <2>6. k.pri[p] <= s.pri[p] BY <2>0, <2>3 DEF Queues
    <2> QED BY <2>2, <2>3, <2>4, <2>5, <2>6
  <1> QED BY <1>1, <1>2

(* pick_proc: the head of the first queue with somebody on it. *)
LEMMA PickIs ==
    ASSUME NEW k \in State, NEW R, R \subseteq Proc, R # {}, Queued(k, R)
    PROVE  LET n == pick_proc(k)
           IN  /\ n \in State
               /\ n.rts = k.rts /\ n.pri = k.pri /\ n.left = k.left /\ n.rdy = k.rdy
               /\ n.proc = k.proc /\ Best(k, R, n.next)
               /\ k.bill \in Billable => n.bill \in Billable
  <1> DEFINE Q == {q \in Queues : k.rdy[q] # <<>>}
             f == FirstQueue(k)
             p == Head(k.rdy[f])
  <1>0. /\ Queues \subseteq Nat
        /\ k.pri \in [Proc -> Queues] /\ k.rdy \in [Queues -> Seq(Proc)]
    BY QueueNumbers DEF State
  <1>1. \A r \in R : k.rdy[k.pri[r]] # <<>> /\ k.pri[r] \in Queues
    <2>1. \A r \in R : k.pri[r] \in Queues BY <1>0
    <2>2. \A r \in R : Member(r, k.rdy[k.pri[r]]) BY <2>1 DEF Queued
    <2>3. \A r : ~Member(r, <<>>) BY DEF Member
    <2> QED BY <2>1, <2>2, <2>3
  <1>2. f \in Queues /\ k.rdy[f] # <<>> /\ \A r \in Queues : r < f => k.rdy[r] = <<>>
    <2>1. Q # {} /\ Q \subseteq Nat BY <1>0, <1>1
    <2>2. PICK q \in Q : \A r \in Q : q <= r BY <2>1, LeastExists
    <2>3. q \in Queues /\ k.rdy[q] # <<>> /\ \A r \in Queues : r < q => k.rdy[r] = <<>>
      BY <1>0, <2>2
    <2> QED BY <2>3 DEF FirstQueue
  <1> HIDE DEF f
  <1>3. p \in Proc /\ Member(p, k.rdy[f])
    <2>1. k.rdy[f] \in Seq(Proc) /\ k.rdy[f] # <<>> BY <1>0, <1>2
    <2>2. 1 \in DOMAIN k.rdy[f] /\ p = k.rdy[f][1] BY <2>1
    <2> QED BY <2>1, <2>2 DEF Member
  <1> HIDE DEF p
  <1>4. p \in R /\ k.pri[p] = f BY <1>2, <1>3 DEF Queued
  <1>5. Best(k, R, p)
    <2>1. \A r \in R : f <= k.pri[r]
      <3> SUFFICES ASSUME NEW r \in R PROVE f <= k.pri[r] OBVIOUS
      <3>1. k.pri[r] \in Nat /\ f \in Nat /\ ~(k.pri[r] < f) BY <1>0, <1>1, <1>2
      <3> QED BY <3>1
    <2> QED BY <1>4, <2>1 DEF Best
  <1>6. pick_proc(k) = [k EXCEPT !.next = p, !.bill = IF p \in Billable THEN p ELSE @]
    BY DEF pick_proc, p, f
  <1> QED BY <1>3, <1>5, <1>6 DEF State

LEMMA EnqueueIs ==
    ASSUME NEW k \in State, Limits(k), NEW p \in Ready(k), Queued(k, Ready(k) \ {p})
    PROVE  LET e == enqueue(k, p)
           IN  /\ Sound(e) /\ e.rts = k.rts /\ e.proc = k.proc
               /\ \A r \in Proc : k.pri[r] <= e.pri[r] /\ (r # p => e.pri[r] = k.pri[r])
               /\ \/ /\ e.next = k.next
                     /\ k.proc \in Preemptible => e.pri[k.proc] <= e.pri[p]
                  \/ k.proc \in Preemptible /\ Best(e, Ready(e), e.next)
  <1> DEFINE s == sched(k, p)
             t == IF k.left[p] > 0 THEN <<p>> \o s.rdy[s.pri[p]] ELSE Append(s.rdy[s.pri[p]], p)
             e == [s EXCEPT !.rdy[s.pri[p]] = t]
  <1>0. p \in Proc /\ k.rts[p] = {} BY DEF Ready
  <1>1. /\ s \in State /\ Limits(s)
        /\ s.rts = k.rts /\ s.rdy = k.rdy /\ s.proc = k.proc /\ s.next = k.next /\ s.bill = k.bill
        /\ \A r \in Proc : r # p => s.pri[r] = k.pri[r] /\ s.left[r] = k.left[r]
        /\ k.pri[p] <= s.pri[p]
    BY <1>0, SchedIs
  <1>2. enqueue(k, p) = IF e.pri[e.proc] > e.pri[p] /\ e.proc \in Preemptible
                        THEN pick_proc(e) ELSE e
    BY DEF enqueue
  <1> HIDE DEF s
  <1>3. /\ s.pri[p] \in Queues /\ s.rdy \in [Queues -> Seq(Proc)] /\ s.rdy[s.pri[p]] \in Seq(Proc)
        /\ k.pri \in [Proc -> Queues] /\ Queues \subseteq Int
    BY <1>0, <1>1, QueueNumbers DEF State
  <1>4. ~Member(p, s.rdy[s.pri[p]]) /\ Distinct(s.rdy[s.pri[p]])
    BY <1>0, <1>1, <1>3 DEF Queued
  <1>5. t \in Seq(Proc) /\ Distinct(t) /\ \A y : Member(y, t) <=> (Member(y, s.rdy[s.pri[p]]) \/ y = p)
    <2>1. CASE k.left[p] > 0 BY <1>0, <1>3, <1>4, <2>1, PrependQueue
    <2>2. CASE ~(k.left[p] > 0) BY <1>0, <1>3, <1>4, <2>2, AppendQueue
    <2> QED BY <2>1, <2>2
  <1> HIDE DEF t
  <1>6. /\ e.rts = k.rts /\ e.pri = s.pri /\ e.left = s.left /\ e.proc = k.proc /\ e.next = k.next
        /\ e.bill = s.bill /\ e.rdy = [s.rdy EXCEPT ![s.pri[p]] = t]
        /\ e \in State
    BY <1>1, <1>3, <1>5 DEF State
  <1>7. Limits(e) BY <1>1, <1>6 DEF Limits
  <1>8. Queued(e, Ready(e))
    <2> SUFFICES ASSUME NEW q \in Queues
                 PROVE  /\ Distinct(e.rdy[q])
                        /\ \A r \in Proc : Member(r, e.rdy[q]) <=> (r \in Ready(e) /\ e.pri[r] = q)
      BY DEF Queued
    <2>0. Ready(e) = Ready(k) BY <1>6 DEF Ready
    <2>1. CASE q = s.pri[p]
      <3>1. e.rdy[q] = t BY <1>3, <1>6, <2>1
      <3>2. \A r \in Proc : Member(r, s.rdy[q]) <=> (r \in Ready(k) /\ r # p /\ k.pri[r] = q)
        BY <1>1 DEF Queued
      <3> QED BY <1>0, <1>1, <1>5, <1>6, <2>0, <2>1, <3>1, <3>2
    <2>2. CASE q # s.pri[p]
      <3>1. e.rdy[q] = k.rdy[q] BY <1>1, <1>3, <1>6, <2>2
      <3>2. Distinct(k.rdy[q]) /\
            \A r \in Proc : Member(r, k.rdy[q]) <=> (r \in Ready(k) /\ r # p /\ k.pri[r] = q)
        BY DEF Queued
      <3> QED BY <1>0, <1>1, <1>6, <2>0, <2>2, <3>1, <3>2
    <2> QED BY <2>1, <2>2
  <1>9. \A r \in Proc : k.pri[r] <= e.pri[r] /\ (r # p => e.pri[r] = k.pri[r])
    BY <1>1, <1>3, <1>6
  <1> HIDE DEF e
  <1>10. CASE e.pri[e.proc] > e.pri[p] /\ e.proc \in Preemptible
    <2> DEFINE n == pick_proc(e)
    <2>1. Ready(e) \subseteq Proc /\ Ready(e) # {} BY <1>0, <1>6 DEF Ready
    <2>2. /\ n \in State /\ n.rts = e.rts /\ n.pri = e.pri /\ n.left = e.left /\ n.rdy = e.rdy
          /\ n.proc = e.proc /\ Best(e, Ready(e), n.next)
          /\ e.bill \in Billable => n.bill \in Billable
      BY <1>6, <1>8, <2>1, PickIs
    <2>3. enqueue(k, p) = n BY <1>2, <1>10
    <2> HIDE DEF n
    <2>4. Ready(n) = Ready(e) BY <2>2 DEF Ready
    <2>5. Sound(n) BY <1>7, <1>8, <2>2, <2>4 DEF Sound, Limits, Queued
    <2>6. Best(n, Ready(n), n.next) BY <2>2, <2>4 DEF Best
    <2> QED BY <1>6, <1>9, <1>10, <2>2, <2>3, <2>5, <2>6
  <1>11. CASE ~(e.pri[e.proc] > e.pri[p] /\ e.proc \in Preemptible)
    <2>1. enqueue(k, p) = e BY <1>2, <1>11
    <2>2. Sound(e) BY <1>6, <1>7, <1>8 DEF Sound
    <2>3. k.proc \in Preemptible => e.pri[k.proc] <= e.pri[p]
      <3>1. e.pri[k.proc] \in Int /\ e.pri[p] \in Int
        BY <1>0, <1>3, <1>6 DEF State
      <3> QED BY <1>6, <1>11, <3>1
    <2> QED BY <1>6, <1>9, <2>1, <2>2, <2>3
  <1> QED BY <1>10, <1>11

LEMMA DequeueIs ==
    ASSUME NEW k, Sound(k), NEW p \in Ready(k), p # IDLE \/ p \notin {k.proc, k.next}
    PROVE  LET d == dequeue(k, p)
           IN  /\ d \in State /\ Limits(d) /\ Queued(d, Ready(k) \ {p})
               /\ d.rts = k.rts /\ d.pri = k.pri /\ d.proc = k.proc
               /\ IF p \in {k.proc, k.next} THEN Best(d, Ready(k) \ {p}, d.next)
                  ELSE d.next = k.next
  <1> DEFINE t == RemoveFirst(k.rdy[k.pri[p]], p)
             d == [k EXCEPT !.rdy[k.pri[p]] = t]
  <1>0. p \in Proc /\ k.rts[p] = {} /\ k \in State /\ Queued(k, Ready(k)) /\ Limits(k)
    BY DEF Ready, Sound
  <1>1. /\ k.pri[p] \in Queues /\ k.rdy \in [Queues -> Seq(Proc)] /\ k.rdy[k.pri[p]] \in Seq(Proc)
        /\ k.pri \in [Proc -> Queues]
    BY <1>0 DEF State
  <1>2. Member(p, k.rdy[k.pri[p]]) /\ Distinct(k.rdy[k.pri[p]])
    BY <1>0, <1>1 DEF Queued
  <1>3. t \in Seq(Proc) /\ Distinct(t) /\ \A y : Member(y, t) <=> (Member(y, k.rdy[k.pri[p]]) /\ y # p)
    BY <1>1, <1>2, RemoveFirstQueue
  <1>4. Contains(k.rdy[k.pri[p]], p)
    BY <1>1, <1>2 DEF Contains, Member
  <1>5. dequeue(k, p) = IF p \in {k.proc, k.next} THEN pick_proc(d) ELSE d
    BY <1>4 DEF dequeue
  <1> HIDE DEF t
  <1>6. /\ d.rts = k.rts /\ d.pri = k.pri /\ d.left = k.left /\ d.proc = k.proc /\ d.next = k.next
        /\ d.bill = k.bill /\ d.rdy = [k.rdy EXCEPT ![k.pri[p]] = t]
        /\ d \in State
    BY <1>0, <1>1, <1>3 DEF State
  <1> HIDE DEF d
  <1>7. Limits(d) BY <1>0, <1>6 DEF Limits
  <1>8. Queued(d, Ready(k) \ {p})
    <2> SUFFICES ASSUME NEW q \in Queues
                 PROVE  /\ Distinct(d.rdy[q])
                        /\ \A r \in Proc : Member(r, d.rdy[q]) <=> (r \in Ready(k) \ {p} /\ d.pri[r] = q)
      BY DEF Queued
    <2>0. Distinct(k.rdy[q]) /\ \A r \in Proc : Member(r, k.rdy[q]) <=> (r \in Ready(k) /\ k.pri[r] = q)
      BY <1>0 DEF Queued
    <2>1. CASE q = k.pri[p] BY <1>0, <1>1, <1>3, <1>6, <2>0, <2>1
    <2>2. CASE q # k.pri[p] BY <1>0, <1>1, <1>6, <2>0, <2>2
    <2> QED BY <2>1, <2>2
  <1>9. CASE p \in {k.proc, k.next}
    <2> DEFINE n == pick_proc(d)
               R == Ready(k) \ {p}
    <2>1. R \subseteq Proc /\ R # {} BY <1>0, <1>9, Slots DEF Ready, Limits
    <2>2. Queued(d, R) BY <1>8
    <2> HIDE DEF R
    <2>3. /\ n \in State /\ n.rts = d.rts /\ n.pri = d.pri /\ n.left = d.left /\ n.rdy = d.rdy
          /\ n.proc = d.proc /\ Best(d, R, n.next)
          /\ d.bill \in Billable => n.bill \in Billable
      BY <1>6, <2>1, <2>2, PickIs
    <2>4. dequeue(k, p) = n BY <1>5, <1>9
    <2> HIDE DEF n
    <2>5. Limits(n) BY <1>7, <2>3 DEF Limits
    <2>6. Queued(n, R) BY <2>2, <2>3 DEF Queued
    <2>7. Best(n, R, n.next) BY <2>3 DEF Best
    <2> QED BY <1>6, <1>9, <2>3, <2>4, <2>5, <2>6, <2>7 DEF R
  <1>10. CASE p \notin {k.proc, k.next}
    BY <1>5, <1>6, <1>7, <1>8, <1>10
  <1> QED BY <1>9, <1>10
Good(k) == Sound(k) /\ Chosen(k)

(* Clearing flags: the process may come onto its queue. *)
LEMMA UnsetGood ==
    ASSUME NEW k, Good(k), Alone(k), NEW p \in Proc, NEW f
    PROVE  LET u == RTS_UNSET(k, p, f)
           IN  /\ Good(u) /\ u.proc = k.proc /\ u.rts = [k.rts EXCEPT ![p] = @ \ f]
               /\ \A r \in Proc : k.pri[r] <= u.pri[r]
               /\ k.proc \notin Preemptible => u.next = k.next
  <1> DEFINE w == [k EXCEPT !.rts[p] = @ \ f]
             u == RTS_UNSET(k, p, f)
  <1>0. k \in State /\ Queued(k, Ready(k)) /\ Limits(k) /\ Chosen(k) BY DEF Sound, Good
  <1>1. /\ w.rts = [k.rts EXCEPT ![p] = @ \ f] /\ w.pri = k.pri /\ w.left = k.left
        /\ w.rdy = k.rdy /\ w.proc = k.proc /\ w.next = k.next /\ w.bill = k.bill
        /\ w \in State
    BY <1>0 DEF State
  <1>2. u = IF k.rts[p] # {} /\ w.rts[p] = {} THEN enqueue(w, p) ELSE w
    BY DEF RTS_UNSET
  <1> HIDE DEF w, u
  <1>3. /\ w.rts[p] = k.rts[p] \ f /\ \A r \in Proc : r # p => w.rts[r] = k.rts[r]
        /\ k.pri \in [Proc -> Queues] /\ k.proc \in Proc /\ k.next \in Proc \cup {NIL}
    BY <1>0, <1>1 DEF State
  <1>4. Limits(w) BY <1>0, <1>1, <1>3, Slots DEF Limits
  <1>5. \/ k.next = NIL /\ k.proc \in Ready(k)
        \/ k.next # NIL /\ k.next \in Ready(k) /\ k.proc = CLOCK /\ k.rts[CLOCK] = {}
    BY <1>0, <1>3 DEF Chosen, Runs, Ready, Alone
  <1>a. (k.next = NIL /\ Asleep(k) /\ k.proc \in Preemptible)
            => \A r \in Ready(k) : k.pri[k.proc] <= k.pri[r]
    BY <1>0, <1>5 DEF Chosen, Runs, Best
  <1>b. ASSUME NEW x, x.proc = k.proc, x.next = k.next, Ready(k) \subseteq Ready(x),
               ~Asleep(k)
        PROVE  Chosen(x)
    <2>1. CLOCK \in Ready(x) BY <1>b, Slots DEF Asleep, Ready
    <2>2. ~Asleep(x) BY <2>1 DEF Asleep, Ready
    <2> QED BY <1>5, <1>b, <2>2 DEF Chosen, Runs, Ready, Leaves
  <1>c. Asleep(k) => k.next = NIL BY <1>5 DEF Asleep
  <1>d. Asleep(w) => Asleep(k) BY <1>3, Slots DEF Asleep
  <1>6. CASE k.rts[p] # {} /\ w.rts[p] = {}
    <2>1. u = enqueue(w, p) BY <1>2, <1>6
    <2>2. Ready(w) = Ready(k) \cup {p} /\ p \notin Ready(k) BY <1>3, <1>6 DEF Ready
    <2>3. Ready(w) \ {p} = Ready(k) /\ p \in Ready(w) BY <2>2
    <2>4. Queued(w, Ready(w) \ {p}) BY <1>0, <1>1, <2>3 DEF Queued
    <2>5. /\ Sound(u) /\ u.rts = w.rts /\ u.proc = w.proc
          /\ \A r \in Proc : w.pri[r] <= u.pri[r] /\ (r # p => u.pri[r] = w.pri[r])
          /\ \/ /\ u.next = w.next
                /\ w.proc \in Preemptible => u.pri[w.proc] <= u.pri[p]
             \/ w.proc \in Preemptible /\ Best(u, Ready(u), u.next)
      BY <1>1, <1>4, <2>1, <2>3, <2>4, EnqueueIs
    <2>6. Ready(u) = Ready(k) \cup {p} BY <2>2, <2>5 DEF Ready
    <2>7. CASE u.next = w.next /\ (w.proc \in Preemptible => u.pri[w.proc] <= u.pri[p])
      <3>1. CASE ~Asleep(k)
        <4>1. Chosen(u) BY <1>1, <1>b, <2>5, <2>6, <2>7, <3>1
        <4> QED BY <1>1, <2>5, <2>7, <4>1 DEF Good, u
      <3>2. CASE Asleep(k)
        <4>0. k.next = NIL /\ u.next = NIL /\ k.proc \in Ready(k) BY <1>1, <1>5, <1>c, <2>7, <3>2
        <4>1. k.proc # p BY <2>2, <4>0
        <4>2. u.rts[u.proc] = {} BY <1>1, <2>5, <2>6, <4>0, <4>1 DEF Ready
        <4>3. ASSUME k.proc \in Preemptible PROVE Best(u, Ready(u), u.proc)
          <5>1. \A r \in Ready(k) : u.pri[r] = k.pri[r] BY <1>1, <2>2, <2>5 DEF Ready
          <5>2. \A r \in Ready(k) : u.pri[k.proc] <= u.pri[r] BY <1>a, <3>2, <4>0, <4>3, <5>1
          <5>3. u.pri[k.proc] <= u.pri[p] BY <1>1, <2>7, <4>3
          <5> QED BY <1>1, <2>5, <2>6, <4>0, <5>2, <5>3 DEF Best
        <4>4. Chosen(u) BY <1>1, <2>5, <4>0, <4>2, <4>3 DEF Chosen, Runs
        <4> QED BY <1>1, <2>5, <2>7, <4>4 DEF Good, u
      <3> QED BY <3>1, <3>2
    <2>8. CASE w.proc \in Preemptible /\ Best(u, Ready(u), u.next)
      <3>1. u.next # NIL /\ u.rts[u.next] = {} BY <2>8, Slots DEF Best, Ready
      <3>2. Chosen(u) BY <2>5, <2>8, <3>1 DEF Chosen, Leaves
      <3> QED BY <1>1, <2>5, <2>8, <3>2 DEF Good, u
    <2> QED BY <2>5, <2>7, <2>8
  <1>7. CASE ~(k.rts[p] # {} /\ w.rts[p] = {})
    <2>1. u = w BY <1>2, <1>7
    <2>2. Ready(w) = Ready(k) BY <1>3, <1>7 DEF Ready
    <2>3. Sound(w) BY <1>0, <1>1, <1>4, <2>2 DEF Sound, Queued
    <2>4. Chosen(w)
      <3>1. CASE ~Asleep(k) BY <1>1, <1>b, <2>2, <3>1
      <3>2. CASE Asleep(k)
        <4>1. w.next = NIL /\ w.rts[w.proc] = {} BY <1>1, <1>5, <1>c, <2>2, <3>2 DEF Ready
        <4> QED BY <1>1, <1>5, <1>a, <1>c, <2>2, <3>2, <4>1 DEF Chosen, Runs, Best
      <3> QED BY <3>1, <3>2
    <2>5. \A r \in Proc : k.pri[r] <= w.pri[r]
      <3>1. \A r \in Proc : k.pri[r] \in Int BY <1>3, QueueNumbers
      <3> QED BY <1>1, <3>1
    <2> QED BY <1>1, <2>1, <2>3, <2>4, <2>5 DEF Good, u
  <1> QED BY <1>6, <1>7 DEF u

(* The process gets flags g, for which it leaves its queue. *)
TakeOff(k, p, g) ==
    LET d == IF k.rts[p] = {} THEN dequeue(k, p) ELSE k
    IN  [d EXCEPT !.rts[p] = g]

LEMMA TakeOffGood ==
    ASSUME NEW k, Good(k), NEW p \in Proc \ {IDLE}, NEW g \in SUBSET Flag, g # {},
           p = CLOCK => k.proc = CLOCK
    PROVE  LET u == TakeOff(k, p, g)
           IN  /\ Good(u) /\ u.proc = k.proc /\ u.rts = [k.rts EXCEPT ![p] = g]
               /\ u.pri = k.pri
               /\ p \notin {k.proc, k.next} => u.next = k.next
  <1> DEFINE d == IF k.rts[p] = {} THEN dequeue(k, p) ELSE k
             u == [d EXCEPT !.rts[p] = g]
  <1>0. k \in State /\ Queued(k, Ready(k)) /\ Limits(k) /\ Chosen(k) BY DEF Good, Sound
  <1>1. /\ d \in State /\ Limits(d) /\ Queued(d, Ready(k) \ {p})
        /\ d.rts = k.rts /\ d.pri = k.pri /\ d.proc = k.proc
        /\ IF p \in Ready(k) /\ p \in {k.proc, k.next} THEN Best(d, Ready(k) \ {p}, d.next)
           ELSE d.next = k.next
    <2>1. CASE k.rts[p] = {}
      <3>1. p \in Ready(k) /\ p # IDLE BY <2>1 DEF Ready
      <3>2. d = dequeue(k, p) BY <2>1
      <3> HIDE DEF d
      <3>3. /\ d \in State /\ Limits(d) /\ Queued(d, Ready(k) \ {p})
            /\ d.rts = k.rts /\ d.pri = k.pri /\ d.proc = k.proc
            /\ IF p \in {k.proc, k.next} THEN Best(d, Ready(k) \ {p}, d.next)
               ELSE d.next = k.next
        BY <3>1, <3>2, DequeueIs DEF Good
      <3> QED BY <3>1, <3>3
    <2>2. CASE k.rts[p] # {}
      <3>1. p \notin Ready(k) BY <2>2 DEF Ready
      <3>2. Ready(k) \ {p} = Ready(k) /\ d = k BY <2>2, <3>1
      <3> QED BY <1>0, <3>1, <3>2
    <2> QED BY <2>1, <2>2
  <1>a. TakeOff(k, p, g) = u BY DEF TakeOff
  <1> HIDE DEF d
  <1>2. /\ u.rts = [k.rts EXCEPT ![p] = g] /\ u.pri = k.pri /\ u.left = d.left
        /\ u.rdy = d.rdy /\ u.proc = k.proc /\ u.next = d.next /\ u.bill = d.bill
        /\ u \in State
    BY <1>1 DEF State
  <1> HIDE DEF u
  <1>3. /\ u.rts[p] = g /\ \A r \in Proc : r # p => u.rts[r] = k.rts[r]
        /\ k.proc \in Proc /\ k.next \in Proc \cup {NIL}
    BY <1>0, <1>2 DEF State
  <1>4. Ready(u) = Ready(k) \ {p} BY <1>3 DEF Ready
  <1>5. Sound(u)
    <2>1. Limits(u) BY <1>1, <1>2, <1>3, Slots DEF Limits
    <2>2. Queued(u, Ready(u)) BY <1>1, <1>2, <1>4 DEF Queued
    <2> QED BY <1>2, <2>1, <2>2 DEF Sound
  <1>6. Chosen(u)
    <2>1. CASE p \in Ready(k) /\ p \in {k.proc, k.next}
      <3>1. Best(u, Ready(u), u.next)
        BY <1>1, <1>2, <1>4, <2>1 DEF Best
      <3>2. u.next # NIL /\ u.rts[u.next] = {} BY <3>1, Slots DEF Best, Ready
      <3>3. Leaves(u)
        <4>1. CASE p = k.proc BY <1>2, <1>3, <4>1 DEF Leaves
        <4>2. CASE p # k.proc
          <5>1. p = k.next /\ k.next # NIL BY <2>1, <4>2, Slots
          <5>2. Leaves(k) BY <1>0, <5>1 DEF Chosen
          <5> QED BY <1>2, <1>3, <4>2, <5>2 DEF Leaves
        <4> QED BY <4>1, <4>2
      <3> QED BY <3>1, <3>2, <3>3 DEF Chosen
    <2>2. CASE ~(p \in Ready(k) /\ p \in {k.proc, k.next})
      <3>0. Asleep(u) => Asleep(k) BY <1>3, <2>2, Slots DEF Asleep, Ready
      <3>1. u.next = k.next BY <1>1, <1>2, <2>2
      <3>2. CASE k.next = NIL
        <4>1. /\ k.proc \in Ready(k)
              /\ (Asleep(k) /\ k.proc \in Preemptible) => \A r \in Ready(k) : k.pri[k.proc] <= k.pri[r]
          BY <1>0, <1>3, <3>2 DEF Chosen, Runs, Best, Ready
        <4>2. p # k.proc BY <2>2, <4>1
        <4>3. k.proc \in Ready(u) BY <1>4, <4>1, <4>2
        <4> QED BY <1>2, <1>4, <3>0, <3>1, <3>2, <4>1, <4>3 DEF Chosen, Runs, Best, Ready
      <3>3. CASE k.next # NIL
        <4>0. k.next \in Ready(k) BY <1>0, <1>3, <3>3 DEF Chosen, Ready
        <4>1. /\ Asleep(k) => \A r \in Ready(k) : k.pri[k.next] <= k.pri[r]
              /\ Leaves(k)
          BY <1>0, <3>3 DEF Chosen, Best
        <4>2. p # k.next BY <2>2, <4>0
        <4>3. u.next \in Ready(u) /\ u.rts[u.next] = {}
          BY <1>4, <3>1, <4>0, <4>2 DEF Ready
        <4>4. Asleep(u) => Best(u, Ready(u), u.next)
          BY <1>2, <1>4, <3>0, <3>1, <4>1, <4>3 DEF Best
        <4>5. Leaves(u) BY <1>2, <1>3, <4>1 DEF Leaves
        <4> QED BY <3>1, <3>3, <4>3, <4>4, <4>5 DEF Chosen
      <3> QED BY <3>2, <3>3
    <2> QED BY <2>1, <2>2
  <1>7. p \notin {k.proc, k.next} => u.next = k.next
    BY <1>1, <1>2
  <1> QED BY <1>2, <1>5, <1>6, <1>7, <1>a DEF Good

(* Setting flags: the process may leave its queue. *)
LEMMA SetGood ==
    ASSUME NEW k, Good(k), NEW p \in Proc \ {IDLE}, NEW f \in SUBSET Flag, f # {},
           p = CLOCK => k.proc = CLOCK
    PROVE  LET u == RTS_SET(k, p, f)
           IN  /\ Good(u) /\ u.proc = k.proc /\ u.rts = [k.rts EXCEPT ![p] = @ \cup f]
               /\ u.pri = k.pri
               /\ p \notin {k.proc, k.next} => u.next = k.next
  <1> DEFINE d == IF k.rts[p] = {} THEN dequeue(k, p) ELSE k
             g == k.rts[p] \cup f
  <1>1. k \in State /\ Sound(k) BY DEF Good, Sound
  <1>2. d.rts = k.rts /\ d \in State
    <2>1. CASE k.rts[p] = {}
      <3>1. p \in Ready(k) BY <2>1 DEF Ready
      <3> QED BY <1>1, <2>1, <3>1, DequeueIs
    <2> QED BY <1>1, <2>1
  <1>3. RTS_SET(k, p, f) = [d EXCEPT !.rts[p] = @ \cup f]
    BY DEF RTS_SET
  <1>4. TakeOff(k, p, g) = [d EXCEPT !.rts[p] = g]
    BY DEF TakeOff
  <1> HIDE DEF d
  <1>5. [d EXCEPT !.rts[p] = @ \cup f] = [d EXCEPT !.rts[p] = g]
    BY <1>2
  <1>6. g \in SUBSET Flag /\ g # {} BY <1>1 DEF State
  <1>7. [k.rts EXCEPT ![p] = g] = [k.rts EXCEPT ![p] = @ \cup f]
    BY <1>1 DEF State
  <1>8. RTS_SET(k, p, f) = TakeOff(k, p, g)
    BY <1>3, <1>4, <1>5
  <1> HIDE DEF g
  <1> QED BY <1>6, <1>7, <1>8, TakeOffGood

LEMMA SetFlagsGood ==
    ASSUME NEW k, Good(k), NEW p \in Proc \ {IDLE}, NEW f \in SUBSET Flag, f # {},
           p = CLOCK => k.proc = CLOCK
    PROVE  LET u == RTS_LOCK_SETFLAGS(k, p, f)
           IN  /\ Good(u) /\ u.proc = k.proc /\ u.rts = [k.rts EXCEPT ![p] = f]
               /\ u.pri = k.pri
               /\ p \notin {k.proc, k.next} => u.next = k.next
  <1>1. RTS_LOCK_SETFLAGS(k, p, f) = TakeOff(k, p, f)
    BY DEF RTS_LOCK_SETFLAGS, TakeOff
  <1> QED BY <1>1, TakeOffGood

(* The process that was chosen runs. *)
LEMMA SchedcheckGood ==
    ASSUME NEW k, Good(k)
    PROVE  LET u == schedcheck(k)
           IN  /\ Sound(u) /\ Runs(u) /\ u.next = NIL
               /\ u.rts = k.rts /\ u.pri = k.pri
               /\ k.next = NIL => u = k
               /\ u.proc # k.proc => k.next # NIL /\ Leaves(k)
  <1> DEFINE u == [k EXCEPT !.proc = k.next, !.next = NIL]
  <1>0. k \in State /\ Queued(k, Ready(k)) /\ Limits(k) /\ Chosen(k) BY DEF Good, Sound
  <1>1. CASE k.next = NIL
    <2>1. schedcheck(k) = k BY <1>1 DEF schedcheck
    <2> QED BY <1>0, <1>1, <2>1 DEF Chosen, Good
  <1>2. CASE k.next # NIL
    <2>1. schedcheck(k) = u BY <1>2 DEF schedcheck
    <2>2. /\ u.rts = k.rts /\ u.pri = k.pri /\ u.left = k.left /\ u.rdy = k.rdy
          /\ u.proc = k.next /\ u.next = NIL /\ u.bill = k.bill /\ u \in State
      BY <1>0, <1>2 DEF State
    <2> HIDE DEF u
    <2>3. Ready(u) = Ready(k) BY <2>2 DEF Ready
    <2>4. Sound(u) BY <1>0, <2>2, <2>3 DEF Sound, Queued, Limits
    <2>5. /\ k.rts[k.next] = {}
          /\ Asleep(k) => Best(k, Ready(k), k.next)
          /\ Leaves(k)
      BY <1>0, <1>2 DEF Chosen
    <2>6. Runs(u) BY <2>2, <2>3, <2>5 DEF Runs, Best, Asleep
    <2> QED BY <1>2, <2>1, <2>2, <2>4, <2>5, <2>6
  <1> QED BY <1>1, <1>2
-----------------------------------------------------------------------------
(* Steps of the specification. *)

(* What TaskNotPreempted says of one step. *)
TaskKept == (proc_ptr \notin Preemptible /\ proc_ptr' # proc_ptr)
                => \/ rts'[proc_ptr] # {}
                   \/ proc_ptr = CLOCK /\ next_ptr # NIL

LEMMA SchedInvIs == SchedInv <=> QueueInv /\ MaxInv /\ ClockInv /\ SysInv
  BY DEF SchedInv

LEMMA NowIs ==
    /\ Now.rts = rts /\ Now.pri = p_priority /\ Now.left = p_ticks_left /\ Now.rdy = rdy
    /\ Now.proc = proc_ptr /\ Now.next = next_ptr /\ Now.bill = bill_ptr
  BY DEF Now

LEMMA QueueTypes ==
    ASSUME QueueInv
    PROVE  /\ Now \in State /\ Sound(Now) /\ Runs(Now) /\ Good(Now) /\ Alone(Now)
           /\ rts \in [Proc -> SUBSET Flag] /\ p_priority \in [Proc -> Queues]
           /\ p_ticks_left \in [Proc -> Int] /\ proc_ptr \in Proc /\ bill_ptr \in Billable
           /\ rts[proc_ptr] = {} /\ (proc_ptr # CLOCK => Now.next = NIL)
  <1>1. /\ Now \in State /\ Sound(Now) /\ Limits(Now) /\ Good(Now) /\ Chosen(Now)
        /\ rts[proc_ptr] = {}
    BY DEF QueueInv, Sound, Good
  <1>2. Alone(Now) /\ (proc_ptr # CLOCK => Now.next = NIL) BY <1>1, NowIs DEF QueueInv, Alone
  <1>3. Runs(Now) BY <1>1, <1>2, NowIs DEF Chosen, Runs, Asleep
  <1>4. /\ Now.rts \in [Proc -> SUBSET Flag] /\ Now.pri \in [Proc -> Queues]
        /\ Now.left \in [Proc -> Int] /\ Now.proc \in Proc /\ Now.bill \in Billable
    BY <1>1 DEF State, Limits
  <1> QED BY <1>1, <1>2, <1>3, <1>4, NowIs

LEMMA Becoming == ASSUME NEW k \in State, Becomes(k) PROVE Now' = k
  <1>1. Now' = [rts |-> k.rts, pri |-> k.pri, left |-> k.left, rdy |-> k.rdy,
                proc |-> k.proc, next |-> k.next, bill |-> k.bill]
    BY DEF Becomes, Now
  <1> QED BY <1>1 DEF State

LEMMA QueueStep ==
    ASSUME NEW k, Sound(k), Runs(k), k.next = NIL, Becomes(k)
    PROVE  /\ QueueInv' /\ rts' = k.rts /\ p_priority' = k.pri /\ proc_ptr' = k.proc
           /\ next_ptr' = NIL
  <1>1. k \in State BY DEF Sound
  <1>2. Now' = k BY <1>1, Becoming
  <1>3. next_ptr' = NIL /\ rts' = k.rts /\ p_priority' = k.pri /\ proc_ptr' = k.proc
    BY DEF Becomes
  <1>4. Chosen(k) /\ k.rts[k.proc] = {} BY DEF Chosen, Runs
  <1> QED BY <1>2, <1>3, <1>4 DEF QueueInv

(* The same while the clock task runs, which may have requeued itself. *)
LEMMA ClockStep ==
    ASSUME NEW k, Sound(k), k.proc = CLOCK, k.rts[CLOCK] = {},
           k.next # NIL => k.rts[k.next] = {}, Becomes(k)
    PROVE  /\ QueueInv' /\ rts' = k.rts /\ p_priority' = k.pri /\ proc_ptr' = CLOCK
           /\ next_ptr' = k.next
  <1>1. k \in State BY DEF Sound
  <1>2. Now' = k BY <1>1, Becoming
  <1>3. next_ptr' = k.next /\ rts' = k.rts /\ p_priority' = k.pri /\ proc_ptr' = k.proc
    BY DEF Becomes
  <1>4. Chosen(k) BY Slots DEF Chosen, Runs, Asleep, Leaves
  <1> QED BY <1>2, <1>3, <1>4 DEF QueueInv

LEMMA UnsetNow ==
    ASSUME QueueInv, NEW q \in Proc, NEW f
    PROVE  LET k == RTS_UNSET(Now, q, f)
           IN  /\ Good(k) /\ k.proc = proc_ptr /\ k.rts = [rts EXCEPT ![q] = @ \ f]
               /\ \A r \in Proc : p_priority[r] <= k.pri[r]
               /\ proc_ptr \notin Preemptible => k.next = next_ptr
  <1> DEFINE n == Now
             k == RTS_UNSET(n, q, f)
  <1>1. Good(n) /\ Alone(n) BY QueueTypes
  <1>2. n.rts = rts /\ n.pri = p_priority /\ n.proc = proc_ptr /\ n.next = next_ptr BY NowIs
  <1> HIDE DEF n
  <1>3. /\ Good(k) /\ k.proc = n.proc /\ k.rts = [n.rts EXCEPT ![q] = @ \ f]
        /\ \A r \in Proc : n.pri[r] <= k.pri[r]
        /\ n.proc \notin Preemptible => k.next = n.next
    BY <1>1, UnsetGood
  <1> HIDE DEF k
  <1>4. /\ Good(k) /\ k.proc = proc_ptr /\ k.rts = [rts EXCEPT ![q] = @ \ f]
        /\ \A r \in Proc : p_priority[r] <= k.pri[r]
        /\ proc_ptr \notin Preemptible => k.next = next_ptr
    BY <1>2, <1>3
  <1> QED BY <1>4 DEF k, n

(* A trap or an interrupt ends in schedcheck. *)
LEMMA TrapStep ==
    ASSUME QueueInv, NEW k, Good(k), k.proc = proc_ptr, Becomes(schedcheck(k)),
           proc_ptr = CLOCK => k.next = next_ptr \/ k.rts[CLOCK] # {}
    PROVE  /\ QueueInv' /\ rts' = k.rts /\ p_priority' = k.pri /\ TaskKept
           /\ next_ptr' = NIL /\ (k.next = NIL => proc_ptr' = proc_ptr)
  <1> DEFINE u == schedcheck(k)
  <1>1. /\ Sound(u) /\ Runs(u) /\ u.next = NIL /\ u.rts = k.rts /\ u.pri = k.pri
        /\ k.next = NIL => u = k
        /\ u.proc # k.proc => k.next # NIL /\ Leaves(k)
    BY SchedcheckGood
  <1> HIDE DEF u
  <1>2. Becomes(u) BY DEF u
  <1>3. QueueInv' /\ rts' = u.rts /\ p_priority' = u.pri /\ proc_ptr' = u.proc /\ next_ptr' = NIL
    BY <1>1, <1>2, QueueStep
  <1> QED BY <1>1, <1>3 DEF TaskKept, Leaves

(* The tasks go on after a step of theirs. *)
LEMMA TaskStep ==
    ASSUME QueueInv, NEW k, Good(k), k.next = NIL, k.proc = proc_ptr, Becomes(k)
    PROVE  /\ QueueInv' /\ rts' = k.rts /\ p_priority' = k.pri /\ TaskKept
           /\ proc_ptr' = proc_ptr /\ next_ptr' = NIL
  <1>1. Sound(k) /\ Runs(k) BY DEF Good, Chosen
  <1> QED BY <1>1, QueueStep DEF TaskKept

LEMMA QueueSame ==
    ASSUME QueueInv, UNCHANGED queuevars
    PROVE  /\ QueueInv' /\ TaskKept /\ rts' = rts /\ p_priority' = p_priority
           /\ proc_ptr' = proc_ptr /\ next_ptr' = next_ptr
  <1>1. Now' = Now BY DEF Now, queuevars
  <1>2. next_ptr' = next_ptr /\ rts' = rts /\ p_priority' = p_priority /\ proc_ptr' = proc_ptr
    BY DEF queuevars
  <1> QED BY <1>1, <1>2 DEF QueueInv, TaskKept

LEMMA MaxKept ==
    ASSUME QueueInv, MaxInv, QueueInv', UNCHANGED p_max_priority,
           \A p \in Proc : p_priority[p] <= p_priority'[p]
    PROVE  MaxInv'
  <1>1. \A p \in Proc : p_priority[p] \in Int BY QueueTypes, QueueNumbers
  <1>2. \A p \in Proc : p_priority'[p] \in Int
    <2>1. Now' \in State /\ Now'.pri = p_priority' BY DEF QueueInv, Sound, Now
    <2> QED BY <2>1, QueueNumbers DEF State
  <1>3. \A p \in Proc : p_max_priority[p] \in Int BY QueueNumbers DEF MaxInv
  <1> QED BY <1>1, <1>2, <1>3 DEF MaxInv

LEMMA ClockKept ==
    ASSUME ClockInv, UNCHANGED <<prev_ptr, bill_copy, bal, clk>>, next_ptr' = NIL, bal = NIL,
           clk = "requeue" => proc_ptr' = CLOCK /\ \A p \in Proc : rts[p] = {} => rts'[p] = {}
    PROVE  ClockInv'
  BY DEF ClockInv

LEMMA SysKept ==
    ASSUME SysInv, UNCHANGED <<sysop, armed, p_pending>>,
           \A p \in Proc : "SYS_LOCK" \in rts[p] => "SYS_LOCK" \in rts'[p]
    PROVE  SysInv'
  BY Slots DEF SysInv

-----------------------------------------------------------------------------
(* System calls and interrupts of devices. *)

LEMMA SysCallSteps ==
    ASSUME SchedInv, SysCalls \/ \E q \in Drivers : Interrupt(q)
    PROVE  SchedInv' /\ TaskKept
  <1>0. QueueInv /\ MaxInv /\ ClockInv /\ SysInv BY SchedInvIs
  <1>1. /\ Now \in State /\ Sound(Now) /\ Good(Now)
        /\ rts \in [Proc -> SUBSET Flag] /\ p_priority \in [Proc -> Queues] /\ proc_ptr \in Proc
    BY <1>0, QueueTypes
  <1>2. Talkers \cup {PM} \cup FreeAtBoot \cup Drivers \subseteq Users /\ Users \subseteq Proc
    BY SchedAssumption DEF Users
  <1>3. {"RECEIVING"} \in SUBSET Flag /\ {"RECEIVING"} # {} BY DEF Flag
  <1>a. \A p \in Proc : p_priority[p] \in Int BY <1>1, QueueNumbers
  <1>4. ASSUME NEW q \in Proc, Becomes(schedcheck(RTS_UNSET(Now, q, {"RECEIVING"}))), bal = NIL,
               UNCHANGED <<p_max_priority, clockvars, sysop, vtvars>>
        PROVE  SchedInv' /\ TaskKept
    <2> DEFINE k == RTS_UNSET(Now, q, {"RECEIVING"})
    <2>1. /\ Good(k) /\ k.proc = proc_ptr /\ k.rts = [rts EXCEPT ![q] = @ \ {"RECEIVING"}]
          /\ \A r \in Proc : p_priority[r] <= k.pri[r]
          /\ proc_ptr \notin Preemptible => k.next = next_ptr
      BY <1>0, UnsetNow
    <2> HIDE DEF k
    <2>2. /\ QueueInv' /\ rts' = k.rts /\ p_priority' = k.pri /\ TaskKept
          /\ next_ptr' = NIL /\ (k.next = NIL => proc_ptr' = proc_ptr)
      BY <1>0, <1>4, <2>1, TrapStep, Slots DEF k
    <2>3. MaxInv' BY <1>0, <1>4, <2>1, <2>2, MaxKept
    <2>4. ClockInv'
      <3>0. clk = "requeue" => next_ptr = NIL BY <1>0 DEF QueueInv, ClockInv
      <3>1. (proc_ptr = CLOCK /\ next_ptr = NIL) => proc_ptr' = CLOCK BY <2>1, <2>2, Slots
      <3>a. clk = "requeue" => proc_ptr = CLOCK BY <1>0 DEF ClockInv
      <3>2. \A p \in Proc : rts[p] = {} => rts'[p] = {} BY <1>1, <2>1, <2>2
      <3> QED BY <1>0, <1>4, <2>2, <3>0, <3>1, <3>2, <3>a, ClockKept DEF clockvars
    <2>5. SysInv'
      <3>1. \A p \in Proc : "SYS_LOCK" \in rts[p] => "SYS_LOCK" \in rts'[p] BY <1>1, <2>1, <2>2
      <3> QED BY <1>0, <1>4, <3>1, SysKept DEF vtvars
    <2> QED BY <2>2, <2>3, <2>4, <2>5 DEF SchedInv
  <1>5. ASSUME NEW p \in Users, proc_ptr = p, NEW k, Good(k), k.proc = proc_ptr,
               Becomes(schedcheck(RTS_SET(k, p, {"RECEIVING"}))),
               UNCHANGED <<p_max_priority, clockvars, armed, p_pending>>,
               \A r \in Proc : "SYS_LOCK" \in rts[r] => "SYS_LOCK" \in k.rts[r],
               \A r \in Proc : p_priority[r] <= k.pri[r],
               UNCHANGED sysop \/ sysop'.op = "request"
        PROVE  SchedInv' /\ TaskKept
    <2> DEFINE u == RTS_SET(k, p, {"RECEIVING"})
    <2>0. p \in Proc \ {IDLE} /\ p # CLOCK BY <1>2, Slots
    <2>1. /\ Good(u) /\ u.proc = proc_ptr /\ u.rts = [k.rts EXCEPT ![p] = @ \cup {"RECEIVING"}]
          /\ u.pri = k.pri
      BY <1>3, <1>5, <2>0, SetGood
    <2> HIDE DEF u
    <2>2. QueueInv' /\ rts' = u.rts /\ p_priority' = u.pri /\ TaskKept /\ next_ptr' = NIL
      BY <1>0, <1>5, <2>0, <2>1, TrapStep DEF u
    <2>3. MaxInv' BY <1>0, <1>5, <2>1, <2>2, MaxKept
    <2>4. clk # "requeue" /\ bal = NIL BY <1>0, <1>5, <2>0 DEF ClockInv
    <2>5. ClockInv' BY <1>0, <1>5, <2>2, <2>4 DEF ClockInv, clockvars
    <2>6. \A r \in Proc : "SYS_LOCK" \in rts[r] => "SYS_LOCK" \in rts'[r]
      <3>1. k.rts \in [Proc -> SUBSET Flag] BY <1>5 DEF Good, Sound, State
      <3> QED BY <1>5, <2>1, <2>2, <3>1
    <2>7. SysInv'
      <3>1. CASE UNCHANGED sysop BY <1>0, <1>5, <2>6, <3>1, SysKept
      <3>2. CASE sysop'.op = "request" BY <1>0, <1>5, <3>2 DEF SysInv, VTimer
      <3> QED BY <1>5, <3>1, <3>2
    <2> QED BY <2>2, <2>3, <2>5, <2>7 DEF SchedInv
  <1>6. ASSUME NEW p \in Users, NEW q \in Proc, q # p, proc_ptr = p, rts[q] # {},
               Becomes(schedcheck(RTS_SET(RTS_UNSET(Now, q, {"RECEIVING"}), p, {"RECEIVING"}))),
               UNCHANGED <<p_max_priority, clockvars, armed, p_pending>>,
               UNCHANGED sysop \/ sysop'.op = "request"
        PROVE  SchedInv' /\ TaskKept
    <2> DEFINE k == RTS_UNSET(Now, q, {"RECEIVING"})
    <2>1. /\ Good(k) /\ k.proc = proc_ptr /\ k.rts = [rts EXCEPT ![q] = @ \ {"RECEIVING"}]
          /\ \A r \in Proc : p_priority[r] <= k.pri[r]
      BY <1>0, UnsetNow
    <2>2. \A r \in Proc : "SYS_LOCK" \in rts[r] => "SYS_LOCK" \in k.rts[r]
      BY <1>1, <2>1
    <2> HIDE DEF k
    <2>3. Becomes(schedcheck(RTS_SET(k, p, {"RECEIVING"}))) BY <1>6 DEF k
    <2> QED BY <1>5, <1>6, <2>1, <2>2, <2>3
  <1>7. ASSUME NEW p \in Users, Block(p) PROVE SchedInv' /\ TaskKept
    <2>1. /\ proc_ptr = p /\ Becomes(schedcheck(RTS_SET(Now, p, {"RECEIVING"})))
          /\ UNCHANGED <<p_max_priority, clockvars, armed, p_pending, sysop>>
      BY <1>7 DEF Block, Caller, vtvars
    <2>2. /\ Now.proc = proc_ptr /\ \A r \in Proc : "SYS_LOCK" \in rts[r] => "SYS_LOCK" \in Now.rts[r]
          /\ \A r \in Proc : p_priority[r] <= Now.pri[r]
      BY <1>a, NowIs
    <2> HIDE DEF Now
    <2> QED BY <1>1, <1>5, <2>1, <2>2
  <1>8. ASSUME NEW p \in Users, NEW q \in Users, Release(p, q) PROVE SchedInv' /\ TaskKept
    BY <1>2, <1>4, <1>8 DEF Release, Caller
  <1>9. ASSUME NEW q \in Drivers, Interrupt(q) PROVE SchedInv' /\ TaskKept
    BY <1>2, <1>4, <1>9 DEF Interrupt
  <1>10. ASSUME NEW p \in Users, NEW q \in Users, Call(p, q) PROVE SchedInv' /\ TaskKept
    BY <1>2, <1>6, <1>10 DEF Call, Caller, Waits, vtvars
  <1>11. CASE KernelCall
    <2>1. /\ proc_ptr = PM /\ sysop'.op = "request"
          /\ Becomes(schedcheck(RTS_SET(RTS_UNSET(Now, SYSTEM, {"RECEIVING"}), PM, {"RECEIVING"})))
          /\ UNCHANGED <<p_max_priority, clockvars, armed, p_pending>>
      BY <1>11 DEF KernelCall, Caller, vtvars
    <2>2. \A r \in Proc : p_priority[r] <= Now.pri[r] BY <1>a, NowIs
    <2> DEFINE k == RTS_UNSET(Now, SYSTEM, {"RECEIVING"})
    <2>3. /\ Good(k) /\ k.proc = proc_ptr /\ k.rts = [rts EXCEPT ![SYSTEM] = @ \ {"RECEIVING"}]
          /\ \A r \in Proc : p_priority[r] <= k.pri[r]
      BY <1>0, Slots, UnsetNow
    <2>4. \A r \in Proc : "SYS_LOCK" \in rts[r] => "SYS_LOCK" \in k.rts[r]
      BY <1>1, <2>3
    <2> HIDE DEF k
    <2>5. Becomes(schedcheck(RTS_SET(k, PM, {"RECEIVING"}))) BY <2>1 DEF k
    <2> QED BY <1>5, <2>1, <2>3, <2>4, <2>5, Slots
  <1> QED BY <1>7, <1>8, <1>9, <1>10, <1>11 DEF SysCalls
-----------------------------------------------------------------------------
(* The system task. *)

LEMMA SetNow ==
    ASSUME QueueInv, NEW p \in Proc \ {IDLE}, NEW f \in SUBSET Flag, f # {},
           p = CLOCK => proc_ptr = CLOCK
    PROVE  LET k == RTS_SET(Now, p, f)
           IN  /\ Good(k) /\ k.proc = proc_ptr /\ k.rts = [rts EXCEPT ![p] = @ \cup f]
               /\ k.pri = p_priority
               /\ p \notin {proc_ptr, next_ptr} => k.next = next_ptr
  <1> DEFINE n == Now
             k == RTS_SET(n, p, f)
  <1>1. Good(n) BY QueueTypes
  <1>2. n.rts = rts /\ n.pri = p_priority /\ n.proc = proc_ptr /\ n.next = next_ptr BY NowIs
  <1> HIDE DEF n
  <1>3. /\ Good(k) /\ k.proc = n.proc /\ k.rts = [n.rts EXCEPT ![p] = @ \cup f]
        /\ k.pri = n.pri
        /\ p \notin {n.proc, n.next} => k.next = n.next
    BY <1>1, <1>2, SetGood
  <1> HIDE DEF k
  <1>4. /\ Good(k) /\ k.proc = proc_ptr /\ k.rts = [rts EXCEPT ![p] = @ \cup f]
        /\ k.pri = p_priority
        /\ p \notin {proc_ptr, next_ptr} => k.next = next_ptr
    BY <1>2, <1>3
  <1> QED BY <1>4 DEF k, n

LEMMA PriorityInt == ASSUME QueueInv PROVE \A p \in Proc : p_priority[p] \in Int /\ p_priority[p] <= p_priority[p]
  <1>1. \A p \in Proc : p_priority[p] \in Int BY QueueTypes, QueueNumbers
  <1> QED BY <1>1

(* While the system task runs the clock task waits for a tick, or for the   *)
(* processor if it requeued itself.                                         *)
LEMMA SystemRuns ==
    ASSUME SchedInv, proc_ptr = SYSTEM
    PROVE  next_ptr = NIL /\ (UNCHANGED clockvars /\ next_ptr' = NIL => ClockInv')
  BY Slots DEF SchedInv, QueueInv, ClockInv, clockvars

(* do_nice takes a process off its queue ... *)
LEMMA DoNiceLockStep ==
    ASSUME SchedInv, NEW p \in Users, DoNiceLock(p)
    PROVE  SchedInv' /\ TaskKept
  <1> DEFINE k == RTS_SET(Now, p, {"SYS_LOCK"})
  <1>0. QueueInv /\ MaxInv /\ ClockInv /\ SysInv BY SchedInvIs
  <1>1. /\ proc_ptr = SYSTEM /\ Becomes(k) /\ sysop' = [op |-> "nice", on |-> p]
        /\ UNCHANGED <<p_max_priority, clockvars, vtvars>>
    BY DEF DoNiceLock, Handles
  <1>2. p \in Proc \ {IDLE} /\ p # SYSTEM BY Slots
  <1>3. {"SYS_LOCK"} \in SUBSET Flag BY DEF Flag
  <1>4. /\ Good(k) /\ k.proc = proc_ptr /\ k.rts = [rts EXCEPT ![p] = @ \cup {"SYS_LOCK"}]
        /\ k.pri = p_priority /\ k.next = NIL
    <2>1. next_ptr = NIL /\ p \notin {proc_ptr, next_ptr} /\ p # CLOCK
      BY <1>1, <1>2, SystemRuns, Slots
    <2> QED BY <1>0, <1>1, <1>2, <1>3, <2>1, SetNow
  <1> HIDE DEF k
  <1>5. QueueInv' /\ rts' = k.rts /\ p_priority' = k.pri /\ TaskKept /\ next_ptr' = NIL
    BY <1>0, <1>1, <1>4, TaskStep
  <1>6. MaxInv' BY <1>0, <1>1, <1>4, <1>5, MaxKept, PriorityInt
  <1>7. ClockInv' BY <1>1, <1>5, SystemRuns
  <1>8. SysInv'
    <2>1. "SYS_LOCK" \in rts'[p] BY <1>0, <1>2, <1>4, <1>5, QueueTypes
    <2> QED BY <1>0, <1>1, <2>1 DEF SysInv, vtvars, VTimer
  <1> QED BY <1>5, <1>6, <1>7, <1>8 DEF SchedInv

(* ... and puts it back with another priority. *)
LEMMA DoNiceSetStep ==
    ASSUME SchedInv, NEW q \in Nice, DoNiceSet(q)
    PROVE  SchedInv' /\ TaskKept
  <1> DEFINE p == sysop.on
             n == [Now EXCEPT !.pri[p] = q]
             k == RTS_UNSET(n, p, {"SYS_LOCK"})
  <1>0. QueueInv /\ MaxInv /\ ClockInv /\ SysInv BY SchedInvIs
  <1>1. /\ proc_ptr = SYSTEM /\ sysop.op = "nice" /\ Becomes(k) /\ sysop' = [op |-> "reply", on |-> NIL]
        /\ p_max_priority' = [p_max_priority EXCEPT ![p] = q]
        /\ UNCHANGED <<clockvars, vtvars>>
    BY DEF DoNiceSet, Handles, Done
  <1>2. p \in Users /\ "SYS_LOCK" \in rts[p] BY <1>0, <1>1 DEF SysInv
  <1>3. q \in Queues /\ q < IDLE_Q /\ q \in Int
    BY QuantumAssumption DEF Queues
  <1> HIDE DEF p
  <1>4. p \in Proc /\ p # IDLE /\ p # CLOCK /\ p # SYSTEM BY <1>2, Slots
  <1>5. /\ Now \in State /\ Sound(Now) /\ Runs(Now) /\ Now.next = NIL
        /\ rts[p] # {} /\ p \notin Ready(Now)
    BY <1>0, <1>1, <1>2, QueueTypes, NowIs, Slots DEF Ready
  <1> DEFINE m == Now
  <1>6. m.rts = rts /\ m.pri = p_priority /\ m.proc = SYSTEM BY <1>1, NowIs
  <1>7. m \in State /\ Queued(m, Ready(m)) /\ Limits(m) /\ Runs(m) /\ m.next = NIL /\ p \notin Ready(m)
    BY <1>5 DEF Sound
  <1>8. n = [m EXCEPT !.pri[p] = q] OBVIOUS
  <1> HIDE DEF m, n
  <1>9. /\ n.rts = m.rts /\ n.pri = [m.pri EXCEPT ![p] = q] /\ n.left = m.left /\ n.rdy = m.rdy
        /\ n.proc = m.proc /\ n.next = m.next /\ n.bill = m.bill /\ n \in State
    BY <1>3, <1>4, <1>7, <1>8 DEF State
  <1>10. n.pri[p] = q /\ (\A r \in Proc : r # p => n.pri[r] = m.pri[r]) /\ Ready(n) = Ready(m)
    BY <1>4, <1>7, <1>9 DEF State, Ready
  <1>11. Sound(n)
    <2>1. Limits(n) BY <1>3, <1>4, <1>7, <1>9, <1>10, Slots DEF Limits
    <2>2. Queued(n, Ready(n)) BY <1>7, <1>9, <1>10 DEF Queued
    <2> QED BY <1>9, <2>1, <2>2 DEF Sound
  <1>12. Good(n) /\ n.next = NIL BY <1>6, <1>7, <1>9, <1>11, Slots DEF Good, Chosen, Runs
  <1>13. /\ Good(k) /\ k.proc = n.proc /\ k.rts = [n.rts EXCEPT ![p] = @ \ {"SYS_LOCK"}]
         /\ \A r \in Proc : n.pri[r] <= k.pri[r]
         /\ n.proc \notin Preemptible => k.next = n.next
    BY <1>4, <1>12, UnsetGood DEF Alone
  <1> HIDE DEF k
  <1>14. QueueInv' /\ p_priority' = k.pri /\ TaskKept /\ next_ptr' = NIL
    BY <1>0, <1>1, <1>6, <1>9, <1>12, <1>13, Slots, TaskStep
  <1>15. MaxInv'
    <2>1. k \in State /\ k.pri \in [Proc -> Queues] BY <1>13 DEF Good, Sound, State
    <2>2. p_max_priority \in [Proc -> Queues] /\ p_max_priority[IDLE] = IDLE_Q
          /\ \A r \in Proc : p_max_priority[r] <= p_priority[r]
      BY <1>0 DEF MaxInv
    <2>3. p_max_priority' \in [Proc -> Queues] /\ p_max_priority'[IDLE] = IDLE_Q
      BY <1>1, <1>3, <1>4, <2>2
    <2>4. ASSUME NEW r \in Proc PROVE p_max_priority'[r] <= p_priority'[r]
      <3>1. p_max_priority'[r] <= n.pri[r]
        BY <1>1, <1>3, <1>4, <1>6, <1>10, <2>2
      <3>2. p_max_priority'[r] \in Int /\ n.pri[r] \in Int /\ k.pri[r] \in Int
        BY <1>9, <2>1, <2>3, QueueNumbers DEF State
      <3>3. n.pri[r] <= k.pri[r] BY <1>13
      <3> QED BY <1>14, <3>1, <3>2, <3>3
    <2> QED BY <2>3, <2>4 DEF MaxInv
  <1>16. ClockInv' BY <1>1, <1>14, SystemRuns
  <1>17. SysInv' BY <1>0, <1>1 DEF SysInv, vtvars, VTimer
  <1> QED BY <1>14, <1>15, <1>16, <1>17 DEF SchedInv

LEMMA HalfInt == ASSUME NEW n \in Int PROVE Half(n) \in Int
  BY DEF Half

LEMMA DoForkStep ==
    ASSUME SchedInv, NEW p \in Users, NEW c \in Users, DoFork(p, c)
    PROVE  SchedInv' /\ TaskKept
  <1> DEFINE k == [rts |-> rts', pri |-> p_priority', left |-> p_ticks_left', rdy |-> rdy,
                   proc |-> proc_ptr, next |-> next_ptr, bill |-> bill_ptr]
  <1>0. QueueInv /\ MaxInv /\ ClockInv /\ SysInv BY SchedInvIs
  <1>1. /\ proc_ptr = SYSTEM /\ sysop' = [op |-> "reply", on |-> NIL] /\ "RECEIVING" \in rts[p]
        /\ rts[c] = {"SLOT_FREE"}
        /\ rts' = [rts EXCEPT ![c] = rts[p] \ {"SIGNALED", "SIG_PENDING"}]
        /\ p_priority' = [p_priority EXCEPT ![c] = p_priority[p]]
        /\ p_max_priority' = [p_max_priority EXCEPT ![c] = p_max_priority[p]]
        /\ p_ticks_left' = [p_ticks_left EXCEPT ![c] = Half(p_ticks_left[p] + 1), ![p] = Half(@)]
        /\ armed' = [armed EXCEPT ![c] = {}]
        /\ p_pending' = [p_pending EXCEPT ![c] = {}]
        /\ UNCHANGED <<rdy, proc_ptr, next_ptr, bill_ptr, clockvars>>
    BY DEF DoFork, Handles, Done, isemptyp
  <1>2. p \in Proc /\ c \in Proc /\ p # IDLE /\ c # IDLE /\ c # CLOCK /\ p # CLOCK /\ c # SYSTEM
    BY Slots
  <1>3. /\ rts \in [Proc -> SUBSET Flag] /\ p_priority \in [Proc -> Queues]
        /\ p_ticks_left \in [Proc -> Int]
    BY <1>0, QueueTypes
  <1>4. /\ rts' \in [Proc -> SUBSET Flag] /\ p_priority' \in [Proc -> Queues]
        /\ \A r \in Proc : r # c => rts'[r] = rts[r] /\ p_priority'[r] = p_priority[r]
        /\ rts'[c] # {} /\ rts[c] # {} /\ p_priority'[c] = p_priority[p]
    BY <1>1, <1>2, <1>3
  <1>5. p_ticks_left' \in [Proc -> Int] /\ p_ticks_left'[CLOCK] = p_ticks_left[CLOCK]
    <2>1. Half(p_ticks_left[p] + 1) \in Int /\ \A n \in Int : Half(n) \in Int
      BY <1>2, <1>3, HalfInt
    <2> QED BY <1>1, <1>2, <1>3, <2>1, Slots
  <1> DEFINE m == Now
  <1>6. /\ m \in State /\ Queued(m, Ready(m)) /\ Limits(m) /\ Runs(m) /\ m.next = NIL
        /\ m.rts = rts /\ m.pri = p_priority /\ m.left = p_ticks_left /\ m.rdy = rdy
        /\ m.proc = proc_ptr /\ m.bill = bill_ptr
    BY <1>0, <1>1, QueueTypes, NowIs, Slots DEF Sound
  <1> HIDE DEF m
  <1>7. /\ k.rts = rts' /\ k.pri = p_priority' /\ k.left = p_ticks_left' /\ k.rdy = m.rdy
        /\ k.proc = SYSTEM /\ k.next = NIL /\ k.bill = m.bill /\ Becomes(k)
    <2>1. next_ptr = NIL BY <1>1, SystemRuns
    <2> QED BY <1>1, <1>6, <2>1 DEF Becomes
  <1>8. k \in State
    <2>1. rdy \in [Queues -> Seq(Proc)] /\ bill_ptr \in Proc /\ next_ptr = NIL
      BY <1>1, <1>6, SystemRuns DEF State
    <2> QED BY <1>1, <1>4, <1>5, <2>1, Slots DEF State
  <1> HIDE DEF k
  <1>9. Ready(k) = Ready(m) /\ c \notin Ready(m) BY <1>4, <1>6, <1>7 DEF Ready
  <1>10. Sound(k)
    <2>1. Queued(k, Ready(k)) BY <1>4, <1>6, <1>7, <1>9 DEF Queued, Ready
    <2>2. Limits(k) BY <1>2, <1>4, <1>5, <1>6, <1>7, Slots DEF Limits
    <2> QED BY <1>8, <2>1, <2>2 DEF Sound
  <1>11. Runs(k) BY <1>1, <1>2, <1>4, <1>6, <1>7, Slots DEF Runs
  <1>12. QueueInv' /\ next_ptr' = NIL BY <1>7, <1>10, <1>11, QueueStep
  <1>13. TaskKept BY <1>1 DEF TaskKept
  <1>14. MaxInv' BY <1>0, <1>1, <1>2, <1>3, <1>4 DEF MaxInv
  <1>15. ClockInv' BY <1>1, <1>12, SystemRuns
  <1>16. SysInv' BY <1>0, <1>1, <1>2 DEF SysInv, VTimer
  <1> QED BY <1>12, <1>13, <1>14, <1>15, <1>16 DEF SchedInv
(* The steps that set or clear the flags of one process. *)
LEMMA DoExitStep ==
    ASSUME SchedInv, NEW p \in Users, DoExit(p)
    PROVE  SchedInv' /\ TaskKept
  <1> DEFINE n == Now
             k == RTS_LOCK_SETFLAGS(n, p, {"SLOT_FREE"})
  <1>0. QueueInv /\ MaxInv /\ ClockInv /\ SysInv BY SchedInvIs
  <1>1. /\ proc_ptr = SYSTEM /\ Becomes(k) /\ sysop' = [op |-> "reply", on |-> NIL]
        /\ UNCHANGED <<p_max_priority, clockvars, vtvars>>
    BY DEF DoExit, Handles, Done
  <1>2. p \in Proc \ {IDLE} /\ p # SYSTEM /\ p # CLOCK BY Slots
  <1>3. {"SLOT_FREE"} \in SUBSET Flag BY DEF Flag
  <1>4. Good(n) /\ n.next = NIL /\ n.proc = proc_ptr /\ n.pri = p_priority
    BY <1>0, <1>1, QueueTypes, NowIs, Slots
  <1> HIDE DEF n
  <1>5. /\ Good(k) /\ k.proc = n.proc /\ k.pri = n.pri
        /\ p \notin {n.proc, n.next} => k.next = n.next
    BY <1>2, <1>3, <1>4, SetFlagsGood
  <1> HIDE DEF k
  <1>6. k.next = NIL BY <1>1, <1>2, <1>4, <1>5, Slots
  <1>7. QueueInv' /\ p_priority' = k.pri /\ TaskKept /\ next_ptr' = NIL
    BY <1>0, <1>1, <1>4, <1>5, <1>6, TaskStep
  <1>8. MaxInv' BY <1>0, <1>1, <1>4, <1>5, <1>7, MaxKept, PriorityInt
  <1>9. ClockInv' BY <1>1, <1>7, SystemRuns
  <1>10. SysInv' BY <1>0, <1>1 DEF SysInv, vtvars, VTimer
  <1> QED BY <1>7, <1>8, <1>9, <1>10 DEF SchedInv

LEMMA KsigStep ==
    ASSUME SchedInv, NEW p \in Users, DoGetKsig(p) \/ DoEndKsig(p)
    PROVE  SchedInv' /\ TaskKept
  <1>0. QueueInv /\ MaxInv /\ ClockInv /\ SysInv BY SchedInvIs
  <1>1. PICK f : Becomes(RTS_UNSET(Now, p, f))
    BY DEF DoGetKsig, DoEndKsig
  <1>2. /\ proc_ptr = SYSTEM /\ sysop' = [op |-> "reply", on |-> NIL]
        /\ p_pending' = p_pending \/ p_pending' = [p_pending EXCEPT ![p] = {}]
        /\ UNCHANGED <<p_max_priority, clockvars, armed>>
    BY DEF DoGetKsig, DoEndKsig, Handles, Done, vtvars
  <1> DEFINE k == RTS_UNSET(Now, p, f)
  <1>3. /\ Good(k) /\ k.proc = proc_ptr
        /\ \A r \in Proc : p_priority[r] <= k.pri[r]
        /\ proc_ptr \notin Preemptible => k.next = next_ptr
    BY <1>0, Slots, UnsetNow
  <1>4. Becomes(k) BY <1>1
  <1> HIDE DEF k
  <1>5. QueueInv' /\ p_priority' = k.pri /\ TaskKept /\ next_ptr' = NIL
    BY <1>0, <1>2, <1>3, <1>4, Slots, SystemRuns, TaskStep
  <1>6. MaxInv' BY <1>0, <1>2, <1>3, <1>5, MaxKept
  <1>7. ClockInv' BY <1>2, <1>5, SystemRuns
  <1>8. SysInv' BY <1>0, <1>2 DEF SysInv, VTimer
  <1> QED BY <1>5, <1>6, <1>7, <1>8 DEF SchedInv

LEMMA SysReplyStep ==
    ASSUME SchedInv, SysReply
    PROVE  SchedInv' /\ TaskKept
  <1> DEFINE u == RTS_UNSET(Now, PM, {"RECEIVING"})
             k == RTS_SET(u, SYSTEM, {"RECEIVING"})
  <1>0. QueueInv /\ MaxInv /\ ClockInv /\ SysInv BY SchedInvIs
  <1>1. /\ proc_ptr = SYSTEM /\ Becomes(schedcheck(k)) /\ sysop' = [op |-> "none", on |-> NIL]
        /\ UNCHANGED <<p_max_priority, clockvars, vtvars>>
    BY DEF SysReply, Handles
  <1>2. Good(u) /\ u.proc = proc_ptr /\ \A r \in Proc : p_priority[r] <= u.pri[r]
    BY <1>0, Slots, UnsetNow
  <1>3. {"RECEIVING"} \in SUBSET Flag /\ SYSTEM \in Proc \ {IDLE} BY Slots DEF Flag
  <1> HIDE DEF u
  <1>4. Good(k) /\ k.proc = u.proc /\ k.pri = u.pri
    BY <1>2, <1>3, SetGood, Slots
  <1> HIDE DEF k
  <1>5. QueueInv' /\ p_priority' = k.pri /\ TaskKept /\ next_ptr' = NIL
    BY <1>0, <1>1, <1>2, <1>4, TrapStep, Slots
  <1>6. MaxInv' BY <1>0, <1>1, <1>2, <1>4, <1>5, MaxKept
  <1>7. ClockInv' BY <1>1, <1>5, SystemRuns
  <1>8. SysInv' BY <1>0, <1>1 DEF SysInv, vtvars, VTimer
  <1> QED BY <1>5, <1>6, <1>7, <1>8 DEF SchedInv

(* The steps that leave the queues alone. *)
LEMMA QuietSystemSteps ==
    ASSUME SchedInv,
           \/ DoOther
           \/ \E p \in Users, t \in VTimer : DoVtimerOff(p, t)
           \/ \E t \in VTimer, n \in 0 .. MaxTicks : DoVtimerOn(t, n)
    PROVE  SchedInv' /\ TaskKept
  <1>0. QueueInv /\ MaxInv /\ ClockInv /\ SysInv BY SchedInvIs
  <1>1. proc_ptr = SYSTEM /\ UNCHANGED <<queuevars, p_max_priority, clockvars, p_pending>>
    BY DEF DoOther, DoVtimerOff, DoVtimerOn, Handles, vtvars
  <1>2. QueueInv' /\ TaskKept /\ rts' = rts /\ p_priority' = p_priority /\ next_ptr' = NIL
    BY <1>0, <1>1, QueueSame, SystemRuns
  <1>3. MaxInv' BY <1>0, <1>1, <1>2, MaxKept, PriorityInt
  <1>4. ClockInv' BY <1>1, <1>2, SystemRuns
  <1>5. SysInv'
    <2>1. CASE DoOther
      BY <1>0, <2>1 DEF DoOther, Done, SysInv, vtvars, VTimer
    <2>2. ASSUME NEW p \in Users, NEW t \in VTimer, DoVtimerOff(p, t) PROVE SysInv'
      <3>1. /\ p \in Timed /\ p \in Proc /\ armed' = [armed EXCEPT ![p] = @ \ {t}]
            /\ sysop' = [op |-> t, on |-> p]
        BY <2>2, Slots DEF DoVtimerOff
      <3>2. sysop'.op # "nice" /\ sysop'.on = p BY <3>1 DEF VTimer
      <3>3. armed' \in [Proc -> SUBSET VTimer] /\ \A r \in Proc \ Timed : armed'[r] = {}
        BY <1>0, <3>1 DEF SysInv
      <3> QED BY <1>0, <1>1, <3>1, <3>2, <3>3 DEF SysInv
    <2>3. ASSUME NEW t \in VTimer, NEW n \in 0 .. MaxTicks, DoVtimerOn(t, n) PROVE SysInv'
      <3>1. /\ sysop.op = t /\ sysop' = [op |-> "reply", on |-> NIL]
            /\ armed' = [armed EXCEPT ![sysop.on] = @ \cup {t}] \/ armed' = armed
        BY <2>3 DEF DoVtimerOn, Handles, Done
      <3>2. sysop.on \in Timed BY <1>0, <3>1 DEF SysInv
      <3>3. armed' \in [Proc -> SUBSET VTimer] /\ \A r \in Proc \ Timed : armed'[r] = {}
        BY <1>0, <3>1, <3>2 DEF SysInv
      <3>4. sysop'.op = "reply" BY <3>1
      <3> QED BY <1>0, <1>1, <3>3, <3>4 DEF SysInv, VTimer
    <2> QED BY <2>1, <2>2, <2>3
  <1> QED BY <1>2, <1>3, <1>4, <1>5 DEF SchedInv

LEMMA SystemTaskSteps ==
    ASSUME SchedInv, SystemTask
    PROVE  SchedInv' /\ TaskKept
  <1>1. CASE DoOther \/ (\E p \in Users, t \in VTimer : DoVtimerOff(p, t))
             \/ \E t \in VTimer, n \in 0 .. MaxTicks : DoVtimerOn(t, n)
    BY <1>1, QuietSystemSteps
  <1>2. CASE SysReply BY <1>2, SysReplyStep
  <1>3. ASSUME NEW p \in Users, DoNiceLock(p) \/ DoExit(p) \/ DoGetKsig(p) \/ DoEndKsig(p)
        PROVE  SchedInv' /\ TaskKept
    BY <1>3, DoNiceLockStep, DoExitStep, KsigStep
  <1>4. ASSUME NEW q \in Nice, DoNiceSet(q) PROVE SchedInv' /\ TaskKept
    BY <1>4, DoNiceSetStep
  <1>5. ASSUME NEW p \in Users, NEW c \in Users, DoFork(p, c) PROVE SchedInv' /\ TaskKept
    BY <1>5, DoForkStep
  <1> QED BY <1>1, <1>2, <1>3, <1>4, <1>5 DEF SystemTask
-----------------------------------------------------------------------------
(* The clock interrupt. *)

LEMMA GreaterInt == ASSUME NEW a \in Int, NEW b \in Int PROVE Greater(a, b) \in Int
  BY DEF Greater

(* A tick takes time from the process that runs, or is billed, which is     *)
(* never the clock task.                                                    *)
LEMMA ChargeGood ==
    ASSUME QueueInv
    PROVE  LET k == ChargeTick(Now)
           IN  /\ Good(k) /\ k.next = next_ptr /\ k.rts = rts /\ k.pri = p_priority
               /\ k.proc = proc_ptr
  <1> DEFINE m == Now
             C(p) == \/ p = proc_ptr /\ p \in Preemptible
                     \/ p = bill_ptr /\ proc_ptr \notin Billable
             l == [p \in Proc |-> IF C(p) THEN Greater(m.left[p] - 1, MinTicks) ELSE m.left[p]]
             k == [m EXCEPT !.left = l]
  <1>1. ChargeTick(m) = k BY DEF ChargeTick
  <1>2. /\ m \in State /\ Queued(m, Ready(m)) /\ Limits(m) /\ Chosen(m) /\ m.next = next_ptr
        /\ m.rts = rts /\ m.pri = p_priority /\ m.left = p_ticks_left
        /\ m.proc = proc_ptr /\ m.bill = bill_ptr /\ bill_ptr \in Billable
    BY QueueTypes, NowIs DEF Sound, Good
  <1>a. ChargeTick(Now) = k BY <1>1
  <1> HIDE DEF m
  <1>3. l \in [Proc -> Int]
    <2>1. MinTicks \in Int /\ \A p \in Proc : m.left[p] \in Int BY <1>2, QuantumAssumption DEF State
    <2>2. ASSUME NEW p \in Proc PROVE Greater(m.left[p] - 1, MinTicks) \in Int
      <3>1. m.left[p] - 1 \in Int BY <2>1
      <3> QED BY <2>1, <3>1, GreaterInt
    <2> HIDE DEF C
    <2> QED BY <2>1, <2>2
  <1>4. l[CLOCK] = m.left[CLOCK]
    <2>1. ~C(CLOCK) BY <1>2, Slots
    <2> HIDE DEF C
    <2> QED BY <2>1, Slots
  <1> HIDE DEF l
  <1>5. /\ k.rts = m.rts /\ k.pri = m.pri /\ k.left = l /\ k.rdy = m.rdy
        /\ k.proc = m.proc /\ k.next = m.next /\ k.bill = m.bill /\ k \in State
    BY <1>2, <1>3 DEF State
  <1> HIDE DEF k
  <1>6. Ready(k) = Ready(m) BY <1>5 DEF Ready
  <1>7. Sound(k) BY <1>2, <1>4, <1>5, <1>6 DEF Sound, Limits, Queued
  <1>8. Chosen(k) BY <1>2, <1>5, <1>6 DEF Chosen, Runs, Best, Asleep, Leaves
  <1>9. /\ Good(k) /\ k.next = next_ptr /\ k.rts = rts /\ k.pri = p_priority
        /\ k.proc = proc_ptr
    BY <1>2, <1>5, <1>7, <1>8 DEF Good
  <1> QED BY <1>9, <1>a

LEMMA TickStep ==
    ASSUME SchedInv, clock_handler
    PROVE  SchedInv' /\ TaskKept
  <1>0. QueueInv /\ MaxInv /\ ClockInv /\ SysInv BY SchedInvIs
  <1>1. /\ bal = NIL /\ (proc_ptr = CLOCK => clk \in TickAt)
        /\ prev_ptr' = proc_ptr \/ prev_ptr' = prev_ptr
        /\ UNCHANGED <<p_max_priority, clk, bill_copy, bal, sysop, armed, p_pending>>
    BY DEF clock_handler
  <1> DEFINE k == ChargeTick(Now)
             u == RTS_UNSET(k, CLOCK, {"RECEIVING"})
  <1>2. Becomes(schedcheck(u)) \/ Becomes(schedcheck(k))
    BY DEF clock_handler
  <1>3. /\ Good(k) /\ k.next = next_ptr /\ k.rts = rts /\ k.pri = p_priority
        /\ k.proc = proc_ptr
    BY <1>0, ChargeGood
  <1> HIDE DEF k
  <1>4. Alone(k) BY <1>0, <1>3 DEF QueueInv, Alone
  <1>5. /\ Good(u) /\ u.proc = proc_ptr /\ u.rts = [rts EXCEPT ![CLOCK] = @ \ {"RECEIVING"}]
        /\ \A r \in Proc : p_priority[r] <= u.pri[r]
        /\ proc_ptr \notin Preemptible => u.next = next_ptr
    BY <1>3, <1>4, Slots, UnsetGood
  <1> HIDE DEF u
  <1>6. /\ QueueInv' /\ TaskKept /\ next_ptr' = NIL
        /\ rts' = rts \/ rts' = [rts EXCEPT ![CLOCK] = @ \ {"RECEIVING"}]
        /\ \A r \in Proc : p_priority[r] <= p_priority'[r]
        /\ (proc_ptr \notin Preemptible /\ next_ptr = NIL) => proc_ptr' = proc_ptr
    <2>1. CASE Becomes(schedcheck(u))
      BY <1>0, <1>5, <2>1, TrapStep, Slots
    <2>2. CASE Becomes(schedcheck(k))
      BY <1>0, <1>3, <2>2, TrapStep, PriorityInt
    <2> QED BY <1>2, <2>1, <2>2
  <1>7. MaxInv' BY <1>0, <1>1, <1>6, MaxKept
  <1>8. ClockInv'
    <2>1. (proc_ptr = CLOCK /\ next_ptr = NIL) => proc_ptr' = CLOCK BY <1>6, Slots
    <2>2. rts \in [Proc -> SUBSET Flag] /\ rts[proc_ptr] = {} /\ proc_ptr \in Proc
      BY <1>0, QueueTypes
    <2>3. \A p \in Proc : rts[p] = {} => rts'[p] = {} BY <1>6, <2>2
    <2>4. ASSUME clk = "requeue"
          PROVE  /\ proc_ptr' = CLOCK /\ rts'[prev_ptr'] = {}
                 /\ prev_ptr' \in Preemptible \/ prev_ptr' = CLOCK
      <3>1. /\ proc_ptr = CLOCK /\ next_ptr = NIL /\ rts[prev_ptr] = {} /\ prev_ptr \in Proc
            /\ prev_ptr \in Preemptible \/ prev_ptr = CLOCK
        BY <1>0, <2>4 DEF ClockInv
      <3> QED BY <1>1, <2>1, <2>2, <2>3, <3>1
    <2> QED BY <1>0, <1>1, <1>6, <2>2, <2>4 DEF ClockInv
  <1>9. SysInv'
    <2>1. rts \in [Proc -> SUBSET Flag] BY <1>0, QueueTypes
    <2>2. \A p \in Proc : "SYS_LOCK" \in rts[p] => "SYS_LOCK" \in rts'[p]
      BY <1>6, <2>1
    <2> QED BY <1>0, <1>1, <2>2, SysKept
  <1> QED BY <1>6, <1>7, <1>8, <1>9 DEF SchedInv

-----------------------------------------------------------------------------
(* The clock task. *)

LEMMA RequeueStep ==
    ASSUME SchedInv, ClockRequeue
    PROVE  SchedInv' /\ TaskKept
  <1> DEFINE m == Now
             p == prev_ptr
             d == dequeue(m, p)
             e == enqueue(d, p)
  <1>0. QueueInv /\ MaxInv /\ ClockInv /\ SysInv BY SchedInvIs
  <1>1. /\ proc_ptr = CLOCK /\ clk = "requeue" /\ bal = NIL /\ Becomes(e) /\ clk' = "vprev"
        /\ UNCHANGED <<p_max_priority, prev_ptr, bill_copy, bal, sysop, vtvars>>
    BY DEF ClockRequeue, ClockAt
  <1>2. /\ p \in Proc /\ rts[p] = {} /\ next_ptr = NIL
    BY <1>0, <1>1, Slots DEF ClockInv
  <1>3. /\ Sound(m) /\ m.next = NIL /\ m.proc = CLOCK /\ m.rts = rts /\ m.pri = p_priority
        /\ rts[CLOCK] = {}
    BY <1>0, <1>1, <1>2, QueueTypes, NowIs
  <1> HIDE DEF m
  <1>4. p \in Ready(m) /\ (p # IDLE \/ p \notin {m.proc, m.next}) BY <1>2, <1>3, Slots DEF Ready
  <1>5. /\ d \in State /\ Limits(d) /\ Queued(d, Ready(m) \ {p})
        /\ d.rts = m.rts /\ d.pri = m.pri /\ d.proc = m.proc
        /\ IF p \in {m.proc, m.next} THEN Best(d, Ready(m) \ {p}, d.next) ELSE d.next = m.next
    BY <1>3, <1>4, DequeueIs
  <1> HIDE DEF d
  <1>6. Ready(d) = Ready(m) BY <1>5 DEF Ready
  <1>7. /\ Sound(e) /\ e.rts = d.rts /\ e.proc = d.proc
        /\ \A r \in Proc : d.pri[r] <= e.pri[r]
        /\ d.proc \notin Preemptible => e.next = d.next
    BY <1>4, <1>5, <1>6, EnqueueIs
  <1> HIDE DEF e
  <1>8. e.proc = CLOCK /\ e.rts[CLOCK] = {} /\ (e.next # NIL => e.rts[e.next] = {})
    <2>1. e.proc = CLOCK /\ e.rts = m.rts /\ e.next = d.next BY <1>3, <1>5, <1>7, Slots
    <2>2. p \in {m.proc, m.next} => p = CLOCK BY <1>2, <1>3, Slots
    <2>3. CASE p = CLOCK
      <3>1. Best(d, Ready(m) \ {p}, d.next) BY <1>3, <1>5, <2>3
      <3>2. m.rts[d.next] = {} BY <3>1 DEF Best, Ready
      <3> QED BY <1>2, <1>3, <2>1, <2>3, <3>2
    <2>4. CASE p # CLOCK BY <1>3, <1>5, <2>1, <2>2, <2>4
    <2> QED BY <2>3, <2>4
  <1>9. QueueInv' /\ rts' = rts /\ p_priority' = e.pri /\ proc_ptr' = proc_ptr /\ TaskKept
    BY <1>1, <1>3, <1>5, <1>7, <1>8, ClockStep DEF TaskKept
  <1>10. MaxInv' BY <1>0, <1>1, <1>3, <1>5, <1>7, <1>9, MaxKept
  <1>11. ClockInv' BY <1>0, <1>1, <1>9 DEF ClockInv
  <1>12. SysInv' BY <1>0, <1>1, <1>9, SysKept DEF vtvars
  <1> QED BY <1>9, <1>10, <1>11, <1>12 DEF SchedInv

(* vtimer_check blocks a user process and may wake PM. *)
LEMMA VtimerCheck ==
    ASSUME SchedInv, NEW p \in Proc, vtimer_check(p), proc_ptr = CLOCK, UNCHANGED sysop
    PROVE  /\ QueueInv' /\ TaskKept /\ SysInv' /\ proc_ptr' = CLOCK
           /\ \A r \in Proc : p_priority[r] <= p_priority'[r]
  <1> DEFINE due == {t \in armed[p] : vleft[p][t] <= 0}
             s == RTS_SET(Now, p, {"SIGNALED", "SIG_PENDING"})
             u == RTS_UNSET(s, PM, {"RECEIVING"})
  <1>0. QueueInv /\ SysInv BY SchedInvIs
  <1>1. /\ armed' = [armed EXCEPT ![p] = @ \ due]
        /\ p_pending' = [p_pending EXCEPT ![p] = @ \cup due]
        /\ \/ Becomes(Now)
           \/ ~(due \subseteq p_pending[p]) /\ (Becomes(u) \/ Becomes(s))
    BY DEF vtimer_check
  <1>2. armed \in [Proc -> SUBSET VTimer] /\ p_pending \in [Proc -> SUBSET VTimer]
        /\ \A r \in Proc \ Timed : armed[r] = {}
    BY <1>0 DEF SysInv
  <1>3. due \subseteq armed[p] OBVIOUS
  <1> HIDE DEF due
  <1>4. armed' \in [Proc -> SUBSET VTimer] /\ p_pending' \in [Proc -> SUBSET VTimer]
        /\ \A r \in Proc \ Timed : armed'[r] = {}
    BY <1>1, <1>2, <1>3
  <1>5. ASSUME \A r \in Proc : "SYS_LOCK" \in rts[r] => "SYS_LOCK" \in rts'[r] PROVE SysInv'
    BY <1>0, <1>4, <1>5, Slots DEF SysInv
  <1>6. CASE Becomes(Now)
    <2>1. UNCHANGED queuevars BY <1>6, NowIs DEF Becomes, queuevars
    <2>2. QueueInv' /\ TaskKept /\ rts' = rts /\ p_priority' = p_priority /\ proc_ptr' = proc_ptr
      BY <1>0, <2>1, QueueSame
    <2> QED BY <1>0, <1>5, <2>2, PriorityInt
  <1>7. CASE ~(due \subseteq p_pending[p]) /\ (Becomes(u) \/ Becomes(s))
    <2>1. p \in Timed BY <1>2, <1>3, <1>7
    <2>2. p \in Users BY <2>1, SchedAssumption
    <2>3. p \in Proc \ {IDLE} /\ p # CLOCK BY <2>2, Slots
    <2>4. {"SIGNALED", "SIG_PENDING"} \in SUBSET Flag /\ {"SIGNALED", "SIG_PENDING"} # {} BY DEF Flag
    <2>5. /\ Good(s) /\ s.proc = CLOCK /\ s.rts = [rts EXCEPT ![p] = @ \cup {"SIGNALED", "SIG_PENDING"}]
          /\ s.pri = p_priority /\ Alone(s)
      <3>1. rts[CLOCK] = {} /\ rts \in [Proc -> SUBSET Flag] BY <1>0, QueueTypes
      <3>2. /\ Good(s) /\ s.proc = CLOCK /\ s.pri = p_priority
            /\ s.rts = [rts EXCEPT ![p] = @ \cup {"SIGNALED", "SIG_PENDING"}]
        BY <1>0, <2>3, <2>4, SetNow
      <3> HIDE DEF s
      <3>3. s.rts[CLOCK] = {} BY <2>3, <3>1, <3>2
      <3> QED BY <3>2, <3>3 DEF Alone
    <2> HIDE DEF s
    <2>6. /\ Good(u) /\ u.proc = s.proc /\ u.rts = [s.rts EXCEPT ![PM] = @ \ {"RECEIVING"}]
          /\ \A r \in Proc : s.pri[r] <= u.pri[r]
          /\ u.next = s.next
      <3>1. PM \in Proc /\ s.proc \notin Preemptible BY <2>5, Slots
      <3>2. Good(s) /\ Alone(s) BY <2>5
      <3> QED BY <3>1, <3>2, UnsetGood
    <2> HIDE DEF u
    <2>7. rts \in [Proc -> SUBSET Flag] BY <1>0, QueueTypes
    <2>8. \A r \in Proc : "SYS_LOCK" \in rts[r] => "SYS_LOCK" \in s.rts[r] /\ "SYS_LOCK" \in u.rts[r]
      <3>1. \A r \in Proc : "SYS_LOCK" \in rts[r] => "SYS_LOCK" \in s.rts[r] BY <2>5, <2>7
      <3>2. s.rts \in [Proc -> SUBSET Flag] BY <2>5 DEF Good, Sound, State
      <3> QED BY <2>6, <3>1, <3>2
    <2>a. s.rts[CLOCK] = {} /\ u.rts[CLOCK] = {}
      <3>1. rts[CLOCK] = {} /\ PM # CLOCK BY <1>0, QueueTypes, Slots
      <3>2. s.rts[CLOCK] = {} BY <2>3, <2>5, <2>7, <3>1, Slots
      <3>3. s.rts \in [Proc -> SUBSET Flag] BY <2>5 DEF Good, Sound, State
      <3> QED BY <2>6, <3>1, <3>2, <3>3, Slots
    <2>b. Sound(s) /\ Sound(u) /\ (s.next # NIL => s.rts[s.next] = {})
          /\ (u.next # NIL => u.rts[u.next] = {})
      BY <2>5, <2>6 DEF Good, Chosen
    <2>9. CASE Becomes(u)
      <3>1. QueueInv' /\ rts' = u.rts /\ p_priority' = u.pri /\ proc_ptr' = CLOCK
        BY <2>5, <2>6, <2>9, <2>a, <2>b, ClockStep
      <3> QED BY <1>5, <2>5, <2>6, <2>8, <3>1 DEF TaskKept
    <2>10. CASE Becomes(s)
      <3>1. QueueInv' /\ rts' = s.rts /\ p_priority' = s.pri /\ proc_ptr' = CLOCK
        BY <2>5, <2>10, <2>a, <2>b, ClockStep
      <3> QED BY <1>0, <1>5, <2>5, <2>8, <3>1, PriorityInt DEF TaskKept
    <2> QED BY <1>7, <2>9, <2>10
  <1> QED BY <1>1, <1>6, <1>7

LEMMA ClockTaskSteps ==
    ASSUME SchedInv, ClockTask
    PROVE  SchedInv' /\ TaskKept
  <1>0. QueueInv /\ MaxInv /\ ClockInv /\ SysInv BY SchedInvIs
  <1>a. {prev_ptr, bill_copy} \subseteq Proc /\ prev_ptr \in Proc /\ bill_copy \in Proc
    BY <1>0 DEF ClockInv
  <1>1. CASE ClockTest
    <2>1. /\ proc_ptr = CLOCK /\ bal = NIL /\ bill_copy' = bill_ptr /\ clk = "start"
          /\ clk' = "requeue" => prev_ptr \in Preemptible /\ rts[prev_ptr] = {}
          /\ UNCHANGED <<queuevars, p_max_priority, prev_ptr, bal, sysop, vtvars>>
      BY <1>1 DEF ClockTest, ClockAt
    <2>2. /\ QueueInv' /\ TaskKept /\ rts' = rts /\ p_priority' = p_priority
          /\ proc_ptr' = proc_ptr /\ next_ptr' = next_ptr
      BY <1>0, <2>1, QueueSame
    <2>3. MaxInv' BY <1>0, <2>1, <2>2, MaxKept, PriorityInt
    <2>4. bill_ptr \in Proc BY <1>0, QueueTypes, Slots
    <2>5. ClockInv' BY <1>0, <2>1, <2>2, <2>4 DEF ClockInv
    <2>6. SysInv' BY <1>0, <2>1, <2>2, SysKept DEF vtvars
    <2> QED BY <2>2, <2>3, <2>5, <2>6 DEF SchedInv
  <1>2. CASE ClockRequeue BY <1>2, RequeueStep
  <1>3. ASSUME NEW p \in Proc, vtimer_check(p), proc_ptr = CLOCK, bal = NIL,
               clk' \notin {"start", "requeue"},
               UNCHANGED <<p_max_priority, prev_ptr, bill_copy, bal, sysop>>
        PROVE  SchedInv' /\ TaskKept
    <2>1. /\ QueueInv' /\ TaskKept /\ SysInv' /\ proc_ptr' = CLOCK
          /\ \A r \in Proc : p_priority[r] <= p_priority'[r]
      BY <1>3, VtimerCheck
    <2>2. MaxInv' BY <1>0, <1>3, <2>1, MaxKept
    <2>3. ClockInv' BY <1>0, <1>3, <2>1 DEF ClockInv
    <2> QED BY <2>1, <2>2, <2>3 DEF SchedInv
  <1>4. CASE ClockPrev
    <2>1. clk' \notin {"start", "requeue"} BY <1>4 DEF ClockPrev
    <2> QED BY <1>3, <1>4, <1>a, <2>1 DEF ClockPrev, ClockAt
  <1>5. CASE ClockBilled
    <2>1. clk' \notin {"start", "requeue"} BY <1>5 DEF ClockBilled
    <2> QED BY <1>3, <1>5, <1>a, <2>1 DEF ClockBilled, ClockAt
  <1>6. CASE ClockTimers \/ ClockBalanced
    <2>1. /\ proc_ptr = CLOCK /\ clk' \notin {"start", "requeue"} /\ bal = NIL
          /\ bal' = NIL \/ (bal' = IDLE /\ clk' = "balance")
          /\ UNCHANGED <<queuevars, p_max_priority, prev_ptr, bill_copy, sysop, vtvars>>
      BY <1>6 DEF ClockTimers, ClockBalanced, ClockAt
    <2>2. QueueInv' /\ TaskKept /\ rts' = rts /\ p_priority' = p_priority /\ proc_ptr' = proc_ptr
      BY <1>0, <2>1, QueueSame
    <2>3. MaxInv' BY <1>0, <2>1, <2>2, MaxKept, PriorityInt
    <2>4. ClockInv' BY <1>0, <2>1, <2>2, Slots DEF ClockInv
    <2>5. SysInv' BY <1>0, <2>1, <2>2, SysKept DEF vtvars
    <2> QED BY <2>2, <2>3, <2>4, <2>5 DEF SchedInv
  <1>7. CASE ClockReceive
    <2> DEFINE k == RTS_SET(Now, CLOCK, {"RECEIVING"})
    <2>1. /\ proc_ptr = CLOCK /\ bal = NIL /\ clk' = "start" /\ bill_copy' = IDLE
          /\ Becomes(schedcheck(Now)) \/ Becomes(schedcheck(k))
          /\ UNCHANGED <<p_max_priority, prev_ptr, bal, sysop, vtvars>>
      BY <1>7 DEF ClockReceive, ClockAt
    <2>2. {"RECEIVING"} \in SUBSET Flag /\ CLOCK \in Proc \ {IDLE} BY Slots DEF Flag
    <2>3. /\ Good(k) /\ k.proc = proc_ptr /\ k.rts = [rts EXCEPT ![CLOCK] = @ \cup {"RECEIVING"}]
          /\ k.pri = p_priority
      BY <1>0, <2>1, <2>2, SetNow
    <2>a. k.rts[CLOCK] # {}
      <3>1. rts \in [Proc -> SUBSET Flag] BY <1>0, QueueTypes
      <3> HIDE DEF k
      <3> QED BY <2>2, <2>3, <3>1
    <2> HIDE DEF k
    <2>4. /\ QueueInv' /\ TaskKept /\ p_priority' = p_priority /\ next_ptr' = NIL
          /\ rts' = rts \/ rts' = [rts EXCEPT ![CLOCK] = @ \cup {"RECEIVING"}]
      <3>1. CASE Becomes(schedcheck(k)) BY <1>0, <2>3, <2>a, <3>1, TrapStep
      <3>2. CASE Becomes(schedcheck(Now))
        <4> DEFINE m == Now
        <4>1. Good(m) /\ m.proc = proc_ptr /\ m.rts = rts /\ m.pri = p_priority /\ m.next = next_ptr
          BY <1>0, QueueTypes, NowIs
        <4>2. Becomes(schedcheck(m)) BY <3>2
        <4> HIDE DEF m
        <4> QED BY <1>0, <4>1, <4>2, TrapStep
      <3> QED BY <2>1, <3>1, <3>2
    <2>5. MaxInv' BY <1>0, <2>1, <2>4, MaxKept, PriorityInt
    <2>6. ClockInv' BY <1>0, <2>1, <2>4, Slots DEF ClockInv
    <2>7. SysInv'
      <3>1. rts \in [Proc -> SUBSET Flag] BY <1>0, QueueTypes
      <3>2. \A p \in Proc : "SYS_LOCK" \in rts[p] => "SYS_LOCK" \in rts'[p] BY <2>4, <3>1
      <3> QED BY <1>0, <2>1, <3>2, SysKept DEF vtvars
    <2> QED BY <2>4, <2>5, <2>6, <2>7 DEF SchedInv
  <1> QED BY <1>1, <1>2, <1>4, <1>5, <1>6, <1>7 DEF ClockTask
-----------------------------------------------------------------------------
(* balance_queues, while the clock task runs. *)

(* A priority that is raised while the process is off its queue. *)
LEMMA RaisedIs ==
    ASSUME NEW d \in State, Limits(d), NEW R, NEW p \in Proc \ {IDLE}, p \notin R, p # CLOCK,
           Queued(d, R), d.pri[p] > 0
    PROVE  LET w == [d EXCEPT !.pri[p] = @ - 1]
           IN  /\ w \in State /\ Limits(w) /\ Queued(w, R)
               /\ w.rts = d.rts /\ w.proc = d.proc /\ w.next = d.next
               /\ w.pri[p] = d.pri[p] - 1
               /\ \A r \in Proc : r # p => w.pri[r] = d.pri[r]
  <1> DEFINE w == [d EXCEPT !.pri[p] = @ - 1]
  <1>0. d.pri \in [Proc -> Queues] /\ IDLE_Q \in Nat BY QueueNumbers DEF State
  <1>1. d.pri[p] - 1 \in Queues /\ d.pri[p] - 1 < IDLE_Q
    BY <1>0 DEF Queues
  <1>2. /\ w.rts = d.rts /\ w.pri = [d.pri EXCEPT ![p] = @ - 1] /\ w.left = d.left /\ w.rdy = d.rdy
        /\ w.proc = d.proc /\ w.next = d.next /\ w.bill = d.bill
    BY DEF State
  <1>3. /\ w.pri \in [Proc -> Queues] /\ w.pri[p] = d.pri[p] - 1
        /\ \A r \in Proc : r # p => w.pri[r] = d.pri[r]
    BY <1>0, <1>1, <1>2
  <1>4. w \in State BY <1>2, <1>3 DEF State
  <1> HIDE DEF w
  <1>5. Limits(w) BY <1>1, <1>2, <1>3, Slots DEF Limits
  <1>6. Queued(w, R) BY <1>2, <1>3 DEF Queued
  <1> QED BY <1>2, <1>3, <1>4, <1>5, <1>6 DEF w

LEMMA RaiseStep ==
    ASSUME SchedInv, proc_ptr = CLOCK, NEW p \in Proc, Raise(p),
           LET up(k) == [k EXCEPT !.pri[p] = @ - 1]
           IN  Becomes(IF rts[p] = {} THEN enqueue(up(dequeue(Now, p)), p) ELSE up(Now))
    PROVE  /\ QueueInv' /\ rts' = rts /\ proc_ptr' = CLOCK
           /\ \A r \in Proc : p_max_priority[r] <= p_priority'[r]
  <1> DEFINE m == Now
             d == dequeue(m, p)
             w == [d EXCEPT !.pri[p] = @ - 1]
             v == [m EXCEPT !.pri[p] = @ - 1]
             e == enqueue(w, p)
  <1>0. QueueInv /\ MaxInv BY SchedInvIs
  <1>1. /\ m \in State /\ Sound(m) /\ Queued(m, Ready(m)) /\ Limits(m)
        /\ m.next # NIL => m.rts[m.next] = {}
        /\ m.rts = rts /\ m.pri = p_priority /\ m.proc = CLOCK /\ rts[CLOCK] = {}
    BY <1>0, QueueTypes, NowIs DEF Sound, Good, Chosen
  <1>2. Becomes(IF rts[p] = {} THEN e ELSE v) OBVIOUS
  <1>3. /\ p_max_priority \in [Proc -> Queues] /\ p_max_priority[IDLE] = IDLE_Q
        /\ \A r \in Proc : p_max_priority[r] <= p_priority[r]
        /\ p_priority \in [Proc -> Queues] /\ p_priority[p] > p_max_priority[p]
        /\ Queues \subseteq Nat
    BY <1>0, QueueTypes, QueueNumbers DEF MaxInv, Raise
  <1> HIDE DEF m
  <1>4. p # IDLE /\ p # CLOCK /\ p_priority[p] > 0
    <2>1. p_priority[IDLE] = IDLE_Q /\ p_priority[CLOCK] = 0 BY <1>1 DEF Limits
    <2>2. p_max_priority[p] \in Nat /\ p_priority[p] \in Nat BY <1>3
    <2>3. IDLE_Q \in Nat BY QueueNumbers
    <2> QED BY <1>3, <2>1, <2>2, <2>3
  <1>5. CASE rts[p] = {}
    <2>1. p \in Ready(m) /\ p # IDLE /\ p # m.proc BY <1>1, <1>4, <1>5, Slots DEF Ready
    <2>2. /\ d \in State /\ Limits(d) /\ Queued(d, Ready(m) \ {p})
          /\ d.rts = m.rts /\ d.pri = m.pri /\ d.proc = m.proc
          /\ d.next # NIL => m.rts[d.next] = {}
      <3>1. /\ d \in State /\ Limits(d) /\ Queued(d, Ready(m) \ {p})
            /\ d.rts = m.rts /\ d.pri = m.pri /\ d.proc = m.proc
            /\ IF p \in {m.proc, m.next} THEN Best(d, Ready(m) \ {p}, d.next) ELSE d.next = m.next
        BY <1>1, <2>1, DequeueIs
      <3> HIDE DEF d
      <3>2. CASE p = m.next
        <4>1. m.next # NIL BY <3>2, Slots
        <4>2. m.rts[d.next] = {} BY <3>1, <3>2 DEF Best, Ready
        <4> QED BY <1>1, <3>1, <4>1, <4>2
      <3>3. CASE p # m.next BY <1>1, <2>1, <3>1, <3>3
      <3> QED BY <3>2, <3>3
    <2> HIDE DEF d
    <2> DEFINE R == Ready(m) \ {p}
    <2>3. p \in Proc \ {IDLE} /\ p \notin R /\ d.pri[p] > 0 BY <1>1, <1>4, <2>2
    <2> HIDE DEF R
    <2>4. /\ w \in State /\ Limits(w) /\ Queued(w, R)
          /\ w.rts = d.rts /\ w.proc = d.proc /\ w.next = d.next
          /\ w.pri[p] = d.pri[p] - 1
          /\ \A r \in Proc : r # p => w.pri[r] = d.pri[r]
      BY <1>4, <2>2, <2>3, RaisedIs DEF R
    <2> HIDE DEF w
    <2>5. Ready(w) = Ready(m) BY <2>2, <2>4 DEF Ready
    <2>6. /\ Sound(e) /\ e.rts = w.rts /\ e.proc = w.proc
          /\ \A r \in Proc : w.pri[r] <= e.pri[r]
          /\ w.proc \notin Preemptible => e.next = w.next
      BY <2>1, <2>4, <2>5, EnqueueIs DEF R
    <2>7. Becomes(e) BY <1>2, <1>5
    <2> HIDE DEF e
    <2>8. e.rts = rts /\ e.proc = CLOCK /\ e.next = d.next BY <1>1, <2>2, <2>4, <2>6, Slots
    <2>9. e.rts[CLOCK] = {} /\ (e.next # NIL => e.rts[e.next] = {})
      BY <1>1, <2>2, <2>8
    <2>10. QueueInv' /\ rts' = rts /\ p_priority' = e.pri /\ proc_ptr' = CLOCK
      BY <2>6, <2>7, <2>8, <2>9, ClockStep
    <2>11. ASSUME NEW r \in Proc PROVE p_max_priority[r] <= p_priority'[r]
      <3>1. p_max_priority[r] \in Int /\ w.pri[r] \in Int /\ e.pri[r] \in Int
        BY <1>3, <2>4, <2>6, QueueNumbers DEF Sound, State
      <3>2. p_max_priority[r] <= w.pri[r]
        <4>1. p_max_priority[r] \in Nat /\ p_priority[r] \in Nat BY <1>3
        <4>2. CASE r = p BY <1>1, <1>3, <2>2, <2>4, <4>1, <4>2
        <4>3. CASE r # p BY <1>1, <1>3, <2>2, <2>4, <4>3
        <4> QED BY <4>2, <4>3
      <3>3. w.pri[r] <= e.pri[r] BY <2>6
      <3> QED BY <2>10, <3>1, <3>2, <3>3
    <2> QED BY <2>10, <2>11
  <1>6. CASE rts[p] # {}
    <2>1. p \notin Ready(m) /\ p \in Proc \ {IDLE} /\ m.pri[p] > 0 BY <1>1, <1>4, <1>6 DEF Ready
    <2>2. /\ v \in State /\ Limits(v) /\ Queued(v, Ready(m))
          /\ v.rts = m.rts /\ v.proc = m.proc /\ v.next = m.next
          /\ v.pri[p] = m.pri[p] - 1
          /\ \A r \in Proc : r # p => v.pri[r] = m.pri[r]
      <3> DEFINE R == Ready(m)
      <3>1. Queued(m, R) /\ p \notin R BY <1>1, <2>1
      <3> HIDE DEF R
      <3>2. /\ v \in State /\ Limits(v) /\ Queued(v, R)
            /\ v.rts = m.rts /\ v.proc = m.proc /\ v.next = m.next
            /\ v.pri[p] = m.pri[p] - 1
            /\ \A r \in Proc : r # p => v.pri[r] = m.pri[r]
        BY <1>1, <1>4, <2>1, <3>1, RaisedIs
      <3> QED BY <3>2 DEF R
    <2> HIDE DEF v
    <2>3. Ready(v) = Ready(m) BY <2>2 DEF Ready
    <2>4. Sound(v) BY <2>2, <2>3 DEF Sound
    <2>5. v.proc = CLOCK /\ v.rts[CLOCK] = {} /\ (v.next # NIL => v.rts[v.next] = {})
      BY <1>1, <2>2
    <2>6. Becomes(v) BY <1>2, <1>6
    <2>7. QueueInv' /\ rts' = v.rts /\ p_priority' = v.pri /\ proc_ptr' = v.proc
      BY <2>4, <2>5, <2>6, ClockStep
    <2>8. ASSUME NEW r \in Proc PROVE p_max_priority[r] <= p_priority'[r]
      <3>1. p_max_priority[r] \in Nat /\ p_priority[r] \in Nat BY <1>3
      <3>2. CASE r = p BY <1>1, <1>3, <2>2, <2>7, <3>1, <3>2
      <3>3. CASE r # p BY <1>1, <1>3, <2>2, <2>7, <3>3
      <3> QED BY <3>2, <3>3
    <2> QED BY <1>1, <2>2, <2>7, <2>8
  <1> QED BY <1>5, <1>6

LEMMA RefillStep ==
    ASSUME SchedInv, proc_ptr = CLOCK, NEW p \in Proc,
           Becomes([Now EXCEPT !.left[p] = p_quantum_size[p]])
    PROVE  QueueInv' /\ rts' = rts /\ p_priority' = p_priority /\ proc_ptr' = CLOCK
  <1> DEFINE m == Now
             k == [m EXCEPT !.left[p] = p_quantum_size[p]]
  <1>0. QueueInv BY SchedInvIs
  <1>1. /\ m \in State /\ Queued(m, Ready(m)) /\ Limits(m)
        /\ m.next # NIL => m.rts[m.next] = {}
        /\ m.rts = rts /\ m.pri = p_priority /\ m.proc = CLOCK /\ rts[CLOCK] = {}
    BY <1>0, QueueTypes, NowIs DEF Sound, Good, Chosen
  <1>2. Becomes(k) OBVIOUS
  <1> HIDE DEF m
  <1>3. p_quantum_size[p] \in Int /\ p_quantum_size[p] > 0 BY QuantumAssumption
  <1>4. /\ k.rts = m.rts /\ k.pri = m.pri /\ k.left = [m.left EXCEPT ![p] = p_quantum_size[p]]
        /\ k.rdy = m.rdy /\ k.proc = m.proc /\ k.next = m.next /\ k.bill = m.bill /\ k \in State
    BY <1>1, <1>3 DEF State
  <1> HIDE DEF k
  <1>5. k.left[CLOCK] > 0
    BY <1>1, <1>3, <1>4, Slots DEF State, Limits
  <1>6. Ready(k) = Ready(m) BY <1>4 DEF Ready
  <1>7. Sound(k) BY <1>1, <1>4, <1>5, <1>6 DEF Sound, Limits, Queued
  <1>8. k.proc = CLOCK /\ k.rts[CLOCK] = {} /\ (k.next # NIL => k.rts[k.next] = {})
    BY <1>1, <1>4
  <1> QED BY <1>1, <1>2, <1>4, <1>7, <1>8, ClockStep

LEMMA NextSlotIs == ASSUME NEW p \in Proc PROVE NextSlot(p) \in Proc \cup {NIL}
  <1>1. CASE \E q \in Proc : q > p
    <2> DEFINE D == {q - p : q \in {r \in Proc : r > p}}
    <2>0. Proc \subseteq Int BY SchedAssumption
    <2>1. D \subseteq Nat /\ D # {} BY <1>1, <2>0
    <2>2. PICK x \in D : \A y \in D : x <= y
      <3> HIDE DEF D
      <3> QED BY <2>1, LeastExists
    <2>3. PICK q \in Proc : q > p /\ x = q - p BY <2>2
    <2>4. \A r \in Proc : r > p => q <= r
      <3> SUFFICES ASSUME NEW r \in Proc, r > p PROVE q <= r OBVIOUS
      <3>1. r - p \in D OBVIOUS
      <3>2. q - p <= r - p BY <2>2, <2>3, <3>1
      <3> QED BY <2>0, <3>2
    <2> QED BY <1>1, <2>3, <2>4 DEF NextSlot
  <1>2. CASE ~\E q \in Proc : q > p BY <1>2 DEF NextSlot
  <1> QED BY <1>1, <1>2

LEMMA BalanceStep ==
    ASSUME SchedInv, balance_queues
    PROVE  SchedInv' /\ TaskKept
  <1>0. QueueInv /\ MaxInv /\ ClockInv /\ SysInv BY SchedInvIs
  <1>1. /\ bal # NIL /\ BalanceOne(bal) /\ bal' = NextSlot(bal)
        /\ UNCHANGED <<p_max_priority, prev_ptr, clk, bill_copy, sysop, vtvars>>
    BY DEF balance_queues
  <1>2. bal \in Proc /\ proc_ptr = CLOCK BY <1>0, <1>1 DEF ClockInv
  <1>3. bal' \in Proc \cup {NIL} BY <1>1, <1>2, NextSlotIs
  <1>4. \A r \in Proc : p_max_priority[r] <= p_priority[r] BY <1>0 DEF MaxInv
  <1>5. /\ QueueInv' /\ rts' = rts /\ proc_ptr' = CLOCK
        /\ \A r \in Proc : p_max_priority[r] <= p_priority'[r]
    <2>1. CASE Becomes(Now)
      <3>1. UNCHANGED queuevars BY <2>1, NowIs DEF Becomes, queuevars
      <3>2. QueueInv' /\ rts' = rts /\ p_priority' = p_priority /\ proc_ptr' = proc_ptr
        BY <1>0, <3>1, QueueSame
      <3> QED BY <1>2, <1>4, <3>2
    <2>2. CASE /\ Raise(bal)
               /\ LET up(k) == [k EXCEPT !.pri[bal] = @ - 1]
                  IN  Becomes(IF rts[bal] = {} THEN enqueue(up(dequeue(Now, bal)), bal) ELSE up(Now))
      BY <1>2, <2>2, RaiseStep
    <2>3. CASE Becomes([Now EXCEPT !.left[bal] = p_quantum_size[bal]])
      BY <1>2, <1>4, <2>3, RefillStep
    <2> QED BY <1>1, <2>1, <2>2, <2>3 DEF BalanceOne
  <1>6. MaxInv' BY <1>0, <1>1, <1>5 DEF MaxInv
  <1>7. ClockInv' BY <1>0, <1>1, <1>3, <1>5 DEF ClockInv
  <1>8. SysInv' BY <1>0, <1>1, <1>5, SysKept DEF vtvars
  <1>9. TaskKept BY <1>2, <1>5 DEF TaskKept
  <1> QED BY <1>5, <1>6, <1>7, <1>8, <1>9 DEF SchedInv
-----------------------------------------------------------------------------
(* The state after boot. *)

LEMMA InitSched == Init => SchedInv
  <1> SUFFICES ASSUME Init PROVE SchedInv
    OBVIOUS
  <1>0. /\ boot_priority \in [Proc -> Queues] /\ p_quantum_size \in [Proc -> Nat \ {0}]
        /\ boot_priority[CLOCK] = 0 /\ \A p \in Proc : p # IDLE <=> boot_priority[p] < IDLE_Q
        /\ Proc \subseteq Int /\ IsFiniteSet(Proc) /\ IDLE \in Billable
        /\ FreeAtBoot \subseteq Users
    BY QuantumAssumption, SchedAssumption
  <1>1. /\ rts = BootFlags /\ p_priority = boot_priority /\ p_max_priority = boot_priority
        /\ p_ticks_left = p_quantum_size /\ rdy = BootQueues /\ proc_ptr = First
        /\ next_ptr = NIL /\ prev_ptr = First /\ bill_ptr = (IF First \in Billable THEN First ELSE IDLE)
        /\ clk = "start" /\ bill_copy = IDLE /\ bal = NIL
        /\ sysop = [op |-> "none", on |-> NIL]
        /\ armed = [p \in Proc |-> {}] /\ p_pending = [p \in Proc |-> {}]
    BY DEF Init
  <1>2. BootFlags \in [Proc -> SUBSET Flag] /\ BootFlags[IDLE] = {}
    BY <1>0, Slots DEF BootFlags, Flag
  <1>3. boot_priority[IDLE] = IDLE_Q
    <2>1. boot_priority[IDLE] \in 0 .. IDLE_Q /\ ~(boot_priority[IDLE] < IDLE_Q)
      BY <1>0, Slots DEF Queues
    <2> QED BY <2>1, QueueNumbers
  <1> DEFINE R == {p \in Proc : BootFlags[p] = {}}
             On(q) == {p \in Proc : BootFlags[p] = {} /\ boot_priority[p] = q}
             k == [rts |-> BootFlags, pri |-> boot_priority, left |-> p_quantum_size,
                   rdy |-> BootQueues, proc |-> IDLE, next |-> NIL, bill |-> IDLE]
  <1>4. ASSUME NEW q \in Queues
        PROVE  /\ BootQueues[q] \in Seq(Proc) /\ Distinct(BootQueues[q])
               /\ \A p : Member(p, BootQueues[q]) <=> p \in On(q)
    <2>1. On(q) \subseteq Int /\ On(q) \in SUBSET Proc BY <1>0
    <2>2. IsFiniteSet(On(q)) BY <1>0, <2>1, FS_Subset
    <2>3. BootQueues[q] = Descending(On(q)) BY <1>4 DEF BootQueues
    <2> HIDE DEF On
    <2>4. /\ Descending(On(q)) \in Seq(On(q)) /\ Distinct(Descending(On(q)))
          /\ \A p : Member(p, Descending(On(q))) <=> p \in On(q)
      BY <2>1, <2>2, DescendingIs
    <2>5. Descending(On(q)) \in Seq(Proc) BY <2>1, <2>4
    <2> QED BY <2>3, <2>4, <2>5
  <1>5. BootQueues \in [Queues -> Seq(Proc)]
    <2>1. DOMAIN BootQueues = Queues /\ BootQueues = [q \in Queues |-> BootQueues[q]] BY DEF BootQueues
    <2> QED BY <1>4, <2>1
  <1>6. /\ k.rts = BootFlags /\ k.pri = boot_priority /\ k.left = p_quantum_size
        /\ k.rdy = BootQueues /\ k.proc = IDLE /\ k.next = NIL /\ k.bill = IDLE
    OBVIOUS
  <1>7. k \in State
    <2>1. p_quantum_size \in [Proc -> Int] BY <1>0
    <2> QED BY <1>0, <1>2, <1>5, <2>1, Slots DEF State
  <1> HIDE DEF k
  <1>8. R = Ready(k) /\ R \subseteq Proc /\ IDLE \in R BY <1>2, <1>6, Slots DEF Ready
  <1>9. Queued(k, R)
    BY <1>4, <1>6 DEF Queued
  <1>10. Limits(k)
    <2>1. p_quantum_size[CLOCK] \in Nat \ {0} BY <1>0, Slots
    <2>2. k.left[CLOCK] > 0 BY <1>6, <2>1
    <2>3. \A p \in Proc \ {IDLE} : k.pri[p] < IDLE_Q BY <1>0, <1>6
    <2>4. k.rts[IDLE] = {} /\ k.pri[IDLE] = IDLE_Q /\ k.pri[CLOCK] = 0 /\ k.bill \in Billable
      BY <1>0, <1>2, <1>3, <1>6
    <2> QED BY <2>2, <2>3, <2>4 DEF Limits
  <1> HIDE DEF R, On
  <1>11. Best(k, R, First) /\ First \in Proc
    <2>1. Best(k, R, pick_proc(k).next) BY <1>7, <1>8, <1>9, PickIs
    <2>2. First = Head(k.rdy[FirstQueue(k)]) BY <1>6 DEF First, FirstQueue
    <2>3. pick_proc(k).next = Head(k.rdy[FirstQueue(k)]) BY <1>7 DEF pick_proc, State
    <2> QED BY <1>8, <2>1, <2>2, <2>3 DEF Best
  <1> DEFINE m == Now
  <1>12. /\ m.rts = k.rts /\ m.pri = k.pri /\ m.left = k.left /\ m.rdy = k.rdy
         /\ m.proc = First /\ m.next = NIL /\ m.bill \in Billable /\ m \in State
    <2>1. bill_ptr \in Billable /\ bill_ptr \in Proc BY <1>0, <1>1, Slots
    <2>2. /\ m.rts = k.rts /\ m.pri = k.pri /\ m.left = k.left /\ m.rdy = k.rdy
          /\ m.proc = First /\ m.next = NIL /\ m.bill = bill_ptr
      BY <1>1, <1>6, NowIs
    <2>3. /\ k.rts \in [Proc -> SUBSET Flag] /\ k.pri \in [Proc -> Queues] /\ k.left \in [Proc -> Int]
          /\ k.rdy \in [Queues -> Seq(Proc)]
      BY <1>7 DEF State
    <2> QED BY <1>1, <1>6, <1>11, <2>1, <2>2, <2>3 DEF State, Now
  <1> HIDE DEF m
  <1>13. Ready(m) = R BY <1>8, <1>12 DEF Ready
  <1>14. Sound(m) BY <1>9, <1>10, <1>12, <1>13 DEF Sound, Queued, Limits
  <1>15. Runs(m) BY <1>11, <1>12, <1>13 DEF Runs, Best, Ready
  <1>16. QueueInv
    <2>1. Chosen(m) /\ m.rts[m.proc] = {} BY <1>12, <1>15 DEF Chosen, Runs
    <2> QED BY <1>1, <1>14, <2>1, NowIs DEF QueueInv, m
  <1>17. MaxInv
    <2>1. \A p \in Proc : boot_priority[p] \in Int BY <1>0, QueueNumbers
    <2> QED BY <1>0, <1>1, <1>3, <2>1 DEF MaxInv
  <1>18. ClockInv BY <1>1, <1>11, Slots DEF ClockInv
  <1>19. SysInv BY <1>1 DEF SysInv, VTimer
  <1> QED BY <1>16, <1>17, <1>18, <1>19, SchedInvIs

LEMMA NextSched ==
    ASSUME SchedInv, [Next]_vars
    PROVE  SchedInv' /\ TaskKept
  <1>1. CASE UNCHANGED vars
    <2>0. QueueInv /\ MaxInv /\ ClockInv /\ SysInv BY SchedInvIs
    <2>1. /\ QueueInv' /\ TaskKept /\ rts' = rts /\ p_priority' = p_priority
          /\ proc_ptr' = proc_ptr /\ next_ptr' = next_ptr
      BY <1>1, <2>0, QueueSame DEF vars
    <2>2. MaxInv' /\ ClockInv' /\ SysInv'
      BY <1>1, <2>0, <2>1 DEF MaxInv, ClockInv, SysInv, vars, clockvars, vtvars
    <2> QED BY <2>1, <2>2 DEF SchedInv
  <1>2. CASE Next
    BY <1>2, BalanceStep, TickStep, ClockTaskSteps, SystemTaskSteps, SysCallSteps DEF Next
  <1> QED BY <1>1, <1>2

-----------------------------------------------------------------------------

LEMMA QueuesHold == ASSUME SchedInv PROVE RunqueuesSound
  <1>0. QueueInv /\ MaxInv BY SchedInvIs
  <1> DEFINE m == Now
  <1>1. /\ m \in State /\ Queued(m, Ready(m)) /\ Limits(m)
        /\ m.rts = rts /\ m.pri = p_priority /\ m.rdy = rdy
    BY <1>0, QueueTypes, NowIs DEF Sound
  <1> HIDE DEF m
  <1>2. ASSUME NEW p \in Proc, NEW q \in Queues
        PROVE  OnQueue(p, q) = IF rts[p] = {} /\ p_priority[p] = q THEN 1 ELSE 0
    <2> DEFINE I == {i \in DOMAIN rdy[q] : rdy[q][i] = p}
    <2>1. Distinct(rdy[q]) /\ (Member(p, rdy[q]) <=> (rts[p] = {} /\ p_priority[p] = q))
      BY <1>1 DEF Queued, Ready
    <2>2. CASE Member(p, rdy[q])
      <3>1. PICK i \in DOMAIN rdy[q] : rdy[q][i] = p BY <2>2 DEF Member
      <3>2. I = {i} BY <2>1, <3>1 DEF Distinct
      <3>3. Cardinality(I) = 1 BY <3>2, FS_Singleton
      <3> QED BY <2>1, <2>2, <3>3 DEF OnQueue
    <2>3. CASE ~Member(p, rdy[q])
      <3>1. I = {} BY <2>3 DEF Member
      <3>2. Cardinality(I) = 0 BY <3>1, FS_EmptySet
      <3> QED BY <2>1, <2>3, <3>2 DEF OnQueue
    <2> QED BY <2>2, <2>3
  <1>3. (\A p \in Proc \ {IDLE} : p_priority[p] < IDLE_Q) /\ p_priority[IDLE] = IDLE_Q
    BY <1>1 DEF Limits
  <1> QED BY <1>0, <1>2, <1>3 DEF RunqueuesSound, MaxInv

LEMMA BestRuns == ASSUME SchedInv PROVE HighestRuns
  <1>0. QueueInv BY SchedInvIs
  <1>1. Runs(Now) /\ (next_ptr # NIL => rts[next_ptr] = {})
    BY <1>0, QueueTypes, NowIs DEF QueueInv, Chosen
  <1>2. /\ rts[proc_ptr] = {}
        /\ (proc_ptr \in Preemptible /\ rts[CLOCK] # {})
               => \A p \in Proc : rts[p] = {} => p_priority[proc_ptr] <= p_priority[p]
    BY <1>1, NowIs DEF Runs, Best, Ready, Asleep
  <1> QED BY <1>1, <1>2 DEF HighestRuns

(* The ready queues hold exactly the runnable processes, each once, on the  *)
(* queue of its priority, and priorities stay between the limit of sys_nice *)
(* and the queue of IDLE, for any number of processes and queues, under any *)
(* interleaving of system calls, ticks, device interrupts and tasks: also   *)
(* when a tick comes between the test and the requeueing in do_clocktick,   *)
(* which then requeues the clock task itself.                               *)
THEOREM QueuesStaySound == Spec => []RunqueuesSound
  <1>1. Init => SchedInv BY InitSched
  <1>2. SchedInv /\ [Next]_vars => SchedInv' BY NextSched
  <1>3. SchedInv => RunqueuesSound BY QueuesHold
  <1> QED BY <1>1, <1>2, <1>3, PTL DEF Spec

(* Wherever ticks come, the process that runs and the one that is chosen to *)
(* run next are on a ready queue: neither schedcheck() nor pick_proc() gives *)
(* the processor to a process that has been blocked in the meantime.        *)
THEOREM OnlyReadyProcessesRun ==
    Spec => [](rts[proc_ptr] = {} /\ (next_ptr # NIL => rts[next_ptr] = {}))
  <1> DEFINE P == rts[proc_ptr] = {} /\ (next_ptr # NIL => rts[next_ptr] = {})
  <1>1. Init => SchedInv BY InitSched
  <1>2. SchedInv /\ [Next]_vars => SchedInv' BY NextSched
  <1>3. SchedInv => P BY NowIs DEF SchedInv, QueueInv, Chosen
  <1> QED BY <1>1, <1>2, <1>3, PTL DEF Spec

(* The process that runs is runnable and, unless it is a task that cannot   *)
(* be preempted, nobody on a better queue is ready: the comparisons in      *)
(* enqueue and dequeue, which never look at the whole table, suffice.  The  *)
(* exception HighestRuns makes, the time in which the clock task is ready   *)
(* and does not run, is the only one: no assumption is made on the points   *)
(* at which ticks come.                                                     *)
THEOREM BestProcessRuns == Spec => []HighestRuns
  <1>1. Init => SchedInv BY InitSched
  <1>2. SchedInv /\ [Next]_vars => SchedInv' BY NextSched
  <1>3. SchedInv => HighestRuns BY BestRuns
  <1> QED BY <1>1, <1>2, <1>3, PTL DEF Spec

(* A task that is not preemptible loses the processor only by blocking,     *)
(* wherever ticks come, except the clock task after it dequeued itself.     *)
THEOREM TasksRunOn == Spec => TaskNotPreempted
  <1>1. Init => SchedInv BY InitSched
  <1>2. SchedInv /\ [Next]_vars => SchedInv' BY NextSched
  <1>3. SchedInv /\ [Next]_vars => [TaskKept]_vars BY NextSched
  <1>4. TaskKept <=> ((proc_ptr \notin Preemptible /\ proc_ptr' # proc_ptr)
                          => \/ rts'[proc_ptr] # {}
                             \/ proc_ptr = CLOCK /\ next_ptr # NIL)
    BY DEF TaskKept
  <1> QED BY <1>1, <1>2, <1>3, <1>4, PTL DEF Spec, TaskNotPreempted
=============================================================================
