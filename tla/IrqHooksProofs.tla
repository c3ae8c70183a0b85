--------------------------- MODULE IrqHooksProofs ---------------------------
(***************************************************************************)
(* The lists of interrupt hooks stay sound, closed lines are opened only   *)
(* when none of their handlers is active, and which handlers leave a list, *)
(* for any number of drivers, hooks and lines.                             *)
(***************************************************************************)
EXTENDS IrqHooks, QueueLemmas, FiniteSetTheorems

(* The least of a set of numbers is one of them. *)
LEMMA MinIn == ASSUME NEW S, S \subseteq Nat, S # {} PROVE MinOf(S) \in S
  BY LeastExists DEF MinOf

(* A list of hooks with no id twice. *)
IdsOnce(q) == \A i, j \in DOMAIN q : id[q[i]] = id[q[j]] => i = j

LEMMA IdsOnceIs ==
    ASSUME NEW q \in Seq(Hook), IdsOnce(q)
    PROVE  Distinct(q) /\ \A g, h : Member(g, q) /\ Member(h, q) /\ id[g] = id[h] => g = h
  BY DEF IdsOnce, Distinct, Member

LEMMA HooksMember ==
    ASSUME NEW l PROVE \A h : h \in Hooks(l) <=> Member(h, irq_handlers[l])
  BY DEF Hooks, Range, Member

LEMMA HooksAreHooks == ASSUME TypeOK, NEW l \in Irq PROVE Hooks(l) \subseteq Hook
  BY DEF TypeOK, Hooks, Range

(* The ids of a line as an image of the positions of its list. *)
LEMMA IdsImage ==
    ASSUME TypeOK, NEW l \in Irq
    PROVE  LET n == Len(irq_handlers[l])
               f == [i \in 1 .. n |-> id[irq_handlers[l][i]]]
           IN  /\ n \in Nat /\ DOMAIN irq_handlers[l] = 1 .. n
               /\ f \in Surjection(1 .. n, Ids(l))
               /\ IsFiniteSet(1 .. n) /\ Cardinality(1 .. n) = n
  <1> DEFINE q == irq_handlers[l]
             n == Len(q)
             f == [i \in 1 .. n |-> id[q[i]]]
  <1>1. q \in Seq(Hook) BY DEF TypeOK
  <1>2. n \in Nat /\ DOMAIN q = 1 .. n BY <1>1
  <1>3. Ids(l) = {id[q[i]] : i \in 1 .. n}
    BY <1>2 DEF Ids, Hooks, Range
  <1>4. f \in [1 .. n -> Ids(l)] /\ \A t \in Ids(l) : \E s \in 1 .. n : f[s] = t
    BY <1>3
  <1>5. f \in Surjection(1 .. n, Ids(l))
    BY <1>4 DEF Surjection
  <1>6. IsFiniteSet(1 .. n) /\ Cardinality(1 .. n) = n
    BY <1>2, FS_Interval
  <1> QED BY <1>2, <1>5, <1>6

(* put_irq_handler finds an id that is not in use. *)
LEMMA LowestIdIs ==
    ASSUME TypeOK, NEW l \in Irq
    PROVE  LowestId(l) \in 1 .. Len(irq_handlers[l]) + 1 /\ LowestId(l) \notin Ids(l)
  <1> DEFINE n == Len(irq_handlers[l])
             f == [i \in 1 .. n |-> id[irq_handlers[l][i]]]
  <1>1. /\ n \in Nat /\ f \in Surjection(1 .. n, Ids(l))
        /\ IsFiniteSet(1 .. n) /\ Cardinality(1 .. n) = n
    BY IdsImage
  <1> HIDE DEF n, f
  <1>2. IsFiniteSet(Ids(l)) /\ Cardinality(Ids(l)) <= n /\ Cardinality(Ids(l)) \in Nat
    BY <1>1, FS_Surjection, FS_CardinalityType
  <1>3. (1 .. n + 1) \ Ids(l) # {}
    <2>1. SUFFICES ASSUME 1 .. n + 1 \subseteq Ids(l) PROVE FALSE
      OBVIOUS
    <2>2. Cardinality(1 .. n + 1) = n + 1
      BY <1>1, FS_Interval
    <2>3. Cardinality(1 .. n + 1) <= Cardinality(Ids(l))
      BY <1>2, <2>1, FS_Subset
    <2> QED BY <1>1, <1>2, <2>2, <2>3
  <1>4. (1 .. n + 1) \ Ids(l) \subseteq Nat
    BY <1>1
  <1>5. LowestId(l) = MinOf((1 .. n + 1) \ Ids(l))
    BY DEF LowestId, n
  <1>6. MinOf((1 .. n + 1) \ Ids(l)) \in (1 .. n + 1) \ Ids(l)
    BY <1>3, <1>4, MinIn
  <1> QED BY <1>5, <1>6 DEF n

(* A list that a hook is not in is shorter than the table of hooks. *)
LEMMA ListRoom ==
    ASSUME TypeOK, NEW l \in Irq, IdsOnce(irq_handlers[l]), NEW h \in Hook, h \notin Hooks(l)
    PROVE  Len(irq_handlers[l]) + 1 <= Cardinality(Hook)
  <1> DEFINE q == irq_handlers[l]
             n == Len(q)
  <1>1. q \in Seq(Hook) BY DEF TypeOK
  <1>2. n \in Nat /\ DOMAIN q = 1 .. n BY <1>1
  <1>3. q \in [1 .. n -> Hook \ {h}]
    BY <1>1, <1>2 DEF Hooks, Range
  <1>4. q \in Injection(1 .. n, Hook \ {h})
    BY <1>2, <1>3 DEF IdsOnce, Injection, IsInjective
  <1>5. /\ IsFiniteSet(Hook) /\ IsFiniteSet(Hook \ {h}) /\ Cardinality(Hook) \in Nat
        /\ Cardinality(Hook \ {h}) = Cardinality(Hook) - 1
    BY IrqAssumption, FS_RemoveElement, FS_CardinalityType
  <1> HIDE DEF q, n
  <1>6. Cardinality(1 .. n) <= Cardinality(Hook \ {h})
    BY <1>4, <1>5, FS_Injection
  <1>7. Cardinality(1 .. n) = n
    BY <1>2, FS_Interval
  <1> QED BY <1>2, <1>5, <1>6, <1>7 DEF n, q

(* Distinct ids are as many as the handlers of the line. *)
LEMMA IdsCount ==
    ASSUME TypeOK, NEW l \in Irq, IdsOnce(irq_handlers[l])
    PROVE  Cardinality(Ids(l)) = Len(irq_handlers[l])
  <1> DEFINE n == Len(irq_handlers[l])
             f == [i \in 1 .. n |-> id[irq_handlers[l][i]]]
  <1>1. /\ n \in Nat /\ f \in Surjection(1 .. n, Ids(l)) /\ DOMAIN irq_handlers[l] = 1 .. n
        /\ IsFiniteSet(1 .. n) /\ Cardinality(1 .. n) = n
    BY IdsImage
  <1>2. f \in Injection(1 .. n, Ids(l))
    BY <1>1 DEF IdsOnce, Injection, IsInjective, Surjection
  <1> HIDE DEF n, f
  <1>3. Cardinality(Ids(l)) = Cardinality(1 .. n)
    BY <1>1, <1>2, FS_Surjection
  <1> QED BY <1>1, <1>3 DEF n

(* rm_irq_handler takes the hook with the id of h off a list. *)
LEMMA UnlinkIs ==
    ASSUME NEW q \in Seq(Hook), IdsOnce(q), NEW h
    PROVE  LET t == RemoveFirstMatch(q, LAMBDA g : id[g] = id[h])
           IN  /\ t \in Seq(Hook) /\ IdsOnce(t)
               /\ \A g : Member(g, t) <=> (Member(g, q) /\ id[g] # id[h])
  <1> DEFINE t == RemoveFirstMatch(q, LAMBDA g : id[g] = id[h])
             I == {j \in 1 .. Len(q) : id[q[j]] = id[h]}
  <1>0. Distinct(q) /\ \A g, k : Member(g, q) /\ Member(k, q) /\ id[g] = id[k] => g = k
    BY IdsOnceIs
  <1>1. CASE I = {}
    <2>1. t = q BY <1>1 DEF RemoveFirstMatch
    <2>2. \A g : Member(g, q) => id[g] # id[h]
      BY <1>1 DEF Member
    <2> HIDE DEF t
    <2> QED BY <2>1, <2>2 DEF t
  <1>2. CASE I # {}
    <2>1. Min(I) \in I
      <3>1. I \subseteq Nat OBVIOUS
      <3> HIDE DEF I
      <3>2. \E j \in I : \A y \in I : j <= y
        BY <1>2, <3>1, LeastExists
      <3> QED BY <3>2 DEF Min
    <2>2. SelectInSeq(q, LAMBDA g : id[g] = id[h]) = Min(I)
      BY <1>2 DEF SelectInSeq
    <2>3. t = RemoveAt(q, SelectInSeq(q, LAMBDA g : id[g] = id[h]))
      BY <1>2 DEF RemoveFirstMatch
    <2>4. PICK n \in 1 .. Len(q) : id[q[n]] = id[h] /\ t = RemoveAt(q, n)
      BY <2>1, <2>2, <2>3
    <2> HIDE DEF t, I
    <2>5. /\ t \in Seq(Hook) /\ Distinct(t)
          /\ \A y : Member(y, t) <=> (Member(y, q) /\ y # q[n])
      BY <1>0, <2>4, RemoveAtIs, RemoveAtQueue
    <2>6. Member(q[n], q) BY DEF Member
    <2>7. \A g : Member(g, t) <=> (Member(g, q) /\ id[g] # id[h])
      BY <1>0, <2>4, <2>5, <2>6
    <2>8. IdsOnce(t)
      <3>1. \A i \in DOMAIN t : Member(t[i], q)
        BY <2>5 DEF Member
      <3> QED BY <1>0, <2>5, <3>1 DEF IdsOnce, Distinct
    <2> QED BY <2>5, <2>7, <2>8 DEF t
  <1> QED BY <1>1, <1>2
-----------------------------------------------------------------------------
(* HooksInv is preserved. *)

(* The hook in hand of the system task, and the line it is for. *)
LEMMA InUse ==
    ASSUME HooksInv, NEW h \in Hook, proc_nr_e[h] # NONE
    PROVE  irq[h] \in Irq /\ id[h] \in 1 .. Cardinality(Hook) /\ proc_nr_e[h] \in Driver
  <1>1. proc_nr_e[h] \in Driver /\ id[h] \in 0 .. Cardinality(Hook) /\ id[h] # 0
        /\ irq[h] \in LinesOf[proc_nr_e[h]]
    BY DEF HooksInv, TypeOK, ListsSound
  <1> QED BY <1>1, IrqAssumption

LEMMA SysHook ==
    ASSUME HooksInv, sys.at \in {"enable", "unmask", "close", "rm", "mask", "unlink"}
    PROVE  sys.hook \in Hook /\ proc_nr_e[sys.hook] # NONE
  BY DEF HooksInv, SysSound

(* A step that leaves the table of hooks and the lists alone. *)
LEMMA ListsAlone ==
    ASSUME HooksInv, UNCHANGED <<hvars, irq_handlers>>,
           \A h \in Hook : proc_nr_e[h] # NONE => proc_nr_e[h] \in alive' \cup {sys'.exits}
    PROVE  ListsSound'
  BY DEF HooksInv, ListsSound, hvars, Hooks

(* Steps that are not of the system task. *)
LEMMA LinesSteps ==
    ASSUME HooksInv,
           \/ \E l \in Irq : irq_handle(l) \/ Raise(l)
           \/ \E d \in Driver : Start(d) \/ Receive(d)
    PROVE  HooksInv'
  <1>0. TypeOK /\ SysSound BY DEF HooksInv
  <1>1. UNCHANGED <<hvars, irq_handlers, sys>> /\ alive \subseteq alive'
    BY DEF irq_handle, Raise, Start, Receive
  <1>2. ListsSound'
    <2>1. \A h \in Hook : proc_nr_e[h] # NONE => proc_nr_e[h] \in alive' \cup {sys'.exits}
      BY <1>1 DEF HooksInv, ListsSound
    <2> QED BY <1>1, <2>1, ListsAlone
  <1>3. SysSound' BY <1>0, <1>1 DEF SysSound, hvars
  <1>4. /\ proc_nr_e' \in [Hook -> Driver \cup {NONE}] /\ irq' \in [Hook -> Irq \cup {NONE}]
        /\ id' \in [Hook -> 0 .. Cardinality(Hook)] /\ policy' \in [Hook -> BOOLEAN]
        /\ irq_handlers' \in [Irq -> Seq(Hook)]
        /\ sys' \in [at : Points, hook : Hook \cup {0}, exits : Driver \cup {NONE}, open : BOOLEAN]
    BY <1>0, <1>1 DEF TypeOK, hvars
  <1>5. TypeOK'
    <2>1. ASSUME NEW l \in Irq, irq_handle(l) PROVE TypeOK'
      <3>1. \A h \in Hooks(l) : h \in Hook /\ id[h] \in 1 .. Cardinality(Hook)
        BY InUse, HooksAreHooks DEF HooksInv, ListsSound
      <3>2. irq_actids' \in [Irq -> SUBSET (1 .. Cardinality(Hook))]
        BY <1>0, <2>1, <3>1 DEF irq_handle, TypeOK, Ids
      <3>3. /\ masked' \subseteq Irq /\ request' \subseteq Irq /\ s_int_pending' \subseteq Hook
            /\ todo' \subseteq Hook /\ alive' \subseteq Driver /\ panicked' \in BOOLEAN
        BY <1>0, <2>1, <3>1 DEF irq_handle, TypeOK
      <3> QED BY <1>4, <3>2, <3>3 DEF TypeOK
    <2>2. ASSUME NEW l \in Irq, Raise(l) PROVE TypeOK'
      BY <1>0, <1>4, <2>2 DEF Raise, TypeOK
    <2>3. ASSUME NEW d \in Driver, Start(d) \/ Receive(d) PROVE TypeOK'
      BY <1>0, <1>4, <2>3 DEF Start, Receive, TypeOK
    <2> QED BY <2>1, <2>2, <2>3
  <1> QED BY <1>2, <1>3, <1>5 DEF HooksInv

(* What the system task has in hand when it is idle, or about to act on a line. *)
SysType == [at : Points, hook : Hook \cup {0}, exits : Driver \cup {NONE}, open : BOOLEAN]

LEMMA IdleIs ==
    /\ Idle \in SysType /\ Idle.at = "idle" /\ Idle.exits = NONE
    /\ \A h \in Hook, b \in BOOLEAN :
           LET s == [Idle EXCEPT !.at = "unmask", !.hook = h, !.open = b]
           IN  s \in SysType /\ s.at = "unmask" /\ s.hook = h /\ s.exits = NONE /\ s.open = b
    /\ \A h \in Hook :
           LET s == [Idle EXCEPT !.at = "close", !.hook = h]
           IN  s \in SysType /\ s.at = "close" /\ s.hook = h /\ s.exits = NONE
  <1>1. Idle \in SysType /\ Idle.at = "idle" /\ Idle.exits = NONE
    BY DEF Idle, SysType, Points
  <1>2. "unmask" \in Points /\ "close" \in Points BY DEF Points
  <1> HIDE DEF Idle
  <1>3. ASSUME NEW h \in Hook, NEW b \in BOOLEAN
        PROVE LET s == [Idle EXCEPT !.at = "unmask", !.hook = h, !.open = b]
              IN  s \in SysType /\ s.at = "unmask" /\ s.hook = h /\ s.exits = NONE /\ s.open = b
    BY <1>1, <1>2 DEF SysType
  <1>4. ASSUME NEW h \in Hook
        PROVE LET s == [Idle EXCEPT !.at = "close", !.hook = h]
              IN  s \in SysType /\ s.at = "close" /\ s.hook = h /\ s.exits = NONE
    BY <1>1, <1>2 DEF SysType
  <1> QED BY <1>1, <1>3, <1>4

(* enable_irq and disable_irq, up to what they do to the line. *)
LEMMA BitSys ==
    ASSUME NEW h \in Hook, enable_irq(h) \/ disable_irq(h)
    PROVE  /\ sys' \in SysType /\ sys'.exits = NONE
           /\ \/ sys' = Idle
              \/ sys'.at = "close" /\ sys'.hook = h
              \/ /\ sys'.at = "unmask" /\ sys'.hook = h /\ irq_actids'[irq[h]] = {}
                 /\ sys'.open = (irq[h] \notin masked)
  <1>1. CASE disable_irq(h) BY <1>1, IdleIs DEF disable_irq
  <1>2. CASE enable_irq(h) /\ irq_actids'[irq[h]] # {} BY <1>2, IdleIs DEF enable_irq
  <1>3. CASE enable_irq(h) /\ irq_actids'[irq[h]] = {}
    <2>1. (irq[h] \notin masked) \in BOOLEAN OBVIOUS
    <2>2. sys' = [Idle EXCEPT !.at = "unmask", !.hook = h, !.open = (irq[h] \notin masked)]
      BY <1>3 DEF enable_irq
    <2> DEFINE b == irq[h] \notin masked
    <2>3. b \in BOOLEAN /\ sys' = [Idle EXCEPT !.at = "unmask", !.hook = h, !.open = b]
      BY <2>1, <2>2
    <2> HIDE DEF b
    <2>4. /\ sys' \in SysType /\ sys'.at = "unmask" /\ sys'.hook = h /\ sys'.exits = NONE
          /\ sys'.open = b
      <3>1. LET s == [Idle EXCEPT !.at = "unmask", !.hook = h, !.open = b]
            IN  s \in SysType /\ s.at = "unmask" /\ s.hook = h /\ s.exits = NONE /\ s.open = b
        BY <2>3, IdleIs, Zenon
      <3> QED BY <2>3, <3>1, Zenon
    <2> QED BY <1>3, <2>4 DEF b
  <1> QED BY <1>1, <1>2, <1>3

LEMMA BitSteps ==
    ASSUME HooksInv,
           \/ SetPolicyEnable
           \/ \E d \in Driver, h \in Hook : IrqEnable(d, h) \/ IrqDisable(d, h)
    PROVE  /\ HooksInv' /\ UNCHANGED <<hvars, irq_handlers, masked>>
           /\ \E h \in Hook : proc_nr_e[h] # NONE /\ (enable_irq(h) \/ disable_irq(h))
  <1>0. TypeOK /\ SysSound /\ ListsSound BY DEF HooksInv
  <1>1. /\ UNCHANGED <<hvars, irq_handlers, masked, request, s_int_pending, alive, panicked>>
        /\ todo' \subseteq Hook /\ sys.exits = NONE
    BY <1>0 DEF SetPolicyEnable, IrqEnable, IrqDisable, Calls, SysSound, Idle, TypeOK
  <1>2. PICK h \in Hook : proc_nr_e[h] # NONE /\ (enable_irq(h) \/ disable_irq(h))
    <2>1. CASE SetPolicyEnable BY <2>1, SysHook DEF SetPolicyEnable
    <2>2. CASE \E d \in Driver, h \in Hook : IrqEnable(d, h) \/ IrqDisable(d, h)
      BY <2>2, IrqAssumption DEF IrqEnable, IrqDisable
    <2> QED BY <2>1, <2>2
  <1>3. irq[h] \in Irq /\ id[h] \in 1 .. Cardinality(Hook)
    BY <1>2, InUse
  <1>4. irq_actids' \in [Irq -> SUBSET (1 .. Cardinality(Hook))]
    <2>1. CASE enable_irq(h) BY <1>0, <1>3, <2>1 DEF enable_irq, TypeOK
    <2>2. CASE disable_irq(h) BY <1>0, <1>3, <2>2 DEF disable_irq, TypeOK
    <2> QED BY <1>2, <2>1, <2>2
  <1>5. /\ sys' \in [at : Points, hook : Hook \cup {0}, exits : Driver \cup {NONE}, open : BOOLEAN]
        /\ sys' = Idle \/ (sys'.at \in {"unmask", "close"} /\ sys'.hook = h)
        /\ sys'.exits = NONE
    BY <1>2, BitSys DEF SysType
  <1>6. TypeOK' BY <1>0, <1>1, <1>4, <1>5 DEF TypeOK, hvars
  <1>7. ListsSound' BY <1>0, <1>1, <1>5, ListsAlone DEF ListsSound
  <1>8. SysSound' BY <1>1, <1>2, <1>5 DEF SysSound, Idle, hvars
  <1> QED BY <1>1, <1>2, <1>6, <1>7, <1>8 DEF HooksInv

(* Steps of the system task that leave the lists alone. *)
LEMMA SystemSteps ==
    ASSUME HooksInv,
           \/ Unmask \/ Close \/ RmActive \/ RmMask \/ ClearHooks
           \/ \E d \in Driver : Exit(d) \/ \E h \in Hook : RmPolicy(d, h)
    PROVE  HooksInv'
  <1>0. TypeOK /\ SysSound /\ ListsSound BY DEF HooksInv
  <1>1. UNCHANGED <<hvars, irq_handlers, request, panicked>>
    BY DEF Unmask, Close, RmActive, RmMask, ClearHooks, Exit, RmPolicy
  <1>2. CASE Unmask \/ Close
    <2>1. /\ sys.at \in {"unmask", "close"} /\ sys' = Idle
          /\ UNCHANGED <<irq_actids, s_int_pending, todo, alive>>
      BY <1>2 DEF Unmask, Close
    <2>2. irq[sys.hook] \in Irq /\ sys.exits = NONE
      BY <1>0, <2>1, SysHook, InUse DEF SysSound
    <2>3. masked' \subseteq Irq
      BY <1>0, <1>2, <2>2 DEF Unmask, Close, TypeOK
    <2>4. TypeOK' BY <1>0, <1>1, <2>1, <2>3 DEF TypeOK, hvars, Idle, Points
    <2>5. ListsSound' BY <1>0, <1>1, <2>1, <2>2, ListsAlone DEF ListsSound, Idle
    <2> QED BY <2>1, <2>4, <2>5 DEF HooksInv, SysSound, Idle
  <1>3. CASE RmActive
    <2>1. sys.at = "rm" /\ sys' = [sys EXCEPT !.at = "mask"] /\ UNCHANGED <<s_int_pending, todo, alive, masked>>
      BY <1>3 DEF RmActive
    <2>2. irq[sys.hook] \in Irq /\ id[sys.hook] \in 1 .. Cardinality(Hook)
      BY <1>0, <2>1, SysHook, InUse
    <2>3. sys'.at = "mask" /\ sys'.hook = sys.hook /\ sys'.exits = sys.exits
      BY <1>0, <2>1 DEF TypeOK
    <2>4. irq_actids' \in [Irq -> SUBSET (1 .. Cardinality(Hook))]
      BY <1>0, <1>3, <2>2 DEF RmActive, TypeOK
    <2>5. TypeOK' BY <1>0, <1>1, <2>1, <2>4 DEF TypeOK, hvars, Points
    <2>6. ListsSound' BY <1>0, <1>1, <2>1, <2>3, ListsAlone DEF ListsSound
    <2> QED BY <1>0, <1>1, <2>1, <2>3, <2>5, <2>6 DEF HooksInv, SysSound, hvars
  <1>4. CASE RmMask
    <2>1. sys.at = "mask" /\ sys' = [sys EXCEPT !.at = "unlink"] /\ UNCHANGED <<s_int_pending, todo, alive, irq_actids>>
      BY <1>4 DEF RmMask
    <2>2. irq[sys.hook] \in Irq
      BY <1>0, <2>1, SysHook, InUse
    <2>3. sys'.at = "unlink" /\ sys'.hook = sys.hook /\ sys'.exits = sys.exits
      BY <1>0, <2>1 DEF TypeOK
    <2>4. masked' \subseteq Irq
      BY <1>0, <1>4, <2>2 DEF RmMask, TypeOK
    <2>5. TypeOK' BY <1>0, <1>1, <2>1, <2>4 DEF TypeOK, hvars, Points
    <2>6. ListsSound' BY <1>0, <1>1, <2>1, <2>3, ListsAlone DEF ListsSound
    <2> QED BY <1>0, <1>1, <2>1, <2>3, <2>5, <2>6 DEF HooksInv, SysSound, hvars
  <1>5. CASE ClearHooks
    <2> DEFINE owned == {h \in Hook : proc_nr_e[h] = sys.exits}
    <2>1. /\ sys.at = "clear" /\ UNCHANGED <<s_int_pending, todo, alive, irq_actids, masked>>
          /\ sys' = IF owned = {} THEN Idle ELSE [sys EXCEPT !.at = "rm", !.hook = MinOf(owned)]
      BY <1>5 DEF ClearHooks
    <2>2. sys.exits # NONE BY <1>0, <2>1 DEF SysSound
    <2>3. CASE owned = {}
      <3>1. sys' = Idle BY <2>1, <2>3
      <3>2. \A h \in Hook : proc_nr_e[h] # NONE => proc_nr_e[h] \in alive'
        BY <1>0, <2>1, <2>3 DEF ListsSound
      <3>3. ListsSound' BY <1>1, <3>2, ListsAlone
      <3>a. sys' \in SysType BY <3>1, IdleIs
      <3> HIDE DEF owned
      <3>4. TypeOK' BY <1>0, <1>1, <2>1, <3>a DEF TypeOK, hvars, SysType
      <3> QED BY <3>1, <3>3, <3>4 DEF HooksInv, SysSound, Idle
    <2>4. CASE owned # {}
      <3>1. MinOf(owned) \in Hook /\ proc_nr_e[MinOf(owned)] = sys.exits
        <4>1. owned \subseteq Nat BY IrqAssumption
        <4>2. MinOf(owned) \in owned BY <2>4, <4>1, MinIn
        <4> QED BY <4>2
      <3> HIDE DEF owned
      <3>2. /\ sys'.at = "rm" /\ sys'.hook = MinOf(owned) /\ sys'.exits = sys.exits
            /\ sys' \in [at : Points, hook : Hook \cup {0}, exits : Driver \cup {NONE}, open : BOOLEAN]
        BY <1>0, <2>1, <2>4, <3>1 DEF TypeOK, Points
      <3>3. ListsSound' BY <1>0, <1>1, <2>1, <3>2, ListsAlone DEF ListsSound
      <3>4. TypeOK' BY <1>0, <1>1, <2>1, <3>2 DEF TypeOK, hvars
      <3> QED BY <1>1, <2>2, <3>1, <3>2, <3>3, <3>4 DEF HooksInv, SysSound, hvars
    <2> QED BY <2>3, <2>4
  <1>6. ASSUME NEW d \in Driver, Exit(d) PROVE HooksInv'
    <2>1. /\ sys.at = "idle" /\ UNCHANGED <<irq_actids, masked>> /\ alive' = alive \ {d}
          /\ sys' = [Idle EXCEPT !.at = "clear", !.exits = d]
      BY <1>6 DEF Exit, Calls
    <2>2. /\ sys'.at = "clear" /\ sys'.exits = d /\ d # NONE
          /\ sys' \in [at : Points, hook : Hook \cup {0}, exits : Driver \cup {NONE}, open : BOOLEAN]
      BY <2>1, IrqAssumption DEF Idle, Points
    <2>3. sys.exits = NONE BY <1>0, <2>1 DEF SysSound, Idle
    <2>4. \A h \in Hook : proc_nr_e[h] # NONE => proc_nr_e[h] \in alive' \cup {sys'.exits}
      BY <1>0, <2>1, <2>2, <2>3 DEF ListsSound
    <2>5. ListsSound' BY <1>1, <2>4, ListsAlone
    <2>6. s_int_pending' \subseteq Hook /\ todo' \subseteq Hook
      BY <1>0, <1>6 DEF Exit, TypeOK
    <2>7. TypeOK' BY <1>0, <1>1, <2>1, <2>2, <2>6 DEF TypeOK, hvars
    <2> QED BY <2>2, <2>5, <2>7 DEF HooksInv, SysSound
  <1>7. ASSUME NEW d \in Driver, NEW h \in Hook, RmPolicy(d, h) PROVE HooksInv'
    <2>1. /\ sys.at = "idle" /\ d \in Removers /\ proc_nr_e[h] = d
          /\ UNCHANGED <<irq_actids, masked, s_int_pending, todo, alive>>
          /\ sys' = [Idle EXCEPT !.at = "rm", !.hook = h]
      BY <1>7 DEF RmPolicy, Calls
    <2>2. /\ sys'.at = "rm" /\ sys'.exits = NONE /\ sys'.hook = h /\ d # NONE
          /\ sys' \in [at : Points, hook : Hook \cup {0}, exits : Driver \cup {NONE}, open : BOOLEAN]
      BY <2>1, IrqAssumption DEF Idle, Points
    <2>3. sys.exits = NONE BY <1>0, <2>1 DEF SysSound, Idle
    <2>4. ListsSound' BY <1>0, <1>1, <2>1, <2>2, <2>3, ListsAlone DEF ListsSound
    <2>5. TypeOK' BY <1>0, <1>1, <2>1, <2>2 DEF TypeOK, hvars
    <2> QED BY <1>1, <2>1, <2>2, <2>4, <2>5 DEF HooksInv, SysSound, hvars
  <1> QED BY <1>2, <1>3, <1>4, <1>5, <1>6, <1>7
(* What IRQ_SETPOLICY does with hook h. *)
Takes(h, d, l, p) ==
    /\ proc_nr_e[h] = NONE /\ \A k \in Irq : h \notin Hooks(k)
    /\ proc_nr_e' = [proc_nr_e EXCEPT ![h] = d]
    /\ policy' = [policy EXCEPT ![h] = p]
    /\ irq' = [irq EXCEPT ![h] = l]
    /\ id' = [id EXCEPT ![h] = LowestId(l)]
    /\ LowestId(l) \in 1 .. Cardinality(Hook) /\ LowestId(l) \notin Ids(l)
    /\ irq_handlers' = [irq_handlers EXCEPT ![l] = Append(@, h)]
    /\ sys' = [Idle EXCEPT !.at = "enable", !.hook = h]

(* IRQ_SETPOLICY takes a hook that is in no list and gives it a new id. *)
LEMMA SetPolicyIs ==
    ASSUME HooksInv, NEW d \in Driver, NEW l \in Irq, NEW p \in Policies, SetPolicy(d, l, p)
    PROVE  \E h \in Hook : Takes(h, d, l, p)
  <1>0. TypeOK /\ ListsSound BY DEF HooksInv
  <1> DEFINE F == {g \in Hook : proc_nr_e[g] = NONE}
             h == MinOf(F)
  <1>1. h \in Hook /\ proc_nr_e[h] = NONE
    <2>1. F # {} BY DEF SetPolicy
    <2>2. F \subseteq Nat BY IrqAssumption
    <2>3. h \in F BY <2>1, <2>2, MinIn
    <2> QED BY <2>3
  <1>2. /\ proc_nr_e' = [proc_nr_e EXCEPT ![h] = d]
        /\ policy' = [policy EXCEPT ![h] = p]
        /\ irq' = [irq EXCEPT ![h] = l]
        /\ id' = [id EXCEPT ![h] = LowestId(l)]
        /\ irq_handlers' = [irq_handlers EXCEPT ![l] = Append(@, h)]
        /\ sys' = [Idle EXCEPT !.at = "enable", !.hook = h]
    BY DEF SetPolicy, put_irq_handler
  <1> HIDE DEF h
  <1>3. \A k \in Irq : h \notin Hooks(k)
    BY <1>0, <1>1 DEF ListsSound
  <1>4. IdsOnce(irq_handlers[l])
    BY <1>0 DEF ListsSound, IdsOnce
  <1>5. LowestId(l) \in 1 .. Cardinality(Hook) /\ LowestId(l) \notin Ids(l)
    <2>1. Len(irq_handlers[l]) + 1 <= Cardinality(Hook)
      BY <1>0, <1>1, <1>3, <1>4, ListRoom
    <2>2. Cardinality(Hook) \in Nat /\ Len(irq_handlers[l]) \in Nat
      BY <1>0, IrqAssumption, FS_CardinalityType DEF TypeOK
    <2> QED BY <1>0, <2>1, <2>2, LowestIdIs
  <1> QED BY <1>1, <1>2, <1>3, <1>5 DEF Takes

LEMMA SetPolicyInv ==
    ASSUME HooksInv, NEW d \in Driver, NEW l \in Irq, NEW p \in Policies, SetPolicy(d, l, p)
    PROVE  HooksInv'
  <1>0. TypeOK /\ ListsSound /\ SysSound BY DEF HooksInv
  <1>a. PICK h \in Hook : Takes(h, d, l, p)
    BY SetPolicyIs
  <1>1. /\ proc_nr_e[h] = NONE /\ \A k \in Irq : h \notin Hooks(k)
        /\ proc_nr_e' = [proc_nr_e EXCEPT ![h] = d]
        /\ policy' = [policy EXCEPT ![h] = p]
        /\ irq' = [irq EXCEPT ![h] = l]
        /\ id' = [id EXCEPT ![h] = LowestId(l)]
        /\ LowestId(l) \in 1 .. Cardinality(Hook) /\ LowestId(l) \notin Ids(l)
        /\ irq_handlers' = [irq_handlers EXCEPT ![l] = Append(@, h)]
        /\ sys' = [Idle EXCEPT !.at = "enable", !.hook = h]
    BY <1>a DEF Takes
  <1>2. /\ d \in alive /\ l \in LinesOf[d] /\ d # NONE /\ sys.exits = NONE
        /\ UNCHANGED <<irq_actids, masked, request, s_int_pending, todo, alive, panicked>>
    BY <1>0, IrqAssumption DEF SetPolicy, Calls, SysSound, Idle
  <1>3. /\ sys'.at = "enable" /\ sys'.hook = h /\ sys'.exits = NONE
        /\ sys' \in [at : Points, hook : Hook \cup {0}, exits : Driver \cup {NONE}, open : BOOLEAN]
    BY <1>1 DEF Idle, Points
  <1>4. /\ \A g \in Hook : g # h => proc_nr_e'[g] = proc_nr_e[g] /\ irq'[g] = irq[g] /\ id'[g] = id[g]
        /\ proc_nr_e'[h] = d /\ irq'[h] = l /\ id'[h] = LowestId(l)
        /\ \A k \in Irq : k # l => irq_handlers'[k] = irq_handlers[k]
        /\ irq_handlers'[l] = Append(irq_handlers[l], h)
    BY <1>0, <1>1 DEF TypeOK
  <1>5. TypeOK'
    <2>1. /\ proc_nr_e' \in [Hook -> Driver \cup {NONE}] /\ irq' \in [Hook -> Irq \cup {NONE}]
          /\ policy' \in [Hook -> BOOLEAN]
      BY <1>0, <1>1, IrqAssumption DEF TypeOK
    <2>2. id' \in [Hook -> 0 .. Cardinality(Hook)]
      BY <1>0, <1>1 DEF TypeOK
    <2>3. irq_handlers' \in [Irq -> Seq(Hook)]
      BY <1>0, <1>1 DEF TypeOK
    <2> QED BY <1>0, <1>2, <1>3, <2>1, <2>2, <2>3 DEF TypeOK
  <1>6. SysSound'
    BY <1>2, <1>3, <1>4 DEF SysSound
  <1>7. ListsSound'
    <2>1. irq_handlers[l] \in Seq(Hook) BY <1>0 DEF TypeOK
    <2>2. \A k \in Irq : k # l => Hooks(k)' = Hooks(k)
      BY <1>4 DEF Hooks
    <2>3. \A g : g \in Hooks(l)' <=> (g \in Hooks(l) \/ g = h)
      <3>1. \A g : Member(g, irq_handlers'[l]) <=> (Member(g, irq_handlers[l]) \/ g = h)
        BY <1>4, <2>1, AppendQueue
      <3> QED BY <3>1 DEF Hooks, Range, Member
    <2>4. \A k \in Irq : Hooks(k) \subseteq Hook
      BY <1>0, HooksAreHooks
    <2>5. \A k \in Irq : \A g \in Hooks(k)' : proc_nr_e'[g] # NONE /\ irq'[g] = k
      BY <1>0, <1>1, <1>2, <1>4, <2>2, <2>3, <2>4 DEF ListsSound
    <2>6. \A g \in Hook : proc_nr_e'[g] # NONE =>
           /\ proc_nr_e'[g] \in alive' \cup {sys'.exits}
           /\ irq'[g] \in LinesOf[proc_nr_e'[g]] /\ id'[g] # 0
      BY <1>0, <1>1, <1>2, <1>3, <1>4 DEF ListsSound
    <2>7. ASSUME NEW k \in Irq, NEW i \in DOMAIN irq_handlers'[k], NEW j \in DOMAIN irq_handlers'[k],
                 id'[irq_handlers'[k][i]] = id'[irq_handlers'[k][j]]
          PROVE  i = j
      <3>1. CASE k # l
        <4>1. /\ irq_handlers[k][i] \in Hooks(k) /\ irq_handlers[k][j] \in Hooks(k)
              /\ irq_handlers'[k] = irq_handlers[k]
          BY <1>4, <2>7, <3>1 DEF Hooks, Range
        <4>2. id[irq_handlers[k][i]] = id[irq_handlers[k][j]]
          BY <1>1, <1>4, <2>4, <2>7, <4>1
        <4> QED BY <1>0, <2>7, <4>1, <4>2 DEF ListsSound
      <3>2. CASE k = l
        <4> DEFINE q == irq_handlers[l]
                   n == Len(q)
        <4>1. /\ n \in Nat /\ DOMAIN q = 1 .. n /\ DOMAIN irq_handlers'[l] = 1 .. n + 1
              /\ \A a \in 1 .. n : irq_handlers'[l][a] = q[a]
              /\ irq_handlers'[l][n + 1] = h
          BY <1>4, <2>1
        <4>2. \A a \in 1 .. n : q[a] \in Hooks(l) /\ q[a] # h /\ id'[q[a]] = id[q[a]]
                                /\ id[q[a]] \in Ids(l)
          <5>1. \A a \in 1 .. n : q[a] \in Hooks(l) BY <4>1 DEF Hooks, Range
          <5> QED BY <1>1, <1>4, <2>4, <5>1 DEF Ids
        <4>3. \A a, b \in 1 .. n : id[q[a]] = id[q[b]] => a = b
          BY <1>0, <4>1 DEF ListsSound
        <4> HIDE DEF q, n
        <4>4. i \in 1 .. n + 1 /\ j \in 1 .. n + 1 BY <2>7, <3>2, <4>1
        <4> QED BY <1>1, <1>4, <2>7, <3>2, <4>1, <4>2, <4>3, <4>4
      <3> QED BY <3>1, <3>2
    <2> QED BY <2>5, <2>6, <2>7 DEF ListsSound
  <1> QED BY <1>5, <1>6, <1>7 DEF HooksInv

(* rm_irq_handler takes the handler with that id off the list. *)
LEMMA RmUnlinkIs ==
    ASSUME HooksInv, RmUnlink
    PROVE  LET h == sys.hook
           IN  /\ h \in Hook /\ proc_nr_e[h] # NONE /\ irq[h] \in Irq
               /\ irq_handlers'[irq[h]] \in Seq(Hook) /\ IdsOnce(irq_handlers'[irq[h]])
               /\ \A g : g \in Range(irq_handlers'[irq[h]]) <=> (g \in Hooks(irq[h]) /\ id[g] # id[h])
               /\ \A k \in Irq : k # irq[h] => irq_handlers'[k] = irq_handlers[k]
               /\ irq_handlers' \in [Irq -> Seq(Hook)]
               /\ UNCHANGED <<irq, id, policy, alive>>
               /\ \/ sys.exits = NONE /\ sys' = Idle /\ UNCHANGED proc_nr_e
                  \/ /\ sys.exits # NONE /\ proc_nr_e[h] = sys.exits
                     /\ proc_nr_e' = [proc_nr_e EXCEPT ![h] = NONE]
                     /\ sys' = [sys EXCEPT !.at = "clear"]
  <1> DEFINE h == sys.hook
             l == irq[h]
             q == irq_handlers[l]
             t == RemoveFirstMatch(q, LAMBDA g : id[g] = id[h])
  <1>0. TypeOK /\ ListsSound /\ SysSound BY DEF HooksInv
  <1>1. h \in Hook /\ proc_nr_e[h] # NONE /\ l \in Irq
    BY SysHook, InUse DEF RmUnlink
  <1>2. q \in Seq(Hook) /\ IdsOnce(q)
    BY <1>0, <1>1 DEF TypeOK, ListsSound, IdsOnce
  <1>3. /\ t \in Seq(Hook) /\ IdsOnce(t)
        /\ \A g : Member(g, t) <=> (Member(g, q) /\ id[g] # id[h])
    <2> HIDE DEF q, h
    <2> QED BY <1>2, UnlinkIs
  <1>4. irq_handlers' = [irq_handlers EXCEPT ![l] = t]
    BY DEF RmUnlink
  <1> HIDE DEF t
  <1>5. irq_handlers'[l] = t /\ \A k \in Irq : k # l => irq_handlers'[k] = irq_handlers[k]
    BY <1>0, <1>1, <1>4 DEF TypeOK
  <1>6. irq_handlers' \in [Irq -> Seq(Hook)]
    BY <1>0, <1>1, <1>3, <1>4 DEF TypeOK
  <1>7. \A g : g \in Range(irq_handlers'[l]) <=> (g \in Hooks(l) /\ id[g] # id[h])
    BY <1>3, <1>5 DEF Hooks, Range, Member
  <1>8. UNCHANGED <<irq, id, policy, alive>>
    BY DEF RmUnlink
  <1>9. \/ sys.exits = NONE /\ sys' = Idle /\ UNCHANGED proc_nr_e
        \/ /\ sys.exits # NONE /\ proc_nr_e[h] = sys.exits
           /\ proc_nr_e' = [proc_nr_e EXCEPT ![h] = NONE]
           /\ sys' = [sys EXCEPT !.at = "clear"]
    BY <1>0 DEF RmUnlink, SysSound
  <1> QED BY <1>1, <1>3, <1>5, <1>6, <1>7, <1>8, <1>9

LEMMA RmUnlinkInv ==
    ASSUME HooksInv, RmUnlink
    PROVE  HooksInv'
  <1> DEFINE h == sys.hook
             l == irq[h]
  <1>0. TypeOK /\ ListsSound /\ SysSound BY DEF HooksInv
  <1>1. /\ h \in Hook /\ proc_nr_e[h] # NONE /\ l \in Irq
        /\ irq_handlers'[l] \in Seq(Hook) /\ IdsOnce(irq_handlers'[l])
        /\ \A g : g \in Range(irq_handlers'[l]) <=> (g \in Hooks(l) /\ id[g] # id[h])
        /\ \A k \in Irq : k # l => irq_handlers'[k] = irq_handlers[k]
        /\ irq_handlers' \in [Irq -> Seq(Hook)]
        /\ UNCHANGED <<irq, id, policy, alive>>
        /\ \/ sys.exits = NONE /\ sys' = Idle /\ UNCHANGED proc_nr_e
           \/ /\ sys.exits # NONE /\ proc_nr_e[h] = sys.exits
              /\ proc_nr_e' = [proc_nr_e EXCEPT ![h] = NONE]
              /\ sys' = [sys EXCEPT !.at = "clear"]
    BY RmUnlinkIs
  <1>2. UNCHANGED <<masked, request, s_int_pending, todo, panicked>>
    BY DEF RmUnlink
  <1>3. irq_actids' = [irq_actids EXCEPT ![l] = IF id[h] \in Ids(l) THEN @ \ {id[h]} ELSE @]
    BY DEF RmUnlink
  <1> HIDE DEF h, l
  <1>4. /\ sys'.exits = sys.exits /\ sys'.at \in {"idle", "clear"}
        /\ sys'.at = "idle" => sys' = Idle
        /\ sys'.at = "clear" => sys.exits # NONE
        /\ sys' \in [at : Points, hook : Hook \cup {0}, exits : Driver \cup {NONE}, open : BOOLEAN]
    <2>1. \/ sys' = Idle /\ sys.exits = NONE
          \/ sys' = [sys EXCEPT !.at = "clear"] /\ sys.exits # NONE
      BY DEF RmUnlink
    <2>2. CASE sys' = Idle /\ sys.exits = NONE
      BY <2>2 DEF Idle, Points
    <2>3. CASE sys' = [sys EXCEPT !.at = "clear"] /\ sys.exits # NONE
      BY <1>0, <2>3 DEF TypeOK, Points
    <2> QED BY <2>1, <2>2, <2>3
  <1>5. /\ proc_nr_e' \in [Hook -> Driver \cup {NONE}]
        /\ \A g \in Hook : g # h => proc_nr_e'[g] = proc_nr_e[g]
        /\ proc_nr_e'[h] \in {NONE, proc_nr_e[h]}
    BY <1>0, <1>1 DEF TypeOK
  <1>6. irq_actids' \in [Irq -> SUBSET (1 .. Cardinality(Hook))]
    BY <1>0, <1>1, <1>3 DEF TypeOK
  <1>7. TypeOK'
    BY <1>0, <1>1, <1>2, <1>4, <1>5, <1>6 DEF TypeOK
  <1>8. SysSound'
    BY <1>4 DEF SysSound
  <1>9. ListsSound'
    <2>1. \A k \in Irq : k # l => Hooks(k)' = Hooks(k)
      BY <1>1 DEF Hooks
    <2>2. \A k \in Irq : Hooks(k)' \subseteq Hooks(k) /\ h \notin Hooks(k)'
      <3>1. \A k \in Irq : h \in Hooks(k) => k = l
        BY <1>0, <1>1 DEF ListsSound, l
      <3>2. \A k \in Irq : k = l => (\A g : g \in Hooks(k)' <=> (g \in Hooks(l) /\ id[g] # id[h]))
        BY <1>1 DEF Hooks
      <3> QED BY <1>1, <2>1, <3>1, <3>2
    <2>3. \A k \in Irq : Hooks(k) \subseteq Hook
      BY <1>0, HooksAreHooks
    <2>4. \A k \in Irq : \A g \in Hooks(k)' : proc_nr_e'[g] # NONE /\ irq'[g] = k
      BY <1>0, <1>1, <1>5, <2>2, <2>3 DEF ListsSound
    <2>5. \A g \in Hook : proc_nr_e'[g] # NONE =>
           /\ proc_nr_e'[g] \in alive' \cup {sys'.exits}
           /\ irq'[g] \in LinesOf[proc_nr_e'[g]] /\ id'[g] # 0
      BY <1>0, <1>1, <1>4, <1>5 DEF ListsSound
    <2>6. ASSUME NEW k \in Irq, NEW i \in DOMAIN irq_handlers'[k], NEW j \in DOMAIN irq_handlers'[k],
                 id'[irq_handlers'[k][i]] = id'[irq_handlers'[k][j]]
          PROVE  i = j
      BY <1>0, <1>1, <2>6 DEF ListsSound, IdsOnce
    <2> QED BY <2>4, <2>5, <2>6 DEF ListsSound
  <1> QED BY <1>7, <1>8, <1>9 DEF HooksInv

LEMMA InitHooks == Init => HooksInv
  <1> SUFFICES ASSUME Init PROVE HooksInv
    OBVIOUS
  <1>1. TypeOK
    <2>1. 0 \in 0 .. Cardinality(Hook) BY IrqAssumption, FS_CardinalityType
    <2>2. /\ <<>> \in Seq(Hook)
          /\ Idle \in [at : Points, hook : Hook \cup {0}, exits : Driver \cup {NONE}, open : BOOLEAN]
      BY DEF Idle, Points
    <2> QED BY <2>1, <2>2 DEF Init, TypeOK
  <1>2. ListsSound
    BY DEF Init, ListsSound, Hooks, Range
  <1>3. SysSound
    BY DEF Init, SysSound, Idle
  <1> QED BY <1>1, <1>2, <1>3 DEF HooksInv

LEMMA NextHooks == ASSUME HooksInv, [Next]_vars PROVE HooksInv'
  <1>1. CASE UNCHANGED vars
    <2>1. TypeOK' BY <1>1 DEF HooksInv, TypeOK, vars, hvars
    <2>2. ListsSound' BY <1>1, ListsAlone DEF HooksInv, ListsSound, vars
    <2>3. SysSound' BY <1>1 DEF HooksInv, SysSound, vars, hvars
    <2> QED BY <2>1, <2>2, <2>3 DEF HooksInv
  <1>2. CASE Next
    <2>1. CASE SystemTask
      BY <2>1, BitSteps, SystemSteps, RmUnlinkInv, Zenon DEF SystemTask
    <2>2. CASE \E l \in Irq : irq_handle(l) \/ Raise(l)
      BY <2>2, LinesSteps
    <2>3. ASSUME NEW d \in Driver,
              \/ Exit(d) \/ Start(d) \/ Receive(d)
              \/ \E h \in Hook : IrqEnable(d, h) \/ IrqDisable(d, h) \/ RmPolicy(d, h)
          PROVE  HooksInv'
      BY <2>3, LinesSteps, BitSteps, SystemSteps, Zenon
    <2>4. ASSUME NEW d \in Driver, NEW l \in Irq, NEW p \in Policies, SetPolicy(d, l, p)
          PROVE  HooksInv'
      BY <2>4, SetPolicyInv
    <2> QED BY <1>2, <2>1, <2>2, <2>3, <2>4 DEF Next
  <1> QED BY <1>1, <1>2

(* The table of hooks and the lists of handlers stay well formed: whatever  *)
(* do_irqctl, clear_proc and interrupts do in between, no two handlers of a *)
(* line have the same id, every handler is of a driver that lives or is     *)
(* being cleared, and the ids, which are bits of irq_actids, never exceed   *)
(* the number of hooks ("Too many handlers" cannot happen).                 *)
THEOREM ListsStaySound == Spec => []HooksInv
  BY InitHooks, NextHooks, PTL DEF Spec

-----------------------------------------------------------------------------
(* Closed lines are opened only when none of their handlers is active. *)

LEMMA InitQuiet == Init => QuietInv
  BY DEF Init, QuietInv, Idle

LEMMA NextQuiet == ASSUME HooksInv, QuietInv, [Next]_vars PROVE QuietInv'
  <1>0. TypeOK /\ SysSound BY DEF HooksInv
  <1>1. ASSUME UNCHANGED <<masked, irq_actids, irq, sys>> PROVE QuietInv'
    BY <1>1 DEF QuietInv
  <1>2. ASSUME sys'.at # "unmask" PROVE QuietInv'
    BY <1>2 DEF QuietInv
  <1>3. ASSUME NEW h \in Hook, proc_nr_e[h] # NONE, enable_irq(h) \/ disable_irq(h),
               UNCHANGED <<masked, irq>> PROVE QuietInv'
    <2>1. \/ sys'.at # "unmask"
          \/ /\ sys'.hook = h /\ irq_actids'[irq[h]] = {}
             /\ sys'.open = (irq[h] \notin masked)
      BY <1>3, BitSys, IdleIs
    <2> QED BY <1>3, <2>1 DEF QuietInv
  <1>4. ASSUME NEW l \in Irq, irq_handle(l) PROVE QuietInv'
    <2>1. \A k \in Irq : k # l => irq_actids'[k] = irq_actids[k] /\ (k \in masked' <=> k \in masked)
      BY <1>0, <1>4 DEF irq_handle, TypeOK
    <2>2. UNCHANGED <<irq, sys>> /\ l \notin masked BY <1>4 DEF irq_handle, hvars
    <2>3. sys.at = "unmask" => irq[sys.hook] \in Irq BY SysHook, InUse
    <2> QED BY <2>1, <2>2, <2>3 DEF QuietInv
  <1>5. CASE SetPolicyEnable \/ \E d \in Driver, h \in Hook : IrqEnable(d, h) \/ IrqDisable(d, h)
    BY <1>3, <1>5, BitSteps DEF hvars
  <1>6. CASE Unmask \/ Close \/ RmActive \/ RmMask \/ RmUnlink \/ ClearHooks
    <2>1. CASE Unmask \/ Close
      BY <1>2, <2>1 DEF Unmask, Close, Idle
    <2>2. CASE RmActive \/ RmMask \/ RmUnlink \/ ClearHooks
      <3>1. \/ sys' = Idle \/ sys' = [sys EXCEPT !.at = "mask"]
            \/ sys' = [sys EXCEPT !.at = "unlink"] \/ sys' = [sys EXCEPT !.at = "clear"]
            \/ \E h : sys' = [sys EXCEPT !.at = "rm", !.hook = h]
        BY <2>2, Zenon DEF RmActive, RmMask, RmUnlink, ClearHooks
      <3>2. sys \in SysType BY <1>0 DEF TypeOK, SysType
      <3>3. sys'.at # "unmask" BY <3>1, <3>2, IdleIs DEF SysType
      <3> QED BY <1>2, <3>3
    <2> QED BY <1>6, <2>1, <2>2
  <1>7. CASE UNCHANGED vars \/ (\E l \in Irq : Raise(l)) \/ \E d \in Driver : Start(d) \/ Receive(d)
    <2>1. UNCHANGED <<masked, irq_actids, irq, sys>>
      BY <1>7 DEF vars, hvars, Raise, Start, Receive
    <2> QED BY <1>1, <2>1
  <1>8. CASE SystemTask BY <1>5, <1>6, <1>8 DEF SystemTask
  <1>9. ASSUME NEW d \in Driver,
             \/ Exit(d) \/ Start(d) \/ Receive(d)
             \/ \E l \in Irq, p \in Policies : SetPolicy(d, l, p)
             \/ \E h \in Hook : IrqEnable(d, h) \/ IrqDisable(d, h) \/ RmPolicy(d, h)
        PROVE QuietInv'
    <2>1. CASE Start(d) \/ Receive(d) BY <1>7, <2>1
    <2>2. CASE Exit(d) \/ (\E h \in Hook : RmPolicy(d, h))
               \/ \E l \in Irq, p \in Policies : SetPolicy(d, l, p)
      <3>1. sys'.at # "unmask"
        BY <2>2 DEF Exit, RmPolicy, SetPolicy, Idle
      <3> QED BY <1>2, <3>1
    <2>3. CASE \E h \in Hook : IrqEnable(d, h) \/ IrqDisable(d, h) BY <1>5, <2>3
    <2> QED BY <1>9, <2>1, <2>2, <2>3
  <1> QED BY <1>4, <1>7, <1>8, <1>9 DEF Next

(* A closed line is opened only when none of its handlers is active: by     *)
(* irq_handle, or by enable_irq for the last that was active, although an   *)
(* interrupt may come between its test and its hw_intr_unmask.  The         *)
(* exception is in the formula: an enable_irq that found the line open.     *)
THEOREM LinesQuiet == Spec => OpenedQuiet
  <1> DEFINE Quiet == \A l \in masked \ masked' :
                        \/ irq_actids'[l] = {}
                        \/ sys.at = "unmask" /\ sys.open /\ irq[sys.hook] = l
  <1>1. ASSUME HooksInv, QuietInv, [Next]_vars PROVE Quiet
    <2>0. TypeOK BY <1>1 DEF HooksInv
    <2>1. ASSUME masked \subseteq masked' PROVE Quiet
      BY <2>1
    <2>2. CASE Unmask
      <3>1. sys.at = "unmask" /\ masked' = masked \ {irq[sys.hook]} /\ irq_actids' = irq_actids
        BY <2>2 DEF Unmask
      <3> QED BY <1>1, <3>1 DEF QuietInv
    <2>3. ASSUME NEW l \in Irq, irq_handle(l) PROVE Quiet
      BY <2>1, <2>3 DEF irq_handle
    <2>4. CASE Close \/ RmMask
      BY <2>1, <2>4 DEF Close, RmMask
    <2>5. CASE SetPolicyEnable \/ \E d \in Driver, h \in Hook : IrqEnable(d, h) \/ IrqDisable(d, h)
      BY <1>1, <2>1, <2>5, BitSteps
    <2>6. CASE UNCHANGED vars \/ RmActive \/ RmUnlink \/ ClearHooks \/ (\E l \in Irq : Raise(l))
      BY <2>1, <2>6 DEF vars, RmActive, RmUnlink, ClearHooks, Raise
    <2> HIDE DEF Quiet
    <2>8. CASE SystemTask BY <2>2, <2>4, <2>5, <2>6, <2>8 DEF SystemTask
    <2>9. ASSUME NEW d \in Driver,
               \/ Exit(d) \/ Start(d) \/ Receive(d)
               \/ \E l \in Irq, p \in Policies : SetPolicy(d, l, p)
               \/ \E h \in Hook : IrqEnable(d, h) \/ IrqDisable(d, h) \/ RmPolicy(d, h)
          PROVE Quiet
      <3>1. CASE \E h \in Hook : IrqEnable(d, h) \/ IrqDisable(d, h) BY <2>5, <3>1
      <3>2. CASE Exit(d) \/ Start(d) \/ Receive(d) \/ (\E h \in Hook : RmPolicy(d, h))
                 \/ \E l \in Irq, p \in Policies : SetPolicy(d, l, p)
        <4>1. masked' = masked
          BY <3>2 DEF Exit, Start, Receive, RmPolicy, SetPolicy
        <4> QED BY <2>1, <4>1
      <3> QED BY <2>9, <3>1, <3>2
    <2> QED BY <1>1, <2>3, <2>6, <2>8, <2>9 DEF Next
  <1>2. HooksInv /\ QuietInv /\ [Next]_vars => [Quiet]_vars BY <1>1
  <1> QED BY <1>2, InitQuiet, NextQuiet, ListsStaySound, PTL DEF Spec, OpenedQuiet
-----------------------------------------------------------------------------
(* Hooks in use are linked, and bits are those of handlers. *)

(* A hook on a line where nobody gives hooks up is in its list. *)
LEMMA LinkedHook ==
    ASSUME HooksInv, LinkedInv, NEW h \in Hook, proc_nr_e[h] # NONE, NoRemoverOn(irq[h])
    PROVE  irq[h] \in Irq /\ h \in Hooks(irq[h]) /\ id[h] \in Ids(irq[h])
  <1>1. irq[h] \in Irq /\ irq[h] \in LinesOf[proc_nr_e[h]]
    BY InUse DEF HooksInv, ListsSound
  <1>2. h \in Hooks(irq[h])
    BY DEF LinkedInv
  <1> QED BY <1>1, <1>2 DEF Ids

LEMMA InitLinked == Init => LinkedInv
  BY DEF Init, LinkedInv

(* Steps that leave the table of hooks and the lists alone, and add only    *)
(* bits of hooks in use or of handlers.                                     *)
LEMMA BitsSteps ==
    ASSUME HooksInv, LinkedInv, UNCHANGED <<hvars, irq_handlers>>,
           \A l \in Irq : NoRemoverOn(l) => irq_actids'[l] \subseteq Ids(l)
    PROVE  LinkedInv'
  <1>1. \A l \in Irq : Hooks(l)' = Hooks(l) /\ Ids(l)' = Ids(l)
    BY DEF Hooks, Ids, hvars
  <1>2. \A l : NoRemoverOn(l)' = NoRemoverOn(l)
    BY DEF NoRemoverOn
  <1>3. \A h \in Hook : proc_nr_e[h] # NONE => irq[h] \in Irq
    BY InUse
  <1>4. \A h \in Hook : proc_nr_e'[h] # NONE /\ NoRemoverOn(irq'[h]) =>
           h \in Range(irq_handlers'[irq'[h]])
    BY DEF LinkedInv, hvars, Hooks
  <1>5. \A l \in Irq : NoRemoverOn(l)' => irq_actids'[l] \subseteq Ids(l)'
    BY <1>1, <1>2
  <1> QED BY <1>4, <1>5 DEF LinkedInv, Hooks, NoRemoverOn

LEMMA SetPolicyLinked ==
    ASSUME HooksInv, LinkedInv, NEW d \in Driver, NEW l \in Irq, NEW p \in Policies,
           SetPolicy(d, l, p)
    PROVE  LinkedInv'
  <1>0. TypeOK /\ ListsSound BY DEF HooksInv
  <1>a. PICK h \in Hook : Takes(h, d, l, p) BY SetPolicyIs
  <1>1. /\ \A k \in Irq : h \notin Hooks(k)
        /\ \A g \in Hook : g # h => proc_nr_e'[g] = proc_nr_e[g] /\ irq'[g] = irq[g] /\ id'[g] = id[g]
        /\ proc_nr_e'[h] = d /\ irq'[h] = l
        /\ \A k \in Irq : k # l => irq_handlers'[k] = irq_handlers[k]
        /\ irq_handlers'[l] = Append(irq_handlers[l], h)
    BY <1>0, <1>a DEF Takes, TypeOK
  <1>2. irq_actids' = irq_actids BY DEF SetPolicy
  <1>3. \A g : g \in Range(irq_handlers'[l]) <=> (g \in Hooks(l) \/ g = h)
    <2>1. irq_handlers[l] \in Seq(Hook) BY <1>0 DEF TypeOK
    <2>2. \A g : Member(g, irq_handlers'[l]) <=> (Member(g, irq_handlers[l]) \/ g = h)
      BY <1>1, <2>1, AppendQueue
    <2> QED BY <2>2 DEF Hooks, Range, Member
  <1>4. \A k \in Irq : Hooks(k) \subseteq Range(irq_handlers'[k])
    BY <1>1, <1>3 DEF Hooks
  <1>5. \A k \in Irq : Hooks(k) \subseteq Hook BY <1>0, HooksAreHooks
  <1>6. \A g \in Hook : proc_nr_e'[g] # NONE /\ NoRemoverOn(irq'[g]) =>
           g \in Range(irq_handlers'[irq'[g]])
    <2>1. \A g \in Hook : proc_nr_e[g] # NONE => irq[g] \in Irq BY InUse
    <2> QED BY <1>1, <1>3, <1>4, <2>1 DEF LinkedInv
  <1>7. \A k \in Irq : Ids(k) \subseteq Ids(k)'
    BY <1>1, <1>4, <1>5 DEF Ids, Hooks
  <1>8. \A k \in Irq : NoRemoverOn(k)' => irq_actids'[k] \subseteq Ids(k)'
    BY <1>2, <1>7 DEF LinkedInv, NoRemoverOn
  <1> QED BY <1>6, <1>8 DEF LinkedInv, Hooks, NoRemoverOn

(* The only handler that leaves a list is the hook in hand, or has got the  *)
(* id of it.                                                                *)
LEMMA RmUnlinkSame ==
    ASSUME HooksInv, LinkedInv, RmUnlink, NEW l \in Irq, NEW g \in Hooks(l),
           g \notin Range(irq_handlers'[l])
    PROVE  g = sys.hook \/ (Unlinked(sys.hook) /\ ~NoRemoverOn(l))
  <1> DEFINE h == sys.hook
  <1>0. TypeOK /\ ListsSound BY DEF HooksInv
  <1>1. /\ h \in Hook /\ proc_nr_e[h] # NONE /\ irq[h] \in Irq
        /\ \A k : k \in Range(irq_handlers'[irq[h]]) <=> (k \in Hooks(irq[h]) /\ id[k] # id[h])
        /\ \A k \in Irq : k # irq[h] => irq_handlers'[k] = irq_handlers[k]
    BY RmUnlinkIs
  <1> HIDE DEF h
  <1>2. l = irq[h] /\ id[g] = id[h]
    BY <1>1 DEF Hooks
  <1>3. CASE h \in Hooks(l)
    <2>1. Member(g, irq_handlers[l]) /\ Member(h, irq_handlers[l])
      BY <1>3, HooksMember
    <2>2. irq_handlers[l] \in Seq(Hook) /\ IdsOnce(irq_handlers[l])
      BY <1>0 DEF TypeOK, ListsSound, IdsOnce
    <2>3. g = h BY <1>2, <2>1, <2>2, IdsOnceIs
    <2> QED BY <2>3 DEF h
  <1>4. CASE h \notin Hooks(l)
    BY <1>1, <1>2, <1>4 DEF LinkedInv, Unlinked, h
  <1> QED BY <1>3, <1>4

(* A removal is for a driver that gives hooks up, or for one that ends. *)
LEMMA RmUnlinkLinked ==
    ASSUME HooksInv, LinkedInv, RmUnlink
    PROVE  LinkedInv'
  <1> DEFINE h == sys.hook
             l == irq[h]
  <1>0. TypeOK /\ ListsSound /\ SysSound BY DEF HooksInv
  <1>1. /\ h \in Hook /\ proc_nr_e[h] # NONE /\ l \in Irq
        /\ \A g : g \in Range(irq_handlers'[l]) <=> (g \in Hooks(l) /\ id[g] # id[h])
        /\ \A k \in Irq : k # l => irq_handlers'[k] = irq_handlers[k]
        /\ UNCHANGED <<irq, id>>
        /\ \/ sys.exits = NONE /\ UNCHANGED proc_nr_e
           \/ sys.exits # NONE /\ proc_nr_e' = [proc_nr_e EXCEPT ![h] = NONE]
    BY RmUnlinkIs
  <1>2. sys.exits = NONE => ~NoRemoverOn(l)
    <2>1. sys.exits = NONE => proc_nr_e[h] \in Removers
      BY <1>0 DEF RmUnlink, SysSound
    <2> QED BY <1>0, <1>1, <2>1 DEF ListsSound, NoRemoverOn
  <1>3. irq_actids' = [irq_actids EXCEPT ![l] = IF id[h] \in Ids(l) THEN @ \ {id[h]} ELSE @]
    BY DEF RmUnlink
  <1>4. \A k \in Irq : \A g \in Hooks(k) : NoRemoverOn(k) => g \in Range(irq_handlers'[k]) \/ g = h
    BY RmUnlinkSame
  <1> HIDE DEF h, l
  <1>5. \A g \in Hook : g # h => proc_nr_e'[g] = proc_nr_e[g]
    BY <1>0, <1>1 DEF TypeOK
  <1>6. proc_nr_e'[h] = NONE \/ ~NoRemoverOn(l)
    BY <1>0, <1>1, <1>2 DEF TypeOK
  <1>7. ASSUME NEW g \in Hook, proc_nr_e'[g] # NONE, NoRemoverOn(irq'[g])
        PROVE  g \in Range(irq_handlers'[irq'[g]])
    <2>1. CASE g = h BY <1>1, <1>6, <1>7, <2>1 DEF l
    <2>2. CASE g # h
      <3>1. proc_nr_e'[g] = proc_nr_e[g] /\ irq'[g] = irq[g] BY <1>1, <1>5, <2>2
      <3>2. irq[g] \in Irq BY <1>7, <3>1, InUse
      <3>3. g \in Hooks(irq[g])
        BY <1>7, <3>1 DEF LinkedInv
      <3> QED BY <1>4, <1>7, <2>2, <3>1, <3>2, <3>3
    <2> QED BY <2>1, <2>2
  <1>8. ASSUME NEW k \in Irq, NoRemoverOn(k) PROVE irq_actids'[k] \subseteq Ids(k)'
    <2>1. irq_actids[k] \subseteq Ids(k) BY <1>8 DEF LinkedInv
    <2>2. CASE k # l
      <3>1. irq_actids'[k] = irq_actids[k] BY <1>0, <1>3, <2>2 DEF TypeOK
      <3>2. Ids(k)' = Ids(k) BY <1>1, <2>2 DEF Ids, Hooks
      <3> QED BY <2>1, <3>1, <3>2
    <2>3. CASE k = l
      <3>1. irq_actids'[l] = IF id[h] \in Ids(l) THEN irq_actids[l] \ {id[h]} ELSE irq_actids[l]
        BY <1>0, <1>1, <1>3 DEF TypeOK
      <3>2. irq_actids'[l] \subseteq Ids(l) \ {id[h]}
        BY <2>1, <2>3, <3>1
      <3>3. \A i \in Ids(l) : i # id[h] => \E g \in Range(irq_handlers'[l]) : i = id[g]
        BY <1>1 DEF Ids
      <3>4. Ids(k)' = {id'[g] : g \in Range(irq_handlers'[k])}
        BY DEF Ids, Hooks
      <3> QED BY <1>1, <2>3, <3>2, <3>3, <3>4
    <2> QED BY <2>2, <2>3
  <1>9. \A k \in Irq : NoRemoverOn(k)' => irq_actids'[k] \subseteq Ids(k)'
    BY <1>8 DEF NoRemoverOn
  <1> QED BY <1>7, <1>9 DEF LinkedInv, Hooks, NoRemoverOn

LEMMA NextLinked ==
    ASSUME HooksInv, LinkedInv, [Next]_vars
    PROVE  LinkedInv'
  <1>0. TypeOK /\ SysSound /\ ListsSound BY DEF HooksInv
  <1>a. \A l \in Irq : NoRemoverOn(l) => irq_actids[l] \subseteq Ids(l) BY DEF LinkedInv
  <1>1. ASSUME UNCHANGED <<hvars, irq_handlers, irq_actids>> PROVE LinkedInv'
    BY <1>1, <1>a, BitsSteps
  <1>2. ASSUME NEW h \in Hook, irq[h] \in Irq, enable_irq(h), UNCHANGED <<hvars, irq_handlers>>
        PROVE  LinkedInv'
    <2>1. \A k \in Irq : irq_actids'[k] \subseteq irq_actids[k]
      BY <1>0, <1>2 DEF enable_irq, TypeOK
    <2> QED BY <1>2, <1>a, <2>1, BitsSteps
  <1>3. ASSUME NEW h \in Hook, proc_nr_e[h] # NONE, UNCHANGED <<hvars, irq_handlers>>,
               irq_actids' = [irq_actids EXCEPT ![irq[h]] = @ \cup {id[h]}]
        PROVE  LinkedInv'
    <2>1. irq[h] \in Irq BY <1>3, InUse
    <2>2. NoRemoverOn(irq[h]) => id[h] \in Ids(irq[h]) BY <1>3, LinkedHook
    <2>3. \A k \in Irq : irq_actids'[k] =
              IF k = irq[h] THEN irq_actids[k] \cup {id[h]} ELSE irq_actids[k]
      BY <1>0, <1>3 DEF TypeOK
    <2>4. \A k \in Irq : NoRemoverOn(k) => irq_actids'[k] \subseteq Ids(k)
      BY <1>a, <2>1, <2>2, <2>3
    <2> QED BY <1>3, <2>4, BitsSteps
  <1>4. ASSUME NEW l \in Irq, irq_handle(l) PROVE LinkedInv'
    <2>1. UNCHANGED <<hvars, irq_handlers>> BY <1>4 DEF irq_handle
    <2>2. \A k \in Irq : irq_actids'[k] \subseteq irq_actids[k] \cup Ids(k)
      BY <1>0, <1>4 DEF irq_handle, TypeOK
    <2> QED BY <1>a, <2>1, <2>2, BitsSteps
  <1>5. CASE \/ UNCHANGED vars \/ (\E l \in Irq : Raise(l))
             \/ Unmask \/ Close \/ RmMask \/ ClearHooks
             \/ \E d \in Driver : Start(d) \/ Receive(d) \/ Exit(d) \/ \E h \in Hook : RmPolicy(d, h)
    <2>1. UNCHANGED <<hvars, irq_handlers, irq_actids>>
      BY <1>5 DEF vars, Raise, Unmask, Close, RmMask, ClearHooks, Start, Receive, Exit, RmPolicy
    <2> QED BY <1>1, <2>1
  <1>6. CASE SetPolicyEnable \/ \E d \in Driver, h \in Hook : IrqEnable(d, h) \/ IrqDisable(d, h)
    <2>1. PICK h \in Hook : proc_nr_e[h] # NONE /\ (enable_irq(h) \/ disable_irq(h))
      BY <1>6, BitSteps
    <2>2. UNCHANGED <<hvars, irq_handlers>> BY <1>6, BitSteps
    <2>3. irq[h] \in Irq BY <2>1, InUse
    <2>4. disable_irq(h) => irq_actids' = [irq_actids EXCEPT ![irq[h]] = @ \cup {id[h]}]
      BY DEF disable_irq
    <2> QED BY <1>2, <1>3, <2>1, <2>2, <2>3, <2>4
  <1>8. CASE RmActive
    <2>1. /\ UNCHANGED <<hvars, irq_handlers>> /\ sys.hook \in Hook /\ proc_nr_e[sys.hook] # NONE
          /\ irq_actids' = [irq_actids EXCEPT ![irq[sys.hook]] = @ \cup {id[sys.hook]}]
      BY <1>8, SysHook DEF RmActive
    <2> QED BY <1>3, <2>1
  <1>10. CASE RmUnlink BY <1>10, RmUnlinkLinked
  <1>11. ASSUME NEW d \in Driver, NEW l \in Irq, NEW p \in Policies, SetPolicy(d, l, p)
         PROVE  LinkedInv'
    BY <1>11, SetPolicyLinked
  <1> QED BY <1>4, <1>5, <1>6, <1>8, <1>10, <1>11 DEF Next, SystemTask

LEMMA HooksSoundHolds == ASSUME HooksInv, LinkedInv PROVE HooksSound
  <1>0. TypeOK /\ ListsSound /\ SysSound BY DEF HooksInv
  <1>1. ASSUME sys.at = "idle", NEW h \in Hook, proc_nr_e[h] # NONE
        PROVE  proc_nr_e[h] \in alive /\ (NoRemoverOn(irq[h]) => h \in Hooks(irq[h]))
    BY <1>0, <1>1 DEF SysSound, Idle, ListsSound, LinkedInv
  <1>2. ASSUME NEW l \in Irq
        PROVE  /\ \A h \in Hooks(l) : proc_nr_e[h] # NONE /\ irq[h] = l
               /\ Cardinality(Ids(l)) = Len(irq_handlers[l])
    <2>1. IdsOnce(irq_handlers[l]) BY <1>0 DEF ListsSound, IdsOnce
    <2> QED BY <1>0, <2>1, IdsCount DEF ListsSound
  <1>3. \A l \in Irq : NoRemoverOn(l) => \A i \in irq_actids[l] : i \in Ids(l)
    BY DEF LinkedInv
  <1> QED BY <1>1, <1>2, <1>3 DEF HooksSound

(* Between kernel calls the handlers of a line are those of living drivers, *)
(* with ids of their own.  On lines where nobody uses IRQ_RMPOLICY every    *)
(* hook in use is in its list, and the bits that keep a line closed are     *)
(* those of its handlers, so that each can be cleared: for any number of    *)
(* drivers and hooks, with interrupts between any two steps of              *)
(* put_irq_handler, rm_irq_handler and clear_proc.                          *)
THEOREM HooksStaySound == Spec => []HooksSound
  <1>1. Init => LinkedInv BY InitLinked
  <1>2. HooksInv /\ LinkedInv /\ [Next]_vars => LinkedInv' BY NextLinked
  <1>3. HooksInv /\ LinkedInv => HooksSound BY HooksSoundHolds
  <1> QED BY <1>1, <1>2, <1>3, ListsStaySound, PTL DEF Spec

(* rm_irq_handler looks for an id, and finds the handler it is run for: ids *)
(* are never shared.  On lines where drivers use IRQ_RMPOLICY it may be run *)
(* for a hook that left the list before, and only then takes another's.     *)
THEOREM NobodyCutOff == Spec => HandlerKept
  <1> DEFINE Kept == \A l \in Irq : \A h \in Hooks(l) :
                       \/ h \in Hooks(l)' \/ h = sys.hook
                       \/ Unlinked(sys.hook) /\ ~NoRemoverOn(l)
  <1>1. ASSUME HooksInv, LinkedInv, [Next]_vars PROVE Kept
    <2>0. TypeOK BY <1>1 DEF HooksInv
    <2>1. ASSUME UNCHANGED irq_handlers PROVE Kept
      BY <2>1 DEF Hooks
    <2>2. CASE RmUnlink
      <3>1. \A l \in Irq : \A h \in Hooks(l) :
               \/ h \in Range(irq_handlers'[l]) \/ h = sys.hook
               \/ Unlinked(sys.hook) /\ ~NoRemoverOn(l)
        BY <1>1, <2>2, RmUnlinkSame
      <3> QED BY <3>1 DEF Hooks
    <2>3. ASSUME NEW d \in Driver, NEW l \in Irq, NEW p \in Policies, SetPolicy(d, l, p)
          PROVE  Kept
      <3>1. PICK h \in Hook : Takes(h, d, l, p) BY <1>1, <2>3, SetPolicyIs
      <3>2. irq_handlers' = [irq_handlers EXCEPT ![l] = Append(@, h)]
        BY <3>1 DEF Takes
      <3>3. irq_handlers[l] \in Seq(Hook) BY <2>0 DEF TypeOK
      <3>4. \A g : Member(g, irq_handlers[l]) => Member(g, irq_handlers'[l])
        BY <2>0, <3>2, <3>3, AppendQueue DEF TypeOK
      <3>5. \A k \in Irq : k # l => irq_handlers'[k] = irq_handlers[k]
        BY <2>0, <3>2 DEF TypeOK
      <3>6. \A k \in Irq : \A g \in Hooks(k) : g \in Range(irq_handlers'[k])
        BY <3>4, <3>5 DEF Hooks, Range, Member
      <3> QED BY <3>6 DEF Hooks
    <2>4. CASE UNCHANGED vars BY <2>1, <2>4 DEF vars
    <2>5. CASE SetPolicyEnable \/ Unmask \/ Close \/ RmActive \/ RmMask \/ ClearHooks
      BY <2>1, <2>5 DEF SetPolicyEnable, Unmask, Close, RmActive, RmMask, ClearHooks
    <2>6. CASE \E l \in Irq : irq_handle(l) \/ Raise(l)
      BY <2>1, <2>6 DEF irq_handle, Raise
    <2>7. CASE \E d \in Driver : \/ Exit(d) \/ Start(d) \/ Receive(d)
                                 \/ \E h \in Hook : IrqEnable(d, h) \/ IrqDisable(d, h) \/ RmPolicy(d, h)
      <3>1. UNCHANGED irq_handlers
        BY <2>7 DEF Exit, Start, Receive, IrqEnable, IrqDisable, RmPolicy
      <3> QED BY <2>1, <3>1
    <2> HIDE DEF Kept
    <2> QED BY <1>1, <2>2, <2>3, <2>4, <2>5, <2>6, <2>7 DEF Next, SystemTask
  <1>2. Init => LinkedInv BY InitLinked
  <1>3. HooksInv /\ LinkedInv /\ [Next]_vars => LinkedInv' BY NextLinked
  <1>4. HooksInv /\ LinkedInv /\ [Next]_vars => [Kept]_vars BY <1>1
  <1> QED BY <1>2, <1>3, <1>4, ListsStaySound, PTL DEF Spec, HandlerKept
=============================================================================
