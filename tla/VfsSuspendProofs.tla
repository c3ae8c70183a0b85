-------------------------- MODULE VfsSuspendProofs --------------------------
(***************************************************************************)
(* The file server counts right: for every process table, every number of  *)
(* descriptors, open files, locks and bytes, susp_count and reviving are    *)
(* the numbers of processes they stand for and a filp is counted once for   *)
(* each descriptor that refers to it.  And it forgets nobody: whoever is    *)
(* suspended when it waits for a message has to be, unless an unlock ended  *)
(* halfway.  The functions of the module map a state to a state, so there   *)
(* is one lemma for each of them.                                           *)
(***************************************************************************)
EXTENDS VfsSuspend, QueueLemmas, FiniteSetTheorems

-----------------------------------------------------------------------------
(* The inductive invariant, of a state w. *)

Susps == [call : {NIL, "READ", "WRITE", "OPEN", "FCNTL"}, fd : Fd, nbytes : Nat,
          flock : {NIL} \cup [type : LockTypes, first : Positions, last : Positions]]
ProcEntries ==
    [used : BOOLEAN, filp : [Fd -> Filp \cup {NIL}], revived : BOOLEAN,
     blocked_on : {"NONE", "PIPE", "POPEN", "LOCK"}, susp : Susps, partial : Nat]
FilpEntries ==
    [count : Nat, vno : {NIL, "pipe", "file"}, mode : SUBSET {"R", "W"}, nonblock : BOOLEAN]
Pipes == [size : 0 .. PIPE_BUF, rd : 0 .. PIPE_BUF, wr : 0 .. PIPE_BUF]

IsWorld(w) == DOMAIN w = {"fproc", "filp", "vnode", "lock", "susp", "rev", "panic"}

Typed(w) ==
    /\ IsWorld(w) /\ w.fproc \in [Proc -> ProcEntries] /\ w.filp \in [Filp -> FilpEntries]
    /\ w.vnode \in Pipes /\ w.panic \in {"", "partial"}

(* What the fields of a process say about each other: only a call that is   *)
(* tried again is reviving, the call that is kept fits what the process is  *)
(* blocked on, and the descriptor it is about is open.                      *)
EntryOK(f) ==
    /\ f.revived => f.blocked_on \in {"PIPE", "LOCK"}
    /\ f.blocked_on = "PIPE" => f.susp.call \in {"READ", "WRITE"}
    /\ f.blocked_on = "POPEN" => f.susp.call = "OPEN"
    /\ f.blocked_on = "LOCK" => f.susp.call = "FCNTL"
    /\ f.blocked_on # "NONE" => f.filp[f.susp.fd] # NIL

(* In a process table t: who is suspended on a pipe, who is reviving, and   *)
(* the descriptors that refer to filp f.                                    *)
Waiting(t) == {p \in Proc : t[p].used /\ ~t[p].revived /\ t[p].blocked_on \in {"PIPE", "POPEN"}}
Marked(t) == {p \in Proc : t[p].used /\ t[p].revived}
Refs(t, f) == {x \in Proc \X Fd : t[x[1]].used /\ t[x[1]].filp[x[2]] = f}

Tallied(w) == w.susp = Cardinality(Waiting(w.fproc)) /\ w.rev = Cardinality(Marked(w.fproc))
Referred(w) == \A f \in Filp : w.filp[f].count = Cardinality(Refs(w.fproc, f))

WorldOK(w) ==
    /\ Typed(w) /\ \A p \in Proc : EntryOK(w.fproc[p])
    /\ Tallied(w) /\ Referred(w)

VfsInv == WorldOK(World) /\ rp \in Proc \cup {0}

-----------------------------------------------------------------------------
LEMMA Constants ==
    /\ IsFiniteSet(Proc) /\ Proc \subseteq Nat /\ 0 \in Fd /\ Fd \subseteq Nat
    /\ PIPE_BUF \in Nat /\ OPEN_MAX \in Nat /\ NR_FILPS \in Nat
    /\ Filp \subseteq Nat /\ NIL \notin Filp /\ IsFiniteSet(Fd) /\ 0 < OPEN_MAX
  <1>1. \A n \in {OPEN_MAX, NR_FILPS, PIPE_BUF} : n \in Nat \ {0} BY VfsAssumption
  <1>2. IsFiniteSet(Fd) BY <1>1, FS_Interval DEF Fd
  <1> QED BY <1>1, <1>2, VfsAssumption DEF Fd, Filp

(* Sets of processes and of descriptors are finite. *)
LEMMA Countable ==
    /\ \A T \in SUBSET Proc : IsFiniteSet(T) /\ Cardinality(T) \in Nat
    /\ \A T \in SUBSET (Proc \X Fd) : IsFiniteSet(T) /\ Cardinality(T) \in Nat
    /\ \A T \in SUBSET Fd : IsFiniteSet(T) /\ Cardinality(T) \in Nat
  <1>1. IsFiniteSet(Proc \X Fd) BY Constants, FS_Product
  <1> QED BY <1>1, Constants, FS_Subset, FS_CardinalityType

(* A process that is revived stays and keeps its descriptors. *)
LEMMA ReviveKeeps ==
    ASSUME NEW f \in ProcEntries
    PROVE  revive(f).used = f.used /\ revive(f).filp = f.filp
  BY DEF revive, ProcEntries

(* The processes of S are revived and susp_count is n. *)
LEMMA ReviveSome ==
    ASSUME NEW w, WorldOK(w), NEW S \in SUBSET Proc, \A p \in S : w.fproc[p].used,
           NEW x, IsWorld(x), x.fproc = ReviveAll(w, S).fproc, x.rev = ReviveAll(w, S).rev,
           x.filp = w.filp, x.vnode = w.vnode, x.panic = w.panic,
           x.susp = w.susp - Cardinality(S \cap Waiting(w.fproc))
    PROVE  WorldOK(x)
  <1> DEFINE t == w.fproc
             u == x.fproc
             R == {p \in S : Retries(t[p])}
  <1>1. t \in [Proc -> ProcEntries] /\ IsWorld(w) /\ \A p \in Proc : EntryOK(t[p])
    BY DEF WorldOK, Typed
  <1>2. u = [p \in Proc |-> IF p \in S THEN revive(t[p]) ELSE t[p]]
    BY <1>1 DEF ReviveAll, IsWorld
  <1>3. x.rev = w.rev + Cardinality(R)
    BY <1>1 DEF ReviveAll, IsWorld
  <1> HIDE DEF t, u
  <1>4. \A p \in Proc : p \notin S => u[p] = t[p] BY <1>2
  <1>5. ASSUME NEW p \in S
        PROVE  /\ u[p] \in ProcEntries /\ EntryOK(u[p])
               /\ u[p].used = t[p].used /\ u[p].filp = t[p].filp
               /\ u[p].revived <=> t[p].revived \/ Retries(t[p])
               /\ u[p].revived \/ u[p].blocked_on \notin {"PIPE", "POPEN"}
    <2>1. t[p] \in ProcEntries /\ EntryOK(t[p]) BY <1>1
    <2>2. u[p] = revive(t[p]) BY <1>2
    <2>3. NoCall \in Susps BY Constants DEF NoCall, Susps
    <2> QED BY <2>1, <2>2, <2>3 DEF revive, Retries, ProcEntries, EntryOK
  <1>6. Waiting(u) = Waiting(t) \ (S \cap Waiting(t)) BY <1>4, <1>5 DEF Waiting
  <1>7. Marked(u) = Marked(t) \cup R /\ Marked(t) \cap R = {}
    BY <1>4, <1>5 DEF Marked, Retries, t
  <1>8. \A f \in Filp : Refs(u, f) = Refs(t, f)
    <2>1. \A p \in Proc : u[p].used = t[p].used /\ u[p].filp = t[p].filp BY <1>4, <1>5
    <2> QED BY <2>1 DEF Refs
  <1>9. x.susp = Cardinality(Waiting(u))
    <2>1. Waiting(t) \in SUBSET Proc /\ w.susp = Cardinality(Waiting(t))
      BY DEF Waiting, WorldOK, Tallied, t
    <2>2. IsFiniteSet(Waiting(t)) BY <2>1, Countable
    <2>3. Waiting(t) \cap (S \cap Waiting(t)) = S \cap Waiting(t) OBVIOUS
    <2>4. Cardinality(Waiting(t) \ (S \cap Waiting(t))) = Cardinality(Waiting(t)) - Cardinality(S \cap Waiting(t))
      BY <2>2, <2>3, FS_Difference
    <2> QED BY <1>6, <2>1, <2>4 DEF t
  <1>10. x.rev = Cardinality(Marked(u))
    <2>1. Marked(t) \in SUBSET Proc /\ R \in SUBSET Proc /\ w.rev = Cardinality(Marked(t))
      BY DEF Marked, WorldOK, Tallied, t
    <2>2. IsFiniteSet(Marked(t)) /\ IsFiniteSet(R) /\ Cardinality(Marked(t)) \in Nat /\ Cardinality(R) \in Nat
      BY <2>1, Countable
    <2> HIDE DEF R
    <2>3. Cardinality(Marked(t) \cup R) = Cardinality(Marked(t)) + Cardinality(R) - Cardinality({})
      BY <1>7, <2>2, FS_Union
    <2> QED BY <1>3, <1>7, <2>1, <2>2, <2>3, FS_EmptySet
  <1>11. u \in [Proc -> ProcEntries] /\ \A p \in Proc : EntryOK(u[p])
    <2>1. \A p \in Proc : u[p] \in ProcEntries /\ EntryOK(u[p]) BY <1>1, <1>4, <1>5
    <2>2. u = [p \in Proc |-> u[p]] BY <1>2
    <2> QED BY <2>1, <2>2
  <1> QED BY <1>8, <1>9, <1>10, <1>11 DEF WorldOK, Typed, Tallied, Referred, t, u

(* What a step that only wakes processes leaves alone. *)
SameFiles(x, w) == x.filp = w.filp /\ x.vnode = w.vnode /\ x.lock = w.lock /\ x.panic = w.panic
SameFds(x, w) ==
    \A p \in Proc : x.fproc[p].used = w.fproc[p].used /\ x.fproc[p].filp = w.fproc[p].filp

(* Processes of a state that wait for v with a call. *)
Hanging(w, v, call) ==
    {p \in Proc : /\ w.fproc[p].used /\ w.fproc[p].blocked_on # "NONE"
                  /\ ~w.fproc[p].revived /\ w.fproc[p].susp.call = call
                  /\ VnoOf(w, p, w.fproc[p].susp.fd) = v}

(* release() keeps the counts, touches no open file, no byte and nobody     *)
(* that is not suspended, and does not panic.                               *)
LEMMA ReleaseOK ==
    ASSUME NEW w, WorldOK(w), NEW v, NEW call \in {"READ", "WRITE", "OPEN"}, NEW count
    PROVE  LET x == release(w, v, call, count)
           IN  /\ WorldOK(x) /\ SameFiles(x, w) /\ SameFds(x, w)
               /\ \A p \in Proc : p \notin Hanging(w, v, call) => x.fproc[p] = w.fproc[p]
  <1> DEFINE hanging == Hanging(w, v, call)
             chosen  == {p \in hanging : Cardinality({q \in hanging : q <= p}) <= count}
             left    == w.susp - Cardinality(chosen)
             y       == ReviveAll(w, chosen)
             x       == [y EXCEPT !.susp = left, !.panic = IF left < 0 THEN "susp_count" ELSE @]
  <1>1. release(w, v, call, count) = x
    BY DEF release, Hanging
  <1>2. chosen \in SUBSET Proc /\ chosen \subseteq hanging BY DEF Hanging
  <1>3. IsWorld(w) /\ w.fproc \in [Proc -> ProcEntries] BY DEF WorldOK, Typed
  <1>4. chosen \subseteq Waiting(w.fproc)
    <2>1. ASSUME NEW p \in hanging PROVE p \in Waiting(w.fproc)
      <3>1. w.fproc[p] \in ProcEntries /\ EntryOK(w.fproc[p]) /\ p \in Proc
        BY <1>3, <2>1 DEF WorldOK, Hanging
      <3>2. /\ w.fproc[p].used /\ w.fproc[p].blocked_on # "NONE"
            /\ ~w.fproc[p].revived /\ w.fproc[p].susp.call = call
        BY <2>1 DEF Hanging
      <3> QED BY <3>1, <3>2 DEF Waiting, EntryOK, ProcEntries
    <2> QED BY <1>2, <2>1
  <1>5. \A p \in chosen : w.fproc[p].used BY DEF Hanging
  <1> HIDE DEF chosen, hanging
  <1>6. left >= 0
    <2>1. Waiting(w.fproc) \in SUBSET Proc BY DEF Waiting
    <2>2. Cardinality(chosen) <= Cardinality(Waiting(w.fproc))
      BY <1>4, <2>1, Countable, FS_Subset
    <2>3. Cardinality(chosen) \in Nat /\ Cardinality(Waiting(w.fproc)) \in Nat
      BY <1>2, <2>1, Countable
    <2>4. w.susp = Cardinality(Waiting(w.fproc)) BY DEF WorldOK, Tallied
    <2> QED BY <2>2, <2>3, <2>4
  <1>7. /\ IsWorld(y) /\ y.filp = w.filp /\ y.vnode = w.vnode /\ y.lock = w.lock /\ y.panic = w.panic
        /\ y.fproc = [p \in Proc |-> IF p \in chosen THEN revive(w.fproc[p]) ELSE w.fproc[p]]
    BY <1>3 DEF ReviveAll, IsWorld
  <1>8. left \in Int
    <2>1. Cardinality(chosen) \in Nat BY <1>2, Countable
    <2>2. Waiting(w.fproc) \in SUBSET Proc BY DEF Waiting
    <2>3. w.susp \in Nat BY <2>2, Countable DEF WorldOK, Tallied
    <2> QED BY <2>1, <2>3
  <1>9. ~(left < 0) BY <1>6, <1>8
  <1> HIDE DEF left
  <1>10. /\ IsWorld(x) /\ x.filp = w.filp /\ x.vnode = w.vnode /\ x.lock = w.lock /\ x.panic = w.panic
         /\ x.fproc = y.fproc /\ x.rev = y.rev /\ x.susp = left
    BY <1>7, <1>9 DEF IsWorld
  <1> HIDE DEF x, y
  <1>11. chosen \cap Waiting(w.fproc) = chosen BY <1>4
  <1>12. WorldOK(x)
    BY <1>2, <1>5, <1>10, <1>11, ReviveSome DEF y, left
  <1>13. \A p \in Proc : p \notin hanging => x.fproc[p] = w.fproc[p]
    BY <1>2, <1>7, <1>10
  <1>14. SameFds(x, w)
    <2> SUFFICES \A p \in Proc : x.fproc[p].used = w.fproc[p].used /\ x.fproc[p].filp = w.fproc[p].filp
      BY DEF SameFds
    <2> TAKE p \in Proc
    <2>1. w.fproc[p] \in ProcEntries BY <1>3
    <2>2. x.fproc[p] = w.fproc[p] \/ x.fproc[p] = revive(w.fproc[p]) BY <1>7, <1>10
    <2> QED BY <2>1, <2>2, ReviveKeeps
  <1>15. SameFiles(x, w) BY <1>10 DEF SameFiles
  <1> QED BY <1>1, <1>12, <1>13, <1>14, <1>15 DEF hanging

(* lock_revive() too. *)
LEMMA LockReviveOK ==
    ASSUME NEW w, WorldOK(w)
    PROVE  LET x == lock_revive(w)
           IN  /\ WorldOK(x) /\ SameFiles(x, w) /\ SameFds(x, w)
               /\ \A p \in Proc : w.fproc[p].blocked_on # "LOCK" => x.fproc[p] = w.fproc[p]
  <1> DEFINE S == {p \in Proc : w.fproc[p].used /\ w.fproc[p].blocked_on = "LOCK"}
             x == ReviveAll(w, S)
  <1>1. lock_revive(w) = x BY DEF lock_revive
  <1>2. IsWorld(w) /\ w.fproc \in [Proc -> ProcEntries] BY DEF WorldOK, Typed
  <1>3. S \cap Waiting(w.fproc) = {} BY DEF Waiting
  <1>4. \A p \in S : w.fproc[p].used OBVIOUS
  <1>5. \A p \in Proc : w.fproc[p].blocked_on # "LOCK" => p \notin S OBVIOUS
  <1>6. S \in SUBSET Proc OBVIOUS
  <1> HIDE DEF S
  <1>7. /\ IsWorld(x) /\ x.filp = w.filp /\ x.vnode = w.vnode /\ x.lock = w.lock /\ x.panic = w.panic
        /\ x.fproc = [p \in Proc |-> IF p \in S THEN revive(w.fproc[p]) ELSE w.fproc[p]]
        /\ x.susp = w.susp
    BY <1>2 DEF ReviveAll, IsWorld
  <1>8. w.susp \in Nat
    <2>1. Waiting(w.fproc) \in SUBSET Proc BY DEF Waiting
    <2> QED BY <2>1, Countable DEF WorldOK, Tallied
  <1>9. x.susp = w.susp - Cardinality(S \cap Waiting(w.fproc))
    BY <1>3, <1>7, <1>8, FS_EmptySet
  <1> HIDE DEF x
  <1>10. WorldOK(x) BY <1>4, <1>6, <1>7, <1>9, ReviveSome DEF x
  <1>11. SameFds(x, w)
    <2> SUFFICES \A p \in Proc : x.fproc[p].used = w.fproc[p].used /\ x.fproc[p].filp = w.fproc[p].filp
      BY DEF SameFds
    <2> TAKE p \in Proc
    <2>1. w.fproc[p] \in ProcEntries BY <1>2
    <2>2. x.fproc[p] = w.fproc[p] \/ x.fproc[p] = revive(w.fproc[p]) BY <1>7
    <2> QED BY <2>1, <2>2, ReviveKeeps
  <1>12. SameFiles(x, w) BY <1>7 DEF SameFiles
  <1>13. \A p \in Proc : w.fproc[p].blocked_on # "LOCK" => x.fproc[p] = w.fproc[p] BY <1>5, <1>7
  <1> QED BY <1>1, <1>10, <1>11, <1>12, <1>13

-----------------------------------------------------------------------------
(* Steps that give one process p another entry e, which refers to the same  *)
(* open files: the counts have to follow.                                   *)
Waits(f) == ~f.revived /\ f.blocked_on \in {"PIPE", "POPEN"}
Marks(f) == f.used /\ f.revived
One(b) == IF b THEN 1 ELSE 0
WaitN(f) == IF Waits(f) THEN 1 ELSE 0
MarkN(f) == IF Marks(f) THEN 1 ELSE 0

LEMMA Recount ==
    ASSUME NEW S, IsFiniteSet(S), NEW p
    PROVE  /\ Cardinality(S \cup {p}) = Cardinality(S) - One(p \in S) + 1
           /\ Cardinality(S \ {p}) = Cardinality(S) - One(p \in S) + 0
  <1>1. /\ Cardinality(S) \in Nat
        /\ Cardinality(S \cup {p}) = IF p \in S THEN Cardinality(S) ELSE Cardinality(S) + 1
        /\ Cardinality(S \ {p}) = IF p \in S THEN Cardinality(S) - 1 ELSE Cardinality(S)
    BY FS_AddElement, FS_RemoveElement, FS_CardinalityType
  <1> QED BY <1>1 DEF One, WaitN, MarkN

LEMMA EntryStep ==
    ASSUME NEW w, WorldOK(w), NEW p \in Proc, w.fproc[p].used, NEW e \in ProcEntries,
           EntryOK(e), e.used, e.filp = w.fproc[p].filp,
           NEW x, IsWorld(x), x.fproc = [w.fproc EXCEPT ![p] = e], x.filp = w.filp,
           x.vnode \in Pipes, x.panic \in {"", "partial"},
           x.susp = w.susp - WaitN(w.fproc[p]) + WaitN(e),
           x.rev = w.rev - MarkN(w.fproc[p]) + MarkN(e)
    PROVE  WorldOK(x)
  <1> DEFINE t == w.fproc
             u == x.fproc
             W == Waiting(t)
             M == Marked(t)
  <1>1. t \in [Proc -> ProcEntries] /\ IsWorld(w) /\ \A q \in Proc : EntryOK(t[q])
    BY DEF WorldOK, Typed
  <1>2. u[p] = e /\ \A q \in Proc : q # p => u[q] = t[q] BY <1>1
  <1>3. u \in [Proc -> ProcEntries] /\ \A q \in Proc : EntryOK(u[q])
    BY <1>1, <1>2
  <1>4. w.susp = Cardinality(W) /\ w.rev = Cardinality(M) BY DEF WorldOK, Tallied
  <1>5. W \in SUBSET Proc /\ M \in SUBSET Proc BY DEF Waiting, Marked
  <1>6. IsFiniteSet(W) /\ Cardinality(W) \in Nat /\ IsFiniteSet(M) /\ Cardinality(M) \in Nat
    BY <1>5, Countable
  <1>7. (p \in W <=> Waits(t[p])) /\ (p \in M <=> Marks(t[p])) BY DEF Waiting, Marked, Waits, Marks
  <1> HIDE DEF t, u
  <1>8. Waiting(u) = IF Waits(e) THEN W \cup {p} ELSE W \ {p}
    BY <1>2 DEF Waiting, Waits
  <1>9. Marked(u) = IF Marks(e) THEN M \cup {p} ELSE M \ {p}
    BY <1>2 DEF Marked, Marks
  <1> HIDE DEF W, M
  <1>10. Cardinality(Waiting(u)) = Cardinality(W) - One(p \in W) + WaitN(e)
    <2>1. CASE Waits(e)
      <3>1. Waiting(u) = W \cup {p} /\ WaitN(e) = 1 BY <1>8, <2>1 DEF One, WaitN, MarkN
      <3> QED BY <1>6, <3>1, Recount
    <2>2. CASE ~Waits(e)
      <3>1. Waiting(u) = W \ {p} /\ WaitN(e) = 0 BY <1>8, <2>2 DEF One, WaitN, MarkN
      <3> QED BY <1>6, <3>1, Recount
    <2> QED BY <2>1, <2>2
  <1>11. Cardinality(Marked(u)) = Cardinality(M) - One(p \in M) + MarkN(e)
    <2>1. CASE Marks(e)
      <3>1. Marked(u) = M \cup {p} /\ MarkN(e) = 1 BY <1>9, <2>1 DEF One, WaitN, MarkN
      <3> QED BY <1>6, <3>1, Recount
    <2>2. CASE ~Marks(e)
      <3>1. Marked(u) = M \ {p} /\ MarkN(e) = 0 BY <1>9, <2>2 DEF One, WaitN, MarkN
      <3> QED BY <1>6, <3>1, Recount
    <2> QED BY <2>1, <2>2
  <1>12. One(p \in W) = WaitN(w.fproc[p]) /\ One(p \in M) = MarkN(w.fproc[p])
    BY <1>7 DEF t, One, WaitN, MarkN
  <1>13. x.susp = Cardinality(Waiting(u)) /\ x.rev = Cardinality(Marked(u))
    BY <1>4, <1>10, <1>11, <1>12
  <1>14. \A f \in Filp : Refs(u, f) = Refs(t, f)
    <2>1. \A q \in Proc : u[q].used = t[q].used /\ u[q].filp = t[q].filp
      <3>1. u[p].used = t[p].used /\ u[p].filp = t[p].filp
        <4>1. t[p].used = e.used BY <1>1 DEF ProcEntries, t
        <4> QED BY <1>2, <4>1 DEF t
      <3> QED BY <1>2, <3>1
    <2> QED BY <2>1 DEF Refs
  <1> QED BY <1>3, <1>13, <1>14 DEF WorldOK, Typed, Tallied, Referred, t, u
(* Counts of a good state are numbers. *)
LEMMA CountsAreNat ==
    ASSUME NEW w, WorldOK(w)
    PROVE  w.susp \in Nat /\ w.rev \in Nat
  <1>1. Waiting(w.fproc) \in SUBSET Proc /\ Marked(w.fproc) \in SUBSET Proc BY DEF Waiting, Marked
  <1> QED BY <1>1, Countable DEF WorldOK, Tallied

(* A process that makes a call is suspended in it: e is its new entry. *)
LEMMA SuspendedOK ==
    ASSUME NEW w, WorldOK(w), NEW p \in Proc, w.fproc[p].used, w.fproc[p].blocked_on = "NONE",
           NEW why \in {"PIPE", "POPEN", "LOCK"}, NEW s \in Susps, w.fproc[p].filp[s.fd] # NIL,
           why = "PIPE" => s.call \in {"READ", "WRITE"}, why = "POPEN" => s.call = "OPEN",
           why = "LOCK" => s.call = "FCNTL",
           NEW e \in ProcEntries, e.used, e.filp = w.fproc[p].filp, ~e.revived,
           e.blocked_on = why, e.susp = s,
           NEW x, IsWorld(x), x.filp = w.filp, x.vnode = w.vnode, x.panic = w.panic, x.rev = w.rev,
           x.fproc = [w.fproc EXCEPT ![p] = e],
           x.susp = IF why = "LOCK" THEN w.susp ELSE w.susp + 1
    PROVE  /\ WorldOK(x) /\ x.fproc[p] = e
           /\ \A q \in Proc : x.fproc[q].used = w.fproc[q].used /\ x.fproc[q].filp = w.fproc[q].filp
  <1> DEFINE f == w.fproc[p]
  <1>1. f \in ProcEntries /\ EntryOK(f) /\ w.fproc \in [Proc -> ProcEntries] BY DEF WorldOK, Typed
  <1>2. ~f.revived BY <1>1 DEF EntryOK
  <1>4. e.used = f.used BY <1>1 DEF ProcEntries
  <1>5. EntryOK(e) BY DEF EntryOK
  <1>6. WaitN(f) = 0 /\ MarkN(f) = 0 /\ MarkN(e) = 0
    BY <1>2 DEF WaitN, MarkN, Waits, Marks
  <1>7. WaitN(e) = IF why = "LOCK" THEN 0 ELSE 1
    BY DEF WaitN, Waits
  <1>8. x.vnode \in Pipes /\ x.panic \in {"", "partial"} BY DEF WorldOK, Typed
  <1>10. x.susp = w.susp - WaitN(w.fproc[p]) + WaitN(e)
    BY <1>6, <1>7, CountsAreNat
  <1>11. x.rev = w.rev - MarkN(w.fproc[p]) + MarkN(e)
    BY <1>6, CountsAreNat
  <1>12. WorldOK(x) BY <1>5, <1>8, <1>10, <1>11, EntryStep
  <1>13. x.fproc[p] = e /\ \A q \in Proc : q # p => x.fproc[q] = w.fproc[q] BY <1>1
  <1> QED BY <1>4, <1>12, <1>13

(* pipe_suspend(), and suspend() for an open or a lock. *)
LEMMA PipeSuspendOK ==
    ASSUME NEW w, WorldOK(w), NEW p \in Proc, w.fproc[p].used, w.fproc[p].blocked_on = "NONE",
           NEW call \in {"READ", "WRITE"}, NEW fd \in Fd, w.fproc[p].filp[fd] # NIL, NEW n \in Nat
    PROVE  LET x == pipe_suspend(w, p, call, fd, n)
           IN  /\ WorldOK(x) /\ x.filp = w.filp /\ x.vnode = w.vnode /\ x.panic = w.panic
               /\ x.fproc[p].used /\ ~x.fproc[p].revived /\ x.fproc[p].blocked_on = "PIPE"
  <1> DEFINE s == [NoCall EXCEPT !.call = call, !.fd = fd, !.nbytes = n]
             e == [w.fproc[p] EXCEPT !.blocked_on = "PIPE", !.susp = s]
             x == pipe_suspend(w, p, call, fd, n)
  <1>1. s \in Susps /\ s.call = call /\ s.fd = fd BY DEF Susps, NoCall
  <1>2. /\ IsWorld(w) /\ w.fproc \in [Proc -> ProcEntries] /\ w.fproc[p] \in ProcEntries
        /\ EntryOK(w.fproc[p])
    BY DEF WorldOK, Typed
  <1> HIDE DEF s
  <1>3. x = [w EXCEPT !.susp = @ + 1, !.fproc[p].blocked_on = "PIPE", !.fproc[p].susp = s]
    BY DEF pipe_suspend, s
  <1> HIDE DEF x
  <1>4. x.fproc = [w.fproc EXCEPT ![p] = e]
    BY <1>2, <1>3 DEF IsWorld, ProcEntries
  <1>5. /\ IsWorld(x) /\ x.filp = w.filp /\ x.vnode = w.vnode /\ x.panic = w.panic /\ x.rev = w.rev
        /\ x.susp = w.susp + 1
    BY <1>2, <1>3 DEF IsWorld
  <1>6. ~w.fproc[p].revived BY <1>2 DEF EntryOK
  <1>7. x.fproc[p] = e BY <1>2, <1>4
  <1>8. /\ e \in ProcEntries /\ e.used /\ e.filp = w.fproc[p].filp /\ ~e.revived
        /\ e.blocked_on = "PIPE" /\ e.susp = s
    BY <1>1, <1>2, <1>6 DEF ProcEntries
  <1> HIDE DEF e
  <1>9. x.susp = IF "PIPE" = "LOCK" THEN w.susp ELSE w.susp + 1 BY <1>5
  <1>10. WorldOK(x) BY <1>1, <1>4, <1>5, <1>8, <1>9, SuspendedOK
  <1> QED BY <1>5, <1>7, <1>8, <1>10 DEF x

LEMMA SuspendOK ==
    ASSUME NEW w, WorldOK(w), NEW p \in Proc, w.fproc[p].used, w.fproc[p].blocked_on = "NONE",
           NEW why \in {"POPEN", "LOCK"}, NEW s \in Susps, w.fproc[p].filp[s.fd] # NIL,
           why = "POPEN" => s.call = "OPEN", why = "LOCK" => s.call = "FCNTL"
    PROVE  LET x == suspend(w, p, why, s)
           IN  /\ WorldOK(x) /\ x.filp = w.filp /\ x.vnode = w.vnode /\ x.panic = w.panic
               /\ \A q \in Proc : x.fproc[q].used = w.fproc[q].used /\ x.fproc[q].filp = w.fproc[q].filp
  <1> DEFINE e == [w.fproc[p] EXCEPT !.blocked_on = why, !.susp = s]
             x == suspend(w, p, why, s)
  <1>2. IsWorld(w) /\ w.fproc \in [Proc -> ProcEntries] /\ w.fproc[p] \in ProcEntries BY DEF WorldOK, Typed
  <1>3. x = [w EXCEPT !.susp = IF why = "POPEN" THEN @ + 1 ELSE @,
                      !.fproc[p].blocked_on = why, !.fproc[p].susp = s]
    BY DEF suspend
  <1> HIDE DEF x
  <1>4. x.fproc = [w.fproc EXCEPT ![p] = e]
    BY <1>2, <1>3 DEF IsWorld, ProcEntries
  <1>5. /\ IsWorld(x) /\ x.filp = w.filp /\ x.vnode = w.vnode /\ x.panic = w.panic /\ x.rev = w.rev
        /\ x.susp = IF why = "LOCK" THEN w.susp ELSE w.susp + 1
    BY <1>2, <1>3 DEF IsWorld
  <1>6. /\ e \in ProcEntries /\ e.used /\ e.filp = w.fproc[p].filp /\ ~e.revived
        /\ e.blocked_on = why /\ e.susp = s
    <2>1. EntryOK(w.fproc[p]) BY DEF WorldOK
    <2>2. ~w.fproc[p].revived BY <2>1 DEF EntryOK
    <2> QED BY <1>2, <2>2 DEF ProcEntries
  <1> HIDE DEF e
  <1>7. why \in {"PIPE", "POPEN", "LOCK"} /\ (why = "PIPE" => s.call \in {"READ", "WRITE"}) OBVIOUS
  <1>8. /\ WorldOK(x)
        /\ \A q \in Proc : x.fproc[q].used = w.fproc[q].used /\ x.fproc[q].filp = w.fproc[q].filp
    BY <1>4, <1>5, <1>6, <1>7, SuspendedOK
  <1> QED BY <1>5, <1>8 DEF x

LEMMA NoCallTyped == NoCall \in Susps
  BY Constants DEF NoCall, Susps

(* A process is unblocked: it was counted, or it was reviving. *)
LEMMA UnblockedOK ==
    ASSUME NEW w, WorldOK(w), NEW p \in Proc, w.fproc[p].used,
           NEW e \in ProcEntries, e.used, e.filp = w.fproc[p].filp, ~e.revived, e.blocked_on = "NONE",
           NEW x, IsWorld(x), x.filp = w.filp, x.vnode = w.vnode, x.panic = w.panic,
           x.fproc = [w.fproc EXCEPT ![p] = e],
           x.rev = w.rev - MarkN(w.fproc[p]), x.susp = w.susp - WaitN(w.fproc[p])
    PROVE  /\ WorldOK(x) /\ x.fproc[p].used /\ x.fproc[p].blocked_on = "NONE"
           /\ x.fproc[p].filp = w.fproc[p].filp
  <1> DEFINE f == w.fproc[p]
  <1>1. f \in ProcEntries /\ w.fproc \in [Proc -> ProcEntries] BY DEF WorldOK, Typed
  <1>6. EntryOK(e) BY DEF EntryOK
  <1>7. MarkN(e) = 0 /\ WaitN(e) = 0 BY DEF WaitN, MarkN, Waits, Marks
  <1>8. x.vnode \in Pipes /\ x.panic \in {"", "partial"} BY DEF WorldOK, Typed
  <1>9. MarkN(f) \in Nat /\ WaitN(f) \in Nat BY DEF WaitN, MarkN
  <1>10. x.susp = w.susp - WaitN(w.fproc[p]) + WaitN(e) BY <1>7, <1>9, CountsAreNat
  <1>11. x.rev = w.rev - MarkN(w.fproc[p]) + MarkN(e) BY <1>7, <1>9, CountsAreNat
  <1>12. x.fproc[p] = e BY <1>1
  <1> QED BY <1>6, <1>8, <1>10, <1>11, <1>12, EntryStep

(* unpause() *)
LEMMA UnpauseOK ==
    ASSUME NEW w, WorldOK(w), NEW p \in Proc, w.fproc[p].used
    PROVE  LET x == unpause(w, p)
           IN  WorldOK(x) /\ x.fproc[p].used /\ x.fproc[p].blocked_on = "NONE"
  <1> DEFINE f == w.fproc[p]
             e == [f EXCEPT !.blocked_on = "NONE", !.susp = NoCall, !.revived = FALSE]
             x == unpause(w, p)
  <1>1. CASE f.blocked_on = "NONE" BY <1>1 DEF unpause
  <1>2. CASE f.blocked_on # "NONE"
    <2>1. IsWorld(w) /\ w.fproc \in [Proc -> ProcEntries] /\ f \in ProcEntries BY DEF WorldOK, Typed
    <2>2. x = [w EXCEPT !.fproc[p].blocked_on = "NONE", !.fproc[p].susp = NoCall,
                       !.fproc[p].revived = FALSE,
                       !.rev = IF f.revived THEN @ - 1 ELSE @,
                       !.susp = IF f.blocked_on \in {"PIPE", "POPEN"} /\ ~f.revived THEN @ - 1 ELSE @]
      BY <1>2 DEF unpause
    <2> HIDE DEF x
    <2>3. /\ IsWorld(x) /\ x.filp = w.filp /\ x.vnode = w.vnode /\ x.panic = w.panic
          /\ x.rev = IF f.revived THEN w.rev - 1 ELSE w.rev
          /\ x.susp = IF f.blocked_on \in {"PIPE", "POPEN"} /\ ~f.revived THEN w.susp - 1 ELSE w.susp
      BY <2>1, <2>2 DEF IsWorld
    <2>4. x.fproc = [w.fproc EXCEPT ![p] = e] BY <2>1, <2>2 DEF IsWorld, ProcEntries
    <2>5. x.rev = w.rev - MarkN(w.fproc[p]) /\ x.susp = w.susp - WaitN(w.fproc[p])
      BY <2>3, CountsAreNat DEF WaitN, MarkN, Marks, Waits
    <2>6. /\ e \in ProcEntries /\ e.used /\ e.filp = w.fproc[p].filp /\ ~e.revived
          /\ e.blocked_on = "NONE"
      BY <2>1, NoCallTyped DEF ProcEntries
    <2> HIDE DEF e
    <2>7. WorldOK(x) /\ x.fproc[p].used /\ x.fproc[p].blocked_on = "NONE"
      BY <2>3, <2>4, <2>5, <2>6, UnblockedOK
    <2> QED BY <2>7 DEF x
  <1> QED BY <1>1, <1>2

(* The revived process that get_work() takes up. *)
LEMMA ResumedOK ==
    ASSUME WorldOK(World), NEW p \in Reviving
    PROVE  LET x == Resumed(p)
           IN  /\ WorldOK(x) /\ x.fproc[p].used /\ x.fproc[p].blocked_on = "NONE"
               /\ x.fproc[p].filp = fproc[p].filp /\ x.filp = filp
  <1> DEFINE w == World
             f == w.fproc[p]
             e == [f EXCEPT !.blocked_on = "NONE", !.susp = NoCall, !.revived = FALSE]
             x == Resumed(p)
  <1>0. w.fproc = fproc /\ w.filp = filp BY DEF World
  <1>1. p \in Proc /\ f.used /\ f.revived BY <1>0 DEF Reviving
  <1> HIDE DEF w
  <1>2. IsWorld(w) /\ w.fproc \in [Proc -> ProcEntries] /\ f \in ProcEntries BY <1>1 DEF WorldOK, Typed, w
  <1>3. x = [w EXCEPT !.fproc[p].blocked_on = "NONE", !.fproc[p].susp = NoCall,
                      !.fproc[p].revived = FALSE, !.rev = @ - 1]
    BY DEF Resumed, w
  <1> HIDE DEF x
  <1>4. /\ IsWorld(x) /\ x.filp = w.filp /\ x.vnode = w.vnode /\ x.panic = w.panic
        /\ x.rev = w.rev - 1 /\ x.susp = w.susp
    BY <1>2, <1>3 DEF IsWorld
  <1>5. x.fproc = [w.fproc EXCEPT ![p] = e] BY <1>1, <1>2, <1>3 DEF IsWorld, ProcEntries
  <1>6. MarkN(f) = 1 /\ WaitN(f) = 0 BY <1>1 DEF WaitN, MarkN, Marks, Waits
  <1>7. x.rev = w.rev - MarkN(w.fproc[p]) /\ x.susp = w.susp - WaitN(w.fproc[p])
    BY <1>4, <1>6, CountsAreNat DEF w
  <1>8. WorldOK(w) /\ w.fproc[p].used BY <1>1 DEF w
  <1>9. /\ e \in ProcEntries /\ e.used /\ e.filp = w.fproc[p].filp /\ ~e.revived
        /\ e.blocked_on = "NONE"
    BY <1>1, <1>2, NoCallTyped DEF ProcEntries
  <1> HIDE DEF e
  <1>10. /\ WorldOK(x) /\ x.fproc[p].used /\ x.fproc[p].blocked_on = "NONE"
         /\ x.fproc[p].filp = w.fproc[p].filp
    BY <1>1, <1>4, <1>5, <1>7, <1>8, <1>9, UnblockedOK
  <1> QED BY <1>0, <1>4, <1>10 DEF x

(* Steps that change no count. *)
LEMMA SameCounts ==
    ASSUME NEW w, WorldOK(w), NEW x, IsWorld(x), x.fproc = w.fproc, x.susp = w.susp, x.rev = w.rev,
           x.filp \in [Filp -> FilpEntries], \A f \in Filp : x.filp[f].count = w.filp[f].count,
           x.vnode \in Pipes, x.panic \in {"", "partial"}
    PROVE  WorldOK(x)
  BY DEF WorldOK, Typed, Tallied, Referred

LEMMA CountsKept ==
    ASSUME NEW w, WorldOK(w), NEW x, IsWorld(x), x.fproc = w.fproc, x.susp = w.susp, x.rev = w.rev,
           x.filp = w.filp, x.vnode \in Pipes, x.panic \in {"", "partial"}
    PROVE  WorldOK(x)
  BY DEF WorldOK, Typed, Tallied, Referred

(* How much of a call is done says nothing about the counts. *)
LEMMA PartialOK ==
    ASSUME NEW w, WorldOK(w), NEW p \in Proc, w.fproc[p].used, NEW n \in Nat
    PROVE  WorldOK([w EXCEPT !.fproc[p].partial = n])
  <1> DEFINE x == [w EXCEPT !.fproc[p].partial = n]
             e == [w.fproc[p] EXCEPT !.partial = n]
  <1>1. IsWorld(w) /\ w.fproc \in [Proc -> ProcEntries] /\ w.fproc[p] \in ProcEntries
        /\ EntryOK(w.fproc[p]) /\ w.vnode \in Pipes /\ w.panic \in {"", "partial"}
    BY DEF WorldOK, Typed
  <1>2. x.fproc = [w.fproc EXCEPT ![p] = e] BY <1>1 DEF IsWorld, ProcEntries
  <1>3. /\ IsWorld(x) /\ x.filp = w.filp /\ x.vnode = w.vnode /\ x.panic = w.panic /\ x.rev = w.rev
        /\ x.susp = w.susp
    BY <1>1 DEF IsWorld
  <1>4. /\ e \in ProcEntries /\ e.used /\ e.filp = w.fproc[p].filp
        /\ (e.revived <=> w.fproc[p].revived) /\ e.blocked_on = w.fproc[p].blocked_on
        /\ e.susp = w.fproc[p].susp
    BY <1>1 DEF ProcEntries
  <1> HIDE DEF x, e
  <1>5. EntryOK(e) BY <1>1, <1>4 DEF EntryOK
  <1>6. WaitN(e) = WaitN(w.fproc[p]) /\ MarkN(e) = MarkN(w.fproc[p])
    BY <1>4 DEF WaitN, MarkN, Waits, Marks
  <1>7. WaitN(e) \in Nat /\ MarkN(e) \in Nat BY DEF WaitN, MarkN
  <1>8. x.susp = w.susp - WaitN(w.fproc[p]) + WaitN(e) BY <1>3, <1>6, <1>7, CountsAreNat
  <1>9. x.rev = w.rev - MarkN(w.fproc[p]) + MarkN(e) BY <1>3, <1>6, <1>7, CountsAreNat
  <1>10. WorldOK(x) BY <1>1, <1>2, <1>3, <1>4, <1>5, <1>8, <1>9, EntryStep
  <1> QED BY <1>10 DEF x

-----------------------------------------------------------------------------
(* Reading and writing.                                                    *)

(* What Xpipe_check() gives a caller p: it may go on where there is that    *)
(* much to read or that much room.                                          *)
Checked(c, w, p, call, n) ==
    /\ WorldOK(c.w) /\ c.w.fproc[p] = w.fproc[p] /\ c.w.vnode = w.vnode /\ c.w.panic = w.panic
    /\ c.w.filp = w.filp /\ c.r \in Int
    /\ c.r > 0 => IF call = "READ" THEN c.r = n /\ w.vnode.rd < w.vnode.size
                  ELSE c.r <= n /\ w.vnode.wr + c.r <= PIPE_BUF

LEMMA PipeCheckOK ==
    ASSUME NEW w, WorldOK(w), NEW p \in Proc, w.fproc[p].used, w.fproc[p].blocked_on = "NONE",
           NEW call \in {"READ", "WRITE"}, NEW nonblock, NEW n \in Nat
    PROVE  Checked(Xpipe_check(w, call, nonblock, n), w, p, call, n)
  <1> DEFINE c == Xpipe_check(w, call, nonblock, n)
             v == w.vnode
             wait == IF nonblock THEN EAGAIN ELSE SUSPEND
             Good(x) == /\ WorldOK(x) /\ x.fproc[p] = w.fproc[p] /\ x.vnode = w.vnode /\ x.panic = w.panic
                        /\ x.filp = w.filp
             Free(r) == r > 0 => IF call = "READ" THEN r = n /\ w.vnode.rd < w.vnode.size
                                 ELSE r <= n /\ w.vnode.wr + r <= PIPE_BUF
  <1>1. Good(w) OBVIOUS
  <1>2. ASSUME NEW k \in {"READ", "WRITE", "OPEN"}, NEW m
        PROVE  Good(release(w, "pipe", k, m))
    <2>1. p \notin Hanging(w, "pipe", k) BY DEF Hanging
    <2> DEFINE x == release(w, "pipe", k, m)
    <2>2. /\ WorldOK(x)
          /\ x.filp = w.filp
          /\ x.vnode = w.vnode
          /\ x.panic = w.panic
      <3>1. WorldOK(x) /\ SameFiles(x, w) BY ReleaseOK
      <3> QED BY <3>1 DEF SameFiles
    <2>3. x.fproc[p] = w.fproc[p] BY <2>1, ReleaseOK
    <2> QED BY <2>2, <2>3
  <1>3. /\ v.rd \in Nat /\ v.wr \in Nat /\ v.size \in Nat /\ v.wr <= PIPE_BUF /\ PIPE_BUF \in Nat
    <2>1. v \in Pipes BY DEF WorldOK, Typed
    <2> QED BY <2>1, Constants DEF Pipes
  <1>4. wait \in Int /\ Free(wait) BY DEF EAGAIN, SUSPEND
  <1> HIDE DEF Good, wait
  <1>5. CASE call = "READ"
    <2>1. c = IF v.rd < v.size THEN Ret(w, n)
             ELSE IF find_filp(w, "pipe", "W") = {} THEN Ret(w, 0)
             ELSE Ret(release(w, "pipe", "WRITE", w.susp), wait)
      BY <1>5 DEF Xpipe_check, wait
    <2> HIDE DEF c
    <2>2. Good(c.w) /\ c.r \in Int /\ Free(c.r)
      <3>1. CASE v.rd < v.size
        <4>1. c = Ret(w, n) BY <2>1, <3>1
        <4>2. c.w = w /\ c.r = n BY <4>1 DEF Ret
        <4> QED BY <1>1, <1>5, <3>1, <4>2
      <3>2. CASE ~(v.rd < v.size) /\ find_filp(w, "pipe", "W") = {}
        <4>1. c = Ret(w, 0) BY <2>1, <3>2
        <4>2. c.w = w /\ c.r = 0 BY <4>1 DEF Ret
        <4> QED BY <1>1, <4>2
      <3>3. CASE ~(v.rd < v.size) /\ find_filp(w, "pipe", "W") # {}
        <4>1. c = Ret(release(w, "pipe", "WRITE", w.susp), wait) BY <2>1, <3>3
        <4>2. c.w = release(w, "pipe", "WRITE", w.susp) /\ c.r = wait BY <4>1 DEF Ret
        <4>3. Good(release(w, "pipe", "WRITE", w.susp)) BY <1>2
        <4> QED BY <1>4, <4>2, <4>3
      <3> QED BY <3>1, <3>2, <3>3
    <2> QED BY <2>2 DEF c, Good, Checked
  <1>6. CASE call = "WRITE"
    <2>1. c = IF find_filp(w, "pipe", "R") = {} THEN Ret(w, EPIPE)
        ELSE IF v.wr + n <= PIPE_BUF
             THEN Ret(IF v.wr = 0 THEN release(w, "pipe", "READ", w.susp) ELSE w, n)
        ELSE IF n > PIPE_BUF /\ v.wr < PIPE_BUF
             THEN Ret(release(w, "pipe", "READ", w.susp), PIPE_BUF - v.wr)
        ELSE Ret(w, wait)
      BY <1>6 DEF Xpipe_check, wait
    <2> HIDE DEF c
    <2>2. Good(c.w) /\ c.r \in Int /\ Free(c.r)
      <3>0. Good(release(w, "pipe", "READ", w.susp)) BY <1>2
      <3>1. CASE find_filp(w, "pipe", "R") = {}
        <4>1. c = Ret(w, EPIPE) BY <2>1, <3>1
        <4>2. c.w = w /\ c.r = -32 BY <4>1 DEF Ret, EPIPE
        <4> QED BY <1>1, <4>2
      <3>2. CASE find_filp(w, "pipe", "R") # {} /\ v.wr + n <= PIPE_BUF
        <4>1. c = Ret(IF v.wr = 0 THEN release(w, "pipe", "READ", w.susp) ELSE w, n) BY <2>1, <3>2
        <4>2. c.w = (IF v.wr = 0 THEN release(w, "pipe", "READ", w.susp) ELSE w) /\ c.r = n
          BY <4>1 DEF Ret
        <4> QED BY <1>1, <1>3, <1>6, <3>0, <3>2, <4>2
      <3>3. CASE find_filp(w, "pipe", "R") # {} /\ ~(v.wr + n <= PIPE_BUF) /\ n > PIPE_BUF /\ v.wr < PIPE_BUF
        <4>1. c = Ret(release(w, "pipe", "READ", w.susp), PIPE_BUF - v.wr) BY <2>1, <3>3
        <4>2. c.w = release(w, "pipe", "READ", w.susp) /\ c.r = PIPE_BUF - v.wr BY <4>1 DEF Ret
        <4> QED BY <1>3, <1>6, <3>0, <3>3, <4>2
      <3>4. CASE find_filp(w, "pipe", "R") # {} /\ ~(v.wr + n <= PIPE_BUF) /\ ~(n > PIPE_BUF /\ v.wr < PIPE_BUF)
        <4>1. c = Ret(w, wait) BY <2>1, <3>4
        <4>2. c.w = w /\ c.r = wait BY <4>1 DEF Ret
        <4> QED BY <1>1, <1>4, <4>2
      <3> QED BY <3>1, <3>2, <3>3, <3>4
    <2> QED BY <2>2 DEF c, Good, Checked
  <1> QED BY <1>5, <1>6

(* The positions of the pipe stay within it. *)
LEMMA MovedOK ==
    ASSUME NEW v \in Pipes, NEW call \in {"READ", "WRITE"}, NEW size \in Nat,
           call = "WRITE" => v.wr + size <= PIPE_BUF
    PROVE  Moved(v, call, size) \in Pipes
  <1>1. /\ v.rd \in Nat /\ v.wr \in Nat /\ v.size \in Nat /\ v.wr <= PIPE_BUF /\ PIPE_BUF \in Nat
        /\ v.rd <= PIPE_BUF /\ v.size <= PIPE_BUF /\ DOMAIN v = {"size", "rd", "wr"}
        /\ v = [size |-> v.size, rd |-> v.rd, wr |-> v.wr]
    BY Constants DEF Pipes
  <1>2. CASE call = "WRITE"
    <2> DEFINE S == {v.size, v.wr + size}
               m == Max(S)
    <2>1. m \in S
      <3>1. \E k \in S : \A y \in S : k >= y BY <1>1
      <3> QED BY <3>1 DEF Max
    <2>2. m \in 0 .. PIPE_BUF BY <1>1, <1>2, <2>1
    <2> HIDE DEF m
    <2>3. Moved(v, call, size) = [v EXCEPT !.wr = @ + size, !.size = m]
      BY <1>2 DEF Moved, m
    <2>4. v.wr + size \in 0 .. PIPE_BUF BY <1>1, <1>2
    <2>5. ASSUME NEW a \in 0 .. PIPE_BUF, NEW b \in 0 .. PIPE_BUF
          PROVE  [v EXCEPT !.wr = a, !.size = b] \in Pipes
      BY DEF Pipes
    <2> QED BY <2>2, <2>3, <2>4, <2>5
  <1>3. CASE call = "READ" /\ v.rd + size >= v.size
    BY <1>1, <1>3 DEF Moved, EmptyPipe, Pipes
  <1>4. CASE call = "READ" /\ ~(v.rd + size >= v.size)
    <2>1. Moved(v, call, size) = [v EXCEPT !.rd = @ + size] BY <1>4 DEF Moved
    <2> QED BY <1>1, <1>4, <2>1 DEF Pipes
  <1> QED BY <1>2, <1>3, <1>4

LEMMA RwPipeOK ==
    ASSUME NEW w, WorldOK(w), NEW p \in Proc, w.fproc[p].used, w.fproc[p].blocked_on = "NONE",
           NEW call \in {"READ", "WRITE"}, NEW fd \in Fd, w.fproc[p].filp[fd] # NIL,
           NEW n \in Nat, NEW ok
    PROVE  WorldOK(rw_pipe(w, p, call, fd, n, ok).w)
  <1> DEFINE nonblock == w.filp[w.fproc[p].filp[fd]].nonblock
             c == Xpipe_check(w, call, nonblock, n)
             size == IF call = "READ" THEN Min({c.r, w.vnode.size - w.vnode.rd}) ELSE c.r
             w1 == [c.w EXCEPT !.vnode = Moved(@, call, size)]
             cum_io == w.fproc[p].partial + size
             r == rw_pipe(w, p, call, fd, n, ok)
  <1>1. r = IF c.r <= 0
        THEN Ret(IF c.r = SUSPEND THEN pipe_suspend(c.w, p, call, fd, n) ELSE c.w, c.r)
        ELSE IF ~ok THEN Ret(c.w, EIO)
        ELSE IF c.r < n /\ ~nonblock
        THEN Ret([pipe_suspend(w1, p, call, fd, n - size) EXCEPT
                     !.fproc[p].partial = cum_io], SUSPEND)
        ELSE Ret([w1 EXCEPT !.fproc[p].partial = 0], cum_io)
    BY DEF rw_pipe
  <1> HIDE DEF r
  <1> HIDE DEF nonblock
  <1>0. Checked(c, w, p, call, n) BY PipeCheckOK
  <1>2. /\ WorldOK(c.w) /\ c.w.fproc[p] = w.fproc[p] /\ c.w.vnode = w.vnode
        /\ c.r \in Int
        /\ c.r > 0 => IF call = "READ" THEN c.r = n /\ w.vnode.rd < w.vnode.size
                      ELSE c.r <= n /\ w.vnode.wr + c.r <= PIPE_BUF
    BY <1>0 DEF Checked
  <1> HIDE DEF c
  <1> SUFFICES WorldOK(r.w) BY DEF r
  <1>3. CASE c.r <= 0
    <2>1. WorldOK(pipe_suspend(c.w, p, call, fd, n)) BY <1>2, PipeSuspendOK
    <2> QED BY <1>1, <1>2, <1>3, <2>1 DEF Ret
  <1>4. CASE c.r > 0
    <2>1. w.vnode \in Pipes /\ w.fproc[p] \in ProcEntries BY DEF WorldOK, Typed
    <2>2. /\ w.vnode.rd \in Nat /\ w.vnode.wr \in Nat /\ w.vnode.size \in Nat
          /\ w.fproc[p].partial \in Nat
      BY <2>1, Constants DEF Pipes, ProcEntries
    <2>3. size \in Nat
      <3>1. CASE call = "READ"
        <4> DEFINE S == {c.r, w.vnode.size - w.vnode.rd}
        <4>1. S \subseteq Nat /\ S # {} BY <1>2, <1>4, <2>2, <3>1
        <4>2. Min(S) \in Nat BY <4>1, MinIs
        <4> QED BY <3>1, <4>2
      <3> QED BY <1>2, <1>4, <3>1
    <2>4. Moved(w.vnode, call, size) \in Pipes
      <3>1. call = "WRITE" => w.vnode.wr + size <= PIPE_BUF BY <1>2, <1>4
      <3> HIDE DEF size
      <3> QED BY <2>1, <2>3, <3>1, MovedOK
    <2>5. c.r < n => n - size \in Nat
      BY <1>2, <1>4
    <2> HIDE DEF size
    <2>6. IsWorld(c.w) /\ c.w.fproc \in [Proc -> ProcEntries] /\ c.w.panic \in {"", "partial"}
      BY <1>2 DEF WorldOK, Typed
    <2>7. /\ IsWorld(w1) /\ w1.fproc = c.w.fproc /\ w1.susp = c.w.susp /\ w1.rev = c.w.rev
          /\ w1.filp = c.w.filp /\ w1.panic = c.w.panic /\ w1.vnode = Moved(w.vnode, call, size)
      BY <1>2, <2>6 DEF IsWorld
    <2> HIDE DEF w1
    <2>8. WorldOK(w1) /\ w1.fproc[p] = w.fproc[p] BY <1>2, <2>4, <2>6, <2>7, CountsKept
    <2>9. cum_io \in Nat BY <2>2, <2>3
    <2> HIDE DEF cum_io
    <2>10. CASE ~ok BY <1>1, <1>2, <1>4, <2>10 DEF Ret
    <2>11. CASE ok /\ c.r < n /\ ~nonblock
      <3> DEFINE y == pipe_suspend(w1, p, call, fd, n - size)
      <3>1. WorldOK(y) /\ y.fproc[p].used BY <2>5, <2>8, <2>11, PipeSuspendOK
      <3> HIDE DEF y
      <3>2. WorldOK([y EXCEPT !.fproc[p].partial = cum_io]) BY <2>9, <3>1, PartialOK
      <3>3. r.w = [y EXCEPT !.fproc[p].partial = cum_io] BY <1>1, <1>2, <1>4, <2>11 DEF Ret, y
      <3> QED BY <3>2, <3>3
    <2>12. CASE ok /\ ~(c.r < n /\ ~nonblock)
      <3>1. WorldOK([w1 EXCEPT !.fproc[p].partial = 0]) BY <2>8, PartialOK
      <3>2. r.w = [w1 EXCEPT !.fproc[p].partial = 0] BY <1>1, <1>2, <1>4, <2>12 DEF Ret
      <3> QED BY <3>1, <3>2
    <2> QED BY <2>10, <2>11, <2>12
  <1> QED BY <1>2, <1>3, <1>4

LEMMA ReadWriteOK ==
    ASSUME NEW w, WorldOK(w), NEW p \in Proc, w.fproc[p].used, w.fproc[p].blocked_on = "NONE",
           NEW call \in {"READ", "WRITE"}, NEW fd \in Fd, w.fproc[p].filp[fd] # NIL,
           NEW n \in Nat, NEW ok
    PROVE  WorldOK(read_write(w, p, call, fd, n, ok).w)
  <1>1. CASE w.fproc[p].partial # 0
    <2> DEFINE x == [w EXCEPT !.panic = "partial"]
    <2>1. IsWorld(w) /\ w.vnode \in Pipes BY DEF WorldOK, Typed
    <2>2. /\ IsWorld(x) /\ x.fproc = w.fproc /\ x.susp = w.susp /\ x.rev = w.rev
          /\ x.filp = w.filp /\ x.vnode = w.vnode /\ x.panic = "partial"
      BY <2>1 DEF IsWorld
    <2> HIDE DEF x
    <2>3. WorldOK(x) BY <2>1, <2>2, CountsKept
    <2> QED BY <1>1, <2>3 DEF read_write, Ret, x
  <1>2. CASE w.fproc[p].partial = 0
    BY <1>2, RwPipeOK DEF read_write
  <1> QED BY <1>1, <1>2

-----------------------------------------------------------------------------
(* Descriptors: one of p, d, refers to g instead. *)
RefN(v, f) == IF v = f THEN 1 ELSE 0

LEMMA Pair == ASSUME NEW A, NEW B, NEW y \in A \X B
              PROVE  y[1] \in A /\ y[2] \in B /\ y = <<y[1], y[2]>>
  OBVIOUS

Directed(t, u, p, d, g) ==
    /\ t[p].used /\ u[p].used /\ u[p].filp[d] = g
    /\ \A a \in Fd : a # d => u[p].filp[a] = t[p].filp[a]
    /\ \A q \in Proc : q # p => u[q] = t[q]

Recounted(t, u, p, d, g) ==
    \A f \in Filp :
        Cardinality(Refs(u, f)) = Cardinality(Refs(t, f)) - RefN(t[p].filp[d], f) + RefN(g, f)

LEMMA RefsStep ==
    ASSUME NEW t, NEW u, NEW p \in Proc, NEW d \in Fd, NEW g, Directed(t, u, p, d, g)
    PROVE  Recounted(t, u, p, d, g)
  <1> SUFFICES ASSUME NEW f \in Filp
               PROVE  Cardinality(Refs(u, f)) = Cardinality(Refs(t, f)) - RefN(t[p].filp[d], f) + RefN(g, f)
    BY DEF Recounted
  <1> DEFINE R == Refs(t, f)
             S == Refs(u, f)
             b == <<p, d>>
  <1>1. R \in SUBSET (Proc \X Fd) /\ S \in SUBSET (Proc \X Fd) /\ b \in Proc \X Fd BY DEF Refs
  <1>2. IsFiniteSet(R) BY <1>1, Countable
  <1>3. b \in R <=> t[p].filp[d] = f BY DEF Refs, Directed
  <1>4. One(b \in R) = RefN(t[p].filp[d], f) BY <1>3 DEF One, RefN
  <1>6. b \in S <=> g = f BY DEF Refs, Directed
  <1>7. ASSUME NEW q \in Proc, NEW a \in Fd, q # p \/ a # d
        PROVE  <<q, a>> \in S <=> <<q, a>> \in R
    <2>1. <<q, a>> \in S <=> u[q].used /\ u[q].filp[a] = f BY DEF Refs
    <2>2. <<q, a>> \in R <=> t[q].used /\ t[q].filp[a] = f BY DEF Refs
    <2> HIDE DEF R, S
    <2>3. CASE q = p BY <1>7, <2>1, <2>2, <2>3 DEF Directed
    <2>4. CASE q # p BY <2>1, <2>2, <2>4 DEF Directed
    <2> QED BY <2>3, <2>4
  <1>8. ASSUME NEW y \in Proc \X Fd, y # b PROVE y \in S <=> y \in R
    <2> HIDE DEF R, S
    <2>1. y[1] \in Proc /\ y[2] \in Fd /\ y = <<y[1], y[2]>> BY Pair
    <2>2. y[1] # p \/ y[2] # d BY <1>8, <2>1
    <2>3. <<y[1], y[2]>> \in S <=> <<y[1], y[2]>> \in R BY <1>7, <2>1, <2>2
    <2> QED BY <2>1, <2>3
  <1> HIDE DEF R, S, b
  <1>9. CASE g = f
    <2>1. S = R \cup {b} BY <1>1, <1>6, <1>8, <1>9
    <2>2. RefN(g, f) = 1 BY <1>9 DEF RefN
    <2>3. Cardinality(R \cup {b}) = Cardinality(R) - One(b \in R) + 1 BY <1>2, Recount
    <2> QED BY <1>4, <2>1, <2>2, <2>3 DEF R, S
  <1>10. CASE g # f
    <2>1. S = R \ {b} BY <1>1, <1>6, <1>8, <1>10
    <2>2. RefN(g, f) = 0 BY <1>10 DEF RefN
    <2>3. Cardinality(R \ {b}) = Cardinality(R) - One(b \in R) + 0 BY <1>2, Recount
    <2> QED BY <1>4, <2>1, <2>2, <2>3 DEF R, S
  <1> QED BY <1>9, <1>10

(* The new entry of p is e. *)
Redirected(x, w, p, d, g, e) ==
    /\ w.fproc[p].used /\ e \in ProcEntries /\ EntryOK(e) /\ e.used
    /\ e.filp = [w.fproc[p].filp EXCEPT ![d] = g]
    /\ Waits(e) <=> Waits(w.fproc[p])
    /\ Marks(e) <=> Marks(w.fproc[p])
    /\ IsWorld(x) /\ x.fproc = [w.fproc EXCEPT ![p] = e] /\ x.susp = w.susp /\ x.rev = w.rev
    /\ x.filp \in [Filp -> FilpEntries] /\ x.vnode \in Pipes /\ x.panic \in {"", "partial"}
    /\ \A f \in Filp : x.filp[f].count = w.filp[f].count - RefN(w.fproc[p].filp[d], f) + RefN(g, f)

LEMMA DescriptorStep ==
    ASSUME NEW w, WorldOK(w), NEW p \in Proc, NEW d \in Fd, NEW g \in Filp \cup {NIL},
           NEW e, NEW x, Redirected(x, w, p, d, g, e)
    PROVE  WorldOK(x)
  <1> USE DEF Redirected
  <1> DEFINE t == w.fproc
             u == x.fproc
  <1>1. t \in [Proc -> ProcEntries] /\ IsWorld(w) /\ \A q \in Proc : EntryOK(t[q])
    BY DEF WorldOK, Typed
  <1>2. u[p] = e /\ \A q \in Proc : q # p => u[q] = t[q] BY <1>1
  <1>3. u \in [Proc -> ProcEntries] /\ \A q \in Proc : EntryOK(u[q])
    BY <1>1, <1>2
  <1>4. w.susp = Cardinality(Waiting(t)) /\ w.rev = Cardinality(Marked(t)) /\ Referred(w)
    BY DEF WorldOK, Tallied
  <1>5. t[p].used /\ t[p].filp \in [Fd -> Filp \cup {NIL}] BY <1>1 DEF ProcEntries
  <1>6. u[p].used /\ u[p].filp = [t[p].filp EXCEPT ![d] = g] BY <1>2
  <1> HIDE DEF t, u
  <1>7. Waiting(u) = Waiting(t) /\ Marked(u) = Marked(t)
    <2>1. (Waits(u[p]) <=> Waits(t[p])) /\ (Marks(u[p]) <=> Marks(t[p])) BY <1>2 DEF t
    <2>2. \A q \in Proc : q \in Waiting(u) <=> u[q].used /\ Waits(u[q]) BY DEF Waiting, Waits
    <2>3. \A q \in Proc : q \in Waiting(t) <=> t[q].used /\ Waits(t[q]) BY DEF Waiting, Waits
    <2>4. \A q \in Proc : q \in Marked(u) <=> Marks(u[q]) BY DEF Marked, Marks
    <2>5. \A q \in Proc : q \in Marked(t) <=> Marks(t[q]) BY DEF Marked, Marks
    <2>6. \A q \in Proc : (q \in Waiting(u) <=> q \in Waiting(t)) /\ (q \in Marked(u) <=> q \in Marked(t))
      BY <1>2, <1>5, <1>6, <2>1, <2>2, <2>3, <2>4, <2>5
    <2>7. /\ Waiting(u) \subseteq Proc /\ Waiting(t) \subseteq Proc
          /\ Marked(u) \subseteq Proc /\ Marked(t) \subseteq Proc
      BY DEF Waiting, Marked
    <2> QED BY <2>6, <2>7
  <1>8. Recounted(t, u, p, d, g)
    <2>1. u[p].filp[d] = g /\ \A a \in Fd : a # d => u[p].filp[a] = t[p].filp[a] BY <1>5, <1>6
    <2>2. Directed(t, u, p, d, g) BY <1>2, <1>5, <1>6, <2>1 DEF Directed
    <2> QED BY <2>2, RefsStep
  <1>9. Referred(x)
    <2> SUFFICES ASSUME NEW f \in Filp PROVE x.filp[f].count = Cardinality(Refs(u, f))
      BY DEF Referred, u
    <2>1. w.filp[f].count = Cardinality(Refs(t, f)) BY <1>4 DEF Referred, t
    <2> QED BY <1>8, <2>1 DEF t, Recounted
  <1> QED BY <1>3, <1>4, <1>7, <1>9 DEF WorldOK, Typed, Tallied, t, u

-----------------------------------------------------------------------------
(* Opening.                                                                *)

(* Descriptor d of p refers to filp f, which was free. *)
Claimed(x, w, p, d, f) ==
    /\ WorldOK(x) /\ x.fproc[p].used /\ x.fproc[p].blocked_on = "NONE"
    /\ x.fproc[p].filp[d] = f /\ \A a \in Fd : a # d => x.fproc[p].filp[a] = w.fproc[p].filp[a]
    /\ x.filp[f].count = 1 /\ \A g \in Filp : g # f => x.filp[g] = w.filp[g]

LEMMA ClaimOK ==
    ASSUME NEW w, WorldOK(w), NEW p \in Proc, w.fproc[p].used, w.fproc[p].blocked_on = "NONE",
           NEW d \in FreeFds(w, p), NEW f \in FreeFilps(w), NEW v \in {"pipe", "file"},
           NEW mode \in SUBSET {"R", "W"}, NEW nonblock \in BOOLEAN
    PROVE  Claimed(Claim(w, p, d, f, v, mode, nonblock), w, p, d, f)
  <1> DEFINE new == [count |-> 1, vno |-> v, mode |-> mode, nonblock |-> nonblock]
             h == [w.fproc[p].filp EXCEPT ![d] = f]
             e == [w.fproc[p] EXCEPT !.filp = h]
             x == Claim(w, p, d, f, v, mode, nonblock)
  <1>1. /\ IsWorld(w) /\ w.fproc \in [Proc -> ProcEntries] /\ w.filp \in [Filp -> FilpEntries]
        /\ w.fproc[p] \in ProcEntries /\ EntryOK(w.fproc[p]) /\ w.vnode \in Pipes
        /\ w.panic \in {"", "partial"}
    BY DEF WorldOK, Typed
  <1>2. d \in Fd /\ w.fproc[p].filp[d] = NIL /\ f \in Filp /\ w.filp[f].count = 0
    BY DEF FreeFds, FreeFilps
  <1>3. new \in FilpEntries /\ new.count = 1 BY DEF FilpEntries
  <1> HIDE DEF new
  <1>4. x = [w EXCEPT !.fproc[p].filp[d] = f, !.filp[f] = new] BY DEF Claim, new
  <1> HIDE DEF x
  <1>5. x.fproc = [w.fproc EXCEPT ![p] = e] /\ x.filp = [w.filp EXCEPT ![f] = new]
    BY <1>1, <1>2, <1>4 DEF IsWorld, ProcEntries
  <1>6. /\ IsWorld(x) /\ x.susp = w.susp /\ x.rev = w.rev /\ x.vnode = w.vnode /\ x.panic = w.panic
    BY <1>1, <1>4 DEF IsWorld
  <1>7. w.fproc[p].filp \in [Fd -> Filp \cup {NIL}] BY <1>1 DEF ProcEntries
  <1>8. h \in [Fd -> Filp \cup {NIL}] /\ h[d] = f /\ \A a \in Fd : a # d => h[a] = w.fproc[p].filp[a]
    BY <1>2, <1>7
  <1>9. h = [w.fproc[p].filp EXCEPT ![d] = f] OBVIOUS
  <1> HIDE DEF h
  <1>10. /\ e \in ProcEntries /\ e.used /\ e.filp = h /\ e.blocked_on = "NONE"
         /\ (e.revived <=> w.fproc[p].revived)
    BY <1>1, <1>8 DEF ProcEntries
  <1> HIDE DEF e
  <1>11. EntryOK(e) BY <1>1, <1>10 DEF EntryOK
  <1>12. (Waits(e) <=> Waits(w.fproc[p])) /\ (Marks(e) <=> Marks(w.fproc[p]))
    BY <1>10 DEF Waits, Marks
  <1>13. x.filp \in [Filp -> FilpEntries] /\ x.filp[f] = new /\ \A g \in Filp : g # f => x.filp[g] = w.filp[g]
    BY <1>1, <1>2, <1>3, <1>5
  <1>14. \A g \in Filp : x.filp[g].count = w.filp[g].count - RefN(w.fproc[p].filp[d], g) + RefN(f, g)
    <2> TAKE g \in Filp
    <2>1. RefN(w.fproc[p].filp[d], g) = 0 BY <1>2, Constants DEF RefN
    <2>2. w.filp[g].count \in Nat BY <1>1 DEF FilpEntries
    <2>3. CASE g = f
      <3>1. RefN(f, g) = 1 /\ x.filp[g].count = 1 /\ w.filp[g].count = 0 BY <1>2, <1>3, <1>13, <2>3 DEF RefN
      <3> QED BY <2>1, <3>1
    <2>4. CASE g # f
      <3>1. RefN(f, g) = 0 /\ x.filp[g] = w.filp[g] BY <1>13, <2>4 DEF RefN
      <3> QED BY <2>1, <2>2, <3>1
    <2> QED BY <2>3, <2>4
  <1>15. WorldOK(x)
    <2>1. x.vnode \in Pipes /\ x.panic \in {"", "partial"} /\ f \in Filp \cup {NIL} BY <1>1, <1>2, <1>6
    <2>2. e.filp = [w.fproc[p].filp EXCEPT ![d] = f] BY <1>9, <1>10
    <2>3. Redirected(x, w, p, d, f, e)
      BY <1>5, <1>6, <1>10, <1>11, <1>12, <1>13, <1>14, <2>1, <2>2 DEF Redirected
    <2> QED BY <1>2, <2>1, <2>3, DescriptorStep
  <1>16. x.fproc[p] = e BY <1>1, <1>5
  <1>17. Claimed(x, w, p, d, f) BY <1>3, <1>8, <1>10, <1>13, <1>15, <1>16 DEF Claimed
  <1> QED BY <1>17 DEF x

(* The least two of a set. *)
LEMMA TwoLeast ==
    ASSUME NEW S, S \subseteq Nat, IsFiniteSet(S), Cardinality(S) >= 2
    PROVE  Min(S) \in S /\ Min(S \ {Min(S)}) \in S \ {Min(S)}
  <1>1. S # {} BY FS_EmptySet
  <1>2. Min(S) \in S BY <1>1, MinIs
  <1>3. S \ {Min(S)} # {}
    <2> SUFFICES ASSUME S = {Min(S)} PROVE FALSE BY <1>2
    <2>1. Cardinality(S) = 1 BY FS_Singleton
    <2> QED BY <2>1
  <1>4. S \ {Min(S)} \subseteq Nat OBVIOUS
  <1> QED BY <1>2, <1>3, <1>4, MinIs

(* A pipe that nobody has open is empty. *)
LEMMA EmptiedOK ==
    ASSUME NEW w, WorldOK(w)
    PROVE  LET x == [w EXCEPT !.vnode = EmptyPipe]
           IN  WorldOK(x) /\ x.fproc = w.fproc /\ x.filp = w.filp
  <1> DEFINE x == [w EXCEPT !.vnode = EmptyPipe]
  <1>1. IsWorld(w) /\ w.panic \in {"", "partial"} BY DEF WorldOK, Typed
  <1>2. EmptyPipe \in Pipes BY Constants DEF EmptyPipe, Pipes
  <1>3. /\ IsWorld(x) /\ x.fproc = w.fproc /\ x.susp = w.susp /\ x.rev = w.rev
        /\ x.filp = w.filp /\ x.vnode = EmptyPipe /\ x.panic = w.panic
    BY <1>1 DEF IsWorld
  <1> HIDE DEF x
  <1>4. WorldOK(x) BY <1>1, <1>2, <1>3, CountsKept
  <1> QED BY <1>3, <1>4 DEF x

LEMMA DoPipeOK ==
    ASSUME NEW w, WorldOK(w), NEW p \in Proc, w.fproc[p].used, w.fproc[p].blocked_on = "NONE",
           Cardinality(FreeFds(w, p)) >= 2, Cardinality(FreeFilps(w)) >= 2
    PROVE  WorldOK(do_pipe(w, p))
  <1> DEFINE d0 == Min(FreeFds(w, p))
             d1 == Min(FreeFds(w, p) \ {d0})
             f0 == Min(FreeFilps(w))
             f1 == Min(FreeFilps(w) \ {f0})
             x == [w EXCEPT !.vnode = EmptyPipe]
             y == Claim(x, p, d0, f0, "pipe", {"R"}, FALSE)
             z == Claim(y, p, d1, f1, "pipe", {"W"}, FALSE)
  <1>1. do_pipe(w, p) = z BY DEF do_pipe
  <1>2. d0 \in FreeFds(w, p) /\ d1 \in FreeFds(w, p) \ {d0}
    <2>1. FreeFds(w, p) \in SUBSET Fd BY DEF FreeFds
    <2>2. FreeFds(w, p) \subseteq Nat /\ IsFiniteSet(FreeFds(w, p)) BY <2>1, Constants, Countable
    <2> QED BY <2>2, TwoLeast
  <1>3. f0 \in FreeFilps(w) /\ f1 \in FreeFilps(w) \ {f0}
    <2>1. FreeFilps(w) \in SUBSET Filp BY DEF FreeFilps
    <2>2. IsFiniteSet(Filp) BY Constants, FS_Interval DEF Filp
    <2>3. FreeFilps(w) \subseteq Nat /\ IsFiniteSet(FreeFilps(w)) BY <2>1, <2>2, Constants, FS_Subset
    <2> QED BY <2>3, TwoLeast
  <1> HIDE DEF d0, d1, f0, f1
  <1>4. WorldOK(x) /\ x.fproc = w.fproc /\ x.filp = w.filp BY EmptiedOK
  <1> HIDE DEF x
  <1>5. d0 \in FreeFds(x, p) /\ f0 \in FreeFilps(x) BY <1>2, <1>3, <1>4 DEF FreeFds, FreeFilps
  <1>6. Claimed(y, x, p, d0, f0)
    <2>1. x.fproc[p].used /\ x.fproc[p].blocked_on = "NONE" BY <1>4
    <2> QED BY <1>4, <1>5, <2>1, ClaimOK
  <1> HIDE DEF y
  <1>7. d1 \in FreeFds(y, p) /\ f1 \in FreeFilps(y)
    BY <1>2, <1>3, <1>4, <1>6 DEF FreeFds, FreeFilps, Claimed
  <1>8. WorldOK(y) /\ y.fproc[p].used /\ y.fproc[p].blocked_on = "NONE" BY <1>6 DEF Claimed
  <1>9. Claimed(z, y, p, d1, f1) BY <1>7, <1>8, ClaimOK
  <1> HIDE DEF z
  <1> QED BY <1>1, <1>9 DEF Claimed

(* pipe_open() changes no descriptor and no open file. *)
Opened(x, w) == WorldOK(x) /\ x.filp = w.filp /\ SameFds(x, w)

LEMMA PipeOpenOK ==
    ASSUME NEW w, WorldOK(w), NEW p \in Proc, w.fproc[p].used, w.fproc[p].blocked_on = "NONE",
           NEW fd \in Fd, w.fproc[p].filp[fd] # NIL, NEW bits, NEW nonblock
    PROVE  Opened(pipe_open(w, p, fd, bits, nonblock).w, w)
  <1> DEFINE s == [NoCall EXCEPT !.call = "OPEN", !.fd = fd]
             partner == find_filp(w, "pipe", IF "W" \in bits THEN "R" ELSE "W")
             o == pipe_open(w, p, fd, bits, nonblock)
  <1>1. s \in Susps /\ s.call = "OPEN" /\ s.fd = fd BY DEF NoCall, Susps
  <1> HIDE DEF s
  <1>2. Opened(w, w) BY DEF Opened, SameFds
  <1>3. Opened(release(w, "pipe", "OPEN", w.susp), w)
    <2> DEFINE x == release(w, "pipe", "OPEN", w.susp)
    <2>1. WorldOK(x) /\ SameFiles(x, w) /\ SameFds(x, w) BY ReleaseOK
    <2> HIDE DEF x
    <2>2. Opened(x, w) BY <2>1 DEF Opened, SameFiles
    <2> QED BY <2>2 DEF x
  <1>4. Opened(suspend(w, p, "POPEN", s), w)
    <2> DEFINE x == suspend(w, p, "POPEN", s)
    <2>1. w.fproc[p].filp[s.fd] # NIL BY <1>1
    <2>2. /\ WorldOK(x) /\ x.filp = w.filp
          /\ \A q \in Proc : x.fproc[q].used = w.fproc[q].used /\ x.fproc[q].filp = w.fproc[q].filp
      BY <1>1, <2>1, SuspendOK
    <2> HIDE DEF x
    <2>3. Opened(x, w) BY <2>2 DEF Opened, SameFds
    <2> QED BY <2>3 DEF x
  <1>5. o = IF bits = {"R", "W"} THEN Ret(w, ENXIO)
        ELSE IF partner # {} THEN Ret(release(w, "pipe", "OPEN", w.susp), 0)
        ELSE IF ~nonblock THEN Ret(suspend(w, p, "POPEN", s), SUSPEND)
        ELSE Ret(w, IF "W" \in bits THEN ENXIO ELSE 0)
    BY DEF pipe_open, s
  <1> HIDE DEF o, partner
  <1>6. o.w = w \/ o.w = release(w, "pipe", "OPEN", w.susp) \/ o.w = suspend(w, p, "POPEN", s)
    BY <1>5 DEF Ret
  <1>7. Opened(o.w, w) BY <1>2, <1>3, <1>4, <1>6
  <1> QED BY <1>7 DEF o

(* A descriptor that refers to a filp of its own takes the one that is shared. *)
LEMMA SharedOK ==
    ASSUME NEW w, WorldOK(w), NEW p \in Proc, w.fproc[p].used, NEW d \in Fd, NEW f \in Filp,
           w.fproc[p].filp[d] = f, w.filp[f].count = 1, NEW m \in Filp, m # f, NEW nonblock \in BOOLEAN
    PROVE  WorldOK([w EXCEPT !.filp[f] = FreeFilp, !.fproc[p].filp[d] = m,
                             !.filp[m].count = @ + 1, !.filp[m].nonblock = nonblock])
  <1> DEFINE new == [w.filp[m] EXCEPT !.count = @ + 1, !.nonblock = nonblock]
             h == [w.fproc[p].filp EXCEPT ![d] = m]
             e == [w.fproc[p] EXCEPT !.filp = h]
             x == [w EXCEPT !.filp[f] = FreeFilp, !.fproc[p].filp[d] = m,
                            !.filp[m].count = @ + 1, !.filp[m].nonblock = nonblock]
  <1>1. /\ IsWorld(w) /\ w.fproc \in [Proc -> ProcEntries] /\ w.filp \in [Filp -> FilpEntries]
        /\ w.fproc[p] \in ProcEntries /\ EntryOK(w.fproc[p]) /\ w.vnode \in Pipes
        /\ w.panic \in {"", "partial"}
    BY DEF WorldOK, Typed
  <1>2. w.filp[m] \in FilpEntries /\ w.filp[m].count \in Nat BY <1>1 DEF FilpEntries
  <1>3. new \in FilpEntries /\ new.count = w.filp[m].count + 1
    <2>1. ASSUME NEW n \in Nat, NEW g \in FilpEntries
          PROVE  LET y == [g EXCEPT !.count = n, !.nonblock = nonblock] IN y \in FilpEntries /\ y.count = n
      BY DEF FilpEntries
    <2>2. w.filp[m].count + 1 \in Nat BY <1>2
    <2>3. new = [w.filp[m] EXCEPT !.count = w.filp[m].count + 1, !.nonblock = nonblock] OBVIOUS
    <2> QED BY <1>2, <2>1, <2>2, <2>3
  <1>4. FreeFilp \in FilpEntries /\ FreeFilp.count = 0 BY DEF FreeFilp, FilpEntries
  <1>5. x.fproc = [w.fproc EXCEPT ![p] = e] /\ x.filp = [w.filp EXCEPT ![f] = FreeFilp, ![m] = new]
    BY <1>1 DEF IsWorld, ProcEntries, FilpEntries
  <1>6. /\ IsWorld(x) /\ x.susp = w.susp /\ x.rev = w.rev /\ x.vnode = w.vnode /\ x.panic = w.panic
    BY <1>1 DEF IsWorld
  <1> HIDE DEF x, new
  <1>7. w.fproc[p].filp \in [Fd -> Filp \cup {NIL}] BY <1>1 DEF ProcEntries
  <1>8. h \in [Fd -> Filp \cup {NIL}] /\ \A a \in Fd : h[a] = w.fproc[p].filp[a] \/ h[a] # NIL
    BY <1>7, Constants
  <1>9. h = [w.fproc[p].filp EXCEPT ![d] = m] OBVIOUS
  <1> HIDE DEF h
  <1>10. /\ e \in ProcEntries /\ e.used /\ e.filp = h /\ e.blocked_on = w.fproc[p].blocked_on
         /\ (e.revived <=> w.fproc[p].revived) /\ e.susp = w.fproc[p].susp
    BY <1>1, <1>8 DEF ProcEntries
  <1> HIDE DEF e
  <1>11. EntryOK(e)
    <2>1. w.fproc[p].susp.fd \in Fd BY <1>1 DEF ProcEntries, Susps
    <2> QED BY <1>1, <1>8, <1>10, <2>1 DEF EntryOK
  <1>12. (Waits(e) <=> Waits(w.fproc[p])) /\ (Marks(e) <=> Marks(w.fproc[p]))
    BY <1>10 DEF Waits, Marks
  <1>13. /\ x.filp \in [Filp -> FilpEntries] /\ x.filp[f] = FreeFilp /\ x.filp[m] = new
         /\ \A g \in Filp : g # f /\ g # m => x.filp[g] = w.filp[g]
    <2>0. w.filp \in [Filp -> FilpEntries] /\ x.filp = [w.filp EXCEPT ![f] = FreeFilp, ![m] = new]
      BY <1>1, <1>5
    <2>1. x.filp = [g \in Filp |-> IF g = m THEN new ELSE IF g = f THEN FreeFilp ELSE w.filp[g]]
      BY <2>0
    <2>2. \A g \in Filp : w.filp[g] \in FilpEntries BY <2>0
    <2> QED BY <1>3, <1>4, <2>1, <2>2
  <1>14. \A g \in Filp : x.filp[g].count = w.filp[g].count - RefN(w.fproc[p].filp[d], g) + RefN(m, g)
    <2> TAKE g \in Filp
    <2>1. w.filp[g].count \in Nat BY <1>1 DEF FilpEntries
    <2>2. CASE g = f
      <3>1. /\ RefN(w.fproc[p].filp[d], g) = 1 /\ RefN(m, g) = 0 /\ x.filp[g].count = 0
            /\ w.filp[g].count = 1
        BY <1>4, <1>13, <2>2 DEF RefN
      <3> QED BY <3>1
    <2>3. CASE g = m
      <3>1. /\ RefN(w.fproc[p].filp[d], g) = 0 /\ RefN(m, g) = 1 /\ x.filp[g].count = w.filp[g].count + 1
        BY <1>3, <1>13, <2>3 DEF RefN
      <3> QED BY <2>1, <3>1
    <2>4. CASE g # f /\ g # m
      <3>1. RefN(w.fproc[p].filp[d], g) = 0 /\ RefN(m, g) = 0 /\ x.filp[g] = w.filp[g]
        BY <1>13, <2>4 DEF RefN
      <3> QED BY <2>1, <3>1
    <2> QED BY <2>2, <2>3, <2>4
  <1>15. WorldOK(x)
    <2>1. x.vnode \in Pipes /\ x.panic \in {"", "partial"} /\ m \in Filp \cup {NIL} BY <1>1, <1>6
    <2>2. e.filp = [w.fproc[p].filp EXCEPT ![d] = m] BY <1>9, <1>10
    <2>3. Redirected(x, w, p, d, m, e)
      BY <1>5, <1>6, <1>10, <1>11, <1>12, <1>13, <1>14, <2>1, <2>2 DEF Redirected
    <2> QED BY <2>1, <2>3, DescriptorStep
  <1> QED BY <1>15 DEF x

LEMMA CommonOpenOK ==
    ASSUME NEW w, WorldOK(w), NEW p \in Proc, w.fproc[p].used, w.fproc[p].blocked_on = "NONE",
           FreeFds(w, p) # {}, FreeFilps(w) # {}, NEW v \in {"pipe", "file"},
           NEW bits \in SUBSET {"R", "W"}, NEW nonblock \in BOOLEAN
    PROVE  WorldOK(common_open(w, p, v, bits, nonblock).w)
  <1> DEFINE d == Min(FreeFds(w, p))
             f == Min(FreeFilps(w))
             w0 == IF v = "pipe" THEN exists_open(w) ELSE w
             w1 == Claim(w0, p, d, f, v, bits, nonblock)
             o == pipe_open(w1, p, d, bits, nonblock)
             shared == find_filp(w0, "pipe", IF "R" \in bits THEN "R" ELSE "W")
             x == [o.w EXCEPT !.filp[f] = FreeFilp, !.fproc[p].filp[d] = Min(shared),
                              !.filp[Min(shared)].count = @ + 1,
                              !.filp[Min(shared)].nonblock = nonblock]
             r == common_open(w, p, v, bits, nonblock)
  <1>1. r = IF v = "file" THEN Ret(w1, d)
            ELSE IF o.r = ENXIO THEN Ret(w0, ENXIO)
            ELSE IF shared = {} THEN o
            ELSE Ret(x, o.r)
    BY DEF common_open
  <1>2. d \in FreeFds(w, p) /\ f \in FreeFilps(w)
    <2>1. FreeFds(w, p) \subseteq Nat /\ FreeFilps(w) \subseteq Nat BY Constants DEF FreeFds, FreeFilps
    <2> QED BY <2>1, MinIs
  <1> HIDE DEF d, f
  <1>3. WorldOK(w0) /\ w0.fproc = w.fproc /\ w0.filp = w.filp
    <2>1. w0 = w \/ w0 = [w EXCEPT !.vnode = EmptyPipe] BY DEF exists_open
    <2> QED BY <2>1, EmptiedOK
  <1> HIDE DEF w0
  <1>4. d \in FreeFds(w0, p) /\ f \in FreeFilps(w0) BY <1>2, <1>3 DEF FreeFds, FreeFilps
  <1>5. Claimed(w1, w0, p, d, f)
    <2>1. w0.fproc[p].used /\ w0.fproc[p].blocked_on = "NONE" BY <1>3
    <2> QED BY <1>3, <1>4, <2>1, ClaimOK
  <1> HIDE DEF w1
  <1>6. d \in Fd /\ f \in Filp /\ w0.filp[f].count = 0 BY <1>4 DEF FreeFds, FreeFilps
  <1>7. /\ WorldOK(w1) /\ w1.fproc[p].used /\ w1.fproc[p].blocked_on = "NONE"
        /\ w1.fproc[p].filp[d] = f /\ f # NIL /\ w1.filp[f].count = 1
    BY <1>5, <1>6, Constants DEF Claimed
  <1>8. Opened(o.w, w1) BY <1>6, <1>7, PipeOpenOK
  <1> HIDE DEF o
  <1>9. /\ WorldOK(o.w) /\ o.w.fproc[p].used /\ o.w.fproc[p].filp[d] = f /\ o.w.filp[f].count = 1
    BY <1>7, <1>8 DEF Opened, SameFds
  <1>10. shared # {} => WorldOK(x)
    <2> SUFFICES ASSUME shared # {} PROVE WorldOK(x) OBVIOUS
    <2>1. shared \subseteq Filp /\ \A g \in shared : w0.filp[g].count > 0 BY DEF find_filp
    <2>2. Min(shared) \in shared BY <2>1, Constants, MinIs
    <2> DEFINE m == Min(shared)
    <2> HIDE DEF shared, m
    <2>3. m \in Filp /\ m # f BY <1>6, <2>1, <2>2 DEF m
    <2>4. WorldOK([o.w EXCEPT !.filp[f] = FreeFilp, !.fproc[p].filp[d] = m,
                              !.filp[m].count = @ + 1, !.filp[m].nonblock = nonblock])
      BY <1>6, <1>9, <2>3, SharedOK
    <2> QED BY <2>4 DEF m
  <1> HIDE DEF x, shared, r
  <1>11. WorldOK(r.w) BY <1>1, <1>3, <1>7, <1>9, <1>10 DEF Ret
  <1> QED BY <1>11 DEF r

-----------------------------------------------------------------------------
(* Closing.                                                                *)

(* Descriptor fd of p is closed, the others are as they were. *)
Closed(x, w, p, fd) ==
    /\ WorldOK(x) /\ x.fproc[p].used /\ x.fproc[p].blocked_on = "NONE"
    /\ x.fproc[p].filp[fd] = NIL /\ \A a \in Fd : a # fd => x.fproc[p].filp[a] = w.fproc[p].filp[a]

(* What is left of an open file when a descriptor is closed. *)
Left(g) == IF g.count = 1 THEN FreeFilp ELSE [g EXCEPT !.count = @ - 1]

LEMMA LeftOK ==
    ASSUME NEW g \in FilpEntries, g.count >= 1
    PROVE  Left(g) \in FilpEntries /\ Left(g).count = g.count - 1
  <1>0. g.count \in Nat BY DEF FilpEntries
  <1>1. CASE g.count = 1
    <2>1. FreeFilp \in FilpEntries /\ FreeFilp.count = 0 BY DEF FreeFilp, FilpEntries
    <2> QED BY <1>1, <2>1 DEF Left
  <1>2. CASE g.count # 1
    <2>1. ASSUME NEW n \in Nat
          PROVE  [g EXCEPT !.count = n] \in FilpEntries /\ [g EXCEPT !.count = n].count = n
      BY DEF FilpEntries
    <2> DEFINE m == g.count - 1
    <2>2. m \in Nat BY <1>0
    <2>3. Left(g) = [g EXCEPT !.count = m] BY <1>2 DEF Left
    <2> HIDE DEF m
    <2>4. Left(g) \in FilpEntries /\ Left(g).count = m BY <2>1, <2>2, <2>3
    <2> QED BY <2>4 DEF m
  <1> QED BY <1>1, <1>2

(* A filp that a descriptor refers to is in use. *)
LEMMA ReferredTo ==
    ASSUME NEW w, WorldOK(w), NEW p \in Proc, w.fproc[p].used, NEW fd \in Fd, w.fproc[p].filp[fd] \in Filp
    PROVE  w.filp[w.fproc[p].filp[fd]].count >= 1
  <1> DEFINE f == w.fproc[p].filp[fd]
             R == Refs(w.fproc, f)
  <1>1. <<p, fd>> \in R /\ R \in SUBSET (Proc \X Fd) BY DEF Refs
  <1>2. w.filp[f].count = Cardinality(R) BY DEF WorldOK, Referred
  <1>3. IsFiniteSet(R) /\ Cardinality(R) \in Nat BY <1>1, Countable
  <1> HIDE DEF R
  <1>4. Cardinality(R) # 0 BY <1>1, <1>3, FS_EmptySet
  <1> QED BY <1>2, <1>3, <1>4

(* Open file f becomes new and descriptor fd of p is closed. *)
Dropping(x, w, p, fd, f, new) == x = [[w EXCEPT !.filp[f] = new] EXCEPT !.fproc[p].filp[fd] = NIL]

LEMMA DropOK ==
    ASSUME NEW w, WorldOK(w), NEW p \in Proc, w.fproc[p].used, w.fproc[p].blocked_on = "NONE",
           NEW fd \in Fd, NEW f \in Filp, w.fproc[p].filp[fd] = f, w.filp[f].count >= 1,
           NEW new \in FilpEntries, new.count = w.filp[f].count - 1,
           NEW x, Dropping(x, w, p, fd, f, new)
    PROVE  Closed(x, w, p, fd)
  <1> DEFINE h == [w.fproc[p].filp EXCEPT ![fd] = NIL]
             e == [w.fproc[p] EXCEPT !.filp = h]
             y == [w EXCEPT !.filp[f] = new]
  <1>1. /\ IsWorld(w) /\ w.fproc \in [Proc -> ProcEntries] /\ w.filp \in [Filp -> FilpEntries]
        /\ w.fproc[p] \in ProcEntries /\ EntryOK(w.fproc[p]) /\ w.vnode \in Pipes
        /\ w.panic \in {"", "partial"}
    BY DEF WorldOK, Typed
  <1>2. w.filp[f] \in FilpEntries /\ w.filp[f].count \in Nat BY <1>1 DEF FilpEntries
  <1>5. /\ IsWorld(y) /\ y.fproc = w.fproc /\ y.filp = [w.filp EXCEPT ![f] = new]
        /\ y.susp = w.susp /\ y.rev = w.rev /\ y.vnode = w.vnode /\ y.panic = w.panic
    BY <1>1 DEF IsWorld
  <1>3. x = [y EXCEPT !.fproc[p].filp[fd] = NIL] BY DEF Dropping
  <1> HIDE DEF y
  <1>6. x.fproc = [w.fproc EXCEPT ![p] = e] BY <1>1, <1>3, <1>5 DEF IsWorld, ProcEntries
  <1>7. /\ IsWorld(x) /\ x.filp = y.filp /\ x.susp = w.susp /\ x.rev = w.rev /\ x.vnode = w.vnode
        /\ x.panic = w.panic
    BY <1>3, <1>5 DEF IsWorld
  <1>8. w.fproc[p].filp \in [Fd -> Filp \cup {NIL}] BY <1>1 DEF ProcEntries
  <1>9. h \in [Fd -> Filp \cup {NIL}] /\ h[fd] = NIL /\ \A a \in Fd : a # fd => h[a] = w.fproc[p].filp[a]
    BY <1>8
  <1>10. h = [w.fproc[p].filp EXCEPT ![fd] = NIL] OBVIOUS
  <1> HIDE DEF h
  <1>11. /\ e \in ProcEntries /\ e.used /\ e.filp = h /\ e.blocked_on = "NONE"
         /\ (e.revived <=> w.fproc[p].revived)
    BY <1>1, <1>9 DEF ProcEntries
  <1> HIDE DEF e
  <1>12. EntryOK(e) BY <1>1, <1>11 DEF EntryOK
  <1>13. (Waits(e) <=> Waits(w.fproc[p])) /\ (Marks(e) <=> Marks(w.fproc[p]))
    BY <1>11 DEF Waits, Marks
  <1>14. /\ x.filp \in [Filp -> FilpEntries] /\ x.filp[f] = new
         /\ \A g \in Filp : g # f => x.filp[g] = w.filp[g]
    <2>1. w.filp \in [Filp -> FilpEntries] /\ x.filp = [w.filp EXCEPT ![f] = new] BY <1>1, <1>5, <1>7
    <2>2. x.filp = [g \in Filp |-> IF g = f THEN new ELSE w.filp[g]] BY <2>1
    <2>3. \A g \in Filp : w.filp[g] \in FilpEntries BY <2>1
    <2> QED BY <2>2, <2>3
  <1>15. \A g \in Filp : x.filp[g].count = w.filp[g].count - RefN(w.fproc[p].filp[fd], g) + RefN(NIL, g)
    <2> TAKE g \in Filp
    <2>1. w.filp[g].count \in Nat BY <1>1 DEF FilpEntries
    <2>2. RefN(NIL, g) = 0 BY Constants DEF RefN
    <2>3. CASE g = f
      <3>1. RefN(w.fproc[p].filp[fd], g) = 1 /\ x.filp[g].count = w.filp[g].count - 1
        BY <1>14, <2>3 DEF RefN
      <3> QED BY <2>1, <2>2, <3>1
    <2>4. CASE g # f
      <3>1. RefN(w.fproc[p].filp[fd], g) = 0 /\ x.filp[g] = w.filp[g]
        BY <1>14, <2>4 DEF RefN
      <3> QED BY <2>1, <2>2, <3>1
    <2> QED BY <2>3, <2>4
  <1>16. WorldOK(x)
    <2>1. x.vnode \in Pipes /\ x.panic \in {"", "partial"} /\ NIL \in Filp \cup {NIL} BY <1>1, <1>7
    <2>2. e.filp = [w.fproc[p].filp EXCEPT ![fd] = NIL] BY <1>10, <1>11
    <2>3. Redirected(x, w, p, fd, NIL, e)
      BY <1>6, <1>7, <1>11, <1>12, <1>13, <1>14, <1>15, <2>1, <2>2 DEF Redirected
    <2> QED BY <2>1, <2>3, DescriptorStep
  <1>17. x.fproc[p] = e BY <1>1, <1>6
  <1> QED BY <1>9, <1>11, <1>16, <1>17 DEF Closed

LEMMA CloseFdOK ==
    ASSUME NEW w, WorldOK(w), NEW p \in Proc, w.fproc[p].used, w.fproc[p].blocked_on = "NONE",
           NEW fd \in Fd
    PROVE  Closed(close_fd(w, p, fd), w, p, fd)
  <1> DEFINE f == w.fproc[p].filp[fd]
             g == w.filp[f]
             k == IF "R" \in g.mode THEN "WRITE" ELSE "READ"
             v == IF g.vno = "pipe" THEN release(w, "pipe", k, Cardinality(Proc)) ELSE w
             y == [v EXCEPT !.filp[f] = Left(g)]
             w1 == [y EXCEPT !.fproc[p].filp[fd] = NIL]
             gone == IF w.filp[f].vno = "file" THEN LocksOf(w, p) ELSE {}
             l == [w1 EXCEPT !.lock = [i \in LockSlot |-> IF i \in gone THEN NIL ELSE @[i]]]
  <1>1. CASE f = NIL
    <2>1. close_fd(w, p, fd) = w BY <1>1 DEF close_fd
    <2>2. Closed(w, w, p, fd) BY <1>1 DEF Closed
    <2> QED BY <2>1, <2>2
  <1>2. CASE f # NIL
    <2>1. close_filp(w, f) = y BY DEF close_filp, Left
    <2>2. close_fd(w, p, fd) = IF gone = {} THEN w1 ELSE lock_revive(l)
      BY <1>2, <2>1 DEF close_fd
    <2>3. f \in Filp
      <3>1. w.fproc[p] \in ProcEntries BY DEF WorldOK, Typed
      <3>2. w.fproc[p].filp \in [Fd -> Filp \cup {NIL}] BY <3>1 DEF ProcEntries
      <3> QED BY <1>2, <3>2
    <2>4. g.count >= 1 BY <2>3, ReferredTo
    <2>5. WorldOK(v) /\ v.filp = w.filp /\ v.fproc[p] = w.fproc[p]
      <3> DEFINE z == release(w, "pipe", k, Cardinality(Proc))
      <3>1. k \in {"READ", "WRITE", "OPEN"} OBVIOUS
      <3> HIDE DEF k
      <3>2. p \notin Hanging(w, "pipe", k) BY DEF Hanging
      <3>3. WorldOK(z) /\ SameFiles(z, w) BY <3>1, ReleaseOK
      <3>6. z.fproc[p] = w.fproc[p] BY <3>1, <3>2, ReleaseOK
      <3> HIDE DEF z
      <3>4. z.fproc[p] = w.fproc[p] /\ z.filp = w.filp BY <3>3, <3>6 DEF SameFiles
      <3>5. v = z \/ v = w BY DEF z
      <3> HIDE DEF v
      <3> QED BY <3>3, <3>4, <3>5
    <2> HIDE DEF v
    <2>6. Closed(w1, v, p, fd)
      <3>1. v.fproc[p].used /\ v.fproc[p].blocked_on = "NONE" /\ v.fproc[p].filp[fd] = f /\ v.filp[f].count >= 1
        BY <2>4, <2>5
      <3> DEFINE new == Left(g)
      <3>2. Dropping(w1, v, p, fd, f, new) BY DEF Dropping
      <3>3. v.filp \in [Filp -> FilpEntries] BY <2>5 DEF WorldOK, Typed
      <3>4. v.filp[f] \in FilpEntries BY <2>3, <3>3
      <3>5. new \in FilpEntries /\ new.count = v.filp[f].count - 1 BY <2>5, <3>1, <3>4, LeftOK
      <3> HIDE DEF y, f, new, w1
      <3> QED BY <2>3, <2>5, <3>1, <3>2, <3>5, DropOK
    <2> HIDE DEF w1, y
    <2>7. Closed(w1, w, p, fd) BY <2>5, <2>6 DEF Closed
    <2>8. Closed(lock_revive(l), w, p, fd)
      <3>1. IsWorld(w1) /\ w1.vnode \in Pipes /\ w1.panic \in {"", "partial"} /\ WorldOK(w1)
        BY <2>7 DEF Closed, WorldOK, Typed
      <3>2. /\ IsWorld(l) /\ l.fproc = w1.fproc /\ l.susp = w1.susp /\ l.rev = w1.rev
            /\ l.filp = w1.filp /\ l.vnode = w1.vnode /\ l.panic = w1.panic
        BY <3>1 DEF IsWorld
      <3> HIDE DEF l
      <3>3. WorldOK(l) BY <3>1, <3>2, CountsKept
      <3> DEFINE z == lock_revive(l)
      <3>4. /\ WorldOK(z)
            /\ \A q \in Proc : l.fproc[q].blocked_on # "LOCK" => z.fproc[q] = l.fproc[q]
        BY <3>3, LockReviveOK
      <3> HIDE DEF z
      <3>5. w1.fproc[p].blocked_on = "NONE" BY <2>7 DEF Closed
      <3>6. z.fproc[p] = w1.fproc[p] BY <3>2, <3>4, <3>5
      <3>7. Closed(z, w, p, fd) BY <2>7, <3>4, <3>6 DEF Closed
      <3> QED BY <3>7 DEF z
    <2> HIDE DEF l, gone
    <2> QED BY <2>2, <2>7, <2>8
  <1> QED BY <1>1, <1>2

(* The slot of a process that waits for nothing and has nothing open is freed. *)
LEMMA SlotFreed ==
    ASSUME NEW w, WorldOK(w), NEW p \in Proc, w.fproc[p].used, w.fproc[p].blocked_on = "NONE",
           \A a \in Fd : w.fproc[p].filp[a] = NIL
    PROVE  WorldOK([w EXCEPT !.fproc[p] = FreeProc])
  <1> DEFINE x == [w EXCEPT !.fproc[p] = FreeProc]
             t == w.fproc
             u == x.fproc
  <1>1. /\ IsWorld(w) /\ t \in [Proc -> ProcEntries] /\ \A q \in Proc : EntryOK(t[q])
        /\ w.filp \in [Filp -> FilpEntries] /\ w.vnode \in Pipes /\ w.panic \in {"", "partial"}
        /\ Tallied(w) /\ Referred(w)
    BY DEF WorldOK, Typed
  <1>2. /\ IsWorld(x) /\ u = [t EXCEPT ![p] = FreeProc] /\ x.filp = w.filp /\ x.vnode = w.vnode
        /\ x.panic = w.panic /\ x.susp = w.susp /\ x.rev = w.rev
    BY <1>1 DEF IsWorld
  <1>3. FreeProc \in ProcEntries /\ EntryOK(FreeProc) /\ ~FreeProc.used
    BY NoCallTyped DEF FreeProc, ProcEntries, EntryOK
  <1>4. ~t[p].revived BY <1>1 DEF EntryOK
  <1>5. t[p].blocked_on = "NONE" /\ \A a \in Fd : t[p].filp[a] = NIL OBVIOUS
  <1> HIDE DEF x, t, u
  <1>6. u[p] = FreeProc /\ \A q \in Proc : q # p => u[q] = t[q] BY <1>1, <1>2
  <1>7. u \in [Proc -> ProcEntries] /\ \A q \in Proc : EntryOK(u[q])
    <2>1. \A q \in Proc : u[q] \in ProcEntries /\ EntryOK(u[q]) BY <1>1, <1>3, <1>6
    <2>2. u = [q \in Proc |-> u[q]] BY <1>1, <1>2
    <2> QED BY <2>1, <2>2
  <1>8. Waiting(u) = Waiting(t) /\ Marked(u) = Marked(t)
    BY <1>3, <1>4, <1>5, <1>6 DEF Waiting, Marked
  <1>9. \A f \in Filp : Refs(u, f) = Refs(t, f)
    <2> TAKE f \in Filp
    <2>1. f # NIL BY Constants
    <2>2. ASSUME NEW y \in Proc \X Fd PROVE y \in Refs(u, f) <=> y \in Refs(t, f)
      <3>1. y[1] \in Proc /\ y[2] \in Fd BY Pair
      <3>2. y \in Refs(u, f) <=> u[y[1]].used /\ u[y[1]].filp[y[2]] = f BY DEF Refs
      <3>3. y \in Refs(t, f) <=> t[y[1]].used /\ t[y[1]].filp[y[2]] = f BY DEF Refs
      <3>4. CASE y[1] = p BY <1>3, <1>5, <1>6, <2>1, <3>1, <3>2, <3>3, <3>4
      <3>5. CASE y[1] # p BY <1>6, <3>1, <3>2, <3>3, <3>5
      <3> QED BY <3>4, <3>5
    <2>3. Refs(u, f) \subseteq Proc \X Fd /\ Refs(t, f) \subseteq Proc \X Fd BY DEF Refs
    <2> QED BY <2>2, <2>3
  <1>10. Tallied(x) /\ Referred(x) BY <1>1, <1>2, <1>8, <1>9 DEF Tallied, Referred, t, u
  <1>11. WorldOK(x) BY <1>1, <1>2, <1>7, <1>10 DEF WorldOK, Typed, u
  <1> QED BY <1>11 DEF x

-----------------------------------------------------------------------------
(* A process ends: its descriptors are closed from 0 on.                   *)

(* A set of numbers that holds 0 and, up to N, the successor of each. *)
LEMMA CountUp ==
    ASSUME NEW N \in Nat, NEW B, 0 \in B, \A n \in 0 .. N - 1 : n \in B => n + 1 \in B
    PROVE  \A n \in 0 .. N : n \in B
  <1> SUFFICES ASSUME NEW k \in 0 .. N, k \notin B PROVE FALSE OBVIOUS
  <1> DEFINE Bad == {n \in 0 .. N : n \notin B}
  <1>1. Bad \subseteq Nat /\ Bad # {} OBVIOUS
  <1>2. PICK m \in Bad : \A y \in Bad : m <= y BY <1>1, LeastExists
  <1>3. m \in Nat /\ m # 0 /\ m <= N BY <1>2
  <1>4. m - 1 \in 0 .. N - 1 /\ m - 1 \notin Bad BY <1>2, <1>3
  <1>5. m - 1 \in B BY <1>3, <1>4
  <1> QED BY <1>2, <1>3, <1>4, <1>5

(* The state after n descriptors, from the states before. *)
ClosedUpto(g, w, p, n) == IF n = 0 THEN unpause(w, p) ELSE close_fd(g[n - 1], p, n - 1)
IsClosing(g, w, p) == g = [n \in 0 .. OPEN_MAX |-> ClosedUpto(g, w, p, n)]

LEMMA ClosingExists ==
    ASSUME NEW w, NEW p
    PROVE  \E g : IsClosing(g, w, p)
  <1> DEFINE Upto(g, n) == \A m \in 0 .. n : g[m] = ClosedUpto(g, w, p, m)
             B == {n \in 0 .. OPEN_MAX : \E g : Upto(g, n)}
  <1>0. OPEN_MAX \in Nat BY Constants
  <1>1. 0 \in B
    <2> DEFINE g == [m \in {0} |-> unpause(w, p)]
    <2>1. \A m \in 0 .. 0 : m = 0 OBVIOUS
    <2>2. g[0] = ClosedUpto(g, w, p, 0) BY DEF ClosedUpto
    <2>3. Upto(g, 0) BY <2>1, <2>2
    <2> QED BY <1>0, <2>3
  <1>2. ASSUME NEW n \in 0 .. OPEN_MAX - 1, n \in B PROVE n + 1 \in B
    <2>1. PICK g : Upto(g, n) BY <1>2
    <2> DEFINE h == [m \in 0 .. n + 1 |-> IF m = n + 1 THEN close_fd(g[n], p, n) ELSE g[m]]
    <2>2. \A m \in 0 .. n : h[m] = g[m] BY <1>0
    <2>3. h[n + 1] = close_fd(g[n], p, n) BY <1>0
    <2>4. ASSUME NEW m \in 0 .. n + 1 PROVE h[m] = ClosedUpto(h, w, p, m)
      <3> HIDE DEF h
      <3>1. CASE m = 0
        <4>1. h[0] = g[0] /\ g[0] = ClosedUpto(g, w, p, 0) BY <1>0, <2>1, <2>2
        <4> QED BY <3>1, <4>1 DEF ClosedUpto
      <3>2. CASE m # 0 /\ m <= n
        <4>1. m \in 0 .. n /\ m - 1 \in 0 .. n BY <1>0, <3>2
        <4>2. h[m] = g[m] /\ h[m - 1] = g[m - 1] /\ g[m] = ClosedUpto(g, w, p, m) BY <2>1, <2>2, <4>1
        <4> QED BY <3>2, <4>2 DEF ClosedUpto
      <3>3. CASE m = n + 1
        <4>1. m # 0 /\ m - 1 = n /\ n \in 0 .. n BY <1>0, <3>3
        <4>2. h[n] = g[n] BY <2>2, <4>1
        <4> QED BY <2>3, <3>3, <4>1, <4>2 DEF ClosedUpto
      <3> QED BY <1>0, <3>1, <3>2, <3>3
    <2> HIDE DEF h
    <2>5. Upto(h, n + 1) BY <2>4
    <2>6. n + 1 \in 0 .. OPEN_MAX BY <1>0
    <2> HIDE DEF Upto
    <2> QED BY <2>5, <2>6
  <1>3. OPEN_MAX \in B
    <2> HIDE DEF B
    <2>1. \A n \in 0 .. OPEN_MAX : n \in B BY <1>0, <1>1, <1>2, CountUp
    <2> QED BY <1>0, <2>1
  <1>4. PICK g : Upto(g, OPEN_MAX) BY <1>3
  <1> DEFINE h == [n \in 0 .. OPEN_MAX |-> g[n]]
  <1>5. \A n \in 0 .. OPEN_MAX : h[n] = ClosedUpto(h, w, p, n)
    <2> TAKE n \in 0 .. OPEN_MAX
    <2>1. h[n] = g[n] /\ g[n] = ClosedUpto(g, w, p, n) BY <1>4
    <2>2. n # 0 => h[n - 1] = g[n - 1] BY <1>0
    <2> QED BY <2>1, <2>2 DEF ClosedUpto
  <1>6. h = [n \in 0 .. OPEN_MAX |-> ClosedUpto(h, w, p, n)] BY <1>5
  <1> QED BY <1>6 DEF IsClosing

LEMMA FreeProcOK ==
    ASSUME NEW w, WorldOK(w), NEW p \in Proc, w.fproc[p].used
    PROVE  WorldOK(free_proc(w, p))
  <1> DEFINE c == CHOOSE g : IsClosing(g, w, p)
             z == c[OPEN_MAX]
             x == [z EXCEPT !.fproc[p] = FreeProc]
  <1>0. OPEN_MAX \in Nat BY Constants
  <1>1. free_proc(w, p) = x BY DEF free_proc, IsClosing, ClosedUpto
  <1>2. IsClosing(c, w, p) BY ClosingExists
  <1> HIDE DEF c
  <1>3. \A n \in 0 .. OPEN_MAX : c[n] = ClosedUpto(c, w, p, n) BY <1>2 DEF IsClosing
  <1> DEFINE Good(n) == /\ WorldOK(c[n]) /\ c[n].fproc[p].used /\ c[n].fproc[p].blocked_on = "NONE"
                        /\ \A a \in Fd : a < n => c[n].fproc[p].filp[a] = NIL
             B == {n \in 0 .. OPEN_MAX : Good(n)}
  <1>4. 0 \in B
    <2>1. c[0] = unpause(w, p) BY <1>0, <1>3 DEF ClosedUpto
    <2>2. WorldOK(c[0]) /\ c[0].fproc[p].used /\ c[0].fproc[p].blocked_on = "NONE" BY <2>1, UnpauseOK
    <2>3. \A a \in Fd : ~(a < 0) BY Constants
    <2> QED BY <1>0, <2>2, <2>3
  <1>5. ASSUME NEW n \in 0 .. OPEN_MAX - 1, n \in B PROVE n + 1 \in B
    <2>1. n \in Fd /\ n + 1 \in 0 .. OPEN_MAX /\ n + 1 # 0 /\ n + 1 - 1 = n BY <1>0 DEF Fd
    <2>2. c[n + 1] = close_fd(c[n], p, n) BY <1>3, <2>1 DEF ClosedUpto
    <2>3. Good(n) BY <1>5
    <2>4. Closed(c[n + 1], c[n], p, n) BY <2>1, <2>2, <2>3, CloseFdOK
    <2>5. ASSUME NEW a \in Fd, a < n + 1 PROVE c[n + 1].fproc[p].filp[a] = NIL
      <3>1. CASE a = n BY <2>4, <3>1 DEF Closed
      <3>2. CASE a # n
        <4>1. a < n BY <1>0, <2>5, <3>2, Constants
        <4>2. c[n].fproc[p].filp[a] = NIL BY <2>3, <4>1
        <4> QED BY <2>4, <3>2, <4>2 DEF Closed
      <3> QED BY <3>1, <3>2
    <2>6. WorldOK(c[n + 1]) /\ c[n + 1].fproc[p].used /\ c[n + 1].fproc[p].blocked_on = "NONE"
      BY <2>4 DEF Closed
    <2>7. Good(n + 1) BY <2>5, <2>6
    <2> HIDE DEF Good
    <2> QED BY <2>1, <2>7
  <1>6. Good(OPEN_MAX)
    <2> HIDE DEF Good
    <2>1. OPEN_MAX \in B
      <3> HIDE DEF B
      <3>1. \A n \in 0 .. OPEN_MAX : n \in B BY <1>0, <1>4, <1>5, CountUp
      <3> QED BY <1>0, <3>1
    <2> QED BY <2>1
  <1>7. /\ WorldOK(z) /\ z.fproc[p].used /\ z.fproc[p].blocked_on = "NONE"
        /\ \A a \in Fd : z.fproc[p].filp[a] = NIL
    <2>1. \A a \in Fd : a < OPEN_MAX BY <1>0 DEF Fd
    <2> QED BY <1>6, <2>1
  <1> HIDE DEF z
  <1>8. WorldOK(x) BY <1>7, SlotFreed
  <1> QED BY <1>1, <1>8

-----------------------------------------------------------------------------
(* fork(): the child refers to what its parent has open. *)
LEMMA ForkOK ==
    ASSUME NEW w, WorldOK(w), NEW p \in Proc, w.fproc[p].used, w.fproc[p].blocked_on = "NONE",
           NEW c \in Proc, ~w.fproc[c].used
    PROVE  WorldOK(pm_fork(w, p, c))
  <1> DEFINE t == w.fproc
             D(f) == {d \in Fd : t[p].filp[d] = f}
             F == [f \in Filp |-> [w.filp[f] EXCEPT !.count = @ + Cardinality(D(f))]]
             x == [w EXCEPT !.fproc[c] = t[p], !.filp = F]
             u == x.fproc
  <1>0. pm_fork(w, p, c) = x BY DEF pm_fork
  <1>1. /\ IsWorld(w) /\ t \in [Proc -> ProcEntries] /\ \A q \in Proc : EntryOK(t[q])
        /\ w.filp \in [Filp -> FilpEntries] /\ w.vnode \in Pipes /\ w.panic \in {"", "partial"}
        /\ Tallied(w) /\ Referred(w) /\ t[p] \in ProcEntries /\ EntryOK(t[p])
    BY DEF WorldOK, Typed
  <1> HIDE DEF F
  <1>2. /\ IsWorld(x) /\ u = [t EXCEPT ![c] = t[p]] /\ x.filp = F /\ x.vnode = w.vnode
        /\ x.panic = w.panic /\ x.susp = w.susp /\ x.rev = w.rev
    BY <1>1 DEF IsWorld
  <1>3. t[p].used /\ ~t[p].revived /\ t[p].blocked_on = "NONE" /\ ~t[c].used BY <1>1 DEF EntryOK
  <1> HIDE DEF x, t, u
  <1>4. u[c] = t[p] /\ \A q \in Proc : q # c => u[q] = t[q] BY <1>1, <1>2
  <1>5. u \in [Proc -> ProcEntries] /\ \A q \in Proc : EntryOK(u[q])
    <2>1. \A q \in Proc : u[q] \in ProcEntries /\ EntryOK(u[q]) BY <1>1, <1>4
    <2>2. u = [q \in Proc |-> u[q]] BY <1>1, <1>2
    <2> QED BY <2>1, <2>2
  <1>6. Waiting(u) = Waiting(t) /\ Marked(u) = Marked(t)
    BY <1>3, <1>4 DEF Waiting, Marked
  <1>7. ASSUME NEW f \in Filp
        PROVE  /\ Cardinality(D(f)) \in Nat
               /\ Cardinality(Refs(u, f)) = Cardinality(Refs(t, f)) + Cardinality(D(f))
    <2> DEFINE R == Refs(t, f)
               S == {c} \X D(f)
    <2>1. D(f) \in SUBSET Fd /\ R \in SUBSET (Proc \X Fd) BY DEF Refs
    <2>2. /\ IsFiniteSet(D(f)) /\ Cardinality(D(f)) \in Nat
          /\ IsFiniteSet(R) /\ Cardinality(R) \in Nat
      BY <2>1, Countable
    <2>3. ASSUME NEW q \in Proc, NEW a \in Fd
          PROVE  /\ <<q, a>> \in Refs(u, f) <=> <<q, a>> \in R \/ <<q, a>> \in S
                 /\ ~(<<q, a>> \in R /\ <<q, a>> \in S)
      <3>1. <<q, a>> \in Refs(u, f) <=> u[q].used /\ u[q].filp[a] = f BY DEF Refs
      <3>2. <<q, a>> \in R <=> t[q].used /\ t[q].filp[a] = f BY DEF Refs
      <3>3. <<q, a>> \in S <=> q = c /\ t[p].filp[a] = f OBVIOUS
      <3> HIDE DEF R, S
      <3>4. CASE q = c BY <1>3, <1>4, <3>1, <3>2, <3>3, <3>4
      <3>5. CASE q # c BY <1>4, <3>1, <3>2, <3>3, <3>5
      <3> QED BY <3>4, <3>5
    <2>4. S \in SUBSET (Proc \X Fd) BY <2>1
    <2>5. Refs(u, f) \in SUBSET (Proc \X Fd) BY DEF Refs
    <2>6. IsFiniteSet(S) /\ Cardinality(S) = Cardinality(D(f))
      <3>1. IsFiniteSet({c}) /\ Cardinality({c}) = 1 BY FS_Singleton
      <3> HIDE DEF D
      <3>2. IsFiniteSet(S) /\ Cardinality(S) = 1 * Cardinality(D(f)) BY <2>2, <3>1, FS_Product
      <3> QED BY <2>2, <3>2
    <2> HIDE DEF R, S
    <2>7. ASSUME NEW y \in Proc \X Fd
          PROVE  /\ y \in Refs(u, f) <=> y \in R \/ y \in S
                 /\ ~(y \in R /\ y \in S)
      <3>1. y[1] \in Proc /\ y[2] \in Fd /\ y = <<y[1], y[2]>> BY Pair
      <3>2. /\ <<y[1], y[2]>> \in Refs(u, f) <=> <<y[1], y[2]>> \in R \/ <<y[1], y[2]>> \in S
            /\ ~(<<y[1], y[2]>> \in R /\ <<y[1], y[2]>> \in S)
        BY <2>3, <3>1
      <3> QED BY <3>1, <3>2
    <2>8. Refs(u, f) = R \cup S /\ R \cap S = {} BY <2>1, <2>4, <2>5, <2>7
    <2>9. Cardinality(R \cup S) = Cardinality(R) + Cardinality(S) - Cardinality({})
      BY <2>2, <2>6, <2>8, FS_Union
    <2> HIDE DEF D
    <2>10. Cardinality(R \cup S) = Cardinality(R) + Cardinality(D(f)) BY <2>2, <2>6, <2>9, FS_EmptySet
    <2> QED BY <2>2, <2>8, <2>10 DEF R
  <1>8. F \in [Filp -> FilpEntries] /\ \A f \in Filp : F[f].count = w.filp[f].count + Cardinality(D(f))
    <2>1. ASSUME NEW f \in Filp
          PROVE  F[f] \in FilpEntries /\ F[f].count = w.filp[f].count + Cardinality(D(f))
      <3>1. w.filp[f] \in FilpEntries /\ w.filp[f].count \in Nat BY <1>1 DEF FilpEntries
      <3>2. Cardinality(D(f)) \in Nat BY <1>7
      <3> DEFINE n == w.filp[f].count + Cardinality(D(f))
      <3>3. F[f] = [w.filp[f] EXCEPT !.count = n] BY DEF F
      <3> HIDE DEF D
      <3>4. n \in Nat BY <3>1, <3>2
      <3> HIDE DEF n
      <3>5. F[f] \in FilpEntries /\ F[f].count = n BY <3>1, <3>3, <3>4 DEF FilpEntries
      <3> QED BY <3>5 DEF n
    <2>2. F = [f \in Filp |-> F[f]] BY DEF F
    <2> HIDE DEF D
    <2> QED BY <2>1, <2>2
  <1>9. Tallied(x) BY <1>1, <1>2, <1>6 DEF Tallied, t, u
  <1>10. Referred(x)
    <2> SUFFICES ASSUME NEW f \in Filp PROVE x.filp[f].count = Cardinality(Refs(u, f))
      BY DEF Referred, u
    <2>1. w.filp[f].count = Cardinality(Refs(t, f)) BY <1>1 DEF Referred, t
    <2> HIDE DEF D
    <2> QED BY <1>2, <1>7, <1>8, <2>1
  <1>11. WorldOK(x) BY <1>1, <1>2, <1>5, <1>8, <1>9, <1>10 DEF WorldOK, Typed, u
  <1> QED BY <1>0, <1>11

-----------------------------------------------------------------------------
(* fcntl(): the flags of an open file, and locks. *)
LEMMA SetFlOK ==
    ASSUME NEW w, WorldOK(w), NEW f \in Filp, NEW b \in BOOLEAN
    PROVE  WorldOK([w EXCEPT !.filp[f].nonblock = b])
  <1> DEFINE x == [w EXCEPT !.filp[f].nonblock = b]
             new == [w.filp[f] EXCEPT !.nonblock = b]
  <1>1. /\ IsWorld(w) /\ w.filp \in [Filp -> FilpEntries] /\ w.filp[f] \in FilpEntries
        /\ w.vnode \in Pipes /\ w.panic \in {"", "partial"}
    BY DEF WorldOK, Typed
  <1>2. new \in FilpEntries /\ new.count = w.filp[f].count BY <1>1 DEF FilpEntries
  <1>3. /\ IsWorld(x) /\ x.fproc = w.fproc /\ x.susp = w.susp /\ x.rev = w.rev /\ x.vnode = w.vnode
        /\ x.panic = w.panic /\ x.filp = [w.filp EXCEPT ![f] = new]
    BY <1>1 DEF IsWorld
  <1> HIDE DEF x, new
  <1>4. x.filp = [g \in Filp |-> IF g = f THEN new ELSE w.filp[g]] BY <1>1, <1>3
  <1>5. x.filp \in [Filp -> FilpEntries]
    <2>1. \A g \in Filp : w.filp[g] \in FilpEntries BY <1>1
    <2> QED BY <1>2, <1>4, <2>1
  <1>6. \A g \in Filp : x.filp[g].count = w.filp[g].count BY <1>2, <1>4
  <1>7. WorldOK(x) BY <1>1, <1>3, <1>5, <1>6, SameCounts
  <1> QED BY <1>7 DEF x

(* The table of locks is not counted. *)
LEMMA LocksFree ==
    ASSUME NEW w, WorldOK(w), NEW l
    PROVE  WorldOK([w EXCEPT !.lock = l])
  <1> DEFINE x == [w EXCEPT !.lock = l]
  <1>1. IsWorld(w) /\ w.vnode \in Pipes /\ w.panic \in {"", "partial"} BY DEF WorldOK, Typed
  <1>2. /\ IsWorld(x) /\ x.fproc = w.fproc /\ x.susp = w.susp /\ x.rev = w.rev
        /\ x.filp = w.filp /\ x.vnode = w.vnode /\ x.panic = w.panic
    BY <1>1 DEF IsWorld
  <1> HIDE DEF x
  <1>3. WorldOK(x) BY <1>1, <1>2, CountsKept
  <1> QED BY <1>3 DEF x

LEMMA UnlockOK ==
    ASSUME NEW w, WorldOK(w), NEW first, NEW last
    PROVE  WorldOK(unlock_op(w, first, last))
  <1> DEFINE s == Unlocked(w, first, last)
             w1 == [w EXCEPT !.lock = s.lock]
  <1>1. unlock_op(w, first, last) = IF s.found /\ ~s.full THEN lock_revive(w1) ELSE w1 BY DEF unlock_op
  <1> HIDE DEF s
  <1>2. WorldOK(w1) BY LocksFree
  <1> HIDE DEF w1
  <1>3. WorldOK(lock_revive(w1)) BY <1>2, LockReviveOK
  <1> QED BY <1>1, <1>2, <1>3

LEMMA LockOpOK ==
    ASSUME NEW w, WorldOK(w), NEW p \in Proc, w.fproc[p].used, w.fproc[p].blocked_on = "NONE",
           NEW fd \in Fd, w.fproc[p].filp[fd] # NIL,
           NEW l \in {NIL} \cup [type : LockTypes, first : Positions, last : Positions], NEW waits
    PROVE  WorldOK(lock_op(w, p, fd, l, waits))
  <1> DEFINE s == [NoCall EXCEPT !.call = "FCNTL", !.fd = fd, !.flock = l]
             free == {i \in LockSlot : w.lock[i] = NIL}
             k == [type |-> l.type, pid |-> p, first |-> l.first, last |-> l.last]
             m == [i \in LockSlot |-> IF i # Min(free) THEN w.lock[i] ELSE k]
             x == lock_op(w, p, fd, l, waits)
  <1>1. s \in Susps /\ s.call = "FCNTL" /\ s.fd = fd BY DEF NoCall, Susps
  <1>2. x = w \/ x = suspend(w, p, "LOCK", s) \/ x = [w EXCEPT !.lock = m]
    BY DEF lock_op
  <1> HIDE DEF s, m
  <1>3. WorldOK(suspend(w, p, "LOCK", s))
    <2>1. w.fproc[p].filp[s.fd] # NIL BY <1>1
    <2> QED BY <1>1, <2>1, SuspendOK
  <1>4. WorldOK([w EXCEPT !.lock = m]) BY LocksFree
  <1> HIDE DEF x
  <1>5. WorldOK(x) BY <1>2, <1>3, <1>4
  <1> QED BY <1>5 DEF x

-----------------------------------------------------------------------------
(* The steps of VFS.                                                       *)

LEMMA BecomeOK ==
    ASSUME NEW w, WorldOK(w), Become(w)
    PROVE  WorldOK(World)'
  <1> DEFINE x == World'
  <1>1. /\ IsWorld(x) /\ x.fproc = w.fproc /\ x.susp = w.susp /\ x.rev = w.rev
        /\ x.filp = w.filp /\ x.vnode = w.vnode /\ x.panic = w.panic
    BY DEF World, Become, IsWorld
  <1>2. w.vnode \in Pipes /\ w.panic \in {"", "partial"} BY DEF WorldOK, Typed
  <1> HIDE DEF x
  <1>3. WorldOK(x) BY <1>1, <1>2, CountsKept
  <1> QED BY <1>3 DEF x

LEMMA WorldIs ==
    /\ World.fproc = fproc /\ World.filp = filp /\ World.vnode = vnode
    /\ World.susp = susp_count /\ World.rev = reviving /\ World.panic = panic
  BY DEF World

LEMMA InitVfs == Init => VfsInv
  <1> SUFFICES ASSUME Init PROVE VfsInv OBVIOUS
  <1> DEFINE w == World
  <1>1. /\ w.fproc = [p \in Proc |-> [FreeProc EXCEPT !.used = p \in Boot]]
        /\ w.filp = [f \in Filp |-> FreeFilp] /\ w.vnode = EmptyPipe
        /\ w.susp = 0 /\ w.rev = 0 /\ w.panic = ""
    BY WorldIs DEF Init
  <1>2. IsWorld(w) BY DEF World, IsWorld
  <1> HIDE DEF w
  <1>3. \A p \in Proc : /\ w.fproc[p] \in ProcEntries /\ w.fproc[p].blocked_on = "NONE"
                        /\ ~w.fproc[p].revived /\ \A d \in Fd : w.fproc[p].filp[d] = NIL
    <2> TAKE p \in Proc
    <2>1. w.fproc[p] = [FreeProc EXCEPT !.used = p \in Boot] BY <1>1
    <2>2. ASSUME NEW b \in BOOLEAN
          PROVE  LET e == [FreeProc EXCEPT !.used = b]
                 IN  /\ e \in ProcEntries /\ e.blocked_on = "NONE" /\ ~e.revived
                     /\ \A d \in Fd : e.filp[d] = NIL
      BY NoCallTyped DEF FreeProc, ProcEntries
    <2> DEFINE b == p \in Boot
    <2>3. b \in BOOLEAN OBVIOUS
    <2> HIDE DEF b
    <2>4. w.fproc[p] = [FreeProc EXCEPT !.used = b] BY <2>1 DEF b
    <2> QED BY <2>2, <2>3, <2>4
  <1>4. \A f \in Filp : w.filp[f] \in FilpEntries /\ w.filp[f].count = 0
    <2>1. FreeFilp \in FilpEntries /\ FreeFilp.count = 0 BY DEF FreeFilp, FilpEntries
    <2>2. \A f \in Filp : w.filp[f] = FreeFilp BY <1>1
    <2> QED BY <2>1, <2>2
  <1>5. Typed(w)
    <2>1. EmptyPipe \in Pipes BY Constants DEF EmptyPipe, Pipes
    <2>2. w.fproc \in [Proc -> ProcEntries]
      <3>1. w.fproc = [p \in Proc |-> w.fproc[p]] BY <1>1
      <3> QED BY <1>3, <3>1
    <2>3. w.filp \in [Filp -> FilpEntries]
      <3>1. w.filp = [f \in Filp |-> w.filp[f]] BY <1>1
      <3> QED BY <1>4, <3>1
    <2> QED BY <1>1, <1>2, <2>1, <2>2, <2>3 DEF Typed
  <1>6. \A p \in Proc : EntryOK(w.fproc[p]) BY <1>3 DEF EntryOK
  <1>7. Tallied(w)
    <2>1. Waiting(w.fproc) = {} /\ Marked(w.fproc) = {} BY <1>3 DEF Waiting, Marked
    <2> QED BY <1>1, <2>1, FS_EmptySet DEF Tallied
  <1>8. Referred(w)
    <2> SUFFICES ASSUME NEW f \in Filp PROVE w.filp[f].count = Cardinality(Refs(w.fproc, f))
      BY DEF Referred
    <2>1. ASSUME NEW y \in Refs(w.fproc, f) PROVE FALSE
      <3>1. y \in Proc \X Fd /\ w.fproc[y[1]].filp[y[2]] = f BY DEF Refs
      <3>2. y[1] \in Proc /\ y[2] \in Fd BY <3>1, Pair
      <3>3. w.fproc[y[1]].filp[y[2]] = NIL BY <1>3, <3>2
      <3> QED BY <3>1, <3>3, Constants
    <2>2. Refs(w.fproc, f) = {} BY <2>1
    <2> QED BY <1>4, <2>2, FS_EmptySet
  <1>9. WorldOK(w) BY <1>5, <1>6, <1>7, <1>8 DEF WorldOK
  <1> QED BY <1>9 DEF VfsInv, w, Init

(* A call that makes a good state keeps the invariant. *)
LEMMA HandleOK ==
    ASSUME NEW p \in Proc, NEW name, NEW w, WorldOK(w), Handle(p, name, w)
    PROVE  VfsInv'
  <1>1. WorldOK(World)' BY BecomeOK DEF Handle
  <1> QED BY <1>1 DEF VfsInv, Handle

LEMMA CallsVfs ==
    ASSUME VfsInv, NEW p \in Proc,
           \/ Read(p) \/ Write(p) \/ Close(p) \/ SetFl(p)
           \/ Pipe(p) \/ OpenFifo(p) \/ OpenFile(p)
           \/ Lock(p) \/ Unlck(p) \/ Fork(p)
    PROVE  VfsInv'
  <1>1. WorldOK(World) BY DEF VfsInv
  <1> DEFINE w == World
             Able == w.fproc[p].used /\ w.fproc[p].blocked_on = "NONE"
  <1>2. \A name, x : Handle(p, name, x) => Able BY WorldIs DEF Handle
  <1>3. ASSUME NEW fd \in Fd, NEW v, NEW bit, Usable(p, fd, v, bit)
        PROVE  w.fproc[p].filp[fd] # NIL
    <2>1. fproc[p].filp[fd] # NIL BY <1>3 DEF Usable
    <2> QED BY <2>1, WorldIs
  <1>4. Sizes \subseteq Nat BY VfsAssumption
  <1> HIDE DEF w
  <1>5. WorldOK(w) BY <1>1 DEF w
  <1>6. CASE Read(p)
    <2>1. PICK fd \in Fd, n \in Sizes, ok \in {TRUE, "faults" \notin Calls} :
              /\ Usable(p, fd, "pipe", "R")
              /\ Handle(p, "read", read_write(w, p, "READ", fd, n, ok).w)
      BY <1>6 DEF Read, w
    <2>2. w.fproc[p].filp[fd] # NIL /\ n \in Nat /\ Able BY <1>2, <1>3, <1>4, <2>1
    <2>3. WorldOK(read_write(w, p, "READ", fd, n, ok).w) BY <1>5, <2>2, ReadWriteOK
    <2> QED BY <2>1, <2>3, HandleOK
  <1>7. CASE Write(p)
    <2>1. PICK fd \in Fd, n \in Sizes, ok \in {TRUE, "faults" \notin Calls} :
              /\ Usable(p, fd, "pipe", "W")
              /\ Handle(p, "write", read_write(w, p, "WRITE", fd, n, ok).w)
      BY <1>7 DEF Write, w
    <2>2. w.fproc[p].filp[fd] # NIL /\ n \in Nat /\ Able BY <1>2, <1>3, <1>4, <2>1
    <2>3. WorldOK(read_write(w, p, "WRITE", fd, n, ok).w) BY <1>5, <2>2, ReadWriteOK
    <2> QED BY <2>1, <2>3, HandleOK
  <1>8. CASE Close(p)
    <2>1. PICK fd \in Fd : Handle(p, "close", close_fd(w, p, fd)) BY <1>8 DEF Close, w
    <2>2. Able BY <1>2, <2>1
    <2>3. WorldOK(close_fd(w, p, fd)) BY <1>5, <2>2, CloseFdOK DEF Closed
    <2> QED BY <2>1, <2>3, HandleOK
  <1>9. CASE SetFl(p)
    <2>1. PICK fd \in Fd, b \in BOOLEAN :
              /\ w.fproc[p].filp[fd] # NIL
              /\ Handle(p, "setfl", [w EXCEPT !.filp[w.fproc[p].filp[fd]].nonblock = b])
      BY <1>9, WorldIs DEF SetFl, w
    <2> DEFINE f == w.fproc[p].filp[fd]
    <2>2. f \in Filp
      <3>1. w.fproc[p] \in ProcEntries BY <1>5 DEF WorldOK, Typed
      <3>2. w.fproc[p].filp \in [Fd -> Filp \cup {NIL}] BY <3>1 DEF ProcEntries
      <3> QED BY <2>1, <3>2
    <2>3. Handle(p, "setfl", [w EXCEPT !.filp[f].nonblock = b]) BY <2>1
    <2> HIDE DEF f
    <2>4. WorldOK([w EXCEPT !.filp[f].nonblock = b]) BY <1>5, <2>2, SetFlOK
    <2> QED BY <2>3, <2>4, HandleOK
  <1>10. CASE Pipe(p)
    <2>1. /\ Cardinality(FreeFds(w, p)) >= 2 /\ Cardinality(FreeFilps(w)) >= 2
          /\ Handle(p, "pipe", do_pipe(w, p))
      BY <1>10 DEF Pipe, w
    <2>2. Able BY <1>2, <2>1
    <2>3. WorldOK(do_pipe(w, p)) BY <1>5, <2>1, <2>2, DoPipeOK
    <2> QED BY <2>1, <2>3, HandleOK
  <1>11. CASE OpenFifo(p)
    <2>1. PICK bits \in {{"R"}, {"W"}, {"R", "W"}}, b \in BOOLEAN :
              /\ FreeFds(w, p) = Fd /\ FreeFilps(w) # {}
              /\ Handle(p, "fifo", common_open(w, p, "pipe", bits, b).w)
      BY <1>11 DEF OpenFifo, w
    <2>2. Able /\ FreeFds(w, p) # {} /\ bits \in SUBSET {"R", "W"} BY <1>2, <2>1, Constants
    <2>3. WorldOK(common_open(w, p, "pipe", bits, b).w) BY <1>5, <2>1, <2>2, CommonOpenOK
    <2> QED BY <2>1, <2>3, HandleOK
  <1>12. CASE OpenFile(p)
    <2>1. /\ FreeFds(w, p) = Fd /\ FreeFilps(w) # {}
          /\ Handle(p, "file", common_open(w, p, "file", {"R", "W"}, FALSE).w)
      BY <1>12 DEF OpenFile, w
    <2>2. Able /\ FreeFds(w, p) # {} BY <1>2, <2>1, Constants
    <2>3. WorldOK(common_open(w, p, "file", {"R", "W"}, FALSE).w) BY <1>5, <2>1, <2>2, CommonOpenOK
    <2> QED BY <2>1, <2>3, HandleOK
  <1>13. CASE Lock(p)
    <2>1. PICK fd \in Fd, first \in Positions, last \in Positions, type \in LockTypes, waits \in BOOLEAN :
              /\ Usable(p, fd, "file", IF type = "RDLCK" THEN "R" ELSE "W")
              /\ Handle(p, "lock", lock_op(w, p, fd, [type |-> type, first |-> first, last |-> last], waits))
      BY <1>13 DEF Lock, w
    <2> DEFINE l == [type |-> type, first |-> first, last |-> last]
    <2>2. l \in {NIL} \cup [type : LockTypes, first : Positions, last : Positions] OBVIOUS
    <2>3. w.fproc[p].filp[fd] # NIL /\ Able BY <1>2, <1>3, <2>1
    <2> HIDE DEF l
    <2>4. WorldOK(lock_op(w, p, fd, l, waits)) BY <1>5, <2>2, <2>3, LockOpOK
    <2> QED BY <2>1, <2>4, HandleOK DEF l
  <1>14. CASE Unlck(p)
    <2>1. PICK first \in Positions, last \in Positions : Handle(p, "unlock", unlock_op(w, first, last))
      BY <1>14 DEF Unlck, w
    <2>2. WorldOK(unlock_op(w, first, last)) BY <1>5, UnlockOK
    <2> QED BY <2>1, <2>2, HandleOK
  <1>15. CASE Fork(p)
    <2>1. PICK c \in Proc : ~w.fproc[c].used /\ Handle(p, "fork", pm_fork(w, p, c))
      BY <1>15, WorldIs DEF Fork, w
    <2>2. Able BY <1>2, <2>1
    <2>3. WorldOK(pm_fork(w, p, c)) BY <1>5, <2>1, <2>2, ForkOK
    <2> QED BY <2>1, <2>3, HandleOK
  <1> QED BY <1>6, <1>7, <1>8, <1>9, <1>10, <1>11, <1>12, <1>13, <1>14, <1>15

LEMMA EndsVfs ==
    ASSUME VfsInv, NEW p \in Proc, Exit(p) \/ Unpause(p)
    PROVE  VfsInv'
  <1> DEFINE w == World
  <1>1. WorldOK(w) /\ w.fproc = fproc BY WorldIs DEF VfsInv
  <1> HIDE DEF w
  <1>2. CASE Exit(p)
    <2>1. w.fproc[p].used /\ Become(free_proc(w, p)) /\ rp' = 0 BY <1>1, <1>2 DEF Exit, w
    <2>2. WorldOK(free_proc(w, p)) BY <1>1, <2>1, FreeProcOK
    <2>3. WorldOK(World)' BY <2>1, <2>2, BecomeOK
    <2> QED BY <2>1, <2>3 DEF VfsInv
  <1>3. CASE Unpause(p)
    <2>1. w.fproc[p].used /\ Become(unpause(w, p)) /\ rp' = 0 BY <1>1, <1>3 DEF Unpause, w
    <2>2. WorldOK(unpause(w, p)) BY <1>1, <2>1, UnpauseOK
    <2>3. WorldOK(World)' BY <2>1, <2>2, BecomeOK
    <2> QED BY <2>1, <2>3 DEF VfsInv
  <1> QED BY <1>2, <1>3

LEMMA RevivesVfs ==
    ASSUME VfsInv, get_work
    PROVE  VfsInv'
  <1>1. PICK p \in Reviving : ReviveOnPipe(p) \/ ReviveOnLock(p) BY DEF get_work
  <1>2. WorldOK(World) /\ p \in Proc BY DEF VfsInv, Reviving
  <1> DEFINE x == Resumed(p)
             s == fproc[p].susp
  <1>3. /\ WorldOK(x) /\ x.fproc[p].used /\ x.fproc[p].blocked_on = "NONE"
        /\ x.fproc[p].filp = fproc[p].filp
    BY <1>2, ResumedOK
  <1>4. fproc[p] \in ProcEntries /\ EntryOK(fproc[p]) BY <1>2, WorldIs DEF WorldOK, Typed
  <1>5. s \in Susps BY <1>4 DEF ProcEntries
  <1>6. /\ s.fd \in Fd /\ s.nbytes \in Nat
        /\ s.flock \in {NIL} \cup [type : LockTypes, first : Positions, last : Positions]
    BY <1>5 DEF Susps
  <1> HIDE DEF x
  <1>7. CASE ReviveOnPipe(p)
    <2>1. PICK ok \in {TRUE, "faults" \notin Calls} :
              /\ fproc[p].blocked_on = "PIPE"
              /\ Become(rw_pipe(x, p, s.call, s.fd, s.nbytes, ok).w)
              /\ rp' \in {0, p}
      BY <1>7 DEF ReviveOnPipe, x
    <2>2. s.call \in {"READ", "WRITE"} /\ x.fproc[p].filp[s.fd] # NIL BY <1>3, <1>4, <2>1 DEF EntryOK
    <2> HIDE DEF s
    <2>3. WorldOK(rw_pipe(x, p, s.call, s.fd, s.nbytes, ok).w) BY <1>2, <1>3, <1>6, <2>2, RwPipeOK
    <2>4. WorldOK(World)' BY <2>1, <2>3, BecomeOK DEF s
    <2>5. rp' \in Proc \cup {0} BY <1>2, <2>1
    <2> QED BY <2>4, <2>5 DEF VfsInv
  <1>8. CASE ReviveOnLock(p)
    <2>1. /\ fproc[p].blocked_on = "LOCK" /\ Become(lock_op(x, p, s.fd, s.flock, TRUE)) /\ rp' = 0
      BY <1>8 DEF ReviveOnLock, x
    <2>2. x.fproc[p].filp[s.fd] # NIL BY <1>3, <1>4, <2>1 DEF EntryOK
    <2> HIDE DEF s
    <2>3. WorldOK(lock_op(x, p, s.fd, s.flock, TRUE)) BY <1>2, <1>3, <1>6, <2>2, LockOpOK
    <2>4. WorldOK(World)' BY <2>1, <2>3, BecomeOK DEF s
    <2> QED BY <2>1, <2>4 DEF VfsInv
  <1> QED BY <1>1, <1>7, <1>8

LEMMA NextVfs == VfsInv /\ [Next]_vars => VfsInv'
  <1> SUFFICES ASSUME VfsInv, [Next]_vars PROVE VfsInv' OBVIOUS
  <1>1. CASE get_work BY <1>1, RevivesVfs
  <1>2. CASE \E p \in Proc :
          \/ Read(p) \/ Write(p) \/ Close(p) \/ SetFl(p)
          \/ Pipe(p) \/ OpenFifo(p) \/ OpenFile(p)
          \/ Lock(p) \/ Unlck(p)
          \/ Fork(p) \/ Exit(p) \/ Unpause(p)
    BY <1>2, CallsVfs, EndsVfs
  <1>3. CASE UNCHANGED vars
    <2>1. World' = World /\ rp' = rp BY <1>3 DEF vars, World
    <2> QED BY <2>1 DEF VfsInv
  <1> QED BY <1>1, <1>2, <1>3 DEF Next

(* susp_count, reviving and the counts of the open files are what they      *)
(* stand for, whatever processes do to pipes, FIFOs and locks, and however  *)
(* their calls are interrupted: release() never takes more off susp_count   *)
(* than there is, and get_work() finds a process where reviving says so.    *)
THEOREM TheCountsAreRight == Spec => []Counted
  <1>1. VfsInv => Counted
    <2> SUFFICES ASSUME VfsInv PROVE Counted OBVIOUS
    <2>1. /\ Typed(World) /\ Tallied(World) /\ Referred(World) /\ rp \in Proc \cup {0}
          /\ \A p \in Proc : EntryOK(fproc[p])
      BY WorldIs DEF VfsInv, WorldOK
    <2>2. /\ fproc \in [Proc -> ProcEntries] /\ filp \in [Filp -> FilpEntries]
          /\ vnode \in Pipes /\ panic \in {"", "partial"}
      BY <2>1, WorldIs DEF Typed
    <2>3. /\ susp_count = Cardinality(Waiting(fproc)) /\ reviving = Cardinality(Marked(fproc))
          /\ \A f \in Filp : filp[f].count = Cardinality(Refs(fproc, f))
      BY <2>1, WorldIs DEF Tallied, Referred
    <2>4. susp_count \in Int /\ reviving \in Int
      <3>1. World.susp \in Nat /\ World.rev \in Nat BY CountsAreNat DEF VfsInv
      <3> QED BY <3>1, WorldIs
    <2>5. TypeOK
      <3>1. \A p \in Proc : /\ fproc[p].blocked_on \in {"NONE", "PIPE", "POPEN", "LOCK"}
                            /\ fproc[p].filp \in [Fd -> Filp \cup {NIL}]
        BY <2>2 DEF ProcEntries
      <3>2. \A f \in Filp : filp[f].count \in Nat BY <2>2 DEF FilpEntries
      <3>3. \A y \in {"size", "rd", "wr"} : vnode[y] \in 0 .. PIPE_BUF BY <2>2 DEF Pipes
      <3> QED BY <2>1, <2>4, <3>1, <3>2, <3>3 DEF TypeOK
    <2>6. reviving = Cardinality(Reviving) BY <2>3 DEF Marked, Reviving
    <2>7. \A p \in Proc : fproc[p].blocked_on # "NONE" => fproc[p].filp[fproc[p].susp.fd] # NIL
      BY <2>1 DEF EntryOK
    <2>8. susp_count = Cardinality({p \in Proc :
             fproc[p].used /\ ~fproc[p].revived /\ fproc[p].blocked_on \in {"PIPE", "POPEN"}})
      BY <2>3 DEF Waiting
    <2>9. \A f \in Filp : filp[f].count =
             Cardinality({x \in Proc \X Fd : fproc[x[1]].used /\ fproc[x[1]].filp[x[2]] = f})
      BY <2>3 DEF Refs
    <2> QED BY <2>2, <2>5, <2>6, <2>7, <2>8, <2>9 DEF Counted
  <1> QED BY <1>1, InitVfs, NextVfs, PTL DEF Spec
-----------------------------------------------------------------------------
(* Who is suspended rightly.  The inductive invariant, of a state w: what   *)
(* is said of processes that wait holds while others are being revived too, *)
(* and for that it needs what the positions of the pipe and the modes of    *)
(* its filps can be, and that those who wait on the pipe refer to it.       *)

(* A process that waits and has not been woken. *)
Pends(f) == f.used /\ f.blocked_on # "NONE" /\ ~f.revived
Awaits(w, p, call) == Pends(w.fproc[p]) /\ w.fproc[p].susp.call = call

(* The filp that the call process p waits in is about. *)
FilpOf(w, p) == w.filp[w.fproc[p].filp[w.fproc[p].susp.fd]]
Other(mode) == IF "W" \in mode THEN "R" ELSE "W"

NothingKept(w) == \A p \in Proc : w.fproc[p].blocked_on = "NONE" => w.fproc[p].susp.call = NIL
PipeShape(v) == v.size = v.wr /\ (v.rd < v.size \/ (v.rd = 0 /\ v.size = 0))
OneWay(w) ==
    \A f \in Filp : (w.filp[f].count > 0 /\ w.filp[f].vno = "pipe") => w.filp[f].mode \in {{"R"}, {"W"}}
OnThePipe(w) ==
    \A p \in Proc : (w.fproc[p].used /\ w.fproc[p].blocked_on \in {"PIPE", "POPEN"}) => FilpOf(w, p).vno = "pipe"
ReadersRight(w) ==
    \A p \in Proc : Awaits(w, p, "READ") => w.vnode.size = 0 /\ find_filp(w, "pipe", "W") # {}
WritersRight(w) ==
    \A p \in Proc : Awaits(w, p, "WRITE") =>
        find_filp(w, "pipe", "R") # {} /\ \A q \in Proc : ~Awaits(w, q, "READ")
OpenersRight(w) ==
    \A p \in Proc : Awaits(w, p, "OPEN") => find_filp(w, "pipe", Other(FilpOf(w, p).mode)) = {}
LockersRight(w) ==
    \A p \in Proc : Awaits(w, p, "FCNTL") =>
        LET l == w.fproc[p].susp.flock IN Conflicts(w, p, l.type, l.first, l.last) # {}

(* L: those who open and those who lock are part of it.                     *)
PipeRight(w) ==
    /\ NothingKept(w) /\ PipeShape(w.vnode) /\ OneWay(w) /\ OnThePipe(w)
    /\ ReadersRight(w) /\ WritersRight(w)
AllRight(w, L) ==
    PipeRight(w) /\ ("OPEN" \in L => OpenersRight(w)) /\ ("FCNTL" \in L => LockersRight(w))
(* A step after which nobody waits who did not wait before. *)
Nobody(w, call) == \A p \in Proc : ~Awaits(w, p, call)
OnPipe(f) == f.used /\ f.blocked_on \in {"PIPE", "POPEN"}
CalmEntry(e, g) ==
    /\ e.blocked_on = "NONE" => e.susp.call = NIL
    /\ Pends(e) => Pends(g) /\ e.susp = g.susp
    /\ OnPipe(e) => OnPipe(g)
Calmer(x, w) ==
    \A p \in Proc :
        /\ CalmEntry(x.fproc[p], w.fproc[p])
        /\ OnPipe(x.fproc[p]) =>
               FilpOf(x, p).vno = FilpOf(w, p).vno /\ FilpOf(x, p).mode = FilpOf(w, p).mode

LEMMA CalmerTwice == ASSUME NEW x, NEW y, NEW w, Calmer(x, y), Calmer(y, w) PROVE Calmer(x, w)
  BY DEF Calmer, CalmEntry

LEMMA NobodyStays ==
    ASSUME NEW x, NEW w, Calmer(x, w), NEW call, Nobody(w, call)
    PROVE  Nobody(x, call)
  BY DEF Calmer, CalmEntry, Nobody, Awaits

(* Who awaits what. *)
LEMMA AwaitedOn ==
    ASSUME NEW w, WorldOK(w), NEW p \in Proc, NEW call, Awaits(w, p, call)
    PROVE  /\ call \in {"READ", "WRITE"} <=> w.fproc[p].blocked_on = "PIPE"
           /\ call = "OPEN" <=> w.fproc[p].blocked_on = "POPEN"
           /\ call = "FCNTL" <=> w.fproc[p].blocked_on = "LOCK"
           /\ call \in {"READ", "WRITE", "OPEN"} <=> OnPipe(w.fproc[p])
  <1>1. w.fproc[p] \in ProcEntries /\ EntryOK(w.fproc[p]) BY DEF WorldOK, Typed
  <1> QED BY <1>1 DEF EntryOK, ProcEntries, Awaits, Pends, OnPipe

(* What a calmer state needs to be right: an end of the pipe that is        *)
(* awaited stays, no partner comes, no byte, and no lock goes.              *)
StillAwaited(x, w, L) ==
    /\ PipeShape(x.vnode) /\ OneWay(x)
    /\ Nobody(x, "READ") \/ (/\ x.vnode.size = w.vnode.size
                             /\ find_filp(w, "pipe", "W") # {} => find_filp(x, "pipe", "W") # {})
    /\ Nobody(x, "WRITE") \/ (find_filp(w, "pipe", "R") # {} => find_filp(x, "pipe", "R") # {})
    /\ "OPEN" \in L =>
          \/ Nobody(x, "OPEN")
          \/ /\ \A b \in {"R", "W"} : find_filp(x, "pipe", b) \subseteq find_filp(w, "pipe", b)
             /\ OpenersRight(w)
    /\ "FCNTL" \in L =>
          \/ Nobody(x, "FCNTL")
          \/ (\A i \in LockSlot : w.lock[i] # NIL => x.lock[i] = w.lock[i]) /\ LockersRight(w)

LEMMA CalmerRight ==
    ASSUME NEW x, NEW w, NEW L, WorldOK(w), WorldOK(x), PipeRight(w), Calmer(x, w), StillAwaited(x, w, L)
    PROVE  AllRight(x, L)
  <1>1. \A p \in Proc : \A call : Awaits(x, p, call) => Awaits(w, p, call) /\ x.fproc[p].susp = w.fproc[p].susp
    BY DEF Calmer, CalmEntry, Awaits
  <1>2. NothingKept(x) BY DEF NothingKept, Calmer, CalmEntry
  <1>3. OnThePipe(x)
    <2>1. \A p \in Proc : OnPipe(x.fproc[p]) => FilpOf(x, p).vno = FilpOf(w, p).vno /\ OnPipe(w.fproc[p])
      BY DEF Calmer, CalmEntry
    <2>2. \A p \in Proc : OnPipe(w.fproc[p]) => FilpOf(w, p).vno = "pipe"
      BY DEF PipeRight, OnThePipe, OnPipe
    <2> QED BY <2>1, <2>2 DEF OnThePipe, OnPipe
  <1>4. ReadersRight(x)
    BY <1>1 DEF ReadersRight, PipeRight, StillAwaited, Nobody
  <1>5. WritersRight(x)
    BY <1>1 DEF WritersRight, PipeRight, StillAwaited, Nobody
  <1>6. "OPEN" \in L => OpenersRight(x)
    <2> SUFFICES ASSUME "OPEN" \in L, NEW p \in Proc, Awaits(x, p, "OPEN")
                 PROVE  find_filp(x, "pipe", Other(FilpOf(x, p).mode)) = {}
      BY DEF OpenersRight
    <2>1. OnPipe(x.fproc[p]) BY AwaitedOn
    <2>2. FilpOf(x, p).mode = FilpOf(w, p).mode BY <2>1 DEF Calmer
    <2>3. (\A b \in {"R", "W"} : find_filp(x, "pipe", b) \subseteq find_filp(w, "pipe", b)) /\ OpenersRight(w)
      BY DEF StillAwaited, Nobody
    <2>4. find_filp(w, "pipe", Other(FilpOf(w, p).mode)) = {} BY <1>1, <2>3 DEF OpenersRight
    <2>5. Other(FilpOf(w, p).mode) \in {"R", "W"} BY DEF Other
    <2> QED BY <2>2, <2>3, <2>4, <2>5
  <1>7. "FCNTL" \in L => LockersRight(x)
    <2> SUFFICES ASSUME "FCNTL" \in L, NEW p \in Proc, Awaits(x, p, "FCNTL"), NEW l, l = x.fproc[p].susp.flock
                 PROVE  Conflicts(x, p, l.type, l.first, l.last) # {}
      BY DEF LockersRight
    <2>1. (\A i \in LockSlot : w.lock[i] # NIL => x.lock[i] = w.lock[i]) /\ LockersRight(w)
      BY DEF StillAwaited, Nobody
    <2>2. Conflicts(w, p, l.type, l.first, l.last) # {} BY <1>1, <2>1 DEF LockersRight
    <2>3. PICK i \in LockSlot : i \in Conflicts(w, p, l.type, l.first, l.last) BY <2>2 DEF Conflicts
    <2>4. w.lock[i] # NIL BY <2>3 DEF Conflicts, Overlaps
    <2>5. x.lock[i] = w.lock[i] BY <2>1, <2>4
    <2>6. i \in Conflicts(x, p, l.type, l.first, l.last) BY <2>3, <2>5 DEF Conflicts
    <2> QED BY <2>6
  <1> QED BY <1>2, <1>3, <1>4, <1>5, <1>6, <1>7 DEF AllRight, PipeRight, StillAwaited

(* Nothing but entries of processes that get calmer changes. *)
LEMMA OnlyCalmer ==
    ASSUME NEW x, NEW w, NEW L, WorldOK(w), WorldOK(x), AllRight(w, L),
           x.filp = w.filp, x.vnode = w.vnode, x.lock = w.lock,
           \A p \in Proc : CalmEntry(x.fproc[p], w.fproc[p]),
           \A p \in Proc : OnPipe(x.fproc[p]) =>
               x.fproc[p].filp[x.fproc[p].susp.fd] = w.fproc[p].filp[w.fproc[p].susp.fd]
    PROVE  AllRight(x, L) /\ Calmer(x, w)
  <1>1. Calmer(x, w) BY DEF Calmer, FilpOf
  <1>2. \A b : find_filp(x, "pipe", b) = find_filp(w, "pipe", b) BY DEF find_filp
  <1>3. OneWay(x) BY DEF OneWay, AllRight, PipeRight
  <1>4. StillAwaited(x, w, L) BY <1>2, <1>3 DEF StillAwaited, AllRight, PipeRight
  <1> QED BY <1>1, <1>4, CalmerRight DEF AllRight
-----------------------------------------------------------------------------
(* Waking processes leaves those who are not woken as they were.           *)

LEMMA RevivedCalm ==
    ASSUME NEW g \in ProcEntries, EntryOK(g), g.blocked_on = "NONE" => g.susp.call = NIL
    PROVE  /\ CalmEntry(revive(g), g) /\ ~Pends(revive(g))
           /\ revive(g).filp = g.filp
           /\ OnPipe(revive(g)) => revive(g).susp.fd = g.susp.fd
  BY DEF revive, Retries, ProcEntries, EntryOK, CalmEntry, Pends, OnPipe, NoCall

LEMMA SameCalm ==
    ASSUME NEW g \in ProcEntries, g.blocked_on = "NONE" => g.susp.call = NIL
    PROVE  CalmEntry(g, g)
  BY DEF CalmEntry

(* The processes of S are woken. *)
Woken(x, w, S) ==
    /\ WorldOK(x) /\ SameFiles(x, w)
    /\ \A p \in Proc : x.fproc[p] = IF p \in S THEN revive(w.fproc[p]) ELSE w.fproc[p]

LEMMA WokenRight ==
    ASSUME NEW w, NEW L, WorldOK(w), AllRight(w, L), NEW S, NEW x, Woken(x, w, S)
    PROVE  /\ AllRight(x, L) /\ Calmer(x, w)
           /\ \A p \in Proc : Pends(x.fproc[p]) => p \notin S
  <1>1. \A p \in Proc : w.fproc[p] \in ProcEntries /\ EntryOK(w.fproc[p]) BY DEF WorldOK, Typed
  <1>2. \A p \in Proc : w.fproc[p].blocked_on = "NONE" => w.fproc[p].susp.call = NIL
    BY DEF AllRight, PipeRight, NothingKept
  <1>3. ASSUME NEW p \in Proc
        PROVE  /\ CalmEntry(x.fproc[p], w.fproc[p])
               /\ OnPipe(x.fproc[p]) =>
                     x.fproc[p].filp[x.fproc[p].susp.fd] = w.fproc[p].filp[w.fproc[p].susp.fd]
               /\ Pends(x.fproc[p]) => p \notin S
    <2>1. CASE p \in S
      <3>1. x.fproc[p] = revive(w.fproc[p]) BY <2>1 DEF Woken
      <3> QED BY <1>1, <1>2, <3>1, RevivedCalm
    <2>2. CASE p \notin S
      <3>1. x.fproc[p] = w.fproc[p] BY <2>2 DEF Woken
      <3> QED BY <1>1, <1>2, <2>2, <3>1, SameCalm
    <2> QED BY <2>1, <2>2
  <1>4. WorldOK(x) /\ x.filp = w.filp /\ x.vnode = w.vnode /\ x.lock = w.lock BY DEF Woken, SameFiles
  <1> QED BY <1>3, <1>4, OnlyCalmer

(* release() of as many as are counted, or as there are, wakes them all. *)
LEMMA ReleaseRight ==
    ASSUME NEW w, NEW L, WorldOK(w), AllRight(w, L), NEW call \in {"READ", "WRITE", "OPEN"},
           NEW count \in {w.susp, Cardinality(Proc)}
    PROVE  LET x == release(w, "pipe", call, count)
           IN  /\ AllRight(x, L) /\ Calmer(x, w) /\ Nobody(x, call) /\ SameFiles(x, w) /\ WorldOK(x)
               /\ \A p \in Proc : ~Pends(w.fproc[p]) => x.fproc[p] = w.fproc[p]
  <1> DEFINE hanging == Hanging(w, "pipe", call)
             chosen  == {p \in hanging : Cardinality({q \in hanging : q <= p}) <= count}
             x       == release(w, "pipe", call, count)
  <1>1. hanging \in SUBSET Proc /\ chosen \in SUBSET hanging BY DEF Hanging
  <1>2. x.fproc = [p \in Proc |-> IF p \in chosen THEN revive(w.fproc[p]) ELSE w.fproc[p]]
    <2>1. IsWorld(w) BY DEF WorldOK, Typed
    <2> QED BY <2>1 DEF release, Hanging, ReviveAll, IsWorld
  <1>3. WorldOK(x) /\ SameFiles(x, w) BY ReleaseOK
  <1>4. \A p \in hanging : Cardinality({q \in hanging : q <= p}) <= count
    <2> TAKE p \in hanging
    <2> DEFINE T == {q \in hanging : q <= p}
               U == Waiting(w.fproc)
    <2>1. T \subseteq U
      <3> SUFFICES ASSUME NEW q \in hanging PROVE q \in U OBVIOUS
      <3>1. q \in Proc /\ w.fproc[q] \in ProcEntries /\ EntryOK(w.fproc[q]) BY <1>1 DEF WorldOK, Typed
      <3>2. /\ w.fproc[q].used /\ w.fproc[q].blocked_on # "NONE"
            /\ ~w.fproc[q].revived /\ w.fproc[q].susp.call = call
        BY DEF Hanging
      <3> QED BY <3>1, <3>2 DEF Waiting, EntryOK, ProcEntries
    <2>2. U \in SUBSET Proc BY DEF Waiting
    <2> HIDE DEF T, U
    <2>3. Cardinality(T) <= Cardinality(U) BY <2>1, <2>2, Countable, FS_Subset
    <2>4. Cardinality(U) <= Cardinality(Proc) BY <2>2, Constants, FS_Subset
    <2>5. w.susp = Cardinality(U) BY DEF U, WorldOK, Tallied
    <2>6. Cardinality(T) \in Nat /\ Cardinality(U) \in Nat /\ Cardinality(Proc) \in Nat
      BY <2>1, <2>2, Countable
    <2> QED BY <2>3, <2>4, <2>5, <2>6 DEF T
  <1>5. chosen = hanging BY <1>4
  <1> HIDE DEF chosen, x
  <1>6. Woken(x, w, hanging) BY <1>2, <1>3, <1>5 DEF Woken
  <1>7. /\ AllRight(x, L) /\ Calmer(x, w)
        /\ \A p \in Proc : Pends(x.fproc[p]) => p \notin hanging
    BY <1>6, WokenRight
  <1>8. Nobody(x, call)
    <2> SUFFICES ASSUME NEW p \in Proc, Awaits(x, p, call) PROVE FALSE BY DEF Nobody
    <2>1. p \notin hanging BY <1>7 DEF Awaits
    <2>2. x.fproc[p] = w.fproc[p] BY <1>6, <2>1 DEF Woken
    <2>3. Awaits(w, p, call) BY <2>2 DEF Awaits
    <2>4. OnPipe(w.fproc[p]) BY <2>3, AwaitedOn
    <2>5. FilpOf(w, p).vno = "pipe" BY <2>4 DEF AllRight, PipeRight, OnThePipe, OnPipe
    <2>6. p \in hanging BY <2>3, <2>5 DEF Hanging, Awaits, Pends, VnoOf, FilpOf
    <2> QED BY <2>1, <2>6
  <1>9. \A p \in Proc : ~Pends(w.fproc[p]) => x.fproc[p] = w.fproc[p]
    <2> SUFFICES ASSUME NEW p \in Proc, ~Pends(w.fproc[p]) PROVE p \notin hanging
      BY <1>6 DEF Woken
    <2> QED BY DEF Hanging, Pends
  <1> QED BY <1>3, <1>7, <1>8, <1>9 DEF x

LEMMA LockReviveRight ==
    ASSUME NEW w, NEW L, WorldOK(w), AllRight(w, L \ {"FCNTL"})
    PROVE  AllRight(lock_revive(w), L) /\ Calmer(lock_revive(w), w)
  <1> DEFINE S == {p \in Proc : w.fproc[p].used /\ w.fproc[p].blocked_on = "LOCK"}
             x == lock_revive(w)
  <1>1. x.fproc = [p \in Proc |-> IF p \in S THEN revive(w.fproc[p]) ELSE w.fproc[p]]
    <2>1. IsWorld(w) BY DEF WorldOK, Typed
    <2> QED BY <2>1 DEF lock_revive, ReviveAll, IsWorld
  <1>2. WorldOK(x) /\ SameFiles(x, w) BY LockReviveOK
  <1> HIDE DEF x
  <1>3. Woken(x, w, S) BY <1>1, <1>2 DEF Woken
  <1>4. AllRight(x, L \ {"FCNTL"}) /\ Calmer(x, w) /\ \A p \in Proc : Pends(x.fproc[p]) => p \notin S
    BY <1>3, WokenRight
  <1>5. Nobody(x, "FCNTL")
    <2> SUFFICES ASSUME NEW p \in Proc, Awaits(x, p, "FCNTL") PROVE FALSE BY DEF Nobody
    <2>1. p \notin S BY <1>4 DEF Awaits
    <2>2. x.fproc[p] = w.fproc[p] BY <1>3, <2>1 DEF Woken
    <2>3. Awaits(w, p, "FCNTL") BY <2>2 DEF Awaits
    <2>4. w.fproc[p].blocked_on = "LOCK" BY <2>3, AwaitedOn
    <2> QED BY <2>1, <2>3, <2>4 DEF Awaits, Pends
  <1>6. LockersRight(x) BY <1>5 DEF LockersRight, Nobody
  <1> QED BY <1>4, <1>6 DEF AllRight, x
(* Only the entry of p changes, and it gets calmer. *)
LEMMA OneCalmer ==
    ASSUME NEW x, NEW w, NEW L, WorldOK(w), WorldOK(x), AllRight(w, L), NEW p \in Proc,
           x.filp = w.filp, x.vnode = w.vnode, x.lock = w.lock,
           \A q \in Proc : q # p => x.fproc[q] = w.fproc[q],
           CalmEntry(x.fproc[p], w.fproc[p]),
           OnPipe(x.fproc[p]) =>
               x.fproc[p].filp[x.fproc[p].susp.fd] = w.fproc[p].filp[w.fproc[p].susp.fd]
    PROVE  AllRight(x, L) /\ Calmer(x, w)
  <1>1. \A q \in Proc : CalmEntry(w.fproc[q], w.fproc[q])
    BY DEF CalmEntry, AllRight, PipeRight, NothingKept
  <1>2. \A q \in Proc : CalmEntry(x.fproc[q], w.fproc[q]) BY <1>1
  <1>3. \A q \in Proc : OnPipe(x.fproc[q]) =>
            x.fproc[q].filp[x.fproc[q].susp.fd] = w.fproc[q].filp[w.fproc[q].susp.fd]
    OBVIOUS
  <1> QED BY <1>2, <1>3, OnlyCalmer

LEMMA UnpauseRight ==
    ASSUME NEW w, NEW L, WorldOK(w), AllRight(w, L), NEW p \in Proc, w.fproc[p].used
    PROVE  AllRight(unpause(w, p), L) /\ Calmer(unpause(w, p), w)
  <1> DEFINE x == unpause(w, p)
  <1>1. IsWorld(w) /\ w.fproc \in [Proc -> ProcEntries] BY DEF WorldOK, Typed
  <1>2. w.fproc[p] \in ProcEntries BY <1>1
  <1>3. CASE w.fproc[p].blocked_on = "NONE"
    <2>1. x = w BY <1>3 DEF unpause
    <2>2. CalmEntry(x.fproc[p], w.fproc[p]) BY <2>1 DEF CalmEntry, AllRight, PipeRight, NothingKept
    <2> HIDE DEF x
    <2>3. AllRight(x, L) /\ Calmer(x, w) BY <2>1, <2>2, OneCalmer
    <2> QED BY <2>3 DEF x
  <1>4. CASE w.fproc[p].blocked_on # "NONE"
    <2>1. x.filp = w.filp /\ x.vnode = w.vnode /\ x.lock = w.lock
      BY <1>1, <1>4 DEF unpause, IsWorld
    <2>2. \A q \in Proc : q # p => x.fproc[q] = w.fproc[q]
      BY <1>1, <1>4 DEF unpause, IsWorld
    <2>3. x.fproc[p].blocked_on = "NONE" /\ x.fproc[p].susp = NoCall
      BY <1>1, <1>2, <1>4 DEF unpause, IsWorld, ProcEntries
    <2>4. WorldOK(x) BY UnpauseOK
    <2> HIDE DEF x
    <2>5. CalmEntry(x.fproc[p], w.fproc[p]) /\ ~OnPipe(x.fproc[p])
      BY <2>3 DEF CalmEntry, OnPipe, Pends, NoCall
    <2>6. AllRight(x, L) /\ Calmer(x, w) BY <2>1, <2>2, <2>4, <2>5, OneCalmer
    <2> QED BY <2>6 DEF x
  <1> QED BY <1>3, <1>4

LEMMA ResumedRight ==
    ASSUME WorldOK(World), NEW L, AllRight(World, L), NEW p \in Reviving
    PROVE  AllRight(Resumed(p), L)
  <1> DEFINE x == Resumed(p)
  <1>1. IsWorld(World) /\ World.fproc \in [Proc -> ProcEntries] BY DEF WorldOK, Typed
  <1>2. p \in Proc BY DEF Reviving
  <1>3. World.fproc[p] \in ProcEntries BY <1>1, <1>2
  <1>4. x.filp = World.filp /\ x.vnode = World.vnode /\ x.lock = World.lock
    BY DEF Resumed, World
  <1>5. \A q \in Proc : q # p => x.fproc[q] = World.fproc[q]
    BY <1>1 DEF Resumed, IsWorld
  <1>6. x.fproc[p].blocked_on = "NONE" /\ x.fproc[p].susp = NoCall
    BY <1>1, <1>2, <1>3 DEF Resumed, IsWorld, ProcEntries
  <1>7. WorldOK(x) BY ResumedOK
  <1> HIDE DEF x
  <1>8. CalmEntry(x.fproc[p], World.fproc[p]) /\ ~OnPipe(x.fproc[p])
    BY <1>6 DEF CalmEntry, OnPipe, Pends, NoCall
  <1>9. AllRight(x, L) BY <1>2, <1>4, <1>5, <1>7, <1>8, OneCalmer
  <1> QED BY <1>9 DEF x

LEMMA PartialRight ==
    ASSUME NEW w, NEW L, WorldOK(w), AllRight(w, L), NEW p \in Proc, w.fproc[p].used, NEW n \in Nat
    PROVE  AllRight([w EXCEPT !.fproc[p].partial = n], L)
  <1> DEFINE x == [w EXCEPT !.fproc[p].partial = n]
  <1>1. IsWorld(w) /\ w.fproc \in [Proc -> ProcEntries] BY DEF WorldOK, Typed
  <1>2. w.fproc[p] \in ProcEntries BY <1>1
  <1>3. x.filp = w.filp /\ x.vnode = w.vnode /\ x.lock = w.lock BY <1>1 DEF IsWorld
  <1>4. \A q \in Proc : q # p => x.fproc[q] = w.fproc[q] BY <1>1 DEF IsWorld
  <1>5. /\ x.fproc[p].used = w.fproc[p].used /\ x.fproc[p].filp = w.fproc[p].filp
        /\ x.fproc[p].revived = w.fproc[p].revived /\ x.fproc[p].susp = w.fproc[p].susp
        /\ x.fproc[p].blocked_on = w.fproc[p].blocked_on
    BY <1>1, <1>2 DEF IsWorld, ProcEntries
  <1>6. WorldOK(x) BY PartialOK
  <1> HIDE DEF x
  <1>7. CalmEntry(x.fproc[p], w.fproc[p])
    BY <1>5 DEF CalmEntry, OnPipe, Pends, AllRight, PipeRight, NothingKept
  <1>8. AllRight(x, L) BY <1>3, <1>4, <1>5, <1>6, <1>7, OneCalmer
  <1> QED BY <1>8 DEF x

(* A state differs in nothing that matters here. *)
LEMMA SameRight ==
    ASSUME NEW x, NEW w, NEW L, AllRight(w, L),
           x.fproc = w.fproc, x.filp = w.filp, x.vnode = w.vnode, x.lock = w.lock
    PROVE  AllRight(x, L)
  <1>1. \A b : find_filp(x, "pipe", b) = find_filp(w, "pipe", b) BY DEF find_filp
  <1>2. \A p, call : Awaits(x, p, call) <=> Awaits(w, p, call) BY DEF Awaits
  <1>3. \A p : FilpOf(x, p) = FilpOf(w, p) BY DEF FilpOf
  <1>4. \A p, t, a, b : Conflicts(x, p, t, a, b) = Conflicts(w, p, t, a, b) BY DEF Conflicts
  <1>5. NothingKept(x) /\ OneWay(x) /\ OnThePipe(x)
    BY <1>3 DEF AllRight, PipeRight, NothingKept, OneWay, OnThePipe
  <1>6. ReadersRight(x) /\ WritersRight(x)
    BY <1>1, <1>2 DEF AllRight, PipeRight, ReadersRight, WritersRight
  <1>7. "OPEN" \in L => OpenersRight(x) BY <1>1, <1>2, <1>3 DEF AllRight, OpenersRight
  <1>8. "FCNTL" \in L => LockersRight(x) BY <1>2, <1>4 DEF AllRight, LockersRight
  <1> QED BY <1>5, <1>6, <1>7, <1>8 DEF AllRight, PipeRight
-----------------------------------------------------------------------------
(* A process p that was not suspended is suspended, with its call s.       *)
MayWait(w, p, s, L) ==
    LET f == w.filp[w.fproc[p].filp[s.fd]]
        l == s.flock
    IN  /\ s.call = "READ" =>
              /\ f.vno = "pipe" /\ w.vnode.size = 0 /\ find_filp(w, "pipe", "W") # {}
              /\ Nobody(w, "WRITE")
        /\ s.call = "WRITE" =>
              f.vno = "pipe" /\ find_filp(w, "pipe", "R") # {} /\ Nobody(w, "READ")
        /\ s.call = "OPEN" =>
              f.vno = "pipe" /\ find_filp(w, "pipe", Other(f.mode)) = {}
        /\ s.call = "FCNTL" => ("FCNTL" \in L => Conflicts(w, p, l.type, l.first, l.last) # {})

(* Nobody but p changes, and p waits with the call s. *)
WaitsNow(x, w, p, s) ==
    /\ WorldOK(x) /\ x.filp = w.filp /\ x.vnode = w.vnode /\ x.lock = w.lock
    /\ \A q \in Proc : q # p => x.fproc[q] = w.fproc[q]
    /\ Pends(x.fproc[p]) /\ x.fproc[p].susp = s /\ x.fproc[p].filp = w.fproc[p].filp
    /\ s.call \in {"READ", "WRITE", "OPEN", "FCNTL"}

LEMMA WaitsRight ==
    ASSUME NEW w, NEW L, WorldOK(w), AllRight(w, L), NEW p \in Proc, w.fproc[p].blocked_on = "NONE",
           NEW s, MayWait(w, p, s, L), NEW x, WaitsNow(x, w, p, s)
    PROVE  AllRight(x, L)
  <1>1. \A b : find_filp(x, "pipe", b) = find_filp(w, "pipe", b) BY DEF find_filp, WaitsNow
  <1>2. \A q \in Proc : \A call : q # p => (Awaits(x, q, call) <=> Awaits(w, q, call))
    BY DEF Awaits, WaitsNow
  <1>3. \A call : Awaits(x, p, call) <=> call = s.call BY DEF WaitsNow, Awaits
  <1>4. \A q \in Proc : q # p => FilpOf(x, q) = FilpOf(w, q) BY DEF FilpOf, WaitsNow
  <1>5. FilpOf(x, p) = w.filp[w.fproc[p].filp[s.fd]] BY DEF FilpOf, WaitsNow
  <1>6. \A q, t, a, b : Conflicts(x, q, t, a, b) = Conflicts(w, q, t, a, b) BY DEF Conflicts, WaitsNow
  <1>7. NothingKept(x)
    BY DEF NothingKept, AllRight, PipeRight, WaitsNow, Pends
  <1>8. OneWay(x) BY DEF OneWay, AllRight, PipeRight, WaitsNow
  <1>9. OnThePipe(x)
    <2> SUFFICES ASSUME NEW q \in Proc, OnPipe(x.fproc[q]) PROVE FilpOf(x, q).vno = "pipe"
      BY DEF OnThePipe, OnPipe
    <2>1. CASE q = p
      <3>1. Awaits(x, p, s.call) /\ WorldOK(x) BY <1>3 DEF WaitsNow
      <3>2. s.call \in {"READ", "WRITE", "OPEN"} BY <2>1, <3>1, AwaitedOn
      <3> QED BY <1>5, <2>1, <3>2 DEF MayWait
    <2>2. CASE q # p
      <3>1. x.fproc[q] = w.fproc[q] BY <2>2 DEF WaitsNow
      <3> QED BY <1>4, <2>2, <3>1 DEF AllRight, PipeRight, OnThePipe, OnPipe
    <2> QED BY <2>1, <2>2
  <1>10. ReadersRight(x)
    <2>1. \A q \in Proc : Awaits(w, q, "READ") => w.vnode.size = 0 /\ find_filp(w, "pipe", "W") # {}
      BY DEF AllRight, PipeRight, ReadersRight
    <2>2. x.vnode = w.vnode BY DEF WaitsNow
    <2>3. s.call = "READ" => w.vnode.size = 0 /\ find_filp(w, "pipe", "W") # {} BY DEF MayWait
    <2> QED BY <1>1, <1>2, <1>3, <2>1, <2>2, <2>3 DEF ReadersRight
  <1>11. WritersRight(x)
    <2>1. \A q \in Proc : Awaits(w, q, "WRITE") =>
              find_filp(w, "pipe", "R") # {} /\ \A z \in Proc : ~Awaits(w, z, "READ")
      BY DEF AllRight, PipeRight, WritersRight
    <2>2. s.call = "WRITE" => find_filp(w, "pipe", "R") # {} /\ \A z \in Proc : ~Awaits(w, z, "READ")
      BY DEF MayWait, Nobody
    <2>3. s.call = "READ" => \A z \in Proc : ~Awaits(w, z, "WRITE") BY DEF MayWait, Nobody
    <2> QED BY <1>1, <1>2, <1>3, <2>1, <2>2, <2>3 DEF WritersRight
  <1>12. "OPEN" \in L => OpenersRight(x)
    <2>1. "OPEN" \in L => \A q \in Proc : Awaits(w, q, "OPEN") => find_filp(w, "pipe", Other(FilpOf(w, q).mode)) = {}
      BY DEF AllRight, OpenersRight
    <2>2. s.call = "OPEN" => find_filp(w, "pipe", Other(FilpOf(x, p).mode)) = {} BY <1>5 DEF MayWait
    <2> QED BY <1>1, <1>2, <1>3, <1>4, <2>1, <2>2 DEF OpenersRight
  <1>13. "FCNTL" \in L => LockersRight(x)
    <2> SUFFICES ASSUME "FCNTL" \in L, NEW q \in Proc, Awaits(x, q, "FCNTL"), NEW l, l = x.fproc[q].susp.flock
                 PROVE  Conflicts(w, q, l.type, l.first, l.last) # {}
      BY <1>6 DEF LockersRight
    <2>1. CASE q = p
      <3>1. s.call = "FCNTL" /\ l = s.flock BY <1>3, <2>1 DEF WaitsNow
      <3> QED BY <2>1, <3>1 DEF MayWait
    <2>2. CASE q # p
      <3>1. Awaits(w, q, "FCNTL") /\ l = w.fproc[q].susp.flock BY <1>2, <2>2 DEF WaitsNow
      <3> QED BY <3>1 DEF AllRight, LockersRight
    <2> QED BY <2>1, <2>2
  <1>14. PipeShape(x.vnode) BY DEF AllRight, PipeRight, WaitsNow
  <1> QED BY <1>7, <1>8, <1>9, <1>10, <1>11, <1>12, <1>13, <1>14 DEF AllRight, PipeRight

(* pipe_suspend() and suspend(). *)
LEMMA PipeSuspendRight ==
    ASSUME NEW w, NEW L, WorldOK(w), AllRight(w, L),
           NEW p \in Proc, w.fproc[p].used, w.fproc[p].blocked_on = "NONE",
           NEW call \in {"READ", "WRITE"}, NEW fd \in Fd, w.fproc[p].filp[fd] # NIL, NEW n \in Nat,
           MayWait(w, p, [NoCall EXCEPT !.call = call, !.fd = fd, !.nbytes = n], L)
    PROVE  AllRight(pipe_suspend(w, p, call, fd, n), L)
  <1> DEFINE s == [NoCall EXCEPT !.call = call, !.fd = fd, !.nbytes = n]
             x == pipe_suspend(w, p, call, fd, n)
  <1>1. IsWorld(w) /\ w.fproc \in [Proc -> ProcEntries] BY DEF WorldOK, Typed
  <1>2. w.fproc[p] \in ProcEntries BY <1>1
  <1>3. x.filp = w.filp /\ x.vnode = w.vnode /\ x.lock = w.lock BY <1>1 DEF pipe_suspend, IsWorld
  <1>4. \A q \in Proc : q # p => x.fproc[q] = w.fproc[q] BY <1>1 DEF pipe_suspend, IsWorld
  <1>5. /\ x.fproc[p].used /\ x.fproc[p].blocked_on = "PIPE"
        /\ x.fproc[p].susp = s /\ x.fproc[p].filp = w.fproc[p].filp
    BY <1>1, <1>2 DEF pipe_suspend, IsWorld, ProcEntries
  <1>6. WorldOK(x) /\ ~x.fproc[p].revived BY PipeSuspendOK
  <1>7. s.call = call BY DEF NoCall
  <1> HIDE DEF x, s
  <1>8. WaitsNow(x, w, p, s) BY <1>3, <1>4, <1>5, <1>6, <1>7 DEF WaitsNow, Pends
  <1>9. AllRight(x, L)
    <2>1. MayWait(w, p, s, L) BY DEF s
    <2> QED BY <1>8, <2>1, WaitsRight
  <1> QED BY <1>9 DEF x

LEMMA SuspendRight ==
    ASSUME NEW w, NEW L, WorldOK(w), AllRight(w, L),
           NEW p \in Proc, w.fproc[p].used, w.fproc[p].blocked_on = "NONE",
           NEW why \in {"POPEN", "LOCK"}, NEW s \in Susps, w.fproc[p].filp[s.fd] # NIL,
           why = "POPEN" => s.call = "OPEN", why = "LOCK" => s.call = "FCNTL", MayWait(w, p, s, L)
    PROVE  AllRight(suspend(w, p, why, s), L)
  <1> DEFINE x == suspend(w, p, why, s)
  <1>1. IsWorld(w) /\ w.fproc \in [Proc -> ProcEntries] BY DEF WorldOK, Typed
  <1>2. w.fproc[p] \in ProcEntries /\ EntryOK(w.fproc[p]) BY <1>1 DEF WorldOK
  <1>3. x.filp = w.filp /\ x.vnode = w.vnode /\ x.lock = w.lock BY <1>1 DEF suspend, IsWorld
  <1>4. \A q \in Proc : q # p => x.fproc[q] = w.fproc[q] BY <1>1 DEF suspend, IsWorld
  <1>5. /\ x.fproc[p].used /\ x.fproc[p].blocked_on = why /\ x.fproc[p].revived = w.fproc[p].revived
        /\ x.fproc[p].susp = s /\ x.fproc[p].filp = w.fproc[p].filp
    BY <1>1, <1>2 DEF suspend, IsWorld, ProcEntries
  <1>6. WorldOK(x) BY SuspendOK
  <1>7. ~w.fproc[p].revived BY <1>2 DEF EntryOK
  <1> HIDE DEF x
  <1>8. WaitsNow(x, w, p, s) BY <1>3, <1>4, <1>5, <1>6, <1>7 DEF WaitsNow, Pends
  <1>9. AllRight(x, L) BY <1>8, WaitsRight
  <1> QED BY <1>9 DEF x
-----------------------------------------------------------------------------
(* Reading and writing: who may go on has woken the readers, or there were  *)
(* none; who has to wait has woken the other side, or it does not wait.     *)
CheckedRight(c, call, L) ==
    /\ AllRight(c.w, L)
    /\ c.r > 0 => Nobody(c.w, "READ")
    /\ (c.r > 0 /\ call = "WRITE") => find_filp(c.w, "pipe", "R") # {}
    /\ (c.r = SUSPEND /\ call = "READ") =>
           c.w.vnode.size = 0 /\ find_filp(c.w, "pipe", "W") # {} /\ Nobody(c.w, "WRITE")
    /\ (c.r = SUSPEND /\ call = "WRITE") =>
           find_filp(c.w, "pipe", "R") # {} /\ Nobody(c.w, "READ")

LEMMA NobodyReads ==
    ASSUME NEW w, NEW L, AllRight(w, L), w.vnode.size # 0
    PROVE  Nobody(w, "READ")
  BY DEF AllRight, PipeRight, ReadersRight, Nobody

LEMMA PipeCheckRight ==
    ASSUME NEW w, NEW L, WorldOK(w), AllRight(w, L),
           NEW call \in {"READ", "WRITE"}, NEW nonblock, NEW n \in Nat
    PROVE  CheckedRight(Xpipe_check(w, call, nonblock, n), call, L)
  <1> DEFINE c == Xpipe_check(w, call, nonblock, n)
             v == w.vnode
             wait == IF nonblock THEN EAGAIN ELSE SUSPEND
             y(k) == release(w, "pipe", k, w.susp)
  <1>1. ASSUME NEW k \in {"READ", "WRITE"}
        PROVE  /\ AllRight(y(k), L) /\ Nobody(y(k), k) /\ y(k).vnode = v
               /\ \A b : find_filp(y(k), "pipe", b) = find_filp(w, "pipe", b)
    <2> DEFINE x == release(w, "pipe", k, w.susp)
    <2>1. AllRight(x, L) /\ Nobody(x, k) /\ SameFiles(x, w) BY ReleaseRight
    <2>2. x.filp = w.filp /\ x.vnode = w.vnode BY <2>1 DEF SameFiles
    <2> HIDE DEF x
    <2>3. \A b : find_filp(x, "pipe", b) = find_filp(w, "pipe", b) BY <2>2 DEF find_filp
    <2> QED BY <2>1, <2>2, <2>3 DEF x
  <1>2. /\ v.rd \in Nat /\ v.wr \in Nat /\ v.size \in Nat /\ v.wr <= PIPE_BUF /\ PIPE_BUF \in Nat
        /\ PIPE_BUF > 0
    <2>1. v \in Pipes BY DEF WorldOK, Typed
    <2> QED BY <2>1, VfsAssumption DEF Pipes
  <1>3. v.size = v.wr /\ (v.rd < v.size \/ (v.rd = 0 /\ v.size = 0))
    BY DEF AllRight, PipeRight, PipeShape
  <1>4. wait \in Int /\ ~(wait > 0) BY DEF EAGAIN, SUSPEND
  <1> HIDE DEF wait, y
  <1>5. CASE call = "READ"
    <2>1. c = IF v.rd < v.size THEN Ret(w, n)
             ELSE IF find_filp(w, "pipe", "W") = {} THEN Ret(w, 0)
             ELSE Ret(y("WRITE"), wait)
      BY <1>5 DEF Xpipe_check, wait, y
    <2> HIDE DEF c
    <2>2. CheckedRight(c, call, L)
      <3>1. CASE v.rd < v.size
        <4>1. c.w = w /\ c.r = n BY <2>1, <3>1 DEF Ret
        <4>2. Nobody(w, "READ") BY <1>2, <3>1, NobodyReads
        <4>3. c.r # SUSPEND BY <4>1 DEF SUSPEND
        <4> QED BY <1>5, <4>1, <4>2, <4>3 DEF CheckedRight
      <3>2. CASE ~(v.rd < v.size) /\ find_filp(w, "pipe", "W") = {}
        <4>1. c.w = w /\ c.r = 0 BY <2>1, <3>2 DEF Ret
        <4>2. c.r # SUSPEND /\ ~(c.r > 0) BY <4>1 DEF SUSPEND
        <4> QED BY <4>1, <4>2 DEF CheckedRight
      <3>3. CASE ~(v.rd < v.size) /\ find_filp(w, "pipe", "W") # {}
        <4>1. c.w = y("WRITE") /\ c.r = wait BY <2>1, <3>3 DEF Ret
        <4>2. AllRight(c.w, L) /\ Nobody(c.w, "WRITE") /\ c.w.vnode.size = 0 /\ find_filp(c.w, "pipe", "W") # {}
          BY <1>1, <1>2, <1>3, <3>3, <4>1
        <4>3. ~(c.r > 0) BY <1>4, <4>1
        <4> QED BY <1>5, <4>2, <4>3 DEF CheckedRight
      <3> QED BY <3>1, <3>2, <3>3
    <2> QED BY <2>2 DEF c
  <1>6. CASE call = "WRITE"
    <2>1. c = IF find_filp(w, "pipe", "R") = {} THEN Ret(w, EPIPE)
        ELSE IF v.wr + n <= PIPE_BUF
             THEN Ret(IF v.wr = 0 THEN y("READ") ELSE w, n)
        ELSE IF n > PIPE_BUF /\ v.wr < PIPE_BUF
             THEN Ret(y("READ"), PIPE_BUF - v.wr)
        ELSE Ret(w, wait)
      BY <1>6 DEF Xpipe_check, wait, y
    <2> HIDE DEF c
    <2>2. CheckedRight(c, call, L)
      <3>0. v.wr # 0 => Nobody(w, "READ") BY <1>3, NobodyReads
      <3>1. CASE find_filp(w, "pipe", "R") = {}
        <4>1. c.w = w /\ c.r = -32 BY <2>1, <3>1 DEF Ret, EPIPE
        <4>2. c.r # SUSPEND /\ ~(c.r > 0) BY <4>1 DEF SUSPEND
        <4> QED BY <4>1, <4>2 DEF CheckedRight
      <3>2. CASE find_filp(w, "pipe", "R") # {} /\ v.wr + n <= PIPE_BUF
        <4>1. c.w = (IF v.wr = 0 THEN y("READ") ELSE w) /\ c.r = n BY <2>1, <3>2 DEF Ret
        <4>2. AllRight(c.w, L) /\ Nobody(c.w, "READ") /\ find_filp(c.w, "pipe", "R") # {}
          BY <1>1, <3>0, <3>2, <4>1
        <4> QED BY <1>6, <4>2 DEF CheckedRight
      <3>3. CASE find_filp(w, "pipe", "R") # {} /\ ~(v.wr + n <= PIPE_BUF) /\ n > PIPE_BUF /\ v.wr < PIPE_BUF
        <4>1. c.w = y("READ") BY <2>1, <3>3 DEF Ret
        <4>2. AllRight(c.w, L) /\ Nobody(c.w, "READ") /\ find_filp(c.w, "pipe", "R") # {}
          BY <1>1, <3>3, <4>1
        <4> QED BY <1>6, <4>2 DEF CheckedRight
      <3>4. CASE find_filp(w, "pipe", "R") # {} /\ ~(v.wr + n <= PIPE_BUF) /\ ~(n > PIPE_BUF /\ v.wr < PIPE_BUF)
        <4>1. c.w = w BY <2>1, <3>4 DEF Ret
        <4>2. v.wr # 0 BY <1>2, <3>4
        <4> QED BY <1>6, <3>0, <3>4, <4>1, <4>2 DEF CheckedRight
      <3> QED BY <3>1, <3>2, <3>3, <3>4
    <2> QED BY <2>2 DEF c
  <1> QED BY <1>5, <1>6

LEMMA MovedRight ==
    ASSUME NEW v \in Pipes, PipeShape(v), NEW call \in {"READ", "WRITE"}, NEW size \in Nat, size > 0
    PROVE  PipeShape(Moved(v, call, size))
  <1>1. v.rd \in Nat /\ v.wr \in Nat /\ v.size \in Nat /\ DOMAIN v = {"size", "rd", "wr"}
    BY DEF Pipes
  <1>2. v.size = v.wr /\ (v.rd < v.size \/ (v.rd = 0 /\ v.size = 0)) BY DEF PipeShape
  <1>3. CASE call = "WRITE"
    <2> DEFINE S == {v.size, v.wr + size}
               m == Max(S)
    <2>1. m \in S /\ \A k \in S : m >= k
      <3>1. \E k \in S : \A z \in S : k >= z BY <1>1
      <3> QED BY <3>1 DEF Max
    <2>2. m = v.wr + size BY <1>1, <1>2, <2>1
    <2> HIDE DEF m
    <2>3. Moved(v, call, size) = [v EXCEPT !.wr = @ + size, !.size = m] BY <1>3 DEF Moved, m
    <2> DEFINE u == Moved(v, call, size)
    <2>4. u.wr = v.wr + size /\ u.size = m /\ u.rd = v.rd BY <1>1, <2>3
    <2> QED BY <1>1, <1>2, <2>2, <2>4 DEF PipeShape
  <1>4. CASE call = "READ" /\ v.rd + size >= v.size
    BY <1>1, <1>4 DEF Moved, EmptyPipe, PipeShape
  <1>5. CASE call = "READ" /\ ~(v.rd + size >= v.size)
    <2> DEFINE u == Moved(v, call, size)
    <2>1. u = [v EXCEPT !.rd = @ + size] BY <1>5 DEF Moved
    <2>2. u.wr = v.wr /\ u.size = v.size /\ u.rd = v.rd + size BY <1>1, <2>1
    <2> QED BY <1>1, <1>2, <1>5, <2>2 DEF PipeShape
  <1> QED BY <1>3, <1>4, <1>5

(* Bytes come or go while nobody waits for some. *)
LEMMA BytesRight ==
    ASSUME NEW w, NEW L, WorldOK(w), AllRight(w, L), Nobody(w, "READ"),
           NEW x, WorldOK(x), x.fproc = w.fproc, x.filp = w.filp, x.lock = w.lock, PipeShape(x.vnode)
    PROVE  AllRight(x, L) /\ Nobody(x, "READ")
  <1>1. Nobody(x, "READ") BY DEF Nobody, Awaits
  <1>2. \A b : find_filp(x, "pipe", b) = find_filp(w, "pipe", b) BY DEF find_filp
  <1>3. Calmer(x, w) BY DEF Calmer, CalmEntry, FilpOf, AllRight, PipeRight, NothingKept
  <1>4. OneWay(x) BY DEF OneWay, AllRight, PipeRight
  <1>5. StillAwaited(x, w, L) BY <1>1, <1>2, <1>4 DEF StillAwaited, AllRight, PipeRight
  <1>6. PipeRight(w) BY DEF AllRight
  <1> QED BY <1>1, <1>3, <1>5, <1>6, CalmerRight
LEMMA RwPipeRight ==
    ASSUME NEW w, NEW L, WorldOK(w), AllRight(w, L),
           NEW p \in Proc, w.fproc[p].used, w.fproc[p].blocked_on = "NONE",
           NEW call \in {"READ", "WRITE"}, NEW fd \in Fd, w.fproc[p].filp[fd] # NIL,
           w.filp[w.fproc[p].filp[fd]].vno = "pipe", NEW n \in Nat, NEW ok
    PROVE  AllRight(rw_pipe(w, p, call, fd, n, ok).w, L)
  <1> DEFINE nonblock == w.filp[w.fproc[p].filp[fd]].nonblock
             c == Xpipe_check(w, call, nonblock, n)
             size == IF call = "READ" THEN Min({c.r, w.vnode.size - w.vnode.rd}) ELSE c.r
             w1 == [c.w EXCEPT !.vnode = Moved(@, call, size)]
             cum_io == w.fproc[p].partial + size
             r == rw_pipe(w, p, call, fd, n, ok)
             Call(k) == [NoCall EXCEPT !.call = call, !.fd = fd, !.nbytes = k]
  <1>1. r = IF c.r <= 0
        THEN Ret(IF c.r = SUSPEND THEN pipe_suspend(c.w, p, call, fd, n) ELSE c.w, c.r)
        ELSE IF ~ok THEN Ret(c.w, EIO)
        ELSE IF c.r < n /\ ~nonblock
        THEN Ret([pipe_suspend(w1, p, call, fd, n - size) EXCEPT
                     !.fproc[p].partial = cum_io], SUSPEND)
        ELSE Ret([w1 EXCEPT !.fproc[p].partial = 0], cum_io)
    BY DEF rw_pipe
  <1> HIDE DEF r
  <1> HIDE DEF nonblock
  <1>0. Checked(c, w, p, call, n) /\ CheckedRight(c, call, L) BY PipeCheckOK, PipeCheckRight
  <1>2. /\ WorldOK(c.w) /\ c.w.fproc[p] = w.fproc[p] /\ c.w.vnode = w.vnode /\ c.w.filp = w.filp
        /\ c.r \in Int
        /\ c.r > 0 => IF call = "READ" THEN c.r = n /\ w.vnode.rd < w.vnode.size
                      ELSE c.r <= n /\ w.vnode.wr + c.r <= PIPE_BUF
    BY <1>0 DEF Checked
  <1>3. AllRight(c.w, L) BY <1>0 DEF CheckedRight
  <1> HIDE DEF c
  <1> SUFFICES AllRight(r.w, L) BY DEF r
  <1>4. \A k : Call(k).call = call /\ Call(k).fd = fd BY DEF NoCall
  <1> HIDE DEF Call
  <1>5. CASE c.r <= 0
    <2>1. CASE c.r = SUSPEND
      <3>1. MayWait(c.w, p, Call(n), L)
        <4>1. /\ call = "READ" => /\ c.w.vnode.size = 0 /\ find_filp(c.w, "pipe", "W") # {}
                                  /\ Nobody(c.w, "WRITE")
              /\ call = "WRITE" => find_filp(c.w, "pipe", "R") # {} /\ Nobody(c.w, "READ")
          BY <1>0, <2>1 DEF CheckedRight
        <4>2. c.w.filp[c.w.fproc[p].filp[fd]].vno = "pipe" BY <1>2
        <4> QED BY <1>4, <4>1, <4>2 DEF MayWait
      <3>2. AllRight(pipe_suspend(c.w, p, call, fd, n), L)
        BY <1>2, <1>3, <3>1, PipeSuspendRight DEF Call
      <3> QED BY <1>1, <1>5, <2>1, <3>2 DEF Ret
    <2>2. CASE c.r # SUSPEND BY <1>1, <1>3, <1>5, <2>2 DEF Ret
    <2> QED BY <2>1, <2>2
  <1>6. CASE c.r > 0
    <2>1. w.vnode \in Pipes /\ w.fproc[p] \in ProcEntries BY DEF WorldOK, Typed
    <2>2. /\ w.vnode.rd \in Nat /\ w.vnode.wr \in Nat /\ w.vnode.size \in Nat
          /\ w.fproc[p].partial \in Nat
      BY <2>1, Constants DEF Pipes, ProcEntries
    <2>3. size \in Nat /\ size > 0
      <3>1. CASE call = "READ"
        <4> DEFINE S == {c.r, w.vnode.size - w.vnode.rd}
        <4>1. S \subseteq Nat /\ S # {} /\ \A k \in S : k > 0 BY <1>2, <1>6, <2>2, <3>1
        <4>2. Min(S) \in S BY <4>1, MinIs
        <4>3. Min(S) \in Nat /\ Min(S) > 0 BY <4>1, <4>2
        <4> QED BY <3>1, <4>3
      <3> QED BY <1>2, <1>6, <3>1
    <2>4. Moved(w.vnode, call, size) \in Pipes /\ PipeShape(Moved(w.vnode, call, size))
      <3>1. call = "WRITE" => w.vnode.wr + size <= PIPE_BUF BY <1>2, <1>6
      <3> HIDE DEF size
      <3>2. PipeShape(w.vnode) BY DEF AllRight, PipeRight
      <3> QED BY <2>1, <2>3, <3>1, <3>2, MovedOK, MovedRight
    <2>5. c.r < n => n - size \in Nat /\ call = "WRITE"
      BY <1>2, <1>6
    <2> HIDE DEF size
    <2>6. IsWorld(c.w) /\ c.w.fproc \in [Proc -> ProcEntries] /\ c.w.panic \in {"", "partial"}
      BY <1>2 DEF WorldOK, Typed
    <2>7. /\ IsWorld(w1) /\ w1.fproc = c.w.fproc /\ w1.susp = c.w.susp /\ w1.rev = c.w.rev
          /\ w1.filp = c.w.filp /\ w1.panic = c.w.panic /\ w1.vnode = Moved(w.vnode, call, size)
          /\ w1.lock = c.w.lock
      BY <1>2, <2>6 DEF IsWorld
    <2> HIDE DEF w1
    <2>8. WorldOK(w1) /\ w1.fproc[p] = w.fproc[p] BY <1>2, <2>4, <2>6, <2>7, CountsKept
    <2>9. Nobody(c.w, "READ") BY <1>0, <1>6 DEF CheckedRight
    <2>10. AllRight(w1, L) /\ Nobody(w1, "READ") BY <1>2, <1>3, <2>4, <2>7, <2>8, <2>9, BytesRight
    <2>11. cum_io \in Nat BY <2>2, <2>3
    <2> HIDE DEF cum_io
    <2>12. CASE ~ok BY <1>1, <1>2, <1>3, <1>6, <2>12 DEF Ret
    <2>13. CASE ok /\ c.r < n /\ ~nonblock
      <3> DEFINE y == pipe_suspend(w1, p, call, fd, n - size)
      <3>1. WorldOK(y) /\ y.fproc[p].used BY <2>5, <2>8, <2>13, PipeSuspendOK
      <3>2. MayWait(w1, p, Call(n - size), L)
        <4>1. find_filp(c.w, "pipe", "R") # {} BY <1>0, <1>6, <2>5, <2>13 DEF CheckedRight
        <4>2. find_filp(w1, "pipe", "R") # {} BY <2>7, <4>1 DEF find_filp
        <4>3. w1.filp[w1.fproc[p].filp[fd]].vno = "pipe" BY <1>2, <2>7, <2>8
        <4> QED BY <1>4, <2>5, <2>10, <2>13, <4>2, <4>3 DEF MayWait
      <3>3. AllRight(y, L) BY <2>5, <2>8, <2>10, <2>13, <3>2, PipeSuspendRight DEF Call
      <3> HIDE DEF y
      <3>4. AllRight([y EXCEPT !.fproc[p].partial = cum_io], L) BY <2>11, <3>1, <3>3, PartialRight
      <3>5. r.w = [y EXCEPT !.fproc[p].partial = cum_io] BY <1>1, <1>2, <1>6, <2>13 DEF Ret, y
      <3> QED BY <3>4, <3>5
    <2>14. CASE ok /\ ~(c.r < n /\ ~nonblock)
      <3>1. AllRight([w1 EXCEPT !.fproc[p].partial = 0], L) BY <2>8, <2>10, PartialRight
      <3>2. r.w = [w1 EXCEPT !.fproc[p].partial = 0] BY <1>1, <1>2, <1>6, <2>14 DEF Ret
      <3> QED BY <3>1, <3>2
    <2> QED BY <2>12, <2>13, <2>14
  <1> QED BY <1>2, <1>5, <1>6

LEMMA ReadWriteRight ==
    ASSUME NEW w, NEW L, WorldOK(w), AllRight(w, L),
           NEW p \in Proc, w.fproc[p].used, w.fproc[p].blocked_on = "NONE",
           NEW call \in {"READ", "WRITE"}, NEW fd \in Fd, w.fproc[p].filp[fd] # NIL,
           w.filp[w.fproc[p].filp[fd]].vno = "pipe", NEW n \in Nat, NEW ok
    PROVE  AllRight(read_write(w, p, call, fd, n, ok).w, L)
  <1>1. CASE w.fproc[p].partial # 0
    <2> DEFINE x == [w EXCEPT !.panic = "partial"]
    <2>1. IsWorld(w) BY DEF WorldOK, Typed
    <2>2. x.fproc = w.fproc /\ x.filp = w.filp /\ x.vnode = w.vnode /\ x.lock = w.lock
      BY <2>1 DEF IsWorld
    <2> HIDE DEF x
    <2>3. AllRight(x, L) BY <2>2, SameRight
    <2> QED BY <1>1, <2>3 DEF read_write, Ret, x
  <1>2. CASE w.fproc[p].partial = 0
    BY <1>2, RwPipeRight DEF read_write
  <1> QED BY <1>1, <1>2
-----------------------------------------------------------------------------
(* Open files.                                                             *)

(* The filp that a suspended process waits on is in use. *)
LEMMA AwaitedFilp ==
    ASSUME NEW w, WorldOK(w), NEW p \in Proc, w.fproc[p].used, w.fproc[p].blocked_on # "NONE"
    PROVE  LET f == w.fproc[p].filp[w.fproc[p].susp.fd]
           IN  f \in Filp /\ w.filp[f].count > 0 /\ w.fproc[p].susp.fd \in Fd
  <1>1. w.fproc[p] \in ProcEntries /\ EntryOK(w.fproc[p]) BY DEF WorldOK, Typed
  <1>2. w.fproc[p].filp \in [Fd -> Filp \cup {NIL}] /\ w.fproc[p].susp.fd \in Fd
    BY <1>1 DEF ProcEntries, Susps
  <1> DEFINE f == w.fproc[p].filp[w.fproc[p].susp.fd]
  <1>3. f \in Filp BY <1>1, <1>2 DEF EntryOK
  <1>4. w.filp[f].count >= 1 BY <1>2, <1>3, ReferredTo
  <1>5. w.filp[f].count \in Nat
    <2>1. w.filp[f] \in FilpEntries BY <1>3 DEF WorldOK, Typed
    <2> QED BY <2>1 DEF FilpEntries
  <1>6. \A n \in Nat : n >= 1 => n > 0 OBVIOUS
  <1>7. w.filp[f].count > 0 BY <1>4, <1>5, <1>6
  <1> QED BY <1>2, <1>3, <1>7

(* A filp that is counted once has one descriptor. *)
LEMMA OnlyRef ==
    ASSUME NEW w, WorldOK(w), NEW f \in Filp, w.filp[f].count = 1,
           NEW p \in Proc, w.fproc[p].used, NEW d \in Fd, w.fproc[p].filp[d] = f,
           NEW q \in Proc, w.fproc[q].used, NEW a \in Fd, w.fproc[q].filp[a] = f
    PROVE  q = p /\ a = d
  <1> DEFINE R == Refs(w.fproc, f)
  <1>1. <<p, d>> \in R /\ <<q, a>> \in R /\ R \in SUBSET (Proc \X Fd) BY DEF Refs
  <1>2. Cardinality(R) = 1 BY DEF WorldOK, Referred
  <1>3. IsFiniteSet(R) BY <1>1, Countable
  <1> HIDE DEF R
  <1>4. \E y : R = {y} BY <1>2, <1>3, FS_Singleton
  <1>5. <<p, d>> = <<q, a>> BY <1>1, <1>4
  <1> QED BY <1>5

(* What processes wait for does not change, and the filps they wait on stay *)
(* what they are.                                                           *)
SameWaits(e, g) ==
    e.used = g.used /\ e.blocked_on = g.blocked_on /\ e.revived = g.revived /\ e.susp = g.susp

LEMMA KindsCalm ==
    ASSUME NEW w, NothingKept(w), NEW x, \A q \in Proc : SameWaits(x.fproc[q], w.fproc[q]),
           \A q \in Proc : OnPipe(w.fproc[q]) =>
               FilpOf(x, q).vno = FilpOf(w, q).vno /\ FilpOf(x, q).mode = FilpOf(w, q).mode
    PROVE  Calmer(x, w)
  <1> SUFFICES ASSUME NEW q \in Proc
               PROVE  /\ CalmEntry(x.fproc[q], w.fproc[q])
                      /\ OnPipe(x.fproc[q]) => OnPipe(w.fproc[q])
    BY DEF Calmer
  <1>1. SameWaits(x.fproc[q], w.fproc[q]) /\ (w.fproc[q].blocked_on = "NONE" => w.fproc[q].susp.call = NIL)
    BY DEF NothingKept
  <1> QED BY <1>1 DEF CalmEntry, OnPipe, Pends, SameWaits

(* What Claim() does. *)
ClaimedAs(x, w, p, d, f, v, mode) ==
    /\ x.vnode = w.vnode /\ x.lock = w.lock
    /\ \A q \in Proc : q # p => x.fproc[q] = w.fproc[q]
    /\ SameWaits(x.fproc[p], w.fproc[p])
    /\ x.filp[f].vno = v /\ x.filp[f].mode = mode
    /\ Claimed(x, w, p, d, f)

LEMMA ClaimIs ==
    ASSUME NEW w, WorldOK(w), NEW p \in Proc, w.fproc[p].used, w.fproc[p].blocked_on = "NONE",
           NEW d \in FreeFds(w, p), NEW f \in FreeFilps(w), NEW v \in {"pipe", "file"},
           NEW mode \in SUBSET {"R", "W"}, NEW nonblock \in BOOLEAN
    PROVE  ClaimedAs(Claim(w, p, d, f, v, mode, nonblock), w, p, d, f, v, mode)
  <1> DEFINE x == Claim(w, p, d, f, v, mode, nonblock)
             new == [count |-> 1, vno |-> v, mode |-> mode, nonblock |-> nonblock]
  <1>1. /\ IsWorld(w) /\ w.fproc \in [Proc -> ProcEntries] /\ w.filp \in [Filp -> FilpEntries]
        /\ w.fproc[p] \in ProcEntries /\ f \in Filp
    BY DEF WorldOK, Typed, FreeFilps
  <1>2. x = [w EXCEPT !.fproc[p].filp[d] = f, !.filp[f] = new] BY DEF Claim
  <1>3. new.vno = v /\ new.mode = mode OBVIOUS
  <1> HIDE DEF new, x
  <1>4. x.vnode = w.vnode /\ x.lock = w.lock /\ x.filp[f] = new BY <1>1, <1>2 DEF IsWorld
  <1>5. \A q \in Proc : q # p => x.fproc[q] = w.fproc[q] BY <1>1, <1>2 DEF IsWorld
  <1>6. SameWaits(x.fproc[p], w.fproc[p]) BY <1>1, <1>2 DEF IsWorld, ProcEntries, SameWaits
  <1>7. Claimed(x, w, p, d, f) BY ClaimOK DEF x
  <1>8. ClaimedAs(x, w, p, d, f, v, mode) BY <1>3, <1>4, <1>5, <1>6, <1>7 DEF ClaimedAs
  <1> QED BY <1>8 DEF x

(* A new filp of the file matters to nobody, one of the pipe only to those  *)
(* who wait for a partner.                                                  *)
LEMMA ClaimRight ==
    ASSUME NEW w, NEW L, WorldOK(w), AllRight(w, L), NEW p \in Proc, w.fproc[p].used,
           NEW d \in FreeFds(w, p), NEW f \in FreeFilps(w), NEW v, NEW mode,
           v = "pipe" => mode \in {{"R"}, {"W"}}, NEW x, ClaimedAs(x, w, p, d, f, v, mode)
    PROVE  Calmer(x, w) /\ AllRight(x, IF v = "pipe" THEN L \ {"OPEN"} ELSE L)
  <1> DEFINE K == IF v = "pipe" THEN L \ {"OPEN"} ELSE L
  <1>0. /\ WorldOK(x) /\ x.fproc[p].filp[d] = f /\ \A a \in Fd : a # d => x.fproc[p].filp[a] = w.fproc[p].filp[a]
        /\ x.filp[f].count = 1 /\ \A g \in Filp : g # f => x.filp[g] = w.filp[g]
    BY DEF ClaimedAs, Claimed
  <1>1. d \in Fd /\ w.fproc[p].filp[d] = NIL /\ f \in Filp /\ w.filp[f].count = 0
    BY DEF FreeFds, FreeFilps
  <1>2. \A g \in Filp : w.filp[g].count > 0 => g # f /\ x.filp[g] = w.filp[g] BY <1>0, <1>1
  <1>3. \A q \in Proc : SameWaits(x.fproc[q], w.fproc[q]) BY DEF ClaimedAs, SameWaits
  <1>4. ASSUME NEW q \in Proc, OnPipe(w.fproc[q]) PROVE FilpOf(x, q) = FilpOf(w, q)
    <2> DEFINE a == w.fproc[q].susp.fd
               g == w.fproc[q].filp[a]
    <2>1. g \in Filp /\ w.filp[g].count > 0 /\ a \in Fd BY <1>4, AwaitedFilp DEF OnPipe
    <2>2. x.filp[g] = w.filp[g]
      <3> HIDE DEF g
      <3> QED BY <1>2, <2>1
    <2>3. x.fproc[q].susp = w.fproc[q].susp BY <1>3 DEF SameWaits
    <2>4. x.fproc[q].filp[a] = g
      <3>1. CASE q = p
        <4>1. a # d BY <1>1, <2>1, <3>1, Constants
        <4> QED BY <1>0, <2>1, <3>1, <4>1
      <3>2. CASE q # p BY <3>2 DEF ClaimedAs
      <3> QED BY <3>1, <3>2
    <2> QED BY <2>2, <2>3, <2>4 DEF FilpOf
  <1>5. Calmer(x, w)
    <2>1. NothingKept(w) BY DEF AllRight, PipeRight
    <2> QED BY <1>3, <1>4, <2>1, KindsCalm
  <1>6. \A b : find_filp(w, "pipe", b) \subseteq find_filp(x, "pipe", b) BY <1>2 DEF find_filp
  <1>7. v # "pipe" => \A b : find_filp(x, "pipe", b) \subseteq find_filp(w, "pipe", b)
    BY <1>0 DEF find_filp, ClaimedAs
  <1>8. OneWay(x)
    <2> SUFFICES ASSUME NEW g \in Filp, x.filp[g].count > 0, x.filp[g].vno = "pipe"
                 PROVE  x.filp[g].mode \in {{"R"}, {"W"}}
      BY DEF OneWay
    <2>1. CASE g = f BY <2>1 DEF ClaimedAs
    <2>2. CASE g # f BY <1>0, <2>2 DEF AllRight, PipeRight, OneWay
    <2> QED BY <2>1, <2>2
  <1>9. x.vnode = w.vnode /\ x.lock = w.lock BY DEF ClaimedAs
  <1>10. PipeRight(w) /\ ("OPEN" \in L => OpenersRight(w)) /\ ("FCNTL" \in L => LockersRight(w))
    BY DEF AllRight
  <1>11. StillAwaited(x, w, K)
    <2>1. PipeShape(w.vnode) BY <1>10 DEF PipeRight
    <2>2. "OPEN" \in K => v # "pipe" /\ "OPEN" \in L OBVIOUS
    <2>3. "FCNTL" \in K => "FCNTL" \in L OBVIOUS
    <2> HIDE DEF K
    <2> QED BY <1>6, <1>7, <1>8, <1>9, <1>10, <2>1, <2>2, <2>3 DEF StillAwaited
  <1> HIDE DEF K
  <1>12. AllRight(x, K) BY <1>0, <1>5, <1>10, <1>11, CalmerRight
  <1> QED BY <1>5, <1>12 DEF K

(* Nobody waits on a pipe that nobody has open. *)
LEMMA NobodyOnPipe ==
    ASSUME NEW w, NEW L, WorldOK(w), AllRight(w, L), OpenFilps(w, "pipe") = {}
    PROVE  \A call \in {"READ", "WRITE", "OPEN"} : Nobody(w, call)
  <1> SUFFICES ASSUME NEW call \in {"READ", "WRITE", "OPEN"}, NEW p \in Proc, Awaits(w, p, call)
               PROVE  FALSE
    BY DEF Nobody
  <1> DEFINE f == w.fproc[p].filp[w.fproc[p].susp.fd]
  <1>1. OnPipe(w.fproc[p]) BY AwaitedOn
  <1>2. f \in Filp /\ w.filp[f].count > 0 BY <1>1, AwaitedFilp DEF OnPipe
  <1>3. w.filp[f].vno = "pipe" BY <1>1 DEF AllRight, PipeRight, OnThePipe, OnPipe, FilpOf
  <1> HIDE DEF f
  <1>4. f \in OpenFilps(w, "pipe") BY <1>2, <1>3 DEF OpenFilps
  <1> QED BY <1>4

LEMMA EmptiedRight ==
    ASSUME NEW w, NEW L, WorldOK(w), AllRight(w, L), OpenFilps(w, "pipe") = {}
    PROVE  AllRight([w EXCEPT !.vnode = EmptyPipe], L)
  <1> DEFINE x == [w EXCEPT !.vnode = EmptyPipe]
  <1>1. IsWorld(w) BY DEF WorldOK, Typed
  <1>2. x.lock = w.lock /\ x.vnode = EmptyPipe BY <1>1 DEF IsWorld
  <1>3. WorldOK(x) /\ x.fproc = w.fproc /\ x.filp = w.filp BY EmptiedOK
  <1> HIDE DEF x
  <1>4. PipeShape(x.vnode) BY <1>2 DEF PipeShape, EmptyPipe
  <1>5. Nobody(w, "READ") BY NobodyOnPipe
  <1>6. AllRight(x, L) BY <1>2, <1>3, <1>4, <1>5, BytesRight
  <1> QED BY <1>6 DEF x

(* Where nobody waits for a partner, one may come. *)
LEMMA NobodyOpens ==
    ASSUME NEW w, NEW L, AllRight(w, L \ {"OPEN"}), Nobody(w, "OPEN")
    PROVE  AllRight(w, L)
  BY DEF AllRight, OpenersRight, Nobody

LEMMA DoPipeRight ==
    ASSUME NEW w, NEW L, WorldOK(w), AllRight(w, L),
           NEW p \in Proc, w.fproc[p].used, w.fproc[p].blocked_on = "NONE",
           Cardinality(FreeFds(w, p)) >= 2, Cardinality(FreeFilps(w)) >= 2, OpenFilps(w, "pipe") = {}
    PROVE  AllRight(do_pipe(w, p), L)
  <1> DEFINE d0 == Min(FreeFds(w, p))
             d1 == Min(FreeFds(w, p) \ {d0})
             f0 == Min(FreeFilps(w))
             f1 == Min(FreeFilps(w) \ {f0})
             x == [w EXCEPT !.vnode = EmptyPipe]
             y == Claim(x, p, d0, f0, "pipe", {"R"}, FALSE)
             z == Claim(y, p, d1, f1, "pipe", {"W"}, FALSE)
  <1>1. do_pipe(w, p) = z BY DEF do_pipe
  <1>2. d0 \in FreeFds(w, p) /\ d1 \in FreeFds(w, p) \ {d0}
    <2>1. FreeFds(w, p) \in SUBSET Fd BY DEF FreeFds
    <2>2. FreeFds(w, p) \subseteq Nat /\ IsFiniteSet(FreeFds(w, p)) BY <2>1, Constants, Countable
    <2> QED BY <2>2, TwoLeast
  <1>3. f0 \in FreeFilps(w) /\ f1 \in FreeFilps(w) \ {f0}
    <2>1. FreeFilps(w) \in SUBSET Filp BY DEF FreeFilps
    <2>2. IsFiniteSet(Filp) BY Constants, FS_Interval DEF Filp
    <2>3. FreeFilps(w) \subseteq Nat /\ IsFiniteSet(FreeFilps(w)) BY <2>1, <2>2, Constants, FS_Subset
    <2> QED BY <2>3, TwoLeast
  <1> HIDE DEF d0, d1, f0, f1
  <1>4. WorldOK(x) /\ x.fproc = w.fproc /\ x.filp = w.filp /\ AllRight(x, L) BY EmptiedOK, EmptiedRight
  <1> HIDE DEF x
  <1>5. d0 \in FreeFds(x, p) /\ f0 \in FreeFilps(x) BY <1>2, <1>3, <1>4 DEF FreeFds, FreeFilps
  <1>6. OpenFilps(x, "pipe") = {} BY <1>4 DEF OpenFilps
  <1>7. Nobody(x, "OPEN") BY <1>4, <1>6, NobodyOnPipe
  <1>8. x.fproc[p].used /\ x.fproc[p].blocked_on = "NONE" BY <1>4
  <1>9. ClaimedAs(y, x, p, d0, f0, "pipe", {"R"}) BY <1>4, <1>5, <1>8, ClaimIs
  <1> HIDE DEF y
  <1>10. Claimed(y, x, p, d0, f0) BY <1>9 DEF ClaimedAs
  <1>11. Calmer(y, x) /\ AllRight(y, L \ {"OPEN"}) BY <1>4, <1>5, <1>8, <1>9, ClaimRight
  <1>12. Nobody(y, "OPEN") BY <1>7, <1>11, NobodyStays
  <1>13. AllRight(y, L) BY <1>11, <1>12, NobodyOpens
  <1>14. d1 \in FreeFds(y, p) /\ f1 \in FreeFilps(y)
    BY <1>2, <1>3, <1>4, <1>10 DEF FreeFds, FreeFilps, Claimed
  <1>15. WorldOK(y) /\ y.fproc[p].used /\ y.fproc[p].blocked_on = "NONE" BY <1>10 DEF Claimed
  <1>16. ClaimedAs(z, y, p, d1, f1, "pipe", {"W"}) BY <1>14, <1>15, ClaimIs
  <1> HIDE DEF z
  <1>17. Calmer(z, y) /\ AllRight(z, L \ {"OPEN"}) BY <1>13, <1>14, <1>15, <1>16, ClaimRight
  <1>18. Nobody(z, "OPEN") BY <1>12, <1>17, NobodyStays
  <1> QED BY <1>1, <1>17, <1>18, NobodyOpens
(* A descriptor takes the filp that all share, of the same kind as its own. *)
SharedAs(x, w, p, d, f, m) ==
    /\ WorldOK(x) /\ x.vnode = w.vnode /\ x.lock = w.lock
    /\ \A q \in Proc : q # p => x.fproc[q] = w.fproc[q]
    /\ SameWaits(x.fproc[p], w.fproc[p])
    /\ x.fproc[p].filp[d] = m /\ \A a \in Fd : a # d => x.fproc[p].filp[a] = w.fproc[p].filp[a]
    /\ x.filp[f].count = 0 /\ x.filp[m].count > 0
    /\ x.filp[m].vno = w.filp[m].vno /\ x.filp[m].mode = w.filp[m].mode
    /\ \A g \in Filp : g # f /\ g # m => x.filp[g] = w.filp[g]

LEMMA SharedIs ==
    ASSUME NEW w, WorldOK(w), NEW p \in Proc, w.fproc[p].used, NEW d \in Fd, NEW f \in Filp,
           w.fproc[p].filp[d] = f, w.filp[f].count = 1, NEW m \in Filp, m # f, NEW nonblock \in BOOLEAN,
           NEW z, z = [w EXCEPT !.filp[f] = FreeFilp, !.fproc[p].filp[d] = m,
                                !.filp[m].count = @ + 1, !.filp[m].nonblock = nonblock]
    PROVE  SharedAs(z, w, p, d, f, m)
  <1> DEFINE new == [w.filp[m] EXCEPT !.count = @ + 1, !.nonblock = nonblock]
             x == [w EXCEPT !.filp[f] = FreeFilp, !.fproc[p].filp[d] = m,
                            !.filp[m].count = @ + 1, !.filp[m].nonblock = nonblock]
  <1>1. /\ IsWorld(w) /\ w.fproc \in [Proc -> ProcEntries] /\ w.filp \in [Filp -> FilpEntries]
        /\ w.fproc[p] \in ProcEntries /\ w.filp[m] \in FilpEntries
    BY DEF WorldOK, Typed
  <1>2. w.filp[m].count \in Nat BY <1>1 DEF FilpEntries
  <1>3. new.count > 0 /\ new.vno = w.filp[m].vno /\ new.mode = w.filp[m].mode
    <2>1. new.count = w.filp[m].count + 1 /\ new.vno = w.filp[m].vno /\ new.mode = w.filp[m].mode
      BY <1>1 DEF FilpEntries
    <2> HIDE DEF new
    <2> QED BY <1>2, <2>1
  <1>4. x.filp = [w.filp EXCEPT ![f] = FreeFilp, ![m] = new]
    BY <1>1 DEF IsWorld, FilpEntries
  <1>5. WorldOK(x) BY SharedOK
  <1>6. x.vnode = w.vnode /\ x.lock = w.lock BY <1>1 DEF IsWorld
  <1>7. \A q \in Proc : q # p => x.fproc[q] = w.fproc[q] BY <1>1 DEF IsWorld
  <1>8. SameWaits(x.fproc[p], w.fproc[p]) BY <1>1 DEF IsWorld, ProcEntries, SameWaits
  <1>9. x.fproc[p].filp = [w.fproc[p].filp EXCEPT ![d] = m] BY <1>1 DEF IsWorld, ProcEntries
  <1> HIDE DEF x, new
  <1>10. w.fproc[p].filp \in [Fd -> Filp \cup {NIL}] BY <1>1 DEF ProcEntries
  <1>11. x.fproc[p].filp[d] = m /\ \A a \in Fd : a # d => x.fproc[p].filp[a] = w.fproc[p].filp[a]
    BY <1>9, <1>10
  <1>12. x.filp[f] = FreeFilp /\ x.filp[m] = new /\ \A g \in Filp : g # f /\ g # m => x.filp[g] = w.filp[g]
    <2>1. x.filp = [g \in Filp |-> IF g = m THEN new ELSE IF g = f THEN FreeFilp ELSE w.filp[g]]
      BY <1>1, <1>4
    <2> QED BY <2>1
  <1>13. FreeFilp.count = 0 BY DEF FreeFilp
  <1>14. SharedAs(x, w, p, d, f, m)
    BY <1>3, <1>5, <1>6, <1>7, <1>8, <1>11, <1>12, <1>13 DEF SharedAs
  <1> QED BY <1>14 DEF x

LEMMA SharedRight ==
    ASSUME NEW w, NEW L, WorldOK(w), AllRight(w, L),
           NEW p \in Proc, w.fproc[p].used, NEW d \in Fd, NEW f \in Filp,
           w.fproc[p].filp[d] = f, w.filp[f].count = 1, NEW m \in Filp, m # f, w.filp[m].count > 0,
           w.filp[m].vno = "pipe", w.filp[f].vno = "pipe", w.filp[m].mode = w.filp[f].mode,
           NEW x, SharedAs(x, w, p, d, f, m)
    PROVE  AllRight(x, L)
  <1>0. x.vnode = w.vnode /\ x.lock = w.lock /\ WorldOK(x) BY DEF SharedAs
  <1>1. \A q \in Proc : SameWaits(x.fproc[q], w.fproc[q]) BY DEF SharedAs, SameWaits
  <1>2. \A g \in Filp : g # f => x.filp[g].vno = w.filp[g].vno /\ x.filp[g].mode = w.filp[g].mode
    BY DEF SharedAs
  <1>3. ASSUME NEW q \in Proc, OnPipe(w.fproc[q])
        PROVE  FilpOf(x, q).vno = FilpOf(w, q).vno /\ FilpOf(x, q).mode = FilpOf(w, q).mode
    <2> DEFINE a == w.fproc[q].susp.fd
               g == w.fproc[q].filp[a]
               h == x.fproc[q].filp[a]
    <2>1. g \in Filp /\ w.filp[g].count > 0 /\ a \in Fd BY <1>3, AwaitedFilp DEF OnPipe
    <2>2. FilpOf(w, q) = w.filp[g] /\ FilpOf(x, q) = x.filp[h] BY <1>1 DEF FilpOf, SameWaits
    <2>3. CASE q = p /\ a = d
      <3>1. g = f /\ h = m BY <2>3 DEF SharedAs
      <3> HIDE DEF g, h
      <3> QED BY <1>2, <2>2, <3>1
    <2>4. CASE ~(q = p /\ a = d)
      <3>1. h = g BY <2>1, <2>4 DEF SharedAs
      <3>2. g # f BY <1>3, <2>1, <2>4, OnlyRef DEF OnPipe
      <3> HIDE DEF g, h
      <3> QED BY <1>2, <2>1, <2>2, <3>1, <3>2
    <2> QED BY <2>3, <2>4
  <1>4. Calmer(x, w)
    <2>1. NothingKept(w) BY DEF AllRight, PipeRight
    <2> QED BY <1>1, <1>3, <2>1, KindsCalm
  <1>5. ASSUME NEW b PROVE find_filp(x, "pipe", b) = find_filp(w, "pipe", b) \ {f}
    <2> SUFFICES ASSUME NEW g \in Filp
                 PROVE  g \in find_filp(x, "pipe", b) <=> g \in find_filp(w, "pipe", b) /\ g # f
      BY DEF find_filp
    <2>1. CASE g = f
      <3>1. x.filp[g].count = 0 BY <2>1 DEF SharedAs
      <3>2. ~(x.filp[g].count > 0) BY <3>1
      <3> QED BY <2>1, <3>2 DEF find_filp
    <2>2. CASE g = m BY <2>2 DEF find_filp, SharedAs
    <2>3. CASE g # f /\ g # m
      <3>1. x.filp[g] = w.filp[g] BY <2>3 DEF SharedAs
      <3> QED BY <2>3, <3>1 DEF find_filp
    <2> QED BY <2>1, <2>2, <2>3
  <1>6. \A b : find_filp(w, "pipe", b) # {} => find_filp(x, "pipe", b) # {}
    <2> SUFFICES ASSUME NEW b, NEW g \in find_filp(w, "pipe", b) PROVE find_filp(x, "pipe", b) # {}
      OBVIOUS
    <2>1. CASE g # f BY <1>5, <2>1
    <2>2. CASE g = f
      <3>1. m \in find_filp(w, "pipe", b) BY <2>2 DEF find_filp
      <3> QED BY <1>5, <3>1
    <2> QED BY <2>1, <2>2
  <1>7. OneWay(x)
    <2> SUFFICES ASSUME NEW g \in Filp, x.filp[g].count > 0, x.filp[g].vno = "pipe"
                 PROVE  x.filp[g].mode \in {{"R"}, {"W"}}
      BY DEF OneWay
    <2>1. OneWay(w) BY DEF AllRight, PipeRight
    <2>2. g # f
      <3>1. x.filp[f].count = 0 BY DEF SharedAs
      <3> QED BY <3>1
    <2>3. CASE g = m BY <1>2, <2>1, <2>2, <2>3 DEF OneWay
    <2>4. CASE g # m
      <3>1. x.filp[g] = w.filp[g] BY <2>2, <2>4 DEF SharedAs
      <3> QED BY <2>1, <3>1 DEF OneWay
    <2> QED BY <2>3, <2>4
  <1>8. StillAwaited(x, w, L) BY <1>0, <1>5, <1>6, <1>7 DEF StillAwaited, AllRight, PipeRight
  <1> QED BY <1>0, <1>4, <1>8, CalmerRight DEF AllRight
(* Who opens a FIFO finds a partner and wakes all who wait for one, or all  *)
(* who wait have opened it for the same, and so do not get one.             *)
LEMMA PipeOpenRight ==
    ASSUME NEW w, NEW L, WorldOK(w), AllRight(w, L \ {"OPEN"}),
           NEW p \in Proc, w.fproc[p].used, w.fproc[p].blocked_on = "NONE",
           NEW fd \in Fd, NEW f \in Filp, w.fproc[p].filp[fd] = f, w.filp[f].vno = "pipe",
           NEW bits \in {{"R"}, {"W"}}, w.filp[f].mode = bits, NEW nonblock,
           NEW o, o = pipe_open(w, p, fd, bits, nonblock)
    PROVE  AllRight(o.w, L)
  <1> DEFINE s == [NoCall EXCEPT !.call = "OPEN", !.fd = fd]
             partner == find_filp(w, "pipe", Other(bits))
  <1>1. s \in Susps /\ s.call = "OPEN" /\ s.fd = fd BY DEF NoCall, Susps
  <1>2. o = IF bits = {"R", "W"} THEN Ret(w, ENXIO)
        ELSE IF partner # {} THEN Ret(release(w, "pipe", "OPEN", w.susp), 0)
        ELSE IF ~nonblock THEN Ret(suspend(w, p, "POPEN", s), SUSPEND)
        ELSE Ret(w, IF "W" \in bits THEN ENXIO ELSE 0)
    BY DEF pipe_open, s, Other
  <1> HIDE DEF s
  <1>3. bits # {"R", "W"} OBVIOUS
  <1>4. CASE partner # {}
    <2> DEFINE x == release(w, "pipe", "OPEN", w.susp)
    <2>1. o.w = x BY <1>2, <1>3, <1>4 DEF Ret
    <2>2. AllRight(x, L \ {"OPEN"}) /\ Nobody(x, "OPEN") BY ReleaseRight
    <2> HIDE DEF x
    <2>3. AllRight(x, L) BY <2>2, NobodyOpens
    <2> QED BY <2>1, <2>3
  <1>5. CASE partner = {}
    <2>1. OpenersRight(w)
      <3> SUFFICES ASSUME NEW q \in Proc, Awaits(w, q, "OPEN")
                   PROVE  find_filp(w, "pipe", Other(FilpOf(w, q).mode)) = {}
        BY DEF OpenersRight
      <3> DEFINE g == w.fproc[q].filp[w.fproc[q].susp.fd]
      <3>1. OnPipe(w.fproc[q]) BY AwaitedOn
      <3>2. g \in Filp /\ w.filp[g].count > 0 BY <3>1, AwaitedFilp DEF OnPipe
      <3>3. FilpOf(w, q) = w.filp[g] BY DEF FilpOf
      <3>4. w.filp[g].vno = "pipe" BY <3>1, <3>3 DEF AllRight, PipeRight, OnThePipe, OnPipe
      <3> HIDE DEF g
      <3>5. w.filp[g].mode \in {{"R"}, {"W"}} BY <3>2, <3>4 DEF AllRight, PipeRight, OneWay
      <3>6. Other(bits) \notin w.filp[g].mode BY <1>5, <3>2, <3>4 DEF find_filp
      <3>7. w.filp[g].mode = bits BY <3>5, <3>6 DEF Other
      <3> QED BY <1>5, <3>3, <3>7
    <2>2. AllRight(w, L) BY <2>1 DEF AllRight
    <2>3. CASE ~nonblock
      <3>1. o.w = suspend(w, p, "POPEN", s) BY <1>2, <1>3, <1>5, <2>3 DEF Ret
      <3>2. MayWait(w, p, s, L) BY <1>1, <1>5 DEF MayWait
      <3>3. w.fproc[p].filp[s.fd] # NIL BY <1>1, Constants
      <3>4. AllRight(suspend(w, p, "POPEN", s), L) BY <1>1, <2>2, <3>2, <3>3, SuspendRight
      <3> QED BY <3>1, <3>4
    <2>4. CASE nonblock
      <3>1. o.w = w BY <1>2, <1>3, <1>5, <2>4 DEF Ret
      <3> QED BY <2>2, <3>1
    <2> QED BY <2>3, <2>4
  <1> QED BY <1>4, <1>5

LEMMA CommonOpenRight ==
    ASSUME NEW w, NEW L, WorldOK(w), AllRight(w, L),
           NEW p \in Proc, w.fproc[p].used, w.fproc[p].blocked_on = "NONE",
           FreeFds(w, p) # {}, FreeFilps(w) # {}, NEW v \in {"pipe", "file"},
           NEW bits \in {{"R"}, {"W"}, {"R", "W"}}, NEW nonblock \in BOOLEAN
    PROVE  AllRight(common_open(w, p, v, bits, nonblock).w, L)
  <1> DEFINE d == Min(FreeFds(w, p))
             f == Min(FreeFilps(w))
             w0 == IF v = "pipe" THEN exists_open(w) ELSE w
             w1 == Claim(w0, p, d, f, v, bits, nonblock)
             o == pipe_open(w1, p, d, bits, nonblock)
             shared == find_filp(w0, "pipe", IF "R" \in bits THEN "R" ELSE "W")
             x == [o.w EXCEPT !.filp[f] = FreeFilp, !.fproc[p].filp[d] = Min(shared),
                              !.filp[Min(shared)].count = @ + 1,
                              !.filp[Min(shared)].nonblock = nonblock]
             r == common_open(w, p, v, bits, nonblock)
  <1>1. r = IF v = "file" THEN Ret(w1, d)
            ELSE IF o.r = ENXIO THEN Ret(w0, ENXIO)
            ELSE IF shared = {} THEN o
            ELSE Ret(x, o.r)
    BY DEF common_open
  <1>2. d \in FreeFds(w, p) /\ f \in FreeFilps(w)
    <2>1. FreeFds(w, p) \subseteq Nat /\ FreeFilps(w) \subseteq Nat BY Constants DEF FreeFds, FreeFilps
    <2> QED BY <2>1, MinIs
  <1> HIDE DEF d, f
  <1>3. WorldOK(w0) /\ w0.fproc = w.fproc /\ w0.filp = w.filp /\ AllRight(w0, L)
    <2>1. w0 = w \/ (w0 = [w EXCEPT !.vnode = EmptyPipe] /\ OpenFilps(w, "pipe") = {}) BY DEF exists_open
    <2> QED BY <2>1, EmptiedOK, EmptiedRight
  <1> HIDE DEF w0
  <1>4. d \in FreeFds(w0, p) /\ f \in FreeFilps(w0) BY <1>2, <1>3 DEF FreeFds, FreeFilps
  <1>5. ClaimedAs(w1, w0, p, d, f, v, bits)
    <2>1. w0.fproc[p].used /\ w0.fproc[p].blocked_on = "NONE" /\ bits \in SUBSET {"R", "W"} BY <1>3
    <2> QED BY <1>3, <1>4, <2>1, ClaimIs
  <1> HIDE DEF w1
  <1>6. d \in Fd /\ f \in Filp /\ w0.filp[f].count = 0 BY <1>4 DEF FreeFds, FreeFilps
  <1>7. /\ WorldOK(w1) /\ w1.fproc[p].used /\ w1.fproc[p].blocked_on = "NONE"
        /\ w1.fproc[p].filp[d] = f /\ f # NIL /\ w1.filp[f].count = 1
        /\ w1.filp[f].vno = v /\ w1.filp[f].mode = bits
        /\ \A g \in Filp : g # f => w1.filp[g] = w0.filp[g]
    BY <1>5, <1>6, Constants DEF Claimed, ClaimedAs
  <1> SUFFICES AllRight(r.w, L) BY DEF r
  <1> HIDE DEF r
  <1>8. CASE v = "file"
    <2>1. w0.fproc[p].used BY <1>3
    <2>2. v # "pipe" BY <1>8
    <2>3. AllRight(w1, IF v = "pipe" THEN L \ {"OPEN"} ELSE L)
      BY <1>3, <1>4, <1>5, <2>1, <2>2, ClaimRight
    <2>4. AllRight(w1, L) BY <2>2, <2>3
    <2> QED BY <1>1, <1>8, <2>4 DEF Ret
  <1>9. CASE v = "pipe" /\ o.r = ENXIO
    <2>1. r.w = w0 BY <1>1, <1>9 DEF Ret
    <2> QED BY <1>3, <2>1
  <1>10. CASE v = "pipe" /\ o.r # ENXIO
    <2>1. bits \in {{"R"}, {"W"}}
      <3>1. bits = {"R", "W"} => o.r = ENXIO BY DEF pipe_open, Ret
      <3> QED BY <1>10, <3>1
    <2>2. AllRight(w1, L \ {"OPEN"})
      <3>1. w0.fproc[p].used BY <1>3
      <3> QED BY <1>3, <1>4, <1>5, <1>10, <2>1, <3>1, ClaimRight
    <2>3. AllRight(o.w, L)
      <3>1. /\ WorldOK(w1) /\ w1.fproc[p].used /\ w1.fproc[p].blocked_on = "NONE"
            /\ w1.fproc[p].filp[d] = f /\ w1.filp[f].vno = "pipe" /\ w1.filp[f].mode = bits
        BY <1>7, <1>10
      <3>2. d \in Fd /\ f \in Filp BY <1>6
      <3>3. o = pipe_open(w1, p, d, bits, nonblock) OBVIOUS
      <3> HIDE DEF o, shared, x
      <3> QED BY <2>1, <2>2, <3>1, <3>2, <3>3, PipeOpenRight
    <2>4. Opened(o.w, w1) BY <1>6, <1>7, PipeOpenOK
    <2> HIDE DEF o
    <2>5. /\ WorldOK(o.w) /\ o.w.fproc[p].used /\ o.w.fproc[p].filp[d] = f /\ o.w.filp = w1.filp
      BY <1>7, <2>4 DEF Opened, SameFds
    <2>6. shared # {} => AllRight(x, L)
      <3> SUFFICES ASSUME shared # {} PROVE AllRight(x, L) OBVIOUS
      <3> DEFINE m == Min(shared)
                 b == IF "R" \in bits THEN "R" ELSE "W"
      <3>1. shared \subseteq Filp BY DEF find_filp
      <3>2. m \in shared BY <3>1, Constants, MinIs
      <3>3. m \in Filp /\ w0.filp[m].count > 0 /\ w0.filp[m].vno = "pipe" /\ b \in w0.filp[m].mode
        BY <3>2 DEF find_filp
      <3> HIDE DEF m
      <3>4. w0.filp[m].mode \in {{"R"}, {"W"}} BY <1>3, <3>3 DEF AllRight, PipeRight, OneWay
      <3>5. w0.filp[m].mode = bits BY <2>1, <3>3, <3>4
      <3>6. m # f
        <4>1. ~(0 > 0) OBVIOUS
        <4> QED BY <1>6, <3>3, <4>1
      <3>7. /\ o.w.filp[f].count = 1 /\ o.w.filp[f].vno = "pipe" /\ o.w.filp[f].mode = bits
            /\ o.w.filp[m] = w0.filp[m]
        BY <1>6, <1>7, <1>10, <2>5, <3>3, <3>6
      <3> DEFINE z == [o.w EXCEPT !.filp[f] = FreeFilp, !.fproc[p].filp[d] = m,
                                  !.filp[m].count = @ + 1, !.filp[m].nonblock = nonblock]
      <3>8. SharedAs(z, o.w, p, d, f, m)
        <4>1. d \in Fd /\ f \in Filp /\ m \in Filp /\ m # f BY <1>6, <3>3, <3>6
        <4>2. WorldOK(o.w) /\ o.w.fproc[p].used /\ o.w.fproc[p].filp[d] = f /\ o.w.filp[f].count = 1
          BY <2>5, <3>7
        <4> DEFINE u == o.w
        <4>3. WorldOK(u) /\ u.fproc[p].used /\ u.fproc[p].filp[d] = f /\ u.filp[f].count = 1
          BY <4>2
        <4>4. z = [u EXCEPT !.filp[f] = FreeFilp, !.fproc[p].filp[d] = m,
                            !.filp[m].count = @ + 1, !.filp[m].nonblock = nonblock]
          OBVIOUS
        <4> HIDE DEF u, z
        <4>5. SharedAs(z, u, p, d, f, m) BY <4>1, <4>3, <4>4, SharedIs
        <4> QED BY <4>5 DEF u
      <3>9. x = z BY DEF m
      <3> HIDE DEF z, x
      <3>10. AllRight(z, L) BY <1>6, <2>3, <2>5, <3>3, <3>5, <3>6, <3>7, <3>8, SharedRight
      <3> QED BY <3>9, <3>10
    <2> HIDE DEF x, shared, o
    <2>7. r.w = o.w \/ (shared # {} /\ r.w = x) BY <1>1, <1>10 DEF Ret
    <2> QED BY <2>3, <2>6, <2>7
  <1> QED BY <1>8, <1>9, <1>10-----------------------------------------------------------------------------
(* Closing: the end of the pipe that is closed is not awaited any more.    *)
LEMMA LeftKind ==
    ASSUME NEW g \in FilpEntries, g.count >= 1
    PROVE  /\ Left(g).count > 0 => g.count # 1
           /\ g.count # 1 => Left(g).vno = g.vno /\ Left(g).mode = g.mode /\ Left(g).count > 0
  <1>0. g.count \in Nat BY DEF FilpEntries
  <1>1. Left(g).count = g.count - 1 BY LeftOK
  <1>2. g.count # 1 => Left(g).vno = g.vno /\ Left(g).mode = g.mode BY DEF Left, FilpEntries
  <1> QED BY <1>0, <1>1, <1>2

(* Descriptor fd of p, which refers to f, goes. *)
DroppedAs(x, w, p, fd, f) ==
    /\ WorldOK(x) /\ x.vnode = w.vnode /\ x.lock = w.lock
    /\ \A q \in Proc : q # p => x.fproc[q] = w.fproc[q]
    /\ SameWaits(x.fproc[p], w.fproc[p])
    /\ x.filp[f] = Left(w.filp[f]) /\ \A g \in Filp : g # f => x.filp[g] = w.filp[g]

LEMMA DropIs ==
    ASSUME NEW w, WorldOK(w), NEW p \in Proc, w.fproc[p].used, w.fproc[p].blocked_on = "NONE",
           NEW fd \in Fd, NEW f \in Filp, w.fproc[p].filp[fd] = f,
           NEW x, Dropping(x, w, p, fd, f, Left(w.filp[f]))
    PROVE  DroppedAs(x, w, p, fd, f)
  <1> DEFINE new == Left(w.filp[f])
             y == [w EXCEPT !.filp[f] = new]
  <1>1. /\ IsWorld(w) /\ w.fproc \in [Proc -> ProcEntries] /\ w.filp \in [Filp -> FilpEntries]
        /\ w.fproc[p] \in ProcEntries /\ w.filp[f] \in FilpEntries
    BY DEF WorldOK, Typed
  <1>2. w.filp[f].count >= 1 BY ReferredTo
  <1>3. new \in FilpEntries /\ new.count = w.filp[f].count - 1 BY <1>1, <1>2, LeftOK
  <1>4. Dropping(x, w, p, fd, f, new) OBVIOUS
  <1>5. new = Left(w.filp[f]) OBVIOUS
  <1> HIDE DEF new
  <1>6. WorldOK(x)
    <2>1. Closed(x, w, p, fd) BY <1>2, <1>3, <1>4, DropOK
    <2> QED BY <2>1 DEF Closed
  <1>7. /\ IsWorld(y) /\ y.fproc = w.fproc /\ y.filp = [w.filp EXCEPT ![f] = new]
        /\ y.vnode = w.vnode /\ y.lock = w.lock
    BY <1>1 DEF IsWorld
  <1>12. x = [y EXCEPT !.fproc[p].filp[fd] = NIL] BY <1>4 DEF Dropping
  <1> HIDE DEF y
  <1>8. x.filp = [w.filp EXCEPT ![f] = new] /\ x.vnode = w.vnode /\ x.lock = w.lock
    BY <1>7, <1>12 DEF IsWorld
  <1>9. \A q \in Proc : q # p => x.fproc[q] = w.fproc[q] BY <1>1, <1>7, <1>12 DEF IsWorld
  <1>10. SameWaits(x.fproc[p], w.fproc[p]) BY <1>1, <1>7, <1>12 DEF IsWorld, ProcEntries, SameWaits
  <1>11. x.filp[f] = new /\ \A g \in Filp : g # f => x.filp[g] = w.filp[g]
    <2>1. x.filp = [g \in Filp |-> IF g = f THEN new ELSE w.filp[g]] BY <1>1, <1>8
    <2> QED BY <2>1
  <1> QED BY <1>5, <1>6, <1>8, <1>9, <1>10, <1>11 DEF DroppedAs

LEMMA DropRight ==
    ASSUME NEW w, NEW L, WorldOK(w), AllRight(w, L),
           NEW p \in Proc, w.fproc[p].used, w.fproc[p].blocked_on = "NONE",
           NEW fd \in Fd, NEW f \in Filp, w.fproc[p].filp[fd] = f,
           w.filp[f].vno = "pipe" => Nobody(w, IF "R" \in w.filp[f].mode THEN "WRITE" ELSE "READ"),
           NEW x, DroppedAs(x, w, p, fd, f)
    PROVE  AllRight(x, L)
  <1>0. x.vnode = w.vnode /\ x.lock = w.lock /\ WorldOK(x) BY DEF DroppedAs
  <1>1. \A q \in Proc : SameWaits(x.fproc[q], w.fproc[q]) BY DEF DroppedAs, SameWaits
  <1>2. w.filp[f] \in FilpEntries /\ w.filp[f].count >= 1 /\ w.filp[f].count > 0
    <2>1. w.filp[f] \in FilpEntries BY DEF WorldOK, Typed
    <2>2. w.filp[f].count >= 1 BY ReferredTo
    <2>3. w.filp[f].count \in Nat BY <2>1 DEF FilpEntries
    <2>4. \A n \in Nat : n >= 1 => n > 0 OBVIOUS
    <2> QED BY <2>1, <2>2, <2>3, <2>4
  <1>3. /\ x.filp[f].count > 0 => w.filp[f].count # 1
        /\ w.filp[f].count # 1 => x.filp[f].vno = w.filp[f].vno /\ x.filp[f].mode = w.filp[f].mode
    <2>1. x.filp[f] = Left(w.filp[f]) BY DEF DroppedAs
    <2> QED BY <1>2, <2>1, LeftKind
  <1>4. \A g \in Filp : g # f => x.filp[g] = w.filp[g] BY DEF DroppedAs
  <1>5. ASSUME NEW q \in Proc, OnPipe(w.fproc[q])
        PROVE  FilpOf(x, q).vno = FilpOf(w, q).vno /\ FilpOf(x, q).mode = FilpOf(w, q).mode
    <2> DEFINE a == w.fproc[q].susp.fd
               g == w.fproc[q].filp[a]
    <2>1. g \in Filp /\ a \in Fd BY <1>5, AwaitedFilp DEF OnPipe
    <2>2. q # p BY <1>5 DEF OnPipe
    <2>3. FilpOf(w, q) = w.filp[g] /\ FilpOf(x, q) = x.filp[g] BY <2>2 DEF FilpOf, DroppedAs
    <2>4. CASE g = f
      <3>1. w.filp[f].count # 1 BY <1>5, <2>1, <2>2, <2>4, OnlyRef DEF OnPipe
      <3> HIDE DEF g
      <3> QED BY <1>3, <2>3, <2>4, <3>1
    <2>5. CASE g # f
      <3> HIDE DEF g
      <3> QED BY <1>4, <2>1, <2>3, <2>5
    <2> QED BY <2>4, <2>5
  <1>6. Calmer(x, w)
    <2>1. NothingKept(w) BY DEF AllRight, PipeRight
    <2> QED BY <1>1, <1>5, <2>1, KindsCalm
  <1>7. \A g \in Filp : x.filp[g].count > 0 =>
            /\ w.filp[g].count > 0
            /\ x.filp[g].vno = w.filp[g].vno /\ x.filp[g].mode = w.filp[g].mode
    BY <1>2, <1>3, <1>4
  <1>8. \A b : find_filp(x, "pipe", b) \subseteq find_filp(w, "pipe", b) BY <1>7 DEF find_filp
  <1>9. \A b : find_filp(w, "pipe", b) \ {f} \subseteq find_filp(x, "pipe", b) BY <1>4 DEF find_filp
  <1>10. f \in find_filp(w, "pipe", "W") => Nobody(x, "READ")
    <2> SUFFICES ASSUME f \in find_filp(w, "pipe", "W") PROVE Nobody(x, "READ") OBVIOUS
    <2>1. w.filp[f].vno = "pipe" /\ "W" \in w.filp[f].mode BY DEF find_filp
    <2>2. w.filp[f].mode \in {{"R"}, {"W"}} BY <1>2, <2>1 DEF AllRight, PipeRight, OneWay
    <2>3. "R" \notin w.filp[f].mode BY <2>1, <2>2
    <2>4. Nobody(w, "READ") BY <2>1, <2>3
    <2> QED BY <1>6, <2>4, NobodyStays
  <1>11. f \in find_filp(w, "pipe", "R") => Nobody(x, "WRITE")
    <2> SUFFICES ASSUME f \in find_filp(w, "pipe", "R") PROVE Nobody(x, "WRITE") OBVIOUS
    <2>1. w.filp[f].vno = "pipe" /\ "R" \in w.filp[f].mode BY DEF find_filp
    <2>2. Nobody(w, "WRITE") BY <2>1
    <2> QED BY <1>6, <2>2, NobodyStays
  <1>12. OneWay(x) BY <1>7 DEF OneWay, AllRight, PipeRight
  <1>13. StillAwaited(x, w, L)
    <2>1. Nobody(x, "READ") \/ (find_filp(w, "pipe", "W") # {} => find_filp(x, "pipe", "W") # {})
      BY <1>9, <1>10
    <2>2. Nobody(x, "WRITE") \/ (find_filp(w, "pipe", "R") # {} => find_filp(x, "pipe", "R") # {})
      BY <1>9, <1>11
    <2> QED BY <1>0, <1>8, <1>12, <2>1, <2>2 DEF StillAwaited, AllRight, PipeRight
  <1> QED BY <1>0, <1>6, <1>13, CalmerRight DEF AllRight

(* The table of locks matters to those only who wait for one. *)
LEMMA LocksOnly ==
    ASSUME NEW x, NEW w, NEW L, AllRight(w, L), x.fproc = w.fproc, x.filp = w.filp, x.vnode = w.vnode
    PROVE  AllRight(x, L \ {"FCNTL"})
  <1>1. \A b : find_filp(x, "pipe", b) = find_filp(w, "pipe", b) BY DEF find_filp
  <1>2. \A p, call : Awaits(x, p, call) <=> Awaits(w, p, call) BY DEF Awaits
  <1>3. \A p : FilpOf(x, p) = FilpOf(w, p) BY DEF FilpOf
  <1>5. NothingKept(x) /\ OneWay(x) /\ OnThePipe(x)
    BY <1>3 DEF AllRight, PipeRight, NothingKept, OneWay, OnThePipe
  <1>6. ReadersRight(x) /\ WritersRight(x)
    BY <1>1, <1>2 DEF AllRight, PipeRight, ReadersRight, WritersRight
  <1>7. "OPEN" \in L => OpenersRight(x) BY <1>1, <1>2, <1>3 DEF AllRight, OpenersRight
  <1> QED BY <1>5, <1>6, <1>7 DEF AllRight, PipeRight

LEMMA CloseFdRight ==
    ASSUME NEW w, NEW L, WorldOK(w), AllRight(w, L),
           NEW p \in Proc, w.fproc[p].used, w.fproc[p].blocked_on = "NONE", NEW fd \in Fd
    PROVE  AllRight(close_fd(w, p, fd), L)
  <1> DEFINE f == w.fproc[p].filp[fd]
             g == w.filp[f]
             k == IF "R" \in g.mode THEN "WRITE" ELSE "READ"
             v == IF g.vno = "pipe" THEN release(w, "pipe", k, Cardinality(Proc)) ELSE w
             y == [v EXCEPT !.filp[f] = Left(g)]
             w1 == [y EXCEPT !.fproc[p].filp[fd] = NIL]
             gone == IF w.filp[f].vno = "file" THEN LocksOf(w, p) ELSE {}
             l == [w1 EXCEPT !.lock = [i \in LockSlot |-> IF i \in gone THEN NIL ELSE @[i]]]
  <1>1. CASE f = NIL
    <2>1. close_fd(w, p, fd) = w BY <1>1 DEF close_fd
    <2> QED BY <2>1
  <1>2. CASE f # NIL
    <2>1. close_filp(w, f) = y BY DEF close_filp, Left
    <2>2. close_fd(w, p, fd) = IF gone = {} THEN w1 ELSE lock_revive(l)
      BY <1>2, <2>1 DEF close_fd
    <2>3. f \in Filp
      <3>1. w.fproc[p] \in ProcEntries BY DEF WorldOK, Typed
      <3>2. w.fproc[p].filp \in [Fd -> Filp \cup {NIL}] BY <3>1 DEF ProcEntries
      <3> QED BY <1>2, <3>2
    <2>4. /\ WorldOK(v) /\ AllRight(v, L) /\ v.filp = w.filp /\ v.fproc[p] = w.fproc[p]
          /\ g.vno = "pipe" => Nobody(v, k)
      <3> DEFINE z == release(w, "pipe", k, Cardinality(Proc))
      <3>1. k \in {"READ", "WRITE", "OPEN"} OBVIOUS
      <3>2. v = IF g.vno = "pipe" THEN z ELSE w OBVIOUS
      <3> HIDE DEF k
      <3>3. ~Pends(w.fproc[p]) BY DEF Pends
      <3>4. WorldOK(z) /\ AllRight(z, L) /\ SameFiles(z, w) /\ Nobody(z, k) /\ z.fproc[p] = w.fproc[p]
        <4> DEFINE count == Cardinality(Proc)
        <4>1. count \in {w.susp, Cardinality(Proc)} OBVIOUS
        <4> HIDE DEF count
        <4>2. LET x == release(w, "pipe", k, count)
              IN  /\ AllRight(x, L) /\ Nobody(x, k) /\ SameFiles(x, w) /\ WorldOK(x)
                  /\ \A q \in Proc : ~Pends(w.fproc[q]) => x.fproc[q] = w.fproc[q]
          BY <3>1, <4>1, ReleaseRight
        <4> QED BY <3>3, <4>2 DEF count
      <3> HIDE DEF z, v
      <3>5. z.filp = w.filp BY <3>4 DEF SameFiles
      <3> QED BY <3>2, <3>4, <3>5
    <2>5. g = v.filp[f] BY <2>4
    <2>6. Dropping(w1, v, p, fd, f, Left(v.filp[f])) BY <2>5 DEF Dropping
    <2>7. v.filp[f].vno = "pipe" => Nobody(v, IF "R" \in v.filp[f].mode THEN "WRITE" ELSE "READ") BY <2>4
    <2>8. v.fproc[p].used /\ v.fproc[p].blocked_on = "NONE" /\ v.fproc[p].filp[fd] = f BY <2>4
    <2>9. l = [w1 EXCEPT !.lock = [i \in LockSlot |-> IF i \in gone THEN NIL ELSE @[i]]] OBVIOUS
    <2> HIDE DEF f, v, y, w1, l, gone
    <2>10. DroppedAs(w1, v, p, fd, f) BY <2>3, <2>4, <2>6, <2>8, DropIs
    <2>11. AllRight(w1, L) /\ WorldOK(w1)
      <3>1. AllRight(w1, L) BY <2>3, <2>4, <2>7, <2>8, <2>10, DropRight
      <3> QED BY <2>10, <3>1 DEF DroppedAs
    <2>12. AllRight(lock_revive(l), L)
      <3> DEFINE m == [i \in LockSlot |-> IF i \in gone THEN NIL ELSE w1.lock[i]]
      <3>1. l = [w1 EXCEPT !.lock = m] BY <2>9
      <3> HIDE DEF m
      <3>2. IsWorld(w1) BY <2>11 DEF WorldOK, Typed
      <3>3. WorldOK(l) BY <2>11, <3>1, LocksFree
      <3>4. l.fproc = w1.fproc /\ l.filp = w1.filp /\ l.vnode = w1.vnode BY <3>1, <3>2 DEF IsWorld
      <3>5. AllRight(l, L \ {"FCNTL"}) BY <2>11, <3>4, LocksOnly
      <3> QED BY <3>3, <3>5, LockReviveRight
    <2> QED BY <2>2, <2>11, <2>12
  <1> QED BY <1>1, <1>2
LEMMA FreeProcRight ==
    ASSUME NEW w, NEW L, WorldOK(w), AllRight(w, L), NEW p \in Proc, w.fproc[p].used
    PROVE  AllRight(free_proc(w, p), L)
  <1> DEFINE c == CHOOSE g : IsClosing(g, w, p)
             z == c[OPEN_MAX]
             x == [z EXCEPT !.fproc[p] = FreeProc]
  <1>0. OPEN_MAX \in Nat BY Constants
  <1>1. free_proc(w, p) = x BY DEF free_proc, IsClosing, ClosedUpto
  <1>2. IsClosing(c, w, p) BY ClosingExists
  <1> HIDE DEF c
  <1>3. \A n \in 0 .. OPEN_MAX : c[n] = ClosedUpto(c, w, p, n) BY <1>2 DEF IsClosing
  <1> DEFINE Good(n) == /\ WorldOK(c[n]) /\ c[n].fproc[p].used /\ c[n].fproc[p].blocked_on = "NONE"
                        /\ AllRight(c[n], L)
             B == {n \in 0 .. OPEN_MAX : Good(n)}
  <1>4. 0 \in B
    <2>1. c[0] = unpause(w, p) BY <1>0, <1>3 DEF ClosedUpto
    <2>2. WorldOK(c[0]) /\ c[0].fproc[p].used /\ c[0].fproc[p].blocked_on = "NONE" BY <2>1, UnpauseOK
    <2>3. AllRight(c[0], L) BY <2>1, UnpauseRight
    <2> QED BY <1>0, <2>2, <2>3
  <1>5. ASSUME NEW n \in 0 .. OPEN_MAX - 1, n \in B PROVE n + 1 \in B
    <2>1. n \in Fd /\ n + 1 \in 0 .. OPEN_MAX /\ n + 1 # 0 /\ n + 1 - 1 = n BY <1>0 DEF Fd
    <2>2. c[n + 1] = close_fd(c[n], p, n) BY <1>3, <2>1 DEF ClosedUpto
    <2>3. Good(n) BY <1>5
    <2>4. Closed(c[n + 1], c[n], p, n) BY <2>1, <2>2, <2>3, CloseFdOK
    <2>5. AllRight(c[n + 1], L) BY <2>1, <2>2, <2>3, CloseFdRight
    <2>6. WorldOK(c[n + 1]) /\ c[n + 1].fproc[p].used /\ c[n + 1].fproc[p].blocked_on = "NONE"
      BY <2>4 DEF Closed
    <2>7. Good(n + 1) BY <2>5, <2>6
    <2> HIDE DEF Good
    <2> QED BY <2>1, <2>7
  <1>6. Good(OPEN_MAX)
    <2> HIDE DEF Good
    <2>1. OPEN_MAX \in B
      <3> HIDE DEF B
      <3>1. \A n \in 0 .. OPEN_MAX : n \in B BY <1>0, <1>4, <1>5, CountUp
      <3> QED BY <1>0, <3>1
    <2> QED BY <2>1
  <1>7. WorldOK(z) /\ AllRight(z, L) BY <1>6
  <1> HIDE DEF z
  <1>8. WorldOK(x) BY <1>1, FreeProcOK
  <1>9. IsWorld(z) /\ z.fproc \in [Proc -> ProcEntries] BY <1>7 DEF WorldOK, Typed
  <1>10. /\ x.filp = z.filp /\ x.vnode = z.vnode /\ x.lock = z.lock /\ x.fproc[p] = FreeProc
         /\ \A q \in Proc : q # p => x.fproc[q] = z.fproc[q]
    BY <1>9 DEF IsWorld
  <1> HIDE DEF x
  <1>11. CalmEntry(FreeProc, z.fproc[p]) /\ ~OnPipe(FreeProc)
    BY DEF CalmEntry, OnPipe, Pends, FreeProc, NoCall
  <1>12. AllRight(x, L) BY <1>7, <1>8, <1>10, <1>11, OneCalmer
  <1> QED BY <1>1, <1>12

(* The same filps are in use, each for what it was. *)
SameKinds(x, w) ==
    \A g \in Filp : /\ x.filp[g].count > 0 <=> w.filp[g].count > 0
                    /\ x.filp[g].vno = w.filp[g].vno /\ x.filp[g].mode = w.filp[g].mode

LEMMA SameKindsRight ==
    ASSUME NEW x, NEW w, NEW L, WorldOK(w), WorldOK(x), AllRight(w, L), SameKinds(x, w),
           x.vnode = w.vnode, x.lock = w.lock, Calmer(x, w)
    PROVE  AllRight(x, L)
  <1>1. \A b : find_filp(x, "pipe", b) = find_filp(w, "pipe", b) BY DEF find_filp, SameKinds
  <1>2. OneWay(x) BY DEF OneWay, AllRight, PipeRight, SameKinds
  <1>3. StillAwaited(x, w, L) BY <1>1, <1>2 DEF StillAwaited, AllRight, PipeRight
  <1> QED BY <1>3, CalmerRight DEF AllRight

LEMMA ForkRight ==
    ASSUME NEW w, NEW L, WorldOK(w), AllRight(w, L),
           NEW p \in Proc, w.fproc[p].used, w.fproc[p].blocked_on = "NONE",
           NEW c \in Proc, ~w.fproc[c].used
    PROVE  AllRight(pm_fork(w, p, c), L)
  <1> DEFINE D(f) == {d \in Fd : w.fproc[p].filp[d] = f}
             F == [f \in Filp |-> [w.filp[f] EXCEPT !.count = @ + Cardinality(D(f))]]
             x == [w EXCEPT !.fproc[c] = w.fproc[p], !.filp = F]
  <1>0. pm_fork(w, p, c) = x BY DEF pm_fork
  <1>1. /\ IsWorld(w) /\ w.fproc \in [Proc -> ProcEntries] /\ w.filp \in [Filp -> FilpEntries]
    BY DEF WorldOK, Typed
  <1>2. ASSUME NEW f \in Filp
        PROVE  /\ F[f].count > 0 <=> w.filp[f].count > 0
               /\ F[f].vno = w.filp[f].vno /\ F[f].mode = w.filp[f].mode
    <2> DEFINE n == w.filp[f].count
               k == Cardinality(D(f))
               m == n + k
    <2>1. w.filp[f] \in FilpEntries /\ n \in Nat BY <1>1 DEF FilpEntries
    <2>2. D(f) \in SUBSET Fd OBVIOUS
    <2>3. F[f] = [w.filp[f] EXCEPT !.count = m] OBVIOUS
    <2>4. k \in Nat /\ (n = 0 => k = 0)
      <3>1. k \in Nat BY <2>2, Countable
      <3>2. D(f) = {} => k = 0 BY FS_EmptySet
      <3>3. ASSUME n = 0, NEW d \in D(f) PROVE FALSE
        <4>1. w.fproc[p].filp[d] = f /\ d \in Fd OBVIOUS
        <4>2. n >= 1 BY <4>1, ReferredTo
        <4> HIDE DEF n
        <4> QED BY <2>1, <3>3, <4>2
      <3> HIDE DEF D, k
      <3>4. n = 0 => D(f) = {} BY <3>3
      <3> QED BY <3>1, <3>2, <3>4
    <2>5. m > 0 <=> n > 0
      <3> HIDE DEF k, n
      <3> QED BY <2>1, <2>4
    <2> HIDE DEF F, m
    <2>6. F[f].count = m /\ F[f].vno = w.filp[f].vno /\ F[f].mode = w.filp[f].mode
      BY <2>1, <2>3 DEF FilpEntries
    <2> QED BY <2>5, <2>6
  <1> HIDE DEF F
  <1>3. x.filp = F /\ x.vnode = w.vnode /\ x.lock = w.lock BY <1>1 DEF IsWorld
  <1>4. x.fproc[c] = w.fproc[p] /\ \A q \in Proc : q # c => x.fproc[q] = w.fproc[q]
    BY <1>1 DEF IsWorld
  <1>5. WorldOK(x) BY <1>0, ForkOK
  <1> HIDE DEF x
  <1>6. SameKinds(x, w) BY <1>2, <1>3 DEF SameKinds
  <1>7. Calmer(x, w)
    <2> SUFFICES ASSUME NEW q \in Proc
                 PROVE  /\ CalmEntry(x.fproc[q], w.fproc[q])
                        /\ OnPipe(x.fproc[q]) =>
                               FilpOf(x, q).vno = FilpOf(w, q).vno /\ FilpOf(x, q).mode = FilpOf(w, q).mode
      BY DEF Calmer
    <2>1. NothingKept(w) BY DEF AllRight, PipeRight
    <2>2. CASE q = c
      <3>1. x.fproc[q].blocked_on = "NONE" /\ x.fproc[q].susp.call = NIL BY <1>4, <2>1, <2>2 DEF NothingKept
      <3> QED BY <3>1 DEF CalmEntry, Pends, OnPipe
    <2>3. CASE q # c
      <3>1. x.fproc[q] = w.fproc[q] BY <1>4, <2>3
      <3>2. CalmEntry(x.fproc[q], w.fproc[q]) BY <2>1, <3>1 DEF CalmEntry, NothingKept
      <3>3. ASSUME OnPipe(x.fproc[q])
            PROVE  FilpOf(x, q).vno = FilpOf(w, q).vno /\ FilpOf(x, q).mode = FilpOf(w, q).mode
        <4> DEFINE g == w.fproc[q].filp[w.fproc[q].susp.fd]
        <4>1. g \in Filp BY <3>1, <3>3, AwaitedFilp DEF OnPipe
        <4>2. FilpOf(w, q) = w.filp[g] /\ FilpOf(x, q) = x.filp[g] BY <3>1 DEF FilpOf
        <4> HIDE DEF g
        <4> QED BY <1>6, <4>1, <4>2 DEF SameKinds
      <3> QED BY <3>2, <3>3
    <2> QED BY <2>2, <2>3
  <1>8. AllRight(x, L) BY <1>3, <1>5, <1>6, <1>7, SameKindsRight
  <1> QED BY <1>0, <1>8

LEMMA SetFlRight ==
    ASSUME NEW w, NEW L, WorldOK(w), AllRight(w, L), NEW f \in Filp, NEW b \in BOOLEAN
    PROVE  AllRight([w EXCEPT !.filp[f].nonblock = b], L)
  <1> DEFINE x == [w EXCEPT !.filp[f].nonblock = b]
             new == [w.filp[f] EXCEPT !.nonblock = b]
  <1>1. IsWorld(w) /\ w.filp \in [Filp -> FilpEntries] /\ w.filp[f] \in FilpEntries BY DEF WorldOK, Typed
  <1>2. new.count = w.filp[f].count /\ new.vno = w.filp[f].vno /\ new.mode = w.filp[f].mode
    BY <1>1 DEF FilpEntries
  <1>3. /\ x.fproc = w.fproc /\ x.vnode = w.vnode /\ x.lock = w.lock
        /\ x.filp = [w.filp EXCEPT ![f] = new]
    BY <1>1 DEF IsWorld
  <1>4. WorldOK(x) BY SetFlOK
  <1> HIDE DEF x, new
  <1>5. x.filp = [g \in Filp |-> IF g = f THEN new ELSE w.filp[g]] BY <1>1, <1>3
  <1>6. SameKinds(x, w) BY <1>2, <1>5 DEF SameKinds
  <1>7. ASSUME NEW q \in Proc, OnPipe(w.fproc[q])
        PROVE  FilpOf(x, q).vno = FilpOf(w, q).vno /\ FilpOf(x, q).mode = FilpOf(w, q).mode
    <2> DEFINE g == w.fproc[q].filp[w.fproc[q].susp.fd]
    <2>1. g \in Filp BY <1>7, AwaitedFilp DEF OnPipe
    <2>2. FilpOf(w, q) = w.filp[g] /\ FilpOf(x, q) = x.filp[g] BY <1>3 DEF FilpOf
    <2> HIDE DEF g
    <2> QED BY <1>6, <2>1, <2>2 DEF SameKinds
  <1>8. Calmer(x, w)
    <2>1. NothingKept(w) BY DEF AllRight, PipeRight
    <2>2. \A q \in Proc : SameWaits(x.fproc[q], w.fproc[q]) BY <1>3 DEF SameWaits
    <2> QED BY <1>7, <2>1, <2>2, KindsCalm
  <1>9. AllRight(x, L) BY <1>3, <1>4, <1>6, <1>8, SameKindsRight
  <1> QED BY <1>9 DEF x-----------------------------------------------------------------------------
(* Locks: who waits for one is woken by whoever unlocks something, unless  *)
(* the unlocking ends halfway for want of a slot.                          *)

(* The table after slot i, from the tables before. *)
UnlockedUpto(g, w, first, last, i) ==
    IF i = 0 THEN [lock |-> w.lock, full |-> FALSE, found |-> FALSE] ELSE Unlock(g[i - 1], i, first, last)
IsUnlocking(g, w, first, last) == g = [i \in 0 .. NR_LOCKS |-> UnlockedUpto(g, w, first, last, i)]

LEMMA UnlockingExists ==
    ASSUME NEW w, NEW first, NEW last
    PROVE  \E g : IsUnlocking(g, w, first, last)
  <1> DEFINE Upto(g, n) == \A m \in 0 .. n : g[m] = UnlockedUpto(g, w, first, last, m)
             B == {n \in 0 .. NR_LOCKS : \E g : Upto(g, n)}
             start == [lock |-> w.lock, full |-> FALSE, found |-> FALSE]
  <1>0. NR_LOCKS \in Nat BY VfsAssumption
  <1>1. 0 \in B
    <2> DEFINE g == [m \in {0} |-> start]
    <2>1. \A m \in 0 .. 0 : m = 0 OBVIOUS
    <2>2. g[0] = UnlockedUpto(g, w, first, last, 0) BY DEF UnlockedUpto
    <2> HIDE DEF g
    <2>3. Upto(g, 0) BY <2>1, <2>2
    <2> QED BY <1>0, <2>3
  <1> HIDE DEF start
  <1>2. ASSUME NEW n \in 0 .. NR_LOCKS - 1, n \in B PROVE n + 1 \in B
    <2>1. PICK g : Upto(g, n) BY <1>2
    <2> DEFINE h == [m \in 0 .. n + 1 |-> IF m = n + 1 THEN Unlock(g[n], n + 1, first, last) ELSE g[m]]
    <2>2. \A m \in 0 .. n : h[m] = g[m] BY <1>0
    <2>3. h[n + 1] = Unlock(g[n], n + 1, first, last) BY <1>0
    <2>4. ASSUME NEW m \in 0 .. n + 1 PROVE h[m] = UnlockedUpto(h, w, first, last, m)
      <3> HIDE DEF h
      <3>1. CASE m = 0
        <4>1. h[0] = g[0] /\ g[0] = UnlockedUpto(g, w, first, last, 0) BY <1>0, <2>1, <2>2
        <4> QED BY <3>1, <4>1 DEF UnlockedUpto
      <3>2. CASE m # 0 /\ m <= n
        <4>1. m \in 0 .. n /\ m - 1 \in 0 .. n BY <1>0, <3>2
        <4>2. h[m] = g[m] /\ h[m - 1] = g[m - 1] /\ g[m] = UnlockedUpto(g, w, first, last, m)
          BY <2>1, <2>2, <4>1
        <4> QED BY <3>2, <4>2 DEF UnlockedUpto
      <3>3. CASE m = n + 1
        <4>1. m # 0 /\ m - 1 = n /\ n \in 0 .. n BY <1>0, <3>3
        <4>2. h[n] = g[n] BY <2>2, <4>1
        <4> QED BY <2>3, <3>3, <4>1, <4>2 DEF UnlockedUpto
      <3> QED BY <1>0, <3>1, <3>2, <3>3
    <2> HIDE DEF h
    <2>5. Upto(h, n + 1) BY <2>4
    <2>6. n + 1 \in 0 .. NR_LOCKS BY <1>0
    <2> HIDE DEF Upto
    <2> QED BY <2>5, <2>6
  <1>3. NR_LOCKS \in B
    <2> HIDE DEF B
    <2>1. \A n \in 0 .. NR_LOCKS : n \in B BY <1>0, <1>1, <1>2, CountUp
    <2> QED BY <1>0, <2>1
  <1>4. PICK g : Upto(g, NR_LOCKS) BY <1>3
  <1> DEFINE h == [n \in 0 .. NR_LOCKS |-> g[n]]
  <1>5. \A n \in 0 .. NR_LOCKS : h[n] = UnlockedUpto(h, w, first, last, n)
    <2> TAKE n \in 0 .. NR_LOCKS
    <2>1. h[n] = g[n] /\ g[n] = UnlockedUpto(g, w, first, last, n) BY <1>4
    <2>2. n # 0 => h[n - 1] = g[n - 1] BY <1>0
    <2> QED BY <2>1, <2>2 DEF UnlockedUpto
  <1>6. h = [n \in 0 .. NR_LOCKS |-> UnlockedUpto(h, w, first, last, n)] BY <1>5
  <1> QED BY <1>6 DEF IsUnlocking

(* A table in which nothing was found to unlock is as it was. *)
Untouched(s, lock) == DOMAIN s = {"lock", "full", "found"} /\ (~s.found => s.lock = lock)

LEMMA UnlockKeeps ==
    ASSUME NEW s, NEW lock, Untouched(s, lock), NEW i, NEW first, NEW last
    PROVE  Untouched(Unlock(s, i, first, last), lock)
  <1> DEFINE l == s.lock[i]
             free == {j \in LockSlot : s.lock[j] = NIL}
             s1 == [s EXCEPT !.found = TRUE]
             r == Unlock(s, i, first, last)
  <1>1. DOMAIN s1 = {"lock", "full", "found"} /\ s1.found BY DEF Untouched
  <1>2. \/ r = s \/ r = [s EXCEPT !.full = TRUE]
        \/ r = [s1 EXCEPT !.lock[i] = NIL]
        \/ r = [s1 EXCEPT !.lock[i].first = last + 1]
        \/ r = [s1 EXCEPT !.lock[i].last = first - 1]
        \/ r = [s1 EXCEPT !.lock[Min(free)] = [l EXCEPT !.first = last + 1], !.lock[i].last = first - 1]
    BY DEF Unlock
  <1>3. ASSUME NEW y, DOMAIN y = {"lock", "full", "found"}, y.found, NEW m
        PROVE  LET z == [y EXCEPT !.lock = m]
               IN  DOMAIN z = {"lock", "full", "found"} /\ z.found /\ Untouched(z, lock)
    BY <1>3 DEF Untouched
  <1>4. Untouched(s, lock) /\ Untouched([s EXCEPT !.full = TRUE], lock) BY DEF Untouched
  <1>5. \E m : [s1 EXCEPT !.lock[i] = NIL] = [s1 EXCEPT !.lock = m] OBVIOUS
  <1>6. \E m : [s1 EXCEPT !.lock[i].first = last + 1] = [s1 EXCEPT !.lock = m] OBVIOUS
  <1>7. \E m : [s1 EXCEPT !.lock[i].last = first - 1] = [s1 EXCEPT !.lock = m] OBVIOUS
  <1> DEFINE k == [l EXCEPT !.first = last + 1]
             y == [s1 EXCEPT !.lock[Min(free)] = k]
  <1> HIDE DEF free, k, s1
  <1>8. \E m : y = [s1 EXCEPT !.lock = m] OBVIOUS
  <1>9. [s1 EXCEPT !.lock[Min(free)] = k, !.lock[i].last = first - 1] = [y EXCEPT !.lock[i].last = first - 1]
    OBVIOUS
  <1>10. DOMAIN y = {"lock", "full", "found"} /\ y.found
    <2> HIDE DEF y
    <2> QED BY <1>1, <1>3, <1>8
  <1> HIDE DEF y
  <1>11. \E m : [y EXCEPT !.lock[i].last = first - 1] = [y EXCEPT !.lock = m] OBVIOUS
  <1> HIDE DEF r, l
  <1>12. CASE r = s \/ r = [s EXCEPT !.full = TRUE] BY <1>4, <1>12 DEF r
  <1>13. CASE \E m : r = [s1 EXCEPT !.lock = m] BY <1>1, <1>3, <1>13 DEF r
  <1>14. CASE \E m : r = [y EXCEPT !.lock = m] BY <1>3, <1>10, <1>14 DEF r
  <1>15. \/ r = s \/ r = [s EXCEPT !.full = TRUE]
         \/ \E m : r = [s1 EXCEPT !.lock = m]
         \/ \E m : r = [y EXCEPT !.lock = m]
    BY <1>2, <1>5, <1>6, <1>7, <1>9, <1>11 DEF k
  <1> QED BY <1>12, <1>13, <1>14, <1>15

LEMMA UnlockedKeeps ==
    ASSUME NEW w, NEW first, NEW last
    PROVE  Untouched(Unlocked(w, first, last), w.lock)
  <1> DEFINE c == CHOOSE g : IsUnlocking(g, w, first, last)
             B == {i \in 0 .. NR_LOCKS : Untouched(c[i], w.lock)}
  <1>0. NR_LOCKS \in Nat BY VfsAssumption
  <1>1. Unlocked(w, first, last) = c[NR_LOCKS] BY DEF Unlocked, IsUnlocking, UnlockedUpto
  <1>2. IsUnlocking(c, w, first, last) BY UnlockingExists
  <1> HIDE DEF c
  <1>3. \A i \in 0 .. NR_LOCKS : c[i] = UnlockedUpto(c, w, first, last, i) BY <1>2 DEF IsUnlocking
  <1>4. 0 \in B
    <2>0. c[0] = UnlockedUpto(c, w, first, last, 0) BY <1>0, <1>3
    <2>1. UnlockedUpto(c, w, first, last, 0) = [lock |-> w.lock, full |-> FALSE, found |-> FALSE]
      BY DEF UnlockedUpto
    <2>2. Untouched(c[0], w.lock) BY <2>0, <2>1 DEF Untouched
    <2> QED BY <1>0, <2>2
  <1>5. ASSUME NEW i \in 0 .. NR_LOCKS - 1, i \in B PROVE i + 1 \in B
    <2>1. i + 1 \in 0 .. NR_LOCKS /\ i + 1 # 0 /\ i + 1 - 1 = i BY <1>0
    <2>2. c[i + 1] = Unlock(c[i], i + 1, first, last) BY <1>3, <2>1 DEF UnlockedUpto
    <2>3. Untouched(c[i], w.lock) BY <1>5
    <2>4. Untouched(c[i + 1], w.lock) BY <2>2, <2>3, UnlockKeeps
    <2> QED BY <2>1, <2>4
  <1>6. NR_LOCKS \in B
    <2> HIDE DEF B
    <2>1. \A i \in 0 .. NR_LOCKS : i \in B BY <1>0, <1>4, <1>5, CountUp
    <2> QED BY <1>0, <2>1
  <1> QED BY <1>1, <1>6

LEMMA UnlockRight ==
    ASSUME NEW w, NEW L, WorldOK(w), AllRight(w, L), NEW first, NEW last,
           "FCNTL" \in L => ~(Unlocked(w, first, last).found /\ Unlocked(w, first, last).full)
    PROVE  AllRight(unlock_op(w, first, last), L)
  <1> DEFINE s == Unlocked(w, first, last)
             w1 == [w EXCEPT !.lock = s.lock]
  <1>1. unlock_op(w, first, last) = IF s.found /\ ~s.full THEN lock_revive(w1) ELSE w1 BY DEF unlock_op
  <1>2. ~s.found => s.lock = w.lock BY UnlockedKeeps DEF Untouched
  <1>3. "FCNTL" \in L => ~(s.found /\ s.full) OBVIOUS
  <1> HIDE DEF s
  <1>4. IsWorld(w) BY DEF WorldOK, Typed
  <1>5. WorldOK(w1) BY LocksFree
  <1>6. w1.fproc = w.fproc /\ w1.filp = w.filp /\ w1.vnode = w.vnode /\ w1.lock = s.lock BY <1>4 DEF IsWorld
  <1> HIDE DEF w1
  <1>7. AllRight(w1, L \ {"FCNTL"}) BY <1>6, LocksOnly
  <1>8. CASE s.found /\ ~s.full
    <2>1. AllRight(lock_revive(w1), L) BY <1>5, <1>7, LockReviveRight
    <2> QED BY <1>1, <1>8, <2>1
  <1>9. CASE ~s.found
    <2>1. AllRight(w1, L) BY <1>2, <1>6, <1>9, SameRight
    <2> QED BY <1>1, <1>9, <2>1
  <1>10. CASE s.found /\ s.full
    <2>1. AllRight(w1, L) BY <1>3, <1>7, <1>10 DEF AllRight
    <2> QED BY <1>1, <1>10, <2>1
  <1> QED BY <1>8, <1>9, <1>10

LEMMA LockOpRight ==
    ASSUME NEW w, NEW L, WorldOK(w), AllRight(w, L),
           NEW p \in Proc, w.fproc[p].used, w.fproc[p].blocked_on = "NONE",
           NEW fd \in Fd, w.fproc[p].filp[fd] # NIL,
           NEW l \in {NIL} \cup [type : LockTypes, first : Positions, last : Positions], NEW waits
    PROVE  AllRight(lock_op(w, p, fd, l, waits), L)
  <1> DEFINE s == [NoCall EXCEPT !.call = "FCNTL", !.fd = fd, !.flock = l]
             free == {i \in LockSlot : w.lock[i] = NIL}
             k == [type |-> l.type, pid |-> p, first |-> l.first, last |-> l.last]
             m == [i \in LockSlot |-> IF i # Min(free) THEN w.lock[i] ELSE k]
             x == lock_op(w, p, fd, l, waits)
  <1>1. s \in Susps /\ s.call = "FCNTL" /\ s.fd = fd /\ s.flock = l BY DEF NoCall, Susps
  <1>2. \/ x = w
        \/ x = suspend(w, p, "LOCK", s) /\ Conflicts(w, p, l.type, l.first, l.last) # {}
        \/ x = [w EXCEPT !.lock = m] /\ free # {}
    BY DEF lock_op
  <1>3. free # {} => \A i \in LockSlot : w.lock[i] # NIL => m[i] = w.lock[i]
    <2> SUFFICES ASSUME free # {} PROVE w.lock[Min(free)] = NIL OBVIOUS
    <2>1. free \subseteq Nat BY VfsAssumption DEF LockSlot
    <2> HIDE DEF free
    <2>2. Min(free) \in free BY <2>1, MinIs
    <2> QED BY <2>2 DEF free
  <1> HIDE DEF s, m, free
  <1>4. ASSUME Conflicts(w, p, l.type, l.first, l.last) # {} PROVE AllRight(suspend(w, p, "LOCK", s), L)
    <2>1. MayWait(w, p, s, L) BY <1>1, <1>4 DEF MayWait
    <2>2. w.fproc[p].filp[s.fd] # NIL BY <1>1
    <2> QED BY <1>1, <2>1, <2>2, SuspendRight
  <1>5. ASSUME free # {} PROVE AllRight([w EXCEPT !.lock = m], L)
    <2> DEFINE y == [w EXCEPT !.lock = m]
    <2>1. IsWorld(w) BY DEF WorldOK, Typed
    <2>2. y.fproc = w.fproc /\ y.filp = w.filp /\ y.vnode = w.vnode /\ y.lock = m BY <2>1 DEF IsWorld
    <2>3. WorldOK(y) BY LocksFree
    <2> HIDE DEF y
    <2>4. Calmer(y, w)
      <3>1. NothingKept(w) BY DEF AllRight, PipeRight
      <3>2. \A q \in Proc : SameWaits(y.fproc[q], w.fproc[q]) BY <2>2 DEF SameWaits
      <3>3. \A q \in Proc : FilpOf(y, q) = FilpOf(w, q) BY <2>2 DEF FilpOf
      <3> QED BY <3>1, <3>2, <3>3, KindsCalm
    <2>5. StillAwaited(y, w, L)
      <3>1. \A b : find_filp(y, "pipe", b) = find_filp(w, "pipe", b) BY <2>2 DEF find_filp
      <3>2. OneWay(y) BY <2>2 DEF OneWay, AllRight, PipeRight
      <3>3. \A i \in LockSlot : w.lock[i] # NIL => y.lock[i] = w.lock[i] BY <1>3, <1>5, <2>2
      <3> QED BY <2>2, <3>1, <3>2, <3>3 DEF StillAwaited, AllRight, PipeRight
    <2>6. AllRight(y, L) BY <2>3, <2>4, <2>5, CalmerRight DEF AllRight
    <2> QED BY <2>6 DEF y
  <1> HIDE DEF x
  <1>6. AllRight(x, L) BY <1>2, <1>4, <1>5
  <1> QED BY <1>6 DEF x-----------------------------------------------------------------------------
(* The steps of VFS again.                                                 *)

(* Unlocking frees a part of a lock, then finds no slot for the rest of the *)
(* next one and ends with ENOLCK before anybody is woken.                   *)
EndsHalfway ==
    \E p \in Proc, first, last \in Positions :
        /\ Handle(p, "unlock", unlock_op(World, first, last))
        /\ Unlocked(World, first, last).found /\ Unlocked(World, first, last).full

LEMMA BecomeRight ==
    ASSUME NEW w, NEW L, AllRight(w, L), Become(w)
    PROVE  AllRight(World, L)'
  <1> DEFINE x == World'
  <1>1. x.fproc = w.fproc /\ x.filp = w.filp /\ x.vnode = w.vnode /\ x.lock = w.lock
    BY DEF World, Become
  <1> HIDE DEF x
  <1>2. AllRight(x, L) BY <1>1, SameRight
  <1> QED BY <1>2 DEF x

LEMMA InitRight ==
    ASSUME Init, NEW L
    PROVE  AllRight(World, L)
  <1> DEFINE w == World
  <1>1. /\ w.fproc = [p \in Proc |-> [FreeProc EXCEPT !.used = p \in Boot]]
        /\ w.filp = [f \in Filp |-> FreeFilp] /\ w.vnode = EmptyPipe
    BY WorldIs DEF Init
  <1> HIDE DEF w
  <1>2. \A p \in Proc : w.fproc[p].blocked_on = "NONE" /\ w.fproc[p].susp.call = NIL
    <2> TAKE p \in Proc
    <2>1. w.fproc[p] = [FreeProc EXCEPT !.used = p \in Boot] BY <1>1
    <2>2. ASSUME NEW b PROVE LET e == [FreeProc EXCEPT !.used = b]
                             IN  e.blocked_on = "NONE" /\ e.susp.call = NIL
      BY DEF FreeProc, NoCall
    <2> QED BY <2>1, <2>2
  <1>3. \A f \in Filp : ~(w.filp[f].count > 0)
    <2>1. FreeFilp.count = 0 BY DEF FreeFilp
    <2>2. \A f \in Filp : w.filp[f].count = 0 BY <1>1, <2>1
    <2> QED BY <2>2
  <1>4. \A p \in Proc : \A call : ~Awaits(w, p, call) BY <1>2 DEF Awaits, Pends
  <1>5. NothingKept(w) /\ OnThePipe(w) BY <1>2 DEF NothingKept, OnThePipe
  <1>6. OneWay(w) BY <1>3 DEF OneWay
  <1>7. PipeShape(w.vnode) BY <1>1 DEF PipeShape, EmptyPipe
  <1>8. ReadersRight(w) /\ WritersRight(w) /\ OpenersRight(w) /\ LockersRight(w)
    BY <1>4 DEF ReadersRight, WritersRight, OpenersRight, LockersRight
  <1>9. AllRight(w, L) BY <1>5, <1>6, <1>7, <1>8 DEF AllRight, PipeRight
  <1> QED BY <1>9 DEF w

LEMMA CallsRight ==
    ASSUME VfsInv, NEW L, AllRight(World, L), "FCNTL" \in L => ~EndsHalfway, NEW p \in Proc,
           \/ Read(p) \/ Write(p) \/ Close(p) \/ SetFl(p)
           \/ Pipe(p) \/ OpenFifo(p) \/ OpenFile(p)
           \/ Lock(p) \/ Unlck(p) \/ Fork(p)
    PROVE  AllRight(World, L)'
  <1>1. WorldOK(World) BY DEF VfsInv
  <1> DEFINE w == World
             Able == w.fproc[p].used /\ w.fproc[p].blocked_on = "NONE"
  <1>2. \A name, x : Handle(p, name, x) => Able /\ Become(x) BY WorldIs DEF Handle
  <1>3. ASSUME NEW fd \in Fd, NEW v, NEW bit, Usable(p, fd, v, bit)
        PROVE  w.fproc[p].filp[fd] # NIL /\ w.filp[w.fproc[p].filp[fd]].vno = v
    <2>1. fproc[p].filp[fd] # NIL /\ filp[fproc[p].filp[fd]].vno = v BY <1>3 DEF Usable
    <2> QED BY <2>1, WorldIs
  <1>4. Sizes \subseteq Nat BY VfsAssumption
  <1> HIDE DEF w
  <1>5. WorldOK(w) /\ AllRight(w, L) BY <1>1 DEF w
  <1>6. CASE Read(p)
    <2>1. PICK fd \in Fd, n \in Sizes, ok \in {TRUE, "faults" \notin Calls} :
              /\ Usable(p, fd, "pipe", "R")
              /\ Handle(p, "read", read_write(w, p, "READ", fd, n, ok).w)
      BY <1>6 DEF Read, w
    <2>2. /\ w.fproc[p].filp[fd] # NIL /\ w.filp[w.fproc[p].filp[fd]].vno = "pipe" /\ n \in Nat /\ Able
          /\ Become(read_write(w, p, "READ", fd, n, ok).w)
      BY <1>2, <1>3, <1>4, <2>1
    <2>3. AllRight(read_write(w, p, "READ", fd, n, ok).w, L) BY <1>5, <2>2, ReadWriteRight
    <2> QED BY <2>2, <2>3, BecomeRight
  <1>7. CASE Write(p)
    <2>1. PICK fd \in Fd, n \in Sizes, ok \in {TRUE, "faults" \notin Calls} :
              /\ Usable(p, fd, "pipe", "W")
              /\ Handle(p, "write", read_write(w, p, "WRITE", fd, n, ok).w)
      BY <1>7 DEF Write, w
    <2>2. /\ w.fproc[p].filp[fd] # NIL /\ w.filp[w.fproc[p].filp[fd]].vno = "pipe" /\ n \in Nat /\ Able
          /\ Become(read_write(w, p, "WRITE", fd, n, ok).w)
      BY <1>2, <1>3, <1>4, <2>1
    <2>3. AllRight(read_write(w, p, "WRITE", fd, n, ok).w, L) BY <1>5, <2>2, ReadWriteRight
    <2> QED BY <2>2, <2>3, BecomeRight
  <1>8. CASE Close(p)
    <2>1. PICK fd \in Fd : Handle(p, "close", close_fd(w, p, fd)) BY <1>8 DEF Close, w
    <2>2. Able /\ Become(close_fd(w, p, fd)) BY <1>2, <2>1
    <2>3. AllRight(close_fd(w, p, fd), L) BY <1>5, <2>2, CloseFdRight
    <2> QED BY <2>2, <2>3, BecomeRight
  <1>9. CASE SetFl(p)
    <2>1. PICK fd \in Fd, b \in BOOLEAN :
              /\ w.fproc[p].filp[fd] # NIL
              /\ Handle(p, "setfl", [w EXCEPT !.filp[w.fproc[p].filp[fd]].nonblock = b])
      BY <1>9, WorldIs DEF SetFl, w
    <2> DEFINE f == w.fproc[p].filp[fd]
    <2>2. f \in Filp
      <3>1. w.fproc[p] \in ProcEntries BY <1>5 DEF WorldOK, Typed
      <3>2. w.fproc[p].filp \in [Fd -> Filp \cup {NIL}] BY <3>1 DEF ProcEntries
      <3> QED BY <2>1, <3>2
    <2>3. Handle(p, "setfl", [w EXCEPT !.filp[f].nonblock = b]) BY <2>1
    <2> HIDE DEF f
    <2>4. AllRight([w EXCEPT !.filp[f].nonblock = b], L) BY <1>5, <2>2, SetFlRight
    <2>5. Become([w EXCEPT !.filp[f].nonblock = b]) BY <1>2, <2>3
    <2> QED BY <2>4, <2>5, BecomeRight
  <1>10. CASE Pipe(p)
    <2>1. /\ Cardinality(FreeFds(w, p)) >= 2 /\ Cardinality(FreeFilps(w)) >= 2
          /\ OpenFilps(w, "pipe") = {} /\ Handle(p, "pipe", do_pipe(w, p))
      BY <1>10 DEF Pipe, w
    <2>2. Able /\ Become(do_pipe(w, p)) BY <1>2, <2>1
    <2>3. AllRight(do_pipe(w, p), L) BY <1>5, <2>1, <2>2, DoPipeRight
    <2> QED BY <2>2, <2>3, BecomeRight
  <1>11. CASE OpenFifo(p)
    <2>1. PICK bits \in {{"R"}, {"W"}, {"R", "W"}}, b \in BOOLEAN :
              /\ FreeFds(w, p) = Fd /\ FreeFilps(w) # {}
              /\ Handle(p, "fifo", common_open(w, p, "pipe", bits, b).w)
      BY <1>11 DEF OpenFifo, w
    <2>2. Able /\ FreeFds(w, p) # {} /\ Become(common_open(w, p, "pipe", bits, b).w)
      BY <1>2, <2>1, Constants
    <2>3. AllRight(common_open(w, p, "pipe", bits, b).w, L) BY <1>5, <2>1, <2>2, CommonOpenRight
    <2> QED BY <2>2, <2>3, BecomeRight
  <1>12. CASE OpenFile(p)
    <2> DEFINE x == common_open(w, p, "file", {"R", "W"}, FALSE).w
    <2>1. FreeFds(w, p) = Fd /\ FreeFilps(w) # {} /\ Handle(p, "file", x)
      BY <1>12 DEF OpenFile, w
    <2>2. Able /\ FreeFds(w, p) # {} /\ Become(x) BY <1>2, <2>1, Constants
    <2>3. AllRight(x, L) BY <1>5, <2>1, <2>2, CommonOpenRight
    <2> HIDE DEF x
    <2> QED BY <2>2, <2>3, BecomeRight
  <1>13. CASE Lock(p)
    <2>1. PICK fd \in Fd, first \in Positions, last \in Positions, type \in LockTypes, waits \in BOOLEAN :
              /\ Usable(p, fd, "file", IF type = "RDLCK" THEN "R" ELSE "W")
              /\ Handle(p, "lock", lock_op(w, p, fd, [type |-> type, first |-> first, last |-> last], waits))
      BY <1>13 DEF Lock, w
    <2> DEFINE l == [type |-> type, first |-> first, last |-> last]
    <2>2. l \in {NIL} \cup [type : LockTypes, first : Positions, last : Positions] OBVIOUS
    <2>3. w.fproc[p].filp[fd] # NIL /\ Able /\ Become(lock_op(w, p, fd, l, waits)) BY <1>2, <1>3, <2>1
    <2> HIDE DEF l
    <2>4. AllRight(lock_op(w, p, fd, l, waits), L) BY <1>5, <2>2, <2>3, LockOpRight
    <2> QED BY <2>3, <2>4, BecomeRight
  <1>14. CASE Unlck(p)
    <2>1. PICK first \in Positions, last \in Positions : Handle(p, "unlock", unlock_op(w, first, last))
      BY <1>14 DEF Unlck, w
    <2>2. "FCNTL" \in L => ~(Unlocked(w, first, last).found /\ Unlocked(w, first, last).full)
      BY <2>1 DEF EndsHalfway, w
    <2>3. AllRight(unlock_op(w, first, last), L) BY <1>5, <2>2, UnlockRight
    <2>4. Become(unlock_op(w, first, last)) BY <1>2, <2>1
    <2> QED BY <2>3, <2>4, BecomeRight
  <1>15. CASE Fork(p)
    <2>1. PICK c \in Proc : ~w.fproc[c].used /\ Handle(p, "fork", pm_fork(w, p, c))
      BY <1>15, WorldIs DEF Fork, w
    <2>2. Able /\ Become(pm_fork(w, p, c)) BY <1>2, <2>1
    <2>3. AllRight(pm_fork(w, p, c), L) BY <1>5, <2>1, <2>2, ForkRight
    <2> QED BY <2>2, <2>3, BecomeRight
  <1> QED BY <1>6, <1>7, <1>8, <1>9, <1>10, <1>11, <1>12, <1>13, <1>14, <1>15

LEMMA EndsRight ==
    ASSUME VfsInv, NEW L, AllRight(World, L), NEW p \in Proc, Exit(p) \/ Unpause(p)
    PROVE  AllRight(World, L)'
  <1> DEFINE w == World
  <1>1. WorldOK(w) /\ AllRight(w, L) /\ w.fproc = fproc BY WorldIs DEF VfsInv
  <1> HIDE DEF w
  <1>2. CASE Exit(p)
    <2>1. w.fproc[p].used /\ Become(free_proc(w, p)) BY <1>1, <1>2 DEF Exit, w
    <2>2. AllRight(free_proc(w, p), L) BY <1>1, <2>1, FreeProcRight
    <2> QED BY <2>1, <2>2, BecomeRight
  <1>3. CASE Unpause(p)
    <2>1. w.fproc[p].used /\ Become(unpause(w, p)) BY <1>1, <1>3 DEF Unpause, w
    <2>2. AllRight(unpause(w, p), L) BY <1>1, <2>1, UnpauseRight
    <2> QED BY <2>1, <2>2, BecomeRight
  <1> QED BY <1>2, <1>3

(* Who was woken tries again from a state that is right for all the others. *)
LEMMA RevivesRight ==
    ASSUME VfsInv, NEW L, AllRight(World, L), get_work
    PROVE  AllRight(World, L)'
  <1>1. PICK p \in Reviving : ReviveOnPipe(p) \/ ReviveOnLock(p) BY DEF get_work
  <1>2. WorldOK(World) /\ p \in Proc /\ fproc[p].used BY DEF VfsInv, Reviving
  <1> DEFINE x == Resumed(p)
             s == fproc[p].susp
  <1>3. /\ WorldOK(x) /\ x.fproc[p].used /\ x.fproc[p].blocked_on = "NONE"
        /\ x.fproc[p].filp = fproc[p].filp
    BY <1>2, ResumedOK
  <1>4. fproc[p] \in ProcEntries /\ EntryOK(fproc[p]) BY <1>2, WorldIs DEF WorldOK, Typed
  <1>5. s \in Susps BY <1>4 DEF ProcEntries
  <1>6. /\ s.fd \in Fd /\ s.nbytes \in Nat
        /\ s.flock \in {NIL} \cup [type : LockTypes, first : Positions, last : Positions]
    BY <1>5 DEF Susps
  <1>7. x.filp = filp BY WorldIs DEF Resumed, World
  <1>8. AllRight(x, L) BY <1>2, ResumedRight
  <1> HIDE DEF x
  <1>9. CASE ReviveOnPipe(p)
    <2>1. PICK ok \in {TRUE, "faults" \notin Calls} :
              /\ fproc[p].blocked_on = "PIPE"
              /\ Become(rw_pipe(x, p, s.call, s.fd, s.nbytes, ok).w)
      BY <1>9 DEF ReviveOnPipe, x
    <2>2. s.call \in {"READ", "WRITE"} /\ x.fproc[p].filp[s.fd] # NIL BY <1>3, <1>4, <2>1 DEF EntryOK
    <2>3. x.filp[x.fproc[p].filp[s.fd]].vno = "pipe"
      <3>1. FilpOf(World, p).vno = "pipe"
        BY <1>2, <2>1, WorldIs DEF AllRight, PipeRight, OnThePipe
      <3>2. FilpOf(World, p) = filp[fproc[p].filp[s.fd]] BY WorldIs DEF FilpOf
      <3> QED BY <1>3, <1>7, <3>1, <3>2
    <2> DEFINE call == s.call
               fd == s.fd
               n == s.nbytes
    <2>4. /\ call \in {"READ", "WRITE"} /\ fd \in Fd /\ n \in Nat /\ x.fproc[p].filp[fd] # NIL
          /\ x.filp[x.fproc[p].filp[fd]].vno = "pipe" /\ Become(rw_pipe(x, p, call, fd, n, ok).w)
      BY <1>6, <2>1, <2>2, <2>3
    <2> HIDE DEF s, call, fd, n
    <2>5. AllRight(rw_pipe(x, p, call, fd, n, ok).w, L) BY <1>2, <1>3, <1>8, <2>4, RwPipeRight
    <2> QED BY <2>4, <2>5, BecomeRight
  <1>10. CASE ReviveOnLock(p)
    <2>1. fproc[p].blocked_on = "LOCK" /\ Become(lock_op(x, p, s.fd, s.flock, TRUE))
      BY <1>10 DEF ReviveOnLock, x
    <2>2. x.fproc[p].filp[s.fd] # NIL BY <1>3, <1>4, <2>1 DEF EntryOK
    <2> HIDE DEF s
    <2>3. AllRight(lock_op(x, p, s.fd, s.flock, TRUE), L) BY <1>2, <1>3, <1>6, <1>8, <2>2, LockOpRight
    <2> QED BY <2>1, <2>3, BecomeRight DEF s
  <1> QED BY <1>1, <1>9, <1>10

LEMMA NextRight ==
    ASSUME VfsInv, NEW L, AllRight(World, L), [Next]_vars, "FCNTL" \in L => [~EndsHalfway]_vars
    PROVE  AllRight(World, L)'
  <1>1. CASE UNCHANGED vars
    <2>1. World' = World BY <1>1 DEF vars, World
    <2> QED BY <2>1
  <1>2. CASE get_work BY <1>2, RevivesRight
  <1>3. ASSUME NEW p \in Proc, "FCNTL" \in L => ~EndsHalfway,
               \/ Read(p) \/ Write(p) \/ Close(p) \/ SetFl(p)
               \/ Pipe(p) \/ OpenFifo(p) \/ OpenFile(p)
               \/ Lock(p) \/ Unlck(p) \/ Fork(p)
        PROVE  AllRight(World, L)'
    BY <1>3, CallsRight
  <1>4. ASSUME NEW p \in Proc, Exit(p) \/ Unpause(p) PROVE AllRight(World, L)'
    BY <1>4, EndsRight
  <1> QED BY <1>1, <1>2, <1>3, <1>4 DEF Next

(* When nobody is reviving, whoever keeps a call waits in it. *)
LEMMA HangsAwaits ==
    ASSUME VfsInv, PipeRight(World), Idle
    PROVE  \A p \in Proc : \A call \in {"READ", "WRITE", "OPEN", "FCNTL"} :
               Hangs(p, call) <=> Awaits(World, p, call)
  <1> TAKE p \in Proc, call \in {"READ", "WRITE", "OPEN", "FCNTL"}
  <1>1. WorldOK(World) /\ World.fproc = fproc /\ World.rev = reviving BY WorldIs DEF VfsInv
  <1>2. call # NIL BY VfsAssumption
  <1>3. fproc[p].used => ~fproc[p].revived
    <2> DEFINE M == Marked(fproc)
    <2>1. Cardinality(M) = 0 BY <1>1 DEF WorldOK, Tallied, Idle
    <2>2. M \in SUBSET Proc BY DEF Marked
    <2> HIDE DEF M
    <2>3. M = {} BY <2>1, <2>2, Countable, FS_EmptySet
    <2> QED BY <2>3 DEF M, Marked
  <1>4. fproc[p].blocked_on = "NONE" => fproc[p].susp.call = NIL BY <1>1 DEF PipeRight, NothingKept
  <1> QED BY <1>1, <1>2, <1>3, <1>4 DEF Hangs, Awaits, Pends
LEMMA RightlyOnPipes ==
    ASSUME VfsInv, AllRight(World, {"OPEN"}), Idle
    PROVE  PipesAwaited
  <1> DEFINE w == World
  <1>1. /\ ReadersRight(w) /\ WritersRight(w) /\ OpenersRight(w)
    BY DEF AllRight, PipeRight
  <1>2. \A p \in Proc : \A call \in {"READ", "WRITE", "OPEN", "FCNTL"} : Hangs(p, call) <=> Awaits(w, p, call)
    BY HangsAwaits DEF AllRight
  <1>3. w.vnode = vnode /\ \A p : FilpOf(w, p) = filp[fproc[p].filp[fproc[p].susp.fd]]
    BY WorldIs DEF FilpOf
  <1> HIDE DEF w
  <1>4. ASSUME NEW p \in Proc, Hangs(p, "READ")
        PROVE  vnode.size = 0 /\ find_filp(w, "pipe", "W") # {}
    BY <1>1, <1>2, <1>3, <1>4 DEF ReadersRight
  <1>5. ASSUME NEW p \in Proc, Hangs(p, "WRITE")
        PROVE  find_filp(w, "pipe", "R") # {} /\ \A q \in Proc : ~Hangs(q, "READ")
    <2>1. Awaits(w, p, "WRITE") BY <1>2, <1>5
    <2>2. find_filp(w, "pipe", "R") # {} /\ \A q \in Proc : ~Awaits(w, q, "READ")
      BY <1>1, <2>1 DEF WritersRight
    <2> QED BY <1>2, <2>2
  <1>6. ASSUME NEW p \in Proc, Hangs(p, "OPEN")
        PROVE  find_filp(w, "pipe", IF "W" \in FilpOf(w, p).mode THEN "R" ELSE "W") = {}
    <2>1. Awaits(w, p, "OPEN") BY <1>2, <1>6
    <2>2. find_filp(w, "pipe", Other(FilpOf(w, p).mode)) = {} BY <1>1, <2>1 DEF OpenersRight
    <2> QED BY <2>2 DEF Other
  <1> QED BY <1>3, <1>4, <1>5, <1>6 DEF PipesAwaited, w

LEMMA RightlyOnLocks ==
    ASSUME VfsInv, AllRight(World, {"OPEN", "FCNTL"}), Idle
    PROVE  PipesAwaited /\ LocksAwaited
  <1> DEFINE w == World
  <1>1. AllRight(World, {"OPEN"}) /\ LockersRight(w) /\ PipeRight(w) BY DEF AllRight
  <1>2. PipesAwaited BY <1>1, RightlyOnPipes
  <1>3. \A p \in Proc : Hangs(p, "FCNTL") <=> Awaits(w, p, "FCNTL") BY <1>1, HangsAwaits
  <1>4. w.fproc = fproc BY WorldIs
  <1> HIDE DEF w
  <1>5. \A p \in Proc : Hangs(p, "FCNTL") =>
            LET l == fproc[p].susp.flock IN Conflicts(w, p, l.type, l.first, l.last) # {}
    BY <1>1, <1>3, <1>4 DEF LockersRight
  <1> QED BY <1>2, <1>5 DEF LocksAwaited, w

(* Whenever VFS waits for the next message, whoever is suspended on a pipe  *)
(* has to be: a reader has an empty pipe and a writer left, a writer has a  *)
(* reader left that is not suspended itself, and who opens a FIFO has no    *)
(* partner.  release() in Xpipe_check(), pipe_open() and close_filp() wakes *)
(* all who have to look again, in whatever order they then try.             *)
THEOREM NoPipeWakeupLost == Spec => [](Idle => PipesAwaited)
  <1> DEFINE Inv == VfsInv /\ AllRight(World, {"OPEN"})
  <1>1. Init => Inv BY InitVfs, InitRight
  <1>2. Inv /\ [Next]_vars => Inv'
    <2> SUFFICES ASSUME Inv, [Next]_vars PROVE Inv' OBVIOUS
    <2>1. VfsInv' BY NextVfs
    <2>2. AllRight(World, {"OPEN"})'
      <3> DEFINE L == {"OPEN"}
      <3>1. AllRight(World, L) /\ ("FCNTL" \in L => [~EndsHalfway]_vars) OBVIOUS
      <3> HIDE DEF L
      <3>2. AllRight(World, L)' BY <3>1, NextRight
      <3> QED BY <3>2 DEF L
    <2> QED BY <2>1, <2>2
  <1>3. Inv => (Idle => PipesAwaited) BY RightlyOnPipes
  <1> QED BY <1>1, <1>2, <1>3, PTL DEF Spec

(* No wakeup is lost at all, of a process that waits for a lock either, as  *)
(* long as unlock never ends halfway: the return of ENOLCK in the middle of *)
(* lock_op(), after a part of a lock was freed and before lock_revive(), is *)
(* the only way in which a process can go on waiting for nothing.           *)
THEOREM NoWakeupLost == Spec /\ [][~EndsHalfway]_vars => []SuspendedRightly
  <1> DEFINE L == {"OPEN", "FCNTL"}
             Inv == VfsInv /\ AllRight(World, {"OPEN", "FCNTL"})
  <1>1. Init => Inv BY InitVfs, InitRight
  <1>2. Inv /\ [Next]_vars /\ [~EndsHalfway]_vars => Inv'
    <2> SUFFICES ASSUME Inv, [Next]_vars, [~EndsHalfway]_vars PROVE Inv' OBVIOUS
    <2>1. VfsInv' BY NextVfs
    <2>2. AllRight(World, L) OBVIOUS
    <2> HIDE DEF L
    <2>3. AllRight(World, L)' BY <2>2, NextRight
    <2> QED BY <2>1, <2>3 DEF L
  <1>3. Inv => SuspendedRightly BY RightlyOnLocks DEF SuspendedRightly
  <1> QED BY <1>1, <1>2, <1>3, PTL DEF Spec
=============================================================================
