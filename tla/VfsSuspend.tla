----------------------------- MODULE VfsSuspend -----------------------------
(***************************************************************************)
(* How the file server (servers/vfs) suspends processes and revives them:  *)
(* reads and writes of a pipe (pipe.c, rw_pipe() of read.c), the opening   *)
(* of a FIFO (open.c) and locks on a file (lock.c).                        *)
(*                                                                         *)
(* VFS deals with one message at a time.  Before it receives the next one  *)
(* get_work() (main.c) lets every process that was marked as reviving try  *)
(* its call again, which may suspend it again or revive others.  There is  *)
(* one pipe (or FIFO) and one regular file; bytes are counted, not kept.   *)
(* Operators whose name ends in _F are seeded faults, used nowhere.        *)
(***************************************************************************)
EXTENDS Integers, Sequences, FiniteSets, FiniteSetsExt

CONSTANTS
    Proc,        \* slots of the process table, in order
    Boot,        \* those in use at first
    OPEN_MAX,    \* file descriptors of a process
    NR_FILPS,    \* size of the table of open files
    PIPE_BUF,    \* what a pipe holds
    Sizes,       \* what processes ask to read and write
    NR_LOCKS,    \* size of the table of locks
    Positions,   \* bytes of the file that can be locked
    LockTypes,   \* kinds of locks that are set
    Calls,       \* what processes do
    NIL

ASSUME VfsAssumption ==
    /\ Proc \subseteq Nat \ {0} /\ IsFiniteSet(Proc) /\ Boot \subseteq Proc
    /\ {OPEN_MAX, NR_FILPS, PIPE_BUF, NR_LOCKS} \subseteq Nat \ {0}
    /\ Sizes \subseteq Nat \ {0} /\ Positions \subseteq Nat
    /\ LockTypes \subseteq {"RDLCK", "WRLCK"}
    /\ NIL \notin Int /\ NIL \notin {"READ", "WRITE", "OPEN", "FCNTL"}

VARIABLES
    fproc,        \* the process table
    filp,         \* open files: descriptors that refer to it, mode, flags
    vnode,        \* of the pipe: v_size, v_pipe_rd_pos, v_pipe_wr_pos
    file_lock,    \* the locks of the file
    susp_count,   \* processes suspended on a pipe
    reviving,     \* processes that are being revived
    rp,           \* how far get_work() has looked through the table
    panic         \* why VFS has stopped, or ""

vars == <<fproc, filp, vnode, file_lock, susp_count, reviving, rp, panic>>

Fd == 0 .. OPEN_MAX - 1
Filp == 1 .. NR_FILPS
LockSlot == 1 .. NR_LOCKS

EAGAIN == -11
EIO == -5
ENXIO == -6
EPIPE == -32
SUSPEND == -998

NoCall == [call |-> NIL, fd |-> 0, nbytes |-> 0, flock |-> NIL]
FreeProc ==
    [used |-> FALSE, filp |-> [d \in Fd |-> NIL], blocked_on |-> "NONE",
     revived |-> FALSE, susp |-> NoCall, partial |-> 0]
FreeFilp == [count |-> 0, vno |-> NIL, mode |-> {}, nonblock |-> FALSE]
EmptyPipe == [size |-> 0, rd |-> 0, wr |-> 0]

Init ==
    /\ fproc = [p \in Proc |-> [FreeProc EXCEPT !.used = p \in Boot]]
    /\ filp = [f \in Filp |-> FreeFilp]
    /\ vnode = EmptyPipe
    /\ file_lock = [i \in LockSlot |-> NIL]
    /\ susp_count = 0 /\ reviving = 0 /\ rp = 0 /\ panic = ""

-----------------------------------------------------------------------------
(* The functions of VFS map the state, a record, to a state.               *)
World == [fproc |-> fproc, filp |-> filp, vnode |-> vnode, lock |-> file_lock,
          susp |-> susp_count, rev |-> reviving, panic |-> panic]

Become(w) ==
    /\ fproc' = w.fproc /\ filp' = w.filp /\ vnode' = w.vnode /\ file_lock' = w.lock
    /\ susp_count' = w.susp /\ reviving' = w.rev /\ panic' = w.panic

Ret(w, r) == [w |-> w, r |-> r]

(* The filps in use that refer to v in the way described by bit. *)
find_filp(w, v, bit) ==
    {f \in Filp : w.filp[f].count > 0 /\ w.filp[f].vno = v /\ bit \in w.filp[f].mode}

OpenFilps(w, v) == {f \in Filp : w.filp[f].count > 0 /\ w.filp[f].vno = v}
FreeFilps(w) == {f \in Filp : w.filp[f].count = 0}
FreeFds(w, p) == {d \in Fd : w.fproc[p].filp[d] = NIL}
VnoOf(w, p, fd) == w.filp[w.fproc[p].filp[fd]].vno

Retries(f) == f.blocked_on \in {"PIPE", "LOCK"} /\ ~f.revived

(* An entry of the process table: who waits for a pipe or a lock will try  *)
(* again, who opened a FIFO gets its answer.                               *)
revive(f) ==
    [f EXCEPT !.revived = @ \/ Retries(f),
              !.blocked_on = IF @ = "POPEN" THEN "NONE" ELSE @,
              !.susp = IF f.blocked_on = "POPEN" THEN NoCall ELSE @]

ReviveAll(w, S) ==
    [w EXCEPT !.fproc = [p \in Proc |-> IF p \in S THEN revive(w.fproc[p]) ELSE w.fproc[p]],
              !.rev = @ + Cardinality({p \in S : Retries(w.fproc[p])})]

(* Fault: the first process only is woken. *)
releaseOne_F(w, v, call, count) ==
    LET hanging == {p \in Proc :
                       /\ w.fproc[p].used /\ w.fproc[p].blocked_on # "NONE"
                       /\ ~w.fproc[p].revived /\ w.fproc[p].susp.call = call
                       /\ VnoOf(w, p, w.fproc[p].susp.fd) = v}
        chosen == {p \in hanging : \A q \in hanging : p <= q}
    IN  [ReviveAll(w, chosen) EXCEPT !.susp = @ - Cardinality(chosen)]

(* At most count of the processes that hang on v with the call are revived. *)
release(w, v, call, count) ==
    LET hanging == {p \in Proc :
                       /\ w.fproc[p].used /\ w.fproc[p].blocked_on # "NONE"
                       /\ ~w.fproc[p].revived /\ w.fproc[p].susp.call = call
                       /\ VnoOf(w, p, w.fproc[p].susp.fd) = v}
        chosen == {p \in hanging : Cardinality({q \in hanging : q <= p}) <= count}
        left == w.susp - Cardinality(chosen)
    IN  [ReviveAll(w, chosen) EXCEPT !.susp = left,
                                     !.panic = IF left < 0 THEN "susp_count" ELSE @]

lock_revive(w) ==
    ReviveAll(w, {p \in Proc : w.fproc[p].used /\ w.fproc[p].blocked_on = "LOCK"})

suspend(w, p, why, susp) ==
    [w EXCEPT !.susp = IF why = "POPEN" THEN @ + 1 ELSE @,
              !.fproc[p].blocked_on = why, !.fproc[p].susp = susp]

pipe_suspend(w, p, call, fd, size) ==
    [w EXCEPT !.susp = @ + 1, !.fproc[p].blocked_on = "PIPE",
              !.fproc[p].susp = [NoCall EXCEPT !.call = call, !.fd = fd, !.nbytes = size]]

-----------------------------------------------------------------------------
(* Reading and writing a pipe.                                             *)

Xpipe_check(w, call, nonblock, bytes) ==
    LET v == w.vnode
        wait == IF nonblock THEN EAGAIN ELSE SUSPEND
    IN  IF call = "READ"
        THEN IF v.rd < v.size THEN Ret(w, bytes)
             ELSE IF find_filp(w, "pipe", "W") = {} THEN Ret(w, 0)
             ELSE Ret(release(w, "pipe", "WRITE", w.susp), wait)
        ELSE IF find_filp(w, "pipe", "R") = {} THEN Ret(w, EPIPE)
        ELSE IF v.wr + bytes <= PIPE_BUF
             THEN Ret(IF v.wr = 0 THEN release(w, "pipe", "READ", w.susp) ELSE w, bytes)
        ELSE IF bytes > PIPE_BUF /\ v.wr < PIPE_BUF
             THEN Ret(release(w, "pipe", "READ", w.susp), PIPE_BUF - v.wr)
        ELSE Ret(w, wait)

(* Where the pipe is after size bytes; a reader that empties it resets it. *)
Moved(v, call, size) ==
    IF call = "WRITE"
    THEN [v EXCEPT !.wr = @ + size, !.size = Max({@, v.wr + size})]
    ELSE IF v.rd + size >= v.size THEN EmptyPipe ELSE [v EXCEPT !.rd = @ + size]

(* ok: the file system process carries the request out. *)
rw_pipe(w, p, call, fd, bytes, ok) ==
    LET nonblock == w.filp[w.fproc[p].filp[fd]].nonblock
        c == Xpipe_check(w, call, nonblock, bytes)
        size == IF call = "READ" THEN Min({c.r, w.vnode.size - w.vnode.rd}) ELSE c.r
        w1 == [c.w EXCEPT !.vnode = Moved(@, call, size)]
        cum_io == w.fproc[p].partial + size
    IN  IF c.r <= 0
        THEN Ret(IF c.r = SUSPEND THEN pipe_suspend(c.w, p, call, fd, bytes) ELSE c.w, c.r)
        ELSE IF ~ok THEN Ret(c.w, EIO)
        ELSE IF c.r < bytes /\ ~nonblock
        THEN Ret([pipe_suspend(w1, p, call, fd, bytes - size) EXCEPT
                     !.fproc[p].partial = cum_io], SUSPEND)
        ELSE Ret([w1 EXCEPT !.fproc[p].partial = 0], cum_io)

read_write(w, p, call, fd, bytes, ok) ==
    IF w.fproc[p].partial # 0 THEN Ret([w EXCEPT !.panic = "partial"], SUSPEND)
    ELSE rw_pipe(w, p, call, fd, bytes, ok)

-----------------------------------------------------------------------------
(* Opening and closing.                                                    *)

Claim(w, p, d, f, v, mode, nonblock) ==
    [w EXCEPT !.fproc[p].filp[d] = f,
              !.filp[f] = [count |-> 1, vno |-> v, mode |-> mode, nonblock |-> nonblock]]

do_pipe(w, p) ==
    LET d0 == Min(FreeFds(w, p))
        d1 == Min(FreeFds(w, p) \ {d0})
        f0 == Min(FreeFilps(w))
        f1 == Min(FreeFilps(w) \ {f0})
    IN  Claim(Claim([w EXCEPT !.vnode = EmptyPipe], p, d0, f0, "pipe", {"R"}, FALSE),
              p, d1, f1, "pipe", {"W"}, FALSE)

(* The first to open a FIFO finds it empty. *)
exists_open(w) == IF OpenFilps(w, "pipe") = {} THEN [w EXCEPT !.vnode = EmptyPipe] ELSE w

pipe_open(w, p, fd, bits, nonblock) ==
    LET partner == find_filp(w, "pipe", IF "W" \in bits THEN "R" ELSE "W")
    IN  IF bits = {"R", "W"} THEN Ret(w, ENXIO)
        ELSE IF partner # {} THEN Ret(release(w, "pipe", "OPEN", w.susp), 0)
        ELSE IF ~nonblock
        THEN Ret(suspend(w, p, "POPEN", [NoCall EXCEPT !.call = "OPEN", !.fd = fd]), SUSPEND)
        ELSE Ret(w, IF "W" \in bits THEN ENXIO ELSE 0)

(* A FIFO is read and written through one filp each, which all share. *)
common_open(w, p, v, bits, nonblock) ==
    LET d == Min(FreeFds(w, p))
        f == Min(FreeFilps(w))
        w0 == IF v = "pipe" THEN exists_open(w) ELSE w
        w1 == Claim(w0, p, d, f, v, bits, nonblock)
        o == pipe_open(w1, p, d, bits, nonblock)
        shared == find_filp(w0, "pipe", IF "R" \in bits THEN "R" ELSE "W")
    IN  IF v = "file" THEN Ret(w1, d)
        ELSE IF o.r = ENXIO THEN Ret(w0, ENXIO)
        ELSE IF shared = {} THEN o
        ELSE Ret([o.w EXCEPT !.filp[f] = FreeFilp, !.fproc[p].filp[d] = Min(shared),
                             !.filp[Min(shared)].count = @ + 1,
                             !.filp[Min(shared)].nonblock = nonblock], o.r)

(* Whoever waits at the other end of a pipe looks again. *)
close_filp(w, f) ==
    LET g == w.filp[f]
        w1 == IF g.vno = "pipe"
              THEN release(w, "pipe", IF "R" \in g.mode THEN "WRITE" ELSE "READ", Cardinality(Proc))
              ELSE w
    IN  [w1 EXCEPT !.filp[f] = IF g.count = 1 THEN FreeFilp ELSE [g EXCEPT !.count = @ - 1]]

LocksOf(w, p) == {i \in LockSlot : w.lock[i] # NIL /\ w.lock[i].pid = p}

close_fd(w, p, fd) ==
    LET f == w.fproc[p].filp[fd]
        w1 == [close_filp(w, f) EXCEPT !.fproc[p].filp[fd] = NIL]
        gone == IF w.filp[f].vno = "file" THEN LocksOf(w, p) ELSE {}
    IN  IF f = NIL THEN w
        ELSE IF gone = {} THEN w1
        ELSE lock_revive([w1 EXCEPT !.lock = [i \in LockSlot |-> IF i \in gone THEN NIL ELSE @[i]]])

-----------------------------------------------------------------------------
(* What PM tells VFS.                                                      *)

(* Fault: an interrupted open is not counted off. *)
unpauseOpen_F(w, p) ==
    LET on == w.fproc[p].blocked_on
        was == w.fproc[p].revived
    IN  IF on = "NONE" THEN w
        ELSE [w EXCEPT !.fproc[p].blocked_on = "NONE", !.fproc[p].susp = NoCall,
                       !.fproc[p].revived = FALSE,
                       !.rev = IF was THEN @ - 1 ELSE @,
                       !.susp = IF on = "PIPE" /\ ~was THEN @ - 1 ELSE @]

unpause(w, p) ==
    LET on == w.fproc[p].blocked_on
        was == w.fproc[p].revived
    IN  IF on = "NONE" THEN w
        ELSE [w EXCEPT !.fproc[p].blocked_on = "NONE", !.fproc[p].susp = NoCall,
                       !.fproc[p].revived = FALSE,
                       !.rev = IF was THEN @ - 1 ELSE @,
                       !.susp = IF on \in {"PIPE", "POPEN"} /\ ~was THEN @ - 1 ELSE @]

(* All descriptors are closed, from 0 on. *)
free_proc(w, p) ==
    LET closed[n \in 0 .. OPEN_MAX] ==
            IF n = 0 THEN unpause(w, p) ELSE close_fd(closed[n - 1], p, n - 1)
    IN  [closed[OPEN_MAX] EXCEPT !.fproc[p] = FreeProc]

pm_fork(w, p, c) ==
    [w EXCEPT !.fproc[c] = w.fproc[p],
              !.filp = [f \in Filp |->
                  [w.filp[f] EXCEPT !.count = @ + Cardinality({d \in Fd : w.fproc[p].filp[d] = f})]]]

-----------------------------------------------------------------------------
(* Locks.                                                                  *)

Overlaps(l, first, last) == l # NIL /\ last >= l.first /\ first <= l.last

Conflicts(w, p, type, first, last) ==
    {i \in LockSlot :
        /\ Overlaps(w.lock[i], first, last)
        /\ ~(type = "RDLCK" /\ w.lock[i].type = "RDLCK") /\ w.lock[i].pid # p}

(* Slot i of the table when first..last is unlocked: whoever set the lock.  *)
(* A lock of which the middle is unlocked needs a second slot.              *)
Unlock(s, i, first, last) ==
    LET l == s.lock[i]
        free == {j \in LockSlot : s.lock[j] = NIL}
        s1 == [s EXCEPT !.found = TRUE]
    IN  IF s.full \/ ~Overlaps(l, first, last) THEN s
        ELSE IF first <= l.first /\ last >= l.last THEN [s1 EXCEPT !.lock[i] = NIL]
        ELSE IF first <= l.first THEN [s1 EXCEPT !.lock[i].first = last + 1]
        ELSE IF last >= l.last THEN [s1 EXCEPT !.lock[i].last = first - 1]
        ELSE IF free = {} THEN [s EXCEPT !.full = TRUE]
        ELSE [s1 EXCEPT !.lock[Min(free)] = [l EXCEPT !.first = last + 1],
                        !.lock[i].last = first - 1]

(* The table of locks is gone through once. *)
Unlocked(w, first, last) ==
    LET s[i \in 0 .. NR_LOCKS] ==
            IF i = 0 THEN [lock |-> w.lock, full |-> FALSE, found |-> FALSE]
            ELSE Unlock(s[i - 1], i, first, last)
    IN  s[NR_LOCKS]

(* ENOLCK ends the call at once, before anybody is revived. *)
unlock_op(w, first, last) ==
    LET s == Unlocked(w, first, last)
        w1 == [w EXCEPT !.lock = s.lock]
    IN  IF s.found /\ ~s.full THEN lock_revive(w1) ELSE w1

(* Setting a lock, waiting for it (F_SETLKW) or not. *)
lock_op(w, p, fd, l, waits) ==
    LET free == {i \in LockSlot : w.lock[i] = NIL}
    IN  IF Conflicts(w, p, l.type, l.first, l.last) # {}
        THEN IF waits
             THEN suspend(w, p, "LOCK", [NoCall EXCEPT !.call = "FCNTL", !.fd = fd, !.flock = l])
             ELSE w
        ELSE IF free = {} THEN w
        ELSE [w EXCEPT !.lock = [i \in LockSlot |->
                  IF i # Min(free) THEN @[i]
                  ELSE [type |-> l.type, pid |-> p, first |-> l.first, last |-> l.last]]]

-----------------------------------------------------------------------------
(* Messages are received when nobody is reviving.                          *)
Idle == reviving = 0 /\ panic = ""

(* p makes a call, which makes the state w. *)
Handle(p, name, w) ==
    /\ name \in Calls /\ Idle /\ fproc[p].used /\ fproc[p].blocked_on = "NONE"
    /\ Become(w) /\ rp' = 0

(* p has a descriptor fd of v that allows the access. *)
Usable(p, fd, v, bit) ==
    LET f == fproc[p].filp[fd] IN f # NIL /\ filp[f].vno = v /\ bit \in filp[f].mode

Read(p) == \E fd \in Fd, n \in Sizes, ok \in {TRUE, "faults" \notin Calls} :
    Usable(p, fd, "pipe", "R") /\ Handle(p, "read", read_write(World, p, "READ", fd, n, ok).w)

Write(p) == \E fd \in Fd, n \in Sizes, ok \in {TRUE, "faults" \notin Calls} :
    Usable(p, fd, "pipe", "W") /\ Handle(p, "write", read_write(World, p, "WRITE", fd, n, ok).w)

Pipe(p) ==
    /\ Cardinality(FreeFds(World, p)) >= 2 /\ Cardinality(FreeFilps(World)) >= 2
    /\ OpenFilps(World, "pipe") = {}
    /\ Handle(p, "pipe", do_pipe(World, p))

(* Bound: a process opens a FIFO or the file when it has nothing open. *)
OpenFifo(p) == \E bits \in {{"R"}, {"W"}, {"R", "W"}}, nonblock \in BOOLEAN :
    /\ FreeFds(World, p) = Fd /\ FreeFilps(World) # {}
    /\ Handle(p, "fifo", common_open(World, p, "pipe", bits, nonblock).w)

OpenFile(p) ==
    /\ FreeFds(World, p) = Fd /\ FreeFilps(World) # {}
    /\ Handle(p, "file", common_open(World, p, "file", {"R", "W"}, FALSE).w)

Close(p) == \E fd \in Fd :
    fproc[p].filp[fd] # NIL /\ Handle(p, "close", close_fd(World, p, fd))

SetFl(p) == \E fd \in Fd, nonblock \in BOOLEAN :
    /\ fproc[p].filp[fd] # NIL
    /\ Handle(p, "setfl", [World EXCEPT !.filp[fproc[p].filp[fd]].nonblock = nonblock])

Lock(p) == \E fd \in Fd, first, last \in Positions, type \in LockTypes, waits \in BOOLEAN :
    /\ first <= last /\ Usable(p, fd, "file", IF type = "RDLCK" THEN "R" ELSE "W")
    /\ Handle(p, "lock", lock_op(World, p, fd, [type |-> type, first |-> first, last |-> last], waits))

Unlck(p) == \E fd \in Fd, first, last \in Positions :
    /\ first <= last /\ fproc[p].filp[fd] # NIL
    /\ Handle(p, "unlock", unlock_op(World, first, last))

Fork(p) == \E c \in Proc :
    /\ ~fproc[c].used
    /\ Handle(p, "fork", pm_fork(World, p, c))

(* PM: a process ends, also one that is suspended, or gets a signal. *)
Exit(p) ==
    /\ "exit" \in Calls /\ Idle /\ fproc[p].used
    /\ Become(free_proc(World, p)) /\ rp' = 0

Unpause(p) ==
    /\ "unpause" \in Calls /\ Idle /\ fproc[p].used /\ fproc[p].blocked_on # "NONE"
    /\ Become(unpause(World, p)) /\ rp' = 0

Reviving == {p \in Proc : fproc[p].used /\ fproc[p].revived}

(* The next of the processes that are reviving, in the order of the table,  *)
(* tries its call again.  (get_work() panics where reviving is not 0 and    *)
(* there is none: Counted says that there is.)                              *)
NextRevived(p) ==
    LET after == {q \in Reviving : q > rp}
    IN  p = Min(IF after # {} THEN after ELSE Reviving)

(* Fault: the process stays marked as reviving. *)
ResumedMarked_F(p) ==
    [World EXCEPT !.fproc[p].blocked_on = "NONE", !.fproc[p].susp = NoCall]

Resumed(p) ==
    [World EXCEPT !.fproc[p].blocked_on = "NONE", !.fproc[p].susp = NoCall,
                  !.fproc[p].revived = FALSE, !.rev = @ - 1]

ReviveOnPipe(p) == \E ok \in {TRUE, "faults" \notin Calls} :
    LET s == fproc[p].susp
    IN  /\ fproc[p].blocked_on = "PIPE"
        /\ Become(rw_pipe(Resumed(p), p, s.call, s.fd, s.nbytes, ok).w)
        /\ rp' = IF reviving' = 0 THEN 0 ELSE p

ReviveOnLock(p) ==
    LET s == fproc[p].susp
    IN  /\ fproc[p].blocked_on = "LOCK"
        /\ Become(lock_op(Resumed(p), p, s.fd, s.flock, TRUE))
        /\ rp' = 0

get_work ==
    /\ reviving # 0 /\ panic = ""
    /\ \E p \in Reviving : NextRevived(p) /\ (ReviveOnPipe(p) \/ ReviveOnLock(p))

Next ==
    \/ get_work
    \/ \E p \in Proc :
          \/ Read(p) \/ Write(p) \/ Close(p) \/ SetFl(p)
          \/ Pipe(p) \/ OpenFifo(p) \/ OpenFile(p)
          \/ Lock(p) \/ Unlck(p)
          \/ Fork(p) \/ Exit(p) \/ Unpause(p)

Spec == Init /\ [][Next]_vars

(* VFS goes on while it has work. *)
Fairness == WF_vars(get_work)

-----------------------------------------------------------------------------
(* Fields keep to their tables and a pipe holds at most PIPE_BUF bytes.     *)
TypeOK ==
    /\ \A p \in Proc : fproc[p].blocked_on \in {"NONE", "PIPE", "POPEN", "LOCK"}
    /\ \A p \in Proc : fproc[p].filp \in [Fd -> Filp \cup {NIL}]
    /\ \A f \in Filp : filp[f].count \in Nat
    /\ \A x \in {"size", "rd", "wr"} : vnode[x] \in 0 .. PIPE_BUF
    /\ susp_count \in Int /\ reviving \in Int /\ rp \in Proc \cup {0}

Hangs(p, call) == fproc[p].used /\ fproc[p].susp.call = call

(* A reader has an empty pipe and a writer to hope for, a writer has a      *)
(* reader that is not suspended itself (the two never wait for each other), *)
(* and who opens a FIFO has no partner.                                     *)
PipesAwaited == \A p \in Proc :
    /\ Hangs(p, "READ") => vnode.size = 0 /\ find_filp(World, "pipe", "W") # {}
    /\ Hangs(p, "WRITE") =>
           /\ find_filp(World, "pipe", "R") # {}
           /\ \A q \in Proc : ~Hangs(q, "READ")
    /\ Hangs(p, "OPEN") =>
           LET f == filp[fproc[p].filp[fproc[p].susp.fd]]
           IN  find_filp(World, "pipe", IF "W" \in f.mode THEN "R" ELSE "W") = {}

(* Who wants a lock meets one. *)
LocksAwaited == \A p \in Proc : Hangs(p, "FCNTL") =>
    LET l == fproc[p].susp.flock IN Conflicts(World, p, l.type, l.first, l.last) # {}

(* Whoever is still suspended when VFS waits for the next message has a     *)
(* reason to be: a reader has nothing to read, an opener no partner, who    *)
(* wants a lock meets one, and a writer has a reader left that is not       *)
(* suspended itself (the writer's bytes may fit before it is woken).  No    *)
(* wakeup is lost although those who are woken find the state that others,  *)
(* woken before them, left.                                                 *)
SuspendedRightly == Idle => PipesAwaited /\ LocksAwaited

(* What check_pipe() and check_filp() test: susp_count and reviving are the *)
(* numbers of processes they stand for, and a filp is counted once for each *)
(* descriptor, also after interrupted calls; the panics of release() and    *)
(* get_work() about them are never reached.                                 *)
Counted ==
    /\ TypeOK
    /\ susp_count = Cardinality({p \in Proc :
           fproc[p].used /\ ~fproc[p].revived /\ fproc[p].blocked_on \in {"PIPE", "POPEN"}})
    /\ reviving = Cardinality(Reviving)
    /\ \A f \in Filp : filp[f].count =
           Cardinality({x \in Proc \X Fd : fproc[x[1]].used /\ fproc[x[1]].filp[x[2]] = f})
    /\ \A p \in Proc : fproc[p].blocked_on # "NONE" => fproc[p].filp[fproc[p].susp.fd] # NIL
    /\ panic \in {"", "partial"}

(* get_work() gets back to receiving messages, although a process that is   *)
(* revived may be suspended again and revive those that revived it.         *)
BackToWork == []<>(reviving = 0 \/ panic # "")

(* Only a process that is in the middle of a partial write has a partial    *)
(* count: read_write() never finds one at the beginning of a call.          *)
PartialCleared == panic # "partial"
=============================================================================
