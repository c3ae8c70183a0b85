------------------------------ MODULE IrqHooks ------------------------------
(***************************************************************************)
(* Interrupt hooks of the MINIX 3 kernel: the lists of handlers per line   *)
(* (kernel/interrupt.c), the kernel call through which drivers have and    *)
(* give up handlers (kernel/system/do_irqctl.c), and the release of the    *)
(* hooks of a driver that ends (clear_proc in kernel/system/do_exit.c).    *)
(*                                                                         *)
(* Granularity.  irq_handle() runs with interrupts off and is one step.    *)
(* The system task runs with interrupts on: an interrupt may come between  *)
(* any two of the accesses to what it shares with irq_handle(), and so     *)
(* between the test of irq_actids and the unmasking that depends on it.    *)
(* An &= or |= on a word of irq_actids is one instruction.                 *)
(***************************************************************************)
EXTENDS Integers, FiniteSets, SequencesExt

CONSTANTS
    Hook,        \* indices of irq_hooks[]
    Irq,         \* interrupt lines
    Driver,
    LinesOf,     \* LinesOf[d]: s_irq_tab, the lines driver d may ask for
    Policies,    \* TRUE for IRQ_REENABLE
    Disablers,   \* drivers that use IRQ_DISABLE
    Removers,    \* drivers that use IRQ_RMPOLICY
    WhileClearing, \* whether interrupts may come during clear_proc()
    NONE

Points == {"idle", "enable", "unmask", "close", "clear", "rm", "mask", "unlink"}

ASSUME IrqAssumption ==
    /\ Hook \subseteq Nat \ {0} /\ IsFiniteSet(Hook)
    /\ LinesOf \in [Driver -> SUBSET Irq]
    /\ Policies \subseteq BOOLEAN
    /\ Disablers \subseteq Driver /\ Removers \subseteq Driver
    /\ WhileClearing \in BOOLEAN
    /\ NONE \notin Driver

VARIABLES
    proc_nr_e, irq, id, policy, \* fields of irq_hooks[]
    irq_handlers,  \* the list of hooks of each line
    irq_actids,    \* ids of the handlers that are active, per line
    masked,        \* lines that are masked at the interrupt controller
    request,       \* lines on which a device asks for an interrupt
    s_int_pending, \* hooks whose interrupt has not been told to the driver
    todo,          \* hooks whose line the driver has yet to enable again
    alive,
    sys,           \* the system task: step, hook, whose clear_proc() it is,
                   \* and whether enable_irq() found the line open
    panicked       \* minix_panic("invalid interrupt handler")

hvars == <<proc_nr_e, irq, id, policy>>
vars == <<hvars, irq_handlers, irq_actids, masked, request,
          s_int_pending, todo, alive, sys, panicked>>

Idle == [at |-> "idle", hook |-> 0, exits |-> NONE, open |-> FALSE]

Hooks(l) == Range(irq_handlers[l])

Ids(l) == {id[h] : h \in Hooks(l)}

MinOf(S) == CHOOSE i \in S : \A j \in S : i <= j

-----------------------------------------------------------------------------
(* kernel/interrupt.c *)

(* A new handler may be given an id that is in use. *)
AlwaysFirstId_F(l) == 1

(* The lowest id not in use on line l. *)
LowestId(l) == MinOf((1 .. Len(irq_handlers[l]) + 1) \ Ids(l))

(* put_irq_handler(), until the hook is in the list. *)
put_irq_handler(h, l) ==
    /\ irq' = [irq EXCEPT ![h] = l]
    /\ id' = [id EXCEPT ![h] = LowestId(l)]
    /\ irq_handlers' = [irq_handlers EXCEPT ![l] = Append(@, h)]

(* The line will be unmasked whoever is still active on it. *)
enable_irq_F(h) ==
    /\ irq_actids' = [irq_actids EXCEPT ![irq[h]] = @ \ {id[h]}]
    /\ sys' = [Idle EXCEPT !.at = "unmask", !.hook = h, !.open = irq[h] \notin masked]

(* enable_irq(), and the end of put_irq_handler(): the handler is inactive, *)
(* and if it was the last that was active the line will be unmasked.        *)
enable_irq(h) ==
    /\ irq_actids' = [irq_actids EXCEPT ![irq[h]] = @ \ {id[h]}]
    /\ sys' = IF irq_actids'[irq[h]] # {} THEN Idle
              ELSE [Idle EXCEPT !.at = "unmask", !.hook = h, !.open = irq[h] \notin masked]

(* disable_irq(): a handler that is not active is, and the line closed. *)
disable_irq(h) ==
    /\ id[h] \notin irq_actids[irq[h]]
    /\ irq_actids' = [irq_actids EXCEPT ![irq[h]] = @ \cup {id[h]}]
    /\ sys' = [Idle EXCEPT !.at = "close", !.hook = h]

(* hw_intr_unmask() at the end of enable_irq() and put_irq_handler(). *)
Unmask ==
    /\ ~panicked /\ sys.at = "unmask"
    /\ masked' = masked \ {irq[sys.hook]}
    /\ sys' = Idle
    /\ UNCHANGED <<hvars, irq_handlers, irq_actids, request,
                   s_int_pending, todo, alive, panicked>>

(* hw_intr_mask() at the end of disable_irq(). *)
Close ==
    /\ ~panicked /\ sys.at = "close"
    /\ masked' = masked \cup {irq[sys.hook]}
    /\ sys' = Idle
    /\ UNCHANGED <<hvars, irq_handlers, irq_actids, request,
                   s_int_pending, todo, alive, panicked>>

(* irq_handle() with generic_handler() for each hook of the line. *)
irq_handle(l) ==
    LET again == {h \in Hooks(l) : policy[h]}
    IN  /\ ~panicked /\ (sys.exits = NONE \/ WhileClearing)
        /\ l \in request \ masked
        /\ request' = request \ {l}
        /\ panicked' = (\E h \in Hooks(l) : proc_nr_e[h] \notin alive)
        /\ s_int_pending' = s_int_pending \cup Hooks(l)
        /\ irq_actids' = [irq_actids EXCEPT
               ![l] = (@ \cup Ids(l)) \ {id[h] : h \in again}]
        /\ masked' = IF irq_actids'[l] = {} THEN masked \ {l} ELSE masked \cup {l}
        /\ UNCHANGED <<hvars, irq_handlers, todo, alive, sys>>

-----------------------------------------------------------------------------
(* rm_irq_handler(sys.hook), for IRQ_RMPOLICY or for clear_proc(). *)

RmActive ==
    /\ ~panicked /\ sys.at = "rm"
    /\ irq_actids' = [irq_actids EXCEPT ![irq[sys.hook]] = @ \cup {id[sys.hook]}]
    /\ sys' = [sys EXCEPT !.at = "mask"]
    /\ UNCHANGED <<hvars, irq_handlers, masked, request,
                   s_int_pending, todo, alive, panicked>>

RmMask ==
    /\ ~panicked /\ sys.at = "mask"
    /\ masked' = masked \cup {irq[sys.hook]}
    /\ sys' = [sys EXCEPT !.at = "unlink"]
    /\ UNCHANGED <<hvars, irq_handlers, irq_actids, request,
                   s_int_pending, todo, alive, panicked>>

(* The bit of the handler is left set. *)
RmUnlinkKeepsBit_F ==
    /\ ~panicked /\ sys.at = "unlink"
    /\ LET h == sys.hook
       IN  /\ irq_handlers' = [irq_handlers EXCEPT
                  ![irq[h]] = RemoveFirstMatch(@, LAMBDA g : id[g] = id[h])]
           /\ proc_nr_e' = IF sys.exits = NONE THEN proc_nr_e
                           ELSE [proc_nr_e EXCEPT ![h] = NONE]
    /\ sys' = IF sys.exits = NONE THEN Idle ELSE [sys EXCEPT !.at = "clear"]
    /\ UNCHANGED <<irq_actids, irq, id, policy, masked, request, s_int_pending,
                   todo, alive, panicked>>

(* The first hook of the line with that id leaves the list; clear_proc()   *)
(* then marks its own hook as free, IRQ_RMPOLICY does not.                 *)
RmUnlink ==
    /\ ~panicked /\ sys.at = "unlink"
    /\ LET h == sys.hook
           l == irq[h]
       IN  /\ irq_handlers' = [irq_handlers EXCEPT
                  ![l] = RemoveFirstMatch(@, LAMBDA g : id[g] = id[h])]
           /\ irq_actids' = [irq_actids EXCEPT
                  ![l] = IF id[h] \in Ids(l) THEN @ \ {id[h]} ELSE @]
           /\ proc_nr_e' = IF sys.exits = NONE THEN proc_nr_e
                           ELSE [proc_nr_e EXCEPT ![h] = NONE]
    /\ sys' = IF sys.exits = NONE THEN Idle ELSE [sys EXCEPT !.at = "clear"]
    /\ UNCHANGED <<irq, id, policy, masked, request, s_int_pending, todo,
                   alive, panicked>>

-----------------------------------------------------------------------------
(* do_irqctl().  Calls that are refused change nothing. *)

Calls(d) == ~panicked /\ sys.at = "idle" /\ d \in alive

(* IRQ_SETPOLICY: the first free hook goes into the list of the line... *)
SetPolicy(d, l, p) ==
    /\ Calls(d) /\ l \in LinesOf[d]
    /\ \E h \in Hook : proc_nr_e[h] = NONE
    /\ LET h == MinOf({g \in Hook : proc_nr_e[g] = NONE})
       IN  /\ proc_nr_e' = [proc_nr_e EXCEPT ![h] = d]
           /\ policy' = [policy EXCEPT ![h] = p]
           /\ put_irq_handler(h, l)
           /\ sys' = [Idle EXCEPT !.at = "enable", !.hook = h]
    /\ UNCHANGED <<irq_actids, masked, request, s_int_pending, todo, alive, panicked>>

(* ... and the line is to be opened. *)
SetPolicyEnable ==
    /\ ~panicked /\ sys.at = "enable"
    /\ enable_irq(sys.hook)
    /\ UNCHANGED <<hvars, irq_handlers, masked, request, s_int_pending, todo, alive, panicked>>

IrqEnable(d, h) ==
    /\ Calls(d) /\ proc_nr_e[h] = d
    /\ enable_irq(h)
    /\ todo' = todo \ {h}
    /\ UNCHANGED <<hvars, irq_handlers, masked, request, s_int_pending, alive, panicked>>

IrqDisable(d, h) ==
    /\ Calls(d) /\ d \in Disablers /\ proc_nr_e[h] = d
    /\ disable_irq(h)
    /\ UNCHANGED <<hvars, irq_handlers, masked, request, s_int_pending, todo, alive, panicked>>

RmPolicy(d, h) ==
    /\ Calls(d) /\ d \in Removers /\ proc_nr_e[h] = d
    /\ sys' = [Idle EXCEPT !.at = "rm", !.hook = h]
    /\ UNCHANGED <<hvars, irq_handlers, irq_actids, masked, request,
                   s_int_pending, todo, alive, panicked>>

-----------------------------------------------------------------------------
(* clear_proc(): the slot is free first, its hooks are released after that. *)

Exit(d) ==
    /\ Calls(d)
    /\ alive' = alive \ {d}
    /\ s_int_pending' = {h \in s_int_pending : proc_nr_e[h] # d}
    /\ todo' = {h \in todo : proc_nr_e[h] # d}
    /\ sys' = [Idle EXCEPT !.at = "clear", !.exits = d]
    /\ UNCHANGED <<hvars, irq_handlers, irq_actids, masked, request, panicked>>

(* Only the first hook of the process is released. *)
ClearFirst_F ==
    LET owned == {h \in Hook : proc_nr_e[h] = sys.exits}
    IN  /\ ~panicked /\ sys.at = "clear"
        /\ sys' = IF owned = {} \/ sys.hook # 0 THEN Idle
                  ELSE [sys EXCEPT !.at = "rm", !.hook = MinOf(owned)]
        /\ UNCHANGED <<hvars, irq_handlers, irq_actids, masked, request,
                       s_int_pending, todo, alive, panicked>>

(* The loop over the table of hooks. *)
ClearHooks ==
    LET owned == {h \in Hook : proc_nr_e[h] = sys.exits}
    IN  /\ ~panicked /\ sys.at = "clear"
        /\ sys' = IF owned = {} THEN Idle
                  ELSE [sys EXCEPT !.at = "rm", !.hook = MinOf(owned)]
        /\ UNCHANGED <<hvars, irq_handlers, irq_actids, masked, request,
                       s_int_pending, todo, alive, panicked>>

(* The driver is started again. *)
Start(d) ==
    /\ ~panicked /\ sys.at = "idle" /\ d \notin alive
    /\ alive' = alive \cup {d}
    /\ UNCHANGED <<hvars, irq_handlers, irq_actids, masked, request,
                   s_int_pending, todo, sys, panicked>>

(* The driver receives the notification, and will enable the lines of the  *)
(* hooks that are not enabled for it.                                      *)
Receive(d) ==
    LET mine == {h \in s_int_pending : proc_nr_e[h] = d}
    IN  /\ Calls(d) /\ mine # {}
        /\ s_int_pending' = s_int_pending \ mine
        /\ todo' = todo \cup {h \in mine : ~policy[h]}
        /\ UNCHANGED <<hvars, irq_handlers, irq_actids, masked, request,
                       alive, sys, panicked>>

(* A device asks for an interrupt. *)
Raise(l) ==
    /\ ~panicked /\ l \notin request
    /\ request' = request \cup {l}
    /\ UNCHANGED <<hvars, irq_handlers, irq_actids, masked, s_int_pending,
                   todo, alive, sys, panicked>>

-----------------------------------------------------------------------------
Init ==
    /\ proc_nr_e = [h \in Hook |-> NONE] /\ irq = [h \in Hook |-> NONE]
    /\ id = [h \in Hook |-> 0] /\ policy = [h \in Hook |-> FALSE]
    /\ irq_handlers = [l \in Irq |-> <<>>]
    /\ irq_actids = [l \in Irq |-> {}]
    /\ masked = Irq /\ request = {}
    /\ s_int_pending = {} /\ todo = {} /\ alive = Driver
    /\ sys = Idle /\ panicked = FALSE

SystemTask ==
    \/ SetPolicyEnable \/ Unmask \/ Close \/ RmActive \/ RmMask \/ RmUnlink \/ ClearHooks

Next ==
    \/ SystemTask
    \/ \E l \in Irq : irq_handle(l) \/ Raise(l)
    \/ \E d \in Driver :
        \/ Exit(d) \/ Start(d) \/ Receive(d)
        \/ \E l \in Irq, p \in Policies : SetPolicy(d, l, p)
        \/ \E h \in Hook : IrqEnable(d, h) \/ IrqDisable(d, h) \/ RmPolicy(d, h)

Spec == Init /\ [][Next]_vars

(* The processor takes an interrupt that is not masked, the system task is  *)
(* run, and a driver that is told of an interrupt enables the line again.   *)
(* Strongly where the other calls of drivers keep the system task busy.     *)
Fairness ==
    /\ WF_vars(SystemTask)
    /\ \A l \in Irq : SF_vars(irq_handle(l))
    /\ \A d \in Driver : SF_vars(Receive(d))
    /\ \A d \in Driver, h \in Hook : SF_vars(h \in todo /\ IrqEnable(d, h))

FairSpec == Spec /\ Fairness

-----------------------------------------------------------------------------
TypeOK ==
    /\ proc_nr_e \in [Hook -> Driver \cup {NONE}] /\ irq \in [Hook -> Irq \cup {NONE}]
    /\ id \in [Hook -> 0 .. Cardinality(Hook)] /\ policy \in [Hook -> BOOLEAN]
    /\ irq_handlers \in [Irq -> Seq(Hook)]
    /\ irq_actids \in [Irq -> SUBSET (1 .. Cardinality(Hook))]
    /\ masked \subseteq Irq /\ request \subseteq Irq
    /\ s_int_pending \subseteq Hook /\ todo \subseteq Hook /\ alive \subseteq Driver
    /\ sys \in [at : Points, hook : Hook \cup {0}, exits : Driver \cup {NONE}, open : BOOLEAN]
    /\ panicked \in BOOLEAN

(* No driver that gives hooks up may ask for line l. *)
NoRemoverOn(l) == \A d \in Removers : l \notin LinesOf[d]

(* Between kernel calls the handlers of a line, which generic_handler()     *)
(* notifies, are those of living drivers, each under an id of its own.  On  *)
(* a line where nobody uses IRQ_RMPOLICY every hook in use is in the list   *)
(* of its line, and the line is only kept closed by handlers in the list,   *)
(* or by the one that is being removed: a bit that nobody can clear would   *)
(* close the line for good.  (do_irqctl leaves a hook that is given up to   *)
(* its owner, so that rm_irq_handler() is run for it again when the owner   *)
(* ends: it then leaves such a bit, or removes another driver's handler.)   *)
HooksSound ==
    /\ sys.at = "idle" =>
           /\ \A h \in Hook : proc_nr_e[h] # NONE =>
                  /\ proc_nr_e[h] \in alive
                  /\ NoRemoverOn(irq[h]) => h \in Hooks(irq[h])
           /\ \A l \in Irq :
                  /\ \A h \in Hooks(l) : proc_nr_e[h] # NONE /\ irq[h] = l
                  /\ Cardinality(Ids(l)) = Len(irq_handlers[l])
    /\ \A l \in Irq : NoRemoverOn(l) =>
           \A i \in irq_actids[l] :
               \/ i \in Ids(l)
               \/ sys.at \in {"mask", "unlink"} /\ irq[sys.hook] = l /\ i = id[sys.hook]

(* A closed line is opened only when none of its handlers is active, so     *)
(* that a device cannot interrupt again before its driver has dealt with it *)
(* ("it unmasks the IRQ if and only if all active ID bits are cleared").    *)
(* One case is different: enable_irq() for a line that is open, as drivers  *)
(* do before they start a device.  The interrupt that comes between its     *)
(* test and its hw_intr_unmask() closes the line, and it is opened again.   *)
OpenedQuiet == [][\A l \in masked \ masked' :
                    \/ irq_actids'[l] = {}
                    \/ sys.at = "unmask" /\ sys.open /\ irq[sys.hook] = l]_vars

(* A hook in use that is in no list: its owner has given it up with         *)
(* IRQ_RMPOLICY, or lost it to another such hook.                           *)
Unlinked(h) == proc_nr_e[h] # NONE /\ h \notin Hooks(irq[h])

(* A handler only leaves the list of its line when rm_irq_handler() is run  *)
(* for it.  One case is different, on lines where drivers use IRQ_RMPOLICY: *)
(* rm_irq_handler() is run again for a hook that has left the list, and     *)
(* takes the handler that has got its id since.                             *)
HandlerKept == [][\A l \in Irq : \A h \in Hooks(l) :
                    \/ h \in Hooks(l)' \/ h = sys.hook
                    \/ Unlinked(sys.hook) /\ ~NoRemoverOn(l)]_vars

(* At any moment of a kernel call: lists have no id twice and hold hooks in *)
(* use; a hook in use is of a driver that lives or is being cleared, and    *)
(* for a line of that driver.                                               *)
ListsSound ==
    /\ \A l \in Irq : \A i, j \in DOMAIN irq_handlers[l] :
           id[irq_handlers[l][i]] = id[irq_handlers[l][j]] => i = j
    /\ \A l \in Irq : \A h \in Hooks(l) : proc_nr_e[h] # NONE /\ irq[h] = l
    /\ \A h \in Hook : proc_nr_e[h] # NONE =>
           /\ proc_nr_e[h] \in alive \cup {sys.exits}
           /\ irq[h] \in LinesOf[proc_nr_e[h]] /\ id[h] # 0

(* The hook that the system task has in hand. *)
SysSound ==
    /\ sys.at = "idle" => sys = Idle
    /\ sys.at = "clear" => sys.exits # NONE
    /\ sys.at \in {"enable", "unmask", "close"} =>
           sys.hook \in Hook /\ proc_nr_e[sys.hook] # NONE /\ sys.exits = NONE
    /\ sys.at \in {"rm", "mask", "unlink"} =>
           /\ sys.hook \in Hook /\ proc_nr_e[sys.hook] # NONE
           /\ IF sys.exits = NONE THEN proc_nr_e[sys.hook] \in Removers
              ELSE proc_nr_e[sys.hook] = sys.exits

HooksInv == TypeOK /\ ListsSound /\ SysSound

(* While the system task is about to open a line that it found closed, the  *)
(* line stays closed, and nobody becomes active on it.                      *)
QuietInv ==
    sys.at = "unmask" /\ ~sys.open =>
        irq[sys.hook] \in masked /\ irq_actids[irq[sys.hook]] = {}

(* Hooks in use are linked and bits are those of handlers, on lines where   *)
(* nobody gives hooks up.                                                   *)
LinkedInv ==
    /\ \A h \in Hook : proc_nr_e[h] # NONE /\ NoRemoverOn(irq[h]) => h \in Hooks(irq[h])
    /\ \A l \in Irq : NoRemoverOn(l) => irq_actids[l] \subseteq Ids(l)

(* The interrupts of a line that has a handler are taken.                   *)
InterruptsTaken == \A l \in Irq :
    l \in request /\ irq_handlers[l] # <<>> ~> l \notin request \/ irq_handlers[l] = <<>>

(* generic_handler() never finds that the process of a hook is dead.        *)
NoPanic == ~panicked

(* A line with handlers, none of them active, is open.                      *)
LineOpen == \A l \in Irq :
    sys.at = "idle" /\ irq_handlers[l] # <<>> /\ irq_actids[l] = {} => l \notin masked
=============================================================================
