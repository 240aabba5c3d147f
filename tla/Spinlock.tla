------------------------------ MODULE Spinlock ------------------------------
(***************************************************************************)
(* spin_lock and spin_unlock, one action per instruction that other cores  *)
(* or the interrupt controller can observe: the DAIF save and mask, the    *)
(* LDAXR/WFE/STLXR loop, the STLR/SEV release and the DAIF restore.        *)
(*                                                                         *)
(* A context is a core's thread (kernel_main, or a started secondary) or   *)
(* that core's IRQ handler, which runs on top of the thread.  The          *)
(* exclusive monitors and the event registers are the architecture's: a    *)
(* store to the lock word opens every monitor on it and an opened monitor  *)
(* is a wake-up event; a monitor may also be lost with no event, at most   *)
(* MaxLost times.  Cores other than Boot are started by kernel_main after  *)
(* mmu_init, and are taken to run with translation on.                     *)
(***************************************************************************)
EXTENDS Integers

CONSTANTS
  Cores,     \* the cores of the machine
  Boot,      \* the core that runs kernel_main
  IrqCores,  \* the cores the interrupt controller delivers IRQs to
  MaxLost,   \* bound: how often a monitor is lost with no store to the lock
  NoContext     \* the abstract owner of a free lock

ASSUME CoresAssumption ==
  /\ Boot \in Cores
  /\ IrqCores \subseteq Cores
  /\ MaxLost \in Nat

Contexts == Cores \X {"thread", "irq"}

ASSUME NoContextIsNone == NoContext \notin Contexts

VARIABLES
  MMU_ACTIVE,  \* the flag mmu_init sets last
  on,          \* the cores that run
  lk,          \* the lock word: 0 is SPINLOCK_FREE
  pc,          \* where each context is in spin_lock or spin_unlock
  masked,      \* DAIF.I of each core
  flags,       \* the caller's DAIF, saved by each context
  inIrq,       \* the cores that execute their IRQ handler
  monitor,     \* the cores whose exclusive monitor is armed on the lock word
  event,       \* the cores whose event register is set
  lost         \* how many monitors were lost so far

lock_vars == <<MMU_ACTIVE, on, lk, pc, masked, flags, inIrq, monitor, event, lost>>

PcValues ==
  {"out", "mask", "ldaxr", "wfe", "stlxr", "held", "sev", "restore"}

LockTypeOK ==
  /\ MMU_ACTIVE \in BOOLEAN
  /\ on \in SUBSET Cores
  /\ lk \in {0, 1}
  /\ pc \in [Contexts -> PcValues]
  /\ masked \in [Cores -> BOOLEAN]
  /\ flags \in [Contexts -> BOOLEAN]
  /\ inIrq \in SUBSET Cores
  /\ monitor \in SUBSET Cores
  /\ event \in SUBSET Cores
  /\ lost \in 0..MaxLost

LockInit ==
  /\ MMU_ACTIVE = FALSE
  /\ on = {Boot}
  /\ lk = 0
  /\ pc = [x \in Contexts |-> "out"]
  /\ masked = [c \in Cores |-> FALSE]
  /\ flags = [x \in Contexts |-> FALSE]
  /\ inIrq = {}
  /\ monitor = {}
  /\ event = {}
  /\ lost = 0

\* The context whose instructions its core executes: the handler, if it is in one.
Runs(x) == x[1] \in on /\ (x[2] = "irq" <=> x[1] \in inIrq)

At(x, label) == Runs(x) /\ pc[x] = label

Goto(x, label) == pc' = [pc EXCEPT ![x] = label]

-----------------------------------------------------------------------------
(* spin_lock *)

SaveDaif(x) ==
  /\ At(x, "out")
  /\ flags' = [flags EXCEPT ![x] = masked[x[1]]]
  /\ Goto(x, "mask")
  /\ UNCHANGED <<MMU_ACTIVE, on, lk, masked, inIrq, monitor, event, lost>>

\* Fault: the DAIF is saved and never masked.
MaskNothing(x) ==
  /\ At(x, "mask")
  /\ Goto(x, IF MMU_ACTIVE THEN "ldaxr" ELSE "held")
  /\ UNCHANGED <<MMU_ACTIVE, on, lk, masked, flags, inIrq, monitor, event, lost>>

\* Masks every exception; before MMU_ACTIVE the mask alone is the lock.
MaskDaif(x) ==
  /\ At(x, "mask")
  /\ masked' = [masked EXCEPT ![x[1]] = TRUE]
  /\ Goto(x, IF MMU_ACTIVE THEN "ldaxr" ELSE "held")
  /\ UNCHANGED <<MMU_ACTIVE, on, lk, flags, inIrq, monitor, event, lost>>

\* Fault: the value LDAXR read is not tested.
LdaxrUntested(x) ==
  /\ At(x, "ldaxr")
  /\ monitor' = monitor \cup {x[1]}
  /\ Goto(x, "stlxr")
  /\ UNCHANGED <<MMU_ACTIVE, on, lk, masked, flags, inIrq, event, lost>>

Ldaxr(x) ==
  /\ At(x, "ldaxr")
  /\ monitor' = monitor \cup {x[1]}
  /\ Goto(x, IF lk = 0 THEN "stlxr" ELSE "wfe")
  /\ UNCHANGED <<MMU_ACTIVE, on, lk, masked, flags, inIrq, event, lost>>

\* WFE returns once the event register is set, and clears it.
Wfe(x) ==
  /\ At(x, "wfe")
  /\ x[1] \in event
  /\ event' = event \ {x[1]}
  /\ Goto(x, "ldaxr")
  /\ UNCHANGED <<MMU_ACTIVE, on, lk, masked, flags, inIrq, monitor, lost>>

\* Fault: a plain store, which succeeds whatever the monitor says.
StoreAlways(x) ==
  /\ At(x, "stlxr")
  /\ lk' = 1
  /\ event' = event \cup (monitor \ {x[1]})
  /\ monitor' = {}
  /\ Goto(x, "held")
  /\ UNCHANGED <<MMU_ACTIVE, on, masked, flags, inIrq, lost>>

StlxrSucceeds(x) ==
  /\ At(x, "stlxr")
  /\ x[1] \in monitor
  /\ lk' = 1
  /\ event' = event \cup (monitor \ {x[1]})
  /\ monitor' = {}
  /\ Goto(x, "held")
  /\ UNCHANGED <<MMU_ACTIVE, on, masked, flags, inIrq, lost>>

StlxrFails(x) ==
  /\ At(x, "stlxr")
  /\ x[1] \notin monitor
  /\ Goto(x, "ldaxr")
  /\ UNCHANGED <<MMU_ACTIVE, on, lk, masked, flags, inIrq, monitor, event, lost>>

-----------------------------------------------------------------------------
(* spin_unlock *)

Stlr(x) ==
  /\ At(x, "held")
  /\ MMU_ACTIVE
  /\ lk' = 0
  /\ event' = event \cup monitor
  /\ monitor' = {}
  /\ Goto(x, "sev")
  /\ UNCHANGED <<MMU_ACTIVE, on, masked, flags, inIrq, lost>>

SkipStlr(x) ==
  /\ At(x, "held")
  /\ ~MMU_ACTIVE
  /\ Goto(x, "restore")
  /\ UNCHANGED <<MMU_ACTIVE, on, lk, masked, flags, inIrq, monitor, event, lost>>

\* Fault: no SEV after the release.
NoSev(x) ==
  /\ At(x, "sev")
  /\ Goto(x, "restore")
  /\ UNCHANGED <<MMU_ACTIVE, on, lk, masked, flags, inIrq, monitor, event, lost>>

Sev(x) ==
  /\ At(x, "sev")
  /\ event' = Cores
  /\ Goto(x, "restore")
  /\ UNCHANGED <<MMU_ACTIVE, on, lk, masked, flags, inIrq, monitor, lost>>

RestoreDaif(x) ==
  /\ At(x, "restore")
  /\ masked' = [masked EXCEPT ![x[1]] = flags[x]]
  /\ Goto(x, "out")
  /\ UNCHANGED <<MMU_ACTIVE, on, lk, flags, inIrq, monitor, event, lost>>

-----------------------------------------------------------------------------
(* The machine around the lock *)

\* Exception entry masks DAIF; the handler then calls increment_time, which
\* takes the lock, or returns at once (any other interrupt number).
TakeIrq(c) ==
  /\ c \in on \cap IrqCores
  /\ c \notin inIrq
  /\ ~masked[c]
  /\ inIrq' = inIrq \cup {c}
  /\ masked' = [masked EXCEPT ![c] = TRUE]
  /\ UNCHANGED <<MMU_ACTIVE, on, lk, pc, flags, monitor, event, lost>>

\* ERET restores the interrupted DAIF, opens the core's monitor and is an event.
ReturnFromIrq(c) ==
  /\ c \in inIrq
  /\ pc[<<c, "irq">>] = "out"
  /\ inIrq' = inIrq \ {c}
  /\ masked' = [masked EXCEPT ![c] = FALSE]
  /\ monitor' = monitor \ {c}
  /\ event' = event \cup {c}
  /\ UNCHANGED <<MMU_ACTIVE, on, lk, pc, flags, lost>>

\* A cache eviction or another access to the line opens a monitor silently.
LoseMonitor(c) ==
  /\ c \in monitor
  /\ lost < MaxLost
  /\ lost' = lost + 1
  /\ monitor' = monitor \ {c}
  /\ UNCHANGED <<MMU_ACTIVE, on, lk, pc, masked, flags, inIrq, event>>

\* mmu_init ends by setting MMU_ACTIVE; it holds no lock there.
mmu_init ==
  /\ ~MMU_ACTIVE
  /\ At(<<Boot, "thread">>, "out")
  /\ MMU_ACTIVE' = TRUE
  /\ UNCHANGED <<on, lk, pc, masked, flags, inIrq, monitor, event, lost>>

\* kernel_main starts the other cores only after mmu_init.
psci_cpu_on(c) ==
  /\ At(<<Boot, "thread">>, "out")
  /\ MMU_ACTIVE
  /\ c \in Cores \ on
  /\ on' = on \cup {c}
  /\ UNCHANGED <<MMU_ACTIVE, lk, pc, masked, flags, inIrq, monitor, event, lost>>

-----------------------------------------------------------------------------
\* What a context does without waiting for a new call of spin_lock.
Progress(x) ==
  \/ MaskDaif(x) \/ Ldaxr(x) \/ Wfe(x)
  \/ StlxrSucceeds(x) \/ StlxrFails(x)
  \/ Stlr(x) \/ SkipStlr(x) \/ Sev(x) \/ RestoreDaif(x)

Machine(c) == TakeIrq(c) \/ ReturnFromIrq(c) \/ LoseMonitor(c) \/ psci_cpu_on(c)

LockNext ==
  \/ \E x \in Contexts : SaveDaif(x) \/ Progress(x)
  \/ \E c \in Cores : Machine(c)
  \/ mmu_init

LockSpec == LockInit /\ [][LockNext]_lock_vars

\* A running core keeps executing, and a critical section ends.
FairSpec == LockSpec /\ \A x \in Contexts : WF_lock_vars(Progress(x))

-----------------------------------------------------------------------------
Holds(x) == pc[x] = "held"

\* At most one context, thread or handler, is between spin_lock and
\* spin_unlock, in early boot (where the lock word is not used) as after it.
MutualExclusion == \A x, y \in Contexts : Holds(x) /\ Holds(y) => x = y

\* "so an IRQ on this core can't re-enter the same lock" (spinlock.h): no
\* handler runs on top of a thread that waits for the lock or holds it.
NoReentry ==
  \A c \in inIrq : pc[<<c, "thread">>] \in {"out", "mask"}

\* spin_unlock gives back the DAIF its caller had: a thread outside the lock
\* never runs with interrupts masked, however calls and IRQs interleaved.
DaifGivenBack ==
  \A c \in on \ inIrq : pc[<<c, "thread">>] = "out" => ~masked[c]

\* No lost wake-up: when the lock is free and a context waits for it, some
\* context gets it, although a waiter may sleep in WFE with its monitor lost.
Waits(x) == pc[x] \in {"ldaxr", "wfe", "stlxr"}
FreeLockIsTaken ==
  (lk = 0 /\ \E x \in Contexts : Waits(x)) ~> (lk = 1)

\* The lock is a mutex: its owner is the context between the two calls.
owner == IF \E x \in Contexts : Holds(x)
         THEN CHOOSE x \in Contexts : Holds(x)
         ELSE NoContext
M == INSTANCE Mutex WITH Nobody <- NoContext
IsMutex == M!Spec
=============================================================================
