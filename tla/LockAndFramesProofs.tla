------------------------ MODULE LockAndFramesProofs -------------------------
(***************************************************************************)
(* The two layers everything else in the kernel stands on.                 *)
(*                                                                         *)
(* Spinlock's safety, for any number of cores, any set of cores that take  *)
(* IRQs and any number of lost monitors.  Mutual exclusion is not          *)
(* inductive.  LockInv adds why it holds: before MMU_ACTIVE only the boot  *)
(* core runs and the mask keeps its handler out; after it the lock word is *)
(* 1 exactly while some context holds the lock, and a context about to     *)
(* STLXR whose monitor is still armed read a 0 that no store has changed   *)
(* since.                                                                  *)
(*                                                                         *)
(* Pmm's safety for every page size, word size, memory size, kernel image  *)
(* and set of callers.  The inductive invariant has three parts beside the *)
(* properties: the geometry pmm_init computes, the padding bits that stay  *)
(* set, and what each scan has established about the bits it has passed.   *)
(* pmm_lock keeps the bitmap still during a scan, so the last part         *)
(* survives all others.  For meminfo, which takes no lock, Counted adds    *)
(* what its loop has seen.                                                 *)
(***************************************************************************)
EXTENDS Spinlock, Pmm, TLAPS, FiniteSetTheorems

-----------------------------------------------------------------------------
(* The lock *)

\* A context inside spin_lock or spin_unlock with DAIF masked.
Inside == {"ldaxr", "wfe", "stlxr", "held", "sev", "restore"}

\* A context inside is its core's running context and keeps its core masked.
InsideIsMasked ==
  \A x \in Contexts : pc[x] \in Inside => Runs(x) /\ masked[x[1]]

\* A handler runs masked, and what it saves and restores is the mask.
HandlerIsMasked ==
  /\ \A c \in inIrq : c \in on /\ masked[c]
  /\ \A c \in Cores : pc[<<c, "irq">>] # "out" => c \in inIrq /\ flags[<<c, "irq">>]

\* A thread enters the lock with interrupts on, and leaves it the same way.
ThreadUnmasked ==
  \A c \in Cores :
    /\ pc[<<c, "thread">>] # "out" => ~flags[<<c, "thread">>]
    /\ pc[<<c, "thread">>] \in {"out", "mask"} /\ c \notin inIrq => ~masked[c]

\* Before MMU_ACTIVE there is one core and the lock word is never touched.
EarlyBoot ==
  ~MMU_ACTIVE =>
    /\ on = {Boot}
    /\ lk = 0
    /\ \A x \in Contexts : pc[x] \in {"out", "mask", "held", "restore"}

\* After it, the lock word says whether the lock is held.
WordIsHolder ==
  MMU_ACTIVE => (lk = 1 <=> \E x \in Contexts : Holds(x))

\* An armed monitor vouches for the 0 that LDAXR read.
ArmedSawFree ==
  \A x \in Contexts : pc[x] = "stlxr" /\ x[1] \in monitor => lk = 0

LockInv ==
  /\ LockTypeOK
  /\ InsideIsMasked
  /\ HandlerIsMasked
  /\ ThreadUnmasked
  /\ EarlyBoot
  /\ WordIsHolder
  /\ ArmedSawFree
  /\ MutualExclusion

-----------------------------------------------------------------------------
\* A context is a core and a mode; this is what the provers need of a pair.
LEMMA ContextForm ==
  /\ \A x \in Contexts : /\ x[1] \in Cores
                         /\ x[2] \in {"thread", "irq"}
                         /\ x = <<x[1], x[2]>>
  /\ \A c \in Cores : <<c, "thread">> \in Contexts /\ <<c, "irq">> \in Contexts
BY DEF Contexts

\* The boot state satisfies the inductive invariant.
LEMMA LockInitInv == LockInit => LockInv
<1> SUFFICES ASSUME LockInit PROVE LockInv
  OBVIOUS
<1> USE DEF LockInit
<1>1. LockTypeOK
  <2>1. /\ on \in SUBSET Cores
        /\ lost \in 0..MaxLost
    BY CoresAssumption
  <2>2. QED
    BY <2>1 DEF LockTypeOK, PcValues
<1>2. InsideIsMasked /\ HandlerIsMasked /\ ThreadUnmasked
  BY ContextForm DEF InsideIsMasked, HandlerIsMasked, ThreadUnmasked, Inside
<1>3. EarlyBoot /\ WordIsHolder /\ ArmedSawFree /\ MutualExclusion
  BY DEF EarlyBoot, WordIsHolder, ArmedSawFree, MutualExclusion, Holds
<1>4. QED
  BY <1>1, <1>2, <1>3 DEF LockInv

\* Entering spin_lock saves an unmasked DAIF for a thread, a masked one for a handler.
LEMMA SaveDaifStep == ASSUME LockInv, NEW x \in Contexts, SaveDaif(x) PROVE LockInv'
<1> USE ContextForm DEF LockInv, SaveDaif, Runs, At, Goto
<1>1. LockTypeOK'
  BY DEF LockTypeOK, PcValues
<1>2. InsideIsMasked' /\ HandlerIsMasked' /\ ThreadUnmasked'
  BY DEF InsideIsMasked, HandlerIsMasked, ThreadUnmasked, Inside, LockTypeOK
<1>3. EarlyBoot' /\ WordIsHolder'
  BY DEF EarlyBoot, WordIsHolder, Holds, MutualExclusion, InsideIsMasked, Inside, LockTypeOK
<1>4. ArmedSawFree' /\ MutualExclusion'
  BY DEF ArmedSawFree, MutualExclusion, EarlyBoot, WordIsHolder, Holds,
         InsideIsMasked, Inside, LockTypeOK
<1>5. QED
  BY <1>1, <1>2, <1>3, <1>4

\* The mask is what keeps this core's handler out; before MMU_ACTIVE it is the lock.
LEMMA MaskDaifStep == ASSUME LockInv, NEW x \in Contexts, MaskDaif(x) PROVE LockInv'
<1> USE ContextForm DEF LockInv, MaskDaif, Runs, At, Goto
<1>1. LockTypeOK'
  BY DEF LockTypeOK, PcValues
<1>2. InsideIsMasked' /\ HandlerIsMasked' /\ ThreadUnmasked'
  BY DEF InsideIsMasked, HandlerIsMasked, ThreadUnmasked, Inside, LockTypeOK
<1>3. EarlyBoot' /\ WordIsHolder'
  BY DEF EarlyBoot, WordIsHolder, Holds, MutualExclusion, InsideIsMasked, Inside, LockTypeOK
<1>4. ArmedSawFree' /\ MutualExclusion'
  BY DEF ArmedSawFree, MutualExclusion, EarlyBoot, WordIsHolder, Holds,
         InsideIsMasked, Inside, LockTypeOK
<1>5. QED
  BY <1>1, <1>2, <1>3, <1>4

\* Arming the monitor is harmless: a context goes on to STLXR only after reading 0.
LEMMA LdaxrStep == ASSUME LockInv, NEW x \in Contexts, Ldaxr(x) PROVE LockInv'
<1> USE ContextForm DEF LockInv, Ldaxr, Runs, At, Goto
<1>1. LockTypeOK'
  BY DEF LockTypeOK, PcValues
<1>2. InsideIsMasked' /\ HandlerIsMasked' /\ ThreadUnmasked'
  BY DEF InsideIsMasked, HandlerIsMasked, ThreadUnmasked, Inside, LockTypeOK
<1>3. EarlyBoot' /\ WordIsHolder'
  BY DEF EarlyBoot, WordIsHolder, Holds, MutualExclusion, InsideIsMasked, Inside, LockTypeOK
<1>4. ArmedSawFree' /\ MutualExclusion'
  BY DEF ArmedSawFree, MutualExclusion, EarlyBoot, WordIsHolder, Holds,
         InsideIsMasked, Inside, LockTypeOK
<1>5. QED
  BY <1>1, <1>2, <1>3, <1>4

\* Waking up changes no one's hold on the lock.
LEMMA WfeStep == ASSUME LockInv, NEW x \in Contexts, Wfe(x) PROVE LockInv'
<1> USE ContextForm DEF LockInv, Wfe, Runs, At, Goto
<1>1. LockTypeOK'
  BY DEF LockTypeOK, PcValues
<1>2. InsideIsMasked' /\ HandlerIsMasked' /\ ThreadUnmasked'
  BY DEF InsideIsMasked, HandlerIsMasked, ThreadUnmasked, Inside, LockTypeOK
<1>3. EarlyBoot' /\ WordIsHolder'
  BY DEF EarlyBoot, WordIsHolder, Holds, MutualExclusion, InsideIsMasked, Inside, LockTypeOK
<1>4. ArmedSawFree' /\ MutualExclusion'
  BY DEF ArmedSawFree, MutualExclusion, EarlyBoot, WordIsHolder, Holds,
         InsideIsMasked, Inside, LockTypeOK
<1>5. QED
  BY <1>1, <1>2, <1>3, <1>4

\* The claim: the armed monitor says the lock word is still 0, so nobody holds the lock.
LEMMA StlxrSucceedsStep == ASSUME LockInv, NEW x \in Contexts, StlxrSucceeds(x) PROVE LockInv'
<1> USE ContextForm DEF LockInv, StlxrSucceeds, Runs, At, Goto
<1>1. LockTypeOK'
  BY DEF LockTypeOK, PcValues
<1>2. InsideIsMasked' /\ HandlerIsMasked' /\ ThreadUnmasked'
  BY DEF InsideIsMasked, HandlerIsMasked, ThreadUnmasked, Inside, LockTypeOK
<1>3. EarlyBoot' /\ WordIsHolder'
  BY DEF EarlyBoot, WordIsHolder, Holds, MutualExclusion, InsideIsMasked, Inside, LockTypeOK
<1>4. ArmedSawFree' /\ MutualExclusion'
  BY DEF ArmedSawFree, MutualExclusion, EarlyBoot, WordIsHolder, Holds,
         InsideIsMasked, Inside, LockTypeOK
<1>5. QED
  BY <1>1, <1>2, <1>3, <1>4

\* A failed store-exclusive changes nothing but the program counter.
LEMMA StlxrFailsStep == ASSUME LockInv, NEW x \in Contexts, StlxrFails(x) PROVE LockInv'
<1> USE ContextForm DEF LockInv, StlxrFails, Runs, At, Goto
<1>1. LockTypeOK'
  BY DEF LockTypeOK, PcValues
<1>2. InsideIsMasked' /\ HandlerIsMasked' /\ ThreadUnmasked'
  BY DEF InsideIsMasked, HandlerIsMasked, ThreadUnmasked, Inside, LockTypeOK
<1>3. EarlyBoot' /\ WordIsHolder'
  BY DEF EarlyBoot, WordIsHolder, Holds, MutualExclusion, InsideIsMasked, Inside, LockTypeOK
<1>4. ArmedSawFree' /\ MutualExclusion'
  BY DEF ArmedSawFree, MutualExclusion, EarlyBoot, WordIsHolder, Holds,
         InsideIsMasked, Inside, LockTypeOK
<1>5. QED
  BY <1>1, <1>2, <1>3, <1>4

\* The release: by mutual exclusion the releasing context was the only holder.
LEMMA StlrStep == ASSUME LockInv, NEW x \in Contexts, Stlr(x) PROVE LockInv'
<1> USE ContextForm DEF LockInv, Stlr, Runs, At, Goto
<1>1. LockTypeOK'
  BY DEF LockTypeOK, PcValues
<1>2. InsideIsMasked' /\ HandlerIsMasked' /\ ThreadUnmasked'
  BY DEF InsideIsMasked, HandlerIsMasked, ThreadUnmasked, Inside, LockTypeOK
<1>3. EarlyBoot' /\ WordIsHolder'
  BY DEF EarlyBoot, WordIsHolder, Holds, MutualExclusion, InsideIsMasked, Inside, LockTypeOK
<1>4. ArmedSawFree' /\ MutualExclusion'
  BY DEF ArmedSawFree, MutualExclusion, EarlyBoot, WordIsHolder, Holds,
         InsideIsMasked, Inside, LockTypeOK
<1>5. QED
  BY <1>1, <1>2, <1>3, <1>4

\* The early-boot release leaves the lock word alone.
LEMMA SkipStlrStep == ASSUME LockInv, NEW x \in Contexts, SkipStlr(x) PROVE LockInv'
<1> USE ContextForm DEF LockInv, SkipStlr, Runs, At, Goto
<1>1. LockTypeOK'
  BY DEF LockTypeOK, PcValues
<1>2. InsideIsMasked' /\ HandlerIsMasked' /\ ThreadUnmasked'
  BY DEF InsideIsMasked, HandlerIsMasked, ThreadUnmasked, Inside, LockTypeOK
<1>3. EarlyBoot' /\ WordIsHolder'
  BY DEF EarlyBoot, WordIsHolder, Holds, MutualExclusion, InsideIsMasked, Inside, LockTypeOK
<1>4. ArmedSawFree' /\ MutualExclusion'
  BY DEF ArmedSawFree, MutualExclusion, EarlyBoot, WordIsHolder, Holds,
         InsideIsMasked, Inside, LockTypeOK
<1>5. QED
  BY <1>1, <1>2, <1>3, <1>4

\* SEV changes the event registers only.
LEMMA SevStep == ASSUME LockInv, NEW x \in Contexts, Sev(x) PROVE LockInv'
<1> USE ContextForm DEF LockInv, Sev, Runs, At, Goto
<1>1. LockTypeOK'
  BY DEF LockTypeOK, PcValues
<1>2. InsideIsMasked' /\ HandlerIsMasked' /\ ThreadUnmasked'
  BY DEF InsideIsMasked, HandlerIsMasked, ThreadUnmasked, Inside, LockTypeOK
<1>3. EarlyBoot' /\ WordIsHolder'
  BY DEF EarlyBoot, WordIsHolder, Holds, MutualExclusion, InsideIsMasked, Inside, LockTypeOK
<1>4. ArmedSawFree' /\ MutualExclusion'
  BY DEF ArmedSawFree, MutualExclusion, EarlyBoot, WordIsHolder, Holds,
         InsideIsMasked, Inside, LockTypeOK
<1>5. QED
  BY <1>1, <1>2, <1>3, <1>4

\* A thread gets its interrupts back, a handler stays masked.
LEMMA RestoreDaifStep == ASSUME LockInv, NEW x \in Contexts, RestoreDaif(x) PROVE LockInv'
<1> USE ContextForm DEF LockInv, RestoreDaif, Runs, At, Goto
<1>1. LockTypeOK'
  BY DEF LockTypeOK, PcValues
<1>2. InsideIsMasked' /\ HandlerIsMasked' /\ ThreadUnmasked'
  BY DEF InsideIsMasked, HandlerIsMasked, ThreadUnmasked, Inside, LockTypeOK
<1>3. EarlyBoot' /\ WordIsHolder'
  BY DEF EarlyBoot, WordIsHolder, Holds, MutualExclusion, InsideIsMasked, Inside, LockTypeOK
<1>4. ArmedSawFree' /\ MutualExclusion'
  BY DEF ArmedSawFree, MutualExclusion, EarlyBoot, WordIsHolder, Holds,
         InsideIsMasked, Inside, LockTypeOK
<1>5. QED
  BY <1>1, <1>2, <1>3, <1>4

\* An unmasked core's thread is outside the lock, so its handler starts on top of nothing.
LEMMA TakeIrqStep == ASSUME LockInv, NEW c \in Cores, TakeIrq(c) PROVE LockInv'
<1> USE ContextForm DEF LockInv, TakeIrq, Runs
<1>1. LockTypeOK'
  BY DEF LockTypeOK, PcValues
<1>2. InsideIsMasked' /\ HandlerIsMasked' /\ ThreadUnmasked'
  BY DEF InsideIsMasked, HandlerIsMasked, ThreadUnmasked, Inside, LockTypeOK
<1>3. EarlyBoot' /\ WordIsHolder'
  BY DEF EarlyBoot, WordIsHolder, Holds, MutualExclusion, InsideIsMasked, Inside, LockTypeOK
<1>4. ArmedSawFree' /\ MutualExclusion'
  BY DEF ArmedSawFree, MutualExclusion, EarlyBoot, WordIsHolder, Holds,
         InsideIsMasked, Inside, LockTypeOK
<1>5. QED
  BY <1>1, <1>2, <1>3, <1>4

\* The thread below the handler gets the unmasked DAIF it was interrupted with.
LEMMA ReturnFromIrqStep == ASSUME LockInv, NEW c \in Cores, ReturnFromIrq(c) PROVE LockInv'
<1> USE ContextForm DEF LockInv, ReturnFromIrq, Runs
<1>1. LockTypeOK'
  BY DEF LockTypeOK, PcValues
<1>2. InsideIsMasked' /\ HandlerIsMasked' /\ ThreadUnmasked'
  <2>1. \A x \in Contexts : x[1] = c => pc[x] \notin Inside
    BY DEF InsideIsMasked, Inside
  <2>2. InsideIsMasked'
    BY <2>1 DEF InsideIsMasked, LockTypeOK
  <2>3. HandlerIsMasked'
    BY DEF HandlerIsMasked, LockTypeOK
  <2>4. ThreadUnmasked'
    BY DEF ThreadUnmasked, LockTypeOK
  <2>5. QED
    BY <2>2, <2>3, <2>4
<1>3. EarlyBoot' /\ WordIsHolder'
  BY DEF EarlyBoot, WordIsHolder, Holds, MutualExclusion, InsideIsMasked, Inside, LockTypeOK
<1>4. ArmedSawFree' /\ MutualExclusion'
  BY DEF ArmedSawFree, MutualExclusion, EarlyBoot, WordIsHolder, Holds,
         InsideIsMasked, Inside, LockTypeOK
<1>5. QED
  BY <1>1, <1>2, <1>3, <1>4

\* Losing a monitor only makes fewer contexts vouch for a free word.
LEMMA LoseMonitorStep == ASSUME LockInv, NEW c \in Cores, LoseMonitor(c) PROVE LockInv'
<1> USE ContextForm DEF LockInv, LoseMonitor, Runs
<1>1. LockTypeOK'
  BY CoresAssumption DEF LockTypeOK, PcValues
<1>2. InsideIsMasked' /\ HandlerIsMasked' /\ ThreadUnmasked'
  BY DEF InsideIsMasked, HandlerIsMasked, ThreadUnmasked, Inside, LockTypeOK
<1>3. EarlyBoot' /\ WordIsHolder'
  BY DEF EarlyBoot, WordIsHolder, Holds, MutualExclusion, InsideIsMasked, Inside, LockTypeOK
<1>4. ArmedSawFree' /\ MutualExclusion'
  BY DEF ArmedSawFree, MutualExclusion, EarlyBoot, WordIsHolder, Holds,
         InsideIsMasked, Inside, LockTypeOK
<1>5. QED
  BY <1>1, <1>2, <1>3, <1>4

\* A core is started outside the lock and unmasked, after MMU_ACTIVE.
LEMMA psci_cpu_onStep == ASSUME LockInv, NEW c \in Cores, psci_cpu_on(c) PROVE LockInv'
<1> USE ContextForm DEF LockInv, psci_cpu_on, Runs
<1>1. LockTypeOK'
  BY DEF LockTypeOK, PcValues
<1>2. InsideIsMasked' /\ HandlerIsMasked' /\ ThreadUnmasked'
  BY DEF InsideIsMasked, HandlerIsMasked, ThreadUnmasked, Inside, LockTypeOK
<1>3. EarlyBoot' /\ WordIsHolder'
  BY DEF EarlyBoot, WordIsHolder, Holds, MutualExclusion, InsideIsMasked, Inside, LockTypeOK
<1>4. ArmedSawFree' /\ MutualExclusion'
  BY DEF ArmedSawFree, MutualExclusion, EarlyBoot, WordIsHolder, Holds,
         InsideIsMasked, Inside, LockTypeOK
<1>5. QED
  BY <1>1, <1>2, <1>3, <1>4

\* mmu_init: the boot thread is outside the lock and no other context ever
\* ran, so the lock word, 0 so far, starts out telling the truth.
LEMMA mmu_initStep == ASSUME LockInv, mmu_init PROVE LockInv'
<1> USE ContextForm DEF LockInv, mmu_init, At, Runs
<1>1. LockTypeOK' /\ InsideIsMasked' /\ HandlerIsMasked' /\ ThreadUnmasked'
  BY DEF LockTypeOK, InsideIsMasked, HandlerIsMasked, ThreadUnmasked
<1>2. \A x \in Contexts : pc[x] \notin Inside
  BY DEF InsideIsMasked, HandlerIsMasked, EarlyBoot, Inside
<1>3. EarlyBoot' /\ WordIsHolder' /\ ArmedSawFree' /\ MutualExclusion'
  BY <1>2 DEF EarlyBoot, WordIsHolder, ArmedSawFree, MutualExclusion, Holds, Inside
<1>4. QED
  BY <1>1, <1>3

LEMMA StutterStep == ASSUME LockInv, UNCHANGED lock_vars PROVE LockInv'
BY DEF LockInv, lock_vars, LockTypeOK, InsideIsMasked, HandlerIsMasked, ThreadUnmasked,
       EarlyBoot, WordIsHolder, ArmedSawFree, MutualExclusion, Inside, Runs, Holds

\* The strengthening is an invariant of every behaviour.
THEOREM LockInductive == LockSpec => []LockInv
<1>1. LockInv /\ [LockNext]_lock_vars => LockInv'
  <2> SUFFICES ASSUME LockInv, [LockNext]_lock_vars PROVE LockInv'
    OBVIOUS
  <2>1. ASSUME NEW x \in Contexts, SaveDaif(x) \/ Progress(x) PROVE LockInv'
    BY <2>1, SaveDaifStep, MaskDaifStep, LdaxrStep, WfeStep, StlxrSucceedsStep,
       StlxrFailsStep, StlrStep, SkipStlrStep, SevStep, RestoreDaifStep
       DEF Progress
  <2>2. ASSUME NEW c \in Cores, Machine(c) PROVE LockInv'
    BY <2>2, TakeIrqStep, ReturnFromIrqStep, LoseMonitorStep, psci_cpu_onStep
       DEF Machine
  <2>3. QED
    BY <2>1, <2>2, mmu_initStep, StutterStep DEF LockNext
<1>2. QED
  BY LockInitInv, <1>1, PTL DEF LockSpec

\* spin_lock and spin_unlock never let two contexts in at once.
THEOREM MutualExclusionHolds == LockSpec => []MutualExclusion
BY LockInductive, PTL DEF LockInv

\* No IRQ handler runs over a thread that waits for the lock or holds it: the
\* self-deadlock spin_lock masks DAIF against cannot happen.
THEOREM NoReentryHolds == LockSpec => []NoReentry
<1>1. ASSUME LockInv, NEW c \in inIrq PROVE pc[<<c, "thread">>] \in {"out", "mask"}
  <2>1. c \in Cores /\ <<c, "thread">> \in Contexts /\ pc[<<c, "thread">>] \in PcValues
    BY <1>1, ContextForm DEF LockInv, LockTypeOK
  <2>2. pc[<<c, "thread">>] \notin Inside
    BY <1>1, <2>1 DEF LockInv, InsideIsMasked, Runs
  <2>3. QED
    BY <2>1, <2>2 DEF PcValues, Inside
<1>2. LockInv => NoReentry
  BY <1>1 DEF NoReentry
<1>3. QED
  BY <1>2, LockInductive, PTL

\* spin_unlock gives every caller its own DAIF back.
THEOREM DaifGivenBackHolds == LockSpec => []DaifGivenBack
<1>1. LockInv => DaifGivenBack
  BY DEF LockInv, LockTypeOK, ThreadUnmasked, DaifGivenBack
<1>2. QED
  BY <1>1, LockInductive, PTL

-----------------------------------------------------------------------------
(* The refinement of Mutex *)

\* The holder, when there is one, is the owner.
LEMMA OwnerIsHolder ==
  ASSUME MutualExclusion, NEW x \in Contexts, Holds(x)
  PROVE  owner = x
BY DEF owner, MutualExclusion

\* Entering the critical section is Acquire, leaving it is Release, and every
\* other instruction is invisible.
LEMMA StepRefines == ASSUME LockInv, LockInv', [LockNext]_lock_vars PROVE [M!Next]_owner
<1>1. ASSUME NEW x \in Contexts, MaskDaif(x) \/ StlxrSucceeds(x), Holds(x)'
      PROVE  M!Acquire(x)
  <2>1. \A y \in Contexts : ~Holds(y)
    BY <1>1 DEF MaskDaif, StlxrSucceeds, Goto, At, Holds, LockInv, LockTypeOK, MutualExclusion
  <2>2. QED
    BY <1>1, <2>1 DEF owner, M!Acquire, LockInv, MutualExclusion
<1>2. ASSUME NEW x \in Contexts, Stlr(x) \/ SkipStlr(x)
      PROVE  M!Release(x)
  <2>1. \A y \in Contexts : ~Holds(y)'
    BY <1>2 DEF Stlr, SkipStlr, Goto, At, Holds, LockInv, LockTypeOK, MutualExclusion
  <2>2. QED
    BY <1>2, <2>1, OwnerIsHolder DEF owner, M!Release, LockInv, Stlr, SkipStlr, At, Holds
<1>3. ASSUME \A y \in Contexts : Holds(y)' <=> Holds(y)
      PROVE  UNCHANGED owner
  BY <1>3 DEF owner
<1>4. ASSUME NEW x \in Contexts,
             SaveDaif(x) \/ Ldaxr(x) \/ Wfe(x) \/ StlxrFails(x) \/ Sev(x) \/ RestoreDaif(x)
      PROVE  \A y \in Contexts : Holds(y)' <=> Holds(y)
  BY <1>4 DEF SaveDaif, Ldaxr, Wfe, StlxrFails, Sev, RestoreDaif, At, Goto, Holds,
              LockInv, LockTypeOK
<1>5. ASSUME NEW x \in Contexts, MaskDaif(x), ~Holds(x)'
      PROVE  \A y \in Contexts : Holds(y)' <=> Holds(y)
  BY <1>5 DEF MaskDaif, At, Goto, Holds, LockInv, LockTypeOK
<1>6. ASSUME NEW x \in Contexts, StlxrSucceeds(x)
      PROVE  Holds(x)'
  BY <1>6 DEF StlxrSucceeds, Goto, Holds, LockInv, LockTypeOK
<1>7. ASSUME NEW c \in Cores, Machine(c)
      PROVE  \A y \in Contexts : Holds(y)' <=> Holds(y)
  BY <1>7 DEF Machine, TakeIrq, ReturnFromIrq, LoseMonitor, psci_cpu_on, Holds
<1>8. ASSUME mmu_init \/ UNCHANGED lock_vars
      PROVE  \A y \in Contexts : Holds(y)' <=> Holds(y)
  BY <1>8 DEF mmu_init, lock_vars, Holds
<1>9. QED
  BY <1>1, <1>2, <1>3, <1>4, <1>5, <1>6, <1>7, <1>8 DEF LockNext, Progress, M!Next

\* A spinlock is a mutex.
THEOREM LockRefinement == LockSpec => IsMutex
<1>1. LockInit => M!Init
  BY DEF LockInit, M!Init, owner, Holds
<1>2. QED
  BY <1>1, StepRefines, LockInductive, PTL DEF LockSpec, IsMutex, M!Spec

-----------------------------------------------------------------------------
(* Division *)

\* A quotient and its remainder, in the form the provers can use.
LEMMA DivMod ==
  ASSUME NEW n \in Int, NEW w \in Nat \ {0}
  PROVE  /\ n \div w \in Int
         /\ n % w \in 0..(w - 1)
         /\ n % w = n - w * (n \div w)
         /\ w * (n \div w) <= n
         /\ n < w * (n \div w) + w
<1>1. n \div w \in Int /\ n % w \in 0..(w - 1)
  OBVIOUS
<1>2. n % w = n - w * (n \div w)
  BY SMTT(30)
<1>3. QED
  BY <1>1, <1>2

\* A multiple below a bound that is less than one step past another multiple.
LEMMA MultipleBelow ==
  ASSUME NEW w \in Nat \ {0}, NEW a \in Int, NEW b \in Int, w * a < w * b + w
  PROVE  a <= b
<1> SUFFICES ASSUME a >= b + 1 PROVE FALSE
  OBVIOUS
<1>1. w * a >= w * (b + 1)
  OBVIOUS
<1>2. w * (b + 1) = w * b + w
  OBVIOUS
<1>3. QED
  BY <1>1, <1>2

\* Quotients are found by bracketing.
LEMMA DivUnique ==
  ASSUME NEW w \in Nat \ {0}, NEW n \in Int, NEW q \in Int,
         w * q <= n, n < w * q + w
  PROVE  n \div w = q
<1> DEFINE d == n \div w
<1>1. d \in Int /\ w * d <= n /\ n < w * d + w
  BY DivMod
<1> HIDE DEF d
<1>2. d <= q
  <2>1. w * d < w * q + w
    BY <1>1
  <2>2. QED
    BY <1>1, <2>1, MultipleBelow
<1>3. q <= d
  <2>1. w * q < w * d + w
    BY <1>1
  <2>2. QED
    BY <1>1, <2>1, MultipleBelow
<1>4. QED
  BY <1>1, <1>2, <1>3 DEF d

\* Division is monotone.
LEMMA DivMonotone ==
  ASSUME NEW w \in Nat \ {0}, NEW m \in Int, NEW n \in Int, m <= n
  PROVE  m \div w <= n \div w
<1> DEFINE a == m \div w
           b == n \div w
<1>1. a \in Int /\ b \in Int /\ w * a <= m /\ n < w * b + w
  BY DivMod
<1> HIDE DEF a, b
<1>2. w * a < w * b + w
  BY <1>1
<1>3. a <= b
  BY <1>1, <1>2, MultipleBelow
<1>4. QED
  BY <1>3 DEF a, b

\* Adding whole pages to an aligned address keeps it aligned.
LEMMA AlignedPlusPages ==
  ASSUME NEW w \in Nat \ {0}, NEW a \in Nat, a % w = 0, NEW f \in Nat
  PROVE  (a + f * w) % w = 0
<1> DEFINE q == a \div w
<1>1. q \in Int /\ a = w * q
  BY DivMod
<1> HIDE DEF q
<1>2. w * (q + f) = w * q + f * w
  BY <1>1
<1>3. (a + f * w) \div w = q + f
  <2>1. a + f * w \in Int /\ q + f \in Int
    BY <1>1
  <2>2. w * (q + f) <= a + f * w /\ a + f * w < w * (q + f) + w
    BY <1>1, <1>2
  <2>3. QED
    BY <2>1, <2>2, DivUnique
<1>4. a + f * w \in Int
  BY <1>1
<1>5. (a + f * w) % w = (a + f * w) - w * ((a + f * w) \div w)
  BY <1>4, DivMod
<1>6. QED
  BY <1>1, <1>2, <1>3, <1>5

\* round_up reaches the next multiple and no further.
LEMMA RoundUp ==
  ASSUME NEW n \in Nat, NEW w \in Nat \ {0}
  PROVE  /\ round_up(n, w) \in Nat
         /\ n <= round_up(n, w)
         /\ round_up(n, w) <= n + w - 1
         /\ round_up(n, w) % w = 0
<1> DEFINE q == (n + w - 1) \div w
<1>1. q \in Int /\ w * q <= n + w - 1 /\ n + w - 1 < w * q + w
  BY DivMod
<1>2. round_up(n, w) = q * w
  BY DEF round_up
<1> HIDE DEF q
<1>3. q * w = w * q /\ n <= w * q
  BY <1>1
<1>4. q >= 0
  <2>1. w * 0 < w * q + w
    BY <1>1
  <2>2. QED
    BY <1>1, <2>1, MultipleBelow
<1>5. (0 + q * w) % w = 0
  <2>1. 0 % w = 0
    <3>1. 0 \div w = 0
      BY DivUnique
    <3>2. QED
      BY <3>1, DivMod
  <2>2. QED
    BY <1>1, <1>4, <2>1, AlignedPlusPages
<1>6. QED
  BY <1>1, <1>2, <1>3, <1>4, <1>5

-----------------------------------------------------------------------------
(* The inductive invariant *)

\* What pmm_init computes.
GeometryOK ==
  /\ total_frames <= Words * WORD
  /\ Words <= bitmap_words
  /\ bitmap_addr + bitmap_words * WORD_BYTES <= phys_mem_start
  /\ phys_mem_start % PAGE_SIZE = 0
  /\ phys_mem_start + total_frames * PAGE_SIZE <= PHYS_MEM_END

\* The last word's spare bits are never free.
PaddingSet == total_frames..(Words * WORD - 1) \subseteq bitmap

\* alloc_frame has passed full words only.
WordScanOK ==
  scan.fn = "alloc_frame" =>
    \A k \in Nat : k < scan.idx * WORD => k \in bitmap

\* alloc_frames is at the end of a run of clear bits shorter than count, and
\* every run of count frames that starts before it has a used bit behind idx.
RunScanOK ==
  scan.fn = "alloc_frames" =>
    /\ scan.count >= 1
    /\ scan.run_len < scan.count
    /\ scan.run_len <= scan.idx
    /\ scan.idx <= total_frames
    /\ scan.run_len > 0 => scan.run_start = scan.idx - scan.run_len
    /\ \A k \in (scan.idx - scan.run_len)..(scan.idx - 1) : k \notin bitmap
    /\ \A s \in Nat : s < scan.idx - scan.run_len =>
         \E k \in s..(s + scan.count - 1) : k < scan.idx /\ k \in bitmap

LockOK == scan.by = Nobody <=> scan.fn = "none"

IInv ==
  /\ TypeOK
  /\ GeometryOK
  /\ PaddingSet
  /\ LockOK
  /\ WordScanOK
  /\ RunScanOK
  /\ BitmapIsOwnership
  /\ NoFrameTwice

\* How far the last word reaches, and that pmm_init's padding reaches as far.
LEMMA WordsCover ==
  ASSUME NEW t \in Nat
  PROVE  /\ (t + WORD - 1) \div WORD \in Nat
         /\ t <= ((t + WORD - 1) \div WORD) * WORD
         /\ Padding(t) = t..(((t + WORD - 1) \div WORD) * WORD - 1)
<1> USE PmmAssumption
<1>1. PICK ws \in Int : /\ ws = (t + WORD - 1) \div WORD
                        /\ WORD * ws <= t + WORD - 1
                        /\ t + WORD - 1 < WORD * ws + WORD
  BY DivMod
<1>2. PICK q \in Int : /\ q = t \div WORD
                       /\ t % WORD = t - WORD * q
                       /\ WORD * q <= t
                       /\ t < WORD * q + WORD
  <2>1. t \in Int
    OBVIOUS
  <2>2. /\ t \div WORD \in Int
        /\ t % WORD = t - WORD * (t \div WORD)
        /\ WORD * (t \div WORD) <= t
        /\ t < WORD * (t \div WORD) + WORD
    BY <2>1, DivMod
  <2>3. QED
    BY <2>2
<1>3. ws >= 0
  <2>1. WORD * 0 < WORD * ws + WORD
    BY <1>1
  <2>2. QED
    BY <2>1, MultipleBelow
<1>4. CASE t % WORD = 0
  <2>1. t = WORD * q
    BY <1>2, <1>4
  <2>2. ws = q
    <3>1. t + WORD - 1 \in Int
      OBVIOUS
    <3>2. WORD * q <= t + WORD - 1 /\ t + WORD - 1 < WORD * q + WORD
      BY <2>1
    <3>3. QED
      BY <1>1, <3>1, <3>2, DivUnique
  <2>3. Padding(t) = {}
    BY <1>4 DEF Padding
  <2>4. ws * WORD = t
    BY <2>1, <2>2
  <2>5. QED
    BY <1>1, <1>3, <2>3, <2>4
<1>5. CASE t % WORD # 0
  <2>1. WORD * (q + 1) = WORD * q + WORD
    OBVIOUS
  <2>2. ws = q + 1
    <3>1. t + WORD - 1 \in Int /\ q + 1 \in Int
      OBVIOUS
    <3>2. WORD * (q + 1) <= t + WORD - 1 /\ t + WORD - 1 < WORD * (q + 1) + WORD
      BY <1>2, <1>5, <2>1
    <3>3. QED
      BY <1>1, <3>1, <3>2, DivUnique
  <2>3. Padding(t) = t..(q * WORD + WORD - 1)
    BY <1>2, <1>5 DEF Padding
  <2>4. ws * WORD = q * WORD + WORD
    BY <2>2
  <2>5. t <= ws * WORD
    BY <1>2, <2>4
  <2>6. Padding(t) = t..(ws * WORD - 1)
    BY <2>3, <2>4
  <2>7. QED
    BY <1>1, <1>3, <2>5, <2>6
<1>6. QED
  BY <1>4, <1>5

\* pmm_init leaves the bitmap outside the frames and every word cleared that a
\* scan will read.
LEMMA InitInv == Init => IInv
<1> SUFFICES ASSUME Init PROVE IInv
  OBVIOUS
<1> USE PmmAssumption
<1> PICK kernel_end \in KernelEnds : pmm_init(kernel_end)
  BY DEF Init
<1> DEFINE base       == round_up(kernel_end, PAGE_SIZE)
           max_frames == (PHYS_MEM_END - base) \div PAGE_SIZE
           words      == (max_frames + WORD - 1) \div WORD
           start      == round_up(base + words * WORD_BYTES, PAGE_SIZE)
           total      == (PHYS_MEM_END - start) \div PAGE_SIZE
<1>1. /\ bitmap_addr = base /\ bitmap_words = words
      /\ phys_mem_start = start /\ total_frames = total
      /\ bitmap = Padding(total)
      /\ base <= PHYS_MEM_END /\ start <= PHYS_MEM_END
  BY DEF pmm_init, Init
<1>2. base \in Nat
  BY RoundUp
<1>3. max_frames \in Nat
  <2>1. PHYS_MEM_END - base \in Nat
    BY <1>1, <1>2
  <2> HIDE DEF base
  <2>2. max_frames \in Int /\ PHYS_MEM_END - base < PAGE_SIZE * max_frames + PAGE_SIZE
    <3>1. PHYS_MEM_END - base \in Int
      BY <2>1
    <3>2. QED
      BY <3>1, DivMod
  <2> HIDE DEF max_frames
  <2>3. PAGE_SIZE * 0 < PAGE_SIZE * max_frames + PAGE_SIZE
    BY <2>1, <2>2
  <2>4. QED
    BY <2>2, <2>3, MultipleBelow
<1>4. words \in Nat
  <2> HIDE DEF max_frames
  <2>1. QED
    BY <1>3, WordsCover
<1>5. start \in Nat /\ base + words * WORD_BYTES <= start /\ start % PAGE_SIZE = 0
  <2>1. base + words * WORD_BYTES \in Nat
    <3> HIDE DEF base, words
    <3>1. QED
      BY <1>2, <1>4
  <2>2. QED
    BY <2>1, RoundUp
<1>6. total \in Nat /\ start + total * PAGE_SIZE <= PHYS_MEM_END
  <2> HIDE DEF start
  <2>1. PHYS_MEM_END - start \in Nat
    BY <1>1, <1>5
  <2>2. /\ total \in Int
        /\ PAGE_SIZE * total <= PHYS_MEM_END - start
        /\ PHYS_MEM_END - start < PAGE_SIZE * total + PAGE_SIZE
    <3>1. PHYS_MEM_END - start \in Int
      BY <2>1
    <3>2. QED
      BY <3>1, DivMod
  <2> HIDE DEF total
  <2>3. PAGE_SIZE * 0 < PAGE_SIZE * total + PAGE_SIZE
    BY <2>1, <2>2
  <2>4. total >= 0
    BY <2>2, <2>3, MultipleBelow
  <2>5. QED
    BY <1>5, <2>2, <2>4
<1>7. (total + WORD - 1) \div WORD <= words
  <2>1. PHYS_MEM_END - start <= PHYS_MEM_END - base
    <3> HIDE DEF base, start, words
    <3>1. words * WORD_BYTES \in Nat
      BY <1>4
    <3>2. QED
      BY <1>2, <1>5, <3>1
  <2>2. PHYS_MEM_END - start \in Int /\ PHYS_MEM_END - base \in Int
    BY <1>2, <1>5
  <2>3. total <= max_frames
    BY <2>1, <2>2, DivMonotone
  <2> HIDE DEF total, max_frames
  <2>4. total + WORD - 1 <= max_frames + WORD - 1
    BY <1>3, <1>6, <2>3
  <2>5. total + WORD - 1 \in Int /\ max_frames + WORD - 1 \in Int
    BY <1>3, <1>6
  <2>6. QED
    BY <2>4, <2>5, DivMonotone
<1> HIDE DEF base, max_frames, words, start, total
<1>8. /\ Words \in Nat
      /\ total_frames <= Words * WORD
      /\ bitmap = total_frames..(Words * WORD - 1)
  BY <1>1, <1>6, WordsCover DEF Words
<1>9. GeometryOK
  BY <1>1, <1>5, <1>6, <1>7, <1>8 DEF GeometryOK, Words
<1>10. TypeOK
  <2>1. bitmap \subseteq Bits
    BY <1>1, <1>6, <1>8 DEF Bits
  <2>2. phys_mem_start \in 0..PHYS_MEM_END
    BY <1>1, <1>5
  <2>3. QED
    BY <1>1, <1>2, <1>4, <1>6, <2>1, <2>2 DEF TypeOK, Init, Idle
<1>11. PaddingSet
  BY <1>8 DEF PaddingSet
<1>12. BitmapIsOwnership /\ NoFrameTwice
  BY <1>1, <1>6, <1>8 DEF BitmapIsOwnership, NoFrameTwice, UsedFrames, Init
<1>13. LockOK /\ WordScanOK /\ RunScanOK
  BY DEF Init, Idle, LockOK, WordScanOK, RunScanOK
<1>14. QED
  BY <1>9, <1>10, <1>11, <1>12, <1>13 DEF IInv

-----------------------------------------------------------------------------
(* The steps *)

\* A step that leaves the geometry alone leaves what follows from it alone.
LEMMA GeometryStep ==
  ASSUME IInv, UNCHANGED geometry
  PROVE  /\ GeometryOK'
         /\ Words \in Nat /\ Words' = Words /\ Bits' = Bits
         /\ total_frames \in Nat
         /\ 0..(total_frames - 1) \subseteq Bits
<1>1. total_frames \in Nat /\ total_frames <= Words * WORD
  BY DEF IInv, TypeOK, GeometryOK
<1>2. Words \in Nat
  BY <1>1, WordsCover DEF Words
<1>3. Words' = Words /\ Bits' = Bits
  BY DEF geometry, Words, Bits
<1>4. QED
  BY <1>1, <1>2, <1>3, PmmAssumption DEF geometry, GeometryOK, IInv, Bits

\* A bit found clear inside the words is a frame's, and nobody holds the frame.
LEMMA ClearBitIsFrame ==
  ASSUME IInv, NEW f \in 0..(Words * WORD - 1), f \notin bitmap
  PROVE  f \in 0..(total_frames - 1) /\ f \notin UsedFrames
BY DEF IInv, TypeOK, PaddingSet, BitmapIsOwnership

\* Starting a scan: nothing is known yet.
LEMMA StartScan ==
  ASSUME IInv, NEW c \in Callers, NEW fn \in {"alloc_frame", "alloc_frames"},
         NEW n \in 0..MaxCount, fn = "alloc_frames" => n >= 1,
         scan' = [by |-> c, fn |-> fn, idx |-> 0, count |-> n,
                  run_start |-> 0, run_len |-> 0],
         UNCHANGED <<geometry, bitmap, held, meminfo>>
  PROVE  IInv'
<1> USE PmmAssumption DEF IInv
<1>1. GeometryOK' /\ Bits' = Bits /\ Words' = Words
  BY GeometryStep
<1>2. TypeOK'
  BY <1>1 DEF TypeOK, geometry
<1>3. LockOK'
  BY DEF LockOK
<1>4. PaddingSet' /\ BitmapIsOwnership' /\ NoFrameTwice'
  BY <1>1 DEF PaddingSet, BitmapIsOwnership, NoFrameTwice, UsedFrames, geometry
<1>5. WordScanOK'
  <2>1. 0 * WORD = 0
    OBVIOUS
  <2>2. QED
    BY <2>1 DEF WordScanOK
<1>6. RunScanOK'
  BY DEF RunScanOK, TypeOK, geometry
<1>7. QED
  BY <1>1, <1>2, <1>3, <1>4, <1>5, <1>6

LEMMA StartStep ==
  ASSUME IInv, NEW c \in Callers,
         alloc_frame(c) \/ \E count \in 1..MaxCount : alloc_frames(c, count)
  PROVE  IInv'
<1>1. CASE alloc_frame(c)
  <2>1. scan' = [by |-> c, fn |-> "alloc_frame", idx |-> 0, count |-> 0,
                 run_start |-> 0, run_len |-> 0]
    BY <1>1 DEF alloc_frame, Idle
  <2>2. 0 \in 0..MaxCount
    BY PmmAssumption
  <2>3. QED
    BY <1>1, <2>1, <2>2, StartScan DEF alloc_frame
<1>2. ASSUME NEW n \in 1..MaxCount, alloc_frames(c, n) PROVE IInv'
  <2>1. scan' = [by |-> c, fn |-> "alloc_frames", idx |-> 0, count |-> n,
                 run_start |-> 0, run_len |-> 0]
    BY <1>2 DEF alloc_frames, Idle
  <2>2. n \in 0..MaxCount /\ n >= 1
    BY PmmAssumption
  <2>3. QED
    BY <1>2, <2>1, <2>2, StartScan DEF alloc_frames
<1>3. QED
  BY <1>1, <1>2

\* A full word extends the full prefix by one word.
LEMMA FullWordStep ==
  ASSUME IInv, NEW c \in Callers, FullWord(c)
  PROVE  IInv'
<1> USE PmmAssumption DEF IInv, FullWord, InWordScan
<1>1. GeometryOK' /\ Bits' = Bits /\ Words' = Words
  BY GeometryStep
<1>2. TypeOK' /\ LockOK'
  <2>1. scan'.by = scan.by /\ scan'.fn = scan.fn
    BY DEF TypeOK
  <2>2. LockOK'
    BY <2>1 DEF LockOK
  <2>3. TypeOK'
    BY <1>1 DEF TypeOK, geometry
  <2>4. QED
    BY <2>2, <2>3
<1>3. PaddingSet' /\ BitmapIsOwnership' /\ NoFrameTwice'
  BY <1>1 DEF PaddingSet, BitmapIsOwnership, NoFrameTwice, UsedFrames, geometry
<1>4. WordScanOK'
  <2> SUFFICES ASSUME NEW k \in Nat, k < (scan.idx + 1) * WORD PROVE k \in bitmap
    BY DEF WordScanOK, TypeOK
  <2>1. (scan.idx + 1) * WORD = scan.idx * WORD + WORD
    BY DEF TypeOK
  <2>2. k < scan.idx * WORD \/ k \in WordBits(scan.idx)
    BY <2>1 DEF WordBits, TypeOK
  <2>3. QED
    BY <2>2 DEF WordScanOK
<1>5. RunScanOK'
  BY DEF RunScanOK, TypeOK
<1>6. QED
  BY <1>1, <1>2, <1>3, <1>4, <1>5

\* The frames a successful scan gives out were nobody's.
LEMMA TakeStep ==
  ASSUME IInv, NEW c \in Callers, NEW new \in SUBSET (0..(total_frames - 1)),
         new \cap bitmap = {},
         bitmap' = bitmap \cup new,
         held' = [held EXCEPT ![c] = @ \cup new],
         scan' = Idle,
         UNCHANGED <<geometry, meminfo>>
  PROVE  IInv'
<1> USE PmmAssumption DEF IInv
<1>1. /\ GeometryOK' /\ Bits' = Bits /\ Words' = Words
      /\ 0..(total_frames - 1) \subseteq Bits
  BY GeometryStep
<1>2. TypeOK' /\ LockOK'
  <2>1. Idle \in [by : Callers \cup {Nobody},
                  fn : {"none", "alloc_frame", "alloc_frames"},
                  idx : Nat, count : 0..MaxCount, run_start : Nat, run_len : Nat]
    BY DEF Idle
  <2>2. Idle.by = Nobody /\ Idle.fn = "none"
    BY DEF Idle
  <2>3. TypeOK'
    BY <1>1, <2>1 DEF TypeOK, geometry
  <2>4. QED
    BY <2>2, <2>3 DEF LockOK
<1>3. PaddingSet'
  BY <1>1 DEF PaddingSet, geometry
<1>4. held \in [Callers -> SUBSET (0..(total_frames - 1))]
  BY DEF TypeOK
<1>5. UsedFrames' = UsedFrames \cup new
  BY <1>4 DEF UsedFrames
<1>6. BitmapIsOwnership'
  BY <1>5 DEF BitmapIsOwnership, geometry
<1>7. NoFrameTwice'
  <2>1. new \cap UsedFrames = {}
    BY DEF BitmapIsOwnership
  <2>2. QED
    BY <1>4, <2>1 DEF NoFrameTwice, UsedFrames
<1>8. WordScanOK' /\ RunScanOK'
  BY DEF WordScanOK, RunScanOK, Idle
<1>9. QED
  BY <1>1, <1>2, <1>3, <1>6, <1>7, <1>8

\* alloc_frame returns the bit that the ctz of the first word not full finds.
LEMMA TakeBitStep ==
  ASSUME IInv, NEW c \in Callers, TakeBit(c)
  PROVE  IInv'
<1> USE PmmAssumption DEF TakeBit, InWordScan
<1> PICK bit \in WordBits(scan.idx) \ bitmap :
      bitmap' = bitmap \cup {bit} /\ held' = [held EXCEPT ![c] = @ \cup {bit}]
  OBVIOUS
<1>1. scan.idx \in Nat /\ scan.idx + 1 <= Words /\ Words \in Nat
  BY WordsCover DEF IInv, TypeOK, Words
<1>2. (scan.idx + 1) * WORD <= Words * WORD
  BY <1>1
<1>3. (scan.idx + 1) * WORD = scan.idx * WORD + WORD
  BY <1>1
<1>4. bit \in 0..(Words * WORD - 1)
  BY <1>1, <1>2, <1>3 DEF WordBits
<1>5. bit \in 0..(total_frames - 1)
  BY <1>4, ClearBitIsFrame
<1>6. {bit} \in SUBSET (0..(total_frames - 1)) /\ {bit} \cap bitmap = {}
  BY <1>5
<1>7. QED
  BY <1>6, TakeStep

\* A used bit ends the run: whatever starts before it runs into it.
LEMMA UsedBitStep ==
  ASSUME IInv, NEW c \in Callers, UsedBit(c)
  PROVE  IInv'
<1> USE PmmAssumption DEF IInv, UsedBit, InRunScan
<1>1. GeometryOK' /\ Bits' = Bits /\ Words' = Words
  BY GeometryStep
<1>2. TypeOK' /\ LockOK'
  <2>1. scan'.by = scan.by /\ scan'.fn = scan.fn
    BY DEF TypeOK
  <2>2. LockOK'
    BY <2>1 DEF LockOK
  <2>3. scan' \in [by : Callers \cup {Nobody},
                   fn : {"none", "alloc_frame", "alloc_frames"},
                   idx : Nat, count : 0..MaxCount, run_start : Nat, run_len : Nat]
    <3>1. scan' = [by |-> scan.by, fn |-> scan.fn, idx |-> scan.idx + 1,
                   count |-> scan.count, run_start |-> scan.run_start,
                   run_len |-> 0]
      BY DEF TypeOK
    <3>2. scan.run_start \in Nat /\ 0 \in Nat /\ scan.idx + 1 \in Nat
      BY DEF TypeOK
    <3>3. QED
      BY <3>1, <3>2 DEF TypeOK
  <2>4. TypeOK'
    BY <1>1, <2>3 DEF TypeOK, geometry
  <2>5. QED
    BY <2>2, <2>4
<1>3. PaddingSet' /\ BitmapIsOwnership' /\ NoFrameTwice'
  BY <1>1 DEF PaddingSet, BitmapIsOwnership, NoFrameTwice, UsedFrames, geometry
<1>4. WordScanOK'
  BY DEF WordScanOK, TypeOK
<1>5. ASSUME NEW s \in Nat, s < scan.idx + 1
      PROVE  \E k \in s..(s + scan.count - 1) : k < scan.idx + 1 /\ k \in bitmap
  <2>1. CASE s < scan.idx - scan.run_len
    BY <2>1 DEF RunScanOK, TypeOK
  <2>2. CASE s >= scan.idx - scan.run_len
    <3>1. scan.idx \in s..(s + scan.count - 1)
      BY <1>5, <2>2 DEF RunScanOK, TypeOK
    <3>2. QED
      BY <3>1 DEF TypeOK
  <2>3. QED
    BY <2>1, <2>2 DEF TypeOK
<1>6. RunScanOK'
  BY <1>5 DEF RunScanOK, TypeOK, geometry
<1>7. QED
  BY <1>1, <1>2, <1>3, <1>4, <1>6

\* A clear bit lengthens the run and moves no run's start out of the past.
LEMMA ClearBitStep ==
  ASSUME IInv, NEW c \in Callers, ClearBit(c)
  PROVE  IInv'
<1> USE PmmAssumption DEF IInv, ClearBit, InRunScan, RunStart
<1>1. GeometryOK' /\ Bits' = Bits /\ Words' = Words
  BY GeometryStep
<1>2. TypeOK' /\ LockOK'
  <2>1. scan'.by = scan.by /\ scan'.fn = scan.fn
    BY DEF TypeOK
  <2>2. LockOK'
    BY <2>1 DEF LockOK
  <2>3. scan' \in [by : Callers \cup {Nobody},
                   fn : {"none", "alloc_frame", "alloc_frames"},
                   idx : Nat, count : 0..MaxCount, run_start : Nat, run_len : Nat]
    <3>1. scan' = [by |-> scan.by, fn |-> scan.fn, idx |-> scan.idx + 1,
                   count |-> scan.count, run_start |-> RunStart,
                   run_len |-> scan.run_len + 1]
      BY DEF TypeOK
    <3>2. RunStart \in Nat /\ scan.run_len + 1 \in Nat /\ scan.idx + 1 \in Nat
      BY DEF TypeOK
    <3>3. QED
      BY <3>1, <3>2 DEF TypeOK
  <2>4. TypeOK'
    BY <1>1, <2>3 DEF TypeOK, geometry
  <2>5. QED
    BY <2>2, <2>4
<1>3. PaddingSet' /\ BitmapIsOwnership' /\ NoFrameTwice'
  BY <1>1 DEF PaddingSet, BitmapIsOwnership, NoFrameTwice, UsedFrames, geometry
<1>4. WordScanOK'
  BY DEF WordScanOK, TypeOK
<1>5. RunScanOK'
  BY DEF RunScanOK, TypeOK, geometry
<1>6. QED
  BY <1>1, <1>2, <1>3, <1>4, <1>5

\* alloc_frames returns a run of clear bits.
LEMMA TakeRunStep ==
  ASSUME IInv, NEW c \in Callers, TakeRun(c)
  PROVE  IInv'
<1> DEFINE run == RunStart..(RunStart + scan.count - 1)
<1>1. /\ scan.idx \in Nat /\ scan.run_len \in Nat /\ total_frames \in Nat
      /\ scan.run_len <= scan.idx /\ scan.idx < total_frames
      /\ scan.idx \notin bitmap
  BY DEF TakeRun, InRunScan, IInv, RunScanOK, TypeOK
<1>2. \A k \in (scan.idx - scan.run_len)..(scan.idx - 1) : k \notin bitmap
  BY DEF TakeRun, InRunScan, IInv, RunScanOK
<1>3. RunStart = scan.idx - scan.run_len /\ RunStart + scan.count - 1 = scan.idx
  BY DEF TakeRun, InRunScan, RunStart, IInv, RunScanOK, TypeOK
<1>4. run = (scan.idx - scan.run_len)..scan.idx
  BY <1>3
<1>5. \A k \in run : k \in 0..(total_frames - 1) /\ k \notin bitmap
  <2> SUFFICES ASSUME NEW k \in (scan.idx - scan.run_len)..scan.idx
               PROVE  k \in 0..(total_frames - 1) /\ k \notin bitmap
    BY <1>4
  <2>1. k = scan.idx \/ k \in (scan.idx - scan.run_len)..(scan.idx - 1)
    BY <1>1
  <2>2. k \notin bitmap
    BY <1>1, <1>2, <2>1
  <2>3. QED
    BY <1>1, <2>2
<1>6. run \in SUBSET (0..(total_frames - 1)) /\ run \cap bitmap = {}
  BY <1>5
<1>7. /\ bitmap' = bitmap \cup run /\ held' = [held EXCEPT ![c] = @ \cup run]
      /\ scan' = Idle /\ UNCHANGED <<geometry, meminfo>>
  BY DEF TakeRun
<1> HIDE DEF run
<1>8. QED
  BY <1>6, <1>7, TakeStep

\* A scan that gives up changes nothing.
LEMMA GiveUpStep ==
  ASSUME IInv, NEW c \in Callers, OutOfMemory(c) \/ NoRun(c)
  PROVE  IInv'
<1>1. /\ bitmap' = bitmap \cup {} /\ held' = [held EXCEPT ![c] = @ \cup {}]
      /\ scan' = Idle /\ UNCHANGED <<geometry, meminfo>>
  BY DEF OutOfMemory, NoRun, IInv, TypeOK
<1>2. QED
  BY <1>1, TakeStep

\* free_frame clears the bit of a frame its caller held, or of nobody's frame.
LEMMA FreeStep ==
  ASSUME IInv, NEW c \in Callers, NEW addr \in Nat, free_frame(c, addr)
  PROVE  IInv'
<1> USE PmmAssumption DEF IInv, free_frame
<1> DEFINE f == FrameIndex(addr)
<1>1. /\ GeometryOK' /\ Bits' = Bits /\ Words' = Words
  BY GeometryStep
<1>2. held \in [Callers -> SUBSET (0..(total_frames - 1))]
  BY DEF TypeOK
<1>3. CASE ~IsFrame(addr)
  BY <1>1, <1>3
     DEF TypeOK, LockOK, PaddingSet, BitmapIsOwnership, NoFrameTwice, UsedFrames,
         WordScanOK, RunScanOK, geometry
<1>4. CASE IsFrame(addr)
  <2>1. bitmap' = bitmap \ {f} /\ held' = [held EXCEPT ![c] = @ \ {f}]
    BY <1>4
  <2>2. f \in held[c] \/ f \notin UsedFrames
    BY <1>4 DEF MayFree, IsFrame
  <2>3. f < total_frames
    BY <1>4 DEF IsFrame
  <2> HIDE DEF f
  <2>4. TypeOK' /\ LockOK'
    BY <1>1, <2>1 DEF TypeOK, LockOK, geometry
  <2>5. PaddingSet'
    BY <1>1, <2>1, <2>3 DEF PaddingSet, geometry, TypeOK
  <2>6. UsedFrames' = UsedFrames \ {f}
    BY <1>2, <2>1, <2>2 DEF UsedFrames, NoFrameTwice
  <2>7. BitmapIsOwnership' /\ NoFrameTwice'
    BY <1>2, <2>1, <2>6 DEF BitmapIsOwnership, NoFrameTwice, geometry
  <2>8. WordScanOK' /\ RunScanOK'
    BY DEF WordScanOK, RunScanOK, LockOK
  <2>9. QED
    BY <1>1, <2>4, <2>5, <2>7, <2>8
<1>5. QED
  BY <1>3, <1>4

\* meminfo only reads.
LEMMA MeminfoStep ==
  ASSUME IInv, CountWord \/ PrintMeminfo, meminfo' \in [word : Nat, raw : Nat]
  PROVE  IInv'
<1>1. GeometryOK' /\ Bits' = Bits /\ Words' = Words
  BY GeometryStep DEF CountWord, PrintMeminfo
<1>2. QED
  BY <1>1 DEF CountWord, PrintMeminfo, IInv, TypeOK, LockOK, PaddingSet,
              BitmapIsOwnership, NoFrameTwice, UsedFrames, WordScanOK, RunScanOK, geometry

\* The bits counted in a word are a number.
LEMMA CountIsNat ==
  ASSUME NEW i \in Int
  PROVE  Cardinality(WordBits(i) \cap bitmap) \in Nat
<1>1. i * WORD \in Int /\ i * WORD + WORD - 1 \in Int
  BY PmmAssumption
<1>2. IsFiniteSet(WordBits(i))
  BY <1>1, FS_Interval DEF WordBits
<1>3. IsFiniteSet(WordBits(i) \cap bitmap)
  BY <1>2, FS_Subset
<1>4. QED
  BY <1>3, FS_CardinalityType

LEMMA CountStep == IInv /\ (CountWord \/ PrintMeminfo) => IInv'
<1> SUFFICES ASSUME IInv, CountWord \/ PrintMeminfo PROVE IInv'
  OBVIOUS
<1>1. CASE CountWord
  <2>1. meminfo.word \in Nat /\ meminfo.raw \in Nat
    BY DEF IInv, TypeOK
  <2>2. Cardinality(WordBits(meminfo.word) \cap bitmap) \in Nat
    BY <2>1, CountIsNat
  <2>3. meminfo' \in [word : Nat, raw : Nat]
    BY <1>1, <2>1, <2>2 DEF CountWord
  <2>4. QED
    BY <1>1, <2>3, MeminfoStep
<1>2. CASE PrintMeminfo
  <2>1. meminfo' \in [word : Nat, raw : Nat]
    BY <1>2 DEF PrintMeminfo
  <2>2. QED
    BY <1>2, <2>1, MeminfoStep
<1>3. QED
  BY <1>1, <1>2

\* Every step keeps the invariant.
LEMMA NextInv == IInv /\ [Next]_vars => IInv'
<1> SUFFICES ASSUME IInv, [Next]_vars PROVE IInv'
  OBVIOUS
<1>1. ASSUME NEW c \in Callers, AllocFrame(c) PROVE IInv'
  BY <1>1, StartStep, FullWordStep, TakeBitStep, GiveUpStep DEF AllocFrame
<1>2. ASSUME NEW c \in Callers, AllocFrames(c) PROVE IInv'
  BY <1>2, StartStep, UsedBitStep, ClearBitStep, TakeRunStep, GiveUpStep DEF AllocFrames
<1>3. ASSUME NEW c \in Callers, NEW addr \in 0..(PHYS_MEM_END + PAGE_SIZE),
             free_frame(c, addr)
      PROVE  IInv'
  <2>1. addr \in Nat
    BY PmmAssumption
  <2>2. QED
    BY <1>3, <2>1, FreeStep
<1>4. CASE CountWord \/ PrintMeminfo
  BY <1>4, CountStep
<1>5. CASE UNCHANGED vars
  <2>1. GeometryOK' /\ Bits' = Bits /\ Words' = Words
    BY <1>5, GeometryStep DEF vars, geometry
  <2>2. QED
    BY <1>5, <2>1
       DEF vars, IInv, TypeOK, LockOK, PaddingSet, BitmapIsOwnership, NoFrameTwice,
           UsedFrames, WordScanOK, RunScanOK, geometry
<1>6. QED
  BY <1>1, <1>2, <1>3, <1>4, <1>5 DEF Next

-----------------------------------------------------------------------------
(* The theorems *)

\* The strengthened invariant holds of every behaviour.
THEOREM Inductive == Spec => []IInv
<1>1. Init => IInv
  BY InitInv
<1>2. IInv /\ [Next]_vars => IInv'
  BY NextInv
<1>3. QED
  BY <1>1, <1>2, PTL DEF Spec

\* Type correctness of the bitmap, the scans and the ownership record.
THEOREM TypeOKHolds == Spec => []TypeOK
<1>1. IInv => TypeOK
  BY DEF IInv
<1>2. QED
  BY <1>1, Inductive, PTL

\* No frame is given to two callers, whatever scans and frees interleave.
THEOREM NoFrameTwiceHolds == Spec => []NoFrameTwice
<1>1. IInv => NoFrameTwice
  BY DEF IInv
<1>2. QED
  BY <1>1, Inductive, PTL

\* The bitmap's bits and the frames in use agree after every step.
THEOREM BitmapIsOwnershipHolds == Spec => []BitmapIsOwnership
<1>1. IInv => BitmapIsOwnership
  BY DEF IInv
<1>2. QED
  BY <1>1, Inductive, PTL

\* A page that starts below the last frame's end ends there too.
LEMMA FrameEnd ==
  ASSUME NEW t \in Nat, NEW f \in Nat, f < t, NEW w \in Nat
  PROVE  f * w + w <= t * w
<1>1. (f + 1) * w <= t * w
  OBVIOUS
<1>2. (f + 1) * w = f * w + w
  OBVIOUS
<1>3. QED
  BY <1>1, <1>2

\* Every frame given out is whole, aligned, past the bitmap and inside memory,
\* for every kernel image that leaves room for the bitmap.
THEOREM FramesInMemoryHolds == Spec => []FramesInMemory
<1>1. ASSUME IInv, NEW f \in UsedFrames
      PROVE  /\ FrameAddress(f) >= bitmap_addr + bitmap_words * WORD_BYTES
             /\ FrameAddress(f) % PAGE_SIZE = 0
             /\ FrameAddress(f) + PAGE_SIZE <= PHYS_MEM_END
  <2> USE PmmAssumption
  <2>1. f \in Nat /\ f < total_frames /\ total_frames \in Nat
    BY <1>1 DEF IInv, TypeOK, UsedFrames
  <2>2. phys_mem_start \in Nat /\ bitmap_addr \in Nat /\ bitmap_words \in Nat
    BY <1>1 DEF IInv, TypeOK
  <2>3. f * PAGE_SIZE \in Nat /\ f * PAGE_SIZE + PAGE_SIZE <= total_frames * PAGE_SIZE
    BY <2>1, FrameEnd
  <2>4. FrameAddress(f) % PAGE_SIZE = 0
    BY <1>1, <2>1, <2>2, AlignedPlusPages DEF FrameAddress, IInv, GeometryOK
  <2>5. bitmap_words * WORD_BYTES \in Nat /\ total_frames * PAGE_SIZE \in Nat
    BY <2>1, <2>2
  <2>6. QED
    BY <1>1, <2>2, <2>3, <2>4, <2>5 DEF FrameAddress, IInv, GeometryOK
<1>2. IInv => FramesInMemory
  BY <1>1 DEF FramesInMemory, IInv, GeometryOK
<1>3. QED
  BY <1>2, Inductive, PTL

\* A scan that found nothing could have been given nothing: alloc_frame's words
\* were all full, and alloc_frames met a used bit in every run of its length.
THEOREM FailsOnlyWhenFullHolds == Spec => FailsOnlyWhenFull
<1> DEFINE Fails(c) ==
      /\ OutOfMemory(c) => UsedFrames = 0..(total_frames - 1)
      /\ InRunScan(c) /\ scan'.by = Nobody /\ held' = held =>
           \A s \in 0..(total_frames - scan.count) :
             s..(s + scan.count - 1) \cap UsedFrames # {}
<1>1. ASSUME IInv, NEW c \in Callers, OutOfMemory(c)
      PROVE  UsedFrames = 0..(total_frames - 1)
  <2>1. total_frames \in Nat /\ Words \in Nat /\ scan.idx \in Nat
    BY <1>1, WordsCover DEF IInv, TypeOK, Words
  <2>2. Words * WORD <= scan.idx * WORD
    BY <1>1, <2>1, PmmAssumption DEF OutOfMemory
  <2>3. 0..(total_frames - 1) \subseteq bitmap
    BY <1>1, <2>1, <2>2, PmmAssumption
       DEF IInv, GeometryOK, WordScanOK, OutOfMemory, InWordScan
  <2>4. UsedFrames \subseteq 0..(total_frames - 1)
    BY <1>1 DEF IInv, TypeOK, UsedFrames
  <2>5. QED
    BY <1>1, <2>3, <2>4 DEF IInv, BitmapIsOwnership
<1>2. ASSUME IInv, [Next]_vars, NEW c \in Callers,
             InRunScan(c), scan'.by = Nobody, held' = held
      PROVE  NoRun(c)
  <2>1. scan.by = c /\ c # Nobody /\ scan.fn = "alloc_frames"
    BY <1>2, PmmAssumption DEF InRunScan
  <2>2. ~TakeRun(c)
    <3> SUFFICES ASSUME TakeRun(c) PROVE FALSE
      OBVIOUS
    <3>1. scan.idx \in RunStart..(RunStart + scan.count - 1)
      BY <1>2 DEF TakeRun, RunStart, IInv, RunScanOK, InRunScan, TypeOK
    <3>2. scan.idx \in held'[c]
      BY <1>2, <3>1 DEF TakeRun, IInv, TypeOK
    <3>3. scan.idx \in 0..(total_frames - 1) /\ scan.idx \in UsedFrames
      BY <1>2, <3>2 DEF IInv, TypeOK, UsedFrames
    <3>4. QED
      BY <1>2, <3>3 DEF TakeRun, IInv, BitmapIsOwnership
  <2>3. scan # scan'
    BY <1>2, <2>1
  <2>4. ~CountWord /\ ~PrintMeminfo /\ ~UNCHANGED vars
    BY <2>3 DEF CountWord, PrintMeminfo, vars
  <2>5. ASSUME NEW d \in Callers, NEW addr, free_frame(d, addr) PROVE FALSE
    BY <2>1, <2>5 DEF free_frame
  <2>6. ASSUME NEW d \in Callers, AllocFrame(d) PROVE FALSE
    BY <2>1, <2>6
       DEF AllocFrame, alloc_frame, FullWord, TakeBit, OutOfMemory, InWordScan
  <2>7. ASSUME NEW d \in Callers, AllocFrames(d) PROVE NoRun(c)
    <3>1. d = c /\ ~ \E count \in 1..MaxCount : alloc_frames(d, count)
      BY <2>1, <2>7
         DEF AllocFrames, alloc_frames, UsedBit, ClearBit, TakeRun, NoRun, InRunScan
    <3>2. scan.by = c /\ scan \in [by : Callers \cup {Nobody},
               fn : {"none", "alloc_frame", "alloc_frames"},
               idx : Nat, count : 0..MaxCount, run_start : Nat, run_len : Nat]
      BY <1>2, <2>1 DEF IInv, TypeOK
    <3>3. ~UsedBit(c) /\ ~ClearBit(c)
      BY <1>2, <2>1, <3>2 DEF UsedBit, ClearBit
    <3>4. QED
      BY <2>2, <2>7, <3>1, <3>3 DEF AllocFrames
  <2>8. QED
    BY <1>2, <2>4, <2>5, <2>6, <2>7 DEF Next
<1>3. ASSUME IInv, NEW c \in Callers, NoRun(c), NEW s \in 0..(total_frames - scan.count)
      PROVE  s..(s + scan.count - 1) \cap UsedFrames # {}
  <2>1. /\ scan.idx = total_frames /\ scan.run_len < scan.count /\ scan.count >= 1
        /\ scan.run_len \in Nat /\ scan.count \in Nat /\ total_frames \in Nat
    BY <1>3 DEF IInv, TypeOK, RunScanOK, NoRun, InRunScan
  <2>2. s \in Nat /\ s < scan.idx - scan.run_len
    BY <2>1
  <2>3. PICK k \in s..(s + scan.count - 1) : k < scan.idx /\ k \in bitmap
    BY <1>3, <2>2 DEF IInv, RunScanOK, NoRun, InRunScan
  <2>4. k \in 0..(total_frames - 1)
    BY <2>1, <2>2, <2>3
  <2>5. QED
    BY <1>3, <2>3, <2>4 DEF IInv, BitmapIsOwnership
<1>4. IInv /\ [Next]_vars => [\A c \in Callers : Fails(c)]_vars
  BY <1>1, <1>2, <1>3
<1>5. QED
  BY <1>4, Inductive, PTL DEF Spec, FailsOnlyWhenFull

-----------------------------------------------------------------------------
(* Refinement *)

\* Taking a run of unused frames is an allocation.
LEMMA TakeIsAlloc ==
  ASSUME IInv, NEW c \in Callers, NEW s \in Nat, NEW n \in Nat \ {0},
         s + n <= total_frames, s..(s + n - 1) \cap bitmap = {},
         held' = [held EXCEPT ![c] = @ \cup s..(s + n - 1)],
         UNCHANGED geometry
  PROVE  Allocator!Next
<1>1. total_frames \in Nat
  BY DEF IInv, TypeOK
<1>2. s \in 0..total_frames - 1 /\ n \in 1..total_frames
  BY <1>1
<1>3. s..(s + n - 1) \subseteq (0..total_frames - 1) \ UNION {held[d] : d \in Callers}
  BY <1>1 DEF IInv, BitmapIsOwnership, UsedFrames
<1>4. Allocator!Alloc(c, s, n)
  BY <1>3 DEF Allocator!Alloc, Allocator!FreeRun, Allocator!Free, geometry
<1>5. QED
  BY <1>2, <1>4 DEF Allocator!Next

\* The bitmap implements the frame allocator: a scan's last step is the
\* allocation, free_frame the release, everything else a stutter.
THEOREM Refinement == Spec => IsFrameAllocator
<1>1. Init => Allocator!Init
  BY DEF Init, Allocator!Init
<1>2. IInv /\ [Next]_vars => [Allocator!Next]_<<total_frames, held>>
  <2> SUFFICES ASSUME IInv, [Next]_vars, UNCHANGED <<total_frames, held>> => FALSE
               PROVE  Allocator!Next
    OBVIOUS
  <2> USE PmmAssumption
  <2>1. ASSUME NEW c \in Callers, TakeBit(c) PROVE Allocator!Next
    <3>1. PICK bit \in WordBits(scan.idx) \ bitmap :
            held' = [held EXCEPT ![c] = @ \cup {bit}]
      BY <2>1 DEF TakeBit
    <3>2. scan.idx \in Nat /\ scan.idx < Words /\ Words \in Nat
      BY <2>1, WordsCover DEF TakeBit, IInv, TypeOK, Words
    <3>3. scan.idx * WORD >= 0 /\ scan.idx * WORD + WORD <= Words * WORD
      BY <3>2, FrameEnd
    <3>4. bit \in 0..(Words * WORD - 1)
      BY <3>2, <3>3 DEF WordBits
    <3>5. bit \in 0..(total_frames - 1)
      BY <3>1, <3>4, ClearBitIsFrame
    <3>6. total_frames \in Nat /\ {bit} = bit..(bit + 1 - 1) /\ bit + 1 <= total_frames
      BY <3>5 DEF IInv, TypeOK
    <3>7. bit \in Nat /\ held' = [held EXCEPT ![c] = @ \cup bit..(bit + 1 - 1)]
      BY <3>1, <3>5, <3>6
    <3>8. bit..(bit + 1 - 1) \cap bitmap = {}
      BY <3>1, <3>6
    <3>9. UNCHANGED geometry /\ 1 \in Nat \ {0}
      BY <2>1 DEF TakeBit
    <3>10. QED
      BY <3>6, <3>7, <3>8, <3>9, TakeIsAlloc
  <2>2. ASSUME NEW c \in Callers, TakeRun(c) PROVE Allocator!Next
    <3>1. /\ RunStart = scan.idx - scan.run_len
          /\ RunStart + scan.count - 1 = scan.idx
          /\ RunStart \in Nat /\ scan.count \in Nat \ {0}
      BY <2>2 DEF TakeRun, InRunScan, RunStart, IInv, RunScanOK, TypeOK
    <3>2. RunStart + scan.count <= total_frames
      BY <2>2, <3>1 DEF TakeRun, IInv, TypeOK
    <3>3. RunStart..(RunStart + scan.count - 1) \cap bitmap = {}
      BY <2>2, <3>1 DEF TakeRun, InRunScan, IInv, RunScanOK, TypeOK
    <3>4. UNCHANGED geometry
          /\ held' = [held EXCEPT ![c] = @ \cup RunStart..(RunStart + scan.count - 1)]
      BY <2>2 DEF TakeRun
    <3>5. QED
      BY <3>1, <3>2, <3>3, <3>4, TakeIsAlloc
  <2>3. ASSUME NEW c \in Callers, NEW addr \in Nat, free_frame(c, addr)
        PROVE  Allocator!Next
    <3>1. UNCHANGED total_frames
      BY <2>3 DEF free_frame, geometry
    <3>2. held' # held
      BY <3>1
    <3>3. /\ IsFrame(addr) 
          /\ held' = [held EXCEPT ![c] = @ \ {FrameIndex(addr)}]
      BY <2>3, <3>2 DEF free_frame
    <3>4. FrameIndex(addr) \in held[c]
      BY <3>2, <3>3 DEF IInv, TypeOK
    <3>5. QED
      BY <3>1, <3>3, <3>4 DEF Allocator!Next, Allocator!Release
  <2>4. ASSUME NEW c \in Callers, AllocFrame(c) PROVE Allocator!Next
    BY <2>1, <2>4
       DEF AllocFrame, alloc_frame, FullWord, OutOfMemory, geometry
  <2>5. ASSUME NEW c \in Callers, AllocFrames(c) PROVE Allocator!Next
    BY <2>2, <2>5
       DEF AllocFrames, alloc_frames, UsedBit, ClearBit, NoRun, geometry
  <2>6. 0..(PHYS_MEM_END + PAGE_SIZE) \subseteq Nat
    OBVIOUS
  <2>7. ~CountWord /\ ~PrintMeminfo /\ ~UNCHANGED vars
    BY DEF CountWord, PrintMeminfo, vars, geometry
  <2>8. QED
    BY <2>3, <2>4, <2>5, <2>6, <2>7 DEF Next
<1>3. QED
  BY <1>1, <1>2, Inductive, PTL DEF Spec, IsFrameAllocator, Allocator!Spec

-----------------------------------------------------------------------------
(* meminfo                                                                  *)

\* What the unlocked loop has counted: never more than the bits of the words
\* it has passed; and when it has passed the last word, every padding bit,
\* for those are set whenever it looks.
Counted ==
  /\ meminfo.word <= Words
  /\ meminfo.raw <= meminfo.word * WORD
  /\ meminfo.word = Words => meminfo.raw >= padding_bits

\* The last word holds a frame's bit, so the padding is all in it.
LEMMA LastWord ==
  ASSUME IInv
  PROVE  /\ Words \in Nat /\ total_frames \in Nat /\ Words * WORD \in Nat
         /\ padding_bits = Words * WORD - total_frames /\ padding_bits \in Nat
         /\ Words = 0 => padding_bits = 0
         /\ Words * WORD - WORD <= total_frames
<1> USE PmmAssumption
<1>1. total_frames \in Nat /\ total_frames <= Words * WORD
  BY DEF IInv, TypeOK, GeometryOK
<1>2. Words \in Nat
  BY <1>1, WordsCover DEF Words
<1>3. WORD * Words <= total_frames + WORD - 1
  <2>1. total_frames + WORD - 1 \in Int
    BY <1>1
  <2>2. QED
    BY <2>1, DivMod DEF Words
<1>4. WORD * Words = Words * WORD /\ Words * WORD \in Nat
  BY <1>2
<1>5. Words = 0 => Words * WORD = 0
  OBVIOUS
<1> HIDE PmmAssumption
<1>6. WORD \in Nat \ {0}
  BY PmmAssumption
<1>7. QED
  BY <1>1, <1>2, <1>3, <1>4, <1>5, <1>6 DEF padding_bits

\* What one word adds to the count.
LEMMA WordCount ==
  ASSUME IInv, NEW i \in Nat, i < Words
  PROVE  /\ Cardinality(WordBits(i) \cap bitmap) \in 0..WORD
         /\ i + 1 = Words => Cardinality(WordBits(i) \cap bitmap) >= padding_bits
<1> DEFINE lo == i * WORD
           counted == WordBits(i) \cap bitmap
<1>1. lo \in Nat /\ WORD \in Nat \ {0}
  BY PmmAssumption
<1>2. WordBits(i) = lo..(lo + WORD - 1)
  BY DEF WordBits
<1> HIDE DEF lo
<1>3. IsFiniteSet(WordBits(i)) /\ Cardinality(WordBits(i)) = WORD
  <2>1. lo + WORD - 1 \in Int /\ lo \in Int
    BY <1>1
  <2>2. QED
    BY <1>1, <1>2, <2>1, FS_Interval
<1>4. IsFiniteSet(counted) /\ Cardinality(counted) <= WORD
  BY <1>3, FS_Subset
<1>5. Cardinality(counted) \in Nat
  BY <1>4, FS_CardinalityType
<1>6. ASSUME i + 1 = Words PROVE Cardinality(counted) >= padding_bits
  <2> DEFINE top == Words * WORD
             spare == total_frames..(top - 1)
  <2>1. /\ top = lo + WORD /\ top \in Nat /\ total_frames \in Nat
        /\ top - WORD <= total_frames /\ padding_bits = top - total_frames /\ padding_bits \in Nat
    <3>1. (i + 1) * WORD = i * WORD + WORD
      BY <1>1
    <3>2. top = lo + WORD
      BY <1>6, <3>1 DEF lo
    <3>3. QED
      BY <3>2, LastWord
  <2> HIDE DEF top
  <2>2. spare \subseteq counted
    BY <1>1, <1>2, <2>1 DEF IInv, PaddingSet, top
  <2>3. IsFiniteSet(spare) /\ Cardinality(spare) = padding_bits
    <3>1. total_frames \in Int /\ top - 1 \in Int
      BY <2>1
    <3>2. IsFiniteSet(spare) /\ Cardinality(spare) = IF total_frames > top - 1 THEN 0 ELSE (top - 1) - total_frames + 1
      BY <3>1, FS_Interval
    <3>3. QED
      BY <2>1, <3>2
  <2> HIDE DEF spare, counted
  <2>4. Cardinality(spare) <= Cardinality(counted)
    BY <1>4, <2>2, FS_Subset
  <2>5. QED
    BY <1>5, <2>1, <2>3, <2>4
<1>7. QED
  BY <1>1, <1>4, <1>5, <1>6

\* The allocator's steps leave the count alone: what they set or clear below
\* the word in hand is not looked at again.
LEMMA CountedNext ==
  ASSUME IInv, Counted, [Next]_vars
  PROVE  Counted'
<1>1. /\ meminfo.word \in Nat /\ meminfo.raw \in Nat /\ WORD \in Nat \ {0}
      /\ meminfo.word <= Words /\ Words \in Nat /\ padding_bits \in Nat
  BY LastWord, PmmAssumption DEF IInv, TypeOK, Counted
<1>2. UNCHANGED <<total_frames, Words, padding_bits>>
  <2>1. UNCHANGED total_frames
    BY DEF Next, AllocFrame, alloc_frame, FullWord, TakeBit, OutOfMemory, AllocFrames, alloc_frames,
           UsedBit, ClearBit, TakeRun, NoRun, free_frame, CountWord, PrintMeminfo, geometry, vars
  <2>2. QED
    BY <2>1 DEF Words, padding_bits
<1>3. CASE UNCHANGED meminfo
  BY <1>2, <1>3 DEF Counted
<1>4. CASE CountWord
  <2> DEFINE i == meminfo.word
             n == Cardinality(WordBits(i) \cap bitmap)
  <2>1. i < Words /\ meminfo'.word = i + 1 /\ meminfo'.raw = meminfo.raw + n
    BY <1>4 DEF CountWord
  <2>2. n \in 0..WORD /\ (i + 1 = Words => n >= padding_bits)
    BY <1>1, <2>1, WordCount
  <2>3. (i + 1) * WORD = i * WORD + WORD /\ i * WORD \in Nat
    BY <1>1
  <2> HIDE DEF n
  <2>4. meminfo.raw <= i * WORD
    BY DEF Counted
  <2>5. meminfo'.raw <= (i + 1) * WORD
    BY <1>1, <2>1, <2>2, <2>3, <2>4
  <2>6. meminfo'.word <= Words
    BY <1>1, <2>1
  <2>7. meminfo'.word = Words => meminfo'.raw >= padding_bits
    BY <1>1, <2>1, <2>2
  <2>8. QED
    BY <1>2, <2>1, <2>5, <2>6, <2>7 DEF Counted
<1>5. CASE PrintMeminfo
  <2>1. meminfo'.word = 0 /\ meminfo'.raw = 0
    BY <1>5 DEF PrintMeminfo
  <2>2. 0 * WORD = 0 /\ (Words = 0 => padding_bits = 0)
    BY <1>1, LastWord
  <2>3. QED
    BY <1>1, <1>2, <2>1, <2>2 DEF Counted
<1>6. QED
  BY <1>3, <1>4, <1>5
     DEF Next, AllocFrame, alloc_frame, FullWord, TakeBit, OutOfMemory, AllocFrames, alloc_frames,
         UsedBit, ClearBit, TakeRun, NoRun, free_frame, vars

\* Whatever the allocator does while cmd_meminfo reads the bitmap without
\* pmm_lock, the unsigned subtractions that follow the loop do not wrap.
THEOREM MeminfoNeverWrapsHolds == Spec => []MeminfoNeverWraps
<1>1. Init => IInv
  BY InitInv
<1>2. IInv /\ Init => Counted
  <2> SUFFICES ASSUME IInv, Init PROVE Counted
    OBVIOUS
  <2>1. meminfo.word = 0 /\ meminfo.raw = 0
    BY DEF Init
  <2>2. /\ WORD \in Nat /\ 0 * WORD = 0 /\ Words \in Nat /\ padding_bits \in Nat
        /\ (Words = 0 => padding_bits = 0)
    BY LastWord, PmmAssumption
  <2>3. QED
    BY <2>1, <2>2 DEF Counted
<1>3. IInv /\ Counted /\ [Next]_vars => IInv' /\ Counted'
  BY NextInv, CountedNext
<1>4. IInv /\ Counted => MeminfoNeverWraps
  <2> SUFFICES ASSUME IInv, Counted, meminfo.word = Words PROVE used_frames \in 0..total_frames
    BY DEF MeminfoNeverWraps
  <2>1. /\ meminfo.raw \in Nat /\ padding_bits \in Nat /\ total_frames \in Nat /\ Words * WORD \in Nat
        /\ padding_bits = Words * WORD - total_frames
    BY LastWord DEF IInv, TypeOK
  <2>2. meminfo.raw >= padding_bits /\ meminfo.raw <= Words * WORD
    BY DEF Counted
  <2>3. QED
    BY <2>1, <2>2 DEF used_frames
<1>5. QED
  BY <1>1, <1>2, <1>3, <1>4, PTL DEF Spec
=============================================================================
