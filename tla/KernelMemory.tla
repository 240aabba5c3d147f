---------------------------- MODULE KernelMemory ----------------------------
(***************************************************************************)
(* The three allocators that sit on the PMM and the page tables: kmalloc's *)
(* bump heap, dma_alloc/dma_free with the reclaimed reservation, and       *)
(* newlib's _sbrk in both directions, called by several cores at once.     *)
(*                                                                         *)
(* The page tables are used as AddressSpace describes them: a map succeeds *)
(* as a whole or fails as a whole (it needs table frames, which are not    *)
(* counted here, so it may fail at any time).  The PMM is used as          *)
(* FrameAllocator describes it.  heap_lock and newlib_lock are held across *)
(* calls of both; dma_lock only around the bump pointer, so a critical     *)
(* section under it is one step.                                           *)
(***************************************************************************)
EXTENDS Integers, FiniteSets

CONSTANTS
  PAGE_SIZE, HEAP_ALIGN,
  HEAP_BASE, HEAP_MAX_SIZE,                \* kmalloc's window, in bytes
  DMA_BASE, DMA_MAX_SIZE,                  \* dma_alloc's window
  NEWLIB_HEAP_BASE, NEWLIB_HEAP_MAX_SIZE,  \* _sbrk's window
  LastFrame,     \* frames are numbered from 1; 0 is alloc_frame's failure
  Cores, Nobody,
  KmallocSizes, DmaSizes, Increments,      \* what the callers ask for
  MaxCalls       \* bound: calls a core makes

ASSUME KernelMemoryAssumption ==
  /\ {PAGE_SIZE, HEAP_ALIGN} \subseteq Nat \ {0}
  /\ PAGE_SIZE % HEAP_ALIGN = 0
  /\ {HEAP_BASE, DMA_BASE, NEWLIB_HEAP_BASE} \subseteq Nat
  /\ {HEAP_MAX_SIZE, DMA_MAX_SIZE, NEWLIB_HEAP_MAX_SIZE} \subseteq Nat
  /\ \A b \in {HEAP_BASE, DMA_BASE, NEWLIB_HEAP_BASE, HEAP_MAX_SIZE, DMA_MAX_SIZE} :
       b % PAGE_SIZE = 0
  /\ HEAP_BASE + HEAP_MAX_SIZE <= DMA_BASE
  /\ DMA_BASE + DMA_MAX_SIZE <= NEWLIB_HEAP_BASE
  /\ LastFrame \in Nat /\ MaxCalls \in Nat
  /\ KmallocSizes \subseteq Nat /\ DmaSizes \subseteq Nat /\ Increments \subseteq Int
  /\ Nobody \notin Cores

VARIABLES
  free,          \* frames the PMM has free
  vm,            \* page number -> frame, 0 for none: the mapping
  mmu_lock, heap_lock, newlib_lock,
  bump_ptr, heap_end,                 \* kmalloc
  dma_bump_ptr,                       \* dma_alloc
  curr_brk, CURR_NEWLIB_HEAP_END,     \* _sbrk
  call,          \* core -> the call it is in
  calls,         \* core -> calls it has begun
  blocks,        \* history: <<start, end>> of every kmalloc result
  buffers,       \* history: the DMA buffers handed out and not yet freed
  stale          \* history: the DMA buffers freed

heap == <<bump_ptr, heap_end, blocks>>
dma == <<dma_bump_ptr, buffers, stale>>
newlib == <<curr_brk, CURR_NEWLIB_HEAP_END>>
locks == <<mmu_lock, heap_lock, newlib_lock>>
vars == <<free, vm, mmu_lock, heap_lock, newlib_lock, bump_ptr, heap_end, dma_bump_ptr,
          curr_brk, CURR_NEWLIB_HEAP_END, call, calls, blocks, buffers, stale>>

Frames == 1..LastFrame
LastPage == (NEWLIB_HEAP_BASE + NEWLIB_HEAP_MAX_SIZE) \div PAGE_SIZE
PageNumbers == 0..LastPage

round_up(value, align) == ((value + align - 1) \div align) * align
PageOf(va) == va \div PAGE_SIZE

\* A call: where it is, its argument, and the range it works on: `n` pages at
\* `va` backed by the frames from `phys` on, `i` of them already freed.
Returned == [fn |-> "none", pc |-> "none", arg |-> 0,
             va |-> 0, n |-> 0, phys |-> 0, i |-> 0]

Enter(c, fn, pc, arg, va, n) ==
  /\ call[c] = Returned
  /\ calls[c] < MaxCalls
  /\ call' = [call EXCEPT ![c] = [fn |-> fn, pc |-> pc, arg |-> arg,
                                  va |-> va, n |-> n, phys |-> 0, i |-> 0]]
  /\ calls' = [calls EXCEPT ![c] = @ + 1]

\* A call that returns at once, its check having failed.
EnterAndReturn(c) ==
  /\ call[c] = Returned
  /\ calls[c] < MaxCalls
  /\ calls' = [calls EXCEPT ![c] = @ + 1]
  /\ UNCHANGED call

At(c, fn, pc) == call[c].fn = fn /\ call[c].pc = pc
Goto(c, pc) == call' = [call EXCEPT ![c].pc = pc] /\ UNCHANGED calls
Return(c) == call' = [call EXCEPT ![c] = Returned] /\ UNCHANGED calls

\* panic: the core prints and waits for ever.
Panic(c) == call' = [call EXCEPT ![c] = [Returned EXCEPT !.pc = "panic"]] /\ UNCHANGED calls

Init ==
  /\ free = Frames
  /\ vm = [p \in PageNumbers |-> 0]
  /\ mmu_lock = Nobody /\ heap_lock = Nobody /\ newlib_lock = Nobody
  /\ bump_ptr = HEAP_BASE /\ heap_end = HEAP_BASE
  /\ dma_bump_ptr = DMA_BASE
  /\ curr_brk = NEWLIB_HEAP_BASE /\ CURR_NEWLIB_HEAP_END = NEWLIB_HEAP_BASE
  /\ call = [c \in Cores |-> Returned]
  /\ calls = [c \in Cores |-> 0]
  /\ blocks = {} /\ buffers = {} /\ stale = {}

-----------------------------------------------------------------------------
(* The calls into the PMM and the page tables that the allocators share *)

\* alloc_frame and alloc_frames: the first n free frames in a row, to be mapped at va.
Allocated(c, va, n) ==
  /\ \E s \in Frames :
       /\ s..(s + n - 1) \subseteq free
       /\ \A r \in 1..(s - 1) : ~(r..(r + n - 1) \subseteq free)
       /\ free' = free \ (s..(s + n - 1))
       /\ call' = [call EXCEPT ![c].pc = "map", ![c].va = va, ![c].phys = s, ![c].i = 0]
  /\ UNCHANGED calls

NoRun(n) == \A s \in Frames : ~(s..(s + n - 1) \subseteq free)

\* map: mmu_lock is taken, and other cores' PMM calls interleave until the end.
MapBegins(c) ==
  /\ call[c].pc = "map"
  /\ mmu_lock = Nobody
  /\ mmu_lock' = c
  /\ Goto(c, "mapping")
  /\ UNCHANGED <<free, vm, heap_lock, newlib_lock, heap, dma, newlib>>

Mapped(c) ==
  LET first == PageOf(call[c].va)
  IN vm' = [p \in PageNumbers |->
              IF p \in first..(first + call[c].n - 1)
              THEN call[c].phys + (p - first) ELSE vm[p]]

Unmapped(c) ==
  LET first == PageOf(call[c].va)
  IN vm' = [p \in PageNumbers |->
              IF p \in first..(first + call[c].n - 1) THEN 0 ELSE vm[p]]

MapEnds(c, fn) == At(c, fn, "mapping") /\ mmu_lock' = Nobody

\* translate, then unmap, each under mmu_lock.
Translate(c) ==
  /\ call[c].pc = "translate"
  /\ mmu_lock = Nobody
  /\ vm[PageOf(call[c].va)] # 0
  /\ call' = [call EXCEPT ![c].pc = "unmap", ![c].phys = vm[PageOf(call[c].va)], ![c].i = 0]
  /\ UNCHANGED <<free, vm, locks, heap, dma, newlib, calls>>

Unmap(c) ==
  /\ call[c].pc = "unmap"
  /\ mmu_lock = Nobody
  /\ Unmapped(c)
  /\ Goto(c, "free")
  /\ UNCHANGED <<free, locks, heap, dma, newlib>>

FreesNext(c) == call[c].pc = "free" /\ call[c].i < call[c].n
FreedAll(c, fn) == At(c, fn, "free") /\ call[c].i = call[c].n

\* free_frame(phys + i * PAGE_SIZE)
FreeFrame(c) ==
  /\ FreesNext(c)
  /\ free' = free \cup {call[c].phys + call[c].i}
  /\ call' = [call EXCEPT ![c].i = @ + 1]
  /\ UNCHANGED <<vm, locks, heap, dma, newlib, calls>>

-----------------------------------------------------------------------------
(* kmalloc *)

Aligned(size) == round_up(size, HEAP_ALIGN)
kmalloc_end(c) == bump_ptr + Aligned(call[c].arg)

kmalloc(c, size) ==
  /\ Enter(c, "kmalloc", "lock", size, 0, 1)
  /\ UNCHANGED <<free, vm, locks, heap, dma, newlib>>

KmallocExhausted(c) ==
  /\ At(c, "kmalloc", "lock")
  /\ heap_lock = Nobody
  /\ kmalloc_end(c) > HEAP_BASE + HEAP_MAX_SIZE
  /\ Panic(c)
  /\ UNCHANGED <<free, vm, locks, heap, dma, newlib>>

KmallocLocks(c) ==
  /\ At(c, "kmalloc", "lock")
  /\ heap_lock = Nobody
  /\ kmalloc_end(c) <= HEAP_BASE + HEAP_MAX_SIZE
  /\ heap_lock' = c
  /\ Goto(c, "grow")
  /\ UNCHANGED <<free, vm, mmu_lock, newlib_lock, heap, dma, newlib>>

KmallocFrame(c) ==
  /\ At(c, "kmalloc", "grow")
  /\ heap_end < kmalloc_end(c)
  /\ Allocated(c, heap_end, 1)
  /\ UNCHANGED <<vm, locks, heap, dma, newlib>>

KmallocOutOfFrames(c) ==
  /\ At(c, "kmalloc", "grow")
  /\ heap_end < kmalloc_end(c)
  /\ NoRun(1)
  /\ heap_lock' = Nobody
  /\ Panic(c)
  /\ UNCHANGED <<free, vm, mmu_lock, newlib_lock, heap, dma, newlib>>

\* map's result is not looked at: heap_end moves on either way.
KmallocMapEnds(c) ==
  /\ MapEnds(c, "kmalloc")
  /\ Mapped(c) \/ UNCHANGED vm
  /\ heap_end' = heap_end + PAGE_SIZE
  /\ Goto(c, "grow")
  /\ UNCHANGED <<free, heap_lock, newlib_lock, bump_ptr, blocks, dma, newlib>>

\* Fault: bump_ptr is advanced by the size asked for, not the rounded one.
BumpUnaligned(c) ==
  /\ At(c, "kmalloc", "grow")
  /\ heap_end >= kmalloc_end(c)
  /\ blocks' = blocks \cup {<<bump_ptr, kmalloc_end(c)>>}
  /\ bump_ptr' = bump_ptr + call[c].arg
  /\ heap_lock' = Nobody
  /\ Return(c)
  /\ UNCHANGED <<free, vm, mmu_lock, newlib_lock, heap_end, dma, newlib>>

KmallocReturns(c) ==
  /\ At(c, "kmalloc", "grow")
  /\ heap_end >= kmalloc_end(c)
  /\ blocks' = blocks \cup {<<bump_ptr, kmalloc_end(c)>>}
  /\ bump_ptr' = kmalloc_end(c)
  /\ heap_lock' = Nobody
  /\ Return(c)
  /\ UNCHANGED <<free, vm, mmu_lock, newlib_lock, heap_end, dma, newlib>>

-----------------------------------------------------------------------------
(* dma_alloc and dma_free *)

page_count(size) == (size + PAGE_SIZE - 1) \div PAGE_SIZE

dma_alloc(c, size) ==
  LET aligned_size == page_count(size) * PAGE_SIZE
  IN /\ IF dma_bump_ptr + aligned_size > DMA_BASE + DMA_MAX_SIZE
        THEN EnterAndReturn(c) /\ UNCHANGED dma_bump_ptr
        ELSE /\ Enter(c, "dma_alloc", "frames", size, dma_bump_ptr, page_count(size))
             /\ dma_bump_ptr' = dma_bump_ptr + aligned_size
     /\ UNCHANGED <<free, vm, locks, heap, buffers, stale, newlib>>

DmaFrames(c) ==
  /\ At(c, "dma_alloc", "frames")
  /\ call[c].n > 0
  /\ Allocated(c, call[c].va, call[c].n)
  /\ UNCHANGED <<vm, locks, heap, dma, newlib>>

DmaNoFrames(c) ==
  /\ At(c, "dma_alloc", "frames")
  /\ call[c].n = 0 \/ NoRun(call[c].n)
  /\ Goto(c, "reclaim")
  /\ UNCHANGED <<free, vm, locks, heap, dma, newlib>>

DmaMapped(c) ==
  /\ MapEnds(c, "dma_alloc")
  /\ Mapped(c)
  /\ buffers' = buffers \cup {[va |-> call[c].va, n |-> call[c].n, phys |-> call[c].phys]}
  /\ Return(c)
  /\ UNCHANGED <<free, heap_lock, newlib_lock, heap, dma_bump_ptr, stale, newlib>>

\* Fault: the frames of a failed map are not given back.
DmaLeaksFrames(c) ==
  /\ MapEnds(c, "dma_alloc")
  /\ Goto(c, "reclaim")
  /\ UNCHANGED <<free, vm, heap_lock, newlib_lock, heap, dma, newlib>>

DmaMapFails(c) ==
  /\ MapEnds(c, "dma_alloc")
  /\ Goto(c, "free")
  /\ UNCHANGED <<free, vm, heap_lock, newlib_lock, heap, dma, newlib>>

DmaFramesFreed(c) ==
  /\ FreedAll(c, "dma_alloc")
  /\ Goto(c, "reclaim")
  /\ UNCHANGED <<free, vm, locks, heap, dma, newlib>>

\* Fault: the bump pointer goes back whoever has reserved since.
ReclaimAlways(c) ==
  /\ At(c, "dma_alloc", "reclaim")
  /\ dma_bump_ptr' = call[c].va
  /\ Return(c)
  /\ UNCHANGED <<free, vm, locks, heap, buffers, stale, newlib>>

_dma_reclaim_va(c) ==
  /\ At(c, "dma_alloc", "reclaim")
  /\ dma_bump_ptr' = IF dma_bump_ptr = call[c].va + call[c].n * PAGE_SIZE
                     THEN call[c].va ELSE dma_bump_ptr
  /\ Return(c)
  /\ UNCHANGED <<free, vm, locks, heap, buffers, stale, newlib>>

\* The caller frees a buffer it was given, or one that was freed before.
dma_free(c, b) ==
  /\ Enter(c, "dma_free", "translate", b.phys, b.va, b.n)
  /\ buffers' = buffers \ {b}
  /\ stale' = stale \cup {b}
  /\ UNCHANGED <<free, vm, locks, heap, dma_bump_ptr, newlib>>

DmaNotMapped(c) ==
  /\ At(c, "dma_free", "translate")
  /\ mmu_lock = Nobody
  /\ vm[PageOf(call[c].va)] = 0
  /\ Return(c)
  /\ UNCHANGED <<free, vm, locks, heap, dma, newlib>>

DmaFreed(c) ==
  /\ FreedAll(c, "dma_free")
  /\ Return(c)
  /\ UNCHANGED <<free, vm, locks, heap, dma, newlib>>

-----------------------------------------------------------------------------
(* _sbrk; an increment of 0 only reads the break *)

_sbrk(c, incr) ==
  /\ Enter(c, "_sbrk", "lock", incr, 0, 1)
  /\ UNCHANGED <<free, vm, locks, heap, dma, newlib>>

sbrk_end(c) == curr_brk + call[c].arg

InWindow(end) ==
  end \in NEWLIB_HEAP_BASE..(NEWLIB_HEAP_BASE + NEWLIB_HEAP_MAX_SIZE)

SbrkRefused(c) ==
  /\ At(c, "_sbrk", "lock")
  /\ newlib_lock = Nobody
  /\ ~InWindow(sbrk_end(c))
  /\ Return(c)
  /\ UNCHANGED <<free, vm, locks, heap, dma, newlib>>

SbrkLocks(c) ==
  /\ At(c, "_sbrk", "lock")
  /\ newlib_lock = Nobody
  /\ InWindow(sbrk_end(c))
  /\ newlib_lock' = c
  /\ Goto(c, IF call[c].arg < 0 THEN "shrink" ELSE "grow")
  /\ UNCHANGED <<free, vm, mmu_lock, heap_lock, heap, dma, newlib>>

SbrkFrame(c) ==
  /\ At(c, "_sbrk", "grow")
  /\ CURR_NEWLIB_HEAP_END < sbrk_end(c)
  /\ Allocated(c, CURR_NEWLIB_HEAP_END, 1)
  /\ UNCHANGED <<vm, locks, heap, dma, newlib>>

\* Fault: it spins until a frame is free, with newlib_lock held.
SbrkWaits(c) ==
  /\ At(c, "_sbrk", "grow")
  /\ CURR_NEWLIB_HEAP_END < sbrk_end(c)
  /\ NoRun(1)
  /\ UNCHANGED vars

\* ENOMEM: the pages mapped so far stay for the next call.
SbrkOutOfFrames(c) ==
  /\ At(c, "_sbrk", "grow")
  /\ CURR_NEWLIB_HEAP_END < sbrk_end(c)
  /\ NoRun(1)
  /\ newlib_lock' = Nobody
  /\ Return(c)
  /\ UNCHANGED <<free, vm, mmu_lock, heap_lock, heap, dma, newlib>>

SbrkMapped(c) ==
  /\ MapEnds(c, "_sbrk")
  /\ Mapped(c)
  /\ CURR_NEWLIB_HEAP_END' = CURR_NEWLIB_HEAP_END + PAGE_SIZE
  /\ Goto(c, "grow")
  /\ UNCHANGED <<free, heap_lock, newlib_lock, heap, dma, curr_brk>>

SbrkMapFails(c) ==
  /\ MapEnds(c, "_sbrk")
  /\ free' = free \cup {call[c].phys}
  /\ newlib_lock' = Nobody
  /\ Return(c)
  /\ UNCHANGED <<vm, heap_lock, heap, dma, newlib>>

\* _free_sbrk: the last page goes, while the new break leaves it unused.
SbrkShrinks(c) ==
  /\ At(c, "_sbrk", "shrink")
  /\ CURR_NEWLIB_HEAP_END > round_up(sbrk_end(c), PAGE_SIZE)
  /\ call' = [call EXCEPT ![c].pc = "translate", ![c].va = CURR_NEWLIB_HEAP_END - PAGE_SIZE]
  /\ UNCHANGED <<free, vm, locks, heap, dma, newlib, calls>>

SbrkPageFreed(c) ==
  /\ FreedAll(c, "_sbrk")
  /\ CURR_NEWLIB_HEAP_END' = CURR_NEWLIB_HEAP_END - PAGE_SIZE
  /\ Goto(c, "shrink")
  /\ UNCHANGED <<free, vm, locks, heap, dma, curr_brk>>

SbrkReturns(c) ==
  /\ \/ At(c, "_sbrk", "grow") /\ CURR_NEWLIB_HEAP_END >= sbrk_end(c)
     \/ At(c, "_sbrk", "shrink") /\ CURR_NEWLIB_HEAP_END <= round_up(sbrk_end(c), PAGE_SIZE)
  /\ curr_brk' = sbrk_end(c)
  /\ newlib_lock' = Nobody
  /\ Return(c)
  /\ UNCHANGED <<free, vm, mmu_lock, heap_lock, heap, dma, CURR_NEWLIB_HEAP_END>>

-----------------------------------------------------------------------------
Calls(c) ==
  \/ \E size \in KmallocSizes : kmalloc(c, size)
  \/ \E size \in DmaSizes : dma_alloc(c, size)
  \/ \E b \in buffers \cup stale :
       (\A d \in Cores : ~(call[d].fn = "dma_free" /\ call[d].va = b.va)) /\ dma_free(c, b)
  \/ \E incr \in Increments : _sbrk(c, incr)

Step(c) ==
  \/ MapBegins(c) \/ Translate(c) \/ Unmap(c) \/ FreeFrame(c)
  \/ KmallocExhausted(c) \/ KmallocLocks(c)
  \/ KmallocFrame(c) \/ KmallocOutOfFrames(c) \/ KmallocMapEnds(c) \/ KmallocReturns(c)
  \/ DmaFrames(c) \/ DmaNoFrames(c) \/ DmaMapped(c) \/ DmaMapFails(c) \/ DmaFramesFreed(c)
  \/ _dma_reclaim_va(c) \/ DmaNotMapped(c) \/ DmaFreed(c)
  \/ SbrkRefused(c) \/ SbrkLocks(c) \/ SbrkFrame(c) \/ SbrkOutOfFrames(c) \/ SbrkMapped(c) \/ SbrkMapFails(c)
  \/ SbrkShrinks(c) \/ SbrkPageFreed(c) \/ SbrkReturns(c)

\* The end: no core has a call to make or to finish.
Finished == \A c \in Cores :
  call[c].pc = "panic" \/ (call[c] = Returned /\ calls[c] = MaxCalls)

Next ==
  \/ \E c \in Cores : Calls(c) \/ Step(c)
  \/ Finished /\ UNCHANGED vars

\* A core that is in a call goes on; whether it makes calls is its own affair.
Fairness == \A c \in Cores : WF_vars(Step(c))

Spec == Init /\ [][Next]_vars /\ Fairness

-----------------------------------------------------------------------------
TypeOK ==
  /\ free \subseteq Frames
  /\ vm \in [PageNumbers -> 0..LastFrame]
  /\ {mmu_lock, heap_lock, newlib_lock} \subseteq Cores \cup {Nobody}
  /\ bump_ptr \in HEAP_BASE..heap_end
  /\ heap_end \in HEAP_BASE..(HEAP_BASE + HEAP_MAX_SIZE)
  /\ dma_bump_ptr \in DMA_BASE..(DMA_BASE + DMA_MAX_SIZE)
  /\ curr_brk \in NEWLIB_HEAP_BASE..(NEWLIB_HEAP_BASE + NEWLIB_HEAP_MAX_SIZE)
  /\ calls \in [Cores -> 0..MaxCalls]
  /\ \A c \in Cores : call[c].n \in Nat /\ call[c].i \in 0..call[c].n

PagesOf(b) == PageOf(b.va)..(PageOf(b.va) + b.n - 1)

\* No frame is mapped twice, in one window or in two, and none is mapped while
\* the PMM could hand it out again: dma_free and _free_sbrk unmap before they
\* free, and no rollback leaves a page behind.
MappedFramesOwned ==
  /\ \A p \in PageNumbers : vm[p] \notin free
  /\ \A p, q \in PageNumbers : vm[p] # 0 /\ vm[p] = vm[q] => p = q

\* dma.h: a buffer is backed by consecutive frames, for as long as its caller
\* has it, whatever the other cores' failed allocations give back.
DmaBuffersBacked ==
  \A b \in buffers : \A p \in PagesOf(b) : vm[p] = b.phys + (p - PageOf(b.va))

Reservations ==
  {[va |-> b.va, n |-> b.n] : b \in buffers}
  \cup {[va |-> call[c].va, n |-> call[c].n] : c \in {d \in Cores : call[d].fn = "dma_alloc"}}

\* "otherwise resetting the bump pointer would corrupt a concurrent
\* reservation" (_dma_reclaim_va): live buffers and reservations under way
\* never overlap, and all lie below the bump pointer.
ReservationsDisjoint ==
  /\ \A r, s \in Reservations : r # s => PagesOf(r) \cap PagesOf(s) = {}
  /\ \A r \in Reservations : r.n > 0 => r.va + r.n * PAGE_SIZE <= dma_bump_ptr
  /\ \A c, d \in Cores :
       c # d /\ call[c].fn = "dma_alloc" /\ call[d].fn = "dma_alloc"
         => PagesOf(call[c]) \cap PagesOf(call[d]) = {}

\* newlib may use every byte below the break: outside a call exactly the pages
\* up to CURR_NEWLIB_HEAP_END are mapped, and the break is not above it, after
\* failed and partly failed calls too.
BreakBacked ==
  newlib_lock = Nobody =>
    /\ curr_brk <= CURR_NEWLIB_HEAP_END
    /\ \A p \in PageOf(NEWLIB_HEAP_BASE)..LastPage :
         vm[p] # 0 <=> p < PageOf(CURR_NEWLIB_HEAP_END)

\* kmalloc never gives out a byte twice and keeps its alignment.
HeapBlocksDisjoint ==
  /\ \A b, d \in blocks : b # d => b[2] <= d[1] \/ d[2] <= b[1]
  /\ \A b \in blocks : b[1] % HEAP_ALIGN = 0 /\ b[2] <= heap_end

InHand(c) ==
  IF call[c].pc \in {"map", "mapping", "free"}
  THEN (call[c].phys + call[c].i)..(call[c].phys + call[c].n - 1) ELSE {}

Accounted == free \cup {vm[p] : p \in PageNumbers} \cup UNION {InHand(c) : c \in Cores}

\* No failed call loses a frame (dma_alloc's and _sbrk's error paths): every
\* frame is free, mapped, or about to be freed or mapped, but for one frame for
\* each heap page whose map failed.
NoFrameLost ==
  Cardinality(Frames \ Accounted) =
    Cardinality({p \in PageNumbers :
      HEAP_BASE <= p * PAGE_SIZE /\ p * PAGE_SIZE < heap_end /\ vm[p] = 0})

\* The three allocators share one pool of frames: each is in one place, no
\* mapping outlives its ownership, and no error path loses one.
FramesKept == TypeOK /\ MappedFramesOwned /\ NoFrameLost

\* A DMA buffer is its caller's alone and stays backed from dma_alloc to
\* dma_free, in whatever order buffers are given back and reservations fail.
DmaBuffersSound == DmaBuffersBacked /\ ReservationsDisjoint

\* What kmalloc and newlib hand out is theirs to use: disjoint blocks below
\* the mapped end, and a break whose pages are all there.
HeapsSound == BreakBacked /\ HeapBlocksDisjoint

\* Every call returns or panics: no core waits for ever for heap_lock,
\* newlib_lock or mmu_lock, whichever calls the others are in.
CallsReturn ==
  \A c \in Cores : call[c].fn # "none" ~> call[c].fn = "none"
=============================================================================
