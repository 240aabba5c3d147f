------------------------- MODULE KernelMemoryProofs -------------------------
(***************************************************************************)
(* Proofs about KernelMemory, for every number of cores, frames and calls  *)
(* and every layout of the three windows that its assumption allows.       *)
(*                                                                         *)
(* The properties are not inductive: between the unmap and the last        *)
(* free_frame of a dma_free, or between a failed map and the rollback, the *)
(* frames are in nobody's table and in nobody's pool.  IInv therefore says *)
(* of each core where it is and what it holds there (Position): the lock   *)
(* of its allocator, the page next to that allocator's end, the empty or   *)
(* backed pages it works on.  Regions orders the DMA window, Mappings ties *)
(* the page tables to the three allocators' own numbers, FramesApart gives *)
(* every frame one place.  Each action has one lemma; the last section     *)
(* puts them together.                                                     *)
(***************************************************************************)
EXTENDS KernelMemory, FiniteSetTheorems, TLAPS

-----------------------------------------------------------------------------
(* Pages.  PageOf is a division by an unknown page size: everything the     *)
(* proofs need of it is stated here, and it stays folded from then on.      *)

\* An address at which a page begins.
OnPage(a) == a \in Nat /\ PageOf(a) \in Nat /\ a = PageOf(a) * PAGE_SIZE

\* Euclidean division, in the form the provers can use.
LEMMA Division ==
  ASSUME NEW a \in Int, NEW d \in Nat \ {0}
  PROVE  a \div d \in Int /\ a % d \in 0..d - 1 /\ a = d * (a \div d) + (a % d)
OBVIOUS

\* Order and sum of multiples of one divisor.
LEMMA Multiples ==
  ASSUME NEW j \in Int, NEW k \in Int, NEW d \in Nat \ {0}
  PROVE  /\ j < k => j * d + d <= k * d
         /\ j * d <= k * d <=> j <= k
         /\ j * d < k * d <=> j < k
         /\ (j + k) * d = j * d + k * d
<1>1. (j + k) * d = j * d + k * d
  OBVIOUS
<1>2. ASSUME NEW m \in Int, NEW n \in Int, m < n PROVE m * d + d <= n * d
  <2>1. n - m - 1 \in Nat
    BY <1>2
  <2>2. (n - m - 1) * d >= 0
    BY <2>1
  <2>3. (n - m - 1) * d = n * d - m * d - d
    OBVIOUS
  <2>4. QED
    BY <2>2, <2>3
<1>3. QED
  BY <1>1, <1>2

\* A multiple plus a remainder divides back into the two.
LEMMA Quotient ==
  ASSUME NEW d \in Nat \ {0}, NEW q \in Int, NEW r \in 0..d - 1
  PROVE  (q * d + r) \div d = q /\ (q * d + r) % d = r
<1> DEFINE a == q * d + r
<1>1. a \in Int
  OBVIOUS
<1> HIDE DEF a
<1>2. a \div d \in Int /\ a % d \in 0..d - 1 /\ a = d * (a \div d) + (a % d)
  BY <1>1, Division
<1>3. a = q * d + r
  BY DEF a
<1>4. ~(q < a \div d) /\ ~(a \div d < q)
  <2>1. q < a \div d => q * d + d <= (a \div d) * d
    BY <1>2, Multiples
  <2>2. a \div d < q => (a \div d) * d + d <= q * d
    BY <1>2, Multiples
  <2>3. (a \div d) * d = d * (a \div d) /\ (a \div d) * d \in Int /\ q * d \in Int
    BY <1>2
  <2>4. QED
    BY <1>2, <1>3, <2>1, <2>2, <2>3
<1>5. a \div d = q
  <2>1. \A x, y \in Int : ~(x < y) /\ ~(y < x) => x = y
    OBVIOUS
  <2>2. QED
    BY <1>2, <1>4, <2>1
<1>6. a % d = r
  <2>1. d * q = q * d /\ q * d \in Int
    OBVIOUS
  <2>2. QED
    BY <1>2, <1>3, <1>5, <2>1
<1>7. QED
  BY <1>5, <1>6 DEF a

\* What is assumed of the two alignments.
LEMMA PageSize == PAGE_SIZE \in Nat \ {0} /\ HEAP_ALIGN \in Nat \ {0} /\ PAGE_SIZE % HEAP_ALIGN = 0
BY KernelMemoryAssumption

\* The page of an address is the one the address lies in.
LEMMA PageOfNat ==
  ASSUME NEW a \in Nat
  PROVE  PageOf(a) \in Nat /\ PageOf(a) * PAGE_SIZE <= a /\ a < PageOf(a) * PAGE_SIZE + PAGE_SIZE
<1>1. PageOf(a) \in Int /\ a % PAGE_SIZE \in 0..PAGE_SIZE - 1 /\ a = PAGE_SIZE * PageOf(a) + (a % PAGE_SIZE)
  BY Division, PageSize DEF PageOf
<1>2. PAGE_SIZE * PageOf(a) = PageOf(a) * PAGE_SIZE /\ PageOf(a) * PAGE_SIZE \in Int
  BY <1>1, PageSize
<1>3. PageOf(a) < 0 => PageOf(a) * PAGE_SIZE + PAGE_SIZE <= 0 * PAGE_SIZE
  BY <1>1, Multiples, PageSize
<1>4. QED
  BY <1>1, <1>2, <1>3, PageSize

\* A page begins at every multiple of PAGE_SIZE.
LEMMA MultipleOnPage ==
  ASSUME NEW k \in Nat
  PROVE  OnPage(k * PAGE_SIZE) /\ PageOf(k * PAGE_SIZE) = k
<1>1. k * PAGE_SIZE + 0 = k * PAGE_SIZE /\ k * PAGE_SIZE \in Nat
  BY PageSize
<1>2. PageOf(k * PAGE_SIZE) = k
  BY <1>1, Quotient, PageSize DEF PageOf
<1>3. QED
  BY <1>1, <1>2 DEF OnPage

\* An address with no remainder begins a page.
LEMMA AlignedOnPage ==
  ASSUME NEW a \in Nat, a % PAGE_SIZE = 0
  PROVE  OnPage(a)
<1>1. PageOf(a) \in Nat
  BY PageOfNat
<1>2. a = PAGE_SIZE * PageOf(a) + (a % PAGE_SIZE)
  BY Division, PageSize DEF PageOf
<1>3. QED
  BY <1>1, <1>2, PageSize DEF OnPage

\* Comparing with the start of a page is comparing page numbers.
LEMMA PageOrder ==
  ASSUME NEW a \in Nat, NEW b, OnPage(b)
  PROVE  /\ a < b <=> PageOf(a) < PageOf(b)
         /\ b <= a <=> PageOf(b) <= PageOf(a)
<1> DEFINE j == PageOf(a)  k == PageOf(b)
<1>1. j \in Nat /\ j * PAGE_SIZE <= a /\ a < j * PAGE_SIZE + PAGE_SIZE
  BY PageOfNat
<1>2. k \in Nat /\ b = k * PAGE_SIZE
  BY DEF OnPage
<1> HIDE DEF j, k
<1>3. j < k => j * PAGE_SIZE + PAGE_SIZE <= k * PAGE_SIZE
  BY <1>1, <1>2, Multiples, PageSize
<1>4. k <= j => k * PAGE_SIZE <= j * PAGE_SIZE
  BY <1>1, <1>2, Multiples, PageSize
<1>5. j * PAGE_SIZE \in Nat /\ k * PAGE_SIZE \in Nat
  BY <1>1, <1>2, PageSize
<1>6. a < b <=> j < k
  BY <1>1, <1>2, <1>3, <1>4, <1>5, PageSize
<1>7. QED
  BY <1>1, <1>2, <1>5, <1>6 DEF j, k

\* n pages after the start of a page another page begins.
LEMMA PagesFurther ==
  ASSUME NEW a, OnPage(a), NEW n \in Int, 0 <= PageOf(a) + n
  PROVE  OnPage(a + n * PAGE_SIZE) /\ PageOf(a + n * PAGE_SIZE) = PageOf(a) + n
<1>1. PageOf(a) \in Nat /\ a = PageOf(a) * PAGE_SIZE
  BY DEF OnPage
<1>2. (PageOf(a) + n) * PAGE_SIZE = a + n * PAGE_SIZE
  BY <1>1, Multiples, PageSize
<1>3. PageOf(a) + n \in Nat
  BY <1>1
<1>4. QED
  BY <1>2, <1>3, MultipleOnPage

\* heap_end and CURR_NEWLIB_HEAP_END grow by a page at a time.
LEMMA NextPage ==
  ASSUME NEW a, OnPage(a)
  PROVE  OnPage(a + PAGE_SIZE) /\ PageOf(a + PAGE_SIZE) = PageOf(a) + 1
<1>1. 1 * PAGE_SIZE = PAGE_SIZE /\ 0 <= PageOf(a) + 1
  BY PageSize DEF OnPage
<1>2. QED
  BY <1>1, PagesFurther

\* _free_sbrk goes back by a page at a time.
LEMMA PreviousPage ==
  ASSUME NEW a \in Int, OnPage(a + PAGE_SIZE), 0 <= a
  PROVE  OnPage(a) /\ PageOf(a + PAGE_SIZE) = PageOf(a) + 1
<1> DEFINE b == a + PAGE_SIZE
<1>1. OnPage(b) /\ b \in Nat /\ PageOf(b) \in Nat /\ b = PageOf(b) * PAGE_SIZE
  BY DEF OnPage
<1>2. 0 < PageOf(b)
  <2>1. PageOf(b) = 0 => b = 0
    BY <1>1, PageSize
  <2>2. QED
    BY <1>1, <2>1, PageSize
<1>3. b + (-1) * PAGE_SIZE = a
  BY PageSize
<1> HIDE DEF b
<1>4. OnPage(b + (-1) * PAGE_SIZE) /\ PageOf(b + (-1) * PAGE_SIZE) = PageOf(b) + (-1)
  BY <1>1, <1>2, PagesFurther
<1>5. QED
  BY <1>1, <1>3, <1>4 DEF b

\* round_up returns a multiple of the alignment, not below its argument.
LEMMA RoundedUp ==
  ASSUME NEW v \in Int, NEW d \in Nat \ {0}
  PROVE  /\ round_up(v, d) \in Int /\ v <= round_up(v, d)
         /\ \E k \in Int : round_up(v, d) = k * d
<1> DEFINE w == v + d - 1
<1>1. w \in Int
  OBVIOUS
<1>2. w \div d \in Int /\ w % d \in 0..d - 1 /\ w = d * (w \div d) + (w % d)
  BY <1>1, Division
<1>3. round_up(v, d) = (w \div d) * d
  BY DEF round_up
<1>4. w = v + d - 1
  OBVIOUS
<1> HIDE DEF w
<1>5. (w \div d) * d = d * (w \div d) /\ (w \div d) * d \in Int
  BY <1>2
<1>6. v <= (w \div d) * d
  BY <1>2, <1>4, <1>5
<1>7. QED
  BY <1>2, <1>3, <1>5, <1>6

\* Adding rounded sizes keeps an aligned address aligned.
LEMMA MultiplesAdd ==
  ASSUME NEW d \in Nat \ {0}, NEW a \in Int, a % d = 0, NEW k \in Int
  PROVE  (a + k * d) % d = 0
<1>1. a \div d \in Int /\ a = d * (a \div d)
  <2>1. a \div d \in Int /\ a = d * (a \div d) + (a % d)
    BY Division
  <2>2. d * (a \div d) \in Int
    BY <2>1
  <2>3. QED
    BY <2>1, <2>2
<1> DEFINE q == a \div d
<1>2. (q + k) * d = q * d + k * d
  BY <1>1, Multiples
<1>3. d * q = q * d /\ q * d \in Int /\ k * d \in Int
  BY <1>1
<1>4. a + k * d = (q + k) * d + 0
  BY <1>1, <1>2, <1>3
<1>5. ((q + k) * d + 0) % d = 0
  BY <1>1, Quotient
<1>6. QED
  BY <1>4, <1>5

\* The start of a page has the alignment of the heap.
LEMMA AlignedByPage ==
  ASSUME NEW a, OnPage(a)
  PROVE  a % HEAP_ALIGN = 0
<1> DEFINE q == PAGE_SIZE \div HEAP_ALIGN
<1>1. q \in Int /\ PAGE_SIZE = HEAP_ALIGN * q + (PAGE_SIZE % HEAP_ALIGN)
  BY Division, PageSize
<1> HIDE DEF q
<1>2. PAGE_SIZE = q * HEAP_ALIGN
  BY <1>1, PageSize
<1>3. PageOf(a) \in Nat /\ a = PageOf(a) * (q * HEAP_ALIGN)
  BY <1>2 DEF OnPage
<1>4. PICK m \in Int : a = m * HEAP_ALIGN + 0
  <2>1. \A x, y, z \in Int : x * (y * z) = (x * y) * z + 0 /\ x * y \in Int
    OBVIOUS
  <2>2. PageOf(a) \in Int /\ HEAP_ALIGN \in Int
    BY <1>3, PageSize
  <2>3. a = (PageOf(a) * q) * HEAP_ALIGN + 0 /\ PageOf(a) * q \in Int
    BY <1>1, <1>3, <2>1, <2>2, Zenon
  <2>4. QED
    BY <2>3, Zenon
<1>5. (m * HEAP_ALIGN + 0) % HEAP_ALIGN = 0
  <2>1. HEAP_ALIGN \in Nat \ {0} /\ 0 \in 0..HEAP_ALIGN - 1
    BY PageSize
  <2>2. QED
    BY <2>1, Quotient
<1>6. QED
  BY <1>4, <1>5
-----------------------------------------------------------------------------
(* The inductive invariant *)

\* The pages of a window.
Window(base, size) == PageOf(base)..(PageOf(base + size) - 1)
HeapPages == Window(HEAP_BASE, HEAP_MAX_SIZE)
DmaPages == Window(DMA_BASE, DMA_MAX_SIZE)
NewlibPages == PageOf(NEWLIB_HEAP_BASE)..LastPage

\* The first page past a range.
End(b) == PageOf(b.va) + b.n

\* A range none of whose pages is mapped; one backed by the frames from s on.
Unbacked(b) == \A p \in PagesOf(b) : vm[p] = 0
BackedBy(b, s) == \A p \in PagesOf(b) : vm[p] = s + (p - PageOf(b.va))

\* The types: those of TypeOK, the fields of a call, and the pages that the
\* three ends lie on.
CallRecords == [fn : {"none", "kmalloc", "dma_alloc", "dma_free", "_sbrk"},
                pc : {"none", "panic", "lock", "grow", "shrink", "map", "mapping", "frames", "reclaim",
                      "translate", "unmap", "free"},
                arg : Int, va : Nat, n : Nat, phys : 0..LastFrame, i : Nat]
Buffers == [va : Nat, n : Nat \ {0}, phys : Frames]

Types ==
  /\ TypeOK
  /\ call \in [Cores -> CallRecords]
  /\ OnPage(heap_end) /\ OnPage(dma_bump_ptr) /\ OnPage(CURR_NEWLIB_HEAP_END)
  /\ NEWLIB_HEAP_BASE <= CURR_NEWLIB_HEAP_END /\ PageOf(CURR_NEWLIB_HEAP_END) <= LastPage + 1
  /\ buffers \subseteq Buffers /\ stale \subseteq Buffers
  /\ blocks \subseteq Nat \X Nat

\* kmalloc: under heap_lock, within its window, at the page after heap_end.
InKmalloc(c) ==
  call[c].fn = "kmalloc" =>
    /\ call[c].pc \in {"lock", "grow", "map", "mapping"}
    /\ call[c].n = 1 /\ call[c].arg \in Nat
    /\ call[c].pc # "lock" => heap_lock = c /\ kmalloc_end(c) <= HEAP_BASE + HEAP_MAX_SIZE
    /\ call[c].pc \in {"map", "mapping"} =>
         call[c].va = heap_end /\ heap_end < kmalloc_end(c)

\* dma_alloc: its reservation is empty until the map ends.
InDmaAlloc(c) ==
  call[c].fn = "dma_alloc" =>
    /\ call[c].pc \in {"frames", "map", "mapping", "free", "reclaim"}
    /\ call[c].pc \in {"map", "mapping", "free"} => call[c].n > 0
    /\ Unbacked(call[c])

\* dma_free: its buffer is among the freed ones, and is backed or empty as a whole.
InDmaFree(c) ==
  call[c].fn = "dma_free" =>
    /\ call[c].pc \in {"translate", "unmap", "free"}
    /\ \E b \in stale : b.va = call[c].va /\ b.n = call[c].n
    /\ call[c].pc = "translate" => Unbacked(call[c]) \/ \E s \in Frames : BackedBy(call[c], s)
    /\ call[c].pc = "unmap" => BackedBy(call[c], call[c].phys)
    /\ call[c].pc = "free" => Unbacked(call[c])

\* _sbrk: under newlib_lock, within its window, at the page next to the end.
InSbrk(c) ==
  call[c].fn = "_sbrk" =>
    /\ call[c].pc \in {"lock", "grow", "map", "mapping", "shrink", "translate", "unmap", "free"}
    /\ call[c].n = 1
    /\ call[c].pc # "lock" => newlib_lock = c /\ InWindow(sbrk_end(c))
    /\ call[c].pc \in {"grow", "map", "mapping"} => curr_brk <= CURR_NEWLIB_HEAP_END
    /\ call[c].pc \in {"map", "mapping"} =>
         call[c].va = CURR_NEWLIB_HEAP_END /\ CURR_NEWLIB_HEAP_END < sbrk_end(c)
    /\ call[c].pc \in {"shrink", "translate", "unmap", "free"} => sbrk_end(c) <= CURR_NEWLIB_HEAP_END
    /\ call[c].pc \in {"translate", "unmap", "free"} =>
         call[c].va + PAGE_SIZE = CURR_NEWLIB_HEAP_END /\ sbrk_end(c) <= call[c].va
    /\ call[c].pc = "unmap" => vm[PageOf(call[c].va)] = call[c].phys

Idle(c) == call[c].fn = "none" => call[c].pc \in {"none", "panic"}

\* Where core c is.
Position(c) ==
  /\ Idle(c) /\ InKmalloc(c) /\ InDmaAlloc(c) /\ InDmaFree(c) /\ InSbrk(c)
  /\ call[c].pc \in {"map", "mapping", "unmap"} => call[c].i = 0
  /\ call[c].pc = "unmap" => call[c].phys # 0

\* The DMA window: what is handed out or reserved
OfDma == buffers \cup stale
Reserves(c) == call[c].fn = "dma_alloc"
InDmaWindow(b) == OnPage(b.va) /\ DMA_BASE <= b.va /\ b.va <= DMA_BASE + DMA_MAX_SIZE
                  /\ (b.n > 0 => End(b) <= PageOf(dma_bump_ptr))

Frees(c) == call[c].fn = "dma_free"

\* The ranges of the DMA window never meet, and lie below the bump pointer.
Regions ==
  /\ buffers \cap stale = {}
  /\ \A b \in OfDma : InDmaWindow(b)
  /\ \A c \in Cores : Reserves(c) => InDmaWindow(call[c])
  /\ \A b, d \in OfDma : b # d => PagesOf(b) \cap PagesOf(d) = {}
  /\ \A b \in OfDma, c \in Cores : Reserves(c) => PagesOf(b) \cap PagesOf(call[c]) = {}
  /\ \A c, d \in Cores : c # d /\ Reserves(c) /\ Reserves(d) => PagesOf(call[c]) \cap PagesOf(call[d]) = {}
  /\ \A c, d \in Cores : c # d /\ Frees(c) /\ Frees(d) => call[c].va # call[d].va

\* Core c is giving buffer b back.
Gives(c, b) == Frees(c) /\ call[c].va = b.va

\* The page tables agree with the allocators: nothing is mapped past heap_end
\* and dma_bump_ptr, buffers are backed, freed ones are empty once nobody is
\* giving them back, and newlib's pages are mapped up to its end but for the
\* one whose frame is about to be freed.
Mappings ==
  /\ \A p \in HeapPages : p >= PageOf(heap_end) => vm[p] = 0
  /\ \A p \in DmaPages : p >= PageOf(dma_bump_ptr) => vm[p] = 0
  /\ DmaBuffersBacked
  /\ \A b \in stale : (\A c \in Cores : ~Gives(c, b)) => Unbacked(b)
  /\ \A p \in NewlibPages :
       vm[p] # 0 <=> /\ p < PageOf(CURR_NEWLIB_HEAP_END)
                     /\ \A c \in Cores : At(c, "_sbrk", "free") => p # PageOf(call[c].va)
  /\ newlib_lock = Nobody => curr_brk <= CURR_NEWLIB_HEAP_END

\* A frame is free, mapped once, or in one core's hand.
FramesApart ==
  /\ MappedFramesOwned
  /\ \A c \in Cores : InHand(c) \subseteq Frames \ free
  /\ \A c \in Cores, p \in PageNumbers : vm[p] \notin InHand(c)
  /\ \A c, d \in Cores : c # d => InHand(c) \cap InHand(d) = {}

\* kmalloc's blocks end at the bump pointer.
Blocks ==
  /\ bump_ptr % HEAP_ALIGN = 0
  /\ \A b \in blocks : b[1] % HEAP_ALIGN = 0 /\ b[1] <= b[2] /\ b[2] <= bump_ptr
  /\ \A b, d \in blocks : b # d => b[2] <= d[1] \/ d[2] <= b[1]

IInv == Types /\ (\A c \in Cores : Position(c)) /\ Regions /\ Mappings /\ FramesApart /\ Blocks /\ NoFrameLost

-----------------------------------------------------------------------------
(* The windows *)

\* The assumptions on the windows, without the divisions.
LEMMA Sizes ==
  /\ PAGE_SIZE \in Nat \ {0} /\ HEAP_ALIGN \in Nat \ {0}
  /\ HEAP_BASE \in Nat /\ DMA_BASE \in Nat /\ NEWLIB_HEAP_BASE \in Nat
  /\ HEAP_MAX_SIZE \in Nat /\ DMA_MAX_SIZE \in Nat /\ NEWLIB_HEAP_MAX_SIZE \in Nat
  /\ HEAP_BASE + HEAP_MAX_SIZE <= DMA_BASE
  /\ DMA_BASE + DMA_MAX_SIZE <= NEWLIB_HEAP_BASE
  /\ LastFrame \in Nat /\ MaxCalls \in Nat
BY KernelMemoryAssumption

\* The assumptions on what callers ask for.
LEMMA Requests ==
  KmallocSizes \subseteq Nat /\ DmaSizes \subseteq Nat /\ Increments \subseteq Int /\ Nobody \notin Cores
BY KernelMemoryAssumption

\* Each window begins on a page, and they lie in this order.
LEMMA Windows ==
  /\ OnPage(HEAP_BASE) /\ OnPage(HEAP_BASE + HEAP_MAX_SIZE)
  /\ OnPage(DMA_BASE) /\ OnPage(DMA_BASE + DMA_MAX_SIZE) /\ OnPage(NEWLIB_HEAP_BASE)
  /\ PageOf(HEAP_BASE) <= PageOf(HEAP_BASE + HEAP_MAX_SIZE)
  /\ PageOf(HEAP_BASE + HEAP_MAX_SIZE) <= PageOf(DMA_BASE)
  /\ PageOf(DMA_BASE) <= PageOf(DMA_BASE + DMA_MAX_SIZE)
  /\ PageOf(DMA_BASE + DMA_MAX_SIZE) <= PageOf(NEWLIB_HEAP_BASE)
  /\ PageOf(NEWLIB_HEAP_BASE) <= LastPage /\ LastPage \in Nat
<1>1. ASSUME NEW a, OnPage(a), NEW b, OnPage(b)
      PROVE  OnPage(a + b)
  <2>1. (PageOf(a) + PageOf(b)) * PAGE_SIZE = a + b
    <3>1. PageOf(a) \in Int /\ PageOf(b) \in Int /\ a = PageOf(a) * PAGE_SIZE /\ b = PageOf(b) * PAGE_SIZE
      BY <1>1 DEF OnPage
    <3>2. (PageOf(a) + PageOf(b)) * PAGE_SIZE = PageOf(a) * PAGE_SIZE + PageOf(b) * PAGE_SIZE
      BY <3>1, Multiples, PageSize
    <3>3. QED
      BY <3>1, <3>2
  <2>2. PageOf(a) + PageOf(b) \in Nat
    BY <1>1 DEF OnPage
  <2>3. QED
    BY <2>1, <2>2, MultipleOnPage
<1>2. OnPage(HEAP_BASE) /\ OnPage(HEAP_MAX_SIZE) /\ OnPage(DMA_BASE) /\ OnPage(DMA_MAX_SIZE) /\ OnPage(NEWLIB_HEAP_BASE)
  BY KernelMemoryAssumption, AlignedOnPage
<1>3. OnPage(HEAP_BASE + HEAP_MAX_SIZE) /\ OnPage(DMA_BASE + DMA_MAX_SIZE)
  BY <1>1, <1>2
<1>4. PageOf(NEWLIB_HEAP_BASE) <= LastPage /\ LastPage \in Nat
  <2>1. LastPage = PageOf(NEWLIB_HEAP_BASE + NEWLIB_HEAP_MAX_SIZE)
    BY DEF LastPage, PageOf
  <2>2. NEWLIB_HEAP_BASE + NEWLIB_HEAP_MAX_SIZE \in Nat
    BY Sizes
  <2>3. QED
    BY <1>2, <2>1, <2>2, PageOrder, PageOfNat, Sizes
<1>5. QED
  BY <1>2, <1>3, <1>4, PageOrder, Sizes DEF OnPage

\* The three windows have no page in common.
LEMMA WindowsApart ==
  /\ HeapPages \subseteq PageNumbers /\ DmaPages \subseteq PageNumbers /\ NewlibPages \subseteq PageNumbers
  /\ HeapPages \cap DmaPages = {} /\ HeapPages \cap NewlibPages = {} /\ DmaPages \cap NewlibPages = {}
BY Windows DEF HeapPages, DmaPages, NewlibPages, Window, PageNumbers, OnPage

\* A page the newlib window reaches.
LEMMA InNewlib ==
  ASSUME NEW a, OnPage(a), NEWLIB_HEAP_BASE <= a, NEW e, InWindow(e), a <= e
  PROVE  PageOf(a) \in NewlibPages
<1>1. e \in Nat /\ NEWLIB_HEAP_BASE + NEWLIB_HEAP_MAX_SIZE \in Nat /\ e <= NEWLIB_HEAP_BASE + NEWLIB_HEAP_MAX_SIZE
  BY Sizes DEF InWindow
<1>2. LastPage = PageOf(NEWLIB_HEAP_BASE + NEWLIB_HEAP_MAX_SIZE)
  BY DEF LastPage, PageOf
<1>3. a <= NEWLIB_HEAP_BASE + NEWLIB_HEAP_MAX_SIZE
  BY <1>1 DEF OnPage
<1>4. PageOf(a) <= LastPage
  BY <1>1, <1>2, <1>3, PageOrder
<1>5. PageOf(NEWLIB_HEAP_BASE) <= PageOf(a)
  BY Windows, PageOrder DEF OnPage
<1>6. QED
  BY <1>4, <1>5, Windows DEF NewlibPages, OnPage

-----------------------------------------------------------------------------
(* Where a core works.  Pages in hand lie in the window of the allocator    *)
(* that works on them, and no two cores work on the same page.              *)

\* Core c has its range, and its frames if it needs any.
Works(c) == call[c].pc \in {"map", "mapping", "translate", "unmap", "free"}

\* A range of the DMA window lies below the bump pointer.
LEMMA RegionPages ==
  ASSUME Types, NEW b, b.n \in Nat, InDmaWindow(b)
  PROVE  /\ PagesOf(b) \subseteq DmaPages
         /\ \A p \in PagesOf(b) : p < PageOf(dma_bump_ptr)
<1>1. PageOf(DMA_BASE) <= PageOf(b.va) /\ PageOf(b.va) \in Nat
  BY Windows, PageOrder DEF InDmaWindow, OnPage
<1>2. PageOf(dma_bump_ptr) <= PageOf(DMA_BASE + DMA_MAX_SIZE) /\ PageOf(dma_bump_ptr) \in Nat
  BY Windows, PageOrder, Sizes DEF Types, TypeOK, OnPage
<1>3. QED
  BY <1>1, <1>2, Windows DEF PagesOf, DmaPages, Window, InDmaWindow, End, OnPage

\* The window an allocator works in.
Zone(fn) == IF fn = "kmalloc" THEN HeapPages ELSE IF fn = "_sbrk" THEN NewlibPages ELSE DmaPages

\* Where a core works: a non-empty range of its own window, under its lock.
WorkPlace(c) ==
  /\ call[c].fn # "none"
  /\ call[c].n \in Nat \ {0} /\ OnPage(call[c].va) /\ PageOf(call[c].va) \in PagesOf(call[c])
  /\ PagesOf(call[c]) \subseteq Zone(call[c].fn) /\ Zone(call[c].fn) \subseteq PageNumbers
  /\ call[c].fn = "kmalloc" => heap_lock = c /\ PagesOf(call[c]) = {PageOf(call[c].va)}
  /\ call[c].fn = "_sbrk" => newlib_lock = c /\ PagesOf(call[c]) = {PageOf(call[c].va)}
  /\ call[c].fn \in {"kmalloc", "dma_alloc", "dma_free", "_sbrk"}

\* Whoever is past its allocation works in the window of its own allocator.
LEMMA WorkPlaces ==
  ASSUME IInv, NEW c \in Cores, Works(c)
  PROVE  WorkPlace(c)
<1>1. Position(c) /\ call[c] \in CallRecords /\ call[c].n \in Nat
  BY DEF IInv, Types, CallRecords
<1>2. CASE call[c].fn = "kmalloc"
  <2>1. call[c].va = heap_end /\ heap_lock = c /\ call[c].n = 1 /\ heap_end < HEAP_BASE + HEAP_MAX_SIZE
    <3>1. call[c].pc \in {"map", "mapping"}
      BY <1>1, <1>2 DEF Position, InKmalloc, Works
    <3>2. kmalloc_end(c) \in Int
      <4>1. Aligned(call[c].arg) \in Int
        BY <1>1, RoundedUp, Sizes DEF CallRecords, Aligned
      <4>2. QED
        BY <4>1 DEF kmalloc_end, IInv, Types, TypeOK, OnPage
    <3>3. QED
      BY <1>1, <1>2, <3>1, <3>2, Sizes DEF Position, InKmalloc, IInv, Types, OnPage
  <2>2. OnPage(heap_end) /\ HEAP_BASE <= heap_end
    BY Sizes DEF IInv, Types, TypeOK, OnPage
  <2>3. PageOf(heap_end) \in HeapPages
    BY <2>1, <2>2, Windows, PageOrder DEF HeapPages, Window, OnPage
  <2>4. QED
    BY <1>2, <2>1, <2>2, <2>3, WindowsApart, Windows DEF PagesOf, OnPage, WorkPlace, Zone
<1>3. CASE call[c].fn = "dma_alloc"
  <2>1. call[c].n > 0 /\ InDmaWindow(call[c])
    BY <1>1, <1>3 DEF Position, InDmaAlloc, Works, IInv, Regions, Reserves
  <2>2. PagesOf(call[c]) \subseteq DmaPages
    BY <1>1, <2>1, RegionPages DEF IInv
  <2>3. QED
    BY <1>1, <1>3, <2>1, <2>2, WindowsApart DEF PagesOf, InDmaWindow, OnPage, WorkPlace, Zone
<1>4. CASE call[c].fn = "dma_free"
  <2>1. PICK b \in stale : b.va = call[c].va /\ b.n = call[c].n
    BY <1>1, <1>4 DEF Position, InDmaFree
  <2>2. b.n \in Nat \ {0} /\ InDmaWindow(b)
    BY DEF IInv, Types, Buffers, Regions, OfDma
  <2>3. PagesOf(b) \subseteq DmaPages /\ PagesOf(b) = PagesOf(call[c])
    BY <2>1, <2>2, RegionPages DEF IInv, PagesOf
  <2>4. QED
    BY <1>4, <2>1, <2>2, <2>3, WindowsApart DEF PagesOf, InDmaWindow, OnPage, WorkPlace, Zone
<1>5. CASE call[c].fn = "_sbrk"
  <2>1. /\ call[c].n = 1 /\ newlib_lock = c /\ InWindow(sbrk_end(c)) /\ call[c].pc # "shrink"
    BY <1>1, <1>5 DEF Position, InSbrk, Works
  <2>2. /\ sbrk_end(c) \in Nat /\ NEWLIB_HEAP_BASE <= sbrk_end(c)
        /\ NEWLIB_HEAP_BASE <= CURR_NEWLIB_HEAP_END /\ OnPage(CURR_NEWLIB_HEAP_END)
    BY <2>1, Sizes DEF InWindow, IInv, Types
  <2>3. OnPage(call[c].va) /\ PageOf(call[c].va) \in NewlibPages
    <3>1. CASE call[c].pc \in {"map", "mapping"}
      <4>1. call[c].va = CURR_NEWLIB_HEAP_END /\ CURR_NEWLIB_HEAP_END <= sbrk_end(c)
        BY <1>1, <1>5, <3>1, <2>2 DEF Position, InSbrk, OnPage
      <4>2. QED
        BY <2>1, <2>2, <4>1, InNewlib
    <3>2. CASE call[c].pc \in {"translate", "unmap", "free"}
      <4>1. call[c].va + PAGE_SIZE = CURR_NEWLIB_HEAP_END /\ sbrk_end(c) <= call[c].va
        BY <1>1, <1>5, <3>2 DEF Position, InSbrk
      <4>2. call[c].va \in Nat
        BY <1>1 DEF CallRecords
      <4>3. OnPage(call[c].va) /\ PageOf(CURR_NEWLIB_HEAP_END) = PageOf(call[c].va) + 1
        <5>1. OnPage(call[c].va + PAGE_SIZE) /\ call[c].va \in Int /\ 0 <= call[c].va
          BY <2>2, <4>1, <4>2
        <5>2. QED
          BY <4>1, <5>1, PreviousPage
      <4>4. PageOf(NEWLIB_HEAP_BASE) <= PageOf(call[c].va)
        <5>1. NEWLIB_HEAP_BASE <= call[c].va
          BY <2>2, <4>1, <4>2, Sizes
        <5>2. QED
          BY <4>2, <5>1, Windows, PageOrder
      <4>5. PageOf(call[c].va) <= LastPage
        BY <4>3, Windows DEF IInv, Types, OnPage
      <4>6. QED
        BY <4>3, <4>4, <4>5, Windows DEF NewlibPages, OnPage
    <3>3. QED
      BY <3>1, <3>2 DEF Works
  <2>4. QED
    BY <1>5, <2>1, <2>3, WindowsApart DEF PagesOf, OnPage, WorkPlace, Zone
<1>6. QED
  <2>1. call[c].fn # "none"
    BY <1>1 DEF Position, Idle, Works
  <2>2. QED
    BY <1>1, <1>2, <1>3, <1>4, <1>5, <2>1 DEF CallRecords

\* A reservation lies below dma_bump_ptr, so the next one is clear of it.
LEMMA ReservedPages ==
  ASSUME IInv, NEW c \in Cores, Reserves(c)
  PROVE  PagesOf(call[c]) \subseteq DmaPages /\ \A p \in PagesOf(call[c]) : p < PageOf(dma_bump_ptr)
<1>1. call[c].n \in Nat /\ InDmaWindow(call[c])
  BY DEF IInv, Types, CallRecords, Regions
<1>2. QED
  BY <1>1, RegionPages DEF IInv

\* No two cores have a page in hand: heap_lock and newlib_lock keep their
\* callers apart, the bump pointer keeps the DMA reservations apart.
LEMMA WorkApart ==
  ASSUME IInv, NEW c \in Cores, NEW d \in Cores, c # d, Works(c), Works(d) \/ Reserves(d)
  PROVE  PagesOf(call[c]) \cap PagesOf(call[d]) = {}
<1>1. WorkPlace(c) /\ (Works(d) => WorkPlace(d))
  BY WorkPlaces
<1>2. CASE Frees(c) /\ Frees(d)
  <2>1. PICK a \in stale : a.va = call[c].va /\ a.n = call[c].n
    BY <1>2 DEF IInv, Position, InDmaFree, Frees
  <2>2. PICK b \in stale : b.va = call[d].va /\ b.n = call[d].n
    BY <1>2 DEF IInv, Position, InDmaFree, Frees
  <2>3. a # b
    BY <1>2, <2>1, <2>2 DEF IInv, Regions
  <2>4. QED
    BY <2>1, <2>2, <2>3 DEF IInv, Regions, OfDma, PagesOf
<1>3. CASE Frees(c) /\ Reserves(d)
  BY <1>3 DEF IInv, Position, InDmaFree, Frees, Regions, OfDma, PagesOf
<1>4. CASE Reserves(c) /\ Frees(d)
  BY <1>4 DEF IInv, Position, InDmaFree, Frees, Regions, OfDma, PagesOf
<1>5. CASE Reserves(c) /\ Reserves(d)
  BY <1>5 DEF IInv, Regions
<1>6. CASE call[c].fn = call[d].fn /\ call[c].fn \in {"kmalloc", "_sbrk"}
  BY <1>1, <1>6 DEF WorkPlace, Reserves
<1>7. CASE Zone(call[c].fn) \cap Zone(call[d].fn) = {}
  <2>1. PagesOf(call[d]) \subseteq Zone(call[d].fn)
    BY <1>1, ReservedPages DEF WorkPlace, Reserves, Zone
  <2>2. QED
    BY <1>1, <1>7, <2>1 DEF WorkPlace
<1>8. QED
  <2>1. call[c].fn \in {"kmalloc", "dma_alloc", "dma_free", "_sbrk"} /\ call[d].fn \in {"kmalloc", "dma_alloc", "dma_free", "_sbrk"}
    BY <1>1 DEF WorkPlace, Reserves
  <2>2. QED
    BY <1>2, <1>3, <1>4, <1>5, <1>6, <1>7, <2>1, WindowsApart DEF Zone, Frees, Reserves

-----------------------------------------------------------------------------
(* What a step of core c must leave alone for the rest to stay as it was.   *)

Others(c) == call' \in [Cores -> CallRecords] /\ \A d \in Cores \ {c} : call'[d] = call[d]
\* The call keeps its function and its range.
SameRange(c) == call'[c].fn = call[c].fn /\ call'[c].va = call[c].va /\ call'[c].n = call[c].n

\* The numbers under heap_lock move only for a core that may take it or has it.
HeapLeft(c) == heap_lock \in {c, Nobody} \/ UNCHANGED <<heap_lock, bump_ptr, heap_end>>
NewlibLeft(c) == newlib_lock \in {c, Nobody} \/ UNCHANGED <<newlib_lock, curr_brk, CURR_NEWLIB_HEAP_END>>

\* Another core stays where it is when its pages and its lock's data do.
LEMMA OtherPositions ==
  ASSUME IInv, NEW c \in Cores, Others(c), stale \subseteq stale', HeapLeft(c), NewlibLeft(c),
         NEW d \in Cores \ {c},
         Works(d) \/ Reserves(d) => \A p \in PagesOf(call[d]) : vm'[p] = vm[p]
  PROVE  Position(d)'
<1>1. call'[d] = call[d] /\ Position(d)
  BY DEF Others, IInv
<1>2. Nobody \notin Cores
  BY Requests
<1>3. Idle(d)' /\ (call'[d].pc \in {"map", "mapping", "unmap"} => call'[d].i = 0)
      /\ (call'[d].pc = "unmap" => call'[d].phys # 0)
  BY <1>1 DEF Position, Idle
<1>4. InKmalloc(d)'
  BY <1>1, <1>2 DEF Position, InKmalloc, HeapLeft, kmalloc_end
<1>5. Unbacked(call[d]) /\ (Works(d) \/ Reserves(d)) => Unbacked(call[d])'
  BY <1>1 DEF Unbacked, PagesOf
<1>6. ASSUME NEW s, BackedBy(call[d], s), Works(d) PROVE BackedBy(call[d], s)'
  BY <1>1, <1>6 DEF BackedBy, PagesOf
<1>7. InDmaAlloc(d)'
  BY <1>1, <1>5 DEF Position, InDmaAlloc, Reserves
<1>8. InDmaFree(d)'
  <2> SUFFICES ASSUME call[d].fn = "dma_free" PROVE InDmaFree(d)'
    BY <1>1 DEF InDmaFree
  <2>1. Works(d) /\ call[d].pc \in {"translate", "unmap", "free"}
    BY <1>1 DEF Position, InDmaFree, Works
  <2>2. \E b \in stale' : b.va = call'[d].va /\ b.n = call'[d].n
    BY <1>1 DEF Position, InDmaFree
  <2>3. call[d].pc = "translate" => Unbacked(call[d])' \/ \E s \in Frames : BackedBy(call[d], s)'
    BY <1>1, <1>5, <1>6, <2>1 DEF Position, InDmaFree
  <2>4. call[d].pc = "unmap" => BackedBy(call[d], call[d].phys)'
    BY <1>1, <1>6, <2>1 DEF Position, InDmaFree
  <2>5. call[d].pc = "free" => Unbacked(call[d])'
    BY <1>1, <1>5, <2>1 DEF Position, InDmaFree
  <2>6. QED
    BY <1>1, <2>1, <2>2, <2>3, <2>4, <2>5 DEF InDmaFree, Frames
<1>9. InSbrk(d)'
  <2> SUFFICES ASSUME call[d].fn = "_sbrk" PROVE InSbrk(d)'
    BY <1>1 DEF InSbrk
  <2>1. call[d].pc = "unmap" => vm'[PageOf(call[d].va)] = vm[PageOf(call[d].va)]
    BY WorkPlaces DEF Works, WorkPlace
  <2>2. call[d].pc = "lock" \/ UNCHANGED <<newlib_lock, curr_brk, CURR_NEWLIB_HEAP_END>>
    BY <1>1, <1>2 DEF Position, InSbrk, NewlibLeft
  <2>3. QED
    BY <1>1, <2>1, <2>2 DEF Position, InSbrk, sbrk_end, InWindow
<1>10. QED
  BY <1>3, <1>4, <1>7, <1>8, <1>9 DEF Position

\* The DMA window keeps its order when no reservation begins or ends.
LEMMA RegionsKept ==
  ASSUME IInv, NEW c \in Cores, Others(c), UNCHANGED <<dma_bump_ptr, buffers, stale>>,
         Reserves(c)' \/ Frees(c)' => SameRange(c)
  PROVE  Regions'
<1>1. \A d \in Cores : Reserves(d)' => Reserves(d) /\ call'[d].va = call[d].va /\ call'[d].n = call[d].n
  BY DEF Others, SameRange, Reserves
<1>2. \A d \in Cores : Frees(d)' => Frees(d) /\ call'[d].va = call[d].va
  BY DEF Others, SameRange, Frees
<1>3. Regions
  BY DEF IInv
<1>4. \A d \in Cores : Reserves(d)' => PagesOf(call'[d]) = PagesOf(call[d])
  BY <1>1 DEF PagesOf
<1>5. \A d \in Cores : Reserves(d)' => InDmaWindow(call[d])'
  BY <1>1, <1>3 DEF Regions, InDmaWindow, End
<1>6. \A b \in OfDma : InDmaWindow(b)'
  BY <1>3 DEF Regions, InDmaWindow, End
<1>7. QED
  BY <1>1, <1>2, <1>3, <1>4, <1>5, <1>6 DEF Regions, OfDma

\* The page tables keep agreeing with the allocators when neither changes.
LEMMA MappingsKept ==
  ASSUME IInv, NEW c \in Cores, Others(c),
         UNCHANGED <<vm, heap_end, dma_bump_ptr, buffers, stale, CURR_NEWLIB_HEAP_END>>,
         At(c, "_sbrk", "free") <=> At(c, "_sbrk", "free")',
         At(c, "_sbrk", "free")' => SameRange(c),
         \A b \in stale : Gives(c, b) => Gives(c, b)' \/ Unbacked(b),
         newlib_lock' = Nobody => curr_brk' <= CURR_NEWLIB_HEAP_END
  PROVE  Mappings'
<1>1. \A d \in Cores : At(d, "_sbrk", "free") <=> At(d, "_sbrk", "free")'
  BY DEF Others, At
<1>2. \A d \in Cores : At(d, "_sbrk", "free")' => call'[d].va = call[d].va
  BY DEF Others, SameRange
<1>3. \A b \in stale : (\A d \in Cores : ~Gives(d, b)') => Unbacked(b)'
  <2> SUFFICES ASSUME NEW b \in stale, \A d \in Cores : ~Gives(d, b)' PROVE Unbacked(b)'
    OBVIOUS
  <2>1. \A d \in Cores \ {c} : ~Gives(d, b)
    BY DEF Others, Gives, Frees
  <2>2. Unbacked(b)
    BY <2>1 DEF IInv, Mappings
  <2>3. QED
    BY <2>2 DEF Unbacked
<1>4. DmaBuffersBacked'
  BY DEF IInv, Mappings, DmaBuffersBacked
<1>5. QED
  BY <1>1, <1>2, <1>3, <1>4 DEF IInv, Mappings

\* The two sets NoFrameLost compares.
Lost == Frames \ Accounted
Holes == {p \in PageNumbers : HEAP_BASE <= p * PAGE_SIZE /\ p * PAGE_SIZE < heap_end /\ vm[p] = 0}

\* No frame changes its place when free, vm and what is in hand stay.
LEMMA FramesStay ==
  ASSUME IInv, NEW c \in Cores, Others(c), UNCHANGED <<free, vm, heap_end>>, InHand(c)' = InHand(c)
  PROVE  FramesApart' /\ NoFrameLost'
<1>1. \A d \in Cores : InHand(d)' = InHand(d)
  BY DEF Others, InHand
<1>2. FramesApart'
  BY <1>1 DEF IInv, FramesApart, MappedFramesOwned
<1>3. Accounted' = Accounted
  BY <1>1 DEF Accounted
<1>4. NoFrameLost'
  BY <1>3 DEF IInv, NoFrameLost
<1>5. QED
  BY <1>2, <1>4

\* A step that moves core c on and changes no allocator's state.
LEMMA QuietStep ==
  ASSUME IInv, NEW c \in Cores, Others(c),
         UNCHANGED <<free, vm, heap, dma, newlib>>,
         Types', Position(c)', HeapLeft(c), NewlibLeft(c), InHand(c)' = InHand(c),
         Reserves(c)' \/ Frees(c)' => SameRange(c),
         ~At(c, "_sbrk", "free"), ~At(c, "_sbrk", "free")',
         \A b \in stale : Gives(c, b) => Gives(c, b)' \/ Unbacked(b),
         newlib_lock' = Nobody => curr_brk <= CURR_NEWLIB_HEAP_END
  PROVE  IInv'
<1>1. \A d \in Cores : Position(d)'
  BY OtherPositions DEF dma
<1>2. Regions'
  BY RegionsKept DEF dma
<1>3. Mappings'
  BY MappingsKept DEF dma, heap, newlib
<1>4. FramesApart' /\ NoFrameLost'
  BY FramesStay DEF heap
<1>5. Blocks'
  BY DEF IInv, Blocks, heap
<1>6. QED
  BY <1>1, <1>2, <1>3, <1>4, <1>5 DEF IInv

-----------------------------------------------------------------------------
(* Steps that only move a call on. *)

\* The call of core c goes on to pc.
Went(c, pc) ==
  /\ Others(c) /\ SameRange(c)
  /\ call'[c].pc = pc /\ call'[c].arg = call[c].arg
  /\ call'[c].phys = call[c].phys /\ call'[c].i = call[c].i
  /\ UNCHANGED calls

\* The call of core c is over.
Left(c) ==
  /\ Others(c)
  /\ call'[c].fn = "none" /\ call'[c].pc \in {"none", "panic"} /\ call'[c].n = 0 /\ call'[c].i = 0
  /\ UNCHANGED calls

\* Core c has begun a call.
Entered(c, fn, pc, arg, va, n) ==
  /\ call[c].fn = "none" /\ call[c].pc = "none"
  /\ Others(c)
  /\ call'[c].fn = fn /\ call'[c].pc = pc /\ call'[c].arg = arg /\ call'[c].va = va /\ call'[c].n = n
  /\ call'[c].i = 0
  /\ calls' \in [Cores -> 0..MaxCalls]

Pcs == {"none", "panic", "lock", "grow", "shrink", "map", "mapping", "frames", "reclaim",
        "translate", "unmap", "free"}

\* What Goto does to a call, field by field.
LEMMA GotoWent ==
  ASSUME IInv, NEW c \in Cores, NEW pc \in Pcs, Goto(c, pc)
  PROVE  Went(c, pc)
BY DEF Goto, Went, Others, SameRange, IInv, Types, CallRecords, Pcs

\* What Return and Panic do to a call.
LEMMA ReturnLeft ==
  ASSUME IInv, NEW c \in Cores, Return(c) \/ Panic(c)
  PROVE  Left(c)
<1>1. Returned \in CallRecords /\ [Returned EXCEPT !.pc = "panic"] \in CallRecords
  BY Sizes DEF Returned, CallRecords
<1>2. PICK r \in {Returned, [Returned EXCEPT !.pc = "panic"]} : call' = [call EXCEPT ![c] = r]
  BY DEF Return, Panic
<1>3. r \in CallRecords /\ r.fn = "none" /\ r.pc \in {"none", "panic"} /\ r.n = 0 /\ r.i = 0
  BY <1>1, <1>2 DEF Returned
<1>4. call'[c] = r /\ Others(c)
  BY <1>1, <1>2 DEF IInv, Types, Others
<1>5. QED
  BY <1>3, <1>4 DEF Left, Return, Panic

\* What Enter does to a call.
LEMMA EnterEntered ==
  ASSUME IInv, NEW c \in Cores, NEW fn \in {"kmalloc", "dma_alloc", "dma_free", "_sbrk"},
         NEW pc \in Pcs, NEW arg \in Int, NEW va \in Nat, NEW n \in Nat, Enter(c, fn, pc, arg, va, n)
  PROVE  Entered(c, fn, pc, arg, va, n)
<1> DEFINE r == [fn |-> fn, pc |-> pc, arg |-> arg, va |-> va, n |-> n, phys |-> 0, i |-> 0]
<1>1. r \in CallRecords /\ r.fn = fn /\ r.pc = pc /\ r.arg = arg /\ r.va = va /\ r.n = n /\ r.i = 0
  BY Sizes DEF CallRecords, Pcs
<1>2. call' = [call EXCEPT ![c] = r] /\ call[c] = Returned /\ calls[c] < MaxCalls
  BY DEF Enter
<1> HIDE DEF r
<1>3. call'[c] = r /\ Others(c)
  BY <1>1, <1>2 DEF IInv, Types, Others
<1>4. calls' \in [Cores -> 0..MaxCalls]
  BY <1>2, Sizes DEF Enter, IInv, Types, TypeOK
<1>5. QED
  BY <1>1, <1>2, <1>3, <1>4 DEF Entered, Returned

\* A step that only moves a call keeps every type.
LEMMA QuietTypes ==
  ASSUME IInv, NEW c \in Cores, Others(c), UNCHANGED <<free, vm, heap, dma, newlib>>,
         {mmu_lock', heap_lock', newlib_lock'} \subseteq Cores \cup {Nobody},
         calls' \in [Cores -> 0..MaxCalls], call'[c].i \in 0..call'[c].n
  PROVE  Types'
<1>1. \A d \in Cores : call'[d].n \in Nat /\ call'[d].i \in 0..call'[d].n
  BY DEF Others, IInv, Types, TypeOK, CallRecords
<1>2. TypeOK'
  BY <1>1 DEF IInv, Types, TypeOK, heap, dma, newlib
<1>3. QED
  BY <1>2 DEF IInv, Types, Others, heap, dma, newlib

\* What the invariant says of one core, in the form most steps use.
LEMMA Ranges ==
  ASSUME IInv, NEW c \in Cores
  PROVE  /\ Position(c) /\ call[c] \in CallRecords /\ call[c].n \in Nat /\ call[c].i \in 0..call[c].n
         /\ calls \in [Cores -> 0..MaxCalls]
         /\ {mmu_lock, heap_lock, newlib_lock} \subseteq Cores \cup {Nobody}
         /\ newlib_lock = Nobody => curr_brk <= CURR_NEWLIB_HEAP_END
BY DEF IInv, Types, TypeOK, CallRecords, Mappings

\* MapBegins takes mmu_lock and keeps the frames in hand.
LEMMA MapBeginsQuiet ==
  ASSUME IInv, NEW c \in Cores, MapBegins(c)
  PROVE  IInv'
<1>1. Went(c, "mapping") /\ call[c].pc = "map"
  BY GotoWent DEF MapBegins, Pcs
<1>2. UNCHANGED <<free, vm, heap_lock, newlib_lock, heap, dma, newlib>> /\ mmu_lock' = c
  BY DEF MapBegins
<1>3. Types'
  BY <1>1, <1>2, QuietTypes, Ranges DEF Went, SameRange
<1>4. PagesOf(call[c])' = PagesOf(call[c])
  BY <1>1 DEF Went, SameRange, PagesOf
<1>5. Position(c)'
  BY <1>1, <1>2, <1>4, Ranges
     DEF Position, Idle, InKmalloc, InDmaAlloc, InDmaFree, InSbrk, Went, SameRange, Unbacked,
         kmalloc_end, sbrk_end, InWindow, heap, dma, newlib
<1>6. InHand(c)' = InHand(c)
  BY <1>1 DEF Went, SameRange, InHand
<1>7. \A b \in stale : Gives(c, b) => Gives(c, b)'
  BY <1>1 DEF Went, SameRange, Gives, Frees
<1>8. QED
  BY <1>1, <1>2, <1>3, <1>5, <1>6, <1>7, QuietStep, Ranges
     DEF Went, SameRange, At, HeapLeft, NewlibLeft, heap, newlib

\* Translate reads the frame that unmap will give up.
LEMMA TranslateQuiet ==
  ASSUME IInv, NEW c \in Cores, Translate(c)
  PROVE  IInv'
<1>1. call[c].pc = "translate" /\ WorkPlace(c)
  BY WorkPlaces DEF Translate, Works
<1>2. UNCHANGED <<free, vm, heap_lock, newlib_lock, heap, dma, newlib, mmu_lock, calls>>
  BY DEF Translate, locks
<1> DEFINE s == vm[PageOf(call[c].va)]
<1>3. s \in Frames
  <2>1. PageOf(call[c].va) \in PageNumbers
    BY <1>1 DEF WorkPlace
  <2>2. s \in 0..LastFrame /\ s # 0
    BY <2>1 DEF Translate, IInv, Types, TypeOK
  <2>3. QED
    BY <2>2, Sizes DEF Frames
<1>4. /\ Others(c) /\ SameRange(c) /\ call'[c].pc = "unmap" /\ call'[c].phys = s /\ call'[c].i = 0
      /\ call'[c].arg = call[c].arg
  <2>1. call' = [call EXCEPT ![c].pc = "unmap", ![c].phys = s, ![c].i = 0]
    BY DEF Translate
  <2>2. s \in 0..LastFrame
    BY <1>3, Sizes DEF Frames
  <2> HIDE DEF s
  <2>3. QED
    BY <2>1, <2>2 DEF IInv, Types, CallRecords, Others, SameRange
<1>5. call[c].fn \in {"dma_free", "_sbrk"} /\ Position(c)
  BY <1>1, Ranges DEF Position, Idle, InKmalloc, InDmaAlloc, WorkPlace
<1>6. Types'
  BY <1>2, <1>4, QuietTypes, Ranges DEF SameRange
<1>7. PagesOf(call[c])' = PagesOf(call[c])
  BY <1>4 DEF SameRange, PagesOf
<1>8. call[c].fn = "dma_free" => BackedBy(call[c], s)
  <2> SUFFICES ASSUME call[c].fn = "dma_free" PROVE BackedBy(call[c], s)
    OBVIOUS
  <2>1. PageOf(call[c].va) \in PagesOf(call[c]) /\ PageOf(call[c].va) \in Nat
    BY <1>1 DEF WorkPlace, OnPage
  <2>2. ~Unbacked(call[c])
    BY <1>3, <2>1 DEF Unbacked, Frames
  <2>3. PICK r \in Frames : BackedBy(call[c], r)
    BY <1>1, <1>5, <2>2 DEF Position, InDmaFree
  <2>4. s = r
    BY <2>1, <2>3, Sizes DEF BackedBy, Frames
  <2>5. QED
    BY <2>3, <2>4
<1>9. (BackedBy(call[c], call[c].phys))' <=> BackedBy(call[c], s)
  BY <1>2, <1>4, <1>7 DEF BackedBy, SameRange
<1>10. Position(c)'
  <2>1. InDmaFree(c)'
    BY <1>1, <1>2, <1>4, <1>5, <1>8, <1>9 DEF Position, InDmaFree, SameRange, dma
  <2>2. InSbrk(c)'
    BY <1>1, <1>2, <1>4, <1>5 DEF Position, InSbrk, SameRange, sbrk_end, InWindow, newlib
  <2>3. QED
    BY <1>3, <1>4, <1>5, <2>1, <2>2, Sizes DEF Position, Idle, InKmalloc, InDmaAlloc, SameRange, Frames
<1>11. InHand(c)' = InHand(c)
  BY <1>1, <1>4 DEF InHand
<1>12. \A b \in stale : Gives(c, b) => Gives(c, b)'
  BY <1>4 DEF SameRange, Gives, Frees
<1>13. QED
  BY <1>1, <1>2, <1>4, <1>6, <1>10, <1>11, <1>12, QuietStep, Ranges
     DEF At, HeapLeft, NewlibLeft, heap, newlib

\* A core that is not in dma_free owes no page.
LEMMA NothingOwed ==
  ASSUME NEW c \in Cores, ~Frees(c)
  PROVE  \A b \in stale : Gives(c, b) => Gives(c, b)' \/ Unbacked(b)
BY DEF Gives

\* What remains to be shown of a step that begins or ends a call, or takes
\* or gives back a lock, with nothing in hand.
LEMMA QuietEntry ==
  ASSUME IInv, NEW c \in Cores, NEW fn \in {"kmalloc", "_sbrk"}, NEW arg \in Int,
         Entered(c, fn, "lock", arg, 0, 1), fn = "kmalloc" => arg \in Nat,
         UNCHANGED <<free, vm, locks, heap, dma, newlib>>
  PROVE  IInv'
<1>1. Types'
  BY QuietTypes, Ranges DEF Entered, locks
<1>2. Position(c)'
  BY DEF Entered, Position, Idle, InKmalloc, InDmaAlloc, InDmaFree, InSbrk
<1>3. InHand(c)' = InHand(c)
  BY DEF Entered, InHand
<1>4. ~Frees(c) /\ ~(Reserves(c)' \/ Frees(c)')
  BY DEF Entered, Frees, Reserves
<1>5. QED
  BY <1>1, <1>2, <1>3, <1>4, QuietStep, Ranges, NothingOwed
     DEF Entered, At, HeapLeft, NewlibLeft, locks, heap, newlib

\* kmalloc begins with nothing in hand.
LEMMA kmallocQuiet ==
  ASSUME IInv, NEW c \in Cores, NEW size \in KmallocSizes, kmalloc(c, size)
  PROVE  IInv'
<1>1. size \in Nat /\ size \in Int
  BY Requests
<1>2. Entered(c, "kmalloc", "lock", size, 0, 1)
  BY <1>1, EnterEntered DEF kmalloc, Pcs
<1>3. QED
  BY <1>1, <1>2, QuietEntry DEF kmalloc

\* _sbrk begins with nothing in hand.
LEMMA _sbrkQuiet ==
  ASSUME IInv, NEW c \in Cores, NEW incr \in Increments, _sbrk(c, incr)
  PROVE  IInv'
<1>1. incr \in Int
  BY Requests
<1>2. Entered(c, "_sbrk", "lock", incr, 0, 1)
  BY <1>1, EnterEntered DEF _sbrk, Pcs
<1>3. QED
  BY <1>1, <1>2, QuietEntry DEF _sbrk

\* A call that ends, by a return or a panic, with nothing in hand.
LEMMA QuietReturn ==
  ASSUME IInv, NEW c \in Cores, Left(c), InHand(c) = {}, ~At(c, "_sbrk", "free"),
         UNCHANGED <<free, vm, heap, dma, newlib>>, HeapLeft(c), NewlibLeft(c),
         {mmu_lock', heap_lock', newlib_lock'} \subseteq Cores \cup {Nobody},
         newlib_lock' = Nobody => curr_brk <= CURR_NEWLIB_HEAP_END,
         Frees(c) => Unbacked(call[c])
  PROVE  IInv'
<1>1. Types'
  BY QuietTypes, Ranges DEF Left
<1>2. Position(c)'
  BY DEF Left, Position, Idle, InKmalloc, InDmaAlloc, InDmaFree, InSbrk
<1>3. InHand(c)' = InHand(c)
  BY DEF Left, InHand
<1>4. ~(Reserves(c)' \/ Frees(c)')
  BY DEF Left, Frees, Reserves
<1>5. \A b \in stale : Gives(c, b) => Unbacked(b)
  <2> SUFFICES ASSUME NEW b \in stale, Gives(c, b) PROVE Unbacked(b)
    OBVIOUS
  <2>1. PICK d \in stale : d.va = call[c].va /\ d.n = call[c].n
    BY Ranges DEF Position, InDmaFree, Gives, Frees
  <2>2. PageOf(b.va) \in PagesOf(b) /\ PageOf(d.va) \in PagesOf(d)
    BY DEF IInv, Regions, InDmaWindow, OfDma, Types, Buffers, PagesOf, OnPage
  <2>3. b = d
    BY <2>1, <2>2 DEF IInv, Regions, OfDma, Gives
  <2>4. QED
    BY <2>1, <2>3 DEF Gives, Unbacked, PagesOf
<1>6. QED
  BY <1>1, <1>2, <1>3, <1>4, <1>5, QuietStep DEF Left, At

\* kmalloc at the end of its window changes nothing but its caller.
LEMMA KmallocExhaustedQuiet ==
  ASSUME IInv, NEW c \in Cores, KmallocExhausted(c)
  PROVE  IInv'
<1>1. Left(c) /\ InHand(c) = {} /\ ~Frees(c) /\ ~At(c, "_sbrk", "free")
  BY ReturnLeft DEF KmallocExhausted, At, InHand, Frees
<1>2. QED
  BY <1>1, QuietReturn, Ranges DEF KmallocExhausted, HeapLeft, NewlibLeft, locks, heap, newlib

\* kmalloc without a frame gives heap_lock back.
LEMMA KmallocOutOfFramesQuiet ==
  ASSUME IInv, NEW c \in Cores, KmallocOutOfFrames(c)
  PROVE  IInv'
<1>1. Left(c) /\ InHand(c) = {} /\ ~Frees(c) /\ ~At(c, "_sbrk", "free")
  BY ReturnLeft DEF KmallocOutOfFrames, At, InHand, Frees
<1>2. heap_lock = c
  BY Ranges DEF KmallocOutOfFrames, At, Position, InKmalloc
<1>3. QED
  BY <1>1, <1>2, QuietReturn, Ranges DEF KmallocOutOfFrames, HeapLeft, NewlibLeft, locks, heap, newlib

\* _sbrk outside its window changes nothing.
LEMMA SbrkRefusedQuiet ==
  ASSUME IInv, NEW c \in Cores, SbrkRefused(c)
  PROVE  IInv'
<1>1. Left(c) /\ InHand(c) = {} /\ ~Frees(c) /\ ~At(c, "_sbrk", "free")
  BY ReturnLeft DEF SbrkRefused, At, InHand, Frees
<1>2. QED
  BY <1>1, QuietReturn, Ranges DEF SbrkRefused, HeapLeft, NewlibLeft, locks, heap, newlib

\* _sbrk without a frame keeps the pages it mapped before.
LEMMA SbrkOutOfFramesQuiet ==
  ASSUME IInv, NEW c \in Cores, SbrkOutOfFrames(c)
  PROVE  IInv'
<1>1. Left(c) /\ InHand(c) = {} /\ ~Frees(c) /\ ~At(c, "_sbrk", "free")
  BY ReturnLeft DEF SbrkOutOfFrames, At, InHand, Frees
<1>2. newlib_lock = c /\ curr_brk <= CURR_NEWLIB_HEAP_END
  BY Ranges DEF SbrkOutOfFrames, At, Position, InSbrk
<1>3. QED
  BY <1>1, <1>2, QuietReturn, Ranges DEF SbrkOutOfFrames, HeapLeft, NewlibLeft, locks, heap, newlib

\* dma_free of what is not mapped owes no page: the buffer is empty as a whole.
LEMMA DmaNotMappedQuiet ==
  ASSUME IInv, NEW c \in Cores, DmaNotMapped(c)
  PROVE  IInv'
<1>1. Left(c) /\ InHand(c) = {} /\ ~At(c, "_sbrk", "free") /\ Works(c)
  BY ReturnLeft DEF DmaNotMapped, At, InHand, Works
<1>2. Unbacked(call[c])
  <2>1. PageOf(call[c].va) \in PagesOf(call[c]) /\ PageOf(call[c].va) \in Nat
    BY <1>1, WorkPlaces DEF WorkPlace, OnPage
  <2>2. ASSUME NEW s \in Frames, BackedBy(call[c], s) PROVE FALSE
    <3>1. vm[PageOf(call[c].va)] = s + (PageOf(call[c].va) - PageOf(call[c].va))
      BY <2>1, <2>2 DEF BackedBy
    <3>2. vm[PageOf(call[c].va)] = 0
      BY DEF DmaNotMapped
    <3>3. QED
      BY <2>1, <3>1, <3>2, Sizes DEF Frames
  <2>3. QED
    BY <2>2, Ranges DEF DmaNotMapped, At, Position, InDmaFree
<1>3. QED
  BY <1>1, <1>2, QuietReturn, Ranges DEF DmaNotMapped, HeapLeft, NewlibLeft, locks, heap, newlib

\* When the loop over the frames ends, none is in hand.
LEMMA NothingLeft ==
  ASSUME IInv, NEW c \in Cores, call[c].pc = "free", call[c].i = call[c].n
  PROVE  InHand(c) = {}
<1>1. call[c].phys \in Nat /\ call[c].n \in Nat /\ call[c].i \in Nat
  BY Sizes DEF IInv, Types, CallRecords
<1>2. QED
  BY <1>1 DEF InHand

\* dma_free ends with its pages unmapped.
LEMMA DmaFreedQuiet ==
  ASSUME IInv, NEW c \in Cores, DmaFreed(c)
  PROVE  IInv'
<1>1. Left(c) /\ InHand(c) = {} /\ ~At(c, "_sbrk", "free")
  BY ReturnLeft, NothingLeft DEF DmaFreed, FreedAll, At
<1>2. Unbacked(call[c])
  BY Ranges DEF DmaFreed, FreedAll, At, Position, InDmaFree
<1>3. QED
  BY <1>1, <1>2, QuietReturn, Ranges DEF DmaFreed, HeapLeft, NewlibLeft, locks, heap, newlib

\* A step within a call, with nothing in hand before or after.
LEMMA QuietMove ==
  ASSUME IInv, NEW c \in Cores, NEW pc \in Pcs, Went(c, pc), InHand(c)' = InHand(c),
         ~At(c, "_sbrk", "free"), ~At(c, "_sbrk", "free")',
         UNCHANGED <<free, vm, heap, dma, newlib>>, HeapLeft(c), NewlibLeft(c),
         {mmu_lock', heap_lock', newlib_lock'} \subseteq Cores \cup {Nobody},
         newlib_lock' = Nobody => curr_brk <= CURR_NEWLIB_HEAP_END,
         Position(c)'
  PROVE  IInv'
<1>1. Types'
  BY QuietTypes, Ranges DEF Went, SameRange
<1>2. \A b \in stale : Gives(c, b) => Gives(c, b)'
  BY DEF Went, SameRange, Gives, Frees
<1>3. QED
  BY <1>1, <1>2, QuietStep DEF Went

\* kmalloc under heap_lock stays in its window.
LEMMA KmallocLocksQuiet ==
  ASSUME IInv, NEW c \in Cores, KmallocLocks(c)
  PROVE  IInv'
<1>1. Went(c, "grow") /\ call[c].fn = "kmalloc" /\ call[c].pc = "lock" /\ heap_lock = Nobody
  BY GotoWent DEF KmallocLocks, At, Pcs
<1>2. UNCHANGED <<free, vm, mmu_lock, newlib_lock, heap, dma, newlib>> /\ heap_lock' = c
  BY DEF KmallocLocks
<1>3. Position(c)'
  <2>1. call'[c].fn = "kmalloc" /\ call'[c].n = 1 /\ call'[c].arg \in Nat
    BY <1>1, Ranges DEF Position, InKmalloc, Went, SameRange
  <2>2. kmalloc_end(c)' = kmalloc_end(c)
    BY <1>1, <1>2 DEF kmalloc_end, heap, Went
  <2>3. QED
    BY <1>1, <1>2, <2>1, <2>2 DEF KmallocLocks, Position, Idle, InKmalloc, InDmaAlloc, InDmaFree, InSbrk, Went
<1>4. InHand(c)' = InHand(c) /\ ~At(c, "_sbrk", "free") /\ ~At(c, "_sbrk", "free")'
  BY <1>1 DEF InHand, Went, At
<1>5. QED
  BY <1>1, <1>2, <1>3, <1>4, QuietMove, Ranges DEF Pcs, HeapLeft, NewlibLeft, newlib

\* _sbrk under newlib_lock knows which way the break goes.
LEMMA SbrkLocksQuiet ==
  ASSUME IInv, NEW c \in Cores, SbrkLocks(c)
  PROVE  IInv'
<1>1. PICK pc \in {"grow", "shrink"} : Went(c, pc) /\ (pc = "shrink" <=> call[c].arg < 0)
  BY GotoWent DEF SbrkLocks, Pcs
<1>2. call[c].fn = "_sbrk" /\ call[c].pc = "lock" /\ newlib_lock = Nobody /\ InWindow(sbrk_end(c))
  BY DEF SbrkLocks, At
<1>3. UNCHANGED <<free, vm, mmu_lock, heap_lock, heap, dma, newlib>> /\ newlib_lock' = c
  BY DEF SbrkLocks
<1>4. curr_brk <= CURR_NEWLIB_HEAP_END
  BY <1>2, Ranges
<1>5. Position(c)'
  <2>1. call'[c].fn = "_sbrk" /\ call'[c].n = 1 /\ call'[c].arg = call[c].arg
    BY <1>1, <1>2, Ranges DEF Position, InSbrk, Went, SameRange
  <2>2. sbrk_end(c)' = sbrk_end(c) /\ UNCHANGED <<curr_brk, CURR_NEWLIB_HEAP_END>>
    BY <1>3, <2>1 DEF sbrk_end, newlib
  <2>3. call[c].arg \in Int /\ curr_brk \in Int /\ CURR_NEWLIB_HEAP_END \in Int
    BY Sizes, Ranges DEF CallRecords, IInv, Types, TypeOK, OnPage
  <2>4. call[c].arg < 0 => sbrk_end(c) <= CURR_NEWLIB_HEAP_END
    BY <1>4, <2>3 DEF sbrk_end
  <2>5. InWindow(sbrk_end(c))'
    BY <1>2, <2>2 DEF InWindow
  <2>6. QED
    BY <1>1, <1>3, <1>4, <2>1, <2>2, <2>4, <2>5
       DEF Position, Idle, InKmalloc, InDmaAlloc, InDmaFree, InSbrk, Went
<1>6. InHand(c)' = InHand(c) /\ ~At(c, "_sbrk", "free") /\ ~At(c, "_sbrk", "free")'
  BY <1>1, <1>2 DEF InHand, Went, At
<1>7. QED
  BY <1>1, <1>2, <1>3, <1>4, <1>5, <1>6, QuietMove, Ranges DEF Pcs, HeapLeft, NewlibLeft, heap

\* The moves of dma_alloc's error path.
LEMMA DmaMoveQuiet ==
  ASSUME IInv, NEW c \in Cores, NEW pc \in {"free", "reclaim"}, call[c].fn = "dma_alloc", Goto(c, pc),
         InHand(c)' = InHand(c), pc = "free" => call[c].n > 0,
         UNCHANGED <<free, vm, heap_lock, newlib_lock, heap, dma, newlib>>,
         mmu_lock' \in Cores \cup {Nobody}
  PROVE  IInv'
<1>1. Went(c, pc) /\ call'[c].fn = "dma_alloc"
  BY GotoWent DEF Pcs, Went, SameRange
<1>2. Unbacked(call[c])'
  BY <1>1, Ranges DEF Position, InDmaAlloc, Unbacked, PagesOf, Went, SameRange
<1>3. Position(c)'
  BY <1>1, <1>2 DEF Position, Idle, InKmalloc, InDmaAlloc, InDmaFree, InSbrk, Went, SameRange
<1>4. ~At(c, "_sbrk", "free") /\ ~At(c, "_sbrk", "free")'
  BY <1>1 DEF At
<1>5. QED
  BY <1>1, <1>3, <1>4, QuietMove, Ranges DEF Pcs, HeapLeft, NewlibLeft, heap, newlib

\* dma_alloc without frames has only its reservation to give back.
LEMMA DmaNoFramesQuiet ==
  ASSUME IInv, NEW c \in Cores, DmaNoFrames(c)
  PROVE  IInv'
<1>1. Went(c, "reclaim") /\ call[c].pc = "frames"
  BY GotoWent DEF DmaNoFrames, At, Pcs
<1>2. InHand(c)' = InHand(c)
  BY <1>1 DEF InHand, Went
<1>3. QED
  BY <1>2, DmaMoveQuiet, Ranges DEF DmaNoFrames, At, locks

\* A failed map leaves the frames in hand.
LEMMA DmaMapFailsQuiet ==
  ASSUME IInv, NEW c \in Cores, DmaMapFails(c)
  PROVE  IInv'
<1>1. Went(c, "free") /\ call[c].pc = "mapping" /\ call[c].n > 0
  BY GotoWent, Ranges DEF DmaMapFails, MapEnds, At, Pcs, Position, InDmaAlloc
<1>2. InHand(c)' = InHand(c)
  BY <1>1 DEF InHand, Went, SameRange
<1>3. QED
  BY <1>1, <1>2, DmaMoveQuiet DEF DmaMapFails, MapEnds, At

\* After its frames dma_alloc gives the reservation back.
LEMMA DmaFramesFreedQuiet ==
  ASSUME IInv, NEW c \in Cores, DmaFramesFreed(c)
  PROVE  IInv'
<1>1. Went(c, "reclaim")
  BY GotoWent DEF DmaFramesFreed, Pcs
<1>2. InHand(c)' = InHand(c)
  BY <1>1, NothingLeft DEF DmaFramesFreed, FreedAll, At, InHand, Went
<1>3. QED
  BY <1>2, DmaMoveQuiet, Ranges DEF DmaFramesFreed, FreedAll, At, locks

\* _free_sbrk picks the last page: the rounded break is a page below the end.
LEMMA SbrkShrinksQuiet ==
  ASSUME IInv, NEW c \in Cores, SbrkShrinks(c)
  PROVE  IInv'
<1>1. call[c].fn = "_sbrk" /\ call[c].pc = "shrink" /\ CURR_NEWLIB_HEAP_END > round_up(sbrk_end(c), PAGE_SIZE)
  BY DEF SbrkShrinks, At
<1>2. UNCHANGED <<free, vm, mmu_lock, heap_lock, newlib_lock, heap, dma, newlib, calls>>
  BY DEF SbrkShrinks, locks
<1> DEFINE va == CURR_NEWLIB_HEAP_END - PAGE_SIZE
<1>3. sbrk_end(c) \in Int /\ InWindow(sbrk_end(c)) /\ newlib_lock = c /\ call[c].n = 1
  BY <1>1, Ranges, Sizes DEF Position, InSbrk, InWindow
<1>4. va \in Nat /\ sbrk_end(c) <= va /\ va + PAGE_SIZE = CURR_NEWLIB_HEAP_END
  <2>1. PICK k \in Int : round_up(sbrk_end(c), PAGE_SIZE) = k * PAGE_SIZE /\ sbrk_end(c) <= k * PAGE_SIZE
    BY <1>3, RoundedUp, PageSize
  <2>2. PICK m \in Nat : CURR_NEWLIB_HEAP_END = m * PAGE_SIZE
    BY DEF IInv, Types, OnPage
  <2>3. k * PAGE_SIZE + PAGE_SIZE <= m * PAGE_SIZE
    BY <1>1, <2>1, <2>2, Multiples, PageSize
  <2>4. sbrk_end(c) >= 0
    BY <1>3, Sizes DEF InWindow
  <2>5. k * PAGE_SIZE \in Int /\ CURR_NEWLIB_HEAP_END \in Int /\ PAGE_SIZE \in Int
    BY PageSize DEF IInv, Types, OnPage
  <2>6. QED
    BY <1>3, <2>1, <2>2, <2>3, <2>4, <2>5
<1>5. /\ Others(c) /\ call'[c].fn = "_sbrk" /\ call'[c].pc = "translate" /\ call'[c].n = 1 /\ call'[c].va = va
      /\ call'[c].i = call[c].i /\ call'[c].arg = call[c].arg
  <2>1. call' = [call EXCEPT ![c].pc = "translate", ![c].va = va]
    BY DEF SbrkShrinks
  <2> HIDE DEF va
  <2>2. QED
    BY <1>1, <1>3, <1>4, <2>1 DEF IInv, Types, CallRecords, Others
<1>6. Types'
  BY <1>2, <1>3, <1>5, QuietTypes, Ranges
<1>7. Position(c)'
  <2>1. sbrk_end(c)' = sbrk_end(c) /\ UNCHANGED <<curr_brk, CURR_NEWLIB_HEAP_END>>
    BY <1>2, <1>5 DEF sbrk_end, newlib
  <2>2. InWindow(sbrk_end(c))'
    BY <1>3, <2>1 DEF InWindow
  <2> HIDE DEF va
  <2>3. sbrk_end(c) <= CURR_NEWLIB_HEAP_END
    BY <1>3, <1>4, PageSize
  <2>4. QED
    BY <1>2, <1>3, <1>4, <1>5, <2>1, <2>2, <2>3 DEF Position, Idle, InKmalloc, InDmaAlloc, InDmaFree, InSbrk
<1>8. InHand(c)' = InHand(c)
  BY <1>1, <1>5 DEF InHand
<1>9. ~Frees(c) /\ ~(Reserves(c)' \/ Frees(c)')
  BY <1>1, <1>5 DEF Frees, Reserves
<1>10. QED
  BY <1>1, <1>2, <1>3, <1>5, <1>6, <1>7, <1>8, <1>9, QuietStep, Ranges, NothingOwed
     DEF At, HeapLeft, NewlibLeft, heap, newlib

-----------------------------------------------------------------------------
(* Steps that move frames.  Accounted changes by none of them but one.      *)

\* The pages below heap_end, as addresses and as page numbers.
LEMMA HeapAddresses ==
  ASSUME Types, NEW p \in PageNumbers
  PROVE  HEAP_BASE <= p * PAGE_SIZE /\ p * PAGE_SIZE < heap_end <=> p \in HeapPages /\ p < PageOf(heap_end)
<1>1. heap_end \in Nat /\ OnPage(heap_end) /\ HEAP_BASE <= heap_end /\ heap_end <= HEAP_BASE + HEAP_MAX_SIZE
  BY Sizes DEF Types, TypeOK, OnPage
<1>2. p \in Nat
  BY Windows DEF PageNumbers
<1>3. OnPage(p * PAGE_SIZE) /\ PageOf(p * PAGE_SIZE) = p /\ p * PAGE_SIZE \in Nat
  BY <1>2, MultipleOnPage DEF OnPage
<1>4. HEAP_BASE <= p * PAGE_SIZE <=> PageOf(HEAP_BASE) <= p
  BY <1>3, Windows, PageOrder
<1>5. p * PAGE_SIZE < heap_end <=> p < PageOf(heap_end)
  BY <1>1, <1>3, PageOrder
<1>6. PageOf(heap_end) <= PageOf(HEAP_BASE + HEAP_MAX_SIZE)
  BY <1>1, Windows, PageOrder, Sizes
<1>7. QED
  BY <1>1, <1>2, <1>4, <1>5, <1>6, Windows DEF HeapPages, Window, OnPage

\* The holes are pages of the heap window.
LEMMA HolesInHeap ==
  ASSUME Types
  PROVE  Holes = {p \in HeapPages : p < PageOf(heap_end) /\ vm[p] = 0}
BY HeapAddresses, WindowsApart DEF Holes

\* The holes stay while heap_end and the heap's pages do.
LEMMA HolesSame ==
  ASSUME Types, heap_end' = heap_end, \A p \in HeapPages : vm'[p] = vm[p]
  PROVE  Holes' = Holes
BY HeapAddresses, WindowsApart DEF Holes

\* NoFrameLost, with its two sets named.
LEMMA NoneLost ==
  NoFrameLost <=> Cardinality(Lost) = Cardinality(Holes)
BY DEF NoFrameLost, Lost, Holes

\* No frame is lost when the same frames are accounted for.
LEMMA SameFrames ==
  ASSUME IInv, Frames \cap Accounted' = Frames \cap Accounted, Holes' = Holes
  PROVE  NoFrameLost'
<1>1. Lost' = Lost
  BY DEF Lost
<1>2. (NoFrameLost <=> Cardinality(Lost) = Cardinality(Holes))'
  BY DEF NoFrameLost, Lost, Holes
<1>3. QED
  BY <1>1, <1>2, NoneLost DEF IInv

\* The ranges of what a core has in hand.
LEMMA FrameNumbers ==
  ASSUME IInv, NEW c \in Cores
  PROVE  /\ call[c].phys \in 0..LastFrame /\ call[c].n \in Nat /\ call[c].i \in 0..call[c].n
         /\ LastFrame \in Nat /\ 0 \notin Frames /\ free \subseteq Frames
         /\ \A p \in PageNumbers : vm[p] \in 0..LastFrame
BY Sizes DEF IInv, Types, TypeOK, CallRecords, Frames

\* alloc_frames moves a run from free to the caller's hand.
LEMMA AllocatedFrames ==
  ASSUME IInv, NEW c \in Cores, Others(c), InHand(c) = {}, UNCHANGED <<vm, heap_end>>,
         NEW run \in SUBSET free, free' = free \ run, InHand(c)' = run
  PROVE  FramesApart' /\ NoFrameLost'
<1>1. \A d \in Cores \ {c} : InHand(d)' = InHand(d)
  BY DEF Others, InHand
<1>2. FramesApart'
  BY <1>1, FrameNumbers DEF IInv, FramesApart, MappedFramesOwned
<1>3. UNION {InHand(d)' : d \in Cores} = run \cup UNION {InHand(d) : d \in Cores}
  BY <1>1
<1>4. Accounted' = Accounted
  BY <1>3 DEF Accounted
<1>5. Holes' = Holes
  BY DEF Holes
<1>6. QED
  BY <1>2, <1>4, <1>5, SameFrames

\* What is in hand goes back to the PMM, or some of it.
LEMMA FreedFrames ==
  ASSUME IInv, NEW c \in Cores, Others(c), UNCHANGED <<vm, heap_end>>,
         NEW f \in InHand(c), free' = free \cup {f}, InHand(c)' = InHand(c) \ {f}
  PROVE  FramesApart' /\ NoFrameLost'
<1>1. \A d \in Cores \ {c} : InHand(d)' = InHand(d)
  BY DEF Others, InHand
<1>2. FramesApart'
  BY <1>1 DEF IInv, FramesApart, MappedFramesOwned
<1>3. {f} \cup UNION {InHand(d)' : d \in Cores} = UNION {InHand(d) : d \in Cores}
  BY <1>1 DEF IInv, FramesApart
<1>4. Accounted' = Accounted
  BY <1>3 DEF Accounted
<1>5. Holes' = Holes
  BY DEF Holes
<1>6. QED
  BY <1>2, <1>4, <1>5, SameFrames

\* A step within a call that moves frames and leaves the allocators alone.
LEMMA FrameStep ==
  ASSUME IInv, NEW c \in Cores, Others(c), UNCHANGED <<vm, locks, heap, dma, newlib, calls>>,
         free' \subseteq Frames, call'[c].i \in 0..call'[c].n, Position(c)',
         FramesApart', NoFrameLost',
         Reserves(c)' \/ Frees(c)' => SameRange(c), Frees(c) => SameRange(c),
         At(c, "_sbrk", "free") <=> At(c, "_sbrk", "free")', At(c, "_sbrk", "free") => SameRange(c)
  PROVE  IInv'
<1>1. \A d \in Cores : call'[d].n \in Nat /\ call'[d].i \in 0..call'[d].n
  BY DEF Others, IInv, Types, TypeOK, CallRecords
<1>2. Types'
  BY <1>1 DEF IInv, Types, TypeOK, Others, locks, heap, dma, newlib
<1>3. \A d \in Cores : Position(d)'
  BY OtherPositions DEF dma, HeapLeft, NewlibLeft, locks, heap, newlib
<1>4. Regions'
  BY RegionsKept DEF dma
<1>5. \A b \in stale : Gives(c, b) => Gives(c, b)'
  BY DEF Gives, Frees, SameRange
<1>6. Mappings'
  BY <1>5, MappingsKept, Ranges DEF dma, heap, newlib, locks
<1>7. Blocks'
  BY DEF IInv, Blocks, heap
<1>8. QED
  BY <1>2, <1>3, <1>4, <1>6, <1>7 DEF IInv

\* The three allocations.
LEMMA AllocatedStep ==
  ASSUME IInv, NEW c \in Cores, NEW va \in Nat, call[c].n \in Nat \ {0},
         call[c].fn \in {"kmalloc", "dma_alloc", "_sbrk"}, call[c].pc \in {"grow", "frames"},
         Allocated(c, va, call[c].n),
         call[c].fn = "dma_alloc" => va = call[c].va,
         call[c].fn = "kmalloc" => call[c].pc = "grow" /\ va = heap_end /\ heap_end < kmalloc_end(c),
         call[c].fn = "_sbrk" => /\ call[c].pc = "grow" /\ va = CURR_NEWLIB_HEAP_END
                                 /\ CURR_NEWLIB_HEAP_END < sbrk_end(c),
         UNCHANGED <<vm, locks, heap, dma, newlib>>
  PROVE  IInv'
<1> DEFINE n == call[c].n
<1>1. PICK s \in Frames : /\ s..(s + n - 1) \subseteq free /\ free' = free \ (s..(s + n - 1))
                          /\ call' = [call EXCEPT ![c].pc = "map", ![c].va = va, ![c].phys = s, ![c].i = 0]
  BY DEF Allocated
<1>2. s \in 0..LastFrame /\ s \in Nat
  BY Sizes DEF Frames
<1>3. /\ Others(c) /\ call'[c].fn = call[c].fn /\ call'[c].pc = "map" /\ call'[c].arg = call[c].arg
      /\ call'[c].n = n /\ call'[c].va = va /\ call'[c].phys = s /\ call'[c].i = 0
  BY <1>1, <1>2 DEF IInv, Types, CallRecords, Others
<1>4. UNCHANGED calls
  BY DEF Allocated
<1>5. InHand(c) = {}
  BY DEF InHand
<1>6. InHand(c)' = s..(s + n - 1)
  BY <1>2, <1>3 DEF InHand
<1>7. FramesApart' /\ NoFrameLost'
  BY <1>1, <1>3, <1>5, <1>6, AllocatedFrames DEF heap
<1>8. Position(c)'
  <2>1. Position(c)
    BY Ranges
  <2>2. InKmalloc(c)'
    BY <1>3, <2>1 DEF Position, InKmalloc, kmalloc_end, heap, locks
  <2>3. InDmaAlloc(c)'
    BY <1>3, <2>1 DEF Position, InDmaAlloc, Unbacked, PagesOf
  <2>4. InSbrk(c)'
    BY <1>3, <2>1 DEF Position, InSbrk, sbrk_end, InWindow, newlib, locks
  <2>5. QED
    BY <1>3, <2>2, <2>3, <2>4 DEF Position, Idle, InDmaFree
<1>9. QED
  <2>1. free' \subseteq Frames
    BY <1>1, FrameNumbers
  <2>2. call'[c].i \in 0..call'[c].n
    BY <1>3
  <2>3. Reserves(c)' \/ Frees(c)' => SameRange(c)
    BY <1>3 DEF Reserves, Frees, SameRange
  <2>4. ~Frees(c) /\ ~At(c, "_sbrk", "free") /\ ~At(c, "_sbrk", "free")'
    BY <1>3 DEF Frees, At
  <2>5. QED
    BY <1>3, <1>4, <1>7, <1>8, <2>1, <2>2, <2>3, <2>4, FrameStep

\* kmalloc takes a frame for the page at heap_end.
LEMMA KmallocFrameKeeps ==
  ASSUME IInv, NEW c \in Cores, KmallocFrame(c)
  PROVE  IInv'
<1>1. call[c].fn = "kmalloc" /\ call[c].pc = "grow" /\ call[c].n = 1 /\ heap_end \in Nat
  BY Ranges DEF KmallocFrame, At, Position, InKmalloc, IInv, Types, OnPage
<1>2. QED
  BY <1>1, AllocatedStep DEF KmallocFrame

\* dma_alloc takes a run of frames for its reservation.
LEMMA DmaFramesKeeps ==
  ASSUME IInv, NEW c \in Cores, DmaFrames(c)
  PROVE  IInv'
<1>1. call[c].fn = "dma_alloc" /\ call[c].pc = "frames" /\ call[c].n \in Nat \ {0} /\ call[c].va \in Nat
  BY DEF DmaFrames, At, IInv, Types, CallRecords
<1>2. QED
  BY <1>1, AllocatedStep DEF DmaFrames

\* _sbrk takes a frame for the page at CURR_NEWLIB_HEAP_END.
LEMMA SbrkFrameKeeps ==
  ASSUME IInv, NEW c \in Cores, SbrkFrame(c)
  PROVE  IInv'
<1>1. call[c].fn = "_sbrk" /\ call[c].pc = "grow" /\ call[c].n = 1 /\ CURR_NEWLIB_HEAP_END \in Nat
  BY Ranges DEF SbrkFrame, At, Position, InSbrk, IInv, Types, OnPage
<1>2. QED
  BY <1>1, AllocatedStep DEF SbrkFrame

\* Freeing the next frame in hand.
LEMMA FreeFrameKeeps ==
  ASSUME IInv, NEW c \in Cores, FreeFrame(c)
  PROVE  IInv'
<1>1. call[c].pc = "free" /\ call[c].i < call[c].n
  BY DEF FreeFrame, FreesNext
<1> DEFINE f == call[c].phys + call[c].i
<1>2. /\ Others(c) /\ SameRange(c) /\ call'[c].pc = "free" /\ call'[c].arg = call[c].arg
      /\ call'[c].phys = call[c].phys /\ call'[c].i = call[c].i + 1
  <2>1. call' = [call EXCEPT ![c].i = @ + 1]
    BY DEF FreeFrame
  <2>2. QED
    BY <1>1, <2>1 DEF IInv, Types, CallRecords, Others, SameRange
<1>3. f \in InHand(c) /\ InHand(c)' = InHand(c) \ {f}
  BY <1>1, <1>2, FrameNumbers DEF InHand, SameRange
<1>4. free' = free \cup {f} /\ f \in Frames
  BY <1>3 DEF FreeFrame, IInv, FramesApart
<1>5. FramesApart' /\ NoFrameLost'
  BY <1>2, <1>3, <1>4, FreedFrames DEF FreeFrame, heap
<1>6. Position(c)'
  <2>1. Position(c) /\ call'[c].fn = call[c].fn /\ call'[c].n = call[c].n /\ call'[c].va = call[c].va
    BY <1>2, Ranges DEF SameRange
  <2>2. UNCHANGED <<vm, locks, heap, dma, newlib>>
    BY DEF FreeFrame
  <2>3. Unbacked(call[c])' <=> Unbacked(call[c])
    BY <2>1, <2>2 DEF Unbacked, PagesOf
  <2>4. InDmaAlloc(c)' /\ InDmaFree(c)'
    BY <1>1, <1>2, <2>1, <2>2, <2>3 DEF Position, InDmaAlloc, InDmaFree, dma
  <2>5. InSbrk(c)'
    BY <1>1, <1>2, <2>1, <2>2 DEF Position, InSbrk, sbrk_end, InWindow, newlib, locks
  <2>6. QED
    BY <1>1, <1>2, <2>1, <2>4, <2>5 DEF Position, Idle, InKmalloc
<1>7. QED
  <2>1. free' \subseteq Frames
    BY <1>4, FrameNumbers
  <2>2. call'[c].i \in 0..call'[c].n
    BY <1>1, <1>2, FrameNumbers DEF SameRange
  <2>3. At(c, "_sbrk", "free") <=> At(c, "_sbrk", "free")'
    BY <1>1, <1>2 DEF At, SameRange
  <2>4. QED
    BY <1>2, <1>5, <1>6, <2>1, <2>2, <2>3, FrameStep DEF FreeFrame

-----------------------------------------------------------------------------
(* Steps that change the page tables.  Only the pages in hand change, and   *)
(* nobody else has those.                                                   *)

\* No page but core c's changes.
OnlyItsPages(c) == \A p \in PageNumbers \ PagesOf(call[c]) : vm'[p] = vm[p]

\* The pages other cores work on are not touched.
LEMMA PagesLeft ==
  ASSUME IInv, NEW c \in Cores, Works(c), OnlyItsPages(c), NEW d \in Cores \ {c}, Works(d) \/ Reserves(d)
  PROVE  \A p \in PagesOf(call[d]) : vm'[p] = vm[p]
<1>1. PagesOf(call[c]) \cap PagesOf(call[d]) = {}
  BY WorkApart
<1>2. PagesOf(call[d]) \subseteq PageNumbers
  BY WorkPlaces, ReservedPages, WindowsApart DEF WorkPlace
<1>3. QED
  BY <1>1, <1>2 DEF OnlyItsPages

\* Where a buffer lies, handed out or freed.
LEMMA BufferPages ==
  ASSUME IInv, NEW b \in OfDma
  PROVE  /\ b.n \in Nat \ {0} /\ InDmaWindow(b) /\ PageOf(b.va) \in PagesOf(b)
         /\ PagesOf(b) \subseteq DmaPages /\ \A p \in PagesOf(b) : p < PageOf(dma_bump_ptr)
<1>1. b.n \in Nat \ {0} /\ InDmaWindow(b)
  BY DEF IInv, Types, Buffers, Regions, OfDma
<1>2. PageOf(b.va) \in PagesOf(b)
  BY <1>1 DEF InDmaWindow, OnPage, PagesOf
<1>3. QED
  BY <1>1, <1>2, RegionPages DEF IInv

\* A buffer's pages, and a freed one's while another core gives it back or
\* nobody does, are not among the pages core c works on.
LEMMA BuffersLeft ==
  ASSUME IInv, NEW c \in Cores, Works(c), OnlyItsPages(c), NEW b \in OfDma, b \in stale => ~Gives(c, b)
  PROVE  \A p \in PagesOf(b) : vm'[p] = vm[p]
<1>1. WorkPlace(c) /\ PagesOf(b) \subseteq DmaPages /\ PagesOf(b) \subseteq PageNumbers
  BY WorkPlaces, BufferPages, WindowsApart
<1>2. PagesOf(b) \cap PagesOf(call[c]) = {}
  <2>1. CASE call[c].fn = "dma_alloc"
    BY <2>1 DEF IInv, Regions, Reserves
  <2>2. CASE call[c].fn = "dma_free"
    <3>1. PICK d \in stale : d.va = call[c].va /\ d.n = call[c].n
      BY <2>2, Ranges DEF Position, InDmaFree
    <3>2. b # d
      BY <2>2, <3>1 DEF Gives, Frees, IInv, Regions
    <3>3. PagesOf(b) \cap PagesOf(d) = {}
      BY <3>2 DEF IInv, Regions, OfDma
    <3>4. QED
      BY <3>1, <3>3 DEF PagesOf
  <2>3. CASE call[c].fn \in {"kmalloc", "_sbrk"}
    BY <1>1, <2>3, WindowsApart DEF WorkPlace, Zone
  <2>4. QED
    BY <1>1, <2>1, <2>2, <2>3 DEF WorkPlace
<1>3. QED
  BY <1>1, <1>2 DEF OnlyItsPages

\* What unmap does, for dma_free and _free_sbrk alike.
LEMMA UnmapMoves ==
  ASSUME IInv, NEW c \in Cores, Unmap(c)
  PROVE  /\ Went(c, "free") /\ WorkPlace(c) /\ Works(c) /\ OnlyItsPages(c)
         /\ call[c].pc = "unmap" /\ call[c].fn \in {"dma_free", "_sbrk"}
         /\ UNCHANGED <<free, locks, heap, dma, newlib>>
         /\ call[c].phys \in Frames /\ call[c].i = 0 /\ BackedBy(call[c], call[c].phys)
         /\ vm' \in [PageNumbers -> 0..LastFrame] /\ Unbacked(call[c])'
<1>1. Went(c, "free") /\ call[c].pc = "unmap" /\ UNCHANGED <<free, locks, heap, dma, newlib>> /\ Unmapped(c)
  BY GotoWent DEF Unmap, Pcs
<1>2. WorkPlace(c) /\ Works(c)
  BY <1>1, WorkPlaces DEF Works
<1>3. call[c].fn \in {"dma_free", "_sbrk"} /\ call[c].i = 0 /\ call[c].phys \in Frames
  BY <1>1, <1>2, Ranges, FrameNumbers DEF Position, Idle, InKmalloc, InDmaAlloc, WorkPlace, Frames
<1>4. vm' = [p \in PageNumbers |-> IF p \in PagesOf(call[c]) THEN 0 ELSE vm[p]]
  BY <1>1 DEF Unmapped, PagesOf
<1>5. OnlyItsPages(c)
  BY <1>4 DEF OnlyItsPages
<1>6. vm' \in [PageNumbers -> 0..LastFrame]
  BY <1>4, Sizes DEF IInv, Types, TypeOK
<1>7. \A p \in PagesOf(call[c]) : vm'[p] = 0
  BY <1>2, <1>4 DEF WorkPlace
<1>8. Unbacked(call[c])'
  BY <1>1, <1>7 DEF Unbacked, PagesOf, Went, SameRange
<1>9. BackedBy(call[c], call[c].phys)
  <2>1. CASE call[c].fn = "dma_free"
    BY <1>1, <2>1, Ranges DEF Position, InDmaFree
  <2>2. CASE call[c].fn = "_sbrk"
    <3>1. vm[PageOf(call[c].va)] = call[c].phys /\ PagesOf(call[c]) = {PageOf(call[c].va)}
      BY <1>1, <1>2, <2>2, Ranges DEF Position, InSbrk, WorkPlace
    <3>2. PageOf(call[c].va) \in Nat /\ call[c].phys \in Nat
      BY <1>2, FrameNumbers DEF WorkPlace, OnPage
    <3>3. QED
      BY <3>1, <3>2 DEF BackedBy
  <2>3. QED
    BY <1>3, <2>1, <2>2
<1>10. QED
  BY <1>1, <1>2, <1>3, <1>5, <1>6, <1>8, <1>9

\* unmap moves frames from the tables to the caller's hand, and none is twice there.
LEMMA UnmapFrames ==
  ASSUME IInv, NEW c \in Cores, Unmap(c)
  PROVE  FramesApart' /\ NoFrameLost'
<1> DEFINE s == call[c].phys  P == PagesOf(call[c])  H == s..(s + call[c].n - 1)
<1>1. /\ P \subseteq PageNumbers /\ \A p \in PageNumbers \ P : vm'[p] = vm[p]
      /\ \A p \in P : vm'[p] = 0
  BY UnmapMoves DEF WorkPlace, OnlyItsPages, Unbacked, PagesOf, Went, SameRange
<1>2. InHand(c) = {} /\ InHand(c)' = H
  BY UnmapMoves, FrameNumbers DEF InHand, Went, SameRange
<1>3. \A d \in Cores \ {c} : InHand(d)' = InHand(d)
  BY UnmapMoves DEF Went, Others, InHand
<1>4. (\A p \in P : vm[p] \in H) /\ (\A f \in H : \E p \in P : vm[p] = f)
  <2>1. PageOf(call[c].va) \in Nat /\ s \in Nat /\ call[c].n \in Nat
    BY UnmapMoves, FrameNumbers DEF WorkPlace, OnPage
  <2>2. \A p \in P : vm[p] = s + (p - PageOf(call[c].va))
    BY UnmapMoves DEF BackedBy
  <2> DEFINE first == PageOf(call[c].va)
  <2>3. \A p \in P : p \in first..(first + call[c].n - 1)
    BY DEF PagesOf
  <2>4. ASSUME NEW f \in H PROVE \E p \in P : vm[p] = f
    <3>1. first + (f - s) \in P /\ s + ((first + (f - s)) - first) = f
      BY <2>1 DEF PagesOf
    <3>2. QED
      BY <2>2, <3>1
  <2> HIDE DEF P, s, first
  <2>5. \A p \in P : vm[p] \in H
    BY <2>1, <2>2, <2>3 DEF first
  <2>6. QED
    BY <2>4, <2>5
<1>5. 0 \notin H /\ UNCHANGED <<free, heap>>
  BY UnmapMoves, FrameNumbers DEF Frames
<1> HIDE DEF s, P, H
<1>6. H \subseteq Frames
  <2>1. \A f \in H : f \in 0..LastFrame /\ f # 0
    BY <1>1, <1>4, <1>5, FrameNumbers
  <2>2. QED
    BY <2>1, FrameNumbers DEF Frames
<1>7. FramesApart'
  <2>1. MappedFramesOwned'
    BY <1>1, <1>5, FrameNumbers DEF IInv, FramesApart, MappedFramesOwned
  <2>2. \A d \in Cores : InHand(d)' \subseteq Frames \ free'
    BY <1>1, <1>2, <1>3, <1>4, <1>5, <1>6 DEF IInv, FramesApart, MappedFramesOwned
  <2>3. \A d \in Cores, p \in PageNumbers : vm'[p] \notin InHand(d)'
    <3> SUFFICES ASSUME NEW d \in Cores, NEW p \in PageNumbers PROVE vm'[p] \notin InHand(d)'
      OBVIOUS
    <3>1. 0 \notin InHand(d)'
      BY <2>2, FrameNumbers
    <3>2. CASE d = c /\ p \notin P
      BY <1>1, <1>2, <1>4, <1>5, <3>2 DEF IInv, FramesApart, MappedFramesOwned
    <3>3. QED
      BY <1>1, <1>3, <3>1, <3>2 DEF IInv, FramesApart
  <2>4. \A d, e \in Cores : d # e => InHand(d)' \cap InHand(e)' = {}
    BY <1>1, <1>2, <1>3, <1>4 DEF IInv, FramesApart
  <2>5. QED
    BY <2>1, <2>2, <2>3, <2>4 DEF FramesApart
<1>8. Frames \cap Accounted' = Frames \cap Accounted
  <2>1. UNION {InHand(d)' : d \in Cores} = H \cup UNION {InHand(d) : d \in Cores}
    BY <1>2, <1>3
  <2>2. Frames \cap ({vm'[p] : p \in PageNumbers} \cup H) = Frames \cap {vm[p] : p \in PageNumbers}
    BY <1>1, <1>4, <1>6, FrameNumbers
  <2>3. QED
    BY <1>5, <2>1, <2>2 DEF Accounted
<1>9. Holes' = Holes
  <2>1. \A p \in HeapPages : vm'[p] = vm[p]
    BY <1>1, UnmapMoves, WindowsApart DEF WorkPlace, Zone, P
  <2>2. heap_end' = heap_end /\ Types
    BY <1>5 DEF IInv, heap
  <2>3. QED
    BY <2>1, <2>2, HolesSame
<1>10. QED
  BY <1>7, <1>8, <1>9, SameFrames

\* Unmap keeps the invariant: the page is out of the window before its frame is free.
LEMMA UnmapKeeps ==
  ASSUME IInv, NEW c \in Cores, Unmap(c)
  PROVE  IInv'
<1>1. /\ Went(c, "free") /\ WorkPlace(c) /\ Works(c) /\ OnlyItsPages(c)
      /\ call[c].pc = "unmap" /\ call[c].fn \in {"dma_free", "_sbrk"} /\ call[c].i = 0
      /\ vm' \in [PageNumbers -> 0..LastFrame] /\ Unbacked(call[c])'
  BY UnmapMoves
<1>2. /\ UNCHANGED <<free, mmu_lock, heap_lock, newlib_lock, bump_ptr, heap_end, blocks, dma_bump_ptr, buffers, stale>>
      /\ UNCHANGED <<curr_brk, CURR_NEWLIB_HEAP_END, calls>>
  BY UnmapMoves DEF locks, heap, dma, newlib, Went
<1>3. Others(c) /\ SameRange(c) /\ call'[c].pc = "free"
  BY <1>1 DEF Went
<1>4. Types'
  <2>1. \A d \in Cores : call'[d].n \in Nat /\ call'[d].i \in 0..call'[d].n
    BY <1>1 DEF Went, SameRange, Others, IInv, Types, TypeOK, CallRecords
  <2>2. TypeOK'
    BY <1>1, <1>2, <2>1 DEF IInv, Types, TypeOK
  <2>3. QED
    BY <1>2, <1>3, <2>2 DEF IInv, Types, Others
<1>5. \A d \in Cores : Position(d)'
  <2>1. HeapLeft(c) /\ NewlibLeft(c) /\ stale \subseteq stale'
    BY <1>2 DEF HeapLeft, NewlibLeft
  <2>2. \A d \in Cores \ {c} : Position(d)'
    BY <1>1, <1>3, <2>1, PagesLeft, OtherPositions
  <2>3. Position(c) /\ call'[c].fn = call[c].fn /\ call'[c].n = call[c].n /\ call'[c].va = call[c].va /\ call'[c].arg = call[c].arg
    BY <1>1, Ranges DEF Went, SameRange
  <2>4. InDmaFree(c)'
    BY <1>1, <1>2, <1>3, <2>3 DEF Position, InDmaFree
  <2>5. InSbrk(c)'
    BY <1>1, <1>2, <1>3, <2>3 DEF Position, InSbrk, sbrk_end, InWindow
  <2>6. Position(c)'
    BY <1>1, <1>3, <2>3, <2>4, <2>5 DEF Position, Idle, InKmalloc, InDmaAlloc
  <2>7. QED
    BY <2>2, <2>6
<1>6. Regions'
  BY <1>2, <1>3, RegionsKept
<1>7. Mappings'
  <2>1. \A p \in PageNumbers : vm'[p] = IF p \in PagesOf(call[c]) THEN 0 ELSE vm[p]
    BY <1>1 DEF OnlyItsPages, Unbacked, PagesOf, Went, SameRange
  <2>2. \A p \in HeapPages \cup DmaPages : vm[p] = 0 => vm'[p] = 0
    BY <2>1, WindowsApart
  <2>3. DmaBuffersBacked'
    <3>1. \A b \in buffers : \A p \in PagesOf(b) : vm'[p] = vm[p]
      BY <1>1, BuffersLeft DEF OfDma, IInv, Regions
    <3>2. QED
      BY <1>2, <3>1 DEF IInv, Mappings, DmaBuffersBacked
  <2>4. ASSUME NEW b \in stale, \A d \in Cores : ~Gives(d, b)' PROVE Unbacked(b)'
    <3>1. \A d \in Cores : ~Gives(d, b)
      BY <1>3, <2>4 DEF Others, SameRange, Gives, Frees
    <3>2. Unbacked(b) /\ PagesOf(b) \subseteq PageNumbers
      BY <3>1, BufferPages, WindowsApart DEF OfDma, IInv, Mappings
    <3>3. QED
      BY <2>1, <3>2 DEF Unbacked
  <2>5. ASSUME NEW p \in NewlibPages
        PROVE  vm'[p] # 0 <=> /\ p < PageOf(CURR_NEWLIB_HEAP_END)
                              /\ \A d \in Cores : At(d, "_sbrk", "free")' => p # PageOf(call'[d].va)
    <3>1. vm[p] # 0 <=> /\ p < PageOf(CURR_NEWLIB_HEAP_END)
                        /\ \A d \in Cores : At(d, "_sbrk", "free") => p # PageOf(call[d].va)
      BY DEF IInv, Mappings
    <3>2. vm'[p] = IF p \in PagesOf(call[c]) THEN 0 ELSE vm[p]
      BY <2>1, WindowsApart
    <3>3. ~At(c, "_sbrk", "free") /\ (At(c, "_sbrk", "free")' <=> call[c].fn = "_sbrk") /\ call'[c].va = call[c].va
      BY <1>1, <1>3 DEF At, SameRange
    <3>4. \A d \in Cores \ {c} : (At(d, "_sbrk", "free") <=> At(d, "_sbrk", "free")') /\ call'[d].va = call[d].va
      BY <1>3 DEF At, Others
    <3>5. call[c].fn = "_sbrk" => (p \in PagesOf(call[c]) <=> p = PageOf(call[c].va))
      BY <1>1 DEF WorkPlace
    <3>6. call[c].fn # "_sbrk" => p \notin PagesOf(call[c])
      BY <1>1, WindowsApart DEF WorkPlace, Zone
    <3>7. QED
      BY <3>1, <3>2, <3>3, <3>4, <3>5, <3>6
  <2>6. QED
    BY <1>2, <2>2, <2>3, <2>4, <2>5 DEF IInv, Mappings
<1>8. FramesApart' /\ NoFrameLost'
  BY UnmapFrames
<1>9. Blocks'
  BY <1>2 DEF IInv, Blocks
<1>10. QED
  BY <1>4, <1>5, <1>6, <1>7, <1>8, <1>9 DEF IInv

\* The end of a map: the pages were empty, and now have the frames in hand.
LEMMA MappingInHand ==
  ASSUME IInv, NEW c \in Cores, call[c].pc = "mapping"
  PROVE  /\ Works(c) /\ WorkPlace(c) /\ call[c].i = 0 /\ call[c].fn \in {"kmalloc", "dma_alloc", "_sbrk"}
         /\ Unbacked(call[c])
         /\ InHand(c) = call[c].phys..(call[c].phys + call[c].n - 1) /\ call[c].phys \in InHand(c)
<1>1. Works(c) /\ WorkPlace(c) /\ call[c].i = 0 /\ call[c].fn \in {"kmalloc", "dma_alloc", "_sbrk"}
  BY WorkPlaces, Ranges DEF Works, Position, InDmaFree, WorkPlace
<1>2. call[c].fn = "kmalloc" => Unbacked(call[c])
  <2> SUFFICES ASSUME call[c].fn = "kmalloc" PROVE Unbacked(call[c])
    OBVIOUS
  <2>1. call[c].va = heap_end /\ PagesOf(call[c]) = {PageOf(heap_end)} /\ PageOf(heap_end) \in HeapPages
    BY <1>1, Ranges DEF Position, InKmalloc, WorkPlace, Zone
  <2>2. PageOf(heap_end) >= PageOf(heap_end)
    BY DEF IInv, Types, OnPage
  <2>3. QED
    BY <2>1, <2>2 DEF IInv, Mappings, Unbacked
<1>3. call[c].fn = "_sbrk" => Unbacked(call[c])
  <2> SUFFICES ASSUME call[c].fn = "_sbrk" PROVE Unbacked(call[c])
    OBVIOUS
  <2> DEFINE e == PageOf(CURR_NEWLIB_HEAP_END)
  <2>1. call[c].va = CURR_NEWLIB_HEAP_END /\ PagesOf(call[c]) = {e} /\ e \in NewlibPages
    BY <1>1, Ranges DEF Position, InSbrk, WorkPlace, Zone
  <2>2. ~(e < e)
    BY DEF IInv, Types, OnPage
  <2>3. QED
    BY <2>1, <2>2 DEF IInv, Mappings, Unbacked
<1>4. call[c].fn = "dma_alloc" => Unbacked(call[c])
  BY Ranges DEF Position, InDmaAlloc
<1>5. InHand(c) = call[c].phys..(call[c].phys + call[c].n - 1)
  BY <1>1, FrameNumbers DEF InHand
<1>6. call[c].phys \in InHand(c)
  BY <1>1, <1>5, FrameNumbers DEF WorkPlace
<1>7. QED
  BY <1>1, <1>2, <1>3, <1>4, <1>5, <1>6

\* A map of n pages enters exactly the n frames in hand.
LEMMA MappedPages ==
  ASSUME IInv, NEW c \in Cores, call[c].pc = "mapping", Mapped(c)
  PROVE  /\ OnlyItsPages(c) /\ vm' \in [PageNumbers -> 0..LastFrame]
         /\ \A p \in PagesOf(call[c]) : vm'[p] = call[c].phys + (p - PageOf(call[c].va))
         /\ \A p \in PagesOf(call[c]) : vm'[p] \in InHand(c)
         /\ \A p \in PagesOf(call[c]) : vm'[p] # 0
         /\ \A p, q \in PagesOf(call[c]) : vm'[p] = vm'[q] => p = q
         /\ \A f \in InHand(c) : \E p \in PagesOf(call[c]) : vm'[p] = f
<1> DEFINE s == call[c].phys  first == PageOf(call[c].va)  n == call[c].n
<1>1. /\ s \in Nat /\ first \in Nat /\ n \in Nat \ {0} /\ InHand(c) = s..(s + n - 1)
      /\ PagesOf(call[c]) = first..(first + n - 1) /\ PagesOf(call[c]) \subseteq PageNumbers
  BY MappingInHand, FrameNumbers DEF WorkPlace, OnPage, PagesOf
<1>2. vm' = [p \in PageNumbers |-> IF p \in PagesOf(call[c]) THEN s + (p - first) ELSE vm[p]]
  BY DEF Mapped, PagesOf
<1>3. \A p \in PagesOf(call[c]) : vm'[p] = s + (p - first)
  BY <1>1, <1>2
<1>4. OnlyItsPages(c)
  BY <1>2 DEF OnlyItsPages
<1>5. InHand(c) \subseteq Frames
  BY DEF IInv, FramesApart
<1> HIDE DEF s, first, n
<1>6. \A p \in PagesOf(call[c]) : vm'[p] \in InHand(c)
  BY <1>1, <1>3
<1>7. \A p, q \in PagesOf(call[c]) : vm'[p] = vm'[q] => p = q
  BY <1>1, <1>3
<1>8. ASSUME NEW f \in InHand(c) PROVE \E p \in PagesOf(call[c]) : vm'[p] = f
  <2>1. first + (f - s) \in PagesOf(call[c]) /\ s + ((first + (f - s)) - first) = f
    BY <1>1
  <2>2. QED
    BY <1>3, <2>1
<1>9. vm' \in [PageNumbers -> 0..LastFrame]
  <2>1. \A p \in PageNumbers : vm'[p] \in 0..LastFrame
    <3>1. Frames \subseteq 0..LastFrame
      BY Sizes DEF Frames
    <3>2. QED
      BY <1>2, <1>4, <1>5, <1>6, <3>1, FrameNumbers DEF OnlyItsPages
  <2>2. QED
    BY <1>2, <2>1
<1>10. QED
  BY <1>3, <1>4, <1>5, <1>6, <1>7, <1>8, <1>9, FrameNumbers DEF s, first

\* map moves frames from the caller's hand to the tables.
LEMMA MappedFrames ==
  ASSUME IInv, NEW c \in Cores, call[c].pc = "mapping", Mapped(c), Others(c), InHand(c)' = {}, UNCHANGED free
  PROVE  FramesApart' /\ Frames \cap Accounted' = Frames \cap Accounted
<1> DEFINE P == PagesOf(call[c])  H == InHand(c)
<1>1. /\ P \subseteq PageNumbers /\ \A p \in PageNumbers \ P : vm'[p] = vm[p]
      /\ \A p \in P : vm[p] = 0
  BY MappingInHand, MappedPages DEF WorkPlace, OnlyItsPages, Unbacked
<1>2. /\ \A p \in P : vm'[p] \in H /\ vm'[p] # 0
      /\ \A p, q \in P : vm'[p] = vm'[q] => p = q
      /\ \A f \in H : \E p \in P : vm'[p] = f
  BY MappedPages
<1>3. \A d \in Cores \ {c} : InHand(d)' = InHand(d)
  BY DEF Others, InHand
<1>4. H \subseteq Frames \ free /\ (\A p \in PageNumbers : vm[p] \notin H)
      /\ \A d \in Cores \ {c} : H \cap InHand(d) = {}
  BY DEF IInv, FramesApart
<1> HIDE DEF P, H
<1>5. FramesApart'
  <2>1. \A p \in PageNumbers : vm'[p] \notin free'
    BY <1>1, <1>2, <1>4 DEF IInv, FramesApart, MappedFramesOwned
  <2>2. \A p, q \in PageNumbers : vm'[p] # 0 /\ vm'[p] = vm'[q] => p = q
    <3> SUFFICES ASSUME NEW p \in PageNumbers, NEW q \in PageNumbers, vm'[p] # 0, vm'[p] = vm'[q], p # q
                 PROVE  FALSE
      OBVIOUS
    <3>1. CASE p \notin P /\ q \notin P
      BY <1>1, <3>1 DEF IInv, FramesApart, MappedFramesOwned
    <3>2. CASE p \in P \/ q \in P
      BY <1>1, <1>2, <1>4, <3>2
    <3>3. QED
      BY <3>1, <3>2
  <2>3. \A d \in Cores : InHand(d)' \subseteq Frames \ free'
    BY <1>3 DEF IInv, FramesApart
  <2>4. \A d \in Cores, p \in PageNumbers : vm'[p] \notin InHand(d)'
    BY <1>1, <1>2, <1>3, <1>4 DEF IInv, FramesApart
  <2>5. \A d, e \in Cores : d # e => InHand(d)' \cap InHand(e)' = {}
    BY <1>3 DEF IInv, FramesApart
  <2>6. QED
    BY <2>1, <2>2, <2>3, <2>4, <2>5 DEF FramesApart, MappedFramesOwned
<1>6. Frames \cap Accounted' = Frames \cap Accounted
  <2>1. UNION {InHand(d) : d \in Cores} = H \cup UNION {InHand(d)' : d \in Cores}
    BY <1>3 DEF H
  <2>2. Frames \cap {vm'[p] : p \in PageNumbers} = Frames \cap ({vm[p] : p \in PageNumbers} \cup H)
    BY <1>1, <1>2, <1>4, FrameNumbers
  <2>3. QED
    BY <2>1, <2>2 DEF Accounted
<1>7. QED
  BY <1>5, <1>6

-----------------------------------------------------------------------------
(* kmalloc's map ends, with the page mapped or the frame lost. *)

\* What the end of kmalloc's map does whether it succeeded or not.
LEMMA KmallocMapMoves ==
  ASSUME IInv, NEW c \in Cores, KmallocMapEnds(c)
  PROVE  /\ Went(c, "grow") /\ call[c].fn = "kmalloc" /\ call[c].pc = "mapping" /\ heap_lock = c
         /\ call[c].n = 1 /\ call[c].arg \in Nat /\ kmalloc_end(c) <= HEAP_BASE + HEAP_MAX_SIZE
         /\ PagesOf(call[c]) = {PageOf(heap_end)} /\ PageOf(heap_end) \in HeapPages
         /\ vm' \in [PageNumbers -> 0..LastFrame] /\ OnlyItsPages(c)
         /\ OnPage(heap_end)' /\ (PageOf(heap_end))' = PageOf(heap_end) + 1
         /\ heap_end' \in HEAP_BASE..(HEAP_BASE + HEAP_MAX_SIZE) /\ heap_end <= heap_end'
         /\ InHand(c)' = {}
         /\ UNCHANGED <<free, heap_lock, newlib_lock, bump_ptr, blocks>>
         /\ UNCHANGED <<dma_bump_ptr, buffers, stale, curr_brk, CURR_NEWLIB_HEAP_END, calls>>
         /\ mmu_lock' = Nobody
<1>1. call[c].fn = "kmalloc" /\ call[c].pc = "mapping" /\ Went(c, "grow")
  BY GotoWent DEF KmallocMapEnds, MapEnds, At, Pcs
<1>2. /\ UNCHANGED <<free, heap_lock, newlib_lock, bump_ptr, blocks>>
      /\ UNCHANGED <<dma_bump_ptr, buffers, stale, curr_brk, CURR_NEWLIB_HEAP_END, calls>>
      /\ mmu_lock' = Nobody /\ heap_end' = heap_end + PAGE_SIZE
  BY <1>1 DEF KmallocMapEnds, MapEnds, dma, newlib, Went
<1>3. /\ heap_lock = c /\ call[c].n = 1 /\ call[c].arg \in Nat /\ kmalloc_end(c) <= HEAP_BASE + HEAP_MAX_SIZE
      /\ call[c].va = heap_end /\ heap_end < kmalloc_end(c)
  BY <1>1, Ranges DEF Position, InKmalloc
<1>4. PagesOf(call[c]) = {PageOf(heap_end)} /\ PageOf(heap_end) \in HeapPages
  BY <1>1, <1>3, MappingInHand DEF WorkPlace, Zone
<1>5. vm' \in [PageNumbers -> 0..LastFrame] /\ OnlyItsPages(c)
  BY <1>1, MappedPages DEF KmallocMapEnds, OnlyItsPages, IInv, Types, TypeOK
<1>6. OnPage(heap_end)' /\ (PageOf(heap_end))' = PageOf(heap_end) + 1
  <2>1. OnPage(heap_end + PAGE_SIZE) /\ PageOf(heap_end + PAGE_SIZE) = PageOf(heap_end) + 1
    BY NextPage DEF IInv, Types
  <2>2. QED
    BY <1>2, <2>1 DEF OnPage, PageOf
<1>7. heap_end' \in HEAP_BASE..(HEAP_BASE + HEAP_MAX_SIZE) /\ heap_end <= heap_end'
  <2>1. PageOf(heap_end) + 1 <= PageOf(HEAP_BASE + HEAP_MAX_SIZE)
    BY <1>4, Windows DEF HeapPages, Window, OnPage
  <2> DEFINE h == heap_end + PAGE_SIZE
  <2>2. OnPage(h) /\ PageOf(h) = PageOf(heap_end) + 1 /\ h \in Nat
    BY NextPage DEF IInv, Types, OnPage
  <2>3. HEAP_BASE + HEAP_MAX_SIZE \in Nat
    BY Sizes
  <2> HIDE DEF h
  <2>4. h <= HEAP_BASE + HEAP_MAX_SIZE
    BY <2>1, <2>2, <2>3, PageOrder
  <2>5. QED
    BY <1>2, <2>2, <2>4, Sizes DEF h, IInv, Types, TypeOK, OnPage
<1>8. InHand(c)' = {}
  BY <1>1 DEF Went, InHand
<1>9. QED
  BY <1>1, <1>2, <1>3, <1>4, <1>5, <1>6, <1>7, <1>8

\* A kmalloc page is mapped, or one frame is lost and one hole is left.
LEMMA KmallocMapFrames ==
  ASSUME IInv, NEW c \in Cores, KmallocMapEnds(c)
  PROVE  FramesApart' /\ NoFrameLost'
<1> DEFINE page == PageOf(heap_end)
<1>1. /\ Others(c) /\ call[c].pc = "mapping" /\ call[c].n = 1 /\ PagesOf(call[c]) = {page} /\ page \in HeapPages
      /\ InHand(c)' = {} /\ UNCHANGED free /\ (PageOf(heap_end))' = page + 1 /\ page \in Nat
  BY KmallocMapMoves DEF Went, IInv, Types, OnPage
<1>2. Types /\ OnPage(heap_end)' /\ heap_end' \in HEAP_BASE..(HEAP_BASE + HEAP_MAX_SIZE)
  BY KmallocMapMoves DEF IInv
<1>3. Holes = {p \in HeapPages : p < page /\ vm[p] = 0}
  BY <1>2, HolesInHeap
<1>4. Holes' = {p \in HeapPages : p < page + 1 /\ vm'[p] = 0}
  <2>1. ASSUME NEW p \in PageNumbers
        PROVE  HEAP_BASE <= p * PAGE_SIZE /\ p * PAGE_SIZE < heap_end' <=> p \in HeapPages /\ p < page + 1
    <3>1. p \in Nat
      BY Windows DEF PageNumbers
    <3>2. OnPage(p * PAGE_SIZE) /\ PageOf(p * PAGE_SIZE) = p /\ p * PAGE_SIZE \in Nat
      BY <3>1, MultipleOnPage DEF OnPage
    <3>3. HEAP_BASE <= p * PAGE_SIZE <=> PageOf(HEAP_BASE) <= p
      BY <3>2, Windows, PageOrder
    <3>4. p * PAGE_SIZE < heap_end' <=> p < page + 1
      <4>1. OnPage(heap_end') /\ PageOf(heap_end') = page + 1
        BY <1>1, <1>2 DEF OnPage, PageOf
      <4>2. QED
        BY <3>2, <4>1, PageOrder
    <3>5. page + 1 <= PageOf(HEAP_BASE + HEAP_MAX_SIZE)
      BY <1>1, Windows DEF HeapPages, Window, OnPage
    <3>6. QED
      BY <1>1, <3>1, <3>3, <3>4, <3>5, Windows DEF HeapPages, Window, OnPage
  <2>2. QED
    BY <2>1, WindowsApart DEF Holes
<1>5. CASE Mapped(c)
  <2>1. FramesApart' /\ Frames \cap Accounted' = Frames \cap Accounted
    BY <1>1, <1>5, MappedFrames
  <2>2. vm'[page] # 0 /\ \A p \in HeapPages \ {page} : vm'[p] = vm[p]
    BY <1>1, <1>5, MappedPages, WindowsApart DEF OnlyItsPages
  <2>3. \A p \in HeapPages : p \in Nat
    BY Windows, WindowsApart DEF PageNumbers
  <2> HIDE DEF page
  <2>4. Holes' = Holes
    <3>1. \A p \in HeapPages : p < page + 1 /\ vm'[p] = 0 <=> p < page /\ vm[p] = 0
      BY <1>1, <2>2, <2>3
    <3>2. QED
      BY <1>3, <1>4, <3>1
  <2>5. QED
    BY <2>1, <2>4, SameFrames
<1>6. CASE UNCHANGED vm
  <2> DEFINE f == call[c].phys
  <2>1. InHand(c) = {f} /\ f \in Frames \ free /\ (\A p \in PageNumbers : vm[p] # f)
        /\ \A d \in Cores \ {c} : f \notin InHand(d)
    <3>1. InHand(c) = f..(f + 1 - 1)
      BY <1>1, MappingInHand
    <3>2. InHand(c) = {f}
      BY <3>1, FrameNumbers
    <3>3. QED
      BY <3>2 DEF IInv, FramesApart
  <2>2. \A d \in Cores \ {c} : InHand(d)' = InHand(d)
    BY <1>1 DEF Others, InHand
  <2>3. FramesApart'
    BY <1>1, <1>6, <2>2 DEF IInv, FramesApart, MappedFramesOwned
  <2> HIDE DEF f
  <2>4. f \in Accounted /\ f \notin Accounted' /\ Accounted' \cup {f} = Accounted
    <3>1. UNION {InHand(d) : d \in Cores} = {f} \cup UNION {InHand(d)' : d \in Cores}
      BY <1>1, <2>1, <2>2
    <3>2. f \notin UNION {InHand(d)' : d \in Cores}
      BY <1>1, <2>1, <2>2
    <3>3. QED
      BY <1>1, <1>6, <2>1, <3>1, <3>2 DEF Accounted
  <2>5. Lost' = Lost \cup {f} /\ f \notin Lost
    BY <2>1, <2>4 DEF Lost
  <2>6. page \notin Holes /\ vm[page] = 0
    BY <1>1, <1>3, MappingInHand DEF Unbacked
  <2>7. \A p \in HeapPages : p \in Nat
    BY Windows, WindowsApart DEF PageNumbers
  <2> HIDE DEF page
  <2>8. Holes' = Holes \cup {page}
    <3>1. \A p \in HeapPages : p < page + 1 /\ vm'[p] = 0 <=> (p < page /\ vm[p] = 0) \/ p = page
      <4>1. \A p \in HeapPages : p < page + 1 <=> p < page \/ p = page
        BY <1>1, <2>7
      <4>2. \A p \in HeapPages : vm'[p] = vm[p]
        BY <1>6
      <4>3. QED
        BY <2>6, <4>1, <4>2
    <3>2. \A p : p \in Holes' <=> p \in Holes \/ p = page
      BY <1>1, <1>3, <1>4, <3>1
    <3>3. QED
      BY <3>2
  <2>9. IsFiniteSet(Lost) /\ IsFiniteSet(Holes)
    <3>1. IsFiniteSet(1..LastFrame) /\ IsFiniteSet(0..LastPage)
      BY FS_Interval, Sizes, Windows
    <3>2. Lost \subseteq 1..LastFrame /\ Holes \subseteq 0..LastPage
      BY DEF Lost, Holes, Frames, PageNumbers
    <3>3. QED
      BY <3>1, <3>2, FS_Subset
  <2>10. Cardinality(Lost') = Cardinality(Lost) + 1
    BY <2>5, <2>9, FS_AddElement
  <2>11. Cardinality(Holes') = Cardinality(Holes) + 1
    BY <2>6, <2>8, <2>9, FS_AddElement
  <2>12. Cardinality(Lost) = Cardinality(Holes)
    BY NoneLost DEF IInv
  <2>13. NoFrameLost'
    <3>1. NoFrameLost' <=> Cardinality(Lost') = Cardinality(Holes')
      BY DEF NoFrameLost, Lost, Holes
    <3>2. QED
      BY <2>10, <2>11, <2>12, <3>1
  <2>14. QED
    BY <2>3, <2>13
<1>7. QED
  BY <1>5, <1>6 DEF KmallocMapEnds

\* The end of kmalloc's map keeps the invariant.
LEMMA KmallocMapEndsKeeps ==
  ASSUME IInv, NEW c \in Cores, KmallocMapEnds(c)
  PROVE  IInv'
<1>1. /\ Others(c) /\ SameRange(c) /\ call'[c].pc = "grow" /\ call'[c].arg = call[c].arg /\ call'[c].i = call[c].i
      /\ call[c].fn = "kmalloc" /\ call[c].pc = "mapping" /\ heap_lock = c
      /\ call[c].n = 1 /\ call[c].arg \in Nat /\ kmalloc_end(c) <= HEAP_BASE + HEAP_MAX_SIZE
      /\ PagesOf(call[c]) = {PageOf(heap_end)} /\ PageOf(heap_end) \in HeapPages
      /\ vm' \in [PageNumbers -> 0..LastFrame] /\ OnlyItsPages(c)
      /\ OnPage(heap_end)' /\ (PageOf(heap_end))' = PageOf(heap_end) + 1
      /\ heap_end' \in HEAP_BASE..(HEAP_BASE + HEAP_MAX_SIZE) /\ heap_end <= heap_end'
      /\ UNCHANGED <<free, heap_lock, newlib_lock, bump_ptr, blocks>>
      /\ UNCHANGED <<dma_bump_ptr, buffers, stale, curr_brk, CURR_NEWLIB_HEAP_END, calls>>
      /\ mmu_lock' = Nobody
  BY KmallocMapMoves DEF Went
<1>2. Types'
  <2>1. \A d \in Cores : call'[d].n \in Nat /\ call'[d].i \in 0..call'[d].n
    BY <1>1 DEF SameRange, Others, IInv, Types, TypeOK, CallRecords
  <2>2. bump_ptr \in HEAP_BASE..heap_end'
    BY <1>1, Sizes DEF IInv, Types, TypeOK, OnPage
  <2>3. TypeOK'
    BY <1>1, <2>1, <2>2 DEF IInv, Types, TypeOK
  <2>4. QED
    BY <1>1, <2>3 DEF IInv, Types, Others
<1>3. Works(c) /\ ~Reserves(c) /\ ~Frees(c) /\ Nobody \notin Cores
  BY <1>1, Requests DEF Works, Reserves, Frees
<1>4. \A d \in Cores : Position(d)'
  <2>1. HeapLeft(c) /\ NewlibLeft(c) /\ stale \subseteq stale'
    BY <1>1 DEF HeapLeft, NewlibLeft
  <2>2. \A d \in Cores \ {c} : Position(d)'
    BY <1>1, <1>3, <2>1, PagesLeft, OtherPositions
  <2>3. kmalloc_end(c)' = kmalloc_end(c)
    BY <1>1 DEF kmalloc_end
  <2>4. Position(c)'
    BY <1>1, <2>3 DEF SameRange, Position, Idle, InKmalloc, InDmaAlloc, InDmaFree, InSbrk
  <2>5. QED
    BY <2>2, <2>4
<1>5. Regions'
  BY <1>1, RegionsKept
<1>6. Mappings'
  <2>1. \A p \in PageNumbers \ {PageOf(heap_end)} : vm'[p] = vm[p]
    BY <1>1 DEF OnlyItsPages
  <2>2. \A p \in DmaPages \cup NewlibPages : vm'[p] = vm[p]
    BY <1>1, <2>1, WindowsApart
  <2>3. \A p \in HeapPages : p >= (PageOf(heap_end))' => vm'[p] = 0
    <3> SUFFICES ASSUME NEW p \in HeapPages, p >= PageOf(heap_end) + 1 PROVE vm'[p] = 0
      BY <1>1
    <3>1. p \in Int /\ PageOf(heap_end) \in Int /\ p \in PageNumbers
      <4>1. PageNumbers \subseteq Int
        BY Windows DEF PageNumbers
      <4>2. QED
        BY <1>1, <4>1, WindowsApart
    <3>2. p >= PageOf(heap_end) /\ p # PageOf(heap_end)
      BY <3>1
    <3>3. vm'[p] = vm[p] /\ vm[p] = 0
      BY <2>1, <3>1, <3>2 DEF IInv, Mappings
    <3>4. QED
      BY <3>3
  <2>4. \A b \in OfDma : \A p \in PagesOf(b) : vm'[p] = vm[p]
    BY <2>2, BufferPages
  <2>5. DmaBuffersBacked'
    BY <1>1, <2>4 DEF IInv, Mappings, DmaBuffersBacked, OfDma
  <2>6. \A d \in Cores, b \in stale : Gives(d, b)' <=> Gives(d, b)
    BY <1>1 DEF Others, SameRange, Gives, Frees
  <2>7. \A b \in stale : (\A d \in Cores : ~Gives(d, b)') => Unbacked(b)'
    BY <1>1, <2>4, <2>6 DEF IInv, Mappings, Unbacked, OfDma
  <2>8. \A d \in Cores : (At(d, "_sbrk", "free")' <=> At(d, "_sbrk", "free"))
                         /\ (At(d, "_sbrk", "free") => call'[d] = call[d])
    BY <1>1 DEF Others, At
  <2>9. \A p \in NewlibPages :
          vm'[p] # 0 <=> /\ p < PageOf(CURR_NEWLIB_HEAP_END)
                         /\ \A d \in Cores : At(d, "_sbrk", "free")' => p # PageOf(call'[d].va)
    BY <2>2, <2>8 DEF IInv, Mappings
  <2>10. \A p \in DmaPages : p >= PageOf(dma_bump_ptr) => vm'[p] = 0
    BY <2>2 DEF IInv, Mappings
  <2>11. QED
    BY <1>1, <2>3, <2>5, <2>7, <2>9, <2>10, Ranges DEF Mappings
<1>7. FramesApart' /\ NoFrameLost'
  BY KmallocMapFrames
<1>8. Blocks'
  BY <1>1 DEF IInv, Blocks
<1>9. QED
  BY <1>2, <1>4, <1>5, <1>6, <1>7, <1>8 DEF IInv

\* _sbrk counts the page it mapped.
LEMMA SbrkMappedKeeps ==
  ASSUME IInv, NEW c \in Cores, SbrkMapped(c)
  PROVE  IInv'
<1> DEFINE e == PageOf(CURR_NEWLIB_HEAP_END)
<1>1. /\ Others(c) /\ SameRange(c) /\ call'[c].pc = "grow" /\ call'[c].arg = call[c].arg /\ call'[c].i = call[c].i
      /\ call[c].fn = "_sbrk" /\ call[c].pc = "mapping" /\ Mapped(c) /\ mmu_lock' = Nobody
      /\ UNCHANGED <<free, heap_lock, newlib_lock, bump_ptr, heap_end, blocks>>
      /\ UNCHANGED <<dma_bump_ptr, buffers, stale, curr_brk, calls>>
      /\ CURR_NEWLIB_HEAP_END' = CURR_NEWLIB_HEAP_END + PAGE_SIZE
  BY GotoWent DEF SbrkMapped, MapEnds, At, Pcs, Went, heap, dma
<1>2. /\ newlib_lock = c /\ call[c].n = 1 /\ InWindow(sbrk_end(c)) /\ CURR_NEWLIB_HEAP_END < sbrk_end(c)
      /\ curr_brk <= CURR_NEWLIB_HEAP_END
  BY <1>1, Ranges DEF Position, InSbrk
<1>3. PagesOf(call[c]) = {e} /\ e \in NewlibPages /\ e \in Nat
  <2>1. call[c].va = CURR_NEWLIB_HEAP_END
    BY <1>1, Ranges DEF Position, InSbrk
  <2>2. QED
    BY <1>1, <2>1, MappingInHand DEF WorkPlace, Zone, OnPage
<1>4. OnPage(CURR_NEWLIB_HEAP_END)' /\ (PageOf(CURR_NEWLIB_HEAP_END))' = e + 1
  <2>1. OnPage(CURR_NEWLIB_HEAP_END + PAGE_SIZE) /\ PageOf(CURR_NEWLIB_HEAP_END + PAGE_SIZE) = e + 1
    BY NextPage DEF IInv, Types
  <2>2. QED
    BY <1>1, <2>1 DEF OnPage, PageOf
<1>5. CURR_NEWLIB_HEAP_END <= CURR_NEWLIB_HEAP_END' /\ {CURR_NEWLIB_HEAP_END, CURR_NEWLIB_HEAP_END', curr_brk} \subseteq Int
  BY <1>1, PageSize, Sizes DEF IInv, Types, TypeOK, OnPage
<1> HIDE DEF e
<1>6. vm' \in [PageNumbers -> 0..LastFrame] /\ OnlyItsPages(c) /\ vm'[e] # 0
  BY <1>1, <1>3, MappedPages
<1>7. Types'
  <2>1. \A d \in Cores : call'[d].n \in Nat /\ call'[d].i \in 0..call'[d].n
    BY <1>1 DEF SameRange, Others, IInv, Types, TypeOK, CallRecords
  <2>2. TypeOK'
    BY <1>1, <1>6, <2>1 DEF IInv, Types, TypeOK
  <2>3. (PageOf(CURR_NEWLIB_HEAP_END))' <= LastPage + 1
    BY <1>3, <1>4, Windows DEF NewlibPages, OnPage
  <2>4. NEWLIB_HEAP_BASE <= CURR_NEWLIB_HEAP_END'
    BY <1>5, Sizes DEF IInv, Types
  <2>5. QED
    BY <1>1, <1>4, <2>2, <2>3, <2>4 DEF IInv, Types, Others
<1>8. Works(c) /\ ~Reserves(c) /\ ~Frees(c) /\ Nobody \notin Cores
  BY <1>1, Requests DEF Works, Reserves, Frees
<1>9. \A d \in Cores : Position(d)'
  <2>1. HeapLeft(c) /\ NewlibLeft(c) /\ stale \subseteq stale'
    BY <1>1, <1>2 DEF HeapLeft, NewlibLeft
  <2>2. \A d \in Cores \ {c} : Position(d)'
    BY <1>1, <1>6, <1>8, <2>1, PagesLeft, OtherPositions
  <2>3. InWindow(sbrk_end(c))'
    BY <1>1, <1>2 DEF sbrk_end, InWindow
  <2>4. Position(c)'
    BY <1>1, <1>2, <1>5, <2>3 DEF SameRange, Position, Idle, InKmalloc, InDmaAlloc, InDmaFree, InSbrk
  <2>5. QED
    BY <2>2, <2>4
<1>10. Regions'
  BY <1>1, RegionsKept
<1>11. Mappings'
  <2>1. \A p \in PageNumbers \ {e} : vm'[p] = vm[p]
    BY <1>3, <1>6 DEF OnlyItsPages
  <2>2. \A p \in DmaPages \cup HeapPages : vm'[p] = vm[p]
    BY <1>3, <2>1, WindowsApart
  <2>3. \A b \in OfDma : \A p \in PagesOf(b) : vm'[p] = vm[p]
    BY <2>2, BufferPages
  <2>4. DmaBuffersBacked'
    BY <1>1, <2>3 DEF IInv, Mappings, DmaBuffersBacked, OfDma
  <2>5. \A d \in Cores, b \in stale : Gives(d, b)' <=> Gives(d, b)
    BY <1>1 DEF Others, SameRange, Gives, Frees
  <2>6. \A b \in stale : (\A d \in Cores : ~Gives(d, b)') => Unbacked(b)'
    BY <1>1, <2>3, <2>5 DEF IInv, Mappings, Unbacked, OfDma
  <2>7. \A d \in Cores : ~At(d, "_sbrk", "free") /\ ~At(d, "_sbrk", "free")'
    BY <1>1, <1>2 DEF Others, At, IInv, Position, InSbrk
  <2>8. \A p \in NewlibPages : vm'[p] # 0 <=> p < e + 1
    <3> SUFFICES ASSUME NEW p \in NewlibPages PROVE vm'[p] # 0 <=> p < e + 1
      OBVIOUS
    <3>1. p \in Nat /\ p \in PageNumbers
      BY Windows, WindowsApart DEF PageNumbers
    <3>2. p # e => (vm'[p] # 0 <=> p < e)
      BY <2>1, <2>7, <3>1 DEF IInv, Mappings, e
    <3>3. QED
      BY <1>3, <1>6, <3>1, <3>2
  <2>9. \A p \in DmaPages : p >= PageOf(dma_bump_ptr) => vm'[p] = 0
    BY <2>2 DEF IInv, Mappings
  <2>10. \A p \in HeapPages : p >= PageOf(heap_end) => vm'[p] = 0
    BY <2>2 DEF IInv, Mappings
  <2>11. curr_brk <= CURR_NEWLIB_HEAP_END'
    BY <1>2, <1>5
  <2>12. QED
    BY <1>1, <1>4, <2>4, <2>6, <2>7, <2>8, <2>9, <2>10, <2>11 DEF Mappings
<1>12. FramesApart' /\ NoFrameLost'
  <2>1. InHand(c)' = {}
    BY <1>1 DEF InHand
  <2>2. FramesApart' /\ Frames \cap Accounted' = Frames \cap Accounted
    BY <1>1, <2>1, MappedFrames
  <2>3. \A p \in HeapPages : vm'[p] = vm[p]
    BY <1>3, <1>6, WindowsApart DEF OnlyItsPages
  <2>4. Holes' = Holes
    BY <1>1, <2>3, HolesSame DEF IInv
  <2>5. QED
    BY <2>2, <2>4, SameFrames
<1>13. Blocks'
  BY <1>1 DEF IInv, Blocks
<1>14. QED
  BY <1>7, <1>9, <1>10, <1>11, <1>12, <1>13 DEF IInv

\* A buffer is handed out: the reservation becomes a buffer with the same pages.
LEMMA DmaMappedKeeps ==
  ASSUME IInv, NEW c \in Cores, DmaMapped(c)
  PROVE  IInv'
<1> DEFINE b == [va |-> call[c].va, n |-> call[c].n, phys |-> call[c].phys]
<1>1. /\ call[c].fn = "dma_alloc" /\ call[c].pc = "mapping" /\ Mapped(c) /\ Left(c) /\ mmu_lock' = Nobody
      /\ buffers' = buffers \cup {b}
      /\ UNCHANGED <<free, heap_lock, newlib_lock, bump_ptr, heap_end, blocks, dma_bump_ptr, stale>>
      /\ UNCHANGED <<curr_brk, CURR_NEWLIB_HEAP_END>>
  BY ReturnLeft DEF DmaMapped, MapEnds, At, heap, newlib
<1>2. /\ Others(c) /\ call'[c].fn = "none" /\ call'[c].pc \in {"none", "panic"}
      /\ call'[c].n = 0 /\ call'[c].i = 0 /\ UNCHANGED calls
  BY <1>1 DEF Left
<1>3. Works(c) /\ Reserves(c) /\ WorkPlace(c) /\ Unbacked(call[c])
  BY <1>1, MappingInHand DEF Reserves
<1>4. vm' \in [PageNumbers -> 0..LastFrame] /\ OnlyItsPages(c)
      /\ \A p \in PagesOf(call[c]) : vm'[p] = call[c].phys + (p - PageOf(call[c].va))
  BY <1>1, MappedPages
<1>5. b \in Buffers /\ PagesOf(b) = PagesOf(call[c]) /\ InDmaWindow(b) /\ PageOf(b.va) \in PagesOf(b)
  <2>1. call[c].phys \in Frames
    BY <1>1, MappingInHand DEF IInv, FramesApart
  <2>2. call[c].va \in Nat /\ call[c].n \in Nat \ {0}
    BY <1>3 DEF WorkPlace, OnPage
  <2>3. b \in Buffers
    BY <2>1, <2>2 DEF Buffers
  <2>4. InDmaWindow(call[c])
    BY <1>3 DEF IInv, Regions
  <2>5. QED
    BY <1>3, <2>3, <2>4 DEF PagesOf, InDmaWindow, End, WorkPlace
<1>6. ASSUME NEW d \in OfDma PROVE PagesOf(d) \cap PagesOf(b) = {} /\ d # b
  <2>1. PagesOf(d) \cap PagesOf(call[c]) = {}
    BY <1>3 DEF IInv, Regions
  <2>2. QED
    BY <1>5, <2>1
<1>7. \A p \in PagesOf(b) : vm'[p] = b.phys + (p - PageOf(b.va))
  BY <1>4, <1>5
<1> HIDE DEF b
<1>8. Types'
  <2>1. \A d \in Cores : call'[d].n \in Nat /\ call'[d].i \in 0..call'[d].n
    BY <1>2 DEF Others, IInv, Types, TypeOK, CallRecords
  <2>2. TypeOK'
    BY <1>1, <1>2, <1>4, <2>1 DEF IInv, Types, TypeOK
  <2>3. QED
    BY <1>1, <1>2, <1>5, <2>2 DEF IInv, Types, Others
<1>9. \A d \in Cores : Position(d)'
  <2>1. HeapLeft(c) /\ NewlibLeft(c) /\ stale \subseteq stale'
    BY <1>1 DEF HeapLeft, NewlibLeft
  <2>2. \A d \in Cores \ {c} : Position(d)'
    BY <1>2, <1>3, <1>4, <2>1, PagesLeft, OtherPositions
  <2>3. Position(c)'
    BY <1>2 DEF Position, Idle, InKmalloc, InDmaAlloc, InDmaFree, InSbrk
  <2>4. QED
    BY <2>2, <2>3
<1>10. \A d \in Cores : /\ (Reserves(d)' <=> Reserves(d) /\ d # c) /\ (Frees(d)' <=> Frees(d))
                        /\ d # c => call'[d] = call[d]
  BY <1>1, <1>2 DEF Others, Reserves, Frees
<1>11. Regions'
  <2>1. OfDma' = OfDma \cup {b} /\ buffers' \cap stale' = {}
    BY <1>1, <1>6 DEF OfDma, IInv, Regions
  <2>2. \A d \in OfDma' : InDmaWindow(d)'
    BY <1>1, <1>5, <2>1 DEF IInv, Regions, InDmaWindow, End
  <2>3. \A d \in Cores : Reserves(d)' => InDmaWindow(call[d])'
    BY <1>1, <1>10 DEF IInv, Regions, InDmaWindow, End
  <2>4. \A a, d \in OfDma' : a # d => PagesOf(a) \cap PagesOf(d) = {}
    BY <1>6, <2>1 DEF IInv, Regions
  <2>5. \A a \in OfDma', d \in Cores : Reserves(d)' => PagesOf(a) \cap PagesOf(call[d])' = {}
    <3> SUFFICES ASSUME NEW a \in OfDma', NEW d \in Cores, Reserves(d), d # c
                 PROVE  PagesOf(a) \cap PagesOf(call[d])' = {}
      BY <1>10
    <3>1. PagesOf(call[d])' = PagesOf(call[d])
      BY <1>10 DEF PagesOf
    <3>2. PagesOf(call[c]) \cap PagesOf(call[d]) = {}
      BY <1>3 DEF IInv, Regions
    <3>3. QED
      BY <1>5, <2>1, <3>1, <3>2 DEF IInv, Regions
  <2>6. \A d, e \in Cores : d # e /\ Reserves(d)' /\ Reserves(e)' => PagesOf(call[d])' \cap PagesOf(call[e])' = {}
    <3>1. \A d \in Cores : Reserves(d)' => PagesOf(call[d])' = PagesOf(call[d])
      BY <1>10 DEF PagesOf
    <3>2. QED
      BY <1>10, <3>1 DEF IInv, Regions
  <2>7. \A d, e \in Cores : d # e /\ Frees(d)' /\ Frees(e)' => call'[d].va # call'[e].va
    <3>1. ~Frees(c)
      BY <1>1 DEF Frees
    <3>2. QED
      BY <1>10, <3>1 DEF IInv, Regions
  <2>8. QED
    BY <2>1, <2>2, <2>3, <2>4, <2>5, <2>6, <2>7 DEF Regions, PagesOf
<1>12. Mappings'
  <2>1. PagesOf(call[c]) \subseteq DmaPages /\ \A p \in PagesOf(call[c]) : p < PageOf(dma_bump_ptr)
    BY <1>3, ReservedPages
  <2>2. \A p \in HeapPages \cup NewlibPages : vm'[p] = vm[p]
    BY <1>4, <2>1, WindowsApart DEF OnlyItsPages
  <2>3. \A p \in DmaPages : p >= PageOf(dma_bump_ptr) => vm'[p] = 0
    <3> SUFFICES ASSUME NEW p \in DmaPages, p >= PageOf(dma_bump_ptr) PROVE vm'[p] = 0
      OBVIOUS
    <3>1. p \in Int /\ PageOf(dma_bump_ptr) \in Int /\ p \in PageNumbers
      <4>1. PageNumbers \subseteq Int
        BY Windows DEF PageNumbers
      <4>2. QED
        BY <4>1, WindowsApart DEF IInv, Types, OnPage
    <3>2. p \notin PagesOf(call[c])
      BY <2>1, <3>1
    <3>3. QED
      BY <1>4, <3>1, <3>2 DEF OnlyItsPages, IInv, Mappings
  <2>4. \A d \in OfDma : \A p \in PagesOf(d) : vm'[p] = vm[p]
    <3>1. ~Frees(c)
      BY <1>1 DEF Frees
    <3>2. QED
      BY <1>3, <1>4, <3>1, BuffersLeft DEF Gives
  <2>5. DmaBuffersBacked'
    <3>1. \A d \in buffers : \A p \in PagesOf(d) : vm'[p] = d.phys + (p - PageOf(d.va))
      BY <2>4 DEF IInv, Mappings, DmaBuffersBacked, OfDma
    <3>2. QED
      BY <1>1, <1>7, <3>1 DEF DmaBuffersBacked, PagesOf
  <2>6. \A d \in Cores, a \in stale : Gives(d, a)' <=> Gives(d, a)
    <3>1. ~Frees(c)
      BY <1>1 DEF Frees
    <3>2. QED
      BY <1>10, <3>1 DEF Gives
  <2>7. \A a \in stale : (\A d \in Cores : ~Gives(d, a)') => Unbacked(a)'
    BY <1>1, <2>4, <2>6 DEF IInv, Mappings, Unbacked, OfDma
  <2>8. \A d \in Cores : (At(d, "_sbrk", "free")' <=> At(d, "_sbrk", "free"))
                         /\ (At(d, "_sbrk", "free") => call'[d] = call[d])
    BY <1>1, <1>2 DEF Others, At
  <2>9. \A p \in NewlibPages :
          vm'[p] # 0 <=> /\ p < PageOf(CURR_NEWLIB_HEAP_END)
                         /\ \A d \in Cores : At(d, "_sbrk", "free")' => p # PageOf(call'[d].va)
    BY <2>2, <2>8 DEF IInv, Mappings
  <2>10. \A p \in HeapPages : p >= PageOf(heap_end) => vm'[p] = 0
    BY <2>2 DEF IInv, Mappings
  <2>11. QED
    BY <1>1, <2>3, <2>5, <2>7, <2>9, <2>10, Ranges DEF Mappings
<1>13. FramesApart' /\ NoFrameLost'
  <2>1. InHand(c)' = {}
    BY <1>2 DEF InHand
  <2>2. FramesApart' /\ Frames \cap Accounted' = Frames \cap Accounted
    BY <1>1, <1>2, <2>1, MappedFrames
  <2>3. \A p \in HeapPages : vm'[p] = vm[p]
    BY <1>3, <1>4, ReservedPages, WindowsApart DEF OnlyItsPages
  <2>4. Holes' = Holes
    BY <1>1, <2>3, HolesSame DEF IInv
  <2>5. QED
    BY <2>2, <2>4, SameFrames
<1>14. Blocks'
  BY <1>1 DEF IInv, Blocks
<1>15. QED
  BY <1>8, <1>9, <1>11, <1>12, <1>13, <1>14 DEF IInv

-----------------------------------------------------------------------------
(* Steps that move an allocator's own numbers, the page tables unchanged. *)

\* A step by core c that keeps the tables and the DMA window's bookkeeping.
LEMMA LedgerStep ==
  ASSUME IInv, NEW c \in Cores, Others(c), Types', Position(c)', FramesApart', NoFrameLost', Blocks',
         UNCHANGED <<vm, heap_end, dma, CURR_NEWLIB_HEAP_END>>,
         HeapLeft(c), NewlibLeft(c),
         ~(Reserves(c)' \/ Frees(c)'), ~Frees(c), ~At(c, "_sbrk", "free"), ~At(c, "_sbrk", "free")',
         newlib_lock' = Nobody => curr_brk' <= CURR_NEWLIB_HEAP_END
  PROVE  IInv'
<1>1. \A d \in Cores : Position(d)'
  BY OtherPositions DEF dma
<1>2. Regions'
  BY RegionsKept DEF dma
<1>3. Mappings'
  BY MappingsKept, NothingOwed DEF dma
<1>4. QED
  BY <1>1, <1>2, <1>3 DEF IInv

\* A block begins where the last one ended, aligned, below the mapped end.
LEMMA KmallocReturnsKeeps ==
  ASSUME IInv, NEW c \in Cores, KmallocReturns(c)
  PROVE  IInv'
<1> DEFINE e == kmalloc_end(c)
<1>1. /\ Left(c) /\ call[c].fn = "kmalloc" /\ call[c].pc = "grow" /\ heap_end >= e
      /\ blocks' = blocks \cup {<<bump_ptr, e>>} /\ bump_ptr' = e /\ heap_lock' = Nobody
      /\ UNCHANGED <<free, vm, mmu_lock, newlib_lock, heap_end, dma, newlib>>
  BY ReturnLeft DEF KmallocReturns, At
<1>2. heap_lock = c /\ call[c].arg \in Nat
  BY <1>1, Ranges DEF Position, InKmalloc
<1>3. bump_ptr \in Nat /\ HEAP_BASE <= bump_ptr /\ bump_ptr % HEAP_ALIGN = 0 /\ heap_end \in Nat
  BY Sizes DEF IInv, Types, TypeOK, Blocks, OnPage
<1>4. e \in Nat /\ bump_ptr <= e /\ e % HEAP_ALIGN = 0
  <2>1. Aligned(call[c].arg) \in Int /\ call[c].arg <= Aligned(call[c].arg)
    BY <1>2, RoundedUp, Sizes DEF Aligned
  <2>2. PICK k \in Int : Aligned(call[c].arg) = k * HEAP_ALIGN
    <3>1. call[c].arg \in Int /\ HEAP_ALIGN \in Nat \ {0}
      BY <1>2, Sizes
    <3>2. \E k \in Int : round_up(call[c].arg, HEAP_ALIGN) = k * HEAP_ALIGN
      BY <3>1, RoundedUp
    <3>3. QED
      BY <3>2, Zenon DEF Aligned
  <2>3. e = bump_ptr + Aligned(call[c].arg)
    BY DEF kmalloc_end
  <2>4. (bump_ptr + k * HEAP_ALIGN) % HEAP_ALIGN = 0
    <3>1. bump_ptr \in Int /\ bump_ptr % HEAP_ALIGN = 0 /\ HEAP_ALIGN \in Nat \ {0}
      BY <1>3, Sizes
    <3>2. QED
      BY <3>1, MultiplesAdd, Zenon
  <2> HIDE DEF e
  <2>5. e % HEAP_ALIGN = 0
    BY <2>2, <2>3, <2>4
  <2>6. e \in Nat /\ bump_ptr <= e
    BY <1>2, <1>3, <2>1, <2>3
  <2>7. QED
    BY <2>5, <2>6
<1> HIDE DEF e
<1>5. Types'
  <2>1. \A d \in Cores : call'[d].n \in Nat /\ call'[d].i \in 0..call'[d].n
    BY <1>1 DEF Left, Others, IInv, Types, TypeOK, CallRecords
  <2>2. bump_ptr' \in HEAP_BASE..heap_end
    BY <1>1, <1>3, <1>4, Sizes
  <2>3. TypeOK'
    BY <1>1, <2>1, <2>2 DEF IInv, Types, TypeOK, dma, newlib, Left
  <2>4. QED
    BY <1>1, <1>3, <1>4, <2>3 DEF IInv, Types, Left, Others, dma, newlib
<1>6. Blocks'
  <2>1. \A b \in blocks : b[1] \in Nat /\ b[2] \in Nat /\ b[2] <= bump_ptr /\ b[1] <= b[2] /\ b[1] % HEAP_ALIGN = 0
    BY DEF IInv, Types, Blocks
  <2>2. \A b \in blocks' : b[1] % HEAP_ALIGN = 0 /\ b[1] <= b[2] /\ b[2] <= bump_ptr'
    <3> SUFFICES ASSUME NEW b \in blocks' PROVE b[1] % HEAP_ALIGN = 0 /\ b[1] <= b[2] /\ b[2] <= bump_ptr'
      OBVIOUS
    <3>1. CASE b \in blocks
      BY <1>1, <1>3, <1>4, <2>1, <3>1
    <3>2. CASE b = <<bump_ptr, e>>
      BY <1>1, <1>3, <1>4, <3>2
    <3>3. QED
      BY <1>1, <3>1, <3>2
  <2>3. \A b, d \in blocks' : b # d => b[2] <= d[1] \/ d[2] <= b[1]
    <3> SUFFICES ASSUME NEW b \in blocks', NEW d \in blocks', b # d PROVE b[2] <= d[1] \/ d[2] <= b[1]
      OBVIOUS
    <3>1. CASE b \in blocks /\ d \in blocks
      BY <3>1 DEF IInv, Blocks
    <3>2. CASE b \in blocks /\ d = <<bump_ptr, e>>
      BY <2>1, <3>2
    <3>3. CASE d \in blocks /\ b = <<bump_ptr, e>>
      BY <2>1, <3>3
    <3>4. QED
      BY <1>1, <3>1, <3>2, <3>3
  <2>4. bump_ptr' % HEAP_ALIGN = 0
    BY <1>1, <1>4
  <2>5. QED
    BY <2>2, <2>3, <2>4 DEF Blocks
<1>7. Position(c)'
  BY <1>1 DEF Left, Position, Idle, InKmalloc, InDmaAlloc, InDmaFree, InSbrk
<1>8. FramesApart' /\ NoFrameLost'
  <2>1. InHand(c)' = InHand(c)
    BY <1>1 DEF Left, InHand
  <2>2. QED
    BY <1>1, <2>1, FramesStay DEF Left
<1>9. /\ ~(Reserves(c)' \/ Frees(c)') /\ ~Frees(c) /\ ~At(c, "_sbrk", "free") /\ ~At(c, "_sbrk", "free")'
      /\ HeapLeft(c) /\ NewlibLeft(c) /\ Others(c)
  BY <1>1, <1>2 DEF Left, Reserves, Frees, At, HeapLeft, NewlibLeft, newlib
<1>10. QED
  BY <1>1, <1>5, <1>6, <1>7, <1>8, <1>9, LedgerStep, Ranges DEF newlib

\* The new break is not above the mapped end.
LEMMA SbrkReturnsKeeps ==
  ASSUME IInv, NEW c \in Cores, SbrkReturns(c)
  PROVE  IInv'
<1>1. /\ Left(c) /\ call[c].fn = "_sbrk" /\ call[c].pc \in {"grow", "shrink"} /\ newlib_lock' = Nobody
      /\ curr_brk' = sbrk_end(c)
      /\ UNCHANGED <<free, vm, mmu_lock, heap_lock, heap, dma, CURR_NEWLIB_HEAP_END>>
  BY ReturnLeft DEF SbrkReturns, At
<1>2. newlib_lock = c /\ InWindow(sbrk_end(c)) /\ sbrk_end(c) <= CURR_NEWLIB_HEAP_END
  <2>1. newlib_lock = c /\ InWindow(sbrk_end(c)) /\ (call[c].pc = "shrink" => sbrk_end(c) <= CURR_NEWLIB_HEAP_END)
    BY <1>1, Ranges DEF Position, InSbrk
  <2>2. sbrk_end(c) \in Int /\ CURR_NEWLIB_HEAP_END \in Int
    BY <2>1, Sizes DEF InWindow, IInv, Types, OnPage
  <2>3. call[c].pc = "grow" => CURR_NEWLIB_HEAP_END >= sbrk_end(c)
    BY DEF SbrkReturns, At
  <2>4. QED
    BY <1>1, <2>1, <2>2, <2>3
<1>3. Types'
  <2>1. \A d \in Cores : call'[d].n \in Nat /\ call'[d].i \in 0..call'[d].n
    BY <1>1 DEF Left, Others, IInv, Types, TypeOK, CallRecords
  <2>2. TypeOK'
    BY <1>1, <1>2, <2>1 DEF IInv, Types, TypeOK, heap, dma, Left, InWindow
  <2>3. QED
    BY <1>1, <2>2 DEF IInv, Types, Left, Others, heap, dma
<1>4. Blocks'
  BY <1>1 DEF IInv, Blocks, heap
<1>5. Position(c)'
  BY <1>1 DEF Left, Position, Idle, InKmalloc, InDmaAlloc, InDmaFree, InSbrk
<1>6. FramesApart' /\ NoFrameLost'
  <2>1. InHand(c)' = InHand(c)
    BY <1>1 DEF Left, InHand
  <2>2. QED
    BY <1>1, <2>1, FramesStay DEF Left, heap
<1>7. /\ ~(Reserves(c)' \/ Frees(c)') /\ ~Frees(c) /\ ~At(c, "_sbrk", "free") /\ ~At(c, "_sbrk", "free")'
      /\ HeapLeft(c) /\ NewlibLeft(c) /\ Others(c)
  BY <1>1, <1>2 DEF Left, Reserves, Frees, At, HeapLeft, NewlibLeft, heap
<1>8. QED
  BY <1>1, <1>2, <1>3, <1>4, <1>5, <1>6, <1>7, LedgerStep DEF heap

\* A failed map in _sbrk gives its frame back and keeps the break.
LEMMA SbrkMapFailsKeeps ==
  ASSUME IInv, NEW c \in Cores, SbrkMapFails(c)
  PROVE  IInv'
<1>1. /\ Left(c) /\ call[c].fn = "_sbrk" /\ call[c].pc = "mapping" /\ newlib_lock' = Nobody /\ mmu_lock' = Nobody
      /\ free' = free \cup {call[c].phys}
      /\ UNCHANGED <<vm, heap_lock, heap, dma, newlib>>
  BY ReturnLeft DEF SbrkMapFails, MapEnds, At
<1>2. newlib_lock = c /\ call[c].n = 1 /\ curr_brk <= CURR_NEWLIB_HEAP_END
  BY <1>1, Ranges DEF Position, InSbrk
<1>3. InHand(c) = {call[c].phys} /\ InHand(c)' = {} /\ call[c].phys \in Frames
  <2>1. InHand(c) = call[c].phys..(call[c].phys + 1 - 1)
    BY <1>1, <1>2, MappingInHand
  <2>2. InHand(c) = {call[c].phys}
    BY <2>1, FrameNumbers
  <2>3. QED
    BY <1>1, <2>2 DEF IInv, FramesApart, Left, InHand
<1>4. FramesApart' /\ NoFrameLost'
  <2>1. call[c].phys \in InHand(c) /\ InHand(c)' = InHand(c) \ {call[c].phys}
    BY <1>3
  <2>2. QED
    BY <1>1, <2>1, FreedFrames DEF Left, heap
<1>5. Types'
  <2>1. \A d \in Cores : call'[d].n \in Nat /\ call'[d].i \in 0..call'[d].n
    BY <1>1 DEF Left, Others, IInv, Types, TypeOK, CallRecords
  <2>2. TypeOK'
    BY <1>1, <1>3, <2>1 DEF IInv, Types, TypeOK, heap, dma, newlib, Left
  <2>3. QED
    BY <1>1, <2>2 DEF IInv, Types, Left, Others, heap, dma, newlib
<1>6. Blocks'
  BY <1>1 DEF IInv, Blocks, heap
<1>7. Position(c)'
  BY <1>1 DEF Left, Position, Idle, InKmalloc, InDmaAlloc, InDmaFree, InSbrk
<1>8. /\ ~(Reserves(c)' \/ Frees(c)') /\ ~Frees(c) /\ ~At(c, "_sbrk", "free") /\ ~At(c, "_sbrk", "free")'
      /\ HeapLeft(c) /\ NewlibLeft(c) /\ Others(c)
  BY <1>1, <1>2 DEF Left, Reserves, Frees, At, HeapLeft, NewlibLeft, heap
<1>9. QED
  BY <1>1, <1>2, <1>4, <1>5, <1>6, <1>7, <1>8, LedgerStep DEF heap, newlib

\* The last page is gone and CURR_NEWLIB_HEAP_END says so.
LEMMA SbrkPageFreedKeeps ==
  ASSUME IInv, NEW c \in Cores, SbrkPageFreed(c)
  PROVE  IInv'
<1> DEFINE e == PageOf(CURR_NEWLIB_HEAP_END)
<1>1. /\ Others(c) /\ SameRange(c) /\ call'[c].pc = "shrink" /\ call'[c].arg = call[c].arg /\ call'[c].i = call[c].i
      /\ call[c].fn = "_sbrk" /\ call[c].pc = "free" /\ call[c].i = call[c].n
      /\ UNCHANGED <<free, vm, mmu_lock, heap_lock, newlib_lock, bump_ptr, heap_end, blocks>>
      /\ UNCHANGED <<dma_bump_ptr, buffers, stale, curr_brk, calls>>
      /\ CURR_NEWLIB_HEAP_END' = CURR_NEWLIB_HEAP_END - PAGE_SIZE
  BY GotoWent DEF SbrkPageFreed, FreedAll, At, Pcs, Went, heap, dma, locks
<1>2. /\ newlib_lock = c /\ call[c].n = 1 /\ InWindow(sbrk_end(c))
      /\ call[c].va + PAGE_SIZE = CURR_NEWLIB_HEAP_END /\ sbrk_end(c) <= call[c].va
  BY <1>1, Ranges DEF Position, InSbrk
<1>3. Works(c) /\ WorkPlace(c) /\ ~Reserves(c) /\ ~Frees(c)
  BY <1>1, WorkPlaces DEF Works, Reserves, Frees
<1>4. /\ CURR_NEWLIB_HEAP_END' = call[c].va /\ call[c].va \in Nat /\ OnPage(call[c].va)
      /\ e = PageOf(call[c].va) + 1 /\ sbrk_end(c) \in Int
  <2>1. call[c].va \in Nat /\ OnPage(call[c].va) /\ OnPage(call[c].va + PAGE_SIZE)
    BY <1>2, <1>3 DEF WorkPlace, OnPage, IInv, Types
  <2>2. PageOf(call[c].va + PAGE_SIZE) = PageOf(call[c].va) + 1
    BY <2>1, PreviousPage
  <2>3. QED
    BY <1>1, <1>2, <2>1, <2>2, PageSize, Sizes DEF InWindow
<1>5. OnPage(CURR_NEWLIB_HEAP_END)' /\ (PageOf(CURR_NEWLIB_HEAP_END))' = PageOf(call[c].va)
  BY <1>4 DEF OnPage, PageOf
<1> HIDE DEF e
<1>6. Types'
  <2>1. \A d \in Cores : call'[d].n \in Nat /\ call'[d].i \in 0..call'[d].n
    BY <1>1 DEF SameRange, Others, IInv, Types, TypeOK, CallRecords
  <2>2. TypeOK'
    BY <1>1, <2>1 DEF IInv, Types, TypeOK
  <2>3. (PageOf(CURR_NEWLIB_HEAP_END))' <= LastPage + 1
    BY <1>4, <1>5, Windows DEF IInv, Types, OnPage, e
  <2>4. NEWLIB_HEAP_BASE <= CURR_NEWLIB_HEAP_END'
    BY <1>2, <1>4, Sizes DEF InWindow
  <2>5. QED
    BY <1>1, <1>5, <2>2, <2>3, <2>4 DEF IInv, Types, Others
<1>7. \A d \in Cores : Position(d)'
  <2>1. HeapLeft(c) /\ NewlibLeft(c) /\ stale \subseteq stale'
    BY <1>1, <1>2 DEF HeapLeft, NewlibLeft
  <2>2. \A d \in Cores \ {c} : Position(d)'
    BY <1>1, <2>1, OtherPositions
  <2>3. InWindow(sbrk_end(c))' /\ sbrk_end(c)' <= CURR_NEWLIB_HEAP_END'
    BY <1>1, <1>2, <1>4 DEF sbrk_end, InWindow
  <2>4. Position(c)'
    BY <1>1, <1>2, <2>3 DEF SameRange, Position, Idle, InKmalloc, InDmaAlloc, InDmaFree, InSbrk
  <2>5. QED
    BY <2>2, <2>4
<1>8. Regions'
  BY <1>1, RegionsKept
<1>9. Mappings'
  <2>1. DmaBuffersBacked'
    BY <1>1 DEF IInv, Mappings, DmaBuffersBacked
  <2>2. \A d \in Cores, b \in stale : Gives(d, b)' <=> Gives(d, b)
    BY <1>1 DEF Others, SameRange, Gives, Frees
  <2>3. \A b \in stale : (\A d \in Cores : ~Gives(d, b)') => Unbacked(b)'
    BY <1>1, <2>2 DEF IInv, Mappings, Unbacked
  <2>4. \A d \in Cores \ {c} : ~At(d, "_sbrk", "free") /\ ~At(d, "_sbrk", "free")'
    BY <1>1, <1>2 DEF Others, At, IInv, Position, InSbrk
  <2>5. At(c, "_sbrk", "free") /\ ~At(c, "_sbrk", "free")'
    BY <1>1 DEF At
  <2>6. \A p \in NewlibPages : vm'[p] # 0 <=> p < PageOf(call[c].va)
    <3> SUFFICES ASSUME NEW p \in NewlibPages PROVE vm'[p] # 0 <=> p < PageOf(call[c].va)
      OBVIOUS
    <3>1. vm[p] # 0 <=> p < e /\ p # PageOf(call[c].va)
      BY <2>4, <2>5 DEF IInv, Mappings, e
    <3>2. p \in Int /\ PageOf(call[c].va) \in Int
      <4>1. PageNumbers \subseteq Int
        BY Windows DEF PageNumbers
      <4>2. p \in Int
        BY <4>1, WindowsApart
      <4>3. PageOf(call[c].va) \in Int
        BY <1>4 DEF OnPage
      <4>4. QED
        BY <4>2, <4>3
    <3>3. QED
      BY <1>1, <1>4, <3>1, <3>2
  <2>7. newlib_lock' # Nobody
    BY <1>1, <1>2, Requests
  <2>8. QED
    BY <1>1, <1>5, <2>1, <2>3, <2>4, <2>5, <2>6, <2>7 DEF IInv, Mappings
<1>10. FramesApart' /\ NoFrameLost'
  <2>1. InHand(c) = {} /\ InHand(c)' = {}
    BY <1>1, NothingLeft DEF InHand
  <2>2. QED
    BY <1>1, <2>1, FramesStay
<1>11. Blocks'
  BY <1>1 DEF IInv, Blocks
<1>12. QED
  BY <1>6, <1>7, <1>8, <1>9, <1>10, <1>11 DEF IInv

\* A buffer is given back, or one that was given back before.
LEMMA dma_freeKeeps ==
  ASSUME IInv, NEW c \in Cores, NEW b \in OfDma,
         \A d \in Cores : ~(call[d].fn = "dma_free" /\ call[d].va = b.va), dma_free(c, b)
  PROVE  IInv'
<1>1. b.va \in Nat /\ b.n \in Nat /\ b.n \in Nat \ {0} /\ b.phys \in Int /\ b.phys \in Frames
  BY DEF IInv, Types, Buffers, OfDma, Frames
<1>2. Entered(c, "dma_free", "translate", b.phys, b.va, b.n)
  BY <1>1, EnterEntered DEF dma_free, Pcs
<1>3. /\ buffers' = buffers \ {b} /\ stale' = stale \cup {b}
      /\ UNCHANGED <<free, vm, mmu_lock, heap_lock, newlib_lock, bump_ptr, heap_end, blocks, dma_bump_ptr>>
      /\ UNCHANGED <<curr_brk, CURR_NEWLIB_HEAP_END>>
  BY DEF dma_free, locks, heap, newlib
<1>4. /\ Others(c) /\ call[c].fn = "none" /\ call[c].pc = "none" /\ call'[c].fn = "dma_free"
      /\ call'[c].pc = "translate" /\ call'[c].va = b.va /\ call'[c].n = b.n /\ call'[c].i = 0
      /\ calls' \in [Cores -> 0..MaxCalls]
  BY <1>2 DEF Entered
<1>5. OfDma' = OfDma /\ stale' \subseteq OfDma /\ buffers' \subseteq buffers
  BY <1>3 DEF OfDma
<1>6. Types'
  <2>1. \A d \in Cores : call'[d].n \in Nat /\ call'[d].i \in 0..call'[d].n
    BY <1>1, <1>4 DEF Others, IInv, Types, TypeOK, CallRecords
  <2>2. TypeOK'
    BY <1>3, <1>4, <2>1 DEF IInv, Types, TypeOK
  <2>3. buffers' \subseteq Buffers /\ stale' \subseteq Buffers
    BY <1>5 DEF IInv, Types, OfDma
  <2>4. QED
    BY <1>3, <1>4, <2>2, <2>3 DEF IInv, Types, Others
<1>7. Unbacked(b) \/ BackedBy(b, b.phys)
  <2>1. CASE b \in buffers
    BY <2>1 DEF IInv, Mappings, DmaBuffersBacked, BackedBy
  <2>2. CASE b \in stale
    BY <2>2 DEF IInv, Mappings, Gives, Frees
  <2>3. QED
    BY <2>1, <2>2 DEF OfDma
<1>8. \A d \in Cores : Position(d)'
  <2>1. HeapLeft(c) /\ NewlibLeft(c) /\ stale \subseteq stale'
    BY <1>3 DEF HeapLeft, NewlibLeft
  <2>2. \A d \in Cores \ {c} : Position(d)'
    BY <1>3, <1>4, <2>1, OtherPositions
  <2>3. InDmaFree(c)'
    <3>1. Unbacked(b) => Unbacked(call[c])'
      BY <1>3, <1>4 DEF Unbacked, PagesOf
    <3>2. BackedBy(b, b.phys) => \E s \in Frames : BackedBy(call[c], s)'
      BY <1>1, <1>3, <1>4 DEF BackedBy, PagesOf
    <3>3. \E a \in stale' : a.va = call'[c].va /\ a.n = call'[c].n
      BY <1>3, <1>4
    <3>4. QED
      BY <1>4, <1>7, <3>1, <3>2, <3>3 DEF InDmaFree, Frames
  <2>4. Position(c)'
    BY <1>4, <2>3 DEF Position, Idle, InKmalloc, InDmaAlloc, InSbrk
  <2>5. QED
    BY <2>2, <2>4
<1>9. \A d \in Cores : /\ (Reserves(d)' <=> Reserves(d)) /\ (Frees(d)' <=> Frees(d) \/ d = c)
                       /\ d # c => call'[d] = call[d]
  BY <1>4 DEF Others, Reserves, Frees
<1>10. ~Reserves(c) /\ ~Frees(c)
  BY <1>4 DEF Reserves, Frees
<1>11. Regions'
  <2>1. buffers' \cap stale' = {}
    BY <1>3 DEF IInv, Regions
  <2>2. \A d \in OfDma : InDmaWindow(d)'
    BY <1>3 DEF IInv, Regions, InDmaWindow, End
  <2>3. \A d \in Cores : Reserves(d)' => InDmaWindow(call[d])'
    BY <1>3, <1>9, <1>10 DEF IInv, Regions, InDmaWindow, End
  <2>4. \A d \in Cores : Reserves(d)' => PagesOf(call[d])' = PagesOf(call[d])
    BY <1>9, <1>10 DEF PagesOf
  <2>5. \A d, e \in Cores : d # e /\ Frees(d)' /\ Frees(e)' => call'[d].va # call'[e].va
    BY <1>4, <1>9, <1>10 DEF IInv, Regions, Frees
  <2>6. \A a, d \in OfDma' : a # d => PagesOf(a)' \cap PagesOf(d)' = {}
    BY <1>5 DEF IInv, Regions, PagesOf
  <2>7. \A a \in OfDma', d \in Cores : Reserves(d)' => PagesOf(a)' \cap PagesOf(call[d])' = {}
    BY <1>5, <1>9, <2>4 DEF IInv, Regions, PagesOf
  <2>8. \A d, e \in Cores : d # e /\ Reserves(d)' /\ Reserves(e)' => PagesOf(call[d])' \cap PagesOf(call[e])' = {}
    BY <1>9, <2>4 DEF IInv, Regions
  <2>9. QED
    BY <1>5, <2>1, <2>2, <2>3, <2>5, <2>6, <2>7, <2>8 DEF Regions
<1>12. Mappings'
  <2>1. DmaBuffersBacked'
    BY <1>3, <1>5 DEF IInv, Mappings, DmaBuffersBacked
  <2>2. ASSUME NEW a \in stale', \A d \in Cores : ~Gives(d, a)' PROVE Unbacked(a)'
    <3>1. Gives(c, b)'
      BY <1>4 DEF Gives, Frees
    <3>2. a \in stale
      BY <1>3, <2>2, <3>1
    <3>3. \A d \in Cores : ~Gives(d, a)
      BY <1>9, <1>10, <2>2 DEF Gives
    <3>4. QED
      BY <1>3, <3>2, <3>3 DEF IInv, Mappings, Unbacked
  <2>3. \A d \in Cores : (At(d, "_sbrk", "free")' <=> At(d, "_sbrk", "free"))
                         /\ (At(d, "_sbrk", "free") => call'[d] = call[d])
    BY <1>4, <1>9 DEF At
  <2>4. QED
    BY <1>3, <2>1, <2>2, <2>3 DEF IInv, Mappings
<1>13. FramesApart' /\ NoFrameLost'
  <2>1. InHand(c)' = InHand(c)
    BY <1>4 DEF InHand
  <2>2. QED
    BY <1>3, <1>4, <2>1, FramesStay
<1>14. Blocks'
  BY <1>3 DEF IInv, Blocks
<1>15. QED
  BY <1>6, <1>8, <1>11, <1>12, <1>13, <1>14 DEF IInv

\* A call that is over before it begins: only the number of calls moves.
LEMMA DmaRefusedKeeps ==
  ASSUME IInv, NEW c \in Cores, EnterAndReturn(c), UNCHANGED <<free, vm, locks, heap, dma, newlib>>
  PROVE  IInv'
<1>1. UNCHANGED <<free, vm, mmu_lock, heap_lock, newlib_lock, bump_ptr, heap_end, blocks>>
      /\ UNCHANGED <<dma_bump_ptr, buffers, stale, curr_brk, CURR_NEWLIB_HEAP_END, call>>
  BY DEF EnterAndReturn, locks, heap, dma, newlib
<1>2. calls' \in [Cores -> 0..MaxCalls]
  BY Ranges, Sizes DEF EnterAndReturn
<1>3. Types'
  BY <1>1, <1>2 DEF IInv, Types, TypeOK
<1>4. (\A d \in Cores : Position(d)')
  BY <1>1 DEF IInv, Position, Idle, InKmalloc, InDmaAlloc, InDmaFree, InSbrk, Unbacked, BackedBy, PagesOf,
       kmalloc_end, sbrk_end, InWindow
<1>5. Regions'
  BY <1>1 DEF IInv, Regions, OfDma, Reserves, Frees, InDmaWindow, End
<1>6. Mappings'
  BY <1>1 DEF IInv, Mappings, DmaBuffersBacked, Gives, Frees, Unbacked, At
<1>7. FramesApart' /\ NoFrameLost'
  <2>1. InHand(c)' = InHand(c) /\ Others(c)
    BY <1>1 DEF InHand, Others, IInv, Types
  <2>2. QED
    BY <1>1, <2>1, FramesStay
<1>8. Blocks'
  BY <1>1 DEF IInv, Blocks
<1>9. QED
  BY <1>3, <1>4, <1>5, <1>6, <1>7, <1>8 DEF IInv

\* The number of pages of a request.
LEMMA PageCount ==
  ASSUME NEW size \in Nat
  PROVE  page_count(size) \in Nat
<1> DEFINE w == size + PAGE_SIZE - 1
<1>1. w \in Nat
  BY PageSize
<1> HIDE DEF w
<1>2. PageOf(w) \in Nat
  BY <1>1, PageOfNat
<1>3. QED
  BY <1>2 DEF page_count, PageOf, w

\* The reservation: the pages from the old bump pointer to the new one.
LEMMA DmaReservesKeeps ==
  ASSUME IInv, NEW c \in Cores, NEW size \in DmaSizes,
         dma_bump_ptr + page_count(size) * PAGE_SIZE <= DMA_BASE + DMA_MAX_SIZE,
         Enter(c, "dma_alloc", "frames", size, dma_bump_ptr, page_count(size)),
         dma_bump_ptr' = dma_bump_ptr + page_count(size) * PAGE_SIZE,
         UNCHANGED <<free, vm, locks, heap, buffers, stale, newlib>>
  PROVE  IInv'
<1> DEFINE n == page_count(size)  first == PageOf(dma_bump_ptr)
<1>1. size \in Int /\ n \in Nat /\ dma_bump_ptr \in Nat /\ OnPage(dma_bump_ptr) /\ first \in Nat
      /\ DMA_BASE <= dma_bump_ptr /\ dma_bump_ptr <= DMA_BASE + DMA_MAX_SIZE
  <2>1. size \in Nat
    BY Requests
  <2>2. n \in Nat
    BY <2>1, PageCount
  <2>3. QED
    BY <2>1, <2>2, Sizes DEF IInv, Types, TypeOK, OnPage
<1>2. Entered(c, "dma_alloc", "frames", size, dma_bump_ptr, n)
  BY <1>1, EnterEntered DEF Pcs
<1>3. OnPage(dma_bump_ptr)' /\ (PageOf(dma_bump_ptr))' = first + n
  <2>1. OnPage(dma_bump_ptr + n * PAGE_SIZE) /\ PageOf(dma_bump_ptr + n * PAGE_SIZE) = first + n
    BY <1>1, PagesFurther
  <2> HIDE DEF n
  <2>2. QED
    BY <2>1 DEF OnPage, PageOf, n
<1>4. dma_bump_ptr' \in DMA_BASE..(DMA_BASE + DMA_MAX_SIZE) /\ first + n <= PageOf(DMA_BASE + DMA_MAX_SIZE)
  <2>1. dma_bump_ptr' \in Nat
    BY <1>3 DEF OnPage
  <2>2. dma_bump_ptr' <= DMA_BASE + DMA_MAX_SIZE
    OBVIOUS
  <2>3. OnPage(dma_bump_ptr') /\ PageOf(dma_bump_ptr') = first + n
    BY <1>3 DEF OnPage, PageOf
  <2>4. PageOf(DMA_BASE) <= first
    BY <1>1, Windows, PageOrder
  <2>5. PageOf(DMA_BASE) <= first + n
    BY <1>1, <2>4, Windows DEF OnPage
  <2>6. DMA_BASE <= dma_bump_ptr'
    BY <2>1, <2>3, <2>5, Windows, PageOrder
  <2>7. first + n <= PageOf(DMA_BASE + DMA_MAX_SIZE)
    BY <2>2, <2>3, Windows, PageOrder, Sizes
  <2>8. QED
    BY <2>1, <2>2, <2>6, <2>7, Sizes
<1>5. /\ Others(c) /\ call[c].fn = "none" /\ call'[c].fn = "dma_alloc" /\ call'[c].pc = "frames"
      /\ call'[c].va = dma_bump_ptr /\ call'[c].n = n /\ call'[c].i = 0 /\ calls' \in [Cores -> 0..MaxCalls]
  BY <1>2 DEF Entered
<1>6. /\ UNCHANGED <<free, vm, mmu_lock, heap_lock, newlib_lock, bump_ptr, heap_end, blocks, buffers, stale>>
      /\ UNCHANGED <<curr_brk, CURR_NEWLIB_HEAP_END>>
  BY DEF locks, heap, newlib
<1>7. PagesOf(call[c])' = first..(first + n - 1)
  BY <1>5 DEF PagesOf, PageOf
<1> HIDE DEF n, first
<1>8. Types'
  <2>1. \A d \in Cores : call'[d].n \in Nat /\ call'[d].i \in 0..call'[d].n
    BY <1>1, <1>5 DEF Others, IInv, Types, TypeOK, CallRecords
  <2>2. TypeOK'
    BY <1>4, <1>5, <1>6, <2>1 DEF IInv, Types, TypeOK
  <2>3. QED
    BY <1>3, <1>5, <1>6, <2>2 DEF IInv, Types, Others
<1>9. \A d \in Cores : Position(d)'
  <2>1. HeapLeft(c) /\ NewlibLeft(c) /\ stale \subseteq stale'
    BY <1>6 DEF HeapLeft, NewlibLeft
  <2>2. \A d \in Cores \ {c} : Position(d)'
    BY <1>5, <1>6, <2>1, OtherPositions
  <2>3. Unbacked(call[c])'
    <3>1. \A p \in first..(first + n - 1) : p \in DmaPages /\ p >= first
      BY <1>1, <1>4, Windows, PageOrder DEF DmaPages, Window, OnPage, first
    <3>2. QED
      BY <1>6, <1>7, <3>1 DEF IInv, Mappings, Unbacked, first
  <2>4. Position(c)'
    BY <1>5, <2>3 DEF Position, Idle, InKmalloc, InDmaAlloc, InDmaFree, InSbrk
  <2>5. QED
    BY <2>2, <2>4
<1>10. \A d \in Cores : /\ (Reserves(d)' <=> Reserves(d) \/ d = c) /\ (Frees(d)' <=> Frees(d))
                        /\ d # c => call'[d] = call[d]
  BY <1>5 DEF Others, Reserves, Frees
<1>11. ~Reserves(c) /\ ~Frees(c)
  BY <1>5 DEF Reserves, Frees
<1>12. Regions'
  <2>1. OfDma' = OfDma
    BY <1>6 DEF OfDma
  <2>2. first <= first + n
    BY <1>1
  <2>3. ASSUME NEW b, b.n \in Nat, InDmaWindow(b) PROVE InDmaWindow(b)'
    <3>1. b.n > 0 => End(b) <= first + n
      BY <1>1, <2>3 DEF InDmaWindow, End, OnPage, first
    <3>2. QED
      BY <1>3, <2>3, <3>1 DEF InDmaWindow, End
  <2>4. \A b \in OfDma : InDmaWindow(b)'
    BY <2>3, BufferPages
  <2>5. \A d \in Cores : Reserves(d)' => InDmaWindow(call[d])'
    <3>1. InDmaWindow(call[c])'
      <4>1. OnPage(call[c].va)' /\ (End(call[c]))' = first + n
        BY <1>1, <1>5 DEF OnPage, PageOf, End, first
      <4>2. QED
        BY <1>1, <1>3, <1>5, <4>1 DEF InDmaWindow
    <3>2. ASSUME NEW d \in Cores, d # c, Reserves(d) PROVE InDmaWindow(call[d])'
      <4>1. InDmaWindow(call[d]) /\ call[d].n \in Nat
        BY <3>2 DEF IInv, Regions, Types, CallRecords
      <4>2. call[d].n > 0 => End(call[d]) <= first + n
        BY <1>1, <4>1 DEF InDmaWindow, End, OnPage, first
      <4>3. QED
        BY <1>3, <1>10, <3>2, <4>1, <4>2 DEF InDmaWindow, End
    <3>3. QED
      BY <1>10, <3>1, <3>2
  <2>6. \A a \in OfDma' : PagesOf(a)' \cap PagesOf(call[c])' = {}
    <3>1. \A a \in OfDma : \A p \in PagesOf(a) : p < first
      BY BufferPages DEF first
    <3>2. \A a \in OfDma : PagesOf(a)' = PagesOf(a)
      BY DEF PagesOf
    <3>3. \A p \in PagesOf(call[c])' : ~(p < first)
      BY <1>1, <1>7
    <3>4. QED
      BY <2>1, <3>1, <3>2, <3>3
  <2>7. \A d \in Cores : d # c /\ Reserves(d) => PagesOf(call[d])' = PagesOf(call[d])
    BY <1>10 DEF PagesOf
  <2>8. \A d \in Cores : d # c /\ Reserves(d) => PagesOf(call[d]) \cap PagesOf(call[c])' = {}
    <3>1. \A d \in Cores : Reserves(d) => \A p \in PagesOf(call[d]) : p < first
      BY ReservedPages DEF first
    <3>2. \A p \in PagesOf(call[c])' : ~(p < first)
      BY <1>1, <1>7
    <3>3. QED
      BY <3>1, <3>2
  <2>9. \A a \in OfDma', d \in Cores : Reserves(d)' => PagesOf(a)' \cap PagesOf(call[d])' = {}
    BY <1>10, <2>1, <2>6, <2>7 DEF IInv, Regions, PagesOf
  <2>10. \A d, e \in Cores : d # e /\ Reserves(d)' /\ Reserves(e)' => PagesOf(call[d])' \cap PagesOf(call[e])' = {}
    <3>1. \A d, e \in Cores : d # e /\ Reserves(d) /\ Reserves(e) => PagesOf(call[d]) \cap PagesOf(call[e]) = {}
      BY DEF IInv, Regions
    <3>2. QED
      BY <1>10, <2>7, <2>8, <3>1
  <2>11. \A d, e \in Cores : d # e /\ Frees(d)' /\ Frees(e)' => call'[d].va # call'[e].va
    BY <1>10, <1>11 DEF IInv, Regions
  <2>12. \A a, d \in OfDma' : a # d => PagesOf(a)' \cap PagesOf(d)' = {}
    BY <2>1 DEF IInv, Regions, PagesOf
  <2>13. QED
    BY <1>6, <2>1, <2>4, <2>5, <2>9, <2>10, <2>11, <2>12 DEF IInv, Regions
<1>13. Mappings'
  <2>1. \A p \in DmaPages : p >= (PageOf(dma_bump_ptr))' => vm'[p] = 0
    <3>1. \A p \in DmaPages : p \in Int
      BY Windows DEF DmaPages, Window, OnPage
    <3>2. \A p \in DmaPages : p >= first + n => p >= first
      BY <1>1, <3>1
    <3>3. QED
      BY <1>3, <1>6, <3>2 DEF IInv, Mappings, first
  <2>2. DmaBuffersBacked'
    BY <1>6 DEF IInv, Mappings, DmaBuffersBacked
  <2>3. \A b \in stale : (\A d \in Cores : ~Gives(d, b)') => Unbacked(b)'
    BY <1>6, <1>10, <1>11 DEF IInv, Mappings, Unbacked, Gives
  <2>4. \A d \in Cores : (At(d, "_sbrk", "free")' <=> At(d, "_sbrk", "free"))
                         /\ (At(d, "_sbrk", "free") => call'[d] = call[d])
    BY <1>5, <1>10 DEF At
  <2>5. QED
    BY <1>6, <2>1, <2>2, <2>3, <2>4 DEF IInv, Mappings
<1>14. FramesApart' /\ NoFrameLost'
  <2>1. call[c].pc = "none"
    BY <1>2 DEF Entered
  <2>2. InHand(c)' = InHand(c)
    BY <1>5, <2>1 DEF InHand
  <2>3. QED
    BY <1>5, <1>6, <2>2, FramesStay
<1>15. Blocks'
  BY <1>6 DEF IInv, Blocks
<1>16. QED
  BY <1>8, <1>9, <1>12, <1>13, <1>14, <1>15 DEF IInv

\* dma_alloc either refuses or reserves.
LEMMA dma_allocKeeps ==
  ASSUME IInv, NEW c \in Cores, NEW size \in DmaSizes, dma_alloc(c, size)
  PROVE  IInv'
<1>1. UNCHANGED <<free, vm, locks, heap, buffers, stale, newlib>>
  BY DEF dma_alloc
<1>2. CASE dma_bump_ptr + page_count(size) * PAGE_SIZE > DMA_BASE + DMA_MAX_SIZE
  <2>1. EnterAndReturn(c) /\ UNCHANGED dma_bump_ptr
    BY <1>2 DEF dma_alloc
  <2>2. UNCHANGED dma
    BY <1>1, <2>1 DEF dma
  <2>3. QED
    BY <1>1, <2>1, <2>2, DmaRefusedKeeps
<1>3. CASE ~(dma_bump_ptr + page_count(size) * PAGE_SIZE > DMA_BASE + DMA_MAX_SIZE)
  <2>1. Enter(c, "dma_alloc", "frames", size, dma_bump_ptr, page_count(size))
        /\ dma_bump_ptr' = dma_bump_ptr + page_count(size) * PAGE_SIZE
    BY <1>3 DEF dma_alloc
  <2>2. dma_bump_ptr + page_count(size) * PAGE_SIZE <= DMA_BASE + DMA_MAX_SIZE
    <3>1. page_count(size) * PAGE_SIZE \in Int
      <4>1. page_count(size) \in Int
        BY Requests, PageCount
      <4>2. QED
        BY <4>1, PageSize
    <3> DEFINE m == page_count(size) * PAGE_SIZE
    <3>2. dma_bump_ptr \in Int /\ DMA_BASE + DMA_MAX_SIZE \in Int /\ m \in Int
      BY <3>1, Sizes DEF IInv, Types, OnPage
    <3>3. ~(dma_bump_ptr + m > DMA_BASE + DMA_MAX_SIZE)
      BY <1>3
    <3> HIDE DEF m
    <3>4. dma_bump_ptr + m <= DMA_BASE + DMA_MAX_SIZE
      BY <3>2, <3>3
    <3>5. QED
      BY <3>4 DEF m
  <2>3. QED
    BY <1>1, <2>1, <2>2, DmaReservesKeeps
<1>4. QED
  BY <1>2, <1>3

\* The failed reservation goes back only when nothing was reserved after it.
LEMMA _dma_reclaim_vaKeeps ==
  ASSUME IInv, NEW c \in Cores, _dma_reclaim_va(c)
  PROVE  IInv'
<1> DEFINE first == PageOf(call[c].va)  n == call[c].n  bump == PageOf(dma_bump_ptr)
<1>1. /\ Left(c) /\ call[c].fn = "dma_alloc" /\ call[c].pc = "reclaim"
      /\ UNCHANGED <<free, vm, mmu_lock, heap_lock, newlib_lock, bump_ptr, heap_end, blocks, buffers, stale>>
      /\ UNCHANGED <<curr_brk, CURR_NEWLIB_HEAP_END>>
  BY ReturnLeft DEF _dma_reclaim_va, At, locks, heap, newlib
<1>2. /\ Others(c) /\ call'[c].fn = "none" /\ call'[c].pc \in {"none", "panic"}
      /\ call'[c].n = 0 /\ call'[c].i = 0 /\ UNCHANGED calls
  BY <1>1 DEF Left
<1>3. /\ Reserves(c) /\ InDmaWindow(call[c]) /\ n \in Nat /\ first \in Nat /\ bump \in Nat
      /\ OnPage(call[c].va) /\ OnPage(dma_bump_ptr) /\ Unbacked(call[c]) /\ PagesOf(call[c]) = first..(first + n - 1)
  BY <1>1, Ranges DEF Reserves, IInv, Regions, Types, InDmaWindow, OnPage, Position, InDmaAlloc, PagesOf
<1>4. \/ dma_bump_ptr' = dma_bump_ptr
      \/ dma_bump_ptr' = call[c].va /\ bump = first + n
  <2>1. dma_bump_ptr = call[c].va + n * PAGE_SIZE => bump = first + n
    <3>1. PageOf(call[c].va + n * PAGE_SIZE) = first + n
      BY <1>3, PagesFurther
    <3>2. QED
      BY <3>1
  <2>2. QED
    BY <2>1 DEF _dma_reclaim_va
<1>5. /\ OnPage(dma_bump_ptr)' /\ dma_bump_ptr' \in DMA_BASE..(DMA_BASE + DMA_MAX_SIZE)
      /\ (PageOf(dma_bump_ptr))' \in Nat
      /\ \/ (PageOf(dma_bump_ptr))' = bump
         \/ (PageOf(dma_bump_ptr))' = first /\ bump = first + n
  <2>1. call[c].va \in DMA_BASE..(DMA_BASE + DMA_MAX_SIZE)
    BY <1>3, Sizes DEF InDmaWindow, OnPage
  <2>2. CASE dma_bump_ptr' = dma_bump_ptr
    BY <1>3, <2>2 DEF OnPage, PageOf, IInv, Types, TypeOK
  <2>3. CASE dma_bump_ptr' = call[c].va /\ bump = first + n
    BY <1>3, <2>1, <2>3 DEF OnPage, PageOf
  <2>4. QED
    BY <1>4, <2>2, <2>3
<1> HIDE DEF n, first, bump
<1>6. Types'
  <2>1. \A d \in Cores : call'[d].n \in Nat /\ call'[d].i \in 0..call'[d].n
    BY <1>2 DEF Others, IInv, Types, TypeOK, CallRecords
  <2>2. TypeOK'
    BY <1>1, <1>2, <1>5, <2>1 DEF IInv, Types, TypeOK
  <2>3. QED
    BY <1>1, <1>2, <1>5, <2>2 DEF IInv, Types, Others
<1>7. \A d \in Cores : Position(d)'
  <2>1. HeapLeft(c) /\ NewlibLeft(c) /\ stale \subseteq stale'
    BY <1>1 DEF HeapLeft, NewlibLeft
  <2>2. \A d \in Cores \ {c} : Position(d)'
    BY <1>1, <1>2, <2>1, OtherPositions
  <2>3. Position(c)'
    BY <1>2 DEF Position, Idle, InKmalloc, InDmaAlloc, InDmaFree, InSbrk
  <2>4. QED
    BY <2>2, <2>3
<1>8. \A d \in Cores : /\ (Reserves(d)' <=> Reserves(d) /\ d # c) /\ (Frees(d)' <=> Frees(d))
                       /\ d # c => call'[d] = call[d]
  BY <1>1, <1>2 DEF Others, Reserves, Frees
<1>9. ~Frees(c)
  BY <1>1 DEF Frees
<1>10. Regions'
  <2>1. OfDma' = OfDma
    BY <1>1 DEF OfDma
  <2>2. ASSUME NEW b, b.n \in Nat, InDmaWindow(b), PagesOf(b) \cap PagesOf(call[c]) = {} PROVE InDmaWindow(b)'
    <3>1. PageOf(b.va) \in Nat
      BY <2>2 DEF InDmaWindow, OnPage
    <3>2. b.n > 0 => PageOf(b.va) + b.n <= bump
      BY <2>2 DEF InDmaWindow, End, bump
    <3>3. b.n > 0 => PageOf(b.va) + b.n - 1 \in PagesOf(b)
      BY <2>2, <3>1 DEF PagesOf
    <3>4. b.n > 0 => PageOf(b.va) + b.n - 1 \notin first..(first + n - 1)
      BY <1>3, <2>2, <3>3
    <3>5. b.n > 0 => PageOf(b.va) + b.n <= (PageOf(dma_bump_ptr))'
      BY <1>3, <1>5, <2>2, <3>1, <3>2, <3>4
    <3>6. QED
      BY <2>2, <3>5 DEF InDmaWindow, End
  <2>3. \A b \in OfDma : InDmaWindow(b)'
    <3>1. \A b \in OfDma : b.n \in Nat /\ InDmaWindow(b) /\ PagesOf(b) \cap PagesOf(call[c]) = {}
      BY <1>3, BufferPages DEF IInv, Regions
    <3>2. QED
      BY <2>2, <3>1
  <2>4. \A d \in Cores : Reserves(d)' => InDmaWindow(call[d])'
    <3> SUFFICES ASSUME NEW d \in Cores, d # c, Reserves(d) PROVE InDmaWindow(call[d])'
      BY <1>8
    <3>1. call[d].n \in Nat /\ InDmaWindow(call[d]) /\ PagesOf(call[d]) \cap PagesOf(call[c]) = {}
      BY <1>3 DEF IInv, Regions, Types, CallRecords
    <3> DEFINE b == call[d]
    <3>2. InDmaWindow(b)'
      BY <1>8, <3>1, <2>2 DEF InDmaWindow, End
    <3>3. QED
      BY <1>8, <3>2 DEF InDmaWindow, End
  <2>5. \A d \in Cores : Reserves(d)' => PagesOf(call[d])' = PagesOf(call[d])
    BY <1>8 DEF PagesOf
  <2>6. \A a \in OfDma', d \in Cores : Reserves(d)' => PagesOf(a)' \cap PagesOf(call[d])' = {}
    BY <1>8, <2>1, <2>5 DEF IInv, Regions, PagesOf
  <2>7. \A d, e \in Cores : d # e /\ Reserves(d)' /\ Reserves(e)' => PagesOf(call[d])' \cap PagesOf(call[e])' = {}
    BY <1>8, <2>5 DEF IInv, Regions
  <2>8. \A d, e \in Cores : d # e /\ Frees(d)' /\ Frees(e)' => call'[d].va # call'[e].va
    BY <1>8, <1>9 DEF IInv, Regions
  <2>9. \A a, d \in OfDma' : a # d => PagesOf(a)' \cap PagesOf(d)' = {}
    BY <2>1 DEF IInv, Regions, PagesOf
  <2>10. QED
    BY <1>1, <2>1, <2>3, <2>4, <2>6, <2>7, <2>8, <2>9 DEF IInv, Regions
<1>11. Mappings'
  <2>1. ASSUME NEW p \in DmaPages, p >= (PageOf(dma_bump_ptr))' PROVE vm'[p] = 0
    <3>1. p \in Int
      BY Windows DEF DmaPages, Window, OnPage
    <3>2. CASE p >= bump
      BY <1>1, <3>2 DEF IInv, Mappings, bump
    <3>3. CASE ~(p >= bump)
      <4>1. p \in PagesOf(call[c])
        BY <1>3, <1>5, <2>1, <3>1, <3>3
      <4>2. QED
        BY <1>1, <1>3, <4>1 DEF Unbacked
    <3>4. QED
      BY <3>2, <3>3
  <2>2. DmaBuffersBacked'
    BY <1>1 DEF IInv, Mappings, DmaBuffersBacked
  <2>3. \A b \in stale : (\A d \in Cores : ~Gives(d, b)') => Unbacked(b)'
    BY <1>1, <1>8, <1>9 DEF IInv, Mappings, Unbacked, Gives
  <2>4. \A d \in Cores : (At(d, "_sbrk", "free")' <=> At(d, "_sbrk", "free"))
                         /\ (At(d, "_sbrk", "free") => call'[d] = call[d])
    BY <1>1, <1>2, <1>8 DEF At
  <2>5. QED
    BY <1>1, <2>1, <2>2, <2>3, <2>4 DEF IInv, Mappings
<1>12. FramesApart' /\ NoFrameLost'
  <2>1. InHand(c)' = InHand(c)
    BY <1>1, <1>2 DEF InHand
  <2>2. QED
    BY <1>1, <1>2, <2>1, FramesStay
<1>13. Blocks'
  BY <1>1 DEF IInv, Blocks
<1>14. QED
  BY <1>6, <1>7, <1>10, <1>11, <1>12, <1>13 DEF IInv

-----------------------------------------------------------------------------
(* The theorems *)

\* The three allocators start with empty windows and every frame free.
LEMMA InitIInv ==
  ASSUME Init
  PROVE  IInv
<1>1. /\ free = Frames /\ vm = [p \in PageNumbers |-> 0]
      /\ mmu_lock = Nobody /\ heap_lock = Nobody /\ newlib_lock = Nobody
      /\ bump_ptr = HEAP_BASE /\ heap_end = HEAP_BASE /\ dma_bump_ptr = DMA_BASE
      /\ curr_brk = NEWLIB_HEAP_BASE /\ CURR_NEWLIB_HEAP_END = NEWLIB_HEAP_BASE
      /\ calls = [c \in Cores |-> 0] /\ blocks = {} /\ buffers = {} /\ stale = {}
  BY DEF Init
<1>2. \A c \in Cores : call[c] = Returned
  BY DEF Init
<1>3. \A c \in Cores : call[c].fn = "none" /\ call[c].pc = "none" /\ call[c].n = 0 /\ call[c].i = 0
  BY <1>2 DEF Returned
<1>4. call \in [Cores -> CallRecords]
  <2>1. Returned \in CallRecords
    BY Sizes DEF Returned, CallRecords
  <2>2. QED
    BY <2>1 DEF Init
<1>5. Types
  <2>1. \A c \in Cores : call[c].n \in Nat /\ call[c].i \in 0..call[c].n
    BY <1>3
  <2>2. vm \in [PageNumbers -> 0..LastFrame] /\ calls \in [Cores -> 0..MaxCalls]
    BY <1>1, Sizes
  <2>3. TypeOK
    BY <1>1, <2>1, <2>2, Sizes DEF TypeOK
  <2>4. OnPage(heap_end) /\ OnPage(dma_bump_ptr) /\ OnPage(CURR_NEWLIB_HEAP_END)
    BY <1>1, Windows
  <2>5. PageOf(CURR_NEWLIB_HEAP_END) <= LastPage + 1 /\ NEWLIB_HEAP_BASE <= CURR_NEWLIB_HEAP_END
    BY <1>1, Windows, Sizes DEF OnPage
  <2>6. QED
    BY <1>1, <1>4, <2>3, <2>4, <2>5 DEF Types
<1>6. \A c \in Cores : Position(c)
  BY <1>3 DEF Position, Idle, InKmalloc, InDmaAlloc, InDmaFree, InSbrk
<1>7. Regions
  BY <1>1, <1>3 DEF Regions, OfDma, Reserves, Frees
<1>8. \A p \in PageNumbers : vm[p] = 0
  BY <1>1
<1>9. Mappings
  <2>1. \A p \in NewlibPages : vm[p] = 0 /\ ~(p < PageOf(CURR_NEWLIB_HEAP_END))
    <3>1. \A p \in NewlibPages : vm[p] = 0
      BY <1>8, WindowsApart
    <3>2. \A p \in NewlibPages : ~(p < PageOf(NEWLIB_HEAP_BASE))
      BY Windows DEF NewlibPages, OnPage
    <3>3. QED
      BY <1>1, <3>1, <3>2
  <2>2. \A p \in HeapPages \cup DmaPages : vm[p] = 0
    BY <1>8, WindowsApart
  <2>3. curr_brk <= CURR_NEWLIB_HEAP_END
    BY <1>1, Sizes
  <2>4. QED
    BY <1>1, <2>1, <2>2, <2>3 DEF Mappings, DmaBuffersBacked
<1>10. \A c \in Cores : InHand(c) = {}
  BY <1>3 DEF InHand
<1>11. FramesApart
  <2>1. 0 \notin Frames
    BY Sizes DEF Frames
  <2>2. QED
    BY <1>1, <1>8, <1>10, <2>1 DEF FramesApart, MappedFramesOwned
<1>12. Blocks
  BY <1>1, Windows, AlignedByPage DEF Blocks
<1>13. NoFrameLost
  <2>1. Frames \ Accounted = {}
    BY <1>1 DEF Accounted
  <2>2. Holes = {}
    <3>1. \A p \in HeapPages : ~(p < PageOf(HEAP_BASE))
      BY Windows DEF HeapPages, Window, OnPage
    <3>2. QED
      BY <1>1, <1>5, <3>1, HolesInHeap
  <2>3. QED
    BY <2>1, <2>2, NoneLost DEF Lost
<1>14. QED
  BY <1>5, <1>6, <1>7, <1>9, <1>11, <1>12, <1>13 DEF IInv

\* The invariant reads no variable but vars.
LEMMA StutterIInv ==
  ASSUME IInv, UNCHANGED vars
  PROVE  IInv'
<1>1. UNCHANGED <<free, vm, mmu_lock, heap_lock, newlib_lock, bump_ptr, heap_end, blocks>>
      /\ UNCHANGED <<dma_bump_ptr, buffers, stale, curr_brk, CURR_NEWLIB_HEAP_END, call, calls>>
  BY DEF vars
<1>2. Types'
  BY <1>1 DEF IInv, Types, TypeOK
<1>3. (\A d \in Cores : Position(d)')
  BY <1>1 DEF IInv, Position, Idle, InKmalloc, InDmaAlloc, InDmaFree, InSbrk, Unbacked, BackedBy, PagesOf,
       kmalloc_end, sbrk_end, InWindow
<1>4. Regions'
  BY <1>1 DEF IInv, Regions, OfDma, Reserves, Frees, InDmaWindow, End
<1>5. Mappings'
  BY <1>1 DEF IInv, Mappings, DmaBuffersBacked, Gives, Frees, Unbacked, At
<1>6. FramesApart'
  BY <1>1 DEF IInv, FramesApart, MappedFramesOwned, InHand
<1>7. NoFrameLost'
  BY <1>1 DEF IInv, NoFrameLost, Accounted, InHand
<1>8. Blocks'
  BY <1>1 DEF IInv, Blocks
<1>9. QED
  BY <1>2, <1>3, <1>4, <1>5, <1>6, <1>7, <1>8 DEF IInv

\* Every step of a call keeps the invariant.
LEMMA StepIInv ==
  ASSUME IInv, NEW c \in Cores, Step(c)
  PROVE  IInv'
<1>1. CASE MapBegins(c) \/ Translate(c) \/ Unmap(c) \/ FreeFrame(c)
  BY <1>1, MapBeginsQuiet, TranslateQuiet, UnmapKeeps, FreeFrameKeeps
<1>2. CASE \/ KmallocExhausted(c) \/ KmallocLocks(c) \/ KmallocFrame(c) \/ KmallocOutOfFrames(c)
           \/ KmallocMapEnds(c) \/ KmallocReturns(c)
  BY <1>2, KmallocExhaustedQuiet, KmallocLocksQuiet, KmallocFrameKeeps, KmallocOutOfFramesQuiet,
     KmallocMapEndsKeeps, KmallocReturnsKeeps
<1>3. CASE \/ DmaFrames(c) \/ DmaNoFrames(c) \/ DmaMapped(c) \/ DmaMapFails(c) \/ DmaFramesFreed(c)
           \/ _dma_reclaim_va(c) \/ DmaNotMapped(c) \/ DmaFreed(c)
  BY <1>3, DmaFramesKeeps, DmaNoFramesQuiet, DmaMappedKeeps, DmaMapFailsQuiet, DmaFramesFreedQuiet,
     _dma_reclaim_vaKeeps, DmaNotMappedQuiet, DmaFreedQuiet
<1>4. CASE \/ SbrkRefused(c) \/ SbrkLocks(c) \/ SbrkFrame(c) \/ SbrkOutOfFrames(c) \/ SbrkMapped(c)
           \/ SbrkMapFails(c) \/ SbrkShrinks(c) \/ SbrkPageFreed(c) \/ SbrkReturns(c)
  BY <1>4, SbrkRefusedQuiet, SbrkLocksQuiet, SbrkFrameKeeps, SbrkOutOfFramesQuiet, SbrkMappedKeeps,
     SbrkMapFailsKeeps, SbrkShrinksQuiet, SbrkPageFreedKeeps, SbrkReturnsKeeps
<1>5. QED
  BY <1>1, <1>2, <1>3, <1>4 DEF Step

\* So does every call, and the end.
LEMMA NextIInv ==
  ASSUME IInv, [Next]_vars
  PROVE  IInv'
<1>1. ASSUME NEW c \in Cores, Calls(c) PROVE IInv'
  <2>1. ASSUME NEW size \in KmallocSizes, kmalloc(c, size) PROVE IInv'
    BY <2>1, kmallocQuiet
  <2>2. ASSUME NEW size \in DmaSizes, dma_alloc(c, size) PROVE IInv'
    BY <2>2, dma_allocKeeps
  <2>3. ASSUME NEW b \in buffers \cup stale,
               \A d \in Cores : ~(call[d].fn = "dma_free" /\ call[d].va = b.va), dma_free(c, b)
        PROVE  IInv'
    BY <2>3, dma_freeKeeps DEF OfDma
  <2>4. ASSUME NEW incr \in Increments, _sbrk(c, incr) PROVE IInv'
    BY <2>4, _sbrkQuiet
  <2>5. QED
    BY <1>1, <2>1, <2>2, <2>3, <2>4 DEF Calls
<1>2. QED
  BY <1>1, StepIInv, StutterIInv DEF Next

\* The inductive invariant: what each core has in hand, where it works, and
\* how windows, tables and frames agree, between any two steps of the code.
THEOREM Inductive == Spec => []IInv
<1>1. Init => IInv
  BY InitIInv
<1>2. IInv /\ [Next]_vars => IInv'
  BY NextIInv
<1>3. QED
  BY <1>1, <1>2, PTL DEF Spec

\* The error paths of kmalloc.cpp, dma.cpp and newlib.cpp share the PMM's
\* frames without one being mapped twice, mapped while free, or lost (but for
\* the frame of a failed kmalloc map), for any number of cores and frames.
THEOREM FramesAreKept == Spec => []FramesKept
<1>1. IInv => FramesKept
  BY DEF IInv, Types, FramesApart, FramesKept
<1>2. QED
  BY <1>1, Inductive, PTL

\* The disjointness of reservations, from that of buffers and calls.
LEMMA ReservationsApart ==
  ASSUME IInv
  PROVE  ReservationsDisjoint
<1>1. ASSUME NEW r \in Reservations
      PROVE  \/ \E b \in OfDma : r = [va |-> b.va, n |-> b.n]
             \/ \E c \in Cores : Reserves(c) /\ r = [va |-> call[c].va, n |-> call[c].n]
  BY DEF Reservations, OfDma, Reserves
<1>2. ASSUME NEW b, b.n \in Nat, InDmaWindow(b), b.n > 0
      PROVE  b.va + b.n * PAGE_SIZE <= dma_bump_ptr
  <2>1. OnPage(b.va) /\ PageOf(b.va) \in Nat /\ PageOf(b.va) + b.n <= PageOf(dma_bump_ptr)
    BY <1>2 DEF InDmaWindow, End, OnPage
  <2>2. OnPage(b.va + b.n * PAGE_SIZE) /\ PageOf(b.va + b.n * PAGE_SIZE) = PageOf(b.va) + b.n
    BY <1>2, <2>1, PagesFurther
  <2>3. dma_bump_ptr \in Nat
    BY DEF IInv, Types, OnPage
  <2> DEFINE e == b.va + b.n * PAGE_SIZE
  <2>4. OnPage(e) /\ PageOf(e) <= PageOf(dma_bump_ptr)
    BY <2>1, <2>2
  <2> HIDE DEF e
  <2>5. e <= dma_bump_ptr
    BY <2>3, <2>4, PageOrder
  <2>6. QED
    BY <2>5 DEF e
<1>3. ASSUME NEW r \in Reservations, r.n > 0 PROVE r.va + r.n * PAGE_SIZE <= dma_bump_ptr
  <2>1. CASE \E b \in OfDma : r = [va |-> b.va, n |-> b.n]
    <3>1. PICK b \in OfDma : r = [va |-> b.va, n |-> b.n]
      BY <2>1
    <3>2. r.va = b.va /\ r.n = b.n /\ b.n \in Nat /\ InDmaWindow(b)
      BY <3>1, BufferPages
    <3>3. b.n > 0
      BY <1>3, <3>2
    <3>4. b.va + b.n * PAGE_SIZE <= dma_bump_ptr
      BY <1>2, <3>2, <3>3
    <3>5. QED
      BY <3>2, <3>4, Zenon
  <2>2. CASE \E c \in Cores : Reserves(c) /\ r = [va |-> call[c].va, n |-> call[c].n]
    <3>1. PICK c \in Cores : Reserves(c) /\ r = [va |-> call[c].va, n |-> call[c].n]
      BY <2>2
    <3>2. r.va = call[c].va /\ r.n = call[c].n /\ call[c].n \in Nat /\ InDmaWindow(call[c])
      BY <3>1 DEF IInv, Types, CallRecords, Regions
    <3>3. call[c].n > 0
      BY <1>3, <3>2
    <3>4. call[c].va + call[c].n * PAGE_SIZE <= dma_bump_ptr
      BY <1>2, <3>2, <3>3
    <3>5. QED
      BY <3>2, <3>4, Zenon
  <2>3. QED
    BY <1>1, <2>1, <2>2
<1>4. ASSUME NEW r \in Reservations, NEW s \in Reservations, r # s PROVE PagesOf(r) \cap PagesOf(s) = {}
  <2>1. ASSUME NEW b, NEW t, t = [va |-> b.va, n |-> b.n] PROVE PagesOf(t) = PagesOf(b)
    BY <2>1 DEF PagesOf
  <2>2. ASSUME NEW b \in OfDma, NEW d \in OfDma, r = [va |-> b.va, n |-> b.n], s = [va |-> d.va, n |-> d.n]
        PROVE  PagesOf(r) \cap PagesOf(s) = {}
    <3>1. b # d
      BY <1>4, <2>2
    <3>2. QED
      BY <2>1, <2>2, <3>1 DEF IInv, Regions
  <2>3. ASSUME NEW b \in OfDma, NEW c \in Cores, Reserves(c)
        PROVE  PagesOf(b) \cap PagesOf(call[c]) = {}
    BY <2>3 DEF IInv, Regions
  <2>4. ASSUME NEW c \in Cores, NEW d \in Cores, Reserves(c), Reserves(d),
               r = [va |-> call[c].va, n |-> call[c].n], s = [va |-> call[d].va, n |-> call[d].n]
        PROVE  PagesOf(r) \cap PagesOf(s) = {}
    <3>1. c # d
      BY <1>4, <2>4
    <3>2. PagesOf(call[c]) \cap PagesOf(call[d]) = {}
      BY <2>4, <3>1 DEF IInv, Regions
    <3>3. PagesOf(r) = PagesOf(call[c]) /\ PagesOf(s) = PagesOf(call[d])
      BY <2>4 DEF PagesOf
    <3>4. QED
      BY <3>2, <3>3
  <2>5. ASSUME NEW b \in OfDma, NEW c \in Cores, Reserves(c),
               \/ r = [va |-> b.va, n |-> b.n] /\ s = [va |-> call[c].va, n |-> call[c].n]
               \/ s = [va |-> b.va, n |-> b.n] /\ r = [va |-> call[c].va, n |-> call[c].n]
        PROVE  PagesOf(r) \cap PagesOf(s) = {}
    <3>1. PagesOf(b) \cap PagesOf(call[c]) = {}
      BY <2>3, <2>5
    <3>2. \/ PagesOf(r) = PagesOf(b) /\ PagesOf(s) = PagesOf(call[c])
          \/ PagesOf(s) = PagesOf(b) /\ PagesOf(r) = PagesOf(call[c])
      BY <2>5 DEF PagesOf
    <3>3. QED
      BY <3>1, <3>2
  <2>6. QED
    BY <1>1, <2>2, <2>4, <2>5
<1>5. \A c, d \in Cores : c # d /\ call[c].fn = "dma_alloc" /\ call[d].fn = "dma_alloc"
                            => PagesOf(call[c]) \cap PagesOf(call[d]) = {}
  BY DEF IInv, Regions, Reserves
<1>6. QED
  BY <1>3, <1>4, <1>5, Zenon DEF ReservationsDisjoint

\* dma_alloc and dma_free: a buffer stays backed by its own consecutive frames
\* until it is freed, and _dma_reclaim_va never takes back a range that a
\* buffer or another reservation has.
THEOREM DmaBuffersAreSound == Spec => []DmaBuffersSound
<1>1. IInv => DmaBuffersSound
  BY ReservationsApart DEF IInv, Mappings, DmaBuffersSound
<1>2. QED
  BY <1>1, Inductive, PTL

\* kmalloc's blocks are disjoint, aligned and mapped up to heap_end, and
\* outside a call every page below _sbrk's end is mapped and none above it.
THEOREM HeapsAreSound == Spec => []HeapsSound
<1>1. IInv => BreakBacked
  <2> SUFFICES ASSUME IInv, newlib_lock = Nobody
               PROVE  /\ curr_brk <= CURR_NEWLIB_HEAP_END
                      /\ \A p \in NewlibPages : vm[p] # 0 <=> p < PageOf(CURR_NEWLIB_HEAP_END)
    BY DEF BreakBacked, NewlibPages
  <2>1. \A c \in Cores : ~At(c, "_sbrk", "free")
    BY Requests DEF IInv, Position, InSbrk, At
  <2>2. QED
    BY <2>1 DEF IInv, Mappings
<1>2. IInv => HeapBlocksDisjoint
  <2> SUFFICES ASSUME IInv PROVE HeapBlocksDisjoint
    OBVIOUS
  <2>1. \A b \in blocks : b[2] \in Nat /\ b[2] <= bump_ptr
    BY DEF IInv, Types, Blocks
  <2>2. bump_ptr \in Nat /\ heap_end \in Nat /\ bump_ptr <= heap_end
    BY Sizes DEF IInv, Types, TypeOK, OnPage
  <2>3. \A b \in blocks : b[2] <= heap_end
    BY <2>1, <2>2
  <2>4. QED
    BY <2>3 DEF IInv, Blocks, HeapBlocksDisjoint
<1>3. QED
  BY <1>1, <1>2, Inductive, PTL DEF HeapsSound
====
