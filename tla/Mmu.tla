-------------------------------- MODULE Mmu ---------------------------------
(***************************************************************************)
(* The page tables: map with its rollback, unmap, translate, and the       *)
(* hardware that walks the tables while they are being edited.             *)
(*                                                                         *)
(* One caller at a time holds mmu_lock; `op` is how far it has come.  The  *)
(* frames come from the PMM, whose lock is free between two table edits,   *)
(* so other callers allocate and free frames while a map is under way.     *)
(* The PMM is used as FrameAllocator describes it, with its first-fit      *)
(* choice; an alloc_frame and a free_frame are each one step.              *)
(*                                                                         *)
(* A table is a frame's content.  Data frames have content too, which may  *)
(* look like descriptors: a frame must be zeroed before it is a table.     *)
(* `cached` is the union of the cores' TLBs: tlbi vaae1is is broadcast, so *)
(* a translation matters as long as some core has it.                      *)
(***************************************************************************)
EXTENDS Integers, FiniteSets

CONSTANTS
  ENTRIES,     \* entries of a table (512)
  LastFrame,   \* frames are numbered from 1; 0 is "no frame"
  L1,          \* the frame mmu_init allocated for l1_table
  Callers,     \* the kernel code that maps, on any core
  Nobody,      \* holder of a free mmu_lock
  WalkCache,   \* whether the walkers keep table descriptors
  StoreBuffer, \* whether a store waits for a barrier before walkers see it
  Ranges       \* the <<va, n>> the callers ask for

Frames == 1..LastFrame
Index == 0..(ENTRIES - 1)
Pages == 0..(ENTRIES * ENTRIES * ENTRIES - 1)

ASSUME MmuAssumption ==
  /\ ENTRIES \in Nat \ {0}
  /\ LastFrame \in Nat
  /\ L1 \in 1..LastFrame
  /\ Nobody \notin Callers
  /\ WalkCache \in BOOLEAN /\ StoreBuffer \in BOOLEAN
  /\ Ranges \subseteq {r \in Pages \X Pages : r[2] >= 1 /\ r[1] + r[2] - 1 \in Pages}

VARIABLES
  table,   \* frame -> its 512 words: a frame, or 0 for an invalid descriptor
  free,    \* the frames the PMM has free
  held,    \* caller -> the data frames it holds, mapped or not
  op,      \* what the holder of mmu_lock is doing
  cached,  \* <<page, frame>>: translations in some core's TLB
  walks,   \* <<L1 index, L2 index, frame>>: table descriptors a walker kept
  late,    \* <<page, frame>>: cleared descriptors a walker may still read
  before   \* history: the mapping when mmu_lock was taken

vars == <<table, free, held, op, cached, walks, late, before>>

L1_INDEX(p) == (p \div (ENTRIES * ENTRIES)) % ENTRIES
L2_INDEX(p) == (p \div ENTRIES) % ENTRIES
L3_INDEX(p) == p % ENTRIES

\* The tables of a page, 0 where the walk ends early.
L2Table(p) == table[L1][L1_INDEX(p)]
L3Table(p) == IF L2Table(p) = 0 THEN 0 ELSE table[L2Table(p)][L2_INDEX(p)]

\* The frame a page is mapped to, or 0 (the code's ~0).
translate(p) == IF L3Table(p) = 0 THEN 0 ELSE table[L3Table(p)][L3_INDEX(p)]

Mapping == [p \in Pages |-> translate(p)]

_table_is_empty(t) == \A i \in Index : table[t][i] = 0

NoTable == [i \in Index |-> 0]
Junk(f) == [i \in Index |-> f]

Idle == [by |-> Nobody, fn |-> "none", pc |-> "none", t |-> L1,
         va |-> 0, phys |-> 0, n |-> 0, i |-> 0]

Page == op.va + op.i
RangeOf(va, n) == va..(va + n - 1)
Least(S) == CHOOSE x \in S : \A y \in S : x <= y

\* mmu_init has installed l1_table; the identity map fills L1 entries of its
\* own, which nobody ever edits again and the pages here leave out.
Init ==
  /\ table = [f \in Frames |-> NoTable]
  /\ free = Frames \ {L1}
  /\ held = [c \in Callers |-> {}]
  /\ op = Idle
  /\ cached = {}
  /\ walks = {}
  /\ late = {}
  /\ before = [p \in Pages |-> 0]

-----------------------------------------------------------------------------
(* map *)

map(c, va, phys, n) ==
  /\ op.by = Nobody
  /\ op' = [by |-> c, fn |-> "map", pc |-> "L2", t |-> L1,
            va |-> va, phys |-> phys, n |-> n, i |-> 0]
  /\ before' = Mapping
  /\ UNCHANGED <<table, free, held, cached, walks, late>>

\* The entry of table op.t that _get_or_alloc_table looks at.
Entry == IF op.pc = "L2" THEN L1_INDEX(Page) ELSE L2_INDEX(Page)

LooksUp(c) == op.by = c /\ op.pc \in {"L2", "L3"} /\ op.i < op.n

Descend(t) == [op EXCEPT !.t = t, !.pc = IF @ = "L2" THEN "L3" ELSE "PTE"]

TableFound(c) ==
  /\ LooksUp(c)
  /\ table[op.t][Entry] # 0
  /\ op' = Descend(table[op.t][Entry])
  /\ UNCHANGED <<table, free, held, cached, walks, late, before>>

TableAllocated(c) ==
  /\ LooksUp(c)
  /\ table[op.t][Entry] = 0
  /\ free # {}
  /\ LET child == Least(free)
     IN /\ table' = [table EXCEPT ![child] = NoTable, ![op.t][Entry] = child]
        /\ free' = free \ {child}
        /\ op' = Descend(child)
  /\ UNCHANGED <<held, cached, walks, late, before>>

\* Fault: the rollback stops one page short.
RollbackShort(c) ==
  /\ LooksUp(c)
  /\ table[op.t][Entry] = 0
  /\ free = {}
  /\ op' = [op EXCEPT !.fn = "rollback", !.pc = "clear", !.t = L1,
                      !.n = IF op.i = 0 THEN 0 ELSE op.i - 1, !.i = 0]
  /\ UNCHANGED <<table, free, held, cached, walks, late, before>>

\* Out of frames: the pages written so far are unmapped again.
TableMissing(c) ==
  /\ LooksUp(c)
  /\ table[op.t][Entry] = 0
  /\ free = {}
  /\ op' = [op EXCEPT !.fn = "rollback", !.pc = "clear", !.t = L1,
                      !.n = op.i, !.i = 0]
  /\ UNCHANGED <<table, free, held, cached, walks, late, before>>

WritePte(c) ==
  /\ op.by = c /\ op.pc = "PTE"
  /\ table' = [table EXCEPT ![op.t][L3_INDEX(Page)] = op.phys + op.i]
  /\ op' = [op EXCEPT !.pc = "L2", !.t = L1, !.i = @ + 1]
  /\ UNCHANGED <<free, held, cached, walks, late, before>>

\* tlbi vaae1is for every page of the range: its translations and the table
\* descriptors of its walks go.
InvalidateRange(va, n) ==
  /\ cached' = {e \in cached : e[1] \notin RangeOf(va, n)}
  /\ walks' = {w \in walks :
                 \A p \in RangeOf(va, n) : w[1] # L1_INDEX(p) \/ w[2] # L2_INDEX(p)}

\* Fault: map leaves the TLBs alone, as if an invalid entry had nothing cached.
MapWithoutTlbi(c) ==
  /\ op.by = c /\ op.fn = "map" /\ op.pc = "L2" /\ op.i >= op.n
  /\ op' = [op EXCEPT !.pc = "dsb"]
  /\ UNCHANGED <<table, free, held, cached, walks, late, before>>

\* Every page is written.
TlbiMapped(c) ==
  /\ op.by = c /\ op.fn = "map" /\ op.pc = "L2" /\ op.i >= op.n
  /\ InvalidateRange(op.va, op.n)
  /\ op' = [op EXCEPT !.pc = "dsb"]
  /\ UNCHANGED <<table, free, held, late, before>>

\* dsb ish, and mmu_lock is released.  map returns true unless it rolled back.
Return(c) ==
  /\ op.by = c /\ op.pc = "dsb"
  /\ op' = Idle
  /\ late' = {}
  /\ UNCHANGED <<table, free, held, cached, walks, before>>

-----------------------------------------------------------------------------
(* unmap, and the rollback of map, which does the same with the lock held *)

unmap(c, va, n) ==
  /\ op.by = Nobody
  /\ op' = [by |-> c, fn |-> "unmap", pc |-> "clear", t |-> L1,
            va |-> va, phys |-> 0, n |-> n, i |-> 0]
  /\ before' = Mapping
  /\ UNCHANGED <<table, free, held, cached, walks, late>>

Clears(c, pc) == op.by = c /\ op.fn \in {"unmap", "rollback"} /\ op.pc = pc

\* A page whose table is missing ends the loop: unlock, nothing invalidated.
TableAbsent(c) ==
  /\ Clears(c, "clear") /\ op.i < op.n
  /\ L3Table(Page) = 0
  /\ op' = Idle
  /\ UNCHANGED <<table, free, held, cached, walks, late, before>>

ClearPte(c) ==
  /\ Clears(c, "clear") /\ op.i < op.n
  /\ L3Table(Page) # 0
  /\ table' = [table EXCEPT ![L3Table(Page)][L3_INDEX(Page)] = 0]
  /\ late' = IF StoreBuffer /\ translate(Page) # 0
             THEN late \cup {<<Page, translate(Page)>>} ELSE late
  /\ op' = [op EXCEPT !.pc = "drop L3", !.t = L2Table(Page)]
  /\ UNCHANGED <<free, held, cached, walks, before>>

\* An L3 table that is empty now: its descriptor is cleared, then it is freed.
DropL3(c) ==
  /\ Clears(c, "drop L3")
  /\ _table_is_empty(L3Table(Page))
  /\ table' = [table EXCEPT ![op.t][L2_INDEX(Page)] = 0]
  /\ free' = free \cup {L3Table(Page)}
  /\ op' = [op EXCEPT !.pc = "drop L2"]
  /\ UNCHANGED <<held, cached, walks, late, before>>

KeepL3(c) ==
  /\ Clears(c, "drop L3")
  /\ ~_table_is_empty(L3Table(Page))
  /\ op' = [op EXCEPT !.pc = "drop L2"]
  /\ UNCHANGED <<table, free, held, cached, walks, late, before>>

NextPage == [op EXCEPT !.pc = "clear", !.t = L1, !.i = @ + 1]

\* Fault: the L2 table is unlinked and never given back.
DropL2Leaked(c) ==
  /\ Clears(c, "drop L2")
  /\ _table_is_empty(op.t)
  /\ table' = [table EXCEPT ![L1][L1_INDEX(Page)] = 0]
  /\ op' = NextPage
  /\ UNCHANGED <<free, held, cached, walks, late, before>>

DropL2(c) ==
  /\ Clears(c, "drop L2")
  /\ _table_is_empty(op.t)
  /\ table' = [table EXCEPT ![L1][L1_INDEX(Page)] = 0]
  /\ free' = free \cup {op.t}
  /\ op' = NextPage
  /\ UNCHANGED <<held, cached, walks, late, before>>

KeepL2(c) ==
  /\ Clears(c, "drop L2")
  /\ ~_table_is_empty(op.t)
  /\ op' = NextPage
  /\ UNCHANGED <<table, free, held, cached, walks, late, before>>

\* Fault: no TLB invalidation.
NoTlbi(c) ==
  /\ Clears(c, "clear") /\ op.i >= op.n
  /\ op' = [op EXCEPT !.pc = "dsb"]
  /\ UNCHANGED <<table, free, held, cached, walks, late, before>>

TlbiCleared(c) ==
  /\ Clears(c, "clear") /\ op.i >= op.n
  /\ InvalidateRange(op.va, op.n)
  /\ op' = [op EXCEPT !.pc = "dsb"]
  /\ UNCHANGED <<table, free, held, late, before>>

Step(c) ==
  \/ TableFound(c) \/ TableAllocated(c) \/ TableMissing(c) \/ WritePte(c) \/ TlbiMapped(c)
  \/ TableAbsent(c) \/ ClearPte(c) \/ DropL3(c) \/ KeepL3(c) \/ DropL2(c) \/ KeepL2(c)
  \/ TlbiCleared(c) \/ Return(c)

-----------------------------------------------------------------------------
(* The hardware: a core may translate any address at any time, also         *)
(* speculatively, and keep what it read.                                    *)

Walk(p) ==
  /\ L3Table(p) # 0
  /\ cached' = IF translate(p) = 0 THEN cached ELSE cached \cup {<<p, translate(p)>>}
  /\ walks' = IF WalkCache
              THEN walks \cup {<<L1_INDEX(p), L2_INDEX(p), L3Table(p)>>} ELSE walks
  /\ UNCHANGED <<table, free, held, op, late, before>>

\* A walk that starts from a kept table descriptor.
WalkFrom(w, p) ==
  /\ w[1] = L1_INDEX(p) /\ w[2] = L2_INDEX(p)
  /\ table[w[3]][L3_INDEX(p)] # 0
  /\ cached' = cached \cup {<<p, table[w[3]][L3_INDEX(p)]>>}
  /\ UNCHANGED <<table, free, held, op, walks, late, before>>

\* A walk that reads a descriptor the holder of mmu_lock has cleared.
WalkLate(e) ==
  /\ cached' = cached \cup {e}
  /\ UNCHANGED <<table, free, held, op, walks, late, before>>

Hardware ==
  \/ \E p \in Pages : Walk(p)
  \/ \E w \in walks : \E p \in Pages : WalkFrom(w, p)
  \/ \E e \in late : WalkLate(e)

-----------------------------------------------------------------------------
(* The PMM's side: data frames *)

Used == {translate(p) : p \in Pages}

\* A caller is given the first free run of n frames and fills it with data.
alloc_frames(c, n) ==
  /\ op.by # c
  /\ \E s \in Frames :
       /\ s..(s + n - 1) \subseteq free
       /\ \A r \in 1..(s - 1) : ~(r..(r + n - 1) \subseteq free)
       /\ free' = free \ (s..(s + n - 1))
       /\ held' = [held EXCEPT ![c] = @ \cup s..(s + n - 1)]
       /\ table' = [f \in Frames |-> IF f \in s..(s + n - 1) THEN Junk(f) ELSE table[f]]
  /\ UNCHANGED <<op, cached, walks, late, before>>

free_frame(c, f) ==
  /\ op.by # c
  /\ f \in held[c]
  /\ free' = free \cup {f}
  /\ held' = [held EXCEPT ![c] = @ \ {f}]
  /\ UNCHANGED <<table, op, cached, walks, late, before>>

-----------------------------------------------------------------------------
(* The callers: a range is mapped when it is unmapped, by frames the caller *)
(* holds; it is unmapped whole; a frame is freed when nothing maps it.      *)

MayMap(c, va, phys, n) ==
  /\ phys..(phys + n - 1) \subseteq held[c] \ Used
  /\ \A p \in RangeOf(va, n) : translate(p) = 0

MayUnmap(c, va, n) ==
  \/ \A p \in RangeOf(va, n) : translate(p) \in held[c]
  \/ \A p \in RangeOf(va, n) : translate(p) = 0

Call(c) ==
  \/ \E r \in Ranges, phys \in Frames : MayMap(c, r[1], phys, r[2]) /\ map(c, r[1], phys, r[2])
  \/ \E r \in Ranges : MayUnmap(c, r[1], r[2]) /\ unmap(c, r[1], r[2])
  \/ \E r \in Ranges : alloc_frames(c, r[2])
  \/ \E f \in held[c] \ Used : free_frame(c, f)

Next ==
  \/ \E c \in Callers : Call(c) \/ Step(c)
  \/ Hardware

Spec == Init /\ [][Next]_vars

-----------------------------------------------------------------------------
Entries == 0..LastFrame

TypeOK ==
  /\ table \in [Frames -> [Index -> Entries]]
  /\ free \subseteq Frames
  /\ held \in [Callers -> SUBSET Frames]
  /\ op \in [by : Callers \cup {Nobody}, fn : {"none", "map", "unmap", "rollback"},
             pc : {"none", "L2", "L3", "PTE", "clear", "drop L3", "drop L2", "dsb"}, t : Frames,
             va : Pages, phys : Entries, n : Nat, i : Nat]
  /\ cached \subseteq Pages \X Frames
  /\ walks \subseteq Index \X Index \X Frames
  /\ late \subseteq Pages \X Frames
  /\ before \in [Pages -> Entries]

L2Tables == {L2Table(p) : p \in Pages} \ {0}
L3Tables == {L3Table(p) : p \in Pages} \ {0}
DataFrames == UNION {held[c] : c \in Callers}

\* The tables form a tree: an L2 table hangs from one L1 entry, an L3 table
\* from one L2 entry, and no frame is a table at two levels.
TablesAreATree ==
  /\ \A p, q \in Pages :
       L2Table(p) # 0 /\ L2Table(p) = L2Table(q) => L1_INDEX(p) = L1_INDEX(q)
  /\ \A p, q \in Pages :
       L3Table(p) # 0 /\ L3Table(p) = L3Table(q) =>
         L1_INDEX(p) = L1_INDEX(q) /\ L2_INDEX(p) = L2_INDEX(q)
  /\ L2Tables \cap L3Tables = {} /\ L1 \notin L2Tables \cup L3Tables

\* Every frame is free, a table that a walk can reach, or some caller's data,
\* and only one of these: a table is never handed out again while it is linked,
\* and no rollback or unmap loses a table (_unmap_locked's order of clearing
\* and freeing).
FramesAccountedFor ==
  LET tables == {L1} \cup L2Tables \cup L3Tables
  IN /\ Frames = free \cup tables \cup DataFrames
     /\ free \cap tables = {} /\ free \cap DataFrames = {} /\ tables \cap DataFrames = {}

\* Once mmu_lock is free no core has a translation that the tables do not
\* have, and at no time one to a frame that the PMM could hand out again.
NoStaleTranslation ==
  \A e \in cached :
    /\ e[2] \notin free
    /\ op.by = Nobody => e[2] = translate(e[1])

\* Even where walkers keep table descriptors and read cleared entries late, a
\* page that is mapped is never translated to anything but its frame: map's own
\* invalidation removes what an unmap left behind.
MappedPagesTranslate ==
  op.by = Nobody =>
    \A e \in cached : translate(e[1]) # 0 => e[2] = translate(e[1])

\* "Any pages mapped before a failure are unmapped before returning" and unmap
\* clears its whole range (map, _unmap_locked): to whoever takes mmu_lock the
\* tables are an address space that changes by whole ranges.
Space == INSTANCE AddressSpace
           WITH mapping <- IF op.by = Nobody THEN Mapping ELSE before
IsAddressSpace == Space!Spec

\* "any empty page tables created as a result are freed" (map's contract in
\* mmu.h, on the failure path; unmap promises the same).  This holds of L3
\* tables only: an L2 table that map had just linked when the L3 table could
\* not be had stays, empty, until a page is mapped under it and unmapped.
EmptyTablesFreed ==
  op.by = Nobody => \A t \in L3Tables : ~_table_is_empty(t)

\* What every walk and every caller of map and unmap relies on, whatever fails
\* half way: the tables are a tree, each frame has one owner, and no table is
\* left that maps nothing.
TablesSound == TypeOK /\ TablesAreATree /\ FramesAccountedFor /\ EmptyTablesFreed
=============================================================================
