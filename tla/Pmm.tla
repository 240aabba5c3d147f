-------------------------------- MODULE Pmm ---------------------------------
(***************************************************************************)
(* The physical memory manager: pmm_init's geometry, alloc_frame's scan of *)
(* the bitmap by words, alloc_frames's scan by bits, free_frame, and the   *)
(* shell's meminfo, which reads the bitmap without pmm_lock.               *)
(*                                                                         *)
(* The bitmap is the set of its bits that are 1, numbered as the frames    *)
(* they stand for; word i holds the bits i * WORD .. i * WORD + WORD - 1.  *)
(* A scan holds pmm_lock from its first step to its last (`scan.by` is the *)
(* holder); callers interleave between scans.  `held` is a history         *)
(* variable: the frames each caller was given and has not freed.           *)
(***************************************************************************)
EXTENDS Integers, FiniteSets

CONSTANTS
  PAGE_SIZE,     \* bytes in a frame (4096)
  WORD,          \* bits in a bitmap word (64)
  WORD_BYTES,    \* bytes in a bitmap word (8)
  PHYS_MEM_END,  \* first byte past the managed memory
  KernelEnds,    \* the addresses the linker may give __kernel_end
  Callers,       \* the callers of the allocator
  MaxCount,      \* bound: the longest run asked of alloc_frames
  Nobody         \* holder of a free pmm_lock

round_up(value, align) == ((value + align - 1) \div align) * align

ASSUME PmmAssumption ==
  /\ PAGE_SIZE \in Nat \ {0}
  /\ WORD \in Nat \ {0}
  /\ WORD_BYTES \in Nat \ {0}
  /\ PHYS_MEM_END \in Nat
  /\ KernelEnds \subseteq Nat
  /\ MaxCount \in Nat \ {0}
  /\ Nobody \notin Callers

VARIABLES
  bitmap_addr,     \* where the bitmap starts
  bitmap_words,    \* how many words pmm_init cleared
  phys_mem_start,  \* address of frame 0
  total_frames,    \* how many frames there are
  bitmap,          \* the bits that are 1
  scan,            \* the scan inside pmm_lock
  held,            \* history: caller -> the frames it was given
  meminfo          \* cmd_meminfo's loop: the next word and raw_set_bits

geometry == <<bitmap_addr, bitmap_words, phys_mem_start, total_frames>>
vars == <<bitmap_addr, bitmap_words, phys_mem_start, total_frames,
          bitmap, scan, held, meminfo>>

Idle == [by |-> Nobody, fn |-> "none", idx |-> 0, count |-> 0,
         run_start |-> 0, run_len |-> 0]

WordBits(i) == (i * WORD)..(i * WORD + WORD - 1)

\* The words that hold a frame's bit.
Words == (total_frames + WORD - 1) \div WORD

Bits == 0..(Words * WORD - 1)

FrameAddress(f) == phys_mem_start + f * PAGE_SIZE

UsedFrames == UNION {held[c] : c \in Callers}

-----------------------------------------------------------------------------
(* pmm_init *)

\* Fault: the last word's spare bits are left clear.
NoPadding(total) == {}

\* The bits of the last word past total_frames, marked used.
Padding(total) ==
  IF total % WORD = 0 THEN {}
  ELSE total..((total \div WORD) * WORD + WORD - 1)

\* Fault: the bitmap's own size is not carved out of the frames.
PlaceFramesAtBitmap(kernel_end) ==
  LET base  == round_up(kernel_end, PAGE_SIZE)
      words == ((PHYS_MEM_END - base) \div PAGE_SIZE + WORD - 1) \div WORD
      total == (PHYS_MEM_END - base) \div PAGE_SIZE
  IN /\ bitmap_addr = base
     /\ bitmap_words = words
     /\ phys_mem_start = base
     /\ total_frames = total
     /\ bitmap = Padding(total)

pmm_init(kernel_end) ==
  LET base       == round_up(kernel_end, PAGE_SIZE)
      max_frames == (PHYS_MEM_END - base) \div PAGE_SIZE
      words      == (max_frames + WORD - 1) \div WORD
      start      == round_up(base + words * WORD_BYTES, PAGE_SIZE)
      total      == (PHYS_MEM_END - start) \div PAGE_SIZE
  IN /\ bitmap_addr = base
     /\ bitmap_words = words
     /\ phys_mem_start = start
     /\ total_frames = total
     /\ bitmap = Padding(total)

\* The kernel image and the bitmap end inside the managed memory; the code
\* takes that from the linker and does not check it.
Init ==
  /\ \E kernel_end \in KernelEnds : pmm_init(kernel_end)
  /\ bitmap_addr <= PHYS_MEM_END /\ phys_mem_start <= PHYS_MEM_END
  /\ scan = Idle
  /\ held = [c \in Callers |-> {}]
  /\ meminfo = [word |-> 0, raw |-> 0]

-----------------------------------------------------------------------------
(* alloc_frame *)

alloc_frame(c) ==
  /\ scan.by = Nobody
  /\ scan' = [Idle EXCEPT !.by = c, !.fn = "alloc_frame"]
  /\ UNCHANGED <<geometry, bitmap, held, meminfo>>

InWordScan(c) == scan.by = c /\ scan.fn = "alloc_frame"

\* bitmap[i] is ~0: on to the next word.
FullWord(c) ==
  /\ InWordScan(c)
  /\ scan.idx < Words
  /\ WordBits(scan.idx) \subseteq bitmap
  /\ scan' = [scan EXCEPT !.idx = @ + 1]
  /\ UNCHANGED <<geometry, bitmap, held, meminfo>>

\* Fault: the bit found is returned and never set.
TakeBitUnmarked(c) ==
  /\ InWordScan(c)
  /\ scan.idx < Words
  /\ \E bit \in WordBits(scan.idx) \ bitmap :
       /\ \A lower \in WordBits(scan.idx) : lower < bit => lower \in bitmap
       /\ held' = [held EXCEPT ![c] = @ \cup {bit}]
  /\ scan' = Idle
  /\ UNCHANGED <<geometry, bitmap, meminfo>>

\* The lowest clear bit of the word is set, and its frame returned.
TakeBit(c) ==
  /\ InWordScan(c)
  /\ scan.idx < Words
  /\ \E bit \in WordBits(scan.idx) \ bitmap :
       /\ \A lower \in WordBits(scan.idx) : lower < bit => lower \in bitmap
       /\ bitmap' = bitmap \cup {bit}
       /\ held' = [held EXCEPT ![c] = @ \cup {bit}]
  /\ scan' = Idle
  /\ UNCHANGED <<geometry, meminfo>>

OutOfMemory(c) ==
  /\ InWordScan(c)
  /\ scan.idx >= Words
  /\ scan' = Idle
  /\ UNCHANGED <<geometry, bitmap, held, meminfo>>

-----------------------------------------------------------------------------
(* alloc_frames; a count of 0 returns before the lock and changes nothing *)

alloc_frames(c, count) ==
  /\ scan.by = Nobody
  /\ scan' = [Idle EXCEPT !.by = c, !.fn = "alloc_frames", !.count = count]
  /\ UNCHANGED <<geometry, bitmap, held, meminfo>>

InRunScan(c) == scan.by = c /\ scan.fn = "alloc_frames"

UsedBit(c) ==
  /\ InRunScan(c)
  /\ scan.idx < total_frames
  /\ scan.idx \in bitmap
  /\ scan' = [scan EXCEPT !.idx = @ + 1, !.run_len = 0]
  /\ UNCHANGED <<geometry, bitmap, held, meminfo>>

\* Where the run that the clear bit scan.idx belongs to starts.
RunStart == IF scan.run_len = 0 THEN scan.idx ELSE scan.run_start

ClearBit(c) ==
  /\ InRunScan(c)
  /\ scan.idx < total_frames
  /\ scan.idx \notin bitmap
  /\ scan.run_len + 1 < scan.count
  /\ scan' = [scan EXCEPT !.idx = @ + 1, !.run_start = RunStart, !.run_len = @ + 1]
  /\ UNCHANGED <<geometry, bitmap, held, meminfo>>

TakeRun(c) ==
  /\ InRunScan(c)
  /\ scan.idx < total_frames
  /\ scan.idx \notin bitmap
  /\ scan.run_len + 1 = scan.count
  /\ LET run == RunStart..(RunStart + scan.count - 1)
     IN /\ bitmap' = bitmap \cup run
        /\ held' = [held EXCEPT ![c] = @ \cup run]
  /\ scan' = Idle
  /\ UNCHANGED <<geometry, meminfo>>

\* Fault: the loop ends one frame early.
NoRunEarly(c) ==
  /\ InRunScan(c)
  /\ scan.idx + 1 >= total_frames
  /\ scan' = Idle
  /\ UNCHANGED <<geometry, bitmap, held, meminfo>>

NoRun(c) ==
  /\ InRunScan(c)
  /\ scan.idx >= total_frames
  /\ scan' = Idle
  /\ UNCHANGED <<geometry, bitmap, held, meminfo>>

-----------------------------------------------------------------------------
(* free_frame *)

FrameIndex(addr) == (addr - phys_mem_start) \div PAGE_SIZE

\* Fault: the frame of any address is freed.
AnyAddress(addr) == addr \in phys_mem_start..(PHYS_MEM_END - 1)

\* The addresses free_frame acts on; it returns on any other.
IsFrame(addr) ==
  /\ addr >= phys_mem_start /\ addr < PHYS_MEM_END
  /\ addr % PAGE_SIZE = 0
  /\ FrameIndex(addr) < total_frames

\* A caller frees what it holds.  It may also pass an address that is no
\* frame's (the ~0 of a failed translate, an offset into a page) or a frame
\* nobody holds, which is freed again.
MayFree(c, addr) ==
  (addr >= phys_mem_start /\ addr % PAGE_SIZE = 0 /\ FrameIndex(addr) < total_frames)
    => FrameIndex(addr) \in held[c] \/ FrameIndex(addr) \notin UsedFrames

free_frame(c, addr) ==
  /\ scan.by = Nobody
  /\ MayFree(c, addr)
  /\ bitmap' = IF IsFrame(addr) THEN bitmap \ {FrameIndex(addr)} ELSE bitmap
  /\ held' = IF IsFrame(addr) THEN [held EXCEPT ![c] = @ \ {FrameIndex(addr)}] ELSE held
  /\ UNCHANGED <<geometry, scan, meminfo>>

-----------------------------------------------------------------------------
(* cmd_meminfo: one word at a time, without pmm_lock *)

padding_bits == Words * WORD - total_frames

CountWord ==
  /\ meminfo.word < Words
  /\ meminfo' = [word |-> meminfo.word + 1,
                 raw  |-> meminfo.raw + Cardinality(WordBits(meminfo.word) \cap bitmap)]
  /\ UNCHANGED <<geometry, bitmap, scan, held>>

\* The figures are printed and the command may run again.
PrintMeminfo ==
  /\ meminfo.word = Words
  /\ meminfo' = [word |-> 0, raw |-> 0]
  /\ UNCHANGED <<geometry, bitmap, scan, held>>

used_frames == meminfo.raw - padding_bits

-----------------------------------------------------------------------------
AllocFrame(c) == alloc_frame(c) \/ FullWord(c) \/ TakeBit(c) \/ OutOfMemory(c)

AllocFrames(c) ==
  \/ \E count \in 1..MaxCount : alloc_frames(c, count)
  \/ UsedBit(c) \/ ClearBit(c) \/ TakeRun(c) \/ NoRun(c)

Next ==
  \/ \E c \in Callers : AllocFrame(c) \/ AllocFrames(c)
  \/ \E c \in Callers, addr \in 0..(PHYS_MEM_END + PAGE_SIZE) : free_frame(c, addr)
  \/ CountWord
  \/ PrintMeminfo

Spec == Init /\ [][Next]_vars

-----------------------------------------------------------------------------
TypeOK ==
  /\ bitmap_addr \in Nat
  /\ bitmap_words \in Nat
  /\ phys_mem_start \in 0..PHYS_MEM_END
  /\ total_frames \in Nat
  /\ bitmap \subseteq Bits
  /\ scan \in [by : Callers \cup {Nobody},
               fn : {"none", "alloc_frame", "alloc_frames"},
               idx : Nat, count : 0..MaxCount, run_start : Nat, run_len : Nat]
  /\ held \in [Callers -> SUBSET (0..total_frames - 1)]
  /\ meminfo \in [word : Nat, raw : Nat]

\* No two callers are ever given the same frame (alloc_frame, alloc_frames).
NoFrameTwice ==
  \A c, d \in Callers : c # d => held[c] \cap held[d] = {}

\* A frame's bit is set exactly while a caller holds the frame: nothing in use
\* looks free, and nothing is lost by a free or a failed scan.
BitmapIsOwnership ==
  \A f \in 0..(total_frames - 1) : f \in bitmap <=> f \in UsedFrames

\* "mark those bits used so alloc_frame's ctz cannot return them" (pmm_init):
\* every frame given out lies in memory, past the bitmap's own words, and the
\* words the scans read are words pmm_init cleared.
FramesInMemory ==
  /\ Words <= bitmap_words
  /\ \A f \in UsedFrames :
       /\ FrameAddress(f) >= bitmap_addr + bitmap_words * WORD_BYTES
       /\ FrameAddress(f) % PAGE_SIZE = 0
       /\ FrameAddress(f) + PAGE_SIZE <= PHYS_MEM_END

\* meminfo may be out of date, but its unsigned subtractions never wrap: at
\* the end of its unlocked loop 0 <= used_frames <= total_frames.
MeminfoNeverWraps ==
  meminfo.word = Words => used_frames \in 0..total_frames

\* A scan that gives up leaves nothing that would have satisfied it.
FailsOnlyWhenFull ==
  [][\A c \in Callers :
       /\ OutOfMemory(c) => UsedFrames = 0..(total_frames - 1)
       /\ InRunScan(c) /\ scan'.by = Nobody /\ held' = held =>
            \A s \in 0..(total_frames - scan.count) :
              s..(s + scan.count - 1) \cap UsedFrames # {}]_vars

\* The bitmap implements the frame allocator.
Allocator == INSTANCE FrameAllocator WITH frames <- total_frames, owned <- held
IsFrameAllocator == Allocator!Spec
=============================================================================
