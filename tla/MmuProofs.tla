----------------------------- MODULE MmuProofs ------------------------------
(***************************************************************************)
(* Proofs about Mmu, for every table size, every number of frames, every   *)
(* set of callers and of ranges, and whatever the walkers keep.            *)
(*                                                                         *)
(* TablesSound and the two statements about the TLBs speak of the moments  *)
(* when mmu_lock is free.  What holds while it is taken is IInv: where the *)
(* holder is (Position) and what table it points to (Pointer), which pages *)
(* it has dealt with so far in terms of the mapping it found (Progress),   *)
(* which one L3 table may be empty (Emptied), and what a TLB or a walker   *)
(* may have kept of a page that is just being edited (Fresh where walkers  *)
(* keep no descriptors, Settled in general).  Holders says whose the       *)
(* frames are, since what a stale translation points to must not be free.  *)
(***************************************************************************)
EXTENDS Mmu, WellFoundedInduction, TLAPS

\* The pages that are done with: written by map, cleared by unmap or rollback.
Done == IF op.pc \in {"drop L3", "drop L2"} THEN op.i + 1 ELSE op.i

\* The values of `op`.
Ops == [by : Callers \cup {Nobody}, fn : {"none", "map", "unmap", "rollback"},
        pc : {"none", "L2", "L3", "PTE", "clear", "drop L3", "drop L2", "dsb"}, t : Frames,
        va : Pages, phys : Entries, n : Nat, i : Nat]

\* Where the holder of mmu_lock is.
Position ==
  /\ \/ op = Idle
     \/ op.by \in Callers /\ op.fn = "map" /\ op.pc \in {"L2", "L3", "PTE", "dsb"}
     \/ /\ op.by \in Callers /\ op.fn \in {"unmap", "rollback"}
        /\ op.pc \in {"clear", "drop L3", "drop L2", "dsb"}
  /\ op.i <= op.n
  /\ op.pc \in {"L3", "PTE", "drop L3", "drop L2"} => op.i < op.n
  /\ op.pc = "dsb" => op.i = op.n
  /\ op.fn \in {"map", "unmap"} => <<op.va, op.n>> \in Ranges
  /\ op.fn # "none" => RangeOf(op.va, op.n) \subseteq Pages
  /\ op.fn \in {"map", "rollback"} => op.phys \in Frames

\* What its local table pointer is.
Pointer ==
  /\ op.pc \in {"L2", "clear"} => op.t = L1
  /\ op.pc \in {"L3", "drop L3", "drop L2"} => op.t = L2Table(Page)
  /\ op.pc = "PTE" => op.t = L3Table(Page)
  /\ op.pc = "drop L3" => L3Table(Page) # 0

\* No frame has two holders, and a mapped frame has one.
Holders ==
  /\ \A c, d \in Callers : held[c] \cap held[d] # {} => c = d
  /\ \A p \in Pages : translate(p) # 0 => translate(p) \in DataFrames
  /\ op.fn \in {"map", "rollback"} => op.phys..(op.phys + op.n - 1) \subseteq held[op.by]

\* An L3 table is empty only between its allocation and its first entry, or
\* its last entry's clearing and the look at it.
Emptied ==
  \A p \in Pages :
    L3Table(p) # 0 /\ _table_is_empty(L3Table(p)) =>
      op.pc \in {"PTE", "drop L3"} /\ L3Table(p) = L3Table(Page)

\* The mapping in terms of the one when the lock was taken.
Progress ==
  /\ op.fn = "map" =>
       \A p \in Pages : translate(p) = IF p \in op.va..(op.va + Done - 1)
                                       THEN op.phys + (p - op.va) ELSE before[p]
  /\ op.fn = "rollback" =>
       \A p \in Pages : translate(p) = IF p \in (op.va + Done)..(op.va + op.n - 1)
                                       THEN op.phys + (p - op.va) ELSE before[p]
  /\ op.fn = "unmap" =>
       \A p \in Pages : translate(p) = IF p \in op.va..(op.va + Done - 1)
                                       THEN 0 ELSE before[p]
  /\ op.fn \in {"map", "rollback"} => \A p \in RangeOf(op.va, op.n) : before[p] = 0
  /\ op.fn = "unmap" =>
       \/ \A p \in RangeOf(op.va, op.n) : before[p] \in held[op.by]
       \/ \A p \in RangeOf(op.va, op.n) : before[p] = 0

\* With walkers that keep nothing and stores seen at once, a TLB is out of date
\* only in the pages that are being cleared.
Was(p) == IF op.fn = "rollback" THEN op.phys + (p - op.va) ELSE before[p]
Fresh ==
  ~WalkCache /\ ~StoreBuffer =>
    /\ walks = {} /\ late = {}
    /\ \A e \in cached :
         \/ e[2] = translate(e[1])
         \/ /\ op.fn \in {"unmap", "rollback"} /\ op.pc # "dsb"
            /\ e[1] \in RangeOf(op.va, op.n) /\ e[2] = Was(e[1])

\* With walkers that do keep them, the entries of mapped pages are right,
\* except where map has not invalidated yet.
Unsettled(p) ==
  op.fn \in {"map", "rollback"} /\ op.pc # "dsb" /\ p \in RangeOf(op.va, op.n)
Settled ==
  /\ \A e \in cached : translate(e[1]) # 0 => e[2] = translate(e[1]) \/ Unsettled(e[1])
  /\ \A w \in walks, p \in Pages :
       w[1] = L1_INDEX(p) /\ w[2] = L2_INDEX(p) /\ translate(p) # 0
         => w[3] = L3Table(p) \/ Unsettled(p)
  /\ \A e \in late : /\ op.fn \in {"unmap", "rollback"} /\ e[1] \in RangeOf(op.va, op.n)
                      /\ translate(e[1]) = 0 /\ e[2] = Was(e[1])

\* The inductive invariant.
IInv == /\ TypeOK /\ TablesAreATree /\ FramesAccountedFor /\ Position /\ Pointer
        /\ Holders /\ Emptied /\ Progress /\ Fresh /\ Settled

-----------------------------------------------------------------------------
(* Arithmetic: the three indices of a page name it. *)

\* Division with remainder.
LEMMA DivMod ==
  ASSUME NEW a \in Nat, NEW b \in Nat \ {0}
  PROVE  a \div b \in Nat /\ a % b \in 0..(b - 1) /\ a = b * (a \div b) + (a % b)
OBVIOUS

\* Quotient and remainder are unique.
LEMMA Unique ==
  ASSUME NEW b \in Nat, NEW q \in Nat, NEW r \in 0..(b - 1), NEW s \in Nat, NEW u \in 0..(b - 1),
         b * q + r = b * s + u
  PROVE  q = s /\ r = u
<1>1. CASE q < s
  <2>1. PICK d \in Nat : s = q + 1 + d
    <3>1. s - q - 1 \in Nat /\ s = q + 1 + (s - q - 1)
      BY <1>1
    <3>2. QED
      BY <3>1
  <2>2. b * s = b * q + b + b * d
    BY <2>1
  <2>3. b * d \in Nat /\ b * q \in Nat
    OBVIOUS
  <2>4. r = b + b * d + u
    BY <2>2, <2>3
  <2>5. QED
    BY <2>3, <2>4
<1>2. CASE s < q
  <2>1. PICK d \in Nat : q = s + 1 + d
    <3>1. q - s - 1 \in Nat /\ q = s + 1 + (q - s - 1)
      BY <1>2
    <3>2. QED
      BY <3>1
  <2>2. b * q = b * s + b + b * d
    BY <2>1
  <2>3. b * d \in Nat /\ b * s \in Nat
    OBVIOUS
  <2>4. u = b + b * d + r
    BY <2>2, <2>3
  <2>5. QED
    BY <2>3, <2>4
<1>3. CASE q = s
  BY <1>3
<1>4. QED
  BY <1>1, <1>2, <1>3

\* Multiplication distributes over the successor of a sum.
LEMMA Spread ==
  ASSUME NEW a \in Nat, NEW b \in Nat, NEW c \in Nat
  PROVE  a * (b + 1 + c) = a * b + a + a * c
OBVIOUS

\* L1_INDEX, L2_INDEX and L3_INDEX of a page index their tables.
LEMMA Indices ==
  ASSUME NEW p \in Pages
  PROVE  L1_INDEX(p) \in Index /\ L2_INDEX(p) \in Index /\ L3_INDEX(p) \in Index
<1>1. ENTRIES \in Nat \ {0} /\ ENTRIES * ENTRIES \in Nat \ {0} /\ p \in Nat
  BY MmuAssumption DEF Pages
<1>2. p \div (ENTRIES * ENTRIES) \in Nat /\ p \div ENTRIES \in Nat
  BY <1>1, DivMod
<1>3. QED
  BY <1>1, <1>2, DivMod DEF L1_INDEX, L2_INDEX, L3_INDEX, Index

\* The indices of a page are its digits to the base ENTRIES.
LEMMA Digits ==
  ASSUME NEW p \in Pages
  PROVE  /\ p \div ENTRIES = ENTRIES * L1_INDEX(p) + L2_INDEX(p)
         /\ p = ENTRIES * (p \div ENTRIES) + L3_INDEX(p)
<1> DEFINE E == ENTRIES
           q == p \div E
           s == q \div E
           r == E * (q % E) + (p % E)
<1>1. E \in Nat \ {0} /\ E * E \in Nat \ {0} /\ p \in Nat /\ p < E * E * E
  BY MmuAssumption DEF Pages
<1>2. q \in Nat /\ p % E \in 0..(E - 1) /\ p = E * q + (p % E)
  BY <1>1, DivMod
<1>3. s \in Nat /\ q % E \in 0..(E - 1) /\ q = E * s + (q % E)
  BY <1>1, <1>2, DivMod
<1> HIDE DEF E, q, s
<1>4. r \in 0..(E * E - 1)
  <2>1. PICK x \in Nat : E = (q % E) + 1 + x
    <3>1. E - (q % E) - 1 \in Nat /\ E = (q % E) + 1 + (E - (q % E) - 1)
      BY <1>1, <1>3
    <3>2. QED
      BY <3>1
  <2>2. E * E = E * (q % E) + E + E * x
    <3> DEFINE m == q % E
    <3>1. m \in Nat /\ E = m + 1 + x
      BY <1>1, <1>3, <2>1
    <3> HIDE DEF m
    <3>2. E * (m + 1 + x) = E * m + E + E * x
      BY <1>1, <3>1, Spread
    <3>3. QED
      BY <3>1, <3>2 DEF m
  <2>3. E * x \in Nat /\ E * (q % E) \in Nat
    BY <1>1, <1>3
  <2>4. QED
    BY <1>1, <1>2, <1>3, <2>2, <2>3
<1>5. p = (E * E) * s + r
  <2>1. E * q = E * (E * s) + E * (q % E)
    BY <1>1, <1>2, <1>3
  <2>2. E * (E * s) = (E * E) * s
    BY <1>1, <1>3
  <2>3. QED
    BY <1>1, <1>2, <1>3, <2>1, <2>2
<1> HIDE DEF r
<1>6. p \div (E * E) = s
  <2>1. p \div (E * E) \in Nat /\ p % (E * E) \in 0..(E * E - 1)
        /\ p = (E * E) * (p \div (E * E)) + (p % (E * E))
    BY <1>1, DivMod
  <2>2. QED
    BY <1>1, <1>3, <1>4, <1>5, <2>1, Unique
<1>7. s < E
  <2>1. SUFFICES ASSUME s >= E PROVE FALSE
    BY <1>1, <1>3
  <2>2. PICK y \in Nat : s = E + y
    <3>1. s - E \in Nat /\ s = E + (s - E)
      BY <1>1, <1>3, <2>1
    <3>2. QED
      BY <3>1
  <2>3. (E * E) * s = (E * E) * E + (E * E) * y /\ (E * E) * y \in Nat /\ (E * E) * E \in Nat
    BY <1>1, <2>2
  <2>4. QED
    BY <1>1, <1>4, <1>5, <2>3
<1>8. s % E = s
  <2>1. s \div E \in Nat /\ s % E \in 0..(E - 1) /\ s = E * (s \div E) + (s % E)
    BY <1>1, <1>3, DivMod
  <2>2. s = E * 0 + s
    BY <1>1, <1>3
  <2>3. QED
    BY <1>1, <1>3, <1>7, <2>1, <2>2, Unique
<1>9. L1_INDEX(p) = s /\ L2_INDEX(p) = q % E /\ L3_INDEX(p) = p % E
  BY <1>6, <1>8 DEF L1_INDEX, L2_INDEX, L3_INDEX, E, q
<1>10. QED
  BY <1>2, <1>3, <1>9 DEF E, q

\* Pages with the same three indices are the same page.
LEMMA SamePage ==
  ASSUME NEW p \in Pages, NEW q \in Pages,
         L1_INDEX(p) = L1_INDEX(q), L2_INDEX(p) = L2_INDEX(q), L3_INDEX(p) = L3_INDEX(q)
  PROVE  p = q
BY Digits

\* Where the numbers of the model lie.
Sizes == /\ Pages \subseteq Nat /\ Index \subseteq Nat /\ Frames \subseteq Nat /\ 0 \notin Frames
         /\ Entries = Frames \cup {0} /\ L1 \in Frames /\ 0 \in Pages /\ 0 \in Index

\* The assumptions on the constants place every number of the model.
LEMMA SizesSound == Sizes
<1>1. ENTRIES \in Nat \ {0} /\ LastFrame \in Nat /\ L1 \in 1..LastFrame
  BY MmuAssumption
<1>2. ENTRIES * ENTRIES \in Nat \ {0}
  BY <1>1
<1>3. ENTRIES * ENTRIES * ENTRIES \in Nat \ {0}
  BY <1>1, <1>2
<1>4. QED
  BY <1>1, <1>3 DEF Sizes, Pages, Index, Frames, Entries

-----------------------------------------------------------------------------
(* What an edit of a table does to the walks of all pages. *)

\* A walk yields frames or 0, and goes no deeper than an invalid descriptor.
LEMMA WalkTypes ==
  ASSUME TypeOK, NEW p \in Pages
  PROVE  /\ L2Table(p) \in Entries /\ L3Table(p) \in Entries /\ translate(p) \in Entries
         /\ L3Table(p) # 0 => L2Table(p) # 0
         /\ translate(p) # 0 => L3Table(p) # 0
<1>1. table \in [Frames -> [Index -> Entries]] /\ Sizes
  BY SizesSound DEF TypeOK
<1>2. L1_INDEX(p) \in Index /\ L2_INDEX(p) \in Index /\ L3_INDEX(p) \in Index
  BY Indices
<1>3. L2Table(p) \in Entries
  BY <1>1, <1>2 DEF L2Table, Sizes
<1>4. L3Table(p) \in Entries /\ (L3Table(p) # 0 => L2Table(p) # 0)
  BY <1>1, <1>2, <1>3 DEF L3Table, Sizes
<1>5. translate(p) \in Entries /\ (translate(p) # 0 => L3Table(p) # 0)
  BY <1>1, <1>2, <1>4 DEF translate, Sizes
<1>6. QED
  BY <1>3, <1>4, <1>5

\* A linked table is neither free nor anybody's data, nor a table of another level.
LEMMA Apart ==
  ASSUME TypeOK, TablesAreATree, FramesAccountedFor, NEW p \in Pages
  PROVE  /\ L2Table(p) # 0 => /\ L2Table(p) \in Frames \ (free \cup DataFrames \cup {L1})
                              /\ \A q \in Pages : L2Table(p) # L3Table(q)
         /\ L3Table(p) # 0 => /\ L3Table(p) \in Frames \ (free \cup DataFrames \cup {L1})
                              /\ \A q \in Pages : L3Table(p) # L2Table(q)
<1>1. /\ L2Table(p) \in Entries /\ L3Table(p) \in Entries /\ Sizes
  BY WalkTypes, SizesSound
<1>2. /\ L2Table(p) # 0 => L2Table(p) \in L2Tables
      /\ L3Table(p) # 0 => L3Table(p) \in L3Tables
  BY DEF L2Tables, L3Tables
<1>3. /\ \A q \in Pages : L2Table(q) # 0 => L2Table(q) \in L2Tables
      /\ \A q \in Pages : L3Table(q) # 0 => L3Table(q) \in L3Tables
  BY DEF L2Tables, L3Tables
<1>4. L2Tables \cap L3Tables = {} /\ L1 \notin L2Tables \cup L3Tables
  BY DEF TablesAreATree
<1>5. /\ (L2Tables \cup L3Tables) \cap free = {}
      /\ (L2Tables \cup L3Tables) \cap DataFrames = {}
  BY DEF FramesAccountedFor
<1>6. QED
  BY <1>1, <1>2, <1>3, <1>4, <1>5 DEF Sizes

\* When no table changes, no walk and nothing said of the tables does.
LEMMA SameTables ==
  ASSUME table' = table
  PROVE  /\ \A p \in Pages : /\ L2Table(p)' = L2Table(p) /\ L3Table(p)' = L3Table(p)
                             /\ translate(p)' = translate(p)
                             /\ _table_is_empty(L3Table(p))' <=> _table_is_empty(L3Table(p))
         /\ TablesAreATree' <=> TablesAreATree
         /\ L2Tables' = L2Tables /\ L3Tables' = L3Tables
         /\ Mapping' = Mapping
<1>1. \A p \in Pages : /\ L2Table(p)' = L2Table(p) /\ L3Table(p)' = L3Table(p)
                       /\ translate(p)' = translate(p)
                       /\ _table_is_empty(L3Table(p))' <=> _table_is_empty(L3Table(p))
  BY DEF L2Table, L3Table, translate, _table_is_empty
<1>2. L2Tables' = L2Tables /\ L3Tables' = L3Tables
  BY <1>1 DEF L2Tables, L3Tables
<1>3. Mapping' = Mapping
  BY <1>1 DEF Mapping
<1>4. TablesAreATree' <=> TablesAreATree
  BY <1>1, <1>2 DEF TablesAreATree
<1>5. QED
  BY <1>1, <1>2, <1>3, <1>4

\* When neither tables nor owners change, the frames stay accounted for.
LEMMA SameFrames ==
  ASSUME table' = table, free' = free, held' = held
  PROVE  FramesAccountedFor' <=> FramesAccountedFor
<1>1. L2Tables' = L2Tables /\ L3Tables' = L3Tables
  BY SameTables
<1>2. DataFrames' = DataFrames
  BY DEF DataFrames
<1>3. QED
  BY <1>1, <1>2 DEF FramesAccountedFor

\* A word of a table is written: this word changes and no other.
LEMMA Written ==
  ASSUME NEW T \in [Frames -> [Index -> Entries]], NEW t \in Frames, NEW e \in Index,
         NEW v \in Entries, NEW U, U = [T EXCEPT ![t][e] = v]
  PROVE  /\ U \in [Frames -> [Index -> Entries]]
         /\ \A f \in Frames \ {t} : U[f] = T[f]
         /\ \A i \in Index : U[t][i] = IF i = e THEN v ELSE T[t][i]
OBVIOUS

\* A frame is zeroed and linked: its parent's word changes, and the frame.
LEMMA Linked ==
  ASSUME NEW T \in [Frames -> [Index -> Entries]], NEW t \in Frames, NEW e \in Index,
         NEW child \in Frames, child # t,
         NEW U, U = [T EXCEPT ![child] = NoTable, ![t][e] = child]
  PROVE  /\ U \in [Frames -> [Index -> Entries]]
         /\ \A f \in Frames \ {t, child} : U[f] = T[f]
         /\ U[child] = NoTable
         /\ \A i \in Index : U[t][i] = IF i = e THEN child ELSE T[t][i]
<1>1. NoTable \in [Index -> Entries] /\ child \in Entries
  BY SizesSound DEF NoTable, Sizes
<1>2. QED
  BY <1>1

\* Writing an L3 entry changes the translation of its page and of no other.
LEMMA PteWritten ==
  ASSUME TypeOK, TablesAreATree, FramesAccountedFor,
         NEW p \in Pages, L3Table(p) # 0, NEW v \in Entries,
         NEW t, t = L3Table(p), NEW e, e = L3_INDEX(p),
         table' = [table EXCEPT ![t][e] = v]
  PROVE  /\ table' \in [Frames -> [Index -> Entries]]
         /\ \A q \in Pages : /\ L2Table(q)' = L2Table(q) /\ L3Table(q)' = L3Table(q)
                             /\ translate(q)' = IF q = p THEN v ELSE translate(q)
                             /\ L3Table(q) # 0 /\ L3Table(q) # L3Table(p) =>
                                  (_table_is_empty(L3Table(q))' <=> _table_is_empty(L3Table(q)))
         /\ v # 0 => ~_table_is_empty(L3Table(p))'
<1>1. t \in Frames /\ t # L1 /\ e \in Index /\ \A q \in Pages : t # L2Table(q)
  BY Apart, Indices
<1>2. /\ table' \in [Frames -> [Index -> Entries]]
      /\ \A f \in Frames \ {t} : table'[f] = table[f]
      /\ \A i \in Index : table'[t][i] = IF i = e THEN v ELSE table[t][i]
  <2>1. table \in [Frames -> [Index -> Entries]]
    BY DEF TypeOK
  <2>2. t \in Frames /\ e \in Index
    BY <1>1
  <2>3. QED
    BY <2>1, <2>2, Written
<1>3. ASSUME NEW q \in Pages
      PROVE  L2Table(q)' = L2Table(q) /\ L3Table(q)' = L3Table(q)
  <2>1. L2Table(q)' = L2Table(q)
    BY <1>1, <1>2, SizesSound DEF L2Table, Sizes
  <2>2. L2Table(q) # 0 => L2Table(q) \in Frames \ {t}
    BY <1>1, WalkTypes, SizesSound DEF Sizes
  <2>3. L3Table(q)' = L3Table(q)
    BY <1>2, <2>1, <2>2 DEF L3Table
  <2>4. QED
    BY <2>1, <2>3
<1>4. ASSUME NEW q \in Pages
      PROVE  translate(q)' = IF q = p THEN v ELSE translate(q)
  <2>1. CASE L3Table(q) = t
    <3>1. translate(q)' = table'[t][L3_INDEX(q)] /\ translate(q) = table[t][L3_INDEX(q)]
      BY <1>3, <2>1 DEF translate
    <3>2. L3_INDEX(q) = e => q = p
      BY <2>1, SamePage DEF TablesAreATree
    <3>3. L3_INDEX(q) \in Index
      BY Indices
    <3>4. QED
      BY <1>2, <3>1, <3>2, <3>3
  <2>2. CASE L3Table(q) # t
    <3>1. L3Table(q) # 0 => L3Table(q) \in Frames \ {t}
      BY <2>2, WalkTypes, SizesSound DEF Sizes
    <3>2. translate(q)' = translate(q)
      BY <1>2, <1>3, <3>1 DEF translate
    <3>3. QED
      BY <2>2, <3>2
  <2>3. QED
    BY <2>1, <2>2
<1>5. ASSUME NEW q \in Pages, L3Table(q) # 0, L3Table(q) # t
      PROVE  _table_is_empty(L3Table(q))' <=> _table_is_empty(L3Table(q))
  <2>1. L3Table(q) \in Frames \ {t}
    BY <1>5, WalkTypes, SizesSound DEF Sizes
  <2>2. QED
    BY <1>2, <1>3, <2>1 DEF _table_is_empty
<1>6. v # 0 => ~_table_is_empty(L3Table(p))'
  BY <1>1, <1>2, <1>3 DEF _table_is_empty
<1>7. QED
  BY <1>2, <1>3, <1>4, <1>5, <1>6

\* Linking a zeroed L3 table gives it to the pages of its L2 entry and changes no translation.
LEMMA L3Linked ==
  ASSUME TypeOK, TablesAreATree, FramesAccountedFor,
         NEW p \in Pages, L2Table(p) # 0, L3Table(p) = 0, NEW child \in free,
         NEW t, t = L2Table(p), NEW e, e = L2_INDEX(p),
         table' = [table EXCEPT ![child] = NoTable, ![t][e] = child]
  PROVE  /\ table' \in [Frames -> [Index -> Entries]]
         /\ \A q \in Pages :
              /\ L2Table(q)' = L2Table(q) /\ translate(q)' = translate(q)
              /\ L3Table(q)' = IF L1_INDEX(q) = L1_INDEX(p) /\ L2_INDEX(q) = L2_INDEX(p)
                               THEN child ELSE L3Table(q)
              /\ L3Table(q) # 0 =>
                   (_table_is_empty(L3Table(q))' <=> _table_is_empty(L3Table(q)))
<1>1. /\ t \in Frames /\ t # L1 /\ e \in Index /\ child \in Frames /\ child # t /\ child # L1
      /\ \A q \in Pages : L3Table(q) \notin {t, child} /\ L2Table(q) # child
  <2>1. t \in Frames /\ t # L1 /\ e \in Index /\ t \notin free /\ \A q \in Pages : t # L3Table(q)
    BY Apart, Indices
  <2>2. child \in Frames /\ child # 0 /\ child # L1
    BY SizesSound DEF TypeOK, Sizes, FramesAccountedFor
  <2>3. \A q \in Pages : L3Table(q) # child /\ L2Table(q) # child
    BY <2>2, Apart
  <2>4. QED
    BY <2>1, <2>2, <2>3
<1>2. /\ table' \in [Frames -> [Index -> Entries]]
      /\ \A f \in Frames \ {t, child} : table'[f] = table[f]
      /\ table'[child] = NoTable
      /\ \A i \in Index : table'[t][i] = IF i = e THEN child ELSE table[t][i]
  <2>1. table \in [Frames -> [Index -> Entries]]
    BY DEF TypeOK
  <2>2. t \in Frames /\ e \in Index /\ child \in Frames /\ child # t
    BY <1>1
  <2>3. NoTable \in [Index -> Entries] /\ child \in Entries
    BY <1>1, SizesSound DEF NoTable, Sizes
  <2>4. QED
    BY <2>1, <2>2, <2>3
<1>3. ASSUME NEW q \in Pages
      PROVE  /\ L2Table(q)' = L2Table(q)
             /\ L3Table(q)' = IF L1_INDEX(q) = L1_INDEX(p) /\ L2_INDEX(q) = L2_INDEX(p)
                               THEN child ELSE L3Table(q)
  <2>1. L2Table(q)' = L2Table(q)
    BY <1>1, <1>2, SizesSound DEF L2Table, Sizes
  <2>2. CASE L2Table(q) = t
    <3>1. L1_INDEX(q) = L1_INDEX(p)
      BY <2>2 DEF TablesAreATree
    <3>2. L3Table(q)' = table'[t][L2_INDEX(q)] /\ L3Table(q) = table[t][L2_INDEX(q)]
      BY <2>1, <2>2 DEF L3Table
    <3>3. L2_INDEX(q) \in Index
      BY Indices
    <3>4. QED
      BY <1>2, <2>1, <3>1, <3>2, <3>3
  <2>3. CASE L2Table(q) # t
    <3>1. L2Table(q) # 0 => L2Table(q) \in Frames \ {t, child}
      BY <1>1, <2>3, WalkTypes, SizesSound DEF Sizes
    <3>2. L3Table(q)' = L3Table(q)
      BY <1>2, <2>1, <3>1 DEF L3Table
    <3>3. L1_INDEX(q) # L1_INDEX(p)
      BY <2>3 DEF L2Table
    <3>4. QED
      BY <2>1, <3>2, <3>3
  <2>4. QED
    BY <2>2, <2>3
<1>4. ASSUME NEW q \in Pages
      PROVE  translate(q)' = translate(q)
  <2>1. CASE L1_INDEX(q) = L1_INDEX(p) /\ L2_INDEX(q) = L2_INDEX(p)
    <3>1. L3Table(q) = 0
      BY <2>1 DEF L3Table, L2Table
    <3>2. L3Table(q)' = child
      BY <1>3, <2>1
    <3>3. translate(q)' = 0
      BY <1>1, <1>2, <3>2, Indices, SizesSound DEF translate, NoTable, Sizes
    <3>4. QED
      BY <3>1, <3>3 DEF translate
  <2>2. CASE ~(L1_INDEX(q) = L1_INDEX(p) /\ L2_INDEX(q) = L2_INDEX(p))
    <3>1. L3Table(q)' = L3Table(q)
      BY <1>3, <2>2
    <3>2. L3Table(q) # 0 => L3Table(q) \in Frames \ {t, child}
      BY <1>1, WalkTypes, SizesSound DEF Sizes
    <3>3. QED
      BY <1>2, <3>1, <3>2 DEF translate
  <2>3. QED
    BY <2>1, <2>2
<1>5. ASSUME NEW q \in Pages, L3Table(q) # 0
      PROVE  _table_is_empty(L3Table(q))' <=> _table_is_empty(L3Table(q))
  <2>1. L3Table(q) \in Frames \ {t, child}
    BY <1>1, <1>5, WalkTypes, SizesSound DEF Sizes
  <2>2. ~(L1_INDEX(q) = L1_INDEX(p) /\ L2_INDEX(q) = L2_INDEX(p))
    BY <1>5 DEF L3Table, L2Table
  <2>3. L3Table(q)' = L3Table(q)
    BY <1>3, <2>2
  <2>4. QED
    BY <1>2, <2>1, <2>3 DEF _table_is_empty
<1>6. QED
  BY <1>2, <1>3, <1>4, <1>5

\* Linking a zeroed L2 table gives it to the pages of its L1 entry and changes no translation.
LEMMA L2Linked ==
  ASSUME TypeOK, TablesAreATree, FramesAccountedFor,
         NEW p \in Pages, L2Table(p) = 0, NEW child \in free,
         NEW e, e = L1_INDEX(p),
         table' = [table EXCEPT ![child] = NoTable, ![L1][e] = child]
  PROVE  /\ table' \in [Frames -> [Index -> Entries]]
         /\ \A q \in Pages :
              /\ L2Table(q)' = IF L1_INDEX(q) = L1_INDEX(p) THEN child ELSE L2Table(q)
              /\ L3Table(q)' = L3Table(q) /\ translate(q)' = translate(q)
              /\ L3Table(q) # 0 =>
                   (_table_is_empty(L3Table(q))' <=> _table_is_empty(L3Table(q)))
<1>1. /\ L1 \in Frames /\ e \in Index /\ child \in Frames /\ child # L1 /\ child # 0
      /\ \A q \in Pages : L3Table(q) \notin {L1, child} /\ L2Table(q) \notin {L1, child}
  <2>1. L1 \in Frames /\ e \in Index
    BY Indices, SizesSound DEF Sizes
  <2>2. child \in Frames /\ child # 0 /\ child # L1
    BY SizesSound DEF TypeOK, Sizes, FramesAccountedFor
  <2>3. \A q \in Pages : L3Table(q) \notin {L1, child} /\ L2Table(q) \notin {L1, child}
    BY <2>2, Apart, SizesSound DEF Sizes
  <2>4. QED
    BY <2>1, <2>2, <2>3
<1>2. /\ table' \in [Frames -> [Index -> Entries]]
      /\ \A f \in Frames \ {L1, child} : table'[f] = table[f]
      /\ table'[child] = NoTable
      /\ \A i \in Index : table'[L1][i] = IF i = e THEN child ELSE table[L1][i]
  <2>1. table \in [Frames -> [Index -> Entries]]
    BY DEF TypeOK
  <2>2. L1 \in Frames /\ e \in Index /\ child \in Frames /\ child # L1
    BY <1>1
  <2>3. NoTable \in [Index -> Entries] /\ child \in Entries
    BY <1>1, SizesSound DEF NoTable, Sizes
  <2>4. QED
    BY <2>1, <2>2, <2>3
<1>3. ASSUME NEW q \in Pages
      PROVE  /\ L2Table(q)' = IF L1_INDEX(q) = L1_INDEX(p) THEN child ELSE L2Table(q)
             /\ L3Table(q)' = L3Table(q)
  <2>1. L2Table(q)' = IF L1_INDEX(q) = L1_INDEX(p) THEN child ELSE L2Table(q)
    BY <1>2, Indices DEF L2Table
  <2>2. CASE L1_INDEX(q) = L1_INDEX(p)
    <3>1. L2Table(q) = 0 /\ L2Table(q)' = child
      BY <2>1, <2>2 DEF L2Table
    <3>2. L3Table(q)' = 0
      BY <1>1, <1>2, <3>1, Indices DEF L3Table, NoTable
    <3>3. QED
      BY <2>1, <3>1, <3>2 DEF L3Table
  <2>3. CASE L1_INDEX(q) # L1_INDEX(p)
    <3>1. L2Table(q) # 0 => L2Table(q) \in Frames \ {L1, child}
      BY <1>1, WalkTypes, SizesSound DEF Sizes
    <3>2. L2Table(q)' = L2Table(q)
      BY <2>1, <2>3
    <3>3. L3Table(q)' = L3Table(q)
      BY <1>2, <3>1, <3>2 DEF L3Table
    <3>4. QED
      BY <2>1, <3>3
  <2>4. QED
    BY <2>2, <2>3
<1>4. ASSUME NEW q \in Pages
      PROVE  /\ translate(q)' = translate(q)
             /\ L3Table(q) # 0 =>
                  (_table_is_empty(L3Table(q))' <=> _table_is_empty(L3Table(q)))
  <2>1. L3Table(q) # 0 => L3Table(q) \in Frames \ {L1, child}
    BY <1>1, WalkTypes, SizesSound DEF Sizes
  <2>2. L3Table(q)' = L3Table(q)
    BY <1>3
  <2>3. translate(q)' = translate(q)
    BY <1>2, <2>1, <2>2 DEF translate
  <2>4. L3Table(q) # 0 =>
          (_table_is_empty(L3Table(q))' <=> _table_is_empty(L3Table(q)))
    BY <1>2, <2>1, <2>2 DEF _table_is_empty
  <2>5. QED
    BY <2>3, <2>4
<1>5. QED
  BY <1>2, <1>3, <1>4

\* Unlinking an empty L3 table changes no translation and no other table.
LEMMA L3Dropped ==
  ASSUME TypeOK, TablesAreATree, FramesAccountedFor,
         NEW p \in Pages, L3Table(p) # 0, _table_is_empty(L3Table(p)),
         NEW t, t = L2Table(p), NEW e, e = L2_INDEX(p),
         table' = [table EXCEPT ![t][e] = 0]
  PROVE  /\ table' \in [Frames -> [Index -> Entries]]
         /\ \A q \in Pages :
              /\ L2Table(q)' = L2Table(q) /\ translate(q)' = translate(q)
              /\ L3Table(q)' = IF L1_INDEX(q) = L1_INDEX(p) /\ L2_INDEX(q) = L2_INDEX(p)
                               THEN 0 ELSE L3Table(q)
              /\ L3Table(q)' # 0 =>
                   (_table_is_empty(L3Table(q))' <=> _table_is_empty(L3Table(q)))
<1>1. /\ t \in Frames /\ t # L1 /\ e \in Index /\ t # 0 /\ 0 \in Entries
      /\ \A q \in Pages : L3Table(q) # t
  BY WalkTypes, Apart, Indices, SizesSound DEF Sizes
<1>2. /\ table' \in [Frames -> [Index -> Entries]]
      /\ \A f \in Frames \ {t} : table'[f] = table[f]
      /\ \A i \in Index : table'[t][i] = IF i = e THEN 0 ELSE table[t][i]
  <2>1. table \in [Frames -> [Index -> Entries]]
    BY DEF TypeOK
  <2>2. t \in Frames /\ e \in Index /\ 0 \in Entries
    BY <1>1
  <2>3. QED
    BY <2>1, <2>2, Written
<1>3. ASSUME NEW q \in Pages
      PROVE  /\ L2Table(q)' = L2Table(q)
             /\ L3Table(q)' = IF L1_INDEX(q) = L1_INDEX(p) /\ L2_INDEX(q) = L2_INDEX(p)
                               THEN 0 ELSE L3Table(q)
  <2>1. L2Table(q)' = L2Table(q)
    BY <1>1, <1>2, SizesSound DEF L2Table, Sizes
  <2>2. CASE L2Table(q) = t
    <3>1. L1_INDEX(q) = L1_INDEX(p)
      BY <1>1, <2>2 DEF TablesAreATree
    <3>2. L3Table(q)' = table'[t][L2_INDEX(q)] /\ L3Table(q) = table[t][L2_INDEX(q)]
      BY <1>1, <2>1, <2>2 DEF L3Table
    <3>3. L2_INDEX(q) \in Index
      BY Indices
    <3>4. QED
      BY <1>2, <2>1, <3>1, <3>2, <3>3
  <2>3. CASE L2Table(q) # t
    <3>1. L2Table(q) # 0 => L2Table(q) \in Frames \ {t}
      BY <2>3, WalkTypes, SizesSound DEF Sizes
    <3>2. L3Table(q)' = L3Table(q)
      BY <1>2, <2>1, <3>1 DEF L3Table
    <3>3. L1_INDEX(q) # L1_INDEX(p)
      BY <2>3 DEF L2Table
    <3>4. QED
      BY <2>1, <3>2, <3>3
  <2>4. QED
    BY <2>2, <2>3
<1>4. ASSUME NEW q \in Pages
      PROVE  translate(q)' = translate(q)
  <2>1. CASE L1_INDEX(q) = L1_INDEX(p) /\ L2_INDEX(q) = L2_INDEX(p)
    <3>1. L3Table(q) = L3Table(p)
      BY <2>1 DEF L3Table, L2Table
    <3>2. translate(q) = 0
      BY <3>1, Indices DEF translate, _table_is_empty
    <3>3. translate(q)' = 0
      BY <1>3, <2>1 DEF translate
    <3>4. QED
      BY <3>2, <3>3
  <2>2. CASE ~(L1_INDEX(q) = L1_INDEX(p) /\ L2_INDEX(q) = L2_INDEX(p))
    <3>1. L3Table(q)' = L3Table(q)
      BY <1>3, <2>2
    <3>2. L3Table(q) # 0 => L3Table(q) \in Frames \ {t}
      BY <1>1, WalkTypes, SizesSound DEF Sizes
    <3>3. QED
      BY <1>2, <3>1, <3>2 DEF translate
  <2>3. QED
    BY <2>1, <2>2
<1>5. ASSUME NEW q \in Pages, L3Table(q)' # 0
      PROVE  _table_is_empty(L3Table(q))' <=> _table_is_empty(L3Table(q))
  <2>1. L3Table(q)' = L3Table(q)
    BY <1>3, <1>5
  <2>2. L3Table(q) \in Frames \ {t}
    BY <1>1, <1>5, <2>1, WalkTypes, SizesSound DEF Sizes
  <2>3. QED
    BY <1>2, <2>1, <2>2 DEF _table_is_empty
<1>6. QED
  BY <1>2, <1>3, <1>4, <1>5

\* Unlinking an empty L2 table changes no translation and no L3 table.
LEMMA L2Dropped ==
  ASSUME TypeOK, TablesAreATree, FramesAccountedFor,
         NEW p \in Pages, L2Table(p) # 0, _table_is_empty(L2Table(p)),
         NEW e, e = L1_INDEX(p),
         table' = [table EXCEPT ![L1][e] = 0]
  PROVE  /\ table' \in [Frames -> [Index -> Entries]]
         /\ \A q \in Pages :
              /\ L2Table(q)' = IF L1_INDEX(q) = L1_INDEX(p) THEN 0 ELSE L2Table(q)
              /\ L3Table(q)' = L3Table(q) /\ translate(q)' = translate(q)
              /\ L3Table(q) # 0 =>
                   (_table_is_empty(L3Table(q))' <=> _table_is_empty(L3Table(q)))
<1>1. /\ L1 \in Frames /\ e \in Index /\ 0 \in Entries /\ L1 # 0
      /\ \A q \in Pages : L3Table(q) # L1 /\ L2Table(q) # L1
  <2>1. L1 \in Frames /\ e \in Index /\ 0 \in Entries /\ L1 # 0
    BY Indices, SizesSound DEF Sizes
  <2>2. \A q \in Pages : L3Table(q) # L1 /\ L2Table(q) # L1
    BY <2>1, Apart
  <2>3. QED
    BY <2>1, <2>2
<1>2. /\ table' \in [Frames -> [Index -> Entries]]
      /\ \A f \in Frames \ {L1} : table'[f] = table[f]
      /\ \A i \in Index : table'[L1][i] = IF i = e THEN 0 ELSE table[L1][i]
  <2>1. table \in [Frames -> [Index -> Entries]]
    BY DEF TypeOK
  <2>2. L1 \in Frames /\ e \in Index /\ 0 \in Entries
    BY <1>1
  <2>3. QED
    BY <2>1, <2>2, Written
<1>3. ASSUME NEW q \in Pages
      PROVE  /\ L2Table(q)' = IF L1_INDEX(q) = L1_INDEX(p) THEN 0 ELSE L2Table(q)
             /\ L3Table(q)' = L3Table(q)
  <2>1. L2Table(q)' = IF L1_INDEX(q) = L1_INDEX(p) THEN 0 ELSE L2Table(q)
    BY <1>2, Indices DEF L2Table
  <2>2. CASE L1_INDEX(q) = L1_INDEX(p)
    <3>1. L2Table(q) = L2Table(p) /\ L2Table(q)' = 0
      BY <2>1, <2>2 DEF L2Table
    <3>2. L3Table(q) = 0
      BY <3>1, Indices DEF L3Table, _table_is_empty
    <3>3. L3Table(q)' = 0
      BY <3>1 DEF L3Table
    <3>4. QED
      BY <2>1, <3>2, <3>3
  <2>3. CASE L1_INDEX(q) # L1_INDEX(p)
    <3>1. L2Table(q) # 0 => L2Table(q) \in Frames \ {L1}
      BY <1>1, WalkTypes, SizesSound DEF Sizes
    <3>2. L2Table(q)' = L2Table(q)
      BY <2>1, <2>3
    <3>3. L3Table(q)' = L3Table(q)
      BY <1>2, <3>1, <3>2 DEF L3Table
    <3>4. QED
      BY <2>1, <3>3
  <2>4. QED
    BY <2>2, <2>3
<1>4. ASSUME NEW q \in Pages
      PROVE  /\ translate(q)' = translate(q)
             /\ L3Table(q) # 0 =>
                  (_table_is_empty(L3Table(q))' <=> _table_is_empty(L3Table(q)))
  <2>1. L3Table(q) # 0 => L3Table(q) \in Frames \ {L1}
    BY <1>1, WalkTypes, SizesSound DEF Sizes
  <2>2. L3Table(q)' = L3Table(q)
    BY <1>3
  <2>3. translate(q)' = translate(q)
    BY <1>2, <2>1, <2>2 DEF translate
  <2>4. L3Table(q) # 0 =>
          (_table_is_empty(L3Table(q))' <=> _table_is_empty(L3Table(q)))
    BY <1>2, <2>1, <2>2 DEF _table_is_empty
  <2>5. QED
    BY <2>3, <2>4
<1>5. QED
  BY <1>2, <1>3, <1>4

-----------------------------------------------------------------------------
(* map. *)

\* The pages of a range that a caller may ask for are pages.
LEMMA Ranged ==
  ASSUME NEW r \in Ranges
  PROVE  /\ r[1] \in Pages /\ r[2] \in Nat /\ r[2] >= 1 /\ r[1] \in Nat
         /\ RangeOf(r[1], r[2]) \subseteq Pages /\ r = <<r[1], r[2]>>
<1>1. r \in Pages \X Pages /\ r[2] >= 1 /\ r[1] + r[2] - 1 \in Pages
  BY MmuAssumption
<1>2. ENTRIES * ENTRIES * ENTRIES \in Nat
  BY MmuAssumption
<1>3. QED
  BY <1>1, <1>2 DEF Pages, RangeOf

\* The page at which the loop stands is one of the range.
LEMMA CurrentPage ==
  ASSUME TypeOK, Position, op.fn # "none", op.i < op.n
  PROVE  Page \in Pages /\ Page \in RangeOf(op.va, op.n) /\ Page = op.va + op.i /\ op.va \in Nat
<1>1. op.va \in Nat /\ op.i \in Nat /\ op.n \in Nat
  BY SizesSound DEF TypeOK, Sizes
<1>2. Page = op.va + op.i /\ Page \in op.va..(op.va + op.n - 1)
  BY <1>1 DEF Page
<1>3. RangeOf(op.va, op.n) \subseteq Pages
  BY DEF Position
<1>4. QED
  BY <1>1, <1>2, <1>3 DEF RangeOf

\* mmu_lock is free exactly when no operation is under way.
LEMMA Free ==
  ASSUME Position, TypeOK
  PROVE  /\ op.by = Nobody => op.fn = "none" /\ op.pc = "none" /\ op = Idle
         /\ op.by # Nobody => op.by \in Callers /\ op.fn # "none" /\ op.pc # "none"
<1>1. Nobody \notin Callers
  BY MmuAssumption
<1>2. Idle.by = Nobody /\ Idle.fn = "none" /\ Idle.pc = "none"
  BY DEF Idle
<1>3. \/ op = Idle
      \/ op.by \in Callers /\ op.fn # "none" /\ op.pc # "none"
  BY DEF Position
<1>4. QED
  BY <1>1, <1>2, <1>3

\* map takes mmu_lock: nothing is written yet.
LEMMA MapKeeps ==
  ASSUME IInv, NEW c \in Callers, NEW r \in Ranges, NEW phys \in Frames,
         MayMap(c, r[1], phys, r[2]), map(c, r[1], phys, r[2])
  PROVE  IInv'
<1> USE DEF IInv
<1>1. /\ op.by = Nobody /\ op.fn = "none" /\ op.pc = "none" /\ op = Idle
      /\ op' = [by |-> c, fn |-> "map", pc |-> "L2", t |-> L1,
                va |-> r[1], phys |-> phys, n |-> r[2], i |-> 0]
      /\ before' = Mapping
      /\ UNCHANGED <<table, free, held, cached, walks, late>>
  BY Free DEF map
<1>2. /\ \A p \in Pages : /\ L2Table(p)' = L2Table(p) /\ L3Table(p)' = L3Table(p)
                          /\ translate(p)' = translate(p)
                          /\ _table_is_empty(L3Table(p))' <=> _table_is_empty(L3Table(p))
      /\ DataFrames' = DataFrames
  BY <1>1, SameTables DEF DataFrames
<1>3. /\ r[1] \in Pages /\ r[2] \in Nat /\ r[2] >= 1 /\ r[1] \in Nat
      /\ RangeOf(r[1], r[2]) \subseteq Pages /\ <<r[1], r[2]>> \in Ranges
  BY Ranged
<1>4. TypeOK'
  <2>1. Mapping \in [Pages -> Entries]
    BY WalkTypes DEF Mapping
  <2>2. QED
    BY <1>1, <1>3, <2>1, SizesSound DEF TypeOK, Sizes
<1>5. TablesAreATree'
  BY <1>1, SameTables
<1>6. FramesAccountedFor'
  BY <1>1, SameFrames
<1>7. Position'
  BY <1>1, <1>3 DEF Position, RangeOf
<1>8. Pointer'
  BY <1>1 DEF Pointer
<1>9. Holders'
  BY <1>1, <1>2 DEF Holders, MayMap
<1>10. Emptied'
  BY <1>1, <1>2 DEF Emptied
<1>11. Progress'
  <2>1. \A p \in Pages : translate(p)' = before'[p]
    BY <1>1, <1>2 DEF Mapping
  <2>2. \A p \in RangeOf(r[1], r[2]) : before'[p] = 0
    BY <1>1, <1>3 DEF Mapping, MayMap
  <2>3. op'.fn = "map" /\ op'.va = r[1] /\ op'.n = r[2] /\ Done' = 0
    BY <1>1 DEF Done
  <2>4. r[1]..(r[1] + 0 - 1) = {}
    BY <1>3
  <2>5. QED
    BY <2>1, <2>2, <2>3, <2>4 DEF Progress, RangeOf
<1>12. Fresh'
  <2>1. \A e \in cached : e[1] \in Pages
    BY DEF TypeOK
  <2>2. QED
    BY <1>1, <1>2, <2>1 DEF Fresh
<1>13. Settled'
  <2>1. \A e \in cached \cup late : e[1] \in Pages
    BY DEF TypeOK
  <2>2. \A p \in Pages : ~Unsettled(p)
    BY <1>1 DEF Unsettled
  <2>3. QED
    BY <1>1, <1>2, <2>1, <2>2 DEF Settled
<1>14. QED
  BY <1>4, <1>5, <1>6, <1>7, <1>8, <1>9, <1>10, <1>11, <1>12, <1>13

\* unmap takes mmu_lock: nothing is cleared yet.
LEMMA UnmapKeeps ==
  ASSUME IInv, NEW c \in Callers, NEW r \in Ranges,
         MayUnmap(c, r[1], r[2]), unmap(c, r[1], r[2])
  PROVE  IInv'
<1> USE DEF IInv
<1>1. /\ op.by = Nobody /\ op.fn = "none" /\ op.pc = "none" /\ op = Idle
      /\ op' = [by |-> c, fn |-> "unmap", pc |-> "clear", t |-> L1,
                va |-> r[1], phys |-> 0, n |-> r[2], i |-> 0]
      /\ before' = Mapping
      /\ UNCHANGED <<table, free, held, cached, walks, late>>
  BY Free DEF unmap
<1>2. /\ \A p \in Pages : /\ L2Table(p)' = L2Table(p) /\ L3Table(p)' = L3Table(p)
                          /\ translate(p)' = translate(p)
                          /\ _table_is_empty(L3Table(p))' <=> _table_is_empty(L3Table(p))
      /\ DataFrames' = DataFrames
  BY <1>1, SameTables DEF DataFrames
<1>3. /\ r[1] \in Pages /\ r[2] \in Nat /\ r[2] >= 1 /\ r[1] \in Nat
      /\ RangeOf(r[1], r[2]) \subseteq Pages /\ <<r[1], r[2]>> \in Ranges
  BY Ranged
<1>4. TypeOK'
  <2>1. Mapping \in [Pages -> Entries]
    BY WalkTypes DEF Mapping
  <2>2. QED
    BY <1>1, <1>3, <2>1, SizesSound DEF TypeOK, Sizes
<1>5. TablesAreATree'
  BY <1>1, SameTables
<1>6. FramesAccountedFor'
  BY <1>1, SameFrames
<1>7. Position'
  BY <1>1, <1>3 DEF Position, RangeOf
<1>8. Pointer'
  BY <1>1 DEF Pointer
<1>9. Holders'
  BY <1>1, <1>2 DEF Holders
<1>10. Emptied'
  BY <1>1, <1>2 DEF Emptied
<1>11. Progress'
  <2>1. \A p \in Pages : translate(p)' = before'[p]
    BY <1>1, <1>2 DEF Mapping
  <2>2. \/ \A p \in RangeOf(r[1], r[2]) : before'[p] \in held[c]
        \/ \A p \in RangeOf(r[1], r[2]) : before'[p] = 0
    BY <1>1, <1>3 DEF Mapping, MayUnmap
  <2>3. /\ op'.fn = "unmap" /\ op'.va = r[1] /\ op'.i = 0 /\ op'.n = r[2] /\ op'.by = c
        /\ held' = held /\ Done' = 0
    BY <1>1 DEF Done
  <2>4. r[1]..(r[1] + 0 - 1) = {}
    BY <1>3
  <2>5. QED
    BY <2>1, <2>2, <2>3, <2>4 DEF Progress, RangeOf
<1>12. Fresh'
  <2>1. \A e \in cached : e[1] \in Pages
    BY DEF TypeOK
  <2>2. QED
    BY <1>1, <1>2, <2>1 DEF Fresh
<1>13. Settled'
  <2>1. \A e \in cached \cup late : e[1] \in Pages
    BY DEF TypeOK
  <2>2. \A p \in Pages : ~Unsettled(p)
    BY <1>1 DEF Unsettled
  <2>3. QED
    BY <1>1, <1>2, <2>1, <2>2 DEF Settled
<1>14. QED
  BY <1>4, <1>5, <1>6, <1>7, <1>8, <1>9, <1>10, <1>11, <1>12, <1>13

\* The holder of mmu_lock moves on, no translation changes and no page is done with.
LEMMA Moves ==
  ASSUME IInv, TypeOK', TablesAreATree', FramesAccountedFor', Position', Pointer', Emptied',
         Done' = Done, op.fn # "none",
         op'.by = op.by, op'.fn = op.fn, op'.va = op.va, op'.phys = op.phys,
         op'.n = op.n, op.pc # "dsb", op'.pc # "dsb",
         UNCHANGED <<held, cached, walks, late, before>>,
         \A p \in Pages : /\ translate(p)' = translate(p)
                          /\ translate(p) # 0 => L3Table(p)' = L3Table(p)
  PROVE  IInv'
<1> USE DEF IInv
<1>1. DataFrames' = DataFrames
  BY DEF DataFrames
<1>2. Holders'
  BY <1>1 DEF Holders
<1>3. Progress'
  BY DEF Progress
<1>4. \A e \in cached \cup late : e[1] \in Pages
  BY DEF TypeOK
<1>5. Fresh'
  BY <1>4 DEF Fresh, Was
<1>6. Settled'
  BY <1>4 DEF Settled, Unsettled, Was
<1>7. QED
  BY <1>2, <1>3, <1>5, <1>6

\* The entry _get_or_alloc_table looks at is the L2 or the L3 table of the page.
LEMMA Looked ==
  ASSUME IInv, NEW c \in Callers, LooksUp(c)
  PROVE  /\ op.by = c /\ op.pc \in {"L2", "L3"} /\ op.i < op.n /\ op.fn = "map" /\ Page \in Pages
         /\ op.pc = "L2" => op.t = L1 /\ Entry = L1_INDEX(Page) /\ table[op.t][Entry] = L2Table(Page)
         /\ op.pc = "L3" => /\ op.t = L2Table(Page) /\ Entry = L2_INDEX(Page)
                            /\ L2Table(Page) # 0 /\ table[op.t][Entry] = L3Table(Page)
<1> USE DEF IInv
<1>1. op.by = c /\ op.pc \in {"L2", "L3"} /\ op.i < op.n
  BY DEF LooksUp
<1>2. op.fn # "none"
  BY <1>1, Free, MmuAssumption
<1>3. op.fn = "map"
  <2>1. op # Idle
    BY <1>2 DEF Idle
  <2>2. QED
    BY <1>1, <2>1 DEF Position
<1>4. Page \in Pages
  BY <1>1, <1>2, CurrentPage
<1>5. op.pc = "L2" => op.t = L1 /\ Entry = L1_INDEX(Page) /\ table[op.t][Entry] = L2Table(Page)
  BY DEF Pointer, Entry, L2Table
<1>6. op.pc = "L3" => op.t = L2Table(Page) /\ Entry = L2_INDEX(Page) /\ L2Table(Page) # 0
  BY SizesSound DEF Pointer, Entry, TypeOK, Sizes
<1>7. op.pc = "L3" => table[op.t][Entry] = L3Table(Page)
  BY <1>6 DEF L3Table
<1>8. QED
  BY <1>1, <1>3, <1>4, <1>5, <1>6, <1>7

\* What _get_or_alloc_table leaves behind: the child table, one level down.
LEMMA Descended ==
  ASSUME TypeOK, NEW f \in Frames, op' = Descend(f)
  PROVE  /\ op' \in Ops /\ op'.t = f /\ op'.pc = IF op.pc = "L2" THEN "L3" ELSE "PTE"
         /\ op'.by = op.by /\ op'.fn = op.fn /\ op'.va = op.va /\ op'.phys = op.phys
         /\ op'.n = op.n /\ op'.i = op.i
BY DEF TypeOK, Ops, Descend

\* _get_or_alloc_table finds a valid descriptor.
LEMMA TableFoundKeeps ==
  ASSUME IInv, NEW c \in Callers, TableFound(c)
  PROVE  IInv'
<1> USE DEF IInv
<1>1. LooksUp(c) /\ table[op.t][Entry] # 0 /\ op' = Descend(table[op.t][Entry])
      /\ UNCHANGED <<table, free, held, cached, walks, late, before>>
  BY DEF TableFound
<1>2. /\ op.by = c /\ op.pc \in {"L2", "L3"} /\ op.i < op.n /\ op.fn = "map" /\ Page \in Pages
      /\ op.pc = "L2" => table[op.t][Entry] = L2Table(Page)
      /\ op.pc = "L3" => table[op.t][Entry] = L3Table(Page)
  BY <1>1, Looked
<1>3. table[op.t][Entry] \in Frames
  BY <1>1, <1>2, WalkTypes, SizesSound DEF Sizes
<1>4. /\ op' \in Ops /\ op'.t = table[op.t][Entry] /\ op'.pc = IF op.pc = "L2" THEN "L3" ELSE "PTE"
      /\ op'.by = op.by /\ op'.fn = op.fn /\ op'.va = op.va /\ op'.phys = op.phys
      /\ op'.n = op.n /\ op'.i = op.i
  <2> DEFINE f == table[op.t][Entry]
  <2>1. f \in Frames /\ op' = Descend(f)
    BY <1>1, <1>3
  <2> HIDE DEF f
  <2>2. /\ op' \in Ops /\ op'.t = f /\ op'.pc = IF op.pc = "L2" THEN "L3" ELSE "PTE"
        /\ op'.by = op.by /\ op'.fn = op.fn /\ op'.va = op.va /\ op'.phys = op.phys
        /\ op'.n = op.n /\ op'.i = op.i
    BY <2>1, Descended
  <2>3. QED
    BY <2>2 DEF f
<1>5. \A p \in Pages : /\ L2Table(p)' = L2Table(p) /\ L3Table(p)' = L3Table(p)
                       /\ translate(p)' = translate(p)
                       /\ _table_is_empty(L3Table(p))' <=> _table_is_empty(L3Table(p))
  BY <1>1, SameTables
<1>6. Page' = Page
  BY <1>4 DEF Page
<1>7. TypeOK'
  BY <1>1, <1>4 DEF TypeOK, Ops
<1>8. Position'
  BY <1>2, <1>4, MmuAssumption DEF Position
<1>9. Pointer'
  <2>1. L2Table(Page)' = L2Table(Page) /\ L3Table(Page)' = L3Table(Page)
    BY <1>1, <1>6 DEF L2Table, L3Table
  <2>2. QED
    BY <1>2, <1>4, <2>1 DEF Pointer
<1>10. Emptied'
  BY <1>2, <1>5 DEF Emptied
<1>11. TablesAreATree' /\ FramesAccountedFor'
  BY <1>1, SameTables, SameFrames
<1>12. Done' = Done
  BY <1>2, <1>4 DEF Done
<1>13. QED
  BY <1>1, <1>2, <1>4, <1>5, <1>7, <1>8, <1>9, <1>10, <1>11, <1>12, Moves

\* The PMM's first fit exists when a frame is free.
LEMMA LeastFree ==
  ASSUME TypeOK, free # {}
  PROVE  Least(free) \in free
<1> DEFINE R == OpToRel(<, Nat)
<1>1. IsWellFoundedOn(R, Nat)
  BY NatLessThanWellFounded
<1>2. free \subseteq Nat
  BY SizesSound DEF TypeOK, Sizes
<1>3. PICK n \in free : \A m \in free : ~(<<m, n>> \in R)
  <2> HIDE DEF R
  <2>1. QED
    BY <1>1, <1>2, WFMin
<1>4. \A m \in Nat : m < n => <<m, n>> \in R
  BY <1>2 DEF OpToRel
<1> HIDE DEF R
<1>5. \A m \in Nat : ~(m < n) => n <= m
  BY <1>2
<1>6. \A m \in free : n <= m
  BY <1>2, <1>3, <1>4, <1>5
<1>7. QED
  BY <1>6 DEF Least

\* _get_or_alloc_table allocates an L2 table: its frame leaves the free ones and
\* becomes the L2 table of the pages of one L1 entry.
LEMMA L2Allocated ==
  ASSUME IInv, NEW c \in Callers, TableAllocated(c), op.pc = "L2"
  PROVE  IInv'
<1> USE DEF IInv
<1>1. PICK child : /\ child = Least(free) /\ LooksUp(c) /\ table[op.t][Entry] = 0 /\ free # {}
                   /\ table' = [table EXCEPT ![child] = NoTable, ![op.t][Entry] = child]
                   /\ free' = free \ {child}
                   /\ op' = Descend(child)
                   /\ UNCHANGED <<held, cached, walks, late, before>>
  BY DEF TableAllocated
<1>2. child \in free
  BY <1>1, LeastFree
<1>3. PICK p \in Pages : p = Page
  BY <1>1, Looked
<1>4. /\ op.by = c /\ op.i < op.n /\ op.fn = "map"
      /\ op.t = L1 /\ Entry = L1_INDEX(p) /\ L2Table(p) = 0
  BY <1>1, <1>3, Looked
<1>5. child \in Frames
  BY <1>2 DEF TypeOK
<1>6. /\ op' \in Ops /\ op'.t = child /\ op'.pc = "L3"
      /\ op'.by = op.by /\ op'.fn = op.fn /\ op'.va = op.va /\ op'.phys = op.phys
      /\ op'.n = op.n /\ op'.i = op.i
  BY <1>1, <1>5, Descended
<1>7. /\ table' \in [Frames -> [Index -> Entries]]
      /\ \A q \in Pages :
           /\ L2Table(q)' = IF L1_INDEX(q) = L1_INDEX(p) THEN child ELSE L2Table(q)
           /\ L3Table(q)' = L3Table(q) /\ translate(q)' = translate(q)
           /\ L3Table(q) # 0 =>
                (_table_is_empty(L3Table(q))' <=> _table_is_empty(L3Table(q)))
  BY <1>1, <1>2, <1>4, L2Linked
<1>8. Page' = p
  BY <1>3, <1>6 DEF Page
<1>9. TypeOK'
  BY <1>1, <1>6, <1>7 DEF TypeOK, Ops
<1>10. child \notin L2Tables \cup L3Tables \cup DataFrames \cup {L1, 0}
  BY <1>2, <1>5, SizesSound DEF FramesAccountedFor, Sizes
<1>11. L3Tables' = L3Tables /\ L2Tables' = L2Tables \cup {child}
  <2>1. L3Tables' = L3Tables
    BY <1>7 DEF L3Tables
  <2>2. \A x : x \in L2Tables' <=> x \in L2Tables \cup {child}
    <3>1. \A q \in Pages : L2Table(q) # 0 => L1_INDEX(q) # L1_INDEX(p)
      BY <1>4 DEF L2Table
    <3>2. QED
      BY <1>7, <1>10, <3>1 DEF L2Tables
  <2>3. QED
    BY <2>1, <2>2
<1>12. TablesAreATree'
  <2>1. \A q, r \in Pages : L2Table(q)' # 0 /\ L2Table(q)' = L2Table(r)' => L1_INDEX(q) = L1_INDEX(r)
    <3>1. \A q \in Pages : L2Table(q) # child
      BY <1>10 DEF L2Tables
    <3>2. QED
      BY <1>7, <3>1 DEF TablesAreATree
  <2>2. QED
    BY <1>7, <1>10, <1>11, <2>1 DEF TablesAreATree
<1>13. FramesAccountedFor'
  <2>1. DataFrames' = DataFrames
    BY <1>1 DEF DataFrames
  <2>2. QED
    BY <1>1, <1>2, <1>10, <1>11, <2>1 DEF FramesAccountedFor
<1>14. Position'
  BY <1>4, <1>6, MmuAssumption DEF Position
<1>15. Pointer'
  <2>1. L2Table(Page)' = child
    <3>1. L2Table(Page)' = L2Table(p)'
      BY <1>8 DEF L2Table
    <3>2. QED
      BY <1>7, <3>1
  <2>2. QED
    BY <1>6, <2>1 DEF Pointer
<1>16. Emptied'
  BY <1>6, <1>7, <1>1, <1>4 DEF Emptied
<1>17. Done' = Done
  BY <1>6, <1>4 DEF Done
<1>18. QED
  BY <1>1, <1>4, <1>6, <1>7, <1>9, <1>12, <1>13, <1>14, <1>15, <1>16, <1>17, Moves

\* _get_or_alloc_table allocates an L3 table, the one table that is empty until
\* the page's entry is written.
LEMMA L3Allocated ==
  ASSUME IInv, NEW c \in Callers, TableAllocated(c), op.pc = "L3"
  PROVE  IInv'
<1> USE DEF IInv
<1>1. PICK child : /\ child = Least(free) /\ LooksUp(c) /\ table[op.t][Entry] = 0 /\ free # {}
                   /\ table' = [table EXCEPT ![child] = NoTable, ![op.t][Entry] = child]
                   /\ free' = free \ {child}
                   /\ op' = Descend(child)
                   /\ UNCHANGED <<held, cached, walks, late, before>>
  BY DEF TableAllocated
<1>2. child \in free
  BY <1>1, LeastFree
<1>3. PICK p \in Pages : p = Page
  BY <1>1, Looked
<1>4. /\ op.by = c /\ op.i < op.n /\ op.fn = "map"
      /\ op.t = L2Table(p) /\ Entry = L2_INDEX(p) /\ L2Table(p) # 0 /\ L3Table(p) = 0
  BY <1>1, <1>3, Looked
<1>5. child \in Frames
  BY <1>2 DEF TypeOK
<1>6. /\ op' \in Ops /\ op'.t = child /\ op'.pc = "PTE"
      /\ op'.by = op.by /\ op'.fn = op.fn /\ op'.va = op.va /\ op'.phys = op.phys
      /\ op'.n = op.n /\ op'.i = op.i
  BY <1>1, <1>5, Descended
<1>7. /\ table' \in [Frames -> [Index -> Entries]]
      /\ \A q \in Pages :
           /\ L2Table(q)' = L2Table(q) /\ translate(q)' = translate(q)
           /\ L3Table(q)' = IF L1_INDEX(q) = L1_INDEX(p) /\ L2_INDEX(q) = L2_INDEX(p)
                            THEN child ELSE L3Table(q)
           /\ L3Table(q) # 0 =>
                (_table_is_empty(L3Table(q))' <=> _table_is_empty(L3Table(q)))
  BY <1>1, <1>2, <1>4, L3Linked
<1>8. Page' = p
  BY <1>3, <1>6 DEF Page
<1>9. TypeOK'
  BY <1>1, <1>6, <1>7 DEF TypeOK, Ops
<1>10. child \notin L2Tables \cup L3Tables \cup DataFrames \cup {L1, 0}
  BY <1>2, <1>5, SizesSound DEF FramesAccountedFor, Sizes
<1>11. \A q \in Pages : L1_INDEX(q) = L1_INDEX(p) /\ L2_INDEX(q) = L2_INDEX(p) => L3Table(q) = 0
  BY <1>4 DEF L3Table, L2Table
<1>12. L2Tables' = L2Tables /\ L3Tables' = L3Tables \cup {child}
  <2>1. L2Tables' = L2Tables
    BY <1>7 DEF L2Tables
  <2>2. \A x : x \in L3Tables' <=> x \in L3Tables \cup {child}
    BY <1>7, <1>10, <1>11 DEF L3Tables
  <2>3. QED
    BY <2>1, <2>2
<1>13. TablesAreATree'
  <2>1. \A q, r \in Pages : L3Table(q)' # 0 /\ L3Table(q)' = L3Table(r)' =>
          L1_INDEX(q) = L1_INDEX(r) /\ L2_INDEX(q) = L2_INDEX(r)
    <3>1. \A q \in Pages : L3Table(q) # child
      BY <1>10 DEF L3Tables
    <3>2. QED
      BY <1>7, <3>1 DEF TablesAreATree
  <2>2. QED
    BY <1>7, <1>10, <1>12, <2>1 DEF TablesAreATree
<1>14. FramesAccountedFor'
  <2>1. DataFrames' = DataFrames
    BY <1>1 DEF DataFrames
  <2>2. QED
    BY <1>1, <1>2, <1>10, <1>12, <2>1 DEF FramesAccountedFor
<1>15. Position'
  BY <1>4, <1>6, MmuAssumption DEF Position
<1>16. L3Table(Page)' = child
  <2>1. L3Table(Page)' = L3Table(p)'
    BY <1>8 DEF L2Table, L3Table
  <2>2. QED
    BY <1>7, <2>1
<1>17. Pointer'
  BY <1>6, <1>16 DEF Pointer
<1>18. Emptied'
  <2>1. \A q \in Pages : L3Table(q) # 0 => ~_table_is_empty(L3Table(q))
    BY DEF Emptied
  <2>2. \A q \in Pages : L3Table(q)' # 0 /\ _table_is_empty(L3Table(q))' => L3Table(q)' = child
    BY <1>7, <2>1
  <2>3. QED
    BY <1>6, <1>16, <2>2 DEF Emptied
<1>19. Done' = Done
  BY <1>6, <1>4 DEF Done
<1>20. \A q \in Pages : translate(q) # 0 => L3Table(q)' = L3Table(q)
  BY <1>7, <1>11 DEF translate
<1>21. QED
  BY <1>1, <1>4, <1>6, <1>7, <1>9, <1>13, <1>14, <1>15, <1>17, <1>18, <1>19, <1>20, Moves

\* Out of frames: what is mapped so far is what the rollback has to clear.
LEMMA TableMissingKeeps ==
  ASSUME IInv, NEW c \in Callers, TableMissing(c)
  PROVE  IInv'
<1> USE DEF IInv
<1>1. /\ LooksUp(c) /\ table[op.t][Entry] = 0 /\ free = {}
      /\ op' = [op EXCEPT !.fn = "rollback", !.pc = "clear", !.t = L1,
                      !.n = op.i, !.i = 0]
      /\ UNCHANGED <<table, free, held, cached, walks, late, before>>
  BY DEF TableMissing
<1>2. op.by = c /\ op.pc \in {"L2", "L3"} /\ op.i < op.n /\ op.fn = "map"
  BY <1>1, Looked
<1>3. /\ op' \in Ops /\ op'.fn = "rollback" /\ op'.pc = "clear" /\ op'.t = L1
      /\ op'.n = op.i /\ op'.i = 0 /\ op'.by = op.by /\ op'.va = op.va /\ op'.phys = op.phys
  BY <1>1, SizesSound DEF TypeOK, Ops, Sizes
<1>4. op.i \in Nat /\ op.n \in Nat /\ op.va \in Nat /\ op.phys \in Frames /\ op.phys \in Nat
  BY <1>2, SizesSound DEF TypeOK, Position, Sizes
<1>5. /\ \A p \in Pages : /\ L2Table(p)' = L2Table(p) /\ L3Table(p)' = L3Table(p)
                          /\ translate(p)' = translate(p)
                          /\ _table_is_empty(L3Table(p))' <=> _table_is_empty(L3Table(p))
      /\ DataFrames' = DataFrames
  BY <1>1, SameTables DEF DataFrames
<1>6. /\ RangeOf(op.va, op.i) \subseteq RangeOf(op.va, op.n)
      /\ RangeOf(op.va, op.n) \subseteq Pages
  <2>1. op.va..(op.va + op.i - 1) \subseteq op.va..(op.va + op.n - 1)
    BY <1>2, <1>4
  <2>2. QED
    BY <1>2, <2>1 DEF RangeOf, Position
<1>7. TypeOK'
  BY <1>1, <1>3 DEF TypeOK, Ops
<1>8. TablesAreATree' /\ FramesAccountedFor'
  BY <1>1, SameTables, SameFrames
<1>9. Position'
  <2>1. op'.i <= op'.n /\ op'.phys \in Frames /\ op'.by \in Callers
    BY <1>2, <1>3, <1>4
  <2>2. RangeOf(op'.va, op'.n) \subseteq Pages
    BY <1>3, <1>6
  <2>3. QED
    BY <1>3, <2>1, <2>2 DEF Position
<1>10. Pointer'
  BY <1>3 DEF Pointer
<1>11. Holders'
  BY <1>1, <1>2, <1>3, <1>4, <1>5 DEF Holders
<1>12. Emptied'
  BY <1>2, <1>5 DEF Emptied
<1>13. \A p \in Pages : translate(p) = IF p \in op.va..(op.va + op.i - 1)
                                       THEN op.phys + (p - op.va) ELSE before[p]
  BY <1>2 DEF Progress, Done
<1>14. \A p \in RangeOf(op.va, op.n) : before[p] = 0
  BY <1>2 DEF Progress
<1>15. Progress'
  <2>1. Done' = 0
    BY <1>3 DEF Done
  <2>2. op.va + 0 = op.va
    BY <1>4
  <2>3. QED
    BY <1>1, <1>3, <1>5, <1>6, <1>13, <1>14, <2>1, <2>2 DEF Progress
<1>16. \A e \in cached \cup late : e[1] \in Pages
  BY DEF TypeOK
<1>17. Fresh'
  BY <1>1, <1>2, <1>5, <1>16 DEF Fresh
<1>18. \A p \in Pages : translate(p) # 0 /\ Unsettled(p) => Unsettled(p)'
  BY <1>3, <1>13, <1>14 DEF Unsettled, RangeOf
<1>19. Settled'
  BY <1>1, <1>2, <1>5, <1>16, <1>18 DEF Settled
<1>20. QED
  BY <1>7, <1>8, <1>9, <1>10, <1>11, <1>12, <1>15, <1>17, <1>19

\* map writes a page's entry: the page is done, and no core can have kept
\* anything else of it that map's own invalidation does not remove.
LEMMA WritePteKeeps ==
  ASSUME IInv, NEW c \in Callers, WritePte(c)
  PROVE  IInv'
<1> USE DEF IInv
<1>1. /\ op.by = c /\ op.pc = "PTE"
      /\ table' = [table EXCEPT ![op.t][L3_INDEX(Page)] = op.phys + op.i]
      /\ op' = [op EXCEPT !.pc = "L2", !.t = L1, !.i = @ + 1]
      /\ UNCHANGED <<free, held, cached, walks, late, before>>
  BY DEF WritePte
<1>2. op.fn = "map" /\ op.i < op.n
  BY <1>1 DEF Position, Idle
<1>3. op.i \in Nat /\ op.n \in Nat /\ op.va \in Nat /\ op.phys \in Nat
  BY SizesSound, <1>2 DEF TypeOK, Position, Sizes
<1>4. PICK p \in Pages : p = Page /\ p \in RangeOf(op.va, op.n) /\ p = op.va + op.i
  BY <1>2, CurrentPage
<1>5. op.t = L3Table(p) /\ L3Table(p) # 0
  BY <1>1, <1>4, SizesSound DEF Pointer, TypeOK, Sizes
<1>6. PICK v : v = op.phys + op.i
  OBVIOUS
<1>7. v \in held[op.by] /\ op.by \in Callers /\ v \in Frames /\ v \in Entries /\ v # 0 /\ v \in DataFrames
  <2>1. v \in op.phys..(op.phys + op.n - 1)
    BY <1>2, <1>3, <1>6
  <2>2. v \in held[op.by] /\ op.by \in Callers
    BY <1>1, <1>2, <2>1 DEF Holders
  <2>3. held[op.by] \subseteq Frames
    BY <2>2 DEF TypeOK
  <2>4. QED
    BY <2>2, <2>3, SizesSound DEF Sizes, DataFrames
<1>8. /\ table' \in [Frames -> [Index -> Entries]]
      /\ \A q \in Pages : /\ L2Table(q)' = L2Table(q) /\ L3Table(q)' = L3Table(q)
                          /\ translate(q)' = IF q = p THEN v ELSE translate(q)
                          /\ L3Table(q) # 0 /\ L3Table(q) # L3Table(p) =>
                               (_table_is_empty(L3Table(q))' <=> _table_is_empty(L3Table(q)))
      /\ ~_table_is_empty(L3Table(p))'
  <2>1. table' = [table EXCEPT ![op.t][L3_INDEX(p)] = v]
    BY <1>1, <1>4, <1>6
  <2>2. QED
    BY <1>5, <1>7, <2>1, PteWritten
<1>9. /\ op' \in Ops /\ op'.pc = "L2" /\ op'.t = L1 /\ op'.i = op.i + 1
      /\ op'.by = op.by /\ op'.fn = op.fn /\ op'.va = op.va /\ op'.phys = op.phys
      /\ op'.n = op.n
  <2>1. op \in Ops
    BY DEF TypeOK, Ops
  <2>2. L1 \in Frames /\ op.i + 1 \in Nat
    BY <1>3, SizesSound DEF Sizes
  <2>3. QED
    BY <1>1, <2>1, <2>2 DEF Ops
<1>10. TypeOK'
  BY <1>1, <1>8, <1>9 DEF TypeOK, Ops
<1>11. L2Tables' = L2Tables /\ L3Tables' = L3Tables /\ DataFrames' = DataFrames
  BY <1>1, <1>8 DEF L2Tables, L3Tables, DataFrames
<1>12. TablesAreATree' /\ FramesAccountedFor'
  BY <1>1, <1>8, <1>11 DEF TablesAreATree, FramesAccountedFor
<1>13. Position'
  <2>1. op'.i <= op'.n
    BY <1>2, <1>3, <1>9
  <2>2. RangeOf(op'.va, op'.n) \subseteq Pages /\ <<op'.va, op'.n>> \in Ranges /\ op'.phys \in Frames
    BY <1>2, <1>9 DEF Position
  <2>3. QED
    BY <1>2, <1>7, <1>9, <2>1, <2>2 DEF Position
<1>14. Pointer'
  BY <1>9 DEF Pointer
<1>15. Holders'
  BY <1>1, <1>7, <1>8, <1>9, <1>11 DEF Holders
<1>16. Emptied'
  <2>1. \A q \in Pages : L3Table(q) # 0 /\ L3Table(q) # L3Table(p) => ~_table_is_empty(L3Table(q))
    BY <1>4 DEF Emptied
  <2>2. \A q \in Pages : L3Table(q) = L3Table(p) => ~_table_is_empty(L3Table(q))'
    BY <1>8 DEF _table_is_empty
  <2>3. QED
    BY <1>8, <2>1, <2>2 DEF Emptied
<1>17. \A q \in Pages : translate(q) = IF q \in op.va..(op.va + op.i - 1)
                                       THEN op.phys + (q - op.va) ELSE before[q]
  BY <1>1, <1>2 DEF Progress, Done
<1>18. Progress'
  <2>1. Done' = op.i + 1
    BY <1>9 DEF Done
  <2>2. \A q \in Pages : q \in Nat
    BY SizesSound DEF Sizes
  <2>3. \A q \in Pages : q \in op.va..(op.va + (op.i + 1) - 1) <=> q = p \/ q \in op.va..(op.va + op.i - 1)
    BY <1>3, <1>4, <2>2
  <2>4. v = op.phys + (p - op.va)
    BY <1>3, <1>4, <1>6
  <2>5. \A q \in RangeOf(op.va, op.n) : before[q] = 0
    BY <1>2 DEF Progress
  <2>6. \A q \in Pages : translate(q)' = IF q \in op.va..(op.va + (op.i + 1) - 1)
                                         THEN op.phys + (q - op.va) ELSE before[q]
    BY <1>8, <1>17, <2>3, <2>4
  <2>7. QED
    BY <1>1, <1>2, <1>9, <2>1, <2>5, <2>6 DEF Progress
<1>19. translate(p) = 0
  <2>1. p \notin op.va..(op.va + op.i - 1)
    BY <1>3, <1>4
  <2>2. before[p] = 0
    BY <1>2, <1>4 DEF Progress
  <2>3. QED
    BY <1>17, <2>1, <2>2
<1>20. \A e \in cached \cup late : e[1] \in Pages /\ e[2] # 0
  BY SizesSound DEF TypeOK, Sizes
<1>21. Fresh'
  BY <1>1, <1>2, <1>8, <1>19, <1>20 DEF Fresh
<1>22. \A q \in Pages : Unsettled(q)' <=> Unsettled(q)
  BY <1>1, <1>9 DEF Unsettled
<1>23. Unsettled(p)
  BY <1>1, <1>2, <1>4 DEF Unsettled
<1>24. Settled'
  BY <1>1, <1>2, <1>8, <1>20, <1>22, <1>23 DEF Settled
<1>25. QED
  BY <1>10, <1>12, <1>13, <1>14, <1>15, <1>16, <1>18, <1>21, <1>24

-----------------------------------------------------------------------------
(* The end of map and of unmap. *)

\* tlbi of the whole range: nothing that a core keeps of it is left.
LEMMA Invalidated ==
  ASSUME IInv, op.fn # "none", op.pc \in {"L2", "clear"}, op.i >= op.n, InvalidateRange(op.va, op.n),
         op' = [op EXCEPT !.pc = "dsb"],
         UNCHANGED <<table, free, held, late, before>>
  PROVE  IInv'
<1> USE DEF IInv
<1>1. /\ op' \in Ops /\ op'.pc = "dsb" /\ op'.t = op.t /\ op'.i = op.i
      /\ op'.by = op.by /\ op'.fn = op.fn /\ op'.va = op.va /\ op'.phys = op.phys
      /\ op'.n = op.n
  BY DEF TypeOK, Ops
<1>2. /\ cached' = {e \in cached : e[1] \notin RangeOf(op.va, op.n)}
      /\ walks' = {w \in walks :
                     \A p \in RangeOf(op.va, op.n) : w[1] # L1_INDEX(p) \/ w[2] # L2_INDEX(p)}
  BY DEF InvalidateRange
<1>3. /\ \A p \in Pages : /\ L2Table(p)' = L2Table(p) /\ L3Table(p)' = L3Table(p)
                          /\ translate(p)' = translate(p)
                          /\ _table_is_empty(L3Table(p))' <=> _table_is_empty(L3Table(p))
      /\ DataFrames' = DataFrames
  BY SameTables DEF DataFrames
<1>4. op.i = op.n
  <2>1. op.i \in Nat /\ op.n \in Nat
    BY DEF TypeOK
  <2>2. op.i <= op.n
    BY DEF Position
  <2>3. QED
    BY <2>1, <2>2
<1>5. TypeOK'
  BY <1>1, <1>2 DEF TypeOK, Ops
<1>6. TablesAreATree' /\ FramesAccountedFor'
  BY SameTables, SameFrames
<1>7. Position'
  <2>1. op.by \in Callers /\ (op.fn = "map" \/ op.fn \in {"unmap", "rollback"})
    <3>1. op # Idle
      BY DEF Idle
    <3>2. QED
      BY <3>1 DEF Position
  <2>2. op'.i <= op'.n
    BY <1>1, <1>4 DEF Position
  <2>3. RangeOf(op'.va, op'.n) \subseteq Pages
    BY <1>1 DEF Position
  <2>4. QED
    BY <1>1, <1>4, <2>1, <2>2, <2>3 DEF Position
<1>8. Pointer'
  BY <1>1 DEF Pointer
<1>9. Holders'
  BY <1>1, <1>3 DEF Holders
<1>10. Emptied'
  BY <1>3 DEF Emptied
<1>11. Progress'
  <2>1. Done' = Done
    BY <1>1 DEF Done
  <2>2. QED
    BY <1>1, <1>3, <2>1 DEF Progress
<1>12. \A e \in cached \cup late : e[1] \in Pages
  BY DEF TypeOK
<1>13. Fresh'
  BY <1>1, <1>2, <1>3, <1>12 DEF Fresh
<1>14. Settled'
  <2>1. \A e \in cached' : translate(e[1])' # 0 => e[2] = translate(e[1])'
    BY <1>2, <1>3, <1>12 DEF Settled, Unsettled
  <2>2. \A w \in walks', p \in Pages :
          w[1] = L1_INDEX(p) /\ w[2] = L2_INDEX(p) /\ translate(p)' # 0 => w[3] = L3Table(p)'
    BY <1>2, <1>3 DEF Settled, Unsettled
  <2>3. \A e \in late' : /\ op'.fn \in {"unmap", "rollback"} /\ e[1] \in RangeOf(op'.va, op'.n)
                         /\ translate(e[1])' = 0 /\ e[2] = Was(e[1])'
    BY <1>1, <1>3, <1>12 DEF Settled, Was
  <2>4. QED
    BY <2>1, <2>2, <2>3 DEF Settled
<1>15. QED
  BY <1>5, <1>6, <1>7, <1>8, <1>9, <1>10, <1>11, <1>13, <1>14

\* map's invalidation, after the last page.
LEMMA TlbiMappedKeeps ==
  ASSUME IInv, NEW c \in Callers, TlbiMapped(c)
  PROVE  IInv'
BY Invalidated DEF TlbiMapped

\* The invalidation of unmap and of the rollback.
LEMMA TlbiClearedKeeps ==
  ASSUME IInv, NEW c \in Callers, TlbiCleared(c)
  PROVE  IInv'
BY Invalidated DEF TlbiCleared, Clears

\* mmu_lock is released when nothing is out of date any more.
LEMMA Released ==
  ASSUME IInv, op' = Idle, UNCHANGED <<table, free, held, cached, walks, before>>, late' = {},
         \A p \in Pages : ~Unsettled(p),
         \A p \in Pages : L3Table(p) # 0 => ~_table_is_empty(L3Table(p)),
         ~WalkCache /\ ~StoreBuffer => \A e \in cached : e[2] = translate(e[1])
  PROVE  IInv'
<1> USE DEF IInv
<1>1. /\ op' \in Ops /\ op'.fn = "none" /\ op'.pc = "none" /\ op'.i = 0 /\ op'.n = 0
      /\ op'.by = Nobody /\ op'.t = L1
  BY SizesSound DEF Idle, Ops, Sizes
<1>2. /\ \A p \in Pages : /\ L2Table(p)' = L2Table(p) /\ L3Table(p)' = L3Table(p)
                          /\ translate(p)' = translate(p)
                          /\ _table_is_empty(L3Table(p))' <=> _table_is_empty(L3Table(p))
      /\ DataFrames' = DataFrames
  BY SameTables DEF DataFrames
<1>3. TypeOK'
  BY <1>1 DEF TypeOK, Ops
<1>4. TablesAreATree' /\ FramesAccountedFor'
  BY SameTables, SameFrames
<1>5. Position' /\ Pointer'
  <2>1. op'.i <= op'.n
    BY <1>1
  <2>2. Position'
    BY <1>1, <2>1 DEF Position
  <2>3. Pointer'
    BY <1>1 DEF Pointer
  <2>4. QED
    BY <2>2, <2>3
<1>6. Holders'
  BY <1>1, <1>2 DEF Holders
<1>7. Emptied'
  BY <1>2 DEF Emptied
<1>8. Progress'
  BY <1>1 DEF Progress
<1>9. \A e \in cached : e[1] \in Pages
  BY DEF TypeOK
<1>10. Fresh'
  BY <1>2, <1>9 DEF Fresh
<1>11. Settled'
  BY <1>2, <1>9 DEF Settled
<1>12. QED
  BY <1>3, <1>4, <1>5, <1>6, <1>7, <1>8, <1>10, <1>11

\* dsb, and mmu_lock is released: late reads of cleared entries are over.
LEMMA ReturnKeeps ==
  ASSUME IInv, NEW c \in Callers, Return(c)
  PROVE  IInv'
<1> USE DEF IInv
<1>1. op.pc = "dsb" /\ op' = Idle /\ late' = {} /\ UNCHANGED <<table, free, held, cached, walks, before>>
  BY DEF Return
<1>2. \A p \in Pages : ~Unsettled(p)
  BY <1>1 DEF Unsettled
<1>3. \A p \in Pages : L3Table(p) # 0 => ~_table_is_empty(L3Table(p))
  BY <1>1 DEF Emptied
<1>4. ~WalkCache /\ ~StoreBuffer => \A e \in cached : e[2] = translate(e[1])
  BY <1>1 DEF Fresh
<1>5. QED
  BY <1>1, <1>2, <1>3, <1>4, Released

-----------------------------------------------------------------------------
(* unmap and the rollback. *)

\* Where unmap and the rollback are while they clear a page.
LEMMA Clearing ==
  ASSUME IInv, NEW c \in Callers, NEW pc, Clears(c, pc), op.i < op.n
  PROVE  /\ op.by = c /\ op.fn \in {"unmap", "rollback"} /\ op.pc = pc
         /\ Page \in Pages /\ Page \in RangeOf(op.va, op.n) /\ Page = op.va + op.i
         /\ op.va \in Nat /\ op.i \in Nat /\ op.n \in Nat /\ op.phys \in Nat
<1> USE DEF IInv
<1>1. op.by = c /\ op.fn \in {"unmap", "rollback"} /\ op.pc = pc
  BY DEF Clears
<1>2. Page \in Pages /\ Page \in RangeOf(op.va, op.n) /\ Page = op.va + op.i /\ op.va \in Nat
  BY <1>1, CurrentPage
<1>3. op.i \in Nat /\ op.n \in Nat /\ op.phys \in Nat
  BY SizesSound DEF TypeOK, Sizes
<1>4. QED
  BY <1>1, <1>2, <1>3

\* The page that is about to be cleared maps to what map put there, or to what
\* unmap found.
LEMMA AboutToClear ==
  ASSUME IInv, op.fn \in {"unmap", "rollback"}, op.pc = "clear", op.i < op.n,
         op.va \in Nat, op.i \in Nat, op.n \in Nat, NEW p \in Pages, p = op.va + op.i
  PROVE  translate(p) = Was(p)
<1> USE DEF IInv
<1>1. Done = op.i
  BY DEF Done
<1>2. CASE op.fn = "unmap"
  <2>1. p \notin op.va..(op.va + op.i - 1)
    OBVIOUS
  <2>2. QED
    BY <1>1, <1>2, <2>1 DEF Progress, Was
<1>3. CASE op.fn = "rollback"
  <2>1. p \in (op.va + op.i)..(op.va + op.n - 1)
    OBVIOUS
  <2>2. QED
    BY <1>1, <1>3, <2>1 DEF Progress, Was
<1>4. QED
  BY <1>2, <1>3

\* unmap meets a page without a table only in a range that it found unmapped.
LEMMA NothingMapped ==
  ASSUME IInv, NEW c \in Callers, TableAbsent(c)
  PROVE  op.fn = "unmap" /\ op.pc = "clear" /\ \A q \in RangeOf(op.va, op.n) : before[q] = 0
<1> USE DEF IInv
<1>1. Clears(c, "clear") /\ op.i < op.n /\ L3Table(Page) = 0
  BY DEF TableAbsent
<1>2. PICK p \in Pages : /\ p = Page /\ p \in RangeOf(op.va, op.n) /\ p = op.va + op.i
                         /\ op.fn \in {"unmap", "rollback"} /\ op.pc = "clear" /\ op.by = c
                         /\ op.va \in Nat /\ op.i \in Nat /\ op.n \in Nat /\ op.phys \in Nat
  BY <1>1, Clearing
<1>3. translate(p) = 0 /\ Was(p) = 0
  BY <1>1, <1>2, AboutToClear DEF translate
<1>4. op.fn = "unmap"
  <2>1. op.fn = "rollback" => Was(p) > 0
    BY <1>2, SizesSound DEF Was, Position, Sizes
  <2>2. QED
    BY <1>2, <1>3, <2>1
<1>5. \A q \in RangeOf(op.va, op.n) : before[q] = 0
  <2>1. before[p] = 0
    BY <1>3, <1>4 DEF Was
  <2>2. before[p] \notin held[op.by]
    BY <1>2, <2>1, SizesSound DEF TypeOK, Sizes
  <2>3. QED
    BY <1>2, <1>4, <2>2 DEF Progress
<1>6. QED
  BY <1>2, <1>4, <1>5

\* unmap's early return invalidates nothing, and nothing needs it.
LEMMA TableAbsentKeeps ==
  ASSUME IInv, NEW c \in Callers, TableAbsent(c)
  PROVE  IInv'
<1> USE DEF IInv
<1>1. op' = Idle /\ UNCHANGED <<table, free, held, cached, walks, late, before>>
  BY DEF TableAbsent
<1>2. op.fn = "unmap" /\ op.pc = "clear" /\ \A q \in RangeOf(op.va, op.n) : before[q] = 0
  BY NothingMapped
<1>3. \A e \in cached \cup late : e[2] # 0
  BY SizesSound DEF TypeOK, Sizes
<1>4. late = {}
  <2>1. \A e \in late : e[2] = 0
    BY <1>2 DEF Settled, Was
  <2>2. QED
    BY <1>3, <2>1
<1>5. ~WalkCache /\ ~StoreBuffer => \A e \in cached : e[2] = translate(e[1])
  BY <1>2, <1>3 DEF Fresh, Was
<1>6. \A q \in Pages : ~Unsettled(q)
  BY <1>2 DEF Unsettled
<1>7. \A q \in Pages : L3Table(q) # 0 => ~_table_is_empty(L3Table(q))
  BY <1>2 DEF Emptied
<1>8. QED
  BY <1>1, <1>4, <1>5, <1>6, <1>7, Released

\* A page's entry is cleared: its translation may live on in a core until the
\* tlbi, and its L3 table may be empty until the next look.
LEMMA ClearPteKeeps ==
  ASSUME IInv, NEW c \in Callers, ClearPte(c)
  PROVE  IInv'
<1> USE DEF IInv
<1>1. /\ Clears(c, "clear") /\ op.i < op.n
      /\ L3Table(Page) # 0
      /\ table' = [table EXCEPT ![L3Table(Page)][L3_INDEX(Page)] = 0]
      /\ late' = IF StoreBuffer /\ translate(Page) # 0
                 THEN late \cup {<<Page, translate(Page)>>} ELSE late
      /\ op' = [op EXCEPT !.pc = "drop L3", !.t = L2Table(Page)]
      /\ UNCHANGED <<free, held, cached, walks, before>>
  BY DEF ClearPte
<1>2. PICK p \in Pages : /\ p = Page /\ p \in RangeOf(op.va, op.n) /\ p = op.va + op.i
                         /\ op.fn \in {"unmap", "rollback"} /\ op.pc = "clear" /\ op.by = c
                         /\ op.va \in Nat /\ op.i \in Nat /\ op.n \in Nat /\ op.phys \in Nat
  BY <1>1, Clearing
<1>3. L3Table(p) # 0 /\ L2Table(p) # 0 /\ L2Table(p) \in Frames /\ 0 \in Entries
  BY <1>1, <1>2, WalkTypes, SizesSound DEF Sizes
<1>4. translate(p) = Was(p)
  BY <1>1, <1>2, AboutToClear
<1>5. /\ op' \in Ops /\ op'.pc = "drop L3" /\ op'.t = L2Table(p) /\ op'.i = op.i
      /\ op'.by = op.by /\ op'.fn = op.fn /\ op'.va = op.va /\ op'.phys = op.phys
      /\ op'.n = op.n
  <2> DEFINE f == L2Table(p)
  <2>1. op \in Ops /\ f \in Frames /\ op' = [op EXCEPT !.pc = "drop L3", !.t = f]
    BY <1>1, <1>2, <1>3 DEF TypeOK, Ops
  <2> HIDE DEF f
  <2>2. QED
    BY <2>1 DEF Ops, f
<1>6. /\ table' \in [Frames -> [Index -> Entries]]
      /\ \A q \in Pages : /\ L2Table(q)' = L2Table(q) /\ L3Table(q)' = L3Table(q)
                          /\ translate(q)' = IF q = p THEN 0 ELSE translate(q)
                          /\ L3Table(q) # 0 /\ L3Table(q) # L3Table(p) =>
                               (_table_is_empty(L3Table(q))' <=> _table_is_empty(L3Table(q)))
  <2>1. table' = [table EXCEPT ![L3Table(p)][L3_INDEX(p)] = 0]
    BY <1>1, <1>2
  <2>2. QED
    BY <1>3, <2>1, PteWritten
<1>7. Page' = p /\ L2Table(Page)' = L2Table(p) /\ L3Table(Page)' = L3Table(p)
  <2>1. Page' = p
    BY <1>2, <1>5 DEF Page
  <2>2. L2Table(Page)' = L2Table(p)' /\ L3Table(Page)' = L3Table(p)'
    BY <2>1 DEF L2Table, L3Table
  <2>3. QED
    BY <1>6, <2>1, <2>2
<1>8. TypeOK'
  <2>1. late' \subseteq Pages \X Frames
    <3>1. translate(p) # 0 => translate(p) \in Frames
      BY WalkTypes, SizesSound DEF Sizes
    <3>2. late \subseteq Pages \X Frames
      BY DEF TypeOK
    <3>3. QED
      BY <1>1, <1>2, <3>1, <3>2
  <2>2. QED
    BY <1>1, <1>5, <1>6, <2>1 DEF TypeOK, Ops
<1>9. L2Tables' = L2Tables /\ L3Tables' = L3Tables /\ DataFrames' = DataFrames
  BY <1>1, <1>6 DEF L2Tables, L3Tables, DataFrames
<1>10. TablesAreATree' /\ FramesAccountedFor'
  BY <1>1, <1>6, <1>9 DEF TablesAreATree, FramesAccountedFor
<1>11. Position'
  <2>1. op'.i <= op'.n /\ op'.i < op'.n
    BY <1>1, <1>2, <1>5
  <2>2. /\ RangeOf(op'.va, op'.n) \subseteq Pages
        /\ op'.fn = "unmap" => <<op'.va, op'.n>> \in Ranges
        /\ op'.fn = "rollback" => op'.phys \in Frames
    BY <1>2, <1>5 DEF Position
  <2>3. QED
    BY <1>2, <1>5, <2>1, <2>2 DEF Position
<1>12. Pointer'
  BY <1>3, <1>5, <1>7 DEF Pointer
<1>13. Holders'
  <2>1. \A q \in Pages : translate(q)' # 0 => translate(q)' \in DataFrames'
    BY <1>6, <1>9 DEF Holders
  <2>2. QED
    BY <1>1, <1>5, <2>1 DEF Holders
<1>14. Emptied'
  <2>1. \A q \in Pages : L3Table(q) # 0 /\ L3Table(q) # L3Table(p) => ~_table_is_empty(L3Table(q))
    BY <1>2 DEF Emptied
  <2>2. QED
    BY <1>5, <1>6, <1>7, <2>1 DEF Emptied
<1>15. Done = op.i /\ Done' = op.i + 1
  BY <1>2, <1>5 DEF Done
<1>16. \A q \in Pages : q \in Nat
  BY SizesSound DEF Sizes
<1>17. Progress'
  <2>1. CASE op.fn = "unmap"
    <3>1. \A q \in Pages : translate(q) = IF q \in op.va..(op.va + op.i - 1) THEN 0 ELSE before[q]
      BY <1>15, <2>1 DEF Progress
    <3>2. \A q \in Pages : q \in op.va..(op.va + (op.i + 1) - 1) <=> q = p \/ q \in op.va..(op.va + op.i - 1)
      BY <1>2, <1>16
    <3>3. \A q \in Pages : translate(q)' = IF q \in op.va..(op.va + (op.i + 1) - 1) THEN 0 ELSE before[q]
      BY <1>6, <3>1, <3>2
    <3>4. QED
      BY <1>1, <1>5, <1>15, <2>1, <3>3 DEF Progress
  <2>2. CASE op.fn = "rollback"
    <3>1. \A q \in Pages : translate(q) = IF q \in (op.va + op.i)..(op.va + op.n - 1)
                                          THEN op.phys + (q - op.va) ELSE before[q]
      BY <1>15, <2>2 DEF Progress
    <3>2. \A q \in Pages : q \in (op.va + (op.i + 1))..(op.va + op.n - 1)
                             <=> q # p /\ q \in (op.va + op.i)..(op.va + op.n - 1)
      BY <1>2, <1>16
    <3>3. before[p] = 0
      BY <1>2, <2>2 DEF Progress
    <3>4. \A q \in Pages : translate(q)' = IF q \in (op.va + (op.i + 1))..(op.va + op.n - 1)
                                           THEN op.phys + (q - op.va) ELSE before[q]
      BY <1>6, <3>1, <3>2, <3>3
    <3>5. QED
      BY <1>1, <1>5, <1>15, <2>2, <3>4 DEF Progress
  <2>3. QED
    BY <1>2, <2>1, <2>2
<1>18. \A e \in cached \cup late : e[1] \in Pages
  BY DEF TypeOK
<1>19. \A q \in Pages : Was(q)' = Was(q)
  BY <1>1, <1>5 DEF Was
<1>20. Fresh'
  <2>1. SUFFICES ASSUME ~WalkCache, ~StoreBuffer
                 PROVE  /\ walks' = {} /\ late' = {}
                        /\ \A e \in cached' :
                             \/ e[2] = translate(e[1])'
                             \/ /\ op'.fn \in {"unmap", "rollback"} /\ op'.pc # "dsb"
                                /\ e[1] \in RangeOf(op'.va, op'.n) /\ e[2] = Was(e[1])'
    BY DEF Fresh
  <2>2. walks' = {} /\ late' = {}
    BY <1>1, <2>1 DEF Fresh
  <2>3. ASSUME NEW e \in cached
        PROVE  \/ e[2] = translate(e[1])'
               \/ e[1] \in RangeOf(op.va, op.n) /\ e[2] = Was(e[1])
    BY <1>2, <1>4, <1>6, <1>18, <2>1 DEF Fresh
  <2>4. QED
    BY <1>1, <1>2, <1>5, <1>18, <1>19, <2>2, <2>3
<1>21. Settled'
  <2>1. \A q \in Pages : Unsettled(q)' <=> Unsettled(q)
    BY <1>2, <1>5 DEF Unsettled
  <2>2. \A e \in cached' : translate(e[1])' # 0 => e[2] = translate(e[1])' \/ Unsettled(e[1])'
    BY <1>1, <1>6, <1>18, <2>1 DEF Settled
  <2>3. \A w \in walks', q \in Pages :
          w[1] = L1_INDEX(q) /\ w[2] = L2_INDEX(q) /\ translate(q)' # 0
            => w[3] = L3Table(q)' \/ Unsettled(q)'
    BY <1>1, <1>6, <2>1 DEF Settled
  <2>4. \A e \in late : /\ e[1] \in RangeOf(op.va, op.n) /\ translate(e[1])' = 0 /\ e[2] = Was(e[1])
    BY <1>6, <1>18 DEF Settled
  <2>5. \A e \in late' : e \in late \/ e = <<p, translate(p)>>
    BY <1>1, <1>2
  <2>6. \A e \in late' : /\ e[1] \in Pages /\ e[1] \in RangeOf(op.va, op.n)
                         /\ translate(e[1])' = 0 /\ e[2] = Was(e[1])
    BY <1>2, <1>4, <1>6, <1>18, <2>4, <2>5
  <2>7. \A e \in late' : /\ op'.fn \in {"unmap", "rollback"} /\ e[1] \in RangeOf(op'.va, op'.n)
                         /\ translate(e[1])' = 0 /\ e[2] = Was(e[1])'
    BY <1>2, <1>5, <1>19, <2>6
  <2>8. QED
    BY <2>2, <2>3, <2>7 DEF Settled
<1>22. QED
  BY <1>8, <1>10, <1>11, <1>12, <1>13, <1>14, <1>17, <1>20, <1>21

\* An empty L3 table is unlinked and its frame freed: no walk reaches it.
LEMMA DropL3Keeps ==
  ASSUME IInv, NEW c \in Callers, DropL3(c)
  PROVE  IInv'
<1> USE DEF IInv
<1>1. /\ Clears(c, "drop L3") /\ _table_is_empty(L3Table(Page))
      /\ table' = [table EXCEPT ![op.t][L2_INDEX(Page)] = 0]
      /\ free' = free \cup {L3Table(Page)}
      /\ op' = [op EXCEPT !.pc = "drop L2"]
      /\ UNCHANGED <<held, cached, walks, late, before>>
  BY DEF DropL3
<1>2. op.i < op.n
  BY <1>1 DEF Position, Clears
<1>3. PICK p \in Pages : /\ p = Page
                         /\ op.fn \in {"unmap", "rollback"} /\ op.pc = "drop L3" /\ op.by = c
  BY <1>1, <1>2, Clearing
<1>4. op.t = L2Table(p) /\ L3Table(p) # 0 /\ _table_is_empty(L3Table(p))
  BY <1>1, <1>3 DEF Pointer
<1>5. /\ op' \in Ops /\ op'.pc = "drop L2" /\ op'.t = op.t /\ op'.i = op.i
      /\ op'.by = op.by /\ op'.fn = op.fn /\ op'.va = op.va /\ op'.phys = op.phys
      /\ op'.n = op.n
  BY <1>1 DEF TypeOK, Ops
<1>6. /\ table' \in [Frames -> [Index -> Entries]]
      /\ \A q \in Pages :
           /\ L2Table(q)' = L2Table(q) /\ translate(q)' = translate(q)
           /\ L3Table(q)' = IF L1_INDEX(q) = L1_INDEX(p) /\ L2_INDEX(q) = L2_INDEX(p)
                            THEN 0 ELSE L3Table(q)
           /\ L3Table(q)' # 0 =>
                (_table_is_empty(L3Table(q))' <=> _table_is_empty(L3Table(q)))
  <2>1. table' = [table EXCEPT ![op.t][L2_INDEX(p)] = 0]
    BY <1>1, <1>3
  <2>2. QED
    BY <1>4, <2>1, L3Dropped
<1>7. PICK f : f = L3Table(p) /\ f \in Frames \ (free \cup DataFrames \cup L2Tables \cup {L1, 0})
  BY <1>4, Apart, SizesSound DEF Sizes, L2Tables
<1>8. L2Tables' = L2Tables /\ L3Tables' = L3Tables \ {f} /\ f \in L3Tables
  <2>1. L2Tables' = L2Tables
    BY <1>6 DEF L2Tables
  <2>2. \A q \in Pages : L3Table(q) = f <=> L1_INDEX(q) = L1_INDEX(p) /\ L2_INDEX(q) = L2_INDEX(p)
    <3>1. \A q \in Pages : L3Table(q) = f => L1_INDEX(q) = L1_INDEX(p) /\ L2_INDEX(q) = L2_INDEX(p)
      BY <1>4, <1>7 DEF TablesAreATree
    <3>2. \A q \in Pages : L1_INDEX(q) = L1_INDEX(p) /\ L2_INDEX(q) = L2_INDEX(p) => L3Table(q) = f
      BY <1>7 DEF L3Table, L2Table
    <3>3. QED
      BY <3>1, <3>2
  <2>3. \A q \in Pages : L3Table(q)' = IF L3Table(q) = f THEN 0 ELSE L3Table(q)
    BY <1>6, <2>2
  <2>4. \A x : x \in L3Tables' <=> x \in L3Tables \ {f}
    BY <2>3 DEF L3Tables
  <2>5. QED
    BY <1>4, <1>7, <2>1, <2>4 DEF L3Tables
<1>9. TypeOK'
  BY <1>1, <1>3, <1>5, <1>6, <1>7 DEF TypeOK, Ops
<1>10. TablesAreATree'
  <2>1. \A q, r \in Pages : L3Table(q)' # 0 /\ L3Table(q)' = L3Table(r)' =>
          L1_INDEX(q) = L1_INDEX(r) /\ L2_INDEX(q) = L2_INDEX(r)
    BY <1>6 DEF TablesAreATree
  <2>2. QED
    BY <1>6, <1>8, <2>1 DEF TablesAreATree
<1>11. FramesAccountedFor'
  <2>1. DataFrames' = DataFrames
    BY <1>1 DEF DataFrames
  <2>2. free' = free \cup {f}
    BY <1>1, <1>3, <1>7
  <2>3. QED
    BY <1>7, <1>8, <2>1, <2>2 DEF FramesAccountedFor, TablesAreATree
<1>12. Position'
  <2>1. /\ op'.i <= op'.n /\ op'.i < op'.n
        /\ RangeOf(op'.va, op'.n) \subseteq Pages
        /\ op'.fn = "unmap" => <<op'.va, op'.n>> \in Ranges
        /\ op'.fn = "rollback" => op'.phys \in Frames
    BY <1>2, <1>3, <1>5 DEF Position
  <2>2. QED
    BY <1>3, <1>5, <2>1 DEF Position
<1>13. Pointer'
  <2>1. Page' = p
    BY <1>3, <1>5 DEF Page
  <2>2. L2Table(Page)' = L2Table(p)'
    BY <2>1 DEF L2Table
  <2>3. L2Table(Page)' = L2Table(p)
    BY <1>6, <2>2
  <2>4. QED
    BY <1>4, <1>5, <2>3 DEF Pointer
<1>14. Emptied'
  <2>1. \A q \in Pages : L3Table(q)' # 0 => L3Table(q)' = L3Table(q) /\ L3Table(q) # L3Table(p)
    <3>1. \A q \in Pages : L3Table(q)' # 0 => L3Table(q)' = L3Table(q) /\ L3Table(q)' \in L3Tables'
      BY <1>6 DEF L3Tables
    <3>2. QED
      BY <1>7, <1>8, <3>1
  <2>2. \A q \in Pages : L3Table(q)' # 0 => ~_table_is_empty(L3Table(q))
    BY <1>3, <2>1 DEF Emptied
  <2>3. QED
    BY <1>6, <2>2 DEF Emptied
<1>15. Done' = Done
  BY <1>3, <1>5 DEF Done
<1>16. \A q \in Pages : translate(q) # 0 => L3Table(q)' = L3Table(q)
  <2>1. \A q \in Pages : translate(q)' # 0 => L3Table(q)' # 0
    BY DEF translate
  <2>2. QED
    BY <1>6, <2>1
<1>17. QED
  BY <1>1, <1>3, <1>5, <1>6, <1>9, <1>10, <1>11, <1>12, <1>13, <1>14, <1>15, <1>16, Moves

\* An L3 table that still maps a page stays.
LEMMA KeepL3Keeps ==
  ASSUME IInv, NEW c \in Callers, KeepL3(c)
  PROVE  IInv'
<1> USE DEF IInv
<1>1. /\ Clears(c, "drop L3") /\ ~_table_is_empty(L3Table(Page))
      /\ op' = [op EXCEPT !.pc = "drop L2"]
      /\ UNCHANGED <<table, free, held, cached, walks, late, before>>
  BY DEF KeepL3
<1>2. op.fn \in {"unmap", "rollback"} /\ op.pc = "drop L3" /\ op.i < op.n
  BY <1>1 DEF Position, Clears
<1>3. /\ op' \in Ops /\ op'.pc = "drop L2" /\ op'.t = op.t /\ op'.i = op.i
      /\ op'.by = op.by /\ op'.fn = op.fn /\ op'.va = op.va /\ op'.phys = op.phys
      /\ op'.n = op.n
  BY <1>1 DEF TypeOK, Ops
<1>4. \A p \in Pages : /\ L2Table(p)' = L2Table(p) /\ L3Table(p)' = L3Table(p)
                       /\ translate(p)' = translate(p)
                       /\ _table_is_empty(L3Table(p))' <=> _table_is_empty(L3Table(p))
  BY <1>1, SameTables
<1>5. TypeOK'
  BY <1>1, <1>3 DEF TypeOK, Ops
<1>6. TablesAreATree' /\ FramesAccountedFor'
  BY <1>1, SameTables, SameFrames
<1>7. Position'
  <2>1. /\ op'.i <= op'.n /\ op'.i < op'.n
        /\ RangeOf(op'.va, op'.n) \subseteq Pages
        /\ op'.fn = "unmap" => <<op'.va, op'.n>> \in Ranges
        /\ op'.fn = "rollback" => op'.phys \in Frames
    BY <1>2, <1>3 DEF Position
  <2>2. op'.by \in Callers
    BY <1>1, <1>3 DEF Clears
  <2>3. QED
    BY <1>2, <1>3, <2>1, <2>2 DEF Position
<1>8. Pointer'
  <2>1. L2Table(Page)' = L2Table(Page)
    BY <1>1, <1>3 DEF L2Table, Page
  <2>2. QED
    BY <1>2, <1>3, <2>1 DEF Pointer
<1>9. Emptied'
  <2>1. \A q \in Pages : L3Table(q) # 0 => ~_table_is_empty(L3Table(q))
    BY <1>1, <1>2 DEF Emptied
  <2>2. QED
    BY <1>4, <2>1 DEF Emptied
<1>10. Done' = Done
  BY <1>2, <1>3 DEF Done
<1>11. QED
  BY <1>1, <1>2, <1>3, <1>4, <1>5, <1>6, <1>7, <1>8, <1>9, <1>10, Moves

\* The successor of a smaller number is not greater.
LEMMA OneAfter == \A a, b \in Nat : a < b => a + 1 <= b
OBVIOUS

\* What the loop variables are when unmap goes on to the next page.
LEMMA PageLeft ==
  ASSUME TypeOK, op' = NextPage
  PROVE  /\ op' \in Ops /\ op'.pc = "clear" /\ op'.t = L1 /\ op'.i = op.i + 1
         /\ op'.by = op.by /\ op'.fn = op.fn /\ op'.va = op.va /\ op'.phys = op.phys
         /\ op'.n = op.n
<1>1. op \in Ops
  BY DEF TypeOK, Ops
<1>2. L1 \in Frames /\ op.i + 1 \in Nat
  <2>1. op.i \in Nat
    BY DEF TypeOK
  <2>2. QED
    BY <2>1, SizesSound DEF Sizes
<1>3. QED
  BY <1>1, <1>2 DEF NextPage, Ops

\* unmap and the rollback go on to the next page with that one counted as done.
LEMMA GoesOn ==
  ASSUME IInv, NEW c \in Callers, Clears(c, "drop L2"), op' = NextPage
  PROVE  /\ op.fn \in {"unmap", "rollback"} /\ op.pc = "drop L2" /\ op.i < op.n
         /\ Position' /\ Pointer' /\ Done' = Done
<1> USE DEF IInv
<1>1. op.fn \in {"unmap", "rollback"} /\ op.pc = "drop L2" /\ op.i < op.n /\ op.by = c
  BY DEF Position, Clears
<1>2. /\ op' \in Ops /\ op'.pc = "clear" /\ op'.t = L1 /\ op'.i = op.i + 1
      /\ op'.by = op.by /\ op'.fn = op.fn /\ op'.va = op.va /\ op'.phys = op.phys
      /\ op'.n = op.n
  BY PageLeft
<1>3. op.i \in Nat /\ op.n \in Nat
  BY DEF TypeOK
<1>4. Position'
  <2>1. op'.i <= op'.n
    <3>1. op.i + 1 <= op.n
      <4>1. op.i < op.n
        BY <1>1
      <4>2. QED
        BY <1>3, <4>1, OneAfter
    <3>2. QED
      BY <1>2, <3>1
  <2>2. /\ RangeOf(op'.va, op'.n) \subseteq Pages
        /\ op'.fn = "unmap" => <<op'.va, op'.n>> \in Ranges
        /\ op'.fn = "rollback" => op'.phys \in Frames
    BY <1>1, <1>2 DEF Position
  <2>3. QED
    BY <1>1, <1>2, <2>1, <2>2 DEF Position
<1>5. Pointer'
  BY <1>2 DEF Pointer
<1>6. Done' = Done
  BY <1>1, <1>2 DEF Done
<1>7. QED
  BY <1>1, <1>4, <1>5, <1>6

\* An empty L2 table is unlinked and its frame freed: no walk reaches it.
LEMMA DropL2Keeps ==
  ASSUME IInv, NEW c \in Callers, DropL2(c)
  PROVE  IInv'
<1> USE DEF IInv
<1>1. /\ Clears(c, "drop L2") /\ _table_is_empty(op.t)
      /\ table' = [table EXCEPT ![L1][L1_INDEX(Page)] = 0]
      /\ free' = free \cup {op.t}
      /\ op' = NextPage
      /\ UNCHANGED <<held, cached, walks, late, before>>
  BY DEF DropL2
<1>2. /\ op.fn \in {"unmap", "rollback"} /\ op.pc = "drop L2" /\ op.i < op.n
      /\ Position' /\ Pointer' /\ Done' = Done
  BY <1>1, GoesOn
<1>3. PICK p \in Pages : p = Page
  BY <1>1, <1>2, Clearing
<1>4. op.t = L2Table(p) /\ L2Table(p) # 0 /\ _table_is_empty(L2Table(p))
  BY <1>1, <1>2, <1>3, SizesSound DEF Pointer, TypeOK, Sizes
<1>5. /\ op' \in Ops /\ op'.pc = "clear" /\ op'.t = L1 /\ op'.i = op.i + 1
      /\ op'.by = op.by /\ op'.fn = op.fn /\ op'.va = op.va /\ op'.phys = op.phys
      /\ op'.n = op.n
  BY <1>1, PageLeft
<1>6. /\ table' \in [Frames -> [Index -> Entries]]
      /\ \A q \in Pages :
           /\ L2Table(q)' = IF L1_INDEX(q) = L1_INDEX(p) THEN 0 ELSE L2Table(q)
           /\ L3Table(q)' = L3Table(q) /\ translate(q)' = translate(q)
           /\ L3Table(q) # 0 =>
                (_table_is_empty(L3Table(q))' <=> _table_is_empty(L3Table(q)))
  <2>1. table' = [table EXCEPT ![L1][L1_INDEX(p)] = 0]
    BY <1>1, <1>3
  <2>2. QED
    BY <1>4, <2>1, L2Dropped
<1>7. PICK f : f = L2Table(p) /\ f \in Frames \ (free \cup DataFrames \cup L3Tables \cup {L1, 0})
  BY <1>4, Apart, SizesSound DEF Sizes, L3Tables
<1>8. L3Tables' = L3Tables /\ L2Tables' = L2Tables \ {f} /\ f \in L2Tables
  <2>1. L3Tables' = L3Tables
    BY <1>6 DEF L3Tables
  <2>2. \A q \in Pages : L2Table(q) = f <=> L1_INDEX(q) = L1_INDEX(p)
    <3>1. \A q \in Pages : L2Table(q) = f => L1_INDEX(q) = L1_INDEX(p)
      BY <1>4, <1>7 DEF TablesAreATree
    <3>2. \A q \in Pages : L1_INDEX(q) = L1_INDEX(p) => L2Table(q) = f
      BY <1>7 DEF L2Table
    <3>3. QED
      BY <3>1, <3>2
  <2>3. \A q \in Pages : L2Table(q)' = IF L2Table(q) = f THEN 0 ELSE L2Table(q)
    BY <1>6, <2>2
  <2>4. \A x : x \in L2Tables' <=> x \in L2Tables \ {f}
    BY <2>3 DEF L2Tables
  <2>5. QED
    BY <1>4, <1>7, <2>1, <2>4 DEF L2Tables
<1>9. TypeOK'
  BY <1>1, <1>4, <1>5, <1>6, <1>7 DEF TypeOK, Ops
<1>10. TablesAreATree'
  <2>1. \A q, r \in Pages : L2Table(q)' # 0 /\ L2Table(q)' = L2Table(r)' => L1_INDEX(q) = L1_INDEX(r)
    BY <1>6 DEF TablesAreATree
  <2>2. QED
    BY <1>6, <1>8, <2>1 DEF TablesAreATree
<1>11. FramesAccountedFor'
  <2>1. DataFrames' = DataFrames
    BY <1>1 DEF DataFrames
  <2>2. free' = free \cup {f}
    BY <1>1, <1>4, <1>7
  <2>3. QED
    BY <1>7, <1>8, <2>1, <2>2 DEF FramesAccountedFor, TablesAreATree
<1>12. Emptied'
  BY <1>2, <1>6 DEF Emptied
<1>13. QED
  BY <1>1, <1>2, <1>5, <1>6, <1>9, <1>10, <1>11, <1>12, Moves

\* An L2 table that still has an L3 table stays.
LEMMA KeepL2Keeps ==
  ASSUME IInv, NEW c \in Callers, KeepL2(c)
  PROVE  IInv'
<1> USE DEF IInv
<1>1. /\ Clears(c, "drop L2") /\ op' = NextPage
      /\ UNCHANGED <<table, free, held, cached, walks, late, before>>
  BY DEF KeepL2
<1>2. /\ op.fn \in {"unmap", "rollback"} /\ op.pc = "drop L2" /\ op.i < op.n
      /\ Position' /\ Pointer' /\ Done' = Done
  BY <1>1, GoesOn
<1>3. /\ op' \in Ops /\ op'.pc = "clear" /\ op'.t = L1 /\ op'.i = op.i + 1
      /\ op'.by = op.by /\ op'.fn = op.fn /\ op'.va = op.va /\ op'.phys = op.phys
      /\ op'.n = op.n
  BY <1>1, PageLeft
<1>4. \A p \in Pages : /\ L2Table(p)' = L2Table(p) /\ L3Table(p)' = L3Table(p)
                       /\ translate(p)' = translate(p)
                       /\ _table_is_empty(L3Table(p))' <=> _table_is_empty(L3Table(p))
  BY <1>1, SameTables
<1>5. TypeOK'
  BY <1>1, <1>3 DEF TypeOK, Ops
<1>6. TablesAreATree' /\ FramesAccountedFor'
  BY <1>1, SameTables, SameFrames
<1>7. Emptied'
  BY <1>2, <1>4 DEF Emptied
<1>8. QED
  BY <1>1, <1>2, <1>3, <1>4, <1>5, <1>6, <1>7, Moves

-----------------------------------------------------------------------------
(* The hardware's walks. *)

\* The hardware changes nothing but the TLBs and what the walkers keep.
LEMMA Walked ==
  ASSUME IInv, UNCHANGED <<table, free, held, op, late, before>>,
         cached' \subseteq Pages \X Frames, walks' \subseteq Index \X Index \X Frames,
         Fresh', Settled'
  PROVE  IInv'
<1> USE DEF IInv
<1>1. \A p \in Pages : /\ L2Table(p)' = L2Table(p) /\ L3Table(p)' = L3Table(p)
                       /\ translate(p)' = translate(p)
                       /\ _table_is_empty(L3Table(p))' <=> _table_is_empty(L3Table(p))
  BY SameTables
<1>2. TablesAreATree' /\ FramesAccountedFor'
  BY SameTables, SameFrames
<1>3. DataFrames' = DataFrames
  BY DEF DataFrames
<1>4. TypeOK'
  BY DEF TypeOK
<1>5. Position'
  BY DEF Position
<1>6. Pointer' /\ Emptied'
  <2>1. L2Table(Page)' = L2Table(Page) /\ L3Table(Page)' = L3Table(Page)
    BY DEF L2Table, L3Table, Page
  <2>2. Pointer'
    BY <2>1 DEF Pointer
  <2>3. Emptied'
    BY <1>1, <2>1 DEF Emptied
  <2>4. QED
    BY <2>2, <2>3
<1>7. Holders'
  BY <1>1, <1>3 DEF Holders
<1>8. Progress'
  <2>1. Done' = Done
    BY DEF Done
  <2>2. QED
    BY <1>1, <2>1 DEF Progress
<1>9. QED
  BY <1>2, <1>4, <1>5, <1>6, <1>7, <1>8

\* A walk caches the translation that the tables have now.
LEMMA WalkKeeps ==
  ASSUME IInv, NEW p \in Pages, Walk(p)
  PROVE  IInv'
<1> USE DEF IInv
<1>1. /\ L3Table(p) # 0
      /\ cached' = IF translate(p) = 0 THEN cached ELSE cached \cup {<<p, translate(p)>>}
      /\ walks' = IF WalkCache
                  THEN walks \cup {<<L1_INDEX(p), L2_INDEX(p), L3Table(p)>>} ELSE walks
      /\ UNCHANGED <<table, free, held, op, late, before>>
  BY DEF Walk
<1>2. \A q \in Pages : L3Table(q)' = L3Table(q) /\ translate(q)' = translate(q) /\ Was(q)' = Was(q)
                       /\ (Unsettled(q)' <=> Unsettled(q))
  BY <1>1, SameTables DEF Was, Unsettled
<1>3. L3Table(p) \in Frames /\ (translate(p) # 0 => translate(p) \in Frames)
      /\ L1_INDEX(p) \in Index /\ L2_INDEX(p) \in Index
  BY <1>1, WalkTypes, Indices, SizesSound DEF Sizes
<1>4. cached' \subseteq Pages \X Frames /\ walks' \subseteq Index \X Index \X Frames
  <2>1. cached \subseteq Pages \X Frames /\ walks \subseteq Index \X Index \X Frames
    BY DEF TypeOK
  <2>2. translate(p) # 0 => <<p, translate(p)>> \in Pages \X Frames
    BY <1>3
  <2>3. <<L1_INDEX(p), L2_INDEX(p), L3Table(p)>> \in Index \X Index \X Frames
    BY <1>3
  <2>4. QED
    BY <1>1, <2>1, <2>2, <2>3
<1>5. \A e \in cached' : e[1] \in Pages /\ (e \in cached \/ e[2] = translate(e[1]))
  BY <1>1, <1>4
<1>6. \A e \in late : e[1] \in Pages
  BY DEF TypeOK
<1>7. Fresh'
  BY <1>1, <1>2, <1>5 DEF Fresh
<1>8. Settled'
  <2>1. \A e \in cached' : translate(e[1])' # 0 => e[2] = translate(e[1])' \/ Unsettled(e[1])'
    BY <1>2, <1>5 DEF Settled
  <2>2. \A q \in Pages : L1_INDEX(q) = L1_INDEX(p) /\ L2_INDEX(q) = L2_INDEX(p) => L3Table(q) = L3Table(p)
    BY DEF L2Table, L3Table
  <2>3. \A w \in walks' : w \in walks \/ w = <<L1_INDEX(p), L2_INDEX(p), L3Table(p)>>
    BY <1>1
  <2>4. \A w \in walks', q \in Pages :
          w[1] = L1_INDEX(q) /\ w[2] = L2_INDEX(q) /\ translate(q)' # 0
            => w[3] = L3Table(q)' \/ Unsettled(q)'
    BY <1>2, <2>2, <2>3 DEF Settled
  <2>5. QED
    BY <1>1, <1>2, <1>6, <2>1, <2>4 DEF Settled
<1>9. QED
  BY <1>1, <1>4, <1>7, <1>8, Walked

\* A walk from a kept descriptor finds the right frame of a page that is mapped.
LEMMA WalkFromKeeps ==
  ASSUME IInv, NEW w \in walks, NEW p \in Pages, WalkFrom(w, p)
  PROVE  IInv'
<1> USE DEF IInv
<1>1. PICK f : f = table[w[3]][L3_INDEX(p)]
  OBVIOUS
<1>2. /\ w[1] = L1_INDEX(p) /\ w[2] = L2_INDEX(p) /\ f # 0
      /\ cached' = cached \cup {<<p, f>>}
      /\ UNCHANGED <<table, free, held, op, walks, late, before>>
  BY <1>1 DEF WalkFrom
<1>3. \A q \in Pages : L3Table(q)' = L3Table(q) /\ translate(q)' = translate(q) /\ Was(q)' = Was(q)
                       /\ (Unsettled(q)' <=> Unsettled(q))
  BY <1>2, SameTables DEF Was, Unsettled
<1>4. f \in Frames
  <2>1. w[3] \in Frames /\ table \in [Frames -> [Index -> Entries]]
    BY DEF TypeOK
  <2>2. table[w[3]][L3_INDEX(p)] \in Entries
    BY <2>1, Indices
  <2>3. QED
    BY <1>1, <1>2, <2>2, SizesSound DEF Sizes
<1>5. cached' \subseteq Pages \X Frames /\ walks' \subseteq Index \X Index \X Frames
  <2>1. cached \subseteq Pages \X Frames /\ walks \subseteq Index \X Index \X Frames
    BY DEF TypeOK
  <2>2. <<p, f>> \in Pages \X Frames
    BY <1>4
  <2>3. QED
    BY <1>2, <2>1, <2>2
<1>6. Fresh'
  BY <1>2 DEF Fresh
<1>7. translate(p) # 0 => f = translate(p) \/ Unsettled(p)
  BY <1>1, <1>2 DEF Settled, translate
<1>8. \A e \in cached \cup late : e[1] \in Pages
  BY DEF TypeOK
<1>9. Settled'
  <2>1. \A e \in cached' : translate(e[1])' # 0 => e[2] = translate(e[1])' \/ Unsettled(e[1])'
    BY <1>2, <1>3, <1>7, <1>8 DEF Settled
  <2>2. QED
    BY <1>2, <1>3, <1>8, <2>1 DEF Settled
<1>10. QED
  BY <1>2, <1>5, <1>6, <1>9, Walked

\* A walk reads a cleared entry late: its page is not mapped.
LEMMA WalkLateKeeps ==
  ASSUME IInv, NEW e \in late, WalkLate(e)
  PROVE  IInv'
<1> USE DEF IInv
<1>1. /\ cached' = cached \cup {e}
      /\ UNCHANGED <<table, free, held, op, walks, late, before>>
  BY DEF WalkLate
<1>2. \A q \in Pages : L3Table(q)' = L3Table(q) /\ translate(q)' = translate(q) /\ Was(q)' = Was(q)
                       /\ (Unsettled(q)' <=> Unsettled(q))
  BY <1>1, SameTables DEF Was, Unsettled
<1>3. cached' \subseteq Pages \X Frames /\ walks' \subseteq Index \X Index \X Frames
  BY <1>1 DEF TypeOK
<1>4. \A x \in cached \cup late : x[1] \in Pages
  BY DEF TypeOK
<1>5. Fresh'
  BY <1>1 DEF Fresh
<1>6. Settled'
  <2>1. \A x \in cached' : translate(x[1])' # 0 => x[2] = translate(x[1])' \/ Unsettled(x[1])'
    BY <1>1, <1>2, <1>4 DEF Settled
  <2>2. QED
    BY <1>1, <1>2, <1>4, <2>1 DEF Settled
<1>7. QED
  BY <1>1, <1>3, <1>5, <1>6, Walked

-----------------------------------------------------------------------------
(* The callers of the PMM. *)

\* When only frames that are no tables change, no walk sees it.
LEMMA Untouched ==
  ASSUME TypeOK, TablesAreATree, FramesAccountedFor,
         \A f \in Frames : f \in {L1} \cup L2Tables \cup L3Tables => table'[f] = table[f]
  PROVE  /\ \A p \in Pages : /\ L2Table(p)' = L2Table(p) /\ L3Table(p)' = L3Table(p)
                             /\ translate(p)' = translate(p)
                             /\ L3Table(p) # 0 =>
                                  (_table_is_empty(L3Table(p))' <=> _table_is_empty(L3Table(p)))
         /\ TablesAreATree' /\ L2Tables' = L2Tables /\ L3Tables' = L3Tables
<1>1. ASSUME NEW p \in Pages
      PROVE  /\ L2Table(p)' = L2Table(p) /\ L3Table(p)' = L3Table(p)
             /\ translate(p)' = translate(p)
             /\ L3Table(p) # 0 =>
                  (_table_is_empty(L3Table(p))' <=> _table_is_empty(L3Table(p)))
  <2>1. L2Table(p)' = L2Table(p)
    BY SizesSound DEF L2Table, Sizes
  <2>2. L2Table(p) # 0 => L2Table(p) \in Frames /\ L2Table(p) \in L2Tables
    BY WalkTypes, SizesSound DEF Sizes, L2Tables
  <2>3. L3Table(p)' = L3Table(p)
    BY <2>1, <2>2 DEF L3Table
  <2>4. L3Table(p) # 0 => L3Table(p) \in Frames /\ L3Table(p) \in L3Tables
    BY WalkTypes, SizesSound DEF Sizes, L3Tables
  <2>5. translate(p)' = translate(p)
    BY <2>3, <2>4 DEF translate
  <2>6. L3Table(p) # 0 => (_table_is_empty(L3Table(p))' <=> _table_is_empty(L3Table(p)))
    BY <2>3, <2>4 DEF _table_is_empty
  <2>7. QED
    BY <2>1, <2>3, <2>5, <2>6
<1>2. L2Tables' = L2Tables /\ L3Tables' = L3Tables
  BY <1>1 DEF L2Tables, L3Tables
<1>3. TablesAreATree'
  BY <1>1, <1>2 DEF TablesAreATree
<1>4. QED
  BY <1>1, <1>2, <1>3

\* The invariant survives a caller's PMM call made while another one maps.
LEMMA Elsewhere ==
  ASSUME IInv, TypeOK', FramesAccountedFor', NEW c \in Callers, op.by # c,
         \A d \in Callers \ {c} : held'[d] = held[d],
         \A d, e \in Callers : held'[d] \cap held'[e] # {} => d = e,
         \A p \in Pages : translate(p) # 0 => translate(p) \in DataFrames',
         UNCHANGED <<op, cached, walks, late, before>>,
         \A f \in Frames : f \in {L1} \cup L2Tables \cup L3Tables => table'[f] = table[f]
  PROVE  IInv'
<1> USE DEF IInv
<1>1. \A p \in Pages : /\ L2Table(p)' = L2Table(p) /\ L3Table(p)' = L3Table(p)
                       /\ translate(p)' = translate(p)
                       /\ L3Table(p) # 0 =>
                            (_table_is_empty(L3Table(p))' <=> _table_is_empty(L3Table(p)))
  BY Untouched
<1>2. TablesAreATree'
  BY Untouched
<1>3. Position'
  BY DEF Position
<1>4. op.fn # "none" => op.by \in Callers \ {c} /\ held'[op.by] = held[op.by]
  BY Free, MmuAssumption
<1>5. Page \in Pages => L2Table(Page)' = L2Table(Page) /\ L3Table(Page)' = L3Table(Page)
  <2>1. Page' = Page
    BY DEF Page
  <2>2. ASSUME NEW p \in Pages, p = Page
        PROVE  L2Table(Page)' = L2Table(Page) /\ L3Table(Page)' = L3Table(Page)
    <3>1. L2Table(Page)' = L2Table(p)' /\ L3Table(Page)' = L3Table(p)'
      BY <2>1, <2>2 DEF L2Table, L3Table
    <3>2. QED
      BY <1>1, <2>2, <3>1
  <2>3. QED
    BY <2>2
<1>6. op.pc \in {"L3", "PTE", "drop L3", "drop L2"} => Page \in Pages
  <2>1. op.pc \in {"L3", "PTE", "drop L3", "drop L2"} => op.i < op.n
    BY DEF Position
  <2>2. op.pc \in {"L3", "PTE", "drop L3", "drop L2"} => op.fn # "none"
    BY Free
  <2>3. QED
    BY <2>1, <2>2, CurrentPage
<1>7. Pointer'
  BY <1>5, <1>6 DEF Pointer
<1>8. Emptied'
  BY <1>1, <1>5, <1>6 DEF Emptied
<1>9. Holders'
  BY <1>1, <1>4 DEF Holders
<1>10. Progress'
  <2>1. Done' = Done
    BY DEF Done
  <2>2. QED
    BY <1>1, <1>4, <2>1 DEF Progress
<1>11. \A e \in cached \cup late : e[1] \in Pages
  BY DEF TypeOK
<1>12. Fresh'
  BY <1>1, <1>11 DEF Fresh, Was
<1>13. Settled'
  BY <1>1, <1>11 DEF Settled, Was, Unsettled
<1>14. QED
  BY <1>2, <1>3, <1>7, <1>8, <1>9, <1>10, <1>12, <1>13

\* alloc_frames takes free frames, fills them with data, and they have one holder.
LEMMA AllocFramesKeeps ==
  ASSUME IInv, NEW c \in Callers, NEW n, alloc_frames(c, n)
  PROVE  IInv'
<1> USE DEF IInv
<1>1. PICK S : /\ op.by # c /\ S \subseteq free
               /\ free' = free \ S
               /\ held' = [held EXCEPT ![c] = @ \cup S]
               /\ table' = [f \in Frames |-> IF f \in S THEN Junk(f) ELSE table[f]]
               /\ UNCHANGED <<op, cached, walks, late, before>>
  BY DEF alloc_frames
<1>2. free \subseteq Frames /\ held \in [Callers -> SUBSET Frames]
      /\ table \in [Frames -> [Index -> Entries]]
  BY DEF TypeOK
<1>3. /\ held' \in [Callers -> SUBSET Frames] /\ held'[c] = held[c] \cup S
      /\ \A d \in Callers \ {c} : held'[d] = held[d]
  BY <1>1, <1>2
<1>4. TypeOK'
  <2>1. \A f \in Frames : Junk(f) \in [Index -> Entries]
    BY SizesSound DEF Junk, Sizes
  <2>2. table' \in [Frames -> [Index -> Entries]]
    BY <1>1, <1>2, <2>1
  <2>3. QED
    BY <1>1, <1>2, <1>3, <2>2 DEF TypeOK
<1>5. \A f \in Frames : f \in {L1} \cup L2Tables \cup L3Tables => table'[f] = table[f]
  BY <1>1 DEF FramesAccountedFor
<1>6. DataFrames' = DataFrames \cup S
  BY <1>3 DEF DataFrames
<1>7. FramesAccountedFor'
  <2>1. L2Tables' = L2Tables /\ L3Tables' = L3Tables
    BY <1>5, Untouched
  <2>2. QED
    BY <1>1, <1>6, <2>1 DEF FramesAccountedFor
<1>8. \A d, e \in Callers : held'[d] \cap held'[e] # {} => d = e
  <2>1. \A d \in Callers : held[d] \cap S = {}
    BY <1>1 DEF FramesAccountedFor, DataFrames
  <2>2. QED
    BY <1>3, <2>1 DEF Holders
<1>9. \A p \in Pages : translate(p) # 0 => translate(p) \in DataFrames'
  BY <1>6 DEF Holders
<1>10. QED
  BY <1>1, <1>3, <1>4, <1>5, <1>7, <1>8, <1>9, Elsewhere

\* free_frame takes back a frame that no page is mapped to.
LEMMA FreeFrameKeeps ==
  ASSUME IInv, NEW c \in Callers, NEW f \in held[c] \ Used, free_frame(c, f)
  PROVE  IInv'
<1> USE DEF IInv
<1>1. /\ op.by # c
      /\ free' = free \cup {f}
      /\ held' = [held EXCEPT ![c] = @ \ {f}]
      /\ UNCHANGED <<table, op, cached, walks, late, before>>
  BY DEF free_frame
<1>2. free \subseteq Frames /\ held \in [Callers -> SUBSET Frames]
  BY DEF TypeOK
<1>3. /\ held' \in [Callers -> SUBSET Frames] /\ held'[c] = held[c] \ {f}
      /\ \A d \in Callers \ {c} : held'[d] = held[d]
  BY <1>1, <1>2
<1>4. f \in DataFrames /\ f \in Frames
  BY <1>2 DEF DataFrames
<1>5. TypeOK'
  BY <1>1, <1>2, <1>3, <1>4 DEF TypeOK
<1>6. DataFrames' = DataFrames \ {f}
  <2>1. \A d \in Callers \ {c} : f \notin held[d]
    BY DEF Holders
  <2>2. QED
    BY <1>3, <2>1 DEF DataFrames
<1>7. FramesAccountedFor'
  <2>1. L2Tables' = L2Tables /\ L3Tables' = L3Tables
    BY <1>1, SameTables
  <2>2. QED
    BY <1>1, <1>4, <1>6, <2>1 DEF FramesAccountedFor
<1>8. \A d, e \in Callers : held'[d] \cap held'[e] # {} => d = e
  BY <1>3 DEF Holders
<1>9. \A p \in Pages : translate(p) # 0 => translate(p) \in DataFrames'
  BY <1>6 DEF Holders, Used
<1>10. QED
  BY <1>1, <1>3, <1>5, <1>7, <1>8, <1>9, Elsewhere

-----------------------------------------------------------------------------
(* The invariant holds in every reachable state. *)

\* After mmu_init l1_table is empty.
LEMMA StartsEmpty ==
  ASSUME Init, NEW p \in Pages
  PROVE  L2Table(p) = 0 /\ L3Table(p) = 0 /\ translate(p) = 0
<1>1. \A f \in Frames, i \in Index : table[f][i] = 0
  BY DEF Init, NoTable
<1>2. QED
  BY <1>1, Indices, SizesSound DEF L2Table, L3Table, translate, Sizes

\* The invariant holds after mmu_init.
LEMMA InitSound == Init => IInv
<1> SUFFICES ASSUME Init PROVE IInv
  OBVIOUS
<1>1. Sizes
  BY SizesSound
<1>3. \A p \in Pages : L2Table(p) = 0 /\ L3Table(p) = 0 /\ translate(p) = 0
  BY StartsEmpty
<1>4. L2Tables = {} /\ L3Tables = {} /\ DataFrames = {}
  BY <1>3 DEF L2Tables, L3Tables, DataFrames, Init
<1>5. /\ op \in Ops /\ op = Idle /\ op.by = Nobody /\ op.fn = "none" /\ op.pc = "none"
      /\ op.t = L1 /\ op.n = 0 /\ op.i = 0
  BY <1>1 DEF Init, Idle, Ops, Sizes
<1>6. TypeOK
  <2>1. NoTable \in [Index -> Entries]
    BY <1>1 DEF NoTable, Sizes
  <2>2. QED
    BY <1>1, <1>5, <2>1 DEF Init, TypeOK, Ops, Sizes
<1>7. TablesAreATree /\ FramesAccountedFor
  BY <1>1, <1>3, <1>4 DEF Init, TablesAreATree, FramesAccountedFor, Sizes
<1>8. Position
  BY <1>5 DEF Position
<1>9. Pointer /\ Emptied /\ Progress
  BY <1>3, <1>5 DEF Pointer, Emptied, Progress
<1>10. Holders
  BY <1>3, <1>5 DEF Init, Holders
<1>11. Fresh /\ Settled
  BY DEF Init, Fresh, Settled
<1>12. QED
  BY <1>6, <1>7, <1>8, <1>9, <1>10, <1>11 DEF IInv

\* The invariant survives a step that changes nothing.
LEMMA StutterKeeps ==
  ASSUME IInv, UNCHANGED vars
  PROVE  IInv'
<1> USE DEF IInv, vars
<1>1. \A p \in Pages : /\ L2Table(p)' = L2Table(p) /\ L3Table(p)' = L3Table(p)
                       /\ translate(p)' = translate(p) /\ Was(p)' = Was(p)
                       /\ (Unsettled(p)' <=> Unsettled(p))
  BY SameTables DEF Was, Unsettled
<1>2. \A e \in cached \cup late : e[1] \in Pages
  BY DEF TypeOK
<1>3. Fresh'
  BY <1>1, <1>2 DEF Fresh
<1>4. Settled'
  BY <1>1, <1>2 DEF Settled
<1>5. QED
  BY <1>3, <1>4, Walked DEF TypeOK

\* The invariant survives every call that the kernel's callers make.
LEMMA CallKeeps ==
  ASSUME IInv, NEW c \in Callers, Call(c)
  PROVE  IInv'
<1>1. CASE \E r \in Ranges, phys \in Frames : MayMap(c, r[1], phys, r[2]) /\ map(c, r[1], phys, r[2])
  BY <1>1, MapKeeps
<1>2. CASE \E r \in Ranges : MayUnmap(c, r[1], r[2]) /\ unmap(c, r[1], r[2])
  BY <1>2, UnmapKeeps
<1>3. CASE \E r \in Ranges : alloc_frames(c, r[2])
  BY <1>3, AllocFramesKeeps
<1>4. CASE \E f \in held[c] \ Used : free_frame(c, f)
  BY <1>4, FreeFrameKeeps
<1>5. QED
  BY <1>1, <1>2, <1>3, <1>4 DEF Call

\* _get_or_alloc_table allocates a table at either level.
LEMMA TableAllocatedKeeps ==
  ASSUME IInv, NEW c \in Callers, TableAllocated(c)
  PROVE  IInv'
<1>1. op.pc \in {"L2", "L3"}
  BY DEF TableAllocated, LooksUp
<1>2. QED
  BY <1>1, L2Allocated, L3Allocated

\* The invariant survives every step: calls, the holder's steps and the walks.
LEMMA NextKeeps ==
  ASSUME IInv, [Next]_vars
  PROVE  IInv'
<1>1. ASSUME NEW c \in Callers, Step(c) PROVE IInv'
  BY <1>1, TableFoundKeeps, TableAllocatedKeeps, TableMissingKeeps, WritePteKeeps,
     TlbiMappedKeeps, TableAbsentKeeps, ClearPteKeeps, DropL3Keeps, KeepL3Keeps,
     DropL2Keeps, KeepL2Keeps, TlbiClearedKeeps, ReturnKeeps DEF Step
<1>2. ASSUME Hardware PROVE IInv'
  BY <1>2, WalkKeeps, WalkFromKeeps, WalkLateKeeps DEF Hardware
<1>3. QED
  BY <1>1, <1>2, CallKeeps, StutterKeeps DEF Next

\* IInv is an invariant of map, unmap, the walkers and the PMM's callers.
THEOREM Inductive == Spec => []IInv
<1>1. Init => IInv
  BY InitSound
<1>2. IInv /\ [Next]_vars => IInv'
  BY NextKeeps
<1>3. QED
  BY <1>1, <1>2, PTL DEF Spec

-----------------------------------------------------------------------------
(* The properties that the runs check. *)

\* Whatever map and unmap do, the rollback of a map that ran out of frames
\* included, the tables form a tree, every frame has one owner, and no empty L3
\* table is left behind when mmu_lock is free.
THEOREM TablesAreSound == Spec => []TablesSound
<1>1. IInv => EmptyTablesFreed
  <2> SUFFICES ASSUME IInv, op.by = Nobody, NEW p \in Pages, L3Table(p) # 0
               PROVE  ~_table_is_empty(L3Table(p))
    BY DEF EmptyTablesFreed, L3Tables
  <2>1. op.pc = "none"
    BY Free DEF IInv
  <2>2. QED
    BY <2>1 DEF IInv, Emptied
<1>2. IInv => TablesSound
  BY <1>1 DEF IInv, TablesSound
<1>3. QED
  BY <1>2, Inductive, PTL

\* Where walkers keep no descriptors and see stores at once, a translation that
\* a core keeps is of a frame with a holder, and is current once the lock is free.
LEMMA FreshIsCurrent ==
  ASSUME IInv, ~WalkCache, ~StoreBuffer
  PROVE  NoStaleTranslation
<1> SUFFICES ASSUME NEW e \in cached
             PROVE  /\ e[2] \notin free
                    /\ op.by = Nobody => e[2] = translate(e[1])
  BY DEF NoStaleTranslation
<1> USE DEF IInv
<1>1. e[1] \in Pages /\ e[2] \in Frames /\ e[2] # 0
  BY SizesSound DEF TypeOK, Sizes
<1>2. CASE e[2] = translate(e[1])
  <2>1. e[2] \in DataFrames
    BY <1>1, <1>2 DEF Holders
  <2>2. QED
    BY <1>2, <2>1 DEF FramesAccountedFor
<1>3. CASE /\ op.fn \in {"unmap", "rollback"}
           /\ e[1] \in RangeOf(op.va, op.n) /\ e[2] = Was(e[1])
  <2>1. op.by # Nobody /\ op.by \in Callers
    BY <1>3, Free
  <2>2. CASE op.fn = "unmap"
    <3>1. e[2] \in held[op.by]
      BY <1>1, <1>3, <2>2 DEF Progress, Was
    <3>2. QED
      BY <2>1, <3>1 DEF FramesAccountedFor, DataFrames
  <2>3. CASE op.fn = "rollback"
    <3>1. op.va \in Nat /\ op.n \in Nat /\ op.phys \in Nat /\ e[1] \in Nat
      BY <1>1, SizesSound DEF TypeOK, Sizes
    <3>2. op.phys + (e[1] - op.va) \in op.phys..(op.phys + op.n - 1)
      BY <1>3, <3>1 DEF RangeOf
    <3>3. e[2] \in held[op.by]
      BY <1>3, <2>3, <3>2 DEF Holders, Was
    <3>4. QED
      BY <2>1, <3>3 DEF FramesAccountedFor, DataFrames
  <2>4. QED
    BY <1>3, <2>2, <2>3
<1>4. QED
  BY <1>2, <1>3 DEF Fresh

\* Where walkers keep no descriptors and see stores at once, the invalidation at
\* the end of map and of _unmap_locked suffices: when mmu_lock is free no core
\* translates a page otherwise than the tables do, and at no time to a free frame.
THEOREM NoStaleTranslationHolds ==
  ~WalkCache /\ ~StoreBuffer => (Spec => []NoStaleTranslation)
<1>1. IInv /\ ~WalkCache /\ ~StoreBuffer => NoStaleTranslation
  BY FreshIsCurrent
<1>2. CASE ~WalkCache /\ ~StoreBuffer
  <2>1. IInv => NoStaleTranslation
    BY <1>1, <1>2
  <2>2. QED
    BY <2>1, Inductive, PTL
<1>3. QED
  BY <1>2

\* Whatever the walkers keep and however late they see a store, when mmu_lock is
\* free no core translates a mapped page to anything but its frame.
THEOREM MappedPagesTranslateHolds == Spec => []MappedPagesTranslate
<1>1. IInv => MappedPagesTranslate
  <2> SUFFICES ASSUME IInv, op.by = Nobody, NEW e \in cached, translate(e[1]) # 0
               PROVE  e[2] = translate(e[1])
    BY DEF MappedPagesTranslate
  <2>1. op.fn = "none"
    BY Free DEF IInv
  <2>2. QED
    BY <2>1 DEF IInv, Settled, Unsettled
<1>2. QED
  BY <1>1, Inductive, PTL

\* The mapping that whoever takes mmu_lock sees.
Seen == IF op.by = Nobody THEN Mapping ELSE before

-----------------------------------------------------------------------------
(* The refinement of AddressSpace. *)

\* No step but the end of an operation changes the mapping that the next holder
\* of mmu_lock sees; neither does unmap's early return.
LEMMA Unseen ==
  ASSUME IInv, [Next]_vars, ~\E c \in Callers : Return(c)
  PROVE  Seen' = Seen
<1> USE DEF IInv
<1>1. ASSUME NEW c \in Callers, NEW r \in Ranges, NEW phys \in Frames, map(c, r[1], phys, r[2])
      PROVE  Seen' = Seen
  BY <1>1, MmuAssumption DEF map, Seen
<1>2. ASSUME NEW c \in Callers, NEW r \in Ranges, unmap(c, r[1], r[2])
      PROVE  Seen' = Seen
  BY <1>2, MmuAssumption DEF unmap, Seen
<1>3. ASSUME NEW c \in Callers, NEW n, alloc_frames(c, n)
      PROVE  Seen' = Seen
  <2>1. PICK S : /\ S \subseteq free
                 /\ table' = [f \in Frames |-> IF f \in S THEN Junk(f) ELSE table[f]]
                 /\ op' = op /\ before' = before
    BY <1>3 DEF alloc_frames
  <2>2. \A f \in Frames : f \in {L1} \cup L2Tables \cup L3Tables => table'[f] = table[f]
    BY <2>1 DEF FramesAccountedFor
  <2>3. \A p \in Pages : translate(p)' = translate(p)
    BY <2>2, Untouched
  <2>4. Mapping' = Mapping
    BY <2>3 DEF Mapping
  <2>5. QED
    BY <2>1, <2>4 DEF Seen
<1>4. ASSUME table' = table, op' = op, before' = before
      PROVE  Seen' = Seen
  BY <1>4, SameTables DEF Seen
<1>5. ASSUME NEW c \in Callers, op.by = c, op'.by = c, before' = before
      PROVE  Seen' = Seen
  BY <1>5, MmuAssumption DEF Seen
<1>6. op \in Ops
  BY DEF TypeOK, Ops
<1>7. ASSUME NEW c \in Callers, Call(c) PROVE Seen' = Seen
  <2>1. CASE \E f \in held[c] \ Used : free_frame(c, f)
    BY <1>4, <2>1 DEF free_frame
  <2>2. QED
    BY <1>1, <1>2, <1>3, <1>7, <2>1 DEF Call
<1>8. ASSUME NEW c \in Callers, TableAbsent(c) PROVE Seen' = Seen
  <2>1. /\ Clears(c, "clear") /\ op.i < op.n /\ L3Table(Page) = 0
        /\ op' = Idle /\ table' = table
    BY <1>8 DEF TableAbsent
  <2>2. PICK p \in Pages : /\ p = Page /\ p \in RangeOf(op.va, op.n) /\ p = op.va + op.i
                           /\ op.fn \in {"unmap", "rollback"} /\ op.pc = "clear" /\ op.by = c
                           /\ op.va \in Nat /\ op.i \in Nat /\ op.n \in Nat /\ op.phys \in Nat
    BY <2>1, Clearing
  <2>3. op.fn = "unmap" /\ \A q \in RangeOf(op.va, op.n) : before[q] = 0
    BY <1>8, NothingMapped
  <2>4. \A q \in op.va..(op.va + op.i - 1) : q \in RangeOf(op.va, op.n)
    BY <2>1, <2>2 DEF RangeOf
  <2>5. \A q \in Pages : translate(q) = before[q]
    BY <2>2, <2>3, <2>4 DEF Progress, Done
  <2>6. Mapping = before
    BY <2>5 DEF Mapping, TypeOK
  <2>7. op.by # Nobody /\ op'.by = Nobody
    BY <2>1, <2>2, MmuAssumption DEF Idle
  <2>8. Mapping' = Mapping
    BY <2>1, SameTables
  <2>9. QED
    BY <2>6, <2>7, <2>8 DEF Seen
<1>9. ASSUME NEW c \in Callers, Step(c), ~Return(c), ~TableAbsent(c) PROVE Seen' = Seen
  <2>1. op.by = c /\ before' = before
    BY <1>9 DEF Step, TableFound, TableAllocated, TableMissing, WritePte, TlbiMapped, LooksUp,
                ClearPte, DropL3, KeepL3, DropL2, KeepL2, TlbiCleared, Clears
  <2>2. \A t : Descend(t).by = op.by
    BY <1>6 DEF Descend, Ops
  <2>3. NextPage.by = op.by
    BY <1>6 DEF NextPage, Ops
  <2>4. op'.by = op.by
    <3>1. CASE TableFound(c) \/ TableAllocated(c)
      BY <2>2, <3>1 DEF TableFound, TableAllocated
    <3>2. CASE DropL2(c) \/ KeepL2(c)
      BY <2>3, <3>2 DEF DropL2, KeepL2
    <3>3. CASE TableMissing(c) \/ WritePte(c) \/ TlbiMapped(c)
      BY <1>6, <3>3 DEF TableMissing, WritePte, TlbiMapped, Ops
    <3>4. CASE ClearPte(c) \/ DropL3(c) \/ KeepL3(c) \/ TlbiCleared(c)
      BY <1>6, <3>4 DEF ClearPte, DropL3, KeepL3, TlbiCleared, Ops
    <3>5. QED
      BY <1>9, <3>1, <3>2, <3>3, <3>4 DEF Step
  <2>5. QED
    BY <1>5, <2>1, <2>4
<1>10. ASSUME Hardware PROVE Seen' = Seen
  BY <1>4, <1>10 DEF Hardware, Walk, WalkFrom, WalkLate
<1>11. ASSUME UNCHANGED vars PROVE Seen' = Seen
  BY <1>4, <1>11 DEF vars
<1>12. QED
  BY <1>7, <1>8, <1>9, <1>10, <1>11 DEF Next

\* An operation that ends has mapped its whole range, unmapped its whole range,
\* or, rolled back, left the mapping as it was.
LEMMA Committed ==
  ASSUME IInv, NEW c \in Callers, Return(c)
  PROVE  Space!Next \/ Seen' = Seen
<1> USE DEF IInv
<1>1. op.by = c /\ op.pc = "dsb" /\ op' = Idle /\ table' = table
  BY DEF Return
<1>2. Seen = before /\ Seen' = Mapping
  <2>1. op.by # Nobody /\ op'.by = Nobody
    BY <1>1, MmuAssumption DEF Idle
  <2>2. Mapping' = Mapping
    BY <1>1, SameTables
  <2>3. QED
    BY <2>1, <2>2 DEF Seen
<1>3. Done = op.n /\ op.n \in Nat /\ op.va \in Nat
  <2>1. op.i = op.n
    BY <1>1 DEF Position
  <2>2. QED
    BY <1>1, <2>1, SizesSound DEF Done, TypeOK, Sizes
<1>4. before = [p \in Pages |-> before[p]]
  BY DEF TypeOK
<1>5. CASE op.fn = "map"
  <2>1. \A p \in Pages : translate(p) = IF p \in RangeOf(op.va, op.n)
                                        THEN op.phys + (p - op.va) ELSE before[p]
    BY <1>3, <1>5 DEF Progress, RangeOf
  <2>2. Mapping = [p \in Pages |-> IF p \in RangeOf(op.va, op.n)
                                   THEN op.phys + (p - op.va) ELSE before[p]]
    BY <2>1 DEF Mapping
  <2>3. \A p \in RangeOf(op.va, op.n) : before[p] = 0
    BY <1>5 DEF Progress
  <2>4. Space!Map(op.va, op.phys, op.n)
    BY <1>2, <2>2, <2>3 DEF Space!Map, Space!Range, Seen, RangeOf
  <2>5. PICK r \in Ranges : r = <<op.va, op.n>>
    BY <1>5 DEF Position
  <2>6. op.phys \in Frames
    BY <1>5 DEF Position
  <2>7. Space!Map(r[1], op.phys, r[2])
    BY <2>4, <2>5
  <2>8. QED
    BY <2>6, <2>7 DEF Space!Next
<1>6. CASE op.fn = "unmap"
  <2>1. \A p \in Pages : translate(p) = IF p \in RangeOf(op.va, op.n) THEN 0 ELSE before[p]
    BY <1>3, <1>6 DEF Progress, RangeOf
  <2>2. Mapping = [p \in Pages |-> IF p \in RangeOf(op.va, op.n) THEN 0 ELSE before[p]]
    BY <2>1 DEF Mapping
  <2>3. Space!Unmap(op.va, op.n)
    BY <1>2, <2>2 DEF Space!Unmap, Space!Range, Seen, RangeOf
  <2>4. PICK r \in Ranges : r = <<op.va, op.n>>
    BY <1>6 DEF Position
  <2>5. Space!Unmap(r[1], r[2])
    BY <2>3, <2>4
  <2>6. QED
    BY <2>5 DEF Space!Next
<1>7. CASE op.fn = "rollback"
  <2>1. (op.va + op.n)..(op.va + op.n - 1) = {}
    BY <1>3
  <2>2. \A p \in Pages : translate(p) = before[p]
    BY <1>3, <1>7, <2>1 DEF Progress
  <2>3. Mapping = before
    BY <1>4, <2>2 DEF Mapping
  <2>4. QED
    BY <1>2, <2>3
<1>8. op.fn \in {"map", "unmap", "rollback"}
  BY <1>1, Free, MmuAssumption DEF TypeOK
<1>9. QED
  BY <1>5, <1>6, <1>7, <1>8

\* map and unmap with their tables, invalidations and rollback implement
\* AddressSpace: the mapping changes by whole ranges and at once.
THEOREM Refinement == Spec => IsAddressSpace
<1>1. Init => Space!Init
  <2> SUFFICES ASSUME Init PROVE Space!Init
    OBVIOUS
  <2>1. \A p \in Pages : translate(p) = 0
    BY StartsEmpty
  <2>2. op.by = Nobody
    BY DEF Init, Idle
  <2>3. QED
    BY <2>1, <2>2 DEF Space!Init, Mapping
<1>2. IInv /\ [Next]_vars => [Space!Next]_Seen
  BY Unseen, Committed
<1>3. Space!Init /\ [][Space!Next]_Seen => Space!Spec
  BY PTL DEF Space!Spec, Seen
<1>4. QED
  BY <1>1, <1>2, <1>3, Inductive, PTL DEF Spec, IsAddressSpace
=============================================================================
