---------------------------- MODULE FatFsProofs -----------------------------
(***************************************************************************)
(* What ff.c keeps true of a volume for every size of it, every sequence   *)
(* of commands and every number of failures and power cuts: the count of   *)
(* free clusters, the two FATs, and what a synced reply promises.          *)
(*                                                                         *)
(* The argument goes up the calls.  Sees relates a machine to the FAT that *)
(* the library sees through its window; the lemmas named ...Sees say what  *)
(* each function does to that FAT and its count.  Good hides which FAT it  *)
(* is; the lemmas named ...Keeps say that a function keeps it, with a      *)
(* clean window where it only reads or has synced.  A loop is the function *)
(* of its turns (the lemmas ...Runs), and Upto carries what a turn keeps   *)
(* to its end.  The lemmas ...Safe are the programs of the commands, the   *)
(* lemmas ...Step the steps of Next, which keep the invariant IInv.        *)
(***************************************************************************)
EXTENDS FatFs, FiniteSetTheorems, WellFoundedInduction, TLAPS

-----------------------------------------------------------------------------
(* Numbers and places. *)

\* Induction on the natural numbers, in the form a set of them is given.
LEMMA Induction ==
  ASSUME NEW T, T \subseteq Nat, 0 \in T, \A n \in T : n + 1 \in T
  PROVE  T = Nat
<1> DEFINE R == OpToRel(<, Nat)
<1> DEFINE U == Nat \ T
<1>1. IsWellFoundedOn(R, Nat)
  BY NatLessThanWellFounded
<1>2. \A x, y \in Nat : <<y, x>> \in R <=> y < x
  BY DEF OpToRel
<1> HIDE DEF R
<1>3. ASSUME U # {} PROVE FALSE
  <2>1. PICK x \in U : \A y \in U : ~(<<y, x>> \in R)
    BY <1>1, <1>3, WFMin
  <2>2. x \in Nat /\ x # 0 /\ x - 1 \in Nat /\ x - 1 < x
    OBVIOUS
  <2>3. x - 1 \in T
    BY <1>2, <2>1, <2>2
  <2>4. (x - 1) + 1 = x
    BY <2>2
  <2>5. QED
    BY <2>3, <2>4
<1>4. QED
  BY <1>3

\* Where the window can stand, and where a DIR or a file points.
FatSectors  == 2..(1 + FSize)
DataSectors == DataBase..(DataBase + NFatEnt - 3)
Reach       == {NoSector, 0, 1} \cup FatSectors \cup DataSectors
Places      == {0} \cup DataSectors

\* A quotient of a multiple and a remainder.
LEMMA DivMod ==
  ASSUME NEW n \in Int, NEW w \in Nat \ {0}
  PROVE  /\ n \div w \in Int
         /\ n % w \in 0..(w - 1)
         /\ n = w * (n \div w) + (n % w)
<1>1. n \div w \in Int /\ n % w \in 0..(w - 1)
  OBVIOUS
<1>2. n = w * (n \div w) + (n % w)
  BY SMTT(30)
<1>3. QED
  BY <1>1, <1>2

\* Multiples are as far apart as their factor.
LEMMA MultipleBelow ==
  ASSUME NEW w \in Nat \ {0}, NEW a \in Int, NEW b \in Int, w * a < w * b + w
  PROVE  a <= b
<1> SUFFICES ASSUME a >= b + 1 PROVE FALSE
  OBVIOUS
<1>1. w * a >= w * (b + 1)
  OBVIOUS
<1>2. w * (b + 1) = w * b + w
  OBVIOUS
<1>3. QED
  BY <1>1, <1>2

\* The layout: FATs of one sector and more, and each cluster's entry in one.
LEMMA Layout ==
  /\ NFatEnt \in Nat /\ NFatEnt > 3
  /\ FSize \in Nat /\ FSize >= 1
  /\ DataBase = 2 + 2 * FSize
  /\ Clusters = 2..(NFatEnt - 1)
  /\ \A c \in 0..(NFatEnt - 1) : FatSector(c) \in FatSectors /\ c \in Held(FatSector(c))
<1>1. NFatEnt \in Nat /\ NFatEnt > 3 /\ EPF \in Nat \ {0}
  BY FatFsAssumption DEF EOC
<1> DEFINE top == NFatEnt + EPF - 1
           q == top \div EPF
<1>2. q \in Int /\ top % EPF \in 0..(EPF - 1) /\ top = EPF * q + (top % EPF) /\ top \in Int
  <2>1. top \in Int
    BY <1>1
  <2> HIDE DEF top
  <2>2. QED
    BY <1>1, <2>1, DivMod
<1>3. ASSUME NEW c \in 0..(NFatEnt - 1) PROVE c \div EPF \in Int /\ 0 <= c \div EPF /\ c \div EPF < q
  <2> DEFINE d == c \div EPF
  <2>1. d \in Int /\ c % EPF \in 0..(EPF - 1) /\ c = EPF * d + (c % EPF)
    BY <1>1, DivMod
  <2> HIDE DEF d, q
  <2>2. EPF * 0 < EPF * d + EPF
    BY <1>1, <2>1
  <2>3. 0 <= d
    BY <1>1, <2>1, <2>2, MultipleBelow
  <2>4. EPF * (d + 1) = EPF * d + EPF
    BY <1>1, <2>1
  <2>5. EPF * d <= NFatEnt - 1
    BY <1>1, <2>1
  <2>6. NFatEnt - 1 = (EPF * q + (top % EPF)) - EPF
    BY <1>1, <1>2
  <2>7. EPF * q \in Int /\ EPF * d \in Int
    BY <1>1, <1>2, <2>1
  <2>8. EPF * (d + 1) < EPF * q + EPF
    BY <1>1, <1>2, <2>1, <2>4, <2>5, <2>6, <2>7
  <2>9. d + 1 <= q
    BY <1>1, <1>2, <2>1, <2>8, MultipleBelow
  <2>10. QED
    BY <1>2, <2>1, <2>3, <2>9 DEF d
<1>4. q >= 1
  <2>1. 0 \in 0..(NFatEnt - 1)
    BY <1>1
  <2>2. 0 \div EPF \in Int /\ 0 <= 0 \div EPF /\ 0 \div EPF < q
    BY <1>3, <2>1
  <2> HIDE DEF q
  <2>3. QED
    BY <1>2, <2>2
<1>5. FSize = q
  BY DEF FSize
<1> HIDE DEF q
<1>6. ASSUME NEW c \in 0..(NFatEnt - 1) PROVE FatSector(c) \in FatSectors /\ c \in Held(FatSector(c))
  <2>1. c \div EPF \in Int /\ 0 <= c \div EPF /\ c \div EPF < q
    BY <1>3
  <2>2. QED
    BY <1>2, <1>5, <2>1 DEF FatSector, FatBase, FatSectors, Held
<1>7. QED
  BY <1>1, <1>2, <1>4, <1>5, <1>6 DEF DataBase, FatBase, Clusters

\* The parts of the medium do not overlap.
LEMMA Parted ==
  /\ Sectors = 0..(DataBase + NFatEnt - 3)
  /\ Reach \subseteq Sectors \cup {NoSector} /\ NoSector = -1 /\ Places \subseteq Reach
  /\ FatSectors \subseteq Reach /\ DataSectors \subseteq Sectors
  /\ \A s \in Sectors : InFat(s) <=> s \in FatSectors
  /\ \A s \in FatSectors : s + FSize \in Sectors /\ s + FSize \notin Reach /\ InFat(s) /\ s > 1
  /\ \A s \in DataSectors : s > 1 /\ ~InFat(s) /\ ~InFat(s - FSize) /\ s >= DataBase
  /\ ~InFat(NoSector) /\ ~InFat(0) /\ ~InFat(1)
BY Layout DEF Sectors, Reach, NoSector, Places, FatSectors, DataSectors, InFat, FatBase

\* A cluster's sector is a data sector, or 0 for a number that names none.
LEMMA SectorOf ==
  /\ \A c : clst2sect(c) \in Places
  /\ \A c \in Clusters : clst2sect(c) \in DataSectors
  /\ \A c : clst2sect(c) # 0 => c \in Clusters /\ clst2sect(c) \in DataSectors
BY Layout DEF clst2sect, Places, DataSectors, Clusters

-----------------------------------------------------------------------------
(* What a machine is known to be. *)

Stretches == {"stretch", "rename", "truncate", "erase"}

FsForm(f) ==
  f \in [mounted : BOOLEAN, win : {f.win}, winsect : Reach, wflag : BOOLEAN,
         free : Counts, last : Lasts, fsi : 0..2, cdir : {f.cdir}]
DiskForm(d) == DOMAIN d = Sectors /\ \A s \in Sectors : Holds(s, d[s])
WindowForm(f) == f.winsect # NoSector => Holds(f.winsect, f.win)
Form(m) ==
  /\ m \in [disk : {m.disk}, fs : {m.fs}, n : Nat, fault : {m.fault}, cut : BOOLEAN,
            crit : SUBSET Stretches, synced : {m.synced}]
  /\ FsForm(m.fs) /\ DiskForm(m.disk) /\ WindowForm(m.fs)

\* The entry of a cluster as the library sees it.
FatOf(d, f, c) ==
  IF f.winsect = FatSector(c) THEN f.win.fat[c] ELSE d[FatSector(c)].fat[c]

\* A clean FAT sector in the window is the medium's, and the second FAT is the
\* first but for the sector whose changes are in the window.
Coherent(d, f) ==
  /\ f.winsect \in FatSectors /\ ~f.wflag => f.win = d[f.winsect]
  /\ \A s \in FatSectors : Mirrored(d, s) \/ (f.wflag /\ f.winsect = s)

\* The machine of a command that runs in the context z = <<exact, synced,
\* mounted>>: when nothing failed since the volume was prepared, exact, the
\* FAT it sees is t and its count of free clusters is u.  q: "clean" when the window
\* holds nothing that the medium does not, "any" when it may.
Sees(m, z, q, t, u) ==
  /\ Form(m) /\ m.synced = z[2] /\ m.fs.mounted = z[3]
  /\ q = "clean" => ~m.fs.wflag
  /\ z[1] => /\ m.fault = 0 /\ ~m.cut
             /\ Coherent(m.disk, m.fs)
             /\ \A c \in Clusters : FatOf(m.disk, m.fs, c) = t[c]
             /\ m.fs.free = u

\* The count is exact, or the code knows that it has none.
Free(t) == {c \in Clusters : t[c] = 0}
Counted(t, u) == u \in {Unknown, Cardinality(Free(t))}
With(t, c, v) == [i \in Clusters |-> IF i = c THEN v ELSE t[i]]
Good(m, z, q) == \E t, u : Counted(t, u) /\ Sees(m, z, q, t, u)

\* A reply of the code, not the end of one of its loops.
Kept(a, z, q) == Good(a.m, z, q) /\ a.r # "DONE"

-----------------------------------------------------------------------------
(* The disk and the window. *)

\* Counting a disk operation changes nothing else, and none fails in an exact context.
LEMMA TickSees ==
  ASSUME NEW m, NEW z, NEW q, NEW t, NEW u, Sees(m, z, q, t, u)
  PROVE  /\ Sees(Tick(m), z, q, t, u)
         /\ Tick(m).fs = m.fs /\ Tick(m).disk = m.disk
         /\ z[1] => ~Fails(Tick(m))
<1>1. /\ Form(Tick(m)) /\ Tick(m).fs = m.fs /\ Tick(m).disk = m.disk /\ Tick(m).synced = m.synced
      /\ Tick(m).fault = m.fault /\ Tick(m).cut = m.cut /\ Tick(m).n = m.n + 1 /\ m.n \in Nat
  BY DEF Sees, Form, Tick
<1>2. QED
  BY <1>1 DEF Sees, Fails

\* A read leaves the machine as it is.
LEMMA ReadSees ==
  ASSUME NEW m, NEW z, NEW q, NEW t, NEW u, Sees(m, z, q, t, u), NEW s
  PROVE  LET a == disk_read(m, s) IN
         /\ Sees(a.m, z, q, t, u)
         /\ a.m.fs = m.fs /\ a.m.disk = m.disk
         /\ a.r \in {"OK", "DISK_ERR"} /\ (z[1] => a.r = "OK")
         /\ a.r = "OK" => a.x = m.disk[s]
BY TickSees DEF disk_read, Ok, Err

\* A write changes one sector, or fails and changes none.
LEMMA WriteForm ==
  ASSUME NEW m, Form(m), NEW s \in Sectors, NEW v, Holds(s, v)
  PROVE  LET a == disk_write(m, s, v) IN
         /\ Form(a.m) /\ a.m.fs = m.fs /\ a.m.synced = m.synced
         /\ a.m.fault = m.fault /\ a.m.cut = m.cut
         /\ \/ a.r = "OK" /\ a.m.disk = [m.disk EXCEPT ![s] = v]
            \/ a.r = "DISK_ERR" /\ a.m.disk = m.disk /\ Fails(Tick(m))
<1> DEFINE k == Tick(m)
           w == [k EXCEPT !.disk[s] = v]
<1>1. /\ Form(k) /\ k.fs = m.fs /\ k.disk = m.disk /\ k.synced = m.synced
      /\ k.fault = m.fault /\ k.cut = m.cut
  BY DEF Form, Tick
<1> HIDE DEF k
<1>2. /\ w.fs = k.fs /\ w.synced = k.synced /\ w.fault = k.fault /\ w.cut = k.cut
      /\ w.disk = [k.disk EXCEPT ![s] = v]
      /\ w \in [disk : {w.disk}, fs : {w.fs}, n : Nat, fault : {w.fault}, cut : BOOLEAN,
                crit : SUBSET Stretches, synced : {w.synced}]
  BY <1>1 DEF Form
<1>3. DiskForm(w.disk)
  BY <1>1, <1>2 DEF Form, DiskForm
<1>4. Form(w)
  BY <1>1, <1>2, <1>3 DEF Form
<1> HIDE DEF w
<1>5. disk_write(m, s, v) = IF Fails(k) THEN Err(k, "DISK_ERR", 0) ELSE Ok(w, 0)
  BY DEF disk_write, k, w
<1>6. k = Tick(m)
  BY DEF k
<1>7. QED
  BY <1>1, <1>2, <1>4, <1>5, <1>6 DEF Ok, Err

\* What is written beside the FATs changes neither.
LEMMA BesideSees ==
  ASSUME NEW m, NEW z, NEW q, NEW t, NEW u, Sees(m, z, q, t, u),
         NEW s \in (Reach \ FatSectors) \ {NoSector}, NEW v, Holds(s, v)
  PROVE  LET a == disk_write(m, s, v) IN
         /\ Sees(a.m, z, q, t, u) /\ a.m.fs = m.fs
         /\ a.r \in {"OK", "DISK_ERR"} /\ (z[1] => a.r = "OK")
         /\ a.r = "OK" => a.m.disk[s] = v
<1> DEFINE a == disk_write(m, s, v)
<1>1. s \in Sectors /\ Holds(s, v) /\ Form(m)
  BY Parted DEF Sees
<1>2. /\ Form(a.m) /\ a.m.fs = m.fs /\ a.m.synced = m.synced
      /\ a.m.fault = m.fault /\ a.m.cut = m.cut
      /\ \/ a.r = "OK" /\ a.m.disk = [m.disk EXCEPT ![s] = v]
         \/ a.r = "DISK_ERR" /\ a.m.disk = m.disk /\ Fails(Tick(m))
  BY <1>1, WriteForm
<1> HIDE DEF a
<1>3. \A i \in FatSectors : i \in Sectors /\ i + FSize \in Sectors /\ i # s /\ i + FSize # s
  BY Layout, Parted
<1>4. DOMAIN m.disk = Sectors /\ (z[1] => ~Fails(Tick(m)))
  <2>1. DOMAIN m.disk = Sectors
    BY <1>1 DEF Form, DiskForm
  <2>2. QED
    BY <2>1, TickSees
<1>5. \A i \in FatSectors : a.m.disk[i] = m.disk[i] /\ a.m.disk[i + FSize] = m.disk[i + FSize]
  BY <1>2, <1>3, <1>4
<1>6. z[1] => Coherent(a.m.disk, a.m.fs)
  BY <1>2, <1>5 DEF Sees, Coherent, Mirrored
<1>7. \A c \in Clusters : FatOf(a.m.disk, a.m.fs, c) = FatOf(m.disk, m.fs, c)
  BY <1>2, <1>5, Layout DEF FatOf
<1>8. QED
  BY <1>1, <1>2, <1>4, <1>6, <1>7 DEF Sees, a

\* Setting fields of the FATFS object leaves the machine in form.
LEMMA FsField ==
  ASSUME NEW m, Form(m), NEW f, FsForm(f), WindowForm(f), NEW k, k = [m EXCEPT !.fs = f]
  PROVE  /\ Form(k) /\ k.fs = f /\ k.disk = m.disk /\ k.synced = m.synced
         /\ k.fault = m.fault /\ k.cut = m.cut
<1>1. /\ k.fs = f /\ k.disk = m.disk /\ k.synced = m.synced /\ k.fault = m.fault /\ k.cut = m.cut
      /\ k \in [disk : {k.disk}, fs : {k.fs}, n : Nat, fault : {k.fault}, cut : BOOLEAN,
                crit : SUBSET Stretches, synced : {k.synced}]
  BY DEF Form
<1>2. QED
  BY <1>1 DEF Form

\* Written with both its copies, a FAT sector is on the medium as it was seen.
LEMMA SyncWindowSees ==
  ASSUME NEW m, NEW z, NEW q, NEW t, NEW u, Sees(m, z, q, t, u)
  PROVE  LET a == sync_window(m) IN
         /\ Sees(a.m, z, q, t, u)
         /\ a.m.fs.winsect = m.fs.winsect /\ a.m.fs.win = m.fs.win
         /\ a.r \in {"OK", "DISK_ERR"} /\ (z[1] => a.r = "OK")
         /\ a.r = "OK" => ~a.m.fs.wflag /\ Sees(a.m, z, "clean", t, u)
<1> DEFINE ws == m.fs.winsect
           w  == disk_write(m, ws, m.fs.win)
           f  == [m.fs EXCEPT !.wflag = FALSE]
           c  == [w.m EXCEPT !.fs = f]
           v  == disk_write(c, ws + FSize, m.fs.win)
<1>1. CASE ~m.fs.wflag
  BY <1>1 DEF sync_window, Ok, Sees
<1>2. CASE m.fs.wflag /\ ws = NoSector
  <2>1. InFat(ws) = FALSE /\ ws \notin Sectors /\ ws \notin FatSectors
    BY <1>2, Parted, Layout DEF FatSectors
  <2>2. DOMAIN m.disk = Sectors
    BY DEF Sees, Form, DiskForm
  <2> DEFINE k == Tick(m)
             y == [k EXCEPT !.disk[ws] = m.fs.win]
             g == [y EXCEPT !.fs.wflag = FALSE]
  <2>3. Sees(k, z, q, t, u) /\ k.fs = m.fs /\ k.disk = m.disk /\ (z[1] => ~Fails(k))
    BY TickSees
  <2> HIDE DEF k
  <2>4. /\ y.fs = k.fs /\ y.synced = k.synced /\ y.fault = k.fault /\ y.cut = k.cut
        /\ y.disk = [k.disk EXCEPT ![ws] = m.fs.win]
        /\ y \in [disk : {y.disk}, fs : {y.fs}, n : Nat, fault : {y.fault}, cut : BOOLEAN,
                crit : SUBSET Stretches, synced : {y.synced}]
    BY <2>3 DEF Sees, Form
  <2>5. DOMAIN y.disk = Sectors /\ \A s \in Sectors : y.disk[s] = m.disk[s]
    BY <2>1, <2>2, <2>3, <2>4
  <2>6. Form(y)
    BY <2>3, <2>4, <2>5 DEF Sees, Form, DiskForm
  <2> HIDE DEF y
  <2>7. FsForm(m.fs) /\ WindowForm(m.fs)
    BY DEF Sees, Form
  <2>8. /\ f.win = m.fs.win /\ f.winsect = ws /\ ~f.wflag /\ f.free = m.fs.free
        /\ f.mounted = m.fs.mounted /\ FsForm(f) /\ WindowForm(f)
    BY <2>7 DEF FsForm, WindowForm
  <2>9. g = [y EXCEPT !.fs = f]
    BY <2>3, <2>4 DEF g, f
  <2> HIDE DEF g, f
  <2>10. /\ Form(g) /\ g.fs = f /\ g.disk = y.disk /\ g.synced = y.synced
         /\ g.fault = y.fault /\ g.cut = y.cut
    BY <2>6, <2>8, <2>9, FsField
  <2>11. sync_window(m) = IF Fails(k) THEN Err(k, "DISK_ERR", 0) ELSE Ok(g, 0)
    BY <1>2, <2>1, <2>4, <2>8, <2>10 DEF sync_window, disk_write, Do, Ok, Err, k, y, g
  <2>12. \A s \in FatSectors : s \in Sectors /\ s + FSize \in Sectors
    BY Parted
  <2>13. z[1] => Coherent(y.disk, f)
    BY <1>2, <2>1, <2>5, <2>8, <2>12 DEF Sees, Coherent, Mirrored
  <2>14. \A i \in Clusters : FatOf(y.disk, f, i) = FatOf(m.disk, m.fs, i)
    BY <2>5, <2>8, <2>12, Layout DEF FatOf
  <2>15. Sees(g, z, "clean", t, u)
    BY <2>3, <2>4, <2>8, <2>10, <2>13, <2>14 DEF Sees
  <2>16. QED
    BY <2>3, <2>8, <2>10, <2>11, <2>15 DEF Ok, Err, Sees
<1>3. CASE m.fs.wflag /\ ws # NoSector
  <2>1. FsForm(m.fs) /\ WindowForm(m.fs) /\ DiskForm(m.disk) /\ Form(m)
    BY DEF Sees, Form
  <2>2. ws \in Sectors /\ ws \in Reach /\ Holds(ws, m.fs.win)
    BY <1>3, <2>1, Parted DEF FsForm, WindowForm
  <2>3. /\ Form(w.m) /\ w.m.fs = m.fs /\ w.m.synced = m.synced
        /\ w.m.fault = m.fault /\ w.m.cut = m.cut
        /\ \/ w.r = "OK" /\ w.m.disk = [m.disk EXCEPT ![ws] = m.fs.win]
           \/ w.r = "DISK_ERR" /\ w.m.disk = m.disk /\ ~z[1]
    <3> HIDE DEF ws
    <3>1. Sees(m, z, q, t, u) /\ (z[1] => ~Fails(Tick(m)))
      BY TickSees
    <3>2. QED
      BY <2>1, <2>2, <3>1, WriteForm DEF w
  <2>4. /\ f.win = m.fs.win /\ f.winsect = ws /\ ~f.wflag /\ f.free = m.fs.free
        /\ f.mounted = m.fs.mounted /\ FsForm(f) /\ WindowForm(f)
    BY <2>1 DEF FsForm, WindowForm
  <2> HIDE DEF w
  <2>5. CASE w.r = "DISK_ERR"
    <3>1. sync_window(m) = w
      BY <1>3, <2>5 DEF sync_window, Do, w
    <3>2. QED
      BY <2>3, <2>5, <3>1 DEF Sees
  <2>6. CASE w.r = "OK"
    <3>1. /\ Form(c) /\ c.fs = f /\ c.disk = w.m.disk /\ c.synced = m.synced
          /\ c.fault = m.fault /\ c.cut = m.cut
      <4>1. c = [w.m EXCEPT !.fs = f]
        BY DEF c
      <4> HIDE DEF c, f, ws
      <4>2. QED
        BY <2>3, <2>4, <4>1, FsField
    <3>2. c = [w.m EXCEPT !.fs.wflag = FALSE]
      BY <2>3 DEF c, f
    <3> HIDE DEF c, f
    <3>3. sync_window(m) = IF InFat(ws) THEN Ok(v.m, 0) ELSE Ok(c, 0)
      <4>1. sync_window(m) = LET k == [w.m EXCEPT !.fs.wflag = FALSE] IN
                                IF InFat(k.fs.winsect)
                                THEN Ok(disk_write(k, k.fs.winsect + FSize, k.fs.win).m, 0) ELSE Ok(k, 0)
        BY <1>3, <2>6 DEF sync_window, Do, w
      <4>2. QED
        BY <2>4, <3>1, <3>2, <4>1 DEF v
    <3>4. \A i \in FatSectors : i \in Sectors /\ i + FSize \in Sectors /\ i + FSize # ws
      BY <2>2, Parted
    <3>5. DOMAIN m.disk = Sectors
      BY <2>1 DEF DiskForm
    <3>6. c.disk[ws] = m.fs.win /\ \A i \in Sectors : i # ws => c.disk[i] = m.disk[i]
      BY <2>2, <2>3, <2>6, <3>1, <3>5
    <3>7. CASE ~InFat(ws)
      <4>1. ws \notin FatSectors
        BY <2>2, <3>7, Parted
      <4>2. z[1] => Coherent(c.disk, c.fs)
        BY <2>4, <3>1, <3>4, <3>6, <4>1 DEF Sees, Coherent, Mirrored
      <4>3. \A i \in Clusters : FatOf(c.disk, c.fs, i) = FatOf(m.disk, m.fs, i)
        BY <2>4, <3>1, <3>4, <3>6, <4>1, Layout DEF FatOf
      <4>4. Sees(c, z, "clean", t, u)
        BY <2>4, <3>1, <4>2, <4>3 DEF Sees
      <4>5. QED
        BY <2>4, <3>1, <3>3, <3>7, <4>4 DEF Ok, Sees
    <3>8. CASE InFat(ws)
      <4>1. ws \in FatSectors /\ ws + FSize \in Sectors /\ ws + FSize \notin Reach
        BY <2>2, <3>8, Parted
      <4>2. Holds(ws + FSize, m.fs.win)
        <5>1. ws \in Nat /\ FSize \in Nat /\ FSize >= 1 /\ DataBase = 2 + 2 * FSize /\ ws <= 1 + FSize /\ ws >= 2
          BY <4>1, Layout DEF FatSectors
        <5>2. ws + FSize # 0 /\ ws + FSize # 1 /\ ~InFat(ws + FSize) /\ ~(ws + FSize >= DataBase)
          BY <5>1 DEF InFat, FatBase
        <5>3. m.fs.win.k = "fat"
          BY <2>2, <3>8 DEF Holds
        <5>4. QED
          BY <5>2, <5>3 DEF Holds
      <4>5. /\ Form(v.m) /\ v.m.fs = c.fs /\ v.m.synced = c.synced
            /\ v.m.fault = c.fault /\ v.m.cut = c.cut
            /\ \/ v.r = "OK" /\ v.m.disk = [c.disk EXCEPT ![ws + FSize] = m.fs.win]
               \/ v.r = "DISK_ERR" /\ v.m.disk = c.disk /\ Fails(Tick(c))
        <5> HIDE DEF ws, f, c
        <5>1. QED
          BY <3>1, <4>1, <4>2, WriteForm DEF v
      <4>6. z[1] => v.r = "OK"
        <5>1. SUFFICES ASSUME z[1] PROVE v.r = "OK"
          OBVIOUS
        <5>2. c.fault = 0 /\ ~c.cut
          BY <3>1, <5>1 DEF Sees
        <5>3. ~Fails(Tick(c))
          BY <3>1, <5>2 DEF Fails, Tick, Form
        <5>4. QED
          BY <4>5, <5>3
      <4> HIDE DEF v
      <4>7. DOMAIN c.disk = Sectors
        BY <3>1 DEF Form, DiskForm
      <4>8. \A i \in FatSectors : v.m.disk[i] = c.disk[i]
        <5>1. \A i \in FatSectors : i \in Sectors /\ i # ws + FSize
          BY <4>1, Parted
        <5>2. QED
          BY <4>5, <4>7, <5>1
      <4>9. z[1] => Coherent(v.m.disk, v.m.fs)
        <5>1. SUFFICES ASSUME z[1] PROVE Coherent(v.m.disk, v.m.fs)
          OBVIOUS
        <5>2. v.m.disk = [c.disk EXCEPT ![ws + FSize] = m.fs.win]
          BY <4>5, <4>6, <5>1
        <5>3. Mirrored(v.m.disk, ws)
          BY <3>6, <4>1, <4>7, <4>8, <5>2 DEF Mirrored
        <5>4. ASSUME NEW i \in FatSectors, i # ws PROVE Mirrored(v.m.disk, i)
          <6>1. Mirrored(m.disk, i)
            BY <5>1, <5>4 DEF Sees, Coherent
          <6>2. i + FSize # ws + FSize
            BY <4>1, <5>4, Layout DEF FatSectors
          <6>3. QED
            BY <3>4, <3>6, <4>7, <4>8, <5>2, <5>4, <6>1, <6>2 DEF Mirrored
        <5>5. v.m.fs.win = v.m.disk[ws] /\ v.m.fs.winsect = ws
          BY <2>4, <3>1, <3>6, <4>1, <4>5, <4>8
        <5>6. QED
          BY <5>3, <5>4, <5>5 DEF Coherent
      <4>10. \A i \in Clusters : FatOf(v.m.disk, v.m.fs, i) = FatOf(m.disk, m.fs, i)
        BY <2>4, <3>1, <3>4, <3>6, <4>5, <4>8, Layout DEF FatOf
      <4>11. Sees(v.m, z, "clean", t, u)
        BY <2>4, <3>1, <4>5, <4>9, <4>10 DEF Sees
      <4>12. QED
        BY <2>4, <3>1, <3>3, <3>8, <4>5, <4>11 DEF Ok, Sees
    <3>9. QED
      BY <3>7, <3>8
  <2>7. QED
    BY <2>3, <2>5, <2>6
<1>4. QED
  BY <1>1, <1>2, <1>3

\* What a FATFS object that differs in its window shows of the FAT.
LEMMA MoveWindowSees ==
  ASSUME NEW m, NEW z, NEW q, NEW t, NEW u, Sees(m, z, q, t, u),
         NEW s \in Reach \ {NoSector}
  PROVE  LET a == move_window(m, s) IN
         /\ Sees(a.m, z, q, t, u)
         /\ a.r \in {"OK", "DISK_ERR"} /\ (z[1] => a.r = "OK")
         /\ a.r = "OK" => a.m.fs.winsect = s
<1>1. CASE s = m.fs.winsect
  BY <1>1 DEF move_window, Ok
<1>2. CASE s # m.fs.winsect
  <2> DEFINE w == sync_window(m)
             a == disk_read(w.m, s)
             f == [a.m.fs EXCEPT !.win = a.x, !.winsect = s]
             g == [a.m.fs EXCEPT !.win = Blank, !.winsect = NoSector]
             x == [a.m EXCEPT !.fs = f]
             y == [a.m EXCEPT !.fs = g]
  <2>1. /\ Sees(w.m, z, q, t, u) /\ w.r \in {"OK", "DISK_ERR"} /\ (z[1] => w.r = "OK")
        /\ w.r = "OK" => ~w.m.fs.wflag
    BY SyncWindowSees
  <2>2. /\ Sees(a.m, z, q, t, u) /\ a.m.fs = w.m.fs /\ a.m.disk = w.m.disk
        /\ a.r \in {"OK", "DISK_ERR"} /\ (z[1] => a.r = "OK")
        /\ a.r = "OK" => a.x = w.m.disk[s]
    <3> HIDE DEF w
    <3>1. QED
      BY <2>1, ReadSees
  <2>3. CASE w.r # "OK"
    BY <1>2, <2>1, <2>3 DEF move_window, Do
  <2>4. CASE w.r = "OK"
    <3>1. FsForm(a.m.fs) /\ DiskForm(a.m.disk) /\ Form(a.m) /\ ~a.m.fs.wflag
      BY <2>1, <2>2, <2>4 DEF Sees, Form
    <3>2. move_window(m, s) =
            IF a.r = "OK" THEN Ok([a.m EXCEPT !.fs.win = a.x, !.fs.winsect = s], 0)
            ELSE Err([a.m EXCEPT !.fs.win = Blank, !.fs.winsect = NoSector], a.r, 0)
      BY <1>2, <2>4 DEF move_window, Do
    <3> HIDE DEF a, w
    <3>3. /\ FsForm(f) /\ f.win = a.x /\ f.winsect = s /\ f.wflag = a.m.fs.wflag
          /\ f.free = a.m.fs.free /\ f.mounted = a.m.fs.mounted
          /\ FsForm(g) /\ g.winsect = NoSector /\ g.wflag = a.m.fs.wflag
          /\ g.free = a.m.fs.free /\ g.mounted = a.m.fs.mounted
      BY <3>1 DEF FsForm, Reach
    <3>4. [a.m EXCEPT !.fs.win = a.x, !.fs.winsect = s] = x
          /\ [a.m EXCEPT !.fs.win = Blank, !.fs.winsect = NoSector] = y
      BY <3>1 DEF Form, FsForm
    <3>5. x = [a.m EXCEPT !.fs = f] /\ y = [a.m EXCEPT !.fs = g]
      OBVIOUS
    <3> HIDE DEF f, g, x, y
    <3>6. CASE a.r = "OK"
      <4>1. s \in Sectors /\ WindowForm(f)
        BY <2>2, <3>1, <3>3, <3>6, Parted DEF WindowForm, DiskForm
      <4>2. /\ Form(x) /\ x.fs = f /\ x.disk = a.m.disk /\ x.synced = a.m.synced
            /\ x.fault = a.m.fault /\ x.cut = a.m.cut
        BY <3>1, <3>3, <3>5, <4>1, FsField
      <4>3. z[1] => Coherent(x.disk, x.fs)
        BY <2>2, <3>1, <3>3, <3>6, <4>2 DEF Sees, Coherent
      <4>4. ASSUME z[1], NEW c \in Clusters PROVE FatOf(x.disk, x.fs, c) = FatOf(a.m.disk, a.m.fs, c)
        BY <2>2, <3>1, <3>3, <3>6, <4>2, <4>4, Layout DEF FatOf, Sees, Coherent
      <4>5. Sees(x, z, q, t, u)
        BY <2>2, <3>3, <4>2, <4>3, <4>4 DEF Sees
      <4>6. QED
        BY <2>2, <3>2, <3>3, <3>4, <3>6, <4>2, <4>5 DEF Ok
    <3>7. CASE a.r # "OK"
      <4>1. WindowForm(g)
        BY <3>3 DEF WindowForm
      <4>2. /\ Form(y) /\ y.fs = g /\ y.disk = a.m.disk /\ y.synced = a.m.synced
            /\ y.fault = a.m.fault /\ y.cut = a.m.cut
        BY <3>1, <3>3, <3>5, <4>1, FsField
      <4>3. Sees(y, z, q, t, u)
        BY <2>2, <3>3, <3>7, <4>2 DEF Sees
      <4>4. QED
        BY <2>2, <3>2, <3>4, <3>7, <4>3 DEF Err
    <3>8. QED
      BY <3>6, <3>7
  <2>5. QED
    BY <2>3, <2>4
<1>3. QED
  BY <1>1, <1>2

\* The window that stands on a cluster's FAT sector holds its entry.
LEMMA EntryInWindow ==
  ASSUME NEW m, NEW z, NEW q, NEW t, NEW u, Sees(m, z, q, t, u),
         NEW c \in Clusters, m.fs.winsect = FatSector(c)
  PROVE  /\ m.fs.win \in [k : {"fat"}, fat : [Held(FatSector(c)) -> Nat]]
         /\ c \in Held(FatSector(c)) /\ m.fs.win.fat[c] \in Nat
         /\ z[1] => m.fs.win.fat[c] = t[c]
<1>1. c \in 0..(NFatEnt - 1) /\ FatSector(c) \in FatSectors /\ c \in Held(FatSector(c))
  BY Layout
<1>2. Holds(FatSector(c), m.fs.win) /\ InFat(FatSector(c))
  BY <1>1, Parted, Layout DEF Sees, Form, WindowForm, FatSectors
<1>3. m.fs.win \in [k : {"fat"}, fat : [Held(FatSector(c)) -> Nat]]
  BY <1>2 DEF Holds
<1>4. z[1] => m.fs.win.fat[c] = t[c]
  BY DEF Sees, FatOf
<1>5. QED
  BY <1>1, <1>3, <1>4

\* A cluster's entry is in a sector the window can stand on.
LEMMA FatReach ==
  ASSUME NEW c \in Clusters
  PROVE  FatSector(c) \in Reach \ {NoSector} /\ FatSector(c) \in FatSectors
BY Layout, Parted DEF FatSectors

\* get_fat returns the entry of the cluster that the FAT in sight has.
LEMMA GetFatSees ==
  ASSUME NEW m, NEW z, NEW q, NEW t, NEW u, Sees(m, z, q, t, u), NEW c
  PROVE  LET a == get_fat(m, c) IN
         /\ Sees(a.m, z, q, t, u)
         /\ a.r \in {"OK", "DISK_ERR", "INT_ERR"}
         /\ a.r = "OK" => c \in Clusters /\ a.x \in Nat /\ (z[1] => a.x = t[c])
<1>1. CASE c \notin Clusters
  BY <1>1 DEF get_fat, OnlyIf, Err
<1>2. CASE c \in Clusters
  <2> DEFINE a == move_window(m, FatSector(c))
  <2>1. /\ Sees(a.m, z, q, t, u) /\ a.r \in {"OK", "DISK_ERR"}
        /\ a.r = "OK" => a.m.fs.winsect = FatSector(c)
    <3>1. FatSector(c) \in Reach \ {NoSector}
      BY <1>2, FatReach
    <3>2. QED
      BY <3>1, MoveWindowSees
  <2>2. get_fat(m, c) = IF a.r = "OK" THEN Ok(a.m, a.m.fs.win.fat[c]) ELSE a
    BY <1>2 DEF get_fat, OnlyIf, Do
  <2> HIDE DEF a
  <2>3. a.r = "OK" => a.m.fs.win.fat[c] \in Nat /\ (z[1] => a.m.fs.win.fat[c] = t[c])
    BY <1>2, <2>1, EntryInWindow
  <2>4. QED
    BY <1>2, <2>1, <2>2, <2>3 DEF Ok
<1>3. QED
  BY <1>1, <1>2

\* put_fat changes one entry of what is seen, in the window.
LEMMA PutFatSees ==
  ASSUME NEW m, NEW z, NEW q, NEW t, NEW u, Sees(m, z, q, t, u),
         NEW c, NEW v \in Nat
  PROVE  LET a == put_fat(m, c, v) IN
         /\ a.r \in {"OK", "DISK_ERR", "INT_ERR"}
         /\ a.r # "OK" => Sees(a.m, z, "any", t, u)
         /\ a.r = "OK" => /\ c \in Clusters
                          /\ Sees(a.m, z, "any", With(t, c, v), u)
         /\ z[1] /\ c \in Clusters => a.r = "OK"
<1>1. CASE c \notin Clusters
  BY <1>1 DEF put_fat, OnlyIf, Err, Sees
<1>2. CASE c \in Clusters
  <2> DEFINE a == move_window(m, FatSector(c))
             w == [a.m.fs.win EXCEPT !.fat[c] = v]
             f == [a.m.fs EXCEPT !.win = w, !.wflag = TRUE]
             x == [a.m EXCEPT !.fs = f]
             t2 == With(t, c, v)
  <2>1. /\ Sees(a.m, z, q, t, u) /\ a.r \in {"OK", "DISK_ERR"} /\ (z[1] => a.r = "OK")
        /\ a.r = "OK" => a.m.fs.winsect = FatSector(c)
    <3>1. FatSector(c) \in Reach \ {NoSector}
      BY <1>2, FatReach
    <3>2. QED
      BY <3>1, MoveWindowSees
  <2>2. put_fat(m, c, v) = IF a.r = "OK" THEN Ok([a.m EXCEPT !.fs.win.fat[c] = v, !.fs.wflag = TRUE], 0) ELSE a
    BY <1>2 DEF put_fat, OnlyIf, Do
  <2> HIDE DEF a
  <2>3. CASE a.r # "OK"
    BY <2>1, <2>2, <2>3 DEF Sees
  <2>4. CASE a.r = "OK"
    <3>1. /\ a.m.fs.win \in [k : {"fat"}, fat : [Held(FatSector(c)) -> Nat]]
          /\ c \in Held(FatSector(c))
      BY <1>2, <2>1, <2>4, EntryInWindow
    <3>2. FsForm(a.m.fs) /\ Form(a.m) /\ a.m.fs.winsect = FatSector(c) /\ FatSector(c) \in FatSectors
      BY <1>2, <2>1, <2>4, FatReach DEF Sees, Form
    <3>3. /\ w \in [k : {"fat"}, fat : [Held(FatSector(c)) -> Nat]]
          /\ w.fat[c] = v /\ \A i \in Held(FatSector(c)) : i # c => w.fat[i] = a.m.fs.win.fat[i]
      BY <3>1
    <3> HIDE DEF w
    <3>4. /\ FsForm(f) /\ f.win = w /\ f.winsect = FatSector(c) /\ f.wflag
          /\ f.free = a.m.fs.free /\ f.mounted = a.m.fs.mounted
      BY <3>2 DEF FsForm
    <3>5. [a.m EXCEPT !.fs.win.fat[c] = v, !.fs.wflag = TRUE] = x
      BY <3>2 DEF Form, FsForm, w
    <3>6. x = [a.m EXCEPT !.fs = f]
      OBVIOUS
    <3> HIDE DEF f, x
    <3>7. WindowForm(f)
      BY <3>2, <3>3, <3>4, Parted, Layout DEF WindowForm, Holds, FatSectors, InFat, FatBase
    <3>8. /\ Form(x) /\ x.fs = f /\ x.disk = a.m.disk /\ x.synced = a.m.synced
          /\ x.fault = a.m.fault /\ x.cut = a.m.cut
      BY <3>2, <3>4, <3>6, <3>7, FsField
    <3>9. z[1] => Coherent(x.disk, x.fs)
      BY <2>1, <3>2, <3>4, <3>8 DEF Sees, Coherent
    <3>10. ASSUME z[1], NEW i \in Clusters PROVE FatOf(x.disk, x.fs, i) = t2[i]
      <4>1. i \in Held(FatSector(i))
        BY Layout
      <4>2. FatOf(a.m.disk, a.m.fs, i) = t[i]
        BY <2>1, <3>10 DEF Sees
      <4>3. QED
        BY <3>2, <3>3, <3>4, <3>8, <4>1, <4>2 DEF FatOf, With
    <3>11. Sees(x, z, "any", t2, u)
      BY <2>1, <3>4, <3>8, <3>9, <3>10 DEF Sees
    <3>12. put_fat(m, c, v).m = x /\ put_fat(m, c, v).r = "OK"
      BY <2>2, <2>4, <3>5 DEF Ok
    <3>13. QED
      BY <1>2, <3>11, <3>12
  <2>5. QED
    BY <2>3, <2>4
<1>3. QED
  BY <1>1, <1>2

-----------------------------------------------------------------------------
(* The count of free clusters. *)

\* The count of free clusters fits the values the code keeps for it.
LEMMA FreeIsFinite ==
  ASSUME NEW t
  PROVE  IsFiniteSet(Free(t)) /\ Cardinality(Free(t)) \in 0..(NFatEnt - 2)
<1>1. 2 \in Int /\ NFatEnt - 1 \in Int
  BY Layout
<1>2. IsFiniteSet(Clusters) /\ Cardinality(Clusters) = NFatEnt - 2
  <2>1. IsFiniteSet(2..(NFatEnt - 1)) /\ Cardinality(2..(NFatEnt - 1)) = IF 2 > NFatEnt - 1 THEN 0 ELSE (NFatEnt - 1) - 2 + 1
    BY <1>1, FS_Interval
  <2>2. QED
    BY <2>1, Layout
<1>3. Free(t) \subseteq Clusters
  BY DEF Free
<1>4. IsFiniteSet(Free(t)) /\ Cardinality(Free(t)) <= Cardinality(Clusters) /\ Cardinality(Free(t)) \in Nat
  BY <1>2, <1>3, FS_Subset, FS_CardinalityType
<1>5. QED
  BY <1>2, <1>4, Layout

\* Of the FAT after a write, the free clusters.
LEMMA FreeWith ==
  ASSUME NEW t, NEW c \in Clusters, NEW v \in Nat
  PROVE  /\ v = 0 /\ t[c] # 0 => Cardinality(Free(With(t, c, v))) = Cardinality(Free(t)) + 1
         /\ v = 0 /\ t[c] # 0 => Cardinality(Free(t)) < NFatEnt - 2
         /\ v # 0 /\ t[c] = 0 => /\ Cardinality(Free(With(t, c, v))) = Cardinality(Free(t)) - 1
                                 /\ Cardinality(Free(t)) > 0
         /\ v # 0 /\ t[c] # 0 => Free(With(t, c, v)) = Free(t)
<1> DEFINE w == With(t, c, v)
<1>1. IsFiniteSet(Free(t)) /\ IsFiniteSet(Free(w)) /\ Cardinality(Free(t)) \in 0..(NFatEnt - 2)
      /\ Cardinality(Free(w)) \in 0..(NFatEnt - 2)
  BY FreeIsFinite
<1>2. CASE v = 0 /\ t[c] # 0
  <2>1. Free(w) = Free(t) \cup {c} /\ c \notin Free(t)
    BY <1>2 DEF Free, With
  <2>2. Cardinality(Free(w)) = Cardinality(Free(t)) + 1
    BY <1>1, <2>1, FS_AddElement
  <2>3. QED
    BY <1>1, <1>2, <2>2, Layout
<1>3. CASE v # 0 /\ t[c] = 0
  <2>1. Free(t) = Free(w) \cup {c} /\ c \notin Free(w)
    BY <1>3 DEF Free, With
  <2>2. Cardinality(Free(t)) = Cardinality(Free(w)) + 1
    BY <1>1, <2>1, FS_AddElement
  <2>3. QED
    BY <1>1, <1>3, <2>2, Layout
<1>4. CASE v # 0 /\ t[c] # 0
  BY <1>4 DEF Free, With
<1>5. QED
  BY <1>2, <1>3, <1>4

\* The fields beside the window.
SetCount(m, free, last, fsi) ==
  [m EXCEPT !.fs = [m.fs EXCEPT !.free = free, !.last = last, !.fsi = fsi]]

\* The count, the hint and the FSInfo flag change without the FAT.
LEMMA CountSees ==
  ASSUME NEW m, NEW z, NEW q, NEW t, NEW u, Sees(m, z, q, t, u),
         NEW free \in Counts, NEW last \in Lasts, NEW fsi \in 0..2
  PROVE  LET k == SetCount(m, free, last, fsi) IN
         Sees(k, z, q, t, free) /\ k.fs.free = free /\ k.fs.last = last /\ k.fs.fsi = fsi
<1> DEFINE f == [m.fs EXCEPT !.free = free, !.last = last, !.fsi = fsi]
           k == SetCount(m, free, last, fsi)
<1>1. Form(m) /\ FsForm(m.fs) /\ WindowForm(m.fs)
  BY DEF Sees, Form
<1>2. /\ FsForm(f) /\ f.win = m.fs.win /\ f.winsect = m.fs.winsect /\ f.wflag = m.fs.wflag
      /\ f.free = free /\ f.mounted = m.fs.mounted /\ f.last = last /\ f.fsi = fsi
  BY <1>1 DEF FsForm
<1>3. k = [m EXCEPT !.fs = f]
  BY DEF SetCount
<1> HIDE DEF f, k
<1>4. WindowForm(f)
  BY <1>1, <1>2 DEF WindowForm
<1>5. /\ Form(k) /\ k.fs = f /\ k.disk = m.disk /\ k.synced = m.synced
      /\ k.fault = m.fault /\ k.cut = m.cut
  BY <1>1, <1>2, <1>3, <1>4, FsField
<1>6. z[1] => Coherent(k.disk, k.fs)
  BY <1>2, <1>5 DEF Sees, Coherent
<1>7. \A c : FatOf(k.disk, k.fs, c) = FatOf(m.disk, m.fs, c)
  BY <1>2, <1>5 DEF FatOf
<1>8. Sees(k, z, q, t, free)
  BY <1>2, <1>5, <1>6, <1>7 DEF Sees
<1>9. QED
  BY <1>2, <1>5, <1>8 DEF k

\* What Touch and the count's updates do.
Touched(m) == IF m.fs.fsi = 0 THEN 1 ELSE m.fs.fsi

\* The code's updates of these fields are SetCount.
LEMMA TouchForm ==
  ASSUME NEW m, Form(m), NEW n
  PROVE  /\ Touched(m) \in 0..2 /\ m.fs.fsi \in 0..2 /\ m.fs.free \in Counts /\ m.fs.last \in Lasts
         /\ Touch([m EXCEPT !.fs.free = n]) = SetCount(m, n, m.fs.last, Touched(m))
         /\ [m EXCEPT !.fs.last = n] = SetCount(m, m.fs.free, n, m.fs.fsi)
<1>1. FsForm(m.fs)
  BY DEF Form
<1>2. /\ Touched(m) \in 0..2 /\ m.fs.fsi \in 0..2 /\ m.fs.free \in Counts /\ m.fs.last \in Lasts
  BY <1>1 DEF FsForm, Touched
<1> DEFINE k == [m EXCEPT !.fs.free = n]
           f == [m.fs EXCEPT !.free = n]
           g == [f EXCEPT !.fsi = Touched(m)]
<1>3. k = [m EXCEPT !.fs = f] /\ k.fs = f /\ f.fsi = m.fs.fsi
  BY <1>1 DEF Form, FsForm
<1>4. Touch(k) = [m EXCEPT !.fs = g]
  <2>1. Touch(k) = [k EXCEPT !.fs = [f EXCEPT !.fsi = IF f.fsi = 0 THEN 1 ELSE f.fsi]]
    BY <1>3 DEF Touch
  <2>2. (IF f.fsi = 0 THEN 1 ELSE f.fsi) = Touched(m)
    BY <1>3 DEF Touched
  <2> HIDE DEF f
  <2>3. Touch(k) = [k EXCEPT !.fs = g]
    BY <2>1, <2>2
  <2> HIDE DEF g
  <2>4. QED
    BY <1>3, <2>3 DEF Form
<1>5. g = [m.fs EXCEPT !.free = n, !.last = m.fs.last, !.fsi = Touched(m)]
  BY <1>1 DEF FsForm
<1>6. Touch(k) = SetCount(m, n, m.fs.last, Touched(m))
  BY <1>4, <1>5 DEF SetCount
<1>7. [m EXCEPT !.fs.last = n] = SetCount(m, m.fs.free, n, m.fs.fsi)
  BY <1>1 DEF SetCount, Form, FsForm
<1>8. QED
  BY <1>2, <1>6, <1>7

-----------------------------------------------------------------------------
(* The other writes of the library. *)

\* disk_write of a data sector leaves the FATs alone.
LEMMA DataSees ==
  ASSUME NEW m, NEW z, NEW q, NEW t, NEW u, Sees(m, z, q, t, u),
         NEW s \in DataSectors, NEW v, v.k \in {"dir", "data"}
  PROVE  LET a == disk_write(m, s, v) IN
         /\ Sees(a.m, z, q, t, u) /\ a.m.fs = m.fs
         /\ a.r \in {"OK", "DISK_ERR"} /\ (z[1] => a.r = "OK")
<1>1. s \in (Reach \ FatSectors) \ {NoSector} /\ Holds(s, v)
  BY Layout, Parted DEF DataSectors, FatSectors, Holds, Places, Reach
<1>2. QED
  BY <1>1, BesideSees

\* The window is changed where no FAT sector is.
SetWindow(m, w) == [m EXCEPT !.fs = [m.fs EXCEPT !.win = w, !.wflag = TRUE]]

\* The window's sector changes in memory: anything but a FAT sector may.
LEMMA SetWindowSees ==
  ASSUME NEW m, NEW z, NEW q, NEW t, NEW u, Sees(m, z, q, t, u), NEW w,
         m.fs.winsect # NoSector => Holds(m.fs.winsect, w),
         m.fs.winsect \in FatSectors => w = m.fs.win
  PROVE  LET k == SetWindow(m, w) IN Sees(k, z, "any", t, u) /\ k.fs.winsect = m.fs.winsect /\ k.fs.win = w
<1> DEFINE f == [m.fs EXCEPT !.win = w, !.wflag = TRUE]
           k == SetWindow(m, w)
<1>1. Form(m) /\ FsForm(m.fs) /\ WindowForm(m.fs)
  BY DEF Sees, Form
<1>2. /\ FsForm(f) /\ f.win = w /\ f.winsect = m.fs.winsect /\ f.wflag
      /\ f.free = m.fs.free /\ f.mounted = m.fs.mounted
  BY <1>1 DEF FsForm
<1>3. k = [m EXCEPT !.fs = f]
  BY DEF SetWindow
<1> HIDE DEF f, k
<1>4. WindowForm(f)
  BY <1>2 DEF WindowForm
<1>5. /\ Form(k) /\ k.fs = f /\ k.disk = m.disk /\ k.synced = m.synced
      /\ k.fault = m.fault /\ k.cut = m.cut
  BY <1>1, <1>2, <1>3, <1>4, FsField
<1>6. z[1] => Coherent(k.disk, k.fs)
  BY <1>2, <1>5 DEF Sees, Coherent
<1>7. \A c \in Clusters : FatOf(k.disk, k.fs, c) = FatOf(m.disk, m.fs, c)
  BY <1>2, <1>5, Layout DEF FatOf
<1>8. Sees(k, z, "any", t, u)
  BY <1>2, <1>5, <1>6, <1>7 DEF Sees
<1>9. QED
  BY <1>2, <1>5, <1>8 DEF k

\* A clean window goes to another sector.
Reload(m, w, s, fsi) == [m EXCEPT !.fs = [m.fs EXCEPT !.win = w, !.winsect = s, !.fsi = fsi]]

\* The window moves off a FAT sector when nothing in it is left to write.
LEMMA ReloadSees ==
  ASSUME NEW m, NEW z, NEW q, NEW t, NEW u, Sees(m, z, q, t, u), ~m.fs.wflag, NEW w,
         NEW s \in Reach \ FatSectors, s # NoSector => Holds(s, w), NEW fsi \in 0..2
  PROVE  LET k == Reload(m, w, s, fsi) IN Sees(k, z, "clean", t, u) /\ k.fs.winsect = s /\ k.fs.win = w
<1> DEFINE f == [m.fs EXCEPT !.win = w, !.winsect = s, !.fsi = fsi]
           k == Reload(m, w, s, fsi)
<1>1. Form(m) /\ FsForm(m.fs)
  BY DEF Sees, Form
<1>2. /\ FsForm(f) /\ f.win = w /\ f.winsect = s /\ ~f.wflag
      /\ f.free = m.fs.free /\ f.mounted = m.fs.mounted
  BY <1>1 DEF FsForm
<1>3. k = [m EXCEPT !.fs = f]
  BY DEF Reload
<1> HIDE DEF f, k
<1>4. WindowForm(f)
  BY <1>2 DEF WindowForm
<1>5. /\ Form(k) /\ k.fs = f /\ k.disk = m.disk /\ k.synced = m.synced
      /\ k.fault = m.fault /\ k.cut = m.cut
  BY <1>1, <1>2, <1>3, <1>4, FsField
<1>6. z[1] => Coherent(k.disk, k.fs)
  BY <1>2, <1>5 DEF Sees, Coherent
<1>7. ASSUME z[1], NEW c \in Clusters PROVE FatOf(k.disk, k.fs, c) = FatOf(m.disk, m.fs, c)
  BY <1>2, <1>5, <1>7, Layout DEF FatOf, Sees, Coherent
<1>8. Sees(k, z, "clean", t, u)
  BY <1>2, <1>5, <1>6, <1>7 DEF Sees
<1>9. QED
  BY <1>2, <1>5, <1>8 DEF k

\* An entry is written only into a directory sector.
LEMMA SlotHolds ==
  ASSUME NEW s, NEW x, Holds(s, x), NEW i, NEW e
  PROVE  Holds(s, SetSlot(x, i, e)) /\ (InFat(s) => SetSlot(x, i, e) = x)
<1>1. CASE x.k = "dir"
  <2>1. SetSlot(x, i, e).k = "dir"
    BY <1>1 DEF SetSlot
  <2>2. s # 0 /\ s # 1 /\ ~InFat(s) /\ ~InFat(s - FSize)
    BY <1>1 DEF Holds
  <2>3. QED
    BY <2>1, <2>2 DEF Holds
<1>2. CASE x.k # "dir"
  BY <1>2 DEF SetSlot
<1>3. QED
  BY <1>1, <1>2

\* A directory entry changes in the window, never a FAT entry.
LEMMA SetEntrySees ==
  ASSUME NEW m, NEW z, NEW q, NEW t, NEW u, Sees(m, z, q, t, u), NEW dp, NEW e
  PROVE  Sees(SetEntry(m, dp, e), z, "any", t, u)
<1> DEFINE w == SetSlot(m.fs.win, dp.i, e)
<1>1. Form(m) /\ FsForm(m.fs) /\ WindowForm(m.fs)
  BY DEF Sees, Form
<1>2. SetEntry(m, dp, e) = SetWindow(m, w)
  BY <1>1 DEF SetEntry, SetWindow, Form, FsForm
<1>3. m.fs.winsect # NoSector => Holds(m.fs.winsect, w)
  BY <1>1, SlotHolds DEF WindowForm
<1>4. m.fs.winsect \in FatSectors => w = m.fs.win
  <2>1. m.fs.winsect \in FatSectors => InFat(m.fs.winsect) /\ m.fs.winsect # NoSector
    BY Parted
  <2>2. QED
    BY <1>1, <2>1, SlotHolds DEF WindowForm
<1> HIDE DEF w
<1>5. Sees(SetWindow(m, w), z, "any", t, u)
  BY <1>3, <1>4, SetWindowSees
<1>6. QED
  BY <1>2, <1>5

\* Marks on the stretches of code whose order does not protect the volume.
LEMMA MarkSees ==
  ASSUME NEW m, NEW z, NEW q, NEW t, NEW u, Sees(m, z, q, t, u), NEW c \in Stretches
  PROVE  /\ Sees(Enter(m, c), z, q, t, u) /\ Enter(m, c).fs = m.fs
         /\ Sees(Leave(m, c), z, q, t, u) /\ Leave(m, c).fs = m.fs
<1> DEFINE k == Enter(m, c)
           l == Leave(m, c)
<1>1. /\ Form(k) /\ k.fs = m.fs /\ k.disk = m.disk /\ k.synced = m.synced
      /\ k.fault = m.fault /\ k.cut = m.cut
  BY DEF Sees, Form, Enter
<1>2. /\ Form(l) /\ l.fs = m.fs /\ l.disk = m.disk /\ l.synced = m.synced
      /\ l.fault = m.fault /\ l.cut = m.cut
  BY DEF Sees, Form, Leave
<1> HIDE DEF k, l
<1>3. Sees(k, z, q, t, u) /\ Sees(l, z, q, t, u)
  BY <1>1, <1>2 DEF Sees
<1>4. QED
  BY <1>1, <1>2, <1>3 DEF k, l

\* sync_fs ends with nothing in the window that the medium does not hold.
LEMMA SyncFsSees ==
  ASSUME NEW m, NEW z, NEW q, NEW t, NEW u, Sees(m, z, q, t, u)
  PROVE  LET a == sync_fs(m) IN
         /\ Sees(a.m, z, q, t, u) /\ a.r \in {"OK", "DISK_ERR"}
         /\ a.r = "OK" => Sees(a.m, z, "clean", t, u)
<1> DEFINE b == sync_window(m)
           w == FsInfo(b.m.fs.free, b.m.fs.last)
           k == Reload(b.m, w, 1, 0)
           d == disk_write(k, 1, w)
<1>1. /\ Sees(b.m, z, q, t, u) /\ b.r \in {"OK", "DISK_ERR"}
      /\ b.r = "OK" => ~b.m.fs.wflag /\ Sees(b.m, z, "clean", t, u)
  BY SyncWindowSees
<1> HIDE DEF b
<1>2. CASE b.r # "OK"
  BY <1>1, <1>2 DEF sync_fs, Do, b
<1>3. CASE b.r = "OK" /\ b.m.fs.fsi # 1
  BY <1>1, <1>3 DEF sync_fs, Do, b, Ok
<1>4. CASE b.r = "OK" /\ b.m.fs.fsi = 1
  <2>1. Form(b.m) /\ FsForm(b.m.fs)
    BY <1>1 DEF Sees, Form
  <2>2. [b.m EXCEPT !.fs.fsi = 0, !.fs.win = w, !.fs.winsect = 1] = k
    BY <2>1 DEF Form, FsForm, Reload
  <2>3. Holds(1, w)
    <3>1. w \in [k : {"fsinfo"}, free : Counts, last : Lasts]
      BY <2>1 DEF FsForm, FsInfo
    <3>2. ~InFat(1) /\ ~InFat(1 - FSize) /\ ~(1 >= DataBase)
      BY Layout DEF InFat, FatBase
    <3>3. QED
      BY <3>1, <3>2 DEF Holds
  <2>4. 1 \in Reach \ FatSectors /\ 1 # NoSector
    BY Layout, Parted DEF Reach, FatSectors
  <2>5. sync_fs(m) = Ok(d.m, 0)
    BY <1>4, <2>2 DEF sync_fs, Do, b
  <2>6. Sees(k, z, "clean", t, u)
    <3> HIDE DEF w
    <3>1. b.r = "OK"
      BY <1>4
    <3>2. Sees(b.m, z, "clean", t, u) /\ ~b.m.fs.wflag
      BY <1>1, <3>1
    <3>3. 1 \in Reach \ FatSectors /\ (1 # NoSector => Holds(1, w))
      BY <2>3, <2>4
    <3>4. 0 \in 0..2
      OBVIOUS
    <3>5. Sees(Reload(b.m, w, 1, 0), z, "clean", t, u)
      BY <3>2, <3>3, <3>4, ReloadSees
    <3>6. QED
      BY <3>5
  <2> HIDE DEF w, k
  <2>7. Sees(d.m, z, "clean", t, u)
    BY <2>3, <2>4, <2>6, BesideSees
  <2> HIDE DEF d
  <2>8. QED
    BY <2>5, <2>7 DEF Ok, Sees
<1>5. QED
  BY <1>1, <1>2, <1>3, <1>4

\* dir_clear zeroes a cluster and leaves the window on its sector.
LEMMA DirClearSees ==
  ASSUME NEW m, NEW z, NEW q, NEW t, NEW u, Sees(m, z, q, t, u), NEW c \in Clusters
  PROVE  LET a == dir_clear(m, c) IN
         /\ Sees(a.m, z, q, t, u) /\ a.r \in {"OK", "DISK_ERR"}
         /\ a.r = "OK" => a.m.fs.winsect \in DataSectors
<1> DEFINE b == sync_window(m)
           at == clst2sect(c)
           zero == DirSector(<<>>)
           k == Reload(b.m, zero, at, b.m.fs.fsi)
           d == disk_write(k, at, zero)
<1>1. /\ Sees(b.m, z, q, t, u) /\ b.r \in {"OK", "DISK_ERR"}
      /\ b.r = "OK" => ~b.m.fs.wflag /\ Sees(b.m, z, "clean", t, u)
  BY SyncWindowSees
<1>2. at \in DataSectors
  BY SectorOf
<1>3. zero.k = "dir"
  BY DEF DirSector
<1>4. CASE b.r # "OK"
  <2> HIDE DEF b
  <2>1. QED
    BY <1>1, <1>4 DEF dir_clear, Do, b
<1>5. CASE b.r = "OK"
  <2> HIDE DEF b, at, zero, k, d
  <2>1. Form(b.m) /\ FsForm(b.m.fs)
    BY <1>1 DEF Sees, Form
  <2>2. b.m.fs.fsi \in 0..2
    BY <2>1 DEF FsForm
  <2>3. [b.m EXCEPT !.fs.win = zero, !.fs.winsect = at] = k
    BY <2>1 DEF Form, FsForm, Reload, k
  <2>4. dir_clear(m, c) = d
    BY <1>5, <2>3 DEF dir_clear, Do, b, d, at, zero
  <2>5. at \in Reach \ FatSectors
    BY <1>2, Layout, Parted DEF DataSectors, FatSectors, Reach
  <2>6. Holds(at, zero)
    BY <1>2, <1>3, Layout, Parted DEF DataSectors, Holds
  <2>7. Sees(b.m, z, "clean", t, u) /\ ~b.m.fs.wflag
    BY <1>1, <1>5
  <2>8. Sees(k, z, "clean", t, u)
    BY <2>2, <2>5, <2>6, <2>7, ReloadSees DEF k
  <2>9. k.fs.winsect = at
    BY <2>2, <2>5, <2>6, <2>7, <2>8, ReloadSees DEF k
  <2>10. zero.k \in {"dir", "data"}
    BY <1>3
  <2>11. Sees(d.m, z, "clean", t, u)
    BY <1>2, <2>8, <2>10, DataSees DEF d
  <2>12. d.m.fs = k.fs /\ d.r \in {"OK", "DISK_ERR"}
    BY <1>2, <2>8, <2>10, <2>11, DataSees DEF d
  <2>13. QED
    BY <1>2, <2>4, <2>9, <2>11, <2>12 DEF Sees
<1>6. QED
  BY <1>1, <1>4, <1>5

-----------------------------------------------------------------------------
(* Whatever the FAT is: what the directory and file functions rest on. *)

\* What Good says of a machine whatever the FAT is.
LEMMA GoodForm ==
  ASSUME NEW m, NEW z, NEW q, Good(m, z, q)
  PROVE  Form(m) /\ m.synced = z[2] /\ m.fs.mounted = z[3] /\ Good(m, z, "any")
BY DEF Good, Sees

\* move_window, to where the code moves it.
LEMMA MoveWindowKeeps ==
  ASSUME NEW m, NEW z, NEW q, Good(m, z, q), NEW s \in Reach \ {NoSector}
  PROVE  Kept(move_window(m, s), z, q)
<1>1. PICK t, u : Counted(t, u) /\ Sees(m, z, q, t, u)
  BY DEF Good
<1> DEFINE a == move_window(m, s)
<1>2. Sees(a.m, z, q, t, u)
  BY <1>1, MoveWindowSees
<1>3. a.r \in {"OK", "DISK_ERR"}
  BY <1>1, <1>2, MoveWindowSees
<1> HIDE DEF a
<1>4. QED
  BY <1>1, <1>2, <1>3 DEF Good, Kept, a

\* get_fat, for any number.
LEMMA GetFatKeeps ==
  ASSUME NEW m, NEW z, NEW q, Good(m, z, q), NEW c
  PROVE  Kept(get_fat(m, c), z, q)
<1>1. PICK t, u : Counted(t, u) /\ Sees(m, z, q, t, u)
  BY DEF Good
<1> DEFINE a == get_fat(m, c)
<1>2. Sees(a.m, z, q, t, u)
  BY <1>1, GetFatSees
<1>3. a.r \in {"OK", "DISK_ERR", "INT_ERR"}
  BY <1>1, <1>2, GetFatSees
<1> HIDE DEF a
<1>4. QED
  BY <1>1, <1>2, <1>3 DEF Good, Kept, a

\* disk_read, of any sector.
LEMMA ReadKeeps ==
  ASSUME NEW m, NEW z, NEW q, Good(m, z, q), NEW s
  PROVE  Kept(disk_read(m, s), z, q)
<1>1. PICK t, u : Counted(t, u) /\ Sees(m, z, q, t, u)
  BY DEF Good
<1> DEFINE a == disk_read(m, s)
<1>2. Sees(a.m, z, q, t, u)
  BY <1>1, ReadSees
<1>3. a.r \in {"OK", "DISK_ERR"}
  BY <1>1, <1>2, ReadSees
<1> HIDE DEF a
<1>4. QED
  BY <1>1, <1>2, <1>3 DEF Good, Kept, a

\* disk_write, of a data sector.
LEMMA DataKeeps ==
  ASSUME NEW m, NEW z, NEW q, Good(m, z, q), NEW s \in DataSectors, NEW d
  PROVE  Kept(disk_write(m, s, DataSector(d)), z, q)
<1>1. PICK t, u : Counted(t, u) /\ Sees(m, z, q, t, u)
  BY DEF Good
<1> DEFINE v == DataSector(d)
           a == disk_write(m, s, v)
<1>2. v.k \in {"dir", "data"}
  BY DEF DataSector
<1> HIDE DEF v
<1>3. Sees(a.m, z, q, t, u)
  BY <1>1, <1>2, DataSees
<1>4. a.r \in {"OK", "DISK_ERR"}
  BY <1>1, <1>2, <1>3, DataSees
<1> HIDE DEF a
<1>5. Kept(a, z, q)
  BY <1>1, <1>3, <1>4 DEF Good, Kept
<1>6. QED
  BY <1>5 DEF a, v

\* A directory entry changed in the window has to be written.
LEMMA SetEntryKeeps ==
  ASSUME NEW m, NEW z, NEW q, Good(m, z, q), NEW dp, NEW e
  PROVE  Good(SetEntry(m, dp, e), z, "any")
<1>1. PICK t, u : Counted(t, u) /\ Sees(m, z, q, t, u)
  BY DEF Good
<1>2. Sees(SetEntry(m, dp, e), z, "any", t, u)
  BY <1>1, SetEntrySees
<1>3. QED
  BY <1>1, <1>2 DEF Good

\* The marks of the four stretches are no part of the volume.
LEMMA MarkKeeps ==
  ASSUME NEW m, NEW z, NEW q, Good(m, z, q), NEW c \in Stretches
  PROVE  Good(Enter(m, c), z, q) /\ Good(Leave(m, c), z, q)
<1>1. PICK t, u : Counted(t, u) /\ Sees(m, z, q, t, u)
  BY DEF Good
<1>2. Sees(Enter(m, c), z, q, t, u)
  BY <1>1, MarkSees
<1>3. Sees(Leave(m, c), z, q, t, u)
  BY <1>1, MarkSees
<1>4. QED
  BY <1>1, <1>2, <1>3 DEF Good

\* sync_fs leaves nothing to write when it succeeds.
LEMMA SyncFsKeeps ==
  ASSUME NEW m, NEW z, NEW q, Good(m, z, q)
  PROVE  LET a == sync_fs(m) IN Kept(a, z, "any") /\ (a.r = "OK" => Good(a.m, z, "clean"))
<1>1. PICK t, u : Counted(t, u) /\ Sees(m, z, q, t, u)
  BY DEF Good
<1> DEFINE a == sync_fs(m)
<1>2. Sees(a.m, z, q, t, u)
  BY <1>1, SyncFsSees
<1>3. a.r \in {"OK", "DISK_ERR"}
  BY <1>1, <1>2, SyncFsSees
<1>4. a.r = "OK" => Sees(a.m, z, "clean", t, u)
  BY <1>1, <1>2, SyncFsSees
<1> HIDE DEF a
<1>5. Good(a.m, z, q) /\ (a.r = "OK" => Good(a.m, z, "clean"))
  BY <1>1, <1>2, <1>4 DEF Good
<1>6. Kept(a, z, "any")
  BY <1>3, <1>5, GoodForm DEF Kept
<1>7. QED
  BY <1>5, <1>6 DEF a

\* dir_clear, of a cluster.
LEMMA DirClearKeeps ==
  ASSUME NEW m, NEW z, NEW q, Good(m, z, q), NEW c \in Clusters
  PROVE  LET a == dir_clear(m, c) IN
         Kept(a, z, q) /\ (a.r = "OK" => a.m.fs.winsect \in DataSectors)
<1>1. PICK t, u : Counted(t, u) /\ Sees(m, z, q, t, u)
  BY DEF Good
<1> DEFINE a == dir_clear(m, c)
<1>2. Sees(a.m, z, q, t, u)
  BY <1>1, DirClearSees
<1>3. a.r \in {"OK", "DISK_ERR"} /\ (a.r = "OK" => a.m.fs.winsect \in DataSectors)
  BY <1>1, <1>2, DirClearSees
<1> HIDE DEF a
<1>4. Kept(a, z, q)
  BY <1>1, <1>2, <1>3 DEF Good, Kept
<1>5. QED
  BY <1>3, <1>4 DEF a

-----------------------------------------------------------------------------
(* Chains of clusters: the count follows the FAT. *)

\* After a failure nothing is claimed of the FAT and its count.
LEMMA InexactGood ==
  ASSUME NEW m, NEW z, NEW q, NEW t, NEW u, Sees(m, z, q, t, u), ~z[1] \/ Counted(t, u)
  PROVE  Good(m, z, q)
<1>1. CASE Counted(t, u)
  BY <1>1 DEF Good
<1>2. CASE ~z[1]
  <2>1. Sees(m, z, q, t, Unknown) /\ Counted(t, Unknown)
    BY <1>2 DEF Sees, Counted
  <2>2. QED
    BY <2>1 DEF Good
<1>3. QED
  BY <1>1, <1>2

\* A freed cluster is counted.
LEMMA FreedKeeps ==
  ASSUME NEW m, NEW z, NEW q, NEW t, NEW u, NEW c \in Clusters,
         Sees(m, z, q, With(t, c, 0), u), Counted(t, u), z[1] => t[c] # 0
  PROVE  Good(Freed(m), z, q)
<1> DEFINE w == With(t, c, 0)
           n == m.fs.free + 1
           k == SetCount(m, n, m.fs.last, Touched(m))
<1>1. Form(m) /\ m.fs.free \in Counts /\ m.fs.last \in Lasts /\ Touched(m) \in 0..2
  BY TouchForm DEF Sees
<1>2. NFatEnt \in Nat /\ NFatEnt > 3 /\ Counts = 0..(NFatEnt - 2) \cup {NFatEnt + 2}
  BY Layout DEF Counts, Unknown
<1>3. /\ t[c] # 0 => Cardinality(Free(w)) = Cardinality(Free(t)) + 1
      /\ t[c] # 0 => Cardinality(Free(t)) < NFatEnt - 2
      /\ Cardinality(Free(t)) \in 0..(NFatEnt - 2)
  BY FreeWith, FreeIsFinite
<1>4. u \in {NFatEnt + 2, Cardinality(Free(t))} /\ (z[1] => m.fs.free = u)
  BY DEF Counted, Unknown, Sees
<1>5. CASE m.fs.free < NFatEnt - 2
  <2>1. n \in Counts
    BY <1>1, <1>2, <1>5
  <2>2. Freed(m) = k
    BY <1>1, <1>5, TouchForm DEF Freed
  <2>3. z[1] => n = Cardinality(Free(w))
    BY <1>2, <1>3, <1>4, <1>5
  <2> HIDE DEF n, w
  <2>4. Sees(k, z, q, w, n)
    BY <1>1, <2>1, CountSees DEF w
  <2>5. ~z[1] \/ Counted(w, n)
    BY <2>3 DEF Counted
  <2> HIDE DEF k
  <2>6. QED
    BY <2>2, <2>4, <2>5, InexactGood
<1>6. CASE ~(m.fs.free < NFatEnt - 2)
  <2>1. Freed(m) = m
    BY <1>6 DEF Freed
  <2>2. z[1] => u = NFatEnt + 2
    BY <1>2, <1>3, <1>4, <1>6
  <2>3. ~z[1] \/ Counted(w, u)
    BY <2>2 DEF Counted, Unknown
  <2> HIDE DEF w
  <2>4. Sees(m, z, q, w, u)
    BY DEF w
  <2>5. QED
    BY <2>1, <2>3, <2>4, InexactGood
<1>7. QED
  BY <1>5, <1>6

\* A turn of remove_chain's loop.
LEMMA FreeNextKeeps ==
  ASSUME NEW m, NEW z, Good(m, z, "any"), NEW c
  PROVE  Good(FreeNext(m, c).m, z, "any")
<1>1. CASE c >= NFatEnt
  BY <1>1 DEF FreeNext, Done, Err
<1>2. CASE ~(c >= NFatEnt)
  <2>1. PICK t, u : Counted(t, u) /\ Sees(m, z, "any", t, u)
    BY DEF Good
  <2> DEFINE a == get_fat(m, c)
             b == put_fat(a.m, c, 0)
  <2>2. Sees(a.m, z, "any", t, u)
    BY <2>1, GetFatSees
  <2>3. a.r = "OK" => c \in Clusters /\ a.x \in Nat /\ (z[1] => a.x = t[c])
    BY <2>1, <2>2, GetFatSees
  <2>4. FreeNext(m, c) = IF a.r = "OK"
                         THEN IF a.x = 0 THEN Done(a.m, 0)
                              ELSE IF b.r = "OK" THEN Ok(Freed(b.m), a.x) ELSE b
                         ELSE a
    BY <1>2 DEF FreeNext, Do
  <2> HIDE DEF a
  <2>5. Good(a.m, z, "any")
    BY <2>1, <2>2 DEF Good
  <2>6. CASE a.r # "OK" \/ a.x = 0
    BY <2>4, <2>5, <2>6 DEF Done, Err
  <2>7. CASE a.r = "OK" /\ a.x # 0
    <3>1. 0 \in Nat
      OBVIOUS
    <3>2. b.r # "OK" => Sees(b.m, z, "any", t, u)
      BY <2>2, <3>1, PutFatSees
    <3>3. b.r = "OK" => Sees(b.m, z, "any", With(t, c, 0), u)
      BY <2>2, <3>1, PutFatSees
    <3> HIDE DEF b
    <3>4. c \in Clusters /\ (z[1] => t[c] # 0)
      BY <2>3, <2>7
    <3>5. b.r = "OK" => Good(Freed(b.m), z, "any")
      BY <2>1, <3>3, <3>4, FreedKeeps
    <3>6. b.r # "OK" => Good(b.m, z, "any")
      BY <2>1, <3>2 DEF Good
    <3>7. QED
      BY <2>4, <2>7, <3>5, <3>6 DEF Ok
  <2>8. QED
    BY <2>6, <2>7
<1>3. QED
  BY <1>1, <1>2

-----------------------------------------------------------------------------
(* The loops. *)

\* One turn of a loop, l its name and the values it was called with.
Body(l, m, x) ==
  IF l[1] = "free" THEN FreeNext(m, x)
  ELSE IF l[1] = "try" THEN TryNext(m, l[2], x)
  ELSE IF l[1] = "seek" THEN SeekNext(m, x)
  ELSE IF l[1] = "reserve" THEN Reserve(m, l[2], x)
  ELSE IF l[1] = "find" THEN Find(m, l[2], x)
  ELSE IF l[1] = "readdir" THEN ReadNext(m, x)
  ELSE IF l[1] = "number" THEN TryNumber(m, l[2], l[3], x)
  ELSE IF l[1] = "erase" THEN EraseNext(m, l[2], x)
  ELSE IF l[1] = "follow" THEN Follow(m, l[2], x)
  ELSE IF l[1] = "read" THEN ReadOn(m, x)
  ELSE IF l[1] = "write" THEN WriteOn(m, l[2], x)
  ELSE IF l[1] = "stretch" THEN StretchOn(m, x)
  ELSE IF l[1] = "name" THEN NameNext(m, l[2], x)
  ELSE IF l[1] = "climb" THEN Climb(m, x)
  ELSE IF l[1] = "list" THEN f_readdir(m, x)
  ELSE IF l[1] = "count" THEN CountNext(m, x)
  ELSE CatNext(m, l[2], x)
Turn(l, b) == IF b.r = "OK" THEN Body(l, b.m, b.x) ELSE b

\* A loop has a run of every length: the definition of Repeat has a value.
IsRun(f, l, a, n) == f = [i \in 0..n |-> IF i = 0 THEN a ELSE Turn(l, f[i - 1])]

\* A loop's turns, as a function of how many were made: Repeat's own.
LEMMA Runs ==
  ASSUME NEW l, NEW a, NEW n \in Nat
  PROVE  \E f : IsRun(f, l, a, n)
<1> DEFINE T == {k \in Nat : \E f : f = [i \in 0..k |-> IF i = 0 THEN a ELSE Turn(l, f[i - 1])]}
<1>1. 0 \in T
  <2> DEFINE f == [i \in 0..0 |-> a]
  <2>1. f = [i \in 0..0 |-> IF i = 0 THEN a ELSE Turn(l, f[i - 1])]
    OBVIOUS
  <2>2. QED
    BY <2>1
<1>2. ASSUME NEW k \in T PROVE k + 1 \in T
  <2>1. PICK f : f = [i \in 0..k |-> IF i = 0 THEN a ELSE Turn(l, f[i - 1])]
    OBVIOUS
  <2> DEFINE g == [i \in 0..(k + 1) |-> IF i <= k THEN f[i] ELSE Turn(l, f[k])]
             h == [i \in 0..(k + 1) |-> IF i = 0 THEN a ELSE Turn(l, g[i - 1])]
  <2>2. \A i \in 0..k : f[i] = IF i = 0 THEN a ELSE Turn(l, f[i - 1])
    BY <2>1
  <2>3. ASSUME NEW i \in 0..(k + 1) PROVE g[i] = IF i = 0 THEN a ELSE Turn(l, g[i - 1])
    <3>1. CASE i = 0
      BY <2>2, <3>1
    <3>2. CASE i \in 1..k
      <4>1. i \in 0..k /\ i - 1 \in 0..k /\ i # 0
        BY <3>2
      <4>2. g[i] = f[i] /\ g[i - 1] = f[i - 1]
        BY <4>1
      <4>3. QED
        BY <2>2, <4>1, <4>2
    <3>3. CASE i = k + 1
      <4>1. k \in 0..(k + 1) /\ k <= k /\ ~(i <= k) /\ i - 1 = k /\ i # 0
        BY <3>3
      <4>2. g[k] = f[k] /\ g[i] = Turn(l, f[k])
        BY <4>1
      <4>3. QED
        BY <4>1, <4>2
    <3>4. QED
      BY <3>1, <3>2, <3>3
  <2>4. g = h
    BY <2>3
  <2> HIDE DEF g
  <2>5. g = [i \in 0..(k + 1) |-> IF i = 0 THEN a ELSE Turn(l, g[i - 1])]
    BY <2>4
  <2>6. QED
    BY <2>5
<1>3. T = Nat
  <2> HIDE DEF T
  <2>1. T \subseteq Nat
    BY DEF T
  <2>2. QED
    BY <1>1, <1>2, <2>1, Induction
<1>4. QED
  BY <1>3 DEF IsRun

\* What holds of the start of a loop and of every turn holds of its end.
LEMMA Upto ==
  ASSUME NEW n \in Nat, NEW T, 0 \in T, \A i \in 1..n : i - 1 \in T => i \in T
  PROVE  n \in T
<1> DEFINE U == {i \in Nat : i <= n => i \in T}
<1>1. 0 \in U
  OBVIOUS
<1>2. ASSUME NEW i \in U PROVE i + 1 \in U
  <2>1. i + 1 <= n => i + 1 \in 1..n /\ (i + 1) - 1 \in T
    OBVIOUS
  <2>2. QED
    BY <2>1
<1>3. U = Nat
  <2> HIDE DEF U
  <2>1. U \subseteq Nat
    BY DEF U
  <2>2. QED
    BY <1>1, <1>2, <2>1, Induction
<1>4. QED
  BY <1>3

\* remove_chain's loop is its turns.
LEMMA FreeChainRuns ==
  ASSUME NEW m, NEW c
  PROVE  \E f : /\ FreeChain(m, c) = Ended(f[NFatEnt]) /\ f[0] = Ok(m, c)
                /\ \A i \in 1..NFatEnt : f[i] = Turn(<<"free">>, f[i - 1])
<1> DEFINE l == <<"free">>
           a == Ok(m, c)
           run[i \in 0..NFatEnt] == IF i = 0 THEN a ELSE Do(run[i - 1], FreeNext)
<1>1. \A b : Turn(l, b) = Do(b, FreeNext)
  BY DEF Turn, Body, Do
<1>2. NFatEnt \in Nat
  BY Layout
<1>3. FreeChain(m, c) = Ended(run[NFatEnt])
  BY DEF FreeChain, Repeat
<1> HIDE DEF l, a
<1>4. PICK g : IsRun(g, l, a, NFatEnt)
  BY <1>2, Runs
<1>5. g = [i \in 0..NFatEnt |-> IF i = 0 THEN a ELSE Do(g[i - 1], FreeNext)]
  BY <1>1, <1>4 DEF IsRun, Do
<1>6. run = [i \in 0..NFatEnt |-> IF i = 0 THEN a ELSE Do(run[i - 1], FreeNext)]
  BY <1>5
<1> HIDE DEF run
<1>7. run[0] = a /\ \A i \in 1..NFatEnt : run[i] = Turn(l, run[i - 1])
  BY <1>1, <1>2, <1>6 DEF Do
<1>8. QED
  BY <1>2, <1>3, <1>7 DEF l, a

\* create_chain's search is its turns.
LEMMA FindFreeRuns ==
  ASSUME NEW m, NEW scl, NEW n
  PROVE  \E f : /\ FindFree(m, scl, n) = Ended(f[NFatEnt]) /\ f[0] = Ok(m, n)
                /\ \A i \in 1..NFatEnt : f[i] = Turn(<<"try", scl>>, f[i - 1])
<1> DEFINE l == <<"try", scl>>
           a == Ok(m, n)
           run[i \in 0..NFatEnt] == IF i = 0 THEN a ELSE Do(run[i - 1], LAMBDA k, c : TryNext(k, scl, c))
<1>1. \A b : Turn(l, b) = Do(b, LAMBDA k, c : TryNext(k, scl, c))
  BY DEF Turn, Body, Do
<1>2. NFatEnt \in Nat
  BY Layout
<1>3. FindFree(m, scl, n) = Ended(run[NFatEnt])
  BY DEF FindFree, Repeat
<1> HIDE DEF l, a
<1>4. PICK g : IsRun(g, l, a, NFatEnt)
  BY <1>2, Runs
<1>5. g = [i \in 0..NFatEnt |-> IF i = 0 THEN a ELSE Do(g[i - 1], LAMBDA k, c : TryNext(k, scl, c))]
  BY <1>1, <1>4 DEF IsRun, Do
<1>6. run = [i \in 0..NFatEnt |-> IF i = 0 THEN a ELSE Do(run[i - 1], LAMBDA k, c : TryNext(k, scl, c))]
  BY <1>5
<1> HIDE DEF run
<1>7. run[0] = a /\ \A i \in 1..NFatEnt : run[i] = Turn(l, run[i - 1])
  BY <1>1, <1>2, <1>6 DEF Do
<1>8. QED
  BY <1>2, <1>3, <1>7 DEF l, a

\* The walk along a chain is its turns.
LEMMA SeekRuns ==
  ASSUME NEW m, NEW c, NEW n
  PROVE  \E f : /\ Seek(m, c, n) = Ended(f[NFatEnt]) /\ f[0] = Ok(m, [c |-> c, n |-> n])
                /\ \A i \in 1..NFatEnt : f[i] = Turn(<<"seek">>, f[i - 1])
<1> DEFINE l == <<"seek">>
           a == Ok(m, [c |-> c, n |-> n])
           run[i \in 0..NFatEnt] == IF i = 0 THEN a ELSE Do(run[i - 1], SeekNext)
<1>1. \A b : Turn(l, b) = Do(b, SeekNext)
  BY DEF Turn, Body, Do
<1>2. NFatEnt \in Nat
  BY Layout
<1>3. Seek(m, c, n) = Ended(run[NFatEnt])
  BY DEF Seek, Repeat
<1> HIDE DEF l, a
<1>4. PICK g : IsRun(g, l, a, NFatEnt)
  BY <1>2, Runs
<1>5. g = [i \in 0..NFatEnt |-> IF i = 0 THEN a ELSE Do(g[i - 1], SeekNext)]
  BY <1>1, <1>4 DEF IsRun, Do
<1>6. run = [i \in 0..NFatEnt |-> IF i = 0 THEN a ELSE Do(run[i - 1], SeekNext)]
  BY <1>5
<1> HIDE DEF run
<1>7. run[0] = a /\ \A i \in 1..NFatEnt : run[i] = Turn(l, run[i - 1])
  BY <1>1, <1>2, <1>6 DEF Do
<1>8. QED
  BY <1>2, <1>3, <1>7 DEF l, a

\* remove_chain's loop frees and counts, whatever chain it runs along.
LEMMA FreeChainKeeps ==
  ASSUME NEW m, NEW z, Good(m, z, "any"), NEW c
  PROVE  Kept(FreeChain(m, c), z, "any")
<1>1. PICK f : /\ FreeChain(m, c) = Ended(f[NFatEnt]) /\ f[0] = Ok(m, c)
               /\ \A i \in 1..NFatEnt : f[i] = Turn(<<"free">>, f[i - 1])
  BY FreeChainRuns
<1> DEFINE Inv(b) == Good(b.m, z, "any")
           T == {i \in 0..NFatEnt : Inv(f[i])}
<1>2. 0 \in T
  BY <1>1, Layout DEF Ok
<1>3. ASSUME NEW i \in 1..NFatEnt, i - 1 \in T PROVE i \in T
  <2> DEFINE b == f[i - 1]
  <2>1. Good(b.m, z, "any") /\ f[i] = Turn(<<"free">>, b)
    BY <1>1, <1>3
  <2>2. Turn(<<"free">>, b) = IF b.r = "OK" THEN FreeNext(b.m, b.x) ELSE b
    BY DEF Turn, Body
  <2> HIDE DEF b
  <2>3. Inv(Turn(<<"free">>, b))
    BY <2>1, <2>2, FreeNextKeeps
  <2>4. QED
    BY <2>1, <2>3
<1>4. Inv(f[NFatEnt])
  BY <1>2, <1>3, Upto, Layout
<1>5. QED
  BY <1>1, <1>4 DEF Ended, Kept, Ok, Err

-----------------------------------------------------------------------------
(* Allocation. *)

\* What the search for a free cluster finds.
Found(x, z, t) == x = 0 \/ (x \in Clusters /\ (z[1] => t[x] = 0))

\* A turn of create_chain's search: what it ends on is free.
LEMMA TryNextSees ==
  ASSUME NEW m, NEW z, NEW q, NEW t, NEW u, Sees(m, z, q, t, u), NEW scl, NEW n
  PROVE  LET a == TryNext(m, scl, n) IN
         Sees(a.m, z, q, t, u) /\ (a.r = "DONE" => Found(a.x, z, t))
<1> DEFINE ncl == IF n + 1 >= NFatEnt THEN 2 ELSE n + 1
           b == get_fat(m, ncl)
<1>1. CASE n + 1 >= NFatEnt /\ ncl > scl
  BY <1>1 DEF TryNext, Done, Err, Found
<1>2. CASE ~(n + 1 >= NFatEnt /\ ncl > scl)
  <2>1. TryNext(m, scl, n) = IF b.r = "OK"
                             THEN IF b.x = 0 THEN Done(b.m, ncl)
                                  ELSE IF ncl = scl THEN Done(b.m, 0) ELSE Ok(b.m, ncl)
                             ELSE b
    BY <1>2 DEF TryNext, Do
  <2> HIDE DEF ncl
  <2>2. Sees(b.m, z, q, t, u)
    BY GetFatSees
  <2>3. b.r \in {"OK", "DISK_ERR", "INT_ERR"}
    BY <2>2, GetFatSees
  <2>4. b.r = "OK" => ncl \in Clusters /\ (z[1] => b.x = t[ncl])
    BY <2>2, GetFatSees
  <2> HIDE DEF b
  <2>5. QED
    BY <2>1, <2>2, <2>3, <2>4 DEF Done, Ok, Err, Found
<1>3. QED
  BY <1>1, <1>2

\* create_chain's search changes nothing and finds a free cluster or fails.
LEMMA FindFreeSees ==
  ASSUME NEW m, NEW z, NEW q, NEW t, NEW u, Sees(m, z, q, t, u), NEW scl, NEW n
  PROVE  LET a == FindFree(m, scl, n) IN
         /\ Sees(a.m, z, q, t, u) /\ a.r # "DONE"
         /\ a.r = "OK" => Found(a.x, z, t)
<1>1. PICK f : /\ FindFree(m, scl, n) = Ended(f[NFatEnt]) /\ f[0] = Ok(m, n)
               /\ \A i \in 1..NFatEnt : f[i] = Turn(<<"try", scl>>, f[i - 1])
  BY FindFreeRuns
<1> DEFINE Inv(b) == Sees(b.m, z, q, t, u) /\ (b.r = "DONE" => Found(b.x, z, t))
           T == {i \in 0..NFatEnt : Inv(f[i])}
<1>2. 0 \in T
  BY <1>1, Layout DEF Ok
<1>3. ASSUME NEW i \in 1..NFatEnt, i - 1 \in T PROVE i \in T
  <2> DEFINE b == f[i - 1]
  <2>1. Inv(b) /\ f[i] = Turn(<<"try", scl>>, b)
    BY <1>1, <1>3
  <2>2. Turn(<<"try", scl>>, b) = IF b.r = "OK" THEN TryNext(b.m, scl, b.x) ELSE b
    BY DEF Turn, Body
  <2> HIDE DEF b
  <2>3. Inv(Turn(<<"try", scl>>, b))
    BY <2>1, <2>2, TryNextSees
  <2>4. QED
    BY <2>1, <2>3
<1>4. Inv(f[NFatEnt])
  BY <1>2, <1>3, Upto, Layout
<1>5. QED
  BY <1>1, <1>4 DEF Ended, Ok, Err

\* A cluster is taken off the count when it ends a chain.
LEMMA TakenKeeps ==
  ASSUME NEW m, NEW z, NEW q, NEW t, NEW u, NEW w, Sees(m, z, q, w, u), Counted(t, u),
         z[1] => /\ Cardinality(Free(w)) = Cardinality(Free(t)) - 1
                 /\ Cardinality(Free(t)) > 0,
         NEW ncl \in Clusters
  PROVE  LET x == [m EXCEPT !.fs.last = ncl] IN
         Good(IF x.fs.free > 0 /\ x.fs.free <= NFatEnt - 2
              THEN Touch([x EXCEPT !.fs.free = @ - 1]) ELSE x, z, q)
<1> DEFINE x == [m EXCEPT !.fs.last = ncl]
           n == x.fs.free - 1
           k == SetCount(x, n, x.fs.last, Touched(x))
<1>1. /\ Form(m) /\ m.fs.free \in Counts /\ m.fs.fsi \in 0..2 /\ ncl \in Lasts
      /\ x = SetCount(m, m.fs.free, ncl, m.fs.fsi)
  <2>1. Form(m)
    BY DEF Sees
  <2>2. m.fs.free \in Counts /\ m.fs.fsi \in 0..2 /\ x = SetCount(m, m.fs.free, ncl, m.fs.fsi)
    BY <2>1, TouchForm
  <2>3. ncl \in Lasts
    BY Layout DEF Lasts
  <2>4. QED
    BY <2>1, <2>2, <2>3
<1> HIDE DEF x
<1>2. Sees(x, z, q, w, m.fs.free)
  BY <1>1, CountSees
<1>3. x.fs.free = m.fs.free
  BY <1>1, <1>2, CountSees
<1>4. Form(x) /\ x.fs.free \in Counts /\ x.fs.last \in Lasts /\ Touched(x) \in 0..2
  BY <1>2, TouchForm DEF Sees
<1>5. NFatEnt \in Nat /\ NFatEnt > 3 /\ Counts = 0..(NFatEnt - 2) \cup {NFatEnt + 2}
  BY Layout DEF Counts, Unknown
<1>6. Cardinality(Free(t)) \in 0..(NFatEnt - 2)
  BY FreeIsFinite
<1>7. u \in {NFatEnt + 2, Cardinality(Free(t))} /\ (z[1] => m.fs.free = u)
  BY DEF Counted, Unknown, Sees
<1>8. CASE x.fs.free > 0 /\ x.fs.free <= NFatEnt - 2
  <2>1. n \in Counts
    BY <1>4, <1>5, <1>8
  <2>2. Touch([x EXCEPT !.fs.free = @ - 1]) = k
    BY <1>4, TouchForm
  <2>3. z[1] => n = Cardinality(Free(w))
    BY <1>3, <1>5, <1>6, <1>7, <1>8
  <2> HIDE DEF n
  <2>4. Sees(k, z, q, w, n)
    BY <1>2, <1>4, <2>1, CountSees
  <2>5. ~z[1] \/ Counted(w, n)
    BY <2>3 DEF Counted
  <2> HIDE DEF k
  <2>6. Good(k, z, q)
    BY <2>4, <2>5, InexactGood
  <2>7. QED
    BY <1>8, <2>2, <2>6 DEF x
<1>9. CASE ~(x.fs.free > 0 /\ x.fs.free <= NFatEnt - 2)
  <2>1. z[1] => u = NFatEnt + 2
    BY <1>3, <1>5, <1>6, <1>7, <1>9
  <2>2. ~z[1] \/ Counted(w, m.fs.free)
    BY <1>7, <2>1 DEF Counted, Unknown
  <2>3. Good(x, z, q)
    BY <1>2, <2>2, InexactGood
  <2>4. QED
    BY <1>9, <2>3 DEF x
<1>10. QED
  BY <1>8, <1>9

\* The chain that grows ends at a cluster that is in use.
LEMMA LinkKeeps ==
  ASSUME NEW m, NEW z, NEW t, NEW u, Sees(m, z, "any", t, u), Counted(t, u),
         NEW c, c = 0 \/ (c \in Clusters /\ (z[1] => t[c] # 0)),
         NEW ncl, Found(ncl, z, t)
  PROVE  LET a == Link(m, c, ncl) IN
         Kept(a, z, "any") /\ (a.r = "OK" => a.x \in {0} \cup Clusters)
<1>1. CASE ncl = 0
  BY <1>1 DEF Link, Kept, Good, Ok
<1>2. CASE ncl # 0
  <2> DEFINE a == put_fat(m, ncl, EOC)
             b == IF c = 0 THEN Ok(a.m, 0) ELSE put_fat(a.m, c, ncl)
             w == With(t, ncl, EOC)
             v == IF c = 0 THEN w ELSE With(w, c, ncl)
             x == [b.m EXCEPT !.fs.last = ncl]
             y == IF x.fs.free > 0 /\ x.fs.free <= NFatEnt - 2
                  THEN Touch([x EXCEPT !.fs.free = @ - 1]) ELSE x
  <2>1. ncl \in Clusters /\ (z[1] => t[ncl] = 0) /\ EOC \in Nat /\ EOC # 0 /\ ncl \in Nat
    BY <1>2, Layout DEF Found, EOC
  <2>2. /\ a.r \in {"OK", "DISK_ERR", "INT_ERR"}
        /\ a.r # "OK" => Sees(a.m, z, "any", t, u)
        /\ a.r = "OK" => Sees(a.m, z, "any", w, u)
    BY <2>1, PutFatSees
  <2>3. Link(m, c, ncl) = IF a.r = "OK" THEN IF b.r = "OK" THEN Ok(y, ncl) ELSE b ELSE a
    BY <1>2 DEF Link, Do
  <2> HIDE DEF a
  <2>4. CASE a.r # "OK"
    BY <2>2, <2>3, <2>4 DEF Kept, Good
  <2>5. CASE a.r = "OK"
    <3>1. z[1] => /\ Cardinality(Free(w)) = Cardinality(Free(t)) - 1
                  /\ Cardinality(Free(t)) > 0
      BY <2>1, FreeWith
    <3>2. c # 0 => (z[1] => w[c] # 0)
      BY <2>1 DEF With
    <3> HIDE DEF w
    <3>3. z[1] => Cardinality(Free(v)) = Cardinality(Free(w))
      <4>1. ncl # 0
        BY <1>2
      <4>2. c # 0 /\ z[1] => Free(With(w, c, ncl)) = Free(w)
        BY <2>1, <3>2, <4>1, FreeWith
      <4>3. QED
        BY <4>2
    <3>4. Sees(a.m, z, "any", w, u)
      BY <2>2, <2>5
    <3>5. /\ b.r \in {"OK", "DISK_ERR", "INT_ERR"}
          /\ b.r # "OK" => Sees(b.m, z, "any", w, u) /\ ~z[1]
          /\ b.r = "OK" => Sees(b.m, z, "any", v, u)
      <4>1. CASE c = 0
        BY <3>4, <4>1 DEF Ok
      <4>2. CASE c # 0
        BY <2>1, <3>4, <4>2, PutFatSees
      <4>3. QED
        BY <4>1, <4>2
    <3> HIDE DEF b, v
    <3>6. CASE b.r # "OK"
      <4>1. Good(b.m, z, "any")
        BY <3>5, <3>6, InexactGood
      <4>2. QED
        BY <2>3, <2>5, <3>5, <3>6, <4>1 DEF Kept
    <3>7. CASE b.r = "OK"
      <4>1. Sees(b.m, z, "any", v, u)
        BY <3>5, <3>7
      <4>2. z[1] => Cardinality(Free(v)) = Cardinality(Free(t)) - 1 /\ Cardinality(Free(t)) > 0
        BY <3>1, <3>3
      <4>3. Good(y, z, "any")
        BY <2>1, <4>1, <4>2, TakenKeeps
      <4> HIDE DEF y
      <4>4. QED
        BY <2>1, <2>3, <2>5, <3>7, <4>3 DEF Kept, Ok
    <3>8. QED
      BY <3>6, <3>7
  <2>6. QED
    BY <2>4, <2>5
<1>3. QED
  BY <1>1, <1>2

\* A cluster is marked the end of a chain, linked and counted.
LEMMA NewClusterKeeps ==
  ASSUME NEW m, NEW z, NEW t, NEW u, Sees(m, z, "any", t, u), Counted(t, u),
         NEW c, c = 0 \/ (c \in Clusters /\ (z[1] => t[c] # 0)), NEW last
  PROVE  LET a == NewCluster(m, c, last) IN
         Kept(a, z, "any") /\ (a.r = "OK" => a.x \in {0} \cup Clusters)
<1> DEFINE start == IF last = 0 \/ last >= NFatEnt THEN 1 ELSE last
           next  == IF c + 1 >= NFatEnt THEN 2 ELSE c + 1
           scl   == IF last \in Clusters THEN last ELSE c
           a == FindFree(m, start, start)
           g == get_fat(m, next)
           b == FindFree(g.m, scl, scl)
<1>1. NewCluster(m, c, last) =
        IF m.fs.free = 0 THEN Ok(m, 0)
        ELSE IF c = 0 THEN IF a.r = "OK" THEN Link(a.m, c, a.x) ELSE a
        ELSE IF g.r = "OK"
             THEN IF g.x = 0 THEN Link(g.m, c, next)
                  ELSE IF b.r = "OK" THEN Link(b.m, c, b.x) ELSE b
             ELSE g
  BY DEF NewCluster, Do
<1> HIDE DEF start, next, scl
<1>2. Sees(a.m, z, "any", t, u)
  BY FindFreeSees
<1>3. a.r # "DONE" /\ (a.r = "OK" => Found(a.x, z, t))
  BY <1>2, FindFreeSees
<1>4. Sees(g.m, z, "any", t, u)
  BY GetFatSees
<1>5. /\ g.r \in {"OK", "DISK_ERR", "INT_ERR"}
      /\ g.r = "OK" => next \in Clusters /\ (z[1] => g.x = t[next])
  BY <1>4, GetFatSees
<1> HIDE DEF g
<1>6. Sees(b.m, z, "any", t, u)
  BY <1>4, FindFreeSees
<1>7. b.r # "DONE" /\ (b.r = "OK" => Found(b.x, z, t))
  BY <1>4, <1>6, FindFreeSees
<1> HIDE DEF a, b
<1>8. Good(m, z, "any") /\ Good(a.m, z, "any") /\ Good(b.m, z, "any") /\ Good(g.m, z, "any")
  BY <1>2, <1>4, <1>6 DEF Good
<1>9. CASE m.fs.free = 0
  BY <1>1, <1>8, <1>9 DEF Ok, Kept
<1>10. CASE m.fs.free # 0 /\ c = 0 /\ a.r = "OK"
  <2>1. Kept(Link(a.m, c, a.x), z, "any")
    BY <1>2, <1>3, <1>10, LinkKeeps
  <2>2. Link(a.m, c, a.x).r = "OK" => Link(a.m, c, a.x).x \in {0} \cup Clusters
    BY <1>2, <1>3, <1>10, <2>1, LinkKeeps
  <2>3. QED
    BY <1>1, <1>10, <2>1, <2>2
<1>11. CASE m.fs.free # 0 /\ c # 0 /\ g.r = "OK" /\ g.x = 0
  <2>1. Found(next, z, t)
    BY <1>5, <1>11 DEF Found
  <2>2. Kept(Link(g.m, c, next), z, "any")
    BY <1>4, <2>1, LinkKeeps
  <2>3. Link(g.m, c, next).r = "OK" => Link(g.m, c, next).x \in {0} \cup Clusters
    BY <1>4, <2>1, <2>2, LinkKeeps
  <2>4. QED
    BY <1>1, <1>11, <2>2, <2>3
<1>12. CASE m.fs.free # 0 /\ c # 0 /\ g.r = "OK" /\ g.x # 0 /\ b.r = "OK"
  <2>1. Kept(Link(b.m, c, b.x), z, "any")
    BY <1>6, <1>7, <1>12, LinkKeeps
  <2>2. Link(b.m, c, b.x).r = "OK" => Link(b.m, c, b.x).x \in {0} \cup Clusters
    BY <1>6, <1>7, <1>12, <2>1, LinkKeeps
  <2>3. QED
    BY <1>1, <1>12, <2>1, <2>2
<1>13. QED
  BY <1>1, <1>3, <1>5, <1>7, <1>8, <1>9, <1>10, <1>11, <1>12 DEF Kept

\* create_chain returns a cluster, or 0 when the volume is full.
LEMMA CreateChainKeeps ==
  ASSUME NEW m, NEW z, Good(m, z, "any"), NEW c
  PROVE  LET a == create_chain(m, c) IN
         Kept(a, z, "any") /\ (a.r = "OK" => a.x \in {0} \cup Clusters)
<1> DEFINE g == get_fat(m, c)
           n == NewCluster(m, 0, m.fs.last)
           o == NewCluster(g.m, c, m.fs.last)
<1>1. PICK t, u : Counted(t, u) /\ Sees(m, z, "any", t, u)
  BY DEF Good
<1>2. create_chain(m, c) = IF c = 0 THEN n
                           ELSE IF g.r = "OK"
                                THEN IF g.x < 2 THEN Err(g.m, "INT_ERR", 0)
                                     ELSE IF g.x < NFatEnt THEN Ok(g.m, g.x) ELSE o
                                ELSE g
  BY DEF create_chain, Do
<1>3. Sees(g.m, z, "any", t, u)
  BY <1>1, GetFatSees
<1>4. /\ g.r \in {"OK", "DISK_ERR", "INT_ERR"}
      /\ g.r = "OK" => c \in Clusters /\ g.x \in Nat /\ (z[1] => g.x = t[c])
  BY <1>1, <1>3, GetFatSees
<1> HIDE DEF g
<1>5. Kept(n, z, "any")
  BY <1>1, NewClusterKeeps
<1>6. n.r = "OK" => n.x \in {0} \cup Clusters
  BY <1>1, <1>5, NewClusterKeeps
<1>7. CASE c = 0
  BY <1>2, <1>5, <1>6, <1>7
<1>8. CASE c # 0 /\ g.r = "OK" /\ g.x >= 2 /\ g.x >= NFatEnt
  <2>1. c \in Clusters /\ (z[1] => t[c] # 0)
    BY <1>4, <1>8
  <2>2. Kept(o, z, "any")
    BY <1>1, <1>3, <2>1, NewClusterKeeps
  <2>3. o.r = "OK" => o.x \in {0} \cup Clusters
    BY <1>1, <1>3, <2>1, <2>2, NewClusterKeeps
  <2> HIDE DEF n, o
  <2>4. ~(g.x < 2) /\ ~(g.x < NFatEnt)
    BY <1>4, <1>8, Layout
  <2>5. QED
    BY <1>2, <1>8, <2>2, <2>3, <2>4
<1>9. CASE c # 0 /\ ~(g.r = "OK" /\ g.x >= 2 /\ g.x >= NFatEnt)
  <2> HIDE DEF n, o
  <2>1. Good(g.m, z, "any")
    BY <1>1, <1>3 DEF Good
  <2>2. g.r = "OK" /\ ~(g.x < 2) => g.x \in Clusters /\ g.x < NFatEnt
    BY <1>4, <1>9, Layout
  <2>3. QED
    BY <1>2, <1>4, <1>9, <2>1, <2>2 DEF Kept, Ok, Err
<1>10. QED
  BY <1>7, <1>8, <1>9

\* A chain is cut off behind pc, which was in use.
LEMMA RemoveChainSees ==
  ASSUME NEW m, NEW z, NEW t, NEW u, Sees(m, z, "any", t, u), Counted(t, u),
         NEW c, NEW pc, pc = 0 \/ ~z[1] \/ (pc \in Clusters /\ t[pc] # 0)
  PROVE  LET a == remove_chain(m, c, pc) IN
         Kept(a, z, "any") /\ (a.r = "OK" => c \in Clusters)
<1> DEFINE b == IF pc = 0 THEN Ok(m, 0) ELSE put_fat(m, pc, EOC)
           a == FreeChain(b.m, c)
           w == With(t, pc, EOC)
<1>1. remove_chain(m, c, pc) = IF c \in Clusters THEN IF b.r = "OK" THEN a ELSE b
                               ELSE Err(m, "INT_ERR", 0)
  BY DEF remove_chain, OnlyIf, Do
<1>2. Good(b.m, z, "any") /\ b.r # "DONE"
  <2>1. CASE pc = 0
    BY <2>1 DEF Ok, Good
  <2>2. CASE pc # 0
    <3> DEFINE p == put_fat(m, pc, EOC)
    <3>1. EOC \in Nat /\ EOC # 0
      BY Layout DEF EOC
    <3>2. /\ p.r \in {"OK", "DISK_ERR", "INT_ERR"}
          /\ p.r # "OK" => Sees(p.m, z, "any", t, u)
          /\ p.r = "OK" => pc \in Clusters /\ Sees(p.m, z, "any", w, u)
      BY <3>1, PutFatSees
    <3>3. z[1] => Free(w) = Free(t)
      BY <2>2, <3>1, FreeWith
    <3> HIDE DEF w, p
    <3>4. p.r = "OK" => Good(p.m, z, "any")
      <4>1. ~z[1] \/ Counted(w, u)
        BY <3>3 DEF Counted
      <4>2. QED
        BY <3>2, <4>1, InexactGood
    <3>5. QED
      BY <2>2, <3>2, <3>4 DEF Good, p
  <2>3. QED
    BY <2>1, <2>2
<1> HIDE DEF b
<1>3. Kept(a, z, "any")
  BY <1>2, FreeChainKeeps
<1> HIDE DEF a
<1>4. QED
  BY <1>1, <1>2, <1>3 DEF Kept, Good, Err

\* remove_chain of a whole chain.
LEMMA RemoveChainKeeps ==
  ASSUME NEW m, NEW z, Good(m, z, "any"), NEW c
  PROVE  LET a == remove_chain(m, c, 0) IN
         Kept(a, z, "any") /\ (a.r = "OK" => c \in Clusters)
<1>1. PICK t, u : Counted(t, u) /\ Sees(m, z, "any", t, u)
  BY DEF Good
<1>2. Kept(remove_chain(m, c, 0), z, "any")
  BY <1>1, RemoveChainSees
<1>3. QED
  BY <1>1, <1>2, RemoveChainSees

-----------------------------------------------------------------------------
(* Directories. *)

\* A DIR points at a sector of data, or nowhere.
IsDp(dp) ==
  dp \in [scl : {dp.scl}, i : {dp.i}, clust : {dp.clust}, sect : Places, blk : {dp.blk}]
Forward(dp, c) == [dp EXCEPT !.i = @ + 1, !.clust = c, !.sect = clst2sect(c)]

\* A DIR that is moved on stays in the data area.
LEMMA DpKeeps ==
  ASSUME NEW dp, IsDp(dp)
  PROVE  /\ dp.sect \in Reach \ {NoSector}
         /\ \A c : IsDp(Forward(dp, c))
         /\ \A b : IsDp([dp EXCEPT !.blk = b])
<1>1. \A c : clst2sect(c) \in Places
  BY SectorOf
<1>2. dp.sect \in Reach \ {NoSector}
  BY Parted, Layout DEF IsDp, Places, DataSectors
<1>3. QED
  BY <1>1, <1>2 DEF IsDp, Forward

\* A turn of the walk along a chain.
LEMMA SeekNextKeeps ==
  ASSUME NEW m, NEW z, NEW q, Good(m, z, q), NEW at
  PROVE  Good(SeekNext(m, at).m, z, q)
<1> DEFINE g == get_fat(m, at.c)
<1>1. Kept(g, z, q)
  BY GetFatKeeps
<1>2. SeekNext(m, at) = IF at.n = 0 THEN Done(m, at.c)
                        ELSE IF g.r = "OK"
                             THEN IF g.x \in Clusters THEN Ok(g.m, [c |-> g.x, n |-> at.n - 1])
                                  ELSE Err(g.m, "INT_ERR", 0)
                             ELSE g
  BY DEF SeekNext, Do
<1> HIDE DEF g
<1>3. QED
  BY <1>1, <1>2 DEF Kept, Done, Ok, Err

\* The walk along a chain.
LEMMA SeekKeeps ==
  ASSUME NEW m, NEW z, NEW q, Good(m, z, q), NEW c, NEW n
  PROVE  Kept(Seek(m, c, n), z, q)
<1>1. PICK f : /\ Seek(m, c, n) = Ended(f[NFatEnt]) /\ f[0] = Ok(m, [c |-> c, n |-> n])
               /\ \A i \in 1..NFatEnt : f[i] = Turn(<<"seek">>, f[i - 1])
  BY SeekRuns
<1> DEFINE Inv(b) == Good(b.m, z, q)
           T == {i \in 0..NFatEnt : Inv(f[i])}
<1>2. 0 \in T
  BY <1>1, Layout DEF Ok
<1>3. ASSUME NEW i \in 1..NFatEnt, i - 1 \in T PROVE i \in T
  <2> DEFINE b == f[i - 1]
  <2>1. Inv(b) /\ f[i] = Turn(<<"seek">>, b)
    BY <1>1, <1>3
  <2>2. Turn(<<"seek">>, b) = IF b.r = "OK" THEN SeekNext(b.m, b.x) ELSE b
    BY DEF Turn, Body
  <2> HIDE DEF b
  <2>3. Inv(Turn(<<"seek">>, b))
    BY <2>1, <2>2, SeekNextKeeps
  <2>4. QED
    BY <2>1, <2>3
<1>4. Inv(f[NFatEnt])
  BY <1>2, <1>3, Upto, Layout
<1>5. QED
  BY <1>1, <1>4 DEF Ended, Kept, Ok, Err

\* dir_sdi points a DIR into the data area.
LEMMA DirSdiKeeps ==
  ASSUME NEW m, NEW z, NEW q, Good(m, z, q), NEW scl, NEW i
  PROVE  LET a == dir_sdi(m, scl, i) IN Kept(a, z, q) /\ (a.r = "OK" => IsDp(a.x))
<1> DEFINE top == IF scl = 0 THEN Root ELSE scl
           n == i \div EPS
           b == Seek(m, top, n)
           dp == [scl |-> scl, i |-> i, clust |-> b.x, sect |-> clst2sect(b.x), blk |-> NoBlk]
<1>1. dir_sdi(m, scl, i) = IF b.r = "OK"
                           THEN IF b.x \in Clusters THEN Ok(b.m, dp) ELSE Err(b.m, "INT_ERR", 0)
                           ELSE b
  BY DEF dir_sdi, Do, OnlyIf
<1> HIDE DEF top, n
<1>2. Kept(b, z, q)
  BY SeekKeeps
<1> HIDE DEF b
<1>3. IsDp(dp)
  BY SectorOf DEF IsDp
<1> HIDE DEF dp
<1>4. QED
  BY <1>1, <1>2, <1>3 DEF Kept, Ok, Err

\* dir_next without stretching.
LEMMA DirNextKeeps ==
  ASSUME NEW m, NEW z, NEW q, Good(m, z, q), NEW dp, IsDp(dp)
  PROVE  LET a == dir_next(m, dp, FALSE) IN Kept(a, z, q) /\ (a.r = "OK" => IsDp(a.x))
<1> DEFINE g == get_fat(m, dp.clust)
<1>1. dir_next(m, dp, FALSE) =
        IF (dp.i + 1) % EPS # 0 THEN Ok(m, Forward(dp, dp.clust))
        ELSE IF g.r = "OK"
             THEN IF g.x < 2 THEN Err(g.m, "INT_ERR", 0)
                  ELSE IF g.x < NFatEnt THEN Ok(g.m, Forward(dp, g.x))
                  ELSE Err(g.m, "NO_FILE", 0)
             ELSE g
  BY DEF dir_next, Do, Forward
<1>2. Kept(g, z, q)
  BY GetFatKeeps
<1> HIDE DEF g
<1>3. \A c : IsDp(Forward(dp, c))
  BY DpKeeps
<1> DEFINE a == dir_next(m, dp, FALSE)
           here == Ok(m, Forward(dp, dp.clust))
           there == Ok(g.m, Forward(dp, g.x))
<1>4. Kept(here, z, q) /\ Kept(there, z, q) /\ IsDp(here.x) /\ IsDp(there.x)
  BY <1>2, <1>3 DEF Kept, Ok
<1>5. \/ a = here \/ (g.r = "OK" /\ a = there) \/ (g.r # "OK" /\ a = g)
      \/ a = Err(g.m, "INT_ERR", 0) \/ a = Err(g.m, "NO_FILE", 0)
  BY <1>1
<1> HIDE DEF a, here, there
<1>6. Kept(a, z, q) /\ (a.r = "OK" => IsDp(a.x))
  BY <1>2, <1>4, <1>5 DEF Kept, Err
<1>7. QED
  BY <1>6 DEF a

\* dir_next that stretches the directory by a cluster.
LEMMA DirStretchKeeps ==
  ASSUME NEW m, NEW z, Good(m, z, "any"), NEW dp, IsDp(dp)
  PROVE  LET a == dir_next(m, dp, TRUE) IN Kept(a, z, "any") /\ (a.r = "OK" => IsDp(a.x))
<1> DEFINE g == get_fat(m, dp.clust)
           n == create_chain(g.m, dp.clust)
           e == Enter(n.m, "stretch")
           h == dir_clear(e, n.x)
           l == Leave(h.m, "stretch")
<1>1. dir_next(m, dp, TRUE) =
        IF (dp.i + 1) % EPS # 0 THEN Ok(m, Forward(dp, dp.clust))
        ELSE IF g.r = "OK"
             THEN IF g.x < 2 THEN Err(g.m, "INT_ERR", 0)
                  ELSE IF g.x < NFatEnt THEN Ok(g.m, Forward(dp, g.x))
                  ELSE IF n.r = "OK"
                       THEN IF n.x = 0 THEN Err(n.m, "DENIED", 0)
                            ELSE IF h.r = "OK" THEN Ok(l, Forward(dp, n.x)) ELSE h
                       ELSE n
             ELSE g
  BY DEF dir_next, Do, Forward
<1>2. Kept(g, z, "any")
  BY GetFatKeeps
<1> HIDE DEF g
<1>3. Good(g.m, z, "any") /\ g.r # "DONE"
  BY <1>2 DEF Kept
<1>4. Kept(n, z, "any")
  BY <1>3, CreateChainKeeps
<1>5. n.r = "OK" => n.x \in {0} \cup Clusters
  BY <1>3, <1>4, CreateChainKeeps
<1> HIDE DEF n
<1>6. "stretch" \in Stretches
  BY DEF Stretches
<1>7. Good(n.m, z, "any") /\ n.r # "DONE"
  BY <1>4 DEF Kept
<1>8. Good(e, z, "any")
  BY <1>6, <1>7, MarkKeeps
<1> HIDE DEF e
<1>9. n.r = "OK" /\ n.x # 0 => Kept(h, z, "any")
  BY <1>5, <1>8, DirClearKeeps
<1> HIDE DEF h
<1>10. n.r = "OK" /\ n.x # 0 => Good(l, z, "any")
  BY <1>6, <1>9, MarkKeeps DEF Kept
<1> HIDE DEF l
<1>11. \A c : IsDp(Forward(dp, c))
  BY DpKeeps
<1> DEFINE a == dir_next(m, dp, TRUE)
           here == Ok(m, Forward(dp, dp.clust))
           there == Ok(g.m, Forward(dp, g.x))
           new == Ok(l, Forward(dp, n.x))
<1>12. Kept(here, z, "any") /\ Kept(there, z, "any") /\ IsDp(here.x) /\ IsDp(there.x) /\ IsDp(new.x)
  BY <1>2, <1>11 DEF Kept, Ok
<1>13. n.r = "OK" /\ n.x # 0 => Kept(new, z, "any")
  BY <1>10 DEF Kept, Ok
<1>14. \/ a = here \/ a = there \/ (g.r # "OK" /\ a = g) \/ (n.r # "OK" /\ a = n)
       \/ a = Err(g.m, "INT_ERR", 0) \/ a = Err(n.m, "DENIED", 0)
       \/ (n.r = "OK" /\ n.x # 0 /\ a = new) \/ (n.r = "OK" /\ n.x # 0 /\ h.r # "OK" /\ a = h)
  BY <1>1
<1> HIDE DEF a, here, there, new
<1>15. Kept(a, z, "any") /\ (a.r = "OK" => IsDp(a.x))
  BY <1>3, <1>7, <1>9, <1>12, <1>13, <1>14 DEF Kept, Err
<1>16. QED
  BY <1>15 DEF a

\* A turn of dir_alloc's loop.
LEMMA ReserveKeeps ==
  ASSUME NEW m, NEW z, Good(m, z, "any"), NEW want, NEW at, IsDp(at.dp)
  PROVE  LET a == Reserve(m, want, at) IN
         /\ Good(a.m, z, "any")
         /\ a.r = "OK" => IsDp(a.x.dp)
         /\ a.r = "DONE" => IsDp(a.x)
<1> DEFINE b == move_window(m, at.dp.sect)
           free == IF Slot(b.m.fs.win, at.dp.i).t \in {"end", "deleted"} THEN at.n + 1 ELSE 0
           d == dir_next(b.m, at.dp, TRUE)
<1>1. Reserve(m, want, at) =
        IF b.r = "OK"
        THEN IF free = want THEN Done(b.m, at.dp)
             ELSE IF d.r = "OK" THEN Ok(d.m, [dp |-> d.x, n |-> free]) ELSE d
        ELSE b
  BY DEF Reserve, Do
<1> HIDE DEF free
<1>2. Kept(b, z, "any")
  BY DpKeeps, MoveWindowKeeps
<1> HIDE DEF b
<1>3. Good(b.m, z, "any") /\ b.r # "DONE"
  BY <1>2 DEF Kept
<1>4. Kept(d, z, "any")
  BY <1>3, DirStretchKeeps
<1>5. d.r = "OK" => IsDp(d.x)
  BY <1>3, <1>4, DirStretchKeeps
<1> HIDE DEF d
<1>6. QED
  BY <1>1, <1>3, <1>4, <1>5 DEF Kept, Ok, Done, Err

-----------------------------------------------------------------------------
(* Entries of a directory. *)

\* The loops' bounds are numbers.
LEMMA Bounds == MaxEntries \in Nat /\ MaxUnits \in Nat
<1>1. EPS \in Nat /\ SS \in Nat /\ NFatEnt \in Nat
  BY FatFsAssumption
<1>2. QED
  BY <1>1 DEF MaxEntries, MaxUnits

AllocLoop(m, want, dp) ==
  Repeat(MaxEntries, Ok(m, [dp |-> dp, n |-> 0]), LAMBDA j, at : Reserve(j, want, at))

\* dir_alloc's loop is its turns.
LEMMA AllocLoopRuns ==
  ASSUME NEW m, NEW want, NEW dp
  PROVE  \E f : /\ AllocLoop(m, want, dp) = Ended(f[MaxEntries]) /\ f[0] = Ok(m, [dp |-> dp, n |-> 0])
                /\ \A i \in 1..MaxEntries : f[i] = Turn(<<"reserve", want>>, f[i - 1])
<1> DEFINE l == <<"reserve", want>>
           a == Ok(m, [dp |-> dp, n |-> 0])
           run[i \in 0..MaxEntries] == IF i = 0 THEN a ELSE Do(run[i - 1], LAMBDA j, at : Reserve(j, want, at))
<1>1. \A b : Turn(l, b) = Do(b, LAMBDA j, at : Reserve(j, want, at))
  BY DEF Turn, Body, Do
<1>2. MaxEntries \in Nat
  BY Bounds
<1>3. AllocLoop(m, want, dp) = Ended(run[MaxEntries])
  BY DEF AllocLoop, Repeat
<1> HIDE DEF l, a
<1>4. PICK g : IsRun(g, l, a, MaxEntries)
  BY <1>2, Runs
<1>5. g = [i \in 0..MaxEntries |-> IF i = 0 THEN a ELSE Do(g[i - 1], LAMBDA j, at : Reserve(j, want, at))]
  BY <1>1, <1>4 DEF IsRun, Do
<1>6. run = [i \in 0..MaxEntries |-> IF i = 0 THEN a ELSE Do(run[i - 1], LAMBDA j, at : Reserve(j, want, at))]
  BY <1>5
<1> HIDE DEF run
<1>7. run[0] = a /\ \A i \in 1..MaxEntries : run[i] = Turn(l, run[i - 1])
  BY <1>1, <1>2, <1>6 DEF Do
<1>8. QED
  BY <1>2, <1>3, <1>7 DEF l, a

\* dir_alloc's loop.
LEMMA AllocLoopKeeps ==
  ASSUME NEW m, NEW z, Good(m, z, "any"), NEW want, NEW dp, IsDp(dp)
  PROVE  LET a == AllocLoop(m, want, dp) IN Kept(a, z, "any") /\ (a.r = "OK" => IsDp(a.x))
<1>1. PICK f : /\ AllocLoop(m, want, dp) = Ended(f[MaxEntries]) /\ f[0] = Ok(m, [dp |-> dp, n |-> 0])
               /\ \A i \in 1..MaxEntries : f[i] = Turn(<<"reserve", want>>, f[i - 1])
  BY AllocLoopRuns
<1> DEFINE Inv(b) == /\ Good(b.m, z, "any") /\ (b.r = "OK" => IsDp(b.x.dp))
                     /\ (b.r = "DONE" => IsDp(b.x))
           T == {i \in 0..MaxEntries : Inv(f[i])}
<1>2. 0 \in T
  BY <1>1, Bounds DEF Ok
<1>3. ASSUME NEW i \in 1..MaxEntries, i - 1 \in T PROVE i \in T
  <2> DEFINE b == f[i - 1]
  <2>1. Inv(b) /\ f[i] = Turn(<<"reserve", want>>, b)
    BY <1>1, <1>3
  <2>2. Turn(<<"reserve", want>>, b) = IF b.r = "OK" THEN Reserve(b.m, want, b.x) ELSE b
    BY DEF Turn, Body
  <2> HIDE DEF b
  <2>3. Inv(Turn(<<"reserve", want>>, b))
    BY <2>1, <2>2, ReserveKeeps
  <2>4. QED
    BY <2>1, <2>3
<1>4. Inv(f[MaxEntries])
  BY <1>2, <1>3, Upto, Bounds
<1>5. QED
  BY <1>1, <1>4 DEF Ended, Kept, Ok, Err

\* dir_alloc returns a DIR in the data area.
LEMMA DirAllocKeeps ==
  ASSUME NEW m, NEW z, Good(m, z, "any"), NEW scl, NEW n
  PROVE  LET a == dir_alloc(m, scl, n) IN Kept(a, z, "any") /\ (a.r = "OK" => IsDp(a.x))
<1> DEFINE s == dir_sdi(m, scl, 0)
           b == AllocLoop(s.m, n, s.x)
<1>1. dir_alloc(m, scl, n) = IF s.r = "OK" THEN b ELSE s
  BY DEF dir_alloc, Do, AllocLoop
<1>2. Kept(s, z, "any")
  BY DirSdiKeeps
<1>3. s.r = "OK" => IsDp(s.x)
  BY <1>2, DirSdiKeeps
<1> HIDE DEF s
<1>4. s.r = "OK" => Kept(b, z, "any")
  BY <1>2, <1>3, AllocLoopKeeps DEF Kept
<1>5. s.r = "OK" => (b.r = "OK" => IsDp(b.x))
  BY <1>2, <1>3, <1>4, AllocLoopKeeps DEF Kept
<1> HIDE DEF b
<1>6. QED
  BY <1>1, <1>2, <1>4, <1>5

\* A search goes on to the next entry.
LEMMA GoOnKeeps ==
  ASSUME NEW m, NEW z, NEW q, Good(m, z, q), NEW dp, IsDp(dp), NEW blk, NEW hit
  PROVE  LET a == GoOn(m, dp, blk, hit) IN
         Kept(a, z, q) /\ (a.r = "OK" => IsDp(a.x.dp))
<1> DEFINE d == [dp EXCEPT !.blk = blk]
           n == dir_next(m, d, FALSE)
<1>1. GoOn(m, dp, blk, hit) = IF n.r = "OK" THEN Ok(n.m, [dp |-> n.x, hit |-> hit]) ELSE n
  BY DEF GoOn, Do
<1>2. IsDp(d)
  BY DpKeeps
<1> HIDE DEF d
<1>3. Kept(n, z, q)
  BY <1>2, DirNextKeeps
<1>4. n.r = "OK" => IsDp(n.x)
  BY <1>2, <1>3, DirNextKeeps
<1> HIDE DEF n
<1>5. QED
  BY <1>1, <1>3, <1>4 DEF Kept, Ok

\* A turn of dir_find's loop.
LEMMA FindKeeps ==
  ASSUME NEW m, NEW z, NEW q, Good(m, z, q), NEW fn, NEW at, IsDp(at.dp)
  PROVE  LET a == Find(m, fn, at) IN
         Good(a.m, z, q) /\ (a.r \in {"OK", "DONE"} => IsDp(a.x.dp))
<1> DEFINE a == Find(m, fn, at)
           dp == at.dp
           w == move_window(m, dp.sect)
           e == Slot(w.m.fs.win, dp.i)
<1>1. \/ w.r # "OK" /\ a = w
      \/ a = Err(w.m, "NO_FILE", 0)
      \/ \E blk, hit : a = GoOn(w.m, dp, blk, hit)
      \/ a = Done(w.m, [dp |-> dp, e |-> e])
  BY DEF Find, Do
<1> HIDE DEF a, e
<1>2. Kept(w, z, q)
  BY DpKeeps, MoveWindowKeeps
<1> HIDE DEF w
<1>3. ASSUME NEW blk, NEW hit, a = GoOn(w.m, dp, blk, hit)
      PROVE  Good(a.m, z, q) /\ (a.r \in {"OK", "DONE"} => IsDp(a.x.dp))
  <2>1. Kept(GoOn(w.m, dp, blk, hit), z, q)
    BY <1>2, GoOnKeeps DEF Kept
  <2>2. GoOn(w.m, dp, blk, hit).r = "OK" => IsDp(GoOn(w.m, dp, blk, hit).x.dp)
    BY <1>2, <2>1, GoOnKeeps DEF Kept
  <2>3. QED
    BY <1>3, <2>1, <2>2 DEF Kept
<1>4. Good(a.m, z, q) /\ (a.r \in {"OK", "DONE"} => IsDp(a.x.dp))
  BY <1>1, <1>2, <1>3 DEF Kept, Err, Done
<1>5. QED
  BY <1>4 DEF a

FindLoop(m, fn, dp) ==
  Repeat(MaxEntries, Ok(m, [dp |-> dp, hit |-> <<>>]), LAMBDA j, at : Find(j, fn, at))

\* dir_find's loop is its turns.
LEMMA FindLoopRuns ==
  ASSUME NEW m, NEW fn, NEW dp
  PROVE  \E f : /\ FindLoop(m, fn, dp) = Ended(f[MaxEntries]) /\ f[0] = Ok(m, [dp |-> dp, hit |-> <<>>])
                /\ \A i \in 1..MaxEntries : f[i] = Turn(<<"find", fn>>, f[i - 1])
<1> DEFINE l == <<"find", fn>>
           a == Ok(m, [dp |-> dp, hit |-> <<>>])
           run[i \in 0..MaxEntries] == IF i = 0 THEN a ELSE Do(run[i - 1], LAMBDA j, at : Find(j, fn, at))
<1>1. \A b : Turn(l, b) = Do(b, LAMBDA j, at : Find(j, fn, at))
  BY DEF Turn, Body, Do
<1>2. MaxEntries \in Nat
  BY Bounds
<1>3. FindLoop(m, fn, dp) = Ended(run[MaxEntries])
  BY DEF FindLoop, Repeat
<1> HIDE DEF l, a
<1>4. PICK g : IsRun(g, l, a, MaxEntries)
  BY <1>2, Runs
<1>5. g = [i \in 0..MaxEntries |-> IF i = 0 THEN a ELSE Do(g[i - 1], LAMBDA j, at : Find(j, fn, at))]
  BY <1>1, <1>4 DEF IsRun, Do
<1>6. run = [i \in 0..MaxEntries |-> IF i = 0 THEN a ELSE Do(run[i - 1], LAMBDA j, at : Find(j, fn, at))]
  BY <1>5
<1> HIDE DEF run
<1>7. run[0] = a /\ \A i \in 1..MaxEntries : run[i] = Turn(l, run[i - 1])
  BY <1>1, <1>2, <1>6 DEF Do
<1>8. QED
  BY <1>2, <1>3, <1>7 DEF l, a

\* dir_find's loop.
LEMMA FindLoopKeeps ==
  ASSUME NEW m, NEW z, NEW q, Good(m, z, q), NEW fn, NEW dp, IsDp(dp)
  PROVE  LET a == FindLoop(m, fn, dp) IN Kept(a, z, q) /\ (a.r = "OK" => IsDp(a.x.dp))
<1>1. PICK f : /\ FindLoop(m, fn, dp) = Ended(f[MaxEntries]) /\ f[0] = Ok(m, [dp |-> dp, hit |-> <<>>])
               /\ \A i \in 1..MaxEntries : f[i] = Turn(<<"find", fn>>, f[i - 1])
  BY FindLoopRuns
<1> DEFINE Inv(b) == Good(b.m, z, q) /\ (b.r \in {"OK", "DONE"} => IsDp(b.x.dp))
           T == {i \in 0..MaxEntries : Inv(f[i])}
<1>2. 0 \in T
  BY <1>1, Bounds DEF Ok
<1>3. ASSUME NEW i \in 1..MaxEntries, i - 1 \in T PROVE i \in T
  <2> DEFINE b == f[i - 1]
  <2>1. Inv(b) /\ f[i] = Turn(<<"find", fn>>, b)
    BY <1>1, <1>3
  <2>2. Turn(<<"find", fn>>, b) = IF b.r = "OK" THEN Find(b.m, fn, b.x) ELSE b
    BY DEF Turn, Body
  <2> HIDE DEF b
  <2>3. Inv(Turn(<<"find", fn>>, b))
    BY <2>1, <2>2, FindKeeps
  <2>4. QED
    BY <2>1, <2>3
<1>4. Inv(f[MaxEntries])
  BY <1>2, <1>3, Upto, Bounds
<1>5. QED
  BY <1>1, <1>4 DEF Ended, Kept, Ok, Err

\* dir_find only looks.
LEMMA DirFindKeeps ==
  ASSUME NEW m, NEW z, NEW q, Good(m, z, q), NEW scl, NEW fn
  PROVE  LET a == dir_find(m, scl, fn) IN Kept(a, z, q) /\ (a.r = "OK" => IsDp(a.x.dp))
<1> DEFINE s == dir_sdi(m, scl, 0)
           b == FindLoop(s.m, fn, s.x)
<1>1. dir_find(m, scl, fn) = IF s.r = "OK" THEN b ELSE s
  BY DEF dir_find, Do, FindLoop
<1>2. Kept(s, z, q)
  BY DirSdiKeeps
<1>3. s.r = "OK" => IsDp(s.x)
  BY <1>2, DirSdiKeeps
<1> HIDE DEF s
<1>4. s.r = "OK" => Kept(b, z, q)
  BY <1>2, <1>3, FindLoopKeeps DEF Kept
<1>5. s.r = "OK" => (b.r = "OK" => IsDp(b.x.dp))
  BY <1>2, <1>3, <1>4, FindLoopKeeps DEF Kept
<1> HIDE DEF b
<1>6. QED
  BY <1>1, <1>2, <1>4, <1>5

\* A turn of dir_read's loop.
LEMMA ReadNextKeeps ==
  ASSUME NEW m, NEW z, NEW q, Good(m, z, q), NEW at, IsDp(at.dp)
  PROVE  LET a == ReadNext(m, at) IN
         Good(a.m, z, q) /\ (a.r \in {"OK", "DONE"} => IsDp(a.x.dp))
<1> DEFINE a == ReadNext(m, at)
           dp == at.dp
           w == move_window(m, dp.sect)
<1>1. \/ w.r # "OK" /\ a = w
      \/ a = Err(w.m, "NO_FILE", 0)
      \/ \E blk, hit : a = GoOn(w.m, dp, blk, hit)
      \/ \E e, show : a = Done(w.m, [dp |-> dp, e |-> e, show |-> show])
  BY DEF ReadNext, Do
<1> HIDE DEF a
<1>2. Kept(w, z, q)
  BY DpKeeps, MoveWindowKeeps
<1> HIDE DEF w
<1>3. ASSUME NEW blk, NEW hit, a = GoOn(w.m, dp, blk, hit)
      PROVE  Good(a.m, z, q) /\ (a.r \in {"OK", "DONE"} => IsDp(a.x.dp))
  <2>1. Kept(GoOn(w.m, dp, blk, hit), z, q)
    BY <1>2, GoOnKeeps DEF Kept
  <2>2. GoOn(w.m, dp, blk, hit).r = "OK" => IsDp(GoOn(w.m, dp, blk, hit).x.dp)
    BY <1>2, <2>1, GoOnKeeps DEF Kept
  <2>3. QED
    BY <1>3, <2>1, <2>2 DEF Kept
<1>4. Good(a.m, z, q) /\ (a.r \in {"OK", "DONE"} => IsDp(a.x.dp))
  BY <1>1, <1>2, <1>3 DEF Kept, Err, Done
<1>5. QED
  BY <1>4 DEF a

\* dir_read's loop is its turns.
LEMMA DirReadRuns ==
  ASSUME NEW m, NEW dp
  PROVE  \E f : /\ dir_read(m, dp) = Ended(f[MaxEntries]) /\ f[0] = Ok(m, [dp |-> dp, hit |-> <<>>])
                /\ \A i \in 1..MaxEntries : f[i] = Turn(<<"readdir">>, f[i - 1])
<1> DEFINE l == <<"readdir">>
           a == Ok(m, [dp |-> dp, hit |-> <<>>])
           run[i \in 0..MaxEntries] == IF i = 0 THEN a ELSE Do(run[i - 1], ReadNext)
<1>1. \A b : Turn(l, b) = Do(b, ReadNext)
  BY DEF Turn, Body, Do
<1>2. MaxEntries \in Nat
  BY Bounds
<1>3. dir_read(m, dp) = Ended(run[MaxEntries])
  BY DEF dir_read, Repeat
<1> HIDE DEF l, a
<1>4. PICK g : IsRun(g, l, a, MaxEntries)
  BY <1>2, Runs
<1>5. g = [i \in 0..MaxEntries |-> IF i = 0 THEN a ELSE Do(g[i - 1], ReadNext)]
  BY <1>1, <1>4 DEF IsRun, Do
<1>6. run = [i \in 0..MaxEntries |-> IF i = 0 THEN a ELSE Do(run[i - 1], ReadNext)]
  BY <1>5
<1> HIDE DEF run
<1>7. run[0] = a /\ \A i \in 1..MaxEntries : run[i] = Turn(l, run[i - 1])
  BY <1>1, <1>2, <1>6 DEF Do
<1>8. QED
  BY <1>2, <1>3, <1>7 DEF l, a

\* dir_read only looks.
LEMMA DirReadKeeps ==
  ASSUME NEW m, NEW z, NEW q, Good(m, z, q), NEW dp, IsDp(dp)
  PROVE  LET a == dir_read(m, dp) IN Kept(a, z, q) /\ (a.r = "OK" => IsDp(a.x.dp))
<1>1. PICK f : /\ dir_read(m, dp) = Ended(f[MaxEntries]) /\ f[0] = Ok(m, [dp |-> dp, hit |-> <<>>])
               /\ \A i \in 1..MaxEntries : f[i] = Turn(<<"readdir">>, f[i - 1])
  BY DirReadRuns
<1> DEFINE Inv(b) == Good(b.m, z, q) /\ (b.r \in {"OK", "DONE"} => IsDp(b.x.dp))
           T == {i \in 0..MaxEntries : Inv(f[i])}
<1>2. 0 \in T
  BY <1>1, Bounds DEF Ok
<1>3. ASSUME NEW i \in 1..MaxEntries, i - 1 \in T PROVE i \in T
  <2> DEFINE b == f[i - 1]
  <2>1. Inv(b) /\ f[i] = Turn(<<"readdir">>, b)
    BY <1>1, <1>3
  <2>2. Turn(<<"readdir">>, b) = IF b.r = "OK" THEN ReadNext(b.m, b.x) ELSE b
    BY DEF Turn, Body
  <2> HIDE DEF b
  <2>3. Inv(Turn(<<"readdir">>, b))
    BY <2>1, <2>2, ReadNextKeeps
  <2>4. QED
    BY <2>1, <2>3
<1>4. Inv(f[MaxEntries])
  BY <1>2, <1>3, Upto, Bounds
<1>5. QED
  BY <1>1, <1>4 DEF Ended, Kept, Ok, Err

-----------------------------------------------------------------------------
(* Entries are written. *)

\* An entry is written in the window.
LEMMA PutEntryKeeps ==
  ASSUME NEW m, NEW z, NEW q, Good(m, z, q), NEW dp, IsDp(dp), NEW e
  PROVE  LET a == PutEntry(m, dp, e) IN Kept(a, z, "any") /\ (a.r = "OK" => a.x = dp)
<1> DEFINE w == move_window(m, dp.sect)
           k == SetEntry(w.m, dp, e)
<1>1. PutEntry(m, dp, e) = IF w.r = "OK" THEN Ok(k, dp) ELSE w
  BY DEF PutEntry, Do
<1>2. Kept(w, z, q)
  BY DpKeeps, MoveWindowKeeps
<1> HIDE DEF w
<1>3. Good(k, z, "any")
  BY <1>2, SetEntryKeeps DEF Kept
<1> HIDE DEF k
<1>4. Good(w.m, z, "any")
  BY <1>2, GoodForm DEF Kept
<1>5. QED
  BY <1>1, <1>2, <1>3, <1>4 DEF Kept, Ok

\* A turn of the search for a numbered name only looks.
LEMMA TryNumberKeeps ==
  ASSUME NEW m, NEW z, NEW q, Good(m, z, q), NEW scl, NEW fn, NEW n
  PROVE  Good(TryNumber(m, scl, fn, n).m, z, q)
<1> DEFINE g == gen_numname(fn, n)
           a == dir_find(m, scl, g)
<1>1. \E e, x : TryNumber(m, scl, fn, n) = Err(a.m, e, x) \/ TryNumber(m, scl, fn, n) = a
  BY DEF TryNumber, Ok, Done, Err
<1> HIDE DEF g
<1>2. Kept(a, z, q)
  BY DirFindKeeps
<1> HIDE DEF a
<1>3. QED
  BY <1>1, <1>2 DEF Kept, Err

\* The search for a numbered name is its turns.
LEMMA NumberedNameRuns ==
  ASSUME NEW m, NEW scl, NEW fn
  PROVE  \E f : /\ NumberedName(m, scl, fn) = Ended(f[MaxEntries]) /\ f[0] = Ok(m, 1)
                /\ \A i \in 1..MaxEntries : f[i] = Turn(<<"number", scl, fn>>, f[i - 1])
<1> DEFINE l == <<"number", scl, fn>>
           a == Ok(m, 1)
           run[i \in 0..MaxEntries] == IF i = 0 THEN a ELSE Do(run[i - 1], LAMBDA k, n : TryNumber(k, scl, fn, n))
<1>1. \A b : Turn(l, b) = Do(b, LAMBDA k, n : TryNumber(k, scl, fn, n))
  BY DEF Turn, Body, Do
<1>2. MaxEntries \in Nat
  BY Bounds
<1>3. NumberedName(m, scl, fn) = Ended(run[MaxEntries])
  BY DEF NumberedName, Repeat
<1> HIDE DEF l, a
<1>4. PICK g : IsRun(g, l, a, MaxEntries)
  BY <1>2, Runs
<1>5. g = [i \in 0..MaxEntries |-> IF i = 0 THEN a ELSE Do(g[i - 1], LAMBDA k, n : TryNumber(k, scl, fn, n))]
  BY <1>1, <1>4 DEF IsRun, Do
<1>6. run = [i \in 0..MaxEntries |-> IF i = 0 THEN a ELSE Do(run[i - 1], LAMBDA k, n : TryNumber(k, scl, fn, n))]
  BY <1>5
<1> HIDE DEF run
<1>7. run[0] = a /\ \A i \in 1..MaxEntries : run[i] = Turn(l, run[i - 1])
  BY <1>1, <1>2, <1>6 DEF Do
<1>8. QED
  BY <1>2, <1>3, <1>7 DEF l, a

\* The search for a numbered name only looks.
LEMMA NumberedNameKeeps ==
  ASSUME NEW m, NEW z, NEW q, Good(m, z, q), NEW scl, NEW fn
  PROVE  Kept(NumberedName(m, scl, fn), z, q)
<1>1. PICK f : /\ NumberedName(m, scl, fn) = Ended(f[MaxEntries]) /\ f[0] = Ok(m, 1)
               /\ \A i \in 1..MaxEntries : f[i] = Turn(<<"number", scl, fn>>, f[i - 1])
  BY NumberedNameRuns
<1> DEFINE Inv(b) == Good(b.m, z, q)
           T == {i \in 0..MaxEntries : Inv(f[i])}
<1>2. 0 \in T
  BY <1>1, Bounds DEF Ok
<1>3. ASSUME NEW i \in 1..MaxEntries, i - 1 \in T PROVE i \in T
  <2> DEFINE b == f[i - 1]
  <2>1. Inv(b) /\ f[i] = Turn(<<"number", scl, fn>>, b)
    BY <1>1, <1>3
  <2>2. Turn(<<"number", scl, fn>>, b) = IF b.r = "OK" THEN TryNumber(b.m, scl, fn, b.x) ELSE b
    BY DEF Turn, Body
  <2> HIDE DEF b
  <2>3. Inv(Turn(<<"number", scl, fn>>, b))
    BY <2>1, <2>2, TryNumberKeeps
  <2>4. QED
    BY <2>1, <2>3
<1>4. Inv(f[MaxEntries])
  BY <1>2, <1>3, Upto, Bounds
<1>5. QED
  BY <1>1, <1>4 DEF Ended, Kept, Ok, Err

\* A long name's entry is written before its 8.3 entry.
LEMMA PutLongKeeps ==
  ASSUME NEW m, NEW z, Good(m, z, "any"), NEW scl, NEW fn, NEW sfn, NEW dp
  PROVE  LET a == PutLong(m, scl, fn, sfn, dp) IN Kept(a, z, "any") /\ (a.r = "OK" => IsDp(a.x))
<1> DEFINE s == dir_sdi(m, scl, dp.i - 1)
           e == Entry("lfn", fn.lfn, sfn, 0, 0)
           p == PutEntry(s.m, s.x, e)
           d == dir_next(p.m, s.x, FALSE)
<1>1. PutLong(m, scl, fn, sfn, dp) = IF s.r = "OK" THEN IF p.r = "OK" THEN d ELSE p ELSE s
  BY DEF PutLong, Do
<1> HIDE DEF e
<1>2. Kept(s, z, "any")
  BY DirSdiKeeps
<1>3. s.r = "OK" => IsDp(s.x)
  BY <1>2, DirSdiKeeps
<1> HIDE DEF s
<1>4. s.r = "OK" => Kept(p, z, "any")
  BY <1>2, <1>3, PutEntryKeeps DEF Kept
<1> HIDE DEF p
<1>5. s.r = "OK" => Kept(d, z, "any")
  BY <1>3, <1>4, DirNextKeeps DEF Kept
<1>6. s.r = "OK" => (d.r = "OK" => IsDp(d.x))
  BY <1>3, <1>4, <1>5, DirNextKeeps DEF Kept
<1> HIDE DEF d
<1>7. QED
  BY <1>1, <1>2, <1>4, <1>5, <1>6

\* dir_register returns the DIR of the new entry.
LEMMA DirRegisterKeeps ==
  ASSUME NEW m, NEW z, Good(m, z, "any"), NEW scl, NEW fn
  PROVE  LET a == dir_register(m, scl, fn) IN Kept(a, z, "any") /\ (a.r = "OK" => IsDp(a.x))
<1> DEFINE n == IF fn.loss THEN NumberedName(m, scl, fn) ELSE Ok(m, fn.sfn)
           l == dir_alloc(n.m, scl, IF fn.long THEN 2 ELSE 1)
           g == PutLong(l.m, scl, fn, n.x, l.x)
           t == IF fn.long THEN g ELSE Ok(l.m, l.x)
           e == Entry("file", "", n.x, 0, 0)
           w == PutEntry(t.m, t.x, e)
<1>1. dir_register(m, scl, fn) =
        IF fn.dot THEN Err(m, "INVALID_NAME", 0)
        ELSE IF n.r = "OK" THEN IF l.r = "OK" THEN IF t.r = "OK" THEN w ELSE t ELSE l ELSE n
  BY DEF dir_register, Do
<1> HIDE DEF e
<1>2. Kept(n, z, "any")
  BY NumberedNameKeeps DEF Kept, Ok
<1> HIDE DEF n
<1>3. Kept(l, z, "any")
  BY <1>2, DirAllocKeeps DEF Kept
<1>4. l.r = "OK" => IsDp(l.x)
  BY <1>2, <1>3, DirAllocKeeps DEF Kept
<1> HIDE DEF l
<1>5. Kept(g, z, "any")
  BY <1>3, PutLongKeeps DEF Kept
<1>6. g.r = "OK" => IsDp(g.x)
  BY <1>3, <1>5, PutLongKeeps DEF Kept
<1> HIDE DEF g
<1>7. l.r = "OK" => Kept(t, z, "any") /\ (t.r = "OK" => IsDp(t.x))
  BY <1>3, <1>4, <1>5, <1>6 DEF Kept, Ok
<1> HIDE DEF t
<1>8. l.r = "OK" /\ t.r = "OK" => Kept(w, z, "any")
  BY <1>7, PutEntryKeeps DEF Kept
<1>9. l.r = "OK" /\ t.r = "OK" => (w.r = "OK" => w.x = t.x)
  BY <1>7, <1>8, PutEntryKeeps DEF Kept
<1> HIDE DEF w
<1>10. QED
  BY <1>1, <1>2, <1>3, <1>7, <1>8, <1>9 DEF Kept, Err

\* A turn of dir_remove's loop.
LEMMA EraseNextKeeps ==
  ASSUME NEW m, NEW z, Good(m, z, "any"), NEW last, NEW dp, IsDp(dp)
  PROVE  LET a == EraseNext(m, last, dp) IN
         Good(a.m, z, "any") /\ (a.r = "OK" => IsDp(a.x))
<1> DEFINE p == PutEntry(m, dp, Ddem)
           d == dir_next(p.m, dp, FALSE)
           e == Enter(d.m, "erase")
<1>1. EraseNext(m, last, dp) =
        IF p.r = "OK"
        THEN IF dp.i >= last THEN Done(p.m, 0)
             ELSE IF d.r = "NO_FILE" THEN Err(d.m, "INT_ERR", 0)
             ELSE IF d.r = "OK" THEN Ok(IF d.x.sect = dp.sect THEN d.m ELSE e, d.x) ELSE d
        ELSE p
  BY DEF EraseNext, Do
<1>2. Kept(p, z, "any")
  BY PutEntryKeeps
<1> HIDE DEF p
<1>3. Kept(d, z, "any")
  BY <1>2, DirNextKeeps DEF Kept
<1>4. d.r = "OK" => IsDp(d.x)
  BY <1>2, <1>3, DirNextKeeps DEF Kept
<1> HIDE DEF d
<1>5. Good(e, z, "any")
  <2>1. "erase" \in Stretches
    BY DEF Stretches
  <2>2. QED
    BY <1>3, <2>1, MarkKeeps DEF Kept
<1> HIDE DEF e
<1>6. QED
  BY <1>1, <1>2, <1>3, <1>4, <1>5 DEF Kept, Done, Ok, Err

EraseLoop(m, last, dp) == Repeat(2, Ok(m, dp), LAMBDA j, e : EraseNext(j, last, e))

\* dir_remove's loop is its turns.
LEMMA EraseLoopRuns ==
  ASSUME NEW m, NEW last, NEW dp
  PROVE  \E f : /\ EraseLoop(m, last, dp) = Ended(f[2]) /\ f[0] = Ok(m, dp)
                /\ \A i \in 1..2 : f[i] = Turn(<<"erase", last>>, f[i - 1])
<1> DEFINE l == <<"erase", last>>
           a == Ok(m, dp)
           run[i \in 0..2] == IF i = 0 THEN a ELSE Do(run[i - 1], LAMBDA j, e : EraseNext(j, last, e))
<1>1. \A b : Turn(l, b) = Do(b, LAMBDA j, e : EraseNext(j, last, e))
  BY DEF Turn, Body, Do
<1>2. 2 \in Nat
  BY Bounds
<1>3. EraseLoop(m, last, dp) = Ended(run[2])
  BY DEF EraseLoop, Repeat
<1> HIDE DEF l, a
<1>4. PICK g : IsRun(g, l, a, 2)
  BY <1>2, Runs
<1>5. g = [i \in 0..2 |-> IF i = 0 THEN a ELSE Do(g[i - 1], LAMBDA j, e : EraseNext(j, last, e))]
  BY <1>1, <1>4 DEF IsRun, Do
<1>6. run = [i \in 0..2 |-> IF i = 0 THEN a ELSE Do(run[i - 1], LAMBDA j, e : EraseNext(j, last, e))]
  BY <1>5
<1> HIDE DEF run
<1>7. run[0] = a /\ \A i \in 1..2 : run[i] = Turn(l, run[i - 1])
  BY <1>1, <1>2, <1>6 DEF Do
<1>8. QED
  BY <1>2, <1>3, <1>7 DEF l, a

\* dir_remove's loop.
LEMMA EraseLoopKeeps ==
  ASSUME NEW m, NEW z, Good(m, z, "any"), NEW last, NEW dp, IsDp(dp)
  PROVE  Kept(EraseLoop(m, last, dp), z, "any")
<1>1. PICK f : /\ EraseLoop(m, last, dp) = Ended(f[2]) /\ f[0] = Ok(m, dp)
               /\ \A i \in 1..2 : f[i] = Turn(<<"erase", last>>, f[i - 1])
  BY EraseLoopRuns
<1> DEFINE Inv(b) == Good(b.m, z, "any") /\ (b.r = "OK" => IsDp(b.x))
           T == {i \in 0..2 : Inv(f[i])}
<1>2. 0 \in T
  BY <1>1, Bounds DEF Ok
<1>3. ASSUME NEW i \in 1..2, i - 1 \in T PROVE i \in T
  <2> DEFINE b == f[i - 1]
  <2>1. Inv(b) /\ f[i] = Turn(<<"erase", last>>, b)
    BY <1>1, <1>3
  <2>2. Turn(<<"erase", last>>, b) = IF b.r = "OK" THEN EraseNext(b.m, last, b.x) ELSE b
    BY DEF Turn, Body
  <2> HIDE DEF b
  <2>3. Inv(Turn(<<"erase", last>>, b))
    BY <2>1, <2>2, EraseNextKeeps
  <2>4. QED
    BY <2>1, <2>3
<1>4. Inv(f[2])
  BY <1>2, <1>3, Upto, Bounds
<1>5. QED
  BY <1>1, <1>4 DEF Ended, Kept, Ok, Err

\* dir_remove marks entries in the window.
LEMMA DirRemoveKeeps ==
  ASSUME NEW m, NEW z, Good(m, z, "any"), NEW dp, IsDp(dp)
  PROVE  Kept(dir_remove(m, dp), z, "any")
<1> DEFINE s == IF dp.blk = NoBlk THEN Ok(m, dp) ELSE dir_sdi(m, dp.scl, dp.blk)
           b == EraseLoop(s.m, dp.i, s.x)
<1>1. dir_remove(m, dp) = IF s.r = "OK" THEN b ELSE s
  BY DEF dir_remove, Do, EraseLoop
<1>2. Kept(s, z, "any") /\ (s.r = "OK" => IsDp(s.x))
  <2>1. CASE dp.blk = NoBlk
    BY <2>1 DEF Kept, Ok
  <2>2. CASE dp.blk # NoBlk
    <3> DEFINE d == dir_sdi(m, dp.scl, dp.blk)
    <3>1. Kept(d, z, "any")
      BY DirSdiKeeps
    <3>2. d.r = "OK" => IsDp(d.x)
      BY <3>1, DirSdiKeeps
    <3> HIDE DEF d
    <3>3. s = d
      BY <2>2 DEF d
    <3>4. QED
      BY <3>1, <3>2, <3>3
  <2>3. QED
    BY <2>1, <2>2
<1> HIDE DEF s
<1>3. s.r = "OK" => Kept(b, z, "any")
  BY <1>2, EraseLoopKeeps DEF Kept
<1> HIDE DEF b
<1>4. QED
  BY <1>1, <1>2, <1>3

-----------------------------------------------------------------------------
(* Mounting and paths. *)

\* mount_volume does nothing on a volume that is mounted.
LEMMA MountedAlready ==
  ASSUME NEW m, NEW z, NEW q, Good(m, z, q), z[3]
  PROVE  mount_volume(m) = Ok(m, 0)
BY GoodForm DEF mount_volume

\* What a path leads to: an object's entry, or a directory without one.
IsFound(x) == ~x.origin => IsDp(x.dp)

\* A turn of follow_path's loop.
LEMMA FollowKeeps ==
  ASSUME NEW m, NEW z, NEW q, Good(m, z, q), NEW segs, NEW at
  PROVE  LET a == Follow(m, segs, at) IN Good(a.m, z, q) /\ (a.r = "DONE" => IsFound(a.x))
<1> DEFINE fn == create_name(segs[at.n])
           f == dir_find(m, at.scl, fn)
           a == Follow(m, segs, at)
           object == [scl |-> at.scl, fn |-> fn, origin |-> FALSE, dp |-> f.x.dp, e |-> f.x.e]
           origin == [scl |-> at.scl, origin |-> TRUE]
           missing == [scl |-> at.scl, fn |-> fn]
           down == [scl |-> f.x.e.cl, n |-> at.n + 1]
           on == [scl |-> at.scl, n |-> at.n + 1]
<1>1. Follow(m, segs, at) =
        IF f.r = "OK"
        THEN IF at.n = Len(segs) THEN Done(f.m, object)
             ELSE IF f.x.e.t = "dir" THEN Ok(f.m, down)
             ELSE Err(f.m, "NO_PATH", 0)
        ELSE IF f.r # "NO_FILE" THEN f
        ELSE IF fn.dot THEN IF at.n = Len(segs) THEN Done(f.m, origin) ELSE Ok(f.m, on)
        ELSE IF at.n = Len(segs) THEN Err(f.m, "NO_FILE", missing) ELSE Err(f.m, "NO_PATH", 0)
  BY DEF Follow
<1> HIDE DEF fn
<1>2. Kept(f, z, q)
  BY DirFindKeeps
<1>3. f.r = "OK" => IsDp(f.x.dp)
  BY <1>2, DirFindKeeps
<1> HIDE DEF f
<1>4. f.r = "OK" => IsFound(object)
  BY <1>3 DEF IsFound
<1>5. IsFound(origin)
  BY DEF IsFound
<1> HIDE DEF object, origin, missing, down, on, a
<1>6. \/ a = f \/ a = Err(f.m, "NO_PATH", 0) \/ a = Err(f.m, "NO_FILE", missing)
      \/ a = Ok(f.m, down) \/ a = Ok(f.m, on)
      \/ f.r = "OK" /\ a = Done(f.m, object)
      \/ a = Done(f.m, origin)
  BY <1>1 DEF a
<1>7. Good(a.m, z, q) /\ (a.r = "DONE" => IsFound(a.x))
  BY <1>2, <1>4, <1>5, <1>6 DEF Kept, Ok, Err, Done
<1>8. QED
  BY <1>7 DEF a

FollowLoop(m, segs, scl) ==
  Repeat(Len(segs), Ok(m, [scl |-> scl, n |-> 1]), LAMBDA k, at : Follow(k, segs, at))

\* follow_path's loop is its turns.
LEMMA FollowLoopRuns ==
  ASSUME NEW m, NEW segs, NEW scl, Len(segs) \in Nat
  PROVE  \E f : /\ FollowLoop(m, segs, scl) = Ended(f[Len(segs)]) /\ f[0] = Ok(m, [scl |-> scl, n |-> 1])
                /\ \A i \in 1..Len(segs) : f[i] = Turn(<<"follow", segs>>, f[i - 1])
<1> DEFINE l == <<"follow", segs>>
           a == Ok(m, [scl |-> scl, n |-> 1])
           run[i \in 0..Len(segs)] == IF i = 0 THEN a ELSE Do(run[i - 1], LAMBDA k, at : Follow(k, segs, at))
<1>1. \A b : Turn(l, b) = Do(b, LAMBDA k, at : Follow(k, segs, at))
  BY DEF Turn, Body, Do
<1>2. Len(segs) \in Nat
  OBVIOUS
<1>3. FollowLoop(m, segs, scl) = Ended(run[Len(segs)])
  BY DEF FollowLoop, Repeat
<1> HIDE DEF l, a
<1>4. PICK g : IsRun(g, l, a, Len(segs))
  BY <1>2, Runs
<1>5. g = [i \in 0..Len(segs) |-> IF i = 0 THEN a ELSE Do(g[i - 1], LAMBDA k, at : Follow(k, segs, at))]
  BY <1>1, <1>4 DEF IsRun, Do
<1>6. run = [i \in 0..Len(segs) |-> IF i = 0 THEN a ELSE Do(run[i - 1], LAMBDA k, at : Follow(k, segs, at))]
  BY <1>5
<1> HIDE DEF run
<1>7. run[0] = a /\ \A i \in 1..Len(segs) : run[i] = Turn(l, run[i - 1])
  BY <1>1, <1>2, <1>6 DEF Do
<1>8. QED
  BY <1>2, <1>3, <1>7 DEF l, a

\* follow_path's loop.
LEMMA FollowLoopKeeps ==
  ASSUME NEW m, NEW z, NEW q, Good(m, z, q), NEW segs, NEW scl, Len(segs) \in Nat
  PROVE  LET a == FollowLoop(m, segs, scl) IN Kept(a, z, q) /\ (a.r = "OK" => IsFound(a.x))
<1>1. PICK f : /\ FollowLoop(m, segs, scl) = Ended(f[Len(segs)]) /\ f[0] = Ok(m, [scl |-> scl, n |-> 1])
               /\ \A i \in 1..Len(segs) : f[i] = Turn(<<"follow", segs>>, f[i - 1])
  BY FollowLoopRuns
<1> DEFINE Inv(b) == Good(b.m, z, q) /\ (b.r = "DONE" => IsFound(b.x))
           T == {i \in 0..Len(segs) : Inv(f[i])}
<1>2. 0 \in T
  BY <1>1 DEF Ok
<1>3. ASSUME NEW i \in 1..Len(segs), i - 1 \in T PROVE i \in T
  <2> DEFINE b == f[i - 1]
  <2>1. Inv(b) /\ f[i] = Turn(<<"follow", segs>>, b)
    BY <1>1, <1>3
  <2>2. Turn(<<"follow", segs>>, b) = IF b.r = "OK" THEN Follow(b.m, segs, b.x) ELSE b
    BY DEF Turn, Body
  <2> HIDE DEF b
  <2>3. Inv(Turn(<<"follow", segs>>, b))
    BY <2>1, <2>2, FollowKeeps
  <2>4. QED
    BY <2>1, <2>3
<1>4. Inv(f[Len(segs)])
  BY <1>2, <1>3, Upto
<1>5. QED
  BY <1>1, <1>4 DEF Ended, Kept, Ok, Err

\* A path has a length.
IsPath(p) == p.segs = <<>> \/ Len(p.segs) \in Nat

\* follow_path only looks.
LEMMA FollowPathKeeps ==
  ASSUME NEW m, NEW z, NEW q, Good(m, z, q), NEW p, IsPath(p)
  PROVE  LET a == follow_path(m, p) IN Kept(a, z, q) /\ (a.r = "OK" => IsFound(a.x))
<1> DEFINE scl == IF p.abs THEN 0 ELSE m.fs.cdir
           s == dir_sdi(m, scl, 0)
           o == Ok(s.m, [scl |-> scl, origin |-> TRUE])
           b == FollowLoop(m, p.segs, scl)
<1>1. follow_path(m, p) = IF p.segs = <<>> THEN IF s.r = "OK" THEN o ELSE s ELSE b
  BY DEF follow_path, Do, FollowLoop
<1>2. p.segs # <<>> => Len(p.segs) \in Nat
  BY DEF IsPath
<1> HIDE DEF scl
<1>3. Kept(s, z, q)
  BY DirSdiKeeps
<1> HIDE DEF s
<1>4. Kept(o, z, q) /\ IsFound(o.x)
  BY <1>3 DEF Kept, Ok, IsFound
<1> HIDE DEF o
<1>5. p.segs # <<>> => Kept(b, z, q)
  BY <1>2, FollowLoopKeeps
<1>6. p.segs # <<>> => (b.r = "OK" => IsFound(b.x))
  BY <1>2, <1>5, FollowLoopKeeps
<1> HIDE DEF b
<1>7. QED
  BY <1>1, <1>3, <1>4, <1>5, <1>6

\* mount_volume and follow_path, as every call begins.
LEMMA LookupKeeps ==
  ASSUME NEW m, NEW z, NEW q, Good(m, z, q), z[3], NEW p, IsPath(p)
  PROVE  LET a == Lookup(m, p) IN Kept(a, z, q) /\ (a.r = "OK" => IsFound(a.x))
<1> DEFINE a == follow_path(m, p)
<1>1. mount_volume(m) = Ok(m, 0)
  BY MountedAlready
<1>2. Lookup(m, p) = a
  BY <1>1 DEF Lookup, Do, Ok
<1>3. Kept(a, z, q)
  BY FollowPathKeeps
<1>4. a.r = "OK" => IsFound(a.x)
  BY <1>3, FollowPathKeeps
<1>5. QED
  BY <1>2, <1>3, <1>4

-----------------------------------------------------------------------------
(* Files. *)

\* A file whose buffer is ahead of the medium has a sector to write it to.
IsFil(f) ==
  /\ f \in [dp : {f.dp}, scl : {f.scl}, size : {f.size}, fptr : {f.fptr}, clust : {f.clust},
            sect : {f.sect}, buf : {f.buf}, dirty : BOOLEAN, mod : BOOLEAN]
  /\ IsDp(f.dp)
  /\ f.dirty => f.sect \in DataSectors

\* A file that was just opened has nothing in its buffer.
LEMMA FilKeeps ==
  ASSUME NEW dp, IsDp(dp), NEW e
  PROVE  /\ IsFil(Fil(dp, e, TRUE)) /\ Fil(dp, e, TRUE).fptr = 0
         /\ IsFil(Fil(dp, e, FALSE)) /\ Fil(dp, e, FALSE).fptr = 0
BY DEF IsFil, Fil

\* The hint where the search for a free cluster starts is no more than a hint.
LEMMA LastKeeps ==
  ASSUME NEW m, NEW z, NEW q, Good(m, z, q), NEW n \in Lasts
  PROVE  Good([m EXCEPT !.fs.last = n], z, q)
<1> DEFINE k == [m EXCEPT !.fs.last = n]
<1>1. PICK t, u : Counted(t, u) /\ Sees(m, z, q, t, u)
  BY DEF Good
<1>2. Form(m)
  BY <1>1 DEF Sees
<1>3. k = SetCount(m, m.fs.free, n, m.fs.fsi) /\ m.fs.free \in Counts /\ m.fs.fsi \in 0..2
  BY <1>2, TouchForm
<1> HIDE DEF k
<1>4. Sees(k, z, q, t, m.fs.free)
  BY <1>1, <1>3, CountSees
<1>5. z[1] => m.fs.free = u
  BY <1>1 DEF Sees
<1>6. Good(k, z, q)
  BY <1>1, <1>4, <1>5, InexactGood
<1>7. QED
  BY <1>6 DEF k

\* A file that is opened to be written anew loses its chain.
LEMMA EmptyFileKeeps ==
  ASSUME NEW m, NEW z, NEW q, Good(m, z, q), NEW dp, IsDp(dp), NEW e
  PROVE  Kept(EmptyFile(m, dp, e), z, "any")
<1> DEFINE x == [e EXCEPT !.t = "file", !.cl = 0, !.size = 0]
           k == SetEntry(m, dp, x)
           r == remove_chain(k, e.cl, 0)
           a == move_window(r.m, dp.sect)
           n == e.cl - 1
           l == [a.m EXCEPT !.fs.last = n]
<1>1. EmptyFile(m, dp, e) = IF e.cl = 0 THEN Ok(k, 0)
                            ELSE IF r.r = "OK" THEN Err(l, a.r, a.x) ELSE r
  BY DEF EmptyFile, Do
<1> HIDE DEF x
<1>2. Good(k, z, "any")
  BY SetEntryKeeps
<1> HIDE DEF k
<1>3. Kept(r, z, "any")
  BY <1>2, RemoveChainKeeps
<1>4. r.r = "OK" => e.cl \in Clusters
  BY <1>2, <1>3, RemoveChainKeeps
<1> HIDE DEF r
<1>5. Kept(a, z, "any")
  BY <1>3, DpKeeps, MoveWindowKeeps DEF Kept
<1> HIDE DEF a
<1>6. r.r = "OK" => n \in Lasts
  BY <1>4, Layout DEF Lasts
<1> HIDE DEF n
<1>7. r.r = "OK" => Good(l, z, "any")
  BY <1>5, <1>6, LastKeeps DEF Kept
<1> HIDE DEF l
<1>8. QED
  BY <1>1, <1>2, <1>3, <1>5, <1>7 DEF Kept, Ok, Err

\* Opened to be read, a file leaves the medium and the window's changes alone.
LEMMA OpenReadKeeps ==
  ASSUME NEW m, NEW z, NEW q, Good(m, z, q), z[3], NEW p, IsPath(p)
  PROVE  Kept(f_open(m, p, "read"), z, q)
<1> DEFINE a == Lookup(m, p)
<1>1. f_open(m, p, "read") =
        IF a.r # "OK" THEN a
        ELSE IF a.x.origin THEN Err(a.m, "INVALID_NAME", 0)
        ELSE IF a.x.e.t = "dir" THEN Err(a.m, "NO_FILE", 0)
        ELSE Ok(a.m, Fil(a.x.dp, a.x.e, FALSE))
  BY DEF f_open
<1>2. Kept(a, z, q)
  BY LookupKeeps
<1> DEFINE v == f_open(m, p, "read")
           f == Fil(a.x.dp, a.x.e, FALSE)
<1> HIDE DEF a, v, f
<1>3. v = a \/ v = Err(a.m, "INVALID_NAME", 0) \/ v = Err(a.m, "NO_FILE", 0) \/ v = Ok(a.m, f)
  BY <1>1 DEF v, f
<1>4. Kept(v, z, q)
  BY <1>2, <1>3 DEF Kept, Ok, Err
<1>5. QED
  BY <1>4 DEF v

\* A file is made.
LEMMA NewFileKeeps ==
  ASSUME NEW m, NEW z, Good(m, z, "any"), NEW scl, NEW fn
  PROVE  LET a == NewFile(m, scl, fn) IN
         Kept(a, z, "any") /\ (a.r = "OK" => IsFil(a.x) /\ a.x.fptr = 0)
<1> DEFINE r == dir_register(m, scl, fn)
           e == Entry("file", "", Slot(r.m.fs.win, r.x.i).sfn, 0, 0)
           b == EmptyFile(r.m, r.x, e)
           f == Fil(r.x, e, TRUE)
<1>1. NewFile(m, scl, fn) = IF r.r = "OK" THEN IF b.r = "OK" THEN Ok(b.m, f) ELSE b ELSE r
  BY DEF NewFile, Do
<1>2. Kept(r, z, "any")
  BY DirRegisterKeeps
<1>3. r.r = "OK" => IsDp(r.x)
  BY <1>2, DirRegisterKeeps
<1> HIDE DEF r, e
<1>4. r.r = "OK" => Kept(b, z, "any")
  BY <1>2, <1>3, EmptyFileKeeps DEF Kept
<1>5. r.r = "OK" => IsFil(f) /\ f.fptr = 0
  BY <1>3, FilKeeps
<1> HIDE DEF b, f
<1>6. QED
  BY <1>1, <1>2, <1>4, <1>5 DEF Kept, Ok

\* A file is emptied.
LEMMA EmptiedFileKeeps ==
  ASSUME NEW m, NEW z, Good(m, z, "any"), NEW dp, IsDp(dp), NEW e
  PROVE  LET a == EmptiedFile(m, dp, e) IN
         Kept(a, z, "any") /\ (a.r = "OK" => IsFil(a.x) /\ a.x.fptr = 0)
<1> DEFINE b == EmptyFile(m, dp, e)
           f == Fil(dp, [e EXCEPT !.cl = 0, !.size = 0], TRUE)
<1>1. EmptiedFile(m, dp, e) = IF b.r = "OK" THEN Ok(b.m, f) ELSE b
  BY DEF EmptiedFile, Do
<1>2. Kept(b, z, "any")
  BY EmptyFileKeeps
<1>3. IsFil(f) /\ f.fptr = 0
  BY FilKeeps
<1> HIDE DEF b, f
<1>4. QED
  BY <1>1, <1>2, <1>3 DEF Kept, Ok

\* f_open in any mode returns a file at its beginning.
LEMMA OpenKeeps ==
  ASSUME NEW m, NEW z, NEW q, Good(m, z, q), z[3], NEW p, IsPath(p), NEW mode
  PROVE  LET a == f_open(m, p, mode) IN
         Kept(a, z, "any") /\ (a.r = "OK" => IsFil(a.x) /\ a.x.fptr = 0)
<1> DEFINE a == Lookup(m, p)
           n == NewFile(a.m, a.x.scl, a.x.fn)
           c == EmptiedFile(a.m, a.x.dp, a.x.e)
           h == Fil(a.x.dp, a.x.e, FALSE)
           v == f_open(m, p, mode)
<1>1. \/ v = n
      \/ v = a /\ a.r # "OK"
      \/ v = Err(a.m, "INVALID_NAME", 0) \/ v = Err(a.m, "EXIST", 0)
      \/ v = Err(a.m, "DENIED", 0) \/ v = Err(a.m, "NO_FILE", 0)
      \/ v = c /\ a.r = "OK" /\ ~a.x.origin
      \/ v = Ok(a.m, h) /\ a.r = "OK" /\ ~a.x.origin
  BY DEF f_open
<1>2. Kept(a, z, q)
  BY LookupKeeps
<1>3. a.r = "OK" => IsFound(a.x)
  BY <1>2, LookupKeeps
<1> HIDE DEF a
<1>4. Good(a.m, z, "any")
  BY <1>2, GoodForm DEF Kept
<1>5. Kept(n, z, "any")
  BY <1>4, NewFileKeeps
<1>6. n.r = "OK" => IsFil(n.x) /\ n.x.fptr = 0
  BY <1>4, <1>5, NewFileKeeps
<1>7. a.r = "OK" /\ ~a.x.origin => IsDp(a.x.dp)
  BY <1>3 DEF IsFound
<1>8. a.r = "OK" /\ ~a.x.origin => Kept(c, z, "any")
  BY <1>4, <1>7, EmptiedFileKeeps
<1>9. a.r = "OK" /\ ~a.x.origin => (c.r = "OK" => IsFil(c.x) /\ c.x.fptr = 0)
  BY <1>4, <1>7, <1>8, EmptiedFileKeeps
<1>10. a.r = "OK" /\ ~a.x.origin => IsFil(h) /\ h.fptr = 0
  BY <1>7, FilKeeps
<1> HIDE DEF n, c, h, v
<1>11. Kept(v, z, "any") /\ (v.r = "OK" => IsFil(v.x) /\ v.x.fptr = 0)
  BY <1>1, <1>2, <1>4, <1>5, <1>6, <1>8, <1>9, <1>10 DEF Kept, Ok, Err
<1>12. QED
  BY <1>11 DEF v

\* A dirty buffer goes to a data sector.
LEMMA WriteBackKeeps ==
  ASSUME NEW m, NEW z, NEW q, Good(m, z, q), NEW f, IsFil(f)
  PROVE  LET a == WriteBack(m, f) IN
         /\ Kept(a, z, q)
         /\ a.r = "OK" => a.x = [f EXCEPT !.dirty = FALSE]
<1> DEFINE w == disk_write(m, f.sect, DataSector(f.buf))
<1>1. WriteBack(m, f) = IF f.dirty
                        THEN IF w.r = "OK" THEN Ok(w.m, [f EXCEPT !.dirty = FALSE]) ELSE w
                        ELSE Ok(m, f)
  BY DEF WriteBack, Do
<1>2. ~f.dirty => f = [f EXCEPT !.dirty = FALSE]
  BY DEF IsFil
<1>3. f.dirty => Kept(w, z, q)
  BY DataKeeps DEF IsFil
<1> HIDE DEF w
<1>4. QED
  BY <1>1, <1>2, <1>3 DEF Kept, Ok

-----------------------------------------------------------------------------
(* Transfers. *)

\* A turn of f_read's loop.
LEMMA ReadOnKeeps ==
  ASSUME NEW m, NEW z, NEW q, Good(m, z, q), NEW at
  PROVE  Good(ReadOn(m, at).m, z, q)
<1> DEFINE f == at.f
           g == get_fat(m, f.clust)
           h == IF f.fptr % SS # 0 THEN Ok(m, f.clust) ELSE IF f.fptr = 0 THEN Ok(m, f.scl) ELSE g
           d == disk_read(h.m, clst2sect(h.x))
<1>1. Kept(g, z, q)
  BY GetFatKeeps
<1>2. ReadOn(m, at).m \in {m, h.m, d.m}
  BY DEF ReadOn, Do, Abort, OnlyIf, Ok, Err, Done
<1> HIDE DEF g
<1>3. Good(h.m, z, q)
  BY <1>1 DEF Kept, Ok
<1> HIDE DEF h
<1>4. Kept(d, z, q)
  BY <1>3, ReadKeeps
<1>5. QED
  BY <1>2, <1>3, <1>4 DEF Kept

\* f_read's loop is its turns.
LEMMA ReadRuns ==
  ASSUME NEW m, NEW fp, NEW n
  PROVE  \E f : /\ f_read(m, fp, n) = Ended(f[NFatEnt]) /\ f[0] = Ok(m, [f |-> fp, left |-> Smaller(n, fp.size - fp.fptr), data |-> <<>>])
                /\ \A i \in 1..NFatEnt : f[i] = Turn(<<"read">>, f[i - 1])
<1> DEFINE l == <<"read">>
           a == Ok(m, [f |-> fp, left |-> Smaller(n, fp.size - fp.fptr), data |-> <<>>])
           run[i \in 0..NFatEnt] == IF i = 0 THEN a ELSE Do(run[i - 1], ReadOn)
<1>1. \A b : Turn(l, b) = Do(b, ReadOn)
  BY DEF Turn, Body, Do
<1>2. NFatEnt \in Nat
  BY Layout
<1>3. f_read(m, fp, n) = Ended(run[NFatEnt])
  BY DEF f_read, Repeat
<1> HIDE DEF l, a
<1>4. PICK g : IsRun(g, l, a, NFatEnt)
  BY <1>2, Runs
<1>5. g = [i \in 0..NFatEnt |-> IF i = 0 THEN a ELSE Do(g[i - 1], ReadOn)]
  BY <1>1, <1>4 DEF IsRun, Do
<1>6. run = [i \in 0..NFatEnt |-> IF i = 0 THEN a ELSE Do(run[i - 1], ReadOn)]
  BY <1>5
<1> HIDE DEF run
<1>7. run[0] = a /\ \A i \in 1..NFatEnt : run[i] = Turn(l, run[i - 1])
  BY <1>1, <1>2, <1>6 DEF Do
<1>8. QED
  BY <1>2, <1>3, <1>7 DEF l, a

\* f_read only looks.
LEMMA ReadFileKeeps ==
  ASSUME NEW m, NEW z, NEW q, Good(m, z, q), NEW fp, NEW n
  PROVE  Kept(f_read(m, fp, n), z, q)
<1>1. PICK f : /\ f_read(m, fp, n) = Ended(f[NFatEnt]) /\ f[0] = Ok(m, [f |-> fp, left |-> Smaller(n, fp.size - fp.fptr), data |-> <<>>])
               /\ \A i \in 1..NFatEnt : f[i] = Turn(<<"read">>, f[i - 1])
  BY ReadRuns
<1> DEFINE Inv(b) == Good(b.m, z, q)
           T == {i \in 0..NFatEnt : Inv(f[i])}
<1>2. 0 \in T
  BY <1>1, Layout DEF Ok
<1>3. ASSUME NEW i \in 1..NFatEnt, i - 1 \in T PROVE i \in T
  <2> DEFINE b == f[i - 1]
  <2>1. Inv(b) /\ f[i] = Turn(<<"read">>, b)
    BY <1>1, <1>3
  <2>2. Turn(<<"read">>, b) = IF b.r = "OK" THEN ReadOn(b.m, b.x) ELSE b
    BY DEF Turn, Body
  <2> HIDE DEF b
  <2>3. Inv(Turn(<<"read">>, b))
    BY <2>1, <2>2, ReadOnKeeps
  <2>4. QED
    BY <2>1, <2>3
<1>4. Inv(f[NFatEnt])
  BY <1>2, <1>3, Upto, Layout
<1>5. QED
  BY <1>1, <1>4 DEF Ended, Kept, Ok, Err

\* A turn of cat's loop.
LEMMA CatNextKeeps ==
  ASSUME NEW m, NEW z, NEW q, Good(m, z, q), NEW n, NEW at
  PROVE  Good(CatNext(m, n, at).m, z, q)
<1> DEFINE a == f_read(m, at.f, n)
<1>1. Kept(a, z, q)
  BY ReadFileKeeps
<1>2. CatNext(m, n, at).m = a.m
  BY DEF CatNext, Do, Ok, Done, Err
<1> HIDE DEF a
<1>3. QED
  BY <1>1, <1>2 DEF Kept

\* cat's loop is its turns.
LEMMA CatLoopRuns ==
  ASSUME NEW m, NEW fp, NEW n
  PROVE  \E f : /\ CatLoop(m, fp, n) = Ended(f[MaxUnits]) /\ f[0] = Ok(m, [f |-> fp, data |-> <<>>])
                /\ \A i \in 1..MaxUnits : f[i] = Turn(<<"cat", n>>, f[i - 1])
<1> DEFINE l == <<"cat", n>>
           a == Ok(m, [f |-> fp, data |-> <<>>])
           run[i \in 0..MaxUnits] == IF i = 0 THEN a ELSE Do(run[i - 1], LAMBDA k, at : CatNext(k, n, at))
<1>1. \A b : Turn(l, b) = Do(b, LAMBDA k, at : CatNext(k, n, at))
  BY DEF Turn, Body, Do
<1>2. MaxUnits \in Nat
  BY Bounds
<1>3. CatLoop(m, fp, n) = Ended(run[MaxUnits])
  BY DEF CatLoop, Repeat
<1> HIDE DEF l, a
<1>4. PICK g : IsRun(g, l, a, MaxUnits)
  BY <1>2, Runs
<1>5. g = [i \in 0..MaxUnits |-> IF i = 0 THEN a ELSE Do(g[i - 1], LAMBDA k, at : CatNext(k, n, at))]
  BY <1>1, <1>4 DEF IsRun, Do
<1>6. run = [i \in 0..MaxUnits |-> IF i = 0 THEN a ELSE Do(run[i - 1], LAMBDA k, at : CatNext(k, n, at))]
  BY <1>5
<1> HIDE DEF run
<1>7. run[0] = a /\ \A i \in 1..MaxUnits : run[i] = Turn(l, run[i - 1])
  BY <1>1, <1>2, <1>6 DEF Do
<1>8. QED
  BY <1>2, <1>3, <1>7 DEF l, a

\* cat's loop only looks.
LEMMA CatLoopKeeps ==
  ASSUME NEW m, NEW z, NEW q, Good(m, z, q), NEW fp, NEW n
  PROVE  Kept(CatLoop(m, fp, n), z, q)
<1>1. PICK f : /\ CatLoop(m, fp, n) = Ended(f[MaxUnits]) /\ f[0] = Ok(m, [f |-> fp, data |-> <<>>])
               /\ \A i \in 1..MaxUnits : f[i] = Turn(<<"cat", n>>, f[i - 1])
  BY CatLoopRuns
<1> DEFINE Inv(b) == Good(b.m, z, q)
           T == {i \in 0..MaxUnits : Inv(f[i])}
<1>2. 0 \in T
  BY <1>1, Bounds DEF Ok
<1>3. ASSUME NEW i \in 1..MaxUnits, i - 1 \in T PROVE i \in T
  <2> DEFINE b == f[i - 1]
  <2>1. Inv(b) /\ f[i] = Turn(<<"cat", n>>, b)
    BY <1>1, <1>3
  <2>2. Turn(<<"cat", n>>, b) = IF b.r = "OK" THEN CatNext(b.m, n, b.x) ELSE b
    BY DEF Turn, Body
  <2> HIDE DEF b
  <2>3. Inv(Turn(<<"cat", n>>, b))
    BY <2>1, <2>2, CatNextKeeps
  <2>4. QED
    BY <2>1, <2>3
<1>4. Inv(f[MaxUnits])
  BY <1>2, <1>3, Upto, Bounds
<1>5. QED
  BY <1>1, <1>4 DEF Ended, Kept, Ok, Err

\* A file that is written stands at the start of a sector, or in the buffer.
IsOpen(f) == IsFil(f) /\ f.fptr \in Nat /\ (f.fptr % SS = 0 \/ f.sect \in DataSectors)

\* A sector's end is the next one's beginning.
LEMMA WholeSector ==
  ASSUME NEW n \in Nat, n % SS = 0
  PROVE  (n + SS) % SS = 0
<1> DEFINE p == n \div SS
           o == (n + SS) \div SS
           r == (n + SS) % SS
<1>1. SS \in Nat \ {0} /\ n \in Int /\ n + SS \in Int
  BY FatFsAssumption
<1>2. p \in Int /\ n = SS * p + (n % SS)
  BY <1>1, DivMod
<1>3. o \in Int /\ r \in 0..(SS - 1) /\ n + SS = SS * o + r
  BY <1>1, DivMod
<1> HIDE DEF p, o, r
<1>4. SS * (p + 1) = SS * p + SS /\ SS * p \in Int /\ SS * o \in Int
  BY <1>1, <1>2, <1>3
<1>5. SS * (p + 1) = SS * o + r
  BY <1>1, <1>2, <1>3, <1>4
<1>6. p + 1 <= o
  <2>1. SS * (p + 1) < SS * o + SS
    BY <1>1, <1>3, <1>4, <1>5
  <2>2. QED
    BY <1>1, <1>2, <1>3, <2>1, MultipleBelow
<1>7. o <= p + 1
  <2>1. SS * o < SS * (p + 1) + SS
    BY <1>1, <1>3, <1>4, <1>5
  <2>2. QED
    BY <1>1, <1>2, <1>3, <2>1, MultipleBelow
<1>8. o = p + 1
  BY <1>2, <1>3, <1>6, <1>7
<1>9. r = 0
  BY <1>3, <1>4, <1>5, <1>8
<1>10. QED
  BY <1>9 DEF r

\* A turn of a transfer takes no more than what is left.
LEMMA PartBelow ==
  ASSUME NEW f, f.fptr \in Nat, NEW n \in Nat \ {0}
  PROVE  Part(f, n) \in Nat /\ n - Part(f, n) \in Nat
<1>1. SS \in Nat \ {0}
  BY FatFsAssumption
<1>2. f.fptr % SS \in 0..(SS - 1)
  <2> DEFINE x == f.fptr
  <2>1. x \in Int
    OBVIOUS
  <2> HIDE DEF x
  <2>2. x % SS \in 0..(SS - 1)
    BY <1>1, <2>1, DivMod
  <2>3. QED
    BY <2>2 DEF x
<1> DEFINE o == f.fptr % SS
<1>3. Part(f, n) = IF SS - o < n THEN SS - o ELSE n
  BY DEF Part, Smaller
<1> HIDE DEF o
<1>4. o \in 0..(SS - 1)
  BY <1>2 DEF o
<1>5. QED
  BY <1>1, <1>3, <1>4

\* The file pointer moves on.
LEMMA MovedForm ==
  ASSUME NEW f, IsFil(f), NEW k
  PROVE  /\ IsFil(Moved(f, k)) /\ Moved(f, k).fptr = f.fptr + k
         /\ Moved(f, k).sect = f.sect /\ Moved(f, k).mod = f.mod
BY DEF IsFil, Moved

\* Data goes into the buffer, to its end or the sector's.
LEMMA FitKeeps ==
  ASSUME NEW f, IsFil(f), f.fptr \in Nat, f.sect \in DataSectors, NEW n \in Nat \ {0},
         NEW m, NEW tag
  PROVE  LET a == Fit(m, f, n, tag) IN
         a.m = m /\ a.r = "OK" /\ IsOpen(a.x.f) /\ a.x.left \in Nat
<1> DEFINE k == Part(f, n)
           b == Splice(f.buf, f.fptr % SS, k, tag)
           g == [f EXCEPT !.buf = b, !.dirty = TRUE]
           h == Moved(g, k)
<1>1. k \in Nat /\ n - k \in Nat
  BY PartBelow
<1>2. Fit(m, f, n, tag) = Ok(m, [f |-> h, left |-> n - k])
  BY DEF Fit
<1> HIDE DEF b, k
<1>3. IsFil(g) /\ g.fptr = f.fptr /\ g.sect = f.sect
  BY DEF IsFil
<1> HIDE DEF g
<1>4. IsFil(h) /\ h.fptr = f.fptr + k /\ h.sect = f.sect
  BY <1>3, MovedForm
<1> HIDE DEF h
<1>5. IsOpen(h)
  BY <1>1, <1>4 DEF IsOpen
<1>6. QED
  BY <1>1, <1>2, <1>5 DEF Ok

-----------------------------------------------------------------------------
(* Writing. *)

\* A sector's turn of a write; where it fails the file is still one to close.
LEMMA WriteInKeeps ==
  ASSUME NEW m, NEW z, NEW q, Good(m, z, q), NEW y, IsFil(y), ~y.dirty, y.fptr \in Nat, y.fptr % SS = 0,
         NEW s \in Places, NEW n \in Nat \ {0}, NEW tag
  PROVE  LET a == WriteIn(m, y, s, n, tag) IN
         /\ Kept(a, z, q) /\ IsFil(a.x.f)
         /\ a.r = "OK" => IsOpen(a.x.f) /\ a.x.left \in Nat
<1> DEFINE full == [i \in 1..SS |-> tag]
           w == disk_write(m, s, DataSector(full))
           wf == IF y.sect = s THEN [y EXCEPT !.buf = full] ELSE y
           wx == [f |-> Moved(wf, SS), left |-> n - SS]
           d == disk_read(m, s)
           df == [y EXCEPT !.sect = s, !.buf = Units(d.x)]
           e == Fit(d.m, df, n, tag)
           hf == [y EXCEPT !.sect = s]
           h == Fit(m, hf, n, tag)
           lost == [f |-> y, left |-> 0, data |-> <<>>]
           v == WriteIn(m, y, s, n, tag)
<1>1. \/ v = Err(m, "INT_ERR", lost)
      \/ s # 0 /\ w.r # "OK" /\ v = Err(w.m, w.r, lost)
      \/ s # 0 /\ Whole(y, n) /\ w.r = "OK" /\ v = Ok(w.m, wx)
      \/ s # 0 /\ d.r # "OK" /\ v = Err(d.m, d.r, lost)
      \/ s # 0 /\ d.r = "OK" /\ v = e
      \/ s # 0 /\ v = h
  BY DEF WriteIn, Do, Abort, Err
<1>2. lost.f = y /\ wx.f = Moved(wf, SS) /\ wx.left = n - SS
  OBVIOUS
<1> HIDE DEF v, full, lost, wx
<1>3. s # 0 => s \in DataSectors
  BY DEF Places
<1>4. s # 0 => Kept(w, z, q)
  BY <1>3, DataKeeps DEF Kept
<1>5. IsFil(wf) /\ wf.fptr = y.fptr
  BY DEF IsFil
<1> HIDE DEF w, wf
<1>6. Whole(y, n) => IsOpen(Moved(wf, SS)) /\ n - SS \in Nat
  <2> SUFFICES ASSUME Whole(y, n) PROVE IsOpen(Moved(wf, SS)) /\ n - SS \in Nat
    OBVIOUS
  <2>1. IsFil(Moved(wf, SS)) /\ Moved(wf, SS).fptr = y.fptr + SS
    BY <1>5, MovedForm
  <2>2. SS \in Nat /\ (y.fptr + SS) % SS = 0
    BY FatFsAssumption, WholeSector
  <2>3. QED
    BY <2>1, <2>2 DEF IsOpen, Whole
<1>7. Kept(d, z, q)
  BY ReadKeeps DEF Kept
<1>8. s # 0 => IsFil(df) /\ df.fptr \in Nat /\ df.sect \in DataSectors
  BY <1>3 DEF IsFil
<1> HIDE DEF d, df
<1>9. s # 0 => e.m = d.m /\ e.r = "OK" /\ IsOpen(e.x.f) /\ e.x.left \in Nat
  BY <1>8, FitKeeps
<1>10. s # 0 => IsFil(hf) /\ hf.fptr \in Nat /\ hf.sect \in DataSectors
  BY <1>3 DEF IsFil
<1> HIDE DEF hf, e
<1>11. s # 0 => h.m = m /\ h.r = "OK" /\ IsOpen(h.x.f) /\ h.x.left \in Nat
  BY <1>10, FitKeeps
<1> HIDE DEF h
<1>12. /\ Kept(v, z, q) /\ IsFil(v.x.f)
       /\ v.r = "OK" => IsOpen(v.x.f) /\ v.x.left \in Nat
  BY <1>1, <1>2, <1>4, <1>6, <1>7, <1>9, <1>11 DEF Kept, Ok, Err, IsOpen
<1>13. QED
  BY <1>12 DEF v

\* A sector of f_write, in a cluster that the file has.
LEMMA WriteAtKeeps ==
  ASSUME NEW m, NEW z, NEW q, Good(m, z, q), NEW f, IsFil(f), f.fptr \in Nat, f.fptr % SS = 0,
         NEW c, NEW n \in Nat \ {0}, NEW tag
  PROVE  LET a == WriteAt(m, f, c, n, tag) IN
         /\ Kept(a, z, q) /\ IsFil(a.x.f)
         /\ a.r = "OK" => IsOpen(a.x.f) /\ a.x.left \in Nat
<1> DEFINE g == [f EXCEPT !.clust = c, !.scl = IF @ = 0 THEN c ELSE @]
           s == clst2sect(c)
           b == WriteBack(m, g)
           i == WriteIn(b.m, b.x, s, n, tag)
           lost == [f |-> g, left |-> 0, data |-> <<>>]
<1>1. WriteAt(m, f, c, n, tag) = IF b.r = "OK" THEN i ELSE Err(b.m, b.r, lost)
  BY DEF WriteAt, Do, Abort, Err
<1>2. IsFil(g) /\ g.fptr = f.fptr
  BY DEF IsFil
<1>3. lost.f = g
  OBVIOUS
<1> HIDE DEF g, lost
<1>4. Kept(b, z, q)
  BY <1>2, WriteBackKeeps
<1>5. b.r = "OK" => b.x = [g EXCEPT !.dirty = FALSE]
  BY <1>2, <1>4, WriteBackKeeps
<1>6. b.r = "OK" => IsFil(b.x) /\ b.x.fptr = f.fptr /\ ~b.x.dirty
  BY <1>2, <1>5 DEF IsFil
<1> HIDE DEF b
<1>7. s \in Places
  BY SectorOf
<1> HIDE DEF s
<1>8. b.r = "OK" => Kept(i, z, q)
  BY <1>4, <1>6, <1>7, WriteInKeeps DEF Kept
<1>9. b.r = "OK" => /\ IsFil(i.x.f)
                    /\ i.r = "OK" => IsOpen(i.x.f) /\ i.x.left \in Nat
  BY <1>4, <1>6, <1>7, <1>8, WriteInKeeps DEF Kept
<1> HIDE DEF i
<1>10. QED
  BY <1>1, <1>2, <1>3, <1>4, <1>8, <1>9 DEF Kept, Err

\* A file is marked modified when a write ends, whether or not it was whole.
LEMMA WriteOnKeeps ==
  ASSUME NEW m, NEW z, Good(m, z, "any"), NEW tag, NEW at, IsOpen(at.f), at.left \in Nat
  PROVE  LET a == WriteOn(m, tag, at) IN
         /\ Good(a.m, z, "any") /\ IsFil(a.x.f)
         /\ a.r = "OK" => IsOpen(a.x.f) /\ a.x.left \in Nat
         /\ a.r = "DONE" => a.x.f.mod
<1> DEFINE f == at.f
           n == at.left
           g == [f EXCEPT !.mod = TRUE]
           e == Fit(m, f, n, tag)
           o == create_chain(m, f.clust)
           p == create_chain(m, 0)
           h == IF f.fptr > 0 THEN o ELSE IF f.scl # 0 THEN Ok(m, f.scl) ELSE p
           w == WriteAt(h.m, f, h.x, n, tag)
           none == [f |-> g, left |-> 0]
           some == [f |-> g, left |-> n]
           lost == [f |-> f, left |-> 0, data |-> <<>>]
           v == WriteOn(m, tag, at)
<1>1. v = IF n = 0 THEN Done(m, none)
          ELSE IF f.fptr % SS # 0 THEN e
          ELSE IF h.r # "OK" THEN Err(h.m, h.r, lost)
          ELSE IF h.x = 0 THEN Done(h.m, some) ELSE w
  BY DEF WriteOn, Do, Abort, Err
<1>2. IsFil(g) /\ g.mod
  BY DEF IsFil, IsOpen
<1>3. none.f = g /\ some.f = g /\ lost.f = f
  OBVIOUS
<1>4. IsFil(f) /\ f.fptr \in Nat /\ (f.fptr % SS = 0 \/ f.sect \in DataSectors) /\ n \in Nat
  BY DEF IsOpen
<1> HIDE DEF v, f, n, g, none, some, lost
<1>5. n # 0 /\ f.fptr % SS # 0 => e.m = m /\ e.r = "OK" /\ IsOpen(e.x.f) /\ e.x.left \in Nat
  BY <1>4, FitKeeps
<1> HIDE DEF e
<1>6. Kept(o, z, "any") /\ Kept(p, z, "any")
  BY CreateChainKeeps
<1> HIDE DEF o, p
<1>7. Kept(h, z, "any")
  BY <1>6 DEF Kept, Ok
<1> HIDE DEF h
<1>8. n # 0 /\ f.fptr % SS = 0 => Kept(w, z, "any")
  BY <1>4, <1>7, WriteAtKeeps DEF Kept
<1>9. n # 0 /\ f.fptr % SS = 0 => /\ IsFil(w.x.f)
                                  /\ w.r = "OK" => IsOpen(w.x.f) /\ w.x.left \in Nat
  BY <1>4, <1>7, <1>8, WriteAtKeeps DEF Kept
<1> HIDE DEF w
<1>10. /\ Good(v.m, z, "any") /\ IsFil(v.x.f)
       /\ v.r = "OK" => IsOpen(v.x.f) /\ v.x.left \in Nat
       /\ v.r = "DONE" => v.x.f.mod
  BY <1>1, <1>2, <1>3, <1>4, <1>5, <1>7, <1>8, <1>9 DEF Kept, Err, Done, IsOpen
<1>11. QED
  BY <1>10 DEF v

\* The beginning of a file is the beginning of a sector.
LEMMA ZeroOffset == 0 % SS = 0
BY FatFsAssumption

\* f_write's loop is its turns.
LEMMA WriteRuns ==
  ASSUME NEW m, NEW fp, NEW n, NEW tag
  PROVE  \E f : /\ f_write(m, fp, n, tag) = Ended(f[NFatEnt]) /\ f[0] = Ok(m, [f |-> fp, left |-> n])
                /\ \A i \in 1..NFatEnt : f[i] = Turn(<<"write", tag>>, f[i - 1])
<1> DEFINE l == <<"write", tag>>
           a == Ok(m, [f |-> fp, left |-> n])
           run[i \in 0..NFatEnt] == IF i = 0 THEN a ELSE Do(run[i - 1], LAMBDA k, at : WriteOn(k, tag, at))
<1>1. \A b : Turn(l, b) = Do(b, LAMBDA k, at : WriteOn(k, tag, at))
  BY DEF Turn, Body, Do
<1>2. NFatEnt \in Nat
  BY Layout
<1>3. f_write(m, fp, n, tag) = Ended(run[NFatEnt])
  BY DEF f_write, Repeat
<1> HIDE DEF l, a
<1>4. PICK g : IsRun(g, l, a, NFatEnt)
  BY <1>2, Runs
<1>5. g = [i \in 0..NFatEnt |-> IF i = 0 THEN a ELSE Do(g[i - 1], LAMBDA k, at : WriteOn(k, tag, at))]
  BY <1>1, <1>4 DEF IsRun, Do
<1>6. run = [i \in 0..NFatEnt |-> IF i = 0 THEN a ELSE Do(run[i - 1], LAMBDA k, at : WriteOn(k, tag, at))]
  BY <1>5
<1> HIDE DEF run
<1>7. run[0] = a /\ \A i \in 1..NFatEnt : run[i] = Turn(l, run[i - 1])
  BY <1>1, <1>2, <1>6 DEF Do
<1>8. QED
  BY <1>2, <1>3, <1>7 DEF l, a

\* f_write marks the file when it succeeds.
LEMMA WriteKeeps ==
  ASSUME NEW m, NEW z, Good(m, z, "any"), NEW fp, IsFil(fp), fp.fptr = 0, NEW n \in Nat, NEW tag
  PROVE  LET a == f_write(m, fp, n, tag) IN
         Kept(a, z, "any") /\ IsFil(a.x.f) /\ (a.r = "OK" => a.x.f.mod)
<1>1. PICK f : /\ f_write(m, fp, n, tag) = Ended(f[NFatEnt]) /\ f[0] = Ok(m, [f |-> fp, left |-> n])
               /\ \A i \in 1..NFatEnt : f[i] = Turn(<<"write", tag>>, f[i - 1])
  BY WriteRuns
<1> DEFINE Inv(b) == /\ Good(b.m, z, "any") /\ IsFil(b.x.f)
                     /\ b.r = "OK" => IsOpen(b.x.f) /\ b.x.left \in Nat
                     /\ b.r = "DONE" => b.x.f.mod
           T == {i \in 0..NFatEnt : Inv(f[i])}
<1>2. 0 \in T
  BY <1>1, Layout, ZeroOffset DEF Ok, IsOpen
<1>3. ASSUME NEW i \in 1..NFatEnt, i - 1 \in T PROVE i \in T
  <2> DEFINE b == f[i - 1]
  <2>1. Inv(b) /\ f[i] = Turn(<<"write", tag>>, b)
    BY <1>1, <1>3
  <2>2. Turn(<<"write", tag>>, b) = IF b.r = "OK" THEN WriteOn(b.m, tag, b.x) ELSE b
    BY DEF Turn, Body
  <2> HIDE DEF b
  <2>3. Inv(Turn(<<"write", tag>>, b))
    BY <2>1, <2>2, WriteOnKeeps
  <2>4. QED
    BY <2>1, <2>3
<1>4. Inv(f[NFatEnt])
  BY <1>2, <1>3, Upto, Layout
<1>5. QED
  BY <1>1, <1>4 DEF Ended, Kept, Ok, Err

-----------------------------------------------------------------------------
(* Closing, seeking, truncating. *)

\* A sync that succeeds leaves nothing in the window.
LEMMA CloseKeeps ==
  ASSUME NEW m, NEW z, Good(m, z, "any"), NEW f, IsFil(f)
  PROVE  LET a == f_close(m, f) IN
         Kept(a, z, "any") /\ (a.r = "OK" /\ f.mod => Good(a.m, z, "clean"))
<1> DEFINE b == WriteBack(m, f)
           w == move_window(b.m, f.dp.sect)
           e == UpdateEntry(f, Slot(w.m.fs.win, f.dp.i))
           k == SetEntry(w.m, f.dp, e)
           s == sync_fs(k)
           l == Leave(s.m, "truncate")
<1>1. f_close(m, f) = IF ~f.mod THEN Ok(m, 0)
                      ELSE IF b.r = "OK"
                           THEN IF w.r = "OK" THEN IF s.r = "OK" THEN Ok(l, 0) ELSE s ELSE w
                           ELSE b
  BY DEF f_close, f_sync, Do
<1>2. Kept(b, z, "any")
  BY WriteBackKeeps
<1> HIDE DEF b
<1>3. Kept(w, z, "any")
  BY <1>2, DpKeeps, MoveWindowKeeps DEF Kept, IsFil
<1> HIDE DEF w, e
<1>4. Good(k, z, "any")
  BY <1>3, SetEntryKeeps DEF Kept
<1> HIDE DEF k
<1>5. Kept(s, z, "any")
  BY <1>4, SyncFsKeeps
<1>6. s.r = "OK" => Good(s.m, z, "clean")
  BY <1>4, <1>5, SyncFsKeeps
<1> HIDE DEF s
<1>7. s.r = "OK" => Good(l, z, "clean") /\ Good(l, z, "any")
  BY <1>6, MarkKeeps, GoodForm DEF Stretches
<1> HIDE DEF l
<1>8. QED
  BY <1>1, <1>2, <1>3, <1>5, <1>7 DEF Kept, Ok

\* A turn of f_lseek along the chain, which it stretches.
LEMMA StretchOnKeeps ==
  ASSUME NEW m, NEW z, Good(m, z, "any"), NEW at, IsFil(at.f)
  PROVE  LET a == StretchOn(m, at) IN
         /\ Good(a.m, z, "any")
         /\ IF a.r = "DONE" THEN IsFil(a.x) ELSE IsFil(a.x.f)
<1> DEFINE f == at.f
           o == create_chain(m, at.c)
           g == [f EXCEPT !.clust = IF o.x = 0 THEN at.c ELSE o.x, !.fptr = @ + SS]
           h == [f EXCEPT !.clust = at.c, !.fptr = @ + at.ofs]
           more == [f |-> g, c |-> o.x, ofs |-> at.ofs - SS]
           lost == [f |-> f, left |-> 0, data |-> <<>>]
           v == StretchOn(m, at)
<1>1. \/ v = Done(m, h)
      \/ o.r # "OK" /\ v = Err(o.m, o.r, lost)
      \/ o.r = "OK" /\ (v = Done(o.m, g) \/ v = Ok(o.m, more))
  BY DEF StretchOn, Do, Abort, Err
<1>2. IsFil(g) /\ IsFil(h)
  BY DEF IsFil
<1>3. more.f = g /\ lost.f = f
  OBVIOUS
<1> HIDE DEF v, g, h, more, lost
<1>4. Kept(o, z, "any")
  BY CreateChainKeeps
<1> HIDE DEF o
<1>5. Good(v.m, z, "any") /\ IF v.r = "DONE" THEN IsFil(v.x) ELSE IsFil(v.x.f)
  BY <1>1, <1>2, <1>3, <1>4 DEF Kept, Ok, Err, Done
<1>6. QED
  BY <1>5 DEF v

\* f_lseek's loop is its turns.
LEMMA StretchRuns ==
  ASSUME NEW m, NEW fp, NEW c, NEW ofs
  PROVE  \E f : /\ Stretch(m, fp, c, ofs) = Ended(f[NFatEnt]) /\ f[0] = Ok(m, [f |-> fp, c |-> c, ofs |-> ofs])
                /\ \A i \in 1..NFatEnt : f[i] = Turn(<<"stretch">>, f[i - 1])
<1> DEFINE l == <<"stretch">>
           a == Ok(m, [f |-> fp, c |-> c, ofs |-> ofs])
           run[i \in 0..NFatEnt] == IF i = 0 THEN a ELSE Do(run[i - 1], StretchOn)
<1>1. \A b : Turn(l, b) = Do(b, StretchOn)
  BY DEF Turn, Body, Do
<1>2. NFatEnt \in Nat
  BY Layout
<1>3. Stretch(m, fp, c, ofs) = Ended(run[NFatEnt])
  BY DEF Stretch, Repeat
<1> HIDE DEF l, a
<1>4. PICK g : IsRun(g, l, a, NFatEnt)
  BY <1>2, Runs
<1>5. g = [i \in 0..NFatEnt |-> IF i = 0 THEN a ELSE Do(g[i - 1], StretchOn)]
  BY <1>1, <1>4 DEF IsRun, Do
<1>6. run = [i \in 0..NFatEnt |-> IF i = 0 THEN a ELSE Do(run[i - 1], StretchOn)]
  BY <1>5
<1> HIDE DEF run
<1>7. run[0] = a /\ \A i \in 1..NFatEnt : run[i] = Turn(l, run[i - 1])
  BY <1>1, <1>2, <1>6 DEF Do
<1>8. QED
  BY <1>2, <1>3, <1>7 DEF l, a

\* f_lseek's loop, that stretches the file.
LEMMA StretchKeeps ==
  ASSUME NEW m, NEW z, Good(m, z, "any"), NEW fp, IsFil(fp), NEW c, NEW ofs
  PROVE  LET a == Stretch(m, fp, c, ofs) IN
         Kept(a, z, "any") /\ IF a.r = "OK" THEN IsFil(a.x) ELSE IsFil(a.x.f)
<1>1. PICK f : /\ Stretch(m, fp, c, ofs) = Ended(f[NFatEnt]) /\ f[0] = Ok(m, [f |-> fp, c |-> c, ofs |-> ofs])
               /\ \A i \in 1..NFatEnt : f[i] = Turn(<<"stretch">>, f[i - 1])
  BY StretchRuns
<1> DEFINE Inv(b) == /\ Good(b.m, z, "any")
                     /\ IF b.r = "DONE" THEN IsFil(b.x) ELSE IsFil(b.x.f)
           T == {i \in 0..NFatEnt : Inv(f[i])}
<1>2. 0 \in T
  BY <1>1, Layout DEF Ok
<1>3. ASSUME NEW i \in 1..NFatEnt, i - 1 \in T PROVE i \in T
  <2> DEFINE b == f[i - 1]
  <2>1. Inv(b) /\ f[i] = Turn(<<"stretch">>, b)
    BY <1>1, <1>3
  <2>2. Turn(<<"stretch">>, b) = IF b.r = "OK" THEN StretchOn(b.m, b.x) ELSE b
    BY DEF Turn, Body
  <2> HIDE DEF b
  <2>3. Inv(Turn(<<"stretch">>, b))
    BY <2>1, <2>2, StretchOnKeeps
  <2>4. QED
    BY <2>1, <2>3
<1>4. Inv(f[NFatEnt])
  BY <1>2, <1>3, Upto, Layout
<1>5. QED
  BY <1>1, <1>4 DEF Ended, Kept, Ok, Err

\* Where a seek ends: the sector there is read into the buffer.
LEMMA LoadKeeps ==
  ASSUME NEW m, NEW z, NEW q, Good(m, z, q), NEW f, IsFil(f), ~f.dirty, NEW s
  PROVE  LET a == Load(m, f, s) IN
         Kept(a, z, q) /\ IF a.r = "OK" THEN IsFil(a.x) ELSE IsFil(a.x.f)
<1> DEFINE d == disk_read(m, s)
           h == [f EXCEPT !.sect = s, !.buf = Units(d.x)]
           lost == [f |-> f, left |-> 0, data |-> <<>>]
<1>1. Load(m, f, s) = IF d.r = "OK" THEN Ok(d.m, h) ELSE Err(d.m, d.r, lost)
  BY DEF Load, Do, Abort, Err
<1>2. IsFil(h) /\ lost.f = f
  BY DEF IsFil
<1> HIDE DEF h, lost
<1>3. Kept(d, z, q)
  BY ReadKeeps
<1> HIDE DEF d
<1>4. QED
  BY <1>1, <1>2, <1>3 DEF Kept, Ok, Err

\* f_lseek loads the sector it lands in.
LEMMA LandedKeeps ==
  ASSUME NEW m, NEW z, NEW q, Good(m, z, q), NEW f, IsFil(f)
  PROVE  LET a == Landed(m, f) IN
         Kept(a, z, q) /\ IF a.r = "OK" THEN IsFil(a.x) ELSE IsFil(a.x.f)
<1> DEFINE g == IF f.fptr > f.size THEN [f EXCEPT !.size = f.fptr, !.mod = TRUE] ELSE f
           s == clst2sect(f.clust)
           b == WriteBack(m, g)
           d == Load(b.m, b.x, s)
           here == [f |-> f, left |-> 0, data |-> <<>>]
           lost == [f |-> g, left |-> 0, data |-> <<>>]
           v == Landed(m, f)
<1>1. v = IF f.fptr % SS # 0 /\ s = 0 THEN Err(m, "INT_ERR", here)
          ELSE IF f.fptr % SS = 0 \/ s = f.sect THEN Ok(m, g)
          ELSE IF b.r = "OK" THEN d ELSE Err(b.m, b.r, lost)
  BY DEF Landed, Do, Abort, Err
<1>2. here.f = f /\ lost.f = g
  OBVIOUS
<1>3. IsFil(g)
  BY DEF IsFil
<1> HIDE DEF v, g, s, here, lost
<1>4. Kept(b, z, q)
  BY <1>3, WriteBackKeeps
<1>5. b.r = "OK" => b.x = [g EXCEPT !.dirty = FALSE]
  BY <1>3, <1>4, WriteBackKeeps
<1>6. b.r = "OK" => IsFil(b.x) /\ ~b.x.dirty
  BY <1>3, <1>5 DEF IsFil
<1> HIDE DEF b
<1>7. b.r = "OK" => Kept(d, z, q)
  BY <1>4, <1>6, LoadKeeps DEF Kept
<1>8. b.r = "OK" => IF d.r = "OK" THEN IsFil(d.x) ELSE IsFil(d.x.f)
  BY <1>4, <1>6, <1>7, LoadKeeps DEF Kept
<1> HIDE DEF d
<1>9. Kept(v, z, q) /\ IF v.r = "OK" THEN IsFil(v.x) ELSE IsFil(v.x.f)
  BY <1>1, <1>2, <1>3, <1>4, <1>7, <1>8 DEF Kept, Ok, Err
<1>10. QED
  BY <1>9 DEF v

\* f_lseek, to any offset.
LEMMA LseekKeeps ==
  ASSUME NEW m, NEW z, Good(m, z, "any"), NEW f, IsFil(f), NEW ofs
  PROVE  LET a == f_lseek(m, f, ofs) IN
         Kept(a, z, "any") /\ IF a.r = "OK" THEN IsFil(a.x) ELSE IsFil(a.x.f)
<1> DEFINE y == [f EXCEPT !.fptr = 0]
           o == create_chain(m, 0)
           h == IF f.scl # 0 THEN Ok(m, f.scl) ELSE o
           g == [y EXCEPT !.scl = h.x]
           l == Landed(h.m, g)
           s == Stretch(h.m, g, h.x, ofs)
           e == Landed(s.m, s.x)
           lost == [f |-> y, left |-> 0, data |-> <<>>]
           v == f_lseek(m, f, ofs)
<1>1. \/ v = Ok(m, y)
      \/ h.r # "OK" /\ v = Err(h.m, h.r, lost)
      \/ h.r = "OK" /\ v = l
      \/ h.r = "OK" /\ s.r = "OK" /\ v = e
      \/ h.r = "OK" /\ s.r # "OK" /\ v = s
  BY DEF f_lseek, Do, Abort, Err
<1>2. IsFil(y) /\ IsFil(g) /\ lost.f = y
  BY DEF IsFil
<1> HIDE DEF v, y, g, lost
<1>3. Kept(o, z, "any")
  BY CreateChainKeeps
<1> HIDE DEF o
<1>4. Kept(h, z, "any")
  BY <1>3 DEF Kept, Ok
<1> HIDE DEF h
<1>5. Kept(l, z, "any")
  BY <1>2, <1>4, LandedKeeps DEF Kept
<1>6. IF l.r = "OK" THEN IsFil(l.x) ELSE IsFil(l.x.f)
  BY <1>2, <1>4, <1>5, LandedKeeps DEF Kept
<1>7. Kept(s, z, "any")
  BY <1>2, <1>4, StretchKeeps DEF Kept
<1>8. IF s.r = "OK" THEN IsFil(s.x) ELSE IsFil(s.x.f)
  BY <1>2, <1>4, <1>7, StretchKeeps DEF Kept
<1> HIDE DEF l, s
<1>9. s.r = "OK" => Kept(e, z, "any")
  BY <1>7, <1>8, LandedKeeps DEF Kept
<1>10. s.r = "OK" => IF e.r = "OK" THEN IsFil(e.x) ELSE IsFil(e.x.f)
  BY <1>7, <1>8, <1>9, LandedKeeps DEF Kept
<1> HIDE DEF e
<1>11. Kept(v, z, "any") /\ IF v.r = "OK" THEN IsFil(v.x) ELSE IsFil(v.x.f)
  BY <1>1, <1>2, <1>4, <1>5, <1>6, <1>7, <1>8, <1>9, <1>10 DEF Kept, Ok, Err
<1>12. QED
  BY <1>11 DEF v

\* A chain is cut after a cluster that is in use.
LEMMA CutKeeps ==
  ASSUME NEW m, NEW z, Good(m, z, "any"), NEW pc
  PROVE  LET n == get_fat(m, pc) IN
         n.r = "OK" => Kept(remove_chain(Enter(n.m, "truncate"), n.x, pc), z, "any")
<1> DEFINE n == get_fat(m, pc)
           k == Enter(n.m, "truncate")
           r == remove_chain(k, n.x, pc)
<1>1. PICK t, u : Counted(t, u) /\ Sees(m, z, "any", t, u)
  BY DEF Good
<1>2. Sees(n.m, z, "any", t, u)
  BY <1>1, GetFatSees
<1>3. n.r = "OK" => pc \in Clusters /\ (z[1] => n.x = t[pc])
  BY <1>1, <1>2, GetFatSees
<1> HIDE DEF n
<1>4. Sees(k, z, "any", t, u)
  BY <1>2, MarkSees DEF Stretches
<1> HIDE DEF k
<1>5. n.x = 0 => r = Err(k, "INT_ERR", 0)
  BY Layout DEF remove_chain, OnlyIf
<1>6. ASSUME n.r = "OK" PROVE Kept(r, z, "any")
  <2>1. CASE n.x = 0
    BY <1>1, <1>4, <1>5, <2>1 DEF Kept, Good, Err
  <2>2. CASE n.x # 0
    <3>1. pc = 0 \/ ~z[1] \/ (pc \in Clusters /\ t[pc] # 0)
      BY <1>3, <1>6, <2>2
    <3>2. QED
      BY <1>1, <1>4, <3>1, RemoveChainSees
  <2>3. QED
    BY <2>1, <2>2
<1>7. QED
  BY <1>6 DEF n, k

\* f_truncate cuts the chain where the file pointer is.
LEMMA TruncateKeeps ==
  ASSUME NEW m, NEW z, Good(m, z, "any"), NEW f, IsFil(f)
  PROVE  LET a == f_truncate(m, f) IN
         Kept(a, z, "any") /\ IF a.r = "OK" THEN IsFil(a.x) ELSE IsFil(a.x.f)
<1> DEFINE g == [f EXCEPT !.size = f.fptr, !.mod = TRUE, !.scl = IF f.fptr = 0 THEN 0 ELSE @]
           r == remove_chain(Enter(m, "truncate"), f.scl, 0)
           n == get_fat(m, f.clust)
           p == remove_chain(Enter(n.m, "truncate"), n.x, f.clust)
           c == IF f.fptr = 0 THEN r
                ELSE IF n.r = "OK" THEN IF n.x < NFatEnt THEN p ELSE Ok(n.m, 0) ELSE n
           b == WriteBack(c.m, g)
           lost == [f |-> g, left |-> 0, data |-> <<>>]
           v == f_truncate(m, f)
<1>1. \/ v = Ok(m, f)
      \/ c.r # "OK" /\ v = Err(c.m, c.r, lost)
      \/ c.r = "OK" /\ b.r = "OK" /\ v = b
      \/ c.r = "OK" /\ b.r # "OK" /\ v = Err(b.m, b.r, lost)
  BY DEF f_truncate, Do, Abort, Err
<1>2. IsFil(g) /\ lost.f = g
  BY DEF IsFil
<1> HIDE DEF v, g, lost
<1>3. Kept(r, z, "any")
  BY MarkKeeps, RemoveChainKeeps DEF Stretches
<1>4. Kept(n, z, "any")
  BY GetFatKeeps
<1>5. n.r = "OK" => Kept(p, z, "any")
  BY CutKeeps
<1> HIDE DEF r, n, p
<1>6. Kept(c, z, "any")
  BY <1>3, <1>4, <1>5 DEF Kept, Ok
<1> HIDE DEF c
<1>7. Kept(b, z, "any")
  BY <1>2, <1>6, WriteBackKeeps DEF Kept
<1>8. b.r = "OK" => b.x = [g EXCEPT !.dirty = FALSE]
  BY <1>2, <1>6, <1>7, WriteBackKeeps DEF Kept
<1>9. b.r = "OK" => IsFil(b.x)
  BY <1>2, <1>8 DEF IsFil
<1> HIDE DEF b
<1>10. Kept(v, z, "any") /\ IF v.r = "OK" THEN IsFil(v.x) ELSE IsFil(v.x.f)
  BY <1>1, <1>2, <1>6, <1>7, <1>9 DEF Kept, Ok, Err
<1>11. QED
  BY <1>10 DEF v

-----------------------------------------------------------------------------
(* The commands that change no medium. *)

\* The current directory is no part of the volume.
LEMMA CdirKeeps ==
  ASSUME NEW m, NEW z, NEW q, Good(m, z, q), NEW d
  PROVE  Good([m EXCEPT !.fs.cdir = d], z, q)
<1> DEFINE f == [m.fs EXCEPT !.cdir = d]
           k == [m EXCEPT !.fs = f]
<1>1. PICK t, u : Counted(t, u) /\ Sees(m, z, q, t, u)
  BY DEF Good
<1>2. Form(m) /\ FsForm(m.fs) /\ WindowForm(m.fs)
  BY <1>1 DEF Sees, Form
<1>3. /\ FsForm(f) /\ f.win = m.fs.win /\ f.winsect = m.fs.winsect /\ f.wflag = m.fs.wflag
      /\ f.free = m.fs.free /\ f.mounted = m.fs.mounted
  BY <1>2 DEF FsForm
<1>4. [m EXCEPT !.fs.cdir = d] = k
  OBVIOUS
<1> HIDE DEF f
<1>5. WindowForm(f)
  BY <1>2, <1>3 DEF WindowForm
<1>6. /\ Form(k) /\ k.fs = f /\ k.disk = m.disk /\ k.synced = m.synced
      /\ k.fault = m.fault /\ k.cut = m.cut
  BY <1>2, <1>3, <1>5, FsField
<1> HIDE DEF k
<1>7. z[1] => Coherent(k.disk, k.fs)
  BY <1>1, <1>3, <1>6 DEF Sees, Coherent
<1>8. \A c : FatOf(k.disk, k.fs, c) = FatOf(m.disk, m.fs, c)
  BY <1>3, <1>6 DEF FatOf
<1>9. Sees(k, z, q, t, u)
  BY <1>1, <1>3, <1>6, <1>7, <1>8 DEF Sees
<1>10. QED
  BY <1>1, <1>4, <1>9 DEF Good

\* f_chdir only looks at the volume.
LEMMA ChdirKeeps ==
  ASSUME NEW m, NEW z, NEW q, Good(m, z, q), z[3], NEW p, IsPath(p)
  PROVE  Kept(f_chdir(m, p), z, q)
<1> DEFINE a == Lookup(m, p)
           o == [a.m EXCEPT !.fs.cdir = a.x.scl]
           d == [a.m EXCEPT !.fs.cdir = a.x.e.cl]
           v == f_chdir(m, p)
<1>1. v \in {Err(a.m, "NO_PATH", 0), Ok(o, 0), Ok(d, 0)} \/ (v = a /\ a.r # "OK")
  BY DEF f_chdir, Do
<1>2. Kept(a, z, q)
  BY LookupKeeps
<1> HIDE DEF a
<1>3. Good(o, z, q) /\ Good(d, z, q)
  BY <1>2, CdirKeeps DEF Kept
<1> HIDE DEF o, d, v
<1>4. Kept(v, z, q)
  BY <1>1, <1>2, <1>3 DEF Kept, Ok, Err
<1>5. QED
  BY <1>4 DEF v

\* One entry of the search for a directory's name in its parent.
LEMMA NameNextKeeps ==
  ASSUME NEW m, NEW z, NEW q, Good(m, z, q), NEW c, NEW dp, IsDp(dp)
  PROVE  LET a == NameNext(m, c, dp) IN Good(a.m, z, q) /\ (a.r = "OK" => IsDp(a.x))
<1> DEFINE a == dir_read(m, dp)
           b == dir_next(a.m, a.x.dp, FALSE)
           v == NameNext(m, c, dp)
<1>1. \/ v = Err(a.m, "INT_ERR", 0) \/ (v = a /\ a.r # "OK") \/ v = Done(a.m, a.x.show)
      \/ a.r = "OK" /\ (v = Err(b.m, "INT_ERR", 0) \/ v = b)
  BY DEF NameNext, Do
<1>2. Kept(a, z, q)
  BY DirReadKeeps
<1>3. a.r = "OK" => IsDp(a.x.dp)
  BY <1>2, DirReadKeeps
<1> HIDE DEF a
<1>4. a.r = "OK" => Kept(b, z, q)
  BY <1>2, <1>3, DirNextKeeps DEF Kept
<1>5. a.r = "OK" => (b.r = "OK" => IsDp(b.x))
  BY <1>2, <1>3, <1>4, DirNextKeeps DEF Kept
<1> HIDE DEF b, v
<1>6. Good(v.m, z, q) /\ (v.r = "OK" => IsDp(v.x))
  BY <1>1, <1>2, <1>4, <1>5 DEF Kept, Ok, Err, Done
<1>7. QED
  BY <1>6 DEF v

\* f_getcwd's search of a name is its turns.
LEMMA NameOfRuns ==
  ASSUME NEW m, NEW dp, NEW c
  PROVE  \E f : /\ NameOf(m, dp, c) = Ended(f[MaxEntries]) /\ f[0] = Ok(m, dp)
                /\ \A i \in 1..MaxEntries : f[i] = Turn(<<"name", c>>, f[i - 1])
<1> DEFINE l == <<"name", c>>
           a == Ok(m, dp)
           run[i \in 0..MaxEntries] == IF i = 0 THEN a ELSE Do(run[i - 1], LAMBDA k, d : NameNext(k, c, d))
<1>1. \A b : Turn(l, b) = Do(b, LAMBDA k, d : NameNext(k, c, d))
  BY DEF Turn, Body, Do
<1>2. MaxEntries \in Nat
  BY Bounds
<1>3. NameOf(m, dp, c) = Ended(run[MaxEntries])
  BY DEF NameOf, Repeat
<1> HIDE DEF l, a
<1>4. PICK g : IsRun(g, l, a, MaxEntries)
  BY <1>2, Runs
<1>5. g = [i \in 0..MaxEntries |-> IF i = 0 THEN a ELSE Do(g[i - 1], LAMBDA k, d : NameNext(k, c, d))]
  BY <1>1, <1>4 DEF IsRun, Do
<1>6. run = [i \in 0..MaxEntries |-> IF i = 0 THEN a ELSE Do(run[i - 1], LAMBDA k, d : NameNext(k, c, d))]
  BY <1>5
<1> HIDE DEF run
<1>7. run[0] = a /\ \A i \in 1..MaxEntries : run[i] = Turn(l, run[i - 1])
  BY <1>1, <1>2, <1>6 DEF Do
<1>8. QED
  BY <1>2, <1>3, <1>7 DEF l, a

\* f_getcwd's search of a name only looks.
LEMMA NameOfKeeps ==
  ASSUME NEW m, NEW z, NEW q, Good(m, z, q), NEW c, NEW dp, IsDp(dp)
  PROVE  Kept(NameOf(m, dp, c), z, q)
<1>1. PICK f : /\ NameOf(m, dp, c) = Ended(f[MaxEntries]) /\ f[0] = Ok(m, dp)
               /\ \A i \in 1..MaxEntries : f[i] = Turn(<<"name", c>>, f[i - 1])
  BY NameOfRuns
<1> DEFINE Inv(b) == Good(b.m, z, q) /\ (b.r = "OK" => IsDp(b.x))
           T == {i \in 0..MaxEntries : Inv(f[i])}
<1>2. 0 \in T
  BY <1>1, Bounds DEF Ok
<1>3. ASSUME NEW i \in 1..MaxEntries, i - 1 \in T PROVE i \in T
  <2> DEFINE b == f[i - 1]
  <2>1. Inv(b) /\ f[i] = Turn(<<"name", c>>, b)
    BY <1>1, <1>3
  <2>2. Turn(<<"name", c>>, b) = IF b.r = "OK" THEN NameNext(b.m, c, b.x) ELSE b
    BY DEF Turn, Body
  <2> HIDE DEF b
  <2>3. Inv(Turn(<<"name", c>>, b))
    BY <2>1, <2>2, NameNextKeeps
  <2>4. QED
    BY <2>1, <2>3
<1>4. Inv(f[MaxEntries])
  BY <1>2, <1>3, Upto, Bounds
<1>5. QED
  BY <1>1, <1>4 DEF Ended, Kept, Ok, Err

\* One directory further up.
LEMMA ClimbKeeps ==
  ASSUME NEW m, NEW z, NEW q, Good(m, z, q), NEW at
  PROVE  Good(Climb(m, at).m, z, q)
<1> DEFINE d == dir_sdi(m, at.c, 1)
           w == move_window(d.m, d.x.sect)
           up == Slot(w.m.fs.win, 1).cl
           e == dir_sdi(w.m, up, 0)
           n == NameOf(e.m, e.x, at.c)
           v == Climb(m, at)
<1>1. \/ v.m = m
      \/ d.r # "OK" /\ v.m = d.m
      \/ d.r = "OK" /\ (v.m = w.m \/ v.m = e.m \/ (e.r = "OK" /\ v.m = n.m))
  BY DEF Climb, Do, Ok, Done, Err
<1>2. Kept(d, z, q)
  BY DirSdiKeeps
<1>3. d.r = "OK" => IsDp(d.x)
  BY <1>2, DirSdiKeeps
<1> HIDE DEF d, v
<1>4. d.r = "OK" => Kept(w, z, q)
  BY <1>2, <1>3, DpKeeps, MoveWindowKeeps DEF Kept
<1> HIDE DEF w, up
<1>5. d.r = "OK" => Kept(e, z, q)
  BY <1>4, DirSdiKeeps DEF Kept
<1>6. d.r = "OK" => (e.r = "OK" => IsDp(e.x))
  BY <1>4, <1>5, DirSdiKeeps DEF Kept
<1> HIDE DEF e
<1>7. d.r = "OK" /\ e.r = "OK" => Kept(n, z, q)
  BY <1>5, <1>6, NameOfKeeps DEF Kept
<1> HIDE DEF n
<1>8. QED
  BY <1>1, <1>2, <1>4, <1>5, <1>7 DEF Kept, v

ClimbLoop(m, c) == Repeat(NFatEnt, Ok(m, [c |-> c, path |-> <<>>]), Climb)

\* f_getcwd's climb is its turns.
LEMMA ClimbLoopRuns ==
  ASSUME NEW m, NEW c
  PROVE  \E f : /\ ClimbLoop(m, c) = Ended(f[NFatEnt]) /\ f[0] = Ok(m, [c |-> c, path |-> <<>>])
                /\ \A i \in 1..NFatEnt : f[i] = Turn(<<"climb">>, f[i - 1])
<1> DEFINE l == <<"climb">>
           a == Ok(m, [c |-> c, path |-> <<>>])
           run[i \in 0..NFatEnt] == IF i = 0 THEN a ELSE Do(run[i - 1], Climb)
<1>1. \A b : Turn(l, b) = Do(b, Climb)
  BY DEF Turn, Body, Do
<1>2. NFatEnt \in Nat
  BY Layout
<1>3. ClimbLoop(m, c) = Ended(run[NFatEnt])
  BY DEF ClimbLoop, Repeat
<1> HIDE DEF l, a
<1>4. PICK g : IsRun(g, l, a, NFatEnt)
  BY <1>2, Runs
<1>5. g = [i \in 0..NFatEnt |-> IF i = 0 THEN a ELSE Do(g[i - 1], Climb)]
  BY <1>1, <1>4 DEF IsRun, Do
<1>6. run = [i \in 0..NFatEnt |-> IF i = 0 THEN a ELSE Do(run[i - 1], Climb)]
  BY <1>5
<1> HIDE DEF run
<1>7. run[0] = a /\ \A i \in 1..NFatEnt : run[i] = Turn(l, run[i - 1])
  BY <1>1, <1>2, <1>6 DEF Do
<1>8. QED
  BY <1>2, <1>3, <1>7 DEF l, a

\* f_getcwd's climb only looks.
LEMMA ClimbLoopKeeps ==
  ASSUME NEW m, NEW z, NEW q, Good(m, z, q), NEW c
  PROVE  Kept(ClimbLoop(m, c), z, q)
<1>1. PICK f : /\ ClimbLoop(m, c) = Ended(f[NFatEnt]) /\ f[0] = Ok(m, [c |-> c, path |-> <<>>])
               /\ \A i \in 1..NFatEnt : f[i] = Turn(<<"climb">>, f[i - 1])
  BY ClimbLoopRuns
<1> DEFINE Inv(b) == Good(b.m, z, q)
           T == {i \in 0..NFatEnt : Inv(f[i])}
<1>2. 0 \in T
  BY <1>1, Layout DEF Ok
<1>3. ASSUME NEW i \in 1..NFatEnt, i - 1 \in T PROVE i \in T
  <2> DEFINE b == f[i - 1]
  <2>1. Inv(b) /\ f[i] = Turn(<<"climb">>, b)
    BY <1>1, <1>3
  <2>2. Turn(<<"climb">>, b) = IF b.r = "OK" THEN Climb(b.m, b.x) ELSE b
    BY DEF Turn, Body
  <2> HIDE DEF b
  <2>3. Inv(Turn(<<"climb">>, b))
    BY <2>1, <2>2, ClimbKeeps
  <2>4. QED
    BY <2>1, <2>3
<1>4. Inv(f[NFatEnt])
  BY <1>2, <1>3, Upto, Layout
<1>5. QED
  BY <1>1, <1>4 DEF Ended, Kept, Ok, Err

\* f_getcwd only looks.
LEMMA GetcwdKeeps ==
  ASSUME NEW m, NEW z, NEW q, Good(m, z, q), z[3]
  PROVE  Kept(f_getcwd(m), z, q)
<1>1. mount_volume(m) = Ok(m, 0)
  BY MountedAlready
<1>2. f_getcwd(m) = ClimbLoop(m, m.fs.cdir)
  BY <1>1 DEF f_getcwd, ClimbLoop, Do, Ok
<1>3. QED
  BY <1>2, ClimbLoopKeeps

\* One entry that the shell lists.
LEMMA ReaddirKeeps ==
  ASSUME NEW m, NEW z, NEW q, Good(m, z, q), NEW at, IsDp(at.dp)
  PROVE  LET a == f_readdir(m, at) IN Good(a.m, z, q) /\ (a.r = "OK" => IsDp(a.x.dp))
<1> DEFINE a == dir_read(m, at.dp)
           b == dir_next(a.m, a.x.dp, FALSE)
           names == Append(at.names, a.x.show)
           more == [dp |-> b.x, names |-> names]
           v == f_readdir(m, at)
<1>1. \/ v = Done(a.m, at.names)
      \/ v = a /\ a.r # "OK"
      \/ a.r = "OK" /\ (v = Done(b.m, names) \/ (v = b /\ b.r # "OK") \/ (v = Ok(b.m, more) /\ b.r = "OK"))
  BY DEF f_readdir, Do
<1>2. more.dp = b.x
  OBVIOUS
<1>3. Kept(a, z, q)
  BY DirReadKeeps
<1>4. a.r = "OK" => IsDp(a.x.dp)
  BY <1>3, DirReadKeeps
<1> HIDE DEF a, names, more
<1>5. a.r = "OK" => Kept(b, z, q)
  BY <1>3, <1>4, DirNextKeeps DEF Kept
<1>6. a.r = "OK" => (b.r = "OK" => IsDp(b.x))
  BY <1>3, <1>4, <1>5, DirNextKeeps DEF Kept
<1> HIDE DEF b, v
<1>7. Good(v.m, z, q) /\ (v.r = "OK" => IsDp(v.x.dp))
  BY <1>1, <1>2, <1>3, <1>5, <1>6 DEF Kept, Ok, Done, Err
<1>8. QED
  BY <1>7 DEF v

ListLoop(m, dp) == Repeat(MaxEntries, Ok(m, [dp |-> dp, names |-> <<>>]), f_readdir)

\* ls's loop is its turns.
LEMMA ListLoopRuns ==
  ASSUME NEW m, NEW dp
  PROVE  \E f : /\ ListLoop(m, dp) = Ended(f[MaxEntries]) /\ f[0] = Ok(m, [dp |-> dp, names |-> <<>>])
                /\ \A i \in 1..MaxEntries : f[i] = Turn(<<"list">>, f[i - 1])
<1> DEFINE l == <<"list">>
           a == Ok(m, [dp |-> dp, names |-> <<>>])
           run[i \in 0..MaxEntries] == IF i = 0 THEN a ELSE Do(run[i - 1], f_readdir)
<1>1. \A b : Turn(l, b) = Do(b, f_readdir)
  BY DEF Turn, Body, Do
<1>2. MaxEntries \in Nat
  BY Bounds
<1>3. ListLoop(m, dp) = Ended(run[MaxEntries])
  BY DEF ListLoop, Repeat
<1> HIDE DEF l, a
<1>4. PICK g : IsRun(g, l, a, MaxEntries)
  BY <1>2, Runs
<1>5. g = [i \in 0..MaxEntries |-> IF i = 0 THEN a ELSE Do(g[i - 1], f_readdir)]
  BY <1>1, <1>4 DEF IsRun, Do
<1>6. run = [i \in 0..MaxEntries |-> IF i = 0 THEN a ELSE Do(run[i - 1], f_readdir)]
  BY <1>5
<1> HIDE DEF run
<1>7. run[0] = a /\ \A i \in 1..MaxEntries : run[i] = Turn(l, run[i - 1])
  BY <1>1, <1>2, <1>6 DEF Do
<1>8. QED
  BY <1>2, <1>3, <1>7 DEF l, a

\* ls's loop only looks.
LEMMA ListLoopKeeps ==
  ASSUME NEW m, NEW z, NEW q, Good(m, z, q), NEW dp, IsDp(dp)
  PROVE  Kept(ListLoop(m, dp), z, q)
<1>1. PICK f : /\ ListLoop(m, dp) = Ended(f[MaxEntries]) /\ f[0] = Ok(m, [dp |-> dp, names |-> <<>>])
               /\ \A i \in 1..MaxEntries : f[i] = Turn(<<"list">>, f[i - 1])
  BY ListLoopRuns
<1> DEFINE Inv(b) == Good(b.m, z, q) /\ (b.r = "OK" => IsDp(b.x.dp))
           T == {i \in 0..MaxEntries : Inv(f[i])}
<1>2. 0 \in T
  BY <1>1, Bounds DEF Ok
<1>3. ASSUME NEW i \in 1..MaxEntries, i - 1 \in T PROVE i \in T
  <2> DEFINE b == f[i - 1]
  <2>1. Inv(b) /\ f[i] = Turn(<<"list">>, b)
    BY <1>1, <1>3
  <2>2. Turn(<<"list">>, b) = IF b.r = "OK" THEN f_readdir(b.m, b.x) ELSE b
    BY DEF Turn, Body
  <2> HIDE DEF b
  <2>3. Inv(Turn(<<"list">>, b))
    BY <2>1, <2>2, ReaddirKeeps
  <2>4. QED
    BY <2>1, <2>3
<1>4. Inv(f[MaxEntries])
  BY <1>2, <1>3, Upto, Bounds
<1>5. QED
  BY <1>1, <1>4 DEF Ended, Kept, Ok, Err

\* f_opendir only looks and points a DIR into the data area.
LEMMA OpendirKeeps ==
  ASSUME NEW m, NEW z, NEW q, Good(m, z, q), z[3], NEW p, IsPath(p)
  PROVE  LET a == f_opendir(m, p) IN Kept(a, z, q) /\ (a.r = "OK" => IsDp(a.x))
<1> DEFINE a == Lookup(m, p)
           o == dir_sdi(a.m, a.x.scl, 0)
           d == dir_sdi(a.m, a.x.e.cl, 0)
           v == f_opendir(m, p)
<1>1. v = Err(a.m, "NO_PATH", 0) \/ (v = a /\ a.r # "OK") \/ v = o \/ v = d
  BY DEF f_opendir, Do
<1>2. Kept(a, z, q)
  BY LookupKeeps
<1> HIDE DEF a
<1>3. Kept(o, z, q) /\ Kept(d, z, q)
  BY <1>2, DirSdiKeeps DEF Kept
<1>4. (o.r = "OK" => IsDp(o.x)) /\ (d.r = "OK" => IsDp(d.x))
  BY <1>2, <1>3, DirSdiKeeps DEF Kept
<1> HIDE DEF o, d, v
<1>5. Kept(v, z, q) /\ (v.r = "OK" => IsDp(v.x))
  BY <1>1, <1>2, <1>3, <1>4 DEF Kept, Err
<1>6. QED
  BY <1>5 DEF v

\* f_stat only looks.
LEMMA StatKeeps ==
  ASSUME NEW m, NEW z, NEW q, Good(m, z, q), z[3], NEW p, IsPath(p)
  PROVE  Kept(f_stat(m, p), z, q)
<1> DEFINE a == Lookup(m, p)
           v == f_stat(m, p)
<1>1. v = a \/ v = Err(a.m, "INVALID_NAME", 0) \/ v = Ok(a.m, a.x.e)
  BY DEF f_stat, Do
<1>2. Kept(a, z, q)
  BY LookupKeeps
<1> HIDE DEF a, v
<1>3. Kept(v, z, q)
  BY <1>1, <1>2 DEF Kept, Ok, Err
<1>4. QED
  BY <1>3 DEF v

-----------------------------------------------------------------------------
(* Counting the free clusters. *)

\* The free ones of the clusters below c.
FreeBelow(t, c) == {i \in 2..(c - 1) : t[i] = 0}

\* The count of free clusters below c, as c goes on by one.
LEMMA FreeBelowGrows ==
  ASSUME NEW t, NEW c \in 2..NFatEnt
  PROVE  /\ IsFiniteSet(FreeBelow(t, c)) /\ Cardinality(FreeBelow(t, 2)) = 0
         /\ Cardinality(FreeBelow(t, c + 1)) = Cardinality(FreeBelow(t, c)) + IF t[c] = 0 THEN 1 ELSE 0
         /\ FreeBelow(t, NFatEnt) = Free(t)
<1>1. NFatEnt \in Nat /\ c \in Int
  BY Layout
<1>2. IsFiniteSet(2..(c - 1))
  BY <1>1, FS_Interval
<1>3. IsFiniteSet(FreeBelow(t, c))
  BY <1>2, FS_Subset DEF FreeBelow
<1>4. FreeBelow(t, 2) = {}
  BY DEF FreeBelow
<1>5. Cardinality(FreeBelow(t, 2)) = 0
  BY <1>4, FS_EmptySet
<1>6. FreeBelow(t, NFatEnt) = Free(t)
  BY Layout DEF FreeBelow, Free
<1>7. CASE t[c] = 0
  <2>1. FreeBelow(t, c + 1) = FreeBelow(t, c) \cup {c} /\ c \notin FreeBelow(t, c)
    BY <1>1, <1>7 DEF FreeBelow
  <2>2. Cardinality(FreeBelow(t, c + 1)) = Cardinality(FreeBelow(t, c)) + 1
    BY <1>3, <2>1, FS_AddElement
  <2>3. QED
    BY <1>3, <1>5, <1>6, <1>7, <2>2
<1>8. CASE t[c] # 0
  <2>1. FreeBelow(t, c + 1) = FreeBelow(t, c)
    BY <1>1, <1>8 DEF FreeBelow
  <2>2. Cardinality(FreeBelow(t, c)) \in Nat
    BY <1>3, FS_CardinalityType
  <2>3. QED
    BY <1>3, <1>5, <1>6, <1>8, <2>1, <2>2
<1>9. QED
  BY <1>7, <1>8

\* The count stands for the clusters that were looked at.
Counting(at, z, t) ==
  /\ at.c \in 2..NFatEnt /\ at.n \in 0..(at.c - 2)
  /\ z[1] => at.n = Cardinality(FreeBelow(t, at.c))

\* One entry of the FAT, or the end of the count.
LEMMA CountNextKeeps ==
  ASSUME NEW m, NEW z, NEW q, NEW t, NEW u, Sees(m, z, q, t, u), Counted(t, u),
         NEW at, Counting(at, z, t)
  PROVE  LET a == CountNext(m, at) IN
         IF a.r = "OK" THEN Sees(a.m, z, q, t, u) /\ Counting(a.x, z, t) ELSE Good(a.m, z, q)
<1> DEFINE c == at.c
           n == at.n
<1>1. c \in 2..NFatEnt /\ n \in 0..(c - 2) /\ (z[1] => n = Cardinality(FreeBelow(t, c)))
  BY DEF Counting
<1>2. NFatEnt \in Nat
  BY Layout
<1>3. CASE c >= NFatEnt
  <2> DEFINE k == Touch([m EXCEPT !.fs.free = n])
  <2>1. CountNext(m, at) = Done(k, n)
    BY <1>3 DEF CountNext
  <2>2. Form(m) /\ c = NFatEnt /\ n \in Counts
    BY <1>1, <1>2, <1>3 DEF Sees, Counts
  <2>3. k = SetCount(m, n, m.fs.last, Touched(m)) /\ Touched(m) \in 0..2 /\ m.fs.last \in Lasts
    BY <2>2, TouchForm
  <2> HIDE DEF k
  <2>4. Sees(k, z, q, t, n)
    BY <2>2, <2>3, CountSees
  <2>5. z[1] => n = Cardinality(Free(t))
    BY <1>1, <2>2, FreeBelowGrows
  <2>6. Good(k, z, q)
    BY <2>4, <2>5, InexactGood DEF Counted
  <2>7. QED
    BY <2>1, <2>6 DEF Done, Err
<1>4. CASE ~(c >= NFatEnt)
  <2> DEFINE w == move_window(m, FatSector(c))
             e == w.m.fs.win.fat[c]
             p == IF e = 0 THEN n + 1 ELSE n
             next == [c |-> c + 1, n |-> p]
             v == CountNext(m, at)
  <2>1. v = IF w.r = "OK" THEN Ok(w.m, next) ELSE w
    BY <1>4 DEF CountNext, Do
  <2>2. c \in Clusters /\ c + 1 \in 2..NFatEnt
    BY <1>1, <1>2, <1>4, Layout
  <2>3. FatSector(c) \in Reach \ {NoSector}
    BY <2>2, FatReach
  <2>4. Sees(w.m, z, q, t, u)
    BY <2>3, MoveWindowSees
  <2>5. w.r = "OK" => w.m.fs.winsect = FatSector(c)
    BY <2>3, <2>4, MoveWindowSees
  <2> HIDE DEF w, v
  <2>6. w.r = "OK" /\ z[1] => e = t[c]
    BY <2>2, <2>4, <2>5, EntryInWindow
  <2> HIDE DEF e
  <2>7. p \in Int /\ 0 <= p /\ p <= c - 1 /\ c \in Int
    BY <1>1
  <2>8. Cardinality(FreeBelow(t, c + 1)) = Cardinality(FreeBelow(t, c)) + IF t[c] = 0 THEN 1 ELSE 0
    BY <1>1, FreeBelowGrows
  <2>9. w.r = "OK" /\ z[1] => p = Cardinality(FreeBelow(t, c + 1))
    BY <1>1, <2>6, <2>8
  <2>10. next.c = c + 1 /\ next.n = p
    OBVIOUS
  <2> HIDE DEF next, p, c
  <2>11. w.r = "OK" => Counting(next, z, t)
    <3>1. next.c \in 2..NFatEnt /\ next.n \in 0..(next.c - 2)
      BY <2>2, <2>7, <2>10
    <3>2. w.r = "OK" /\ z[1] => next.n = Cardinality(FreeBelow(t, next.c))
      BY <2>9, <2>10
    <3>3. QED
      BY <3>1, <3>2 DEF Counting
  <2>12. Good(w.m, z, q)
    BY <2>4 DEF Good
  <2>13. IF v.r = "OK" THEN Sees(v.m, z, q, t, u) /\ Counting(v.x, z, t) ELSE Good(v.m, z, q)
    BY <2>1, <2>4, <2>11, <2>12 DEF Ok
  <2>14. QED
    BY <2>13 DEF v
<1>5. QED
  BY <1>3, <1>4

\* f_getfree's loop is its turns.
LEMMA CountFreeRuns ==
  ASSUME NEW m
  PROVE  \E f : /\ CountFree(m) = Ended(f[NFatEnt]) /\ f[0] = Ok(m, [c |-> 2, n |-> 0])
                /\ \A i \in 1..NFatEnt : f[i] = Turn(<<"count">>, f[i - 1])
<1> DEFINE l == <<"count">>
           a == Ok(m, [c |-> 2, n |-> 0])
           run[i \in 0..NFatEnt] == IF i = 0 THEN a ELSE Do(run[i - 1], CountNext)
<1>1. \A b : Turn(l, b) = Do(b, CountNext)
  BY DEF Turn, Body, Do
<1>2. NFatEnt \in Nat
  BY Layout
<1>3. CountFree(m) = Ended(run[NFatEnt])
  BY DEF CountFree, Repeat
<1> HIDE DEF l, a
<1>4. PICK g : IsRun(g, l, a, NFatEnt)
  BY <1>2, Runs
<1>5. g = [i \in 0..NFatEnt |-> IF i = 0 THEN a ELSE Do(g[i - 1], CountNext)]
  BY <1>1, <1>4 DEF IsRun, Do
<1>6. run = [i \in 0..NFatEnt |-> IF i = 0 THEN a ELSE Do(run[i - 1], CountNext)]
  BY <1>5
<1> HIDE DEF run
<1>7. run[0] = a /\ \A i \in 1..NFatEnt : run[i] = Turn(l, run[i - 1])
  BY <1>1, <1>2, <1>6 DEF Do
<1>8. QED
  BY <1>2, <1>3, <1>7 DEF l, a

\* f_getfree's loop counts what is free.
LEMMA CountFreeKeeps ==
  ASSUME NEW m, NEW z, NEW q, Good(m, z, q)
  PROVE  Kept(CountFree(m), z, q)
<1>1. PICK f : /\ CountFree(m) = Ended(f[NFatEnt]) /\ f[0] = Ok(m, [c |-> 2, n |-> 0])
               /\ \A i \in 1..NFatEnt : f[i] = Turn(<<"count">>, f[i - 1])
  BY CountFreeRuns
<1>2. PICK t, u : Counted(t, u) /\ Sees(m, z, q, t, u)
  BY DEF Good
<1> DEFINE Inv(b) == IF b.r = "OK" THEN Sees(b.m, z, q, t, u) /\ Counting(b.x, z, t) ELSE Good(b.m, z, q)
           T == {i \in 0..NFatEnt : Inv(f[i])}
<1>3. Counting([c |-> 2, n |-> 0], z, t)
  <2>1. 2 \in 2..NFatEnt
    BY Layout
  <2>2. QED
    BY <2>1, FreeBelowGrows DEF Counting
<1>4. 0 \in T
  BY <1>1, <1>2, <1>3, Layout DEF Ok
<1>5. ASSUME NEW i \in 1..NFatEnt, i - 1 \in T PROVE i \in T
  <2> DEFINE b == f[i - 1]
             a == CountNext(b.m, b.x)
  <2>1. Inv(b) /\ f[i] = Turn(<<"count">>, b)
    BY <1>1, <1>5
  <2>2. Turn(<<"count">>, b) = IF b.r = "OK" THEN a ELSE b
    BY DEF Turn, Body
  <2> HIDE DEF b
  <2>3. b.r = "OK" => Inv(a)
    BY <1>2, <2>1, CountNextKeeps
  <2>4. Inv(Turn(<<"count">>, b))
    BY <2>1, <2>2, <2>3
  <2>5. QED
    BY <2>1, <2>4
<1>6. Inv(f[NFatEnt])
  BY <1>4, <1>5, Upto, Layout
<1>7. Good(f[NFatEnt].m, z, q)
  BY <1>2, <1>6 DEF Good
<1>8. QED
  BY <1>1, <1>7 DEF Ended, Kept, Ok, Err

\* f_getfree leaves an exact count.
LEMMA GetfreeKeeps ==
  ASSUME NEW m, NEW z, NEW q, Good(m, z, q), z[3]
  PROVE  Kept(f_getfree(m), z, q)
<1>1. mount_volume(m) = Ok(m, 0)
  BY MountedAlready
<1> DEFINE c == CountFree(m)
           v == f_getfree(m)
<1>2. v = c \/ v = Ok(m, m.fs.free)
  BY <1>1 DEF f_getfree, Do, Ok
<1>3. Kept(c, z, q)
  BY CountFreeKeeps
<1> HIDE DEF c, v
<1>4. Kept(v, z, q)
  BY <1>2, <1>3 DEF Kept, Ok
<1>5. QED
  BY <1>4 DEF v

-----------------------------------------------------------------------------
(* Removing, making and renaming. *)

\* f_unlink's look whether a directory is empty.
LEMMA RemovableKeeps ==
  ASSUME NEW m, NEW z, NEW q, Good(m, z, q), NEW c
  PROVE  Kept(Removable(m, c), z, q)
<1> DEFINE d == dir_sdi(m, c, 0)
           a == dir_read(d.m, d.x)
           v == Removable(m, c)
<1>1. \/ v = Err(m, "DENIED", 0)
      \/ v = Err(a.m, "DENIED", 0) /\ d.r = "OK"
      \/ v = Ok(a.m, 0) /\ d.r = "OK"
      \/ v = a /\ d.r = "OK"
      \/ v = d
  BY DEF Removable, IsEmpty, Do
<1>2. Kept(d, z, q)
  BY DirSdiKeeps
<1>3. d.r = "OK" => IsDp(d.x)
  BY <1>2, DirSdiKeeps
<1> HIDE DEF d
<1>4. d.r = "OK" => Kept(a, z, q)
  BY <1>2, <1>3, DirReadKeeps DEF Kept
<1> HIDE DEF a, v
<1>5. Kept(v, z, q)
  BY <1>1, <1>2, <1>4 DEF Kept, Ok, Err
<1>6. QED
  BY <1>5 DEF v

\* f_unlink ends in sync_fs.
LEMMA UnlinkKeeps ==
  ASSUME NEW m, NEW z, Good(m, z, "any"), z[3], NEW p, IsPath(p)
  PROVE  LET a == f_unlink(m, p) IN Kept(a, z, "any") /\ (a.r = "OK" => Good(a.m, z, "clean"))
<1> DEFINE a == Lookup(m, p)
           x == a.x
           e == Removable(a.m, x.e.cl)
           y == IF x.e.t = "dir" THEN e ELSE Ok(a.m, 0)
           d == dir_remove(y.m, x.dp)
           r == remove_chain(d.m, x.e.cl, 0)
           w == IF x.e.cl = 0 THEN Ok(d.m, 0) ELSE r
           s == sync_fs(w.m)
           l == Leave(s.m, "erase")
           v == f_unlink(m, p)
<1>1. \/ a.r # "OK" /\ v = a
      \/ v = Err(a.m, "INVALID_NAME", 0)
      \/ y.r # "OK" /\ v = y
      \/ a.r = "OK" /\ ~x.origin /\ d.r # "OK" /\ v = d
      \/ a.r = "OK" /\ ~x.origin /\ w.r # "OK" /\ v = w
      \/ a.r = "OK" /\ ~x.origin /\ s.r # "OK" /\ v = s
      \/ a.r = "OK" /\ ~x.origin /\ s.r = "OK" /\ v = Ok(l, 0)
  BY DEF f_unlink, Do
<1>2. Kept(a, z, "any")
  BY LookupKeeps
<1>3. a.r = "OK" => IsFound(a.x)
  BY <1>2, LookupKeeps
<1>4. a.r = "OK" /\ ~x.origin => IsDp(x.dp)
  BY <1>3 DEF IsFound
<1> HIDE DEF a, x
<1>5. Kept(e, z, "any")
  BY <1>2, RemovableKeeps DEF Kept
<1> HIDE DEF e
<1>6. Kept(y, z, "any")
  BY <1>2, <1>5 DEF Kept, Ok
<1> HIDE DEF y
<1>7. a.r = "OK" /\ ~x.origin => Kept(d, z, "any")
  BY <1>4, <1>6, DirRemoveKeeps DEF Kept
<1> HIDE DEF d
<1>8. a.r = "OK" /\ ~x.origin => Kept(r, z, "any")
  BY <1>7, RemoveChainKeeps DEF Kept
<1> HIDE DEF r
<1>9. a.r = "OK" /\ ~x.origin => Kept(w, z, "any")
  BY <1>7, <1>8 DEF Kept, Ok
<1> HIDE DEF w
<1>10. a.r = "OK" /\ ~x.origin => Kept(s, z, "any")
  BY <1>9, SyncFsKeeps DEF Kept
<1>11. a.r = "OK" /\ ~x.origin => (s.r = "OK" => Good(s.m, z, "clean"))
  BY <1>9, <1>10, SyncFsKeeps DEF Kept
<1> HIDE DEF s
<1>12. a.r = "OK" /\ ~x.origin => (s.r = "OK" => Good(l, z, "clean") /\ Good(l, z, "any"))
  BY <1>11, MarkKeeps, GoodForm DEF Stretches
<1> HIDE DEF l, v
<1>13. Kept(v, z, "any") /\ (v.r = "OK" => Good(v.m, z, "clean"))
  BY <1>1, <1>2, <1>6, <1>7, <1>9, <1>10, <1>12 DEF Kept, Ok, Err
<1>14. QED
  BY <1>13 DEF v

\* The dot entries of a new directory are written where its cluster was cleared.
LEMMA DotsKeeps ==
  ASSUME NEW m, NEW z, Good(m, z, "any"), m.fs.winsect \in DataSectors, NEW w, w.k = "dir"
  PROVE  Good([m EXCEPT !.fs.win = w, !.fs.wflag = TRUE], z, "any")
<1> DEFINE k == SetWindow(m, w)
<1>1. PICK t, u : Counted(t, u) /\ Sees(m, z, "any", t, u)
  BY DEF Good
<1>2. [m EXCEPT !.fs.win = w, !.fs.wflag = TRUE] = k
  BY <1>1 DEF SetWindow, Sees, Form, FsForm
<1>3. m.fs.winsect # NoSector => Holds(m.fs.winsect, w)
  BY Layout, Parted DEF DataSectors, FatSectors, Holds, Places, Reach
<1>4. m.fs.winsect \notin FatSectors
  BY Parted
<1>5. Sees(k, z, "any", t, u)
  BY <1>1, <1>3, <1>4, SetWindowSees
<1>6. QED
  BY <1>1, <1>2, <1>5 DEF Good

\* A new directory's dot entries are written, then its name.
LEMMA TableKeeps ==
  ASSUME NEW m, NEW z, Good(m, z, "any"), NEW c \in Clusters, NEW up, NEW fn
  PROVE  LET a == Table(m, c, up, fn) IN Kept(a, z, "any") /\ (a.r = "OK" => IsDp(a.x))
<1> DEFINE d == dir_clear(m, c)
           w == DirSector(<<Dot(".", c), Dot("..", up)>>)
           k == [d.m EXCEPT !.fs.win = w, !.fs.wflag = TRUE]
           r == dir_register(k, up, fn)
<1>1. Table(m, c, up, fn) = IF d.r = "OK" THEN r ELSE d
  BY DEF Table, Do
<1>2. Kept(d, z, "any")
  BY DirClearKeeps
<1>3. d.r = "OK" => d.m.fs.winsect \in DataSectors
  BY <1>2, DirClearKeeps
<1>4. w.k = "dir"
  BY DEF DirSector
<1> HIDE DEF d, w
<1>5. d.r = "OK" => Good(k, z, "any")
  BY <1>2, <1>3, <1>4, DotsKeeps DEF Kept
<1> HIDE DEF k
<1>6. d.r = "OK" => Kept(r, z, "any")
  BY <1>5, DirRegisterKeeps
<1>7. d.r = "OK" => (r.r = "OK" => IsDp(r.x))
  BY <1>5, <1>6, DirRegisterKeeps
<1> HIDE DEF r
<1>8. QED
  BY <1>1, <1>2, <1>6, <1>7

\* f_mkdir ends in sync_fs.
LEMMA MkdirKeeps ==
  ASSUME NEW m, NEW z, Good(m, z, "any"), z[3], NEW p, IsPath(p)
  PROVE  LET a == f_mkdir(m, p) IN Kept(a, z, "any") /\ (a.r = "OK" => Good(a.m, z, "clean"))
<1> DEFINE a == Lookup(m, p)
           o == create_chain(a.m, 0)
           b == Table(o.m, o.x, a.x.scl, a.x.fn)
           r == remove_chain(b.m, o.x, 0)
           e == [Slot(b.m.fs.win, b.x.i) EXCEPT !.t = "dir", !.cl = o.x]
           k == SetEntry(b.m, b.x, e)
           s == sync_fs(k)
           v == f_mkdir(m, p)
<1>1. \/ v = Err(a.m, "EXIST", 0)
      \/ a.r # "OK" /\ v = a
      \/ o.r # "OK" /\ v = o
      \/ v = Err(o.m, "DENIED", 0)
      \/ o.r = "OK" /\ o.x # 0 /\ b.r # "OK" /\ v = Err(r.m, b.r, 0)
      \/ o.r = "OK" /\ o.x # 0 /\ b.r = "OK" /\ v = s
  BY DEF f_mkdir, Do
<1>2. Kept(a, z, "any")
  BY LookupKeeps
<1> HIDE DEF a
<1>3. Kept(o, z, "any")
  BY <1>2, CreateChainKeeps DEF Kept
<1>4. o.r = "OK" /\ o.x # 0 => o.x \in Clusters
  BY <1>2, <1>3, CreateChainKeeps DEF Kept
<1> HIDE DEF o
<1>5. o.r = "OK" /\ o.x # 0 => Kept(b, z, "any")
  BY <1>3, <1>4, TableKeeps DEF Kept
<1> HIDE DEF b, e
<1>6. o.r = "OK" /\ o.x # 0 => Kept(r, z, "any")
  BY <1>5, RemoveChainKeeps DEF Kept
<1>7. o.r = "OK" /\ o.x # 0 => Good(k, z, "any")
  BY <1>5, SetEntryKeeps DEF Kept
<1> HIDE DEF r, k
<1>8. o.r = "OK" /\ o.x # 0 => Kept(s, z, "any")
  BY <1>7, SyncFsKeeps
<1>9. o.r = "OK" /\ o.x # 0 => (s.r = "OK" => Good(s.m, z, "clean"))
  BY <1>7, <1>8, SyncFsKeeps
<1> HIDE DEF s, v
<1>10. Kept(v, z, "any") /\ (v.r = "OK" => Good(v.m, z, "clean"))
  BY <1>1, <1>2, <1>3, <1>5, <1>6, <1>8, <1>9 DEF Kept, Ok, Err
<1>11. QED
  BY <1>10 DEF v

\* f_rename copies the object's entry under the new name.
LEMMA CopiedKeeps ==
  ASSUME NEW m, NEW z, Good(m, z, "any"), NEW dp, NEW o, NEW up
  PROVE  Kept(Copied(m, dp, o, up), z, "any")
<1> DEFINE e == [o.e EXCEPT !.sfn = Slot(m.fs.win, dp.i).sfn]
           k == SetEntry(m, dp, e)
           n == Enter(k, "rename")
           s == clst2sect(o.e.cl)
           w == move_window(n, s)
           dd == [dp EXCEPT !.i = 1]
           y == [Slot(w.m.fs.win, 1) EXCEPT !.cl = up]
           d == SetEntry(w.m, dd, y)
           v == Copied(m, dp, o, up)
<1>1. v = Ok(n, 0) \/ v = w \/ v = Ok(d, 0)
  BY DEF Copied, Do
<1> HIDE DEF v, e, dd, y
<1>2. Good(k, z, "any")
  BY SetEntryKeeps
<1> HIDE DEF k
<1>3. Good(n, z, "any")
  BY <1>2, MarkKeeps DEF Stretches
<1> HIDE DEF n
<1>4. s \in Reach \ {NoSector}
  <2>1. s \in Places
    BY SectorOf
  <2> HIDE DEF s
  <2>2. QED
    BY <2>1, Parted, Layout DEF Places, DataSectors
<1> HIDE DEF s
<1>5. Kept(w, z, "any")
  BY <1>3, <1>4, MoveWindowKeeps
<1> HIDE DEF w
<1>6. Good(d, z, "any")
  BY <1>5, SetEntryKeeps DEF Kept
<1> HIDE DEF d
<1>7. Kept(v, z, "any")
  BY <1>1, <1>3, <1>5, <1>6 DEF Kept, Ok
<1>8. QED
  BY <1>7 DEF v

\* f_rename ends in sync_fs.
LEMMA RenameKeeps ==
  ASSUME NEW m, NEW z, Good(m, z, "any"), z[3], NEW p, IsPath(p), NEW pn, IsPath(pn)
  PROVE  LET a == f_rename(m, p, pn) IN Kept(a, z, "any") /\ (a.r = "OK" => Good(a.m, z, "clean"))
<1> DEFINE o == Lookup(m, p)
           a == follow_path(o.m, pn)
           r == dir_register(a.m, a.x.scl, a.x.fn)
           c == Copied(r.m, r.x, o.x, a.x.scl)
           d == dir_remove(c.m, o.x.dp)
           s == sync_fs(d.m)
           l == Leave(s.m, "rename")
           n == Leave(l, "erase")
           v == f_rename(m, p, pn)
<1>1. \/ v = o /\ o.r # "OK"
      \/ v = Err(o.m, "INVALID_NAME", 0)
      \/ v = Err(a.m, "EXIST", 0)
      \/ a.r # "OK" /\ v = a
      \/ r.r # "OK" /\ v = r
      \/ c.r # "OK" /\ v = c
      \/ o.r = "OK" /\ ~o.x.origin /\ d.r # "OK" /\ v = d
      \/ o.r = "OK" /\ ~o.x.origin /\ s.r # "OK" /\ v = s
      \/ o.r = "OK" /\ ~o.x.origin /\ s.r = "OK" /\ v = Ok(n, 0)
  BY DEF f_rename, Do
<1>2. Kept(o, z, "any")
  BY LookupKeeps
<1>3. o.r = "OK" => IsFound(o.x)
  BY <1>2, LookupKeeps
<1>4. o.r = "OK" /\ ~o.x.origin => IsDp(o.x.dp)
  BY <1>3 DEF IsFound
<1> HIDE DEF o
<1>5. Kept(a, z, "any")
  BY <1>2, FollowPathKeeps DEF Kept
<1> HIDE DEF a
<1>6. Kept(r, z, "any")
  BY <1>5, DirRegisterKeeps DEF Kept
<1> HIDE DEF r
<1>7. Kept(c, z, "any")
  BY <1>6, CopiedKeeps DEF Kept
<1> HIDE DEF c
<1>8. o.r = "OK" /\ ~o.x.origin => Kept(d, z, "any")
  BY <1>4, <1>7, DirRemoveKeeps DEF Kept
<1> HIDE DEF d
<1>9. o.r = "OK" /\ ~o.x.origin => Kept(s, z, "any")
  BY <1>8, SyncFsKeeps DEF Kept
<1>10. o.r = "OK" /\ ~o.x.origin => (s.r = "OK" => Good(s.m, z, "clean"))
  BY <1>8, <1>9, SyncFsKeeps DEF Kept
<1> HIDE DEF s
<1>11. o.r = "OK" /\ ~o.x.origin => (s.r = "OK" => Good(l, z, "clean"))
  BY <1>10, MarkKeeps DEF Stretches
<1> HIDE DEF l
<1>12. o.r = "OK" /\ ~o.x.origin => (s.r = "OK" => Good(n, z, "clean") /\ Good(n, z, "any"))
  BY <1>11, MarkKeeps, GoodForm DEF Stretches
<1> HIDE DEF n, v
<1>13. Kept(v, z, "any") /\ (v.r = "OK" => Good(v.m, z, "clean"))
  BY <1>1, <1>2, <1>5, <1>6, <1>7, <1>8, <1>9, <1>12 DEF Kept, Ok, Err
<1>14. QED
  BY <1>13 DEF v

-----------------------------------------------------------------------------
(* Mounting. *)

\* With nothing in the window to write, moving it reads and no more.
LEMMA CleanMove ==
  ASSUME NEW m, Form(m), ~m.fs.wflag, NEW s, s # m.fs.winsect
  PROVE  LET a == move_window(m, s) IN
         a.m.disk = m.disk /\ (a.r = "OK" => a.m.fs.win = m.disk[s]) /\ ~a.m.fs.wflag
<1> DEFINE w == sync_window(m)
           d == disk_read(w.m, s)
           k == Tick(m)
           b == [d.m EXCEPT !.fs.win = d.x, !.fs.winsect = s]
           c == [d.m EXCEPT !.fs.win = Blank, !.fs.winsect = NoSector]
<1>1. k.disk = m.disk /\ k.fs = m.fs
  BY DEF Form, Tick
<1>2. w.r = "OK" /\ w.m = m
  BY DEF sync_window, Ok
<1>3. move_window(m, s) = IF d.r = "OK" THEN Ok(b, 0) ELSE Err(c, d.r, 0)
  BY <1>2 DEF move_window, Do
<1> HIDE DEF w
<1>4. d.m = k /\ (d.r = "OK" => d.x = m.disk[s])
  BY <1>1, <1>2 DEF disk_read, Ok, Err
<1> HIDE DEF d
<1>5. k \in [disk : {k.disk}, fs : {k.fs}, n : Nat, fault : {k.fault}, cut : BOOLEAN,
             crit : SUBSET Stretches, synced : {k.synced}] /\ FsForm(k.fs)
  BY <1>1 DEF Form, Tick
<1> HIDE DEF k
<1>6. b.disk = k.disk /\ b.fs.win = d.x /\ ~b.fs.wflag /\ c.disk = k.disk /\ ~c.fs.wflag
  BY <1>1, <1>4, <1>5 DEF FsForm
<1> HIDE DEF b, c
<1>7. QED
  BY <1>1, <1>3, <1>4, <1>6 DEF Ok, Err

\* What a volume's FAT says when nothing of it is in the window.
LEMMA VolumeCounted ==
  ASSUME NEW m, NEW z, NEW t, NEW u, Sees(m, z, "clean", t, u), z[1], m.disk \in Volumes
  PROVE  Counted(t, m.disk[1].free)
<1>1. /\ ~m.fs.wflag /\ Coherent(m.disk, m.fs)
      /\ \A c \in Clusters : FatOf(m.disk, m.fs, c) = t[c]
  BY DEF Sees
<1>2. ASSUME NEW c \in Clusters PROVE Fat(m.disk, c) = t[c]
  <2>1. FatSector(c) \in FatSectors /\ FatOf(m.disk, m.fs, c) = t[c]
    BY <1>1, FatReach
  <2>2. QED
    BY <1>1, <2>1 DEF FatOf, Fat, Coherent
<1>3. FreeClusters(m.disk) = Free(t)
  BY <1>2 DEF FreeClusters, Free
<1>4. m.disk[1].free \in {Unknown, Cardinality(FreeClusters(m.disk))}
  BY VolumesAssumption
<1>5. QED
  BY <1>3, <1>4 DEF Counted

\* Mounting believes the FSInfo of a volume on which nothing failed yet.
LEMMA MountedSees ==
  ASSUME NEW m, NEW z, NEW t, NEW u, Sees(m, z, "clean", t, u), NEW ok \in BOOLEAN,
         ok => m.fs.win.free \in Counts /\ m.fs.win.last \in Lasts,
         NEW y, y[1] <=> z[1], y[2] = z[2], y[3] = TRUE
  PROVE  Sees(Mounted(m, ok), y, "clean", t, IF ok THEN m.fs.win.free ELSE Unknown)
<1> DEFINE w == m.fs.win
           free == IF ok THEN w.free ELSE Unknown
           last == IF ok THEN w.last ELSE Unknown
           fsi == IF ok THEN 0 ELSE 2
           f == [m.fs EXCEPT !.mounted = TRUE, !.cdir = 0, !.fsi = fsi, !.free = free, !.last = last]
           k == Mounted(m, ok)
<1>1. Form(m) /\ FsForm(m.fs) /\ WindowForm(m.fs)
  BY DEF Sees, Form
<1>2. free \in Counts /\ last \in Lasts /\ fsi \in 0..2
  BY DEF Counts, Lasts
<1>3. k = [m EXCEPT !.fs = f]
  BY DEF Mounted
<1> HIDE DEF free, last, fsi
<1>4. /\ FsForm(f) /\ f.win = m.fs.win /\ f.winsect = m.fs.winsect /\ f.wflag = m.fs.wflag
      /\ f.free = free /\ f.mounted = TRUE
  BY <1>1, <1>2 DEF FsForm
<1> HIDE DEF f, k
<1>5. WindowForm(f)
  BY <1>1, <1>4 DEF WindowForm
<1>6. /\ Form(k) /\ k.fs = f /\ k.disk = m.disk /\ k.synced = m.synced
      /\ k.fault = m.fault /\ k.cut = m.cut
  BY <1>1, <1>3, <1>4, <1>5, FsField
<1>7. z[1] => Coherent(k.disk, k.fs)
  BY <1>4, <1>6 DEF Sees, Coherent
<1>8. \A c : FatOf(k.disk, k.fs, c) = FatOf(m.disk, m.fs, c)
  BY <1>4, <1>6 DEF FatOf
<1>9. Sees(k, y, "clean", t, free)
  BY <1>4, <1>6, <1>7, <1>8 DEF Sees
<1>10. QED
  BY <1>9 DEF k, free, w

\* mount_volume takes the count of the FSInfo, which nothing made wrong yet.
LEMMA MountKeeps ==
  ASSUME NEW m, NEW z, Good(m, z, "clean"), ~z[3], z[1] => m.disk \in Volumes,
         NEW y, y[1] <=> z[1], y[2] = z[2], y[3] = TRUE
  PROVE  LET a == mount_volume(m) IN
         IF a.r = "OK" THEN Good(a.m, y, "clean") ELSE Good(a.m, z, "clean") /\ ~z[1]
<1> DEFINE i == [m EXCEPT !.fs.wflag = FALSE, !.fs.winsect = NoSector]
           k == Tick(i)
           j == move_window(k, 0)
           a == move_window(j.m, 1)
           ok == a.r = "OK"
           w == a.m.fs.win
           b == Mounted(a.m, ok)
           v == mount_volume(m)
<1>1. PICK t, u : Counted(t, u) /\ Sees(m, z, "clean", t, u)
  BY DEF Good
<1>2. Form(m) /\ FsForm(m.fs) /\ ~m.fs.wflag /\ m.fs.mounted = z[3]
  BY <1>1 DEF Sees, Form
<1>3. i = Reload(m, m.fs.win, NoSector, m.fs.fsi) /\ m.fs.fsi \in 0..2
  <2> DEFINE g == m.fs
             h == [g EXCEPT !.wflag = FALSE, !.winsect = NoSector]
             l == [g EXCEPT !.win = g.win, !.winsect = NoSector, !.fsi = g.fsi]
  <2>1. h = l /\ g.fsi \in 0..2
    BY <1>2 DEF FsForm
  <2>2. i = [m EXCEPT !.fs = h]
    BY <1>2 DEF Form
  <2>3. Reload(m, g.win, NoSector, g.fsi) = [m EXCEPT !.fs = l]
    BY DEF Reload
  <2> HIDE DEF i, h, l, g
  <2>4. QED
    BY <2>1, <2>2, <2>3 DEF g
<1>4. NoSector \in Reach \ FatSectors
  BY Layout, Parted DEF Reach, FatSectors
<1>5. i.disk = m.disk
  BY <1>2 DEF Form
<1> HIDE DEF i
<1>6. Sees(i, z, "clean", t, u) /\ i.fs.winsect = NoSector
  BY <1>1, <1>2, <1>3, <1>4, ReloadSees
<1>7. Sees(k, z, "clean", t, u) /\ k.fs = i.fs /\ k.disk = i.disk /\ (z[1] => ~Fails(k))
  BY <1>6, TickSees
<1>8. \/ v = Err(k, "NOT_READY", 0) /\ Fails(k)
      \/ v = j /\ j.r # "OK"
      \/ v = Ok(b, 0)
  BY <1>2 DEF mount_volume, i, Do
<1> HIDE DEF k, v
<1>9. 0 \in Reach \ {NoSector} /\ 1 \in Reach \ {NoSector} /\ 0 # NoSector /\ 1 # 0
  BY Parted DEF Reach
<1>10. Sees(j.m, z, "clean", t, u)
  BY <1>7, <1>9, MoveWindowSees
<1>11. (z[1] => j.r = "OK") /\ (j.r = "OK" => j.m.fs.winsect = 0)
  BY <1>7, <1>9, <1>10, MoveWindowSees
<1>12. j.m.disk = k.disk
  BY <1>6, <1>7, <1>9, CleanMove DEF Sees
<1> HIDE DEF j
<1>13. Sees(a.m, z, "clean", t, u)
  BY <1>9, <1>10, MoveWindowSees
<1>14. (z[1] => a.r = "OK") /\ (a.r = "OK" => a.m.fs.winsect = 1)
  BY <1>9, <1>10, <1>13, MoveWindowSees
<1>15. j.r = "OK" => a.m.disk = j.m.disk /\ (a.r = "OK" => w = j.m.disk[1])
  BY <1>9, <1>10, <1>11, CleanMove DEF Sees
<1> HIDE DEF a
<1>17. ok => w.free \in Counts /\ w.last \in Lasts
  BY <1>9, <1>13, <1>14, Parted DEF Sees, Form, WindowForm, Holds
<1> DEFINE free == IF ok THEN w.free ELSE Unknown
<1>18. Sees(b, y, "clean", t, free)
  BY <1>13, <1>17, MountedSees
<1>19. (j.r = "OK" /\ z[1]) => Counted(t, free)
  BY <1>1, <1>5, <1>7, <1>12, <1>14, <1>15, VolumeCounted
<1> HIDE DEF b, free
<1>20. z[1] => Counted(t, free)
  BY <1>11, <1>19
<1>21. Good(b, y, "clean")
  BY <1>18, <1>20, InexactGood
<1>22. Good(k, z, "clean") /\ Good(j.m, z, "clean")
  BY <1>1, <1>7, <1>10 DEF Good
<1>23. IF v.r = "OK" THEN Good(v.m, y, "clean") ELSE Good(v.m, z, "clean") /\ ~z[1]
  BY <1>7, <1>8, <1>11, <1>21, <1>22 DEF Ok, Err
<1>24. QED
  BY <1>23 DEF v

-----------------------------------------------------------------------------
(* Programs. *)

\* Where a program can start: the volume is mounted, and nothing is left to
\* write when the last reply said so.
Ready(m, z) ==
  /\ z[3] /\ z[2] \in BOOLEAN /\ Good(m, z, "any")
  /\ z[2] => Good(m, z, "clean")

\* How a program ends: a reply that says it synced leaves nothing to write.
Safe(a, z) ==
  /\ a.rep.synced \in BOOLEAN /\ Good(a.m, z, "any")
  /\ a.rep.synced => Good(a.m, z, "clean")

\* A call that ends in a sync when it succeeds.
LEMMA AnswerSafe ==
  ASSUME NEW a, NEW z, Good(a.m, z, "any"), a.r = "OK" => Good(a.m, z, "clean"),
         NEW c, NEW p, NEW data
  PROVE  Safe(Answer(a, c, p, data), z)
BY DEF Safe, Answer, Reply

\* What only looks leaves the volume as synced as it was.
LEMMA LookSafe ==
  ASSUME NEW a, NEW z, z[2] \in BOOLEAN, Good(a.m, z, "any"), z[2] => Good(a.m, z, "clean"),
         NEW c, NEW p
  PROVE  Safe(Look(a, c, p), z)
<1>1. a.m.synced = z[2]
  BY DEF Good, Sees
<1>2. QED
  BY <1>1 DEF Safe, Look, Reply

\* f_open of a file it makes marks it, so that f_close will write it.
LEMMA NewMarks ==
  ASSUME NEW m, NEW p, f_open(m, p, "new").r = "OK"
  PROVE  f_open(m, p, "new").x.mod
<1> DEFINE v == f_open(m, p, "new")
           a == Lookup(m, p)
           n == NewFile(a.m, a.x.scl, a.x.fn)
           d == dir_register(a.m, a.x.scl, a.x.fn)
           e == Entry("file", "", Slot(d.m.fs.win, d.x.i).sfn, 0, 0)
           f == EmptyFile(d.m, d.x, e)
           g == Ok(f.m, Fil(d.x, e, TRUE))
<1>1. v = n \/ (v = a /\ a.r # "OK") \/ v = Err(a.m, "INVALID_NAME", 0) \/ v = Err(a.m, "EXIST", 0)
  BY DEF f_open
<1>2. n = IF d.r = "OK" THEN IF f.r = "OK" THEN g ELSE f ELSE d
  BY DEF NewFile, Do
<1> HIDE DEF d, e, f, n, a
<1>3. v.r = "OK" /\ g.x.mod
  BY DEF Ok, Fil
<1> HIDE DEF v, g
<1>4. v = g
  BY <1>1, <1>2, <1>3 DEF Err
<1>5. v.x.mod
  BY <1>3, <1>4
<1>6. QED
  BY <1>5 DEF v

\* touch.
LEMMA TouchSafe ==
  ASSUME NEW m, NEW z, Ready(m, z), NEW p, IsPath(p)
  PROVE  Safe(TouchFile(m, p), z)
<1> DEFINE o == f_open(m, p, "new")
           c == f_close(o.m, o.x)
           a == Do(o, f_close)
<1>1. a = IF o.r = "OK" THEN c ELSE o
  BY DEF Do
<1>2. Kept(o, z, "any") /\ (o.r = "OK" => IsFil(o.x))
  BY OpenKeeps DEF Ready
<1>3. o.r = "OK" => o.x.mod
  BY NewMarks
<1> HIDE DEF o
<1>4. o.r = "OK" => Kept(c, z, "any")
  BY <1>2, CloseKeeps DEF Kept
<1>5. o.r = "OK" => (c.r = "OK" => Good(c.m, z, "clean"))
  BY <1>2, <1>3, CloseKeeps DEF Kept
<1> HIDE DEF c
<1>6. Good(a.m, z, "any") /\ (a.r = "OK" => Good(a.m, z, "clean"))
  BY <1>1, <1>2, <1>4, <1>5 DEF Kept
<1>7. TouchFile(m, p) = Answer(a, "touch", p, <<>>)
  BY DEF TouchFile, o
<1> HIDE DEF a
<1>8. QED
  BY <1>6, <1>7, AnswerSafe

\* write, whose reply is that of f_close.
LEMMA WriteFileSafe ==
  ASSUME NEW m, NEW z, Ready(m, z), NEW p, IsPath(p), NEW n \in Nat, NEW tag
  PROVE  Safe(WriteFile(m, p, n, tag), z)
<1> DEFINE o == f_open(m, p, "write")
           w == f_write(o.m, o.x, n, tag)
           c == f_close(w.m, w.x.f)
           v == WriteFile(m, p, n, tag)
<1>1. v = IF o.r # "OK" THEN [m |-> o.m, rep |-> Reply("write", p, FALSE, <<>>, FALSE)]
          ELSE [m |-> c.m, rep |-> Reply("write", p, w.r = "OK" /\ w.x.left = 0, <<>>, w.r = "OK" /\ c.r = "OK")]
  BY DEF WriteFile
<1>2. Kept(o, z, "any") /\ (o.r = "OK" => IsFil(o.x) /\ o.x.fptr = 0)
  BY OpenKeeps DEF Ready
<1> HIDE DEF o
<1>3. o.r = "OK" => Kept(w, z, "any")
  BY <1>2, WriteKeeps DEF Kept
<1>4. o.r = "OK" => IsFil(w.x.f) /\ (w.r = "OK" => w.x.f.mod)
  BY <1>2, WriteKeeps DEF Kept
<1> HIDE DEF w
<1>5. o.r = "OK" => Kept(c, z, "any")
  BY <1>3, <1>4, CloseKeeps DEF Kept
<1>6. o.r = "OK" /\ w.r = "OK" => (c.r = "OK" => Good(c.m, z, "clean"))
  BY <1>3, <1>4, CloseKeeps DEF Kept
<1> HIDE DEF c, v
<1>7. Safe(v, z)
  BY <1>1, <1>2, <1>5, <1>6 DEF Kept, Safe, Reply
<1>8. QED
  BY <1>7 DEF v

\* A truncation claims to be stored when it changed the file.
LEMMA TruncateFileSafe ==
  ASSUME NEW m, NEW z, Ready(m, z), NEW p, IsPath(p), NEW n
  PROVE  Safe(TruncateFile(m, p, n), z)
<1> DEFINE o == f_open(m, p, "write")
           l == f_lseek(o.m, o.x, n)
           s == f_close(l.m, l.x.f)
           t == f_truncate(l.m, l.x)
           f == IF t.r = "OK" THEN t.x ELSE t.x.f
           c == f_close(t.m, f)
           v == TruncateFile(m, p, n)
<1>1. v = IF o.r # "OK" THEN [m |-> o.m, rep |-> Reply("truncate", p, FALSE, <<>>, FALSE)]
          ELSE IF l.r # "OK" THEN [m |-> s.m, rep |-> Reply("truncate", p, FALSE, <<>>, FALSE)]
          ELSE [m |-> c.m, rep |-> Reply("truncate", p, t.r = "OK", <<>>,
                                         t.r = "OK" /\ c.r = "OK" /\ f.mod)]
  BY DEF TruncateFile
<1>2. Kept(o, z, "any") /\ (o.r = "OK" => IsFil(o.x))
  BY OpenKeeps DEF Ready
<1> HIDE DEF o
<1>3. o.r = "OK" => Kept(l, z, "any")
  BY <1>2, LseekKeeps DEF Kept
<1>4. o.r = "OK" => IF l.r = "OK" THEN IsFil(l.x) ELSE IsFil(l.x.f)
  BY <1>2, LseekKeeps DEF Kept
<1> HIDE DEF l
<1>5. o.r = "OK" /\ l.r # "OK" => Kept(s, z, "any")
  BY <1>3, <1>4, CloseKeeps DEF Kept
<1>6. o.r = "OK" /\ l.r = "OK" => Kept(t, z, "any")
  BY <1>3, <1>4, TruncateKeeps DEF Kept
<1>7. o.r = "OK" /\ l.r = "OK" => IF t.r = "OK" THEN IsFil(t.x) ELSE IsFil(t.x.f)
  BY <1>3, <1>4, TruncateKeeps DEF Kept
<1> HIDE DEF s, t
<1>8. o.r = "OK" /\ l.r = "OK" => IsFil(f) /\ f.mod \in BOOLEAN
  BY <1>7 DEF IsFil
<1> HIDE DEF f
<1>9. o.r = "OK" /\ l.r = "OK" => Kept(c, z, "any")
  BY <1>6, <1>8, CloseKeeps DEF Kept
<1>10. o.r = "OK" /\ l.r = "OK" => (c.r = "OK" /\ f.mod => Good(c.m, z, "clean"))
  BY <1>6, <1>8, CloseKeeps DEF Kept
<1> HIDE DEF c, v
<1>11. Safe(v, z)
  BY <1>1, <1>2, <1>5, <1>8, <1>9, <1>10 DEF Kept, Safe, Reply
<1>12. QED
  BY <1>11 DEF v

\* What only looks, on a volume that is synced and on one that may not be.
LEMMA CatKeeps ==
  ASSUME NEW m, NEW z, NEW q, Good(m, z, q), z[3], NEW p, IsPath(p), NEW n
  PROVE  Kept(Cat(m, p, n), z, q)
<1> DEFINE o == f_open(m, p, "read")
           c == CatLoop(o.m, o.x, n)
<1>1. Cat(m, p, n) = IF o.r = "OK" THEN c ELSE o
  BY DEF Cat, Do
<1>2. Kept(o, z, q)
  BY OpenReadKeeps
<1> HIDE DEF o
<1>3. Kept(c, z, q)
  BY <1>2, CatLoopKeeps DEF Kept
<1> HIDE DEF c
<1>4. QED
  BY <1>1, <1>2, <1>3

\* ls only looks.
LEMMA ListDirKeeps ==
  ASSUME NEW m, NEW z, NEW q, Good(m, z, q), z[3], NEW p, IsPath(p)
  PROVE  Kept(ListDir(m, p), z, q)
<1> DEFINE o == f_opendir(m, p)
           c == ListLoop(o.m, o.x)
<1>1. ListDir(m, p) = IF o.r = "OK" THEN c ELSE o
  BY DEF ListDir, ListLoop, Do
<1>2. Kept(o, z, q)
  BY OpendirKeeps
<1>3. o.r = "OK" => IsDp(o.x)
  BY <1>2, OpendirKeeps
<1> HIDE DEF o
<1>4. o.r = "OK" => Kept(c, z, q)
  BY <1>2, <1>3, ListLoopKeeps DEF Kept
<1> HIDE DEF c
<1>5. QED
  BY <1>1, <1>2, <1>4

\* The self-test's file, read back.
LEMMA ReadBackKeeps ==
  ASSUME NEW m, NEW z, NEW q, Good(m, z, q), z[3], NEW p, IsPath(p)
  PROVE  LET b == f_open(m, p, "read") IN
         Good(b.m, z, q) /\ Good(f_read(b.m, b.x, 2).m, z, q)
<1> DEFINE b == f_open(m, p, "read")
<1>1. Kept(b, z, q)
  BY OpenReadKeeps
<1> HIDE DEF b
<1>2. Kept(f_read(b.m, b.x, 2), z, q)
  BY <1>1, ReadFileKeeps DEF Kept
<1>3. QED
  BY <1>1, <1>2 DEF Kept, b

\* The self-test's reading comes after f_close and leaves nothing to write.
LEMMA SelfTestSafe ==
  ASSUME NEW m, NEW z, z[3], Good(m, z, "any")
  PROVE  Safe(SelfTest(m), z)
<1> DEFINE o == f_open(m, TestPath, "always")
           w == f_write(o.m, o.x, 1, "payload")
           c == f_close(w.m, w.x.f)
           b == f_open(c.m, TestPath, "read")
           e == f_read(b.m, b.x, 2)
           g == Err(c.m, "FAIL", 0)
           wrote == w.r = "OK" /\ w.x.left = 0
           d == IF wrote THEN IF b.r = "OK" THEN e ELSE b ELSE g
           ok == d.r = "OK" /\ d.x.data = <<"payload">>
           v == SelfTest(m)
<1>1. v = IF o.r # "OK" THEN [m |-> o.m, rep |-> Reply("boot", <<>>, FALSE, <<>>, FALSE)]
          ELSE [m |-> d.m, rep |-> Reply("boot", TestPath, ok, <<>>, w.r = "OK" /\ c.r = "OK" /\ ok)]
  BY DEF SelfTest, Do, Err
<1>2. IsPath(TestPath)
  BY DEF IsPath, TestPath
<1>3. Kept(o, z, "any") /\ (o.r = "OK" => IsFil(o.x) /\ o.x.fptr = 0)
  BY <1>2, OpenKeeps
<1> HIDE DEF o
<1>4. o.r = "OK" => Kept(w, z, "any")
  BY <1>3, WriteKeeps DEF Kept
<1>5. o.r = "OK" => IsFil(w.x.f) /\ (w.r = "OK" => w.x.f.mod)
  BY <1>3, WriteKeeps DEF Kept
<1> HIDE DEF w
<1>6. o.r = "OK" => Kept(c, z, "any")
  BY <1>4, <1>5, CloseKeeps DEF Kept
<1>7. o.r = "OK" /\ w.r = "OK" => (c.r = "OK" => Good(c.m, z, "clean"))
  BY <1>4, <1>5, CloseKeeps DEF Kept
<1>8. g.m = c.m /\ g.r # "OK"
  BY DEF Err
<1> HIDE DEF c, g
<1>9. Good(c.m, z, "any") => Good(b.m, z, "any") /\ Good(e.m, z, "any")
  BY <1>2, ReadBackKeeps
<1>10. Good(c.m, z, "clean") => Good(b.m, z, "clean") /\ Good(e.m, z, "clean")
  BY <1>2, ReadBackKeeps
<1> HIDE DEF b, e
<1>11. o.r = "OK" => Good(d.m, z, "any")
  BY <1>6, <1>8, <1>9 DEF Kept
<1>12. o.r = "OK" /\ w.r = "OK" /\ c.r = "OK" /\ ok => Good(d.m, z, "clean")
  BY <1>7, <1>8, <1>10
<1>13. ok \in BOOLEAN
  OBVIOUS
<1> HIDE DEF d, ok, wrote, v
<1>14. Safe(v, z)
  BY <1>1, <1>3, <1>11, <1>12, <1>13 DEF Kept, Safe, Reply
<1>15. QED
  BY <1>14 DEF v

\* mv, refused or done.
LEMMA RenameFileSafe ==
  ASSUME NEW m, NEW z, Ready(m, z), NEW p, IsPath(p), NEW pn, IsPath(pn)
  PROVE  Safe(RenameFile(m, p, pn), z)
<1> DEFINE e == Err(m, "INVALID_NAME", 0)
           a == f_rename(m, p, pn)
<1>1. RenameFile(m, p, pn) = Look(e, "rename", pn) \/ RenameFile(m, p, pn) = Answer(a, "rename", pn, <<>>)
  BY DEF RenameFile
<1>2. Kept(a, z, "any") /\ (a.r = "OK" => Good(a.m, z, "clean"))
  BY RenameKeeps DEF Ready
<1>3. e.m = m
  BY DEF Err
<1> HIDE DEF a, e
<1>4. Safe(Look(e, "rename", pn), z)
  BY <1>3, LookSafe DEF Ready
<1>5. Safe(Answer(a, "rename", pn, <<>>), z)
  BY <1>2, AnswerSafe DEF Kept
<1>6. QED
  BY <1>1, <1>4, <1>5

\* mkdir.
LEMMA MkdirSafe ==
  ASSUME NEW m, NEW z, Ready(m, z), NEW p, IsPath(p)
  PROVE  Safe(Answer(f_mkdir(m, p), "mkdir", p, <<>>), z)
<1>1. Kept(f_mkdir(m, p), z, "any") /\ (f_mkdir(m, p).r = "OK" => Good(f_mkdir(m, p).m, z, "clean"))
  BY MkdirKeeps DEF Ready
<1>2. QED
  BY <1>1, AnswerSafe DEF Kept

\* rm.
LEMMA UnlinkSafe ==
  ASSUME NEW m, NEW z, Ready(m, z), NEW p, IsPath(p)
  PROVE  Safe(Answer(f_unlink(m, p), "rm", p, <<>>), z)
<1>1. Kept(f_unlink(m, p), z, "any") /\ (f_unlink(m, p).r = "OK" => Good(f_unlink(m, p).m, z, "clean"))
  BY UnlinkKeeps DEF Ready
<1>2. QED
  BY <1>1, AnswerSafe DEF Kept

\* cd.
LEMMA ChdirSafe ==
  ASSUME NEW m, NEW z, Ready(m, z), NEW p, IsPath(p)
  PROVE  Safe(Look(f_chdir(m, p), "cd", p), z)
<1>1. Kept(f_chdir(m, p), z, "any") /\ (z[2] => Kept(f_chdir(m, p), z, "clean"))
  BY ChdirKeeps DEF Ready
<1>2. QED
  BY <1>1, LookSafe DEF Kept, Ready

\* ls.
LEMMA ListDirSafe ==
  ASSUME NEW m, NEW z, Ready(m, z), NEW p, IsPath(p)
  PROVE  Safe(Look(ListDir(m, p), "ls", p), z)
<1>1. Kept(ListDir(m, p), z, "any") /\ (z[2] => Kept(ListDir(m, p), z, "clean"))
  BY ListDirKeeps DEF Ready
<1>2. QED
  BY <1>1, LookSafe DEF Kept, Ready

\* cat.
LEMMA CatSafe ==
  ASSUME NEW m, NEW z, Ready(m, z), NEW p, IsPath(p), NEW n
  PROVE  Safe(Look(Cat(m, p, n), "cat", p), z)
<1>1. Kept(Cat(m, p, n), z, "any") /\ (z[2] => Kept(Cat(m, p, n), z, "clean"))
  BY CatKeeps DEF Ready
<1>2. QED
  BY <1>1, LookSafe DEF Kept, Ready

\* f_stat.
LEMMA StatSafe ==
  ASSUME NEW m, NEW z, Ready(m, z), NEW p, IsPath(p)
  PROVE  Safe(Look(f_stat(m, p), "stat", p), z)
<1>1. Kept(f_stat(m, p), z, "any") /\ (z[2] => Kept(f_stat(m, p), z, "clean"))
  BY StatKeeps DEF Ready
<1>2. QED
  BY <1>1, LookSafe DEF Kept, Ready

\* pwd.
LEMMA GetcwdSafe ==
  ASSUME NEW m, NEW z, Ready(m, z)
  PROVE  Safe(Look(f_getcwd(m), "pwd", <<>>), z)
<1>1. Kept(f_getcwd(m), z, "any") /\ (z[2] => Kept(f_getcwd(m), z, "clean"))
  BY GetcwdKeeps DEF Ready
<1>2. QED
  BY <1>1, LookSafe DEF Kept, Ready

\* f_getfree.
LEMMA GetfreeSafe ==
  ASSUME NEW m, NEW z, Ready(m, z)
  PROVE  Safe(Look(f_getfree(m), "getfree", <<>>), z)
<1>1. Kept(f_getfree(m), z, "any") /\ (z[2] => Kept(f_getfree(m), z, "clean"))
  BY GetfreeKeeps DEF Ready
<1>2. QED
  BY <1>1, LookSafe DEF Kept, Ready
-----------------------------------------------------------------------------
(* The inductive invariant. *)

\* The window, the medium and the count that Good speaks of, between two
\* commands: as long as nothing failed the two FATs and the window agree and the
\* count is exact; a volume nobody mounted yet is one of Volumes; and a reply that
\* says it synced left nothing in the window to write.
IInv ==
  /\ reply.synced \in BOOLEAN /\ faults \in Nat /\ crit \subseteq Stretches
  /\ FsForm(fs) /\ DiskForm(disk) /\ WindowForm(fs)
  /\ faults = 0 =>
       /\ Coherent(disk, fs)
       /\ fs.free \in {Unknown, Cardinality({c \in Clusters : FatOf(disk, fs, c) = 0})}
       /\ ~fs.mounted => disk \in Volumes
  /\ reply.synced \/ ~fs.mounted => ~fs.wflag

\* How a command's run was chosen: its n-th disk operation fails and power is
\* cut there, or nothing fails and then none did before.
Took(n, cut) ==
  cut \in BOOLEAN /\ faults' \in Nat /\ (faults' = 0 => faults = 0 /\ n = 0 /\ ~cut)

\* The context of such a run.
Context(y, w) == <<faults' = 0, y, w>>

\* Its parts.
LEMMA ContextParts ==
  ASSUME NEW y, NEW w
  PROVE  (Context(y, w)[1] <=> faults' = 0) /\ Context(y, w)[2] = y /\ Context(y, w)[3] = w
BY DEF Context

\* A command starts from what the invariant says.
LEMMA StartKeeps ==
  ASSUME IInv, NEW n, NEW cut \in BOOLEAN,
         NEW z, z[1] => faults = 0 /\ n = 0 /\ ~cut, z[2] = reply.synced, z[3] = fs.mounted
  PROVE  /\ Good(Start(n, cut), z, "any")
         /\ reply.synced \/ ~fs.mounted => Good(Start(n, cut), z, "clean")
<1> DEFINE s == Start(n, cut)
           t == [c \in Clusters |-> FatOf(disk, fs, c)]
           u == IF z[1] THEN fs.free ELSE Unknown
<1>1. /\ s.disk = disk /\ s.fs = fs /\ s.fault = n /\ s.cut = cut /\ s.synced = reply.synced
      /\ s \in [disk : {s.disk}, fs : {s.fs}, n : Nat, fault : {s.fault}, cut : BOOLEAN,
                crit : SUBSET Stretches, synced : {s.synced}]
  BY DEF Start, IInv
<1> HIDE DEF s
<1>2. Form(s)
  BY <1>1 DEF Form, IInv
<1>3. Free(t) = {c \in Clusters : FatOf(disk, fs, c) = 0}
  BY DEF Free
<1>4. Counted(t, u)
  BY <1>3 DEF Counted, IInv
<1>5. \A c \in Clusters : FatOf(s.disk, s.fs, c) = t[c]
  BY <1>1
<1> HIDE DEF t
<1>6. Sees(s, z, "any", t, u)
  BY <1>1, <1>2, <1>5 DEF Sees, IInv
<1>7. reply.synced \/ ~fs.mounted => Sees(s, z, "clean", t, u)
  BY <1>1, <1>2, <1>5 DEF Sees, IInv
<1> HIDE DEF u
<1>8. QED
  BY <1>4, <1>6, <1>7 DEF Good, s

\* What a command leaves is what the invariant says.
LEMMA FinishKeeps ==
  ASSUME NEW a, NEW z, NEW cut, Finish(a, cut), faults' \in Nat, faults' = 0 => z[1] /\ ~cut,
         a.rep.synced \in BOOLEAN, Good(a.m, z, "any"),
         a.rep.synced \/ ~z[3] => Good(a.m, z, "clean"), z[1] => z[3]
  PROVE  IInv'
<1>1. PICK t, u : Counted(t, u) /\ Sees(a.m, z, "any", t, u)
  BY DEF Good
<1>2. a.rep.synced \/ ~z[3] => ~a.m.fs.wflag
  BY DEF Good, Sees
<1>3. FsForm(a.m.fs) /\ DiskForm(a.m.disk) /\ WindowForm(a.m.fs) /\ a.m.crit \subseteq Stretches
  BY <1>1 DEF Sees, Form
<1>4. disk' = a.m.disk /\ crit' = a.m.crit
  BY DEF Finish
<1>5. CASE cut
  <2>1. fs' = RamOff /\ reply' = Reply("off", <<>>, FALSE, <<>>, TRUE)
    BY <1>5 DEF Finish
  <2>2. FsForm(RamOff) /\ WindowForm(RamOff) /\ ~RamOff.wflag
    BY DEF RamOff, FsForm, WindowForm, Reach, Counts, Lasts
  <2>3. reply'.synced = TRUE
    BY <2>1 DEF Reply
  <2>4. FsForm(fs') /\ WindowForm(fs') /\ ~fs'.wflag
    BY <2>1, <2>2
  <2>5. QED
    BY <1>3, <1>4, <1>5, <2>3, <2>4 DEF IInv
<1>6. CASE ~cut
  <2>1. fs' = a.m.fs /\ reply' = a.rep
    BY <1>6 DEF Finish
  <2>2. z[1] => /\ Coherent(a.m.disk, a.m.fs) /\ a.m.fs.free = u /\ a.m.fs.mounted
                /\ Free(t) = {c \in Clusters : FatOf(a.m.disk, a.m.fs, c) = 0}
    BY <1>1 DEF Sees, Free
  <2>3. z[1] => a.m.fs.free \in {Unknown, Cardinality({c \in Clusters : FatOf(a.m.disk, a.m.fs, c) = 0})}
    BY <1>1, <2>2 DEF Counted
  <2>4. a.m.fs.mounted = z[3]
    BY <1>1 DEF Sees
  <2>5. FsForm(fs') /\ DiskForm(disk') /\ WindowForm(fs') /\ crit' \subseteq Stretches
    BY <1>3, <1>4, <2>1
  <2>6. faults' = 0 =>
          /\ Coherent(disk', fs')
          /\ fs'.free \in {Unknown, Cardinality({c \in Clusters : FatOf(disk', fs', c) = 0})}
          /\ fs'.mounted
    BY <1>4, <2>1, <2>2, <2>3
  <2>7. reply'.synced \in BOOLEAN /\ (reply'.synced \/ ~fs'.mounted => ~fs'.wflag)
    BY <1>2, <2>1, <2>4
  <2>8. QED
    BY <2>5, <2>6, <2>7 DEF IInv
<1>7. QED
  BY <1>5, <1>6

\* A program on a mounted volume.
LEMMA Stepped ==
  ASSUME IInv, fs.mounted, NEW n, NEW cut, Took(n, cut), NEW a, Finish(a, cut),
         \A z : Ready(Start(n, cut), z) => Safe(a, z)
  PROVE  IInv'
<1>1. PICK z : (z[1] <=> faults' = 0) /\ z[2] = reply.synced /\ z[3] = fs.mounted
  <2>1. PICK z : z = Context(reply.synced, fs.mounted)
    OBVIOUS
  <2>2. (z[1] <=> faults' = 0) /\ z[2] = reply.synced /\ z[3] = fs.mounted
    BY <2>1, ContextParts
  <2>3. QED
    BY <2>2
<1>2. cut \in BOOLEAN /\ (z[1] => faults = 0 /\ n = 0 /\ ~cut) /\ faults' \in Nat
  BY <1>1 DEF Took
<1>3. Good(Start(n, cut), z, "any") /\ (reply.synced => Good(Start(n, cut), z, "clean"))
  BY <1>1, <1>2, StartKeeps
<1>4. z[2] \in BOOLEAN /\ z[3]
  BY <1>1 DEF IInv
<1>5. Safe(a, z)
  BY <1>1, <1>3, <1>4 DEF Ready
<1>6. faults' = 0 => z[1] /\ ~cut
  BY <1>1, <1>2
<1>7. QED
  BY <1>2, <1>4, <1>5, <1>6, FinishKeeps DEF Safe
-----------------------------------------------------------------------------
(* The steps. *)

\* The paths that commands are given are paths.
LEMMA PathOf ==
  ASSUME NEW p \in Paths
  PROVE  IsPath(p)
BY FatFsAssumption DEF IsPath

\* A run in which nothing fails.
LEMMA CleanTook ==
  ASSUME IInv, faults' = faults
  PROVE  Took(0, FALSE)
BY DEF Took, IInv

\* A run in which an operation fails.
LEMMA FaultTook ==
  ASSUME IInv, faults' = faults + 1, NEW n, NEW cut \in BOOLEAN
  PROVE  Took(n, cut)
BY DEF Took, IInv

\* The invariant holds after touch, whichever of its disk operations fails.
LEMMA TouchStep ==
  ASSUME IInv, NEW p \in Paths, cmd_touch(p)
  PROVE  IInv'
<1>1. fs.mounted
  BY DEF cmd_touch, Run
<1>2. \/ Finish(TouchFile(Start(0, FALSE), p), FALSE) /\ faults' = faults
      \/ faults' = faults + 1 /\ \E n, cut : cut \in BOOLEAN /\ Finish(TouchFile(Start(n, cut), p), cut)
  BY DEF cmd_touch, Run
<1>3. CASE Finish(TouchFile(Start(0, FALSE), p), FALSE) /\ faults' = faults
  <2> DEFINE a == TouchFile(Start(0, FALSE), p)
  <2>1. \A z : Ready(Start(0, FALSE), z) => Safe(a, z)
    BY TouchSafe, PathOf
  <2>2. Finish(a, FALSE) /\ Took(0, FALSE)
    BY <1>3, CleanTook
  <2> HIDE DEF a
  <2>3. QED
    BY <1>1, <2>1, <2>2, Stepped
<1>4. CASE faults' = faults + 1 /\ \E n, cut : cut \in BOOLEAN /\ Finish(TouchFile(Start(n, cut), p), cut)
  <2>1. PICK n, cut : cut \in BOOLEAN /\ Finish(TouchFile(Start(n, cut), p), cut)
    BY <1>4
  <2> DEFINE a == TouchFile(Start(n, cut), p)
  <2>2. \A z : Ready(Start(n, cut), z) => Safe(a, z)
    BY TouchSafe, PathOf
  <2>3. Finish(a, cut) /\ Took(n, cut)
    BY <1>4, <2>1, FaultTook
  <2> HIDE DEF a
  <2>4. QED
    BY <1>1, <2>2, <2>3, Stepped
<1>5. QED
  BY <1>2, <1>3, <1>4

\* The same of write.
LEMMA WriteStep ==
  ASSUME IInv, NEW p \in Paths, NEW l \in Lengths, NEW tag, cmd_write(p, l, tag)
  PROVE  IInv'
<1>1. fs.mounted
  BY DEF cmd_write, Run
<1>2. \/ Finish(WriteFile(Start(0, FALSE), p, l, tag), FALSE) /\ faults' = faults
      \/ faults' = faults + 1 /\ \E n, cut : cut \in BOOLEAN /\ Finish(WriteFile(Start(n, cut), p, l, tag), cut)
  BY DEF cmd_write, Run
<1>3. CASE Finish(WriteFile(Start(0, FALSE), p, l, tag), FALSE) /\ faults' = faults
  <2> DEFINE a == WriteFile(Start(0, FALSE), p, l, tag)
  <2>1. \A z : Ready(Start(0, FALSE), z) => Safe(a, z)
    BY WriteFileSafe, PathOf, FatFsAssumption
  <2>2. Finish(a, FALSE) /\ Took(0, FALSE)
    BY <1>3, CleanTook
  <2> HIDE DEF a
  <2>3. QED
    BY <1>1, <2>1, <2>2, Stepped
<1>4. CASE faults' = faults + 1 /\ \E n, cut : cut \in BOOLEAN /\ Finish(WriteFile(Start(n, cut), p, l, tag), cut)
  <2>1. PICK n, cut : cut \in BOOLEAN /\ Finish(WriteFile(Start(n, cut), p, l, tag), cut)
    BY <1>4
  <2> DEFINE a == WriteFile(Start(n, cut), p, l, tag)
  <2>2. \A z : Ready(Start(n, cut), z) => Safe(a, z)
    BY WriteFileSafe, PathOf, FatFsAssumption
  <2>3. Finish(a, cut) /\ Took(n, cut)
    BY <1>4, <2>1, FaultTook
  <2> HIDE DEF a
  <2>4. QED
    BY <1>1, <2>2, <2>3, Stepped
<1>5. QED
  BY <1>2, <1>3, <1>4

\* Of cat.
LEMMA CatStep ==
  ASSUME IInv, NEW p \in Paths, NEW l, cmd_cat(p, l)
  PROVE  IInv'
<1>1. fs.mounted
  BY DEF cmd_cat, Run
<1>2. \/ Finish(Look(Cat(Start(0, FALSE), p, l), "cat", p), FALSE) /\ faults' = faults
      \/ faults' = faults + 1 /\ \E n, cut : cut \in BOOLEAN /\ Finish(Look(Cat(Start(n, cut), p, l), "cat", p), cut)
  BY DEF cmd_cat, Run
<1>3. CASE Finish(Look(Cat(Start(0, FALSE), p, l), "cat", p), FALSE) /\ faults' = faults
  <2> DEFINE a == Look(Cat(Start(0, FALSE), p, l), "cat", p)
  <2>1. \A z : Ready(Start(0, FALSE), z) => Safe(a, z)
    BY CatSafe, PathOf
  <2>2. Finish(a, FALSE) /\ Took(0, FALSE)
    BY <1>3, CleanTook
  <2> HIDE DEF a
  <2>3. QED
    BY <1>1, <2>1, <2>2, Stepped
<1>4. CASE faults' = faults + 1 /\ \E n, cut : cut \in BOOLEAN /\ Finish(Look(Cat(Start(n, cut), p, l), "cat", p), cut)
  <2>1. PICK n, cut : cut \in BOOLEAN /\ Finish(Look(Cat(Start(n, cut), p, l), "cat", p), cut)
    BY <1>4
  <2> DEFINE a == Look(Cat(Start(n, cut), p, l), "cat", p)
  <2>2. \A z : Ready(Start(n, cut), z) => Safe(a, z)
    BY CatSafe, PathOf
  <2>3. Finish(a, cut) /\ Took(n, cut)
    BY <1>4, <2>1, FaultTook
  <2> HIDE DEF a
  <2>4. QED
    BY <1>1, <2>2, <2>3, Stepped
<1>5. QED
  BY <1>2, <1>3, <1>4

\* Of mkdir.
LEMMA MkdirStep ==
  ASSUME IInv, NEW p \in Paths, cmd_mkdir(p)
  PROVE  IInv'
<1>1. fs.mounted
  BY DEF cmd_mkdir, Run
<1>2. \/ Finish(Answer(f_mkdir(Start(0, FALSE), p), "mkdir", p, <<>>), FALSE) /\ faults' = faults
      \/ faults' = faults + 1 /\ \E n, cut : cut \in BOOLEAN /\ Finish(Answer(f_mkdir(Start(n, cut), p), "mkdir", p, <<>>), cut)
  BY DEF cmd_mkdir, Run
<1>3. CASE Finish(Answer(f_mkdir(Start(0, FALSE), p), "mkdir", p, <<>>), FALSE) /\ faults' = faults
  <2> DEFINE a == Answer(f_mkdir(Start(0, FALSE), p), "mkdir", p, <<>>)
  <2>1. \A z : Ready(Start(0, FALSE), z) => Safe(a, z)
    BY MkdirSafe, PathOf
  <2>2. Finish(a, FALSE) /\ Took(0, FALSE)
    BY <1>3, CleanTook
  <2> HIDE DEF a
  <2>3. QED
    BY <1>1, <2>1, <2>2, Stepped
<1>4. CASE faults' = faults + 1 /\ \E n, cut : cut \in BOOLEAN /\ Finish(Answer(f_mkdir(Start(n, cut), p), "mkdir", p, <<>>), cut)
  <2>1. PICK n, cut : cut \in BOOLEAN /\ Finish(Answer(f_mkdir(Start(n, cut), p), "mkdir", p, <<>>), cut)
    BY <1>4
  <2> DEFINE a == Answer(f_mkdir(Start(n, cut), p), "mkdir", p, <<>>)
  <2>2. \A z : Ready(Start(n, cut), z) => Safe(a, z)
    BY MkdirSafe, PathOf
  <2>3. Finish(a, cut) /\ Took(n, cut)
    BY <1>4, <2>1, FaultTook
  <2> HIDE DEF a
  <2>4. QED
    BY <1>1, <2>2, <2>3, Stepped
<1>5. QED
  BY <1>2, <1>3, <1>4

\* Of rm.
LEMMA RmStep ==
  ASSUME IInv, NEW p \in Paths, cmd_rm(p)
  PROVE  IInv'
<1>1. fs.mounted
  BY DEF cmd_rm, Run
<1>2. \/ Finish(Answer(f_unlink(Start(0, FALSE), p), "rm", p, <<>>), FALSE) /\ faults' = faults
      \/ faults' = faults + 1 /\ \E n, cut : cut \in BOOLEAN /\ Finish(Answer(f_unlink(Start(n, cut), p), "rm", p, <<>>), cut)
  BY DEF cmd_rm, Run
<1>3. CASE Finish(Answer(f_unlink(Start(0, FALSE), p), "rm", p, <<>>), FALSE) /\ faults' = faults
  <2> DEFINE a == Answer(f_unlink(Start(0, FALSE), p), "rm", p, <<>>)
  <2>1. \A z : Ready(Start(0, FALSE), z) => Safe(a, z)
    BY UnlinkSafe, PathOf
  <2>2. Finish(a, FALSE) /\ Took(0, FALSE)
    BY <1>3, CleanTook
  <2> HIDE DEF a
  <2>3. QED
    BY <1>1, <2>1, <2>2, Stepped
<1>4. CASE faults' = faults + 1 /\ \E n, cut : cut \in BOOLEAN /\ Finish(Answer(f_unlink(Start(n, cut), p), "rm", p, <<>>), cut)
  <2>1. PICK n, cut : cut \in BOOLEAN /\ Finish(Answer(f_unlink(Start(n, cut), p), "rm", p, <<>>), cut)
    BY <1>4
  <2> DEFINE a == Answer(f_unlink(Start(n, cut), p), "rm", p, <<>>)
  <2>2. \A z : Ready(Start(n, cut), z) => Safe(a, z)
    BY UnlinkSafe, PathOf
  <2>3. Finish(a, cut) /\ Took(n, cut)
    BY <1>4, <2>1, FaultTook
  <2> HIDE DEF a
  <2>4. QED
    BY <1>1, <2>2, <2>3, Stepped
<1>5. QED
  BY <1>2, <1>3, <1>4

\* Of cd.
LEMMA CdStep ==
  ASSUME IInv, NEW p \in Paths, cmd_cd(p)
  PROVE  IInv'
<1>1. fs.mounted
  BY DEF cmd_cd, Run
<1>2. \/ Finish(Look(f_chdir(Start(0, FALSE), p), "cd", p), FALSE) /\ faults' = faults
      \/ faults' = faults + 1 /\ \E n, cut : cut \in BOOLEAN /\ Finish(Look(f_chdir(Start(n, cut), p), "cd", p), cut)
  BY DEF cmd_cd, Run
<1>3. CASE Finish(Look(f_chdir(Start(0, FALSE), p), "cd", p), FALSE) /\ faults' = faults
  <2> DEFINE a == Look(f_chdir(Start(0, FALSE), p), "cd", p)
  <2>1. \A z : Ready(Start(0, FALSE), z) => Safe(a, z)
    BY ChdirSafe, PathOf
  <2>2. Finish(a, FALSE) /\ Took(0, FALSE)
    BY <1>3, CleanTook
  <2> HIDE DEF a
  <2>3. QED
    BY <1>1, <2>1, <2>2, Stepped
<1>4. CASE faults' = faults + 1 /\ \E n, cut : cut \in BOOLEAN /\ Finish(Look(f_chdir(Start(n, cut), p), "cd", p), cut)
  <2>1. PICK n, cut : cut \in BOOLEAN /\ Finish(Look(f_chdir(Start(n, cut), p), "cd", p), cut)
    BY <1>4
  <2> DEFINE a == Look(f_chdir(Start(n, cut), p), "cd", p)
  <2>2. \A z : Ready(Start(n, cut), z) => Safe(a, z)
    BY ChdirSafe, PathOf
  <2>3. Finish(a, cut) /\ Took(n, cut)
    BY <1>4, <2>1, FaultTook
  <2> HIDE DEF a
  <2>4. QED
    BY <1>1, <2>2, <2>3, Stepped
<1>5. QED
  BY <1>2, <1>3, <1>4

\* Of ls.
LEMMA LsStep ==
  ASSUME IInv, NEW p \in Paths, cmd_ls(p)
  PROVE  IInv'
<1>1. fs.mounted
  BY DEF cmd_ls, Run
<1>2. \/ Finish(Look(ListDir(Start(0, FALSE), p), "ls", p), FALSE) /\ faults' = faults
      \/ faults' = faults + 1 /\ \E n, cut : cut \in BOOLEAN /\ Finish(Look(ListDir(Start(n, cut), p), "ls", p), cut)
  BY DEF cmd_ls, Run
<1>3. CASE Finish(Look(ListDir(Start(0, FALSE), p), "ls", p), FALSE) /\ faults' = faults
  <2> DEFINE a == Look(ListDir(Start(0, FALSE), p), "ls", p)
  <2>1. \A z : Ready(Start(0, FALSE), z) => Safe(a, z)
    BY ListDirSafe, PathOf
  <2>2. Finish(a, FALSE) /\ Took(0, FALSE)
    BY <1>3, CleanTook
  <2> HIDE DEF a
  <2>3. QED
    BY <1>1, <2>1, <2>2, Stepped
<1>4. CASE faults' = faults + 1 /\ \E n, cut : cut \in BOOLEAN /\ Finish(Look(ListDir(Start(n, cut), p), "ls", p), cut)
  <2>1. PICK n, cut : cut \in BOOLEAN /\ Finish(Look(ListDir(Start(n, cut), p), "ls", p), cut)
    BY <1>4
  <2> DEFINE a == Look(ListDir(Start(n, cut), p), "ls", p)
  <2>2. \A z : Ready(Start(n, cut), z) => Safe(a, z)
    BY ListDirSafe, PathOf
  <2>3. Finish(a, cut) /\ Took(n, cut)
    BY <1>4, <2>1, FaultTook
  <2> HIDE DEF a
  <2>4. QED
    BY <1>1, <2>2, <2>3, Stepped
<1>5. QED
  BY <1>2, <1>3, <1>4

\* Of pwd.
LEMMA PwdStep ==
  ASSUME IInv, cmd_pwd
  PROVE  IInv'
<1>1. fs.mounted
  BY DEF cmd_pwd, Run
<1>2. \/ Finish(Look(f_getcwd(Start(0, FALSE)), "pwd", <<>>), FALSE) /\ faults' = faults
      \/ faults' = faults + 1 /\ \E n, cut : cut \in BOOLEAN /\ Finish(Look(f_getcwd(Start(n, cut)), "pwd", <<>>), cut)
  BY DEF cmd_pwd, Run
<1>3. CASE Finish(Look(f_getcwd(Start(0, FALSE)), "pwd", <<>>), FALSE) /\ faults' = faults
  <2> DEFINE a == Look(f_getcwd(Start(0, FALSE)), "pwd", <<>>)
  <2>1. \A z : Ready(Start(0, FALSE), z) => Safe(a, z)
    BY GetcwdSafe
  <2>2. Finish(a, FALSE) /\ Took(0, FALSE)
    BY <1>3, CleanTook
  <2> HIDE DEF a
  <2>3. QED
    BY <1>1, <2>1, <2>2, Stepped
<1>4. CASE faults' = faults + 1 /\ \E n, cut : cut \in BOOLEAN /\ Finish(Look(f_getcwd(Start(n, cut)), "pwd", <<>>), cut)
  <2>1. PICK n, cut : cut \in BOOLEAN /\ Finish(Look(f_getcwd(Start(n, cut)), "pwd", <<>>), cut)
    BY <1>4
  <2> DEFINE a == Look(f_getcwd(Start(n, cut)), "pwd", <<>>)
  <2>2. \A z : Ready(Start(n, cut), z) => Safe(a, z)
    BY GetcwdSafe
  <2>3. Finish(a, cut) /\ Took(n, cut)
    BY <1>4, <2>1, FaultTook
  <2> HIDE DEF a
  <2>4. QED
    BY <1>1, <2>2, <2>3, Stepped
<1>5. QED
  BY <1>2, <1>3, <1>4

\* Of a truncation.
LEMMA TruncateStep ==
  ASSUME IInv, NEW p \in Paths, NEW l, Truncate(p, l)
  PROVE  IInv'
<1>1. fs.mounted
  BY DEF Truncate, Run
<1>2. \/ Finish(TruncateFile(Start(0, FALSE), p, l), FALSE) /\ faults' = faults
      \/ faults' = faults + 1 /\ \E n, cut : cut \in BOOLEAN /\ Finish(TruncateFile(Start(n, cut), p, l), cut)
  BY DEF Truncate, Run
<1>3. CASE Finish(TruncateFile(Start(0, FALSE), p, l), FALSE) /\ faults' = faults
  <2> DEFINE a == TruncateFile(Start(0, FALSE), p, l)
  <2>1. \A z : Ready(Start(0, FALSE), z) => Safe(a, z)
    BY TruncateFileSafe, PathOf
  <2>2. Finish(a, FALSE) /\ Took(0, FALSE)
    BY <1>3, CleanTook
  <2> HIDE DEF a
  <2>3. QED
    BY <1>1, <2>1, <2>2, Stepped
<1>4. CASE faults' = faults + 1 /\ \E n, cut : cut \in BOOLEAN /\ Finish(TruncateFile(Start(n, cut), p, l), cut)
  <2>1. PICK n, cut : cut \in BOOLEAN /\ Finish(TruncateFile(Start(n, cut), p, l), cut)
    BY <1>4
  <2> DEFINE a == TruncateFile(Start(n, cut), p, l)
  <2>2. \A z : Ready(Start(n, cut), z) => Safe(a, z)
    BY TruncateFileSafe, PathOf
  <2>3. Finish(a, cut) /\ Took(n, cut)
    BY <1>4, <2>1, FaultTook
  <2> HIDE DEF a
  <2>4. QED
    BY <1>1, <2>2, <2>3, Stepped
<1>5. QED
  BY <1>2, <1>3, <1>4

\* Of a renaming.
LEMMA RenameStep ==
  ASSUME IInv, NEW p \in Paths, NEW pn \in Paths, Rename(p, pn)
  PROVE  IInv'
<1>1. fs.mounted
  BY DEF Rename, Run
<1>2. \/ Finish(RenameFile(Start(0, FALSE), p, pn), FALSE) /\ faults' = faults
      \/ faults' = faults + 1 /\ \E n, cut : cut \in BOOLEAN /\ Finish(RenameFile(Start(n, cut), p, pn), cut)
  BY DEF Rename, Run
<1>3. CASE Finish(RenameFile(Start(0, FALSE), p, pn), FALSE) /\ faults' = faults
  <2> DEFINE a == RenameFile(Start(0, FALSE), p, pn)
  <2>1. \A z : Ready(Start(0, FALSE), z) => Safe(a, z)
    BY RenameFileSafe, PathOf
  <2>2. Finish(a, FALSE) /\ Took(0, FALSE)
    BY <1>3, CleanTook
  <2> HIDE DEF a
  <2>3. QED
    BY <1>1, <2>1, <2>2, Stepped
<1>4. CASE faults' = faults + 1 /\ \E n, cut : cut \in BOOLEAN /\ Finish(RenameFile(Start(n, cut), p, pn), cut)
  <2>1. PICK n, cut : cut \in BOOLEAN /\ Finish(RenameFile(Start(n, cut), p, pn), cut)
    BY <1>4
  <2> DEFINE a == RenameFile(Start(n, cut), p, pn)
  <2>2. \A z : Ready(Start(n, cut), z) => Safe(a, z)
    BY RenameFileSafe, PathOf
  <2>3. Finish(a, cut) /\ Took(n, cut)
    BY <1>4, <2>1, FaultTook
  <2> HIDE DEF a
  <2>4. QED
    BY <1>1, <2>2, <2>3, Stepped
<1>5. QED
  BY <1>2, <1>3, <1>4

\* Of f_stat.
LEMMA StatStep ==
  ASSUME IInv, NEW p \in Paths, Stat(p)
  PROVE  IInv'
<1>1. fs.mounted
  BY DEF Stat, Run
<1>2. \/ Finish(Look(f_stat(Start(0, FALSE), p), "stat", p), FALSE) /\ faults' = faults
      \/ faults' = faults + 1 /\ \E n, cut : cut \in BOOLEAN /\ Finish(Look(f_stat(Start(n, cut), p), "stat", p), cut)
  BY DEF Stat, Run
<1>3. CASE Finish(Look(f_stat(Start(0, FALSE), p), "stat", p), FALSE) /\ faults' = faults
  <2> DEFINE a == Look(f_stat(Start(0, FALSE), p), "stat", p)
  <2>1. \A z : Ready(Start(0, FALSE), z) => Safe(a, z)
    BY StatSafe, PathOf
  <2>2. Finish(a, FALSE) /\ Took(0, FALSE)
    BY <1>3, CleanTook
  <2> HIDE DEF a
  <2>3. QED
    BY <1>1, <2>1, <2>2, Stepped
<1>4. CASE faults' = faults + 1 /\ \E n, cut : cut \in BOOLEAN /\ Finish(Look(f_stat(Start(n, cut), p), "stat", p), cut)
  <2>1. PICK n, cut : cut \in BOOLEAN /\ Finish(Look(f_stat(Start(n, cut), p), "stat", p), cut)
    BY <1>4
  <2> DEFINE a == Look(f_stat(Start(n, cut), p), "stat", p)
  <2>2. \A z : Ready(Start(n, cut), z) => Safe(a, z)
    BY StatSafe, PathOf
  <2>3. Finish(a, cut) /\ Took(n, cut)
    BY <1>4, <2>1, FaultTook
  <2> HIDE DEF a
  <2>4. QED
    BY <1>1, <2>2, <2>3, Stepped
<1>5. QED
  BY <1>2, <1>3, <1>4

\* Of f_getfree.
LEMMA GetFreeStep ==
  ASSUME IInv, GetFree
  PROVE  IInv'
<1>1. fs.mounted
  BY DEF GetFree, Run
<1>2. \/ Finish(Look(f_getfree(Start(0, FALSE)), "getfree", <<>>), FALSE) /\ faults' = faults
      \/ faults' = faults + 1 /\ \E n, cut : cut \in BOOLEAN /\ Finish(Look(f_getfree(Start(n, cut)), "getfree", <<>>), cut)
  BY DEF GetFree, Run
<1>3. CASE Finish(Look(f_getfree(Start(0, FALSE)), "getfree", <<>>), FALSE) /\ faults' = faults
  <2> DEFINE a == Look(f_getfree(Start(0, FALSE)), "getfree", <<>>)
  <2>1. \A z : Ready(Start(0, FALSE), z) => Safe(a, z)
    BY GetfreeSafe
  <2>2. Finish(a, FALSE) /\ Took(0, FALSE)
    BY <1>3, CleanTook
  <2> HIDE DEF a
  <2>3. QED
    BY <1>1, <2>1, <2>2, Stepped
<1>4. CASE faults' = faults + 1 /\ \E n, cut : cut \in BOOLEAN /\ Finish(Look(f_getfree(Start(n, cut)), "getfree", <<>>), cut)
  <2>1. PICK n, cut : cut \in BOOLEAN /\ Finish(Look(f_getfree(Start(n, cut)), "getfree", <<>>), cut)
    BY <1>4
  <2> DEFINE a == Look(f_getfree(Start(n, cut)), "getfree", <<>>)
  <2>2. \A z : Ready(Start(n, cut), z) => Safe(a, z)
    BY GetfreeSafe
  <2>3. Finish(a, cut) /\ Took(n, cut)
    BY <1>4, <2>1, FaultTook
  <2> HIDE DEF a
  <2>4. QED
    BY <1>1, <2>2, <2>3, Stepped
<1>5. QED
  BY <1>2, <1>3, <1>4

\* The kernel's boot: the volume is mounted, then the self-test runs.
LEMMA BootStep ==
  ASSUME IInv, kernel_main
  PROVE  IInv'
<1> DEFINE B(s) ==
      LET a == mount_volume(s) IN
      IF a.r = "OK" THEN SelfTest(a.m) ELSE [m |-> a.m, rep |-> Reply("boot", <<>>, FALSE, <<>>, FALSE)]
<1>1. ~fs.mounted
  BY DEF kernel_main, Run, IInv, FsForm
<1>2. \/ Finish(B(Start(0, FALSE)), FALSE) /\ faults' = faults
      \/ faults' = faults + 1 /\ \E n, cut : cut \in BOOLEAN /\ Finish(B(Start(n, cut)), cut)
  BY DEF kernel_main, Run
<1>3. ASSUME NEW n, NEW cut, Took(n, cut), Finish(B(Start(n, cut)), cut) PROVE IInv'
  <2> DEFINE s == Start(n, cut)
             a == mount_volume(s)
             g == SelfTest(a.m)
             h == [m |-> a.m, rep |-> Reply("boot", <<>>, FALSE, <<>>, FALSE)]
             v == B(s)
  <2>1. v = IF a.r = "OK" THEN g ELSE h
    OBVIOUS
  <2>2. h.m = a.m /\ h.rep.synced = FALSE
    BY DEF Reply
  <2>3. Finish(v, cut)
    BY <1>3
  <2> HIDE DEF B, v, g, h
  <2>4. PICK z : (z[1] <=> faults' = 0) /\ z[2] = reply.synced /\ z[3] = fs.mounted
    <3>1. PICK z : z = Context(reply.synced, fs.mounted)
      OBVIOUS
    <3>2. QED
      BY <3>1, ContextParts
  <2>5. PICK true : true = TRUE
    OBVIOUS
  <2>6. PICK y : (y[1] <=> faults' = 0) /\ y[2] = reply.synced /\ y[3] = true
    <3>1. PICK y : y = Context(reply.synced, true)
      OBVIOUS
    <3>2. QED
      BY <3>1, ContextParts
  <2>7. cut \in BOOLEAN /\ (z[1] => faults = 0 /\ n = 0 /\ ~cut) /\ faults' \in Nat
    BY <1>3, <2>4 DEF Took
  <2>8. Good(s, z, "clean")
    BY <1>1, <2>4, <2>7, StartKeeps
  <2>9. z[1] => s.disk \in Volumes
    BY <1>1, <2>7 DEF Start, IInv
  <2> HIDE DEF s
  <2>10. ~z[3] /\ (y[1] <=> z[1]) /\ y[2] = z[2] /\ y[3] = TRUE
    BY <1>1, <2>4, <2>5, <2>6
  <2>11. IF a.r = "OK" THEN Good(a.m, y, "clean") ELSE Good(a.m, z, "clean") /\ ~z[1]
    BY <2>8, <2>9, <2>10, MountKeeps
  <2> HIDE DEF a
  <2>12. CASE a.r = "OK"
    <3>1. Good(a.m, y, "any")
      BY <2>11, <2>12 DEF Good, Sees
    <3>2. Safe(g, y)
      BY <2>10, <3>1, SelfTestSafe DEF g
    <3>3. v = g /\ (faults' = 0 => y[1] /\ ~cut) /\ y[3]
      BY <2>1, <2>4, <2>6, <2>7, <2>10, <2>12
    <3>4. QED
      BY <2>3, <2>7, <3>2, <3>3, FinishKeeps DEF Safe
  <2>13. CASE a.r # "OK"
    <3>1. v = h /\ Good(h.m, z, "clean") /\ ~z[1]
      BY <2>1, <2>2, <2>11, <2>13
    <3>2. Good(h.m, z, "any")
      BY <3>1 DEF Good, Sees
    <3>3. faults' # 0 /\ h.rep.synced \in BOOLEAN
      BY <2>2, <2>4, <3>1
    <3>4. QED
      BY <2>3, <2>7, <3>1, <3>2, <3>3, FinishKeeps
  <2>14. QED
    BY <2>12, <2>13
<1> HIDE DEF B
<1>4. CASE Finish(B(Start(0, FALSE)), FALSE) /\ faults' = faults
  BY <1>3, <1>4, CleanTook
<1>5. CASE faults' = faults + 1 /\ \E n, cut : cut \in BOOLEAN /\ Finish(B(Start(n, cut)), cut)
  <2>1. PICK n, cut : cut \in BOOLEAN /\ Finish(B(Start(n, cut)), cut)
    BY <1>5
  <2>2. Took(n, cut)
    BY <1>5, <2>1, FaultTook
  <2>3. QED
    BY <1>3, <2>1, <2>2
<1>6. QED
  BY <1>2, <1>4, <1>5

\* Power is cut between two commands: the medium stays and the failure is counted.
LEMMA PowerCutStep ==
  ASSUME IInv, PowerCut
  PROVE  IInv'
<1>1. /\ faults' = faults + 1 /\ fs' = RamOff /\ reply' = Reply("off", <<>>, FALSE, <<>>, TRUE)
      /\ disk' = disk /\ crit' = crit
  BY DEF PowerCut
<1>2. FsForm(RamOff) /\ WindowForm(RamOff) /\ ~RamOff.wflag
  BY DEF RamOff, FsForm, WindowForm, Reach, Counts, Lasts
<1>3. reply'.synced = TRUE
  BY <1>1 DEF Reply
<1>4. FsForm(fs') /\ WindowForm(fs') /\ ~fs'.wflag
  BY <1>1, <1>2
<1>5. DiskForm(disk') /\ crit' \subseteq Stretches /\ faults' \in Nat /\ faults' # 0
  BY <1>1 DEF IInv
<1>6. QED
  BY <1>3, <1>4, <1>5 DEF IInv

\* Nothing changes.
LEMMA StutterStep ==
  ASSUME IInv, UNCHANGED vars
  PROVE  IInv'
BY DEF IInv, vars, FatOf

\* A volume that a PC prepared.
LEMMA InitInv ==
  ASSUME Init
  PROVE  IInv
<1>1. disk \in Volumes /\ fs = RamOff /\ faults = 0 /\ crit = {} /\ reply.synced = TRUE
  BY DEF Init, Reply
<1>2. /\ DOMAIN disk = Sectors /\ \A s \in Sectors : Holds(s, disk[s])
      /\ \A s \in Sectors : InFat(s) => Mirrored(disk, s)
  BY <1>1, VolumesAssumption
<1>3. FsForm(RamOff) /\ WindowForm(RamOff) /\ ~RamOff.wflag /\ RamOff.winsect = NoSector /\ RamOff.free = Unknown
  BY DEF RamOff, FsForm, WindowForm, Reach, Counts, Lasts
<1>4. Coherent(disk, fs)
  <2>1. \A s \in FatSectors : s \in Sectors /\ InFat(s)
    BY Layout, Parted DEF FatSectors
  <2>2. NoSector \notin FatSectors
    BY Layout, Parted DEF FatSectors
  <2>3. QED
    BY <1>1, <1>2, <1>3, <2>1, <2>2 DEF Coherent
<1>5. QED
  BY <1>1, <1>2, <1>3, <1>4 DEF IInv, DiskForm

\* Every step of Next is one of these.
LEMMA IInvStep ==
  ASSUME IInv, [Next]_vars
  PROVE  IInv'
BY BootStep, TouchStep, WriteStep, CatStep, MkdirStep, RmStep, CdStep, LsStep, PwdStep, TruncateStep,
   RenameStep, StatStep, GetFreeStep, PowerCutStep, StutterStep DEF Next

-----------------------------------------------------------------------------
(* What it implies. *)

\* The FAT that Window shows is the one the library sees.
LEMMA WindowFat ==
  ASSUME IInv, faults = 0
  PROVE  FreeClusters(Window) = {c \in Clusters : FatOf(disk, fs, c) = 0}
<1>1. ASSUME NEW c \in Clusters PROVE Fat(Window, c) = FatOf(disk, fs, c)
  <2>1. FatSector(c) \in Sectors
    BY Layout, Parted DEF FatSectors
  <2>2. CASE fs.wflag
    <3>1. Window = [disk EXCEPT ![fs.winsect] = fs.win]
      BY <2>2 DEF Window
    <3>2. DOMAIN disk = Sectors
      BY DEF IInv, DiskForm
    <3>3. QED
      BY <2>1, <3>1, <3>2 DEF Fat, FatOf
  <2>3. CASE ~fs.wflag
    <3>1. Window = disk
      BY <2>3 DEF Window
    <3>2. FatSector(c) \in FatSectors
      BY Layout
    <3>3. fs.winsect = FatSector(c) => fs.win = disk[FatSector(c)]
      BY <2>3, <3>2 DEF IInv, Coherent
    <3>4. QED
      BY <3>1, <3>3 DEF Fat, FatOf
  <2>4. QED
    BY <2>2, <2>3
<1>2. QED
  BY <1>1 DEF FreeClusters

\* The invariant has the exact count and the mirrored FATs.
LEMMA IInvSpace ==
  ASSUME IInv
  PROVE  SpaceAccounted
<1>1. TypeOK
  <2>1. fs.winsect \in Reach /\ fs.free \in Counts /\ fs.last \in Lasts /\ fs.mounted \in BOOLEAN
    BY DEF IInv, FsForm
  <2>2. fs.winsect \in Sectors \cup {NoSector}
    BY <2>1, Parted
  <2>3. QED
    BY <2>1, <2>2 DEF TypeOK, IInv, DiskForm, Stretches
<1>2. ASSUME faults = 0 PROVE fs.free \in {Unknown, Cardinality(FreeClusters(Window))}
  BY <1>2, WindowFat DEF IInv
<1>3. ASSUME faults = 0, ~fs.wflag, NEW s \in FatBase..(FatBase + FSize - 1) PROVE Mirrored(disk, s)
  <2>1. s \in FatSectors
    BY Layout DEF FatBase, FatSectors
  <2>2. QED
    BY <1>3, <2>1 DEF IInv, Coherent
<1>4. QED
  BY <1>1, <1>2, <1>3 DEF SpaceAccounted

\* The invariant leaves nothing in the window that a synced reply was about.
LEMMA IInvSynced ==
  ASSUME IInv
  PROVE  SyncedIsStored
<1>1. reply.synced => Window = disk
  BY DEF IInv, Window
<1>2. QED
  BY <1>1 DEF SyncedIsStored

\* Whatever the commands, the clusters and the failures, the window, the two
\* FATs and the count of free clusters stay as IInv says: what move_window,
\* sync_window, put_fat, create_chain, remove_chain and sync_fs do to them.
THEOREM IInvHolds == Spec => []IInv
<1>1. Init => IInv
  BY InitInv
<1>2. IInv /\ [Next]_vars => IInv'
  BY IInvStep
<1>3. QED
  BY <1>1, <1>2, PTL DEF Spec

\* As long as no disk operation failed and no power was cut, the count that
\* f_getfree reports and create_chain trusts is the number of free clusters, and
\* the two FATs are the same when the window is clean.
THEOREM SpaceAccountedHolds == Spec => []SpaceAccounted
<1>1. IInv => SpaceAccounted
  BY IInvSpace
<1>2. QED
  BY <1>1, IInvHolds, PTL

\* What f_close, f_unlink, f_mkdir and f_rename report done is on the medium,
\* whichever disk operations failed before: a successful sync_fs leaves nothing in
\* the window, and what only reads puts nothing there.
THEOREM SyncedIsStoredHolds == Spec => []SyncedIsStored
<1>1. IInv => SyncedIsStored
  BY IInvSynced
<1>2. QED
  BY <1>1, IInvHolds, PTL
=============================================================================
