------------------------------- MODULE FatFs --------------------------------
(***************************************************************************)
(* The FAT file system of the SD card (src/lib/src/fatfs/ff.c) as the      *)
(* kernel's shell and self-test use it: one thread, a file object that     *)
(* lives in one command.  A command is one step, but it is made of the     *)
(* library's own disk operations, counted one by one: any one of them may  *)
(* fail, and the power may be cut at any one of them, so that the medium a *)
(* step leaves is every medium a failure inside the command could leave.   *)
(*                                                                         *)
(* A function of ff.c is an operator from a machine m (the medium, the     *)
(* FATFS object, the operation counter) to a reply: the machine after it,  *)
(* a FRESULT, and a value.  Do(a, F) continues with F when a succeeded,    *)
(* which is the code's "if (res == FR_OK)".                                *)
(*                                                                         *)
(* A sector is a cluster; a directory sector holds EPS entries, a file     *)
(* sector SS units, a FAT sector EPF entries.  The volume is FAT32 with    *)
(* two FATs: the root directory is a chain that starts at cluster 2.       *)
(***************************************************************************)
EXTENDS Integers, Sequences, FiniteSets, SequencesExt

CONSTANTS
  NFatEnt,      \* n_fatent: clusters 2 .. NFatEnt - 1 hold data
  EPF, EPS, SS, \* entries of a FAT sector, of a directory sector, units of a data sector
  Names,        \* file names; Base, Num and Long say how create_name stores one
  Base, Num, Long,
  Tags,         \* what a program writes
  Paths,        \* the paths commands name: [abs, segs]
  Lengths,      \* lengths in units of what is written
  Volumes,      \* the media a PC prepared
  MaxFaults,    \* failures in a behaviour
  MaxCommands,  \* commands of a session
  Commands      \* the commands a run explores

VARIABLES
  disk,   \* sector -> content: what survives a power cut
  fs,     \* the FATFS object, RAM
  reply,  \* what the last command reported: its name, path, outcome and data
  faults, \* failures so far
  count,  \* commands so far
  crit    \* unsafe stretches of code that a failure left half done

vars == <<disk, fs, reply, faults, count, crit>>

-----------------------------------------------------------------------------
(* Volume layout.                                                          *)

Clusters == 2..(NFatEnt - 1)
FSize    == (NFatEnt + EPF - 1) \div EPF
FatBase  == 2
DataBase == FatBase + 2 * FSize
Root     == 2
NoSector == 0 - 1
EOC      == NFatEnt + 1          \* 0x0FFFFFF8 and above
Unknown  == NFatEnt + 2          \* 0xFFFFFFFF as a free or last cluster
clst2sect(c) == IF c \in Clusters THEN DataBase + c - 2 ELSE 0
FatSector(c) == FatBase + c \div EPF
InFat(s)     == FatBase <= s /\ s < FatBase + FSize

Entry(t, name, sfn, cl, size) ==
  [t |-> t, name |-> name, sfn |-> sfn, cl |-> cl, size |-> size]
End  == Entry("end", "", <<>>, 0, 0)
Ddem == Entry("deleted", "", <<>>, 0, 0)
DirSector(es) == [k |-> "dir", e |-> [i \in 0..(EPS - 1) |-> IF i < Len(es) THEN es[i + 1] ELSE End]]
DataSector(d) == [k |-> "data", d |-> d]
Junk    == [i \in 1..SS |-> "junk"]
Blank   == DataSector(Junk)
FatSect(f, s) == [k |-> "fat", fat |-> [c \in {c \in 0..(NFatEnt - 1) : FatSector(c) = s} |-> f[c]]]
FsInfo(free, last) == [k |-> "fsinfo", free |-> free, last |-> last]
Fat(d, c) == d[FatSector(c)].fat[c]
FreeClusters(d) == {c \in Clusters : Fat(d, c) = 0}
Units(x) == IF x.k = "data" THEN x.d ELSE Junk
Slot(x, i) == IF x.k = "dir" THEN x.e[i % EPS] ELSE End
SetSlot(x, i, e) == IF x.k = "dir" THEN [k |-> "dir", e |-> [x.e EXCEPT ![i % EPS] = e]] ELSE x
Dot(name, cl) == Entry("dir", "", <<name, 0>>, cl, 0)

\* What a sector holds: the boot sector, FSInfo, the FAT twice, data.
Sectors == 0..(DataBase + NFatEnt - 3)
Held(s) == {c \in 0..(NFatEnt - 1) : FatSector(c) = s}
Counts  == 0..(NFatEnt - 2) \cup {Unknown}
Lasts   == 0..NFatEnt \cup {Unknown}
Holds(s, x) ==
  /\ s = 0            => x.k = "vbr"
  /\ s = 1            => x \in [k : {"fsinfo"}, free : Counts, last : Lasts]
  /\ InFat(s)         => x \in [k : {"fat"}, fat : [Held(s) -> Nat]]
  /\ InFat(s - FSize) => x.k = "fat"
  /\ s >= DataBase    => x.k \in {"dir", "data"}
Mirrored(d, s) == d[s] = d[s + FSize]

\* A volume has at least the root and one more cluster, and a directory
\* sector holds an entry and more.
ASSUME FatFsAssumption ==
  /\ NFatEnt \in Nat /\ NFatEnt > 3
  /\ EPF \in Nat \ {0} /\ EPS \in Nat /\ EPS > 1 /\ SS \in Nat /\ SS > 1
  /\ DOMAIN Base = Names /\ DOMAIN Num = Names /\ DOMAIN Long = Names
  /\ \A p \in Paths : p.segs = <<>> \/ Len(p.segs) \in Nat
  /\ Lengths \subseteq Nat /\ MaxFaults \in Nat /\ MaxCommands \in Nat

\* A PC leaves both FATs the same, and an FSInfo that is right or says nothing:
\* the code believes what it reads there.
ASSUME VolumesAssumption ==
  \A v \in Volumes :
    /\ DOMAIN v = Sectors /\ \A s \in Sectors : Holds(s, v[s])
    /\ \A s \in Sectors : InFat(s) => Mirrored(v, s)
    /\ v[1].free \in {Unknown, Cardinality(FreeClusters(v))}

-----------------------------------------------------------------------------
(* Replies.                                                                *)

Ok(m, x)     == [m |-> m, r |-> "OK", x |-> x]
Err(m, e, x) == [m |-> m, r |-> e, x |-> x]
Do(a, F(_, _)) == IF a.r = "OK" THEN F(a.m, a.x) ELSE a
OnlyIf(c, e, m, F(_)) == IF c THEN F(m) ELSE Err(m, e, 0)

\* A loop: F is repeated until it fails or is done, at most n times.  The
\* bounds are those of the volume: clusters of a chain, entries of a
\* directory, units of a file.  A chain that is a ring exceeds them, and the
\* code does not end on it.
MaxEntries == NFatEnt * EPS
MaxUnits   == NFatEnt * SS
Done(m, x) == Err(m, "DONE", x)
Ended(a) ==
  IF a.r = "DONE" THEN Ok(a.m, a.x) ELSE IF a.r = "OK" THEN Err(a.m, "ENDLESS", a.x) ELSE a
Repeat(n, a, F(_, _)) ==
  LET run[i \in 0..n] == IF i = 0 THEN a ELSE Do(run[i - 1], F) IN Ended(run[n])

\* diskio: the n-th operation of a command fails, and all later ones when
\* the power is gone.
Tick(m)  == [m EXCEPT !.n = @ + 1]
Fails(m) == m.n = m.fault \/ (m.cut /\ m.n > m.fault)
disk_read(m, s) ==
  LET k == Tick(m) IN IF Fails(k) THEN Err(k, "DISK_ERR", 0) ELSE Ok(k, k.disk[s])
disk_write(m, s, x) ==
  LET k == Tick(m) IN IF Fails(k) THEN Err(k, "DISK_ERR", 0) ELSE Ok([k EXCEPT !.disk[s] = x], 0)

-----------------------------------------------------------------------------
(* The access window.                                                      *)

sync_window(m) ==
  IF ~m.fs.wflag THEN Ok(m, 0)
  ELSE Do(disk_write(m, m.fs.winsect, m.fs.win),
          LAMBDA k, x : LET c == [k EXCEPT !.fs.wflag = FALSE] IN
            IF InFat(c.fs.winsect)
            THEN Ok(disk_write(c, c.fs.winsect + FSize, c.fs.win).m, 0)
            ELSE Ok(c, 0))

move_window(m, s) ==
  IF s = m.fs.winsect THEN Ok(m, 0)
  ELSE Do(sync_window(m), LAMBDA k, x :
         LET a == disk_read(k, s) IN
         IF a.r = "OK" THEN Ok([a.m EXCEPT !.fs.win = a.x, !.fs.winsect = s], 0)
         ELSE Err([a.m EXCEPT !.fs.win = Blank, !.fs.winsect = NoSector], a.r, 0))

\* The FSInfo write's result is not looked at; CTRL_SYNC always succeeds.
\* Fault: the directory or FAT sector in the window stays there.
sync_fs_late(m) == Ok(m, 0)
sync_fs(m) ==
  Do(sync_window(m), LAMBDA k, x :
    IF k.fs.fsi # 1 THEN Ok(k, 0)
    ELSE LET w == FsInfo(k.fs.free, k.fs.last) IN
         Ok(disk_write([k EXCEPT !.fs.fsi = 0, !.fs.win = w, !.fs.winsect = 1], 1, w).m, 0))

-----------------------------------------------------------------------------
(* The FAT.                                                                *)

get_fat(m, c) ==
  OnlyIf(c \in Clusters, "INT_ERR", m, LAMBDA j :
    Do(move_window(j, FatSector(c)), LAMBDA k, x : Ok(k, k.fs.win.fat[c])))
put_fat(m, c, v) ==
  OnlyIf(c \in Clusters, "INT_ERR", m, LAMBDA j :
    Do(move_window(j, FatSector(c)), LAMBDA k, x :
      Ok([k EXCEPT !.fs.win.fat[c] = v, !.fs.wflag = TRUE], 0)))

Touch(m) == [m EXCEPT !.fs.fsi = IF @ = 0 THEN 1 ELSE @]
\* Fault: a full volume is taken for one whose count is not known.
FreedUnlessFull(m) ==
  IF m.fs.free > 0 /\ m.fs.free < NFatEnt - 2 THEN Touch([m EXCEPT !.fs.free = @ + 1]) ELSE m
Freed(m) == IF m.fs.free < NFatEnt - 2 THEN Touch([m EXCEPT !.fs.free = @ + 1]) ELSE m

FreeNext(m, c) ==
  IF c >= NFatEnt THEN Done(m, 0)
  ELSE Do(get_fat(m, c), LAMBDA k, nxt :
         IF nxt = 0 THEN Done(k, 0)
         ELSE Do(put_fat(k, c, 0), LAMBDA j, x : Ok(Freed(j), nxt)))
FreeChain(m, c) == Repeat(NFatEnt, Ok(m, c), FreeNext)

remove_chain(m, c, pc) ==
  OnlyIf(c \in Clusters, "INT_ERR", m, LAMBDA j :
    Do(IF pc = 0 THEN Ok(j, 0) ELSE put_fat(j, pc, EOC), LAMBDA k, x : FreeChain(k, c)))

\* The first free cluster after n, up to and including scl; 0 when there is none.
TryNext(m, scl, n) ==
  LET ncl == IF n + 1 >= NFatEnt THEN 2 ELSE n + 1 IN
  IF n + 1 >= NFatEnt /\ ncl > scl THEN Done(m, 0)
  ELSE Do(get_fat(m, ncl), LAMBDA k, v :
         IF v = 0 THEN Done(k, ncl) ELSE IF ncl = scl THEN Done(k, 0) ELSE Ok(k, ncl))
FindFree(m, scl, n) == Repeat(NFatEnt, Ok(m, n), LAMBDA k, c : TryNext(k, scl, c))

\* ncl, a free cluster, ends the chain whose last cluster is c (0: a new chain).
Link(m, c, ncl) ==
  IF ncl = 0 THEN Ok(m, 0)
  ELSE Do(put_fat(m, ncl, EOC), LAMBDA k, x :
       Do(IF c = 0 THEN Ok(k, 0) ELSE put_fat(k, c, ncl), LAMBDA j, y :
         LET z == [j EXCEPT !.fs.last = ncl] IN
         Ok(IF z.fs.free > 0 /\ z.fs.free <= NFatEnt - 2
            THEN Touch([z EXCEPT !.fs.free = @ - 1]) ELSE z, ncl)))
NewCluster(m, c, last) ==
  LET start == IF last = 0 \/ last >= NFatEnt THEN 1 ELSE last
      next  == IF c + 1 >= NFatEnt THEN 2 ELSE c + 1
      scl   == IF last \in Clusters THEN last ELSE c
  IN IF m.fs.free = 0 THEN Ok(m, 0)
     ELSE IF c = 0 THEN Do(FindFree(m, start, start), LAMBDA k, n : Link(k, c, n))
     ELSE Do(get_fat(m, next), LAMBDA k, v :
            IF v = 0 THEN Link(k, c, next)
            ELSE Do(FindFree(k, scl, scl), LAMBDA j, n : Link(j, c, n)))

\* The next cluster of a chain that goes on, or a new one linked to its end.
create_chain(m, c) ==
  IF c = 0 THEN NewCluster(m, 0, m.fs.last)
  ELSE Do(get_fat(m, c), LAMBDA k, v :
         IF v < 2 THEN Err(k, "INT_ERR", 0)
         ELSE IF v < NFatEnt THEN Ok(k, v) ELSE NewCluster(k, c, m.fs.last))

-----------------------------------------------------------------------------
(* Directories.  A DIR dp is at entry i of the directory that starts at    *)
(* cluster scl (0: the root); blk is the first entry of its long name.     *)

NoBlk == 0 - 1
dir_clear(m, c) ==
  Do(sync_window(m), LAMBDA k, x :
    LET z == DirSector(<<>>) IN
    disk_write([k EXCEPT !.fs.win = z, !.fs.winsect = clst2sect(c)], clst2sect(c), z))

SeekNext(m, at) ==
  IF at.n = 0 THEN Done(m, at.c)
  ELSE Do(get_fat(m, at.c), LAMBDA k, nxt :
         IF nxt \in Clusters THEN Ok(k, [c |-> nxt, n |-> at.n - 1]) ELSE Err(k, "INT_ERR", 0))
Seek(m, c, n) == Repeat(NFatEnt, Ok(m, [c |-> c, n |-> n]), SeekNext)
dir_sdi(m, scl, i) ==
  Do(Seek(m, IF scl = 0 THEN Root ELSE scl, i \div EPS), LAMBDA k, c :
    OnlyIf(c \in Clusters, "INT_ERR", k, LAMBDA j :
      Ok(j, [scl |-> scl, i |-> i, clust |-> c, sect |-> clst2sect(c), blk |-> NoBlk])))

Enter(m, what) == [m EXCEPT !.crit = @ \cup {what}]
Leave(m, what) == [m EXCEPT !.crit = @ \ {what}]

\* A stretched directory is on the medium before its new cluster is cleared.
dir_next(m, dp, stretch) ==
  LET at(k, c) == Ok(k, [dp EXCEPT !.i = @ + 1, !.clust = c, !.sect = clst2sect(c)]) IN
  IF (dp.i + 1) % EPS # 0 THEN at(m, dp.clust)
  ELSE Do(get_fat(m, dp.clust), LAMBDA k, c :
    IF c < 2 THEN Err(k, "INT_ERR", 0)
    ELSE IF c < NFatEnt THEN at(k, c)
    ELSE IF ~stretch THEN Err(k, "NO_FILE", 0)
    ELSE Do(create_chain(k, dp.clust), LAMBDA j, n :
           IF n = 0 THEN Err(j, "DENIED", 0)
           ELSE Do(dir_clear(Enter(j, "stretch"), n), LAMBDA h, x : at(Leave(h, "stretch"), n))))

Reserve(m, want, at) ==
  Do(move_window(m, at.dp.sect), LAMBDA k, x :
    LET free == IF Slot(k.fs.win, at.dp.i).t \in {"end", "deleted"} THEN at.n + 1 ELSE 0 IN
    IF free = want THEN Done(k, at.dp)
    ELSE Do(dir_next(k, at.dp, TRUE), LAMBDA j, d : Ok(j, [dp |-> d, n |-> free])))
dir_alloc(m, scl, n_ent) ==
  Do(dir_sdi(m, scl, 0), LAMBDA k, dp :
    Repeat(MaxEntries, Ok(k, [dp |-> dp, n |-> 0]), LAMBDA j, at : Reserve(j, n_ent, at)))

\* A name as create_name leaves it: the long name, its 8.3 form, whether it
\* needs a long entry, and whether the 8.3 form lost something.
create_name(nm) ==
  IF nm \in Names
  THEN [lfn |-> nm, sfn |-> <<Base[nm], Num[nm]>>, long |-> Long[nm], loss |-> Long[nm], dot |-> FALSE]
  ELSE [lfn |-> nm, sfn |-> <<nm, 0>>, long |-> FALSE, loss |-> FALSE, dot |-> TRUE]
\* The n-th 8.3 name of a long one, looked for as an 8.3 name only.
gen_numname(fn, n) == [fn EXCEPT !.sfn = <<fn.sfn[1], n>>, !.long = FALSE, !.loss = FALSE, !.lfn = ""]

\* A long entry belongs to the 8.3 entry after it whose checksum it holds;
\* hit is the 8.3 name that the matched long entry is for, <<>> when none.
cmp_lfn(hit, e) == hit # <<>> /\ hit = e.sfn
GoOn(m, dp, blk, hit) ==
  Do(dir_next(m, [dp EXCEPT !.blk = blk], FALSE), LAMBDA k, d : Ok(k, [dp |-> d, hit |-> hit]))
Find(m, fn, at) ==
  LET dp == at.dp IN
  Do(move_window(m, dp.sect), LAMBDA k, x :
    LET e == Slot(k.fs.win, dp.i) IN
    IF e.t = "end" THEN Err(k, "NO_FILE", 0)
    ELSE IF e.t = "deleted" THEN GoOn(k, dp, NoBlk, <<>>)
    ELSE IF e.t = "lfn"
    THEN IF fn.lfn = "" THEN GoOn(k, dp, dp.blk, at.hit)
         ELSE GoOn(k, dp, dp.i, IF e.name = fn.lfn THEN e.sfn ELSE <<>>)
    ELSE IF cmp_lfn(at.hit, e) \/ (~fn.loss /\ e.sfn = fn.sfn)
    THEN Done(k, [dp |-> dp, e |-> e]) ELSE GoOn(k, dp, NoBlk, <<>>))
dir_find(m, scl, fn) ==
  Do(dir_sdi(m, scl, 0), LAMBDA k, dp :
    Repeat(MaxEntries, Ok(k, [dp |-> dp, hit |-> <<>>]), LAMBDA j, at : Find(j, fn, at)))

\* The next object of a directory, or NO_FILE at its end.
ReadNext(m, at) ==
  LET dp == at.dp hit == at.hit IN
  Do(move_window(m, dp.sect), LAMBDA k, x :
    LET e == Slot(k.fs.win, dp.i) IN
    IF e.t = "end" THEN Err(k, "NO_FILE", 0)
    ELSE IF e.t = "deleted" \/ e.sfn[1] \in {".", ".."} THEN GoOn(k, dp, dp.blk, <<>>)
    ELSE IF e.t = "lfn" THEN GoOn(k, dp, dp.i, <<e.name, e.sfn>>)
    ELSE Done(k, [dp |-> dp, e |-> e, show |->
                    IF hit # <<>> /\ hit[2] = e.sfn THEN <<hit[1]>> ELSE e.sfn]))
dir_read(m, dp) == Repeat(MaxEntries, Ok(m, [dp |-> dp, hit |-> <<>>]), ReadNext)

SetEntry(m, dp, e) == [m EXCEPT !.fs.win = SetSlot(@, dp.i, e), !.fs.wflag = TRUE]
PutEntry(m, dp, e) == Do(move_window(m, dp.sect), LAMBDA k, x : Ok(SetEntry(k, dp, e), dp))

\* Fault: the 8.3 name made of a long one is not compared with the others.
FirstNumber(m, scl, fn) == Ok(m, gen_numname(fn, 1).sfn)
TryNumber(m, scl, fn, n) ==
  LET a == dir_find(m, scl, gen_numname(fn, n)) IN
  IF a.r = "OK" THEN Ok(a.m, n + 1)
  ELSE IF a.r = "NO_FILE" THEN Done(a.m, gen_numname(fn, n).sfn) ELSE a
NumberedName(m, scl, fn) == Repeat(MaxEntries, Ok(m, 1), LAMBDA k, n : TryNumber(k, scl, fn, n))

\* The long entry comes before the 8.3 entry.
PutLong(m, scl, fn, sfn, dp) ==
  Do(dir_sdi(m, scl, dp.i - 1), LAMBDA k, dl :
  Do(PutEntry(k, dl, Entry("lfn", fn.lfn, sfn, 0, 0)), LAMBDA j, x : dir_next(j, dl, FALSE)))
dir_register(m, scl, fn) ==
  IF fn.dot THEN Err(m, "INVALID_NAME", 0)
  ELSE Do(IF fn.loss THEN NumberedName(m, scl, fn) ELSE Ok(m, fn.sfn), LAMBDA k, sfn :
       Do(dir_alloc(k, scl, IF fn.long THEN 2 ELSE 1), LAMBDA j, dp :
       Do(IF fn.long THEN PutLong(j, scl, fn, sfn, dp) ELSE Ok(j, dp), LAMBDA h, d :
          PutEntry(h, d, Entry("file", "", sfn, 0, 0)))))

\* The entries of an object, its long name first, are marked deleted; when
\* they are in two sectors the object has its 8.3 name alone for a while.
EraseNext(m, last, dp) ==
  Do(PutEntry(m, dp, Ddem), LAMBDA k, x :
    IF dp.i >= last THEN Done(k, 0)
    ELSE LET a == dir_next(k, dp, FALSE) IN
         IF a.r = "NO_FILE" THEN Err(a.m, "INT_ERR", 0)
         ELSE Do(a, LAMBDA j, d : Ok(IF d.sect = dp.sect THEN j ELSE Enter(j, "erase"), d)))
dir_remove(m, dp) ==
  Do(IF dp.blk = NoBlk THEN Ok(m, dp) ELSE dir_sdi(m, dp.scl, dp.blk), LAMBDA k, d :
    Repeat(2, Ok(k, d), LAMBDA j, e : EraseNext(j, dp.i, e)))

-----------------------------------------------------------------------------
(* Mounting and paths.                                                     *)

\* What mount_volume takes from FSInfo, when it could read it.
Mounted(m, read) ==
  LET w == m.fs.win IN
  [m EXCEPT !.fs = [@ EXCEPT !.mounted = TRUE, !.cdir = 0,
                             !.fsi  = IF read THEN 0 ELSE 2,    \* 2: FSInfo disabled
                             !.free = IF read THEN w.free ELSE Unknown,
                             !.last = IF read THEN w.last ELSE Unknown]]
\* check_fs throws the window away before it reads the boot sector.
mount_volume(m) ==
  IF m.fs.mounted THEN Ok(m, 0)
  ELSE LET k == Tick([m EXCEPT !.fs.wflag = FALSE, !.fs.winsect = NoSector]) IN
       IF Fails(k) THEN Err(k, "NOT_READY", 0)                 \* disk_initialize
       ELSE Do(move_window(k, 0), LAMBDA j, x :
            LET a == move_window(j, 1) IN Ok(Mounted(a.m, a.r = "OK"), 0))

Follow(m, segs, at) ==
  LET scl  == at.scl
      fn   == create_name(segs[at.n])
      last == at.n = Len(segs)
      a    == dir_find(m, scl, fn)
  IN IF a.r = "OK"
     THEN IF last THEN Done(a.m, [scl |-> scl, fn |-> fn, origin |-> FALSE, dp |-> a.x.dp, e |-> a.x.e])
          ELSE IF a.x.e.t = "dir" THEN Ok(a.m, [scl |-> a.x.e.cl, n |-> at.n + 1])
          ELSE Err(a.m, "NO_PATH", 0)
     ELSE IF a.r # "NO_FILE" THEN a
     ELSE IF fn.dot THEN IF last THEN Done(a.m, [scl |-> scl, origin |-> TRUE])
                         ELSE Ok(a.m, [scl |-> scl, n |-> at.n + 1])
     ELSE IF last THEN Err(a.m, "NO_FILE", [scl |-> scl, fn |-> fn]) ELSE Err(a.m, "NO_PATH", 0)
follow_path(m, p) ==
  LET scl == IF p.abs THEN 0 ELSE m.fs.cdir IN
  IF p.segs = <<>> THEN Do(dir_sdi(m, scl, 0), LAMBDA k, x : Ok(k, [scl |-> scl, origin |-> TRUE]))
  ELSE Repeat(Len(p.segs), Ok(m, [scl |-> scl, n |-> 1]), LAMBDA k, at : Follow(k, p.segs, at))
Lookup(m, p) == Do(mount_volume(m), LAMBDA k, x : follow_path(k, p))

-----------------------------------------------------------------------------
(* Files.                                                                  *)

Fil(dp, e, mod) ==
  [dp |-> dp, scl |-> e.cl, size |-> e.size, fptr |-> 0, clust |-> 0, sect |-> 0,
   buf |-> [i \in 1..SS |-> "zero"], dirty |-> FALSE, mod |-> mod]

\* The entry is emptied in the window before its chain is freed: reading the
\* FAT moves the window, which writes the entry first.
\* Fault: the chain is freed first.
EmptyFileLate(m, dp, e) ==
  Do(IF e.cl = 0 THEN Ok(m, 0) ELSE remove_chain(m, e.cl, 0), LAMBDA k, x :
    PutEntry(k, dp, [e EXCEPT !.t = "file", !.cl = 0, !.size = 0]))
EmptyFile(m, dp, e) ==
  LET k == SetEntry(m, dp, [e EXCEPT !.t = "file", !.cl = 0, !.size = 0]) IN
  IF e.cl = 0 THEN Ok(k, 0)
  ELSE Do(remove_chain(k, e.cl, 0), LAMBDA j, x :
         LET a == move_window(j, dp.sect) IN Err([a.m EXCEPT !.fs.last = e.cl - 1], a.r, a.x))

NewFile(m, scl, fn) ==
  Do(dir_register(m, scl, fn), LAMBDA k, dp :
  LET e == Entry("file", "", Slot(k.fs.win, dp.i).sfn, 0, 0) IN
  Do(EmptyFile(k, dp, e), LAMBDA j, x : Ok(j, Fil(dp, e, TRUE))))
EmptiedFile(m, dp, e) ==
  Do(EmptyFile(m, dp, e), LAMBDA k, x : Ok(k, Fil(dp, [e EXCEPT !.cl = 0, !.size = 0], TRUE)))
\* mode: "read", "write", "new" (create, must not exist), "always" (create or empty).
f_open(m, p, mode) ==
  LET a == Lookup(m, p) IN
  IF a.r = "NO_FILE" /\ mode \in {"new", "always"} THEN NewFile(a.m, a.x.scl, a.x.fn)
  ELSE IF a.r # "OK" THEN a
  ELSE IF a.x.origin THEN Err(a.m, "INVALID_NAME", 0)
  ELSE IF mode = "new" THEN Err(a.m, "EXIST", 0)
  ELSE IF a.x.e.t = "dir" THEN Err(a.m, IF mode = "always" THEN "DENIED" ELSE "NO_FILE", 0)
  ELSE IF mode = "always" THEN EmptiedFile(a.m, a.x.dp, a.x.e)
  ELSE Ok(a.m, Fil(a.x.dp, a.x.e, FALSE))

\* A failure inside a transfer leaves the file object as it was then.
Abort(a, f) == IF a.r = "OK" THEN a ELSE Err(a.m, a.r, [f |-> f, left |-> 0, data |-> <<>>])
WriteBack(m, f) ==
  IF f.dirty THEN Do(disk_write(m, f.sect, DataSector(f.buf)), LAMBDA k, x : Ok(k, [f EXCEPT !.dirty = FALSE]))
  ELSE Ok(m, f)
Splice(old, at, n, tag) == [i \in 1..SS |-> IF i > at /\ i <= at + n THEN tag ELSE old[i]]
Smaller(a, b) == IF a < b THEN a ELSE b

\* Fault: the sector buffer is never read again.
InBufferOnce(f, s) == f.sect # 0
InBuffer(f, s) == f.sect = s
\* A turn of a transfer goes to the end of a sector; whole sectors go past the buffer.
Part(f, n)  == Smaller(SS - (f.fptr % SS), n)
Whole(f, n) == f.fptr % SS = 0 /\ n >= SS
ReadOn(m, at) ==
  LET f == at.f n == at.left
      ofs  == f.fptr % SS
      k    == Part(f, n)
      whole == Whole(f, n)
      Here == IF ofs # 0 THEN Ok(m, f.clust) ELSE IF f.fptr = 0 THEN Ok(m, f.scl) ELSE get_fat(m, f.clust)
  IN IF n = 0 THEN Done(m, at)
     ELSE Do(Abort(Here, f), LAMBDA j, c :
          Do(Abort(OnlyIf(c \in Clusters, "INT_ERR", j, LAMBDA h : Ok(h, 0)), f), LAMBDA h, x :
          LET s == clst2sect(c)
              Got(g, u) == Ok(g, [f    |-> [f EXCEPT !.clust = c, !.fptr = @ + k,
                                                     !.sect = IF whole THEN @ ELSE s,
                                                     !.buf = IF whole THEN @ ELSE u],
                                  left |-> n - k,
                                  data |-> at.data \o SubSeq(u, ofs + 1, ofs + k)])
          IN IF ~whole /\ InBuffer(f, s) THEN Got(h, f.buf)
             ELSE Do(Abort(disk_read(h, s), f), LAMBDA g, u : Got(g, Units(u)))))
f_read(m, f, n) ==
  Repeat(NFatEnt, Ok(m, [f |-> f, left |-> Smaller(n, f.size - f.fptr), data |-> <<>>]), ReadOn)

Moved(f, k) == [f EXCEPT !.fptr = @ + k, !.size = IF f.fptr + k > @ THEN f.fptr + k ELSE @]
Fit(m, f, n, tag) ==
  LET k == Part(f, n)
      g == [f EXCEPT !.buf = Splice(@, f.fptr % SS, k, tag), !.dirty = TRUE]
  IN Ok(m, [f |-> Moved(g, k), left |-> n - k])
WriteIn(m, f, s, n, tag) ==
  LET full == [i \in 1..SS |-> tag]
      g    == IF f.sect = s THEN [f EXCEPT !.buf = full] ELSE f
  IN IF s = 0 THEN Abort(Err(m, "INT_ERR", 0), f)
     ELSE IF Whole(f, n) THEN Do(Abort(disk_write(m, s, DataSector(full)), f), LAMBDA k, x :
            Ok(k, [f |-> Moved(g, SS), left |-> n - SS]))
     ELSE IF f.sect # s /\ f.fptr < f.size
     THEN Do(Abort(disk_read(m, s), f), LAMBDA k, x : Fit(k, [f EXCEPT !.sect = s, !.buf = Units(x)], n, tag))
     ELSE Fit(m, [f EXCEPT !.sect = s], n, tag)
WriteAt(m, f, c, n, tag) ==
  LET g == [f EXCEPT !.clust = c, !.scl = IF @ = 0 THEN c ELSE @]
  IN Do(Abort(WriteBack(m, g), g), LAMBDA k, h : WriteIn(k, h, clst2sect(c), n, tag))
WriteOn(m, tag, at) ==
  LET f == at.f n == at.left IN
  IF n = 0 THEN Done(m, [f |-> [f EXCEPT !.mod = TRUE], left |-> 0])
  ELSE IF f.fptr % SS # 0 THEN Fit(m, f, n, tag)
  ELSE Do(Abort(IF f.fptr > 0 THEN create_chain(m, f.clust)
                ELSE IF f.scl # 0 THEN Ok(m, f.scl) ELSE create_chain(m, 0), f), LAMBDA j, c :
       IF c = 0 THEN Done(j, [f |-> [f EXCEPT !.mod = TRUE], left |-> n]) ELSE WriteAt(j, f, c, n, tag))
f_write(m, f, n, tag) == Repeat(NFatEnt, Ok(m, [f |-> f, left |-> n]), LAMBDA k, at : WriteOn(k, tag, at))

UpdateEntry(f, e) == [e EXCEPT !.cl = f.scl, !.size = f.size]
f_sync(m, f) ==
  IF ~f.mod THEN Ok(m, 0)
  ELSE Do(WriteBack(m, f), LAMBDA k, g :
       Do(move_window(k, f.dp.sect), LAMBDA j, x :
       Do(sync_fs(SetEntry(j, f.dp, UpdateEntry(f, Slot(j.fs.win, f.dp.i)))), LAMBDA h, y :
          Ok(Leave(h, "truncate"), 0))))
f_close(m, f) == f_sync(m, f)

\* Seek to ofs of a file open for writing: the chain is stretched to it.
StretchOn(m, at) ==
  LET f == at.f IN
  IF at.ofs <= SS THEN Done(m, [f EXCEPT !.clust = at.c, !.fptr = @ + at.ofs])
  ELSE Do(Abort(create_chain(m, at.c), f), LAMBDA k, n :
         LET g == [f EXCEPT !.clust = IF n = 0 THEN at.c ELSE n, !.fptr = @ + SS] IN
         IF n = 0 THEN Done(k, g) ELSE Ok(k, [f |-> g, c |-> n, ofs |-> at.ofs - SS]))
Stretch(m, f, c, ofs) == Repeat(NFatEnt, Ok(m, [f |-> f, c |-> c, ofs |-> ofs]), StretchOn)
Load(m, f, s) ==
  Do(Abort(disk_read(m, s), f), LAMBDA k, x : Ok(k, [f EXCEPT !.sect = s, !.buf = Units(x)]))
Landed(m, f) ==
  LET g == IF f.fptr > f.size THEN [f EXCEPT !.size = f.fptr, !.mod = TRUE] ELSE f
      s == clst2sect(f.clust)
  IN IF f.fptr % SS # 0 /\ s = 0 THEN Abort(Err(m, "INT_ERR", 0), f)
     ELSE IF f.fptr % SS = 0 \/ s = f.sect THEN Ok(m, g)
     ELSE Do(Abort(WriteBack(m, g), g), LAMBDA k, h : Load(k, h, s))
f_lseek(m, f, ofs) ==
  LET z == [f EXCEPT !.fptr = 0]
      From == IF f.scl # 0 THEN Ok(m, f.scl) ELSE create_chain(m, 0)
  IN IF ofs = 0 THEN Ok(m, z)
     ELSE Do(Abort(From, z), LAMBDA k, c :
          LET g == [z EXCEPT !.scl = c] IN
          IF c = 0 THEN Landed(k, g) ELSE Do(Stretch(k, g, c, ofs), Landed))

\* Between the freed chain and the next f_sync the entry on the medium still
\* names clusters that are free.
f_truncate(m, f) ==
  LET g == [f EXCEPT !.size = f.fptr, !.mod = TRUE, !.scl = IF f.fptr = 0 THEN 0 ELSE @]
      Cut(k) ==
        IF f.fptr = 0 THEN remove_chain(Enter(k, "truncate"), f.scl, 0)
        ELSE Do(get_fat(k, f.clust), LAMBDA j, n :
               IF n < NFatEnt THEN remove_chain(Enter(j, "truncate"), n, f.clust) ELSE Ok(j, 0))
  IN IF f.fptr >= f.size THEN Ok(m, f)
     ELSE Do(Abort(Cut(m), g), LAMBDA k, x : Abort(WriteBack(k, g), g))

-----------------------------------------------------------------------------
(* Directories and names.                                                  *)

f_chdir(m, p) ==
  LET a == Lookup(m, p) IN
  IF a.r = "NO_FILE" THEN Err(a.m, "NO_PATH", 0)
  ELSE Do(a, LAMBDA k, x :
    IF x.origin THEN Ok([k EXCEPT !.fs.cdir = x.scl], 0)
    ELSE IF x.e.t = "dir" THEN Ok([k EXCEPT !.fs.cdir = x.e.cl], 0) ELSE Err(k, "NO_PATH", 0))

\* The path of a directory, found upwards: the entry of the parent whose
\* first cluster is this directory.
NameNext(m, c, dp) ==
  LET a == dir_read(m, dp) IN
  IF a.r = "NO_FILE" THEN Err(a.m, "INT_ERR", 0)
  ELSE Do(a, LAMBDA k, x : IF x.e.cl = c THEN Done(k, x.show)
                           ELSE LET b == dir_next(k, x.dp, FALSE) IN
                                IF b.r = "NO_FILE" THEN Err(b.m, "INT_ERR", 0) ELSE b)
NameOf(m, dp, c) == Repeat(MaxEntries, Ok(m, dp), LAMBDA k, d : NameNext(k, c, d))
Climb(m, at) ==
  IF at.c = 0 THEN Done(m, at.path)
  ELSE Do(dir_sdi(m, at.c, 1), LAMBDA k, dp :
       Do(move_window(k, dp.sect), LAMBDA j, x :
       LET up == Slot(j.fs.win, 1).cl IN
       Do(dir_sdi(j, up, 0), LAMBDA i, d :
       Do(NameOf(i, d, at.c), LAMBDA h, nm : Ok(h, [c |-> up, path |-> <<nm>> \o at.path])))))
f_getcwd(m) == Do(mount_volume(m), LAMBDA k, x : Repeat(NFatEnt, Ok(k, [c |-> k.fs.cdir, path |-> <<>>]), Climb))

\* What an f_opendir, f_readdir ... loop of the shell lists.
f_readdir(m, at) ==
  LET a == dir_read(m, at.dp) IN
  IF a.r = "NO_FILE" THEN Done(a.m, at.names)
  ELSE Do(a, LAMBDA k, x :
         LET b == dir_next(k, x.dp, FALSE)
             names == Append(at.names, x.show)
         IN IF b.r = "NO_FILE" THEN Done(b.m, names)
            ELSE Do(b, LAMBDA j, d : Ok(j, [dp |-> d, names |-> names])))
f_opendir(m, p) ==
  LET a == Lookup(m, p) IN
  IF a.r = "NO_FILE" THEN Err(a.m, "NO_PATH", 0)
  ELSE Do(a, LAMBDA k, x :
    IF x.origin THEN dir_sdi(k, x.scl, 0)
    ELSE IF x.e.t = "dir" THEN dir_sdi(k, x.e.cl, 0) ELSE Err(k, "NO_PATH", 0))

f_stat(m, p) == Do(Lookup(m, p), LAMBDA k, x : IF x.origin THEN Err(k, "INVALID_NAME", 0) ELSE Ok(k, x.e))

CountNext(m, at) ==
  IF at.c >= NFatEnt THEN Done(Touch([m EXCEPT !.fs.free = at.n]), at.n)
  ELSE Do(move_window(m, FatSector(at.c)), LAMBDA k, x :
    Ok(k, [c |-> at.c + 1, n |-> IF k.fs.win.fat[at.c] = 0 THEN at.n + 1 ELSE at.n]))
CountFree(m) == Repeat(NFatEnt, Ok(m, [c |-> 2, n |-> 0]), CountNext)
f_getfree(m) ==
  Do(mount_volume(m), LAMBDA k, x :
    IF k.fs.free <= NFatEnt - 2 THEN Ok(k, k.fs.free) ELSE CountFree(k))

\* Fault: a directory that is not empty may be removed; the directory the
\* shell stands in may be removed.
IsEmpty(m, c) ==
  Do(dir_sdi(m, c, 0), LAMBDA k, dp :
    LET a == dir_read(k, dp) IN
    IF a.r = "OK" THEN Err(a.m, "DENIED", 0) ELSE IF a.r = "NO_FILE" THEN Ok(a.m, 0) ELSE a)
RemovableUnlessCwd(m, c) == IF c = m.fs.cdir THEN Err(m, "DENIED", 0) ELSE Ok(m, 0)
Removable(m, c) == IF c = m.fs.cdir THEN Err(m, "DENIED", 0) ELSE IsEmpty(m, c)

f_unlink(m, p) ==
  Do(Lookup(m, p), LAMBDA k, x :
    IF x.origin \/ x.fn.dot THEN Err(k, "INVALID_NAME", 0)
    ELSE Do(IF x.e.t = "dir" THEN Removable(k, x.e.cl) ELSE Ok(k, 0), LAMBDA j, y :
         Do(dir_remove(j, x.dp), LAMBDA h, z :
         Do(IF x.e.cl = 0 THEN Ok(h, 0) ELSE remove_chain(h, x.e.cl, 0), LAMBDA i, w :
         Do(sync_fs(i), LAMBDA g, v : Ok(Leave(g, "erase"), 0))))))

\* The new table is cleared and gets its dot entries, then its name is
\* registered; when that fails the cluster is freed again.
Table(m, c, up, fn) ==
  Do(dir_clear(m, c), LAMBDA k, x :
    dir_register([k EXCEPT !.fs.win = DirSector(<<Dot(".", c), Dot("..", up)>>), !.fs.wflag = TRUE], up, fn))
f_mkdir(m, p) ==
  LET a == Lookup(m, p)
  IN IF a.r = "OK" THEN Err(a.m, "EXIST", 0)
     ELSE IF a.r # "NO_FILE" THEN a
     ELSE Do(create_chain(a.m, 0), LAMBDA k, c :
            IF c = 0 THEN Err(k, "DENIED", 0)
            ELSE LET b == Table(k, c, a.x.scl, a.x.fn) IN
                 IF b.r # "OK" THEN Err(remove_chain(b.m, c, 0).m, b.r, 0)
                 ELSE sync_fs(SetEntry(b.m, b.x, [Slot(b.m.fs.win, b.x.i) EXCEPT !.t = "dir", !.cl = c])))

\* The new entry is a copy of the old one, which is removed last: in between
\* two entries name one chain, the critical section the source marks.
\* A directory that changes its parent gets a new dot-dot entry.
Copied(m, dp, o, up) ==
  LET k == Enter(SetEntry(m, dp, [o.e EXCEPT !.sfn = Slot(m.fs.win, dp.i).sfn]), "rename")
  IN IF o.e.t = "dir" /\ o.scl # up
     THEN Do(move_window(k, clst2sect(o.e.cl)), LAMBDA j, x :
            Ok(SetEntry(j, [dp EXCEPT !.i = 1], [Slot(j.fs.win, 1) EXCEPT !.cl = up]), 0))
     ELSE Ok(k, 0)
f_rename(m, p, q) ==
  Do(Lookup(m, p), LAMBDA k, o :
    IF o.origin \/ o.fn.dot THEN Err(k, "INVALID_NAME", 0)
    ELSE LET a == follow_path(k, q)
             same == a.r = "OK" /\ ~a.x.origin /\ a.x.scl = o.scl /\ a.x.dp.i = o.dp.i
         IN IF a.r = "OK" /\ ~same THEN Err(a.m, "EXIST", 0)
            ELSE IF a.r \notin {"OK", "NO_FILE"} THEN a
            ELSE Do(dir_register(a.m, a.x.scl, a.x.fn), LAMBDA j, dp :
                   Do(Copied(j, dp, o, a.x.scl), LAMBDA h, x :
                   Do(dir_remove(h, o.dp), LAMBDA g, y :
                   Do(sync_fs(g), LAMBDA i, z : Ok(Leave(Leave(i, "rename"), "erase"), 0))))))

-----------------------------------------------------------------------------
(* What a volume holds.                                                    *)

Chain(d, c) ==
  LET from[n \in 0..NFatEnt, x \in Nat] ==
        IF n = 0 \/ x \notin Clusters THEN <<>> ELSE <<x>> \o from[n - 1, Fat(d, x)]
  IN from[NFatEnt, c]
\* The k parts of every sector of a chain, in order.
Parts(d, cs, k, F(_, _)) ==
  [i \in 1..(k * Len(cs)) |-> F(d[clst2sect(cs[(i - 1) \div k + 1])], (i - 1) % k)]
Live(d, scl) ==
  LET es == Parts(d, Chain(d, IF scl = 0 THEN Root ELSE scl), EPS, Slot)
      Before(i) == \A j \in 1..i : es[j].t # "end"
      Shown(i) == IF i > 1 /\ es[i - 1].t = "lfn" /\ es[i - 1].sfn = es[i].sfn
                  THEN <<es[i - 1].name>> ELSE es[i].sfn
  IN {[name |-> Shown(i), e |-> es[i]] : i \in
        {i \in DOMAIN es : es[i].t \in {"file", "dir"} /\ es[i].sfn[1] \notin {".", ".."} /\ Before(i)}}
In(d, scl, path) == {[path |-> Append(path, o.name), up |-> scl, e |-> o.e] : o \in Live(d, scl)}
Objects(d) ==
  LET upto[n \in 0..NFatEnt] ==
        IF n = 0 THEN In(d, 0, <<>>)
        ELSE UNION {{o} \cup (IF o.e.t = "dir" /\ Len(o.path) = n THEN In(d, o.e.cl, o.path) ELSE {}) :
                      o \in upto[n - 1]}
  IN upto[NFatEnt]
DataOf(d, e) == IF e.t = "dir" THEN <<>> ELSE SubSeq(Parts(d, Chain(d, e.cl), SS, LAMBDA x, i : Units(x)[i + 1]), 1, e.size)

\* The volume as its user sees it, and as the medium would show it after a cut.
Window == IF fs.wflag THEN [disk EXCEPT ![fs.winsect] = fs.win] ELSE disk
TreeOf(d) == {[path |-> o.path, dir |-> o.e.t = "dir", data |-> DataOf(d, o.e)] : o \in Objects(d)}

Sound(d) ==
  LET objs == Objects(d)
      tops == {Root} \cup {o.e.cl : o \in {o \in objs : o.e.cl # 0}}
      used == UNION {ToSet(Chain(d, c)) : c \in tops}
      Size(c) == Len(Chain(d, c))
  IN /\ \A c \in tops : c \in Clusters /\ Fat(d, Chain(d, c)[Size(c)]) = EOC
     /\ \A o1, o2 \in objs : o1 # o2 /\ o1.e.cl # 0 =>
          ToSet(Chain(d, o1.e.cl)) \cap ToSet(Chain(d, o2.e.cl)) = {}
     /\ \A o \in objs : ToSet(Chain(d, o.e.cl)) \cap ToSet(Chain(d, Root)) = {}
     /\ \A o \in objs :
          IF o.e.t = "dir"
          THEN LET x == d[clst2sect(o.e.cl)] IN
               Slot(x, 0) = Dot(".", o.e.cl) /\ Slot(x, 1).cl = o.up
          ELSE o.e.size <= SS * Size(o.e.cl)
Used(d) == UNION {ToSet(Chain(d, c)) : c \in {Root} \cup {o.e.cl : o \in Objects(d)}}

\* f_rename does not notice that a directory is moved below itself, which
\* cuts it off the tree: a program must not ask for it.
Absolute(m, p) ==
  LET d  == IF m.fs.wflag THEN [m.disk EXCEPT ![m.fs.winsect] = m.fs.win] ELSE m.disk
      up == {o.path : o \in {o \in Objects(d) : o.e.t = "dir" /\ o.e.cl = m.fs.cdir}}
  IN (IF p.abs \/ up = {} THEN <<>> ELSE CHOOSE path \in up : TRUE) \o
     [i \in DOMAIN p.segs |-> IF Long[p.segs[i]] THEN <<p.segs[i]>> ELSE <<Base[p.segs[i]], Num[p.segs[i]]>>]
Below(m, p, q) == IsStrictPrefix(Absolute(m, p), Absolute(m, q))

-----------------------------------------------------------------------------
(* The shell's commands, and programs for the calls it does not make yet.  *)
(* A program runs from a machine to a machine and a reply: synced says     *)
(* that it ended with a successful sync, keep that it changed nothing.     *)

RamOff == [mounted |-> FALSE, win |-> Blank, winsect |-> NoSector, wflag |-> FALSE,
           free |-> Unknown, last |-> Unknown, fsi |-> 0, cdir |-> 0]
Reply(c, p, ok, data, synced) == [cmd |-> c, path |-> p, ok |-> ok, data |-> data, synced |-> synced]
Answer(a, c, p, data) == [m |-> a.m, rep |-> Reply(c, p, a.r = "OK", data, a.r = "OK")]
Look(a, c, p) == [m |-> a.m, rep |-> Reply(c, p, a.r = "OK", IF a.r = "OK" THEN a.x ELSE <<>>, a.m.synced)]

Start(n, cut) == [disk |-> disk, fs |-> fs, n |-> 0, fault |-> n, cut |-> cut, crit |-> crit,
                  synced |-> reply.synced]
Finish(a, cut) ==
  /\ disk' = a.m.disk /\ crit' = a.m.crit
  /\ fs' = IF cut THEN RamOff ELSE a.m.fs
  /\ reply' = IF cut THEN Reply("off", <<>>, FALSE, <<>>, TRUE) ELSE a.rep
Run(name, Prog(_)) ==
  /\ name \in Commands /\ (fs.mounted <=> name # "boot") /\ crit = {}
  /\ count < MaxCommands /\ count' = count + 1
  /\ LET clean == Prog(Start(0, FALSE)) IN
     \/ Finish(clean, FALSE) /\ UNCHANGED faults
     \/ /\ faults < MaxFaults /\ faults' = faults + 1
        /\ \E n \in 1..clean.m.n, cut \in BOOLEAN : Finish(Prog(Start(n, cut)), cut)

TouchFile(m, p) == Answer(Do(f_open(m, p, "new"), f_close), "touch", p, <<>>)
cmd_touch(p) == Run("touch", LAMBDA m : TouchFile(m, p))

\* cmd_write does not look at what f_close returns.
WriteFile(m, p, n, tag) ==
  LET o == f_open(m, p, "write")
      w == f_write(o.m, o.x, n, tag)
      c == f_close(w.m, w.x.f)
  IN IF o.r # "OK" THEN [m |-> o.m, rep |-> Reply("write", p, FALSE, <<>>, FALSE)]
     ELSE [m |-> c.m, rep |-> Reply("write", p, w.r = "OK" /\ w.x.left = 0, <<>>, w.r = "OK" /\ c.r = "OK")]
cmd_write(p, n, tag) == Run("write", LAMBDA m : WriteFile(m, p, n, tag))

\* A read of n units at a time until none are left.
CatNext(m, n, at) ==
  Do(f_read(m, at.f, n), LAMBDA k, x :
    IF x.data = <<>> THEN Done(k, at.data) ELSE Ok(k, [f |-> x.f, data |-> at.data \o x.data]))
CatLoop(m, f, n) == Repeat(MaxUnits, Ok(m, [f |-> f, data |-> <<>>]), LAMBDA k, at : CatNext(k, n, at))
Cat(m, p, n) == Do(f_open(m, p, "read"), LAMBDA k, f : CatLoop(k, f, n))
cmd_cat(p, n) == Run("cat", LAMBDA m : Look(Cat(m, p, n), "cat", p))

cmd_mkdir(p) == Run("mkdir", LAMBDA m : Answer(f_mkdir(m, p), "mkdir", p, <<>>))
cmd_rm(p)    == Run("rm", LAMBDA m : Answer(f_unlink(m, p), "rm", p, <<>>))
cmd_cd(p)    == Run("cd", LAMBDA m : Look(f_chdir(m, p), "cd", p))
cmd_pwd      == Run("pwd", LAMBDA m : Look(f_getcwd(m), "pwd", <<>>))
ListDir(m, p) ==
  Do(f_opendir(m, p), LAMBDA k, dp : Repeat(MaxEntries, Ok(k, [dp |-> dp, names |-> <<>>]), f_readdir))
cmd_ls(p)    == Run("ls", LAMBDA m : Look(ListDir(m, p), "ls", p))

\* f_mount at boot and, when it succeeds, the self-test's file: written,
\* closed, opened again and compared.
TestPath == [abs |-> TRUE, segs |-> <<"knltest">>]
SelfTest(m) ==
  LET o == f_open(m, TestPath, "always")
      w == f_write(o.m, o.x, 1, "payload")
      c == f_close(w.m, w.x.f)
      b == IF w.r = "OK" /\ w.x.left = 0 THEN f_open(c.m, TestPath, "read") ELSE Err(c.m, "FAIL", 0)
      d == Do(b, LAMBDA k, f : f_read(k, f, 2))
      ok == d.r = "OK" /\ d.x.data = <<"payload">>
  IN IF o.r # "OK" THEN [m |-> o.m, rep |-> Reply("boot", <<>>, FALSE, <<>>, FALSE)]
     ELSE [m |-> d.m, rep |-> Reply("boot", TestPath, ok, <<>>, w.r = "OK" /\ c.r = "OK" /\ ok)]
kernel_main == Run("boot", LAMBDA m :
  LET a == mount_volume(m) IN
  IF a.r = "OK" THEN SelfTest(a.m) ELSE [m |-> a.m, rep |-> Reply("boot", <<>>, FALSE, <<>>, FALSE)])

TruncateFile(m, p, n) ==
  LET o == f_open(m, p, "write")
      l == f_lseek(o.m, o.x, n)
      t == f_truncate(l.m, l.x)
      f == IF t.r = "OK" THEN t.x ELSE t.x.f
      c == f_close(t.m, f)
  IN IF o.r # "OK" THEN [m |-> o.m, rep |-> Reply("truncate", p, FALSE, <<>>, FALSE)]
     ELSE IF l.r # "OK" THEN [m |-> f_close(l.m, l.x.f).m, rep |-> Reply("truncate", p, FALSE, <<>>, FALSE)]
     ELSE [m |-> c.m, rep |-> Reply("truncate", p, t.r = "OK", <<>>,
                                        t.r = "OK" /\ c.r = "OK" /\ f.mod)]
Truncate(p, n) == Run("truncate", LAMBDA m : TruncateFile(m, p, n))
RenameFile(m, p, q) ==
  IF Below(m, p, q) THEN Look(Err(m, "INVALID_NAME", 0), "rename", q)
  ELSE Answer(f_rename(m, p, q), "rename", q, <<>>)
Rename(p, q) == Run("rename", LAMBDA m : RenameFile(m, p, q))
Stat(p)      == Run("stat", LAMBDA m : Look(f_stat(m, p), "stat", p))
GetFree      == Run("getfree", LAMBDA m : Look(f_getfree(m), "getfree", <<>>))

\* Power is cut between two commands.
PowerCut ==
  /\ faults < MaxFaults /\ faults' = faults + 1 /\ fs.mounted
  /\ fs' = RamOff /\ reply' = Reply("off", <<>>, FALSE, <<>>, TRUE)
  /\ UNCHANGED <<disk, count, crit>>

Init ==
  /\ disk \in Volumes
  /\ fs = RamOff
  /\ reply = Reply("off", <<>>, FALSE, <<>>, TRUE)
  /\ faults = 0 /\ count = 0 /\ crit = {}

Next ==
  \/ kernel_main
  \/ \E p \in Paths : cmd_touch(p) \/ cmd_mkdir(p) \/ cmd_rm(p) \/ cmd_cd(p) \/ cmd_ls(p) \/ Stat(p)
  \/ \E p \in Paths, n \in Lengths : cmd_cat(p, n) \/ Truncate(p, n)
  \/ \E p \in Paths, n \in Lengths, tag \in Tags : cmd_write(p, n, tag)
  \/ \E p, q \in Paths : Rename(p, q)
  \/ cmd_pwd \/ GetFree \/ PowerCut

Spec == Init /\ [][Next]_vars

-----------------------------------------------------------------------------
(* Properties.                                                             *)

\* The values the volume's parts can take.
TypeOK ==
  /\ DOMAIN disk = Sectors /\ \A s \in Sectors : Holds(s, disk[s])
  /\ fs.winsect \in Sectors \cup {NoSector}
  /\ fs.free \in Counts /\ fs.last \in Lasts
  /\ fs.wflag => fs.mounted
  /\ crit \subseteq {"stretch", "rename", "truncate", "erase"}

\* Wherever a command fails or the power is cut, no two names reach one
\* cluster, no chain runs into a free cluster, every directory has its dot
\* entries and every file as many clusters as its size needs, on the medium
\* and as the library sees it.  ff.c orders its writes for this: remove_chain
\* (1444) and create_chain (1539) move the window off the directory entry.
\* crit names the four stretches of code where the order does not hold.
\* Without a failure no cluster is lost either: every one that no name reaches
\* is free.
VolumeSound ==
  /\ crit = {} => Sound(disk) /\ Sound(Window)
  /\ faults = 0 => FreeClusters(Window) = Clusters \ Used(Window)

\* Without a failure the count that f_getfree (4939) and create_chain trust is
\* exact: remove_chain, create_chain and f_getfree keep it beside the FAT that
\* they change in the window, and it comes from the FSInfo sector at mount.
\* Both FATs are the same once the window is clean.
SpaceAccounted ==
  /\ TypeOK
  /\ faults = 0 =>
       /\ fs.free \in {Unknown, Cardinality(FreeClusters(Window))}
       /\ ~fs.wflag => \A s \in FatBase..(FatBase + FSize - 1) : Mirrored(disk, s)

\* What a command reported done and synced (f_sync 4218, f_unlink 5161,
\* f_mkdir 5242, f_rename 5362) is on the medium, and stays there until the
\* next command changes it: a power cut loses nothing of it.
SyncedIsStored == crit = {} /\ reply.synced => TreeOf(disk) = TreeOf(Window)

\* A name, long or 8.3, means one object of its directory, so dir_find
\* (2412) finds the object that dir_register (2494) made.
NamesDiffer ==
  crit = {} => \A o1, o2 \in Objects(Window) :
    o1.up = o2.up /\ o1 # o2 => o1.e.sfn # o2.e.sfn /\ o1.path # o2.path

\* The directory the shell stands in exists, so that the path f_getcwd
\* (4419) climbs to is the path that leads to it.
CwdExists ==
  crit = {} =>
    /\ fs.cdir = 0 \/ \E o \in Objects(Window) : o.e.t = "dir" /\ o.e.cl = fs.cdir
    /\ reply.cmd = "pwd" /\ reply.ok =>
         IF reply.data = <<>> THEN fs.cdir = 0
         ELSE \E o \in Objects(Window) : o.path = reply.data /\ o.e.cl = fs.cdir

\* A path leads the shell to one object and back: names are unambiguous and
\* the way up from the current directory is the way down to it, whatever was
\* removed, renamed or numbered in between.
PathsLead == NamesDiffer /\ CwdExists

\* cat shows the file: what f_read (3996) returned, sector by sector through
\* the buffer or directly, is what the volume holds under the name.
CatShowsTheFile ==
  crit = {} /\ reply.cmd = "cat" /\ reply.ok =>
    \E o \in Objects(Window) : o.e.t = "file" /\ DataOf(Window, o.e) = reply.data

\* Tree!Spec, where a step that leaves the medium and the window alone need
\* not be looked at: the volume is a tree of which a command changes one object, and of which
\* a power cut undoes only what was not stored.
Tree == INSTANCE FileTree WITH tree <- TreeOf(Window), stable <- TreeOf(disk), damaged <- crit # {}
IsFileTree == Tree!Init /\ [][UNCHANGED <<disk, Window>> \/ Tree!Next]_vars
=============================================================================
