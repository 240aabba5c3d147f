------------------------------ MODULE MCFatFs -------------------------------
(***************************************************************************)
(* FatFs on a volume of five data clusters, two FAT sectors and directory  *)
(* sectors of four entries.  One name is 8.3, two are long with the same   *)
(* 8.3 beginning, one is the 8.3 name that the first long one would get.   *)
(***************************************************************************)
EXTENDS FatFs

MCNames == {"a", "l1", "d", "knltest", "l~1"}
MCBase == [n \in MCNames |-> CASE n \in {"l1", "l~1"} -> "l" [] OTHER -> n]
MCNum  == [n \in MCNames |-> IF n = "l~1" THEN 1 ELSE 0]
MCLong == [n \in MCNames |-> n = "l1"]

Here(segs) == [abs |-> FALSE, segs |-> segs]
MCPaths == {Here(<<"a">>), Here(<<"l1">>), [abs |-> TRUE, segs |-> <<"d">>], Here(<<"d", "a">>)}

\* The medium with these FAT links, directory sectors and data in the rest.
Volume(links, dirs, data, free) ==
  LET fat == [c \in 0..(NFatEnt - 1) |->
               IF c \in DOMAIN links THEN links[c] ELSE IF c < 2 THEN EOC ELSE 0]
  IN [s \in 0..(DataBase + NFatEnt - 3) |->
       CASE s = 0 -> [k |-> "vbr"]
         [] s = 1 -> FsInfo(free, 2)
         [] InFat(s) -> FatSect(fat, s)
         [] s < DataBase /\ s > 1 /\ ~InFat(s) -> FatSect(fat, s - FSize)
         [] OTHER -> IF s - DataBase + 2 \in DOMAIN dirs THEN DirSector(dirs[s - DataBase + 2])
                     ELSE DataSector(data)]

\* An empty volume whose free count is not known; one with a file in two
\* clusters that are not next to each other; one with the self-test's file of
\* an earlier boot, an empty directory and the 8.3 name that "l1" asks for;
\* one with a file in a directory and a root sector with one entry left.
Empty == Volume(2 :> EOC, 2 :> <<>>, Junk, Unknown)
File  == Volume(2 :> EOC @@ 3 :> 5 @@ 5 :> EOC,
                2 :> <<Ddem, Entry("file", "", <<"a", 0>>, 3, SS + 1)>>, [i \in 1..SS |-> "pc"], NFatEnt - 5)
Old   == Volume(2 :> EOC @@ 3 :> 5 @@ 5 :> EOC @@ 4 :> EOC,
                2 :> <<Entry("file", "", <<"l", 1>>, 0, 0), Entry("file", "", <<"knltest", 0>>, 3, SS + 1),
                       Entry("dir", "", <<"d", 0>>, 4, 0)>>
                @@ 4 :> <<Dot(".", 4), Dot("..", 0)>>, [i \in 1..SS |-> "pc"], NFatEnt - 6)
Dirs  == Volume(2 :> EOC @@ 3 :> EOC @@ 4 :> EOC,
                2 :> <<Entry("lfn", "l1", <<"l", 1>>, 0, 0), Entry("file", "", <<"l", 1>>, 0, 0),
                       Entry("dir", "", <<"d", 0>>, 3, 0)>>
                @@ 3 :> <<Dot(".", 3), Dot("..", 0), Entry("file", "", <<"a", 0>>, 4, 1)>>,
                [i \in 1..SS |-> "pc"], NFatEnt - 5)
MCVolumes == {Empty, File, Old, Dirs}
=============================================================================
