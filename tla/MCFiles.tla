------------------------------ MODULE MCFiles ------------------------------
(***************************************************************************)
(* Files: one file that is read and seeked ("data"), the table of          *)
(* descriptors ("table"), and the file systems of the loader and of boot2  *)
(* on small disks made here ("fs", of which fsPart is one).  A behaviour   *)
(* is about one of them (filesPart).                                       *)
(***************************************************************************)
EXTENDS TLC, Files, OpenFiles, Dosfs, Cd9660, Hammer1, Hammer2, Ffs

VARIABLE fsPart

(* ufs.c, ext2fs.c and ufsread.c *)
\* A directory, another in it, links and a file with every kind of block.
Dirent(n, i) == Unit(n, i)
Byte(k) == Unit("byte", k)
Reg(size, db, ib) == [type |-> "reg", size |-> size, db |-> db, ib |-> ib]
Dir(size, db, ib) == [type |-> "dir", size |-> size, db |-> db, ib |-> ib]
Lnk(abs, comps) == [type |-> "lnk", size |-> 0, db |-> <<0>>, ib |-> <<0, 0>>,
                    link |-> [abs |-> abs, comps |-> comps]]
MCInodes ==
    2 :> Dir(5, <<1>>, <<2, 0>>) @@ 3 :> Dir(2, <<5>>, <<0, 0>>) @@
    4 :> Reg(13, <<10>>, <<20, 21>>) @@ 5 :> Reg(1, <<17>>, <<0, 0>>) @@
    6 :> Lnk(FALSE, <<"f">>) @@ 7 :> Lnk(TRUE, <<"d">>) @@ 8 :> Lnk(FALSE, <<"loop">>)
MCDisk ==
    1 :> <<Dirent("d", 3), Dirent("f", 0)>> @@ 2 :> <<3, 4>> @@
    3 :> <<Dirent("f", 4), Dirent("up", 7)>> @@ 4 :> <<Dirent("loop", 8), Dirent("?", 0)>> @@
    5 :> <<Dirent("rel", 6), Dirent("f", 5)>> @@
    20 :> <<11, 0>> @@ 21 :> <<22, 23>> @@ 22 :> <<12, 13>> @@ 23 :> <<14, 0>> @@
    10 :> <<Byte(100), Byte(101)>> @@ 11 :> <<Byte(102), Byte(103)>> @@ 12 :> <<Byte(104), Byte(105)>> @@ 13 :> <<Byte(106), Byte(107)>> @@
    14 :> <<Byte(108), Byte(109)>> @@ 17 :> <<Byte(110), Byte(111)>>
MCPaths == {<<>>, <<"f">>, <<"d", "rel">>, <<"up", "rel">>, <<"loop">>, <<"up">>, <<"f", "f">>, <<"x">>}

(* dosfs.c *)
De(name, chk, dir, clus, size) == [Nothing EXCEPT !.kind = "de", !.name = name, !.chk = chk, !.dir = dir, !.clus = clus, !.size = size]
Xde(name, seq, last, chk) == [Nothing EXCEPT !.kind = "xde", !.name = name, !.seq = seq, !.last = last, !.chk = chk]
FreeEntry == [Nothing EXCEPT !.kind = "free"]
DByte(i) == [Nothing EXCEPT !.kind = "byte", !.clus = i]
Bpb12 == [sig |-> TRUE, spc |-> 2, spf |-> 3, lspf |-> 0, fats |-> 2, dirents |-> 6, rdcl |-> 0, ressec |-> 1, secs |-> 20, lsecs |-> 0]
Bpb32 == [Bpb12 EXCEPT !.spc = 1, !.spf = 0, !.lspf = 12, !.fats = 1, !.rdcl = 3, !.secs = 0, !.lsecs = 24]
MCVolumes ==
  << [bpb |-> Bpb12,
     fat |-> 2 :> 4 @@ 3 :> 99 @@ 4 :> 99 @@ 5 :> 99,
     data |-> 7 :> <<Xde("b", 2, TRUE, 7), Xde("a", 1, FALSE, 7)>> @@ 8 :> <<De("AB", 7, FALSE, 2, 7), Xde("old", 1, TRUE, 5)>>
              @@ 9 :> <<De("D", 6, TRUE, 3, 0), Nothing>>
              @@ 10 :> <<DByte(1), DByte(2)>> @@ 11 :> <<DByte(3), DByte(4)>>
              @@ 14 :> <<DByte(5), DByte(6)>> @@ 15 :> <<DByte(7), DByte(8)>>
              @@ 12 :> <<FreeEntry, De("..", 1, TRUE, 0, 0)>> @@ 13 :> <<De("old", 3, FALSE, 5, 1), De("E", 3, FALSE, 0, 0)>>
              @@ 16 :> <<DByte(9), DByte(9)>>],
    [bpb |-> Bpb32,
     fat |-> 3 :> 5 @@ 5 :> 99 @@ 4 :> 99 @@ 6 :> 8 @@ 8 :> 99 @@ 9 :> 99,
     data |-> 14 :> <<De("D", 2, TRUE, 9, 0), Xde("b", 2, TRUE, 7)>> @@ 16 :> <<Xde("a", 1, FALSE, 7), De("AB", 7, FALSE, 6, 3)>>
              @@ 17 :> <<DByte(1), DByte(2)>> @@ 19 :> <<DByte(3), DByte(4)>> @@ 20 :> <<De("old", 1, FALSE, 4, 2), De("..", 2, TRUE, 0, 0)>>
              @@ 15 :> <<DByte(5), DByte(6)>>],
    [bpb |-> [Bpb12 EXCEPT !.ressec = 0], fat |-> 2 :> 99, data |-> 1 :> <<Nothing, Nothing>>] >>
MCDosPaths == {<<>>, << <<"a", "b">> >>, << <<"AB">> >>, << <<"D">>, <<"old">> >>, << <<"old">> >>, << <<"D">>, <<"..">>, <<"AB">> >>, << <<"AB">>, <<"AB">> >>}

(* cd9660.c *)
Iso(b) == [base |-> b, up |-> TRUE]
Low(b) == [base |-> b, up |-> FALSE]
CRec(len, iso, rr, cont, sp, dir, extent, size) == [len |-> len, iso |-> Iso(iso), rr |-> rr, cont |-> cont, sp |-> sp, dir |-> dir, extent |-> extent, size |-> size]
Vd(id, type, bsize) == [id |-> id, type |-> type, bsize |-> bsize]
CByte(i) == [NoRec EXCEPT !.extent = i]
CBlocks(sp) ==
  20 :> <<CRec(1, "dot", NoName, FALSE, sp, TRUE, 20, 8), CRec(2, "A", Low("long"), FALSE, FALSE, FALSE, 30, 6), NoRec, NoRec>> @@
  21 :> <<CRec(2, "D", Iso("D"), TRUE, FALSE, TRUE, 25, 4), NoRec, CRec(1, "B", NoName, FALSE, FALSE, FALSE, 32, 1), NoRec>> @@
  25 :> <<CRec(1, "dot", NoName, FALSE, FALSE, TRUE, 25, 4), CRec(2, "C", Iso("C"), FALSE, FALSE, FALSE, 32, 2), NoRec, CRec(1, "E", NoName, FALSE, FALSE, FALSE, 30, 2)>> @@
  30 :> <<CByte(1), CByte(2), CByte(3), CByte(4)>> @@ 31 :> <<CByte(5), CByte(6), CByte(0), CByte(0)>> @@ 32 :> <<CByte(7), CByte(8), CByte(0), CByte(0)>>
CRoot == CRec(1, "root", NoName, FALSE, FALSE, TRUE, 20, 8)
MCDiscs == <<[vds |-> <<Vd("CD001", "other", 4), Vd("CD001", "primary", 4)>>, blocks |-> CBlocks(TRUE), root |-> CRoot],
             [vds |-> <<Vd("CD001", "primary", 4)>>, blocks |-> CBlocks(FALSE), root |-> CRoot],
             [vds |-> <<Vd("CD001", "end", 4)>>, blocks |-> CBlocks(FALSE), root |-> CRoot]>>
MCCdPaths == {<<>>, <<Low("long")>>, <<Iso("A")>>, <<Low("d"), Iso("C")>>, <<Iso("D"), Low("C")>>, <<Iso("D")>>, <<Iso("B")>>, <<Iso("B"), Iso("B")>>, <<Iso("D"), Iso("E")>>}

(* hammer1.c *)
El(loc, obj, type, key, tid, del, data, len, sub) == [loc |-> loc, obj |-> obj, type |-> type, key |-> key, tid |-> tid, del |-> del, data |-> data, len |-> len, sub |-> sub]
Sub(loc, obj, type, key, sub) == El(loc, obj, type, key, 0, 0, 0, 0, sub)
HNode(internal, count, elms) == [internal |-> internal, count |-> count, elms |-> elms]
HIno(size, cap) == [size |-> size, cap |-> cap]
HEnt(name, obj) == [name |-> name, obj |-> obj]
MCHamDisk ==
  0 :> [vol |-> 0] @@
  4 :> HNode(TRUE, 3, <<Sub(0, 0, 0, 0, 8), Sub(1, 2, 1, 0, 12), Sub(2, 2, 0, 0, 16), Sub(9, 0, 0, 0, 0)>>) @@
  8 :> HNode(FALSE, 4, <<El(1, 1, 1, 0, 1, 0, 20, 1, 0), El(1, 1, 3, 5, 1, 4, 24, 1, 0), El(1, 1, 3, 5, 5, 0, 25, 1, 0), El(1, 1, 3, 8, 2, 0, 26, 1, 0)>>) @@
  12 :> HNode(FALSE, 2, <<El(1, 2, 1, 0, 1, 0, 21, 1, 0), El(1, 3, 1, 0, 1, 0, 22, 1, 0)>>) @@
  16 :> HNode(FALSE, 5, <<El(2, 2, 3, 6, 1, 0, 27, 1, 0), El(2, 3, 2, 3, 1, 0, 28, 3, 0), El(2, 3, 2, 11, 1, 0, 32, 6, 0), El(2, 9, 2, 1, 1, 0, 31, 1, 0), El(2, 9, 2, 2, 1, 0, 31, 1, 0)>>) @@
  20 :> HIno(0, TRUE) @@ 21 :> HIno(0, FALSE) @@ 22 :> HIno(12, FALSE) @@
  24 :> HEnt("f", 7) @@ 25 :> HEnt("f", 3) @@ 26 :> HEnt("d", 2) @@ 27 :> HEnt("g", 3) @@
  [a \in 28 .. 31 |-> a] @@ [a \in 32 .. 37 |-> a]
MCHamNodes == {4, 8, 12, 16}
MCHamPaths == {<<>>, <<"f">>, <<"d", "g">>, <<"x">>, <<"d", "f">>, <<"d">>, <<"f", "f">>}

(* hammer2.c *)
Ref(type, off, key, span) == [type |-> type, off |-> off, key |-> key, span |-> span]
Ino(name, size, refs) == [H2NoBlock EXCEPT !.name = name, !.size = size, !.refs = refs]
IDir(name, refs) == [H2NoBlock EXCEPT !.name = name, !.dir = TRUE, !.refs = refs]
Ind(refs) == [H2NoBlock EXCEPT !.refs = refs]
Dat(bytes) == [H2NoBlock EXCEPT !.bytes = bytes]
H2Vol(magic, tid, root) == [magic |-> magic, tid |-> tid, set |-> <<Ref("inode", root, 0, 1)>>]
H2Blocks(x) ==
  10 :> IDir("sroot", <<Ref("inode", 11, 1, 1)>>) @@
  11 :> IDir("BOOT", <<Ref("indirect", 12, 8, 8), Ref("inode", 15, 4, 1)>>) @@
  12 :> Ind(<<Ref("inode", 14, 9, 1), Ref("inode", 13, 8, 1)>>) @@
  13 :> Ino("a", 9, <<Ref("indirect", 20, 4, 4), Ref("data", 22, 0, 2), Ref("indirect", 21, 8, 4)>>) @@
  14 :> [Ino("b", 3, <<>>) EXCEPT !.embedded = TRUE, !.bytes = <<x + 1, x + 2, x + 3>>] @@
  15 :> IDir("d", <<Ref("inode", 13, 8, 1)>>) @@
  20 :> Ind(<<Ref("none", 0, 0, 1), Ref("data", 23, 6, 2)>>) @@ 21 :> Ind(<<Ref("data", 24, 8, 2)>>) @@
  22 :> Dat(<<x + 10, x + 11>>) @@ 23 :> Dat(<<x + 12, x + 13>>) @@ 24 :> Dat(<<x + 14, x + 15>>)
MCH2Disks == <<[vols |-> <<H2Vol(TRUE, 3, 99), H2Vol(TRUE, 5, 10), H2Vol(FALSE, 9, 98)>>, blocks |-> H2Blocks(100)],
               [vols |-> <<H2Vol(TRUE, 5, 10)>>, blocks |-> H2Blocks(200)]>>
MCH2Hash == "a" :> 8 @@ "b" :> 8 @@ "d" :> 4 @@ "x" :> 12
MCH2Paths == {<<>>, <<"b">>, <<"d", "a">>, <<"x">>}

-----------------------------------------------------------------------------
fsVars == <<fsPart, ffsVars, ufsreadVars, dosVars, cdVars, hamVars, h2Vars>>

FsInit ==
    /\ fsPart \in {"ffs", "ufsread", "dosfs", "cd9660", "hammer1", "hammer2"}
    /\ FfsInit /\ UfsreadInit /\ DosInit /\ CdInit /\ HamInit /\ H2Init
    /\ fsPart # "ffs" => fsType = "ufs" /\ spb = 2
    /\ fsPart # "dosfs" => volNo = 1
    /\ fsPart # "cd9660" => disc = 1

FsNext ==
    /\ \/ fsPart = "ffs" /\ FfsNext /\ UNCHANGED <<ufsreadVars, dosVars, cdVars, hamVars, h2Vars>>
       \/ fsPart = "ufsread" /\ UfsreadNext /\ UNCHANGED <<ffsVars, dosVars, cdVars, hamVars, h2Vars>>
       \/ fsPart = "dosfs" /\ DosNext /\ UNCHANGED <<ffsVars, ufsreadVars, cdVars, hamVars, h2Vars>>
       \/ fsPart = "cd9660" /\ CdNext /\ UNCHANGED <<ffsVars, ufsreadVars, dosVars, hamVars, h2Vars>>
       \/ fsPart = "hammer1" /\ HamNext /\ UNCHANGED <<ffsVars, ufsreadVars, dosVars, cdVars, h2Vars>>
       \/ fsPart = "hammer2" /\ H2Next /\ UNCHANGED <<ffsVars, ufsreadVars, dosVars, cdVars, hamVars>>
    /\ UNCHANGED fsPart

\* What read() gives is what the blocks of the file hold, in every file system,
\* whatever earlier calls left in its buffers: ufs.c and ext2fs.c (indirect
\* blocks), ufsread.c, dosfs.c (cluster chains), cd9660.c, hammer1.c and
\* hammer2.c (B-tree nodes and data through one cache).
FsReadRight ==
    CASE fsPart = "ffs" -> FfsReadRight [] fsPart = "ufsread" -> UfsreadRight
      [] fsPart = "dosfs" -> DosReadRight [] fsPart = "cd9660" -> CdReadRight
      [] fsPart = "hammer1" -> HamReadRight [] fsPart = "hammer2" -> H2ReadRight

\* open() finds the file that the path means and no other, in every file
\* system: symbolic links, long names, Rock Ridge names, hashed entries.
FsFindRight ==
    CASE fsPart = "ffs" -> FfsWalkRight [] fsPart = "ufsread" -> UfsLookupRight
      [] fsPart = "dosfs" -> DosFindRight [] fsPart = "cd9660" -> CdFindRight
      [] fsPart = "hammer1" -> HamFindRight [] fsPart = "hammer2" -> H2FindRight

\* A path leads to its file and the file to its bytes, in every file system.
FsRight == FsReadRight /\ FsFindRight

-----------------------------------------------------------------------------
MCBounds == <<0, 2, 5, 6>>
MCDisks == SUBSET ({[dev |-> "disk", name |-> n] :
                       n \in {<<>>, <<"gz">>, <<"split">>, <<"gz", "split">>, <<"bz2">>, Slice}}
                   \cup {[dev |-> "cd", name |-> <<>>]})

VARIABLE filesPart
allVars == <<filesPart, vars, openVars, fsVars>>

TableIdle == files = [fd \in Fds |-> Unused] /\ held = {} /\ exists = {} /\ nomem = 0
FsIdle == FsInit /\ fsPart = "ffs" /\ fsType = "ufs" /\ spb = 2
MCInit ==
    \/ filesPart = "data" /\ Init /\ TableIdle /\ FsIdle
    \/ filesPart = "table" /\ Init /\ OpenInit /\ FsIdle
    \/ filesPart = "fs" /\ Init /\ TableIdle /\ FsInit
MCNext ==
    /\ \/ filesPart = "data" /\ Next /\ UNCHANGED <<openVars, fsVars>>
       \/ filesPart = "table" /\ OpenNext /\ UNCHANGED <<vars, fsVars>>
       \/ filesPart = "fs" /\ FsNext /\ UNCHANGED <<vars, openVars>>
    /\ UNCHANGED filesPart
MCSpec == MCInit /\ [][MCNext]_allVars /\ WF_vars(filesPart = "data" /\ Step)
=============================================================================
