------------------------------- MODULE Cd9660 -------------------------------
(***************************************************************************)
(* lib/libstand/cd9660.c: ISO 9660 with Rock Ridge names.                  *)
(*                                                                         *)
(* A block holds CdBlock units.  A record of a directory takes dp.len of   *)
(* them, at the place of the first; len 0 fills the rest of a block.  A    *)
(* record has an ISO name and may have a Rock Ridge name, in itself or in  *)
(* a continuation that takes a read of its own.  Names are [base, up]: up  *)
(* says upper case.  Versions and trailing dots are left out.              *)
(***************************************************************************)
EXTENDS Integers, Sequences, SequencesExt

CONSTANTS
    CdBlock,        \* ISO_DEFAULT_BLOCK_SIZE, in units
    CdDiscs,        \* sequence of [vds, blocks, root]
    CdPaths,        \* paths: sequences of [base, up]
    CdMaxRead, CdMaxSeek, CdMaxFails

VARIABLES
    disc,       \* the disc in the drive
    cd,         \* struct file
    cdWalk,     \* cd9660_open(): where it is
    cdRes,
    cdFails

cdVars == <<disc, cd, cdWalk, cdRes, cdFails>>

NoName == [base |-> "", up |-> FALSE]
NoRec == [len |-> 0, iso |-> NoName, rr |-> NoName, cont |-> FALSE, sp |-> FALSE,
          dir |-> FALSE, extent |-> 0, size |-> 0]
\* What a read of the buffer past its end may find.
Beyond == {NoRec, [NoRec EXCEPT !.len = 1, !.iso.base = "?"]}

ASSUME CdAssumption ==
    /\ CdBlock \in Nat \ {0}
    /\ \A d \in DOMAIN CdDiscs : \A b \in DOMAIN CdDiscs[d].blocks : Len(CdDiscs[d].blocks[b]) = CdBlock

NoCd == [open |-> FALSE, isdir |-> FALSE, root |-> FALSE, rr |-> FALSE, off |-> 0, bno |-> 0, size |-> 0,
         blkno |-> 0, torn |-> FALSE]
NoCdWalk == [at |-> "no", comps |-> <<>>, path |-> <<>>, rec |-> NoRec, off |-> 0, boff |-> 0, pos |-> 0,
             dp |-> NoRec, first |-> TRUE, rr |-> FALSE, vd |-> 0, full |-> FALSE]
NoCdRes == [op |-> "", err |-> "", data |-> <<>>, n |-> 0, start |-> 0, path |-> <<>>, extent |-> 0,
            name |-> NoName, full |-> FALSE]
CdBlocks(b) == LET m == CdDiscs[disc].blocks IN IF b \in DOMAIN m THEN m[b] ELSE [i \in 1 .. CdBlock |-> NoRec]
CdTry(k) == cdFails' = IF k = 0 THEN cdFails ELSE cdFails + 1

-----------------------------------------------------------------------------
\* rrip_lookup_name(): k = 1, the continuation cannot be read and the ISO name
\* is taken instead.
RripName(rec, k) == IF rec.rr = NoName \/ (rec.cont /\ k = 1) THEN NoName ELSE rec.rr

\* rrip_check(): the record has an SP field.
rrip_check(rec) == rec.sp

\* dirmatch(): only a Rock Ridge name in upper case is matched by lower case.
dirmatch(comp, rec, rr, k) ==
    LET alt == IF rr THEN RripName(rec, k) ELSE NoName
    IN IF alt = NoName THEN comp = rec.iso
       ELSE comp.base = alt.base /\ (comp.up = alt.up \/ alt.up)

-----------------------------------------------------------------------------
(* cd9660_open() *)

CdIdle == cdWalk.at = "no"
CdOpenFails(err) ==
    /\ cdWalk' = NoCdWalk /\ cd' = NoCd
    /\ cdRes' = [NoCdRes EXCEPT !.op = "open", !.err = err, !.path = cdWalk.path, !.full = cdWalk.full]

cd9660_open(path) ==
    /\ CdIdle /\ cd' = NoCd /\ cdRes' = NoCdRes
    /\ cdWalk' = [NoCdWalk EXCEPT !.at = "vd", !.comps = path, !.path = path]
    /\ UNCHANGED <<disc, cdFails>>

\* The next volume descriptor.
CdDescriptor(k) ==
    /\ cdWalk.at = "vd" /\ k \in {0, 1}
    /\ LET vds == CdDiscs[disc].vds
           vd == vds[cdWalk.vd + 1]
       IN \/ k = 1 /\ CdOpenFails("EIO")
          \/ k = 0 /\ (vd.id # "CD001" \/ vd.type = "end" \/ (vd.type = "primary" /\ vd.bsize # CdBlock)) /\ CdOpenFails("EINVAL")
          \/ /\ k = 0 /\ vd.id = "CD001" /\ vd.type = "other"
             /\ cdWalk' = [cdWalk EXCEPT !.vd = @ + 1] /\ UNCHANGED <<cd, cdRes>>
          \/ /\ k = 0 /\ vd.id = "CD001" /\ vd.type = "primary" /\ vd.bsize = CdBlock
             /\ cdWalk' = [cdWalk EXCEPT !.at = "dir", !.rec = CdDiscs[disc].root] /\ UNCHANGED <<cd, cdRes>>
    /\ CdTry(k) /\ UNCHANGED disc

\* One record of the directory, of which the next block is read if off is at
\* a block's start.  off goes on by the length of the record that follows.
CdRecord(k) ==
    /\ cdWalk.at = "dir" /\ cdWalk.comps # <<>>
    /\ LET w == cdWalk
           read == w.off % CdBlock = 0
           boff == IF read THEN w.boff + 1 ELSE w.boff
           pos == IF read THEN 0 ELSE w.pos
           blk == CdBlocks(w.rec.extent + boff - 1)
       IN \/ w.off >= w.rec.size /\ k = 0 /\ CdOpenFails("ENOENT")
          \/ w.off < w.rec.size /\ read /\ k = 1 /\ CdOpenFails("EIO")
          \/ /\ w.off < w.rec.size /\ (k = 0 \/ (~read /\ k = 1))
             /\ LET dp == IF read THEN blk[1] ELSE w.dp
                    rr == IF w.first THEN rrip_check(dp) ELSE w.rr
                    match == dirmatch(Head(w.comps), dp, rr, k)
                IN /\ k = 1 => dp.len # 0 /\ rr /\ dp.cont
                   /\ \/ /\ dp.len = 0
                         /\ cdWalk' = [w EXCEPT !.off = boff * CdBlock, !.boff = boff, !.pos = pos]
                         /\ UNCHANGED <<cd, cdRes>>
                      \/ /\ dp.len # 0 /\ match
                         /\ IF Len(w.comps) > 1 /\ ~dp.dir THEN CdOpenFails("ENOENT")
                            ELSE /\ cdWalk' = [w EXCEPT !.comps = Tail(@), !.rec = dp, !.off = 0, !.boff = 0,
                                                        !.pos = 0, !.first = FALSE, !.rr = rr]
                                 /\ UNCHANGED <<cd, cdRes>>
                      \/ /\ dp.len # 0 /\ ~match
                         /\ \E next \in IF pos + dp.len < CdBlock THEN {blk[pos + dp.len + 1]} ELSE Beyond :
                                cdWalk' = [w EXCEPT !.off = @ + next.len, !.boff = boff, !.dp = next, !.first = FALSE, !.rr = rr,
                                             !.pos = IF pos + dp.len < CdBlock THEN pos + dp.len ELSE CdBlock,
                                             !.full = @ \/ pos + dp.len >= CdBlock]
                         /\ UNCHANGED <<cd, cdRes>>
    /\ CdTry(k) /\ UNCHANGED disc

\* The path is done.  For the root, its first record is looked at now.
CdOpened(k) ==
    /\ cdWalk.at = "dir" /\ cdWalk.comps = <<>> /\ k \in {0, 1}
    /\ LET rec == cdWalk.rec
           dot == CdBlocks(rec.extent)[1]
       IN \/ k = 1 /\ cdWalk.first /\ CdOpenFails("EIO")
          \/ /\ k = 0
             /\ cd' = [NoCd EXCEPT !.open = TRUE, !.isdir = rec.dir, !.root = cdWalk.first, !.bno = rec.extent,
                         !.size = rec.size, !.rr = IF cdWalk.first THEN rrip_check(dot) ELSE cdWalk.rr]
             /\ cdWalk' = NoCdWalk
             /\ cdRes' = [NoCdRes EXCEPT !.op = "open", !.path = cdWalk.path, !.extent = rec.extent,
                                         !.full = cdWalk.full]
    /\ CdTry(k) /\ UNCHANGED disc

-----------------------------------------------------------------------------
(* cd9660_read(), cd9660_seek(), cd9660_readdir(), cd9660_close() *)

\* buf_read_file(): the units of the block from f_off on, cut at the file's end.
CdUnits(f, off, n) == SubSeq(IF f.torn THEN [i \in 1 .. CdBlock |-> NoRec] ELSE CdBlocks(f.blkno), off + 1, off + n)
CdFilled(f, err, k) ==
    LET off == f.off % CdBlock
    IN [f |-> f, err |-> err, k |-> k,
        data |-> CdUnits(f, off, IF CdBlock - off > f.size - f.off THEN f.size - f.off ELSE CdBlock - off)]
CdBuf(f, k) ==
    LET blkno == f.off \div CdBlock + f.bno
    IN IF blkno = f.blkno THEN CdFilled(f, FALSE, k)
       ELSE IF k = 1 THEN CdFilled([f EXCEPT !.torn = TRUE], TRUE, 0)
       ELSE CdFilled([f EXCEPT !.torn = FALSE, !.blkno = blkno], FALSE, IF k = 0 THEN 0 ELSE k - 1)

CdCopy(a, b, c) ==
    IF b.err THEN [a EXCEPT !.f = b.f, !.k = b.k, !.err = TRUE]
    ELSE [a EXCEPT !.f = [b.f EXCEPT !.off = @ + c], !.k = b.k, !.n = @ - c, !.data = @ \o SubSeq(b.data, 1, c)]
CdCopyFrom(a, b) == CdCopy(a, b, IF a.n > Len(b.data) THEN Len(b.data) ELSE a.n)
CdReadRound(a, i) ==
    IF a.err \/ a.n = 0 \/ a.f.off < 0 \/ a.f.off >= a.f.size THEN a ELSE CdCopyFrom(a, CdBuf(a.f, a.k))

cd9660_read(n, k) ==
    /\ CdIdle /\ cd.open
    /\ \E a \in {FoldLeft(CdReadRound, [f |-> cd, k |-> k, n |-> n, err |-> FALSE, data |-> <<>>],
                          [i \in 1 .. n |-> i])} :
          /\ a.k = 0 /\ cd' = a.f
          /\ cdRes' = [NoCdRes EXCEPT !.op = IF cd.torn THEN "torn" ELSE "read", !.n = n, !.start = cd.off,
                                      !.data = a.data, !.err = IF a.err THEN "EIO" ELSE ""]
    /\ CdTry(k) /\ UNCHANGED <<disc, cdWalk>>

\* SEEK_SET and SEEK_END; nothing is checked, and the offset is subtracted
\* from the end.
cd9660_seek(where, offset) ==
    /\ CdIdle /\ cd.open
    /\ cd' = [cd EXCEPT !.off = IF where = "set" THEN offset ELSE cd.size - offset]
    /\ cdRes' = NoCdRes /\ UNCHANGED <<disc, cdWalk, cdFails>>

\* cd9660_readdir(): the loop ends at a record or at the end.
CdSkipFrom(a, b) ==
    IF b.err THEN [a EXCEPT !.f = b.f, !.k = b.k, !.err = TRUE]
    ELSE IF b.data[1].len = 0
         THEN [a EXCEPT !.f = [b.f EXCEPT !.off = (@ \div CdBlock + 1) * CdBlock], !.k = b.k]
    ELSE [a EXCEPT !.f = b.f, !.k = b.k, !.done = TRUE, !.rec = b.data[1]]
CdSkip(a, i) ==
    IF a.done \/ a.err THEN a
    ELSE IF a.f.off >= a.f.size THEN [a EXCEPT !.done = TRUE]
    ELSE CdSkipFrom(a, CdBuf(a.f, a.k))
cd9660_readdir(k) ==
    /\ CdIdle /\ cd.open /\ cd.isdir /\ cd.off >= 0
    /\ \E a \in {FoldLeft(CdSkip, [f |-> cd, k |-> k, done |-> FALSE, err |-> FALSE, rec |-> NoRec],
                          [i \in 1 .. cd.size + 1 |-> i])} :
       LET alt == IF cd.rr THEN RripName(a.rec, IF a.k = 1 THEN 1 ELSE 0) ELSE NoName
       IN /\ a.k = 0 \/ (a.k = 1 /\ cd.rr /\ a.rec.cont)
          /\ cd' = [a.f EXCEPT !.off = @ + a.rec.len]
          /\ cdRes' = [NoCdRes EXCEPT !.op = IF cd.torn THEN "torn" ELSE "readdir", !.extent = a.rec.extent,
                          !.err = IF a.err THEN "EIO" ELSE IF a.rec = NoRec THEN "ENOENT" ELSE "",
                          !.name = IF alt = NoName THEN a.rec.iso ELSE alt]
    /\ CdTry(k) /\ UNCHANGED <<disc, cdWalk>>

cd9660_close == /\ CdIdle /\ cd.open /\ cd' = NoCd /\ cdRes' = NoCdRes /\ UNCHANGED <<disc, cdWalk, cdFails>>

-----------------------------------------------------------------------------
CdInit == disc \in DOMAIN CdDiscs /\ cd = NoCd /\ cdWalk = NoCdWalk /\ cdRes = NoCdRes /\ cdFails = 0
CdTries == IF cdFails < CdMaxFails THEN 0 .. 2 ELSE {0}
CdNext == \/ \E p \in CdPaths : cd9660_open(p)
          \/ \E k \in CdTries : CdDescriptor(k) \/ CdRecord(k) \/ CdOpened(k) \/ cd9660_readdir(k)
          \/ \E k \in CdTries, n \in 1 .. CdMaxRead : cd9660_read(n, k)
          \/ \E where \in {"set", "end"}, off \in 0 .. CdMaxSeek : cd9660_seek(where, off)
          \/ cd9660_close

-----------------------------------------------------------------------------
(* Properties *)

Extent(bno, size) ==
    SubSeq(FlattenSeq([i \in 1 .. (size + CdBlock - 1) \div CdBlock |-> CdBlocks(bno + i - 1)]), 1, size)
\* The records of a directory and where they are, and whether a block is full.
Records(rec) == {i \in 1 .. rec.size : Extent(rec.extent, rec.size)[i].len # 0}
CdHas(rec, i, comp, rr) == dirmatch(comp, Extent(rec.extent, rec.size)[i], rr, 0)
CdLookup(rr, rec, comp) ==
    LET hits == {i \in Records(rec) : CdHas(rec, i, comp, rr)}
    IN IF rec = NoRec \/ ~rec.dir \/ hits = {} THEN NoRec
       ELSE Extent(rec.extent, rec.size)[CHOOSE i \in hits : \A j \in hits : i <= j]

\* cd9660_read() gives what the extent holds from the position on, through
\* seeks and directory reads that leave other blocks in the buffer.
CdReadRight ==
    cdRes.op = "read" /\ cd.open /\ cdRes.start >= 0 =>
        LET rest == SubSeq(Extent(cd.bno, cd.size), cdRes.start + 1, cd.size)
        IN IsPrefix(cdRes.data, rest) /\ (cdRes.err = "" => Len(cdRes.data) = IF Len(rest) < cdRes.n THEN Len(rest) ELSE cdRes.n)

\* cd9660_open() finds the first record that goes by the name, in whatever
\* block of the directory, though it adds up the wrong lengths; unless a block
\* is full to the last byte.
CdFindRight ==
    cdRes.op = "open" /\ cdRes.err \in {"", "ENOENT"} /\ ~cdRes.full /\ cdFails = 0 =>
        LET root == CdDiscs[disc].root
            rr == rrip_check(CdBlocks(root.extent)[1])
            end == FoldLeft(LAMBDA r, c : CdLookup(rr, r, c), root, cdRes.path)
        IN IF end = NoRec THEN cdRes.err = "ENOENT" ELSE cdRes.err = "" /\ cdRes.extent = end.extent
=============================================================================
