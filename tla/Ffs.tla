-------------------------------- MODULE Ffs --------------------------------
(***************************************************************************)
(* The file systems with inodes and indirect blocks: lib/libstand/ufs.c    *)
(* and ext2fs.c, which have the same read_inode(), block_map(),            *)
(* buf_read_file(), search_directory() and path walk.                      *)
(*                                                                         *)
(* A block holds Bsize units: numbers of blocks if it is an indirect block *)
(* and else records [name, ino], which are the entries of a directory; a   *)
(* byte of a file is such a record too.  Number 0 is a hole.               *)
(* dv_strategy() may fail, and leaves the buffer it was to fill            *)
(* overwritten in part.                                                    *)
(***************************************************************************)
EXTENDS Integers, Sequences, SequencesExt, FiniteSets

CONSTANTS
    NDADDR, NIADDR, \* direct blocks, levels of indirect blocks
    Bsize,          \* fs_bsize, in units
    Spbs,           \* values of fs_bsize / DEV_BSIZE
    FfsInodes,      \* inode number -> [type, size, db, ib, link]
    FfsDisk,        \* block number -> sequence of Bsize units
    Root,           \* ROOTINO
    MaxSymlinks,    \* MAXSYMLINKS
    FfsPaths,       \* paths that are opened: sequences of names
    FfsMaxRead,     \* bound: units of a read
    FfsMaxSeek,     \* bound: where a seek goes
    FfsMaxFails     \* bound: failures of dv_strategy()

Unit(name, ino) == [name |-> name, ino |-> ino]
Zero == Unit("", 0)
Garbage == Unit("torn", 0)
TornBlock == [i \in 1 .. Bsize |-> Garbage]
TornIndirect == [i \in 1 .. Bsize |-> -1]
Zeroes == [i \in 1 .. Bsize |-> Zero]
Levels == 0 .. NIADDR - 1
\* f_nindir[level]
nindir[l \in Nat] == IF l = 0 THEN Bsize ELSE Bsize * nindir[l - 1]

ASSUME FfsAssumption ==
    /\ NDADDR \in Nat /\ NIADDR \in Nat \ {0} /\ Bsize \in Nat \ {0}
    /\ Root \in DOMAIN FfsInodes /\ Spbs \subseteq Nat \ {0}
    /\ \A i \in DOMAIN FfsInodes : FfsInodes[i].type \in {"dir", "reg", "lnk"}
    /\ \A b \in DOMAIN FfsDisk : b # 0 /\ Len(FfsDisk[b]) = Bsize

VARIABLES
    fsType,     \* "ufs" or "ext2"
    spb,        \* fs_bsize / DEV_BSIZE
    fp,         \* struct file
    walk,       \* ufs_open(): what is left of the path
    ffsCall,    \* ufs_read(): what is left of it
    ffsRes,     \* what the last call gave
    ffsFails    \* failures so far

ffsVars == <<fsType, spb, fp, walk, ffsCall, ffsRes, ffsFails>>

NoFile == [ino |-> 0, seekp |-> 0, blkno |-> [l \in Levels |-> -1],
           blk |-> [l \in Levels |-> TornIndirect], bufno |-> -1, buf |-> TornBlock]
NoWalk == [comps |-> <<>>, parent |-> 0, nlinks |-> 0, path |-> <<>>]
\* torn: history, a buffer was torn when the call began.
NoRead == [n |-> 0, start |-> 0, got |-> <<>>, torn |-> FALSE]
FfsNoRes == [op |-> "none", err |-> "", data |-> <<>>, start |-> 0, n |-> 0, ino |-> 0, path |-> <<>>]
\* A buffer that a failed read has overwritten but that still counts as filled.
Torn(f) == \/ f.bufno # -1 /\ f.buf = TornBlock
           \/ \E l \in Levels : f.blkno[l] # -1 /\ f.blk[l] = TornIndirect

\* Disk address of block b: ufs.c has the shift in the super block; ext2fs.c
\* takes fs_bsize / DEV_BSIZE - 1 for it.
fsbtodb(b) == b * spb
fsb_to_db(b) == b * 2 ^ (spb - 1)
Address(b) == IF fsType = "ufs" THEN fsbtodb(b) ELSE fsb_to_db(b)
\* The address is that of the block: not with ext2's blocks of 2048 or 4096 bytes.
ShiftRight == Address(1) = fsbtodb(1)

\* The inode that read_inode() finds: ino_to_db() goes by the same shift, and
\* has zeroes for an inode elsewhere.
Stray == [type |-> "none", size |-> 0, db |-> [i \in 1 .. NDADDR |-> 0], ib |-> [i \in 1 .. NIADDR |-> 0]]
Inode(i) == IF ShiftRight THEN FfsInodes[i] ELSE Stray
Di(f) == Inode(f.ino)

\* dv_strategy(): k counts down to the call that fails; 0: none does.
Down(k) == IF k = 0 THEN 0 ELSE k - 1
Contents(b, torn) ==
    LET d == Address(b) IN IF d % spb = 0 /\ d \div spb \in DOMAIN FfsDisk THEN FfsDisk[d \div spb] ELSE torn

-----------------------------------------------------------------------------
\* read_inode(): every buffer is forgotten.
ReadInode(f, i) ==
    [f EXCEPT !.ino = i, !.seekp = 0, !.blkno = [l \in Levels |-> -1], !.bufno = -1]

\* The indirect block a.ind is read to the buffer of level l, unless it is there.
LoadIndirect(a, l) ==
    IF a.f.blkno[l] = a.ind THEN a
    ELSE IF a.k = 1 THEN [a EXCEPT !.f.blk[l] = TornIndirect, !.k = 0, !.err = TRUE]
    ELSE [a EXCEPT !.f.blkno[l] = a.ind, !.f.blk[l] = Contents(a.ind, TornIndirect), !.k = Down(@)]

\* One round of the loop of block_map().
IndirectAt(b, l, below) ==
    IF b.err THEN b ELSE [b EXCEPT !.ind = b.f.blk[l][(b.fb \div below) + 1], !.fb = @ % below]
StepIndirect(a, l) ==
    IF a.err \/ a.ind = 0 THEN a
    ELSE IndirectAt(LoadIndirect(a, l), l, IF l > 0 THEN nindir[l - 1] ELSE 1)

\* Where the blocks of level l begin, among those after the direct ones.
LevelStart[l \in Nat] == IF l = 0 THEN 0 ELSE LevelStart[l - 1] + nindir[l - 1]

\* block_map(): the number of the disk block in ind.
MapLevel(a, lv) ==
    FoldLeft(StepIndirect, [a EXCEPT !.ind = Di(a.f).ib[lv + 1], !.fb = @ - LevelStart[lv]],
             [i \in 1 .. lv + 1 |-> lv + 1 - i])
MapIn(a, ls) ==
    IF ls = {} THEN [a EXCEPT !.err = TRUE]     \* EFBIG
    ELSE MapLevel(a, CHOOSE l \in ls : TRUE)
MapFrom(a) == MapIn(a, {l \in Levels : LevelStart[l] <= a.fb /\ a.fb < LevelStart[l] + nindir[l]})
block_map(f, file_block, k) ==
    LET a == [f |-> f, fb |-> file_block - NDADDR, ind |-> 0, k |-> k, err |-> FALSE]
    IN IF file_block < NDADDR THEN [a EXCEPT !.ind = Di(f).db[file_block + 1]] ELSE MapFrom(a)

\* buf_read_file(): the block of f_seekp is in f_buf, or err.
FillBuf(m, file_block) ==
    IF m.err THEN [f |-> m.f, err |-> TRUE, k |-> m.k]
    ELSE IF m.ind = 0
         THEN [f |-> [m.f EXCEPT !.buf = Zeroes, !.bufno = file_block], err |-> FALSE, k |-> m.k]
    ELSE IF m.k = 1
         THEN [f |-> [m.f EXCEPT !.buf = TornBlock], err |-> TRUE, k |-> 0]
    ELSE [f |-> [m.f EXCEPT !.buf = Contents(m.ind, TornBlock), !.bufno = file_block],
          err |-> FALSE, k |-> Down(m.k)]
buf_read_file(f, k) ==
    IF f.seekp \div Bsize = f.bufno THEN [f |-> f, err |-> FALSE, k |-> k]
    ELSE FillBuf(block_map(f, f.seekp \div Bsize, k), f.seekp \div Bsize)

\* Units of the buffer that follow the position, truncated at the end of file.
Remaining(f) ==
    LET off == f.seekp % Bsize
        avail == IF Bsize - off > Di(f).size - f.seekp THEN Di(f).size - f.seekp ELSE Bsize - off
    IN SubSeq(f.buf, off + 1, off + avail)

\* search_directory(): block after block; ino is 0 until the name is found.
FirstIno(hits) == IF hits = <<>> THEN 0 ELSE hits[1].ino
SearchIn(name, a, r) ==
    IF r.err THEN [a EXCEPT !.f = r.f, !.err = TRUE, !.k = r.k]
    ELSE [a EXCEPT !.f = r.f, !.k = r.k,
                   !.ino = FirstIno(SelectSeq(Remaining(r.f), LAMBDA e : e.ino # 0 /\ e.name = name))]
SearchBlock(name, a, b) ==
    IF a.err \/ a.ino # 0 THEN a
    ELSE SearchIn(name, a, buf_read_file([a.f EXCEPT !.seekp = b * Bsize], a.k))
search_directory(f, name, k) ==
    FoldLeft(LAMBDA a, b : SearchBlock(name, a, b),
             [f |-> f, k |-> k, err |-> FALSE, ino |-> 0],
             [i \in 1 .. (Di(f).size + Bsize - 1) \div Bsize |-> i - 1])

-----------------------------------------------------------------------------
(* ufs_open() and ext2fs_open() *)

OpenDone(err) ==
    /\ walk' = NoWalk
    /\ ffsRes' = [FfsNoRes EXCEPT !.op = "open", !.err = err, !.path = walk.path,
                                  !.ino = IF err = "" THEN fp'.ino ELSE 0]

\* Super block and root inode are read.
ufs_open(path) ==
    /\ walk = NoWalk /\ ffsCall = NoRead
    /\ fp' = ReadInode(NoFile, Root)
    /\ walk' = [comps |-> path, parent |-> Root, nlinks |-> 0, path |-> path]
    /\ ffsRes' = FfsNoRes
    /\ UNCHANGED <<ffsCall, ffsFails>>

\* Where the walk goes on after a symbolic link.
Restart(link) == IF link.abs THEN Root ELSE fp.ino

\* One component: search, read the inode, follow it if it is a link.
WalkStep(k) ==
    /\ walk.comps # <<>>
    /\ \E s \in {search_directory(fp, Head(walk.comps), k)} :
       LET di == Inode(s.ino)
           rest == Tail(walk.comps)
       IN \/ /\ Di(fp).type # "dir" /\ k = 0 /\ fp' = NoFile /\ OpenDone("ENOTDIR")
          \/ /\ Di(fp).type = "dir" /\ s.err /\ fp' = NoFile /\ OpenDone("EIO")
          \/ /\ Di(fp).type = "dir" /\ ~s.err /\ k = 0 /\ s.ino = 0
             /\ fp' = NoFile /\ OpenDone("ENOENT")
          \/ /\ Di(fp).type = "dir" /\ ~s.err /\ k = 0 /\ s.ino # 0 /\ di.type # "lnk"
             /\ fp' = ReadInode(s.f, s.ino)
             /\ IF rest = <<>> THEN OpenDone("")
                ELSE walk' = [walk EXCEPT !.comps = rest] /\ UNCHANGED ffsRes
          \/ /\ Di(fp).type = "dir" /\ ~s.err /\ k = 0 /\ s.ino # 0 /\ di.type = "lnk"
             /\ IF walk.nlinks = MaxSymlinks
                THEN fp' = NoFile /\ OpenDone("ENOENT")
                ELSE /\ fp' = ReadInode(s.f, Restart(di.link))
                     /\ walk' = [walk EXCEPT !.comps = di.link.comps \o rest, !.nlinks = @ + 1]
                     /\ UNCHANGED ffsRes
    /\ ffsFails' = IF k = 0 THEN ffsFails ELSE ffsFails + 1
    /\ UNCHANGED ffsCall

\* The path is empty.
OpenRoot ==
    /\ walk # NoWalk /\ walk.comps = <<>> /\ UNCHANGED <<fp, ffsCall, ffsFails>>
    /\ OpenDone("")

-----------------------------------------------------------------------------
(* ufs_read() and ufs_seek() *)

IsOpen == fp.ino # 0 /\ walk = NoWalk
ufs_read(n) ==
    /\ IsOpen /\ ffsCall = NoRead
    /\ ffsCall' = [n |-> n, start |-> fp.seekp, got |-> <<>>, torn |-> Torn(fp)] /\ ffsRes' = FfsNoRes
    /\ UNCHANGED <<fp, walk, ffsFails>>

FfsReturn(err) ==
    /\ ffsCall' = NoRead
    /\ ffsRes' = [FfsNoRes EXCEPT !.op = IF ffsCall.torn THEN "torn" ELSE "read", !.err = err,
        !.data = ffsCall.got, !.start = ffsCall.start, !.n = ffsCall.n, !.ino = fp.ino]

\* One round of the loop.
ReadStep(k) ==
    /\ ffsCall.n > 0
    /\ \E r \in {buf_read_file(fp, k)} :
       LET want == ffsCall.n - Len(ffsCall.got)
           rem == Remaining(r.f)
           got == SubSeq(rem, 1, IF Len(rem) < want THEN Len(rem) ELSE want)
       IN \/ (want = 0 \/ fp.seekp >= Di(fp).size) /\ k = 0 /\ UNCHANGED fp /\ FfsReturn("")
          \/ want > 0 /\ fp.seekp < Di(fp).size /\ r.err /\ fp' = r.f /\ FfsReturn("EIO")
          \/ /\ want > 0 /\ fp.seekp < Di(fp).size /\ ~r.err /\ k = 0
             /\ fp' = [r.f EXCEPT !.seekp = @ + Len(got)]
             /\ ffsCall' = [ffsCall EXCEPT !.got = @ \o got] /\ UNCHANGED ffsRes
    /\ ffsFails' = IF k = 0 THEN ffsFails ELSE ffsFails + 1
    /\ UNCHANGED walk

ufs_seek(off) ==
    /\ IsOpen /\ ffsCall = NoRead /\ off \in 0 .. Di(fp).size
    /\ fp' = [fp EXCEPT !.seekp = off] /\ ffsRes' = FfsNoRes
    /\ UNCHANGED <<walk, ffsCall, ffsFails>>

ufs_close ==
    /\ IsOpen /\ ffsCall = NoRead
    /\ fp' = NoFile /\ ffsRes' = FfsNoRes /\ UNCHANGED <<walk, ffsCall, ffsFails>>

\* ufs_readdir(): the next entry that is used, or ENOENT.
ufs_readdir(k) ==
    /\ IsOpen /\ ffsCall = NoRead /\ Di(fp).type = "dir"
    /\ \E r \in {buf_read_file(fp, k)} :
       LET e == Remaining(r.f)[1]
       IN \/ /\ fp.seekp >= Di(fp).size /\ k = 0 /\ UNCHANGED fp
             /\ ffsRes' = [FfsNoRes EXCEPT !.op = "readdir", !.err = "ENOENT", !.start = fp.seekp]
          \/ /\ fp.seekp < Di(fp).size /\ r.err /\ fp' = r.f
             /\ ffsRes' = [FfsNoRes EXCEPT !.op = "readdir", !.err = "EIO"]
          \/ /\ fp.seekp < Di(fp).size /\ ~r.err /\ k = 0
             /\ fp' = [r.f EXCEPT !.seekp = @ + 1]
             /\ ffsRes' = IF e.ino = 0 THEN FfsNoRes
                          ELSE [FfsNoRes EXCEPT !.op = "readdir", !.data = <<e>>, !.start = fp.seekp,
                                                !.ino = fp.ino]
    /\ ffsFails' = IF k = 0 THEN ffsFails ELSE ffsFails + 1
    /\ UNCHANGED <<walk, ffsCall>>

\* ext2fs.c has copies of these.
ext2fs_open(path) == ufs_open(path)
ext2fs_walk(k) == WalkStep(k)
ext2fs_read(n) == ufs_read(n)
ext2fs_seek(off) == ufs_seek(off)
ext2fs_close == ufs_close
ext2fs_readdir(k) == ufs_readdir(k)

-----------------------------------------------------------------------------
\* EXT2_MINBSHIFT: ext2's blocks have 1024 bytes at least.
FfsInit ==
    /\ fsType \in {"ufs", "ext2"} /\ spb \in Spbs /\ (fsType = "ext2" => spb > 1)
    /\ fp = NoFile /\ walk = NoWalk /\ ffsCall = NoRead /\ ffsRes = FfsNoRes /\ ffsFails = 0

\* Calls of dv_strategy() in one step; one of them may fail.
Tries == IF ffsFails < FfsMaxFails THEN 0 .. NIADDR + 2 ELSE {0}

Ufs == \/ \E p \in FfsPaths : ufs_open(p)
       \/ \E k \in Tries : WalkStep(k) \/ ufs_readdir(k)
       \/ \E n \in 1 .. FfsMaxRead : ufs_read(n)
       \/ \E off \in 0 .. FfsMaxSeek : ufs_seek(off)
       \/ ufs_close
Ext2fs == \/ \E p \in FfsPaths : ext2fs_open(p)
          \/ \E k \in Tries : ext2fs_walk(k) \/ ext2fs_readdir(k)
          \/ \E n \in 1 .. FfsMaxRead : ext2fs_read(n)
          \/ \E off \in 0 .. FfsMaxSeek : ext2fs_seek(off)
          \/ ext2fs_close

FfsNext == /\ \/ fsType = "ufs" /\ Ufs
              \/ fsType = "ext2" /\ Ext2fs
              \/ OpenRoot
              \/ \E k \in Tries : ReadStep(k)
           /\ UNCHANGED <<fsType, spb>>

-----------------------------------------------------------------------------
(* Properties *)

\* The block of the inode's tree that file block b is in, without buffers.
Indirect[l \in Nat, ind \in Int, fb \in Nat] ==
    IF ind = 0 THEN 0
    ELSE IF l = 0 THEN FfsDisk[ind][fb + 1]
    ELSE Indirect[l - 1, FfsDisk[ind][(fb \div nindir[l - 1]) + 1], fb % nindir[l - 1]]
BlockOf(i, b) ==
    IF b < NDADDR THEN FfsInodes[i].db[b + 1]
    ELSE LET fb == b - NDADDR
             l == CHOOSE l \in Levels : LevelStart[l] <= fb /\ fb < LevelStart[l] + nindir[l]
         IN Indirect[l, FfsInodes[i].ib[l + 1], fb - LevelStart[l]]
UnitOf(i, off) ==
    LET b == BlockOf(i, off \div Bsize) IN IF b = 0 THEN Zero ELSE FfsDisk[b][(off % Bsize) + 1]

\* What ufs_read() gives is what the inode's tree of blocks holds, through any
\* sequence of seeks and reads that leaves other blocks in the buffers; as
\* long as none of them was torn by a read that failed, and the shift is that
\* of the blocks.
FfsReadRight ==
    ffsRes.op = "read" /\ ShiftRight =>
        /\ ffsRes.data = [i \in 1 .. Len(ffsRes.data) |-> UnitOf(ffsRes.ino, ffsRes.start + i - 1)]
        /\ ffsRes.err = "" =>
            LET left == FfsInodes[ffsRes.ino].size - ffsRes.start
            IN Len(ffsRes.data) = IF left < ffsRes.n THEN left ELSE ffsRes.n

\* The inode a path means, n links at most being followed; 0 if there is none.
Entry(i, name) ==
    LET S == {e \in {UnitOf(i, o) : o \in 0 .. FfsInodes[i].size - 1} : e.ino # 0 /\ e.name = name}
    IN IF S = {} THEN 0 ELSE (CHOOSE e \in S : TRUE).ino
Means[n \in Nat, i \in Nat, comps \in Seq(STRING)] ==
    IF comps = <<>> THEN i
    ELSE IF FfsInodes[i].type # "dir" THEN 0
    ELSE LET j == Entry(i, Head(comps))
         IN IF j = 0 THEN 0
            ELSE IF FfsInodes[j].type # "lnk" THEN Means[n, j, Tail(comps)]
            ELSE IF n = 0 THEN 0
            ELSE Means[n - 1, IF FfsInodes[j].link.abs THEN Root ELSE i,
                       FfsInodes[j].link.comps \o Tail(comps)]

\* ufs_open() finds the file that the path means through links, relative to
\* the directory they are in or to the root, and fails when there is none; if
\* the shift is that of the blocks.
FfsWalkRight ==
    ffsRes.op = "open" /\ ffsRes.err # "EIO" /\ ShiftRight => ffsRes.ino = Means[MaxSymlinks, Root, ffsRes.path]

-----------------------------------------------------------------------------
(***************************************************************************)
(* sys/boot/common/ufsread.c: the UFS reader of boot2, gptboot and EFI's   *)
(* boot1, over the disk of module Ffs.  It is static state: the inode in   *)
(* inomap, the position fs_off, and two buffers for virtual blocks (here a *)
(* virtual block is one unit), taken for what blkmap and indmap say.       *)
(***************************************************************************)

VARIABLES
    us,         \* [inomap, off, blkmap, blk, indmap, ind]
    usRes,      \* what the last call gave
    usFails

ufsreadVars == <<us, usRes, usFails>>

NoUs == [inomap |-> 0, off |-> 0, blkmap |-> 0, blk |-> Garbage, indmap |-> 0, ind |-> -1]
NoUsRes == [op |-> "", ino |-> 0, start |-> 0, n |-> 0, err |-> FALSE, data |-> <<>>, path |-> <<>>, torn |-> FALSE]
UsTorn(s) == (s.blkmap # 0 /\ s.blk = Garbage) \/ (s.indmap # 0 /\ s.ind = -1)

\* A virtual block, by its address; there is none at the address of a hole.
Vblk(va, torn) ==
    IF va \div Bsize \in DOMAIN FfsDisk THEN FfsDisk[va \div Bsize][(va % Bsize) + 1] ELSE torn

\* The inode is read to blkbuf; what the buffers hold is forgotten.
LoadInode(a, ino) ==
    IF a.s.inomap = ino THEN a
    ELSE IF a.k = 1 THEN [a EXCEPT !.s.blk = Garbage, !.k = 0, !.err = TRUE]
    ELSE [a EXCEPT !.s.inomap = ino, !.s.off = 0, !.s.blkmap = 0, !.s.indmap = 0,
                   !.s.blk = Garbage, !.k = Down(@)]

\* The address of file block lbn, in a.addr.
LoadInd(a, va) ==
    IF a.s.indmap = va THEN [a EXCEPT !.addr = a.s.ind]
    ELSE IF a.k = 1 THEN [a EXCEPT !.s.ind = -1, !.k = 0, !.err = TRUE]
    ELSE [a EXCEPT !.s.indmap = va, !.s.ind = Vblk(va, -1), !.addr = Vblk(va, -1), !.k = Down(@)]
AddressOf(a, lbn) ==
    IF lbn < NDADDR THEN [a EXCEPT !.addr = FfsInodes[a.s.inomap].db[lbn + 1]]
    ELSE IF lbn >= NDADDR + Bsize THEN [a EXCEPT !.err = TRUE]
    ELSE LoadInd(a, FfsInodes[a.s.inomap].ib[1] * Bsize + (lbn - NDADDR))

\* One round of the loop: a unit.
LoadBlk(b, va) ==
    IF b.s.blkmap = va THEN b
    ELSE IF b.k = 1 THEN [b EXCEPT !.s.blk = Garbage, !.k = 0, !.err = TRUE]
    ELSE [b EXCEPT !.s.blkmap = va, !.s.blk = Vblk(va, Garbage), !.k = Down(@)]
CopyUnit(c) == IF c.err THEN c ELSE [c EXCEPT !.data = Append(@, c.s.blk), !.s.off = @ + 1]
UnitAt(b) == IF b.err THEN b ELSE CopyUnit(LoadBlk(b, b.addr * Bsize + (b.s.off % Bsize)))
UfsRound(a, i) == IF a.err THEN a ELSE UnitAt(AddressOf(a, a.s.off \div Bsize))

\* boot2_ufs_read_size()
UfsRounds(a, n, left) ==
    IF a.err THEN a ELSE FoldLeft(UfsRound, a, [i \in 1 .. (IF n < left THEN n ELSE left) |-> i])
UfsReadIn(a, ino, n) == UfsRounds(a, n, FfsInodes[ino].size - a.s.off)
UfsRead(s, ino, n, k) ==
    LET a0 == [s |-> s, k |-> k, err |-> FALSE, data |-> <<>>, addr |-> 0]
    IN IF ino = 0 THEN [a0 EXCEPT !.s.inomap = 0] ELSE UfsReadIn(LoadInode(a0, ino), ino, n)

\* fsfind(): a sector (a block here) at a time; a name that is no longer used
\* is found too, and gives inode 0.
FsfindHit(a, ino) ==
    [a EXCEPT !.done = TRUE, !.ino = ino, !.dt = IF ino = 0 THEN "reg" ELSE FfsInodes[ino].type]
FsfindIn(a, hits) == IF hits = <<>> THEN a ELSE FsfindHit(a, hits[1].ino)
FsfindData(name, a, r) ==
    IF r.err THEN [a EXCEPT !.s = r.s, !.k = r.k, !.err = TRUE]
    ELSE IF r.data = <<>> THEN [a EXCEPT !.s = r.s, !.k = r.k, !.done = TRUE, !.dt = ""]
    ELSE FsfindIn([a EXCEPT !.s = r.s, !.k = r.k], SelectSeq(r.data, LAMBDA e : e.name = name))
FsfindBlock(name, a, i) ==
    IF a.err \/ a.done THEN a ELSE FsfindData(name, a, UfsRead(a.s, a.dir, Bsize, a.k))
FsfindEnd(b) == IF b.err THEN [b EXCEPT !.dt = ""] ELSE b
fsfind(a, name) ==
    IF a.err \/ a.dt = "" THEN a                     \* the walk is over
    ELSE IF a.dt # "dir" THEN [a EXCEPT !.dt = ""]   \* not a directory
    ELSE FsfindEnd(FoldLeft(LAMBDA x, i : FsfindBlock(name, x, i),
                            [a EXCEPT !.s.off = 0, !.dir = a.ino, !.done = FALSE],
                            [i \in 1 .. (IF a.ino = 0 THEN 0 ELSE FfsInodes[a.ino].size) + 1 |-> i]))

\* boot2_ufs_lookup(): the inode of a regular file, or 0.
boot2_ufs_lookup(path, k) ==
    \E a \in {FoldLeft(fsfind, [s |-> us, k |-> k, err |-> FALSE, ino |-> Root, dir |-> Root,
                                dt |-> "dir", done |-> FALSE], path)} :
       /\ a.k = 0 /\ us' = a.s
       /\ usFails' = IF k = 0 THEN usFails ELSE usFails + 1
       /\ usRes' = [NoUsRes EXCEPT !.op = "lookup", !.path = path, !.torn = UsTorn(us),
                        !.ino = IF a.dt = "reg" THEN a.ino ELSE 0]

\* boot2_ufs_read(); inode 0 stands for a new probe of the disk.
boot2_ufs_read(ino, n, k) ==
    \E a \in {UfsRead(us, ino, n, k)} :
       /\ a.k = 0 /\ us' = a.s
       /\ usFails' = IF k = 0 THEN usFails ELSE usFails + 1
       /\ usRes' = [NoUsRes EXCEPT !.op = "read", !.ino = ino, !.n = n, !.err = a.err, !.data = a.data,
                        !.start = IF ino = us.inomap THEN us.off ELSE 0, !.torn = UsTorn(us)]

\* load() sets fs_off itself.
Rewind == /\ us.off # 0 /\ us' = [us EXCEPT !.off = 0] /\ usRes' = NoUsRes /\ UNCHANGED usFails

UfsreadInit == us = NoUs /\ usRes = NoUsRes /\ usFails = 0
UsTries == IF usFails < FfsMaxFails THEN 0 .. 4 ELSE {0}
UfsreadNext == \/ \E k \in UsTries : \/ \E p \in FfsPaths : boot2_ufs_lookup(p, k)
                                     \/ \E i \in {0} \cup {j \in DOMAIN FfsInodes : FfsInodes[j].type = "reg"},
                                           n \in 1 .. FfsMaxRead : boot2_ufs_read(i, n, k)
               \/ Rewind

-----------------------------------------------------------------------------
\* What boot2_ufs_read() gives is what the inode's blocks hold, though inode,
\* block and indirect block stay in static buffers from one file to the next;
\* unless a failed read has torn them, or the file has a hole there, of which
\* this code knows nothing.
UfsreadRight ==
    usRes.op = "read" /\ ~usRes.torn /\ usRes.ino # 0 =>
        /\ \A i \in 1 .. Len(usRes.data) :
            LET off == usRes.start + i - 1
            IN BlockOf(usRes.ino, off \div Bsize) # 0 => usRes.data[i] = UnitOf(usRes.ino, off)
        /\ ~usRes.err => Len(usRes.data) = LET left == FfsInodes[usRes.ino].size - usRes.start
                                           IN IF usRes.n < left THEN usRes.n ELSE left

\* boot2_ufs_lookup() gives the regular file that the path means without
\* links, or nothing.
UfsLookupRight ==
    usRes.op = "lookup" /\ ~usRes.torn =>
        usRes.ino \in {0, Means[0, Root, usRes.path]}
=============================================================================
