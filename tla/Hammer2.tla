------------------------------- MODULE Hammer2 -------------------------------
(***************************************************************************)
(* lib/libstand/hammer2.c as the loader uses it.  Block references lead    *)
(* from the volume header through inodes and indirect blocks to data; the  *)
(* block last loaded is in `media', which all files on all devices share   *)
(* and which saved_base names by its offset alone.                         *)
(*                                                                         *)
(* H2Disks[d] has the volume headers and the blocks of device d.  A        *)
(* reference is [type, off, key, span].  A block is                        *)
(* [name, dir, size, embedded, refs, bytes].                               *)
(***************************************************************************)
EXTENDS Integers, Sequences, SequencesExt, FiniteSets

CONSTANTS
    H2Disks,        \* device -> [vols, blocks]
    H2Slots,        \* open files
    H2Hash,         \* name -> directory key, a multiple of H2Low + 1
    H2Low,          \* keys of one hash: key .. key + H2Low
    H2KeyMax, H2SrootKey, H2BootKey,
    H2Paths, H2Reads, H2Seeks,  \* what is opened, lengths, positions
    H2Faults, H2MaxFails        \* bounds: which read of a call may fail, how often

ASSUME H2Assumption == H2Low \in Nat /\ H2KeyMax \in Nat

VARIABLES
    media,      \* [off, dev, torn]: saved_base, whose block is in media, and whether a failed read went over it
    h2f,        \* slot -> struct hfile
    mixed,      \* history: files on two devices have been open at the same time
    h2res, h2fails
h2Vars == <<media, h2f, mixed, h2res, h2fails>>

H2NoRef == [type |-> "none", off |-> -1, key |-> H2KeyMax, span |-> 1]
H2NoBlock == [name |-> "", dir |-> FALSE, size |-> 0, embedded |-> FALSE, refs |-> <<>>, bytes |-> <<>>]
H2NoFile == [open |-> FALSE, dev |-> 0, ref |-> H2NoRef, dir |-> FALSE, size |-> 0, off |-> 0]
H2NoMedia == [off |-> -1, dev |-> 0, torn |-> FALSE]
H2NoRes == [op |-> "", err |-> "", data |-> <<>>, slot |-> 0, start |-> 0, n |-> 0, path |-> <<>>, off |-> -1, torn |-> FALSE]
H2Block(d, off) == IF off \in DOMAIN H2Disks[d].blocks THEN H2Disks[d].blocks[off] ELSE H2NoBlock
InMedia(m) == IF m.torn THEN H2NoBlock ELSE H2Block(m.dev, m.off)

\* h2read() into media: a carries m (media), k (the read that fails), rc.
H2Fail(a) == [a EXCEPT !.m.torn = TRUE, !.k = 0, !.rc = -1]
Count(k) == IF k = 0 THEN 0 ELSE k - 1

\* The block of base is loaded, unless saved_base names it.
LoadBase(a, d, base) ==
    IF base.type = "volume" \/ a.m.off = base.off THEN a
    ELSE IF a.k = 1 THEN H2Fail(a)
    ELSE [a EXCEPT !.m = [off |-> base.off, dev |-> d, torn |-> FALSE], !.k = Count(@)]

\* The reference with the lowest key that has part in beg .. end; of two with
\* one key the last.
Best(refs, beg, end) ==
    LET S == {i \in 1 .. Len(refs) : refs[i].type # "none" /\ refs[i].key + refs[i].span - 1 >= beg /\ refs[i].key <= end}
        low == {i \in S : \A j \in S : refs[i].key <= refs[j].key}
    IN IF S = {} THEN H2NoRef ELSE refs[CHOOSE i \in low : \A j \in low : j <= i]

\* h2lookup(): rc is 0 (nothing), -1 (error) or 1, and then ref is what was
\* found and data its bytes, or blk its inode.
RECURSIVE h2lookup(_, _, _, _, _)
h2lookup(a, d, base, beg, end) ==
    LET b == LoadBase(a, d, base)
        refs == IF base.type = "volume" THEN base.set ELSE InMedia(b.m).refs
        best == Best(refs, beg, end)
        sub == h2lookup(b, d, best, beg, end)
        next == best.key + best.span
    IN IF base.off = -1 THEN [a EXCEPT !.rc = -1]
       ELSE IF b.rc = -1 THEN b
       ELSE IF base.type = "inode" /\ InMedia(b.m).embedded
            THEN [b EXCEPT !.rc = 1, !.ref = [H2NoRef EXCEPT !.type = "data", !.key = 0], !.blk = InMedia(b.m)]
       ELSE IF best.type = "none" THEN [b EXCEPT !.rc = 0]
       ELSE IF best.type = "indirect"
            THEN IF sub.rc = 0 /\ next <= end THEN h2lookup(sub, d, base, next, end) ELSE sub
       ELSE IF b.k = 1 THEN H2Fail(b)
       ELSE [b EXCEPT !.m = H2NoMedia, !.k = Count(@), !.rc = 1, !.ref = best, !.blk = H2Block(d, best.off)]

H2Begin(k) == [m |-> media, k |-> k, rc |-> 0, ref |-> H2NoRef, blk |-> H2NoBlock]
Cleared(a) == [a EXCEPT !.m = H2NoMedia]

\* h2init(): the volume header with the highest mirror_tid, up to the first
\* that cannot be read or is none; then the super root and the PFS "BOOT".
Volumes(d, k) ==
    LET vols == H2Disks[d].vols
        stop == {i \in 1 .. Len(vols) : ~vols[i].magic \/ i = k}
        n == IF stop = {} THEN Len(vols) ELSE (CHOOSE i \in stop : \A j \in stop : i <= j) - 1
    IN 1 .. n
BestVolume(d, k) ==
    CHOOSE i \in Volumes(d, k) : \A j \in Volumes(d, k) :
        \/ H2Disks[d].vols[j].tid < H2Disks[d].vols[i].tid
        \/ H2Disks[d].vols[j].tid = H2Disks[d].vols[i].tid /\ i <= j
OrNone(a) == IF a.rc # 1 THEN [a EXCEPT !.rc = -1] ELSE Cleared(a)
BootPfs(a, d) ==
    IF a.rc # 1 THEN [a EXCEPT !.rc = -1]
    ELSE OrNone(h2lookup(Cleared(a), d, a.ref, H2BootKey, H2BootKey))
h2init(d, k) ==
    LET tried == Cardinality(Volumes(d, k)) + (IF Cardinality(Volumes(d, k)) < Len(H2Disks[d].vols) THEN 1 ELSE 0)
        left == IF k <= tried THEN 0 ELSE k - tried
        vol == [type |-> "volume", off |-> 0, key |-> 0, span |-> 1, set |-> H2Disks[d].vols[BestVolume(d, k)].set]
    IN IF Volumes(d, k) = {} \/ left = 1 THEN [Cleared(H2Begin(0)) EXCEPT !.rc = -1, !.m.torn = FALSE]
       ELSE BootPfs(h2lookup(Cleared(H2Begin(Count(left))), d, vol, H2SrootKey, H2SrootKey), d)

\* h2resolve(): one name.  An error of h2lookup() is taken for an inode, and
\* there is none: wild.
RECURSIVE ResolveKey(_, _, _, _)
ResolveKey(b, d, dir, name) ==
    IF b.rc # 1 \/ b.blk.name = name THEN b
    ELSE ResolveKey(h2lookup([b EXCEPT !.rc = 0], d, dir, b.ref.key + 1, H2Hash[name] + H2Low), d, dir, name)
ResolveName(a, d, name) ==
    ResolveKey(h2lookup([a EXCEPT !.rc = 0], d, a.ref, H2Hash[name], H2Hash[name] + H2Low), d, a.ref, name)
H2Step(a, d, name) ==
    IF a.rc # 1 THEN a ELSE IF ~a.blk.dir THEN [a EXCEPT !.rc = 0] ELSE ResolveName(a, d, name)
h2resolve(a, d, path) == FoldLeft(LAMBDA b, name : H2Step(b, d, name), [a EXCEPT !.rc = 1], path)

H2Count(k) == h2fails' = IF k = 0 THEN h2fails ELSE h2fails + 1

\* hammer2_open()
hammer2_open(slot, d, path, k) ==
    /\ ~h2f[slot].open
    /\ \E a \in {h2init(d, k)} : \E w \in {h2resolve([a EXCEPT !.blk = [H2NoBlock EXCEPT !.dir = TRUE]], d, path)} :
       LET res == [H2NoRes EXCEPT !.op = "open", !.path = path, !.slot = slot]
       IN \/ /\ a.rc = -1 /\ a.k = 0 /\ media' = a.m /\ UNCHANGED h2f
             /\ h2res' = [res EXCEPT !.err = "ENODEV"]
          \/ /\ a.rc # -1 /\ w.rc # 1 /\ w.k = 0 /\ media' = w.m /\ UNCHANGED h2f
             /\ h2res' = [res EXCEPT !.err = IF w.rc = 0 THEN "ENOENT" ELSE "wild"]
          \/ /\ a.rc # -1 /\ w.rc = 1 /\ w.k = 0 /\ media' = w.m
             /\ h2f' = [h2f EXCEPT ![slot] = [open |-> TRUE, dev |-> d, ref |-> w.ref, dir |-> w.blk.dir,
                                              size |-> w.blk.size, off |-> 0]]
             /\ h2res' = [res EXCEPT !.off = w.ref.off]
    /\ mixed' = (mixed \/ \E s \in H2Slots : h2f[s].open /\ h2f[s].dev # d)
    /\ H2Count(k)

Zeros(n) == [j \in 1 .. n |-> 0]
\* h2readfile(): what is before the leaf found is zero.
RECURSIVE h2readfile(_, _, _, _, _, _)
ReadLeaf(b, d, ref, off, len, out, left, zfill, n) ==
    h2readfile(b, d, ref, off + zfill + n, len - zfill - n,
               out \o Zeros(zfill) \o SubSeq(b.blk.bytes, left + 1, left + n))
ReadPart(b, d, ref, off, len, out, left, zfill) ==
    ReadLeaf(b, d, ref, off, len, out, left, zfill,
             IF Len(b.blk.bytes) - left > len - zfill THEN len - zfill ELSE Len(b.blk.bytes) - left)
ReadFound(b, d, ref, off, len, out) ==
    IF b.rc = -1 THEN [a |-> b, out |-> out]
    ELSE IF b.rc = 0 THEN [a |-> b, out |-> out \o Zeros(len)]
    ELSE ReadPart(b, d, ref, off, len, out, IF b.ref.key < off THEN off - b.ref.key ELSE 0,
                  IF b.ref.key > off THEN b.ref.key - off ELSE 0)
h2readfile(a, d, ref, off, len, out) ==
    IF len = 0 THEN [a |-> a, out |-> out]
    ELSE ReadFound(h2lookup([a EXCEPT !.rc = 0], d, ref, off, off + len - 1), d, ref, off, len, out)
hammer2_read(slot, n, k) ==
    /\ h2f[slot].open /\ ~h2f[slot].dir
    /\ LET f == h2f[slot]
           len == IF f.off >= f.size THEN 0 ELSE IF f.off + n > f.size THEN f.size - f.off ELSE n
       IN \E s \in {h2readfile(H2Begin(k), f.dev, f.ref, f.off, len, <<>>)} :
          LET eio == s.a.rc = -1 /\ s.out = <<>> IN
          /\ s.a.k = 0 /\ media' = s.a.m
          /\ h2f' = [h2f EXCEPT ![slot].off = @ + Len(s.out)]
          /\ h2res' = [H2NoRes EXCEPT !.op = "read", !.slot = slot, !.n = n, !.start = f.off, !.data = s.out,
                                      !.err = IF eio THEN "EIO" ELSE IF s.a.rc = -1 THEN "short" ELSE "",
                                      !.torn = media.torn]
    /\ H2Count(k) /\ UNCHANGED mixed

hammer2_seek(slot, off) ==
    /\ h2f[slot].open /\ h2f' = [h2f EXCEPT ![slot].off = off] /\ h2res' = H2NoRes
    /\ UNCHANGED <<media, mixed, h2fails>>

hammer2_readdir(slot, k) ==
    /\ h2f[slot].open /\ h2f[slot].dir
    /\ LET f == h2f[slot]
           res == [H2NoRes EXCEPT !.op = "readdir", !.slot = slot, !.start = f.off, !.torn = media.torn]
       IN \E a \in {h2lookup(H2Begin(k), f.dev, f.ref, f.off, H2KeyMax)} :
          /\ a.k = 0 /\ media' = a.m
          /\ IF a.rc = 1
             THEN /\ h2f' = [h2f EXCEPT ![slot].off = a.ref.key + 1]
                  /\ h2res' = [res EXCEPT !.off = a.ref.off]
             ELSE UNCHANGED h2f /\ h2res' = [res EXCEPT !.err = "ENOENT"]
    /\ H2Count(k) /\ UNCHANGED mixed

hammer2_close(slot) ==
    /\ h2f[slot].open /\ h2f' = [h2f EXCEPT ![slot] = H2NoFile] /\ h2res' = H2NoRes
    /\ UNCHANGED <<media, mixed, h2fails>>

H2Init == /\ media = H2NoMedia /\ h2f = [s \in H2Slots |-> H2NoFile] /\ mixed = FALSE
          /\ h2res = H2NoRes /\ h2fails = 0
H2Tries == IF h2fails < H2MaxFails THEN {0} \cup H2Faults ELSE {0}
H2Next == \E slot \in H2Slots :
    \/ \E k \in H2Tries : \/ \E d \in DOMAIN H2Disks, p \in H2Paths : hammer2_open(slot, d, p, k)
                          \/ \E n \in H2Reads : hammer2_read(slot, n, k)
                          \/ hammer2_readdir(slot, k)
    \/ \E off \in H2Seeks : hammer2_seek(slot, off)
    \/ hammer2_close(slot)

-----------------------------------------------------------------------------
(* Properties *)

\* All leaves below a block, without media.
RECURSIVE Leaves(_, _)
Leaves(d, refs) ==
    UNION {IF refs[i].type = "indirect" THEN Leaves(d, H2Block(d, refs[i].off).refs)
           ELSE IF refs[i].type = "none" THEN {} ELSE {refs[i]} : i \in 1 .. Len(refs)}
H2Byte(d, ino, off) ==
    LET es == {r \in Leaves(d, H2Block(d, ino).refs) : r.key <= off /\ off < r.key + Len(H2Block(d, r.off).bytes)}
    IN IF H2Block(d, ino).embedded THEN H2Block(d, ino).bytes[off + 1]
       ELSE IF es = {} THEN 0 ELSE LET r == CHOOSE x \in es : TRUE IN H2Block(d, r.off).bytes[off - r.key + 1]

\* hammer2_read() gives the bytes of the file's leaves with zeros between
\* them, though lookups recurse through the one block buffer that all files
\* share; unless a failed read has gone over it, or files of two devices are
\* open, whose blocks may have the same offset.
H2ReadRight ==
    h2res.op = "read" /\ ~h2res.torn /\ ~mixed =>
        LET f == h2f[h2res.slot]
        IN h2res.data = [i \in 1 .. Len(h2res.data) |-> H2Byte(f.dev, f.ref.off, h2res.start + i - 1)]

H2Entry(d, off, name) ==
    LET es == {r \in Leaves(d, H2Block(d, off).refs) : H2Block(d, r.off).name = name}
    IN IF off = -1 \/ es = {} THEN -1 ELSE (CHOOSE x \in es : TRUE).off
\* hammer2_open() finds the inode with the name among those of one hash, in
\* the inode's references or below an indirect block.
H2FindRight ==
    h2res.op = "open" /\ h2res.err \in {"", "ENOENT"} /\ h2f[h2res.slot].open =>
        LET d == h2f[h2res.slot].dev
            v == H2Disks[d].vols[BestVolume(d, 0)]
            root == CHOOSE r \in Leaves(d, v.set) : r.key = H2SrootKey
            boot == CHOOSE r \in Leaves(d, H2Block(d, root.off).refs) : r.key = H2BootKey
        IN h2fails = 0 => h2res.off = FoldLeft(LAMBDA o, nm : H2Entry(d, o, nm), boot.off, h2res.path)
=============================================================================
