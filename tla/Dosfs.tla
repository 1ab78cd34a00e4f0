------------------------------- MODULE Dosfs -------------------------------
(***************************************************************************)
(* lib/libstand/dosfs.c: FAT12, FAT16 and FAT32 with long names.           *)
(*                                                                         *)
(* A sector holds SECSIZ units.  In a directory a unit is an entry and     *)
(* elsewhere a byte of a file; the FAT has FatSecsiz bytes per sector, so  *)
(* that an entry of a FAT12 may lie in two sectors.  Names are sequences   *)
(* of pieces, one for each entry that a long name takes; names that differ *)
(* in case only are the same.  The one sector buffer (fs->buf) serves the  *)
(* FAT and the files; dv_strategy() may fail and leaves what it was to     *)
(* fill overwritten in part, which `torn' records.                         *)
(***************************************************************************)
EXTENDS Integers, Sequences, SequencesExt, FiniteSets

CONSTANTS
    SECSIZ, FatSecsiz,
    Fat12Max,       \* 0xff6, clusters from which on a FAT has 16 bits
    FatLast,        \* 0xff7, 0xfff7 and 0xffffff7: what is greater ends a chain
    Half,           \* 2^16: fsize() keeps the cluster modulo this
    DosVolumes,     \* sequence of [bpb, fat, data]
    DosPaths,       \* paths that are opened
    DosMaxRead, DosMaxFails

LOCLUS == 2
Min2(a, b) == IF a < b THEN a ELSE b

ASSUME DosAssumption ==
    /\ SECSIZ \in Nat \ {0} /\ FatSecsiz \in Nat \ {0, 1} /\ Half \in Nat \ {0}
    /\ \A v \in DOMAIN DosVolumes : \A s \in DOMAIN DosVolumes[v].data : Len(DosVolumes[v].data[s]) = SECSIZ

VARIABLES
    volNo,      \* the volume in the drive
    dosF,       \* DOS_FILE with its DOS_FS
    dosWalk,    \* namede() and lookup(): where they are
    dosCall,    \* dos_readdir(): where it is
    dosRes,     \* what the last call gave
    dosFails

dosVars == <<volNo, dosF, dosWalk, dosCall, dosRes, dosFails>>

-----------------------------------------------------------------------------
\* parsebs(): the layout, or ok = FALSE.  The data begin at lsndta; xclus is
\* the highest cluster, which the size of the FAT limits too.
Fatsz(dirents, xclus) == IF dirents = 0 THEN 32 ELSE IF xclus < Fat12Max THEN 12 ELSE 16
Clusters(b, spf, dirents, sc, lsndir, lsndta, xclus) ==
    [ok |-> /\ b.sig /\ b.spc # 0 /\ spf # 0 /\ b.ressec # 0 /\ sc # 0
            /\ IF b.spf = 0 THEN b.fats \in 1 .. 16 /\ b.rdcl >= LOCLUS
                            ELSE b.fats = 2 /\ b.dirents # 0
            /\ lsndta <= sc /\ xclus >= LOCLUS,
     spc |-> b.spc, bsize |-> b.spc * SECSIZ, lsnfat |-> b.ressec, lsndir |-> lsndir,
     lsndta |-> lsndta, dirents |-> dirents, rdcl |-> IF b.spf = 0 THEN b.rdcl ELSE 0,
     fatsz |-> Fatsz(dirents, xclus),
     xclus |-> Min2(xclus, ((spf * FatSecsiz * 8) \div Fatsz(dirents, xclus)) - 1)]
DataAt(b, spf, dirents, sc, lsndir, lsndta) ==
    Clusters(b, spf, dirents, sc, lsndir, lsndta, ((sc - lsndta) \div b.spc) + 1)
DirAt(b, spf, dirents, sc, lsndir) == DataAt(b, spf, dirents, sc, lsndir, lsndir + (dirents \div SECSIZ))
Layout(b, spf, dirents, sc) == DirAt(b, spf, dirents, sc, b.ressec + spf * b.fats)
parsebs(b) ==
    Layout(b, IF b.spf = 0 THEN b.lspf ELSE b.spf, IF b.spf = 0 THEN 0 ELSE b.dirents,
           IF b.secs # 0 THEN b.secs ELSE b.lsecs)

vol == DosVolumes[volNo]
Fs == parsebs(vol.bpb)
okclus(c) == c >= LOCLUS /\ c <= Fs.xclus
fatend(c) == c > FatLast
blklsn(c) == Fs.lsndta + (c - LOCLUS) * Fs.spc
fatoff(c) == LET bits == Fs.fatsz
             IN CASE bits = 12 -> c + (c \div 2) [] bits = 16 -> 2 * c [] OTHER -> 4 * c

Nothing == [kind |-> "end", name |-> "", seq |-> 0, last |-> FALSE, chk |-> 0,
            dir |-> FALSE, clus |-> 0, size |-> 0]
Sector(s) == IF s \in DOMAIN vol.data THEN vol.data[s] ELSE [i \in 1 .. SECSIZ |-> Nothing]
RootDe == [Nothing EXCEPT !.kind = "de", !.dir = TRUE, !.clus = Fs.rdcl]
DotDe(name) == [Nothing EXCEPT !.kind = "de", !.name = name, !.dir = TRUE]

NoDos == [de |-> Nothing, offset |-> 0, c |-> 0, bufsec |-> 0, torn |-> FALSE]
NoDosWalk == [at |-> "no", comps |-> <<>>, path |-> <<>>, de |-> Nothing, clus |-> 0,
              xdn |-> 0, chk |-> 0, lfn |-> <<>>]
NoDosCall == [at |-> "no", xdn |-> 0, chk |-> 0, fn |-> <<>>]
DosNoRes == [op |-> "", err |-> "", data |-> <<>>, n |-> 0, start |-> 0, path |-> <<>>, name |-> <<>>, clus |-> 0]

-----------------------------------------------------------------------------
(* ioget(), iobuf(), ioread(), fatget(): an attempt a carries the file, the *)
(* number k of the call of dv_strategy() that fails (0: none) and err.      *)

iobuf(a, sec) ==
    IF a.err \/ a.f.bufsec = sec THEN a
    ELSE IF a.k = 1 THEN [a EXCEPT !.f.torn = TRUE, !.k = 0, !.err = TRUE]
    ELSE [a EXCEPT !.f.bufsec = sec, !.f.torn = FALSE, !.k = IF @ = 0 THEN 0 ELSE @ - 1]

\* What is in the buffer, which need not be what it is taken for.
Buf(f) == IF f.torn THEN [i \in 1 .. SECSIZ |-> [Nothing EXCEPT !.kind = "torn"]] ELSE Sector(f.bufsec)

ioget(a, sec, nsec) ==
    IF a.err \/ nsec = 0 THEN a
    ELSE IF a.k = 1 THEN [a EXCEPT !.k = 0, !.err = TRUE]
    ELSE [a EXCEPT !.k = IF @ = 0 THEN 0 ELSE @ - 1,
                   !.data = @ \o FlattenSeq([i \in 1 .. nsec |-> Sector(sec + i - 1)])]

IoTail(a, tail) == IF a.err THEN a ELSE [a EXCEPT !.data = @ \o SubSeq(Buf(a.f), 1, tail)]
IoWhole(a, sec, n) ==
    IF n % SECSIZ = 0 THEN ioget(a, sec, n \div SECSIZ)
    ELSE IoTail(iobuf(ioget(a, sec, n \div SECSIZ), sec + n \div SECSIZ), n % SECSIZ)
IoHead(a, sec, off, n, head) ==
    IoWhole(IF a.err THEN a ELSE [a EXCEPT !.data = SubSeq(Buf(a.f), off + 1, off + head)],
            sec + 1, n - head)
\* n units at offset: the part before a sector's end and the part of the last
\* sector through the buffer, what is between straight from the disk.
ioread(f, offset, n, k) ==
    IF offset % SECSIZ = 0
    THEN IoWhole([f |-> f, k |-> k, err |-> FALSE, data |-> <<>>], offset \div SECSIZ, n)
    ELSE IoHead(iobuf([f |-> f, k |-> k, err |-> FALSE, data |-> <<>>], offset \div SECSIZ),
                offset \div SECSIZ, offset % SECSIZ, n, Min2(SECSIZ - (offset % SECSIZ), n))

\* fatget(): a.c becomes the next cluster of the chain.
FatEntry(b) ==
    IF b.err THEN b
    ELSE [b EXCEPT !.c = IF b.f.torn \/ @ \notin DOMAIN vol.fat THEN 1 ELSE vol.fat[@]]
FatBytes(a, fs, off) ==
    iobuf(iobuf(a, fs.lsnfat + off \div FatSecsiz),
          fs.lsnfat + (IF fs.fatsz = 32 THEN off ELSE off + 1) \div FatSecsiz)
fatget(a) == FatEntry(FatBytes(a, Fs, fatoff(a.c)))

\* fatcnt(): clusters of a chain, -1 on an error; a chain longer than the FAT
\* is one that never ends.
Counted(b) == IF b.err THEN b ELSE [b EXCEPT !.n = @ + 1]
FatcntStep(a, i) == IF a.err \/ ~okclus(a.c) THEN a ELSE Counted(fatget(a))
ChainEnded(a) == [a EXCEPT !.n = IF a.err \/ ~fatend(a.c) THEN -1 ELSE @]
fatcnt(f, c, k) ==
    ChainEnded(FoldLeft(FatcntStep, [f |-> f, k |-> k, err |-> FALSE, c |-> c, n |-> 0, data |-> <<>>],
                        [i \in 1 .. Fs.xclus |-> i]))

InUnits(a) == [f |-> a.f, k |-> a.k, err |-> a.n = -1, n |-> a.n * Fs.bsize]
\* fsize(): of a directory, by its chain; only 16 bits of its cluster count.
fsize(f, k) ==
    LET c == f.de.clus % Half
        s == [f |-> f, k |-> k, err |-> FALSE, n |-> f.de.size]
    IN IF f.de.size # 0 \/ ~f.de.dir THEN s
       ELSE IF c = 0 THEN [s EXCEPT !.n = Fs.dirents]
       ELSE InUnits(fatcnt(f, c, k))

-----------------------------------------------------------------------------
(* dos_open(): dos_mount(), namede(), lookup() *)

DosIdle == dosWalk.at = "no" /\ dosCall = NoDosCall
CountFail(k) == dosFails' = IF k = 0 THEN dosFails ELSE dosFails + 1

DosOpenDone(err, f) ==
    /\ dosWalk' = NoDosWalk
    /\ dosF' = IF err = "" THEN f ELSE NoDos
    /\ dosRes' = [DosNoRes EXCEPT !.op = "open", !.err = err, !.path = dosWalk.path,
                                  !.clus = IF err = "" THEN f.de.clus ELSE 0]

\* The boot sector is read and parsed, and stays in the buffer.
dos_open(path, k) ==
    /\ DosIdle /\ k \in {0, 1}
    /\ IF Fs.ok /\ k = 0
       THEN /\ dosWalk' = [NoDosWalk EXCEPT !.at = "name", !.comps = path, !.path = path, !.de = RootDe]
            /\ dosRes' = DosNoRes
       ELSE /\ dosWalk' = NoDosWalk
            /\ dosRes' = [DosNoRes EXCEPT !.op = "open", !.err = IF k = 0 THEN "EINVAL" ELSE "EIO", !.path = path]
    /\ dosF' = NoDos /\ CountFail(k) /\ UNCHANGED <<volNo, dosCall>>

\* namede(): the next component, or what was found is checked and opened.
namede ==
    /\ dosWalk.at = "name"
    /\ LET de == dosWalk.de
           name == Head(dosWalk.comps)
           clus == IF de.clus = 0 /\ Fs.fatsz = 32 THEN Fs.rdcl ELSE de.clus
           bad == \/ ~de.dir /\ ((de.clus = 0) # (de.size = 0))
                  \/ de.dir /\ de.size # 0
                  \/ de.clus # 0 /\ ~okclus(de.clus)
       IN \/ /\ dosWalk.comps = <<>>
             /\ DosOpenDone(IF bad THEN "EINVAL" ELSE "", [dosF EXCEPT !.de = de])
          \/ /\ dosWalk.comps # <<>> /\ ~de.dir /\ DosOpenDone("ENOTDIR", NoDos)
          \/ /\ dosWalk.comps # <<>> /\ de.dir
             /\ dosWalk' = IF de.clus = 0 /\ name \in {<<".">>, <<"..">>}
                           THEN [dosWalk EXCEPT !.comps = Tail(@), !.de = DotDe(name[1])]
                           ELSE [dosWalk EXCEPT !.at = "lookup", !.clus = clus, !.xdn = 0,
                                                !.chk = 0, !.lfn = <<>>]
             /\ UNCHANGED <<dosF, dosRes>>
    /\ UNCHANGED <<volNo, dosCall, dosFails>>

\* Mutant: the check sum of a long name is not compared with the short name.
LongMatchesAny(w, e, name) == w.xdn = 1 /\ w.lfn = name

LongMatches(w, e, name) == w.xdn = 1 /\ w.chk = e.chk /\ w.lfn = name

\* An entry of a directory: w.found and w.end tell what came of it.
LookupEntry(name, w, e) ==
    LET fresh == e.kind = "xde" /\ e.last
        follows == e.kind = "xde" /\ e.seq + 1 = w.xdn /\ e.chk = w.chk
        lfn == IF fresh THEN [i \in 1 .. e.seq |-> ""] ELSE w.lfn
    IN IF w.end \/ w.found # Nothing THEN w
       ELSE IF e.kind = "end" THEN [w EXCEPT !.end = TRUE]
       ELSE IF (fresh \/ follows) /\ e.seq \in 1 .. 20
            THEN [w EXCEPT !.xdn = e.seq, !.chk = e.chk, !.lfn = [lfn EXCEPT ![e.seq] = e.name]]
       ELSE IF e.kind = "de" /\ (LongMatches(w, e, name) \/ <<e.name>> = name)
            THEN [w EXCEPT !.found = e]
       ELSE [w EXCEPT !.xdn = 0, !.chk = IF fresh THEN e.chk ELSE @]

\* lookup(): the sectors of one cluster, or of the root directory, and then the
\* next cluster.  The sectors go to a static array, not to the buffer.
lookup(k) ==
    /\ dosWalk.at = "lookup"
    /\ LET root == dosWalk.clus = 0
           nsec == IF root THEN Fs.dirents \div SECSIZ ELSE Fs.spc
           lsec == IF root THEN Fs.lsndir ELSE blklsn(dosWalk.clus)
           start == [xdn |-> dosWalk.xdn, chk |-> dosWalk.chk, lfn |-> dosWalk.lfn,
                     end |-> FALSE, found |-> Nothing]
       IN \E w \in {FoldLeft(LAMBDA a, e : LookupEntry(Head(dosWalk.comps), a, e), start,
                              FlattenSeq([i \in 1 .. nsec |-> Sector(lsec + i - 1)]))},
             n \in {fatget([f |-> dosF, k |-> IF k > 1 THEN k - 1 ELSE 0, err |-> FALSE,
                            c |-> dosWalk.clus, data |-> <<>>])} :
          \/ ~root /\ ~okclus(dosWalk.clus) /\ k = 0 /\ DosOpenDone("EINVAL", NoDos)
          \/ (root \/ okclus(dosWalk.clus)) /\ k = 1 /\ DosOpenDone("EIO", NoDos)
          \/ /\ root \/ okclus(dosWalk.clus)
             /\ k = 0 /\ w.found # Nothing
             /\ dosWalk' = [dosWalk EXCEPT !.at = "name", !.comps = Tail(@), !.de = w.found]
             /\ UNCHANGED <<dosF, dosRes>>
          \/ /\ root \/ okclus(dosWalk.clus)
             /\ k = 0 /\ w.found = Nothing /\ (w.end \/ root) /\ DosOpenDone("ENOENT", NoDos)
          \/ /\ okclus(dosWalk.clus) /\ w.found = Nothing /\ ~w.end /\ k # 1
             /\ \/ n.err /\ DosOpenDone("EIO", NoDos)
                \/ ~n.err /\ k = 0 /\ fatend(n.c) /\ DosOpenDone("ENOENT", NoDos)
                \/ /\ ~n.err /\ k = 0 /\ ~fatend(n.c)
                   /\ dosF' = n.f
                   /\ dosWalk' = [dosWalk EXCEPT !.clus = n.c, !.xdn = w.xdn, !.chk = w.chk, !.lfn = w.lfn]
                   /\ UNCHANGED dosRes
    /\ CountFail(k) /\ UNCHANGED <<volNo, dosCall>>

-----------------------------------------------------------------------------
(* dos_read(), dos_seek(), dos_readdir(), dos_close() *)

\* Steps along the chain before a round reads.
ChainSteps(f) ==
    IF f.c = 0 THEN f.offset \div Fs.bsize
    ELSE IF f.offset % Fs.bsize = 0 THEN 1 ELSE 0

Checked(b) == IF b.err THEN b ELSE [b EXCEPT !.err = ~okclus(b.c)]
Follow(a, i) == IF a.err THEN a ELSE Checked(fatget(a))

\* One round of the loop of dos_read(): what is left of the cluster, or all of
\* a root directory that has no clusters.
RoundRead(a, c, n, r) ==
    IF r.err THEN [a EXCEPT !.f = r.f, !.k = r.k, !.err = TRUE]
    ELSE [f |-> [r.f EXCEPT !.offset = @ + n, !.c = c], k |-> r.k, err |-> FALSE,
          cnt |-> a.cnt - n, data |-> a.data \o r.data]
RoundAt(a, p, off, n) ==
    IF p.err THEN [a EXCEPT !.f = p.f, !.k = p.k, !.err = TRUE]
    ELSE RoundRead(a, p.c, n, ioread(p.f, (IF p.c = 0 THEN Fs.lsndir ELSE blklsn(p.c)) * SECSIZ + off, n, p.k))
RoundIn(a, f, off) ==
    RoundAt(a, FoldLeft(Follow, [f |-> f, k |-> a.k, err |-> FALSE, data |-> <<>>,
                                 c |-> IF f.c = 0 THEN f.de.clus ELSE f.c],
                        [j \in 1 .. IF f.de.clus = 0 THEN 0 ELSE ChainSteps(f) |-> j]),
            off, IF f.de.clus = 0 THEN a.cnt ELSE Min2(Fs.bsize - off, a.cnt))
ReadRound(a, i) ==
    IF a.err \/ a.cnt = 0 THEN a
    ELSE RoundIn(a, a.f, IF a.f.de.clus = 0 THEN a.f.offset ELSE a.f.offset % Fs.bsize)

UpTo(s, n, offset) ==
    IF s.err THEN [f |-> s.f, k |-> s.k, err |-> TRUE, cnt |-> n, data |-> <<>>]
    ELSE FoldLeft(ReadRound, [f |-> s.f, k |-> s.k, err |-> FALSE, cnt |-> Min2(n, s.n - offset), data |-> <<>>],
                  [i \in 1 .. n |-> i])
ReadUnits(f, n, k) == UpTo(fsize(f, k), n, f.offset)

DosOpen == DosIdle /\ dosF.de # Nothing

\* k counts the calls down; if it does not come to 0 nothing failed.
dos_read(n, k) ==
    /\ DosOpen
    /\ \E r \in {ReadUnits(dosF, n, k)} :
          /\ r.k = 0 /\ dosF' = r.f
          /\ dosRes' = [DosNoRes EXCEPT !.op = IF dosF.torn THEN "torn" ELSE "read", !.data = r.data,
                            !.err = IF r.err THEN "EIO" ELSE "", !.n = n, !.start = dosF.offset]
    /\ CountFail(k) /\ UNCHANGED <<volNo, dosWalk, dosCall>>

dos_seek(off) ==
    /\ DosOpen /\ off <= dosF.de.size
    /\ dosF' = [dosF EXCEPT !.offset = off, !.c = 0] /\ dosRes' = DosNoRes
    /\ UNCHANGED <<volNo, dosWalk, dosCall, dosFails>>

dos_readdir ==
    /\ DosOpen /\ dosF.de.dir
    /\ dosCall' = [NoDosCall EXCEPT !.at = "entry"] /\ dosRes' = DosNoRes
    /\ UNCHANGED <<volNo, dosF, dosWalk, dosFails>>

ReaddirDone(err, e, fn) ==
    /\ dosCall' = NoDosCall
    /\ dosRes' = [DosNoRes EXCEPT !.op = "readdir", !.err = err, !.name = fn, !.clus = e.clus % Half]

\* One entry is read.  A long name whose check sum is wrong hides its entry.
ReaddirEntry(k) ==
    /\ dosCall.at = "entry"
    /\ \E r \in {ReadUnits(dosF, 1, k)} :
       LET e == IF r.data = <<>> THEN Nothing ELSE r.data[1]
           fresh == e.kind = "xde" /\ e.last
           follows == e.kind = "xde" /\ e.seq + 1 = dosCall.xdn /\ e.chk = dosCall.chk
           fn == IF fresh THEN [i \in 1 .. e.seq |-> ""] ELSE dosCall.fn
       IN /\ r.k = 0 /\ dosF' = r.f
          /\ \/ r.err /\ ReaddirDone("EIO", Nothing, <<>>)
             \/ /\ ~r.err /\ e.kind = "end"
                /\ ReaddirDone("ENOENT", Nothing, <<>>)
             \/ /\ ~r.err /\ e.kind = "de"
                /\ \/ dosCall.xdn = 1 /\ e.chk = dosCall.chk /\ ReaddirDone("", e, dosCall.fn)
                   \/ dosCall.xdn # 1 /\ ReaddirDone("", e, <<e.name>>)
                   \/ /\ dosCall.xdn = 1 /\ e.chk # dosCall.chk
                      /\ dosCall' = [dosCall EXCEPT !.xdn = 0] /\ UNCHANGED dosRes
             \/ /\ ~r.err /\ e.kind \notin {"end", "de"}
                /\ dosCall' =
                    IF (fresh \/ follows) /\ e.seq \in 1 .. 20
                    THEN [dosCall EXCEPT !.xdn = e.seq, !.chk = e.chk, !.fn = [fn EXCEPT ![e.seq] = e.name]]
                    ELSE [dosCall EXCEPT !.xdn = 0, !.chk = IF fresh THEN e.chk ELSE @]
                /\ UNCHANGED dosRes
    /\ CountFail(k) /\ UNCHANGED <<volNo, dosWalk>>

dos_close ==
    /\ DosOpen /\ dosF' = NoDos /\ dosRes' = DosNoRes
    /\ UNCHANGED <<volNo, dosWalk, dosCall, dosFails>>

-----------------------------------------------------------------------------
DosInit == /\ volNo \in DOMAIN DosVolumes
           /\ dosF = NoDos /\ dosWalk = NoDosWalk /\ dosCall = NoDosCall /\ dosRes = DosNoRes /\ dosFails = 0
DosTries == IF dosFails < DosMaxFails THEN 0 .. 4 ELSE {0}
DosNext == \/ \E k \in DosTries : \/ \E p \in DosPaths : dos_open(p, k)
                                  \/ lookup(k) \/ ReaddirEntry(k)
                                  \/ \E n \in 1 .. DosMaxRead : dos_read(n, k)
           \/ namede \/ dos_readdir \/ dos_close
           \/ \E off \in 0 .. dosF.de.size : dos_seek(off)

-----------------------------------------------------------------------------
(* Properties *)

\* The clusters of a file, from its first, without buffer or kept cluster.
Chain[c \in Int, n \in Nat] ==
    IF n = 0 \/ ~okclus(c) THEN <<>> ELSE <<c>> \o Chain[vol.fat[c], n - 1]
Sectors(first, n) == FlattenSeq([i \in 1 .. n |-> Sector(first + i - 1)])
FileUnits(de) ==
    LET ch == Chain[de.clus, Fs.xclus]
    IN IF de.clus = 0 THEN Sectors(Fs.lsndir, Fs.dirents \div SECSIZ)
       ELSE FlattenSeq([i \in 1 .. Len(ch) |-> Sectors(blklsn(ch[i]), Fs.spc)])

\* dos_read() gives the units of the chain of clusters, and all of them that
\* were asked for and that the file has, whatever clusters and sectors earlier
\* calls have left behind; as long as the buffer was not torn by a failed read.
DosReadRight ==
    dosRes.op = "read" /\ dosF.de # Nothing =>
        LET all == FileUnits(dosF.de)
            size == IF dosF.de.dir THEN Len(all) ELSE dosF.de.size
        IN /\ IsPrefix(dosRes.data, SubSeq(all, dosRes.start + 1, Len(all)))
           /\ dosRes.err = "" /\ dosF.de.clus < Half =>
                Len(dosRes.data) = Min2(dosRes.n, size - dosRes.start)

\* The names an entry of a directory goes by.
LongName(es, i, n) ==
    /\ n < i /\ \A j \in 1 .. n : /\ es[i - j].kind = "xde" /\ es[i - j].seq = j
                                 /\ es[i - j].chk = es[i].chk /\ es[i - j].last = (j = n)
DirNames(es, i) == {<<es[i].name>>} \cup
    {[j \in 1 .. n |-> es[i - j].name] : n \in {m \in 1 .. 20 : LongName(es, i, m)}}
EntriesUsed(es) == {i \in 1 .. Len(es) : es[i].kind = "de" /\ \A j \in 1 .. i : es[j].kind # "end"}
FirstHit(es, hits) == IF hits = {} THEN Nothing ELSE es[CHOOSE i \in hits : \A j \in hits : i <= j]
LookupIn(es, name) == FirstHit(es, {i \in EntriesUsed(es) : name \in DirNames(es, i)})
Lookup(de, name) ==
    IF ~de.dir THEN Nothing ELSE LookupIn(FileUnits(IF de.clus = 0 THEN RootDe ELSE de), name)
OpensRight(end) == IF dosRes.err = "" THEN end # Nothing /\ dosRes.clus = end.clus ELSE end = Nothing
ListsRight(es) == \E i \in EntriesUsed(es) : dosRes.name \in DirNames(es, i) /\ dosRes.clus = es[i].clus % Half
\* dos_open() finds the first entry with a long name that is whole and its own,
\* or with the short name; and what dos_readdir() lists is such a name.
DosFindRight ==
    /\ dosRes.op = "open" /\ Fs.ok /\ dosRes.err \in {"", "ENOENT", "ENOTDIR"} =>
        OpensRight(FoldLeft(Lookup, RootDe, dosRes.path))
    /\ dosRes.op = "readdir" /\ dosRes.err = "" /\ ~dosF.torn /\ dosF.de.clus < Half =>
        ListsRight(FileUnits(dosF.de))
=============================================================================
