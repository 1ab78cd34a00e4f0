------------------------------- MODULE Hammer1 -------------------------------
(***************************************************************************)
(* lib/libstand/hammer1.c as the loader uses it: one B-tree for inodes,    *)
(* directory entries and data, read through a cache of NUMCACHE buffers.   *)
(*                                                                         *)
(* HamDisk maps an address to what is there: a node of the tree, an inode, *)
(* an entry of a directory or a byte; a buffer holds HamBuf addresses.     *)
(* An element is [loc, obj, type, key, tid, del, data, len, sub].          *)
(* dv_strategy() may fail; what the buffer then holds is not known.        *)
(***************************************************************************)
EXTENDS Integers, Sequences, SequencesExt, FiniteSets

CONSTANTS
    NUMCACHE, HamBuf, HamDisk, HamRoot, HamPaths,
    HamNodes,       \* where the nodes of the tree are
    HamMaxKey,      \* HAMMER_MAX_KEY
    HamReads, HamSeeks,  \* bounds: lengths of reads, positions of seeks
    HamMaxFails,
    HamFuel         \* bound: nodes one search looks at before it counts as endless

ASSUME HamAssumption == NUMCACHE \in Nat \ {0} /\ HamBuf \in Nat \ {0} /\ HamRoot \in DOMAIN HamDisk

VARIABLES ham, hamRes, hamFails
hamVars == <<ham, hamRes, hamFails>>

\* Localizations and record types.
LInode == 1
LMisc == 2
TInode == 1
TData == 2
TEntry == 3
Key(loc, obj, type, key) == [loc |-> loc, obj |-> obj, type |-> type, key |-> key, tid |-> 0]
NoKey == Key(0, 0, 0, 0)
NoElm == [loc |-> 0, obj |-> 0, type |-> 0, key |-> 0, tid |-> 0, del |-> 0, data |-> 0, len |-> 0, sub |-> 0]

NoHam == [open |-> FALSE, ino |-> 0, fsize |-> 0, off |-> 0, ldir |-> -1, lcap |-> FALSE,
          cache |-> [i \in 1 .. NUMCACHE |-> [off |-> -1, torn |-> FALSE]]]
NoHamRes == [op |-> "", err |-> "", data |-> <<>>, n |-> 0, start |-> 0, path |-> <<>>, ino |-> 0, torn |-> FALSE]

\* A cached buffer that a failed read has left with nobody knows what.
HamTorn(h) == \E i \in 1 .. NUMCACHE : h.cache[i].torn

-----------------------------------------------------------------------------
\* hread(): the buffer of addr is found, or replaces the one used least; the
\* entry has the new address before the read, and its age after it.  The
\* sequence cache is in the order of be->use.  a carries the state h, the
\* number k of the read that fails, and err.
Recent(cache, i, be) == Append(RemoveAt(cache, i), be)
hread(a, addr) ==
    LET boff == addr \div HamBuf
        hits == {i \in 1 .. NUMCACHE : a.h.cache[i].off = boff}
        hit == CHOOSE i \in hits : TRUE
    IN IF a.err \/ a.endless THEN a
       ELSE IF hits # {} THEN [a EXCEPT !.h.cache = Recent(@, hit, @[hit])]
       ELSE IF a.k = 1 THEN [a EXCEPT !.h.cache[1] = [off |-> boff, torn |-> TRUE], !.k = 0, !.err = TRUE]
       ELSE [a EXCEPT !.h.cache = Recent(@, 1, [off |-> boff, torn |-> FALSE]), !.k = IF @ = 0 THEN 0 ELSE @ - 1]

-----------------------------------------------------------------------------
\* hammer_btree_cmp(): a transaction of zero is greater than all others, and
\* counts for 1 only.
Differ(a, b) ==
    IF a.loc # b.loc THEN a.loc - b.loc ELSE IF a.obj # b.obj THEN a.obj - b.obj
    ELSE IF a.type # b.type THEN a.type - b.type ELSE a.key - b.key
hammer_btree_cmp(a, b) ==
    LET d == Differ(a, b)
    IN IF d # 0 THEN (IF d < 0 THEN -2 ELSE 2)
       ELSE IF a.tid = b.tid THEN 0
       ELSE IF a.tid = 0 \/ (b.tid # 0 /\ a.tid > b.tid) THEN 1 ELSE -1

\* hammer_btree_search_node(): halves, while more than 4 are left.
Halve(elm, node, p) ==
    LET i == p.b + (p.s - p.b) \div 2
    IN IF p.s - p.b <= 4 THEN p
       ELSE IF hammer_btree_cmp(elm, node.elms[i + 1]) <= 1 THEN [p EXCEPT !.s = i] ELSE [p EXCEPT !.b = i]
SearchNode(elm, node) ==
    FoldLeft(LAMBDA p, i : Halve(elm, node, p), [b |-> 0, s |-> node.count], [i \in 1 .. node.count |-> i]).b

\* One node on the way of hfind(); s is [a, search, back, node, e, done].
FirstOf(S) == CHOOSE n \in S : \A m \in S : n <= m
\* the element before the first one greater than what is searched for
StopAt(stop, top) == IF stop = {} THEN top ELSE FirstOf(stop)
Greater(search, node, from, top) == {n \in from .. top - 1 : hammer_btree_cmp(search, node.elms[n + 1]) < 0}
OneBack(n) == IF n > 0 THEN n - 1 ELSE 0
Place(search, node, top) == OneBack(StopAt(Greater(search, node, SearchNode(search, node), top), top))
Live(node, from) == {n \in from .. node.count - 1 : node.elms[n + 1].del = 0}
HfindLeaf(s, node, live) ==
    IF live = {} THEN [s EXCEPT !.search = s.back, !.node = HamRoot]
    ELSE [s EXCEPT !.done = TRUE, !.e = node.elms[FirstOf(live) + 1]]
HfindPlace(key, s, node, n) ==
    IF ~node.internal THEN HfindLeaf(s, node, Live(node, IF hammer_btree_cmp(key, node.elms[n + 1]) > 1 THEN n + 1 ELSE n))
    ELSE IF n = node.count THEN [s EXCEPT !.search = s.back, !.node = HamRoot]
    ELSE [s EXCEPT !.node = node.elms[n + 1].sub, !.back = node.elms[n + 2]]
HfindRead(key, s, node) ==
    IF s.a.err THEN [s EXCEPT !.done = TRUE]
    ELSE HfindPlace(key, s, node, Place(s.search, node, node.count + (IF node.internal THEN 1 ELSE 0)))
HfindNode(key, s, i) == IF s.done THEN s ELSE HfindRead(key, [s EXCEPT !.a = hread(@, s.node)], HamDisk[s.node])

\* hfind(): the first element from key on that is not deleted, if it is not
\* beyond end: a.e, with a.found.  A key beyond the last element goes round
\* for ever.
HfindResult(s, end) ==
    IF ~s.done THEN [s.a EXCEPT !.endless = TRUE]
    ELSE IF s.a.err THEN [s.a EXCEPT !.err = FALSE, !.found = FALSE]      \* NULL, as if not there
    ELSE [s.a EXCEPT !.found = hammer_btree_cmp(end, s.e) >= -1, !.e = s.e]
hfind(a, key, end) ==
    IF a.err \/ a.endless THEN a
    ELSE HfindResult(FoldLeft(LAMBDA x, i : HfindNode(key, x, i),
                              [a |-> a, search |-> key, back |-> NoKey, node |-> HamRoot, e |-> NoElm, done |-> FALSE],
                              [i \in 1 .. HamFuel |-> i]), end)
\* and the data of the element, if it was found
HfindData(b) == IF b.found THEN hread(b, b.e.data) ELSE b

Begin(k) == [h |-> ham, k |-> k, err |-> FALSE, endless |-> FALSE, found |-> FALSE, e |-> NoElm, ino |-> 0, out |-> <<>>]

-----------------------------------------------------------------------------
\* hdirlocalization(): where the entries of a directory are; kept for one
\* directory.  If the inode cannot be read the flag is that of another.
Localized(c, ino) ==
    IF ~c.found THEN c
    ELSE IF c.err THEN [c EXCEPT !.err = FALSE]
    ELSE [c EXCEPT !.h.ldir = ino, !.h.lcap = HamDisk[c.e.data].cap]
InodeKey(ino) == Key(LInode, ino, TInode, 0)
hdirlocalization(a, ino) ==
    IF a.h.ldir = ino \/ a.err \/ a.endless THEN a
    ELSE Localized(HfindData(hfind(a, InodeKey(ino), InodeKey(ino))), ino)
Loc(a) == IF a.h.lcap THEN LInode ELSE LMisc

\* hresolve(): all entries of the directory, from key 0 on.
ResolveEntry(name, s, c) ==
    IF c.endless \/ ~c.found THEN [s EXCEPT !.a = [c EXCEPT !.ino = -1], !.done = TRUE]
    ELSE IF c.err THEN [s EXCEPT !.a = [c EXCEPT !.err = FALSE, !.ino = -1], !.done = TRUE]
    ELSE IF HamDisk[c.e.data].name = name THEN [s EXCEPT !.a = [c EXCEPT !.ino = HamDisk[c.e.data].obj], !.done = TRUE]
    ELSE [s EXCEPT !.a = c, !.key.key = c.e.key + 1]
ResolveStep(name, s, i) ==
    IF s.done THEN s ELSE ResolveEntry(name, s, HfindData(hfind(s.a, s.key, [s.key EXCEPT !.key = HamMaxKey])))
ResolveIn(b, ino, name) ==
    FoldLeft(LAMBDA s, i : ResolveStep(name, s, i),
             [a |-> b, key |-> Key(Loc(b), ino, TEntry, 0), done |-> FALSE], [i \in 1 .. HamFuel |-> i]).a
hresolve(a, name) == IF a.ino = -1 \/ a.endless THEN a ELSE ResolveIn(hdirlocalization(a, a.ino), a.ino, name)
\* hlookup(), from inode 1
hlookup(a, path) == FoldLeft(hresolve, [a EXCEPT !.ino = 1], path)

\* hstat(): the inode's size, -1 if it is not there.
StatOf(c) ==
    IF c.endless \/ ~c.found THEN [c EXCEPT !.ino = -1]
    ELSE IF c.err THEN [c EXCEPT !.err = FALSE, !.ino = -1]
    ELSE [c EXCEPT !.h.fsize = HamDisk[c.e.data].size]
hstat(a, ino) == IF a.ino = -1 \/ a.endless THEN a ELSE StatOf(HfindData(hfind(a, InodeKey(ino), InodeKey(ino))))

HamDone(k, a, res) ==
    /\ a.k = 0 /\ ~a.endless
    /\ hamRes' = [res EXCEPT !.torn = HamTorn(ham)]
    /\ hamFails' = IF k = 0 THEN hamFails ELSE hamFails + 1

\* hammer_open(): with hinit(), the volume header being at address 0.
hammer_open(path, k) ==
    /\ ~ham.open
    /\ \E v \in {hread(Begin(k), 0)} : \E l \in {hlookup(v, path)} : \E a \in {hstat(l, l.ino)} :
          \/ /\ v.err /\ ham' = NoHam /\ HamDone(k, v, [NoHamRes EXCEPT !.op = "open", !.err = "ENODEV", !.path = path])
          \/ /\ ~v.err /\ a.ino = -1 /\ ham' = NoHam
             /\ HamDone(k, a, [NoHamRes EXCEPT !.op = "open", !.path = path, !.err = IF k = 0 THEN "ENOENT" ELSE "EIO"])
          \/ /\ ~v.err /\ a.ino # -1
             /\ ham' = [a.h EXCEPT !.open = TRUE, !.ino = a.ino, !.off = 0]
             /\ HamDone(k, a, [NoHamRes EXCEPT !.op = "open", !.path = path, !.ino = a.ino])

\* hreadf(): one round; data that goes past a buffer is cut there.
Taken(s, b, bytes) == [s EXCEPT !.a = b, !.out = @ \o bytes, !.off = @ + Len(bytes), !.len = @ - Len(bytes)]
Hole(s, b, n) == Taken(s, b, [j \in 1 .. n |-> 0])
LeastOf(m, n) == IF m < n THEN m ELSE n
Buffered(roff, boff, want) ==
    IF roff \div HamBuf # (roff + boff + want - 1) \div HamBuf THEN HamBuf - ((boff + roff) % HamBuf) ELSE want
HamBytes(at, n) == [j \in 1 .. n |-> HamDisk[at + j - 1]]
ReadfData(s, c, roff, boff, want) == IF c.err THEN [s EXCEPT !.a = c] ELSE Taken(s, c, HamBytes(roff + boff, Buffered(roff, boff, want)))
\* within the element's data, at skip
ReadfAt(s, b, skip) ==
    LET boff == skip % HamBuf
        roff == b.e.data + (skip - boff)
    IN ReadfData(s, hread(b, roff), roff, boff, LeastOf(b.e.len - skip, s.len))
ReadfElement(s, b) ==
    IF b.endless THEN [s EXCEPT !.a = b]
    ELSE IF ~b.found \/ s.off > b.e.key THEN Hole(s, b, s.len)
    ELSE IF s.off < b.e.key - b.e.len THEN Hole(s, b, LeastOf(b.e.key - b.e.len - s.off, s.len))
    ELSE ReadfAt(s, b, s.off - (b.e.key - b.e.len))
ReadfRound(s, i) ==
    IF s.len = 0 \/ s.a.err \/ s.a.endless THEN s
    ELSE ReadfElement(s, hfind(s.a, Key(LMisc, s.ino, TData, s.off + 1), Key(LMisc, s.ino, TData, HamMaxKey)))
hreadf(a, ino, off, len) ==
    FoldLeft(ReadfRound, [a |-> a, ino |-> ino, off |-> off, len |-> len, out |-> <<>>], [i \in 1 .. len |-> i])

\* hammer_read(): at the end of the file an error.
hammer_read(n, k) ==
    /\ ham.open
    /\ LET max == IF ham.off + n > ham.fsize THEN ham.fsize - ham.off ELSE n
           res == [NoHamRes EXCEPT !.op = "read", !.n = n, !.start = ham.off, !.ino = ham.ino]
       IN \E s \in {hreadf(Begin(k), ham.ino, ham.off, max)} :
          \/ /\ ham.off >= ham.fsize /\ k = 0 /\ UNCHANGED ham
             /\ HamDone(k, Begin(0), [res EXCEPT !.err = "EINVAL"])
          \/ /\ ham.off < ham.fsize /\ s.a.err /\ ham' = s.a.h
             /\ HamDone(k, s.a, [res EXCEPT !.err = "EINVAL"])
          \/ /\ ham.off < ham.fsize /\ ~s.a.err /\ ham' = [s.a.h EXCEPT !.off = @ + max]
             \* A failure in hfind() is a hole.
             /\ HamDone(k, s.a, [res EXCEPT !.data = s.out, !.err = IF k = 0 THEN "" ELSE "hole"])

hammer_seek(off) ==
    /\ ham.open /\ ham' = [ham EXCEPT !.off = off] /\ hamRes' = NoHamRes /\ UNCHANGED hamFails

\* hreaddir() from the position as a key
hammer_readdir(k) ==
    /\ ham.open
    /\ \E a \in {hdirlocalization(Begin(k), ham.ino)} :
       LET key == Key(Loc(a), ham.ino, TEntry, ham.off)
           res == [NoHamRes EXCEPT !.op = "readdir", !.start = ham.off]
       IN \E b \in {hfind(a, key, [key EXCEPT !.key = HamMaxKey])} : \E c \in {hread(b, b.e.data)} :
          \/ /\ ~b.found /\ ham' = b.h /\ HamDone(k, b, [res EXCEPT !.err = "ENOENT"])
          \/ /\ b.found /\ c.err /\ ham' = [c.h EXCEPT !.off = b.e.key + 1]
             /\ HamDone(k, c, [res EXCEPT !.err = "EIO"])
          \/ /\ b.found /\ ~c.err /\ ham' = [c.h EXCEPT !.off = b.e.key + 1]
             /\ HamDone(k, c, [res EXCEPT !.ino = HamDisk[b.e.data].obj])

hammer_close == /\ ham.open /\ ham' = NoHam /\ hamRes' = NoHamRes /\ UNCHANGED hamFails

HamInit == ham = NoHam /\ hamRes = NoHamRes /\ hamFails = 0
HamTries == IF hamFails < HamMaxFails THEN 0 .. 5 ELSE {0}
HamNext == \/ \E k \in HamTries : \/ \E p \in HamPaths : hammer_open(p, k)
                                  \/ \E n \in HamReads : hammer_read(n, k)
                                  \/ hammer_readdir(k)
           \/ \E off \in HamSeeks : hammer_seek(off)
           \/ hammer_close

-----------------------------------------------------------------------------
(* Properties *)

\* All live elements of the tree, wherever they are.
Elements == UNION {LET n == HamDisk[x] IN {n.elms[i] : i \in {j \in 1 .. n.count : n.elms[j].del = 0}}
                   : x \in {y \in HamNodes : ~HamDisk[y].internal}}
ByteOf(ino, off) ==
    LET es == {e \in Elements : e.loc = LMisc /\ e.obj = ino /\ e.type = TData /\ e.key - e.len <= off /\ off < e.key}
    IN IF es = {} THEN 0 ELSE LET e == CHOOSE x \in es : TRUE IN HamDisk[e.data + off - (e.key - e.len)]

\* hammer_read() gives the bytes of the live data elements and zeros between
\* them, over any order in which the tree's nodes and the data push each other
\* out of the cache; unless a read has failed before.
HamReadRight ==
    hamRes.op = "read" /\ hamRes.err = "" /\ ~hamRes.torn =>
        hamRes.data = [i \in 1 .. Len(hamRes.data) |-> ByteOf(hamRes.ino, hamRes.start + i - 1)]

HamEntry(ino, name) ==
    LET es == {e \in Elements : e.obj = ino /\ e.type = TEntry /\ HamDisk[e.data].name = name}
    IN IF ino = -1 \/ es = {} THEN -1 ELSE HamDisk[(CHOOSE x \in es : TRUE).data].obj
\* hammer_open() finds the inode that the live entries lead to, whichever
\* localization a directory keeps them in.
HamFindRight ==
    hamRes.op = "open" /\ hamRes.err \in {"", "ENOENT"} =>
        (IF hamRes.err = "" THEN hamRes.ino ELSE -1) = FoldLeft(HamEntry, 1, hamRes.path)
=============================================================================
