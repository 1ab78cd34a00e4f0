------------------------- MODULE BlockCacheProofs -------------------------
(***************************************************************************)
(* Proofs about BlockCache, for every size of the cache and of the disks,  *)
(* any time-out, any requests and any changes of media.                    *)
(*                                                                         *)
(* A block may be in two slots, because bcache_insert() does not look at   *)
(* slot 0 for an old copy.  CopyInv says why only one of them can be hit:  *)
(* a block is inserted only after it was looked up and not found, while    *)
(* the copy in slot 0 had passed its time-out, and time does not go back.  *)
(* ContentInv follows the contents: a slot that a request can hit holds    *)
(* what is on the disk, or was until a change of media not longer ago than *)
(* the time-out.                                                           *)
(***************************************************************************)
EXTENDS BlockCache, FiniteSetTheorems, SequenceTheorems, WellFoundedInduction, TLAPS

-----------------------------------------------------------------------------
(* The inductive invariant *)

Phases == {"idle", "lookup", "fill", "write", "bypass", "done", "panic"}
Content == [unit : Units \cup {-1}, blk : Int, ver : Nat]
SlotRec == [blkno : Int, stamp : Nat, count : Int, data : Content]
ReqRec == [phase : Phases, rw : {"r", "w"}, unit : Units \cup {-1}, blk : Nat, n : Nat, at : Nat,
           miss : SUBSET Nat, buf : Seq(Content), since : Nat]
\* The slots of a cache, with counts from -1 on.
CacheOf == {c \in [Slots -> SlotRec] : \A i \in Slots : c[i].count >= -1}

Live(c, i) == c[i].stamp + Timeout >= now

\* No block is held twice by the slots after the first, and a block that is
\* also held by slot 0 is too old there to be found.
OneCopy(c) == \A i, j \in Slots \ {0} : c[i].blkno = c[j].blkno /\ c[i].blkno # -1 => i = j
ZeroOld(c) == \A i \in Slots \ {0} : c[i].blkno = c[0].blkno /\ c[i].blkno # -1 => ~Live(c, 0)

\* Types, and what is set together: a cache that holds a block belongs to a
\* unit, that of the request; the request lies on the disk.
CacheType ==
    /\ disk \in [Units -> [Blocks -> Nat]] /\ version \in [Units -> Nat]
    /\ now \in Nat /\ bcount \in Nat /\ cunit \in Units \cup {-1}
    /\ slot \in CacheOf /\ req \in ReqRec /\ astray \in BOOLEAN
    /\ \A i \in Slots : slot[i].stamp <= now /\ (slot[i].blkno # -1 => cunit \in Units)
    /\ Len(req.buf) = req.n /\ req.since <= now
    /\ req.phase # "idle" => req.unit \in Units /\ req.unit = cunit /\ Inside(req.blk, req.n)

\* A block that was looked up and missed is still not to be found when it is
\* put into the cache.
MissedOld ==
    /\ req.phase = "lookup" => req.at < req.n /\ req.miss \subseteq 0 .. req.at - 1
    /\ req.phase = "fill" => req.miss # {} /\ req.miss \subseteq 0 .. req.n - 1
    /\ req.phase \in {"lookup", "fill"} =>
         \A m \in req.miss, i \in Slots : slot[i].blkno = req.blk + m => ~Live(slot, i)

CopyInv == CacheType /\ OneCopy(slot) /\ ZeroOld(slot) /\ MissedOld

\* The request that is served, or would be now, began at:
Since == IF req.phase = "idle" THEN now ELSE req.since
\* d is block b of unit u: as it is on the disk, or as it was on a medium that
\* was taken away at time t or later.
Right(d, u, b, t, dk, gone) ==
    /\ d.unit = u /\ d.blk = b /\ b \in Blocks
    /\ d.ver = dk[u][b] \/ \E r \in gone : r.data = d /\ r.gone >= t

\* So is every block of the cache that the request could hit, ...
SlotsRight ==
    ~astray => \A i \in Slots : slot[i].blkno # -1 /\ slot[i].stamp + Timeout >= Since
                 => Right(slot[i].data, cunit, slot[i].blkno, slot[i].stamp, disk, recent)
\* ... and every block of the buffer that is not to be filled any more.
BufRight ==
    \A k \in 1 .. req.n :
        \/ req.phase = "lookup" /\ k <= req.at /\ k - 1 \notin req.miss
        \/ req.phase = "fill" /\ k - 1 \notin req.miss
        \/ req.phase = "done"
        => Right(req.buf[k], req.unit, req.blk + k - 1, req.since - Timeout, disk, recent)

\* What has been taken away is gone, and after a write that went astray no
\* request is served.
Gone == (\A r \in recent : r.gone \in Nat) /\ (astray => req.phase = "idle")
ContentInv == Gone /\ SlotsRight /\ BufRight

-----------------------------------------------------------------------------
(* Lemmas about the operators *)

\* A set of natural numbers that is not empty has a least element.
LEMMA LeastOf ==
    ASSUME NEW S, S \subseteq Nat, S # {}
    PROVE  First(S) \in S /\ \A y \in S : First(S) <= y
<1> DEFINE R == OpToRel(<, Nat)
<1>1. IsWellFoundedOn(R, Nat)
  BY NatLessThanWellFounded
<1>2. \A x, y \in S : <<y, x>> \in R <=> y < x
  BY DEF OpToRel
<1> HIDE DEF R
<1>3. PICK x \in S : \A y \in S : ~(<<y, x>> \in R)
  BY <1>1, WFMin
<1>4. ASSUME NEW y \in S PROVE x <= y
  <2>1. ~(y < x) /\ x \in Nat /\ y \in Nat
    BY <1>2, <1>3
  <2> QED BY <2>1
<1> QED BY <1>4 DEF First

\* A function on 1 .. n is a sequence.
LEMMA FunctionSeq ==
    ASSUME NEW X, NEW n \in Nat, NEW f \in [1 .. n -> X]
    PROVE  f \in Seq(X) /\ Len(f) = n
<1>1. f \in Seq(X)
  BY SeqDef
<1> QED BY <1>1, LenProperties

\* The slot that bcache_insert() takes: one after the first that has the block,
\* if there is one.
LEMMA VictimIs ==
    ASSUME NEW c \in CacheOf, NEW b \in Nat
    PROVE  /\ Victim(c, b) \in Slots
           /\ (\E i \in Slots \ {0} : c[i].blkno = b) => Victim(c, b) # 0 /\ c[Victim(c, b)].blkno = b
<1> DEFINE old == {i \in Slots \ {0} : c[i].blkno = b}
           low == {i \in Slots : \A j \in Slots : c[i].count <= c[j].count}
<1>1. Slots \subseteq Nat /\ 0 \in Slots
  BY CacheAssumption DEF Slots
<1>2. CASE old # {}
  <2>1. First(old) \in old
    BY <1>1, <1>2, LeastOf
  <2> QED BY <1>2, <2>1 DEF Victim
<1>3. CASE old = {}
  <2> DEFINE N == {c[i].count + 1 : i \in Slots}
  <2>1. \A i \in Slots : c[i].count \in Int /\ c[i].count >= -1
    BY DEF CacheOf, SlotRec
  <2>2. N \subseteq Nat /\ N # {}
    BY <1>1, <2>1
  <2>3. First(N) \in N /\ \A y \in N : First(N) <= y
    <3> HIDE DEF N
    <3> QED BY <2>2, LeastOf
  <2>4. PICK i \in Slots : First(N) = c[i].count + 1
    BY <2>3
  <2>5. i \in low
    <3>1. ASSUME NEW j \in Slots PROVE c[i].count <= c[j].count
      <4>1. c[j].count + 1 \in N
        OBVIOUS
      <4>2. First(N) <= c[j].count + 1
        BY <2>3, <4>1
      <4> QED BY <2>1, <2>4, <4>2
    <3> QED BY <3>1
  <2>6. First(low) \in low
    BY <1>1, <2>5, LeastOf
  <2> QED BY <1>3, <2>6 DEF Victim
<1> QED BY <1>2, <1>3

\* What is put into the cache k-th.
Entry(first, datas, k) ==
    [blkno |-> first + k - 1, stamp |-> now, count |-> bcount + k - 1, data |-> datas[k]]

\* The caches that InsertAll() goes through are g[0], g[1], ..., g[n].
InsertNext(a, first, datas, k) == bcache_insert(a, first + k - 1, datas[k], k - 1)
Chain(c, first, datas, n, g) ==
    g = [k \in 0 .. n |-> IF k = 0 THEN c ELSE InsertNext(g[k - 1], first, datas, k)]

\* InsertAll() is the last of such caches.
LEMMA ChainIs ==
    ASSUME NEW c, NEW first, NEW datas
    PROVE  InsertAll(c, first, datas) = (CHOOSE g : Chain(c, first, datas, Len(datas), g))[Len(datas)]
BY DEF InsertAll, Chain, InsertNext

\* There are such caches: the least n without them would have one with them.
LEMMA ChainExists ==
    ASSUME NEW c, NEW first, NEW datas, NEW n \in Nat
    PROVE  \E g : Chain(c, first, datas, n, g)
<1> DEFINE Bad == {i \in Nat : ~\E g : Chain(c, first, datas, i, g)}
<1> SUFFICES ASSUME Bad # {} PROVE FALSE
  OBVIOUS
<1>1. PICK i \in Bad : \A j \in Bad : i <= j
  BY LeastOf
<1>2. i # 0
  <2>1. [k \in 0 .. 0 |-> c] = [k \in 0 .. 0 |-> IF k = 0 THEN c ELSE InsertNext([j \in 0 .. 0 |-> c][k - 1], first, datas, k)]
    OBVIOUS
  <2>2. Chain(c, first, datas, 0, [k \in 0 .. 0 |-> c])
    BY <2>1 DEF Chain
  <2> QED BY <2>2
<1>3. i - 1 \in Nat /\ i - 1 \notin Bad
  BY <1>1, <1>2
<1>4. PICK g : Chain(c, first, datas, i - 1, g)
  BY <1>3
<1> DEFINE h == [k \in 0 .. i |-> IF k = i THEN InsertNext(g[i - 1], first, datas, i) ELSE g[k]]
<1>5. ASSUME NEW k \in 0 .. i
      PROVE  h[k] = IF k = 0 THEN c ELSE InsertNext(h[k - 1], first, datas, k)
  <2>1. CASE k = i
    <3>1. h[k] = InsertNext(g[i - 1], first, datas, i) /\ h[i - 1] = g[i - 1]
      BY <1>2, <1>3, <2>1
    <3> HIDE DEF h
    <3> QED BY <1>2, <2>1, <3>1
  <2>2. CASE k # i
    <3>1. k \in 0 .. i - 1 /\ h[k] = g[k] /\ (k # 0 => h[k - 1] = g[k - 1])
      BY <1>3, <2>2
    <3> HIDE DEF h
    <3>2. g[k] = IF k = 0 THEN c ELSE InsertNext(g[k - 1], first, datas, k)
      BY <1>4, <3>1, Zenon DEF Chain
    <3> QED BY <3>1, <3>2
  <2> QED BY <2>1, <2>2
<1>6. h = [k \in 0 .. i |-> IF k = 0 THEN c ELSE InsertNext(h[k - 1], first, datas, k)]
  <2>1. h = [k \in 0 .. i |-> h[k]]
    OBVIOUS
  <2> HIDE DEF h
  <2> QED BY <1>5, <2>1
<1> HIDE DEF h
<1>7. Chain(c, first, datas, i, h)
  BY <1>6 DEF Chain
<1> QED BY <1>7

\* What k insertions make of a cache c.
Inserted(c, first, datas, k, r) ==
    /\ r \in CacheOf /\ OneCopy(r) /\ ZeroOld(r)
    /\ \A i \in Slots : r[i] = c[i] \/ \E j \in 1 .. k : r[i] = Entry(first, datas, j)
    /\ \A i \in Slots, j \in 1 .. k :
         r[i].blkno = first + j - 1 => r[i] = Entry(first, datas, j) \/ (i = 0 /\ r[0] = c[0])

\* One insertion more.
LEMMA InsertOne ==
    ASSUME NEW c, NEW first \in Nat, NEW n \in Nat, NEW datas \in [1 .. n -> Content], now \in Nat, bcount \in Nat,
           \A j \in 1 .. n : c[0].blkno = first + j - 1 => ~Live(c, 0),
           NEW k \in 1 .. n, NEW a, Inserted(c, first, datas, k - 1, a)
    PROVE  Inserted(c, first, datas, k, InsertNext(a, first, datas, k))
<1> DEFINE b == first + k - 1
           v == Victim(a, b)
           e == Entry(first, datas, k)
           r == [a EXCEPT ![v] = e]
<1>1. r = InsertNext(a, first, datas, k)
  BY DEF InsertNext, bcache_insert, Entry
<1>2. b \in Nat /\ 0 \in Slots /\ a \in CacheOf
  BY CacheAssumption DEF Inserted, Slots
<1>3. /\ v \in Slots
      /\ (\E i \in Slots \ {0} : a[i].blkno = b) => v # 0 /\ a[v].blkno = b
  <2> HIDE DEF b
  <2> QED BY <1>2, VictimIs
<1>4. e \in SlotRec /\ e.blkno = b /\ e.count >= -1 /\ e.stamp = now
  BY DEF Entry, SlotRec, Content
<1>5. a \in [Slots -> SlotRec] /\ \A i \in Slots : a[i].count >= -1
  BY <1>2 DEF CacheOf
<1> HIDE DEF b, v, e
<1>6. /\ r \in [Slots -> SlotRec] /\ r[v] = e
      /\ \A i \in Slots : i # v => r[i] = a[i]
  BY <1>3, <1>4, <1>5
<1> HIDE DEF r
<1>7. r \in CacheOf
  BY <1>4, <1>5, <1>6 DEF CacheOf
<1>8. OneCopy(r)
  BY <1>2, <1>3, <1>4, <1>6 DEF OneCopy, Inserted
<1>9. \A j \in 1 .. k - 1 : Entry(first, datas, j).blkno = first + j - 1 /\ first + j - 1 # b
  BY DEF Entry, b
<1>10. a[0].blkno = b => a[0] = c[0] /\ ~Live(a, 0)
  <2>1. a[0].blkno = b => a[0] = c[0]
    BY <1>2, <1>9 DEF Inserted
  <2> QED BY <2>1 DEF Live, b
<1>11. ZeroOld(r)
  <2> SUFFICES ASSUME NEW i \in Slots \ {0}, r[i].blkno = r[0].blkno, r[i].blkno # -1
               PROVE  ~Live(r, 0)
    BY DEF ZeroOld
  <2>1. CASE v = 0
    BY <1>3, <1>4, <1>6, <2>1
  <2>2. CASE v # 0 /\ v = i
    BY <1>2, <1>4, <1>6, <1>10, <2>2 DEF Live
  <2>3. CASE v # 0 /\ v # i
    BY <1>2, <1>6, <2>3 DEF Live, ZeroOld, Inserted
  <2> QED BY <2>1, <2>2, <2>3
<1>12. \A i \in Slots : r[i] = c[i] \/ \E j \in 1 .. k : r[i] = Entry(first, datas, j)
  BY <1>6 DEF Inserted, e
<1>13. ASSUME NEW i \in Slots, NEW j \in 1 .. k, r[i].blkno = first + j - 1
       PROVE  r[i] = Entry(first, datas, j) \/ (i = 0 /\ r[0] = c[0])
  <2>1. CASE i = v
    <3>1. j = k
      BY <1>4, <1>6, <1>13, <2>1 DEF b
    <3> QED BY <1>6, <2>1, <3>1 DEF e
  <2>2. CASE i # v /\ j = k
    <3>1. a[i].blkno = b /\ r[i] = a[i]
      BY <1>6, <1>13, <2>2 DEF b
    <3>2. i = 0
      <4> SUFFICES ASSUME i # 0 PROVE FALSE
        OBVIOUS
      <4>1. v # 0 /\ a[v].blkno = b
        BY <1>3, <3>1
      <4>2. b # -1
        BY <1>2
      <4> QED BY <1>3, <2>2, <3>1, <4>1, <4>2 DEF OneCopy, Inserted
    <3> QED BY <1>10, <3>1, <3>2
  <2>3. CASE i # v /\ j # k
    BY <1>6, <1>13, <2>3 DEF Inserted
  <2> QED BY <2>1, <2>2, <2>3
<1>14. Inserted(c, first, datas, k, r)
  BY <1>7, <1>8, <1>11, <1>12, <1>13 DEF Inserted
<1> QED BY <1>1, <1>14

\* All insertions of a transfer, whose blocks slot 0 holds only if they are old.
LEMMA InsertAllIs ==
    ASSUME NEW c \in CacheOf, OneCopy(c), ZeroOld(c), now \in Nat, bcount \in Nat,
           NEW first \in Nat, NEW n \in Nat, NEW datas \in [1 .. n -> Content],
           \A j \in 1 .. n : c[0].blkno = first + j - 1 => ~Live(c, 0)
    PROVE  Inserted(c, first, datas, n, InsertAll(c, first, datas))
<1> DEFINE g == CHOOSE f : Chain(c, first, datas, n, f)
<1>1. Len(datas) = n
  BY FunctionSeq
<1>2. Chain(c, first, datas, n, g)
  BY ChainExists, Zenon
<1>3. InsertAll(c, first, datas) = g[n]
  BY <1>1, ChainIs, Zenon
<1> HIDE DEF g
<1>4. g[0] = c /\ \A k \in 1 .. n : g[k] = InsertNext(g[k - 1], first, datas, k)
  <2>1. \A k \in 0 .. n : g[k] = IF k = 0 THEN c ELSE InsertNext(g[k - 1], first, datas, k)
    BY <1>2, Zenon DEF Chain
  <2> QED BY <2>1
<1> DEFINE Bad == {k \in 0 .. n : ~Inserted(c, first, datas, k, g[k])}
<1>5. Bad = {}
  <2> SUFFICES ASSUME Bad # {} PROVE FALSE
    OBVIOUS
  <2>0. Bad \subseteq Nat
    OBVIOUS
  <2>1. PICK i \in Bad : \A j \in Bad : i <= j
    <3> HIDE DEF Bad
    <3> QED BY <2>0, LeastOf
  <2>2. i # 0
    <3>1. Inserted(c, first, datas, 0, c)
      BY DEF Inserted
    <3> QED BY <1>4, <2>1, <3>1
  <2>3. i \in 1 .. n /\ i - 1 \in 0 .. n /\ i - 1 \notin Bad
    BY <2>1, <2>2
  <2>4. Inserted(c, first, datas, i - 1, g[i - 1])
    BY <2>3
  <2>5. Inserted(c, first, datas, i, InsertNext(g[i - 1], first, datas, i))
    BY <2>3, <2>4, InsertOne, Zenon
  <2> QED BY <1>4, <2>1, <2>3, <2>5
<1> QED BY <1>3, <1>5

\* bcache_invalidate() leaves the other blocks, keeps what is known of copies,
\* and takes the blocks out of slot 0.
LEMMA InvalidatedIs ==
    ASSUME NEW c \in CacheOf, OneCopy(c), ZeroOld(c), NEW blks \in SUBSET Nat
    PROVE  LET r == bcache_invalidate(c, blks)
           IN /\ r \in CacheOf /\ OneCopy(r) /\ ZeroOld(r)
              /\ \A i \in Slots : r[i] = c[i] \/ r[i] = Empty
              /\ r[0].blkno \notin blks
<1> DEFINE r == bcache_invalidate(c, blks)
<1>1. Slots \subseteq Nat /\ 0 \in Slots
  BY CacheAssumption DEF Slots
<1>2. Empty \in SlotRec /\ Empty.blkno = -1 /\ Empty.count = -1
  BY DEF Empty, NoData, Data, SlotRec, Content
<1>3. \A i \in Slots : r[i] = c[i] \/ r[i] = Empty
  BY DEF bcache_invalidate
<1>4. r \in CacheOf
  <2>1. r = [i \in Slots |-> r[i]]
    BY DEF bcache_invalidate
  <2>2. \A i \in Slots : c[i] \in SlotRec /\ c[i].count >= -1
    BY DEF CacheOf
  <2> HIDE DEF r
  <2>3. \A i \in Slots : r[i] \in SlotRec /\ r[i].count >= -1
    BY <1>2, <1>3, <2>2
  <2> QED BY <2>1, <2>3 DEF CacheOf
<1>5. r[0].blkno \notin blks
  <2>1. CASE c[0].blkno \in blks
    <3> DEFINE S == {j \in Slots : c[j].blkno = c[0].blkno}
    <3>1. First(S) = 0
      <4>1. 0 \in S /\ S \subseteq Nat
        BY <1>1
      <4>2. First(S) \in Nat /\ First(S) <= 0
        BY <4>1, LeastOf
      <4> QED BY <4>2
    <3>2. r[0] = Empty
      BY <1>1, <2>1, <3>1 DEF bcache_invalidate
    <3> QED BY <1>2, <3>2
  <2>2. CASE c[0].blkno \notin blks
    BY <1>1, <2>2 DEF bcache_invalidate
  <2> QED BY <2>1, <2>2
<1> HIDE DEF r
<1>6. OneCopy(r)
  BY <1>2, <1>3 DEF OneCopy
<1>7. ZeroOld(r)
  BY <1>1, <1>2, <1>3 DEF ZeroOld, Live
<1> QED BY <1>3, <1>4, <1>5, <1>6, <1>7 DEF r

-----------------------------------------------------------------------------
(* The run of blocks that Fill transfers *)

\* Pending is an interval, from the first block that was missed on.
LEMMA PendingIs ==
    ASSUME NEW n \in Nat, req.miss # {}, req.miss \subseteq 0 .. n - 1
    PROVE  /\ First(req.miss) \in req.miss /\ First(req.miss) \in Nat
           /\ Cardinality(Pending) \in Nat \ {0}
           /\ Pending = First(req.miss) .. First(req.miss) + Cardinality(Pending) - 1
           /\ Pending \subseteq req.miss
           /\ First(Pending) = First(req.miss)
<1> DEFINE p == First(req.miss)
           Q == {q \in Nat : q > p /\ q \notin req.miss}
           q == First(Q)
<1>1. p \in req.miss /\ p \in Nat /\ \A y \in req.miss : p <= y
  BY LeastOf
<1>2. n \in Q
  BY <1>1
<1>3. q \in Q /\ \A y \in Q : q <= y
  BY <1>2, LeastOf
<1> HIDE DEF p, q
<1>4. q \in Nat /\ q > p /\ q \notin req.miss
  BY <1>3
<1>5. \A j \in p .. q - 1 : j \in req.miss
  <2> SUFFICES ASSUME NEW j \in p .. q - 1, j \notin req.miss PROVE FALSE
    OBVIOUS
  <2>1. j \in Q
    BY <1>1, <1>4
  <2> QED BY <1>3, <1>4, <2>1
<1>6. Pending = {i \in req.miss : \A j \in p .. i : j \in req.miss}
  BY DEF Pending, p
<1>7. Pending = p .. q - 1
  <2>1. ASSUME NEW i \in p .. q - 1 PROVE i \in Pending
    BY <1>1, <1>4, <1>5, <1>6
  <2>2. ASSUME NEW i \in Pending PROVE i \in p .. q - 1
    <3>1. i \in req.miss /\ i \in Nat /\ p <= i
      BY <1>1, <1>6
    <3>2. i < q
      <4> SUFFICES ASSUME i >= q PROVE FALSE
        BY <1>4, <3>1
      <4>1. q \in p .. i
        BY <1>1, <1>4, <3>1
      <4> QED BY <1>4, <1>6, <4>1
    <3> QED BY <1>1, <1>4, <3>1, <3>2
  <2> QED BY <2>1, <2>2
<1>8. Cardinality(Pending) = q - p
  BY <1>1, <1>4, <1>7, FS_Interval
<1>9. First(Pending) = p
  <2>1. p \in Pending /\ Pending \subseteq Nat
    BY <1>1, <1>4, <1>7
  <2>2. First(Pending) \in Pending /\ First(Pending) <= p
    BY <2>1, LeastOf
  <2>3. First(Pending) \in Nat /\ p <= First(Pending)
    BY <1>1, <1>4, <1>7, <2>2
  <2> QED BY <1>1, <2>2, <2>3
<1>10. Pending \subseteq req.miss
  BY <1>6
<1> QED BY <1>1, <1>4, <1>7, <1>8, <1>9, <1>10 DEF p

\* The contents of blocks inside the disk.
LEMMA ContentsIs ==
    ASSUME disk \in [Units -> [Blocks -> Nat]], NEW u \in Units, NEW sec \in Nat, NEW n \in Nat, Inside(sec, n)
    PROVE  /\ Contents(u, sec, n) \in [1 .. n -> Content]
           /\ \A k \in 1 .. n : /\ sec * SecBlks + k - 1 \in Blocks
                                /\ Contents(u, sec, n)[k] = Data(u, sec * SecBlks + k - 1, disk[u][sec * SecBlks + k - 1])
<1>1. sec * SecBlks \in Nat /\ Sectors * SecBlks \in Nat
  BY CacheAssumption
<1> DEFINE P == sec * SecBlks
           T == Sectors * SecBlks
<1>2. P + n <= T
  BY DEF Inside
<1>3. Blocks = 0 .. T - 1
  BY DEF Blocks
<1> HIDE DEF P, T
<1>4. ASSUME NEW k \in 1 .. n PROVE P + k - 1 \in Blocks
  <2>1. P \in Nat /\ T \in Nat
    BY <1>1 DEF P, T
  <2> QED BY <1>2, <1>3, <2>1
<1>5. Contents(u, sec, n) = [k \in 1 .. n |-> Data(u, P + k - 1, disk[u][P + k - 1])]
  BY DEF Contents, P
<1>6. ASSUME NEW k \in 1 .. n PROVE Data(u, P + k - 1, disk[u][P + k - 1]) \in Content
  <2>1. P + k - 1 \in Blocks /\ P + k - 1 \in Int /\ disk[u][P + k - 1] \in Nat
    BY <1>1, <1>4 DEF P
  <2> QED BY <2>1 DEF Data, Content
<1> QED BY <1>4, <1>5, <1>6 DEF P

-----------------------------------------------------------------------------
(* Copies of a block *)

\* A cache that was flushed.
LEMMA FlushedIs ==
    /\ Flushed \in CacheOf
    /\ \A i \in Slots : Flushed[i].blkno = -1 /\ Flushed[i].stamp = 0
<1>1. Empty \in SlotRec /\ Empty.blkno = -1 /\ Empty.count = -1 /\ Empty.stamp = 0
  BY DEF Empty, NoData, Data, SlotRec, Content
<1> QED BY <1>1 DEF Flushed, CacheOf

\* What is known of an idle request.
LEMMA IdleIs ==
    /\ Idle \in ReqRec /\ Len(Idle.buf) = Idle.n /\ Idle.phase = "idle" /\ Idle.since = 0
BY DEF Idle, ReqRec, Phases

\* The invariant holds at the start.
LEMMA CopyInit == Init => CopyInv
<1> SUFFICES ASSUME Init PROVE CopyInv
  OBVIOUS
<1>1. req = Idle
  BY DEF Init
<1>2. slot = Flushed
  BY DEF Init, Flushed
<1>3. CacheType
  <2>1. disk \in [Units -> [Blocks -> Nat]] /\ version \in [Units -> Nat]
    BY DEF Init
  <2>2. req = Idle /\ now = 0 /\ bcount = 0 /\ cunit = -1 /\ astray = FALSE
    BY DEF Init
  <2>3. slot \in CacheOf /\ \A i \in Slots : slot[i].stamp <= now /\ slot[i].blkno = -1
    BY <1>2, <2>2, FlushedIs
  <2>4. req \in ReqRec /\ Len(req.buf) = req.n /\ req.since <= now /\ req.phase = "idle"
    BY <1>1, <2>2, IdleIs
  <2>5. now \in Nat /\ bcount \in Nat /\ cunit \in Units \cup {-1} /\ astray \in BOOLEAN
    BY <2>2
  <2> QED BY <2>1, <2>3, <2>4, <2>5, Zenon DEF CacheType
<1>4. OneCopy(slot) /\ ZeroOld(slot)
  <2>1. 0 \in Slots
    BY CacheAssumption DEF Slots
  <2> QED BY <1>2, <2>1, FlushedIs DEF OneCopy, ZeroOld
<1>5. MissedOld
  BY <1>1, IdleIs DEF MissedOld
<1> QED BY <1>3, <1>4, <1>5 DEF CopyInv

\* Nothing that is too old becomes young again while no slot is filled.
LEMMA SameSlots ==
    ASSUME CopyInv, UNCHANGED <<slot, req>>, now' \in Nat, now <= now', bcount' = bcount, cunit' = cunit,
           disk' \in [Units -> [Blocks -> Nat]], version' \in [Units -> Nat], astray' = astray
    PROVE  CopyInv'
<1>1. \A i \in Slots : slot[i].stamp \in Nat
  BY DEF CopyInv, CacheType, CacheOf, SlotRec
<1>2. now \in Nat /\ Timeout \in Nat /\ 0 \in Slots
  BY CacheAssumption DEF CopyInv, CacheType, Slots
<1>3. \A i \in Slots : ~Live(slot, i) => ~Live(slot, i)'
  BY <1>1, <1>2 DEF Live
<1>4. CacheType'
  <2>1. req.since \in Nat
    BY DEF CopyInv, CacheType, ReqRec
  <2> QED BY <1>1, <1>2, <2>1 DEF CopyInv, CacheType, Inside, CacheOf
<1>5. (OneCopy(slot) /\ ZeroOld(slot))'
  BY <1>2, <1>3 DEF CopyInv, OneCopy, ZeroOld
<1>6. MissedOld'
  BY <1>3 DEF CopyInv, MissedOld
<1> QED BY <1>4, <1>5, <1>6 DEF CopyInv

\* The request goes on or ends, and the cache stays as it is.
LEMMA SameCache ==
    ASSUME CopyInv, UNCHANGED <<cacheVars, now>>, version' \in [Units -> Nat], disk' \in [Units -> [Blocks -> Nat]],
           astray' \in BOOLEAN, req' \in ReqRec,
           Len(req'.buf) = req'.n, req'.since <= now,
           req'.phase # "idle" => req'.unit \in Units /\ req'.unit = cunit /\ Inside(req'.blk, req'.n),
           MissedOld'
    PROVE  CopyInv'
<1>1. CacheType'
  BY DEF CopyInv, CacheType, cacheVars, CacheOf, Inside
<1>2. (OneCopy(slot) /\ ZeroOld(slot))'
  BY DEF CopyInv, OneCopy, ZeroOld, Live, cacheVars
<1> QED BY <1>1, <1>2 DEF CopyInv

\* What a write stores is a disk.
LEMMA StoredIs ==
    ASSUME CacheType, NEW u \in Units, NEW sec, NEW m
    PROVE  /\ Stored(u, sec, m) \in [Units -> [Blocks -> Nat]]
           /\ [version EXCEPT ![u] = @ + 1] \in [Units -> Nat]
BY DEF CacheType, Stored

\* A request begins.
LEMMA CopyBegin ==
    ASSUME CopyInv, NEW rw \in {"r", "w"}, NEW u \in Units, NEW sec \in 0 .. Sectors - 1, NEW k \in 1 .. MaxReq,
           Begin(rw, u, sec, k)
    PROVE  CopyInv'
<1> DEFINE n == k * SecBlks
<1>1. n \in Nat \ {0} /\ sec \in Nat /\ 0 \in Slots
  <2>1. k \in Nat /\ k >= 1 /\ SecBlks \in Nat /\ SecBlks >= 1
    BY CacheAssumption
  <2>2. k * SecBlks \in Nat /\ k * SecBlks >= 1
    BY <2>1
  <2> QED BY <2>2, CacheAssumption DEF Slots
<1>2. /\ req'.phase \in {"bypass", "write", "lookup"} /\ req' \in ReqRec
      /\ req'.unit = u /\ req'.n = n /\ req'.blk = sec /\ req'.at = 0 /\ req'.miss = {} /\ req'.since = now
      /\ req'.buf = [j \in 1 .. n |-> NoData]
  <2> HIDE DEF n
  <2>1. NoData \in Content
    BY DEF NoData, Data, Content
  <2>2. [j \in 1 .. n |-> NoData] \in Seq(Content)
    BY <1>1, <2>1, FunctionSeq
  <2>3. now \in Nat
    BY DEF CopyInv, CacheType
  <2>4. PICK p \in {"bypass", "write", "lookup"} :
          req' = [phase |-> p, rw |-> rw, unit |-> u, blk |-> sec, n |-> n, at |-> 0,
                  miss |-> {}, buf |-> [j \in 1 .. n |-> NoData], since |-> now]
    BY DEF Begin, n
  <2> QED BY <1>1, <2>2, <2>3, <2>4 DEF ReqRec, Phases
<1>3. Len(req'.buf) = n
  <2> HIDE DEF n
  <2>1. [j \in 1 .. n |-> NoData] \in [1 .. n -> {NoData}]
    OBVIOUS
  <2> QED BY <1>1, <1>2, <2>1, FunctionSeq
<1>4. Inside(sec, n) /\ cunit' = u /\ UNCHANGED <<disk, version, bcount, now, astray>>
  BY DEF Begin, diskVars
<1>5. slot' = slot \/ slot' = Flushed
  BY DEF Begin
<1> HIDE DEF n
<1>6. CacheType'
  <2>1. slot' \in CacheOf /\ \A i \in Slots : slot'[i].stamp <= now
    BY <1>5, FlushedIs DEF CopyInv, CacheType
  <2> QED BY <1>1, <1>2, <1>3, <1>4, <2>1 DEF CopyInv, CacheType, Inside, CacheOf
<1>7. (OneCopy(slot) /\ ZeroOld(slot))'
  <2>1. CASE slot' = slot
    BY <1>4, <2>1 DEF CopyInv, OneCopy, ZeroOld, Live
  <2>2. CASE slot' = Flushed
    BY <1>1, <2>2, FlushedIs DEF OneCopy, ZeroOld
  <2> QED BY <1>5, <2>1, <2>2
<1>8. MissedOld'
  BY <1>1, <1>2 DEF MissedOld
<1> QED BY <1>6, <1>7, <1>8 DEF CopyInv

\* What Lookup makes of the request.
LEMMA LookupIs ==
    ASSUME CopyInv, Lookup
    PROVE  LET b == req.blk + req.at
               miss == IF Hits(b) # {} THEN req.miss ELSE req.miss \cup {req.at}
           IN /\ req' \in ReqRec /\ req.phase = "lookup" /\ req.at < req.n
              /\ req'.unit = req.unit /\ req'.n = req.n /\ req'.blk = req.blk /\ req'.since = req.since
              /\ req'.at = req.at + 1 /\ req'.miss = miss /\ Len(req'.buf) = req.n
              /\ \A k \in 1 .. req.n : k # req.at + 1 => req'.buf[k] = req.buf[k]
              /\ Hits(b) # {} => First(Hits(b)) \in Hits(b) /\ req'.buf[req.at + 1] = slot[First(Hits(b))].data
              /\ req'.phase = IF req.at + 1 < req.n THEN "lookup" ELSE IF miss = {} THEN "done" ELSE "fill"
<1> DEFINE b == req.blk + req.at
           hit == Hits(b) # {}
           miss == IF hit THEN req.miss ELSE req.miss \cup {req.at}
           x == IF hit THEN slot[First(Hits(b))].data ELSE req.buf[req.at + 1]
           p == IF req.at + 1 < req.n THEN "lookup" ELSE IF miss = {} THEN "done" ELSE "fill"
<1>1. /\ req \in ReqRec /\ req.phase = "lookup" /\ req.at < req.n /\ Len(req.buf) = req.n
      /\ req.buf \in Seq(Content) /\ req.n \in Nat /\ req.at \in Nat /\ req.miss \in SUBSET Nat
  BY DEF CopyInv, CacheType, MissedOld, Lookup, ReqRec
<1>2. hit => First(Hits(b)) \in Hits(b) /\ First(Hits(b)) \in Slots
  <2>1. Hits(b) \subseteq Slots /\ Slots \subseteq Nat
    BY DEF Hits, Slots
  <2>2. Hits(b) \subseteq Nat
    BY <2>1
  <2> QED BY <2>1, <2>2, LeastOf
<1>3. x \in Content
  <2>1. req.at + 1 \in 1 .. Len(req.buf)
    BY <1>1
  <2>2. req.buf[req.at + 1] \in Content
    BY <1>1, <2>1
  <2> QED BY <1>2, <2>2 DEF CopyInv, CacheType, CacheOf, SlotRec
<1>4. p \in Phases /\ miss \in SUBSET Nat
  BY <1>1 DEF Phases
<1>5. req' = [req EXCEPT !.at = @ + 1, !.miss = miss, !.buf[req.at + 1] = x, !.phase = p]
  BY <1>1 DEF Lookup
<1> HIDE DEF b, hit, miss, x, p
<1>6. req' = [req EXCEPT !.at = req.at + 1, !.miss = miss, !.buf = [req.buf EXCEPT ![req.at + 1] = x], !.phase = p]
  BY <1>1, <1>5 DEF ReqRec
<1> DEFINE f == [req.buf EXCEPT ![req.at + 1] = x]
<1>7. f \in Seq(Content) /\ Len(f) = req.n /\ f[req.at + 1] = x /\ \A k \in 1 .. req.n : k # req.at + 1 => f[k] = req.buf[k]
  BY <1>1, <1>3
<1> HIDE DEF f
<1>8. req' = [req EXCEPT !.at = req.at + 1, !.miss = miss, !.buf = f, !.phase = p]
  BY <1>6 DEF f
<1>9. /\ req' \in ReqRec
      /\ req'.unit = req.unit /\ req'.n = req.n /\ req'.blk = req.blk /\ req'.since = req.since
      /\ req'.at = req.at + 1 /\ req'.miss = miss /\ req'.buf = f /\ req'.phase = p
  <2>1. req.at + 1 \in Nat
    BY <1>1
  <2>2. req' \in ReqRec
    BY <1>1, <1>4, <1>7, <1>8, <2>1 DEF ReqRec
  <2> QED BY <1>1, <1>8, <2>2 DEF ReqRec
<1>10. Hits(b) # {} => First(Hits(b)) \in Hits(b) /\ req'.buf[req.at + 1] = slot[First(Hits(b))].data
  BY <1>2, <1>7, <1>9 DEF x, hit
<1>11. miss = IF Hits(b) # {} THEN req.miss ELSE req.miss \cup {req.at}
  BY DEF miss, hit
<1> QED BY <1>1, <1>7, <1>9, <1>10, <1>11 DEF b, p

\* A block is looked up: it is missed only if every copy of it is too old.
LEMMA CopyLookup ==
    ASSUME CopyInv, Lookup
    PROVE  CopyInv'
<1> DEFINE b == req.blk + req.at
           miss == IF Hits(b) # {} THEN req.miss ELSE req.miss \cup {req.at}
<1>1. /\ req' \in ReqRec /\ req.phase = "lookup" /\ req.at < req.n
      /\ req'.unit = req.unit /\ req'.n = req.n /\ req'.blk = req.blk /\ req'.since = req.since
      /\ req'.at = req.at + 1 /\ req'.miss = miss /\ Len(req'.buf) = req.n
      /\ req'.phase = IF req.at + 1 < req.n THEN "lookup" ELSE IF miss = {} THEN "done" ELSE "fill"
  BY LookupIs
<1>2. req.at \in Nat /\ req.n \in Nat /\ req.miss \subseteq 0 .. req.at - 1
  BY <1>1 DEF CopyInv, CacheType, ReqRec, MissedOld
<1>3. UNCHANGED <<diskVars, cacheVars, now, astray>>
  BY DEF Lookup
<1>4. \A m \in miss, i \in Slots : slot[i].blkno = req.blk + m => ~Live(slot, i)
  BY <1>1 DEF CopyInv, MissedOld, Hits, Live
<1>5. miss \subseteq 0 .. req.at
  BY <1>2
<1>6. MissedOld'
  <2>1. req'.phase = "lookup" => req'.at < req'.n /\ req'.miss \subseteq 0 .. req'.at - 1
    BY <1>1, <1>2, <1>5
  <2>2. req'.phase = "fill" => req'.miss # {} /\ req'.miss \subseteq 0 .. req'.n - 1
    BY <1>1, <1>2, <1>5
  <2>3. \A m \in req'.miss, i \in Slots : slot'[i].blkno = req'.blk + m => ~Live(slot, i)'
    BY <1>1, <1>3, <1>4 DEF Live, cacheVars
  <2> QED BY <2>1, <2>2, <2>3 DEF MissedOld
<1> QED BY <1>1, <1>3, <1>6, SameCache DEF CopyInv, CacheType, diskVars

\* What Fill makes of the cache and of the request.
LEMMA FillIs ==
    ASSUME CopyInv, Fill
    PROVE  LET n == Cardinality(Pending)
               p == First(req.miss)
               got == Contents(req.unit, req.blk + p, n)
           IN /\ req.phase = "fill" /\ n \in Nat \ {0} /\ p \in Nat
              /\ Pending = p .. p + n - 1 /\ Pending \subseteq req.miss /\ req.miss \subseteq 0 .. req.n - 1
              /\ req.blk \in Nat /\ req.n \in Nat /\ req.unit \in Units /\ req.unit = cunit
              /\ Inside(req.blk + p, n) /\ got \in [1 .. n -> Content]
              /\ \/ /\ Whole(n) /\ Inserted(slot, req.blk + p, got, n, slot') /\ bcount' = bcount + n
                    /\ req' = [req EXCEPT !.miss = req.miss \ Pending,
                         !.buf = [j \in 1 .. req.n |-> IF j - 1 \in Pending THEN got[j - p] ELSE req.buf[j]],
                         !.phase = IF req.miss \ Pending = {} THEN "done" ELSE "fill"]
                 \/ ~Whole(n) /\ slot' = slot /\ bcount' = bcount /\ req' = [req EXCEPT !.phase = "panic"]
<1> DEFINE n == Cardinality(Pending)
           p == First(req.miss)
           got == Contents(req.unit, req.blk + p, n)
<1>1. /\ req.phase = "fill" /\ req \in ReqRec /\ Len(req.buf) = req.n /\ req.buf \in Seq(Content)
      /\ req.miss # {} /\ req.miss \subseteq 0 .. req.n - 1
      /\ req.blk \in Nat /\ req.n \in Nat /\ req.unit \in Units /\ req.unit = cunit
  BY DEF CopyInv, CacheType, MissedOld, Fill, ReqRec
<1>2. /\ n \in Nat \ {0} /\ p \in Nat /\ Pending = p .. p + n - 1 /\ Pending \subseteq req.miss
      /\ First(Pending) = p
  BY <1>1, PendingIs
<1>3. Inside(req.blk + p, n)
  BY <1>2 DEF Fill
<1> HIDE DEF n, p
<1>4. req.blk + p \in Nat
  BY <1>1, <1>2
<1>5. got \in [1 .. n -> Content]
  BY <1>1, <1>2, <1>3, <1>4, ContentsIs DEF CopyInv, CacheType
<1> HIDE DEF got
<1>6. DOMAIN req.buf = 1 .. req.n
  BY <1>1
<1>7. CASE Whole(n)
  <2>1. slot' = InsertAll(slot, req.blk + p, got) /\ bcount' = bcount + n
    BY <1>2, <1>7 DEF Fill, n, got
  <2>2. req' = [req EXCEPT !.miss = req.miss \ Pending,
                  !.buf = [j \in DOMAIN req.buf |-> IF j - 1 \in Pending THEN got[j - First(Pending)] ELSE req.buf[j]],
                  !.phase = IF req.miss \ Pending = {} THEN "done" ELSE req.phase]
    BY <1>1, <1>2, <1>7 DEF Fill, n, got, ReqRec
  <2>3. \A j \in 1 .. n : slot[0].blkno = (req.blk + p) + j - 1 => ~Live(slot, 0)
    <3> SUFFICES ASSUME NEW j \in 1 .. n, slot[0].blkno = (req.blk + p) + j - 1 PROVE ~Live(slot, 0)
      OBVIOUS
    <3>1. p + j - 1 \in Pending /\ slot[0].blkno = req.blk + (p + j - 1)
      BY <1>1, <1>2
    <3>2. p + j - 1 \in req.miss /\ 0 \in Slots
      BY <1>2, <3>1, CacheAssumption DEF Slots
    <3> QED BY <1>1, <3>1, <3>2 DEF CopyInv, MissedOld
  <2>4. Inserted(slot, req.blk + p, got, n, slot')
    BY <1>2, <1>4, <1>5, <2>1, <2>3, InsertAllIs DEF CopyInv, CacheType
  <2>5. [j \in DOMAIN req.buf |-> IF j - 1 \in Pending THEN got[j - First(Pending)] ELSE req.buf[j]]
        = [j \in 1 .. req.n |-> IF j - 1 \in Pending THEN got[j - p] ELSE req.buf[j]]
    BY <1>2, <1>6
  <2> QED BY <1>1, <1>2, <1>3, <1>5, <1>7, <2>1, <2>2, <2>4, <2>5 DEF n, p, got
<1>8. CASE ~Whole(n)
  <2>1. slot' = slot /\ bcount' = bcount /\ req' = [req EXCEPT !.phase = "panic"]
    BY <1>8 DEF Fill, n
  <2> QED BY <1>1, <1>2, <1>3, <1>5, <1>8, <2>1 DEF n, p, got
<1> QED BY <1>7, <1>8

\* The blocks of a transfer that are still to be looked at are not among those
\* that were put into the cache, and a block that was missed is put there once.
LEMMA CopyFill ==
    ASSUME CopyInv, Fill
    PROVE  CopyInv'
<1> DEFINE n == Cardinality(Pending)
           p == First(req.miss)
           got == Contents(req.unit, req.blk + p, n)
           rest == req.miss \ Pending
           f == [j \in 1 .. req.n |-> IF j - 1 \in Pending THEN got[j - p] ELSE req.buf[j]]
<1>1. /\ req.phase = "fill" /\ n \in Nat \ {0} /\ p \in Nat
      /\ Pending = p .. p + n - 1 /\ Pending \subseteq req.miss /\ req.miss \subseteq 0 .. req.n - 1
      /\ req.blk \in Nat /\ req.n \in Nat /\ req.unit \in Units /\ req.unit = cunit
      /\ got \in [1 .. n -> Content]
  BY FillIs
<1>2. \/ /\ Inserted(slot, req.blk + p, got, n, slot') /\ bcount' = bcount + n
         /\ req' = [req EXCEPT !.miss = rest, !.buf = f, !.phase = IF rest = {} THEN "done" ELSE "fill"]
      \/ slot' = slot /\ bcount' = bcount /\ req' = [req EXCEPT !.phase = "panic"]
  BY FillIs
<1>3. UNCHANGED <<disk, version, cunit, now, astray>>
  BY DEF Fill, diskVars
<1>4. /\ req \in ReqRec /\ Len(req.buf) = req.n /\ req.buf \in Seq(Content) /\ now \in Nat /\ bcount \in Nat
      /\ Inside(req.blk, req.n) /\ req.since <= now
  BY <1>1 DEF CopyInv, CacheType, ReqRec
<1> HIDE DEF n, p, got
<1>5. CASE /\ Inserted(slot, req.blk + p, got, n, slot') /\ bcount' = bcount + n
           /\ req' = [req EXCEPT !.miss = rest, !.buf = f, !.phase = IF rest = {} THEN "done" ELSE "fill"]
  <2>1. f \in [1 .. req.n -> Content]
    <3> SUFFICES ASSUME NEW j \in 1 .. req.n
                 PROVE  (IF j - 1 \in Pending THEN got[j - p] ELSE req.buf[j]) \in Content
      OBVIOUS
    <3>1. j - 1 \in Pending => j - p \in 1 .. n
      BY <1>1
    <3>2. req.buf[j] \in Content
      <4>1. j \in 1 .. Len(req.buf)
        BY <1>4
      <4> QED BY <1>4, <4>1
    <3> QED BY <1>1, <3>1, <3>2
  <2>2. f \in Seq(Content) /\ Len(f) = req.n
    <3> HIDE DEF f
    <3> QED BY <1>1, <2>1, FunctionSeq
  <2> DEFINE q == IF rest = {} THEN "done" ELSE "fill"
  <2>3. q \in Phases /\ rest \in SUBSET Nat
    BY <1>4 DEF Phases, ReqRec
  <2> HIDE DEF f, q, rest
  <2>4. /\ req' \in ReqRec /\ req'.buf = f /\ req'.miss = rest /\ req'.phase = q
        /\ req'.n = req.n /\ req'.blk = req.blk /\ req'.unit = req.unit /\ req'.since = req.since
    BY <1>4, <1>5, <2>2, <2>3 DEF ReqRec, q
  <2>5. slot' \in CacheOf /\ OneCopy(slot') /\ ZeroOld(slot')
    BY <1>5 DEF Inserted
  <2>6. \A i \in Slots : slot'[i].stamp <= now
    <3> SUFFICES ASSUME NEW i \in Slots PROVE slot'[i].stamp <= now
      OBVIOUS
    <3>1. CASE slot'[i] = slot[i]
      BY <3>1 DEF CopyInv, CacheType
    <3>2. CASE \E j \in 1 .. n : slot'[i] = Entry(req.blk + p, got, j)
      BY <1>4, <3>2 DEF Entry
    <3> QED BY <1>5, <3>1, <3>2 DEF Inserted
  <2>7. CacheType'
    BY <1>1, <1>3, <1>4, <1>5, <2>2, <2>4, <2>5, <2>6 DEF CopyInv, CacheType, Inside, CacheOf
  <2>8. ASSUME NEW m \in rest, NEW i \in Slots, slot'[i].blkno = req.blk + m
        PROVE  ~Live(slot', i)
    <3>1. m \in req.miss /\ m \notin Pending /\ m \in Nat
      BY <1>1 DEF rest
    <3>2. CASE slot'[i] = slot[i]
      BY <1>1, <2>8, <3>1, <3>2 DEF CopyInv, MissedOld, Live
    <3>3. CASE \E j \in 1 .. n : slot'[i] = Entry(req.blk + p, got, j)
      <4>1. PICK j \in 1 .. n : slot'[i] = Entry(req.blk + p, got, j)
        BY <3>3
      <4>2. req.blk + m = req.blk + p + j - 1
        BY <2>8, <4>1 DEF Entry
      <4>3. m = p + j - 1
        BY <1>1, <3>1, <4>2
      <4> QED BY <1>1, <3>1, <4>3
    <3> QED BY <1>5, <3>2, <3>3 DEF Inserted
  <2>9. MissedOld'
    <3>1. rest \subseteq 0 .. req.n - 1
      BY <1>1 DEF rest
    <3>2. \A m \in req'.miss, i \in Slots : slot'[i].blkno = req'.blk + m => ~Live(slot, i)'
      BY <1>3, <2>4, <2>8 DEF Live
    <3>3. req'.phase = "fill" => req'.miss # {}
      BY <2>4 DEF q
    <3>4. req'.phase # "lookup"
      BY <2>4 DEF q
    <3> QED BY <2>4, <3>1, <3>2, <3>3, <3>4 DEF MissedOld
  <2>10. (OneCopy(slot) /\ ZeroOld(slot))'
    BY <1>3, <2>5 DEF OneCopy, ZeroOld, Live
  <2> QED BY <2>7, <2>9, <2>10 DEF CopyInv
<1>6. CASE slot' = slot /\ bcount' = bcount /\ req' = [req EXCEPT !.phase = "panic"]
  <2>1. /\ req' \in ReqRec /\ req'.phase = "panic" /\ req'.buf = req.buf
        /\ req'.n = req.n /\ req'.blk = req.blk /\ req'.unit = req.unit /\ req'.since = req.since
    BY <1>4, <1>6 DEF ReqRec, Phases
  <2>2. MissedOld'
    BY <2>1 DEF MissedOld
  <2>3. UNCHANGED <<cacheVars, now>> /\ UNCHANGED <<disk, version, astray>>
    BY <1>3, <1>6 DEF cacheVars
  <2> QED BY <1>1, <1>4, <2>1, <2>2, <2>3, SameCache DEF CopyInv, CacheType
<1> QED BY <1>2, <1>5, <1>6

\* What a write that succeeds makes of the cache.
LEMMA WriteIs ==
    ASSUME CopyInv, req.phase = "write"
    PROVE  LET u == req.unit
               clean == bcache_invalidate(slot, req.blk .. req.blk + req.n - 1)
               new == [k \in 1 .. req.n |-> Data(u, req.blk * SecBlks + k - 1, version[u] + 1)]
           IN /\ u \in Units /\ u = cunit /\ req.blk \in Nat /\ req.n \in Nat /\ Inside(req.blk, req.n)
              /\ version[u] \in Nat
              /\ clean \in CacheOf /\ OneCopy(clean) /\ ZeroOld(clean)
              /\ \A i \in Slots : clean[i] = slot[i] \/ clean[i] = Empty
              /\ clean[0].blkno \notin req.blk .. req.blk + req.n - 1
              /\ Inserted(clean, req.blk, new, req.n, InsertAll(clean, req.blk, new))
<1> DEFINE u == req.unit
           clean == bcache_invalidate(slot, req.blk .. req.blk + req.n - 1)
           new == [k \in 1 .. req.n |-> Data(u, req.blk * SecBlks + k - 1, version[u] + 1)]
<1>1. u \in Units /\ u = cunit /\ req.blk \in Nat /\ req.n \in Nat /\ Inside(req.blk, req.n) /\ version[u] \in Nat
  BY DEF CopyInv, CacheType, ReqRec
<1>2. req.blk .. req.blk + req.n - 1 \in SUBSET Nat
  BY <1>1
<1>3. /\ clean \in CacheOf /\ OneCopy(clean) /\ ZeroOld(clean)
      /\ \A i \in Slots : clean[i] = slot[i] \/ clean[i] = Empty
      /\ clean[0].blkno \notin req.blk .. req.blk + req.n - 1
  BY <1>2, InvalidatedIs DEF CopyInv, CacheType
<1>4. new \in [1 .. req.n -> Content]
  <2>1. req.blk * SecBlks \in Nat
    BY <1>1, CacheAssumption
  <2> DEFINE P == req.blk * SecBlks
  <2> HIDE DEF P
  <2>2. \A k \in 1 .. req.n : Data(u, P + k - 1, version[u] + 1) \in Content
    BY <1>1, <2>1 DEF Data, Content, P
  <2> QED BY <2>2 DEF P
<1> HIDE DEF clean, new
<1>5. \A j \in 1 .. req.n : clean[0].blkno = req.blk + j - 1 => ~Live(clean, 0)
  BY <1>1, <1>3
<1>6. Inserted(clean, req.blk, new, req.n, InsertAll(clean, req.blk, new))
  BY <1>1, <1>3, <1>4, <1>5, InsertAllIs DEF CopyInv, CacheType
<1> QED BY <1>1, <1>3, <1>6 DEF clean, new

\* Blocks are written: their old copies are gone from slot 0, and are used again
\* elsewhere.
LEMMA CopyWrite ==
    ASSUME CopyInv, WriteThrough
    PROVE  CopyInv'
<1> DEFINE u == req.unit
           clean == bcache_invalidate(slot, req.blk .. req.blk + req.n - 1)
           new == [k \in 1 .. req.n |-> Data(u, req.blk * SecBlks + k - 1, version[u] + 1)]
<1>1. /\ u \in Units /\ req.n \in Nat /\ clean \in CacheOf /\ OneCopy(clean) /\ ZeroOld(clean)
      /\ \A i \in Slots : clean[i] = slot[i] \/ clean[i] = Empty
      /\ Inserted(clean, req.blk, new, req.n, InsertAll(clean, req.blk, new))
  BY WriteIs DEF WriteThrough
<1>2. disk' \in [Units -> [Blocks -> Nat]] /\ version' \in [Units -> Nat]
  BY <1>1, StoredIs DEF WriteThrough, CopyInv
<1>3. req' = Idle /\ cunit' = cunit /\ now' = now /\ astray' \in BOOLEAN /\ now \in Nat
  BY DEF WriteThrough, CopyInv, CacheType
<1>4. \/ slot' = InsertAll(clean, req.blk, new) /\ bcount' = bcount + req.n
      \/ slot' = clean /\ bcount' = bcount
  BY DEF WriteThrough
<1> HIDE DEF clean, new
<1>5. slot' \in CacheOf /\ OneCopy(slot') /\ ZeroOld(slot') /\ bcount' \in Nat
  BY <1>1, <1>4 DEF Inserted, CopyInv, CacheType
<1>6. \A i \in Slots : slot'[i].stamp <= now
  <2>1. Empty.stamp = 0
    BY DEF Empty
  <2>2. \A i \in Slots : clean[i].stamp <= now
    <3>1. \A i \in Slots : slot[i].stamp <= now
      BY DEF CopyInv, CacheType
    <3>2. 0 <= now
      BY <1>3
    <3> QED BY <1>1, <2>1, <3>1, <3>2
  <2>3. \A j \in 1 .. req.n : Entry(req.blk, new, j).stamp <= now
    BY <1>3 DEF Entry
  <2> QED BY <1>1, <1>4, <2>2, <2>3 DEF Inserted
<1>7. CacheType'
  <2>1. Idle \in ReqRec /\ Len(Idle.buf) = Idle.n /\ Idle.phase = "idle" /\ Idle.since <= now
    BY <1>3, IdleIs
  <2>2. cunit \in Units
    BY WriteIs DEF WriteThrough
  <2>3. slot' \in CacheOf'
    BY <1>5 DEF CacheOf
  <2> QED BY <1>2, <1>3, <1>5, <1>6, <2>1, <2>2, <2>3 DEF CacheType
<1>8. MissedOld'
  BY <1>3, IdleIs DEF MissedOld
<1>9. (OneCopy(slot) /\ ZeroOld(slot))'
  BY <1>3, <1>5 DEF OneCopy, ZeroOld, Live
<1> QED BY <1>7, <1>8, <1>9 DEF CopyInv

\* Requests that end, or go past the cache.
LEMMA CopyEnd ==
    ASSUME CopyInv, ReadFails \/ BypassWrite \/ Return
    PROVE  CopyInv'
<1>1. UNCHANGED <<cacheVars, now>> /\ req' = Idle /\ astray' \in BOOLEAN /\ now \in Nat
  BY DEF ReadFails, BypassWrite, Return, CopyInv, CacheType
<1>2. disk' \in [Units -> [Blocks -> Nat]] /\ version' \in [Units -> Nat]
  <2>1. CASE BypassWrite
    <3>1. req.unit \in Units
      BY <2>1 DEF BypassWrite, CopyInv, CacheType
    <3> QED BY <2>1, <3>1, StoredIs DEF BypassWrite, CopyInv
  <2>2. CASE ReadFails \/ Return
    BY <2>2 DEF ReadFails, Return, diskVars, CopyInv, CacheType
  <2> QED BY <2>1, <2>2
<1>3. MissedOld'
  BY <1>1, IdleIs DEF MissedOld
<1>4. Idle.since <= now
  BY <1>1, IdleIs
<1> QED BY <1>1, <1>2, <1>3, <1>4, IdleIs, SameCache

\* What a read past the cache makes of the request.
LEMMA BypassIs ==
    ASSUME CopyInv, BypassRead
    PROVE  /\ req' \in ReqRec /\ req'.phase = "done" /\ req'.buf = Contents(req.unit, req.blk, req.n)
           /\ Len(req'.buf) = req.n /\ req.n \in Nat /\ req.blk \in Nat /\ req.unit \in Units /\ Inside(req.blk, req.n)
           /\ req'.n = req.n /\ req'.blk = req.blk /\ req'.unit = req.unit /\ req'.since = req.since
<1> DEFINE f == Contents(req.unit, req.blk, req.n)
<1>1. req \in ReqRec /\ req.n \in Nat /\ req.blk \in Nat /\ req.unit \in Units /\ Inside(req.blk, req.n)
  BY DEF CopyInv, CacheType, BypassRead, ReqRec
<1>2. f \in [1 .. req.n -> Content]
  BY <1>1, ContentsIs DEF CopyInv, CacheType
<1>3. f \in Seq(Content) /\ Len(f) = req.n
  BY <1>1, <1>2, FunctionSeq
<1>4. req' = [req EXCEPT !.phase = "done", !.buf = f]
  BY DEF BypassRead
<1> HIDE DEF f
<1>5. /\ req' \in ReqRec /\ req'.phase = "done" /\ req'.buf = f
      /\ req'.n = req.n /\ req'.blk = req.blk /\ req'.unit = req.unit /\ req'.since = req.since
  BY <1>1, <1>3, <1>4 DEF ReqRec, Phases
<1> QED BY <1>1, <1>3, <1>5 DEF f

\* A read that goes past the cache.
LEMMA CopyBypass ==
    ASSUME CopyInv, BypassRead
    PROVE  CopyInv'
<1>1. UNCHANGED <<disk, version, cacheVars, now, astray>>
  BY DEF BypassRead, diskVars
<1>2. MissedOld'
  BY BypassIs DEF MissedOld
<1>3. req.unit = cunit /\ req.since <= now
  BY DEF BypassRead, CopyInv, CacheType
<1> QED BY <1>1, <1>2, <1>3, BypassIs, SameCache DEF CopyInv, CacheType

\* Time passes, or a medium is changed.
LEMMA CopyAround ==
    ASSUME CopyInv, Tick \/ \E u \in Removable : ChangeMedium(u)
    PROVE  CopyInv'
<1>1. CASE Tick
  <2>1. now' = now + 1 /\ UNCHANGED <<slot, req, bcount, cunit, disk, version, astray>>
    BY <1>1 DEF Tick, diskVars, cacheVars
  <2> QED BY <2>1, SameSlots DEF CopyInv, CacheType
<1>2. CASE \E u \in Removable : ChangeMedium(u)
  <2>1. PICK u \in Removable : ChangeMedium(u)
    BY <1>2
  <2>2. u \in Units
    BY CacheAssumption
  <2>3. UNCHANGED <<slot, req, bcount, cunit, now, astray>>
    BY <2>1 DEF ChangeMedium, cacheVars
  <2>4. disk' \in [Units -> [Blocks -> Nat]] /\ version' \in [Units -> Nat]
    BY <2>1, <2>2 DEF ChangeMedium, CopyInv, CacheType
  <2> QED BY <2>3, <2>4, SameSlots DEF CopyInv, CacheType
<1> QED BY <1>1, <1>2

\* Every step keeps the invariant.
LEMMA CopyStep == CopyInv /\ [Next]_vars => CopyInv'
<1> SUFFICES ASSUME CopyInv, [Next]_vars PROVE CopyInv'
  OBVIOUS
<1>1. CASE UNCHANGED vars
  BY <1>1, SameSlots DEF vars, diskVars, cacheVars, CopyInv, CacheType
<1>2. CASE Next
  BY <1>2, CopyBegin, CopyLookup, CopyFill, CopyWrite, CopyEnd, CopyBypass, CopyAround DEF Next
<1> QED BY <1>1, <1>2

\* Copies of a block that can be hit are one at most.
LEMMA CopiesHit == CopyInv => OneHit
<1> SUFFICES ASSUME CopyInv, NEW b \in 0 .. Sectors - 1 PROVE Cardinality(Hits(b)) <= 1
  BY DEF OneHit
<1>1. \A i, j \in Hits(b) : i = j
  <2> SUFFICES ASSUME NEW i \in Hits(b), NEW j \in Hits(b), i # j PROVE FALSE
    OBVIOUS
  <2>1. /\ i \in Slots /\ j \in Slots /\ slot[i].blkno = b /\ slot[j].blkno = b /\ b # -1
        /\ Live(slot, i) /\ Live(slot, j)
    BY DEF Hits, Live
  <2> QED BY <2>1 DEF CopyInv, OneCopy, ZeroOld
<1>2. CASE Hits(b) = {}
  BY <1>2, FS_EmptySet
<1>3. CASE Hits(b) # {}
  <2>1. PICK i : Hits(b) = {i}
    BY <1>1, <1>3
  <2>2. Cardinality({i}) = 1
    BY FS_Singleton
  <2> QED BY <2>1, <2>2
<1> QED BY <1>2, <1>3

\* Although bcache_insert() may put a block into the cache twice, only one copy
\* of it can be hit, whatever the size of a sector.
THEOREM OneCopyHit == Spec => []OneHit
<1>1. Spec => []CopyInv
  BY CopyInit, CopyStep, PTL DEF Spec
<1> QED BY <1>1, CopiesHit, PTL

-----------------------------------------------------------------------------
(* What the blocks hold, when a sector is a block *)

\* A block stays right while its place on the disk is not written.
LEMMA RightStays ==
    ASSUME NEW d, NEW u, NEW b, NEW t \in Int, NEW t2 \in Int, t2 <= t, NEW dk, NEW dk2, NEW rs, NEW rs2,
           Right(d, u, b, t, dk, rs), dk2[u][b] = dk[u][b],
           \A r \in rs : r.gone \in Nat /\ (r.gone >= t => r \in rs2)
    PROVE  Right(d, u, b, t2, dk2, rs2)
<1>1. d.unit = u /\ d.blk = b /\ b \in Blocks
  BY DEF Right
<1>2. CASE d.ver = dk[u][b]
  BY <1>1, <1>2 DEF Right
<1>3. CASE \E r \in rs : r.data = d /\ r.gone >= t
  <2>1. PICK r \in rs : r.data = d /\ r.gone >= t
    BY <1>3
  <2>2. r \in rs2 /\ r.gone >= t2
    BY <2>1
  <2> QED BY <1>1, <2>1, <2>2 DEF Right
<1> QED BY <1>2, <1>3 DEF Right

\* What was just read from the disk is right.
LEMMA ReadIs ==
    ASSUME SecBlks = 1, CacheType, NEW u \in Units, NEW sec \in Nat, NEW n \in Nat, Inside(sec, n), NEW k \in 1 .. n, NEW t
    PROVE  Right(Contents(u, sec, n)[k], u, sec + k - 1, t, disk, recent)
<1>1. sec * SecBlks = sec
  OBVIOUS
<1>2. sec + k - 1 \in Blocks /\ Contents(u, sec, n)[k] = Data(u, sec + k - 1, disk[u][sec + k - 1])
  BY <1>1, ContentsIs DEF CacheType
<1> QED BY <1>2 DEF Right, Data

\* Numbers that the proofs below compare.
LEMMA Numbers ==
    ASSUME CopyInv
    PROVE  /\ now \in Nat /\ Timeout \in Nat /\ req.since \in Nat /\ req.since <= now /\ Since \in Nat /\ Since <= now
           /\ req.blk \in Nat /\ req.n \in Nat /\ req.at \in Nat
           /\ \A i \in Slots : slot[i].stamp \in Nat /\ slot[i].stamp <= now /\ slot[i].blkno \in Int
BY CacheAssumption DEF CopyInv, CacheType, CacheOf, SlotRec, ReqRec, Since

\* The invariant holds at the start.
LEMMA ContentInit == Init => ContentInv
<1> SUFFICES ASSUME Init PROVE ContentInv
  OBVIOUS
<1>1. Idle.n = 0 /\ Idle.phase = "idle" /\ req = Idle /\ recent = {}
  BY DEF Init, Idle
<1>2. \A i \in Slots : slot[i].blkno = -1
  BY FlushedIs DEF Init, Flushed
<1> QED BY <1>1, <1>2 DEF ContentInv, Gone, SlotsRight, BufRight

\* Slots that stay as they are stay right, while disk and media do.
LEMMA SlotsStay ==
    ASSUME CopyInv, ContentInv, UNCHANGED <<disk, recent, slot, cunit, astray>>, Since <= Since', Since' \in Nat
    PROVE  SlotsRight'
<1> SUFFICES ASSUME ~astray, NEW i \in Slots, slot[i].blkno # -1, slot[i].stamp + Timeout >= Since'
             PROVE  Right(slot[i].data, cunit, slot[i].blkno, slot[i].stamp, disk, recent)
  BY DEF SlotsRight
<1>1. slot[i].stamp + Timeout >= Since
  BY Numbers
<1> QED BY <1>1 DEF ContentInv, SlotsRight

\* A request begins.
LEMMA ContentBegin ==
    ASSUME CopyInv, ContentInv, NEW rw \in {"r", "w"}, NEW u \in Units, NEW sec \in 0 .. Sectors - 1, NEW k \in 1 .. MaxReq,
           Begin(rw, u, sec, k)
    PROVE  ContentInv'
<1>1. /\ req.phase = "idle" /\ ~astray /\ UNCHANGED <<disk, recent, astray, now>>
      /\ cunit' = u /\ slot' = IF cunit # u THEN Flushed ELSE slot
      /\ req'.phase \in {"bypass", "write", "lookup"} /\ req'.since = now /\ req'.at = 0 /\ req'.miss = {}
  BY DEF Begin, diskVars
<1>2. Since' = now /\ Since = now /\ now \in Nat
  BY <1>1, Numbers DEF Since
<1>3. SlotsRight'
  <2>1. CASE cunit = u
    BY <1>1, <1>2, <2>1, SlotsStay
  <2>2. CASE cunit # u
    BY <1>1, <2>2, FlushedIs DEF SlotsRight
  <2> QED BY <2>1, <2>2
<1>4. BufRight'
  BY <1>1 DEF BufRight
<1>5. Gone'
  BY <1>1 DEF Gone, ContentInv
<1> QED BY <1>3, <1>4, <1>5 DEF ContentInv

\* A block is looked up: what is hit is right.
LEMMA ContentLookup ==
    ASSUME CopyInv, ContentInv, Lookup
    PROVE  ContentInv'
<1> DEFINE b == req.blk + req.at
           h == First(Hits(b))
           t == req.since - Timeout
<1>1. /\ req.phase = "lookup" /\ req.at < req.n
      /\ req'.unit = req.unit /\ req'.n = req.n /\ req'.blk = req.blk /\ req'.since = req.since
      /\ req'.at = req.at + 1 /\ req'.miss = IF Hits(b) # {} THEN req.miss ELSE req.miss \cup {req.at}
      /\ \A k \in 1 .. req.n : k # req.at + 1 => req'.buf[k] = req.buf[k]
      /\ Hits(b) # {} => h \in Hits(b) /\ req'.buf[req.at + 1] = slot[h].data
      /\ req'.phase \in {"lookup", "done", "fill"}
      /\ req'.phase # "lookup" => req.at + 1 >= req.n
      /\ req'.phase = "done" => req'.miss = {}
  <2>1. req.at \in Nat /\ req.n \in Nat
    BY Numbers
  <2> QED BY <2>1, LookupIs
<1>2. UNCHANGED <<disk, recent, slot, cunit, now, astray>>
  BY DEF Lookup, diskVars, cacheVars
<1>3. Since = req.since /\ Since' = req.since /\ ~astray /\ Since \in Nat
  BY <1>1, Numbers DEF Since, ContentInv, Gone
<1>4. SlotsRight'
  BY <1>2, <1>3, SlotsStay
<1>5. Hits(b) # {} => Right(req'.buf[req.at + 1], req.unit, b, t, disk, recent)
  <2> SUFFICES ASSUME Hits(b) # {} PROVE Right(slot[h].data, req.unit, b, t, disk, recent)
    BY <1>1
  <2>1. h \in Slots /\ slot[h].blkno = b /\ slot[h].stamp + Timeout >= now
    BY <1>1 DEF Hits
  <2>2. b # -1 /\ slot[h].stamp + Timeout >= Since /\ slot[h].stamp \in Int /\ t \in Int /\ t <= slot[h].stamp
    BY <2>1, <1>3, Numbers
  <2>3. Right(slot[h].data, cunit, b, slot[h].stamp, disk, recent)
    BY <1>3, <2>1, <2>2 DEF ContentInv, SlotsRight
  <2>4. req.unit = cunit
    BY <1>1 DEF CopyInv, CacheType
  <2> HIDE DEF b, h, t
  <2> QED BY <2>2, <2>3, <2>4, RightStays DEF ContentInv, Gone
<1>6. BufRight'
  <2> SUFFICES ASSUME NEW k \in 1 .. req.n,
                      \/ req'.phase = "lookup" /\ k <= req.at + 1 /\ k - 1 \notin req'.miss
                      \/ req'.phase = "fill" /\ k - 1 \notin req'.miss
                      \/ req'.phase = "done"
               PROVE  Right(req'.buf[k], req.unit, req.blk + k - 1, t, disk, recent)
    BY <1>1, <1>2 DEF BufRight
  <2>0. req.at \in Nat /\ req.blk \in Nat /\ req.n \in Nat
    BY Numbers
  <2>1. k <= req.at + 1 /\ k - 1 \notin req'.miss /\ req.at \in Nat /\ req.blk \in Nat
    BY <1>1, <2>0
  <2>2. CASE k = req.at + 1
    <3>1. Hits(b) # {} /\ b = req.blk + k - 1
      BY <1>1, <2>1, <2>2
    <3> QED BY <1>5, <2>2, <3>1
  <2>3. CASE k # req.at + 1
    <3>1. k <= req.at /\ k - 1 \notin req.miss /\ req'.buf[k] = req.buf[k]
      BY <1>1, <2>1, <2>3
    <3> QED BY <1>1, <3>1 DEF ContentInv, BufRight
  <2> QED BY <2>2, <2>3
<1>7. Gone'
  BY <1>2, <1>3 DEF Gone, ContentInv
<1> QED BY <1>4, <1>6, <1>7 DEF ContentInv

\* Blocks are read from the disk, to the buffer and to the cache.
LEMMA ContentFill ==
    ASSUME SecBlks = 1, CopyInv, ContentInv, Fill
    PROVE  ContentInv'
<1> DEFINE n == Cardinality(Pending)
           p == First(req.miss)
           got == Contents(req.unit, req.blk + p, n)
           rest == req.miss \ Pending
           f == [j \in 1 .. req.n |-> IF j - 1 \in Pending THEN got[j - p] ELSE req.buf[j]]
           t == req.since - Timeout
<1>1. /\ req.phase = "fill" /\ n \in Nat \ {0} /\ p \in Nat
      /\ Pending = p .. p + n - 1 /\ Pending \subseteq req.miss /\ req.miss \subseteq 0 .. req.n - 1
      /\ req.blk \in Nat /\ req.n \in Nat /\ req.unit \in Units /\ req.unit = cunit
      /\ Inside(req.blk + p, n)
  BY FillIs
<1>2. Whole(n)
  BY <1>1 DEF Whole
<1>3. /\ Inserted(slot, req.blk + p, got, n, slot')
      /\ req' = [req EXCEPT !.miss = rest, !.buf = f, !.phase = IF rest = {} THEN "done" ELSE "fill"]
  BY <1>2, FillIs
<1>4. UNCHANGED <<disk, recent, cunit, now, astray>>
  BY DEF Fill, diskVars
<1> HIDE DEF n, p
<1>5. ASSUME NEW j \in 1 .. n, NEW x PROVE Right(got[j], req.unit, req.blk + p + j - 1, x, disk, recent)
  <2>1. req.blk + p \in Nat /\ CacheType
    BY <1>1 DEF CopyInv
  <2> QED BY <1>1, <2>1, ReadIs
<1> HIDE DEF got
<1>6. /\ req'.miss = rest /\ req'.buf = f /\ req'.phase = IF rest = {} THEN "done" ELSE "fill"
      /\ req'.n = req.n /\ req'.blk = req.blk /\ req'.unit = req.unit /\ req'.since = req.since
  <2> HIDE DEF f, rest
  <2>1. req \in ReqRec
    BY DEF CopyInv, CacheType
  <2> QED BY <1>3, <2>1 DEF ReqRec
<1>7. Since = req.since /\ Since' = req.since /\ ~astray /\ req.since \in Nat
  BY <1>1, <1>6, Numbers DEF Since, ContentInv, Gone
<1>8. SlotsRight'
  <2> SUFFICES ASSUME NEW i \in Slots, slot'[i].blkno # -1, slot'[i].stamp + Timeout >= req.since
               PROVE  Right(slot'[i].data, cunit, slot'[i].blkno, slot'[i].stamp, disk, recent)
    BY <1>4, <1>7 DEF SlotsRight
  <2>1. CASE slot'[i] = slot[i]
    BY <1>7, <2>1 DEF ContentInv, SlotsRight
  <2>2. CASE \E j \in 1 .. n : slot'[i] = Entry(req.blk + p, got, j)
    <3>1. PICK j \in 1 .. n : slot'[i] = Entry(req.blk + p, got, j)
      BY <2>2
    <3>2. slot'[i].data = got[j] /\ slot'[i].blkno = req.blk + p + j - 1
      BY <3>1 DEF Entry
    <3> QED BY <1>1, <1>5, <3>2
  <2> QED BY <1>3, <2>1, <2>2 DEF Inserted
<1>9. BufRight'
  <2> SUFFICES ASSUME NEW k \in 1 .. req.n, k - 1 \notin rest
               PROVE  Right(f[k], req.unit, req.blk + k - 1, t, disk, recent)
    BY <1>4, <1>6 DEF BufRight
  <2>1. CASE k - 1 \in Pending
    <3>1. k - p \in 1 .. n /\ req.blk + p + (k - p) - 1 = req.blk + k - 1 /\ f[k] = got[k - p]
      BY <1>1, <2>1
    <3> QED BY <1>5, <3>1
  <2>2. CASE k - 1 \notin Pending
    <3>1. k - 1 \notin req.miss /\ f[k] = req.buf[k]
      BY <2>2
    <3> QED BY <1>1, <3>1 DEF ContentInv, BufRight
  <2> QED BY <2>1, <2>2
<1>10. Gone'
  BY <1>4, <1>7 DEF Gone, ContentInv
<1> QED BY <1>8, <1>9, <1>10 DEF ContentInv

\* Blocks are written: what the cache has of them is what was written.
LEMMA ContentWrite ==
    ASSUME SecBlks = 1, CopyInv, ContentInv, WriteThrough
    PROVE  ContentInv'
<1> DEFINE u == req.unit
           blks == req.blk .. req.blk + req.n - 1
           clean == bcache_invalidate(slot, blks)
           new == [k \in 1 .. req.n |-> Data(u, req.blk * SecBlks + k - 1, version[u] + 1)]
<1>1. /\ u \in Units /\ u = cunit /\ req.blk \in Nat /\ req.n \in Nat /\ Inside(req.blk, req.n) /\ version[u] \in Nat
      /\ \A i \in Slots : clean[i] = slot[i] \/ clean[i] = Empty
      /\ clean[0].blkno \notin blks
      /\ Inserted(clean, req.blk, new, req.n, InsertAll(clean, req.blk, new))
  BY WriteIs DEF WriteThrough
<1>2. req' = Idle /\ cunit' = cunit /\ now' = now /\ recent' = recent /\ req.phase = "write"
  BY DEF WriteThrough
<1>3. Idle.phase = "idle" /\ Idle.n = 0
  BY DEF Idle
<1>4. BufRight' /\ Gone'
  BY <1>2, <1>3 DEF BufRight, Gone, ContentInv
<1>5. ~astray /\ Since = req.since /\ Since' = now /\ now \in Nat /\ req.since \in Nat /\ req.since <= now
  BY <1>2, <1>3, Numbers DEF Since, ContentInv, Gone
<1>6. SlotsRight'
  <2> SUFFICES ASSUME ~astray', NEW i \in Slots, slot'[i].blkno # -1, slot'[i].stamp + Timeout >= now
               PROVE  Right(slot'[i].data, cunit, slot'[i].blkno, slot'[i].stamp, disk', recent)
    BY <1>2, <1>5 DEF SlotsRight
  <2>1. disk' = Stored(u, req.blk, req.n) /\ slot' = InsertAll(clean, req.blk, new)
    BY DEF WriteThrough
  <2>2. req.blk * SecBlks = req.blk /\ Blocks = 0 .. Sectors - 1 /\ req.blk + req.n <= Sectors
    BY <1>1, CacheAssumption DEF Blocks, Inside
  <2>3. ASSUME NEW b \in Blocks PROVE disk'[u][b] = IF b \in blks THEN version[u] + 1 ELSE disk[u][b]
    BY <1>1, <2>1, <2>2 DEF Stored, CopyInv, CacheType
  <2>4. ASSUME NEW j \in 1 .. req.n PROVE new[j] = Data(u, req.blk + j - 1, version[u] + 1)
    BY <2>2
  <2> HIDE DEF new, clean
  <2>5. Inserted(clean, req.blk, new, req.n, slot')
    BY <1>1, <2>1
  <2>6. CASE \E j \in 1 .. req.n : slot'[i] = Entry(req.blk, new, j)
    <3>1. PICK j \in 1 .. req.n : slot'[i] = Entry(req.blk, new, j)
      BY <2>6
    <3>2. slot'[i].blkno = req.blk + j - 1 /\ slot'[i].data = Data(u, req.blk + j - 1, version[u] + 1)
      BY <2>4, <3>1 DEF Entry
    <3>3. req.blk + j - 1 \in Blocks /\ req.blk + j - 1 \in blks
      BY <1>1, <2>2, CacheAssumption
    <3>4. disk'[u][req.blk + j - 1] = version[u] + 1
      BY <2>3, <3>3
    <3> QED BY <1>1, <3>2, <3>3, <3>4 DEF Right, Data
  <2>7. CASE slot'[i] = clean[i] /\ ~\E j \in 1 .. req.n : slot'[i] = Entry(req.blk, new, j)
    <3>1. slot'[i] = slot[i]
      <4>1. Empty.blkno = -1
        BY DEF Empty
      <4> QED BY <1>1, <2>7, <4>1
    <3>2. slot[i].blkno \notin blks
      <4> SUFFICES ASSUME slot[i].blkno \in blks PROVE FALSE
        OBVIOUS
      <4> DEFINE j == slot[i].blkno - req.blk + 1
      <4>1. j \in 1 .. req.n /\ slot'[i].blkno = req.blk + j - 1
        BY <1>1, <3>1, Numbers
      <4>2. i = 0 /\ slot'[0] = clean[0]
        <5> HIDE DEF j
        <5> QED BY <2>5, <2>7, <4>1 DEF Inserted
      <4> QED BY <1>1, <3>1, <4>2
    <3>3. slot[i].stamp + Timeout >= Since /\ slot[i].stamp \in Int
      BY <1>5, <3>1, Numbers
    <3>4. Right(slot[i].data, cunit, slot[i].blkno, slot[i].stamp, disk, recent)
      BY <1>5, <3>1, <3>3 DEF ContentInv, SlotsRight
    <3>5. slot[i].blkno \in Blocks
      BY <3>4 DEF Right
    <3>6. disk'[cunit][slot[i].blkno] = disk[cunit][slot[i].blkno]
      BY <1>1, <2>3, <3>2, <3>5
    <3> QED BY <3>1, <3>3, <3>4, <3>6, RightStays DEF ContentInv, Gone
  <2> QED BY <2>5, <2>6, <2>7 DEF Inserted
<1> QED BY <1>4, <1>6 DEF ContentInv

\* Requests that end, or go past the cache.
LEMMA ContentEnd ==
    ASSUME CopyInv, ContentInv, ReadFails \/ BypassWrite \/ Return
    PROVE  ContentInv'
<1>1. req' = Idle /\ Idle.phase = "idle" /\ Idle.n = 0 /\ recent' = recent /\ now' = now
  BY DEF ReadFails, BypassWrite, Return, Idle
<1>2. BufRight' /\ Gone'
  BY <1>1 DEF BufRight, Gone, ContentInv
<1>3. CASE BypassWrite
  <2>1. astray'
    BY <1>3 DEF BypassWrite
  <2>2. SlotsRight'
    BY <2>1 DEF SlotsRight
  <2> QED BY <1>2, <2>2 DEF ContentInv
<1>4. CASE ReadFails \/ Return
  <2>1. UNCHANGED <<disk, recent, slot, cunit, astray>>
    BY <1>4 DEF ReadFails, Return, diskVars, cacheVars
  <2>2. Since' = now /\ Since <= now /\ now \in Nat
    BY <1>1, Numbers DEF Since
  <2>3. SlotsRight'
    BY <2>1, <2>2, SlotsStay
  <2> QED BY <1>2, <2>3 DEF ContentInv
<1> QED BY <1>3, <1>4

\* A read that goes past the cache.
LEMMA ContentBypass ==
    ASSUME SecBlks = 1, CopyInv, ContentInv, BypassRead
    PROVE  ContentInv'
<1>1. UNCHANGED <<disk, recent, slot, cunit, astray, now>> /\ req.phase = "bypass"
  BY DEF BypassRead, diskVars, cacheVars
<1>2. /\ req'.phase = "done" /\ req'.buf = Contents(req.unit, req.blk, req.n)
      /\ req.n \in Nat /\ req.blk \in Nat /\ req.unit \in Units /\ Inside(req.blk, req.n)
      /\ req'.n = req.n /\ req'.blk = req.blk /\ req'.unit = req.unit /\ req'.since = req.since
  BY BypassIs
<1>3. ~astray /\ Since' = req.since /\ Since = req.since /\ Since \in Nat
  BY <1>1, <1>2, Numbers DEF Since, ContentInv, Gone
<1>4. SlotsRight'
  BY <1>1, <1>3, SlotsStay
<1>5. BufRight'
  <2>1. CacheType
    BY DEF CopyInv
  <2>2. ASSUME NEW k \in 1 .. req.n, NEW t
        PROVE  Right(Contents(req.unit, req.blk, req.n)[k], req.unit, req.blk + k - 1, t, disk, recent)
    BY <1>2, <2>1, ReadIs
  <2> QED BY <1>1, <1>2, <2>2 DEF BufRight
<1>6. Gone'
  BY <1>1, <1>3 DEF Gone, ContentInv
<1> QED BY <1>4, <1>5, <1>6 DEF ContentInv

\* Time passes: what is forgotten is too long ago for any block that can be hit.
LEMMA ContentTick ==
    ASSUME CopyInv, ContentInv, Tick
    PROVE  ContentInv'
<1>1. /\ now' = now + 1 /\ UNCHANGED <<disk, slot, cunit, req, astray>>
      /\ recent' = {r \in recent : r.gone + Timeout >= Start}
  BY DEF Tick, diskVars, cacheVars
<1>2. Since' = Start
  BY <1>1 DEF Since, Start
<1>3. Since <= Start /\ Start \in Nat
  BY <1>1, Numbers DEF Since, Start
<1>4. \A r \in recent : r.gone \in Nat
  BY DEF ContentInv, Gone
<1>5. SlotsRight'
  <2> SUFFICES ASSUME ~astray, NEW i \in Slots, slot[i].blkno # -1, slot[i].stamp + Timeout >= Start
               PROVE  Right(slot[i].data, cunit, slot[i].blkno, slot[i].stamp, disk, recent')
    BY <1>1, <1>2 DEF SlotsRight
  <2>1. slot[i].stamp + Timeout >= Since /\ slot[i].stamp \in Nat /\ Timeout \in Nat
    BY <1>3, Numbers
  <2>2. Right(slot[i].data, cunit, slot[i].blkno, slot[i].stamp, disk, recent)
    BY <2>1 DEF ContentInv, SlotsRight
  <2>3. \A r \in recent : r.gone >= slot[i].stamp => r \in recent'
    BY <1>1, <1>3, <1>4, <2>1
  <2> QED BY <1>4, <2>1, <2>2, <2>3, RightStays
<1>6. BufRight'
  <2> DEFINE t == req.since - Timeout
  <2> SUFFICES ASSUME NEW k \in 1 .. req.n, req.phase \in {"lookup", "fill", "done"},
                      Right(req.buf[k], req.unit, req.blk + k - 1, t, disk, recent)
               PROVE  Right(req.buf[k], req.unit, req.blk + k - 1, t, disk, recent')
    BY <1>1 DEF BufRight, ContentInv
  <2>1. t \in Int /\ Start = req.since
    BY Numbers DEF Start
  <2>2. \A r \in recent : r.gone >= t => r \in recent'
    BY <1>1, <1>4, <2>1, Numbers
  <2> HIDE DEF t
  <2> QED BY <1>4, <2>1, <2>2, RightStays
<1>7. Gone'
  BY <1>1 DEF Gone, ContentInv
<1> QED BY <1>5, <1>6, <1>7 DEF ContentInv

\* A medium is changed: what was on it is now gone, and was there until now.
LEMMA ContentChange ==
    ASSUME CopyInv, ContentInv, NEW u \in Removable, ChangeMedium(u)
    PROVE  ContentInv'
<1>1. /\ UNCHANGED <<now, slot, cunit, req, astray>>
      /\ disk' = [disk EXCEPT ![u] = [b \in Blocks |-> version[u] + 1]]
      /\ recent' = recent \cup {[data |-> Data(u, b, disk[u][b]), gone |-> now] : b \in Blocks}
  BY DEF ChangeMedium, cacheVars
<1>2. Since' = Since
  BY <1>1 DEF Since
<1>3. \A r \in recent : r.gone \in Nat
  BY DEF ContentInv, Gone
<1>4. disk \in [Units -> [Blocks -> Nat]] /\ now \in Nat
  BY DEF CopyInv, CacheType
<1>5. ASSUME NEW d \in Content, NEW w \in Units, NEW b, NEW t \in Int, t <= now, Right(d, w, b, t, disk, recent)
      PROVE  Right(d, w, b, t, disk', recent')
  <2>1. CASE w # u
    <3>1. disk'[w][b] = disk[w][b]
      BY <1>1, <1>4, <2>1
    <3>2. \A r \in recent : r \in recent'
      BY <1>1
    <3> QED BY <1>3, <1>5, <3>1, <3>2, RightStays
  <2>2. CASE w = u
    <3>1. d.unit = u /\ d.blk = b /\ b \in Blocks
      BY <1>5, <2>2 DEF Right
    <3>2. CASE d.ver = disk[u][b]
      <4>1. d = Data(u, b, disk[u][b])
        BY <3>1, <3>2 DEF Content, Data
      <4> DEFINE r == [data |-> Data(u, b, disk[u][b]), gone |-> now]
      <4>2. r \in recent' /\ r.data = d /\ r.gone >= t
        BY <1>1, <1>4, <1>5, <3>1, <4>1
      <4> QED BY <2>2, <3>1, <4>2 DEF Right
    <3>3. CASE \E r \in recent : r.data = d /\ r.gone >= t
      BY <1>1, <2>2, <3>1, <3>3 DEF Right
    <3> QED BY <1>5, <2>2, <3>2, <3>3 DEF Right
  <2> QED BY <2>1, <2>2
<1>6. SlotsRight'
  <2> SUFFICES ASSUME ~astray, NEW i \in Slots, slot[i].blkno # -1, slot[i].stamp + Timeout >= Since
               PROVE  Right(slot[i].data, cunit, slot[i].blkno, slot[i].stamp, disk', recent')
    BY <1>1, <1>2 DEF SlotsRight
  <2>1. slot[i].data \in Content /\ slot[i].stamp \in Int /\ slot[i].stamp <= now
    BY Numbers DEF CopyInv, CacheType, CacheOf, SlotRec
  <2>2. Right(slot[i].data, cunit, slot[i].blkno, slot[i].stamp, disk, recent)
    BY DEF ContentInv, SlotsRight
  <2>3. cunit \in Units
    BY DEF CopyInv, CacheType
  <2> QED BY <1>5, <2>1, <2>2, <2>3
<1>7. BufRight'
  <2> DEFINE t == req.since - Timeout
  <2> SUFFICES ASSUME NEW k \in 1 .. req.n, req.phase \in {"lookup", "fill", "done"},
                      Right(req.buf[k], req.unit, req.blk + k - 1, t, disk, recent)
               PROVE  Right(req.buf[k], req.unit, req.blk + k - 1, t, disk', recent')
    BY <1>1 DEF BufRight, ContentInv
  <2>1. t \in Int /\ t <= now
    BY Numbers
  <2>2. req.buf[k] \in Content
    <3>1. req.buf \in Seq(Content) /\ k \in 1 .. Len(req.buf)
      BY DEF CopyInv, CacheType, ReqRec
    <3> QED BY <3>1
  <2>3. req.unit \in Units
    BY DEF CopyInv, CacheType
  <2> HIDE DEF t
  <2> QED BY <1>5, <2>1, <2>2, <2>3
<1>8. Gone'
  BY <1>1, <1>3, <1>4 DEF Gone, ContentInv
<1> QED BY <1>6, <1>7, <1>8 DEF ContentInv

\* Every step keeps the invariant.
LEMMA ContentStep == SecBlks = 1 /\ CopyInv /\ ContentInv /\ [Next]_vars => ContentInv'
<1> SUFFICES ASSUME SecBlks = 1, CopyInv, ContentInv, [Next]_vars PROVE ContentInv'
  OBVIOUS
<1>1. CASE UNCHANGED vars
  BY <1>1 DEF vars, diskVars, cacheVars, ContentInv, Gone, SlotsRight, BufRight, Since
<1>2. CASE Next
  BY <1>2, ContentBegin, ContentLookup, ContentFill, ContentWrite, ContentEnd, ContentBypass, ContentTick, ContentChange DEF Next
<1> QED BY <1>1, <1>2

\* A buffer that is right is one that ReadRight accepts.
LEMMA BuffersRight == SecBlks = 1 /\ CopyInv /\ ContentInv => ReadRight
<1> SUFFICES ASSUME SecBlks = 1, CopyInv, ContentInv, req.phase = "done", NEW k \in 1 .. req.n
             PROVE  LET b == req.blk * SecBlks + k - 1
                        d == req.buf[k]
                    IN /\ d.unit = req.unit /\ d.blk = b
                       /\ d.ver = disk[req.unit][b] \/ \E r \in recent : r.data = d
  BY DEF ReadRight
<1>1. req.blk * SecBlks = req.blk
  BY Numbers
<1>2. Right(req.buf[k], req.unit, req.blk + k - 1, req.since - Timeout, disk, recent)
  BY DEF ContentInv, BufRight
<1> QED BY <1>1, <1>2 DEF Right

\* Where a sector is a block of the cache (SecBlks = 1: disks with sectors of 512
\* bytes), a read through bcache_strategy() that succeeds fills the whole buffer
\* with what belongs there: what is on the medium, or what was on a medium that
\* was changed no more than BCACHE_TIMEOUT seconds before the read began; and of
\* a block that is in the cache twice one copy at most can be hit.
THEOREM CacheCorrect == SecBlks = 1 => (Spec => []CacheRight)
<1> SUFFICES ASSUME SecBlks = 1 PROVE Spec => []CacheRight
  OBVIOUS
<1>1. Spec => []CopyInv
  BY CopyInit, CopyStep, PTL DEF Spec
<1>2. Init => ContentInv
  BY ContentInit
<1>3. CopyInv /\ ContentInv /\ [Next]_vars => ContentInv'
  BY ContentStep
<1>4. CopyInv /\ ContentInv => CacheRight
  BY CopiesHit, BuffersRight DEF CacheRight
<1> QED BY <1>1, <1>2, <1>3, <1>4, PTL DEF Spec
=============================================================================
