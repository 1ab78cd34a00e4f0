---------------------------- MODULE FgdiskProofs ----------------------------
(***************************************************************************)
(* Proofs about Fgdisk and PartTable, for every size of medium and table,  *)
(* every MBR that MbrAssumption allows, any arguments of the commands and   *)
(* any number of crashes.                                                  *)
(***************************************************************************)
EXTENDS PartTable, SequenceTheorems, WellFoundedInduction, TLAPS

-----------------------------------------------------------------------------
(* The media map *)

SegRec == [start : Int, size : Int, type : Kinds, index : Nat]
\* A map as gpt_open() builds it.
MapOK(m) == m \in Seq(SegRec) /\ Len(m) > 0 /\ m[Len(m)].size > 0
\* s is a segment of the map.
Has(m, s) == \E j \in 1 .. Len(m) : m[j] = s

\* A set of natural numbers that is not empty has a least element.
LEMMA LeastOf ==
    ASSUME NEW S, S \subseteq Nat, S # {}
    PROVE  Min(S) \in S /\ \A y \in S : Min(S) <= y
<1> DEFINE R == OpToRel(<, Nat)
<1>1. IsWellFoundedOn(R, Nat)
  BY NatLessThanWellFounded
<1>2. \A x, y \in S : <<y, x>> \in R <=> y < x
  BY DEF OpToRel
<1> HIDE DEF R
<1>3. PICK x \in S : \A y \in S : ~(<<y, x>> \in R)
  BY <1>1, WFMin
<1>4. ASSUME NEW y \in S PROVE x <= y
  <2>1. ~(y < x) /\ x \in Nat /\ y \in Nat
    BY <1>2, <1>3
  <2> QED BY <2>1
<1> QED BY <1>4 DEF Min

\* A function on 1 .. n is a sequence.
LEMMA FunctionSeq ==
    ASSUME NEW X, NEW n \in Nat, NEW f \in [1 .. n -> X]
    PROVE  f \in Seq(X) /\ Len(f) = n
<1>1. f \in Seq(X)
  BY SeqDef
<1> QED BY <1>1, LenProperties

\* The fields of a segment.
LEMMA SegIs ==
    ASSUME NEW a \in Int, NEW b \in Int, NEW t \in Kinds, NEW i \in Nat
    PROVE  /\ Seg(a, b, t, i) \in SegRec
           /\ Seg(a, b, t, i).start = a /\ Seg(a, b, t, i).size = b
           /\ Seg(a, b, t, i).type = t /\ Seg(a, b, t, i).index = i
BY DEF Seg, SegRec

\* What SegmentAt() finds.
LEMMA SegmentAtIs ==
    ASSUME NEW m \in Seq(SegRec), NEW x \in Int
    PROVE  /\ SegmentAt(m, x) \in 0 .. Len(m)
           /\ SegmentAt(m, x) # 0 => End(m[SegmentAt(m, x)]) > x
<1> DEFINE I == {i \in 1 .. Len(m) : End(m[i]) > x}
<1>1. SegmentAt(m, x) = IF I # {} THEN Min(I) ELSE 0
  BY DEF SegmentAt, SelectInSeq
<1>2. I \subseteq Nat /\ I \subseteq 1 .. Len(m)
  OBVIOUS
<1>3. I # {} => Min(I) \in I
  BY <1>2, LeastOf
<1> QED BY <1>1, <1>2, <1>3

\* What is in a sequence made of two, and in the parts of one.
LEMMA HasConcat ==
    ASSUME NEW X, NEW a \in Seq(X), NEW b \in Seq(X)
    PROVE  /\ a \o b \in Seq(X) /\ Len(a \o b) = Len(a) + Len(b)
           /\ \A h : Has(a \o b, h) <=> Has(a, h) \/ Has(b, h)
           /\ Len(b) > 0 => (a \o b)[Len(a \o b)] = b[Len(b)]
<1>1. a \o b \in Seq(X) /\ Len(a \o b) = Len(a) + Len(b)
  OBVIOUS
<1>2. \A i \in 1 .. Len(a) + Len(b) : (a \o b)[i] = IF i <= Len(a) THEN a[i] ELSE b[i - Len(a)]
  OBVIOUS
<1>3. ASSUME NEW h PROVE Has(a, h) => Has(a \o b, h)
  BY <1>1, <1>2 DEF Has
<1>4. ASSUME NEW h PROVE Has(b, h) => Has(a \o b, h)
  <2> SUFFICES ASSUME NEW j \in 1 .. Len(b), b[j] = h PROVE Has(a \o b, h)
    BY DEF Has
  <2>1. Len(a) + j \in 1 .. Len(a) + Len(b) /\ (a \o b)[Len(a) + j] = h
    BY <1>2
  <2> QED BY <1>1, <2>1 DEF Has
<1>5. ASSUME NEW h PROVE Has(a \o b, h) => Has(a, h) \/ Has(b, h)
  <2> SUFFICES ASSUME NEW j \in 1 .. Len(a) + Len(b), (a \o b)[j] = h PROVE Has(a, h) \/ Has(b, h)
    BY <1>1 DEF Has
  <2> QED BY <1>2 DEF Has
<1>6. Len(b) > 0 => (a \o b)[Len(a \o b)] = b[Len(b)]
  BY <1>1, <1>2
<1> QED BY <1>1, <1>3, <1>4, <1>5, <1>6

\* The same of a sequence without its k-th element.
LEMMA HasParts ==
    ASSUME NEW X, NEW a \in Seq(X), NEW k \in 1 .. Len(a)
    PROVE  /\ SubSeq(a, 1, k - 1) \in Seq(X) /\ SubSeq(a, k + 1, Len(a)) \in Seq(X)
           /\ \A h : Has(SubSeq(a, 1, k - 1), h) \/ Has(SubSeq(a, k + 1, Len(a)), h) => Has(a, h)
           /\ \A h : Has(a, h) /\ h # a[k] =>
                       Has(SubSeq(a, 1, k - 1), h) \/ Has(SubSeq(a, k + 1, Len(a)), h)
           /\ Len(SubSeq(a, k + 1, Len(a))) = Len(a) - k
           /\ k < Len(a) => SubSeq(a, k + 1, Len(a))[Len(a) - k] = a[Len(a)]
<1> DEFINE u == SubSeq(a, 1, k - 1)
           v == SubSeq(a, k + 1, Len(a))
<1>1. u \in Seq(X) /\ Len(u) = k - 1 /\ \A i \in 1 .. k - 1 : u[i] = a[i]
  OBVIOUS
<1>2. v \in Seq(X) /\ Len(v) = Len(a) - k /\ \A i \in 1 .. Len(a) - k : v[i] = a[k + i]
  OBVIOUS
<1>3. ASSUME NEW h PROVE Has(u, h) => Has(a, h)
  BY <1>1 DEF Has
<1>4. ASSUME NEW h PROVE Has(v, h) => Has(a, h)
  <2> SUFFICES ASSUME NEW j \in 1 .. Len(a) - k, v[j] = h PROVE Has(a, h)
    BY <1>2 DEF Has
  <2>1. k + j \in 1 .. Len(a) /\ a[k + j] = h
    BY <1>2
  <2> QED BY <2>1 DEF Has
<1>5. ASSUME NEW h, Has(a, h), h # a[k] PROVE Has(u, h) \/ Has(v, h)
  <2> PICK j \in 1 .. Len(a) : a[j] = h
    BY <1>5 DEF Has
  <2>1. CASE j < k
    BY <2>1, <1>1 DEF Has
  <2>2. CASE j > k
    <3>1. j - k \in 1 .. Len(a) - k /\ v[j - k] = h
      BY <2>2, <1>2
    <3> QED BY <3>1, <1>2 DEF Has
  <2> QED BY <2>1, <2>2, <1>5
<1>6. k < Len(a) => v[Len(a) - k] = a[Len(a)]
  <2> SUFFICES ASSUME k < Len(a) PROVE v[Len(a) - k] = a[Len(a)]
    OBVIOUS
  <2>1. Len(a) - k \in 1 .. Len(a) - k /\ k + (Len(a) - k) = Len(a)
    OBVIOUS
  <2> QED BY <1>2, <2>1
<1> HIDE DEF u, v
<1>7. QED
  <2> USE DEF u, v
  <2> QED BY <1>1, <1>2, <1>3, <1>4, <1>5, <1>6

\* map_add(): what is in the map afterwards.
AddedTo(m, s, r) ==
    /\ MapOK(r)
    /\ \E h \in SegRec : Has(r, h) /\ h.type = s.type /\ h.start = s.start /\ h.size = s.size
    /\ \A t : map_find(r, t) => map_find(m, t) \/ t = s.type \/ t = "unused"
    /\ \A h \in SegRec :
         (Has(m, h) /\ h.type \notin {"unused", "mbr_part"} /\ (h.start # s.start \/ h.size # s.size))
           => Has(r, h)

\* map_add() adds the segment and keeps every header the map had.
LEMMA AddIs ==
    ASSUME NEW m, MapOK(m), NEW s \in SegRec, map_add(m, s) # Null
    PROVE  AddedTo(m, s, map_add(m, s))
<1> DEFINE k == SegmentAt(m, s.start)
           n == m[k]
           after == Seg(End(s), End(n) - End(s), "unused", n.index)
           before == Seg(n.start, s.start - n.start, "unused", IF after.size > 0 THEN 0 ELSE n.index)
           exact == n.start = s.start /\ n.size = s.size
           s1 == IF s.index = 0 THEN [s EXCEPT !.index = n.index] ELSE s
           u == SubSeq(m, 1, k - 1)
           v == SubSeq(m, k + 1, Len(m))
           B == IF before.size > 0 THEN <<before>> ELSE <<>>
           A == IF after.size > 0 THEN <<after>> ELSE <<>>
           r == map_add(m, s)
<1>1. m \in Seq(SegRec) /\ Len(m) > 0 /\ m[Len(m)].size > 0 /\ s.start \in Int /\ s.size \in Int
  BY DEF MapOK, SegRec
<1>2. k \in 1 .. Len(m) /\ End(n) > s.start /\ End(n) >= End(s)
  <2>1. k # 0 /\ ~(End(n) < End(s))
    BY DEF map_add
  <2>2. k \in 0 .. Len(m) /\ (k # 0 => End(n) > s.start)
    BY <1>1, SegmentAtIs
  <2>3. k \in 1 .. Len(m) /\ n \in SegRec
    BY <1>1, <2>1, <2>2
  <2>4. End(n) \in Int /\ End(s) \in Int
    BY <2>3 DEF End, SegRec
  <2> QED BY <2>1, <2>2, <2>3, <2>4
<1>3. n \in SegRec /\ n.start \in Int /\ n.size \in Int /\ n.index \in Nat /\ Has(m, n)
  <2>1. n \in SegRec
    BY <1>1, <1>2
  <2>2. Has(m, n)
    BY <1>2, Zenon DEF Has
  <2> HIDE DEF n
  <2> QED BY <2>1, <2>2 DEF SegRec
<1>4. CASE exact
  <2>1. r = [m EXCEPT ![k] = s1]
    BY <1>2, <1>4 DEF map_add
  <2>2. s1 \in SegRec /\ s1.type = s.type /\ s1.start = s.start /\ s1.size = s.size
    BY <1>3 DEF SegRec
  <2> HIDE DEF s1, k, r
  <2>3. r \in Seq(SegRec) /\ Len(r) = Len(m) /\ r[k] = s1 /\ \A i \in 1 .. Len(m) : i # k => r[i] = m[i]
    BY <1>1, <1>2, <2>1, <2>2
  <2>4. MapOK(r)
    BY <1>1, <1>4, <2>2, <2>3 DEF MapOK
  <2>5. Has(r, s1)
    BY <1>2, <2>3 DEF Has
  <2>6. \A t : map_find(r, t) => map_find(m, t) \/ t = s.type
    BY <2>2, <2>3 DEF map_find
  <2>7. ASSUME NEW h \in SegRec, Has(m, h), h.start # s.start \/ h.size # s.size
        PROVE  Has(r, h)
    BY <1>4, <2>3, <2>7 DEF Has
  <2> QED BY <2>2, <2>4, <2>5, <2>6, <2>7 DEF AddedTo, r
<1>5. CASE ~exact
  <2>1. MayReplace(n.type, s.type) /\ r = u \o B \o <<s>> \o A \o v
    BY <1>2, <1>5 DEF map_add
  <2>2. n.type \in {"unused", "mbr_part"}
    BY <2>1 DEF MayReplace
  <2>3. before \in SegRec /\ after \in SegRec /\ before.type = "unused" /\ after.type = "unused"
    <3>1. End(s) \in Int /\ End(n) \in Int
      BY <1>1, <1>3 DEF End
    <3>2. "unused" \in Kinds
      BY DEF Kinds
    <3> HIDE DEF n
    <3>3. after \in SegRec /\ after.type = "unused"
      BY <1>3, <3>1, <3>2 DEF SegRec, Seg
    <3>4. (IF after.size > 0 THEN 0 ELSE n.index) \in Nat
      BY <1>3
    <3> HIDE DEF after
    <3>5. before \in SegRec /\ before.type = "unused"
      BY <1>1, <1>3, <3>2, <3>4 DEF SegRec, Seg
    <3> QED BY <3>3, <3>5
  <2>4. after.size = End(n) - End(s) /\ End(n) \in Int /\ End(s) \in Int /\ End(s) = s.start + s.size
    BY <1>1, <1>3 DEF Seg, End
  <2> HIDE DEF before, after, n, r
  <2>5. B \in Seq(SegRec) /\ \A h : Has(B, h) => h = before
    BY <2>3 DEF Has
  <2>6. A \in Seq(SegRec) /\ \A h : Has(A, h) => h = after
    BY <2>3 DEF Has
  <2>7. Len(A) > 0 => A[Len(A)].size > 0
    BY <2>3
  <2>8. Len(A) = 0 => s.size > 0
    BY <1>1, <1>2, <2>4
  <2>9. <<s>> \in Seq(SegRec) /\ Len(<<s>>) = 1 /\ \A h : Has(<<s>>, h) <=> h = s
    BY DEF Has
  <2> HIDE DEF A, B
  <2>10. /\ u \in Seq(SegRec) /\ v \in Seq(SegRec)
         /\ \A h : Has(u, h) \/ Has(v, h) => Has(m, h)
         /\ \A h : Has(m, h) /\ h # m[k] => Has(u, h) \/ Has(v, h)
         /\ Len(v) = Len(m) - k
         /\ k < Len(m) => v[Len(m) - k] = m[Len(m)]
    BY <1>1, <1>2, HasParts
  <2> HIDE DEF u, v, k
  <2> DEFINE q1 == u \o B
             q2 == q1 \o <<s>>
             q3 == q2 \o A
             q4 == q3 \o v
  <2>11. r = q4
    BY <2>1
  <2>12. q1 \in Seq(SegRec) /\ \A h : Has(q1, h) <=> Has(u, h) \/ Has(B, h)
    BY <2>5, <2>10, HasConcat
  <2> HIDE DEF q1
  <2>13. q2 \in Seq(SegRec) /\ Len(q2) = Len(q1) + 1 /\ q2[Len(q2)] = s /\ \A h : Has(q2, h) <=> Has(q1, h) \/ h = s
    <3>1. q2[Len(q2)] = <<s>>[1]
      BY <2>9, <2>12, HasConcat
    <3> QED BY <2>9, <2>12, <3>1, HasConcat
  <2> HIDE DEF q2
  <2>14. /\ q3 \in Seq(SegRec) /\ Len(q3) = Len(q2) + Len(A)
         /\ Len(A) > 0 => q3[Len(q3)] = A[Len(A)]
         /\ \A h : Has(q3, h) <=> Has(q2, h) \/ Has(A, h)
    BY <2>6, <2>13, HasConcat
  <2>15. Len(A) = 0 => q3 = q2
    BY <2>6, <2>13
  <2> HIDE DEF q3
  <2>16. /\ q4 \in Seq(SegRec) /\ Len(q4) = Len(q3) + Len(v)
         /\ Len(v) > 0 => q4[Len(q4)] = v[Len(v)]
         /\ \A h : Has(q4, h) <=> Has(q3, h) \/ Has(v, h)
    BY <2>10, <2>14, HasConcat
  <2>17. Len(v) = 0 => q4 = q3
    BY <2>10, <2>14
  <2> HIDE DEF q4
  <2>18. \A h : Has(r, h) <=> Has(u, h) \/ Has(B, h) \/ h = s \/ Has(A, h) \/ Has(v, h)
    BY <2>11, <2>12, <2>13, <2>14, <2>16
  <2>19. MapOK(r)
    <3>0. Len(A) \in Nat /\ Len(v) \in Nat /\ Len(q1) \in Nat /\ Len(q2) \in Nat
      BY <2>6, <2>10, <2>12, <2>13
    <3>1. Len(r) > 0
      BY <2>11, <2>13, <2>14, <2>16, <3>0
    <3>2. CASE Len(v) > 0
      BY <1>1, <1>2, <2>10, <2>11, <2>16, <3>1, <3>2 DEF MapOK
    <3>3. CASE Len(v) = 0 /\ Len(A) > 0
      BY <2>7, <2>11, <2>14, <2>16, <2>17, <3>1, <3>3 DEF MapOK
    <3>4. CASE Len(v) = 0 /\ Len(A) = 0
      BY <2>8, <2>11, <2>13, <2>15, <2>16, <2>17, <3>1, <3>4 DEF MapOK
    <3> QED BY <3>0, <3>2, <3>3, <3>4
  <2>20. Has(r, s)
    BY <2>18
  <2>21. ASSUME NEW t, map_find(r, t) PROVE map_find(m, t) \/ t = s.type \/ t = "unused"
    <3>1. PICK j \in 1 .. Len(r) : r[j].type = t
      BY <2>21 DEF map_find
    <3>2. Has(r, r[j])
      BY DEF Has
    <3>3. Has(m, r[j]) => map_find(m, t)
      BY <3>1 DEF Has, map_find
    <3> QED BY <2>3, <2>5, <2>6, <2>10, <2>18, <3>1, <3>2, <3>3
  <2>22. ASSUME NEW h \in SegRec, Has(m, h), h.type \notin {"unused", "mbr_part"}
         PROVE  Has(r, h)
    <3>1. h # m[k]
      BY <2>2, <2>22 DEF n
    <3> QED BY <2>10, <2>18, <2>22, <3>1
  <2> QED BY <2>19, <2>20, <2>21, <2>22 DEF AddedTo, r
<1> QED BY <1>4, <1>5

-----------------------------------------------------------------------------
(* AddAll(): the maps it goes through are g[0], g[1], ..., g[n]. *)

Chain(m, segs, S, n, g) ==
    g = [k \in 0 .. n |-> IF k = 0 THEN m ELSE AddNext(g[k - 1], segs[k], k \in S)]

\* AddAll() is the last of such maps.
LEMMA ChainIs ==
    ASSUME NEW m, NEW segs, NEW S
    PROVE  AddAll(m, segs, S) = (CHOOSE g : Chain(m, segs, S, Len(segs), g))[Len(segs)]
BY DEF AddAll, Chain

\* There are such maps: the least n without them would have one with them.
LEMMA ChainExists ==
    ASSUME NEW m, NEW segs, NEW S, NEW n \in Nat
    PROVE  \E g : Chain(m, segs, S, n, g)
<1> DEFINE Bad == {i \in Nat : ~\E g : Chain(m, segs, S, i, g)}
<1> SUFFICES ASSUME Bad # {} PROVE FALSE
  OBVIOUS
<1>1. PICK i \in Bad : \A j \in Bad : i <= j
  BY LeastOf
<1>2. i # 0
  <2>1. [k \in 0 .. 0 |-> m] = [k \in 0 .. 0 |-> IF k = 0 THEN m ELSE AddNext([j \in 0 .. 0 |-> m][k - 1], segs[k], k \in S)]
    OBVIOUS
  <2>2. Chain(m, segs, S, 0, [k \in 0 .. 0 |-> m])
    BY <2>1 DEF Chain
  <2> QED BY <2>2
<1>3. i - 1 \in Nat /\ i - 1 \notin Bad
  BY <1>1, <1>2
<1>4. PICK g : Chain(m, segs, S, i - 1, g)
  BY <1>3
<1> DEFINE h == [k \in 0 .. i |-> IF k = i THEN AddNext(g[i - 1], segs[i], i \in S) ELSE g[k]]
<1>5. ASSUME NEW k \in 0 .. i
      PROVE  h[k] = IF k = 0 THEN m ELSE AddNext(h[k - 1], segs[k], k \in S)
  <2>1. CASE k = i
    <3>1. h[k] = AddNext(g[i - 1], segs[i], i \in S) /\ h[i - 1] = g[i - 1]
      BY <1>2, <1>3, <2>1
    <3> HIDE DEF h
    <3> QED BY <1>2, <2>1, <3>1
  <2>2. CASE k # i
    <3>1. k \in 0 .. i - 1 /\ h[k] = g[k] /\ (k # 0 => h[k - 1] = g[k - 1])
      BY <1>3, <2>2
    <3> HIDE DEF h
    <3>2. g[k] = IF k = 0 THEN m ELSE AddNext(g[k - 1], segs[k], k \in S)
      BY <1>4, <3>1, Zenon DEF Chain
    <3> QED BY <3>1, <3>2
  <2> QED BY <2>1, <2>2
<1>6. h = [k \in 0 .. i |-> IF k = 0 THEN m ELSE AddNext(h[k - 1], segs[k], k \in S)]
  <2>1. h = [k \in 0 .. i |-> h[k]]
    OBVIOUS
  <2> HIDE DEF h
  <2> QED BY <1>5, <2>1
<1> HIDE DEF h
<1>7. Chain(m, segs, S, i, h)
  BY <1>6 DEF Chain
<1> QED BY <1>7

\* What all of segs leave in the map, if every one of them can be added.
AddedAll(m, segs, ty, r) ==
    /\ MapOK(r)
    /\ \A t : map_find(r, t) => map_find(m, t) \/ t = ty \/ t = "unused"
    /\ \A h \in SegRec :
         (Has(m, h) /\ h.type \notin {"unused", "mbr_part"} /\ \A k \in 1 .. Len(segs) : h.start # segs[k].start)
           => Has(r, h)

\* AddAll() keeps the headers as one map_add() does, and adds no type but ty.
LEMMA AddAllIs ==
    ASSUME NEW m, MapOK(m), NEW segs \in Seq(SegRec), NEW S, NEW ty,
           \A k \in 1 .. Len(segs) : segs[k].type = ty,
           AddAll(m, segs, S) # Null
    PROVE  AddedAll(m, segs, ty, AddAll(m, segs, S))
<1> DEFINE g == CHOOSE f : Chain(m, segs, S, Len(segs), f)
<1>1. Len(segs) \in Nat
  OBVIOUS
<1>2. Chain(m, segs, S, Len(segs), g)
  BY <1>1, ChainExists, Zenon
<1>3. AddAll(m, segs, S) = g[Len(segs)]
  BY ChainIs, Zenon
<1> HIDE DEF g
<1>4. g[0] = m /\ \A k \in 1 .. Len(segs) : g[k] = AddNext(g[k - 1], segs[k], k \in S)
  <2>1. \A k \in 0 .. Len(segs) : g[k] = IF k = 0 THEN m ELSE AddNext(g[k - 1], segs[k], k \in S)
    BY <1>2, Zenon DEF Chain
  <2> QED BY <1>1, <2>1
<1> DEFINE Bad == {k \in 0 .. Len(segs) : ~(g[k] = Null \/ AddedAll(m, segs, ty, g[k]))}
<1>5. Bad = {}
  <2> SUFFICES ASSUME Bad # {} PROVE FALSE
    OBVIOUS
  <2>0. Bad \subseteq Nat
    BY <1>1
  <2>1. PICK i \in Bad : \A j \in Bad : i <= j
    <3> HIDE DEF Bad
    <3> QED BY <2>0, LeastOf
  <2>2. i # 0
    BY <1>4 DEF AddedAll
  <2>3. i \in 1 .. Len(segs) /\ i - 1 \in 0 .. Len(segs) /\ i - 1 \notin Bad
    BY <1>1, <2>1, <2>2
  <2>4. g[i - 1] = Null \/ AddedAll(m, segs, ty, g[i - 1])
    BY <2>3
  <2>5. g[i] = AddNext(g[i - 1], segs[i], i \in S)
    BY <1>4, <2>3
  <2>6. g[i] # Null /\ ~AddedAll(m, segs, ty, g[i])
    BY <2>1
  <2>7. g[i] = map_add(g[i - 1], segs[i]) /\ AddedAll(m, segs, ty, g[i - 1])
    BY <2>4, <2>5, <2>6 DEF AddNext
  <2>8. segs[i] \in SegRec /\ segs[i].type = ty
    BY <2>3
  <2>9. AddedTo(g[i - 1], segs[i], g[i])
    BY <2>6, <2>7, <2>8, AddIs DEF AddedAll
  <2>10. AddedAll(m, segs, ty, g[i])
    <3>1. MapOK(g[i])
      BY <2>9 DEF AddedTo
    <3>2. \A t : map_find(g[i], t) => map_find(m, t) \/ t = ty \/ t = "unused"
      BY <2>7, <2>8, <2>9 DEF AddedTo, AddedAll
    <3>3. ASSUME NEW h \in SegRec, Has(m, h), h.type \notin {"unused", "mbr_part"},
                 \A k \in 1 .. Len(segs) : h.start # segs[k].start
          PROVE  Has(g[i], h)
      <4>1. Has(g[i - 1], h)
        BY <2>7, <3>3 DEF AddedAll
      <4> QED BY <2>3, <2>9, <3>3, <4>1 DEF AddedTo
    <3> QED BY <3>1, <3>2, <3>3 DEF AddedAll
  <2> QED BY <2>6, <2>10
<1>6. Len(segs) \in 0 .. Len(segs)
  BY <1>1
<1> QED BY <1>3, <1>5, <1>6

-----------------------------------------------------------------------------
(* gpt_open() *)

\* The disk, with no entry that begins at sector 1.
SlotT == [uuid : 0 .. MaxCreates, used : BOOLEAN, start : Nat \ {1}, size : Int, tag : 0 .. 3]
TableT == [Ent -> SlotT]
DiskT ==
    /\ media \in Media
    /\ mbr \in Mbrs \cup {Pmbr}
    /\ hdr = [c \in Copies |-> hdr[c]]
    /\ \A c \in Copies : /\ hdr[c].n \in 0 .. N /\ hdr[c].alt \in 0 .. Last1
                         /\ hdr[c].crc \in [0 .. hdr[c].n - 1 -> SlotT]
    /\ tbl \in [Copies -> TableT]

HdrType(c) == IF c = "pri" THEN "pri_hdr" ELSE "sec_hdr"

\* Sectors of a table.
LEMMA BlocksIs ==
    ASSUME NEW n \in Nat
    PROVE  Blocks(n) \in Nat /\ (n > 0 => Blocks(n) >= 1)
<1>1. EPS \in Nat /\ EPS > 0
  BY GeometryAssumption
<1> DEFINE x == n + EPS - 1
<1>2. x \in Nat /\ (n > 0 => x >= EPS)
  BY <1>1
<1>3. Blocks(n) = x \div EPS
  BY DEF Blocks
<1> HIDE DEF x
<1>4. x \div EPS \in Nat /\ (x >= EPS => x \div EPS >= 1)
  BY <1>1, <1>2
<1> QED BY <1>2, <1>3, <1>4

\* Sector 0 is as it was found, or a PMBR.
LEMMA MbrIs ==
    ASSUME DiskT
    PROVE  /\ mbr.kind \in {"none", "pmbr", "mbr"} /\ mbr.parts \in Seq(MbrPart)
           /\ media \in Nat /\ media >= 6
<1>1. MbrOK(mbr) => mbr.kind \in {"none", "pmbr", "mbr"} /\ mbr.parts \in Seq(MbrPart)
  BY DEF MbrOK
<1>2. Pmbr.kind = "pmbr" /\ Pmbr.parts = <<>> /\ <<>> \in Seq(MbrPart)
  BY DEF Pmbr
<1>3. mbr \in Mbrs => MbrOK(mbr)
  BY MbrAssumption
<1>4. mbr = Pmbr => mbr.kind \in {"none", "pmbr", "mbr"} /\ mbr.parts \in Seq(MbrPart)
  BY <1>2
<1> QED BY <1>1, <1>3, <1>4, GeometryAssumption DEF DiskT

\* gpt_mbr() adds no copy of the GPT.
LEMMA MbrAdds ==
    ASSUME DiskT, NEW nombr, gpt_mbr(map_init(media), nombr) # Null
    PROVE  LET r == gpt_mbr(map_init(media), nombr)
           IN  MapOK(r) /\ \A t : map_find(r, t) => t \in {"unused", "pmbr", "mbr", "mbr_part"}
<1> DEFINE m == map_init(media)
           s == Seg(0, 1, mbr.kind, 0)
           m1 == map_add(m, s)
           segs == [k \in DOMAIN mbr.parts |-> Seg(mbr.parts[k].start, mbr.parts[k].size, "mbr_part", k)]
           r == gpt_mbr(m, nombr)
<1>1. m \in Seq(SegRec) /\ Len(m) = 1 /\ m[1].size = media /\ m[1].type = "unused"
  <2>1. Seg(0, media, "unused", 0) \in SegRec /\ Seg(0, media, "unused", 0).size = media
        /\ Seg(0, media, "unused", 0).type = "unused"
    BY MbrIs DEF Seg, SegRec, Kinds
  <2> QED BY <2>1 DEF map_init
<1>2. MapOK(m) /\ \A t : map_find(m, t) => t = "unused"
  <2> HIDE DEF m
  <2> QED BY <1>1, MbrIs DEF MapOK, map_find
<1> HIDE DEF m
<1>3. CASE mbr.kind = "none"
  <2>1. r = m
    BY <1>3 DEF gpt_mbr
  <2> HIDE DEF r
  <2> QED BY <1>2, <2>1 DEF m, r
<1>4. CASE mbr.kind # "none"
  <2>1. s \in SegRec /\ s.type = mbr.kind
    <3>1. mbr.kind \in Kinds
      BY <1>4, MbrIs DEF Kinds
    <3> QED BY <3>1 DEF Seg, SegRec
  <2> HIDE DEF s
  <2>2. r = IF nombr \/ m1 = Null THEN m1 ELSE AddAll(m1, segs, DOMAIN segs)
    BY <1>4 DEF gpt_mbr, s
  <2>3. r # Null
    BY DEF m
  <2>4. m1 # Null
    <3> HIDE DEF m1, r, segs
    <3> QED BY <2>2, <2>3
  <2>5. AddedTo(m, s, m1)
    BY <1>2, <2>1, <2>4, AddIs
  <2>6. MapOK(m1) /\ \A t : map_find(m1, t) => t \in {"unused", "pmbr", "mbr"}
    <3> HIDE DEF m1
    <3> QED BY <1>2, <1>4, <2>1, <2>5, MbrIs DEF AddedTo
  <2>7. segs \in Seq(SegRec) /\ \A k \in 1 .. Len(segs) : segs[k].type = "mbr_part"
    <3>1. DOMAIN mbr.parts = 1 .. Len(mbr.parts) /\ Len(mbr.parts) \in Nat
      BY MbrIs
    <3>2. ASSUME NEW k \in 1 .. Len(mbr.parts)
          PROVE  Seg(mbr.parts[k].start, mbr.parts[k].size, "mbr_part", k) \in SegRec
      <4>1. mbr.parts[k] \in MbrPart
        BY MbrIs
      <4>2. mbr.parts[k].start \in Int /\ mbr.parts[k].size \in Int
        BY <4>1 DEF MbrPart
      <4> QED BY <4>2 DEF Seg, SegRec, Kinds
    <3>3. segs \in [1 .. Len(mbr.parts) -> SegRec] /\ \A k \in 1 .. Len(mbr.parts) : segs[k].type = "mbr_part"
      BY <3>1, <3>2 DEF Seg
    <3> HIDE DEF segs
    <3>4. segs \in Seq(SegRec) /\ Len(segs) = Len(mbr.parts)
      BY <3>1, <3>3, FunctionSeq
    <3> QED BY <3>3, <3>4
  <2>8. CASE r = m1
    <3> HIDE DEF r
    <3> QED BY <2>6, <2>8 DEF r, m
  <2>9. CASE r = AddAll(m1, segs, DOMAIN segs)
    <3> HIDE DEF m1, segs, r
    <3>1. AddedAll(m1, segs, "mbr_part", r)
      BY <2>3, <2>6, <2>7, <2>9, AddAllIs
    <3>2. MapOK(r) /\ \A t : map_find(r, t) => t \in {"unused", "pmbr", "mbr", "mbr_part"}
      BY <2>6, <3>1 DEF AddedAll
    <3> QED BY <3>2 DEF r, m
  <2> HIDE DEF r, m1, segs
  <2> QED BY <2>2, <2>8, <2>9
<1> QED BY <1>3, <1>4

\* The segments of a copy of the GPT.
LEMMA CopySegs ==
    ASSUME DiskT, NEW c \in Copies, Intact(c)
    PROVE  /\ HdrSeg(c) \in SegRec /\ HdrSeg(c).type = HdrType(c) /\ HdrSeg(c).size = 1
           /\ HdrSeg(c).start = IF c = "pri" THEN 1 ELSE Last1
           /\ TblSeg(c, hdr[c].n) \in SegRec
           /\ TblSeg(c, hdr[c].n).type = IF c = "pri" THEN "pri_tbl" ELSE "sec_tbl"
           /\ TblSeg(c, hdr[c].n).size >= 1
           /\ TblSeg(c, hdr[c].n).start = IF c = "pri" THEN 2 ELSE Last1 - TblSeg(c, hdr[c].n).size
           /\ Last1 \in Nat /\ Last1 >= 5
<1>1. Last1 \in Nat /\ Last1 >= 5
  BY MbrIs DEF Last1
<1>2. Blocks(hdr[c].n) \in Nat /\ Blocks(hdr[c].n) >= 1
  BY BlocksIs, GeometryAssumption DEF DiskT, Intact
<1>3. /\ "pri_hdr" \in Kinds /\ "sec_hdr" \in Kinds /\ "pri_tbl" \in Kinds /\ "sec_tbl" \in Kinds
      /\ 0 \in Nat /\ 1 \in Int /\ 2 \in Int /\ Last1 \in Int /\ Blocks(hdr[c].n) \in Int
  BY <1>1, <1>2 DEF Kinds
<1>4. CASE c = "pri"
  <2>1. HdrSeg(c) = Seg(1, 1, "pri_hdr", 0) /\ TblSeg(c, hdr[c].n) = Seg(2, Blocks(hdr[c].n), "pri_tbl", 0)
    BY <1>4 DEF HdrSeg, TblSeg
  <2>2. HdrSeg(c) \in SegRec /\ HdrSeg(c).type = "pri_hdr" /\ HdrSeg(c).size = 1 /\ HdrSeg(c).start = 1
    BY <1>3, <2>1 DEF Seg, SegRec
  <2>3. /\ TblSeg(c, hdr[c].n) \in SegRec /\ TblSeg(c, hdr[c].n).type = "pri_tbl"
        /\ TblSeg(c, hdr[c].n).size = Blocks(hdr[c].n) /\ TblSeg(c, hdr[c].n).start = 2
    BY <1>3, <2>1 DEF Seg, SegRec
  <2> QED BY <1>1, <1>2, <1>4, <2>2, <2>3 DEF HdrType
<1>5. CASE c # "pri"
  <2>1. /\ HdrSeg(c) = Seg(Last1, 1, "sec_hdr", 0)
        /\ TblSeg(c, hdr[c].n) = Seg(Last1 - Blocks(hdr[c].n), Blocks(hdr[c].n), "sec_tbl", 0)
    BY <1>5 DEF HdrSeg, TblSeg
  <2>2. HdrSeg(c) \in SegRec /\ HdrSeg(c).type = "sec_hdr" /\ HdrSeg(c).size = 1 /\ HdrSeg(c).start = Last1
    BY <1>3, <2>1 DEF Seg, SegRec
  <2>3. /\ TblSeg(c, hdr[c].n) \in SegRec /\ TblSeg(c, hdr[c].n).type = "sec_tbl"
        /\ TblSeg(c, hdr[c].n).size = Blocks(hdr[c].n) /\ TblSeg(c, hdr[c].n).start = Last1 - Blocks(hdr[c].n)
    <3>1. Last1 - Blocks(hdr[c].n) \in Int
      BY <1>1, <1>2
    <3> QED BY <1>3, <2>1, <3>1 DEF Seg, SegRec
  <2> QED BY <1>1, <1>2, <1>5, <2>2, <2>3 DEF HdrType
<1> QED BY <1>1, <1>4, <1>5

\* The header of copy c is where it belongs in the map.
HdrIn(m, c) ==
    \E h \in SegRec : /\ Has(m, h) /\ h.type = HdrType(c) /\ h.size = 1
                     /\ h.start = IF c = "pri" THEN 1 ELSE Last1

\* Header and table of a copy are added, and the other header is kept.
LEMMA CopyAdds ==
    ASSUME DiskT, NEW c \in Copies, Intact(c), NEW m, MapOK(m),
           NEW m1, m1 = map_add(m, HdrSeg(c)), m1 # Null,
           NEW m2, m2 = map_add(m1, TblSeg(c, hdr[c].n)), m2 # Null
    PROVE  /\ MapOK(m2) /\ HdrIn(m2, c)
           /\ c = "sec" /\ HdrIn(m, "pri") => HdrIn(m2, "pri")
           /\ \A t : map_find(m2, t) => map_find(m, t) \/ t \in {"unused", "pri_tbl", "sec_tbl", HdrType(c)}
<1> DEFINE s == HdrSeg(c)
           v == TblSeg(c, hdr[c].n)
<1>1. /\ s \in SegRec /\ s.type = HdrType(c) /\ s.size = 1
      /\ s.start = IF c = "pri" THEN 1 ELSE Last1
      /\ v \in SegRec
      /\ v.type = IF c = "pri" THEN "pri_tbl" ELSE "sec_tbl"
      /\ v.size \in Int /\ v.size >= 1
      /\ v.start = IF c = "pri" THEN 2 ELSE Last1 - v.size
      /\ Last1 \in Nat /\ Last1 >= 5
  <2>1. v \in SegRec
    BY CopySegs
  <2>2. v.size \in Int
    <3> HIDE DEF v
    <3> QED BY <2>1 DEF SegRec
  <2> QED BY <2>1, <2>2, CopySegs
<1> HIDE DEF s, v
<1>2. AddedTo(m, s, m1)
  BY <1>1, AddIs DEF s
<1>3. AddedTo(m1, v, m2)
  <2>1. MapOK(m1) /\ v \in SegRec
    BY <1>1, <1>2 DEF AddedTo
  <2>2. m2 = map_add(m1, v)
    BY DEF v
  <2> QED BY <2>1, <2>2, AddIs
<1>4. MapOK(m2)
  BY <1>3 DEF AddedTo
<1>5. HdrIn(m2, c)
  <2>1. PICK h \in SegRec : Has(m1, h) /\ h.type = s.type /\ h.start = s.start /\ h.size = s.size
    BY <1>2 DEF AddedTo
  <2>2. h.type \notin {"unused", "mbr_part"}
    BY <1>1, <2>1 DEF HdrType
  <2>3. h.start # v.start
    <3>1. CASE c = "pri"
      <4>1. h.start = 1 /\ v.start = 2
        BY <1>1, <2>1, <3>1
      <4> QED BY <4>1
    <3>2. CASE c # "pri"
      <4>1. h.start = Last1 /\ v.start = Last1 - v.size
        BY <1>1, <2>1, <3>2, Zenon
      <4>2. Last1 # Last1 - v.size
        BY <1>1
      <4> QED BY <4>1, <4>2, Zenon
    <3> QED BY <3>1, <3>2
  <2>4. Has(m2, h)
    BY <1>3, <2>1, <2>2, <2>3 DEF AddedTo
  <2> QED BY <1>1, <2>1, <2>4 DEF HdrIn
<1>6. ASSUME c = "sec", HdrIn(m, "pri") PROVE HdrIn(m2, "pri")
  <2>1. PICK h \in SegRec : Has(m, h) /\ h.type = "pri_hdr" /\ h.size = 1 /\ h.start = 1
    BY <1>6 DEF HdrIn, HdrType
  <2>2. h.start # s.start /\ (h.start # v.start \/ h.size # v.size)
    <3>1. s.start = Last1 /\ v.start = Last1 - v.size
      BY <1>1, <1>6
    <3>2. Last1 # 1 /\ (v.size = 1 => Last1 - v.size # 1)
      BY <1>1
    <3> QED BY <2>1, <3>1, <3>2, Zenon
  <2>3. h.type \notin {"unused", "mbr_part"}
    BY <2>1
  <2>4. Has(m1, h)
    BY <1>2, <2>1, <2>2, <2>3 DEF AddedTo
  <2>5. Has(m2, h)
    BY <1>3, <2>2, <2>3, <2>4 DEF AddedTo
  <2> QED BY <2>1, <2>5 DEF HdrIn, HdrType
<1>7. ASSUME NEW t, map_find(m2, t)
      PROVE  map_find(m, t) \/ t \in {"unused", "pri_tbl", "sec_tbl", HdrType(c)}
  <2>1. map_find(m1, t) \/ t = v.type \/ t = "unused"
    BY <1>3, <1>7 DEF AddedTo
  <2>2. map_find(m1, t) => map_find(m, t) \/ t = s.type \/ t = "unused"
    BY <1>2 DEF AddedTo
  <2> QED BY <1>1, <2>1, <2>2
<1> QED BY <1>4, <1>5, <1>6, <1>7

\* The map of a disk that can be opened has the headers of the intact copies,
\* and no other.
LEMMA OpenIs ==
    ASSUME DiskT, NEW nombr, gpt_open(nombr) # Null
    PROVE  /\ MapOK(gpt_open(nombr))
           /\ \A c \in Copies : map_find(gpt_open(nombr), HdrType(c)) <=> Intact(c)
<1> DEFINE m == gpt_mbr(map_init(media), nombr)
           p == gpt_gpt(m, "pri")
           r == gpt_gpt(p, "sec")
<1>1. gpt_open(nombr) = r
  BY DEF gpt_open
<1>2. p # Null /\ r # Null
  <2>1. r # Null
    BY <1>1
  <2> HIDE DEF p, r
  <2>2. p = Null => r = Null
    BY DEF r, gpt_gpt
  <2> QED BY <2>1, <2>2
<1>3. m # Null
  <2> HIDE DEF m
  <2>1. m = Null => p = Null
    BY DEF gpt_gpt
  <2> QED BY <1>2, <2>1
<1>4. MapOK(m) /\ \A t : map_find(m, t) => t \in {"unused", "pmbr", "mbr", "mbr_part"}
  BY <1>3, MbrAdds
<1> HIDE DEF m
<1>5. MapOK(p) /\ ~map_find(p, "sec_hdr") /\ (Intact("pri") => HdrIn(p, "pri"))
      /\ (map_find(p, "pri_hdr") => Intact("pri"))
  <2>1. CASE ~Intact("pri")
    <3>1. p = m
      BY <2>1 DEF gpt_gpt
    <3>2. ~map_find(m, "sec_hdr") /\ ~map_find(m, "pri_hdr")
      <4>1. "sec_hdr" \notin {"unused", "pmbr", "mbr", "mbr_part"} /\ "pri_hdr" \notin {"unused", "pmbr", "mbr", "mbr_part"}
        OBVIOUS
      <4> QED BY <1>4, <4>1, Zenon
    <3> HIDE DEF p
    <3> QED BY <1>4, <2>1, <3>1, <3>2, Zenon
  <2>2. CASE Intact("pri")
    <3> DEFINE n == hdr["pri"].n
               m1 == map_add(m, HdrSeg("pri"))
               m2 == IF m1 = Null THEN Null ELSE map_add(m1, TblSeg("pri", n))
               segs == PartSegs(n, tbl["pri"])
               S == {k \in 1 .. n : tbl["pri"][k - 1].used}
    <3>1. p = IF m2 = Null THEN m2 ELSE AddAll(m2, segs, S)
      BY <1>3, <2>2 DEF gpt_gpt
    <3> HIDE DEF p, segs, S
    <3>2. m1 # Null /\ m2 # Null /\ m2 = map_add(m1, TblSeg("pri", hdr["pri"].n))
      <4> HIDE DEF m1
      <4> QED BY <1>2, <3>1
    <3>3. MapOK(m2) /\ HdrIn(m2, "pri")
          /\ \A t : map_find(m2, t) => map_find(m, t) \/ t \in {"unused", "pri_tbl", "sec_tbl", "pri_hdr"}
      <4> HIDE DEF m2
      <4>1. m1 = map_add(m, HdrSeg("pri"))
        OBVIOUS
      <4> HIDE DEF m1
      <4>2. "pri" \in Copies /\ HdrType("pri") = "pri_hdr"
        BY DEF Copies, HdrType
      <4> QED BY <1>4, <2>2, <3>2, <4>1, <4>2, CopyAdds
    <3>4. segs \in Seq(SegRec) /\ \A k \in 1 .. Len(segs) : segs[k].type = "gpt_part" /\ segs[k].start # 1
      <4>1. n \in Nat /\ n <= N /\ tbl["pri"] \in TableT
        BY GeometryAssumption DEF DiskT, Copies
      <4>n. N \in Nat
        BY GeometryAssumption
      <4> HIDE DEF n
      <4>2. ASSUME NEW k \in 1 .. n
            PROVE  LET x == Seg(tbl["pri"][k - 1].start, tbl["pri"][k - 1].size, "gpt_part", k)
                   IN  x \in SegRec /\ x.type = "gpt_part" /\ x.start # 1
        <5>1. tbl["pri"][k - 1] \in SlotT
          BY <4>1, <4>n DEF TableT, Ent
        <5>2. tbl["pri"][k - 1].start \in Int /\ tbl["pri"][k - 1].start # 1 /\ tbl["pri"][k - 1].size \in Int
          BY <5>1 DEF SlotT
        <5> QED BY <5>2 DEF Seg, SegRec, Kinds
      <4>3. segs \in [1 .. n -> SegRec] /\ \A k \in 1 .. n : segs[k].type = "gpt_part" /\ segs[k].start # 1
        BY <4>2 DEF segs, PartSegs
      <4>4. segs \in Seq(SegRec) /\ Len(segs) = n
        BY <4>1, <4>3, FunctionSeq
      <4> QED BY <4>3, <4>4
    <3>5. p = AddAll(m2, segs, S)
      <4> HIDE DEF m2
      <4> QED BY <3>1, <3>2
    <3> HIDE DEF m2
    <3>6. AddedAll(m2, segs, "gpt_part", p)
      BY <1>2, <3>3, <3>4, <3>5, AddAllIs
    <3>7. MapOK(p) /\ ~map_find(p, "sec_hdr")
      <4>1. MapOK(p) /\ (map_find(p, "sec_hdr") => map_find(m2, "sec_hdr") \/ "sec_hdr" \in {"gpt_part", "unused"})
        BY <3>6, Zenon DEF AddedAll
      <4>2. map_find(m2, "sec_hdr") => map_find(m, "sec_hdr") \/ "sec_hdr" \in {"unused", "pri_tbl", "sec_tbl", "pri_hdr"}
        BY <3>3, Zenon
      <4>3. map_find(m, "sec_hdr") => "sec_hdr" \in {"unused", "pmbr", "mbr", "mbr_part"}
        BY <1>4, Zenon
      <4> QED BY <4>1, <4>2, <4>3
    <3>8. HdrIn(p, "pri")
      <4>1. PICK h \in SegRec : Has(m2, h) /\ h.type = "pri_hdr" /\ h.size = 1 /\ h.start = 1
        BY <3>3 DEF HdrIn, HdrType
      <4>2. Has(p, h)
        BY <3>4, <3>6, <4>1 DEF AddedAll
      <4> QED BY <4>1, <4>2 DEF HdrIn, HdrType
    <3> QED BY <2>2, <3>7, <3>8
  <2> QED BY <2>1, <2>2
<1> HIDE DEF p
<1>6. MapOK(r) /\ (Intact("pri") => HdrIn(r, "pri")) /\ (Intact("sec") => HdrIn(r, "sec"))
      /\ (map_find(r, "pri_hdr") => Intact("pri")) /\ (map_find(r, "sec_hdr") => Intact("sec"))
  <2>1. CASE ~Intact("sec")
    <3>1. r = p
      BY <2>1 DEF gpt_gpt
    <3> HIDE DEF r
    <3> QED BY <1>5, <2>1, <3>1
  <2>2. CASE Intact("sec")
    <3> DEFINE n == hdr["sec"].n
               m1 == map_add(p, HdrSeg("sec"))
               m2 == IF m1 = Null THEN Null ELSE map_add(m1, TblSeg("sec", n))
    <3>1. r = m2
      BY <1>2, <2>2 DEF gpt_gpt
    <3> HIDE DEF r
    <3>2. m1 # Null /\ m2 # Null /\ m2 = map_add(m1, TblSeg("sec", hdr["sec"].n))
      <4> HIDE DEF m1
      <4> QED BY <1>2, <3>1
    <3>3. MapOK(m2) /\ HdrIn(m2, "sec") /\ (HdrIn(p, "pri") => HdrIn(m2, "pri"))
          /\ \A t : map_find(m2, t) => map_find(p, t) \/ t \in {"unused", "pri_tbl", "sec_tbl", "sec_hdr"}
      <4> HIDE DEF m2
      <4>1. m1 = map_add(p, HdrSeg("sec"))
        OBVIOUS
      <4> HIDE DEF m1
      <4>2. "sec" \in Copies /\ HdrType("sec") = "sec_hdr"
        BY DEF Copies, HdrType
      <4> QED BY <1>5, <2>2, <3>2, <4>1, <4>2, CopyAdds
    <3> HIDE DEF m2
    <3>4. map_find(m2, "pri_hdr") => map_find(p, "pri_hdr") \/ "pri_hdr" \in {"unused", "pri_tbl", "sec_tbl", "sec_hdr"}
      BY <3>3, Zenon
    <3>5. map_find(m2, "pri_hdr") => map_find(p, "pri_hdr")
      BY <3>4
    <3> QED BY <1>5, <2>2, <3>1, <3>3, <3>5, Zenon
  <2> QED BY <2>1, <2>2
<1> HIDE DEF r
<1>7. \A c \in Copies : HdrIn(r, c) => map_find(r, HdrType(c))
  BY DEF HdrIn, Has, map_find
<1> QED BY <1>1, <1>6, <1>7 DEF Copies, HdrType

-----------------------------------------------------------------------------
(* What the commands ask of the map *)

\* RoundUp() does not go down.
LEMMA RoundUpIs ==
    ASSUME NEW x \in Nat, NEW a \in Nat
    PROVE  RoundUp(x, a) \in Nat /\ RoundUp(x, a) >= x
<1>1. CASE a > 0
  <2> DEFINE q == (x + a) \div a
             y == (x + a) % a
  <2>1. q \in Nat /\ y \in 0 .. a - 1 /\ x + a = a * q + y
    BY <1>1
  <2>2. q * a \in Nat /\ a * q = q * a
    BY <2>1
  <2> HIDE DEF q, y
  <2>3. q * a >= x
    BY <1>1, <2>1, <2>2
  <2> QED BY <2>2, <2>3 DEF RoundUp, q
<1>2. CASE ~(a > 0)
  BY <1>2 DEF RoundUp
<1> QED BY <1>1, <1>2

\* map_alloc() finds room behind sector 1.
LEMMA AllocIs ==
    ASSUME NEW m, MapOK(m), NEW b \in Nat, NEW z \in Nat, NEW a \in Nat,
           map_alloc(m, b, z, a).size >= 0
    PROVE  /\ map_alloc(m, b, z, a).start \in Nat \ {1}
           /\ map_alloc(m, b, z, a).size \in Int
<1> DEFINE start == RoundUp(b, a)
           size == RoundUp(z, a)
           room(s) == s.size - allocDelta(s, start, a)
           fits(s) ==
               /\ s.type = "unused" /\ s.start >= 2
               /\ start = 0 \/ s.start <= start
               /\ size = 0 \/ room(s) >= size
               /\ room(s) >= a
           I == {i \in 1 .. Len(m) : fits(m[i])}
           k == IF I # {} THEN Min(I) ELSE 0
           s == m[k]
           rest == IF a > 0 /\ room(s) % a # 0 THEN (room(s) \div a) * a ELSE room(s)
           z1 == IF size = 0 THEN rest ELSE size
           new == Seg(s.start + allocDelta(s, start, a), z1, "gpt_part", 0)
<1>1. map_alloc(m, b, z, a) = IF k = 0 \/ map_add(m, new) = Null THEN Seg(0, 0 - 1, "unused", 0) ELSE new
  BY DEF map_alloc, SelectInSeq
<1>2. start \in Nat /\ size \in Nat
  BY RoundUpIs
<1>3. k # 0 /\ map_alloc(m, b, z, a) = new
  <2>1. Seg(0, 0 - 1, "unused", 0).size = 0 - 1
    BY DEF Seg
  <2> HIDE DEF k, new
  <2> QED BY <1>1, <2>1
<1>4. I \subseteq Nat /\ I # {} /\ k = Min(I)
  <2>1. I \subseteq 1 .. Len(m) /\ Len(m) \in Nat
    BY DEF MapOK
  <2> HIDE DEF I
  <2>2. I # {} /\ k = Min(I)
    BY <1>3
  <2> QED BY <2>1, <2>2
<1>5. k \in I
  <2> HIDE DEF I, k
  <2> QED BY <1>4, LeastOf
<1> HIDE DEF k
<1>6. s \in SegRec /\ fits(s)
  BY <1>5 DEF MapOK
<1> HIDE DEF start, size, s
<1>7. s.start \in Nat /\ s.start >= 2 /\ s.size \in Int
  BY <1>6 DEF SegRec
<1>8. allocDelta(s, start, a) \in Nat
  <2>1. CASE start # 0
    BY <1>2, <1>6, <1>7, <2>1 DEF allocDelta
  <2>2. CASE start = 0
    <3>1. RoundUp(s.start, a) \in Nat /\ RoundUp(s.start, a) >= s.start
      BY <1>7, RoundUpIs
    <3> QED BY <1>7, <2>2, <3>1 DEF allocDelta
  <2> QED BY <2>1, <2>2
<1>9. room(s) \in Int
  BY <1>7, <1>8
<1>10. rest \in Int
  <2> DEFINE w == room(s)
  <2>1. w \in Int /\ rest = IF a > 0 /\ w % a # 0 THEN (w \div a) * a ELSE w
    BY <1>9
  <2> HIDE DEF w, rest
  <2>2. a > 0 => (w \div a) * a \in Int
    BY <2>1
  <2> QED BY <2>1, <2>2
<1> HIDE DEF room, fits, rest
<1>11. z1 \in Int
  BY <1>2, <1>10
<1> HIDE DEF z1
<1>12. new.start = s.start + allocDelta(s, start, a) /\ new.size = z1
  BY DEF Seg
<1> HIDE DEF new
<1> QED BY <1>3, <1>7, <1>8, <1>11, <1>12

\* map_resize() gives a size.
LEMMA ResizeIs ==
    ASSUME NEW m, MapOK(m), NEW k \in 1 .. Len(m), NEW z \in Nat, NEW a \in Nat
    PROVE  map_resize(m, k, z, a) \in Int
<1>1. m[k].size \in Int /\ (k < Len(m) => m[k + 1].size \in Int)
  <2>1. m[k] \in SegRec /\ (k < Len(m) => m[k + 1] \in SegRec)
    BY DEF MapOK
  <2> QED BY <2>1 DEF SegRec
<1>2. ASSUME z = 0, k < Len(m) PROVE map_resize(m, k, z, a) \in Int
  <2> DEFINE all == m[k].size + m[k + 1].size
  <2>1. all \in Int
    BY <1>1, <1>2
  <2>2. a > 0 => (all \div a) * a \in Int
    <3> HIDE DEF all
    <3> QED BY <2>1
  <2> DEFINE max == IF a = 0 THEN all ELSE (all \div a) * a
  <2>3. max \in Int
    BY <2>1, <2>2
  <2>4. map_resize(m, k, z, a) \in {0 - 1, max}
    BY <1>2 DEF map_resize
  <2> HIDE DEF max
  <2> QED BY <2>3, <2>4
<1>3. ASSUME z = 0, ~(k < Len(m)) PROVE map_resize(m, k, z, a) \in Int
  <2>1. k = Len(m)
    BY <1>3 DEF MapOK
  <2> QED BY <1>3, <2>1 DEF map_resize
<1>4. ASSUME z # 0 PROVE map_resize(m, k, z, a) \in Int
  <2> DEFINE align == IF z # 0 /\ a % z # 0 THEN ((z + a) \div a) * a ELSE z
  <2>1. align \in Int
    <3>1. a > 0 => ((z + a) \div a) * a \in Int
      OBVIOUS
    <3>2. a = 0 => a % z = 0
      BY <1>4
    <3> QED BY <3>1, <3>2
  <2>2. map_resize(m, k, z, a) \in {0 - 1, align}
    BY <1>4 DEF map_resize
  <2> HIDE DEF align
  <2> QED BY <2>1, <2>2
<1> QED BY <1>2, <1>3, <1>4

\* Room for a header and a sector of the table at least, or none.
LEMMA GptBlocksIs ==
    ASSUME DiskT, NEW m, MapOK(m), NEW p \in 1 .. N
    PROVE  GptBlocks(m, p) \in Nat /\ GptBlocks(m, p) # 1
<1> DEFINE free == map_free(m, 1, 0)
           b1 == IF (free - 1) * EPS > p THEN Blocks(p) + 1 ELSE free
           b2 == IF b1 + 1 > media \div 2 THEN (media \div 2) - 1 ELSE b1
           b3 == IF map_last(m).size < b2 THEN map_last(m).size ELSE b2
<1>1. GptBlocks(m, p) = IF free = 0 \/ map_last(m).type # "unused" \/ b3 = 1 THEN 0 ELSE b3
  BY DEF GptBlocks
<1>2. CASE free = 0
  BY <1>1, <1>2
<1>3. CASE free # 0
  <2>1. free \in Nat /\ free >= 1
    <3> DEFINE k == SegmentAt(m, 1)
    <3>1. k \in 0 .. Len(m) /\ (k # 0 => End(m[k]) > 1)
      BY SegmentAtIs DEF MapOK
    <3>2. k # 0 /\ free = End(m[k]) - 1
      BY <1>3 DEF map_free
    <3> HIDE DEF k, free
    <3>3. m[k] \in SegRec
      BY <3>1, <3>2 DEF MapOK
    <3>4. End(m[k]) \in Int
      BY <3>3 DEF End, SegRec
    <3> QED BY <3>1, <3>2, <3>4
  <2> HIDE DEF free
  <2>2. b1 \in Nat /\ b1 >= 1
    BY <2>1, BlocksIs, GeometryAssumption
  <2> HIDE DEF b1
  <2>3. b2 \in Nat /\ b2 >= 1
    <3>1. media \div 2 \in Nat /\ media \div 2 >= 3
      BY MbrIs
    <3> QED BY <2>2, <3>1
  <2> HIDE DEF b2
  <2>4. map_last(m).size \in Nat /\ map_last(m).size >= 1
    <3>1. m[Len(m)] \in SegRec /\ m[Len(m)].size > 0
      BY DEF MapOK
    <3>2. m[Len(m)].size \in Int
      BY <3>1 DEF SegRec
    <3> QED BY <3>1, <3>2 DEF map_last, Last
  <2>5. b3 \in Nat /\ b3 >= 1
    BY <2>3, <2>4
  <2> HIDE DEF b3
  <2> QED BY <1>1, <2>5
<1> QED BY <1>2, <1>3

\* The entries migrate makes, one partition of the MBR after the other.
ExtentOf(q, slice) ==
    IF q.typ = "dos" THEN <<>>
    ELSE IF q.typ = "efi" \/ slice \/ q.sub = <<>> THEN <<[start |-> q.start, size |-> q.size]>>
    ELSE q.sub
ExtentChain(ps, slice, n, g) ==
    g = [k \in 0 .. n |-> IF k = 0 THEN <<>> ELSE g[k - 1] \o ExtentOf(ps[k], slice)]

\* Extents() is the last of such sequences.
LEMMA ExtentChainIs ==
    ASSUME NEW slice
    PROVE  Extents(slice) = (CHOOSE g : ExtentChain(mbr.parts, slice, Len(mbr.parts), g))[Len(mbr.parts)]
BY DEF Extents, ExtentChain, ExtentOf

\* There are such sequences, and they are of extents.
LEMMA ExtentChainExists ==
    ASSUME NEW ps \in Seq(MbrPart), NEW slice, NEW n \in 0 .. Len(ps)
    PROVE  /\ \E g : ExtentChain(ps, slice, n, g)
           /\ \A g : ExtentChain(ps, slice, n, g) => g[n] \in Seq(Extent)
<1> DEFINE Good(i) == /\ \E g : ExtentChain(ps, slice, i, g)
                      /\ \A g : ExtentChain(ps, slice, i, g) => \A k \in 0 .. i : g[k] \in Seq(Extent)
           Bad == {i \in 0 .. Len(ps) : ~Good(i)}
<1> SUFFICES ASSUME Bad # {} PROVE FALSE
  <2>1. Bad = {} => Good(n)
    OBVIOUS
  <2>2. Good(n) => /\ \E g : ExtentChain(ps, slice, n, g)
                   /\ \A g : ExtentChain(ps, slice, n, g) => g[n] \in Seq(Extent)
    OBVIOUS
  <2> QED BY <2>1, <2>2
<1>0. Bad \subseteq Nat /\ Len(ps) \in Nat
  OBVIOUS
<1>1. PICK i \in Bad : \A j \in Bad : i <= j
  <2> HIDE DEF Bad
  <2> QED BY <1>0, LeastOf
<1>n. i \in Nat /\ i <= Len(ps)
  BY <1>0, <1>1
<1>e. \A k \in 1 .. Len(ps) : ExtentOf(ps[k], slice) \in Seq(Extent)
  <2> TAKE k \in 1 .. Len(ps)
  <2>1. ps[k] \in MbrPart
    OBVIOUS
  <2>2. ps[k].sub \in Seq(Extent) /\ [start |-> ps[k].start, size |-> ps[k].size] \in Extent
    BY <2>1 DEF MbrPart, Extent
  <2>3. <<[start |-> ps[k].start, size |-> ps[k].size]>> \in Seq(Extent) /\ <<>> \in Seq(Extent)
    BY <2>2
  <2> QED BY <2>2, <2>3, Zenon DEF ExtentOf
<1>2. i # 0
  <2>1. [k \in 0 .. 0 |-> <<>>] =
          [k \in 0 .. 0 |-> IF k = 0 THEN <<>> ELSE [j \in 0 .. 0 |-> <<>>][k - 1] \o ExtentOf(ps[k], slice)]
    OBVIOUS
  <2>2. ExtentChain(ps, slice, 0, [k \in 0 .. 0 |-> <<>>])
    BY <2>1 DEF ExtentChain
  <2>3. ASSUME NEW g, ExtentChain(ps, slice, 0, g), NEW k \in 0 .. 0 PROVE g[k] \in Seq(Extent)
    <3>1. g[k] = <<>>
      BY <2>3 DEF ExtentChain
    <3> QED BY <3>1
  <2>4. Good(0)
    BY <2>2, <2>3
  <2> HIDE DEF Good
  <2> QED BY <1>1, <2>4
<1>3. i - 1 \in 0 .. Len(ps) /\ i - 1 \notin Bad
  <2>1. i - 1 \in 0 .. Len(ps) /\ ~(i <= i - 1)
    BY <1>0, <1>n, <1>2
  <2> HIDE DEF Bad
  <2> QED BY <1>1, <2>1
<1>4. Good(i - 1)
  BY <1>3
<1>5. PICK g : ExtentChain(ps, slice, i - 1, g)
  BY <1>4
<1> DEFINE h == [k \in 0 .. i |-> IF k = i THEN g[i - 1] \o ExtentOf(ps[i], slice) ELSE g[k]]
<1>6. ASSUME NEW k \in 0 .. i
      PROVE  h[k] = IF k = 0 THEN <<>> ELSE h[k - 1] \o ExtentOf(ps[k], slice)
  <2>1. CASE k = i
    <3>1. h[k] = g[i - 1] \o ExtentOf(ps[i], slice) /\ h[i - 1] = g[i - 1]
      <4>1. i \in 0 .. i /\ i - 1 \in 0 .. i /\ i - 1 # i
        BY <1>n, <1>2
      <4> QED BY <2>1, <4>1, Zenon
    <3> HIDE DEF h
    <3> QED BY <1>2, <2>1, <3>1
  <2>2. CASE k # i
    <3>1. k \in 0 .. i - 1 /\ h[k] = g[k] /\ (k # 0 => h[k - 1] = g[k - 1])
      BY <1>n, <1>3, <2>2
    <3> HIDE DEF h
    <3>2. g[k] = IF k = 0 THEN <<>> ELSE g[k - 1] \o ExtentOf(ps[k], slice)
      BY <1>5, <3>1, Zenon DEF ExtentChain
    <3> QED BY <3>1, <3>2
  <2> QED BY <2>1, <2>2
<1>7. h = [k \in 0 .. i |-> IF k = 0 THEN <<>> ELSE h[k - 1] \o ExtentOf(ps[k], slice)]
  <2>1. h = [k \in 0 .. i |-> h[k]]
    OBVIOUS
  <2> HIDE DEF h
  <2> QED BY <1>6, <2>1
<1> HIDE DEF h
<1>8. ExtentChain(ps, slice, i, h)
  BY <1>7 DEF ExtentChain
<1>9. ASSUME NEW f, ExtentChain(ps, slice, i, f), NEW k \in 0 .. i PROVE f[k] \in Seq(Extent)
  <2>1. \A j \in 0 .. i : f[j] = IF j = 0 THEN <<>> ELSE f[j - 1] \o ExtentOf(ps[j], slice)
    BY <1>9, Zenon DEF ExtentChain
  <2> DEFINE e == [j \in 0 .. i - 1 |-> f[j]]
  <2>2. ASSUME NEW j \in 0 .. i - 1
        PROVE  e[j] = IF j = 0 THEN <<>> ELSE e[j - 1] \o ExtentOf(ps[j], slice)
    <3>1. j \in 0 .. i /\ e[j] = f[j] /\ (j # 0 => e[j - 1] = f[j - 1])
      BY <1>n
    <3> HIDE DEF e
    <3> QED BY <2>1, <3>1
  <2>3. e = [j \in 0 .. i - 1 |-> IF j = 0 THEN <<>> ELSE e[j - 1] \o ExtentOf(ps[j], slice)]
    <3>1. e = [j \in 0 .. i - 1 |-> e[j]]
      OBVIOUS
    <3> HIDE DEF e
    <3> QED BY <2>2, <3>1
  <2>4. \A j \in 0 .. i - 1 : e[j] \in Seq(Extent)
    <3> HIDE DEF e
    <3>1. ExtentChain(ps, slice, i - 1, e)
      BY <2>3 DEF ExtentChain
    <3> QED BY <1>4, <3>1
  <2>5. \A j \in 0 .. i - 1 : f[j] \in Seq(Extent)
    BY <2>4
  <2>6. CASE k = i
    <3>1. f[i] = f[i - 1] \o ExtentOf(ps[i], slice)
      BY <1>n, <1>2, <2>1, <2>6
    <3>2. f[i - 1] \in Seq(Extent) /\ ExtentOf(ps[i], slice) \in Seq(Extent)
      BY <1>n, <1>2, <1>e, <2>5
    <3> QED BY <2>6, <3>1, <3>2
  <2>7. CASE k # i
    BY <1>n, <2>5, <2>7
  <2> QED BY <2>6, <2>7
<1>10. Good(i)
  BY <1>8, <1>9
<1> HIDE DEF Good
<1> QED BY <1>1, <1>10

\* What migrate takes from the MBR are extents.
LEMMA ExtentsIs ==
    ASSUME DiskT, NEW slice
    PROVE  Extents(slice) \in Seq(Extent)
<1> DEFINE ps == mbr.parts
           g == CHOOSE f : ExtentChain(ps, slice, Len(ps), f)
<1>1. ps \in Seq(MbrPart) /\ Len(ps) \in 0 .. Len(ps)
  <2>1. ps \in Seq(MbrPart)
    BY MbrIs
  <2> HIDE DEF ps
  <2> QED BY <2>1
<1>2. Extents(slice) = g[Len(ps)]
  BY ExtentChainIs, Zenon
<1> HIDE DEF ps
<1>3. ExtentChain(ps, slice, Len(ps), g)
  BY <1>1, ExtentChainExists, Zenon
<1> HIDE DEF g
<1> QED BY <1>1, <1>2, <1>3, ExtentChainExists

-----------------------------------------------------------------------------
(* Types *)

CoreRec == [n : 0 .. N, alt : 0 .. Last1, ent : TableT]
CoreT ==
    /\ mem \in [Copies -> CoreRec]
    /\ cmd \in Names /\ todo \in Seq(Writes) /\ left \subseteq Ent
HistT ==
    /\ creates \in 0 .. MaxCreates /\ fails \in 0 .. MaxFails
    /\ crashes \in 0 .. MaxCrashes /\ made \in BOOLEAN /\ forked \in BOOLEAN
TInv == DiskT /\ CoreT /\ HistT

\* An unused entry, and a table of them, have their types.
LEMMA BlankIs == Blank \in SlotT /\ BlankTable \in TableT
<1>1. Blank \in SlotT
  BY BoundAssumption DEF Blank, SlotT
<1> QED BY <1>1 DEF BlankTable, TableT

\* No header at all has no entries and the checksum of none.
LEMMA NoHdrIs ==
    NoHdr.n = 0 /\ NoHdr.alt = 0 /\ NoHdr.crc \in [0 .. NoHdr.n - 1 -> SlotT]
<1>1. NoHdr.n = 0 /\ NoHdr.alt = 0 /\ NoHdr.crc = <<>>
  BY DEF NoHdr
<1>2. <<>> \in [0 .. 0 - 1 -> SlotT]
  OBVIOUS
<1> QED BY <1>1, <1>2

\* The core between commands has its type.
LEMMA NoCoreIs ==
    ASSUME DiskT
    PROVE  NoCore \in [Copies -> CoreRec]
<1>1. Last1 \in Nat /\ N \in Nat
  BY MbrIs, GeometryAssumption DEF Last1
<1>2. [n |-> 0, alt |-> 0, ent |-> BlankTable] \in CoreRec
  BY <1>1, BlankIs DEF CoreRec
<1> QED BY <1>2 DEF NoCore

\* The core of a command that opened the disk has both copies as they are there.
LEMMA BothCoreIs ==
    ASSUME DiskT
    PROVE  /\ BothCore \in [Copies -> CoreRec]
           /\ \A c \in Copies : BothCore[c].n = hdr[c].n /\ BothCore[c].alt = hdr[c].alt /\ BothCore[c].ent = tbl[c]
<1>1. ASSUME NEW c \in Copies
      PROVE  Core(c) \in CoreRec /\ Core(c).n = hdr[c].n /\ Core(c).alt = hdr[c].alt /\ Core(c).ent = tbl[c]
  BY DEF Core, CoreRec, DiskT
<1> QED BY <1>1 DEF BothCore

\* InBoth() with the entries it puts.
PutBoth(core, i, v) == [c \in Copies |-> [core[c] EXCEPT !.ent[i] = v[c]]]

\* An entry put into both copies leaves their type and number of entries.
LEMMA PutBothIs ==
    ASSUME NEW core \in [Copies -> CoreRec], NEW i \in Ent, NEW v \in [Copies -> SlotT]
    PROVE  /\ PutBoth(core, i, v) \in [Copies -> CoreRec]
           /\ \A c \in Copies : PutBoth(core, i, v)[c].n = core[c].n
<1>1. ASSUME NEW c \in Copies
      PROVE  /\ [core[c] EXCEPT !.ent[i] = v[c]] \in CoreRec
             /\ [core[c] EXCEPT !.ent[i] = v[c]].n = core[c].n
  <2>1. core[c] \in CoreRec /\ v[c] \in SlotT
    OBVIOUS
  <2> QED BY <2>1 DEF CoreRec, TableT
<1> QED BY <1>1 DEF PutBoth

\* The checksum is of as many entries as it was computed from.
LEMMA SumIs ==
    ASSUME NEW t \in TableT, NEW n \in 0 .. N
    PROVE  Sum(n, t) \in [0 .. n - 1 -> SlotT]
<1>1. \A i \in 0 .. n - 1 : t[i] \in SlotT
  BY GeometryAssumption DEF TableT, Ent
<1> QED BY <1>1 DEF Sum

\* What Put() leaves on disk.
LEMMA PutIs ==
    ASSUME DiskT, CoreT, NEW w \in Writes, Put(w), media' = media
    PROVE  DiskT'
<1> DEFINE c == CopyOf(w)
<1>1. c \in Copies /\ mem[c] \in CoreRec
  BY DEF CopyOf, Copies, CoreT
<1> HIDE DEF c
<1>2. mem[c].n \in 0 .. N /\ mem[c].alt \in 0 .. Last1 /\ mem[c].ent \in TableT
  BY <1>1 DEF CoreRec
<1>3. CoreHdr(c).n = mem[c].n /\ CoreHdr(c).alt = mem[c].alt /\ CoreHdr(c).crc \in [0 .. mem[c].n - 1 -> SlotT]
  BY <1>2, SumIs DEF CoreHdr
<1>4. mbr' \in Mbrs \cup {Pmbr}
  BY DEF Put, DiskT
<1>5. tbl' \in [Copies -> TableT]
  BY <1>1, <1>2 DEF Put, DiskT, c
<1>6. hdr' = [d \in Copies |-> hdr'[d]]
  BY <1>1 DEF Put, DiskT, c
<1>7. Last1' = Last1
  BY DEF Last1
<1>8. Last1 \in Nat /\ N \in Nat
  BY MbrIs, GeometryAssumption DEF Last1
<1>9. ASSUME NEW d \in Copies
      PROVE  hdr'[d].n \in 0 .. N /\ hdr'[d].alt \in 0 .. Last1 /\ hdr'[d].crc \in [0 .. hdr'[d].n - 1 -> SlotT]
  <2>1. hdr'[d] = hdr[d] \/ (d = c /\ hdr'[d] = CoreHdr(c)) \/ hdr'[d] = NoHdr
    BY <1>1 DEF Put, DiskT, c
  <2>2. CASE hdr'[d] = hdr[d]
    BY <2>2 DEF DiskT
  <2>3. CASE hdr'[d] = CoreHdr(c)
    BY <1>2, <1>3, <2>3
  <2>4. CASE hdr'[d] = NoHdr
    <3>1. hdr'[d].crc \in [0 .. hdr'[d].n - 1 -> SlotT] /\ hdr'[d].n = 0 /\ hdr'[d].alt = 0
      BY <2>4, NoHdrIs, Zenon
    <3> QED BY <1>8, <3>1
  <2> QED BY <2>1, <2>2, <2>3, <2>4
<1> QED BY <1>4, <1>5, <1>6, <1>7, <1>9 DEF DiskT

\* What comes after a write leaves the core with its type.
LEMMA ContinueIs ==
    ASSUME TInv, NEW rest \in Seq(Writes), Continue(rest), DiskT', media' = media
    PROVE  CoreT' /\ made' \in BOOLEAN /\ creates' \in 0 .. MaxCreates
<1>1. Last1' = Last1
  BY DEF Last1
<1>2. CoreRec' = CoreRec
  BY <1>1 DEF CoreRec
<1>3. NoCore \in [Copies -> CoreRec] /\ mem \in [Copies -> CoreRec]
  BY NoCoreIs DEF TInv, CoreT
<1>4. mem' \in [Copies -> CoreRec] /\ todo' = rest /\ left' = left /\ creates' = creates /\ cmd' \in {"none", cmd}
  BY <1>3 DEF Continue
<1>5. made' \in BOOLEAN
  BY DEF Continue, TInv, HistT
<1> QED BY <1>2, <1>4, <1>5 DEF CoreT, TInv, HistT, Names

\* The first of the writes left to make, and the others.
LEMMA RestIs ==
    ASSUME NEW q \in Seq(Writes), q # <<>>
    PROVE  Head(q) \in Writes /\ Tail(q) \in Seq(Writes) /\ Len(q) \in Nat \ {0}
OBVIOUS

\* A write keeps the types.
LEMMA WriteTypes ==
    ASSUME TInv, Write
    PROVE  TInv'
<1>1. Head(todo) \in Writes /\ Tail(todo) \in Seq(Writes)
  BY RestIs DEF Write, TInv, CoreT
<1>2. media' = media /\ fails' = fails /\ crashes' = crashes /\ Put(Head(todo)) /\ Continue(Tail(todo))
  BY DEF Write
<1>3. DiskT'
  BY <1>1, <1>2, PutIs DEF TInv
<1>4. CoreT' /\ made' \in BOOLEAN /\ creates' \in 0 .. MaxCreates
  BY <1>1, <1>2, <1>3, ContinueIs
<1>5. forked' \in BOOLEAN
  BY DEF Write, TInv, HistT
<1> QED BY <1>2, <1>3, <1>4, <1>5 DEF TInv, HistT

\* An unchanged disk keeps its types and its intact copies.
LEMMA DiskKept ==
    ASSUME DiskT, UNCHANGED diskVars
    PROVE  DiskT' /\ CoreRec' = CoreRec /\ \A c \in Copies : Intact(c)' <=> Intact(c)
<1>1. Last1' = Last1
  BY DEF Last1, diskVars
<1> QED BY <1>1 DEF DiskT, diskVars, CoreRec, Intact, Sum

\* A failed write keeps the types, and is counted.
LEMMA WriteFailsTypes ==
    ASSUME TInv, WriteFails
    PROVE  TInv' /\ fails' # 0
<1> DEFINE rest == IF cmd = "destroy" THEN <<>> ELSE Tail(todo)
<1>1. rest \in Seq(Writes)
  <2>1. Tail(todo) \in Seq(Writes)
    BY RestIs DEF WriteFails, TInv, CoreT
  <2> QED BY <2>1
<1>2. crashes' = crashes /\ Continue(rest) /\ UNCHANGED diskVars
  BY DEF WriteFails
<1> HIDE DEF rest
<1>3. DiskT' /\ media' = media
  BY <1>2, DiskKept DEF TInv, diskVars
<1>4. CoreT' /\ made' \in BOOLEAN /\ creates' \in 0 .. MaxCreates
  BY <1>1, <1>2, <1>3, ContinueIs
<1>5. forked' \in BOOLEAN
  BY DEF WriteFails, TInv, HistT
<1>6. fails' \in 0 .. MaxFails /\ fails' # 0
  BY BoundAssumption DEF WriteFails, TInv, HistT
<1> QED BY <1>2, <1>3, <1>4, <1>5, <1>6 DEF TInv, HistT

\* A crash leaves a table of slots from before and from after the write.
LEMMA CrashTypes ==
    ASSUME TInv, Crash
    PROVE  TInv'
<1>1. tbl' \in [Copies -> TableT]
  <2>1. CASE tbl' = tbl
    BY <2>1 DEF TInv, DiskT
  <2>2. CASE tbl' # tbl
    <3> DEFINE c == CopyOf(Head(todo))
    <3>1. c \in Copies /\ mem[c] \in CoreRec /\ tbl \in [Copies -> TableT]
      BY DEF CopyOf, Copies, TInv, CoreT, DiskT
    <3>2. PICK k : tbl' = [tbl EXCEPT ![c] = [i \in Ent |-> IF i \div EPS < k THEN mem[c].ent[i] ELSE tbl[c][i]]]
      BY <2>2 DEF Crash
    <3> HIDE DEF c
    <3>3. mem[c].ent \in TableT /\ tbl[c] \in TableT
      BY <3>1 DEF CoreRec
    <3>4. [i \in Ent |-> IF i \div EPS < k THEN mem[c].ent[i] ELSE tbl[c][i]] \in TableT
      BY <3>3 DEF TableT
    <3> QED BY <3>1, <3>2, <3>4
  <2> QED BY <2>1, <2>2
<1>2. media' = media /\ mbr' = mbr /\ hdr' = hdr /\ creates' = creates /\ fails' = fails /\ made' = made
  BY DEF Crash
<1>3. Last1' = Last1
  BY <1>2 DEF Last1
<1>4. DiskT'
  BY <1>1, <1>2, <1>3 DEF DiskT, TInv
<1>5. CoreT'
  <2>1. cmd' = "none" /\ todo' = <<>> /\ left' = {} /\ mem' = NoCore /\ CoreRec' = CoreRec
    BY <1>3 DEF Crash, CoreRec
  <2>2. NoCore \in [Copies -> CoreRec]
    BY NoCoreIs DEF TInv
  <2>3. <<>> \in Seq(Writes) /\ "none" \in Names /\ {} \subseteq Ent
    BY DEF Names
  <2> QED BY <2>1, <2>2, <2>3 DEF CoreT
<1>6. crashes' \in 0 .. MaxCrashes /\ forked' \in BOOLEAN
  BY BoundAssumption DEF Crash, TInv, HistT
<1> QED BY <1>2, <1>4, <1>5, <1>6 DEF TInv, HistT

\* A larger medium keeps the types: no address on it is out of range.
LEMMA GrowTypes ==
    ASSUME TInv, Grow
    PROVE  TInv'
<1>0. PICK s \in Media : s > media /\ media' = s
  BY DEF Grow
<1>1. s \in Nat /\ media \in Nat /\ media >= 6 /\ N \in Nat
  BY MbrIs, GeometryAssumption DEF TInv
<1>2. Last1 \in Nat /\ Last1' \in Nat /\ Last1 <= Last1' /\ N \in Nat
  <2>1. Last1 = media - 1 /\ Last1' = s - 1
    BY <1>0 DEF Last1
  <2>2. media - 1 \in Nat /\ s - 1 \in Nat /\ media - 1 <= s - 1
    BY <1>0, <1>1
  <2> QED BY <1>1, <2>1, <2>2, Zenon
<1>3. /\ hdr' = [hdr EXCEPT !["sec"] = NoHdr] /\ tbl' = [tbl EXCEPT !["sec"] = BlankTable]
      /\ mbr' = mbr /\ UNCHANGED <<coreVars, histVars>>
  BY DEF Grow
<1>4. tbl' \in [Copies -> TableT] /\ hdr' = [d \in Copies |-> hdr'[d]]
  BY <1>3, BlankIs DEF TInv, DiskT
<1>5. ASSUME NEW d \in Copies
      PROVE  hdr'[d].n \in 0 .. N /\ hdr'[d].alt \in 0 .. Last1' /\ hdr'[d].crc \in [0 .. hdr'[d].n - 1 -> SlotT]
  <2>1. hdr'[d] = hdr[d] \/ hdr'[d] = NoHdr
    BY <1>3 DEF TInv, DiskT
  <2>2. CASE hdr'[d] = hdr[d]
    BY <1>2, <2>2 DEF DiskT, TInv
  <2>3. CASE hdr'[d] = NoHdr
    <3>1. hdr'[d].crc \in [0 .. hdr'[d].n - 1 -> SlotT] /\ hdr'[d].n = 0 /\ hdr'[d].alt = 0
      BY <2>3, NoHdrIs, Zenon
    <3> QED BY <1>2, <3>1
  <2> QED BY <2>1, <2>2, <2>3
<1>6. DiskT'
  BY <1>0, <1>3, <1>4, <1>5 DEF DiskT, TInv
<1>7. \A x \in CoreRec : x \in CoreRec'
  <2>1. 0 .. Last1 \subseteq 0 .. Last1'
    BY <1>2
  <2> QED BY <2>1 DEF CoreRec
<1>8. CoreT'
  BY <1>3, <1>7 DEF CoreT, coreVars, TInv
<1> QED BY <1>3, <1>6, <1>8 DEF TInv, HistT, histVars

\* The next entry of remove, label or rename: disk kept, both copies to be written.
LEMMA EditNextTypes ==
    ASSUME TInv, EditNext
    PROVE  /\ TInv' /\ todo' = BothWrites /\ UNCHANGED diskVars
           /\ \A c \in Copies : mem'[c].n = mem[c].n
<1> PICK i \in left : left' = left \ {i} /\ mem' = InBoth(mem, i, LAMBDA x : Edited(cmd, x))
  BY DEF EditNext
<1> DEFINE v == [c \in Copies |-> Edited(cmd, mem[c].ent[i])]
<1>1. i \in Ent /\ mem \in [Copies -> CoreRec]
  BY DEF TInv, CoreT
<1>2. ASSUME NEW x \in SlotT PROVE Edited(cmd, x) \in SlotT
  <2>1. x.tag \in 0 .. 3 /\ (IF x.tag > 1 THEN x.tag ELSE 1 - x.tag) \in 0 .. 3
    BY DEF SlotT
  <2>2. TRUE \in BOOLEAN /\ FALSE \in BOOLEAN /\ 1 \in 0 .. 3
    OBVIOUS
  <2> QED BY <2>1, <2>2 DEF Edited, SlotT
<1>3. v \in [Copies -> SlotT]
  <2>1. \A c \in Copies : mem[c].ent[i] \in SlotT
    BY <1>1 DEF CoreRec, TableT
  <2> QED BY <1>2, <2>1
<1>4. mem' = PutBoth(mem, i, v)
  BY DEF PutBoth, InBoth
<1> HIDE DEF v
<1>5. mem' \in [Copies -> CoreRec] /\ \A c \in Copies : mem'[c].n = mem[c].n
  <2>1. /\ PutBoth(mem, i, v) \in [Copies -> CoreRec]
        /\ \A c \in Copies : PutBoth(mem, i, v)[c].n = mem[c].n
    BY <1>1, <1>3, PutBothIs, Zenon
  <2> QED BY <1>4, <2>1, Zenon
<1>6. UNCHANGED diskVars /\ cmd' = cmd /\ UNCHANGED histVars /\ todo' = BothWrites
  BY DEF EditNext
<1>7. BothWrites \in Seq(Writes)
  BY DEF BothWrites, Writes
<1>8. DiskT' /\ CoreRec' = CoreRec
  BY <1>6, DiskKept DEF TInv
<1>9. CoreT'
  BY <1>5, <1>6, <1>7, <1>8 DEF CoreT, TInv
<1> QED BY <1>5, <1>6, <1>8, <1>9 DEF TInv, HistT, histVars

-----------------------------------------------------------------------------
(* The inductive invariant *)

TblType(c) == IF c = "pri" THEN "pri_tbl" ELSE "sec_tbl"
ZeroType(c) == IF c = "pri" THEN "pri_zero" ELSE "sec_zero"

\* A command that is not running has nothing to do.
Rest == cmd = "none" => todo = <<>> /\ left = {}

\* Copy c is intact and the command does not touch it, or writes back the
\* header with another address.
Kept(c) ==
    /\ Intact(c) /\ left = {}
    /\ ~Has(todo, TblType(c)) /\ ~Has(todo, ZeroType(c))
    /\ Has(todo, HdrType(c)) => mem[c].n = hdr[c].n /\ mem[c].ent = tbl[c]

\* No write to the primary copy comes after one to the secondary copy.
PriFirst(q) ==
    \A j, k \in 1 .. Len(q) :
        j < k /\ q[k] \in {"pri_hdr", "pri_tbl"} => q[j] \notin {"sec_hdr", "sec_tbl"}

\* What is not on disk of copy c is about to be written.
InHand(c) ==
    /\ mem[c].n > 0
    /\ Has(todo, HdrType(c)) \/ (hdr[c].n = mem[c].n /\ hdr[c].crc = Sum(mem[c].n, mem[c].ent))
    /\ Has(todo, TblType(c)) \/ tbl[c] = mem[c].ent
    /\ ~Has(todo, ZeroType(c))

\* A command that changes both copies: until the primary copy is written the
\* secondary one is intact.
Rewriting ==
    /\ \A c \in Copies : InHand(c)
    /\ PriFirst(todo)
    /\ Has(todo, "pri_hdr") \/ Has(todo, "pri_tbl") => Intact("sec")

\* destroy, which gives up when a write fails, writes nothing but zeros.
Zeros ==
    cmd = "destroy" => left = {} /\ \A w : Has(todo, w) => w \in {"pri_zero", "sec_zero"}

\* There is a GPT that is not to be lost.
Alive == made /\ (fails = 0 \/ (fails = 1 /\ crashes = 0))

\* A failed write takes one copy out of a command's hands, not both.
Single == made /\ fails = 1 /\ crashes = 0 => \E c \in Copies : Kept(c) \/ InHand(c)

Safe == (made /\ fails = 0 => (\E c \in Copies : Kept(c)) \/ Rewriting) /\ Single

\* No header is written that says there are no entries.
Counted == \A c \in Copies : Has(todo, HdrType(c)) \/ left # {} => mem[c].n > 0
ZerosOnly == Has(todo, "pri_zero") => cmd = "destroy"

\* What the history variable forked says.
Agree == cmd \in {"none", "destroy"} /\ ~forked => ~Differ

\* destroy -r has found two copies and is about to erase the primary one.
Undoable ==
    cmd = "destroy" /\ made => Intact("pri") /\ Intact("sec") /\ left = {} /\ todo = <<"pri_zero">>

\* recover has read the copy that is left and writes it to the other one.
Restores(c) ==
    /\ Intact(Other(c)) /\ mem[c].n = hdr[Other(c)].n /\ mem[c].ent = tbl[Other(c)]
    /\ \/ todo = <<TblType(c)>>
       \/ todo = <<TblType(c), HdrType(c)>>
       \/ todo = <<HdrType(c)>> /\ tbl[c] = tbl[Other(c)]
Restoring == cmd = "recover" /\ fails = 0 => left = {} /\ \E c \in Copies : Restores(c)

Keeping == Counted /\ ZerosOnly /\ Agree /\ Undoable /\ Restoring
SInv == TInv /\ Rest /\ Zeros /\ Safe /\ Keeping

\* Between commands.
LEMMA AtRest ==
    ASSUME SInv, Ready
    PROVE  todo = <<>> /\ left = {} /\ (Alive => \E c \in Copies : Intact(c))
<1>1. todo = <<>> /\ left = {}
  BY DEF SInv, Rest, Ready
<1>2. \A w : ~Has(todo, w)
  BY <1>1 DEF Has
<1>3. ASSUME NEW c \in Copies, InHand(c) PROVE Intact(c)
  BY <1>2, <1>3 DEF InHand, Intact
<1>4. Alive => \E c \in Copies : Kept(c) \/ InHand(c)
  BY DEF SInv, Safe, Single, Alive, Rewriting, Copies
<1> QED BY <1>1, <1>3, <1>4 DEF Kept

\* A command starts.
LEMMA Begins ==
    ASSUME SInv, UNCHANGED diskVars, mem' \in [Copies -> CoreRec], cmd' \in Names \ {"none"},
           todo' \in Seq(Writes), left' \subseteq Ent, creates' \in 0 .. MaxCreates, made' \in BOOLEAN,
           fails' = fails, crashes' = crashes, forked' = forked, Counted', ZerosOnly'
    PROVE  /\ TInv' /\ Rest' /\ (cmd' # "destroy" => Zeros')
           /\ cmd' \notin {"destroy", "recover"} => Keeping'
<1>1. DiskT' /\ CoreRec' = CoreRec
  BY DiskKept DEF SInv, TInv
<1>2. CoreT'
  BY <1>1 DEF CoreT
<1>3. HistT'
  BY DEF HistT, SInv, TInv
<1> QED BY <1>1, <1>2, <1>3 DEF TInv, Rest, Zeros, Keeping, Agree, Undoable, Restoring

\* The lists of writes that commands start with.
WritesBoth(q) ==
    /\ q \in Seq(Writes)
    /\ \A c \in Copies : Has(q, HdrType(c)) /\ Has(q, TblType(c)) /\ ~Has(q, ZeroType(c))
    /\ PriFirst(q)
Untouched(q, c) == q \in Seq(Writes) /\ \A w \in {HdrType(c), TblType(c), ZeroType(c)} : ~Has(q, w)

\* Writes elsewhere, before or after, make no difference.
LEMMA OneIs ==
    ASSUME NEW w \in Writes
    PROVE  <<w>> \in Seq(Writes) /\ Len(<<w>>) = 1 /\ <<w>>[1] = w /\ \A x : Has(<<w>>, x) <=> x = w
BY DEF Has

\* The elements of a concatenation.
LEMMA ConcatIs ==
    ASSUME NEW X, NEW a \in Seq(X), NEW b \in Seq(X)
    PROVE  /\ Len(a) \in Nat /\ Len(b) \in Nat /\ Len(a \o b) = Len(a) + Len(b)
           /\ \A k \in 1 .. Len(a) + Len(b) : (a \o b)[k] = IF k <= Len(a) THEN a[k] ELSE b[k - Len(a)]
OBVIOUS

\* A command that writes both copies still does with the MBR or an image before or after.
LEMMA OneMore ==
    ASSUME NEW q, WritesBoth(q), NEW w \in {"pmbr", "image"}
    PROVE  WritesBoth(<<w>> \o q) /\ WritesBoth(q \o <<w>>)
<1> DEFINE o == <<w>>
<1>1. o \in Seq(Writes) /\ Len(o) = 1 /\ o[1] = w /\ \A x : Has(o, x) <=> x = w
  BY OneIs DEF Writes
<1>2. q \in Seq(Writes) /\ PriFirst(q)
  BY DEF WritesBoth
<1> SUFFICES WritesBoth(o \o q) /\ WritesBoth(q \o o)
  OBVIOUS
<1> HIDE DEF o
<1>3. \A x : (Has(o \o q, x) <=> Has(o, x) \/ Has(q, x)) /\ (Has(q \o o, x) <=> Has(q, x) \/ Has(o, x))
  BY <1>1, <1>2, HasConcat, Zenon
<1>4. o \o q \in Seq(Writes) /\ q \o o \in Seq(Writes)
  BY <1>1, <1>2
<1>5. \A c \in Copies : w \notin {HdrType(c), TblType(c), ZeroType(c)}
  BY DEF HdrType, TblType, ZeroType
<1>6. PriFirst(o \o q)
  <2> DEFINE r == o \o q
  <2>1. Len(r) = Len(q) + 1 /\ Len(q) \in Nat /\ \A k \in 1 .. Len(r) : r[k] = IF k = 1 THEN w ELSE q[k - 1]
    <3>1. Len(r) = Len(o) + Len(q) /\ Len(q) \in Nat
          /\ \A k \in 1 .. Len(o) + Len(q) : r[k] = IF k <= Len(o) THEN o[k] ELSE q[k - Len(o)]
      BY <1>1, <1>2, ConcatIs, Zenon
    <3> HIDE DEF r
    <3> QED BY <1>1, <3>1
  <2> HIDE DEF r
  <2>2. ASSUME NEW j \in 1 .. Len(r), NEW k \in 1 .. Len(r), j < k, r[k] \in {"pri_hdr", "pri_tbl"}
        PROVE  r[j] \notin {"sec_hdr", "sec_tbl"}
    <3>1. CASE j = 1
      BY <2>1, <3>1
    <3>2. CASE j # 1
      <4>1. j - 1 \in 1 .. Len(q) /\ k - 1 \in 1 .. Len(q) /\ j - 1 < k - 1 /\ r[j] = q[j - 1] /\ r[k] = q[k - 1]
        BY <2>1, <2>2, <3>2
      <4> QED BY <1>2, <2>2, <4>1 DEF PriFirst
    <3> QED BY <3>1, <3>2
  <2>3. PriFirst(r)
    BY <2>2 DEF PriFirst
  <2> QED BY <2>3 DEF r
<1>7. PriFirst(q \o o)
  <2> DEFINE r == q \o o
  <2>0. Len(r) = Len(q) + Len(o) /\ Len(q) \in Nat /\ Len(o) = 1
        /\ \A k \in 1 .. Len(q) + Len(o) : r[k] = IF k <= Len(q) THEN q[k] ELSE o[k - Len(q)]
    BY <1>1, <1>2, ConcatIs, Zenon
  <2> HIDE DEF r
  <2>1. \A k \in 1 .. Len(r) : r[k] = IF k <= Len(q) THEN q[k] ELSE w
    <3> TAKE k \in 1 .. Len(r)
    <3>2. CASE k <= Len(q)
      BY <2>0, <3>2
    <3>3. CASE ~(k <= Len(q))
      <4>1. k - Len(q) = 1
        BY <2>0, <3>3
      <4> QED BY <1>1, <2>0, <3>3, <4>1
    <3> QED BY <3>2, <3>3
  <2> HIDE DEF r
  <2>2. ASSUME NEW j \in 1 .. Len(r), NEW k \in 1 .. Len(r), j < k, r[k] \in {"pri_hdr", "pri_tbl"}
        PROVE  r[j] \notin {"sec_hdr", "sec_tbl"}
    <3>1. k <= Len(q) /\ j <= Len(q)
      BY <2>0, <2>1, <2>2
    <3>2. r[j] = q[j] /\ r[k] = q[k] /\ j \in 1 .. Len(q) /\ k \in 1 .. Len(q)
      BY <2>0, <2>1, <3>1
    <3> QED BY <1>2, <2>2, <3>2 DEF PriFirst
  <2>3. PriFirst(r)
    BY <2>2 DEF PriFirst
  <2> QED BY <2>3 DEF r
<1>8. \A c \in Copies : ~Has(o, HdrType(c)) /\ ~Has(o, TblType(c)) /\ ~Has(o, ZeroType(c))
  BY <1>1, <1>5
<1> QED BY <1>3, <1>4, <1>6, <1>7, <1>8, Zenon DEF WritesBoth

\* The lists of writes of the commands that write both copies.
LEMMA WritesBothIs ==
    /\ WritesBoth(BothWrites)
    /\ WritesBoth(<<"pmbr">> \o BothWrites \o <<"image">>)
    /\ WritesBoth(<<>> \o BothWrites \o <<"image">>)
<1>1. BothWrites \in Seq(Writes)
  BY DEF BothWrites, Writes
<1>2. PriFirst(BothWrites)
  BY DEF BothWrites, PriFirst
<1>3. \A c \in Copies : Has(BothWrites, HdrType(c)) /\ Has(BothWrites, TblType(c)) /\ ~Has(BothWrites, ZeroType(c))
  BY DEF BothWrites, Has, HdrType, TblType, ZeroType, Copies
<1>4. WritesBoth(BothWrites)
  BY <1>1, <1>2, <1>3 DEF WritesBoth
<1>5. "pmbr" \in {"pmbr", "image"} /\ "image" \in {"pmbr", "image"}
  OBVIOUS
<1>6. WritesBoth(<<"pmbr">> \o BothWrites)
  BY <1>4, <1>5, OneMore, Zenon
<1>7. WritesBoth(<<"pmbr">> \o BothWrites \o <<"image">>)
  BY <1>5, <1>6, OneMore, Zenon
<1>8. WritesBoth(BothWrites \o <<"image">>)
  BY <1>4, <1>5, OneMore, Zenon
<1>9. <<>> \o BothWrites = BothWrites
  BY <1>1
<1> QED BY <1>4, <1>7, <1>8, <1>9, Zenon

\* Both copies are intact and are going to be rewritten.
LEMMA RewriteBegins ==
    ASSUME TInv, UNCHANGED diskVars, \A c \in Copies : Intact(c) /\ mem'[c].n = hdr[c].n,
           WritesBoth(todo')
    PROVE  Safe'
<1>1. \A c \in Copies : Has(todo', HdrType(c)) /\ Has(todo', TblType(c)) /\ ~Has(todo', ZeroType(c))
  BY DEF WritesBoth
<1>2. \A c \in Copies : mem'[c].n > 0
  BY DEF Intact
<1>3. Intact("sec")'
  BY DEF Intact, Sum, diskVars, Copies
<1>4. Rewriting'
  BY <1>1, <1>2, <1>3 DEF Rewriting, InHand, WritesBoth
<1> QED BY <1>4 DEF Safe, Single, Rewriting, Copies

\* A copy that is intact is left alone.
LEMMA KeepBegins ==
    ASSUME TInv, UNCHANGED diskVars, left' = {}, NEW c \in Copies, Intact(c), Untouched(todo', c)
    PROVE  Safe'
<1>1. Intact(c)'
  BY DEF Intact, Sum, diskVars
<1>2. ~Has(todo', TblType(c)) /\ ~Has(todo', ZeroType(c)) /\ ~Has(todo', HdrType(c))
  BY DEF Untouched
<1>3. Kept(c)'
  BY <1>1, <1>2 DEF Kept
<1> QED BY <1>3 DEF Safe, Single

\* What is to be written is the first write or one of the rest.
LEMMA HasRest ==
    ASSUME NEW q \in Seq(Writes), q # <<>>
    PROVE  /\ \A w : Has(q, w) <=> w = Head(q) \/ Has(Tail(q), w)
           /\ PriFirst(q) => /\ PriFirst(Tail(q))
                             /\ (Has(Tail(q), "pri_hdr") \/ Has(Tail(q), "pri_tbl")
                                   => Head(q) \notin {"sec_hdr", "sec_tbl"})
<1> DEFINE r == Tail(q)
           h == Head(q)
<1>1. Len(q) \in Nat /\ Len(q) >= 1 /\ Len(r) = Len(q) - 1 /\ h = q[1]
      /\ \A k \in 1 .. Len(q) - 1 : r[k] = q[k + 1]
  OBVIOUS
<1> SUFFICES /\ \A w : Has(q, w) <=> w = h \/ Has(r, w)
             /\ PriFirst(q) => /\ PriFirst(r)
                               /\ (Has(r, "pri_hdr") \/ Has(r, "pri_tbl") => h \notin {"sec_hdr", "sec_tbl"})
  OBVIOUS
<1> HIDE DEF r, h
<1>2. ASSUME NEW w, Has(q, w) PROVE w = h \/ Has(r, w)
  <2> PICK k \in 1 .. Len(q) : q[k] = w
    BY <1>2 DEF Has
  <2>1. k = 1 \/ (k - 1 \in 1 .. Len(r) /\ r[k - 1] = w)
    BY <1>1
  <2> QED BY <1>1, <2>1 DEF Has
<1>3. ASSUME NEW w, w = h \/ Has(r, w) PROVE Has(q, w)
  <2>1. CASE w = h
    BY <1>1, <2>1 DEF Has
  <2>2. CASE Has(r, w)
    <3> PICK k \in 1 .. Len(r) : r[k] = w
      BY <2>2 DEF Has
    <3>1. k + 1 \in 1 .. Len(q) /\ q[k + 1] = w
      BY <1>1
    <3> QED BY <3>1 DEF Has
  <2> QED BY <1>3, <2>1, <2>2
<1>4. ASSUME PriFirst(q) PROVE PriFirst(r)
  <2>1. ASSUME NEW j \in 1 .. Len(r), NEW k \in 1 .. Len(r), j < k, r[k] \in {"pri_hdr", "pri_tbl"}
        PROVE  r[j] \notin {"sec_hdr", "sec_tbl"}
    <3>1. /\ j + 1 \in 1 .. Len(q) /\ k + 1 \in 1 .. Len(q) /\ j + 1 < k + 1
          /\ r[j] = q[j + 1] /\ r[k] = q[k + 1]
      BY <1>1, <2>1
    <3> QED BY <1>4, <2>1, <3>1 DEF PriFirst
  <2> QED BY <2>1 DEF PriFirst
<1>5. ASSUME PriFirst(q), Has(r, "pri_hdr") \/ Has(r, "pri_tbl") PROVE h \notin {"sec_hdr", "sec_tbl"}
  <2> PICK k \in 1 .. Len(r) : r[k] \in {"pri_hdr", "pri_tbl"}
    BY <1>5 DEF Has
  <2>1. k + 1 \in 1 .. Len(q) /\ 1 \in 1 .. Len(q) /\ 1 < k + 1 /\ q[k + 1] = r[k] /\ q[1] = h
    BY <1>1
  <2> QED BY <1>5, <2>1 DEF PriFirst
<1> QED BY <1>2, <1>3, <1>4, <1>5

\* What a write does to copy c.
LEMMA PutEffect ==
    ASSUME TInv, NEW w \in Writes, Put(w), NEW c \in Copies
    PROVE  /\ w = HdrType(c) => /\ tbl'[c] = tbl[c] /\ hdr'[c].n = mem[c].n
                                /\ hdr'[c].crc = Sum(mem[c].n, mem[c].ent)
           /\ w = TblType(c) => hdr'[c] = hdr[c] /\ tbl'[c] = mem[c].ent
           /\ w \notin {HdrType(c), TblType(c), ZeroType(c)} => hdr'[c] = hdr[c] /\ tbl'[c] = tbl[c]
<1>1. /\ hdr = [d \in Copies |-> hdr[d]] /\ tbl \in [Copies -> TableT]
      /\ CoreHdr(c).n = mem[c].n /\ CoreHdr(c).crc = Sum(mem[c].n, mem[c].ent)
  BY DEF TInv, DiskT, CoreHdr
<1>2. w = HdrType(c) => hdr'[c] = CoreHdr(c) /\ tbl'[c] = tbl[c]
  BY <1>1 DEF Put, HdrType, CopyOf, Copies
<1>3. w = TblType(c) => hdr'[c] = hdr[c] /\ tbl'[c] = mem[c].ent
  BY <1>1 DEF Put, TblType, CopyOf, Copies
<1>4. w \notin {HdrType(c), TblType(c), ZeroType(c)} => hdr'[c] = hdr[c] /\ tbl'[c] = tbl[c]
  BY <1>1 DEF Put, HdrType, TblType, ZeroType, CopyOf, Copies, Writes
<1> QED BY <1>1, <1>2, <1>3, <1>4

\* What a write does for a copy that is left alone, and one that is rewritten.
LEMMA WriteKeeps ==
    ASSUME SInv, Write, NEW c \in Copies
    PROVE  /\ Kept(c) => Kept(c)'
           /\ InHand(c) => Kept(c)' \/ (InHand(c)' /\ mem' = mem)
<1> DEFINE w == Head(todo)
           rest == Tail(todo)
           over == rest = <<>> /\ left = {}
<1>1. w \in Writes /\ rest \in Seq(Writes) /\ todo \in Seq(Writes) /\ todo # <<>>
  BY RestIs DEF Write, SInv, TInv, CoreT
<1>2. Put(w) /\ todo' = rest /\ left' = left /\ mem' = IF over THEN NoCore ELSE mem
  BY DEF Write, Continue
<1>3. \A x : Has(todo, x) <=> x = w \/ Has(rest, x)
  BY <1>1, HasRest
<1>4. over => \A x : ~Has(rest, x)
  <2>1. \A x : ~Has(<<>>, x)
    BY DEF Has
  <2> QED BY <2>1, Zenon
<1> HIDE DEF w, rest
<1>5. /\ w = HdrType(c) => /\ tbl'[c] = tbl[c] /\ hdr'[c].n = mem[c].n
                           /\ hdr'[c].crc = Sum(mem[c].n, mem[c].ent)
      /\ w = TblType(c) => hdr'[c] = hdr[c] /\ tbl'[c] = mem[c].ent
      /\ w \notin {HdrType(c), TblType(c), ZeroType(c)} => hdr'[c] = hdr[c] /\ tbl'[c] = tbl[c]
  BY <1>1, <1>2, PutEffect DEF SInv
<1>6. ASSUME Kept(c) PROVE Kept(c)'
  <2>1. w # TblType(c) /\ w # ZeroType(c)
    BY <1>3, <1>6 DEF Kept
  <2>2. Intact(c)' /\ (Has(rest, HdrType(c)) => mem[c].n = hdr'[c].n /\ mem[c].ent = tbl'[c])
    <3>1. CASE w = HdrType(c)
      BY <1>3, <1>5, <1>6, <3>1 DEF Kept, Intact
    <3>2. CASE w # HdrType(c)
      BY <1>3, <1>5, <1>6, <2>1, <3>2 DEF Kept, Intact
    <3> QED BY <3>1, <3>2
  <2>3. Has(rest, HdrType(c)) => mem' = mem
    BY <1>2, <1>4
  <2> QED BY <1>2, <1>3, <1>6, <2>2, <2>3 DEF Kept
<1>7. ASSUME InHand(c) PROVE Kept(c)' \/ (InHand(c)' /\ mem' = mem)
  <2>1. /\ mem[c].n > 0
        /\ Has(rest, HdrType(c)) \/ (hdr'[c].n = mem[c].n /\ hdr'[c].crc = Sum(mem[c].n, mem[c].ent))
        /\ Has(rest, TblType(c)) \/ tbl'[c] = mem[c].ent
        /\ ~Has(rest, ZeroType(c))
    <3>1. /\ mem[c].n > 0 /\ ~Has(rest, ZeroType(c)) /\ w # ZeroType(c)
          /\ w = HdrType(c) \/ Has(rest, HdrType(c))
               \/ (hdr[c].n = mem[c].n /\ hdr[c].crc = Sum(mem[c].n, mem[c].ent))
          /\ w = TblType(c) \/ Has(rest, TblType(c)) \/ tbl[c] = mem[c].ent
      BY <1>3, <1>7 DEF InHand
    <3>2. HdrType(c) # TblType(c)
      BY DEF HdrType, TblType
    <3> QED BY <1>5, <3>1, <3>2
  <2>2. CASE over
    <3>1. Intact(c)'
      BY <1>4, <2>1, <2>2 DEF Intact
    <3> QED BY <1>2, <1>4, <2>2, <3>1 DEF Kept
  <2>3. CASE ~over
    <3>1. InHand(c)'
      BY <1>2, <2>1, <2>3 DEF InHand, Sum
    <3> QED BY <1>2, <2>3, <3>1
  <2> QED BY <2>2, <2>3
<1> QED BY <1>6, <1>7

\* A write keeps what ties the disk, the core and the writes left to make.
LEMMA WriteKeeping ==
    ASSUME SInv, Write
    PROVE  Keeping'
<1> DEFINE w == Head(todo)
           rest == Tail(todo)
           over == rest = <<>> /\ left = {}
<1>1. w \in Writes /\ rest \in Seq(Writes) /\ todo \in Seq(Writes) /\ todo # <<>>
  BY RestIs DEF Write, SInv, TInv, CoreT
<1>2. /\ Put(w) /\ todo' = rest /\ left' = left /\ fails' = fails /\ mem' = (IF over THEN NoCore ELSE mem)
      /\ cmd' = (IF over THEN "none" ELSE cmd) /\ made' = (made \/ (over /\ Intact("pri")'))
      /\ forked' = (forked \/ (cmd' = "none" /\ Differ'))
  BY DEF Write, Continue
<1>3. \A x : Has(todo, x) <=> x = w \/ Has(rest, x)
  BY <1>1, HasRest
<1>4. over => \A x : ~Has(rest, x)
  <2>1. \A x : ~Has(<<>>, x)
    BY DEF Has
  <2> QED BY <2>1, Zenon
<1>5. Counted'
  BY <1>2, <1>3, <1>4 DEF Counted, SInv, Keeping
<1>6. ZerosOnly'
  BY <1>2, <1>3, <1>4 DEF ZerosOnly, SInv, Keeping
<1>7. Agree'
  <2>1. CASE over
    BY <1>2, <2>1 DEF Agree
  <2>2. CASE ~over /\ cmd # "destroy"
    BY <1>1, <1>2, <2>2 DEF Agree, SInv, Rest
  <2>3. CASE ~over /\ cmd = "destroy"
    <3>1. w \in {"pri_zero", "sec_zero"}
      BY <1>3, <2>3 DEF SInv, Zeros
    <3>2. CopyOf(w) \in Copies /\ hdr = [d \in Copies |-> hdr[d]]
      BY DEF CopyOf, Copies, SInv, TInv, DiskT
    <3>3. hdr'[CopyOf(w)] = NoHdr
      BY <1>2, <3>1, <3>2 DEF Put
    <3>4. hdr'[CopyOf(w)].n = 0
      BY <3>3, NoHdrIs
    <3>5. ~Differ'
      BY <3>2, <3>4 DEF Differ, Intact, Copies
    <3> QED BY <3>5 DEF Agree
  <2> QED BY <2>1, <2>2, <2>3
<1>8. Undoable'
  <2> SUFFICES ASSUME cmd' = "destroy", made' PROVE FALSE
    BY DEF Undoable
  <2>1. ~over /\ cmd = "destroy" /\ made
    BY <1>2
  <2>2. left = {} /\ todo = <<"pri_zero">>
    BY <2>1 DEF SInv, Keeping, Undoable
  <2>3. rest = <<>>
    BY <2>2
  <2> QED BY <2>1, <2>2, <2>3
<1>9. Restoring'
  <2> SUFFICES ASSUME cmd' = "recover", fails' = 0 PROVE left' = {} /\ \E c \in Copies : Restores(c)'
    BY DEF Restoring
  <2>1. ~over /\ cmd = "recover" /\ fails = 0
    BY <1>2
  <2>2. PICK c \in Copies : left = {} /\ Restores(c)
    BY <2>1 DEF SInv, Keeping, Restoring
  <2>3. todo = <<TblType(c), HdrType(c)>>
    <3>1. Tail(<<TblType(c)>>) = <<>> /\ Tail(<<HdrType(c)>>) = <<>>
      OBVIOUS
    <3> QED BY <2>1, <2>2, <3>1, Zenon DEF Restores
  <2>4. w = TblType(c) /\ rest = <<HdrType(c)>>
    BY <2>3
  <2> HIDE DEF w, rest
  <2>5. hdr'[c] = hdr[c] /\ tbl'[c] = mem[c].ent
    BY <1>1, <1>2, <2>4, PutEffect DEF SInv
  <2>6. Other(c) \in Copies /\ w \notin {HdrType(Other(c)), TblType(Other(c)), ZeroType(Other(c))}
    BY <2>4 DEF Other, Copies, HdrType, TblType, ZeroType
  <2>7. hdr'[Other(c)] = hdr[Other(c)] /\ tbl'[Other(c)] = tbl[Other(c)]
    BY <1>1, <1>2, <2>6, PutEffect DEF SInv
  <2>8. Intact(Other(c))'
    BY <2>2, <2>7 DEF Restores, Intact, Sum
  <2>9. mem' = mem
    BY <1>2, <2>1
  <2>10. Restores(c)'
    BY <1>2, <2>2, <2>4, <2>5, <2>7, <2>8, <2>9 DEF Restores
  <2> QED BY <1>2, <2>2, <2>10
<1> QED BY <1>5, <1>6, <1>7, <1>8, <1>9 DEF Keeping

\* A write keeps the invariant.
LEMMA WriteSafe ==
    ASSUME SInv, Write
    PROVE  SInv'
<1> DEFINE w == Head(todo)
           rest == Tail(todo)
           over == rest = <<>> /\ left = {}
<1>1. w \in Writes /\ rest \in Seq(Writes) /\ todo \in Seq(Writes) /\ todo # <<>>
  BY RestIs DEF Write, SInv, TInv, CoreT
<1>2. TInv'
  BY WriteTypes DEF SInv
<1>3. /\ Put(w) /\ todo' = rest /\ left' = left /\ fails' = fails /\ crashes' = crashes
      /\ cmd' = (IF over THEN "none" ELSE cmd) /\ made' = (made \/ (over /\ Intact("pri")'))
  BY DEF Write, Continue
<1>4. /\ \A x : Has(todo, x) <=> x = w \/ Has(rest, x)
      /\ PriFirst(todo) => /\ PriFirst(rest)
                           /\ (Has(rest, "pri_hdr") \/ Has(rest, "pri_tbl") => w \notin {"sec_hdr", "sec_tbl"})
  BY <1>1, HasRest
<1>5. over => \A x : ~Has(rest, x)
  <2>1. \A x : ~Has(<<>>, x)
    BY DEF Has
  <2> QED BY <2>1, Zenon
<1> HIDE DEF w, rest
<1>6. Rest' /\ Zeros'
  BY <1>1, <1>3, <1>4 DEF Rest, Zeros, SInv
<1>7. "pri" \in Copies /\ "sec" \in Copies
  BY DEF Copies
<1>8. ASSUME ~made, made' PROVE Kept("pri")'
  BY <1>3, <1>5, <1>8 DEF Kept
<1>9. ASSUME Rewriting PROVE (\E c \in Copies : Kept(c)') \/ Rewriting'
  <2> SUFFICES ASSUME ~\E c \in Copies : Kept(c)' PROVE Rewriting'
    OBVIOUS
  <2>1. \A c \in Copies : InHand(c)'
    BY <1>9, WriteKeeps DEF Rewriting
  <2>2. PriFirst(rest)
    BY <1>4, <1>9 DEF Rewriting
  <2>3. ASSUME Has(rest, "pri_hdr") \/ Has(rest, "pri_tbl") PROVE Intact("sec")'
    <3>1. Intact("sec") /\ w \notin {"sec_hdr", "sec_tbl"} /\ w # ZeroType("sec")
      BY <1>4, <1>7, <1>9, <2>3 DEF Rewriting, InHand
    <3>2. w \notin {HdrType("sec"), TblType("sec"), ZeroType("sec")}
      BY <3>1 DEF HdrType, TblType, ZeroType
    <3>3. hdr'["sec"] = hdr["sec"] /\ tbl'["sec"] = tbl["sec"]
      BY <1>1, <1>3, <1>7, <3>2, PutEffect, Zenon DEF SInv
    <3> QED BY <3>1, <3>3 DEF Intact
  <2> QED BY <1>3, <2>1, <2>2, <2>3 DEF Rewriting
<1>10. ASSUME made, fails = 0 PROVE (\E c \in Copies : Kept(c)') \/ Rewriting'
  BY <1>9, <1>10, WriteKeeps DEF SInv, Safe
<1>11. ASSUME made, fails = 1, crashes = 0 PROVE \E c \in Copies : Kept(c)' \/ InHand(c)'
  BY <1>11, WriteKeeps DEF SInv, Safe, Single
<1>12. Safe'
  BY <1>3, <1>7, <1>8, <1>10, <1>11 DEF Safe, Single
<1> QED BY <1>2, <1>6, <1>12, WriteKeeping DEF SInv

\* A write that fails: a copy it does not belong to is as well off as before.
LEMMA WriteFailsSafe ==
    ASSUME SInv, WriteFails
    PROVE  SInv'
<1> DEFINE w == Head(todo)
           rest == IF cmd = "destroy" THEN <<>> ELSE Tail(todo)
           over == rest = <<>> /\ left = {}
<1>1. TInv' /\ fails' # 0
  BY WriteFailsTypes DEF SInv
<1>2. /\ todo # <<>> /\ todo \in Seq(Writes) /\ fails' = fails + 1 /\ crashes' = crashes
      /\ UNCHANGED diskVars /\ Continue(rest) /\ fails \in Nat
  BY DEF WriteFails, SInv, TInv, CoreT, HistT
<1>3. /\ \A x : Has(todo, x) <=> x = w \/ Has(Tail(todo), x)
      /\ \A x : ~Has(<<>>, x)
  BY <1>2, HasRest DEF Has
<1>4. /\ \A x : Has(rest, x) => Has(todo, x)
      /\ cmd # "destroy" => \A x : Has(todo, x) => x = w \/ Has(rest, x)
      /\ over => \A x : ~Has(rest, x)
  BY <1>3, Zenon
<1> HIDE DEF rest, w
<1>5. /\ todo' = rest /\ left' = left /\ cmd' = (IF over THEN "none" ELSE cmd) /\ mem' = (IF over THEN NoCore ELSE mem)
      /\ made' = (made \/ (over /\ Intact("pri")')) /\ hdr' = hdr /\ tbl' = tbl
  BY <1>2 DEF Continue, diskVars
<1>6. Rest' /\ Zeros'
  BY <1>2, <1>4, <1>5 DEF Rest, Zeros, SInv
<1>7. "pri" \in Copies /\ "sec" \in Copies /\ \A c \in Copies : Intact(c) => Intact(c)'
  BY <1>5 DEF Copies, Intact, Sum
<1>8. ASSUME ~made, made' PROVE Kept("pri")'
  BY <1>4, <1>5, <1>8 DEF Kept
<1>9. ASSUME NEW c \in Copies, Kept(c) PROVE Kept(c)'
  <2>1. Has(rest, HdrType(c)) => mem' = mem
    BY <1>4, <1>5
  <2> QED BY <1>4, <1>5, <1>7, <1>9, <2>1 DEF Kept
<1>10. ASSUME NEW c \in Copies, InHand(c), cmd # "destroy", w \notin {HdrType(c), TblType(c)}
       PROVE  Kept(c)' \/ InHand(c)'
  <2>1. /\ mem[c].n > 0
        /\ Has(rest, HdrType(c)) \/ (hdr[c].n = mem[c].n /\ hdr[c].crc = Sum(mem[c].n, mem[c].ent))
        /\ Has(rest, TblType(c)) \/ tbl[c] = mem[c].ent
        /\ ~Has(rest, ZeroType(c))
    BY <1>4, <1>10 DEF InHand
  <2>2. CASE over
    <3>1. Intact(c)
      BY <1>4, <2>1, <2>2 DEF Intact
    <3> QED BY <1>4, <1>5, <1>7, <2>2, <3>1 DEF Kept
  <2>3. CASE ~over
    <3>1. InHand(c)'
      BY <1>5, <2>1, <2>3 DEF InHand, Sum
    <3> QED BY <3>1
  <2> QED BY <2>2, <2>3
<1>11. ASSUME Rewriting PROVE \E c \in Copies : Kept(c)' \/ InHand(c)'
  <2>1. InHand("pri") /\ InHand("sec")
    BY <1>7, <1>11 DEF Rewriting
  <2>2. cmd # "destroy"
    <3>1. ~Has(todo, "pri_zero") /\ ~Has(todo, "sec_zero") /\ Has(todo, w)
      BY <1>3, <2>1 DEF InHand, ZeroType
    <3> QED BY <3>1 DEF SInv, Zeros
  <2>3. w \notin {HdrType("pri"), TblType("pri")} \/ w \notin {HdrType("sec"), TblType("sec")}
    BY DEF HdrType, TblType
  <2> QED BY <1>7, <1>10, <2>1, <2>2, <2>3
<1>12. ASSUME made, fails = 0 PROVE \E c \in Copies : Kept(c)' \/ InHand(c)'
  BY <1>9, <1>11, <1>12 DEF SInv, Safe
<1>13. fails' = 1 => fails = 0
  BY <1>2
<1>14. Safe'
  BY <1>1, <1>7, <1>8, <1>12, <1>13 DEF Safe, Single
<1>15. Keeping'
  <2>1. Counted'
    BY <1>4, <1>5 DEF SInv, Keeping, Counted
  <2>2. ZerosOnly'
    BY <1>4, <1>5 DEF SInv, Keeping, ZerosOnly
  <2>3. cmd' # "destroy"
    BY <1>5 DEF SInv, Zeros, rest
  <2>4. Agree'
    <3>1. Differ' = Differ
      BY <1>5 DEF Differ, Intact, Sum
    <3>2. forked' = (forked \/ (cmd' = "none" /\ Differ))
      BY DEF WriteFails
    <3> QED BY <2>3, <3>1, <3>2 DEF Agree
  <2> QED BY <1>1, <2>1, <2>2, <2>3, <2>4 DEF Keeping, Undoable, Restoring
<1> QED BY <1>1, <1>6, <1>14, <1>15 DEF SInv

\* The table being written is lost, the other one or both headers are not.
LEMMA CrashSafe ==
    ASSUME SInv, Crash
    PROVE  SInv'
<1>1. TInv'
  BY CrashTypes DEF SInv
<1>2. cmd' = "none" /\ todo' = <<>> /\ left' = {} /\ hdr' = hdr /\ made' = made /\ fails' = fails
  BY DEF Crash
<1>3. Rest' /\ Zeros'
  BY <1>2 DEF Rest, Zeros
<1>4. ASSUME NEW c \in Copies, Intact(c), todo = <<>> \/ Head(todo) # TblType(c)
      PROVE  Kept(c)'
  <2>1. tbl'[c] = tbl[c]
    <3>1. CASE tbl' = tbl
      BY <3>1
    <3>2. CASE tbl' # tbl
      <4>1. PICK t : /\ todo # <<>> /\ Head(todo) \in {"pri_tbl", "sec_tbl"}
                     /\ tbl' = [tbl EXCEPT ![CopyOf(Head(todo))] = t]
        BY <3>2 DEF Crash
      <4>2. CopyOf(Head(todo)) # c
        BY <1>4, <4>1 DEF CopyOf, TblType, Copies
      <4> QED BY <4>1, <4>2 DEF SInv, TInv, DiskT
    <3> QED BY <3>1, <3>2
  <2>2. Intact(c)'
    BY <1>2, <1>4, <2>1 DEF Intact, Sum
  <2>3. \A x : ~Has(todo', x)
    BY <1>2 DEF Has
  <2> QED BY <1>2, <2>2, <2>3 DEF Kept
<1>5. ASSUME made, fails = 0 PROVE \E c \in Copies : Kept(c)'
  <2>1. todo \in Seq(Writes)
    BY DEF SInv, TInv, CoreT
  <2>2. CASE \E c \in Copies : Kept(c)
    <3> PICK c \in Copies : Kept(c)
      BY <2>2
    <3>1. todo = <<>> \/ Head(todo) # TblType(c)
      BY <2>1, HasRest DEF Kept
    <3> QED BY <1>4, <3>1 DEF Kept
  <2>3. CASE Rewriting /\ (Has(todo, "pri_hdr") \/ Has(todo, "pri_tbl"))
    <3>1. todo # <<>> => Head(todo) # "sec_tbl"
      <4> SUFFICES ASSUME todo # <<>>, Head(todo) = "sec_tbl" PROVE FALSE
        OBVIOUS
      <4>1. /\ \A w : Has(todo, w) <=> w = Head(todo) \/ Has(Tail(todo), w)
            /\ Has(Tail(todo), "pri_hdr") \/ Has(Tail(todo), "pri_tbl") => Head(todo) \notin {"sec_hdr", "sec_tbl"}
        BY <2>1, <2>3, HasRest DEF Rewriting
      <4>2. ~Has(Tail(todo), "pri_hdr") /\ ~Has(Tail(todo), "pri_tbl")
        BY <4>1
      <4>3. ~Has(todo, "pri_hdr") /\ ~Has(todo, "pri_tbl")
        BY <4>1, <4>2
      <4> QED BY <2>3, <4>3
    <3>2. Intact("sec") /\ "sec" \in Copies /\ TblType("sec") = "sec_tbl"
      BY <2>3 DEF Rewriting, Copies, TblType
    <3> QED BY <1>4, <3>1, <3>2
  <2>4. CASE Rewriting /\ ~Has(todo, "pri_hdr") /\ ~Has(todo, "pri_tbl")
    <3>1. "pri" \in Copies /\ TblType("pri") = "pri_tbl" /\ HdrType("pri") = "pri_hdr"
      BY DEF Copies, TblType, HdrType
    <3>2. Intact("pri")
      BY <2>4, <3>1 DEF Rewriting, InHand, Intact
    <3>3. todo = <<>> \/ Head(todo) # TblType("pri")
      BY <2>1, <2>4, <3>1, HasRest
    <3> QED BY <1>4, <3>1, <3>2, <3>3
  <2> QED BY <1>5, <2>2, <2>3, <2>4 DEF SInv, Safe
<1>6. crashes' # 0
  BY DEF Crash, SInv, TInv, HistT
<1>7. Safe'
  BY <1>2, <1>5, <1>6 DEF Safe, Single
<1>8. Keeping'
  <2>1. \A x : ~Has(todo', x)
    BY <1>2 DEF Has
  <2>2. forked' = (forked \/ Differ')
    BY DEF Crash
  <2> QED BY <1>2, <2>1, <2>2 DEF Keeping, Counted, ZerosOnly, Agree, Undoable, Restoring
<1> QED BY <1>1, <1>3, <1>7, <1>8 DEF SInv

\* The primary copy moves to the new medium.
LEMMA GrowSafe ==
    ASSUME SInv, Grow
    PROVE  SInv'
<1>1. TInv'
  BY GrowTypes DEF SInv
<1>2. /\ Ready /\ Intact("pri") /\ hdr' = [hdr EXCEPT !["sec"] = NoHdr] /\ tbl' = [tbl EXCEPT !["sec"] = BlankTable]
      /\ cmd' = cmd /\ todo' = todo /\ left' = left
  BY DEF Grow, coreVars
<1>3. todo' = <<>> /\ left' = {}
  BY <1>2, AtRest
<1>4. hdr'["pri"] = hdr["pri"] /\ tbl'["pri"] = tbl["pri"]
  BY <1>2 DEF SInv, TInv, DiskT
<1>5. Intact("pri")'
  BY <1>2, <1>4 DEF Intact, Sum
<1>6. \A x : ~Has(todo', x)
  BY <1>3 DEF Has
<1>7. Kept("pri")'
  BY <1>3, <1>5, <1>6 DEF Kept
<1>8. Safe'
  BY <1>7 DEF Safe, Single, Copies
<1>9. Rest' /\ Zeros'
  BY <1>2, <1>3 DEF Rest, Zeros, Ready
<1>10. Keeping'
  <2>1. hdr'["sec"].n = 0
    BY <1>2, NoHdrIs DEF SInv, TInv, DiskT, Copies
  <2>2. ~Differ'
    BY <2>1 DEF Differ, Intact
  <2>3. cmd' = "none"
    BY <1>2 DEF Ready
  <2> QED BY <1>3, <1>6, <2>2, <2>3 DEF Keeping, Counted, ZerosOnly, Agree, Undoable, Restoring
<1> QED BY <1>1, <1>8, <1>9, <1>10 DEF SInv

\* Both copies are intact when the next entry is changed.
LEMMA EditNextSafe ==
    ASSUME SInv, EditNext
    PROVE  SInv'
<1>1. TInv' /\ todo' = BothWrites /\ UNCHANGED diskVars /\ \A c \in Copies : mem'[c].n = mem[c].n
  BY EditNextTypes DEF SInv
<1>2. left # {} /\ todo = <<>> /\ cmd' = cmd /\ made' = made /\ fails' = fails /\ crashes' = crashes
  BY DEF EditNext, histVars
<1>3. Rest' /\ Zeros'
  BY <1>2 DEF Rest, Zeros, SInv
<1>4. \A x : ~Has(todo, x)
  BY <1>2 DEF Has
<1>5. ASSUME made, fails = 0 PROVE Safe'
  <2>1. Rewriting
    BY <1>2, <1>5 DEF SInv, Safe, Kept
  <2>2. ASSUME NEW c \in Copies PROVE Intact(c) /\ mem'[c].n = hdr[c].n
    BY <1>1, <1>4, <2>1 DEF Rewriting, InHand, Intact
  <2> QED BY <1>1, <2>2, WritesBothIs, RewriteBegins DEF SInv
<1>6. ASSUME made, fails = 1, crashes = 0 PROVE Safe'
  <2>1. PICK c \in Copies : InHand(c)
    BY <1>2, <1>6 DEF SInv, Safe, Single, Kept
  <2>2. Has(todo', HdrType(c)) /\ Has(todo', TblType(c)) /\ ~Has(todo', ZeroType(c))
    BY <1>1, WritesBothIs DEF WritesBoth
  <2>3. InHand(c)'
    BY <1>1, <2>1, <2>2 DEF InHand
  <2> QED BY <1>2, <1>6, <2>3 DEF Safe, Single
<1>7. Safe'
  BY <1>2, <1>5, <1>6 DEF Safe, Single
<1>8. Keeping'
  <2>1. \A c \in Copies : mem'[c].n > 0
    BY <1>1, <1>2 DEF SInv, Keeping, Counted
  <2>2. Counted'
    BY <2>1 DEF Counted
  <2>3. ZerosOnly'
    BY <1>1, WritesBothIs DEF ZerosOnly, WritesBoth, ZeroType, Copies
  <2>4. cmd' \notin {"none", "destroy"} /\ ~(cmd' = "recover" /\ fails' = 0)
    BY <1>2 DEF SInv, Rest, Zeros, Keeping, Restoring
  <2> QED BY <2>2, <2>3, <2>4 DEF Keeping, Agree, Undoable, Restoring
<1> QED BY <1>1, <1>3, <1>7, <1>8 DEF SInv

-----------------------------------------------------------------------------
(* The commands, given between two of them *)

\* gpt_gethdr() finds both copies intact.
LEMMA BothIntact ==
    ASSUME DiskT, NEW nombr, gpt_open(nombr) # Null, gpt_gethdr(gpt_open(nombr))
    PROVE  \A c \in Copies : Intact(c)
<1> DEFINE m == gpt_open(nombr)
<1>1. \A c \in Copies : map_find(m, HdrType(c)) <=> Intact(c)
  BY OpenIs
<1> HIDE DEF m
<1>2. map_find(m, "pri_hdr") /\ map_find(m, "sec_hdr")
  BY DEF gpt_gethdr, m
<1> QED BY <1>1, <1>2 DEF Copies, HdrType

\* One entry of both tables is changed.
LEMMA PutBegins ==
    ASSUME SInv, Ready, \A c \in Copies : Intact(c), NEW i \in Ent, NEW v \in [Copies -> SlotT],
           NEW name \in Names \ {"none", "destroy", "recover"}, NEW q, WritesBoth(q),
           Start(name, PutBoth(BothCore, i, v), q)
    PROVE  SInv'
<1>1. DiskT
  BY DEF SInv, TInv
<1>2. BothCore \in [Copies -> CoreRec] /\ \A c \in Copies : BothCore[c].n = hdr[c].n
  BY <1>1, BothCoreIs
<1>3. /\ PutBoth(BothCore, i, v) \in [Copies -> CoreRec]
      /\ \A c \in Copies : PutBoth(BothCore, i, v)[c].n = BothCore[c].n
  BY <1>2, PutBothIs, Zenon
<1>4. cmd' = name /\ mem' = PutBoth(BothCore, i, v) /\ todo' = q /\ left' = {} /\ UNCHANGED diskVars /\ UNCHANGED histVars
  BY DEF Start
<1>5. mem' \in [Copies -> CoreRec] /\ \A c \in Copies : mem'[c].n = hdr[c].n
  BY <1>2, <1>3, <1>4, Zenon
<1>6. q \in Seq(Writes) /\ {} \subseteq Ent
  BY DEF WritesBoth
<1>7. creates' \in 0 .. MaxCreates /\ made' \in BOOLEAN /\ fails' = fails /\ crashes' = crashes /\ forked' = forked
  BY <1>4 DEF histVars, SInv, TInv, HistT
<1>8. TInv' /\ Rest' /\ Zeros' /\ Keeping'
  <2>1. Counted' /\ ZerosOnly'
    BY <1>4, <1>5 DEF Counted, ZerosOnly, Intact, WritesBoth, ZeroType, Copies
  <2> QED BY <1>4, <1>5, <1>6, <1>7, <2>1, Begins
<1>9. Safe'
  BY <1>4, <1>5, RewriteBegins DEF SInv
<1> QED BY <1>8, <1>9 DEF SInv

\* add keeps the invariant.
LEMMA AddSafe ==
    ASSUME SInv, Ready, NEW nombr, NEW e \in 0 .. N, NEW arg \in AddArgs, Add(gpt_open(nombr), e, arg)
    PROVE  SInv'
<1> DEFINE m == gpt_open(nombr)
           n == hdr["pri"].n
           s == map_alloc(m, arg.b, arg.s, arg.a)
           put(x) == [x EXCEPT !.used = TRUE, !.start = s.start, !.size = s.size, !.tag = IF @ > 1 THEN 0 ELSE @]
<1>1. DiskT /\ m # Null /\ gpt_gethdr(m) /\ s.size >= 0
  BY DEF Add, Opens, SInv, TInv
<1>2. PICK i \in 0 .. n - 1 : Start("add", InBoth(BothCore, i, put), BothWrites)
  BY DEF Add, FirstFree
<1>3. MapOK(m) /\ \A c \in Copies : Intact(c)
  BY <1>1, OpenIs, BothIntact
<1> HIDE DEF m
<1>4. arg.b \in Nat /\ arg.s \in Nat /\ arg.a \in Nat
  BY GeometryAssumption
<1>5. s.start \in Nat \ {1} /\ s.size \in Int
  BY <1>1, <1>3, <1>4, AllocIs
<1> HIDE DEF s
<1>6. i \in Ent
  <2>1. n \in 0 .. N /\ N \in Nat
    BY <1>1, GeometryAssumption DEF DiskT, Copies
  <2> QED BY <2>1 DEF Ent
<1> DEFINE v == [c \in Copies |-> put(BothCore[c].ent[i])]
<1>7. ASSUME NEW x \in SlotT PROVE put(x) \in SlotT
  <2>1. x.tag \in 0 .. 3 /\ (IF x.tag > 1 THEN 0 ELSE x.tag) \in 0 .. 3
    BY DEF SlotT
  <2> QED BY <1>5, <2>1 DEF SlotT
<1>8. InBoth(BothCore, i, put) = PutBoth(BothCore, i, v)
  BY DEF InBoth, PutBoth
<1>9. v \in [Copies -> SlotT]
  <2>1. BothCore \in [Copies -> CoreRec]
    BY <1>1, BothCoreIs
  <2>2. \A c \in Copies : BothCore[c].ent[i] \in SlotT
    BY <1>6, <2>1 DEF CoreRec, TableT
  <2> HIDE DEF put
  <2> QED BY <1>7, <2>2
<1>10. Start("add", PutBoth(BothCore, i, v), BothWrites)
  BY <1>2, <1>8
<1> HIDE DEF v
<1>11. "add" \in Names \ {"none", "destroy", "recover"}
  BY DEF Names
<1> QED BY <1>3, <1>6, <1>9, <1>10, <1>11, PutBegins, WritesBothIs, Zenon

\* resize keeps the invariant.
LEMMA ResizeSafe ==
    ASSUME SInv, Ready, NEW nombr, NEW e \in 1 .. N, NEW arg \in ResizeArgs, Resize(gpt_open(nombr), e, arg)
    PROVE  SInv'
<1> DEFINE m == gpt_open(nombr)
           k == SelectInSeq(m, LAMBDA s : s.index = e)
           size == map_resize(m, k, arg.s, arg.a)
           put(x) == [x EXCEPT !.size = m[k].start + size - x.start]
<1>1. DiskT /\ m # Null /\ gpt_gethdr(m) /\ k # 0 /\ Start("resize", InBoth(BothCore, e - 1, put), BothWrites)
  BY DEF Resize, Opens, SInv, TInv
<1>3. MapOK(m) /\ \A c \in Copies : Intact(c)
  BY <1>1, OpenIs, BothIntact
<1> HIDE DEF m
<1>4. arg.s \in Nat /\ arg.a \in Nat
  BY GeometryAssumption
<1>5. k \in 1 .. Len(m)
  <2> DEFINE I == {i \in 1 .. Len(m) : m[i].index = e}
  <2>1. k = IF I # {} THEN Min(I) ELSE 0
    BY DEF SelectInSeq
  <2>2. I \subseteq 1 .. Len(m) /\ I \subseteq Nat
    BY <1>3 DEF MapOK
  <2> HIDE DEF I, k
  <2>3. I # {} /\ k = Min(I)
    BY <1>1, <2>1
  <2> QED BY <2>2, <2>3, LeastOf
<1> HIDE DEF k
<1>6. size \in Int
  BY <1>3, <1>4, <1>5, ResizeIs
<1> HIDE DEF size
<1>7. m[k].start \in Int
  <2>1. m[k] \in SegRec
    BY <1>3, <1>5 DEF MapOK
  <2> QED BY <2>1 DEF SegRec
<1>8. e - 1 \in Ent
  BY GeometryAssumption DEF Ent
<1> DEFINE v == [c \in Copies |-> put(BothCore[c].ent[e - 1])]
<1>9. ASSUME NEW x \in SlotT PROVE put(x) \in SlotT
  <2>1. x.start \in Int
    BY DEF SlotT
  <2>2. m[k].start + size - x.start \in Int
    BY <1>6, <1>7, <2>1
  <2> DEFINE z == m[k].start + size - x.start
  <2> HIDE DEF z
  <2>3. [x EXCEPT !.size = z] \in SlotT
    BY <2>2 DEF SlotT, z
  <2> QED BY <2>3 DEF z
<1>10. InBoth(BothCore, e - 1, put) = PutBoth(BothCore, e - 1, v)
  BY DEF InBoth, PutBoth
<1>11. v \in [Copies -> SlotT]
  <2>1. BothCore \in [Copies -> CoreRec]
    BY <1>1, BothCoreIs
  <2>2. \A c \in Copies : BothCore[c].ent[e - 1] \in SlotT
    BY <1>8, <2>1 DEF CoreRec, TableT
  <2> HIDE DEF put
  <2> QED BY <1>9, <2>2
<1>12. Start("resize", PutBoth(BothCore, e - 1, v), BothWrites)
  BY <1>1, <1>10
<1> HIDE DEF v
<1>13. "resize" \in Names \ {"none", "destroy", "recover"}
  BY DEF Names
<1> QED BY <1>3, <1>8, <1>11, <1>12, <1>13, PutBegins, WritesBothIs, Zenon

\* The start of remove, label and rename keeps the invariant.
LEMMA EditAllSafe ==
    ASSUME SInv, Ready, NEW nombr, NEW name \in {"remove", "label", "rename"}, NEW S \in SUBSET Ent,
           EditAll(gpt_open(nombr), name, S)
    PROVE  SInv'
<1>1. /\ DiskT /\ gpt_open(nombr) # Null /\ gpt_gethdr(gpt_open(nombr))
      /\ cmd' = name /\ mem' = BothCore /\ left' = S /\ todo' = todo /\ UNCHANGED diskVars /\ UNCHANGED histVars
  BY DEF EditAll, Opens, SInv, TInv
<1>2. \A c \in Copies : Intact(c)
  BY <1>1, BothIntact
<1>3. /\ BothCore \in [Copies -> CoreRec]
      /\ \A c \in Copies : BothCore[c].n = hdr[c].n /\ BothCore[c].ent = tbl[c]
  BY <1>1, BothCoreIs
<1>4. todo' = <<>> /\ todo' \in Seq(Writes)
  BY <1>1, AtRest
<1>5. creates' \in 0 .. MaxCreates /\ made' \in BOOLEAN /\ fails' = fails /\ crashes' = crashes /\ forked' = forked
  BY <1>1 DEF histVars, SInv, TInv, HistT
<1>6. name \in Names \ {"none", "destroy", "recover"}
  BY DEF Names
<1>7. TInv' /\ Rest' /\ Zeros' /\ Keeping'
  <2>1. \A c \in Copies : mem'[c].n > 0
    BY <1>1, <1>2, <1>3 DEF Intact
  <2>2. Counted' /\ ZerosOnly'
    BY <1>4, <2>1 DEF Counted, ZerosOnly, Has
  <2> QED BY <1>1, <1>3, <1>4, <1>5, <1>6, <2>2, Begins
<1>8. \A x : ~Has(todo', x)
  BY <1>4 DEF Has
<1>9. PriFirst(todo')
  BY <1>4 DEF PriFirst
<1>10. hdr' = hdr /\ tbl' = tbl
  BY <1>1 DEF diskVars
<1>11. ASSUME NEW c \in Copies
       PROVE  /\ mem'[c].n > 0 /\ hdr'[c].n = mem'[c].n /\ hdr'[c].crc = Sum(mem'[c].n, mem'[c].ent)
              /\ tbl'[c] = mem'[c].ent
  BY <1>1, <1>2, <1>3, <1>10 DEF Intact
<1>12. Rewriting'
  BY <1>8, <1>9, <1>11 DEF Rewriting, InHand, Sum
<1> QED BY <1>7, <1>12 DEF SInv, Safe, Single, Rewriting, Copies

\* Nothing of the GPT is written.
LEMMA QuietBegins ==
    ASSUME SInv, Ready, NEW name \in Names \ {"none", "destroy", "recover"}, NEW core \in [Copies -> CoreRec], NEW q,
           \A c \in Copies : Untouched(q, c), Start(name, core, q)
    PROVE  SInv'
<1>1. cmd' = name /\ mem' = core /\ todo' = q /\ left' = {} /\ UNCHANGED diskVars /\ UNCHANGED histVars
  BY DEF Start
<1>2. q \in Seq(Writes) /\ {} \subseteq Ent
  BY DEF Untouched, Copies
<1>3. creates' \in 0 .. MaxCreates /\ made' = made /\ made' \in BOOLEAN /\ fails' = fails /\ crashes' = crashes /\ forked' = forked
  BY <1>1 DEF histVars, SInv, TInv, HistT
<1>4. TInv' /\ Rest' /\ Zeros' /\ Keeping'
  <2>1. Counted' /\ ZerosOnly'
    BY <1>1 DEF Counted, ZerosOnly, Untouched, ZeroType, Copies
  <2> QED BY <1>1, <1>2, <1>3, <2>1, Begins
<1>5. ASSUME Alive PROVE Safe'
  <2> PICK c \in Copies : Intact(c)
    BY <1>5, AtRest
  <2> QED BY <1>1, KeepBegins DEF SInv
<1>6. Safe'
  BY <1>3, <1>5 DEF Safe, Single, Alive
<1> QED BY <1>4, <1>6 DEF SInv

\* The elements of a sequence with one more.
LEMMA HasAppend ==
    ASSUME NEW X, NEW a \in Seq(X), NEW x \in X
    PROVE  Append(a, x) \in Seq(X) /\ \A h : Has(Append(a, x), h) => Has(a, h) \/ h = x
<1> DEFINE r == Append(a, x)
<1>1. r \in Seq(X) /\ Len(r) = Len(a) + 1 /\ Len(a) \in Nat /\ r[Len(a) + 1] = x /\ \A k \in 1 .. Len(a) : r[k] = a[k]
  OBVIOUS
<1> HIDE DEF r
<1>2. ASSUME NEW h, Has(r, h) PROVE Has(a, h) \/ h = x
  <2> PICK k \in 1 .. Len(r) : r[k] = h
    BY <1>2 DEF Has
  <2>1. k \in 1 .. Len(a) \/ k = Len(a) + 1
    BY <1>1
  <2> QED BY <1>1, <2>1 DEF Has
<1> QED BY <1>1, <1>2 DEF r

\* Boot code and images are no writes to a copy.
LEMMA QuietIs ==
    ASSUME NEW c \in Copies
    PROVE  /\ Untouched(<<"pmbr">>, c)
           /\ Untouched(Append(<<"pmbr">>, "image"), c) /\ Untouched(Append(<<>>, "image"), c)
<1>1. "image" \in Writes /\ "pmbr" \in Writes /\ <<>> \in Seq(Writes) /\ \A h : ~Has(<<>>, h)
  BY DEF Writes, Has
<1>2. <<"pmbr">> \in Seq(Writes) /\ \A x : Has(<<"pmbr">>, x) <=> x = "pmbr"
  BY <1>1, OneIs, Zenon
<1>3. \A w \in {HdrType(c), TblType(c), ZeroType(c)} : w # "pmbr" /\ w # "image"
  BY DEF HdrType, TblType, ZeroType
<1>4. /\ Append(<<"pmbr">>, "image") \in Seq(Writes)
      /\ \A h : Has(Append(<<"pmbr">>, "image"), h) => Has(<<"pmbr">>, h) \/ h = "image"
  BY <1>1, <1>2, HasAppend, Zenon
<1>5. /\ Append(<<>>, "image") \in Seq(Writes)
      /\ \A h : Has(Append(<<>>, "image"), h) => Has(<<>>, h) \/ h = "image"
  BY <1>1, HasAppend, Zenon
<1> QED BY <1>1, <1>2, <1>3, <1>4, <1>5, Zenon DEF Untouched

\* boot and efi keep the invariant, their partition found or added.
LEMMA InstallSafe ==
    ASSUME SInv, Ready, NEW nombr, NEW name \in {"installboot", "installefi"}, NEW z \in BootSizes,
           NEW code \in {<<>>, <<"pmbr">>}, Install(gpt_open(nombr), name, z, code)
    PROVE  SInv'
<1> DEFINE m == gpt_open(nombr)
           n == hdr["pri"].n
           t == tbl["pri"]
           there == gpt_lookup(name, n, t)
           s == map_alloc(m, 0, z, 0)
           put(x) == [x EXCEPT !.used = TRUE, !.start = s.start, !.size = s.size, !.tag = TypeOf(name)]
<1>1. DiskT /\ m # Null /\ mem \in [Copies -> CoreRec] /\ name \in Names \ {"none", "destroy", "recover"}
  BY DEF Install, Opens, SInv, TInv, CoreT, Names
<1>2. BothCore \in [Copies -> CoreRec]
  BY <1>1, BothCoreIs
<1>3. CASE Start(name, BothCore, Append(code, "image"))
  <2>1. \A c \in Copies : Untouched(Append(code, "image"), c)
    BY QuietIs
  <2> QED BY <1>1, <1>2, <1>3, <2>1, QuietBegins, Zenon
<1>4. CASE code # <<>> /\ Start(name, mem, code)
  <2>1. \A c \in Copies : Untouched(code, c)
    BY <1>4, QuietIs
  <2> QED BY <1>1, <1>4, <2>1, QuietBegins, Zenon
<1>5. ASSUME NEW i \in FirstFree(n, t), gpt_gethdr(m), s.size >= 0,
             Start(name, InBoth(BothCore, i, put), code \o BothWrites \o <<"image">>)
      PROVE  SInv'
  <2>1. MapOK(m) /\ \A c \in Copies : Intact(c)
    BY <1>1, <1>5, OpenIs, BothIntact
  <2> HIDE DEF m
  <2>2. z \in Nat /\ 0 \in Nat
    BY GeometryAssumption
  <2>3. s.start \in Nat \ {1} /\ s.size \in Int
    <3>1. s.size >= 0
      BY <1>5
    <3>2. \A b \in Nat, a \in Nat : map_alloc(m, b, z, a).size >= 0 =>
             map_alloc(m, b, z, a).start \in Nat \ {1} /\ map_alloc(m, b, z, a).size \in Int
      BY <2>1, <2>2, AllocIs
    <3> QED BY <2>2, <3>1, <3>2, Zenon
  <2> HIDE DEF s
  <2>4. i \in Ent
    <3>1. n \in 0 .. N /\ N \in Nat /\ i \in 0 .. n - 1
      BY <1>1, <1>5, GeometryAssumption DEF DiskT, Copies, FirstFree
    <3> QED BY <3>1 DEF Ent
  <2> DEFINE v == [c \in Copies |-> put(BothCore[c].ent[i])]
  <2>5. ASSUME NEW x \in SlotT PROVE put(x) \in SlotT
    <3>1. TypeOf(name) \in 0 .. 3
      BY DEF TypeOf
    <3> QED BY <2>3, <3>1 DEF SlotT
  <2>6. InBoth(BothCore, i, put) = PutBoth(BothCore, i, v)
    BY DEF InBoth, PutBoth
  <2>7. v \in [Copies -> SlotT]
    <3>1. \A c \in Copies : BothCore[c].ent[i] \in SlotT
      BY <1>2, <2>4 DEF CoreRec, TableT
    <3> HIDE DEF put
    <3> QED BY <2>5, <3>1
  <2> DEFINE q == code \o BothWrites \o <<"image">>
  <2>8. Start(name, PutBoth(BothCore, i, v), q)
    BY <1>5, <2>6
  <2>9. WritesBoth(q)
    BY WritesBothIs, Zenon
  <2> HIDE DEF v, q
  <2> QED BY <1>1, <2>1, <2>4, <2>7, <2>8, <2>9, PutBegins, Zenon
<1> HIDE DEF m, s
<1>6. \/ Start(name, BothCore, Append(code, "image"))
      \/ \E i \in FirstFree(n, t) : /\ gpt_gethdr(m) /\ s.size >= 0
                                    /\ Start(name, InBoth(BothCore, i, put), code \o BothWrites \o <<"image">>)
      \/ code # <<>> /\ Start(name, mem, code)
  BY DEF Install, m, s
<1> QED BY <1>3, <1>4, <1>5, <1>6

\* The same for the two commands by name.
LEMMA InstallbootSafe ==
    ASSUME SInv, Ready, NEW nombr, NEW z \in BootSizes,
           installboot(gpt_open(nombr), z) \/ installefi(gpt_open(nombr), z)
    PROVE  SInv'
<1> DEFINE m == gpt_open(nombr)
<1>1. Install(m, "installboot", z, <<"pmbr">>) \/ Install(m, "installefi", z, <<>>)
  BY DEF installboot, installefi
<1>2. "installboot" \in {"installboot", "installefi"} /\ "installefi" \in {"installboot", "installefi"}
      /\ <<>> \in {<<>>, <<"pmbr">>} /\ <<"pmbr">> \in {<<>>, <<"pmbr">>}
  OBVIOUS
<1> QED BY <1>1, <1>2, InstallSafe, Zenon

\* recover of the protective MBR keeps the invariant.
LEMMA RecoverPmbrSafe ==
    ASSUME SInv, Ready, NEW nombr, NEW force, RecoverPmbr(gpt_open(nombr), force)
    PROVE  SInv'
<1>1. Start("pmbr", mem, <<"pmbr">>) /\ mem \in [Copies -> CoreRec] /\ "pmbr" \in Names \ {"none", "destroy", "recover"}
  BY DEF RecoverPmbr, SInv, TInv, CoreT, Names
<1>2. \A c \in Copies : Untouched(<<"pmbr">>, c)
  BY QuietIs
<1> QED BY <1>1, <1>2, QuietBegins, Zenon

\* recover -f writes the primary header with another address of the backup.
LEMMA RecoverMediaSafe ==
    ASSUME SInv, Ready, NEW nombr, RecoverMedia(gpt_open(nombr))
    PROVE  SInv'
<1> DEFINE core == [BothCore EXCEPT !["pri"].alt = Last1]
<1>1. DiskT /\ Intact("pri") /\ Start("media", core, <<"pri_hdr">>)
  BY DEF RecoverMedia, SInv, TInv
<1>2. BothCore \in [Copies -> CoreRec] /\ BothCore["pri"].n = hdr["pri"].n /\ BothCore["pri"].ent = tbl["pri"]
  BY <1>1, BothCoreIs DEF Copies
<1>3. Last1 \in 0 .. Last1
  BY <1>1, MbrIs DEF Last1
<1>4. core \in [Copies -> CoreRec] /\ core["pri"].n = hdr["pri"].n /\ core["pri"].ent = tbl["pri"]
  <2> DEFINE x == [BothCore["pri"] EXCEPT !.alt = Last1]
  <2>1. x \in CoreRec /\ x.n = BothCore["pri"].n /\ x.ent = BothCore["pri"].ent
    BY <1>2, <1>3 DEF CoreRec, Copies
  <2>2. core = [BothCore EXCEPT !["pri"] = x]
    OBVIOUS
  <2> HIDE DEF x
  <2> QED BY <1>2, <2>1, <2>2 DEF Copies
<1> HIDE DEF core
<1>5. cmd' = "media" /\ mem' = core /\ todo' = <<"pri_hdr">> /\ left' = {} /\ UNCHANGED diskVars /\ UNCHANGED histVars
  BY <1>1 DEF Start
<1>6. <<"pri_hdr">> \in Seq(Writes) /\ {} \subseteq Ent /\ "media" \in Names \ {"none", "destroy", "recover"}
  BY DEF Writes, Names
<1>7. creates' \in 0 .. MaxCreates /\ made' \in BOOLEAN /\ fails' = fails /\ crashes' = crashes /\ forked' = forked
  BY <1>5 DEF histVars, SInv, TInv, HistT
<1>8. TInv' /\ Rest' /\ Zeros' /\ Keeping'
  <2>1. mem'["pri"].n > 0
    BY <1>1, <1>4, <1>5 DEF Intact
  <2>2. ~Has(todo', "sec_hdr") /\ ~Has(todo', "pri_zero")
    BY <1>5 DEF Has
  <2>3. Counted' /\ ZerosOnly'
    BY <1>5, <2>1, <2>2 DEF Counted, ZerosOnly, HdrType, Copies
  <2> QED BY <1>4, <1>5, <1>6, <1>7, <2>3, Begins
<1>9. ~Has(todo', TblType("pri")) /\ ~Has(todo', ZeroType("pri"))
  BY <1>5 DEF Has, TblType, ZeroType
<1>10. hdr' = hdr /\ tbl' = tbl
  BY <1>5 DEF diskVars
<1>11. Intact("pri")'
  BY <1>1, <1>10 DEF Intact, Sum
<1>12. Kept("pri")'
  BY <1>4, <1>5, <1>9, <1>10, <1>11 DEF Kept
<1> QED BY <1>8, <1>12 DEF SInv, Safe, Single, Copies

\* What recover writes of one copy leaves the other alone.
LEMMA RestoreIs ==
    ASSUME DiskT, NEW c \in Copies, NEW n, NEW m
    PROVE  /\ Untouched(Restore(c, n, m), Other(c))
           /\ Restore(c, n, m) \in {<<>>, <<TblType(c)>>, <<TblType(c), HdrType(c)>>}
           /\ ~Has(Restore(c, n, m), "pri_zero")
<1> DEFINE q1 == <<TblType(c)>>
           q2 == <<TblType(c), HdrType(c)>>
<1>1. TblSeg(c, n).type = TblType(c) /\ HdrSeg(c).type = HdrType(c)
  BY DEF TblSeg, HdrSeg, Seg, TblType, HdrType
<1>2. Restore(c, n, m) \in {<<>>, q1, q2}
  BY <1>1, Zenon DEF Restore
<1>3. <<>> \in Seq(Writes) /\ q1 \in Seq(Writes) /\ q2 \in Seq(Writes)
  <2>1. TblType(c) \in Writes /\ HdrType(c) \in Writes
    BY DEF TblType, HdrType, Writes
  <2> QED BY <2>1
<1>4. \A w \in {HdrType(Other(c)), TblType(Other(c)), ZeroType(Other(c))} : w # TblType(c) /\ w # HdrType(c)
  BY DEF HdrType, TblType, ZeroType, Other, Copies
<1>5. \A w : w # TblType(c) /\ w # HdrType(c) => ~Has(<<>>, w) /\ ~Has(q1, w) /\ ~Has(q2, w)
  BY DEF Has
<1>6. "pri_zero" # TblType(c) /\ "pri_zero" # HdrType(c)
  BY DEF TblType, HdrType
<1>7. ~Has(Restore(c, n, m), "pri_zero")
  <2> HIDE DEF q1, q2
  <2> QED BY <1>2, <1>5, <1>6, Zenon
<1>8. Untouched(Restore(c, n, m), Other(c))
  <2> HIDE DEF q1, q2
  <2> QED BY <1>2, <1>3, <1>4, <1>5, Zenon DEF Untouched
<1> QED BY <1>2, <1>7, <1>8

\* recover writes to the copy that is lost.
LEMMA RecoverSafe ==
    ASSUME SInv, Ready, NEW nombr, NEW force, Recover(gpt_open(nombr), force)
    PROVE  SInv'
<1> DEFINE m == gpt_open(nombr)
<1>1. PICK c \in Copies :
        /\ Intact(Other(c))
        /\ mem' = [mem EXCEPT ![c] = [Core(Other(c)) EXCEPT !.alt = IF c = "pri" THEN Last1 ELSE 1]]
        /\ todo' = Restore(c, hdr[Other(c)].n, m)
  BY DEF Recover
<1>2. cmd' = "recover" /\ todo' # <<>> /\ left' = {} /\ UNCHANGED diskVars /\ UNCHANGED histVars
  BY DEF Recover
<1> HIDE DEF m
<1>3. DiskT /\ Other(c) \in Copies /\ mem \in [Copies -> CoreRec]
  BY DEF SInv, TInv, CoreT, Copies, Other
<1>4. mem' \in [Copies -> CoreRec] /\ mem'[c].n = hdr[Other(c)].n /\ mem'[c].ent = tbl[Other(c)]
  <2>1. Last1 \in 0 .. Last1 /\ 1 \in 0 .. Last1
    BY <1>3, MbrIs DEF Last1
  <2>2. Core(Other(c)) \in CoreRec
    BY <1>3 DEF Core, CoreRec, DiskT
  <2> DEFINE a == IF c = "pri" THEN Last1 ELSE 1
  <2>3. a \in 0 .. Last1
    BY <2>1
  <2> HIDE DEF a
  <2> DEFINE x == [Core(Other(c)) EXCEPT !.alt = a]
  <2>4. x \in CoreRec /\ x.n = hdr[Other(c)].n /\ x.ent = tbl[Other(c)]
    BY <2>2, <2>3 DEF CoreRec, Core
  <2>5. mem' = [mem EXCEPT ![c] = x]
    BY <1>1 DEF a
  <2> HIDE DEF x
  <2> QED BY <1>3, <2>4, <2>5
<1>5. Untouched(todo', Other(c))
  BY <1>1, <1>3, RestoreIs, Zenon
<1>r. todo' \in {<<TblType(c)>>, <<TblType(c), HdrType(c)>>} /\ ~Has(todo', "pri_zero")
  <2>1. todo' \in {<<>>, <<TblType(c)>>, <<TblType(c), HdrType(c)>>} /\ ~Has(todo', "pri_zero")
    BY <1>1, <1>3, RestoreIs, Zenon
  <2> QED BY <1>2, <2>1, Zenon
<1>k. Counted' /\ ZerosOnly'
  <2>1. mem'[c].n > 0
    BY <1>1, <1>4 DEF Intact
  <2>2. ~Has(todo', HdrType(Other(c)))
    BY <1>5 DEF Untouched
  <2> QED BY <1>2, <1>r, <2>1, <2>2 DEF Counted, ZerosOnly, Copies, Other
<1>6. todo' \in Seq(Writes) /\ {} \subseteq Ent /\ "recover" \in Names \ {"none", "destroy"}
  BY <1>5 DEF Untouched, Names
<1>7. creates' \in 0 .. MaxCreates /\ made' \in BOOLEAN /\ fails' = fails /\ crashes' = crashes /\ forked' = forked
  BY <1>2 DEF histVars, SInv, TInv, HistT
<1>8. TInv' /\ Rest' /\ Zeros'
  BY <1>2, <1>4, <1>6, <1>7, <1>k, Begins
<1>9. Safe'
  BY <1>1, <1>2, <1>3, <1>5, KeepBegins DEF SInv
<1>10. Keeping'
  <2>1. hdr' = hdr /\ tbl' = tbl
    BY <1>2 DEF diskVars
  <2>2. Intact(Other(c))'
    BY <1>1, <2>1 DEF Intact, Sum
  <2>3. Restores(c)'
    BY <1>4, <1>r, <2>1, <2>2 DEF Restores
  <2> QED BY <1>2, <1>k, <2>3 DEF Keeping, Agree, Undoable, Restoring
<1> QED BY <1>8, <1>9, <1>10 DEF SInv

\* destroy -r keeps a backup that is intact.
LEMMA DestroySafe ==
    ASSUME SInv, Ready, NEW nombr, NEW recoverable \in BOOLEAN, Destroy(gpt_open(nombr), recoverable)
    PROVE  SInv'
<1> DEFINE m == gpt_open(nombr)
           w1 == IF map_find(m, "pri_hdr") THEN <<"pri_zero">> ELSE <<>>
           w2 == IF ~recoverable /\ map_find(m, "sec_hdr") THEN <<"sec_zero">> ELSE <<>>
<1>1. /\ m # Null /\ (recoverable => map_find(m, "sec_hdr")) /\ cmd' = "destroy" /\ todo' = w1 \o w2 /\ todo' # <<>>
      /\ made' = (made /\ recoverable) /\ UNCHANGED diskVars
      /\ mem' = mem /\ left' = left /\ creates' = creates /\ fails' = fails /\ crashes' = crashes /\ forked' = forked
  BY DEF Destroy, Opens
<1>2. DiskT /\ left = {} /\ mem \in [Copies -> CoreRec] /\ creates \in 0 .. MaxCreates /\ made' \in BOOLEAN
  BY <1>1, AtRest DEF SInv, TInv, CoreT, HistT
<1>3. \A c \in Copies : map_find(m, HdrType(c)) <=> Intact(c)
  BY <1>1, <1>2, OpenIs
<1> HIDE DEF m
<1>4. <<"pri_zero">> \in Seq(Writes) /\ <<"sec_zero">> \in Seq(Writes) /\ <<>> \in Seq(Writes)
  BY DEF Writes
<1>5. w1 \in Seq(Writes) /\ w2 \in Seq(Writes)
  BY <1>4, Zenon
<1> HIDE DEF w1, w2
<1>6. todo' \in Seq(Writes) /\ left' \subseteq Ent /\ "destroy" \in Names \ {"none"}
  BY <1>1, <1>2, <1>5 DEF Names
<1>z. Zeros'
  <2>1. \A x : ~Has(<<>>, x) /\ (Has(<<"pri_zero">>, x) => x = "pri_zero") /\ (Has(<<"sec_zero">>, x) => x = "sec_zero")
    BY DEF Has
  <2>2. \A x : (Has(w1, x) => x = "pri_zero") /\ (Has(w2, x) => x = "sec_zero")
    BY <2>1, Zenon DEF w1, w2
  <2>3. \A x : Has(w1 \o w2, x) => Has(w1, x) \/ Has(w2, x)
    BY <1>5, HasConcat, Zenon
  <2> QED BY <1>1, <1>2, <2>2, <2>3 DEF Zeros, Copies
<1>k. Counted' /\ ZerosOnly'
  BY <1>1, <1>2, <1>z DEF Zeros, Counted, ZerosOnly, HdrType
<1>7. TInv' /\ Rest'
  BY <1>1, <1>2, <1>6, <1>k, Begins
<1>8. ASSUME made' PROVE Safe'
  <2>1. recoverable /\ "sec" \in Copies /\ HdrType("sec") = "sec_hdr"
    BY <1>1, <1>8 DEF Copies, HdrType
  <2>2. Intact("sec")
    BY <1>1, <1>3, <2>1, Zenon
  <2>3. w2 = <<>> /\ w1 \in {<<>>, <<"pri_zero">>}
    BY <2>1 DEF w1, w2
  <2>4. todo' \in {<<>>, <<"pri_zero">>}
    BY <1>1, <1>5, <2>3
  <2>5. \A w \in {HdrType("sec"), TblType("sec"), ZeroType("sec")} : ~Has(<<>>, w) /\ ~Has(<<"pri_zero">>, w)
    BY DEF Has, HdrType, TblType, ZeroType
  <2>6. Untouched(todo', "sec")
    BY <1>6, <2>4, <2>5, Zenon DEF Untouched
  <2> QED BY <1>1, <1>2, <2>1, <2>2, <2>6, KeepBegins DEF SInv
<1>9. Safe'
  BY <1>8 DEF Safe, Single
<1>10. Undoable'
  <2> SUFFICES ASSUME made' PROVE Intact("pri")' /\ Intact("sec")' /\ todo' = <<"pri_zero">>
    BY <1>1, <1>2 DEF Undoable
  <2>1. recoverable /\ "pri" \in Copies /\ HdrType("pri") = "pri_hdr" /\ "sec" \in Copies /\ HdrType("sec") = "sec_hdr"
    BY <1>1 DEF Copies, HdrType
  <2>2. Intact("sec")
    BY <1>1, <1>3, <2>1, Zenon
  <2>3. w2 = <<>>
    BY <2>1 DEF w2
  <2>4. todo' = w1
    BY <1>1, <1>5, <2>3
  <2>5. map_find(m, "pri_hdr") /\ todo' = <<"pri_zero">>
    BY <1>1, <2>4 DEF w1
  <2>6. Intact("pri")
    BY <1>3, <2>1, <2>5, Zenon
  <2> QED BY <1>1, <1>2, <2>1, <2>2, <2>5, <2>6, DiskKept
<1>11. Agree'
  <2>1. ~forked => ~Differ
    BY DEF SInv, Keeping, Agree, Ready
  <2>2. Differ' = Differ
    BY <1>1 DEF Differ, Intact, Sum, diskVars
  <2> QED BY <1>1, <2>1, <2>2 DEF Agree
<1>12. Keeping'
  BY <1>1, <1>k, <1>10, <1>11 DEF Keeping, Restoring
<1> QED BY <1>7, <1>9, <1>z, <1>12 DEF SInv

\* The core of create and migrate: some entries in both copies.
LEMMA NewCoreIs ==
    ASSUME DiskT, creates' \in 0 .. MaxCreates, NEW b \in Nat \ {0, 1}, NEW p \in 1 .. N, NEW e \in Seq(Extent)
    PROVE  NewCore(b, p, e) \in [Copies -> CoreRec] /\ \A c \in Copies : NewCore(b, p, e)[c].n > 0
<1> DEFINE k == (b - 1) * EPS
           n == IF k > p THEN p ELSE k
           slot(i) == IF i >= n THEN Blank
                      ELSE IF i >= Len(e) THEN [Blank EXCEPT !.uuid = creates']
                      ELSE [uuid |-> creates', used |-> TRUE, start |-> e[i + 1].start,
                            size |-> e[i + 1].size, tag |-> 0]
           ent == [i \in Ent |-> slot(i)]
<1>1. k \in Nat /\ k > 0
  BY GeometryAssumption
<1> HIDE DEF k
<1>2. n \in 0 .. N /\ n > 0
  BY <1>1, GeometryAssumption
<1> HIDE DEF n
<1>3. ASSUME NEW i \in Ent PROVE slot(i) \in SlotT
  <2>1. [Blank EXCEPT !.uuid = creates'] \in SlotT /\ Blank \in SlotT
    BY BlankIs DEF SlotT
  <2>2. ASSUME ~(i >= Len(e))
        PROVE  [uuid |-> creates', used |-> TRUE, start |-> e[i + 1].start, size |-> e[i + 1].size, tag |-> 0] \in SlotT
    <3>1. e[i + 1] \in Extent
      BY <2>2 DEF Ent
    <3>2. e[i + 1].start \in Nat \ {1} /\ e[i + 1].size \in Int
      BY <3>1 DEF Extent
    <3> QED BY <3>2 DEF SlotT
  <2> QED BY <2>1, <2>2, Zenon
<1> HIDE DEF slot
<1>4. ent \in TableT
  BY <1>3 DEF TableT
<1>5. NewCore(b, p, e) = [c \in Copies |-> [n |-> n, alt |-> IF c = "pri" THEN Last1 ELSE 1, ent |-> ent]]
  BY DEF NewCore, n, k, slot
<1> HIDE DEF ent
<1>6. \A c \in Copies : (IF c = "pri" THEN Last1 ELSE 1) \in 0 .. Last1
  BY MbrIs DEF Last1
<1>7. \A c \in Copies : [n |-> n, alt |-> IF c = "pri" THEN Last1 ELSE 1, ent |-> ent] \in CoreRec
  BY <1>2, <1>4, <1>6 DEF CoreRec
<1> QED BY <1>2, <1>5, <1>7

\* create and migrate find no GPT: there is none to lose.
LEMMA NoGpt ==
    ASSUME SInv, Ready, NEW nombr, gpt_open(nombr) # Null,
           ~map_find(gpt_open(nombr), "pri_hdr"), ~map_find(gpt_open(nombr), "sec_hdr")
    PROVE  ~Alive
<1> DEFINE m == gpt_open(nombr)
<1>1. \A c \in Copies : map_find(m, HdrType(c)) <=> Intact(c)
  BY OpenIs DEF SInv, TInv
<1>2. ~map_find(m, "pri_hdr") /\ ~map_find(m, "sec_hdr")
  OBVIOUS
<1> HIDE DEF m
<1>3. \A c \in Copies : ~Intact(c)
  BY <1>1, <1>2 DEF Copies, HdrType
<1> QED BY <1>3, AtRest

\* The map without the MBR.
LEMMA RetypedIs ==
    ASSUME NEW m, MapOK(m)
    PROVE  MapOK([k \in DOMAIN m |-> IF m[k].type = "mbr" THEN [m[k] EXCEPT !.type = "unused"] ELSE m[k]])
<1> DEFINE s(k) == IF m[k].type = "mbr" THEN [m[k] EXCEPT !.type = "unused"] ELSE m[k]
           r == [k \in DOMAIN m |-> s(k)]
<1>1. m \in Seq(SegRec) /\ Len(m) \in Nat /\ DOMAIN m = 1 .. Len(m) /\ Len(m) > 0 /\ m[Len(m)].size > 0
  BY DEF MapOK
<1>2. ASSUME NEW k \in 1 .. Len(m) PROVE s(k) \in SegRec /\ s(k).size = m[k].size
  <2>1. m[k] \in SegRec
    BY <1>1
  <2> QED BY <2>1 DEF SegRec, Kinds
<1> HIDE DEF s
<1>3. r \in [1 .. Len(m) -> SegRec] /\ r[Len(m)] = s(Len(m)) /\ Len(m) \in 1 .. Len(m)
  BY <1>1, <1>2
<1>4. r \in Seq(SegRec) /\ Len(r) = Len(m)
  <2> HIDE DEF r
  <2> QED BY <1>1, <1>3, FunctionSeq
<1>5. MapOK(r)
  <2> HIDE DEF r
  <2> QED BY <1>1, <1>2, <1>3, <1>4 DEF MapOK
<1> QED BY <1>5 DEF s

\* create keeps the invariant.
LEMMA CreateSafe ==
    ASSUME SInv, Ready, NEW nombr, NEW force, NEW priOnly, NEW p \in Parts,
           Create(gpt_open(nombr), force, priOnly, p)
    PROVE  SInv'
<1> DEFINE m == gpt_open(nombr)
           m1 == [k \in DOMAIN m |-> IF m[k].type = "mbr" THEN [m[k] EXCEPT !.type = "unused"] ELSE m[k]]
           m2 == map_add(m1, Seg(0, 1, "pmbr", 0))
           b  == GptBlocks(m2, p)
           w1 == IF map_find(m, "pmbr") THEN <<>> ELSE <<"pmbr">>
           w2 == IF b = 0 THEN <<>>
                 ELSE IF priOnly THEN <<"pri_hdr", "pri_tbl">> ELSE BothWrites
<1>1. /\ m # Null /\ ~map_find(m, "pri_hdr") /\ ~map_find(m, "sec_hdr") /\ m2 # Null
      /\ creates < MaxCreates /\ creates' = creates + 1 /\ cmd' = "create"
      /\ mem' = (IF b = 0 THEN mem ELSE NewCore(b, p, <<>>)) /\ todo' = w1 \o w2 /\ left' = {}
      /\ UNCHANGED diskVars /\ fails' = fails /\ crashes' = crashes /\ made' = made /\ forked' = forked
  BY DEF Create, Opens
<1>2. ~Alive
  BY <1>1, NoGpt
<1>3. DiskT /\ MapOK(m)
  BY <1>1, OpenIs DEF SInv, TInv
<1> HIDE DEF m
<1>4. MapOK(m1)
  BY <1>3, RetypedIs
<1> HIDE DEF m1
<1>5. MapOK(m2)
  <2> DEFINE s == Seg(0, 1, "pmbr", 0)
  <2>1. s \in SegRec
    BY DEF Seg, SegRec, Kinds
  <2> SUFFICES MapOK(map_add(m1, s))
    OBVIOUS
  <2>2. map_add(m1, s) # Null
    BY <1>1
  <2> HIDE DEF s
  <2> QED BY <1>4, <2>1, <2>2, AddIs DEF AddedTo
<1> HIDE DEF m2
<1>6. p \in 1 .. N
  BY GeometryAssumption
<1>7. b \in Nat /\ b # 1
  BY <1>3, <1>5, <1>6, GptBlocksIs
<1> HIDE DEF b
<1>8. creates' \in 0 .. MaxCreates /\ made' \in BOOLEAN
  BY <1>1, BoundAssumption DEF SInv, TInv, HistT
<1>9. mem' \in [Copies -> CoreRec] /\ (b # 0 => \A c \in Copies : mem'[c].n > 0)
  <2>1. mem \in [Copies -> CoreRec]
    BY DEF SInv, TInv, CoreT
  <2>2. ASSUME b # 0 PROVE NewCore(b, p, <<>>) \in [Copies -> CoreRec] /\ \A c \in Copies : NewCore(b, p, <<>>)[c].n > 0
    <3>1. b \in Nat \ {0, 1} /\ <<>> \in Seq(Extent)
      BY <1>7, <2>2
    <3> QED BY <1>3, <1>6, <1>8, <3>1, NewCoreIs, Zenon
  <2> QED BY <1>1, <2>1, <2>2, Zenon
<1>10. w1 \in Seq(Writes) /\ w2 \in Seq(Writes)
  <2>1. BothWrites \in Seq(Writes) /\ <<"pri_hdr", "pri_tbl">> \in Seq(Writes) /\ <<>> \in Seq(Writes) /\ <<"pmbr">> \in Seq(Writes)
    BY DEF BothWrites, Writes
  <2> QED BY <2>1, Zenon
<1>k. /\ \A x : Has(w1, x) => x = "pmbr"
      /\ b = 0 => \A x : ~Has(w2, x)
      /\ ~Has(w2, "pri_zero")
  <2>1. \A x : ~Has(<<>>, x) /\ (Has(<<"pmbr">>, x) => x = "pmbr")
    BY DEF Has
  <2>2. ~Has(<<"pri_hdr", "pri_tbl">>, "pri_zero") /\ ~Has(BothWrites, "pri_zero")
    BY DEF Has, BothWrites
  <2> QED BY <2>1, <2>2, Zenon
<1> HIDE DEF w1, w2
<1>l. Counted' /\ ZerosOnly'
  <2>1. \A x : Has(todo', x) => Has(w1, x) \/ Has(w2, x)
    BY <1>1, <1>10, HasConcat, Zenon
  <2>2. \A c \in Copies : HdrType(c) # "pmbr"
    BY DEF HdrType
  <2> QED BY <1>1, <1>9, <1>k, <2>1, <2>2 DEF Counted, ZerosOnly
<1>11. todo' \in Seq(Writes) /\ left' \subseteq Ent /\ cmd' \in Names \ {"none", "destroy", "recover"}
  BY <1>1, <1>10 DEF Names
<1>12. TInv' /\ Rest' /\ Zeros' /\ Keeping'
  BY <1>1, <1>8, <1>9, <1>11, <1>l, Begins
<1> QED BY <1>1, <1>2, <1>12 DEF SInv, Safe, Single, Alive

\* migrate keeps the invariant.
LEMMA MigrateSafe ==
    ASSUME SInv, Ready, NEW nombr, NEW force, NEW slice, NEW p \in Parts,
           Migrate(gpt_open(nombr), force, slice, p)
    PROVE  SInv'
<1> DEFINE m == gpt_open(nombr)
           b == GptBlocks(m, p)
           e == Extents(slice)
<1>1. /\ m # Null /\ ~map_find(m, "pri_hdr") /\ ~map_find(m, "sec_hdr") /\ b # 0
      /\ creates < MaxCreates /\ creates' = creates + 1 /\ cmd' = "migrate"
      /\ mem' = NewCore(b, p, e) /\ todo' = MigrateWrites /\ left' = {}
      /\ UNCHANGED diskVars /\ fails' = fails /\ crashes' = crashes /\ made' = made /\ forked' = forked
  BY DEF Migrate, Opens
<1>2. ~Alive
  BY <1>1, NoGpt
<1>3. DiskT /\ MapOK(m)
  BY <1>1, OpenIs DEF SInv, TInv
<1>4. e \in Seq(Extent)
  BY <1>3, ExtentsIs
<1> HIDE DEF m, e
<1>5. p \in 1 .. N
  BY GeometryAssumption
<1>6. b \in Nat /\ b # 1
  BY <1>3, <1>5, GptBlocksIs
<1> HIDE DEF b
<1>7. b \in Nat \ {0, 1}
  BY <1>1, <1>6
<1>8. creates' \in 0 .. MaxCreates /\ made' \in BOOLEAN
  BY <1>1, BoundAssumption DEF SInv, TInv, HistT
<1>9. mem' \in [Copies -> CoreRec] /\ \A c \in Copies : mem'[c].n > 0
  BY <1>1, <1>3, <1>4, <1>5, <1>7, <1>8, NewCoreIs, Zenon
<1>10. MigrateWrites \in Seq(Writes)
  <2>1. BothWrites \in Seq(Writes) /\ <<"pmbr">> \in Seq(Writes)
    BY DEF BothWrites, Writes
  <2> QED BY <2>1 DEF MigrateWrites
<1>11. todo' \in Seq(Writes) /\ left' \subseteq Ent /\ cmd' \in Names \ {"none", "destroy", "recover"}
  BY <1>1, <1>10 DEF Names
<1>k. Counted' /\ ZerosOnly'
  <2>1. ~Has(<<"pmbr">>, "pri_zero") /\ ~Has(BothWrites, "pri_zero")
    BY DEF Has, BothWrites
  <2>2. BothWrites \in Seq(Writes) /\ <<"pmbr">> \in Seq(Writes)
    BY DEF BothWrites, Writes
  <2>3. ~Has(MigrateWrites, "pri_zero")
    BY <2>1, <2>2, HasConcat, Zenon DEF MigrateWrites
  <2> QED BY <1>1, <1>9, <2>3 DEF Counted, ZerosOnly
<1>12. TInv' /\ Rest' /\ Zeros' /\ Keeping'
  BY <1>1, <1>8, <1>9, <1>11, <1>k, Begins
<1> QED BY <1>1, <1>2, <1>12 DEF SInv, Safe, Single, Alive

-----------------------------------------------------------------------------
(* Theorems *)

\* A disk without a GPT has the invariant.
LEMMA InitSafe == Init => SInv
<1> SUFFICES ASSUME Init PROVE SInv
  OBVIOUS
<1>1. /\ media \in Media /\ mbr \in Mbrs /\ hdr = [c \in Copies |-> NoHdr] /\ tbl = [c \in Copies |-> BlankTable]
      /\ cmd = "none" /\ todo = <<>> /\ left = {} /\ mem = NoCore /\ creates = 0 /\ fails = 0 /\ crashes = 0
      /\ made = FALSE /\ forked = FALSE
  BY DEF Init
<1>2. \A c \in Copies : hdr[c] = NoHdr
  BY <1>1
<1>3. Last1 \in Nat /\ N \in Nat
  BY <1>1, GeometryAssumption DEF Last1
<1>4. ASSUME NEW c \in Copies
      PROVE  hdr[c].n \in 0 .. N /\ hdr[c].alt \in 0 .. Last1 /\ hdr[c].crc \in [0 .. hdr[c].n - 1 -> SlotT]
  <2>1. hdr[c].crc \in [0 .. hdr[c].n - 1 -> SlotT] /\ hdr[c].n = 0 /\ hdr[c].alt = 0
    BY <1>2, NoHdrIs, Zenon
  <2> QED BY <1>3, <2>1
<1>5. DiskT
  BY <1>1, <1>4, BlankIs DEF DiskT
<1>6. CoreT
  <2>1. <<>> \in Seq(Writes) /\ "none" \in Names /\ {} \subseteq Ent
    BY DEF Names
  <2> QED BY <1>1, <1>5, <2>1, NoCoreIs DEF CoreT
<1>7. HistT
  <2>1. 0 \in 0 .. MaxCreates /\ 0 \in 0 .. MaxFails /\ 0 \in 0 .. MaxCrashes
    BY BoundAssumption
  <2>2. FALSE \in BOOLEAN
    OBVIOUS
  <2> QED BY <1>1, <2>1, <2>2, Zenon DEF HistT
<1>8. Keeping
  <2>1. \A x : ~Has(todo, x)
    BY <1>1 DEF Has
  <2>2. "pri" \in Copies /\ hdr["pri"].n = 0
    BY <1>2, NoHdrIs, Zenon DEF Copies
  <2>3. ~Differ
    BY <2>2 DEF Differ, Intact
  <2> QED BY <1>1, <2>1, <2>3 DEF Keeping, Counted, ZerosOnly, Agree, Undoable, Restoring
<1> QED BY <1>1, <1>5, <1>6, <1>7, <1>8 DEF SInv, TInv, Rest, Zeros, Safe, Single

\* Every command keeps the invariant.
LEMMA CommandSafe ==
    ASSUME SInv, Ready, NEW nombr,
           LET m == gpt_open(nombr)
           IN \/ \E e \in 0 .. N, arg \in AddArgs : Add(m, e, arg)
              \/ \E e \in 1 .. N, arg \in ResizeArgs : Resize(m, e, arg)
              \/ \E name \in {"remove", "label", "rename"}, S \in SUBSET Ent : EditAll(m, name, S)
              \/ \E size \in BootSizes : installboot(m, size) \/ installefi(m, size)
              \/ \E force \in BOOLEAN : Recover(m, force) \/ RecoverPmbr(m, force)
              \/ RecoverMedia(m)
              \/ \E force, priOnly \in BOOLEAN, p \in Parts : Create(m, force, priOnly, p)
              \/ \E force, slice \in BOOLEAN, p \in Parts : Migrate(m, force, slice, p)
              \/ \E recoverable \in BOOLEAN : Destroy(m, recoverable)
    PROVE  SInv'
<1> DEFINE m == gpt_open(nombr)
<1>1. CASE \E e \in 0 .. N, arg \in AddArgs : Add(m, e, arg)
  BY <1>1, AddSafe
<1>2. CASE \E e \in 1 .. N, arg \in ResizeArgs : Resize(m, e, arg)
  BY <1>2, ResizeSafe
<1>3. CASE \E name \in {"remove", "label", "rename"}, S \in SUBSET Ent : EditAll(m, name, S)
  BY <1>3, EditAllSafe
<1>4. CASE \E size \in BootSizes : installboot(m, size) \/ installefi(m, size)
  BY <1>4, InstallbootSafe
<1>5. CASE \E force \in BOOLEAN : Recover(m, force) \/ RecoverPmbr(m, force)
  BY <1>5, RecoverSafe, RecoverPmbrSafe
<1>6. CASE RecoverMedia(m)
  BY <1>6, RecoverMediaSafe
<1>7. CASE \E force, priOnly \in BOOLEAN, p \in Parts : Create(m, force, priOnly, p)
  BY <1>7, CreateSafe
<1>8. CASE \E force, slice \in BOOLEAN, p \in Parts : Migrate(m, force, slice, p)
  BY <1>8, MigrateSafe
<1>9. CASE \E recoverable \in BOOLEAN : Destroy(m, recoverable)
  BY <1>9, DestroySafe
<1> HIDE DEF m
<1>10. \/ \E e \in 0 .. N, arg \in AddArgs : Add(m, e, arg)
       \/ \E e \in 1 .. N, arg \in ResizeArgs : Resize(m, e, arg)
       \/ \E name \in {"remove", "label", "rename"}, S \in SUBSET Ent : EditAll(m, name, S)
       \/ \E size \in BootSizes : installboot(m, size) \/ installefi(m, size)
       \/ \E force \in BOOLEAN : Recover(m, force) \/ RecoverPmbr(m, force)
       \/ RecoverMedia(m)
       \/ \E force, priOnly \in BOOLEAN, p \in Parts : Create(m, force, priOnly, p)
       \/ \E force, slice \in BOOLEAN, p \in Parts : Migrate(m, force, slice, p)
       \/ \E recoverable \in BOOLEAN : Destroy(m, recoverable)
  BY Zenon DEF m
<1> QED BY <1>1, <1>2, <1>3, <1>4, <1>5, <1>6, <1>7, <1>8, <1>9, <1>10, Zenon

\* A step of nothing keeps the invariant.
LEMMA StutterSafe ==
    ASSUME SInv, UNCHANGED vars
    PROVE  SInv'
<1>1. UNCHANGED diskVars /\ UNCHANGED coreVars /\ UNCHANGED histVars
  BY DEF vars
<1>2. DiskT' /\ CoreRec' = CoreRec /\ \A c \in Copies : Intact(c)' <=> Intact(c)
  BY <1>1, DiskKept DEF SInv, TInv
<1>3. TInv'
  BY <1>1, <1>2 DEF SInv, TInv, CoreT, HistT, coreVars, histVars
<1>4. todo' = todo /\ left' = left /\ mem' = mem /\ cmd' = cmd /\ hdr' = hdr /\ tbl' = tbl /\ made' = made /\ fails' = fails /\ crashes' = crashes /\ forked' = forked
  BY <1>1 DEF diskVars, coreVars, histVars
<1>5. ASSUME NEW c \in Copies, Kept(c) PROVE Kept(c)'
  BY <1>2, <1>4, <1>5 DEF Kept
<1>6. ASSUME NEW c \in Copies, InHand(c) PROVE InHand(c)'
  BY <1>4, <1>6 DEF InHand, Sum
<1>7. Rewriting => Rewriting'
  BY <1>2, <1>4, <1>6 DEF Rewriting, Copies
<1>8. Rest' /\ Zeros'
  BY <1>4 DEF SInv, Rest, Zeros
<1>9. Safe'
  BY <1>4, <1>5, <1>6, <1>7 DEF SInv, Safe, Single
<1>10. ASSUME NEW c \in Copies, Restores(c) PROVE Restores(c)'
  <2>1. Other(c) \in Copies
    BY DEF Other, Copies
  <2> QED BY <1>2, <1>4, <1>10, <2>1 DEF Restores
<1>11. Restoring'
  BY <1>4, <1>10 DEF SInv, Keeping, Restoring
<1>12. Agree' /\ Undoable'
  BY <1>2, <1>4 DEF SInv, Keeping, Agree, Undoable, Differ, Copies
<1>13. Counted' /\ ZerosOnly'
  BY <1>4 DEF SInv, Keeping, Counted, ZerosOnly
<1> QED BY <1>3, <1>8, <1>9, <1>11, <1>12, <1>13 DEF SInv, Keeping

\* Every step keeps the invariant.
LEMMA NextSafe == SInv /\ [Next]_vars => SInv'
<1> SUFFICES ASSUME SInv, [Next]_vars PROVE SInv'
  OBVIOUS
<1>1. CASE Write
  BY <1>1, WriteSafe
<1>2. CASE WriteFails
  BY <1>2, WriteFailsSafe
<1>3. CASE Crash
  BY <1>3, CrashSafe
<1>4. CASE EditNext
  BY <1>4, EditNextSafe
<1>5. CASE Grow
  BY <1>5, GrowSafe
<1>6. CASE UNCHANGED vars
  BY <1>6, StutterSafe
<1>7. CASE ~(Write \/ WriteFails \/ Crash \/ EditNext \/ Grow) /\ Next
  BY <1>7, CommandSafe, Zenon DEF Next
<1> QED BY <1>1, <1>2, <1>3, <1>4, <1>5, <1>6, <1>7

\* The invariant holds in every reachable state.
LEMMA SpecSafe == Spec => []SInv
BY InitSafe, NextSafe, PTL DEF Spec

\* Header, table and core have their types, whatever commands are given, and
\* however they are interrupted.
THEOREM TypeCorrect == Spec => []TypeOK
<1>1. SInv => TypeOK
  <2> SUFFICES ASSUME SInv PROVE TypeOK
    OBVIOUS
  <2>1. \A x \in SlotT : x \in Slot
    BY DEF SlotT, Slot
  <2>2. \A t \in TableT : t \in Table
    BY <2>1 DEF TableT, Table
  <2>3. \A x \in CoreRec : x \in [n : 0 .. N, alt : 0 .. Last1, ent : Table]
    BY <2>2 DEF CoreRec
  <2>4. mem \in [Copies -> [n : 0 .. N, alt : 0 .. Last1, ent : Table]]
    BY <2>3 DEF SInv, TInv, CoreT
  <2>5. tbl \in [Copies -> Table]
    BY <2>2 DEF SInv, TInv, DiskT
  <2>6. ASSUME NEW c \in Copies PROVE hdr[c].crc \in [0 .. hdr[c].n - 1 -> Slot]
    <3>1. hdr[c].crc \in [0 .. hdr[c].n - 1 -> SlotT]
      BY DEF SInv, TInv, DiskT
    <3> QED BY <2>1, <3>1
  <2> QED BY <2>4, <2>5, <2>6 DEF TypeOK, SInv, TInv, DiskT, CoreT, HistT
<1> QED BY <1>1, SpecSafe, PTL

\* The invariant leaves a copy to recover from.
LEMMA SafeSurvives == SInv => SurvivesCrashes
<1> SUFFICES ASSUME SInv, made, fails = 0 PROVE \E c \in Copies : Intact(c)
  BY DEF SurvivesCrashes
<1>1. CASE \E c \in Copies : Kept(c)
  BY <1>1 DEF Kept
<1>2. CASE Rewriting /\ (Has(todo, "pri_hdr") \/ Has(todo, "pri_tbl"))
  BY <1>2 DEF Rewriting, Copies
<1>3. CASE Rewriting /\ ~Has(todo, "pri_hdr") /\ ~Has(todo, "pri_tbl")
  <2>1. "pri" \in Copies /\ TblType("pri") = "pri_tbl" /\ HdrType("pri") = "pri_hdr"
    BY DEF Copies, TblType, HdrType
  <2>2. Intact("pri")
    BY <1>3, <2>1 DEF Rewriting, InHand, Intact
  <2> QED BY <2>1, <2>2
<1> QED BY <1>1, <1>2, <1>3 DEF SInv, Safe

\* However often fgdisk is interrupted, and wherever, one copy of the GPT is
\* there to recover from.
THEOREM CrashesSurvived == Spec => []SurvivesCrashes
BY SafeSurvives, SpecSafe, PTL

\* A single write that fails, which nearly all commands overlook, costs at most
\* one copy of the GPT.
THEOREM FailureSurvived == Spec => []SurvivesFailure
<1>1. SInv => SurvivesFailure
  BY AtRest DEF SurvivesFailure, Alive
<1> QED BY <1>1, SpecSafe, PTL

\* ptable_gptread() takes the backup copy when the primary one is lost, and so
\* the loader finds the table fgdisk could recover.
THEOREM LoaderSurvives == Spec => []LoaderFinds
<1>1. SurvivesCrashes => LoaderFinds
  <2> SUFFICES ASSUME made, fails = 0, NEW c \in Copies, Intact(c) PROVE ptable_open # PNone
    BY DEF SurvivesCrashes, LoaderFinds
  <2>1. \A x : [type |-> "gpt", parts |-> x] # PNone /\ [type |-> "mbr", parts |-> x] # PNone
    BY DEF PNone
  <2>2. CASE mbr.kind = "mbr"
    BY <2>1, <2>2 DEF ptable_open
  <2>3. CASE mbr.kind # "mbr"
    <3>1. ptable_open = ptable_gptread
      BY <2>3 DEF ptable_open
    <3>2. CASE Intact("pri")
      <4>1. CheckHdr("pri") /\ CheckTbl("pri")
        BY <3>2 DEF Intact, CheckHdr, CheckTbl
      <4> QED BY <2>1, <3>1, <4>1 DEF ptable_gptread
    <3>3. CASE ~Intact("pri")
      <4>1. CheckHdr("sec") /\ CheckTbl("sec") /\ ~(CheckHdr("pri") /\ CheckTbl("pri"))
        BY <3>3 DEF Intact, CheckHdr, CheckTbl, Copies
      <4> QED BY <2>1, <3>1, <4>1 DEF ptable_gptread
    <3> QED BY <3>2, <3>3
  <2> QED BY <2>2, <2>3
<1> QED BY <1>1, CrashesSurvived, PTL
\* Only writes change the headers while a command runs.
LEMMA HeaderChanges ==
    ASSUME SInv, [Next]_vars, hdr' # hdr
    PROVE  Write \/ Grow
<1>1. CASE WriteFails \/ Crash \/ EditNext
  BY <1>1 DEF WriteFails, Crash, EditNext, diskVars
<1>2. CASE UNCHANGED vars
  BY <1>2 DEF vars, diskVars
<1>3. CASE Next /\ ~(Write \/ WriteFails \/ Crash \/ EditNext \/ Grow)
  <2>1. ASSUME NEW m, \/ \E e \in 0 .. N, arg \in AddArgs : Add(m, e, arg)
                      \/ \E e \in 1 .. N, arg \in ResizeArgs : Resize(m, e, arg)
                      \/ \E name \in {"remove", "label", "rename"}, S \in SUBSET Ent : EditAll(m, name, S)
                      \/ \E size \in BootSizes : installboot(m, size) \/ installefi(m, size)
                      \/ \E force \in BOOLEAN : Recover(m, force) \/ RecoverPmbr(m, force)
                      \/ RecoverMedia(m)
                      \/ \E force, priOnly \in BOOLEAN, p \in Parts : Create(m, force, priOnly, p)
                      \/ \E force, slice \in BOOLEAN, p \in Parts : Migrate(m, force, slice, p)
                      \/ \E recoverable \in BOOLEAN : Destroy(m, recoverable)
        PROVE  UNCHANGED diskVars
    <3>1. \A name, core, q : Start(name, core, q) => UNCHANGED diskVars
      BY DEF Start
    <3>2. ASSUME NEW name, NEW size, NEW code, Install(m, name, size, code) PROVE UNCHANGED diskVars
      BY <3>1, <3>2, Zenon DEF Install
    <3>3. CASE \E e \in 0 .. N, arg \in AddArgs : Add(m, e, arg)
      BY <3>1, <3>3, Zenon DEF Add
    <3>4. CASE \E e \in 1 .. N, arg \in ResizeArgs : Resize(m, e, arg)
      BY <3>1, <3>4, Zenon DEF Resize
    <3>5. CASE \E name \in {"remove", "label", "rename"}, S \in SUBSET Ent : EditAll(m, name, S)
      BY <3>5 DEF EditAll
    <3>6. CASE \E size \in BootSizes : installboot(m, size) \/ installefi(m, size)
      BY <3>2, <3>6, Zenon DEF installboot, installefi
    <3>7. CASE \E force \in BOOLEAN : Recover(m, force) \/ RecoverPmbr(m, force)
      BY <3>1, <3>7, Zenon DEF Recover, RecoverPmbr
    <3>8. CASE RecoverMedia(m)
      BY <3>1, <3>8, Zenon DEF RecoverMedia
    <3>9. CASE \E force, priOnly \in BOOLEAN, p \in Parts : Create(m, force, priOnly, p)
      BY <3>9, Zenon DEF Create
    <3>10. CASE \E force, slice \in BOOLEAN, p \in Parts : Migrate(m, force, slice, p)
      BY <3>10, Zenon DEF Migrate
    <3>11. CASE \E recoverable \in BOOLEAN : Destroy(m, recoverable)
      BY <3>11, Zenon DEF Destroy
    <3> QED BY <2>1, <3>3, <3>4, <3>5, <3>6, <3>7, <3>8, <3>9, <3>10, <3>11, Zenon
  <2>2. UNCHANGED diskVars
    BY <1>3, <2>1, Zenon DEF Next
  <2> QED BY <2>2 DEF diskVars
<1> QED BY <1>1, <1>2, <1>3

\* recover, however often it was interrupted before, ends with two copies that
\* are intact and the same.
THEOREM RecoverCorrect == Spec => RecoverRestores
<1>1. SInv /\ [Next]_vars /\ cmd = "recover" /\ hdr' # hdr /\ fails = 0 =>
        (\A c \in Copies : Intact(c)') /\ hdr'["pri"].crc = hdr'["sec"].crc
  <2> SUFFICES ASSUME SInv, [Next]_vars, cmd = "recover", hdr' # hdr, fails = 0
               PROVE  (\A c \in Copies : Intact(c)') /\ hdr'["pri"].crc = hdr'["sec"].crc
    OBVIOUS
  <2>1. Write
    BY HeaderChanges DEF Grow, Ready
  <2>2. PICK c \in Copies : Restores(c)
    BY DEF SInv, Keeping, Restoring
  <2> DEFINE d == Other(c)
             w == Head(todo)
  <2>3. w \in Writes /\ Put(w) /\ d \in Copies /\ w \in {TblType(c), HdrType(c)}
    <3>1. w \in Writes /\ Put(w)
      BY <2>1, RestIs DEF Write, SInv, TInv, CoreT
    <3>2. d \in Copies
      BY DEF Other, Copies
    <3> QED BY <2>2, <3>1, <3>2 DEF Restores
  <2>4. w # TblType(c)
    <3> SUFFICES ASSUME w = TblType(c) PROVE hdr' = hdr
      OBVIOUS
    <3>1. w \in {"pri_tbl", "sec_tbl"}
      BY DEF TblType
    <3> HIDE DEF w
    <3> QED BY <2>3, <3>1 DEF Put
  <2>5. w = HdrType(c) /\ tbl[c] = tbl[d]
    BY <2>2, <2>3, <2>4 DEF Restores
  <2> HIDE DEF w
  <2>6. tbl'[c] = tbl[c] /\ hdr'[c].n = mem[c].n /\ hdr'[c].crc = Sum(mem[c].n, mem[c].ent)
    BY <2>3, <2>5, PutEffect DEF SInv
  <2>7. w \notin {HdrType(d), TblType(d), ZeroType(d)}
    BY <2>5 DEF HdrType, TblType, ZeroType, Other, Copies
  <2>8. hdr'[d] = hdr[d] /\ tbl'[d] = tbl[d]
    <3> HIDE DEF d
    <3> QED BY <2>3, <2>7, PutEffect DEF SInv
  <2>9. Intact(d) /\ mem[c].n = hdr[d].n /\ mem[c].ent = tbl[d]
    BY <2>2 DEF Restores
  <2>10. {c, d} = Copies
    BY DEF Other, Copies
  <2> HIDE DEF d
  <2>11. Intact(c)' /\ Intact(d)' /\ hdr'[c].crc = hdr'[d].crc
    BY <2>5, <2>6, <2>8, <2>9 DEF Intact
  <2> QED BY <2>10, <2>11 DEF Copies
<1> QED BY <1>1, SpecSafe, PTL DEF Spec, RecoverRestores

\* destroy -r erases the primary header of a table that the backup copy holds
\* as well, unless two intact copies that differ were left behind before.
THEOREM DestroyCorrect == Spec => RecoverableDestroy
<1>1. SInv /\ [Next]_vars /\ ~forked /\ made' /\ hdr["pri"] # NoHdr /\ hdr'["pri"] = NoHdr =>
        Intact("sec") /\ hdr["sec"].crc = hdr["pri"].crc
  <2> SUFFICES ASSUME SInv, [Next]_vars, ~forked, made', hdr["pri"] # NoHdr, hdr'["pri"] = NoHdr
               PROVE  Intact("sec") /\ hdr["sec"].crc = hdr["pri"].crc
    OBVIOUS
  <2> DEFINE w == Head(todo)
  <2>0. hdr' # hdr /\ "pri" \in Copies
    BY DEF Copies
  <2>1. Write
    <3>1. ~Grow
      BY DEF Grow, SInv, TInv, DiskT, Copies
    <3> QED BY <2>0, <3>1, HeaderChanges
  <2>2. w \in Writes /\ Put(w) /\ Has(todo, w)
    BY <2>1, RestIs, HasRest DEF Write, SInv, TInv, CoreT
  <2> HIDE DEF w
  <2>3. hdr'["pri"].n = 0 /\ ~Intact("pri")'
    BY NoHdrIs DEF Intact
  <2>4. w # "pri_hdr"
    <3> SUFFICES ASSUME w = "pri_hdr" PROVE FALSE
      OBVIOUS
    <3>1. w = HdrType("pri")
      BY DEF HdrType
    <3>2. mem["pri"].n > 0
      BY <2>0, <2>2, <3>1 DEF SInv, Keeping, Counted
    <3>3. hdr'["pri"].n = mem["pri"].n
      BY <2>0, <2>2, <3>1, PutEffect, Zenon DEF SInv
    <3> QED BY <2>3, <3>2, <3>3
  <2>5. w = "pri_zero"
    <3>1. w \in {"pri_hdr", "pri_tbl", "pri_zero"} \/ hdr'["pri"] = hdr["pri"]
      BY <2>0, <2>2 DEF Put, CopyOf, SInv, TInv, DiskT
    <3>2. w = "pri_tbl" => hdr' = hdr
      BY <2>2 DEF Put
    <3> QED BY <2>0, <2>4, <3>1, <3>2
  <2>6. cmd = "destroy" /\ made
    BY <2>1, <2>2, <2>3, <2>5 DEF SInv, Keeping, ZerosOnly, Write, Continue
  <2> QED BY <2>6 DEF SInv, Keeping, Agree, Undoable, Differ
<1> QED BY <1>1, SpecSafe, PTL DEF Spec, RecoverableDestroy

-----------------------------------------------------------------------------
(***************************************************************************)
(* The segments of a map lie one behind the other and fill the medium.     *)
(***************************************************************************)
Tiles(m, z) ==
    /\ m \in Seq(SegRec) /\ Len(m) > 0
    /\ m[1].start = 0 /\ m[Len(m)].start + m[Len(m)].size = z
    /\ \A i \in 1 .. Len(m) - 1 : m[i + 1].start = m[i].start + m[i].size
    /\ \A i \in 1 .. Len(m) : m[i].size >= 0 /\ (m[i].type = "unused" => m[i].size > 0)

\* A segment of a map that fills the medium ends before the next ones begin.
LEMMA TilesSorted ==
    ASSUME NEW m, NEW z, Tiles(m, z), NEW i \in 1 .. Len(m), NEW j \in 1 .. Len(m), i < j
    PROVE  End(m[i]) <= m[j].start
<1> DEFINE Bad == {x \in 1 .. Len(m) : i < x /\ ~(End(m[i]) <= m[x].start)}
<1>0. Len(m) \in Nat /\ \A x \in 1 .. Len(m) : m[x].start \in Int /\ m[x].size \in Int
  <2>1. \A x \in 1 .. Len(m) : m[x] \in SegRec
    BY DEF Tiles
  <2>2. Len(m) \in Nat
    BY DEF Tiles
  <2> QED BY <2>1, <2>2 DEF SegRec
<1> SUFFICES ASSUME Bad # {} PROVE FALSE
  OBVIOUS
<1>1. Bad \subseteq Nat
  BY <1>0
<1> HIDE DEF Bad
<1>2. PICK x : x = Min(Bad)
  OBVIOUS
<1>3. x \in Bad /\ \A y \in Bad : x <= y
  BY <1>1, <1>2, LeastOf
<1>4. x \in 1 .. Len(m) /\ i < x /\ ~(End(m[i]) <= m[x].start)
  BY <1>3 DEF Bad
<1>5. x - 1 \in 1 .. Len(m) - 1 /\ x - 1 \in 1 .. Len(m) /\ i <= x - 1
  BY <1>0, <1>4
<1>6. m[x].start = m[x - 1].start + m[x - 1].size /\ m[x - 1].size >= 0
  <2>1. m[(x - 1) + 1].start = m[x - 1].start + m[x - 1].size
    BY <1>5 DEF Tiles
  <2>2. (x - 1) + 1 = x
    BY <1>4
  <2> QED BY <1>5, <2>1, <2>2 DEF Tiles
<1>7. x - 1 # i
  BY <1>0, <1>4, <1>5, <1>6 DEF End
<1>8. x - 1 \notin Bad
  BY <1>3, <1>4
<1>9. End(m[i]) <= m[x - 1].start
  BY <1>5, <1>7, <1>8 DEF Bad
<1> QED BY SMTT(40), <1>0, <1>4, <1>5, <1>6, <1>9 DEF End

\* Two sequences one behind the other, by position.
LEMMA ConcatAt ==
    ASSUME NEW X, NEW a \in Seq(X), NEW b \in Seq(X)
    PROVE  /\ a \o b \in Seq(X) /\ Len(a \o b) = Len(a) + Len(b)
           /\ Len(a) \in Nat /\ Len(b) \in Nat
           /\ \A i \in 1 .. Len(a) : (a \o b)[i] = a[i]
           /\ \A i \in 1 .. Len(b) : (a \o b)[Len(a) + i] = b[i]
<1>1. a \o b \in Seq(X) /\ Len(a \o b) = Len(a) + Len(b) /\ Len(a) \in Nat /\ Len(b) \in Nat
  OBVIOUS
<1>2. \A i \in 1 .. Len(a) + Len(b) : (a \o b)[i] = IF i <= Len(a) THEN a[i] ELSE b[i - Len(a)]
  OBVIOUS
<1>3. ASSUME NEW i \in 1 .. Len(b) PROVE (a \o b)[Len(a) + i] = b[i]
  <2>1. Len(a) + i \in 1 .. Len(a) + Len(b) /\ ~(Len(a) + i <= Len(a)) /\ (Len(a) + i) - Len(a) = i
    BY <1>1
  <2> QED BY <1>2, <2>1
<1>4. ASSUME NEW i \in 1 .. Len(a) PROVE (a \o b)[i] = a[i]
  <2>1. i \in 1 .. Len(a) + Len(b) /\ i <= Len(a)
    BY <1>1
  <2> QED BY <1>2, <2>1
<1> QED BY <1>1, <1>3, <1>4

\* The optional remainder of a segment.
Opt(x) == IF x.size > 0 THEN <<x>> ELSE <<>>
Num(x) == IF x.size > 0 THEN 1 ELSE 0

\* Where everything is after map_add() has split segment k.
Split(m, k, before, s, after, r) ==
    /\ r \in Seq(SegRec) /\ Len(r) = Len(m) + Num(before) + Num(after)
    /\ \A i \in 1 .. k - 1 : r[i] = m[i]
    /\ Num(before) = 1 => r[k] = before
    /\ r[k + Num(before)] = s
    /\ Num(after) = 1 => r[k + Num(before) + 1] = after
    /\ \A i \in k + 1 .. Len(m) : r[i + Num(before) + Num(after)] = m[i]

\* The sequence map_add() puts together.
LEMMA SplitIs ==
    ASSUME NEW m \in Seq(SegRec), NEW k \in 1 .. Len(m), NEW before \in SegRec,
           NEW s \in SegRec, NEW after \in SegRec
    PROVE  Split(m, k, before, s, after,
                 SubSeq(m, 1, k - 1) \o Opt(before) \o <<s>> \o Opt(after) \o SubSeq(m, k + 1, Len(m)))
<1> DEFINE u == SubSeq(m, 1, k - 1)
           v == SubSeq(m, k + 1, Len(m))
           B == Opt(before)
           A == Opt(after)
           q1 == u \o B
           q2 == q1 \o <<s>>
           q3 == q2 \o A
           q4 == q3 \o v
           nb == Num(before)
           na == Num(after)
<1>0. Len(m) \in Nat /\ k \in Nat /\ k >= 1 /\ k <= Len(m) /\ nb \in 0 .. 1 /\ na \in 0 .. 1
  BY DEF Num
<1>1. u \in Seq(SegRec) /\ Len(u) = k - 1 /\ \A i \in 1 .. k - 1 : u[i] = m[i]
  OBVIOUS
<1>2. v \in Seq(SegRec) /\ Len(v) = Len(m) - k /\ \A i \in 1 .. Len(m) - k : v[i] = m[k + i]
  OBVIOUS
<1>3. B \in Seq(SegRec) /\ Len(B) = nb /\ (nb = 1 => B[1] = before)
  BY DEF Opt, Num
<1>4. A \in Seq(SegRec) /\ Len(A) = na /\ (na = 1 => A[1] = after)
  BY DEF Opt, Num
<1>5. <<s>> \in Seq(SegRec) /\ Len(<<s>>) = 1 /\ <<s>>[1] = s
  OBVIOUS
<1> HIDE DEF u, v, B, A, nb, na
<1>6. /\ q1 \in Seq(SegRec) /\ Len(q1) = k - 1 + nb
      /\ \A i \in 1 .. k - 1 : q1[i] = m[i]
      /\ nb = 1 => q1[k] = before
  <2>0. u \in Seq(SegRec) /\ B \in Seq(SegRec)
    BY <1>1, <1>3
  <2>1. /\ q1 \in Seq(SegRec) /\ Len(q1) = Len(u) + Len(B)
        /\ \A i \in 1 .. Len(u) : q1[i] = u[i]
        /\ \A i \in 1 .. Len(B) : q1[Len(u) + i] = B[i]
    BY <2>0, ConcatAt
  <2> HIDE DEF q1
  <2>2. nb = 1 => q1[k] = before
    <3> SUFFICES ASSUME nb = 1 PROVE q1[k] = before
      OBVIOUS
    <3>1. 1 \in 1 .. Len(B) /\ Len(u) + 1 = k
      BY <1>0, <1>1, <1>3
    <3> QED BY <1>3, <2>1, <3>1
  <2> QED BY <1>0, <1>1, <1>3, <2>1, <2>2
<1> HIDE DEF q1
<1>7. /\ q2 \in Seq(SegRec) /\ Len(q2) = k + nb
      /\ \A i \in 1 .. k - 1 + nb : q2[i] = q1[i]
      /\ q2[k + nb] = s
  <2>1. /\ q2 \in Seq(SegRec) /\ Len(q2) = Len(q1) + 1
        /\ \A i \in 1 .. Len(q1) : q2[i] = q1[i]
        /\ \A i \in 1 .. 1 : q2[Len(q1) + i] = <<s>>[i]
    BY <1>5, <1>6, ConcatAt
  <2> HIDE DEF q2
  <2>2. q2[Len(q1) + 1] = s
    BY <1>5, <2>1
  <2>3. Len(q1) + 1 = k + nb
    BY <1>0, <1>6
  <2> QED BY <1>0, <1>6, <2>1, <2>2, <2>3
<1> HIDE DEF q2
<1>8. /\ q3 \in Seq(SegRec) /\ Len(q3) = k + nb + na
      /\ \A i \in 1 .. k + nb : q3[i] = q2[i]
      /\ na = 1 => q3[k + nb + 1] = after
  <2>0. q2 \in Seq(SegRec) /\ A \in Seq(SegRec)
    BY <1>4, <1>7
  <2>1. /\ q3 \in Seq(SegRec) /\ Len(q3) = Len(q2) + Len(A)
        /\ \A i \in 1 .. Len(q2) : q3[i] = q2[i]
        /\ \A i \in 1 .. Len(A) : q3[Len(q2) + i] = A[i]
    BY <2>0, ConcatAt
  <2> HIDE DEF q3
  <2>2. na = 1 => q3[k + nb + 1] = after
    <3> SUFFICES ASSUME na = 1 PROVE q3[k + nb + 1] = after
      OBVIOUS
    <3>1. 1 \in 1 .. Len(A) /\ Len(q2) + 1 = k + nb + 1
      BY <1>0, <1>4, <1>7
    <3> QED BY <1>4, <2>1, <3>1
  <2> QED BY <1>0, <1>4, <1>7, <2>1, <2>2
<1> HIDE DEF q3
<1>9. /\ q4 \in Seq(SegRec) /\ Len(q4) = Len(m) + nb + na
      /\ \A i \in 1 .. k + nb + na : q4[i] = q3[i]
      /\ \A i \in k + 1 .. Len(m) : q4[i + nb + na] = m[i]
  <2>0. q3 \in Seq(SegRec) /\ v \in Seq(SegRec)
    BY <1>2, <1>8
  <2>1. /\ q4 \in Seq(SegRec) /\ Len(q4) = Len(q3) + Len(v)
        /\ \A i \in 1 .. Len(q3) : q4[i] = q3[i]
        /\ \A i \in 1 .. Len(v) : q4[Len(q3) + i] = v[i]
    BY <2>0, ConcatAt
  <2> HIDE DEF q4
  <2>2. ASSUME NEW i \in k + 1 .. Len(m) PROVE q4[i + nb + na] = m[i]
    <3>1. i - k \in 1 .. Len(v) /\ i - k \in 1 .. Len(m) - k /\ k + (i - k) = i
      BY <1>0, <1>2
    <3>2. Len(q3) + (i - k) = i + nb + na
      BY <1>0, <1>8
    <3>3. q4[Len(q3) + (i - k)] = v[i - k] /\ v[i - k] = m[k + (i - k)]
      BY <1>2, <2>1, <3>1
    <3> QED BY <3>1, <3>2, <3>3
  <2> QED BY <1>0, <1>2, <1>8, <2>1, <2>2
<1> HIDE DEF q4
<1>10. ASSUME NEW i \in 1 .. k - 1 PROVE q4[i] = m[i]
  <2>1. i \in 1 .. k + nb + na /\ i \in 1 .. k + nb /\ i \in 1 .. k - 1 + nb
    BY <1>0
  <2> QED BY <1>6, <1>7, <1>8, <1>9, <2>1
<1>11. nb = 1 => q4[k] = before
  <2> SUFFICES ASSUME nb = 1 PROVE q4[k] = before
    OBVIOUS
  <2>1. k \in 1 .. k + nb + na /\ k \in 1 .. k + nb /\ k \in 1 .. k - 1 + nb
    BY <1>0
  <2> QED BY <1>6, <1>7, <1>8, <1>9, <2>1
<1>12. q4[k + nb] = s
  <2>1. k + nb \in 1 .. k + nb + na /\ k + nb \in 1 .. k + nb
    BY <1>0
  <2> QED BY <1>7, <1>8, <1>9, <2>1
<1>13. na = 1 => q4[k + nb + 1] = after
  <2> SUFFICES ASSUME na = 1 PROVE q4[k + nb + 1] = after
    OBVIOUS
  <2>1. k + nb + 1 \in 1 .. k + nb + na
    BY <1>0
  <2> QED BY <1>8, <1>9, <2>1
<1>14. q4 = SubSeq(m, 1, k - 1) \o Opt(before) \o <<s>> \o Opt(after) \o SubSeq(m, k + 1, Len(m))
  BY DEF q4, q3, q2, q1, u, v, A, B
<1>15. Split(m, k, before, s, after, q4)
  BY <1>9, <1>10, <1>11, <1>12, <1>13 DEF Split, nb, na
<1> QED BY <1>14, <1>15

\* SegmentAt() finds the first segment that ends behind x.
LEMMA SegmentAtFirst ==
    ASSUME NEW m \in Seq(SegRec), NEW x \in Int, NEW j \in 1 .. Len(m), j < SegmentAt(m, x)
    PROVE  End(m[j]) <= x
<1> DEFINE I == {i \in 1 .. Len(m) : End(m[i]) > x}
<1>1. SegmentAt(m, x) = IF I # {} THEN Min(I) ELSE 0
  BY DEF SegmentAt, SelectInSeq
<1>2. I \subseteq Nat
  OBVIOUS
<1>3. I # {} => Min(I) \in I /\ \A y \in I : Min(I) <= y
  BY <1>2, LeastOf
<1>4. j \notin I
  <2> HIDE DEF I
  <2>1. I # {}
    BY <1>1
  <2>2. Min(I) \in Nat /\ j < Min(I)
    BY <1>1, <1>2, <1>3, <2>1
  <2> QED BY <1>3, <2>1, <2>2
<1>5. End(m[j]) \in Int
  <2>1. m[j] \in SegRec
    OBVIOUS
  <2> QED BY <2>1 DEF End, SegRec
<1> QED BY <1>4, <1>5

\* The two parts of segment n that are left beside s.
Before(n, s) ==
    Seg(n.start, s.start - n.start, "unused", IF End(n) - End(s) > 0 THEN 0 ELSE n.index)
After(n, s) == Seg(End(s), End(n) - End(s), "unused", n.index)

\* Their fields.
LEMMA RestsAre ==
    ASSUME NEW n \in SegRec, NEW s \in SegRec
    PROVE  /\ Before(n, s) \in SegRec /\ After(n, s) \in SegRec
           /\ Before(n, s).start = n.start /\ Before(n, s).size = s.start - n.start
           /\ Before(n, s).type = "unused" /\ After(n, s).type = "unused"
           /\ After(n, s).start = End(s) /\ After(n, s).size = End(n) - End(s)
           /\ n.start \in Int /\ n.size \in Int /\ s.start \in Int /\ s.size \in Int
           /\ n.index \in Nat /\ End(s) = s.start + s.size /\ End(n) = n.start + n.size
<1>1. /\ n.start \in Int /\ n.size \in Int /\ s.start \in Int /\ s.size \in Int
      /\ n.index \in Nat /\ End(s) = s.start + s.size /\ End(n) = n.start + n.size
  BY DEF SegRec, End
<1>2. End(s) \in Int /\ End(n) \in Int /\ "unused" \in Kinds
  BY <1>1 DEF Kinds
<1> HIDE DEF End
<1>3. (IF End(n) - End(s) > 0 THEN 0 ELSE n.index) \in Nat
  <2>1. 0 \in Nat /\ n.index \in Nat
    BY <1>1
  <2> QED BY <2>1, Zenon
<1>4. s.start - n.start \in Int /\ End(n) - End(s) \in Int
  BY <1>1, <1>2
<1>5. /\ Before(n, s) \in SegRec /\ Before(n, s).start = n.start
      /\ Before(n, s).size = s.start - n.start /\ Before(n, s).type = "unused"
  <2> DEFINE ix == IF End(n) - End(s) > 0 THEN 0 ELSE n.index
             sz == s.start - n.start
  <2>1. Before(n, s) = Seg(n.start, sz, "unused", ix)
    BY DEF Before
  <2>2. ix \in Nat /\ sz \in Int
    BY <1>3, <1>4
  <2> HIDE DEF ix, sz
  <2>3. /\ Before(n, s) \in SegRec /\ Before(n, s).start = n.start
        /\ Before(n, s).size = sz /\ Before(n, s).type = "unused"
    BY SMTT(40), <1>1, <1>2, <2>1, <2>2, SegIs
  <2> QED BY <2>3 DEF sz
<1>6. /\ After(n, s) \in SegRec /\ After(n, s).start = End(s)
      /\ After(n, s).size = End(n) - End(s) /\ After(n, s).type = "unused"
  BY <1>1, <1>2, <1>4, SegIs DEF After
<1> QED BY <1>1, <1>5, <1>6

\* The two ways map_add() succeeds.
LEMMA AddCases ==
    ASSUME NEW m, NEW z, Tiles(m, z), NEW s \in SegRec, s.start >= 0, map_add(m, s) # Null
    PROVE  LET k == SegmentAt(m, s.start)
               n == m[k]
           IN  /\ k \in 1 .. Len(m) /\ n \in SegRec
               /\ n.start <= s.start /\ End(s) <= End(n) /\ s.start < End(n)
               /\ \/ /\ n.start = s.start /\ n.size = s.size
                     /\ map_add(m, s) = [m EXCEPT ![k] = IF s.index = 0 THEN [s EXCEPT !.index = n.index]
                                                         ELSE s]
                  \/ /\ MayReplace(n.type, s.type)
                     /\ Split(m, k, Before(n, s), s, After(n, s), map_add(m, s))
<1> DEFINE k == SegmentAt(m, s.start)
           n == m[k]
           exact == n.start = s.start /\ n.size = s.size
<1>0. m \in Seq(SegRec) /\ Len(m) \in Nat /\ s.start \in Int
  BY DEF Tiles, SegRec
<1>1. k # 0 /\ ~(End(n) < End(s))
  BY DEF map_add
<1>2. k \in 1 .. Len(m) /\ End(n) > s.start
  <2>1. k \in 0 .. Len(m) /\ (k # 0 => End(n) > s.start)
    BY <1>0, SegmentAtIs
  <2> QED BY <1>0, <1>1, <2>1
<1>3. n \in SegRec
  BY <1>0, <1>2
<1>e. End(n) \in Int /\ End(s) \in Int
  BY <1>3 DEF End, SegRec
<1>4. n.start <= s.start
  <2>1. CASE k = 1
    BY <2>1 DEF Tiles
  <2>2. CASE k # 1
    <3>1. k - 1 \in 1 .. Len(m) /\ k - 1 \in 1 .. Len(m) - 1 /\ k - 1 < k /\ (k - 1) + 1 = k
      BY <1>0, <1>2, <2>2
    <3>2. End(m[k - 1]) <= s.start
      <4> DEFINE j == k - 1
      <4>1. j \in 1 .. Len(m) /\ j < SegmentAt(m, s.start)
        BY <3>1
      <4> HIDE DEF j
      <4>2. End(m[j]) <= s.start
        BY <1>0, <4>1, SegmentAtFirst
      <4> QED BY <4>2 DEF j
    <3>3. m[(k - 1) + 1].start = m[k - 1].start + m[k - 1].size
      BY <3>1 DEF Tiles
    <3> QED BY <3>1, <3>2, <3>3 DEF End
  <2> QED BY <2>1, <2>2
<1>5. CASE exact
  <2>1. map_add(m, s) = [m EXCEPT ![k] = IF s.index = 0 THEN [s EXCEPT !.index = n.index] ELSE s]
    BY <1>1, <1>5 DEF map_add
  <2>2. End(s) <= End(n)
    BY <1>1, <1>e
  <2>3. n.start = s.start /\ n.size = s.size
    BY <1>5
  <2>4. s.start < End(n)
    BY <1>0, <1>2, <1>e
  <2> HIDE DEF k, n, exact
  <2> QED BY <1>2, <1>3, <1>4, <2>1, <2>2, <2>3, <2>4 DEF k, n
<1>6. CASE ~exact
  <2>1. MayReplace(n.type, s.type)
    BY <1>1, <1>6 DEF map_add
  <2>2. map_add(m, s) = SubSeq(m, 1, k - 1) \o Opt(Before(n, s)) \o <<s>> \o Opt(After(n, s))
                        \o SubSeq(m, k + 1, Len(m))
    <3>1. Seg(End(s), End(n) - End(s), "unused", n.index).size = End(n) - End(s)
      BY DEF Seg
    <3>2. map_add(m, s) =
            SubSeq(m, 1, k - 1)
            \o (IF Before(n, s).size > 0 THEN <<Before(n, s)>> ELSE <<>>)
            \o <<s>>
            \o (IF After(n, s).size > 0 THEN <<After(n, s)>> ELSE <<>>)
            \o SubSeq(m, k + 1, Len(m))
      BY <1>1, <1>6, <2>1, <3>1 DEF map_add, Before, After
    <3> HIDE DEF k, n
    <3> QED BY <3>2 DEF Opt
  <2>3. Split(m, k, Before(n, s), s, After(n, s), map_add(m, s))
    <3>1. Before(n, s) \in SegRec /\ After(n, s) \in SegRec
      BY <1>3, RestsAre
    <3> HIDE DEF k, n
    <3> QED BY <1>0, <1>2, <2>2, <3>1, SplitIs
  <2>4. End(s) <= End(n)
    BY <1>1, <1>e
  <2>5. s.start < End(n)
    BY <1>0, <1>2, <1>e
  <2> HIDE DEF k, n, exact
  <2> QED BY <1>2, <1>3, <1>4, <2>1, <2>3, <2>4, <2>5 DEF k, n
<1> QED BY <1>5, <1>6

\* What map_add() makes of a map: the segment is in it, what may not be
\* replaced has stayed unless s mirrors it, and there is nothing else new.
AddView(m, s, r) ==
    /\ \E h \in SegRec : /\ Has(r, h) /\ h.type = s.type /\ h.start = s.start /\ h.size = s.size
                         /\ s.index # 0 => h = s
    /\ \A h \in SegRec :
         Has(m, h) /\ ~MayReplace(h.type, s.type) /\ (h.start # s.start \/ h.size # s.size)
           => Has(r, h)
    /\ \A h : Has(r, h) =>
         \/ Has(m, h) \/ h.type = "unused"
         \/ /\ h.type = s.type /\ h.start = s.start /\ h.size = s.size
            /\ s.index # 0 => h = s

\* A split map fills the medium.
LEMMA SplitTiles ==
    ASSUME NEW m, NEW z, Tiles(m, z), NEW s \in SegRec, s.size >= 0, s.type # "unused",
           NEW k \in 1 .. Len(m), m[k] \in SegRec, m[k].start <= s.start, End(s) <= End(m[k]),
           NEW r, Split(m, k, Before(m[k], s), s, After(m[k], s), r)
    PROVE  Tiles(r, z)
<1> DEFINE n == m[k]
           b == Num(Before(n, s))
           a == Num(After(n, s))
           B == Before(n, s)
           A == After(n, s)
<1>0. /\ Len(m) \in Nat /\ k \in Nat /\ k >= 1 /\ k <= Len(m) /\ b \in 0 .. 1 /\ a \in 0 .. 1
      /\ \A i \in 1 .. Len(m) : m[i].start \in Int /\ m[i].size \in Int
  <2>1. \A i \in 1 .. Len(m) : m[i] \in SegRec
    BY DEF Tiles
  <2>2. Len(m) \in Nat
    BY DEF Tiles
  <2> QED BY <2>1, <2>2 DEF SegRec, Num
<1>n. n = m[k] /\ n \in SegRec /\ n.start <= s.start /\ End(s) <= End(n)
  OBVIOUS
<1> HIDE DEF n
<1>1. /\ n.start \in Int /\ n.size \in Int /\ s.start \in Int /\ s.size \in Int
      /\ B.start = n.start /\ B.size = s.start - n.start /\ B.type = "unused"
      /\ A.start = s.start + s.size /\ A.size = n.start + n.size - (s.start + s.size)
      /\ A.type = "unused"
      /\ s.start + s.size <= n.start + n.size
  <2>1. /\ n.start \in Int /\ n.size \in Int /\ s.start \in Int /\ s.size \in Int
        /\ B.start = n.start /\ B.size = s.start - n.start /\ B.type = "unused"
        /\ A.start = End(s) /\ A.size = End(n) - End(s) /\ A.type = "unused"
        /\ End(s) = s.start + s.size /\ End(n) = n.start + n.size
    BY <1>n, RestsAre
  <2> HIDE DEF A, B
  <2> QED BY <1>n, <2>1
<1>2. /\ b = 1 => B.size > 0
      /\ b = 0 => s.start = n.start
      /\ a = 1 => A.size > 0
      /\ a = 0 => s.start + s.size = n.start + n.size
  <2>1. /\ b = IF B.size > 0 THEN 1 ELSE 0
        /\ a = IF A.size > 0 THEN 1 ELSE 0
    BY DEF Num
  <2> HIDE DEF a, b, A, B
  <2>2. B.size \in Int /\ A.size \in Int
    BY <1>1
  <2>3. B.size > 0 \/ B.size = 0
    BY <1>1, <1>n
  <2>4. A.size > 0 \/ A.size = 0
    BY <1>1, <1>n
  <2>5. (b = 1 => B.size > 0) /\ (b = 0 => B.size = 0)
    BY <2>1, <2>2, <2>3
  <2>6. (a = 1 => A.size > 0) /\ (a = 0 => A.size = 0)
    BY <2>1, <2>2, <2>4
  <2> QED BY <1>1, <2>5, <2>6
<1>3. /\ r \in Seq(SegRec) /\ Len(r) = Len(m) + b + a
      /\ \A i \in 1 .. k - 1 : r[i] = m[i]
      /\ b = 1 => r[k] = B
      /\ r[k + b] = s
      /\ a = 1 => r[k + b + 1] = A
      /\ \A i \in k + 1 .. Len(m) : r[i + b + a] = m[i]
  BY <1>n DEF Split
<1>4. /\ m[1].start = 0 /\ m[Len(m)].start + m[Len(m)].size = z
      /\ \A i \in 1 .. Len(m) - 1 : m[i + 1].start = m[i].start + m[i].size
      /\ \A i \in 1 .. Len(m) : m[i].size >= 0 /\ (m[i].type = "unused" => m[i].size > 0)
  BY DEF Tiles
<1> HIDE DEF a, b, A, B
<1>5. ASSUME NEW i \in 1 .. Len(r)
      PROVE  \/ i < k /\ r[i] = m[i]
             \/ i = k /\ b = 1 /\ r[i] = B
             \/ i = k + b /\ r[i] = s
             \/ i = k + b + 1 /\ a = 1 /\ r[i] = A
             \/ /\ i - b - a \in k + 1 .. Len(m) /\ r[i] = m[i - b - a]
  <2>1. CASE i > k + b + a
    <3>1. i - b - a \in k + 1 .. Len(m) /\ (i - b - a) + b + a = i
      BY <1>0, <1>3, <2>1
    <3>2. r[(i - b - a) + b + a] = m[i - b - a]
      <4> DEFINE j == i - b - a
      <4>1. j \in k + 1 .. Len(m)
        BY <3>1
      <4> HIDE DEF j
      <4>2. r[j + b + a] = m[j]
        BY <1>3, <4>1
      <4> QED BY <4>2 DEF j
    <3> QED BY <3>1, <3>2
  <2>2. CASE i < k
    BY <1>0, <1>3, <2>2
  <2>3. CASE i >= k /\ i <= k + b + a
    BY <1>0, <1>3, <2>3
  <2> QED BY <1>0, <2>1, <2>2, <2>3
<1>6. Len(r) > 0 /\ Len(r) \in Nat
  BY <1>0, <1>3
<1>7. r[1].start = 0
  <2>1. CASE k > 1
    <3>1. 1 \in 1 .. k - 1
      BY <1>0, <2>1
    <3> QED BY <1>3, <1>4, <3>1
  <2>2. CASE k = 1 /\ b = 1
    BY <1>1, <1>3, <1>4, <1>n, <2>2
  <2>3. CASE k = 1 /\ b = 0
    <3>1. r[1] = s
      BY <1>3, <2>3
    <3> QED BY <1>2, <1>4, <1>n, <2>3, <3>1
  <2> QED BY <1>0, <2>1, <2>2, <2>3
<1>8. r[Len(r)].start + r[Len(r)].size = z
  <2>1. CASE k < Len(m)
    <3>1. Len(m) \in k + 1 .. Len(m)
      BY <1>0, <2>1
    <3>2. r[Len(m) + b + a] = m[Len(m)]
      BY <1>3, <3>1
    <3> QED BY <1>3, <1>4, <3>2
  <2>2. CASE k = Len(m) /\ a = 1
    <3>1. r[Len(r)] = A
      BY <1>0, <1>3, <2>2
    <3> QED BY <1>1, <1>4, <1>n, <2>2, <3>1
  <2>3. CASE k = Len(m) /\ a = 0
    <3>1. r[Len(r)] = s
      BY <1>0, <1>3, <2>3
    <3> QED BY <1>1, <1>2, <1>4, <1>n, <2>3, <3>1
  <2> QED BY <1>0, <2>1, <2>2, <2>3
<1>9. ASSUME NEW i \in 1 .. Len(r)
      PROVE  r[i].size >= 0 /\ (r[i].type = "unused" => r[i].size > 0)
  <2>1. CASE i < k /\ r[i] = m[i]
    BY <1>0, <1>4, <2>1
  <2>2. CASE i = k /\ b = 1 /\ r[i] = B
    BY <1>1, <1>2, <2>2
  <2>3. CASE i = k + b /\ r[i] = s
    BY <1>1, <2>3
  <2>4. CASE i = k + b + 1 /\ a = 1 /\ r[i] = A
    BY SMTT(40), <1>1, <1>2, <2>4
  <2>5. CASE i - b - a \in k + 1 .. Len(m) /\ r[i] = m[i - b - a]
    <3>1. i - b - a \in 1 .. Len(m)
      BY <1>0, <2>5
    <3> QED BY <1>4, <2>5, <3>1
  <2> QED BY <1>5, <2>1, <2>2, <2>3, <2>4, <2>5
<1>10. ASSUME NEW i \in 1 .. Len(r) - 1
       PROVE  r[i + 1].start = r[i].start + r[i].size
  <2>0. i \in Nat /\ i >= 1 /\ i + 1 <= Len(m) + b + a
    BY <1>3, <1>6
  <2>1. CASE i + 1 < k
    <3>1. i \in 1 .. k - 1 /\ i + 1 \in 1 .. k - 1 /\ i \in 1 .. Len(m) - 1
      BY <1>0, <2>0, <2>1
    <3> QED BY <1>3, <1>4, <3>1
  <2>2. CASE i + 1 = k
    <3>1. i \in 1 .. k - 1 /\ i \in 1 .. Len(m) - 1
      BY <1>0, <2>0, <2>2
    <3>2. n.start = m[i].start + m[i].size /\ r[i] = m[i]
      BY <1>3, <1>4, <1>n, <2>2, <3>1
    <3>3. b = 1 => r[i + 1] = B
      BY <1>3, <2>2
    <3>4. b = 0 => r[i + 1] = s
      BY <1>0, <1>3, <2>2
    <3> QED BY SMTT(40), <1>0, <1>1, <1>2, <3>2, <3>3, <3>4
  <2>3. CASE i = k /\ b = 1
    <3>1. r[i] = B /\ r[i + 1] = s
      BY <1>3, <2>3
    <3> QED BY <1>1, <3>1
  <2>4. CASE i = k + b
    <3>1. r[i] = s
      BY <1>3, <2>4
    <3>2. CASE a = 1
      <4>1. r[i + 1] = A
        BY <1>3, <2>4, <3>2
      <4> QED BY <1>1, <3>1, <4>1
    <3>3. CASE a = 0
      <4>1. k + 1 \in k + 1 .. Len(m) /\ k \in 1 .. Len(m) - 1 /\ k + 1 + b + a = i + 1
        BY <1>0, <2>0, <2>4, <3>3
      <4>2. r[k + 1 + b + a] = m[k + 1] /\ m[k + 1].start = n.start + n.size
        BY <1>3, <1>4, <1>n, <4>1
      <4> QED BY <1>2, <3>1, <3>3, <4>1, <4>2
    <3> QED BY <1>0, <3>2, <3>3
  <2>5. CASE i = k + b + 1 /\ a = 1
    <3>1. r[i] = A
      BY <1>3, <2>5
    <3>2. k + 1 \in k + 1 .. Len(m) /\ k \in 1 .. Len(m) - 1 /\ k + 1 + b + a = i + 1
      BY <1>0, <2>0, <2>5
    <3>3. r[k + 1 + b + a] = m[k + 1] /\ m[k + 1].start = n.start + n.size
      BY <1>3, <1>4, <1>n, <3>2
    <3>4. A.start + A.size = n.start + n.size
      BY <1>1
    <3>5. r[i + 1] = m[k + 1]
      BY <3>2, <3>3
    <3> QED BY <3>1, <3>3, <3>4, <3>5
  <2>6. CASE i > k + b + a
    <3> DEFINE j == i - b - a
    <3>1. /\ j \in k + 1 .. Len(m) /\ j + 1 \in k + 1 .. Len(m) /\ j \in 1 .. Len(m) - 1
          /\ j + b + a = i /\ j + 1 + b + a = i + 1
      BY <1>0, <2>0, <2>6
    <3> HIDE DEF j
    <3>2. r[j + b + a] = m[j] /\ r[j + 1 + b + a] = m[j + 1] /\ m[j + 1].start = m[j].start + m[j].size
      BY <1>3, <1>4, <3>1
    <3> QED BY <3>1, <3>2
  <2> QED BY <1>0, <2>0, <2>1, <2>2, <2>3, <2>4, <2>5, <2>6
<1> QED BY <1>3, <1>6, <1>7, <1>8, <1>9, <1>10 DEF Tiles

\* What is in a split map.
LEMMA SplitHas ==
    ASSUME NEW m \in Seq(SegRec), NEW k \in 1 .. Len(m), NEW B, NEW s, NEW A, NEW r,
           Split(m, k, B, s, A, r)
    PROVE  /\ Has(r, s)
           /\ \A h : Has(m, h) /\ h # m[k] => Has(r, h)
           /\ \A h : Has(r, h) => Has(m, h) \/ h = s \/ h = A \/ h = B
<1> DEFINE b == Num(B)
           a == Num(A)
<1>0. Len(m) \in Nat /\ k \in Nat /\ k >= 1 /\ k <= Len(m) /\ b \in 0 .. 1 /\ a \in 0 .. 1
  BY DEF Num
<1>1. /\ Len(r) = Len(m) + b + a
      /\ \A i \in 1 .. k - 1 : r[i] = m[i]
      /\ b = 1 => r[k] = B
      /\ r[k + b] = s
      /\ a = 1 => r[k + b + 1] = A
      /\ \A i \in k + 1 .. Len(m) : r[i + b + a] = m[i]
  BY DEF Split
<1> HIDE DEF a, b
<1>2. Has(r, s)
  <2>1. k + b \in 1 .. Len(r)
    BY <1>0, <1>1
  <2> QED BY <1>1, <2>1 DEF Has
<1>3. ASSUME NEW h, Has(m, h), h # m[k] PROVE Has(r, h)
  <2>1. PICK i \in 1 .. Len(m) : m[i] = h
    BY <1>3 DEF Has
  <2>2. CASE i < k
    <3>1. i \in 1 .. k - 1 /\ i \in 1 .. Len(r)
      BY <1>0, <1>1, <2>2
    <3> QED BY <1>1, <2>1, <3>1 DEF Has
  <2>3. CASE i > k
    <3>1. i \in k + 1 .. Len(m) /\ i + b + a \in 1 .. Len(r)
      BY <1>0, <1>1, <2>3
    <3>2. r[i + b + a] = h
      BY <1>1, <2>1, <3>1
    <3> QED BY <3>1, <3>2 DEF Has
  <2>4. i # k
    BY <1>3, <2>1
  <2> QED BY <1>0, <2>2, <2>3, <2>4
<1>4. ASSUME NEW h, Has(r, h) PROVE Has(m, h) \/ h = s \/ h = A \/ h = B
  <2>1. PICK i \in 1 .. Len(r) : r[i] = h
    BY <1>4 DEF Has
  <2>2. CASE i > k + b + a
    <3> DEFINE j == i - b - a
    <3>1. j \in k + 1 .. Len(m) /\ j + b + a = i /\ j \in 1 .. Len(m)
      BY <1>0, <1>1, <2>2
    <3> HIDE DEF j
    <3>2. m[j] = h
      BY <1>1, <2>1, <3>1
    <3> QED BY <3>1, <3>2 DEF Has
  <2>3. CASE i < k
    <3>1. i \in 1 .. k - 1 /\ i \in 1 .. Len(m)
      BY <1>0, <2>3
    <3>2. m[i] = h
      BY <1>1, <2>1, <3>1
    <3> QED BY <3>1, <3>2 DEF Has
  <2>4. CASE i >= k /\ i <= k + b + a
    BY <1>0, <1>1, <2>1, <2>4
  <2> QED BY <1>0, <2>2, <2>3, <2>4
<1> QED BY <1>2, <1>3, <1>4

\* map_add() keeps the medium filled.
LEMMA AddTiles ==
    ASSUME NEW m, NEW z, Tiles(m, z), NEW s \in SegRec, s.start >= 0, s.size >= 0,
           s.type # "unused", map_add(m, s) # Null
    PROVE  Tiles(map_add(m, s), z) /\ AddView(m, s, map_add(m, s))
<1> DEFINE k == SegmentAt(m, s.start)
           n == m[k]
           r == map_add(m, s)
           s1 == IF s.index = 0 THEN [s EXCEPT !.index = n.index] ELSE s
<1>1. /\ k \in 1 .. Len(m) /\ n \in SegRec
      /\ n.start <= s.start /\ End(s) <= End(n) /\ s.start < End(n)
      /\ \/ n.start = s.start /\ n.size = s.size /\ r = [m EXCEPT ![k] = s1]
         \/ MayReplace(n.type, s.type) /\ Split(m, k, Before(n, s), s, After(n, s), r)
  BY AddCases
<1>2. m \in Seq(SegRec)
  BY DEF Tiles
<1> HIDE DEF k, r
<1>3. CASE n.start = s.start /\ n.size = s.size /\ r = [m EXCEPT ![k] = s1]
  <2>1. /\ s1 \in SegRec /\ s1.type = s.type /\ s1.start = s.start /\ s1.size = s.size
        /\ s.index # 0 => s1 = s
    <3>1. n.index \in Nat
      BY <1>1 DEF SegRec
    <3> HIDE DEF n
    <3> QED BY <3>1 DEF SegRec
  <2> HIDE DEF s1
  <2>2. /\ r \in Seq(SegRec) /\ Len(r) = Len(m) /\ r[k] = s1
        /\ \A i \in 1 .. Len(m) : i # k => r[i] = m[i]
    BY <1>1, <1>2, <1>3, <2>1
  <2>3. \A i \in 1 .. Len(m) : r[i].start = m[i].start /\ r[i].size = m[i].size
    BY <1>1, <1>3, <2>1, <2>2
  <2>4. \A i \in 1 .. Len(m) : r[i].type = "unused" => m[i].type = "unused"
    BY <1>1, <2>1, <2>2
  <2>5. Tiles(r, z)
    <3>1. Len(m) \in Nat /\ Len(m) > 0 /\ 1 \in 1 .. Len(m) /\ Len(m) \in 1 .. Len(m)
      BY <1>2 DEF Tiles
    <3>2. \A i \in 1 .. Len(m) - 1 : i \in 1 .. Len(m) /\ i + 1 \in 1 .. Len(m)
      BY <3>1
    <3>3. \A i \in 1 .. Len(m) - 1 : r[i + 1].start = r[i].start + r[i].size
      BY <2>3, <3>2 DEF Tiles
    <3>4. \A i \in 1 .. Len(m) : r[i].size >= 0 /\ (r[i].type = "unused" => r[i].size > 0)
      BY <2>3, <2>4 DEF Tiles
    <3>5. r[1].start = 0 /\ r[Len(m)].start + r[Len(m)].size = z
      BY <2>3, <3>1 DEF Tiles
    <3> QED BY <2>2, <3>1, <3>3, <3>4, <3>5 DEF Tiles
  <2>6. Has(r, s1)
    BY <1>1, <2>2 DEF Has
  <2>7. ASSUME NEW h \in SegRec, Has(m, h), h.start # s.start \/ h.size # s.size
        PROVE  Has(r, h)
    BY <1>3, <2>2, <2>7 DEF Has
  <2>8. ASSUME NEW h, Has(r, h) PROVE Has(m, h) \/ h = s1
    BY <2>2, <2>8 DEF Has
  <2>9. AddView(m, s, r)
    <3>1. \E h \in SegRec : /\ Has(r, h) /\ h.type = s.type /\ h.start = s.start /\ h.size = s.size
                            /\ s.index # 0 => h = s
      BY <2>1, <2>6
    <3> QED BY <2>1, <2>7, <2>8, <3>1 DEF AddView
  <2> QED BY <2>5, <2>9 DEF r
<1>4. CASE MayReplace(n.type, s.type) /\ Split(m, k, Before(n, s), s, After(n, s), r)
  <2>1. Tiles(r, z)
    BY <1>1, <1>4, SplitTiles
  <2>2. /\ Has(r, s)
        /\ \A h : Has(m, h) /\ h # m[k] => Has(r, h)
        /\ \A h : Has(r, h) => Has(m, h) \/ h = s \/ h = After(n, s) \/ h = Before(n, s)
    BY <1>1, <1>2, <1>4, SplitHas
  <2>3. After(n, s).type = "unused" /\ Before(n, s).type = "unused"
    BY <1>1, RestsAre
  <2>4. \E h \in SegRec : /\ Has(r, h) /\ h.type = s.type /\ h.start = s.start /\ h.size = s.size
                          /\ s.index # 0 => h = s
    BY <2>2
  <2>5. ASSUME NEW h \in SegRec, Has(m, h), ~MayReplace(h.type, s.type) PROVE Has(r, h)
    BY <1>4, <2>2, <2>5
  <2>6. ASSUME NEW h, Has(r, h)
        PROVE  \/ Has(m, h) \/ h.type = "unused"
               \/ /\ h.type = s.type /\ h.start = s.start /\ h.size = s.size
                  /\ s.index # 0 => h = s
    BY <2>2, <2>3, <2>6
  <2>7. AddView(m, s, r)
    BY <2>4, <2>5, <2>6 DEF AddView
  <2> QED BY <2>1, <2>7 DEF r
<1> QED BY <1>1, <1>3, <1>4

-----------------------------------------------------------------------------
(* What AddAll() makes of a map, when the segments of T have been added. *)

SegsOK(segs, T, ty) ==
    /\ segs \in Seq(SegRec) /\ T \subseteq 1 .. Len(segs) /\ ty \in {"mbr_part", "gpt_part"}
    /\ \A k \in T : /\ segs[k].type = ty /\ segs[k].start >= 0 /\ segs[k].size >= 0
                    /\ segs[k].index = k
    /\ \A j, k \in T : j # k => segs[j].start # segs[k].start \/ segs[j].size # segs[k].size

AllView(m, segs, T, ty, r) ==
    /\ \A k \in T : Has(r, segs[k])
    /\ \A h : Has(r, h) /\ h.type = ty => Has(m, h) \/ \E k \in T : h = segs[k]
    /\ \A h \in SegRec :
         (/\ Has(m, h) /\ h.type \notin {"unused", "mbr_part"}
          /\ \A k \in T : h.start # segs[k].start \/ h.size # segs[k].size)
         => Has(r, h)

\* One more segment.
LEMMA AllViewStep ==
    ASSUME NEW m, NEW z, NEW segs, NEW S, NEW ty, SegsOK(segs, S, ty),
           NEW T \in SUBSET S, NEW k \in S, k \notin T,
           NEW g, Tiles(g, z), AllView(m, segs, T, ty, g), map_add(g, segs[k]) # Null
    PROVE  /\ Tiles(map_add(g, segs[k]), z)
           /\ AllView(m, segs, T \cup {k}, ty, map_add(g, segs[k]))
<1> DEFINE s == segs[k]
           r == map_add(g, s)
<1>1. /\ s \in SegRec /\ s.start >= 0 /\ s.size >= 0 /\ s.type = ty /\ s.index # 0
      /\ ty \in {"mbr_part", "gpt_part"}
  BY DEF SegsOK
<1>2. Tiles(r, z) /\ AddView(g, s, r)
  BY <1>1, AddTiles
<1>t. \A j \in T : /\ segs[j] \in SegRec /\ segs[j].type = ty
                   /\ segs[j].start # s.start \/ segs[j].size # s.size
  BY DEF SegsOK
<1>k. s = segs[k]
  OBVIOUS
<1> HIDE DEF s, r
<1>3. ASSUME NEW h \in SegRec, Has(g, h), h.type \notin {"unused", "mbr_part"} \/ h.type = ty,
             h.start # s.start \/ h.size # s.size
      PROVE  Has(r, h)
  <2>1. ~MayReplace(h.type, s.type)
    BY <1>1, <1>3 DEF MayReplace
  <2> QED BY <1>2, <1>3, <2>1 DEF AddView
<1>4. Has(r, s)
  BY <1>1, <1>2 DEF AddView
<1>5. ASSUME NEW j \in T PROVE Has(r, segs[j])
  <2>1. Has(g, segs[j])
    BY DEF AllView
  <2> QED BY <1>3, <1>t, <2>1
<1>6. ASSUME NEW h, Has(r, h), h.type = ty PROVE Has(m, h) \/ \E j \in T \cup {k} : h = segs[j]
  <2>1. Has(g, h) \/ h = s
    BY <1>1, <1>2, <1>6 DEF AddView
  <2>2. Has(g, h) => Has(m, h) \/ \E j \in T : h = segs[j]
    BY <1>6 DEF AllView
  <2> QED BY <1>k, <2>1, <2>2
<1>7. ASSUME NEW h \in SegRec, Has(m, h), h.type \notin {"unused", "mbr_part"},
             \A j \in T \cup {k} : h.start # segs[j].start \/ h.size # segs[j].size
      PROVE  Has(r, h)
  <2>1. Has(g, h)
    BY <1>7 DEF AllView
  <2>2. h.start # s.start \/ h.size # s.size
    BY <1>7, <1>k
  <2> QED BY <1>3, <1>7, <2>1, <2>2
<1>8. AllView(m, segs, T \cup {k}, ty, r)
  BY <1>4, <1>5, <1>6, <1>7, <1>k DEF AllView
<1> QED BY <1>2, <1>8 DEF r, s

\* Those of S that come first.
UpTo(S, i) == {k \in S : k <= i}

\* One more, or not.
LEMMA UpToStep ==
    ASSUME NEW S, S \subseteq Nat, NEW i \in Nat, i > 0
    PROVE  /\ UpTo(S, i - 1) \in SUBSET S
           /\ i \notin UpTo(S, i - 1)
           /\ i \notin S => UpTo(S, i) = UpTo(S, i - 1)
           /\ i \in S => UpTo(S, i) = UpTo(S, i - 1) \cup {i}
<1>1. \A k \in S : k \in Nat /\ (k <= i <=> k <= i - 1 \/ k = i) /\ ~(i <= i - 1)
  OBVIOUS
<1> QED BY <1>1 DEF UpTo

\* All of them.
LEMMA AddAllView ==
    ASSUME NEW m, NEW z, Tiles(m, z), NEW segs, NEW S, NEW ty, SegsOK(segs, S, ty),
           AddAll(m, segs, S) # Null
    PROVE  Tiles(AddAll(m, segs, S), z) /\ AllView(m, segs, S, ty, AddAll(m, segs, S))
<1> DEFINE g == CHOOSE f : Chain(m, segs, S, Len(segs), f)
<1>1. Len(segs) \in Nat /\ S \subseteq 1 .. Len(segs)
  BY DEF SegsOK
<1>s. S \subseteq Nat
  BY <1>1
<1>2. Chain(m, segs, S, Len(segs), g)
  BY <1>1, ChainExists, Zenon
<1>3. AddAll(m, segs, S) = g[Len(segs)]
  BY ChainIs, Zenon
<1> HIDE DEF g
<1>4. g[0] = m /\ \A k \in 1 .. Len(segs) : g[k] = AddNext(g[k - 1], segs[k], k \in S)
  <2>1. \A k \in 0 .. Len(segs) : g[k] = IF k = 0 THEN m ELSE AddNext(g[k - 1], segs[k], k \in S)
    BY <1>2, Zenon DEF Chain
  <2> QED BY <1>1, <2>1
<1> DEFINE Good(i) == g[i] = Null \/ (Tiles(g[i], z) /\ AllView(m, segs, UpTo(S, i), ty, g[i]))
           Bad == {i \in 0 .. Len(segs) : ~Good(i)}
<1>5. Bad = {}
  <2> SUFFICES ASSUME Bad # {} PROVE FALSE
    OBVIOUS
  <2>1. Bad \subseteq Nat
    BY <1>1
  <2>2. 0 \notin Bad
    <3>1. UpTo(S, 0) = {}
      <4>1. \A k \in S : ~(k <= 0)
        BY <1>1
      <4> QED BY <4>1 DEF UpTo
    <3>2. AllView(m, segs, {}, ty, m)
      BY DEF AllView
    <3>3. Good(0)
      BY <1>4, <3>1, <3>2
    <3> QED BY <3>3
  <2> HIDE DEF Bad
  <2>3. PICK i : i = Min(Bad)
    OBVIOUS
  <2>4. i \in Bad /\ \A j \in Bad : i <= j
    BY <2>1, <2>3, LeastOf
  <2>5. i \in 1 .. Len(segs) /\ i - 1 \in 0 .. Len(segs) /\ i - 1 \notin Bad /\ i \in Nat /\ i > 0
    <3>1. i \in 0 .. Len(segs) /\ i # 0
      BY <2>2, <2>4 DEF Bad
    <3> QED BY <1>1, <2>4, <3>1
  <2>6. ~Good(i) /\ Good(i - 1)
    BY <2>4, <2>5 DEF Bad
  <2>7. g[i] = AddNext(g[i - 1], segs[i], i \in S)
    BY <1>4, <2>5
  <2>8. g[i] # Null
    BY <2>6
  <2>9. g[i - 1] # Null
    BY <2>7, <2>8 DEF AddNext
  <2> DEFINE T == UpTo(S, i - 1)
             p == g[i - 1]
  <2>10. Tiles(p, z) /\ AllView(m, segs, T, ty, p)
    BY <2>6, <2>9
  <2>11. /\ T \in SUBSET S /\ i \notin T
         /\ i \notin S => UpTo(S, i) = T
         /\ i \in S => UpTo(S, i) = T \cup {i}
    BY <1>s, <2>5, UpToStep
  <2>12. ~(Tiles(g[i], z) /\ AllView(m, segs, UpTo(S, i), ty, g[i]))
    BY <2>6
  <2>13. g[i] = IF i \in S THEN map_add(p, segs[i]) ELSE p
    BY <2>7, <2>9 DEF AddNext
  <2> HIDE DEF T, p
  <2>14. CASE i \notin S
    BY <2>10, <2>11, <2>12, <2>13, <2>14
  <2>15. CASE i \in S
    <3>1. map_add(p, segs[i]) # Null
      BY <2>8, <2>13, <2>15
    <3>2. Tiles(map_add(p, segs[i]), z) /\ AllView(m, segs, T \cup {i}, ty, map_add(p, segs[i]))
      BY <2>10, <2>11, <2>15, <3>1, AllViewStep
    <3> QED BY <2>11, <2>12, <2>13, <2>15, <3>2
  <2> QED BY <2>14, <2>15
<1>6. Len(segs) \in 0 .. Len(segs) /\ UpTo(S, Len(segs)) = S
  <2>1. Len(segs) \in 0 .. Len(segs) /\ \A k \in S : k <= Len(segs)
    BY <1>1
  <2> QED BY <2>1 DEF UpTo
<1>7. Good(Len(segs))
  BY <1>5, <1>6
<1> QED BY <1>3, <1>6, <1>7

-----------------------------------------------------------------------------
(* The map of the disk when it is opened *)

\* Extents of positive size that have no sector in common.
Apart(x, y) == x.start + x.size <= y.start \/ y.start + y.size <= x.start
\* The partitions of an MBR are where fdisk puts them: behind the first two
\* sectors, without overlap, and with the partitions of a disklabel in their
\* slice, again without overlap.
MbrSane(b) ==
    /\ \A k \in 1 .. Len(b.parts) :
         /\ b.parts[k].start >= 2 /\ b.parts[k].size > 0
         /\ \A i \in 1 .. Len(b.parts[k].sub) :
              /\ b.parts[k].sub[i].size > 0 /\ b.parts[k].sub[i].start >= b.parts[k].start
              /\ b.parts[k].sub[i].start + b.parts[k].sub[i].size <= b.parts[k].start + b.parts[k].size
         /\ \A i, j \in 1 .. Len(b.parts[k].sub) : i # j => Apart(b.parts[k].sub[i], b.parts[k].sub[j])
    /\ \A j, k \in 1 .. Len(b.parts) : j # k => Apart(b.parts[j], b.parts[k])

\* map_init() is a map of the medium.
LEMMA InitTiles ==
    ASSUME DiskT
    PROVE  Tiles(map_init(media), media)
<1> DEFINE s == Seg(0, media, "unused", 0)
<1>1. media \in Nat /\ media >= 6 /\ "unused" \in Kinds
  BY MbrIs DEF Kinds
<1>2. s \in SegRec /\ s.start = 0 /\ s.size = media
  BY <1>1, SegIs
<1> HIDE DEF s
<1>3. <<s>> \in Seq(SegRec) /\ Len(<<s>>) = 1 /\ <<s>>[1] = s
  BY <1>2
<1>4. map_init(media) = <<s>>
  BY DEF map_init, s
<1> QED BY <1>1, <1>2, <1>3, <1>4 DEF Tiles

\* The segments gpt_mbr() adds.
MbrSegs == [k \in DOMAIN mbr.parts |-> Seg(mbr.parts[k].start, mbr.parts[k].size, "mbr_part", k)]

\* They are as AddAll() wants them.
LEMMA MbrSegsOK ==
    ASSUME DiskT, MbrSane(mbr)
    PROVE  /\ SegsOK(MbrSegs, DOMAIN MbrSegs, "mbr_part")
           /\ Len(MbrSegs) = Len(mbr.parts) /\ DOMAIN MbrSegs = 1 .. Len(mbr.parts)
           /\ \A k \in 1 .. Len(mbr.parts) :
                /\ MbrSegs[k].type = "mbr_part" /\ MbrSegs[k].index = k
                /\ MbrSegs[k].start = mbr.parts[k].start /\ MbrSegs[k].size = mbr.parts[k].size
<1> DEFINE n == Len(mbr.parts)
<1>1. DOMAIN mbr.parts = 1 .. n /\ n \in Nat /\ \A k \in 1 .. n : mbr.parts[k] \in MbrPart
  BY MbrIs
<1> HIDE DEF n
<1>2. \A k \in 1 .. n : mbr.parts[k].start \in Int /\ mbr.parts[k].size \in Int
  BY <1>1 DEF MbrPart
<1>3. /\ MbrSegs \in [1 .. n -> SegRec]
      /\ \A k \in 1 .. n : /\ MbrSegs[k] \in SegRec
                           /\ MbrSegs[k].type = "mbr_part" /\ MbrSegs[k].index = k
                           /\ MbrSegs[k].start = mbr.parts[k].start /\ MbrSegs[k].size = mbr.parts[k].size
  <2>1. ASSUME NEW k \in 1 .. n
        PROVE  LET x == Seg(mbr.parts[k].start, mbr.parts[k].size, "mbr_part", k)
               IN  x \in SegRec /\ x.type = "mbr_part" /\ x.index = k
                   /\ x.start = mbr.parts[k].start /\ x.size = mbr.parts[k].size
    <3>1. k \in Nat /\ "mbr_part" \in Kinds
      BY <1>1 DEF Kinds
    <3> QED BY <1>2, <3>1, SegIs
  <2> QED BY <1>1, <2>1 DEF MbrSegs
<1>4. MbrSegs \in Seq(SegRec) /\ Len(MbrSegs) = n /\ DOMAIN MbrSegs = 1 .. n
  BY <1>1, <1>3, FunctionSeq
<1>5. \A k \in 1 .. n : mbr.parts[k].start >= 2 /\ mbr.parts[k].size > 0
  BY DEF MbrSane, n
<1>6. \A j, k \in 1 .. n : j # k => MbrSegs[j].start # MbrSegs[k].start
  <2> SUFFICES ASSUME NEW j \in 1 .. n, NEW k \in 1 .. n, j # k
               PROVE  MbrSegs[j].start # MbrSegs[k].start
    OBVIOUS
  <2>1. Apart(mbr.parts[j], mbr.parts[k])
    BY DEF MbrSane, n
  <2> QED BY <1>2, <1>3, <1>5, <2>1 DEF Apart
<1>7. \A k \in 1 .. n : MbrSegs[k].start >= 0 /\ MbrSegs[k].size >= 0
  BY <1>2, <1>3, <1>5
<1>8. SegsOK(MbrSegs, DOMAIN MbrSegs, "mbr_part")
  BY <1>3, <1>4, <1>6, <1>7 DEF SegsOK
<1> QED BY <1>3, <1>4, <1>8 DEF n

\* What gpt_mbr() makes of an empty map.
LEMMA MbrMap ==
    ASSUME DiskT, MbrSane(mbr), NEW nombr, gpt_mbr(map_init(media), nombr) # Null
    PROVE  LET r == gpt_mbr(map_init(media), nombr)
           IN  /\ Tiles(r, media)
               /\ ~nombr /\ mbr.kind # "none" => \A k \in 1 .. Len(mbr.parts) : Has(r, MbrSegs[k])
               /\ nombr => ~map_find(r, "mbr_part")
               /\ ~map_find(r, "gpt_part")
<1> DEFINE m == map_init(media)
           s == Seg(0, 1, mbr.kind, 0)
           m1 == map_add(m, s)
           r == gpt_mbr(m, nombr)
<1>0. Tiles(m, media)
  BY InitTiles
<1>g. ~map_find(r, "gpt_part")
  <2>1. \A t : map_find(r, t) => t \in {"unused", "pmbr", "mbr", "mbr_part"}
    BY MbrAdds
  <2>2. "gpt_part" \notin {"unused", "pmbr", "mbr", "mbr_part"}
    OBVIOUS
  <2> HIDE DEF r
  <2> QED BY <2>1, <2>2, Zenon
<1>f. ~map_find(m, "mbr_part")
  BY DEF map_init, map_find, Seg
<1> HIDE DEF m
<1>1. CASE mbr.kind = "none"
  <2>1. r = m
    BY <1>1 DEF gpt_mbr
  <2>2. Tiles(r, media) /\ ~map_find(r, "mbr_part")
    BY <1>0, <1>f, <2>1
  <2> HIDE DEF r
  <2> QED BY <1>1, <1>g, <2>2 DEF r, m
<1>2. CASE mbr.kind # "none"
  <2>1. s \in SegRec /\ s.type = mbr.kind /\ s.start = 0 /\ s.size = 1 /\ s.type \in {"pmbr", "mbr"}
    <3>1. mbr.kind \in Kinds /\ mbr.kind \in {"pmbr", "mbr"}
      BY <1>2, MbrIs DEF Kinds
    <3> QED BY <3>1, SegIs
  <2>2. r = IF nombr \/ m1 = Null THEN m1 ELSE AddAll(m1, MbrSegs, DOMAIN MbrSegs)
    BY <1>2 DEF gpt_mbr, MbrSegs
  <2>3. r # Null
    BY DEF m
  <2> HIDE DEF s
  <2>4. m1 # Null
    <3> HIDE DEF m1, r
    <3> QED BY <2>2, <2>3
  <2>5. Tiles(m1, media) /\ AddView(m, s, m1)
    <3>1. s.start >= 0 /\ s.size >= 0 /\ s.type # "unused"
      BY <2>1
    <3> QED BY <1>0, <2>1, <2>4, <3>1, AddTiles
  <2>6. ~map_find(m1, "mbr_part")
    <3> HIDE DEF m1
    <3> SUFFICES ASSUME NEW j \in 1 .. Len(m1), m1[j].type = "mbr_part" PROVE FALSE
      BY DEF map_find
    <3>1. Has(m1, m1[j])
      BY DEF Has
    <3>2. Has(m, m1[j])
      BY <2>1, <2>5, <3>1 DEF AddView
    <3> QED BY <1>f, <3>2 DEF Has, map_find
  <2>7. CASE nombr
    <3>1. r = m1
      BY <2>2, <2>7
    <3> HIDE DEF r, m1
    <3> QED BY <1>g, <2>5, <2>6, <2>7, <3>1 DEF r, m
  <2>8. CASE ~nombr
    <3>1. r = AddAll(m1, MbrSegs, DOMAIN MbrSegs)
      BY <2>2, <2>4, <2>8
    <3> HIDE DEF r, m1
    <3>2. SegsOK(MbrSegs, DOMAIN MbrSegs, "mbr_part") /\ DOMAIN MbrSegs = 1 .. Len(mbr.parts)
      BY MbrSegsOK
    <3>3. Tiles(r, media) /\ AllView(m1, MbrSegs, DOMAIN MbrSegs, "mbr_part", r)
      BY <2>3, <2>5, <3>1, <3>2, AddAllView
    <3>4. \A k \in 1 .. Len(mbr.parts) : Has(r, MbrSegs[k])
      BY <3>2, <3>3 DEF AllView
    <3> QED BY <1>g, <2>8, <3>3, <3>4 DEF r, m
  <2> QED BY <2>7, <2>8
<1> QED BY <1>1, <1>2

\* The partitions of a table of n entries: room for both copies on a medium
\* whose last sector is L, partitions that are not empty, lie between the
\* copies and have no sector in common.
LaidIn(n, t, L) ==
    /\ n > 0 => 2 + 2 * Blocks(n) <= L
    /\ \A i \in 0 .. n - 1 : t[i].used =>
         /\ t[i].size > 0 /\ t[i].start >= 2 + Blocks(n)
         /\ t[i].start + t[i].size <= L - Blocks(n)
    /\ \A i, j \in 0 .. n - 1 : i # j /\ t[i].used /\ t[j].used => Apart(t[i], t[j])

\* The segment of entry j.
PartSeg(t, j) == Seg(t[j].start, t[j].size, "gpt_part", j + 1)
\* The map has a segment of this type and place.
InMap(m, type, start, size) ==
    \E h \in SegRec : Has(m, h) /\ h.type = type /\ h.start = start /\ h.size = size
\* What a map shows of a disk with both copies of table t.
OpenView(m, n, t, L) ==
    /\ Tiles(m, L + 1)
    /\ InMap(m, "pri_tbl", 2, Blocks(n))
    /\ InMap(m, "sec_tbl", L - Blocks(n), Blocks(n))
    /\ InMap(m, "sec_hdr", L, 1)
    /\ \A j \in 0 .. n - 1 : t[j].used => Has(m, PartSeg(t, j))
    /\ \A h : Has(m, h) /\ h.type = "gpt_part" => \E j \in 0 .. n - 1 : t[j].used /\ h = PartSeg(t, j)

\* What a segment added elsewhere leaves alone.
LEMMA AddKeeps ==
    ASSUME NEW g, NEW s, NEW r, AddView(g, s, r)
    PROVE  /\ \A h \in SegRec :
                Has(g, h) /\ h.type \notin {"unused", "mbr_part"} /\ (h.start # s.start \/ h.size # s.size)
                  => Has(r, h)
           /\ \A h : Has(r, h) /\ h.type = "gpt_part" /\ s.type # "gpt_part" => Has(g, h)
           /\ InMap(r, s.type, s.start, s.size)
           /\ \A ty, a, b : InMap(g, ty, a, b) /\ ty \notin {"unused", "mbr_part"} /\ (a # s.start \/ b # s.size)
                  => InMap(r, ty, a, b)
<1>1. \A h \in SegRec :
        Has(g, h) /\ h.type \notin {"unused", "mbr_part"} /\ (h.start # s.start \/ h.size # s.size)
          => Has(r, h)
  BY DEF AddView, MayReplace
<1>2. \A h : Has(r, h) /\ h.type = "gpt_part" /\ s.type # "gpt_part" => Has(g, h)
  BY DEF AddView
<1>3. InMap(r, s.type, s.start, s.size)
  BY DEF AddView, InMap
<1>4. \A ty, a, b : InMap(g, ty, a, b) /\ ty \notin {"unused", "mbr_part"} /\ (a # s.start \/ b # s.size)
                  => InMap(r, ty, a, b)
  BY <1>1 DEF InMap
<1> QED BY <1>1, <1>2, <1>3, <1>4

\* The segments of the entries of a table that is laid.
LEMMA PartSegsOK ==
    ASSUME NEW n \in 1 .. N, NEW t \in TableT, NEW L, LaidIn(n, t, L)
    PROVE  /\ SegsOK(PartSegs(n, t), {k \in 1 .. n : t[k - 1].used}, "gpt_part")
           /\ \A j \in 0 .. n - 1 :
                /\ PartSegs(n, t)[j + 1] = PartSeg(t, j) /\ PartSeg(t, j) \in SegRec
                /\ PartSeg(t, j).type = "gpt_part" /\ PartSeg(t, j).index = j + 1
                /\ PartSeg(t, j).start = t[j].start /\ PartSeg(t, j).size = t[j].size
                /\ t[j].start \in Int /\ t[j].size \in Int
<1> DEFINE segs == PartSegs(n, t)
           S == {k \in 1 .. n : t[k - 1].used}
<1>0. n \in Nat /\ N \in Nat
  BY GeometryAssumption
<1>1. \A j \in 0 .. n - 1 : t[j].start \in Int /\ t[j].size \in Int /\ t[j].start >= 0
  <2>1. \A j \in 0 .. n - 1 : t[j] \in SlotT
    BY <1>0 DEF TableT, Ent
  <2> QED BY <2>1 DEF SlotT
<1>2. ASSUME NEW j \in 0 .. n - 1
      PROVE  /\ segs[j + 1] = PartSeg(t, j) /\ PartSeg(t, j) \in SegRec
             /\ PartSeg(t, j).type = "gpt_part" /\ PartSeg(t, j).index = j + 1
             /\ PartSeg(t, j).start = t[j].start /\ PartSeg(t, j).size = t[j].size
  <2>1. j + 1 \in 1 .. n /\ j + 1 \in Nat /\ (j + 1) - 1 = j /\ "gpt_part" \in Kinds
    BY <1>0 DEF Kinds
  <2>2. segs[j + 1] = Seg(t[(j + 1) - 1].start, t[(j + 1) - 1].size, "gpt_part", j + 1)
    BY <2>1, Zenon DEF PartSegs
  <2>3. segs[j + 1] = PartSeg(t, j)
    BY <2>1, <2>2 DEF PartSeg
  <2> HIDE DEF segs
  <2> DEFINE x == t[j].start
             y == t[j].size
             v == j + 1
  <2>4. x \in Int /\ y \in Int /\ v \in Nat
    BY <1>1, <2>1
  <2>5. PartSeg(t, j) = Seg(x, y, "gpt_part", v)
    BY DEF PartSeg
  <2>6. segs[v] = PartSeg(t, j)
    BY <2>3
  <2> HIDE DEF x, y, v
  <2>7. /\ PartSeg(t, j) \in SegRec /\ PartSeg(t, j).type = "gpt_part" /\ PartSeg(t, j).index = v
        /\ PartSeg(t, j).start = x /\ PartSeg(t, j).size = y
    BY <2>1, <2>4, <2>5, SegIs
  <2> QED BY <2>6, <2>7 DEF x, y, v
<1>3. \A k \in 1 .. n : k - 1 \in 0 .. n - 1 /\ (k - 1) + 1 = k
  BY <1>0
<1>4. ASSUME NEW k \in 1 .. n
      PROVE  /\ segs[k] \in SegRec /\ segs[k].type = "gpt_part" /\ segs[k].index = k
             /\ segs[k].start = t[k - 1].start /\ segs[k].size = t[k - 1].size
  <2> DEFINE j == k - 1
  <2>1. j \in 0 .. n - 1 /\ j + 1 = k
    BY <1>3
  <2> HIDE DEF j, segs
  <2>2. /\ segs[j + 1] \in SegRec /\ segs[j + 1].type = "gpt_part" /\ segs[j + 1].index = j + 1
        /\ segs[j + 1].start = t[j].start /\ segs[j + 1].size = t[j].size
    BY <1>2, <2>1
  <2> QED BY <2>1, <2>2 DEF j
<1>5. segs \in Seq(SegRec) /\ Len(segs) = n
  <2>1. segs = [k \in 1 .. n |-> segs[k]]
    BY DEF PartSegs
  <2> HIDE DEF segs
  <2>2. segs \in [1 .. n -> SegRec]
    BY <1>4, <2>1
  <2> QED BY <1>0, <2>2, FunctionSeq
<1> HIDE DEF segs
<1>6. ASSUME NEW j \in S, NEW k \in S, j # k PROVE segs[j].start # segs[k].start
  <2> DEFINE x == j - 1
             y == k - 1
  <2>1. x \in 0 .. n - 1 /\ y \in 0 .. n - 1 /\ x # y /\ t[x].used /\ t[y].used
    BY <1>0, <1>6
  <2>2. segs[j].start = t[x].start /\ segs[k].start = t[y].start
    BY <1>4
  <2> HIDE DEF x, y
  <2>3. Apart(t[x], t[y]) /\ t[x].size > 0 /\ t[y].size > 0
    BY <2>1 DEF LaidIn
  <2> QED BY <1>1, <2>1, <2>2, <2>3 DEF Apart
<1>7. ASSUME NEW k \in S
      PROVE  segs[k].type = "gpt_part" /\ segs[k].start >= 0 /\ segs[k].size >= 0 /\ segs[k].index = k
  <2> DEFINE x == k - 1
  <2>1. x \in 0 .. n - 1 /\ t[x].used /\ k \in 1 .. n
    BY <1>0
  <2>2. segs[k].type = "gpt_part" /\ segs[k].index = k /\ segs[k].start = t[x].start /\ segs[k].size = t[x].size
    BY <1>4, <2>1
  <2> HIDE DEF x
  <2>3. t[x].size > 0
    BY <2>1 DEF LaidIn
  <2> QED BY <1>1, <2>1, <2>2, <2>3
<1>8. S \subseteq 1 .. Len(segs)
  BY <1>5
<1> HIDE DEF S
<1>9. SegsOK(segs, S, "gpt_part")
  BY <1>5, <1>6, <1>7, <1>8 DEF SegsOK
<1> QED BY <1>1, <1>2, <1>9 DEF segs, S

\* The map of a disk with both copies of a table that is laid.
LEMMA OpenBoth ==
    ASSUME DiskT, MbrSane(mbr), NEW nombr, gpt_open(nombr) # Null,
           \A c \in Copies : Intact(c), NEW n, n = hdr["pri"].n, n = hdr["sec"].n,
           NEW t, t = tbl["pri"], LaidIn(n, t, Last1)
    PROVE  OpenView(gpt_open(nombr), n, t, Last1)
<1> DEFINE m == gpt_mbr(map_init(media), nombr)
           L == Last1
           b == Blocks(n)
           p1 == map_add(m, HdrSeg("pri"))
           p2 == map_add(p1, TblSeg("pri", n))
           segs == PartSegs(n, t)
           S == {k \in 1 .. n : t[k - 1].used}
           p3 == AddAll(p2, segs, S)
           q1 == map_add(p3, HdrSeg("sec"))
           q2 == map_add(q1, TblSeg("sec", n))
<1>0. /\ n \in 1 .. N /\ t \in TableT /\ n > 0
  BY GeometryAssumption DEF DiskT, Copies, Intact
<1>1. m # Null /\ p1 # Null /\ p2 # Null /\ p3 # Null /\ q1 # Null /\ q2 # Null /\ gpt_open(nombr) = q2
  <2> DEFINE p == gpt_gpt(m, "pri")
             r == gpt_gpt(p, "sec")
             a2 == IF p1 = Null THEN Null ELSE map_add(p1, TblSeg("pri", n))
             d1 == map_add(p, HdrSeg("sec"))
             d2 == IF d1 = Null THEN Null ELSE map_add(d1, TblSeg("sec", n))
  <2>1. gpt_open(nombr) = r
    BY DEF gpt_open
  <2>2. p = IF m = Null THEN m ELSE IF a2 = Null THEN a2 ELSE AddAll(a2, segs, S)
    <3> HIDE DEF m
    <3> QED BY DEF gpt_gpt, Copies
  <2>3. r = IF p = Null THEN p ELSE d2
    <3> HIDE DEF p
    <3> QED BY DEF gpt_gpt, Copies
  <2> HIDE DEF m, p, r, segs, S
  <2>4. r # Null
    BY <2>1
  <2>5. p # Null /\ d1 # Null /\ d2 # Null
    <3> HIDE DEF d1
    <3> QED BY <2>3, <2>4
  <2>6. m # Null /\ p1 # Null /\ a2 # Null
    <3> HIDE DEF p1
    <3> QED BY <2>2, <2>5
  <2>7. a2 = p2
    BY <2>6
  <2>8. p = p3
    <3> HIDE DEF a2, p2
    <3> QED BY <2>2, <2>6, <2>7
  <2>9. d1 = q1
    BY <2>8
  <2>10. d2 = q2
    <3> HIDE DEF d1, q1
    <3> QED BY <2>5, <2>9
  <2> HIDE DEF a2, d1, d2, p1, p2, p3, q1, q2
  <2> QED BY <2>1, <2>3, <2>5, <2>6, <2>7, <2>8, <2>9, <2>10
<1>2. /\ L \in Nat /\ L + 1 = media /\ b \in Nat /\ b >= 1 /\ 2 + 2 * b <= L
  <2>1. b \in Nat /\ b >= 1
    BY <1>0, BlocksIs
  <2> QED BY <1>0, <2>1, MbrIs DEF Last1, LaidIn
<1>k. {"pri_hdr", "pri_tbl", "sec_hdr", "sec_tbl"} \subseteq Kinds
  BY DEF Kinds
<1>3. /\ HdrSeg("pri") \in SegRec /\ HdrSeg("pri").type = "pri_hdr"
      /\ HdrSeg("pri").start = 1 /\ HdrSeg("pri").size = 1
      /\ TblSeg("pri", n) \in SegRec /\ TblSeg("pri", n).type = "pri_tbl"
      /\ TblSeg("pri", n).start = 2 /\ TblSeg("pri", n).size = b
  <2>1. HdrSeg("pri") = Seg(1, 1, "pri_hdr", 0) /\ TblSeg("pri", n) = Seg(2, b, "pri_tbl", 0)
    BY DEF HdrSeg, TblSeg
  <2>2. b \in Int /\ 1 \in Int /\ 2 \in Int /\ 0 \in Nat
    BY <1>2
  <2> HIDE DEF b, L
  <2> QED BY <1>k, <2>1, <2>2, SegIs
<1>4. /\ HdrSeg("sec") \in SegRec /\ HdrSeg("sec").type = "sec_hdr"
      /\ HdrSeg("sec").start = L /\ HdrSeg("sec").size = 1
      /\ TblSeg("sec", n) \in SegRec /\ TblSeg("sec", n).type = "sec_tbl"
      /\ TblSeg("sec", n).start = L - b /\ TblSeg("sec", n).size = b
  <2>1. HdrSeg("sec") = Seg(L, 1, "sec_hdr", 0) /\ TblSeg("sec", n) = Seg(L - b, b, "sec_tbl", 0)
    BY DEF HdrSeg, TblSeg
  <2> DEFINE x == L - b
  <2>2. TblSeg("sec", n) = Seg(x, b, "sec_tbl", 0) /\ x \in Int /\ L \in Int /\ b \in Int
    BY <1>2, <2>1
  <2> HIDE DEF b, x, L
  <2>3. /\ HdrSeg("sec") \in SegRec /\ HdrSeg("sec").type = "sec_hdr"
        /\ HdrSeg("sec").start = L /\ HdrSeg("sec").size = 1
        /\ TblSeg("sec", n) \in SegRec /\ TblSeg("sec", n).type = "sec_tbl"
        /\ TblSeg("sec", n).start = x /\ TblSeg("sec", n).size = b
    BY SMTT(40), <1>k, <2>1, <2>2, SegIs
  <2> QED BY <2>3 DEF x
<1>5. Tiles(m, L + 1) /\ ~map_find(m, "gpt_part")
  BY <1>1, <1>2, MbrMap
<1>6. /\ SegsOK(segs, S, "gpt_part")
      /\ \A j \in 0 .. n - 1 :
           /\ segs[j + 1] = PartSeg(t, j) /\ PartSeg(t, j) \in SegRec
           /\ PartSeg(t, j).type = "gpt_part" /\ PartSeg(t, j).index = j + 1
           /\ PartSeg(t, j).start = t[j].start /\ PartSeg(t, j).size = t[j].size
           /\ t[j].start \in Int /\ t[j].size \in Int
  BY <1>0, PartSegsOK
<1>7. \A k \in S : k - 1 \in 0 .. n - 1 /\ t[k - 1].used /\ segs[k] = PartSeg(t, k - 1)
  <2>1. ASSUME NEW k \in S PROVE k - 1 \in 0 .. n - 1 /\ t[k - 1].used /\ (k - 1) + 1 = k
    BY <1>0
  <2> HIDE DEF segs, S
  <2> QED BY <1>6, <2>1
<1>8. \A j \in 0 .. n - 1 : t[j].used => j + 1 \in S
  <2> SUFFICES ASSUME NEW j \in 0 .. n - 1, t[j].used PROVE j + 1 \in S
    OBVIOUS
  <2>1. j + 1 \in 1 .. n /\ (j + 1) - 1 = j
    BY <1>0
  <2> QED BY <2>1
<1>l. \A j \in 0 .. n - 1 : t[j].used => /\ t[j].size > 0 /\ t[j].start >= 2 + b
                                         /\ t[j].start + t[j].size <= L - b
  BY DEF LaidIn
<1> HIDE DEF m, L, b, segs, S
<1>9. Tiles(p1, L + 1) /\ AddView(m, HdrSeg("pri"), p1)
  BY <1>1, <1>3, <1>5, AddTiles
<1>p. p2 = map_add(p1, TblSeg("pri", n)) /\ p3 = AddAll(p2, segs, S) /\ q1 = map_add(p3, HdrSeg("sec"))
      /\ q2 = map_add(q1, TblSeg("sec", n))
  OBVIOUS
<1> HIDE DEF p1
<1>10. Tiles(p2, L + 1) /\ AddView(p1, TblSeg("pri", n), p2)
  BY <1>1, <1>2, <1>3, <1>9, AddTiles
<1> HIDE DEF p2
<1>11. Tiles(p3, L + 1) /\ AllView(p2, segs, S, "gpt_part", p3)
  BY <1>1, <1>6, <1>10, AddAllView
<1> HIDE DEF p3
<1>12. Tiles(q1, L + 1) /\ AddView(p3, HdrSeg("sec"), q1)
  BY <1>1, <1>2, <1>4, <1>11, AddTiles
<1> HIDE DEF q1
<1>13. Tiles(q2, L + 1) /\ AddView(q1, TblSeg("sec", n), q2)
  BY <1>1, <1>2, <1>4, <1>12, AddTiles
<1> HIDE DEF q2
<1>14. InMap(q2, "pri_tbl", 2, b)
  <2>1. PICK h \in SegRec : Has(p2, h) /\ h.type = "pri_tbl" /\ h.start = 2 /\ h.size = b
    BY <1>3, <1>10, AddKeeps DEF InMap
  <2>2. \A k \in S : h.start # segs[k].start
    BY <1>2, <1>6, <1>7, <1>l, <2>1
  <2>3. Has(p3, h)
    BY <1>11, <2>1, <2>2 DEF AllView
  <2>4. InMap(p3, "pri_tbl", 2, b)
    BY <2>1, <2>3 DEF InMap
  <2>5. 2 # HdrSeg("sec").start /\ 2 # TblSeg("sec", n).start
    BY <1>2, <1>4
  <2>6. InMap(q1, "pri_tbl", 2, b)
    BY <1>12, <2>4, <2>5, AddKeeps
  <2> QED BY <1>13, <2>5, <2>6, AddKeeps
<1>15. InMap(q2, "sec_tbl", L - b, b)
  BY <1>4, <1>13, AddKeeps
<1>16. InMap(q2, "sec_hdr", L, 1)
  <2>1. InMap(q1, "sec_hdr", L, 1)
    BY <1>4, <1>12, AddKeeps
  <2>2. L # TblSeg("sec", n).start
    BY <1>2, <1>4
  <2> QED BY <1>13, <2>1, <2>2, AddKeeps
<1>17. ASSUME NEW j \in 0 .. n - 1, t[j].used PROVE Has(q2, PartSeg(t, j))
  <2>1. j + 1 \in S /\ segs[j + 1] = PartSeg(t, j)
    BY <1>6, <1>8, <1>17
  <2>2. Has(p3, PartSeg(t, j))
    BY <1>11, <2>1 DEF AllView
  <2> DEFINE h == PartSeg(t, j)
  <2>3. h \in SegRec /\ h.type = "gpt_part" /\ h.start # L /\ h.start # L - b
    BY <1>2, <1>6, <1>17, <1>l
  <2> HIDE DEF h
  <2>4. Has(q1, h)
    BY <1>4, <1>12, <2>2, <2>3, AddKeeps DEF h
  <2>5. Has(q2, h)
    BY <1>4, <1>13, <2>3, <2>4, AddKeeps
  <2> QED BY <2>5 DEF h
<1>18. ASSUME NEW h, Has(q2, h), h.type = "gpt_part"
       PROVE  \E j \in 0 .. n - 1 : t[j].used /\ h = PartSeg(t, j)
  <2>1. Has(q1, h)
    BY <1>4, <1>13, <1>18, AddKeeps
  <2>2. Has(p3, h)
    BY <1>4, <1>12, <1>18, <2>1, AddKeeps
  <2>3. Has(p2, h) \/ \E k \in S : h = segs[k]
    BY <1>11, <1>18, <2>2 DEF AllView
  <2>4. ~Has(p2, h)
    <3> SUFFICES ASSUME Has(p2, h) PROVE FALSE
      OBVIOUS
    <3>1. Has(p1, h)
      BY <1>3, <1>10, <1>18, AddKeeps
    <3>2. Has(m, h)
      BY <1>3, <1>9, <1>18, <3>1, AddKeeps
    <3> QED BY <1>5, <1>18, <3>2 DEF Has, map_find
  <2> QED BY <1>7, <2>3, <2>4
<1>19. OpenView(q2, n, t, L)
  BY <1>13, <1>14, <1>15, <1>16, <1>17, <1>18 DEF OpenView, b
<1> QED BY <1>1, <1>19 DEF L

-----------------------------------------------------------------------------
(* Room for a partition *)

\* What lies outside segments k to l of a map that fills the medium.
LEMMA TilesApart ==
    ASSUME NEW m, NEW z, Tiles(m, z), NEW k \in 1 .. Len(m), NEW l \in 1 .. Len(m), k <= l,
           NEW j \in 1 .. Len(m), j \notin k .. l
    PROVE  End(m[j]) <= m[k].start \/ End(m[l]) <= m[j].start
<1>1. Len(m) \in Nat
  BY DEF Tiles
<1>2. j < k \/ l < j
  BY <1>1
<1>3. CASE j < k
  BY <1>3, TilesSorted
<1>4. CASE l < j
  BY <1>4, TilesSorted
<1> QED BY <1>2, <1>3, <1>4

\* No segment goes beyond the medium.
LEMMA TilesEnd ==
    ASSUME NEW m, NEW z, Tiles(m, z), NEW j \in 1 .. Len(m)
    PROVE  /\ m[j] \in SegRec /\ m[j].start \in Int /\ m[j].size \in Int /\ m[j].size >= 0
           /\ z \in Int /\ End(m[j]) <= z /\ m[j].start >= 0
<1>1. Len(m) \in Nat /\ Len(m) > 0 /\ m[Len(m)].start + m[Len(m)].size = z /\ m[1].start = 0
      /\ \A i \in 1 .. Len(m) : m[i] \in SegRec /\ m[i].size >= 0
  BY DEF Tiles
<1>2. \A i \in 1 .. Len(m) : m[i].start \in Int /\ m[i].size \in Int
  BY <1>1 DEF SegRec
<1>3. Len(m) \in 1 .. Len(m) /\ 1 \in 1 .. Len(m)
  BY <1>1
<1>4. j = Len(m) \/ End(m[j]) <= m[Len(m)].start
  <2>1. j = Len(m) \/ j < Len(m)
    BY <1>1
  <2> QED BY <1>3, <2>1, TilesSorted
<1>5. j = 1 \/ End(m[1]) <= m[j].start
  <2>1. j = 1 \/ 1 < j
    BY <1>1
  <2> QED BY <1>3, <2>1, TilesSorted
<1> QED BY SMTT(40), <1>1, <1>2, <1>3, <1>4, <1>5 DEF End

\* An extent in segments k to l, which are free or of entry i.
Spot(m, i, k, l, st, sz) ==
    /\ k \in 1 .. Len(m) /\ l \in 1 .. Len(m) /\ k <= l
    /\ \A p \in k .. l : m[p].type = "unused" \/ (m[p].type = "gpt_part" /\ m[p].index = i + 1)
    /\ st \in Int /\ sz \in Int
    /\ m[k].start >= 2 /\ st >= m[k].start /\ sz > 0 /\ st + sz <= End(m[l])
\* An extent in which entry i may be.
Vacant(n, t, L, i, st, sz) ==
    /\ st >= 2 + Blocks(n) /\ st + sz <= L - Blocks(n)
    /\ \A j \in 0 .. n - 1 : j # i /\ t[j].used => st + sz <= t[j].start \/ t[j].start + t[j].size <= st

\* The first is the second.
LEMMA SpotClear ==
    ASSUME NEW m, NEW n \in 1 .. N, NEW t \in TableT, NEW L \in Nat, OpenView(m, n, t, L), LaidIn(n, t, L),
           NEW i \in 0 .. n - 1, NEW k, NEW l, NEW st, NEW sz, Spot(m, i, k, l, st, sz)
    PROVE  Vacant(n, t, L, i, st, sz)
<1>s. /\ k \in 1 .. Len(m) /\ l \in 1 .. Len(m) /\ k <= l
      /\ \A p \in k .. l : m[p].type = "unused" \/ (m[p].type = "gpt_part" /\ m[p].index = i + 1)
      /\ st \in Int /\ sz \in Int
      /\ m[k].start >= 2 /\ st >= m[k].start /\ sz > 0 /\ st + sz <= End(m[l])
  BY DEF Spot
<1> DEFINE b == Blocks(n)
           lo == m[k].start
           hi == End(m[l])
<1>0. b \in Nat /\ b >= 1
  BY BlocksIs
<1>1. Tiles(m, L + 1) /\ Len(m) \in Nat
  BY DEF OpenView, Tiles
<1>2. /\ m[k].start \in Int /\ m[k].size \in Int /\ m[l].start \in Int /\ m[l].size \in Int
      /\ End(m[l]) <= L + 1
  BY <1>1, <1>s, TilesEnd
<1>3. End(m[l]) \in Int
  BY <1>2 DEF End
<1>a. lo \in Int /\ hi \in Int /\ lo <= st /\ st + sz <= hi
  BY <1>2, <1>3, <1>s
<1> HIDE DEF b
<1>4. ASSUME NEW ty, NEW x \in Int, NEW y \in Int, InMap(m, ty, x, y), ty \notin {"unused", "gpt_part"}
      PROVE  x + y <= m[k].start \/ End(m[l]) <= x
  <2>1. PICK h \in SegRec : Has(m, h) /\ h.type = ty /\ h.start = x /\ h.size = y
    BY <1>4 DEF InMap
  <2>2. PICK p \in 1 .. Len(m) : m[p] = h
    BY <2>1 DEF Has
  <2>3. p \notin k .. l
    BY <1>4, <1>s, <2>1, <2>2
  <2>4. End(m[p]) <= m[k].start \/ End(m[l]) <= m[p].start
    BY <1>1, <1>s, <2>3, TilesApart
  <2> QED BY <2>1, <2>2, <2>4 DEF End
<1>5. 2 + b <= m[k].start
  <2>1. InMap(m, "pri_tbl", 2, b)
    BY DEF OpenView, b
  <2>2. 2 + b <= m[k].start \/ End(m[l]) <= 2
    BY <1>0, <1>4, <2>1
  <2> QED BY <1>2, <1>3, <1>s, <2>2
<1>6. End(m[l]) <= L
  <2>1. InMap(m, "sec_hdr", L, 1)
    BY DEF OpenView
  <2>2. L + 1 <= m[k].start \/ End(m[l]) <= L
    BY <1>4, <2>1
  <2> QED BY <1>2, <1>3, <1>s, <2>2
<1>7. End(m[l]) <= L - b
  <2>1. InMap(m, "sec_tbl", L - b, b)
    BY DEF OpenView, b
  <2>2. L - b \in Int /\ b \in Int
    BY <1>0
  <2>3. (L - b) + b <= m[k].start \/ End(m[l]) <= L - b
    BY <1>4, <2>1, <2>2
  <2> QED BY <1>0, <1>2, <1>3, <1>6, <1>s, <2>3
<1>8. ASSUME NEW j \in 0 .. n - 1, j # i, t[j].used
      PROVE  st + sz <= t[j].start \/ t[j].start + t[j].size <= st
  <2>1. Has(m, PartSeg(t, j))
    BY <1>8 DEF OpenView
  <2>2. PICK p \in 1 .. Len(m) : m[p] = PartSeg(t, j)
    BY <2>1 DEF Has
  <2>3. /\ m[p].type = "gpt_part" /\ m[p].index = j + 1
        /\ m[p].start = t[j].start /\ m[p].size = t[j].size /\ t[j].start \in Int /\ t[j].size \in Int
    <3>1. \A x \in 0 .. n - 1 :
            /\ PartSeg(t, x).type = "gpt_part" /\ PartSeg(t, x).index = x + 1
            /\ PartSeg(t, x).start = t[x].start /\ PartSeg(t, x).size = t[x].size
            /\ t[x].start \in Int /\ t[x].size \in Int
      BY PartSegsOK
    <3> QED BY <2>2, <3>1
  <2>4. p \notin k .. l
    BY SMTT(40), <1>8, <1>s, <2>3
  <2>5. End(m[p]) <= m[k].start \/ End(m[l]) <= m[p].start
    BY <1>1, <1>s, <2>4, TilesApart
  <2>6. t[j].start + t[j].size <= m[k].start \/ End(m[l]) <= t[j].start
    BY <2>3, <2>5 DEF End
  <2> DEFINE x == t[j].start
             y == t[j].size
  <2>7. x \in Int /\ y \in Int /\ (x + y <= lo \/ hi <= x)
    BY <2>3, <2>6
  <2> HIDE DEF x, y, lo, hi
  <2>8. st + sz <= x \/ x + y <= st
    BY SMTT(40), <1>a, <1>s, <2>7
  <2> QED BY <2>8 DEF x, y
<1>9. st >= 2 + b /\ st + sz <= L - b
  <2>1. 2 + b <= lo /\ hi <= L - b
    BY <1>5, <1>7
  <2> HIDE DEF lo, hi
  <2> QED BY <1>0, <1>a, <1>s, <2>1
<1> QED BY <1>8, <1>9 DEF b, Vacant

\* One entry of a laid table changes its place.
LEMMA LaidPut ==
    ASSUME NEW n \in 1 .. N, NEW t \in TableT, NEW L \in Nat, LaidIn(n, t, L), NEW i \in 0 .. n - 1, NEW u,
           \A j \in 0 .. n - 1 : j # i => u[j] = t[j],
           NEW st \in Int, NEW sz \in Int, u[i].start = st, u[i].size = sz, sz > 0,
           Vacant(n, t, L, i, st, sz)
    PROVE  LaidIn(n, u, L)
<1>1. \A j \in 0 .. n - 1 : u[j].used =>
        u[j].size > 0 /\ u[j].start >= 2 + Blocks(n) /\ u[j].start + u[j].size <= L - Blocks(n)
  BY DEF LaidIn, Vacant
<1>2. ASSUME NEW x \in 0 .. n - 1, NEW y \in 0 .. n - 1, x # y, u[x].used, u[y].used
      PROVE  Apart(u[x], u[y])
  <2>1. CASE x # i /\ y # i
    BY <1>2, <2>1 DEF LaidIn
  <2>2. CASE x = i
    BY <1>2, <2>2 DEF Apart, Vacant
  <2>3. CASE y = i
    BY <1>2, <2>3 DEF Apart, Vacant
  <2> QED BY <2>1, <2>2, <2>3
<1>3. n > 0 => 2 + 2 * Blocks(n) <= L
  BY DEF LaidIn
<1> QED BY <1>1, <1>2, <1>3 DEF LaidIn

\* A multiple of a that is not above w.
LEMMA RoundDown ==
    ASSUME NEW w \in Nat, NEW a \in Nat, a > 0
    PROVE  /\ (w \div a) * a \in Nat /\ (w \div a) * a <= w
           /\ w >= a => (w \div a) * a > 0
<1> DEFINE q == w \div a
           y == w % a
<1>1. q \in Nat /\ y \in 0 .. a - 1 /\ w = a * q + y
  OBVIOUS
<1> HIDE DEF q, y
<1>2. q * a \in Nat /\ a * q = q * a
  BY <1>1
<1>3. q * a <= w
  BY <1>1, <1>2
<1>4. ASSUME w >= a PROVE q * a > 0
  <2>1. q # 0
    BY <1>1, <1>4
  <2>2. q >= 1
    BY <1>1, <2>1
  <2> QED BY <1>1, <1>2, <2>2
<1> QED BY <1>2, <1>3, <1>4 DEF q

\* map_alloc() takes the room from one free segment.  An option -b with
\* neither -s nor -a may name the end of a segment, where nothing is free.
LEMMA AllocSpot ==
    ASSUME NEW m, NEW e, Tiles(m, e), NEW b \in Nat, NEW z \in Nat, NEW a \in Nat,
           b = 0 \/ z > 0 \/ a > 0, map_alloc(m, b, z, a).size >= 0
    PROVE  LET x == map_alloc(m, b, z, a)
           IN  /\ x.start \in Int /\ x.size \in Int /\ x.size > 0
               /\ z > 0 /\ a = 0 => x.size = z
               /\ \E k \in 1 .. Len(m) : /\ m[k].type = "unused" /\ m[k].start >= 2
                                         /\ x.start >= m[k].start /\ x.start + x.size <= End(m[k])
<1> DEFINE start == RoundUp(b, a)
           size == RoundUp(z, a)
           room(s) == s.size - allocDelta(s, start, a)
           fits(s) ==
               /\ s.type = "unused" /\ s.start >= 2
               /\ start = 0 \/ s.start <= start
               /\ size = 0 \/ room(s) >= size
               /\ room(s) >= a
           I == {i \in 1 .. Len(m) : fits(m[i])}
           k == IF I # {} THEN Min(I) ELSE 0
           s == m[k]
           rest == IF a > 0 /\ room(s) % a # 0 THEN (room(s) \div a) * a ELSE room(s)
           z1 == IF size = 0 THEN rest ELSE size
           d == allocDelta(s, start, a)
           new == Seg(s.start + d, z1, "gpt_part", 0)
<1>1. map_alloc(m, b, z, a) = IF k = 0 \/ map_add(m, new) = Null THEN Seg(0, 0 - 1, "unused", 0) ELSE new
  BY DEF map_alloc, SelectInSeq
<1>2. /\ start \in Nat /\ size \in Nat /\ start >= b /\ size >= z
      /\ b = 0 => start = 0
      /\ a = 0 => size = z /\ start = b
  <2>1. start \in Nat /\ size \in Nat /\ start >= b /\ size >= z
    BY RoundUpIs
  <2>2. a > 0 => 0 % a = 0
    OBVIOUS
  <2>3. b = 0 => start = 0
    BY <2>2 DEF RoundUp
  <2>4. a = 0 => size = z /\ start = b
    BY DEF RoundUp
  <2> QED BY <2>1, <2>3, <2>4
<1>3. k # 0 /\ map_alloc(m, b, z, a) = new
  <2>1. Seg(0, 0 - 1, "unused", 0).size = 0 - 1
    BY DEF Seg
  <2> HIDE DEF k, new
  <2> QED BY <1>1, <2>1
<1>4. I \subseteq Nat /\ I # {} /\ k = Min(I)
  <2>1. I \subseteq 1 .. Len(m) /\ Len(m) \in Nat
    BY DEF Tiles
  <2> HIDE DEF I
  <2>2. I # {} /\ k = Min(I)
    BY <1>3
  <2> QED BY <2>1, <2>2
<1>5. k \in I
  <2> HIDE DEF I, k
  <2> QED BY <1>4, LeastOf
<1> HIDE DEF k
<1>6. k \in 1 .. Len(m) /\ fits(s) /\ s.start \in Int /\ s.size \in Int /\ s.size > 0
  <2>1. k \in 1 .. Len(m) /\ fits(m[k]) /\ m[k].type = "unused"
    BY <1>5
  <2>2. m[k].size > 0
    BY <2>1 DEF Tiles
  <2>3. m[k].start \in Int /\ m[k].size \in Int
    BY <2>1, TilesEnd
  <2> QED BY <2>1, <2>2, <2>3
<1> HIDE DEF start, size, s
<1>7. s.start \in Nat /\ s.start >= 2
  BY <1>6
<1>8. d \in Nat /\ (start = 0 /\ a = 0 => d = 0)
  <2>1. CASE start # 0
    BY <1>2, <1>6, <1>7, <2>1 DEF allocDelta
  <2>2. CASE start = 0
    <3>1. RoundUp(s.start, a) \in Nat /\ RoundUp(s.start, a) >= s.start
          /\ (a = 0 => RoundUp(s.start, a) = s.start)
      <4>1. a = 0 => RoundUp(s.start, a) = s.start
        BY DEF RoundUp
      <4> QED BY <1>7, <4>1, RoundUpIs
    <3> QED BY <1>7, <2>2, <3>1 DEF allocDelta
  <2> QED BY <2>1, <2>2
<1> DEFINE w == s.size - d
<1>9. room(s) = w /\ w \in Int /\ (size = 0 \/ w >= size) /\ w >= a
      /\ rest = IF a > 0 /\ w % a # 0 THEN (w \div a) * a ELSE w
  BY <1>6, <1>8
<1> HIDE DEF room, fits, rest, d
<1>10. size = 0 => w > 0
  BY <1>2, <1>6, <1>8, <1>9
<1>w. w = s.size - d
  OBVIOUS
<1> HIDE DEF w
<1>11. size = 0 => rest \in Int /\ rest > 0 /\ rest <= w
  <2> SUFFICES ASSUME size = 0 PROVE rest \in Int /\ rest > 0 /\ rest <= w
    OBVIOUS
  <2>1. w \in Nat /\ w > 0 /\ w >= a
    BY <1>9, <1>10
  <2>2. a > 0 => (w \div a) * a \in Nat /\ (w \div a) * a <= w /\ (w \div a) * a > 0
    BY <2>1, RoundDown
  <2>3. rest = w \/ (a > 0 /\ rest = (w \div a) * a)
    BY <1>9
  <2> QED BY <2>1, <2>2, <2>3
<1>12. z1 \in Int /\ z1 > 0 /\ z1 <= w
  <2>1. size = 0 => z1 = rest
    OBVIOUS
  <2>2. size # 0 => z1 = size
    OBVIOUS
  <2> HIDE DEF z1
  <2> QED BY <1>2, <1>9, <1>11, <2>1, <2>2
<1>13. z > 0 /\ a = 0 => z1 = z
  BY <1>2
<1> HIDE DEF z1
<1>14. new.start = s.start + d /\ new.size = z1
  BY DEF Seg
<1>15. s.type = "unused" /\ End(s) = s.start + s.size
  BY <1>6 DEF fits, End
<1> HIDE DEF new
<1>16. new.start \in Int /\ new.size \in Int /\ new.size > 0 /\ new.start >= s.start
       /\ new.start + new.size <= End(s)
  BY SMTT(40), <1>6, <1>7, <1>8, <1>12, <1>14, <1>15, <1>w
<1>17. \E j \in 1 .. Len(m) : /\ m[j].type = "unused" /\ m[j].start >= 2
                              /\ new.start >= m[j].start /\ new.start + new.size <= End(m[j])
  BY <1>6, <1>7, <1>15, <1>16 DEF s
<1> QED BY <1>3, <1>13, <1>14, <1>16, <1>17

\* map_resize() keeps to the segment and the free one behind it.
LEMMA ResizeSpot ==
    ASSUME NEW m, NEW e, Tiles(m, e), NEW k \in 1 .. Len(m), m[k].size > 0, NEW z \in Nat, NEW a \in Nat,
           map_resize(m, k, z, a) # 0 - 1
    PROVE  LET x == map_resize(m, k, z, a)
           IN  /\ x \in Int /\ x > 0
               /\ \E l \in k .. k + 1 : /\ l \in 1 .. Len(m) /\ (l # k => m[l].type = "unused")
                                        /\ m[k].start + x <= End(m[l])
<1>0. Len(m) \in Nat /\ m[k].start \in Int /\ m[k].size \in Int
  <2>1. Len(m) \in Nat
    BY DEF Tiles
  <2> QED BY <2>1, TilesEnd
<1>1. k < Len(m) => /\ k + 1 \in 1 .. Len(m) /\ m[k + 1].size \in Int /\ m[k + 1].size >= 0
                    /\ m[k + 1].start = m[k].start + m[k].size
  <2> SUFFICES ASSUME k < Len(m)
               PROVE  /\ k + 1 \in 1 .. Len(m) /\ m[k + 1].size \in Int /\ m[k + 1].size >= 0
                      /\ m[k + 1].start = m[k].start + m[k].size
    OBVIOUS
  <2>1. k + 1 \in 1 .. Len(m) /\ k \in 1 .. Len(m) - 1
    BY <1>0
  <2>2. m[k + 1].start = m[k].start + m[k].size
    BY <2>1 DEF Tiles
  <2> DEFINE j == k + 1
  <2>3. j \in 1 .. Len(m)
    BY <2>1
  <2> HIDE DEF j
  <2>4. m[j].size \in Int /\ m[j].size >= 0
    BY <2>3, TilesEnd
  <2> QED BY <2>1, <2>2, <2>4 DEF j
<1> DEFINE x == map_resize(m, k, z, a)
<1>2. ASSUME x \in Int, x > 0, k < Len(m), m[k + 1].type = "unused", x <= m[k].size + m[k + 1].size
      PROVE  \E l \in k .. k + 1 : /\ l \in 1 .. Len(m) /\ (l # k => m[l].type = "unused")
                                   /\ m[k].start + x <= End(m[l])
  <2> HIDE DEF x
  <2> DEFINE st == m[k].start  sz == m[k].size  nx == m[k + 1]
  <2>3. nx.start = st + sz /\ nx.size \in Int /\ st \in Int /\ sz \in Int /\ x \in Int /\ x <= sz + nx.size
    BY <1>0, <1>1, <1>2
  <2>4. st + x <= End(nx)
    <3> HIDE DEF st, sz, nx
    <3> QED BY <2>3 DEF End
  <2>1. m[k].start + x <= End(m[k + 1])
    BY <2>4
  <2>2. k + 1 \in k .. k + 1
    BY <1>0
  <2> QED BY <1>1, <1>2, <2>1, <2>2
<1>3. ASSUME x \in Int, x <= m[k].size
      PROVE  \E l \in k .. k + 1 : /\ l \in 1 .. Len(m) /\ (l # k => m[l].type = "unused")
                                   /\ m[k].start + x <= End(m[l])
  <2> HIDE DEF x
  <2>1. m[k].start + x <= End(m[k]) /\ k \in k .. k + 1
    BY <1>0, <1>3 DEF End
  <2> QED BY <2>1
<1>4. CASE z = 0
  <2> DEFINE all == m[k].size + m[k + 1].size
             max == IF a = 0 THEN all ELSE (all \div a) * a
  <2>1. k # Len(m) /\ m[k + 1].type = "unused" /\ ~(a > 0 /\ max <= m[k].size) /\ x = max
    BY <1>4 DEF map_resize
  <2>2. k < Len(m)
    BY <1>0, <2>1
  <2>3. all \in Nat /\ all >= m[k].size /\ all > 0
    BY SMTT(40), <1>0, <1>1, <2>2
  <2> HIDE DEF all
  <2>4. max \in Nat /\ max <= all
    <3>1. a > 0 => (all \div a) * a \in Nat /\ (all \div a) * a <= all
      BY <2>3, RoundDown
    <3> QED BY <2>3, <3>1
  <2>5. max > 0
    <3>1. CASE a = 0
      BY <2>3, <3>1
    <3>2. CASE a # 0
      <4>1. a > 0
        BY <3>2
      <4> HIDE DEF max
      <4> QED BY <1>0, <2>1, <2>4, <4>1
    <3> QED BY <3>1, <3>2
  <2> HIDE DEF max, x
  <2>6. x \in Int /\ x > 0 /\ x <= all
    BY <2>1, <2>3, <2>4, <2>5
  <2> QED BY <1>2, <2>1, <2>2, <2>6 DEF x, all
<1>5. CASE z # 0
  <2> DEFINE align == IF z # 0 /\ a % z # 0 THEN ((z + a) \div a) * a ELSE z
  <2>1. align \in Int /\ align > 0
    <3>1. a > 0 => ((z + a) \div a) * a \in Nat /\ ((z + a) \div a) * a > 0
      <4> SUFFICES ASSUME a > 0 PROVE ((z + a) \div a) * a \in Nat /\ ((z + a) \div a) * a > 0
        OBVIOUS
      <4> DEFINE w == z + a
      <4>1. w \in Nat /\ w >= a
        OBVIOUS
      <4> HIDE DEF w
      <4>2. (w \div a) * a \in Nat /\ (w \div a) * a > 0
        BY <4>1, RoundDown
      <4> QED BY <4>2 DEF w
    <3>2. a = 0 => a % z = 0
      BY <1>5
    <3>3. align = z \/ (a > 0 /\ align = ((z + a) \div a) * a)
      BY <3>2
    <3> HIDE DEF align
    <3> QED BY <1>5, <3>1, <3>3
  <2>2. x = align /\ (align > m[k].size => growRoom(m, k, align))
    BY <1>5 DEF map_resize
  <2> HIDE DEF align, x
  <2>3. CASE align <= m[k].size
    BY <1>3, <2>1, <2>2, <2>3 DEF x
  <2>4. CASE align > m[k].size
    <3>1. k < Len(m) /\ m[k + 1].type = "unused" /\ m[k + 1].size >= align - m[k].size
      BY <2>2, <2>4 DEF growRoom
    <3>2. x \in Int /\ x > 0 /\ x <= m[k].size + m[k + 1].size
      BY SMTT(40), <1>0, <1>1, <2>1, <2>2, <3>1
    <3> QED BY <1>2, <3>1, <3>2 DEF x
  <2> QED BY <1>0, <2>1, <2>3, <2>4
<1> QED BY <1>4, <1>5

-----------------------------------------------------------------------------
(***************************************************************************)
(* The inductive invariant for Disjoint, as long as no two copies that     *)
(* differ were left behind: the headers on disk, intact or not, and those  *)
(* still to be written are of tables that are laid.                        *)
(***************************************************************************)
HdrsLaid == \A c \in Copies : LaidIn(hdr[c].n, hdr[c].crc, Last1)
CoreLaid ==
    \A c \in Copies : Has(todo, HdrType(c)) \/ left # {} => LaidIn(mem[c].n, mem[c].ent, Last1)
\* rename makes an entry used, and finds it used.
LeftUsed == cmd = "rename" => \A i \in left, c \in Copies : mem[c].ent[i].used
\* An image at this place is between the copies of the GPT and in no partition
\* that begins elsewhere.
ClearOf(n, t, L, at) ==
    /\ at >= 2 + Blocks(n) /\ at + ImageSize <= L - Blocks(n)
    /\ \A i \in 0 .. n - 1 : t[i].used =>
         t[i].start = at \/ at + ImageSize <= t[i].start \/ t[i].start + t[i].size <= at
ImageAt(at) ==
    \A c \in Copies : /\ hdr[c].n > 0 => ClearOf(hdr[c].n, hdr[c].crc, Last1, at)
                      /\ Has(todo, HdrType(c)) => ClearOf(mem[c].n, mem[c].ent, Last1, at)
ImagePlan ==
    Has(todo, "image") =>
        \E i \in gpt_lookup(cmd, mem["pri"].n, mem["pri"].ent) : ImageAt(mem["pri"].ent[i].start)
LPart == HdrsLaid /\ CoreLaid /\ LeftUsed /\ ImagePlan
LInv == SInv /\ (~forked => LPart)

\* A table of which no more entries are used.
LEMMA LaidLess ==
    ASSUME NEW n, NEW t, NEW u, NEW L, LaidIn(n, t, L),
           \A i \in 0 .. n - 1 : u[i].used => t[i].used /\ u[i].start = t[i].start /\ u[i].size = t[i].size
    PROVE  LaidIn(n, u, L)
<1>1. \A i \in 0 .. n - 1 : u[i].used =>
        u[i].size > 0 /\ u[i].start >= 2 + Blocks(n) /\ u[i].start + u[i].size <= L - Blocks(n)
  BY DEF LaidIn
<1>2. ASSUME NEW x \in 0 .. n - 1, NEW y \in 0 .. n - 1, x # y, u[x].used, u[y].used
      PROVE  Apart(u[x], u[y])
  <2>1. Apart(t[x], t[y])
    BY <1>2 DEF LaidIn
  <2> QED BY <1>2, <2>1 DEF Apart
<1>3. n > 0 => 2 + 2 * Blocks(n) <= L
  BY DEF LaidIn
<1> QED BY <1>1, <1>2, <1>3 DEF LaidIn

\* The table a checksum is computed from.
LEMMA SumSame ==
    ASSUME NEW n, NEW t
    PROVE  \A i \in 0 .. n - 1 : Sum(n, t)[i] = t[i]
BY DEF Sum

\* The same of its entries in the header.
LEMMA LaidSum ==
    ASSUME NEW n, NEW t, NEW L
    PROVE  /\ LaidIn(n, t, L) <=> LaidIn(n, Sum(n, t), L)
           /\ \A at : ClearOf(n, t, L, at) <=> ClearOf(n, Sum(n, t), L, at)
<1> DEFINE s == Sum(n, t)
<1>1. \A i \in 0 .. n - 1 : s[i] = t[i]
  BY SumSame
<1> HIDE DEF s
<1>2. LaidIn(n, t, L) => LaidIn(n, s, L)
  BY <1>1, LaidLess
<1>3. LaidIn(n, s, L) => LaidIn(n, t, L)
  BY <1>1, LaidLess
<1>4. \A at : ClearOf(n, t, L, at) <=> ClearOf(n, s, L, at)
  BY <1>1 DEF ClearOf
<1> QED BY <1>2, <1>3, <1>4 DEF s

\* No header, no partitions.
LEMMA NoHdrLaid ==
    ASSUME NEW t, NEW L
    PROVE  LaidIn(0, t, L)
<1>1. 0 .. 0 - 1 = {}
  OBVIOUS
<1> QED BY <1>1 DEF LaidIn

\* What a write leaves of a header, and that a header is as the core has it.
LEMMA PutHdr ==
    ASSUME TInv, NEW w \in Writes, Put(w), NEW c \in Copies
    PROVE  \/ hdr'[c] = hdr[c]
           \/ w = HdrType(c) /\ hdr'[c].n = mem[c].n /\ hdr'[c].crc = Sum(mem[c].n, mem[c].ent)
           \/ hdr'[c].n = 0
<1>1. hdr = [d \in Copies |-> hdr[d]] /\ CoreHdr(c).n = mem[c].n
      /\ CoreHdr(c).crc = Sum(mem[c].n, mem[c].ent) /\ NoHdr.n = 0
  BY DEF TInv, DiskT, CoreHdr, NoHdr
<1>2. w = HdrType(c) => hdr'[c] = CoreHdr(c)
  BY <1>1 DEF Put, HdrType, CopyOf, Copies
<1>3. w # HdrType(c) => hdr'[c] = hdr[c] \/ hdr'[c] = NoHdr
  BY <1>1 DEF Put, HdrType, ZeroType, CopyOf, Copies, Writes
<1> QED BY <1>1, <1>2, <1>3

\* A step from todo to what is left of it, the headers changing at most to
\* those in core.
LEMMA ContinueLaid ==
    ASSUME LPart, media' = media, left' = left, cmd' = "none" \/ cmd' = cmd,
           \A x : Has(todo', x) => Has(todo, x),
           mem' = mem \/ (left = {} /\ \A x : ~Has(todo', x)),
           (\E x : Has(todo', x)) => cmd' = cmd,
           \A c \in Copies : \/ hdr'[c] = hdr[c]
                             \/ /\ Has(todo, HdrType(c)) /\ hdr'[c].n = mem[c].n
                                /\ hdr'[c].crc = Sum(mem[c].n, mem[c].ent)
                             \/ hdr'[c].n = 0
    PROVE  HdrsLaid' /\ CoreLaid' /\ ImagePlan'
<1>0. Last1' = Last1
  BY DEF Last1
<1>1. ASSUME NEW c \in Copies PROVE LaidIn(hdr'[c].n, hdr'[c].crc, Last1)
  <2>1. CASE hdr'[c] = hdr[c]
    BY <2>1 DEF LPart, HdrsLaid
  <2>2. CASE /\ Has(todo, HdrType(c)) /\ hdr'[c].n = mem[c].n
             /\ hdr'[c].crc = Sum(mem[c].n, mem[c].ent)
    <3>1. LaidIn(mem[c].n, mem[c].ent, Last1)
      BY <2>2 DEF LPart, CoreLaid
    <3> QED BY <2>2, <3>1, LaidSum
  <2>3. CASE hdr'[c].n = 0
    BY <2>3, NoHdrLaid
  <2> QED BY <2>1, <2>2, <2>3
<1>2. HdrsLaid'
  BY <1>0, <1>1 DEF HdrsLaid
<1>3. CoreLaid'
  BY <1>0 DEF LPart, CoreLaid
<1>4. ASSUME Has(todo', "image")
      PROVE  \E i \in gpt_lookup(cmd', mem'["pri"].n, mem'["pri"].ent) : ImageAt(mem["pri"].ent[i].start)'
  <2>1. cmd' = cmd /\ mem' = mem /\ Has(todo, "image")
    BY <1>4
  <2>2. PICK i \in gpt_lookup(cmd, mem["pri"].n, mem["pri"].ent) : ImageAt(mem["pri"].ent[i].start)
    BY <2>1 DEF LPart, ImagePlan
  <2> DEFINE at == mem["pri"].ent[i].start
  <2>3. mem'["pri"].ent[i].start = at /\ ImageAt(at)
    BY <2>1, <2>2
  <2> HIDE DEF at
  <2>4. ASSUME NEW c \in Copies, hdr'[c].n > 0 PROVE ClearOf(hdr'[c].n, hdr'[c].crc, Last1, at)
    <3>1. CASE hdr'[c] = hdr[c]
      BY <2>3, <2>4, <3>1 DEF ImageAt
    <3>2. CASE /\ Has(todo, HdrType(c)) /\ hdr'[c].n = mem[c].n
               /\ hdr'[c].crc = Sum(mem[c].n, mem[c].ent)
      <4>1. ClearOf(mem[c].n, mem[c].ent, Last1, at)
        BY <2>3, <3>2 DEF ImageAt
      <4> QED BY <3>2, <4>1, LaidSum
    <3>3. CASE hdr'[c].n = 0
      BY <2>4, <3>3
    <3> QED BY <3>1, <3>2, <3>3
  <2>5. ASSUME NEW c \in Copies, Has(todo', HdrType(c)) PROVE ClearOf(mem'[c].n, mem'[c].ent, Last1, at)
    BY <2>1, <2>3, <2>5 DEF ImageAt
  <2>6. ImageAt(mem["pri"].ent[i].start)'
    BY <1>0, <2>3, <2>4, <2>5 DEF ImageAt
  <2> QED BY <2>1, <2>2, <2>6
<1>5. ImagePlan'
  BY <1>4 DEF ImagePlan
<1> QED BY <1>2, <1>3, <1>5

\* The steps of Continue() keep it.
LEMMA WriteLaid ==
    ASSUME LInv, Write, ~forked'
    PROVE  LPart'
<1> DEFINE w == Head(todo)
           rest == Tail(todo)
           over == rest = <<>> /\ left = {}
<1>1. w \in Writes /\ rest \in Seq(Writes) /\ todo \in Seq(Writes) /\ todo # <<>> /\ TInv
  BY RestIs DEF Write, LInv, SInv, TInv, CoreT
<1>2. /\ Put(w) /\ todo' = rest /\ left' = left /\ mem' = IF over THEN NoCore ELSE mem
      /\ cmd' = (IF over THEN "none" ELSE cmd) /\ media' = media /\ ~forked
  BY DEF Write, Continue
<1>3. \A x : Has(todo, x) <=> x = w \/ Has(rest, x)
  BY <1>1, HasRest
<1>4. over => \A x : ~Has(rest, x)
  <2>1. \A x : ~Has(<<>>, x)
    BY DEF Has
  <2> QED BY <2>1, Zenon
<1> HIDE DEF w, rest, over
<1>5. \A c \in Copies : \/ hdr'[c] = hdr[c]
                        \/ w = HdrType(c) /\ hdr'[c].n = mem[c].n /\ hdr'[c].crc = Sum(mem[c].n, mem[c].ent)
                        \/ hdr'[c].n = 0
  BY <1>1, <1>2, PutHdr
<1>6. \A c \in Copies : \/ hdr'[c] = hdr[c]
                        \/ /\ Has(todo, HdrType(c)) /\ hdr'[c].n = mem[c].n
                           /\ hdr'[c].crc = Sum(mem[c].n, mem[c].ent)
                        \/ hdr'[c].n = 0
  BY <1>3, <1>5
<1>7. LPart
  BY <1>2 DEF LInv
<1>8. mem' = mem \/ (left = {} /\ \A x : ~Has(todo', x))
  BY <1>2, <1>4 DEF over
<1>9. /\ cmd' = "none" \/ cmd' = cmd
      /\ \A x : Has(todo', x) => Has(todo, x)
      /\ (\E x : Has(todo', x)) => cmd' = cmd
  BY <1>2, <1>3, <1>4
<1>10. HdrsLaid' /\ CoreLaid' /\ ImagePlan'
  BY <1>2, <1>6, <1>7, <1>8, <1>9, ContinueLaid
<1>11. LeftUsed'
  BY <1>2, <1>7 DEF LPart, LeftUsed, over
<1> QED BY <1>10, <1>11 DEF LPart

\* A failed write.
LEMMA WriteFailsLaid ==
    ASSUME LInv, WriteFails, ~forked'
    PROVE  LPart'
<1> DEFINE rest == IF cmd = "destroy" THEN <<>> ELSE Tail(todo)
           over == rest = <<>> /\ left = {}
<1>1. todo \in Seq(Writes) /\ todo # <<>>
  BY DEF WriteFails, LInv, SInv, TInv, CoreT
<1>2. /\ todo' = rest /\ left' = left /\ mem' = IF over THEN NoCore ELSE mem
      /\ cmd' = (IF over THEN "none" ELSE cmd) /\ media' = media /\ ~forked /\ hdr' = hdr
  BY DEF WriteFails, Continue, diskVars
<1>n. \A x : ~Has(<<>>, x)
  BY DEF Has
<1>3. \A x : Has(rest, x) => Has(todo, x)
  <2>1. \A x : Has(Tail(todo), x) => Has(todo, x)
    BY <1>1, HasRest
  <2> QED BY <1>n, <2>1
<1>4. over => \A x : ~Has(rest, x)
  BY <1>n, Zenon
<1> HIDE DEF rest, over
<1>7. LPart
  BY <1>2 DEF LInv
<1>8. mem' = mem \/ (left = {} /\ \A x : ~Has(todo', x))
  BY <1>2, <1>4 DEF over
<1>9. /\ cmd' = "none" \/ cmd' = cmd
      /\ \A x : Has(todo', x) => Has(todo, x)
      /\ (\E x : Has(todo', x)) => cmd' = cmd
  BY <1>2, <1>3, <1>4
<1>10. HdrsLaid' /\ CoreLaid' /\ ImagePlan'
  BY <1>2, <1>7, <1>8, <1>9, ContinueLaid
<1>11. LeftUsed'
  BY <1>2, <1>7 DEF LPart, LeftUsed, over
<1> QED BY <1>10, <1>11 DEF LPart

\* A crash: the headers are as they were.
LEMMA CrashLaid ==
    ASSUME LInv, Crash, ~forked'
    PROVE  LPart'
<1>1. cmd' = "none" /\ todo' = <<>> /\ left' = {} /\ hdr' = hdr /\ media' = media /\ ~forked
  BY DEF Crash
<1>2. \A x : ~Has(todo', x)
  BY <1>1 DEF Has
<1>3. Last1' = Last1
  BY <1>1 DEF Last1
<1> QED BY <1>1, <1>2, <1>3 DEF LInv, LPart, HdrsLaid, CoreLaid, LeftUsed, ImagePlan

\* More room at the end.
LEMMA LaidGrows ==
    ASSUME NEW n \in Nat, NEW t, NEW L \in Nat, LaidIn(n, t, L), NEW K \in Nat, K >= L,
           \A i \in 0 .. n - 1 : t[i].start \in Int /\ t[i].size \in Int
    PROVE  LaidIn(n, t, K)
<1>1. Blocks(n) \in Nat
  BY BlocksIs
<1>2. n > 0 => 2 + 2 * Blocks(n) <= K
  BY <1>1 DEF LaidIn
<1>3. ASSUME NEW i \in 0 .. n - 1, t[i].used
      PROVE  t[i].size > 0 /\ t[i].start >= 2 + Blocks(n) /\ t[i].start + t[i].size <= K - Blocks(n)
  <2>1. t[i].size > 0 /\ t[i].start >= 2 + Blocks(n) /\ t[i].start + t[i].size <= L - Blocks(n)
    BY <1>3 DEF LaidIn
  <2> QED BY <1>1, <2>1
<1>4. \A i, j \in 0 .. n - 1 : i # j /\ t[i].used /\ t[j].used => Apart(t[i], t[j])
  BY DEF LaidIn
<1> QED BY <1>2, <1>3, <1>4 DEF LaidIn

\* A larger medium.
LEMMA GrowLaid ==
    ASSUME LInv, Grow, ~forked'
    PROVE  LPart'
<1>1. /\ Ready /\ media' \in Media /\ media' > media /\ hdr' = [hdr EXCEPT !["sec"] = NoHdr]
      /\ cmd' = cmd /\ todo' = todo /\ left' = left /\ mem' = mem /\ forked' = forked
  BY DEF Grow, coreVars, histVars
<1>2. todo = <<>> /\ left = {} /\ cmd = "none"
  BY <1>1, AtRest DEF LInv, Ready
<1>3. \A x : ~Has(todo', x)
  BY <1>1, <1>2 DEF Has
<1>4. media \in Nat /\ media' \in Nat /\ media >= 6 /\ DiskT
  BY <1>1, GeometryAssumption, MbrIs DEF LInv, SInv, TInv
<1>5. Last1 \in Nat /\ Last1' \in Nat /\ Last1' >= Last1
  <2>1. media' > media /\ media' \in Nat /\ media \in Nat /\ media >= 6
    BY <1>1, <1>4
  <2>2. media - 1 \in Nat /\ media' - 1 \in Nat /\ media' - 1 >= media - 1
    <3>1. \A x, y \in Nat : x >= 6 /\ y > x => x - 1 \in Nat /\ y - 1 \in Nat /\ y - 1 >= x - 1
      OBVIOUS
    <3> QED BY <2>1, <3>1, Zenon
  <2> QED BY <2>2 DEF Last1
<1>6. hdr = [c \in Copies |-> hdr[c]]
  BY <1>4 DEF DiskT
<1>7. hdr'["pri"] = hdr["pri"] /\ hdr'["sec"].n = 0
  BY <1>1, <1>6 DEF Copies, NoHdr
<1>8. LaidIn(hdr["pri"].n, hdr["pri"].crc, Last1')
  <2> DEFINE n == hdr["pri"].n
             t == hdr["pri"].crc
  <2>1. n \in 0 .. N /\ t \in [0 .. n - 1 -> SlotT] /\ N \in Nat
    BY <1>4, GeometryAssumption DEF DiskT, Copies
  <2>2. LaidIn(n, t, Last1)
    BY <1>1 DEF LInv, LPart, HdrsLaid, Copies
  <2> HIDE DEF n, t
  <2>3. \A i \in 0 .. n - 1 : t[i].start \in Int /\ t[i].size \in Int
    BY <2>1 DEF SlotT
  <2>4. LaidIn(n, t, Last1')
    BY <1>5, <2>1, <2>2, <2>3, LaidGrows
  <2> QED BY <2>4 DEF n, t
<1>9. HdrsLaid'
  BY <1>7, <1>8, NoHdrLaid DEF HdrsLaid, Copies
<1> QED BY <1>1, <1>2, <1>3, <1>9 DEF LPart, CoreLaid, LeftUsed, ImagePlan

\* The next entry of remove, label or rename.
LEMMA EditNextLaid ==
    ASSUME LInv, EditNext, ~forked'
    PROVE  LPart'
<1>0. PICK i \in left : left' = left \ {i} /\ mem' = InBoth(mem, i, LAMBDA x : Edited(cmd, x))
  BY DEF EditNext
<1>1. /\ i \in Ent /\ mem \in [Copies -> CoreRec] /\ left # {} /\ todo' = BothWrites
      /\ cmd' = cmd /\ hdr' = hdr /\ media' = media /\ ~forked
  BY DEF EditNext, LInv, SInv, TInv, CoreT, diskVars, histVars
<1>2. LPart
  BY <1>1 DEF LInv
<1>3. ASSUME NEW c \in Copies
      PROVE  /\ mem'[c].n = mem[c].n
             /\ mem'[c].ent = [mem[c].ent EXCEPT ![i] = Edited(cmd, mem[c].ent[i])]
  BY <1>0, <1>1 DEF InBoth, CoreRec
<1>4. ASSUME NEW c \in Copies, NEW j \in Ent
      PROVE  mem'[c].ent[j] = IF j = i THEN Edited(cmd, mem[c].ent[i]) ELSE mem[c].ent[j]
  <2>1. mem[c].ent \in TableT
    BY <1>1 DEF CoreRec
  <2> QED BY <1>3, <2>1 DEF TableT
<1>5. ASSUME NEW c \in Copies
      PROVE  LET x == mem[c].ent[i]
             IN  /\ Edited(cmd, x).start = x.start /\ Edited(cmd, x).size = x.size
                 /\ Edited(cmd, x).used => x.used
                 /\ cmd = "rename" => Edited(cmd, x).used
  <2> DEFINE x == mem[c].ent[i]
  <2>1. x \in SlotT
    BY <1>1 DEF CoreRec, TableT
  <2>2. cmd = "rename" => x.used
    BY <1>2 DEF LPart, LeftUsed
  <2> HIDE DEF x
  <2>3. /\ Edited(cmd, x).start = x.start /\ Edited(cmd, x).size = x.size
        /\ Edited(cmd, x).used => x.used
        /\ cmd = "rename" => Edited(cmd, x).used
    BY <2>1, <2>2 DEF Edited, SlotT
  <2> QED BY <2>3 DEF x
<1>6. ASSUME NEW c \in Copies PROVE LaidIn(mem'[c].n, mem'[c].ent, Last1)
  <2>1. LaidIn(mem[c].n, mem[c].ent, Last1)
    BY <1>1, <1>2 DEF LPart, CoreLaid
  <2>2. \A j \in 0 .. mem[c].n - 1 : j \in Ent
    <3>1. mem[c].n \in 0 .. N /\ N \in Nat
      BY <1>1, GeometryAssumption DEF CoreRec
    <3> QED BY <3>1 DEF Ent
  <2> DEFINE n == mem[c].n
             t == mem[c].ent
             u == mem'[c].ent
  <2>3. \A j \in 0 .. n - 1 : u[j].used => t[j].used /\ u[j].start = t[j].start /\ u[j].size = t[j].size
    BY <1>4, <1>5, <2>2
  <2>4. LaidIn(n, t, Last1) /\ mem'[c].n = n
    BY <1>3, <2>1
  <2> HIDE DEF n, t, u
  <2>5. LaidIn(n, u, Last1)
    BY <2>3, <2>4, LaidLess
  <2> QED BY <2>4, <2>5 DEF u
<1>7. Last1' = Last1
  BY <1>1 DEF Last1
<1>8. CoreLaid' /\ HdrsLaid'
  BY <1>1, <1>2, <1>6, <1>7 DEF LPart, CoreLaid, HdrsLaid
<1>9. LeftUsed'
  <2> SUFFICES ASSUME cmd' = "rename", NEW j \in left', NEW c \in Copies PROVE mem'[c].ent[j].used
    BY DEF LeftUsed
  <2>1. j \in left /\ j # i /\ j \in Ent
    BY <1>0 DEF LInv, SInv, TInv, CoreT
  <2> QED BY <1>1, <1>2, <1>4, <2>1 DEF LPart, LeftUsed
<1>10. ~Has(todo', "image")
  <2>1. ~Has(BothWrites, "image")
    BY DEF Has, BothWrites
  <2> QED BY <1>1, <2>1
<1> QED BY <1>8, <1>9, <1>10 DEF LPart, ImagePlan

-----------------------------------------------------------------------------
(* The commands *)

\* What is asked of the MBRs, of the arguments of add and of the commands:
\* migrate -M and a resize that takes an MBR partition for one of the GPT do
\* make partitions that overlap.
Sane ==
    /\ \A x \in Mbrs : MbrSane(x)
    /\ \A x \in AddArgs : x.b = 0 \/ x.s > 0 \/ x.a > 0
    /\ {"migrate_M", "resize_hybrid"} \cap Commands = {}

\* The MBR is sane.
LEMMA MbrIsSane ==
    ASSUME Sane, DiskT
    PROVE  MbrSane(mbr)
<1>1. mbr \in Mbrs => MbrSane(mbr)
  BY DEF Sane
<1>2. Pmbr.parts = <<>> /\ Len(<<>>) = 0 /\ 1 .. 0 = {}
  BY DEF Pmbr
<1>3. mbr = Pmbr => MbrSane(mbr)
  BY <1>2 DEF MbrSane
<1> QED BY <1>1, <1>3 DEF DiskT

\* Two intact copies hold the same table, and it is laid.
LEMMA BothAgree ==
    ASSUME LInv, Ready, ~forked, \A c \in Copies : Intact(c), NEW n, n = hdr["pri"].n
    PROVE  /\ n \in 1 .. N
           /\ \A c \in Copies : /\ hdr[c].n = n /\ tbl[c] \in TableT /\ hdr[c].crc = hdr["pri"].crc
                                /\ LaidIn(n, tbl[c], Last1)
                                /\ \A i \in 0 .. n - 1 : tbl[c][i] = tbl["pri"][i] /\ i \in Ent
<1>1. DiskT /\ LPart /\ N \in Nat
  BY GeometryAssumption DEF LInv, SInv, TInv
<1>2. /\ n \in 1 .. N /\ hdr["sec"].n \in 1 .. N
      /\ hdr["pri"].crc = Sum(n, tbl["pri"]) /\ hdr["sec"].crc = Sum(hdr["sec"].n, tbl["sec"])
  BY <1>1 DEF DiskT, Intact, Copies
<1>3. hdr["pri"].crc = hdr["sec"].crc
  BY DEF LInv, SInv, Keeping, Agree, Differ, Ready, Copies
<1>4. hdr["sec"].n = n
  <2>1. DOMAIN Sum(n, tbl["pri"]) = 0 .. n - 1 /\ DOMAIN Sum(hdr["sec"].n, tbl["sec"]) = 0 .. hdr["sec"].n - 1
    BY DEF Sum
  <2>2. 0 .. n - 1 = 0 .. hdr["sec"].n - 1
    BY <1>2, <1>3, <2>1
  <2>3. n - 1 \in 0 .. n - 1 /\ hdr["sec"].n - 1 \in 0 .. hdr["sec"].n - 1
    BY <1>1, <1>2
  <2>4. n - 1 \in 0 .. hdr["sec"].n - 1 /\ hdr["sec"].n - 1 \in 0 .. n - 1
    BY <2>2, <2>3
  <2> QED BY <1>1, <1>2, <2>4
<1>5. ASSUME NEW c \in Copies
      PROVE  hdr[c].n = n /\ hdr[c].crc = hdr["pri"].crc /\ hdr[c].crc = Sum(n, tbl[c])
  BY <1>2, <1>3, <1>4 DEF Copies
<1>6. ASSUME NEW c \in Copies PROVE LaidIn(n, tbl[c], Last1)
  <2>1. LaidIn(n, Sum(n, tbl[c]), Last1)
    BY <1>1, <1>5 DEF LPart, HdrsLaid
  <2> QED BY <2>1, LaidSum
<1>7. ASSUME NEW c \in Copies, NEW i \in 0 .. n - 1 PROVE tbl[c][i] = tbl["pri"][i] /\ i \in Ent
  <2>1. Sum(n, tbl[c])[i] = tbl[c][i] /\ Sum(n, tbl["pri"])[i] = tbl["pri"][i]
    BY SumSame
  <2>2. Sum(n, tbl[c]) = Sum(n, tbl["pri"])
    BY <1>2, <1>5
  <2> QED BY <1>1, <1>2, <2>1, <2>2 DEF Ent
<1>8. \A c \in Copies : tbl[c] \in TableT
  BY <1>1 DEF DiskT
<1> QED BY <1>2, <1>5, <1>6, <1>7, <1>8

\* An entry is put into free room of the map, in both copies.
LEMMA SpotCore ==
    ASSUME LInv, Ready, ~forked, Sane, NEW nombr, gpt_open(nombr) # Null,
           NEW m, m = gpt_open(nombr), \A c \in Copies : Intact(c), NEW n, n = hdr["pri"].n,
           NEW i \in 0 .. n - 1, NEW k, NEW l, NEW st, NEW sz, Spot(m, i, k, l, st, sz),
           NEW v \in [Copies -> SlotT], \A c \in Copies : v[c].start = st /\ v[c].size = sz
    PROVE  \A c \in Copies : LET r == PutBoth(BothCore, i, v)[c]
                             IN  /\ r.n = n /\ r.ent[i] = v[c] /\ LaidIn(n, r.ent, Last1)
                                 /\ \A j \in 0 .. n - 1 : j # i => r.ent[j] = tbl["pri"][j]
<1>1. DiskT
  BY DEF LInv, SInv, TInv
<1>2. /\ n \in 1 .. N
      /\ \A c \in Copies : /\ hdr[c].n = n /\ tbl[c] \in TableT /\ LaidIn(n, tbl[c], Last1)
                           /\ \A j \in 0 .. n - 1 : tbl[c][j] = tbl["pri"][j] /\ j \in Ent
  BY BothAgree
<1> DEFINE t == tbl["pri"]
           L == Last1
<1>3. /\ n = hdr["sec"].n /\ LaidIn(n, t, L) /\ t \in TableT /\ L \in Nat
      /\ \A c \in Copies : \A j \in 0 .. n - 1 : tbl[c][j] = t[j] /\ j \in Ent
  BY <1>1, <1>2, MbrIs DEF Copies, Last1
<1>4. OpenView(m, n, t, L)
  BY <1>1, <1>3, OpenBoth, MbrIsSane
<1> HIDE DEF t, L
<1>5. Vacant(n, t, L, i, st, sz) /\ st \in Int /\ sz \in Int /\ sz > 0
  <2>1. n \in 1 .. N /\ t \in TableT /\ L \in Nat /\ LaidIn(n, t, L)
    BY <1>2, <1>3
  <2>2. Vacant(n, t, L, i, st, sz)
    BY <1>4, <2>1, SpotClear, Zenon
  <2> QED BY <2>2 DEF Spot
<1>6. ASSUME NEW c \in Copies
      PROVE  LET r == PutBoth(BothCore, i, v)[c]
             IN  /\ r.n = n /\ r.ent[i] = v[c] /\ LaidIn(n, r.ent, L)
                 /\ \A j \in 0 .. n - 1 : j # i => r.ent[j] = t[j]
  <2> DEFINE r == PutBoth(BothCore, i, v)[c]
             u == r.ent
  <2>1. /\ BothCore[c].n = hdr[c].n /\ BothCore[c].ent = tbl[c] /\ BothCore[c] \in CoreRec
    BY <1>1, BothCoreIs
  <2>2. r.n = n /\ u = [tbl[c] EXCEPT ![i] = v[c]]
    BY <1>2, <2>1 DEF PutBoth, CoreRec
  <2>3. tbl[c] \in [Ent -> SlotT] /\ i \in Ent
    BY <1>2 DEF TableT
  <2> HIDE DEF u
  <2>4. u[i] = v[c]
    BY <2>2, <2>3
  <2>5. \A j \in 0 .. n - 1 : j # i => u[j] = t[j]
    BY <1>3, <2>2, <2>3
  <2>6. u[i].start = st /\ u[i].size = sz
    BY <2>4
  <2>7. LaidIn(n, u, L)
    <3>1. n \in 1 .. N /\ t \in TableT /\ L \in Nat /\ LaidIn(n, t, L)
      BY <1>2, <1>3
    <3> QED BY <1>5, <2>5, <2>6, <3>1, LaidPut, Zenon
  <2> QED BY <2>2, <2>4, <2>5, <2>7 DEF u
<1> QED BY <1>6 DEF t, L

\* A command that starts with both tables laid in core and no image.
LEMMA StartLaid ==
    ASSUME LInv, ~forked', UNCHANGED diskVars, forked' = forked,
           \A c \in Copies : Has(todo', HdrType(c)) \/ left' # {} => LaidIn(mem'[c].n, mem'[c].ent, Last1),
           cmd' = "rename" => \A i \in left', c \in Copies : mem'[c].ent[i].used,
           ~Has(todo', "image")
    PROVE  LPart'
<1>1. hdr' = hdr /\ Last1' = Last1
  BY DEF diskVars, Last1
<1>2. HdrsLaid'
  BY <1>1 DEF LInv, LPart, HdrsLaid
<1>3. CoreLaid'
  BY <1>1 DEF CoreLaid
<1>4. LeftUsed'
  BY DEF LeftUsed
<1>5. ImagePlan'
  BY DEF ImagePlan
<1> QED BY <1>2, <1>3, <1>4, <1>5 DEF LPart

\* The room map_alloc() finds is a spot for any entry.
LEMMA AllocIsSpot ==
    ASSUME NEW m, NEW e, Tiles(m, e), NEW b \in Nat, NEW z \in Nat, NEW a \in Nat,
           b = 0 \/ z > 0 \/ a > 0, map_alloc(m, b, z, a).size >= 0, NEW i
    PROVE  LET x == map_alloc(m, b, z, a)
           IN  (\E k : Spot(m, i, k, k, x.start, x.size)) /\ (z > 0 /\ a = 0 => x.size = z)
<1> DEFINE x == map_alloc(m, b, z, a)
<1>1. /\ x.start \in Int /\ x.size \in Int /\ x.size > 0
      /\ z > 0 /\ a = 0 => x.size = z
      /\ \E k \in 1 .. Len(m) : /\ m[k].type = "unused" /\ m[k].start >= 2
                                /\ x.start >= m[k].start /\ x.start + x.size <= End(m[k])
  BY AllocSpot
<1> HIDE DEF x
<1>2. PICK k \in 1 .. Len(m) : /\ m[k].type = "unused" /\ m[k].start >= 2
                               /\ x.start >= m[k].start /\ x.start + x.size <= End(m[k])
  BY <1>1
<1>3. k \in Nat /\ \A p \in k .. k : p = k
  BY DEF Tiles
<1>4. \A p \in k .. k : m[p].type = "unused" \/ (m[p].type = "gpt_part" /\ m[p].index = i + 1)
  BY <1>2, <1>3
<1>5. k <= k
  BY <1>3
<1>6. Spot(m, i, k, k, x.start, x.size)
  BY <1>1, <1>2, <1>4, <1>5 DEF Spot
<1> QED BY <1>1, <1>6 DEF x

\* Both copies are intact, and the map fills the medium.
LEMMA BothOpen ==
    ASSUME LInv, Ready, ~forked, Sane, NEW nombr, gpt_open(nombr) # Null, gpt_gethdr(gpt_open(nombr))
    PROVE  /\ \A c \in Copies : Intact(c)
           /\ hdr["pri"].n \in 1 .. N
           /\ OpenView(gpt_open(nombr), hdr["pri"].n, tbl["pri"], Last1)
           /\ LaidIn(hdr["pri"].n, tbl["pri"], Last1) /\ tbl["pri"] \in TableT
           /\ Tiles(gpt_open(nombr), Last1 + 1)
<1> DEFINE n == hdr["pri"].n
<1>1. DiskT
  BY DEF LInv, SInv, TInv
<1>2. \A c \in Copies : Intact(c)
  BY <1>1, BothIntact
<1>3. /\ n \in 1 .. N
      /\ \A c \in Copies : hdr[c].n = n /\ tbl[c] \in TableT /\ LaidIn(n, tbl[c], Last1)
  BY <1>2, BothAgree
<1>4. hdr["sec"].n = n /\ LaidIn(n, tbl["pri"], Last1) /\ tbl["pri"] \in TableT
  BY <1>3 DEF Copies
<1>5. OpenView(gpt_open(nombr), n, tbl["pri"], Last1)
  BY <1>1, <1>2, <1>4, OpenBoth, MbrIsSane
<1>6. Tiles(gpt_open(nombr), Last1 + 1)
  BY <1>5 DEF OpenView
<1> QED BY <1>2, <1>3, <1>4, <1>5, <1>6

\* add
LEMMA AddLaid ==
    ASSUME LInv, Ready, Sane, NEW nombr, NEW e \in 0 .. N, NEW arg \in AddArgs,
           Add(gpt_open(nombr), e, arg), ~forked'
    PROVE  LPart'
<1> DEFINE m == gpt_open(nombr)
           n == hdr["pri"].n
           s == map_alloc(m, arg.b, arg.s, arg.a)
           put(x) == [x EXCEPT !.used = TRUE, !.start = s.start, !.size = s.size, !.tag = IF @ > 1 THEN 0 ELSE @]
<1>1. DiskT /\ m # Null /\ gpt_gethdr(m) /\ s.size >= 0
  BY DEF Add, Opens, LInv, SInv, TInv
<1>2. PICK i \in 0 .. n - 1 : Start("add", InBoth(BothCore, i, put), BothWrites)
  BY DEF Add, FirstFree
<1>3. /\ cmd' = "add" /\ mem' = InBoth(BothCore, i, put) /\ todo' = BothWrites /\ left' = {}
      /\ UNCHANGED diskVars /\ forked' = forked /\ ~forked
  BY <1>2 DEF Start, histVars
<1>4. arg.b \in Nat /\ arg.s \in Nat /\ arg.a \in Nat /\ (arg.b = 0 \/ arg.s > 0 \/ arg.a > 0)
  BY GeometryAssumption DEF Sane
<1>5. (\A c \in Copies : Intact(c)) /\ n \in 1 .. N /\ Tiles(m, Last1 + 1)
  BY <1>1, <1>3, BothOpen
<1>m. m = gpt_open(nombr)
  OBVIOUS
<1> HIDE DEF m
<1>6. PICK k : Spot(m, i, k, k, s.start, s.size)
  BY <1>1, <1>4, <1>5, AllocIsSpot
<1>7. MapOK(m)
  BY <1>1, OpenIs DEF m
<1>8. s.start \in Nat \ {1} /\ s.size \in Int
  BY <1>1, <1>4, <1>7, AllocIs
<1> HIDE DEF s
<1> DEFINE v == [c \in Copies |-> put(BothCore[c].ent[i])]
<1>9. ASSUME NEW x \in SlotT PROVE put(x) \in SlotT /\ put(x).start = s.start /\ put(x).size = s.size
  <2>1. x.tag \in 0 .. 3 /\ (IF x.tag > 1 THEN 0 ELSE x.tag) \in 0 .. 3
    BY DEF SlotT
  <2> QED BY <1>8, <2>1 DEF SlotT
<1>10. InBoth(BothCore, i, put) = PutBoth(BothCore, i, v)
  BY DEF InBoth, PutBoth
<1>11. \A c \in Copies : BothCore[c].ent[i] \in SlotT
  <2>1. BothCore \in [Copies -> CoreRec] /\ i \in Ent
    BY <1>1, <1>5, BothCoreIs, GeometryAssumption DEF Ent
  <2> QED BY <2>1 DEF CoreRec, TableT
<1> HIDE DEF put
<1>12. v \in [Copies -> SlotT] /\ \A c \in Copies : v[c].start = s.start /\ v[c].size = s.size
  BY <1>9, <1>11
<1> HIDE DEF v
<1>13. \A c \in Copies : LET r == PutBoth(BothCore, i, v)[c]
                         IN  r.n = n /\ LaidIn(n, r.ent, Last1)
  <2> HIDE DEF n
  <2>1. ~forked /\ gpt_open(nombr) # Null /\ (\A c \in Copies : Intact(c)) /\ n = hdr["pri"].n
    BY <1>1, <1>3, <1>5, <1>m DEF n
  <2> QED BY <1>2, <1>6, <1>12, <1>m, <2>1, SpotCore
<1>14. \A c \in Copies : LaidIn(mem'[c].n, mem'[c].ent, Last1)
  BY <1>3, <1>10, <1>13
<1>15. ~Has(todo', "image")
  BY <1>3 DEF Has, BothWrites
<1> QED BY <1>3, <1>14, <1>15, StartLaid

\* resize
LEMMA ResizeLaid ==
    ASSUME LInv, Ready, Sane, NEW nombr, NEW e \in 1 .. N, NEW arg \in ResizeArgs,
           Resize(gpt_open(nombr), e, arg), ~forked'
    PROVE  LPart'
<1> DEFINE m == gpt_open(nombr)
           n == hdr["pri"].n
           t == tbl["pri"]
           k == SelectInSeq(m, LAMBDA s : s.index = e)
           size == map_resize(m, k, arg.s, arg.a)
           put(x) == [x EXCEPT !.size = m[k].start + size - x.start]
<1>1. /\ DiskT /\ m # Null /\ gpt_gethdr(m) /\ k # 0 /\ size # -1 /\ e <= n /\ t[e - 1].used
      /\ (IF Stray(m) THEN "resize_hybrid" ELSE "resize") \in Commands
      /\ Start("resize", InBoth(BothCore, e - 1, put), BothWrites)
  BY DEF Resize, Opens, LInv, SInv, TInv
<1>2. ~Stray(m)
  BY <1>1 DEF Sane
<1>3. /\ cmd' = "resize" /\ mem' = InBoth(BothCore, e - 1, put) /\ todo' = BothWrites /\ left' = {}
      /\ UNCHANGED diskVars /\ forked' = forked /\ ~forked
  BY <1>1 DEF Start, histVars
<1>4. arg.s \in Nat /\ arg.a \in Nat
  BY GeometryAssumption
<1>5. /\ \A c \in Copies : Intact(c)
      /\ n \in 1 .. N /\ OpenView(m, n, t, Last1) /\ LaidIn(n, t, Last1) /\ t \in TableT /\ Tiles(m, Last1 + 1)
  BY <1>1, <1>3, BothOpen
<1>m. m = gpt_open(nombr)
  OBVIOUS
<1> HIDE DEF m
<1>6. m \in Seq(SegRec) /\ DOMAIN m = 1 .. Len(m) /\ Len(m) \in Nat
  BY <1>5 DEF Tiles
<1>7. k \in 1 .. Len(m) /\ m[k].index = e
  <2> DEFINE I == {i \in 1 .. Len(m) : m[i].index = e}
  <2>1. k = IF I # {} THEN Min(I) ELSE 0
    BY DEF SelectInSeq
  <2>2. I \subseteq Nat
    BY <1>6
  <2> HIDE DEF I, k
  <2>3. I # {} /\ k = Min(I)
    BY <1>1, <2>1
  <2>4. k \in I
    BY <2>2, <2>3, LeastOf
  <2> QED BY <2>4 DEF I
<1> HIDE DEF k
<1>8. m[k].type = "gpt_part"
  BY <1>2, <1>6, <1>7 DEF Stray
<1> DEFINE i == e - 1
<1>9. i \in 0 .. n - 1 /\ i \in Ent /\ i + 1 = e
  BY <1>1, <1>5, GeometryAssumption DEF Ent
<1>10. t[i] \in SlotT /\ t[i].start \in Int /\ t[i].size \in Int
  BY <1>5, <1>9 DEF TableT, SlotT
<1> HIDE DEF i, t, n
<1>11. m[k].start = t[i].start /\ m[k].size = t[i].size
  <2>1. Has(m, m[k])
    BY <1>7 DEF Has
  <2>2. PICK j \in 0 .. n - 1 : t[j].used /\ m[k] = PartSeg(t, j)
    BY <1>5, <1>8, <2>1 DEF OpenView
  <2>3. m[k].index = j + 1 /\ m[k].start = t[j].start /\ m[k].size = t[j].size
    BY <2>2 DEF PartSeg, Seg
  <2>4. j = i
    BY <1>5, <1>7, <1>9, <2>3
  <2> QED BY <2>3, <2>4
<1>12. t[i].size > 0 /\ t[i].start >= 2
  <2>1. t[i].used
    BY <1>1 DEF i
  <2>2. Blocks(n) \in Nat
    BY <1>5, BlocksIs
  <2>3. t[i].size > 0 /\ t[i].start >= 2 + Blocks(n)
    BY <1>5, <1>9, <2>1 DEF LaidIn
  <2> QED BY <1>10, <2>2, <2>3
<1>13. /\ size \in Int /\ size > 0
       /\ \E l \in k .. k + 1 : /\ l \in 1 .. Len(m) /\ (l # k => m[l].type = "unused")
                                /\ m[k].start + size <= End(m[l])
  <2>1. m[k].size > 0 /\ size # 0 - 1
    BY <1>1, <1>10, <1>11, <1>12
  <2> QED BY <1>4, <1>5, <1>7, <2>1, ResizeSpot
<1> HIDE DEF size
<1>14. PICK l \in k .. k + 1 : /\ l \in 1 .. Len(m) /\ (l # k => m[l].type = "unused")
                               /\ m[k].start + size <= End(m[l])
  BY <1>13
<1>15. Spot(m, i, k, l, t[i].start, size)
  <2>1. k <= l /\ \A p \in k .. l : p = k \/ p = l
    BY <1>6, <1>7, <1>14
  <2>2. \A p \in k .. l : m[p].type = "unused" \/ (m[p].type = "gpt_part" /\ m[p].index = i + 1)
    BY <1>7, <1>8, <1>9, <1>14, <2>1
  <2>3. m[k].start >= 2 /\ t[i].start >= m[k].start
    BY <1>10, <1>11, <1>12
  <2> QED BY <1>7, <1>10, <1>11, <1>13, <1>14, <2>1, <2>2, <2>3 DEF Spot
<1> DEFINE v == [c \in Copies |-> put(BothCore[c].ent[i])]
<1>16. InBoth(BothCore, e - 1, put) = PutBoth(BothCore, i, v)
  BY DEF InBoth, PutBoth, i
<1>17. \A c \in Copies : BothCore[c].ent[i] = t[i]
  <2>1. \A c \in Copies : BothCore[c].ent = tbl[c]
    BY <1>1, BothCoreIs
  <2>2. \A c \in Copies : tbl[c][i] = t[i]
    BY <1>3, <1>5, <1>9, BothAgree DEF n, t
  <2> QED BY <2>1, <2>2
<1>18. put(t[i]) \in SlotT /\ put(t[i]).start = t[i].start /\ put(t[i]).size = size
  <2> DEFINE z == m[k].start + size - t[i].start
  <2>1. z = size
    BY <1>10, <1>11, <1>13
  <2> HIDE DEF z
  <2>2. [t[i] EXCEPT !.size = z] \in SlotT /\ [t[i] EXCEPT !.size = z].start = t[i].start
        /\ [t[i] EXCEPT !.size = z].size = size
    BY <1>10, <1>13, <2>1 DEF SlotT
  <2> QED BY <2>2 DEF z
<1> HIDE DEF put
<1>19. v \in [Copies -> SlotT] /\ \A c \in Copies : v[c].start = t[i].start /\ v[c].size = size
  BY <1>17, <1>18
<1> HIDE DEF v
<1>20. \A c \in Copies : LET r == PutBoth(BothCore, i, v)[c]
                         IN  r.n = n /\ LaidIn(n, r.ent, Last1)
  <2>1. ~forked /\ gpt_open(nombr) # Null /\ (\A c \in Copies : Intact(c)) /\ n = hdr["pri"].n
    BY <1>1, <1>3, <1>5, <1>m DEF n
  <2> QED BY <1>9, <1>15, <1>19, <1>m, <2>1, SpotCore
<1>21. \A c \in Copies : LaidIn(mem'[c].n, mem'[c].ent, Last1)
  BY <1>3, <1>16, <1>20
<1>22. ~Has(todo', "image")
  BY <1>3 DEF Has, BothWrites
<1> QED BY <1>3, <1>21, <1>22, StartLaid

\* The start of remove, label and rename.
LEMMA EditAllLaid ==
    ASSUME LInv, Ready, Sane, NEW nombr, NEW name \in {"remove", "label", "rename"}, NEW S \in SUBSET Ent,
           EditAll(gpt_open(nombr), name, S), ~forked'
    PROVE  LPart'
<1> DEFINE m == gpt_open(nombr)
           n == hdr["pri"].n
           t == tbl["pri"]
<1>1. /\ DiskT /\ m # Null /\ gpt_gethdr(m) /\ S \subseteq Matching(m) /\ ~forked
      /\ cmd' = name /\ mem' = BothCore /\ left' = S /\ todo' = todo /\ UNCHANGED diskVars /\ forked' = forked
  BY DEF EditAll, Opens, LInv, SInv, TInv, histVars
<1>2. /\ \A c \in Copies : Intact(c)
      /\ n \in 1 .. N /\ OpenView(m, n, t, Last1) /\ Tiles(m, Last1 + 1)
  BY <1>1, BothOpen
<1>3. \A c \in Copies : /\ hdr[c].n = n /\ LaidIn(n, tbl[c], Last1)
                        /\ \A i \in 0 .. n - 1 : tbl[c][i] = t[i]
  BY <1>1, <1>2, BothAgree
<1>4. \A c \in Copies : mem'[c].n = n /\ mem'[c].ent = tbl[c]
  BY <1>1, <1>3, BothCoreIs
<1> HIDE DEF m, n, t
<1>5. ASSUME NEW i \in S PROVE i \in 0 .. n - 1 /\ t[i].used
  <2>1. PICK k \in 1 .. Len(m) : m[k].type = "gpt_part" /\ i = m[k].index - 1
    BY <1>1 DEF Matching
  <2>2. Has(m, m[k])
    BY DEF Has
  <2>3. PICK j \in 0 .. n - 1 : t[j].used /\ m[k] = PartSeg(t, j)
    BY <1>2, <2>1, <2>2 DEF OpenView
  <2>4. m[k].index = j + 1
    BY <2>3 DEF PartSeg, Seg
  <2>5. i = j
    BY <1>2, <2>1, <2>4
  <2> QED BY <2>3, <2>5
<1>6. \A i \in left', c \in Copies : mem'[c].ent[i].used
  BY <1>1, <1>3, <1>4, <1>5
<1>7. \A c \in Copies : LaidIn(mem'[c].n, mem'[c].ent, Last1)
  BY <1>3, <1>4
<1>8. ~Has(todo', "image")
  <2>1. todo = <<>>
    BY AtRest DEF LInv
  <2> QED BY <1>1, <2>1 DEF Has
<1> QED BY <1>1, <1>6, <1>7, <1>8, StartLaid

\* The start of a partition that is large enough is a place for an image.
LEMMA ImageClear ==
    ASSUME NEW n \in 1 .. N, NEW t, NEW L \in Int, LaidIn(n, t, L), NEW i \in 0 .. n - 1, t[i].used,
           t[i].size >= ImageSize, \A j \in 0 .. n - 1 : t[j].start \in Int /\ t[j].size \in Int
    PROVE  ClearOf(n, t, L, t[i].start)
<1>1. Blocks(n) \in Int /\ ImageSize \in Int /\ t[i].start \in Int /\ t[i].size \in Int
  BY BlocksIs, GeometryAssumption
<1>2. t[i].start >= 2 + Blocks(n) /\ t[i].start + t[i].size <= L - Blocks(n)
  BY DEF LaidIn
<1>3. t[i].start + ImageSize <= L - Blocks(n)
  BY <1>1, <1>2
<1>4. ASSUME NEW j \in 0 .. n - 1, t[j].used
      PROVE  t[j].start = t[i].start \/ t[i].start + ImageSize <= t[j].start \/ t[j].start + t[j].size <= t[i].start
  <2>1. CASE j = i
    BY <2>1
  <2>2. CASE j # i
    <3>1. Apart(t[i], t[j])
      BY <1>4, <2>2 DEF LaidIn
    <3> QED BY <1>1, <3>1 DEF Apart
  <2> QED BY <2>1, <2>2
<1> QED BY <1>2, <1>3, <1>4 DEF ClearOf

\* The same place in a table with fewer partitions.
LEMMA ClearLess ==
    ASSUME NEW n, NEW t, NEW u, NEW L, NEW at, ClearOf(n, u, L, at),
           \A j \in 0 .. n - 1 : t[j].used => u[j].used /\ u[j].start = t[j].start /\ u[j].size = t[j].size
    PROVE  ClearOf(n, t, L, at)
BY DEF ClearOf

\* A command that writes an image to entry i.
LEMMA ImageBegins ==
    ASSUME LInv, ~forked', UNCHANGED diskVars, forked' = forked, left' = {},
           \A c \in Copies : Has(todo', HdrType(c)) => LaidIn(mem'[c].n, mem'[c].ent, Last1),
           NEW i \in gpt_lookup(cmd', mem'["pri"].n, mem'["pri"].ent),
           NEW at, at = mem'["pri"].ent[i].start,
           \A c \in Copies : /\ hdr[c].n > 0 => ClearOf(hdr[c].n, hdr[c].crc, Last1, at)
                             /\ Has(todo', HdrType(c)) => ClearOf(mem'[c].n, mem'[c].ent, Last1, at)
    PROVE  LPart'
<1>1. hdr' = hdr /\ Last1' = Last1
  BY DEF diskVars, Last1
<1>2. HdrsLaid'
  BY <1>1 DEF LInv, LPart, HdrsLaid
<1>3. CoreLaid'
  BY <1>1 DEF CoreLaid
<1>4. LeftUsed'
  BY DEF LeftUsed
<1>5. ImageAt(mem["pri"].ent[i].start)'
  BY <1>1 DEF ImageAt
<1>6. ImagePlan'
  BY <1>5 DEF ImagePlan
<1> QED BY <1>2, <1>3, <1>4, <1>6 DEF LPart

\* Without a first entry of a type there is none.
LEMMA LookupNone ==
    ASSUME NEW name, NEW n \in Nat, NEW t, gpt_lookup(name, n, t) = {}
    PROVE  \A j \in 0 .. n - 1 : ~(t[j].used /\ t[j].tag = TypeOf(name))
<1> DEFINE I == {j \in 0 .. n - 1 : t[j].used /\ t[j].tag = TypeOf(name)}
<1> SUFFICES ASSUME I # {} PROVE FALSE
  OBVIOUS
<1>1. I \subseteq Nat
  OBVIOUS
<1> DEFINE k == Min(I)
<1>2. k \in I /\ \A j \in I : k <= j
  <2> HIDE DEF I
  <2> QED BY <1>1, LeastOf
<1> HIDE DEF k
<1>3. k \in 0 .. n - 1 /\ t[k].used /\ t[k].tag = TypeOf(name)
  BY <1>2
<1>4. ASSUME NEW j \in 0 .. k - 1 PROVE ~(t[j].used /\ t[j].tag = TypeOf(name))
  <2>1. j \in 0 .. n - 1 /\ ~(k <= j)
    BY <1>3
  <2> QED BY <1>2, <2>1
<1> QED BY <1>3, <1>4 DEF gpt_lookup

\* An image for a partition that is there.
LEMMA InstallOld ==
    ASSUME LInv, Ready, Sane, NEW nombr, NEW name, NEW q, gpt_open(nombr) # Null, gpt_gethdr(gpt_open(nombr)),
           NEW i \in gpt_lookup(name, hdr["pri"].n, tbl["pri"]), BigEnough(tbl["pri"][i].size),
           Start(name, BothCore, q), \A c \in Copies : ~Has(q, HdrType(c)), ~forked'
    PROVE  LPart'
<1> DEFINE n == hdr["pri"].n
           t == tbl["pri"]
           at == t[i].start
<1>1. /\ cmd' = name /\ mem' = BothCore /\ todo' = q /\ left' = {}
      /\ UNCHANGED diskVars /\ forked' = forked /\ ~forked /\ DiskT
  BY DEF Start, histVars, LInv, SInv, TInv
<1>2. (\A c \in Copies : Intact(c)) /\ n \in 1 .. N
  BY <1>1, BothOpen
<1>3. \A c \in Copies : /\ hdr[c].n = n /\ tbl[c] \in TableT /\ LaidIn(n, tbl[c], Last1)
                        /\ \A j \in 0 .. n - 1 : tbl[c][j] = t[j] /\ j \in Ent
  BY <1>1, <1>2, BothAgree
<1>4. i \in 0 .. n - 1 /\ t[i].used
  BY DEF gpt_lookup
<1>5. Last1 \in Int
  BY <1>1, MbrIs DEF Last1
<1>6. \A c \in Copies : mem'[c].n = n /\ mem'[c].ent = tbl[c]
  BY <1>1, <1>3, BothCoreIs
<1>7. ASSUME NEW c \in Copies PROVE ClearOf(hdr[c].n, hdr[c].crc, Last1, at)
  <2> DEFINE u == tbl[c]
             L == Last1
  <2>1. u \in TableT /\ LaidIn(n, u, L) /\ u[i] = t[i] /\ \A j \in 0 .. n - 1 : j \in Ent
    BY <1>3, <1>4
  <2> HIDE DEF u, L
  <2>2. \A j \in 0 .. n - 1 : u[j].start \in Int /\ u[j].size \in Int
    BY <2>1 DEF TableT, SlotT
  <2>3. u[i].used /\ u[i].size >= ImageSize /\ L \in Int
    BY <1>4, <1>5, <2>1 DEF BigEnough, L
  <2> HIDE DEF n, t
  <2>4. ClearOf(n, u, L, u[i].start)
    BY <1>2, <1>4, <2>1, <2>2, <2>3, ImageClear
  <2>5. ClearOf(n, Sum(n, u), L, at)
    BY <2>1, <2>4, LaidSum
  <2>6. hdr[c].n = n /\ hdr[c].crc = Sum(n, u)
    BY <1>2, <1>3 DEF Intact, u
  <2> QED BY <2>5, <2>6 DEF L
<1>8. i \in gpt_lookup(cmd', mem'["pri"].n, mem'["pri"].ent) /\ at = mem'["pri"].ent[i].start
  BY <1>1, <1>6 DEF Copies
<1> HIDE DEF at
<1> QED BY <1>1, <1>7, <1>8, ImageBegins

\* An image for a partition that is added.
LEMMA InstallNew ==
    ASSUME LInv, Ready, Sane, NEW nombr, NEW name \in {"installboot", "installefi"}, NEW z \in BootSizes, NEW q,
           NEW m, m = gpt_open(nombr), m # Null, gpt_gethdr(m),
           NEW n, n = hdr["pri"].n, NEW t, t = tbl["pri"], gpt_lookup(name, n, t) = {},
           NEW i \in FirstFree(n, t), BigEnough(z), NEW s, s = map_alloc(m, 0, z, 0), s.size >= 0,
           Start(name, InBoth(BothCore, i, LAMBDA x : [x EXCEPT !.used = TRUE, !.start = s.start, !.size = s.size,
                                                                !.tag = TypeOf(name)]), q),
           ~forked'
    PROVE  LPart'
<1> DEFINE put(x) == [x EXCEPT !.used = TRUE, !.start = s.start, !.size = s.size, !.tag = TypeOf(name)]
           L == Last1
<1>1. /\ cmd' = name /\ mem' = InBoth(BothCore, i, put) /\ todo' = q /\ left' = {}
      /\ UNCHANGED diskVars /\ forked' = forked /\ ~forked /\ DiskT
  BY DEF Start, histVars, LInv, SInv, TInv
<1>2. (\A c \in Copies : Intact(c)) /\ n \in 1 .. N /\ Tiles(m, L + 1)
  BY <1>1, BothOpen
<1>3. \A c \in Copies : /\ hdr[c].n = n /\ tbl[c] \in TableT /\ LaidIn(n, tbl[c], L)
                        /\ \A j \in 0 .. n - 1 : tbl[c][j] = t[j] /\ j \in Ent
  BY <1>1, <1>2, BothAgree
<1>4. i \in 0 .. n - 1 /\ ~t[i].used /\ i \in Ent
  BY <1>3 DEF FirstFree, Copies
<1>5. z \in Nat /\ z > 0 /\ L \in Int
  BY <1>1, MbrIs, GeometryAssumption DEF Last1
<1>6. (\E k : Spot(m, i, k, k, s.start, s.size)) /\ s.size = z
  BY <1>2, <1>5, AllocIsSpot
<1>7. PICK k : Spot(m, i, k, k, s.start, s.size)
  BY <1>6
<1>8. s.start \in Nat \ {1} /\ s.size \in Int
  <2>1. MapOK(m)
    BY <1>1, OpenIs
  <2>2. 0 \in Nat
    OBVIOUS
  <2>3. \A b \in Nat, a \in Nat : map_alloc(m, b, z, a).size >= 0 =>
           map_alloc(m, b, z, a).start \in Nat \ {1} /\ map_alloc(m, b, z, a).size \in Int
    BY <1>5, <2>1, AllocIs
  <2> QED BY <2>2, <2>3, Zenon
<1> DEFINE v == [c \in Copies |-> put(BothCore[c].ent[i])]
<1>9. ASSUME NEW x \in SlotT
      PROVE  /\ put(x) \in SlotT /\ put(x).start = s.start /\ put(x).size = s.size
             /\ put(x).used = TRUE /\ put(x).tag = TypeOf(name)
  <2>1. TypeOf(name) \in 0 .. 3
    BY DEF TypeOf
  <2> QED BY <1>8, <2>1 DEF SlotT
<1>10. InBoth(BothCore, i, put) = PutBoth(BothCore, i, v)
  BY DEF InBoth, PutBoth
<1>11. \A c \in Copies : BothCore[c].ent[i] \in SlotT
  <2>1. BothCore \in [Copies -> CoreRec]
    BY <1>1, BothCoreIs
  <2> QED BY <1>4, <2>1 DEF CoreRec, TableT
<1> HIDE DEF put
<1>12. /\ v \in [Copies -> SlotT]
       /\ \A c \in Copies : /\ v[c].start = s.start /\ v[c].size = s.size
                            /\ v[c].used = TRUE /\ v[c].tag = TypeOf(name)
  BY <1>9, <1>11
<1> HIDE DEF v
<1>13. \A c \in Copies : LET r == PutBoth(BothCore, i, v)[c]
                         IN  /\ r.n = n /\ r.ent[i] = v[c] /\ LaidIn(n, r.ent, Last1)
                             /\ \A j \in 0 .. n - 1 : j # i => r.ent[j] = tbl["pri"][j]
  <2>1. ~forked /\ gpt_open(nombr) # Null /\ (\A c \in Copies : Intact(c)) /\ n = hdr["pri"].n
    BY <1>1, <1>2
  <2> QED BY <1>4, <1>7, <1>12, <2>1, SpotCore
<1>14. \A c \in Copies : /\ mem'[c].n = n /\ mem'[c].ent[i] = v[c] /\ LaidIn(n, mem'[c].ent, L)
                         /\ \A j \in 0 .. n - 1 : j # i => mem'[c].ent[j] = t[j]
  BY <1>1, <1>10, <1>13
<1>15. ASSUME NEW c \in Copies
       PROVE  ClearOf(n, mem'[c].ent, L, s.start) /\ ClearOf(n, hdr[c].crc, L, s.start)
  <2> DEFINE u == mem'[c].ent
             o == tbl[c]
  <2>1. /\ u[i] = v[c] /\ LaidIn(n, u, L) /\ o \in TableT
        /\ \A j \in 0 .. n - 1 : o[j] = t[j] /\ j \in Ent /\ (j # i => u[j] = o[j])
    BY <1>3, <1>14
  <2>2. hdr[c].crc = Sum(n, o)
    BY <1>2, <1>3 DEF Intact
  <2> HIDE DEF u, o, L
  <2>3. \A j \in 0 .. n - 1 : u[j].start \in Int /\ u[j].size \in Int
    <3>1. \A j \in 0 .. n - 1 : u[j] \in SlotT
      BY <1>12, <2>1 DEF TableT
    <3> QED BY <3>1 DEF SlotT
  <2>4. u[i].used /\ u[i].size >= ImageSize /\ u[i].start = s.start
    BY <1>6, <1>12, <2>1 DEF BigEnough
  <2>5. ClearOf(n, u, L, s.start)
    BY <1>2, <1>4, <1>5, <2>1, <2>3, <2>4, ImageClear
  <2>6. ClearOf(n, o, L, s.start)
    <3>1. \A j \in 0 .. n - 1 : o[j].used => u[j].used /\ u[j].start = o[j].start /\ u[j].size = o[j].size
      BY <1>4, <2>1
    <3> QED BY <2>5, <3>1, ClearLess
  <2> QED BY <2>2, <2>5, <2>6, LaidSum DEF u
<1>16. i \in gpt_lookup(cmd', mem'["pri"].n, mem'["pri"].ent) /\ mem'["pri"].ent[i].start = s.start
  <2> DEFINE u == mem'["pri"].ent
  <2>1. u[i].used /\ u[i].tag = TypeOf(name) /\ u[i].start = s.start /\ mem'["pri"].n = n
    BY <1>12, <1>14 DEF Copies
  <2>2. \A j \in 0 .. n - 1 : j # i => u[j] = t[j]
    BY <1>14 DEF Copies
  <2>3. \A j \in 0 .. n - 1 : ~(t[j].used /\ t[j].tag = TypeOf(name))
    <3>1. n \in Nat
      BY <1>2
    <3> QED BY <3>1, LookupNone
  <2> HIDE DEF u
  <2>4. \A j \in 0 .. i - 1 : ~(u[j].used /\ u[j].tag = TypeOf(name))
    <3>1. \A j \in 0 .. i - 1 : j \in 0 .. n - 1 /\ j # i
      BY <1>2, <1>4
    <3> QED BY <2>2, <2>3, <3>1
  <2>5. i \in gpt_lookup(name, n, u)
    BY <1>4, <2>1, <2>4 DEF gpt_lookup
  <2> QED BY <1>1, <2>1, <2>5 DEF u
<1>17. \A c \in Copies : LaidIn(mem'[c].n, mem'[c].ent, Last1)
  BY <1>14
<1>18. \A c \in Copies : /\ hdr[c].n > 0 => ClearOf(hdr[c].n, hdr[c].crc, Last1, s.start)
                         /\ ClearOf(mem'[c].n, mem'[c].ent, Last1, s.start)
  BY <1>3, <1>14, <1>15
<1> QED BY <1>1, <1>16, <1>17, <1>18, ImageBegins

\* installboot and installefi
LEMMA InstallLaid ==
    ASSUME LInv, Ready, Sane, NEW nombr, NEW name \in {"installboot", "installefi"}, NEW z \in BootSizes,
           NEW code \in {<<>>, <<"pmbr">>}, Install(gpt_open(nombr), name, z, code), ~forked'
    PROVE  LPart'
<1> DEFINE m == gpt_open(nombr)
           n == hdr["pri"].n
           t == tbl["pri"]
           there == gpt_lookup(name, n, t)
           s == map_alloc(m, 0, z, 0)
           put(x) == [x EXCEPT !.used = TRUE, !.start = s.start, !.size = s.size, !.tag = TypeOf(name)]
<1>1. m # Null
  BY DEF Install, Opens
<1>2. ASSUME NEW i \in there, gpt_gethdr(m), BigEnough(t[i].size), Start(name, BothCore, Append(code, "image"))
      PROVE  LPart'
  <2>1. \A c \in Copies : ~Has(Append(code, "image"), HdrType(c))
    BY QuietIs DEF Untouched
  <2> HIDE DEF m
  <2>2. \A q : Start(name, BothCore, q) /\ (\A c \in Copies : ~Has(q, HdrType(c))) => LPart'
    BY <1>1, <1>2, InstallOld DEF m
  <2> QED BY <1>2, <2>1, <2>2, Zenon
<1>3. ASSUME NEW i \in FirstFree(n, t), gpt_gethdr(m), there = {}, BigEnough(z), s.size >= 0,
             Start(name, InBoth(BothCore, i, put), code \o BothWrites \o <<"image">>)
      PROVE  LPart'
  <2> DEFINE q == code \o BothWrites \o <<"image">>
  <2>1. Start(name, InBoth(BothCore, i, put), q)
    BY <1>3
  <2> HIDE DEF q
  <2> QED BY <1>1, <1>3, <2>1, InstallNew
<1>4. CASE Start(name, mem, code)
  <2>1. cmd' = name /\ mem' = mem /\ todo' = code /\ left' = {} /\ UNCHANGED diskVars /\ forked' = forked
    BY <1>4 DEF Start, histVars
  <2>2. (\A c \in Copies : ~Has(code, HdrType(c))) /\ ~Has(code, "image")
    BY DEF Has, HdrType
  <2> QED BY <2>1, <2>2, StartLaid
<1> HIDE DEF m, s
<1>5. \/ \E i \in there : gpt_gethdr(m) /\ BigEnough(t[i].size) /\ Start(name, BothCore, Append(code, "image"))
      \/ \E i \in FirstFree(n, t) : /\ gpt_gethdr(m) /\ there = {} /\ BigEnough(z) /\ s.size >= 0
                                    /\ Start(name, InBoth(BothCore, i, put), code \o BothWrites \o <<"image">>)
      \/ Start(name, mem, code)
  BY DEF Install, m, s
<1> QED BY <1>2, <1>3, <1>4, <1>5

\* An intact copy is laid.
LEMMA IntactLaid ==
    ASSUME LInv, ~forked, NEW c \in Copies, Intact(c)
    PROVE  LaidIn(hdr[c].n, tbl[c], Last1)
<1>1. LaidIn(hdr[c].n, Sum(hdr[c].n, tbl[c]), Last1)
  BY DEF LInv, LPart, HdrsLaid, Intact
<1> QED BY <1>1, LaidSum

\* recover
LEMMA RecoverLaid ==
    ASSUME LInv, Ready, NEW nombr, NEW force, Recover(gpt_open(nombr), force), ~forked'
    PROVE  LPart'
<1> DEFINE m == gpt_open(nombr)
<1>1. PICK c \in Copies :
        /\ Intact(Other(c))
        /\ mem' = [mem EXCEPT ![c] = [Core(Other(c)) EXCEPT !.alt = IF c = "pri" THEN Last1 ELSE 1]]
        /\ todo' = Restore(c, hdr[Other(c)].n, m)
  BY DEF Recover
<1>2. cmd' = "recover" /\ left' = {} /\ UNCHANGED diskVars /\ forked' = forked /\ ~forked
  BY DEF Recover, histVars
<1> HIDE DEF m
<1>3. DiskT /\ Other(c) \in Copies /\ mem \in [Copies -> CoreRec]
  BY DEF LInv, SInv, TInv, CoreT, Copies, Other
<1>4. mem'[c].n = hdr[Other(c)].n /\ mem'[c].ent = tbl[Other(c)]
  BY <1>1, <1>3 DEF Core
<1>5. LaidIn(mem'[c].n, mem'[c].ent, Last1)
  BY <1>1, <1>2, <1>3, <1>4, IntactLaid
<1>6. /\ Untouched(todo', Other(c))
      /\ todo' \in {<<>>, <<TblType(c)>>, <<TblType(c), HdrType(c)>>}
  BY <1>1, <1>3, RestoreIs, Zenon
<1>7. ~Has(todo', HdrType(Other(c)))
  BY <1>6 DEF Untouched
<1>8. ~Has(todo', "image")
  <2>1. "image" # TblType(c) /\ "image" # HdrType(c)
    BY DEF TblType, HdrType
  <2>2. ~Has(<<>>, "image") /\ ~Has(<<TblType(c)>>, "image") /\ ~Has(<<TblType(c), HdrType(c)>>, "image")
    BY <2>1 DEF Has
  <2> QED BY <1>6, <2>2, Zenon
<1>9. \A d \in Copies : Has(todo', HdrType(d)) => LaidIn(mem'[d].n, mem'[d].ent, Last1)
  BY <1>5, <1>7 DEF Copies, Other
<1> QED BY <1>2, <1>8, <1>9, StartLaid

\* recover -f
LEMMA RecoverMediaLaid ==
    ASSUME LInv, Ready, NEW nombr, RecoverMedia(gpt_open(nombr)), ~forked'
    PROVE  LPart'
<1> DEFINE core == [BothCore EXCEPT !["pri"].alt = Last1]
<1>1. DiskT /\ Intact("pri") /\ Start("media", core, <<"pri_hdr">>) /\ "pri" \in Copies
  BY DEF RecoverMedia, LInv, SInv, TInv, Copies
<1>2. BothCore \in [Copies -> CoreRec] /\ BothCore["pri"].n = hdr["pri"].n /\ BothCore["pri"].ent = tbl["pri"]
  BY <1>1, BothCoreIs
<1>4. core["pri"].n = hdr["pri"].n /\ core["pri"].ent = tbl["pri"]
  <2> DEFINE x == [BothCore["pri"] EXCEPT !.alt = Last1]
  <2>1. x.n = BothCore["pri"].n /\ x.ent = BothCore["pri"].ent
    BY <1>2 DEF CoreRec, Copies
  <2>2. core = [BothCore EXCEPT !["pri"] = x]
    OBVIOUS
  <2> HIDE DEF x
  <2> QED BY <1>2, <2>1, <2>2 DEF Copies
<1> HIDE DEF core
<1>5. /\ cmd' = "media" /\ mem' = core /\ todo' = <<"pri_hdr">> /\ left' = {} /\ UNCHANGED diskVars
      /\ forked' = forked /\ ~forked
  BY <1>1 DEF Start, histVars
<1>6. LaidIn(mem'["pri"].n, mem'["pri"].ent, Last1)
  BY <1>1, <1>4, <1>5, IntactLaid
<1>7. ~Has(todo', "sec_hdr") /\ ~Has(todo', "image")
  BY <1>5 DEF Has
<1>8. \A c \in Copies : Has(todo', HdrType(c)) => LaidIn(mem'[c].n, mem'[c].ent, Last1)
  BY <1>6, <1>7 DEF Copies, HdrType
<1> QED BY <1>5, <1>7, <1>8, StartLaid

\* recover -P
LEMMA RecoverPmbrLaid ==
    ASSUME LInv, Ready, NEW nombr, NEW force, RecoverPmbr(gpt_open(nombr), force), ~forked'
    PROVE  LPart'
<1>1. cmd' = "pmbr" /\ todo' = <<"pmbr">> /\ left' = {} /\ UNCHANGED diskVars /\ forked' = forked
  BY DEF RecoverPmbr, Start, histVars
<1>2. (\A c \in Copies : ~Has(todo', HdrType(c))) /\ ~Has(todo', "image")
  BY <1>1 DEF Has, HdrType
<1> QED BY <1>1, <1>2, StartLaid

\* destroy
LEMMA DestroyLaid ==
    ASSUME LInv, Ready, NEW nombr, NEW recoverable \in BOOLEAN, Destroy(gpt_open(nombr), recoverable), ~forked'
    PROVE  LPart'
<1> DEFINE m == gpt_open(nombr)
           w1 == IF map_find(m, "pri_hdr") THEN <<"pri_zero">> ELSE <<>>
           w2 == IF ~recoverable /\ map_find(m, "sec_hdr") THEN <<"sec_zero">> ELSE <<>>
<1>1. cmd' = "destroy" /\ todo' = w1 \o w2 /\ UNCHANGED diskVars /\ left' = left /\ forked' = forked
  BY DEF Destroy
<1>2. left = {}
  BY AtRest DEF LInv
<1> HIDE DEF m
<1>3. w1 \in {<<>>, <<"pri_zero">>} /\ w2 \in {<<>>, <<"sec_zero">>}
  BY Zenon
<1> HIDE DEF w1, w2
<1>4. w1 \in Seq(Writes) /\ w2 \in Seq(Writes)
  <2>1. <<"pri_zero">> \in Seq(Writes) /\ <<"sec_zero">> \in Seq(Writes) /\ <<>> \in Seq(Writes)
    BY DEF Writes
  <2> QED BY <1>3, <2>1, Zenon
<1>5. \A x : ~Has(<<>>, x) /\ (Has(<<"pri_zero">>, x) => x = "pri_zero") /\ (Has(<<"sec_zero">>, x) => x = "sec_zero")
  BY DEF Has
<1>6. \A x : Has(todo', x) => x \in {"pri_zero", "sec_zero"}
  <2>1. \A x : Has(w1 \o w2, x) => Has(w1, x) \/ Has(w2, x)
    BY <1>4, HasConcat, Zenon
  <2> QED BY <1>1, <1>3, <1>5, <2>1
<1>7. (\A c \in Copies : ~Has(todo', HdrType(c))) /\ ~Has(todo', "image")
  BY <1>6 DEF HdrType
<1> QED BY <1>1, <1>2, <1>7, StartLaid

\* Entries that fit into d sectors.
LEMMA BlocksBelow ==
    ASSUME NEW n \in Nat, NEW d \in Nat, n <= d * EPS
    PROVE  Blocks(n) <= d
<1>1. EPS \in Nat /\ EPS > 0 /\ Blocks(n) \in Nat
  BY BlocksIs, GeometryAssumption
<1> DEFINE q == Blocks(n)
           x == n + EPS - 1
<1>2. x \in Nat /\ q = x \div EPS
  BY <1>1 DEF Blocks
<1> HIDE DEF x, q
<1>3. q \in Nat /\ EPS * q <= x
  BY <1>1, <1>2
<1> SUFFICES ASSUME ~(q <= d) PROVE FALSE
  BY DEF q
<1> DEFINE r == q - d - 1
<1>4. r \in Nat /\ q = d + 1 + r
  BY <1>3
<1> HIDE DEF r
<1>5. EPS * q = d * EPS + EPS + EPS * r /\ EPS * r \in Nat /\ d * EPS \in Nat
  BY <1>1, <1>4
<1> QED BY <1>1, <1>3, <1>5 DEF x

\* Both copies have room: they take at most what is free behind sector 0 and
\* at the end, and less than half of the medium each.
LEMMA GptBlocksFit ==
    ASSUME DiskT, NEW m, MapOK(m), NEW p \in 1 .. N, GptBlocks(m, p) # 0
    PROVE  LET b == GptBlocks(m, p)
           IN  /\ b \in Nat \ {0, 1} /\ 2 * b <= Last1
               /\ map_free(m, 1, 0) # 0 /\ b <= map_free(m, 1, 0)
               /\ map_last(m).type = "unused" /\ b <= map_last(m).size
<1> DEFINE free == map_free(m, 1, 0)
           b1 == IF (free - 1) * EPS > p THEN Blocks(p) + 1 ELSE free
           b2 == IF b1 + 1 > media \div 2 THEN (media \div 2) - 1 ELSE b1
           b3 == IF map_last(m).size < b2 THEN map_last(m).size ELSE b2
           b == GptBlocks(m, p)
<1>1. b = IF free = 0 \/ map_last(m).type # "unused" \/ b3 = 1 THEN 0 ELSE b3
  BY DEF GptBlocks
<1>2. b \in Nat /\ b # 1
  BY GptBlocksIs
<1> HIDE DEF b
<1>3. free # 0 /\ map_last(m).type = "unused" /\ b = b3 /\ b # 0
  <2>1. b # 0
    BY DEF b
  <2> HIDE DEF b3, free
  <2> QED BY <1>1, <2>1
<1>4. free \in Nat /\ free >= 1
  <2> DEFINE k == SegmentAt(m, 1)
  <2>1. k \in 0 .. Len(m) /\ (k # 0 => End(m[k]) > 1)
    BY SegmentAtIs DEF MapOK
  <2>2. k # 0 /\ free = End(m[k]) - 1
    BY <1>3 DEF map_free
  <2> HIDE DEF k, free
  <2>3. m[k] \in SegRec
    BY <2>1, <2>2 DEF MapOK
  <2>4. End(m[k]) \in Int
    BY <2>3 DEF End, SegRec
  <2> QED BY <2>1, <2>2, <2>4
<1> HIDE DEF free
<1>5. b1 \in Nat /\ b1 <= free
  <2>1. Blocks(p) \in Nat /\ EPS \in Nat /\ free - 1 \in Nat
    BY <1>4, BlocksIs, GeometryAssumption
  <2> DEFINE w == (free - 1) * EPS
  <2>2. w \in Nat
    BY <2>1
  <2>3. w > p => Blocks(p) <= free - 1
    BY <2>1, <2>2, BlocksBelow
  <2>4. b1 = IF w > p THEN Blocks(p) + 1 ELSE free
    OBVIOUS
  <2> HIDE DEF w, b1
  <2> QED BY <1>4, <2>1, <2>3, <2>4
<1> HIDE DEF b1
<1>6. b2 \in Nat /\ b2 <= b1 /\ 2 * b2 <= media - 2
  <2> DEFINE h == media \div 2
  <2>1. h \in Nat /\ h >= 3 /\ 2 * h <= media /\ media \in Nat
    BY MbrIs
  <2>2. b2 = IF b1 + 1 > h THEN h - 1 ELSE b1
    OBVIOUS
  <2> HIDE DEF h, b2
  <2> QED BY <1>5, <2>1, <2>2
<1> HIDE DEF b2
<1>7. b3 <= b2 /\ b3 <= map_last(m).size
  <2>1. m[Len(m)] \in SegRec
    BY DEF MapOK
  <2>2. map_last(m).size \in Int
    BY <2>1 DEF SegRec, map_last, Last
  <2> QED BY <1>6, <2>2
<1> HIDE DEF b3
<1>8. 2 * b <= Last1 /\ b <= free
  BY <1>2, <1>3, <1>4, <1>5, <1>6, <1>7, MbrIs DEF Last1
<1> QED BY <1>2, <1>3, <1>7, <1>8 DEF b, free

\* Extents between two sectors, without overlap.
Fit(e, lo, hi) ==
    /\ \A k \in 1 .. Len(e) : e[k].size > 0 /\ e[k].start >= lo /\ e[k].start + e[k].size <= hi
    /\ \A j, k \in 1 .. Len(e) : j # k => Apart(e[j], e[k])

\* A new table of extents that fit is laid.
LEMMA NewLaid ==
    ASSUME DiskT, NEW b \in Nat \ {0, 1}, 2 * b <= Last1, NEW p \in 1 .. N, NEW e \in Seq(Extent),
           Fit(e, b + 1, Last1 + 1 - b), NEW c \in Copies
    PROVE  LaidIn(NewCore(b, p, e)[c].n, NewCore(b, p, e)[c].ent, Last1)
<1> DEFINE k == (b - 1) * EPS
           n == IF k > p THEN p ELSE k
           slot(i) == IF i >= n THEN Blank
                      ELSE IF i >= Len(e) THEN [Blank EXCEPT !.uuid = creates']
                      ELSE [uuid |-> creates', used |-> TRUE, start |-> e[i + 1].start,
                            size |-> e[i + 1].size, tag |-> 0]
           ent == [i \in Ent |-> slot(i)]
           L == Last1
           d == Blocks(n)
<1>0. L \in Nat /\ N \in Nat
  BY MbrIs, GeometryAssumption DEF Last1
<1>1. k \in Nat
  BY GeometryAssumption
<1>2. NewCore(b, p, e)[c].n = n /\ NewCore(b, p, e)[c].ent = ent
  BY DEF NewCore
<1>3. n \in Nat /\ n <= k /\ n <= N
  <2> HIDE DEF k
  <2> QED BY <1>0, <1>1
<1>4. d \in Nat /\ d <= b - 1
  <2>1. b - 1 \in Nat /\ n <= (b - 1) * EPS
    BY <1>3
  <2> HIDE DEF n
  <2> QED BY <1>3, <2>1, BlocksBelow, BlocksIs
<1> HIDE DEF n, d, L
<1>5. ASSUME NEW i \in 0 .. n - 1
      PROVE  /\ i \in Ent /\ i + 1 \in Nat
             /\ ent[i].used => /\ i + 1 \in 1 .. Len(e) /\ ent[i].start = e[i + 1].start
                               /\ ent[i].size = e[i + 1].size
  <2>1. i \in Ent /\ i + 1 \in Nat /\ ~(i >= n)
    BY <1>0, <1>3 DEF Ent
  <2>2. ent[i] = slot(i)
    BY <2>1
  <2>3. i >= Len(e) => ~slot(i).used
    BY <2>1 DEF Blank
  <2>4. ~(i >= Len(e)) => i + 1 \in 1 .. Len(e) /\ slot(i).start = e[i + 1].start /\ slot(i).size = e[i + 1].size
    BY <2>1 DEF Ent
  <2> HIDE DEF ent, slot
  <2> QED BY <2>1, <2>2, <2>3, <2>4
<1> HIDE DEF ent
<1>6. \A j \in 1 .. Len(e) : e[j].start \in Int /\ e[j].size \in Int
  <2>1. \A j \in 1 .. Len(e) : e[j] \in Extent
    OBVIOUS
  <2> QED BY <2>1 DEF Extent
<1>7. ASSUME NEW i \in 0 .. n - 1, ent[i].used
      PROVE  ent[i].size > 0 /\ ent[i].start >= 2 + d /\ ent[i].start + ent[i].size <= L - d
  <2> DEFINE x == e[i + 1]
  <2>1. x.size > 0 /\ x.start >= b + 1 /\ x.start + x.size <= L + 1 - b /\ x.start \in Int /\ x.size \in Int
        /\ ent[i].start = x.start /\ ent[i].size = x.size
    BY <1>5, <1>6, <1>7 DEF Fit, L
  <2> HIDE DEF x
  <2> QED BY <1>0, <1>4, <2>1 DEF L
<1>8. ASSUME NEW i \in 0 .. n - 1, NEW j \in 0 .. n - 1, i # j, ent[i].used, ent[j].used
      PROVE  Apart(ent[i], ent[j])
  <2>1. i + 1 # j + 1
    BY <1>3, <1>8
  <2>2. Apart(e[i + 1], e[j + 1])
    BY <1>5, <1>8, <2>1 DEF Fit
  <2> QED BY <1>5, <1>8, <2>2 DEF Apart
<1>9. 2 + 2 * d <= L
  BY <1>0, <1>4 DEF L
<1>10. LaidIn(n, ent, L)
  BY <1>7, <1>8, <1>9 DEF LaidIn, d
<1> QED BY <1>2, <1>10 DEF L

\* create
LEMMA CreateLaid ==
    ASSUME LInv, Ready, NEW nombr, NEW force, NEW priOnly, NEW p \in Parts,
           Create(gpt_open(nombr), force, priOnly, p), ~forked'
    PROVE  LPart'
<1> DEFINE m == gpt_open(nombr)
           m1 == [k \in DOMAIN m |-> IF m[k].type = "mbr" THEN [m[k] EXCEPT !.type = "unused"] ELSE m[k]]
           m2 == map_add(m1, Seg(0, 1, "pmbr", 0))
           b  == GptBlocks(m2, p)
           w1 == IF map_find(m, "pmbr") THEN <<>> ELSE <<"pmbr">>
           w2 == IF b = 0 THEN <<>>
                 ELSE IF priOnly THEN <<"pri_hdr", "pri_tbl">> ELSE BothWrites
<1>1. /\ m # Null /\ m2 # Null /\ cmd' = "create"
      /\ mem' = (IF b = 0 THEN mem ELSE NewCore(b, p, <<>>)) /\ todo' = w1 \o w2 /\ left' = {}
      /\ UNCHANGED diskVars /\ forked' = forked
  BY DEF Create, Opens
<1>3. DiskT /\ MapOK(m)
  BY <1>1, OpenIs DEF LInv, SInv, TInv
<1> HIDE DEF m
<1>4. MapOK(m1)
  BY <1>3, RetypedIs
<1> HIDE DEF m1
<1>5. MapOK(m2)
  <2> DEFINE s == Seg(0, 1, "pmbr", 0)
  <2>1. s \in SegRec
    BY DEF Seg, SegRec, Kinds
  <2> SUFFICES MapOK(map_add(m1, s))
    OBVIOUS
  <2>2. map_add(m1, s) # Null
    BY <1>1
  <2> HIDE DEF s
  <2> QED BY <1>4, <2>1, <2>2, AddIs DEF AddedTo
<1> HIDE DEF m2
<1>6. p \in 1 .. N
  BY GeometryAssumption
<1>7. b # 0 => b \in Nat \ {0, 1} /\ 2 * b <= Last1
  BY <1>3, <1>5, <1>6, GptBlocksFit
<1> HIDE DEF b
<1>8. b # 0 => \A c \in Copies : LaidIn(mem'[c].n, mem'[c].ent, Last1)
  <2> SUFFICES ASSUME b # 0, NEW c \in Copies PROVE LaidIn(mem'[c].n, mem'[c].ent, Last1)
    OBVIOUS
  <2> DEFINE e == <<>>
  <2>1. e \in Seq(Extent) /\ Fit(e, b + 1, Last1 + 1 - b)
    BY DEF Fit
  <2>2. mem' = NewCore(b, p, e)
    BY <1>1
  <2> HIDE DEF e
  <2> QED BY <1>3, <1>6, <1>7, <2>1, <2>2, NewLaid
<1>10. w1 \in Seq(Writes) /\ w2 \in Seq(Writes)
  <2>1. BothWrites \in Seq(Writes) /\ <<"pri_hdr", "pri_tbl">> \in Seq(Writes) /\ <<>> \in Seq(Writes) /\ <<"pmbr">> \in Seq(Writes)
    BY DEF BothWrites, Writes
  <2> QED BY <2>1, Zenon
<1>11. /\ \A x : Has(w1, x) => x = "pmbr"
       /\ b = 0 => \A x : ~Has(w2, x)
       /\ ~Has(w2, "image")
  <2>1. \A x : ~Has(<<>>, x) /\ (Has(<<"pmbr">>, x) => x = "pmbr")
    BY DEF Has
  <2>2. ~Has(<<"pri_hdr", "pri_tbl">>, "image") /\ ~Has(BothWrites, "image")
    BY DEF Has, BothWrites
  <2> QED BY <2>1, <2>2, Zenon
<1> HIDE DEF w1, w2
<1>12. \A x : Has(todo', x) => Has(w1, x) \/ Has(w2, x)
  BY <1>1, <1>10, HasConcat, Zenon
<1>13. "image" # "pmbr" /\ \A c \in Copies : HdrType(c) # "pmbr"
  BY DEF HdrType
<1>14. /\ ~Has(todo', "image")
       /\ \A c \in Copies : Has(todo', HdrType(c)) => b # 0
  BY <1>11, <1>12, <1>13
<1> QED BY <1>1, <1>8, <1>14, StartLaid

\* An extent in another.
Within(x, q) == x.start >= q.start /\ x.start + x.size <= q.start + q.size
\* Extents without overlap, each in one of the first i partitions of the MBR.
Placed(ps, i, e) ==
    /\ e \in Seq(Extent)
    /\ \A x \in 1 .. Len(e) : e[x].size > 0 /\ \E k \in 1 .. i : Within(e[x], ps[k])
    /\ \A x, y \in 1 .. Len(e) : x # y => Apart(e[x], e[y])

\* What one partition gives.
LEMMA ExtentOfIs ==
    ASSUME NEW b, MbrSane(b), b.parts \in Seq(MbrPart), NEW k \in 1 .. Len(b.parts), NEW slice
    PROVE  LET e == ExtentOf(b.parts[k], slice)
           IN  /\ e \in Seq(Extent)
               /\ \A x \in 1 .. Len(e) : e[x].size > 0 /\ Within(e[x], b.parts[k])
               /\ \A x, y \in 1 .. Len(e) : x # y => Apart(e[x], e[y])
<1> DEFINE q == b.parts[k]
           one == [start |-> q.start, size |-> q.size]
<1>1. q \in MbrPart
  OBVIOUS
<1>2. q.sub \in Seq(Extent) /\ one \in Extent /\ q.start \in Int /\ q.size \in Int
  BY SMTT(40), <1>1 DEF MbrPart, Extent
<1>3. /\ q.size > 0
      /\ \A i \in 1 .. Len(q.sub) : q.sub[i].size > 0 /\ Within(q.sub[i], q)
      /\ \A i, j \in 1 .. Len(q.sub) : i # j => Apart(q.sub[i], q.sub[j])
  BY DEF MbrSane, Within
<1>o. one.start = q.start /\ one.size = q.size
  OBVIOUS
<1> HIDE DEF q, one
<1>4. one.size > 0 /\ Within(one, q)
  BY <1>2, <1>3, <1>o DEF Within
<1> DEFINE OK(e) == /\ e \in Seq(Extent)
                    /\ \A x \in 1 .. Len(e) : e[x].size > 0 /\ Within(e[x], q)
                    /\ \A x, y \in 1 .. Len(e) : x # y => Apart(e[x], e[y])
<1>5. OK(q.sub)
  BY <1>2, <1>3
<1>6. OK(<<>>)
  OBVIOUS
<1>7. OK(<<one>>)
  <2>1. <<one>> \in Seq(Extent) /\ Len(<<one>>) = 1 /\ <<one>>[1] = one
    BY <1>2
  <2>2. \A x \in 1 .. 1 : x = 1
    OBVIOUS
  <2> QED BY <1>4, <2>1, <2>2
<1>8. ExtentOf(q, slice) \in {<<>>, <<one>>, q.sub}
  BY Zenon DEF ExtentOf, one
<1> HIDE DEF OK
<1>9. OK(ExtentOf(q, slice))
  BY <1>5, <1>6, <1>7, <1>8, Zenon
<1> QED BY <1>9 DEF OK, q

\* One more partition of the MBR.
LEMMA PlacedStep ==
    ASSUME NEW b, MbrSane(b), b.parts \in Seq(MbrPart), NEW i \in 1 .. Len(b.parts), NEW slice,
           NEW e, Placed(b.parts, i - 1, e)
    PROVE  Placed(b.parts, i, e \o ExtentOf(b.parts[i], slice))
<1> DEFINE ps == b.parts
           o == ExtentOf(ps[i], slice)
           r == e \o o
<1>1. /\ o \in Seq(Extent)
      /\ \A x \in 1 .. Len(o) : o[x].size > 0 /\ Within(o[x], ps[i])
      /\ \A x, y \in 1 .. Len(o) : x # y => Apart(o[x], o[y])
  BY ExtentOfIs
<1>2. /\ e \in Seq(Extent)
      /\ \A x \in 1 .. Len(e) : e[x].size > 0 /\ \E k \in 1 .. i - 1 : Within(e[x], ps[k])
      /\ \A x, y \in 1 .. Len(e) : x # y => Apart(e[x], e[y])
  BY DEF Placed
<1>3. \A k \in 1 .. i - 1 : k \in 1 .. Len(ps) /\ k \in 1 .. i /\ k # i /\ Apart(ps[k], ps[i])
  BY DEF MbrSane
<1>t. \A k \in 1 .. Len(ps) : ps[k].start \in Int /\ ps[k].size \in Int
  <2>1. \A k \in 1 .. Len(ps) : ps[k] \in MbrPart
    OBVIOUS
  <2> QED BY SMTT(40), <2>1 DEF MbrPart
<1>i. i \in 1 .. i /\ i \in 1 .. Len(ps)
  OBVIOUS
<1> HIDE DEF o, ps
<1>4. /\ r \in Seq(Extent) /\ Len(r) = Len(e) + Len(o) /\ Len(e) \in Nat /\ Len(o) \in Nat
      /\ \A x \in 1 .. Len(e) : r[x] = e[x]
      /\ \A x \in 1 .. Len(o) : r[Len(e) + x] = o[x]
  BY <1>1, <1>2, ConcatAt
<1> HIDE DEF r
<1>5. \A x \in 1 .. Len(r) : \/ x \in 1 .. Len(e)
                             \/ x - Len(e) \in 1 .. Len(o) /\ x = Len(e) + (x - Len(e))
  BY <1>4
<1>6. ASSUME NEW x \in 1 .. Len(r)
      PROVE  r[x].size > 0 /\ \E k \in 1 .. i : Within(r[x], ps[k])
  <2>1. CASE x \in 1 .. Len(e)
    BY <1>2, <1>3, <1>4, <2>1
  <2>2. CASE x - Len(e) \in 1 .. Len(o) /\ x = Len(e) + (x - Len(e))
    <3> DEFINE y == x - Len(e)
    <3>1. y \in 1 .. Len(o) /\ x = Len(e) + y
      BY <2>2
    <3> HIDE DEF y
    <3>2. r[x] = o[y]
      BY <1>4, <3>1
    <3> QED BY <1>1, <1>i, <3>1, <3>2
  <2> QED BY <1>5, <2>1, <2>2
<1>7. ASSUME NEW x \in 1 .. Len(e), NEW y \in 1 .. Len(o) PROVE Apart(e[x], o[y]) /\ Apart(o[y], e[x])
  <2>1. PICK k \in 1 .. i - 1 : Within(e[x], ps[k])
    BY <1>2
  <2>2. Within(o[y], ps[i]) /\ Apart(ps[k], ps[i])
    BY <1>1, <1>3
  <2>3. e[x] \in Extent /\ o[y] \in Extent
    BY <1>1, <1>2
  <2>4. e[x].start \in Int /\ e[x].size \in Int /\ o[y].start \in Int /\ o[y].size \in Int
    BY <2>3 DEF Extent
  <2>5. ps[k].start \in Int /\ ps[k].size \in Int /\ ps[i].start \in Int /\ ps[i].size \in Int
    BY <1>3, <1>i, <1>t
  <2>6. \A a, az, d, dz, f, fz, g, gz \in Int :
          /\ a >= f /\ a + az <= f + fz /\ d >= g /\ d + dz <= g + gz
          /\ f + fz <= g \/ g + gz <= f
          => a + az <= d \/ d + dz <= a
    OBVIOUS
  <2>7. e[x].start + e[x].size <= o[y].start \/ o[y].start + o[y].size <= e[x].start
    <3>1. /\ e[x].start >= ps[k].start /\ e[x].start + e[x].size <= ps[k].start + ps[k].size
          /\ o[y].start >= ps[i].start /\ o[y].start + o[y].size <= ps[i].start + ps[i].size
          /\ ps[k].start + ps[k].size <= ps[i].start \/ ps[i].start + ps[i].size <= ps[k].start
      BY <2>1, <2>2 DEF Within, Apart
    <3> QED BY <2>4, <2>5, <2>6, <3>1, Zenon
  <2> QED BY <2>7 DEF Apart
<1>8. ASSUME NEW x \in 1 .. Len(r), NEW y \in 1 .. Len(r), x # y PROVE Apart(r[x], r[y])
  <2> DEFINE u == x - Len(e)
             v == y - Len(e)
  <2>1. x \in 1 .. Len(e) \/ (u \in 1 .. Len(o) /\ x = Len(e) + u)
    BY <1>5
  <2>2. y \in 1 .. Len(e) \/ (v \in 1 .. Len(o) /\ y = Len(e) + v)
    BY <1>5
  <2> HIDE DEF u, v
  <2>3. x \in 1 .. Len(e) => r[x] = e[x]
    BY <1>4
  <2>4. y \in 1 .. Len(e) => r[y] = e[y]
    BY <1>4
  <2>5. u \in 1 .. Len(o) /\ x = Len(e) + u => r[x] = o[u]
    BY <1>4
  <2>6. v \in 1 .. Len(o) /\ y = Len(e) + v => r[y] = o[v]
    BY <1>4
  <2>7. CASE x \in 1 .. Len(e) /\ y \in 1 .. Len(e)
    BY <1>2, <1>8, <2>3, <2>4, <2>7
  <2>8. CASE x \in 1 .. Len(e) /\ v \in 1 .. Len(o) /\ y = Len(e) + v
    BY <1>7, <2>3, <2>6, <2>8
  <2>9. CASE u \in 1 .. Len(o) /\ x = Len(e) + u /\ y \in 1 .. Len(e)
    BY <1>7, <2>4, <2>5, <2>9
  <2>10. CASE u \in 1 .. Len(o) /\ x = Len(e) + u /\ v \in 1 .. Len(o) /\ y = Len(e) + v
    <3>1. u # v
      BY <1>8, <2>10
    <3> QED BY <1>1, <2>5, <2>6, <2>10, <3>1
  <2> QED BY <2>1, <2>2, <2>7, <2>8, <2>9, <2>10
<1>9. Placed(ps, i, r)
  BY <1>4, <1>6, <1>8 DEF Placed
<1> QED BY <1>9 DEF r, o, ps

\* What migrate takes from a sane MBR.
LEMMA ExtentsPlaced ==
    ASSUME DiskT, MbrSane(mbr), NEW slice
    PROVE  Placed(mbr.parts, Len(mbr.parts), Extents(slice))
<1> DEFINE ps == mbr.parts
           g == CHOOSE f : ExtentChain(ps, slice, Len(ps), f)
<1>1. ps \in Seq(MbrPart) /\ Len(ps) \in 0 .. Len(ps) /\ Len(ps) \in Nat
  <2>1. ps \in Seq(MbrPart)
    BY MbrIs
  <2> HIDE DEF ps
  <2> QED BY <2>1
<1>2. Extents(slice) = g[Len(ps)]
  BY ExtentChainIs, Zenon
<1>3. ExtentChain(ps, slice, Len(ps), g)
  <2> HIDE DEF ps
  <2> QED BY <1>1, ExtentChainExists, Zenon
<1> HIDE DEF g
<1>4. g[0] = <<>> /\ \A k \in 1 .. Len(ps) : g[k] = g[k - 1] \o ExtentOf(ps[k], slice)
  <2>1. \A k \in 0 .. Len(ps) : g[k] = IF k = 0 THEN <<>> ELSE g[k - 1] \o ExtentOf(ps[k], slice)
    BY <1>3, Zenon DEF ExtentChain
  <2>2. 0 \in 0 .. Len(ps) /\ \A k \in 1 .. Len(ps) : k \in 0 .. Len(ps) /\ k # 0
    <3> HIDE DEF ps
    <3> QED BY <1>1
  <2> HIDE DEF ps
  <2> QED BY <2>1, <2>2, Zenon
<1> DEFINE Bad == {i \in 0 .. Len(ps) : ~Placed(ps, i, g[i])}
<1>5. Bad = {}
  <2> SUFFICES ASSUME Bad # {} PROVE FALSE
    OBVIOUS
  <2>1. Bad \subseteq Nat
    BY <1>1
  <2>2. 0 \notin Bad
    <3>1. Placed(ps, 0, <<>>)
      BY DEF Placed
    <3> QED BY <1>4, <3>1
  <2> HIDE DEF Bad
  <2>3. PICK i : i = Min(Bad)
    OBVIOUS
  <2>4. i \in Bad /\ \A j \in Bad : i <= j
    BY <2>1, <2>3, LeastOf
  <2>5. i \in 1 .. Len(ps) /\ i - 1 \in 0 .. Len(ps) /\ i - 1 \notin Bad
    <3>1. i \in 0 .. Len(ps) /\ i # 0
      BY <2>2, <2>4 DEF Bad
    <3> QED BY <1>1, <2>4, <3>1
  <2>6. ~Placed(ps, i, g[i]) /\ Placed(ps, i - 1, g[i - 1])
    BY <2>4, <2>5 DEF Bad
  <2>7. Placed(ps, i, g[i - 1] \o ExtentOf(ps[i], slice))
    BY <1>1, <2>5, <2>6, PlacedStep
  <2>8. g[i] = g[i - 1] \o ExtentOf(ps[i], slice)
    BY <1>4, <2>5
  <2> QED BY <2>6, <2>7, <2>8
<1>6. Placed(ps, Len(ps), g[Len(ps)])
  BY <1>1, <1>5
<1> QED BY <1>2, <1>6

\* A partition of the MBR lies behind the free space at the beginning of the
\* map and before that at its end.
LEMMA PartBetween ==
    ASSUME NEW m, NEW z, Tiles(m, z), NEW h, Has(m, h), h.type = "mbr_part", h.start >= 2, h.size > 0,
           NEW b \in Nat, map_free(m, 1, 0) # 0, b <= map_free(m, 1, 0),
           map_last(m).type = "unused", b <= map_last(m).size
    PROVE  h.start >= b + 1 /\ h.start + h.size <= z - b
<1>1. m \in Seq(SegRec) /\ Len(m) \in Nat /\ Len(m) > 0 /\ m[Len(m)].start + m[Len(m)].size = z
  BY DEF Tiles
<1> DEFINE k == SegmentAt(m, 1)
           l == Len(m)
<1>2. k \in 0 .. Len(m) /\ (k # 0 => End(m[k]) > 1)
  BY <1>1, SegmentAtIs
<1>3. \A i \in 1 .. Len(m) : i < k => End(m[i]) <= 1
  BY <1>1, SegmentAtFirst
<1>4. k # 0 /\ m[k].type = "unused" /\ map_free(m, 1, 0) = End(m[k]) - 1
  BY DEF map_free
<1> HIDE DEF k
<1>5. PICK j \in 1 .. Len(m) : m[j] = h
  BY DEF Has
<1>6. k \in 1 .. Len(m) /\ l \in 1 .. Len(m) /\ j <= l
  BY <1>1, <1>2, <1>4
<1>7. \A i \in 1 .. Len(m) : m[i].start \in Int /\ m[i].size \in Int
  BY TilesEnd
<1>8. m[l].type = "unused" /\ b <= m[l].size
  BY DEF map_last, Last
<1>9. j # k /\ j # l
  BY <1>4, <1>5, <1>8
<1>10. ~(j < k)
  <2> SUFFICES ASSUME j < k PROVE FALSE
    OBVIOUS
  <2>1. End(m[j]) <= 1
    BY <1>3
  <2> QED BY <1>5, <1>7, <2>1 DEF End
<1>11. k < j /\ j < l
  BY <1>6, <1>9, <1>10
<1>12. End(m[k]) <= m[j].start /\ End(m[j]) <= m[l].start
  <2> HIDE DEF l
  <2> QED BY <1>6, <1>11, TilesSorted
<1>13. h.start >= b + 1
  <2>1. End(m[k]) \in Int /\ h.start \in Int /\ End(m[k]) <= h.start /\ b <= End(m[k]) - 1
    BY <1>4, <1>5, <1>6, <1>7, <1>12 DEF End
  <2> QED BY <2>1
<1>14. h.start + h.size <= z - b
  <2>1. h.start + h.size \in Int /\ m[l].start \in Int /\ m[l].size \in Int /\ h.start + h.size <= m[l].start
    BY <1>5, <1>6, <1>7, <1>12 DEF End
  <2>2. m[l].start + m[l].size = z
    BY <1>1
  <2> HIDE DEF l
  <2> QED BY <1>8, <2>1, <2>2
<1> QED BY <1>13, <1>14

\* migrate
LEMMA MigrateLaid ==
    ASSUME LInv, Ready, Sane, NEW nombr, NEW force, NEW slice, NEW p \in Parts,
           Migrate(gpt_open(nombr), force, slice, p), ~forked'
    PROVE  LPart'
<1> DEFINE m == gpt_open(nombr)
           b == GptBlocks(m, p)
           e == Extents(slice)
           ps == mbr.parts
           L == Last1
<1>1. /\ m # Null /\ ~map_find(m, "pri_hdr") /\ ~map_find(m, "sec_hdr") /\ b # 0 /\ map_find(m, "mbr")
      /\ (IF Hidden(m) THEN "migrate_M" ELSE "migrate") \in Commands
      /\ cmd' = "migrate" /\ mem' = NewCore(b, p, e) /\ todo' = MigrateWrites /\ left' = {}
      /\ UNCHANGED diskVars /\ forked' = forked
  BY DEF Migrate, Opens
<1>2. ~Hidden(m)
  BY <1>1 DEF Sane
<1>3. DiskT /\ MapOK(m) /\ p \in 1 .. N /\ MbrSane(mbr)
  <2>1. DiskT
    BY DEF LInv, SInv, TInv
  <2> QED BY <1>1, <2>1, OpenIs, MbrIsSane, GeometryAssumption
<1>4. m = gpt_mbr(map_init(media), nombr)
  <2>1. \A c \in Copies : map_find(m, HdrType(c)) <=> Intact(c)
    BY <1>1, <1>3, OpenIs
  <2>2. ~Intact("pri") /\ ~Intact("sec")
    <3> HIDE DEF m
    <3> QED BY <1>1, <2>1 DEF Copies, HdrType
  <2>3. gpt_gpt(gpt_mbr(map_init(media), nombr), "pri") = gpt_mbr(map_init(media), nombr)
    <3> DEFINE q == gpt_mbr(map_init(media), nombr)
    <3> HIDE DEF q
    <3>1. gpt_gpt(q, "pri") = q
      BY <2>2 DEF gpt_gpt
    <3> QED BY <3>1 DEF q
  <2>4. gpt_gpt(gpt_mbr(map_init(media), nombr), "sec") = gpt_mbr(map_init(media), nombr)
    <3> DEFINE q == gpt_mbr(map_init(media), nombr)
    <3> HIDE DEF q
    <3>1. gpt_gpt(q, "sec") = q
      BY <2>2 DEF gpt_gpt
    <3> QED BY <3>1 DEF q
  <2> QED BY <2>3, <2>4, Zenon DEF gpt_open
<1>5. /\ Tiles(m, media)
      /\ ~nombr /\ mbr.kind # "none" => \A k \in 1 .. Len(ps) : Has(m, MbrSegs[k])
      /\ nombr => ~map_find(m, "mbr_part")
  <2>1. gpt_mbr(map_init(media), nombr) # Null
    BY <1>1, <1>4
  <2> QED BY <1>3, <1>4, <2>1, MbrMap
<1>6. mbr.kind # "none"
  <2> SUFFICES ASSUME mbr.kind = "none" PROVE FALSE
    OBVIOUS
  <2>1. gpt_mbr(map_init(media), nombr) = map_init(media)
    BY DEF gpt_mbr
  <2>2. ~map_find(map_init(media), "mbr")
    BY DEF map_init, map_find, Seg
  <2> HIDE DEF m
  <2> QED BY <1>1, <1>4, <2>1, <2>2
<1>7. /\ b \in Nat \ {0, 1} /\ 2 * b <= L
      /\ map_free(m, 1, 0) # 0 /\ b <= map_free(m, 1, 0)
      /\ map_last(m).type = "unused" /\ b <= map_last(m).size
  <2> HIDE DEF m
  <2> QED BY <1>1, <1>3, GptBlocksFit
<1>8. L + 1 = media /\ L \in Int /\ media \in Int
  BY <1>3, MbrIs DEF Last1
<1>9. Placed(ps, Len(ps), e)
  BY <1>3, ExtentsPlaced
<1>10. ps \in Seq(MbrPart) /\ Len(ps) \in Nat
  <2>1. ps \in Seq(MbrPart)
    BY <1>3, MbrIs
  <2> HIDE DEF ps
  <2> QED BY <2>1
<1>11. ASSUME NEW k \in 1 .. Len(ps)
       PROVE  ps[k].start >= b + 1 /\ ps[k].start + ps[k].size <= media - b
  <2>1. ps # <<>>
    <3> HIDE DEF ps
    <3> QED BY <1>10
  <2>2. map_find(m, "mbr_part")
    <3> HIDE DEF m
    <3> QED BY <1>2, <2>1 DEF Hidden
  <2>3. Has(m, MbrSegs[k])
    <3> HIDE DEF m
    <3> QED BY <1>5, <1>6, <2>2
  <2>4. /\ MbrSegs[k].type = "mbr_part"
        /\ MbrSegs[k].start = ps[k].start /\ MbrSegs[k].size = ps[k].size
    BY <1>3, MbrSegsOK
  <2>5. ps[k].start >= 2 /\ ps[k].size > 0
    BY <1>3 DEF MbrSane
  <2> HIDE DEF m, b, ps
  <2>6. MbrSegs[k].start >= b + 1 /\ MbrSegs[k].start + MbrSegs[k].size <= media - b
    BY <1>5, <1>7, <2>3, <2>4, <2>5, PartBetween
  <2> QED BY <2>4, <2>6
<1> HIDE DEF m, b, e, ps, L
<1>12. \A k \in 1 .. Len(ps) : ps[k].start \in Int /\ ps[k].size \in Int
  <2>1. \A k \in 1 .. Len(ps) : ps[k] \in MbrPart
    BY <1>10
  <2> QED BY <2>1 DEF MbrPart
<1>13. e \in Seq(Extent) /\ Fit(e, b + 1, L + 1 - b)
  <2>1. e \in Seq(Extent)
    BY <1>9 DEF Placed
  <2>2. ASSUME NEW x \in 1 .. Len(e)
        PROVE  e[x].size > 0 /\ e[x].start >= b + 1 /\ e[x].start + e[x].size <= L + 1 - b
    <3>1. e[x].size > 0
      BY <1>9 DEF Placed
    <3>2. PICK k \in 1 .. Len(ps) : Within(e[x], ps[k])
      BY <1>9 DEF Placed
    <3>3. ps[k].start >= b + 1 /\ ps[k].start + ps[k].size <= media - b
          /\ ps[k].start \in Int /\ ps[k].size \in Int
      BY <1>11, <1>12
    <3>4. e[x] \in Extent
      BY <2>1
    <3>5. e[x].start \in Int /\ e[x].size \in Int
      BY <3>4 DEF Extent
    <3>6. e[x].start >= ps[k].start /\ e[x].start + e[x].size <= ps[k].start + ps[k].size
      BY <3>2 DEF Within
    <3>7. \A u, uz, v, vz, d, z \in Int :
            u >= v /\ u + uz <= v + vz /\ v >= d + 1 /\ v + vz <= z - d => u >= d + 1 /\ u + uz <= z - d
      OBVIOUS
    <3>8. b \in Int
      BY <1>7
    <3>9. e[x].start >= b + 1 /\ e[x].start + e[x].size <= media - b
      <4> DEFINE u == e[x].start
                 uz == e[x].size
                 v == ps[k].start
                 vz == ps[k].size
      <4>1. u \in Int /\ uz \in Int /\ v \in Int /\ vz \in Int /\ b \in Int /\ media \in Int
        BY <1>8, <3>3, <3>5, <3>8
      <4>2. u >= v /\ u + uz <= v + vz /\ v >= b + 1 /\ v + vz <= media - b
        BY <3>3, <3>6
      <4> HIDE DEF u, uz, v, vz
      <4>3. u >= b + 1 /\ u + uz <= media - b
        BY <3>7, <4>1, <4>2, Zenon
      <4> QED BY <4>3 DEF u, uz
    <3> QED BY <1>8, <3>1, <3>8, <3>9
  <2>3. \A x, y \in 1 .. Len(e) : x # y => Apart(e[x], e[y])
    BY <1>9 DEF Placed
  <2> QED BY <2>1, <2>2, <2>3 DEF Fit
<1>14. \A c \in Copies : LaidIn(mem'[c].n, mem'[c].ent, Last1)
  <2>1. 2 * b <= Last1 /\ Fit(e, b + 1, Last1 + 1 - b)
    BY <1>7, <1>13 DEF L
  <2>2. \A c \in Copies : LaidIn(NewCore(b, p, e)[c].n, NewCore(b, p, e)[c].ent, Last1)
    BY <1>3, <1>7, <1>13, <2>1, NewLaid
  <2> QED BY <1>1, <2>2
<1>15. ~Has(todo', "image")
  <2>1. ~Has(<<"pmbr">>, "image") /\ ~Has(BothWrites, "image")
    BY DEF Has, BothWrites
  <2>2. BothWrites \in Seq(Writes) /\ <<"pmbr">> \in Seq(Writes)
    BY DEF BothWrites, Writes
  <2>3. ~Has(MigrateWrites, "image")
    BY <2>1, <2>2, HasConcat, Zenon DEF MigrateWrites
  <2> QED BY <1>1, <2>3
<1> QED BY <1>1, <1>14, <1>15, StartLaid

-----------------------------------------------------------------------------
(* The theorem *)

\* A disk without a GPT has no partitions.
LEMMA InitLaid == Init => LInv
<1> SUFFICES ASSUME Init PROVE LInv
  OBVIOUS
<1>1. hdr = [c \in Copies |-> NoHdr] /\ cmd = "none" /\ todo = <<>> /\ left = {}
  BY DEF Init
<1>2. \A x : ~Has(todo, x)
  BY <1>1 DEF Has
<1>3. \A c \in Copies : hdr[c].n = 0
  BY <1>1 DEF NoHdr
<1>4. HdrsLaid
  BY <1>3, NoHdrLaid DEF HdrsLaid
<1>5. CoreLaid /\ LeftUsed /\ ImagePlan
  BY <1>1, <1>2 DEF CoreLaid, LeftUsed, ImagePlan
<1> QED BY <1>4, <1>5, InitSafe DEF LInv, LPart

\* The two commands by name.
LEMMA InstallbootLaid ==
    ASSUME LInv, Ready, Sane, NEW nombr, NEW z \in BootSizes,
           installboot(gpt_open(nombr), z) \/ installefi(gpt_open(nombr), z), ~forked'
    PROVE  LPart'
<1> DEFINE m == gpt_open(nombr)
<1>1. Install(m, "installboot", z, <<"pmbr">>) \/ Install(m, "installefi", z, <<>>)
  BY DEF installboot, installefi
<1>2. "installboot" \in {"installboot", "installefi"} /\ "installefi" \in {"installboot", "installefi"}
      /\ <<>> \in {<<>>, <<"pmbr">>} /\ <<"pmbr">> \in {<<>>, <<"pmbr">>}
  OBVIOUS
<1> QED BY <1>1, <1>2, InstallLaid, Zenon

\* Every command keeps it.
LEMMA CommandLaid ==
    ASSUME LInv, Ready, Sane, NEW nombr, ~forked',
           LET m == gpt_open(nombr)
           IN \/ \E e \in 0 .. N, arg \in AddArgs : Add(m, e, arg)
              \/ \E e \in 1 .. N, arg \in ResizeArgs : Resize(m, e, arg)
              \/ \E name \in {"remove", "label", "rename"}, S \in SUBSET Ent : EditAll(m, name, S)
              \/ \E size \in BootSizes : installboot(m, size) \/ installefi(m, size)
              \/ \E force \in BOOLEAN : Recover(m, force) \/ RecoverPmbr(m, force)
              \/ RecoverMedia(m)
              \/ \E force, priOnly \in BOOLEAN, p \in Parts : Create(m, force, priOnly, p)
              \/ \E force, slice \in BOOLEAN, p \in Parts : Migrate(m, force, slice, p)
              \/ \E recoverable \in BOOLEAN : Destroy(m, recoverable)
    PROVE  LPart'
<1> DEFINE m == gpt_open(nombr)
<1>1. CASE \E e \in 0 .. N, arg \in AddArgs : Add(m, e, arg)
  BY <1>1, AddLaid
<1>2. CASE \E e \in 1 .. N, arg \in ResizeArgs : Resize(m, e, arg)
  BY <1>2, ResizeLaid
<1>3. CASE \E name \in {"remove", "label", "rename"}, S \in SUBSET Ent : EditAll(m, name, S)
  BY <1>3, EditAllLaid
<1>4. CASE \E size \in BootSizes : installboot(m, size) \/ installefi(m, size)
  BY <1>4, InstallbootLaid
<1>5. CASE \E force \in BOOLEAN : Recover(m, force) \/ RecoverPmbr(m, force)
  BY <1>5, RecoverLaid, RecoverPmbrLaid
<1>6. CASE RecoverMedia(m)
  BY <1>6, RecoverMediaLaid
<1>7. CASE \E force, priOnly \in BOOLEAN, p \in Parts : Create(m, force, priOnly, p)
  BY <1>7, CreateLaid
<1>8. CASE \E force, slice \in BOOLEAN, p \in Parts : Migrate(m, force, slice, p)
  BY <1>8, MigrateLaid
<1>9. CASE \E recoverable \in BOOLEAN : Destroy(m, recoverable)
  BY <1>9, DestroyLaid
<1> HIDE DEF m
<1>10. \/ \E e \in 0 .. N, arg \in AddArgs : Add(m, e, arg)
       \/ \E e \in 1 .. N, arg \in ResizeArgs : Resize(m, e, arg)
       \/ \E name \in {"remove", "label", "rename"}, S \in SUBSET Ent : EditAll(m, name, S)
       \/ \E size \in BootSizes : installboot(m, size) \/ installefi(m, size)
       \/ \E force \in BOOLEAN : Recover(m, force) \/ RecoverPmbr(m, force)
       \/ RecoverMedia(m)
       \/ \E force, priOnly \in BOOLEAN, p \in Parts : Create(m, force, priOnly, p)
       \/ \E force, slice \in BOOLEAN, p \in Parts : Migrate(m, force, slice, p)
       \/ \E recoverable \in BOOLEAN : Destroy(m, recoverable)
  BY Zenon DEF m
<1> QED BY <1>1, <1>2, <1>3, <1>4, <1>5, <1>6, <1>7, <1>8, <1>9, <1>10, Zenon

\* A step of nothing keeps it.
LEMMA StutterLaid ==
    ASSUME LInv, UNCHANGED vars, ~forked'
    PROVE  LPart'
<1>1. /\ hdr' = hdr /\ media' = media /\ cmd' = cmd /\ todo' = todo /\ left' = left /\ mem' = mem
      /\ forked' = forked
  BY DEF vars, diskVars, coreVars, histVars
<1>2. LPart /\ Last1' = Last1
  BY <1>1 DEF LInv, Last1
<1> QED BY <1>1, <1>2 DEF LPart, HdrsLaid, CoreLaid, LeftUsed, ImagePlan, ImageAt

\* Every step keeps it.
LEMMA NextLaid ==
    ASSUME Sane, LInv, [Next]_vars
    PROVE  LInv'
<1>0. SInv'
  BY NextSafe DEF LInv
<1> SUFFICES ASSUME ~forked' PROVE LPart'
  BY <1>0 DEF LInv
<1>1. CASE Write
  BY <1>1, WriteLaid
<1>2. CASE WriteFails
  BY <1>2, WriteFailsLaid
<1>3. CASE Crash
  BY <1>3, CrashLaid
<1>4. CASE EditNext
  BY <1>4, EditNextLaid
<1>5. CASE Grow
  BY <1>5, GrowLaid
<1>6. CASE UNCHANGED vars
  BY <1>6, StutterLaid
<1>7. CASE ~(Write \/ WriteFails \/ Crash \/ EditNext \/ Grow) /\ Next
  BY <1>7, CommandLaid, Zenon DEF Next
<1> QED BY <1>1, <1>2, <1>3, <1>4, <1>5, <1>6, <1>7

\* It says that the partitions are disjoint and that the image is in place.
LEMMA LaidDisjoint == LInv => Disjoint
<1> SUFFICES ASSUME LInv, ~forked, NEW c \in Copies, Intact(c) PROVE Laid(c) /\ ImageInPlace(c)
  BY DEF Disjoint
<1> DEFINE n == hdr[c].n
           t == tbl[c]
           L == Last1
<1>1. LaidIn(n, t, L)
  BY IntactLaid
<1>2. n > 0 /\ hdr[c].crc = Sum(n, t)
  BY DEF Intact
<1>3. DiskT /\ todo \in Seq(Writes)
  BY DEF LInv, SInv, TInv, CoreT
<1>u. Used(c) = {t[i] : i \in {j \in 0 .. n - 1 : t[j].used}}
  BY DEF Used
<1>4. Laid(c)
  <2>1. \A x \in Used(c) : x.size > 0 /\ x.start >= 2 + Blocks(n) /\ End(x) <= L - Blocks(n)
    BY <1>1, <1>u DEF LaidIn, End
  <2>2. \A i, j \in 0 .. n - 1 : i < j /\ t[i].used /\ t[j].used => End(t[i]) <= t[j].start \/ End(t[j]) <= t[i].start
    <3> SUFFICES ASSUME NEW i \in 0 .. n - 1, NEW j \in 0 .. n - 1, i < j, t[i].used, t[j].used
                 PROVE  End(t[i]) <= t[j].start \/ End(t[j]) <= t[i].start
      OBVIOUS
    <3>1. i # j
      BY <1>3 DEF DiskT
    <3> QED BY <1>1, <3>1 DEF LaidIn, Apart, End
  <2> QED BY <2>1, <2>2 DEF Laid
<1>5. ImageInPlace(c)
  <2> SUFFICES ASSUME todo # <<>>, Head(todo) = "image"
               PROVE  \E i \in gpt_lookup(cmd, mem["pri"].n, mem["pri"].ent) :
                        LET at == mem["pri"].ent[i].start
                        IN /\ at >= 2 + Blocks(n) /\ at + ImageSize <= L - Blocks(n)
                           /\ \A x \in Used(c) : x.start = at \/ at + ImageSize <= x.start \/ End(x) <= at
    BY DEF ImageInPlace
  <2>1. Has(todo, "image")
    <3>1. Head(todo) = todo[1] /\ 1 \in 1 .. Len(todo)
      BY <1>3
    <3> QED BY <3>1 DEF Has
  <2>2. PICK i \in gpt_lookup(cmd, mem["pri"].n, mem["pri"].ent) : ImageAt(mem["pri"].ent[i].start)
    BY <2>1 DEF LInv, LPart, ImagePlan
  <2> DEFINE at == mem["pri"].ent[i].start
  <2>3. ClearOf(n, hdr[c].crc, L, at)
    BY <1>2, <2>2 DEF ImageAt
  <2> HIDE DEF at
  <2>4. ClearOf(n, t, L, at)
    <3> HIDE DEF n, t, L
    <3> QED BY <1>2, <2>3, LaidSum
  <2>5. /\ at >= 2 + Blocks(n) /\ at + ImageSize <= L - Blocks(n)
        /\ \A x \in Used(c) : x.start = at \/ at + ImageSize <= x.start \/ End(x) <= at
    BY <1>u, <2>4 DEF ClearOf, End
  <2> QED BY <2>2, <2>5 DEF at
<1> QED BY <1>4, <1>5

\* The partitions of an intact GPT never overlap, and images are written into
\* their partition only: for every medium, table size and sequence of commands,
\* crashes and failed writes, as long as migrate -M and a resize of a partition
\* that the MBR hides are not among them.
THEOREM PartitionsApart ==
    ASSUME Sane
    PROVE  Spec => []Disjoint
<1>1. LInv /\ [Next]_vars => LInv'
  BY NextLaid
<1> QED BY <1>1, InitLaid, LaidDisjoint, PTL DEF Spec
=============================================================================
