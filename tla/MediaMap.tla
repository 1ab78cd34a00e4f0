------------------------------ MODULE MediaMap ------------------------------
(***************************************************************************)
(* The media map of fgdisk (sbin/fgdisk/map.c): what every sector of the   *)
(* medium is used for, as a list of segments in the order of their LBAs.   *)
(* The functions of map.c are operators from maps to maps.                 *)
(***************************************************************************)
EXTENDS Integers, Sequences, SequencesExt

\* map_type
Kinds == {"unused", "mbr", "mbr_part", "pri_hdr", "sec_hdr", "pri_tbl",
          "sec_tbl", "gpt_part", "pmbr"}

\* struct map; index is 0 where the code leaves map_index alone.
Seg(start, size, type, index) ==
    [start |-> start, size |-> size, type |-> type, index |-> index]
End(s) == s.start + s.size

\* What functions returning map_t return on failure.  No map is empty.
Null == <<>>

map_init(size) == <<Seg(0, size, "unused", 0)>>

\* The first segment that ends after an LBA; 0 if there is none.
SegmentAt(m, start) == SelectInSeq(m, LAMBDA s : End(s) > start)

\* A GPT partition may replace a partition of the MBR, and nothing else may
\* be replaced in part.
MayReplace(old, new) ==
    old = "unused" \/ (old = "mbr_part" /\ new = "gpt_part")

\* Put segment s into the map.  A segment it fills exactly is replaced
\* whatever its type ("mirrored").
map_add(m, s) ==
    LET k == SegmentAt(m, s.start)
        n == m[k]
        \* What is left of n keeps its index, on the right if there is a right.
        after  == Seg(End(s), End(n) - End(s), "unused", n.index)
        before == Seg(n.start, s.start - n.start, "unused",
                      IF after.size > 0 THEN 0 ELSE n.index)
        exact  == n.start = s.start /\ n.size = s.size
    IN IF k = 0 THEN Null
       ELSE IF End(n) < End(s) THEN Null
       ELSE IF exact
         THEN [m EXCEPT ![k] = IF s.index = 0 THEN [s EXCEPT !.index = n.index] ELSE s]
       ELSE IF ~MayReplace(n.type, s.type) THEN Null
       ELSE SubSeq(m, 1, k - 1)
            \o (IF before.size > 0 THEN <<before>> ELSE <<>>)
            \o <<s>>
            \o (IF after.size > 0 THEN <<after>> ELSE <<>>)
            \o SubSeq(m, k + 1, Len(m))

\* Next multiple of a, as the code computes it.
RoundUp(x, a) == IF a > 0 /\ x % a # 0 THEN ((x + a) \div a) * a ELSE x

\* Where in segment s the new partition would begin, relative to s.
allocDelta(s, start, a) ==
    IF start # 0 THEN start - s.start ELSE RoundUp(s.start, a) - s.start

\* Find room for a GPT partition: at a given start, or anywhere (start = 0);
\* of a given size, or as large as possible (size = 0).  The segment to add,
\* or none (size -1).
map_alloc(m, start0, size0, a) ==
    LET start == RoundUp(start0, a)
        size  == RoundUp(size0, a)
        room(s) == s.size - allocDelta(s, start, a)
        fits(s) ==
            /\ s.type = "unused" /\ s.start >= 2
            /\ start = 0 \/ s.start <= start
            /\ size = 0 \/ room(s) >= size
            /\ room(s) >= a
        k == SelectInSeq(m, fits)
        s == m[k]
        rest == IF a > 0 /\ room(s) % a # 0 THEN (room(s) \div a) * a ELSE room(s)
        new == Seg(s.start + allocDelta(s, start, a),
                   IF size = 0 THEN rest ELSE size, "gpt_part", 0)
    IN IF k = 0 THEN Seg(0, 0 - 1, "unused", 0)
       ELSE IF map_add(m, new) = Null THEN Seg(0, 0 - 1, "unused", 0) ELSE new

\* Mutant: the room behind the partition is not compared with the growth.
growRoomAny(m, k, size) == k < Len(m) /\ m[k + 1].type = "unused"

\* Segment k can grow to the size given.
growRoom(m, k, size) ==
    /\ k < Len(m) /\ m[k + 1].type = "unused"
    /\ m[k + 1].size >= size - m[k].size

\* The size segment k gets when it is to have the size given, or all there is
\* (size = 0); -1 when that cannot be.
map_resize(m, k, size, a) ==
    LET all == m[k].size + m[k + 1].size
        max == IF a = 0 THEN all ELSE (all \div a) * a
        alignsize == IF size # 0 /\ a % size # 0
                       THEN ((size + a) \div a) * a ELSE size
    IN IF size = 0
         THEN IF k = Len(m) \/ m[k + 1].type # "unused" THEN 0 - 1
              ELSE IF a > 0 /\ max <= m[k].size THEN 0 - 1 ELSE max
       ELSE IF alignsize > m[k].size /\ ~growRoom(m, k, alignsize) THEN 0 - 1
       ELSE alignsize

\* Is there a segment of this type?
map_find(m, type) == \E k \in 1 .. Len(m) : m[k].type = type

map_last(m) == Last(m)

\* Free sectors from start on: how many (size = 0), or are there size of them.
map_free(m, start, size) ==
    LET k == SegmentAt(m, start)
    IN IF k = 0 \/ m[k].type # "unused" THEN 0
       ELSE IF size = 0 THEN End(m[k]) - start
       ELSE IF End(m[k]) >= start + size THEN 1 ELSE 0
=============================================================================
