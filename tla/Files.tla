------------------------------- MODULE Files -------------------------------
(***************************************************************************)
(* Reading and seeking an open file: the read-ahead buffer of the          *)
(* descriptor (lib/libstand/open.c, read.c, lseek.c, close.c) over one of  *)
(*   "plain"  a file system that keeps a position (ufs, dosfs, ...),       *)
(*   "gzip"   gzipfs.c over a compressed file,                             *)
(*   "bzip"   bzipfs.c over a compressed file,                             *)
(*   "split"  splitfs.c over the slices of a file.                         *)
(* The compressed file and the slices are themselves read through          *)
(* descriptors; here such a descriptor is what FileSpec says it is: a      *)
(* position that a read moves, or a failure, which may have moved it, too: *)
(* read() and lseek() have dropped what was in its read-ahead buffer       *)
(* before they fail.  Byte k of the file is written k.  A compressed file  *)
(* is made of units: unit 0 is its header, unit NData + 1 its end mark,    *)
(* and each one between holds Ratio bytes.                                 *)
(***************************************************************************)
EXTENDS Integers, Sequences, FiniteSetsExt

CONSTANTS
    Rasize,     \* SOPEN_RASIZE
    Zbufsize,   \* Z_BUFSIZE and BZ_BUFSIZE, in units
    Discard,    \* sizeof(discard) in zf_seek() and bzf_seek()
    Seekbuf,    \* SEEK_BUF
    Ratio,      \* bytes a unit of compressed data expands to
    NData,      \* units with data
    RawLengths, \* lengths a compressed file may have; NData + 2 is whole
    Bounds,     \* where each slice of a split file begins, and where the last one ends
    Kinds,      \* the kinds of file that are opened
    MaxRead,    \* bound: bytes asked for by a read
    MaxSeek,    \* bound: how far a seek goes
    MaxFails    \* bound: failures of what lies below

\* The whole length is the same for every kind.
Size == Ratio * NData
ASSUME FilesAssumption ==
    /\ Rasize \in Nat \ {0} /\ Zbufsize \in Nat \ {0} /\ Discard \in Nat \ {0}
    /\ Seekbuf \in Nat \ {0} /\ Ratio \in Nat \ {0} /\ NData \in Nat
    /\ RawLengths \subseteq 1 .. NData + 2
    /\ Kinds \subseteq {"plain", "gzip", "bzip", "split"}
    /\ MaxRead \in Nat /\ MaxSeek \in Nat /\ MaxFails \in Nat
    /\ Bounds \in Seq(Nat) /\ Len(Bounds) > 1
    /\ Bounds[1] = 0 /\ Bounds[Len(Bounds)] = Size
    /\ \A i, j \in 1 .. Len(Bounds) : i <= j => Bounds[i] <= Bounds[j]

VARIABLES
    kind,       \* f_ops of the descriptor; "closed" if it is free
    ra,         \* f_rabuf, f_raoffset and f_ralen
    call,       \* the call that is being served
    io,         \* the fo_read() it waits for
    fpos,       \* plain: position in the file
    z,          \* struct z_file or bz_file
    sf,         \* struct split_file
    rawlen,     \* length of the compressed file, in units
    fails,      \* failures so far
    lost,       \* history: a call below failed and had moved the position there
    res         \* what the last call returned

vars == <<kind, ra, call, io, fpos, z, sf, rawlen, fails, lost, res>>

Bytes(p, k) == [i \in 1 .. k |-> p + i - 1]
NoRa   == [buf |-> <<>>, offset |-> 0, len |-> 0]
\* start: history, the position before the call (see Here); n: bytes asked for.
NoCall == [op |-> "none", start |-> 0, n |-> 0, resid |-> 0, dest |-> <<>>, target |-> 0]
NoIo   == [for |-> "none", size |-> 0, got |-> <<>>]
NoRes  == [op |-> "none", ret |-> 0, data |-> <<>>, start |-> 0, n |-> 0, target |-> 0]
Busy   == call.op # "none"
Zipped == kind \in {"gzip", "bzip"}

\* What fo_seek(f, 0, SEEK_CUR) returns.
FsPos == CASE kind = "plain" -> fpos
           [] Zipped -> z.total
           [] kind = "split" -> sf.tot
           [] OTHER -> 0
\* The position of the next byte the caller of read() gets.
Position == FsPos - ra.len
\* The same for the history; 0 if it is not known.
Here == IF lost THEN 0 ELSE Position

-----------------------------------------------------------------------------
(* open() and close() *)

\* Units of the compressed file that the decoder is fed first: check_header()
\* of gzipfs has eaten the header, that of bzipfs puts it back.
DataOffset(k) == IF k = "gzip" THEN 1 ELSE 0

\* The decoder: next unit it must be fed, bytes it still holds, bytes given.
\* The stream: rawpos of the descriptor below, avail_in units in zf_buf, of
\* which the first is unit at.
FreshZ(k, filled) ==
    [rawpos |-> filled, avail |-> filled - DataOffset(k), at |-> DataOffset(k),
     next |-> DataOffset(k), pend |-> 0, total |-> 0, endseen |-> FALSE]
NoZ  == [rawpos |-> 0, avail |-> 0, at |-> 0, next |-> 0, pend |-> 0, total |-> 0, endseen |-> FALSE]
\* curfd: a slice is open; spos: position of its descriptor.
NoSf == [cur |-> 1, curfd |-> TRUE, spos |-> 0, file |-> 0, tot |-> 0]

\* zf_open() and bzf_open() have filled the buffer to see the header.
Open(k) ==
    /\ kind = "closed" /\ kind' = k
    /\ \E n \in RawLengths :
        /\ k \notin {"gzip", "bzip"} => n = NData + 2
        /\ rawlen' = n
        /\ z' = IF k \in {"gzip", "bzip"} THEN FreshZ(k, Min({Zbufsize, n})) ELSE NoZ
    /\ ra' = NoRa /\ fpos' = 0 /\ sf' = NoSf /\ res' = NoRes
    /\ UNCHANGED <<call, io, fails, lost>>

Close ==
    /\ kind # "closed" /\ ~Busy
    /\ kind' = "closed" /\ ra' = NoRa /\ res' = NoRes
    /\ fpos' = 0 /\ z' = NoZ /\ sf' = NoSf /\ lost' = FALSE
    /\ UNCHANGED <<call, io, rawlen, fails>>

\* panic() has been called: the machine starts again.
Reboot ==
    /\ call.op = "panic" /\ call' = NoCall
    /\ kind' = "closed" /\ ra' = NoRa /\ res' = NoRes
    /\ fpos' = 0 /\ z' = NoZ /\ sf' = NoSf /\ lost' = FALSE
    /\ UNCHANGED <<io, rawlen, fails>>

\* A call returns r with data d.
Return(r, d) ==
    /\ call' = NoCall
    /\ res' = [op |-> IF call.op = "read" THEN "read" ELSE "lseek", ret |-> r, data |-> d,
               start |-> call.start, n |-> call.n, target |-> call.target]

-----------------------------------------------------------------------------
(* read() *)

Read(n) ==
    /\ kind # "closed" /\ ~Busy
    /\ call' = [NoCall EXCEPT !.op = "read", !.start = Here, !.n = n, !.resid = n]
    /\ res' = NoRes
    /\ UNCHANGED <<kind, ra, io, fpos, z, sf, rawlen, fails, lost>>

\* Mutant: the bytes are copied from the beginning of the buffer.
CopiedFirst(c) == SubSeq(ra.buf, 1, c)

\* Bytes the read-ahead buffer supplies.
Copied(c) == SubSeq(ra.buf, ra.offset + 1, ra.offset + c)

\* One round of the loop: what the buffer has, then another fo_read().
ReadLoop ==
    /\ call.op = "read" /\ io.for = "none"
    /\ LET c == Min({ra.len, call.resid})
           dest == call.dest \o Copied(c)
           resid == call.resid - c
       IN /\ ra' = [ra EXCEPT !.offset = @ + c, !.len = @ - c]
          /\ \/ c > 0 /\ resid = 0 /\ Return(call.n, dest) /\ UNCHANGED io
             \/ /\ ~(c > 0 /\ resid = 0)
                /\ call' = [call EXCEPT !.resid = resid, !.dest = dest]
                /\ io' = IF resid >= Rasize
                         THEN [for |-> "bypass", size |-> resid, got |-> <<>>]
                         ELSE [for |-> "refill", size |-> Rasize, got |-> <<>>]
                /\ UNCHANGED res
    /\ UNCHANGED <<kind, fpos, z, sf, rawlen, fails, lost>>

\* Mutant: the end of the last slice is not noticed.
SkippedAgain(nread) ==
    /\ call' = [call EXCEPT !.resid = IF kind = "split" THEN @ - nread ELSE @]
    /\ UNCHANGED res

\* The loop of zf_seek(), bzf_seek() or splitfs_seek() goes on after nread bytes.
Skipped(nread) ==
    /\ call' = [call EXCEPT !.resid = IF kind = "split" THEN @ - nread ELSE @,
                            !.op = IF kind = "split" /\ nread = 0 THEN "slice" ELSE @]
    /\ UNCHANGED res

\* Mutant: a short answer is taken for the end of the file.
ShortIsEnd(got) == Len(got) < Rasize

\* Refilling the buffer has given nothing.
NoMoreData(got) == got = <<>>

\* fo_read() returns the bytes got.
FoReturn(got) ==
    /\ io' = NoIo
    /\ \/ /\ io.for = "refill"
          /\ ra' = [buf |-> got, offset |-> 0, len |-> Len(got)]
          /\ IF NoMoreData(got) THEN Return(Len(call.dest), call.dest)
             ELSE UNCHANGED <<call, res>>
       \/ /\ io.for = "bypass"
          /\ Return(Len(call.dest) + Len(got), call.dest \o got) /\ UNCHANGED ra
       \/ io.for = "skip" /\ Skipped(Len(got)) /\ UNCHANGED ra

\* fo_read() returns an error.
FoFail == io' = NoIo /\ Return(-1, <<>>) /\ UNCHANGED ra

\* Something below fails.
CanFail == fails < MaxFails
OneMoreFailure == CanFail /\ fails' = fails + 1
\* The same, of a call below that leaves the position there, which was p, at q.
FailsAt(p, q) == OneMoreFailure /\ lost' = (lost \/ q # p)
\* Where a failed call may leave it: not beyond the end.
Onward(p, end) == p .. Max({p, end})

PlainRead ==
    /\ io.for # "none" /\ kind = "plain"
    /\ \/ LET k == Max({0, Min({io.size, Size - fpos})})
          IN FoReturn(Bytes(fpos, k)) /\ fpos' = fpos + k /\ UNCHANGED fails
       \/ FoFail /\ OneMoreFailure
          /\ \E k \in 0 .. io.size : fpos + k <= Size /\ fpos' = fpos + k
    /\ UNCHANGED <<kind, z, sf, rawlen, lost>>

-----------------------------------------------------------------------------
(* zf_read() and bzf_read() *)

Room == io.size - Len(io.got)
ZReading == io.for # "none" /\ Zipped

\* while (avail_out && endseen == 0)
ZDone ==
    /\ ZReading /\ (Room = 0 \/ z.endseen)
    /\ FoReturn(io.got)
    /\ UNCHANGED <<kind, fpos, z, sf, rawlen, fails, lost>>

\* zf_fill() of an empty buffer, and what zf_read() does about the result.
ZFill ==
    /\ ZReading /\ Room > 0 /\ ~z.endseen /\ z.avail = 0
    /\ LET n == Max({0, Min({Zbufsize, rawlen - z.rawpos})})
       IN \/ /\ n > 0
             /\ z' = [z EXCEPT !.rawpos = @ + n, !.avail = n, !.at = z.rawpos]
             /\ UNCHANGED <<call, io, ra, res, fails, lost>>
          \/ /\ n = 0     \* unexpected EOF
             /\ IF io.got = <<>> THEN FoFail ELSE FoReturn(io.got)
             /\ UNCHANGED <<z, fails, lost>>
          \/ /\ FoFail
             /\ \E q \in Onward(z.rawpos, rawlen) : FailsAt(z.rawpos, q) /\ z' = [z EXCEPT !.rawpos = q]
    /\ UNCHANGED <<kind, fpos, sf, rawlen>>

\* inflate() and BZ2_bzDecompress(): units are eaten until there is no room
\* for their bytes, none is left or the end mark was met.
DataBefore(u) == Max({0, Min({u - 1, NData})})
Held(c) == z.pend + Ratio * (DataBefore(z.next + c) - DataBefore(z.next))
Eats(c) == Held(c) >= Room \/ c = z.avail \/ (c > 0 /\ z.next + c - 1 = NData + 1)

\* What a decoder gives that was fed other units than it expects.
Wrong(k) == [i \in 1 .. k |-> -1]

\* Nothing tells the decoder that it was fed such units (there is no check sum
\* with inflateInit2(-15)): it may find them bad or not, and see an end mark.
Inflate ==
    /\ ZReading /\ Room > 0 /\ ~z.endseen /\ z.avail > 0
    /\ LET c == Min({k \in 0 .. z.avail : Eats(k)})
           k == Min({Room, Held(c)})
           right == z.at = z.next
           end == c > 0 /\ z.next + c - 1 = NData + 1
       IN \/ /\ \E e \in {end} \cup (IF right THEN {} ELSE {TRUE}) :
                  z' = [z EXCEPT !.avail = @ - c, !.at = @ + c, !.next = @ + c, !.total = @ + k,
                                 !.pend = Held(c) - k, !.endseen = e]
             /\ io' = [io EXCEPT !.got = @ \o (IF right THEN Bytes(z.total, k) ELSE Wrong(k))]
             /\ UNCHANGED <<call, ra, res>>
          \/ ~right /\ FoFail /\ UNCHANGED z
    /\ UNCHANGED <<kind, fpos, sf, rawlen, fails, lost>>

-----------------------------------------------------------------------------
(* splitfs_read() *)

NSlices == Len(Bounds) - 1
SliceLen(i) == Bounds[i + 1] - Bounds[i]

\* Mutant: file_pos is not reset.
AtSliceEnd(s) == [s EXCEPT !.cur = @ + 1, !.spos = 0]

\* The next slice is open.
NextSlice(s) == [s EXCEPT !.cur = @ + 1, !.spos = 0, !.file = 0]

\* One round of the loop, with the change of slices it ends with.
SplitRead ==
    /\ io.for # "none" /\ kind = "split"
    /\ LET k == Max({0, Min({Room, SliceLen(sf.cur) - sf.spos})})
           got == io.got \o Bytes(Bounds[sf.cur] + sf.spos, k)
           s == [sf EXCEPT !.spos = @ + k, !.file = @ + k, !.tot = @ + k]
           short == Len(got) < io.size
           last == sf.cur = NSlices
       IN \/ /\ sf.curfd /\ (~short \/ last)
             /\ sf' = s /\ FoReturn(got) /\ UNCHANGED <<fails, lost>>
          \/ /\ sf.curfd /\ short /\ ~last
             /\ sf' = NextSlice(s) /\ io' = [io EXCEPT !.got = got]
             /\ UNCHANGED <<call, ra, res, fails, lost>>
          \/ /\ sf.curfd /\ short /\ ~last      \* split_openfile() gave up
             /\ sf' = [s EXCEPT !.cur = @ + 1, !.curfd = FALSE]
             /\ FoFail /\ OneMoreFailure /\ UNCHANGED lost
          \/ /\ sf.curfd /\ FoFail     \* neither file_pos nor tot_pos is told
             /\ \E q \in Onward(sf.spos, SliceLen(sf.cur)) : FailsAt(sf.spos, q) /\ sf' = [sf EXCEPT !.spos = q]
          \/ ~sf.curfd /\ FoFail /\ UNCHANGED <<sf, fails, lost>>     \* EBADF
    /\ UNCHANGED <<kind, fpos, z, rawlen>>

-----------------------------------------------------------------------------
(* lseek() *)

Wheres == {"SET", "CUR", "END"}
\* Where the caller wants to go.
Target(off, where) ==
    CASE where = "SET" -> off [] where = "CUR" -> Position + off [] OTHER -> Size - off

\* The target is in the part of the buffer that was not consumed.
InBuffer(off, where) ==
    ra.len # 0 /\ where # "END" /\ Position <= Target(off, where) /\ Target(off, where) < FsPos

\* zf_rewind() and bzf_rewind(); bzf_rewind() begins with the whole file.
Rewound == [FreshZ(kind, DataOffset(kind)) EXCEPT !.avail = 0]

\* lseek() has returned r, having been asked for t.
Answered(r, t) == [NoRes EXCEPT !.op = "lseek", !.ret = r, !.start = Here, !.target = t]

\* fo_seek() to t, or the beginning of it.
SeekTo(t, where) ==
    LET c == [NoCall EXCEPT !.op = "skip", !.start = Here, !.target = t]
    IN \/ /\ kind = "plain" /\ fpos' = t
          /\ res' = Answered(t, t) /\ UNCHANGED <<call, z, fails, lost>>
       \/ /\ Zipped /\ where = "END"
          /\ res' = Answered(-1, t) /\ UNCHANGED <<call, z, fpos, fails, lost>>
       \/ /\ Zipped /\ where # "END" /\ call' = c
          /\ IF t < z.total THEN z' = Rewound /\ lost' = FALSE ELSE UNCHANGED <<z, lost>>
          /\ res' = NoRes /\ UNCHANGED <<fpos, fails>>
       \/ /\ Zipped /\ where # "END" /\ t < z.total      \* lseek() of rawfd fails
          /\ \E q \in Onward(z.rawpos, rawlen) : FailsAt(z.rawpos, q) /\ z' = [z EXCEPT !.rawpos = q]
          /\ res' = Answered(-1, t) /\ UNCHANGED <<call, fpos>>
       \/ /\ kind = "split" /\ where # "END"
          /\ call' = [c EXCEPT !.op = IF t > sf.tot THEN "skip" ELSE "slice", !.resid = t - sf.tot]
          /\ res' = NoRes /\ UNCHANGED <<z, fpos, fails, lost>>
       \/ /\ kind = "split" /\ where = "END" /\ call' = [c EXCEPT !.op = "panic"]
          /\ res' = NoRes /\ UNCHANGED <<z, fpos, fails, lost>>

Lseek(off, where) ==
    /\ kind # "closed" /\ ~Busy /\ Target(off, where) \in 0 .. MaxSeek
    /\ IF InBuffer(off, where)
       THEN LET d == Target(off, where) - Position
            IN /\ ra' = [ra EXCEPT !.offset = @ + d, !.len = @ - d]
               /\ res' = Answered(Target(off, where), Target(off, where))
               /\ UNCHANGED <<call, fpos, z, fails, lost>>
       ELSE ra' = NoRa /\ SeekTo(Target(off, where), where)     \* f_ralen = 0
    /\ UNCHANGED <<kind, io, sf, rawlen>>

\* while (target > total_out), and the loop of splitfs_seek().
SkipLoop ==
    /\ call.op = "skip" /\ io.for = "none"
    /\ LET left == IF Zipped THEN call.target - z.total ELSE call.resid
       IN \/ /\ left > 0
             /\ io' = [for |-> "skip", got |-> <<>>,
                       size |-> Min({left, IF Zipped THEN Discard ELSE Seekbuf})]
             /\ UNCHANGED <<call, res>>
          \/ left <= 0 /\ Return(FsPos, <<>>) /\ UNCHANGED io
    /\ UNCHANGED <<kind, ra, fpos, z, sf, rawlen, fails, lost>>

\* The rest of splitfs_seek(): backward, or past the end of the last slice.
SeekSlice ==
    /\ call.op = "slice"
    /\ \/ /\ call.resid # 0 /\ sf.file + call.resid < 0
          /\ call' = [call EXCEPT !.op = "panic"] /\ UNCHANGED <<sf, res, fails, lost>>
       \/ /\ call.resid = 0 /\ Return(sf.tot, <<>>) /\ UNCHANGED <<sf, fails, lost>>
       \/ /\ call.resid # 0 /\ sf.file + call.resid >= 0 /\ sf.curfd
          /\ sf' = [sf EXCEPT !.spos = @ + call.resid, !.file = sf.spos + call.resid,
                              !.tot = @ + sf.spos + call.resid - sf.file]
          /\ Return(sf'.tot, <<>>) /\ UNCHANGED <<fails, lost>>
       \/ /\ call.resid # 0 /\ sf.file + call.resid >= 0 /\ sf.curfd     \* lseek() of curfd fails
          /\ \E q \in Onward(sf.spos, SliceLen(sf.cur)) : FailsAt(sf.spos, q) /\ sf' = [sf EXCEPT !.spos = q]
          /\ Return(-1, <<>>)
       \/ /\ call.resid # 0 /\ sf.file + call.resid >= 0 /\ ~sf.curfd
          /\ Return(-1, <<>>) /\ UNCHANGED <<sf, fails, lost>>
    /\ UNCHANGED <<kind, ra, io, fpos, z, rawlen>>

-----------------------------------------------------------------------------
Init ==
    /\ kind = "closed" /\ ra = NoRa /\ call = NoCall /\ io = NoIo /\ fpos = 0
    /\ z = NoZ /\ sf = NoSf /\ rawlen = NData + 2 /\ fails = 0 /\ lost = FALSE
    /\ res = NoRes

\* The library goes on with a call.
Step == \/ ReadLoop \/ PlainRead \/ ZDone \/ ZFill \/ Inflate
        \/ SplitRead \/ SkipLoop \/ SeekSlice

Next == \/ \E k \in Kinds : Open(k)
        \/ Close \/ Reboot
        \/ \E n \in 1 .. MaxRead : Read(n)
        \/ \E off \in - MaxSeek .. MaxSeek, where \in Wheres : Lseek(off, where)
        \/ Step

Spec == Init /\ [][Next]_vars /\ WF_vars(Step)

-----------------------------------------------------------------------------
(* Properties *)

\* Type invariant: the unconsumed bytes are the last ones of the read-ahead
\* buffer, and none of the positions is negative.
TypeOK ==
    /\ kind \in {"closed"} \cup Kinds /\ rawlen \in RawLengths \cup {NData + 2}
    /\ fails \in 0 .. MaxFails /\ lost \in BOOLEAN /\ fpos \in Nat
    /\ call.op \in {"none", "read", "skip", "slice", "panic"}
    /\ io.for \in {"none", "refill", "bypass", "skip"}
    /\ ra.len \in 0 .. Rasize /\ ra.offset \in 0 .. Rasize
    /\ ra.len # 0 => ra.offset + ra.len = Len(ra.buf)
    /\ z.avail \in 0 .. Zbufsize /\ z.total \in 0 .. Size /\ sf.tot \in Nat /\ sf.file \in Nat

\* A read of a file that is not damaged gives all the bytes there are, up to
\* the number asked for: load_elf() takes a short read for an error.
ReadFull ==
    res.op = "read" /\ res.ret # -1 /\ rawlen = NData + 2
        => res.ret = Max({0, Min({res.n, Size - res.start})})

\* A seek that succeeds ends where the caller wanted to be, through a rewind,
\* the pieces it skips and the slices it crosses.
SeekRight == res.op = "lseek" /\ res.ret # -1 => res.ret = res.target

\* What read() and lseek() answer is what was asked for, as long as no failure
\* below has moved the position there: until the file is opened again or, if
\* it is compressed, until a seek backward has begun it again.
AnswersRight == ~lost => ReadFull /\ SeekRight

\* The file is what FileSpec promises: between calls the position is that of
\* the file system less what the caller has not taken from the read-ahead
\* buffer, or lost after such a failure.
SurePos == IF kind = "closed" THEN -1 ELSE IF Busy THEN call.start ELSE Position
AbsPos == IF lost THEN -2 ELSE SurePos
AbsRes == [op |-> res.op, ret |-> res.ret, data |-> res.data]
Abstract == INSTANCE FileSpec WITH pos <- AbsPos, res <- AbsRes
Implements == Abstract!Spec

\* Every call returns, but the seek of a compressed file past its end, or past
\* the end that a decoder fed the wrong units has seen: zf_read() gives nothing
\* there, and zf_seek() asks it again and again.
Endless == call.op = "skip" /\ Zipped /\ (call.target > Size \/ lost)
CallsReturn == Busy /\ ~Endless ~> ~Busy \/ call.op = "panic"
=============================================================================
