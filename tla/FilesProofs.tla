---------------------------- MODULE FilesProofs ----------------------------
(***************************************************************************)
(* An open file of the loader keeps the promise of FileSpec, whatever kind *)
(* it is, however its calls are interrupted by failures and for all sizes  *)
(* of the buffers; and what read() and lseek() answer is what was asked    *)
(* for.                                                                    *)
(*                                                                         *)
(* The argument: FsPos, the position of the file system below, is ahead of *)
(* the caller by what is on its way to him (the bytes in io.got) or waits  *)
(* for him (the bytes in the read-ahead buffer), and these bytes are the   *)
(* ones that end at FsPos.  For that each kind of file keeps its own books *)
(* right: the decoder has given the bytes of the units it has eaten less   *)
(* the ones it holds, and the bytes read of all slices are those of the    *)
(* slices before the current one and those read of the current one.  A     *)
(* failure below that has moved the position there ends all that: LostOK   *)
(* is what is left until the file is opened again or a seek backward has   *)
(* begun a compressed one again, and FileSpec promises nothing till then.  *)
(***************************************************************************)
EXTENDS Files, SequenceTheorems, WellFoundedInduction, TLAPS

-----------------------------------------------------------------------------
(* The inductive invariant, while the position is not lost *)

Right == ReadFull /\ SeekRight

RaRec == [buf : Seq(Int), offset : Nat, len : Nat]
CallRec == [op : {"none", "read", "skip", "slice", "panic"}, start : Nat, n : Nat,
            resid : Int, dest : Seq(Int), target : Nat]
IoRec == [for : {"none", "refill", "bypass", "skip"}, size : Nat, got : Seq(Int)]
ZRec == [rawpos : Nat, avail : Nat, at : Nat, next : Nat, pend : Nat, total : Nat, endseen : BOOLEAN]
SfRec == [cur : 1 .. NSlices, curfd : BOOLEAN, spos : Nat, file : Nat, tot : Nat]

FTypeOK ==
    /\ kind \in {"closed"} \cup Kinds /\ rawlen \in 1 .. NData + 2 /\ fpos \in Nat
    /\ ra \in RaRec /\ call \in CallRec /\ io \in IoRec /\ z \in ZRec /\ sf \in SfRec

\* The decoder: the units it has eaten are those that were read from the file
\* and are not in the buffer, and it has given their bytes but for the ones it
\* holds.
ZOK ==
    Zipped =>
        /\ z.next = z.rawpos - z.avail /\ z.at = z.next /\ z.rawpos <= rawlen
        /\ z.total + z.pend = Ratio * DataBefore(z.next)
        /\ z.endseen => z.next = NData + 2 /\ z.pend = 0
        /\ ~z.endseen => z.next <= NData + 1

\* The slices: only the last one can be passed.
SfOK ==
    kind = "split" /\ sf.curfd =>
        /\ sf.file = sf.spos /\ sf.tot = Bounds[sf.cur] + sf.spos
        /\ sf.cur < NSlices => sf.spos <= SliceLen(sf.cur)

\* Which call waits for which fo_read(), of what.
StageOK ==
    /\ kind = "closed" => ~Busy
    /\ call.op = "skip" => Zipped \/ kind = "split"
    /\ call.op \in {"slice", "panic"} => kind = "split" /\ io.for = "none"
    /\ Busy /\ call.op # "read" => ra.len = 0
    /\ io.for # "none" => ra.len = 0 /\ io.size > 0 /\ Len(io.got) <= io.size
    /\ io.for \in {"refill", "bypass"} => call.op = "read"
    /\ io.for = "bypass" => io.size = call.resid
    /\ io.for = "skip" => call.op = "skip"
    /\ io.for = "none" => io = NoIo
    /\ kind = "plain" => io.got = <<>>

\* The bytes that wait for the caller end at FsPos.
RaOK ==
    ra.len > 0 =>
        /\ ra.offset + ra.len = Len(ra.buf) /\ ra.len <= FsPos /\ FsPos <= Size
        /\ \A i \in 1 .. ra.len : ra.buf[ra.offset + i] = Position + i - 1

\* The bytes that are on their way to him end there, too.
GotOK ==
    Len(io.got) > 0 =>
        /\ Len(io.got) <= FsPos /\ FsPos <= Size
        /\ io.got = Bytes(FsPos - Len(io.got), Len(io.got))

\* Those he has are the ones before them.
ReadOK ==
    call.op = "read" =>
        /\ Len(call.dest) = call.n - call.resid /\ call.resid > 0
        /\ call.dest = Bytes(call.start, Len(call.dest))
        /\ Len(call.dest) > 0 => call.start + Len(call.dest) <= Size
        /\ call.start + Len(call.dest) = FsPos - ra.len - Len(io.got)

\* A seek forward never reads past its target, and knows how far it is.
SkipOK ==
    /\ call.op = "skip" /\ Zipped =>
         /\ call.target >= z.total
         /\ io.for = "skip" => io.size - Len(io.got) <= call.target - z.total
    /\ call.op = "skip" /\ kind = "split" =>
         /\ call.resid - Len(io.got) = call.target - sf.tot /\ call.resid >= 0
         /\ io.for = "skip" => io.size <= call.resid
    /\ call.op = "slice" =>
         /\ call.resid = call.target - sf.tot
         /\ call.resid > 0 => sf.cur = NSlices \/ ~sf.curfd

FInv ==
    /\ FTypeOK /\ ZOK /\ SfOK /\ StageOK /\ RaOK /\ GotOK /\ ReadOK /\ SkipOK
    /\ Right

-----------------------------------------------------------------------------
(* Numbers *)

\* The smaller of two numbers.
LEMMA MinTwo ==
    ASSUME NEW a \in Int, NEW b \in Int
    PROVE  /\ Min({a, b}) \in Int /\ Min({a, b}) <= a /\ Min({a, b}) <= b
           /\ Min({a, b}) = a \/ Min({a, b}) = b
<1>1. \E x \in {a, b} : \A y \in {a, b} : x <= y
  <2>1. CASE a <= b
    BY <2>1
  <2>2. CASE b <= a
    BY <2>2
  <2> QED BY <2>1, <2>2
<1>2. Min({a, b}) \in {a, b} /\ \A y \in {a, b} : Min({a, b}) <= y
  BY <1>1 DEF Min
<1> QED BY <1>2

\* The larger of two numbers.
LEMMA MaxTwo ==
    ASSUME NEW a \in Int, NEW b \in Int
    PROVE  /\ Max({a, b}) \in Int /\ a <= Max({a, b}) /\ b <= Max({a, b})
           /\ Max({a, b}) = a \/ Max({a, b}) = b
<1>1. \E x \in {a, b} : \A y \in {a, b} : x >= y
  <2>1. CASE a <= b
    BY <2>1
  <2>2. CASE b <= a
    BY <2>2
  <2> QED BY <2>1, <2>2
<1>2. Max({a, b}) \in {a, b} /\ \A y \in {a, b} : Max({a, b}) >= y
  BY <1>1 DEF Max
<1> QED BY <1>2

\* A number of bytes that is wanted, there being so many: Max({0, Min({..})}).
LEMMA Clamp ==
    ASSUME NEW want \in Int, NEW there \in Int
    PROVE  LET k == Max({0, Min({want, there})})
           IN /\ k \in Nat
              /\ want >= 0 => k <= want
              /\ k > 0 => k <= there
              /\ k < want => there <= k
              /\ want >= 0 /\ there >= 0 => k = want \/ k = there
<1> DEFINE m == Min({want, there})
           k == Max({0, m})
<1>1. m \in Int /\ m <= want /\ m <= there /\ (m = want \/ m = there)
  BY MinTwo
<1> HIDE DEF m
<1>2. k \in Int /\ 0 <= k /\ m <= k /\ (k = 0 \/ k = m)
  <2>1. 0 \in Int
    OBVIOUS
  <2> QED BY <1>1, <2>1, MaxTwo, Zenon
<1> QED BY <1>1, <1>2 DEF m

\* The length of the file is a natural number.
LEMMA SizeNat == Size \in Nat
BY FilesAssumption DEF Size

-----------------------------------------------------------------------------
(* Bytes *)

\* The k bytes from p on, as a sequence.
LEMMA BytesSeq ==
    ASSUME NEW p \in Int, NEW k \in Nat
    PROVE  /\ Bytes(p, k) \in Seq(Int) /\ Len(Bytes(p, k)) = k
           /\ \A i \in 1 .. k : Bytes(p, k)[i] = p + i - 1
<1>1. Bytes(p, k) \in [1 .. k -> Int]
  BY DEF Bytes
<1>2. Bytes(p, k) \in Seq(Int) /\ Len(Bytes(p, k)) = k
  BY <1>1, IsASeq, LenProperties
<1> QED BY <1>2 DEF Bytes

\* A sequence whose elements are those bytes is those bytes.
LEMMA IsBytes ==
    ASSUME NEW p \in Int, NEW s \in Seq(Int), \A i \in 1 .. Len(s) : s[i] = p + i - 1
    PROVE  s = Bytes(p, Len(s))
<1>1. Len(s) \in Nat
  BY LenProperties
<1>2. /\ Bytes(p, Len(s)) \in Seq(Int) /\ Len(Bytes(p, Len(s))) = Len(s)
      /\ \A i \in 1 .. Len(s) : Bytes(p, Len(s))[i] = p + i - 1
  BY <1>1, BytesSeq
<1> QED BY <1>2, SeqEqual

\* No bytes are no bytes wherever they begin.
LEMMA EmptyBytes == \A p : Bytes(p, 0) = <<>>
BY DEF Bytes

\* Bytes that follow others.
LEMMA BytesConcat ==
    ASSUME NEW p \in Int, NEW a \in Nat, NEW b \in Nat
    PROVE  Bytes(p, a) \o Bytes(p + a, b) = Bytes(p, a + b)
<1> DEFINE s == Bytes(p, a)
           t == Bytes(p + a, b)
<1>1. /\ s \in Seq(Int) /\ Len(s) = a /\ \A i \in 1 .. a : s[i] = p + i - 1
      /\ t \in Seq(Int) /\ Len(t) = b /\ \A i \in 1 .. b : t[i] = p + a + i - 1
  BY BytesSeq
<1> HIDE DEF s, t
<1> DEFINE u == s \o t
<1>2. /\ u \in Seq(Int) /\ Len(u) = a + b
      /\ \A i \in 1 .. a + b : u[i] = IF i <= a THEN s[i] ELSE t[i - a]
  BY <1>1, ConcatProperties
<1> HIDE DEF u
<1>3. ASSUME NEW i \in 1 .. a + b PROVE u[i] = p + i - 1
  <2>1. CASE i <= a
    BY <1>1, <1>2, <2>1
  <2>2. CASE i > a
    <3>1. i - a \in 1 .. b /\ u[i] = t[i - a]
      BY <1>2, <2>2
    <3>2. t[i - a] = p + a + (i - a) - 1
      BY <1>1, <3>1
    <3> QED BY <3>1, <3>2
  <2> QED BY <2>1, <2>2
<1>4. u = Bytes(p, a + b)
  BY <1>2, <1>3, IsBytes
<1> QED BY <1>4 DEF s, t, u

-----------------------------------------------------------------------------
(* Steps in common *)

\* A step of FileSpec, or none.
Sure == INSTANCE FileSpec WITH pos <- SurePos, res <- AbsRes
AStep == Sure!Next \/ UNCHANGED <<SurePos, AbsRes>>

\* The parts of the records.
LEMMA Fields ==
    ASSUME FTypeOK
    PROVE  /\ ra.buf \in Seq(Int) /\ ra.offset \in Nat /\ ra.len \in Nat
           /\ call.op \in {"none", "read", "skip", "slice", "panic"}
           /\ call.start \in Nat /\ call.n \in Nat /\ call.resid \in Int
           /\ call.dest \in Seq(Int) /\ Len(call.dest) \in Nat /\ call.target \in Nat
           /\ io.for \in {"none", "refill", "bypass", "skip"} /\ io.size \in Nat
           /\ io.got \in Seq(Int) /\ Len(io.got) \in Nat
           /\ z.rawpos \in Nat /\ z.avail \in Nat /\ z.at \in Nat /\ z.next \in Nat /\ z.pend \in Nat
           /\ z.total \in Nat
           /\ sf.cur \in 1 .. NSlices /\ sf.spos \in Nat /\ sf.file \in Nat /\ sf.tot \in Nat
<1>1. ra.buf \in Seq(Int) /\ ra.offset \in Nat /\ ra.len \in Nat
  BY DEF FTypeOK, RaRec
<1>2. /\ call.op \in {"none", "read", "skip", "slice", "panic"}
      /\ call.start \in Nat /\ call.n \in Nat /\ call.resid \in Int
      /\ call.dest \in Seq(Int) /\ call.target \in Nat
  BY DEF FTypeOK, CallRec
<1>3. /\ io.for \in {"none", "refill", "bypass", "skip"} /\ io.size \in Nat
      /\ io.got \in Seq(Int)
  BY DEF FTypeOK, IoRec
<1>4. /\ z.rawpos \in Nat /\ z.avail \in Nat /\ z.at \in Nat /\ z.next \in Nat /\ z.pend \in Nat
      /\ z.total \in Nat
  BY DEF FTypeOK, ZRec
<1>5. sf.cur \in 1 .. NSlices /\ sf.spos \in Nat /\ sf.file \in Nat /\ sf.tot \in Nat
  BY DEF FTypeOK, SfRec
<1>6. Len(call.dest) \in Nat /\ Len(io.got) \in Nat
  BY <1>2, <1>3, LenProperties
<1> QED BY <1>1, <1>2, <1>3, <1>4, <1>5, <1>6

\* The position of the file system, for each kind of file.
LEMMA FsPosIs ==
    ASSUME FTypeOK
    PROVE  /\ FsPos \in Nat
           /\ kind = "plain" => FsPos = fpos
           /\ Zipped => FsPos = z.total
           /\ kind = "split" => FsPos = sf.tot
<1>1. fpos \in Nat /\ z.total \in Nat /\ sf.tot \in Nat
  BY Fields DEF FTypeOK
<1> QED BY <1>1 DEF FsPos, Zipped

\* The same after a step.
LEMMA FsPosNext ==
    ASSUME fpos' \in Nat, z' \in ZRec, sf' \in SfRec
    PROVE  /\ FsPos' \in Nat
           /\ kind' = "plain" => FsPos' = fpos'
           /\ Zipped' => FsPos' = z'.total /\ z'.total \in Nat
           /\ kind' = "split" => FsPos' = sf'.tot /\ sf'.tot \in Nat
<1>1. z'.total \in Nat /\ sf'.tot \in Nat
  BY DEF ZRec, SfRec
<1> QED BY <1>1 DEF FsPos, Zipped

\* Where the position of the file system is before the bytes on their way.
Base == FsPos - Len(io.got)

\* The bytes on their way are the ones that end at the position of the file system.
LEMMA GotFacts ==
    ASSUME FInv
    PROVE  FsPos \in Nat /\ Base \in Nat /\ io.got = Bytes(Base, Len(io.got))
<1>1. io.got \in Seq(Int) /\ Len(io.got) \in Nat
  BY Fields DEF FInv
<1>2. FsPos \in Nat
  BY FsPosIs DEF FInv
<1>3. CASE Len(io.got) > 0
  BY <1>1, <1>2, <1>3 DEF FInv, GotOK, Base
<1>4. CASE Len(io.got) = 0
  <2>1. io.got = <<>>
    BY <1>1, <1>4, EmptySeq
  <2> QED BY <1>1, <1>2, <1>4, <2>1, EmptyBytes DEF Base
<1> QED BY <1>1, <1>3, <1>4

\* NoCall, NoIo and NoRa are a call, a fo_read() and a buffer.
LEMMA NoneType ==
    /\ NoCall \in CallRec /\ NoIo \in IoRec /\ NoRa \in RaRec
    /\ NoCall.op = "none" /\ NoIo.for = "none" /\ NoIo.got = <<>> /\ Len(NoIo.got) = 0
    /\ NoRa.len = 0
<1>1. <<>> \in Seq(Int) /\ Len(<<>>) = 0
  BY EmptySeq
<1> QED BY <1>1 DEF NoCall, NoIo, NoRa, CallRec, IoRec, RaRec

\* No call is left.
LEMMA CallOver ==
    ASSUME FTypeOK', ZOK', SfOK', RaOK', Right', call' = NoCall, io' = NoIo
    PROVE  FInv'
<1>1. /\ ~Busy' /\ call'.op = "none" /\ io'.for = "none" /\ io'.got = <<>>
      /\ Len(io'.got) = 0
  BY NoneType DEF Busy
<1>2. StageOK' /\ ReadOK' /\ SkipOK'
  BY <1>1 DEF StageOK, ReadOK, SkipOK
<1>3. GotOK'
  BY <1>1 DEF GotOK
<1> QED BY <1>2, <1>3 DEF FInv

\* The file system below keeps its books.
Kept ==
    /\ UNCHANGED <<kind, rawlen>>
    /\ fpos' \in Nat /\ z' \in ZRec /\ sf' \in SfRec
    /\ ZOK' /\ SfOK'

\* A call returns with nothing in the buffer.
LEMMA ReturnType ==
    ASSUME FInv, Kept, io' = NoIo, call' = NoCall, ra' \in RaRec, ra'.len = 0
    PROVE  /\ FTypeOK' /\ RaOK' /\ ~Busy' /\ FsPos' \in Nat
           /\ kind' # "closed" => SurePos' = FsPos'
<1>1. FTypeOK'
  BY NoneType DEF FInv, FTypeOK, Kept
<1>2. RaOK'
  BY DEF RaOK
<1>3. ~Busy'
  BY NoneType DEF Busy
<1>4. FsPos' \in Nat
  BY FsPosNext DEF Kept
<1>5. kind' # "closed" => SurePos' = FsPos' - ra'.len
  BY <1>3 DEF SurePos, Position
<1>6. \A a \in Nat : a - 0 = a
  OBVIOUS
<1> QED BY <1>1, <1>2, <1>3, <1>4, <1>5, <1>6

\* Who waits for fo_read().
LEMMA InRead ==
    ASSUME FInv, io.for # "none"
    PROVE  kind # "closed" /\ Busy /\ ra.len = 0 /\ io.size > 0 /\ SurePos = call.start
<1>1. io.for \in {"refill", "bypass", "skip"}
  BY Fields DEF FInv
<1>2. Busy
  BY <1>1 DEF FInv, StageOK, Busy
<1> QED BY <1>2 DEF FInv, StageOK, SurePos

\* fo_read() fails: the call returns -1, at some position.
LEMMA FailStep ==
    ASSUME FInv, io.for # "none", FoFail, Kept
    PROVE  FInv' /\ AStep
<1>1. /\ io' = NoIo /\ call' = NoCall /\ UNCHANGED ra /\ res'.ret = -1 /\ res'.data = <<>>
      /\ res'.op \in {"read", "lseek"}
  BY DEF FoFail, Return
<1>2. ra' \in RaRec /\ ra'.len = 0 /\ kind' # "closed" /\ SurePos = call.start
      /\ call.start \in Nat
  BY <1>1, InRead, Fields DEF FInv, FTypeOK, Kept
<1>3. FTypeOK' /\ RaOK' /\ SurePos' \in Nat
  BY <1>1, <1>2, ReturnType
<1>4. Right'
  BY <1>1 DEF Right, ReadFull, SeekRight
<1>5. FInv'
  BY <1>1, <1>3, <1>4, CallOver DEF Kept
<1>6. Sure!Fail
  <2>1. SurePos \in Nat
    BY <1>2
  <2> QED BY <1>1, <1>3, <2>1 DEF Sure!Fail, AbsRes
<1> QED BY <1>5, <1>6 DEF AStep, Sure!Next

\* fo_read() has read got, the bytes from Base on: as many as were asked for,
\* or there are no more.  A file that is cut short may give fewer, but not none.
Delivered(got, after) ==
    /\ got \in Seq(Int) /\ got = Bytes(Base, Len(got)) /\ Len(got) <= io.size
    /\ after = Base + Len(got)
    /\ Len(got) > 0 => after <= Size
    /\ Len(got) < io.size /\ (rawlen = NData + 2 \/ Len(got) = 0) => after >= Size

\* read() returns the bytes d, which end at position p.
Answer(d, p) ==
    /\ d \in Seq(Int) /\ d = Bytes(call.start, Len(d)) /\ Len(d) <= call.n
    /\ p = call.start + Len(d)
    /\ Len(d) > 0 => p <= Size
    /\ Len(d) < call.n /\ (rawlen = NData + 2 \/ Len(d) = 0) => p >= Size

\* An answer from a file that is whole is as long as ReadFull says.
LEMMA AnswerFull ==
    ASSUME FTypeOK, NEW d, NEW p \in Nat, Answer(d, p), rawlen = NData + 2
    PROVE  Len(d) = Max({0, Min({call.n, Size - call.start})})
<1>1. /\ Len(d) \in Nat /\ call.start \in Nat /\ call.n \in Nat /\ Size \in Nat
  BY LenProperties, Fields, SizeNat DEF Answer
<1>2. /\ Len(d) <= call.n /\ p = call.start + Len(d)
      /\ Len(d) > 0 => p <= Size
      /\ Len(d) < call.n => p >= Size
  BY DEF Answer
<1> DEFINE l == Len(d)
           s == call.start
           n == call.n
           k == Max({0, Min({n, Size - s})})
<1>3. /\ k \in Nat /\ k <= n /\ (k > 0 => k <= Size - s)
      /\ (k < n => Size - s <= k)
  <2>1. Size - s \in Int /\ n \in Int /\ n >= 0
    BY <1>1
  <2> HIDE DEF s, n
  <2> QED BY <2>1, Clamp
<1>4. l \in Nat /\ s \in Nat /\ n \in Nat /\ l <= n /\ p = s + l
      /\ (l > 0 => p <= Size) /\ (l < n => p >= Size)
  BY <1>1, <1>2
<1> HIDE DEF l, s, n, k
<1>5. l = k
  BY <1>1, <1>3, <1>4
<1> QED BY <1>5 DEF l, s, n, k

\* An answer of read() is one that FileSpec allows.
LEMMA AnswerAt ==
    ASSUME FInv, kind # "closed", call.op = "read", NEW d, Answer(d, Position'), Kept,
           Return(Len(d), d), io' = NoIo, ra' \in RaRec, RaOK'
    PROVE  FInv' /\ AStep
<1>1. /\ call' = NoCall /\ res'.op = "read" /\ res'.ret = Len(d) /\ res'.data = d
      /\ res'.start = call.start /\ res'.n = call.n
  BY DEF Return
<1>2. FTypeOK' /\ RaOK' /\ Position' \in Nat /\ SurePos' = Position' /\ UNCHANGED rawlen
  <2>1. FTypeOK' /\ UNCHANGED rawlen
    BY <1>1, NoneType DEF FInv, FTypeOK, Kept
  <2>2. SurePos' = Position'
    BY <1>1, NoneType DEF SurePos, Busy, Kept
  <2>3. Len(d) \in Nat /\ call.start \in Nat /\ Position' = call.start + Len(d)
    BY Fields, LenProperties DEF FInv, Answer
  <2> DEFINE p == Position'
             l == Len(d)
  <2>4. p = call.start + l /\ call.start \in Nat /\ l \in Nat
    BY <2>3
  <2> HIDE DEF p, l
  <2>5. p \in Nat
    BY <2>4
  <2> QED BY <2>1, <2>2, <2>5 DEF p
<1>3. Right'
  <2>1. FTypeOK
    BY DEF FInv
  <2> QED BY <1>1, <1>2, <2>1, AnswerFull DEF Right, ReadFull, SeekRight
<1>4. FInv'
  BY <1>1, <1>2, <1>3, CallOver DEF Kept
<1>5. Sure!Read
  <2>1. /\ Len(d) \in Nat /\ call.start \in Nat /\ call.n \in Nat /\ call.n > 0
        /\ Size \in Nat
    <3>1. /\ Len(d) \in Nat /\ call.start \in Nat /\ call.n \in Nat /\ Size \in Nat
          /\ Len(call.dest) \in Nat /\ call.resid \in Int
      BY LenProperties, Fields, SizeNat DEF Answer, FInv
    <3>2. Len(call.dest) = call.n - call.resid /\ call.resid > 0
      BY DEF FInv, ReadOK
    <3> QED BY <3>1, <3>2
  <2>2. SurePos = call.start
    BY DEF SurePos, Busy
  <2> DEFINE p == Position'
             l == Len(d)
  <2>3. /\ p = call.start + l /\ (l > 0 => p <= Size) /\ (l < call.n /\ l = 0 => p >= Size)
        /\ d = Bytes(call.start, l) /\ SurePos' = p
    BY <1>2 DEF Answer
  <2>4. AbsRes' = [op |-> "read", ret |-> l, data |-> Bytes(call.start, l)]
    BY <1>1, <2>3 DEF AbsRes
  <2>5. l \in Nat
    BY <2>1
  <2> HIDE DEF p, l
  <2>6. l \in 0 .. Size /\ (IF l = 0 THEN call.start >= Size ELSE call.start + l <= Size)
    BY <2>1, <2>3, <2>5
  <2> QED BY <2>1, <2>2, <2>3, <2>4, <2>6 DEF Sure!Read, Sure!Bytes, Bytes
<1> QED BY <1>4, <1>5 DEF AStep, Sure!Next

\* The same when nothing is left in the buffer.
LEMMA AnswerStep ==
    ASSUME FInv, kind # "closed", call.op = "read", NEW d, Answer(d, FsPos'), Kept,
           Return(Len(d), d), io' = NoIo, ra' \in RaRec, ra'.len = 0
    PROVE  FInv' /\ AStep
<1>1. RaOK'
  BY DEF RaOK
<1> DEFINE p == FsPos'
<1>2. p \in Nat
  BY FsPosNext DEF Kept
<1> HIDE DEF p
<1>3. p - 0 = p
  BY <1>2
<1>4. Position' = FsPos'
  BY <1>3 DEF Position, p
<1>5. Answer(d, Position')
  BY <1>4
<1> QED BY <1>1, <1>5, AnswerAt

\* What is known when fo_read() returns.
LEMMA ReadFacts ==
    ASSUME FInv, call.op = "read"
    PROVE  /\ call.dest \in Seq(Int) /\ Len(call.dest) \in Nat /\ call.resid \in Nat
           /\ call.start \in Nat /\ call.n \in Nat /\ call.resid > 0
           /\ call.n = Len(call.dest) + call.resid
           /\ call.dest = Bytes(call.start, Len(call.dest))
           /\ Len(call.dest) > 0 => call.start + Len(call.dest) <= Size
           /\ ra.len = 0 => call.start + Len(call.dest) = Base
<1>1. /\ call.dest \in Seq(Int) /\ Len(call.dest) \in Nat /\ call.resid \in Int
      /\ call.start \in Nat /\ call.n \in Nat /\ Len(io.got) \in Nat /\ FsPos \in Nat
      /\ ra.len \in Nat
  BY Fields, FsPosIs DEF FInv
<1>2. /\ Len(call.dest) = call.n - call.resid /\ call.resid > 0
      /\ call.dest = Bytes(call.start, Len(call.dest))
      /\ Len(call.dest) > 0 => call.start + Len(call.dest) <= Size
      /\ call.start + Len(call.dest) = FsPos - ra.len - Len(io.got)
  BY DEF FInv, ReadOK
<1>3. ra.len = 0 => call.start + Len(call.dest) = Base
  BY <1>1, <1>2 DEF Base
<1>4. call.resid \in Nat /\ call.n = Len(call.dest) + call.resid
  BY <1>1, <1>2
<1> QED BY <1>1, <1>2, <1>3, <1>4

\* The buffer could not be refilled: read() returns what it has.
LEMMA RefillEmpty ==
    ASSUME FInv, io.for = "refill", NEW got, FoReturn(got), Len(got) = 0, Kept,
           Delivered(got, FsPos')
    PROVE  FInv' /\ AStep
<1>1. got = <<>> /\ got \in Seq(Int)
  BY EmptySeq DEF Delivered
<1>2. /\ Return(Len(call.dest), call.dest) /\ ra' = [buf |-> got, offset |-> 0, len |-> Len(got)]
      /\ io' = NoIo
  BY <1>1 DEF FoReturn, NoMoreData
<1>3. ra' \in RaRec /\ ra'.len = 0
  BY <1>1, <1>2 DEF RaRec
<1>4. kind # "closed" /\ ra.len = 0 /\ io.size > 0 /\ call.op = "read"
  BY InRead DEF FInv, StageOK
<1>5. Answer(call.dest, FsPos')
  <2> DEFINE p == FsPos'
  <2>1. p = Base + 0 /\ p >= Size
    BY <1>4 DEF Delivered
  <2>2. Base \in Nat
    BY GotFacts
  <2> HIDE DEF p
  <2>3. p = Base
    BY <2>1, <2>2
  <2>4. Answer(call.dest, p)
    BY <1>4, <2>1, <2>3, ReadFacts DEF Answer
  <2> QED BY <2>4 DEF p
<1> QED BY <1>2, <1>3, <1>4, <1>5, AnswerStep

\* A large read has gone past the buffer: read() returns.
LEMMA Bypassed ==
    ASSUME FInv, io.for = "bypass", NEW got, FoReturn(got), Kept, Delivered(got, FsPos')
    PROVE  FInv' /\ AStep
<1> DEFINE d == call.dest \o got
<1>1. /\ Return(Len(call.dest) + Len(got), d) /\ UNCHANGED ra /\ io' = NoIo
  BY DEF FoReturn
<1>2. /\ kind # "closed" /\ ra.len = 0 /\ call.op = "read" /\ io.size = call.resid
      /\ ra' \in RaRec /\ ra'.len = 0
  BY <1>1, InRead DEF FInv, StageOK, FTypeOK
<1>3. /\ call.dest \in Seq(Int) /\ Len(call.dest) \in Nat /\ call.resid \in Nat
      /\ call.start \in Nat /\ call.n = Len(call.dest) + call.resid
      /\ call.dest = Bytes(call.start, Len(call.dest))
      /\ Len(call.dest) > 0 => call.start + Len(call.dest) <= Size
      /\ call.start + Len(call.dest) = Base
  BY <1>2, ReadFacts
<1>4. got \in Seq(Int) /\ Len(got) \in Nat /\ got = Bytes(Base, Len(got))
  BY LenProperties DEF Delivered
<1>5. d \in Seq(Int) /\ Len(d) = Len(call.dest) + Len(got)
  BY <1>3, <1>4, ConcatProperties
<1>6. d = Bytes(call.start, Len(d))
  <2>1. call.start \in Int
    BY <1>3
  <2>2. Bytes(call.start, Len(call.dest)) \o Bytes(call.start + Len(call.dest), Len(got))
          = Bytes(call.start, Len(call.dest) + Len(got))
    BY <1>3, <1>4, <2>1, BytesConcat
  <2> QED BY <1>3, <1>4, <1>5, <2>2
<1> HIDE DEF d
<1>7. Answer(d, FsPos')
  <2> DEFINE p == FsPos'
             a == Len(call.dest)
             g == Len(got)
             l == Len(d)
  <2>1. /\ p = Base + g /\ (g > 0 => p <= Size) /\ g <= call.resid
        /\ (g < call.resid /\ (rawlen = NData + 2 \/ g = 0) => p >= Size)
    BY <1>2 DEF Delivered
  <2>2. l = a + g /\ a \in Nat /\ g \in Nat /\ call.n = a + call.resid
        /\ call.start + a = Base /\ (a > 0 => call.start + a <= Size)
    BY <1>3, <1>4, <1>5
  <2>3. Base \in Nat /\ Size \in Nat
    BY GotFacts, SizeNat
  <2> HIDE DEF p, a, g, l
  <2>4. l <= call.n /\ p = call.start + l
    <3>1. \A st, aa, gg, rd \in Int :
            gg <= rd => aa + gg <= aa + rd /\ st + aa + gg = st + (aa + gg)
      OBVIOUS
    <3>2. call.start \in Int /\ a \in Int /\ g \in Int /\ call.resid \in Int
      BY <1>3, <2>2
    <3>3. g <= call.resid => a + g <= a + call.resid /\ call.start + a + g = call.start + (a + g)
      BY <3>1, <3>2
    <3>4. l = a + g /\ p = call.start + a + g
      BY <2>1, <2>2, Zenon
    <3>5. a + g <= a + call.resid
      BY <2>1, <3>3, Zenon
    <3>6. l <= call.n
      BY <2>2, <3>5, Zenon
    <3>7. p = call.start + l
      BY <2>1, <3>3, <3>4, Zenon
    <3> QED BY <3>6, <3>7
  <2>5. l > 0 => p <= Size
    <3>1. CASE g > 0
      BY <2>1, <3>1
    <3>2. CASE g = 0
      <4>1. p = call.start + a /\ l = a
        BY <1>3, <2>2, <2>3, <2>4, <3>2
      <4> QED BY <2>2, <4>1
    <3> QED BY <2>2, <3>1, <3>2
  <2>6. l < call.n /\ (rawlen = NData + 2 \/ l = 0) => p >= Size
    <3>1. l < call.n => g < call.resid
      BY <1>3, <2>2
    <3>2. l = 0 => g = 0
      BY <2>2
    <3> QED BY <2>1, <3>1, <3>2
  <2>7. Answer(d, p)
    BY <1>5, <1>6, <2>4, <2>5, <2>6 DEF Answer, l
  <2> QED BY <2>7 DEF p
<1>8. Return(Len(d), d)
  BY <1>1, <1>5
<1> QED BY <1>1, <1>2, <1>7, <1>8, AnswerStep

\* The buffer is full again: read() goes on.
LEMMA Refilled ==
    ASSUME FInv, io.for = "refill", NEW got, FoReturn(got), Len(got) > 0, Kept,
           Delivered(got, FsPos')
    PROVE  FInv' /\ AStep
<1>1. got \in Seq(Int) /\ Len(got) \in Nat /\ got # <<>>
  BY EmptySeq, LenProperties DEF Delivered
<1>2. ra' = [buf |-> got, offset |-> 0, len |-> Len(got)] /\ UNCHANGED <<call, res>> /\ io' = NoIo
  BY <1>1 DEF FoReturn, NoMoreData
<1>3. ra'.buf = got /\ ra'.offset = 0 /\ ra'.len = Len(got) /\ ra' \in RaRec
  BY <1>1, <1>2 DEF RaRec
<1>4. FTypeOK'
  BY <1>2, <1>3, NoneType DEF FInv, FTypeOK, Kept
<1>5. kind # "closed" /\ Busy /\ ra.len = 0 /\ call.op = "read" /\ kind' = kind
  BY InRead DEF FInv, StageOK, Kept
<1>6. io'.for = "none" /\ io'.got = <<>> /\ Len(io'.got) = 0
  BY <1>2, NoneType
<1> DEFINE p == FsPos'
<1>7. /\ p = Base + Len(got) /\ p <= Size /\ Base \in Nat
  BY GotFacts DEF Delivered
<1> HIDE DEF p
<1>8. p - Len(got) = Base /\ Len(got) <= p
  BY <1>1, <1>7
<1>9. RaOK'
  <2>1. \A i \in 1 .. Len(got) : got[i] = Base + i - 1
    <3>1. Base \in Int /\ got = Bytes(Base, Len(got))
      BY <1>7 DEF Delivered
    <3>2. \A i \in 1 .. Len(got) : Bytes(Base, Len(got))[i] = Base + i - 1
      BY <1>1, <3>1, BytesSeq
    <3> QED BY <3>1, <3>2
  <2>2. Position' = Base
    BY <1>3, <1>8 DEF Position, p
  <2>3. \A i \in 1 .. Len(got) : 0 + i = i
    OBVIOUS
  <2>4. 0 + Len(got) = Len(got)
    BY <1>1
  <2> QED BY <1>3, <1>7, <1>8, <2>1, <2>2, <2>3, <2>4, Zenon DEF RaOK, p
<1>10. StageOK'
  BY <1>2, <1>5, <1>6 DEF StageOK, Busy
<1>11. ReadOK'
  <2>1. /\ call.start + Len(call.dest) = Base
        /\ Len(call.dest) = call.n - call.resid /\ call.resid > 0
        /\ call.dest = Bytes(call.start, Len(call.dest))
        /\ Len(call.dest) > 0 => call.start + Len(call.dest) <= Size
    BY <1>5, ReadFacts DEF FInv, ReadOK
  <2>2. p - Len(got) - 0 = Base
    BY <1>7, <1>8
  <2> QED BY <1>2, <1>3, <1>6, <2>1, <2>2 DEF ReadOK, p
<1>12. GotOK' /\ SkipOK'
  BY <1>2, <1>5, <1>6 DEF GotOK, SkipOK
<1>13. Right'
  BY <1>2 DEF FInv, Right, ReadFull, SeekRight, Kept
<1>14. UNCHANGED <<SurePos, AbsRes>>
  BY <1>2, <1>5 DEF SurePos, AbsRes, Busy
<1> QED BY <1>4, <1>9, <1>10, <1>11, <1>12, <1>13, <1>14 DEF FInv, AStep, Kept

\* A piece has been skipped: the seek goes on.
LEMMA SkippedStep ==
    ASSUME FInv, io.for = "skip", NEW got, FoReturn(got), Kept, Delivered(got, FsPos'),
           kind = "split" /\ Len(got) = 0 => sf'.cur = NSlices
    PROVE  FInv' /\ AStep
<1>0. /\ got \in Seq(Int) /\ Len(got) \in Nat /\ Base \in Nat /\ FsPos \in Nat
      /\ Len(io.got) \in Nat /\ call.resid \in Int /\ call.target \in Nat
      /\ io.size \in Nat /\ FTypeOK
  BY LenProperties, GotFacts, Fields DEF Delivered, FInv
<1>1. Skipped(Len(got)) /\ UNCHANGED ra /\ io' = NoIo
  BY DEF FoReturn
<1>2. /\ kind # "closed" /\ Busy /\ ra.len = 0 /\ call.op = "skip" /\ kind' = kind
      /\ (Zipped \/ kind = "split")
  BY InRead DEF FInv, StageOK, Kept
<1> DEFINE op == IF kind = "split" /\ Len(got) = 0 THEN "slice" ELSE "skip"
           rs == IF kind = "split" THEN call.resid - Len(got) ELSE call.resid
<1>3. UNCHANGED res /\ call' = [call EXCEPT !.resid = rs, !.op = op]
  BY <1>1, <1>2 DEF Skipped
<1>4. /\ call'.start = call.start /\ call'.target = call.target
      /\ call'.op = op /\ call'.resid = rs /\ call' \in CallRec
  <2>1. rs \in Int /\ op \in {"skip", "slice"}
    BY <1>0
  <2> HIDE DEF rs, op
  <2> QED BY <1>0, <1>3, <2>1 DEF FTypeOK, CallRec
<1>5. io'.for = "none" /\ io'.got = <<>> /\ Len(io'.got) = 0 /\ io' \in IoRec
  BY <1>1, NoneType
<1>6. FTypeOK'
  BY <1>1, <1>4, <1>5 DEF FInv, FTypeOK, Kept
<1>7. StageOK'
  BY <1>1, <1>2, <1>4, <1>5 DEF StageOK, Zipped, Busy
<1>8. SkipOK'
  <2> DEFINE p == FsPos'
  <2>1. p = Base + Len(got) /\ Len(got) <= io.size
    BY DEF Delivered
  <2>2. CASE Zipped
    <3>1. p = z'.total /\ z.total = FsPos /\ call'.op = "skip" /\ kind' # "split"
      BY <1>0, <1>2, <1>4, <2>2, FsPosIs, FsPosNext DEF Zipped, Kept
    <3>2. io.size - Len(io.got) <= call.target - z.total
      BY <1>2, <2>2 DEF FInv, SkipOK
    <3> HIDE DEF p
    <3>3. call.target >= p
      <4>1. \A ss, f, lg, io1, t \in Int : ss - io1 <= t - f /\ lg <= ss => t >= (f - io1) + lg
        OBVIOUS
      <4>2. /\ io.size \in Int /\ FsPos \in Int /\ Len(got) \in Int /\ Len(io.got) \in Int
            /\ call.target \in Int
        BY <1>0
      <4>3. io.size - Len(io.got) <= call.target - FsPos /\ Len(got) <= io.size
              => call.target >= (FsPos - Len(io.got)) + Len(got)
        BY <4>1, <4>2
      <4>4. io.size - Len(io.got) <= call.target - FsPos
        BY <3>1, <3>2, Zenon
      <4>5. call.target >= Base + Len(got)
        BY <2>1, <4>3, <4>4, Zenon DEF Base
      <4> QED BY <2>1, <4>5, Zenon
    <3> QED BY <1>4, <1>5, <3>1, <3>3 DEF SkipOK
  <2>3. CASE kind = "split"
    <3>1. p = sf'.tot /\ sf.tot = FsPos /\ ~Zipped'
      BY <1>0, <1>2, <2>3, FsPosIs, FsPosNext DEF Zipped, Kept
    <3>2. /\ call.resid - Len(io.got) = call.target - sf.tot
          /\ io.size <= call.resid /\ rs = call.resid - Len(got)
      BY <1>2, <2>3 DEF FInv, SkipOK
    <3>3. p \in Nat
      BY <1>0, <2>1
    <3> HIDE DEF p, rs
    <3>4. rs = call.target - p /\ rs >= 0 /\ rs - 0 = rs
      <4>2. /\ io.size \in Int /\ FsPos \in Int /\ Len(got) \in Int /\ Len(io.got) \in Int
            /\ call.target \in Int /\ call.resid \in Int
        BY <1>0
      <4>3. call.resid - Len(io.got) = call.target - FsPos
        BY <3>1, <3>2, Zenon
      <4>4. Len(got) <= io.size /\ io.size <= call.resid
        BY <2>1, <3>2
      <4>5. /\ call.resid - Len(got) = call.target - (Base + Len(got))
            /\ call.resid - Len(got) >= 0
            /\ (call.resid - Len(got)) - 0 = call.resid - Len(got)
        <5> DEFINE r == call.resid
                   f == FsPos
                   g == Len(got)
                   h == Len(io.got)
                   t == call.target
                   n == io.size
        <5>1. r \in Int /\ f \in Int /\ g \in Int /\ h \in Int /\ t \in Int /\ n \in Int
          BY <4>2
        <5>2. r - h = t - f /\ g <= n /\ n <= r
          BY <4>3, <4>4
        <5> HIDE DEF r, f, g, h, t, n
        <5>3. r - g = t - ((f - h) + g) /\ r - g >= 0 /\ (r - g) - 0 = r - g
          BY <5>1, <5>2
        <5> QED BY <5>3 DEF r, f, g, h, t, n, Base
      <4> QED BY <2>1, <3>2, <4>5, Zenon
    <3>5. CASE op = "skip"
      BY <1>4, <1>5, <3>1, <3>4, <3>5 DEF SkipOK
    <3>6. CASE op = "slice"
      BY <1>4, <1>5, <2>3, <3>1, <3>4, <3>6 DEF SkipOK
    <3> QED BY <3>5, <3>6
  <2> QED BY <1>2, <2>2, <2>3
<1>9. RaOK' /\ GotOK' /\ ReadOK'
  BY <1>1, <1>2, <1>4, <1>5 DEF RaOK, GotOK, ReadOK
<1>10. Right'
  BY <1>3 DEF FInv, Right, ReadFull, SeekRight, Kept
<1>11. UNCHANGED <<SurePos, AbsRes>>
  BY <1>2, <1>3, <1>4 DEF SurePos, AbsRes, Busy
<1> QED BY <1>6, <1>7, <1>8, <1>9, <1>10, <1>11 DEF FInv, AStep, Kept

\* fo_read() returns the bytes got, whoever waits for them.
LEMMA ReturnStep ==
    ASSUME FInv, io.for # "none", NEW got, FoReturn(got), Kept, Delivered(got, FsPos'),
           kind = "split" /\ Len(got) = 0 => sf'.cur = NSlices
    PROVE  FInv' /\ AStep
<1>1. io.for \in {"refill", "bypass", "skip"} /\ Len(got) \in Nat
  BY Fields, LenProperties DEF FInv, Delivered
<1> QED BY <1>1, RefillEmpty, Refilled, Bypassed, SkippedStep

\* fo_read() goes on: it has got more bytes.
More ==
    /\ io' \in IoRec /\ io'.for = io.for /\ io'.size = io.size
    /\ io'.got = Bytes(Base, Len(io'.got)) /\ Len(io'.got) <= io.size
    /\ FsPos' = Base + Len(io'.got)
    /\ Len(io'.got) > 0 => FsPos' <= Size

\* A round of fo_read() that gives more bytes keeps the invariant and is no step of FileSpec.
LEMMA MoreStep ==
    ASSUME FInv, io.for # "none", kind # "plain", Kept, More, UNCHANGED <<call, ra, res>>
    PROVE  FInv' /\ AStep
<1> DEFINE f == FsPos
           g == Len(io.got)
           p == FsPos'
           l == Len(io'.got)
           n == io.size
           t == call.target
           r == call.resid
<1>1. /\ f \in Nat /\ g \in Nat /\ n \in Nat /\ t \in Nat /\ r \in Int /\ Base \in Nat
      /\ FTypeOK /\ Base = f - g
  BY Fields, GotFacts DEF FInv, Base
<1>2. l \in Nat /\ l <= n /\ p = Base + l /\ io'.got = Bytes(Base, l)
      /\ (l > 0 => p <= Size)
  <2>1. io'.got \in Seq(Int)
    BY DEF More, IoRec
  <2> QED BY <2>1, LenProperties DEF More
<1>3. kind # "closed" /\ Busy /\ ra.len = 0 /\ n > 0 /\ kind' = kind
  BY InRead DEF Kept
<1>4. FTypeOK'
  BY DEF FInv, FTypeOK, Kept, More
<1>5. StageOK'
  <2>1. io'.size = n /\ io'.for = io.for
    BY DEF More
  <2> HIDE DEF l, n
  <2> QED BY <1>2, <1>3, <2>1 DEF FInv, StageOK, Busy, Zipped, l, n
<1>6. RaOK'
  BY <1>3 DEF RaOK
<1>7. p - l = Base /\ l <= p
  <2> HIDE DEF f, g, p, l
  <2> QED BY <1>1, <1>2
<1>8. GotOK'
  BY <1>2, <1>7 DEF GotOK
<1>9. ReadOK'
  <2>1. CASE call.op = "read"
    <3>1. call.start + Len(call.dest) = Base
      BY <1>3, <2>1, ReadFacts
    <3>2. p - 0 - l = Base
      <4> HIDE DEF f, g, p, l
      <4> QED BY <1>1, <1>2, <1>7
    <3> QED BY <1>3, <2>1, <3>1, <3>2 DEF FInv, ReadOK
  <2>2. CASE call.op # "read"
    BY <2>2 DEF ReadOK
  <2> QED BY <2>1, <2>2
<1>10. SkipOK'
  <2>1. CASE call.op = "skip" /\ Zipped
    <3>1. p = z'.total /\ z.total = f /\ kind # "split"
      BY <1>1, <1>3, <2>1, FsPosIs, FsPosNext DEF Zipped, Kept
    <3>2. io.for = "skip" /\ io'.for = "skip" /\ io'.size = n
      BY <2>1, Fields DEF FInv, StageOK, More
    <3>3. n - g <= t - f
      BY <2>1, <3>1, <3>2 DEF FInv, SkipOK
    <3>4. t >= p /\ n - l <= t - p
      <4> HIDE DEF f, g, p, l, n, t
      <4> QED BY <1>1, <1>2, <3>3
    <3> QED BY <1>3, <2>1, <3>1, <3>2, <3>4 DEF SkipOK
  <2>2. CASE call.op = "skip" /\ kind = "split"
    <3>1. p = sf'.tot /\ sf.tot = f /\ ~Zipped'
      BY <1>1, <1>3, <2>2, FsPosIs, FsPosNext DEF Zipped, Kept
    <3>2. io.for = "skip" /\ io'.for = "skip" /\ io'.size = n
      BY <2>2, Fields DEF FInv, StageOK, More
    <3>3. r - g = t - f /\ r >= 0 /\ n <= r
      BY <2>2, <3>1, <3>2 DEF FInv, SkipOK
    <3>4. r - l = t - p
      <4> HIDE DEF f, g, p, l, n, t, r
      <4> QED BY <1>1, <1>2, <3>3
    <3> QED BY <2>2, <3>1, <3>2, <3>3, <3>4 DEF SkipOK
  <2>3. CASE call.op # "skip"
    <3>1. call.op # "slice"
      BY DEF FInv, StageOK
    <3> QED BY <2>3, <3>1 DEF SkipOK
  <2>4. call.op = "skip" => Zipped \/ kind = "split"
    BY DEF FInv, StageOK
  <2> QED BY <2>1, <2>2, <2>3, <2>4
<1>11. Right'
  BY DEF FInv, Right, ReadFull, SeekRight, Kept
<1>12. UNCHANGED <<SurePos, AbsRes>>
  BY <1>3 DEF SurePos, AbsRes, Busy
<1> QED BY <1>4, <1>5, <1>6, <1>8, <1>9, <1>10, <1>11, <1>12 DEF FInv, AStep, Kept

-----------------------------------------------------------------------------
(* A plain file *)

\* A read of a plain file keeps the invariant.
LEMMA PlainStep ==
    ASSUME FInv, PlainRead
    PROVE  FInv' /\ AStep
<1>1. /\ io.for # "none" /\ kind = "plain" /\ UNCHANGED <<kind, z, sf, rawlen>>
      /\ fpos \in Nat /\ io.size \in Nat /\ Size \in Nat /\ FTypeOK
  BY Fields, SizeNat DEF PlainRead, FInv, FTypeOK
<1>2. fpos' \in Nat => Kept
  BY <1>1 DEF Kept, ZOK, SfOK, Zipped, FTypeOK
<1>3. FsPos = fpos /\ Base = fpos /\ io.got = <<>>
  <2>1. FsPos = fpos /\ io.got = <<>> /\ Len(<<>>) = 0
    BY <1>1, FsPosIs, EmptySeq DEF FInv, StageOK
  <2>2. fpos - 0 = fpos
    BY <1>1
  <2> QED BY <2>1, <2>2 DEF Base
<1> DEFINE k == Max({0, Min({io.size, Size - fpos})})
<1>4. /\ k \in Nat /\ k <= io.size /\ (k > 0 => k <= Size - fpos)
      /\ (k < io.size => Size - fpos <= k)
  <2>1. io.size \in Int /\ io.size >= 0 /\ Size - fpos \in Int
    BY <1>1
  <2> QED BY <2>1, Clamp
<1>5. CASE FoReturn(Bytes(fpos, k)) /\ fpos' = fpos + k /\ UNCHANGED fails
  <2> HIDE DEF k
  <2>1. fpos + k \in Nat /\ Bytes(fpos, k) \in Seq(Int) /\ Len(Bytes(fpos, k)) = k
    <3>1. fpos + k \in Nat /\ fpos \in Int
      BY <1>1, <1>4
    <3> QED BY <1>4, <3>1, BytesSeq, Zenon
  <2>2. Kept /\ FsPos' = fpos + k
    <3>1. fpos' \in Nat /\ kind' = "plain"
      BY <1>1, <1>5, <2>1
    <3>2. Kept
      BY <1>2, <3>1
    <3> QED BY <1>5, <3>1, <3>2, FsPosNext, Zenon DEF Kept
  <2>3. /\ k > 0 => fpos + k <= Size
        /\ k < io.size => fpos + k >= Size
    BY <1>1, <1>4
  <2>4. Delivered(Bytes(fpos, k), FsPos')
    BY <1>3, <1>4, <2>1, <2>2, <2>3, Zenon DEF Delivered
  <2> QED BY <1>1, <1>5, <2>2, <2>4, ReturnStep
<1>6. CASE FoFail /\ \E j \in 0 .. io.size : fpos' = fpos + j
  <2>1. fpos' \in Nat
    BY <1>1, <1>6
  <2> QED BY <1>1, <1>2, <1>6, <2>1, FailStep
<1> QED BY <1>5, <1>6 DEF PlainRead, OneMoreFailure

-----------------------------------------------------------------------------
(* A compressed file *)

\* The units with data before unit u.
LEMMA DataBeforeIs ==
    ASSUME NEW u \in Nat
    PROVE  /\ DataBefore(u) \in Nat /\ DataBefore(u) <= NData
           /\ u <= 1 => DataBefore(u) = 0
           /\ u >= 1 /\ u <= NData + 1 => DataBefore(u) = u - 1
           /\ u >= NData + 1 => DataBefore(u) = NData
<1> DEFINE k == Max({0, Min({u - 1, NData})})
<1>1. NData \in Nat /\ u - 1 \in Int
  BY FilesAssumption
<1>2. /\ k \in Nat /\ (k > 0 => k <= NData) /\ (k < u - 1 => NData <= k)
      /\ (u - 1 >= 0 => k <= u - 1) /\ (u - 1 >= 0 /\ NData >= 0 => k = u - 1 \/ k = NData)
  BY <1>1, Clamp
<1>3. u = 0 => k = 0
  <2>0. NData \in Int /\ 0 \in Int
    BY <1>1
  <2>1. Min({u - 1, NData}) \in Int /\ Min({u - 1, NData}) <= u - 1
    BY <1>1, <2>0, MinTwo, Zenon
  <2> DEFINE m == Min({u - 1, NData})
  <2>2. m \in Int /\ m <= u - 1
    BY <2>1
  <2> HIDE DEF m
  <2>3. Max({0, m}) \in Int /\ (Max({0, m}) = 0 \/ Max({0, m}) = m) /\ 0 <= Max({0, m})
    BY <2>0, <2>2, MaxTwo, Zenon
  <2>4. u = 0 => Max({0, m}) = 0
    BY <2>2, <2>3
  <2> QED BY <2>4 DEF m
<1>4. DataBefore(u) = k
  BY DEF DataBefore
<1> HIDE DEF k
<1> QED BY <1>1, <1>2, <1>3, <1>4

\* Later units have no less data before them.
LEMMA DataBeforeMonotone ==
    ASSUME NEW u \in Nat, NEW v \in Nat, u <= v
    PROVE  DataBefore(u) <= DataBefore(v)
<1>1. NData \in Nat
  BY FilesAssumption
<1>2. /\ DataBefore(u) \in Nat /\ DataBefore(u) <= NData
      /\ u <= 1 => DataBefore(u) = 0
      /\ u >= 1 /\ u <= NData + 1 => DataBefore(u) = u - 1
      /\ DataBefore(v) \in Nat
      /\ v >= 1 /\ v <= NData + 1 => DataBefore(v) = v - 1
      /\ v >= NData + 1 => DataBefore(v) = NData
  BY DataBeforeIs
<1> DEFINE a == DataBefore(u)
           b == DataBefore(v)
<1> HIDE DEF a, b
<1>3. a <= b
  BY <1>1, <1>2 DEF a, b
<1> QED BY <1>3 DEF a, b

\* The parts of ZOK.
LEMMA ZFacts ==
    ASSUME FInv, Zipped
    PROVE  /\ z.next = z.rawpos - z.avail /\ z.at = z.next /\ z.rawpos <= rawlen
           /\ z.total + z.pend = Ratio * DataBefore(z.next)
           /\ z.endseen => z.next = NData + 2 /\ z.pend = 0
           /\ ~z.endseen => z.next <= NData + 1
           /\ FsPos = z.total /\ kind # "plain" /\ kind # "split" /\ kind # "closed"
           /\ rawlen \in Nat /\ rawlen <= NData + 2 /\ NData \in Nat
<1>1. FsPos = z.total /\ kind # "plain" /\ kind # "split" /\ kind # "closed"
  BY FsPosIs DEF FInv, Zipped
<1>2. NData \in Nat /\ rawlen \in 1 .. NData + 2
  BY FilesAssumption DEF FInv, FTypeOK
<1>3. rawlen \in Nat /\ rawlen <= NData + 2
  BY <1>2
<1> QED BY <1>1, <1>2, <1>3 DEF FInv, ZOK

\* Room is what is left of the size.
LEMMA RoomIs ==
    ASSUME FInv, io.for # "none"
    PROVE  /\ Room \in Nat /\ Len(io.got) \in Nat /\ io.size \in Nat
           /\ io.size = Len(io.got) + Room
<1> DEFINE g == Len(io.got)
           n == io.size
<1>1. g \in Nat /\ n \in Nat /\ g <= n
  BY Fields DEF FInv, StageOK
<1>2. Room = n - g
  BY DEF Room
<1> HIDE DEF g, n
<1>3. Room \in Nat /\ n = g + Room
  BY <1>1, <1>2
<1> QED BY <1>1, <1>3 DEF g, n

\* k more bytes are got.
LEMMA GotMore ==
    ASSUME FInv, io.for # "none", NEW k \in Nat, k <= Room
    PROVE  LET got == io.got \o Bytes(FsPos, k)
           IN /\ got \in Seq(Int) /\ got = Bytes(Base, Len(got)) /\ Len(got) <= io.size
              /\ Len(got) = Len(io.got) + k /\ FsPos + k = Base + Len(got)
<1> DEFINE g == Len(io.got)
           f == FsPos
           n == io.size
           r == Room
           a == Base
           got == io.got \o Bytes(f, k)
           s == Bytes(a, g + k)
<1>1. /\ g \in Nat /\ f \in Nat /\ a \in Nat /\ a = f - g /\ io.got = Bytes(a, g)
      /\ n = g + r /\ r \in Nat /\ k <= r
  BY RoomIs, GotFacts DEF Base
<1> HIDE DEF g, f, n, r, a
<1>2. f = a + g /\ a \in Int /\ g + k \in Nat /\ g + k <= n /\ f + k = a + (g + k)
  BY <1>1
<1>3. got = s
  <2>1. Bytes(a, g) \o Bytes(a + g, k) = Bytes(a, g + k)
    BY <1>1, <1>2, BytesConcat, Zenon
  <2> QED BY <1>1, <1>2, <2>1
<1>4. s \in Seq(Int) /\ Len(s) = g + k
  BY <1>2, BytesSeq
<1>5. /\ got \in Seq(Int) /\ got = Bytes(a, Len(got)) /\ Len(got) <= n
      /\ Len(got) = g + k /\ f + k = a + Len(got)
  <2>1. Len(got) = g + k
    BY <1>3, <1>4, Zenon
  <2> QED BY <1>2, <1>3, <1>4, <2>1, Zenon
<1> QED BY <1>5 DEF g, f, n, a

\* zf_read() returns what it has got, having got something or met the end mark.
LEMMA ZReturn ==
    ASSUME FInv, ZReading, FoReturn(io.got), UNCHANGED <<kind, fpos, z, sf, rawlen>>,
           Room > 0 => z.endseen \/ (Len(io.got) > 0 /\ rawlen # NData + 2)
    PROVE  FInv' /\ AStep
<1>1. io.for # "none" /\ Zipped /\ kind # "split"
  BY ZFacts DEF ZReading
<1>2. Kept
  BY <1>1 DEF FInv, FTypeOK, Kept, ZOK, SfOK, Zipped, DataBefore
<1>3. FsPos' = FsPos
  BY DEF FsPos, Zipped
<1> DEFINE f == FsPos
           g == Len(io.got)
           n == io.size
<1>4. /\ Room \in Nat /\ g \in Nat /\ n = g + Room /\ f \in Nat /\ Base \in Nat
      /\ Base = f - g /\ io.got = Bytes(Base, g) /\ io.got \in Seq(Int)
  BY <1>1, RoomIs, GotFacts, Fields DEF Base, FInv
<1>5. g > 0 => f <= Size
  BY DEF FInv, GotOK
<1>6. z.endseen => f >= Size
  <2>1. ASSUME z.endseen PROVE f >= Size
    <3>1. z.next = NData + 2 /\ z.pend = 0 /\ z.total + z.pend = Ratio * DataBefore(z.next)
          /\ f = z.total /\ NData \in Nat /\ z.total \in Nat
      BY <1>1, <2>1, ZFacts, Fields DEF FInv
    <3>2. DataBefore(NData + 2) = NData
      <4>1. NData + 2 \in Nat /\ NData + 2 >= NData + 1
        BY <3>1
      <4> QED BY <4>1, DataBeforeIs
    <3>3. z.total + 0 = z.total
      BY <3>1
    <3>4. f = Size
      BY <3>1, <3>2, <3>3, Zenon DEF Size
    <3>5. \A x \in Nat : x >= x
      OBVIOUS
    <3> QED BY <3>4, <3>5, SizeNat
  <2> QED BY <2>1
<1>7. Delivered(io.got, FsPos')
  <2>1. g <= n /\ f = Base + g /\ (g < n => Room > 0)
    <3> HIDE DEF f, g, n
    <3> QED BY <1>4
  <2>2. g < n /\ (rawlen = NData + 2 \/ g = 0) => f >= Size
    <3> HIDE DEF f, n
    <3>1. g > 0 => g # 0
      BY <1>4
    <3> QED BY <1>6, <2>1, <3>1
  <2> QED BY <1>3, <1>4, <1>5, <2>1, <2>2 DEF Delivered
<1> QED BY <1>1, <1>2, <1>7, ReturnStep

\* zf_read() and bzf_read() return.
LEMMA ZDoneStep ==
    ASSUME FInv, ZDone
    PROVE  FInv' /\ AStep
<1>1. Room > 0 => z.endseen
  BY DEF ZDone
<1> QED BY <1>1, ZReturn DEF ZDone

\* A failure that loses nothing has moved nothing.
LEMMA NotMoved ==
    ASSUME NEW p, NEW q, FailsAt(p, q), ~lost'
    PROVE  q = p
BY DEF FailsAt

\* zf_fill() and bzf_fill().
LEMMA ZFillStep ==
    ASSUME FInv, ~lost, ~lost', ZFill
    PROVE  FInv' /\ AStep
<1>1. /\ io.for # "none" /\ Zipped /\ Room > 0 /\ ~z.endseen /\ z.avail = 0
      /\ UNCHANGED <<kind, fpos, sf, rawlen>>
  BY DEF ZFill, ZReading
<1>2. /\ z.next = z.rawpos - z.avail /\ z.rawpos <= rawlen
      /\ z.total + z.pend = Ratio * DataBefore(z.next)
      /\ z.next <= NData + 1 /\ FsPos = z.total /\ kind # "plain" /\ kind # "split"
      /\ rawlen \in Nat /\ NData \in Nat /\ z \in ZRec /\ z.rawpos \in Nat /\ z.next \in Nat
      /\ Zbufsize \in Nat
  BY <1>1, ZFacts, Fields, FilesAssumption DEF FInv, FTypeOK
<1> DEFINE n == Max({0, Min({Zbufsize, rawlen - z.rawpos})})
<1>3. /\ n \in Nat /\ (n > 0 => n <= rawlen - z.rawpos)
      /\ (n < Zbufsize => rawlen - z.rawpos <= n)
  <2>1. rawlen - z.rawpos \in Int /\ Zbufsize \in Int
    BY <1>2
  <2> QED BY <2>1, Clamp
<1>4. UNCHANGED z => Kept
  BY <1>1 DEF FInv, FTypeOK, Kept, ZOK, SfOK, Zipped, DataBefore
<1>5. CASE n > 0 /\ z' = [z EXCEPT !.rawpos = @ + n, !.avail = n, !.at = z.rawpos]
           /\ UNCHANGED <<call, io, ra, res, fails>>
  <2> HIDE DEF n
  <2> DEFINE w == z.rawpos + n
  <2>1. w \in Nat /\ w <= rawlen /\ z.next = w - n
    BY <1>1, <1>2, <1>3, <1>5
  <2>2. /\ z' = [z EXCEPT !.rawpos = w, !.avail = n, !.at = z.next]
    <3>1. z.next = z.rawpos
      BY <1>1, <1>2
    <3> QED BY <1>5, <3>1
  <2> HIDE DEF w
  <2>3. z' \in ZRec /\ z'.rawpos = w /\ z'.avail = n /\ z'.next = z.next /\ z'.at = z.next
        /\ z'.pend = z.pend /\ z'.total = z.total /\ z'.endseen = z.endseen
    BY <1>2, <1>3, <2>1, <2>2 DEF ZRec
  <2>4. ZOK'
    BY <1>1, <1>2, <2>1, <2>3 DEF ZOK, DataBefore
  <2>5. Kept
    BY <1>1, <1>2, <2>3, <2>4 DEF Kept, SfOK, FInv, FTypeOK
  <2>6. FsPos' = FsPos
    BY <1>1, <2>3 DEF FsPos, Zipped
  <2>7. More
    <3> DEFINE f == FsPos
               g == Len(io.got)
    <3>1. /\ g \in Nat /\ g <= io.size /\ f \in Nat /\ Base = f - g
          /\ io.got = Bytes(Base, g) /\ io \in IoRec /\ (g > 0 => f <= Size)
      BY <1>1, GotFacts, Fields DEF Base, FInv, FTypeOK, StageOK, GotOK
    <3>2. f = Base + g
      <4> HIDE DEF f, g
      <4> QED BY <3>1
    <3> QED BY <1>5, <2>6, <3>1, <3>2 DEF More
  <2> QED BY <1>1, <1>2, <1>5, <2>5, <2>7, MoreStep
<1>6. CASE n = 0 /\ (IF io.got = <<>> THEN FoFail ELSE FoReturn(io.got)) /\ UNCHANGED <<z, fails>>
  <2>1. rawlen # NData + 2
    <3>1. Zbufsize > 0
      BY FilesAssumption
    <3> HIDE DEF n
    <3> QED BY <1>1, <1>2, <1>3, <1>6, <3>1
  <2>2. CASE io.got = <<>>
    BY <1>1, <1>4, <1>6, <2>2, FailStep
  <2>3. CASE io.got # <<>>
    <3>1. Len(io.got) > 0
      <4>1. io.got \in Seq(Int) /\ Len(io.got) \in Nat
        BY Fields DEF FInv
      <4> QED BY <2>3, <4>1, EmptySeq
    <3>2. ZReading /\ FoReturn(io.got) /\ UNCHANGED z
      BY <1>1, <1>6, <2>3 DEF ZReading
    <3> QED BY <1>1, <2>1, <3>1, <3>2, ZReturn
  <2> QED BY <2>2, <2>3
<1>7. ASSUME FoFail, NEW q, FailsAt(z.rawpos, q), z' = [z EXCEPT !.rawpos = q]
      PROVE  FInv' /\ AStep
  <2>1. z' = z
    BY <1>2, <1>7, NotMoved DEF ZRec
  <2> QED BY <1>1, <1>4, <1>7, <2>1, FailStep
<1> QED BY <1>5, <1>6, <1>7 DEF ZFill

\* Of some natural numbers one is the least.
LEMMA LeastNatural ==
    ASSUME NEW S, S \subseteq Nat, S # {}
    PROVE  Min(S) \in S /\ \A y \in S : Min(S) <= y
<1>1. IsWellFoundedOn(OpToRel(<, Nat), Nat)
  BY NatLessThanWellFounded
<1> DEFINE R == OpToRel(<, Nat)
<1> HIDE DEF R
<1>2. PICK x \in S : \A y \in S : ~ (<<y, x>> \in R)
  BY <1>1, WFMin DEF R
<1>3. \A y \in S : <<y, x>> \in R <=> y < x
  BY DEF R, OpToRel
<1>4. \A y \in S : x <= y
  <2> TAKE y \in S
  <2>1. ~(y < x) /\ x \in Nat /\ y \in Nat
    BY <1>2, <1>3
  <2> QED BY <2>1
<1> QED BY <1>4 DEF Min

\* The bytes the decoder holds after c more units: those of all units it has
\* eaten then, less the ones it has given.
LEMMA HeldIs ==
    ASSUME FInv, Zipped, NEW c \in Nat
    PROVE  Held(c) \in Nat /\ z.total + Held(c) = Ratio * DataBefore(z.next + c)
<1> DEFINE a == DataBefore(z.next)
           b == DataBefore(z.next + c)
           t == z.total
           q == z.pend
<1>1. z.next \in Nat /\ z.next + c \in Nat /\ z.next <= z.next + c /\ t \in Nat /\ q \in Nat
  <2>1. z.next \in Nat /\ t \in Nat /\ q \in Nat
    BY Fields DEF FInv
  <2> QED BY <2>1
<1>2. a \in Nat /\ b \in Nat /\ a <= b
  BY <1>1, DataBeforeIs, DataBeforeMonotone
<1>3. t + q = Ratio * a /\ Ratio \in Nat
  BY ZFacts, FilesAssumption
<1>4. Held(c) = q + Ratio * (b - a)
  BY DEF Held
<1> HIDE DEF a, b, t, q
<1>5. PICK d \in Nat : b = a + d
  <2>1. b - a \in Nat /\ b = a + (b - a)
    BY <1>2
  <2> QED BY <2>1
<1>6. b - a = d
  BY <1>2, <1>5
<1>7. Ratio * b = Ratio * a + Ratio * d /\ Ratio * d \in Nat
  BY <1>2, <1>3, <1>5
<1>8. Held(c) = q + Ratio * d
  BY <1>4, <1>6
<1> DEFINE e == Ratio * d
           m == Ratio * a
<1>9. e \in Nat /\ m \in Nat /\ t + q = m /\ Held(c) = q + e /\ Ratio * b = m + e
  BY <1>2, <1>3, <1>7, <1>8
<1> HIDE DEF e, m
<1>10. Held(c) \in Nat /\ t + Held(c) = m + e
  BY <1>1, <1>9
<1> QED BY <1>9, <1>10 DEF t, b

\* No unit has more data before it than there is.
LEMMA RatioBound ==
    ASSUME NEW u \in Nat
    PROVE  Ratio * DataBefore(u) <= Size
<1> DEFINE a == DataBefore(u)
<1>1. a \in Nat /\ a <= NData /\ NData \in Nat /\ Ratio \in Nat
  BY DataBeforeIs, FilesAssumption
<1> HIDE DEF a
<1>2. PICK d \in Nat : NData = a + d
  <2>1. NData - a \in Nat /\ NData = a + (NData - a)
    BY <1>1
  <2> QED BY <2>1
<1>3. Ratio * NData = Ratio * a + Ratio * d /\ Ratio * d \in Nat /\ Ratio * a \in Nat
  BY <1>1, <1>2
<1>4. \A x, y \in Nat : x <= x + y
  OBVIOUS
<1>5. Ratio * a <= Ratio * NData
  BY <1>3, <1>4
<1> QED BY <1>5 DEF a, Size

\* The units the decoder eats: as few as will do.
LEMMA EatenIs ==
    ASSUME FInv, Zipped, NEW c, c = Min({k \in 0 .. z.avail : Eats(k)})
    PROVE  c \in Nat /\ c <= z.avail /\ Eats(c) /\ (c > 0 => ~Eats(c - 1))
<1> DEFINE S == {k \in 0 .. z.avail : Eats(k)}
<1>1. z.avail \in Nat
  BY Fields DEF FInv
<1>2. z.avail \in S
  BY <1>1 DEF Eats
<1>3. S \subseteq Nat /\ \A k \in S : k <= z.avail /\ Eats(k)
  BY <1>1
<1>4. \A k \in Nat : k <= z.avail /\ Eats(k) => k \in S
  BY <1>1
<1>5. c = Min(S)
  OBVIOUS
<1> HIDE DEF S
<1>6. c \in S /\ \A y \in S : c <= y
  BY <1>2, <1>3, <1>5, LeastNatural
<1>7. c \in Nat /\ c <= z.avail /\ Eats(c)
  BY <1>3, <1>6
<1>8. ASSUME c > 0 PROVE ~Eats(c - 1)
  <2>1. c - 1 \in Nat /\ c - 1 <= z.avail /\ ~(c <= c - 1)
    BY <1>1, <1>7, <1>8
  <2> QED BY <1>4, <1>6, <2>1
<1> QED BY <1>7, <1>8

\* A call of inflate() or BZ2_bzDecompress() keeps the invariant.
LEMMA InflateStep ==
    ASSUME FInv, ~lost, ~lost', Inflate
    PROVE  FInv' /\ AStep
<1>1. /\ io.for # "none" /\ Zipped /\ Room > 0 /\ ~z.endseen
      /\ UNCHANGED <<kind, fpos, sf, rawlen>>
  BY DEF Inflate, ZReading
<1>2. /\ z.next = z.rawpos - z.avail /\ z.at = z.next /\ z.rawpos <= rawlen /\ z.next <= NData + 1
      /\ FsPos = z.total /\ kind # "plain" /\ kind # "split"
      /\ rawlen \in Nat /\ rawlen <= NData + 2 /\ NData \in Nat /\ z \in ZRec
      /\ z.rawpos \in Nat /\ z.next \in Nat /\ z.avail \in Nat /\ z.total \in Nat
  BY <1>1, ZFacts, Fields DEF FInv, FTypeOK
<1> DEFINE c == Min({k \in 0 .. z.avail : Eats(k)})
           k == Min({Room, Held(c)})
           e == c > 0 /\ z.next + c - 1 = NData + 1
<1>3. /\ z' = [z EXCEPT !.avail = @ - c, !.at = @ + c, !.next = @ + c, !.total = @ + k,
                        !.pend = Held(c) - k, !.endseen = e]
      /\ io' = [io EXCEPT !.got = @ \o Bytes(z.total, k)] /\ UNCHANGED <<call, ra, res>>
  <2>1. z.at = z.next
    BY <1>2
  <2> QED BY <2>1, Zenon DEF Inflate
<1>4. c \in Nat /\ c <= z.avail /\ Eats(c) /\ (c > 0 => ~Eats(c - 1))
  BY <1>1, EatenIs
<1> HIDE DEF c
<1>5. Held(c) \in Nat /\ z.total + Held(c) = Ratio * DataBefore(z.next + c)
  BY <1>1, <1>4, HeldIs
<1>6. Room \in Nat /\ Len(io.got) \in Nat /\ io.size \in Nat /\ io.size = Len(io.got) + Room
  BY <1>1, RoomIs
<1>7. k \in Nat /\ k <= Room /\ k <= Held(c) /\ (k = Room \/ k = Held(c))
  <2>1. Room \in Int /\ Held(c) \in Int
    BY <1>5, <1>6
  <2>2. k <= Room /\ k <= Held(c) /\ (k = Room \/ k = Held(c))
    BY <2>1, MinTwo
  <2> HIDE DEF k
  <2> QED BY <1>5, <1>6, <2>2
<1> HIDE DEF k
<1>8. z.next + c \in Nat /\ z.avail - c \in Nat /\ z.total + k \in Nat /\ Held(c) - k \in Nat
  BY <1>2, <1>4, <1>5, <1>7
<1>9. e \in BOOLEAN
  OBVIOUS
<1> HIDE DEF e
<1>10. /\ z' \in ZRec /\ z'.rawpos = z.rawpos /\ z'.avail = z.avail - c
       /\ z'.at = z.at + c /\ z'.next = z.next + c /\ z'.total = z.total + k /\ z'.pend = Held(c) - k
       /\ z'.endseen = e
  <2>1. z.at + c \in Nat
    BY <1>2, <1>8
  <2> QED BY <1>2, <1>3, <1>8, <1>9, <2>1 DEF ZRec
<1>11. z.next + c = z.rawpos - (z.avail - c)
  BY <1>2, <1>4
<1>12. (z.total + k) + (Held(c) - k) = Ratio * DataBefore(z.next + c)
  <2>1. (z.total + k) + (Held(c) - k) = z.total + Held(c)
    BY <1>2, <1>5, <1>7
  <2> QED BY <1>5, <2>1
<1>13. e => z.next + c = NData + 2 /\ Held(c) - k = 0
  <2> SUFFICES ASSUME e PROVE z.next + c = NData + 2 /\ Held(c) - k = 0
    OBVIOUS
  <2>1. c > 0 /\ z.next + c - 1 = NData + 1
    BY DEF e
  <2>2. c - 1 \in Nat /\ z.next + c = NData + 2 /\ z.next + (c - 1) = NData + 1
    BY <1>2, <1>4, <2>1
  <2>3. ~(Held(c - 1) >= Room)
    BY <1>4, <2>1 DEF Eats
  <2>4. DataBefore(NData + 1) = NData /\ DataBefore(NData + 2) = NData
    <3>1. NData + 1 \in Nat /\ NData + 2 \in Nat /\ NData + 2 >= NData + 1 /\ NData + 1 >= NData + 1
      BY <1>2
    <3> QED BY <3>1, DataBeforeIs
  <2> DEFINE h == Held(c - 1)
             i == Held(c)
  <2>5. h \in Nat /\ z.total + h = Ratio * NData
    BY <1>1, <2>2, <2>4, HeldIs
  <2>6. i \in Nat /\ z.total + i = Ratio * NData /\ (k = Room \/ k = i) /\ k <= i
    BY <1>5, <1>7, <2>2, <2>4
  <2>7. ~(h >= Room)
    BY <2>3
  <2> HIDE DEF h, i
  <2>8. i = h
    BY <1>2, <2>5, <2>6
  <2>9. i - k = 0
    BY <1>6, <1>7, <2>5, <2>6, <2>7, <2>8
  <2> QED BY <2>2, <2>9 DEF i
<1>14. ~e => z.next + c <= NData + 1
  <2> SUFFICES ASSUME ~e PROVE z.next + c <= NData + 1
    OBVIOUS
  <2>1. ~(c > 0) \/ z.next + c - 1 # NData + 1
    BY DEF e
  <2> QED BY <1>2, <1>4, <2>1
<1>15. ZOK'
  <2>1. z'.total + z'.pend = Ratio * DataBefore(z'.next)
    BY <1>10, <1>12
  <2>2. z'.endseen => z'.next = NData + 2 /\ z'.pend = 0
    BY <1>10, <1>13
  <2>3. ~z'.endseen => z'.next <= NData + 1
    BY <1>10, <1>14
  <2> QED BY <1>1, <1>2, <1>10, <1>11, <2>1, <2>2, <2>3 DEF ZOK, DataBefore
<1>16. Kept
  BY <1>1, <1>2, <1>10, <1>15 DEF Kept, SfOK, FInv, FTypeOK
<1>17. FsPos' = z.total + k
  BY <1>1, <1>10 DEF FsPos, Zipped
<1>18. z.total + k <= Size
  <2> DEFINE x == Ratio * DataBefore(z.next + c)
  <2>1. x <= Size
    BY <1>8, RatioBound
  <2>2. z.total + Held(c) = x
    BY <1>5
  <2> HIDE DEF x
  <2> QED BY <1>2, <1>5, <1>7, <2>1, <2>2, SizeNat
<1>19. More
  <2> DEFINE got == io.got \o Bytes(FsPos, k)
  <2>1. /\ got \in Seq(Int) /\ got = Bytes(Base, Len(got)) /\ Len(got) <= io.size
        /\ FsPos + k = Base + Len(got)
    BY <1>1, <1>7, GotMore
  <2>2. io' = [io EXCEPT !.got = got] /\ io \in IoRec
    BY <1>2, <1>3 DEF FInv, FTypeOK
  <2> HIDE DEF got
  <2>3. io' \in IoRec /\ io'.for = io.for /\ io'.size = io.size /\ io'.got = got
    BY <2>1, <2>2 DEF IoRec
  <2>4. FsPos' = Base + Len(got) /\ FsPos' <= Size
    BY <1>2, <1>17, <1>18, <2>1, Zenon
  <2> QED BY <2>1, <2>3, <2>4, Zenon DEF More
<1> QED BY <1>1, <1>2, <1>3, <1>16, <1>19, MoreStep

-----------------------------------------------------------------------------
(* A split file *)

\* The slice that is open, and its bounds.
LEMMA SplitFacts ==
    ASSUME FInv, kind = "split"
    PROVE  /\ NSlices \in Nat /\ sf.cur \in 1 .. NSlices /\ sf \in SfRec
           /\ Bounds[sf.cur] \in Nat /\ Bounds[sf.cur + 1] \in Nat
           /\ Bounds[sf.cur] <= Bounds[sf.cur + 1] /\ Bounds[sf.cur + 1] <= Size
           /\ sf.cur = NSlices => Bounds[sf.cur + 1] = Size
           /\ FsPos = sf.tot /\ ~Zipped
           /\ sf.spos \in Nat /\ sf.file \in Nat /\ sf.tot \in Nat
<1>1. Len(Bounds) \in Nat /\ Len(Bounds) > 1 /\ Bounds \in Seq(Nat)
  BY FilesAssumption, LenProperties
<1>2. NSlices = Len(Bounds) - 1
  BY DEF NSlices
<1>3. sf.cur \in 1 .. NSlices /\ sf.spos \in Nat /\ sf.file \in Nat /\ sf.tot \in Nat
  BY Fields DEF FInv
<1> DEFINE i == sf.cur
           l == Len(Bounds)
<1>4. /\ NSlices \in Nat /\ i \in 1 .. l /\ i + 1 \in 1 .. l /\ l \in 1 .. l /\ i <= i + 1
      /\ i + 1 <= l /\ (i = NSlices => i + 1 = l)
  <2> HIDE DEF i, l
  <2> QED BY <1>1, <1>2, <1>3 DEF i, l
<1>5. Bounds[i] \in Nat /\ Bounds[i + 1] \in Nat
  BY <1>1, <1>4, ElementOfSeq
<1>6. /\ Bounds[i] <= Bounds[i + 1] /\ Bounds[i + 1] <= Size
      /\ i = NSlices => Bounds[i + 1] = Size
  <2> HIDE DEF i
  <2>1. \A a, b \in 1 .. l : a <= b => Bounds[a] <= Bounds[b]
    BY FilesAssumption
  <2>2. Bounds[l] = Size
    BY FilesAssumption
  <2> HIDE DEF l
  <2> QED BY <1>4, <2>1, <2>2
<1>7. FsPos = sf.tot /\ ~Zipped
  BY FsPosIs DEF FInv, Zipped
<1> QED BY <1>3, <1>4, <1>5, <1>6, <1>7 DEF FInv, FTypeOK

\* One round of splitfs_read() has read k bytes of a slice.
LEMMA SliceRead ==
    ASSUME FInv, kind = "split", io.for # "none", sf.curfd, NEW k,
           k = Max({0, Min({Room, SliceLen(sf.cur) - sf.spos})})
    PROVE  /\ k \in Nat /\ k <= Room
           /\ sf.file = sf.spos /\ sf.tot = Bounds[sf.cur] + sf.spos
           /\ k > 0 => sf.tot + k <= Size
           /\ sf.cur < NSlices => sf.spos + k <= SliceLen(sf.cur)
           /\ k < Room => SliceLen(sf.cur) - sf.spos <= k
           /\ k < Room /\ sf.cur = NSlices => sf.tot + k >= Size
           /\ k < Room /\ sf.cur < NSlices => sf.tot + k = Bounds[sf.cur + 1]
<1> DEFINE a == Bounds[sf.cur]
           b == Bounds[sf.cur + 1]
           p == sf.spos
           r == Room
           t == sf.tot
           m == SliceLen(sf.cur)
           c == sf.cur
<1>1. /\ a \in Nat /\ b \in Nat /\ b <= Size /\ (c = NSlices => b = Size) /\ p \in Nat
      /\ t \in Nat /\ m = b - a /\ c \in Nat /\ NSlices \in Nat /\ Size \in Nat /\ r \in Nat
  BY SplitFacts, RoomIs, SizeNat DEF SliceLen
<1>2. sf.file = p /\ t = a + p /\ (c < NSlices => p <= m)
  BY DEF FInv, SfOK
<1>3. /\ k \in Nat /\ k <= r /\ (k > 0 => k <= m - p) /\ (k < r => m - p <= k)
  <2>1. m - p \in Int /\ r \in Int /\ r >= 0
    <3> HIDE DEF a, b, p, r, t, m, c
    <3> QED BY <1>1
  <2> QED BY <2>1, Clamp
<1> HIDE DEF a, b, p, r, t, m, c
<1>4. k > 0 => t + k <= Size
  BY <1>1, <1>2, <1>3
<1>5. c < NSlices => p + k <= m
  BY <1>1, <1>2, <1>3
<1>6. k < r /\ c = NSlices => t + k >= Size
  BY <1>1, <1>2, <1>3
<1>7. k < r /\ c < NSlices => t + k = b
  BY <1>1, <1>2, <1>3
<1> QED BY <1>2, <1>3, <1>4, <1>5, <1>6, <1>7 DEF a, b, p, r, t, m, c

\* A round of splitfs_read() keeps the invariant.
LEMMA SplitStep ==
    ASSUME FInv, ~lost, ~lost', SplitRead
    PROVE  FInv' /\ AStep
<1>1. io.for # "none" /\ kind = "split" /\ UNCHANGED <<kind, fpos, z, rawlen>>
  BY DEF SplitRead
<1>2. /\ NSlices \in Nat /\ sf.cur \in 1 .. NSlices /\ sf \in SfRec /\ FsPos = sf.tot /\ ~Zipped
      /\ sf.spos \in Nat /\ sf.file \in Nat /\ sf.tot \in Nat /\ FsPos \in Nat
      /\ Bounds[sf.cur + 1] \in Nat
  BY <1>1, SplitFacts
<1>3. ASSUME sf' \in SfRec, SfOK' PROVE Kept
  BY <1>1, <1>2, <1>3 DEF Kept, ZOK, Zipped, FInv, FTypeOK
<1>4. ASSUME UNCHANGED sf, FoFail PROVE FInv' /\ AStep
  <2>1. SfOK'
    BY <1>1, <1>4 DEF FInv, SfOK
  <2> QED BY <1>1, <1>2, <1>3, <1>4, <2>1, FailStep
<1>5. CASE sf.curfd
  <2> DEFINE k == Max({0, Min({Room, SliceLen(sf.cur) - sf.spos})})
             got == io.got \o Bytes(Bounds[sf.cur] + sf.spos, k)
             s == [sf EXCEPT !.spos = @ + k, !.file = @ + k, !.tot = @ + k]
             short == Len(got) < io.size
             last == sf.cur = NSlices
  <2>1. /\ k \in Nat /\ k <= Room
        /\ sf.file = sf.spos /\ sf.tot = Bounds[sf.cur] + sf.spos
        /\ k > 0 => sf.tot + k <= Size
        /\ sf.cur < NSlices => sf.spos + k <= SliceLen(sf.cur)
        /\ k < Room => SliceLen(sf.cur) - sf.spos <= k
        /\ k < Room /\ sf.cur = NSlices => sf.tot + k >= Size
        /\ k < Room /\ sf.cur < NSlices => sf.tot + k = Bounds[sf.cur + 1]
    BY <1>1, <1>5, SliceRead
  <2>2. \/ (~short \/ last) /\ sf' = s /\ FoReturn(got)
        \/ short /\ ~last /\ sf' = NextSlice(s) /\ io' = [io EXCEPT !.got = got]
           /\ UNCHANGED <<call, ra, res>>
        \/ ~last /\ sf' = [s EXCEPT !.cur = @ + 1, !.curfd = FALSE] /\ FoFail
        \/ FoFail /\ \E q : FailsAt(sf.spos, q) /\ sf' = [sf EXCEPT !.spos = q]
    BY <1>5, Zenon DEF SplitRead
  <2> HIDE DEF k
  <2>3. /\ got \in Seq(Int) /\ got = Bytes(Base, Len(got)) /\ Len(got) <= io.size
        /\ Len(got) = Len(io.got) + k /\ FsPos + k = Base + Len(got)
    <3>1. Bounds[sf.cur] + sf.spos = FsPos
      BY <1>2, <2>1
    <3> QED BY <1>1, <2>1, <3>1, GotMore
  <2> HIDE DEF got
  <2>4. /\ Room \in Nat /\ Len(io.got) \in Nat /\ io.size \in Nat
        /\ io.size = Len(io.got) + Room
    BY <1>1, RoomIs
  <2>5. /\ short => k < Room
        /\ Len(got) > 0 => FsPos + k <= Size
    <3> DEFINE l == Len(got)
               g == Len(io.got)
               f == FsPos
               r == Room
               n == io.size
    <3>1. l = g + k /\ n = g + r /\ g \in Nat /\ r \in Nat /\ f \in Nat /\ k \in Nat
          /\ (g > 0 => f <= Size) /\ (k > 0 => f + k <= Size)
      BY <1>2, <2>1, <2>3, <2>4 DEF FInv, GotOK
    <3> HIDE DEF l, g, f, r, n
    <3>2. l < n => k < r
      BY <3>1
    <3>3. l > 0 => f + k <= Size
      <4>1. CASE k > 0
        BY <3>1, <4>1
      <4>2. CASE k = 0
        BY <3>1, <4>2
      <4> QED BY <3>1, <4>1, <4>2
    <3> QED BY <3>2, <3>3 DEF l, g, f, r, n
  <2> DEFINE p == sf.spos + k
             q == sf.tot + k
  <2>6. p \in Nat /\ q \in Nat /\ q = Bounds[sf.cur] + p
    <3>1. Bounds[sf.cur] \in Nat
      BY <1>1, SplitFacts
    <3> QED BY <1>2, <2>1, <3>1
  <2>7. s = [sf EXCEPT !.spos = p, !.file = p, !.tot = q]
    BY <2>1
  <2>8. FsPos + k = q /\ (k < Room /\ last => q >= Size)
        /\ (k < Room /\ sf.cur < NSlices => q = Bounds[sf.cur + 1])
        /\ (sf.cur < NSlices => p <= SliceLen(sf.cur))
    BY <1>2, <2>1
  <2> HIDE DEF p, q
  <2>9. /\ s \in SfRec /\ s.cur = sf.cur /\ s.spos = p /\ s.file = p /\ s.tot = q
        /\ s.curfd = sf.curfd
    BY <1>2, <2>6, <2>7 DEF SfRec
  <2> HIDE DEF s
  <2>10. CASE (~short \/ last) /\ sf' = s /\ FoReturn(got)
    <3>1. SfOK'
      BY <1>1, <2>6, <2>8, <2>9, <2>10 DEF SfOK
    <3>2. Kept
      BY <1>3, <2>9, <2>10, <3>1
    <3>3. FsPos' = q
      BY <1>1, <2>9, <2>10 DEF FsPos, Zipped
    <3>4. Len(got) < io.size => q >= Size
      BY <2>5, <2>8, <2>10
    <3>5. Delivered(got, FsPos')
      BY <2>3, <2>5, <2>8, <3>3, <3>4, Zenon DEF Delivered
    <3>6. Len(got) = 0 => sf'.cur = NSlices
      <4>1. io.size > 0
        BY <1>1, InRead
      <4> QED BY <2>9, <2>10, <4>1
    <3> QED BY <1>1, <2>10, <3>2, <3>5, <3>6, ReturnStep
  <2>11. sf.cur # NSlices => sf.cur < NSlices /\ sf.cur + 1 \in 1 .. NSlices
    BY <1>2
  <2>12. CASE short /\ ~last /\ sf' = NextSlice(s) /\ io' = [io EXCEPT !.got = got]
             /\ UNCHANGED <<call, ra, res>>
    <3> DEFINE c == sf.cur + 1
    <3>1. c \in 1 .. NSlices /\ q = Bounds[c] /\ Bounds[c] \in Nat
      BY <1>2, <2>5, <2>8, <2>11, <2>12
    <3>2. sf' = [s EXCEPT !.cur = c, !.spos = 0, !.file = 0]
      BY <2>9, <2>12 DEF NextSlice
    <3> HIDE DEF c
    <3>3. sf' \in SfRec /\ sf'.cur = c /\ sf'.spos = 0 /\ sf'.file = 0 /\ sf'.tot = q
      BY <2>9, <3>1, <3>2 DEF SfRec
    <3>4. q = Bounds[c] + 0 /\ 0 <= SliceLen(c)
      <4>1. q = Bounds[c] + 0
        BY <3>1
      <4>2. c + 1 \in 1 .. Len(Bounds) /\ c \in 1 .. Len(Bounds) /\ c <= c + 1
        <5>1. Len(Bounds) \in Nat
          BY FilesAssumption, LenProperties
        <5> QED BY <3>1, <5>1 DEF NSlices
      <4>3. Bounds[c] <= Bounds[c + 1] /\ Bounds[c + 1] \in Nat
        BY <4>2, FilesAssumption, ElementOfSeq
      <4> QED BY <3>1, <4>1, <4>3 DEF SliceLen
    <3>5. SfOK'
      BY <3>3, <3>4 DEF SfOK
    <3>6. Kept
      BY <1>3, <3>3, <3>5
    <3>7. FsPos' = q
      BY <1>1, <3>3 DEF FsPos, Zipped
    <3>8. io' \in IoRec /\ io'.for = io.for /\ io'.size = io.size /\ io'.got = got
      <4>1. io \in IoRec
        BY DEF FInv, FTypeOK
      <4> QED BY <2>3, <2>12, <4>1 DEF IoRec
    <3>9. More
      BY <2>3, <2>5, <2>8, <3>7, <3>8, Zenon DEF More
    <3> QED BY <1>1, <2>12, <3>6, <3>9, MoreStep
  <2>13. CASE ~last /\ sf' = [s EXCEPT !.cur = @ + 1, !.curfd = FALSE] /\ FoFail
    <3> DEFINE c == sf.cur + 1
    <3>1. c \in 1 .. NSlices
      BY <2>11, <2>13
    <3>2. sf' = [s EXCEPT !.cur = c, !.curfd = FALSE]
      BY <2>9, <2>13
    <3> HIDE DEF c
    <3>3. sf' \in SfRec /\ sf'.curfd = FALSE
      BY <2>9, <3>1, <3>2 DEF SfRec
    <3>4. SfOK'
      BY <3>3 DEF SfOK
    <3> QED BY <1>1, <1>3, <2>13, <3>3, <3>4, FailStep
  <2>14. ASSUME FoFail, NEW e, FailsAt(sf.spos, e), sf' = [sf EXCEPT !.spos = e]
         PROVE  FInv' /\ AStep
    <3>1. sf' = sf
      BY <1>2, <2>14, NotMoved DEF SfRec
    <3> QED BY <1>4, <2>14, <3>1
  <2> QED BY <2>2, <2>10, <2>12, <2>13, <2>14
<1>6. CASE ~sf.curfd
  <2>1. FoFail /\ UNCHANGED sf
    BY <1>6 DEF SplitRead
  <2> QED BY <1>4, <2>1
<1> QED BY <1>5, <1>6

-----------------------------------------------------------------------------
(* The read-ahead buffer *)

\* Between two fo_read()s nothing is on its way.
LEMMA NoIoFacts ==
    ASSUME FInv, io.for = "none"
    PROVE  /\ io.got = <<>> /\ Len(io.got) = 0 /\ FsPos \in Nat /\ ra.len \in Nat
           /\ ra.len <= FsPos /\ Position \in Nat /\ Position = FsPos - ra.len
<1> DEFINE f == FsPos
           l == ra.len
<1>1. io.got = <<>> /\ Len(io.got) = 0 /\ f \in Nat /\ l \in Nat
  BY NoneType, FsPosIs, Fields DEF FInv, StageOK
<1>2. l > 0 => l <= f
  BY DEF FInv, RaOK
<1>3. Position = f - l
  BY DEF Position
<1> HIDE DEF f, l
<1>4. l <= f /\ Position \in Nat
  BY <1>1, <1>2, <1>3
<1> QED BY <1>1, <1>3, <1>4 DEF f, l

\* c bytes of the buffer follow those the caller has.
LEMMA CopiedIs ==
    ASSUME FInv, call.op = "read", io.for = "none", NEW c \in Nat, c <= ra.len
    PROVE  LET d == call.dest \o Copied(c)
           IN /\ d \in Seq(Int) /\ Len(d) = Len(call.dest) + c
              /\ d = Bytes(call.start, Len(d))
<1> DEFINE o == ra.offset
           b == ra.buf
           l == ra.len
           w == SubSeq(b, o + 1, o + c)
<1>1. o \in Nat /\ b \in Seq(Int) /\ l \in Nat
  BY Fields DEF FInv
<1>2. /\ call.dest \in Seq(Int) /\ Len(call.dest) \in Nat /\ call.start \in Nat
      /\ call.dest = Bytes(call.start, Len(call.dest))
  BY ReadFacts
<1>3. CASE c = 0
  <2>1. w = <<>>
    <3>1. o + c < o + 1 /\ o + 1 \in Int /\ o + c \in Int
      BY <1>1, <1>3
    <3> QED BY <3>1, SubSeqEmpty
  <2>2. Copied(c) = <<>>
    BY <2>1 DEF Copied
  <2>3. call.dest \o <<>> = call.dest
    BY <1>2, ConcatEmptySeq
  <2>4. Len(call.dest) + 0 = Len(call.dest)
    BY <1>2
  <2> QED BY <1>2, <1>3, <2>2, <2>3, <2>4
<1>4. CASE c > 0
  <2> DEFINE p == Position
             a == Len(call.dest)
  <2>1. l > 0
    BY <1>1, <1>4
  <2>2. o + l = Len(b) /\ \A i \in 1 .. l : b[o + i] = p + i - 1
    BY <2>1 DEF FInv, RaOK
  <2>3. p \in Nat /\ p = call.start + a
    <3> DEFINE f == FsPos
    <3>1. p \in Nat /\ p = f - l /\ Len(io.got) = 0 /\ f \in Nat
      BY NoIoFacts
    <3>2. call.start + a = f - l - Len(io.got)
      BY DEF FInv, ReadOK
    <3> HIDE DEF p, f, l, a
    <3>3. f - l - 0 = f - l
      BY <1>1, <3>1
    <3> QED BY <3>1, <3>2, <3>3
  <2> HIDE DEF o, b, l, p
  <2>4. /\ Len(b) \in Nat /\ o + 1 \in 1 .. Len(b) + 1 /\ o + c \in 0 .. Len(b)
        /\ o + 1 <= o + c /\ (o + c) - (o + 1) + 1 = c /\ c <= l
    <3>1. Len(b) \in Nat /\ c <= l
      BY <1>1, LenProperties DEF l
    <3> QED BY <1>1, <1>4, <2>2, <3>1
  <2>5. w \in Seq(Int) /\ Len(w) = c /\ \A i \in 1 .. c : w[i] = b[(o + 1) + i - 1]
    <3>1. /\ o + 1 \in 1 .. Len(b) + 1 /\ o + c \in 0 .. Len(b)
          /\ Len(w) = IF o + 1 <= o + c THEN (o + c) - (o + 1) + 1 ELSE 0
          /\ w \in Seq(Int)
          /\ \A i \in 1 .. (o + c) - (o + 1) + 1 : w[i] = b[(o + 1) + i - 1]
      BY <1>1, <2>4, SubSeqProperties
    <3> QED BY <2>4, <3>1
  <2> HIDE DEF w
  <2>6. ASSUME NEW i \in 1 .. Len(w) PROVE w[i] = p + i - 1
    <3>1. i \in 1 .. c /\ i \in 1 .. l /\ (o + 1) + i - 1 = o + i
      BY <1>1, <2>4, <2>5
    <3> QED BY <2>2, <2>5, <3>1
  <2>7. w = Bytes(p, c)
    <3>1. p \in Int
      BY <2>3
    <3>2. w = Bytes(p, Len(w))
      BY <2>5, <2>6, <3>1, IsBytes
    <3> QED BY <2>5, <3>2
  <2>8. Copied(c) = w
    BY DEF Copied, w, o, b
  <2>9. call.dest \o w = Bytes(call.start, a + c)
    <3>1. call.start \in Int /\ a \in Nat
      BY <1>2
    <3>2. Bytes(call.start, a) \o Bytes(call.start + a, c) = Bytes(call.start, a + c)
      BY <3>1, BytesConcat, Zenon
    <3> QED BY <1>2, <2>3, <2>7, <3>2
  <2>10. Bytes(call.start, a + c) \in Seq(Int) /\ Len(Bytes(call.start, a + c)) = a + c
    <3>1. call.start \in Int /\ a + c \in Nat
      BY <1>2
    <3> QED BY <3>1, BytesSeq, Zenon
  <2> QED BY <2>8, <2>9, <2>10
<1> QED BY <1>3, <1>4

\* c bytes are taken from the buffer; those that stay are right.
LEMMA Taken ==
    ASSUME FInv, io.for = "none", NEW c \in Nat, c <= ra.len, UNCHANGED <<kind, fpos, z, sf>>,
           ra' = [ra EXCEPT !.offset = @ + c, !.len = @ - c]
    PROVE  /\ ra' \in RaRec /\ ra'.len = ra.len - c /\ RaOK' /\ FsPos' = FsPos
           /\ Position' = Position + c
<1> DEFINE o == ra.offset
           b == ra.buf
           l == ra.len
           f == FsPos
           p == Position
<1>1. o \in Nat /\ b \in Seq(Int) /\ l \in Nat /\ f \in Nat /\ p \in Nat /\ p = f - l
      /\ c <= l /\ ra \in RaRec
  BY Fields, NoIoFacts DEF FInv, FTypeOK
<1>2. FsPos' = f
  BY DEF FsPos, Zipped
<1> DEFINE q == o + c
           m == l - c
<1>3. ra' = [ra EXCEPT !.offset = q, !.len = m]
  OBVIOUS
<1>4. q \in Nat /\ m \in Nat /\ f - m = p + c
  <2> HIDE DEF o, l, f, p
  <2> QED BY <1>1
<1>5. ra' \in RaRec /\ ra'.offset = q /\ ra'.len = m /\ ra'.buf = b
  <2> HIDE DEF q, m
  <2> QED BY <1>1, <1>3, <1>4 DEF RaRec
<1>6. Position' = p + c
  BY <1>2, <1>4, <1>5 DEF Position
<1>7. ASSUME m > 0 PROVE q + m = Len(b) /\ m <= f /\ f <= Size
                         /\ \A i \in 1 .. m : b[q + i] = (p + c) + i - 1
  <2>1. l > 0
    <3> HIDE DEF o, l, f, p
    <3> QED BY <1>1, <1>7
  <2>2. o + l = Len(b) /\ l <= f /\ f <= Size /\ \A i \in 1 .. l : b[o + i] = p + i - 1
    BY <2>1 DEF FInv, RaOK
  <2> HIDE DEF o, l, f, p, b
  <2>3. q + m = Len(b) /\ m <= f
    BY <1>1, <2>2
  <2>4. ASSUME NEW i \in 1 .. m PROVE b[q + i] = (p + c) + i - 1
    <3>1. c + i \in 1 .. l /\ q + i = o + (c + i) /\ p + (c + i) - 1 = (p + c) + i - 1
      BY <1>1, SMTT(40)
    <3> QED BY <2>2, <3>1
  <2> QED BY <2>2, <2>3, <2>4
<1>8. RaOK'
  <2> HIDE DEF q, m, b, f, p
  <2> QED BY <1>2, <1>5, <1>6, <1>7, Zenon DEF RaOK, f
<1> QED BY <1>2, <1>5, <1>6, <1>8

\* Nothing below the descriptor has changed.
LEMMA SameBooks ==
    ASSUME FInv, UNCHANGED <<kind, fpos, z, sf, rawlen>>
    PROVE  Kept /\ FsPos' = FsPos
<1>1. Kept
  BY DEF FInv, FTypeOK, Kept, ZOK, SfOK, Zipped, DataBefore
<1>2. FsPos' = FsPos
  BY DEF FsPos, Zipped
<1> QED BY <1>1, <1>2

\* A round of the loop of read() keeps the invariant.
LEMMA ReadLoopStep ==
    ASSUME FInv, ReadLoop
    PROVE  FInv' /\ AStep
<1>1. /\ call.op = "read" /\ io.for = "none" /\ UNCHANGED <<kind, fpos, z, sf, rawlen>>
      /\ Busy /\ kind # "closed"
  BY DEF ReadLoop, FInv, StageOK, Busy
<1> DEFINE a == Len(call.dest)
           l == ra.len
           r == call.resid
           f == FsPos
           st == call.start
           n == call.n
<1>2. /\ a \in Nat /\ r \in Nat /\ st \in Nat /\ n \in Nat /\ r > 0 /\ n = a + r
      /\ (a > 0 => st + a <= Size) /\ l \in Nat /\ f \in Nat /\ Position = f - l
      /\ Len(io.got) = 0 /\ io.got = <<>> /\ Position \in Nat
  BY <1>1, ReadFacts, NoIoFacts
<1>3. st + a = Position
  <2>1. st + a = f - l - 0
    BY <1>1, <1>2 DEF FInv, ReadOK
  <2> HIDE DEF st, a, f, l
  <2> QED BY <1>2, <2>1
<1>4. l > 0 => f <= Size
  BY DEF FInv, RaOK
<1> DEFINE c == Min({ra.len, call.resid})
           dest == call.dest \o Copied(c)
           resid == call.resid - c
<1>5. /\ ra' = [ra EXCEPT !.offset = @ + c, !.len = @ - c]
      /\ \/ c > 0 /\ resid = 0 /\ Return(call.n, dest) /\ UNCHANGED io
         \/ /\ ~(c > 0 /\ resid = 0)
            /\ call' = [call EXCEPT !.resid = resid, !.dest = dest]
            /\ io' = IF resid >= Rasize
                     THEN [for |-> "bypass", size |-> resid, got |-> <<>>]
                     ELSE [for |-> "refill", size |-> Rasize, got |-> <<>>]
            /\ UNCHANGED res
  BY Zenon DEF ReadLoop
<1>6. c \in Nat /\ c <= l /\ c <= r /\ (c = l \/ c = r)
  <2>1. l \in Int /\ r \in Int
    BY <1>2
  <2>2. c <= l /\ c <= r /\ (c = l \/ c = r)
    BY <2>1, MinTwo
  <2> HIDE DEF c, l, r
  <2> QED BY <1>2, <2>2
<1> HIDE DEF c
<1>7. dest \in Seq(Int) /\ Len(dest) = a + c /\ dest = Bytes(st, Len(dest))
  BY <1>1, <1>6, CopiedIs
<1>8. /\ ra' \in RaRec /\ ra'.len = l - c /\ RaOK' /\ FsPos' = f /\ Position' = Position + c
  BY <1>1, <1>5, <1>6, Taken
<1>9. Kept
  BY <1>1, SameBooks
<1> HIDE DEF dest
<1> DEFINE p == Position + c
<1>10. p = st + (a + c) /\ p \in Nat /\ (a + c > 0 => p <= Size) /\ a + c <= n
  <2> HIDE DEF st, a, f, l, r, n
  <2>1. p = st + (a + c) /\ p \in Nat /\ a + c <= n
    BY <1>2, <1>3, <1>6
  <2>2. CASE c > 0
    BY <1>2, <1>3, <1>4, <1>6, <2>1, <2>2, SizeNat
  <2>3. CASE c = 0
    BY <1>2, <1>6, <2>1, <2>3
  <2> HIDE DEF p
  <2>4. a + c > 0 => p <= Size
    BY <1>6, <2>2, <2>3
  <2> QED BY <2>1, <2>4
<1>11. CASE c > 0 /\ resid = 0 /\ Return(call.n, dest) /\ UNCHANGED io
  <2>1. Len(dest) = n
    <3> HIDE DEF st, a, f, l, n
    <3> QED BY <1>2, <1>6, <1>7, <1>11, SMTT(40)
  <2>2. Answer(dest, p)
    <3>1. ~(n < n)
      BY <1>2
    <3> HIDE DEF p
    <3> QED BY <1>7, <1>10, <2>1, <3>1 DEF Answer
  <2>3. Return(Len(dest), dest) /\ Answer(dest, Position')
    BY <1>8, <1>11, <2>1, <2>2
  <2>4. io' = NoIo
    BY <1>1, <1>11 DEF FInv, StageOK
  <2> QED BY <1>1, <1>8, <1>9, <2>3, <2>4, AnswerAt
<1>12. CASE /\ ~(c > 0 /\ resid = 0)
            /\ call' = [call EXCEPT !.resid = resid, !.dest = dest]
            /\ io' = IF resid >= Rasize
                     THEN [for |-> "bypass", size |-> resid, got |-> <<>>]
                     ELSE [for |-> "refill", size |-> Rasize, got |-> <<>>]
            /\ UNCHANGED res
  <2>1. resid \in Nat /\ resid > 0 /\ l - c = 0 /\ p = f /\ a + c = n - resid
    <3>1. resid = r - c
      OBVIOUS
    <3> HIDE DEF st, a, f, l, r, n, resid
    <3> QED BY <1>2, <1>6, <1>12, <3>1
  <2>2. Rasize \in Nat /\ Rasize > 0 /\ <<>> \in Seq(Int) /\ Len(<<>>) = 0
    BY FilesAssumption, EmptySeq
  <2> HIDE DEF resid, p
  <2>3. /\ call' \in CallRec /\ call'.op = "read" /\ call'.resid = resid /\ call'.dest = dest
        /\ call'.start = st /\ call'.n = n
    <3>1. call \in CallRec /\ call.op = "read" /\ resid \in Int /\ dest \in Seq(Int)
      BY <1>1, <1>7, <2>1 DEF FInv, FTypeOK
    <3>2. call' = [call EXCEPT !.resid = resid, !.dest = dest]
      BY <1>12
    <3>3. call' \in CallRec
      BY <3>1, <3>2 DEF CallRec
    <3> QED BY <3>1, <3>2, <3>3 DEF CallRec
  <2>4. /\ io' \in IoRec /\ io'.for \in {"bypass", "refill"} /\ io'.size > 0
        /\ io'.got = <<>> /\ (io'.for = "bypass" => io'.size = resid)
    <3>1. CASE resid >= Rasize
      BY <1>12, <2>1, <2>2, <3>1 DEF IoRec
    <3>2. CASE ~(resid >= Rasize)
      BY <1>12, <2>1, <2>2, <3>2 DEF IoRec
    <3> QED BY <3>1, <3>2
  <2>5. Len(io'.got) = 0 /\ ra'.len = 0 /\ 0 <= io'.size /\ io'.size \in Nat
    <3>1. io'.size \in Nat
      BY <2>4 DEF IoRec
    <3>2. io'.size \in Nat => 0 <= io'.size
      OBVIOUS
    <3> QED BY <1>8, <2>1, <2>2, <2>4, <3>1, <3>2
  <2>6. FTypeOK'
    BY <1>1, <1>8, <1>9, <2>3, <2>4 DEF FInv, FTypeOK, Kept
  <2>7. StageOK'
    BY <1>1, <2>3, <2>4, <2>5 DEF StageOK, Busy
  <2>8. GotOK' /\ SkipOK'
    BY <2>3, <2>5 DEF GotOK, SkipOK
  <2>9. ReadOK'
    <3>1. f - 0 - 0 = f
      BY <1>2
    <3>2. st + Len(dest) = f - 0 - 0 /\ (Len(dest) > 0 => st + Len(dest) <= Size)
          /\ Len(dest) = n - resid
      BY <1>7, <1>10, <2>1, <3>1
    <3> QED BY <1>7, <1>8, <2>1, <2>3, <2>5, <3>2, Zenon DEF ReadOK
  <2>10. Right'
    BY <1>1, <1>12 DEF FInv, Right, ReadFull, SeekRight
  <2>11. UNCHANGED <<SurePos, AbsRes>>
    BY <1>1, <1>12, <2>3 DEF SurePos, AbsRes, Busy
  <2> QED BY <1>8, <1>9, <2>6, <2>7, <2>8, <2>9, <2>10, <2>11 DEF FInv, AStep, Kept
<1> QED BY <1>5, <1>11, <1>12

\* Between two calls no fo_read() is under way.
LEMMA NotBusy ==
    ASSUME FInv, ~Busy
    PROVE  io.for = "none" /\ io = NoIo /\ call.op = "none"
<1>1. call.op = "none" /\ io.for \in {"none", "refill", "bypass", "skip"}
  BY Fields DEF FInv, Busy
<1> QED BY <1>1 DEF FInv, StageOK

\* A call begins at the position the one before it has left.
LEMMA CallBegins ==
    ASSUME FInv, kind # "closed", ~Busy, kind' = kind, call'.op # "none",
           call'.start = Position, res' = NoRes
    PROVE  AStep
<1>1. SurePos = Position /\ SurePos' = Position
  BY DEF SurePos, Busy
<1>2. Position \in Nat
  BY NotBusy, NoIoFacts
<1>4. AbsRes' = Sure!NoRes
  BY DEF AbsRes, NoRes, Sure!NoRes
<1> QED BY <1>1, <1>2, <1>4 DEF AStep, Sure!Next, Sure!Call

\* read() begins.
LEMMA ReadStep ==
    ASSUME FInv, ~lost, ~lost', NEW n \in 1 .. MaxRead, Read(n)
    PROVE  FInv' /\ AStep
<1>1. /\ kind # "closed" /\ ~Busy /\ res' = NoRes
      /\ UNCHANGED <<kind, ra, io, fpos, z, sf, rawlen>>
      /\ call' = [NoCall EXCEPT !.op = "read", !.start = Position, !.n = n, !.resid = n]
  BY DEF Read, Here
<1>2. /\ io.for = "none" /\ io = NoIo /\ Len(io.got) = 0 /\ FsPos \in Nat /\ Position \in Nat
      /\ Position = FsPos - ra.len /\ ra.len \in Nat
  BY <1>1, NotBusy, NoIoFacts
<1>3. n \in Nat /\ n > 0
  BY FilesAssumption
<1>4. /\ call'.op = "read" /\ call'.start = Position /\ call'.n = n /\ call'.resid = n
      /\ call'.dest = <<>> /\ call' \in CallRec
  <2> DEFINE p == Position
  <2>1. call' = [NoCall EXCEPT !.op = "read", !.start = p, !.n = n, !.resid = n]
    BY <1>1
  <2>2. p \in Nat /\ n \in Nat /\ n \in Int
    BY <1>2, <1>3
  <2> HIDE DEF p
  <2>3. call' \in CallRec
    BY <2>1, <2>2, NoneType DEF CallRec
  <2>4. /\ call'.op = "read" /\ call'.start = p /\ call'.n = n /\ call'.resid = n
        /\ call'.dest = <<>>
    BY <2>1 DEF NoCall
  <2> QED BY <2>3, <2>4 DEF p
<1>5. Kept /\ FsPos' = FsPos
  BY <1>1, SameBooks
<1>6. FTypeOK'
  BY <1>1, <1>4 DEF FInv, FTypeOK
<1>7. StageOK'
  BY <1>1, <1>2, <1>4 DEF FInv, StageOK, Busy
<1>8. RaOK' /\ GotOK'
  BY <1>1, <1>2, <1>5 DEF FInv, RaOK, GotOK, Position
<1>9. ReadOK'
  <2> DEFINE p == Position
             f == FsPos
             l == ra.len
  <2>1. p \in Nat /\ f \in Nat /\ l \in Nat /\ p = f - l
    BY <1>2
  <2> HIDE DEF p, f, l
  <2>2. p + 0 = f - l - 0 /\ 0 = n - n /\ ~(0 > 0)
    BY <1>3, <2>1
  <2>3. <<>> = Bytes(p, 0) /\ Len(<<>>) = 0
    BY EmptyBytes, EmptySeq
  <2> QED BY <1>1, <1>2, <1>3, <1>4, <1>5, <2>2, <2>3 DEF ReadOK, p, f, l
<1>10. SkipOK'
  BY <1>4 DEF SkipOK
<1>11. Right'
  BY <1>1 DEF NoRes, Right, ReadFull, SeekRight
<1>12. AStep
  BY <1>1, <1>4, CallBegins
<1> QED BY <1>5, <1>6, <1>7, <1>8, <1>9, <1>10, <1>11, <1>12 DEF FInv, Kept

-----------------------------------------------------------------------------
(* lseek() *)

\* An open file has a position.
LEMMA SurePosNat ==
    ASSUME FInv, kind # "closed"
    PROVE  SurePos \in Nat /\ SurePos # -1
<1>1. call.start \in Nat
  BY Fields DEF FInv
<1>2. ~Busy => Position \in Nat
  BY NotBusy, NoIoFacts
<1>3. SurePos \in Nat
  BY <1>1, <1>2 DEF SurePos
<1> QED BY <1>3

\* No call is under way after the step.
LEMMA IdleNext ==
    ASSUME FTypeOK', ZOK', SfOK', RaOK', Right', ~Busy', io' = NoIo
    PROVE  FInv'
<1>1. call'.op = "none" /\ io'.for = "none" /\ io'.got = <<>> /\ Len(io'.got) = 0
  BY NoneType DEF Busy
<1>2. StageOK' /\ ReadOK' /\ SkipOK' /\ GotOK'
  BY <1>1 DEF StageOK, ReadOK, SkipOK, GotOK, Busy
<1> QED BY <1>2 DEF FInv

\* lseek() returns the position the file now has, and it is the target.
LEMMA SeekAnswered ==
    ASSUME FInv, kind # "closed", Kept, call' \in CallRec, ~Busy', io' = NoIo, ra' \in RaRec,
           RaOK', Position' \in Nat, res'.op = "lseek", res'.ret = Position',
           res'.target = Position', res'.data = <<>>
    PROVE  FInv' /\ AStep
<1>1. FTypeOK'
  BY NoneType DEF FInv, FTypeOK, Kept
<1>2. Right'
  BY DEF Right, ReadFull, SeekRight
<1>3. FInv'
  BY <1>1, <1>2, IdleNext DEF Kept
<1>4. SurePos' = Position' /\ SurePos \in Nat
  BY SurePosNat DEF SurePos, Kept
<1>5. Sure!Seek
  BY <1>4 DEF Sure!Seek, AbsRes
<1> QED BY <1>3, <1>5 DEF AStep, Sure!Next

\* lseek() fails.
LEMMA SeekFailed ==
    ASSUME FInv, kind # "closed", Kept, call' \in CallRec, ~Busy', io' = NoIo, ra' \in RaRec,
           ra'.len = 0, res'.op = "lseek", res'.ret = -1, res'.data = <<>>
    PROVE  FInv' /\ AStep
<1>1. FTypeOK'
  BY NoneType DEF FInv, FTypeOK, Kept
<1>2. Right' /\ RaOK'
  BY DEF Right, ReadFull, SeekRight, RaOK
<1>3. FInv'
  BY <1>1, <1>2, IdleNext DEF Kept
<1> DEFINE p == FsPos'
<1>4. p \in Nat /\ Position' = p - 0
  BY FsPosNext DEF Kept, Position
<1> HIDE DEF p
<1>5. Position' \in Nat
  BY <1>4
<1>6. SurePos' = Position' /\ SurePos \in Nat
  BY SurePosNat DEF SurePos, Kept
<1>7. Sure!Fail
  BY <1>5, <1>6 DEF Sure!Fail, AbsRes
<1> QED BY <1>3, <1>7 DEF AStep, Sure!Next

\* A round of the loop that skips keeps the invariant.
LEMMA SkipLoopStep ==
    ASSUME FInv, SkipLoop
    PROVE  FInv' /\ AStep
<1>1. /\ call.op = "skip" /\ io.for = "none" /\ UNCHANGED <<kind, ra, fpos, z, sf, rawlen>>
      /\ Busy /\ ra.len = 0 /\ (Zipped \/ kind = "split") /\ kind # "closed" /\ io = NoIo
      /\ kind # "plain"
  BY DEF SkipLoop, FInv, StageOK, Busy, Zipped
<1> DEFINE f == FsPos
           t == call.target
           left == IF Zipped THEN call.target - z.total ELSE call.resid
<1>2. f \in Nat /\ t \in Nat /\ FTypeOK /\ ra \in RaRec /\ call.resid \in Int /\ Len(io.got) = 0
      /\ call \in CallRec
  BY <1>1, Fields, NoIoFacts DEF FInv, FTypeOK
<1>3. left = t - f /\ left >= 0
  <2>1. CASE Zipped
    <3>1. f = z.total /\ t >= z.total
      BY <1>1, <1>2, <2>1, FsPosIs DEF FInv, SkipOK
    <3> HIDE DEF f, t
    <3>2. t - f >= 0
      BY <1>2, <3>1
    <3> QED BY <2>1, <3>1, <3>2 DEF t
  <2>2. CASE kind = "split"
    <3>1. f = sf.tot /\ call.resid - 0 = t - sf.tot /\ call.resid >= 0 /\ ~Zipped
      BY <1>1, <1>2, <2>2, FsPosIs DEF FInv, SkipOK, Zipped
    <3>2. call.resid - 0 = call.resid
      BY <1>2
    <3> QED BY <3>1, <3>2
  <2> QED BY <1>1, <2>1, <2>2
<1>4. Kept /\ FsPos' = f
  BY <1>1, SameBooks
<1>5. CASE left > 0 /\ UNCHANGED <<call, res>>
           /\ io' = [for |-> "skip", got |-> <<>>,
                     size |-> Min({left, IF Zipped THEN Discard ELSE Seekbuf})]
  <2> DEFINE b == IF Zipped THEN Discard ELSE Seekbuf
             m == Min({left, b})
  <2>1. b \in Nat /\ b > 0
    BY FilesAssumption
  <2> HIDE DEF b
  <2>2. left \in Nat
    <3> HIDE DEF left, t, f
    <3> QED BY <1>2, <1>3
  <2>3. m \in Nat /\ m > 0 /\ m <= left
    <3> HIDE DEF left
    <3>1. left \in Int /\ b \in Int
      BY <2>1, <2>2
    <3>2. m <= left /\ m <= b /\ (m = left \/ m = b)
      BY <3>1, MinTwo
    <3> HIDE DEF m
    <3> QED BY <1>5, <2>1, <2>2, <3>2
  <2>4. io' = [for |-> "skip", got |-> <<>>, size |-> m]
    BY <1>5 DEF b
  <2> HIDE DEF m
  <2>5. /\ io' \in IoRec /\ io'.for = "skip" /\ io'.size = m /\ io'.got = <<>>
        /\ Len(io'.got) = 0
    BY <2>3, <2>4, EmptySeq DEF IoRec
  <2>6. FTypeOK'
    BY <1>1, <1>2, <1>5, <2>5 DEF FTypeOK
  <2>7. StageOK'
    <3>1. 0 <= m
      BY <2>3
    <3> QED BY <1>1, <1>5, <2>3, <2>5, <3>1 DEF StageOK, Busy, Zipped
  <2>8. RaOK' /\ GotOK' /\ ReadOK'
    BY <1>1, <1>5, <2>5 DEF RaOK, GotOK, ReadOK
  <2>9. SkipOK'
    <3>1. CASE Zipped
      <4>1. left = call.target - z.total /\ kind # "split" /\ call.target >= z.total
        BY <1>1, <3>1 DEF Zipped, FInv, SkipOK
      <4>2. m - 0 = m
        BY <2>3
      <4> QED BY <1>1, <1>5, <2>3, <2>5, <4>1, <4>2 DEF SkipOK
    <3>2. CASE kind = "split"
      <4>1. left = call.resid /\ ~Zipped /\ call.resid - 0 = call.target - sf.tot
            /\ call.resid >= 0
        BY <1>1, <1>2, <3>2 DEF Zipped, FInv, SkipOK
      <4> QED BY <1>1, <1>5, <2>3, <2>5, <4>1 DEF SkipOK, Zipped
    <3> QED BY <1>1, <3>1, <3>2
  <2>10. Right'
    BY <1>1, <1>5 DEF FInv, Right, ReadFull, SeekRight
  <2>11. UNCHANGED <<SurePos, AbsRes>>
    BY <1>1, <1>5 DEF SurePos, AbsRes, Busy
  <2> QED BY <1>4, <2>6, <2>7, <2>8, <2>9, <2>10, <2>11 DEF FInv, AStep, Kept
<1>6. CASE left <= 0 /\ Return(FsPos, <<>>) /\ UNCHANGED io
  <2>1. t = f
    <3> HIDE DEF t, f, left
    <3> QED BY <1>2, <1>3, <1>6
  <2>2. /\ call' = NoCall /\ res'.op = "lseek" /\ res'.ret = f /\ res'.target = t
        /\ res'.data = <<>>
    BY <1>1, <1>6 DEF Return
  <2>3. f - 0 = f
    BY <1>2
  <2>4. Position' = f
    BY <1>1, <1>4, <2>3 DEF Position
  <2>5. ~Busy' /\ call' \in CallRec /\ RaOK' /\ io' = NoIo /\ ra' \in RaRec
    BY <1>1, <1>2, <1>6, <2>2, NoneType DEF Busy, RaOK
  <2> HIDE DEF t, f
  <2> QED BY <1>1, <1>2, <1>4, <2>1, <2>2, <2>4, <2>5, SeekAnswered
<1> QED BY <1>5, <1>6, Zenon DEF SkipLoop

\* The end of splitfs_seek() keeps the invariant.
LEMMA SeekSliceStep ==
    ASSUME FInv, ~lost, ~lost', SeekSlice
    PROVE  FInv' /\ AStep
<1>1. /\ call.op = "slice" /\ UNCHANGED <<kind, ra, io, fpos, z, rawlen>>
      /\ Busy /\ ra.len = 0 /\ kind = "split" /\ io.for = "none" /\ io = NoIo
      /\ call \in CallRec /\ ra \in RaRec
  BY DEF SeekSlice, FInv, StageOK, Busy, FTypeOK
<1> DEFINE r == call.resid
           t == call.target
           f == sf.file
           p == sf.spos
           w == sf.tot
           c == sf.cur
<1>2. /\ r \in Int /\ t \in Nat /\ f \in Nat /\ p \in Nat /\ w \in Nat /\ FsPos = w
      /\ sf \in SfRec /\ ~Zipped /\ r = t - w
      /\ c \in 1 .. NSlices /\ NSlices \in Nat
  BY <1>1, Fields, SplitFacts DEF FInv, SkipOK
<1>3. CASE UNCHANGED sf /\ (\/ call' = [call EXCEPT !.op = "panic"] /\ UNCHANGED res
                            \/ Return(IF call.resid = 0 THEN sf.tot ELSE -1, <<>>))
  <2>1. Kept /\ FsPos' = w
    BY <1>1, <1>2, <1>3, SameBooks
  <2>2. CASE call' = [call EXCEPT !.op = "panic"] /\ UNCHANGED res
    <3>1. /\ call' \in CallRec /\ call'.op = "panic" /\ call'.start = call.start
      BY <1>1, <2>2 DEF CallRec
    <3>2. FTypeOK'
      BY <1>1, <1>3, <3>1 DEF FInv, FTypeOK
    <3>3. StageOK'
      BY <1>1, <3>1 DEF StageOK, Busy, NoIo, Zipped
    <3>4. RaOK' /\ GotOK' /\ ReadOK' /\ SkipOK'
      BY <1>1, <3>1, NoneType DEF RaOK, GotOK, ReadOK, SkipOK
    <3>5. Right'
      BY <1>1, <2>2 DEF FInv, Right, ReadFull, SeekRight
    <3>6. UNCHANGED <<SurePos, AbsRes>>
      BY <1>1, <2>2, <3>1 DEF SurePos, AbsRes, Busy
    <3> QED BY <2>1, <3>2, <3>3, <3>4, <3>5, <3>6 DEF FInv, AStep, Kept
  <2>3. CASE Return(IF call.resid = 0 THEN sf.tot ELSE -1, <<>>)
    <3>1. /\ call' = NoCall /\ res'.op = "lseek" /\ res'.target = t /\ res'.data = <<>>
          /\ res'.ret = IF r = 0 THEN w ELSE -1
      BY <1>1, <2>3 DEF Return
    <3>2. ~Busy' /\ call' \in CallRec /\ RaOK' /\ io' = NoIo /\ ra' \in RaRec /\ ra'.len = 0
      BY <1>1, <3>1, NoneType DEF Busy, RaOK
    <3>3. CASE r = 0
      <4>1. t = w /\ w - 0 = w
        <5> HIDE DEF r, t, w
        <5> QED BY <1>2, <3>3
      <4>2. Position' = w
        BY <2>1, <3>2, <4>1 DEF Position
      <4>3. res'.ret = w
        BY <3>1, <3>3
      <4> HIDE DEF t, w
      <4> QED BY <1>1, <1>2, <2>1, <3>1, <3>2, <4>1, <4>2, <4>3, SeekAnswered
    <3>4. CASE r # 0
      <4>1. res'.ret = -1
        BY <3>1, <3>4
      <4> QED BY <1>1, <2>1, <3>1, <3>2, <4>1, SeekFailed
    <3> QED BY <3>3, <3>4
  <2> QED BY <1>3, <2>2, <2>3
<1>4. CASE /\ sf.curfd /\ (r = 0 \/ f + r >= 0) /\ Return(sf'.tot, <<>>)
           /\ sf' = [sf EXCEPT !.spos = @ + r, !.file = p + r, !.tot = @ + p + r - f]
  <2> DEFINE a == Bounds[c]
             m == SliceLen(c)
             q == p + r
  <2>1. /\ f = p /\ w = a + p /\ (c < NSlices => p <= m) /\ (r > 0 => c = NSlices)
        /\ a \in Nat /\ m \in Int
    <3>1. f = p /\ w = a + p /\ (c < NSlices => p <= m)
      BY <1>1, <1>4 DEF FInv, SfOK
    <3>2. r > 0 => c = NSlices
      BY <1>1, <1>4 DEF FInv, SkipOK
    <3>3. Bounds[sf.cur] \in Nat /\ Bounds[sf.cur + 1] \in Nat
      BY <1>1, SplitFacts
    <3> QED BY <3>1, <3>2, <3>3 DEF SliceLen
  <2>2. /\ q \in Nat /\ w + p + r - f = t /\ t = a + q /\ (c < NSlices => q <= m) /\ t - 0 = t
    <3> HIDE DEF r, t, f, p, w, c, a, m
    <3>1. q \in Nat
      BY <1>2, <1>4, <2>1
    <3>2. w + p + r - f = t /\ t = a + q /\ t - 0 = t
      BY <1>2, <2>1
    <3>3. c < NSlices => q <= m
      <4>1. c < NSlices => r <= 0
        BY <1>2, <2>1
      <4> QED BY <1>2, <2>1, <4>1
    <3> QED BY <3>1, <3>2, <3>3
  <2>3. sf' = [sf EXCEPT !.spos = q, !.file = q, !.tot = t]
    BY <1>4, <2>2
  <2> HIDE DEF q, t, a, m
  <2>4. sf' \in SfRec /\ sf'.spos = q /\ sf'.file = q /\ sf'.tot = t /\ sf'.cur = c
    BY <1>2, <2>2, <2>3 DEF SfRec
  <2>5. SfOK'
    BY <2>2, <2>4 DEF SfOK, a, m
  <2>6. Kept
    BY <1>1, <1>2, <2>4, <2>5 DEF Kept, ZOK, Zipped, FInv, FTypeOK
  <2>7. /\ call' = NoCall /\ res'.op = "lseek" /\ res'.target = t /\ res'.data = <<>>
        /\ res'.ret = t
    BY <1>1, <1>4, <2>4 DEF Return, t
  <2>8. ~Busy' /\ call' \in CallRec /\ RaOK' /\ io' = NoIo /\ ra' \in RaRec /\ ra'.len = 0
    BY <1>1, <2>7, NoneType DEF Busy, RaOK
  <2>9. FsPos' = t
    BY <1>1, <2>4 DEF FsPos, Zipped
  <2>10. Position' = t
    BY <2>2, <2>8, <2>9 DEF Position
  <2> QED BY <1>1, <1>2, <2>6, <2>7, <2>8, <2>10, SeekAnswered
<1>5. ASSUME Return(-1, <<>>), r # 0, NEW q, FailsAt(sf.spos, q), sf' = [sf EXCEPT !.spos = q]
      PROVE  FInv' /\ AStep
  <2>1. sf' = sf
    BY <1>2, <1>5, NotMoved DEF SfRec
  <2> QED BY <1>3, <1>5, <2>1
<1> QED BY <1>3, <1>4, <1>5 DEF SeekSlice

\* The decoder is at the beginning, with nothing in the buffer or with the
\* first units of the file.
LEMMA FreshDecoder ==
    ASSUME NEW k \in {"gzip", "bzip"}, NEW n \in Nat, NEW a \in Nat, n = DataOffset(k) + a,
           n <= rawlen', rawlen' \in 1 .. NData + 2,
           z' = [rawpos |-> n, avail |-> a, at |-> DataOffset(k), next |-> DataOffset(k),
                 pend |-> 0, total |-> 0, endseen |-> FALSE]
    PROVE  z' \in ZRec /\ ZOK' /\ z'.total = 0
<1>1. DataOffset(k) \in 0 .. 1 /\ NData \in Nat
  BY FilesAssumption DEF DataOffset
<1> DEFINE d == DataOffset(k)
<1>2. d \in Nat /\ d <= 1 /\ d = n - a /\ d <= NData + 1
  BY <1>1
<1> HIDE DEF d
<1>3. /\ z' = [rawpos |-> n, avail |-> a, at |-> d, next |-> d, pend |-> 0, total |-> 0, endseen |-> FALSE]
  BY DEF d
<1>4. /\ z' \in ZRec /\ z'.rawpos = n /\ z'.avail = a /\ z'.at = d /\ z'.next = d /\ z'.pend = 0
      /\ z'.total = 0 /\ z'.endseen = FALSE
  BY <1>2, <1>3 DEF ZRec
<1>5. Ratio * DataBefore(d) = 0 + 0
  <2>1. DataBefore(d) = 0 /\ Ratio \in Nat
    BY <1>2, DataBeforeIs, FilesAssumption
  <2>2. \A x \in Nat : x * 0 = 0 + 0
    OBVIOUS
  <2> QED BY <2>1, <2>2
<1>6. z'.total + z'.pend = Ratio * DataBefore(z'.next)
  BY <1>4, <1>5
<1>7. ZOK'
  BY <1>2, <1>4, <1>6 DEF ZOK, DataBefore
<1> QED BY <1>4, <1>7

\* A seek that does not end at once leaves the invariant true.
LEMMA SkipKeeps ==
    ASSUME kind \in {"gzip", "bzip", "split"}, kind \in Kinds, rawlen \in 1 .. NData + 2,
           io = NoIo, Kept, UNCHANGED io, ra' \in RaRec, ra'.len = 0,
           NEW op \in {"skip", "slice", "panic"}, NEW r \in Int, NEW t \in Nat,
           call' \in CallRec, call'.op = op, call'.target = t,
           call'.resid = r, res' = NoRes, op # "skip" => kind = "split",
           Zipped => op = "skip" /\ t >= z'.total,
           kind = "split" /\ op # "panic" => r = t - sf'.tot,
           op = "skip" => r >= 0,
           op = "slice" => r <= 0
    PROVE  FInv'
<1>2. /\ call'.op = op /\ call'.target = t /\ call'.resid = r
      /\ call' \in CallRec
  OBVIOUS
<1>4. kind' = kind /\ kind \in {"gzip", "bzip", "split"} /\ io' = NoIo /\ io'.for = "none"
      /\ Len(io'.got) = 0 /\ io'.got = <<>>
  BY NoneType DEF Kept
<1>3. FTypeOK'
  BY <1>2, <1>4, NoneType DEF FTypeOK, Kept
<1>5. StageOK'
  BY <1>2, <1>4 DEF StageOK, Busy, Zipped
<1>6. RaOK' /\ GotOK' /\ ReadOK'
  BY <1>2, <1>4 DEF RaOK, GotOK, ReadOK
<1>7. SkipOK'
  <2>1. r - 0 = r
    OBVIOUS
  <2>2. op = "slice" => ~(r > 0)
    OBVIOUS
  <2>3. Zipped' <=> Zipped
    BY <1>4 DEF Zipped
  <2>4. op \in {"skip", "slice"} /\ kind = "split" => r = t - sf'.tot
    OBVIOUS
  <2>5. call'.op = "skip" /\ Zipped' => call'.target >= z'.total
    BY <1>2, <2>3
  <2>6. call'.op = "skip" /\ kind' = "split" =>
          call'.resid - Len(io'.got) = call'.target - sf'.tot /\ call'.resid >= 0
    BY <1>2, <1>4, <2>1, <2>4, Zenon
  <2>7. call'.op = "slice" => call'.resid = call'.target - sf'.tot /\ ~(call'.resid > 0)
    BY <1>2, <2>2, <2>4, Zenon
  <2> QED BY <1>4, <2>5, <2>6, <2>7 DEF SkipOK
<1>8. Right'
  BY DEF NoRes, Right, ReadFull, SeekRight
<1> QED BY <1>3, <1>5, <1>6, <1>7, <1>8 DEF FInv, Kept

\* Such a seek keeps the invariant.
LEMMA SkipBegins ==
    ASSUME FInv, kind # "closed", ~Busy, Kept, UNCHANGED io, ra' \in RaRec, ra'.len = 0,
           NEW op \in {"skip", "slice", "panic"}, NEW r \in Int, NEW t \in Nat,
           call' \in CallRec, call'.op = op, call'.start = Position, call'.target = t,
           call'.resid = r, res' = NoRes, op # "skip" => kind = "split",
           Zipped => op = "skip" /\ t >= z'.total,
           kind = "split" /\ op # "panic" => r = t - sf'.tot,
           op = "skip" => r >= 0,
           op = "slice" => r <= 0,
           kind # "plain"
    PROVE  FInv' /\ AStep
<1>1. io.for = "none" /\ io = NoIo /\ Position \in Nat
  BY NotBusy, NoIoFacts
<1>2. /\ kind \in {"gzip", "bzip", "split"} /\ kind \in Kinds /\ rawlen \in 1 .. NData + 2
      /\ kind' = kind
  BY FilesAssumption DEF FInv, FTypeOK, Kept
<1>3. FInv'
  BY <1>1, <1>2, SkipKeeps
<1>4. AStep
  BY <1>2, CallBegins
<1> QED BY <1>3, <1>4

\* fo_seek() keeps the invariant, whatever the kind.
LEMMA SeekToStep ==
    ASSUME FInv, ~lost, ~lost', kind # "closed", ~Busy, NEW t \in Nat, NEW where \in Wheres,
           ra' = NoRa, SeekTo(t, where), UNCHANGED <<kind, io, sf, rawlen>>
    PROVE  FInv' /\ AStep
<1>1. /\ io.for = "none" /\ io = NoIo /\ Position \in Nat /\ FTypeOK /\ call \in CallRec
      /\ z \in ZRec /\ z.total \in Nat /\ sf.tot \in Nat /\ rawlen \in 1 .. NData + 2
      /\ fpos \in Nat /\ sf \in SfRec
  BY NotBusy, NoIoFacts, Fields DEF FInv, FTypeOK
<1>2. ra' \in RaRec /\ ra'.len = 0 /\ RaOK'
  BY NoneType DEF RaOK
<1>3. SfOK'
  BY DEF FInv, SfOK
<1>4. UNCHANGED z => ZOK'
  BY DEF FInv, ZOK, Zipped, DataBefore
<1>5. z' \in ZRec /\ ZOK' /\ fpos' \in Nat => Kept
  BY <1>1, <1>3 DEF Kept
<1>6. t - 0 = t
  OBVIOUS
<1>7. CASE /\ kind = "plain" /\ fpos' = t /\ UNCHANGED <<call, z>> /\ res' = Answered(t, t)
  <2>1. Kept
    BY <1>1, <1>4, <1>5, <1>7
  <2>2. res'.op = "lseek" /\ res'.ret = t /\ res'.target = t /\ res'.data = <<>>
    BY <1>7 DEF NoRes, Answered
  <2>3. FsPos' = t
    BY <1>7 DEF FsPos, Zipped
  <2>4. Position' = t /\ ~Busy'
    BY <1>2, <1>6, <1>7, <2>3 DEF Position, Busy
  <2> QED BY <1>1, <1>2, <1>7, <2>1, <2>2, <2>4, SeekAnswered
<1>8. CASE UNCHANGED <<call, z, fpos>> /\ res' = Answered(-1, t)
  <2>1. Kept
    BY <1>1, <1>4, <1>5, <1>8
  <2>2. res'.op = "lseek" /\ res'.ret = -1 /\ res'.data = <<>>
    BY <1>8 DEF NoRes, Answered
  <2> QED BY <1>1, <1>2, <1>8, <2>1, <2>2, SeekFailed DEF Busy
<1> DEFINE c == [NoCall EXCEPT !.op = "skip", !.start = Position, !.target = t]
<1>0. c \in CallRec /\ c.op = "skip" /\ c.start = Position /\ c.target = t /\ c.resid = 0
  <2> DEFINE p == Position
  <2>1. p \in Nat /\ c = [NoCall EXCEPT !.op = "skip", !.start = p, !.target = t]
    BY <1>1
  <2> HIDE DEF p, c
  <2>2. c \in CallRec
    BY <2>1, NoneType DEF CallRec
  <2>3. c.op = "skip" /\ c.start = p /\ c.target = t /\ c.resid = 0
    BY <2>1 DEF NoCall
  <2> QED BY <2>2, <2>3 DEF p
<1> HIDE DEF c
<1>9. CASE Zipped /\ call' = c /\ z' = (IF t < z.total THEN Rewound ELSE z)
           /\ res' = NoRes /\ UNCHANGED fpos
  <2>1. z' \in ZRec /\ ZOK' /\ t >= z'.total
    <3>1. CASE t < z.total
      <4>1. z' = [rawpos |-> DataOffset(kind), avail |-> 0, at |-> DataOffset(kind), next |-> DataOffset(kind),
                  pend |-> 0, total |-> 0, endseen |-> FALSE]
        BY <1>9, <3>1 DEF Rewound, FreshZ
      <4>2. /\ DataOffset(kind) \in Nat /\ DataOffset(kind) <= 1
            /\ DataOffset(kind) = DataOffset(kind) + 0
        BY DEF DataOffset
      <4>3. DataOffset(kind) <= rawlen' /\ rawlen' \in 1 .. NData + 2 /\ 0 \in Nat
        <5>1. NData \in Nat
          BY FilesAssumption
        <5> QED BY <1>1, <4>2, <5>1
      <4>4. kind \in {"gzip", "bzip"}
        BY <1>9 DEF Zipped
      <4>5. z' \in ZRec /\ ZOK' /\ z'.total = 0
        BY <4>1, <4>2, <4>3, <4>4, FreshDecoder
      <4> QED BY <4>5
    <3>2. CASE ~(t < z.total)
      <4>1. z' = z
        BY <1>9, <3>2
      <4> QED BY <1>1, <1>4, <3>2, <4>1
    <3> QED BY <3>1, <3>2
  <2>2. Kept
    BY <1>1, <1>5, <1>9, <2>1
  <2>3. /\ call' \in CallRec /\ call'.op = "skip" /\ call'.start = Position
        /\ call'.target = t /\ call'.resid = 0
    BY <1>0, <1>9
  <2>4. kind # "plain" /\ kind # "split" /\ 0 \in Int /\ 0 >= 0
    BY <1>9 DEF Zipped
  <2> QED BY <1>2, <1>9, <2>1, <2>2, <2>3, <2>4, SkipBegins
<1>10. CASE /\ kind = "split" /\ res' = NoRes /\ UNCHANGED <<z, fpos>>
            /\ call' = [c EXCEPT !.op = IF t > sf.tot THEN "skip" ELSE "slice", !.resid = t - sf.tot]
  <2> DEFINE op == IF t > sf.tot THEN "skip" ELSE "slice"
             r == t - sf.tot
  <2>1. Kept /\ ~Zipped /\ sf' = sf
    BY <1>1, <1>4, <1>5, <1>10 DEF Zipped
  <2>2. call' = [c EXCEPT !.op = op, !.resid = r]
    BY <1>10
  <2>3. /\ op \in {"skip", "slice"} /\ r \in Int /\ (op = "skip" => r >= 0)
        /\ (op = "slice" => r <= 0) /\ r = t - sf.tot
    BY <1>1
  <2> HIDE DEF op, r, c
  <2>4. /\ call' \in CallRec /\ call'.op = op /\ call'.start = Position /\ call'.target = t
        /\ call'.resid = r
    BY <1>0, <2>2, <2>3 DEF CallRec
  <2> QED BY <1>2, <1>10, <2>1, <2>3, <2>4, SkipBegins
<1>11. CASE /\ kind = "split" /\ res' = NoRes /\ UNCHANGED <<z, fpos>>
            /\ call' = [c EXCEPT !.op = "panic"]
  <2>1. Kept /\ ~Zipped
    BY <1>1, <1>4, <1>5, <1>11 DEF Zipped
  <2>2. /\ call' \in CallRec /\ call'.op = "panic" /\ call'.start = Position
        /\ call'.target = t /\ call'.resid = 0
    BY <1>0, <1>11 DEF CallRec
  <2>3. 0 \in Int
    OBVIOUS
  <2> QED BY <1>2, <1>11, <2>1, <2>2, <2>3, SkipBegins
<1>12. ASSUME NEW q, FailsAt(z.rawpos, q), z' = [z EXCEPT !.rawpos = q], res' = Answered(-1, t),
              UNCHANGED <<call, fpos>>
       PROVE  FInv' /\ AStep
  <2>1. z' = z
    BY <1>1, <1>12, NotMoved DEF ZRec
  <2> QED BY <1>8, <1>12, <2>1
<1>13. c = [NoCall EXCEPT !.op = "skip", !.start = Here, !.target = t]
  BY DEF c, Here
<1> QED BY <1>7, <1>8, <1>9, <1>10, <1>11, <1>12, <1>13 DEF SeekTo

\* lseek() keeps the invariant.
LEMMA LseekStep ==
    ASSUME FInv, ~lost, ~lost', NEW off \in - MaxSeek .. MaxSeek, NEW where \in Wheres, Lseek(off, where)
    PROVE  FInv' /\ AStep
<1> DEFINE t == Target(off, where)
<1>1. /\ kind # "closed" /\ ~Busy /\ t \in 0 .. MaxSeek /\ UNCHANGED <<kind, io, sf, rawlen>>
  BY DEF Lseek
<1>2. t \in Nat
  BY <1>1, FilesAssumption
<1>3. CASE InBuffer(off, where)
  <2> DEFINE d == t - Position
             p == Position
             f == FsPos
             l == ra.len
  <2>1. /\ ra' = [ra EXCEPT !.offset = @ + d, !.len = @ - d] /\ UNCHANGED <<call, fpos, z>>
        /\ res' = Answered(t, t)
    BY <1>3 DEF Lseek
  <2>2. io.for = "none" /\ io = NoIo /\ p \in Nat /\ p = f - l /\ f \in Nat /\ l \in Nat
        /\ call \in CallRec
    BY <1>1, NotBusy, NoIoFacts DEF FInv, FTypeOK
  <2>3. p <= t /\ t < f
    BY <1>3 DEF InBuffer
  <2>4. d \in Nat /\ d <= l /\ p + d = t
    <3> HIDE DEF p, f, l, t
    <3> QED BY <1>2, <2>2, <2>3 DEF p
  <2> HIDE DEF d
  <2>5. ra' \in RaRec /\ RaOK' /\ Position' = p + d
    BY <1>1, <2>1, <2>2, <2>4, Taken
  <2>6. Kept
    BY <1>1, <2>1, SameBooks
  <2>7. res'.op = "lseek" /\ res'.ret = t /\ res'.target = t /\ res'.data = <<>>
    <3> HIDE DEF t
    <3> QED BY <2>1 DEF NoRes, Answered
  <2>8. ~Busy' /\ call' \in CallRec /\ io' = NoIo
    BY <1>1, <2>1, <2>2 DEF Busy
  <2>9. Position' = t
    BY <2>4, <2>5
  <2> HIDE DEF t
  <2> QED BY <1>1, <1>2, <2>5, <2>6, <2>7, <2>8, <2>9, SeekAnswered
<1>4. CASE ~InBuffer(off, where)
  <2>1. ra' = NoRa /\ SeekTo(t, where)
    BY <1>4 DEF Lseek
  <2> HIDE DEF t
  <2> QED BY <1>1, <1>2, <2>1, SeekToStep
<1> QED BY <1>3, <1>4

-----------------------------------------------------------------------------
(* open() and close() *)

\* The state of a descriptor that is free.
LEMMA NewType == NoZ \in ZRec /\ NoSf \in SfRec /\ NoSf.cur = 1 /\ NoSf.spos = 0
                 /\ NoSf.file = 0 /\ NoSf.tot = 0
<1>1. 1 \in 1 .. NSlices
  <2>1. Len(Bounds) \in Nat /\ Len(Bounds) > 1
    BY FilesAssumption, LenProperties
  <2> QED BY <2>1 DEF NSlices
<1> QED BY <1>1 DEF NoZ, NoSf, ZRec, SfRec

\* A split file begins with its first slice.
LEMMA FirstSlice ==
    ASSUME sf' = NoSf
    PROVE  SfOK'
<1>1. Bounds[1] = 0 /\ Bounds[1] <= Bounds[1 + 1] /\ Bounds[1 + 1] \in Nat
  <2>1. Len(Bounds) \in Nat /\ Len(Bounds) > 1 /\ Bounds \in Seq(Nat)
    BY FilesAssumption, LenProperties
  <2>2. 1 \in 1 .. Len(Bounds) /\ 1 + 1 \in 1 .. Len(Bounds) /\ 1 <= 1 + 1
    BY <2>1
  <2>3. Bounds[1] <= Bounds[1 + 1]
    BY <2>2, FilesAssumption, Zenon
  <2>4. Bounds[1 + 1] \in Nat
    BY <2>1, <2>2, ElementOfSeq
  <2> QED BY <2>3, <2>4, FilesAssumption
<1>2. 0 = Bounds[1] + 0 /\ 0 <= SliceLen(1)
  BY <1>1 DEF SliceLen
<1> QED BY <1>2, NewType DEF SfOK

\* open() keeps the invariant.
LEMMA OpenStep ==
    ASSUME FInv, ~lost, ~lost', NEW k \in Kinds, Open(k)
    PROVE  FInv' /\ AStep
<1>1. /\ kind = "closed" /\ kind' = k /\ ra' = NoRa /\ fpos' = 0 /\ sf' = NoSf /\ res' = NoRes
      /\ UNCHANGED <<call, io>>
  BY DEF Open
<1>2. k \in {"plain", "gzip", "bzip", "split"}
  BY FilesAssumption
<1>3. ~Busy /\ io = NoIo /\ call \in CallRec
  <2>1. ~Busy
    BY <1>1 DEF FInv, StageOK
  <2> QED BY <2>1, NotBusy DEF FInv, FTypeOK
<1>4. PICK n \in RawLengths :
        /\ rawlen' = n
        /\ z' = IF k \in {"gzip", "bzip"} THEN FreshZ(k, Min({Zbufsize, n})) ELSE NoZ
  BY DEF Open
<1>5. n \in 1 .. NData + 2 /\ n \in Nat /\ n >= 1 /\ Zbufsize \in Nat /\ Zbufsize >= 1
  <2>1. n \in 1 .. NData + 2 /\ NData \in Nat /\ Zbufsize \in Nat \ {0}
    BY FilesAssumption
  <2> QED BY <2>1
<1>6. z' \in ZRec /\ ZOK' /\ z'.total = 0
  <2>1. CASE k \in {"gzip", "bzip"}
    <3> DEFINE m == Min({Zbufsize, n})
               d == DataOffset(k)
               a == m - d
    <3>1. m \in Nat /\ m >= 1 /\ m <= n
      <4>1. Zbufsize \in Int /\ n \in Int
        BY <1>5
      <4>2. m <= Zbufsize /\ m <= n /\ (m = Zbufsize \/ m = n)
        BY <4>1, MinTwo
      <4> HIDE DEF m
      <4> QED BY <1>5, <4>2
    <3>2. d \in Nat /\ d <= 1
      BY DEF DataOffset
    <3>3. z' = FreshZ(k, m)
      BY <1>4, <2>1
    <3> HIDE DEF m
    <3>4. z' = [rawpos |-> m, avail |-> a, at |-> d, next |-> d, pend |-> 0, total |-> 0,
                endseen |-> FALSE]
      BY <3>3 DEF FreshZ
    <3>5. a \in Nat /\ m = d + a
      <4> HIDE DEF d
      <4> QED BY <3>1, <3>2
    <3>6. m <= rawlen' /\ rawlen' \in 1 .. NData + 2
      BY <1>4, <1>5, <3>1
    <3> HIDE DEF a
    <3> QED BY <2>1, <3>1, <3>4, <3>5, <3>6, FreshDecoder
  <2>2. CASE k \notin {"gzip", "bzip"}
    <3>1. z' = NoZ
      BY <1>4, <2>2
    <3>2. ZOK'
      BY <1>1, <2>2 DEF ZOK, Zipped
    <3>3. NoZ.total = 0
      BY DEF NoZ
    <3> QED BY <3>1, <3>2, <3>3, NewType
  <2> QED BY <2>1, <2>2
<1>7. FTypeOK'
  BY <1>1, <1>3, <1>4, <1>5, <1>6, NoneType, NewType DEF FInv, FTypeOK
<1>8. SfOK'
  BY <1>1, FirstSlice
<1>9. RaOK' /\ Right'
  <2>1. RaOK'
    BY <1>1, NoneType DEF RaOK
  <2> QED BY <1>1, <2>1 DEF Right, ReadFull, SeekRight, NoRes
<1>10. ~Busy' /\ io' = NoIo
  BY <1>1, <1>3 DEF Busy
<1>11. FInv'
  BY <1>6, <1>7, <1>8, <1>9, <1>10, IdleNext
<1>12. Sure!Open
  <2>1. SurePos = -1
    BY <1>1 DEF SurePos
  <2>2. FsPos' = 0
    BY <1>1, <1>2, <1>6, NewType DEF FsPos, Zipped
  <2>3. SurePos' = 0
    BY <1>1, <1>2, <1>10, <2>2, NoneType DEF SurePos, Position
  <2>4. AbsRes' = Sure!NoRes
    BY <1>1 DEF AbsRes, NoRes, Sure!NoRes
  <2> QED BY <2>1, <2>3, <2>4 DEF Sure!Open
<1> QED BY <1>11, <1>12 DEF AStep, Sure!Next

\* The descriptor is free again, after close() or a panic.
LEMMA ClosedKeeps ==
    ASSUME kind' = "closed", ra' = NoRa, res' = NoRes, fpos' = 0, z' = NoZ, sf' = NoSf,
           rawlen' \in 1 .. NData + 2, call' \in CallRec, ~Busy', io' = NoIo
    PROVE  FInv'
<1>1. FTypeOK'
  BY NoneType, NewType DEF FTypeOK
<1>2. ZOK' /\ SfOK' /\ RaOK' /\ Right'
  <2>1. ZOK' /\ SfOK'
    BY DEF ZOK, SfOK, Zipped
  <2>2. RaOK'
    BY NoneType DEF RaOK
  <2> QED BY <2>1, <2>2 DEF Right, ReadFull, SeekRight, NoRes
<1> QED BY <1>1, <1>2, IdleNext

\* It was in use before.
LEMMA ClosedStep ==
    ASSUME FInv, kind # "closed", kind' = "closed", ra' = NoRa, res' = NoRes, fpos' = 0,
           z' = NoZ, sf' = NoSf, UNCHANGED rawlen, call' \in CallRec, ~Busy', io' = NoIo
    PROVE  FInv' /\ AStep
<1>1. rawlen' \in 1 .. NData + 2
  BY DEF FInv, FTypeOK
<1>2. FInv'
  BY <1>1, ClosedKeeps
<1>3. SurePos # -1 /\ SurePos' = -1 /\ AbsRes' = Sure!NoRes
  BY SurePosNat DEF SurePos, AbsRes, NoRes, Sure!NoRes
<1> QED BY <1>2, <1>3 DEF AStep, Sure!Next, Sure!Close

\* close() keeps the invariant.
LEMMA CloseStep ==
    ASSUME FInv, Close
    PROVE  FInv' /\ AStep
<1>1. call' \in CallRec /\ ~Busy' /\ io' = NoIo
  BY NotBusy DEF Close, FInv, FTypeOK, Busy
<1> QED BY <1>1, ClosedStep DEF Close

\* A new start after a panic keeps it, too.
LEMMA RebootStep ==
    ASSUME FInv, Reboot
    PROVE  FInv' /\ AStep
<1>1. kind = "split" /\ io = NoIo
  BY DEF Reboot, FInv, StageOK
<1>2. call' \in CallRec /\ ~Busy' /\ io' = NoIo
  BY <1>1, NoneType DEF Reboot, Busy
<1> QED BY <1>1, <1>2, ClosedStep DEF Reboot

-----------------------------------------------------------------------------
(* While the position is known *)

\* The invariant holds when the loader starts.
LEMMA FInvInit ==
    ASSUME Init
    PROVE  FInv /\ Sure!Init
<1>1. FTypeOK
  <2>1. NData \in Nat
    BY FilesAssumption
  <2>2. rawlen \in 1 .. NData + 2
    BY <2>1 DEF Init
  <2> QED BY <2>2, NoneType, NewType DEF Init, FTypeOK
<1>2. ZOK /\ SfOK
  BY DEF Init, ZOK, SfOK, Zipped
<1>3. RaOK /\ GotOK /\ ReadOK /\ SkipOK /\ StageOK
  BY NoneType DEF Init, RaOK, GotOK, ReadOK, SkipOK, StageOK, Busy
<1>4. Right
  BY DEF Init, Right, ReadFull, SeekRight, NoRes
<1>5. Sure!Init
  BY DEF Init, Sure!Init, Sure!NoRes, SurePos, AbsRes, NoRes
<1> QED BY <1>1, <1>2, <1>3, <1>4, <1>5 DEF FInv

\* Every step of a file whose position is known, and stays so, keeps the
\* invariant and is one of FileSpec or none.
LEMMA FInvNext ==
    ASSUME FInv, ~lost, ~lost', [Next]_vars
    PROVE  FInv' /\ AStep
<1>1. ASSUME NEW k \in Kinds, Open(k) PROVE FInv' /\ AStep
  BY <1>1, OpenStep
<1>2. CASE Close
  BY <1>2, CloseStep
<1>3. CASE Reboot
  BY <1>3, RebootStep
<1>4. ASSUME NEW n \in 1 .. MaxRead, Read(n) PROVE FInv' /\ AStep
  BY <1>4, ReadStep
<1>5. ASSUME NEW off \in - MaxSeek .. MaxSeek, NEW where \in Wheres, Lseek(off, where)
      PROVE  FInv' /\ AStep
  BY <1>5, LseekStep
<1>6. CASE ReadLoop
  BY <1>6, ReadLoopStep
<1>7. CASE PlainRead
  BY <1>7, PlainStep
<1>8. CASE ZDone
  BY <1>8, ZDoneStep
<1>9. CASE ZFill
  BY <1>9, ZFillStep
<1>10. CASE Inflate
  BY <1>10, InflateStep
<1>11. CASE SplitRead
  BY <1>11, SplitStep
<1>12. CASE SkipLoop
  BY <1>12, SkipLoopStep
<1>13. CASE SeekSlice
  BY <1>13, SeekSliceStep
<1>14. CASE UNCHANGED vars
  <2>1. UNCHANGED <<kind, ra, call, io, fpos, z, sf, rawlen, res>>
    BY <1>14 DEF vars
  <2>2. FTypeOK' /\ ZOK' /\ SfOK'
    BY <2>1 DEF FInv, FTypeOK, ZOK, SfOK, Zipped, DataBefore
  <2>3. StageOK' /\ SkipOK'
    BY <2>1 DEF FInv, StageOK, SkipOK, Busy, Zipped
  <2>4. FsPos' = FsPos /\ Position' = Position
    BY <2>1 DEF FsPos, Position, Zipped
  <2>5. RaOK' /\ GotOK' /\ ReadOK'
    BY <2>1, <2>4 DEF FInv, RaOK, GotOK, ReadOK
  <2>6. Right'
    BY <2>1 DEF FInv, Right, ReadFull, SeekRight
  <2>7. UNCHANGED <<SurePos, AbsRes>>
    BY <2>1, <2>4 DEF SurePos, AbsRes, Busy
  <2> QED BY <2>2, <2>3, <2>5, <2>6, <2>7 DEF FInv, AStep
<1> QED BY <1>1, <1>2, <1>3, <1>4, <1>5, <1>6, <1>7, <1>8, <1>9, <1>10, <1>11, <1>12, <1>13,
           <1>14 DEF Next, Step

-----------------------------------------------------------------------------
(* While the position is lost *)

\* What is left of the invariant: enough to begin again.
LostOK ==
    /\ kind \in {"gzip", "bzip", "split"} /\ kind \in Kinds /\ rawlen \in 1 .. NData + 2
    /\ fpos \in Nat /\ (Zipped => sf \in SfRec)
    /\ "op" \in DOMAIN call /\ "for" \in DOMAIN io
    /\ call.op = "none" => call \in CallRec
    /\ call.op = "slice" => kind = "split"
    /\ call.op \in {"none", "slice", "panic"} => io.for = "none"
    /\ io.for = "none" => io = NoIo

GInv == lost \in BOOLEAN /\ (IF lost THEN LostOK ELSE FInv)

\* The records have the parts that LostOK speaks of.
LEMMA RecordParts ==
    /\ \A c \in CallRec : "op" \in DOMAIN c
    /\ "op" \in DOMAIN NoCall /\ "for" \in DOMAIN NoIo
    /\ \A i \in IoRec : "for" \in DOMAIN i
BY DEF CallRec, IoRec, NoCall, NoIo

\* It is left when the position is lost.
LEMMA LostFrom ==
    ASSUME FInv, kind \notin {"closed", "plain"}, UNCHANGED <<kind, fpos, rawlen>>,
           Zipped => UNCHANGED sf, call' \in CallRec, call'.op = "none", io' = NoIo
    PROVE  LostOK'
<1>1. kind \in {"gzip", "bzip", "split"} /\ kind \in Kinds
  BY FilesAssumption DEF FInv, FTypeOK
<1>2. /\ rawlen' \in 1 .. NData + 2 /\ fpos' \in Nat /\ (Zipped' => sf' \in SfRec)
  BY DEF FInv, FTypeOK, Zipped
<1>3. "op" \in DOMAIN call' /\ "for" \in DOMAIN io' /\ io'.for = "none"
  BY RecordParts, NoneType
<1> QED BY <1>1, <1>2, <1>3 DEF LostOK

\* Only a failure loses the position, of a file that is made of another one.
LEMMA Lose ==
    ASSUME FInv, ~lost, lost', [Next]_vars
    PROVE  LostOK' /\ Abstract!Fail
<1> DEFINE Failed == AbsRes'.ret = -1 /\ AbsRes'.data = <<>> /\ AbsRes'.op \in {"read", "lseek"}
<1>1. ASSUME FoFail
      PROVE  Failed /\ call' = NoCall /\ io' = NoIo
  BY <1>1 DEF FoFail, Return, AbsRes
<1>2. ASSUME kind \notin {"closed", "plain"}, UNCHANGED <<kind, fpos, rawlen>>,
             Zipped => UNCHANGED sf, call' \in CallRec, call'.op = "none", io' = NoIo, Failed
      PROVE  LostOK' /\ Abstract!Fail
  <2>1. LostOK'
    BY <1>2, LostFrom
  <2>2. AbsPos \in Nat /\ AbsPos' = Abstract!Lost
    BY <1>2, SurePosNat DEF AbsPos, Abstract!Lost
  <2>3. AbsRes' = [op |-> AbsRes'.op, ret |-> -1, data |-> <<>>]
    BY <1>2 DEF AbsRes
  <2> QED BY <1>2, <2>1, <2>2, <2>3 DEF Abstract!Fail
<1>3. CASE ZFill
  <2>1. FoFail /\ Zipped /\ UNCHANGED <<kind, fpos, sf, rawlen>>
    BY <1>3 DEF ZFill, ZReading
  <2>2. kind \notin {"closed", "plain"}
    BY <2>1 DEF Zipped
  <2> QED BY <1>1, <1>2, <2>1, <2>2, NoneType
<1>4. CASE SplitRead
  <2>1. FoFail /\ kind = "split" /\ UNCHANGED <<kind, fpos, rawlen>>
    BY <1>4 DEF SplitRead
  <2>2. ~Zipped
    BY <2>1 DEF Zipped
  <2> QED BY <1>1, <1>2, <2>1, <2>2, NoneType
<1>5. CASE SeekSlice
  <2>1. /\ Return(-1, <<>>) /\ call.op = "slice" /\ UNCHANGED <<kind, io, fpos, rawlen>>
    BY <1>5 DEF SeekSlice
  <2>2. kind = "split" /\ io = NoIo
    BY <2>1 DEF FInv, StageOK
  <2>3. Failed /\ call' = NoCall /\ ~Zipped
    BY <2>1, <2>2 DEF Return, AbsRes, Zipped
  <2> QED BY <1>2, <2>1, <2>2, <2>3, NoneType
<1>6. ASSUME NEW off \in - MaxSeek .. MaxSeek, NEW where \in Wheres, Lseek(off, where)
      PROVE  LostOK' /\ Abstract!Fail
  <2> DEFINE t == Target(off, where)
  <2>1. /\ Zipped /\ res' = Answered(-1, t) /\ UNCHANGED <<call, fpos, kind, io, sf, rawlen>>
        /\ ~Busy
    BY <1>6 DEF Lseek, SeekTo
  <2>2. call \in CallRec /\ call.op = "none" /\ io = NoIo
    BY <2>1, NotBusy, NoIoFacts DEF FInv, FTypeOK, Busy
  <2>3. Failed /\ kind \notin {"closed", "plain"}
    BY <2>1 DEF Answered, NoRes, AbsRes, Zipped
  <2> QED BY <1>2, <2>1, <2>2, <2>3
<1>7. ASSUME UNCHANGED lost PROVE FALSE
  BY <1>7
<1>8. \/ ZFill \/ SplitRead \/ SeekSlice
      \/ \E off \in - MaxSeek .. MaxSeek, where \in Wheres : Lseek(off, where)
  <2>1. ASSUME NEW k \in Kinds, Open(k) PROVE FALSE
    BY <2>1 DEF Open
  <2>2. ~Close /\ ~Reboot
    BY DEF Close, Reboot
  <2>3. ASSUME NEW n \in 1 .. MaxRead, Read(n) PROVE FALSE
    BY <2>3 DEF Read
  <2>4. ~ReadLoop /\ ~PlainRead /\ ~ZDone /\ ~Inflate /\ ~SkipLoop
    BY DEF ReadLoop, PlainRead, ZDone, Inflate, SkipLoop
  <2>5. ~UNCHANGED vars
    BY DEF vars
  <2> QED BY <2>1, <2>2, <2>3, <2>4, <2>5 DEF Next, Step
<1> QED BY <1>3, <1>4, <1>5, <1>6, <1>8

\* The descriptor is free again, or the decoder begins the file again.
LEMMA Find ==
    ASSUME LostOK, lost, ~lost', [Next]_vars
    PROVE  FInv' /\ Abstract!Next
<1>1. AbsPos = Abstract!Lost /\ AbsPos' = SurePos' /\ Abstract!Lost # -1
  BY DEF AbsPos, Abstract!Lost
<1>2. ASSUME kind' = "closed", ra' = NoRa, res' = NoRes, fpos' = 0, z' = NoZ, sf' = NoSf,
             UNCHANGED rawlen, call' \in CallRec, ~Busy', io' = NoIo
      PROVE  FInv' /\ Abstract!Next
  <2>1. rawlen' \in 1 .. NData + 2
    BY <1>2 DEF LostOK
  <2>2. FInv'
    BY <1>2, <2>1, ClosedKeeps
  <2>3. SurePos' = -1 /\ AbsRes' = Abstract!NoRes
    BY <1>2 DEF SurePos, AbsRes, NoRes, Abstract!NoRes
  <2> QED BY <1>1, <2>2, <2>3 DEF Abstract!Next, Abstract!Close
<1>3. CASE Close
  <2>1. call' \in CallRec /\ ~Busy' /\ io' = NoIo
    BY <1>3 DEF Close, LostOK, Busy
  <2> QED BY <1>2, <1>3, <2>1 DEF Close
<1>4. CASE Reboot
  <2>1. call' \in CallRec /\ ~Busy' /\ io' = NoIo
    BY <1>4, NoneType DEF Reboot, LostOK, Busy
  <2> QED BY <1>2, <1>4, <2>1 DEF Reboot
<1>5. ASSUME NEW off \in - MaxSeek .. MaxSeek, NEW where \in Wheres, Lseek(off, where)
      PROVE  FInv' /\ Abstract!Next
  <2> DEFINE t == Target(off, where)
             c == [NoCall EXCEPT !.op = "skip", !.start = Here, !.target = t]
  <2>1. t \in Nat
    BY <1>5, FilesAssumption DEF Lseek
  <2>2. /\ Zipped /\ z' = Rewound /\ call' = c /\ res' = NoRes /\ ra' = NoRa
        /\ UNCHANGED <<kind, io, sf, rawlen, fpos>> /\ ~Busy
    BY <1>5 DEF Lseek, SeekTo, FailsAt
  <2>3. Here = 0
    BY DEF Here
  <2> HIDE DEF t
  <2>4. /\ call' \in CallRec /\ call'.op = "skip" /\ call'.start = 0 /\ call'.target = t
        /\ call'.resid = 0
    <3>1. call' = [NoCall EXCEPT !.op = "skip", !.start = 0, !.target = t]
      BY <2>2, <2>3
    <3> HIDE DEF c
    <3>2. call' \in CallRec
      BY <2>1, <3>1, NoneType DEF CallRec
    <3>3. call'.op = "skip" /\ call'.start = 0 /\ call'.target = t /\ call'.resid = 0
      BY <3>1 DEF NoCall
    <3> QED BY <3>2, <3>3
  <2>5. /\ kind \in {"gzip", "bzip"} /\ kind \in Kinds /\ rawlen \in 1 .. NData + 2
        /\ io = NoIo /\ fpos \in Nat /\ sf \in SfRec
    BY <2>2 DEF LostOK, Zipped, Busy
  <2>6. z' \in ZRec /\ ZOK' /\ z'.total = 0
    <3>1. z' = [rawpos |-> DataOffset(kind), avail |-> 0, at |-> DataOffset(kind),
                next |-> DataOffset(kind), pend |-> 0, total |-> 0, endseen |-> FALSE]
      BY <2>2 DEF Rewound, FreshZ
    <3>2. /\ DataOffset(kind) \in Nat /\ DataOffset(kind) <= 1
          /\ DataOffset(kind) = DataOffset(kind) + 0
      BY DEF DataOffset
    <3>3. DataOffset(kind) <= rawlen' /\ rawlen' \in 1 .. NData + 2 /\ 0 \in Nat
      <4>1. NData \in Nat
        BY FilesAssumption
      <4> QED BY <2>2, <2>5, <3>2, <4>1
    <3> QED BY <2>2, <2>5, <3>1, <3>2, <3>3, FreshDecoder
  <2>7. Kept
    BY <2>2, <2>5, <2>6 DEF Kept, SfOK
  <2>8. FInv'
    <3>1. kind \in {"gzip", "bzip", "split"} /\ kind # "split" /\ 0 \in Int /\ t >= 0
      BY <2>1, <2>5
    <3> QED BY <2>1, <2>2, <2>4, <2>5, <2>6, <2>7, <3>1, NoneType, SkipKeeps
  <2>9. SurePos' = 0 /\ AbsRes' = Abstract!NoRes
    BY <2>2, <2>4, <2>5 DEF SurePos, Busy, AbsRes, NoRes, Abstract!NoRes
  <2> QED BY <1>1, <2>8, <2>9 DEF Abstract!Next, Abstract!Regain
<1>6. \/ Close \/ Reboot
      \/ \E off \in - MaxSeek .. MaxSeek, where \in Wheres : Lseek(off, where)
  <2>1. ASSUME NEW k \in Kinds, Open(k) PROVE FALSE
    BY <2>1 DEF Open
  <2>2. ASSUME NEW n \in 1 .. MaxRead, Read(n) PROVE FALSE
    BY <2>2 DEF Read
  <2>3. ~ReadLoop /\ ~PlainRead /\ ~ZDone /\ ~Inflate /\ ~SkipLoop
    BY DEF ReadLoop, PlainRead, ZDone, Inflate, SkipLoop
  <2>4. ~ZFill /\ ~SplitRead /\ ~SeekSlice
    BY DEF ZFill, SplitRead, SeekSlice, FailsAt
  <2>5. ~UNCHANGED vars
    BY DEF vars
  <2> QED BY <2>1, <2>2, <2>3, <2>4, <2>5 DEF Next, Step
<1> QED BY <1>3, <1>4, <1>5, <1>6

\* A step in between changes little that LostOK speaks of.
LEMMA LostStep ==
    ASSUME LostOK, UNCHANGED <<kind, rawlen, fpos>>, Zipped => UNCHANGED sf,
           "op" \in DOMAIN call', "for" \in DOMAIN io', call'.op = "none" => call' \in CallRec,
           call'.op = "slice" => kind = "split",
           call'.op \in {"none", "slice", "panic"} => io'.for = "none",
           io'.for = "none" => io' = NoIo
    PROVE  LostOK'
<1>1. /\ kind' \in {"gzip", "bzip", "split"} /\ kind' \in Kinds /\ rawlen' \in 1 .. NData + 2
      /\ fpos' \in Nat
  BY DEF LostOK
<1>2. Zipped' => sf' \in SfRec
  BY DEF LostOK, Zipped
<1> QED BY <1>1, <1>2 DEF LostOK

\* A fo_read() that returns, or fails, leaves none.
LEMMA LostReturn ==
    ASSUME LostOK, io.for # "none", FoFail \/ \E got : FoReturn(got)
    PROVE  /\ "op" \in DOMAIN call' /\ "for" \in DOMAIN io' /\ io' = NoIo /\ io'.for = "none"
           /\ call'.op = "none" => call' \in CallRec
           /\ call'.op = "slice" => kind = "split"
<1>1. io' = NoIo /\ io'.for = "none" /\ "for" \in DOMAIN io'
  BY NoneType, RecordParts DEF FoFail, FoReturn
<1>2. call.op \notin {"none", "slice", "panic"} /\ "op" \in DOMAIN call
  BY DEF LostOK
<1>3. CASE call' = NoCall
  BY <1>1, <1>3, NoneType, RecordParts
<1>4. CASE call' = call
  BY <1>1, <1>2, <1>4
<1>5. ASSUME NEW n, Skipped(n)
      PROVE  "op" \in DOMAIN call' /\ call'.op # "none" /\ (call'.op = "slice" => kind = "split")
  <2> DEFINE r == IF kind = "split" THEN call.resid - n ELSE call.resid
             o == IF kind = "split" /\ n = 0 THEN "slice" ELSE call.op
  <2>1. call' = [call EXCEPT !.resid = r, !.op = o]
    BY <1>5 DEF Skipped
  <2>2. o # "none" /\ (o = "slice" => kind = "split")
    BY <1>2
  <2> HIDE DEF r, o
  <2> QED BY <1>2, <2>1, <2>2
<1>6. \/ call' = NoCall \/ call' = call \/ \E n : Skipped(n)
  BY DEF FoFail, FoReturn, Return
<1> QED BY <1>1, <1>3, <1>4, <1>5, <1>6

\* While the position is lost, it is.
LEMMA LostNext ==
    ASSUME LostOK, lost, lost', [Next]_vars
    PROVE  LostOK'
<1> USE DEF Zipped
<1>1. ASSUME NEW k \in Kinds, Open(k) PROVE LostOK'
  BY <1>1 DEF Open, LostOK
<1>2. ~Close /\ ~Reboot /\ ~PlainRead
  BY DEF Close, Reboot, PlainRead, LostOK
<1>3. ASSUME NEW n \in 1 .. MaxRead, Read(n) PROVE LostOK'
  <2>1. call'.op = "read" /\ "op" \in DOMAIN call'
    BY <1>3 DEF Read, NoCall
  <2>2. UNCHANGED <<kind, rawlen, fpos, sf, io>>
    BY <1>3 DEF Read
  <2> QED BY <2>1, <2>2, LostStep DEF LostOK
<1>4. ASSUME NEW off \in - MaxSeek .. MaxSeek, NEW where \in Wheres, Lseek(off, where)
      PROVE  LostOK'
  <2> DEFINE t == Target(off, where)
             c == [NoCall EXCEPT !.op = "skip", !.start = Here, !.target = t]
  <2>1. /\ UNCHANGED <<kind, rawlen, fpos, sf, io>> /\ call.op = "none"
        /\ \/ UNCHANGED call
           \/ call' = c
           \/ /\ kind = "split"
              /\ call' = [c EXCEPT !.op = IF t > sf.tot THEN "skip" ELSE "slice", !.resid = t - sf.tot]
           \/ call' = [c EXCEPT !.op = "panic"]
    <3>1. kind # "plain"
      BY DEF LostOK
    <3>2. CASE InBuffer(off, where)
      BY <1>4, <3>2 DEF Lseek, Busy
    <3>3. CASE ~InBuffer(off, where)
      BY <1>4, <3>1, <3>3 DEF Lseek, SeekTo, Busy
    <3> QED BY <3>2, <3>3
  <2>2. io = NoIo /\ io'.for = "none" /\ "for" \in DOMAIN io'
    BY <2>1 DEF LostOK
  <2>3. /\ "op" \in DOMAIN call' /\ (UNCHANGED call \/ call'.op # "none")
        /\ call'.op = "slice" => kind = "split"
    <3> HIDE DEF t
    <3>1. "op" \in DOMAIN c /\ c.op = "skip"
      BY DEF NoCall
    <3> HIDE DEF c
    <3> DEFINE o == IF t > sf.tot THEN "skip" ELSE "slice"
    <3>2. o # "none"
      OBVIOUS
    <3>3. CASE kind = "split" /\ call' = [c EXCEPT !.op = o, !.resid = t - sf.tot]
      <4> HIDE DEF o
      <4> QED BY <3>1, <3>2, <3>3
    <3>4. CASE call' = [c EXCEPT !.op = "panic"]
      BY <3>1, <3>4
    <3> QED BY <2>1, <3>1, <3>3, <3>4 DEF LostOK
  <2> QED BY <2>1, <2>2, <2>3, LostStep DEF LostOK
<1>5. CASE ReadLoop
  <2>1. UNCHANGED <<kind, rawlen, fpos, sf>> /\ call.op = "read" /\ io = NoIo /\ "op" \in DOMAIN call
    BY <1>5 DEF ReadLoop, LostOK
  <2>2. CASE call' = NoCall /\ UNCHANGED io
    <3>1. "op" \in DOMAIN call' /\ "for" \in DOMAIN io' /\ call' \in CallRec /\ io' = NoIo
          /\ io'.for = "none" /\ call'.op = "none"
      BY <2>1, <2>2, NoneType, RecordParts
    <3> QED BY <2>1, <3>1, LostStep
  <2>3. ASSUME NEW resid, NEW dest, call' = [call EXCEPT !.resid = resid, !.dest = dest],
               \E size : \/ io' = [for |-> "bypass", size |-> size, got |-> <<>>]
                         \/ io' = [for |-> "refill", size |-> size, got |-> <<>>]
        PROVE  LostOK'
    <3>1. "op" \in DOMAIN call' /\ call'.op = "read"
      BY <2>1, <2>3
    <3>2. "for" \in DOMAIN io' /\ io'.for # "none"
      BY <2>3
    <3> QED BY <2>1, <3>1, <3>2, LostStep
  <2>4. \/ call' = NoCall /\ UNCHANGED io
        \/ \E resid, dest : /\ call' = [call EXCEPT !.resid = resid, !.dest = dest]
                            /\ \E size : \/ io' = [for |-> "bypass", size |-> size, got |-> <<>>]
                                         \/ io' = [for |-> "refill", size |-> size, got |-> <<>>]
    <3> DEFINE k == Min({ra.len, call.resid})
               dest == call.dest \o Copied(k)
               resid == call.resid - k
    <3>1. \/ Return(call.n, dest) /\ UNCHANGED io
          \/ /\ call' = [call EXCEPT !.resid = resid, !.dest = dest]
             /\ io' = IF resid >= Rasize
                      THEN [for |-> "bypass", size |-> resid, got |-> <<>>]
                      ELSE [for |-> "refill", size |-> Rasize, got |-> <<>>]
      BY <1>5 DEF ReadLoop
    <3> HIDE DEF resid, dest
    <3> QED BY <3>1 DEF Return
  <2> QED BY <2>2, <2>3, <2>4
<1>6. CASE ZDone
  <2>1. UNCHANGED <<kind, rawlen, fpos, sf>> /\ io.for # "none" /\ FoReturn(io.got)
    BY <1>6 DEF ZDone, ZReading
  <2> QED BY <2>1, LostReturn, LostStep
<1>7. CASE ZFill
  <2>1. UNCHANGED <<kind, rawlen, fpos, sf>> /\ io.for # "none"
    BY <1>7 DEF ZFill, ZReading
  <2>2. \/ UNCHANGED <<call, io>> \/ FoFail \/ FoReturn(io.got)
    BY <1>7 DEF ZFill
  <2>3. CASE UNCHANGED <<call, io>>
    BY <2>1, <2>3, LostStep DEF LostOK
  <2> QED BY <2>1, <2>2, <2>3, LostReturn, LostStep
<1>8. CASE Inflate
  <2>1. UNCHANGED <<kind, rawlen, fpos, sf>> /\ io.for # "none"
    BY <1>8 DEF Inflate, ZReading
  <2>2. FoFail \/ (UNCHANGED call /\ \E got : io' = [io EXCEPT !.got = got])
    BY <1>8 DEF Inflate
  <2>3. ASSUME NEW got, UNCHANGED call, io' = [io EXCEPT !.got = got]
        PROVE  LostOK'
    <3>1. "for" \in DOMAIN io' /\ io'.for = io.for
      BY <2>3 DEF LostOK
    <3> QED BY <2>1, <2>3, <3>1, LostStep DEF LostOK
  <2> QED BY <2>1, <2>2, <2>3, LostReturn, LostStep
<1>9. CASE SplitRead
  <2>1. UNCHANGED <<kind, rawlen, fpos>> /\ io.for # "none" /\ ~Zipped
    BY <1>9 DEF SplitRead
  <2>2. \/ FoFail \/ (\E got : FoReturn(got))
        \/ UNCHANGED call /\ \E got : io' = [io EXCEPT !.got = got]
    BY <1>9 DEF SplitRead
  <2>3. ASSUME NEW got, UNCHANGED call, io' = [io EXCEPT !.got = got]
        PROVE  LostOK'
    <3>1. "for" \in DOMAIN io' /\ io'.for = io.for
      BY <2>3 DEF LostOK
    <3> QED BY <2>1, <2>3, <3>1, LostStep DEF LostOK
  <2> QED BY <2>1, <2>2, <2>3, LostReturn, LostStep
<1>10. CASE SkipLoop
  <2>1. UNCHANGED <<kind, rawlen, fpos, sf>> /\ call.op = "skip" /\ io = NoIo
    BY <1>10 DEF SkipLoop, LostOK
  <2>2. CASE UNCHANGED call /\ \E size : io' = [for |-> "skip", got |-> <<>>, size |-> size]
    <3>1. "for" \in DOMAIN io' /\ io'.for = "skip"
      BY <2>2
    <3> QED BY <2>1, <2>2, <3>1, LostStep DEF LostOK
  <2>3. CASE call' = NoCall /\ UNCHANGED io
    <3>1. "op" \in DOMAIN call' /\ "for" \in DOMAIN io' /\ call' \in CallRec /\ io' = NoIo
          /\ io'.for = "none" /\ call'.op = "none"
      BY <2>1, <2>3, NoneType, RecordParts
    <3> QED BY <2>1, <3>1, LostStep
  <2> QED BY <1>10, <2>2, <2>3 DEF SkipLoop, Return
<1>11. CASE SeekSlice
  <2>1. UNCHANGED <<kind, rawlen, fpos, io>> /\ call.op = "slice" /\ kind = "split" /\ io = NoIo
    BY <1>11 DEF SeekSlice, LostOK
  <2>2. call' = NoCall \/ call' = [call EXCEPT !.op = "panic"]
    BY <1>11 DEF SeekSlice, Return
  <2>3. /\ "op" \in DOMAIN call' /\ "for" \in DOMAIN io' /\ io' = NoIo /\ io'.for = "none"
        /\ call'.op # "slice" /\ (call'.op = "none" => call' \in CallRec)
    <3>1. "op" \in DOMAIN call
      BY DEF LostOK
    <3> QED BY <2>1, <2>2, <3>1, NoneType, RecordParts
  <2>4. ~Zipped
    BY <2>1
  <2> QED BY <2>1, <2>3, <2>4, LostStep
<1>12. CASE UNCHANGED vars
  BY <1>12, LostStep DEF vars, LostOK
<1> QED BY <1>1, <1>2, <1>3, <1>4, <1>5, <1>6, <1>7, <1>8, <1>9, <1>10, <1>11, <1>12 DEF Next, Step

-----------------------------------------------------------------------------
(* The theorems *)

\* The two invariants together: every step keeps them and is one of FileSpec or
\* none.
LEMMA GInvNext ==
    ASSUME GInv, [Next]_vars
    PROVE  GInv' /\ (Abstract!Next \/ UNCHANGED <<AbsPos, AbsRes>>)
<1>1. lost' \in BOOLEAN
  <2>1. ASSUME NEW k \in Kinds, Open(k) PROVE UNCHANGED lost
    BY <2>1 DEF Open
  <2>2. ASSUME NEW n \in 1 .. MaxRead, Read(n) PROVE UNCHANGED lost
    BY <2>2 DEF Read
  <2>3. ASSUME NEW off \in - MaxSeek .. MaxSeek, NEW where \in Wheres, Lseek(off, where)
        PROVE  lost' = lost \/ lost' \in BOOLEAN
    BY <2>3 DEF Lseek, SeekTo, FailsAt
  <2>4. Close \/ Reboot => lost' = FALSE
    BY DEF Close, Reboot
  <2>5. ReadLoop \/ PlainRead \/ ZDone \/ Inflate \/ SkipLoop => UNCHANGED lost
    BY DEF ReadLoop, PlainRead, ZDone, Inflate, SkipLoop
  <2>6. ZFill \/ SplitRead \/ SeekSlice => UNCHANGED lost \/ lost' \in BOOLEAN
    BY DEF ZFill, SplitRead, SeekSlice, FailsAt
  <2>7. UNCHANGED vars => UNCHANGED lost
    BY DEF vars
  <2> QED BY <2>1, <2>2, <2>3, <2>4, <2>5, <2>6, <2>7 DEF GInv, Next, Step
<1>2. CASE lost /\ lost'
  <2>1. LostOK'
    BY <1>2, LostNext DEF GInv
  <2>2. Abstract!Astray
    BY <1>2 DEF Abstract!Astray, AbsPos, Abstract!Lost
  <2> QED BY <1>1, <1>2, <2>1, <2>2 DEF GInv, Abstract!Next
<1>3. CASE lost /\ ~lost'
  BY <1>1, <1>3, Find DEF GInv
<1>4. CASE ~lost /\ lost'
  BY <1>1, <1>4, Lose DEF GInv, Abstract!Next
<1>5. CASE ~lost /\ ~lost'
  <2>1. FInv' /\ AStep
    BY <1>5, FInvNext DEF GInv
  <2>2. AbsPos = SurePos /\ AbsPos' = SurePos'
    BY <1>5 DEF AbsPos
  <2>3. Abstract!Next \/ UNCHANGED <<AbsPos, AbsRes>>
    BY <2>1, <2>2 DEF AStep, Sure!Next, Sure!Open, Sure!Close, Sure!Call, Sure!Read, Sure!Seek,
       Sure!Fail, Sure!Astray, Sure!Regain, Sure!NoRes, Sure!Lost, Sure!Bytes,
       Abstract!Next, Abstract!Open, Abstract!Close, Abstract!Call, Abstract!Read,
       Abstract!Seek, Abstract!Fail, Abstract!Astray, Abstract!Regain, Abstract!NoRes,
       Abstract!Lost, Abstract!Bytes
  <2> QED BY <1>1, <1>5, <2>1, <2>3 DEF GInv
<1> QED BY <1>2, <1>3, <1>4, <1>5

\* They hold when the loader starts.
LEMMA GInvInit ==
    ASSUME Init
    PROVE  GInv /\ Abstract!Init
<1>1. FInv /\ Sure!Init /\ ~lost /\ lost = FALSE
  BY FInvInit DEF Init
<1>2. GInv
  BY <1>1 DEF GInv
<1>3. AbsPos = SurePos
  BY <1>1 DEF AbsPos
<1> QED BY <1>1, <1>2, <1>3 DEF Sure!Init, Abstract!Init, Sure!NoRes, Abstract!NoRes

\* What read() and lseek() answer is what was asked for, until a failure below
\* has moved the position there unnoticed: a read of a whole file (read.c:73-120)
\* is short only at its end, and a seek (lseek.c:73-137, zf_seek(), bzf_seek(),
\* splitfs_seek()) that succeeds is at its target.
THEOREM AnswersCorrect == Spec => []AnswersRight
<1>1. Init => GInv
  BY GInvInit
<1>2. GInv /\ [Next]_vars => GInv'
  BY GInvNext
<1>3. GInv => AnswersRight
  BY DEF GInv, FInv, Right, AnswersRight
<1> QED BY <1>1, <1>2, <1>3, PTL DEF Spec

\* An open file of the loader, read through its read-ahead buffer (read.c:73-120)
\* over any of the four kinds of file, is the file FileSpec describes: every
\* call that returns gives the bytes at the position, and moves it by as many,
\* until a failure loses the position; only a close or a seek that begins a
\* compressed file again finds one.
THEOREM FilesRefine == Spec => Implements
<1>1. Init => GInv /\ Abstract!Init
  BY GInvInit
<1>2. GInv /\ [Next]_vars => GInv' /\ [Abstract!Next]_<<AbsPos, AbsRes>>
  BY GInvNext
<1> QED BY <1>1, <1>2, PTL DEF Spec, Implements, Abstract!Spec
=============================================================================
