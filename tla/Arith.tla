------------------------------- MODULE Arith -------------------------------
(***************************************************************************)
(* The check sums of the boot programs: CRC-32, which guards the GPT, and  *)
(* CRC-32C, which guards HAMMER2, computed a byte at a time in boot2 and   *)
(* eight bytes at a time, from eight tables, in gptboot and the loader.    *)
(*                                                                         *)
(* A 32-bit value is the set of its bits that are set, so that exclusive   *)
(* or is the symmetric difference; a byte is a set of bits 0 .. 7.         *)
(*                                                                         *)
(* Then formatting and division in the C library:                          *)
(* lib/libstand/printf.c: kvprintf(), under printf(), sprintf() and        *)
(* snprintf().  A format is a sequence of characters and directives; a     *)
(* directive is the sequence of its tokens after "%": a flag, a number or  *)
(* a conversion.  Numbers have PfBits[size] bits by the size of their type *)
(* and are arguments in two's complement; an argument is a tuple.          *)
(***************************************************************************)
EXTENDS Integers, Sequences, SequencesExt, FiniteSetsExt, TLC

CONSTANT CrInputs   \* records [bytes, align, cut]: a buffer at an address
                    \* that is align modulo 4, read in two pieces
VARIABLES crIn, crOut
crVars == <<crIn, crOut>>

Byte == SUBSET (0 .. 7)
Ones == 0 .. 31
\* (an operand is bound before it is used twice)
Xor(a, b) == UNION {(p[1] \ p[2]) \cup (p[2] \ p[1]) : p \in {<<a, b>>}}
Shr(c, n) == {i - n : i \in {k \in c : k >= n}}
Shl(c, n) == {i + n : i \in c}

-----------------------------------------------------------------------------
(* Tables *)

\* The exponents of the generators, below 32.
Generator32  == {26, 23, 22, 16, 12, 11, 10, 8, 7, 5, 4, 2, 1, 0}
Generator32C == {28, 27, 26, 25, 23, 22, 20, 19, 18, 14, 13, 11, 10, 9, 8, 6, 0}

\* "we take it backwards": the highest term is the lowest bit
Reflected(g) == {31 - e : e \in g}
Feedback(g, c) == UNION {Xor(Shr(d, 1), IF 0 \in d THEN Reflected(g) ELSE {}) : d \in {c}}
\* "the results of eight shift/xor operations", n times
FeedbackTerms(g, n) ==
  ({} :> {}) @@ [b \in Byte |-> LET after[k \in 0 .. 8 * n] == IF k = 0 THEN b ELSE Feedback(g, after[k - 1])
                                IN after[8 * n]]

crc32_tab == FeedbackTerms(Generator32, 1)
crc32Table == FeedbackTerms(Generator32C, 1)
iscsiCrc32Table == FeedbackTerms(Generator32C, 1)
sctp_crc_tableil8_o32 == FeedbackTerms(Generator32C, 1)
sctp_crc_tableil8_o40 == FeedbackTerms(Generator32C, 2)
sctp_crc_tableil8_o48 == FeedbackTerms(Generator32C, 3)
sctp_crc_tableil8_o56 == FeedbackTerms(Generator32C, 4)
sctp_crc_tableil8_o64 == FeedbackTerms(Generator32C, 5)
sctp_crc_tableil8_o72 == FeedbackTerms(Generator32C, 6)
sctp_crc_tableil8_o80 == FeedbackTerms(Generator32C, 7)
sctp_crc_tableil8_o88 == FeedbackTerms(Generator32C, 8)

-----------------------------------------------------------------------------
(* A byte at a time *)

CrcByte(tab, c, b) == UNION {Xor(tab[Xor(d, b) \cap 0 .. 7], Shr(d, 8)) : d \in {c}}
Bytewise(tab, c, buf) == FoldLeft(LAMBDA d, b : CrcByte(tab, d, b), c, buf)

\* boot/common/crc32.c, libkern/crc32.c
crc32(buf) == Xor(Bytewise(crc32_tab, Ones, buf), Ones)
crc32_ext(buf, ocrc) == Xor(Bytewise(crc32_tab, Xor(ocrc, Ones), buf), Ones)

\* boot2/scrc32.c
boot2_iscsi_crc32(buf) == Xor(Bytewise(iscsiCrc32Table, Ones, buf), Ones)
boot2_iscsi_crc32_ext(buf, c) == Xor(Bytewise(iscsiCrc32Table, Xor(c, Ones), buf), Ones)

singletable_crc32c(c, buf) == Bytewise(crc32Table, c, buf)

-----------------------------------------------------------------------------
(* Eight bytes at a time *)

\* the 32-bit word at p_buf, little endian, and byte k of a word
Word4(buf, p) == buf[p] \cup Shl(buf[p + 1], 8) \cup Shl(buf[p + 2], 16) \cup Shl(buf[p + 3], 24)
ByteOf(w, k) == Shr(w, 8 * k) \cap 0 .. 7

\* a byte is looked up by how many bytes of the eight follow it
EightTerms(w, v) ==
  FoldLeft(Xor, {}, <<sctp_crc_tableil8_o88[ByteOf(w, 0)], sctp_crc_tableil8_o80[ByteOf(w, 1)],
                      sctp_crc_tableil8_o72[ByteOf(w, 2)], sctp_crc_tableil8_o64[ByteOf(w, 3)],
                      sctp_crc_tableil8_o56[ByteOf(v, 0)], sctp_crc_tableil8_o48[ByteOf(v, 1)],
                      sctp_crc_tableil8_o40[ByteOf(v, 2)], sctp_crc_tableil8_o32[ByteOf(v, 3)]>>)

\* Mutant: the sum so far goes into the second word
EightBytesSecond(c, buf, p) == UNION {EightTerms(Word4(buf, p), v) : v \in {Xor(c, Word4(buf, p + 4))}}

\* one turn of the loop: the sum so far goes into the first word
EightBytes(c, buf, p) == UNION {EightTerms(w, Word4(buf, p + 4)) : w \in {Xor(c, Word4(buf, p))}}

crc32c_sb8_64_bit(c, buf, init) ==
  LET turns == (Len(buf) - init) \div 8
      sum[k \in 0 .. turns] ==
        IF k = 0 THEN Bytewise(sctp_crc_tableil8_o32, c, SubSeq(buf, 1, init))
        ELSE EightBytes(sum[k - 1], buf, init + 8 * k - 7)
  IN Bytewise(sctp_crc_tableil8_o32, sum[turns], SubSeq(buf, init + 8 * turns + 1, Len(buf)))

\* four bytes are taken one by one when the buffer is aligned already
multitable_crc32c(c, buf, align) ==
  IF Len(buf) = 0 THEN c ELSE crc32c_sb8_64_bit(c, buf, 4 - align)

calculate_crc32c(c, buf, align) ==
  IF Len(buf) < 4 THEN singletable_crc32c(c, buf) ELSE multitable_crc32c(c, buf, align)

iscsi_crc32(buf, align) == Xor(calculate_crc32c(Ones, buf, align), Ones)
iscsi_crc32_ext(buf, align, ocrc) == Xor(calculate_crc32c(Xor(ocrc, Ones), buf, align), Ones)

\* the loader's crc command: every piece read to the start of the same,
\* aligned, buffer
command_crc(pieces) == FoldLeft(LAMBDA c, b : iscsi_crc32_ext(b, 0, c), {}, pieces)

-----------------------------------------------------------------------------
CrPieces(i) == <<SubSeq(i.bytes, 1, i.cut), SubSeq(i.bytes, i.cut + 1, Len(i.bytes))>>

CrInit(S) == crIn \in S /\ crOut = <<>>

CrStep ==
  /\ crOut = <<>>
  /\ LET p == CrPieces(crIn)
         a == (crIn.align + crIn.cut) % 4
     IN crOut' = [gpt |-> {crc32(crIn.bytes), crc32_ext(p[2], crc32(p[1]))},
                  hammer2 |-> {iscsi_crc32(crIn.bytes, crIn.align), command_crc(p),
                               iscsi_crc32_ext(p[2], a, iscsi_crc32(p[1], crIn.align)),
                               boot2_iscsi_crc32(crIn.bytes), boot2_iscsi_crc32_ext(p[2], boot2_iscsi_crc32(p[1]))}]
  /\ UNCHANGED crIn

-----------------------------------------------------------------------------
(* The definition of the check sums: division of polynomials.              *)

\* The message as a polynomial, first bit first, its first 32 bits inverted
\* and 32 zeros behind it.
Message(buf) ==
  LET n == Len(buf)
  IN Xor(UNION {{8 * (n - i) + 39 - j : j \in buf[i]} : i \in 1 .. n}, {8 * n + k : k \in Ones})
Remainder(g, poly, deg) ==
  LET divisor == g \cup {32}
      rest[d \in 31 .. deg] == IF d = deg THEN poly
                               ELSE UNION {Xor(r, IF d + 1 \in r THEN Shl(divisor, d - 31) ELSE {}) : r \in {rest[d + 1]}}
  IN rest[31]
CrcOf(g, buf) == Xor(Reflected(Remainder(g, Message(buf), 8 * Len(buf) + 31)), Ones)

\* Whatever the length of a buffer, its alignment and the pieces it is read
\* in, boot2's loop over bytes, the loader's loop over eight bytes and the
\* definition agree, so that what one program sealed the others accept
\* (icrc32.c:686 crc32c_sb8_64_bit, scrc32.c:133, common/crc32.c:100).
CrcRight ==
  crOut = <<>> \/ (/\ crOut.gpt = {CrcOf(Generator32, crIn.bytes)}
                   /\ crOut.hammer2 = {CrcOf(Generator32C, crIn.bytes)})

-----------------------------------------------------------------------------
(* Formatting and division.                                                *)

CONSTANTS
    PfInputs,   \* [fmt, args, size]: size of the buffer of snprintf(), or -1 for sprintf()
    PfBits      \* "char", "short", "int", "long" -> number of bits

ASSUME PrintfAssumption == \A t \in DOMAIN PfBits : PfBits[t] \in 1 .. PfBits["long"]

VARIABLES
    pfIn,       \* the call
    pfOut       \* what it gave; counts is what %n stored

pfVars == <<pfIn, pfOut>>

\* intmax_t
MaxBits == PfBits["long"]
UMax == 2 ^ MaxBits
hex2ascii == <<"0", "1", "2", "3", "4", "5", "6", "7", "8", "9", "a", "b", "c", "d", "e", "f">>
toupper == <<"0", "1", "2", "3", "4", "5", "6", "7", "8", "9", "A", "B", "C", "D", "E", "F">>
Times(c, n) == [i \in 1 .. Max({0, n}) |-> c]

\* The loop of ksprintn() runs once at least.
Places(num, base) == Max({1, Cardinality({k \in 0 .. MaxBits : num \div (base ^ k) > 0})})

\* ksprintn(), in the order of reading
ksprintn(num, base, upper) ==
    LET n == Places(num, base)
    IN [i \in 1 .. n |-> (IF upper THEN toupper ELSE hex2ascii)[((num \div (base ^ (n - i))) % base) + 1]]

-----------------------------------------------------------------------------
\* What the flags set, and the arguments that are left.
NoFlags == [padc |-> " ", width |-> 0, size |-> "int", ladjust |-> FALSE, sharp |-> FALSE, sign |-> FALSE, dot |-> FALSE, dwidth |-> 0]

\* One token in front of the conversion.
Flag(s, t) ==
    CASE t[1] = "." -> [s EXCEPT !.f.dot = TRUE]
      [] t[1] = "#" -> [s EXCEPT !.f.sharp = TRUE]
      [] t[1] = "+" -> [s EXCEPT !.f.sign = TRUE]
      [] t[1] = "-" -> [s EXCEPT !.f.ladjust = TRUE]
      [] t[1] = "0" -> IF s.f.dot THEN [s EXCEPT !.f.dwidth = 0] ELSE [s EXCEPT !.f.padc = "0"]
      [] t[1] = "number" -> IF s.f.dot THEN [s EXCEPT !.f.dwidth = t[2]] ELSE [s EXCEPT !.f.width = t[2]]
      [] t[1] = "*" ->
            LET v == Head(s.args)[1]
            IN IF s.f.dot THEN [s EXCEPT !.f.dwidth = v, !.args = Tail(@)]
               ELSE [s EXCEPT !.f.width = IF v < 0 THEN -v ELSE v, !.args = Tail(@),
                              !.f.ladjust = IF v < 0 THEN ~@ ELSE @]
      [] t[1] = "h" -> [s EXCEPT !.f.size = IF @ = "short" THEN "char" ELSE "short"]
      [] OTHER -> [s EXCEPT !.f.size = "long"]              \* l, q, j, t, z

\* Mutant: the number is taken as it was pushed, not as its type.
ArgumentWide(v, size, signed) == v % UMax
\* The argument as a number of its type, in uintmax_t: with its sign, or not.
Argument(v, size, signed) ==
    LET m == 2 ^ PfBits[size]
        u == v % m
    IN IF signed /\ 2 * u >= m THEN (u - m) % UMax ELSE u

\* From label number on.
Converted(f, num0, base, signed, upper) ==
    LET neg == signed /\ 2 * num0 >= UMax
        num == IF neg THEN (UMax - num0) % UMax ELSE num0
        digits == ksprintn(num, base, upper)
        n == Len(digits)
        prefix == (IF neg THEN <<"-">> ELSE <<>>) \o
                  (IF ~f.sharp \/ num = 0 THEN <<>> ELSE CASE base = 8 -> <<"0">> [] base = 16 -> <<"0", "x">> [] OTHER -> <<>>)
        dwidth == IF ~f.ladjust /\ f.padc = "0" THEN f.width - Len(prefix) ELSE f.dwidth
        width == f.width - (Len(prefix) + Max({dwidth, n}))
    IN (IF f.ladjust THEN <<>> ELSE Times(" ", width)) \o prefix \o Times("0", dwidth - n) \o digits
       \o (IF f.ladjust THEN Times(" ", width) ELSE <<>>)

\* %s, also of a string that is shorter than the precision
StringField(f, p) ==
    LET n == IF f.dot THEN Min({Len(p), Max({0, f.dwidth})}) ELSE Len(p)
        pad == Times(f.padc, f.width - n)
    IN (IF f.ladjust THEN <<>> ELSE pad) \o SubSeq(p, 1, n) \o (IF f.ladjust THEN pad ELSE <<>>)

\* %b: a number in a base, and the names of its bits
Register(num, base, bits) ==
    LET set == SelectSeq(bits, LAMBDA b : (num \div 2 ^ (b.bit - 1)) % 2 = 1)
    IN ksprintn(num, base, FALSE) \o
       (IF num = 0 \/ set = <<>> THEN <<>>
        ELSE FlattenSeq([i \in 1 .. Len(set) |-> <<IF i = 1 THEN "<" ELSE ",">> \o set[i].name]) \o <<">">>)

SignedConv == {"d", "i", "y"}
BaseOf(c) == CASE c \in {"d", "i", "u", "r"} -> 10 [] c = "o" -> 8 [] OTHER -> 16

\* PCHAR() of each, and the argument is used up.
Puts(s, chars, used) == [s EXCEPT !.chars = @ \o chars, !.args = SubSeq(@, used + 1, Len(@))]

\* One directive; after one that is not known no other is obeyed.
Directive(s0, toks) ==
    LET c == Last(toks)[1]
        s == FoldLeft(Flag, [s0 EXCEPT !.f = NoFlags], Front(toks))
        sg == c \in SignedConv \/ (c = "r" /\ s.f.sign)
    IN CASE c = "%" -> Puts(s, <<"%">>, 0)
         [] c = "n" -> [Puts(s, <<>>, 1) EXCEPT !.counts = Append(@, Len(s.chars))]
         [] c = "c" -> Puts(s, Head(s.args), 1)
         [] c = "s" -> Puts(s, StringField(s.f, IF Head(s.args) = <<"NULL">> THEN <<"(", "n", "u", "l", "l", ")">> ELSE Head(s.args)), 1)
         [] c = "b" -> Puts(s, Register(s.args[1][1] % 2 ^ PfBits["int"], s.args[2].base, s.args[2].bits), 2)
         [] c = "p" -> Puts(s, Converted([s.f EXCEPT !.sharp = (s.f.width = 0)], s.args[1][1] % UMax, 16, FALSE, FALSE), 1)
         [] c \in {"d", "i", "u", "r", "o", "x", "X", "y"} ->
                Puts(s, Converted(s.f, Argument(s.args[1][1], s.f.size, sg), BaseOf(c), sg, c = "X"), 1)
         [] OTHER -> [Puts(s, <<"%">> \o [i \in 1 .. Len(toks) |-> toks[i][1]], 0) EXCEPT !.stop = TRUE]

\* The loop over the format.
Element(s, e) ==
    IF e.lit # "" THEN Puts(s, <<e.lit>>, 0)
    ELSE IF s.stop THEN Puts(s, <<"%">> \o [i \in 1 .. Len(e.toks) |-> e.toks[i][1]], 0)
    ELSE Directive(s, e.toks)
kvprintf(fmt, args) == FoldLeft(Element, [chars |-> <<>>, args |-> args, f |-> NoFlags, stop |-> FALSE, counts |-> <<>>], fmt)

\* Mutant: the last place is not kept for the NUL.
snprintf_func_full(remain) == remain >= 1
\* snprintf_func() takes a character while two places are left.
snprintf_func(remain) == remain >= 2

\* What the buffer holds in the end, "NUL" included.
Kept(chars, size) ==
    LET s == FoldLeft(LAMBDA b, c : IF snprintf_func(b.remain) THEN [buf |-> Append(b.buf, c), remain |-> b.remain - 1] ELSE b,
                      [buf |-> <<>>, remain |-> size], chars)
    IN IF s.remain >= 1 THEN Append(s.buf, "NUL") ELSE s.buf

PfInit(I) == pfIn \in I /\ pfOut = [chars |-> <<>>, ret |-> 0, counts |-> <<>>, done |-> FALSE]
PfStep ==
    /\ ~pfOut.done /\ UNCHANGED pfIn
    /\ \E k \in {kvprintf(pfIn.fmt, pfIn.args)} :
        pfOut' = [chars |-> IF pfIn.size < 0 THEN Append(k.chars, "NUL") ELSE Kept(k.chars, pfIn.size),
                  ret |-> Len(k.chars), counts |-> k.counts, done |-> TRUE]

-----------------------------------------------------------------------------
(* Properties *)

\* The number that characters from a field spell in a base: blanks are left
\* out, then the sign and what stands for the base.
ValueOf(c) == CHOOSE d \in 0 .. 15 : hex2ascii[d + 1] = c \/ toupper[d + 1] = c
HasValue(c) == \E d \in 0 .. 15 : hex2ascii[d + 1] = c \/ toupper[d + 1] = c
Spells(chars, base) ==
    LET t == SelectSeq(chars, LAMBDA c : c # " ")
        minus == t # <<>> /\ t[1] = "-"
        ds == SelectSeq(t, HasValue)
        v == FoldLeft(LAMBDA a, c : a * base + ValueOf(c), 0, ds)
    IN IF minus THEN -v ELSE v

\* What is printed for one number can be read back: it is the argument, as a
\* number of the type that the directive names, it fills its field and is not
\* cut, and what is written fits the buffer and ends there, whatever size the
\* buffer has; the value returned is the length without the cut.
PrintfRight ==
    pfOut.done =>
        /\ pfIn.size >= 0 => /\ Len(pfOut.chars) = Min({pfIn.size, pfOut.ret + 1})
                             /\ pfIn.size > 0 => Last(pfOut.chars) = "NUL"
        /\ pfIn.size < 0 => Len(pfOut.chars) = pfOut.ret + 1
        /\ pfIn.size < 0 /\ "want" \in DOMAIN pfIn =>
            LET text == Front(pfOut.chars)
            IN /\ Len(text) >= pfIn.want.width /\ Spells(text, pfIn.want.base) = pfIn.want.value
               /\ \E i \in 1 .. Len(text) : HasValue(text[i])

-----------------------------------------------------------------------------
(***************************************************************************)
(* Division of 64-bit numbers (libstand qdivrem.c): Knuth's algorithm D on *)
(* four digits of HALF_BITS bits.  Here a digit may have fewer bits than   *)
(* 16, and a number has four digits all the same.                          *)
(***************************************************************************)

CONSTANTS
  HALF_BITS,   \* bits of a digit
  QdNumbers    \* numbers to divide, and to divide by

ASSUME QdAssumption == HALF_BITS \in Nat \ {0, 1} /\ QdNumbers \subseteq 0 .. 2 ^ (4 * HALF_BITS) - 1

VARIABLES
  qdIn,   \* [a, b], or what stands for no call
  qdOut   \* [q, r, sq, sr]: the unsigned and the signed quotient and remainder
qdVars == <<qdIn, qdOut>>

B == 2 ^ HALF_BITS
Word64 == B ^ 4
LHALF(x) == x % B
HHALF(x) == (x \div B) % B
COMBINE(a, b) == a * B + b
\* u_int wraps around at two digits
Uint(x) == x % (B * B)
\* digit i of a number, 1 the first, with nothing in front of it
QdDigits(x) == [i \in 0 .. 4 |-> IF i = 0 THEN 0 ELSE (x \div B ^ (4 - i)) % B]
Number(p) == COMBINE(COMBINE(p[1], p[2]), 0) * B + COMBINE(p[3], p[4])
LeadingZeros(p) == CHOOSE k \in 0 .. 4 : (k = 4 \/ p[k + 1] # 0) /\ \A i \in 1 .. k : p[i] = 0

\* p[at] .. p[at + len] shifted left
shl(p, at, len, sh) ==
  [i \in DOMAIN p |->
    CASE i \in at .. at + len - 1 -> LHALF(p[i] * 2 ^ sh) + p[i + 1] \div 2 ^ (HALF_BITS - sh)
      [] i = at + len -> LHALF(p[i] * 2 ^ sh)
      [] OTHER -> p[i]]
\* D1: how far for the first digit to have its first bit
ShiftFor(v1) == CHOOSE d \in 0 .. HALF_BITS - 1 : v1 * 2 ^ d \in B \div 2 .. B - 1

\* Division by one digit, per exercise 16
OneDigit(u, t) ==
  LET s == FoldLeft(LAMBDA x, i : [q |-> Append(x.q, COMBINE(x.r, u[i]) \div t), r |-> COMBINE(x.r, u[i]) % t],
                    [q |-> <<>>, r |-> 0], <<1, 2, 3, 4>>)
  IN  [q |-> Number(s.q), r |-> s.r]

\* D3: a guess is one too large as long as the next digit says so; s = [qhat,
\* rhat, on].  rhat grows by half a digit at least, so that two rounds do.
TooBig(s, v1) == [qhat |-> s.qhat - 1, rhat |-> s.rhat + v1, on |-> s.rhat + v1 < B]
Guess(uj0, uj1, uj2, v1, v2) ==
  LET first == IF uj0 = v1 THEN TooBig([qhat |-> B, rhat |-> uj1, on |-> TRUE], v1)
               ELSE [qhat |-> COMBINE(uj0, uj1) \div v1, rhat |-> COMBINE(uj0, uj1) % v1, on |-> TRUE]
  IN  FoldLeft(LAMBDA s, i : IF s.on /\ v2 * s.qhat > COMBINE(s.rhat, uj2) THEN TooBig(s, v1) ELSE [s EXCEPT !.on = FALSE],
               first, <<1, 2>>).qhat

\* D4: v * qhat is taken from u[j .. j + n], from the last digit on; t is what
\* is borrowed.  k is where the digits of u begin, kv those of v.
Subtracted(u, v, k, kv, n, j, qhat) ==
  LET s == FoldLeft(LAMBDA x, i : LET t == Uint(x.u[k + i + j] - v[kv + i] * qhat - x.t)
                                  IN  [u |-> [x.u EXCEPT ![k + i + j] = LHALF(t)], t |-> (B - HHALF(t)) % B],
                    [u |-> u, t |-> 0], [i \in 1 .. n |-> n + 1 - i])
      t == Uint(s.u[k + j] - s.t)
  IN  [u |-> [s.u EXCEPT ![k + j] = LHALF(t)], t |-> t]
\* D6: add back
AddedBack(u, v, k, kv, n, j) ==
  LET s == FoldLeft(LAMBDA x, i : LET t == Uint(x.t + x.u[k + i + j] + v[kv + i])
                                  IN  [u |-> [x.u EXCEPT ![k + i + j] = LHALF(t)], t |-> HHALF(t)],
                    [u |-> u, t |-> 0], [i \in 1 .. n |-> n + 1 - i])
  IN  [s.u EXCEPT ![k + j] = LHALF(@ + s.t)]

\* D5 forgotten: a mutant of Corrected.
NotCorrected(s, v, k, kv, n, j, qhat) == [u |-> s.u, qhat |-> qhat]
\* D5: a borrow says that the guess was one too large.
Corrected(s, v, k, kv, n, j, qhat) ==
  IF HHALF(s.t) # 0 THEN [u |-> AddedBack(s.u, v, k, kv, n, j), qhat |-> qhat - 1] ELSE [u |-> s.u, qhat |-> qhat]

\* D3 to D7: the digit guessed is tried, and what is right takes its place
D3to6(u, v, k, kv, n, j, qhat) == Corrected(Subtracted(u, v, k, kv, n, j, qhat), v, k, kv, n, j, qhat)
Placed(q, at, c) == [u |-> c.u, q |-> [q EXCEPT ![at] = c.qhat]]
\* D8: the remainder is shifted back
Unshifted(u, k, m, n, d) ==
  IF d = 0 THEN u
  ELSE [i \in 0 .. 4 |-> CASE i \in k + m + 1 .. k + m + n -> u[i] \div 2 ^ d + LHALF(u[i - 1] * 2 ^ (HALF_BITS - d))
                           [] i = k + m -> 0
                           [] OTHER -> u[i]]
Quotient(s, k, m, n, d) == [q |-> Number(s.q), r |-> Number(Unshifted(s.u, k, m, n, d))]
\* Program D
ProgramD(u0, v0) ==
  LET kv == LeadingZeros(v0)
      n == 4 - kv
      k == LeadingZeros(u0)
      m == 4 - k - n
      d == ShiftFor(v0[kv + 1])
      u1 == IF d > 0 THEN shl(u0, k, m + n, d) ELSE u0
      v == IF d > 0 THEN shl(v0, kv + 1, n - 1, d) ELSE v0
      Digit(s, j) ==
        Placed(s.q, 4 - m + j, D3to6(s.u, v, k, kv, n, j, Guess(s.u[k + j], s.u[k + j + 1], s.u[k + j + 2], v[kv + 1], v[kv + 2])))
      s == FoldLeft(Digit, [u |-> u1, q |-> [i \in 0 .. 4 |-> 0]], [j \in 1 .. m + 1 |-> j - 1])
  IN  Quotient(s, k, m, n, d)

\* qdivrem(): b # 0
qdivrem(a, b) ==
  CASE a < b -> [q |-> 0, r |-> a]
    [] a >= b /\ b < B -> OneDigit(QdDigits(a), b)
    [] OTHER -> ProgramD(QdDigits(a), QdDigits(b))

\* The signed ones: the sign is put aside and given to what comes out.
Negated(x) == (Word64 - x) % Word64
IsNegative(x) == 2 * x >= Word64
Magnitude(x) == IF IsNegative(x) THEN Negated(x) ELSE x
WithSign(neg, x) == IF neg THEN Negated(x) ELSE x
divdi3(a, b) == WithSign(IsNegative(a) # IsNegative(b), qdivrem(Magnitude(a), Magnitude(b)).q)
moddi3(a, b) == WithSign(IsNegative(a), qdivrem(Magnitude(a), Magnitude(b)).r)

NoDivision == [a |-> 0, b |-> 0]
NoQuotient == [q |-> 0, r |-> 0, sq |-> 0, sr |-> 0]
QdInit == qdIn = NoDivision /\ qdOut = NoQuotient
QdNext ==
  /\ qdIn = NoDivision
  /\ \E a \in QdNumbers, b \in QdNumbers \ {0} :
       /\ qdIn' = [a |-> a, b |-> b]
       /\ qdOut' = [q |-> qdivrem(a, b).q, r |-> qdivrem(a, b).r, sq |-> divdi3(a, b), sr |-> moddi3(a, b)]

\* Signed value of a word
Signed(x) == IF IsNegative(x) THEN x - Word64 ELSE x
\* qdivrem(): quotient and remainder are the ones there are, the signed ones
\* rounded towards zero.  The least number divided by -1 is itself.
DivisionRight ==
  qdIn # NoDivision =>
    LET a == qdIn.a
        b == qdIn.b
    IN  /\ a = qdOut.q * b + qdOut.r /\ qdOut.r \in 0 .. b - 1
        /\ \/ Signed(a) = Signed(qdOut.sq) * Signed(b) + Signed(qdOut.sr)
           \/ Signed(b) = -1 /\ 2 * a = Word64 /\ qdOut.sq = a /\ qdOut.sr = 0
        /\ Signed(qdOut.sr) \in - (Magnitude(b) - 1) .. Magnitude(b) - 1
        /\ qdOut.sr # 0 => IsNegative(qdOut.sr) = IsNegative(a)
=============================================================================
