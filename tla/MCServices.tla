----------------------------- MODULE MCServices -----------------------------
(***************************************************************************)
(* What the loader is built on: memory, disks and their cache.             *)
(***************************************************************************)
EXTENDS TLC, Memory, BlockCache, Disks, DiskIo, Arith, Term

\* BlockCache: a hard disk and a floppy.
TwoUnits == {0, 128}
Floppy == {0}

\* Memory maps, in MB: [mem, base, len]
E8(m, b, l) == [mem |-> m, base |-> b, len |-> l]
Lower(a, b) == IF a < b THEN a ELSE b
\* n MB from 1 MB on, and perhaps more above
Above ==
  {<<>>, <<E8(TRUE, 50, 2)>>, <<E8(TRUE, 50, 3)>>, <<E8(FALSE, 60, 9), E8(TRUE, 50, 3), E8(TRUE, 100, 8)>>,
   <<E8(TRUE, 4090, 90), E8(TRUE, 50, 6)>>, <<E8(TRUE, 4094, 90)>>, <<E8(TRUE, 4096, 90)>>}
MCBios ==
  {[kind |-> "bios", e820 |-> e \o f, e801 |-> x, k88 |-> k, quirk |-> q,
    real |-> (1 .. n) \cup UNION {f[i].base .. f[i].base + f[i].len - 1 : i \in {i \in 1 .. Len(f) : f[i].mem}}] :
     q \in BOOLEAN, f \in Above, n \in {0, 2, 3, 14, 40},
     e \in {<<>>, <<E8(TRUE, 1, 40)>>}, x \in {<<>>, <<0, 0>>, <<15, 25>>}, k \in {0, 2, 14, 40}}
\* what the BIOS says is true, or not known
True820 == {i \in MCBios : (i.e820 # <<>> /\ i.e820[1].base = 1 /\ ~ i.quirk => 40 \in i.real)
                           /\ (i.e801 # <<>> /\ i.e801[2] > 0 => 40 \in i.real) /\ i.k88 <= Cardinality(i.real \cap 1 .. 49)
                           /\ (i.e801 # <<>> /\ i.e801[2] = 0 => 1 \notin i.real)}
Pc(d, l) == [dest |-> d, len |-> l]
MCStaging ==
  {[kind |-> "stage", staging |-> s, size |-> 8, got |-> g, pieces |-> p] :
     s \in {2, 8, 10, 12, 18, 24}, g \in {3, 4, 7, 8, 9},
     p \in {<<Pc(10, 8)>>, <<Pc(10, 9)>>, <<Pc(10, 2), Pc(12, 1), Pc(16, 2)>>, <<Pc(10, 3), Pc(15, 4)>>, <<Pc(10, 4)>>}}
MCMmInputs == True820 \cup MCStaging

\* Disks.  A slice of an MBR, a partition of a label, an entry of a GPT; a
\* layout has a slice of every kind of file system, some of them twice.
Dp(t, f, st, n) == [type |-> t, flag |-> f, start |-> st, size |-> n]
Free4 == Dp("free", 0, 0, 0)
Lp(o, n) == [off |-> o, size |-> n, type |-> "ufs"]
\* partitions a and d, RAW_PART from raw on
Label(raw, a, d) == <<Lp(raw + a, IF a = 0 THEN 0 ELSE 3), Lp(0, 0), Lp(raw, 9), Lp(raw + d, 3), Lp(0, 0), Lp(0, 0), Lp(0, 0), Lp(0, 0)>>
Starts(a, d) == IF a = 0 THEN (3 :> d) ELSE (0 :> a) @@ (3 :> d)
Sl(i, st, t, act, lab) == [index |-> i, start |-> st, type |-> t, active |-> act, label |-> lab]
Medium(at, kind, slices) == [at |-> at, last |-> 99, layout |-> [kind |-> kind, slices |-> slices]]
\* logical partitions i from 0 on, at 61, 63, ..., every other sector of them
\* without the magic number
Ebr(k, n) == <<IF k % 2 = 0 THEN "bare" ELSE "mbr", <<Dp("linux", 0, 1, 1), IF k < n THEN Dp("ext", 0, 2 * k, 2) ELSE Free4, Free4, Free4>>>>
Logical(n) == [l \in {58 + 2 * k : k \in 1 .. n} |-> Ebr((l - 58) \div 2, n)]
MbrMedium(n, active) ==
  Medium((0 :> <<"mbr", <<Dp("dos", 0, 10, 5), Dp("bsd", IF active = 2 THEN 128 ELSE 0, 20, 15), Dp("ext", 0, 60, 30),
                          Dp("bsd", IF active = 4 THEN 128 ELSE 0, 40, 15)>>>>) @@
         (21 :> <<"label64", Label(0, 4, 8)>>) @@ (41 :> <<"label32", 40, Label(40, 0, 6)>>) @@ Logical(n),
         "mbr", {Sl(1, 10, "dos", FALSE, <<>>), Sl(2, 20, "bsd", active = 2, Starts(4, 8)), Sl(3, 60, "ext", FALSE, <<>>),
                 Sl(4, 40, "bsd", active = 4, Starts(0, 6))}
                \cup {Sl(4 + k, 59 + 2 * k, "linux", FALSE, <<>>) : k \in 1 .. Lower(n, MAXEBRENTRIES)})
GptHead(self, alt, ok, ents) == <<"gpt", [self |-> self, alt |-> alt, ok |-> ok, id |-> ents, ents |-> ents]>>
Ge(t, st) == [type |-> t, start |-> st, end |-> st + 4]
GptEnts == <<Ge("dos", 10), Ge("unused", 0), Ge("ufs", 20), Ge("ufs", 30)>>
GptMedium(pri, ok, sec) ==
  Medium((0 :> <<"mbr", <<Dp("pmbr", 0, 1, 99), Free4, Free4, Free4>>>>) @@
         (1 :> IF pri THEN GptHead(1, 99, ok, GptEnts) ELSE <<"data">>) @@ (99 :> IF sec THEN GptHead(99, 1, TRUE, GptEnts) ELSE <<"data">>),
         IF (pri /\ ok) \/ sec THEN "gpt" ELSE "none",
         IF (pri /\ ok) \/ sec THEN {Sl(1, 10, "dos", FALSE, <<>>), Sl(3, 20, "ufs", FALSE, <<>>), Sl(4, 30, "ufs", FALSE, <<>>)} ELSE {})
LabelMedium == Medium((1 :> <<"label64", Label(0, 5, 9)>>), "label", Starts(5, 9))
MCDkMedia ==
  {MbrMedium(2, 2), MbrMedium(9, 4), GptMedium(TRUE, TRUE, TRUE), GptMedium(TRUE, FALSE, TRUE), GptMedium(FALSE, FALSE, FALSE), LabelMedium}
MCDkOthers == {MbrMedium(2, 2)}
MCDkReqs == {<<-1, -1>>, <<0, -1>>, <<2, 3>>, <<3, 255>>, <<4, -1>>, <<4, 3>>, <<6, -1>>, <<12, 255>>}
MCDkBad == {{}, {0}, {21, 62, 99}}
MCDkUnits == {0, 1}
MCDkFloppies == {0}

\* DiskIo: requests around the ends of tracks, of 64 KB, of the first 1024
\* cylinders; a transfer that fails twice, or for good.
Bd(f, e, g, dst, bb, l, n, fails) ==
  [kind |-> "bd", floppy |-> f, edd |-> e, sec |-> g[1], hds |-> g[2], dest |-> dst, bbuf |-> bb, dblk |-> l, blks |-> n, fails |-> fails]
Failing == {<<>>, <<0, 2>>, <<0, 3>>}
MCBd ==
  {Bd(TRUE, FALSE, <<18, 2>>, dst, bb, l, n, f) :
     dst \in {300, 470, 500, 512 - 36, 5000}, bb \in {512, 700, 755, 768 - 36, 767}, l \in {0, 17, 30}, n \in {1, 18, 19, 40}, f \in Failing}
  \cup {Bd(FALSE, e, g, dst, 700, l, n, f) :
     e \in BOOLEAN, g \in {<<63, 255>>, <<63, 16>>, <<1, 1>>}, dst \in {500, 5000},
     l \in {0, 62, 16064, 66000, 1032190}, n \in {1, 3, 40, 70}, f \in Failing}
MCCd ==
  {[kind |-> "cd", dest |-> dst, dblk |-> l, blks |-> n, fails |-> f] :
     dst \in {500, 5000}, l \in {0, 64, 66}, n \in {0, 4, 32, 36, 70, 72}, f \in Failing \cup {<<3>>}}
MCEfi ==
  {[kind |-> "efi", bs |-> b, dblk |-> l, blks |-> n, last |-> e, bad |-> bad] :
     b \in {1, 4, 8}, l \in {0, 3, 8, 13}, n \in {1, 4, 7, 16}, e \in {3, 15, 40}, bad \in {{}, {0}, {3}}}
D0 == <<Word("disk"), Num(0)>>
Nm(name, want, efi) ==
  [kind |-> "name", name |-> name, want |-> want, efi |-> efi, currdev |-> IF efi THEN <<Word("part"), Num(1), Colon>> ELSE D0 \o <<Chr("s"), Num(2), Chr("a"), Colon>>,
   drivers |-> IF efi THEN {"part", "net"} ELSE {"disk", "cd", "pxe"}]
Pa == <<Chr("/"), Word("boot")>>
MCNames ==
  {Nm(D0 \o s \o e \o <<Colon>> \o p, <<>>, FALSE) :
     s \in {<<>>, <<Chr("s"), Num(1)>>, <<Chr("p"), Num(2)>>, <<Chr("s")>>, <<Num(1)>>}, e \in {<<>>, <<Chr("a")>>, <<Chr("d")>>, <<Chr("d"), Chr("e")>>},
     p \in {<<>>, Pa}}
  \cup {Nm(<<Word("cd")>> \o u \o <<Colon>> \o Pa, <<>>, FALSE) : u \in {<<>>, <<Num(1)>>, <<Chr("a")>>}}
  \cup {Nm(p, <<Dev("disk", 0, 2, 0), p>>, FALSE) : p \in {<<>>, Pa, <<Word("boot")>>, <<Chr("/"), Colon>>}}
  \cup {Nm(Pa, <<Dev("part", 1, -1, -1), Pa>>, TRUE), Nm(<<Word("part"), Colon>>, <<>>, TRUE), Nm(<<Word("net"), Num(0), Colon>> \o Pa, <<Dev("net", 0, -1, -1), Pa>>, TRUE)}
Args(info, boot, magic, type, sl, u, p, b) ==
  [added |-> info, info |-> info, flags |-> boot, magic |-> magic, type |-> type, slice |-> sl, unit |-> u, part |-> p, biosdev |-> b]
MCBoots ==
  {[kind |-> "boot", bios |-> b, drives |-> n, args |-> a,
    want |-> IF ~ a.info \/ ~ a.magic THEN -1 ELSE IF a.biosdev = 0 /\ a.type # B_FLOPPY THEN 128 + a.unit ELSE a.biosdev] :
     b \in {{0, 128}, {0, 1, 128, 129}, {128, 129}}, n \in {2},
     a \in {Args(FALSE, f, FALSE, 0, 0, 0, 0, 0) : f \in {"cd", "pxe", "disk"}}
           \cup {[Args(FALSE, "cd", FALSE, 0, 0, 0, 0, 0) EXCEPT !.added = TRUE]}
           \cup {Args(TRUE, "disk", m, t, s, 1, p, d) : m \in BOOLEAN, t \in {0, 2}, s \in {0, 1, 2}, p \in {0, 3}, d \in {0, 128, 129, 131}}}
Bh(h, p, io, l, par) == [h |-> h, path |-> p, io |-> io, logical |-> l, parent |-> par]
MCHandles ==
  {[kind |-> "handle", blk |-> b, net |-> n, started |-> s] :
     b \in {<<Bh(1, TRUE, TRUE, FALSE, <<>>), Bh(2, TRUE, TRUE, TRUE, <<>>), Bh(3, TRUE, TRUE, TRUE, <<1>>), Bh(4, TRUE, TRUE, TRUE, <<0>>)>>,
            <<Bh(1, FALSE, TRUE, TRUE, <<>>), Bh(3, TRUE, FALSE, TRUE, <<>>), Bh(2, TRUE, TRUE, TRUE, <<>>)>>, <<>>},
     n \in {<<>>, <<7, 8>>}, s \in {1, 2, 3, 4, 7, 8}}
MCIoInputs == MCBd \cup MCCd \cup MCEfi \cup MCNames \cup MCBoots \cup MCHandles

\* The check sums: all zeros and every single bit set, which by the linearity of the sum
\* stand for all buffers of that length.
CrZero(n) == [i \in 1 .. n |-> {}]
MCCrInputs ==
  {[bytes |-> b, align |-> a, cut |-> 0] : a \in 0 .. 3,
    b \in UNION {{CrZero(n)} \cup {[CrZero(n) EXCEPT ![i] = {j}] : i \in 1 .. n, j \in 0 .. 7} : n \in {0, 3, 4, 12, 21}}}
  \cup {[bytes |-> [CrZero(n) EXCEPT ![1] = {0, 5}], align |-> a, cut |-> c] : a \in 0 .. 3, n \in {21, 25}, c \in 0 .. 21}

\* Term: text and control sequences, in the middle and in the last corner of a
\* screen; sequences that are not understood; pages of two and three lines.
Tok(c) == [seq |-> FALSE, c |-> c, args |-> <<>>]
Csi(a, c) == [seq |-> TRUE, c |-> c, args |-> a]
Spelt(k) == IF k.seq THEN <<"ESC", "[">> \o FlattenSeq([i \in 1 .. Len(k.args) |-> (IF i = 1 THEN <<>> ELSE <<";">>) \o Decimal(k.args[i])]) \o <<k.c>>
            ELSE <<k.c>>
Home == <<Csi(<<>>, "H"), Csi(<<>>, "J")>>
Toks == {Tok(c) : c \in {"a", "LF", "CR", "BS", "TAB", "NUL", "BEL"}}
        \cup {Csi(a, "m") : a \in {<<>>, <<31, 1>>, <<7>>, <<44, 5>>, <<0>>}}
        \cup {Csi(a, "H") : a \in {<<>>, <<2, 3>>, <<2>>, <<3, 4>>}} \cup {Csi(<<>>, "J"), Csi(<<1>>, "J"), Csi(<<12>>, "K")}
Screens ==
  {[kind |-> "screen", efi |-> e, at |-> at, tokens |-> k, chars |-> FlattenSeq([i \in 1 .. Len(k) |-> Spelt(k[i])])] :
     e \in BOOLEAN, at \in {<<0, 1>>, <<1, 1>>, <<TmCols - 1, TmRows - 1>>}, k \in {<<a, b, Tok("b")>> : a, b \in Toks} \cup {<<a>> \o Home \o <<b>> : a, b \in Toks}
                     \cup {<<a, b, c, Tok("b")>> : a \in Toks, b \in {Tok("a"), Tok("BS"), Csi(<<3, 4>>, "H")}, c \in {Tok("LF"), Tok("a"), Tok("NUL"), Csi(<<7>>, "m")}}}
Ln(n) == FlattenSeq([i \in 1 .. n |-> <<"a", "LF">>])
Pagers ==
  {[kind |-> "pager", lines |-> l, text |-> Ln(n), keys |-> k] :
     l \in {1, 3, 4}, n \in {0, 1, 2, 3, 7}, k \in UNION {[1 .. m -> {"CR", " ", "x", "q"}] : m \in 0 .. 3}}
Lines ==
  {[kind |-> "typed", gptboot |-> FALSE, n |-> n, keys |-> Append(k, "CR")] : n \in {2, 4}, k \in UNION {[1 .. m -> {"a", "BS", "^U"}] : m \in 0 .. 5}}
  \cup {[kind |-> "typed", gptboot |-> TRUE, n |-> n, keys |-> Append(k, "CR")] : n \in {2, 4}, k \in UNION {[1 .. m -> {"a", "BS", "NUL"}] : m \in 0 .. 5}}
Looks == {[key |-> k, tick |-> t] : k \in BOOLEAN, t \in {0, 1, 18, 19, 37, 1573039}}
Waits == {[kind |-> "keyhit", secs |-> s, looks |-> l] : s \in 0 .. 2, l \in UNION {[1 .. n -> Looks] : n \in 1 .. 3}}
MCTmInputs == Screens \cup Pagers \cup Lines \cup Waits

\* Serial line: with and without UARTs, as a previous stage may have left them.
MCSePorts == {1016, 760}
MCSeStates == {[uarts |-> u, stuck |-> s, divisor |-> d, wanted |-> w] : u \in {{}, {1016}, {1016, 760}}, s \in BOOLEAN, d \in {0, 1, 12, 384}, w \in BOOLEAN}
MCSeSpeeds == {0, 9600, 19200, 115200}
MCSeBars == (1 :> 760) @@ (2 :> 0)

\* What the user sees on a screen and on a serial line.
ConsolesRight == TermRight /\ SerialRight

\* Numbers of four digits of two bits: the small ones, and two thirds of all.
MCQdNumbers == {x \in 0 .. 255 : x < 64 \/ x % 3 # 1}

\* printf(): numbers of three to six bits in every kind of field; and a line of
\* all directives in buffers of any size, with one that is not known.
MCPfBits == ("char" :> 3) @@ ("short" :> 4) @@ ("int" :> 5) @@ ("long" :> 6)
Dir1(toks) == [lit |-> "", toks |-> toks]
PfSizes == ("char" :> <<<<"h">>, <<"h">>>>) @@ ("short" :> <<<<"h">>>>) @@ ("int" :> <<>>) @@ ("long" :> <<<<"l">>>>)
PfFields == {[toks |-> f \o w[1] \o p, args |-> w[2], width |-> w[3]] :
               f \in {<<>>, <<<<"#">>>>, <<<<"-">>>>, <<<<"0">>>>, <<<<"#">>, <<"0">>>>, <<<<"-">>, <<"#">>>>},
               w \in {<<<<>>, <<>>, 0>>, <<<<<<"number", 4>>>>, <<>>, 4>>, <<<<<<"*">>>>, <<<<-6>>>>, 6>>},
               p \in {<<>>, <<<<".">>, <<"number", 3>>>>}}
PfValues == {-32, -17, -16, -5, -4, -1, 0, 3, 4, 8, 15, 31}
Wrapped2(v, bits) == ((v + 2 ^ (bits - 1)) % 2 ^ bits) - 2 ^ (bits - 1)
MCPfNumbers ==
  {[fmt |-> <<Dir1(f.toks \o PfSizes[z] \o c[1])>>, args |-> Append(f.args, <<v>>), size |-> -1,
    want |-> [width |-> f.width, base |-> c[2], value |-> IF c[3] THEN Wrapped2(v, MCPfBits[z]) ELSE v % 2 ^ MCPfBits[z]]] :
     f \in PfFields, z \in DOMAIN PfSizes, v \in PfValues,
     c \in {<<<<<<"d">>>>, 10, TRUE>>, <<<<<<"u">>>>, 10, FALSE>>, <<<<<<"+">>, <<"r">>>>, 10, TRUE>>, <<<<<<"o">>>>, 8, FALSE>>,
            <<<<<<"x">>>>, 16, FALSE>>, <<<<<<"X">>>>, 16, FALSE>>, <<<<<<"y">>>>, 16, TRUE>>}}
Bits(b, n) == [bit |-> b, name |-> n]
MCPfLines ==
  {[fmt |-> <<[lit |-> "a", toks |-> <<>>], Dir1(k \o <<<<"s">>>>), Dir1(<<<<"%">>>>), Dir1(<<<<"n">>>>), Dir1(<<<<"c">>>>),
              Dir1(<<<<"p">>>>), Dir1(<<<<"b">>>>)>> \o u \o <<Dir1(<<<<"d">>>>)>>,
    args |-> <<p, <<0>>, <<"c">>, <<9>>, <<v>>, [base |-> 8, bits |-> <<Bits(1, <<"L", "O">>), Bits(4, <<"H">>)>>], <<5>>>>, size |-> z] :
     k \in {<<>>, <<<<"-">>, <<"number", 3>>>>, <<<<"0">>, <<"number", 3>>, <<".">>, <<"number", 1>>>>},
     p \in {<<"NULL">>, <<>>, <<"x", "y">>}, v \in {0, 1, 4, 9}, u \in {<<>>, <<Dir1(<<<<"v">>>>)>>}, z \in {-1, 0, 1, 2, 7, 40}}
MCPfInputs == MCPfNumbers \cup MCPfLines

\* crc32(), iscsi_crc32(), qdivrem() and kvprintf() compute what they are to
\* compute.
ArithmeticRight == CrcRight /\ DivisionRight /\ PrintfRight

\* Memory is not used twice, and the arithmetic of the library is right.
LibraryRight == MemoryRight /\ ArithmeticRight

\* A device name leads to its disk, its slice and partition, and a transfer
\* to its sectors.
DevicesRight == DisksRight /\ IoRight

VARIABLE part
svVars == <<part, mlVars, mmVars, dkVars, ioVars, crVars, tmVars, seVars, qdVars, pfVars, vars>>
NoInput == [kind |-> "none"]
Only(S, p, d) == IF part = p THEN S ELSE {d}
MCServicesInit ==
  /\ part \in {"alloc", "mem", "cache", "disk", "io", "crc", "term", "serial", "div", "printf"}
  /\ MlInit
  /\ MmInit(Only(MmInputs, "mem", NoInput))
  /\ DkInit({[u \in DkUnits |-> IF u \in DkFloppies THEN LabelMedium ELSE d] : d \in Only(DkMedia, "disk", LabelMedium)})
  /\ IoInit(Only(IoInputs, "io", NoInput))
  /\ CrInit(Only(CrInputs, "crc", NoInput))
  /\ TmInit(Only(TmInputs, "term", NoInput))
  /\ SeInit(Only(SeStates, "serial", [uarts |-> {}, stuck |-> FALSE, divisor |-> 0, wanted |-> FALSE]))
  /\ QdInit
  /\ PfInit(Only(PfInputs, "printf", NoInput))
  /\ Init
MCServicesNext ==
  /\ \/ part = "alloc" /\ MlNext /\ UNCHANGED <<pfVars, qdVars, mmVars, dkVars, ioVars, vars, crVars, tmVars, seVars>>
     \/ part = "mem" /\ MmStep /\ UNCHANGED <<pfVars, qdVars, mlVars, dkVars, ioVars, vars, crVars, tmVars, seVars>>
     \/ part = "cache" /\ Next /\ UNCHANGED <<pfVars, qdVars, mlVars, mmVars, dkVars, ioVars, crVars, tmVars, seVars>>
     \/ part = "disk" /\ DkNext /\ UNCHANGED <<pfVars, qdVars, mlVars, mmVars, ioVars, vars, crVars, tmVars, seVars>>
     \/ part = "io" /\ IoStep /\ UNCHANGED <<pfVars, qdVars, mlVars, mmVars, dkVars, vars, crVars, tmVars, seVars>>
     \/ part = "crc" /\ CrStep /\ UNCHANGED <<pfVars, qdVars, mlVars, mmVars, dkVars, ioVars, vars, tmVars, seVars>>
     \/ part = "term" /\ TmStep /\ UNCHANGED <<pfVars, qdVars, mlVars, mmVars, dkVars, ioVars, crVars, seVars, vars>>
     \/ part = "serial" /\ SeNext /\ UNCHANGED <<pfVars, qdVars, mlVars, mmVars, dkVars, ioVars, crVars, tmVars, vars>>
     \/ part = "div" /\ QdNext /\ UNCHANGED <<pfVars, mlVars, mmVars, dkVars, ioVars, crVars, tmVars, seVars, vars>>
     \/ part = "printf" /\ PfStep /\ UNCHANGED <<qdVars, mlVars, mmVars, dkVars, ioVars, crVars, tmVars, seVars, vars>>
  /\ UNCHANGED part
ServicesSpec == MCServicesInit /\ [][MCServicesNext]_svVars
=============================================================================
