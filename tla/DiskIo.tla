------------------------------- MODULE DiskIo -------------------------------
(***************************************************************************)
(* Requests to the disks and their names: bd_io() of biosdisk.c, bc_read() *)
(* of bioscd.c, efipart_strategy() of efipart.c; disk_parsedev() and       *)
(* disk_fmtdev(), the devicename.c of the two loaders, extract_currdev()   *)
(* of the PC loader, and the handles of the EFI loader.                    *)
(*                                                                         *)
(* A request is answered in one step.  Addresses count half sectors, so    *)
(* that a buffer need not be at the start of one.                          *)
(***************************************************************************)
EXTENDS Integers, Sequences, FiniteSets, FiniteSetsExt

CONSTANT IoInputs

VARIABLES ioIn, ioOut
ioVars == <<ioIn, ioOut>>

K64 == 256          \* half sectors of 64 KB
M1 == 16 * K64
Least(a, b) == IF a < b THEN a ELSE b

------------------------------------------------------------------------------
(* bd_io(): in = [floppy, edd, sec, hds, dest, bbuf, dblk, blks, fails],     *)
(* fails[k] how often the k-th transfer fails.  A transfer: [lba, n, at,     *)
(* from], from the number of its first block in the request.                 *)

FLOPPY_BOUNCEBUF == 18
MaxRetry == 3
FailsOf(in, k) == IF k \in DOMAIN in.fails THEN in.fails[k] ELSE 0

Bounced(in) ==
  \/ in.dest >= M1
  \/ in.floppy /\ in.dest \div K64 # (in.dest + 2 * in.blks) \div K64
BounceSize(in) == Least(FLOPPY_BOUNCEBUF, in.blks)
\* Mutant: always the lower half
BregLow(in) == in.bbuf
\* the half of the bounce buffer that is used
Breg(in) ==
  IF in.bbuf \div K64 = (in.bbuf + 2 * BounceSize(in)) \div K64 THEN in.bbuf ELSE in.bbuf + 2 * BounceSize(in)

\* bd_chs_io(): the address as it is put into %cx and %dh, and what the BIOS
\* makes of it
Ecx(cyl, sec) == (cyl % 256) * 256 + ((cyl \div 256) % 4) * 64 + sec
ChsOf(in, dblk) ==
  LET bpc == in.sec * in.hds IN [cyl |-> dblk \div bpc, hd |-> (dblk % bpc) \div in.sec, sec |-> (dblk % in.sec) + 1]
BiosChs(in, ecx, hd) ==
  ((((ecx \div 256) % 256) + ((ecx % 256) \div 64) * 256) * in.hds + hd) * in.sec + (ecx % 64) - 1
Addressed(in, dblk) ==
  LET c == ChsOf(in, dblk)
  IN  IF in.edd THEN dblk ELSE IF c.cyl > 1023 THEN -1 ELSE BiosChs(in, Ecx(c.cyl, c.sec), c.hd)

BdIo(in) ==
  LET Io[done \in Nat, k \in Nat] ==
        LET lba == in.dblk + done
            track == Least(in.sec - (lba % in.sec), in.blks - done)
            x == IF Bounced(in) THEN Least(track, BounceSize(in)) ELSE track
            at == IF Bounced(in) THEN Breg(in) ELSE in.dest + 2 * done
            t == [lba |-> Addressed(in, lba), n |-> x, at |-> at, from |-> done]
        IN  IF done = in.blks THEN <<"ok", <<>>>>
            ELSE IF FailsOf(in, k) >= MaxRetry \/ t.lba < 0 THEN <<"EIO">>
            ELSE LET rest == Io[done + x, k + 1]
                 IN  IF rest[1] = "ok" THEN <<"ok", <<t>> \o rest[2]>> ELSE rest
  IN  Io[0, 1]

------------------------------------------------------------------------------
(* bc_strategy(): dblk and size count 512 bytes.  A transfer that fails three *)
(* times leaves the buffer as it is, and the next one follows.               *)

CD_BOUNCEBUF == 8
CdBlk == 4
CdRead(in) ==
  LET blks == in.blks \div CdBlk
      first == in.dblk \div CdBlk
      Io[done \in Nat, k \in Nat] ==
        LET x == IF in.dest >= M1 THEN Least(blks - done, Least(CD_BOUNCEBUF, blks)) ELSE blks - done
            t == [lba |-> first + done, n |-> x, from |-> done]
        IN  IF done = blks THEN <<>>
            ELSE (IF FailsOf(in, k) >= MaxRetry THEN <<>> ELSE <<t>>) \o Io[done + x, k + 1]
  IN  IF in.blks % CdBlk # 0 \/ in.dblk % CdBlk # 0 THEN <<"EINVAL">> ELSE <<"ok", Io[0, 1]>>

------------------------------------------------------------------------------
(* efipart_strategy(), reading: in = [bs, dblk, blks, last, bad], bs how many *)
(* 512 bytes a block of the medium has, bad the blocks that fail.            *)

EfiBlocks(in, blk, n) == blk <= in.last /\ blk + n - 1 <= in.last /\ \A b \in blk .. blk + n - 1 : b \notin in.bad
EfiRead(in) ==
  LET Io[done \in Nat, blk \in Nat, off \in Nat] ==
        LET x == Least(in.bs - off, in.blks - done)
            rest == Io[done + x, blk + 1, 0]
        IN  IF done = in.blks THEN <<"ok", <<>>>>
            ELSE IF ~ EfiBlocks(in, blk, 1) THEN <<"EIO">>
            ELSE IF rest[1] = "ok" THEN <<"ok", <<[lba |-> blk * in.bs + off, n |-> x, from |-> done]>> \o rest[2]>> ELSE rest
  IN  IF in.blks = 0 THEN <<"EIO">>
      ELSE IF in.bs = 1 THEN IF EfiBlocks(in, in.dblk, in.blks) THEN <<"ok", <<[lba |-> in.dblk, n |-> in.blks, from |-> 0]>>>> ELSE <<"EIO">>
      ELSE Io[0, in.dblk \div in.bs, in.dblk % in.bs]

------------------------------------------------------------------------------
(* Names.  A name is a sequence of tokens: words <<"word", w>>, the driver    *)
(* first, numbers <<"num", n>> and characters <<"chr", c>>; what follows the *)
(* ":" is a path.                                                            *)

PartLetters == <<"a", "b", "c", "d", "e", "f", "g", "h", "i", "j", "k", "l", "m", "n", "o", "p">>
Word(w) == <<"word", w>>
Num(n) == <<"num", n>>
Chr(c) == <<"chr", c>>
PartChr(c) == CHOOSE i \in DOMAIN PartLetters : PartLetters[i] = c
Colon == Chr(":")
Dev(kind, unit, slice, part) == [kind |-> kind, unit |-> unit, slice |-> slice, part |-> part]
AtEnd(s, i) == i > Len(s) \/ s[i] = Colon
IsNum(s, i) == i <= Len(s) /\ s[i][1] = "num"
Tail1(s, i) == SubSeq(s, i + 1, Len(s))
BadName(e) == <<e>>

\* disk_parsedev() of s from its second token on
PartAt(s, i, unit, slice) ==
  IF AtEnd(s, i) THEN <<"ok", Dev("disk", unit, slice, -1), Tail1(s, i)>>
  ELSE IF IsNum(s, i) THEN BadName("EPART")
  ELSE IF AtEnd(s, i + 1) THEN <<"ok", Dev("disk", unit, slice, PartChr(s[i][2]) - 1), Tail1(s, i + 1)>>
  ELSE BadName("EINVAL")
disk_parsedev(s) ==
  LET letter == IF Len(s) >= 3 /\ ~ IsNum(s, 3) THEN s[3][2] ELSE ""
  IN  IF AtEnd(s, 2) THEN BadName("EINVAL")
      ELSE IF ~ IsNum(s, 2) THEN BadName("EUNIT")
      ELSE IF letter \in {"p", "s"} /\ ~ IsNum(s, 4) THEN BadName("ESLICE")
      ELSE IF letter = "p" THEN IF AtEnd(s, 5) THEN <<"ok", Dev("disk", s[2][2], s[4][2], 255), Tail1(s, 5)>> ELSE BadName("EINVAL")
      ELSE IF letter = "s" THEN PartAt(s, 5, s[2][2], s[4][2])
      ELSE PartAt(s, 3, s[2][2], -1)
disk_fmtdev(d) ==
  <<Word("disk"), Num(d.unit)>>
  \o (IF d.slice < 0 THEN <<>> ELSE IF d.part = 255 THEN <<Chr("p"), Num(d.slice)>> ELSE <<Chr("s"), Num(d.slice)>>)
  \o (IF d.part < 0 \/ (d.slice >= 0 /\ d.part = 255) THEN <<>> ELSE <<Chr(PartLetters[d.part + 1])>>)
  \o <<Colon>>

\* i386_parsedev(); efi_parsedev(), where the unit must be there, because the
\* end of a number that is not is not looked for
UnitName(s, none) ==
  IF AtEnd(s, 2) THEN IF none >= 0 THEN <<"ok", Dev(s[1][2], none, -1, -1), Tail1(s, 2)>> ELSE <<"undefined">>
  ELSE IF ~ IsNum(s, 2) THEN BadName("EUNIT")
  ELSE IF AtEnd(s, 3) THEN <<"ok", Dev(s[1][2], s[2][2], -1, -1), Tail1(s, 3)>> ELSE BadName("EINVAL")
parsedev(s, drivers, efi) ==
  IF s[1][2] \notin drivers THEN BadName("ENOENT")
  ELSE IF efi THEN UnitName(s, -1)
  ELSE IF s[1][2] = "disk" THEN disk_parsedev(s) ELSE UnitName(s, 0)
fmtdev(d) == IF d.kind = "disk" THEN disk_fmtdev(d) ELSE <<Word(d.kind), Num(d.unit), Colon>>
\* i386_getdev(), efi_getdev(): without a device it is a path of currdev
getdev(s, currdev, drivers, efi) ==
  IF s = <<>> \/ s[1] = Chr("/") \/ ~ \E i \in DOMAIN s : s[i] = Colon
  THEN LET r == parsedev(currdev, drivers, efi) IN IF r[1] = "ok" THEN <<"ok", r[2], s>> ELSE r
  ELSE parsedev(s, drivers, efi)

\* bd_init(): BIOS units probed in turn, floppies first; in.bios those that
\* are there, in.drives what the BIOS says how many hard disks there are
MAXBDDEV == 8
Run(S, base) == {u \in S : u >= base /\ \A v \in base .. u : v \in S}
bd_init(in) ==
  LET fl == {u \in Run(in.bios, 0) : u < MAXBDDEV}
      hd == {u \in Run(in.bios, 128) : u < 128 + Least(in.drives, MAXBDDEV - Cardinality(fl))}
  IN  [i \in 1 .. Cardinality(fl) + Cardinality(hd) |-> IF i <= Cardinality(fl) THEN i - 1 ELSE 128 + i - 1 - Cardinality(fl)]
bd_bios2unit(units, b) == IF \E i \in DOMAIN units : units[i] = b THEN (CHOOSE i \in DOMAIN units : units[i] = b) - 1 ELSE -1

\* bc_add() of the CD the loader comes from, then bc_bios2unit(): the only
\* unit, if the BIOS knew of it
bc_bios2unit(in) == IF in.args.added THEN 0 ELSE -1

\* extract_currdev(): in.args = [info, flags, magic, type, slice, unit, part,
\* biosdev], what boot2, cdboot or pxeldr has passed, and added, whether
\* bc_add() succeeded
B_FLOPPY == 2
Currdev(in) ==
  LET a == in.args
      units == bd_init(in)
      biosdev == IF ~ a.info \/ ~ a.magic THEN -1
                 ELSE IF a.biosdev = 0 /\ a.type # B_FLOPPY THEN 128 + a.unit ELSE a.biosdev
      u == bd_bios2unit(units, biosdev)
      unit == IF u = -1 THEN 0 ELSE u
  IN  IF ~ a.info /\ a.flags = "cd" THEN Dev("cd", bc_bios2unit(in), -1, -1)
      ELSE IF ~ a.info /\ a.flags = "pxe" THEN Dev("pxe", 0, -1, -1)
      ELSE IF biosdev = -1 THEN Dev("disk", unit, -1, 0)
      ELSE Dev("disk", unit, a.slice - 1, a.part)

\* efipart_init(), efinet_dev_init(), efi_register_handles(): in.blk are the
\* handles [h, path, io, logical, parent] with block I/O, parent <<>> or the
\* handle of the CD it is part of (<<0>>: not found), in.net network handles
EfiEntries(in) ==
  LET ok == SelectSeq(in.blk, LAMBDA b : b.path /\ b.io /\ b.logical /\ b.parent # <<0>>)
      Part(i) == [handle |-> IF ok[i].parent = <<>> THEN ok[i].h ELSE ok[i].parent[1],
                  alias |-> IF ok[i].parent = <<>> THEN 0 ELSE ok[i].h, dev |-> "part", unit |-> i - 1]
  IN  [i \in DOMAIN ok |-> Part(i)]
      \o [i \in DOMAIN in.net |-> [handle |-> in.net[i], alias |-> 0, dev |-> "net", unit |-> i - 1]]
efi_find_handle(e, dev, unit) ==
  LET S == {i \in DOMAIN e : e[i].dev = dev /\ e[i].unit = unit} IN IF S = {} THEN 0 ELSE e[Min(S)].handle
efi_handle_lookup(e, h) ==
  LET S == {i \in DOMAIN e : h \in {e[i].handle, e[i].alias}} IN IF S = {} THEN <<>> ELSE <<e[Min(S)].dev, e[Min(S)].unit>>
\* main(): the device the loader was started from
EfiCurrdev(in) == efi_handle_lookup(EfiEntries(in), in.started)

------------------------------------------------------------------------------
NoAnswer == <<"none">>
Answer(in) ==
  CASE in.kind = "bd" -> BdIo(in) [] in.kind = "cd" -> CdRead(in) [] in.kind = "efi" -> EfiRead(in)
    [] in.kind = "name" -> getdev(in.name, in.currdev, in.drivers, in.efi)
    [] in.kind = "boot" -> <<"dev", Currdev(in)>>
    [] OTHER -> <<"handle", EfiCurrdev(in)>>
IoStep == ioOut = NoAnswer /\ ioOut' = Answer(ioIn) /\ UNCHANGED ioIn
IoInit(S) == ioIn \in S /\ ioOut = NoAnswer

\* what the transfers put into the buffer: block of the request, block of the
\* disk
Into(ts) == UNION {{<<ts[k].from + i, ts[k].lba + i>> : i \in 0 .. ts[k].n - 1} : k \in DOMAIN ts}
Wanted(in, per) == {<<i, in.dblk \div per + i>> : i \in 0 .. in.blks \div per - 1}
\* BdRight: a request to a BIOS disk gets every block where it belongs, or an
\* error if a transfer has failed three times or the BIOS cannot address it;
\* no transfer leaves a track, and none of a floppy leaves 64 KB.
BdRight ==
  ioIn.kind = "bd" =>
    CASE ioOut = NoAnswer -> TRUE
      [] ioOut[1] = "ok" ->
           /\ Into(ioOut[2]) = Wanted(ioIn, 1)
           /\ \A k \in DOMAIN ioOut[2] :
                LET t == ioOut[2][k]
                IN  /\ t.lba \div ioIn.sec = (t.lba + t.n - 1) \div ioIn.sec
                    /\ t.at < M1
                    /\ ioIn.floppy => t.at \div K64 = (t.at + 2 * t.n - 1) \div K64
      [] OTHER -> \/ \E k \in DOMAIN ioIn.fails : ioIn.fails[k] >= MaxRetry
                  \/ ~ ioIn.edd /\ (ioIn.dblk + ioIn.blks - 1) \div (ioIn.sec * ioIn.hds) > 1023
\* CdReadRight: a read of a CD that succeeds has filled the buffer.
CdReadRight == (ioIn.kind = "cd" /\ ioOut[1] = "ok") => Into(ioOut[2]) = Wanted(ioIn, CdBlk)
\* CdRight: it has when no transfer failed three times.
CdRight == (ioIn.kind = "cd" /\ \A k \in DOMAIN ioIn.fails : ioIn.fails[k] < MaxRetry) => CdReadRight
\* EfiRight: a read of an EFI medium, whatever its block size, is right or is
\* an error if a block of it cannot be read.
EfiRight ==
  ioIn.kind = "efi" =>
    LET blocks == ioIn.dblk \div ioIn.bs .. (ioIn.dblk + ioIn.blks - 1) \div ioIn.bs
    IN  CASE ioOut = NoAnswer -> TRUE
          [] ioOut[1] = "ok" -> Into(ioOut[2]) = Wanted(ioIn, 1) /\ blocks \cap ioIn.bad = {}
          [] OTHER -> blocks \cap ioIn.bad # {} \/ \E b \in blocks : b > ioIn.last
\* NamesRight: the name of a device is read back as that device; a name
\* without a device is a path of the current one; the current device is the
\* one the loader was started from.
NamesRight ==
  /\ ioIn.kind = "name" /\ ioOut[1] = "ok" =>
       /\ parsedev(fmtdev(ioOut[2]), ioIn.drivers, ioIn.efi) = <<"ok", ioOut[2], <<>>>>
       /\ ioIn.want # <<>> => ioOut = <<"ok">> \o ioIn.want
  /\ ioIn.kind = "boot" /\ ioOut # NoAnswer =>
       LET d == ioOut[2]
       IN  /\ parsedev(fmtdev(d), {"disk", "cd", "pxe"}, FALSE) = <<"ok", d, <<>>>>
           /\ ioIn.want \in ioIn.bios => bd_init(ioIn)[d.unit + 1] = ioIn.want
  /\ ioIn.kind = "handle" /\ ioOut # NoAnswer /\ ioOut[2] # <<>> =>
       efi_find_handle(EfiEntries(ioIn), ioOut[2][1], ioOut[2][2])
         \in {ioIn.started} \cup {b.parent[1] : b \in {ioIn.blk[i] : i \in {i \in DOMAIN ioIn.blk : ioIn.blk[i].h = ioIn.started /\ ioIn.blk[i].parent # <<>>}}}

\* IoRight: the four of them.
IoRight == BdRight /\ CdRight /\ EfiRight /\ NamesRight
=============================================================================
