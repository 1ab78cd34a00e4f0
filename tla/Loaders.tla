------------------------------ MODULE Loaders ------------------------------
(***************************************************************************)
(* The boot manager in the master boot record (pc32/boot0/boot0.S), and    *)
(* what the next program finds in the table it leaves on the disk: mbr.S   *)
(* and boot1.S choose a slice by its flag.                                 *)
(*                                                                         *)
(* Entries are numbered from 0 as boot0 does; option NextDrive (F5) goes   *)
(* on to the next drive.                                                   *)
(*                                                                         *)
(* How the first stages get sectors: the boot partition of a GPT (pmbr.S), *)
(* sectors by cylinder, head and sector (boot1.S read), the loader's file  *)
(* on a CD (cdboot.S).                                                     *)
(***************************************************************************)
EXTENDS Integers, Sequences, FiniteSets

CONSTANTS
  B0Entries,   \* entries of the table, 0 .. n - 1
  B0Drives,    \* largest number of drives the BIOS may report
  B0Ticks,     \* _TICKS: ticks until the default is taken
  B0Clock      \* the clock counts modulo this (2^16)

NextDrive == Cardinality(B0Entries)
Options == 0 .. NextDrive
None0 == -1

VARIABLES
  disk0,   \* the sector on disk: [type, active, opt]
  mem0,    \* its copy in memory
  conf0,   \* what does not change: [enabled, update, drives, drive, bad]
  menu0,   \* _MNUOPT: the options displayed
  next0,   \* _NXTDRV
  time0,   \* [now, until]
  pc0,     \* "start", "wait" (main.8), "key" (main.11), "booted"
  boot0,   \* what was started: [opt, drive]
  hist0    \* history: [failed |-> an earlier choice could not be read,
           \*           wrote |-> the table was written for the last choice]

vars0 == <<disk0, mem0, conf0, menu0, next0, time0, pc0, boot0, hist0>>

------------------------------------------------------------------------------
(* Choosing a slice from a table.                                            *)

Bsd == "bsd"
\* mbr.S: the only active entry; any other number of them is an error
MbrSlice(t) ==
  LET on == {e \in B0Entries : t.active[e]}
  IN  IF Cardinality(on) = 1 THEN CHOOSE e \in on : TRUE ELSE None0

\* boot1.S: the first active slice of ours, then the first
Boot1Slice(t) ==
  LET bsd == {e \in B0Entries : t.type[e] = Bsd}
      on == {e \in bsd : t.active[e]}
      First(S) == CHOOSE e \in S : \A f \in S : e <= f
  IN  IF on # {} THEN First(on) ELSE IF bsd # {} THEN First(bsd) ELSE None0

------------------------------------------------------------------------------
(* boot0.                                                                    *)

\* the drive BIOS passed, or the one set in the sector; without a valid drive
\* nothing is written back
Drive == IF conf0.set # None0 THEN conf0.set ELSE IF conf0.drive # None0 THEN conf0.drive ELSE 0
MayWrite == conf0.update /\ (conf0.set # None0 \/ conf0.drive # None0)

\* no entry that is disabled, empty or an extended partition
Shown == {e \in B0Entries : e \in conf0.enabled /\ mem0.type[e] \notin {"free", "extended"}}
\* the drive behind this one, else the first; none if this is the only one
OtherDrive ==
  IF Drive + 1 < conf0.drives THEN Drive + 1
  ELSE IF Drive + 1 = 1 THEN None0 ELSE 0

\* Mutant: the flags stay as they are
ClearedNot(t) == t
Cleared(t) == [t EXCEPT !.active = [e \in B0Entries |-> FALSE]]

Menu ==
  /\ pc0 = "start"
  /\ mem0' = Cleared(mem0)
  /\ menu0' = Shown \cup (IF OtherDrive = None0 THEN {} ELSE {NextDrive})
  /\ next0' = OtherDrive
  /\ time0' = [time0 EXCEPT !.until = (time0.now + B0Ticks) % B0Clock]
  /\ pc0' = "wait"
  /\ UNCHANGED <<disk0, conf0, boot0, hist0>>

\* main.12 to main.15: the option is one displayed, or the bell; the choice is
\* flagged and written back, whether or not the write succeeds; what cannot be
\* read or is not bootable counts as a bad choice, and its flag stays
Flagged(t, o) == IF o = NextDrive THEN t ELSE [t EXCEPT !.active[o] = TRUE]
Select(o) ==
  IF o \notin menu0
  THEN pc0' = "key" /\ UNCHANGED <<disk0, mem0, boot0, hist0>>
  ELSE LET t == [Flagged(mem0, o) EXCEPT !.opt = o]
       IN  /\ mem0' = t
           /\ \E ok \in {TRUE, FALSE} :
                /\ ok => MayWrite
                /\ disk0' = IF ok THEN t ELSE disk0
                /\ IF o \in conf0.bad
                   THEN pc0' = "key" /\ hist0' = [failed |-> TRUE, wrote |-> ok] /\ UNCHANGED boot0
                   ELSE /\ pc0' = "booted"
                        /\ boot0' = [opt |-> o, drive |-> IF o = NextDrive THEN next0 ELSE Drive]
                        /\ hist0' = [hist0 EXCEPT !.wrote = ok]

\* the clock is looked at between keys; until is compared as a number
Wait ==
  /\ pc0 = "wait" /\ time0.now < time0.until
  /\ time0' = [time0 EXCEPT !.now = (@ + 1) % B0Clock]
  /\ UNCHANGED <<disk0, mem0, conf0, menu0, next0, pc0, boot0, hist0>>

Timeout ==
  /\ pc0 = "wait" /\ ~ time0.now < time0.until
  /\ Select(mem0.opt)
  /\ UNCHANGED <<conf0, menu0, next0, time0>>

\* a key stands for an option, Enter for the default; any other rings the bell
Key(o) ==
  /\ pc0 \in {"wait", "key"}
  /\ Select(o)
  /\ UNCHANGED <<conf0, menu0, next0, time0>>
Enter == Key(mem0.opt)
BadKey ==
  /\ pc0 \in {"wait", "key"}
  /\ pc0' = "key"
  /\ UNCHANGED <<disk0, mem0, conf0, menu0, next0, time0, boot0, hist0>>

------------------------------------------------------------------------------
\* B0Init(T, C): a table of T, on a machine of C, started at any time
B0Init(T, C) ==
  /\ disk0 \in T /\ conf0 \in C
  /\ mem0 = disk0
  /\ menu0 = {} /\ next0 = None0
  /\ time0 \in [now : 0 .. B0Clock - 1, until : {0}]
  /\ pc0 = "start"
  /\ boot0 = [opt |-> None0, drive |-> None0]
  /\ hist0 = [failed |-> FALSE, wrote |-> FALSE]

B0Next == Menu \/ Wait \/ Timeout \/ (\E o \in Options : Key(o)) \/ Enter \/ BadKey

------------------------------------------------------------------------------
\* What is started was offered, and is on a drive that exists.
StartedRight ==
  pc0 = "booted" =>
    /\ boot0.opt \in menu0
    /\ boot0.opt # NextDrive => conf0.enabled \cap {boot0.opt} # {} /\ disk0.type[boot0.opt] # "free"
    /\ boot0.drive \in 0 .. conf0.drives - 1
\* The table on disk differs from the one there was in flags and default only;
\* and if it was written for the choice, and no choice before it failed, it
\* makes the programs after boot0 take the slice chosen.
TableRight ==
  /\ disk0.type = mem0.type
  /\ (pc0 = "booted" /\ hist0.wrote) =>
       /\ disk0.opt = boot0.opt
       /\ (boot0.opt # NextDrive /\ ~ hist0.failed) =>
            /\ MbrSlice(disk0) = boot0.opt
            /\ disk0.type[boot0.opt] = Bsd => Boot1Slice(disk0) = boot0.opt

\* Boot0Right: what the manager starts was offered and exists, and the flags it
\* leaves on disk lead mbr and boot1 to the same slice.
Boot0Right == StartedRight /\ TableRight

------------------------------------------------------------------------------
(* Getting sectors.                                                          *)

CONSTANTS
  PmMax,       \* sectors between LOAD and 0x90000
  LdInputs     \* the disks, reads and CDs tried, one record per case

VARIABLES ldIn, ldOut
ldVars == <<ldIn, ldOut>>

------------------------------------------------------------------------------
(* pmbr.S.  A disk is a function on sectors: <<"hdr", [lba, n]>>, <<"ents",  *)
(* sequence of [boot, start, end]>>, <<"data", k>> or <<"err">>.             *)

Err(e) == [res |-> e, data |-> <<>>]
\* LBA 1, or the last sector if that has no signature; a sector that cannot be
\* read ends it all
Header(disk, last) == IF disk[1][1] \in {"hdr", "err"} THEN disk[1] ELSE disk[last]

\* one sector at a time until the last LBA has been read, from a segment that
\* may not reach 0x9000
LoadBoot(disk, e) ==
  LET n == IF e.end >= e.start THEN e.end - e.start + 1 ELSE PmMax + 1
      \* sectors read before the segment is refused
      tried == IF n > PmMax THEN PmMax ELSE n
      bad == {k \in 0 .. tried - 1 : disk[e.start + k][1] = "err"}
  IN  IF bad # {} THEN Err("read")
      ELSE IF n > PmMax THEN Err("big")
      ELSE [res |-> "boot", data |-> [k \in 1 .. n |-> disk[e.start + k - 1]]]

\* entries are counted down from NPART, a new sector read after each per
ScanTable(disk, hdr, per) ==
  LET Sector(i) == disk[hdr.lba + i \div per]
      scan[i \in 0 .. hdr.n] ==
        IF i = hdr.n THEN Err("noboot")
        ELSE IF Sector(i)[1] # "ents" THEN Err("read")
        ELSE LET e == Sector(i)[2][1 + (i % per)]
             IN  IF e.boot THEN LoadBoot(disk, e) ELSE scan[i + 1]
  IN  scan[0]

Pmbr(in) ==
  LET h == Header(in.disk, in.last)
  IN  CASE h[1] = "err" -> Err("read")
        [] h[1] = "hdr" -> ScanTable(in.disk, h[2], in.per)
        [] OTHER -> Err("table")

\* what a reader of the table would say
PmbrWanted(in) ==
  LET ok == {h \in {in.disk[1], in.disk[in.last]} : h[1] = "hdr"}
      h == IF in.disk[1][1] = "hdr" THEN in.disk[1][2] ELSE in.disk[in.last][2]
      Ent(i) == in.disk[h.lba + i \div in.per][2][1 + (i % in.per)]
      boot == {i \in 0 .. h.n - 1 : Ent(i).boot}
      e == Ent(CHOOSE i \in boot : \A j \in boot : i <= j)
  IN  IF ok = {} THEN Err("table") ELSE IF boot = {} THEN Err("noboot")
      ELSE IF e.end - e.start + 1 > PmMax \/ e.end < e.start THEN Err("big")
      ELSE [res |-> "boot", data |-> [k \in 1 .. e.end - e.start + 1 |-> in.disk[e.start + k - 1]]]

------------------------------------------------------------------------------
(* boot1.S read.1 to read.6: a read of n sectors from lba without packets.   *)
(* in = [heads, spt, lba, n, track, fails]: track is TRACK_AT_A_TIME, fails   *)
(* how often the BIOS fails at the k-th sector asked for.                    *)

\* the registers int 13h takes: CH, the low 8 bits of the cylinder; CL, its
\* high 2 above the sector, counted from 1
ChCl(cyl, sec) == [ch |-> cyl % 256, cl |-> (cyl \div 256) * 64 + sec + 1]
\* and what the BIOS makes of them
BiosLba(in, r, head) == (((r.ch + (r.cl \div 64) * 256) * in.heads + head) * in.spt) + (r.cl % 64) - 1

\* Mutant: a transfer of the whole rest
CountLong(in, sec, left) == IF in.track THEN left ELSE 1
\* a transfer does not go past its track
Count(in, sec, left) ==
  LET rest == in.spt - sec
  IN  IF rest < left THEN rest ELSE IF in.track THEN left ELSE 1

MaxTries == 5
ChsRead(in) ==
  LET from[left \in 0 .. in.n] ==
        IF left = 0 THEN [res |-> "ok", data |-> <<>>]
        ELSE LET lba == in.lba + in.n - left
                 sec == lba % in.spt
                 cyl == (lba \div in.spt) \div in.heads
                 head == (lba \div in.spt) % in.heads
                 at == ChCl(cyl, sec)
                 cnt == Count(in, sec, left)
                 \* head and cylinder stand still while the sector goes on
                 got == [k \in 1 .. cnt |-> BiosLba(in, [at EXCEPT !.cl = @ + k - 1], head)]
                 rest == from[left - cnt]
             IN  IF cyl > 1023 THEN Err("cylinder")
                 ELSE IF in.fails[1] = in.n - left /\ in.fails[2] >= MaxTries THEN Err("read")
                 ELSE [res |-> rest.res, data |-> IF rest.res = "ok" THEN got \o rest.data ELSE <<>>]
  IN  from[in.n]

ChsWanted(in) ==
  [res |-> "ok", data |-> [k \in 1 .. in.n |-> in.lba + k - 1]]

------------------------------------------------------------------------------
(* cdboot.S.                                                                 *)

\* a name in a record: without a version (`;' and digits), then without a dot
\* at its end.  A name of digits alone is left as it is.
Digits == {"1", "2"}
VersionAt(name) ==
  LET nd == {i \in 1 .. Len(name) : name[i] \notin Digits}
  IN  IF nd = {} THEN 0 ELSE CHOOSE i \in nd : \A j \in nd : j <= i
Stripped(name) ==
  LET v == VersionAt(name)
      semi == v # Len(name) /\ name[v] = ";"
      n == IF semi THEN v - 1 ELSE Len(name)
  IN  IF v = 0 THEN name
      ELSE IF n > 0 /\ name[n] = "." THEN SubSeq(name, 1, n - 1)
      ELSE SubSeq(name, 1, n)

\* repe cmpsb, then a test of the count that is left: the last characters may
\* differ
CmpName(a, b) == Len(a) = Len(b) /\ \A i \in 1 .. Len(a) - 1 : a[i] = b[i]

\* find_file: blocks of a directory; a record of length 0 or the end of what
\* the records fill ends a block, and behind a block that is full stands what
\* the memory held before (after: "zero" or "junk")
FindFile(dir, name) ==
  LET nb == Len(dir.blocks)
      blk[b \in 1 .. nb + 1] ==
        IF b > nb THEN [res |-> "none", rec |-> 0]
        ELSE LET recs == dir.blocks[b].recs
                 hit == {i \in 1 .. Len(recs) : CmpName(Stripped(recs[i].name), name)}
             IN  IF hit # {} THEN [res |-> "found", rec |-> recs[CHOOSE i \in hit : \A j \in hit : i <= j].to]
                 ELSE IF dir.blocks[b].full /\ b < nb /\ dir.after = "junk" THEN [res |-> "junk", rec |-> 0]
                 ELSE blk[b + 1]
  IN  blk[1]

\* the volume descriptors up to the primary one or the last; then the path
CdLookup(in) ==
  LET prim == {i \in 1 .. Len(in.vds) : in.vds[i] = "primary"}
      end == {i \in 1 .. Len(in.vds) : in.vds[i] = "end"}
      step[k \in 0 .. Len(in.path)] ==
        IF k = 0 THEN [res |-> "found", rec |-> in.root]
        ELSE IF step[k - 1].res # "found" THEN step[k - 1]
        ELSE FindFile(in.dirs[step[k - 1].rec], in.path[k])
  IN  IF ~ \E i \in prim : \A j \in end : i < j THEN [res |-> "novd", rec |-> 0]
      ELSE step[Len(in.path)]

\* load_sizeok: up to 0x100 sectors, counted in a byte, one at a time
BUFFER_LEN == 256
CdSectors(bytes) == (bytes + 2047) \div 2048
CdLoad(bytes) ==
  IF CdSectors(bytes) > BUFFER_LEN THEN Err("big")
  ELSE [res |-> "ok", data |-> [k \in 1 .. CdSectors(bytes) % 256 |-> k - 1]]

CdBoot(in) ==
  LET at == CdLookup(in)
  IN  IF at.res # "found" THEN Err(at.res) ELSE CdLoad(at.rec)

------------------------------------------------------------------------------
NotLoaded == Err("")
LdResult(in) ==
  CASE in.kind = "pmbr" -> Pmbr(in) [] in.kind = "chs" -> ChsRead(in) [] in.kind = "cd" -> CdBoot(in)
Fetch ==
  /\ ldOut = NotLoaded
  /\ ldOut' = LdResult(ldIn)
  /\ UNCHANGED ldIn
LdInit(S) == ldIn \in S /\ ldOut = NotLoaded

\* pmbr loads the boot partition of the first table with a signature, whole
\* and in order; it gives up early only where a sector cannot be read.
PmbrRight ==
  (ldIn.kind = "pmbr" /\ ldOut # NotLoaded /\ ldOut.res # "read") => ldOut = PmbrWanted(ldIn)
\* A read without packets brings the sectors asked for; it fails only past
\* cylinder 1023 or when the BIOS keeps failing.
ChsRight ==
  (ldIn.kind = "chs" /\ ldOut # NotLoaded) =>
    IF (ldIn.lba + ldIn.n - 1) \div (ldIn.spt * ldIn.heads) > 1023 THEN ldOut.res = "cylinder"
    ELSE \/ ldOut = ChsWanted(ldIn)
         \/ ldOut.res = "read" /\ ldIn.fails[2] >= MaxTries
\* a name of the CD is a twin of one of the path: only its end differs
Twins(in) ==
  \E d \in DOMAIN in.dirs, k \in 1 .. Len(in.path) : \E b \in 1 .. Len(in.dirs[d].blocks) :
    \E i \in 1 .. Len(in.dirs[d].blocks[b].recs) :
      LET name == Stripped(in.dirs[d].blocks[b].recs[i].name)
      IN  name # in.path[k] /\ CmpName(name, in.path[k])
\* cdboot loads all sectors of the file the path names, whatever version it
\* has, unless the memory behind a full directory block was taken for a record,
\* the CD has twins of the names or the file is one the byte cannot count.
CdRight ==
  (ldIn.kind = "cd" /\ ldOut # NotLoaded /\ ldOut.res # "junk" /\ ~ Twins(ldIn)) =>
    IF ldIn.want = -1 THEN ldOut.res \in {"none", "novd"}
    ELSE IF CdSectors(ldIn.want) > BUFFER_LEN THEN ldOut.res = "big"
    ELSE CdSectors(ldIn.want) < BUFFER_LEN =>
           ldOut = [res |-> "ok", data |-> [k \in 1 .. CdSectors(ldIn.want) |-> k - 1]]

\* FetchedRight: what the first stages bring into memory is what the disk or
\* CD holds under that name or number, whole and in order.
FetchedRight == PmbrRight /\ ChsRight /\ CdRight

-----------------------------------------------------------------------------
(***************************************************************************)
(* How the stages move each other through memory: boot1.S, gptldr.S,       *)
(* cdboot.S, pxeldr.S and btxldr.S copy BTX, its client and the arguments  *)
(* from where the BIOS or the stage before left them to where they run,    *)
(* some of it over itself.                                                 *)
(*                                                                         *)
(* Memory is a function on addresses in units of 16 bytes (a paragraph),   *)
(* at the addresses of bootasm.h; the arguments are in words.              *)
(***************************************************************************)

CONSTANT MvInputs   \* what is to be moved, one record per case

VARIABLES mvIn, mvOut
mvVars == <<mvIn, mvOut>>

\* bootasm.h, in units of 16 bytes
MEM_BIOS_LADDR == 1984   \* 0x7c00
MEM_BTX_ORG == 2304      \* 0x9000
MEM_BTX_USR == 2560      \* 0xa000
MEM_PAGE == 256
SEC == 32                \* 512 bytes

------------------------------------------------------------------------------
(* The machine: rep movsb upwards and downwards, rep stos.  What is read     *)
(* after it was overwritten is what was written there: a copy over itself in *)
(* the wrong direction repeats its beginning.                                *)

Free == <<"free", 0>>
ZeroUnit == <<"zero", 0>>
Empty(lo, hi) == [a \in lo .. hi |-> Free]
Put16(mem, at, name, n) == [a \in DOMAIN mem |-> IF a \in at .. at + n - 1 THEN <<name, a - at>> ELSE mem[a]]
Movsb(mem, s, d, n) ==
  [a \in DOMAIN mem |->
    IF a \notin d .. d + n - 1 THEN mem[a]
    ELSE IF d > s /\ d < s + n THEN mem[s + ((a - d) % (d - s))] ELSE mem[s + a - d]]
\* s and d are the last unit of each
MovsbDown(mem, s, d, n) ==
  [a \in DOMAIN mem |->
    IF a \notin d - n + 1 .. d THEN mem[a]
    ELSE IF d < s /\ s < d + n THEN mem[s - ((d - a) % (s - d))] ELSE mem[s - (d - a)]]
\* Mutant: upwards
CopyUp(mem, s, d, n) == Movsb(mem, s - n + 1, d - n + 1, n)
\* gptldr.S sets the direction, as the two may overlap
Copy(mem, s, d, n) == MovsbDown(mem, s, d, n)
Stos(mem, d, n) == [a \in DOMAIN mem |-> IF a \in d .. d + n - 1 THEN ZeroUnit ELSE mem[a]]

Is(mem, at, name, n) == \A k \in 0 .. n - 1 : mem[at + k] = <<name, k>>

------------------------------------------------------------------------------
(* boot1.S main.5: nsect sectors are read to BOOT2_LOAD_BUF: boot1 or what   *)
(* is before boot2 in a disklabel64, the label, BTX at MEM_BTX_ORG, boot2.   *)
(* boot2 is moved up to its origin.                                          *)

BOOT2_ORG == MEM_BTX_USR + 512   \* MEM_BTX_USR + BOOT2_VORIGIN
Boot1Move(in) ==
  LET start == MEM_BTX_ORG + in.btx
      read == Put16(Put16(Empty(MEM_BIOS_LADDR, 4095), MEM_BTX_ORG, "btx", in.btx), start, "boot2", in.client)
  IN  Movsb(read, start, BOOT2_ORG, MEM_BTX_ORG + (in.nsect - 1) * SEC - start)

\* gptldr.S: BTX and boot2 are right behind; boot2 first, by blocks from its
\* end, then BTX from its end
GptldrMove(in) ==
  LET end == MEM_BIOS_LADDR + in.ldr
      boot2 == end + in.btx
      blk == in.blk
      read == Put16(Put16(Empty(MEM_BIOS_LADDR, MEM_BTX_USR + 5 * blk), end, "btx", in.btx), boot2, "boot2", in.client)
      Block(mem, b) == Copy(mem, boot2 + b * blk - 1, MEM_BTX_USR + b * blk - 1, blk)
  IN  Copy(Block(Block(Block(Block(read, 4), 3), 2), 1),
           end + in.btx - 1, MEM_BTX_ORG + in.btx - 1, in.btx)

\* cdboot.S load_done and pxeldr.S: the loader is an a.out file with a page of
\* header at in.at; its data starts at the next page.  The bss is cleared by
\* longs, their number rounded up in the low byte alone.
BssLongs(bytes) == ((bytes - (bytes % 256)) + (((bytes % 256) + 3) % 256)) \div 4
RoundPage(a) == ((a + MEM_PAGE - 1) \div MEM_PAGE) * MEM_PAGE
AoutMove(in) ==
  LET file == Put16(Put16(Empty(in.at, in.entry + in.text + in.data + in.bss \div 16 + 2 * MEM_PAGE),
                          in.at + MEM_PAGE, "text", in.text), in.at + MEM_PAGE + in.text, "data", in.data)
      data == RoundPage(in.entry + in.text)
      text == Movsb(file, in.at + MEM_PAGE, in.entry, in.text)
      both == Movsb(text, in.at + MEM_PAGE + in.text, data, in.data)
      clear == Stos(both, data + in.data, BssLongs(in.bss) \div 4)
  IN  \* BTX is in the text, a page behind the entry point
      Movsb(clear, in.entry + MEM_PAGE, MEM_BTX_ORG, in.btx)

\* the arguments, from where they were built to MEM_BTX_USR_ARG, the entry
\* point behind them; btx_client pushes them from their end, then the entry
\* point and a place for a return address; exec takes the latter two off
\* again and calls (btx.S intx30)
BtxClient(args, entry) == <<"junk", entry>> \o args
ExecCall(stack) == [entry |-> stack[2], stack |-> <<"ret">> \o SubSeq(stack, 3, Len(stack))]

\* btxldr.S start: bootinfo at the top of the user stack, the arguments at a
\* fixed offset below it; words counted from the top downwards are -1, -2 ...
BtxldrArgs(in) ==
  LET mem == Empty(- in.space, - 1)
      bi == IF in.bi = 0 THEN mem ELSE Put16(mem, - in.bi, "bootinfo", in.bi)
  IN  Put16(bi, - in.offset, "arg", in.args + in.ext)

\* btxldr.S: BTX from behind the loader, then the first two PT_LOAD segments
\* of the ELF file behind it
BtxldrSegs(in) ==
  LET load == SelectSeq(in.segs, LAMBDA s : s.load)
      n == IF Len(load) < 2 THEN Len(load) ELSE 2
      base == Empty(MEM_BTX_ORG, MEM_BTX_USR + in.top)
      One(mem, s) == Stos(Put16(mem, MEM_BTX_USR + s.vaddr, s.name, s.filesz),
                          MEM_BTX_USR + s.vaddr + s.filesz, s.memsz - s.filesz)
      after[k \in 0 .. n] == IF k = 0 THEN Put16(base, MEM_BTX_ORG, "btx", in.btx) ELSE One(after[k - 1], load[k])
  IN  after[n]

------------------------------------------------------------------------------
\* the part of memory that matters, so that outcomes are small: what stands at
\* the places where programs and data are expected
MvResult(in) ==
  CASE in.kind = "boot1" ->
         LET m == Boot1Move(in) IN <<Is(m, MEM_BTX_ORG, "btx", in.btx), Is(m, BOOT2_ORG, "boot2", in.client)>>
    [] in.kind = "gptldr" ->
         LET m == GptldrMove(in) IN <<Is(m, MEM_BTX_ORG, "btx", in.btx), Is(m, MEM_BTX_USR, "boot2", in.client)>>
    [] in.kind = "aout" ->
         LET m == AoutMove(in)
             data == RoundPage(in.entry + in.text)
             bss == data + in.data
         IN  <<Is(m, in.entry, "text", in.text), Is(m, data, "data", in.data),
               \A k \in 0 .. in.bss \div 16 - 1 : m[bss + k] = ZeroUnit,
               \A k \in 0 .. in.btx - 1 : m[MEM_BTX_ORG + k] = <<"text", MEM_PAGE + k>>,
               ExecCall(BtxClient(in.args, in.entry)) = [entry |-> in.entry, stack |-> <<"ret">> \o in.args]>>
    [] in.kind = "btxldr" ->
         LET a == BtxldrArgs(in)
             m == BtxldrSegs(in)
             load == SelectSeq(in.segs, LAMBDA s : s.load)
         IN  <<in.bi > 0 => Is(a, - in.bi, "bootinfo", in.bi), Is(a, - in.offset, "arg", in.args + in.ext),
               \A k \in 1 .. Len(load) :
                 /\ Is(m, MEM_BTX_USR + load[k].vaddr, load[k].name, load[k].filesz)
                 /\ \A u \in load[k].filesz .. load[k].memsz - 1 : m[MEM_BTX_USR + load[k].vaddr + u] = ZeroUnit,
               Is(m, MEM_BTX_ORG, "btx", in.btx)>>

NotMoved == <<>>
Move ==
  /\ mvOut = NotMoved
  /\ mvOut' = MvResult(mvIn)
  /\ UNCHANGED mvIn
MvInit(S) == mvIn \in S /\ mvOut = NotMoved

\* boot1 copies boot2 upwards: a boot2 that reaches to its own origin is
\* overwritten before it is copied
OverItself(in) == in.kind = "boot1" /\ MEM_BTX_ORG + in.btx + in.client > BOOT2_ORG

\* MovedRight: each program, its data, cleared memory and arguments are whole
\* where the next stage expects them, but for a boot2 so long that boot1 copies
\* it over itself.
MovedRight == \A i \in 1 .. Len(mvOut) : mvOut[i] \/ (i = 2 /\ OverItself(mvIn))
==============================================================================
