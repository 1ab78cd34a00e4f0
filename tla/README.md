# TLA+ models of the BLUB boot loader

BLUB is the boot loader of DragonFly BSD with GPT support: the programs that
run between the firmware and the kernel (`src/src/sys/boot`), the library they
are built on (`src/src/lib/libstand`) and `fgdisk`, the GPT editor of the
running system (`src/src/sbin/fgdisk`). This directory models them, checks the
models with TLC on small instances and proves the most important results with
TLAPS. `PROJECT.json` is the index: components, runs, mutants, the lines each
definition models, findings, hazards and theorems.

Paths below are relative to `src/src/`.

## 1. Inventory

### How the parts fit together

A BIOS boot goes `boot0.S` or `mbr.S` -> `boot1.S` -> **boot2** -> loader ->
kernel, or with a GPT `pmbr.S` -> `gptldr.S` -> **gptboot** -> loader -> kernel;
a CD starts with `cdboot.S`, the network with `pxeldr.S`, and all of these run
the 32 bit programs under **BTX**. On EFI it goes **boot1.efi** -> loader.efi ->
kernel. The stages share the disk and a few registers. gptboot picks a
partition from the GPT's boot attributes and records in the GPT, before it
boots a BOOTONCE partition, that it has done so; start-up scripts of the kernel
read and change the same attributes with **fgdisk**, and so does the
administrator. The GPT is therefore shared state of two programs that never run
at the same time, either of which may be interrupted between two sector writes,
and each has to cope with what the other left behind.

The loader proper is a single thread of control that calls down a stack:
commands (`common/commands.c`, `dloader/`) -> modules (`common/module.c`) ->
file descriptors (`libstand/open.c`, `read.c`) -> file systems -> devices ->
either the block cache and the BIOS or EFI disk driver, or the network device.
Network file systems (`tftp.c`, `nfs.c`) wait for packets in `sendrecv()` and
are exposed to loss, delay, duplication and reordering. What is hard in the
rest is state that outlives a call: buffers that remember what they hold, lists
with reference counts, positions kept at three levels, flags of nested
conditionals, and calls that fail half-way.

### Components

| Component | State it keeps | Why it is hard | What makes it correct | Module |
|---|---|---|---|---|
| GPT selection (`common/gpt.c`), gptboot | two tables in core, `curent`, `bootonce`, `dsk`; the GPT on disk | power failure between sectors; copies that disagree; three search passes over shared cursors; /boot.config restarts the search | a copy survives; BOOTONCE is honoured once; priority order; the boot ends | GptBoot |
| fgdisk media map (`map.c`) | ordered list of segments | alignment, ends of the medium | segments tile the medium | MediaMap |
| fgdisk commands | the GPT on disk, its image in core | crash between and inside writes, failed writes overlooked, media that grew | a copy survives; partitions and boot images never overlap; recover and migrate lose nothing | Fgdisk |
| Partition tables, slices (`part.c`, `disk.c`) | list of opened disks with counts | two copies that differ; nested tables; media that change | what failed its check is not used; I/O stays in the partition | PartTable, Disks |
| Block cache (`bcache.c`) | blocks, their numbers, ages and times | the same block twice, staleness by time, requests that bypass it | a read returns what the disk holds | BlockCache |
| Disk drivers, device names (`biosdisk.c`, `bioscd.c`, `efipart.c`, `devicename.c`) | geometry, bounce buffer | 64 KB and track boundaries, retries | the sectors asked for, where they were asked for | DiskIo |
| File descriptors, gzipfs, bzipfs, splitfs | table of files, read-ahead, position at each level | seek by re-reading, opens that nest and fail | `FileSpec`; no descriptor is lost | Files, OpenFiles |
| File systems | position, a few block buffers | buffers kept between calls and shared, transfers that fail | a path leads to its file, a read to its bytes | Ffs, Dosfs, Cd9660, Hammer1, Hammer2 |
| TFTP, UDP | a handle per file; one iodesc | late answers, retries | what is read is what the file holds; every call ends | Tftp |
| ARP; RPC and NFS | table of addresses; transaction number, ports | late replies, answers while waiting | a reply belongs to its question | Arp, Nfs |
| Network device, BOOTP/DHCP, RARP, bootparam, PXE | one socket, its opens, the parameters | several servers, fall-back between protocols | the address is one its server keeps; sockets are given back; opening ends | NetDev |
| Allocator; memory maps | free list; heap, staging area | merging; firmware that says little | no two live blocks overlap; heap and kernel do not meet | Memory |
| Modules, boot, autoboot; ELF | list of files, load address, metadata | dependencies that fail half-way, cycles; overlapping pages | what is in the list is in memory, what failed is not | Modules, Elf |
| Boot information | the kernel's arguments in memory, EFI map key | map key that becomes stale | the kernel finds everything, once, and nothing over it | Bootinfo |
| Interpreter, dloader, console | conditions, menu, variables with hooks, active consoles | conditions changed in place, includes that fail | what was written is executed | Interp, Script |
| Screens and serial line | cursor, escape state; divisor, variables | sequences that are not understood; ports that are not there | the screen shows the text; port and variables agree | Term |
| boot0, mbr; boot1, pmbr, cdboot; movers | flags and choice on disk; nothing | time-outs, failed reads; overlapping moves, segment arithmetic | what was chosen is started, whole, where it belongs | Loaders |
| boot2; EFI boot1 | device, options, names; list of devices | names into buffers that are used again; devices that fail | what was asked for is started | Boot2, EfiBoot1 |
| BTX | stacks of two modes | interrupts at any moment | the client keeps its registers | Btx |
| Check sums, division, formatting | none | tables, half words, field widths, buffer ends | the reference definition | Arith |

`PROJECT.json` has the list with every source file and, under "hazards", the
places where things can go wrong that a test would hardly reach.

## 2. Modules

One module per component. The instances for TLC are `MCGptBoot`, `MCFgdisk` and
`MCTftp`, and five that put the components of a layer side by side: `MCFiles`,
`MCNet`, `MCLoader`, `MCStages` and `MCServices`. In these a variable
(`filesPart`, `fsPart`, `netPart`, `loaderPart`, `stage`, `part`) chosen at the
start says which component moves; the others stay in one initial state. It is a
set of separate models checked in one run, not an interleaving: the code of a
layer is sequential, and no step of one part enters the guard of another.
Modules that really compose share state through `EXTENDS`: `PartTable` reads
the disks `Fgdisk` leaves behind, `Fgdisk` stands on `MediaMap`, and `Files`
takes the descriptors below it to be what `FileSpec` promises.

Components that are algorithms on one input (`Arith`, `DiskIo`, most of `Loaders`, part of `Memory` and `Term`) have a variable
with the input, chosen from a set, and one with the result; the property
compares it with a reference definition that is not the code's.

### GptBoot

*State.* `tbl[c]` and `crc[c]` are the two copies of the GPT on the disk. A
checksum is modelled by the table it was computed from, so a copy is torn
exactly when `tbl[c] # crc[c]`. `mem`, `valid`, `curent` and `bootonce` are the
static variables of `gpt.c`; `part`, `start` and `sb` are `dsk.part`,
`dsk.start` and the origin of the superblock in core; `pc`, `call`, `uuid` and
`autoboot` are the control state of `main()` and `gptinit()`. `pend[c]` holds
the sectors that the running `gptupdate()` or `gptbootconv()` has still to
write: everything else waits until they are out (`Idle`), which is the
sequential order of the code with a step for every sector.

*Actions.* `GptRead` is `gptread()` with `gptbootconv()`; `GptInitFind` one
iteration of `gptinit()`; `Probe` the top of the boot loop with `/boot.config`;
`KeyHit`/`NoKey` the three seconds; `Exec`/`LoadFails` the `load()` calls, the
latter with `gptbootfailed()`; `NextPart` the search for the next partition;
`UserSelect`, `UserBoot`, `PromptLoadFails` the prompt. `Reset`, `WriteFails`
and `GptReadFails` are the faults, and `OsFlag` is `fgdisk flag` of the running
system.

*Abstractions.* What is on a partition is a layout chosen at the start. A
partition read through the superblock of another one (`Alien`) may do anything
that a `load()` may do. Memory is lost at a reset and given up at `__exec()`.

### MediaMap and Fgdisk

`MediaMap` has one operator per function of `map.c`; a map is a sequence of
segments with start, size, type and index, and `Null` is the error return.

*State of `Fgdisk`.* The disk is the MBR, two headers and two tables; a header
keeps the number of entries, the address of the other header and the table its
checksum was computed from. A command first opens the disk: `gpt_open` adds
what `gpt_mbr` and `gpt_gpt` find to the media map, in the order of the code. What the command
decides is the image `mem` of both copies and the list `todo` of its writes,
which then go out one by one (`Write`); `left` are the entries that remove,
label, rename and flag have still to go through. `Crash` may come at any moment
and, in the middle of a table, leaves some of its sectors written; `WriteFails`
is a `gpt_write()` whose error only destroy looks at; `Grow` moves the disk's
contents to a larger medium.

*Abstractions.* Names, type GUIDs and attributes are one tag; label and flag
are one command. Extended MBR partitions and failed reads are left out. A
"resize" on a disk whose MBR still describes partitions is a command of its own
(`resize_hybrid`), so that a run can leave it out: see section 4.

`Install` is boot (`installboot`) and efi (`installefi`): the MBR's boot code
first, then the boot partition, found (`gpt_lookup`) or added, a look at its
size (`BigEnough`), and the image into its sectors. Each is a write of its own
that can fail; `Disjoint` says where the image may go.

`PartTable` composes the loader with fgdisk: `ptable_open` and `ptable_gptread`
are what `part.c` makes of the disk in any state of `Fgdisk`, with the one
buffer both tables are read into. They change nothing, so they are operators
and not actions.

### BlockCache

`slot` is `bcache_ctl` with `bcache_data`, `req` the request being served. A
request begins (`Begin`: the flush when the unit changes, and the choice between
cache and bypass), looks its blocks up one by one (`Lookup`, while time may pass
and a floppy may be changed), and is completed run by run of missing blocks
(`Fill`: transfer and insertion) or fails. `WriteThrough` is `write_strategy()`.
Numbers in the cache are those of the code: the sector plus the index of the
block, whatever the size of a sector (`SecBlks`). `recent` and `astray` are
history: the contents media changes have taken away lately, and whether a write
failed or went past the cache, after which the model stops. With `SecBlks = 2`
`ReadRight` does not hold: a disk with sectors of 4096 bytes (`biosdisk.c:356`)
shares cache numbers between neighbouring sectors; the theorem about it has
`SecBlks = 1` as its hypothesis.

### Tftp

*State.* `hs[h]` is a `struct tftp_handle`: the current block, whether it is
the last one, its length, the offset, and what is in `lastdata` (a block is
modelled by its file and number). `io` is the one `struct iodesc`, `tx` the
local variables of `sendrecv()` and `recvtftp()`, `net` the set of all packets
ever sent: each may arrive any number of times, in any order, or never. `sess`
are the transfers the server has started, one for every copy of a request that
reaches it, as in RFC 1350.

*Actions.* The four calls; the steps of `tftp_read()` (`ReadLoop`, `Fetch`,
`Copy`, `ReadDone`); `Send`, `SendFails`, `TimeOut` and `GiveUp` of
`sendrecv()`; `Receive` for a packet to the client's port and `ReceiveForeign`
for one that `readudp()` refused but left in the buffer, which `recvtftp()`
looks at after an error packet; `Tick`, `ServeRRQ`, `ServeACK`.

*Abstractions.* The client's port is the clock: two requests in the same second
have the same port. Offsets count units of which `SEG` make a block; a block
number on the wire is taken modulo `BlockMod`. `sizeof(struct tftphdr)` comes
from a header outside the repository and is a constant (`MinData`), 1 because
`th_data` is declared with one byte.

### Files, OpenFiles, FileSpec

`FileSpec` is the promise: an open file has a position, a read returns bytes
from it, a seek sets it, a failed call leaves some position. A call that fails
below a compressed or split file may also lose the position (`Lost`): read() and
lseek() have used up or dropped the read-ahead buffer of the descriptor below
when they fail (`read.c:99`, `lseek.c:137`), and nobody counts it. From then on
reads may give bytes from another place (`Astray`), until a seek back of a
compressed file rewinds it (`Regain`) or the file is closed; splitfs has no such
way back. `Files` has the
three positions of the code: the caller's, the read-ahead buffer's
(`read.c`, `lseek.c`) and the file system's, which for gzipfs and bzipfs is
itself reached by decompressing (`zf_read`, `zf_rewind`, `Skipped`) and for
splitfs by walking slices, whose boundaries are the constant `Bounds`. The
history variable `lost` says that the position below is not the one counted;
`AnswersRight` is stated while it is not. `Files!Implements`
is the refinement, with the position mapped to the file system's less what is
still in the buffer, and to where the call began while one is under way.
`OpenFiles` is the table of descriptors: opens nest three deep and fail at any
level for want of memory, of a file or of a descriptor.

### File systems

`Ffs` (ufs and ext2fs, which have one structure, and ufsread.c, the small reader
of the boot blocks; blocks of 1, 2 or 4 sectors, `spb`), `Dosfs`, `Cd9660`, `Hammer1` and `Hammer2`. A disk is a
function from block numbers to what the block holds, in units; a path is a
sequence of names. The actions open, read, seek and close; the transfers of a
call may fail, and what a failed transfer leaves in the buffer is not known.
The buffers that survive calls are the point: indirect blocks, the one FAT
sector, the buffers of hammer1, hammer2's one media buffer.

### Arp, Nfs, NetDev

Packets are a set: each may arrive any number of times, in any order, or never.
`Arp` has the table and the cell behind it. `Nfs` has `rpc_call()` with its
transaction numbers and cache of ports, the port that is taken from an answer
that never came (`StrayPorts`) among them, and above it mount, lookup, links,
reads and listings. `NetDev` has the whole of opening a network device: BOOTP
and DHCP with several servers, RARP and bootparam when these give no address,
and the way back when one of them fails.

### Modules, Elf, Bootinfo, Interp, Script

`Modules` keeps the list of loaded files and the load address; `mod_loadkld()`
calls itself through dependencies, so its activations are a stack. `Elf` turns
the files into memory cells. `Bootinfo` follows a boot from the arguments to the
jump: flags, root file system, ACPI, memory maps (with EFI's retry when the map
key is stale), environment and file list copied behind the last file, page
tables. In `Script` the next line of a script is any line: history variables
follow the blocks and menu items the way they are meant. `Interp` is the one
module that works on characters, because quoting is about these.

### Loaders, Boot2, EfiBoot1, Btx

`Loaders` has a boot by the boot manager boot0, from any table and stored choice, with keys,
ticks of a clock that wraps and disks that do not answer, and with what
`mbr.S` and `boot1.S` make of the table it leaves, and further what pmbr,
boot1 and cdboot find and read, and the copies that put stages in their
place, whose direction matters where source and target overlap. `Boot2` is
boot2's dialogue, of the program for 64 bit labels and of the one for 32 bit
labels (`wide2`), with what `dskprobe()` leaves behind when it fails; the disks
have labels of both kinds, or none. `EfiBoot1` is `boot1.efi`: the probing of all devices, the
preferred one first, and the search for the loader. `Btx` has the two stacks:
interrupts in the client and in a BIOS call, the frames they push and what is
popped again.

### Memory, Disks, DiskIo, Term, Arith

`Memory` is the allocator, call by call, and where heap and staging area go for
any memory map that is true. `Disks` is `disk.c` over tables of all kinds with
media that change. `DiskIo` answers a request in one step: the transfers it is
cut into. `Term` is the emulation of a terminal by `vidconsole.c` and
`efi_console.c`, the line editor, the pager and `keyhit()`, and
`comconsole.c` with the variables that set it up. `Arith` has the
check sums, and formatting with the long division below it.

## 3. Runs

| Run | Instance | What it shows |
|---|---|---|
| `gptboot_faults` | 2 entries in 2 sectors, any 2 faults, any reboots, `fgdisk flag` in between | `DamageBound`, `AttemptOnce`, `BootOnceUnique` |
| `gptboot_order` | 3 entries, no faults, fair | `PriorityOrder`, `EachBootmeTriedSpare`, `BootTerminates` |
| `gptboot_last` | the last slot is a DragonFly partition | finding 1 |
| `fgdisk_crash` | 2 entries, 12 or 13 sectors, 3 MBRs, 2 crashes, growth | `SurvivesCrashes`, `Openable`, `LoaderFinds`, `CommandsKeep` |
| `fgdisk_fail` | 2 entries, aligned arguments, 1 failed write, boot and efi | `SurvivesFailure`, `Disjoint` |
| `fgdisk_stale` | create, add, destroy; 1 crash, 2 creates | finding 2 |
| `tftp_net` | 3 files (two blocks, one, none), 2 client ports, 2 transfers, 1 retry | `ReadsRight`, `EofRight`, `OpenRight`, `CallEnds` |
| `files` | buffer of 3 bytes, 4 kinds of file, 3 slices, 1 failure; 5 descriptors; small disks of 6 file systems, blocks of 1, 2 and 4 sectors, 1 failed transfer | `Implements`, `AnswersRight`, `CallsReturn`, `DescriptorsRight`, `FsRight` |
| `net_boot` | table of 3 addresses, 1 cached port, 2 transmissions, 3 kinds of server, 2 opens | `RepliesRight`, `LeaseHeld`, `SocketsRight`, `NetEnds` |
| `loader` | a kernel, modules with chains and cycles of dependencies, ELF files, boots of 3 kinds, scripts nested to 4, arguments to 4 | `LoadedRight`, `ElfRight`, `HandoverRight`, `CommandsRight`, `LoadEnds` |
| `stages` | 2 menu entries, 2 drives; 3 drives with labels of both kinds for boot2; images around every boundary; 4 interrupts and 4 kinds of call in BTX; 5 EFI devices | `ChosenRight`, `BroughtRight`, `BtxRight` |
| `services` | 4 cache slots, heap of 21 cells, 6 media, transfers around every boundary, texts and control sequences of up to four items from three places of the screen | `CacheRight`, `LibraryRight`, `DevicesRight`, `ConsolesRight` |

A property that names a layer is the conjunction of those of its modules, each
stated and commented where its component is: `FsRight` of twelve (`FfsReadRight`,
`DosFindRight`, ...), `CommandsKeep` of `RecoverRestores`, `MigrateKeeps` and
`RecoverableDestroy`: what recover, migrate and destroy -r promise,
`LibraryRight` of `MemoryRight`, `CrcRight`, `DivisionRight` and `PrintfRight`,
and so on. Every property of a passing run has a mutant in `PROJECT.json`, those
of a layer one for each of several components: a definition changed as a
plausible bug would change it, under which TLC finds the property violated.

### Why the bounds are enough

* GptBoot: all safety properties are proved for all sizes. They relate two entries at most and the entry booted from; two sectors
  are the least at which a write can be interrupted half-way, and two faults
  the least at which both copies can be lost. Three entries let each of the
  three search passes find something.
* Fgdisk: two entries in two sectors let a table be torn and a slot be reused;
  twelve sectors are two copies of the GPT, an MBR and room for two partitions;
  the second crash is the one that hits a recovery. A second create would only
  start from a state that already is an initial one, up to leftovers that
  fgdisk does not take for a GPT; `fgdisk_stale` has one, because the loader
  does look at them. A boot image of 2 sectors fits one of the two sizes asked
  for and not the other.
* Tftp: two transfers are the least at which a late block of an old one can be
  mistaken for the new one's; two ports, one of which a request shares with
  another one when the clock has not ticked; one retry. `MaxClock` and
  `MaxSess` bound the number of different ports and transfers, not of calls:
  calls go on for ever, and requests that nobody serves any more time out.
* Files: reads of up to 4 and seeks of up to 8 bytes go inside, to the end of
  and beyond a buffer of 3, over files of 3, 5 and 6 bytes; slices of 2, 3 and
  1. Five descriptors are one less than two files that are compressed and split
  need.
* File systems: blocks of 2 to 4 units with one direct block and two levels of
  indirect ones, so that every level is entered and left; a block of 4 sectors is
  the least for which ext2's shift is wrong; a FAT12 whose entries
  straddle sectors; one failed transfer, after which calls go on.
* Net: three addresses fill the table; one cached port is thrown out by the
  next; two transmissions let a reply to the first answer the second; nine
  calls (`MaxXid`) after which no operation begins.
* Stages: three drives, so that a label can be seen on a drive that was not
  named last; slices with a label of either kind and without; a directory of the
  CD with two names that differ in the last character; sizes of boot2 on both
  sides of the one from which boot1 copies it over itself.
* Loader: a chain of three dependencies, one that is missing, two that form a
  ring; memory for some of them; a page of 8 words that segments share.
* Services: four slots, so that requests of one and two blocks go through the
  cache and one of three goes past it; a heap in which three blocks are freed in
  any order; texts on a screen of 4 by 3 that wraps and scrolls; check sums of
  all single bits, which by linearity stand for all data of that length; half
  words of two bits.

CHECK_DEADLOCK is off where an idle program whose bounds are used up, or an
algorithm that has its result, has nothing to do.

### Fairness

`GptBoot!FairSpec` is weak fairness of the steps that the program takes by
itself; users, faults and resets are owed nothing. `Tftp!Spec`, `MCNet!NetSpec`
have weak fairness of the client's own steps and of its time-outs: the processor
runs and the driver's `netif_get()` returns when its time is up. Nothing is
assumed of network and servers. One assumption hides in `Tftp`: the wait for the
first block starts anew with every error packet (`tftp.c:131`), so a server that
sends errors for ever could keep the loader waiting. `MCFiles!MCSpec` and
`MCLoader!LoaderSpec` have weak fairness of the steps of the call under way.

## 4. Findings

1. `gptboot_last`: a failing BOOTONCE partition in the last slot ends the
   search before the BOOTME partitions are tried (`gpt.c:114`, against
   gptboot(8)).
2. `fgdisk_stale`: `ptable_gptread()` reads the backup table over the primary
   one; if the backup fails its checksum the loader uses it all the same, under
   the primary header (`part.c:323`). fgdisk leaves such a disk behind when add
   is interrupted before the backup header, and destroy and create -P follow.

Weaknesses met while modelling, which the properties leave out by a premise or
a history variable that says so where it is defined:

* GPT: two intact copies that differ are never noticed (`forked`). The entries
  of a partly used last sector are not converted (`gpt.c:243`). A `/boot.config`
  that selects a partition is processed after every failed boot and the
  automatic boot need not end (`gptboot.c:225`). `resize` looks its segment up
  by index alone and may take the MBR's partition (`resize.c:82`, "resize
  hybrid"); the index is not checked (`resize.c:70`); migrate fills entries
  without counting (`migrate.c:385`); `alignment % size` (`map.c:292`); add -b
  alone may make an empty entry (`map.c:219`, section 5). boot
  replaces the MBR's code before it knows that gptboot fits (`boot.c:168`).
* Disks: a write of more than half the cache bypasses it (`bcache.c:241`);
  sectors of 4096 bytes (`biosdisk.c:356`); the slice asked for is cached, not
  the one found (`disk.c:365`); a failed CD transfer is taken for a good one
  (`bioscd.c:313`); EFI writes go through the bounce buffer the wrong way
  (`efipart.c:297`); a machine with a memory hole is taken to have contiguous
  memory (`biosmem.c:186`, against the comment above it).
* Files: seeking past the end of a compressed file does not return
  (`gzipfs.c:316`); a descriptor is lost when memory is short (`gzipfs.c:201`);
  a search beyond hammer1's last key does not end (`hammer1.c:455`); a failed
  transfer leaves ufs's and ext2's buffers with their old number. A failed read
  or seek below loses the position (`lost`: `read.c:99`, `lseek.c:137`; splitfs
  counts nothing, `splitfs.c:205`, and there is no check sum that would tell a
  decoder, `inflateInit2(-15)`); the rewind that is "atomic ... with no
  'undefined' state" (`bzipfs.c:258`) fails after lseek() has moved the file
  below. ext2's shift (`ext2fs.c:381`) is right for blocks of 512 and 1024 bytes
  only (`ShiftRight`), and the group descriptors are read from where they are
  with such blocks (`ext2fs.c:394`).
* Net: an empty last block is thrown away as too short, so that a file of
  n * 512 bytes ends in ETIMEDOUT (`tftp.c:140`, against "0 is OK!"); block
  65536 is never recognised (`tftp.c:149`); `lastdata` is cleared before
  anything came (`tftp.c:128`, `spoilt`); files share one iodesc
  (`dev_net.c:154`); the entry behind the ARP table is filled (`arp.c:95`,
  `arpOver`); a transaction number used again after a failed call
  (`bootp.c:292`); the static buffers of NFS's listing (`nfs.c:735`). A failed
  call of the port mapper is not noticed, because its -1 is compared with
  `sizeof`, which is unsigned (`rpc.c:430`): a port nobody has named is cached
  (`rpc.c:437`) and used until the entry is thrown out.
* Loader: a `..` behind another one, or behind a doubled slash, is taken out at
  a wrong place (`rel_open.c:109`): `cd ../c/..` goes wrong at once, `cd ../c/d`
  leaves a doubled slash on which the next `..` goes wrong (`dirSound`). A
  variable longer than what is left of the line moves the index past the buffer
  (`interp_parse.c:162`, `varFits`); the lines
  of a redefined menu item stay (`cmds.c:360`); a script that fails inside an
  if-block leaves it open (`do_dloader.c:292`); bi_load() of EFI ignores a
  failure of bi_load_efi_data() (`efi/loader/bootinfo.c:388`).
* Stages: `init_dev()` of EFI's boot1 cannot fail, because reading inode 0
  returns before the superblock's verdict is looked at (`ufsread.c:230`, against
  the comment at `ufsread.c:218`); no other device is tried when LoadImage
  fails; a key that is not offered ends boot0's time-out (`boot0.S:310`); a
  serial console that is not there makes boot2 forget options (`boot2.c:291`);
  `keyhit()` gives up early at midnight (`cons.c:109`). boot2_32 makes a device
  that was named otherwise a `da` when its label is the first one seen
  (`boot2.c:567`), and after a probe that failed the loader is looked for all the
  same, without a superblock (`boot2.c:303`). cdboot tests the count and not the
  flags after comparing names (`cdboot.S:376`), so that names of one length match
  that differ in the last character only (`Twins`). boot1 copies boot2 upwards
  (`boot1.S:246`): with a BTX of 2.5 KB a boot2 of more than 9728 bytes is
  overwritten before it is copied (`OverItself`); the comment at `boot1.S:211`
  knows of a limit by the segment only.
* Consoles and library: ESC[J away from the first place clears too little, and
  the BIOS one moves its idea of the row without the cursor (`vidconsole.c:284`;
  `efi_console.c:221` leaves the last row); a bell on EFI counts as a character
  (`ScreenRight` is stated for the cursor until ESC[H brings it back, and for the
  text until it is cleared from there); a CD the BIOS does not know of becomes
  unit -1, which `bc_open()` accepts (`main.c:318`, `bioscd.c:197`); the divisor of an absent UART is divided by
  (`comconsole.c`, against the comment at `comconsole.c:80`); a format that
  ends in a lone `%` is read past its end, and the 0 flag pads strings
  (`printf.c`).

## 5. Proofs

`GptBootProofs` proves, for every number of entries, entries per sector, set of
layouts, set of fault kinds and number of faults (`SizeAssumption`,
`FaultAssumption`, `LayoutAssumption`):

* `TypeCorrect`: `Spec => []TypeOK`. `TypeOK` is not inductive: `LoadFails`
  indexes the tables with `curent`, which may be -1 or N in general. `TInv`
  adds `CurOK`, that `curent` is an entry while `main()` is at one. The lemmas
  `LeastElement`, `FirstIn` and `SearchType` say that what `search()` finds is
  an entry.
* `OneFaultOneCopy`: `Spec => []DamageBound`. `DamageBound` counts torn copies
  and is not inductive for two reasons. A copy may be about to become torn: a
  failed table write in `gptbootconv()` leaves the copy intact until its header
  goes out, and a header that failed to go out leaves tables in core that are
  not those on disk. And the copy being written is torn without a fault. `DInv`
  therefore counts *spoiled* copies: those that will be torn once the writes
  under way are out (`SpoiledBound`), together with `PendOK` (a copy being
  written is valid and its header is still to come) and `RamOK` (after a reset
  nothing is valid in core). Each fault spoils one copy at most (`BoundKept`),
  every other step none (`QuietStep`, `EntryUpdate` and the lemmas about
  sector writes), and a torn copy is spoiled unless it is the one being written.

In the second part of `GptBootProofs` (2657 obligations in all):

* `TriedOnce`: `Spec => []AttemptOnce`. The flag is cleared in core first, and
  the copies follow sector by sector, with a reset possible between any two
  writes. `AInv` says what each copy may still hold of an entry that was tried:
  nothing once its sector is out, and before that the copy is torn, because its
  table is no longer the one its checksum was computed from.
* `OnceUnique`: `Spec => BootOnceUnique`, under the hypothesis `FullSectors`
  (`N % EPS = 0`). It is needed: `gptbootconv()` looks at
  `hdr_entries / entries_per_sec` sectors (`gpt.c:243`), so the entries of a
  partly used last sector are never converted. `OInv` follows the entry booted
  from through `load()`, the failed ones through `gptbootfailed()`.
* `ByPriority`: `Spec => []PriorityOrder`. `PInv` says at each point of the
  search which entries are already out of the question.
* `EachTried`: `Spec => []EachBootmeTriedSpare`, with any faults. `EInv` adds
  `NoneMissed` (while `bootonce` is set the second pass is still to come and
  starts at the first entry; in that pass no entry with BOOTME lies behind
  `curent` untried) and `SpareTried` (none is left once the search has ended).
  `SearchSteps` says what `gptfind()` may step over. The one way to leave the
  first pass without a second is a call of `gptfind()` at the last entry of the
  table, which is why the property is about tables that do not end in a
  DragonFly partition.

`TftpProofs` (1255 obligations) proves, for any files, sizes, block lengths,
number of handles, ports, retries and sessions, with a network that keeps every
packet for ever: `TypeCorrect` (`[]TypeOK`), `OpenCorrect` (`[]OpenRight`),
`EofCorrect` (`[]EofRight`) and `ReadsCorrect` (`ReadsRight`, an action
property). The one inductive invariant `IInv` for all of them ties together
what lies far apart: every packet is from a transfer the server really started
(`NetOK`, `SessOK`), a transfer's port names one file (`OneFile`), the block a
handle holds is the one of its file and number (`CurOK`, `BufferOK`), and the
call under way has kept what it began with (`CallOK`, `SavedOK`, `RetOK`). The
premise `spoilt` of the properties is a weakness of the code, see section 4.

`FilesProofs` (3449 obligations) proves, for every size of file and buffer and
any slices (`FilesAssumption`: the boundaries ascend from 0 to `Size`):

* `AnswersCorrect`: `Spec => []AnswersRight`.
* `FilesRefine`: `Spec => Implements`, every step of read.c, lseek.c, gzipfs.c,
  bzipfs.c and splitfs.c is a step of `FileSpec` or a stutter. The inductive
  invariant `GInv` is `FInv` while the position is known and, once a failure
  below has lost it, the little that still holds (`LostOK`: types, slices and
  the stage of the call). `Lose` is about the steps that lead from the one to
  the other; `Find` is about those that lead back, and shows that a rewind sets
  everything `FInv` speaks of anew. `FInv` has one part for each layer: what the decompressor has given
  out lies behind its input (`ZOK`), a slice's offset is inside it (`SfOK`), the
  buffer holds the bytes before the file system's position (`RaOK`), a transfer
  under way has the bytes from where it began (`GotOK`, `ReadOK`), a seek that
  reads forward is still short of its target (`SkipOK`), and the stage of a
  call fits the call (`StageOK`). The position of `FileSpec` is behind the file
  system's by the buffer and by what the call has in hand: that difference is
  the argument. Facts about slices (which one a position lies in, what lies
  before it) are proved with a least counterexample, not by induction on the
  sequence.

`OpenFilesProofs` (1442 obligations) proves `DescriptorsCorrect`: `OpenSpec =>
[]DescriptorsRight`, for any number of descriptors, any devices and any number
of failures of `malloc()` (`OpenSpec` is the table of descriptors by itself; in
the run it is interleaved with the file systems). `DescriptorsRight` says that
no descriptor is shared and none is lost but to `malloc()`, two for each failure
at most. `open()` calls itself through splitfs, gzipfs and bzipfs, so the
argument is about *roots*, descriptors no other open file lies on: a call that
succeeds adds one root, a call that fails adds none but those it lost (`Gains`,
`Leaks`), and these relations compose (`ExtTrans`, `LeaksTrans`), one lemma for
each file system's `open`. `OInv` has the table well layered (what a file lies
on is open, of the kind it expects, and below no other file), what the callers
hold among the roots, and the roots nobody holds bounded by the failures.

`FgdiskProofs` (6977 obligations) proves, for every size of medium and table,
any MBR whose partitions do not start at sector 1, any arguments of the commands
and any number of crashes:

* `TypeCorrect` (`[]TypeOK`), `CrashesSurvived` (`[]SurvivesCrashes`),
  `FailureSurvived` (`[]SurvivesFailure`) and `LoaderSurvives` (`[]LoaderFinds`
  of `PartTable`);
* the action properties `RecoverCorrect` (`RecoverRestores`) and `DestroyCorrect`
  (`RecoverableDestroy`), two of the three parts of `CommandsKeep`;
* `PartitionsApart`: `Sane` implies `Spec => []Disjoint`, see below.

That some copy is intact is not inductive: a command could be about to write to
it. `SInv` says that one copy is intact and will stay so (`Kept`: none of the
writes left goes to it, or only a header for the same table), or that both are
being rewritten (`Rewriting`: what is not on disk yet is still in the list, the
primary copy comes first, and the secondary one is intact until it is out).
After one failed write and no crash the weaker `Single` remains: one copy is
kept, or all of it is on disk or about to be. `Keeping` has what the action
properties need: what recover has read is what it writes (`Restoring`), destroy
-r has found two copies (`Undoable`), and two intact copies agree unless
`forked` (`Agree`). A command trusts the media map, not the disk, so the proof
has to know what `gpt_open()` builds: the lemma `OpenIs` says that the map has
the header of a copy exactly when the copy is intact. It rests on `AddIs` and
`AddAllIs`, which say what `map_add()` keeps.

The one assumption beyond types is in `MbrAssumption`: no partition of the MBR,
and none of a disklabel in it, starts at sector 1. `map_add()` replaces a
segment of the same place and size, and migrate -M does not put the MBR's
partitions into the map: one that is sector 1 alone would become an entry that
takes the place of the primary header in the map. This is an assumption about
the disk to begin with, which the code does not check.

`PartitionsApart` needs to know where the commands put things, so it follows the
media map segment by segment. `Tiles` says that the segments of a map lie one
behind the other and fill the medium; `map_init()` makes it so and `map_add()`
keeps it. `OpenView` is what the map shows once both copies are in it: the
tables and headers at their places, and the entries in use, neither more nor
less. In such a map the unused segments that add, resize and migrate choose from
(`Spot`) are space that no other entry has (`Vacant`), and that is what keeps a
table `LaidIn` the medium. The inductive invariant `LInv` is `SInv` and: the
header of a copy, on disk (`HdrsLaid`) or still to be written (`CoreLaid`), is
one of a table that is laid; rename finds the entries it writes in use
(`LeftUsed`); and an image still to be written is clear of all other partitions
of what is on disk and of what will be (`ImagePlan`). `forked` stays in
`Disjoint`: where two copies differ, the command follows the primary one and the
map may show both.

Each part of the hypothesis `Sane` is needed: without it TLC finds a violation
of `Disjoint` on a disk of the size used in `fgdisk_fail`.

* The partitions of the MBR, and of a disklabel in it, are not empty and do not
  overlap, begin at sector 2 or later, and those of a disklabel are inside their
  slice. migrate copies them and compares them with nothing.
* migrate is not given -M where the MBR has partitions (`migrate_M`): they are
  then not in the map, and may lie where it puts the tables.
* resize finds no partition of the MBR in the map (`resize_hybrid`): it would
  take one with the same index for the one to be resized (section 4).
* add is given -s or -a, or no -b. With -b alone `map_alloc()` takes what
  is left of the segment, which is nothing when the unused space ends at that
  sector, as it does before a partition that the MBR still shows after the last
  write of migrate has failed; the entry is then empty.

The instance of `fgdisk_fail` satisfies `Sane`, with a failed write in it.

`BlockCacheProofs` (1452 obligations) proves, for every size of cache and disks,
any time-out, any requests and any changes of media:

* `OneCopyHit`: `Spec => []OneHit`, whatever the size of a sector.
  `bcache_insert()` does not look at slot 0 for an old copy, so a block may be
  in the cache twice, and it would matter which one is found or invalidated.
  `CopyInv` says why it does not: no block is in two of the other slots
  (`OneCopy`), and one that is also in slot 0 has passed its time-out there
  (`ZeroOld`). That this lasts needs `MissedOld`: between `Lookup` and `Fill`
  time passes, and what was missed is still not to be found when it is
  inserted. What a run of insertions makes of the cache is proved with the
  least length for which it would fail.
* `CacheCorrect`: `SecBlks = 1 => (Spec => []CacheRight)`. `ContentInv` has, for
  every slot a request can hit (`SlotsRight`) and every block already in the
  buffer (`BufRight`), that it is the block of that number of that unit as it is
  on the disk, or as it was on a medium taken away after the block was read and
  not longer than the time-out before the request began. The hypothesis is
  needed, see section 2.

`NetDevProofs` (1238 obligations) proves, for any servers with any options in
any order, any number of sockets, tries, failures and opens, and a network that
loses, delays and repeats packets:

* `SocketsCorrect`: `NetDevSpec => []SocketsRight`. Inductive together with: an
  open under way has a socket, and is not counted yet (`SocketInv`).
* `LeaseCorrect`: `NetDevSpec => []LeaseHeld`. The late packets are the
  difficulty. `XidsInv` says that the xids used so far are all those up to the
  highest one, so that an xid which was not used is above all of them and no
  packet in the network has it; after success the next one is free again, and no
  server can be made to take the address back. `SendersInv` says what kind of
  server sends what, `CallInv` that every REQUEST of the call names the server
  that was chosen and every ACK is that server's, which still has the lease.
  The lemma `VendIs` is about `vend_rfc1048()`: a packet with a message type, at
  any place among its options, is refused or is of the type awaited.

The assumptions on constants are evaluated by TLC in every run of their module.

Only checked with TLC:

* liveness (`BootTerminates`, `CallEnds`, `CallsReturn`, `NetEnds`,
  `LoadEnds`), which is out of the prover's reach, and what a recursive
  definition computes (file systems, check sums, scripts, the heap);
* the other components: their properties say what whole programs compute (file
  systems, `ElfRight`, `HandoverRight`, `CommandsRight`, the stages of booting,
  `LibraryRight`, `DevicesRight`), through recursive operators or folds;
* `MigrateKeeps`, the third part of `CommandsKeep`: migrate does not refuse an
  MBR with more partitions than the table has entries, so it holds only where
  they fit, as on the disks of the run;
* `Openable` of fgdisk, see section 7.

## 6. Not modelled

The components with status `not_modelled` in `PROJECT.json`, with the reason
there: commands that only print, enumeration of cards and firmware tables,
straight-line start-up code, small functions of the C library, and third-party
code (zlib, bzip2, ACPICA, EFI headers), which is more than half of the
repository's lines and is modelled by how the code uses it (decompression is a
function of the units read). Of the modelled ones: output and its layout, the
wire and disk formats of records, byte orders, check sums of packets, changes of
processor mode, the calls of BIOS, PXE and EFI beyond their results. Undefined
behaviour that the models do not enter is named in section 4.

## 7. What is left

`Openable` is the one safety property of fgdisk that is checked and not proved.
`LInv` has most of what it needs: `gpt_open()` refuses a disk when one of its
`map_add()` finds no segment to go into, and a laid table leaves room for all of
them. What is missing is the other direction of the lemmas about `map_add()`,
which say what it keeps when it succeeds and not that it does. The other safety
properties without a theorem go through recursive definitions (section 5), and
would need induction over data.
