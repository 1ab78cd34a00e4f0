------------------------------ MODULE MCStages ------------------------------
(***************************************************************************)
(* The stages before the loader.                                           *)
(***************************************************************************)
EXTENDS TLC, Loaders, Boot2, Btx, EfiBoot1

\* boot0: two entries
MCB0Entries == 0 .. 1
Tables ==
  [type : {<<"bsd", "bsd">>, <<"bsd", "other">>, <<"free", "bsd">>, <<"other", "extended">>}, active : SUBSET {1, 2}, opt : Options]
MCTables ==
  {[type |-> [e \in B0Entries |-> t.type[e + 1]], active |-> [e \in B0Entries |-> e + 1 \in t.active], opt |-> t.opt] :
     t \in {t \in Tables : Cardinality(t.active) < 2}}
\* the BIOS passes a drive or not, or the sector has one; the first entry or
\* both can be started
Machine(en, up, d, n, bad) == [enabled |-> en, update |-> up, set |-> d[1], drive |-> d[2], drives |-> n, bad |-> bad]
MCMachines ==
  {Machine(e[1], e[2], d[1], d[2], bad) :
     e \in {<<B0Entries, TRUE>>, <<B0Entries, FALSE>>, <<{1}, TRUE>>},
     d \in {<<<<None0, None0>>, 1>>, <<<<None0, None0>>, 2>>, <<<<0, 1>>, 2>>, <<<<None0, 0>>, 2>>, <<<<None0, 1>>, 2>>},
     bad \in {{}, {0}}}

\* The movers.  BTX takes 2.5 KB; boot2 with 16 sectors fills them, with 30 it
\* ends where it would be moved over itself, or behind that.
B1(n, c) == [kind |-> "boot1", nsect |-> n, btx |-> 160, client |-> c]
Gl(ldr, btx, client, blk) == [kind |-> "gptldr", ldr |-> ldr, btx |-> btx, client |-> client, blk |-> blk]
Ao(at, entry, text, data, bss) ==
  [kind |-> "aout", at |-> at, entry |-> entry, text |-> text, data |-> data, bss |-> bss, btx |-> 100,
   args |-> <<"howto", "dev", "flags", "pxe", "0", "info">>]
Sg(name, load, vaddr, f, m) == [name |-> name, load |-> load, vaddr |-> vaddr, filesz |-> f, memsz |-> m]
Bl(bi, ext, segs) ==
  [kind |-> "btxldr", space |-> 1024, offset |-> 512, bi |-> bi, args |-> 6, ext |-> ext, btx |-> 160, top |-> 600, segs |-> segs]
MCMvInputs ==
  {B1(16, c) : c \in {1, 300, 320}} \cup {B1(30, c) : c \in {608, 609, 768}}
  \cup {Gl(9, b, c, 512) : b \in {100, 256}, c \in {1, 700, 2048}}
  \cup {Ao(a, 4096, t, d, s) : a \in {MEM_BTX_ORG, 2000}, t \in {600, 768}, d \in {0, 50}, s \in {0, 256, 508, 1024}}
  \cup {Bl(b, e, <<Sg("text", TRUE, 0, 5, 5), Sg("note", FALSE, 0, 9, 9), Sg("data", TRUE, 5, k, 300)>>) :
          b \in {0, 18}, e \in {0, 40}, k \in {0, 9}}

\* Loaders.  A GPT with two entries in a sector.
En(b, s, e) == [boot |-> b, start |-> s, end |-> e]
GptDisk(h1, h2, n, at, e) ==
  [k \in 0 .. 12 |->
     CASE k = 1 -> h1 [] k = 12 -> h2
       [] k \in {2, 3, 4} -> <<"ents", [j \in 1 .. 2 |-> IF 2 * (k - 2) + j - 1 = at THEN e ELSE En(FALSE, 0, 0)]>>
       [] OTHER -> <<"data", k>>]
Hdr(n) == <<"hdr", [lba |-> 2, n |-> n]>>
PmDisks ==
  {[kind |-> "pmbr", per |-> 2, last |-> 12, disk |-> GptDisk(h1, h2, 5, at, e)] :
     h1 \in {Hdr(5), <<"data", 1>>, <<"err">>}, h2 \in {Hdr(5), Hdr(3), <<"data", 12>>},
     at \in {0, 1, 4, 5}, e \in {En(TRUE, 6, 6), En(TRUE, 6, 8), En(TRUE, 6, 9), En(TRUE, 8, 6)}}
  \cup {[kind |-> "pmbr", per |-> 2, last |-> 12,
         disk |-> [GptDisk(Hdr(5), Hdr(5), 5, 3, En(TRUE, 6, 8)) EXCEPT ![b] = <<"err">>]] : b \in {3, 6, 8, 9}}
ChsReads ==
  {[kind |-> "chs", heads |-> h, spt |-> s, lba |-> l, n |-> n, track |-> t, fails |-> f] :
     h \in {1, 2, 16}, s \in {1, 2, 63}, l \in {0, 1, 62, 63, 1000, 1024, 32255, 1032190}, n \in {1, 2, 5},
     t \in BOOLEAN, f \in {<<0, 0>>, <<1, 4>>, <<1, 5>>}}
Rec(n, to) == [name |-> n, to |-> to]
\* `.' is a record with a name of one character
LD == <<"L", "D">>
CdDirs(name, other, bytes, full, after) ==
  ("root" :> [after |-> after,
     blocks |-> <<[full |-> FALSE, recs |-> <<Rec(<<"0">>, "root"), Rec(<<"B", "T">>, "boot")>>]>>]) @@
  ("boot" :> [after |-> after,
     blocks |-> <<[full |-> full, recs |-> <<Rec(<<"0">>, "boot"), Rec(<<"L", "D", "1", ";", "1">>, 9)>>],
                  [full |-> FALSE, recs |-> <<Rec(<<"L">>, 8), Rec(other, 7), Rec(name, bytes)>>]>>])
CdNames == {LD, LD \o <<";", "1">>, LD \o <<".", ";", "1">>, LD \o <<".", ";", "1", "2">>, LD \o <<".">>, <<"L", "D", "1">>}
Cds ==
  {[kind |-> "cd", vds |-> v, root |-> "root", path |-> <<<<"B", "T">>, LD>>, dirs |-> CdDirs(n, o, b, f, a),
    want |-> IF v = <<"boot", "end", "primary">> \/ n = <<"L", "D", "1">> THEN -1 ELSE b] :
     v \in {<<"primary", "end">>, <<"boot", "primary", "end">>, <<"boot", "end", "primary">>},
     n \in CdNames, b \in {0, 1, 2048, 2049, 409600, 522241, 524289, 1048576},
     o \in {<<"D", "D">>, <<"L", "E">>}, f \in BOOLEAN, a \in {"zero", "junk"}}
MCLdInputs == PmDisks \cup ChsReads \cup Cds

\* boot2: the second slice of drive 0 is active, drives 1 and 2 have labels on
\* the whole disk.  Drive 0 has labels of either kind, one of them with offsets
\* that count from the disk's start, and slice 4 has none.
Sl(bsd, active, start) == [bsd |-> bsd, active |-> active, start |-> start]
Lab(wide, scsi, off, bias) == [wide |-> wide, scsi |-> scsi, off |-> off, bias |-> bias]
MCB2Disks == (0 :> <<Sl(TRUE, FALSE, 10), Sl(TRUE, TRUE, 20), Sl(FALSE, FALSE, 30), Sl(TRUE, FALSE, 40)>>) @@
             (1 :> <<Sl(FALSE, TRUE, 10)>>) @@ (2 :> <<Sl(FALSE, FALSE, 10)>>)
MCB2Labels ==
  (<<0, 10>> :> Lab(TRUE, FALSE, (0 :> 1) @@ (1 :> 4), 0)) @@ (<<0, 20>> :> Lab(FALSE, TRUE, (0 :> 0) @@ (1 :> 5) @@ (2 :> 0), 20)) @@
  (<<1, 0>> :> Lab(FALSE, FALSE, (0 :> 2) @@ (2 :> 0), 0)) @@ (<<2, 0>> :> Lab(TRUE, FALSE, (0 :> 1), 0))
MCB2Files ==
  (<<0, 11>> :> {"/loader", "/k"}) @@ (<<0, 20>> :> {"/boot/loader", "/k"}) @@ (<<0, 40>> :> {"/k"}) @@
  (<<1, 2>> :> {"/kernel"}) @@ (<<2, 1>> :> {"/kernel", "/boot/loader"})
Op(S) == <<"opt", S>>
Na(n) == <<"name", n>>
Dv(d, t, u, s, p, n) == <<"dev", [drive |-> d, type |-> t, unit |-> u, slice |-> s, part |-> p], n>>
MCB2Configs == {<<>>, <<Op({"s"})>>, <<Op({"n"}), Na("/k")>>, <<Na("/k")>>, <<Op({"m"})>>, <<<<"bad">>>>}
MCB2Lines ==
  {<<>>, <<Op({"s", "v"})>>, <<Op({"s"}), Na("/k")>>, <<Na("/x"), Op({"v"})>>, <<<<"bad">>, Na("/k")>>,
   <<Dv(0, "ad", 0, WHOLE_DISK_SLICE, 0, "/k")>>, <<Dv(0, "ad", 1, 2, 0, "/k")>>, <<Dv(0, "ad", 0, 4, 0, "/k")>>,
   <<Dv(0, "ad", 0, 5, RAW_PART, "/k")>>, <<Op({"s"}), Dv(1, "da", 1, WHOLE_DISK_SLICE, 0, "/kernel")>>,
   <<Dv(2, "ad", 2, WHOLE_DISK_SLICE, 0, "/kernel")>>, <<Dv(0, "ad", 0, 2, 1, "/k")>>,
   <<Dv(3, "ad", 3, WHOLE_DISK_SLICE, 0, "/k")>>, <<<<"half", [type |-> "da", unit |-> 3]>>>>,
   <<<<"half", [type |-> "da", unit |-> 0, slice |-> 3]>>>>, <<Op({"P"})>>, <<Op({"V", "h"}), Na("/k")>>}
MCB2Starts ==
  {[drive |-> 0, slice |-> 1], [drive |-> 0, slice |-> 2], [drive |-> 0, slice |-> 3], [drive |-> 1, slice |-> 0],
   [drive |-> 2, slice |-> 0]}

MCBtxIrqs == {0, 7, 8, 15}
MCBtxCalls == {{}, {"flags"}, {"addr", "callf", "flags"}, {"addr"}}

\* EFI's boot1: two disks, or one it does not know; a file system may hold
\* the loader under either name, an empty one, or none.
Node(t, n) == [type |-> t, n |-> n]
OnDisk(d) == <<Node("acpi", 0), Node("pci", d)>>
Part(d, n) == Append(OnDisk(d), Node("media", n))
Hn(path, log, ufs, files) == [devpath |-> path, blkio |-> TRUE, logical |-> log, ufs |-> ufs, files |-> files]
EbFiles ==
  {<<>>, (PATH_LOADER_EFI :> 1), (PATH_LOADER_EFI :> 0) @@ (PATH_LOADER_EFI_ALT :> 1),
   (PATH_LOADER_EFI_ALT :> 1) @@ (PATH_CONFIG :> 1), (PATH_LOADER_EFI :> 1) @@ (PATH_BOOTCONFIG :> 0) @@ (PATH_CONFIG :> 1)}
MCEbMachines ==
  {[img |-> i, handles |-> <<Hn(OnDisk(1), FALSE, FALSE, <<>>), Hn(Part(1, 1), TRUE, TRUE, f), Hn(Part(2, 1), TRUE, FALSE, <<>>),
                             Hn(Part(2, 2), TRUE, TRUE, g), [Hn(Part(2, 3), TRUE, TRUE, f) EXCEPT !.blkio = b]>>] :
     i \in {<<>>, OnDisk(2), Part(2, 1), Part(1, 1)}, f \in EbFiles, g \in EbFiles, b \in BOOLEAN}

VARIABLE stage

stageVars == <<stage, vars0, mvVars, ldVars, vars2, btxVars, ebVars>>
Only(S, p, d) == IF stage = p THEN S ELSE {d}

MCStagesInit ==
  /\ stage \in {"boot0", "move", "load", "boot2", "btx", "efi"}
  /\ B2Init(Only(MCB2Starts, "boot2", CHOOSE d \in MCB2Starts : TRUE))
  /\ stage # "boot2" => wide2
  /\ BtxInit
  /\ MvInit(Only(MvInputs, "move", CHOOSE i \in MvInputs : TRUE))
  /\ EbInit(Only(EbMachines, "efi", CHOOSE m \in EbMachines : TRUE))
  /\ LdInit(Only(LdInputs, "load", CHOOSE i \in LdInputs : TRUE))
  /\ B0Init(Only(MCTables, "boot0", CHOOSE t \in MCTables : TRUE), Only(MCMachines, "boot0", CHOOSE c \in MCMachines : TRUE))
  /\ stage # "boot0" => time0.now = 0

MCStagesNext ==
  /\ \/ stage = "boot0" /\ B0Next /\ UNCHANGED <<mvVars, ldVars, vars2, btxVars, ebVars>>
     \/ stage = "move" /\ Move /\ UNCHANGED <<vars0, ldVars, vars2, btxVars, ebVars>>
     \/ stage = "load" /\ Fetch /\ UNCHANGED <<vars0, mvVars, vars2, btxVars, ebVars>>
     \/ stage = "boot2" /\ B2Next /\ UNCHANGED <<vars0, mvVars, ldVars, btxVars, ebVars>>
     \/ stage = "btx" /\ BtxNext /\ UNCHANGED <<vars0, mvVars, ldVars, vars2, ebVars>>
     \/ stage = "efi" /\ EbNext /\ UNCHANGED <<vars0, mvVars, ldVars, vars2, btxVars>>
  /\ UNCHANGED stage

StagesSpec == MCStagesInit /\ [][MCStagesNext]_stageVars

\* What is started is what was chosen: by boot0 from the menu, the stored
\* choice and the time, by boot2 from /boot.config and what was typed, by
\* EFI's boot1 from the disk it came from before the others.
ChosenRight == Boot0Right /\ Boot2Right /\ EfiBoot1Right

\* What the next stage finds in memory is what the disk holds, moved to where
\* it was linked for: mbr, pmbr, boot1, cdboot, pxeldr, btxldr.
BroughtRight == MovedRight /\ FetchedRight
=============================================================================
