------------------------------ MODULE EfiBoot1 ------------------------------
(***************************************************************************)
(* EFI's boot1 (sys/boot/efi/boot1/boot1.c with its one module,            *)
(* ufs_module.c): every partition that EFI knows is probed, the loader is  *)
(* taken from the first that has it, those of boot1's own disk before the  *)
(* others, and gets the device and the contents of /boot/config or         *)
(* /boot.config.                                                           *)
(*                                                                         *)
(* The UFS reader is static: devinfo is the device that dskread() reads,   *)
(* sb the device whose super-block sbbuf holds, dskMeta whether it was     *)
(* accepted.  Reading an inode is module Ffs's matter; here a file is      *)
(* <<device, path>>, and "garbage" if it is sought by another device's     *)
(* super-block.  Any read may fail, and any allocation.                    *)
(***************************************************************************)
EXTENDS Integers, Sequences, FiniteSets

CONSTANTS
    EbMachines,     \* [img, handles]: boot1's device path, or <<>>, and the handles in order
    EbMaxFails      \* bound: handles that failures meet, and boot1 itself

ASSUME EfiBoot1Assumption == EbMaxFails \in Nat

VARIABLES
    ebm,        \* the machine
    eb,         \* where efi_main() is, and what it has
    ufsm,       \* the static variables of ufs_module.c and ufsread.c
    ebFaulted   \* history: handles that a failure met; 0 stands for boot1 itself

ebVars == <<ebm, eb, ufsm, ebFaulted>>

Handle(h) == ebm.handles[h]
PATH_LOADER_EFI == "/loader.efi"
PATH_LOADER_EFI_ALT == "/boot/loader.efi"
PATH_BOOTCONFIG == "/boot/config"
PATH_CONFIG == "/boot.config"

NoEb == [at |-> "locate", i |-> 1, devices |-> <<>>, want |-> TRUE, path |-> PATH_LOADER_EFI, dev |-> 0, loader |-> <<>>, cmd |-> <<>>]
NoUfsm == [devinfo |-> 0, sb |-> 0, dskMeta |-> FALSE]

-----------------------------------------------------------------------------
(* ufs_module.c over ufsread.c *)

\* boot2_ufs_init(): the super-block is read; the buffer keeps what came last.
UfsInit(u, fails) ==
    IF fails THEN u
    ELSE [u EXCEPT !.sb = u.devinfo, !.dskMeta = Handle(u.devinfo).ufs]

\* Mutant: a super-block that was accepted is not read again.
ForcedNot(u) == u
\* The probe that a read of inode 0 forces.
Forced(u) == [u EXCEPT !.dskMeta = FALSE]

\* init_dev().  It never fails: boot2_ufs_read() of inode 0 returns 0 before
\* it looks at dsk_meta.
init_dev(u, h, F) ==
    LET v == Forced([u EXCEPT !.devinfo = h])
    IN IF v.dskMeta THEN v ELSE UfsInit(v, "probe" \in F)

\* load() of path while the steps in F fail: lookup probes again if it must.
UfsLoad(u, h, path, F) ==
    LET v == init_dev(u, h, F)
        w == IF v.dskMeta THEN v ELSE UfsInit(v, "again" \in F)
        there == path \in DOMAIN Handle(h).files
    IN [u |-> w,
        data |-> IF w.sb = h THEN <<h, path>> ELSE <<h, "garbage">>,
        status |-> IF ~w.dskMeta \/ ~there \/ "lookup" \in F THEN "EFI_NOT_FOUND"
                   ELSE IF Handle(h).files[path] = 0 \/ F \cap {"size", "read"} # {} THEN "EFI_INVALID_PARAMETER"
                   ELSE IF "alloc" \in F THEN "EFI_OUT_OF_RESOURCES"
                   ELSE "EFI_SUCCESS"]

Fails == {{}, {"probe"}, {"probe", "again"}, {"lookup"}, {"size"}, {"read"}, {"alloc"}}
May(F, h) ==
    /\ F # {} => Cardinality(ebFaulted) < EbMaxFails
    /\ ebFaulted' = IF F = {} THEN ebFaulted ELSE ebFaulted \cup {h}

-----------------------------------------------------------------------------
(* boot1.c *)

nodes_match(a, b) == a = b
\* Equal up to the media node of both.
device_paths_match(img, dev) ==
    \E k \in 1 .. Len(img) :
        /\ k <= Len(dev) /\ img[k].type = "media" /\ dev[k].type = "media"
        /\ \A j \in 1 .. k - 1 : nodes_match(img[j], dev[j])

\* LocateHandle(), a second time if the buffer was too small; boot1 ends if
\* that fails, or the allocation of the buffer.
LocateHandles ==
    /\ eb.at = "locate"
    /\ \/ eb' = [eb EXCEPT !.at = "probe"] /\ UNCHANGED ebFaulted
       \/ eb' = [eb EXCEPT !.at = "panic"] /\ May({"alloc"}, 0)
    /\ UNCHANGED <<ebm, ufsm>>

\* probe_handle() of the next handle; add_device() puts it last.
probe_handle ==
    /\ eb.at = "probe" /\ eb.i <= Len(ebm.handles)
    /\ LET h == Handle(eb.i)
       IN IF h.devpath = <<>> \/ ~h.blkio \/ ~h.logical
          THEN eb' = [eb EXCEPT !.i = @ + 1] /\ UNCHANGED <<ufsm, ebFaulted>>
          ELSE \/ /\ \E F \in {{}, {"probe"}} : May(F, eb.i) /\ ufsm' = init_dev(ufsm, eb.i, F)
                  /\ eb' = [eb EXCEPT !.i = @ + 1,
                                !.devices = Append(@, [h |-> eb.i, preferred |-> device_paths_match(ebm.img, h.devpath)])]
               \/ May({"alloc"}, eb.i) /\ eb' = [eb EXCEPT !.i = @ + 1] /\ UNCHANGED ufsm
    /\ UNCHANGED ebm

ProbeDone ==
    /\ eb.at = "probe" /\ eb.i > Len(ebm.handles)
    /\ eb' = [eb EXCEPT !.at = "load", !.i = 1] /\ UNCHANGED <<ebm, ufsm, ebFaulted>>

\* load_loader() at the next device of the list: the second name is tried if
\* the first is not found.
load_loader ==
    /\ eb.at = "load" /\ eb.i <= Len(eb.devices)
    /\ LET d == eb.devices[eb.i]
           next == [eb EXCEPT !.i = @ + 1, !.path = PATH_LOADER_EFI]
       IN IF d.preferred # eb.want
          THEN eb' = next /\ UNCHANGED <<ufsm, ebFaulted>>
          ELSE \E F \in Fails :
                /\ May(F, d.h)
                /\ \E l \in {UfsLoad(ufsm, d.h, eb.path, F)} :
                    /\ ufsm' = l.u
                    /\ eb' = IF l.status = "EFI_SUCCESS"
                             THEN [eb EXCEPT !.at = "config", !.dev = d.h, !.loader = l.data, !.path = PATH_BOOTCONFIG]
                             ELSE IF l.status = "EFI_NOT_FOUND" /\ eb.path = PATH_LOADER_EFI
                             THEN [eb EXCEPT !.path = PATH_LOADER_EFI_ALT]
                             ELSE next
    /\ UNCHANGED ebm

\* try_boot(): after the preferred devices the others.
LoadDone ==
    /\ eb.at = "load" /\ eb.i > Len(eb.devices)
    /\ eb' = IF eb.want THEN [eb EXCEPT !.want = FALSE, !.i = 1] ELSE [eb EXCEPT !.at = "panic"]
    /\ UNCHANGED <<ebm, ufsm, ebFaulted>>

\* try_boot() reads the options; they may be missing.  It ends if there is no
\* memory for a copy of them.
NoMemory ==
    /\ eb.at = "config" /\ May({"alloc"}, 0)
    /\ \E l \in {UfsLoad(ufsm, eb.dev, eb.path, {})} :
        l.status = "EFI_SUCCESS" /\ ufsm' = l.u /\ eb' = [eb EXCEPT !.at = "panic"]
    /\ UNCHANGED ebm
LoadConfig ==
    /\ eb.at = "config"
    /\ \E F \in Fails :
        /\ May(F, eb.dev)
        /\ \E l \in {UfsLoad(ufsm, eb.dev, eb.path, F)} :
            /\ ufsm' = l.u
            /\ eb' = IF l.status = "EFI_SUCCESS" THEN [eb EXCEPT !.at = "image", !.cmd = l.data]
                     ELSE IF l.status = "EFI_NOT_FOUND" /\ eb.path = PATH_BOOTCONFIG THEN [eb EXCEPT !.path = PATH_CONFIG]
                     ELSE [eb EXCEPT !.at = "image"]
    /\ UNCHANGED ebm

\* LoadImage(), HandleProtocol() and StartImage(); no other device is tried
\* if one of them fails.
StartImage ==
    /\ eb.at = "image"
    /\ \/ eb' = [eb EXCEPT !.at = "started"] /\ UNCHANGED ebFaulted
       \/ eb' = [eb EXCEPT !.at = "panic"] /\ May({"alloc"}, 0)
    /\ UNCHANGED <<ebm, ufsm>>

EbInit(M) == ebm \in M /\ eb = NoEb /\ ufsm = NoUfsm /\ ebFaulted = {}
EbNext == LocateHandles \/ probe_handle \/ ProbeDone \/ load_loader \/ LoadDone \/ NoMemory \/ LoadConfig \/ StartImage

-----------------------------------------------------------------------------
(* Properties *)

Holds(h) ==
    LET f == Handle(h).files
        p == IF PATH_LOADER_EFI \in DOMAIN f THEN PATH_LOADER_EFI ELSE PATH_LOADER_EFI_ALT
    IN /\ Handle(h).devpath # <<>> /\ Handle(h).blkio /\ Handle(h).logical /\ Handle(h).ufs
       /\ p \in DOMAIN f /\ f[p] > 0
Own(h) == device_paths_match(ebm.img, Handle(h).devpath)
Before(a, b) == (Own(a) /\ ~Own(b)) \/ (Own(a) = Own(b) /\ a <= b)

\* boot1 starts a loader that is whole and its device's, with options from
\* that device, whatever partitions were probed before with the same static
\* buffers; and no partition that holds a loader and met no failure is passed
\* over for one that comes later or, after boot1's own disk, for another disk.
EfiBoot1Right ==
    /\ eb.at = "started" =>
        /\ eb.loader \in {<<eb.dev, PATH_LOADER_EFI>>, <<eb.dev, PATH_LOADER_EFI_ALT>>}
        /\ eb.cmd \in {<<>>, <<eb.dev, PATH_BOOTCONFIG>>, <<eb.dev, PATH_CONFIG>>}
        /\ \A h \in 1 .. Len(ebm.handles) : Holds(h) /\ h \notin ebFaulted => Before(eb.dev, h)
    /\ eb.at = "panic" /\ 0 \notin ebFaulted => \A h \in 1 .. Len(ebm.handles) : Holds(h) => h \in ebFaulted
=============================================================================
