----------------------------- MODULE OpenFiles -----------------------------
(***************************************************************************)
(* The table of open files of libstand (open.c, close.c, closeall.c) and   *)
(* the file systems of the PC loader that open other files: splitfs,       *)
(* gzipfs and bzipfs (file_system[] of sys/boot/pc32/loader/conf.c, in     *)
(* this order, after the ones that read a disk).                           *)
(*                                                                         *)
(* A name is the sequence of its suffixes: <<>> is "/kernel", <<"gz">> is  *)
(* "/kernel.gz".  fo_open() gets it without the device, so that what a     *)
(* stacked file system opens is looked for on the current device.  The     *)
(* suffixes end the nesting: gzipfs and bzipfs refuse names that end in    *)
(* .gz, .bz2 or .split, and splitfs those that end in .split.              *)
(***************************************************************************)
EXTENDS Integers, Sequences, FiniteSets

CONSTANTS
    SopenMax,   \* SOPEN_MAX
    Devices,    \* devices a file may be on
    Currdev,    \* $currdev
    MaxNomem,   \* bound: times malloc() fails
    Disks       \* the contents considered: the set of [dev, name] that exist

ASSUME OpenAssumption ==
    SopenMax \in Nat \ {0} /\ Currdev \in Devices /\ MaxNomem \in Nat

Fds == 0 .. SopenMax - 1
Slice == <<"aa">>       \* the first file a .split file names
Names == {<<>>, <<"gz">>, <<"bz2">>, <<"split">>, <<"gz", "split">>, <<"bz2", "split">>, Slice}

VARIABLES
    files,      \* files[fd].  ops: f_ops ("" if f_flags is 0); dev, name: what
                \* it reads; raw: descriptor below it, -1 if there is none
    held,       \* descriptors that open() has given to its callers
    exists,     \* files on the disks
    nomem       \* times malloc() has failed

openVars == <<files, held, exists, nomem>>

Unused == [ops |-> "", dev |-> Currdev, name |-> <<>>, raw |-> -1]
Free(t) == {fd \in Fds : t[fd].ops = ""}
\* o_gethandle(): -1 if every descriptor is used.
Handle(t) == IF Free(t) = {} THEN -1
             ELSE CHOOSE fd \in Free(t) : \A g \in Free(t) : fd <= g

\* What open() leaves: the table, the descriptor (-1 if it failed) and
\* whether malloc() failed in it.
Result(t, fd, oom) == [tab |-> t, fd |-> fd, oom |-> oom]
Using(t, fd, ops, d, n, raw) == [t EXCEPT ![fd] = [ops |-> ops, dev |-> d, name |-> n, raw |-> raw]]
Reserved(t, fd) == [t EXCEPT ![fd].ops = "opening"]
Released(t, fd) == [t EXCEPT ![fd] = Unused]

-----------------------------------------------------------------------------
\* open() of a name that only a file system of a disk can have.
OpenPlain(t, d, n) ==
    LET fd == Handle(t)
    IN IF fd # -1 /\ [dev |-> d, name |-> n] \in exists
       THEN Result(Using(t, fd, "disk", d, n, -1), fd, FALSE)
       ELSE Result(t, -1, FALSE)

\* close() of a descriptor and of the one its file system has open.
CloseOne(t, fd) == IF fd = -1 \/ t[fd].ops = "" THEN t ELSE Released(t, fd)
CloseTwo(t, fd) == CloseOne(Released(t, fd), t[fd].raw)
Closed(t, fd) ==
    LET below == t[fd].raw
    IN IF below = -1 \/ t[below].ops = "" THEN Released(t, fd)
       ELSE CloseTwo(Released(t, fd), below)

OnSlice(t, fd, n, slice) ==
    IF slice.fd = -1 THEN Result(t, -1, FALSE)
    ELSE Result(Using(slice.tab, fd, "split", slice.tab[slice.fd].dev, n, slice.fd), fd, FALSE)

\* Mutant: the file with the names of the slices stays open.
ConfKept(t, fd, n, conf) ==
    IF conf.fd = -1 THEN Result(t, -1, FALSE)
    ELSE OnSlice(CloseOne(conf.tab, conf.fd), fd, n, OpenPlain(conf.tab, Currdev, Slice))
SplitOpenKeeps(t, fd, d, n) == ConfKept(t, fd, n, OpenPlain(t, Currdev, Append(n, "split")))

\* splitfs_open() for descriptor fd: the file with the names is read and closed
\* before the first slice is opened.
ConfRead(t, fd, n, conf) ==
    IF conf.fd = -1 THEN Result(t, -1, FALSE)
    ELSE OnSlice(t, fd, n, OpenPlain(CloseOne(conf.tab, conf.fd), Currdev, Slice))
SplitOpen(t, fd, d, n) == ConfRead(t, fd, n, OpenPlain(t, Currdev, Append(n, "split")))

\* open() of a name that ends in .gz or .bz2: on a disk, or split.
OrReleased(r, fd) == IF r.fd # -1 THEN r ELSE Result(Released(r.tab, fd), -1, r.oom)
OpenZipped(t, d, n) ==
    LET fd == Handle(t)
    IN IF fd = -1 THEN Result(t, -1, FALSE)
       ELSE IF [dev |-> d, name |-> n] \in exists THEN OpenPlain(t, d, n)
       ELSE OrReleased(SplitOpen(Reserved(t, fd), fd, d, n), fd)

\* zf_open() and bzf_open(): without memory for the z_file, ENOMEM, and the
\* compressed file stays open.
OnZipped(t, fd, ops, n, oom, r) ==
    IF r.fd = -1 THEN Result(t, -1, FALSE)
    ELSE IF oom THEN Result(r.tab, -1, TRUE)
    ELSE Result(Using(r.tab, fd, ops, r.tab[r.fd].dev, n, r.fd), fd, FALSE)
ZipOpen(t, fd, ops, n, oom) ==
    OnZipped(t, fd, ops, n, oom, OpenZipped(t, Currdev, Append(n, IF ops = "gzip" THEN "gz" ELSE "bz2")))

\* open() of a file of device d: the file systems one after the other, each
\* given what the one before it (r) left if that failed.
OrBzip(r, fd, was) ==
    IF r.fd # -1 THEN r ELSE OrReleased([r EXCEPT !.oom = @ \/ was], fd)
OrGzip(r, fd, n, oom) ==
    IF r.fd # -1 THEN r ELSE OrBzip(ZipOpen(r.tab, fd, "bzip", n, oom), fd, r.oom)
OrSplit(r, fd, n, oom) ==
    IF r.fd # -1 THEN r ELSE OrGzip(ZipOpen(r.tab, fd, "gzip", n, oom), fd, n, oom)
OpenAny(t, d, n, oom) ==
    LET fd == Handle(t)
    IN IF fd = -1 THEN Result(t, -1, FALSE)
       ELSE IF [dev |-> d, name |-> n] \in exists THEN OpenPlain(t, d, n)
       ELSE OrSplit(SplitOpen(Reserved(t, fd), fd, d, n), fd, n, oom)

-----------------------------------------------------------------------------
OpenFile(d, oom) ==
    /\ oom => nomem < MaxNomem
    /\ \E r \in {OpenAny(files, d, <<>>, oom)} :
          /\ oom => r.oom
          /\ files' = r.tab
          /\ held' = IF r.fd = -1 THEN held ELSE held \cup {r.fd}
    /\ nomem' = IF oom THEN nomem + 1 ELSE nomem
    /\ UNCHANGED exists

CloseFile(fd) ==
    /\ fd \in held
    /\ files' = Closed(files, fd) /\ held' = held \ {fd}
    /\ UNCHANGED <<exists, nomem>>

\* splitfs_read() goes on to the next slice: it is closed and the next opened,
\* which may take a lower descriptor than the file above it has.
ChangeSlice(fd) ==
    /\ files[fd].ops = "split"
    /\ \E r \in {OpenPlain(CloseOne(files, files[fd].raw), Currdev, Slice)} :
          files' = [r.tab EXCEPT ![fd].raw = r.fd]
    /\ UNCHANGED <<held, exists, nomem>>

\* closeall(), before the kernel is started: descriptors in their order.
CloseAll ==
    /\ files' = [fd \in Fds |-> Unused] /\ held' = {}
    /\ UNCHANGED <<exists, nomem>>

OpenInit ==
    /\ files = [fd \in Fds |-> Unused] /\ held = {} /\ exists \in Disks /\ nomem = 0

OpenNext == \/ \E d \in Devices, oom \in BOOLEAN : OpenFile(d, oom)
            \/ \E fd \in Fds : CloseFile(fd) \/ ChangeSlice(fd)
            \/ CloseAll
OpenSpec == OpenInit /\ [][OpenNext]_openVars

-----------------------------------------------------------------------------
(* Properties *)

Used == Fds \ Free(files)
\* Descriptors that some file lies on.
Below == {files[fd].raw : fd \in Used} \ {-1}

\* A descriptor that is used belongs to a caller of open() or to one file that
\* is open: eight of them last for the whole session.  Each failure of
\* malloc() in zf_open() or bzf_open() loses one, and open() tries both.
NoLeak == Cardinality(Used \ (held \cup Below)) <= 2 * nomem

\* Two files never lie on the same descriptor, and none on one that a caller
\* holds or that is free.
OwnedOnce ==
    /\ \A f, g \in Used : f # g /\ files[f].raw # -1 => files[f].raw # files[g].raw
    /\ Below \subseteq Used \ held

\* What open() gives is a file that can be read: it has its file system.
HeldOpen == \A fd \in held : files[fd].ops \in {"disk", "split", "gzip", "bzip"}

\* The descriptors of the session stay in order while open() nests and fails.
DescriptorsRight == NoLeak /\ OwnedOnce /\ HeldOpen
=============================================================================
