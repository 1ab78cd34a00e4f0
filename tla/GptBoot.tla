------------------------------ MODULE GptBoot ------------------------------
(***************************************************************************)
(* The BIOS stage-2 boot program for GPT disks: the GPT reader and the     *)
(* boot-attribute bookkeeping of sys/boot/common/gpt.c, driven by main(),  *)
(* gptinit(), parse(), dskprobe() and load() of pc32/gptboot/gptboot.c.    *)
(*                                                                         *)
(* A disk holds two copies of the GPT.  A copy is intact when the table    *)
(* checksum in its header matches its table; the checksum is modelled by   *)
(* the table it was computed from.  Every sector write is a step of its    *)
(* own, so power may fail between any two of them.                         *)
(***************************************************************************)
EXTENDS Integers, FiniteSets

CONSTANTS
    N,          \* hdr_entries: number of entries of the table
    EPS,        \* entries_per_sec: entries in one sector of the table
    Layouts,    \* possible partition contents, see LayoutOK
    AttrSets,   \* boot attributes entries have to begin with
    FlagCmds,   \* -s, -t and -u arguments of the fgdisk flag commands given
    FaultKinds, \* faults that may happen: "power", "write", "read"
    MaxFaults   \* bound on the number of faults in a behaviour

ASSUME SizeAssumption == N \in Nat \ {0} /\ EPS \in Nat \ {0}

ASSUME FaultAssumption == MaxFaults \in Nat

Ent   == 0 .. N - 1                     \* curent ranges over these
Copies == {"pri", "bak"}
Flags == {"ME", "ONCE", "FAILED"}       \* GPT_ENT_ATTR_BOOTME, ...
Table == [Ent -> SUBSET Flags]
Types == {"dfly", "fbsd", "other"}      \* partition type UUIDs told apart

\* dsk.start: an entry stands for its ent_lba_start, Whole for LBA 0.
Whole == N
\* sb: no valid superblock in core (never read, or the last probe failed).
NoSb  == N + 1
\* layout.conf: no /boot.config.  0 is a command parse() rejects, k > 0 a
\* command that selects partition k.
NoConf == 0 - 1

Sec(i)  == i \div EPS                   \* sector of the table holding i
Secs    == {Sec(i) : i \in Ent}
Hdr     == N                            \* names the header, no i \div EPS

\* type: partition types; fs: entries holding a mountable file system;
\* boot: those with a loader or kernel on it; conf: their /boot.config.
LayoutOK(l) ==
    /\ l.type \in [Ent -> Types]
    /\ l.fs \subseteq Ent
    /\ l.boot \subseteq l.fs
    /\ l.conf \in [Ent -> NoConf .. N + 1]

ASSUME LayoutAssumption ==
    /\ \A l \in Layouts : LayoutOK(l)
    /\ AttrSets \subseteq SUBSET Flags
    /\ FlagCmds \subseteq [s : SUBSET Flags, t : SUBSET Flags, u : SUBSET Flags]

VARIABLES
    layout,     \* the partitions' contents; nothing here changes them
    tbl,        \* tbl[c]: partition table of copy c on disk
    crc,        \* crc[c]: table the header of copy c on disk has the sum of
    mem,        \* table_primary, table_backup
    valid,      \* copies whose hdr_primary_lba / hdr_backup_lba is not 0
    pend,       \* pend[c]: sectors of copy c still to be written
    curent,     \* index of the entry found last, -1 before the first
    bootonce,   \* still looking for BOOTME+BOOTONCE entries
    part,       \* dsk.part
    start,      \* dsk.start
    sb,         \* the dsk.start the superblock in core was read from
    uuid,       \* type gptinit() is looking for
    call,       \* who called gptinit(): "main", "config" or "prompt"
    autoboot,   \* autoboot of main()
    pc,         \* control point of main()
    faults,     \* history: faults so far
    ioerr,      \* history: one of them was a failed read or write
    tried,      \* history: entries booted while BOOTONCE since last set
    attempted   \* history: entries load() was tried on since power-on

diskVars == <<tbl, crc>>
gptVars  == <<mem, valid, pend, curent, bootonce>>
dskVars  == <<part, start, sb>>
ctlVars  == <<uuid, call, autoboot, pc>>
histVars == <<faults, ioerr, tried, attempted>>
vars == <<layout, diskVars, gptVars, dskVars, ctlVars, histVars>>

-----------------------------------------------------------------------------
(* The two copies. *)

Torn(c)  == tbl[c] # crc[c]
NoTables == [c \in Copies |-> [i \in Ent |-> {}]]
Idle     == \A c \in Copies : pend[c] = {}

\* gpttable: the primary table when it was valid, else the backup one.
Pick(v)  == IF "pri" \in v THEN "pri" ELSE "bak"
gpttable == mem[Pick(valid)]

\* Mutant: both tables, then both headers.
WritingTablesFirst ==
    LET c == IF pend["pri"] \ {Hdr} # {} THEN "pri" ELSE "bak"
    IN IF pend["pri"] # {} /\ pend["bak"] \ {Hdr} = {} THEN "pri" ELSE c

\* Sectors still to be written go out primary first, table before header.
Writing == IF pend["pri"] # {} THEN "pri" ELSE "bak"
IsNextSec(k) == k \in pend[Writing] /\ \A j \in pend[Writing] : k <= j

WithSector(c, k) ==
    [i \in Ent |-> IF Sec(i) = k THEN mem[c][i] ELSE tbl[c][i]]

\* drvwrite() succeeds.
WriteSec(c, k) ==
    /\ pend' = [pend EXCEPT ![c] = @ \ {k}]
    /\ IF k = Hdr
         THEN crc' = [crc EXCEPT ![c] = mem[c]] /\ UNCHANGED tbl
         ELSE tbl' = [tbl EXCEPT ![c] = WithSector(c, k)] /\ UNCHANGED crc
    /\ UNCHANGED <<layout, mem, valid, curent, bootonce, dskVars, ctlVars, histVars>>

Write == \E k \in Secs \cup {Hdr} : IsNextSec(k) /\ WriteSec(Writing, k)

\* drvwrite() fails.  gptupdate() gives up on the copy; gptbootconv(), which
\* runs before "find", prints a message and goes on to the header.
AfterFailure(c, k) ==
    IF pc = "find" THEN pend[c] \ {k} ELSE {}

WriteFails ==
    /\ "write" \in FaultKinds /\ faults < MaxFaults
    /\ \E k \in Secs \cup {Hdr} :
         /\ IsNextSec(k)
         /\ pend' = [pend EXCEPT ![Writing] = AfterFailure(Writing, k)]
    /\ faults' = faults + 1
    /\ ioerr' = TRUE
    /\ UNCHANGED <<layout, diskVars, mem, valid, curent, bootonce, dskVars,
                   ctlVars, tried, attempted>>

-----------------------------------------------------------------------------
(* gptread() *)

\* gptbootconv(): BOOTONCE alone becomes BOOTFAILED, in the sectors that the
\* division hdr_entries / entries_per_sec counts.
OnlyOnce(a)  == a = {"ONCE"}
Converted(i) == Sec(i) < N \div EPS
\* Mutant: nothing is converted.
convNone(t) == t
conv(t) ==
    [i \in Ent |-> IF Converted(i) /\ OnlyOnce(t[i]) THEN {"FAILED"} ELSE t[i]]

convSecs(t) ==
    LET S == {Sec(i) : i \in {j \in Ent : conv(t)[j] # t[j]}}
    IN IF S = {} THEN {} ELSE S \cup {Hdr}

\* What becomes of main() when gptinit() returns -1.
GiveUp == IF call = "main" THEN "dead" ELSE "prompt"

\* readable: the copies whose header and table the BIOS delivers.
gptread(readable) ==
    LET v == {c \in readable : ~Torn(c)}
    IN /\ pc = "gptread" /\ Idle
       /\ valid' = v
       /\ mem' = [c \in Copies |-> IF c \in v THEN conv(tbl[c]) ELSE mem[c]]
       /\ pend' = [c \in Copies |-> IF c \in v THEN convSecs(tbl[c]) ELSE {}]
       /\ curent' = -1
       /\ bootonce' = TRUE
       /\ start' = Whole
       /\ pc' = IF v = {} THEN GiveUp ELSE "find"
       /\ UNCHANGED <<layout, diskVars, part, sb, uuid, call, autoboot, tried,
                      attempted>>

GptRead == gptread(Copies) /\ UNCHANGED <<faults, ioerr>>

\* drvread() of one copy fails.
GptReadFails ==
    /\ "read" \in FaultKinds /\ faults < MaxFaults
    /\ \E c \in Copies : gptread(Copies \ {c})
    /\ faults' = faults + 1
    /\ ioerr' = TRUE

-----------------------------------------------------------------------------
(* gptfind() *)

First(S) == CHOOSE i \in S : \A j \in S : i <= j

\* Entries of type u from index f on whose attributes satisfy each "yes" flag
\* and no "no" flag.
Match(u, f, yes, no) ==
    {i \in f .. N - 1 : /\ layout.type[i] = u
                        /\ yes \subseteq gpttable[i]
                        /\ no \cap gpttable[i] = {}}

Result(e, once) == [found |-> e < N, ent |-> e, once |-> once]

\* Mutants of search: the second pass goes on where the first one ended; the
\* search starts over at the entry it was at; BOOTONCE is not preferred.
searchNoRewind(u, cur, once) ==
    LET hi  == IF once THEN Match(u, cur + 1, {"ME", "ONCE"}, {}) ELSE {}
        mid == Match(u, cur + 1, {"ME"}, {"ONCE"})
        low == IF cur = -1 THEN Match(u, 0, {}, {}) ELSE {}
        S   == IF hi # {} THEN hi ELSE IF mid # {} THEN mid ELSE low
    IN IF S = {} THEN Result(N, FALSE) ELSE Result(First(S), once /\ hi # {})
searchNoAdvance(u, cur, once) ==
    LET S == Match(u, IF cur = -1 THEN 0 ELSE cur, {}, {})
    IN IF S = {} THEN Result(N, FALSE) ELSE Result(First(S), FALSE)
searchAnyBootme(u, cur, once) ==
    LET mid == Match(u, cur + 1, {"ME"}, {})
        low == IF cur = -1 THEN Match(u, 0, {}, {}) ELSE {}
        S   == IF mid # {} THEN mid ELSE low
    IN IF S = {} THEN Result(N, FALSE) ELSE Result(First(S), FALSE)

\* The search proper: the entry found (N for none), and bootonce afterwards.
search(u, cur, once) ==
    LET f1   == cur + 1
        hi   == IF once THEN Match(u, f1, {"ME", "ONCE"}, {}) ELSE {}
        f2   == IF once THEN 0 ELSE f1
        mid  == Match(u, f2, {"ME"}, {"ONCE"})
        low  == IF cur = -1 THEN Match(u, 0, {}, {}) ELSE {}
    IN IF f1 >= N THEN Result(N, once)
       ELSE IF hi # {} THEN Result(First(hi), once)
       ELSE IF mid # {} THEN Result(First(mid), FALSE)
       ELSE IF low # {} THEN Result(First(low), FALSE)
       ELSE Result(N, FALSE)

\* A partition was asked for by number: it must exist and have the type.
PartOK(u, p) == p \in 1 .. N /\ layout.type[p - 1] = u

\* Mutant: the backup copy is left alone.
takePrimary(e) ==
    LET C == IF "ONCE" \in gpttable[e] THEN {Pick(valid)} ELSE {}
    IN /\ curent' = e
       /\ part' = e + 1
       /\ start' = e
       /\ mem' = [c \in Copies |->
                    IF c \in C THEN [mem[c] EXCEPT ![e] = @ \ {"ME"}] ELSE mem[c]]
       /\ pend' = [c \in Copies |-> IF c \in C THEN {Sec(e), Hdr} ELSE {}]

\* found: take entry e.  A BOOTONCE entry loses BOOTME in every valid copy.
take(e) ==
    LET C == IF "ONCE" \in gpttable[e] THEN valid ELSE {}
    IN /\ curent' = e
       /\ part' = e + 1
       /\ start' = e
       /\ mem' = [c \in Copies |->
                    IF c \in C THEN [mem[c] EXCEPT ![e] = @ \ {"ME"}] ELSE mem[c]]
       /\ pend' = [c \in Copies |-> IF c \in C THEN {Sec(e), Hdr} ELSE {}]

\* The gptfind() calls of gptinit(), after the writes of gptread() are out.
Found ==
    IF call = "prompt" THEN "pload" ELSE IF call = "config" THEN "key" ELSE "probe"

GptInitFind ==
    LET r == search(uuid, curent, bootonce)
    IN /\ pc = "find" /\ Idle
       /\ IF part >= 0
            THEN IF PartOK(uuid, part)
                   THEN take(part - 1) /\ pc' = Found /\ UNCHANGED <<bootonce, uuid>>
                   ELSE /\ pc' = IF uuid = "dfly" THEN "gptread" ELSE GiveUp
                        /\ uuid' = "fbsd"
                        /\ UNCHANGED <<mem, pend, curent, bootonce, part, start>>
            ELSE /\ bootonce' = r.once
                 /\ IF r.found
                      THEN take(r.ent) /\ pc' = Found /\ UNCHANGED uuid
                      ELSE /\ curent' = N
                           /\ pc' = IF uuid = "dfly" THEN "gptread" ELSE GiveUp
                           /\ uuid' = "fbsd"
                           /\ UNCHANGED <<mem, pend, part, start>>
       /\ UNCHANGED <<layout, diskVars, valid, sb, call, autoboot, histVars>>

-----------------------------------------------------------------------------
(* main() *)

\* Reset vector to gptinit().
PowerOn ==
    /\ pc = "off"
    /\ part' = -1
    /\ start' = Whole
    /\ sb' = NoSb
    /\ uuid' = "dfly"
    /\ call' = "main"
    /\ autoboot' = TRUE
    /\ pc' = "gptread"
    /\ UNCHANGED <<layout, diskVars, gptVars, histVars>>

\* Mutant: what was read is not checked.
dskprobeUnchecked == sb' = start

\* dskprobe(): read the superblock found at dsk.start.
dskprobe == sb' = IF start \in layout.fs THEN start ELSE NoSb

\* Top of the boot loop: probe, read /boot.config, parse() it, and start over
\* in gptinit() if it selected a partition.
Probe ==
    LET cmd == IF start \in layout.fs THEN layout.conf[start] ELSE NoConf
    IN /\ pc = "probe" /\ Idle
       /\ dskprobe
       /\ IF cmd = NoConf
            THEN pc' = "key" /\ UNCHANGED <<part, uuid, call>>
            ELSE /\ part' = cmd
                 /\ pc' = IF cmd = 0 THEN "prompt" ELSE "gptread"
                 /\ uuid' = "dfly"
                 /\ call' = "config"
       /\ UNCHANGED <<layout, diskVars, gptVars, start, autoboot, histVars>>

\* A key press within three seconds stops the first automatic boot.
KeyHit ==
    /\ pc = "key" /\ Idle
    /\ autoboot
    /\ pc' = "prompt"
    /\ UNCHANGED <<layout, diskVars, gptVars, dskVars, uuid, call, autoboot,
                   histVars>>

NoKey ==
    /\ pc = "key" /\ Idle
    /\ autoboot' = FALSE
    /\ pc' = "load"
    /\ UNCHANGED <<layout, diskVars, gptVars, dskVars, uuid, call, histVars>>

\* load() can jump to the image: it is there, or the partition is read
\* through another one's superblock and anything may come of it.  Without a
\* superblock, fslookup() finds nothing.
Alien   == sb # start /\ sb # NoSb
CanExec == Alien \/ (sb = start /\ start \in layout.boot)
CanFail == Alien \/ start \notin layout.boot \/ sb # start

Attempt ==
    /\ attempted' = attempted \cup {start}
    /\ tried' = IF start \in Ent /\ "ONCE" \in gpttable[start]
                  THEN tried \cup {start} ELSE tried
    /\ UNCHANGED <<faults, ioerr>>

\* One of the load() calls reaches __exec(): the program's own memory is
\* given up, where it started from is passed on.
Exec ==
    /\ pc \in {"load", "pload"} /\ Idle
    /\ CanExec
    /\ Attempt
    /\ mem' = NoTables
    /\ valid' = {}
    /\ pc' = "kernel"
    /\ UNCHANGED <<layout, diskVars, pend, curent, bootonce, dskVars, uuid, call,
                   autoboot>>

\* All load() calls return; gptbootfailed() marks the entry.
LoadFails ==
    LET C == IF "ONCE" \in gpttable[curent] THEN valid ELSE {}
        bad(a) == (a \ {"ONCE"}) \cup {"FAILED"}
    IN /\ pc = "load" /\ Idle
       /\ CanFail
       /\ Attempt
       /\ mem' = [c \in Copies |->
                    IF c \in C THEN [mem[c] EXCEPT ![curent] = bad(@)] ELSE mem[c]]
       /\ pend' = [c \in Copies |-> IF c \in C THEN {Sec(curent), Hdr} ELSE {}]
       /\ pc' = "next"
       /\ UNCHANGED <<layout, diskVars, valid, curent, bootonce, dskVars, uuid,
                      call, autoboot>>

\* gptfind() for the next DragonFly partition, then for a FreeBSD one.
NextPart ==
    LET r1 == search("dfly", curent, bootonce)
        r2 == search("fbsd", IF r1.found THEN curent ELSE N, r1.once)
        r  == IF r1.found THEN r1 ELSE r2
    IN /\ pc = "next" /\ Idle
       /\ bootonce' = r.once
       /\ IF r.found
            THEN take(r.ent) /\ pc' = "probe"
            ELSE curent' = N /\ pc' = "prompt" /\ UNCHANGED <<mem, pend, part, start>>
       /\ UNCHANGED <<layout, diskVars, valid, sb, uuid, call, autoboot,
                      histVars>>

-----------------------------------------------------------------------------
(* The boot: prompt *)

\* A command that names partition p: parse() stores it and probes, before
\* gptinit() has looked the partition up.
UserSelect(p) ==
    /\ pc = "prompt" /\ Idle
    /\ part' = p
    /\ dskprobe
    /\ IF start \in layout.fs
         THEN pc' = "gptread" /\ uuid' = "dfly" /\ call' = "prompt"
         ELSE UNCHANGED <<pc, uuid, call>>
    /\ UNCHANGED <<layout, diskVars, gptVars, start, autoboot, histVars>>

\* An empty command, or one with a kernel name only.
UserBoot ==
    /\ pc = "prompt" /\ Idle
    /\ dskprobe
    /\ pc' = IF start \in layout.fs THEN "pload" ELSE "prompt"
    /\ UNCHANGED <<layout, diskVars, gptVars, part, start, uuid, call, autoboot,
                   histVars>>

\* load() from the prompt returns; gptbootfailed() is not called here.
PromptLoadFails ==
    /\ pc = "pload" /\ Idle
    /\ CanFail
    /\ Attempt
    /\ pc' = "prompt"
    /\ UNCHANGED <<layout, diskVars, gptVars, dskVars, uuid, call, autoboot>>

-----------------------------------------------------------------------------
(* Surroundings *)

\* What a reset leaves of the program's memory.
RamCleared ==
    /\ mem' = NoTables
    /\ valid' = {}
    /\ pend' = [c \in Copies |-> {}]
    /\ curent' = -1
    /\ bootonce' = TRUE
    /\ part' = -1
    /\ start' = Whole
    /\ sb' = NoSb
    /\ uuid' = "dfly"
    /\ call' = "main"
    /\ autoboot' = TRUE
    /\ pc' = "off"

\* The machine is reset: a reboot, a panic, or power lost half way through
\* the writes, which is a fault.
Reset ==
    /\ pc # "off"
    /\ \/ Idle /\ UNCHANGED faults
       \/ /\ ~Idle
          /\ "power" \in FaultKinds /\ faults < MaxFaults
          /\ faults' = faults + 1
    /\ RamCleared
    /\ attempted' = {}
    /\ UNCHANGED <<layout, diskVars, ioerr, tried>>

\* ent_attr |= set_attr, ^= toggle_attr, &= ~unset_attr
NewAttr(a, f) ==
    LET b == a \cup f.s
    IN ((b \ f.t) \cup (f.t \ b)) \ f.u

\* The running system changes the attributes of entry i with fgdisk flag: the
\* same operations on each copy, and only when both are intact.
OsFlag(i, f) ==
    /\ pc = "kernel"
    /\ \A c \in Copies : ~Torn(c)
    /\ tbl' = [c \in Copies |-> [tbl[c] EXCEPT ![i] = NewAttr(@, f)]]
    /\ crc' = tbl'
    /\ tried' = tried \ {i}
    /\ UNCHANGED <<layout, gptVars, dskVars, ctlVars, faults, ioerr, attempted>>

\* Both copies start intact and agree, with any attributes.
Init ==
    /\ layout \in Layouts
    /\ \E t \in [Ent -> AttrSets] : tbl = [c \in Copies |-> t]
    /\ crc = tbl
    /\ mem = NoTables
    /\ valid = {}
    /\ pend = [c \in Copies |-> {}]
    /\ curent = -1
    /\ bootonce = TRUE
    /\ part = -1
    /\ start = Whole
    /\ sb = NoSb
    /\ uuid = "dfly"
    /\ call = "main"
    /\ autoboot = TRUE
    /\ pc = "off"
    /\ faults = 0
    /\ ioerr = FALSE
    /\ tried = {}
    /\ attempted = {}

\* What the program does by itself once it runs.
Step ==
    \/ Write \/ GptRead \/ GptInitFind \/ Probe \/ NoKey
    \/ Exec \/ LoadFails \/ NextPart \/ PromptLoadFails

Next ==
    \/ PowerOn
    \/ Step
    \/ KeyHit
    \/ WriteFails
    \/ GptReadFails
    \/ Reset
    \/ UserBoot
    \/ \E p \in 1 .. N + 1 : UserSelect(p)
    \/ \E i \in Ent, f \in FlagCmds : OsFlag(i, f)

Spec == Init /\ [][Next]_vars

\* The program keeps running while it has power.  Users, faults and resets
\* are owed nothing.
FairSpec == Spec /\ WF_vars(Step)

-----------------------------------------------------------------------------
(* Properties *)

TypeOK ==
    /\ layout \in Layouts
    /\ tbl \in [Copies -> Table]
    /\ crc \in [Copies -> Table]
    /\ mem \in [Copies -> Table]
    /\ valid \subseteq Copies
    /\ pend \in [Copies -> SUBSET (Secs \cup {Hdr})]
    /\ curent \in -1 .. N
    /\ bootonce \in BOOLEAN
    /\ part \in -1 .. N + 1
    /\ start \in Ent \cup {Whole}
    /\ sb \in Ent \cup {NoSb}
    /\ uuid \in {"dfly", "fbsd"}
    /\ call \in {"main", "config", "prompt"}
    /\ autoboot \in BOOLEAN
    /\ pc \in {"off", "gptread", "find", "probe", "key", "load", "pload", "next",
              "prompt", "kernel", "dead"}
    /\ faults \in 0 .. MaxFaults
    /\ ioerr \in BOOLEAN
    /\ tried \subseteq Ent
    /\ attempted \subseteq Ent \cup {Whole}

\* A fault costs one copy of the GPT at most, whatever it interrupts: the
\* primary copy is complete again before gptupdate() or gptbootconv() touches
\* the backup one, so while nothing has gone wrong one copy is always intact.
DamageBound ==
    Cardinality({c \in Copies : Torn(c)}) <= faults + (IF Idle THEN 0 ELSE 1)

\* The copy the next reader of the disk will use.
View == tbl[IF Torn("pri") THEN "bak" ELSE "pri"]

\* When a kernel is started, the only partition start-up scripts can find with
\* BOOTONCE alone is the one it was booted from (comment in gptread()), as
\* long as the disk could be read and written.
BootOnceUnique ==
    [][pc # "kernel" /\ pc' = "kernel" /\ ~ioerr =>
          {i \in Ent : OnlyOnce(View[i])} \subseteq {start}]_vars

\* A BOOTONCE partition that load() was tried on does not come back: until
\* somebody sets its attributes anew, no intact copy offers it to gptfind()
\* again, through any number of power failures and reboots (a failed write
\* may leave it on offer).
AttemptOnce ==
    ioerr \/
    \A i \in tried, c \in Copies :
        Torn(c) \/ ~({"ME", "ONCE"} \subseteq tbl[c][i])

\* gptfind() goes by priority: while main() is at an entry, no entry of that
\* type with a higher claim is left.
Claim(a) == IF {"ME", "ONCE"} \subseteq a THEN 2 ELSE IF "ME" \in a THEN 1 ELSE 0
PriorityOrder ==
    call = "main" /\ pc \in {"probe", "key", "load"} =>
        \A i \in Ent :
            layout.type[i] = layout.type[start] /\ "ONCE" \notin gpttable[start]
                => Claim(gpttable[i]) <= Claim(gpttable[start])

\* main() comes to the prompt by itself, no partition left to try, only after
\* it tried every DragonFly partition marked BOOTME (gptboot.8).
Exhausted == pc = "prompt" /\ call = "main" /\ curent = N
EachBootmeTried ==
    Exhausted =>
        \A i \in Ent :
            layout.type[i] = "dfly" /\ "ME" \in gpttable[i] => i \in attempted

\* The same of disks whose table does not end in a DragonFly partition.
EachBootmeTriedSpare == layout.type[N - 1] # "dfly" => EachBootmeTried

\* The automatic boot comes to an end: something is executed, or the user is
\* asked, or the machine is given up.
BootTerminates ==
    (pc = "gptread") ~> (pc \in {"kernel", "prompt", "dead", "off"})
=============================================================================
