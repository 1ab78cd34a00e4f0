------------------------------- MODULE Fgdisk -------------------------------
(***************************************************************************)
(* The GPT editor sbin/fgdisk.  Every command opens the disk (gpt_open() in *)
(* gpt.c builds the media map from what is intact), works out its change   *)
(* in core and then writes the sectors it changed, one gpt_write() after   *)
(* the other.  The machine may crash before, between and in the middle of  *)
(* these writes, and a write may fail.                                     *)
(*                                                                         *)
(* A header is modelled by the table its checksum was computed from, an    *)
(* entry's unique GUID by the number of the create that made it.           *)
(***************************************************************************)
EXTENDS MediaMap, FiniteSets

CONSTANTS
    N,          \* entries in the largest table
    EPS,        \* entries in one sector
    Media,      \* sizes the medium may have, in sectors
    Parts,      \* create -p, migrate -p: number of entries asked for
    Mbrs,       \* what sector 0 may hold to begin with, see MbrOK
    AddArgs,    \* add -b, -s, -a; 0 stands for an option not given
    ResizeArgs, \* resize -s, -a
    BootSizes,  \* installboot -s, installefi -s: sectors of a partition to be added
    ImageSize,  \* sectors of gptboot, and of efi.fat
    Commands,   \* commands that are given
    MaxCreates, \* bound on create and migrate commands
    MaxCrashes, \* bound on crashes
    MaxFails    \* bound on failed writes

ASSUME GeometryAssumption ==
    /\ N \in Nat \ {0} /\ EPS \in Nat \ {0}
    /\ Media \subseteq Nat /\ \A s \in Media : s >= 6
    /\ Parts \subseteq 1 .. N
    /\ BootSizes \subseteq Nat \ {0} /\ ImageSize \in Nat \ {0}
    /\ AddArgs \subseteq [b : Nat, s : Nat, a : Nat]
    /\ ResizeArgs \subseteq [s : Nat, a : Nat]
ASSUME BoundAssumption == MaxCreates \in Nat /\ MaxCrashes \in Nat /\ MaxFails \in Nat

Copies == {"pri", "sec"}
Ent    == 0 .. N - 1
Blocks(n) == (n + EPS - 1) \div EPS     \* sectors of a table of n entries

\* MBR partition types told apart: a DragonFly slice, one mirrored as it is,
\* one migrate does not know.  sub: extents of a slice's disklabel, if any.
\* None of these is sector 1, which is to hold the primary header.
Extent == [start : Nat \ {1}, size : Nat]
MbrPart == [typ : {"bsd", "efi", "dos"}, start : Nat \ {1}, size : Nat, sub : Seq(Extent)]
MbrOK(b) ==
    /\ b \in [kind : {"none", "pmbr", "mbr"}, parts : Seq(MbrPart)]
    /\ b.kind # "mbr" => b.parts = <<>>
ASSUME MbrAssumption == \A b \in Mbrs : MbrOK(b)

\* struct gpt_ent.  A removed entry keeps all but its type.  tag stands for
\* its name, its type GUID and its attributes; 2 and 3 are the types of the
\* partitions that hold gptboot and efi.fat.
Blank == [uuid |-> 0, used |-> FALSE, start |-> 0, size |-> 0, tag |-> 0]
BlankTable == [i \in Ent |-> Blank]
\* struct gpt_hdr; hdr_entries is 0 where there is no header.
NoHdr == [n |-> 0, alt |-> 0, crc |-> <<>>]

VARIABLES
    media,      \* size of the medium
    mbr,        \* sector 0
    hdr,        \* hdr[c]: header of copy c on disk
    tbl,        \* tbl[c]: table of copy c on disk
    cmd,        \* the command running, or "none"
    todo,       \* its writes still to be made
    left,       \* entries it has still to change
    mem,        \* mem[c]: header and table of copy c in core
    creates,    \* creates so far
    fails,      \* history: failed writes so far
    crashes,    \* history: commands interrupted so far
    made,       \* history: there is a GPT nobody asked to destroy
    forked      \* history: two intact copies that differ were left behind

diskVars == <<media, mbr, hdr, tbl>>
coreVars == <<cmd, todo, left, mem>>
histVars == <<creates, fails, crashes, made, forked>>
vars == <<diskVars, coreVars, histVars>>

Last1 == media - 1                      \* the last sector

\* crc32() of the first n entries.
Sum(n, t) == [i \in 0 .. n - 1 |-> t[i]]

\* gpt_gpt() finds this copy.
Intact(c) == hdr[c].n > 0 /\ hdr[c].crc = Sum(hdr[c].n, tbl[c])
NoCore    == [c \in Copies |-> [n |-> 0, alt |-> 0, ent |-> BlankTable]]
Core(c)   == [n |-> hdr[c].n, alt |-> hdr[c].alt, ent |-> tbl[c]]

-----------------------------------------------------------------------------
(* gpt_open() *)

\* map_add() of segs[k] for all k in S, in this order; Null when one fails.
AddNext(m, s, there) == IF ~there \/ m = Null THEN m ELSE map_add(m, s)
AddAll(m, segs, S) ==
    LET f[k \in 0 .. Len(segs)] ==
          IF k = 0 THEN m ELSE AddNext(f[k - 1], segs[k], k \in S)
    IN f[Len(segs)]

\* The map with what sector 0 says, Null on failure.
gpt_mbr(m, nombr) ==
    LET m1 == map_add(m, Seg(0, 1, mbr.kind, 0))
        segs == [k \in DOMAIN mbr.parts |->
                   Seg(mbr.parts[k].start, mbr.parts[k].size, "mbr_part", k)]
    IN IF mbr.kind = "none" THEN m
       ELSE IF nombr \/ m1 = Null THEN m1 ELSE AddAll(m1, segs, DOMAIN segs)

HdrSeg(c) == IF c = "pri" THEN Seg(1, 1, "pri_hdr", 0) ELSE Seg(Last1, 1, "sec_hdr", 0)
TblSeg(c, n) ==
    LET b == Blocks(n)
    IN IF c = "pri" THEN Seg(2, b, "pri_tbl", 0) ELSE Seg(Last1 - b, b, "sec_tbl", 0)
PartSegs(n, t) == [k \in 1 .. n |-> Seg(t[k - 1].start, t[k - 1].size, "gpt_part", k)]

\* The map with copy c: header and table, and the entries of the primary one.
gpt_gpt(m, c) ==
    LET n  == hdr[c].n
        m1 == map_add(m, HdrSeg(c))
        m2 == IF m1 = Null THEN Null ELSE map_add(m1, TblSeg(c, n))
    IN IF m = Null \/ ~Intact(c) THEN m
       ELSE IF m2 = Null \/ c = "sec" THEN m2
       ELSE AddAll(m2, PartSegs(n, tbl[c]), {k \in 1 .. n : tbl[c][k - 1].used})

\* The map of the disk, Null when the disk cannot be opened.
gpt_open(nombr) == gpt_gpt(gpt_gpt(gpt_mbr(map_init(media), nombr), "pri"), "sec")

\* gpt_gethdr(): commands that change entries want both copies.
gpt_gethdr(m) == \A t \in {"pri_hdr", "sec_hdr", "pri_tbl", "sec_tbl"} : map_find(m, t)

\* The -M option makes a difference only to an MBR with partitions.
Ignore == IF mbr.parts = <<>> THEN {FALSE} ELSE BOOLEAN
Hidden(m) == mbr.parts # <<>> /\ ~map_find(m, "mbr_part")

-----------------------------------------------------------------------------
(* gpt_write() *)

Ready == cmd = "none"

\* Mutant: the headers before the tables.
BothWritesHdrs == <<"pri_hdr", "sec_hdr", "pri_tbl", "sec_tbl">>

\* Mutant: the secondary header is not brought up to date.
BothWritesNoSec == <<"pri_hdr", "pri_tbl", "sec_tbl">>

\* What add, remove, resize, label, rename and flag write, for each entry.
BothWrites == <<"pri_hdr", "pri_tbl", "sec_tbl", "sec_hdr">>

CopyOf(w) == IF w \in {"pri_hdr", "pri_tbl", "pri_zero"} THEN "pri" ELSE "sec"
CoreHdr(c) == [n |-> mem[c].n, alt |-> mem[c].alt, crc |-> Sum(mem[c].n, mem[c].ent)]
Pmbr == [kind |-> "pmbr", parts |-> <<>>]

\* Write w reaches the disk.
Put(w) ==
    LET c == CopyOf(w)
    IN /\ mbr' = IF w = "pmbr" THEN Pmbr ELSE mbr
       /\ tbl' = IF w \in {"pri_tbl", "sec_tbl"}
                   THEN [tbl EXCEPT ![c] = mem[c].ent] ELSE tbl
       /\ hdr' = IF w \in {"pri_hdr", "sec_hdr"} THEN [hdr EXCEPT ![c] = CoreHdr(c)]
                 ELSE IF w \in {"pri_zero", "sec_zero"} THEN [hdr EXCEPT ![c] = NoHdr]
                 ELSE hdr

\* The command goes on with the writes in rest; the last one ends it.
Continue(rest) ==
    LET over == rest = <<>> /\ left = {}
    IN /\ todo' = rest
       /\ cmd' = IF over THEN "none" ELSE cmd
       /\ made' = (made \/ (over /\ Intact("pri")'))
       /\ mem' = IF over THEN NoCore ELSE mem
       /\ UNCHANGED <<left, creates>>

Differ == Intact("pri") /\ Intact("sec") /\ hdr["pri"].crc # hdr["sec"].crc

Write ==
    /\ todo # <<>>
    /\ Put(Head(todo))
    /\ Continue(Tail(todo))
    /\ forked' = (forked \/ (cmd' = "none" /\ Differ'))
    /\ UNCHANGED <<media, fails, crashes>>

\* write() fails: destroy gives up, the others do not look.
WriteFails ==
    /\ todo # <<>> /\ fails < MaxFails
    /\ fails' = fails + 1
    /\ UNCHANGED <<diskVars, crashes>>
    /\ Continue(IF cmd = "destroy" THEN <<>> ELSE Tail(todo))
    /\ forked' = (forked \/ (cmd' = "none" /\ Differ))

\* The machine goes down.  Of a table being written, some sectors are out.
Crash ==
    /\ ~Ready /\ crashes < MaxCrashes
    /\ cmd' = "none" /\ todo' = <<>> /\ left' = {} /\ mem' = NoCore
    /\ crashes' = crashes + 1
    /\ \/ UNCHANGED tbl
       \/ \E k \in 0 .. Blocks(N) :
            /\ todo # <<>> /\ Head(todo) \in {"pri_tbl", "sec_tbl"}
            /\ LET c == CopyOf(Head(todo))
               IN tbl' = [tbl EXCEPT ![c] =
                           [i \in Ent |-> IF i \div EPS < k THEN mem[c].ent[i] ELSE @[i]]]
    /\ UNCHANGED <<media, mbr, hdr, creates, fails, made>>
    /\ forked' = (forked \/ Differ')

-----------------------------------------------------------------------------
(* Commands that change entries of an existing GPT *)

\* name is given, and opens the disk with map m.
Opens(name, m) == name \in Commands /\ m # Null

BothCore == [c \in Copies |-> Core(c)]
\* The same change to entry i of both tables in core.
InBoth(core, i, f(_)) ==
    [c \in Copies |-> [core[c] EXCEPT !.ent[i] = f(@)]]

Start(name, core, writes) ==
    /\ cmd' = name
    /\ mem' = core
    /\ todo' = writes
    /\ left' = {}
    /\ UNCHANGED <<diskVars, histVars>>

FirstFree(n, t) ==
    {i \in 0 .. n - 1 : ~t[i].used /\ \A j \in 0 .. i - 1 : t[j].used}

\* gpt_add_part(): index e, or the first free one (e = 0).
Add(m, e, arg) ==
    LET n == hdr["pri"].n
        t == tbl["pri"]
        s == map_alloc(m, arg.b, arg.s, arg.a)
        slots == IF e = 0 THEN FirstFree(n, t)
                 ELSE {i \in 0 .. n - 1 : i = e - 1 /\ ~t[i].used}
        put(x) == [x EXCEPT !.used = TRUE, !.start = s.start, !.size = s.size, !.tag = IF @ > 1 THEN 0 ELSE @]
    IN /\ Opens("add", m)
       /\ gpt_gethdr(m)
       /\ \E i \in slots :
            /\ s.size >= 0
            /\ Start("add", InBoth(BothCore, i, put), BothWrites)

\* resize(): the segment is looked up by index alone, so a partition of the
\* MBR may be taken for the one to be resized; "hybrid" tells these cases.
\* Of indices beyond the table, which the code does not refuse, nothing is said.
Stray(m) == \E k \in DOMAIN m : m[k].index > 0 /\ m[k].type # "gpt_part"
Resize(m, e, arg) ==
    LET k == SelectInSeq(m, LAMBDA s : s.index = e)
        size == map_resize(m, k, arg.s, arg.a)
        put(x) == [x EXCEPT !.size = m[k].start + size - x.start]
    IN /\ Opens(IF Stray(m) THEN "resize_hybrid" ELSE "resize", m)
       /\ gpt_gethdr(m)
       /\ e <= hdr["pri"].n /\ tbl["pri"][e - 1].used
       /\ k # 0
       /\ ~(arg.s = m[k].size /\ (arg.a = 0 \/ arg.s % arg.a = 0))
       /\ size # -1
       /\ Start("resize", InBoth(BothCore, e - 1, put), BothWrites)

\* remove, label, flag and rename go through the map and change, one after
\* the other, the entries that match: S.
Matching(m) == {m[k].index - 1 : k \in {j \in 1 .. Len(m) :
                                         m[j].type = "gpt_part" /\ m[j].index >= 1}}
EditAll(m, name, S) ==
    /\ Opens(name, m)
    /\ gpt_gethdr(m)
    /\ S # {} /\ S \subseteq Matching(m)
    /\ cmd' = name
    /\ mem' = BothCore
    /\ left' = S
    /\ UNCHANGED <<diskVars, todo, histVars>>

Edited(name, x) ==
    IF name = "remove" THEN [x EXCEPT !.used = FALSE]
    ELSE IF name = "rename" THEN [x EXCEPT !.used = TRUE, !.tag = 1]
    ELSE [x EXCEPT !.tag = IF @ > 1 THEN @ ELSE 1 - @]

\* The next of them, in the order of the map.
EditNext ==
    /\ left # {} /\ todo = <<>>
    /\ \E i \in left :
         /\ \A j \in left : mem["pri"].ent[i].start <= mem["pri"].ent[j].start
         /\ left' = left \ {i}
         /\ mem' = InBoth(mem, i, LAMBDA x : Edited(cmd, x))
    /\ todo' = BothWrites
    /\ UNCHANGED <<diskVars, cmd, histVars>>

-----------------------------------------------------------------------------
(* installboot and installefi *)

TypeOf(name) == IF name = "installboot" THEN 2 ELSE 3
\* gpt_lookup(): the first entry of the type.
gpt_lookup(name, n, t) ==
    {i \in 0 .. n - 1 : t[i].used /\ t[i].tag = TypeOf(name)
                        /\ \A j \in 0 .. i - 1 : ~(t[j].used /\ t[j].tag = TypeOf(name))}

\* Mutant: an existing partition is taken as it is.
BigEnoughAny(size) == TRUE
BigEnough(size) == size >= ImageSize

\* An image goes to the partition of its type, or to a new one; code is
\* written in any case.
Install(m, name, size, code) ==
    LET n == hdr["pri"].n
        t == tbl["pri"]
        there == gpt_lookup(name, n, t)
        s == map_alloc(m, 0, size, 0)
        put(x) == [x EXCEPT !.used = TRUE, !.start = s.start, !.size = s.size, !.tag = TypeOf(name)]
        ok == gpt_gethdr(m)
    IN /\ Opens(name, m)
       /\ \/ \E i \in there : /\ ok /\ BigEnough(t[i].size)
                              /\ Start(name, BothCore, Append(code, "image"))
          \/ \E i \in FirstFree(n, t) : /\ ok /\ there = {} /\ BigEnough(size) /\ s.size >= 0
                                       /\ Start(name, InBoth(BothCore, i, put), code \o BothWrites \o <<"image">>)
          \/ /\ code # <<>>
             /\ ~ok \/ (\E i \in there : ~BigEnough(t[i].size))
                \/ (there = {} /\ (~BigEnough(size) \/ FirstFree(n, t) = {} \/ s.size < 0))
             /\ Start(name, mem, code)

\* The boot code of the PMBR is written before it is known whether there is a
\* place for gptboot.
installboot(m, size) == m # Null /\ map_find(m, "pmbr") /\ Install(m, "installboot", size, <<"pmbr">>)
installefi(m, size) == Install(m, "installefi", size, <<>>)

-----------------------------------------------------------------------------
(* recover *)

\* Mutant: header first.
RestoreHdrFirst(c, n, m) ==
    IF c = "pri" THEN <<"pri_hdr", "pri_tbl">> ELSE <<"sec_hdr", "sec_tbl">>

\* What is written to give copy c of n entries back, table first.
Restore(c, n, m) ==
    LET t == TblSeg(c, n)
        h == HdrSeg(c)
        m1 == map_add(m, t)
    IN IF m1 = Null THEN <<>>
       ELSE IF map_add(m1, h) = Null THEN <<t.type>> ELSE <<t.type, h.type>>

Other(c) == IF c = "pri" THEN "sec" ELSE "pri"
Recover(m, force) ==
    /\ Opens("recover", m)
    /\ map_find(m, "mbr") => force
    /\ Intact("pri") => hdr["pri"].alt = Last1
    /\ \E c \in Copies :
         /\ ~Intact(c) /\ Intact(Other(c))
         /\ mem' = [mem EXCEPT ![c] = [Core(Other(c)) EXCEPT
                                          !.alt = IF c = "pri" THEN Last1 ELSE 1]]
         /\ todo' = Restore(c, hdr[Other(c)].n, m)
    /\ todo' # <<>>
    /\ cmd' = "recover"
    /\ left' = {}
    /\ UNCHANGED <<diskVars, histVars>>

\* recover -f of a medium that has another size than it had.
RecoverMedia(m) ==
    /\ Opens("recover", m)
    /\ Intact("pri") /\ hdr["pri"].alt # Last1
    /\ Start("media", [BothCore EXCEPT !["pri"].alt = Last1], <<"pri_hdr">>)

\* rewrite_pmbr(), recover -P
RecoverPmbr(m, force) ==
    /\ Opens("recover", m)
    /\ map_find(m, "pmbr") \/ map_find(m, "mbr") => force
    /\ map_find(m, "pri_hdr") \/ map_find(m, "sec_hdr")
    /\ Start("pmbr", mem, <<"pmbr">>)

-----------------------------------------------------------------------------
(* create, migrate, destroy *)

\* Mutant: the space at the end is not looked at.
GptBlocksNoTail(m, p) ==
    LET free == map_free(m, 1, 0)
        b1 == IF (free - 1) * EPS > p THEN Blocks(p) + 1 ELSE free
    IN IF b1 + 1 > media \div 2 THEN (media \div 2) - 1 ELSE b1

\* Blocks for header and table, from the free space at both ends of the map
\* and the number of entries asked for; 0 when there is no room.
GptBlocks(m, p) ==
    LET free == map_free(m, 1, 0)
        b1 == IF (free - 1) * EPS > p THEN Blocks(p) + 1 ELSE free
        b2 == IF b1 + 1 > media \div 2 THEN (media \div 2) - 1 ELSE b1
        b3 == IF map_last(m).size < b2 THEN map_last(m).size ELSE b2
    IN IF free = 0 \/ map_last(m).type # "unused" \/ b3 = 1 THEN 0 ELSE b3

\* Mutant: last is the number of sectors.
NewCoreLast(b, p, extents) ==
    [c \in Copies |-> [n |-> p, alt |-> IF c = "pri" THEN media ELSE 1,
                       ent |-> [i \in Ent |-> [Blank EXCEPT !.uuid = creates']]]]

\* Both copies of a new table with the extents given in its first entries.
NewCore(b, p, extents) ==
    LET k == (b - 1) * EPS
        n == IF k > p THEN p ELSE k
        ent == [i \in Ent |->
                  IF i >= n THEN Blank
                  ELSE IF i >= Len(extents) THEN [Blank EXCEPT !.uuid = creates']
                  ELSE [uuid |-> creates', used |-> TRUE, start |-> extents[i + 1].start,
                        size |-> extents[i + 1].size, tag |-> 0]]
    IN [c \in Copies |-> [n |-> n, alt |-> IF c = "pri" THEN Last1 ELSE 1, ent |-> ent]]

\* create(): the PMBR is written before it is known whether there is room.
Create(m, force, priOnly, p) ==
    LET m1 == [k \in DOMAIN m |-> IF m[k].type = "mbr" THEN [m[k] EXCEPT !.type = "unused"]
                                  ELSE m[k]]
        m2 == map_add(m1, Seg(0, 1, "pmbr", 0))
        b  == GptBlocks(m2, p)
        w1 == IF map_find(m, "pmbr") THEN <<>> ELSE <<"pmbr">>
        w2 == IF b = 0 THEN <<>>
              ELSE IF priOnly THEN <<"pri_hdr", "pri_tbl">> ELSE BothWrites
    IN /\ Opens("create", m)
       /\ ~map_find(m, "pri_hdr") /\ ~map_find(m, "sec_hdr")
       /\ map_find(m, "mbr") => force
       /\ m2 # Null
       /\ creates < MaxCreates
       /\ creates' = creates + 1
       /\ cmd' = "create"
       /\ mem' = IF b = 0 THEN mem ELSE NewCore(b, p, <<>>)
       /\ todo' = w1 \o w2
       /\ todo' # <<>>
       /\ left' = {}
       /\ UNCHANGED <<diskVars, fails, crashes, made, forked>>

\* The entries migrate makes of the MBR's partitions, in their order; force
\* leaves unknown ones out.
Extents(slice) ==
    LET of(q) == IF q.typ = "dos" THEN <<>>
                 ELSE IF q.typ = "efi" \/ slice \/ q.sub = <<>>
                   THEN <<[start |-> q.start, size |-> q.size]>>
                   ELSE q.sub
        f[k \in 0 .. Len(mbr.parts)] ==
          IF k = 0 THEN <<>> ELSE f[k - 1] \o of(mbr.parts[k])
    IN f[Len(mbr.parts)]

\* Mutant: the MBR goes first.
MigrateWritesFirst == <<"pmbr">> \o BothWrites
MigrateWrites == BothWrites \o <<"pmbr">>

Migrate(m, force, slice, p) ==
    LET b == GptBlocks(m, p)
    IN /\ Opens(IF Hidden(m) THEN "migrate_M" ELSE "migrate", m)
       /\ map_find(m, "mbr")
       /\ ~map_find(m, "pri_hdr") /\ ~map_find(m, "sec_hdr")
       /\ b # 0
       /\ (\E k \in DOMAIN mbr.parts : mbr.parts[k].typ = "dos") => force
       /\ creates < MaxCreates
       /\ creates' = creates + 1
       /\ cmd' = "migrate"
       /\ mem' = NewCore(b, p, Extents(slice))
       /\ todo' = MigrateWrites
       /\ left' = {}
       /\ UNCHANGED <<diskVars, fails, crashes, made, forked>>

\* Mutant: -r does not look for a backup.
DestroyAlways(m, recoverable) ==
    LET w1 == IF map_find(m, "pri_hdr") THEN <<"pri_zero">> ELSE <<>>
        w2 == IF ~recoverable /\ map_find(m, "sec_hdr") THEN <<"sec_zero">> ELSE <<>>
    IN /\ Opens("destroy", m)
       /\ w1 \o w2 # <<>>
       /\ cmd' = "destroy"
       /\ todo' = w1 \o w2
       /\ made' = (made /\ recoverable)
       /\ UNCHANGED <<diskVars, mem, left, creates, fails, crashes, forked>>

\* destroy(): of both headers, or with -r of the primary one.
Destroy(m, recoverable) ==
    LET w1 == IF map_find(m, "pri_hdr") THEN <<"pri_zero">> ELSE <<>>
        w2 == IF ~recoverable /\ map_find(m, "sec_hdr") THEN <<"sec_zero">> ELSE <<>>
    IN /\ Opens("destroy", m)
       /\ recoverable => map_find(m, "sec_hdr")
       /\ w1 \o w2 # <<>>
       /\ cmd' = "destroy"
       /\ todo' = w1 \o w2
       /\ made' = (made /\ recoverable)
       /\ UNCHANGED <<diskVars, mem, left, creates, fails, crashes, forked>>

-----------------------------------------------------------------------------
\* The medium is replaced by a larger one with the same contents, while its
\* primary GPT is in order; the backup GPT is not at the end any more.
Grow ==
    /\ Ready /\ "grow" \in Commands
    /\ Intact("pri")
    /\ \E s \in Media : s > media /\ media' = s
    /\ hdr' = [hdr EXCEPT !["sec"] = NoHdr]
    /\ tbl' = [tbl EXCEPT !["sec"] = BlankTable]
    /\ UNCHANGED <<mbr, coreVars, histVars>>

Init ==
    /\ media \in Media
    /\ mbr \in Mbrs
    /\ hdr = [c \in Copies |-> NoHdr]
    /\ tbl = [c \in Copies |-> BlankTable]
    /\ cmd = "none" /\ todo = <<>> /\ left = {}
    /\ mem = NoCore
    /\ creates = 0 /\ fails = 0
    /\ crashes = 0 /\ made = FALSE /\ forked = FALSE

Next ==
    \/ Write \/ WriteFails \/ Crash \/ EditNext \/ Grow
    \/ /\ Ready
       /\ \E m \in {gpt_open(nombr) : nombr \in Ignore} :
            \/ \E e \in 0 .. N, arg \in AddArgs : Add(m, e, arg)
            \/ \E e \in 1 .. N, arg \in ResizeArgs : Resize(m, e, arg)
            \/ \E name \in {"remove", "label", "rename"}, S \in SUBSET Ent :
                 EditAll(m, name, S)
            \/ \E size \in BootSizes : installboot(m, size) \/ installefi(m, size)
            \/ \E force \in BOOLEAN : Recover(m, force) \/ RecoverPmbr(m, force)
            \/ RecoverMedia(m)
            \/ \E force, priOnly \in BOOLEAN, p \in Parts :
                 Create(m, force, priOnly, p)
            \/ \E force, slice \in BOOLEAN, p \in Parts :
                 Migrate(m, force, slice, p)
            \/ \E recoverable \in BOOLEAN : Destroy(m, recoverable)

Spec == Init /\ [][Next]_vars

-----------------------------------------------------------------------------
(* Properties *)

Slot == [uuid : 0 .. MaxCreates, used : BOOLEAN, start : Nat, size : Int, tag : 0 .. 3]
Table == [Ent -> Slot]
Names == {"none", "add", "resize", "remove", "label", "rename", "installboot", "installefi",
          "recover", "media", "pmbr", "create", "migrate", "destroy"}
Writes == {"pmbr", "pri_hdr", "pri_tbl", "sec_tbl", "sec_hdr", "pri_zero", "sec_zero", "image"}
TypeOK ==
    /\ media \in Media
    /\ mbr \in Mbrs \cup {Pmbr}
    /\ \A c \in Copies : /\ hdr[c].n \in 0 .. N /\ hdr[c].alt \in 0 .. Last1
                         /\ hdr[c].crc \in [0 .. hdr[c].n - 1 -> Slot]
    /\ tbl \in [Copies -> Table]
    /\ mem \in [Copies -> [n : 0 .. N, alt : 0 .. Last1, ent : Table]]
    /\ cmd \in Names /\ todo \in Seq(Writes) /\ left \subseteq Ent
    /\ creates \in 0 .. MaxCreates /\ fails \in 0 .. MaxFails
    /\ crashes \in 0 .. MaxCrashes /\ made \in BOOLEAN /\ forked \in BOOLEAN

\* However often fgdisk is interrupted, and wherever, one copy of the GPT is
\* always there to recover from: a command that writes both copies starts
\* only when both are intact and finishes the primary one first, and recover
\* writes to the copy that is lost.
SurvivesCrashes == made /\ fails = 0 => \E c \in Copies : Intact(c)

\* A single failed write, which nearly all commands overlook, does not cost
\* the GPT either.
SurvivesFailure ==
    made /\ fails = 1 /\ crashes = 0 /\ Ready => \E c \in Copies : Intact(c)

Used(c) == {tbl[c][i] : i \in {j \in 0 .. hdr[c].n - 1 : tbl[c][j].used}}
\* Partitions are not empty, lie between the two copies of the GPT and do not
\* overlap.
Laid(c) ==
    /\ \A x \in Used(c) :
         x.size > 0 /\ x.start >= 2 + Blocks(hdr[c].n) /\ End(x) <= Last1 - Blocks(hdr[c].n)
    /\ \A i, j \in 0 .. hdr[c].n - 1 :
         LET x == tbl[c][i]
             y == tbl[c][j]
         IN i < j /\ x.used /\ y.used => End(x) <= y.start \/ End(y) <= x.start
\* The image that is to be written stays inside its partition: it reaches no
\* other partition and neither copy of the GPT.
ImageInPlace(c) ==
    todo # <<>> /\ Head(todo) = "image" =>
        \E i \in gpt_lookup(cmd, mem["pri"].n, mem["pri"].ent) :
            LET at == mem["pri"].ent[i].start
            IN /\ at >= 2 + Blocks(hdr[c].n) /\ at + ImageSize <= Last1 - Blocks(hdr[c].n)
               /\ \A x \in Used(c) : x.start = at \/ at + ImageSize <= x.start \/ End(x) <= at
\* Whatever sequence of commands and crashes made it, an intact copy describes
\* partitions that are disjoint, and installboot and installefi write to the one
\* that is for their image, as long as no two intact copies that differ were ever left
\* behind.
Disjoint == ~forked => \A c \in Copies : Intact(c) => Laid(c) /\ ImageInPlace(c)

\* fgdisk can open what it left behind, if need be without looking at the MBR.
Openable == ~forked => \E nombr \in BOOLEAN : gpt_open(nombr) # Null

\* When recover is done both copies are intact and equal.
RecoverRestores ==
    [][cmd = "recover" /\ hdr' # hdr /\ fails = 0 =>
          (\A c \in Copies : Intact(c)') /\ hdr'["pri"].crc = hdr'["sec"].crc]_vars

\* migrate gives up the MBR only when every partition it described is in both
\* copies of the GPT (unknown types excepted).
MigrateKeeps ==
    [][cmd = "migrate" /\ mbr' # mbr /\ fails = 0 =>
          \A c \in Copies : /\ Intact(c)
                            /\ \E slice \in BOOLEAN : \A k \in DOMAIN Extents(slice) :
                                 \E x \in Used(c) : /\ x.start = Extents(slice)[k].start
                                                    /\ x.size = Extents(slice)[k].size]_vars

\* destroy -r destroys "the table in a way that it can be recovered": what
\* the backup copy holds is the table that is destroyed.
RecoverableDestroy ==
    [][~forked /\ made' /\ hdr["pri"] # NoHdr /\ hdr'["pri"] = NoHdr =>
          Intact("sec") /\ hdr["sec"].crc = hdr["pri"].crc]_vars

\* recover, migrate and destroy -r lose nothing on the way.
CommandsKeep == RecoverRestores /\ MigrateKeeps /\ RecoverableDestroy
=============================================================================
