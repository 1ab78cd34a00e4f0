------------------------------- MODULE Disks -------------------------------
(***************************************************************************)
(* Slices and partitions of the disks the loader opens: disk.c with its    *)
(* list of opened disks, ptable_open() of part.c, and bd_open(),           *)
(* bd_close(), bd_print() and bd_getdev() of biosdisk.c above them.        *)
(*                                                                         *)
(* A sector is a tagged tuple: <<"data">>, <<"mbr", entries>>,             *)
(* <<"label32", raw offset, parts>>, <<"label64", parts>> or <<"gpt", h>>; *)
(* the label64 begins in sector 0 and has its magic in sector 1.           *)
(***************************************************************************)
EXTENDS Integers, Sequences, FiniteSets, FiniteSetsExt

CONSTANTS
  DkUnits,      \* units there are
  DkFloppies,   \* those opened with DISK_F_NOCACHE
  DkMedia,      \* media: [at, last, layout]
  DkOthers,     \* those a floppy may be changed for
  DkReqs,       \* slices and partitions asked for
  DkBad,        \* sectors that cannot be read at times
  DkMaxDevs,    \* bound: devices open
  DkMaxCache,   \* bound: dentries
  DkMaxChanges  \* bound: changes of media

ASSUME DisksAssumption ==
  /\ DkFloppies \subseteq DkUnits
  /\ DkMaxDevs \in Nat /\ DkMaxCache \in Nat /\ DkMaxChanges \in Nat

VARIABLES
  dkMed,    \* medium of every unit
  dkCache,  \* opened_disks: dentries [unit, slice, part, od, off]
  dkOds,    \* struct open_disk, by address: [unit, table, nocache, rcnt]
  dkDevs,   \* disk_devdesc of the open files, with what was asked for and
            \* what was on the disk then
  dkChanges, dkBooted

dkVars == <<dkMed, dkCache, dkOds, dkDevs, dkChanges, dkBooted>>

------------------------------------------------------------------------------
(* part.c.  d is a medium, bad the sectors that fail this time, off where    *)
(* the table is looked for.                                                  *)

Rd(d, bad, lba) ==
  IF lba \in bad \/ lba \notin 0 .. d.last THEN <<"err">>
  ELSE IF lba \in DOMAIN d.at THEN d.at[lba] ELSE <<"data">>
Fails(d, bad, lba, n) == \E l \in lba .. lba + n - 1 : Rd(d, bad, l) = <<"err">>

Table(type, ents) == [type |-> type, ents |-> ents]
NullTable == Table("null", <<>>)
NoTable == Table("none", <<>>)
Ent(start, end, index, type, flag) == [start |-> start, end |-> end, index |-> index, type |-> type, flag |-> flag]

RAW_PART == 2
\* entries of a disklabel, from offset raw on; behind: how far off the end is
LabelEnts(parts, raw, behind) ==
  LET idx == SelectSeq([i \in DOMAIN parts |-> i - 1], LAMBDA i : i # RAW_PART /\ parts[i + 1].size # 0)
  IN  [k \in DOMAIN idx |-> LET p == parts[idx[k] + 1]
                            IN  Ent(p.off - raw, p.off - raw + p.size + behind, idx[k], p.type, 0)]
Label64Sectors == 4
bsdread64(d, bad, off) ==
  LET s == Rd(d, bad, off + 1)
  IN  IF Fails(d, bad, off, Label64Sectors) THEN NullTable
      ELSE IF s[1] # "label64" \/ Len(s[2]) \notin 8 .. 20 THEN NoTable
      ELSE Table("bsd64", LabelEnts(s[2], 0, 0))
bsdread32(d, bad, off) ==
  LET s == Rd(d, bad, off + 1)
  IN  IF s[1] = "err" THEN NullTable
      ELSE IF s[1] # "label32" \/ Len(s[3]) \notin 8 .. 20 THEN NoTable
      ELSE Table("bsd32", LabelEnts(s[3], s[2], 1))

\* gpt_checkhdr(); h = [self, alt, ents, ok, id], ok whether the table's
\* checksum is right, id what the two headers have in common
GptHdr(d, bad, off, lba) ==
  LET s == Rd(d, bad, off + lba)
  IN  IF s[1] = "gpt" /\ s[2].self = lba /\ s[2].alt # lba THEN <<s[2]>> ELSE <<>>
UsedEnts(ents, used) ==
  Table("gpt", [k \in DOMAIN used |-> Ent(ents[used[k]].start, ents[used[k]].end, used[k], ents[used[k]].type, 0)])
GptEntries(ents) == UsedEnts(ents, SelectSeq([i \in DOMAIN ents |-> i], LAMBDA i : ents[i].type # "unused"))
\* the headers p and s were read; the second table is read over the first
GptTables(p, s, pri) ==
  LET read == s # <<>> /\ (~ pri \/ p[1].id # s[1].id)
  IN  IF ~ pri /\ ~ (read /\ s[1].ok) THEN NoTable ELSE GptEntries(IF read THEN s[1].ents ELSE p[1].ents)
GptSecond(d, bad, off, sectors, p, pri) ==
  GptTables(p, GptHdr(d, bad, off, IF pri THEN p[1].alt ELSE sectors - 1), pri)
GptFirst(d, bad, off, sectors, p) == GptSecond(d, bad, off, sectors, p, p # <<>> /\ p[1].ok)
gptread(d, bad, off, sectors) ==
  IF Rd(d, bad, off + 1)[1] = "err" THEN NullTable ELSE GptFirst(d, bad, off, sectors, GptHdr(d, bad, off, 1))

MAXEBRENTRIES == 8
ExtTypes == {"ext", "extlba"}
\* the entries of a sector, whether it has the magic number ("mbr") or not
\* ("bare"); elsewhere there are none
NoEntries == [type |-> "free", flag |-> 0, start |-> 0, size |-> 0]
EntriesAt(s) == IF s[1] \in {"mbr", "bare"} THEN s[2] ELSE [i \in 1 .. 4 |-> NoEntries]
\* ptable_ebrread(): two entries in each sector, the second leads to the next
ebrread(d, bad, off, first) ==
  LET Chain[i \in Nat, offset \in Int, index \in Nat] ==
        LET s == Rd(d, bad, off + offset)
            dp == EntriesAt(s)
        IN  IF i = MAXEBRENTRIES \/ s[1] = "err" \/ dp[1].type = "free" THEN <<>>
            ELSE IF dp[1].type = "ext" /\ dp[2].type = "free" THEN Chain[i + 1, first + dp[1].start, index]
            ELSE <<Ent(offset + dp[1].start, offset + dp[1].start + dp[1].size - 1, index, dp[1].type, dp[1].flag)>>
                 \o (IF dp[2].type = "free" THEN <<>> ELSE Chain[i + 1, first + dp[2].start, index + 1])
  IN  Chain[0, first, 5]
WithLogical(d, bad, off, ents) ==
  LET ext == {k \in DOMAIN ents : ents[k].type \in ExtTypes}
  IN  Table("mbr", ents \o (IF ext = {} THEN <<>> ELSE ebrread(d, bad, off, ents[Min(ext)].start)))
MbrEntry(p, i) == Ent(p.start, p.start + p.size - 1, i, p.type, p.flag)
Primary(dp, idx) == [k \in DOMAIN idx |-> MbrEntry(dp[idx[k]], idx[k])]
mbrread(d, bad, off, dp) ==
  WithLogical(d, bad, off,
              Primary(dp, SelectSeq(<<1, 2, 3, 4>>, LAMBDA i : dp[i].type # "free" /\ dp[i].start # 0 /\ dp[i].size # 0)))

\* the labels l64 and l32 were looked for first; dp are the entries of an MBR
MbrBad(dp, pmbr) == (\E i \in 1 .. 4 : dp[i].flag \notin {0, 128}) \/ (pmbr /\ Cardinality({i \in 1 .. 4 : dp[i].type # "free"}) > 1)
TableBy(d, bad, off, sectors, s0, l64, l32) ==
  LET pmbr == s0[1] = "mbr" /\ \E i \in 1 .. 4 : s0[2][i].type = "pmbr"
  IN  IF s0[1] = "err" THEN NullTable
      ELSE IF l64.type # "none" THEN l64
      ELSE IF l32.type # "none" THEN l32
      ELSE IF s0[1] = "mbr" /\ MbrBad(s0[2], pmbr) THEN NoTable
      ELSE IF s0[1] # "mbr" \/ pmbr THEN gptread(d, bad, off, sectors)
      ELSE mbrread(d, bad, off, s0[2])
ptable_open(d, bad, off, sectors) ==
  TableBy(d, bad, off, sectors, Rd(d, bad, off), bsdread64(d, bad, off), bsdread32(d, bad, off))

Isbsd(t) == t.type \in {"bsd32", "bsd64"}
Found(t, S) == IF S = {} THEN <<>> ELSE <<t.ents[Min(S)]>>
ptable_getpart(t, index) == Found(t, {k \in DOMAIN t.ents : t.ents[k].index = index})

PREF_NONE == 7
Pref(t, e) ==
  LET act == IF e.flag = 128 THEN 0 ELSE 1
  IN  CASE t.type = "mbr" /\ e.type = "bsd" -> 1 + act
        [] t.type = "mbr" /\ e.type = "linux" -> 3 + act
        [] t.type = "mbr" /\ e.type = "dos" -> 5 + act
        [] t.type = "gpt" /\ e.type = "ufs" -> 2
        [] t.type = "gpt" /\ e.type = "dos" -> 6
        [] OTHER -> PREF_NONE
ptable_getbestpart(t) ==
  Found(t, {k \in DOMAIN t.ents :
              Pref(t, t.ents[k]) < PREF_NONE /\ \A j \in DOMAIN t.ents : Pref(t, t.ents[k]) <= Pref(t, t.ents[j])})

------------------------------------------------------------------------------
(* disk_open(): where the partition asked for is, on the disk with table t.  *)

Where(off, slice, part) == [ok |-> TRUE, off |-> off, slice |-> slice, part |-> part]
NotThere == [ok |-> FALSE, off |-> 0, slice |-> -1, part |-> -1]
GPT_PART == 255
\* below a slice
InTable(t, e, p) ==
  LET found == ptable_getpart(t, IF p < 0 THEN 0 ELSE p)
  IN  IF p = -1 /\ e.type # "bsd" THEN Where(e.start, e.index, p)
      ELSE IF t = NullTable THEN NotThere
      ELSE IF p < 0 /\ ~ Isbsd(t) THEN Where(e.start, e.index, p)
      ELSE IF found = <<>> THEN NotThere
      ELSE Where(e.start + found[1].start, e.index, IF p < 0 THEN 0 ELSE p)
InSlice(d, bad, e, part) ==
  InTable(ptable_open(d, bad, e.start, e.end - e.start + 1), e, IF part = GPT_PART THEN -1 ELSE part)
Resolve(d, bad, t, slice, part) ==
  LET byPart == ptable_getpart(t, part)
      bySlice == IF slice = 0 THEN ptable_getbestpart(t) ELSE ptable_getpart(t, slice)
  IN  IF t = NullTable THEN NotThere
      ELSE IF Isbsd(t) /\ part >= 0 THEN IF byPart = <<>> THEN NotThere ELSE Where(byPart[1].start, slice, part)
      ELSE IF slice < 0 THEN Where(0, slice, part)
      ELSE IF bySlice = <<>> THEN NotThere
      ELSE IF t.type = "gpt" THEN Where(bySlice[1].start, bySlice[1].index, GPT_PART)
      ELSE InSlice(d, bad, bySlice[1], part)

\* a struct open_disk at the address p
NewAt(ods) == Min({i \in 1 .. Cardinality(DOMAIN ods) + 1 : i \notin DOMAIN ods})
With(ods, p, od) == [i \in DOMAIN ods \cup {p} |-> IF i = p THEN od ELSE ods[i]]
Freed(ods, p) == [i \in DOMAIN ods \ {p} |-> ods[i]]

\* Mutant: the new user is not counted
insertUncounted(st, u, s, p, od, off) ==
  [cache |-> Append(st.cache, [unit |-> u, slice |-> s, part |-> p, od |-> od, off |-> off]), ods |-> st.ods]
\* disk_insert()
disk_insert(st, u, s, p, od, off) ==
  [cache |-> Append(st.cache, [unit |-> u, slice |-> s, part |-> p, od |-> od, off |-> off]),
   ods |-> [st.ods EXCEPT ![od].rcnt = @ + 1]]

Device(u, s, p, od, off) == [unit |-> u, slice |-> s, part |-> p, od |-> od, off |-> off]
Refused(cache, ods) == [cache |-> cache, ods |-> ods, dev |-> <<>>]
\* disk_open() has the disk od, and r is where the partition is
Opened(u, s, p, od, ods, r) ==
  LET st == disk_insert([cache |-> dkCache, ods |-> ods], u, s, p, od, r.off)
      nocache == u \in DkFloppies
  IN  IF ~ r.ok THEN Refused(dkCache, IF ods[od].rcnt < 1 THEN Freed(ods, od) ELSE ods)
      ELSE [cache |-> IF nocache THEN dkCache ELSE st.cache, ods |-> IF nocache THEN ods ELSE st.ods,
            dev |-> <<Device(u, r.slice, r.part, od, r.off)>>]
OpenOn(u, s, p, bad, od, ods) == Opened(u, s, p, od, ods, Resolve(dkMed[u], bad, ods[od].table, s, p))
OpenDisk(u, bad) ==
  [unit |-> u, table |-> ptable_open(dkMed[u], bad, 0, dkMed[u].last + 1), nocache |-> u \in DkFloppies, rcnt |-> 0]
\* cache and open disks after disk_open(), and the device if it succeeds
disk_open(u, s, p, bad) ==
  LET same == {k \in DOMAIN dkCache : u \notin DkFloppies /\ dkCache[k].unit = u}
      hit == {k \in same : dkCache[k].slice = s /\ dkCache[k].part = p}
      new == NewAt(dkOds)
  IN  IF hit # {}
      THEN [cache |-> dkCache, ods |-> dkOds, dev |-> <<Device(u, s, p, dkCache[Min(hit)].od, dkCache[Min(hit)].off)>>]
      ELSE IF same # {} THEN OpenOn(u, s, p, bad, dkCache[Max(same)].od, dkOds)
      ELSE OpenOn(u, s, p, bad, new, With(dkOds, new, OpenDisk(u, bad)))
disk_close(ods, od) == IF ods[od].nocache THEN Freed(ods, od) ELSE ods

------------------------------------------------------------------------------
(* The loader's calls, one after the other.                                  *)

bd_open(u, q, bad) ==
  /\ ~ dkBooted /\ Len(dkDevs) < DkMaxDevs
  /\ \E r \in {disk_open(u, q[1], q[2], bad)} :
       /\ Len(r.cache) <= DkMaxCache
       /\ dkCache' = r.cache /\ dkOds' = r.ods
       /\ dkDevs' = IF r.dev = <<>> THEN dkDevs
                    ELSE Append(dkDevs, [dev |-> r.dev[1], asked |-> q, layout |-> dkMed[u].layout])
  /\ UNCHANGED <<dkMed, dkChanges, dkBooted>>
bd_close(i) ==
  /\ ~ dkBooted
  /\ dkOds' = disk_close(dkOds, dkDevs[i].dev.od)
  /\ dkDevs' = SubSeq(dkDevs, 1, i - 1) \o SubSeq(dkDevs, i + 1, Len(dkDevs))
  /\ UNCHANGED <<dkMed, dkCache, dkChanges, dkBooted>>
\* bd_getdev(), and bd_print() with the whole disk: opened and closed again
bd_probe(u, q, bad) ==
  /\ ~ dkBooted
  /\ \E r \in {disk_open(u, q[1], q[2], bad)} :
       /\ Len(r.cache) <= DkMaxCache
       /\ dkCache' = r.cache
       /\ dkOds' = IF r.dev = <<>> THEN r.ods ELSE disk_close(r.ods, r.dev[1].od)
  /\ UNCHANGED <<dkMed, dkDevs, dkChanges, dkBooted>>
\* bd_cleanup(), disk_cleanup() when all files are closed: each dentry takes
\* its count off, the last one frees
bd_cleanup ==
  /\ ~ dkBooted /\ dkDevs = <<>>
  /\ dkCache' = <<>>
  /\ dkOds' = [i \in {i \in DOMAIN dkOds :
                        Cardinality({k \in DOMAIN dkCache : dkCache[k].od = i}) < dkOds[i].rcnt \/ dkOds[i].nocache} |-> dkOds[i]]
  /\ dkBooted' = TRUE
  /\ UNCHANGED <<dkMed, dkDevs, dkChanges>>
\* a floppy is changed while none of it is open
Changed(u, d) ==
  /\ ~ dkBooted /\ dkChanges < DkMaxChanges
  /\ \A i \in DOMAIN dkDevs : dkDevs[i].dev.unit # u
  /\ dkMed' = [dkMed EXCEPT ![u] = d]
  /\ dkChanges' = dkChanges + 1
  /\ UNCHANGED <<dkCache, dkOds, dkDevs, dkBooted>>

DkInit(media) ==
  /\ dkMed \in media
  /\ dkCache = <<>> /\ dkOds = <<>> /\ dkDevs = <<>> /\ dkChanges = 0 /\ dkBooted = FALSE
DkNext ==
  \/ \E u \in DkUnits, q \in DkReqs, bad \in DkBad : bd_open(u, q, bad)
  \/ \E i \in DOMAIN dkDevs : bd_close(i)
  \/ \E u \in DkUnits, bad \in DkBad : bd_probe(u, <<-1, -1>>, bad)
  \/ bd_cleanup
  \/ \E u \in DkFloppies, d \in DkOthers : Changed(u, d)

------------------------------------------------------------------------------
(* Where the partition asked for really is.  A layout is what was put on     *)
(* the disk: [kind, slices], a slice [index, start, type, active, label],    *)
(* a label <<>> or the start of every partition by its number.               *)

BestRank(l, s) ==
  CASE l.kind = "mbr" /\ s.type = "bsd" -> 1 [] l.kind = "gpt" /\ s.type = "ufs" -> 1
    [] l.kind = "mbr" /\ s.type = "linux" -> 2 [] s.type = "dos" -> 3 [] OTHER -> 4
\* one slice is better than another; of equals the first is taken
Better(l, s, t) ==
  \/ BestRank(l, s) < BestRank(l, t)
  \/ BestRank(l, s) = BestRank(l, t) /\ s.active /\ ~ t.active
  \/ BestRank(l, s) = BestRank(l, t) /\ s.active = t.active /\ s.index < t.index
Meant(l, q) ==
  LET S == IF q[1] = 0 THEN {s \in l.slices : BestRank(l, s) < 4 /\ \A t \in l.slices \ {s} : Better(l, s, t)}
           ELSE {s \in l.slices : s.index = q[1]}
      s == CHOOSE s \in S : TRUE
      p == IF q[2] \in {-1, GPT_PART} THEN 0 ELSE q[2]
  IN  IF q[1] < 0 /\ (q[2] < 0 \/ l.kind # "label") THEN {0}
      \* a slice of a disk without slices is taken for a number of a partition
      ELSE IF l.kind = "label" /\ q[2] < 0 THEN 0 .. 99
      ELSE IF l.kind = "label" THEN IF q[2] \in DOMAIN l.slices THEN {l.slices[q[2]]} ELSE {}
      ELSE IF S = {} THEN {}
      ELSE IF l.kind = "gpt" \/ (q[2] \in {-1, GPT_PART} /\ (s.type # "bsd" \/ s.label = <<>>)) THEN {s.start}
      ELSE IF p \in DOMAIN s.label THEN {s.start + s.label[p]} ELSE {}

\* DisksRight: an open device is where its partition is, whatever was opened,
\* closed or failed before; every open disk that a device or the list of
\* opened disks uses is there, is the right one and has the right count, and
\* nothing else is kept.
DisksRight ==
  LET users(i) == {k \in DOMAIN dkCache : dkCache[k].od = i}
      devs(i) == {k \in DOMAIN dkDevs : dkDevs[k].dev.od = i}
  IN  /\ \A k \in DOMAIN dkDevs :
           LET v == dkDevs[k].dev
           IN  /\ v.off \in Meant(dkDevs[k].layout, dkDevs[k].asked)
               /\ v.od \in DOMAIN dkOds /\ dkOds[v.od].unit = v.unit
      /\ \A k \in DOMAIN dkCache : dkCache[k].od \in DOMAIN dkOds /\ dkOds[dkCache[k].od].unit = dkCache[k].unit
      /\ \A i \in DOMAIN dkOds :
           /\ dkOds[i].rcnt = Cardinality(users(i))
           /\ IF dkOds[i].nocache THEN Cardinality(devs(i)) = 1 ELSE users(i) # {}
      /\ \A k, j \in DOMAIN dkCache : dkCache[k].unit = dkCache[j].unit => dkCache[k].od = dkCache[j].od
=============================================================================
