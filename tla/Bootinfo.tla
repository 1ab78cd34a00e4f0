------------------------------ MODULE Bootinfo ------------------------------
(***************************************************************************)
(* What the loader hands to the kernel: the flags of the boot              *)
(* (bi_getboothowto()), the root file system of /etc/fstab                 *)
(* (getrootmount()), where ACPI is, the memory map of the firmware         *)
(* (bios_getsmap(), bi_load_efi_data()), the environment and the directory *)
(* of loaded files behind them (bi_copyenv(), bi_copymodules()), and the   *)
(* page tables the kernel starts on (elf64_exec()).                        *)
(*                                                                         *)
(* Memory is a function of cells.  A 32-bit number takes BiInt of them, a  *)
(* character one.                                                          *)
(***************************************************************************)
EXTENDS Integers, Sequences, FiniteSets, SequencesExt

CONSTANTS
  BiBoots,    \* what there is to boot: see the MC module
  BiPage,     \* PAGE_SIZE
  BiInt,      \* sizeof(uint32_t)
  BiSmapMax,  \* entries a BIOS has at most
  BiPtn,      \* entries of a page table
  BiPts       \* what an entry of the lowest table maps

ASSUME BiAssumption ==
  /\ {BiPage, BiInt, BiPtn, BiPts} \subseteq Nat \ {0}
  /\ BiSmapMax \in Nat

VARIABLES
  biPhase,   \* "smap", "exec", "alloc", "map", "exit", "copy", "started", "failed"
  bi,        \* the boot: a member of BiBoots
  biSmap,    \* the entries of the BIOS's map so far; then [base, attr]
  biFw,      \* the EFI firmware: [map, len, room, got, exited, tries]
  biMem,     \* the memory the files are in
  biOut      \* [howto, env, envp, modulep, meta, kernend, entry]
biVars == <<biPhase, bi, biSmap, biFw, biMem, biOut>>

BiNone == [none |-> TRUE]
BiRoundup(n, k) == ((n + k - 1) \div k) * k
\* a cell that is a number, or a character
BiN(n) == <<"n", n>>
BiC(s) == [i \in 1 .. Len(s) |-> <<"c", s[i]>>]
BiNul == <<"c", "">>

(***************************************************************************)
(* The flags.                                                              *)
(***************************************************************************)
Consoles3 == {"MUTE", "VIDEO", "SERIAL"}
BiosLetters ==
  [a |-> "ASKNAME", C |-> "CDROM", d |-> "KDB", V |-> "VIDEO", m |-> "MUTE", g |-> "GDB", h |-> "SERIAL",
   p |-> "PAUSE", r |-> "DFLTROOT", s |-> "SINGLE", v |-> "VERBOSE"]
howto_masks ==
  [a |-> "ASKNAME", C |-> "CDROM", d |-> "KDB", r |-> "DFLTROOT", g |-> "GDB", m |-> "MUTE", p |-> "PAUSE",
   h |-> "SERIAL", s |-> "SINGLE", v |-> "VERBOSE"]
\* the flags that have a variable
howto_names == {"ASKNAME", "CDROM", "KDB", "GDB", "SINGLE", "VERBOSE", "VIDEO", "SERIAL"}
ConsoleFlag == [vidconsole |-> "VIDEO", comconsole |-> "SERIAL", nullconsole |-> "MUTE"]

\* One character of the arguments in the BIOS loader: s = [howto, active].
BiosArg(s, c) ==
  CASE ~s.active -> [s EXCEPT !.active = c = "-"]
    [] s.active /\ c = "D" -> [s EXCEPT !.howto = @ \ Consoles3]
    [] s.active /\ c \in DOMAIN BiosLetters -> [s EXCEPT !.howto = @ \cup {BiosLetters[c]}]
    [] OTHER -> [s EXCEPT !.active = FALSE]

\* Two consoles are as good as all of them.
BothConsoles(howto) == IF {"VIDEO", "SERIAL"} \subseteq howto THEN howto \ Consoles3 ELSE howto

\* bi_getboothowto() of libi386: the arguments, the variables, the consoles
bi_getboothowto(args, set, consoles) ==
  BothConsoles(FoldLeft(BiosArg, [howto |-> {}, active |-> FALSE], args).howto
               \cup (set \cap howto_names) \cup {ConsoleFlag[c] : c \in ToSet(consoles)})

\* One character in the EFI loader: it looks for the next `-', which may be
\* the very one that was no switch.
EfiArg(s, c) ==
  CASE s.active /\ c \in DOMAIN howto_masks -> [s EXCEPT !.howto = @ \cup {howto_masks[c]}]
    [] OTHER -> [s EXCEPT !.active = c = "-"]

\* bi_getboothowto() of the EFI loader compares $console as a whole.
efi_getboothowto(args, set, consoles) ==
  FoldLeft(EfiArg, [howto |-> (set \cap howto_names) \cup (IF Len(consoles) = 1 THEN {ConsoleFlag[consoles[1]]} ELSE {}),
                    active |-> FALSE], args).howto

\* bi_setboothowto(): the variables that are set for the flags of boot2
bi_setboothowto(howto) == howto \cap howto_names

\* ... and $console, as main() leaves it to cons_probe()
ConsoleOf(howto, probed) ==
  CASE "MUTE" \in howto -> <<"nullconsole">>
    [] {"VIDEO", "SERIAL"} \subseteq howto -> <<"vidconsole", "comconsole">>
    [] "VIDEO" \in howto -> <<"vidconsole">>
    [] "SERIAL" \in howto -> <<"comconsole">>
    [] OTHER -> probed

(***************************************************************************)
(* The environment: a sequence of [name, value]; which place setenv() gives *)
(* a new variable does not matter here.                                    *)
(***************************************************************************)
BiSetenv(env, n, v) ==
  IF \E i \in 1 .. Len(env) : env[i].name = n
  THEN [i \in 1 .. Len(env) |-> IF env[i].name = n THEN [env[i] EXCEPT !.value = v] ELSE env[i]]
  ELSE Append(env, [name |-> n, value |-> v])
BiHas(env, n) == \E i \in 1 .. Len(env) : env[i].name = n

\* getrootmount(), one line of /etc/fstab: the place of the first character
\* from i on that is (or is not) white
BiWhite(l, i, white) == CHOOSE j \in i .. Len(l) + 1 :
  /\ j = Len(l) + 1 \/ (l[j] = " ") = white
  /\ \A k \in i .. j - 1 : (l[k] = " ") # white
FstabRoot(l) ==
  LET d == BiWhite(l, 1, TRUE)                                  \* behind the device
      m == IF d > Len(l) THEN d ELSE BiWhite(l, d + 1, FALSE)   \* the mount point
      t == BiWhite(l, m + 2, FALSE)                             \* the type
  IN  IF \/ l = <<>> \/ l[1] = "#" \/ d > Len(l)
         \/ m > Len(l) \/ l[m] # "/" \/ m + 1 > Len(l) \/ l[m + 1] # " " \/ t > Len(l)
      THEN <<>>
      ELSE SubSeq(l, t, BiWhite(l, t, TRUE) - 1) \o <<":">> \o SubSeq(l, 1, d - 1)

\* the variable once is enough; the first line with a root counts
getrootmount(env, fstab) ==
  LET roots == SelectSeq([i \in 1 .. Len(fstab) |-> FstabRoot(fstab[i])], LAMBDA r : r # <<>>)
  IN  IF BiHas(env, <<"m">>) \/ roots = <<>> THEN env ELSE BiSetenv(env, <<"m">>, roots[1])

\* ACPI: the table found, BiNone or [addr, rev].  A BIOS's is looked for in two
\* windows, on 16-byte boundaries: [there, sum, addr, rev].
biosacpi_search_rsdp(window) ==
  LET ok == SelectSeq(window, LAMBDA r : r.there /\ r.sum = 0) IN
  IF ok = <<>> THEN BiNone ELSE [addr |-> ok[1].addr, rev |-> ok[1].rev]
biosacpi_find_rsdp(acpi) ==
  IF biosacpi_search_rsdp(acpi.ebda) # BiNone THEN biosacpi_search_rsdp(acpi.ebda) ELSE biosacpi_search_rsdp(acpi.hi)
EfiRsdp(acpi) == IF acpi.v2 # BiNone THEN acpi.v2 ELSE acpi.v1

\* The hints: r where the table is, v its revision, x where the long one is.
AcpiHints(env, rsdp) ==
  LET rev == IF rsdp.rev = 0 THEN 1 ELSE rsdp.rev
      short == BiSetenv(BiSetenv(env, <<"r">>, <<rsdp.addr>>), <<"v">>, <<ToString(rev)>>)
  IN  IF rsdp = BiNone THEN env ELSE IF rev >= 2 THEN BiSetenv(short, <<"x">>, <<rsdp.addr>>) ELSE short

(***************************************************************************)
(* The copies.  arch_copyin() refuses what would go past the top, and only *)
(* bi_copyenv() of the EFI loader looks.                                   *)
(***************************************************************************)
Room(cells, a) == IF bi.kind = "efi" THEN a + Len(cells) <= bi.top ELSE a + Len(cells) < bi.top
arch_copyin(mem, cells, a) ==
  IF Room(cells, a) THEN [x \in a .. a + Len(cells) - 1 |-> cells[x - a + 1]] @@ mem ELSE mem

\* bi_copyenv() of libi386: s = [mem, at]
BiPut(s, cells) == [mem |-> arch_copyin(s.mem, cells, s.at), at |-> s.at + Len(cells)]
bi_copyenv(mem, env, a) ==
  BiPut(FoldLeft(LAMBDA s, e : BiPut(BiPut(BiPut(BiPut(s, BiC(e.name)), BiC(<<"=">>)), BiC(e.value)), <<BiNul>>),
                 [mem |-> mem, at |-> a], env), <<BiNul>>)

\* ... of the EFI loader: it stops at the first piece that does not fit and
\* ends the environment behind the last whole variable.
EfiPiece(s, cells) ==
  IF s.ok /\ Room(cells, s.at) THEN [s EXCEPT !.mem = arch_copyin(s.mem, cells, s.at), !.at = @ + Len(cells)]
                              ELSE [s EXCEPT !.ok = FALSE]
EfiVar(s, e) ==
  LET t == EfiPiece(EfiPiece(EfiPiece(EfiPiece(s, BiC(e.name)), BiC(<<"=">>)), BiC(e.value)), <<BiNul>>)
  IN  IF t.ok THEN [t EXCEPT !.last = t.at] ELSE t
efi_copyenv(mem, env, a) ==
  LET s == FoldLeft(EfiVar, [mem |-> mem, at |-> a, last |-> a, ok |-> TRUE], env)
  IN  [mem |-> arch_copyin(s.mem, <<BiNul>>, s.last), at |-> IF Room(<<BiNul>>, s.last) THEN s.last + 1 ELSE a]

\* One datum of the directory: its kind, its size and what it is, up to the
\* next word; w = sizeof(u_long) of the kernel.  Nothing is written at 0.
MOD_ITEM(s, item, w, c) ==
  LET Num(n) == [i \in 1 .. BiInt |-> IF i = 1 THEN BiN(n) ELSE BiN(0)]
      m1 == arch_copyin(s.mem, Num(item.t), s.at)
      m2 == arch_copyin(m1, Num(Len(item.data)), s.at + BiInt)
  IN  [mem |-> IF c THEN arch_copyin(m2, item.data, s.at + 2 * BiInt) ELSE s.mem,
       at |-> s.at + 2 * BiInt + BiRoundup(Len(item.data), w)]

MiEnd == 0
MiName == 1
MiType == 2
MiAddr == 3
MiSize == 4
MiArgs == 5
MdHowto == 11
MdEnvp == 12
MdKernend == 13
MdSmap == 14
MdXattr == 15
MdHandle == 16
MdMap == 17

BiString(s) == Append(BiC(s), BiNul)
BiWord(n, w) == [i \in 1 .. w |-> IF i = 1 THEN BiN(n) ELSE BiN(0)]
\* the data of a file, its name first
FileItems(f, w) ==
  <<[t |-> MiName, data |-> BiString(f.name)], [t |-> MiType, data |-> BiString(f.type)]>>
  \o (IF f.args = <<>> THEN <<>> ELSE <<[t |-> MiArgs, data |-> BiString(f.args)]>>)
  \o <<[t |-> MiAddr, data |-> BiWord(f.addr, w)], [t |-> MiSize, data |-> BiWord(f.size, w)]>>
  \o [i \in 1 .. Len(SelectSeq(f.meta, LAMBDA m : m.copy)) |->
        LET m == SelectSeq(f.meta, LAMBDA x : x.copy)[i] IN [t |-> m.t, data |-> m.data]]
BiItems(files, w) == FlattenSeq([i \in 1 .. Len(files) |-> FileItems(files[i], w)])

bi_copymodules(mem, files, a, w) ==
  FoldLeft(LAMBDA s, item : MOD_ITEM(s, item, w, a # 0), [mem |-> mem, at |-> a],
           Append(BiItems(files, w), [t |-> MiEnd, data |-> <<>>]))

\* file_addmetadata(): in front of the others
file_addmetadata(files, k, t, data) ==
  [files EXCEPT ![k].meta = <<[t |-> t, data |-> data, copy |-> TRUE]>> \o @]
\* the kernel: the first file of the general type, or else of the one it is
KernelFile(files) ==
  LET Of(type) == {i \in 1 .. Len(files) : files[i].type = type}
      any == IF Of(<<"k">>) # {} THEN Of(<<"k">>) ELSE Of(IF bi.kind = "bios32" THEN <<"k", "3">> ELSE <<"k", "6">>)
  IN  IF any = {} THEN 0 ELSE CHOOSE i \in any : \A j \in any : i <= j
WordOf == IF bi.kind = "bios32" THEN BiInt ELSE 2 * BiInt

(***************************************************************************)
(* The steps.                                                              *)
(***************************************************************************)
BiInitWith(boots) ==
  /\ bi \in boots
  /\ biPhase = IF bi.kind = "efi" THEN "exec" ELSE "smap"
  /\ biSmap = <<>>
  /\ biFw = [map |-> 0, len |-> 1, room |-> 0, got |-> -1, exited |-> FALSE, tries |-> 2]
  /\ biMem = [x \in 0 .. bi.top - 1 |->
       IF \E i \in 1 .. Len(bi.files) : x \in bi.files[i].addr .. bi.files[i].addr + bi.files[i].size - 1
       THEN <<"f", 0>> ELSE <<"-", 0>>]
  /\ biOut = BiNone

\* bios_getsmap(): the entries become arrays, if there is memory for those
SmapEnd(list) == \E base, attr \in BOOLEAN :
  /\ biSmap' = [base |-> IF base THEN list ELSE <<>>,
                attr |-> base /\ attr /\ list # <<>> /\ \A i \in 1 .. Len(list) : list[i] = "long"]
  /\ biPhase' = "exec"
bios_getsmap ==
  /\ biPhase = "smap"
  /\ \E reply \in bi.replies, last, got \in BOOLEAN :
       IF reply = "bad" \/ ~got THEN SmapEnd(biSmap)
       ELSE IF last \/ Len(biSmap) + 1 = BiSmapMax THEN SmapEnd(Append(biSmap, reply))
       ELSE biSmap' = Append(biSmap, reply) /\ UNCHANGED biPhase
  /\ UNCHANGED <<bi, biFw, biMem, biOut>>

\* bios_addsmapdata()
bios_addsmapdata(files, k) ==
  LET n == Len(biSmap.base)
      base == file_addmetadata(files, k, MdSmap, [i \in 1 .. n |-> BiN(i)])
  IN  IF biSmap.base = <<>> THEN files
      ELSE IF biSmap.attr THEN file_addmetadata(base, k, MdXattr, [i \in 1 .. n |-> BiN(i)]) ELSE base

bi_checkcpu(cpu) == cpu.id /\ cpu.vendor /\ cpu.ext /\ cpu.lm
\* the environment of the kernel
BiEnv ==
  getrootmount(IF bi.kind = "efi" THEN AcpiHints(bi.env, EfiRsdp(bi.acpi))
               ELSE AcpiHints(bi.env, biosacpi_find_rsdp(bi.acpi)), bi.fstab)
BiHowto ==
  IF bi.kind = "efi" THEN efi_getboothowto(bi.args, bi.set, bi.consoles)
  ELSE bi_getboothowto(bi.args, bi.set \cup bi_setboothowto(bi.given), ConsoleOf(bi.given, bi.consoles))
\* the last byte of the files
LastFile(files) == LET ends == {files[i].addr + files[i].size : i \in 1 .. Len(files)}
                   IN  CHOOSE e \in ends : \A x \in ends : x <= e

\* Behind the files the environment, behind it the directory: what is known of
\* both before the first size of the directory is taken
Prepared(env, envp, copied, files, next) ==
  /\ biMem' = copied.mem
  /\ biOut' = [howto |-> BiHowto, env |-> env, envp |-> envp, envend |-> copied.at,
               modulep |-> BiRoundup(copied.at, BiPage), files |-> files, kernend |-> 0, entry |-> 0]
  /\ biPhase' = next
BiEnvp == BiRoundup(LastFile(bi.files), BiPage)
WithFirst(files, k, envp) ==
  file_addmetadata(file_addmetadata(file_addmetadata(files,
    k, MdHowto, BiWord(0, BiInt)), k, MdEnvp, BiWord(envp, WordOf)), k, MdKernend, BiWord(0, WordOf))
BiFails == biPhase' = "failed" /\ UNCHANGED <<biMem, biOut>>

\* elf32_exec() and bi_load32() to there
bi_load32 ==
  /\ biPhase = "exec" /\ bi.kind = "bios32"
  /\ LET k == KernelFile(bi.files) IN
     IF ~bi.elfhdr \/ bi.rootdev \in {"none", "bad"} \/ k = 0 THEN BiFails
     ELSE Prepared(BiEnv, BiEnvp, bi_copyenv(biMem, BiEnv, BiEnvp),
                   bios_addsmapdata(WithFirst(bi.files, k, BiEnvp), k), "copy")
  /\ UNCHANGED <<bi, biSmap, biFw>>
\* elf64_exec() and bi_load64(): no number of the boot device
bi_load64 ==
  /\ biPhase = "exec" /\ bi.kind = "bios64"
  /\ LET k == KernelFile(bi.files) IN
     IF ~bi.elfhdr \/ ~bi_checkcpu(bi.cpu) \/ bi.rootdev = "none" \/ k = 0 THEN BiFails
     ELSE Prepared(BiEnv, BiEnvp, bi_copyenv(biMem, BiEnv, BiEnvp),
                   bios_addsmapdata(WithFirst(bi.files, k, BiEnvp), k), "copy")
  /\ UNCHANGED <<bi, biSmap, biFw>>
\* bi_load() of the EFI loader: the firmware's map comes next
bi_load ==
  /\ biPhase = "exec" /\ bi.kind = "efi"
  /\ LET k == KernelFile(bi.files) IN
     IF ~bi.elfhdr \/ bi.rootdev = "none" \/ k = 0 THEN BiFails
     ELSE Prepared(BiEnv, BiEnvp, efi_copyenv(biMem, BiEnv, BiEnvp),
                   file_addmetadata(WithFirst(bi.files, k, BiEnvp), k, MdHandle, BiWord(0, WordOf)), "alloc")
  /\ UNCHANGED <<bi, biSmap, biFw>>

\* bi_load_efi_data(): room for the map and one entry more, which the pages
\* for it may take
efi_allocate ==
  /\ biPhase = "alloc"
  /\ \/ biPhase' = "copy" /\ UNCHANGED biFw
     \/ /\ biPhase' = "map"
        /\ \E g \in 0 .. 2 : biFw' = [biFw EXCEPT !.room = biFw.len + 1, !.len = @ + g, !.map = @ + g]
  /\ UNCHANGED <<bi, biSmap, biMem, biOut>>
efi_getmap ==
  /\ biPhase = "map"
  /\ IF biFw.len > biFw.room THEN biPhase' = "copy" /\ UNCHANGED biFw
     ELSE biPhase' = "exit" /\ biFw' = [biFw EXCEPT !.got = biFw.map]
  /\ UNCHANGED <<bi, biSmap, biMem, biOut>>
\* the firmware refuses a key that is not that of its map, which it may change
\* on the way
efi_exit ==
  /\ biPhase = "exit"
  /\ \/ /\ biFw.got = biFw.map
        /\ biFw' = [biFw EXCEPT !.exited = TRUE]
        /\ biOut' = [biOut EXCEPT !.files = file_addmetadata(@, KernelFile(bi.files), MdMap, BiWord(biFw.got, biFw.len))]
        /\ biPhase' = "copy"
     \/ /\ biFw' = [biFw EXCEPT !.map = @ + 1, !.tries = @ - 1]
        /\ biPhase' = IF biFw.tries = 1 THEN "copy" ELSE "alloc"
        /\ UNCHANGED biOut
  /\ UNCHANGED <<bi, biSmap, biMem>>

\* The size taken before there was anything to say of the kernel: a mutant of
\* BiKernend.
KernendEarly(files, a) == BiRoundup(a + bi_copymodules(biMem, bi.files, 0, WordOf).at, BiPage)
\* The end of the kernel's memory: what the directory takes, in pages
BiKernend(files, a) == BiRoundup(a + bi_copymodules(biMem, files, 0, WordOf).at, BiPage)
\* patch MODINFOMD_KERNEND
Patched(files, end) ==
  LET k == KernelFile(files) IN
  [files EXCEPT ![k].meta = [i \in 1 .. Len(@) |-> IF @[i].t = MdKernend THEN [@[i] EXCEPT !.data = BiWord(end, WordOf)] ELSE @[i]]]

\* The page tables: all entries of the two upper ones lead to the lowest,
\* which maps the first gigabyte.
BiPt2 == [i \in 0 .. BiPtn - 1 |-> i * BiPts]
BiPhysical(v) == BiPt2[(v \div BiPts) % BiPtn] + (v % BiPts)

\* the rest of bi_load() and the jump
BiStartKernel ==
  /\ biPhase = "copy"
  /\ LET end == BiKernend(biOut.files, biOut.modulep)
         files == Patched(biOut.files, end)
     IN  /\ biMem' = bi_copymodules(biMem, files, biOut.modulep, WordOf).mem
         /\ biOut' = [biOut EXCEPT !.files = files, !.kernend = end,
              !.entry = IF bi.kind = "bios32" THEN bi.entry % (BiPtn * BiPts) ELSE BiPhysical(bi.entry)]
  /\ biPhase' = "started"
  /\ UNCHANGED <<bi, biSmap, biFw>>

BiNext == bios_getsmap \/ bi_load32 \/ bi_load64 \/ bi_load \/ efi_allocate \/ efi_getmap \/ efi_exit \/ BiStartKernel

(***************************************************************************)
(* What the kernel finds.                                                  *)
(***************************************************************************)
\* memory from a on holds the first n variables of env, an end behind each,
\* and an end more
EnvHeld(a, env, n) ==
  LET text == FlattenSeq([i \in 1 .. n |-> BiString(env[i].name \o <<"=">> \o env[i].value)]) \o <<BiNul>>
  IN  a + Len(text) <= bi.top /\ \A i \in 1 .. Len(text) : biMem[a + i - 1] = text[i]

\* the data from a up to the end mark, n at most
ReadModules(a, w, n) ==
  FoldLeft(LAMBDA s, i :
             IF s.end \/ s.at + 2 * BiInt > bi.top THEN s
             ELSE LET t == biMem[s.at][2]
                      size == biMem[s.at + BiInt][2]
                  IN  IF t = MiEnd THEN [s EXCEPT !.end = TRUE]
                      ELSE [s EXCEPT !.at = @ + 2 * BiInt + BiRoundup(size, w),
                                     !.out = Append(@, [t |-> t, data |-> SubSeq([j \in 1 .. bi.top - s.at |-> biMem[s.at + j - 1]],
                                                                                 2 * BiInt + 1, 2 * BiInt + size)])],
           [at |-> a, out |-> <<>>, end |-> FALSE], [i \in 1 .. n |-> i])

\* Words of a line, and the root file system of a table of such lines
FieldsOf(l) ==
  LET r == FoldLeft(LAMBDA s, c : IF c # " " THEN [s EXCEPT !.cur = Append(@, c)]
                                  ELSE IF s.cur = <<>> THEN s ELSE [cur |-> <<>>, out |-> Append(s.out, s.cur)],
                    [cur |-> <<>>, out |-> <<>>], Append(l, " "))
  IN  r.out
RootLines == {i \in 1 .. Len(bi.fstab) :
  LET l == bi.fstab[i] IN l # <<>> /\ l[1] \notin {"#", " "} /\ Len(FieldsOf(l)) >= 3 /\ FieldsOf(l)[2] = <<"/">>}

\* A letter of an option counts if those before it in the word are known.
LetterCounts(w, j, known) == w[1] = "-" /\ j > 1 /\ \A i \in 2 .. j : w[i] \in known
FlagsAsked ==
  LET letters == IF bi.kind = "efi" THEN howto_masks ELSE BiosLetters
      known == DOMAIN letters \cup (IF bi.kind = "efi" THEN {} ELSE {"D"})
  IN  {x \in {letters[c] : c \in DOMAIN letters} :
         \E w \in ToSet(bi.words) : \E j \in 1 .. Len(w) :
           w[j] \in DOMAIN letters /\ letters[w[j]] = x /\ LetterCounts(w, j, known)}
FlagsSet == bi.set \cup (IF bi.kind = "efi" THEN {} ELSE bi.given \cap howto_names)

\* bi_getboothowto(): the kernel gets the flags of the arguments, of the
\* variables and of boot2, and of the consoles the ones boot2 was told of,
\* except that two of them stand for all.
HowtoRight ==
  LET howto == biOut.howto
      cons == bi.given \cap Consoles3
  IN  /\ howto \ Consoles3 = (FlagsAsked \cup FlagsSet) \ Consoles3
      /\ bi.kind # "efi" => ~({"VIDEO", "SERIAL"} \subseteq howto)
      /\ bi.kind # "efi" /\ bi.words = <<>> /\ bi.set = {} /\ cons # {}
         => howto \cap Consoles3 = IF {"VIDEO", "SERIAL"} \subseteq cons THEN {} ELSE cons

\* getrootmount(), biosacpi_detect(): the root file system is that of the
\* first line that has one, and the hints are of one sound table.
EnvRight ==
  LET Value(n) == {e.value : e \in {x \in ToSet(biOut.env) : x.name = n}}
      tables == IF bi.kind = "efi" THEN {bi.acpi.v1, bi.acpi.v2} \ {BiNone}
                ELSE {r \in ToSet(bi.acpi.ebda) \cup ToSet(bi.acpi.hi) : r.there /\ r.sum = 0}
  IN  /\ ~BiHas(bi.env, <<"m">>) =>
           IF RootLines = {} THEN Value(<<"m">>) = {}
           ELSE LET f == FieldsOf(bi.fstab[CHOOSE i \in RootLines : \A j \in RootLines : i <= j])
                IN  Value(<<"m">>) = {f[3] \o <<":">> \o f[1]}
      /\ IF tables = {} THEN Value(<<"r">>) = {}
         ELSE \E r \in tables : /\ Value(<<"r">>) = {<<r.addr>>}
                                /\ Value(<<"v">>) = {<<ToString(IF r.rev = 0 THEN 1 ELSE r.rev)>>}
                                /\ Value(<<"x">>) = IF r.rev >= 2 THEN {<<r.addr>>} ELSE {}

\* bi_load32(), bi_load64(), bi_load(): the kernel that starts finds in its
\* memory the files as they were loaded, every variable of the environment,
\* and a directory with all files and all that was said of them, the end of
\* it all included; all of it below that end.  With too little memory for
\* the environment the EFI loader passes whole variables only.  The map it
\* passes is the one the firmware had when it was left, and there is one if
\* it was.  The kernel is entered where it was loaded.
HandoverRight ==
  biPhase = "started" =>
    LET fits == biOut.kernend < bi.top
        items == BiItems(biOut.files, WordOf)
        dir == ReadModules(biOut.modulep, WordOf, Len(items) + 1)
        k == bi.files[KernelFile(bi.files)]
        maps == {m \in ToSet(biOut.files[KernelFile(bi.files)].meta) : m.t = MdMap}
    IN  /\ HowtoRight
        /\ EnvRight
        /\ \A i \in 1 .. Len(bi.files) :
             \A x \in bi.files[i].addr .. bi.files[i].addr + bi.files[i].size - 1 : biMem[x] = <<"f", 0>>
        /\ \A x \in DOMAIN biMem : x >= biOut.kernend => biMem[x] = <<"-", 0>>
        /\ biOut.kernend % BiPage = 0
        /\ fits => EnvHeld(biOut.envp, biOut.env, Len(biOut.env))
        /\ bi.kind = "efi" /\ biOut.envend # biOut.envp => \E n \in 0 .. Len(biOut.env) : EnvHeld(biOut.envp, biOut.env, n)
        /\ fits => dir.end /\ dir.out = items
        /\ fits => \E i \in 1 .. Len(dir.out) : dir.out[i] = [t |-> MdKernend, data |-> BiWord(biOut.kernend, WordOf)]
        /\ biFw.exited <=> maps # {}
        /\ \A m \in maps : m.data = BiWord(biFw.map, biFw.len)
        /\ biOut.entry \in k.addr .. k.addr + k.size - 1
        /\ bi.kind = "bios64" => bi.cpu.lm
=============================================================================
