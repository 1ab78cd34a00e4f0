------------------------------ MODULE MCLoader ------------------------------
(***************************************************************************)
(* The loader proper.                                                      *)
(***************************************************************************)
EXTENDS TLC, Modules, Elf, Script, Interp, Bootinfo

Mod(n, v) == [name |-> n, ver |-> v]
Dep(n, lo, pref, hi) == [name |-> n, min |-> lo, pref |-> pref, max |-> hi]
MF(fmt, kind, size, over, mods, deps) ==
  [fmt |-> fmt, kind |-> kind, size |-> size, over |-> over, mods |-> mods, deps |-> deps]

\* Two kernels; a and b need each other, b also a c that is not too old; the c
\* of the first directory is, the one of the second is not; d needs a module
\* that is nowhere.  The objects of format 1 come after files of format 0.
MCModFiles ==
  <<"k", "kernel", "">> :> MF(0, "kernel", 2, 1, <<Mod("kernel", 1)>>, <<>>) @@
  <<"k", "old", "/kernel">> :> MF(2, "kernel", 3, 0, <<Mod("kernel", 1)>>, <<>>) @@
  <<"m", "a", ".ko">> :> MF(0, "module", 1, 2, <<Mod("a", 1)>>, <<Dep("b", 1, 1, 1)>>) @@
  <<"m", "b", ".ko">> :> MF(1, "module", 2, 0, <<Mod("b", 1), Mod("bb", 2)>>, <<Dep("a", 1, 2, 3), Dep("c", 2, 3, 4)>>) @@
  <<"m", "c", ".ko">> :> MF(1, "module", 1, 0, <<Mod("c", 1)>>, <<>>) @@
  <<"l", "c2", ".ko">> :> MF(1, "module", 1, 0, <<Mod("c", 2)>>, <<>>) @@
  <<"l", "d", "">> :> MF(0, "module", 1, 1, <<Mod("d", 1)>>, <<Dep("n", 0, 1, 9), Dep("c", 1, 1, 2)>>) @@
  <<"l", "x", ".ko">> :> MF(4, "other", 2, 0, <<>>, <<>>)
MCModHints == "l" :> <<[mod |-> "c", ver |-> 1, path |-> <<"l", "gone", ".ko">>],
                       [mod |-> "c", ver |-> 2, path |-> <<"l", "c2", ".ko">>]>>
MCModPaths == {<<"k", "kernel", "">>, <<"k", "none", "/kernel">>, <<"m", "a", ".ko">>}
MCModNames == {"b", "d", "x"}
MCModDirs == {<<"k", "m">>, <<"l", "m", "k">>}
MCModBootfiles == {<<"kernel", "old">>, <<"gone">>}
MCModAuto == <<"a", "d">>

\* What a module is built from: versions it has and modules it needs.
W(type, name, data) == [type |-> type, name |-> name, data |-> data]
Contents ==
  {<<>>,
   <<W("version", "a", <<"v", 1>>)>>,
   <<W("version", "a", <<"v", 1>>), W("depend", "k", <<"d", <<1, 1, 2>>>>), W("module", "a", <<"v", 0>>),
     W("version", "b", <<"v", 3>>), W("depend", "b", <<"d", <<2, 2, 2>>>>)>>}

\* A linker: header, hash table, symbols, strings, relocations, the pointers of
\* modmetadata_set, what they point to, and what that points to.  The first k
\* words are a segment of their own, gap words before the second.
Linked(want, type, rela, k, gap, syms) ==
  LET n == Len(want)
      base == IF type = "EXEC" THEN 64 ELSE 0
      V(o) == base + (IF o < k THEN o ELSE o + gap) + (IF type = "EXEC" THEN 8 ELSE 0)
      hash == 2   sym == 10   str == 14   rel == 18
      set == rel + 3 * n   md == set + n   strs == md + 3 * n   dat == strs + n   end == dat + n
      P(o) == IF rela /\ type = "DYN" THEN Word(7) ELSE Word(V(o))
      R(at, to) == <<"rel", [off |-> V(at), type |-> "relative", sym |-> 0, addend |-> V(to), rela |-> rela]>>
      S(name, v, def) == <<"sym", [name |-> name, value |-> v, defined |-> def]>>
      words == <<Word(100), Word(101)>>
        \o <<Word(2), Word(4), Word(3), Word(0), Word(0), Word(0), Word(1), Word(2)>>
        \o <<S(0, 0, FALSE), S(1, V(set), TRUE), S(2, V(set) + n, TRUE), S(3, 5, TRUE)>>
        \o <<<<"s", "">>, <<"s", "start">>, <<"s", "stop">>, <<"s", "other">>>>
        \o [j \in 1 .. 3 * n |-> LET i == (j - 1) \div 3 IN
               CASE (j - 1) % 3 = 0 -> R(set + i, md + 3 * i)
                 [] (j - 1) % 3 = 1 -> R(md + 3 * i, strs + i)
                 [] OTHER -> R(md + 3 * i + 1, dat + i)]
        \o [i \in 1 .. n |-> P(md + 3 * (i - 1))]
        \o [j \in 1 .. 3 * n |-> LET i == (j - 1) \div 3 IN
               CASE (j - 1) % 3 = 0 -> P(strs + i) [] (j - 1) % 3 = 1 -> P(dat + i) [] OTHER -> <<"s", want[i + 1].type>>]
        \o [i \in 1 .. n |-> <<"s", want[i].name>>]
        \o [i \in 1 .. n |-> want[i].data]
  IN  [type |-> type, entry |-> base + 9, name |-> "f", want |-> IF \E i \in 1 .. n : want[i].type = "version" THEN want
                                                              ELSE Append(want, W("version", "f", <<"v", 1>>)),
       words |-> words \o <<Word(200), Word(201), Word(202)>>,
       segs |-> <<[off |-> 0, vaddr |-> V(0), filesz |-> k, memsz |-> k],
                  [off |-> k, vaddr |-> V(k), filesz |-> end - k, memsz |-> end - k + 2]>>,
       symoff |-> IF syms = "own" THEN end ELSE IF syms = "loaded" THEN sym ELSE 0,
       symlen |-> 2, stroff |-> end + 2, strlen |-> 1,
       dyn |-> [there |-> TRUE, hash |-> V(hash), symtab |-> V(sym), strtab |-> V(str), rel |-> V(rel), relsz |-> 3 * n]]

\* Objects: text, the pointers, data, bss, symbols, strings, section names, and
\* the relocations of the pointers and of the data.
Object(want, rela, align) ==
  LET n == Len(want)
      P(o) == IF rela THEN Word(7) ELSE Word(o)
      R(at, sym, to) == <<"rel", [off |-> at, type |-> "word", sym |-> sym, addend |-> to, rela |-> rela]>>
      S(sec, v) == <<"sym", [sec |-> sec, value |-> v]>>
      rels == IF rela THEN "RELA" ELSE "REL"
      cells == << <<>>, <<Word(1)>>,
        [i \in 1 .. n |-> P(3 * (i - 1))],
        [j \in 1 .. 3 * n |-> LET i == (j - 1) \div 3 IN
            CASE (j - 1) % 3 = 0 -> P(3 * n + i - 2) [] (j - 1) % 3 = 1 -> P(4 * n + i - 2)
              [] OTHER -> <<"s", want[i + 1].type>>]
          \o [i \in 1 .. n |-> <<"s", want[i].name>>] \o [i \in 1 .. n |-> want[i].data],
        <<Word(0), Word(0)>>, <<S(0, 0), S(4, 0), S(4, 2)>>, <<<<"s", "x">>>>, <<<<"s", "names">>>>,
        [i \in 1 .. n |-> R(i - 1, 1, 3 * (i - 1))],
        [j \in 1 .. 2 * n |-> LET i == (j - 1) \div 2 IN
            IF j % 2 = 1 THEN R(3 * i, 2, 3 * n + i - 2) ELSE R(3 * i + 1, 2, 4 * n + i - 2)] >>
      off[i \in 1 .. 10] == IF i = 1 THEN 0 ELSE off[i - 1] + Len(cells[i - 1])
      types == <<"NULL", "PROGBITS", "PROGBITS", "PROGBITS", "NOBITS", "SYMTAB", "STRTAB", "STRTAB", rels, rels>>
  IN  [type |-> "REL", want |-> want, symtab |-> 6, shstr |-> 8,
       words |-> cells[2] \o cells[3] \o cells[4] \o cells[5] \o cells[6] \o cells[7] \o cells[8] \o cells[9] \o cells[10],
       secs |-> [i \in 1 .. 10 |->
         [type |-> types[i], off |-> off[i], size |-> Len(cells[i]), align |-> IF i \in {4, 5} THEN align ELSE 1,
          link |-> IF i = 6 THEN 7 ELSE 0, info |-> IF i = 9 THEN 3 ELSE 4, name |-> IF i = 3 THEN "set" ELSE "other"]]]

MCElfFiles ==
  {Linked(w, t, r, k, g, y) : w \in Contents, t \in {"EXEC", "DYN"}, r \in BOOLEAN,
                              k \in {2, 10}, g \in {0, 3}, y \in {"own", "loaded", "none"}}
  \cup {Object(w, r, a) : w \in Contents \ {<<>>}, r \in BOOLEAN, a \in {1, 4}}
MCElfHash == [start |-> 4, stop |-> 6, other |-> 0]

MCConsoles == <<"vid", "com", "null">>
MCMenuKeys == {"1", "2"}
MCMenuCmds == {"x", "y"}

\* Arguments of every kind of character, alone up to three long, by twos, and
\* one more of them than there may be.
Chars == {"a", "0", "n", " ", "\\", "\"", "'", "$", "#", "{"}
Text(n) == UNION {[1 .. k -> Chars] : k \in 0 .. n}
MCArgLists == {<<a>> : a \in Text(3)} \cup {<<a, b>> : a, b \in Text(1)}
              \cup {[i \in 1 .. n |-> <<"a">>] : n \in 0 .. 5} \cup {<<[i \in 1 .. n |-> "a"]>> : n \in 4 .. 12}
MCLineEnv == <<[name |-> <<"v">>, value |-> <<"a", " ", "\"", "$">>], [name |-> <<"a", "v">>, value |-> <<>>],
               [name |-> <<"w">>, value |-> [i \in 1 .. 8 |-> "a"]], [name |-> <<"n">>, value |-> [i \in 1 .. 9 |-> "a"]]>>
\* Directories below this one with slashes in any number, absolute ones, the
\* one above, and others from there.
NamePaths == UNION {[1 .. k -> {"a", "/"}] : k \in 1 .. 4}
MCCdPlain == NamePaths \cup
    {<<".", ".">>, <<".", ".", "/">>, <<".", ".", "/", "a", "/", "a">>, <<".", ".", "/", "a", "/", ".", ".">>,
     <<".", ".", "/", ".", ".">>, <<"a", "/", ".", ".", "/", "a">>, <<"/", "a", "/", ".", ".", "/", "a">>}

\* Text of words, a blank between two
BiJoin(ws) == FlattenSeq([i \in 1 .. Len(ws) |-> IF i = 1 THEN ws[i] ELSE <<" ">> \o ws[i]])
BiVar(n, v) == [name |-> n, value |-> v]
BiMd(t, n, copy) == [t |-> t, data |-> [i \in 1 .. n |-> BiN(i)], copy |-> copy]
BiFile(name, type, args, addr, size, meta) ==
  [name |-> name, type |-> type, args |-> args, addr |-> addr, size |-> size, meta |-> meta]
BiRsdp(there, sum, addr, rev) == [there |-> there, sum |-> sum, addr |-> addr, rev |-> rev]
GoodCpu == [id |-> TRUE, vendor |-> TRUE, ext |-> TRUE, lm |-> TRUE]
BiPlain(kind) ==
  [kind |-> kind, words |-> <<>>, args |-> <<>>, set |-> {}, given |-> {}, consoles |-> <<"vidconsole">>,
   env |-> <<>>, fstab |-> <<>>, elfhdr |-> TRUE, cpu |-> GoodCpu, rootdev |-> "disk", top |-> 200,
   acpi |-> IF kind = "efi" THEN [v1 |-> BiNone, v2 |-> BiNone] ELSE [ebda |-> <<>>, hi |-> <<>>],
   replies |-> {"bad"}, entry |-> 64 + 5,
   files |-> <<BiFile(<<"k">>, <<"k">>, <<>>, 3, 4, <<>>)>>]
BiKinds == {"bios32", "bios64", "efi"}

\* Options, alone and by twos, with variables and consoles
OptWords == {<<"-", "s">>, <<"-", "a", "h">>, <<"-", "V", "s">>, <<"-", "m", "D", "v">>, <<"-", "D", "x", "s">>, <<"s", "a">>, <<"-">>}
BiOptions ==
  {[BiPlain(kd) EXCEPT !.words = ws, !.args = BiJoin(ws), !.set = s, !.consoles = c] :
     kd \in {"bios32", "efi"}, ws \in {<<a>> : a \in OptWords}, s \in {{}, {"GDB", "SERIAL"}},
     c \in {<<>>, <<"vidconsole">>, <<"nullconsole">>, <<"comconsole", "vidconsole">>}}
  \cup {[BiPlain(kd) EXCEPT !.words = <<a, b>>, !.args = BiJoin(<<a, b>>)] : kd \in {"bios64", "efi"}, a, b \in OptWords}
BiGiven ==
  {[BiPlain("bios64") EXCEPT !.given = g, !.consoles = <<"vidconsole">>] :
     g \in SUBSET {"SINGLE", "MUTE", "VIDEO", "SERIAL", "PAUSE"}}
\* Tables of one or two lines
FstabLines == {<<"d", " ", "/", " ", "u">>, <<"d", "e", " ", " ", "/", " ", " ", "u", "f", " ", "x">>, <<"#", " ", "/", " ", "u">>,
               <<"d", " ", "/", "u", " ", "u">>, <<"d", " ", "/", " ">>, <<"d", " ", "/">>, <<"d">>, <<>>, <<"d", " ", "u", " ", "/", " ", "v">>}
BiFstabs == {[BiPlain("bios32") EXCEPT !.fstab = f, !.env = e] :
              f \in {<<a>> : a \in FstabLines} \cup {<<a, b>> : a, b \in FstabLines}, e \in {<<>>, <<BiVar(<<"m">>, <<>>)>>}}
\* ACPI tables, sound ones and others
Windows == {<<>>, <<BiRsdp(FALSE, 0, "e1", 2), BiRsdp(TRUE, 0, "e2", 0)>>, <<BiRsdp(TRUE, 1, "e1", 2), BiRsdp(TRUE, 0, "e2", 2)>>}
BiAcpis == {[BiPlain("bios32") EXCEPT !.acpi = [ebda |-> a, hi |-> b]] :
              a \in Windows, b \in {<<>>, <<BiRsdp(TRUE, 0, "h1", 1), BiRsdp(TRUE, 0, "h2", 3)>>}}
           \cup {[BiPlain("efi") EXCEPT !.acpi = [v1 |-> a, v2 |-> b]] :
              a, b \in {BiNone, [addr |-> "t", rev |-> 0], [addr |-> "u", rev |-> 2]}}
\* Files in any order, variables, and memory that is enough or not
BiFiles ==
  {<<BiFile(<<"k", "e">>, <<"k", "3">>, <<"s">>, 3, 4, <<BiMd(20, 3, TRUE), BiMd(21, 5, FALSE)>>)>>,
   <<BiFile(<<"k">>, <<"k", "6">>, <<>>, 3, 4, <<>>)>>,
   <<BiFile(<<"a">>, <<"m">>, <<>>, 14, 3, <<BiMd(20, 1, TRUE)>>), BiFile(<<"k", "e", "r">>, <<"k">>, <<"-", "s">>, 3, 5, <<BiMd(22, 4, TRUE)>>)>>,
   <<BiFile(<<"a">>, <<"m">>, <<>>, 14, 3, <<>>)>>}
BiLayouts ==
  {[BiPlain(kd) EXCEPT !.files = f, !.env = e, !.top = t] :
     kd \in BiKinds, f \in BiFiles, e \in {<<>>, <<BiVar(<<"a">>, <<>>)>>, <<BiVar(<<"a">>, <<"1", "2">>), BiVar(<<"b", "c">>, <<"d">>), BiVar(<<"e">>, <<>>)>>},
     t \in {22, 25, 30, 33, 60, 200}}
BiSmaps == {[BiPlain(kd) EXCEPT !.replies = {"bad", "short", "long"}] : kd \in {"bios32", "bios64"}}
BiBroken ==
  {[BiPlain(kd) EXCEPT !.rootdev = r, !.elfhdr = h, !.cpu = [GoodCpu EXCEPT ![c] = FALSE]] :
     kd \in BiKinds, r \in {"disk", "net", "none", "bad"}, h \in BOOLEAN, c \in DOMAIN GoodCpu}

MCBiBoots == BiOptions \cup BiGiven \cup BiFstabs \cup BiAcpis \cup BiLayouts \cup BiSmaps \cup BiBroken

VARIABLE loaderPart

others == <<elfVars, scriptVars, lineVars, dirVars, biVars>>
mcLoaderVars == <<loaderPart, mvars, others>>

MCLoaderInit ==
  /\ loaderPart \in {"modules", "elf", "script", "menu", "console", "line", "cd", "boot"}
  /\ ModInit
  /\ IF loaderPart = "elf" THEN ElfInit ELSE elfIn = NotYet /\ elfOut = NotYet
  /\ loaderPart # "modules" => menv.path = CHOOSE d \in ModDirs : TRUE
  /\ ScriptInitAt(IF loaderPart = "menu" THEN "prompt" ELSE "start")
  /\ InterpInitWith(IF loaderPart = "line" THEN LineInputs ELSE {[args |-> <<>>, var |-> <<>>]})
  /\ loaderPart # "console" => works = [n \in Names |-> {"in", "out"}]
  /\ BiInitWith(IF loaderPart = "boot" THEN BiBoots ELSE {BiPlain("efi")})

MCLoaderNext ==
  /\ \/ loaderPart = "modules" /\ ModNext /\ UNCHANGED others
     \/ loaderPart = "elf" /\ ElfLoad /\ UNCHANGED <<mvars, scriptVars, lineVars, dirVars, biVars>>
     \/ loaderPart = "script" /\ ScriptNext /\ UNCHANGED <<mvars, elfVars, lineVars, dirVars, biVars>>
     \* the menu changes nothing but ran: one use of it shows all there is
     \/ loaderPart = "menu" /\ ran.cmds = <<>> /\ MenuNext /\ UNCHANGED <<mvars, elfVars, lineVars, dirVars, biVars>>
     \/ loaderPart = "line" /\ ParseLine /\ UNCHANGED <<mvars, elfVars, scriptVars, biVars>>
     \/ loaderPart = "cd" /\ Chdir /\ UNCHANGED <<mvars, elfVars, scriptVars, biVars>>
     \/ loaderPart = "console" /\ ConsNext /\ UNCHANGED <<mvars, elfVars, lineVars, dirVars, biVars>>
     \/ loaderPart = "boot" /\ BiNext /\ UNCHANGED <<mvars, elfVars, scriptVars, lineVars, dirVars>>
  /\ UNCHANGED loaderPart

\* changing directories only
LoaderSpec ==
  /\ MCLoaderInit /\ [][MCLoaderNext]_mcLoaderVars
  /\ WF_mcLoaderVars(loaderPart = "modules" /\ ModStep /\ UNCHANGED <<loaderPart, others>>)

\* A line, a script and the menu do what they say (interp_parse.c,
\* commands.c, rel_open.c, dloader/cmds.c, console.c).
CommandsRight == ScriptRight /\ InterpRight
=============================================================================
