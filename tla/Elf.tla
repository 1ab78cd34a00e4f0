-------------------------------- MODULE Elf --------------------------------
(***************************************************************************)
(* What the loader makes of an ELF file (common/load_elf.c,                *)
(* load_elf_obj.c, reloc_elf.c, misc.c): the image in memory, and the      *)
(* modules and dependencies found in it.                                   *)
(*                                                                         *)
(* Files and memory are word-addressed.  A word is <<"i", n>>; a string    *)
(* ("s"), a symbol ("sym"), a relocation ("rel") and the data of a version *)
(* ("v") or a dependency ("d") are one cell each, tagged likewise.  A      *)
(* linked file has segments, an object file sections.                      *)
(***************************************************************************)
EXTENDS Integers, Sequences, SequencesExt

CONSTANTS
  ElfFiles,   \* the files: see Linked and Object in the MC module
  ElfHash,    \* elf_hash(): symbol name -> number
  ElfPage,    \* words in a page
  ElfMask     \* kernels are linked at a multiple of this

ASSUME ElfAssumption == ElfPage \in Nat \ {0} /\ ElfMask \in Nat \ {0}

VARIABLES
  elfIn,      \* [file, dest, fail]: a file, loadaddr, the read that fails (0: none)
  elfOut      \* what is left: [err, addr, size, mods, deps, mem]

elfVars == <<elfIn, elfOut>>

Word(n) == <<"i", n>>
Junk == <<"junk">>
Zero == Word(0)
Read(mem, a) == IF a \in DOMAIN mem THEN mem[a] ELSE Junk        \* arch_copyout()
Copyout(mem, a, n) == [i \in 1 .. n |-> Read(mem, a + i - 1)]
\* arch_copyin(), kern_pread(), kern_bzero()
Copyin(mem, a, cells) ==
  [b \in DOMAIN mem \cup a .. a + Len(cells) - 1 |->
     IF b >= a /\ b < a + Len(cells) THEN cells[b - a + 1] ELSE mem[b]]
Cells(f, o, n) == SubSeq(f.words, o + 1, o + n)
RoundUp(n, k) == ((n + k - 1) \div k) * k

------------------------------------------------------------------------------
(* elf_reloc(): one relocation applied to n words that were copied out of   *)
(* memory at `at'.                                                          *)

ESRCH == 3
EFTYPE == 79
Relocated(data, r, base, at, sym) ==
  LET w == base + r.off - at + 1
      add == IF r.rela THEN r.addend ELSE data[w][2]
  IN  IF w < 1 \/ w > Len(data) THEN [err |-> 0, data |-> data]
      ELSE CASE r.type = "relative" -> [err |-> 0, data |-> [data EXCEPT ![w] = Word(add + base)]]
             [] r.type = "word" /\ sym # 0 -> [err |-> 0, data |-> [data EXCEPT ![w] = Word(sym + add)]]
             [] r.type = "word" /\ sym = 0 -> [err |-> ESRCH, data |-> data]
             [] OTHER -> [err |-> EFTYPE, data |-> data]

\* a loop over relocations stops at the first error
RelocateAll(data, rels, base, at, SymAddr(_)) ==
  FoldLeft(LAMBDA acc, r : IF acc.err # 0 THEN acc
                           ELSE Relocated(acc.data, r[2], base, at, SymAddr(r[2].sym)),
           [err |-> 0, data |-> data], rels)

------------------------------------------------------------------------------
(* Linked files: kernels (EXEC) and modules (DYN).                           *)

\* loadimage(): kernels are moved down to where they are linked less their base
Off(f, dest) == IF f.type = "EXEC" THEN -((f.entry \div ElfMask) * ElfMask)
                ELSE RoundUp(dest, ElfPage)

\* Mutant: nothing is cleared
LoadSegmentOnly(mem, f, s, off) == Copyin(mem, s.vaddr + off, Cells(f, s.off, s.filesz))
\* a segment: what of it is in the first page is copied from there, to the end
\* of that page whatever the segment's size; the rest is read, and cleared
LoadSegment(mem, f, s, off) ==
  LET fp == IF ElfPage > s.off THEN Cells(f, s.off, ElfPage - s.off) ELSE <<>>
      m1 == Copyin(mem, s.vaddr + off, fp)
      m2 == IF s.filesz > Len(fp)
            THEN Copyin(m1, s.vaddr + off + Len(fp), Cells(f, s.off + Len(fp), s.filesz - Len(fp)))
            ELSE m1
  IN  Copyin(m2, s.vaddr + off + s.filesz, [i \in 1 .. s.memsz - s.filesz |-> Zero])

LoadSegments(f, off) == FoldLeft(LAMBDA m, s : LoadSegment(m, f, s, off), <<>>, f.segs)
FirstAddr(f, off) == Min({f.segs[i].vaddr + off : i \in 1 .. Len(f.segs)})
LastAddr(f, off) == Max({f.segs[i].vaddr + off + f.segs[i].memsz : i \in 1 .. Len(f.segs)})

\* a symbol table that is part of a segment is not loaded a second time
HasSyms(f) ==
  /\ f.symoff # 0
  /\ \A i \in 1 .. Len(f.segs) :
       ~ (f.symoff >= f.segs[i].off /\ f.symoff + f.symlen <= f.segs[i].off + f.segs[i].filesz)

\* the symbols and their strings, each behind its length; if one of them cannot
\* be read (fail) neither counts
Syms(f) == <<Word(f.symlen)>> \o Cells(f, f.symoff, f.symlen)
           \o <<Word(f.strlen)>> \o Cells(f, f.stroff, f.strlen)

\* lookup_symbol(): along the chain of the symbol's bucket
Lookup(mem, h, name) ==
  LET nb == Read(mem, h.hash)[2]
      nc == Read(mem, h.hash + 1)[2]
      Sym(n) == Read(mem, h.symtab + n)[2]
      chain[n \in 0 .. nc] ==
        IF n = 0 \/ n >= nc THEN 0
        ELSE IF Read(mem, h.strtab + Sym(n).name) = <<"s", name>> THEN n
        ELSE chain[Read(mem, h.hash + 2 + nb + n)[2]]
      hit == chain[Read(mem, h.hash + 2 + (ElfHash[name] % nb))[2]]
  IN  IF hit = 0 \/ ~ Sym(hit).defined THEN -1 ELSE Sym(hit).value

\* the words at `at', relocated; a kernel's are only moved
Pointers(mem, f, h, off, at, n) ==
  IF f.type = "EXEC"
  THEN [err |-> 0, data |-> [i \in 1 .. n |-> Word(Read(mem, at + i - 1)[2] + off)]]
  ELSE RelocateAll(Copyout(mem, at, n), Copyout(mem, h.rel, h.relsz), off, at, LAMBDA s : 0)

\* one pointer of modmetadata_set: what file_addmodule() or file_addmetadata()
\* is called with.  GetWords gives relocated words.
Entry(mem, p, GetWords(_, _)) ==
  LET v == GetWords(p, 1)
      md == GetWords(v.data[1][2], 2)
      type == Read(mem, v.data[1][2] + 2)[2]   \* md_type
  IN  IF v.err # 0 THEN [err |-> v.err]
      ELSE IF md.err # 0 THEN [err |-> md.err]
      ELSE [err |-> 0, type |-> type, name |-> Read(mem, md.data[1][2])[2],
            data |-> Read(mem, md.data[2][2])]

\* the loop over modmetadata_set up to the first error: both lists are
\* prepended to, and a module that is there twice is added once
Metadata(ents, kernel) ==
  FoldLeft(LAMBDA acc, e :
             IF acc.err # 0 THEN acc
             ELSE IF e.err # 0 THEN [acc EXCEPT !.err = e.err]
             ELSE IF e.type = "depend" /\ ~ kernel
             THEN [acc EXCEPT !.deps = <<[name |-> e.name, range |-> e.data]>> \o @]
             ELSE IF e.type = "version" /\ ~ Contains(acc.mods, [name |-> e.name, ver |-> e.data])
             THEN [acc EXCEPT !.mods = <<[name |-> e.name, ver |-> e.data]>> \o @]
             ELSE acc,
           [err |-> 0, mods |-> <<>>, deps |-> <<>>], ents)

Named(f, md) ==
  IF md.err = 0 /\ md.mods = <<>> THEN <<[name |-> f.name, ver |-> <<"v", 1>>]>> ELSE md.mods

\* parse_modmetadata(); without symbols nothing is known of the file
ParseMetadata(mem, f, off) ==
  LET h == f.dyn
      hh == [hash |-> h.hash + off, symtab |-> h.symtab + off, strtab |-> h.strtab + off,
             rel |-> h.rel + off, relsz |-> h.relsz]
      start == Lookup(mem, hh, "start")
      stop == Lookup(mem, hh, "stop")
      ents == [i \in 1 .. stop - start |->
                 Entry(mem, start + off + i - 1, LAMBDA at, n : Pointers(mem, f, hh, off, at, n))]
  IN  IF ~ h.there \/ start = -1 \/ stop = -1 THEN [mods |-> <<>>, deps |-> <<>>]
      ELSE LET md == Metadata(ents, f.type = "EXEC")
           IN  [mods |-> Named(f, md), deps |-> md.deps]

Failed == [err |-> "EIO", addr |-> 0, size |-> 0, mods |-> <<>>, deps |-> <<>>, mem |-> <<>>]

\* elf_loadfile() of a file whose header fits.  Reads are counted from the
\* first segment's: a segment that cannot be read is EIO, symbols are skipped.
LoadLinked(f, dest, fail) ==
  LET off == Off(f, dest)
      segs == LoadSegments(f, off)
      last == LastAddr(f, off)
      syms == IF HasSyms(f) /\ fail = 0 THEN Syms(f) ELSE <<>>
      mem == Copyin(segs, last, syms)
      md == ParseMetadata(mem, f, off)
  IN  IF fail > 1 THEN Failed
      ELSE [err |-> "ok", addr |-> FirstAddr(f, off), size |-> last + Len(syms) - FirstAddr(f, off),
            mods |-> md.mods, deps |-> md.deps, mem |-> mem]

------------------------------------------------------------------------------
(* Object files.                                                             *)

Align(a, s) == RoundUp(a, s.align)
Of(f, types) == SelectSeq([i \in 1 .. Len(f.secs) |-> i], LAMBDA i : f.secs[i].type \in types)

\* obj_loadimage(): the order in which sections get their place: contents, the
\* symbol table, its strings, the section names, relocations.
Order(f) ==
  SelectSeq(Of(f, {"PROGBITS", "NOBITS"}), LAMBDA i : f.secs[i].size # 0)
    \o <<f.symtab, f.secs[f.symtab].link, f.shstr>> \o Of(f, {"REL", "RELA"})

\* where they are put: [at: section -> address (0: nowhere), last]
\* (room is made for the symbol table twice)
Place(acc, i, f) ==
  LET a == Align(IF i = f.symtab THEN acc.last + f.secs[i].size ELSE acc.last, f.secs[i])
  IN  [at |-> [acc.at EXCEPT ![i] = a], last |-> a + f.secs[i].size]
Layout(f, dest) ==
  FoldLeft(LAMBDA acc, i : Place(acc, i, f),
           [at |-> [i \in 1 .. Len(f.secs) |-> 0], last |-> dest], Order(f))

\* cleared first, then all but NOBITS read to their places
Image(f, lay, dest) ==
  FoldLeft(LAMBDA m, i :
             IF lay.at[i] = 0 \/ f.secs[i].type = "NOBITS" THEN m
             ELSE Copyin(m, lay.at[i], Cells(f, f.secs[i].off, f.secs[i].size)),
           Copyin(<<>>, dest, [i \in 1 .. lay.last - dest |-> Zero]),
           [i \in 1 .. Len(f.secs) |-> i])

\* obj_symaddr(): 0 for a symbol that is not in a section with an address
ObjSym(mem, f, lay, n) ==
  LET s == Read(mem, lay.at[f.symtab] + n)[2]
  IN  IF n >= f.secs[f.symtab].size THEN 0
      ELSE IF s.sec = 0 \/ s.sec > Len(f.secs) \/ lay.at[s.sec] = 0 THEN 0
      ELSE lay.at[s.sec] + s.value

\* obj_reloc_ptr(): with the relocations of every section that holds all words
ObjPointers(mem, f, lay, at, n) ==
  LET Holds(i) == LET b == lay.at[f.secs[i].info]
                  IN  b # 0 /\ at >= b /\ at + n <= b + f.secs[f.secs[i].info].size
  IN  FoldLeft(LAMBDA acc, i :
                 IF acc.err # 0 THEN acc
                 ELSE RelocateAll(acc.data, Copyout(mem, lay.at[i], f.secs[i].size),
                                  lay.at[f.secs[i].info], at, LAMBDA s : ObjSym(mem, f, lay, s)),
               [err |-> 0, data |-> Copyout(mem, at, n)],
               SelectSeq(Of(f, {"REL", "RELA"}), Holds))

\* obj_lookup_set(): the section with the pointers
SetSection(f) == SelectSeq(Of(f, {"PROGBITS"}), LAMBDA i : f.secs[i].name = "set")

\* elf_obj_loadfile() of a file whose header fits: any read that fails, and
\* metadata that cannot be made sense of, is EIO
LoadObject(f, dest, fail) ==
  LET d == RoundUp(dest, ElfPage)
      lay == Layout(f, d)
      mem == Image(f, lay, d)
      set == SetSection(f)
      ents == [i \in 1 .. f.secs[set[1]].size |->
                 Entry(mem, lay.at[set[1]] + i - 1, LAMBDA at, n : ObjPointers(mem, f, lay, at, n))]
      md == Metadata(ents, FALSE)
  IN  IF fail # 0 \/ set = <<>> THEN Failed
      ELSE IF md.err # 0 THEN Failed
      ELSE [err |-> "ok", addr |-> d, size |-> lay.last - d, mods |-> md.mods, deps |-> md.deps, mem |-> mem]

------------------------------------------------------------------------------
NotYet == [err |-> "none"]

ElfInit ==
  /\ elfIn \in [file : ElfFiles, dest : 1 .. ElfPage, fail : 0 .. 2]
  /\ elfOut = NotYet

ElfLoad ==
  /\ elfOut = NotYet
  /\ elfOut' = IF elfIn.file.type = "REL" THEN LoadObject(elfIn.file, elfIn.dest, elfIn.fail)
               ELSE LoadLinked(elfIn.file, elfIn.dest, elfIn.fail)
  /\ UNCHANGED elfIn

------------------------------------------------------------------------------
(* What loading is to achieve: f.want holds the modules and dependencies the *)
(* file was built from, in order.                                            *)

Want(f, type) == SelectSeq(f.want, LAMBDA w : w.type = type)

\* A file that loads gives exactly the modules and dependencies it was linked
\* with, wherever it is loaded and in whichever way its pointers are relocated.
MetadataRight ==
  elfOut.err = "ok" =>
    LET f == elfIn.file
        deps == IF f.type = "EXEC" THEN <<>> ELSE Want(f, "depend")
    IN  /\ elfOut.mods = Reverse([i \in 1 .. Len(Want(f, "version")) |->
                                   [name |-> Want(f, "version")[i].name, ver |-> Want(f, "version")[i].data]])
        /\ elfOut.deps = Reverse([i \in 1 .. Len(deps) |-> [name |-> deps[i].name, range |-> deps[i].data]])

\* The segments or sections are in memory unharmed (the first page, copied past
\* a segment's end, has spoilt none of them), below f_addr + f_size.
ImageRight ==
  elfOut.err = "ok" =>
    LET f == elfIn.file
        at(o) == Read(elfOut.mem, o)
    IN  IF f.type = "REL"
        THEN LET lay == Layout(f, elfOut.addr)
             IN  \A i \in 1 .. Len(f.secs) : lay.at[i] # 0 =>
                   /\ lay.at[i] % f.secs[i].align = 0
                   /\ lay.at[i] + f.secs[i].size <= elfOut.addr + elfOut.size
                   /\ \A k \in 0 .. f.secs[i].size - 1 :
                        at(lay.at[i] + k) = IF f.secs[i].type = "NOBITS" THEN Zero
                                            ELSE f.words[f.secs[i].off + k + 1]
        ELSE \A i \in 1 .. Len(f.segs) :
               LET s == f.segs[i]
                   a == s.vaddr + Off(f, elfIn.dest)
               IN  /\ a >= elfOut.addr /\ a + s.memsz <= elfOut.addr + elfOut.size
                   /\ \A k \in 0 .. s.memsz - 1 :
                        at(a + k) = IF k < s.filesz THEN f.words[s.off + k + 1] ELSE Zero

\* Loading an ELF file gives what was linked, or fails.
ElfRight == MetadataRight /\ ImageRight
=============================================================================
