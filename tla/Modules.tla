------------------------------ MODULE Modules ------------------------------
(***************************************************************************)
(* Kernels and modules the loader puts into memory, and booting them       *)
(* (common/module.c, boot.c, i386_module.c).                               *)
(*                                                                         *)
(* A path is a triple <<directory, name, extension>>; the extension        *)
(* "/kernel" is the file `kernel' in a directory of that name.  ModFiles   *)
(* says what the file there is.  mod_loadkld() calls itself through        *)
(* file_load_dependencies(): its activations are the stack mframes, and    *)
(* loading one file is one step.                                           *)
(***************************************************************************)
EXTENDS Integers, Sequences, FiniteSets, SequencesExt

CONSTANTS
  ModFiles,     \* path -> [fmt, kind, size, over, mods, deps]
  ModPaths,     \* paths typed by the user, existing or not
  ModNames,     \* names without a path typed by the user
  ModDirs,      \* values of module_path: sequences of directories
  ModHints,     \* directory -> entries of its linker.hints, in file order
  ModBootfiles, \* values of bootfile: sequences of names
  ModAuto,      \* modules asked for by <name>_load variables, in order
  ModDelay,     \* autoboot_delay
  ModKernAddr, ModPage, ModTop  \* where kernels go, page size, end of memory

ASSUME ModAssumption ==
  /\ ModPage \in Nat \ {0}
  /\ ModKernAddr \in Nat /\ ModKernAddr % ModPage = 0
  /\ ModTop \in Nat
  /\ \A p \in DOMAIN ModFiles :
       /\ ModFiles[p].size \in Nat \ {0}
       /\ ModFiles[p].over \in Nat
       /\ ModFiles[p].fmt \in 0..4
       /\ ModFiles[p].kind \in {"kernel", "module", "other"}

VARIABLES
  preloaded,   \* preloaded_files: sequence of [name, addr, size, loader]
  loadaddr,
  clobbered,   \* the loaded files something has been written over (history)
  lastFormat,  \* last_file_format of file_load()
  dirlist,     \* moduledir_list: sequence of [path, hints]
  menv,        \* module_path, kernelname and exported_module_path
  mframes,     \* activations of mod_loadkld(): [file, last, at]
  mpc,         \* where the command is
  mcmd         \* what it still has to do: see Idle, Loading and Booting

mvars == <<preloaded, loadaddr, clobbered, lastFormat, dirlist, menv, mframes, mpc, mcmd>>

None == <<"none">>
Formats == 0 .. 3     \* file_formats: x86_64 ELF, its objects, i386 ELF, its objects
KldExt == <<".ko", "", "/kernel", ".debug">>
Idle == [do |-> "idle"]

------------------------------------------------------------------------------
(* Finding files.                                                            *)

\* file_lookup(): the first of the extensions with which there is a file
FileLookup(dir, base, exts) ==
  LET hit == {i \in 1 .. Len(exts) : <<dir, base, exts[i]>> \in DOMAIN ModFiles}
  IN  IF hit = {} THEN None ELSE <<dir, base, exts[Min(hit)]>>

\* the directories of module_path that are not in the list yet, in order
NewDirs(list, path) ==
  SelectSeq(path, LAMBDA d : \A i \in 1 .. Len(list) : list[i].path # d)

\* moduledir_rebuild(): a directory in the list keeps its place, a new one
\* goes to the end, one no longer asked for is dropped
Rebuild(list, path) ==
  LET new == NewDirs(list, path)
  IN  SelectSeq(list, LAMBDA e : e.path \in Range(path))
        \o [i \in 1 .. Len(new) |-> [path |-> new[i], hints |-> "unread"]]

\* a module without version 0 or outside the range is not acceptable
InRange(ver, dep) == ver >= dep.min /\ ver <= dep.max /\ ver > 0

\* the best of the entries: the preferred one, or the highest acceptable one
\* (NoDep: any will do).  es[i] has a field ver.
NoDep == [name |-> "", min |-> 0, pref |-> 0, max |-> 0]
BestOf(es, dep) ==
  LET exact == {i \in 1 .. Len(es) : dep = NoDep \/ es[i].ver = dep.pref}
      fits  == {i \in 1 .. Len(es) : InRange(es[i].ver, dep)}
  IN  IF exact # {} THEN es[Min(exact)].path
      ELSE IF fits = {} THEN None
      ELSE es[Min({i \in fits : \A j \in fits : es[i].ver >= es[j].ver})].path

\* mod_search_hints() in a directory whose hints have been read, or are not
\* to be had: the name itself is tried when no entry fits
SearchHints(e, name, dep) ==
  LET es == IF e.hints = "read"
            THEN SelectSeq(ModHints[e.path], LAMBDA h : h.mod = name) ELSE <<>>
      hit == BestOf(es, dep)
  IN  IF hit = None THEN FileLookup(e.path, name, KldExt)
      ELSE IF hit \in DOMAIN ModFiles THEN hit ELSE None

\* the directories up to the one where the module is found have their hints
\* read (moduledir_readhints()), which fails for those in bad
ReadHints(e, bad) ==
  IF e.hints # "unread" THEN e
  ELSE [e EXCEPT !.hints = IF e.path \in bad \/ e.path \notin DOMAIN ModHints
                           THEN "none" ELSE "read"]

\* mod_searchmodule() over the list with the hints of all directories read: the
\* path found; the directories behind the one it is in keep their hints unread
Found(all, name, dep) == {i \in 1 .. Len(all) : SearchHints(all[i], name, dep) # None}
SearchModule(list, all, hit, name, dep) ==
  IF hit = {} THEN [path |-> None, list |-> all]
  ELSE [path |-> SearchHints(all[Min(hit)], name, dep),
        list |-> SubSeq(all, 1, Min(hit)) \o SubSeq(list, Min(hit) + 1, Len(list))]

\* file_search() for a name without a path: no hints
FileSearch(list, name) ==
  LET hit == {i \in 1 .. Len(list) : FileLookup(list[i].path, name, KldExt) # None}
  IN  IF hit = {} THEN None ELSE FileLookup(list[Min(hit)].path, name, KldExt)

\* file_findmodule(NULL, name, dep) over what is loaded
FindModule(name, dep) ==
  \E i \in 1 .. Len(preloaded) :
    LET ms == IF preloaded[i].loader = -1 THEN <<>>
              ELSE SelectSeq(ModFiles[preloaded[i].name].mods, LAMBDA m : m.name = name)
    IN  \/ ms # <<>> /\ dep = NoDep
        \/ \E k \in 1 .. Len(ms) : ms[k].ver = dep.pref \/ InRange(ms[k].ver, dep)

FindFile(path) == \E i \in 1 .. Len(preloaded) : preloaded[i].name = path

------------------------------------------------------------------------------
(* Loading one file.                                                         *)

End(fp) == fp.addr + fp.size

\* where an image goes: modules to the next page, kernels where they are linked
Dest(f) ==
  IF f.kind = "kernel" THEN ModKernAddr
  ELSE ((loadaddr + ModPage - 1) \div ModPage) * ModPage

\* what writing n cells at addr writes over
Hit(addr, n) ==
  clobbered \cup {preloaded[i] : i \in {j \in 1 .. Len(preloaded) :
                   addr < End(preloaded[j]) /\ addr + n > preloaded[j].addr}}

\* arch_copyin() and arch_readin() do not write beyond the top of memory
Fits(addr, n) == addr + n < ModTop

\* l_load() of format i: EFTYPE, EPERM, or what reading the image gives
LoadFormat(i, path, io) ==
  IF path \notin DOMAIN ModFiles THEN "ENOENT"
  ELSE LET f == ModFiles[path]
       IN  IF f.fmt # i \/ f.kind = "other" THEN "EFTYPE"
           ELSE IF (f.kind = "kernel") # (preloaded = <<>>) THEN "EPERM"
           ELSE IF Fits(Dest(f), f.size) THEN io ELSE "EIO"

\* the formats file_load() tries: the one of the last file, from the first one
\* on if that fails, and on as long as it is EFTYPE.  The outcome is the last.
Outcome(path, io) ==
  IF lastFormat # 0 /\ LoadFormat(lastFormat, path, io) = "ok" THEN [err |-> "ok", fmt |-> lastFormat]
  ELSE LET ends == {i \in Formats : LoadFormat(i, path, io) # "EFTYPE"}
       IN  IF ends = {} THEN [err |-> "EFTYPE", fmt |-> 0]
           ELSE [err |-> LoadFormat(Min(ends), path, io), fmt |-> Min(ends)]

\* a file that is recognised is written before it is known whether it can be
\* read to its end; over cells of its first page go beyond the image
Touched(path, io) ==
  LET f == ModFiles[path]
  IN  IF io = "ok" THEN f.size + f.over ELSE f.size - 1 + f.over

\* A kernel's name and path are exported before its image is read.
Exported(path) ==
  IF ModFiles[path].kind = "kernel"
  THEN [menv EXCEPT !.kernelname = path, !.exported = <<path[1]>>] ELSE menv

\* file_load() and the rest of mod_loadkld() up to file_load_dependencies().
\* What a failure returns to is the caller's (mpc "failed").
LoadFile(path, io) ==
  \E o \in {Outcome(path, io)} :
    /\ lastFormat' = IF o.err = "ok" THEN o.fmt ELSE 0
    /\ IF o.err \notin {"ok", "EIO"}
       THEN /\ mpc' = "failed"
            /\ UNCHANGED <<preloaded, loadaddr, clobbered, menv, mframes>>
       ELSE \E fp \in {[name |-> path, addr |-> Dest(ModFiles[path]),
                        size |-> ModFiles[path].size, loader |-> o.fmt]} :
              /\ clobbered' = Hit(fp.addr, Touched(path, o.err))
              /\ menv' = Exported(path)
              /\ IF o.err = "ok"
                 THEN /\ preloaded' = Append(preloaded, fp)
                      /\ loadaddr' = End(fp)
                      /\ mframes' = Append(mframes, [file |-> path, last |-> Len(preloaded), at |-> 1])
                      /\ mpc' = "deps"
                 ELSE /\ mpc' = "failed"
                      /\ UNCHANGED <<preloaded, loadaddr, mframes>>

Unloaded(res) ==
  /\ mpc' = res
  /\ UNCHANGED <<preloaded, loadaddr, clobbered, lastFormat, menv, mframes>>

\* mod_loadkld() with the path file_search() came to
LoadKld(found) ==
  \E path \in {found}, io \in {"ok", "EIO"} :
    IF path = None THEN Unloaded("failed")
    ELSE IF FindFile(path) THEN Unloaded("loaded")
    ELSE LoadFile(path, io)

\* mod_load(): nothing to do for a module that is there
ModLoad(name, dep) ==
  IF FindModule(name, dep) THEN Unloaded("loaded") /\ UNCHANGED dirlist
  ELSE \E bad \in SUBSET DOMAIN ModHints :
         \E list \in {Rebuild(dirlist, menv.path)} :
           \E all \in {[i \in 1 .. Len(list) |-> ReadHints(list[i], bad)]} :
             \E hit \in {Found(all, name, dep)} :
               \E s \in {SearchModule(list, all, hit, name, dep)} :
                 dirlist' = s.list /\ LoadKld(s.path)

\* mod_loadkld() with a name that has no path
ModLoadKld(name) ==
  \E list \in {Rebuild(dirlist, menv.path)} :
    dirlist' = list /\ LoadKld(FileSearch(list, name))

------------------------------------------------------------------------------
(* Dependencies.                                                             *)

Top == Last(mframes)
\* the list metadata was prepended to: last dependency first
Deps(path) == Reverse(ModFiles[path].deps)
\* Mutant: the next one is the same again
NextDepStays(n) == n
NextDep(n) == n + 1

ToNext == mframes' = [mframes EXCEPT ![Len(mframes)].at = NextDep(@)]

\* the next dependency of the file on top is there already
DepPresent ==
  /\ mpc = "deps" /\ Top.at <= Len(Deps(Top.file))
  /\ \E d \in {Deps(Top.file)[Top.at]} : FindModule(d.name, d)
  /\ ToNext
  /\ UNCHANGED <<preloaded, loadaddr, clobbered, lastFormat, dirlist, menv, mpc, mcmd>>

\* it is not: mod_load()
DepLoad ==
  /\ mpc = "deps" /\ Top.at <= Len(Deps(Top.file))
  /\ \E d \in {Deps(Top.file)[Top.at]} : ~ FindModule(d.name, d) /\ ModLoad(d.name, d)
  /\ UNCHANGED mcmd

\* all dependencies are there: mod_loadkld() returns 0
DepsDone ==
  /\ mpc = "deps" /\ Top.at > Len(Deps(Top.file))
  /\ mframes' = Front(mframes)
  /\ mpc' = "loaded"
  /\ UNCHANGED <<preloaded, loadaddr, clobbered, lastFormat, dirlist, menv, mcmd>>

\* mod_load() returned 0 to file_load_dependencies(): is it the right version?
DepLoaded ==
  /\ mpc = "loaded" /\ mframes # <<>>
  /\ \E d \in {Deps(Top.file)[Top.at]} :
       IF FindModule(d.name, d) THEN ToNext /\ mpc' = "deps"
       ELSE mpc' = "failed" /\ UNCHANGED mframes
  /\ UNCHANGED <<preloaded, loadaddr, clobbered, lastFormat, dirlist, menv, mcmd>>

\* Mutant: the file itself stays
DroppedNot(fr) == SubSeq(preloaded, 1, fr.last + 1)
\* what a file whose dependencies failed leaves: the files before it
Dropped(fr) == SubSeq(preloaded, 1, fr.last)
Reset(fr) == IF fr.last = 0 THEN 0 ELSE End(preloaded[fr.last])

\* mod_load() failed: the file on top and all loaded after it are discarded,
\* and mod_loadkld() fails in turn
DepFailed ==
  /\ mpc = "failed" /\ mframes # <<>>
  /\ preloaded' = Dropped(Top)
  /\ loadaddr' = Reset(Top)
  /\ mframes' = Front(mframes)
  /\ UNCHANGED <<clobbered, lastFormat, dirlist, menv, mpc, mcmd>>

------------------------------------------------------------------------------
(* Commands.  mcmd.do says what follows when the file is loaded, or is not.  *)

\* command_load with a path or with -k, and with a module's name
CommandLoad ==
  /\ mpc = "idle" /\ mframes = <<>>
  /\ mcmd' = [do |-> "load"]
  /\ \/ \E p \in ModPaths : LoadKld(p) /\ UNCHANGED dirlist
     \/ \E n \in ModNames : ModLoadKld(n) \/ ModLoad(n, NoDep)

\* command_load -t, file_loadraw(): the image goes to loadaddr as it is.  A read
\* may fail, when nothing is kept; the module's path is not looked at for paths.
CommandLoadRaw ==
  /\ mpc = "idle"
  /\ preloaded # <<>>
  /\ \E p \in ModPaths \cap DOMAIN ModFiles, ok \in BOOLEAN :
       LET n == ModFiles[p].size
           fp == [name |-> p, addr |-> loadaddr, size |-> n, loader |-> -1]
       IN  /\ ok => Fits(loadaddr, n)
           /\ clobbered' = Hit(loadaddr, IF ok THEN n ELSE n - 1)
           /\ preloaded' = IF ok THEN Append(preloaded, fp) ELSE preloaded
           /\ loadaddr' = IF ok THEN End(fp) ELSE loadaddr
  /\ UNCHANGED <<lastFormat, dirlist, menv, mframes, mpc, mcmd>>

\* unload()
CommandUnload ==
  /\ mpc = "idle" /\ preloaded # <<>>
  /\ preloaded' = <<>>
  /\ loadaddr' = 0
  /\ menv' = [menv EXCEPT !.kernelname = None]
  /\ UNCHANGED <<clobbered, lastFormat, dirlist, mframes, mpc, mcmd>>

\* set module_path
SetPath ==
  /\ mpc = "idle"
  /\ \E d \in ModDirs : d # menv.path /\ menv' = [menv EXCEPT !.path = d]
  /\ UNCHANGED <<preloaded, loadaddr, clobbered, lastFormat, dirlist, mframes, mpc, mcmd>>

\* what is left to do after the kernel has been found
Boot == [do |-> "auto", rest |-> ModAuto]

\* command_boot(): with a kernel's name, with what is loaded, or with the first
\* of bootfile that can be loaded (loadakernel())
CommandBoot ==
  /\ mpc = "idle"
  /\ \/ /\ preloaded = <<>>
        /\ \E p \in ModPaths : LoadKld(p)
        /\ mcmd' = [do |-> "kernel"]
        /\ UNCHANGED dirlist
     \/ /\ preloaded = <<>>
        /\ \E bf \in ModBootfiles :
             /\ ModLoadKld(bf[1])
             /\ mcmd' = [do |-> "boot", rest |-> Tail(bf)]
     \/ /\ preloaded # <<>>
        /\ mcmd' = Boot
        /\ Unloaded("loaded") /\ UNCHANGED dirlist

Count == [do |-> "count", left |-> ModDelay]

\* autoboot(): when no kernel has been named, one is loaded first
CommandAutoboot ==
  /\ mpc = "idle"
  /\ IF menv.kernelname # None
     THEN mpc' = "count" /\ mcmd' = Count
          /\ UNCHANGED <<preloaded, loadaddr, clobbered, lastFormat, dirlist, menv, mframes>>
     ELSE \E bf \in ModBootfiles :
            ModLoadKld(bf[1]) /\ mcmd' = [do |-> "autoboot", rest |-> Tail(bf)]

\* loadakernel() is through: it counts down if there is a name, even that of a
\* kernel that could not be read
CountDown ==
  /\ mpc \in {"loaded", "failed"} /\ mframes = <<>>
  /\ mcmd.do = "autoboot" /\ (mpc = "failed" => mcmd.rest = <<>>)
  /\ IF menv.kernelname = None
     THEN mpc' = "idle" /\ mcmd' = Idle
     ELSE mpc' = "count" /\ mcmd' = Count
  /\ UNCHANGED <<preloaded, loadaddr, clobbered, lastFormat, dirlist, menv, mframes>>

Tick ==
  /\ mpc = "count" /\ mcmd.left > 0
  /\ mcmd' = [mcmd EXCEPT !.left = @ - 1]
  /\ UNCHANGED <<preloaded, loadaddr, clobbered, lastFormat, dirlist, menv, mframes, mpc>>

\* the time is up, or Enter: command_boot() without a name
CountOut ==
  /\ mpc = "count"
  /\ IF preloaded # <<>>
     THEN mcmd' = Boot /\ Unloaded("loaded") /\ UNCHANGED dirlist
     ELSE \E bf \in ModBootfiles :
            ModLoadKld(bf[1]) /\ mcmd' = [do |-> "boot", rest |-> Tail(bf)]

\* another key
CountKey ==
  /\ mpc = "count"
  /\ mpc' = "idle" /\ mcmd' = Idle
  /\ UNCHANGED <<preloaded, loadaddr, clobbered, lastFormat, dirlist, menv, mframes>>

\* the outermost mod_loadkld() has returned
Returned == mpc \in {"loaded", "failed"} /\ mframes = <<>>

\* command_load, command_boot with a name that cannot be loaded, and loadakernel()
\* at the end of its list, return to the prompt
BackToPrompt ==
  /\ Returned
  /\ \/ mcmd.do = "load"
     \/ mcmd.do = "kernel" /\ mpc = "failed"
     \/ mcmd.do = "boot" /\ mpc = "failed" /\ mcmd.rest = <<>>
  /\ mcmd' = Idle
  /\ Unloaded("idle") /\ UNCHANGED dirlist

\* loadakernel(): the next of bootfile, by its name
NextKernel ==
  /\ Returned /\ mcmd.do \in {"boot", "autoboot"} /\ mpc = "failed" /\ mcmd.rest # <<>>
  /\ ModLoadKld(Head(mcmd.rest))
  /\ mcmd' = [mcmd EXCEPT !.rest = Tail(@)]

\* a kernel is loaded: i386_autoload()
KernelLoaded ==
  /\ Returned /\ mcmd.do \in {"boot", "kernel"} /\ mpc = "loaded"
  /\ mcmd' = Boot
  /\ UNCHANGED <<preloaded, loadaddr, clobbered, lastFormat, dirlist, menv, mframes, mpc>>

\* the next module of i386_autoload(); that one failed changes nothing
Autoload ==
  /\ Returned /\ mcmd.do = "auto" /\ mcmd.rest # <<>>
  /\ ModLoad(Head(mcmd.rest), NoDep)
  /\ mcmd' = [mcmd EXCEPT !.rest = Tail(@)]

\* l_exec() with the kernel's own module path in the environment
Exec ==
  /\ Returned /\ mcmd.do = "auto" /\ mcmd.rest = <<>>
  /\ mpc' = "exec"
  /\ menv' = IF menv.exported = None THEN menv
             ELSE [menv EXCEPT !.path = menv.exported, !.exported = None, !.saved = menv.path]
  /\ UNCHANGED <<preloaded, loadaddr, clobbered, lastFormat, dirlist, mframes, mcmd>>

\* bi_load() failed: command_boot() puts the loader's path back and returns
ExecFails ==
  /\ mpc = "exec"
  /\ menv' = IF menv.saved = None THEN menv
             ELSE [menv EXCEPT !.path = menv.saved, !.exported = menv.path, !.saved = None]
  /\ mpc' = "idle"
  /\ mcmd' = Idle
  /\ UNCHANGED <<preloaded, loadaddr, clobbered, lastFormat, dirlist, mframes>>

ModInit ==
  /\ preloaded = <<>> /\ loadaddr = 0
  /\ clobbered = {}
  /\ lastFormat = 0 /\ dirlist = <<>>
  /\ menv \in [path : ModDirs, kernelname : {None}, exported : {None}, saved : {None}]
  /\ mframes = <<>> /\ mpc = "idle" /\ mcmd = Idle

ModStep ==
  DepPresent \/ DepLoad \/ DepsDone \/ DepLoaded \/ DepFailed \/ BackToPrompt
  \/ NextKernel \/ KernelLoaded \/ Autoload \/ Exec \/ CountDown \/ Tick
  \/ (mpc = "count" /\ mcmd.left = 0 /\ CountOut)

ModCommand ==
  CommandLoad \/ CommandLoadRaw \/ CommandUnload \/ SetPath \/ CommandBoot
  \/ CommandAutoboot

\* the environment: keys during the countdown, and a kernel that does not start
ModOther == CountOut \/ CountKey \/ ExecFails

ModNext == ModStep \/ ModCommand \/ ModOther

------------------------------------------------------------------------------
(* Properties.                                                               *)

\* Whatever failed on the way, a file that is loaded has all its dependencies
\* loaded, in a version they ask for (file_load_dependencies()).
DepsLoaded ==
  mframes = <<>> =>
    \A i \in 1 .. Len(preloaded) :
      preloaded[i].loader # -1 =>
        \A k \in 1 .. Len(ModFiles[preloaded[i].name].deps) :
          LET d == ModFiles[preloaded[i].name].deps[k] IN FindModule(d.name, d)

\* Everything in the list is in memory as it was read: neither a later file
\* nor one that could not be read to its end has written over it.
ImagesIntact == clobbered = {}

\* The first file, the one l_exec() is called with, is a kernel and the only one
\* (loader -1 would index file_formats out of bounds in command_boot()).
KernelFirst ==
  \A i \in 1 .. Len(preloaded) :
    (i = 1) <=> (preloaded[i].loader # -1 /\ ModFiles[preloaded[i].name].kind = "kernel")

\* What is handed to a kernel is complete.
LoadedRight == DepsLoaded /\ ImagesIntact /\ KernelFirst

\* Every load, boot and autoboot comes back to the prompt or reaches l_exec():
\* dependencies are finite, cyclic ones included, and a countdown ends.
LoadEnds == (mpc # "idle") ~> (mpc \in {"idle", "exec"})
=============================================================================
