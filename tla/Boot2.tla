------------------------------- MODULE Boot2 -------------------------------
(***************************************************************************)
(* boot2 (pc32/boot2/boot2.c): finds its slice and partition, reads        *)
(* /boot.config, then loads the loader or what is typed at its prompt.     *)
(*                                                                         *)
(* The command buffer is a row of cells, an argument in each; kname points *)
(* at a name in the program, or at a cell.                                 *)
(***************************************************************************)
EXTENDS Integers, Sequences, FiniteSets

CONSTANTS
  B2Disks,     \* drive -> sequence of slices [bsd, active, start]
  B2Labels,    \* <<drive, sector>> -> the label of a slice, or of a disk, that
               \* starts there: [wide, scsi, off, bias]; off gives where its
               \* partitions lie from there, the label says bias more
  B2Files,     \* <<drive, sector>> -> files, programs all, of the file system there
  B2Configs,   \* contents of /boot.config
  B2Lines,     \* lines typed
  B2Kbd,       \* a keyboard is attached
  B2Lines_max  \* how many of them

\* BASE_SLICE numbers the first slice; 1 is the whole disk, 0 the first slice
\* of ours
COMPATIBILITY_SLICE == 0
WHOLE_DISK_SLICE == 1
BASE_SLICE == 2
RAW_PART == 2

VARIABLES
  wide2,   \* the program is boot2_64, for 64 bit labels
  dsk,     \* [drive, type, unit, slice, part, init, at]: at is the drive and
           \* sector the partition starts at, dsk.start
  cmd,     \* the cells; End2 is the end of the string
  kname,   \* <<"null", 0>>, <<"const", name>> or <<"cmd", cell>>
  opts,    \* set of option letters
  fsapi,   \* "none" while it is no pointer, "stray" without a superblock, "fs"
  auto2,   \* autoboot
  pc2,     \* "start", "auto", "prompt", "run", "crash"
  run2,    \* what was started: [at, name, opts, dsk]
  lines2,  \* lines typed so far
  want2    \* history: [name, dsk, opts, asked |-> a device was named,
           \* turned |-> the first label seen changed its type, intact |->
           \* kname's cell still holds the name, half |-> a device was only half
           \* taken over, lost |-> options were thrown away with a serial port
           \* that is not there]

End2 == <<"end">>
vars2 == <<wide2, dsk, cmd, kname, opts, fsapi, auto2, pc2, run2, lines2, want2>>

------------------------------------------------------------------------------
Slices(d) == B2Disks[d]
\* Mutant: the first of ours, active or not.
PickFirst(d, slice) ==
  LET t == Slices(d)
      bsd == {i \in 1 .. Len(t) : t[i].bsd}
  IN  IF slice >= BASE_SLICE \/ bsd = {} THEN slice
      ELSE BASE_SLICE - 1 + CHOOSE i \in bsd : \A j \in bsd : i <= j
\* dskprobe(): the slice, when none was named: the first of ours that is
\* active, else the first of ours
Pick(d, slice) ==
  LET t == Slices(d)
      bsd == {i \in 1 .. Len(t) : t[i].bsd}
      on == {i \in bsd : t[i].active}
      First(S) == CHOOSE i \in S : \A j \in S : i <= j
  IN  IF slice >= BASE_SLICE \/ bsd = {} THEN slice
      ELSE BASE_SLICE - 1 + First(IF slice = COMPATIBILITY_SLICE \/ on = {} THEN bsd ELSE on)

\* where slice sl starts; an entry that is not ours is an error (-1)
Base(d, sl) ==
  IF sl = WHOLE_DISK_SLICE THEN 0
  ELSE LET i == IF sl = COMPATIBILITY_SLICE THEN 1 ELSE sl - BASE_SLICE + 1
       IN  IF i \in 1 .. Len(Slices(d)) /\ Slices(d)[i].bsd THEN Slices(d)[i].start ELSE -1
\* the program knows labels of its own kind
Labelled(at) == at \in DOMAIN B2Labels /\ B2Labels[at].wide = wide2

\* Mutant: the offsets of a 32 bit label are taken as they are.
StartAbs(at, p) == at[2] + B2Labels[at].off[p] + B2Labels[at].bias
\* dsk.start: the offsets of a 32 bit label count from where its raw partition
\* says it starts
Start(at, p) ==
  LET l == B2Labels[at]
      POffset(q) == l.off[q] + l.bias
  IN  at[2] + POffset(p) - (IF l.wide THEN 0 ELSE l.bias)

\* dsk and fsapi after dskprobe(), and whether it succeeded; what it finds out
\* before it fails stays.
Failed(d) == [dsk |-> d, ok |-> FALSE, api |-> fsapi]
ProbeFs(d, at) ==
  LET ok == at \in DOMAIN B2Files
  IN  [dsk |-> [d EXCEPT !.at = at], ok |-> ok, api |-> IF ok THEN "fs" ELSE "stray"]
\* the first label boot2_32 sees says whether the disk is da
Seen(d, scsi) ==
  IF wide2 THEN d ELSE [d EXCEPT !.init = TRUE, !.type = IF ~ d.init /\ scsi THEN "da" ELSE @]
\* boot2_32 takes the raw partition of a slice without a label for the slice
ProbeLabel(d, at) ==
  IF at[2] = -1 THEN Failed(d)
  ELSE IF Labelled(at)
  THEN IF d.part \in DOMAIN B2Labels[at].off
       THEN ProbeFs(Seen(d, B2Labels[at].scsi), <<d.drive, Start(at, d.part)>>)
       ELSE Failed(Seen(d, B2Labels[at].scsi))
  ELSE IF wide2 \/ d.part # RAW_PART THEN Failed(d) ELSE ProbeFs(d, at)
ProbeSlice(d, sl) ==
  ProbeLabel([d EXCEPT !.slice = IF @ = WHOLE_DISK_SLICE THEN sl ELSE @], <<d.drive, Base(d.drive, sl)>>)
Probe(d) == IF d.drive \in DOMAIN B2Disks THEN ProbeSlice(d, Pick(d.drive, d.slice)) ELSE Failed(d)

------------------------------------------------------------------------------
\* parse(): an argument is <<"opt", letters>>, <<"bad">>, <<"name", n>>,
\* <<"dev", [drive, type, unit, slice, part], n>> or <<"half", d>>, a device
\* that is refused after those of its fields in d were taken over.
Console == {"V", "h"}
\* option P: without a keyboard both consoles are used
Probed2(S) == IF "P" \in S THEN (IF B2Kbd THEN S ELSE S \cup Console) \ {"P"} ELSE S
Toggle(S, T) == Probed2((S \ T) \cup (T \ S))
\* the end of parse() when it has read all its arguments, with what dskprobe() returned
Parsed(s, pr) ==
  [s |-> [s EXCEPT !.dsk = pr.dsk, !.want.turned = @ \/ (~ s.dsk.init /\ pr.dsk.type # s.dsk.type)],
   ok |-> pr.ok, api |-> pr.api]
ParseEnd(p) == IF p.ok THEN Parsed(p.s, Probe(p.s.dsk)) ELSE [s |-> p.s, ok |-> FALSE, api |-> fsapi]
Parse(st) ==   \* st = [dsk, opts, kname, want, cmd]
  LET n == CHOOSE k \in 0 .. Len(st.cmd) - 1 : st.cmd[k + 1] = End2 /\ \A i \in 1 .. k : st.cmd[i] # End2
      \* a name is what stands at the cell from now on
      Name(s, i, name) == [s EXCEPT !.kname = <<"cmd", i>>, !.want.name = name, !.want.intact = TRUE]
      step[i \in 0 .. n] ==
        IF i = 0 THEN [s |-> st, ok |-> TRUE]
        ELSE LET p == step[i - 1]
                 a == st.cmd[i]
             IN  IF ~ p.ok THEN p
                 ELSE CASE a[1] = "opt" ->
                             [p EXCEPT !.s.opts = Toggle(@, a[2]), !.s.want.opts = Toggle(@, a[2])]
                        [] a[1] = "name" -> [p EXCEPT !.s = Name(@, i, a[2])]
                        [] a[1] = "dev" ->
                             LET d == [drive |-> a[2].drive, type |-> a[2].type, unit |-> a[2].unit,
                                       slice |-> a[2].slice, part |-> a[2].part, init |-> p.s.dsk.init,
                                       at |-> p.s.dsk.at]
                                 q == [p EXCEPT !.s.dsk = d, !.s.want.dsk = a[2], !.s.want.asked = TRUE,
                                                !.s.want.turned = FALSE, !.s.want.half = FALSE]
                             IN  [q EXCEPT !.s = Name(@, i, a[3])]
                        [] a[1] = "half" ->
                             [p EXCEPT !.s.dsk = [f \in DOMAIN @ |-> IF f \in DOMAIN a[2] THEN a[2][f] ELSE @[f]],
                                       !.s.want.half = TRUE, !.ok = FALSE]
                        [] OTHER -> [p EXCEPT !.ok = FALSE]
  IN  ParseEnd(step[n])

State2 == [dsk |-> dsk, opts |-> opts, kname |-> kname, want |-> want2, cmd |-> cmd]
Becomes(s) ==
  /\ UNCHANGED wide2 /\ dsk' = s.dsk /\ opts' = s.opts /\ kname' = s.kname /\ want2' = s.want /\ cmd' = s.cmd

\* a buffer that holds line, over what it held before
Over(old, line) == [i \in 1 .. Len(old) |-> IF i <= Len(line) THEN line[i] ELSE IF i = Len(line) + 1 THEN End2 ELSE old[i]]
\* the history notes whether the name kname points at is still there
Typed(s, line) ==
  LET new == Over(s.cmd, line)
  IN  [s EXCEPT !.cmd = new,
                !.want.intact = @ /\ (s.kname[1] = "cmd" => new[s.kname[2]] = s.cmd[s.kname[2]])]

\* the name load() looks up
NameOf(s) ==
  IF s.kname[1] = "const" THEN s.kname[2]
  ELSE IF s.kname[1] = "null" THEN ""
  ELSE LET c == s.cmd[s.kname[2]]
       IN  IF c[1] = "end" THEN "" ELSE IF c[1] = "name" THEN c[2] ELSE IF c[1] = "dev" THEN c[3] ELSE "-"

\* load(): the file is started, or there is none, or it is no program
Loads(s) == NameOf(s) \in B2Files[s.dsk.at]

------------------------------------------------------------------------------
Const(n) == <<"const", n>>
\* both consoles unless one, or none, is asked for; if there is no serial port
\* the video console alone is all that is left of the options
Consoles(s, sio) ==
  LET o == IF s.opts \cap ({"m"} \cup Console) = {} THEN s.opts \cup Console ELSE s.opts
      w == IF s.want.opts \cap ({"m"} \cup Console) = {} THEN s.want.opts \cup Console ELSE s.want.opts
  IN  IF "h" \in o /\ ~ sio THEN [s EXCEPT !.opts = {"V"}, !.want.opts = w, !.want.lost = TRUE]
      ELSE [s EXCEPT !.opts = o, !.want.opts = w]

\* main() up to the loader: probe, configuration, its cell 1 cleared, consoles
Configured(p, sio) ==
  /\ Becomes(Consoles(Typed(p.s, <<>>), sio))
  /\ auto2' = p.ok /\ fsapi' = p.api
  /\ pc2' = IF p.ok /\ p.s.kname = <<"null", 0>> THEN "auto" ELSE "prompt"
Unconfigured(s, api, sio) ==
  Becomes(Consoles(s, sio)) /\ auto2' = TRUE /\ fsapi' = api /\ pc2' = "auto"
Begin ==
  /\ pc2 = "start"
  /\ \E pr \in {Probe(dsk)}, sio \in BOOLEAN :
       LET s == [State2 EXCEPT !.dsk = pr.dsk]
       IN  \/ Unconfigured(s, pr.api, sio) /\ (pr.ok => <<>> \in B2Configs)
           \/ \E conf \in B2Configs \ {<<>>} : pr.ok /\ Configured(Parse(Typed(s, conf)), sio)
  /\ UNCHANGED <<run2, lines2>>

\* keys are seen on the consoles in use, with option n on none
KeysSeen == "n" \notin opts /\ opts \cap Console # {}

\* a key within three seconds: the loader's name stays for the prompt
Interrupted ==
  /\ pc2 = "auto" /\ KeysSeen
  /\ kname' = Const("/loader") /\ want2' = [want2 EXCEPT !.name = "/loader"]
  /\ pc2' = "prompt"
  /\ UNCHANGED <<wide2, dsk, cmd, opts, fsapi, auto2, run2, lines2>>

\* without a label boot2_64 has no function to call; without a superblock the
\* look-up computes with what is in its place, and fails or ends it all
Started(s) == [at |-> s.dsk.at, name |-> NameOf(s), opts |-> s.opts, dsk |-> s.dsk]
AutoLoad ==
  /\ pc2 = "auto"
  /\ IF fsapi = "none" THEN pc2' = "crash" /\ UNCHANGED <<kname, run2, want2>>
     ELSE IF fsapi = "stray"
     THEN /\ \/ pc2' = "crash" /\ UNCHANGED <<kname, want2>>
             \/ pc2' = "prompt" /\ kname' = Const("/kernel") /\ want2' = [want2 EXCEPT !.name = "/kernel"]
          /\ UNCHANGED run2
     ELSE LET found == {"/loader", "/boot/loader"} \cap B2Files[dsk.at]
              n == IF "/loader" \in found THEN "/loader" ELSE "/boot/loader"
          IN  IF found # {}
              THEN /\ pc2' = "run" /\ kname' = Const(n) /\ want2' = [want2 EXCEPT !.name = n]
                   /\ run2' = Started([State2 EXCEPT !.kname = Const(n)])
              ELSE /\ pc2' = "prompt" /\ kname' = Const("/kernel") /\ want2' = [want2 EXCEPT !.name = "/kernel"]
                   /\ UNCHANGED run2
  /\ UNCHANGED <<wide2, dsk, cmd, opts, fsapi, auto2, lines2>>

\* the prompt: a line, or none within five seconds; where no key is seen a
\* line never ends
NoLine2 == <<<<"timeout">>>>
Enter2(line) ==
  LET s0 == IF line = NoLine2 THEN State2 ELSE Typed(State2, line)
      p == Parse(s0)
  IN  /\ Becomes(p.s)
      /\ auto2' = FALSE
      /\ fsapi' = p.api
      /\ IF ~ p.ok THEN pc2' = "prompt" /\ UNCHANGED run2
         ELSE IF Loads(p.s) THEN pc2' = "run" /\ run2' = Started(p.s)
         ELSE pc2' = "prompt" /\ UNCHANGED run2
PromptLine ==
  /\ pc2 = "prompt" /\ KeysSeen /\ lines2 < B2Lines_max
  /\ \E line \in B2Lines : Enter2(line)
  /\ lines2' = lines2 + 1
PromptTimeout ==
  /\ pc2 = "prompt" /\ auto2
  /\ Enter2(NoLine2)
  /\ UNCHANGED lines2

------------------------------------------------------------------------------
NoRun == [at |-> <<0, 0>>, name |-> "", opts |-> {}, dsk |-> <<>>]
\* boot1 passes the drive and the slice it found boot2 in (0 on a floppy)
B2Init(Starts) ==
  /\ wide2 \in BOOLEAN
  /\ dsk \in {[drive |-> d.drive, type |-> "ad", unit |-> d.drive, slice |-> d.slice + 1, part |-> 0,
               init |-> FALSE, at |-> <<0, 0>>] : d \in Starts}
  /\ cmd = <<End2, End2, End2, End2>>
  /\ kname = <<"null", 0>> /\ opts = {} /\ fsapi = (IF wide2 THEN "none" ELSE "stray") /\ auto2 = TRUE
  /\ pc2 = "start" /\ run2 = NoRun /\ lines2 = 0
  /\ want2 = [name |-> "", dsk |-> [drive |-> dsk.drive, type |-> "ad", unit |-> dsk.unit, slice |-> dsk.slice, part |-> 0],
              opts |-> {}, asked |-> FALSE, turned |-> FALSE, intact |-> TRUE, half |-> FALSE, lost |-> FALSE]

B2Next == Begin \/ Interrupted \/ AutoLoad \/ PromptLine \/ PromptTimeout

------------------------------------------------------------------------------
\* where a partition of a slice lies, and the slice a device means
Lies(d, slice, part) ==
  LET at == <<d, Base(d, slice)>>
  IN  <<d, at[2] + (IF Labelled(at) THEN B2Labels[at].off[part] ELSE 0)>>
Meant2(d) ==
  LET bsd == {i \in 1 .. Len(Slices(d.drive)) : Slices(d.drive)[i].bsd}
      on == {i \in bsd : Slices(d.drive)[i].active}
  IN  IF d.slice >= BASE_SLICE THEN d.slice
      ELSE IF bsd = {} THEN WHOLE_DISK_SLICE
      ELSE BASE_SLICE - 1 + (CHOOSE i \in (IF on = {} THEN bsd ELSE on) :
                               \A j \in (IF on = {} THEN bsd ELSE on) : i <= j)
\* the type the kernel is to be told of: that of the device named, or what the
\* label of the disk booted from says
TypeMeant ==
  LET at == <<want2.dsk.drive, Base(want2.dsk.drive, Meant2(want2.dsk))>>
  IN  IF ~ want2.asked /\ ~ wide2 /\ Labelled(at) /\ B2Labels[at].scsi THEN "da" ELSE want2.dsk.type

\* Boot2Right: what is started is the file named last, in the partition named
\* last, with the options switched an odd number of times, and the kernel is
\* told the device it came from.  A name is lost when its cell in the command
\* buffer is used again, the options when there is no serial port; a device
\* that was refused half way leaves some of it behind; the type of a device
\* that was named is changed if no label was seen before its own (turned).
Boot2Right ==
  pc2 = "run" =>
    /\ want2.intact => run2.name = want2.name
    /\ ~ want2.lost => run2.opts = want2.opts
    /\ ~ want2.half =>
         /\ run2.at = Lies(want2.dsk.drive, Meant2(want2.dsk), want2.dsk.part)
         /\ ~ (want2.asked /\ want2.turned) => run2.dsk.type = TypeMeant
         /\ run2.dsk.unit = want2.dsk.unit
    /\ run2.at = Lies(run2.dsk.drive, run2.dsk.slice, run2.dsk.part)
=============================================================================
