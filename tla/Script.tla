------------------------------- MODULE Script -------------------------------
(***************************************************************************)
(* Scripts and the menu of the loader (common/do_dloader.c, the            *)
(* conditionals of commands.c, dloader/cmds.c and subs.c), and the console *)
(* variable with its hook (console.c, libstand/environment.c).             *)
(*                                                                         *)
(* A script is not given in advance: the next line is any line.  The       *)
(* variable blocks follows the script's if-blocks the way they are meant,  *)
(* and menus what menuitem and menuadd asked for; both are history.        *)
(***************************************************************************)
EXTENDS Integers, Sequences, FiniteSets, SequencesExt

CONSTANTS
  CondMax,      \* size of CondStack
  IncludeMax,   \* nesting of include in the scripts considered
  MenuKeys, MenuCmds, MenuLines,  \* menu items, their commands, lines per item
  Consoles,     \* sequence of console names, in the order of consoles[]
  MenuDelay,    \* autoboot_delay
  StaleMax      \* items redefined or taken apart between two menuclears

ASSUME ScriptAssumption ==
  CondMax \in Nat \ {0} /\ IncludeMax \in Nat /\ MenuLines \in Nat /\ MenuDelay \in Nat /\ StaleMax \in Nat

VARIABLES
  condStack, CurrentCondition,  \* CondStack up to CondIndex: [inherit, current]
  sframes,      \* activations of include(): [opt, ign]
  phase,        \* of interact()
  failing,      \* the innermost include() is failing
  blocks,       \* [outer, done, on, elsed] for each open block (history)
  dvars,        \* dloader's variables, in order: [name, data]
  curitem, curadd,
  menus,        \* item -> its commands as they were added (history)
  stale,        \* items redefined with fewer lines (history)
  ran,          \* what the menu executed: [cmds, failed, asked, stale]
  works,        \* console -> the directions the hardware has
  cons,         \* console -> [present, active]: its c_flags
  consEnv,      \* the variable `console': names, or "unset" before cons_probe()
  waiting       \* command_menu(): seconds left, -1 for halted; -2 not in it

condVars == <<condStack, CurrentCondition, blocks>>
menuVars == <<dvars, curitem, curadd, menus, stale, ran>>
consVars == <<works, cons, consEnv>>
frameVars == <<sframes, phase, failing>>
scriptVars == <<condVars, frameVars, menuVars, consVars, waiting>>

------------------------------------------------------------------------------
(* Conditionals.  Every command returns ok or fail to the include() that     *)
(* performs it.                                                              *)

Active == CurrentCondition
Cond(inh, cur) == [inherit |-> inh, current |-> cur]
SetTop(c) ==
  /\ condStack' = [condStack EXCEPT ![Len(condStack)] = c]
  /\ CurrentCondition' = (c.inherit /\ c.current)
ReallyOn == \A i \in 1 .. Len(blocks) : blocks[i].on

\* command_ifexists, command_ifset: c is whether it exists or is set
If(c) ==
  /\ Len(condStack) + 1 < CondMax
  /\ condStack' = Append(condStack, Cond(CurrentCondition, c))
  /\ CurrentCondition' = (CurrentCondition /\ c)
  /\ blocks' = Append(blocks, [done |-> c, on |-> c, elsed |-> FALSE])

\* Mutant: a branch that was taken is forgotten
ElseifAgain(top, c) == Cond(top.inherit, c)
\* command_elseifexists
Elseif(top, c) ==
  IF ~ top.inherit THEN top
  ELSE IF top.current THEN Cond(FALSE, FALSE)
  ELSE Cond(top.inherit, c)

CommandElseif(c) ==
  /\ condStack # <<>>
  /\ SetTop(Elseif(Last(condStack), c))
  /\ blocks' = [blocks EXCEPT ![Len(blocks)].on = ~ Last(blocks).done /\ c,
                              ![Len(blocks)].done = @ \/ c]

\* command_else
CommandElse ==
  /\ condStack # <<>>
  /\ SetTop(Cond(Last(condStack).inherit, ~ Last(condStack).current))
  /\ blocks' = [blocks EXCEPT ![Len(blocks)].on = ~ Last(blocks).done,
                              ![Len(blocks)].done = TRUE, ![Len(blocks)].elsed = TRUE]

\* command_endif
CommandEndif ==
  /\ condStack # <<>>
  /\ condStack' = Front(condStack)
  /\ CurrentCondition' = IF Len(condStack) = 1 THEN TRUE
                         ELSE LET c == condStack[Len(condStack) - 1] IN c.inherit /\ c.current
  /\ blocks' = Front(blocks)

\* the scripts considered have else last in a block
WellFormed == blocks # <<>> => ~ Last(blocks).elsed

CondLine ==
  /\ \/ \E c \in BOOLEAN : If(c)
     \/ WellFormed /\ \E c \in BOOLEAN : CommandElseif(c)
     \/ WellFormed /\ CommandElse
     \/ CommandEndif
  /\ UNCHANGED <<frameVars, menuVars, consVars, waiting>>

------------------------------------------------------------------------------
(* include() and interact().                                                 *)

Reading == phase \in {"rc", "conf"} /\ sframes # <<>> /\ ~ failing

\* include() ends, with or without an error.  interact() goes on to boot.conf
\* if dloader.rc failed; a nested one is a command of the script around it,
\* whose failure ends that script too unless the line began with `-' or it was
\* optinclude.
Ends(res) ==
  LET f == Last(sframes)
      nested == Len(sframes) > 1
  IN  /\ sframes' = Front(sframes)
      /\ failing' = (nested /\ res = "fail" /\ ~ f.opt /\ ~ f.ign)
      /\ phase' = IF nested THEN phase
                  ELSE IF phase = "rc" /\ res = "fail" THEN "next" ELSE "autoboot"

EndOfScript ==
  /\ Reading /\ Ends("ok")
  /\ UNCHANGED <<condVars, menuVars, consVars, waiting>>

\* a command that fails, one that is unknown (also in a branch that is not
\* taken) or a line that cannot be parsed: the rest of the script is not read,
\* and open blocks stay open
BadLine ==
  /\ Reading /\ Ends("fail")
  /\ UNCHANGED <<condVars, menuVars, consVars, waiting>>

\* the enclosing script fails in turn
FailOn ==
  /\ failing /\ Ends("fail")
  /\ UNCHANGED <<condVars, menuVars, consVars, waiting>>

\* command_include, command_optinclude; nothing happens in an inactive branch
Include ==
  /\ Reading /\ Active /\ Len(sframes) <= IncludeMax
  /\ \E opt, ign \in BOOLEAN : sframes' = Append(sframes, [opt |-> opt, ign |-> ign])
  /\ UNCHANGED <<condVars, phase, failing, menuVars, consVars, waiting>>

\* interact(): include("dloader.rc"), include("boot.conf")
Start ==
  /\ phase \in {"start", "next"}
  /\ \/ /\ sframes' = <<[opt |-> FALSE, ign |-> FALSE]>>
        /\ phase' = IF phase = "start" THEN "rc" ELSE "conf"
     \/ /\ UNCHANGED sframes      \* cannot be opened
        /\ phase' = IF phase = "start" THEN "next" ELSE "autoboot"
  /\ UNCHANGED <<failing, condVars, menuVars, consVars, waiting>>

\* autoboot_maybe() came back: the prompt
Prompt ==
  /\ phase = "autoboot" /\ phase' = "prompt"
  /\ UNCHANGED <<failing, condVars, sframes, menuVars, consVars, waiting>>

------------------------------------------------------------------------------
(* dloader's variables and the menu.                                         *)

MenuName(c) == <<"menu", c, 0>>
ItemName(c, n) == <<"item", c, n>>

\* dvar_set(): a variable keeps its place
DvarSet(vs, name, data) ==
  LET at == {i \in 1 .. Len(vs) : vs[i].name = name}
  IN  IF at = {} THEN Append(vs, [name |-> name, data |-> data])
      ELSE [vs EXCEPT ![Min(at)].data = data]

\* dvar_unset()
DvarUnset(vs, name) == SelectSeq(vs, LAMBDA v : v.name # name)

Executing == (Reading \/ phase = "prompt") /\ Active /\ waiting = -2

CommandMenuclear ==
  /\ Executing
  /\ dvars' = SelectSeq(dvars, LAMBDA v : v.name[1] \notin {"menu", "item"})
  /\ curitem' = "none" /\ curadd' = 0
  /\ menus' = [c \in MenuKeys |-> <<>>] /\ stale' = {}
  /\ UNCHANGED <<ran, condVars, frameVars, consVars, waiting>>

\* redefining an item starts again with its first line; the lines of the old
\* definition stay where they are until they are overwritten
CommandMenuitem ==
  /\ Executing
  /\ \E c \in MenuKeys :
       /\ curitem' = c /\ curadd' = 0
       /\ dvars' = DvarSet(dvars, MenuName(c), <<>>)
       /\ menus' = [menus EXCEPT ![c] = <<>>]
       /\ stale' = IF menus[c] = <<>> THEN stale ELSE stale \cup {c}
       /\ Cardinality(stale') <= StaleMax
  /\ UNCHANGED <<ran, condVars, frameVars, consVars, waiting>>

CommandMenuadd ==
  /\ Executing /\ curitem # "none" /\ curadd < MenuLines
  /\ \E x \in MenuCmds :
       /\ dvars' = DvarSet(dvars, ItemName(curitem, curadd), x)
       /\ menus' = [menus EXCEPT ![curitem] = Append(@, x)]
  /\ curadd' = curadd + 1
  /\ UNCHANGED <<curitem, stale, ran, condVars, frameVars, consVars, waiting>>

\* lunset of a line: whoever does that gets what is left
CommandLunset ==
  /\ Executing
  /\ \E i \in 1 .. Len(dvars) :
       /\ dvars' = DvarUnset(dvars, dvars[i].name)
       /\ dvars[i].name[2] \notin stale
       /\ stale' = stale \cup {dvars[i].name[2]}
  /\ Cardinality(stale') <= StaleMax
  /\ UNCHANGED <<curitem, curadd, menus, ran, condVars, frameVars, consVars, waiting>>

\* menu_execute(): all lines of the item, in the order of the variables, from a
\* copy (the commands may change the variables), up to the one that fails
Lines(c) == SelectSeq(dvars, LAMBDA v : v.name[1] = "item" /\ v.name[2] = c)
HasItem(c) == \E i \in 1 .. Len(dvars) : dvars[i].name = ItemName(c, 0)
Commands(c) == [i \in 1 .. Len(Lines(c)) |-> Lines(c)[i].data]

\* command_menu: displays and waits
CommandMenu ==
  /\ Executing
  /\ waiting' = MenuDelay
  /\ UNCHANGED <<condVars, frameVars, menuVars, consVars>>

Leave(c) ==
  /\ waiting' = -2
  /\ IF HasItem(c)
     THEN \E f \in 0 .. Len(Commands(c)) :
            ran' = [cmds |-> IF f = 0 THEN Commands(c) ELSE SubSeq(Commands(c), 1, f), failed |-> f > 0,
                    asked |-> menus[c], stale |-> c \in stale]
     ELSE UNCHANGED ran
  /\ UNCHANGED <<dvars, curitem, curadd, menus, stale, condVars, frameVars, consVars>>

\* a key of an item; a key of none is ignored
MenuKey == waiting # -2 /\ \E c \in MenuKeys : HasItem(c) /\ Leave(c)
\* Enter, or the end of the countdown: item 1
MenuFirst == waiting # -2 /\ Leave(CHOOSE c \in MenuKeys : c = "1")
MenuTimeout == waiting = 0 /\ MenuFirst
\* Escape
MenuEscape ==
  /\ waiting # -2 /\ waiting' = -2
  /\ UNCHANGED <<condVars, frameVars, menuVars, consVars>>
\* space halts the countdown
MenuSpace ==
  /\ waiting >= 0 /\ waiting' = -1
  /\ UNCHANGED <<condVars, frameVars, menuVars, consVars>>
MenuTick ==
  /\ waiting > 0 /\ waiting' = waiting - 1
  /\ UNCHANGED <<condVars, frameVars, menuVars, consVars>>

------------------------------------------------------------------------------
(* The console variable.                                                     *)

Names == Range(Consoles)
Activate(cs, on) == [n \in Names |-> [cs[n] EXCEPT !.active = n \in on]]
Both(cs, n) == cs[n].present = {"in", "out"}
Usable(cs) == {n \in Names : Both(cs, n) /\ cs[n].active}

\* cons_change(): those asked for, or all if none of them is there
Change(cs, want) ==
  LET c1 == Activate(cs, want)
  IN  IF Usable(c1) # {} THEN c1 ELSE Activate(cs, Names)

\* cons_probe() probes all consoles, and again up to the first one that works
\* both ways
Probed == [n \in Names |-> [present |-> works[n], active |-> FALSE]]
FirstWorking == Consoles[Min({i \in 1 .. Len(Consoles) : Both(Probed, Consoles[i])})]

\* cons_probe() at start-up, with the variable set or not
ConsProbe ==
  /\ consEnv = {"unset"}
  /\ \/ cons' = Activate(Probed, {FirstWorking}) /\ consEnv' = {FirstWorking}
     \/ \E want \in SUBSET Names : cons' = Change(Probed, want) /\ consEnv' = want
  /\ UNCHANGED <<works, condVars, frameVars, menuVars, waiting>>

\* set console=...: cons_set(); a value without a known name is not taken, and
\* the variable cannot be unset (env_nounset())
SetConsole ==
  /\ consEnv # {"unset"}
  /\ \E want \in SUBSET Names \ {{}} : cons' = Change(cons, want) /\ consEnv' = want
  /\ UNCHANGED <<works, condVars, frameVars, menuVars, waiting>>

------------------------------------------------------------------------------
ScriptInitAt(p) ==
  /\ condStack = <<>> /\ CurrentCondition = TRUE /\ blocks = <<>>
  /\ sframes = <<>> /\ phase = p /\ failing = FALSE
  /\ dvars = <<>> /\ curitem = "none" /\ curadd = 0
  /\ menus = [c \in MenuKeys |-> <<>>] /\ stale = {}
  /\ ran = [cmds |-> <<>>, failed |-> FALSE, asked |-> <<>>, stale |-> FALSE]
  /\ works \in {w \in [Names -> SUBSET {"in", "out"}] : w["null"] = {"in", "out"}}
  /\ cons = [n \in Names |-> [present |-> {}, active |-> FALSE]]
  /\ consEnv = {"unset"} /\ waiting = -2

ScriptStep == MenuTick \/ MenuTimeout
ScriptNext ==
  \/ (Reading \/ phase = "prompt") /\ waiting = -2 /\ CondLine
  \/ waiting = -2 /\ (EndOfScript \/ BadLine \/ FailOn \/ Include \/ Start \/ Prompt)
MenuNext ==
  CommandMenuclear \/ CommandMenuitem \/ CommandMenuadd \/ CommandLunset \/ CommandMenu
  \/ MenuKey \/ MenuFirst \/ MenuEscape \/ MenuSpace \/ ScriptStep
ConsNext == ConsProbe \/ SetConsole

\* A command is performed exactly if every open block is in the branch that is
\* taken: the first one whose condition holds, or else (perform() and the
\* conditionals of commands.c), whatever failed before.
BranchesRight == CurrentCondition <=> ReallyOn

\* The menu runs the lines added to the item that was chosen, in their order
\* and all unless one fails (menu_execute()), unless the item was redefined or its lines removed.
MenuRight ==
  ~ ran.stale => IsPrefix(ran.cmds, ran.asked) /\ (ran.failed \/ ran.cmds = ran.asked)

\* Once consoles have been probed there is one to read from and write to,
\* whatever the variable is set to (cons_change()).
ConsoleLeft == consEnv # {"unset"} => Usable(cons) # {}

\* What a script and the menu do is what they say.
ScriptRight == BranchesRight /\ MenuRight /\ ConsoleLeft
=============================================================================
