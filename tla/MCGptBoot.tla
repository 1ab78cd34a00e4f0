----------------------------- MODULE MCGptBoot -----------------------------
(* Instances of GptBoot for TLC. *)
EXTENDS GptBoot

\* Attributes an administrator sets.
SetAttrs == {{}, {"ME"}, {"ME", "ONCE"}}

\* fgdisk flag -s bootme -s bootonce; -t bootme -u bootfailed
Cmds == {[s |-> {"ME", "ONCE"}, t |-> {}, u |-> {}],
         [s |-> {}, t |-> {"ME"}, u |-> {"FAILED"}]}
NoCmds == {}

Lay(ty, fs, boot, conf) == [type |-> ty, fs |-> fs, boot |-> boot, conf |-> conf]
Quiet == [i \in Ent |-> NoConf]
Dfly  == [i \in Ent |-> "dfly"]
Fbsd  == [i \in Ent |-> "fbsd"]
Spare(ty) == [ty EXCEPT ![N - 1] = "other"]
\* FreeBSD and DragonFly partitions by turns.
Mixed == [i \in Ent |-> IF i % 2 = 0 THEN "fbsd" ELSE "dfly"]

\* The last one boots; one has no file system and is of another type; a
\* /boot.config that selects the last partition, or is rejected.
FaultLayouts ==
    {Lay(Dfly, Ent, {N - 1}, Quiet), Lay(Mixed, {0}, {0}, Quiet)}
    \cup {Lay(Dfly, Ent, {N - 1}, [Quiet EXCEPT ![0] = k]) : k \in {0, N}}
\* Without /boot.config and with the last entry of the table not in use.
OrderLayouts ==
    {Lay(Spare(ty), Ent, b, Quiet) : ty \in {Dfly, Fbsd, Mixed}, b \in SUBSET {0, 1}}
    \cup {Lay(Spare(Dfly), {1}, {1}, Quiet)}
\* No partition boots.
DeadDfly == {Lay(Dfly, Ent, {}, Quiet)}
=============================================================================
