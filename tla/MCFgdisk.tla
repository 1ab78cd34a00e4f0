------------------------------ MODULE MCFgdisk ------------------------------
(* Instances of Fgdisk for TLC. *)
EXTENDS PartTable

NoMbr == [kind |-> "none", parts |-> <<>>]
Part(typ, start, size, sub) == [typ |-> typ, start |-> start, size |-> size, sub |-> sub]
Ext(start, size) == [start |-> start, size |-> size]
\* A slice with two partitions in its disklabel, and a partition of a type
\* migrate does not know.
Slices == [kind |-> "mbr", parts |-> <<Part("bsd", 4, 3, <<Ext(4, 1), Ext(5, 2)>>),
                                       Part("dos", 7, 1, <<>>)>>]
\* An EFI partition that leaves no room for the GPT at the end of the smaller
\* medium, and little on the larger one.
Full == [kind |-> "mbr", parts |-> <<Part("efi", 4, 7, <<>>)>>]
Disks == {NoMbr, Slices, Full}

Arg(b, s, a) == [b |-> b, s |-> s, a |-> a]
Size(s, a) == [s |-> s, a |-> a]

\* The arguments of the crash run: room for two partitions, and for one to
\* take all the other one leaves free.
CrashAdds == {Arg(0, 2, 0)}
CrashResizes == {Size(0, 0)}
\* The arguments of the failure run: aligned starts and sizes.
FailAdds == {Arg(0, 2, 2), Arg(5, 0, 2)}
FailResizes == {Size(1, 0), Size(3, 2)}

\* The table is destroyed and made anew.
AgainDisks == {Pmbr}
AgainCommands == {"add", "create", "destroy"}

Editing == {"add", "resize", "remove"}
Whole == {"recover", "create", "migrate", "destroy"}
CrashCommands == Editing \cup Whole \cup {"grow"}
FailCommands == Editing \cup Whole \cup {"label", "rename", "installboot", "installefi"}
=============================================================================
