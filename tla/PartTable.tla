----------------------------- MODULE PartTable -----------------------------
(***************************************************************************)
(* What the loader makes of a disk that fgdisk has worked on: ptable_open() *)
(* and ptable_gptread() of sys/boot/common/part.c, in any state of Fgdisk. *)
(* The loader reads the backup GPT by rules of its own.  Disklabels, EBRs  *)
(* and tables longer than MAXTBLSZ sectors are left out.                   *)
(***************************************************************************)
EXTENDS Fgdisk

\* Partitions by index, and which kind of table they come from; PTABLE_NONE.
PNone == [type |-> "none", parts |-> <<>>]

\* gpt_checkhdr(): a header is a sector, and all there or not at all.
CheckHdr(c) == hdr[c].n > 0
\* gpt_checktbl()
CheckTbl(c) == hdr[c].crc = Sum(hdr[c].n, tbl[c])

\* The entries made of the first n slots of a table.
Entries(n, t) ==
    [i \in {j + 1 : j \in {k \in 0 .. n - 1 : t[k].used}} |->
        [start |-> t[i - 1].start, size |-> t[i - 1].size]]

\* Mutant: the backup header is not looked at.
gptreadPri ==
    IF CheckHdr("pri") /\ CheckTbl("pri")
      THEN [type |-> "gpt", parts |-> Entries(hdr["pri"].n, tbl["pri"])] ELSE PNone

\* The backup header is looked for where the primary one says (on a medium
\* that has grown Fgdisk has none there), and its table is read, into the
\* buffer of the primary one, if the headers differ.
ptable_gptread ==
    LET pri == CheckHdr("pri") /\ CheckTbl("pri")
        offset == IF pri THEN hdr["pri"].alt ELSE Last1
        read == /\ offset = Last1 /\ CheckHdr("sec")
                /\ ~pri \/ hdr["pri"].n # hdr["sec"].n \/ hdr["pri"].crc # hdr["sec"].crc
        sec == read /\ CheckTbl("sec")
        buf == [i \in Ent |-> IF read /\ i \div EPS < Blocks(hdr["sec"].n)
                               THEN tbl["sec"][i] ELSE tbl["pri"][i]]
    IN IF ~pri /\ ~sec THEN PNone
       ELSE [type |-> "gpt", parts |-> Entries(IF sec THEN hdr["sec"].n ELSE hdr["pri"].n, buf)]

ptable_open ==
    IF mbr.kind = "mbr"
      THEN [type |-> "mbr", parts |-> [k \in DOMAIN mbr.parts |->
              [start |-> mbr.parts[k].start, size |-> mbr.parts[k].size]]]
      ELSE ptable_gptread

-----------------------------------------------------------------------------
(* Properties *)

\* The loader finds a partition table on every disk fgdisk has made one on,
\* wherever fgdisk was interrupted.
LoaderFinds == made /\ fails = 0 => ptable_open # PNone

\* "If they are different, then prefer backup header and try to read backup
\* table" (part.c:307): when fgdisk is not running, the loader takes header
\* and entries from the same copy, and from one whose checksum is right.
LoaderTable ==
    Ready /\ ptable_open.type = "gpt" =>
        \E c \in Copies : Intact(c) /\ ptable_open.parts = Entries(hdr[c].n, tbl[c])
=============================================================================
