-------------------------------- MODULE Arp --------------------------------
(***************************************************************************)
(* The table of hardware addresses of lib/libstand/arp.c.  arpwhohas()     *)
(* keeps the entry it is filling at arp_list[arp_num], where arprecv()     *)
(* looks for the address it waits for.  The hardware address of host a is  *)
(* written a.  Cell ARP_NUM is the memory behind the table.                *)
(***************************************************************************)
EXTENDS Integers, FiniteSets

CONSTANTS
    ARP_NUM,    \* entries of the table, the broadcast address among them
    ArpHosts,   \* IP addresses on the network
    ArpMe,      \* d->myip
    ArpTries    \* times sendrecv() sends before it gives up

ASSUME ArpAssumption == ARP_NUM \in Nat \ {0, 1} /\ ArpTries \in Nat \ {0} /\ ArpMe \notin ArpHosts

VARIABLES
    arpList,    \* arp_list, and the memory behind it
    arpNum,     \* arp_num
    arpWait,    \* the request: its address, the cell al, times it was sent
    arpNet,     \* packets: they arrive late, twice or never
    arpRes,     \* what arpwhohas() returned
    arpOver     \* history: the table has been recycled

arpVars == <<arpList, arpNum, arpWait, arpNet, arpRes, arpOver>>

NoHost == "none"
ArpIdle == [addr |-> NoHost, al |-> 0, tries |-> 0]
ArpNothing == [addr |-> NoHost, ea |-> NoHost]
Request(spa, tpa) == [op |-> "request", spa |-> spa, sha |-> spa, tpa |-> tpa]
Reply(spa, sha, tpa) == [op |-> "reply", spa |-> spa, sha |-> sha, tpa |-> tpa]

ArpHits(a) == {i \in 0 .. arpNum - 1 : arpList[i].addr = a}
FirstHit(a) == CHOOSE i \in ArpHits(a) : \A j \in ArpHits(a) : i <= j

\* arpwhohas() finds the address in the table.
ArpCached(a) ==
    /\ arpWait = ArpIdle /\ ArpHits(a) # {}
    /\ arpRes' = [addr |-> a, ea |-> arpList[FirstHit(a)].ea]
    /\ UNCHANGED <<arpList, arpNum, arpWait, arpNet, arpOver>>

\* It does not: the cell after the last one is for the answer.  arp_num is
\* recycled after al has been computed.
ArpAsk(a) ==
    /\ arpWait = ArpIdle /\ ArpHits(a) = {}
    /\ arpNum' = IF arpNum > ARP_NUM - 1 THEN 1 ELSE arpNum
    /\ arpOver' = (arpOver \/ arpNum > ARP_NUM - 1)
    /\ arpList' = [arpList EXCEPT ![arpNum].addr = a]
    /\ arpWait' = [addr |-> a, al |-> arpNum, tries |-> 0]
    /\ arpRes' = ArpNothing
    /\ UNCHANGED arpNet

\* sendrecv() calls arpsend(), at first or after a time-out.
ArpSend ==
    /\ arpWait # ArpIdle /\ arpWait.tries < ArpTries
    /\ arpWait' = [arpWait EXCEPT !.tries = @ + 1]
    /\ arpNet' = arpNet \cup {Request(ArpMe, arpWait.addr)}
    /\ UNCHANGED <<arpList, arpNum, arpRes, arpOver>>

\* Mutant: the sender of a reply is not looked at.
ArpForUsAny(p) == p.op = "reply"

\* arprecv(): a reply from the host whose entry is being filled.
ArpForUs(p) == p.op = "reply" /\ arpList[arpNum].addr = p.spa

ArpRecv(p) ==
    /\ arpWait.tries > 0 /\ ArpForUs(p)
    /\ arpList' = [arpList EXCEPT ![arpWait.al].ea = p.sha]
    /\ arpNum' = arpNum + 1
    /\ arpRes' = [addr |-> arpWait.addr, ea |-> p.sha]
    /\ arpWait' = ArpIdle
    /\ UNCHANGED <<arpNet, arpOver>>

\* arp_reply(): a request for our address that comes while we wait.
ArpReply(p) ==
    /\ arpWait.tries > 0 /\ p.op = "request" /\ p.tpa = ArpMe
    /\ arpNet' = arpNet \cup {Reply(ArpMe, ArpMe, p.spa)}
    /\ UNCHANGED <<arpList, arpNum, arpWait, arpRes, arpOver>>

\* No answer: panic(), and the machine starts again.
ArpPanic ==
    /\ arpWait.tries = ArpTries
    /\ arpList' = [i \in 0 .. ARP_NUM |-> [addr |-> IF i = 0 THEN "bcast" ELSE NoHost, ea |-> IF i = 0 THEN "bcast" ELSE NoHost]]
    /\ arpNum' = 1 /\ arpWait' = ArpIdle /\ arpRes' = ArpNothing /\ arpOver' = FALSE
    /\ UNCHANGED arpNet

\* The other hosts.
HostReplies(a) ==
    /\ Request(ArpMe, a) \in arpNet
    /\ arpNet' = arpNet \cup {Reply(a, a, ArpMe)}
    /\ UNCHANGED <<arpList, arpNum, arpWait, arpRes, arpOver>>
HostAsks(a) ==
    /\ arpNet' = arpNet \cup {Request(a, ArpMe)}
    /\ UNCHANGED <<arpList, arpNum, arpWait, arpRes, arpOver>>

ArpInit ==
    /\ arpList = [i \in 0 .. ARP_NUM |-> [addr |-> IF i = 0 THEN "bcast" ELSE NoHost, ea |-> IF i = 0 THEN "bcast" ELSE NoHost]]
    /\ arpNum = 1 /\ arpWait = ArpIdle /\ arpNet = {} /\ arpRes = ArpNothing /\ arpOver = FALSE

ArpNext == \/ \E a \in ArpHosts \cup {"bcast"} : ArpCached(a) \/ ArpAsk(a)
           \/ ArpSend \/ ArpPanic
           \/ \E p \in arpNet : ArpRecv(p) \/ ArpReply(p)
           \/ \E a \in ArpHosts : HostReplies(a) \/ HostAsks(a)

-----------------------------------------------------------------------------
(* Properties *)

\* arpwhohas() returns the hardware address of the host that was asked for,
\* whatever replies are late or repeated and whoever else asks, until the
\* table is full: then arprecv() compares with the host of another cell.
ArpRight == arpRes.addr # NoHost /\ ~arpOver => arpRes.ea = arpRes.addr
=============================================================================
