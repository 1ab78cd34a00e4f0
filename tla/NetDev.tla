------------------------------- MODULE NetDev -------------------------------
(***************************************************************************)
(* The network device and the parameters it gets when it is opened: "net"  *)
(* (sys/boot/common/dev_net.c, over netif.c and the EFI driver efinet.c)   *)
(* and "pxe" (sys/boot/pc32/libi386/pxe.c).  Parameters come by BOOTP or   *)
(* DHCP (bootp.c), and for "net" by RARP and bootparam (rarp.c,            *)
(* bootparam.c) if myip is not known after that.                           *)
(*                                                                         *)
(* A server gives addresses by the names of DhcpServers[s]: its options in *)
(* the order they have in its packets.  Packets are lost, delayed and      *)
(* repeated.  Bits of addresses are left out: a mask is one that contains  *)
(* the class mask ("sub") or not ("bad"), a gateway is on the net of myip  *)
(* or not.                                                                 *)
(***************************************************************************)
EXTENDS Integers, Sequences

CONSTANTS
    DhcpServers,    \* server -> its options, in order
    BootpTries,     \* times sendrecv() sends before it gives up
    MaxOpens,       \* bound: times the device is opened
    MaxDevFails,    \* bound: failures of the interface
    Sockets         \* SOPEN_MAX

ASSUME NetDevAssumption ==
    /\ BootpTries \in Nat \ {0} /\ Sockets \in Nat \ {0}
    /\ \A s \in DOMAIN DhcpServers : DhcpServers[s] \in Seq(STRING)

Servers == DOMAIN DhcpServers

VARIABLES
    nkind,      \* "net" or "pxe"
    nd,         \* sock, opens of the device; the step that open() is at
    ioNetif,    \* sockets[].io_netif # NULL
    par,        \* the parameters: myip, rootip, gateip, smask, serverip, ...
    dxid,       \* d->xid
    dnet,       \* packets in the network
    lease,      \* what each server has given us
    devFails,   \* failures so far
    opens,      \* times the device was opened
    used,       \* history: the xids of earlier calls of bootp()
    reused      \* history: this call has one of them

netVars == <<nkind, nd, ioNetif, par, dxid, dnet, lease, devFails, opens, used, reused>>
xidVars == <<used, reused>>

\* An address or a path: what it is, and the server that gave it.
Addr(kind, s) == <<kind, s>>
NoAddr == Addr("none", "")
Yiaddr(s) == Addr("yiaddr", s)
Siaddr(s) == Addr("siaddr", s)
Dhcp(s) == \E i \in DOMAIN DhcpServers[s] : DhcpServers[s][i] = "msgtype"
NoNd == [sock |-> -1, opens |-> 0, at |-> "idle", tries |-> 0, offer |-> NoAddr, server |-> NoAddr, err |-> FALSE]
NoPar == [myip |-> NoAddr, rootip |-> NoAddr, gateip |-> NoAddr, smask |-> "0", netmask |-> "0", rootpath |-> NoAddr,
          serverip |-> NoAddr, dhcpok |-> FALSE, dmyip |-> NoAddr, rc |-> 0]
-----------------------------------------------------------------------------
(* netif.c *)

FreeSockets == {i \in 0 .. Sockets - 1 : ~ioNetif[i]}

\* netif_open(): the first free socket; probing the interface may fail.
NetifOpen ==
    /\ nd.at = "idle" /\ nd.opens = 0 /\ nd.sock < 0 /\ opens < MaxOpens
    /\ opens' = opens + 1
    /\ \/ /\ FreeSockets # {}
          /\ LET s == CHOOSE i \in FreeSockets : \A j \in FreeSockets : i <= j
             IN /\ nd' = [nd EXCEPT !.sock = s, !.at = "params", !.err = FALSE]
                /\ ioNetif' = [ioNetif EXCEPT ![s] = TRUE]
                /\ dxid' = 0 /\ par' = [par EXCEPT !.dmyip = NoAddr]    \* bzero(), netif_init
          /\ UNCHANGED devFails
       \/ /\ FreeSockets = {} \/ devFails < MaxDevFails
          /\ nd' = [nd EXCEPT !.err = TRUE]
          /\ devFails' = IF FreeSockets = {} THEN devFails ELSE devFails + 1
          /\ UNCHANGED <<ioNetif, dxid, par>>
    /\ UNCHANGED <<nkind, dnet, lease, xidVars>>

\* The device is open already, or the socket was kept: net_open() goes on.
OpenAgain ==
    /\ nd.at = "idle" /\ (nd.opens > 0 \/ nd.sock >= 0) /\ opens < MaxOpens
    /\ opens' = opens + 1
    /\ nd' = IF nd.opens > 0 THEN [nd EXCEPT !.opens = @ + 1, !.err = FALSE] ELSE [nd EXCEPT !.at = "params", !.err = FALSE]
    /\ UNCHANGED <<nkind, ioNetif, par, dxid, dnet, lease, devFails, xidVars>>

-----------------------------------------------------------------------------
(* bootp.c *)

Packet(type, s, tag) == [type |-> type, xid |-> dxid, s |-> s, tag |-> tag]

\* net_open() and pxe_open(): parameters are asked for if rootip is unknown.
NeedParams ==
    /\ nd.at = "params"
    /\ IF par.rootip = NoAddr
       THEN /\ nd' = [nd EXCEPT !.at = "discover", !.tries = 0, !.offer = NoAddr, !.server = NoAddr]
            /\ par' = [par EXCEPT !.dhcpok = FALSE, !.dmyip = NoAddr]
            /\ used' = used \cup {dxid} /\ reused' = (dxid \in used)
       ELSE nd' = [nd EXCEPT !.at = "idle", !.opens = @ + 1] /\ UNCHANGED <<par, xidVars>>
    /\ UNCHANGED <<nkind, ioNetif, dxid, dnet, lease, devFails, opens>>

\* Mutant: the server identifier is filled in when the packet is sent.
RequestToLast == par.serverip[2]

\* The server that the REQUEST names.
RequestTo == nd.server[2]

\* bootpsend(): DISCOVER, or REQUEST for the address and the server chosen.
BootpSend ==
    /\ nd.at \in {"discover", "request"} /\ nd.tries < BootpTries
    /\ nd' = [nd EXCEPT !.tries = @ + 1]
    /\ dnet' = dnet \cup {IF nd.at = "discover" THEN Packet("DISCOVER", "", NoAddr)
                          ELSE Packet("REQUEST", RequestTo, nd.offer)}
    /\ UNCHANGED <<nkind, ioNetif, par, dxid, lease, devFails, opens, xidVars>>

\* One option; after a message type that is not expected the rest is not read.
Option(type, s, p, o) ==
    IF p.rc # 0 THEN p
    ELSE CASE o = "msgtype" ->
                IF (nd.at = "discover" /\ type = "OFFER") \/ (nd.at = "request" /\ type = "ACK")
                THEN [p EXCEPT !.dhcpok = TRUE] ELSE [p EXCEPT !.rc = -1]
           [] o = "serverid" -> [p EXCEPT !.serverip = Siaddr(s)]
           [] o = "gateway" -> [p EXCEPT !.gateip = Addr("gateway", s)]
           [] o = "faraway" -> [p EXCEPT !.gateip = Addr("faraway", s)]
           [] o = "mask" -> [p EXCEPT !.smask = "sub"]
           [] o = "badmask" -> [p EXCEPT !.smask = "bad"]
           [] o = "swapserver" -> [p EXCEPT !.rootip = Addr("root", s)]
           [] o = "rootpath" -> [p EXCEPT !.rootpath = Addr("path", s)]
           [] o = "hostpath" -> [p EXCEPT !.rootpath = Addr("host:path", s)]
           [] OTHER -> p
\* vend_rfc1048(): what is stored stays, even if the packet is refused.
VendRfc1048(type, s) ==
    LET opts == DhcpServers[s]
        p[k \in 0 .. Len(opts)] == IF k = 0 THEN [par EXCEPT !.rc = 0] ELSE Option(type, s, p[k - 1], opts[k])
    IN p[Len(opts)]

\* The end of bootp().
Bound(p, s) ==
    LET mask == IF p.smask = "bad" THEN "0" ELSE p.smask
    IN [p EXCEPT !.myip = Yiaddr(s), !.dmyip = Yiaddr(s), !.smask = mask,
                 !.rootip = IF @ = NoAddr THEN Siaddr(s) ELSE @,
                 !.netmask = IF mask = "0" THEN "class" ELSE mask,
                 !.gateip = IF @[1] = "faraway" THEN NoAddr ELSE @]

\* Mutant: each packet that is refused starts the time-outs again.
RefusedAgain == [nd EXCEPT !.tries = 0]

\* sendrecv() goes on waiting after a packet that is refused.
Refused == nd

\* bootprecv(): a packet with our xid.  The request names the address and the
\* server of the offer; it is built once and sent until it is answered.
BootpRecv(q) ==
    /\ nd.at \in {"discover", "request"} /\ nd.tries > 0
    /\ q.xid = dxid /\ q.type \in {"OFFER", "ACK", "NAK", "BOOTREPLY"}
    /\ \E p \in {VendRfc1048(q.type, q.s)} :
        \/ /\ p.rc # 0 /\ par' = p /\ nd' = Refused /\ UNCHANGED dxid
        \/ /\ p.rc = 0 /\ nd.at = "discover" /\ p.dhcpok
           /\ par' = p /\ nd' = [nd EXCEPT !.at = "request", !.tries = 0, !.offer = Yiaddr(q.s),
                                              !.server = p.serverip] /\ UNCHANGED dxid
        \/ /\ p.rc = 0 /\ ~(nd.at = "discover" /\ p.dhcpok)
           /\ par' = Bound(p, q.s) /\ nd' = [nd EXCEPT !.at = "got", !.offer = Yiaddr(q.s)] /\ dxid' = dxid + 1
    /\ UNCHANGED <<nkind, ioNetif, dnet, lease, devFails, opens, xidVars>>

\* "bootp: no reply", "DHCPREQUEST failed"
BootpTimeout ==
    /\ nd.at \in {"discover", "request"} /\ nd.tries = BootpTries
    /\ nd' = [nd EXCEPT !.at = "got", !.tries = 0]
    /\ UNCHANGED <<nkind, ioNetif, par, dxid, dnet, lease, devFails, opens, xidVars>>

\* The servers, as RFC 2131 has it: an offer is kept until we name a server.
Offer(s) ==
    /\ Packet("DISCOVER", "", NoAddr) \in dnet
    /\ dnet' = dnet \cup {Packet(IF Dhcp(s) THEN "OFFER" ELSE "BOOTREPLY", s, NoAddr)}
    /\ lease' = IF Dhcp(s) THEN lease ELSE [lease EXCEPT ![s] = "bound"]
    /\ UNCHANGED <<nkind, nd, ioNetif, par, dxid, devFails, opens, xidVars>>
Acknowledge(q) ==
    /\ q.type = "REQUEST" /\ q.xid = dxid
    /\ \E s \in Servers :
        /\ Dhcp(s)
        /\ IF q.s = s
           THEN \/ /\ dnet' = dnet \cup {Packet("ACK", s, NoAddr)} /\ lease' = [lease EXCEPT ![s] = "bound"]
                \/ /\ lease[s] # "bound" /\ dnet' = dnet \cup {Packet("NAK", s, NoAddr)} /\ UNCHANGED lease
           ELSE lease' = [lease EXCEPT ![s] = "free"] /\ UNCHANGED dnet
    /\ UNCHANGED <<nkind, nd, ioNetif, par, dxid, devFails, opens, xidVars>>

-----------------------------------------------------------------------------
(* dev_net.c and pxe.c *)

\* net_open() fails: the interface is closed.
GaveUp == [nd EXCEPT !.at = "idle", !.err = TRUE, !.sock = -1]

\* Mutant: netif_close() does not give the socket back.
ShutNot(s) == ioNetif

\* netif_close()
Shut(s) == [ioNetif EXCEPT ![s] = FALSE]

\* A root path "host:path" gives rootip too.
SplitRootpath(p) ==
    IF p.rootpath[1] = "host:path" THEN [p EXCEPT !.rootip = Addr("host", p.rootpath[2]), !.rootpath[1] = "path"] ELSE p

\* After bootp(): net_getparams() is content with any myip, also one of an
\* earlier time; pxe_open() takes what the PXE ROM knows.
AfterBootp ==
    /\ nd.at = "got"
    /\ \/ /\ nkind = "pxe"
          /\ nd' = [nd EXCEPT !.at = "idle", !.opens = @ + 1]
          /\ par' = SplitRootpath([par EXCEPT !.rootip = IF @ = NoAddr THEN Addr("sip", "pxe") ELSE @,
                                              !.rootpath = IF @ = NoAddr THEN Addr("path", "pxe") ELSE @])
       \/ /\ nkind = "net" /\ par.myip # NoAddr
          /\ nd' = [nd EXCEPT !.at = "idle", !.opens = @ + 1] /\ par' = SplitRootpath(par)
       \/ nkind = "net" /\ par.myip = NoAddr /\ nd' = [nd EXCEPT !.at = "rarp"] /\ UNCHANGED par
    /\ UNCHANGED <<nkind, ioNetif, dxid, dnet, lease, devFails, opens, xidVars>>

\* rarp_getipaddress(), bp_whoami(), bp_getfile() of "gateway" and of "root":
\* each a request that is answered or not.
Rarp ==
    /\ nd.at = "rarp"
    /\ \/ /\ par' = [par EXCEPT !.myip = Addr("rarp", ""), !.dmyip = Addr("rarp", ""), !.netmask = "class"]
          /\ nd' = [nd EXCEPT !.at = "whoami"] /\ UNCHANGED ioNetif
       \/ nd' = GaveUp /\ ioNetif' = Shut(nd.sock) /\ UNCHANGED par
    /\ UNCHANGED <<nkind, dxid, dnet, lease, devFails, opens, xidVars>>

BpWhoami ==
    /\ nd.at = "whoami"
    /\ \/ par' = [par EXCEPT !.gateip = NoAddr] /\ nd' = [nd EXCEPT !.at = "getfile"] /\ UNCHANGED ioNetif
       \/ nd' = GaveUp /\ ioNetif' = Shut(nd.sock) /\ UNCHANGED par
    /\ UNCHANGED <<nkind, dxid, dnet, lease, devFails, opens, xidVars>>

BpGetfile ==
    /\ nd.at = "getfile"
    /\ \E gateway \in BOOLEAN, root \in BOOLEAN :
        LET p == IF gateway THEN [par EXCEPT !.gateip = Addr("gateway", "bootparam"), !.netmask = "sub"] ELSE par
        IN IF root
           THEN /\ par' = SplitRootpath([p EXCEPT !.rootip = Addr("root", "bootparam"), !.rootpath = Addr("path", "bootparam")])
                /\ nd' = [nd EXCEPT !.at = "idle", !.opens = @ + 1] /\ UNCHANGED ioNetif
           ELSE par' = p /\ nd' = GaveUp /\ ioNetif' = Shut(nd.sock)
    /\ UNCHANGED <<nkind, dxid, dnet, lease, devFails, opens, xidVars>>

\* The last close gives the socket back.
CloseWith(last) ==
    /\ nd.at = "idle" /\ nd.opens > 0
    /\ nd' = IF nd.opens > 1 THEN [nd EXCEPT !.opens = @ - 1] ELSE [nd EXCEPT !.opens = 0, !.sock = -1]
    /\ ioNetif' = IF nd.opens > 1 THEN ioNetif ELSE Shut(nd.sock)
    /\ par' = IF nd.opens > 1 THEN par ELSE last
    /\ UNCHANGED <<nkind, dxid, dnet, lease, devFails, opens, xidVars>>
\* net_close() and net_cleanup() forget rootip, pxe_close() does not.
net_close == nkind = "net" /\ CloseWith([par EXCEPT !.rootip = NoAddr])
pxe_close == nkind = "pxe" /\ CloseWith(par)

NetDevInit ==
    /\ nkind \in {"net", "pxe"} /\ nd = NoNd /\ ioNetif = [i \in 0 .. Sockets - 1 |-> FALSE] /\ par = NoPar
    /\ dxid = 0 /\ dnet = {} /\ lease = [s \in Servers |-> "free"] /\ devFails = 0 /\ opens = 0 /\ used = {} /\ reused = FALSE

NetDevStep == NeedParams \/ BootpSend \/ BootpTimeout \/ AfterBootp \/ Rarp \/ BpWhoami \/ BpGetfile
NetDevNext == \/ NetifOpen \/ OpenAgain \/ net_close \/ pxe_close \/ NetDevStep
              \/ \E q \in dnet : BootpRecv(q) \/ Acknowledge(q)
              \/ \E s \in Servers : Offer(s)
NetDevSpec == NetDevInit /\ [][NetDevNext]_netVars

-----------------------------------------------------------------------------
(* Properties *)

\* The interface is open exactly while the device has its socket.
SocketsRight == {i \in 0 .. Sockets - 1 : ioNetif[i]} = IF nd.sock < 0 THEN {} ELSE {nd.sock}

\* The address bootp() ends with is one that its server keeps for us, unless
\* the call has the xid of an earlier one: xid goes up only after success and
\* starts again when the interface is opened, so that a late answer to an
\* earlier call may be taken for one to this.
LeaseHeld ==
    \A s \in Servers : nd.at = "got" /\ nd.tries > 0 /\ ~reused /\ par.myip = Yiaddr(s) => lease[s] = "bound"

\* Opening the device comes to an end.
NetDevEnds == (nd.at # "idle") ~> (nd.at = "idle")
=============================================================================
