------------------------------- MODULE MCNet -------------------------------
(***************************************************************************)
(* Booting over the network: hardware addresses, the parameters of the     *)
(* interface and files by NFS, side by side.  A behaviour uses one of them *)
(* (netPart).                                                              *)
(***************************************************************************)
EXTENDS TLC, Arp, Nfs, NetDev

VARIABLE netPart

MCArpHosts == {"a", "b", "c"}

\* A directory with a directory, a link into it and a file; in the second
\* one a relative link and a file.
Nd(type, ents, link, size) == [type |-> type, ents |-> ents, link |-> link, size |-> size]
E(name, node) == [name |-> name, node |-> node]
L(abs, comps) == [abs |-> abs, comps |-> comps]
NoL == L(FALSE, <<>>)
MCNfsTree == <<Nd("dir", <<E("d", 2), E("l", 4), E("f", 3)>>, NoL, 0), Nd("dir", <<E("r", 5), E("f", 6)>>, NoL, 0), Nd("reg", <<>>, NoL, 3),
               Nd("lnk", <<>>, L(TRUE, <<"d", "r">>), 0), Nd("lnk", <<>>, L(FALSE, <<"f">>), 0), Nd("reg", <<>>, NoL, 1)>>
MCNfsPaths == {<<>>, <<"l">>, <<"f">>, <<"f", "x">>, <<"x">>, <<"d">>}

\* A DHCP server, another whose options come in a strange order, one that
\* knows only BOOTP.
MCDhcpServers ==
    "A" :> <<"msgtype", "serverid", "mask", "gateway">> @@
    "B" :> <<"serverid", "faraway", "badmask", "msgtype", "rootpath", "swapserver", "hostpath">> @@
    "C" :> <<"mask">>

mcNetVars == <<netPart, arpVars, nfsVars, netVars>>

MCNetInit ==
    /\ netPart \in {"arp", "nfs", "device"}
    /\ ArpInit /\ NfsInit /\ NetDevInit
    /\ netPart # "device" => nkind = "net"

MCNetNext ==
    /\ \/ netPart = "arp" /\ ArpNext /\ UNCHANGED <<nfsVars, netVars>>
       \/ netPart = "nfs" /\ NfsNext /\ UNCHANGED <<arpVars, netVars>>
       \/ netPart = "device" /\ NetDevNext /\ UNCHANGED <<arpVars, nfsVars>>
    /\ UNCHANGED netPart

NetSpec == MCNetInit /\ [][MCNetNext]_mcNetVars
           /\ WF_mcNetVars(netPart = "nfs" /\ NfsStep /\ UNCHANGED <<netPart, arpVars, netVars>>)
           /\ WF_mcNetVars(netPart = "device" /\ NetDevStep /\ UNCHANGED <<netPart, arpVars, nfsVars>>)

\* An answer belongs to the question: arpwhohas() (arp.c) and the calls of
\* nfs.c through rpc.c take no late, repeated or foreign reply for the one
\* they wait for.
RepliesRight == ArpRight /\ NfsRight

\* nfs_open(), nfs_read() (nfs.c) and the open routines of the network devices
\* (net_getparams(), pxe_open()) return, however few answers come.
NetEnds == NfsEnds /\ NetDevEnds
=============================================================================
