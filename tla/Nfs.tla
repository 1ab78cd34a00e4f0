-------------------------------- MODULE Nfs --------------------------------
(***************************************************************************)
(* Files by NFS: lib/libstand/rpc.c (calls, transaction numbers, the cache *)
(* of ports) and nfs.c (mount, lookup, links, read, readdir).  Replies     *)
(* arrive late, twice or never; sendrecv() sends a call again and gives up *)
(* in the end.  A server's file is a node of NfsTree; byte k of a file is  *)
(* written k.  A call is answered by the program at the port it was sent   *)
(* to, and a reply carries the transaction number of the call.             *)
(***************************************************************************)
EXTENDS Integers, Sequences, SequencesExt, FiniteSetsExt

CONSTANTS
    PMAP_NUM,       \* size of the cache of ports
    NfsReadSize,    \* nfs_read_size
    NfsTree,        \* node -> [type, ents, link, size]; node 1 is the root
    NfsPaths,       \* paths that are opened
    NfsMaxLinks,    \* MAXSYMLINKS
    NfsDirChunk,    \* entries in an answer to READDIR
    NfsMaxRead,     \* bound: bytes asked for
    RpcTries,       \* times sendrecv() sends before it gives up
    MaxXid,         \* bound: calls after which no operation begins
    LastXid         \* bound: calls; only nfs_readdir() can need more

ASSUME NfsAssumption == PMAP_NUM \in Nat \ {0} /\ NfsReadSize \in Nat \ {0} /\ RpcTries \in Nat \ {0} /\ 1 \in DOMAIN NfsTree

VARIABLES
    rpc,        \* the call that is being made
    rpcXid,     \* rpc_xid
    pmap,       \* rpc_pmap_list
    replies,    \* replies in the network
    nop,        \* the operation that makes the call
    nf,         \* struct nfs_iodesc of the open file; node 0 if there is none
    rdir,       \* the static variables of nfs_readdir()
    nres,       \* what the last operation returned
    lst         \* history: what nfs_readdir() has listed

nfsVars == <<rpc, rpcXid, pmap, replies, nop, nf, rdir, nres, lst>>

PmapPort == 111
PortOf(prog) == IF prog = "mount" THEN 1 ELSE 2
NoRpc == [stage |-> "idle", prog |-> "", proc |-> "", node |-> 0, arg |-> 0, n |-> 0, name |-> "", port |-> 0, tries |-> 0]
NoOp == [op |-> "", comps |-> <<>>, cur |-> 0, new |-> 0, nlinks |-> 0, path |-> <<>>, start |-> 0, n |-> 0, left |-> 0, got |-> <<>>]
NoNf == [node |-> 0, off |-> 0]
NoNres == [op |-> "", err |-> "", path |-> <<>>, node |-> 0, start |-> 0, n |-> 0, data |-> <<>>]
NoVal == [status |-> "ok", node |-> 0, comps |-> <<>>, abs |-> FALSE, data |-> <<>>, ents |-> <<>>, eof |-> FALSE, port |-> 0]
NoListing == [node |-> 0, names |-> <<>>, ok |-> FALSE, end |-> FALSE]
Type(i) == NfsTree[i].type

-----------------------------------------------------------------------------
(* rpc.c *)

\* rpc_pmap_getcache()
Cached(prog) == {i \in 1 .. Len(pmap) : pmap[i].prog = prog}
\* rpc_pmap_putcache(): the last entry gives way when the cache is full.
PutCache(prog, port) ==
    LET l == IF Len(pmap) >= PMAP_NUM THEN SubSeq(pmap, 1, PMAP_NUM - 1) ELSE pmap
    IN Append(l, [prog |-> prog, port |-> port])

\* rpc_call() begins.
Call(prog, proc, node, arg, n, name) ==
    rpc' = [NoRpc EXCEPT !.stage = "port", !.prog = prog, !.proc = proc, !.node = node, !.arg = arg, !.n = n, !.name = name]

\* Mutant: the transaction number stays the same.
NextXidSame(x) == IF x = 0 THEN 1 ELSE x
NextXid(x) == x + 1

\* Bound: of the replies that were not received, those to the last call stay.
StillThere(p) == p.xid >= rpcXid

\* rpc_getport(): from the cache, or by a call of the port mapper; -1 is not
\* taken for a port.
GetPort ==
    /\ rpc.stage = "port" /\ rpcXid < LastXid
    /\ rpcXid' = NextXid(rpcXid)
    /\ rpc' = IF Cached(rpc.prog) # {} /\ pmap[Min(Cached(rpc.prog))].port # -1
              THEN [rpc EXCEPT !.stage = "call", !.port = pmap[Min(Cached(rpc.prog))].port]
              ELSE [rpc EXCEPT !.stage = "pmap", !.port = PmapPort]
    /\ replies' = {p \in replies : StillThere(p)}
    /\ UNCHANGED <<pmap, nop, nf, rdir, nres, lst>>

\* What the server answers.
Entries(i, from) == SubSeq(NfsTree[i].ents, from + 1, Min({from + NfsDirChunk, Len(NfsTree[i].ents)}))
Answer(r) ==
    CASE r.stage = "pmap" -> [NoVal EXCEPT !.port = PortOf(r.prog)]
      [] r.proc = "MOUNT" -> [NoVal EXCEPT !.node = 1]
      [] r.proc = "LOOKUP" ->
            LET es == {i \in 1 .. Len(NfsTree[r.node].ents) : NfsTree[r.node].ents[i].name = r.name}
            IN IF es = {} THEN [NoVal EXCEPT !.status = "ENOENT"]
               ELSE [NoVal EXCEPT !.node = NfsTree[r.node].ents[Min(es)].node]
      [] r.proc = "READLINK" -> [NoVal EXCEPT !.comps = NfsTree[r.node].link.comps, !.abs = NfsTree[r.node].link.abs]
      [] r.proc = "READ" -> [NoVal EXCEPT !.data = [k \in 1 .. Max({0, Min({r.n, NfsTree[r.node].size - r.arg})}) |-> r.arg + k - 1]]
      [] OTHER -> [NoVal EXCEPT !.ents = [k \in 1 .. Len(Entries(r.node, r.arg)) |-> [name |-> Entries(r.node, r.arg)[k].name, cookie |-> r.arg + k]],
                                !.eof = r.arg + NfsDirChunk >= Len(NfsTree[r.node].ents)]
Served(r) == r.port = IF r.stage = "pmap" THEN PmapPort ELSE PortOf(r.prog)

Listening(port) == port \in {PmapPort, PortOf("mount"), PortOf("nfs")}

\* sendudp(), and what comes of it: nothing, or a reply now or later.  The
\* server may also reject the call, as one does that is not for its program.
RpcSend ==
    /\ rpc.stage \in {"pmap", "call"} /\ rpc.tries < RpcTries
    /\ rpc' = [rpc EXCEPT !.tries = @ + 1]
    /\ \/ UNCHANGED replies
       \/ Served(rpc) /\ replies' = replies \cup {[xid |-> rpcXid, how |-> "ok", val |-> Answer(rpc)]}
       \/ Listening(rpc.port) /\ replies' = replies \cup {[xid |-> rpcXid, how |-> "denied", val |-> NoVal]}
    /\ UNCHANGED <<rpcXid, pmap, nop, nf, rdir, nres, lst>>

-----------------------------------------------------------------------------
(* nfs.c *)

Idle == nop = NoOp
Done(res) ==
    /\ nres' = res /\ nop' = NoOp /\ rpc' = NoRpc
OpenFails(err) ==
    /\ Done([NoNres EXCEPT !.op = "open", !.err = err, !.path = nop.path]) /\ UNCHANGED <<nf, rdir, lst>>

nfs_lookupfh(node, name) == Call("nfs", "LOOKUP", node, 0, 0, name)
nfs_readlink(node) == Call("nfs", "READLINK", node, 0, 0, "")

\* The loop over the path: what comes after node cur with comps left.
Walk(o) ==
    IF o.comps = <<>>
    THEN /\ Done([NoNres EXCEPT !.op = "open", !.path = o.path, !.node = o.cur])
         /\ nf' = [node |-> o.cur, off |-> 0]
    ELSE IF Type(o.cur) # "dir"
    THEN Done([NoNres EXCEPT !.op = "open", !.path = o.path, !.err = "ENOTDIR"]) /\ UNCHANGED nf
    ELSE /\ nop' = [o EXCEPT !.comps = Tail(@), !.new = 0] /\ nfs_lookupfh(o.cur, Head(o.comps))
         /\ UNCHANGED <<nf, nres>>

nfs_open(path) ==
    /\ Idle /\ nf = NoNf /\ rpcXid < MaxXid
    /\ nop' = [NoOp EXCEPT !.op = "open", !.comps = path, !.path = path]
    /\ Call("mount", "MOUNT", 0, 0, 0, "") /\ nres' = NoNres
    /\ UNCHANGED <<rpcXid, pmap, replies, nf, rdir, lst>>

\* nfs_open() gets an answer: of MOUNT, LOOKUP or READLINK.
OpenGoesOn(v) ==
    /\ UNCHANGED <<rdir, lst>>
    /\ \/ v.status # "ok" /\ Done([NoNres EXCEPT !.op = "open", !.err = v.status, !.path = nop.path]) /\ UNCHANGED nf
       \/ v.status = "ok" /\ rpc.proc = "MOUNT" /\ Walk([nop EXCEPT !.cur = v.node])
       \/ /\ v.status = "ok" /\ rpc.proc = "LOOKUP" /\ Type(v.node) = "lnk"
          /\ nop' = [nop EXCEPT !.new = v.node] /\ nfs_readlink(v.node) /\ UNCHANGED <<nf, nres>>
       \/ v.status = "ok" /\ rpc.proc = "LOOKUP" /\ Type(v.node) # "lnk" /\ Walk([nop EXCEPT !.cur = v.node])
       \/ /\ v.status = "ok" /\ rpc.proc = "READLINK"
          /\ IF nop.nlinks + 1 > NfsMaxLinks
             THEN Done([NoNres EXCEPT !.op = "open", !.err = "ENOENT", !.path = nop.path]) /\ UNCHANGED nf
             ELSE Walk([nop EXCEPT !.comps = v.comps \o @, !.nlinks = @ + 1, !.cur = IF v.abs THEN 1 ELSE @])

\* nfs_readdata() of what is left.
ReadMore(o, off) == nop' = o /\ Call("nfs", "READ", nf.node, off, Min({o.left, NfsReadSize}), "")

nfs_read(n) ==
    /\ Idle /\ nf # NoNf /\ Type(nf.node) = "reg" /\ rpcXid < MaxXid
    /\ ReadMore([NoOp EXCEPT !.op = "read", !.start = nf.off, !.n = n, !.left = n], nf.off) /\ nres' = NoNres
    /\ UNCHANGED <<rpcXid, pmap, replies, nf, rdir, lst>>

ReadGoesOn(v) ==
    LET k == Len(v.data)
        o == [nop EXCEPT !.left = @ - k, !.got = @ \o v.data]
    IN /\ UNCHANGED <<rdir, lst>>
       /\ nf' = [nf EXCEPT !.off = @ + k]
       /\ IF k = 0 \/ o.left = 0
          THEN Done([NoNres EXCEPT !.op = "read", !.node = nf.node, !.start = o.start, !.n = o.n, !.data = o.got])
          ELSE ReadMore(o, nf.off + k) /\ UNCHANGED nres

nfs_seek(t) ==
    /\ Idle /\ nf # NoNf /\ nf' = [nf EXCEPT !.off = t] /\ nres' = NoNres
    /\ UNCHANGED <<rpc, rpcXid, pmap, replies, nop, rdir, lst>>

nfs_close ==
    /\ Idle /\ nf # NoNf /\ nf' = NoNf /\ nres' = NoNres
    /\ UNCHANGED <<rpc, rpcXid, pmap, replies, nop, rdir, lst>>

Refill == Call("nfs", "READDIR", nf.node, rdir.cookie, 0, "")
\* nfs_readdir() at the entry buf points at: it is given, or there is none and
\* eof ends the listing.
DirNext(d, l) ==
    IF d.pos <= Len(d.ents)
    THEN /\ rdir' = [d EXCEPT !.pos = @ + 1, !.cookie = d.ents[d.pos].cookie]
         /\ lst' = [l EXCEPT !.names = Append(@, d.ents[d.pos].name)]
         /\ Done([NoNres EXCEPT !.op = "readdir", !.node = nf.node])
    ELSE IF d.eof
    THEN /\ rdir' = [d EXCEPT !.cookie = 0] /\ lst' = [l EXCEPT !.end = TRUE]
         /\ Done([NoNres EXCEPT !.op = "readdir", !.node = nf.node, !.err = "ENOENT"])
    ELSE rdir' = d /\ lst' = l /\ nop' = [NoOp EXCEPT !.op = "readdir"] /\ Refill /\ UNCHANGED nres

nfs_readdir ==
    /\ Idle /\ nf # NoNf /\ Type(nf.node) = "dir" /\ rpcXid < MaxXid
    /\ LET l == IF rdir.cookie = 0 THEN [NoListing EXCEPT !.node = nf.node, !.ok = TRUE]
                ELSE [lst EXCEPT !.ok = @ /\ lst.node = nf.node]
       IN IF rdir.cookie = 0
          THEN /\ nop' = [NoOp EXCEPT !.op = "readdir"] /\ Refill /\ lst' = l /\ nres' = NoNres
               /\ UNCHANGED rdir
          ELSE DirNext(rdir, l)
    /\ UNCHANGED <<rpcXid, pmap, replies, nf>>

\* The buffer has been filled; a failure of the call is not looked at, and the
\* buffer is read again from its beginning.
DirFilled(d, l) ==
    /\ UNCHANGED nf
    /\ IF d.status # "ok"
       THEN /\ rdir' = d /\ lst' = [l EXCEPT !.ok = FALSE]
            /\ Done([NoNres EXCEPT !.op = "readdir", !.node = nf.node, !.err = "EIO"])
       ELSE DirNext(d, l)

-----------------------------------------------------------------------------
\* recvrpc(): the transaction number tells whether it is our answer.
IsOurs(p) == p.xid = rpcXid

\* rpc_getport() takes the port from its answer, and the call is sent there.
UsePort(port) ==
    /\ pmap' = PutCache(rpc.prog, port) /\ rpcXid' = NextXid(rpcXid)
    /\ rpc' = [rpc EXCEPT !.stage = "call", !.port = port, !.tries = 0]
    /\ replies' = {q \in replies : StillThere(q)}
    /\ UNCHANGED <<nop, nf, rdir, nres, lst>>

\* recvrpc() of our answer, and what rpc_call()'s caller makes of it.
RpcRecv(p) ==
    /\ rpc.tries > 0 /\ IsOurs(p) /\ p.how = "ok"
    /\ IF rpc.stage = "pmap"
       THEN UsePort(p.val.port)
       ELSE /\ UNCHANGED <<pmap, rpcXid, replies>>
            /\ \/ nop.op = "open" /\ OpenGoesOn(p.val)
               \/ nop.op = "read" /\ ReadGoesOn(p.val)
               \/ /\ nop.op = "readdir"
                  /\ DirFilled([rdir EXCEPT !.status = p.val.status, !.ents = p.val.ents, !.eof = p.val.eof, !.pos = 1], lst)

\* The call has failed, and with it the operation.
CallFails ==
    \/ nop.op = "open" /\ OpenFails("EIO")
    \/ /\ nop.op = "read" /\ UNCHANGED <<nf, rdir, lst>>
       /\ Done([NoNres EXCEPT !.op = "read", !.err = "EIO", !.node = nf.node])
    \/ nop.op = "readdir" /\ DirFilled([rdir EXCEPT !.pos = 1], [lst EXCEPT !.ok = FALSE])

\* What rpc_getport() may find in res->port, which nobody has written: the
\* length -1 of a call that failed is not less than sizeof(*res), which has no
\* sign.  A port where no one listens, one that some program has, or -1.
StrayPorts == {-1, 0, PortOf("nfs")}

\* The call is denied, or the last time-out is over.
RpcFails ==
    /\ \/ rpc.tries = RpcTries
       \/ rpc.tries > 0 /\ \E p \in replies : IsOurs(p) /\ p.how = "denied"
    /\ \/ rpc.stage = "call" /\ CallFails /\ UNCHANGED <<rpcXid, pmap, replies>>
       \/ /\ rpc.stage = "pmap" /\ CallFails /\ pmap' = PutCache(rpc.prog, -1)
          /\ UNCHANGED <<rpcXid, replies>>
       \/ rpc.stage = "pmap" /\ \E port \in StrayPorts \ {-1} : UsePort(port)

NfsInit ==
    /\ rpc = NoRpc /\ rpcXid = 0 /\ pmap = <<>> /\ replies = {} /\ nop = NoOp /\ nf = NoNf /\ nres = NoNres
    /\ rdir = [cookie |-> 0, status |-> "ok", ents |-> <<>>, eof |-> FALSE, pos |-> 1] /\ lst = NoListing

NfsStep == GetPort \/ RpcSend \/ RpcFails \/ \E p \in replies : RpcRecv(p)
NfsNext == \/ \E p \in NfsPaths : nfs_open(p)
           \/ \E n \in 1 .. NfsMaxRead : nfs_read(n) \/ nfs_seek(n - 1)
           \/ nfs_close \/ nfs_readdir \/ NfsStep

-----------------------------------------------------------------------------
(* Properties *)

\* The node a path means, following n links at most; 0 if there is none.
NfsEntry(i, name) ==
    LET es == {k \in 1 .. Len(NfsTree[i].ents) : NfsTree[i].ents[k].name = name}
    IN IF Type(i) # "dir" \/ es = {} THEN 0 ELSE NfsTree[i].ents[Min(es)].node
NfsMeans[n \in Nat, i \in Nat, comps \in Seq(STRING)] ==
    IF comps = <<>> THEN i
    ELSE LET e == NfsEntry(i, Head(comps))
         IN IF e = 0 THEN 0
            ELSE IF Type(e) # "lnk" THEN NfsMeans[n, e, Tail(comps)]
            ELSE IF n = 0 THEN 0
            ELSE NfsMeans[n - 1, IF NfsTree[e].link.abs THEN 1 ELSE i, NfsTree[e].link.comps \o Tail(comps)]

\* What nfs_open() and nfs_read() give is what the server's tree holds, through
\* replies to calls that were given up, repeated replies, rejected calls and
\* calls of a port that no port mapper named;
\* and a directory that is read from its beginning to its end, with no other
\* listing or failure in between, shows each entry once.
NfsRight ==
    /\ nres.op = "open" /\ nres.err # "EIO" => nres.node = NfsMeans[NfsMaxLinks, 1, nres.path]
    /\ nres.op = "read" /\ nres.err = ""
        => nres.data = [k \in 1 .. Max({0, Min({nres.n, NfsTree[nres.node].size - nres.start})}) |-> nres.start + k - 1]
    /\ lst.ok /\ lst.end => lst.names = [k \in 1 .. Len(NfsTree[lst.node].ents) |-> NfsTree[lst.node].ents[k].name]

\* Every operation returns, but nfs_readdir() when no call is answered: it
\* asks again for ever.
NfsEnds == (nop # NoOp /\ nop.op # "readdir") ~> (nop = NoOp)
=============================================================================
