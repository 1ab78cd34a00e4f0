---------------------------- MODULE NetDevProofs ----------------------------
(***************************************************************************)
(* Proofs about NetDev, for any servers and options, any number of         *)
(* sockets, tries, failures and opens, and packets that are lost, late or  *)
(* repeated.                                                               *)
(*                                                                         *)
(* LeaseHeld needs three things.  XidsInv: an xid that was not used before *)
(* is higher than every one that was, so that no packet of an earlier call *)
(* has it, nor the one after it.  CallInv: in such a call every REQUEST    *)
(* names the server that was chosen, so no server hears that another one   *)
(* was, and the ACK is from the server whose lease it is.  VendIs: a reply *)
(* with a message type, wherever its option stands, ends the call only if  *)
(* it is the ACK.                                                          *)
(***************************************************************************)
EXTENDS NetDev, SequenceTheorems, WellFoundedInduction, TLAPS

-----------------------------------------------------------------------------
(* The inductive invariants *)

NdFields == {"sock", "opens", "at", "tries", "offer", "server", "err"}
ParFields == {"myip", "rootip", "gateip", "smask", "netmask", "rootpath", "serverip", "dhcpok", "dmyip", "rc"}

\* nd and par are records with these fields; addresses are not looked into.
NetType ==
    /\ DOMAIN nd = NdFields /\ nd.sock \in Int /\ nd.opens \in Nat /\ nd.tries \in Nat
    /\ DOMAIN par = ParFields /\ ioNetif \in [0 .. Sockets - 1 -> BOOLEAN]
    /\ dxid \in Nat /\ used \subseteq Nat /\ reused \in BOOLEAN
    /\ lease \in [Servers -> {"free", "bound"}]

\* The socket is one of the table's, and an open is under way or done only with
\* a socket.
SocketInv ==
    /\ nd.sock \in -1 .. Sockets - 1 /\ SocketsRight
    /\ nd.sock < 0 => nd.at = "idle"
    /\ nd.at # "idle" \/ nd.sock < 0 => nd.opens = 0

Calling == nd.at \in {"discover", "request"}

\* The xids of the calls so far are those up to the highest one; dxid is one of
\* them or the next.
XidsInv ==
    /\ \A x \in used, y \in Nat : y < x => y \in used
    /\ \A y \in Nat : y < dxid => y \in used
    /\ \A q \in dnet : q.xid \in used
    /\ Calling => dxid \in used

\* Who sends what.
SendersInv ==
    \A q \in dnet :
        /\ q.type = "BOOTREPLY" => q.s \in Servers /\ ~Dhcp(q.s) /\ lease[q.s] = "bound"
        /\ q.type \in {"OFFER", "ACK", "NAK"} => q.s \in Servers /\ Dhcp(q.s)

\* In a call that has an xid of its own every REQUEST names the server chosen,
\* and an ACK is that server's, whose lease stays.
CallInv ==
    ~reused =>
        /\ Calling => \A x \in used : x <= dxid
        /\ nd.at = "discover" => \A q \in dnet : q.xid = dxid => q.type \notin {"REQUEST", "ACK"}
        /\ nd.at = "request" => \A q \in dnet : q.xid = dxid =>
              /\ q.type = "REQUEST" => q.s = nd.server[2]
              /\ q.type = "ACK" => q.s = nd.server[2] /\ lease[q.s] = "bound"
        /\ nd.at = "got" /\ nd.tries > 0 => \A x \in used : x < dxid

LeaseInv == XidsInv /\ SendersInv /\ CallInv /\ LeaseHeld

-----------------------------------------------------------------------------
(* Lemmas about the operators *)

\* A set of natural numbers that is not empty has a least element.
LEMMA LeastOf ==
    ASSUME NEW S, S \subseteq Nat, S # {}
    PROVE  \E x \in S : \A y \in S : x <= y
<1> DEFINE R == OpToRel(<, Nat)
<1>1. IsWellFoundedOn(R, Nat)
  BY NatLessThanWellFounded
<1>2. \A x, y \in S : <<y, x>> \in R <=> y < x
  BY DEF OpToRel
<1> HIDE DEF R
<1>3. PICK x \in S : \A y \in S : ~(<<y, x>> \in R)
  BY <1>1, WFMin
<1>4. ASSUME NEW y \in S PROVE x <= y
  <2>1. ~(y < x) /\ x \in Nat /\ y \in Nat
    BY <1>2, <1>3
  <2> QED BY <2>1
<1> QED BY <1>4

\* The message type that the step of the call waits for.
Awaited(type) == (nd.at = "discover" /\ type = "OFFER") \/ (nd.at = "request" /\ type = "ACK")

\* Only the message type sets dhcpok or has the packet refused, and after that
\* nothing is read.
OptionDone(type, p, o, r) ==
    /\ DOMAIN r = ParFields
    /\ p.rc # 0 => r = p
    /\ p.rc = 0 /\ o = "msgtype" => r.rc # 0 \/ (r.dhcpok /\ Awaited(type))
    /\ o # "msgtype" => r.rc = p.rc /\ r.dhcpok = p.dhcpok
LEMMA OptionIs ==
    ASSUME NEW type, NEW s, NEW p, DOMAIN p = ParFields, NEW o
    PROVE  OptionDone(type, p, o, Option(type, s, p, o))
<1> DEFINE r == Option(type, s, p, o)
<1> SUFFICES /\ DOMAIN r = ParFields
             /\ p.rc # 0 => r = p
             /\ p.rc = 0 /\ o = "msgtype" => r.rc # 0 \/ (r.dhcpok /\ Awaited(type))
             /\ o # "msgtype" => r.rc = p.rc /\ r.dhcpok = p.dhcpok
  BY DEF OptionDone
<1>1. CASE p.rc # 0
  BY <1>1 DEF Option
<1>2. CASE p.rc = 0 /\ o = "msgtype"
  <2>1. CASE Awaited(type)
    <3>1. r = [p EXCEPT !.dhcpok = TRUE]
      BY <1>2, <2>1 DEF Option, Awaited
    <3> QED BY <1>2, <2>1, <3>1 DEF ParFields
  <2>2. CASE ~Awaited(type)
    <3>1. r = [p EXCEPT !.rc = -1]
      BY <1>2, <2>2 DEF Option, Awaited
    <3> QED BY <1>2, <3>1 DEF ParFields
  <2> QED BY <2>1, <2>2
<1>3. CASE p.rc = 0 /\ o # "msgtype"
  <2>1. r = p \/ \E a : r \in {[p EXCEPT !.serverip = a], [p EXCEPT !.gateip = a], [p EXCEPT !.rootip = a],
                             [p EXCEPT !.rootpath = a], [p EXCEPT !.smask = a]}
    BY <1>3, Zenon DEF Option
  <2> QED BY <1>3, <2>1 DEF ParFields
<1> QED BY <1>1, <1>2, <1>3

\* The parameters that vend_rfc1048() goes through are g[0], g[1], ..., g[n].
Chain(type, s, n, g) ==
    g = [k \in 0 .. n |-> IF k = 0 THEN [par EXCEPT !.rc = 0] ELSE Option(type, s, g[k - 1], DhcpServers[s][k])]

\* VendRfc1048() is the last of them.
LEMMA ChainIs ==
    ASSUME NEW type, NEW s
    PROVE  VendRfc1048(type, s) = (CHOOSE g : Chain(type, s, Len(DhcpServers[s]), g))[Len(DhcpServers[s])]
BY DEF VendRfc1048, Chain

\* They exist: the least n without them would have them.
LEMMA ChainExists ==
    ASSUME NEW type, NEW s, NEW n \in Nat
    PROVE  \E g : Chain(type, s, n, g)
<1> DEFINE Bad == {i \in Nat : ~\E g : Chain(type, s, i, g)}
           c == [par EXCEPT !.rc = 0]
           After(p, k) == Option(type, s, p, DhcpServers[s][k])
<1> SUFFICES ASSUME Bad # {} PROVE FALSE
  OBVIOUS
<1>1. PICK i \in Bad : \A j \in Bad : i <= j
  BY LeastOf
<1>0. \A g, m : Chain(type, s, m, g) <=> g = [k \in 0 .. m |-> IF k = 0 THEN c ELSE After(g[k - 1], k)]
  BY DEF Chain
<1> HIDE DEF c, After
<1>2. i # 0
  <2>1. [k \in 0 .. 0 |-> c] = [k \in 0 .. 0 |-> IF k = 0 THEN c ELSE After([j \in 0 .. 0 |-> c][k - 1], k)]
    OBVIOUS
  <2>2. Chain(type, s, 0, [k \in 0 .. 0 |-> c])
    BY <1>0, <2>1
  <2> QED BY <2>2
<1>3. i - 1 \in Nat /\ i - 1 \notin Bad
  BY <1>1, <1>2
<1>4. PICK g : Chain(type, s, i - 1, g)
  BY <1>3
<1>9. g = [k \in 0 .. i - 1 |-> IF k = 0 THEN c ELSE After(g[k - 1], k)]
  BY <1>0, <1>4
<1> DEFINE h == [k \in 0 .. i |-> IF k = i THEN After(g[i - 1], i) ELSE g[k]]
<1>5. ASSUME NEW k \in 0 .. i
      PROVE  h[k] = IF k = 0 THEN c ELSE After(h[k - 1], k)
  <2>1. CASE k = i
    <3>1. h[k] = After(g[i - 1], i) /\ h[i - 1] = g[i - 1]
      BY <1>2, <1>3, <2>1
    <3> HIDE DEF h
    <3> QED BY <1>2, <2>1, <3>1
  <2>2. CASE k # i
    <3>1. k \in 0 .. i - 1 /\ h[k] = g[k] /\ (k # 0 => h[k - 1] = g[k - 1])
      BY <1>3, <2>2
    <3>2. g[k] = IF k = 0 THEN c ELSE After(g[k - 1], k)
      BY <1>9, <3>1, Zenon
    <3> HIDE DEF h
    <3> QED BY <3>1, <3>2
  <2> QED BY <2>1, <2>2
<1>6. h = [k \in 0 .. i |-> IF k = 0 THEN c ELSE After(h[k - 1], k)]
  <2>1. h = [k \in 0 .. i |-> h[k]]
    OBVIOUS
  <2> HIDE DEF h
  <2> QED BY <1>5, <2>1
<1> HIDE DEF h
<1>7. Chain(type, s, i, h)
  BY <1>0, <1>6
<1> QED BY <1>7

\* What vend_rfc1048() makes of a packet: one with a message type anywhere in it
\* is refused, or has the type that was awaited.
LEMMA VendIs ==
    ASSUME DOMAIN par = ParFields, NEW type, NEW s \in Servers, NEW p, p = VendRfc1048(type, s)
    PROVE  /\ DOMAIN p = ParFields
           /\ Dhcp(s) => p.rc # 0 \/ (p.dhcpok /\ Awaited(type))
<1> DEFINE opts == DhcpServers[s]
           n == Len(opts)
           g == CHOOSE f : Chain(type, s, n, f)
           Read(k) == \E i \in 1 .. k : opts[i] = "msgtype"
           Good(r, k) == DOMAIN r = ParFields /\ (Read(k) => r.rc # 0 \/ (r.dhcpok /\ Awaited(type)))
<1>1. opts \in Seq(STRING) /\ n \in Nat /\ DOMAIN opts = 1 .. n
  BY NetDevAssumption DEF Servers
<1>2. Chain(type, s, n, g)
  BY <1>1, ChainExists, Zenon
<1>3. p = g[n]
  BY ChainIs, Zenon
<1>4. g[0] = [par EXCEPT !.rc = 0] /\ \A k \in 1 .. n : g[k] = Option(type, s, g[k - 1], opts[k])
  <2> HIDE DEF g, n
  <2> DEFINE E(k) == IF k = 0 THEN [par EXCEPT !.rc = 0] ELSE Option(type, s, g[k - 1], opts[k])
  <2>1. g = [k \in 0 .. n |-> E(k)]
    BY <1>2, Zenon DEF Chain
  <2> HIDE DEF E
  <2>2. ASSUME NEW k \in 0 .. n PROVE g[k] = E(k)
    BY <2>1, Zenon
  <2>3. \A k \in 1 .. n : k \in 0 .. n /\ k # 0
    OBVIOUS
  <2>4. 0 \in 0 .. n
    BY <1>1
  <2> QED BY <2>2, <2>3, <2>4, Zenon DEF E
<1> HIDE DEF g, n, opts
<1>5. \A k \in 0 .. n : Good(g[k], k)
  <2> DEFINE Bad == {k \in 0 .. n : ~Good(g[k], k)}
  <2> HIDE DEF Good
  <2> SUFFICES ASSUME Bad # {} PROVE FALSE
    OBVIOUS
  <2>0. Bad \subseteq Nat
    BY <1>1
  <2>1. PICK k \in Bad : \A j \in Bad : k <= j
    <3> HIDE DEF Bad
    <3> QED BY <2>0, LeastOf
  <2>2. k # 0
    <3>1. DOMAIN g[0] = ParFields
      BY <1>4
    <3>2. Good(g[0], 0)
      BY <3>1 DEF Good
    <3> QED BY <2>1, <3>2
  <2>3. k - 1 \in 0 .. n /\ k \in 1 .. n /\ k - 1 \notin Bad
    BY <1>1, <2>1, <2>2
  <2> DEFINE a == g[k - 1]
             r == g[k]
  <2>4. Good(a, k - 1)
    BY <2>3
  <2>5. r = Option(type, s, a, opts[k])
    BY <1>4, <2>3
  <2>6. DOMAIN a = ParFields
    BY <2>4 DEF Good
  <2> HIDE DEF a, r
  <2>7. OptionDone(type, a, opts[k], r)
    BY <2>5, <2>6, OptionIs
  <2>8. Read(k) => Read(k - 1) \/ opts[k] = "msgtype"
    BY <2>3
  <2>9. Good(r, k)
    BY <2>4, <2>7, <2>8 DEF Good, OptionDone
  <2> QED BY <2>1, <2>9 DEF r
<1>6. Good(g[n], n)
  BY <1>1, <1>5
<1>7. Dhcp(s) => Read(n)
  BY <1>1 DEF Dhcp, opts
<1> QED BY <1>3, <1>6, <1>7

-----------------------------------------------------------------------------
(* Types *)

\* At first nothing is open.
LEMMA TypeInit == NetDevInit => NetType
<1> SUFFICES ASSUME NetDevInit PROVE NetType
  OBVIOUS
<1>1. DOMAIN nd = NdFields /\ nd.sock \in Int /\ nd.opens \in Nat /\ nd.tries \in Nat
  BY DEF NetDevInit, NoNd, NdFields
<1>2. DOMAIN par = ParFields
  BY DEF NetDevInit, NoPar, ParFields
<1>3. lease \in [Servers -> {"free", "bound"}]
  BY DEF NetDevInit
<1>4. ioNetif \in [0 .. Sockets - 1 -> BOOLEAN] /\ dxid \in Nat /\ used \subseteq Nat /\ reused \in BOOLEAN
  BY DEF NetDevInit
<1> QED BY <1>1, <1>2, <1>3, <1>4 DEF NetType

\* The first free socket.
FirstFree == CHOOSE i \in FreeSockets : \A j \in FreeSockets : i <= j
LEMMA FreeSocket ==
    ASSUME FreeSockets # {}
    PROVE  FirstFree \in 0 .. Sockets - 1 /\ ~ioNetif[FirstFree]
<1>1. FreeSockets \subseteq Nat
  BY DEF FreeSockets
<1>2. \E i \in FreeSockets : \A j \in FreeSockets : i <= j
  BY <1>1, LeastOf
<1>3. FirstFree \in FreeSockets
  BY <1>2, Zenon DEF FirstFree
<1> QED BY <1>3 DEF FreeSockets

\* The end of bootp() and the split root path are parameters again.
LEMMA ParDomains ==
    ASSUME NEW p, DOMAIN p = ParFields
    PROVE  /\ \A s : DOMAIN Bound(p, s) = ParFields /\ Bound(p, s).myip = Yiaddr(s)
           /\ DOMAIN SplitRootpath(p) = ParFields
<1>1. ASSUME NEW s PROVE DOMAIN Bound(p, s) = ParFields /\ Bound(p, s).myip = Yiaddr(s)
  BY DEF Bound, ParFields
<1>2. DOMAIN SplitRootpath(p) = ParFields
  BY DEF SplitRootpath, ParFields
<1> QED BY <1>1, <1>2

\* The fields of nd that matter below.
NdIs(m, sock, cnt, at, tries, server) ==
    /\ DOMAIN m = NdFields
    /\ m.sock = sock /\ m.opens = cnt /\ m.at = at /\ m.tries = tries /\ m.server = server

\* What the actions make of them.
LEMMA NdUpdates ==
    ASSUME NEW n, DOMAIN n = NdFields
    PROVE  /\ NdIs(n, n.sock, n.opens, n.at, n.tries, n.server)
           /\ NdIs([n EXCEPT !.err = TRUE], n.sock, n.opens, n.at, n.tries, n.server)
           /\ NdIs([n EXCEPT !.opens = @ + 1, !.err = FALSE], n.sock, n.opens + 1, n.at, n.tries, n.server)
           /\ NdIs([n EXCEPT !.at = "params", !.err = FALSE], n.sock, n.opens, "params", n.tries, n.server)
           /\ NdIs([n EXCEPT !.at = "idle", !.opens = @ + 1], n.sock, n.opens + 1, "idle", n.tries, n.server)
           /\ NdIs([n EXCEPT !.tries = @ + 1], n.sock, n.opens, n.at, n.tries + 1, n.server)
           /\ NdIs([n EXCEPT !.at = "got", !.tries = 0], n.sock, n.opens, "got", 0, n.server)
           /\ NdIs([n EXCEPT !.at = "idle", !.err = TRUE, !.sock = -1], -1, n.opens, "idle", n.tries, n.server)
           /\ NdIs([n EXCEPT !.opens = @ - 1], n.sock, n.opens - 1, n.at, n.tries, n.server)
           /\ NdIs([n EXCEPT !.opens = 0, !.sock = -1], -1, 0, n.at, n.tries, n.server)
           /\ \A a : NdIs([n EXCEPT !.at = a], n.sock, n.opens, a, n.tries, n.server)
<1>1. /\ NdIs(n, n.sock, n.opens, n.at, n.tries, n.server)
      /\ NdIs([n EXCEPT !.err = TRUE], n.sock, n.opens, n.at, n.tries, n.server)
  BY DEF NdIs, NdFields
<1>2. NdIs([n EXCEPT !.opens = @ + 1, !.err = FALSE], n.sock, n.opens + 1, n.at, n.tries, n.server)
  BY DEF NdIs, NdFields
<1>3. NdIs([n EXCEPT !.at = "params", !.err = FALSE], n.sock, n.opens, "params", n.tries, n.server)
  BY DEF NdIs, NdFields
<1>4. NdIs([n EXCEPT !.at = "idle", !.opens = @ + 1], n.sock, n.opens + 1, "idle", n.tries, n.server)
  BY DEF NdIs, NdFields
<1>5. NdIs([n EXCEPT !.tries = @ + 1], n.sock, n.opens, n.at, n.tries + 1, n.server)
  BY DEF NdIs, NdFields
<1>6. NdIs([n EXCEPT !.at = "got", !.tries = 0], n.sock, n.opens, "got", 0, n.server)
  BY DEF NdIs, NdFields
<1>7. NdIs([n EXCEPT !.at = "idle", !.err = TRUE, !.sock = -1], -1, n.opens, "idle", n.tries, n.server)
  BY DEF NdIs, NdFields
<1>8. /\ NdIs([n EXCEPT !.opens = @ - 1], n.sock, n.opens - 1, n.at, n.tries, n.server)
      /\ NdIs([n EXCEPT !.opens = 0, !.sock = -1], -1, 0, n.at, n.tries, n.server)
  BY DEF NdIs, NdFields
<1>9. \A a : NdIs([n EXCEPT !.at = a], n.sock, n.opens, a, n.tries, n.server)
  BY DEF NdIs, NdFields
<1> QED BY <1>1, <1>2, <1>3, <1>4, <1>5, <1>6, <1>7, <1>8, <1>9

\* nd after a step.
LEMMA NdAfter ==
    ASSUME NetType
    PROVE  /\ NetifOpen =>
                \/ NdIs(nd', nd.sock, nd.opens, nd.at, nd.tries, nd.server) /\ UNCHANGED <<ioNetif, dxid, par>>
                \/ /\ FreeSockets # {} /\ NdIs(nd', FirstFree, nd.opens, "params", nd.tries, nd.server)
                   /\ ioNetif' = [ioNetif EXCEPT ![FirstFree] = TRUE]
                   /\ dxid' = 0 /\ par' = [par EXCEPT !.dmyip = NoAddr]
           /\ OpenAgain => IF nd.opens > 0 THEN NdIs(nd', nd.sock, nd.opens + 1, nd.at, nd.tries, nd.server)
                           ELSE NdIs(nd', nd.sock, nd.opens, "params", nd.tries, nd.server)
           /\ NeedParams => IF par.rootip = NoAddr THEN NdIs(nd', nd.sock, nd.opens, "discover", 0, NoAddr)
                            ELSE NdIs(nd', nd.sock, nd.opens + 1, "idle", nd.tries, nd.server)
           /\ BootpSend => NdIs(nd', nd.sock, nd.opens, nd.at, nd.tries + 1, nd.server)
           /\ BootpTimeout => NdIs(nd', nd.sock, nd.opens, "got", 0, nd.server)
           /\ AfterBootp => \/ NdIs(nd', nd.sock, nd.opens + 1, "idle", nd.tries, nd.server)
                            \/ NdIs(nd', nd.sock, nd.opens, "rarp", nd.tries, nd.server)
           /\ Rarp \/ BpWhoami \/ BpGetfile =>
                \/ NdIs(nd', -1, nd.opens, "idle", nd.tries, nd.server) /\ ioNetif' = Shut(nd.sock)
                \/ NdIs(nd', nd.sock, nd.opens, "whoami", nd.tries, nd.server) /\ UNCHANGED ioNetif
                \/ NdIs(nd', nd.sock, nd.opens, "getfile", nd.tries, nd.server) /\ UNCHANGED ioNetif
                \/ NdIs(nd', nd.sock, nd.opens + 1, "idle", nd.tries, nd.server) /\ UNCHANGED ioNetif
           /\ \A last : CloseWith(last) =>
                IF nd.opens > 1 THEN NdIs(nd', nd.sock, nd.opens - 1, nd.at, nd.tries, nd.server) /\ UNCHANGED ioNetif
                ELSE NdIs(nd', -1, 0, nd.at, nd.tries, nd.server) /\ ioNetif' = Shut(nd.sock)
<1>0. DOMAIN nd = NdFields
  BY DEF NetType
<1>1. ASSUME NetifOpen
      PROVE  \/ NdIs(nd', nd.sock, nd.opens, nd.at, nd.tries, nd.server) /\ UNCHANGED <<ioNetif, dxid, par>>
             \/ /\ FreeSockets # {} /\ NdIs(nd', FirstFree, nd.opens, "params", nd.tries, nd.server)
                /\ ioNetif' = [ioNetif EXCEPT ![FirstFree] = TRUE]
                /\ dxid' = 0 /\ par' = [par EXCEPT !.dmyip = NoAddr]
  <2>1. \/ nd' = [nd EXCEPT !.err = TRUE] /\ UNCHANGED <<ioNetif, dxid, par>>
        \/ /\ FreeSockets # {} /\ nd' = [nd EXCEPT !.sock = FirstFree, !.at = "params", !.err = FALSE]
           /\ ioNetif' = [ioNetif EXCEPT ![FirstFree] = TRUE]
           /\ dxid' = 0 /\ par' = [par EXCEPT !.dmyip = NoAddr]
    BY <1>1, Zenon DEF NetifOpen, FirstFree
  <2>2. NdIs([nd EXCEPT !.err = TRUE], nd.sock, nd.opens, nd.at, nd.tries, nd.server)
    BY <1>0, NdUpdates, Zenon
  <2>3. NdIs([nd EXCEPT !.sock = FirstFree, !.at = "params", !.err = FALSE], FirstFree, nd.opens, "params", nd.tries, nd.server)
    BY <1>0 DEF NdIs, NdFields
  <2> QED BY <2>1, <2>2, <2>3, Zenon
<1>2. OpenAgain => IF nd.opens > 0 THEN NdIs(nd', nd.sock, nd.opens + 1, nd.at, nd.tries, nd.server)
                   ELSE NdIs(nd', nd.sock, nd.opens, "params", nd.tries, nd.server)
  BY <1>0, NdUpdates, Zenon DEF OpenAgain
<1>3. NeedParams => IF par.rootip = NoAddr THEN NdIs(nd', nd.sock, nd.opens, "discover", 0, NoAddr)
                    ELSE NdIs(nd', nd.sock, nd.opens + 1, "idle", nd.tries, nd.server)
  <2>1. NdIs([nd EXCEPT !.at = "discover", !.tries = 0, !.offer = NoAddr, !.server = NoAddr], nd.sock, nd.opens, "discover", 0, NoAddr)
    BY <1>0 DEF NdIs, NdFields
  <2>2. NdIs([nd EXCEPT !.at = "idle", !.opens = @ + 1], nd.sock, nd.opens + 1, "idle", nd.tries, nd.server)
    BY <1>0, NdUpdates, Zenon
  <2> QED BY <2>1, <2>2, Zenon DEF NeedParams
<1>4. BootpSend => NdIs(nd', nd.sock, nd.opens, nd.at, nd.tries + 1, nd.server)
  BY <1>0, NdUpdates, Zenon DEF BootpSend
<1>5. BootpTimeout => NdIs(nd', nd.sock, nd.opens, "got", 0, nd.server)
  BY <1>0, NdUpdates, Zenon DEF BootpTimeout
<1>6. AfterBootp => \/ NdIs(nd', nd.sock, nd.opens + 1, "idle", nd.tries, nd.server)
                    \/ NdIs(nd', nd.sock, nd.opens, "rarp", nd.tries, nd.server)
  BY <1>0, NdUpdates, Zenon DEF AfterBootp
<1>7. ASSUME Rarp \/ BpWhoami \/ BpGetfile
      PROVE  \/ NdIs(nd', -1, nd.opens, "idle", nd.tries, nd.server) /\ ioNetif' = Shut(nd.sock)
             \/ NdIs(nd', nd.sock, nd.opens, "whoami", nd.tries, nd.server) /\ UNCHANGED ioNetif
             \/ NdIs(nd', nd.sock, nd.opens, "getfile", nd.tries, nd.server) /\ UNCHANGED ioNetif
             \/ NdIs(nd', nd.sock, nd.opens + 1, "idle", nd.tries, nd.server) /\ UNCHANGED ioNetif
  <2>1. \/ nd' = GaveUp /\ ioNetif' = Shut(nd.sock)
        \/ nd' = [nd EXCEPT !.at = "whoami"] /\ UNCHANGED ioNetif
        \/ nd' = [nd EXCEPT !.at = "getfile"] /\ UNCHANGED ioNetif
        \/ nd' = [nd EXCEPT !.at = "idle", !.opens = @ + 1] /\ UNCHANGED ioNetif
    BY <1>7, Zenon DEF Rarp, BpWhoami, BpGetfile
  <2>2. NdIs(GaveUp, -1, nd.opens, "idle", nd.tries, nd.server)
    BY <1>0 DEF GaveUp, NdIs, NdFields
  <2>3. /\ NdIs([nd EXCEPT !.at = "whoami"], nd.sock, nd.opens, "whoami", nd.tries, nd.server)
        /\ NdIs([nd EXCEPT !.at = "getfile"], nd.sock, nd.opens, "getfile", nd.tries, nd.server)
        /\ NdIs([nd EXCEPT !.at = "idle", !.opens = @ + 1], nd.sock, nd.opens + 1, "idle", nd.tries, nd.server)
    BY <1>0, NdUpdates, Zenon
  <2> QED BY <2>1, <2>2, <2>3, Zenon
<1>8. ASSUME NEW last, CloseWith(last)
      PROVE  IF nd.opens > 1 THEN NdIs(nd', nd.sock, nd.opens - 1, nd.at, nd.tries, nd.server) /\ UNCHANGED ioNetif
             ELSE NdIs(nd', -1, 0, nd.at, nd.tries, nd.server) /\ ioNetif' = Shut(nd.sock)
  <2>1. NdIs([nd EXCEPT !.opens = 0, !.sock = -1], -1, 0, nd.at, nd.tries, nd.server)
    BY <1>0, NdUpdates
  <2>2. NdIs([nd EXCEPT !.opens = @ - 1], nd.sock, nd.opens - 1, nd.at, nd.tries, nd.server)
    BY <1>0, NdUpdates, Zenon
  <2> QED BY <1>8, <2>1, <2>2, Zenon DEF CloseWith
<1> QED BY <1>1, <1>2, <1>3, <1>4, <1>5, <1>6, <1>7, <1>8, Zenon

\* The parts of NetType, so that each step names only those it changes.
NdType(n) == DOMAIN n = NdFields /\ n.sock \in Int /\ n.opens \in Nat /\ n.tries \in Nat
RestType ==
    /\ ioNetif \in [0 .. Sockets - 1 -> BOOLEAN] /\ dxid \in Nat /\ used \subseteq Nat /\ reused \in BOOLEAN
    /\ lease \in [Servers -> {"free", "bound"}]
LEMMA TypeParts == NetType <=> NdType(nd) /\ DOMAIN par = ParFields /\ RestType
BY DEF NetType, NdType, RestType

\* bootprecv() goes on waiting, goes on to the request, or ends: with the answer
\* of a BOOTP server or with the ACK it waited for.
LEMMA RecvIs ==
    ASSUME NetType, SendersInv, NEW q \in dnet, BootpRecv(q)
    PROVE  /\ q.s \in Servers /\ DOMAIN par' = ParFields
           /\ \/ NdIs(nd', nd.sock, nd.opens, nd.at, nd.tries, nd.server) /\ dxid' = dxid
              \/ (\E v : NdIs(nd', nd.sock, nd.opens, "request", 0, v)) /\ dxid' = dxid /\ nd.at = "discover"
              \/ /\ NdIs(nd', nd.sock, nd.opens, "got", nd.tries, nd.server)
                 /\ dxid' = dxid + 1 /\ par'.myip = Yiaddr(q.s)
                 /\ q.type = "BOOTREPLY" \/ (nd.at = "request" /\ q.type = "ACK")
<1> DEFINE p == VendRfc1048(q.type, q.s)
           start == [nd EXCEPT !.at = "request", !.tries = 0, !.offer = Yiaddr(q.s), !.server = p.serverip]
           end == [nd EXCEPT !.at = "got", !.offer = Yiaddr(q.s)]
<1>1. q.s \in Servers /\ q.xid = dxid
  BY DEF BootpRecv, SendersInv
<1>0. DOMAIN nd = NdFields /\ DOMAIN par = ParFields
  BY DEF NetType
<1>2. DOMAIN p = ParFields /\ (Dhcp(q.s) => p.rc # 0 \/ (p.dhcpok /\ Awaited(q.type)))
  BY <1>0, <1>1, VendIs
<1>3. \/ par' = p /\ nd' = nd /\ UNCHANGED dxid
      \/ par' = p /\ nd' = start /\ UNCHANGED dxid /\ nd.at = "discover"
      \/ /\ p.rc = 0 /\ ~(nd.at = "discover" /\ p.dhcpok)
         /\ par' = Bound(p, q.s) /\ nd' = end /\ dxid' = dxid + 1
  BY Zenon DEF BootpRecv, Refused
<1> HIDE DEF p
<1>4. DOMAIN Bound(p, q.s) = ParFields /\ Bound(p, q.s).myip = Yiaddr(q.s)
  BY <1>2, ParDomains
<1>5. CASE par' = p /\ nd' = nd /\ UNCHANGED dxid
  <2>1. NdIs(nd, nd.sock, nd.opens, nd.at, nd.tries, nd.server)
    BY <1>0, NdUpdates, Zenon
  <2> QED BY <1>1, <1>2, <1>5, <2>1, Zenon
<1>6. CASE par' = p /\ nd' = start /\ UNCHANGED dxid /\ nd.at = "discover"
  <2>1. NdIs(start, nd.sock, nd.opens, "request", 0, p.serverip)
    BY <1>0 DEF NdIs, NdFields
  <2> HIDE DEF start
  <2> QED BY <1>1, <1>2, <1>6, <2>1, Zenon
<1>7. CASE /\ p.rc = 0 /\ ~(nd.at = "discover" /\ p.dhcpok)
           /\ par' = Bound(p, q.s) /\ nd' = end /\ dxid' = dxid + 1
  <2>1. NdIs(end, nd.sock, nd.opens, "got", nd.tries, nd.server)
    BY <1>0 DEF NdIs, NdFields
  <2>2. Dhcp(q.s) => nd.at = "request" /\ q.type = "ACK"
    BY <1>2, <1>7 DEF Awaited
  <2>3. ~Dhcp(q.s) => q.type = "BOOTREPLY"
    BY DEF BootpRecv, SendersInv
  <2> HIDE DEF end
  <2> QED BY <1>1, <1>4, <1>7, <2>1, <2>2, <2>3, Zenon
<1> QED BY <1>3, <1>5, <1>6, <1>7, Zenon

\* Every step keeps the types.
LEMMA TypeStep == NetType /\ SocketInv /\ SendersInv /\ [NetDevNext]_netVars => NetType'
<1> SUFFICES ASSUME NetType, SocketInv, SendersInv, [NetDevNext]_netVars PROVE NetType'
  OBVIOUS
<1>0. NdType(nd) /\ DOMAIN par = ParFields /\ RestType
  BY TypeParts
<1> SUFFICES NdType(nd') /\ DOMAIN par' = ParFields /\ RestType'
  BY DEF NetType, NdType, RestType
<1>1. CASE NetifOpen
  <2>0. UNCHANGED <<lease, used, reused>>
    BY <1>1 DEF NetifOpen, xidVars
  <2>1. CASE NdIs(nd', nd.sock, nd.opens, nd.at, nd.tries, nd.server) /\ UNCHANGED <<ioNetif, dxid, par>>
    BY <1>0, <2>0, <2>1 DEF NdIs, NdType, RestType
  <2>2. CASE /\ FreeSockets # {} /\ NdIs(nd', FirstFree, nd.opens, "params", nd.tries, nd.server)
             /\ ioNetif' = [ioNetif EXCEPT ![FirstFree] = TRUE]
             /\ dxid' = 0 /\ par' = [par EXCEPT !.dmyip = NoAddr]
    <3>1. FirstFree \in 0 .. Sockets - 1
      BY <2>2, FreeSocket
    <3>2. NdType(nd')
      BY <1>0, <2>2, <3>1 DEF NdIs, NdType
    <3>3. DOMAIN par' = ParFields
      BY <1>0, <2>2
    <3> QED BY <1>0, <2>0, <2>2, <3>1, <3>2, <3>3 DEF RestType
  <2> QED BY <1>1, <2>1, <2>2, NdAfter
<1>2. CASE OpenAgain
  <2>1. UNCHANGED <<par, ioNetif, dxid, lease, used, reused>>
    BY <1>2 DEF OpenAgain, xidVars
  <2>2. NdType(nd')
    BY <1>0, <1>2, NdAfter DEF NdIs, NdType
  <2> QED BY <1>0, <2>1, <2>2 DEF RestType
<1>3. CASE NeedParams
  <2>1. NdType(nd')
    BY <1>0, <1>3, NdAfter DEF NdIs, NdType
  <2>2. DOMAIN par' = ParFields
    BY <1>0, <1>3 DEF NeedParams
  <2>3. RestType'
    <3>1. UNCHANGED <<ioNetif, dxid, lease>>
      BY <1>3 DEF NeedParams
    <3>2. \/ used' = used \cup {dxid} /\ reused' = (dxid \in used)
          \/ UNCHANGED <<used, reused>>
      BY <1>3 DEF NeedParams, xidVars
    <3>3. reused' \in BOOLEAN
      <4>1. reused \in BOOLEAN
        BY <1>0, Zenon DEF RestType
      <4>2. CASE reused' = reused
        BY <4>1, <4>2, Zenon
      <4>3. CASE reused' = (dxid \in used) /\ dxid \in used
        <5>1. reused' = TRUE
          BY <4>3, Zenon
        <5> QED BY <5>1
      <4>4. CASE reused' = (dxid \in used) /\ dxid \notin used
        <5>1. (dxid \in used) = FALSE
          BY <4>4
        <5>2. reused' = FALSE
          BY <4>4, <5>1, Zenon
        <5> QED BY <5>2
      <4> QED BY <3>2, <4>2, <4>3, <4>4, Zenon
    <3>4. used' \subseteq Nat
      BY <1>0, <3>2 DEF RestType
    <3> QED BY <1>0, <3>1, <3>3, <3>4 DEF RestType
  <2> QED BY <2>1, <2>2, <2>3
<1>4. CASE BootpSend \/ BootpTimeout
  <2>1. UNCHANGED <<par, ioNetif, dxid, lease, used, reused>>
    BY <1>4 DEF BootpSend, BootpTimeout, xidVars
  <2>2. NdType(nd')
    BY <1>0, <1>4, NdAfter DEF NdIs, NdType
  <2> QED BY <1>0, <2>1, <2>2 DEF RestType
<1>6. CASE AfterBootp
  <2>1. NdType(nd')
    BY <1>0, <1>6, NdAfter DEF NdIs, NdType
  <2>2. DOMAIN par' = ParFields
    <3>1. PICK r : DOMAIN r = ParFields /\ (par' = r \/ par' = SplitRootpath(r))
      <4>1. \A a, b : DOMAIN [par EXCEPT !.rootip = a, !.rootpath = b] = ParFields
        BY <1>0
      <4> QED BY <1>0, <1>6, <4>1, Zenon DEF AfterBootp
    <3> QED BY <3>1, ParDomains, Zenon
  <2>3. RestType'
    BY <1>0, <1>6 DEF AfterBootp, RestType, xidVars
  <2> QED BY <2>1, <2>2, <2>3
<1>7. CASE Rarp \/ BpWhoami \/ BpGetfile
  <2>2. NdType(nd')
    BY <1>0, <1>7, NdAfter DEF NdIs, NdType
  <2>3. DOMAIN par' = ParFields
    <3>1. CASE Rarp \/ BpWhoami
      BY <1>0, <3>1 DEF Rarp, BpWhoami
    <3>2. CASE BpGetfile
      <4>1. PICK r : DOMAIN r = ParFields /\ (par' = r \/ par' = SplitRootpath(r))
        <5>1. \A r, a, b : DOMAIN r = ParFields => DOMAIN [r EXCEPT !.rootip = a, !.rootpath = b] = ParFields
          OBVIOUS
        <5>2. \A a, b : DOMAIN [par EXCEPT !.gateip = a, !.netmask = b] = ParFields
          BY <1>0
        <5> QED BY <1>0, <3>2, <5>1, <5>2, Zenon DEF BpGetfile
      <4> QED BY <4>1, ParDomains, Zenon
    <3> QED BY <1>7, <3>1, <3>2
  <2>4. RestType'
    <3>1. ioNetif' = ioNetif \/ ioNetif' = [ioNetif EXCEPT ![nd.sock] = FALSE]
      BY <1>7, NdAfter, Zenon DEF Shut
    <3>2. UNCHANGED <<dxid, lease, used, reused>>
      BY <1>7 DEF Rarp, BpWhoami, BpGetfile, xidVars
    <3>3. [ioNetif EXCEPT ![nd.sock] = FALSE] \in [0 .. Sockets - 1 -> BOOLEAN]
      BY <1>0 DEF RestType
    <3> QED BY <1>0, <3>1, <3>2, <3>3 DEF RestType
  <2> QED BY <2>2, <2>3, <2>4
<1>8. CASE net_close \/ pxe_close
  <2>1. \E last : CloseWith(last) /\ DOMAIN last = ParFields
    <3>1. DOMAIN [par EXCEPT !.rootip = NoAddr] = ParFields
      BY <1>0
    <3> QED BY <1>0, <1>8, <3>1, Zenon DEF net_close, pxe_close
  <2>2. PICK last : CloseWith(last) /\ DOMAIN last = ParFields
    BY <2>1, Zenon
  <2>3. NdType(nd')
    <3>1. nd.opens > 0
      BY <2>2 DEF CloseWith
    <3>2. \/ NdIs(nd', nd.sock, nd.opens - 1, nd.at, nd.tries, nd.server)
          \/ NdIs(nd', -1, 0, nd.at, nd.tries, nd.server)
      BY <2>2, NdAfter
    <3> QED BY <1>0, <3>1, <3>2 DEF NdType, NdIs
  <2>4. DOMAIN par' = ParFields
    BY <1>0, <2>2 DEF CloseWith
  <2>5. RestType'
    <3>1. ioNetif' = ioNetif \/ ioNetif' = [ioNetif EXCEPT ![nd.sock] = FALSE]
      BY <2>2 DEF CloseWith, Shut
    <3>2. UNCHANGED <<dxid, lease, used, reused>>
      BY <2>2 DEF CloseWith, xidVars
    <3>3. [ioNetif EXCEPT ![nd.sock] = FALSE] \in [0 .. Sockets - 1 -> BOOLEAN]
      BY <1>0 DEF RestType
    <3> QED BY <1>0, <3>1, <3>2, <3>3 DEF RestType
  <2> QED BY <2>3, <2>4, <2>5
<1>9. ASSUME NEW q \in dnet, BootpRecv(q) PROVE NdType(nd') /\ DOMAIN par' = ParFields /\ RestType'
  <2>1. /\ q.s \in Servers /\ DOMAIN par' = ParFields
        /\ \/ NdIs(nd', nd.sock, nd.opens, nd.at, nd.tries, nd.server) /\ dxid' = dxid
           \/ (\E v : NdIs(nd', nd.sock, nd.opens, "request", 0, v)) /\ dxid' = dxid
           \/ NdIs(nd', nd.sock, nd.opens, "got", nd.tries, nd.server) /\ dxid' = dxid + 1
    BY <1>9, RecvIs, Zenon
  <2>2. UNCHANGED <<ioNetif, lease, used, reused>>
    BY <1>9 DEF BootpRecv, xidVars
  <2>3. NdType(nd')
    BY <1>0, <2>1 DEF NdType, NdIs
  <2>4. dxid' \in Nat
    BY <1>0, <2>1 DEF RestType
  <2> QED BY <1>0, <2>1, <2>2, <2>3, <2>4 DEF RestType
<1>10. ASSUME NEW q \in dnet, Acknowledge(q) PROVE NdType(nd') /\ DOMAIN par' = ParFields /\ RestType'
  <2>1. lease' = lease \/ \E s \in Servers, v \in {"free", "bound"} : lease' = [lease EXCEPT ![s] = v]
    BY <1>10 DEF Acknowledge
  <2>2. lease' \in [Servers -> {"free", "bound"}]
    BY <1>0, <2>1 DEF RestType
  <2> QED BY <1>0, <1>10, <2>2 DEF Acknowledge, RestType, xidVars
<1>11. ASSUME NEW s \in Servers, Offer(s) PROVE NdType(nd') /\ DOMAIN par' = ParFields /\ RestType'
  <2>1. lease' = lease \/ lease' = [lease EXCEPT ![s] = "bound"]
    BY <1>11 DEF Offer
  <2>2. lease' \in [Servers -> {"free", "bound"}]
    BY <1>0, <2>1 DEF RestType
  <2> QED BY <1>0, <1>11, <2>2 DEF Offer, RestType, xidVars
<1>12. CASE UNCHANGED netVars
  BY <1>0, <1>12 DEF netVars, RestType
<1> QED BY <1>1, <1>2, <1>3, <1>4, <1>6, <1>7, <1>8, <1>9, <1>10, <1>11, <1>12 DEF NetDevNext, NetDevStep

-----------------------------------------------------------------------------
(* Sockets *)

\* The table of the sockets, and what nd says of it.
SocketsOf(io, sock) ==
    /\ sock \in -1 .. Sockets - 1
    /\ \A i \in 0 .. Sockets - 1 : io[i] <=> i = sock
SocketOf(io, n) ==
    /\ SocketsOf(io, n.sock)
    /\ n.sock < 0 => n.at = "idle"
    /\ n.at # "idle" \/ n.sock < 0 => n.opens = 0
LEMMA SocketParts == NetType => (SocketInv <=> SocketOf(ioNetif, nd))
<1> SUFFICES ASSUME NetType PROVE SocketInv <=> SocketOf(ioNetif, nd)
  OBVIOUS
<1>1. ASSUME nd.sock \in -1 .. Sockets - 1
      PROVE  SocketsRight <=> \A i \in 0 .. Sockets - 1 : ioNetif[i] <=> i = nd.sock
  <2>1. CASE nd.sock < 0
    BY <1>1, <2>1 DEF SocketsRight
  <2>2. CASE nd.sock >= 0
    <3>1. nd.sock \in 0 .. Sockets - 1
      BY <1>1, <2>2
    <3>2. SocketsRight <=> {i \in 0 .. Sockets - 1 : ioNetif[i]} = {nd.sock}
      BY <1>1, <2>2 DEF SocketsRight
    <3> QED BY <3>1, <3>2
  <2> QED BY <1>1, <2>1, <2>2
<1> QED BY <1>1 DEF SocketInv, SocketOf, SocketsOf

\* A socket is taken only when there is none, and given back when it is.
LEMMA TakeSocket ==
    ASSUME NetType, SocketsOf(ioNetif, -1), NEW s \in 0 .. Sockets - 1
    PROVE  SocketsOf([ioNetif EXCEPT ![s] = TRUE], s)
<1>1. ioNetif \in [0 .. Sockets - 1 -> BOOLEAN]
  BY DEF NetType
<1> QED BY <1>1 DEF SocketsOf
LEMMA GiveSocket ==
    ASSUME NetType, SocketsOf(ioNetif, nd.sock), nd.sock >= 0
    PROVE  SocketsOf(Shut(nd.sock), -1)
<1>1. ioNetif \in [0 .. Sockets - 1 -> BOOLEAN] /\ Sockets \in Nat
  BY NetDevAssumption DEF NetType
<1> QED BY <1>1 DEF SocketsOf, Shut

\* Every step keeps the sockets right.
LEMMA SocketStep == NetType /\ SocketInv /\ SendersInv /\ [NetDevNext]_netVars => SocketInv'
<1> SUFFICES ASSUME NetType, SocketInv, SendersInv, [NetDevNext]_netVars PROVE SocketInv'
  OBVIOUS
<1>1. SocketOf(ioNetif, nd) /\ nd.opens \in Nat /\ nd.sock \in Int
  BY SocketParts DEF NetType
<1>2. NetType'
  BY TypeStep
<1>3. (SocketInv <=> SocketOf(ioNetif, nd))'
  BY <1>2, SocketParts, PTL
<1> SUFFICES SocketOf(ioNetif', nd')
  BY <1>3
<1>4. CASE NetifOpen
  <2>1. nd.at = "idle" /\ nd.opens = 0 /\ nd.sock = -1
    BY <1>1, <1>4 DEF NetifOpen, SocketOf, SocketsOf
  <2>2. CASE NdIs(nd', nd.sock, nd.opens, nd.at, nd.tries, nd.server) /\ UNCHANGED <<ioNetif, dxid, par>>
    BY <1>1, <2>2 DEF NdIs, SocketOf
  <2>3. CASE /\ FreeSockets # {} /\ NdIs(nd', FirstFree, nd.opens, "params", nd.tries, nd.server)
             /\ ioNetif' = [ioNetif EXCEPT ![FirstFree] = TRUE]
    <3>1. FirstFree \in 0 .. Sockets - 1
      BY <2>3, FreeSocket
    <3>2. SocketsOf(ioNetif', FirstFree)
      BY <1>1, <2>1, <2>3, <3>1, TakeSocket DEF SocketOf
    <3> QED BY <2>1, <2>3, <3>1, <3>2 DEF NdIs, SocketOf
  <2> QED BY <1>4, <2>2, <2>3, NdAfter
<1>5. CASE OpenAgain
  <2>1. /\ UNCHANGED ioNetif /\ nd.at = "idle" /\ (nd.opens > 0 \/ nd.sock >= 0)
        /\ \/ nd.opens > 0 /\ NdIs(nd', nd.sock, nd.opens + 1, nd.at, nd.tries, nd.server)
           \/ ~(nd.opens > 0) /\ NdIs(nd', nd.sock, nd.opens, "params", nd.tries, nd.server)
    BY <1>5, NdAfter DEF OpenAgain
  <2> QED BY <1>1, <2>1 DEF NdIs, SocketOf
<1>6. CASE NetDevStep
  <2>1. nd.at # "idle"
    BY <1>6 DEF NetDevStep, NeedParams, BootpSend, BootpTimeout, AfterBootp, Rarp, BpWhoami, BpGetfile
  <2>2. nd.sock >= 0 /\ nd.opens = 0
    BY <1>1, <2>1 DEF SocketOf
  <2>3. CASE NeedParams \/ BootpSend \/ BootpTimeout \/ AfterBootp
    <3>1. UNCHANGED ioNetif
      BY <2>3 DEF NeedParams, BootpSend, BootpTimeout, AfterBootp
    <3>2. \/ \E a, t, v : NdIs(nd', nd.sock, nd.opens, a, t, v)
          \/ NdIs(nd', nd.sock, nd.opens + 1, "idle", nd.tries, nd.server)
      BY <2>3, NdAfter, Zenon
    <3> QED BY <1>1, <2>2, <3>1, <3>2 DEF NdIs, SocketOf
  <2>4. CASE Rarp \/ BpWhoami \/ BpGetfile
    <3>1. SocketsOf(Shut(nd.sock), -1)
      BY <1>1, <2>2, GiveSocket DEF SocketOf
    <3>2. \/ NdIs(nd', -1, nd.opens, "idle", nd.tries, nd.server) /\ ioNetif' = Shut(nd.sock)
          \/ \E a : NdIs(nd', nd.sock, nd.opens, a, nd.tries, nd.server) /\ UNCHANGED ioNetif
          \/ NdIs(nd', nd.sock, nd.opens + 1, "idle", nd.tries, nd.server) /\ UNCHANGED ioNetif
      BY <2>4, NdAfter, Zenon
    <3> QED BY <1>1, <2>2, <3>1, <3>2 DEF NdIs, SocketOf
  <2> QED BY <1>6, <2>3, <2>4 DEF NetDevStep
<1>7. CASE net_close \/ pxe_close
  <2>1. PICK last : CloseWith(last)
    BY <1>7 DEF net_close, pxe_close
  <2>2. nd.at = "idle" /\ nd.opens > 0 /\ nd.sock >= 0
    BY <1>1, <2>1 DEF CloseWith, SocketOf
  <2>3. SocketsOf(Shut(nd.sock), -1)
    BY <1>1, <2>2, GiveSocket DEF SocketOf
  <2>4. \/ nd.opens > 1 /\ NdIs(nd', nd.sock, nd.opens - 1, nd.at, nd.tries, nd.server) /\ UNCHANGED ioNetif
        \/ NdIs(nd', -1, 0, nd.at, nd.tries, nd.server) /\ ioNetif' = Shut(nd.sock)
    BY <2>1, NdAfter
  <2> QED BY <1>1, <2>2, <2>3, <2>4 DEF NdIs, SocketOf
<1>8. ASSUME NEW q \in dnet, BootpRecv(q) PROVE SocketOf(ioNetif', nd')
  <2>1. UNCHANGED ioNetif /\ nd.at # "idle"
    BY <1>8 DEF BootpRecv
  <2>2. \E a, t, v : NdIs(nd', nd.sock, nd.opens, a, t, v)
    BY <1>8, RecvIs, Zenon
  <2> QED BY <1>1, <2>1, <2>2 DEF NdIs, SocketOf
<1>9. CASE (\E q \in dnet : Acknowledge(q)) \/ (\E s \in Servers : Offer(s)) \/ UNCHANGED netVars
  <2>1. UNCHANGED <<nd, ioNetif>>
    BY <1>9 DEF Acknowledge, Offer, netVars
  <2> QED BY <1>1, <2>1
<1> QED BY <1>4, <1>5, <1>6, <1>7, <1>8, <1>9 DEF NetDevNext

-----------------------------------------------------------------------------
(* Leases *)

\* Packets, leases and the history of the xids stay as they are.
Quiet == UNCHANGED <<dnet, lease, used, reused>>

\* The xids stay those of the calls so far.
LEMMA XidsStep ==
    ASSUME NetType, SocketInv, SendersInv, XidsInv, [NetDevNext]_netVars
    PROVE  XidsInv'
<1>0. dxid \in Nat /\ used \subseteq Nat
  BY DEF NetType
<1> DEFINE Down(u) == \A x \in u, y \in Nat : y < x => y \in u
           Below(u, d) == \A y \in Nat : y < d => y \in u
           Sent(u, net) == \A q \in net : q.xid \in u
<1>1. Down(used) /\ Below(used, dxid) /\ Sent(used, dnet) /\ (nd.at \in {"discover", "request"} => dxid \in used)
  BY DEF XidsInv, Calling
<1> SUFFICES /\ Down(used') /\ Below(used', dxid') /\ Sent(used', dnet')
             /\ nd'.at \in {"discover", "request"} => dxid' \in used'
  BY DEF XidsInv, Calling
<1>2. CASE NetifOpen
  <2>1. Quiet
    BY <1>2 DEF NetifOpen, Quiet, xidVars
  <2>2. /\ dxid' = dxid \/ dxid' = 0
        /\ \E a : a \notin {"discover", "request"} /\ nd'.at = a
    BY <1>2, NdAfter DEF NdIs, NetifOpen
  <2> QED BY <1>0, <1>1, <2>1, <2>2 DEF Quiet
<1>3. CASE OpenAgain \/ BootpTimeout \/ AfterBootp \/ Rarp \/ BpWhoami \/ BpGetfile
  <2>1. Quiet /\ UNCHANGED dxid
    BY <1>3 DEF OpenAgain, BootpTimeout, AfterBootp, Rarp, BpWhoami, BpGetfile, Quiet, xidVars
  <2>2. nd'.at \notin {"discover", "request"}
    <3>1. CASE OpenAgain
      BY <3>1, NdAfter DEF NdIs, OpenAgain
    <3>2. CASE ~OpenAgain
      BY <1>3, <3>2, NdAfter DEF NdIs
    <3> QED BY <3>1, <3>2
  <2> QED BY <1>1, <2>1, <2>2 DEF Quiet
<1>4. CASE net_close \/ pxe_close
  <2>1. PICK last : CloseWith(last)
    BY <1>4 DEF net_close, pxe_close
  <2>2. Quiet /\ UNCHANGED dxid /\ nd.at = "idle"
    BY <2>1 DEF CloseWith, Quiet, xidVars
  <2>3. nd'.at = nd.at
    BY <2>1, NdAfter DEF NdIs
  <2> QED BY <1>1, <2>2, <2>3 DEF Quiet
<1>5. CASE NeedParams
  <2>1. CASE par.rootip = NoAddr
    <3>1. used' = used \cup {dxid} /\ UNCHANGED <<dxid, dnet>>
      BY <1>5, <2>1 DEF NeedParams
    <3> QED BY <1>0, <1>1, <3>1
  <2>2. CASE par.rootip # NoAddr
    <3>1. Quiet /\ UNCHANGED dxid
      BY <1>5, <2>2 DEF NeedParams, Quiet, xidVars
    <3>2. nd'.at = "idle"
      BY <1>5, <2>2, NdAfter DEF NdIs
    <3> QED BY <1>1, <3>1, <3>2 DEF Quiet
  <2> QED BY <2>1, <2>2
<1>6. CASE BootpSend
  <2>1. \E q : q.xid = dxid /\ dnet' = dnet \cup {q}
    <3> DEFINE sent == IF nd.at = "discover" THEN Packet("DISCOVER", "", NoAddr) ELSE Packet("REQUEST", RequestTo, nd.offer)
    <3>1. dnet' = dnet \cup {sent}
      BY <1>6 DEF BootpSend
    <3>2. sent.xid = dxid
      BY DEF Packet
    <3> HIDE DEF sent
    <3> QED BY <3>1, <3>2
  <2>2. UNCHANGED <<dxid, used>> /\ nd.at \in {"discover", "request"}
    BY <1>6 DEF BootpSend, xidVars
  <2> QED BY <1>1, <2>1, <2>2
<1>7. ASSUME NEW q \in dnet, BootpRecv(q)
      PROVE  /\ Down(used') /\ Below(used', dxid') /\ Sent(used', dnet')
             /\ nd'.at \in {"discover", "request"} => dxid' \in used'
  <2>1. UNCHANGED <<dnet, used>> /\ dxid \in used
    BY <1>1, <1>7 DEF BootpRecv, xidVars
  <2>2. dxid' = dxid \/ (dxid' = dxid + 1 /\ nd'.at = "got")
    BY <1>7, RecvIs DEF NdIs
  <2> QED BY <1>0, <1>1, <2>1, <2>2
<1>8. CASE (\E q \in dnet : Acknowledge(q)) \/ (\E s \in Servers : Offer(s))
  <2>1. dnet' = dnet \/ \E q : q.xid = dxid /\ dnet' = dnet \cup {q}
    BY <1>8 DEF Acknowledge, Offer, Packet
  <2>2. UNCHANGED <<dxid, used, nd>>
    BY <1>8 DEF Acknowledge, Offer, xidVars
  <2>3. dxid \in used
    <3>1. \E q \in dnet : q.xid = dxid
      BY <1>8 DEF Acknowledge, Offer, Packet
    <3> QED BY <1>1, <3>1
  <2> QED BY <1>1, <2>1, <2>2, <2>3
<1>9. CASE UNCHANGED netVars
  BY <1>1, <1>9 DEF netVars
<1> QED BY <1>2, <1>3, <1>4, <1>5, <1>6, <1>7, <1>8, <1>9 DEF NetDevNext, NetDevStep

\* Packets and leases after a step that may change them.
LEMMA PacketsAfter ==
    ASSUME NetType
    PROVE  /\ BootpSend => \E q : /\ dnet' = dnet \cup {q} /\ q.xid = dxid
                                  /\ IF nd.at = "discover" THEN q.type = "DISCOVER" ELSE q.type = "REQUEST" /\ q.s = nd.server[2]
           /\ \A s \in Servers : Offer(s) =>
                \E q : /\ dnet' = dnet \cup {q} /\ q.xid = dxid /\ q.s = s
                       /\ IF Dhcp(s) THEN q.type = "OFFER" /\ lease' = lease
                          ELSE q.type = "BOOTREPLY" /\ lease' = [lease EXCEPT ![s] = "bound"]
           /\ \A r \in dnet : Acknowledge(r) => r.type = "REQUEST" /\ r.xid = dxid /\
                \E s \in Servers :
                  /\ Dhcp(s)
                  /\ \/ r.s # s /\ dnet' = dnet /\ lease' = [lease EXCEPT ![s] = "free"]
                     \/ /\ r.s = s
                        /\ \E q : /\ dnet' = dnet \cup {q} /\ q.xid = dxid /\ q.s = s
                                  /\ \/ q.type = "ACK" /\ lease' = [lease EXCEPT ![s] = "bound"]
                                     \/ q.type = "NAK" /\ lease' = lease
<1>2. ASSUME BootpSend
      PROVE  \E q : /\ dnet' = dnet \cup {q} /\ q.xid = dxid
                    /\ IF nd.at = "discover" THEN q.type = "DISCOVER" ELSE q.type = "REQUEST" /\ q.s = nd.server[2]
  <2> DEFINE q == IF nd.at = "discover" THEN Packet("DISCOVER", "", NoAddr) ELSE Packet("REQUEST", nd.server[2], nd.offer)
  <2>1. dnet' = dnet \cup {q}
    BY <1>2, Zenon DEF BootpSend, RequestTo
  <2>2. q.xid = dxid /\ (IF nd.at = "discover" THEN q.type = "DISCOVER" ELSE q.type = "REQUEST" /\ q.s = nd.server[2])
    BY DEF Packet
  <2> HIDE DEF q
  <2> QED BY <2>1, <2>2
<1>3. ASSUME NEW s \in Servers, Offer(s)
      PROVE  \E q : /\ dnet' = dnet \cup {q} /\ q.xid = dxid /\ q.s = s
                    /\ IF Dhcp(s) THEN q.type = "OFFER" /\ lease' = lease
                       ELSE q.type = "BOOTREPLY" /\ lease' = [lease EXCEPT ![s] = "bound"]
  <2> DEFINE q == Packet(IF Dhcp(s) THEN "OFFER" ELSE "BOOTREPLY", s, NoAddr)
  <2>1. dnet' = dnet \cup {q} /\ lease' = IF Dhcp(s) THEN lease ELSE [lease EXCEPT ![s] = "bound"]
    BY <1>3, Zenon DEF Offer
  <2>2. q.xid = dxid /\ q.s = s /\ q.type = IF Dhcp(s) THEN "OFFER" ELSE "BOOTREPLY"
    BY DEF Packet
  <2> HIDE DEF q
  <2> QED BY <2>1, <2>2
<1>4. ASSUME NEW r \in dnet, Acknowledge(r)
      PROVE  r.type = "REQUEST" /\ r.xid = dxid /\
             \E s \in Servers :
               /\ Dhcp(s)
               /\ \/ r.s # s /\ dnet' = dnet /\ lease' = [lease EXCEPT ![s] = "free"]
                  \/ /\ r.s = s
                     /\ \E q : /\ dnet' = dnet \cup {q} /\ q.xid = dxid /\ q.s = s
                               /\ \/ q.type = "ACK" /\ lease' = [lease EXCEPT ![s] = "bound"]
                                  \/ q.type = "NAK" /\ lease' = lease
  <2> DEFINE Q(t, s) == Packet(t, s, NoAddr)
  <2>1. PICK s \in Servers :
          /\ Dhcp(s)
          /\ \/ r.s # s /\ dnet' = dnet /\ lease' = [lease EXCEPT ![s] = "free"]
             \/ r.s = s /\ dnet' = dnet \cup {Q("ACK", s)} /\ lease' = [lease EXCEPT ![s] = "bound"]
             \/ r.s = s /\ dnet' = dnet \cup {Q("NAK", s)} /\ lease' = lease
    BY <1>4, Zenon DEF Acknowledge
  <2>2. /\ Q("ACK", s).type = "ACK" /\ Q("ACK", s).xid = dxid /\ Q("ACK", s).s = s
        /\ Q("NAK", s).type = "NAK" /\ Q("NAK", s).xid = dxid /\ Q("NAK", s).s = s
    BY DEF Packet
  <2>3. r.type = "REQUEST" /\ r.xid = dxid
    BY <1>4 DEF Acknowledge
  <2> DEFINE Sent(q) == /\ dnet' = dnet \cup {q} /\ q.xid = dxid /\ q.s = s
                        /\ \/ q.type = "ACK" /\ lease' = [lease EXCEPT ![s] = "bound"]
                           \/ q.type = "NAK" /\ lease' = lease
  <2>4. r.s = s => Sent(Q("ACK", s)) \/ Sent(Q("NAK", s))
    <3> HIDE DEF Q
    <3> QED BY <2>1, <2>2
  <2>5. r.s = s => \E q : Sent(q)
    <3> HIDE DEF Sent, Q
    <3> QED BY <2>4
  <2> QED BY <2>1, <2>3, <2>5
<1> QED BY <1>2, <1>3, <1>4, Zenon

\* Servers keep sending what they should, and one that only knows BOOTP does not
\* take an address back.
LEMMA SendersStep ==
    ASSUME NetType, SendersInv, [NetDevNext]_netVars
    PROVE  SendersInv'
<1> DEFINE Fair(q, ls) == /\ q.type = "BOOTREPLY" => q.s \in Servers /\ ~Dhcp(q.s) /\ ls[q.s] = "bound"
                          /\ q.type \in {"OFFER", "ACK", "NAK"} => q.s \in Servers /\ Dhcp(q.s)
<1>1. \A q \in dnet : Fair(q, lease)
  BY DEF SendersInv
<1>2. lease \in [Servers -> {"free", "bound"}]
  BY DEF NetType
<1> SUFFICES \A q \in dnet' : Fair(q, lease')
  BY DEF SendersInv, Dhcp, Servers
<1>3. CASE UNCHANGED <<dnet, lease>>
  BY <1>1, <1>3
<1>4. CASE BootpSend
  <2>1. PICK q : dnet' = dnet \cup {q} /\ q.type \in {"DISCOVER", "REQUEST"}
    BY <1>4, PacketsAfter
  <2>2. Fair(q, lease) /\ lease' = lease
    BY <1>4, <2>1 DEF BootpSend
  <2> QED BY <1>1, <2>1, <2>2
<1>5. ASSUME NEW s \in Servers, Offer(s) PROVE \A q \in dnet' : Fair(q, lease')
  <2>1. PICK q : /\ dnet' = dnet \cup {q} /\ q.xid = dxid /\ q.s = s
                 /\ IF Dhcp(s) THEN q.type = "OFFER" /\ lease' = lease
                    ELSE q.type = "BOOTREPLY" /\ lease' = [lease EXCEPT ![s] = "bound"]
    BY <1>5, PacketsAfter, Zenon
  <2>2. Fair(q, lease')
    BY <1>2, <2>1
  <2>3. \A r \in dnet : Fair(r, lease')
    BY <1>1, <1>2, <2>1
  <2> QED BY <2>1, <2>2, <2>3
<1>6. ASSUME NEW r \in dnet, Acknowledge(r) PROVE \A q \in dnet' : Fair(q, lease')
  <2>1. PICK s \in Servers :
          /\ Dhcp(s)
          /\ \/ r.s # s /\ dnet' = dnet /\ lease' = [lease EXCEPT ![s] = "free"]
             \/ /\ r.s = s
                /\ \E q : /\ dnet' = dnet \cup {q} /\ q.xid = dxid /\ q.s = s
                          /\ \/ q.type = "ACK" /\ lease' = [lease EXCEPT ![s] = "bound"]
                             \/ q.type = "NAK" /\ lease' = lease
    BY <1>6, PacketsAfter, Zenon
  <2>2. \A t \in Servers : ~Dhcp(t) => lease'[t] = lease[t]
    BY <1>2, <2>1
  <2>3. \A q \in dnet : Fair(q, lease')
    BY <1>1, <2>2
  <2>4. dnet' = dnet \/ \E q : dnet' = dnet \cup {q} /\ q.s = s /\ q.type \in {"ACK", "NAK"}
    BY <2>1
  <2> QED BY <2>1, <2>3, <2>4
<1>7. NetifOpen \/ OpenAgain \/ net_close \/ pxe_close \/ NeedParams \/ BootpTimeout \/ AfterBootp \/ Rarp \/ BpWhoami \/ BpGetfile
        \/ (\E q \in dnet : BootpRecv(q)) \/ UNCHANGED netVars => UNCHANGED <<dnet, lease>>
  BY DEF NetifOpen, OpenAgain, net_close, pxe_close, CloseWith, NeedParams, BootpTimeout, AfterBootp, Rarp, BpWhoami, BpGetfile,
         BootpRecv, netVars
<1> QED BY <1>3, <1>4, <1>5, <1>6, <1>7 DEF NetDevNext, NetDevStep

\* CallInv and LeaseHeld of the state of a call.
Answers(srv, net, ls, d) ==
    \A q \in net : q.xid = d => /\ q.type = "REQUEST" => q.s = srv[2]
                                /\ q.type = "ACK" => q.s = srv[2] /\ ls[q.s] = "bound"
CallOf(at, tries, srv, net, ls, d, u) ==
    /\ at \in {"discover", "request"} => \A x \in u : x <= d
    /\ at = "discover" => \A q \in net : q.xid = d => q.type \notin {"REQUEST", "ACK"}
    /\ at = "request" => Answers(srv, net, ls, d)
    /\ at = "got" /\ tries > 0 => \A x \in u : x < d
HeldBy(at, tries, ip, ls) ==
    \A s \in Servers : at = "got" /\ tries > 0 /\ ip = Yiaddr(s) => ls[s] = "bound"
CallHeld(n, p, net, ls, d, u) == CallOf(n.at, n.tries, n.server, net, ls, d, u) /\ HeldBy(n.at, n.tries, p.myip, ls)

\* Outside a call there is nothing to say.
LEMMA NoCall ==
    ASSUME NEW n, NEW p, NEW net, NEW ls, NEW d, NEW u,
           n.at \notin {"discover", "request", "got"} \/ (n.at = "got" /\ n.tries = 0)
    PROVE  CallHeld(n, p, net, ls, d, u)
BY DEF CallHeld, CallOf, HeldBy, Answers

\* In a call with an xid of its own a step keeps what CallHeld says.
LEMMA CallStep ==
    ASSUME NetType, SocketInv, SendersInv, XidsInv, ~reused => CallHeld(nd, par, dnet, lease, dxid, used),
           [NetDevNext]_netVars, ~reused'
    PROVE  CallHeld(nd', par', dnet', lease', dxid', used')
<1>0. dxid \in Nat /\ used \subseteq Nat /\ lease \in [Servers -> {"free", "bound"}] /\ nd.tries \in Nat
  BY DEF NetType
<1>1. CASE NetifOpen
  <2>1. nd'.at \in {"idle", "params"}
    BY <1>1, NdAfter DEF NdIs, NetifOpen
  <2> QED BY <2>1, NoCall
<1>2. CASE OpenAgain
  <2>1. nd'.at \in {"idle", "params"}
    BY <1>2, NdAfter DEF NdIs, OpenAgain
  <2> QED BY <2>1, NoCall
<1>3. CASE net_close \/ pxe_close
  <2>1. PICK last : CloseWith(last)
    BY <1>3 DEF net_close, pxe_close
  <2>2. nd'.at = "idle"
    BY <2>1, NdAfter DEF NdIs, CloseWith
  <2> QED BY <2>2, NoCall
<1>4. CASE AfterBootp \/ Rarp \/ BpWhoami \/ BpGetfile
  <2>1. nd'.at \in {"idle", "rarp", "whoami", "getfile"}
    BY <1>4, NdAfter DEF NdIs
  <2> QED BY <2>1, NoCall
<1>5. CASE BootpTimeout
  <2>1. nd'.at = "got" /\ nd'.tries = 0
    BY <1>5, NdAfter DEF NdIs
  <2> QED BY <2>1, NoCall
<1>6. CASE NeedParams
  <2>1. CASE par.rootip # NoAddr
    <3>1. nd'.at = "idle"
      BY <1>6, <2>1, NdAfter DEF NdIs
    <3> QED BY <3>1, NoCall
  <2>2. CASE par.rootip = NoAddr
    <3>1. nd'.at = "discover"
      BY <1>6, <2>2, NdAfter DEF NdIs
    <3>2. used' = used \cup {dxid} /\ reused' = (dxid \in used) /\ UNCHANGED <<dxid, dnet>>
      BY <1>6, <2>2 DEF NeedParams
    <3>3. dxid \notin used
      BY <3>2, Zenon
    <3>4. ASSUME NEW x \in used PROVE x < dxid
      BY <1>0, <3>3 DEF XidsInv
    <3>5. \A x \in used' : x <= dxid
      BY <1>0, <3>2, <3>4
    <3>6. \A q \in dnet : q.xid # dxid
      BY <3>3 DEF XidsInv
    <3> QED BY <3>1, <3>2, <3>5, <3>6 DEF CallHeld, CallOf, HeldBy, Answers
  <2> QED BY <2>1, <2>2
<1>7. CASE BootpSend
  <2>1. PICK q : /\ dnet' = dnet \cup {q} /\ q.xid = dxid
                 /\ IF nd.at = "discover" THEN q.type = "DISCOVER" ELSE q.type = "REQUEST" /\ q.s = nd.server[2]
    BY <1>7, PacketsAfter, Zenon
  <2>2. UNCHANGED <<par, dxid, lease, used, reused>> /\ nd.at \in {"discover", "request"}
    BY <1>7 DEF BootpSend, xidVars
  <2>3. nd'.at = nd.at /\ nd'.server = nd.server
    BY <1>7, NdAfter DEF NdIs
  <2>4. CallHeld(nd, par, dnet, lease, dxid, used)
    BY <2>2
  <2> QED BY <2>1, <2>2, <2>3, <2>4 DEF CallHeld, CallOf, HeldBy, Answers
<1>8. ASSUME NEW q \in dnet, BootpRecv(q) PROVE CallHeld(nd', par', dnet', lease', dxid', used')
  <2>1. UNCHANGED <<dnet, lease, used, reused>> /\ nd.at \in {"discover", "request"} /\ q.xid = dxid /\ nd.tries > 0
    BY <1>8 DEF BootpRecv, xidVars
  <2>2. CallHeld(nd, par, dnet, lease, dxid, used)
    BY <2>1
  <2>3. CASE NdIs(nd', nd.sock, nd.opens, nd.at, nd.tries, nd.server) /\ dxid' = dxid
    BY <2>1, <2>2, <2>3 DEF NdIs, CallHeld, CallOf, HeldBy
  <2>4. CASE (\E v : NdIs(nd', nd.sock, nd.opens, "request", 0, v)) /\ dxid' = dxid /\ nd.at = "discover"
    <3>1. nd'.at = "request"
      BY <2>4 DEF NdIs
    <3> QED BY <2>1, <2>2, <2>4, <3>1 DEF CallHeld, CallOf, HeldBy, Answers
  <2>5. CASE /\ NdIs(nd', nd.sock, nd.opens, "got", nd.tries, nd.server)
             /\ dxid' = dxid + 1 /\ par'.myip = Yiaddr(q.s)
             /\ q.type = "BOOTREPLY" \/ (nd.at = "request" /\ q.type = "ACK")
    <3>1. nd'.at = "got"
      BY <2>5 DEF NdIs
    <3>2. \A x \in used : x <= dxid
      BY <2>1, <2>2 DEF CallHeld, CallOf, Answers
    <3>3. \A x \in used' : x < dxid'
      BY <1>0, <2>1, <2>5, <3>2
    <3>4. lease[q.s] = "bound"
      <4>1. CASE q.type = "BOOTREPLY"
        BY <4>1 DEF SendersInv
      <4>2. CASE nd.at = "request" /\ q.type = "ACK"
        BY <2>1, <2>2, <4>2 DEF CallHeld, CallOf, Answers
      <4> QED BY <2>5, <4>1, <4>2
    <3>5. \A s \in Servers : par'.myip = Yiaddr(s) => s = q.s
      BY <2>5 DEF Yiaddr, Addr
    <3>6. HeldBy(nd'.at, nd'.tries, par'.myip, lease')
      BY <2>1, <3>4, <3>5 DEF HeldBy
    <3>7. CallOf(nd'.at, nd'.tries, nd'.server, dnet', lease', dxid', used')
      BY <3>1, <3>3 DEF CallOf
    <3> QED BY <3>6, <3>7 DEF CallHeld
  <2> QED BY <1>8, <2>3, <2>4, <2>5, RecvIs, Zenon
<1>9. ASSUME NEW s \in Servers, Offer(s) PROVE CallHeld(nd', par', dnet', lease', dxid', used')
  <2>1. PICK q : /\ dnet' = dnet \cup {q} /\ q.xid = dxid /\ q.s = s
                 /\ IF Dhcp(s) THEN q.type = "OFFER" /\ lease' = lease
                    ELSE q.type = "BOOTREPLY" /\ lease' = [lease EXCEPT ![s] = "bound"]
    BY <1>9, PacketsAfter, Zenon
  <2>2. UNCHANGED <<nd, par, dxid, used, reused>>
    BY <1>9 DEF Offer, xidVars
  <2>3. CallHeld(nd, par, dnet, lease, dxid, used)
    BY <2>2
  <2>4. \A t \in Servers : lease[t] = "bound" => lease'[t] = "bound"
    BY <1>0, <2>1
  <2>5. \A r \in dnet : r.type = "ACK" => r.s \in Servers
    BY DEF SendersInv
  <2>6. q.type \notin {"REQUEST", "ACK"}
    BY <2>1
  <2>7. CallOf(nd.at, nd.tries, nd.server, dnet', lease', dxid, used)
    BY <2>1, <2>3, <2>4, <2>5, <2>6 DEF CallHeld, CallOf, Answers
  <2>8. HeldBy(nd.at, nd.tries, par.myip, lease')
    BY <2>3, <2>4 DEF CallHeld, HeldBy
  <2> QED BY <2>2, <2>7, <2>8 DEF CallHeld
<1>10. ASSUME NEW r \in dnet, Acknowledge(r) PROVE CallHeld(nd', par', dnet', lease', dxid', used')
  <2>1. r.type = "REQUEST" /\ r.xid = dxid
    BY <1>10, PacketsAfter, Zenon
  <2>2. PICK s \in Servers :
          /\ Dhcp(s)
          /\ \/ r.s # s /\ dnet' = dnet /\ lease' = [lease EXCEPT ![s] = "free"]
             \/ /\ r.s = s
                /\ \E q : /\ dnet' = dnet \cup {q} /\ q.xid = dxid /\ q.s = s
                          /\ \/ q.type = "ACK" /\ lease' = [lease EXCEPT ![s] = "bound"]
                             \/ q.type = "NAK" /\ lease' = lease
    BY <1>10, PacketsAfter, Zenon
  <2>3. UNCHANGED <<nd, par, dxid, used, reused>>
    BY <1>10 DEF Acknowledge, xidVars
  <2>4. CallHeld(nd, par, dnet, lease, dxid, used)
    BY <2>3
  <2>5. CASE nd.at = "discover"
    BY <2>1, <2>4, <2>5 DEF CallHeld, CallOf, Answers
  <2>6. CASE nd.at = "got" /\ nd.tries > 0
    <3>1. dxid \in used
      BY <2>1 DEF XidsInv
    <3>2. dxid < dxid
      BY <2>4, <2>6, <3>1 DEF CallHeld, CallOf, Answers
    <3> QED BY <1>0, <3>2
  <2>7. CASE nd.at = "request"
    <3>1. r.s = nd.server[2]
      BY <2>1, <2>4, <2>7 DEF CallHeld, CallOf, Answers
    <3>2. \A q \in dnet : q.xid = dxid /\ q.type = "ACK" => q.s = r.s /\ lease'[q.s] = "bound"
      <4>1. \A q \in dnet : q.xid = dxid /\ q.type = "ACK" => q.s = r.s /\ lease[q.s] = "bound" /\ q.s \in Servers
        BY <2>4, <2>7, <3>1 DEF CallHeld, CallOf, Answers, SendersInv
      <4>2. \A t \in Servers : t = r.s /\ lease[t] = "bound" => lease'[t] = "bound"
        BY <1>0, <2>2
      <4> QED BY <4>1, <4>2
    <3>3. \A q \in dnet : q.xid = dxid /\ q.type = "REQUEST" => q.s = r.s
      BY <2>4, <2>7, <3>1 DEF CallHeld, CallOf, Answers
    <3>4. \A q \in dnet' : q \in dnet \/ (q.type # "REQUEST" /\ (q.type = "ACK" => q.s = r.s /\ lease'[q.s] = "bound"))
      BY <1>0, <2>2
    <3>5. Answers(nd.server, dnet', lease', dxid)
      BY <3>1, <3>2, <3>3, <3>4 DEF Answers
    <3>6. \A x \in used : x <= dxid
      BY <2>4, <2>7 DEF CallHeld, CallOf, Answers
    <3>7. CallOf(nd.at, nd.tries, nd.server, dnet', lease', dxid, used)
      BY <2>7, <3>5, <3>6 DEF CallOf
    <3>8. HeldBy(nd.at, nd.tries, par.myip, lease')
      BY <2>7 DEF HeldBy
    <3> QED BY <2>3, <3>7, <3>8 DEF CallHeld
  <2>8. CASE nd.at \notin {"discover", "request", "got"} \/ (nd.at = "got" /\ nd.tries = 0)
    <3>1. nd'.at \notin {"discover", "request", "got"} \/ (nd'.at = "got" /\ nd'.tries = 0)
      BY <2>3, <2>8
    <3> QED BY <3>1, NoCall
  <2> QED BY <1>0, <2>5, <2>6, <2>7, <2>8
<1>11. CASE UNCHANGED netVars
  <2>1. UNCHANGED <<nd, par, dnet, lease, dxid, used, reused>>
    BY <1>11 DEF netVars
  <2> QED BY <2>1
<1> QED BY <1>1, <1>2, <1>3, <1>4, <1>5, <1>6, <1>7, <1>8, <1>9, <1>10, <1>11 DEF NetDevNext, NetDevStep

-----------------------------------------------------------------------------
(* Theorems *)

\* The inductive invariant of the device.
DeviceInv == NetType /\ SocketInv /\ LeaseInv

\* CallInv and LeaseHeld are CallHeld for a call with an xid of its own.
LEMMA CallParts == CallInv /\ LeaseHeld <=> (~reused => CallHeld(nd, par, dnet, lease, dxid, used))
<1>1. CallInv <=> (~reused => CallOf(nd.at, nd.tries, nd.server, dnet, lease, dxid, used))
  BY Zenon DEF CallInv, CallOf, Answers, Calling
<1>2. LeaseHeld <=> (~reused => HeldBy(nd.at, nd.tries, par.myip, lease))
  BY DEF LeaseHeld, HeldBy
<1> QED BY <1>1, <1>2 DEF CallHeld

\* At first there is no call.
LEMMA DeviceInit == NetDevInit => DeviceInv
<1> SUFFICES ASSUME NetDevInit PROVE DeviceInv
  OBVIOUS
<1>1. NetType
  BY TypeInit
<1>2. nd.sock = -1 /\ nd.at = "idle" /\ nd.opens = 0 /\ ioNetif = [i \in 0 .. Sockets - 1 |-> FALSE]
  BY DEF NetDevInit, NoNd
<1>3. SocketInv
  <2>1. SocketOf(ioNetif, nd)
    BY <1>2, NetDevAssumption DEF SocketOf, SocketsOf
  <2> QED BY <1>1, <2>1, SocketParts
<1>4. XidsInv /\ SendersInv
  BY <1>2 DEF NetDevInit, XidsInv, SendersInv, Calling
<1>5. CallInv /\ LeaseHeld
  BY <1>2, NoCall, CallParts
<1> QED BY <1>1, <1>3, <1>4, <1>5 DEF DeviceInv, LeaseInv

\* DeviceInv is inductive.
LEMMA DeviceStep == DeviceInv /\ [NetDevNext]_netVars => DeviceInv'
<1> SUFFICES ASSUME DeviceInv, [NetDevNext]_netVars PROVE DeviceInv'
  OBVIOUS
<1>1. NetType /\ SocketInv /\ XidsInv /\ SendersInv /\ CallInv /\ LeaseHeld
  BY DEF DeviceInv, LeaseInv
<1>2. NetType' /\ SocketInv' /\ XidsInv' /\ SendersInv'
  BY <1>1, TypeStep, SocketStep, XidsStep, SendersStep
<1>3. ~reused' => CallHeld(nd', par', dnet', lease', dxid', used')
  BY <1>1, CallParts, CallStep
<1>4. (CallInv /\ LeaseHeld)'
  <2>1. (CallInv /\ LeaseHeld <=> (~reused => CallHeld(nd, par, dnet, lease, dxid, used)))'
    BY CallParts, PTL
  <2> QED BY <1>3, <2>1
<1> QED BY <1>2, <1>4 DEF DeviceInv, LeaseInv

\* A socket of the table is in use exactly while the device has it: on every
\* path through net_open(), net_getparams() and the closes (dev_net.c, pxe.c,
\* netif.c) it is given back once, for any number of sockets, servers, failures
\* and opens.
THEOREM SocketsCorrect == NetDevSpec => []SocketsRight
<1>1. DeviceInv => SocketsRight
  BY DEF DeviceInv, SocketInv
<1> QED BY <1>1, DeviceInit, DeviceStep, PTL DEF NetDevSpec

\* The address that bootp() (bootp.c) ends with is one its server keeps for us,
\* whatever the servers put into their packets and however late, often or in
\* which order the packets come, if the call's xid is its own.
THEOREM LeaseCorrect == NetDevSpec => []LeaseHeld
<1>1. DeviceInv => LeaseHeld
  BY DEF DeviceInv, LeaseInv
<1> QED BY <1>1, DeviceInit, DeviceStep, PTL DEF NetDevSpec
=============================================================================
