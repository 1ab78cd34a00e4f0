-------------------------------- MODULE Tftp --------------------------------
(***************************************************************************)
(* Files read over the network by the boot loader: lib/libstand/tftp.c on  *)
(* sendrecv() (net.c) and readudp() (udp.c), with a network that loses,    *)
(* duplicates, delays and reorders packets, and a server as in RFC 1350.   *)
(*                                                                         *)
(* All open files share one struct iodesc: dev_net.c opens one socket and  *)
(* gives it to every file.  A block's data are modelled by the file and    *)
(* the number of the block, an offset counts units of which SEG make a     *)
(* block, and the clock that the client's port is taken from ticks at will.*)
(***************************************************************************)
EXTENDS Integers, Sequences, FiniteSets

CONSTANTS
    Files,      \* names
    Size,       \* Size[f]: length of file f, -1 if there is no such file
    SEG,        \* SEGSIZE
    BlockMod,   \* 2^16: block numbers on the wire are taken modulo this
    MinData,    \* sizeof(struct tftphdr) - 4: th_data is declared with a byte
    MaxTmo,     \* MAXTMO / MINTMO: sendrecv() sends MaxTmo - 1 times
    ErrCodes,   \* codes the server may send with an error
    Offs,       \* offsets lseek() is called with
    Reads,      \* sizes read() is called with
    MaxOpen,    \* files open at a time
    MaxClock,   \* bound on the clock
    MaxSess     \* bound on the transfers the server starts

ASSUME SizeAssumption ==
    /\ Size \in [Files -> Nat \cup {-1}]
    /\ SEG \in Nat \ {0} /\ BlockMod \in Nat \ {0} /\ MaxTmo \in Nat \ {0}
    /\ MinData \in 0 .. 1
    /\ MaxOpen \in Nat \ {0} /\ MaxClock \in Nat /\ MaxSess \in Nat
    /\ "none" \notin Files     \* it stands for no file
    /\ Offs \subseteq Nat /\ Reads \subseteq Nat /\ ErrCodes \subseteq {0, 1}

Handle == 1 .. MaxOpen
Closed == [file |-> "none"]
\* What th_data holds when it is not a block of a file.
Junk == [file |-> "junk", block |-> 0]
Exists(f) == Size[f] >= 0
\* Units in block b of file f.
Units(f, b) ==
    LET rest == Size[f] - (b - 1) * SEG IN IF rest >= SEG THEN SEG ELSE rest
Opened(h) == h.file # "none"

VARIABLES
    hs,         \* hs[h]: struct tftp_handle
    io,         \* struct iodesc: myport, destport (0: IPPORT_TFTP), xid
    pc,         \* the call in progress: at, handle, size still to be read
    tx,         \* sendrecv(): waiting, tmo, the error saved by recvtftp()
    clock,      \* getsecs()
    net,        \* packets sent: each arrives any number of times, or never
    sess,       \* transfers the server has started
    ret,        \* what the last call returned
    spoilt      \* history: the handles whose transfer something has spoilt

clientVars == <<hs, io, pc, tx, ret, spoilt>>
vars == <<clientVars, clock, net, sess>>

Idle   == pc.at = "idle"
InCall == pc.at \in {"open", "rereq", "next"}      \* in sendrecv()
h0     == hs[pc.h]
NoCall == [at |-> "idle", h |-> 1, size |-> 0]
NoTx   == [waiting |-> FALSE, tmo |-> 1, saved |-> -1]
NoErr  == "ok"
NoRet  == [op |-> "none", err |-> NoErr, left |-> 0, h |-> 1, file |-> "none"]

RRQ(f, port) == [op |-> "RRQ", file |-> f, port |-> port]
ACK(port, tid, n) == [op |-> "ACK", port |-> port, tid |-> tid, block |-> n]
DATA(tid, port, f, b) ==
    [op |-> "DATA", port |-> port, tid |-> tid, file |-> f, block |-> b]
ERROR(port, code) == [op |-> "ERROR", port |-> port, code |-> code]

-----------------------------------------------------------------------------
(* tftp_open(), tftp_seek(), tftp_close() *)

\* The start of tftp_makereq().  The other files that are open lose their
\* transfer; and two requests for different files from the same port, because
\* the clock has not ticked, spoil each other.
MakeReq(h, f) ==
    /\ io' = [myport |-> clock, destport |-> 0, xid |-> 1]
    /\ tx' = NoTx
    /\ spoilt' = {g \in Handle \ {h} : Opened(hs[g])} \cup
                 {g \in {h} : \E m \in net : /\ m.op = "RRQ" /\ m.port = clock
                                             /\ m.file # f}

tftp_open(h, f) ==
    /\ Idle /\ ~Opened(hs[h])
    /\ hs' = [hs EXCEPT ![h] = [file |-> f, cur |-> 0, last |-> FALSE, valid |-> 0,
                                off |-> 0, buf |-> Junk]]
    /\ MakeReq(h, f)
    /\ pc' = [at |-> "open", h |-> h, size |-> 0]
    /\ ret' = NoRet
    /\ UNCHANGED <<clock, net, sess>>

tftp_seek(h, off) ==
    /\ Idle /\ Opened(hs[h]) /\ hs[h].off # off
    /\ hs' = [hs EXCEPT ![h].off = off]
    /\ ret' = NoRet
    /\ UNCHANGED <<io, pc, tx, spoilt, clock, net, sess>>

\* The server is not told ("let it time out ...").
tftp_close(h) ==
    /\ Idle /\ Opened(hs[h])
    /\ hs' = [hs EXCEPT ![h] = Closed]
    /\ spoilt' = spoilt \ {h}
    /\ ret' = NoRet
    /\ UNCHANGED <<io, pc, tx, clock, net, sess>>

-----------------------------------------------------------------------------
(* tftp_read() *)

Return(op, err, left) ==
    /\ pc' = NoCall
    /\ ret' = [op |-> op, err |-> err, left |-> left, h |-> pc.h, file |-> h0.file]

tftp_read(h, size) ==
    /\ Idle /\ Opened(hs[h])
    /\ pc' = [at |-> "loop", h |-> h, size |-> size]
    /\ ret' = NoRet
    /\ UNCHANGED <<hs, io, tx, spoilt, clock, net, sess>>

NeedBlock == h0.off \div SEG + 1

\* while (size > 0): a block before the one in lastdata takes a new request.
ReadLoop ==
    /\ pc.at = "loop" /\ pc.size > 0
    /\ IF h0.cur > NeedBlock
         THEN MakeReq(pc.h, h0.file) /\ pc' = [pc EXCEPT !.at = "rereq"]
         ELSE pc' = [pc EXCEPT !.at = "fetch"] /\ UNCHANGED <<io, tx, spoilt>>
    /\ UNCHANGED <<hs, ret, clock, net, sess>>

ReadDone ==
    /\ pc.at = "loop" /\ pc.size = 0
    /\ Return("read", NoErr, 0)
    /\ UNCHANGED <<hs, io, tx, spoilt, clock, net, sess>>

\* while (currblock < needblock): the start of tftp_getnextblock().
Fetch ==
    /\ pc.at = "fetch"
    /\ IF h0.cur < NeedBlock
         THEN /\ io' = [io EXCEPT !.xid = h0.cur + 1]
              /\ tx' = NoTx
              /\ pc' = [pc EXCEPT !.at = "next"]
         ELSE pc' = [pc EXCEPT !.at = "copy"] /\ UNCHANGED <<io, tx>>
    /\ UNCHANGED <<hs, ret, spoilt, clock, net, sess>>

\* The end of the file is where the last block has been used up.
Eof(count, inbuffer) == h0.last /\ count = inbuffer

Copy ==
    LET offinblock == h0.off % SEG
        inbuffer == h0.valid - offinblock
        count == IF pc.size < inbuffer THEN pc.size ELSE inbuffer
    IN /\ pc.at = "copy"
       /\ IF h0.cur # NeedBlock \/ inbuffer < 0
            THEN /\ Return("read", "EINVAL", pc.size)
                 /\ UNCHANGED hs
            ELSE /\ hs' = [hs EXCEPT ![pc.h].off = @ + count]
                 /\ IF Eof(count, inbuffer)
                      THEN Return("read", NoErr, pc.size - count)
                      ELSE /\ pc' = [pc EXCEPT !.at = "loop", !.size = @ - count]
                           /\ UNCHANGED ret
       /\ UNCHANGED <<io, tx, spoilt, clock, net, sess>>

-----------------------------------------------------------------------------
(* sendrecv(), recvtftp() *)

Packet ==
    IF pc.at = "next" THEN ACK(io.myport, io.destport, h0.cur % BlockMod)
    ELSE RRQ(h0.file, io.myport)

\* Mutants: the time-out does not grow, or doubles past its limit.
NextTmoSame == tx.tmo
NextTmoDouble == 2 * tx.tmo
NextTmo == tx.tmo + 1

\* The packet goes out and recvtftp() clears its buffer, which is lastdata.
Send ==
    /\ InCall /\ ~tx.waiting /\ tx.tmo < MaxTmo
    /\ net' = net \cup {Packet}
    /\ tx' = [tx EXCEPT !.waiting = TRUE, !.tmo = NextTmo]
    /\ hs' = [hs EXCEPT ![pc.h].buf = Junk]
    /\ UNCHANGED <<io, pc, ret, spoilt, clock, sess>>

SendFails ==
    /\ InCall /\ ~tx.waiting /\ tx.tmo < MaxTmo
    /\ tx' = [tx EXCEPT !.tmo = NextTmo]
    /\ UNCHANGED <<hs, io, pc, ret, spoilt, clock, net, sess>>

\* sendrecv() has failed.  Only tftp_open() and tftp_getnextblock() look at
\* it, and lastdata is not what it was any more.
Fail(err) ==
    /\ CASE pc.at = "open" -> /\ hs' = [hs EXCEPT ![pc.h] = Closed]
                              /\ Return("open", err, 0)
                              /\ UNCHANGED spoilt
         [] pc.at = "rereq" -> /\ pc' = [pc EXCEPT !.at = "fetch"]
                               /\ spoilt' = spoilt \cup {pc.h}
                               /\ UNCHANGED <<hs, ret>>
         [] pc.at = "next" -> /\ Return("read", err, pc.size)
                              /\ spoilt' = spoilt \cup {pc.h}
                              /\ UNCHANGED hs
    /\ tx' = NoTx
    /\ UNCHANGED io

GiveUp ==
    /\ InCall /\ ~tx.waiting /\ tx.tmo >= MaxTmo
    /\ Fail("ETIMEDOUT")
    /\ UNCHANGED <<clock, net, sess>>

\* Nothing came in time.  Of a request, an error that did come is used now.
TimeOut ==
    /\ InCall /\ tx.waiting
    /\ IF tx.saved > 0 THEN Fail("ENOENT")
       ELSE /\ tx' = [tx EXCEPT !.waiting = FALSE, !.saved = -1]
            /\ UNCHANGED <<hs, io, pc, ret, spoilt>>
    /\ UNCHANGED <<clock, net, sess>>

\* Mutant: a full block may be the last.
ShortFull(got) == got <= SEG
\* A block shorter than SEGSIZE is the last.
Short(got) == got < SEG

\* recvtftp() is content with block m, of which it counts got units.
Got(m, got) ==
    LET h == [h0 EXCEPT !.cur = IF pc.at = "next" THEN @ + 1 ELSE 1,
                        !.valid = got,
                        !.last = (pc.at = "next" /\ @) \/ Short(got),
                        !.buf = [file |-> m.file, block |-> m.block]]
    IN /\ hs' = [hs EXCEPT ![pc.h] = h]
       /\ io' = IF io.xid = 1 THEN [io EXCEPT !.destport = m.tid] ELSE io
       /\ tx' = NoTx
       /\ IF pc.at = "open"
            THEN Return("open", NoErr, 0)
            ELSE /\ pc' = [pc EXCEPT !.at = IF pc.at = "next" /\ h.last THEN "copy"
                                            ELSE "fetch"]
                 /\ UNCHANGED ret

\* Mutant: the destination port is not looked at.
ForAny(m) == TRUE
\* readudp() takes packets to the port of the last request, from anywhere.
ForUs(m) == m.port = io.myport

\* Mutant: any block will do.
ExpectedAny(m) == TRUE
\* The number on the wire has 16 bits, the one it is compared with 32.
Expected(m) == m.block % BlockMod = io.xid

Unwanted ==
    /\ tx' = [tx EXCEPT !.saved = -1]
    /\ UNCHANGED <<hs, io, pc, ret, spoilt>>

\* recvtftp() does not look at a packet shorter than a struct tftphdr.
TooShort == Unwanted

\* A packet for the port.  Answers to a request are read until there is one
\* with data; an error is saved in case there is none.
Receive ==
    /\ InCall /\ tx.waiting
    /\ \E m \in net :
         /\ m.op \in {"DATA", "ERROR"} /\ ForUs(m)
         /\ IF m.op = "DATA"
              THEN IF Expected(m)
                     THEN IF Units(m.file, m.block) >= MinData
                            THEN Got(m, Units(m.file, m.block)) /\ UNCHANGED spoilt
                            ELSE TooShort
                     ELSE Unwanted
            ELSE IF io.xid = 1
              THEN /\ tx' = [tx EXCEPT !.saved = m.code]
                   /\ UNCHANGED <<hs, io, pc, ret, spoilt>>
            ELSE IF m.code > 0 THEN Fail("ENOENT") ELSE Unwanted
    /\ UNCHANGED <<clock, net, sess>>

\* readudp() refuses a packet for another port, but has put it in the buffer:
\* after an error that was saved the buffer is looked at all the same, with
\* the length of the error.
ReceiveForeign ==
    /\ InCall /\ tx.waiting /\ io.xid = 1 /\ tx.saved # -1
    /\ \E m \in net :
         /\ m.op \in {"DATA", "ERROR"} /\ ~ForUs(m)
         /\ IF m.op = "DATA" /\ Expected(m)
              THEN \E got \in MinData .. SEG : Got(m, got) /\ spoilt' = spoilt \cup {pc.h}
            ELSE IF m.op = "ERROR" /\ m.code > 0 THEN Fail("ENOENT")
            ELSE Unwanted
    /\ UNCHANGED <<clock, net, sess>>

-----------------------------------------------------------------------------
(* The clock and the server *)

Tick ==
    /\ clock < MaxClock
    /\ clock' = clock + 1
    /\ UNCHANGED <<clientVars, net, sess>>

Last(s) == Units(s.file, s.block) < SEG
DataOf(tid, s) == DATA(tid, s.port, s.file, s.block)

ServeRRQ ==
    \E m \in net :
      /\ m.op = "RRQ"
      /\ IF Exists(m.file)
           THEN LET s == [file |-> m.file, port |-> m.port, block |-> 1]
                IN /\ Len(sess) < MaxSess
                   /\ sess' = Append(sess, s)
                   /\ net' = net \cup {DataOf(Len(sess) + 1, s)}
           ELSE /\ \E code \in ErrCodes : net' = net \cup {ERROR(m.port, code)}
                /\ UNCHANGED sess
      /\ UNCHANGED <<clientVars, clock>>

ServeACK ==
    \E m \in net :
      /\ m.op = "ACK" /\ m.tid \in DOMAIN sess
      /\ LET s == sess[m.tid]
             t == [s EXCEPT !.block = @ + 1]
         IN /\ m.port = s.port /\ m.block = s.block % BlockMod /\ ~Last(s)
            /\ sess' = [sess EXCEPT ![m.tid] = t]
            /\ net' = net \cup {DataOf(m.tid, t)}
      /\ UNCHANGED <<clientVars, clock>>

-----------------------------------------------------------------------------
Init ==
    /\ hs = [h \in Handle |-> Closed]
    /\ io = [myport |-> 0, destport |-> 0, xid |-> 0]
    /\ pc = NoCall /\ tx = NoTx
    /\ clock = 0 /\ net = {} /\ sess = <<>>
    /\ ret = NoRet /\ spoilt = {}

\* What the loader does by itself once it is in a call.
Local == ReadLoop \/ ReadDone \/ Fetch \/ Copy \/ Send \/ GiveUp

Calls ==
    \E h \in Handle :
      \/ \E f \in Files : tftp_open(h, f)
      \/ \E off \in Offs : tftp_seek(h, off)
      \/ \E size \in Reads : tftp_read(h, size)
      \/ tftp_close(h)

Next ==
    \/ Calls \/ Local \/ SendFails \/ TimeOut \/ Receive \/ ReceiveForeign
    \/ Tick \/ ServeRRQ \/ ServeACK

\* The processor runs and a wait comes to its end; the network owes nothing.
\* A wait for the answer to a request starts anew with each packet that is no
\* data, so the server is assumed not to send errors for ever.
Fairness == WF_vars(Local) /\ WF_vars(TimeOut)

Spec == Init /\ [][Next]_vars /\ Fairness

-----------------------------------------------------------------------------
(* Properties *)

Block == [file : Files \cup {"junk"}, block : Nat]
HandleRec == [file : Files, cur : Nat, last : BOOLEAN, valid : 0 .. SEG, off : Nat,
              buf : Block]
Session == [file : Files, port : 0 .. MaxClock, block : Nat]
Message ==
    [op : {"RRQ"}, file : Files, port : 0 .. MaxClock] \cup
    [op : {"ACK"}, port : 0 .. MaxClock, tid : 0 .. MaxSess, block : Nat] \cup
    [op : {"DATA"}, port : 0 .. MaxClock, tid : 1 .. MaxSess, file : Files, block : Nat] \cup
    [op : {"ERROR"}, port : 0 .. MaxClock, code : ErrCodes]

TypeOK ==
    /\ hs \in [Handle -> {Closed} \cup HandleRec]
    /\ io \in [myport : 0 .. MaxClock, destport : 0 .. MaxSess, xid : Nat]
    /\ pc \in [at : {"idle", "open", "loop", "rereq", "fetch", "next", "copy"},
               h : Handle, size : Nat]
    /\ ~Idle => Opened(h0)
    /\ tx \in [waiting : BOOLEAN, tmo : 1 .. MaxTmo, saved : {-1, 0, 1}]
    /\ clock \in 0 .. MaxClock
    /\ net \subseteq Message
    /\ sess \in Seq(Session) /\ Len(sess) <= MaxSess
    /\ spoilt \subseteq Handle

\* tftp_read() copies out what is in the file at the offset, whatever the
\* network lost, delayed or sent twice, as long as no exchange has failed
\* before, the clock ticked between requests for different files, and no
\* packet refused by readudp() was used.
ReadsRight ==
    [][pc.at = "copy" /\ hs'[pc.h].off # h0.off /\ pc.h \notin spoilt
         => h0.buf = [file |-> h0.file, block |-> NeedBlock]]_vars

\* A read that succeeds and returns less than it was asked for has come to the
\* end of the file.
EofRight ==
    ret.op = "read" /\ ret.err = NoErr /\ ret.left > 0 /\ ret.h \notin spoilt
        => hs[ret.h].off = Size[ret.file]

\* tftp_open() opens files that exist, and says ENOENT only of those that do
\* not: a late error for another file is not taken for the answer.
OpenRight ==
    ret.op = "open" /\ ret.h \notin spoilt
        => /\ ret.err = NoErr => Exists(ret.file)
           /\ ret.err = "ENOENT" => ~Exists(ret.file)

\* Every call comes back, if only with ETIMEDOUT.
CallEnds == ~Idle ~> Idle
=============================================================================
