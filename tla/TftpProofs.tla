----------------------------- MODULE TftpProofs -----------------------------
(***************************************************************************)
(* What tftp_open() and tftp_read() promise, proved of every set of files, *)
(* block size, block number width and number of handles, retransmissions,  *)
(* clock ticks and transfers.                                              *)
(*                                                                         *)
(* The client never sees where a packet comes from, only the port it was   *)
(* sent to and the number of the block.  The invariant therefore ties the  *)
(* port to one file: as long as a handle is not spoilt, every request sent *)
(* from the port in the shared iodesc is for the file of the handle, and   *)
(* everything the server sends to that port comes from such a request.     *)
(***************************************************************************)
EXTENDS Tftp, SequenceTheorems, TLAPS

\* The end of file f is in block b or before it.
EndsBy(f, b) == Size[f] < b * SEG

\* A transfer has not passed the end of its file, and the block it has come to
\* has been asked for by the client, so that its number has not wrapped round.
SessOK ==
    \A t \in DOMAIN sess :
        /\ RRQ(sess[t].file, sess[t].port) \in net
        /\ Exists(sess[t].file)
        /\ sess[t].block \in 1 .. BlockMod
        /\ (sess[t].block - 1) * SEG <= Size[sess[t].file]

\* Where each packet comes from.
NetOK ==
    \A m \in net :
        /\ m.op = "ACK" => m.block \in 1 .. BlockMod - 1
        /\ m.op = "DATA" => /\ m.tid \in DOMAIN sess
                            /\ m.file = sess[m.tid].file /\ m.port = sess[m.tid].port
                            /\ m.block \in 1 .. sess[m.tid].block
        /\ m.op = "ERROR" => \E f \in Files : ~Exists(f) /\ RRQ(f, m.port) \in net

\* recvtftp() waits for block 1 of a request and for the next block otherwise.
\* A request has put all the other handles out of their transfers.
CallOK ==
    /\ pc.at \in {"open", "rereq"} =>
         /\ io.xid = 1
         /\ \A g \in Handle \ {pc.h} : Opened(hs[g]) => g \in spoilt
    /\ pc.at = "open" => h0.cur = 0
    /\ pc.at = "next" => io.xid = h0.cur + 1

Opening(h) == pc.at = "open" /\ pc.h = h
Asking(h) == pc.at \in {"open", "rereq"} /\ pc.h = h
\* currblock is the number of a block as it is on the wire, and not 0.
CurOK ==
    \A h \in Handle : Opened(hs[h]) /\ ~Opening(h) => hs[h].cur \in 1 .. BlockMod - 1

\* Requests from the port are for one file.
OneFile ==
    \A h \in Handle : Opened(hs[h]) /\ h \notin spoilt =>
        \A m \in net : m.op = "RRQ" /\ m.port = io.myport => m.file = hs[h].file

\* An error that was saved is about the file that was asked for.
SavedOK ==
    pc.at \in {"open", "rereq"} /\ pc.h \notin spoilt /\ tx.saved # -1
        => ~Exists(h0.file)

\* lastdata, validsize and islastblock are those of the current block, unless
\* recvtftp() is at work on them.
BufferOK ==
    \A h \in Handle : Opened(hs[h]) /\ h \notin spoilt /\ ~Asking(h) =>
        /\ Exists(hs[h].file)
        /\ (hs[h].cur - 1) * SEG <= Size[hs[h].file]
        /\ hs[h].last => EndsBy(hs[h].file, hs[h].cur)
        /\ ~(pc.at = "next" /\ pc.h = h) =>
             /\ hs[h].buf = [file |-> hs[h].file, block |-> hs[h].cur]
             /\ hs[h].valid = Units(hs[h].file, hs[h].cur)

\* A call that is on its way has returned nothing.
RetOK == ~Idle => ret = NoRet

IInv ==
    /\ TypeOK /\ SessOK /\ NetOK /\ CallOK /\ CurOK /\ OneFile /\ SavedOK /\ BufferOK
    /\ RetOK /\ EofRight /\ OpenRight

-----------------------------------------------------------------------------
(* Types *)

\* A block has at most SEG units.
LEMMA UnitsType ==
    ASSUME NEW f \in Files, NEW b \in Nat
    PROVE  Units(f, b) \in Int /\ Units(f, b) <= SEG
<1>1. (b - 1) * SEG \in Int /\ Size[f] \in Int /\ SEG \in Int
  BY SizeAssumption
<1> DEFINE rest == Size[f] - (b - 1) * SEG
<1>2. rest \in Int
  BY <1>1
<1>3. Units(f, b) = IF rest >= SEG THEN SEG ELSE rest
  BY DEF Units
<1> QED BY <1>1, <1>2, <1>3

\* What a handle in a transfer looks like.
LEMMA HandleType ==
    ASSUME TypeOK, NEW h \in Handle, Opened(hs[h])
    PROVE  hs[h] \in HandleRec
BY DEF TypeOK, Opened, Closed

\* The type invariant holds at the start.
LEMMA InitType == Init => TypeOK
BY SizeAssumption DEF Init, TypeOK, NoCall, NoTx, Handle, Closed, Idle, Session

\* A handle may be replaced by a handle.
LEMMA SetHandle ==
    ASSUME TypeOK, NEW h \in Handle, NEW v \in {Closed} \cup HandleRec,
           hs' = [hs EXCEPT ![h] = v]
    PROVE  hs' \in [Handle -> {Closed} \cup HandleRec] /\ hs'[h] = v
BY DEF TypeOK

\* A call that fails keeps the type invariant.
LEMMA FailType ==
    ASSUME TypeOK, NEW e, InCall, Fail(e), UNCHANGED <<clock, net, sess>>
    PROVE  TypeOK'
<1>1. CASE pc.at = "open"
  <2>1. /\ hs' = [hs EXCEPT ![pc.h] = Closed] /\ pc' = NoCall /\ tx' = NoTx
        /\ UNCHANGED <<io, spoilt>>
    BY <1>1 DEF Fail, Return
  <2>2. pc.h \in Handle
    BY DEF TypeOK
  <2> QED BY <2>1, <2>2, SetHandle, SizeAssumption DEF TypeOK, NoCall, NoTx, Idle, Handle
<1>2. CASE pc.at = "rereq"
  BY <1>2, SizeAssumption, SMTT(40) DEF TypeOK, Fail, NoTx, Idle, Handle, h0
<1>3. CASE pc.at = "next"
  BY <1>3, SizeAssumption DEF TypeOK, Fail, Return, NoCall, NoTx, Idle, Handle
<1> QED BY <1>1, <1>2, <1>3 DEF InCall

\* A block that is taken keeps the type invariant.
LEMMA GotType ==
    ASSUME TypeOK, NEW m \in Message, m.op = "DATA", NEW got \in 0 .. SEG, InCall,
           Got(m, got), spoilt' \in {spoilt, spoilt \cup {pc.h}},
           UNCHANGED <<clock, net, sess>>
    PROVE  TypeOK'
<1>1. /\ pc.h \in Handle /\ h0 \in HandleRec /\ Opened(h0)
      /\ m.tid \in 1 .. MaxSess /\ m.file \in Files /\ m.block \in Nat
  BY HandleType DEF InCall, TypeOK, Idle, Message, h0
<1> DEFINE lst == (pc.at = "next" /\ h0.last) \/ Short(got)
           c == IF pc.at = "next" THEN h0.cur + 1 ELSE 1
           blk == [file |-> m.file, block |-> m.block]
           v == [h0 EXCEPT !.cur = c, !.valid = got, !.last = lst, !.buf = blk]
<1>2. v \in HandleRec /\ v.file = h0.file
  <2>1. lst \in BOOLEAN
    OBVIOUS
  <2>2. c \in Nat /\ blk \in Block
    BY <1>1 DEF HandleRec, Block
  <2> HIDE DEF lst, c, blk
  <2> QED BY <1>1, <2>1, <2>2 DEF HandleRec
<1>3. /\ hs' = [hs EXCEPT ![pc.h] = v] /\ tx' = NoTx
      /\ io' = IF io.xid = 1 THEN [io EXCEPT !.destport = m.tid] ELSE io
      /\ pc' \in {NoCall, [pc EXCEPT !.at = "copy"], [pc EXCEPT !.at = "fetch"]}
  BY DEF Got, Return
<1> HIDE DEF v
<1>4. hs' \in [Handle -> {Closed} \cup HandleRec] /\ hs'[pc.h] = v
  BY <1>1, <1>2, <1>3, SetHandle
<1>5. io' \in [myport : 0 .. MaxClock, destport : 0 .. MaxSess, xid : Nat]
  BY <1>1, <1>3, SizeAssumption, SMTT(40) DEF TypeOK
<1>6. pc'.h \in Handle /\ (~Idle' => Opened(h0'))
  BY <1>1, <1>2, <1>3, <1>4, SizeAssumption, SMTT(40) DEF TypeOK, NoCall, Idle, Handle, h0, Opened
<1> QED BY <1>1, <1>3, <1>4, <1>5, <1>6, SizeAssumption, SMTT(40) DEF TypeOK, NoTx, NoCall

\* The two ways the list of transfers changes.
LEMMA SessAppend ==
    ASSUME TypeOK, NEW s \in Session, sess' = Append(sess, s)
    PROVE  /\ sess' \in Seq(Session) /\ Len(sess') = Len(sess) + 1
           /\ DOMAIN sess' = DOMAIN sess \cup {Len(sess) + 1}
           /\ \A t \in DOMAIN sess : sess'[t] = sess[t]
           /\ sess'[Len(sess) + 1] = s
<1>1. sess \in Seq(Session) /\ Len(sess) \in Nat /\ DOMAIN sess = 1 .. Len(sess)
  BY LenProperties DEF TypeOK
<1>2. sess' \in Seq(Session) /\ Len(sess') = Len(sess) + 1
  BY <1>1, AppendProperties
<1>3. DOMAIN sess' = 1 .. Len(sess) + 1
  BY <1>2, LenProperties
<1>4. /\ \A i \in 1 .. Len(sess) : Append(sess, s)[i] = sess[i]
      /\ Append(sess, s)[Len(sess) + 1] = s
  BY <1>1, AppendProperties
<1> QED BY <1>1, <1>2, <1>3, <1>4

\* One transfer of the server changes.
LEMMA SessExcept ==
    ASSUME TypeOK, NEW i \in DOMAIN sess, NEW s \in Session, sess' = [sess EXCEPT ![i] = s]
    PROVE  /\ sess' \in Seq(Session) /\ Len(sess') = Len(sess)
           /\ DOMAIN sess' = DOMAIN sess
           /\ \A t \in DOMAIN sess : sess'[t] = IF t = i THEN s ELSE sess[t]
<1>1. sess \in Seq(Session) /\ i \in 1 .. Len(sess) /\ DOMAIN sess = 1 .. Len(sess)
  BY LenProperties DEF TypeOK
<1> QED BY <1>1, ExceptSeq

\* What the steps of sendrecv() that stay in it do to the types.
LEMMA UnwantedType ==
    ASSUME TypeOK, Unwanted, UNCHANGED <<clock, net, sess>>
    PROVE  TypeOK'
BY DEF TypeOK, Unwanted, Idle, h0

\* The ways out of a pass of the loop of tftp_read().
Offinblock == h0.off % SEG
Inbuffer == h0.valid - Offinblock
Count == IF pc.size < Inbuffer THEN pc.size ELSE Inbuffer

\* What a round of the loop of tftp_read() may do.
LEMMA CopyStep ==
    ASSUME Copy
    PROVE  \/ Return("read", "EINVAL", pc.size) /\ UNCHANGED hs
           \/ /\ h0.cur = NeedBlock /\ ~(Inbuffer < 0)
              /\ hs' = [hs EXCEPT ![pc.h].off = @ + Count]
              /\ \/ Eof(Count, Inbuffer) /\ Return("read", NoErr, pc.size - Count)
                 \/ /\ pc' = [pc EXCEPT !.at = "loop", !.size = @ - Count]
                    /\ UNCHANGED ret
<1>1. CASE h0.cur # NeedBlock \/ Inbuffer < 0
  BY <1>1 DEF Copy, Inbuffer, Offinblock
<1>2. CASE ~(h0.cur # NeedBlock \/ Inbuffer < 0)
  BY <1>2 DEF Copy, Inbuffer, Offinblock, Count
<1> QED BY <1>1, <1>2

\* Every step keeps the type invariant.
LEMMA TypeNext == TypeOK /\ [Next]_vars => TypeOK'
<1> SUFFICES ASSUME TypeOK, [Next]_vars PROVE TypeOK'
  OBVIOUS
<1> USE SizeAssumption
<1>0. pc.h \in Handle /\ (~Idle => Opened(h0) /\ h0 \in HandleRec)
  BY HandleType DEF TypeOK, h0
<1>m. ASSUME NEW h \in Handle, NEW f, MakeReq(h, f)
      PROVE  /\ io' \in [myport : 0 .. MaxClock, destport : 0 .. MaxSess, xid : Nat]
             /\ tx' \in [waiting : BOOLEAN, tmo : 1 .. MaxTmo, saved : {-1, 0, 1}]
             /\ spoilt' \subseteq Handle
  BY <1>m DEF TypeOK, MakeReq, NoTx
<1>1. ASSUME NEW h \in Handle, NEW f \in Files, tftp_open(h, f) PROVE TypeOK'
  <2> DEFINE v == [file |-> f, cur |-> 0, last |-> FALSE, valid |-> 0, off |-> 0,
                   buf |-> Junk]
  <2>1. v \in HandleRec /\ Opened(v)
    BY DEF HandleRec, Junk, Block, Opened
  <2>2. hs' \in [Handle -> {Closed} \cup HandleRec] /\ hs'[h] = v
    BY <1>1, <2>1, SetHandle DEF tftp_open
  <2> HIDE DEF v
  <2> QED BY <1>1, <1>m, <2>1, <2>2 DEF tftp_open, TypeOK, Idle, h0
<1>2. ASSUME NEW h \in Handle, NEW off \in Offs, tftp_seek(h, off) PROVE TypeOK'
  <2> DEFINE v == [hs[h] EXCEPT !.off = off]
  <2>1. v \in HandleRec
    BY <1>2, HandleType DEF tftp_seek, HandleRec
  <2>2. hs' \in [Handle -> {Closed} \cup HandleRec]
    BY <1>2, <2>1, SetHandle DEF tftp_seek
  <2> QED BY <1>2, <2>2 DEF tftp_seek, TypeOK, Idle
<1>3. ASSUME NEW h \in Handle, NEW size \in Reads, tftp_read(h, size) PROVE TypeOK'
  BY <1>3 DEF tftp_read, TypeOK, Idle, h0
<1>4. ASSUME NEW h \in Handle, tftp_close(h) PROVE TypeOK'
  <2>1. hs' \in [Handle -> {Closed} \cup HandleRec]
    BY <1>4, SetHandle DEF tftp_close
  <2> QED BY <1>4, <2>1 DEF tftp_close, TypeOK, Idle
<1>5. CASE ReadLoop
  <2>1. CASE h0.cur > NeedBlock
    BY <1>0, <1>5, <1>m, <2>1 DEF ReadLoop, TypeOK, Idle, h0
  <2>2. CASE ~(h0.cur > NeedBlock)
    BY <1>0, <1>5, <2>2 DEF ReadLoop, TypeOK, Idle, h0
  <2> QED BY <2>1, <2>2
<1>6. CASE ReadDone
  BY <1>6 DEF ReadDone, Return, NoCall, TypeOK, Idle, Handle
<1>7. CASE Fetch
  <2>1. h0.cur + 1 \in Nat
    BY <1>0, <1>7 DEF Fetch, Idle, HandleRec
  <2>2. io' \in [myport : 0 .. MaxClock, destport : 0 .. MaxSess, xid : Nat]
    BY <1>7, <2>1 DEF Fetch, TypeOK
  <2>3. tx' \in [waiting : BOOLEAN, tmo : 1 .. MaxTmo, saved : {-1, 0, 1}]
    <3>1. tx' = NoTx \/ tx' = tx
      BY <1>7 DEF Fetch
    <3>2. NoTx \in [waiting : BOOLEAN, tmo : 1 .. MaxTmo, saved : {-1, 0, 1}]
      BY DEF NoTx
    <3>3. tx \in [waiting : BOOLEAN, tmo : 1 .. MaxTmo, saved : {-1, 0, 1}]
      BY DEF TypeOK
    <3> QED BY <3>1, <3>2, <3>3, Zenon
  <2>4. pc' \in {[pc EXCEPT !.at = "next"], [pc EXCEPT !.at = "copy"]}
    BY <1>7 DEF Fetch
  <2>5. pc.at = "fetch" /\ UNCHANGED <<hs, ret, spoilt, clock, net, sess>>
    BY <1>7 DEF Fetch
  <2> QED BY <1>0, <2>2, <2>3, <2>4, <2>5, ZenonT(40) DEF TypeOK, Idle, h0
<1>8. CASE Copy
  <2> DEFINE v == [h0 EXCEPT !.off = @ + Count]
  <2>1. CASE pc' = NoCall /\ UNCHANGED hs
    BY <1>8, <2>1 DEF Copy, NoCall, TypeOK, Idle, Handle
  <2>2. CASE /\ ~(Inbuffer < 0) /\ hs' = [hs EXCEPT ![pc.h].off = @ + Count]
             /\ pc' \in {NoCall, [pc EXCEPT !.at = "loop", !.size = @ - Count]}
    <3>1. h0 \in HandleRec /\ Opened(h0) /\ pc.size \in Nat
      BY <1>0, <1>8 DEF Copy, Idle, TypeOK
    <3>2. h0.valid \in Nat /\ h0.off \in Nat /\ h0.off % SEG \in Nat
      BY <3>1 DEF HandleRec
    <3>3. Inbuffer \in Nat /\ Count \in Nat /\ pc.size - Count \in Nat
      BY <2>2, <3>1, <3>2 DEF Inbuffer, Offinblock, Count
    <3>4. v \in HandleRec /\ Opened(v)
      BY <3>1, <3>2, <3>3 DEF HandleRec, Opened
    <3>5. hs' = [hs EXCEPT ![pc.h] = v]
      BY <1>0, <2>2, <3>2, <3>3 DEF h0, TypeOK
    <3> HIDE DEF v
    <3>6. hs' \in [Handle -> {Closed} \cup HandleRec] /\ hs'[pc.h] = v
      BY <1>0, <3>4, <3>5, SetHandle
    <3>7. UNCHANGED <<io, tx, spoilt, clock, net, sess>>
      BY <1>8 DEF Copy
    <3>8. CASE pc' = NoCall
      BY <3>6, <3>7, <3>8 DEF NoCall, TypeOK, Idle, Handle
    <3>9. CASE pc' = [pc EXCEPT !.at = "loop", !.size = @ - Count]
      <4>1. pc'.h = pc.h /\ Opened(h0')
        BY <3>4, <3>6, <3>9 DEF h0, TypeOK
      <4> QED BY <3>3, <3>6, <3>7, <3>9, <4>1 DEF TypeOK
    <3> QED BY <2>2, <3>8, <3>9
  <2>3. \/ pc' = NoCall /\ UNCHANGED hs
        \/ /\ ~(Inbuffer < 0) /\ hs' = [hs EXCEPT ![pc.h].off = @ + Count]
           /\ pc' = NoCall \/ pc' = [pc EXCEPT !.at = "loop", !.size = @ - Count]
    BY <1>8, CopyStep DEF Return
  <2> QED BY <2>1, <2>2, <2>3
<1>9. CASE Send
  <2> DEFINE v == [h0 EXCEPT !.buf = Junk]
  <2>1. h0 \in HandleRec /\ Opened(h0)
    BY <1>0, <1>9 DEF Send, InCall, Idle
  <2>2. v \in HandleRec /\ Opened(v)
    BY <2>1 DEF HandleRec, Junk, Block, Opened
  <2>3. hs' = [hs EXCEPT ![pc.h] = v]
    BY <1>0, <1>9 DEF Send, h0, TypeOK
  <2> HIDE DEF v
  <2>4. hs' \in [Handle -> {Closed} \cup HandleRec] /\ hs'[pc.h] = v
    BY <1>0, <2>2, <2>3, SetHandle
  <2>5. Packet \in Message
    <3>1. h0.cur % BlockMod \in Nat /\ h0.file \in Files
      BY <2>1 DEF HandleRec
    <3> QED BY <3>1 DEF Packet, RRQ, ACK, Message, TypeOK
  <2>6. NextTmo \in 1 .. MaxTmo
    BY <1>9 DEF Send, NextTmo, TypeOK
  <2> QED BY <1>9, <2>2, <2>4, <2>5, <2>6 DEF Send, TypeOK, Idle, h0
<1>10. CASE SendFails
  <2>1. NextTmo \in 1 .. MaxTmo
    BY <1>10 DEF SendFails, NextTmo, TypeOK
  <2> QED BY <1>10, <2>1 DEF SendFails, TypeOK, Idle, h0
<1>11. CASE GiveUp
  BY <1>11, FailType DEF GiveUp
<1>12. CASE TimeOut
  <2>1. CASE tx.saved > 0
    BY <1>12, <2>1, FailType DEF TimeOut
  <2>2. CASE ~(tx.saved > 0)
    BY <1>12, <2>2 DEF TimeOut, TypeOK, Idle, h0
  <2> QED BY <2>1, <2>2
<1>13. CASE Receive
  <2>1. PICK m \in net :
         /\ m.op \in {"DATA", "ERROR"}
         /\ \/ /\ m.op = "DATA" /\ Units(m.file, m.block) >= MinData
               /\ Got(m, Units(m.file, m.block)) /\ UNCHANGED spoilt
            \/ Unwanted
            \/ /\ m.op = "ERROR" /\ tx' = [tx EXCEPT !.saved = m.code]
               /\ UNCHANGED <<hs, io, pc, ret, spoilt>>
            \/ Fail("ENOENT")
    BY <1>13 DEF Receive, TooShort
  <2>2. m \in Message /\ InCall /\ UNCHANGED <<clock, net, sess>>
    BY <1>13 DEF Receive, TypeOK
  <2>3. CASE /\ m.op = "DATA" /\ Units(m.file, m.block) >= MinData
             /\ Got(m, Units(m.file, m.block)) /\ UNCHANGED spoilt
    <3>1. Units(m.file, m.block) \in 0 .. SEG
      BY <2>2, <2>3, UnitsType DEF Message
    <3> QED BY <2>2, <2>3, <3>1, GotType
  <2>4. CASE /\ m.op = "ERROR" /\ tx' = [tx EXCEPT !.saved = m.code]
             /\ UNCHANGED <<hs, io, pc, ret, spoilt>>
    <3>1. m.code \in {0, 1}
      BY <2>2, <2>4 DEF Message
    <3> QED BY <2>2, <2>4, <3>1 DEF TypeOK, Idle, h0
  <2> QED BY <2>1, <2>2, <2>3, <2>4, UnwantedType, FailType
<1>14. CASE ReceiveForeign
  <2>1. PICK m \in net :
         /\ m.op \in {"DATA", "ERROR"}
         /\ \/ /\ m.op = "DATA"
               /\ \E got \in MinData .. SEG : Got(m, got) /\ spoilt' = spoilt \cup {pc.h}
            \/ Unwanted
            \/ Fail("ENOENT")
    BY <1>14 DEF ReceiveForeign
  <2>2. m \in Message /\ InCall /\ UNCHANGED <<clock, net, sess>>
    BY <1>14 DEF ReceiveForeign, TypeOK
  <2>3. ASSUME NEW got \in MinData .. SEG, m.op = "DATA", Got(m, got),
               spoilt' = spoilt \cup {pc.h}
        PROVE  TypeOK'
    <3>1. got \in 0 .. SEG
      BY <2>3
    <3> QED BY <2>2, <2>3, <3>1, GotType
  <2> QED BY <2>1, <2>2, <2>3, UnwantedType, FailType
<1>15. CASE Tick
  BY <1>15 DEF Tick, clientVars, TypeOK, Idle, h0
<1>16. CASE ServeRRQ
  <2>1. PICK m \in net :
         /\ m.op = "RRQ"
         /\ \/ LET s == [file |-> m.file, port |-> m.port, block |-> 1]
               IN /\ Len(sess) < MaxSess
                  /\ sess' = Append(sess, s)
                  /\ net' = net \cup {DataOf(Len(sess) + 1, s)}
            \/ /\ \E code \in ErrCodes : net' = net \cup {ERROR(m.port, code)}
               /\ UNCHANGED sess
         /\ UNCHANGED <<clientVars, clock>>
    BY <1>16 DEF ServeRRQ
  <2>2. m.file \in Files /\ m.port \in 0 .. MaxClock
    BY <2>1 DEF TypeOK, Message
  <2> DEFINE s == [file |-> m.file, port |-> m.port, block |-> 1]
  <2>3. sess' \in Seq(Session) /\ Len(sess') <= MaxSess /\ net' \subseteq Message
    <3>1. CASE /\ Len(sess) < MaxSess
               /\ sess' = Append(sess, s)
               /\ net' = net \cup {DataOf(Len(sess) + 1, s)}
      <4>1. s \in Session /\ Len(sess) \in Nat
        BY <2>2, LenProperties DEF Session, TypeOK
      <4>2. sess' \in Seq(Session) /\ Len(sess') = Len(sess) + 1
        BY <3>1, <4>1, SessAppend
      <4>3. DataOf(Len(sess) + 1, s) \in Message
        BY <2>2, <3>1, <4>1 DEF DataOf, DATA, Message
      <4> QED BY <3>1, <4>1, <4>2, <4>3 DEF TypeOK
    <3>2. ASSUME NEW code \in ErrCodes, net' = net \cup {ERROR(m.port, code)},
                 UNCHANGED sess
          PROVE  sess' \in Seq(Session) /\ Len(sess') <= MaxSess /\ net' \subseteq Message
      BY <2>2, <3>2 DEF TypeOK, ERROR, Message
    <3> QED BY <2>1, <3>1, <3>2
  <2> QED BY <2>1, <2>3 DEF TypeOK, clientVars, Idle, h0
<1>17. CASE ServeACK
  <2>1. PICK m \in net :
         /\ m.tid \in DOMAIN sess
         /\ LET t == [sess[m.tid] EXCEPT !.block = @ + 1]
            IN /\ sess' = [sess EXCEPT ![m.tid] = t]
               /\ net' = net \cup {DataOf(m.tid, t)}
         /\ UNCHANGED <<clientVars, clock>>
    BY <1>17 DEF ServeACK
  <2> DEFINE t == [sess[m.tid] EXCEPT !.block = @ + 1]
  <2>2. t \in Session /\ m.tid \in 1 .. MaxSess
    <3>1. m.tid \in 1 .. Len(sess) /\ Len(sess) \in Nat /\ sess[m.tid] \in Session
      BY <2>1, LenProperties, ElementOfSeq DEF TypeOK
    <3>2. sess[m.tid].block + 1 \in Nat
      BY <3>1 DEF Session
    <3>3. t \in Session
      BY <3>1, <3>2 DEF Session
    <3> QED BY <3>1, <3>3 DEF TypeOK
  <2>3. DataOf(m.tid, t) \in Message
    <3> HIDE DEF t
    <3> QED BY <2>2 DEF Session, Message, DataOf, DATA
  <2>4. sess' \in Seq(Session) /\ Len(sess') = Len(sess) /\ net' \subseteq Message
    BY <2>1, <2>2, <2>3, SessExcept DEF TypeOK
  <2> QED BY <2>1, <2>4 DEF TypeOK, clientVars, Idle, h0
<1>18. CASE UNCHANGED vars
  BY <1>18 DEF TypeOK, vars, clientVars, Idle, h0
<1> QED
  BY <1>1, <1>2, <1>3, <1>4, <1>5, <1>6, <1>7, <1>8, <1>9, <1>10, <1>11, <1>12, <1>13,
     <1>14, <1>15, <1>16, <1>17, <1>18 DEF Next, Calls, Local

\* The states of the handles, the socket, the calls and the packets are what
\* the C types allow, whatever the network does.
THEOREM TypeCorrect == Spec => []TypeOK
BY InitType, TypeNext, PTL DEF Spec

-----------------------------------------------------------------------------
(* The network and the server *)

\* A number below k is its own remainder.
LEMMA ModSmall ==
    ASSUME NEW k \in Nat \ {0}, NEW a \in 0 .. k - 1
    PROVE  a % k = a
OBVIOUS

\* So is one up to k that k does not divide.
LEMMA ModSelf ==
    ASSUME NEW k \in Nat \ {0}, NEW a \in 1 .. k, a % k # 0
    PROVE  a \in 1 .. k - 1 /\ a % k = a
OBVIOUS

\* Whether block b of file f is full.
LEMMA UnitsFull ==
    ASSUME NEW f \in Files, NEW b \in Nat
    PROVE  /\ Units(f, b) < SEG <=> EndsBy(f, b)
           /\ EndsBy(f, b) => Units(f, b) = Size[f] - (b - 1) * SEG
           /\ b * SEG = (b - 1) * SEG + SEG
<1> DEFINE p == (b - 1) * SEG
<1>1. p \in Int /\ Size[f] \in Int /\ SEG \in Int
  BY SizeAssumption
<1>2. b * SEG = p + SEG
  BY SizeAssumption
<1>3. Units(f, b) = IF Size[f] - p >= SEG THEN SEG ELSE Size[f] - p
  BY DEF Units
<1> HIDE DEF p
<1>4. Units(f, b) < SEG <=> Size[f] < p + SEG
  BY <1>1, <1>3
<1>5. Size[f] < p + SEG => Units(f, b) = Size[f] - p
  BY <1>1, <1>3
<1> QED BY <1>2, <1>4, <1>5 DEF EndsBy, p

\* The requests are not touched by what the server sends.
LEMMA SessMono ==
    ASSUME TypeOK, SessOK, NetOK, net \subseteq net', DOMAIN sess \subseteq DOMAIN sess',
           \A t \in DOMAIN sess : /\ sess'[t].file = sess[t].file
                                  /\ sess'[t].port = sess[t].port
                                  /\ sess[t].block \in Nat /\ sess'[t].block \in Nat
                                  /\ sess[t].block <= sess'[t].block
    PROVE  \A m \in net :
             /\ m.op = "ACK" => m.block \in 1 .. BlockMod - 1
             /\ m.op = "DATA" => /\ m.tid \in DOMAIN sess'
                                 /\ m.file = sess'[m.tid].file /\ m.port = sess'[m.tid].port
                                 /\ m.block \in 1 .. sess'[m.tid].block
             /\ m.op = "ERROR" => \E f \in Files : ~Exists(f) /\ RRQ(f, m.port) \in net'
<1> TAKE m \in net
<1>1. m.op = "ACK" => m.block \in 1 .. BlockMod - 1
  BY DEF NetOK
<1>2. ASSUME m.op = "DATA"
      PROVE  /\ m.tid \in DOMAIN sess'
             /\ m.file = sess'[m.tid].file /\ m.port = sess'[m.tid].port
             /\ m.block \in 1 .. sess'[m.tid].block
  BY <1>2 DEF NetOK
<1>3. m.op = "ERROR" => \E f \in Files : ~Exists(f) /\ RRQ(f, m.port) \in net'
  BY DEF NetOK
<1> QED BY <1>1, <1>2, <1>3

\* The server's steps keep its own books.
LEMMA ServerSteps ==
    ASSUME TypeOK, SessOK, NetOK, ServeRRQ \/ ServeACK
    PROVE  /\ SessOK' /\ NetOK' /\ UNCHANGED <<clientVars, clock>>
           /\ \A m \in net' : m.op = "RRQ" => m \in net
<1> USE SizeAssumption
<1>0. \A t \in DOMAIN sess : sess[t] \in Session
  BY ElementOfSeq, LenProperties DEF TypeOK
<1>1. ASSUME ServeRRQ
      PROVE  /\ SessOK' /\ NetOK' /\ UNCHANGED <<clientVars, clock>>
             /\ \A m \in net' : m.op = "RRQ" => m \in net
  <2> PICK m \in net :
         /\ m.op = "RRQ"
         /\ \/ LET s == [file |-> m.file, port |-> m.port, block |-> 1]
               IN /\ Exists(m.file)
                  /\ sess' = Append(sess, s)
                  /\ net' = net \cup {DataOf(Len(sess) + 1, s)}
            \/ /\ ~Exists(m.file)
               /\ \E code \in ErrCodes : net' = net \cup {ERROR(m.port, code)}
               /\ UNCHANGED sess
         /\ UNCHANGED <<clientVars, clock>>
    BY <1>1 DEF ServeRRQ
  <2>1. m.file \in Files /\ m.port \in 0 .. MaxClock /\ m = RRQ(m.file, m.port)
    BY DEF TypeOK, Message, RRQ
  <2> DEFINE s == [file |-> m.file, port |-> m.port, block |-> 1]
             d == DataOf(Len(sess) + 1, s)
  <2>2. CASE Exists(m.file) /\ sess' = Append(sess, s) /\ net' = net \cup {d}
    <3>1. s \in Session
      BY <2>1 DEF Session
    <3>2. /\ DOMAIN sess' = DOMAIN sess \cup {Len(sess) + 1}
          /\ \A t \in DOMAIN sess : sess'[t] = sess[t]
          /\ sess'[Len(sess) + 1] = s
      BY <2>2, <3>1, SessAppend
    <3>3. d.op = "DATA" /\ d.tid = Len(sess) + 1 /\ d.file = s.file /\ d.port = s.port
          /\ d.block = 1 /\ s.block = 1
      BY DEF DataOf, DATA
    <3>4. SessOK'
      <4>1. (1 - 1) * SEG = 0 /\ 0 <= Size[m.file]
        BY <2>1, <2>2 DEF Exists
      <4>2. ASSUME NEW t \in DOMAIN sess'
            PROVE  /\ RRQ(sess'[t].file, sess'[t].port) \in net'
                   /\ Exists(sess'[t].file)
                   /\ sess'[t].block \in 1 .. BlockMod
                   /\ (sess'[t].block - 1) * SEG <= Size[sess'[t].file]
        <5>1. CASE t \in DOMAIN sess
          BY <2>2, <3>2, <5>1 DEF SessOK
        <5>2. CASE t = Len(sess) + 1
          BY <2>1, <2>2, <3>2, <4>1, <5>2
        <5> QED BY <3>2, <4>2, <5>1, <5>2
      <4> QED BY <4>2 DEF SessOK, Exists
    <3> HIDE DEF d, s
    <3>5. NetOK'
      <4>1. \A t \in DOMAIN sess : sess[t].block \in Nat
        BY <1>0 DEF Session
      <4>2. \A k \in net :
             /\ k.op = "ACK" => k.block \in 1 .. BlockMod - 1
             /\ k.op = "DATA" => /\ k.tid \in DOMAIN sess'
                                 /\ k.file = sess'[k.tid].file /\ k.port = sess'[k.tid].port
                                 /\ k.block \in 1 .. sess'[k.tid].block
             /\ k.op = "ERROR" => \E f \in Files : ~Exists(f) /\ RRQ(f, k.port) \in net'
        BY <2>2, <3>2, <4>1, SessMono
      <4> QED BY <2>2, <3>2, <3>3, <4>2 DEF NetOK, Exists
    <3> QED BY <2>2, <3>3, <3>4, <3>5
  <2>3. ASSUME ~Exists(m.file), NEW code \in ErrCodes, UNCHANGED sess,
               net' = net \cup {ERROR(m.port, code)}
        PROVE  /\ SessOK' /\ NetOK' /\ UNCHANGED <<clientVars, clock>>
               /\ \A k \in net' : k.op = "RRQ" => k \in net
    BY <2>1, <2>3 DEF SessOK, NetOK, Exists, ERROR
  <2> QED BY <2>2, <2>3
<1>2. ASSUME ServeACK
      PROVE  /\ SessOK' /\ NetOK' /\ UNCHANGED <<clientVars, clock>>
             /\ \A m \in net' : m.op = "RRQ" => m \in net
  <2> PICK m \in net :
         /\ m.op = "ACK" /\ m.tid \in DOMAIN sess
         /\ LET s == sess[m.tid]
                t == [s EXCEPT !.block = @ + 1]
            IN /\ m.block = s.block % BlockMod /\ ~Last(s)
               /\ sess' = [sess EXCEPT ![m.tid] = t]
               /\ net' = net \cup {DataOf(m.tid, t)}
         /\ UNCHANGED <<clientVars, clock>>
    BY <1>2 DEF ServeACK
  <2> DEFINE s == sess[m.tid]
             t == [s EXCEPT !.block = @ + 1]
             d == DataOf(m.tid, t)
  <2>1. /\ s \in Session /\ s.file \in Files /\ s.block \in 1 .. BlockMod
        /\ Exists(s.file) /\ RRQ(s.file, s.port) \in net
    BY <1>0 DEF Session, SessOK
  <2>2. s.block \in 1 .. BlockMod - 1
    <3>1. s.block % BlockMod # 0
      BY DEF NetOK
    <3> QED BY <2>1, <3>1, ModSelf
  <2>3. s.block * SEG <= Size[s.file]
    <3>1. ~EndsBy(s.file, s.block)
      BY <2>1, UnitsFull, UnitsType DEF Last
    <3> QED BY <2>1, <3>1 DEF EndsBy
  <2>4. /\ t \in Session /\ t.block = s.block + 1 /\ t.file = s.file /\ t.port = s.port
    BY <2>1 DEF Session
  <2>5. /\ DOMAIN sess' = DOMAIN sess
        /\ \A i \in DOMAIN sess : sess'[i] = IF i = m.tid THEN t ELSE sess[i]
    BY <2>4, SessExcept
  <2>6. d.op = "DATA" /\ d.tid = m.tid /\ d.file = t.file /\ d.port = t.port
        /\ d.block = t.block
    BY DEF DataOf, DATA
  <2>7. net' = net \cup {d}
    OBVIOUS
  <2> HIDE DEF t, d
  <2>8. SessOK'
    <3> SUFFICES ASSUME NEW i \in DOMAIN sess'
                 PROVE  /\ RRQ(sess'[i].file, sess'[i].port) \in net'
                        /\ Exists(sess'[i].file)
                        /\ sess'[i].block \in 1 .. BlockMod
                        /\ (sess'[i].block - 1) * SEG <= Size[sess'[i].file]
      BY DEF SessOK, Exists
    <3>1. CASE i # m.tid
      BY <2>5, <2>7, <3>1 DEF SessOK
    <3>2. CASE i = m.tid
      <4>1. (t.block - 1) = s.block
        BY <2>2, <2>4
      <4> QED BY <2>1, <2>2, <2>3, <2>4, <2>5, <2>7, <3>2, <4>1
    <3> QED BY <3>1, <3>2
  <2>9. NetOK'
    <3>1. \A i \in DOMAIN sess : /\ sess'[i].file = sess[i].file
                                 /\ sess'[i].port = sess[i].port
                                 /\ sess[i].block \in Nat /\ sess'[i].block \in Nat
                                 /\ sess[i].block <= sess'[i].block
      <4> SUFFICES ASSUME NEW i \in DOMAIN sess
                   PROVE  /\ sess'[i].file = sess[i].file
                          /\ sess'[i].port = sess[i].port
                          /\ sess[i].block \in Nat /\ sess'[i].block \in Nat
                          /\ sess[i].block <= sess'[i].block
        OBVIOUS
      <4>1. sess[i].block \in Nat
        BY <1>0 DEF Session
      <4> QED BY <2>2, <2>4, <2>5, <4>1
    <3>2. \A k \in net :
             /\ k.op = "ACK" => k.block \in 1 .. BlockMod - 1
             /\ k.op = "DATA" => /\ k.tid \in DOMAIN sess'
                                 /\ k.file = sess'[k.tid].file /\ k.port = sess'[k.tid].port
                                 /\ k.block \in 1 .. sess'[k.tid].block
             /\ k.op = "ERROR" => \E f \in Files : ~Exists(f) /\ RRQ(f, k.port) \in net'
      BY <2>5, <2>7, <3>1, SessMono
    <3>3. d.block \in 1 .. sess'[d.tid].block /\ d.tid \in DOMAIN sess'
          /\ d.file = sess'[d.tid].file /\ d.port = sess'[d.tid].port
      BY <2>2, <2>4, <2>5, <2>6
    <3> QED BY <2>6, <2>7, <3>2, <3>3 DEF NetOK, Exists
  <2> QED BY <2>6, <2>7, <2>8, <2>9
<1> QED BY <1>1, <1>2

\* What the client sends keeps the server's books.
LEMMA SendServer ==
    ASSUME TypeOK, SessOK, NetOK, CurOK, Send
    PROVE  SessOK' /\ NetOK'
<1> USE SizeAssumption
<1>1. net' = net \cup {Packet} /\ UNCHANGED sess
  BY DEF Send
<1>2. Packet.op = "RRQ" \/ (Packet.op = "ACK" /\ Packet.block \in 1 .. BlockMod - 1)
  <2>1. CASE pc.at = "next"
    <3>1. h0.cur \in 1 .. BlockMod - 1
      BY <2>1 DEF TypeOK, CurOK, Opening, Idle, h0
    <3>2. h0.cur % BlockMod = h0.cur
      BY <3>1, ModSmall
    <3> QED BY <2>1, <3>1, <3>2 DEF Packet, ACK
  <2> QED BY <2>1 DEF Packet, RRQ
<1>3. SessOK'
  BY <1>1 DEF SessOK, Exists
<1>4. ASSUME NEW m \in net, m.op = "ERROR"
      PROVE  \E f \in Files : ~Exists(f) /\ RRQ(f, m.port) \in net'
  BY <1>1, <1>4 DEF NetOK
<1> QED BY <1>1, <1>2, <1>3, <1>4 DEF NetOK, Exists

-----------------------------------------------------------------------------
(* What a packet says *)

\* A packet to the port of a handle that is not spoilt is about its file.
LEMMA RightFile ==
    ASSUME TypeOK, SessOK, NetOK, OneFile, NEW m \in net, ForUs(m),
           NEW h \in Handle, Opened(hs[h]), h \notin spoilt
    PROVE  /\ m.op = "DATA" => m.file = hs[h].file
           /\ m.op = "ERROR" => ~Exists(hs[h].file)
<1>1. ASSUME NEW f, RRQ(f, m.port) \in net PROVE f = hs[h].file
  <2>1. RRQ(f, m.port).op = "RRQ" /\ RRQ(f, m.port).port = m.port /\ RRQ(f, m.port).file = f
    BY DEF RRQ
  <2> QED BY <1>1, <2>1 DEF OneFile, ForUs
<1> QED BY <1>1 DEF NetOK, SessOK

\* What is known of a block wherever it was sent: it is one of its file, and
\* the number recvtftp() compares is its own.
LEMMA RightBlock ==
    ASSUME TypeOK, SessOK, NetOK, NEW m \in net, m.op = "DATA", Expected(m), io.xid # 0
    PROVE  /\ m.block = io.xid /\ io.xid \in 1 .. BlockMod - 1
           /\ m.file \in Files /\ Exists(m.file) /\ (m.block - 1) * SEG <= Size[m.file]
<1> USE SizeAssumption
<1>1. /\ m.file \in Files /\ m.block \in Nat
  BY DEF TypeOK, Message
<1>2. /\ m.tid \in DOMAIN sess /\ m.file = sess[m.tid].file
      /\ m.block \in 1 .. sess[m.tid].block /\ sess[m.tid].block \in 1 .. BlockMod
      /\ Exists(m.file)
      /\ (sess[m.tid].block - 1) * SEG <= Size[m.file]
  BY DEF NetOK, SessOK
<1>3. m.block \in 1 .. BlockMod - 1 /\ m.block = io.xid
  <2>1. m.block \in 1 .. BlockMod /\ m.block % BlockMod # 0
    BY <1>2 DEF Expected
  <2> QED BY <2>1, ModSelf DEF Expected
<1>4. (m.block - 1) * SEG <= Size[m.file]
  <2> DEFINE b == sess[m.tid].block
  <2>1. b \in Nat /\ m.block <= b /\ SEG \in Nat /\ Size[m.file] \in Int
    BY <1>1, <1>2
  <2>2. b - m.block \in Nat
    BY <1>1, <2>1
  <2>3. (b - 1) * SEG = (m.block - 1) * SEG + (b - m.block) * SEG
    BY <1>1, <2>1
  <2>4. (b - m.block) * SEG \in Nat /\ (m.block - 1) * SEG \in Int
    BY <1>1, <2>1, <2>2
  <2> QED BY <1>2, <2>1, <2>3, <2>4
<1> QED BY <1>1, <1>2, <1>3, <1>4

-----------------------------------------------------------------------------
(* The client *)

ClientInv ==
    /\ CallOK /\ CurOK /\ OneFile /\ SavedOK /\ BufferOK /\ RetOK /\ EofRight /\ OpenRight

\* The invariant holds at the start.
LEMMA InitInv == Init => IInv
<1> SUFFICES ASSUME Init PROVE IInv
  OBVIOUS
<1>1. TypeOK
  BY InitType
<1>2. DOMAIN sess = {}
  BY DEF Init
<1> QED BY <1>1, <1>2 DEF Init, IInv, SessOK, NetOK, CallOK, CurOK, OneFile, SavedOK,
        BufferOK, RetOK, EofRight, OpenRight, NoCall, NoRet, Closed, Opened, Idle

\* sendrecv() failed.  If that is what tftp_open() says, it must be true.
LEMMA FailInv ==
    ASSUME IInv, InCall, NEW e \in {"ETIMEDOUT", "ENOENT"}, Fail(e),
           UNCHANGED <<clock, net, sess>>,
           e = "ENOENT" /\ pc.at = "open" /\ pc.h \notin spoilt => ~Exists(h0.file)
    PROVE  ClientInv'
<1>0. /\ TypeOK /\ CallOK /\ CurOK /\ OneFile /\ BufferOK /\ RetOK
      /\ pc.h \in Handle /\ ret = NoRet /\ tx' = NoTx /\ UNCHANGED io
  BY DEF IInv, RetOK, InCall, Idle, TypeOK, Fail
<1>1. CASE pc.at = "open"
  <2>1. /\ hs' = [hs EXCEPT ![pc.h] = Closed] /\ pc' = NoCall /\ UNCHANGED spoilt
        /\ ret' = [op |-> "open", err |-> e, left |-> 0, h |-> pc.h, file |-> h0.file]
    BY <1>1 DEF Fail, Return
  <2>2. /\ \A g \in Handle : Opened(hs'[g]) => g # pc.h /\ hs'[g] = hs[g] /\ g \in spoilt
        /\ pc'.at = "idle"
    BY <1>0, <1>1, <2>1 DEF TypeOK, CallOK, Closed, Opened, NoCall
  <2>3. OpenRight' /\ EofRight'
    BY <1>1, <2>1 DEF OpenRight, EofRight, NoErr, Exists
  <2>4. CurOK'
    BY <1>0, <1>1, <2>2 DEF CurOK, Opening
  <2> QED BY <1>0, <2>1, <2>2, <2>3, <2>4
          DEF ClientInv, CallOK, OneFile, SavedOK, BufferOK, RetOK, Idle
<1>2. CASE pc.at = "rereq"
  <2>1. /\ pc' = [pc EXCEPT !.at = "fetch"] /\ spoilt' = spoilt \cup {pc.h}
        /\ UNCHANGED <<hs, ret>>
    BY <1>2 DEF Fail
  <2>2. /\ pc'.at = "fetch" /\ pc'.h = pc.h
        /\ \A g \in Handle : Opened(hs[g]) => g \in spoilt'
    BY <1>0, <1>2, <2>1 DEF TypeOK, CallOK
  <2>3. CurOK'
    BY <1>0, <1>2, <2>1, <2>2 DEF CurOK, Opening
  <2> QED BY <1>0, <2>1, <2>2, <2>3 DEF ClientInv, CallOK, OneFile, SavedOK, BufferOK,
          RetOK, Idle, EofRight, OpenRight, NoRet
<1>3. CASE pc.at = "next"
  <2>1. /\ pc' = NoCall /\ spoilt' = spoilt \cup {pc.h} /\ UNCHANGED hs
        /\ ret' = [op |-> "read", err |-> e, left |-> pc.size, h |-> pc.h, file |-> h0.file]
    BY <1>3 DEF Fail, Return
  <2>2. pc'.at = "idle"
    BY <2>1 DEF NoCall
  <2>3. OpenRight' /\ EofRight'
    BY <2>1 DEF OpenRight, EofRight, NoErr
  <2>4. CurOK' /\ OneFile'
    BY <1>0, <1>3, <2>1, <2>2 DEF CurOK, Opening, OneFile
  <2>5. BufferOK'
    BY <1>0, <1>3, <2>1, <2>2 DEF BufferOK, Asking, Exists, EndsBy, Units
  <2> QED BY <2>2, <2>3, <2>4, <2>5 DEF ClientInv, CallOK, SavedOK, RetOK, Idle
<1> QED BY <1>1, <1>2, <1>3 DEF InCall

\* recvtftp() takes block m: the one that was waited for, if it was sent to
\* the port; otherwise the handle is spoilt.
LEMMA GotInv ==
    ASSUME IInv, InCall, NEW m \in net, m.op = "DATA", Expected(m), NEW got,
           Got(m, got), UNCHANGED <<clock, net, sess>>,
           \/ ForUs(m) /\ got = Units(m.file, m.block) /\ UNCHANGED spoilt
           \/ spoilt' = spoilt \cup {pc.h}
    PROVE  ClientInv'
<1> USE SizeAssumption
<1>0. /\ TypeOK /\ SessOK /\ NetOK /\ CallOK /\ CurOK /\ OneFile /\ BufferOK
      /\ pc.h \in Handle /\ ret = NoRet /\ Opened(h0) /\ h0 \in HandleRec
  BY HandleType DEF IInv, RetOK, InCall, Idle, TypeOK, h0
<1> DEFINE v == hs'[pc.h]
           c == IF pc.at = "next" THEN h0.cur + 1 ELSE 1
<1>1. /\ \A g \in Handle \ {pc.h} : hs'[g] = hs[g]
      /\ v.file = h0.file /\ v.cur = c /\ v.valid = got
      /\ v.buf = [file |-> m.file, block |-> m.block]
      /\ io'.myport = io.myport
  BY <1>0 DEF Got, TypeOK, h0, HandleRec
<1>2. v.last => Short(got) \/ (pc.at = "next" /\ h0.last)
  <2> DEFINE lst == (pc.at = "next" /\ h0.last) \/ Short(got)
  <2>1. v.last = lst
    BY <1>0 DEF Got, TypeOK, h0, HandleRec
  <2> QED BY <2>1
<1>3. \/ /\ pc.at = "open" /\ pc' = NoCall /\ pc'.at = "idle"
         /\ ret' = [op |-> "open", err |-> NoErr, left |-> 0, h |-> pc.h, file |-> h0.file]
      \/ /\ pc.at # "open" /\ pc'.at \in {"copy", "fetch"} /\ UNCHANGED ret
  BY <1>0 DEF Got, Return, NoCall, TypeOK
<1>4. c = io.xid /\ c # 0
  BY <1>0 DEF CallOK, InCall, HandleRec
<1>5. /\ m.block = c /\ c \in 1 .. BlockMod - 1
      /\ m.file \in Files /\ Exists(m.file) /\ (m.block - 1) * SEG <= Size[m.file]
  BY <1>0, <1>4, RightBlock
<1>6. ASSUME pc.h \notin spoilt'
      PROVE  ForUs(m) /\ got = Units(m.file, m.block) /\ m.file = h0.file /\ pc.h \notin spoilt
  BY <1>0, <1>6, RightFile DEF h0
<1> HIDE DEF v, c
<1>7. CurOK'
  BY <1>0, <1>1, <1>3, <1>5 DEF CurOK, Opening, v
<1>8. OneFile'
  BY <1>0, <1>1 DEF OneFile, v, h0, Opened
<1>9. BufferOK'
  <2> SUFFICES ASSUME NEW h \in Handle, Opened(hs'[h]), h \notin spoilt'
               PROVE  /\ Exists(hs'[h].file)
                      /\ (hs'[h].cur - 1) * SEG <= Size[hs'[h].file]
                      /\ hs'[h].last => EndsBy(hs'[h].file, hs'[h].cur)
                      /\ hs'[h].buf = [file |-> hs'[h].file, block |-> hs'[h].cur]
                      /\ hs'[h].valid = Units(hs'[h].file, hs'[h].cur)
    BY DEF BufferOK, Exists, EndsBy, Units
  <2>1. CASE h # pc.h
    <3>1. hs'[h] = hs[h] /\ h \notin spoilt
      BY <1>1, <2>1
    <3>2. pc.at = "next"
      BY <1>0, <2>1, <3>1 DEF CallOK, InCall
    <3> QED BY <1>0, <2>1, <3>1, <3>2 DEF BufferOK, Asking
  <2>2. CASE h = pc.h
    <3>1. /\ m.file = h0.file /\ got = Units(m.file, m.block) /\ pc.h \notin spoilt
      BY <1>6, <2>2
    <3>2. ASSUME v.last PROVE EndsBy(v.file, v.cur)
      <4>1. CASE Short(got)
        <5>1. Units(m.file, m.block) < SEG
          BY <3>1, <4>1 DEF Short
        <5> QED BY <1>1, <1>5, <3>1, <5>1, UnitsFull
      <4>2. CASE pc.at = "next" /\ h0.last
        <5>1. EndsBy(h0.file, h0.cur)
          BY <1>0, <3>1, <4>2 DEF BufferOK, Asking, h0
        <5>2. m.block - 1 = h0.cur
          BY <1>0, <1>5, <4>2 DEF c, HandleRec
        <5>3. h0.cur * SEG \in Int /\ Size[h0.file] \in Int
          BY <1>0 DEF HandleRec
        <5> QED BY <1>5, <3>1, <5>1, <5>2, <5>3 DEF EndsBy
      <4> QED BY <1>2, <3>2, <4>1, <4>2
    <3> QED BY <1>1, <1>5, <2>2, <3>1, <3>2 DEF v
  <2> QED BY <2>1, <2>2
<1>10. OpenRight'
  <2>1. CASE pc.at = "open" /\ ret'.op = "open" /\ ret'.h \notin spoilt'
    BY <1>3, <1>5, <1>6, <2>1 DEF OpenRight, Exists, NoErr
  <2>2. CASE ~(pc.at = "open" /\ ret'.op = "open" /\ ret'.h \notin spoilt')
    BY <1>0, <1>3, <2>2 DEF OpenRight, NoRet
  <2> QED BY <2>1, <2>2
<1>11. CallOK' /\ SavedOK' /\ RetOK' /\ EofRight'
  BY <1>0, <1>3 DEF CallOK, SavedOK, RetOK, Idle, EofRight, NoRet, NoErr
<1> QED BY <1>7, <1>8, <1>9, <1>10, <1>11 DEF ClientInv

\* tftp_makereq(): the handle is the only one with a transfer, and its file
\* the only one that was ever asked for from the new port, or it is spoilt.
LEMMA MakeReqInv ==
    ASSUME TypeOK, CurOK, NEW h \in Handle, NEW f, MakeReq(h, f), UNCHANGED net,
           pc'.at \in {"open", "rereq"}, pc'.h = h, ret' = NoRet,
           Opened(hs'[h]), hs'[h].file = f, hs'[h].cur \in Nat,
           \A g \in Handle \ {h} : hs'[g] = hs[g],
           pc'.at = "open" => Idle /\ hs'[h].cur = 0,
           pc'.at = "rereq" => pc.at = "loop" /\ UNCHANGED hs
    PROVE  ClientInv'
<1>1. /\ io'.xid = 1 /\ io'.myport = clock /\ tx' = NoTx
      /\ \A g \in Handle \ {h} : Opened(hs'[g]) => g \in spoilt'
      /\ h \notin spoilt' =>
           \A m \in net : m.op = "RRQ" /\ m.port = clock => m.file = f
  BY DEF MakeReq
<1>2. CallOK'
  BY <1>1 DEF CallOK, h0
<1>3. CurOK'
  BY DEF CurOK, Opening, Idle
<1>4. OneFile' /\ BufferOK'
  BY <1>1 DEF OneFile, BufferOK, Asking
<1>5. SavedOK' /\ RetOK' /\ EofRight' /\ OpenRight'
  BY <1>1 DEF SavedOK, NoTx, RetOK, EofRight, OpenRight, NoRet
<1> QED BY <1>2, <1>3, <1>4, <1>5 DEF ClientInv

\* A number is its quotient times k and its remainder.
LEMMA DivMod ==
    ASSUME NEW a \in Nat, NEW k \in Nat \ {0}
    PROVE  a \div k \in Nat /\ a % k \in Nat /\ a = (a \div k) * k + (a % k)
OBVIOUS

\* tftp_read() at the end of the file has used up the last block.
LEMMA CopyInv ==
    ASSUME IInv, Copy
    PROVE  ClientInv'
<1> USE SizeAssumption
<1>0. /\ TypeOK /\ CallOK /\ CurOK /\ OneFile /\ BufferOK /\ RetOK
      /\ pc.at = "copy" /\ pc.h \in Handle /\ pc.size \in Nat /\ ret = NoRet
      /\ Opened(h0) /\ h0 \in HandleRec
      /\ UNCHANGED <<io, tx, spoilt, clock, net, sess>>
  BY HandleType DEF IInv, RetOK, Idle, TypeOK, h0, Copy
<1>1. \/ UNCHANGED hs
      \/ /\ hs' = [hs EXCEPT ![pc.h].off = @ + Count]
  BY CopyStep
<1>2. \A g \in Handle :
        /\ Opened(hs'[g]) <=> Opened(hs[g])
        /\ Opened(hs[g]) => /\ hs'[g].file = hs[g].file /\ hs'[g].cur = hs[g].cur
                            /\ hs'[g].last = hs[g].last /\ hs'[g].buf = hs[g].buf
                            /\ hs'[g].valid = hs[g].valid
  <2> TAKE g \in Handle
  <2>1. CASE UNCHANGED hs
    BY <2>1
  <2>2. CASE hs' = [hs EXCEPT ![pc.h].off = @ + Count] /\ g # pc.h
    BY <1>0, <2>2 DEF TypeOK
  <2>3. CASE hs' = [hs EXCEPT ![pc.h].off = @ + Count] /\ g = pc.h
    <3>1. hs'[g] = [h0 EXCEPT !.off = @ + Count] /\ h0 = hs[g]
      BY <1>0, <2>3 DEF TypeOK, h0
    <3> QED BY <1>0, <3>1 DEF Opened, HandleRec
  <2> QED BY <1>1, <2>1, <2>2, <2>3
<1>3. pc'.at \in {"idle", "loop"} /\ (pc'.at = "loop" => ret' = NoRet) /\ ret'.op # "open"
  <2>1. \/ pc' = NoCall /\ ret'.op = "read"
        \/ pc' = [pc EXCEPT !.at = "loop", !.size = @ - Count] /\ ret' = ret
    BY CopyStep DEF Return
  <2>2. pc \in [at : {"idle", "open", "loop", "rereq", "fetch", "next", "copy"},
               h : Handle, size : Nat]
    BY <1>0 DEF TypeOK
  <2>3. CASE pc' = NoCall /\ ret'.op = "read"
    BY <2>3 DEF NoCall
  <2>4. CASE pc' = [pc EXCEPT !.at = "loop", !.size = @ - Count] /\ ret' = ret
    BY <1>0, <2>2, <2>4 DEF NoRet
  <2> QED BY <2>1, <2>3, <2>4
<1>4. CurOK' /\ OneFile'
  BY <1>0, <1>2, <1>3 DEF CurOK, OneFile, Opening
<1>5. BufferOK'
  <2> SUFFICES ASSUME NEW h \in Handle, Opened(hs'[h]), h \notin spoilt
               PROVE  /\ Exists(hs'[h].file)
                      /\ (hs'[h].cur - 1) * SEG <= Size[hs'[h].file]
                      /\ hs'[h].last => EndsBy(hs'[h].file, hs'[h].cur)
                      /\ hs'[h].buf = [file |-> hs'[h].file, block |-> hs'[h].cur]
                      /\ hs'[h].valid = Units(hs'[h].file, hs'[h].cur)
    BY <1>0 DEF BufferOK, Exists, EndsBy, Units
  <2>1. /\ Exists(hs[h].file)
        /\ (hs[h].cur - 1) * SEG <= Size[hs[h].file]
        /\ hs[h].last => EndsBy(hs[h].file, hs[h].cur)
        /\ hs[h].buf = [file |-> hs[h].file, block |-> hs[h].cur]
        /\ hs[h].valid = Units(hs[h].file, hs[h].cur)
    BY <1>0, <1>2 DEF BufferOK, Asking
  <2> QED BY <1>2, <2>1
<1>6. EofRight'
  <2> SUFFICES ASSUME ret'.op = "read", ret'.err = NoErr, ret'.left > 0, ret'.h \notin spoilt
               PROVE  hs'[ret'.h].off = Size[ret'.file]
    BY <1>0 DEF EofRight
  <2>1. /\ h0.cur = NeedBlock /\ hs' = [hs EXCEPT ![pc.h].off = @ + Count]
        /\ Eof(Count, Inbuffer) /\ Return("read", NoErr, pc.size - Count)
    BY <1>0, CopyStep DEF Return, NoErr, NoRet
  <2>2. ret'.h = pc.h /\ ret'.file = h0.file /\ h0.last /\ Count = Inbuffer
    BY <2>1 DEF Return, Eof
  <2>3. hs'[pc.h].off = h0.off + Inbuffer
    BY <1>0, <2>1, <2>2 DEF TypeOK, h0, HandleRec
  <2>4. /\ EndsBy(h0.file, h0.cur) /\ h0.valid = Units(h0.file, h0.cur)
    BY <1>0, <2>2 DEF BufferOK, Asking, h0
  <2>5. h0.valid = Size[h0.file] - (h0.cur - 1) * SEG
    BY <1>0, <2>4, UnitsFull DEF HandleRec
  <2> DEFINE q == h0.off \div SEG
             r == h0.off % SEG
  <2>6. q \in Nat /\ r \in Nat /\ h0.off = q * SEG + r
    BY <1>0, DivMod DEF HandleRec
  <2>7. h0.cur - 1 = q
    BY <2>1, <2>6 DEF NeedBlock
  <2>8. q * SEG \in Int /\ Size[h0.file] \in Int
    <3>1. Size[h0.file] \in Int
      BY <1>0 DEF HandleRec
    <3> HIDE DEF q
    <3> QED BY <2>6, <3>1
  <2>9. Inbuffer = Size[h0.file] - q * SEG - r
    BY <2>5, <2>7 DEF Inbuffer, Offinblock
  <2> HIDE DEF q, r
  <2> QED BY <2>2, <2>3, <2>6, <2>8, <2>9
<1> QED BY <1>3, <1>4, <1>5, <1>6
        DEF ClientInv, CallOK, SavedOK, RetOK, Idle, OpenRight

\* Sending a packet keeps what is known of the client.
LEMMA SendInv ==
    ASSUME IInv, Send
    PROVE  ClientInv'
<1>0. /\ TypeOK /\ CallOK /\ CurOK /\ OneFile /\ SavedOK /\ BufferOK /\ InCall
      /\ pc.h \in Handle /\ ret = NoRet /\ Opened(h0) /\ h0 \in HandleRec
      /\ UNCHANGED <<io, pc, ret, spoilt>> /\ net' = net \cup {Packet}
      /\ hs' = [hs EXCEPT ![pc.h].buf = Junk] /\ tx'.saved = tx.saved
  BY HandleType DEF IInv, RetOK, InCall, Idle, TypeOK, h0, Send
<1>1. \A g \in Handle :
        /\ Opened(hs'[g]) <=> Opened(hs[g])
        /\ Opened(hs[g]) => /\ hs'[g].file = hs[g].file /\ hs'[g].cur = hs[g].cur
                            /\ hs'[g].last = hs[g].last
        /\ g # pc.h => hs'[g] = hs[g]
  BY <1>0, HandleType DEF TypeOK, h0, Opened, HandleRec
<1>2. CallOK' /\ CurOK' /\ SavedOK'
  BY <1>0, <1>1 DEF CallOK, CurOK, SavedOK, h0, Opening, Exists
<1>3. OneFile'
  <2> SUFFICES ASSUME NEW h \in Handle, Opened(hs[h]), h \notin spoilt,
                      NEW m \in net', m.op = "RRQ", m.port = io.myport
               PROVE  m.file = hs[h].file
    BY <1>0, <1>1 DEF OneFile
  <2>1. CASE m \in net
    BY <1>0, <2>1 DEF OneFile
  <2>2. CASE m = Packet
    <3>1. pc.at \in {"open", "rereq"} /\ m = RRQ(h0.file, io.myport)
      BY <1>0, <2>2 DEF Packet, ACK, InCall
    <3>2. h = pc.h
      BY <1>0, <3>1 DEF CallOK
    <3> QED BY <3>1, <3>2 DEF RRQ, h0
  <2> QED BY <1>0, <2>1, <2>2
<1>4. BufferOK'
  <2> SUFFICES ASSUME NEW h \in Handle, Opened(hs[h]), h \notin spoilt, ~Asking(h)
               PROVE  /\ Exists(hs'[h].file)
                      /\ (hs'[h].cur - 1) * SEG <= Size[hs'[h].file]
                      /\ hs'[h].last => EndsBy(hs'[h].file, hs'[h].cur)
                      /\ ~(pc.at = "next" /\ pc.h = h) =>
                           /\ hs'[h].buf = [file |-> hs'[h].file, block |-> hs'[h].cur]
                           /\ hs'[h].valid = Units(hs'[h].file, hs'[h].cur)
    BY <1>0, <1>1 DEF BufferOK, Exists, EndsBy, Units, Asking
  <2>1. h = pc.h => pc.at = "next"
    BY <1>0 DEF Asking, InCall
  <2> QED BY <1>0, <1>1, <2>1 DEF BufferOK
<1> QED BY <1>0, <1>2, <1>3, <1>4 DEF ClientInv, RetOK, EofRight, OpenRight, NoRet

\* A step that leaves the handles, the port and the saved error alone.
LEMMA QuietInv ==
    ASSUME IInv, UNCHANGED <<hs, io, pc, ret, spoilt, net>>,
           tx'.saved \in {-1, tx.saved}
    PROVE  ClientInv'
<1>1. SavedOK'
  BY DEF IInv, SavedOK, h0, Exists
<1>2. CallOK' /\ CurOK' /\ OneFile' /\ BufferOK' /\ RetOK' /\ EofRight' /\ OpenRight'
  BY DEF IInv, CallOK, CurOK, OneFile, BufferOK, RetOK, EofRight, OpenRight, h0, Opening,
         Asking, Exists, EndsBy, Units, Idle
<1> QED BY <1>1, <1>2 DEF ClientInv

\* Every step keeps the invariant.
LEMMA InvNext == IInv /\ [Next]_vars => IInv'
<1> SUFFICES ASSUME IInv, [Next]_vars PROVE IInv'
  OBVIOUS
<1> USE SizeAssumption
<1>0. /\ TypeOK' /\ pc.h \in Handle /\ (~Idle => Opened(h0) /\ h0 \in HandleRec)
      /\ TypeOK /\ (~Idle => ret = NoRet)
  BY TypeNext, HandleType DEF IInv, TypeOK, h0, RetOK
<1>s. ASSUME ClientInv', UNCHANGED <<net, sess>> PROVE IInv'
  BY <1>0, <1>s DEF IInv, ClientInv, SessOK, NetOK, Exists
<1>1. ASSUME NEW h \in Handle, NEW f \in Files, tftp_open(h, f) PROVE IInv'
  <2>1. /\ hs'[h] = [file |-> f, cur |-> 0, last |-> FALSE, valid |-> 0, off |-> 0,
                     buf |-> Junk]
        /\ \A g \in Handle \ {h} : hs'[g] = hs[g]
        /\ Opened(hs'[h]) /\ hs'[h].file = f /\ hs'[h].cur = 0
    BY <1>0, <1>1 DEF tftp_open, TypeOK, Opened
  <2>2. /\ pc'.at = "open" /\ pc'.h = h /\ ret' = NoRet /\ Idle /\ MakeReq(h, f)
        /\ UNCHANGED <<net, sess>>
    BY <1>1 DEF tftp_open
  <2> QED BY <1>0, <1>s, <2>1, <2>2, MakeReqInv DEF IInv
<1>2. ASSUME NEW h \in Handle, NEW off \in Offs, tftp_seek(h, off) PROVE IInv'
  <2>1. /\ Idle /\ Opened(hs[h]) /\ hs' = [hs EXCEPT ![h].off = off] /\ ret' = NoRet
        /\ UNCHANGED <<io, pc, tx, spoilt, clock, net, sess>>
    BY <1>2 DEF tftp_seek
  <2>2. \A g \in Handle :
          /\ Opened(hs'[g]) <=> Opened(hs[g])
          /\ Opened(hs[g]) => /\ hs'[g].file = hs[g].file /\ hs'[g].cur = hs[g].cur
                              /\ hs'[g].last = hs[g].last /\ hs'[g].buf = hs[g].buf
                              /\ hs'[g].valid = hs[g].valid
    <3> TAKE g \in Handle
    <3>1. CASE g # h
      BY <1>0, <2>1, <3>1 DEF TypeOK
    <3>2. CASE g = h
      <4>1. hs'[g] = [hs[g] EXCEPT !.off = off] /\ hs[g] \in HandleRec
        BY <1>0, <2>1, <3>2, HandleType DEF TypeOK
      <4> QED BY <4>1 DEF Opened, HandleRec
    <3> QED BY <3>1, <3>2
  <2>3. CurOK' /\ OneFile'
    BY <2>1, <2>2 DEF IInv, CurOK, OneFile, Opening
  <2>4. BufferOK'
    BY <2>1, <2>2 DEF IInv, BufferOK, Asking, Exists, EndsBy, Units
  <2> QED BY <1>s, <2>1, <2>3, <2>4 DEF ClientInv, CallOK, SavedOK, RetOK, EofRight,
          OpenRight, NoRet, Idle
<1>3. ASSUME NEW h \in Handle, NEW size \in Reads, tftp_read(h, size) PROVE IInv'
  <2>1. /\ Idle /\ pc'.at = "loop" /\ ret' = NoRet
        /\ UNCHANGED <<hs, io, tx, spoilt, clock, net, sess>>
    BY <1>3 DEF tftp_read
  <2>2. CurOK' /\ OneFile'
    BY <2>1 DEF IInv, CurOK, OneFile, Opening, Idle
  <2>3. BufferOK'
    BY <2>1 DEF IInv, BufferOK, Asking, Exists, EndsBy, Units, Idle
  <2> QED BY <1>s, <2>1, <2>2, <2>3 DEF ClientInv, CallOK, SavedOK, RetOK, EofRight,
          OpenRight, NoRet, Idle
<1>4. ASSUME NEW h \in Handle, tftp_close(h) PROVE IInv'
  <2>1. /\ Idle /\ ret' = NoRet /\ spoilt' = spoilt \ {h}
        /\ UNCHANGED <<io, pc, tx, clock, net, sess>>
        /\ \A g \in Handle : Opened(hs'[g]) => g # h /\ hs'[g] = hs[g]
    BY <1>0, <1>4 DEF tftp_close, TypeOK, Closed, Opened
  <2>2. CurOK' /\ OneFile'
    BY <2>1 DEF IInv, CurOK, OneFile, Opening, Idle
  <2>3. BufferOK'
    BY <2>1 DEF IInv, BufferOK, Asking, Exists, EndsBy, Units, Idle
  <2> QED BY <1>s, <2>1, <2>2, <2>3 DEF ClientInv, CallOK, SavedOK, RetOK, EofRight,
          OpenRight, NoRet, Idle
<1>5. CASE ReadLoop
  <2>0. pc.at = "loop" /\ UNCHANGED <<hs, ret, clock, net, sess>> /\ ret' = NoRet
    BY <1>0, <1>5 DEF ReadLoop, Idle
  <2>1. CASE h0.cur > NeedBlock
    <3>1. MakeReq(pc.h, h0.file) /\ pc'.at = "rereq" /\ pc'.h = pc.h
      BY <1>0, <1>5, <2>1 DEF ReadLoop, TypeOK
    <3>2. Opened(hs'[pc.h]) /\ hs'[pc.h].file = h0.file /\ hs'[pc.h].cur \in Nat
      BY <1>0, <2>0 DEF Idle, h0, HandleRec
    <3> QED BY <1>0, <1>s, <2>0, <3>1, <3>2, MakeReqInv DEF IInv
  <2>2. CASE ~(h0.cur > NeedBlock)
    <3>1. pc'.at = "fetch" /\ UNCHANGED <<io, tx, spoilt>>
      BY <1>0, <1>5, <2>2 DEF ReadLoop, TypeOK
    <3>2. CurOK' /\ OneFile'
      BY <2>0, <3>1 DEF IInv, CurOK, OneFile, Opening
    <3>3. BufferOK'
      BY <2>0, <3>1 DEF IInv, BufferOK, Asking, Exists, EndsBy, Units
    <3> QED BY <1>s, <2>0, <3>1, <3>2, <3>3 DEF ClientInv, CallOK, SavedOK, RetOK,
            EofRight, OpenRight, NoRet, Idle
  <2> QED BY <2>1, <2>2
<1>6. CASE ReadDone
  <2>1. /\ pc.at = "loop" /\ pc'.at = "idle" /\ ret'.op = "read" /\ ret'.left = 0
        /\ UNCHANGED <<hs, io, tx, spoilt, clock, net, sess>>
    BY <1>6 DEF ReadDone, Return, NoCall
  <2>2. CurOK' /\ OneFile'
    BY <2>1 DEF IInv, CurOK, OneFile, Opening
  <2>3. BufferOK'
    BY <2>1 DEF IInv, BufferOK, Asking, Exists, EndsBy, Units
  <2> QED BY <1>s, <2>1, <2>2, <2>3 DEF ClientInv, CallOK, SavedOK, RetOK,
          EofRight, OpenRight, Idle
<1>7. CASE Fetch
  <2>1. /\ pc.at = "fetch" /\ UNCHANGED <<hs, ret, spoilt, clock, net, sess>>
        /\ pc'.h = pc.h /\ io'.myport = io.myport
        /\ \/ pc'.at = "next" /\ io'.xid = h0.cur + 1
           \/ pc'.at = "copy"
    BY <1>0, <1>7, SMTT(40) DEF Fetch, TypeOK
  <2>2. CurOK' /\ OneFile' /\ CallOK'
    BY <2>1 DEF IInv, CurOK, OneFile, Opening, CallOK, h0
  <2>3. BufferOK'
    BY <2>1 DEF IInv, BufferOK, Asking, Exists, EndsBy, Units
  <2>4. ret' = NoRet
    BY <1>0, <2>1 DEF Idle
  <2> QED BY <1>s, <2>1, <2>2, <2>3, <2>4 DEF ClientInv, SavedOK, RetOK, EofRight,
          OpenRight, NoRet
<1>8. CASE Copy
  BY <1>8, <1>s, CopyInv DEF Copy
<1>9. CASE Send
  BY <1>0, <1>9, SendInv, SendServer DEF IInv, ClientInv
<1>10. CASE SendFails
  <2>1. tx'.saved = tx.saved
    BY <1>0, <1>10 DEF SendFails, TypeOK
  <2> QED BY <1>10, <1>s, <2>1, QuietInv DEF SendFails
<1>11. CASE GiveUp
  BY <1>11, <1>s, FailInv DEF GiveUp
<1>12. CASE TimeOut
  <2>1. CASE tx.saved > 0
    <3>1. pc.at = "open" /\ pc.h \notin spoilt => ~Exists(h0.file)
      BY <2>1 DEF IInv, SavedOK
    <3> QED BY <1>12, <1>s, <2>1, <3>1, FailInv DEF TimeOut
  <2>2. CASE ~(tx.saved > 0)
    <3>1. tx'.saved = -1
      BY <1>0, <1>12, <2>2 DEF TimeOut, TypeOK
    <3> QED BY <1>12, <1>s, <2>2, <3>1, QuietInv DEF TimeOut
  <2> QED BY <2>1, <2>2
<1>u. ASSUME Unwanted, UNCHANGED <<clock, net, sess>> PROVE IInv'
  <2>1. tx'.saved = -1
    BY <1>0, <1>u DEF Unwanted, TypeOK
  <2> QED BY <1>s, <1>u, <2>1, QuietInv DEF Unwanted
<1>13. CASE Receive
  <2>1. PICK m \in net :
         /\ m.op \in {"DATA", "ERROR"} /\ ForUs(m)
         /\ \/ /\ m.op = "DATA" /\ Expected(m)
               /\ Got(m, Units(m.file, m.block)) /\ UNCHANGED spoilt
            \/ Unwanted
            \/ /\ m.op = "ERROR" /\ io.xid = 1 /\ tx' = [tx EXCEPT !.saved = m.code]
               /\ UNCHANGED <<hs, io, pc, ret, spoilt>>
            \/ m.op = "ERROR" /\ io.xid # 1 /\ Fail("ENOENT")
    BY <1>13 DEF Receive, TooShort
  <2>2. InCall /\ UNCHANGED <<clock, net, sess>> /\ Opened(hs[pc.h])
    BY <1>0, <1>13 DEF Receive, InCall, Idle, h0
  <2>3. CASE /\ m.op = "DATA" /\ Expected(m)
             /\ Got(m, Units(m.file, m.block)) /\ UNCHANGED spoilt
    BY <1>s, <2>1, <2>2, <2>3, GotInv
  <2>4. CASE /\ m.op = "ERROR" /\ io.xid = 1 /\ tx' = [tx EXCEPT !.saved = m.code]
             /\ UNCHANGED <<hs, io, pc, ret, spoilt>>
    <3>1. pc.h \notin spoilt => ~Exists(h0.file)
      BY <1>0, <2>1, <2>2, <2>4, RightFile DEF IInv, h0
    <3>2. SavedOK'
      BY <2>4, <3>1 DEF SavedOK, h0, Exists
    <3>3. CallOK' /\ CurOK' /\ OneFile' /\ BufferOK' /\ RetOK' /\ EofRight' /\ OpenRight'
      BY <2>2, <2>4 DEF IInv, CallOK, CurOK, OneFile, BufferOK, RetOK, EofRight,
         OpenRight, h0, Opening, Asking, Exists, EndsBy, Units, Idle
    <3> QED BY <1>s, <2>2, <3>2, <3>3 DEF ClientInv
  <2>5. CASE m.op = "ERROR" /\ io.xid # 1 /\ Fail("ENOENT")
    <3>1. pc.at # "open"
      BY <2>5 DEF IInv, CallOK
    <3> QED BY <1>s, <2>2, <2>5, <3>1, FailInv
  <2> QED BY <1>u, <2>1, <2>2, <2>3, <2>4, <2>5
<1>14. CASE ReceiveForeign
  <2>1. PICK m \in net :
         \/ /\ m.op = "DATA" /\ Expected(m)
            /\ \E got \in MinData .. SEG : Got(m, got) /\ spoilt' = spoilt \cup {pc.h}
         \/ Unwanted
         \/ Fail("ENOENT")
    BY <1>14 DEF ReceiveForeign
  <2>2. InCall /\ UNCHANGED <<clock, net, sess>> /\ tx.saved # -1
    BY <1>14 DEF ReceiveForeign
  <2>3. ASSUME NEW got \in MinData .. SEG, m.op = "DATA", Expected(m), Got(m, got),
               spoilt' = spoilt \cup {pc.h}
        PROVE  IInv'
    BY <1>s, <2>2, <2>3, GotInv
  <2>4. CASE Fail("ENOENT")
    <3>1. pc.at = "open" /\ pc.h \notin spoilt => ~Exists(h0.file)
      BY <2>2 DEF IInv, SavedOK
    <3> QED BY <1>s, <2>2, <2>4, <3>1, FailInv
  <2> QED BY <1>u, <2>1, <2>2, <2>3, <2>4
<1>c. ASSUME UNCHANGED clientVars, \A m \in net' : m.op = "RRQ" => m \in net
      PROVE  ClientInv'
  <2>1. OneFile'
    BY <1>c DEF IInv, OneFile, clientVars
  <2> QED BY <1>c, <2>1 DEF ClientInv, IInv, CallOK, CurOK, SavedOK, BufferOK, RetOK,
          EofRight, OpenRight, h0, Opening, Asking, Exists, EndsBy, Units, Idle, clientVars
<1>15. CASE Tick
  BY <1>15, <1>c, <1>s DEF Tick
<1>16. CASE ServeRRQ \/ ServeACK
  <2>1. /\ SessOK' /\ NetOK' /\ UNCHANGED <<clientVars, clock>>
        /\ \A m \in net' : m.op = "RRQ" => m \in net
    BY <1>16, ServerSteps DEF IInv
  <2> QED BY <1>0, <1>c, <2>1 DEF IInv, ClientInv
<1>17. CASE UNCHANGED vars
  BY <1>17, <1>c, <1>s DEF vars
<1> QED
  BY <1>1, <1>2, <1>3, <1>4, <1>5, <1>6, <1>7, <1>8, <1>9, <1>10, <1>11, <1>12, <1>13,
     <1>14, <1>15, <1>16, <1>17 DEF Next, Calls, Local

-----------------------------------------------------------------------------
(* The theorems *)

\* tftp_open() says of every file that is there, and of no other, that it is.
THEOREM OpenCorrect == Spec => []OpenRight
<1>1. IInv => OpenRight
  BY DEF IInv
<1> QED BY <1>1, InitInv, InvNext, PTL DEF Spec

\* tftp_read() that comes back short has come to the end of the file.
THEOREM EofCorrect == Spec => []EofRight
<1>1. IInv => EofRight
  BY DEF IInv
<1> QED BY <1>1, InitInv, InvNext, PTL DEF Spec

\* What tftp_read() copies out is the block of the file that the offset is in,
\* whatever the network lost, delayed, repeated or reordered.
THEOREM ReadsCorrect == Spec => ReadsRight
<1>1. ASSUME IInv, [Next]_vars
      PROVE  [pc.at = "copy" /\ hs'[pc.h].off # h0.off /\ pc.h \notin spoilt
                => h0.buf = [file |-> h0.file, block |-> NeedBlock]]_vars
  <2> SUFFICES ASSUME pc.at = "copy", hs'[pc.h].off # h0.off, pc.h \notin spoilt
               PROVE  h0.buf = [file |-> h0.file, block |-> NeedBlock]
    OBVIOUS
  <2>1. pc.h \in Handle /\ Opened(hs[pc.h])
    BY <1>1 DEF IInv, TypeOK, Idle, h0
  <2>2. h0.buf = [file |-> h0.file, block |-> h0.cur]
    BY <1>1, <2>1 DEF IInv, BufferOK, Asking, h0
  <2>3. hs' # hs
    BY DEF h0
  <2>4. Copy
    BY <1>1, <2>3 DEF Next, Calls, Local, vars, clientVars, tftp_open, tftp_seek, tftp_read,
       tftp_close, Idle, ReadLoop, ReadDone, Fetch, Send, GiveUp, SendFails, TimeOut,
       Receive, ReceiveForeign, InCall, Tick, ServeRRQ, ServeACK
  <2> QED BY <2>2, <2>3, <2>4, CopyStep
<1> QED BY <1>1, InitInv, InvNext, PTL DEF Spec, ReadsRight
=============================================================================
