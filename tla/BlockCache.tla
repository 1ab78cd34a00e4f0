----------------------------- MODULE BlockCache -----------------------------
(***************************************************************************)
(* The block cache of the loader (sys/boot/common/bcache.c) between        *)
(* bd_strategy() and bd_realstrategy() of the BIOS disk driver (pc32/      *)
(* libi386/biosdisk.c).  The loader is one thread; what happens behind its *)
(* back is that time passes and that a removable medium is changed.        *)
(*                                                                         *)
(* A block is bcache_blksize bytes, a sector SecBlks blocks.  The contents *)
(* of a block is where it belongs and the version of what was stored there.*)
(***************************************************************************)
EXTENDS Integers, Sequences, FiniteSets

CONSTANTS
    Nblks,      \* bcache_nblks
    SecBlks,    \* bd_sectorsize / bcache_blksize
    Timeout,    \* BCACHE_TIMEOUT
    Units,      \* BIOS units
    Removable,  \* those with removable media
    Sectors,    \* sectors of every unit
    MaxReq,     \* bound: sectors of a request
    MaxInserts, \* bound: blocks put into the cache
    MaxVersion, \* bound: writes and changes of media, for each unit
    MaxTime     \* bound: seconds

ASSUME CacheAssumption ==
    /\ Nblks \in Nat \ {0} /\ SecBlks \in Nat \ {0} /\ Timeout \in Nat
    /\ Sectors \in Nat /\ MaxReq \in Nat
    /\ Removable \subseteq Units /\ -1 \notin Units
ASSUME CacheBoundAssumption ==
    MaxInserts \in Nat /\ MaxVersion \in Nat /\ MaxTime \in Nat

Slots  == 0 .. Nblks - 1
Blocks == 0 .. Sectors * SecBlks - 1
Data(u, b, v) == [unit |-> u, blk |-> b, ver |-> v]
\* A buffer or a slot nothing has been copied to.
NoData == Data(-1, -1, 0)
\* struct bcachectl, with the slot's part of bcache_data.
Empty == [blkno |-> -1, stamp |-> 0, count |-> -1, data |-> NoData]

VARIABLES
    disk,       \* disk[u][b]: version of block b of unit u
    version,    \* version[u]: last version there was
    now,        \* seconds
    slot,       \* bcache_ctl and bcache_data
    bcount,     \* bcache_bcount
    cunit,      \* bcache_unit
    req,        \* the request that is served
    recent,     \* history: what changes of media have taken away lately
    astray      \* history: a write failed, or went past the cache

diskVars == <<disk, version>>
cacheVars == <<slot, bcount, cunit>>
vars == <<diskVars, cacheVars, now, req, recent, astray>>

\* phase: "idle", "lookup", "fill", "write", "bypass", "done" (read with
\* success), "panic".  at: loop index; miss: bcache_miss; since: when it began.
Idle == [phase |-> "idle", rw |-> "r", unit |-> -1, blk |-> 0, n |-> 0, at |-> 0,
         miss |-> {}, buf |-> <<>>, since |-> 0]

-----------------------------------------------------------------------------
(* The cache *)

\* bcache_flush().  Stamp and data of a slot without a block are never used.
Flushed == [i \in Slots |-> Empty]

\* Mutant: however old the block is.
HitsAnyAge(b) == {i \in Slots : slot[i].blkno = b}

\* bcache_lookup(): the slots block b could be taken from.
Hits(b) == {i \in Slots : slot[i].blkno = b /\ slot[i].stamp + Timeout >= now}
First(S) == CHOOSE i \in S : \A j \in S : i <= j

\* The slot for block b.  Slot 0 is not looked at for an old copy of b.
Victim(c, b) ==
    LET old == {i \in Slots \ {0} : c[i].blkno = b}
    IN IF old # {} THEN First(old)
       ELSE First({i \in Slots : \A j \in Slots : c[i].count <= c[j].count})

\* bcache_insert() of data as block b, when k blocks were inserted before.
bcache_insert(c, b, data, k) ==
    [c EXCEPT ![Victim(c, b)] =
        [blkno |-> b, stamp |-> now, count |-> bcount + k, data |-> data]]

\* Blocks from first on, in their order.
InsertAll(c, first, datas) ==
    LET a[k \in 0 .. Len(datas)] ==
          IF k = 0 THEN c ELSE bcache_insert(a[k - 1], first + k - 1, datas[k], k - 1)
    IN a[Len(datas)]

\* bcache_invalidate() of each of blks: the first slot that holds it.
bcache_invalidate(c, blks) ==
    [i \in Slots |-> IF /\ c[i].blkno \in blks
                        /\ i = First({j \in Slots : c[j].blkno = c[i].blkno})
                     THEN Empty ELSE c[i]]

-----------------------------------------------------------------------------
(* bd_realstrategy() *)

\* n blocks from sector sec on; a transfer that is not made of whole sectors
\* panics, and one past the end of the disk is an error.
Whole(n) == n % SecBlks = 0
Inside(sec, n) == sec * SecBlks + n <= Sectors * SecBlks
Contents(u, sec, n) ==
    [k \in 1 .. n |-> LET b == sec * SecBlks + k - 1 IN Data(u, b, disk[u][b])]

\* The first m of the n blocks of a write get through.
Stored(u, sec, m) ==
    [disk EXCEPT ![u] = [b \in Blocks |->
        IF b \in sec * SecBlks .. sec * SecBlks + m - 1 THEN version[u] + 1 ELSE @[b]]]

-----------------------------------------------------------------------------
(* bcache_strategy() *)

\* A request for k sectors from sector sec on.  Nothing is said about, and
\* the model does not go on after, writes that went astray.
Begin(rw, u, sec, k) ==
    LET n == k * SecBlks
        phase == IF n * 2 > Nblks THEN "bypass" ELSE IF rw = "w" THEN "write" ELSE "lookup"
    IN /\ req.phase = "idle" /\ ~astray
       /\ Inside(sec, n)
       /\ cunit' = u
       /\ slot' = IF cunit # u THEN Flushed ELSE slot
       /\ req' = [phase |-> phase, rw |-> rw, unit |-> u, blk |-> sec, n |-> n, at |-> 0,
                  miss |-> {}, buf |-> [j \in 1 .. n |-> NoData], since |-> now]
       /\ UNCHANGED <<diskVars, bcount, now, recent, astray>>

\* read_strategy(): the next block is in the cache or it is not.
Lookup ==
    LET b == req.blk + req.at
        hit == Hits(b) # {}
        miss == IF hit THEN req.miss ELSE req.miss \cup {req.at}
        more == req.at + 1 < req.n
    IN /\ req.phase = "lookup"
       /\ req' = [req EXCEPT
            !.at = @ + 1, !.miss = miss,
            !.buf[req.at + 1] = IF hit THEN slot[First(Hits(b))].data ELSE @,
            !.phase = IF more THEN @ ELSE IF miss = {} THEN "done" ELSE "fill"]
       /\ UNCHANGED <<diskVars, cacheVars, now, recent, astray>>

\* The first of the blocks missed, and those missed right after it: one
\* transfer, whose blocks then go to the cache.
Pending ==
    LET p == First(req.miss)
    IN {i \in req.miss : \A j \in p .. i : j \in req.miss}
Fill ==
    LET n == Cardinality(Pending)
        first == req.blk + First(Pending)
        got == Contents(req.unit, first, n)
        rest == req.miss \ Pending
    IN /\ req.phase = "fill"
       /\ Inside(first, n) /\ bcount + n <= MaxInserts
       /\ slot' = IF Whole(n) THEN InsertAll(slot, first, got) ELSE slot
       /\ bcount' = IF Whole(n) THEN bcount + n ELSE bcount
       /\ req' = IF ~Whole(n) THEN [req EXCEPT !.phase = "panic"]
                 ELSE [req EXCEPT !.miss = rest,
                         !.buf = [j \in DOMAIN @ |-> IF j - 1 \in Pending
                                    THEN got[j - First(Pending)] ELSE @[j]],
                         !.phase = IF rest = {} THEN "done" ELSE @]
       /\ UNCHANGED <<diskVars, cunit, now, recent, astray>>

\* The disk reports an error, three times.
ReadFails ==
    /\ \/ req.phase = "fill" /\ Whole(Cardinality(Pending))
       \/ req.phase = "bypass" /\ req.rw = "r"
    /\ req' = Idle
    /\ UNCHANGED <<diskVars, cacheVars, now, recent, astray>>

\* write_strategy()
WriteThrough ==
    LET clean == bcache_invalidate(slot, req.blk .. req.blk + req.n - 1)
        u == req.unit
        new == [k \in 1 .. req.n |-> Data(u, req.blk * SecBlks + k - 1, version[u] + 1)]
    IN /\ req.phase = "write" /\ version[u] < MaxVersion
       /\ version' = [version EXCEPT ![u] = @ + 1]
       /\ \/ /\ bcount + req.n <= MaxInserts
             /\ disk' = Stored(u, req.blk, req.n)
             /\ slot' = InsertAll(clean, req.blk, new)
             /\ bcount' = bcount + req.n
             /\ UNCHANGED astray
          \/ /\ \E m \in 0 .. req.n : disk' = Stored(u, req.blk, m)
             /\ slot' = clean
             /\ astray' = TRUE
             /\ UNCHANGED bcount
       /\ req' = Idle
       /\ UNCHANGED <<cunit, now, recent>>

BypassRead ==
    /\ req.phase = "bypass" /\ req.rw = "r"
    /\ req' = [req EXCEPT !.phase = "done", !.buf = Contents(req.unit, req.blk, req.n)]
    /\ UNCHANGED <<diskVars, cacheVars, now, recent, astray>>

BypassWrite ==
    LET u == req.unit
    IN /\ req.phase = "bypass" /\ req.rw = "w" /\ version[u] < MaxVersion
       /\ \E m \in 0 .. req.n : disk' = Stored(u, req.blk, m)
       /\ version' = [version EXCEPT ![u] = @ + 1]
       /\ astray' = TRUE
       /\ req' = Idle
       /\ UNCHANGED <<cacheVars, now, recent>>

Return ==
    /\ req.phase = "done"
    /\ req' = Idle
    /\ UNCHANGED <<diskVars, cacheVars, now, recent, astray>>

-----------------------------------------------------------------------------
\* A removable medium is changed for another one.
ChangeMedium(u) ==
    /\ version[u] < MaxVersion
    /\ version' = [version EXCEPT ![u] = @ + 1]
    /\ disk' = [disk EXCEPT ![u] = [b \in Blocks |-> version[u] + 1]]
    /\ recent' = recent \cup {[data |-> Data(u, b, disk[u][b]), gone |-> now] : b \in Blocks}
    /\ UNCHANGED <<cacheVars, now, req, astray>>

\* What is too long ago to matter for a request that begins now, or for the
\* one that is served, is forgotten.
Start == IF req.phase = "idle" THEN now' ELSE req.since
Tick ==
    /\ now < MaxTime
    /\ now' = now + 1
    /\ recent' = {r \in recent : r.gone + Timeout >= Start}
    /\ UNCHANGED <<diskVars, cacheVars, req, astray>>

\* bcache_init() leaves the slots as malloc() gives them.  The first request
\* flushes them, because no unit is -1.
Init ==
    /\ disk = [u \in Units |-> [b \in Blocks |-> 0]]
    /\ version = [u \in Units |-> 0]
    /\ now = 0 /\ bcount = 0 /\ cunit = -1
    /\ slot = [i \in Slots |-> Empty]
    /\ req = Idle
    /\ recent = {} /\ astray = FALSE

Next ==
    \/ \E rw \in {"r", "w"}, u \in Units, sec \in 0 .. Sectors - 1, k \in 1 .. MaxReq :
         Begin(rw, u, sec, k)
    \/ Lookup \/ Fill \/ ReadFails
    \/ WriteThrough \/ BypassRead \/ BypassWrite \/ Return
    \/ \E u \in Removable : ChangeMedium(u)
    \/ Tick

Spec == Init /\ [][Next]_vars

-----------------------------------------------------------------------------
(* Properties *)

Contained == [unit : Units \cup {-1}, blk : Int, ver : 0 .. MaxVersion]
TypeOK ==
    /\ disk \in [Units -> [Blocks -> 0 .. MaxVersion]]
    /\ version \in [Units -> 0 .. MaxVersion]
    /\ now \in 0 .. MaxTime /\ bcount \in 0 .. MaxInserts
    /\ cunit \in Units \cup {-1}
    /\ slot \in [Slots -> [blkno : Int, stamp : 0 .. MaxTime, count : -1 .. MaxInserts,
                           data : Contained]]
    /\ req.at \in 0 .. req.n /\ req.miss \subseteq 0 .. req.n - 1
    /\ \A j \in DOMAIN req.buf : req.buf[j] \in Contained

\* A read that succeeds fills the whole buffer, every block with what belongs
\* there: what is on the medium, or what was on a medium that was changed no
\* more than BCACHE_TIMEOUT seconds before the read began.
ReadRight ==
    req.phase = "done" =>
        \A k \in 1 .. req.n :
            LET b == req.blk * SecBlks + k - 1
                d == req.buf[k]
            IN /\ d.unit = req.unit /\ d.blk = b
               /\ d.ver = disk[req.unit][b] \/ \E r \in recent : r.data = d

\* Although bcache_insert() may put a block into the cache twice, only one
\* copy of it can be hit, so that it does not matter which one is found or
\* invalidated first.
OneHit == \A b \in 0 .. Sectors - 1 : Cardinality(Hits(b)) <= 1

\* A read through the cache (bcache_strategy()) is as good as one without it.
CacheRight == ReadRight /\ OneHit
=============================================================================
