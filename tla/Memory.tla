------------------------------- MODULE Memory -------------------------------
(***************************************************************************)
(* Memory of the loader: the allocator (libstand zalloc.c,                 *)
(* zalloc_malloc.c, sbrk.c); where its heap is (biosmem.c, pc32 loader     *)
(* main.c); the staging area of the EFI loader (efi/loader/copy.c).        *)
(***************************************************************************)
EXTENDS Integers, Sequences, FiniteSets, FiniteSetsExt

CONSTANTS
  MALLOCALIGN,   \* bytes a block and its header are rounded to
  BLKEXTEND,     \* bytes the heap grows by
  HeapBase, HeapTop,   \* what setheap() was given
  MlSizes,       \* sizes asked for
  MmInputs       \* memory maps and staging areas, one record per case

ASSUME MemoryAssumption ==
  /\ MALLOCALIGN \in Nat \ {0} /\ BLKEXTEND \in Nat \ {0} /\ BLKEXTEND % MALLOCALIGN = 0
  /\ HeapBase \in Nat /\ HeapTop \in Nat /\ MlSizes \subseteq Nat

VARIABLES
  pool,     \* MallocPool: [base, end, size, used]
  fl,       \* its list of MemNodes: [at, bytes]
  live,     \* blocks handed out: [at, bytes], bytes as in the guard
  heapsize, \* of sbrk()
  call,     \* the Malloc() under way: [bytes, tries, old, drop], old the block
            \* to be reallocated, drop whether it goes if there is no memory
  panicked, \* a panic() of zfree()
  mmIn, mmOut

mlVars == <<pool, fl, live, heapsize, call, panicked>>
mmVars == <<mmIn, mmOut>>

------------------------------------------------------------------------------
(* zalloc.c                                                                  *)

Round(b, to) == ((b + to - 1) \div to) * to
Node(at, bytes) == [at |-> at, bytes |-> bytes]
Without(s, i) == SubSeq(s, 1, i - 1) \o SubSeq(s, i + 1, Len(s))

\* the first node that is large enough, if the pool has as much at all
Fitting(bytes) == {i \in 1 .. Len(fl) : Round(bytes, MALLOCALIGN) <= fl[i].bytes}
Fits1(bytes) == Round(bytes, MALLOCALIGN) <= pool.size - pool.used /\ Fitting(bytes) # {}
\* the list after the block was taken from the front of node i
Taken(list, i, bytes) ==
  LET b == Round(bytes, MALLOCALIGN)
  IN  IF list[i].bytes = b THEN Without(list, i)
      ELSE [list EXCEPT ![i] = Node(list[i].at + b, list[i].bytes - b)]

\* Mutant: neighbours are not merged
MergedOne(list, ptr, b, i) ==
  SubSeq(list, 1, i - 1) \o <<Node(ptr, b)>> \o SubSeq(list, i, Len(list))
\* zfree(): the list with the block at ptr, merged with the nodes around it
Merged(list, ptr, b, i) ==
  LET next == i <= Len(list) /\ ptr + b = list[i].at
      prev == i > 1 /\ list[i - 1].at + list[i - 1].bytes = ptr
      at == IF prev THEN list[i - 1].at ELSE ptr
      bytes == b + (IF next THEN list[i].bytes ELSE 0) + (IF prev THEN list[i - 1].bytes ELSE 0)
  IN  SubSeq(list, 1, IF prev THEN i - 2 ELSE i - 1) \o <<Node(at, bytes)>>
      \o SubSeq(list, IF next THEN i + 1 ELSE i, Len(list))
ZFree(p, list, ptr, bytes) ==
  LET b == Round(bytes, MALLOCALIGN)
      behind == {j \in 1 .. Len(list) : ptr <= list[j].at}
      i == IF behind = {} THEN Len(list) + 1 ELSE Min(behind)
      wild == ptr < p.base \/ ptr + b > p.end \/ ptr % MALLOCALIGN # 0
      corrupt == \/ \E j \in 1 .. i - 1 : ptr < list[j].at + list[j].bytes
                 \/ i <= Len(list) /\ ptr + b > list[i].at
  IN  IF wild \/ corrupt THEN [fl |-> list, pool |-> p, panic |-> TRUE]
      ELSE [fl |-> Merged(list, ptr, b, i), pool |-> [p EXCEPT !.used = @ - b], panic |-> FALSE]

\* zextendPool(): new memory counts as used until it is freed
Extended(p, base, bytes) ==
  IF p.size = 0 THEN [base |-> base, end |-> base + bytes, size |-> bytes, used |-> bytes]
  ELSE LET pend == p.base + p.size
           low == IF base < p.base THEN p.base - base ELSE 0
           high == IF base + bytes > pend THEN base + bytes - pend ELSE 0
       IN  [base |-> p.base - low, end |-> IF high > 0 THEN base + bytes ELSE p.end,
            size |-> p.size + low + high, used |-> p.used + low + high]

------------------------------------------------------------------------------
(* zalloc_malloc.c.  A block has a header of MALLOCALIGN bytes and a byte    *)
(* behind its end.                                                           *)

heapbase == Round(HeapBase, MALLOCALIGN)
maxheap == HeapTop - heapbase

NoCall == [bytes |-> 0, tries |-> 0, old |-> {}, drop |-> FALSE]
\* Malloc(), Realloc() of a block and Reallocf() of a block are called
Malloc(n, old, drop) ==
  /\ call = NoCall
  /\ call' = [bytes |-> n + MALLOCALIGN + 1, tries |-> 0, old |-> old, drop |-> drop]
  /\ UNCHANGED <<pool, fl, live, heapsize, panicked>>

\* the blocks of B are freed, of the pool p with list; what has been allocated
\* since stays
FreeAll(p, list, B) ==
  IF B = {} THEN [fl |-> list, pool |-> p, panic |-> FALSE]
  ELSE LET b == CHOOSE b \in B : TRUE IN ZFree(p, list, b.at, b.bytes)

MallocFound ==
  /\ call # NoCall /\ Fits1(call.bytes)
  /\ LET i == Min(Fitting(call.bytes))
         new == Node(fl[i].at, call.bytes)
         r == FreeAll([pool EXCEPT !.used = @ + Round(call.bytes, MALLOCALIGN)], Taken(fl, i, call.bytes), call.old)
     IN  /\ fl' = r.fl /\ pool' = r.pool /\ panicked' = (panicked \/ r.panic)
         /\ live' = (live \ call.old) \cup {new}
  /\ call' = NoCall
  /\ UNCHANGED heapsize

\* sbrk(), zextendPool() and zfree() of what it gave
Incr(bytes) == Round(bytes, BLKEXTEND)
MallocExtend ==
  /\ call # NoCall /\ ~ Fits1(call.bytes)
  /\ heapsize + Incr(call.bytes) <= maxheap
  /\ LET base == heapbase + heapsize
         r == ZFree(Extended(pool, base, Incr(call.bytes)), fl, base, Incr(call.bytes))
     IN  fl' = r.fl /\ pool' = r.pool /\ panicked' = (panicked \/ r.panic)
  /\ heapsize' = heapsize + Incr(call.bytes)
  /\ call' = [call EXCEPT !.tries = @ + 1]
  /\ UNCHANGED live

\* no memory: the old block stays, unless it was Reallocf()
MallocFails ==
  /\ call # NoCall /\ ~ Fits1(call.bytes)
  /\ heapsize + Incr(call.bytes) > maxheap
  /\ LET gone == IF call.drop THEN call.old ELSE {}
         r == FreeAll(pool, fl, gone)
     IN  /\ fl' = r.fl /\ pool' = r.pool /\ panicked' = (panicked \/ r.panic)
         /\ live' = live \ gone
  /\ call' = NoCall
  /\ UNCHANGED heapsize

Free(b) ==
  /\ call = NoCall
  /\ LET r == ZFree(pool, fl, b.at, b.bytes)
     IN  fl' = r.fl /\ pool' = r.pool /\ panicked' = (panicked \/ r.panic)
  /\ live' = live \ {b}
  /\ UNCHANGED <<heapsize, call>>

MlInit ==
  /\ pool = [base |-> 0, end |-> 0, size |-> 0, used |-> 0]
  /\ fl = <<>> /\ live = {} /\ heapsize = 0 /\ call = NoCall /\ panicked = FALSE

MlNext ==
  \/ \E n \in MlSizes : Malloc(n, {}, FALSE)
  \/ \E n \in MlSizes, b \in live, drop \in BOOLEAN : Malloc(n, {b}, drop)
  \/ MallocFound \/ MallocExtend \/ MallocFails
  \/ \E b \in live : Free(b)

BytesOf(b) == b.at .. b.at + Round(b.bytes, MALLOCALIGN) - 1
\* AllocRight: blocks handed out and the free list share out what sbrk() has
\* given, no byte of it twice and none lost; free neighbours are merged, the
\* counters are right, one extension is enough for a request, and zfree()
\* never finds its list damaged.
AllocRight ==
  LET nodes == {fl[i] : i \in 1 .. Len(fl)}
      taken == UNION {BytesOf(b) : b \in live}
      free == UNION {BytesOf(n) : n \in nodes}
  IN  /\ ~ panicked
      /\ \A b, c \in live \cup nodes : b # c => BytesOf(b) \cap BytesOf(c) = {}
      /\ live \cap nodes = {}
      /\ taken \cup free = heapbase .. heapbase + heapsize - 1
      /\ pool.used = Cardinality(taken) /\ pool.size = heapsize
      /\ \A i \in 1 .. Len(fl) - 1 : fl[i].at + fl[i].bytes < fl[i + 1].at
      /\ call.tries <= 1 /\ (call.tries = 1 => Fits1(call.bytes))

------------------------------------------------------------------------------
(* bios_getmem() and the heap main() chooses; addresses in MB.  in.e820 is   *)
(* the sequence of entries [mem, base, len] the BIOS reports until it ends   *)
(* or fails; e801 what the older call reports below and above 16 MB, <<>> if *)
(* it fails; k88 what the oldest reports; quirk whether the entry at 1 MB is *)
(* not to be trusted.                                                        *)

HEAP_MIN == 3
FourG == 4096
Ext820(in) ==
  LET at == {i \in 1 .. Len(in.e820) : in.e820[i].mem /\ in.e820[i].base = 1 /\ ~ in.quirk}
  IN  IF at = {} THEN 0 ELSE in.e820[CHOOSE i \in at : \A j \in at : j <= i].len
\* the largest region above 1 MB, cut at 4 GB
High(in) ==
  LET Size(e) == IF e.base + e.len > FourG THEN FourG - e.base ELSE e.len
      ok == {i \in 1 .. Len(in.e820) : in.e820[i].mem /\ in.e820[i].base > 1 /\ in.e820[i].base < FourG}
      best == {i \in ok : \A j \in ok : Size(in.e820[j]) < Size(in.e820[i]) \/ (Size(in.e820[j]) = Size(in.e820[i]) /\ i <= j)}
      e == in.e820[CHOOSE i \in best : TRUE]
  IN  IF best = {} THEN [base |-> 0, size |-> 0] ELSE [base |-> e.base, size |-> Size(e)]

\* E801 is taken to describe all there is: regions found before are dropped
HighAfter(in) == IF Ext820(in) = 0 /\ in.e801 # <<>> THEN [base |-> 0, size |-> 0] ELSE High(in)
E801Max == 1023
Extmem(in) ==
  LET sum == in.e801[1] + in.e801[2]
      e801 == IF in.e801 = <<>> THEN 0 ELSE IF sum > E801Max THEN E801Max ELSE sum
  IN  IF Ext820(in) # 0 THEN Ext820(in) ELSE IF e801 # 0 THEN e801 ELSE in.k88

BiosMem(in) ==
  LET ext == Extmem(in)
      memtop == 1 + ext
      h == HighAfter(in)
      heap == IF ext >= HEAP_MIN /\ h.size < HEAP_MIN THEN [base |-> memtop - HEAP_MIN, size |-> HEAP_MIN] ELSE h
  IN  [heap |-> heap, memtop |-> memtop,
       copyin |-> IF heap.size > 0 /\ heap.base < memtop THEN heap.base ELSE memtop]

------------------------------------------------------------------------------
(* copy.c: in = [staging, size, got, pieces], got the memory the firmware    *)
(* has left; pieces are copied in turn to [dest, len].  The result is the    *)
(* memory after efi_copy_finish(), or an error.                              *)

StageSize(in) == IF in.got >= in.size THEN in.size ELSE IF in.got >= in.size \div 2 THEN in.size \div 2 ELSE 0
Staged(in) ==
  LET end == in.staging + StageSize(in)
      offset == in.staging - in.pieces[1].dest
      all == {in.pieces[k].dest + offset + in.pieces[k].len : k \in 1 .. Len(in.pieces)}
      Held(a) == \* what staging holds at a
        LET k == {k \in 1 .. Len(in.pieces) : a \in in.pieces[k].dest + offset .. in.pieces[k].dest + offset + in.pieces[k].len - 1}
        IN  IF k = {} THEN <<0, 0>> ELSE LET j == CHOOSE j \in k : \A i \in k : i <= j IN <<j, a - in.pieces[j].dest - offset>>
      \* upwards, word by word, over itself where the two meet
      Moved(d) ==
        LET gap == -offset
        IN  IF gap > 0 /\ gap < StageSize(in)
            THEN Held(in.staging + ((d - gap - in.staging) % gap)) ELSE Held(d + offset)
  IN  IF StageSize(in) = 0 THEN <<"nomem">>
      ELSE IF \E e \in all : e > end THEN <<"big">>
      ELSE <<"ok", [k \in 1 .. Len(in.pieces) |-> [i \in 0 .. in.pieces[k].len - 1 |-> Moved(in.pieces[k].dest + i)]]>>

------------------------------------------------------------------------------
NoResult == <<"none">>
MmResult(in) == IF in.kind = "bios" THEN <<"bios", BiosMem(in)>> ELSE Staged(in)
MmStep ==
  /\ mmOut = NoResult
  /\ mmOut' = MmResult(mmIn)
  /\ UNCHANGED mmIn
MmInit(S) == mmIn \in S /\ mmOut = NoResult

Range1(base, size) == base .. base + size - 1
\* MemMapRight: in the memory the machine really has (in.real), the heap and
\* the region files are read into are all memory, and do not meet.
MemMapRight ==
  (mmIn.kind = "bios" /\ mmOut # NoResult) =>
    LET m == mmOut[2]
        heap == Range1(m.heap.base, m.heap.size)
    IN  /\ heap \subseteq mmIn.real
        /\ 1 .. m.copyin - 1 \subseteq mmIn.real
        /\ heap \cap (1 .. m.copyin - 1) = {}
\* StagedRight: where the staging area and the place of the kernel do not
\* meet, or it lies above, the kernel finds every piece whole; a piece that
\* does not fit is refused.
StagedRight ==
  (mmIn.kind = "stage" /\ mmOut # NoResult) =>
    LET p == mmIn.pieces
        first == p[1].dest
        apart == first <= mmIn.staging \/ mmIn.staging + StageSize(mmIn) <= first
        top == CHOOSE t \in {p[k].dest + p[k].len : k \in 1 .. Len(p)} : \A k \in 1 .. Len(p) : p[k].dest + p[k].len <= t
    IN  IF StageSize(mmIn) < top - first THEN mmOut[1] \in {"nomem", "big"}
        ELSE apart => mmOut = <<"ok", [k \in 1 .. Len(p) |-> [i \in 0 .. p[k].len - 1 |-> <<k, i>>]]>>

\* MemoryRight: no memory is handed out, or used for the heap and for files,
\* twice.
MemoryRight == AllocRight /\ MemMapRight /\ StagedRight
=============================================================================
