--------------------------- MODULE GptBootProofs ---------------------------
(***************************************************************************)
(* Proofs about GptBoot, for every table size, sector size, disk content   *)
(* and number of faults.                                                   *)
(***************************************************************************)
EXTENDS GptBoot, TLAPS, FiniteSetTheorems, WellFoundedInduction

\* A set of natural numbers that is not empty has a least element.
LEMMA LeastElement ==
    ASSUME NEW S, S \subseteq Nat, S # {}
    PROVE  \E x \in S : \A y \in S : x <= y
<1> DEFINE R == OpToRel(<, Nat)
<1>1. IsWellFoundedOn(R, Nat)
  BY NatLessThanWellFounded
<1> HIDE DEF R
<1>2. PICK x \in S : \A y \in S : ~ (<<y, x>> \in R)
  BY <1>1, WFMin
<1>3. ASSUME NEW y \in S PROVE x <= y
  <2>1. ~ (<<y, x>> \in OpToRel(<, Nat))
    BY <1>2 DEF R
  <2>2. ~ (y < x)
    BY <2>1 DEF OpToRel
  <2> QED BY <2>2
<1> QED BY <1>3

\* First() of entries is one of them.
LEMMA FirstIn ==
    ASSUME NEW S, S \subseteq Ent, S # {}
    PROVE  First(S) \in S
<1>1. S \subseteq Nat
  BY SizeAssumption DEF Ent
<1>2. \E x \in S : \A y \in S : x <= y
  BY <1>1, LeastElement
<1> QED BY <1>2 DEF First

\* The sectors of the table are numbered below the name of the header.
LEMMA SecBelowHdr ==
    ASSUME NEW i \in Ent
    PROVE  Sec(i) \in Nat /\ Sec(i) \in Secs /\ Sec(i) < Hdr
<1>1. i \in Nat /\ EPS \in Nat /\ EPS > 0 /\ N \in Nat /\ i < N
  BY SizeAssumption DEF Ent
<1>2. i \div EPS \in Nat /\ i \div EPS <= i
  BY <1>1, Z3
<1> QED BY <1>1, <1>2 DEF Sec, Secs, Hdr

\* What search() returns: an entry exactly when it says it found one.
LEMMA SearchType ==
    ASSUME NEW u, NEW cur \in -1 .. N, NEW once \in BOOLEAN
    PROVE  /\ search(u, cur, once).once \in BOOLEAN
           /\ search(u, cur, once).found => search(u, cur, once).ent \in Ent
<1> DEFINE hi == IF once THEN Match(u, cur + 1, {"ME", "ONCE"}, {}) ELSE {}
           mid == Match(u, IF once THEN 0 ELSE cur + 1, {"ME"}, {"ONCE"})
           low == IF cur = -1 THEN Match(u, 0, {}, {}) ELSE {}
<1>1. hi \subseteq Ent /\ mid \subseteq Ent /\ low \subseteq Ent
  BY SizeAssumption DEF Match, Ent
<1>2. /\ hi # {} => First(hi) \in Ent
      /\ mid # {} => First(mid) \in Ent
      /\ low # {} => First(low) \in Ent
  BY <1>1, FirstIn
<1>3. ASSUME NEW e, NEW b
      PROVE  /\ Result(e, b).once = b
             /\ Result(e, b).ent = e
             /\ Result(e, b).found = (e < N)
  BY DEF Result
<1>4. ~ (N < N)
  BY SizeAssumption
<1> HIDE DEF hi, mid, low
<1>5. \/ search(u, cur, once) = Result(N, once)
      \/ hi # {} /\ search(u, cur, once) = Result(First(hi), once)
      \/ mid # {} /\ search(u, cur, once) = Result(First(mid), FALSE)
      \/ low # {} /\ search(u, cur, once) = Result(First(low), FALSE)
      \/ search(u, cur, once) = Result(N, FALSE)
  BY DEF search, hi, mid, low
<1>6. ASSUME NEW e, e \in Ent \/ e = N, NEW b \in BOOLEAN,
             search(u, cur, once) = Result(e, b)
      PROVE  /\ search(u, cur, once).once \in BOOLEAN
             /\ search(u, cur, once).found => search(u, cur, once).ent \in Ent
  <2>1. /\ search(u, cur, once).once = b
        /\ search(u, cur, once).ent = e
        /\ search(u, cur, once).found = (e < N)
    BY <1>3, <1>6
  <2>2. e = N => ~search(u, cur, once).found
    BY <2>1, <1>4
  <2> QED BY <2>1, <2>2, <1>6
<1>7. FALSE \in BOOLEAN
  OBVIOUS
<1> QED BY <1>2, <1>5, <1>6, <1>7

-----------------------------------------------------------------------------
(* Type correctness *)

\* The entry main() is trying to boot exists.
CurOK == pc \in {"probe", "key", "load", "next"} => curent \in Ent
TInv == TypeOK /\ CurOK

\* Taking an entry keeps the types.
LEMMA TakeType ==
    ASSUME TypeOK, NEW e \in Ent, take(e)
    PROVE  /\ mem' \in [Copies -> Table]
           /\ pend' \in [Copies -> SUBSET (Secs \cup {Hdr})]
           /\ curent' \in Ent /\ curent' \in -1 .. N
           /\ part' \in -1 .. N + 1
           /\ start' \in Ent \cup {Whole}
<1>1. Sec(e) \in Secs
  BY SecBelowHdr
<1>2. \A c \in Copies : [mem[c] EXCEPT ![e] = @ \ {"ME"}] \in Table
  BY DEF TypeOK, Table
<1> QED BY <1>1, <1>2, SizeAssumption DEF take, TypeOK, Ent

\* The conversion of a table is a table, and the sectors it names exist.
LEMMA ConvType ==
    ASSUME NEW t \in Table
    PROVE  conv(t) \in Table /\ convSecs(t) \subseteq Secs \cup {Hdr}
BY SecBelowHdr DEF conv, convSecs, Table, Flags

\* Reading the table keeps the type invariant.
LEMMA GptReadType ==
    ASSUME TInv, NEW R \in SUBSET Copies, gptread(R), faults' \in 0 .. MaxFaults,
           ioerr' \in BOOLEAN
    PROVE  TInv'
<1> USE DEF gptread
<1>1. mem' \in [Copies -> Table] /\ pend' \in [Copies -> SUBSET (Secs \cup {Hdr})]
  BY ConvType DEF TInv, TypeOK
<1>2. valid' \subseteq Copies
  BY DEF TInv, TypeOK
<1>3. pc' \in {"dead", "prompt", "find"}
  BY DEF GiveUp
<1> QED BY <1>1, <1>2, <1>3, SizeAssumption DEF TInv, TypeOK, CurOK, Whole, diskVars

\* The type invariant holds at the start.
LEMMA TInvInit == Init => TInv
<1> SUFFICES ASSUME Init PROVE TInv
  OBVIOUS
<1>1. tbl \in [Copies -> Table] /\ crc \in [Copies -> Table]
  <2>1. PICK t \in [Ent -> AttrSets] : tbl = [c \in Copies |-> t]
    BY DEF Init
  <2>2. t \in Table
    BY LayoutAssumption DEF Table
  <2> QED BY <2>1, <2>2 DEF Init
<1>2. NoTables \in [Copies -> Table]
  BY DEF NoTables, Table
<1>3. pend \in [Copies -> SUBSET (Secs \cup {Hdr})]
  BY DEF Init
<1>4. curent \in -1 .. N /\ part \in -1 .. N + 1 /\ faults \in 0 .. MaxFaults
  BY SizeAssumption, FaultAssumption DEF Init
<1> QED BY <1>1, <1>2, <1>3, <1>4 DEF Init, TInv, TypeOK, CurOK

\* Every step keeps the type invariant.
LEMMA TInvNext == TInv /\ [Next]_vars => TInv'
<1> SUFFICES ASSUME TInv, [Next]_vars PROVE TInv'
  OBVIOUS
<1> USE DEF TInv
<1> USE DEF diskVars, gptVars, dskVars, ctlVars, histVars
<1>1. CASE PowerOn
  BY <1>1, SizeAssumption DEF PowerOn, TypeOK, CurOK, Whole, NoSb
<1>2. CASE Write
  <2>1. PICK k \in Secs \cup {Hdr} : IsNextSec(k) /\ WriteSec(Writing, k)
    BY <1>2 DEF Write
  <2>2. Writing \in Copies
    BY DEF Writing, Copies
  <2>3. WithSector(Writing, k) \in Table
    BY <2>2 DEF WithSector, TypeOK, Table
  <2>4. /\ tbl' \in [Copies -> Table]
        /\ crc' \in [Copies -> Table]
        /\ pend' \in [Copies -> SUBSET (Secs \cup {Hdr})]
    BY <2>1, <2>2, <2>3 DEF WriteSec, TypeOK
  <2> QED BY <2>1, <2>4 DEF WriteSec, TypeOK, CurOK
<1>3. CASE GptRead
  BY <1>3, GptReadType DEF GptRead, TypeOK
<1>4. CASE GptReadFails
  <2>1. faults' \in 0 .. MaxFaults /\ ioerr' \in BOOLEAN
    BY <1>4, FaultAssumption DEF GptReadFails, TypeOK
  <2>2. PICK c \in Copies : gptread(Copies \ {c})
    BY <1>4 DEF GptReadFails
  <2> QED BY <2>1, <2>2, GptReadType
<1>5. CASE GptInitFind
  <2> USE <1>5 DEF GptInitFind
  <2>1. CASE part >= 0 /\ PartOK(uuid, part)
    <3>1. part - 1 \in Ent
      BY <2>1, SizeAssumption DEF PartOK, Ent
    <3>2. take(part - 1)
      BY <2>1
    <3>3. pc' \in {"pload", "key", "probe"}
      BY <2>1 DEF Found
    <3>4. UNCHANGED <<bootonce, uuid>>
      BY <2>1
    <3> QED BY <3>1, <3>2, <3>3, <3>4, TakeType DEF TypeOK, CurOK
  <2>2. CASE part >= 0 /\ ~PartOK(uuid, part)
    <3>1. /\ pc' \in {"gptread", "dead", "prompt"}
          /\ uuid' = "fbsd"
          /\ UNCHANGED <<mem, pend, curent, bootonce, part, start>>
      BY <2>2 DEF GiveUp
    <3> QED BY <3>1 DEF TypeOK, CurOK
  <2>3. CASE ~(part >= 0)
    <3> DEFINE r == search(uuid, curent, bootonce)
    <3>1. r.once \in BOOLEAN /\ (r.found => r.ent \in Ent)
      BY SearchType DEF TypeOK
    <3>2. bootonce' = r.once
      BY <2>3
    <3>3. CASE r.found
      <4>1. take(r.ent) /\ UNCHANGED uuid /\ pc' = Found
        BY <2>3, <3>3
      <4>2. pc' \in {"pload", "key", "probe"}
        BY <4>1 DEF Found
      <4> HIDE DEF r
      <4>3. r.ent \in Ent
        BY <3>1, <3>3
      <4>4. /\ mem' \in [Copies -> Table]
            /\ pend' \in [Copies -> SUBSET (Secs \cup {Hdr})]
            /\ curent' \in Ent /\ curent' \in -1 .. N
            /\ part' \in -1 .. N + 1
            /\ start' \in Ent \cup {Whole}
        BY <4>1, <4>3, TakeType
      <4> QED BY <3>1, <3>2, <4>1, <4>2, <4>4 DEF TypeOK, CurOK
    <3>4. CASE ~r.found
      <4>1. /\ curent' = N
            /\ pc' \in {"gptread", "dead", "prompt"}
            /\ uuid' = "fbsd"
            /\ UNCHANGED <<mem, pend, part, start>>
        BY <2>3, <3>4 DEF GiveUp
      <4> HIDE DEF r
      <4> QED BY <3>1, <3>2, <4>1, SizeAssumption DEF TypeOK, CurOK
    <3> QED BY <3>3, <3>4
  <2> QED BY <2>1, <2>2, <2>3
<1>6. CASE Probe
  <2>1. LayoutOK(layout)
    BY LayoutAssumption DEF TypeOK
  <2>2. sb' \in Ent \cup {NoSb}
    BY <1>6, <2>1 DEF Probe, dskprobe, LayoutOK
  <2>3. /\ part' \in -1 .. N + 1
        /\ uuid' \in {"dfly", "fbsd"}
        /\ call' \in {"main", "config", "prompt"}
        /\ pc' \in {"key", "prompt", "gptread"}
    BY <1>6, <2>1, SizeAssumption DEF Probe, LayoutOK, TypeOK, NoConf
  <2> QED BY <1>6, <2>2, <2>3 DEF Probe, TypeOK, CurOK
<1>7. CASE KeyHit
  BY <1>7 DEF KeyHit, TypeOK, CurOK
<1>8. CASE NoKey
  BY <1>8 DEF NoKey, TypeOK, CurOK
<1>9. ASSUME Attempt
      PROVE  tried' \subseteq Ent /\ attempted' \subseteq Ent \cup {Whole}
  BY <1>9 DEF Attempt, TypeOK
<1>10. CASE Exec
  <2>1. NoTables \in [Copies -> Table]
    BY DEF NoTables, Table
  <2> QED BY <1>9, <1>10, <2>1 DEF Exec, Attempt, TypeOK, CurOK
<1>11. CASE LoadFails
  <2>1. curent \in Ent /\ Sec(curent) \in Secs
    BY <1>11, SecBelowHdr DEF LoadFails, CurOK
  <2>2. ASSUME NEW t \in Table
        PROVE  [t EXCEPT ![curent] = (@ \ {"ONCE"}) \cup {"FAILED"}] \in Table
    <3>1. \A a \in SUBSET Flags : (a \ {"ONCE"}) \cup {"FAILED"} \in SUBSET Flags
      BY DEF Flags
    <3> QED BY <2>1, <3>1 DEF Table
  <2>3. mem' \in [Copies -> Table] /\ pend' \in [Copies -> SUBSET (Secs \cup {Hdr})]
    BY <1>11, <2>1, <2>2 DEF LoadFails, TypeOK
  <2> QED BY <1>9, <1>11, <2>1, <2>3 DEF LoadFails, Attempt, TypeOK, CurOK
<1>12. CASE NextPart
  <2> DEFINE r1 == search("dfly", curent, bootonce)
             r2 == search("fbsd", IF r1.found THEN curent ELSE N, r1.once)
             r  == IF r1.found THEN r1 ELSE r2
  <2>1. r1.once \in BOOLEAN /\ (r1.found => r1.ent \in Ent)
    BY SearchType DEF TypeOK
  <2>2. (IF r1.found THEN curent ELSE N) \in -1 .. N
    BY SizeAssumption DEF TypeOK
  <2>3. r2.once \in BOOLEAN /\ (r2.found => r2.ent \in Ent)
    <3> HIDE DEF r1
    <3> QED BY <2>1, <2>2, SearchType
  <2>4. /\ pc = "next" /\ bootonce' = r.once
        /\ IF r.found
             THEN take(r.ent) /\ pc' = "probe"
             ELSE curent' = N /\ pc' = "prompt" /\ UNCHANGED <<mem, pend, part, start>>
        /\ UNCHANGED <<layout, diskVars, valid, sb, uuid, call, autoboot, histVars>>
    BY <1>12 DEF NextPart
  <2>5. r.once \in BOOLEAN /\ (r.found => r.ent \in Ent)
    <3>1. r = r1 \/ r = r2
      OBVIOUS
    <3> HIDE DEF r1, r2, r
    <3> QED BY <2>1, <2>3, <3>1
  <2> HIDE DEF r
  <2>6. CASE r.found
    <3>1. take(r.ent) /\ r.ent \in Ent
      BY <2>4, <2>5, <2>6
    <3>2. /\ mem' \in [Copies -> Table]
          /\ pend' \in [Copies -> SUBSET (Secs \cup {Hdr})]
          /\ curent' \in Ent /\ curent' \in -1 .. N
          /\ part' \in -1 .. N + 1
          /\ start' \in Ent \cup {Whole}
      BY <3>1, TakeType
    <3> QED BY <2>4, <2>5, <2>6, <3>2 DEF TypeOK, CurOK
  <2>7. CASE ~r.found
    BY <2>4, <2>5, <2>7, SizeAssumption DEF TypeOK, CurOK
  <2> QED BY <2>6, <2>7
<1>13. CASE PromptLoadFails
  BY <1>9, <1>13 DEF PromptLoadFails, Attempt, TypeOK, CurOK
<1>14. CASE WriteFails
  <2>1. PICK k : pend' = [pend EXCEPT ![Writing] = AfterFailure(Writing, k)]
    BY <1>14 DEF WriteFails
  <2>2. AfterFailure(Writing, k) \subseteq Secs \cup {Hdr}
    BY DEF AfterFailure, TypeOK, Writing, Copies
  <2>3. pend' \in [Copies -> SUBSET (Secs \cup {Hdr})]
    BY <2>1, <2>2 DEF TypeOK
  <2> QED BY <1>14, <2>3, FaultAssumption DEF WriteFails, TypeOK, CurOK
<1>15. CASE Reset
  <2>1. NoTables \in [Copies -> Table]
    BY DEF NoTables, Table
  <2>2. faults' \in 0 .. MaxFaults
    BY <1>15, FaultAssumption DEF Reset, TypeOK
  <2>3. /\ curent' \in -1 .. N /\ part' \in -1 .. N + 1
    BY <1>15, SizeAssumption DEF Reset, RamCleared
  <2> QED BY <1>15, <2>1, <2>2, <2>3 DEF Reset, RamCleared, TypeOK, CurOK
<1>16. ASSUME NEW p \in 1 .. N + 1, UserSelect(p) PROVE TInv'
  <2>1. sb' \in Ent \cup {NoSb}
    BY <1>16, LayoutAssumption DEF UserSelect, dskprobe, LayoutOK, TypeOK
  <2>2. part' \in -1 .. N + 1
    BY <1>16, SizeAssumption DEF UserSelect
  <2> QED BY <1>16, <2>1, <2>2 DEF UserSelect, TypeOK, CurOK
<1>17. CASE UserBoot
  <2>1. sb' \in Ent \cup {NoSb}
    BY <1>17, LayoutAssumption DEF UserBoot, dskprobe, LayoutOK, TypeOK
  <2> QED BY <1>17, <2>1 DEF UserBoot, TypeOK, CurOK
<1>18. ASSUME NEW i \in Ent, NEW f \in FlagCmds, OsFlag(i, f) PROVE TInv'
  <2>1. f.s \subseteq Flags /\ f.t \subseteq Flags
    BY LayoutAssumption
  <2>2. \A a \in SUBSET Flags : NewAttr(a, f) \in SUBSET Flags
    BY <2>1 DEF NewAttr
  <2>3. \A c \in Copies : [tbl[c] EXCEPT ![i] = NewAttr(@, f)] \in Table
    BY <2>2 DEF TypeOK, Table
  <2>4. tbl' \in [Copies -> Table] /\ crc' \in [Copies -> Table]
    BY <1>18, <2>3 DEF OsFlag, TypeOK
  <2> QED BY <1>18, <2>4 DEF OsFlag, TypeOK, CurOK
<1>19. CASE UNCHANGED vars
  BY <1>19 DEF vars, TypeOK, CurOK
<1> QED
  BY <1>1, <1>2, <1>3, <1>4, <1>5, <1>6, <1>7, <1>8, <1>10, <1>11, <1>12, <1>13,
     <1>14, <1>15, <1>16, <1>17, <1>18, <1>19 DEF Next, Step

\* Every variable of the boot program keeps its type: whatever the disk holds,
\* gptfind(), gptbootfailed() and the update of a sector use an entry that
\* exists.
THEOREM TypeCorrect == Spec => []TypeOK
<1>1. TInv => TypeOK
  BY DEF TInv
<1> QED BY <1>1, TInvInit, TInvNext, PTL DEF Spec

-----------------------------------------------------------------------------
(***************************************************************************)
(* One fault, one copy.  A copy counts as spoiled when the table in memory *)
(* differs from the one on disk in a sector that is not about to be        *)
(* written, or when it is torn and not the copy being written now.         *)
(***************************************************************************)
Active(c)  == pend[c] # {} /\ (c = "bak" => pend["pri"] = {})
Stale(c)   == c \in valid /\ \E i \in Ent : Sec(i) \notin pend[c] /\ tbl[c][i] # mem[c][i]
Spoiled(c) == Stale(c) \/ (~Active(c) /\ Torn(c))
SpoiledCopies == {c \in Copies : Spoiled(c)}

PendOK == \A c \in Copies : pend[c] # {} => c \in valid /\ Hdr \in pend[c]
RamOK  == pc \in {"off", "kernel"} => valid = {}
SpoiledBound == Cardinality(SpoiledCopies) <= faults

DInv == TInv /\ PendOK /\ RamOK /\ SpoiledBound

\* Cardinalities of sets of copies: a subset has no more elements, and one
\* copy more is one element more at most.
LEMMA CopyCount ==
    ASSUME NEW S \in SUBSET Copies, NEW T \in SUBSET Copies
    PROVE  /\ Cardinality(S) \in Nat
           /\ S \subseteq T => Cardinality(S) <= Cardinality(T)
           /\ \A c \in Copies : S \subseteq T \cup {c} => Cardinality(S) <= Cardinality(T) + 1
<1>1. IsFiniteSet(Copies)
  <2>1. IsFiniteSet({"pri"} \cup {"bak"})
    BY FS_Singleton, FS_AddElement
  <2>2. Copies = {"pri"} \cup {"bak"}
    BY DEF Copies
  <2> QED BY <2>1, <2>2
<1>2. IsFiniteSet(S) /\ IsFiniteSet(T)
  BY <1>1, FS_Subset
<1>3. Cardinality(S) \in Nat /\ Cardinality(T) \in Nat
  BY <1>2, FS_CardinalityType
<1>4. S \subseteq T => Cardinality(S) <= Cardinality(T)
  BY <1>2, FS_Subset
<1>5. ASSUME NEW c \in Copies, S \subseteq T \cup {c}
      PROVE  Cardinality(S) <= Cardinality(T) + 1
  <2>1. IsFiniteSet(T \cup {c}) /\ Cardinality(T \cup {c}) <= Cardinality(T) + 1
    <3>1. /\ IsFiniteSet(T \cup {c})
          /\ Cardinality(T \cup {c}) = IF c \in T THEN Cardinality(T) ELSE Cardinality(T) + 1
      BY <1>2, FS_AddElement
    <3> QED BY <1>3, <3>1
  <2>2. Cardinality(S) <= Cardinality(T \cup {c}) /\ Cardinality(T \cup {c}) \in Nat
    BY <1>5, <2>1, FS_Subset, FS_CardinalityType
  <2> QED BY <1>3, <2>1, <2>2
<1> QED BY <1>3, <1>4, <1>5

\* A step that spoils nothing, or one copy at the price of a fault, keeps the
\* bound.
LEMMA BoundKept ==
    ASSUME DInv, TInv',
           \/ SpoiledCopies' \subseteq SpoiledCopies /\ faults' >= faults
           \/ /\ \E c \in Copies : SpoiledCopies' \subseteq SpoiledCopies \cup {c}
              /\ faults' = faults + 1
    PROVE  SpoiledBound'
<1>1. SpoiledCopies \in SUBSET Copies /\ SpoiledCopies' \in SUBSET Copies
  BY DEF SpoiledCopies
<1>2. faults \in Nat /\ faults' \in Nat
  BY FaultAssumption DEF DInv, TInv, TypeOK
<1>3. Cardinality(SpoiledCopies) \in Nat /\ Cardinality(SpoiledCopies') \in Nat
  BY <1>1, CopyCount
<1>4. Cardinality(SpoiledCopies) <= faults
  BY DEF DInv, SpoiledBound
<1>5. CASE SpoiledCopies' \subseteq SpoiledCopies /\ faults' >= faults
  <2>1. Cardinality(SpoiledCopies') <= Cardinality(SpoiledCopies)
    BY <1>1, <1>5, CopyCount
  <2>2. Cardinality(SpoiledCopies') <= faults'
    BY <1>2, <1>3, <1>4, <1>5, <2>1
  <2> QED BY <2>2 DEF SpoiledBound
<1>6. CASE /\ \E c \in Copies : SpoiledCopies' \subseteq SpoiledCopies \cup {c}
           /\ faults' = faults + 1
  <2> PICK c \in Copies : SpoiledCopies' \subseteq SpoiledCopies \cup {c}
    BY <1>6
  <2>1. Cardinality(SpoiledCopies') <= Cardinality(SpoiledCopies) + 1
    BY <1>1, CopyCount
  <2>2. Cardinality(SpoiledCopies') <= faults'
    BY <1>2, <1>3, <1>4, <1>6, <2>1
  <2> QED BY <2>2 DEF SpoiledBound
<1> QED BY <1>5, <1>6

\* A step that leaves the disk, its image in memory and the sectors to be
\* written alone.
LEMMA QuietStep ==
    ASSUME DInv, UNCHANGED <<tbl, crc, mem, valid, pend>>
    PROVE  PendOK' /\ SpoiledCopies' = SpoiledCopies
BY DEF DInv, PendOK, SpoiledCopies, Spoiled, Stale, Active, Torn

\* The update of one entry e in the tables of the copies C, its sector and the
\* headers queued for writing.
LEMMA EntryUpdate ==
    ASSUME DInv, Idle, NEW e \in Ent, NEW C \in SUBSET valid,
           UNCHANGED <<tbl, crc, valid>>,
           \A c \in Copies \ C : mem'[c] = mem[c] /\ pend'[c] = {},
           \A c \in C : /\ \A i \in Ent : i # e => mem'[c][i] = mem[c][i]
                       /\ pend'[c] = {Sec(e), Hdr}
    PROVE  PendOK' /\ SpoiledCopies' \subseteq SpoiledCopies
<1>1. C \subseteq Copies
  BY DEF DInv, TInv, TypeOK
<1>2. PendOK'
  BY <1>1 DEF PendOK
<1>3. ASSUME NEW c \in Copies, Spoiled(c)' PROVE Spoiled(c)
  <2>1. ~Active(c)
    BY DEF Idle, Active
  <2>2. CASE Torn(c)
    BY <2>1, <2>2 DEF Spoiled
  <2>3. CASE ~Torn(c)
    <3>1. Stale(c)'
      BY <1>3, <2>3 DEF Spoiled, Torn
    <3>2. PICK i \in Ent : Sec(i) \notin pend'[c] /\ tbl[c][i] # mem'[c][i]
      BY <3>1 DEF Stale
    <3>3. tbl[c][i] # mem[c][i]
      BY <3>2
    <3>4. c \in valid /\ pend[c] = {}
      BY <3>1 DEF Stale, Idle
    <3> QED BY <3>3, <3>4 DEF Spoiled, Stale
  <2> QED BY <2>2, <2>3
<1> QED BY <1>2, <1>3 DEF SpoiledCopies

\* Taking an entry spoils no copy: every change that is pending is one of the taken entry.
LEMMA TakeUpdate ==
    ASSUME DInv, Idle, NEW e \in Ent, take(e), UNCHANGED <<tbl, crc, valid>>
    PROVE  PendOK' /\ SpoiledCopies' \subseteq SpoiledCopies
<1> DEFINE C == IF "ONCE" \in gpttable[e] THEN valid ELSE {}
<1>1. C \in SUBSET valid /\ C \subseteq Copies
  BY DEF DInv, TInv, TypeOK
<1>2. /\ mem' = [c \in Copies |->
                    IF c \in C THEN [mem[c] EXCEPT ![e] = @ \ {"ME"}] ELSE mem[c]]
      /\ pend' = [c \in Copies |-> IF c \in C THEN {Sec(e), Hdr} ELSE {}]
  BY DEF take
<1> HIDE DEF C
<1>3. \A c \in Copies : mem[c] \in Table
  BY DEF DInv, TInv, TypeOK
<1>4. \A c \in Copies \ C : mem'[c] = mem[c] /\ pend'[c] = {}
  BY <1>2
<1>5. \A c \in C : /\ \A i \in Ent : i # e => mem'[c][i] = mem[c][i]
                  /\ pend'[c] = {Sec(e), Hdr}
  BY <1>1, <1>2, <1>3 DEF Table
<1> QED BY <1>1, <1>4, <1>5, EntryUpdate

\* gptread() spoils nothing: it takes the tables of intact copies over, and
\* queues exactly the sectors it changes.
LEMMA GptReadUpdate ==
    ASSUME DInv, NEW R \in SUBSET Copies, gptread(R)
    PROVE  PendOK' /\ SpoiledCopies' \subseteq SpoiledCopies
<1>1. /\ Idle /\ UNCHANGED <<tbl, crc>>
      /\ valid' = {c \in R : ~Torn(c)}
      /\ mem' = [c \in Copies |-> IF c \in valid' THEN conv(tbl[c]) ELSE mem[c]]
      /\ pend' = [c \in Copies |-> IF c \in valid' THEN convSecs(tbl[c]) ELSE {}]
  BY DEF gptread, diskVars
<1>2. PendOK'
  BY <1>1 DEF PendOK, convSecs
<1>3. ASSUME NEW c \in Copies, Spoiled(c)' PROVE Spoiled(c)
  <2>1. ~Stale(c)'
    BY <1>1 DEF Stale, convSecs
  <2>2. Torn(c)
    BY <1>1, <1>3, <2>1 DEF Spoiled, Torn
  <2> QED BY <1>1, <2>2 DEF Spoiled, Active, Idle
<1> QED BY <1>2, <1>3 DEF SpoiledCopies

\* The invariant of the damage holds at the start.
LEMMA DInvInit == Init => DInv
<1> SUFFICES ASSUME Init PROVE DInv
  OBVIOUS
<1>1. TInv
  BY TInvInit
<1>2. PendOK /\ RamOK
  BY DEF Init, PendOK, RamOK
<1>3. SpoiledCopies = {}
  BY DEF Init, SpoiledCopies, Spoiled, Stale, Torn
<1>4. SpoiledBound
  BY <1>3, FS_EmptySet DEF Init, SpoiledBound
<1> QED BY <1>1, <1>2, <1>4 DEF DInv

\* Writing sector k of copy c, the one whose turn it is.
LEMMA WriteUpdate ==
    ASSUME DInv, NEW k \in Secs \cup {Hdr}, IsNextSec(k), WriteSec(Writing, k)
    PROVE  PendOK' /\ SpoiledCopies' \subseteq SpoiledCopies
<1>0. PICK c \in Copies : c = Writing
  BY DEF Writing, Copies
<1>1. k \in pend[c] /\ Active(c) /\ Hdr \in pend[c] /\ c \in valid
  BY <1>0 DEF Writing, IsNextSec, Active, Copies, DInv, PendOK
<1>2. /\ pend' = [pend EXCEPT ![c] = @ \ {k}]
      /\ mem' = mem /\ valid' = valid
      /\ IF k = Hdr
           THEN crc' = [crc EXCEPT ![c] = mem[c]] /\ tbl' = tbl
           ELSE tbl' = [tbl EXCEPT ![c] = WithSector(c, k)] /\ crc' = crc
  BY <1>0 DEF WriteSec
<1>3. /\ tbl \in [Copies -> Table] /\ crc \in [Copies -> Table]
      /\ mem \in [Copies -> Table] /\ pend \in [Copies -> SUBSET (Secs \cup {Hdr})]
  BY DEF DInv, TInv, TypeOK
<1>4. k = Hdr => pend[c] = {Hdr}
  <2> SUFFICES ASSUME k = Hdr, NEW j \in pend[c], j # Hdr PROVE FALSE
    BY <1>1
  <2>1. j \in Secs /\ k <= j
    BY <1>0, <1>1, <1>3 DEF IsNextSec
  <2>2. PICK i \in Ent : j = Sec(i)
    BY <2>1 DEF Secs
  <2> QED BY <2>1, <2>2, SecBelowHdr, SizeAssumption DEF Hdr
<1>5. PendOK'
  BY <1>1, <1>2, <1>3, <1>4 DEF PendOK, DInv
<1>6. ASSUME NEW d \in Copies, d # c, Spoiled(d)' PROVE Spoiled(d)
  <2>1. pend'[d] = pend[d] /\ tbl'[d] = tbl[d] /\ crc'[d] = crc[d]
    BY <1>1, <1>2, <1>3, <1>6
  <2>2. ~Active(d)
    BY <1>1, <1>6 DEF Active, Copies
  <2> QED BY <1>2, <1>6, <2>1, <2>2 DEF Spoiled, Stale, Torn
<1>7. ASSUME Spoiled(c)' PROVE Spoiled(c)
  <2>1. CASE k = Hdr
    <3>1. crc'[c] = mem[c] /\ tbl'[c] = tbl[c] /\ pend[c] = {Hdr} /\ pend'[c] = {}
      BY <1>1, <1>2, <1>3, <1>4, <2>1
    <3>2. tbl[c] # mem[c]
      BY <1>2, <1>7, <3>1 DEF Spoiled, Stale, Torn
    <3>3. PICK i \in Ent : tbl[c][i] # mem[c][i]
      BY <1>1, <1>3, <3>2 DEF Table
    <3>4. Sec(i) \notin pend[c]
      BY <3>1, SecBelowHdr, SizeAssumption DEF Hdr
    <3> QED BY <1>1, <3>3, <3>4 DEF Spoiled, Stale
  <2>2. CASE k # Hdr
    <3>1. tbl'[c] = WithSector(c, k) /\ crc' = crc /\ pend'[c] = pend[c] \ {k}
      BY <1>1, <1>2, <1>3, <2>2
    <3>2. Active(c)'
      <4>1. Hdr \in pend'[c]
        BY <1>1, <2>2, <3>1
      <4>2. c = "bak" => pend'["pri"] = {}
        BY <1>1, <1>2, <1>3 DEF Active, Copies
      <4> QED BY <1>2, <4>1, <4>2 DEF Active
    <3>3. Stale(c)'
      BY <1>7, <3>2 DEF Spoiled
    <3>4. PICK i \in Ent : Sec(i) \notin pend'[c] /\ tbl'[c][i] # mem[c][i]
      BY <1>2, <3>3 DEF Stale
    <3>5. Sec(i) # k /\ tbl[c][i] # mem[c][i] /\ Sec(i) \notin pend[c]
      BY <3>1, <3>4 DEF WithSector
    <3> QED BY <1>1, <3>5 DEF Spoiled, Stale
  <2> QED BY <2>1, <2>2
<1> QED BY <1>5, <1>6, <1>7 DEF SpoiledCopies

\* A failed write spoils no copy but the one being written.
LEMMA WriteFailsUpdate ==
    ASSUME DInv, WriteFails
    PROVE  PendOK' /\ SpoiledCopies' \subseteq SpoiledCopies \cup {Writing}
<1> DEFINE c == Writing
<1>1. PICK k \in Secs \cup {Hdr} :
        IsNextSec(k) /\ pend' = [pend EXCEPT ![c] = AfterFailure(c, k)]
  BY DEF WriteFails
<1>2. c \in Copies /\ k \in pend[c] /\ Active(c) /\ Hdr \in pend[c] /\ c \in valid
  BY <1>1 DEF Writing, IsNextSec, Active, Copies, DInv, PendOK
<1>3. UNCHANGED <<tbl, crc, mem, valid>>
  BY DEF WriteFails, diskVars
<1>4. pend \in [Copies -> SUBSET (Secs \cup {Hdr})]
  BY DEF DInv, TInv, TypeOK
<1>5. k = Hdr => pend[c] = {Hdr}
  <2> SUFFICES ASSUME k = Hdr, NEW j \in pend[c], j # Hdr PROVE FALSE
    BY <1>2
  <2>1. j \in Secs /\ k <= j
    BY <1>1, <1>2, <1>4 DEF IsNextSec
  <2>2. PICK i \in Ent : j = Sec(i)
    BY <2>1 DEF Secs
  <2> QED BY <2>1, <2>2, SecBelowHdr, SizeAssumption DEF Hdr
<1> HIDE DEF c
<1>6. PendOK'
  <2>1. AfterFailure(c, k) = {} \/ Hdr \in AfterFailure(c, k)
    BY <1>2, <1>5 DEF AfterFailure
  <2> QED BY <1>1, <1>2, <1>3, <1>4, <2>1 DEF PendOK, DInv
<1>7. ASSUME NEW d \in Copies, d # c, Spoiled(d)' PROVE Spoiled(d)
  <2>1. pend'[d] = pend[d]
    BY <1>1, <1>2, <1>4, <1>7
  <2>2. ~Active(d)
    BY <1>2, <1>7 DEF Active, Copies
  <2> QED BY <1>3, <1>7, <2>1, <2>2 DEF Spoiled, Stale, Torn
<1> QED BY <1>6, <1>7 DEF SpoiledCopies, c

\* A reset: the copy being written may be torn, the other one is as it was.
LEMMA ResetUpdate ==
    ASSUME DInv, Reset
    PROVE  /\ PendOK' /\ RamOK'
           /\ \/ SpoiledCopies' \subseteq SpoiledCopies /\ faults' = faults
              \/ SpoiledCopies' \subseteq SpoiledCopies \cup {Writing} /\ faults' = faults + 1
<1>1. /\ valid' = {} /\ UNCHANGED <<tbl, crc>> /\ pc' = "off"
      /\ \A c \in Copies : pend'[c] = {}
  BY DEF Reset, RamCleared, diskVars
<1>2. PendOK' /\ RamOK'
  BY <1>1 DEF PendOK, RamOK
<1>3. \A c \in Copies : Spoiled(c)' => Torn(c)
  BY <1>1 DEF Spoiled, Stale, Torn
<1>4. \A c \in Copies : Torn(c) /\ ~Active(c) => Spoiled(c)
  BY DEF Spoiled
<1>5. \A c \in Copies : Active(c) => c = Writing /\ ~Idle
  BY DEF Active, Writing, Idle, Copies
<1>6. CASE Idle
  BY <1>2, <1>3, <1>4, <1>5, <1>6 DEF Reset, SpoiledCopies
<1>7. CASE ~Idle
  BY <1>2, <1>3, <1>4, <1>5, <1>7 DEF Reset, SpoiledCopies
<1> QED BY <1>6, <1>7

\* Every step keeps it.
LEMMA DInvNext == DInv /\ [Next]_vars => DInv'
<1> SUFFICES ASSUME DInv, [Next]_vars PROVE DInv'
  OBVIOUS
<1> USE DEF diskVars, gptVars, dskVars, ctlVars, histVars
<1>t. TInv'
  BY TInvNext DEF DInv
<1>n. faults \in Nat
  BY FaultAssumption DEF DInv, TInv, TypeOK
\* It remains to show these three for each action.
<1>s. ASSUME PendOK', RamOK', SpoiledCopies' \subseteq SpoiledCopies, faults' >= faults
      PROVE  DInv'
  BY <1>s, <1>t, BoundKept DEF DInv
<1>f. ASSUME PendOK', RamOK', NEW c \in Copies,
             SpoiledCopies' \subseteq SpoiledCopies \cup {c}, faults' = faults + 1
      PROVE  DInv'
  BY <1>f, <1>t, BoundKept DEF DInv
<1>q. ASSUME UNCHANGED <<tbl, crc, mem, valid, pend, faults>>, RamOK'
      PROVE  DInv'
  BY <1>n, <1>q, <1>s, QuietStep
<1>k. Writing \in Copies
  BY DEF Writing, Copies
<1>1. CASE PowerOn
  BY <1>1, <1>q DEF PowerOn, RamOK
<1>2. CASE Write
  <2>1. PICK k \in Secs \cup {Hdr} : IsNextSec(k) /\ WriteSec(Writing, k)
    BY <1>2 DEF Write
  <2>2. RamOK' /\ faults' = faults
    BY <2>1 DEF WriteSec, RamOK, DInv
  <2> QED BY <1>n, <1>s, <2>1, <2>2, WriteUpdate
<1>3. CASE GptRead
  <2>1. gptread(Copies) /\ faults' = faults
    BY <1>3 DEF GptRead
  <2>2. RamOK'
    BY <2>1 DEF gptread, RamOK, GiveUp
  <2> QED BY <1>n, <1>s, <2>1, <2>2, GptReadUpdate
<1>4. CASE GptReadFails
  <2>1. PICK c \in Copies : gptread(Copies \ {c})
    BY <1>4 DEF GptReadFails
  <2>2. RamOK' /\ faults' = faults + 1
    BY <1>4, <2>1 DEF GptReadFails, gptread, RamOK, GiveUp
  <2> QED BY <1>n, <1>s, <2>1, <2>2, GptReadUpdate
<1>5. CASE GptInitFind
  <2> DEFINE r == search(uuid, curent, bootonce)
  <2>1. /\ Idle /\ UNCHANGED <<tbl, crc, valid, faults>>
        /\ pc' \in {"pload", "key", "probe", "gptread", "dead", "prompt"}
    BY <1>5 DEF GptInitFind, Found, GiveUp
  <2>2. RamOK'
    BY <2>1 DEF RamOK
  <2>3. \/ UNCHANGED <<mem, pend>>
        \/ part >= 0 /\ PartOK(uuid, part) /\ take(part - 1)
        \/ r.found /\ take(r.ent)
    BY <1>5 DEF GptInitFind
  <2>4. CASE UNCHANGED <<mem, pend>>
    BY <1>q, <2>1, <2>2, <2>4
  <2>5. CASE part >= 0 /\ PartOK(uuid, part) /\ take(part - 1)
    <3>1. part - 1 \in Ent
      BY <2>5, SizeAssumption DEF PartOK, Ent
    <3> QED BY <1>n, <1>s, <2>1, <2>2, <2>5, <3>1, TakeUpdate
  <2>6. CASE r.found /\ take(r.ent)
    <3>1. r.ent \in Ent
      BY <2>6, SearchType DEF DInv, TInv, TypeOK
    <3> HIDE DEF r
    <3> QED BY <1>n, <1>s, <2>1, <2>2, <2>6, <3>1, TakeUpdate
  <2> QED BY <2>3, <2>4, <2>5, <2>6
<1>6. CASE Probe
  BY <1>6, <1>q DEF Probe, RamOK
<1>7. CASE KeyHit
  BY <1>7, <1>q DEF KeyHit, RamOK
<1>8. CASE NoKey
  BY <1>8, <1>q DEF NoKey, RamOK
<1>9. CASE Exec
  <2>1. Idle /\ valid' = {} /\ UNCHANGED <<tbl, crc, pend, faults>>
    BY <1>9 DEF Exec, Attempt
  <2>2. PendOK' /\ RamOK'
    BY <2>1 DEF PendOK, RamOK, Idle
  <2>3. \A c \in Copies : Spoiled(c)' => Spoiled(c)
    BY <2>1 DEF Spoiled, Stale, Active, Torn, Idle
  <2> QED BY <1>n, <1>s, <2>1, <2>2, <2>3 DEF SpoiledCopies
<1>10. CASE LoadFails
  <2> DEFINE C == IF "ONCE" \in gpttable[curent] THEN valid ELSE {}
  <2>1. curent \in Ent
    BY <1>10 DEF LoadFails, DInv, TInv, CurOK
  <2>2. C \in SUBSET valid /\ C \subseteq Copies /\ \A c \in Copies : mem[c] \in Table
    BY DEF DInv, TInv, TypeOK
  <2>3. /\ Idle /\ UNCHANGED <<tbl, crc, valid, faults>> /\ RamOK'
        /\ pend' = [c \in Copies |-> IF c \in C THEN {Sec(curent), Hdr} ELSE {}]
        /\ mem' = [c \in Copies |->
                     IF c \in C THEN [mem[c] EXCEPT ![curent] = (@ \ {"ONCE"}) \cup {"FAILED"}]
                                ELSE mem[c]]
    BY <1>10 DEF LoadFails, Attempt, RamOK
  <2> HIDE DEF C
  <2>4. \A c \in Copies \ C : mem'[c] = mem[c] /\ pend'[c] = {}
    BY <2>3
  <2>5. \A c \in C : /\ \A i \in Ent : i # curent => mem'[c][i] = mem[c][i]
                    /\ pend'[c] = {Sec(curent), Hdr}
    BY <2>2, <2>3 DEF Table
  <2>6. PendOK' /\ SpoiledCopies' \subseteq SpoiledCopies
    BY <2>1, <2>2, <2>3, <2>4, <2>5, EntryUpdate
  <2> QED BY <1>n, <1>s, <2>3, <2>6
<1>11. CASE NextPart
  <2> DEFINE r1 == search("dfly", curent, bootonce)
             r2 == search("fbsd", IF r1.found THEN curent ELSE N, r1.once)
             r  == IF r1.found THEN r1 ELSE r2
  <2>1. /\ Idle /\ UNCHANGED <<tbl, crc, valid, faults>>
        /\ IF r.found THEN take(r.ent) ELSE UNCHANGED <<mem, pend>>
        /\ RamOK'
    BY <1>11 DEF NextPart, RamOK
  <2>2. r1.once \in BOOLEAN /\ (r1.found => r1.ent \in Ent)
    BY SearchType DEF DInv, TInv, TypeOK
  <2>3. (IF r1.found THEN curent ELSE N) \in -1 .. N
    BY SizeAssumption DEF DInv, TInv, TypeOK
  <2>4. r2.found => r2.ent \in Ent
    <3> HIDE DEF r1
    <3> QED BY <2>2, <2>3, SearchType
  <2>5. r = r1 \/ r = r2
    OBVIOUS
  <2> HIDE DEF r1, r2, r
  <2>6. CASE r.found
    BY <1>n, <1>s, <2>1, <2>2, <2>4, <2>5, <2>6, TakeUpdate
  <2>7. CASE ~r.found
    BY <1>q, <2>1, <2>7
  <2> QED BY <2>6, <2>7
<1>12. CASE PromptLoadFails
  BY <1>12, <1>q DEF PromptLoadFails, Attempt, RamOK
<1>13. CASE WriteFails
  <2>1. RamOK' /\ faults' = faults + 1
    BY <1>13 DEF WriteFails, RamOK, DInv
  <2> QED BY <1>13, <1>f, <1>k, <2>1, WriteFailsUpdate
<1>14. CASE Reset
  <2>1. PendOK' /\ RamOK'
    BY <1>14, ResetUpdate
  <2>2. CASE SpoiledCopies' \subseteq SpoiledCopies /\ faults' = faults
    BY <1>n, <1>s, <2>1, <2>2
  <2>3. CASE SpoiledCopies' \subseteq SpoiledCopies \cup {Writing} /\ faults' = faults + 1
    BY <1>f, <1>k, <2>1, <2>3
  <2> QED BY <1>14, <2>2, <2>3, ResetUpdate
<1>15. ASSUME NEW p \in 1 .. N + 1, UserSelect(p) PROVE DInv'
  BY <1>15, <1>q DEF UserSelect, RamOK, DInv
<1>16. CASE UserBoot
  BY <1>16, <1>q DEF UserBoot, RamOK
<1>17. ASSUME NEW i \in Ent, NEW f \in FlagCmds, OsFlag(i, f) PROVE DInv'
  <2>1. /\ valid = {} /\ crc' = tbl' /\ UNCHANGED <<valid, pend, faults, pc>>
    BY <1>17 DEF OsFlag, DInv, RamOK
  <2>2. PendOK' /\ RamOK'
    BY <2>1 DEF PendOK, RamOK, DInv
  <2>3. SpoiledCopies' = {}
    BY <2>1 DEF SpoiledCopies, Spoiled, Stale, Torn
  <2> QED BY <1>n, <1>s, <2>1, <2>2, <2>3
<1>18. CASE UNCHANGED vars
  BY <1>18, <1>q DEF vars, RamOK, DInv
<1> QED
  BY <1>1, <1>2, <1>3, <1>4, <1>5, <1>6, <1>7, <1>8, <1>9, <1>10, <1>11, <1>12, <1>13,
     <1>14, <1>15, <1>16, <1>17, <1>18 DEF Next, Step

\* It bounds the damage.
LEMMA DInvDamageBound == DInv => DamageBound
<1> SUFFICES ASSUME DInv PROVE DamageBound
  OBVIOUS
<1> DEFINE T == {c \in Copies : Torn(c)}
<1>1. faults \in Nat /\ T \in SUBSET Copies /\ SpoiledCopies \in SUBSET Copies
  BY FaultAssumption DEF DInv, TInv, TypeOK, SpoiledCopies
<1>2. Cardinality(SpoiledCopies) <= faults /\ Cardinality(SpoiledCopies) \in Nat
  BY <1>1, CopyCount DEF DInv, SpoiledBound
<1>3. Writing \in Copies
  BY DEF Writing, Copies
<1>4. \A c \in Copies : Active(c) => c = Writing /\ ~Idle
  BY DEF Active, Writing, Idle, Copies
<1>5. Cardinality(T) \in Nat
  BY <1>1, CopyCount
<1>6. CASE Idle
  <2>1. T \subseteq SpoiledCopies
    BY <1>4, <1>6 DEF SpoiledCopies, Spoiled
  <2>2. Cardinality(T) <= Cardinality(SpoiledCopies)
    BY <1>1, <2>1, CopyCount
  <2>3. Cardinality(T) <= faults + 0
    BY <1>1, <1>2, <1>5, <2>2
  <2> QED BY <1>6, <2>3 DEF DamageBound
<1>7. CASE ~Idle
  <2>1. T \subseteq SpoiledCopies \cup {Writing}
    BY <1>4 DEF SpoiledCopies, Spoiled
  <2>2. Cardinality(T) <= Cardinality(SpoiledCopies) + 1
    BY <1>1, <1>3, <2>1, CopyCount
  <2>3. Cardinality(T) <= faults + 1
    BY <1>1, <1>2, <1>5, <2>2
  <2> QED BY <1>7, <2>3 DEF DamageBound
<1> QED BY <1>6, <1>7

\* For every table and sector size and any number of power failures, failed
\* writes and failed reads: a fault costs at most one copy of the GPT.
THEOREM OneFaultOneCopy == Spec => []DamageBound
BY DInvInit, DInvNext, DInvDamageBound, PTL DEF Spec

-----------------------------------------------------------------------------
(***************************************************************************)
(* Proofs about the boot attributes of GptBoot: a BOOTONCE partition is    *)
(* tried once, at most one partition is left with BOOTONCE alone when a    *)
(* kernel is started, and gptfind() goes by priority.  They hold for every *)
(* table, disk content and number of faults.                               *)
(***************************************************************************)

\* What gptfind() looks for first.
Offers(a) == {"ME", "ONCE"} \subseteq a

\* Control points after gptread() has come back, with its tables in core.
InCore == pc \in {"find", "probe", "key", "load", "pload", "next", "prompt"}

\* While main() tries an entry, dsk.start is that entry's.
AtEntry == pc \in {"probe", "key", "load", "next"} => start = curent

\* gptfind() is called, and dsk.start is an entry's, only with a table in core.
StartOK == (start \in Ent /\ pc \notin {"off", "kernel"}) \/ pc = "find" => valid # {}

\* A copy that was not taken is damaged, as long as every read succeeded.
OthersTorn == ~ioerr /\ InCore => \A c \in Copies \ valid : Torn(c)

\* What differs between core and disk is about to be written.
Written ==
    ~ioerr => \A c \in valid :
        /\ \A i \in Ent : Sec(i) \in pend[c] \/ tbl[c][i] = mem[c][i]
        /\ Hdr \in pend[c] \/ crc[c] = mem[c]

\* The entry that was taken has lost BOOTME if it has BOOTONCE.
StartTaken ==
    start \in Ent /\ "ONCE" \in gpttable[start] =>
        \A c \in valid : "ME" \notin mem[c][start]

\* Entries tried are not offered by what is in core or about to be replaced.
TriedGone ==
    ~ioerr => \A i \in tried, c \in valid : ~Offers(mem[c][i]) /\ ~Offers(tbl[c][i])

AInv == /\ DInv
        /\ AtEntry /\ StartOK /\ OthersTorn /\ Written /\ StartTaken
        /\ TriedGone /\ AttemptOnce

\* Of the entries in core only the one being tried can have BOOTONCE alone.
OnceIsStart ==
    InCore /\ valid # {} =>
        \A i \in Ent : OnlyOnce(gpttable[i]) => i = start /\ pc \notin {"find", "next"}

\* The first search of an automatic boot, and what it found out.
FirstSearch ==
    call = "main" =>
        /\ pc \in {"gptread", "find"} => part = -1
        /\ pc = "find" => curent = -1 /\ bootonce
        /\ uuid = "fbsd" /\ pc \in {"gptread", "find", "probe", "key", "load", "next"} =>
             \A i \in Ent : layout.type[i] # "dfly"

\* Entries that were passed over, all of them once the BOOTONCE pass is over,
\* do not offer BOOTME and BOOTONCE.
PassedOver ==
    call = "main" /\ pc \in {"probe", "key", "load", "next"} =>
        /\ layout.type[start] = uuid
        /\ \A i \in Ent : layout.type[i] = uuid /\ (bootonce => i <= curent)
             => ~Offers(gpttable[i])

\* load() is called for an entry.
LoadsEntry == pc \in {"load", "pload"} => start \in Ent

OInv == AInv /\ OnceIsStart /\ LoadsEntry

PInv == AInv /\ FirstSearch /\ PassedOver /\ PriorityOrder

-----------------------------------------------------------------------------
(* Lemmas *)

\* First() is the least element.
LEMMA FirstLeast ==
    ASSUME NEW S, S \subseteq Ent, S # {}
    PROVE  First(S) \in S /\ \A y \in S : First(S) <= y
<1>1. S \subseteq Nat
  BY SizeAssumption DEF Ent
<1>2. \E x \in S : \A y \in S : x <= y
  BY <1>1, LeastElement
<1> QED BY <1>2 DEF First

\* gpttable is one of the tables that were found valid.
LEMMA PickValid ==
    ASSUME TypeOK, valid # {}
    PROVE  Pick(valid) \in valid /\ Pick(valid) \in Copies /\ gpttable = mem[Pick(valid)]
BY DEF TypeOK, Pick, Copies, gpttable

\* What becomes of the tables when an entry is taken.
LEMMA TakeTables ==
    ASSUME TypeOK, NEW e \in Ent, take(e), UNCHANGED valid
    PROVE  /\ start' = e /\ curent' = e
           /\ \A c \in Copies, i \in Ent : i # e => mem'[c][i] = mem[c][i]
           /\ \A c \in Copies :
                mem'[c][e] = IF c \in valid /\ "ONCE" \in gpttable[e]
                             THEN mem[c][e] \ {"ME"} ELSE mem[c][e]
           /\ \A c \in Copies :
                pend'[c] = IF c \in valid /\ "ONCE" \in gpttable[e]
                           THEN {Sec(e), Hdr} ELSE {}
<1>1. \A c \in Copies : DOMAIN mem[c] = Ent
  BY DEF TypeOK, Table
<1> QED BY <1>1 DEF take

\* The same of gpttable.
LEMMA TakeGpttable ==
    ASSUME TypeOK, valid # {}, NEW e \in Ent, take(e), UNCHANGED valid
    PROVE  /\ \A i \in Ent : i # e => gpttable'[i] = gpttable[i]
           /\ gpttable'[e] = IF "ONCE" \in gpttable[e] THEN gpttable[e] \ {"ME"}
                             ELSE gpttable[e]
<1>1. /\ Pick(valid) \in valid /\ Pick(valid) \in Copies
      /\ gpttable = mem[Pick(valid)] /\ gpttable' = mem'[Pick(valid)]
  BY PickValid DEF gpttable
<1> QED BY <1>1, TakeTables, ZenonT(40)

\* What search() finds, and which entries it has passed over.
LEMMA SearchFinds ==
    ASSUME TypeOK, NEW u, NEW cur \in -1 .. N, NEW once \in BOOLEAN,
           search(u, cur, once).found
    PROVE  LET r == search(u, cur, once)
           IN /\ r.ent \in Ent /\ layout.type[r.ent] = u
              /\ \/ /\ once /\ r.once /\ Offers(gpttable[r.ent]) /\ cur < r.ent
                    /\ \A i \in Ent : cur < i /\ i < r.ent /\ layout.type[i] = u
                         => ~Offers(gpttable[i])
                 \/ /\ ~r.once /\ "ME" \in gpttable[r.ent] /\ "ONCE" \notin gpttable[r.ent]
                    /\ once => \A i \in Ent : cur < i /\ layout.type[i] = u
                                 => ~Offers(gpttable[i])
                 \/ /\ ~r.once /\ cur = -1
                    /\ once => \A i \in Ent : layout.type[i] = u => "ME" \notin gpttable[i]
<1> DEFINE hi == IF once THEN Match(u, cur + 1, {"ME", "ONCE"}, {}) ELSE {}
           mid == Match(u, IF once THEN 0 ELSE cur + 1, {"ME"}, {"ONCE"})
           low == IF cur = -1 THEN Match(u, 0, {}, {}) ELSE {}
           r == search(u, cur, once)
<1>1. hi \subseteq Ent /\ mid \subseteq Ent /\ low \subseteq Ent
  BY SizeAssumption DEF Match, Ent
<1>2. ASSUME NEW e, NEW b, r = Result(e, b)
      PROVE  r.once = b /\ r.ent = e /\ r.found = (e < N)
  <2> HIDE DEF r
  <2> QED BY <1>2 DEF Result
<1>3. ~(N < N)
  BY SizeAssumption
<1>4. \/ hi # {} /\ r = Result(First(hi), once)
      \/ hi = {} /\ mid # {} /\ r = Result(First(mid), FALSE)
      \/ hi = {} /\ mid = {} /\ low # {} /\ r = Result(First(low), FALSE)
  <2>1. \/ r = Result(N, once) \/ r = Result(N, FALSE)
        \/ hi # {} /\ r = Result(First(hi), once)
        \/ hi = {} /\ mid # {} /\ r = Result(First(mid), FALSE)
        \/ hi = {} /\ mid = {} /\ low # {} /\ r = Result(First(low), FALSE)
    BY DEF search
  <2>2. r # Result(N, once) /\ r # Result(N, FALSE)
    <3>1. r.found
      OBVIOUS
    <3> HIDE DEF r
    <3> QED BY <1>2, <1>3, <3>1
  <2> QED BY <2>1, <2>2
<1>5. hi = {} => (once => \A i \in Ent : cur < i /\ layout.type[i] = u => ~Offers(gpttable[i]))
  <2> SUFFICES ASSUME hi = {}, once, NEW i \in Ent, cur < i, layout.type[i] = u,
                      Offers(gpttable[i])
               PROVE  FALSE
    OBVIOUS
  <2>1. i \in cur + 1 .. N - 1
    BY SizeAssumption DEF Ent
  <2>2. i \in hi
    BY <2>1 DEF Match, Offers
  <2> QED BY <2>2
<1>6. ASSUME hi # {} PROVE
        /\ once /\ r.ent = First(hi) /\ r.once /\ First(hi) \in Ent
        /\ layout.type[First(hi)] = u /\ Offers(gpttable[First(hi)]) /\ cur < First(hi)
        /\ \A i \in Ent : cur < i /\ i < First(hi) /\ layout.type[i] = u
             => ~Offers(gpttable[i])
  <2>1. First(hi) \in hi /\ \A y \in hi : First(hi) <= y
    BY <1>1, <1>6, FirstLeast
  <2>2. once
    BY <1>6
  <2>3. r.ent = First(hi) /\ r.once
    <3> HIDE DEF hi, mid, low, r
    <3>1. r = Result(First(hi), once)
      BY <1>4, <1>6
    <3> QED BY <3>1, <1>2, <2>2
  <2>4. /\ First(hi) \in cur + 1 .. N - 1 /\ layout.type[First(hi)] = u
        /\ Offers(gpttable[First(hi)])
    BY <2>1, <2>2 DEF Match, Offers
  <2>5. ASSUME NEW i \in Ent, cur < i, i < First(hi), layout.type[i] = u, Offers(gpttable[i])
        PROVE  FALSE
    <3>1. i \in cur + 1 .. N - 1
      BY <2>5, SizeAssumption DEF Ent
    <3>2. i \in hi
      BY <3>1, <2>5, <2>2 DEF Match, Offers
    <3>3. First(hi) <= i
      BY <2>1, <3>2
    <3> QED BY <3>3, <2>5, <2>4, <3>1, SizeAssumption
  <2>6. First(hi) \in Ent /\ cur < First(hi)
    BY <1>1, <2>1, <2>4, SizeAssumption
  <2> QED BY <2>2, <2>3, <2>4, <2>5, <2>6
<1>7. ASSUME hi = {}, mid # {} PROVE
        /\ r.ent = First(mid) /\ ~r.once /\ First(mid) \in Ent
        /\ layout.type[First(mid)] = u
        /\ "ME" \in gpttable[First(mid)] /\ "ONCE" \notin gpttable[First(mid)]
  <2>1. First(mid) \in mid /\ First(mid) \in Ent
    BY <1>1, <1>7, FirstLeast
  <2>2. r.ent = First(mid) /\ r.once = FALSE
    <3> HIDE DEF hi, mid, low, r
    <3>1. r = Result(First(mid), FALSE)
      BY <1>4, <1>7
    <3> QED BY <3>1, <1>2
  <2> QED BY <2>1, <2>2 DEF Match
<1>8. ASSUME hi = {}, mid = {} PROVE
        /\ r.ent = First(low) /\ ~r.once /\ First(low) \in Ent /\ cur = -1
        /\ layout.type[First(low)] = u
        /\ once => \A i \in Ent : layout.type[i] = u => "ME" \notin gpttable[i]
  <2>1. low # {} /\ r.ent = First(low) /\ r.once = FALSE
    <3> HIDE DEF hi, mid, low, r
    <3>1. low # {} /\ r = Result(First(low), FALSE)
      BY <1>4, <1>8
    <3> QED BY <3>1, <1>2
  <2>2. First(low) \in low /\ First(low) \in Ent
    BY <1>1, <2>1, FirstLeast
  <2>3. cur = -1 /\ layout.type[First(low)] = u
    BY <2>1, <2>2 DEF Match
  <2>4. ASSUME once, NEW i \in Ent, layout.type[i] = u, "ME" \in gpttable[i] PROVE FALSE
    <3>1. ~Offers(gpttable[i])
      BY <1>5, <1>8, <2>3, <2>4, SizeAssumption DEF Ent
    <3>2. i \in 0 .. N - 1 /\ "ONCE" \notin gpttable[i]
      BY <3>1, <2>4 DEF Offers, Ent
    <3>3. i \in mid
      BY <3>2, <2>4 DEF Match
    <3> QED BY <3>3, <1>8
  <2> QED BY <2>1, <2>2, <2>3, <2>4
<1> HIDE DEF hi, mid, low
<1> QED BY <1>5, <1>6, <1>7, <1>8

-----------------------------------------------------------------------------
(* BOOTONCE partitions are tried once *)

\* The part of AInv that does not depend on the control point.
Core == Written /\ StartTaken /\ TriedGone /\ AttemptOnce

\* A step that touches none of the state Core is about keeps Core.
LEMMA CoreQuiet ==
    ASSUME Core, UNCHANGED <<tbl, crc, mem, valid, pend, start, tried, ioerr>>
    PROVE  Core'
BY DEF Core, Written, StartTaken, TriedGone, AttemptOnce, Torn, gpttable, Pick

\* An entry is taken: BOOTME goes from it in every copy if it has BOOTONCE.
LEMMA CoreTake ==
    ASSUME AInv, Idle, valid # {}, NEW e \in Ent, take(e),
           UNCHANGED <<tbl, crc, valid, tried, ioerr>>
    PROVE  Core'
<1> USE DEF AInv
<1>0. TypeOK /\ valid \subseteq Copies /\ tried \subseteq Ent
  BY DEF DInv, TInv, TypeOK
<1>1. /\ start' = e
      /\ \A c \in Copies, i \in Ent : i # e => mem'[c][i] = mem[c][i]
      /\ \A c \in Copies :
           mem'[c][e] = IF c \in valid /\ "ONCE" \in gpttable[e]
                        THEN mem[c][e] \ {"ME"} ELSE mem[c][e]
      /\ \A c \in Copies :
           pend'[c] = IF c \in valid /\ "ONCE" \in gpttable[e]
                      THEN {Sec(e), Hdr} ELSE {}
  BY <1>0, TakeTables
<1>2. Written'
  <2> SUFFICES ASSUME ~ioerr, NEW c \in valid
               PROVE  /\ \A i \in Ent : Sec(i) \in pend'[c] \/ tbl[c][i] = mem'[c][i]
                      /\ Hdr \in pend'[c] \/ crc[c] = mem'[c]
    BY DEF Written
  <2>1. c \in Copies /\ pend[c] = {}
    BY <1>0 DEF Idle
  <2>2. (\A i \in Ent : tbl[c][i] = mem[c][i]) /\ crc[c] = mem[c]
    BY <2>1 DEF Written
  <2>3. CASE "ONCE" \in gpttable[e]
    BY <1>1, <2>1, <2>2, <2>3
  <2>4. CASE "ONCE" \notin gpttable[e]
    <3>1. mem'[c] = mem[c]
      BY <2>1, <2>4 DEF take
    <3> QED BY <2>2, <3>1
  <2> QED BY <2>3, <2>4
<1>3. StartTaken'
  <2>1. gpttable'[e] = IF "ONCE" \in gpttable[e] THEN gpttable[e] \ {"ME"} ELSE gpttable[e]
    BY <1>0, TakeGpttable
  <2>2. "ONCE" \in gpttable'[e] => "ONCE" \in gpttable[e]
    BY <2>1
  <2> QED BY <1>0, <1>1, <2>2 DEF StartTaken
<1>4. TriedGone'
  <2> SUFFICES ASSUME ~ioerr, NEW i \in tried, NEW c \in valid
               PROVE  ~Offers(mem'[c][i]) /\ ~Offers(tbl[c][i])
    BY DEF TriedGone
  <2>1. c \in Copies /\ i \in Ent
    BY <1>0
  <2>2. mem'[c][i] \subseteq mem[c][i]
    BY <1>1, <2>1
  <2> QED BY <2>2 DEF TriedGone, Offers
<1>5. AttemptOnce'
  BY DEF AttemptOnce, Torn
<1> QED BY <1>2, <1>3, <1>4, <1>5 DEF Core

\* The sectors that gptbootconv() writes cover what it changes.
LEMMA ConvCovers ==
    ASSUME NEW t, NEW i \in Ent, conv(t)[i] # t[i]
    PROVE  Sec(i) \in convSecs(t) /\ Hdr \in convSecs(t)
<1> DEFINE J == {j \in Ent : conv(t)[j] # t[j]}
           S == {Sec(j) : j \in J}
<1>1. i \in J
  OBVIOUS
<1> HIDE DEF J
<1>2. Sec(i) \in S
  BY <1>1
<1>3. convSecs(t) = IF S = {} THEN {} ELSE S \cup {Hdr}
  BY DEF convSecs, J
<1> HIDE DEF S
<1> QED BY <1>2, <1>3

\* The tables are read: what is not converted is as it was on the disk.
LEMMA CoreRead ==
    ASSUME AInv, NEW R \in SUBSET Copies, gptread(R),
           ioerr' = ioerr \/ ioerr' = TRUE
    PROVE  Core'
<1> USE DEF AInv
<1>0. TypeOK /\ tried \subseteq Ent /\ UNCHANGED <<tbl, crc, tried>>
  BY DEF DInv, TInv, TypeOK, gptread, diskVars
<1> DEFINE v == {c \in R : ~Torn(c)}
<1>1. /\ valid' = v /\ start' = Whole
      /\ \A c \in v : c \in Copies /\ mem'[c] = conv(tbl[c]) /\ pend'[c] = convSecs(tbl[c])
  BY DEF gptread
<1>2. ASSUME NEW c \in v
      PROVE  /\ c \in Copies /\ tbl[c] = crc[c] /\ tbl[c] \in Table
             /\ mem'[c] \in Table
  BY <1>0, <1>1, ConvType DEF Torn, TypeOK
<1>3. Written'
  <2> SUFFICES ASSUME NEW c \in v
               PROVE  /\ \A i \in Ent : Sec(i) \in pend'[c] \/ tbl[c][i] = mem'[c][i]
                      /\ Hdr \in pend'[c] \/ crc[c] = mem'[c]
    BY <1>0, <1>1 DEF Written
  <2>1. ASSUME NEW i \in Ent, tbl[c][i] # mem'[c][i] PROVE Sec(i) \in pend'[c]
    BY <1>1, <2>1, ConvCovers
  <2>2. ASSUME Hdr \notin pend'[c] PROVE crc[c] = mem'[c]
    <3>1. \A i \in Ent : conv(tbl[c])[i] = tbl[c][i]
      BY <1>1, <2>2, ConvCovers
    <3>2. conv(tbl[c]) = tbl[c]
      BY <3>1, <1>2, ConvType DEF Table
    <3> QED BY <3>2, <1>1, <1>2
  <2> QED BY <2>1, <2>2
<1>4. StartTaken'
  BY <1>1, SizeAssumption DEF StartTaken, Whole, Ent
<1>5. TriedGone'
  <2> SUFFICES ASSUME ~ioerr, NEW i \in tried, NEW c \in v
               PROVE  ~Offers(mem'[c][i]) /\ ~Offers(tbl[c][i])
    BY <1>0, <1>1 DEF TriedGone
  <2>1. ~Offers(tbl[c][i])
    BY DEF AttemptOnce, Offers
  <2>2. mem'[c][i] = tbl[c][i] \/ mem'[c][i] = {"FAILED"}
    BY <1>0, <1>1 DEF conv
  <2> QED BY <2>1, <2>2 DEF Offers
<1>6. AttemptOnce'
  BY <1>0 DEF AttemptOnce, Torn
<1> QED BY <1>3, <1>4, <1>5, <1>6 DEF Core

\* load() is tried on an entry: it has been taken, and what was written then
\* is on the disk.
LEMMA TriedGrows ==
    ASSUME AInv, Idle, InCore, Attempt, ~ioerr, NEW i \in tried'
    PROVE  /\ \A c \in valid : ~Offers(mem[c][i]) /\ ~Offers(tbl[c][i])
           /\ \A c \in Copies : Torn(c) \/ ~Offers(tbl[c][i])
<1> USE DEF AInv
<1>0. valid \subseteq Copies /\ tried \subseteq Ent
  BY DEF DInv, TInv, TypeOK
<1>1. CASE i \in tried
  BY <1>1 DEF TriedGone, AttemptOnce, Offers
<1>2. CASE i \notin tried
  <2>1. i = start /\ start \in Ent /\ "ONCE" \in gpttable[start]
    BY <1>2 DEF Attempt
  <2>2. ASSUME NEW c \in valid PROVE ~Offers(mem[c][i]) /\ ~Offers(tbl[c][i])
    <3>1. tbl[c][i] = mem[c][i]
      BY <1>0, <2>1 DEF Written, Idle
    <3>2. "ME" \notin mem[c][i]
      BY <2>1 DEF StartTaken
    <3> QED BY <3>1, <3>2 DEF Offers
  <2> QED BY <2>2 DEF OthersTorn
<1> QED BY <1>1, <1>2

\* The invariant holds at the start.
LEMMA AInvInit == Init => AInv
<1> SUFFICES ASSUME Init PROVE AInv
  OBVIOUS
<1>1. start \notin Ent
  BY SizeAssumption DEF Init, Whole, Ent
<1> QED BY <1>1, DInvInit DEF Init, AInv, AtEntry, StartOK, OthersTorn, InCore, Written,
           StartTaken, TriedGone, AttemptOnce

\* Every step keeps the invariant.
LEMMA AInvNext == AInv /\ [Next]_vars => AInv'
<1> SUFFICES ASSUME AInv, [Next]_vars PROVE AInv'
  OBVIOUS
<1> USE DEF AInv
<1> USE DEF diskVars, gptVars, dskVars, ctlVars, histVars
<1>0. TypeOK /\ CurOK /\ Core /\ DInv'
  BY DInvNext DEF DInv, TInv, Core
<1> DEFINE Quiet == UNCHANGED <<tbl, crc, mem, valid, pend, start, tried, ioerr>>
<1>q. ASSUME Quiet PROVE Core'
  BY <1>q, <1>0, CoreQuiet
<1>s. ASSUME Core', AtEntry', StartOK', OthersTorn' PROVE AInv'
  BY <1>s, <1>0 DEF Core
<1>n. Whole \notin Ent /\ NoSb \notin Ent
  BY SizeAssumption DEF Whole, NoSb, Ent
<1>1. CASE PowerOn
  <2>1. Core'
    <3>1. valid = {}
      BY <1>1, <1>0 DEF PowerOn, DInv, RamOK
    <3> QED BY <1>1, <1>0, <1>n, <3>1 DEF PowerOn, Core, Written, StartTaken, TriedGone,
               AttemptOnce, Torn
  <2> QED BY <1>1, <1>s, <1>n, <2>1 DEF PowerOn, AtEntry, StartOK, OthersTorn, InCore
<1>2. CASE Write
  <2> DEFINE w == Writing
  <2>1. PICK k \in Secs \cup {Hdr} : IsNextSec(k) /\ WriteSec(w, k)
    BY <1>2 DEF Write
  <2>2. w \in Copies /\ w \in valid
    BY <2>1 DEF IsNextSec, Writing, Copies, DInv, PendOK
  <2> HIDE DEF w
  <2>3. /\ pend' = [pend EXCEPT ![w] = @ \ {k}]
        /\ k = Hdr => crc' = [crc EXCEPT ![w] = mem[w]] /\ tbl' = tbl
        /\ k # Hdr => tbl' = [tbl EXCEPT ![w] = WithSector(w, k)] /\ crc' = crc
        /\ UNCHANGED <<mem, valid, curent, start, pc, ioerr, tried>>
    BY <2>1 DEF WriteSec
  <2>4. /\ DOMAIN tbl = Copies /\ DOMAIN crc = Copies /\ DOMAIN pend = Copies
        /\ valid \subseteq Copies /\ tried \subseteq Ent
    BY <1>0 DEF TypeOK
  <2>5. ASSUME NEW c \in Copies, c # w
        PROVE  tbl'[c] = tbl[c] /\ crc'[c] = crc[c] /\ pend'[c] = pend[c]
    BY <2>2, <2>3, <2>4, <2>5
  <2>6. ASSUME NEW i \in Ent
        PROVE  tbl'[w][i] = IF k = Sec(i) THEN mem[w][i] ELSE tbl[w][i]
    <3>1. Sec(i) # Hdr
      BY SecBelowHdr DEF Hdr
    <3> QED BY <2>2, <2>3, <2>4, <3>1 DEF WithSector
  <2>7. pend'[w] = pend[w] \ {k} /\ crc'[w] = IF k = Hdr THEN mem[w] ELSE crc[w]
    BY <2>2, <2>3, <2>4
  <2>8. Written'
    <3> SUFFICES ASSUME ~ioerr, NEW c \in valid
                 PROVE  /\ \A i \in Ent : Sec(i) \in pend'[c] \/ tbl'[c][i] = mem[c][i]
                        /\ Hdr \in pend'[c] \/ crc'[c] = mem[c]
      BY <2>3 DEF Written
    <3>1. CASE c # w
      BY <2>4, <2>5, <3>1 DEF Written
    <3>2. CASE c = w
      BY <2>6, <2>7, <3>2 DEF Written
    <3> QED BY <3>1, <3>2
  <2>9. StartTaken'
    BY <2>3 DEF StartTaken, gpttable
  <2>10. TriedGone'
    <3> SUFFICES ASSUME ~ioerr, NEW i \in tried, NEW c \in valid
                 PROVE  ~Offers(mem[c][i]) /\ ~Offers(tbl'[c][i])
      BY <2>3 DEF TriedGone
    <3>1. tbl'[c][i] = tbl[c][i] \/ tbl'[c][i] = mem[c][i]
      BY <2>4, <2>5, <2>6
    <3> QED BY <3>1 DEF TriedGone
  <2>11. AttemptOnce'
    <3> SUFFICES ASSUME ~ioerr, NEW i \in tried, NEW c \in Copies, ~Torn(c)'
                 PROVE  ~Offers(tbl'[c][i])
      BY <2>3 DEF AttemptOnce, Offers
    <3>1. CASE c \in valid
      BY <2>3, <2>10, <3>1 DEF TriedGone
    <3>2. CASE c \notin valid
      <4>1. tbl'[c] = tbl[c] /\ ~Torn(c)
        BY <2>2, <2>5, <3>2 DEF Torn
      <4> QED BY <4>1 DEF AttemptOnce, Offers
    <3> QED BY <3>1, <3>2
  <2>12. OthersTorn'
    <3> SUFFICES ASSUME ~ioerr, InCore, NEW c \in Copies \ valid PROVE Torn(c)'
      BY <2>3 DEF OthersTorn, InCore
    <3> QED BY <2>2, <2>5 DEF OthersTorn, Torn
  <2> QED BY <1>s, <2>3, <2>8, <2>9, <2>10, <2>11, <2>12 DEF Core, AtEntry, StartOK
<1>3. ASSUME NEW R \in SUBSET Copies, gptread(R),
             ioerr' = TRUE \/ (R = Copies /\ ioerr' = ioerr)
      PROVE  AInv'
  <2>1. Core'
    BY <1>3, CoreRead
  <2>2. /\ start' = Whole /\ pc' \in {"dead", "prompt", "find"}
        /\ pc' = "find" => valid' # {}
    BY <1>3 DEF gptread, GiveUp
  <2>3. OthersTorn'
    <3> SUFFICES ASSUME ~ioerr', NEW c \in Copies \ valid' PROVE Torn(c)'
      BY DEF OthersTorn
    <3>1. R = Copies
      BY <1>3
    <3> QED BY <1>3, <3>1 DEF gptread, Torn
  <2> QED BY <1>s, <1>n, <2>1, <2>2, <2>3 DEF AtEntry, StartOK
<1>4. CASE GptRead
  BY <1>3, <1>4 DEF GptRead
<1>5. CASE GptReadFails
  BY <1>3, <1>5 DEF GptReadFails
<1>6. ASSUME NEW e \in Ent, take(e), Idle, InCore, valid # {}, pc' \in {"pload", "key", "probe"},
             UNCHANGED <<tbl, crc, valid, tried, ioerr>>
      PROVE  AInv'
  <2>1. Core'
    BY <1>6, CoreTake
  <2>2. start' = e /\ curent' = e
    BY <1>6 DEF take
  <2> QED BY <1>s, <1>6, <2>1, <2>2 DEF AtEntry, StartOK, OthersTorn, InCore, Torn
<1>7. CASE GptInitFind
  <2>1. /\ pc = "find" /\ Idle /\ valid # {} /\ InCore
        /\ UNCHANGED <<layout, tbl, crc, valid, tried, ioerr>>
    BY <1>7 DEF GptInitFind, StartOK, InCore
  <2>2. ASSUME NEW e \in Ent, take(e), pc' = Found PROVE AInv'
    BY <1>6, <2>1, <2>2 DEF Found
  <2>3. ASSUME UNCHANGED <<mem, pend, start>>, pc' \in {"gptread", "dead", "prompt"} PROVE AInv'
    BY <1>q, <1>s, <2>1, <2>3 DEF AtEntry, StartOK, OthersTorn, InCore, Torn
  <2>4. CASE part >= 0 /\ PartOK(uuid, part)
    <3>1. part - 1 \in Ent
      BY <2>4, SizeAssumption DEF PartOK, Ent
    <3> QED BY <1>7, <2>2, <2>4, <3>1 DEF GptInitFind
  <2>5. CASE part >= 0 /\ ~PartOK(uuid, part)
    BY <1>7, <2>3, <2>5 DEF GptInitFind, GiveUp
  <2>6. CASE ~(part >= 0)
    <3> DEFINE r == search(uuid, curent, bootonce)
    <3>1. r.found => r.ent \in Ent
      BY <1>0, SearchType DEF TypeOK
    <3>2. IF r.found THEN take(r.ent) /\ pc' = Found
          ELSE pc' \in {"gptread", "dead", "prompt"} /\ UNCHANGED <<mem, pend, start>>
      BY <1>7, <2>6 DEF GptInitFind, GiveUp
    <3> HIDE DEF r
    <3> QED BY <2>2, <2>3, <3>1, <3>2
  <2> QED BY <2>4, <2>5, <2>6
<1>8. CASE Probe
  BY <1>8, <1>q, <1>s DEF Probe, AtEntry, StartOK, OthersTorn, InCore, Torn
<1>9. CASE KeyHit
  BY <1>9, <1>q, <1>s DEF KeyHit, AtEntry, StartOK, OthersTorn, InCore, Torn
<1>10. CASE NoKey
  BY <1>10, <1>q, <1>s DEF NoKey, AtEntry, StartOK, OthersTorn, InCore, Torn
<1>11. ASSUME Attempt, Idle, InCore, UNCHANGED <<tbl, crc>>,
              \/ valid' = {}
              \/ /\ valid' = valid
                 /\ \A c \in valid, i \in Ent : Offers(mem'[c][i]) => Offers(mem[c][i])
       PROVE  TriedGone' /\ AttemptOnce'
  <2>0. ioerr' = ioerr /\ tried' \subseteq Ent
    BY <1>11, <1>0 DEF Attempt, DInv, TInv, TypeOK
  <2>1. ASSUME ~ioerr, NEW i \in tried'
        PROVE  /\ \A c \in valid : ~Offers(mem[c][i]) /\ ~Offers(tbl[c][i])
               /\ \A c \in Copies : Torn(c) \/ ~Offers(tbl[c][i])
    BY <1>11, <2>1, TriedGrows
  <2>2. TriedGone'
    <3> SUFFICES ASSUME ~ioerr, NEW i \in tried', NEW c \in valid'
                 PROVE  ~Offers(mem'[c][i]) /\ ~Offers(tbl[c][i])
      BY <1>11, <2>0 DEF TriedGone
    <3> QED BY <1>11, <2>0, <2>1
  <2>3. AttemptOnce'
    BY <1>11, <2>0, <2>1 DEF AttemptOnce, Offers, Torn
  <2> QED BY <2>2, <2>3
<1>12. CASE Exec
  <2>1. /\ valid' = {} /\ pc' = "kernel" /\ Attempt /\ Idle /\ InCore
        /\ UNCHANGED <<tbl, crc>>
    BY <1>12 DEF Exec, InCore
  <2>2. TriedGone' /\ AttemptOnce'
    BY <1>11, <2>1
  <2> QED BY <1>s, <2>1, <2>2 DEF Core, Written, StartTaken, AtEntry, StartOK, OthersTorn, InCore
<1>13. CASE LoadFails
  <2> DEFINE C == IF "ONCE" \in gpttable[curent] THEN valid ELSE {}
             bad(a) == (a \ {"ONCE"}) \cup {"FAILED"}
  <2>1. /\ pc = "load" /\ pc' = "next" /\ Idle /\ Attempt /\ InCore /\ curent \in Ent
        /\ start = curent /\ valid # {}
        /\ UNCHANGED <<tbl, crc, valid, start, curent>> /\ ioerr' = ioerr
    BY <1>13, <1>0 DEF LoadFails, Attempt, InCore, CurOK, AtEntry, StartOK
  <2>2. /\ \A c \in Copies : mem'[c] = IF c \in C THEN [mem[c] EXCEPT ![curent] = bad(@)]
                                       ELSE mem[c]
        /\ \A c \in Copies : pend'[c] = IF c \in C THEN {Sec(curent), Hdr} ELSE {}
    BY <1>13 DEF LoadFails
  <2>3. ASSUME NEW c \in Copies
        PROVE  /\ \A i \in Ent : i # curent => mem'[c][i] = mem[c][i]
               /\ mem'[c][curent] = IF c \in C THEN bad(mem[c][curent]) ELSE mem[c][curent]
    <3>1. DOMAIN mem[c] = Ent
      BY <1>0 DEF TypeOK, Table
    <3> QED BY <2>1, <2>2, <3>1
  <2>4. ASSUME NEW c \in Copies, NEW i \in Ent, Offers(mem'[c][i]) PROVE Offers(mem[c][i])
    BY <2>3, <2>4 DEF Offers
  <2>5. TriedGone' /\ AttemptOnce'
    BY <1>0, <1>11, <2>1, <2>4 DEF TypeOK
  <2>6. Written'
    <3> SUFFICES ASSUME ~ioerr, NEW c \in valid
                 PROVE  /\ \A i \in Ent : Sec(i) \in pend'[c] \/ tbl[c][i] = mem'[c][i]
                        /\ Hdr \in pend'[c] \/ crc[c] = mem'[c]
      BY <2>1 DEF Written
    <3>1. c \in Copies /\ pend[c] = {}
      BY <1>0, <2>1 DEF TypeOK, Idle
    <3>2. (\A i \in Ent : tbl[c][i] = mem[c][i]) /\ crc[c] = mem[c]
      BY <3>1 DEF Written
    <3> QED BY <2>2, <2>3, <3>1, <3>2
  <2>7. StartTaken'
    <3>1. Pick(valid) \in valid /\ Pick(valid) \in Copies /\ gpttable' = mem'[Pick(valid)]
          /\ gpttable = mem[Pick(valid)]
      BY <1>0, <2>1, PickValid DEF gpttable
    <3>2. CASE "ONCE" \in gpttable[curent]
      <4>1. gpttable'[curent] = bad(gpttable[curent])
        BY <2>3, <3>1, <3>2
      <4> QED BY <2>1, <4>1 DEF StartTaken
    <3>3. CASE "ONCE" \notin gpttable[curent]
      <4>1. gpttable'[curent] = gpttable[curent]
        BY <2>3, <3>1, <3>3
      <4> QED BY <2>1, <3>3, <4>1 DEF StartTaken
    <3> QED BY <3>2, <3>3
  <2> QED BY <1>s, <2>1, <2>5, <2>6, <2>7 DEF Core, AtEntry, StartOK, OthersTorn, InCore, Torn
<1>14. CASE NextPart
  <2> DEFINE r1 == search("dfly", curent, bootonce)
             r2 == search("fbsd", IF r1.found THEN curent ELSE N, r1.once)
             r  == IF r1.found THEN r1 ELSE r2
  <2>1. r1.once \in BOOLEAN /\ (r1.found => r1.ent \in Ent)
    BY <1>0, SearchType DEF TypeOK
  <2>2. (IF r1.found THEN curent ELSE N) \in -1 .. N
    BY <1>0, SizeAssumption DEF TypeOK
  <2>3. r2.found => r2.ent \in Ent
    <3> HIDE DEF r1
    <3> QED BY <2>1, <2>2, SearchType
  <2>4. /\ pc = "next" /\ Idle /\ InCore /\ valid # {}
        /\ UNCHANGED <<tbl, crc, valid, tried, ioerr>>
        /\ IF r.found THEN take(r.ent) /\ pc' = "probe"
           ELSE pc' = "prompt" /\ UNCHANGED <<mem, pend, start>>
    BY <1>14, <1>0 DEF NextPart, InCore, StartOK, AtEntry, CurOK
  <2>5. r.found => r.ent \in Ent
    <3>1. r = r1 \/ r = r2
      OBVIOUS
    <3> HIDE DEF r1, r2, r
    <3> QED BY <2>1, <2>3, <3>1
  <2> HIDE DEF r
  <2>6. CASE r.found
    BY <1>6, <2>4, <2>5, <2>6
  <2>7. CASE ~r.found
    BY <1>q, <1>s, <2>4, <2>7 DEF AtEntry, StartOK, OthersTorn, InCore, Torn
  <2> QED BY <2>6, <2>7
<1>15. CASE PromptLoadFails
  <2>1. /\ pc = "pload" /\ pc' = "prompt" /\ Idle /\ Attempt /\ InCore
        /\ UNCHANGED <<tbl, crc, mem, valid, pend, start, curent>> /\ ioerr' = ioerr
    BY <1>15 DEF PromptLoadFails, Attempt, InCore
  <2>2. TriedGone' /\ AttemptOnce'
    BY <1>11, <2>1
  <2> QED BY <1>s, <2>1, <2>2 DEF Core, Written, StartTaken, gpttable, AtEntry, StartOK,
             OthersTorn, InCore, Torn
<1>16. CASE WriteFails
  BY <1>16, <1>0, <1>s DEF WriteFails, Core, Written, StartTaken, gpttable, TriedGone, AttemptOnce, AtEntry,
     StartOK, OthersTorn, InCore
<1>17. CASE Reset
  <2>1. valid' = {} /\ start' = Whole /\ pc' = "off" /\ UNCHANGED <<tbl, crc, tried, ioerr>>
    BY <1>17 DEF Reset, RamCleared
  <2> QED BY <1>n, <1>s, <1>0, <2>1 DEF Core, Written, StartTaken, TriedGone, AttemptOnce, Torn,
             AtEntry, StartOK, OthersTorn, InCore
<1>18. ASSUME NEW p \in 1 .. N + 1, UserSelect(p) PROVE AInv'
  BY <1>18, <1>q, <1>s DEF UserSelect, AtEntry, StartOK, OthersTorn, InCore, Torn
<1>19. CASE UserBoot
  BY <1>19, <1>q, <1>s DEF UserBoot, AtEntry, StartOK, OthersTorn, InCore, Torn
<1>20. ASSUME NEW i \in Ent, NEW f \in FlagCmds, OsFlag(i, f) PROVE AInv'
  <2>1. pc = "kernel" /\ valid = {} /\ pc' = pc /\ valid' = valid /\ ioerr' = ioerr
    BY <1>20, <1>0 DEF OsFlag, DInv, RamOK
  <2>2. AttemptOnce'
    <3> SUFFICES ASSUME ~ioerr, NEW j \in tried', NEW c \in Copies
                 PROVE  ~Offers(tbl'[c][j])
      BY <2>1 DEF AttemptOnce, Offers
    <3>1. j \in tried /\ j # i /\ j \in Ent /\ ~Torn(c)
      BY <1>0, <1>20 DEF OsFlag, TypeOK
    <3>2. tbl'[c][j] = tbl[c][j]
      BY <1>0, <1>20, <3>1 DEF OsFlag, TypeOK, Table
    <3> QED BY <3>1, <3>2 DEF AttemptOnce, Offers
  <2> QED BY <1>s, <2>1, <2>2 DEF Core, Written, StartTaken, TriedGone, AtEntry, StartOK,
             OthersTorn, InCore
<1>21. CASE UNCHANGED vars
  BY <1>21, <1>q, <1>s DEF vars, AtEntry, StartOK, OthersTorn, InCore, Torn
<1> QED
  BY <1>1, <1>2, <1>4, <1>5, <1>7, <1>8, <1>9, <1>10, <1>12, <1>13, <1>14, <1>15, <1>16,
     <1>17, <1>18, <1>19, <1>20, <1>21 DEF Next, Step

\* A BOOTONCE partition that load() was tried on is not offered again by a
\* copy of the GPT, whatever power failures and resets interrupt gptupdate()
\* and gptbootfailed(), until its attributes are set anew.
THEOREM TriedOnce == Spec => []AttemptOnce
<1>1. AInv => AttemptOnce
  BY DEF AInv
<1> QED BY <1>1, AInvInit, AInvNext, PTL DEF Spec

-----------------------------------------------------------------------------
(***************************************************************************)
(* One partition with BOOTONCE alone.  gptbootconv() looks at hdr_entries  *)
(* / entries_per_sec sectors, so the argument needs a table that fills its *)
(* sectors, as the 128 entries of four to a sector do.                     *)
(***************************************************************************)
FullSectors == N % EPS = 0

\* If the sectors of the table are full, gptbootconv() sees every entry.
LEMMA AllConverted ==
    ASSUME FullSectors, NEW i \in Ent
    PROVE  Converted(i)
<1>1. i \in Nat /\ EPS \in Nat /\ EPS > 0 /\ N \in Nat /\ i < N
  BY SizeAssumption DEF Ent
<1> DEFINE q == N \div EPS
           p == i \div EPS
<1>2. q \in Nat /\ N = EPS * q
  <2>1. N = EPS * (N \div EPS) + (N % EPS) /\ N \div EPS \in Nat
    BY <1>1, Z3
  <2> QED BY <2>1, <1>1 DEF FullSectors
<1>3. p \in Nat /\ EPS * p <= i
  <2>1. i = EPS * (i \div EPS) + (i % EPS) /\ i \div EPS \in Nat /\ i % EPS \in Nat
    BY <1>1, Z3
  <2>2. EPS * (i \div EPS) \in Nat
    BY <2>1, <1>1
  <2> QED BY <2>1, <2>2, <1>1
<1> HIDE DEF p, q
<1>4. EPS * p < EPS * q
  <2>1. EPS * p \in Nat /\ EPS * q \in Nat
    BY <1>1, <1>2, <1>3
  <2> QED BY <1>1, <1>2, <1>3, <2>1
<1>5. p < q
  <2> SUFFICES ASSUME q <= p PROVE FALSE
    BY <1>2, <1>3
  <2>1. EPS * q <= EPS * p
    BY <1>1, <1>2, <1>3, Z3
  <2>2. EPS * p \in Nat /\ EPS * q \in Nat
    BY <1>1, <1>2, <1>3
  <2> QED BY <1>4, <2>1, <2>2
<1> QED BY <1>5 DEF Converted, Sec, p, q

\* The invariant holds at the start.
LEMMA OInvInit == Init => OInv
BY AInvInit DEF Init, OInv, OnceIsStart, InCore, LoadsEntry

\* Every step keeps the invariant if the sectors are full.
LEMMA OInvNext ==
    ASSUME FullSectors
    PROVE  OInv /\ [Next]_vars => OInv'
<1> SUFFICES ASSUME OInv, [Next]_vars PROVE OInv'
  OBVIOUS
<1> USE DEF OInv
<1> USE DEF diskVars, gptVars, dskVars, ctlVars, histVars
<1>0. TypeOK /\ CurOK /\ AtEntry /\ StartOK /\ AInv'
  BY AInvNext DEF AInv, DInv, TInv
<1>q. ASSUME UNCHANGED <<mem, valid, start>>, InCore' => InCore,
             pc' \in {"find", "next"} => pc' = pc
      PROVE  OnceIsStart'
  BY <1>q DEF OnceIsStart, gpttable, InCore
<1>1. CASE PowerOn
  BY <1>0, <1>1 DEF PowerOn, OnceIsStart, InCore, LoadsEntry
<1>2. CASE Write
  <2>1. UNCHANGED <<mem, valid, start, pc>>
    BY <1>2 DEF Write, WriteSec
  <2> QED BY <1>0, <1>q, <2>1 DEF InCore, LoadsEntry
<1>3. ASSUME NEW R \in SUBSET Copies, gptread(R) PROVE OInv'
  <2>1. pc' \in {"dead", "prompt", "find"}
    BY <1>3 DEF gptread, GiveUp
  <2>2. ASSUME valid' # {}, NEW i \in Ent PROVE ~OnlyOnce(gpttable'[i])
    <3> DEFINE c == Pick(valid')
    <3>1. c \in valid' /\ c \in Copies /\ gpttable' = mem'[c]
      BY <1>3, <2>2 DEF gptread, Pick, Copies, gpttable
    <3>2. mem'[c] = conv(tbl[c])
      <4> HIDE DEF c
      <4> QED BY <1>3, <3>1 DEF gptread
    <3>3. ~OnlyOnce(conv(tbl[c])[i])
      BY AllConverted DEF conv, OnlyOnce
    <3> QED BY <3>1, <3>2, <3>3
  <2> QED BY <1>0, <2>1, <2>2 DEF OnceIsStart, LoadsEntry
<1>4. CASE GptRead
  BY <1>3, <1>4 DEF GptRead
<1>5. CASE GptReadFails
  BY <1>3, <1>5 DEF GptReadFails
<1>6. ASSUME NEW e \in Ent, take(e), pc \in {"find", "next"},
             pc' \in {"pload", "key", "probe"}, UNCHANGED valid
      PROVE  OInv'
  <2>1. valid # {} /\ InCore
    BY <1>0, <1>6 DEF StartOK, AtEntry, CurOK, InCore
  <2>2. \A i \in Ent : ~OnlyOnce(gpttable[i])
    BY <1>6, <2>1 DEF OnceIsStart
  <2>3. \A i \in Ent : i # e => gpttable'[i] = gpttable[i]
    BY <1>0, <1>6, <2>1, TakeGpttable
  <2>4. start' = e
    BY <1>6 DEF take
  <2> QED BY <1>0, <1>6, <2>2, <2>3, <2>4 DEF OnceIsStart, LoadsEntry
<1>7. CASE GptInitFind
  <2>1. pc = "find" /\ UNCHANGED <<valid>>
    BY <1>7 DEF GptInitFind
  <2>2. ASSUME NEW e \in Ent, take(e), pc' = Found PROVE OInv'
    BY <1>6, <2>1, <2>2 DEF Found
  <2>3. ASSUME UNCHANGED <<mem, start>>, pc' \in {"gptread", "dead", "prompt"} PROVE OInv'
    BY <1>0, <1>q, <2>1, <2>3 DEF InCore, LoadsEntry
  <2>4. CASE part >= 0 /\ PartOK(uuid, part)
    <3>1. part - 1 \in Ent
      BY <2>4, SizeAssumption DEF PartOK, Ent
    <3> QED BY <1>7, <2>2, <2>4, <3>1 DEF GptInitFind
  <2>5. CASE part >= 0 /\ ~PartOK(uuid, part)
    BY <1>7, <2>3, <2>5 DEF GptInitFind, GiveUp
  <2>6. CASE ~(part >= 0)
    <3> DEFINE r == search(uuid, curent, bootonce)
    <3>1. r.found => r.ent \in Ent
      BY <1>0, SearchType DEF TypeOK
    <3>2. IF r.found THEN take(r.ent) /\ pc' = Found
          ELSE pc' \in {"gptread", "dead", "prompt"} /\ UNCHANGED <<mem, start>>
      BY <1>7, <2>6 DEF GptInitFind, GiveUp
    <3> HIDE DEF r
    <3> QED BY <2>2, <2>3, <3>1, <3>2
  <2> QED BY <2>4, <2>5, <2>6
<1>8. CASE Probe
  BY <1>0, <1>8, <1>q DEF Probe, InCore, LoadsEntry
<1>9. CASE KeyHit
  BY <1>0, <1>9, <1>q DEF KeyHit, InCore, LoadsEntry
<1>10. CASE NoKey
  BY <1>0, <1>10, <1>q DEF NoKey, InCore, LoadsEntry, AtEntry, CurOK
<1>11. CASE Exec
  BY <1>0, <1>11 DEF Exec, OnceIsStart, InCore, LoadsEntry
<1>12. CASE LoadFails
  <2> DEFINE C == IF "ONCE" \in gpttable[curent] THEN valid ELSE {}
             bad(a) == (a \ {"ONCE"}) \cup {"FAILED"}
             t == Pick(valid)
  <2>1. /\ pc = "load" /\ pc' = "next" /\ curent \in Ent /\ start = curent /\ valid # {}
        /\ UNCHANGED <<valid, start, curent>>
        /\ \A c \in Copies : mem'[c] = IF c \in C THEN [mem[c] EXCEPT ![curent] = bad(@)]
                                       ELSE mem[c]
    BY <1>0, <1>12 DEF LoadFails, CurOK, AtEntry, StartOK
  <2>2. t \in valid /\ t \in Copies /\ gpttable = mem[t] /\ gpttable' = mem'[t]
    BY <1>0, <2>1, PickValid DEF gpttable
  <2>3. DOMAIN mem[t] = Ent
    BY <1>0, <2>2 DEF TypeOK, Table
  <2> HIDE DEF t
  <2>4. ASSUME NEW i \in Ent PROVE ~OnlyOnce(gpttable'[i])
    <3>1. CASE i # curent
      <4>1. gpttable'[i] = gpttable[i]
        BY <2>1, <2>2, <2>3, <3>1
      <4> QED BY <2>1, <3>1, <4>1 DEF OnceIsStart, InCore
    <3>2. CASE i = curent /\ "ONCE" \in gpttable[curent]
      <4>1. gpttable'[i] = bad(gpttable[i])
        BY <2>1, <2>2, <2>3, <3>2
      <4>2. "FAILED" \in gpttable'[i]
        BY <4>1
      <4> QED BY <4>2 DEF OnlyOnce
    <3>3. CASE i = curent /\ "ONCE" \notin gpttable[curent]
      <4>1. gpttable'[i] = gpttable[i]
        BY <2>1, <2>2, <3>3
      <4> QED BY <3>3, <4>1 DEF OnlyOnce
    <3> QED BY <3>1, <3>2, <3>3
  <2> QED BY <1>0, <2>1, <2>4 DEF OnceIsStart, LoadsEntry
<1>13. CASE NextPart
  <2> DEFINE r1 == search("dfly", curent, bootonce)
             r2 == search("fbsd", IF r1.found THEN curent ELSE N, r1.once)
             r  == IF r1.found THEN r1 ELSE r2
  <2>1. r1.once \in BOOLEAN /\ (r1.found => r1.ent \in Ent)
    BY <1>0, SearchType DEF TypeOK
  <2>2. (IF r1.found THEN curent ELSE N) \in -1 .. N
    BY <1>0, SizeAssumption DEF TypeOK
  <2>3. r2.found => r2.ent \in Ent
    <3> HIDE DEF r1
    <3> QED BY <2>1, <2>2, SearchType
  <2>4. /\ pc = "next" /\ UNCHANGED valid
        /\ IF r.found THEN take(r.ent) /\ pc' = "probe"
           ELSE pc' = "prompt" /\ UNCHANGED <<mem, start>>
    BY <1>13 DEF NextPart
  <2>5. r.found => r.ent \in Ent
    <3>1. r = r1 \/ r = r2
      OBVIOUS
    <3> HIDE DEF r1, r2, r
    <3> QED BY <2>1, <2>3, <3>1
  <2> HIDE DEF r
  <2>6. CASE r.found
    BY <1>6, <2>4, <2>5, <2>6
  <2>7. CASE ~r.found
    BY <1>0, <1>q, <2>4, <2>7 DEF InCore, LoadsEntry
  <2> QED BY <2>6, <2>7
<1>14. CASE PromptLoadFails
  BY <1>0, <1>14, <1>q DEF PromptLoadFails, InCore, LoadsEntry
<1>15. CASE WriteFails
  BY <1>0, <1>15, <1>q DEF WriteFails, InCore, LoadsEntry
<1>16. CASE Reset
  BY <1>0, <1>16 DEF Reset, RamCleared, OnceIsStart, InCore, LoadsEntry
<1>17. ASSUME NEW p \in 1 .. N + 1, UserSelect(p) PROVE OInv'
  BY <1>0, <1>17, <1>q DEF UserSelect, InCore, LoadsEntry
<1>18. CASE UserBoot
  <2>1. layout.fs \subseteq Ent
    BY <1>0, LayoutAssumption DEF TypeOK, LayoutOK
  <2> QED BY <1>0, <1>18, <1>q, <2>1 DEF UserBoot, InCore, LoadsEntry
<1>19. ASSUME NEW i \in Ent, NEW f \in FlagCmds, OsFlag(i, f) PROVE OInv'
  BY <1>0, <1>19 DEF OsFlag, OnceIsStart, InCore, LoadsEntry
<1>20. CASE UNCHANGED vars
  BY <1>0, <1>20, <1>q DEF vars, InCore, LoadsEntry
<1> QED
  BY <1>1, <1>2, <1>4, <1>5, <1>7, <1>8, <1>9, <1>10, <1>11, <1>12, <1>13, <1>14, <1>15,
     <1>16, <1>17, <1>18, <1>19, <1>20 DEF Next, Step

\* At the jump to the kernel the disk shows the table in core.
LEMMA ViewAtExec ==
    ASSUME OInv, Exec, ~ioerr
    PROVE  {i \in Ent : OnlyOnce(View[i])} \subseteq {start}
<1> USE DEF OInv
<1>0. TypeOK /\ Idle /\ InCore /\ pc \notin {"off", "kernel"} /\ start \in Ent
  BY DEF AInv, DInv, TInv, Exec, InCore, LoadsEntry
<1>1. valid # {} /\ valid \subseteq Copies
  BY <1>0 DEF AInv, StartOK, TypeOK
<1>2. ASSUME NEW c \in valid PROVE ~Torn(c) /\ tbl[c] = mem[c]
  <2>1. c \in Copies /\ pend[c] = {}
    BY <1>0, <1>1 DEF Idle
  <2>2. crc[c] = mem[c] /\ \A i \in Ent : tbl[c][i] = mem[c][i]
    BY <2>1 DEF AInv, Written
  <2>3. tbl[c] = mem[c]
    BY <1>0, <2>1, <2>2 DEF TypeOK, Table
  <2> QED BY <2>2, <2>3 DEF Torn
<1>3. "pri" \notin valid => Torn("pri")
  BY <1>0 DEF AInv, OthersTorn, Copies
<1>4. View = gpttable
  <2>1. Pick(valid) \in valid /\ gpttable = mem[Pick(valid)]
    BY <1>0, <1>1, PickValid
  <2>2. Pick(valid) = IF Torn("pri") THEN "bak" ELSE "pri"
    BY <1>2, <1>3 DEF Pick
  <2> QED BY <1>2, <2>1, <2>2 DEF View
<1> QED BY <1>0, <1>1, <1>4 DEF OnceIsStart

\* When a kernel is started, the only partition that the system's scripts can
\* find with BOOTONCE alone is the one it was booted from (the comment in
\* gptread()): through any power failures, if no sector was lost to an error.
THEOREM OnceUnique ==
    ASSUME FullSectors
    PROVE  Spec => BootOnceUnique
<1>1. OInv /\ [Next]_vars =>
        [pc # "kernel" /\ pc' = "kernel" /\ ~ioerr =>
           {i \in Ent : OnlyOnce(View[i])} \subseteq {start}]_vars
  <2> SUFFICES ASSUME OInv, Next, pc # "kernel", pc' = "kernel", ~ioerr
               PROVE  {i \in Ent : OnlyOnce(View[i])} \subseteq {start}
    BY DEF vars
  <2>1. Exec
    BY DEF Next, Step, PowerOn, Write, WriteSec, GptRead, GptReadFails, gptread, GiveUp,
       GptInitFind, Found, Probe, NoKey, KeyHit, LoadFails, NextPart, PromptLoadFails,
       WriteFails, Reset, RamCleared, UserSelect, UserBoot, OsFlag, ctlVars
  <2> QED BY <2>1, ViewAtExec
<1>2. OInv /\ [Next]_vars => OInv'
  BY OInvNext
<1> QED BY <1>1, <1>2, OInvInit, PTL DEF Spec, BootOnceUnique

-----------------------------------------------------------------------------
(* Priority *)

\* A search from the beginning that finds nothing: there is no such partition.
LEMMA SearchFails ==
    ASSUME TypeOK, NEW u, ~search(u, -1, TRUE).found, NEW i \in Ent
    PROVE  layout.type[i] # u
<1> DEFINE hi == Match(u, 0, {"ME", "ONCE"}, {})
           mid == Match(u, 0, {"ME"}, {"ONCE"})
           low == Match(u, 0, {}, {})
           r == search(u, -1, TRUE)
<1>1. hi \subseteq Ent /\ mid \subseteq Ent /\ low \subseteq Ent
  BY SizeAssumption DEF Match, Ent
<1>2. /\ -1 + 1 = 0 /\ ~(0 >= N)
  BY SizeAssumption
<1>3. r = IF hi # {} THEN Result(First(hi), TRUE)
          ELSE IF mid # {} THEN Result(First(mid), FALSE)
          ELSE IF low # {} THEN Result(First(low), FALSE)
          ELSE Result(N, FALSE)
  BY <1>2 DEF search
<1>4. ASSUME NEW S, S \subseteq Ent, S # {}, NEW b, r = Result(First(S), b) PROVE FALSE
  <2>1. First(S) \in Ent
    BY <1>4, FirstLeast
  <2>2. First(S) < N
    BY <2>1, SizeAssumption DEF Ent
  <2>3. r.found = (First(S) < N)
    <3> HIDE DEF r
    <3> QED BY <1>4 DEF Result
  <2> QED BY <2>2, <2>3
<1>5. low = {}
  <2> HIDE DEF hi, mid, low, r
  <2> QED BY <1>1, <1>3, <1>4
<1> QED BY <1>5 DEF Match, Ent

\* Entries that do not change keep their claims; gpttable' is given.
LEMMA PInvTake ==
    ASSUME PInv, valid # {}, UNCHANGED <<valid, layout, call, uuid>>,
           NEW cur, cur = curent, search(uuid, cur, bootonce).found,
           take(search(uuid, cur, bootonce).ent),
           bootonce' = search(uuid, cur, bootonce).once,
           cur = -1 => bootonce,
           \A i \in Ent : layout.type[i] = uuid /\ (bootonce => i <= cur)
             => ~Offers(gpttable[i])
    PROVE  /\ start' \in Ent /\ layout.type[start'] = uuid
           /\ \A i \in Ent : layout.type[i] = uuid /\ (bootonce' => i <= curent')
                => ~Offers(gpttable'[i])
           /\ \A i \in Ent : layout.type[i] = uuid /\ "ONCE" \notin gpttable'[start']
                => Claim(gpttable'[i]) <= Claim(gpttable'[start'])
<1> DEFINE r == search(uuid, cur, bootonce)
           e == r.ent
<1>0. TypeOK /\ cur \in -1 .. N /\ bootonce \in BOOLEAN
  BY DEF PInv, AInv, DInv, TInv, TypeOK
<1>1. /\ e \in Ent /\ layout.type[e] = uuid
      /\ \/ /\ bootonce /\ r.once /\ Offers(gpttable[e]) /\ cur < e
            /\ \A i \in Ent : cur < i /\ i < e /\ layout.type[i] = uuid
                 => ~Offers(gpttable[i])
         \/ /\ ~r.once /\ "ME" \in gpttable[e] /\ "ONCE" \notin gpttable[e]
            /\ bootonce => \A i \in Ent : cur < i /\ layout.type[i] = uuid
                             => ~Offers(gpttable[i])
         \/ /\ ~r.once /\ cur = -1
            /\ bootonce => \A i \in Ent : layout.type[i] = uuid => "ME" \notin gpttable[i]
  BY <1>0, SearchFinds
<1>2. bootonce' = r.once /\ take(e)
  OBVIOUS
<1> HIDE DEF r, e
<1>3. /\ start' = e /\ curent' = e
      /\ \A i \in Ent : i # e => gpttable'[i] = gpttable[i]
      /\ gpttable'[e] = IF "ONCE" \in gpttable[e] THEN gpttable[e] \ {"ME"} ELSE gpttable[e]
  BY <1>0, <1>1, <1>2, TakeTables, TakeGpttable
<1>4. ASSUME NEW i \in Ent
      PROVE  /\ i \in Int /\ cur \in Int /\ e \in Int
             /\ Offers(gpttable'[i]) => Offers(gpttable[i])
             /\ "ONCE" \in gpttable'[e] <=> "ONCE" \in gpttable[e]
  BY <1>0, <1>1, <1>3, SizeAssumption DEF Ent, Offers
<1>5. \A a : Claim(a) \in 0 .. 2 /\ (~Offers(a) => Claim(a) <= 1)
             /\ ("ME" \in a => Claim(a) >= 1) /\ ("ME" \notin a => Claim(a) = 0)
  BY DEF Claim, Offers
<1>6. CASE /\ bootonce /\ r.once /\ Offers(gpttable[e]) /\ cur < e
           /\ \A i \in Ent : cur < i /\ i < e /\ layout.type[i] = uuid
                => ~Offers(gpttable[i])
  <2>1. "ONCE" \in gpttable'[e]
    BY <1>1, <1>4, <1>6 DEF Offers
  <2>2. ASSUME NEW i \in Ent, layout.type[i] = uuid, i <= e PROVE ~Offers(gpttable'[i])
    <3>1. CASE i = e
      BY <1>3, <1>6, <3>1 DEF Offers
    <3>2. CASE i < e /\ cur < i
      BY <1>4, <1>6, <2>2, <3>2
    <3>3. CASE i <= cur
      BY <1>4, <1>6, <2>2, <3>3
    <3> QED BY <1>4, <2>2, <3>1, <3>2, <3>3
  <2> QED BY <1>1, <1>2, <1>3, <1>6, <2>1, <2>2
<1>7. CASE /\ ~r.once /\ "ME" \in gpttable[e] /\ "ONCE" \notin gpttable[e]
           /\ bootonce => \A i \in Ent : cur < i /\ layout.type[i] = uuid
                            => ~Offers(gpttable[i])
  <2>1. ASSUME NEW i \in Ent, layout.type[i] = uuid PROVE ~Offers(gpttable'[i])
    <3>1. CASE bootonce /\ cur < i
      BY <1>4, <1>7, <2>1, <3>1
    <3>2. CASE ~bootonce \/ i <= cur
      BY <1>4, <2>1, <3>2
    <3> QED BY <1>4, <3>1, <3>2
  <2>2. "ME" \in gpttable'[e]
    BY <1>3, <1>7
  <2>3. ASSUME NEW i \in Ent, layout.type[i] = uuid
        PROVE  Claim(gpttable'[i]) <= Claim(gpttable'[e])
    <3>1. Claim(gpttable'[i]) \in 0 .. 2 /\ Claim(gpttable'[i]) <= 1
      BY <1>5, <2>1, <2>3
    <3>2. Claim(gpttable'[e]) \in 0 .. 2 /\ Claim(gpttable'[e]) >= 1
      BY <1>5, <2>2
    <3> QED BY <3>1, <3>2
  <2> QED BY <1>1, <1>3, <2>1, <2>3
<1>8. CASE /\ ~r.once /\ cur = -1
           /\ bootonce => \A i \in Ent : layout.type[i] = uuid => "ME" \notin gpttable[i]
  <2>1. ASSUME NEW i \in Ent, layout.type[i] = uuid PROVE "ME" \notin gpttable'[i]
    BY <1>3, <1>8, <2>1
  <2>2. ASSUME NEW i \in Ent, layout.type[i] = uuid
        PROVE  Claim(gpttable'[i]) <= Claim(gpttable'[e])
    <3>1. Claim(gpttable'[i]) = 0 /\ Claim(gpttable'[e]) \in 0 .. 2
      BY <1>5, <2>1, <2>2
    <3> QED BY <3>1
  <2> QED BY <1>1, <1>3, <2>1, <2>2 DEF Offers
<1> QED BY <1>1, <1>6, <1>7, <1>8

\* The invariant holds at the start.
LEMMA PInvInit == Init => PInv
BY AInvInit DEF Init, PInv, FirstSearch, PassedOver, PriorityOrder

\* Every step keeps the invariant.
LEMMA PInvNext == PInv /\ [Next]_vars => PInv'
<1> SUFFICES ASSUME PInv, [Next]_vars PROVE PInv'
  OBVIOUS
<1> USE DEF PInv
<1> USE DEF diskVars, gptVars, dskVars, ctlVars, histVars
<1>0. TypeOK /\ CurOK /\ AtEntry /\ StartOK /\ AInv'
  BY AInvNext DEF AInv, DInv, TInv
<1>q. ASSUME UNCHANGED <<mem, valid, start, layout, call, uuid, curent, bootonce>>,
             pc' \in {"probe", "key", "load"} => pc \in {"probe", "key", "load"},
             pc' # "next"
      PROVE  PassedOver' /\ PriorityOrder'
  BY <1>q DEF PassedOver, PriorityOrder, gpttable
<1>n. ASSUME pc' \notin {"gptread", "find", "probe", "key", "load", "next"} \/ call' # "main"
      PROVE  PInv'
  BY <1>n, <1>0 DEF FirstSearch, PassedOver, PriorityOrder
<1>1. CASE PowerOn
  BY <1>0, <1>1 DEF PowerOn, FirstSearch, PassedOver, PriorityOrder
<1>2. CASE UNCHANGED <<mem, valid, start, layout, call, uuid, curent, bootonce, part, pc>>
  BY <1>0, <1>2 DEF FirstSearch, PassedOver, PriorityOrder, gpttable
<1>3. CASE Write
  BY <1>2, <1>3 DEF Write, WriteSec
<1>4. ASSUME NEW R \in SUBSET Copies, gptread(R) PROVE PInv'
  BY <1>0, <1>4 DEF gptread, GiveUp, FirstSearch, PassedOver, PriorityOrder
<1>5. CASE GptRead
  BY <1>4, <1>5 DEF GptRead
<1>6. CASE GptReadFails
  BY <1>4, <1>6 DEF GptReadFails
<1>7. CASE GptInitFind
  <2>1. CASE call # "main"
    BY <1>7, <1>n, <2>1 DEF GptInitFind
  <2>2. CASE call = "main"
    <3> DEFINE r == search(uuid, curent, bootonce)
    <3>1. /\ pc = "find" /\ part = -1 /\ curent = -1 /\ bootonce = TRUE /\ valid # {}
          /\ UNCHANGED <<layout, valid, call>>
      BY <1>0, <1>7, <2>2 DEF GptInitFind, FirstSearch, StartOK, TypeOK
    <3>2. /\ bootonce' = r.once
          /\ r.found => take(r.ent) /\ pc' = "probe" /\ UNCHANGED uuid
          /\ ~r.found => /\ curent' = N /\ uuid' = "fbsd" /\ UNCHANGED <<mem, part, start>>
                         /\ pc' = IF uuid = "dfly" THEN "gptread" ELSE "dead"
      <4>1. Found = "probe" /\ GiveUp = "dead"
        BY <2>2 DEF Found, GiveUp
      <4>2. ~(part >= 0)
        BY <3>1
      <4>3. /\ bootonce' = r.once
            /\ IF r.found
                 THEN take(r.ent) /\ pc' = Found /\ UNCHANGED uuid
                 ELSE /\ curent' = N
                      /\ pc' = IF uuid = "dfly" THEN "gptread" ELSE GiveUp
                      /\ uuid' = "fbsd"
                      /\ UNCHANGED <<mem, pend, part, start>>
        BY <1>7, <4>2, Zenon DEF GptInitFind
      <4> HIDE DEF r
      <4> QED BY <4>1, <4>3, Zenon
    <3>3. CASE r.found
      <4>1. \A i \in Ent : ~(i <= curent)
        BY <3>1, SizeAssumption DEF Ent
      <4>2. /\ start' \in Ent /\ layout.type[start'] = uuid
            /\ \A i \in Ent : layout.type[i] = uuid /\ (bootonce' => i <= curent')
                 => ~Offers(gpttable'[i])
            /\ \A i \in Ent : layout.type[i] = uuid /\ "ONCE" \notin gpttable'[start']
                 => Claim(gpttable'[i]) <= Claim(gpttable'[start'])
        BY <3>1, <3>2, <3>3, <4>1, PInvTake
      <4>3. FirstSearch'
        BY <2>2, <3>1, <3>2, <3>3 DEF FirstSearch
      <4> QED BY <1>0, <3>1, <3>2, <3>3, <4>2, <4>3 DEF PassedOver, PriorityOrder
    <3>4. CASE ~r.found
      <4>1. \A i \in Ent : layout.type[i] # uuid
        BY <1>0, <3>1, <3>4, SearchFails
      <4>2. FirstSearch'
        BY <2>2, <3>1, <3>2, <3>4, <4>1 DEF FirstSearch
      <4> QED BY <1>0, <3>2, <3>4, <4>2 DEF PassedOver, PriorityOrder
    <3> QED BY <3>3, <3>4
  <2> QED BY <2>1, <2>2
<1>8. CASE Probe
  <2>1. CASE pc' = "key"
    BY <1>0, <1>8, <1>q, <2>1 DEF Probe, FirstSearch
  <2>2. CASE call' = "config"
    BY <1>n, <2>2
  <2> QED BY <1>8, <2>1, <2>2 DEF Probe
<1>9. CASE KeyHit
  BY <1>9, <1>n DEF KeyHit
<1>10. CASE NoKey
  BY <1>0, <1>10, <1>q DEF NoKey, FirstSearch
<1>11. CASE Exec
  BY <1>11, <1>n DEF Exec
<1>12. CASE LoadFails
  <2> DEFINE C == IF "ONCE" \in gpttable[curent] THEN valid ELSE {}
             bad(a) == (a \ {"ONCE"}) \cup {"FAILED"}
             t == Pick(valid)
  <2>1. /\ pc = "load" /\ pc' = "next" /\ curent \in Ent /\ start = curent /\ valid # {}
        /\ UNCHANGED <<layout, valid, start, curent, bootonce, uuid, call, part>>
        /\ \A c \in Copies : mem'[c] = IF c \in C THEN [mem[c] EXCEPT ![curent] = bad(@)]
                                       ELSE mem[c]
    BY <1>0, <1>12 DEF LoadFails, CurOK, AtEntry, StartOK
  <2>2. t \in valid /\ t \in Copies /\ gpttable = mem[t] /\ gpttable' = mem'[t]
    BY <1>0, <2>1, PickValid DEF gpttable
  <2>3. DOMAIN mem[t] = Ent
    BY <1>0, <2>2 DEF TypeOK, Table
  <2> HIDE DEF t
  <2>4. ASSUME NEW i \in Ent, Offers(gpttable'[i]) PROVE Offers(gpttable[i])
    <3>1. gpttable'[i] = gpttable[i] \/ gpttable'[i] = bad(gpttable[i])
      BY <2>1, <2>2, <2>3
    <3> QED BY <2>4, <3>1 DEF Offers
  <2> QED BY <1>0, <2>1, <2>4 DEF FirstSearch, PassedOver, PriorityOrder
<1>13. CASE NextPart
  <2>1. CASE call # "main"
    BY <1>13, <1>n, <2>1 DEF NextPart
  <2>2. CASE call = "main"
    <3> DEFINE r1 == search("dfly", curent, bootonce)
               r2 == search("fbsd", N, r1.once)
    <3>1. /\ pc = "next" /\ valid # {} /\ start = curent /\ curent \in Ent
          /\ UNCHANGED <<layout, valid, uuid, call>>
      BY <1>0, <1>13 DEF NextPart, StartOK, AtEntry, CurOK
    <3>2. ~r2.found
      <4>1. N + 1 >= N /\ ~(N < N)
        BY SizeAssumption
      <4>2. r2 = Result(N, r1.once)
        BY <4>1 DEF search
      <4>3. r2.found = (N < N)
        <5> HIDE DEF r1, r2
        <5> QED BY <4>2 DEF Result
      <4> QED BY <4>1, <4>3
    <3>3. /\ r1.found => take(r1.ent) /\ pc' = "probe" /\ bootonce' = r1.once
          /\ ~r1.found => pc' = "prompt"
      BY <1>13, <3>2 DEF NextPart
    <3>4. CASE r1.found
      <4>1. uuid = "dfly"
        <5>1. r1.ent \in Ent /\ layout.type[r1.ent] = "dfly"
          BY <1>0, <3>4, SearchFinds DEF TypeOK
        <5>2. uuid \in {"dfly", "fbsd"}
          BY <1>0 DEF TypeOK
        <5> HIDE DEF r1
        <5> QED BY <2>2, <3>1, <5>1, <5>2 DEF FirstSearch
      <4>2. \A i \in Ent : layout.type[i] = uuid /\ (bootonce => i <= curent)
              => ~Offers(gpttable[i])
        BY <2>2, <3>1 DEF PassedOver
      <4>3. curent # -1
        BY <3>1, SizeAssumption DEF Ent
      <4>4. /\ start' \in Ent /\ layout.type[start'] = uuid
            /\ \A i \in Ent : layout.type[i] = uuid /\ (bootonce' => i <= curent')
                 => ~Offers(gpttable'[i])
            /\ \A i \in Ent : layout.type[i] = uuid /\ "ONCE" \notin gpttable'[start']
                 => Claim(gpttable'[i]) <= Claim(gpttable'[start'])
        BY <3>1, <3>3, <3>4, <4>1, <4>2, <4>3, PInvTake
      <4>5. FirstSearch'
        BY <3>1, <3>3, <3>4, <4>1 DEF FirstSearch
      <4> QED BY <1>0, <3>1, <3>3, <3>4, <4>4, <4>5 DEF PassedOver, PriorityOrder
    <3>5. CASE ~r1.found
      BY <1>n, <3>3, <3>5
    <3> QED BY <3>4, <3>5
  <2> QED BY <2>1, <2>2
<1>14. CASE PromptLoadFails
  BY <1>14, <1>n DEF PromptLoadFails
<1>15. CASE WriteFails
  BY <1>2, <1>15 DEF WriteFails
<1>16. CASE Reset
  BY <1>16, <1>n DEF Reset, RamCleared
<1>17. ASSUME NEW p \in 1 .. N + 1, UserSelect(p) PROVE PInv'
  BY <1>17, <1>n DEF UserSelect
<1>18. CASE UserBoot
  BY <1>18, <1>n DEF UserBoot
<1>19. ASSUME NEW i \in Ent, NEW f \in FlagCmds, OsFlag(i, f) PROVE PInv'
  BY <1>19, <1>n DEF OsFlag
<1>20. CASE UNCHANGED vars
  BY <1>2, <1>20 DEF vars
<1> QED
  BY <1>1, <1>3, <1>5, <1>6, <1>7, <1>8, <1>9, <1>10, <1>11, <1>12, <1>13, <1>14, <1>15,
     <1>16, <1>17, <1>18, <1>19, <1>20 DEF Next, Step

\* gptfind() goes by priority: while main() is at an entry without BOOTONCE, no
\* entry of its type has a higher claim, in the second pass and after failures
\* as well as in the first.
THEOREM ByPriority == Spec => []PriorityOrder
<1>1. PInv => PriorityOrder
  BY DEF PInv
<1> QED BY <1>1, PInvInit, PInvNext, PTL DEF Spec

-----------------------------------------------------------------------------
(***************************************************************************)
(* Every BOOTME partition is tried before main() gives up.  While the      *)
(* BOOTONCE pass lasts, the second pass is still to come and starts at the *)
(* beginning; in the second pass the search never steps over an entry.     *)
(* The one way out of the first pass without a second one is gptfind()     *)
(* called at the last entry of the table.                                  *)
(***************************************************************************)
WantsBoot(i) == layout.type[i] = "dfly" /\ "ME" \in gpttable[i]

\* Entries with BOOTME that were not tried are ahead of the search.
NoneMissed ==
    call = "main" /\ pc \in {"probe", "key", "load", "next"} =>
        \A i \in Ent : WantsBoot(i) =>
            bootonce \/ curent < i \/ i \in attempted \/ (i = curent /\ pc # "next")

\* When the search has ended there are none, also after the user's attempts.
SpareTried ==
    call = "main" /\ pc \in {"prompt", "pload"} /\ curent = N
      /\ layout.type[N - 1] # "dfly" =>
        \A i \in Ent : WantsBoot(i) => i \in attempted

EInv == PInv /\ NoneMissed /\ SpareTried

\* A search that does not end in the BOOTONCE pass steps over no entry with
\* BOOTME alone, and the BOOTONCE pass over none with both.
LEMMA SearchSteps ==
    ASSUME TypeOK, NEW u, NEW cur \in -1 .. N, NEW once \in BOOLEAN, cur + 1 < N,
           NEW i \in Ent, layout.type[i] = u, "ME" \in gpttable[i],
           once \/ cur < i,
           ~search(u, cur, once).found \/ ~search(u, cur, once).once
    PROVE  /\ "ONCE" \notin gpttable[i] =>
                search(u, cur, once).found /\ search(u, cur, once).ent <= i
           /\ "ONCE" \in gpttable[i] => ~once \/ i <= cur
<1> DEFINE hi == IF once THEN Match(u, cur + 1, {"ME", "ONCE"}, {}) ELSE {}
           mid == Match(u, IF once THEN 0 ELSE cur + 1, {"ME"}, {"ONCE"})
           low == IF cur = -1 THEN Match(u, 0, {}, {}) ELSE {}
           r == search(u, cur, once)
<1>1. hi \subseteq Ent /\ mid \subseteq Ent
  BY SizeAssumption DEF Match, Ent
<1>2. ~(cur + 1 >= N)
  BY SizeAssumption
<1>3. r = IF hi # {} THEN Result(First(hi), once)
          ELSE IF mid # {} THEN Result(First(mid), FALSE)
          ELSE IF low # {} THEN Result(First(low), FALSE)
          ELSE Result(N, FALSE)
  BY <1>2 DEF search
<1>4. hi = {}
  <2> SUFFICES ASSUME hi # {} PROVE FALSE
    OBVIOUS
  <2>1. once = TRUE
    OBVIOUS
  <2>2. First(hi) \in Ent
    BY <1>1, FirstLeast
  <2>3. First(hi) < N
    BY <2>2, SizeAssumption DEF Ent
  <2>4. r = Result(First(hi), TRUE)
    BY <1>3, <2>1
  <2>5. r.found = (First(hi) < N) /\ r.once = TRUE
    <3> HIDE DEF r, hi
    <3> QED BY <2>4 DEF Result
  <2> QED BY <2>3, <2>5
<1>5. ASSUME "ONCE" \in gpttable[i], once, cur < i PROVE FALSE
  <2>1. i \in cur + 1 .. N - 1
    BY <1>5, SizeAssumption DEF Ent
  <2>2. i \in hi
    BY <1>5, <2>1 DEF Match
  <2> QED BY <1>4, <2>2
<1>6. ASSUME "ONCE" \notin gpttable[i] PROVE r.found /\ r.ent <= i
  <2>1. i \in (IF once THEN 0 ELSE cur + 1) .. N - 1
    BY SizeAssumption DEF Ent
  <2>2. i \in mid
    BY <1>6, <2>1 DEF Match
  <2>3. First(mid) \in Ent /\ First(mid) <= i
    BY <1>1, <2>2, FirstLeast
  <2>4. First(mid) < N
    BY <2>3, SizeAssumption DEF Ent
  <2>5. r = Result(First(mid), FALSE)
    BY <1>3, <1>4, <2>2
  <2>6. r.found = (First(mid) < N) /\ r.ent = First(mid)
    <3> HIDE DEF r, mid
    <3> QED BY <2>5 DEF Result
  <2> QED BY <2>3, <2>4, <2>6
<1>7. i \in Int /\ cur \in Int
  BY SizeAssumption DEF Ent
<1> QED BY <1>5, <1>6, <1>7

\* An entry is taken: nothing with BOOTME is stepped over.
LEMMA NoneMissedTake ==
    ASSUME EInv, valid # {}, UNCHANGED <<valid, layout, attempted>>, uuid = "dfly",
           search(uuid, curent, bootonce).found,
           take(search(uuid, curent, bootonce).ent),
           bootonce' = search(uuid, curent, bootonce).once,
           \A i \in Ent : layout.type[i] = uuid /\ (bootonce => i <= curent)
             => ~Offers(gpttable[i]),
           \A i \in Ent : WantsBoot(i) => bootonce \/ curent < i \/ i \in attempted,
           NEW i \in Ent, WantsBoot(i)'
    PROVE  bootonce' \/ curent' <= i \/ i \in attempted'
<1> DEFINE r == search(uuid, curent, bootonce)
           e == r.ent
<1>0. TypeOK /\ curent \in -1 .. N /\ bootonce \in BOOLEAN
  BY DEF EInv, PInv, AInv, DInv, TInv, TypeOK
<1>1. e \in Ent
  BY <1>0, SearchFinds
<1>2. curent + 1 < N
  <2> SUFFICES ASSUME curent + 1 >= N PROVE FALSE
    BY <1>0, SizeAssumption
  <2>1. r = Result(N, bootonce)
    BY DEF search
  <2>2. r.found = (N < N)
    <3> HIDE DEF r
    <3> QED BY <2>1 DEF Result
  <2>3. r.found /\ ~(N < N)
    BY SizeAssumption
  <2> HIDE DEF r
  <2> QED BY <2>2, <2>3
<1>3. bootonce' = r.once /\ take(e) /\ r.found /\ UNCHANGED <<valid, attempted>>
  OBVIOUS
<1>4. /\ curent' = e
      /\ \A j \in Ent : j # e => gpttable'[j] = gpttable[j]
      /\ gpttable'[e] = IF "ONCE" \in gpttable[e] THEN gpttable[e] \ {"ME"} ELSE gpttable[e]
  <2> HIDE DEF e, r
  <2> QED BY <1>0, <1>1, <1>3, TakeTables, TakeGpttable
<1>5. layout.type[i] = uuid /\ "ME" \in gpttable[i] /\ WantsBoot(i)
  BY <1>1, <1>4 DEF WantsBoot
<1>6. i \in Int /\ curent \in Int /\ e \in Int
  BY <1>0, <1>1, SizeAssumption DEF Ent
<1>7. CASE r.once
  BY <1>3, <1>7
<1>8. CASE ~r.once /\ ~bootonce /\ ~(curent < i)
  BY <1>5, <1>8
<1>9. CASE ~r.once /\ (bootonce \/ curent < i)
  <2>1. /\ "ONCE" \notin gpttable[i] => e <= i
        /\ "ONCE" \in gpttable[i] => ~bootonce \/ i <= curent
    BY <1>0, <1>2, <1>5, <1>9, SearchSteps
  <2>2. "ONCE" \notin gpttable[i]
    BY <1>5, <1>6, <2>1 DEF Offers
  <2>3. curent' = e /\ e <= i
    BY <1>4, <2>1, <2>2
  <2> HIDE DEF e
  <2> QED BY <2>3
<1> QED BY <1>0, <1>7, <1>8, <1>9

\* The search of main() ends: every entry with BOOTME has been tried.
LEMMA NoneLeft ==
    ASSUME EInv, call = "main", pc = "next", curent \in Ent, start = curent,
           ~search("dfly", curent, bootonce).found,
           layout.type[N - 1] # "dfly", NEW i \in Ent, WantsBoot(i)
    PROVE  i \in attempted
<1>0. TypeOK /\ curent \in -1 .. N /\ bootonce \in BOOLEAN
  BY DEF EInv, PInv, AInv, DInv, TInv, TypeOK
<1>1. uuid = "dfly"
  BY <1>0 DEF EInv, PInv, FirstSearch, TypeOK, WantsBoot
<1>2. /\ layout.type[curent] = "dfly"
      /\ \A j \in Ent : layout.type[j] = "dfly" /\ (bootonce => j <= curent)
           => ~Offers(gpttable[j])
  BY <1>1 DEF EInv, PInv, PassedOver
<1>3. curent + 1 < N
  <2>1. curent # N - 1
    BY <1>2
  <2> QED BY <2>1, SizeAssumption DEF Ent
<1>4. layout.type[i] = "dfly" /\ "ME" \in gpttable[i]
  BY DEF WantsBoot
<1>5. i \in Int /\ curent \in Int
  BY <1>0, SizeAssumption DEF Ent
<1>6. CASE bootonce \/ curent < i
  <2>1. /\ "ONCE" \in gpttable[i]
        /\ "ONCE" \in gpttable[i] => ~bootonce \/ i <= curent
    BY <1>0, <1>3, <1>4, <1>6, SearchSteps
  <2> QED BY <1>2, <1>4, <1>5, <2>1 DEF Offers
<1>7. CASE ~bootonce /\ ~(curent < i)
  BY <1>7 DEF EInv, NoneMissed
<1> QED BY <1>6, <1>7

\* The invariant holds at the start.
LEMMA EInvInit == Init => EInv
<1> SUFFICES ASSUME Init PROVE EInv
  OBVIOUS
<1>1. PInv /\ pc = "off"
  BY PInvInit DEF Init
<1> QED BY <1>1 DEF EInv, NoneMissed, SpareTried

\* Every step keeps the invariant.
LEMMA EInvNext == EInv /\ [Next]_vars => EInv'
<1> SUFFICES ASSUME EInv, [Next]_vars PROVE EInv'
  OBVIOUS
<1> USE DEF EInv
<1> USE DEF diskVars, gptVars, dskVars, ctlVars, histVars
<1>0. TypeOK /\ CurOK /\ AtEntry /\ StartOK /\ PInv'
  BY PInvNext DEF PInv, AInv, DInv, TInv
<1>n. ASSUME \/ pc' \notin {"probe", "key", "load", "next", "prompt", "pload"}
             \/ call' # "main"
      PROVE  EInv'
  BY <1>n, <1>0 DEF NoneMissed, SpareTried
<1>q. ASSUME UNCHANGED <<mem, valid, layout, curent, bootonce>>,
             attempted \subseteq attempted', call' = "main" => call = "main",
             \/ pc' \in {"probe", "key", "load"} /\ pc \in {"probe", "key", "load"}
             \/ pc' \in {"prompt", "pload"} /\ pc \in {"prompt", "pload"}
             \/ pc' = pc
      PROVE  EInv'
  <2>1. \A i : WantsBoot(i)' = WantsBoot(i)
    BY <1>q DEF WantsBoot, gpttable
  <2>2. pc' = "next" => pc = "next"
    BY <1>q
  <2> QED BY <1>0, <1>q, <2>1, <2>2 DEF NoneMissed, SpareTried
<1>1. CASE PowerOn
  BY <1>1, <1>n DEF PowerOn
<1>3. CASE Write
  BY <1>3, <1>q DEF Write, WriteSec
<1>4. ASSUME NEW R \in SUBSET Copies, gptread(R) PROVE EInv'
  <2>1. call' = "main" => GiveUp = "dead"
    BY <1>4 DEF gptread, GiveUp
  <2> QED BY <1>4, <1>n, <2>1 DEF gptread
<1>5. CASE GptRead
  BY <1>4, <1>5 DEF GptRead
<1>6. CASE GptReadFails
  BY <1>4, <1>6 DEF GptReadFails
<1>7. CASE GptInitFind
  <2>1. CASE call # "main"
    BY <1>7, <1>n, <2>1 DEF GptInitFind
  <2>2. CASE call = "main"
    <3> DEFINE r == search(uuid, curent, bootonce)
    <3>1. /\ pc = "find" /\ part = -1 /\ curent = -1 /\ bootonce = TRUE /\ valid # {}
          /\ UNCHANGED <<layout, valid, call, attempted>>
      BY <1>0, <1>7, <2>2 DEF GptInitFind, FirstSearch, StartOK, TypeOK, PInv
    <3>2. /\ bootonce' = r.once
          /\ r.found => take(r.ent) /\ pc' = "probe" /\ UNCHANGED uuid
          /\ ~r.found => pc' \in {"gptread", "dead"}
      <4>1. Found = "probe" /\ GiveUp = "dead"
        BY <2>2 DEF Found, GiveUp
      <4>2. ~(part >= 0)
        BY <3>1
      <4>3. /\ bootonce' = r.once
            /\ IF r.found
                 THEN take(r.ent) /\ pc' = Found /\ UNCHANGED uuid
                 ELSE /\ curent' = N
                      /\ pc' = IF uuid = "dfly" THEN "gptread" ELSE GiveUp
                      /\ uuid' = "fbsd"
                      /\ UNCHANGED <<mem, pend, part, start>>
        BY <1>7, <4>2, Zenon DEF GptInitFind
      <4> HIDE DEF r
      <4> QED BY <4>1, <4>3
    <3>3. CASE ~r.found
      BY <1>n, <3>2, <3>3
    <3>4. CASE r.found /\ uuid = "fbsd"
      <4>1. \A i \in Ent : layout'.type[i] # "dfly"
        BY <2>2, <3>1, <3>4 DEF PInv, FirstSearch
      <4> QED BY <1>0, <3>2, <3>4, <4>1 DEF NoneMissed, SpareTried, WantsBoot
    <3>5. CASE r.found /\ uuid = "dfly"
      <4>1. \A i \in Ent : ~(i <= curent)
        BY <3>1, SizeAssumption DEF Ent
      <4>2. ASSUME NEW i \in Ent, WantsBoot(i)'
            PROVE  bootonce' \/ curent' <= i \/ i \in attempted'
        BY <3>1, <3>2, <3>5, <4>1, <4>2, NoneMissedTake
      <4>3. curent' \in Int /\ \A i \in Ent : i \in Int
        BY <1>0, SizeAssumption DEF PInv, AInv, DInv, TInv, TypeOK, Ent
      <4> QED BY <1>0, <3>2, <3>5, <4>2, <4>3 DEF NoneMissed, SpareTried
    <3>6. uuid \in {"dfly", "fbsd"}
      BY <1>0 DEF TypeOK
    <3> QED BY <3>3, <3>4, <3>5, <3>6
  <2> QED BY <2>1, <2>2
<1>8. CASE Probe
  <2>1. CASE pc' = "key"
    BY <1>8, <1>q, <2>1 DEF Probe
  <2>2. CASE call' = "config"
    BY <1>n, <2>2
  <2> QED BY <1>8, <2>1, <2>2 DEF Probe
<1>9. CASE KeyHit
  <2>1. curent \in Ent /\ curent' = curent /\ pc' = "prompt"
    BY <1>0, <1>9 DEF KeyHit, CurOK
  <2>2. curent' # N
    BY <2>1, SizeAssumption DEF Ent
  <2> QED BY <1>0, <2>1, <2>2 DEF NoneMissed, SpareTried
<1>10. CASE NoKey
  BY <1>10, <1>q DEF NoKey
<1>11. CASE Exec
  BY <1>11, <1>n DEF Exec
<1>12. CASE LoadFails
  <2> DEFINE C == IF "ONCE" \in gpttable[curent] THEN valid ELSE {}
             bad(a) == (a \ {"ONCE"}) \cup {"FAILED"}
             t == Pick(valid)
  <2>1. /\ pc = "load" /\ pc' = "next" /\ curent \in Ent /\ start = curent /\ valid # {}
        /\ UNCHANGED <<layout, valid, curent, bootonce, call>>
        /\ attempted' = attempted \cup {start}
        /\ \A c \in Copies : mem'[c] = IF c \in C THEN [mem[c] EXCEPT ![curent] = bad(@)]
                                       ELSE mem[c]
    BY <1>0, <1>12 DEF LoadFails, CurOK, AtEntry, StartOK, Attempt
  <2>2. t \in valid /\ t \in Copies /\ gpttable = mem[t] /\ gpttable' = mem'[t]
    BY <1>0, <2>1, PickValid DEF gpttable
  <2>3. DOMAIN mem[t] = Ent
    BY <1>0, <2>2 DEF TypeOK, Table
  <2> HIDE DEF t
  <2>4. ASSUME NEW i \in Ent, WantsBoot(i)' PROVE WantsBoot(i)
    <3>1. gpttable'[i] = gpttable[i] \/ gpttable'[i] = bad(gpttable[i])
      BY <2>1, <2>2, <2>3
    <3> QED BY <2>1, <2>4, <3>1 DEF WantsBoot
  <2> QED BY <1>0, <2>1, <2>4 DEF NoneMissed, SpareTried
<1>13. CASE NextPart
  <2>1. CASE call # "main"
    BY <1>13, <1>n, <2>1 DEF NextPart
  <2>2. CASE call = "main"
    <3> DEFINE r1 == search("dfly", curent, bootonce)
               r2 == search("fbsd", N, r1.once)
    <3>1. /\ pc = "next" /\ valid # {} /\ start = curent /\ curent \in Ent
          /\ UNCHANGED <<layout, valid, uuid, call, attempted>>
      BY <1>0, <1>13 DEF NextPart, StartOK, AtEntry, CurOK
    <3>2. ~r2.found
      <4>1. N + 1 >= N /\ ~(N < N)
        BY SizeAssumption
      <4>2. r2 = Result(N, r1.once)
        BY <4>1 DEF search
      <4>3. r2.found = (N < N)
        <5> HIDE DEF r1, r2
        <5> QED BY <4>2 DEF Result
      <4> QED BY <4>1, <4>3
    <3>3. /\ r1.found => take(r1.ent) /\ pc' = "probe" /\ bootonce' = r1.once
          /\ ~r1.found => pc' = "prompt" /\ mem' = mem
      BY <1>13, <3>2 DEF NextPart
    <3>4. CASE r1.found
      <4>1. uuid = "dfly"
        <5>1. r1.ent \in Ent /\ layout.type[r1.ent] = "dfly"
          BY <1>0, <3>4, SearchFinds DEF TypeOK
        <5>2. uuid \in {"dfly", "fbsd"}
          BY <1>0 DEF TypeOK
        <5> HIDE DEF r1
        <5> QED BY <2>2, <3>1, <5>1, <5>2 DEF PInv, FirstSearch
      <4>2. \A i \in Ent : layout.type[i] = uuid /\ (bootonce => i <= curent)
              => ~Offers(gpttable[i])
        BY <2>2, <3>1 DEF PInv, PassedOver
      <4>3. \A i \in Ent : WantsBoot(i) => bootonce \/ curent < i \/ i \in attempted
        BY <2>2, <3>1 DEF NoneMissed
      <4>4. ASSUME NEW i \in Ent, WantsBoot(i)'
            PROVE  bootonce' \/ curent' <= i \/ i \in attempted'
        BY <3>1, <3>3, <3>4, <4>1, <4>2, <4>3, <4>4, NoneMissedTake
      <4>5. curent' \in Int /\ \A i \in Ent : i \in Int
        BY <1>0, SizeAssumption DEF PInv, AInv, DInv, TInv, TypeOK, Ent
      <4> QED BY <1>0, <3>3, <3>4, <4>4, <4>5 DEF NoneMissed, SpareTried
    <3>5. CASE ~r1.found
      <4>1. ASSUME layout.type[N - 1] # "dfly", NEW i \in Ent, WantsBoot(i)
            PROVE  i \in attempted
        BY <2>2, <3>1, <3>5, <4>1, NoneLeft
      <4>2. \A i : WantsBoot(i)' = WantsBoot(i)
        BY <3>1, <3>3, <3>5 DEF WantsBoot, gpttable
      <4> QED BY <1>0, <3>1, <3>3, <3>5, <4>1, <4>2 DEF NoneMissed, SpareTried
    <3> QED BY <3>4, <3>5
  <2> QED BY <2>1, <2>2
<1>14. CASE PromptLoadFails
  BY <1>14, <1>q DEF PromptLoadFails, Attempt
<1>15. CASE WriteFails
  BY <1>15, <1>q DEF WriteFails
<1>16. CASE Reset
  BY <1>16, <1>n DEF Reset, RamCleared
<1>17. ASSUME NEW p \in 1 .. N + 1, UserSelect(p) PROVE EInv'
  <2>1. CASE start \in layout.fs
    BY <1>17, <1>n, <2>1 DEF UserSelect
  <2>2. CASE start \notin layout.fs
    BY <1>17, <1>q, <2>2 DEF UserSelect
  <2> QED BY <2>1, <2>2
<1>18. CASE UserBoot
  BY <1>18, <1>q DEF UserBoot
<1>19. ASSUME NEW i \in Ent, NEW f \in FlagCmds, OsFlag(i, f) PROVE EInv'
  BY <1>19, <1>n DEF OsFlag
<1>20. CASE UNCHANGED vars
  BY <1>20, <1>q DEF vars
<1> QED
  BY <1>1, <1>3, <1>5, <1>6, <1>7, <1>8, <1>9, <1>10, <1>11, <1>12, <1>13, <1>14, <1>15,
     <1>16, <1>17, <1>18, <1>19, <1>20 DEF Next, Step

\* gptboot.8: main() comes to the prompt by itself only after it tried every
\* DragonFly partition marked BOOTME, if the last entry of the table is not a
\* DragonFly partition, whatever writes and reads fail and whatever the user
\* tries at the prompt.
THEOREM EachTried == Spec => []EachBootmeTriedSpare
<1>1. EInv => EachBootmeTriedSpare
  BY DEF EInv, SpareTried, EachBootmeTriedSpare, EachBootmeTried, Exhausted, WantsBoot
<1> QED BY <1>1, EInvInit, EInvNext, PTL DEF Spec
=============================================================================
