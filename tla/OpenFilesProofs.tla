-------------------------- MODULE OpenFilesProofs --------------------------
(***************************************************************************)
(* The descriptors of OpenFiles stay in order, for any number of them, any *)
(* disks and any number of failures of malloc().                           *)
(*                                                                         *)
(* The argument is about roots: descriptors that are used and that no file *)
(* lies on.  An open() makes one root, whatever it opens below it; one     *)
(* that fails makes none, unless malloc() failed; a close() takes one away *)
(* with all that is below it.  While open() is at work its own descriptor  *)
(* is a root without a file system ("opening").                            *)
(***************************************************************************)
EXTENDS OpenFiles, FiniteSetTheorems, TLAPS

Suffix == {"gz", "bz2", "split", "aa"}
FileRec == [ops : {"", "opening", "disk", "split", "gzip", "bzip"}, dev : Devices,
            name : Seq(Suffix), raw : Fds \cup {-1}]

\* What lies on what.
LayersOK(t) ==
    \A f \in Fds :
        /\ t[f].ops = "" => t[f] = Unused
        /\ t[f].ops \in {"opening", "disk"} => t[f].raw = -1
        /\ t[f].ops = "split" /\ t[f].raw # -1 => t[t[f].raw].ops = "disk"
        /\ t[f].ops \in {"gzip", "bzip"} => t[f].raw # -1 /\ t[t[f].raw].ops \in {"disk", "split"}
Injective(t) == \A f, g \in Fds : f # g /\ t[f].raw # -1 => t[f].raw # t[g].raw
TabOK(t) == t \in [Fds -> FileRec] /\ LayersOK(t) /\ Injective(t)

Roots(t) == {f \in Fds : t[f].ops # "" /\ \A g \in Fds : t[g].raw # f}

\* From t to u, open() has made the roots L out of free descriptors and
\* left alone what was there.
Ext(t, u, L) ==
    /\ TabOK(u)
    /\ L \subseteq Free(t)
    /\ \A f \in Fds : t[f].ops # "" => u[f] = t[f]
    /\ Roots(u) = Roots(t) \cup L
    /\ \A f \in Fds : u[f].ops = "opening" => t[f].ops = "opening" \/ f \in L

\* One root more.
Gains(t, u, fd) == Ext(t, u, {fd})

\* The descriptor of the open() that is at work.
Working(t, u, fd) == TabOK(t) /\ Gains(t, u, fd) /\ u[fd].ops = "opening"

\* The inductive invariant.
OInv ==
    /\ TabOK(files)
    /\ \A f \in Fds : files[f].ops # "opening"
    /\ held \subseteq Roots(files)
    /\ nomem \in Nat
    /\ Cardinality(Roots(files) \ held) <= 2 * nomem

-----------------------------------------------------------------------------
(* Tables *)

\* Descriptors are natural numbers, -1 is none.
LEMMA FdsNat == Fds \subseteq Nat /\ -1 \notin Fds
BY OpenAssumption DEF Fds

\* What an unused descriptor is.
LEMMA UnusedIs == Unused.ops = "" /\ Unused.raw = -1 /\ Unused \in FileRec
<1>1. Unused.ops = "" /\ Unused.raw = -1
  BY Zenon DEF Unused
<1>2. <<>> \in Seq(Suffix)
  OBVIOUS
<1>3. Unused \in FileRec
  BY <1>2, OpenAssumption DEF Unused, FileRec
<1> QED BY <1>1, <1>3

\* The kinds of file a descriptor may have.
LEMMA NamesAre ==
    /\ <<>> \in Seq(Suffix) /\ Slice \in Seq(Suffix)
    /\ \A n \in Seq(Suffix), x \in Suffix : Append(n, x) \in Seq(Suffix)
<1>1. \A x \in Suffix : <<x>> \in Seq(Suffix)
  OBVIOUS
<1>2. "aa" \in Suffix
  BY DEF Suffix
<1>3. Slice \in Seq(Suffix)
  BY <1>1, <1>2, Zenon DEF Slice
<1>4. \A n \in Seq(Suffix), x \in Suffix : Append(n, x) \in Seq(Suffix)
  OBVIOUS
<1> QED BY <1>3, <1>4

\* The fields of what open() gives back.
LEMMA ResultIs ==
    ASSUME NEW t, NEW fd, NEW oom
    PROVE  Result(t, fd, oom).tab = t /\ Result(t, fd, oom).fd = fd /\ Result(t, fd, oom).oom = oom
BY DEF Result

\* o_gethandle() gives a free descriptor if there is one.
LEMMA HandleFree ==
    ASSUME NEW t
    PROVE  Handle(t) # -1 => Handle(t) \in Free(t)
<1> SUFFICES ASSUME Free(t) # {} PROVE Handle(t) \in Free(t)
  BY DEF Handle
<1>1. Free(t) \subseteq Nat
  BY FdsNat DEF Free
<1>2. PICK m \in Free(t) : \A g \in Free(t) : m <= g
  <2>1. IsWellFoundedOn(OpToRel(<, Nat), Nat)
    BY NatLessThanWellFounded
  <2>2. PICK x \in Free(t) : \A y \in Free(t) : <<y, x>> \notin OpToRel(<, Nat)
    BY <1>1, <2>1, WFMin
  <2>3. \A y \in Free(t) : ~(y < x)
    BY <1>1, <2>2 DEF OpToRel
  <2> QED BY <1>1, <2>3
<1>3. Handle(t) = CHOOSE fd \in Free(t) : \A g \in Free(t) : fd <= g
  BY DEF Handle
<1> QED BY <1>2, <1>3

\* Nothing is on a descriptor that is free.
LEMMA FreeUnder ==
    ASSUME NEW t, TabOK(t), NEW f \in Free(t)
    PROVE  \A g \in Fds : t[g].raw # f
<1> SUFFICES ASSUME NEW g \in Fds, t[g].raw = f PROVE FALSE
  OBVIOUS
<1>0. f \in Fds /\ t[f].ops = "" /\ f # -1
  BY FdsNat DEF Free
<1>1. t[g].ops \in {"", "opening", "disk", "split", "gzip", "bzip"}
  BY DEF TabOK, FileRec
<1>2. t[g].ops = "" => t[g].raw = -1
  BY UnusedIs DEF TabOK, LayersOK
<1> QED BY <1>0, <1>1, <1>2 DEF TabOK, LayersOK

\* A step that changes nothing.
LEMMA ExtSame ==
    ASSUME NEW t, TabOK(t)
    PROVE  Ext(t, t, {})
BY DEF Ext

\* Two steps one after the other.
LEMMA ExtTrans ==
    ASSUME NEW t, NEW u, NEW v, NEW K, NEW L, TabOK(t), Ext(t, u, K), Ext(u, v, L)
    PROVE  Ext(t, v, K \cup L)
<1>1. \A f \in Fds : t[f].ops # "" => v[f] = t[f]
  BY DEF Ext
<1>2. L \subseteq Free(t)
  BY DEF Ext, Free
<1>3. \A f \in Fds : v[f].ops = "opening" => t[f].ops = "opening" \/ f \in K \cup L
  BY DEF Ext
<1> QED BY <1>1, <1>2, <1>3 DEF Ext

\* A free descriptor is taken for a file with nothing below it.
LEMMA Taken ==
    ASSUME NEW t, TabOK(t), NEW fd \in Free(t), NEW u \in [Fds -> FileRec],
           \A f \in Fds : f # fd => u[f] = t[f],
           u[fd].ops \in {"opening", "disk"}, u[fd].raw = -1
    PROVE  Gains(t, u, fd)
<1>0. fd \in Fds /\ t[fd].ops = "" /\ t[fd] = Unused
  BY DEF Free, TabOK, LayersOK
<1>2. \A f \in Fds : f # fd => u[f] = t[f]
  OBVIOUS
<1>3. u[fd].ops \in {"opening", "disk"} /\ u[fd].raw = -1
  OBVIOUS
<1>4. t[fd].raw = -1
  BY <1>0, UnusedIs
<1>5. \A f \in Fds : u[f].raw = t[f].raw
  BY <1>2, <1>3, <1>4
<1>6. \A f \in Fds : t[f].raw # fd
  BY FreeUnder
<1>7. LayersOK(u)
  <2> SUFFICES ASSUME NEW f \in Fds, f # fd
               PROVE  /\ u[f].ops = "" => u[f] = Unused
                      /\ u[f].ops \in {"opening", "disk"} => u[f].raw = -1
                      /\ u[f].ops = "split" /\ u[f].raw # -1 => u[u[f].raw].ops = "disk"
                      /\ u[f].ops \in {"gzip", "bzip"} =>
                           u[f].raw # -1 /\ u[u[f].raw].ops \in {"disk", "split"}
    BY <1>3 DEF LayersOK
  <2>1. u[f] = t[f]
    BY <1>2
  <2>2. t[f].raw # -1 => t[f].raw \in Fds /\ u[t[f].raw] = t[t[f].raw]
    BY <1>2, <1>6 DEF TabOK, FileRec
  <2> QED BY <2>1, <2>2 DEF TabOK, LayersOK
<1>8. Injective(u)
  BY <1>5 DEF TabOK, Injective
<1>9. Roots(u) = Roots(t) \cup {fd}
  <2>1. \A f \in Fds : f # fd => (f \in Roots(u) <=> f \in Roots(t))
    BY <1>2, <1>5 DEF Roots
  <2>2. fd \in Roots(u)
    BY <1>0, <1>3, <1>5, <1>6 DEF Roots
  <2> QED BY <1>0, <2>1, <2>2 DEF Roots
<1>10. \A f \in Fds : t[f].ops # "" => u[f] = t[f]
  BY <1>0, <1>2
<1>11. \A f \in Fds : u[f].ops = "opening" => t[f].ops = "opening" \/ f \in {fd}
  BY <1>2
<1> QED BY <1>0, <1>7, <1>8, <1>9, <1>10, <1>11 DEF Ext, Gains, TabOK, Free

\* A root is freed: what was below it is a root now.
LEMMA Dropped ==
    ASSUME NEW t, TabOK(t), NEW fd \in Roots(t)
    PROVE  /\ TabOK(Released(t, fd))
           /\ Released(t, fd)[fd].ops = ""
           /\ \A f \in Fds : f # fd => Released(t, fd)[f] = t[f]
           /\ Roots(Released(t, fd)) = (Roots(t) \ {fd}) \cup ({t[fd].raw} \ {-1})
<1> DEFINE u == Released(t, fd)
<1>0. fd \in Fds /\ t[fd].ops # "" /\ \A g \in Fds : t[g].raw # fd
  BY DEF Roots
<1>1. u \in [Fds -> FileRec]
  BY <1>0, UnusedIs DEF Released, TabOK
<1>2. \A f \in Fds : f # fd => u[f] = t[f]
  BY <1>0 DEF Released, TabOK
<1>3. u[fd] = Unused
  BY <1>0 DEF Released, TabOK
<1> HIDE DEF u
<1>4. u[fd].ops = "" /\ u[fd].raw = -1
  BY <1>3, UnusedIs
<1>5. \A f \in Fds : t[f].raw # -1 => t[f].raw \in Fds /\ u[t[f].raw] = t[t[f].raw]
  BY <1>0, <1>2 DEF TabOK, FileRec
<1>6. LayersOK(u)
  <2> SUFFICES ASSUME NEW f \in Fds, f # fd
               PROVE  /\ u[f].ops = "" => u[f] = Unused
                      /\ u[f].ops \in {"opening", "disk"} => u[f].raw = -1
                      /\ u[f].ops = "split" /\ u[f].raw # -1 => u[u[f].raw].ops = "disk"
                      /\ u[f].ops \in {"gzip", "bzip"} =>
                           u[f].raw # -1 /\ u[u[f].raw].ops \in {"disk", "split"}
    BY <1>3, <1>4 DEF LayersOK
  <2>1. u[f] = t[f]
    BY <1>2
  <2> QED BY <1>5, <2>1 DEF TabOK, LayersOK
<1>7. Injective(u)
  BY <1>2, <1>4 DEF TabOK, Injective
<1>8. \A f \in Fds : f \in Roots(u) <=> f # fd /\ (f \in Roots(t) \/ f = t[fd].raw)
  <2> TAKE f \in Fds
  <2>1. CASE f = fd
    BY <1>4, <2>1 DEF Roots
  <2>2. CASE f # fd /\ f = t[fd].raw
    <3>1. f # -1 /\ t[f].ops # ""
      <4>1. f # -1
        BY FdsNat
      <4>2. t[fd].ops \in {"opening", "disk", "split", "gzip", "bzip"}
        BY <1>0 DEF TabOK, FileRec
      <4> QED BY <1>0, <2>2, <4>1, <4>2 DEF TabOK, LayersOK
    <3>2. \A g \in Fds : g # fd => t[g].raw # f
      BY <1>0, <2>2, <3>1 DEF TabOK, Injective
    <3> QED BY <1>2, <1>4, <2>2, <3>1, <3>2 DEF Roots
  <2>3. CASE f # fd /\ f # t[fd].raw
    <3>1. u[f] = t[f]
      BY <1>2, <2>3
    <3>2. f # -1
      BY FdsNat
    <3>3. \A g \in Fds : u[g].raw = f <=> t[g].raw = f
      BY <1>2, <1>4, <2>3, <3>2
    <3> QED BY <2>3, <3>1, <3>3 DEF Roots
  <2> QED BY <2>1, <2>2, <2>3
<1>9. t[fd].raw \in Fds \cup {-1}
  BY <1>0 DEF TabOK, FileRec
<1>10. Roots(u) = (Roots(t) \ {fd}) \cup ({t[fd].raw} \ {-1})
  <2> DEFINE x == t[fd].raw
  <2>1. x \in Fds \cup {-1} /\ x # fd /\ -1 \notin Fds
    BY <1>0, <1>9, FdsNat
  <2>2. Roots(u) \subseteq Fds /\ Roots(t) \subseteq Fds
    BY DEF Roots
  <2>3. \A f \in Fds : f \in Roots(u) <=> f # fd /\ (f \in Roots(t) \/ f = x)
    BY <1>8
  <2> HIDE DEF x
  <2>4. Roots(u) = (Roots(t) \ {fd}) \cup ({x} \ {-1})
    BY <2>1, <2>2, <2>3
  <2> QED BY <2>4 DEF x
<1> QED BY <1>1, <1>2, <1>4, <1>6, <1>7, <1>10 DEF TabOK, u

\* open() gives its own descriptor back.
LEMMA GivenBack ==
    ASSUME NEW t, NEW u, NEW fd, NEW r, NEW L,
           Working(t, u, fd), Ext(u, r, L)
    PROVE  Ext(t, Released(r, fd), L)
<1> USE DEF Working, Gains
<1> DEFINE v == Released(r, fd)
<1>0. fd \in Free(t) /\ fd \in Fds /\ TabOK(r)
  BY DEF Ext, Free
<1>1. r[fd] = u[fd] /\ r[fd].ops = "opening"
  BY <1>0 DEF Ext
<1>2. fd \in Roots(r)
  BY DEF Ext
<1>3. r[fd].raw = -1
  BY <1>0, <1>1 DEF TabOK, LayersOK
<1>4. /\ TabOK(v) /\ v[fd].ops = ""
      /\ \A f \in Fds : f # fd => v[f] = r[f]
      /\ Roots(v) = Roots(r) \ {fd}
  <2>1. /\ TabOK(v) /\ v[fd].ops = ""
        /\ \A f \in Fds : f # fd => v[f] = r[f]
        /\ Roots(v) = (Roots(r) \ {fd}) \cup ({r[fd].raw} \ {-1})
    BY <1>0, <1>2, Dropped
  <2> HIDE DEF v
  <2> QED BY <1>3, <2>1
<1> HIDE DEF v
<1>5. fd \notin L /\ fd \notin Roots(t)
  BY <1>0, <1>1 DEF Ext, Free, Roots
<1>6. Roots(v) = Roots(t) \cup L
  BY <1>4, <1>5 DEF Ext
<1>7. L \subseteq Free(t)
  BY DEF Ext, Free
<1>8. \A f \in Fds : t[f].ops # "" => v[f] = t[f]
  <2> SUFFICES ASSUME NEW f \in Fds, t[f].ops # "" PROVE v[f] = t[f]
    OBVIOUS
  <2>1. f # fd
    BY <1>0 DEF Free
  <2>2. u[f] = t[f]
    BY DEF Ext
  <2>3. r[f] = u[f]
    BY <2>2 DEF Ext
  <2> QED BY <1>4, <2>1, <2>2, <2>3
<1>9. \A f \in Fds : v[f].ops = "opening" => t[f].ops = "opening" \/ f \in L
  BY <1>4 DEF Ext
<1> QED BY <1>4, <1>6, <1>7, <1>8, <1>9 DEF Ext, v

LiesOn(above, below) ==
    /\ above \in {"split", "gzip", "bzip"}
    /\ below = "disk" \/ (above # "split" /\ below = "split")

\* open() makes its own descriptor a file that lies on the root x.
LEMMA Adopted ==
    ASSUME NEW t, NEW u, NEW fd, NEW r, NEW x, Working(t, u, fd), Gains(u, r, x),
           NEW ops, LiesOn(ops, r[x].ops), NEW d \in Devices, NEW n \in Seq(Suffix)
    PROVE  /\ Gains(t, Using(r, fd, ops, d, n, x), fd)
           /\ Using(r, fd, ops, d, n, x)[fd].ops = ops
<1> USE DEF Working, Gains, LiesOn
<1> DEFINE v == Using(r, fd, ops, d, n, x)
<1>0. /\ fd \in Free(t) /\ fd \in Fds /\ x \in Free(u) /\ x \in Fds /\ x # fd
      /\ TabOK(r) /\ TabOK(u) /\ r[fd].ops = "opening"
  BY DEF Ext, Free
<1>1. fd \in Roots(r) /\ x \in Roots(r)
  BY DEF Ext
<1>2. v \in [Fds -> FileRec]
  BY <1>0 DEF Using, TabOK, FileRec
<1>3. \A f \in Fds : f # fd => v[f] = r[f]
  BY <1>0 DEF Using, TabOK
<1>4. v[fd].ops = ops /\ v[fd].raw = x
  BY <1>0 DEF Using, TabOK
<1> HIDE DEF v
<1>5. r[fd].raw = -1 /\ x # -1
  BY <1>0, FdsNat DEF TabOK, LayersOK
<1>6. \A g \in Fds : r[g].raw # fd /\ r[g].raw # x
  BY <1>1 DEF Roots
<1>7. \A f \in Fds : r[f].raw # -1 => r[f].raw \in Fds /\ v[r[f].raw] = r[r[f].raw]
  BY <1>0, <1>3, <1>6 DEF TabOK, FileRec
<1>8. v[x] = r[x]
  BY <1>0, <1>3
<1>9. LayersOK(v)
  <2> SUFFICES ASSUME NEW f \in Fds
               PROVE  /\ v[f].ops = "" => v[f] = Unused
                      /\ v[f].ops \in {"opening", "disk"} => v[f].raw = -1
                      /\ v[f].ops = "split" /\ v[f].raw # -1 => v[v[f].raw].ops = "disk"
                      /\ v[f].ops \in {"gzip", "bzip"} =>
                           v[f].raw # -1 /\ v[v[f].raw].ops \in {"disk", "split"}
    BY DEF LayersOK
  <2>1. CASE f = fd
    BY <1>4, <1>5, <1>8, <2>1
  <2>2. CASE f # fd
    <3>1. v[f] = r[f]
      BY <1>3, <2>2
    <3> QED BY <1>0, <1>7, <3>1 DEF TabOK, LayersOK
  <2> QED BY <2>1, <2>2
<1>10. Injective(v)
  BY <1>0, <1>3, <1>4, <1>6 DEF TabOK, Injective
<1>11. \A f \in Fds : f \in Roots(v) <=> f \in Roots(r) /\ f # x
  <2> TAKE f \in Fds
  <2>1. f # -1
    BY FdsNat
  <2>2. \A g \in Fds : v[g].raw = f <=> r[g].raw = f \/ (g = fd /\ f = x)
    BY <1>3, <1>4, <1>5, <2>1
  <2>3. v[f].ops # "" <=> r[f].ops # ""
    BY <1>0, <1>3, <1>4
  <2> QED BY <1>0, <2>2, <2>3 DEF Roots
<1>12. x \notin Roots(t) /\ x \notin Roots(u)
  BY <1>0 DEF Ext, Free, Roots
<1>13. Roots(v) = Roots(r) \ {x}
  BY <1>11 DEF Roots
<1>14. Roots(v) = Roots(t) \cup {fd}
  BY <1>0, <1>12, <1>13 DEF Ext
<1>15. \A f \in Fds : t[f].ops # "" => v[f] = t[f]
  BY <1>0, <1>3 DEF Ext, Free
<1>16. \A f \in Fds : v[f].ops = "opening" => t[f].ops = "opening" \/ f \in {fd}
  <2> SUFFICES ASSUME NEW f \in Fds, f # fd, v[f].ops = "opening" PROVE t[f].ops = "opening"
    OBVIOUS
  <2>1. r[f].ops = "opening"
    BY <1>3
  <2>2. f # x
    BY <2>1
  <2> QED BY <2>1, <2>2 DEF Ext
<1> QED BY <1>0, <1>2, <1>4, <1>9, <1>10, <1>14, <1>15, <1>16 DEF Ext, TabOK, v

-----------------------------------------------------------------------------
(* open(), from the inside out *)

\* What an open() for table t has left: nothing, or one more root.
Failed(t, r) == r.fd = -1 /\ r.tab = t
Opened(t, r, kinds) ==
    r.fd \in Fds /\ Gains(t, r.tab, r.fd) /\ r.tab[r.fd].ops \in kinds

\* open() has taken a descriptor for itself.
LEMMA WorkingBegins ==
    ASSUME NEW t, TabOK(t), NEW fd \in Free(t)
    PROVE  Working(t, Reserved(t, fd), fd)
<1> DEFINE u == Reserved(t, fd)
<1>1. fd \in Fds /\ t[fd] = Unused /\ t \in [Fds -> FileRec]
  BY DEF Free, TabOK, LayersOK
<1>2. u \in [Fds -> FileRec] /\ \A f \in Fds : f # fd => u[f] = t[f]
  BY <1>1 DEF Reserved, FileRec
<1>3. u[fd].ops = "opening" /\ u[fd].raw = t[fd].raw
  BY <1>1 DEF Reserved, FileRec
<1>4. u[fd].raw = -1
  BY <1>1, <1>3, UnusedIs
<1> HIDE DEF u
<1>5. Gains(t, u, fd)
  BY <1>2, <1>3, <1>4, Taken
<1> QED BY <1>3, <1>5 DEF Working, u

\* Giving back a descriptor that was just taken leaves the table as it was.
LEMMA TakenReleased ==
    ASSUME NEW t, TabOK(t), NEW fd \in Free(t), NEW R
    PROVE  Released([t EXCEPT ![fd] = R], fd) = t
<1>1. fd \in Fds /\ t[fd] = Unused /\ t \in [Fds -> FileRec]
  BY DEF Free, TabOK, LayersOK
<1> QED BY <1>1 DEF Released

\* open() of a file as it lies on the disk.
LEMMA OpenPlainIs ==
    ASSUME NEW t, TabOK(t), NEW d \in Devices, NEW n \in Seq(Suffix)
    PROVE  LET r == OpenPlain(t, d, n)
           IN  Failed(t, r) \/ (Opened(t, r, {"disk"}) /\ CloseOne(r.tab, r.fd) = t)
<1> DEFINE r == OpenPlain(t, d, n)
           fd == Handle(t)
           u == Using(t, fd, "disk", d, n, -1)
<1>1. CASE ~(fd # -1 /\ [dev |-> d, name |-> n] \in exists)
  BY <1>1 DEF OpenPlain, Result, Failed
<1>2. CASE fd # -1 /\ [dev |-> d, name |-> n] \in exists
  <2>1. fd \in Free(t) /\ fd \in Fds /\ fd # -1
    BY <1>2, HandleFree DEF Free
  <2>2. Gains(t, u, fd) /\ u[fd].ops = "disk"
    <3>1. u \in [Fds -> FileRec] /\ \A f \in Fds : f # fd => u[f] = t[f]
      BY <2>1 DEF Using, TabOK, FileRec
    <3>2. u[fd].ops = "disk" /\ u[fd].raw = -1
      BY <2>1 DEF Using, TabOK
    <3> HIDE DEF u, fd
    <3> QED BY <2>1, <3>1, <3>2, Taken
  <2>3. r = Result(u, fd, FALSE)
    BY <1>2, Zenon DEF OpenPlain
  <2>4. r.fd = fd /\ r.tab = u
    <3> HIDE DEF r, fd, u
    <3> QED BY <2>3 DEF Result
  <2>5. Released(u, fd) = t
    BY <2>1, TakenReleased DEF Using
  <2>6. CloseOne(u, fd) = t
    BY <2>1, <2>2, <2>5 DEF CloseOne
  <2>7. Opened(t, r, {"disk"})
    BY <2>1, <2>2, <2>4 DEF Opened
  <2> QED BY <2>4, <2>6, <2>7
<1> QED BY <1>1, <1>2

\* splitfs_open()
LEMMA SplitOpenIs ==
    ASSUME NEW t, NEW u, NEW fd, Working(t, u, fd), NEW d, NEW n \in Seq(Suffix)
    PROVE  LET r == SplitOpen(u, fd, d, n)
           IN  Failed(u, r) \/ (r.fd = fd /\ Opened(t, r, {"split"}))
<1> DEFINE conf == OpenPlain(u, Currdev, Append(n, "split"))
           slice == OpenPlain(u, Currdev, Slice)
           v == Using(slice.tab, fd, "split", slice.tab[slice.fd].dev, n, slice.fd)
           r == SplitOpen(u, fd, d, n)
<1> SUFFICES Failed(u, r) \/ (r.fd = fd /\ Opened(t, r, {"split"}))
  OBVIOUS
<1>1. TabOK(u) /\ Currdev \in Devices /\ Append(n, "split") \in Seq(Suffix)
  BY OpenAssumption, NamesAre DEF Working, Gains, Ext, Suffix
<1>2. Slice \in Seq(Suffix)
  BY NamesAre
<1>3. Failed(u, conf) \/ (Opened(u, conf, {"disk"}) /\ CloseOne(conf.tab, conf.fd) = u)
  BY <1>1, OpenPlainIs
<1>4. Failed(u, slice) \/ Opened(u, slice, {"disk"})
  BY <1>1, <1>2, OpenPlainIs
<1>5. r = ConfRead(u, fd, n, conf)
  BY Zenon DEF SplitOpen
<1>6. fd \in Fds /\ -1 \notin Fds
  BY FdsNat DEF Working, Gains, Ext, Free
<1> HIDE DEF r, conf, slice
<1>7. CASE Failed(u, conf)
  BY <1>5, <1>7 DEF Failed, ConfRead, Result
<1>8. CASE Opened(u, conf, {"disk"}) /\ CloseOne(conf.tab, conf.fd) = u
  <2>1. conf.fd # -1
    BY <1>6, <1>8 DEF Opened
  <2>2. r = OnSlice(u, fd, n, OpenPlain(CloseOne(conf.tab, conf.fd), Currdev, Slice))
    BY <1>5, <2>1, Zenon DEF ConfRead
  <2>3. r = OnSlice(u, fd, n, slice)
    BY <1>8, <2>2, Zenon DEF slice
  <2>4. CASE Failed(u, slice)
    BY <2>3, <2>4 DEF Failed, OnSlice, Result
  <2>5. CASE Opened(u, slice, {"disk"})
    <3>1. slice.fd # -1 /\ slice.fd \in Fds /\ Gains(u, slice.tab, slice.fd)
          /\ slice.tab[slice.fd].ops = "disk"
      BY <1>6, <2>5 DEF Opened
    <3>2. slice.tab[slice.fd].dev \in Devices
      BY <3>1 DEF Gains, Ext, TabOK, FileRec
    <3>3. Gains(t, v, fd) /\ v[fd].ops = "split"
      <4> DEFINE w == slice.tab
                 x == slice.fd
                 e == slice.tab[slice.fd].dev
      <4>1. Gains(u, w, x) /\ LiesOn("split", w[x].ops) /\ e \in Devices
        BY <3>1, <3>2 DEF LiesOn
      <4> HIDE DEF w, x, e
      <4>3. Gains(t, Using(w, fd, "split", e, n, x), fd)
            /\ Using(w, fd, "split", e, n, x)[fd].ops = "split"
        BY <4>1, Adopted
      <4> QED BY <4>3 DEF w, x, e
    <3>4. r = Result(v, fd, FALSE)
      BY <2>3, <3>1, Zenon DEF OnSlice
    <3> HIDE DEF v
    <3>5. r.fd = fd /\ r.tab = v
      BY <3>4 DEF Result
    <3> QED BY <1>6, <3>3, <3>5 DEF Opened
  <2> QED BY <1>4, <2>4, <2>5
<1> QED BY <1>3, <1>7, <1>8

\* open() of a compressed file: a root on a disk, or a split one.
LEMMA OpenZippedIs ==
    ASSUME NEW t, TabOK(t), NEW d \in Devices, NEW n \in Seq(Suffix)
    PROVE  LET r == OpenZipped(t, d, n)
           IN  Failed(t, r) \/ Opened(t, r, {"disk", "split"})
<1> DEFINE fd == Handle(t)
           u == Reserved(t, fd)
           s == SplitOpen(u, fd, d, n)
           r == OpenZipped(t, d, n)
<1>1. CASE fd = -1
  BY <1>1 DEF OpenZipped, Result, Failed
<1>2. CASE fd # -1 /\ [dev |-> d, name |-> n] \in exists
  <2>1. r = OpenPlain(t, d, n)
    BY <1>2, Zenon DEF OpenZipped
  <2>2. Failed(t, r) \/ Opened(t, r, {"disk"})
    BY <2>1, OpenPlainIs
  <2> HIDE DEF r
  <2>3. Failed(t, r) \/ Opened(t, r, {"disk", "split"})
    BY <2>2 DEF Opened
  <2> QED BY <2>3 DEF r
<1>3. CASE fd # -1 /\ [dev |-> d, name |-> n] \notin exists
  <2>1. fd \in Free(t) /\ fd \in Fds
    BY <1>3, HandleFree DEF Free
  <2>2. Working(t, u, fd)
    BY <2>1, WorkingBegins
  <2>3. Failed(u, s) \/ (s.fd = fd /\ Opened(t, s, {"split"}))
    BY <2>2, SplitOpenIs
  <2>4. r = OrReleased(s, fd)
    BY <1>3, Zenon DEF OpenZipped
  <2>5. Released(u, fd) = t
    <3>1. u = [t EXCEPT ![fd] = [t[fd] EXCEPT !.ops = "opening"]]
      BY DEF Reserved
    <3> QED BY <2>1, <3>1, TakenReleased
  <2> HIDE DEF r, s, u
  <2>6. CASE Failed(u, s)
    <3>1. s.fd = -1 /\ s.tab = u
      BY <2>6 DEF Failed
    <3>2. r = Result(t, -1, s.oom)
      BY <2>4, <2>5, <3>1, Zenon DEF OrReleased
    <3>3. r.fd = -1 /\ r.tab = t
      BY <3>2, ResultIs
    <3>4. Failed(t, r)
      BY <3>3 DEF Failed
    <3> QED BY <3>4 DEF r
  <2>7. CASE s.fd = fd /\ Opened(t, s, {"split"})
    <3>1. r = s
      BY <1>3, <2>4, <2>7 DEF OrReleased
    <3>2. Opened(t, r, {"disk", "split"})
      BY <2>7, <3>1 DEF Opened
    <3> QED BY <3>2 DEF r
  <2> QED BY <2>3, <2>6, <2>7
<1> QED BY <1>1, <1>2, <1>3

\* What failures of malloc() leave behind: roots that no open() is at work on.
Leaks(t, u, L) == Ext(t, u, L) /\ \A f \in L : u[f].ops # "opening"
LeaksOne(t, u, x) == Leaks(t, u, {x})

\* What two steps have lost.
LEMMA LeaksTrans ==
    ASSUME NEW t, NEW u, NEW v, NEW K, NEW L, TabOK(t), Leaks(t, u, K), Leaks(u, v, L)
    PROVE  Leaks(t, v, K \cup L)
<1>1. Ext(t, v, K \cup L)
  BY ExtTrans DEF Leaks
<1>2. ASSUME NEW f \in K PROVE v[f].ops # "opening"
  <2>1. f \in Roots(u)
    BY <1>2 DEF Leaks, Ext
  <2>2. f \in Fds /\ u[f].ops # ""
    BY <2>1 DEF Roots
  <2>3. v[f] = u[f]
    BY <2>2 DEF Leaks, Ext
  <2> QED BY <1>2, <2>3 DEF Leaks
<1> QED BY <1>1, <1>2 DEF Leaks

\* open() gives its descriptor back and leaves what was lost below it; or goes
\* on, as if that had been there before.
LEMMA LeaksGivenBack ==
    ASSUME NEW t, NEW u, NEW fd, NEW r, NEW L, Working(t, u, fd), Leaks(u, r, L)
    PROVE  Leaks(t, Released(r, fd), L) /\ Working(Released(r, fd), r, fd)
<1> DEFINE v == Released(r, fd)
<1>0. Ext(u, r, L) /\ TabOK(r) /\ fd \in Fds /\ TabOK(t)
  BY DEF Leaks, Ext, Working, Gains, Free
<1>1. Ext(t, v, L)
  BY <1>0, GivenBack
<1>2. fd \in Roots(r) /\ r[fd].ops = "opening" /\ fd \notin L
  <2>1. fd \in Roots(u) /\ u[fd].ops = "opening"
    BY DEF Working, Gains, Ext
  <2>2. r[fd] = u[fd] /\ fd \in Roots(r)
    BY <1>0, <2>1 DEF Ext
  <2> QED BY <1>0, <2>1, <2>2 DEF Ext, Free
<1>3. r[fd].raw = -1
  BY <1>0, <1>2 DEF TabOK, LayersOK
<1>4. /\ TabOK(v) /\ v[fd].ops = ""
      /\ \A f \in Fds : f # fd => v[f] = r[f]
      /\ Roots(v) = (Roots(r) \ {fd}) \cup ({r[fd].raw} \ {-1})
  BY <1>0, <1>2, Dropped
<1> HIDE DEF v
<1>5. Roots(r) = Roots(v) \cup {fd}
  BY <1>2, <1>3, <1>4
<1>6. Leaks(t, v, L)
  <2>1. L \subseteq Fds
    BY <1>0 DEF Ext, Free
  <2> QED BY <1>1, <1>2, <1>4, <2>1 DEF Leaks
<1>7. Ext(v, r, {fd})
  <2>1. \A f \in Fds : v[f].ops # "" => r[f] = v[f]
    BY <1>4
  <2>2. \A f \in Fds : r[f].ops = "opening" => v[f].ops = "opening" \/ f \in {fd}
    BY <1>4
  <2> QED BY <1>0, <1>4, <1>5, <2>1, <2>2 DEF Ext, Free
<1>8. Working(v, r, fd)
  BY <1>2, <1>4, <1>7 DEF Working, Gains
<1> QED BY <1>6, <1>8 DEF v

\* zf_open() and bzf_open()
LEMMA ZipOpenIs ==
    ASSUME NEW t, NEW u, NEW fd, Working(t, u, fd), NEW ops \in {"gzip", "bzip"},
           NEW n \in Seq(Suffix), NEW oom \in BOOLEAN
    PROVE  LET r == ZipOpen(u, fd, ops, n, oom)
           IN  \/ Failed(u, r)
               \/ oom /\ r.fd = -1 /\ \E x : LeaksOne(u, r.tab, x)
               \/ ~oom /\ r.fd = fd /\ Opened(t, r, {"gzip", "bzip"})
<1> DEFINE suffix == IF ops = "gzip" THEN "gz" ELSE "bz2"
           z == OpenZipped(u, Currdev, Append(n, suffix))
           w == z.tab
           x == z.fd
           e == z.tab[z.fd].dev
           r == ZipOpen(u, fd, ops, n, oom)
<1> SUFFICES \/ Failed(u, r)
             \/ oom /\ r.fd = -1 /\ LeaksOne(u, r.tab, x)
             \/ ~oom /\ r.fd = fd /\ Opened(t, r, {"gzip", "bzip"})
  BY Zenon
<1>1. TabOK(u) /\ Currdev \in Devices /\ suffix \in Suffix
  BY OpenAssumption DEF Working, Gains, Ext, Suffix
<1>2. r = OnZipped(u, fd, ops, n, oom, z)
  BY Zenon DEF ZipOpen
<1> HIDE DEF suffix
<1>3. Append(n, suffix) \in Seq(Suffix)
  BY <1>1, NamesAre
<1>4. Failed(u, z) \/ Opened(u, z, {"disk", "split"})
  BY <1>1, <1>3, OpenZippedIs
<1>5. fd \in Fds /\ -1 \notin Fds
  BY FdsNat DEF Working, Gains, Ext, Free
<1> HIDE DEF r, z
<1>6. CASE Failed(u, z)
  BY <1>2, <1>6 DEF Failed, OnZipped, Result
<1>7. CASE Opened(u, z, {"disk", "split"})
  <2>1. x # -1 /\ x \in Fds /\ Gains(u, w, x) /\ w[x].ops \in {"disk", "split"}
    BY <1>5, <1>7 DEF Opened
  <2>2. e \in Devices
    BY <2>1 DEF Gains, Ext, TabOK, FileRec
  <2>3. CASE oom
    <3>1. r = Result(w, -1, TRUE)
      BY <1>2, <2>1, <2>3 DEF OnZipped
    <3>2. r.fd = -1 /\ r.tab = w
      BY <3>1 DEF Result
    <3>3. LeaksOne(u, w, x)
      BY <2>1 DEF LeaksOne, Leaks, Gains
    <3> QED BY <2>3, <3>2, <3>3
  <2>4. CASE ~oom
    <3> DEFINE v == Using(w, fd, ops, e, n, x)
    <3>1. r = Result(v, fd, FALSE)
      BY <1>2, <2>1, <2>4 DEF OnZipped
    <3>2. LiesOn(ops, w[x].ops)
      BY <2>1 DEF LiesOn
    <3> HIDE DEF w, x, e
    <3>3. Gains(t, v, fd) /\ v[fd].ops = ops
      BY <2>1, <2>2, <3>2, Adopted
    <3> HIDE DEF v
    <3>4. r.fd = fd /\ r.tab = v
      BY <3>1 DEF Result
    <3> QED BY <1>5, <2>4, <3>3, <3>4 DEF Opened
  <2> QED BY <2>3, <2>4
<1> QED BY <1>4, <1>6, <1>7

\* The last of the file systems has failed as well: what is lost is K so far.
LEMMA BzipIs ==
    ASSUME NEW t, NEW u, NEW fd, Working(t, u, fd), NEW n \in Seq(Suffix), NEW oom \in BOOLEAN,
           NEW was
    PROVE  LET r == OrBzip(ZipOpen(u, fd, "bzip", n, oom), fd, was)
           IN  \/ ~oom /\ Opened(t, r, {"gzip", "bzip"})
               \/ r.fd = -1 /\ Leaks(t, r.tab, {})
               \/ oom /\ r.fd = -1 /\ \E x : LeaksOne(t, r.tab, x)
<1> DEFINE b == ZipOpen(u, fd, "bzip", n, oom)
           r == OrBzip(b, fd, was)
           v == Released(b.tab, fd)
<1> SUFFICES \/ ~oom /\ Opened(t, r, {"gzip", "bzip"})
             \/ r.fd = -1 /\ Leaks(t, r.tab, {})
             \/ oom /\ r.fd = -1 /\ \E x : LeaksOne(t, r.tab, x)
  OBVIOUS
<1>1. \/ Failed(u, b)
      \/ oom /\ b.fd = -1 /\ \E x : LeaksOne(u, b.tab, x)
      \/ ~oom /\ b.fd = fd /\ Opened(t, b, {"gzip", "bzip"})
  BY ZipOpenIs
<1>2. -1 \notin Fds
  BY FdsNat
<1>3. r = IF b.fd # -1 THEN b ELSE OrReleased([b EXCEPT !.oom = @ \/ was], fd)
  BY DEF OrBzip
<1>4. b.fd = -1 => r.fd = -1 /\ r.tab = v
  <2> SUFFICES ASSUME b.fd = -1 PROVE r.fd = -1 /\ r.tab = v
    OBVIOUS
  <2> DEFINE c == [b EXCEPT !.oom = @ \/ was]
  <2>1. r = OrReleased(c, fd)
    BY <1>3, Zenon
  <2>2. c.fd = b.fd /\ c.tab = b.tab
    OBVIOUS
  <2> HIDE DEF c, b, r
  <2>3. r = Result(Released(b.tab, fd), -1, c.oom)
    BY <2>1, <2>2, Zenon DEF OrReleased
  <2> HIDE DEF v
  <2>4. r = Result(v, -1, c.oom)
    BY <2>3 DEF v
  <2> QED BY <2>4, ResultIs
<1> HIDE DEF b, r
<1>5. CASE Failed(u, b)
  <2>1. b.fd = -1 /\ b.tab = u
    BY <1>5 DEF Failed
  <2>2. Leaks(u, b.tab, {})
    BY <2>1, ExtSame DEF Leaks, Working, Gains, Ext
  <2>3. Leaks(t, v, {})
    BY <2>2, LeaksGivenBack
  <2> QED BY <1>4, <2>1, <2>3
<1>6. CASE oom /\ b.fd = -1 /\ \E x : LeaksOne(u, b.tab, x)
  <2>1. PICK x : LeaksOne(u, b.tab, x)
    BY <1>6
  <2>2. LeaksOne(t, v, x)
    BY <2>1, LeaksGivenBack DEF LeaksOne
  <2> QED BY <1>4, <1>6, <2>2
<1>7. CASE ~oom /\ b.fd = fd /\ Opened(t, b, {"gzip", "bzip"})
  BY <1>2, <1>3, <1>7 DEF Opened
<1> QED BY <1>1, <1>5, <1>6, <1>7

Kinds == {"disk", "split", "gzip", "bzip"}

\* open(): a root more, or none but for what malloc() made it lose.
LEMMA OpenAnyIs ==
    ASSUME NEW t, TabOK(t), NEW d \in Devices, NEW n \in Seq(Suffix), NEW oom \in BOOLEAN
    PROVE  LET r == OpenAny(t, d, n, oom)
           IN  \/ Opened(t, r, Kinds)
               \/ r.fd = -1 /\ Leaks(t, r.tab, {})
               \/ oom /\ r.fd = -1 /\ \E x, y : Leaks(t, r.tab, {x, y})
<1> DEFINE fd == Handle(t)
           u == Reserved(t, fd)
           s == SplitOpen(u, fd, d, n)
           g == ZipOpen(u, fd, "gzip", n, oom)
           r == OpenAny(t, d, n, oom)
<1> SUFFICES \/ Opened(t, r, Kinds)
             \/ r.fd = -1 /\ Leaks(t, r.tab, {})
             \/ oom /\ r.fd = -1 /\ \E x, y : Leaks(t, r.tab, {x, y})
  OBVIOUS
<1>0. -1 \notin Fds
  BY FdsNat
<1>1. CASE fd = -1
  <2>1. r.fd = -1 /\ r.tab = t
    BY <1>1 DEF OpenAny, Result
  <2> HIDE DEF r
  <2> QED BY <2>1, ExtSame DEF Leaks
<1>2. CASE fd # -1 /\ [dev |-> d, name |-> n] \in exists
  <2>1. r = OpenPlain(t, d, n)
    BY <1>2, Zenon DEF OpenAny
  <2>2. Failed(t, r) \/ Opened(t, r, {"disk"})
    BY <2>1, OpenPlainIs
  <2> HIDE DEF r
  <2> QED BY <2>2, ExtSame DEF Opened, Failed, Leaks, Kinds
<1>3. CASE fd # -1 /\ [dev |-> d, name |-> n] \notin exists
  <2>1. fd \in Free(t) /\ fd \in Fds
    BY <1>3, HandleFree DEF Free
  <2>2. Working(t, u, fd)
    BY <2>1, WorkingBegins
  <2>3. Failed(u, s) \/ (s.fd = fd /\ Opened(t, s, {"split"}))
    BY <2>2, SplitOpenIs
  <2>4. r = OrSplit(s, fd, n, oom)
    BY <1>3, Zenon DEF OpenAny
  <2>5. \/ Failed(u, g)
        \/ oom /\ g.fd = -1 /\ \E x : LeaksOne(u, g.tab, x)
        \/ ~oom /\ g.fd = fd /\ Opened(t, g, {"gzip", "bzip"})
    BY <2>2, ZipOpenIs
  <2> HIDE DEF r, s, u, fd
  <2>6. CASE s.fd = fd /\ Opened(t, s, {"split"})
    <3>1. r = s
      BY <1>3, <2>4, <2>6 DEF OrSplit
    <3> QED BY <2>6, <3>1 DEF Opened, Kinds
  <2>7. CASE Failed(u, s)
    <3>1. r = OrGzip(g, fd, n, oom)
      BY <2>4, <2>7 DEF OrSplit, Failed
    <3> HIDE DEF g
    <3>2. CASE Failed(u, g)
      <4>1. r = OrBzip(ZipOpen(u, fd, "bzip", n, oom), fd, g.oom)
        BY <3>1, <3>2 DEF OrGzip, Failed
      <4>2. \/ ~oom /\ Opened(t, r, {"gzip", "bzip"})
            \/ r.fd = -1 /\ Leaks(t, r.tab, {})
            \/ oom /\ r.fd = -1 /\ \E x : LeaksOne(t, r.tab, x)
        BY <2>2, <4>1, BzipIs
      <4>3. \A x : LeaksOne(t, r.tab, x) => Leaks(t, r.tab, {x, x})
        BY Zenon DEF LeaksOne
      <4> QED BY <4>2, <4>3 DEF Opened, Kinds
    <3>3. CASE oom /\ g.fd = -1 /\ \E x : LeaksOne(u, g.tab, x)
      <4>1. PICK x : LeaksOne(u, g.tab, x)
        BY <3>3
      <4> DEFINE v == Released(g.tab, fd)
      <4>2. Leaks(t, v, {x}) /\ Working(v, g.tab, fd)
        BY <2>2, <4>1, LeaksGivenBack DEF LeaksOne
      <4> HIDE DEF v
      <4>3. r = OrBzip(ZipOpen(g.tab, fd, "bzip", n, oom), fd, g.oom)
        BY <3>1, <3>3 DEF OrGzip
      <4>4. \/ r.fd = -1 /\ Leaks(v, r.tab, {})
            \/ r.fd = -1 /\ \E y : LeaksOne(v, r.tab, y)
        <5> DEFINE w == g.tab
        <5>1. Working(v, w, fd) /\ r = OrBzip(ZipOpen(w, fd, "bzip", n, oom), fd, g.oom)
          BY <4>2, <4>3
        <5> HIDE DEF w
        <5>2. \/ ~oom /\ Opened(v, r, {"gzip", "bzip"})
              \/ r.fd = -1 /\ Leaks(v, r.tab, {})
              \/ oom /\ r.fd = -1 /\ \E y : LeaksOne(v, r.tab, y)
          BY <5>1, BzipIs
        <5> QED BY <3>3, <5>2
      <4>5. CASE r.fd = -1 /\ Leaks(v, r.tab, {})
        <5>1. Leaks(t, r.tab, {x} \cup {})
          BY <4>2, <4>5, LeaksTrans
        <5>2. {x} \cup {} = {x, x}
          OBVIOUS
        <5> QED BY <3>3, <4>5, <5>1, <5>2
      <4>6. CASE r.fd = -1 /\ \E y : LeaksOne(v, r.tab, y)
        <5>1. PICK y : LeaksOne(v, r.tab, y)
          BY <4>6
        <5>2. Leaks(t, r.tab, {x} \cup {y})
          BY <4>2, <5>1, LeaksTrans DEF LeaksOne
        <5>3. {x} \cup {y} = {x, y}
          OBVIOUS
        <5> QED BY <3>3, <4>6, <5>2, <5>3
      <4> QED BY <4>4, <4>5, <4>6
    <3>4. CASE ~oom /\ g.fd = fd /\ Opened(t, g, {"gzip", "bzip"})
      <4>1. r = g
        BY <1>3, <3>1, <3>4 DEF OrGzip
      <4> QED BY <3>4, <4>1 DEF Opened, Kinds
    <3> QED BY <2>5, <3>2, <3>3, <3>4
  <2> QED BY <2>3, <2>6, <2>7
<1> QED BY <1>1, <1>2, <1>3

-----------------------------------------------------------------------------
(* The invariant *)

\* There are finitely many roots, so they can be counted.
LEMMA FiniteRoots ==
    ASSUME NEW t, NEW S
    PROVE  IsFiniteSet(Roots(t) \ S) /\ Cardinality(Roots(t) \ S) \in Nat
<1>1. IsFiniteSet(Fds)
  BY FS_Interval, OpenAssumption DEF Fds
<1>2. Roots(t) \ S \in SUBSET Fds
  BY DEF Roots
<1>3. IsFiniteSet(Roots(t) \ S)
  BY <1>1, <1>2, FS_Subset
<1> QED BY <1>3, FS_CardinalityType

\* A table without a file.
LEMMA AllUnused ==
    ASSUME NEW t, t = [fd \in Fds |-> Unused]
    PROVE  /\ TabOK(t) /\ Roots(t) = {}
           /\ \A f \in Fds : t[f].ops # "opening"
           /\ Cardinality(Roots(t) \ {}) = 0
<1>1. \A f \in Fds : t[f].ops = "" /\ t[f].raw = -1 /\ t[f] = Unused
  BY UnusedIs
<1>2. t \in [Fds -> FileRec]
  BY UnusedIs
<1>3. Roots(t) = {}
  BY <1>1 DEF Roots
<1>4. TabOK(t)
  BY <1>1, <1>2 DEF TabOK, LayersOK, Injective
<1>5. Cardinality(Roots(t) \ {}) = 0
  BY <1>3, FS_EmptySet
<1> QED BY <1>1, <1>3, <1>4, <1>5

\* No file is open to begin with.
LEMMA OInvInit == OpenInit => OInv
<1> SUFFICES ASSUME OpenInit PROVE OInv
  OBVIOUS
<1>1. files = [fd \in Fds |-> Unused] /\ held = {} /\ nomem = 0
  BY DEF OpenInit
<1>2. Cardinality(Roots(files) \ held) = 0
  BY <1>1, AllUnused
<1>3. nomem \in Nat /\ Cardinality(Roots(files) \ held) <= 2 * nomem
  BY <1>1, <1>2
<1> QED BY <1>1, <1>3, AllUnused DEF OInv

\* open()
LEMMA OpenFileKeeps ==
    ASSUME OInv, NEW d \in Devices, NEW oom \in BOOLEAN, OpenFile(d, oom)
    PROVE  OInv'
<1>1. PICK r : /\ r = OpenAny(files, d, <<>>, oom)
               /\ files' = r.tab
               /\ held' = IF r.fd = -1 THEN held ELSE held \cup {r.fd}
  BY DEF OpenFile
<1>2. nomem' = IF oom THEN nomem + 1 ELSE nomem
  BY DEF OpenFile
<1>3. TabOK(files) /\ nomem \in Nat /\ held \subseteq Roots(files)
      /\ (\A f \in Fds : files[f].ops # "opening")
      /\ Cardinality(Roots(files) \ held) <= 2 * nomem
  BY DEF OInv
<1>4. nomem' \in Nat /\ nomem' >= nomem
  BY <1>2, <1>3
<1>5. \/ Opened(files, r, Kinds)
      \/ r.fd = -1 /\ Leaks(files, r.tab, {})
      \/ oom /\ r.fd = -1 /\ \E x, y : Leaks(files, r.tab, {x, y})
  BY <1>1, <1>3, NamesAre, OpenAnyIs
<1> DEFINE A == Roots(files) \ held
           B == Roots(files') \ held'
<1>6. IsFiniteSet(A) /\ Cardinality(A) \in Nat /\ IsFiniteSet(B) /\ Cardinality(B) \in Nat
  BY FiniteRoots
<1>7. CASE Opened(files, r, Kinds)
  <2>1. r.fd \in Fds /\ Ext(files, files', {r.fd}) /\ files'[r.fd].ops \in Kinds /\ r.fd # -1
    BY <1>1, <1>7, FdsNat DEF Opened, Gains
  <2>2. held' = held \cup {r.fd}
    BY <1>1, <2>1
  <2>3. TabOK(files') /\ Roots(files') = Roots(files) \cup {r.fd}
    BY <2>1 DEF Ext
  <2>4. B \subseteq A /\ held' \subseteq Roots(files')
    BY <1>3, <2>2, <2>3
  <2>5. Cardinality(B) <= Cardinality(A)
    BY <1>6, <2>4, FS_Subset
  <2>6. \A f \in Fds : files'[f].ops # "opening"
    BY <1>3, <2>1 DEF Ext, Kinds
  <2>7. Cardinality(B) <= 2 * nomem'
    <3> HIDE DEF A, B
    <3>1. Cardinality(A) <= 2 * nomem
      BY <1>3 DEF A
    <3> QED BY <1>3, <1>4, <1>6, <2>5, <3>1
  <2> QED BY <1>4, <2>3, <2>4, <2>6, <2>7 DEF OInv
<1>8. ASSUME NEW L, NEW k \in 0 .. 2, r.fd = -1, Leaks(files, r.tab, L), IsFiniteSet(L),
             Cardinality(L) <= k, k > 0 => oom
      PROVE  OInv'
  <2>1. held' = held /\ Ext(files, files', L) /\ \A f \in L : files'[f].ops # "opening"
    BY <1>1, <1>8 DEF Leaks
  <2>2. TabOK(files') /\ Roots(files') = Roots(files) \cup L
    BY <2>1 DEF Ext
  <2>3. B \subseteq A \cup L /\ held' \subseteq Roots(files')
    BY <1>3, <2>1, <2>2
  <2>4. IsFiniteSet(A \cup L) /\ Cardinality(A \cup L) \in Nat /\ Cardinality(L) \in Nat
        /\ Cardinality(A \cup L) <= Cardinality(A) + Cardinality(L)
    <3>1. IsFiniteSet(A \cup L)
          /\ Cardinality(A \cup L) = Cardinality(A) + Cardinality(L) - Cardinality(A \cap L)
      BY <1>6, <1>8, FS_Union
    <3>2. IsFiniteSet(A \cap L)
      BY <1>6, FS_Intersection
    <3>3. Cardinality(A \cap L) \in Nat /\ Cardinality(L) \in Nat /\ Cardinality(A \cup L) \in Nat
      BY <1>8, <3>1, <3>2, FS_CardinalityType
    <3> HIDE DEF A
    <3> QED BY <1>6, <3>1, <3>3
  <2>5. Cardinality(B) <= Cardinality(A \cup L)
    BY <2>3, <2>4, FS_Subset
  <2>6. \A f \in Fds : files'[f].ops # "opening"
    BY <1>3, <2>1 DEF Ext
  <2>7. Cardinality(B) <= 2 * nomem'
    <3>1. Cardinality(A) <= 2 * nomem
      BY <1>3
    <3>2. k > 0 => nomem' = nomem + 1
      BY <1>2, <1>8
    <3> DEFINE a == Cardinality(A)
               b == Cardinality(B)
               c == Cardinality(L)
               u == Cardinality(A \cup L)
    <3>3. a \in Nat /\ b \in Nat /\ c \in Nat /\ u \in Nat /\ b <= u /\ u <= a + c /\ c <= k
          /\ a <= 2 * nomem
      BY <1>6, <1>8, <2>4, <2>5, <3>1
    <3> HIDE DEF a, b, c, u
    <3>4. b <= 2 * nomem'
      BY <1>3, <1>4, <3>2, <3>3
    <3> QED BY <3>4 DEF b
  <2> QED BY <1>4, <2>2, <2>3, <2>6, <2>7 DEF OInv
<1>9. CASE r.fd = -1 /\ Leaks(files, r.tab, {})
  <2>1. IsFiniteSet({}) /\ Cardinality({}) <= 0
    BY FS_EmptySet
  <2> QED BY <1>8, <1>9, <2>1
<1>10. CASE oom /\ r.fd = -1 /\ \E x, y : Leaks(files, r.tab, {x, y})
  <2>1. PICK x, y : Leaks(files, r.tab, {x, y})
    BY <1>10
  <2>2. IsFiniteSet({x}) /\ Cardinality({x}) = 1
    BY FS_Singleton
  <2>3. {x} \cup {y} = {x, y}
    OBVIOUS
  <2>4. IsFiniteSet({x, y}) /\ Cardinality({x, y}) <= 2
    <3>1. IsFiniteSet({x} \cup {y})
          /\ Cardinality({x} \cup {y}) = IF y \in {x} THEN Cardinality({x}) ELSE Cardinality({x}) + 1
      BY <2>2, FS_AddElement
    <3> QED BY <2>2, <2>3, <3>1
  <2> QED BY <1>8, <1>10, <2>1, <2>4
<1> QED BY <1>5, <1>7, <1>9, <1>10

\* close()
LEMMA ClosedIs ==
    ASSUME NEW t, TabOK(t), NEW fd \in Roots(t)
    PROVE  /\ TabOK(Closed(t, fd))
           /\ Roots(Closed(t, fd)) = Roots(t) \ {fd}
           /\ \A f \in Fds : Closed(t, fd)[f].ops = "opening" => t[f].ops = "opening"
<1> DEFINE x == t[fd].raw
           u == Released(t, fd)
           y == u[x].raw
           v == Released(u, x)
           w == Released(v, y)
<1>0. fd \in Fds /\ t[fd].ops # "" /\ x # fd /\ -1 \notin Fds /\ x \in Fds \cup {-1}
  BY FdsNat DEF Roots, TabOK, FileRec
<1>1. /\ TabOK(u) /\ u[fd].ops = "" /\ (\A f \in Fds : f # fd => u[f] = t[f])
      /\ Roots(u) = (Roots(t) \ {fd}) \cup ({x} \ {-1})
  BY Dropped
<1>2. CASE x = -1
  <2>1. Closed(t, fd) = u
    BY <1>2 DEF Closed
  <2> HIDE DEF u, x
  <2>2. Roots(u) = Roots(t) \ {fd}
    BY <1>1, <1>2
  <2>3. \A f \in Fds : u[f].ops = "opening" => t[f].ops = "opening"
    BY <1>1
  <2> QED BY <1>1, <2>1, <2>2, <2>3
<1>3. CASE x # -1
  <2>1. x \in Fds /\ t[x].ops # ""
    <3>1. \A g \in Free(t) : t[fd].raw # g
      BY <1>0, FreeUnder
    <3> QED BY <1>0, <1>3, <3>1 DEF Free
  <2>2. x \in Roots(u) /\ x \notin Roots(t)
    BY <1>0, <1>1, <1>3 DEF Roots
  <2>3. Closed(t, fd) = CloseOne(v, y)
    BY <1>3, <2>1, Zenon DEF Closed, CloseTwo
  <2>4. /\ TabOK(v) /\ v[x].ops = "" /\ (\A f \in Fds : f # x => v[f] = u[f])
        /\ Roots(v) = (Roots(u) \ {x}) \cup ({y} \ {-1})
    <3> HIDE DEF u, x
    <3> QED BY <1>1, <2>2, Dropped
  <2> HIDE DEF u, x, v
  <2>5. Roots(u) \ {x} = Roots(t) \ {fd}
    BY <1>0, <1>1, <1>3, <2>2
  <2>6. \A f \in Fds : v[f].ops = "opening" => t[f].ops = "opening"
    BY <1>1, <2>4
  <2>7. y # x /\ y \in Fds \cup {-1}
    BY <1>1, <2>1, <2>2 DEF Roots, TabOK, FileRec
  <2>8. CASE y = -1
    <3>1. Closed(t, fd) = v
      BY <2>3, <2>8 DEF CloseOne
    <3> HIDE DEF y
    <3>2. Roots(v) = Roots(t) \ {fd}
      BY <2>4, <2>5, <2>8
    <3> QED BY <2>4, <2>6, <3>1, <3>2
  <2>9. CASE y # -1
    <3>1. y \in Fds /\ y \in Roots(v) /\ y \notin Roots(u)
      BY <1>1, <2>1, <2>2, <2>4, <2>7, <2>9 DEF Roots
    <3>2. v[y].ops # ""
      BY <3>1 DEF Roots
    <3>3. Closed(t, fd) = w
      BY <2>3, <2>9, <3>2, Zenon DEF CloseOne
    <3>4. v[y] = u[y]
      BY <2>4, <2>7, <3>1
    <3>5. u[x].ops # "" /\ u[x].raw = y
      BY <2>2 DEF Roots
    <3>6. u[y].ops \in {"disk", "split"}
      <4>1. u[x].ops \in {"opening", "disk", "split", "gzip", "bzip"}
        BY <1>1, <2>1, <3>5 DEF TabOK, FileRec
      <4> QED BY <1>1, <2>1, <2>9, <3>5, <4>1 DEF TabOK, LayersOK
    <3>7. u[x].ops = "split"
      <4>1. u[x] = t[x] /\ u[y] = t[y]
        BY <1>0, <1>1, <2>1, <3>1, <3>6
      <4>2. t[fd].ops \in {"opening", "disk", "split", "gzip", "bzip"} /\ t[fd].raw = x
        BY <1>0 DEF TabOK, FileRec, x
      <4>3. t[x].ops \in {"disk", "split"}
        BY <1>0, <1>3, <4>2 DEF TabOK, LayersOK
      <4>4. u[x].ops # "disk"
        BY <1>1, <2>1, <2>9, <3>5 DEF TabOK, LayersOK
      <4> QED BY <4>1, <4>3, <4>4
    <3>8. v[y].ops = "disk" /\ v[y].raw = -1
      BY <1>1, <2>1, <2>4, <2>9, <3>1, <3>4, <3>5, <3>7 DEF TabOK, LayersOK
    <3> HIDE DEF y
    <3>9. /\ TabOK(w) /\ w[y].ops = "" /\ (\A f \in Fds : f # y => w[f] = v[f])
          /\ Roots(w) = (Roots(v) \ {y}) \cup ({v[y].raw} \ {-1})
      BY <2>4, <3>1, Dropped
    <3> HIDE DEF w
    <3>10. Roots(w) = Roots(v) \ {y}
      BY <3>8, <3>9
    <3>11. Roots(w) = Roots(t) \ {fd}
      BY <2>4, <2>5, <2>9, <3>1, <3>10
    <3>12. \A f \in Fds : w[f].ops = "opening" => t[f].ops = "opening"
      BY <2>6, <3>9
    <3> QED BY <3>3, <3>9, <3>11, <3>12
  <2> QED BY <2>8, <2>9
<1> QED BY <1>2, <1>3

\* close() of a file a caller holds.
LEMMA CloseFileKeeps ==
    ASSUME OInv, NEW fd \in Fds, CloseFile(fd)
    PROVE  OInv'
<1>1. fd \in held /\ files' = Closed(files, fd) /\ held' = held \ {fd} /\ nomem' = nomem
  BY DEF CloseFile
<1>2. TabOK(files) /\ fd \in Roots(files)
  BY <1>1 DEF OInv
<1>3. /\ TabOK(files') /\ Roots(files') = Roots(files) \ {fd}
      /\ \A f \in Fds : files'[f].ops = "opening" => files[f].ops = "opening"
  BY <1>1, <1>2, ClosedIs
<1>4. Roots(files') \ held' = Roots(files) \ held
  BY <1>1, <1>3
<1> QED BY <1>1, <1>3, <1>4 DEF OInv

\* closeall()
LEMMA CloseAllKeeps ==
    ASSUME OInv, CloseAll
    PROVE  OInv'
<1>1. files' = [fd \in Fds |-> Unused] /\ held' = {} /\ nomem' = nomem /\ nomem \in Nat
  BY DEF CloseAll, OInv
<1>2. /\ TabOK(files') /\ Roots(files') = {}
      /\ \A f \in Fds : files'[f].ops # "opening"
      /\ Cardinality(Roots(files') \ {}) = 0
  BY <1>1, AllUnused
<1>3. Cardinality(Roots(files') \ held') <= 2 * nomem'
  <2>1. Cardinality(Roots(files') \ held') = 0
    BY <1>1, <1>2
  <2> QED BY <1>1, <2>1
<1> QED BY <1>1, <1>2, <1>3 DEF OInv

\* A split file is put on another slice, or on none.
LEMMA Detached ==
    ASSUME NEW t, TabOK(t), NEW fd \in Fds, t[fd].ops = "split", NEW v \in [Fds -> FileRec],
           v[fd].ops = "split", v[fd].raw = -1,
           \A f \in Fds : f # fd /\ f # t[fd].raw => v[f] = t[f],
           t[fd].raw # -1 => v[t[fd].raw] = Unused
    PROVE  TabOK(v) /\ Roots(v) = Roots(t)
<1> DEFINE s == t[fd].raw
<1>0. s \in Fds \cup {-1} /\ -1 \notin Fds /\ (s # -1 => t[s].ops = "disk" /\ t[s].raw = -1)
  BY FdsNat DEF TabOK, FileRec, LayersOK
<1>1. s # fd
  BY <1>0
<1>2. s # -1 => v[s] = Unused /\ v[s].ops = "" /\ v[s].raw = -1
  BY UnusedIs
<1> HIDE DEF s
<1>3. \A f \in Fds : f # fd /\ f # s => v[f] = t[f]
  BY DEF s
<1>4. \A g \in Fds : g # fd => v[g].raw = t[g].raw
  BY <1>0, <1>2, <1>3
<1>5. \A g \in Fds : g # fd /\ t[g].raw # -1 => t[g].raw # s
  BY DEF TabOK, Injective, s
<1>6. LayersOK(v)
  <2> SUFFICES ASSUME NEW f \in Fds, f # fd, f # s
               PROVE  /\ v[f].ops = "" => v[f] = Unused
                      /\ v[f].ops \in {"opening", "disk"} => v[f].raw = -1
                      /\ v[f].ops = "split" /\ v[f].raw # -1 => v[v[f].raw].ops = "disk"
                      /\ v[f].ops \in {"gzip", "bzip"} =>
                           v[f].raw # -1 /\ v[v[f].raw].ops \in {"disk", "split"}
    BY <1>0, <1>2 DEF LayersOK
  <2>1. v[f] = t[f]
    BY <1>3
  <2>2. t[f].raw # -1 => t[f].raw \in Fds /\ v[t[f].raw].ops = t[t[f].raw].ops
    BY <1>3, <1>5 DEF TabOK, FileRec
  <2> QED BY <2>1, <2>2 DEF TabOK, LayersOK
<1>7. Injective(v)
  BY <1>4 DEF TabOK, Injective
<1>8. \A f \in Fds : f \in Roots(v) <=> f \in Roots(t)
  <2> TAKE f \in Fds
  <2>1. CASE f = s
    BY <1>0, <1>2, <2>1 DEF Roots, s
  <2>2. CASE f # s
    <3>1. f # -1 /\ t[fd].raw # f
      BY <1>0, <2>2 DEF s
    <3>2. \A g \in Fds : v[g].raw = f <=> t[g].raw = f
      BY <1>4, <3>1
    <3>3. v[f].ops # "" <=> t[f].ops # ""
      BY <1>3, <2>2
    <3> QED BY <3>2, <3>3 DEF Roots
  <2> QED BY <2>1, <2>2
<1>9. Roots(v) = Roots(t)
  BY <1>8 DEF Roots
<1> QED BY <1>6, <1>7, <1>9 DEF TabOK

\* The split file gets the slice that was opened for it.
LEMMA Attached ==
    ASSUME NEW u, TabOK(u), NEW fd \in Fds, u[fd].ops = "split", u[fd].raw = -1,
           NEW h \in Roots(u), u[h].ops = "disk", NEW v \in [Fds -> FileRec],
           v[fd].ops = "split", v[fd].raw = h, \A f \in Fds : f # fd => v[f] = u[f]
    PROVE  TabOK(v) /\ Roots(v) = Roots(u) \ {h}
<1>0. h \in Fds /\ h # fd /\ h # -1 /\ -1 \notin Fds /\ \A g \in Fds : u[g].raw # h
  BY FdsNat DEF Roots
<1>1. \A f \in Fds : u[f].raw # -1 => u[f].raw \in Fds /\ v[u[f].raw].ops = u[u[f].raw].ops
  BY DEF TabOK, FileRec
<1>2. LayersOK(v)
  <2> SUFFICES ASSUME NEW f \in Fds
               PROVE  /\ v[f].ops = "" => v[f] = Unused
                      /\ v[f].ops \in {"opening", "disk"} => v[f].raw = -1
                      /\ v[f].ops = "split" /\ v[f].raw # -1 => v[v[f].raw].ops = "disk"
                      /\ v[f].ops \in {"gzip", "bzip"} =>
                           v[f].raw # -1 /\ v[v[f].raw].ops \in {"disk", "split"}
    BY DEF LayersOK
  <2>1. CASE f = fd
    BY <1>0, <2>1
  <2>2. CASE f # fd
    BY <1>1, <2>2 DEF TabOK, LayersOK
  <2> QED BY <2>1, <2>2
<1>3. Injective(v)
  BY <1>0 DEF TabOK, Injective
<1>4. \A f \in Fds : f \in Roots(v) <=> f \in Roots(u) /\ f # h
  <2> TAKE f \in Fds
  <2>1. f # -1
    BY <1>0
  <2>2. \A g \in Fds : v[g].raw = f <=> u[g].raw = f \/ (g = fd /\ f = h)
    BY <2>1
  <2>3. v[f].ops # "" <=> u[f].ops # ""
    OBVIOUS
  <2> QED BY <2>2, <2>3 DEF Roots
<1>5. Roots(v) = Roots(u) \ {h}
  BY <1>4, ZenonT(40) DEF Roots
<1> QED BY <1>2, <1>3, <1>5 DEF TabOK

\* splitfs_read() and splitfs_seek() change the slice.
LEMMA ChangeSliceKeeps ==
    ASSUME OInv, NEW fd \in Fds, ChangeSlice(fd)
    PROVE  OInv'
<1> DEFINE s == files[fd].raw
           c == CloseOne(files, s)
           t == [c EXCEPT ![fd].raw = -1]
           h == Handle(c)
<1>0. /\ TabOK(files) /\ files[fd].ops = "split" /\ files \in [Fds -> FileRec]
      /\ s \in Fds \cup {-1} /\ -1 \notin Fds
      /\ (\A f \in Fds : files[f].ops # "opening")
  BY FdsNat DEF OInv, ChangeSlice, TabOK, FileRec
<1>1. s # -1 => files[s].ops = "disk" /\ s # fd
  BY <1>0 DEF TabOK, LayersOK
<1>2. /\ c \in [Fds -> FileRec] /\ c[fd] = files[fd]
      /\ (\A f \in Fds : f # s => c[f] = files[f])
      /\ (s # -1 => c[s] = Unused)
  BY <1>0, <1>1, UnusedIs DEF CloseOne, Released
<1>3. PICK r : /\ r = OpenPlain(c, Currdev, Slice)
               /\ files' = [r.tab EXCEPT ![fd].raw = r.fd]
  BY DEF ChangeSlice
<1>4. held' = held /\ nomem' = nomem
  BY DEF ChangeSlice
<1> HIDE DEF c
<1>5. /\ t \in [Fds -> FileRec] /\ t[fd].ops = "split" /\ t[fd].raw = -1
      /\ \A f \in Fds : f # fd => t[f] = c[f]
  BY <1>0, <1>2 DEF FileRec
<1>6. TabOK(t) /\ Roots(t) = Roots(files)
  <2>1. \A f \in Fds : f # fd /\ f # files[fd].raw => t[f] = files[f]
    BY <1>2, <1>5
  <2>2. files[fd].raw # -1 => t[files[fd].raw] = Unused
    BY <1>0, <1>1, <1>2, <1>5
  <2> HIDE DEF t
  <2> QED BY <1>0, <1>5, <2>1, <2>2, Detached
<1>7. \A f \in Fds : t[f].ops # "opening"
  <2>1. s # -1 => t[s].ops = ""
    BY <1>0, <1>1, <1>2, <1>5, UnusedIs
  <2> QED BY <1>0, <1>2, <1>5, <2>1
<1>8. ASSUME TabOK(files'), Roots(files') = Roots(files), \A f \in Fds : files'[f].ops # "opening"
      PROVE  OInv'
  BY <1>4, <1>8 DEF OInv
<1>9. CASE ~(h # -1 /\ [dev |-> Currdev, name |-> Slice] \in exists)
  <2>1. r = Result(c, -1, FALSE)
    BY <1>3, <1>9, Zenon DEF OpenPlain
  <2>2. r.tab = c /\ r.fd = -1
    BY <2>1 DEF Result
  <2>3. files' = t
    BY <1>3, <2>2
  <2> QED BY <1>6, <1>7, <1>8, <2>3
<1>10. CASE h # -1 /\ [dev |-> Currdev, name |-> Slice] \in exists
  <2> DEFINE u == Using(t, h, "disk", Currdev, Slice, -1)
             w == Using(c, h, "disk", Currdev, Slice, -1)
  <2>1. r = Result(w, h, FALSE)
    BY <1>3, <1>10, Zenon DEF OpenPlain
  <2>2. h \in Free(c) /\ h \in Fds /\ h # fd
    BY <1>0, <1>2, <1>10, HandleFree DEF Free
  <2>3. h \in Free(t)
    BY <1>5, <2>2 DEF Free
  <2>4. files' = [w EXCEPT ![fd].raw = h]
    <3> HIDE DEF w, h
    <3>1. r.tab = w /\ r.fd = h
      BY <2>1 DEF Result
    <3> QED BY <1>3, <3>1
  <2>5. Currdev \in Devices /\ Slice \in Seq(Suffix)
    BY OpenAssumption, NamesAre
  <2> HIDE DEF h, t
  <2>6. w \in [Fds -> FileRec] /\ u \in [Fds -> FileRec] /\ u[h] = w[h]
        /\ (\A f \in Fds : f # h => u[f] = t[f] /\ w[f] = c[f])
    BY <1>2, <1>5, <2>2, <2>5 DEF Using, FileRec
  <2>7. u[h].ops = "disk" /\ u[h].raw = -1
    BY <1>5, <2>2 DEF Using
  <2> HIDE DEF u, w
  <2>8. Ext(t, u, {h})
    BY <1>6, <2>3, <2>6, <2>7, Taken DEF Gains
  <2>9. /\ files' \in [Fds -> FileRec] /\ files'[fd].ops = "split" /\ files'[fd].raw = h
        /\ (\A f \in Fds : f # fd => files'[f] = w[f])
    <3>1. w[fd].ops = "split" /\ w[fd] \in FileRec /\ h \in Fds \cup {-1}
      BY <1>0, <1>2, <2>2, <2>6
    <3>2. files'[fd] = [w[fd] EXCEPT !.raw = h] /\ DOMAIN files' = Fds
      BY <2>4, <2>6
    <3>3. files'[fd] \in FileRec /\ files'[fd].ops = "split" /\ files'[fd].raw = h
      BY <3>1, <3>2 DEF FileRec
    <3>4. \A f \in Fds : f # fd => files'[f] = w[f]
      BY <2>4, <2>6
    <3>5. files' = [f \in Fds |-> files'[f]]
      BY <2>4, <2>6
    <3> QED BY <2>6, <3>3, <3>4, <3>5
  <2>10. \A f \in Fds : f # fd => files'[f] = u[f]
    BY <1>5, <2>6, <2>9
  <2>11. u[fd].ops = "split" /\ u[fd].raw = -1
    BY <1>5, <2>2, <2>6
  <2>12. TabOK(u) /\ h \in Roots(u) /\ Roots(u) = Roots(t) \cup {h} /\ h \notin Roots(t)
    BY <2>3, <2>8 DEF Ext, Free, Roots
  <2>13. TabOK(files') /\ Roots(files') = Roots(u) \ {h}
    BY <2>7, <2>9, <2>10, <2>11, <2>12, Attached
  <2>14. Roots(files') = Roots(files)
    BY <1>6, <2>12, <2>13
  <2>15. \A f \in Fds : files'[f].ops # "opening"
    BY <1>7, <2>6, <2>7, <2>9, <2>10
  <2> QED BY <1>8, <2>13, <2>14, <2>15
<1> QED BY <1>9, <1>10

\* Every step keeps the invariant.
LEMMA OInvNext == OInv /\ [OpenNext]_openVars => OInv'
<1> SUFFICES ASSUME OInv, [OpenNext]_openVars PROVE OInv'
  OBVIOUS
<1>1. ASSUME NEW d \in Devices, NEW oom \in BOOLEAN, OpenFile(d, oom) PROVE OInv'
  BY <1>1, OpenFileKeeps
<1>2. ASSUME NEW fd \in Fds, CloseFile(fd) PROVE OInv'
  BY <1>2, CloseFileKeeps
<1>3. ASSUME NEW fd \in Fds, ChangeSlice(fd) PROVE OInv'
  BY <1>3, ChangeSliceKeeps
<1>4. CASE CloseAll
  BY <1>4, CloseAllKeeps
<1>5. CASE UNCHANGED openVars
  BY <1>5 DEF openVars, OInv
<1> QED BY <1>1, <1>2, <1>3, <1>4, <1>5 DEF OpenNext

\* The invariant says that descriptors are right.
LEMMA OInvRight == OInv => DescriptorsRight
<1> SUFFICES ASSUME OInv PROVE DescriptorsRight
  OBVIOUS
<1>0. TabOK(files) /\ held \subseteq Roots(files) /\ Used \subseteq Fds /\ -1 \notin Fds
  BY FdsNat DEF OInv, Used
<1>1. \A f \in Fds : files[f].ops = "" => files[f].raw = -1
  BY <1>0, UnusedIs DEF TabOK, LayersOK
<1>2. \A f \in Fds : f \in Used <=> files[f].ops # ""
  BY DEF Used, Free
<1>3. \A f \in Fds : f \in Below <=> \E g \in Fds : files[g].raw = f
  BY <1>0, <1>1, <1>2 DEF Below
<1>4. Below \subseteq Fds
  <2>1. \A g \in Used : files[g].raw \in Fds \cup {-1}
    BY <1>0 DEF TabOK, FileRec
  <2> QED BY <2>1 DEF Below
<1>5. Used \ (held \cup Below) = Roots(files) \ held
  BY <1>0, <1>2, <1>3 DEF Roots
<1>6. NoLeak
  BY <1>5 DEF NoLeak, OInv
<1>7. Below \subseteq Used \ held
  <2> SUFFICES ASSUME NEW f \in Below PROVE f \in Used \ held
    OBVIOUS
  <2>1. f \in Fds /\ f \notin held
    BY <1>0, <1>3, <1>4 DEF Roots
  <2>2. f \notin Free(files)
    BY <1>0, <1>3, <2>1, FreeUnder
  <2> QED BY <2>1, <2>2 DEF Used
<1>8. OwnedOnce
  BY <1>0, <1>7 DEF OwnedOnce, TabOK, Injective
<1>9. HeldOpen
  <2> SUFFICES ASSUME NEW f \in held PROVE files[f].ops \in {"disk", "split", "gzip", "bzip"}
    BY DEF HeldOpen
  <2>1. f \in Fds /\ files[f].ops # "" /\ files[f].ops # "opening"
    BY <1>0 DEF Roots, OInv
  <2> QED BY <1>0, <2>1 DEF TabOK, FileRec
<1> QED BY <1>6, <1>8, <1>9 DEF DescriptorsRight

\* Whatever is opened, closed and fails, in whatever order: no descriptor is
\* lost but to malloc() (two for each failure at most), none is shared, and
\* what open() has given to its callers can be read.
THEOREM DescriptorsCorrect == OpenSpec => []DescriptorsRight
<1> QED BY OInvInit, OInvNext, OInvRight, PTL DEF OpenSpec
=============================================================================
