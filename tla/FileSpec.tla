------------------------------ MODULE FileSpec ------------------------------
(***************************************************************************)
(* What read() and lseek() of libstand promise about one open file,        *)
(* whatever lies under it: a position, and bytes that come from it.  Byte  *)
(* k of the file is written k.  A call may fail; where the position is     *)
(* after a failure is not promised.  It may even be lost, if a file that   *)
(* is made of another one no longer knows where in that one it is: then    *)
(* nothing is promised until a call has found a position again.            *)
(***************************************************************************)
EXTENDS Integers, Sequences

CONSTANT Size       \* bytes of the file, a natural number

VARIABLES pos,      \* position of the next byte, -1 while no file is open
          res       \* what the last call returned

\* The k bytes from position p on.
Bytes(p, k) == [i \in 1 .. k |-> p + i - 1]
NoRes == [op |-> "none", ret |-> 0, data |-> <<>>]
\* The position of a file that has lost it.
Lost == -2

Init == pos = -1 /\ res = NoRes

Open  == pos = -1 /\ pos' = 0 /\ res' = NoRes
Close == pos # -1 /\ pos' = -1 /\ res' = NoRes

\* A call has begun.
Call == pos \in Nat /\ res' = NoRes /\ UNCHANGED pos

\* A read gives the bytes from the position on; none only at the end.
Read ==
    /\ pos \in Nat
    /\ \E k \in 0 .. Size :
        /\ IF k = 0 THEN pos >= Size ELSE pos + k <= Size
        /\ res' = [op |-> "read", ret |-> k, data |-> Bytes(pos, k)]
        /\ pos' = pos + k

\* A seek returns the position it has moved to.
Seek ==
    /\ pos \in Nat
    /\ pos' \in Nat
    /\ res' = [op |-> "lseek", ret |-> pos', data |-> <<>>]

\* Only a failure loses the position.
Fail ==
    /\ pos \in Nat
    /\ pos' \in Nat \cup {Lost}
    /\ \E op \in {"read", "lseek"} : res' = [op |-> op, ret |-> -1, data |-> <<>>]

\* Calls of a file that has lost its position, and one that finds it again.
Astray == pos = Lost /\ pos' = Lost
Regain == pos = Lost /\ pos' \in Nat /\ res' = NoRes

Next == Open \/ Close \/ Call \/ Read \/ Seek \/ Fail \/ Astray \/ Regain
Spec == Init /\ [][Next]_<<pos, res>>
=============================================================================
