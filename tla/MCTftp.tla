------------------------------- MODULE MCTftp -------------------------------
(* Instances of Tftp for TLC. *)
EXTENDS Tftp

\* A file of a block and a half, one of half a block, and a missing one.
Names == {"a", "b", "c"}
Sizes == [f \in Names |-> CASE f = "a" -> 3 [] f = "b" -> 1 [] f = "c" -> -1]
=============================================================================
