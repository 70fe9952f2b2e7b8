----------------------------- MODULE MCConnPool -----------------------------
(* Small instances of ConnPool for TLC. *)
EXTENDS ConnPool, TLC

Symmetry == Permutations(Threads) \cup Permutations(Conns)

(* The bound on Conns is none: a fresh connection is always there.         *)
Enough == \E c \in Conns : Unused(c)
=============================================================================
