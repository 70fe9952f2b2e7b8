------------------------------ MODULE MCCache ------------------------------
(* Small instances of Cache for TLC. *)
EXTENDS Cache, TLC

CONSTANTS
  Asked,     \* bound: the pages that are asked for in this run
  Saves      \* bound: the writes of this run, by what they are about

Symmetry == Permutations(Vehicles) \cup Permutations(Workers)

Bounded ==
  \A t \in Threads :
    /\ task'[t].asked \in Asked \cup {None}
    /\ task'[t].about # {} => task'[t].about \cap Saves # {}
=============================================================================
