----------------------------- MODULE MCAccounts -----------------------------
(* Instances of Accounts for TLC. *)
EXTENDS Accounts, TLC

(* Ids, browsers and threads are interchangeable. *)
Alike == Permutations(Ids) \cup Permutations(Browsers) \cup Permutations(Threads)
=============================================================================
