---------------------------- MODULE MCSyncQueue ----------------------------
(* Instances of SyncQueue for TLC. *)
EXTENDS SyncQueue, TLC

(* Entries and users are interchangeable. *)
Alike == Permutations(Entries) \cup Permutations(Users)
=============================================================================
