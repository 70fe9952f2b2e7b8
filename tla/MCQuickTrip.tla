---------------------------- MODULE MCQuickTrip ----------------------------
(* Small instances of QuickTrip for TLC. *)
EXTENDS QuickTrip, TLC

NoLegacy  == {None}
OneLegacy == {None, {}} \cup {{t} : t \in Trips}

WithAndWithoutLosses == {{"lost answer", "leaves flush"}, AllTroubles \ {"overlap"}}

=============================================================================
