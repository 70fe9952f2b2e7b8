----------------------------- MODULE MCReading -----------------------------
(* Small instances of Reading for TLC: lists and reports, one after the other. *)
EXTENDS Reading, TLC

CONSTANTS v1, v2

VARIABLE mix   \* what the reader does in this behaviour, "lists" or "reports"

MCDates    == {On(2024, 2, 28), On(2024, 2, 29), On(2024, 3, 1)}
MCFirstDay == On(2024, 2, 29)
MCLastDay  == On(2024, 3, 1)
MCReadings == {<<None, None>>, <<1, 2>>, <<2, 3>>}

MCTexts ==
  [kind : {"month"}, year : {2024}, part : {3, 13}]
    \cup [kind : {"quarter"}, year : {2024}, part : {1}]
    \cup [kind : {"quarter"}, year : {9999}, part : {4}]

(* Rows come in the order of their ids.  Lists: rows of one vehicle, four  *)
(* at most, so that one can be added between the pages of a list of three. *)
(* Reports: three rows of two vehicles at most, those of the second alike. *)
(* Nothing is followed that is seen to be disturbed, and nobody writes     *)
(* while a reader looks at a finished report.                              *)
InMix ==
  /\ \A i, j \in Ids : i < j /\ rows'[j] # None => rows'[i] # None
  /\ mix = "lists" =>
       /\ \A id \in Ids : rows'[id] \in Row => rows'[id].vehicle = v1 /\ rows'[id].odo = <<None, None>>
       /\ ask' # None => ask'.what = "list" /\ ask'.vehicle = None
                           /\ {ask'.od, ask'.upto} \subseteq {None, On(2024, 2, 29)}
       /\ vehicles' = vehicles
  /\ mix = "reports" =>
       /\ \A id \in Ids : rows'[id] \in Row =>
            /\ rows'[id].date # On(2024, 2, 28)
            /\ rows'[id].vehicle = v2 => rows'[id].date = MCFirstDay /\ rows'[id].odo = <<1, 2>>
       /\ ask' # None => ask'.what # "list"
       /\ today' = today
       /\ \A id \in Ids : id > 3 => rows'[id] = None
  /\ pc \in {"reported", "printed", "failed"} => table' = table

Undisturbed == calm # "disturbed"

MCInit ==
  /\ rows = [id \in Ids |-> None]
  /\ Init
  /\ mix \in {"lists", "reports"}

MCNext == Next /\ UNCHANGED mix
MCSpec == MCInit /\ [][MCNext]_<<vars, mix>>
=============================================================================
