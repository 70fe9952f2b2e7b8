------------------------------ MODULE Reading ------------------------------
(***************************************************************************)
(* The pages that read the logbook while others write to it: the lists     *)
(* with their filters and their pages, the monthly report and the printed  *)
(* log of a vehicle.  A page is made from several SELECT statements, each  *)
(* a step that sees what is committed when it runs (READ COMMITTED); the   *)
(* writes of other requests, and midnight, come in between.                *)
(*                                                                         *)
(* One reader is modelled: readers change nothing.  The sums of fuel and   *)
(* maintenance, which the report reads the same way from tables of their   *)
(* own, are left out.                                                      *)
(***************************************************************************)
EXTENDS Periods, FiniteSetsExt

CONSTANTS
  Ids,        \* created_at of the rows, numbers in the order of creation
  Vehicles,
  Dates,      \* bound: rows and filters are dated on these days
  Readings,   \* bound: pairs odo_start, odo_end of a row
  Texts,      \* bound: periods that are asked for
  MaxPage,    \* bound: page numbers typed into the URL
  FirstDay, LastDay,   \* bound: the days on which pages are read
  PageSize,   \* page_size of paginate, 50 in the code
  None,       \* no row, no filter, no reading
  Gone        \* a row that was soft-deleted or purged: no statement selects it

Row == [vehicle : Vehicles, date : Dates, odo : Readings]

Listing == [what : {"list"}, vehicle : Vehicles \cup {None}, okres : {"ten", "poprzedni", ""},
            od : Dates \cup {None}, upto : Dates \cup {None}]
Report  == [what : {"report"}, vehicle : Vehicles \cup {None}, text : Texts]
Log     == [what : {"print"}, vehicle : Vehicles, text : Texts]
Ask     == Listing \cup Report \cup Log

ASSUME ReadingAssumption ==
  /\ PageSize \in Nat \ {0}
  /\ Ids \in SUBSET Nat /\ IsFiniteSet(Ids) /\ IsFiniteSet(Vehicles)
  /\ Dates \subseteq Date /\ FirstDay \in Date /\ LastDay \in Date
  /\ FirstDay.year > 1 /\ NotAfter(FirstDay, LastDay)
  /\ Texts \subseteq Text /\ MaxPage \in Nat
  /\ Readings \subseteq (Nat \cup {None}) \X (Nat \cup {None})
  /\ \A r \in Readings : None \in {r[1], r[2]} \/ r[1] <= r[2]   \* schema.sql:39
  /\ None \notin Vehicles \cup Dates \cup Nat
  /\ {None, Gone} \cap (Row \cup Ask) = {}

VARIABLES
  rows,       \* rows[id]: the row created at id, None before and Gone after it was there
  vehicles,   \* the vehicles that have not been deleted
  today,
  pc,         \* the statement the reader's request makes next
  ask,        \* the request the reader made
  span,       \* the dates it selects
  page, entries, total, summary, carry,   \* what its statements returned
  calm,       \* what happened since to the rows it selects
  walk        \* the rows of a walk from the first page by the links "next"

table == <<rows, vehicles, today>>
reply == <<page, entries, total, summary, carry>>
vars  == <<table, pc, ask, span, reply, calm, walk>>

Answered == {"shown", "reported", "printed", "failed"}
Running  == {"window", "count", "again", "entries", "total", "summary", "vehicle", "log", "carry"}

-----------------------------------------------------------------------------
(* What a statement selects. *)

Active(id) == rows[id] \notin {None, Gone}

Of(v) == {id \in Ids : Active(id) /\ (v = None \/ rows[id].vehicle = v)}

(* deleted_at IS NULL AND vehicle_id = %s AND date BETWEEN %s AND %s *)
Selected(v, p) == {id \in Of(v) : Covers(p, rows[id].date)}

(* date < %s *)
Earlier(v, p) == {id \in Of(v) : ~NotAfter(p.first, rows[id].date)}

(* ORDER BY date DESC, created_at DESC: i comes before j *)
Above(i, j) ==
  \/ rows[i].date # rows[j].date /\ NotAfter(rows[j].date, rows[i].date)
  \/ rows[i].date = rows[j].date /\ i > j

(* slip: the page starts one row too late *)
Window_OffByOne(S, p) ==
  {j \in S : Cardinality({i \in S : Above(i, j)}) \in (p - 1) * PageSize + 1 .. p * PageSize}

(* LIMIT PageSize OFFSET (p - 1) * PageSize *)
Window(S, p) ==
  {j \in S : Cardinality({i \in S : Above(i, j)}) \in (p - 1) * PageSize .. p * PageSize - 1}

(* slip: rounded down *)
Pages_Floor(n) == IF n < PageSize THEN 1 ELSE n \div PageSize

Pages(n) == IF n = 0 THEN 1 ELSE (n + PageSize - 1) \div PageSize

Km(id) == IF None \in {rows[id].odo[1], rows[id].odo[2]} THEN 0
                                                         ELSE rows[id].odo[2] - rows[id].odo[1]

KmOf(S) == MapThenSumSet(Km, S)

(* COALESCE(odo_end, odo_start) *)
LastReading(id) == IF rows[id].odo[2] = None THEN rows[id].odo[1] ELSE rows[id].odo[2]

HighestReading(S) == LET R == {LastReading(id) : id \in S} \ {None}
                     IN  IF R = {} THEN 0 ELSE Max(R)

-----------------------------------------------------------------------------
(* build_date_where, on the day the request is served *)
Always == [first |-> On(1, 1, 1), last |-> On(9999, 12, 31)]

(* slip: a range keeps only one of its two ends *)
ListSpan_OneEnd(a) ==
  CASE a.okres = "ten"       -> ThisMonth(today)
    [] a.okres = "poprzedni" -> LastMonth(today)
    [] OTHER -> [Always EXCEPT !.first = IF a.od = None THEN @ ELSE a.od]

ListSpan(a) ==
  CASE a.okres = "ten"       -> ThisMonth(today)
    [] a.okres = "poprzedni" -> LastMonth(today)
    [] OTHER -> [first |-> IF a.od = None THEN Always.first ELSE a.od,
                 last  |-> IF a.upto = None THEN Always.last ELSE a.upto]

(* The rows an answer is made from, to see what others do to them. *)
Observed ==
  LET p == IF ask.what = "print" THEN [span EXCEPT !.first = Always.first] ELSE span
  IN  IF ask = None \/ span = Failed THEN {}
      ELSE {<<id, rows[id]>> : id \in Selected(ask.vehicle, p)}

(* calm: "still", then "grew" once rows came, "disturbed" once one changed or went. *)
Watch ==
  calm' = IF Observed' = Observed THEN calm
          ELSE IF Observed \subseteq Observed' /\ calm # "disturbed" THEN "grew" ELSE "disturbed"

NoWalk == [on |-> FALSE, base |-> {}, seen |-> {}]

-----------------------------------------------------------------------------
(* Writes of others. *)

Quiet == UNCHANGED <<pc, ask, span, reply, walk>>

Record ==
  \E id \in Ids, v \in vehicles, x \in Dates, o \in Readings :
    /\ rows[id] = None
    /\ rows' = [rows EXCEPT ![id] = [vehicle |-> v, date |-> x, odo |-> o]]
    /\ Quiet /\ UNCHANGED <<vehicles, today>> /\ Watch

Remove ==
  \E id \in Ids :
    /\ Active(id)
    /\ rows' = [rows EXCEPT ![id] = Gone]
    /\ Quiet /\ UNCHANGED <<vehicles, today>> /\ Watch

(* the edit of a fuel or maintenance entry; trips have none *)
Revise ==
  \E id \in Ids, v \in vehicles, x \in Dates :
    /\ Active(id)
    /\ rows' = [rows EXCEPT ![id].vehicle = v, ![id].date = x]
    /\ Quiet /\ UNCHANGED <<vehicles, today>> /\ Watch

RemoveVehicle ==
  \E v \in vehicles :
    /\ vehicles' = vehicles \ {v}
    /\ rows' = [id \in Ids |-> IF id \in Of(v) THEN Gone ELSE rows[id]]
    /\ Quiet /\ UNCHANGED today /\ Watch

Midnight ==
  /\ today # LastDay
  /\ today' = DayAfter(today)
  /\ Quiet /\ UNCHANGED <<rows, vehicles, calm>>

-----------------------------------------------------------------------------
(* A list: one statement, or three when its page has no rows. *)

Blank ==
  /\ entries' = {} /\ total' = 0 /\ carry' = 0
  /\ summary' = [v \in Vehicles |-> [count |-> 0, km |-> 0]]

(* slip: page 0 is taken for a page *)
PageAsked_Zero(p) == p

(* parse_positive_int, default 1 *)
PageAsked(p) == IF p > 0 THEN p ELSE 1

(* from a link, a filter form, or a URL with any page number; also the link *)
(* to the page before                                                       *)
OpenList ==
  /\ pc = "idle"
  /\ \E a \in Listing, p \in 0..MaxPage :
       /\ a.okres # "" => a.od = None /\ a.upto = None
       /\ ask' = a
       /\ span' = ListSpan(a)
       /\ page' = PageAsked(p)
       /\ walk' = [NoWalk EXCEPT !.on = (page' = 1)]
  /\ pc' = "window"
  /\ Blank
  /\ UNCHANGED <<table, calm>>

(* The page is left. *)
Leave ==
  /\ pc \in Answered
  /\ pc' = "idle" /\ ask' = None /\ span' = Failed
  /\ page' = 1 /\ Blank
  /\ calm' = "still" /\ walk' = NoWalk
  /\ UNCHANGED table

(* The link is there when the page has rows and is not the last. *)
FollowNext ==
  /\ pc = "shown"
  /\ entries # {} /\ page < Pages(total)
  /\ pc' = "window"
  /\ page' = page + 1
  /\ span' = ListSpan(ask)
  /\ Blank
  /\ UNCHANGED <<table, ask, walk>>
  /\ Watch

(* rows, and the count of all that match, from one statement *)
Show(S, n) ==
  /\ entries' = Window(S, page)
  /\ total' = n
  /\ pc' = "shown"
  /\ walk' = IF ~walk.on THEN walk
             ELSE [walk EXCEPT !.base = IF pc = "window" /\ page = 1 THEN S ELSE @,
                               !.seen = @ \cup entries']
  /\ UNCHANGED <<table, ask, span, page, summary, carry, calm>>

ReadPage ==
  /\ pc = "window"
  /\ LET S == Selected(ask.vehicle, span)
     IN  \/ Window(S, page) # {} /\ Show(S, Cardinality(S))
         \/ /\ Window(S, page) = {}
            /\ pc' = "count"
            /\ UNCHANGED <<table, ask, span, reply, calm, walk>>

(* slip: the page is not brought back into the range *)
CountRows_NoClamp ==
  /\ pc = "count"
  /\ total' = Cardinality(Selected(ask.vehicle, span))
  /\ pc' = "again"
  /\ UNCHANGED <<table, ask, span, page, entries, summary, carry, calm, walk>>

CountRows ==
  /\ pc = "count"
  /\ total' = Cardinality(Selected(ask.vehicle, span))
  /\ page' = IF page > Pages(total') THEN Pages(total') ELSE page
  /\ pc' = "again"
  /\ UNCHANGED <<table, ask, span, entries, summary, carry, calm, walk>>

ReadPageAgain ==
  /\ pc = "again"
  /\ Show(Selected(ask.vehicle, span), total)

-----------------------------------------------------------------------------
(* The monthly report of all vehicles or of one. *)

OpenReport ==
  /\ pc = "idle"
  /\ \E a \in Report :
       /\ ask' = a
       /\ span' = ReportPeriod(a.text, today)
  /\ pc' = IF span' = Failed THEN "failed" ELSE "entries"
  /\ page' = 1 /\ Blank
  /\ UNCHANGED <<table, calm, walk>>

ReadEntries ==
  /\ pc = "entries"
  /\ entries' = Selected(ask.vehicle, span)
  /\ pc' = "total"
  /\ UNCHANGED <<table, ask, span, page, total, summary, carry, calm, walk>>

(* slip: the sum forgets the vehicle *)
ReadTotal_AllVehicles ==
  /\ pc = "total"
  /\ total' = KmOf(Selected(None, span))
  /\ pc' = "summary"
  /\ UNCHANGED <<table, ask, span, page, entries, summary, carry, calm, walk>>

ReadTotal ==
  /\ pc = "total"
  /\ total' = KmOf(Selected(ask.vehicle, span))
  /\ pc' = "summary"
  /\ UNCHANGED <<table, ask, span, page, entries, summary, carry, calm, walk>>

(* LEFT JOIN, GROUP BY v.id *)
ReadSummary ==
  /\ pc = "summary"
  /\ summary' = [v \in Vehicles |->
                   LET S == IF ask.vehicle \in {None, v} THEN Selected(v, span) ELSE {}
                   IN  [count |-> Cardinality(S), km |-> KmOf(S)]]
  /\ pc' = "reported"
  /\ UNCHANGED <<table, ask, span, page, entries, total, carry, calm, walk>>

-----------------------------------------------------------------------------
(* The printed log of one vehicle for a month or a quarter. *)

OpenPrint ==
  /\ pc = "idle"
  /\ \E a \in Log : ask' = a
  /\ span' = Failed
  /\ pc' = "vehicle"
  /\ page' = 1 /\ Blank
  /\ UNCHANGED <<table, calm, walk>>

(* 404 without the vehicle *)
ReadVehicle ==
  /\ pc = "vehicle"
  /\ span' = IF ask.vehicle \in vehicles THEN PrintPeriod(ask.text, today) ELSE Failed
  /\ pc' = IF span' = Failed THEN "failed" ELSE "log"
  /\ UNCHANGED <<table, ask, reply, calm, walk>>

ReadLog ==
  /\ pc = "log"
  /\ entries' = Selected(ask.vehicle, span)
  /\ total' = KmOf(entries')
  /\ pc' = "carry"
  /\ UNCHANGED <<table, ask, span, page, summary, carry, calm, walk>>

(* slip: the first day of the period counts as earlier *)
ReadCarry_FirstDay ==
  /\ pc = "carry"
  /\ carry' = HighestReading({id \in Of(ask.vehicle) : NotAfter(rows[id].date, span.first)})
  /\ pc' = "printed"
  /\ UNCHANGED <<table, ask, span, page, entries, total, summary, calm, walk>>

ReadCarry ==
  /\ pc = "carry"
  /\ carry' = HighestReading(Earlier(ask.vehicle, span))
  /\ pc' = "printed"
  /\ UNCHANGED <<table, ask, span, page, entries, total, summary, calm, walk>>

-----------------------------------------------------------------------------
Init ==
  /\ rows \in [Ids -> Row \cup {None, Gone}]
  /\ vehicles = Vehicles
  /\ today = FirstDay
  /\ pc = "idle" /\ ask = None /\ span = Failed
  /\ page = 1 /\ entries = {} /\ total = 0 /\ carry = 0
  /\ summary = [v \in Vehicles |-> [count |-> 0, km |-> 0]]
  /\ calm = "still" /\ walk = NoWalk

Others == Record \/ Remove \/ Revise \/ RemoveVehicle \/ Midnight

Reader ==
  \/ OpenList \/ Leave \/ FollowNext \/ ReadPage \/ CountRows \/ ReadPageAgain
  \/ OpenReport \/ ReadEntries \/ ReadTotal \/ ReadSummary
  \/ OpenPrint \/ ReadVehicle \/ ReadLog \/ ReadCarry

Next == Others \/ Reader

Spec == Init /\ [][Next]_vars
-----------------------------------------------------------------------------
(* Every variable but the sums has its type; a request under way has a     *)
(* period, and one that failed has none.                                   *)
TypeOK ==
  /\ rows \in [Ids -> Row \cup {None, Gone}]
  /\ vehicles \in SUBSET Vehicles
  /\ today \in Date
  /\ pc \in {"idle"} \cup Answered \cup Running
  /\ ask \in Ask \cup {None}
  /\ span \in Span \cup {Failed}
  /\ page \in Nat \ {0}
  /\ entries \in SUBSET Ids
  /\ calm \in {"still", "grew", "disturbed"}
  /\ walk \in [on : BOOLEAN, base : SUBSET Ids, seen : SUBSET Ids]
  /\ pc \notin {"idle", "vehicle", "failed"} => span \in Span

(* Whoever opens a list on its first page and follows "next" to the last   *)
(* has seen every row the first query selected, although each page is a    *)
(* query of its own with an OFFSET, and rows are added, the day ends and   *)
(* other rows change meanwhile; unless one of the rows the filter selects  *)
(* was removed or moved, or fell out of the month.                         *)
NothingSkipped ==
  pc = "shown" /\ walk.on /\ calm # "disturbed" /\ (entries = {} \/ page = Pages(total))
    => walk.base \subseteq walk.seen

(* "No entries" is shown, whatever page was asked for, only when none      *)
(* matched, or a row went between the count and the query after it; and    *)
(* the page number shown is one of the pages.                              *)
PageFilled ==
  pc = "shown" /\ calm # "disturbed" =>
    /\ total > 0 => entries # {} /\ page <= Pages(total)
    /\ calm = "still" => total = Cardinality(Selected(ask.vehicle, span))

(* A list and a report show every row of the period asked for, and none of *)
(* another: of the month in the text, if it is one, of the days from od to *)
(* upto.                                                                   *)
PeriodShown ==
  LET AMonth   == ask.what # "list" /\ ask.text.kind = "month"
                    /\ Representable(ask.text.year, ask.text.part, 12)
      Asked(id) ==
        LET x == rows[id].date
        IN  /\ AMonth => x.year = ask.text.year /\ x.month = ask.text.part
            /\ ask.what = "list" /\ ask.okres = "" =>
                 /\ ask.od # None => NotAfter(ask.od, x)
                 /\ ask.upto # None => NotAfter(x, ask.upto)
  IN  calm = "still" /\ pc \in {"shown", "reported", "printed"} =>
        /\ \A id \in entries : Asked(id)
        /\ AMonth => \A id \in Of(ask.vehicle) : Asked(id) => id \in entries

(* The figures of a report agree with the trips it lists, though they come *)
(* from three statements: exactly when nothing was written in between; and *)
(* when trips were only added, none that is listed is missing from the     *)
(* sums.                                                                   *)
FiguresAgree ==
  LET kms   == SumFunction([v \in Vehicles |-> summary[v].km])
      count == SumFunction([v \in Vehicles |-> summary[v].count])
  IN  pc = "reported" =>
        /\ calm = "still" =>
             total = KmOf(entries) /\ kms = total /\ count = Cardinality(entries)
        /\ calm = "grew" =>
             KmOf(entries) <= total /\ total <= kms /\ Cardinality(entries) <= count

(* i, then j with none between, in a log *)
Adjacent(i, j, S) == Above(j, i) /\ ~\E k \in S : Above(k, i) /\ Above(j, k)

(* In an unbroken log, where each trip starts at the reading the one       *)
(* before it ended at, the total at the foot of a printed period, carried  *)
(* over plus driven, is the last reading of the period: it is what the     *)
(* next period carries over.                                               *)
BalanceCarriesOver ==
  pc = "printed" /\ calm = "still" =>
    LET S == {id \in Of(ask.vehicle) : NotAfter(rows[id].date, span.last)}
    IN  /\ \A id \in S : None \notin {rows[id].odo[1], rows[id].odo[2]}
        /\ \A i, j \in S : Adjacent(i, j, S) => rows[i].odo[2] = rows[j].odo[1]
        /\ \E id \in S : ~NotAfter(span.first, rows[id].date)
        => carry + total = HighestReading(S)
=============================================================================
