------------------------------ MODULE Periods ------------------------------
(***************************************************************************)
(* The periods the program selects entries by: a month or a quarter of the *)
(* report, the filters "this month" and "last month" of the lists, and the *)
(* arithmetic on dates they are made of.  A date is compared as its text   *)
(* YYYY-MM-DD is: by year, then month, then day.                           *)
(***************************************************************************)
EXTENDS Integers

CONSTANT Unread   \* a number in the text of a period that int() refuses

Year == 1..9999

Leap(y) == y % 4 = 0 /\ (y % 100 # 0 \/ y % 400 = 0)

DaysIn(y, m) ==
  IF m = 2 THEN (IF Leap(y) THEN 29 ELSE 28)
           ELSE IF m \in {4, 6, 9, 11} THEN 30 ELSE 31

Date == {x \in [year : Year, month : 1..12, day : 1..31] : x.day <= DaysIn(x.year, x.month)}

ASSUME UnreadAssumption == Unread \notin Int /\ Unread \notin Date

On(y, m, d) == [year |-> y, month |-> m, day |-> d]

(* a <= b, for dates and for their texts *)
NotAfter(a, b) ==
  \/ a.year < b.year
  \/ a.year = b.year /\ a.month < b.month
  \/ a.year = b.year /\ a.month = b.month /\ a.day <= b.day

(* x - timedelta(days=1) and x + timedelta(days=1) *)
DayBefore(x) ==
  IF x.day > 1 THEN On(x.year, x.month, x.day - 1)
  ELSE IF x.month > 1 THEN On(x.year, x.month - 1, DaysIn(x.year, x.month - 1))
       ELSE On(x.year - 1, 12, 31)

DayAfter(x) ==
  IF x.day < DaysIn(x.year, x.month) THEN On(x.year, x.month, x.day + 1)
  ELSE IF x.month < 12 THEN On(x.year, x.month + 1, 1)
       ELSE On(x.year + 1, 1, 1)

-----------------------------------------------------------------------------
(* date BETWEEN first AND last *)
Span == [first : Date, last : Date]

Covers(p, x) == NotAfter(p.first, x) /\ NotAfter(x, p.last)

(* The last day is the day before the first of the month that follows. *)
MonthPeriod(y, m) ==
  [first |-> On(y, m, 1),
   last  |-> DayBefore(IF m = 12 THEN On(y + 1, 1, 1) ELSE On(y, m + 1, 1))]

QuarterOf(m) == (m - 1) \div 3 + 1

QuarterPeriod(y, q) ==
  LET start == (q - 1) * 3 + 1
  IN  [first |-> On(y, start, 1),
       last  |-> DayBefore(IF q = 4 THEN On(y + 1, 1, 1) ELSE On(y, start + 3, 1))]

(* okres=ten ends today, okres=poprzedni is the whole month before. *)
ThisMonth(today) == [first |-> [today EXCEPT !.day = 1], last |-> today]

LastMonth(today) ==
  LET last == DayBefore([today EXCEPT !.day = 1])
  IN  [first |-> [last EXCEPT !.day = 1], last |-> last]

-----------------------------------------------------------------------------
(* The period a report is asked for: its text, as far as it can be read.   *)
Text == [kind : {"month", "quarter"}, year : Int \cup {Unread}, part : Int \cup {Unread}]

(* date() has its arguments, and the first day after the period is a date too *)
Representable(y, part, parts) == y \in Year /\ part \in 1..parts /\ ~(y = 9999 /\ part = parts)

CurrentMonth(today)   == MonthPeriod(today.year, today.month)
CurrentQuarter(today) == QuarterPeriod(today.year, QuarterOf(today.month))

Failed == [first |-> Unread, last |-> Unread]   \* ValueError, nobody catches it

(* /raport: only int() is tried, date() is not *)
ReportPeriod(t, today) ==
  IF Unread \in {t.year, t.part} \/ t.kind = "quarter" THEN CurrentMonth(today)
  ELSE IF Representable(t.year, t.part, 12) THEN MonthPeriod(t.year, t.part) ELSE Failed

(* /report/print: a quarter that is none means the current one, and a month *)
(* that is none the current month; a year out of range is caught only for   *)
(* months.                                                                  *)
PrintPeriod(t, today) ==
  IF t.kind = "month"
    THEN IF Unread \notin {t.year, t.part} /\ Representable(t.year, t.part, 12)
           THEN MonthPeriod(t.year, t.part) ELSE CurrentMonth(today)
    ELSE IF Unread \in {t.year, t.part} \/ t.part \notin 1..4 THEN CurrentQuarter(today)
         ELSE IF Representable(t.year, t.part, 4) THEN QuarterPeriod(t.year, t.part)
              ELSE Failed
=============================================================================
