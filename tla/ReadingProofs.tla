--------------------------- MODULE ReadingProofs ---------------------------
(***************************************************************************)
(* What the periods of Periods select, for every date and every year; that *)
(* the pages of Reading show the rows of the period asked for, that a walk *)
(* along them misses none, and that the figures of a report and of a       *)
(* printed log agree with their rows, whatever is written while they are   *)
(* read.                                                                   *)
(***************************************************************************)
EXTENDS Reading, FiniteSetTheorems, TLAPS

(* A month has between 28 and 31 days. *)
LEMMA DaysInRange ==
  ASSUME NEW y \in Int, NEW m \in 1..12
  PROVE  DaysIn(y, m) \in 28..31
  BY DEF DaysIn

(* A year is an integer. *)
LEMMA YearIsInt == \A y \in Year : y \in Int
  BY DEF Year

(* A date has its three numbers. *)
LEMMA DateFields ==
  ASSUME NEW x \in Date
  PROVE  /\ x.year \in Year /\ x.month \in 1..12 /\ x.day \in 1..31
         /\ x.year \in Int /\ x.month \in Int /\ x.day \in Int /\ x.day >= 1
         /\ x.day <= DaysIn(x.year, x.month)
         /\ DaysIn(x.year, x.month) \in 28..31
PROOF
  <1>1. x.year \in Year /\ x.month \in 1..12 /\ x.day \in 1..31
        /\ x.day <= DaysIn(x.year, x.month)
    BY DEF Date
  <1>2. x.year \in Int
    BY <1>1, YearIsInt
  <1>3. QED
    BY <1>1, <1>2, DaysInRange

(* The day before the first of a month is the last of the one before it. *)
LEMMA FirstDayBefore ==
  ASSUME NEW y \in Int, NEW m \in 1..12
  PROVE  DayBefore(IF m = 12 THEN On(y + 1, 1, 1) ELSE On(y, m + 1, 1)) = On(y, m, DaysIn(y, m))
PROOF
  <1>1. CASE m = 12
    <2>1. DaysIn(y, m) = 31
      BY <1>1 DEF DaysIn
    <2>2. DayBefore(On(y + 1, 1, 1)) = On(y, 12, 31)
      BY DEF DayBefore, On
    <2>3. QED
      BY <1>1, <2>1, <2>2
  <1>2. CASE m # 12
    <2>1. m + 1 > 1 /\ m + 1 - 1 = m
      OBVIOUS
    <2>2. DayBefore(On(y, m + 1, 1)) = On(y, m, DaysIn(y, m))
      BY <2>1 DEF DayBefore, On
    <2>3. QED
      BY <1>2, <2>2
  <1>3. QED
    BY <1>1, <1>2

(* Dates between the first and the last of two months of a year are the    *)
(* dates of these months and of those between them.                        *)
LEMMA Between ==
  ASSUME NEW y \in Year, NEW m \in 1..12, NEW n \in 1..12, NEW x \in Date,
         NEW p, p.first = On(y, m, 1), p.last = On(y, n, DaysIn(y, n))
  PROVE  Covers(p, x) <=> x.year = y /\ m <= x.month /\ x.month <= n
PROOF
  <1>1. p.first.year = y /\ p.first.month = m /\ p.first.day = 1
    BY DEF On
  <1>2. p.last.year = y /\ p.last.month = n /\ p.last.day = DaysIn(y, n)
    BY DEF On
  <1>3. /\ x.year \in Int /\ x.month \in Int /\ x.day \in Int /\ x.day >= 1
        /\ x.day <= DaysIn(x.year, x.month)
    BY DateFields
  <1>4. y \in Int
    BY YearIsInt
  <1>5. DaysIn(y, n) \in 28..31
    BY <1>4, DaysInRange
  <1>6. NotAfter(p.first, x) <=> (y < x.year \/ (y = x.year /\ m <= x.month))
    BY <1>1, <1>3, <1>4 DEF NotAfter
  <1>7. NotAfter(x, p.last) <=> (x.year < y \/ (x.year = y /\ x.month <= n))
    BY <1>2, <1>3, <1>4, <1>5 DEF NotAfter
  <1>8. Covers(p, x) <=> NotAfter(p.first, x) /\ NotAfter(x, p.last)
    BY DEF Covers
  <1>9. QED
    BY <1>3, <1>4, <1>6, <1>7, <1>8

(* The month of a report covers the dates of that month and no others: the *)
(* day before the first of the next month is its last day, in December and *)
(* in February of a leap year too.                                         *)
THEOREM MonthExact ==
  ASSUME NEW y \in Year, NEW m \in 1..12, NEW x \in Date
  PROVE  Covers(MonthPeriod(y, m), x) <=> x.year = y /\ x.month = m
PROOF
  <1>1. y \in Int
    BY DEF Year
  <1>2. MonthPeriod(y, m).first = On(y, m, 1)
    BY DEF MonthPeriod
  <1>3. MonthPeriod(y, m).last = On(y, m, DaysIn(y, m))
    BY <1>1, FirstDayBefore DEF MonthPeriod
  <1>4. Covers(MonthPeriod(y, m), x) <=> x.year = y /\ m <= x.month /\ x.month <= m
    BY <1>2, <1>3, Between
  <1>5. x.month \in Int
    BY DateFields
  <1>6. QED
    BY <1>4, <1>5

(* The quarter of a report covers the dates whose month belongs to it. *)
THEOREM QuarterExact ==
  ASSUME NEW y \in Year, NEW q \in 1..4, NEW x \in Date
  PROVE  Covers(QuarterPeriod(y, q), x) <=> x.year = y /\ QuarterOf(x.month) = q
PROOF
  <1> DEFINE start == (q - 1) * 3 + 1
  <1>1. y \in Int
    BY DEF Year
  <1>2. start \in 1..12 /\ start + 2 \in 1..12 /\ (start + 2 = 12 <=> q = 4)
        /\ start + 2 + 1 = start + 3
    OBVIOUS
  <1>3. QuarterPeriod(y, q).first = On(y, start, 1)
    BY DEF QuarterPeriod
  <1>4. QuarterPeriod(y, q).last =
          DayBefore(IF q = 4 THEN On(y + 1, 1, 1) ELSE On(y, start + 3, 1))
    BY DEF QuarterPeriod
  <1> HIDE DEF start
  <1>5. DayBefore(IF start + 2 = 12 THEN On(y + 1, 1, 1) ELSE On(y, start + 2 + 1, 1))
          = On(y, start + 2, DaysIn(y, start + 2))
    BY <1>1, <1>2, FirstDayBefore
  <1>6. QuarterPeriod(y, q).last = On(y, start + 2, DaysIn(y, start + 2))
    BY <1>2, <1>4, <1>5
  <1>7. Covers(QuarterPeriod(y, q), x) <=> x.year = y /\ start <= x.month /\ x.month <= start + 2
    BY <1>2, <1>3, <1>6, Between
  <1>8. x.month \in 1..12
    BY DateFields
  <1>9. (start <= x.month /\ x.month <= start + 2) <=> QuarterOf(x.month) = q
    BY <1>8 DEF QuarterOf, start
  <1>10. QED
    BY <1>7, <1>9

(* okres=poprzedni covers the dates of the month before today's, which is  *)
(* December of the year before in January.                                 *)
THEOREM LastMonthExact ==
  ASSUME NEW now \in Date, NEW x \in Date, now.year > 1
  PROVE  Covers(LastMonth(now), x) <=>
           IF now.month = 1 THEN x.year = now.year - 1 /\ x.month = 12
                            ELSE x.year = now.year /\ x.month = now.month - 1
PROOF
  <1> DEFINE first == [now EXCEPT !.day = 1]
             y == IF now.month = 1 THEN now.year - 1 ELSE now.year
             m == IF now.month = 1 THEN 12 ELSE now.month - 1
             last == DayBefore(first)
  <1>1. now.year \in Year /\ now.month \in 1..12
    BY DateFields
  <1>2. first.year = now.year /\ first.month = now.month /\ first.day = 1
    BY DEF Date
  <1>3. y \in Year /\ m \in 1..12
    BY <1>1 DEF Year
  <1>4. last = On(y, m, DaysIn(y, m))
    <2>1. CASE now.month = 1
      <3>1. DaysIn(y, m) = 31 /\ y = now.year - 1 /\ m = 12
        BY <2>1 DEF DaysIn
      <3>2. last = On(now.year - 1, 12, 31)
        BY <1>2, <2>1 DEF DayBefore
      <3>3. QED
        BY <3>1, <3>2
    <2>2. CASE now.month # 1
      <3>1. now.month > 1
        BY <1>1, <2>2
      <3>2. last = On(now.year, now.month - 1, DaysIn(now.year, now.month - 1))
        BY <1>2, <3>1 DEF DayBefore
      <3>3. QED
        BY <2>2, <3>2
    <2>3. QED
      BY <2>1, <2>2
  <1>5. LastMonth(now).last = last /\ LastMonth(now).first = [last EXCEPT !.day = 1]
    BY DEF LastMonth
  <1> HIDE DEF y, m, last
  <1>6. [last EXCEPT !.day = 1] = On(y, m, 1)
    BY <1>4 DEF On
  <1>7. Covers(LastMonth(now), x) <=> x.year = y /\ m <= x.month /\ x.month <= m
    BY <1>3, <1>4, <1>5, <1>6, Between
  <1>8. x.month \in 1..12
    BY DateFields
  <1>9. QED
    BY <1>3, <1>7, <1>8 DEF y, m

(* okres=ten covers the dates of today's month up to today. *)
THEOREM ThisMonthExact ==
  ASSUME NEW now \in Date, NEW x \in Date
  PROVE  Covers(ThisMonth(now), x) <=>
           x.year = now.year /\ x.month = now.month /\ x.day <= now.day
PROOF
  <1>1. /\ now.year \in Int /\ now.month \in Int /\ now.day \in Int /\ now.day >= 1
        /\ x.year \in Int /\ x.month \in Int /\ x.day \in Int /\ x.day >= 1
    BY DateFields
  <1>2. ThisMonth(now).last = now
    BY DEF ThisMonth
  <1>3. /\ ThisMonth(now).first.year = now.year
        /\ ThisMonth(now).first.month = now.month
        /\ ThisMonth(now).first.day = 1
    BY DEF ThisMonth, Date
  <1>4. QED
    BY <1>1, <1>2, <1>3 DEF Covers, NotAfter

-----------------------------------------------------------------------------
(* Periods have dates for their ends. *)

LEMMA DateMade ==
  ASSUME NEW y \in Year, NEW m \in 1..12, NEW d \in 1..31, d <= DaysIn(y, m)
  PROVE  On(y, m, d) \in Date
  BY DEF On, Date

LEMMA MonthSpan ==
  ASSUME NEW y \in Year, NEW m \in 1..12
  PROVE  MonthPeriod(y, m) \in Span
<1>1. y \in Int /\ DaysIn(y, m) \in 28..31
  BY YearIsInt, DaysInRange
<1>2. MonthPeriod(y, m) = [first |-> On(y, m, 1), last |-> On(y, m, DaysIn(y, m))]
  BY <1>1, FirstDayBefore DEF MonthPeriod
<1>3. On(y, m, 1) \in Date /\ On(y, m, DaysIn(y, m)) \in Date
  BY <1>1, DateMade
<1>4. QED
  BY <1>2, <1>3 DEF Span

LEMMA QuarterSpan ==
  ASSUME NEW y \in Year, NEW q \in 1..4
  PROVE  QuarterPeriod(y, q) \in Span
<1> DEFINE s == (q - 1) * 3 + 1
           e == s + 2
<1>1. y \in Int
  BY YearIsInt
<1>2. s \in 1..12 /\ e \in 1..12 /\ (e = 12 <=> q = 4) /\ e + 1 = s + 3
  OBVIOUS
<1>3. QuarterPeriod(y, q) =
        [first |-> On(y, s, 1), last |-> DayBefore(IF e = 12 THEN On(y + 1, 1, 1) ELSE On(y, e + 1, 1))]
  BY <1>2 DEF QuarterPeriod
<1> HIDE DEF s, e
<1>4. QuarterPeriod(y, q) = [first |-> On(y, s, 1), last |-> On(y, e, DaysIn(y, e))]
  BY <1>1, <1>2, <1>3, FirstDayBefore
<1>5. DaysIn(y, s) \in 28..31 /\ DaysIn(y, e) \in 28..31
  BY <1>1, <1>2, DaysInRange
<1>6. On(y, s, 1) \in Date /\ On(y, e, DaysIn(y, e)) \in Date
  BY <1>2, <1>5, DateMade
<1>7. QED
  BY <1>4, <1>6 DEF Span

LEMMA ThisMonthSpan ==
  ASSUME NEW x \in Date
  PROVE  ThisMonth(x) \in Span
<1>1. [x EXCEPT !.day = 1] \in Date
  BY DateFields DEF Date
<1>2. QED
  BY <1>1 DEF ThisMonth, Span

LEMMA LastMonthSpan ==
  ASSUME NEW x \in Date, x.year > 1
  PROVE  LastMonth(x) \in Span
<1> DEFINE f == [x EXCEPT !.day = 1]
<1>1. f.year = x.year /\ f.month = x.month /\ f.day = 1
  BY DEF Date
<1>2. x.year \in Year /\ x.month \in 1..12
  BY DateFields
<1> HIDE DEF f
<1>3. DayBefore(f) \in Date
  <2>1. CASE x.month = 1
    <3>1. DayBefore(f) = On(x.year - 1, 12, 31) /\ x.year - 1 \in Year
      BY <1>1, <1>2, <2>1 DEF DayBefore, Year
    <3>2. DaysIn(x.year - 1, 12) = 31
      BY DEF DaysIn
    <3>3. QED
      BY <3>1, <3>2, DateMade
  <2>2. CASE x.month # 1
    <3>1. x.month > 1 /\ x.month - 1 \in 1..12 /\ x.year \in Int
      BY <1>2, <2>2, YearIsInt
    <3>2. DayBefore(f) = On(x.year, x.month - 1, DaysIn(x.year, x.month - 1))
      BY <1>1, <3>1 DEF DayBefore
    <3>3. DaysIn(x.year, x.month - 1) \in 28..31
      BY <3>1, DaysInRange
    <3>4. QED
      BY <1>2, <3>1, <3>2, <3>3, DateMade
  <2>3. QED
    BY <2>1, <2>2
<1>4. ASSUME NEW d \in Date
      PROVE  [d EXCEPT !.day = 1] \in Date
  BY DateFields DEF Date
<1>5. QED
  BY <1>3, <1>4 DEF LastMonth, Span, f

LEMMA ListSpanTyped ==
  ASSUME today \in Date, today.year > 1, NEW a \in Listing
  PROVE  ListSpan(a) \in Span
<1>1. On(1, 1, 1) \in Date /\ On(9999, 12, 31) \in Date
  <2>1. 1 \in Year /\ 9999 \in Year
    BY DEF Year
  <2>2. DaysIn(1, 1) = 31 /\ DaysIn(9999, 12) = 31
    BY DEF DaysIn
  <2>3. QED
    BY <2>1, <2>2, DateMade
<1>2. a.od \in Date \cup {None} /\ a.upto \in Date \cup {None}
  BY ReadingAssumption DEF Listing
<1>3. QED
  BY <1>1, <1>2, ThisMonthSpan, LastMonthSpan DEF ListSpan, Always, Span

LEMMA CurrentSpans ==
  ASSUME NEW x \in Date
  PROVE  CurrentMonth(x) \in Span /\ CurrentQuarter(x) \in Span
<1>1. x.year \in Year /\ x.month \in 1..12
  BY DateFields
<1>2. QuarterOf(x.month) \in 1..4
  BY <1>1 DEF QuarterOf
<1>3. QED
  BY <1>1, <1>2, MonthSpan, QuarterSpan DEF CurrentMonth, CurrentQuarter

LEMMA ReportSpans ==
  ASSUME NEW x \in Date, NEW t \in Text
  PROVE  /\ ReportPeriod(t, x) \in Span \cup {Failed}
         /\ PrintPeriod(t, x) \in Span \cup {Failed}
         /\ t.kind = "month" /\ Representable(t.year, t.part, 12) =>
              /\ ReportPeriod(t, x) = MonthPeriod(t.year, t.part)
              /\ PrintPeriod(t, x) = MonthPeriod(t.year, t.part)
<1>1. Representable(t.year, t.part, 12) =>
        MonthPeriod(t.year, t.part) \in Span /\ Unread \notin {t.year, t.part}
  <2>1. Unread \notin Year /\ Unread \notin 1..12
    <3>1. \A n \in 1..12 : n \in Int
      OBVIOUS
    <3>2. QED
      BY <3>1, UnreadAssumption, YearIsInt
  <2>2. QED
    BY <2>1, MonthSpan DEF Representable
<1>2. Representable(t.year, t.part, 4) => QuarterPeriod(t.year, t.part) \in Span
  BY QuarterSpan DEF Representable
<1>3. QED
  BY <1>1, <1>2, CurrentSpans DEF ReportPeriod, PrintPeriod, Text

(* The day after one before the last is a date no later than the last. *)
LEMMA NextDay ==
  ASSUME NEW x \in Date, NEW l \in Date, NotAfter(x, l), x # l
  PROVE  DayAfter(x) \in Date /\ NotAfter(DayAfter(x), l) /\ DayAfter(x).year >= x.year
<1>1. /\ x.year \in Int /\ x.month \in 1..12 /\ x.day \in 1..31
      /\ x.day <= DaysIn(x.year, x.month) /\ DaysIn(x.year, x.month) \in 28..31
  BY DateFields
<1>2. /\ l.year \in Int /\ l.month \in 1..12 /\ l.day \in 1..31
      /\ l.day <= DaysIn(l.year, l.month)
  BY DateFields
<1>3. x.year \in Year /\ l.year \in Year
  BY DateFields
<1>4. x.year # l.year \/ x.month # l.month \/ x.day # l.day
  BY DEF Date
<1>5. /\ x.year <= l.year
      /\ x.year = l.year => x.month <= l.month
      /\ x.year = l.year /\ x.month = l.month => x.day < l.day
  BY <1>1, <1>2, <1>4 DEF NotAfter
<1>6. CASE x.day < DaysIn(x.year, x.month)
  <2>1. DayAfter(x) = On(x.year, x.month, x.day + 1)
    BY <1>6 DEF DayAfter
  <2>2. x.day + 1 \in 1..31 /\ x.day + 1 <= DaysIn(x.year, x.month)
    BY <1>1, <1>6
  <2>3. DayAfter(x) \in Date
    BY <1>1, <1>3, <2>1, <2>2, DateMade
  <2>4. DayAfter(x).year = x.year /\ DayAfter(x).month = x.month /\ DayAfter(x).day = x.day + 1
    BY <2>1 DEF On
  <2>5. NotAfter(DayAfter(x), l)
    BY <1>1, <1>2, <1>5, <2>4 DEF NotAfter
  <2>6. QED
    BY <1>1, <2>3, <2>4, <2>5
<1>7. CASE ~(x.day < DaysIn(x.year, x.month)) /\ x.month < 12
  <2>1. DayAfter(x) = On(x.year, x.month + 1, 1)
    BY <1>7 DEF DayAfter
  <2>2. x.month + 1 \in 1..12
    BY <1>1, <1>7
  <2>3. DaysIn(x.year, x.month + 1) \in 28..31
    BY <1>1, <2>2, DaysInRange
  <2>4. DayAfter(x) \in Date
    BY <1>3, <2>1, <2>2, <2>3, DateMade
  <2>5. DayAfter(x).year = x.year /\ DayAfter(x).month = x.month + 1 /\ DayAfter(x).day = 1
    BY <2>1 DEF On
  <2>6. x.year # l.year \/ x.month # l.month
    <3>1. SUFFICES ASSUME x.year = l.year, x.month = l.month
                   PROVE  FALSE
      OBVIOUS
    <3>2. x.day >= DaysIn(l.year, l.month)
      BY <1>1, <1>7, <3>1
    <3>3. QED
      BY <1>1, <1>2, <1>5, <3>1, <3>2
  <2>7. NotAfter(DayAfter(x), l)
    BY <1>1, <1>2, <1>5, <2>5, <2>6 DEF NotAfter
  <2>8. QED
    BY <1>1, <2>4, <2>5, <2>7
<1>8. CASE ~(x.day < DaysIn(x.year, x.month)) /\ ~(x.month < 12)
  <2>1. DayAfter(x) = On(x.year + 1, 1, 1)
    BY <1>8 DEF DayAfter
  <2>2. x.month = 12 /\ DaysIn(x.year, x.month) = 31
    <3>1. x.month = 12
      BY <1>1, <1>8
    <3>2. QED
      BY <3>1 DEF DaysIn
  <2>3. x.day = 31
    BY <1>1, <1>8, <2>2
  <2>4. x.year < l.year
    BY <1>1, <1>2, <1>5, <2>2, <2>3
  <2>5. x.year + 1 \in Year
    <3>1. \A y \in Year : 1 <= y /\ y <= 9999
      BY DEF Year
    <3>2. 1 <= x.year /\ l.year <= 9999
      BY <1>3, <3>1
    <3>3. 1 <= x.year + 1 /\ x.year + 1 <= 9999
      BY <1>1, <1>2, <2>4, <3>2
    <3>4. \A n \in Int : 1 <= n /\ n <= 9999 => n \in Year
      BY DEF Year
    <3>5. x.year + 1 \in Int
      BY <1>1
    <3>6. QED
      BY <3>3, <3>4, <3>5
  <2>6. DaysIn(x.year + 1, 1) = 31
    BY DEF DaysIn
  <2>7. DayAfter(x) \in Date
    BY <2>1, <2>5, <2>6, DateMade
  <2>8. DayAfter(x).year = x.year + 1 /\ DayAfter(x).month = 1 /\ DayAfter(x).day = 1
    BY <2>1 DEF On
  <2>9. NotAfter(DayAfter(x), l)
    BY <1>1, <1>2, <2>4, <2>8 DEF NotAfter
  <2>10. QED
    BY <1>1, <2>7, <2>8, <2>9
<1>9. QED
  BY <1>6, <1>7, <1>8

(* The last page has a number. *)
LEMMA PagesPositive ==
  ASSUME NEW n \in Nat
  PROVE  Pages(n) \in Nat \ {0}
<1>1. CASE n = 0
  BY <1>1 DEF Pages
<1>2. CASE n # 0
  <2>1. PageSize \in Nat /\ PageSize > 0 /\ n + PageSize - 1 >= PageSize
    BY <1>2, ReadingAssumption
  <2>2. ASSUME NEW P \in Nat, P > 0, NEW a \in Nat, a >= P
        PROVE  a \div P \in Nat \ {0}
    BY <2>2
  <2>3. QED
    BY <1>2, <2>1, <2>2 DEF Pages
<1>3. QED
  BY <1>1, <1>2

-----------------------------------------------------------------------------
(* The inductive invariant: the request is the one its step belongs to,    *)
(* the period is the one it asked for, and as long as nothing happened to  *)
(* the rows of that period, what is shown are these rows.                  *)
ListSteps   == {"window", "count", "again", "shown"}
ReportSteps == {"entries", "total", "summary", "reported"}
PrintSteps  == {"log", "carry", "printed"}

Served ==
  /\ pc \in ListSteps => ask \in Listing
  /\ pc \in ReportSteps => ask \in Report
  /\ pc \in PrintSteps \cup {"vehicle"} => ask \in Log

Chosen(a) == [first |-> IF a.od = None THEN Always.first ELSE a.od,
             last  |-> IF a.upto = None THEN Always.last ELSE a.upto]

MonthAsked == ask.text.kind = "month" /\ Representable(ask.text.year, ask.text.part, 12)

PeriodAsked ==
  /\ pc \in ListSteps /\ ask.okres = "" => span = Chosen(ask)
  /\ pc \in ReportSteps \cup PrintSteps /\ MonthAsked =>
       span = MonthPeriod(ask.text.year, ask.text.part)

RowsShown ==
  calm = "still" =>
    /\ pc = "shown" => entries \subseteq Selected(ask.vehicle, span)
    /\ pc \in {"total", "summary", "reported", "carry", "printed"} =>
         entries = Selected(ask.vehicle, span)

Inv ==
  /\ TypeOK
  /\ today.year > 1 /\ NotAfter(today, LastDay)
  /\ Served /\ PeriodAsked /\ RowsShown

-----------------------------------------------------------------------------
(* What Selected selects, of any table. *)
Sel(R, v, p) ==
  {id \in Ids : /\ R[id] \notin {None, Gone}
                /\ v = None \/ R[id].vehicle = v
                /\ Covers(p, R[id].date)}

LEMMA SelectedIs ==
  /\ \A v, p : Selected(v, p) = Sel(rows, v, p)
  /\ Selected(ask.vehicle, span)' = Sel(rows', ask'.vehicle, span')
  BY DEF Selected, Sel, Of, Active

(* Of rows that are the same in two tables, the same are selected. *)
LEMMA SameSelection ==
  ASSUME NEW R, NEW T, R \in [Ids -> Row \cup {None, Gone}], NEW v, NEW p, NEW q,
         \A x \in Date : Covers(p, x) => Covers(q, x),
         {<<id, R[id]>> : id \in Sel(R, v, q)} \subseteq {<<id, T[id]>> : id \in Sel(T, v, q)}
  PROVE  Sel(R, v, p) \subseteq Sel(T, v, p)
<1> SUFFICES ASSUME NEW id \in Sel(R, v, p)
             PROVE  id \in Sel(T, v, p)
  OBVIOUS
<1>1. id \in Ids /\ R[id] \in Row /\ R[id].date \in Date
  BY ReadingAssumption DEF Sel, Row
<1>2. id \in Sel(R, v, q)
  BY <1>1 DEF Sel
<1>3. T[id] = R[id]
  <2>1. <<id, R[id]>> \in {<<i, T[i]>> : i \in Sel(T, v, q)}
    BY <1>2
  <2>2. PICK i \in Sel(T, v, q) : <<id, R[id]>> = <<i, T[i]>>
    BY <2>1
  <2>3. QED
    BY <2>2
<1>4. QED
  BY <1>3 DEF Sel

(* While calm is still the rows an answer is made from are what they were. *)
LEMMA StillSelects ==
  ASSUME TypeOK, TypeOK', UNCHANGED <<ask, span>>, Watch, calm' = "still", ask \in Ask, span \in Span
  PROVE  calm = "still" /\ Selected(ask.vehicle, span)' = Selected(ask.vehicle, span)
<1> DEFINE q == IF ask.what = "print" THEN [span EXCEPT !.first = Always.first] ELSE span
           v == ask.vehicle
<1>1. Observed' = Observed /\ calm = "still"
  BY DEF Watch, TypeOK
<1>2. ask # None /\ span # Failed
  <2>1. span.first \in Date
    BY DEF Span
  <2>2. span # Failed
    BY <2>1, UnreadAssumption DEF Failed
  <2>3. ask # None
    BY ReadingAssumption
  <2>4. QED
    BY <2>2, <2>3
<1>3. Observed = {<<id, rows[id]>> : id \in Sel(rows, v, q)}
  BY <1>2, SelectedIs DEF Observed
<1>4. Observed' = {<<id, rows'[id]>> : id \in Sel(rows', v, q)}
  BY <1>2 DEF Observed, Selected, Sel, Of, Active
<1>5. ASSUME NEW x \in Date, Covers(span, x)
      PROVE  Covers(q, x)
  <2>1. CASE ask.what = "print"
    <3>1. q.first = On(1, 1, 1) /\ q.last = span.last
      BY <2>1 DEF Always, Span
    <3>2. NotAfter(On(1, 1, 1), x)
      <4>1. x.year \in Int /\ x.month \in 1..12 /\ x.day \in 1..31
        BY DateFields
      <4>2. x.year >= 1
        <5>1. \A y \in Year : y >= 1
          BY DEF Year
        <5>2. QED
          BY <5>1, DateFields
      <4>3. QED
        BY <4>1, <4>2 DEF NotAfter, On
    <3>3. QED
      BY <1>5, <3>1, <3>2 DEF Covers
  <2>2. CASE ask.what # "print"
    BY <1>5, <2>2
  <2>3. QED
    BY <2>1, <2>2
<1> HIDE DEF q
<1>6. rows \in [Ids -> Row \cup {None, Gone}] /\ rows' \in [Ids -> Row \cup {None, Gone}]
  BY DEF TypeOK
<1>7. Sel(rows, v, span) = Sel(rows', v, span)
  <2>1. Sel(rows, v, span) \subseteq Sel(rows', v, span)
    BY <1>1, <1>3, <1>4, <1>5, <1>6, SameSelection
  <2>2. Sel(rows', v, span) \subseteq Sel(rows, v, span)
    BY <1>1, <1>3, <1>4, <1>5, <1>6, SameSelection
  <2>3. QED
    BY <2>1, <2>2
<1>8. QED
  BY <1>1, <1>7, SelectedIs

-----------------------------------------------------------------------------
LEMMA InitInv == Init => Inv
<1> SUFFICES ASSUME Init PROVE Inv
  OBVIOUS
<1>1. TypeOK
  BY ReadingAssumption DEF Init, TypeOK, NoWalk
<1>2. Served /\ PeriodAsked /\ RowsShown
  BY DEF Init, Served, PeriodAsked, RowsShown, ListSteps, ReportSteps, PrintSteps
<1>3. QED
  BY <1>1, <1>2, ReadingAssumption DEF Init, Inv

(* A write of another request leaves the reader's request as it is. *)
LEMMA WriteInv ==
  ASSUME Inv, rows' \in [Ids -> Row \cup {None, Gone}], vehicles' \in SUBSET Vehicles,
         today' = today, Quiet, Watch
  PROVE  Inv'
<1>1. TypeOK'
  BY DEF Inv, TypeOK, Quiet, reply, Watch
<1>2. Served' /\ PeriodAsked'
  BY DEF Inv, Served, PeriodAsked, Quiet, Chosen, MonthAsked
<1>3. ASSUME calm' = "still", NEW step \in {"shown", "total", "summary", "reported", "carry", "printed"},
             pc = step
      PROVE  calm = "still" /\ Selected(ask.vehicle, span)' = Selected(ask.vehicle, span)
  <2>1. ask \in Ask
    BY <1>3 DEF Inv, Served, Ask, ListSteps, ReportSteps, PrintSteps
  <2>2. span \in Span
    BY <1>3 DEF Inv, TypeOK
  <2>3. QED
    BY <1>1, <1>3, <2>1, <2>2, StillSelects DEF Inv, Quiet
<1>4. RowsShown'
  BY <1>3 DEF Inv, RowsShown, Quiet, reply
<1>5. QED
  BY <1>1, <1>2, <1>4 DEF Inv

LEMMA OthersInv ==
  ASSUME Inv, Others
  PROVE  Inv'
<1>1. rows \in [Ids -> Row \cup {None, Gone}] /\ vehicles \in SUBSET Vehicles
  BY DEF Inv, TypeOK
<1>2. CASE Record
  BY <1>1, <1>2, WriteInv DEF Record, Row
<1>3. CASE Remove
  BY <1>1, <1>3, WriteInv DEF Remove
<1>4. CASE Revise
  <2>1. PICK id \in Ids, v \in vehicles, x \in Dates :
          Active(id) /\ rows' = [rows EXCEPT ![id].vehicle = v, ![id].date = x]
    BY <1>4 DEF Revise
  <2>2. rows[id] \in Row
    BY <1>1, <2>1 DEF Active
  <2>3. [rows[id] EXCEPT !.vehicle = v, !.date = x] \in Row
    BY <1>1, <2>1, <2>2 DEF Row
  <2>4. rows' \in [Ids -> Row \cup {None, Gone}]
    BY <1>1, <2>1, <2>3
  <2>5. QED
    BY <1>1, <1>4, <2>4, WriteInv DEF Revise
<1>5. CASE RemoveVehicle
  BY <1>1, <1>5, WriteInv DEF RemoveVehicle
<1>6. CASE Midnight
  <2>1. today' \in Date /\ NotAfter(today', LastDay) /\ today'.year > 1
    <3>1. today \in Date /\ LastDay \in Date /\ today # LastDay /\ today' = DayAfter(today)
      BY <1>6, ReadingAssumption DEF Inv, TypeOK, Midnight
    <3>2. DayAfter(today) \in Date /\ NotAfter(DayAfter(today), LastDay)
            /\ DayAfter(today).year >= today.year
      BY <3>1, NextDay DEF Inv
    <3>3. DayAfter(today).year \in Int /\ today.year \in Int
      BY <3>1, <3>2, DateFields
    <3>4. QED
      BY <3>1, <3>2, <3>3 DEF Inv
  <2>2. TypeOK'
    BY <1>6, <2>1 DEF Inv, TypeOK, Midnight, Quiet, reply
  <2>3. Served' /\ PeriodAsked'
    BY <1>6 DEF Inv, Served, PeriodAsked, Midnight, Quiet, Chosen, MonthAsked
  <2>4. RowsShown'
    BY <1>6, SelectedIs DEF Inv, RowsShown, Midnight, Quiet, reply
  <2>5. QED
    BY <2>1, <2>2, <2>3, <2>4 DEF Inv
<1>7. QED
  BY <1>2, <1>3, <1>4, <1>5, <1>6 DEF Others

-----------------------------------------------------------------------------
(* A statement of the reader changes no row: what it found is still there. *)
LEMMA SelectedSame ==
  ASSUME UNCHANGED <<rows, ask, span>>
  PROVE  Selected(ask.vehicle, span)' = Selected(ask.vehicle, span)
  BY SelectedIs

LEMMA Counted ==
  ASSUME NEW v, NEW p
  PROVE  /\ Selected(v, p) \in SUBSET Ids
         /\ Cardinality(Selected(v, p)) \in Nat
<1>1. Selected(v, p) \in SUBSET Ids /\ IsFiniteSet(Ids)
  BY ReadingAssumption DEF Selected, Of
<1>2. QED
  BY <1>1, FS_Subset, FS_CardinalityType

LEMMA ChosenIs ==
  ASSUME NEW a \in Listing, a.okres = ""
  PROVE  ListSpan(a) = Chosen(a)
  BY DEF ListSpan, Chosen

LEMMA OpenListInv ==
  ASSUME Inv, OpenList
  PROVE  Inv'
<1>1. PICK a \in Listing, p \in 0..MaxPage :
        /\ ask' = a /\ span' = ListSpan(a) /\ page' = PageAsked(p)
        /\ walk' = [NoWalk EXCEPT !.on = (page' = 1)]
  BY DEF OpenList
<1>2. pc' = "window" /\ entries' = {} /\ UNCHANGED <<table, calm>>
  BY DEF OpenList, Blank
<1>3. span' \in Span
  BY <1>1, ListSpanTyped DEF Inv, TypeOK
<1>4. page' \in Nat \ {0}
  BY <1>1, ReadingAssumption DEF PageAsked
<1>5. walk' \in [on : BOOLEAN, base : SUBSET Ids, seen : SUBSET Ids]
  BY <1>1 DEF NoWalk
<1>6. TypeOK'
  BY <1>1, <1>2, <1>3, <1>4, <1>5 DEF Inv, TypeOK, table, Running, Ask
<1>7. Served' /\ PeriodAsked' /\ RowsShown'
  BY <1>1, <1>2, ChosenIs DEF Served, PeriodAsked, RowsShown, ListSteps, ReportSteps, PrintSteps,
     Chosen
<1>8. QED
  BY <1>2, <1>6, <1>7 DEF Inv, table

LEMMA LeaveInv ==
  ASSUME Inv, Leave
  PROVE  Inv'
<1>1. pc' = "idle" /\ ask' = None /\ span' = Failed /\ page' = 1 /\ entries' = {}
        /\ calm' = "still" /\ walk' = NoWalk /\ UNCHANGED table
  BY DEF Leave, Blank
<1>2. TypeOK'
  BY <1>1 DEF Inv, TypeOK, table, NoWalk
<1>3. Served' /\ PeriodAsked' /\ RowsShown'
  BY <1>1 DEF Served, PeriodAsked, RowsShown, ListSteps, ReportSteps, PrintSteps
<1>4. QED
  BY <1>1, <1>2, <1>3 DEF Inv, table

LEMMA FollowNextInv ==
  ASSUME Inv, FollowNext
  PROVE  Inv'
<1>1. pc = "shown" /\ pc' = "window" /\ page' = page + 1 /\ span' = ListSpan(ask) /\ entries' = {}
        /\ UNCHANGED <<table, ask, walk>> /\ Watch
  BY DEF FollowNext, Blank
<1>2. ask \in Listing
  BY <1>1 DEF Inv, Served, ListSteps
<1>3. span' \in Span
  BY <1>1, <1>2, ListSpanTyped DEF Inv, TypeOK
<1>4. calm' \in {"still", "grew", "disturbed"}
  BY <1>1 DEF Watch, Inv, TypeOK
<1>5. TypeOK'
  BY <1>1, <1>3, <1>4 DEF Inv, TypeOK, table, Running
<1>6. Served' /\ PeriodAsked' /\ RowsShown'
  BY <1>1, <1>2, ChosenIs DEF Served, PeriodAsked, RowsShown, ListSteps, ReportSteps, PrintSteps,
     Chosen
<1>7. QED
  BY <1>1, <1>5, <1>6 DEF Inv, table

(* The last statement of a list shows rows of the period. *)
LEMMA ShowInv ==
  ASSUME Inv, pc \in {"window", "again"}, NEW n, Show(Selected(ask.vehicle, span), n)
  PROVE  Inv'
<1> DEFINE S == Selected(ask.vehicle, span)
<1>1. /\ pc' = "shown" /\ UNCHANGED <<table, ask, span, page, calm>>
      /\ entries' = Window(S, page)
      /\ walk' = IF ~walk.on THEN walk
                 ELSE [walk EXCEPT !.base = IF pc = "window" /\ page = 1 THEN S ELSE @,
                                   !.seen = @ \cup entries']
  BY DEF Show
<1>2. entries' \subseteq S /\ S \in SUBSET Ids
  BY <1>1, Counted DEF Window
<1>3. S' = S
  BY <1>1, SelectedSame DEF table
<1> HIDE DEF S
<1>4. walk' \in [on : BOOLEAN, base : SUBSET Ids, seen : SUBSET Ids]
  BY <1>1, <1>2 DEF Inv, TypeOK
<1>5. TypeOK'
  BY <1>1, <1>2, <1>4 DEF Inv, TypeOK, table, Answered
<1>6. Served' /\ PeriodAsked'
  BY <1>1 DEF Inv, Served, PeriodAsked, ListSteps, ReportSteps, PrintSteps, Chosen
<1>7. RowsShown'
  BY <1>1, <1>2, <1>3 DEF RowsShown, S
<1>8. QED
  BY <1>1, <1>5, <1>6, <1>7 DEF Inv, table

(* The other steps of a list, a report and a printed log select nothing new *)
(* but the rows of the period.                                              *)
LEMMA ListInv ==
  ASSUME Inv, ReadPage \/ CountRows \/ ReadPageAgain
  PROVE  Inv'
<1>1. CASE ReadPage
  <2>1. CASE Window(Selected(ask.vehicle, span), page) # {}
    BY <1>1, <2>1, ShowInv DEF ReadPage
  <2>2. CASE Window(Selected(ask.vehicle, span), page) = {}
    <3>1. pc = "window" /\ pc' = "count" /\ UNCHANGED <<table, ask, span, reply, calm, walk>>
      BY <1>1, <2>2 DEF ReadPage
    <3>2. TypeOK'
      BY <3>1 DEF Inv, TypeOK, table, reply, Running
    <3>3. Served' /\ PeriodAsked' /\ RowsShown'
      BY <3>1 DEF Inv, Served, PeriodAsked, RowsShown, ListSteps, ReportSteps, PrintSteps, Chosen
    <3>4. QED
      BY <3>1, <3>2, <3>3 DEF Inv, table
  <2>3. QED
    BY <2>1, <2>2
<1>2. CASE CountRows
  <2>1. /\ pc = "count" /\ pc' = "again" /\ UNCHANGED <<table, ask, span, entries, calm, walk>>
        /\ total' = Cardinality(Selected(ask.vehicle, span))
        /\ page' = IF page > Pages(total') THEN Pages(total') ELSE page
    BY <1>2 DEF CountRows
  <2>2. page' \in Nat \ {0}
    BY <2>1, Counted, PagesPositive DEF Inv, TypeOK
  <2>3. TypeOK'
    BY <2>1, <2>2 DEF Inv, TypeOK, table, Running
  <2>4. Served' /\ PeriodAsked' /\ RowsShown'
    BY <2>1 DEF Inv, Served, PeriodAsked, RowsShown, ListSteps, ReportSteps, PrintSteps, Chosen
  <2>5. QED
    BY <2>1, <2>3, <2>4 DEF Inv, table
<1>3. CASE ReadPageAgain
  BY <1>3, ShowInv DEF ReadPageAgain
<1>4. QED
  BY <1>1, <1>2, <1>3

LEMMA OpenReportInv ==
  ASSUME Inv, OpenReport
  PROVE  Inv'
<1>1. PICK a \in Report : ask' = a /\ span' = ReportPeriod(a.text, today)
  BY DEF OpenReport
<1>2. /\ pc' = IF span' = Failed THEN "failed" ELSE "entries"
      /\ page' = 1 /\ entries' = {} /\ UNCHANGED <<table, calm, walk>>
  BY DEF OpenReport, Blank
<1>3. a.text \in Text /\ today \in Date
  BY ReadingAssumption DEF Report, Inv, TypeOK
<1>4. /\ span' \in Span \cup {Failed}
      /\ a.text.kind = "month" /\ Representable(a.text.year, a.text.part, 12) =>
           span' = MonthPeriod(a.text.year, a.text.part)
  BY <1>1, <1>3, ReportSpans
<1>5. TypeOK'
  BY <1>1, <1>2, <1>4 DEF Inv, TypeOK, table, Running, Answered, Ask
<1>6. Served' /\ PeriodAsked' /\ RowsShown'
  BY <1>1, <1>2, <1>4 DEF Served, PeriodAsked, RowsShown, ListSteps, ReportSteps, PrintSteps,
     MonthAsked
<1>7. QED
  BY <1>2, <1>5, <1>6 DEF Inv, table

LEMMA OpenPrintInv ==
  ASSUME Inv, OpenPrint \/ ReadVehicle
  PROVE  Inv'
<1>1. CASE OpenPrint
  <2>1. /\ ask' \in Log /\ span' = Failed /\ pc' = "vehicle" /\ page' = 1 /\ entries' = {}
        /\ UNCHANGED <<table, calm, walk>>
    BY <1>1 DEF OpenPrint, Blank
  <2>2. TypeOK'
    BY <2>1 DEF Inv, TypeOK, table, Running, Ask
  <2>3. Served' /\ PeriodAsked' /\ RowsShown'
    BY <2>1 DEF Served, PeriodAsked, RowsShown, ListSteps, ReportSteps, PrintSteps
  <2>4. QED
    BY <2>1, <2>2, <2>3 DEF Inv, table
<1>2. CASE ReadVehicle
  <2>1. /\ pc = "vehicle" /\ UNCHANGED <<table, ask, reply, calm, walk>>
        /\ span' = IF ask.vehicle \in vehicles THEN PrintPeriod(ask.text, today) ELSE Failed
        /\ pc' = IF span' = Failed THEN "failed" ELSE "log"
    BY <1>2 DEF ReadVehicle
  <2>2. ask \in Log /\ ask.text \in Text /\ today \in Date
    BY <2>1, ReadingAssumption DEF Log, Inv, TypeOK, Served
  <2>3. /\ span' \in Span \cup {Failed}
        /\ pc' = "log" /\ MonthAsked => span' = MonthPeriod(ask.text.year, ask.text.part)
    BY <2>1, <2>2, ReportSpans DEF MonthAsked
  <2>4. TypeOK'
    BY <2>1, <2>3 DEF Inv, TypeOK, table, reply, Running, Answered
  <2>5. Served' /\ PeriodAsked' /\ RowsShown'
    BY <2>1, <2>2, <2>3 DEF Served, PeriodAsked, RowsShown, ListSteps, ReportSteps, PrintSteps,
       MonthAsked
  <2>6. QED
    BY <2>1, <2>4, <2>5 DEF Inv, table
<1>3. QED
  BY <1>1, <1>2

(* The statement that lists the rows of a report or of a printed log. *)
LEMMA RowsInv ==
  ASSUME Inv, ReadEntries \/ ReadLog
  PROVE  Inv'
<1>1. /\ \/ pc = "entries" /\ pc' = "total"
         \/ pc = "log" /\ pc' = "carry"
      /\ entries' = Selected(ask.vehicle, span)
      /\ UNCHANGED <<table, ask, span, page, calm, walk>>
  BY DEF ReadEntries, ReadLog
<1>2. TypeOK'
  BY <1>1, Counted DEF Inv, TypeOK, table, Running
<1>3. Served' /\ PeriodAsked'
  BY <1>1 DEF Inv, Served, PeriodAsked, ListSteps, ReportSteps, PrintSteps, MonthAsked
<1>4. RowsShown'
  BY <1>1, SelectedSame DEF RowsShown, table
<1>5. QED
  BY <1>1, <1>2, <1>3, <1>4 DEF Inv, table

(* The statements that only add figures to it. *)
LEMMA FiguresInv ==
  ASSUME Inv, ReadTotal \/ ReadSummary \/ ReadCarry
  PROVE  Inv'
<1>1. /\ \/ pc = "total" /\ pc' = "summary"
         \/ pc = "summary" /\ pc' = "reported"
         \/ pc = "carry" /\ pc' = "printed"
      /\ UNCHANGED <<table, ask, span, page, entries, calm, walk>>
  BY DEF ReadTotal, ReadSummary, ReadCarry
<1>2. TypeOK'
  BY <1>1 DEF Inv, TypeOK, table, Running, Answered
<1>3. Served' /\ PeriodAsked'
  BY <1>1 DEF Inv, Served, PeriodAsked, ListSteps, ReportSteps, PrintSteps, MonthAsked
<1>4. RowsShown'
  BY <1>1, SelectedSame DEF Inv, RowsShown, table
<1>5. QED
  BY <1>1, <1>2, <1>3, <1>4 DEF Inv, table

LEMMA NextInv == Inv /\ [Next]_vars => Inv'
<1> SUFFICES ASSUME Inv, [Next]_vars PROVE Inv'
  OBVIOUS
<1>1. CASE UNCHANGED vars
  <2>1. TypeOK'
    BY <1>1 DEF Inv, TypeOK, vars, table, reply
  <2>2. Served' /\ PeriodAsked'
    BY <1>1 DEF Inv, Served, PeriodAsked, vars, Chosen, MonthAsked
  <2>3. RowsShown'
    BY <1>1, SelectedSame DEF Inv, RowsShown, vars, table, reply
  <2>4. QED
    BY <1>1, <2>1, <2>2, <2>3 DEF Inv, vars, table
<1>2. CASE Others
  BY <1>2, OthersInv
<1>3. CASE Reader
  BY <1>3, OpenListInv, LeaveInv, FollowNextInv, ListInv, OpenReportInv, OpenPrintInv, RowsInv,
     FiguresInv DEF Reader
<1>4. QED
  BY <1>1, <1>2, <1>3 DEF Next

(* The inductive invariant. *)
THEOREM Invariance == Spec => []Inv
  BY InitInv, NextInv, PTL DEF Spec

(* Every variable but the sums has its type, and a request under way has a  *)
(* period.                                                                  *)
THEOREM TypeCorrect == Spec => []TypeOK
<1>1. Inv => TypeOK
  BY DEF Inv
<1>2. QED
  BY <1>1, Invariance, PTL

LEMMA InvShows == Inv => PeriodShown
<1> SUFFICES ASSUME Inv, calm = "still", pc \in {"shown", "reported", "printed"}
             PROVE  PeriodShown
  BY DEF PeriodShown
<1>1. span \in Span /\ rows \in [Ids -> Row \cup {None, Gone}]
  BY DEF Inv, TypeOK
<1>2. /\ pc = "shown" => entries \subseteq Sel(rows, ask.vehicle, span)
      /\ pc # "shown" => entries = Sel(rows, ask.vehicle, span)
  BY SelectedIs DEF Inv, RowsShown
<1>3. ASSUME NEW id \in Sel(rows, ask.vehicle, span)
      PROVE  Covers(span, rows[id].date)
  BY DEF Sel
<1>4. ASSUME NEW id \in Of(ask.vehicle)
      PROVE  /\ rows[id].date \in Date
             /\ Covers(span, rows[id].date) => id \in Sel(rows, ask.vehicle, span)
  BY <1>1, ReadingAssumption DEF Of, Active, Sel, Row
<1>5. entries \subseteq Of(ask.vehicle)
  BY <1>2 DEF Sel, Of, Active
<1>6. CASE pc = "shown"
  <2>1. ask.what = "list" /\ ask.okres = "" => span = Chosen(ask)
    BY <1>6 DEF Inv, PeriodAsked, ListSteps
  <2>2. ask.what = "list"
    BY <1>6 DEF Inv, Served, Listing, ListSteps
  <2>3. ASSUME NEW id \in entries, ask.okres = ""
        PROVE  /\ ask.od # None => NotAfter(ask.od, rows[id].date)
               /\ ask.upto # None => NotAfter(rows[id].date, ask.upto)
    <3>1. Covers(span, rows[id].date)
      BY <1>2, <1>3, <1>6
    <3>2. /\ ask.od # None => span.first = ask.od
          /\ ask.upto # None => span.last = ask.upto
      <4>1. span = Chosen(ask)
        BY <2>1, <2>2, <2>3
      <4>2. /\ Chosen(ask).first = IF ask.od = None THEN Always.first ELSE ask.od
            /\ Chosen(ask).last = IF ask.upto = None THEN Always.last ELSE ask.upto
        BY DEF Chosen
      <4>3. QED
        BY <4>1, <4>2
    <3>3. QED
      BY <3>1, <3>2 DEF Covers
  <2>4. QED
    BY <1>6, <2>2, <2>3 DEF PeriodShown
<1>7. CASE pc # "shown"
  <2>1. ask.what # "list"
    BY <1>7 DEF Inv, Served, Report, Log, ReportSteps, PrintSteps
  <2>2. ASSUME MonthAsked, NEW x \in Date
        PROVE  Covers(span, x) <=> x.year = ask.text.year /\ x.month = ask.text.part
    <3>1. span = MonthPeriod(ask.text.year, ask.text.part)
      BY <1>7, <2>2 DEF Inv, PeriodAsked, ReportSteps, PrintSteps
    <3>2. ask.text.year \in Year /\ ask.text.part \in 1..12
      BY <2>2 DEF MonthAsked, Representable
    <3>3. QED
      BY <3>1, <3>2, MonthExact
  <2>3. ASSUME MonthAsked, NEW id \in Of(ask.vehicle)
        PROVE  id \in entries <=>
                 rows[id].date.year = ask.text.year /\ rows[id].date.month = ask.text.part
    BY <1>2, <1>3, <1>4, <1>7, <2>2, <2>3
  <2>4. QED
    BY <1>5, <2>1, <2>3 DEF PeriodShown, MonthAsked
<1>8. QED
  BY <1>6, <1>7

(* A list and a report show the rows of the period asked for and no others,  *)
(* whoever writes while their statements run.                                *)
THEOREM PeriodRight == Spec => []PeriodShown
  BY Invariance, InvShows, PTL
-----------------------------------------------------------------------------
(* The rows of a list have an order, and its pages divide them.            *)

LEMMA DateOrder ==
  /\ \A a, b \in Date : NotAfter(a, b) \/ NotAfter(b, a)
  /\ \A a, b \in Date : NotAfter(a, b) /\ NotAfter(b, a) => a = b
  /\ \A a, b, c \in Date : NotAfter(a, b) /\ NotAfter(b, c) => NotAfter(a, c)
<1>1. \A a \in Date : /\ a.year \in Int /\ a.month \in Int /\ a.day \in Int
                      /\ a = [year |-> a.year, month |-> a.month, day |-> a.day]
  <2> SUFFICES ASSUME NEW a \in Date
               PROVE  /\ a.year \in Int /\ a.month \in Int /\ a.day \in Int
                      /\ a = [year |-> a.year, month |-> a.month, day |-> a.day]
    OBVIOUS
  <2>1. a \in [year : Year, month : 1..12, day : 1..31]
    BY DEF Date
  <2>2. a = [year |-> a.year, month |-> a.month, day |-> a.day]
    BY <2>1
  <2> QED
    BY <2>2, DateFields
<1>2. \A a, b \in Date : NotAfter(a, b) \/ NotAfter(b, a)
  BY <1>1 DEF NotAfter
<1>3. ASSUME NEW a \in Date, NEW b \in Date, NotAfter(a, b), NotAfter(b, a) PROVE a = b
  <2>1. /\ a.year \in Int /\ a.month \in Int /\ a.day \in Int
        /\ b.year \in Int /\ b.month \in Int /\ b.day \in Int
    BY <1>1
  <2>2. a.year = b.year /\ a.month = b.month /\ a.day = b.day
    BY <1>3, <2>1 DEF NotAfter
  <2>3. /\ a = [year |-> a.year, month |-> a.month, day |-> a.day]
        /\ b = [year |-> b.year, month |-> b.month, day |-> b.day]
    BY <1>1
  <2> QED
    BY <2>2, <2>3
<1>4. \A a, b, c \in Date : NotAfter(a, b) /\ NotAfter(b, c) => NotAfter(a, c)
  BY <1>1 DEF NotAfter
<1> QED
  BY <1>2, <1>3, <1>4

(* The dates of the rows that a set of numbers names. *)
Dated(S) == S \in SUBSET Ids /\ \A id \in S : rows[id].date \in Date

LEMMA AboveOrder ==
  ASSUME NEW S, Dated(S)
  PROVE  /\ \A i \in S : ~Above(i, i)
         /\ \A i, j \in S : i # j => Above(i, j) \/ Above(j, i)
         /\ \A i, j, k \in S : Above(i, j) /\ Above(j, k) => Above(i, k)
<1>0. Ids \in SUBSET Nat
  BY ReadingAssumption
<1>1. \A i \in S : i \in Int /\ rows[i].date \in Date
  BY <1>0 DEF Dated
<1>2. \A i \in S : ~Above(i, i)
  BY <1>1 DEF Above
<1>3. \A i, j \in S : i # j => Above(i, j) \/ Above(j, i)
  BY <1>1, DateOrder DEF Above
<1>4. ASSUME NEW i \in S, NEW j \in S, NEW k \in S, Above(i, j), Above(j, k)
      PROVE  Above(i, k)
  <2> DEFINE a == rows[i].date
             b == rows[j].date
             c == rows[k].date
  <2>1. a \in Date /\ b \in Date /\ c \in Date /\ i \in Int /\ j \in Int /\ k \in Int
    BY <1>1
  <2>2. (a # b /\ NotAfter(b, a)) \/ (a = b /\ i > j)
    BY <1>4 DEF Above
  <2>3. (b # c /\ NotAfter(c, b)) \/ (b = c /\ j > k)
    BY <1>4 DEF Above
  <2>4. (a # c /\ NotAfter(c, a)) \/ (a = c /\ i > k)
    <3>1. CASE a = b /\ i > j
      BY <2>1, <2>3, <3>1
    <3>2. CASE a # b /\ NotAfter(b, a)
      BY <2>1, <2>3, <3>2, DateOrder
    <3> QED
      BY <2>2, <3>1, <3>2
  <2> QED
    BY <2>4 DEF Above
<1> QED
  BY <1>2, <1>3, <1>4

(* How many rows of the list come before j. *)
Before(S, j) == {i \in S : Above(i, j)}
Rank(S, j) == Cardinality(Before(S, j))

LEMMA RankType ==
  ASSUME NEW S, Dated(S), NEW j \in S
  PROVE  /\ IsFiniteSet(S) /\ Cardinality(S) \in Nat
         /\ IsFiniteSet(Before(S, j)) /\ Rank(S, j) \in Nat /\ Rank(S, j) < Cardinality(S)
<1>1. IsFiniteSet(S) /\ Cardinality(S) \in Nat
  BY FS_Subset, FS_CardinalityType, ReadingAssumption DEF Dated
<1>2. Before(S, j) \in SUBSET S /\ j \notin Before(S, j)
  BY AboveOrder DEF Before
<1>3. IsFiniteSet(Before(S, j)) /\ Rank(S, j) \in Nat /\ Rank(S, j) <= Cardinality(S)
  BY <1>1, <1>2, FS_Subset, FS_CardinalityType DEF Rank
<1>4. Rank(S, j) # Cardinality(S)
  BY <1>1, <1>2, FS_Subset DEF Rank
<1> QED
  BY <1>1, <1>3, <1>4

LEMMA RankOrders ==
  ASSUME NEW S, Dated(S), NEW i \in S, NEW j \in S, Above(i, j)
  PROVE  Rank(S, i) < Rank(S, j)
<1>1. Before(S, i) \in SUBSET Before(S, j)
  BY AboveOrder DEF Before
<1>2. i \in Before(S, j) /\ i \notin Before(S, i)
  BY AboveOrder DEF Before
<1>3. Rank(S, i) <= Rank(S, j) /\ Rank(S, i) # Rank(S, j)
  BY <1>1, <1>2, RankType, FS_Subset DEF Rank
<1> QED
  BY <1>3, RankType

(* A list of n rows has a row at each of the places 0 to n - 1.            *)
LEMMA RanksFill ==
  ASSUME NEW S, Dated(S), NEW m \in Nat, m < Cardinality(S)
  PROVE  \E j \in S : Rank(S, j) = m
<1> DEFINE n == Cardinality(S)
           T == 0..(n - 1)
           f == [j \in S |-> Rank(S, j)]
<1>1. IsFiniteSet(S) /\ n \in Nat
  BY FS_Subset, FS_CardinalityType, ReadingAssumption DEF Dated
<1>2. f \in [S -> T]
  BY <1>1, RankType
<1>3. ASSUME NEW i \in S, NEW j \in S, i # j PROVE f[i] # f[j]
  <2>1. Above(i, j) \/ Above(j, i)
    BY <1>3, AboveOrder
  <2>2. Rank(S, i) < Rank(S, j) \/ Rank(S, j) < Rank(S, i)
    BY <2>1, RankOrders
  <2> QED
    BY <2>2, RankType
<1>4. f \in Injection(S, T)
  <2> HIDE DEF f, T
  <2>1. DOMAIN f = S
    BY <1>2
  <2>2. IsInjective(f)
    BY <1>3, <2>1 DEF IsInjective
  <2> QED
    BY <1>2, <2>2 DEF Injection
<1>5. IsFiniteSet(T) /\ Cardinality(T) = n
  <2>1. \A b \in Int : /\ IsFiniteSet(0..b)
                       /\ Cardinality(0..b) = IF 0 > b THEN 0 ELSE b - 0 + 1
    BY FS_Interval
  <2>2. n - 1 \in Int
    BY <1>1
  <2>3. IsFiniteSet(T) /\ Cardinality(T) = IF 0 > n - 1 THEN 0 ELSE (n - 1) - 0 + 1
    BY <2>1, <2>2
  <2> HIDE DEF T, n
  <2> QED
    BY <1>1, <2>3
<1>6. f \in Surjection(S, T)
  BY <1>4, <1>5, FS_Injection
<1>7. m \in T
  BY <1>1
<1>8. \E j \in S : f[j] = m
  BY <1>6, <1>7 DEF Surjection
<1> QED
  BY <1>8

(* Page p has rows when those of the pages before it are not all there are. *)
LEMMA Division ==
  ASSUME NEW a \in Nat, NEW P \in Nat, P > 0
  PROVE  /\ a \div P \in Nat
         /\ (a \div P) * P <= a /\ a < (a \div P) * P + P
OBVIOUS

LEMMA Multiples ==
  ASSUME NEW p \in Nat, NEW q \in Nat, NEW P \in Nat
  PROVE  /\ p * P \in Nat
         /\ p <= q => p * P <= q * P
         /\ (p + 1) * P = p * P + P
OBVIOUS

LEMMA PageExists ==
  ASSUME NEW p \in Nat \ {0}, NEW n \in Nat, n > 0
  PROVE  /\ (p - 1) * PageSize \in Nat /\ p * PageSize \in Nat
         /\ p * PageSize = (p - 1) * PageSize + PageSize
         /\ p <= Pages(n) <=> (p - 1) * PageSize < n
<1>1. PageSize \in Nat /\ PageSize > 0 /\ p - 1 \in Nat /\ Pages(n) \in Nat
  BY ReadingAssumption, PagesPositive
<1>2. /\ (p - 1) * PageSize \in Nat /\ p * PageSize \in Nat
      /\ p * PageSize = (p - 1) * PageSize + PageSize
  <2>1. (p - 1) + 1 = p
    OBVIOUS
  <2> QED
    BY <1>1, <2>1, Multiples
<1> DEFINE q == Pages(n)
<1>3. q * PageSize <= n + PageSize - 1 /\ n + PageSize - 1 < q * PageSize + PageSize
  <2>1. n + PageSize - 1 \in Nat
    BY <1>1
  <2>2. q = (n + PageSize - 1) \div PageSize
    BY DEF Pages
  <2> QED
    BY <1>1, <2>1, <2>2, Division
<1> HIDE DEF q
<1>4. q \in Nat /\ q * PageSize \in Nat
  BY <1>1, Multiples DEF q
<1>5. p <= q => (p - 1) * PageSize < n
  <2>1. p <= q => p * PageSize <= q * PageSize
    BY <1>1, <1>4, Multiples
  <2> QED
    BY <1>1, <1>2, <1>3, <1>4, <2>1
<1>6. q < p => ~((p - 1) * PageSize < n)
  <2>1. q <= p - 1 => q * PageSize <= (p - 1) * PageSize
    BY <1>1, <1>4, Multiples
  <2> QED
    BY <1>1, <1>2, <1>3, <1>4, <2>1
<1> QED
  BY <1>2, <1>4, <1>5, <1>6 DEF q

-----------------------------------------------------------------------------
(* A walk along the pages: what was counted is still there unless calm was  *)
(* disturbed, the page that follows has rows, and a row the first query    *)
(* selected has been seen or comes after the pages that were.              *)
Mine == Selected(ask.vehicle, span)

(* The rows before the page that is fetched, or through the page shown.    *)
Passed == IF pc = "shown" THEN page * PageSize ELSE (page - 1) * PageSize

Found ==
  pc \in {"again", "shown"} =>
    total \in Nat /\ total <= Cardinality(Mine) /\ (calm = "still" => total = Cardinality(Mine))

OnPage ==
  /\ pc = "again" => page <= Pages(total)
  /\ pc = "shown" /\ total > 0 => entries # {} /\ page <= Pages(total)

FirstQuery ==
  /\ pc \in {"count", "again"} => walk.base = {}
  /\ pc = "window" /\ page = 1 => walk.base = {}

Ahead ==
  /\ pc = "window" /\ page > 1 => (page - 1) * PageSize < Cardinality(Mine)
  /\ pc \in {"window", "shown"} =>
       \A j \in walk.base : j \in Mine /\ (j \in walk.seen \/ Passed <= Rank(Mine, j))
  /\ pc = "shown" /\ (entries = {} \/ page = Pages(total)) => walk.base \subseteq walk.seen

Walked ==
  calm # "disturbed" => Found /\ OnPage /\ (walk.on => FirstQuery /\ Ahead)

LEMMA MineDated == ASSUME Inv PROVE Dated(Mine)
<1>1. rows \in [Ids -> Row \cup {None, Gone}] /\ Dates \subseteq Date
  BY ReadingAssumption DEF Inv, TypeOK
<1>2. Mine \in SUBSET Ids /\ \A id \in Mine : rows[id] \in Row
  BY <1>1 DEF Mine, Selected, Of, Active
<1> QED
  BY <1>1, <1>2 DEF Dated, Row

LEMMA MineDatedNext == Inv' => Dated(Mine)'
<1>1. Inv => Dated(Mine)
  BY MineDated
<1> QED
  BY <1>1, PTL

(* What Watch lets happen to the rows of a list, or of a report, that is   *)
(* not disturbed.                                                          *)
Grown ==
  /\ calm # "disturbed"
  /\ Mine \subseteq Mine' /\ \A id \in Mine : rows'[id] = rows[id]
  /\ calm' = "still" => calm = "still" /\ Mine' = Mine

LEMMA WatchGrown ==
  ASSUME Inv, Inv', ask' = ask, ask \in Listing \cup Report, span \in Span, span' \in Span, Watch,
         calm' # "disturbed"
  PROVE  Grown
<1>1. ask.what # "print" /\ ask # None
  BY ReadingAssumption DEF Listing, Report, Ask
<1>2. Failed \notin Span
  <2>1. \A p \in Span : p.first \in Date
    BY DEF Span
  <2> QED
    BY <2>1, UnreadAssumption DEF Failed
<1>3. /\ Observed = {<<id, rows[id]>> : id \in Mine}
      /\ Observed' = {<<id, rows'[id]>> : id \in Mine'}
  BY <1>1, <1>2 DEF Observed, Mine
<1>4. ASSUME Observed \subseteq Observed'
      PROVE  Mine \subseteq Mine' /\ \A id \in Mine : rows'[id] = rows[id]
  <2> SUFFICES ASSUME NEW id \in Mine PROVE id \in Mine' /\ rows'[id] = rows[id]
    OBVIOUS
  <2>1. <<id, rows[id]>> \in {<<i, rows'[i]>> : i \in Mine'}
    BY <1>3, <1>4
  <2>2. PICK i \in Mine' : <<id, rows[id]>> = <<i, rows'[i]>>
    BY <2>1
  <2> QED
    BY <2>2
<1>5. ASSUME Observed' \subseteq Observed
      PROVE  Mine' \subseteq Mine
  <2> SUFFICES ASSUME NEW id \in Mine' PROVE id \in Mine
    OBVIOUS
  <2>1. <<id, rows'[id]>> \in {<<i, rows[i]>> : i \in Mine}
    BY <1>3, <1>5
  <2>2. PICK i \in Mine : <<id, rows'[id]>> = <<i, rows[i]>>
    BY <2>1
  <2> QED
    BY <2>2
<1>6. Observed \subseteq Observed' /\ calm # "disturbed"
  BY DEF Watch
<1>7. calm' = "still" => calm = "still" /\ Observed' = Observed
  BY DEF Watch
<1> QED
  BY <1>4, <1>5, <1>6, <1>7 DEF Grown

(* When rows are added, those before a row are still before it. *)
LEMMA RankGrows ==
  ASSUME Inv, Inv', Grown, NEW j \in Mine
  PROVE  /\ Rank(Mine, j) <= Rank(Mine, j)' /\ Rank(Mine, j) \in Nat /\ Rank(Mine, j)' \in Nat
         /\ Cardinality(Mine) <= Cardinality(Mine')
         /\ Cardinality(Mine) \in Nat /\ Cardinality(Mine') \in Nat
<1>1. Dated(Mine) /\ Dated(Mine)'
  BY MineDated, MineDatedNext
<1>2. /\ IsFiniteSet(Mine) /\ Cardinality(Mine) \in Nat
      /\ Rank(Mine, j) \in Nat
  BY <1>1, RankType
<1>3. Mine' \in SUBSET Ids /\ Mine \subseteq Mine'
  BY <1>1 DEF Dated, Grown
<1>4. IsFiniteSet(Mine') /\ Cardinality(Mine') \in Nat /\ Cardinality(Mine) <= Cardinality(Mine')
  BY <1>3, FS_Subset, FS_CardinalityType, ReadingAssumption
<1>5. Before(Mine, j) \subseteq Before(Mine, j)'
  BY DEF Grown, Before, Above
<1>6. Before(Mine, j)' \subseteq Mine'
  BY DEF Before
<1>7. IsFiniteSet(Before(Mine, j)') /\ Cardinality(Before(Mine, j)') \in Nat
  BY <1>4, <1>6, FS_Subset, FS_CardinalityType
<1>8. Cardinality(Before(Mine, j)) <= Cardinality(Before(Mine, j)')
  BY <1>5, <1>7, FS_Subset
<1> QED
  BY <1>2, <1>4, <1>7, <1>8 DEF Rank

LEMMA MineGrows ==
  ASSUME Inv, Inv', Grown
  PROVE  /\ Cardinality(Mine) <= Cardinality(Mine')
         /\ Cardinality(Mine) \in Nat /\ Cardinality(Mine') \in Nat
<1>1. Mine \in SUBSET Ids /\ Mine' \in SUBSET Ids /\ Mine \subseteq Mine'
  BY MineDated, MineDatedNext DEF Dated, Grown
<1> QED
  BY <1>1, FS_Subset, FS_CardinalityType, ReadingAssumption

(* The writes of others, and midnight. *)
LEMMA OthersWalked ==
  ASSUME Inv, Inv', Walked, Others
  PROVE  Walked'
<1>1. CASE Midnight
  <2>1. UNCHANGED <<rows, pc, ask, span, page, entries, total, calm, walk>>
    BY <1>1 DEF Midnight, Quiet, reply
  <2>2. Mine' = Mine
    BY <2>1, SelectedSame DEF Mine
  <2>3. \A j : Rank(Mine, j)' = Rank(Mine, j)
    BY <2>1, <2>2 DEF Rank, Before, Above
  <2>4. Found' = Found /\ OnPage' = OnPage /\ FirstQuery' = FirstQuery
    BY <2>1, <2>2 DEF Found, OnPage, FirstQuery, Pages
  <2>5. Ahead => Ahead'
    BY <2>1, <2>2, <2>3 DEF Ahead, Passed, Pages
  <2> QED
    BY <2>1, <2>4, <2>5 DEF Walked
<1>2. CASE ~Midnight
  <2>1. Watch /\ UNCHANGED <<pc, ask, span, page, entries, total, walk>>
    BY <1>2 DEF Others, Record, Remove, Revise, RemoveVehicle, Quiet, reply
  <2>2. CASE pc \notin ListSteps
    BY <2>1, <2>2 DEF Walked, Found, OnPage, FirstQuery, Ahead, ListSteps
  <2>3. CASE pc \in ListSteps /\ calm' # "disturbed"
    <3>1. ask \in Listing /\ span \in Span
      BY <2>3 DEF Inv, TypeOK, Served, ListSteps
    <3>2. Grown
      BY <2>1, <2>3, <3>1, WatchGrown
    <3>3. /\ Cardinality(Mine) <= Cardinality(Mine')
          /\ Cardinality(Mine) \in Nat /\ Cardinality(Mine') \in Nat
      BY <3>2, MineGrows
    <3>4. Found /\ OnPage /\ (walk.on => FirstQuery /\ Ahead)
      BY <3>2 DEF Walked, Grown
    <3>5. Found'
      BY <2>1, <3>2, <3>3, <3>4 DEF Found, Grown
    <3>6. OnPage' /\ (walk.on => FirstQuery')
      BY <2>1, <3>4 DEF OnPage, FirstQuery, Pages
    <3>7. page \in Nat \ {0} /\ page * PageSize \in Nat /\ (page - 1) * PageSize \in Nat
      BY PageExists DEF Inv, TypeOK
    <3>8. ASSUME walk.on PROVE Ahead'
      <4>1. pc = "window" /\ page > 1 => (page - 1) * PageSize < Cardinality(Mine')
        BY <3>3, <3>4, <3>7, <3>8 DEF Ahead
      <4>2. Passed' = Passed /\ Passed \in Nat
        BY <2>1, <3>7 DEF Passed
      <4>3. ASSUME pc \in {"window", "shown"}, NEW j \in walk.base
            PROVE  j \in Mine' /\ (j \in walk.seen \/ Passed <= Rank(Mine, j)')
        <5>1. j \in Mine /\ (j \in walk.seen \/ Passed <= Rank(Mine, j))
          BY <3>4, <3>8, <4>3 DEF Ahead
        <5>2. Rank(Mine, j) <= Rank(Mine, j)' /\ Rank(Mine, j) \in Nat /\ Rank(Mine, j)' \in Nat
          BY <3>2, <5>1, RankGrows
        <5> QED
          BY <3>2, <4>2, <5>1, <5>2 DEF Grown
      <4>4. pc = "shown" /\ (entries = {} \/ page = Pages(total)) => walk.base \subseteq walk.seen
        BY <3>4, <3>8 DEF Ahead
      <4> QED
        BY <2>1, <4>1, <4>2, <4>3, <4>4 DEF Ahead, Pages
    <3> QED
      BY <2>1, <3>5, <3>6, <3>8 DEF Walked
  <2>4. CASE calm' = "disturbed"
    BY <2>4 DEF Walked
  <2> QED
    BY <2>2, <2>3, <2>4
<1> QED
  BY <1>1, <1>2

-----------------------------------------------------------------------------
LEMMA FollowWalked ==
  ASSUME Inv, Inv', Walked, FollowNext
  PROVE  Walked'
<1>1. /\ pc = "shown" /\ pc' = "window" /\ page' = page + 1 /\ ask' = ask /\ walk' = walk
      /\ entries # {} /\ page < Pages(total) /\ Watch
  BY DEF FollowNext
<1> SUFFICES ASSUME calm' # "disturbed" PROVE Walked'
  BY DEF Walked
<1>2. ask \in Listing /\ span \in Span /\ span' \in Span
  BY <1>1 DEF Inv, TypeOK, Served, ListSteps
<1>3. Grown
  BY <1>1, <1>2, WatchGrown
<1>4. /\ Cardinality(Mine) <= Cardinality(Mine')
      /\ Cardinality(Mine) \in Nat /\ Cardinality(Mine') \in Nat
  BY <1>3, MineGrows
<1>5. Found /\ (walk.on => Ahead)
  BY <1>3 DEF Walked, Grown
<1>6. total \in Nat /\ total <= Cardinality(Mine)
  BY <1>1, <1>5 DEF Found
<1>7. page \in Nat \ {0} /\ page + 1 \in Nat \ {0} /\ (page + 1) - 1 = page
      /\ page * PageSize \in Nat
  BY PageExists DEF Inv, TypeOK
<1>8. total > 0
  <2>1. Pages(0) = 1
    BY DEF Pages
  <2> QED
    BY <1>1, <1>6, <1>7, <2>1
<1>9. page + 1 <= Pages(total)
  BY <1>1, <1>6, <1>7, PagesPositive
<1>10. page * PageSize < total
  <2>1. (page + 1) * PageSize \in Nat /\ ((page + 1) - 1) * PageSize < total
    BY <1>6, <1>7, <1>8, <1>9, PageExists
  <2> QED
    BY <1>7, <2>1
<1>11. Found' /\ OnPage'
  BY <1>1 DEF Found, OnPage
<1>12. FirstQuery'
  BY <1>1, <1>7 DEF FirstQuery
<1>13. ASSUME walk.on PROVE Ahead'
  <2>1. page * PageSize < Cardinality(Mine')
    BY <1>4, <1>6, <1>7, <1>10
  <2>2. Passed = page * PageSize /\ Passed' = page * PageSize
    BY <1>1, <1>7 DEF Passed
  <2>3. ASSUME NEW j \in walk.base
        PROVE  j \in Mine' /\ (j \in walk.seen \/ Passed' <= Rank(Mine, j)')
    <3>1. j \in Mine /\ (j \in walk.seen \/ Passed <= Rank(Mine, j))
      BY <1>1, <1>5, <1>13 DEF Ahead
    <3>2. Rank(Mine, j) <= Rank(Mine, j)' /\ Rank(Mine, j) \in Nat /\ Rank(Mine, j)' \in Nat
      BY <1>3, <3>1, RankGrows
    <3> QED
      BY <1>3, <1>7, <2>2, <3>1, <3>2 DEF Grown
  <2> QED
    BY <1>1, <1>7, <2>1, <2>3 DEF Ahead
<1> QED
  BY <1>1, <1>11, <1>12, <1>13 DEF Walked

(* The rows of the page that is fetched are those the first pages left.    *)
LEMMA WindowHas ==
  ASSUME Inv
  PROVE  /\ page \in Nat \ {0} /\ (page - 1) * PageSize \in Nat /\ page * PageSize \in Nat
         /\ \A j \in Mine : (page - 1) * PageSize <= Rank(Mine, j)
                              => j \in Window(Mine, page) \/ page * PageSize <= Rank(Mine, j)
         /\ (page - 1) * PageSize < Cardinality(Mine) <=> Window(Mine, page) # {}
         /\ \A j \in Mine : Rank(Mine, j) \in Nat /\ Rank(Mine, j) < Cardinality(Mine)
         /\ Cardinality(Mine) \in Nat
<1>1. /\ page \in Nat \ {0} /\ (page - 1) * PageSize \in Nat /\ page * PageSize \in Nat
      /\ page * PageSize = (page - 1) * PageSize + PageSize
  BY PageExists DEF Inv, TypeOK
<1>2. Dated(Mine) /\ PageSize \in Nat /\ PageSize > 0
  BY MineDated, ReadingAssumption
<1>3. /\ \A j \in Mine : Rank(Mine, j) \in Nat /\ Rank(Mine, j) < Cardinality(Mine)
      /\ Cardinality(Mine) \in Nat
  BY <1>2, RankType, Counted DEF Mine
<1>4. \A j \in Mine : j \in Window(Mine, page) <=>
        Rank(Mine, j) \in (page - 1) * PageSize .. page * PageSize - 1
  BY DEF Window, Rank, Before
<1>5. \A j \in Mine : (page - 1) * PageSize <= Rank(Mine, j)
                        => j \in Window(Mine, page) \/ page * PageSize <= Rank(Mine, j)
  BY <1>1, <1>3, <1>4
<1>6. ASSUME (page - 1) * PageSize < Cardinality(Mine) PROVE Window(Mine, page) # {}
  <2>1. PICK j \in Mine : Rank(Mine, j) = (page - 1) * PageSize
    BY <1>1, <1>2, <1>6, RanksFill
  <2>2. Rank(Mine, j) \in (page - 1) * PageSize .. page * PageSize - 1
    BY <1>1, <1>2, <2>1
  <2> QED
    BY <1>4, <2>2
<1>7. ASSUME Window(Mine, page) # {} PROVE (page - 1) * PageSize < Cardinality(Mine)
  <2>1. PICK j \in Mine : j \in Window(Mine, page)
    BY <1>7 DEF Window
  <2> QED
    BY <1>1, <1>3, <1>4, <2>1
<1> QED
  BY <1>1, <1>3, <1>5, <1>6, <1>7

LEMMA ShowSame ==
  ASSUME NEW n, Show(Mine, n)
  PROVE  /\ Mine' = Mine /\ pc' = "shown" /\ page' = page /\ calm' = calm /\ total' = n
         /\ entries' = Window(Mine, page)
         /\ \A j : Rank(Mine, j)' = Rank(Mine, j)
         /\ walk' = IF ~walk.on THEN walk
                    ELSE [walk EXCEPT !.base = IF pc = "window" /\ page = 1 THEN Mine ELSE @,
                                      !.seen = @ \cup entries']
<1>1. Mine' = Mine
  BY SelectedSame DEF Show, table, Mine
<1>2. rows' = rows
  BY DEF Show, table
<1>3. \A j : Rank(Mine, j)' = Rank(Mine, j)
  BY <1>1, <1>2 DEF Rank, Before, Above
<1> QED
  BY <1>1, <1>3 DEF Show

LEMMA PageWalked ==
  ASSUME Inv, Walked, pc = "window", calm # "disturbed", Window(Mine, page) # {},
         Show(Mine, Cardinality(Mine))
  PROVE  Walked'
<1> DEFINE n == Cardinality(Mine)
<1>1. /\ Mine' = Mine /\ pc' = "shown" /\ page' = page /\ calm' = calm /\ total' = n
      /\ entries' = Window(Mine, page)
      /\ \A j : Rank(Mine, j)' = Rank(Mine, j)
      /\ walk' = IF ~walk.on THEN walk
                 ELSE [walk EXCEPT !.base = IF pc = "window" /\ page = 1 THEN Mine ELSE @,
                                   !.seen = @ \cup entries']
  BY ShowSame
<1>2. n \in Nat /\ (page - 1) * PageSize < n /\ (page - 1) * PageSize \in Nat
      /\ page * PageSize \in Nat /\ page \in Nat \ {0}
  BY WindowHas
<1>3. n > 0 /\ page <= Pages(n)
  <2>1. n > 0
    BY <1>2
  <2> QED
    BY <1>2, <2>1, PageExists
<1>4. Found' /\ OnPage' /\ FirstQuery'
  BY <1>1, <1>2, <1>3 DEF Found, OnPage, FirstQuery, Pages
<1>5. ASSUME walk.on PROVE Ahead'
  <2>1. /\ walk'.base = IF page = 1 THEN Mine ELSE walk.base
        /\ walk'.seen = walk.seen \cup Window(Mine, page)
    <3>1. walk' = [walk EXCEPT !.base = IF pc = "window" /\ page = 1 THEN Mine ELSE @,
                               !.seen = @ \cup entries']
      BY <1>1, <1>5
    <3>2. walk \in [on : BOOLEAN, base : SUBSET Ids, seen : SUBSET Ids]
      BY DEF Inv, TypeOK
    <3> QED
      BY <1>1, <3>1, <3>2
  <2>2. ASSUME NEW j \in walk'.base
        PROVE  j \in Mine /\ (j \in walk'.seen \/ page * PageSize <= Rank(Mine, j))
    <3>1. j \in Mine /\ (j \in walk.seen \/ (page - 1) * PageSize <= Rank(Mine, j))
      <4>1. CASE page = 1
        <5>1. (page - 1) * PageSize = 0
          BY <4>1, ReadingAssumption
        <5>2. j \in Mine
          BY <2>1, <2>2, <4>1
        <5> QED
          BY <5>1, <5>2, WindowHas
      <4>2. CASE page # 1
        BY <2>1, <2>2, <4>2, <1>5 DEF Walked, Ahead, Passed
      <4> QED
        BY <4>1, <4>2
    <3> QED
      BY <2>1, <3>1, WindowHas
  <2>3. ASSUME entries' = {} \/ page = Pages(n) PROVE walk'.base \subseteq walk'.seen
    <3>1. page = Pages(n)
      BY <1>1, <2>3
    <3>2. ~(page * PageSize < n)
      <4>1. page + 1 \in Nat \ {0} /\ (page + 1) - 1 = page /\ ~(page + 1 <= Pages(n))
        BY <1>2, <3>1
      <4>2. ~(((page + 1) - 1) * PageSize < n)
        BY <1>2, <1>3, <4>1, PageExists
      <4> QED
        BY <4>1, <4>2
    <3> SUFFICES ASSUME NEW j \in walk'.base, j \notin walk'.seen PROVE FALSE
      OBVIOUS
    <3>3. j \in Mine /\ page * PageSize <= Rank(Mine, j)
      BY <2>2
    <3>4. Rank(Mine, j) \in Nat /\ Rank(Mine, j) < n
      BY <3>3, WindowHas
    <3> QED
      BY <1>2, <3>2, <3>3, <3>4
  <2>4. Passed' = page * PageSize
    BY <1>1 DEF Passed
  <2> QED
    BY <1>1, <2>2, <2>3, <2>4 DEF Ahead, Pages
<1>6. walk'.on => walk.on
  BY <1>1 DEF Inv, TypeOK
<1> QED
  BY <1>4, <1>5, <1>6 DEF Walked

(* The page that is fetched after a count. *)
LEMMA AgainWalked ==
  ASSUME Inv, Walked, ReadPageAgain, calm # "disturbed"
  PROVE  Walked'
<1>1. /\ Mine' = Mine /\ pc' = "shown" /\ page' = page /\ calm' = calm /\ total' = total
      /\ entries' = Window(Mine, page)
      /\ walk' = IF ~walk.on THEN walk
                 ELSE [walk EXCEPT !.base = IF pc = "window" /\ page = 1 THEN Mine ELSE @,
                                   !.seen = @ \cup entries']
  BY ShowSame DEF ReadPageAgain, Mine
<1>2. pc = "again" /\ Found /\ OnPage /\ (walk.on => walk.base = {})
  BY DEF ReadPageAgain, Walked, FirstQuery
<1>3. /\ total \in Nat /\ total <= Cardinality(Mine) /\ page <= Pages(total)
      /\ (calm = "still" => total = Cardinality(Mine))
  BY <1>2 DEF Found, OnPage
<1>4. total > 0 => Window(Mine, page) # {}
  <2>1. page \in Nat \ {0} /\ (page - 1) * PageSize \in Nat /\ Cardinality(Mine) \in Nat
    BY WindowHas
  <2>2. total > 0 => (page - 1) * PageSize < total
    BY <1>3, <2>1, PageExists
  <2>3. total > 0 => (page - 1) * PageSize < Cardinality(Mine)
    BY <1>3, <2>1, <2>2
  <2> QED
    BY <2>3, WindowHas
<1>5. Found' /\ OnPage' /\ FirstQuery'
  BY <1>1, <1>3, <1>4 DEF Found, OnPage, FirstQuery, Pages
<1>6. walk'.on => walk.on /\ walk'.base = {}
  BY <1>1, <1>2 DEF Inv, TypeOK
<1>7. walk'.on => Ahead'
  BY <1>1, <1>6 DEF Ahead
<1> QED
  BY <1>5, <1>7 DEF Walked

LEMMA CountWalked ==
  ASSUME Inv, Inv', Walked, CountRows, calm # "disturbed"
  PROVE  Walked'
<1>1. /\ pc = "count" /\ pc' = "again" /\ UNCHANGED <<table, ask, span, calm, walk>>
      /\ total' = Cardinality(Mine)
      /\ page' = IF page > Pages(total') THEN Pages(total') ELSE page
  BY DEF CountRows, Mine
<1>2. Mine' = Mine /\ Cardinality(Mine) \in Nat
  BY <1>1, SelectedSame, Counted DEF Mine, table
<1>3. page' <= Pages(total')
  BY <1>1, <1>2, PagesPositive DEF Inv, TypeOK
<1>4. Found' /\ OnPage'
  BY <1>1, <1>2, <1>3 DEF Found, OnPage, Pages
<1>5. walk.on => FirstQuery' /\ Ahead'
  BY <1>1 DEF Walked, FirstQuery, Ahead
<1> QED
  BY <1>1, <1>4, <1>5 DEF Walked

LEMMA ReadPageWalked ==
  ASSUME Inv, Walked, ReadPage, calm # "disturbed"
  PROVE  Walked'
<1>1. CASE Window(Mine, page) # {}
  BY <1>1, PageWalked DEF ReadPage, Mine
<1>2. CASE Window(Mine, page) = {}
  <2>1. pc = "window" /\ pc' = "count" /\ UNCHANGED <<calm, walk>>
    BY <1>2 DEF ReadPage, Mine
  <2>2. ASSUME walk.on PROVE walk.base = {}
    <3>1. ~((page - 1) * PageSize < Cardinality(Mine)) /\ page \in Nat \ {0}
      BY <1>2, WindowHas
    <3>2. page = 1
      BY <2>1, <2>2, <3>1 DEF Walked, Ahead
    <3> QED
      BY <2>1, <2>2, <3>2 DEF Walked, FirstQuery
  <2> QED
    BY <2>1, <2>2 DEF Walked, Found, OnPage, FirstQuery, Ahead
<1> QED
  BY <1>1, <1>2

LEMMA NextWalked == Inv /\ Inv' /\ Walked /\ [Next]_vars => Walked'
<1> SUFFICES ASSUME Inv, Inv', Walked, [Next]_vars PROVE Walked'
  OBVIOUS
<1>1. CASE UNCHANGED vars
  <2>1. UNCHANGED <<rows, pc, ask, span, page, entries, total, calm, walk>>
    BY <1>1 DEF vars, table, reply
  <2>2. Mine' = Mine /\ \A j : Rank(Mine, j)' = Rank(Mine, j)
    BY <2>1, SelectedSame DEF Mine, Rank, Before, Above
  <2>3. Found' = Found /\ OnPage' = OnPage /\ FirstQuery' = FirstQuery
    BY <2>1, <2>2 DEF Found, OnPage, FirstQuery, Pages
  <2>4. Ahead => Ahead'
    BY <2>1, <2>2 DEF Ahead, Passed, Pages
  <2> QED
    BY <2>1, <2>3, <2>4 DEF Walked
<1>2. CASE OpenList
  <2>1. /\ pc' = "window" /\ walk' = [NoWalk EXCEPT !.on = (page' = 1)]
    BY <1>2 DEF OpenList
  <2>2. walk'.on => page' = 1 /\ walk'.base = {}
    BY <2>1 DEF NoWalk
  <2> QED
    BY <2>1, <2>2 DEF Walked, Found, OnPage, FirstQuery, Ahead
<1>3. CASE Leave \/ OpenReport \/ OpenPrint \/ ReadVehicle \/ ReadEntries \/ ReadTotal \/ ReadSummary
             \/ ReadLog \/ ReadCarry
  <2>1. pc' \notin ListSteps
    BY <1>3 DEF Leave, OpenReport, OpenPrint, ReadVehicle, ReadEntries, ReadTotal, ReadSummary,
                ReadLog, ReadCarry, ListSteps
  <2> QED
    BY <2>1 DEF Walked, Found, OnPage, FirstQuery, Ahead, ListSteps
<1>4. CASE ReadPage \/ CountRows \/ ReadPageAgain
  <2>1. calm' = calm
    BY <1>4 DEF ReadPage, CountRows, ReadPageAgain, Show
  <2>2. CASE calm = "disturbed"
    BY <2>1, <2>2 DEF Walked
  <2>3. CASE calm # "disturbed"
    BY <1>4, <2>3, ReadPageWalked, CountWalked, AgainWalked
  <2> QED
    BY <2>2, <2>3
<1> QED
  BY <1>1, <1>2, <1>3, <1>4, OthersWalked, FollowWalked DEF Next, Reader

LEMMA WalkInvariance == Spec => [](Inv /\ Walked)
<1>1. Init => Walked
  BY DEF Init, Walked, Found, OnPage, FirstQuery, Ahead, NoWalk
<1>2. Inv /\ Walked /\ [Next]_vars => (Inv /\ Walked)'
  BY NextInv, NextWalked
<1> QED
  BY <1>1, <1>2, InitInv, PTL DEF Spec

(* Whoever walks from the first page along "next" to the last has seen     *)
(* every row the first query selected, whatever PageSize, and however many  *)
(* rows come in between.                                                   *)
THEOREM WalkComplete == Spec => []NothingSkipped
<1>1. Inv /\ Walked => NothingSkipped
  BY DEF Walked, Ahead, NothingSkipped
<1> QED
  BY <1>1, WalkInvariance, PTL

(* No page of a list that has rows is empty, whatever number was typed.    *)
THEOREM PagesFilled == Spec => []PageFilled
<1>1. Inv /\ Walked => PageFilled
  BY DEF Walked, Found, OnPage, PageFilled, Mine
<1> QED
  BY <1>1, WalkInvariance, PTL
-----------------------------------------------------------------------------
(* Sums over finite sets, as the folds of the library compute them, by way *)
(* of smallest sets for which something fails.                             *)
(* The element a fold takes first. *)
First(s) == CHOOSE x \in s : TRUE

(* g adds up the values of f over every subset of S. *)
Adds(g, f, S) ==
  g = [s \in SUBSET S |-> IF s = {} THEN 0 ELSE f[First(s)] + g[s \ {First(s)}]]

SumOver(f, S) == (CHOOSE g : Adds(g, f, S))[S]

(* A set of finite sets that is not empty has one that is minimal.         *)
LEMMA Smallest ==
  ASSUME NEW S, IsFiniteSet(S), NEW T \in SUBSET (SUBSET S), T # {}
  PROVE  \E x \in T : \A y \in T : y \subseteq x => y = x
<1>1. IsWellFoundedOn(StrictSubsetOrdering(S), SUBSET S)
  BY FS_StrictSubsetOrderingWellFounded, FS_FiniteSubsetsOfFinite
<1>2. PICK x \in T : \A y \in T : ~ (<<y, x>> \in StrictSubsetOrdering(S))
  BY <1>1, WFMin
<1>3. ASSUME NEW y \in T, y \subseteq x
      PROVE  y = x
  <2>1. <<y, x>> \in (SUBSET S) \X (SUBSET S)
    OBVIOUS
  <2>2. QED
    BY <1>2, <1>3, <2>1 DEF StrictSubsetOrdering
<1>4. QED
  BY <1>3

(* It is one of the set. *)
LEMMA FirstIn ==
  ASSUME NEW s, s # {}
  PROVE  First(s) \in s
  BY DEF First

(* The sums over subsets are determined by f. *)
LEMMA AddsOnce ==
  ASSUME NEW S, IsFiniteSet(S), NEW f, NEW g, NEW h, Adds(g, f, S), Adds(h, f, S)
  PROVE  g = h
<1> DEFINE T == {s \in SUBSET S : g[s] # h[s]}
<1>1. SUFFICES T = {}
  <2>1. \A s \in SUBSET S : g[s] = h[s]
    BY <1>1
  <2>2. QED
    BY <2>1 DEF Adds
<1>2. SUFFICES ASSUME T # {}
               PROVE  FALSE
  OBVIOUS
<1>3. PICK x \in T : \A y \in T : y \subseteq x => y = x
  <2>1. T \in SUBSET (SUBSET S)
    OBVIOUS
  <2> HIDE DEF T
  <2>2. QED
    BY <1>2, <2>1, Smallest
<1>4. x \in SUBSET S /\ g[x] # h[x]
  OBVIOUS
<1>5. CASE x = {}
  BY <1>4, <1>5 DEF Adds
<1>6. CASE x # {}
  <2> DEFINE y == x \ {First(x)}
  <2>1. First(x) \in x
    BY <1>6, FirstIn
  <2>2. y \in SUBSET S /\ y \subseteq x /\ y # x
    BY <1>4, <2>1
  <2>3. g[y] = h[y]
    BY <1>3, <2>2
  <2>4. g[x] = f[First(x)] + g[y] /\ h[x] = f[First(x)] + h[y]
    BY <1>4, <1>6 DEF Adds
  <2>5. QED
    BY <1>4, <2>3, <2>4
<1>7. QED
  BY <1>5, <1>6

(* What adds up over a set adds up over its subsets. *)
LEMMA AddsBelow ==
  ASSUME NEW S, NEW V \in SUBSET S, NEW f, NEW g, Adds(g, f, S)
  PROVE  Adds([s \in SUBSET V |-> g[s]], f, V)
<1> DEFINE h == [s \in SUBSET V |-> g[s]]
<1>1. ASSUME NEW s \in SUBSET V
      PROVE  g[s] = IF s = {} THEN 0 ELSE f[First(s)] + h[s \ {First(s)}]
  BY DEF Adds
<1>2. h = [s \in SUBSET V |-> IF s = {} THEN 0 ELSE f[First(s)] + h[s \ {First(s)}]]
  BY <1>1
<1>3. QED
  BY <1>2 DEF Adds

(* The sums of proper subsets make up those of the set. *)
LEMMA AddsMore ==
  ASSUME NEW S, IsFiniteSet(S), NEW f,
         \A V \in SUBSET S : V # S => \E g : Adds(g, f, V)
  PROVE  \E g : Adds(g, f, S)
<1> DEFINE G == [s \in SUBSET S |->
                   IF s = {} THEN 0 ELSE f[First(s)] + SumOver(f, s \ {First(s)})]
<1>1. ASSUME NEW V \in SUBSET S, V # S
      PROVE  SumOver(f, V) = G[V]
  <2> DEFINE g == CHOOSE g : Adds(g, f, V)
  <2>1. Adds(g, f, V)
    BY <1>1
  <2>2. SumOver(f, V) = g[V]
    BY DEF SumOver
  <2>3. CASE V = {}
    BY <2>1, <2>2, <2>3 DEF Adds
  <2>4. CASE V # {}
    <3> DEFINE U == V \ {First(V)}
    <3>1. First(V) \in V
      BY <2>4, FirstIn
    <3>2. U \in SUBSET V /\ U \in SUBSET S /\ U # S
      BY <3>1
    <3>3. Adds(CHOOSE h : Adds(h, f, U), f, U)
      BY <1>1, <3>2
    <3> DEFINE h == CHOOSE h : Adds(h, f, U)
    <3>4. IsFiniteSet(U)
      BY <3>2, FS_Subset
    <3>5. Adds([s \in SUBSET U |-> g[s]], f, U)
      <4> HIDE DEF g, U
      <4>1. QED
        BY <2>1, <3>2, AddsBelow
    <3>6. h = [s \in SUBSET U |-> g[s]]
      BY <3>3, <3>4, <3>5, AddsOnce
    <3>7. h[U] = g[U]
      BY <3>6
    <3>8. SumOver(f, U) = h[U]
      BY DEF SumOver
    <3>9. g[V] = f[First(V)] + g[U]
      BY <2>1, <2>4 DEF Adds
    <3>10. G[V] = f[First(V)] + SumOver(f, U)
      BY <2>4
    <3>11. QED
      BY <2>2, <3>7, <3>8, <3>9, <3>10
  <2>5. QED
    BY <2>3, <2>4
<1>2. ASSUME NEW s \in SUBSET S, s # {}
      PROVE  SumOver(f, s \ {First(s)}) = G[s \ {First(s)}]
  <2>1. s \ {First(s)} \in SUBSET S /\ s \ {First(s)} # S
    BY <1>2, FirstIn
  <2>2. QED
    BY <1>1, <2>1
<1>3. G = [s \in SUBSET S |-> IF s = {} THEN 0 ELSE f[First(s)] + G[s \ {First(s)}]]
  BY <1>2
<1>4. QED
  BY <1>3 DEF Adds

(* The sums of a function over the subsets of a finite set exist. *)
LEMMA AddsExists ==
  ASSUME NEW S, IsFiniteSet(S), NEW f
  PROVE  \E g : Adds(g, f, S)
<1> DEFINE T == {s \in SUBSET S : ~\E g : Adds(g, f, s)}
<1>1. SUFFICES ASSUME T # {}
               PROVE  FALSE
  BY DEF T
<1>2. PICK x \in T : \A y \in T : y \subseteq x => y = x
  <2>1. T \in SUBSET (SUBSET S)
    OBVIOUS
  <2> HIDE DEF T
  <2>2. QED
    BY <1>1, <2>1, Smallest
<1>3. x \in SUBSET S /\ IsFiniteSet(x)
  BY FS_Subset
<1>4. \A V \in SUBSET x : V # x => \E g : Adds(g, f, V)
  BY <1>2, <1>3
<1>5. \E g : Adds(g, f, x)
  BY <1>3, <1>4, AddsMore
<1>6. QED
  BY <1>5

(* A sum takes the first element and the sum of the others. *)
LEMMA SumStep ==
  ASSUME NEW S, IsFiniteSet(S), NEW f
  PROVE  /\ S = {} => SumOver(f, S) = 0
         /\ S # {} => SumOver(f, S) = f[First(S)] + SumOver(f, S \ {First(S)})
<1> DEFINE g == CHOOSE g : Adds(g, f, S)
<1>1. Adds(g, f, S)
  BY AddsExists
<1>2. SumOver(f, S) = g[S]
  BY DEF SumOver
<1>3. CASE S = {}
  BY <1>1, <1>2, <1>3 DEF Adds
<1>4. CASE S # {}
  <2> DEFINE U == S \ {First(S)}
             h == CHOOSE h : Adds(h, f, U)
  <2>1. U \in SUBSET S /\ IsFiniteSet(U)
    BY FS_Subset
  <2>2. Adds(h, f, U)
    BY <2>1, AddsExists
  <2>3. Adds([s \in SUBSET U |-> g[s]], f, U)
    BY <1>1, <2>1, AddsBelow
  <2>4. h = [s \in SUBSET U |-> g[s]]
    BY <2>1, <2>2, <2>3, AddsOnce
  <2>5. SumOver(f, U) = g[U]
    BY <2>4 DEF SumOver
  <2>6. g[S] = f[First(S)] + g[U]
    BY <1>1, <1>4 DEF Adds
  <2>7. QED
    BY <1>2, <1>4, <2>5, <2>6
<1>5. QED
  BY <1>3, <1>4

(* Sums of integers are integers. *)
LEMMA SumIsInt ==
  ASSUME NEW D, IsFiniteSet(D), NEW f \in [D -> Int]
  PROVE  \A S \in SUBSET D : SumOver(f, S) \in Int
<1> DEFINE T == {S \in SUBSET D : SumOver(f, S) \notin Int}
<1>1. SUFFICES ASSUME T # {}
               PROVE  FALSE
  OBVIOUS
<1>2. PICK x \in T : \A y \in T : y \subseteq x => y = x
  <2>1. T \in SUBSET (SUBSET D)
    OBVIOUS
  <2> HIDE DEF T
  <2>2. QED
    BY <1>1, <2>1, Smallest
<1>3. x \in SUBSET D /\ SumOver(f, x) \notin Int /\ IsFiniteSet(x)
  BY FS_Subset
<1>4. x # {}
  BY <1>3, SumStep
<1> DEFINE y == x \ {First(x)}
<1>5. First(x) \in x /\ y \in SUBSET D /\ y \subseteq x /\ y # x
  BY <1>3, <1>4, FirstIn
<1>6. SumOver(f, y) \in Int
  BY <1>2, <1>5
<1>7. f[First(x)] \in Int
  BY <1>3, <1>5
<1>8. SumOver(f, x) = f[First(x)] + SumOver(f, y)
  BY <1>3, <1>4, SumStep
<1>9. QED
  BY <1>3, <1>6, <1>7, <1>8

(* It does not matter which element comes first. *)
LEMMA SumRemoves ==
  ASSUME NEW D, IsFiniteSet(D), NEW f \in [D -> Int]
  PROVE  \A S \in SUBSET D : \A a \in S : SumOver(f, S) = f[a] + SumOver(f, S \ {a})
<1> DEFINE T == {S \in SUBSET D : \E a \in S : SumOver(f, S) # f[a] + SumOver(f, S \ {a})}
<1>1. SUFFICES ASSUME T # {}
               PROVE  FALSE
  OBVIOUS
<1>2. PICK x \in T : \A y \in T : y \subseteq x => y = x
  <2>1. T \in SUBSET (SUBSET D)
    OBVIOUS
  <2> HIDE DEF T
  <2>2. QED
    BY <1>1, <2>1, Smallest
<1>3. x \in SUBSET D /\ x # {} /\ IsFiniteSet(x)
  BY FS_Subset
<1>4. PICK a \in x : SumOver(f, x) # f[a] + SumOver(f, x \ {a})
  OBVIOUS
<1> DEFINE c == First(x)
<1>5. c \in x /\ SumOver(f, x) = f[c] + SumOver(f, x \ {c})
  BY <1>3, FirstIn, SumStep
<1>6. c # a
  BY <1>4, <1>5
<1>7. x \ {c} \in SUBSET D /\ x \ {c} \subseteq x /\ x \ {c} # x /\ a \in x \ {c}
  BY <1>3, <1>5, <1>6
<1>8. x \ {a} \in SUBSET D /\ x \ {a} \subseteq x /\ x \ {a} # x /\ c \in x \ {a}
  BY <1>3, <1>5, <1>6
<1>9. SumOver(f, x \ {c}) = f[a] + SumOver(f, (x \ {c}) \ {a})
  BY <1>2, <1>7
<1>10. SumOver(f, x \ {a}) = f[c] + SumOver(f, (x \ {a}) \ {c})
  BY <1>2, <1>8
<1>11. (x \ {c}) \ {a} = (x \ {a}) \ {c} /\ (x \ {a}) \ {c} \in SUBSET D
  BY <1>3
<1>12. SumOver(f, (x \ {a}) \ {c}) \in Int /\ f[a] \in Int /\ f[c] \in Int
  BY <1>3, <1>5, <1>11, SumIsInt
<1>13. QED
  <2> DEFINE n == SumOver(f, (x \ {a}) \ {c})
  <2>1. n \in Int /\ SumOver(f, x) = f[c] + (f[a] + n) /\ SumOver(f, x) # f[a] + (f[c] + n)
    BY <1>4, <1>5, <1>9, <1>10, <1>11, <1>12
  <2> HIDE DEF n, c
  <2>2. QED
    BY <2>1, <1>12

(* The sum over a set is that over a part of it and that over the rest. *)
LEMMA SumSplits ==
  ASSUME NEW D, IsFiniteSet(D), NEW f \in [D -> Int], NEW A \in SUBSET D
  PROVE  \A S \in SUBSET D : A \cap S = {} => SumOver(f, A \cup S) = SumOver(f, A) + SumOver(f, S)
<1> DEFINE T == {S \in SUBSET D : /\ A \cap S = {}
                                  /\ SumOver(f, A \cup S) # SumOver(f, A) + SumOver(f, S)}
<1>1. SUFFICES ASSUME T # {}
               PROVE  FALSE
  OBVIOUS
<1>2. PICK x \in T : \A y \in T : y \subseteq x => y = x
  <2>1. T \in SUBSET (SUBSET D)
    OBVIOUS
  <2> HIDE DEF T
  <2>2. QED
    BY <1>1, <2>1, Smallest
<1>3. x \in SUBSET D /\ A \cap x = {} /\ SumOver(f, A \cup x) # SumOver(f, A) + SumOver(f, x)
  OBVIOUS
<1>4. SumOver(f, A) \in Int
  BY SumIsInt
<1>5. x # {}
  <2>1. SUFFICES ASSUME x = {}
                 PROVE  FALSE
    OBVIOUS
  <2>2. A \cup x = A
    BY <2>1
  <2>3. SumOver(f, x) = 0
    BY <2>1, FS_EmptySet, SumStep
  <2>4. SumOver(f, A) # SumOver(f, A) + 0
    BY <1>3, <2>2, <2>3
  <2>5. QED
    BY <1>4, <2>4
<1>6. PICK c \in x : TRUE
  BY <1>5
<1> DEFINE y == x \ {c}
<1>7. y \in SUBSET D /\ A \cap y = {} /\ y \subseteq x /\ y # x
  BY <1>3
<1>8. SumOver(f, A \cup y) = SumOver(f, A) + SumOver(f, y)
  BY <1>2, <1>7
<1>9. SumOver(f, x) = f[c] + SumOver(f, y)
  BY <1>3, SumRemoves
<1>10. SumOver(f, A \cup x) = f[c] + SumOver(f, A \cup y)
  <2>1. A \cup x \in SUBSET D /\ c \in A \cup x /\ (A \cup x) \ {c} = A \cup y
    BY <1>3
  <2>2. QED
    BY <2>1, SumRemoves
<1>11. SumOver(f, y) \in Int /\ f[c] \in Int
  BY <1>3, <1>7, SumIsInt
<1>12. QED
  <2> DEFINE n == SumOver(f, y)
  <2> HIDE DEF y
  <2>1. n \in Int /\ SumOver(f, x) = f[c] + n
          /\ SumOver(f, A \cup x) = f[c] + (SumOver(f, A) + n)
    BY <1>8, <1>9, <1>10, <1>11
  <2>2. QED
    BY <1>3, <1>4, <1>11, <2>1

(* Functions that agree on a set have the same sum over it. *)
LEMMA SumAgrees ==
  ASSUME NEW D, IsFiniteSet(D), NEW f, NEW h, \A a \in D : f[a] = h[a]
  PROVE  \A S \in SUBSET D : SumOver(f, S) = SumOver(h, S)
<1> DEFINE T == {S \in SUBSET D : SumOver(f, S) # SumOver(h, S)}
<1>1. SUFFICES ASSUME T # {}
               PROVE  FALSE
  OBVIOUS
<1>2. PICK x \in T : \A y \in T : y \subseteq x => y = x
  <2>1. T \in SUBSET (SUBSET D)
    OBVIOUS
  <2> HIDE DEF T
  <2>2. QED
    BY <1>1, <2>1, Smallest
<1>3. x \in SUBSET D /\ SumOver(f, x) # SumOver(h, x) /\ IsFiniteSet(x)
  BY FS_Subset
<1>4. x # {}
  BY <1>3, SumStep
<1> DEFINE y == x \ {First(x)}
<1>5. First(x) \in x /\ y \in SUBSET D /\ y \subseteq x /\ y # x
  BY <1>3, <1>4, FirstIn
<1>6. SumOver(f, y) = SumOver(h, y) /\ f[First(x)] = h[First(x)]
  BY <1>2, <1>3, <1>5
<1>7. SumOver(f, x) = f[First(x)] + SumOver(f, y) /\ SumOver(h, x) = h[First(x)] + SumOver(h, y)
  BY <1>3, <1>4, SumStep
<1>8. QED
  BY <1>3, <1>6, <1>7

(* What is nowhere negative has no negative sum, and a part of it no more than all. *)
LEMMA SumGrows ==
  ASSUME NEW D, IsFiniteSet(D), NEW f \in [D -> Int], \A a \in D : f[a] >= 0
  PROVE  /\ \A S \in SUBSET D : SumOver(f, S) >= 0
         /\ \A A, B \in SUBSET D : A \subseteq B => SumOver(f, A) <= SumOver(f, B)
<1>1. \A S \in SUBSET D : SumOver(f, S) >= 0
  <2> DEFINE T == {S \in SUBSET D : ~(SumOver(f, S) >= 0)}
  <2>1. SUFFICES ASSUME T # {}
                 PROVE  FALSE
    OBVIOUS
  <2>2. PICK x \in T : \A y \in T : y \subseteq x => y = x
    <3>1. T \in SUBSET (SUBSET D)
      OBVIOUS
    <3> HIDE DEF T
    <3>2. QED
      BY <2>1, <3>1, Smallest
  <2>3. x \in SUBSET D /\ ~(SumOver(f, x) >= 0) /\ IsFiniteSet(x)
    BY FS_Subset
  <2>4. x # {}
    BY <2>3, SumStep
  <2> DEFINE y == x \ {First(x)}
  <2>5. First(x) \in x /\ y \in SUBSET D /\ y \subseteq x /\ y # x
    BY <2>3, <2>4, FirstIn
  <2>6. SumOver(f, y) >= 0 /\ SumOver(f, y) \in Int
    BY <2>2, <2>5, SumIsInt
  <2>7. f[First(x)] \in Int /\ f[First(x)] >= 0
    BY <2>3, <2>5
  <2>8. SumOver(f, x) = f[First(x)] + SumOver(f, y)
    BY <2>3, <2>4, SumStep
  <2> HIDE DEF y
  <2>9. QED
    BY <2>3, <2>6, <2>7, <2>8
<1>2. ASSUME NEW A \in SUBSET D, NEW B \in SUBSET D, A \subseteq B
      PROVE  SumOver(f, A) <= SumOver(f, B)
  <2>1. A \cap (B \ A) = {} /\ A \cup (B \ A) = B /\ B \ A \in SUBSET D
    BY <1>2
  <2>2. SumOver(f, B) = SumOver(f, A) + SumOver(f, B \ A)
    BY <2>1, SumSplits
  <2>3. SumOver(f, A) \in Int /\ SumOver(f, B \ A) \in Int /\ SumOver(f, B \ A) >= 0
    BY <1>1, <2>1, SumIsInt
  <2>4. QED
    BY <2>2, <2>3
<1>3. QED
  BY <1>1, <1>2

-----------------------------------------------------------------------------
(* A set has as many elements as its ones add up to. *)
LEMMA CountIsSum ==
  ASSUME NEW D, IsFiniteSet(D)
  PROVE  \A S \in SUBSET D : Cardinality(S) = SumOver([d \in D |-> 1], S)
<1> DEFINE f == [d \in D |-> 1]
           T == {S \in SUBSET D : Cardinality(S) # SumOver(f, S)}
<1>1. SUFFICES ASSUME T # {}
               PROVE  FALSE
  OBVIOUS
<1>2. PICK x \in T : \A y \in T : y \subseteq x => y = x
  <2>1. T \in SUBSET (SUBSET D)
    OBVIOUS
  <2> HIDE DEF T
  <2>2. QED
    BY <1>1, <2>1, Smallest
<1>3. x \in SUBSET D /\ Cardinality(x) # SumOver(f, x) /\ IsFiniteSet(x)
  BY FS_Subset
<1>4. x # {}
  BY <1>3, SumStep, FS_EmptySet
<1> DEFINE y == x \ {First(x)}
<1>5. First(x) \in x /\ y \in SUBSET D /\ y \subseteq x /\ y # x
  BY <1>3, <1>4, FirstIn
<1>6. Cardinality(y) = SumOver(f, y)
  BY <1>2, <1>5
<1>7. SumOver(f, x) = f[First(x)] + SumOver(f, y)
  BY <1>3, <1>4, SumStep
<1>8. f[First(x)] = 1
  BY <1>3, <1>5
<1>9. Cardinality(y) = Cardinality(x) - 1
  BY <1>3, <1>5, FS_RemoveElement
<1>10. Cardinality(x) \in Int
  BY <1>3, FS_CardinalityType
<1> HIDE DEF f, y
<1>11. QED
  BY <1>3, <1>6, <1>7, <1>8, <1>9, <1>10

(* Subsets of D that have no element in common, one for each v in V. *)
Parted(P, V, D) ==
  /\ P \in [V -> SUBSET D]
  /\ \A v, w \in V : v # w => P[v] \cap P[w] = {}

Together(P, W) == UNION {P[v] : v \in W}

(* The sum over a set is the sum of the sums over its parts. *)
LEMMA SumOfParts ==
  ASSUME NEW D, IsFiniteSet(D), NEW f \in [D -> Int], NEW V, IsFiniteSet(V),
         NEW P, Parted(P, V, D), NEW s, \A v \in V : s[v] = SumOver(f, P[v])
  PROVE  \A W \in SUBSET V : SumOver(s, W) = SumOver(f, Together(P, W))
<1> DEFINE T == {W \in SUBSET V : SumOver(s, W) # SumOver(f, Together(P, W))}
<1>1. SUFFICES ASSUME T # {}
               PROVE  FALSE
  OBVIOUS
<1>2. PICK x \in T : \A y \in T : y \subseteq x => y = x
  <2>1. T \in SUBSET (SUBSET V)
    OBVIOUS
  <2> HIDE DEF T
  <2>2. QED
    BY <1>1, <2>1, Smallest
<1>3. x \in SUBSET V /\ SumOver(s, x) # SumOver(f, Together(P, x)) /\ IsFiniteSet(x)
  BY FS_Subset
<1>4. x # {}
  <2>1. SUFFICES ASSUME x = {}
                 PROVE  FALSE
    OBVIOUS
  <2>2. Together(P, x) = {}
    BY <2>1 DEF Together
  <2>3. QED
    BY <1>3, <2>1, <2>2, SumStep, FS_EmptySet
<1> DEFINE c == First(x)
           y == x \ {c}
<1>5. c \in x /\ y \in SUBSET V /\ y \subseteq x /\ y # x
  BY <1>3, <1>4, FirstIn
<1>6. SumOver(s, y) = SumOver(f, Together(P, y))
  BY <1>2, <1>5
<1>7. SumOver(s, x) = s[c] + SumOver(s, y)
  BY <1>3, <1>4, SumStep
<1>8. s[c] = SumOver(f, P[c])
  BY <1>3, <1>5
<1>9. SumOver(f, Together(P, x)) = SumOver(f, P[c]) + SumOver(f, Together(P, y))
  <2> HIDE DEF c
  <2>1. Together(P, x) = P[c] \cup Together(P, y)
    BY <1>5 DEF Together
  <2>2. P[c] \in SUBSET D /\ Together(P, y) \in SUBSET D
    BY <1>3, <1>5 DEF Together, Parted
  <2>3. P[c] \cap Together(P, y) = {}
    BY <1>3, <1>5 DEF Together, Parted
  <2> HIDE DEF y
  <2>4. SumOver(f, P[c] \cup Together(P, y)) = SumOver(f, P[c]) + SumOver(f, Together(P, y))
    BY <2>2, <2>3, SumSplits
  <2>5. QED
    BY <2>1, <2>4
<1>10. QED
  BY <1>3, <1>6, <1>7, <1>8, <1>9

-----------------------------------------------------------------------------
Latest(j, T, R) == j \in T /\ \A x \in T : x # j => <<x, j>> \in R

Ordered(S, R) ==
  /\ \A i, j \in S : i # j => <<i, j>> \in R \/ <<j, i>> \in R
  /\ \A i \in S : <<i, i>> \notin R
  /\ \A i, j, k \in S : <<i, j>> \in R /\ <<j, k>> \in R => <<i, k>> \in R

Opening(T, S, R) ==
  /\ T \in SUBSET S /\ T # {}
  /\ \A i \in S, j \in T : <<i, j>> \in R => i \in T

(* A set of rows in order that is not empty has a latest. *)
LEMMA LatestExists ==
  ASSUME NEW S, IsFiniteSet(S), NEW R, Ordered(S, R)
  PROVE  \A T \in SUBSET S : T # {} => \E j \in T : Latest(j, T, R)
<1> DEFINE Bad == {T \in SUBSET S : T # {} /\ ~\E j \in T : Latest(j, T, R)}
<1>1. SUFFICES ASSUME Bad # {}
               PROVE  FALSE
  OBVIOUS
<1>2. PICK x \in Bad : \A y \in Bad : y \subseteq x => y = x
  <2>1. Bad \in SUBSET (SUBSET S)
    OBVIOUS
  <2> HIDE DEF Bad
  <2>2. QED
    BY <1>1, <2>1, Smallest
<1>3. x \in SUBSET S /\ x # {} /\ ~\E j \in x : Latest(j, x, R)
  OBVIOUS
<1>4. PICK c \in x : TRUE
  BY <1>3
<1> DEFINE y == x \ {c}
<1>5. y \in SUBSET S /\ y \subseteq x /\ y # x
  BY <1>3
<1>6. y # {}
  BY <1>3 DEF Latest
<1>7. PICK j \in y : Latest(j, y, R)
  BY <1>2, <1>5, <1>6
<1>8. c \in S /\ j \in S /\ j # c /\ j \in x
  BY <1>3, <1>7
<1>9. CASE <<j, c>> \in R
  <2>1. ASSUME NEW z \in x, z # c
        PROVE  <<z, c>> \in R
    <3>1. z \in y /\ z \in S
      BY <1>3, <2>1
    <3>2. z = j \/ <<z, j>> \in R
      BY <1>7, <3>1 DEF Latest
    <3>3. QED
      BY <1>8, <1>9, <3>1, <3>2 DEF Ordered
  <2>2. Latest(c, x, R)
    BY <2>1 DEF Latest
  <2>3. QED
    BY <1>3, <2>2
<1>10. CASE <<c, j>> \in R
  <2>1. Latest(j, x, R)
    BY <1>7, <1>8, <1>10 DEF Latest
  <2>2. QED
    BY <1>3, <1>8, <2>1
<1>11. QED
  BY <1>8, <1>9, <1>10 DEF Ordered

(* A beginning without its last element is a beginning, whose last element *)
(* comes right before.                                                     *)
LEMMA OpeningBefore ==
  ASSUME NEW S, NEW R, Ordered(S, R), NEW T, Opening(T, S, R),
         NEW j, Latest(j, T, R), NEW i, Latest(i, T \ {j}, R)
  PROVE  /\ Opening(T \ {j}, S, R) /\ i \in S /\ j \in S
         /\ <<i, j>> \in R /\ ~\E k \in S : <<i, k>> \in R /\ <<k, j>> \in R
<1>1. i \in T /\ i # j /\ i \in S /\ j \in S /\ j \in T
  BY DEF Latest, Opening
<1>2. <<i, j>> \in R
  BY <1>1 DEF Latest
<1>3. ASSUME NEW k \in S, <<i, k>> \in R, <<k, j>> \in R
      PROVE  FALSE
  <2>1. k \in T /\ k # j
    BY <1>1, <1>3 DEF Opening, Ordered
  <2>2. k = i \/ <<k, i>> \in R
    BY <2>1 DEF Latest
  <2>3. <<i, i>> \in R
    BY <1>1, <1>3, <2>2 DEF Ordered
  <2>4. QED
    BY <1>1, <2>3 DEF Ordered
<1>4. ASSUME NEW k \in S, NEW l \in T \ {j}, <<k, l>> \in R
      PROVE  k \in T \ {j}
  <2>1. k \in T /\ l \in S /\ <<l, j>> \in R
    BY <1>4 DEF Opening, Latest
  <2>2. k # j
    BY <1>1, <1>4, <2>1 DEF Ordered
  <2>3. QED
    BY <2>1, <2>2
<1>5. Opening(T \ {j}, S, R)
  BY <1>1, <1>4 DEF Opening
<1>6. QED
  BY <1>1, <1>2, <1>3, <1>5

(* A log without gaps: who comes right after another starts where it ended. *)
Unbroken(S, R, start, end) ==
  /\ start \in [S -> Int] /\ end \in [S -> Int]
  /\ \A i \in S : start[i] <= end[i]
  /\ \A i, j \in S :
       <<i, j>> \in R /\ (~\E k \in S : <<i, k>> \in R /\ <<k, j>> \in R) => end[i] = start[j]

(* In a log without gaps the latest row has the highest reading. *)
LEMMA EndsRise ==
  ASSUME NEW S, IsFiniteSet(S), NEW R, Ordered(S, R),
         NEW start, NEW end, Unbroken(S, R, start, end)
  PROVE  \A T : Opening(T, S, R) => \A j : Latest(j, T, R) => \A z \in T : end[z] <= end[j]
<1> DEFINE Bad == {T \in SUBSET S : /\ Opening(T, S, R)
                                    /\ \E j : Latest(j, T, R) /\ \E z \in T : ~(end[z] <= end[j])}
<1>1. SUFFICES ASSUME Bad # {}
               PROVE  FALSE
  BY DEF Opening
<1>2. PICK x \in Bad : \A y \in Bad : y \subseteq x => y = x
  <2>1. Bad \in SUBSET (SUBSET S)
    OBVIOUS
  <2> HIDE DEF Bad
  <2>2. QED
    BY <1>1, <2>1, Smallest
<1>3. x \in SUBSET S /\ Opening(x, S, R)
  OBVIOUS
<1>4. PICK j : Latest(j, x, R) /\ \E z \in x : ~(end[z] <= end[j])
  OBVIOUS
<1>5. PICK z \in x : ~(end[z] <= end[j])
  BY <1>4
<1>6. j \in x /\ j \in S /\ z \in S /\ end[j] \in Int /\ end[z] \in Int
  BY <1>3, <1>4 DEF Latest, Unbroken
<1>7. z # j
  BY <1>5, <1>6
<1> DEFINE y == x \ {j}
<1>8. y \in SUBSET S /\ y \subseteq x /\ y # x /\ z \in y
  BY <1>3, <1>6, <1>7
<1>9. PICK i \in y : Latest(i, y, R)
  BY <1>8, LatestExists
<1>10. Opening(y, S, R) /\ i \in S /\ <<i, j>> \in R
         /\ ~\E k \in S : <<i, k>> \in R /\ <<k, j>> \in R
  BY <1>3, <1>4, <1>9, OpeningBefore
<1>11. end[z] <= end[i]
  BY <1>2, <1>8, <1>9, <1>10
<1>12. end[i] = start[j] /\ start[j] <= end[j] /\ end[i] \in Int /\ start[j] \in Int
  BY <1>6, <1>10 DEF Unbroken
<1>13. QED
  BY <1>5, <1>6, <1>11, <1>12

(* What is driven after a beginning leads from its last reading to the end. *)
LEMMA SumsMeet ==
  ASSUME NEW S, IsFiniteSet(S), NEW R, Ordered(S, R),
         NEW start, NEW end, Unbroken(S, R, start, end), NEW km \in [S -> Int],
         \A i \in S : km[i] = end[i] - start[i],
         NEW E, Opening(E, S, R), NEW e, Latest(e, E, R)
  PROVE  \A T : Opening(T, S, R) /\ E \subseteq T =>
           \A j : Latest(j, T, R) => end[e] + SumOver(km, T \ E) = end[j]
<1> DEFINE Bad == {T \in SUBSET S : /\ Opening(T, S, R) /\ E \subseteq T
                                    /\ \E j : Latest(j, T, R) /\ end[e] + SumOver(km, T \ E) # end[j]}
<1>1. SUFFICES ASSUME Bad # {}
               PROVE  FALSE
  BY DEF Opening
<1>2. PICK x \in Bad : \A y \in Bad : y \subseteq x => y = x
  <2>1. Bad \in SUBSET (SUBSET S)
    OBVIOUS
  <2> HIDE DEF Bad
  <2>2. QED
    BY <1>1, <2>1, Smallest
<1>3. x \in SUBSET S /\ Opening(x, S, R) /\ E \subseteq x
  OBVIOUS
<1>4. PICK j : Latest(j, x, R) /\ end[e] + SumOver(km, x \ E) # end[j]
  OBVIOUS
<1>5. j \in x /\ j \in S /\ e \in E /\ e \in S /\ end[j] \in Int /\ end[e] \in Int
        /\ start[j] \in Int /\ E \in SUBSET S
  BY <1>3, <1>4 DEF Latest, Unbroken, Opening
<1>6. j \notin E
  <2>1. SUFFICES ASSUME j \in E
                 PROVE  FALSE
    OBVIOUS
  <2>2. x \subseteq E
    BY <1>3, <1>4, <2>1 DEF Latest, Opening
  <2>3. x \ E = {}
    BY <2>2
  <2>4. SumOver(km, x \ E) = 0
    BY <2>3, SumStep, FS_EmptySet
  <2>5. e = j
    <3>1. SUFFICES ASSUME e # j
                   PROVE  FALSE
      OBVIOUS
    <3>2. <<e, j>> \in R /\ <<j, e>> \in R
      BY <1>3, <1>4, <1>5, <2>1, <3>1 DEF Latest
    <3>3. QED
      BY <1>5, <3>2 DEF Ordered
  <2>6. end[e] + 0 # end[j]
    BY <1>4, <2>4
  <2>7. QED
    BY <1>5, <2>5, <2>6
<1> DEFINE y == x \ {j}
<1>7. y \in SUBSET S /\ y \subseteq x /\ y # x /\ E \subseteq y /\ e \in y
  BY <1>3, <1>5, <1>6
<1>8. PICK i \in y : Latest(i, y, R)
  BY <1>7, LatestExists
<1>9. Opening(y, S, R) /\ i \in S /\ <<i, j>> \in R
         /\ ~\E k \in S : <<i, k>> \in R /\ <<k, j>> \in R
  BY <1>3, <1>4, <1>8, OpeningBefore
<1>10. end[e] + SumOver(km, y \ E) = end[i]
  BY <1>2, <1>7, <1>8, <1>9
<1>11. end[i] = start[j] /\ end[i] \in Int
  BY <1>5, <1>9 DEF Unbroken
<1>12. SumOver(km, x \ E) = km[j] + SumOver(km, y \ E)
  <2>1. x \ E \in SUBSET S /\ j \in x \ E /\ (x \ E) \ {j} = y \ E
    BY <1>3, <1>5, <1>6
  <2>2. QED
    BY <2>1, SumRemoves
<1>13. SumOver(km, y \ E) \in Int
  <2>1. y \ E \in SUBSET S
    BY <1>7
  <2>2. QED
    BY <2>1, SumIsInt
<1>14. km[j] = end[j] - start[j]
  BY <1>5
<1> HIDE DEF y
<1>15. QED
  BY <1>4, <1>5, <1>10, <1>11, <1>12, <1>13, <1>14

-----------------------------------------------------------------------------
(* The kilometres of the rows of a table, 0 where there is no row.         *)
KmIn(R) ==
  [id \in Ids |-> IF R[id] \in {None, Gone} \/ None \in {R[id].odo[1], R[id].odo[2]} THEN 0
                  ELSE R[id].odo[2] - R[id].odo[1]]

Sum(S) == SumOver(KmIn(rows), S)

(* A row has readings that are numbers or missing, and never runs back.    *)
LEMMA ReadingsOf ==
  ASSUME NEW R \in [Ids -> Row \cup {None, Gone}], NEW id \in Ids, R[id] \notin {None, Gone}
  PROVE  /\ R[id] \in Row /\ R[id].vehicle \in Vehicles /\ R[id].date \in Date
         /\ R[id].odo[1] \in Nat \cup {None} /\ R[id].odo[2] \in Nat \cup {None}
         /\ None \notin {R[id].odo[1], R[id].odo[2]} => R[id].odo[1] <= R[id].odo[2]
<1>1. R[id] \in Row
  OBVIOUS
<1>2. R[id].odo \in Readings /\ R[id].vehicle \in Vehicles /\ R[id].date \in Dates
  BY <1>1 DEF Row
<1>3. R[id].odo \in (Nat \cup {None}) \X (Nat \cup {None})
  BY <1>2, ReadingAssumption
<1>4. None \in {R[id].odo[1], R[id].odo[2]} \/ R[id].odo[1] <= R[id].odo[2]
  BY <1>2, ReadingAssumption
<1>5. R[id].date \in Date
  BY <1>2, ReadingAssumption
<1> QED
  BY <1>1, <1>2, <1>3, <1>4, <1>5

LEMMA KmType ==
  ASSUME NEW R \in [Ids -> Row \cup {None, Gone}]
  PROVE  KmIn(R) \in [Ids -> Int] /\ \A id \in Ids : KmIn(R)[id] >= 0
<1>1. ASSUME NEW id \in Ids
      PROVE  KmIn(R)[id] \in Int /\ KmIn(R)[id] >= 0
  <2>1. CASE R[id] \in {None, Gone} \/ None \in {R[id].odo[1], R[id].odo[2]}
    BY <2>1 DEF KmIn
  <2>2. CASE ~(R[id] \in {None, Gone} \/ None \in {R[id].odo[1], R[id].odo[2]})
    <3> DEFINE a == R[id].odo[1]
               b == R[id].odo[2]
    <3>1. a \in Nat /\ b \in Nat /\ a <= b
      BY <2>2, ReadingsOf
    <3>2. KmIn(R)[id] = b - a
      BY <2>2 DEF KmIn
    <3> HIDE DEF a, b
    <3> QED
      BY <3>1, <3>2
  <2> QED
    BY <2>1, <2>2
<1>2. KmIn(R) = [id \in Ids |-> KmIn(R)[id]]
  BY DEF KmIn
<1> HIDE DEF KmIn
<1> QED
  BY <1>1, <1>2

(* What SUM returns of rows that are there. *)
LEMMA KmOfIs ==
  ASSUME NEW S \in SUBSET Ids, \A id \in S : Active(id)
  PROVE  KmOf(S) = Sum(S)
<1> DEFINE add(g) == g = [s \in SUBSET S |-> IF s = {} THEN 0
                                             ELSE Km(First(s)) + g[s \ {First(s)}]]
<1>1. ASSUME NEW s \in SUBSET S, s # {}
      PROVE  Km(First(s)) = KmIn(rows)[First(s)]
  <2>1. First(s) \in S /\ First(s) \in Ids
    BY <1>1, FirstIn
  <2>2. rows[First(s)] \notin {None, Gone}
    BY <2>1 DEF Active
  <2> QED
    BY <2>1, <2>2 DEF Km, KmIn
<1>2. \A g : add(g) <=> Adds(g, KmIn(rows), S)
  BY <1>1 DEF Adds
<1>3. IsFiniteSet(S)
  BY FS_Subset, ReadingAssumption
<1>4. KmOf(S) = (CHOOSE g : add(g))[S]
  BY DEF KmOf, MapThenSumSet, MapThenFoldSet, First
<1>5. \E g : Adds(g, KmIn(rows), S)
  BY <1>3, AddsExists
<1> DEFINE a == CHOOSE g : add(g)
           b == CHOOSE g : Adds(g, KmIn(rows), S)
<1>6. Adds(b, KmIn(rows), S)
  BY <1>5
<1> HIDE DEF add
<1>7. add(a)
  BY <1>2, <1>5
<1>8. Adds(a, KmIn(rows), S)
  BY <1>2, <1>7
<1>9. a = b
  BY <1>3, <1>6, <1>8, AddsOnce
<1> QED
  BY <1>4, <1>9 DEF Sum, SumOver

(* Rows that stay what they are keep their sum. *)
LEMMA SumKept ==
  ASSUME NEW S \in SUBSET Ids, \A id \in S : rows'[id] = rows[id]
  PROVE  SumOver(KmIn(rows'), S) = SumOver(KmIn(rows), S)
<1>1. \A id \in S : KmIn(rows')[id] = KmIn(rows)[id]
  BY DEF KmIn
<1>2. IsFiniteSet(S)
  BY FS_Subset, ReadingAssumption
<1> QED
  BY <1>1, <1>2, SumAgrees

(* The sum of a table is that of the functions the summary adds up. *)
LEMMA SummaryIs ==
  ASSUME NEW f
  PROVE  SumFunction(f) = SumOver(f, DOMAIN f)
  BY DEF SumFunction, SumFunctionOnSet, FoldFunctionOnSet, MapThenFoldSet, SumOver, Adds, First

-----------------------------------------------------------------------------
(* The inductive invariant for the figures of a report and of a printed    *)
(* log: what the statements have read so far relates to the rows listed    *)
(* and to those selected now.                                              *)
Prior == Earlier(ask.vehicle, span)
Kms   == SumFunction([v \in Vehicles |-> summary[v].km])
Count == SumFunction([v \in Vehicles |-> summary[v].count])

Listed ==
  pc \in {"total", "summary", "reported"} /\ calm # "disturbed" => entries \subseteq Mine

Added ==
  /\ pc = "summary" =>
       /\ calm = "still" => total = Sum(Mine)
       /\ calm = "grew" => Sum(entries) <= total /\ total <= Sum(Mine)
  /\ pc = "reported" =>
       /\ calm = "still" => total = Sum(entries) /\ Kms = total /\ Count = Cardinality(entries)
       /\ calm = "grew" => Sum(entries) <= total /\ total <= Kms /\ Cardinality(entries) <= Count

Carried ==
  /\ pc \in PrintSteps => NotAfter(span.first, span.last)
  /\ calm = "still" /\ pc \in {"carry", "printed"} => total = Sum(entries)
  /\ calm = "still" /\ pc = "printed" => carry = HighestReading(Prior)

Whole == pc \in {"summary", "reported"} /\ calm # "disturbed" => total \in Int

Figured == Listed /\ Whole /\ Added /\ Carried

(* The rows selected are there. *)
LEMMA MineThere ==
  ASSUME Inv
  PROVE  /\ Mine \in SUBSET Ids /\ \A id \in Mine : Active(id)
         /\ rows \in [Ids -> Row \cup {None, Gone}]
         /\ KmIn(rows) \in [Ids -> Int] /\ \A id \in Ids : KmIn(rows)[id] >= 0
         /\ IsFiniteSet(Ids)
<1>1. Mine \in SUBSET Ids /\ \A id \in Mine : Active(id)
  BY DEF Mine, Selected, Of
<1>2. rows \in [Ids -> Row \cup {None, Gone}]
  BY DEF Inv, TypeOK
<1>3. KmIn(rows) \in [Ids -> Int] /\ \A id \in Ids : KmIn(rows)[id] >= 0
  BY <1>2, KmType
<1> QED
  BY <1>1, <1>2, <1>3, ReadingAssumption

(* Its sum is what a statement over all of it returns, and no less than    *)
(* that of a part.                                                         *)
LEMMA MineSum ==
  ASSUME Inv
  PROVE  /\ KmOf(Mine) = Sum(Mine) /\ Sum(Mine) \in Int
         /\ \A S \in SUBSET Mine : Sum(S) \in Int /\ Sum(S) <= Sum(Mine)
<1>1. KmOf(Mine) = Sum(Mine)
  BY MineThere, KmOfIs
<1>2. Mine \in SUBSET Ids /\ KmIn(rows) \in [Ids -> Int] /\ IsFiniteSet(Ids)
        /\ \A id \in Ids : KmIn(rows)[id] >= 0
  BY MineThere
<1>3. ASSUME NEW S \in SUBSET Mine
      PROVE  Sum(S) \in Int /\ Sum(S) <= Sum(Mine)
  <2>1. S \in SUBSET Ids /\ S \subseteq Mine
    BY <1>2
  <2> QED
    BY <1>2, <2>1, SumIsInt, SumGrows DEF Sum
<1> QED
  BY <1>1, <1>3

(* Steps at which the figures do not change, or do not matter. *)
LEMMA HighSame ==
  ASSUME Prior' = Prior, \A id \in Prior : rows'[id] = rows[id]
  PROVE  HighestReading(Prior)' = HighestReading(Prior)
<1>1. {LastReading(id) : id \in Prior}' = {LastReading(id) : id \in Prior}
  BY DEF LastReading
<1> QED
  BY <1>1 DEF HighestReading

LEMMA MineSame ==
  ASSUME UNCHANGED <<rows, ask, span>>
  PROVE  Mine' = Mine /\ Prior' = Prior /\ HighestReading(Prior)' = HighestReading(Prior)
<1>1. Mine' = Mine
  BY SelectedSame DEF Mine
<1>2. Prior' = Prior
  BY DEF Prior, Earlier, Of, Active
<1> QED
  BY <1>1, <1>2, HighSame

LEMMA FiguredSame ==
  ASSUME Figured, UNCHANGED <<pc, rows, ask, span, reply, calm>>
  PROVE  Figured'
<1>1. Mine' = Mine /\ Prior' = Prior /\ HighestReading(Prior)' = HighestReading(Prior)
        /\ entries' = entries /\ total' = total /\ carry' = carry /\ summary' = summary
  BY MineSame DEF reply
<1>2. Sum(Mine)' = Sum(Mine) /\ Sum(entries)' = Sum(entries)
  BY <1>1 DEF Sum
<1>3. Kms' = Kms /\ Count' = Count
  BY <1>1 DEF Kms, Count
<1>4. Listed'
  BY <1>1 DEF Figured, Listed
<1>5. Added'
  BY <1>1, <1>2, <1>3 DEF Figured, Added
<1>6. Carried'
  BY <1>1, <1>2 DEF Figured, Carried
<1>7. Whole'
  BY <1>1 DEF Figured, Whole
<1> QED
  BY <1>4, <1>5, <1>6, <1>7 DEF Figured

LEMMA FiguredElsewhere ==
  ASSUME pc' \notin ReportSteps \cup PrintSteps \/ pc' = "entries"
  PROVE  Figured'
  BY DEF Figured, Listed, Whole, Added, Carried, ReportSteps, PrintSteps

-----------------------------------------------------------------------------
(* All rows up to the end of the period of a printed log, which are those  *)
(* of the period and those before it.                                      *)
UpTo == {id \in Of(ask.vehicle) : NotAfter(rows[id].date, span.last)}

LogSeen ==
  /\ Observed = {<<id, rows[id]>> : id \in UpTo}
  /\ Mine = {id \in UpTo : NotAfter(span.first, rows[id].date)}
  /\ Prior = {id \in UpTo : ~NotAfter(span.first, rows[id].date)}

LEMMA SeesLog ==
  ASSUME Inv, ask \in Log, span \in Span, NotAfter(span.first, span.last)
  PROVE  LogSeen
<1> DEFINE q == [span EXCEPT !.first = Always.first]
<1>1. ask.what = "print" /\ ask # None /\ span # Failed
  <2>1. span.first \in Date
    BY DEF Span
  <2>2. ask \in Ask
    BY DEF Ask
  <2> QED
    BY <2>1, <2>2, UnreadAssumption, ReadingAssumption DEF Failed, Log
<1>2. q.first = On(1, 1, 1) /\ q.last = span.last
  BY DEF Always, Span
<1>3. span.first \in Date /\ span.last \in Date
  BY DEF Span
<1>4. \A id \in Of(ask.vehicle) : rows[id].date \in Date
  BY ReadingsOf DEF Inv, TypeOK, Of, Active
<1>5. \A x \in Date : NotAfter(On(1, 1, 1), x)
  <2> SUFFICES ASSUME NEW x \in Date PROVE NotAfter(On(1, 1, 1), x)
    OBVIOUS
  <2>1. x.year \in Year /\ x.month \in 1..12 /\ x.day \in 1..31
    BY DateFields
  <2>2. x.year \in Int /\ x.year >= 1
    <3>1. \A y \in Year : y \in Int /\ y >= 1
      BY DEF Year
    <3> QED
      BY <2>1, <3>1
  <2> QED
    BY <2>1, <2>2 DEF NotAfter, On
<1>6. Selected(ask.vehicle, q) = UpTo
  BY <1>2, <1>4, <1>5 DEF Selected, Covers, UpTo
<1>7. Observed = {<<id, rows[id]>> : id \in Selected(ask.vehicle, q)}
  BY <1>1 DEF Observed
<1>8. Mine = {id \in UpTo : NotAfter(span.first, rows[id].date)}
  BY DEF Mine, Selected, Covers, UpTo
<1>9. Prior = {id \in UpTo : ~NotAfter(span.first, rows[id].date)}
  <2>1. ASSUME NEW x \in Date, ~NotAfter(span.first, x)
        PROVE  NotAfter(x, span.last)
    BY <1>3, <2>1, DateOrder
  <2> QED
    BY <1>4, <2>1 DEF Prior, Earlier, UpTo
<1> QED
  BY <1>6, <1>7, <1>8, <1>9 DEF LogSeen

LogAsked == ask \in Log /\ span \in Span /\ NotAfter(span.first, span.last)

LEMMA SeesLogNext == Inv' /\ LogAsked' => LogSeen'
<1>1. Inv /\ LogAsked => LogSeen
  BY SeesLog DEF LogAsked
<1> QED
  BY <1>1, PTL

(* As long as calm is still the rows of a log and those before are what they were. *)
LEMMA LogKept ==
  ASSUME Inv, Inv', UNCHANGED <<ask, span>>, Watch, calm' = "still",
         ask \in Log, span \in Span, NotAfter(span.first, span.last)
  PROVE  /\ calm = "still" /\ Mine' = Mine /\ Prior' = Prior
         /\ \A id \in Mine \cup Prior : rows'[id] = rows[id]
<1>1. LogSeen /\ LogSeen'
  <2>1. LogAsked /\ LogAsked'
    BY DEF LogAsked
  <2> QED
    BY <2>1, SeesLog, SeesLogNext DEF LogAsked
<1>2. Observed' = Observed /\ calm = "still"
  BY DEF Watch, Inv, TypeOK
<1>3. {<<id, rows'[id]>> : id \in UpTo'} = {<<id, rows[id]>> : id \in UpTo}
  BY <1>1, <1>2 DEF LogSeen
<1>4. ASSUME NEW id \in UpTo
      PROVE  id \in UpTo' /\ rows'[id] = rows[id]
  <2>1. <<id, rows[id]>> \in {<<i, rows'[i]>> : i \in UpTo'}
    BY <1>3
  <2>2. PICK i \in UpTo' : <<id, rows[id]>> = <<i, rows'[i]>>
    BY <2>1
  <2> QED
    BY <2>2
<1>5. ASSUME NEW id \in UpTo'
      PROVE  id \in UpTo
  <2>1. <<id, rows'[id]>> \in {<<i, rows[i]>> : i \in UpTo}
    BY <1>3
  <2>2. PICK i \in UpTo : <<id, rows'[id]>> = <<i, rows[i]>>
    BY <2>1
  <2> QED
    BY <2>2
<1>6. Mine = {id \in UpTo : NotAfter(span.first, rows[id].date)}
        /\ Prior = {id \in UpTo : ~NotAfter(span.first, rows[id].date)}
        /\ Mine' = {id \in UpTo' : NotAfter(span.first, rows'[id].date)}
        /\ Prior' = {id \in UpTo' : ~NotAfter(span.first, rows'[id].date)}
  BY <1>1 DEF LogSeen
<1>7. Mine' = Mine /\ Prior' = Prior
  BY <1>4, <1>5, <1>6
<1>8. \A id \in Mine \cup Prior : rows'[id] = rows[id]
  BY <1>4, <1>6
<1> QED
  BY <1>2, <1>7, <1>8

-----------------------------------------------------------------------------
(* What others write. *)
LEMMA GrownSums ==
  ASSUME Inv, Inv', Grown, NEW S \in SUBSET Mine
  PROVE  /\ SumOver(KmIn(rows'), S) = Sum(S)
         /\ Sum(S) \in Int /\ Sum(Mine) \in Int /\ Sum(Mine)' \in Int
         /\ Sum(S) <= Sum(Mine)' /\ Sum(Mine) <= Sum(Mine)'
<1> DEFINE f == KmIn(rows')
<1>1. Mine \in SUBSET Ids /\ Mine' \in SUBSET Ids /\ Mine \subseteq Mine' /\ S \subseteq Mine
  BY MineDated, MineDatedNext DEF Dated, Grown
<1>2. f \in [Ids -> Int] /\ \A id \in Ids : f[id] >= 0
  <2>1. rows' \in [Ids -> Row \cup {None, Gone}]
    BY DEF Inv, TypeOK
  <2> QED
    BY <2>1, KmType
<1>3. \A id \in Mine : rows'[id] = rows[id]
  BY DEF Grown
<1>4. SumOver(f, S) = Sum(S) /\ SumOver(f, Mine) = Sum(Mine)
  <2>1. S \in SUBSET Ids /\ \A id \in S : rows'[id] = rows[id]
    BY <1>1, <1>3
  <2> QED
    BY <1>1, <1>3, <2>1, SumKept DEF Sum
<1>5. IsFiniteSet(Ids)
  BY ReadingAssumption
<1> HIDE DEF f
<1>6. SumOver(f, S) \in Int /\ SumOver(f, Mine) \in Int /\ SumOver(f, Mine') \in Int
        /\ SumOver(f, S) <= SumOver(f, Mine') /\ SumOver(f, Mine) <= SumOver(f, Mine')
  <2>1. S \in SUBSET Ids /\ S \subseteq Mine'
    BY <1>1
  <2>2. \A A \in SUBSET Ids : SumOver(f, A) \in Int
    BY <1>2, <1>5, SumIsInt
  <2>3. \A A, B \in SUBSET Ids : A \subseteq B => SumOver(f, A) <= SumOver(f, B)
    BY <1>2, <1>5, SumGrows
  <2> QED
    BY <1>1, <2>1, <2>2, <2>3
<1>7. Sum(Mine)' = SumOver(f, Mine')
  BY DEF Sum, f
<1> QED
  BY <1>4, <1>6, <1>7 DEF f

LEMMA WriteListed ==
  ASSUME Inv, Inv', Figured, Quiet, Watch
  PROVE  Listed' /\ Whole' /\ Added'
<1>1. /\ pc' = pc /\ ask' = ask /\ span' = span /\ entries' = entries /\ total' = total
      /\ summary' = summary /\ Kms' = Kms /\ Count' = Count
  BY DEF Quiet, reply, Kms, Count
<1>2. ASSUME pc \in {"total", "summary", "reported"}, calm' # "disturbed"
      PROVE  /\ Grown /\ entries \in SUBSET Mine
             /\ Sum(entries)' = Sum(entries)
             /\ Sum(entries) \in Int /\ Sum(Mine) \in Int /\ Sum(Mine)' \in Int
             /\ Sum(entries) <= Sum(Mine)' /\ Sum(Mine) <= Sum(Mine)'
             /\ Cardinality(entries) \in Nat
  <2>1. ask \in Report /\ span \in Span
    BY <1>2 DEF Inv, Served, TypeOK, ReportSteps
  <2>2. Grown
    BY <1>1, <1>2, <2>1, WatchGrown
  <2>3. entries \in SUBSET Mine
    BY <1>2, <2>2 DEF Figured, Listed, Grown
  <2>4. Sum(entries)' = SumOver(KmIn(rows'), entries)
    BY <1>1 DEF Sum
  <2>5. Cardinality(entries) \in Nat
    BY <2>3, MineThere, FS_Subset, FS_CardinalityType
  <2> QED
    BY <2>2, <2>3, <2>4, <2>5, GrownSums
<1>3. Listed'
  <2> SUFFICES ASSUME pc \in {"total", "summary", "reported"}, calm' # "disturbed"
               PROVE  entries \subseteq Mine'
    BY <1>1 DEF Listed
  <2> QED
    BY <1>2 DEF Grown
<1>4. ASSUME pc = "summary", calm' = "still"
      PROVE  total = Sum(Mine)'
  <2>1. Grown
    BY <1>2, <1>4
  <2>2. calm = "still" /\ Mine' = Mine /\ \A id \in Mine : rows'[id] = rows[id]
    BY <1>4, <2>1 DEF Grown
  <2>3. total = Sum(Mine)
    BY <1>4, <2>2 DEF Figured, Added
  <2>4. Sum(Mine)' = SumOver(KmIn(rows'), Mine)
    BY <2>2 DEF Sum
  <2>5. SumOver(KmIn(rows'), Mine) = Sum(Mine)
    BY <2>1, GrownSums
  <2> QED
    BY <2>3, <2>4, <2>5
<1>5. ASSUME pc = "summary", calm' = "grew"
      PROVE  Sum(entries)' <= total /\ total <= Sum(Mine)'
  <2>1. /\ Grown /\ Sum(entries)' = Sum(entries) /\ entries \in SUBSET Mine
        /\ Sum(entries) \in Int /\ Sum(Mine) \in Int /\ Sum(Mine)' \in Int
        /\ Sum(Mine) <= Sum(Mine)'
    BY <1>2, <1>5
  <2>2. calm \in {"still", "grew"}
    BY <2>1 DEF Grown, Inv, TypeOK
  <2>3. Sum(entries) <= Sum(Mine)
    BY <2>1, MineSum
  <2>4. CASE calm = "still"
    <3>1. total = Sum(Mine)
      BY <1>5, <2>4 DEF Figured, Added
    <3> QED
      BY <2>1, <2>3, <3>1
  <2>5. CASE calm = "grew"
    <3>1. Sum(entries) <= total /\ total <= Sum(Mine)
      BY <1>5, <2>5 DEF Figured, Added
    <3>2. total \in Int
      BY <1>5, <2>5 DEF Figured, Whole
    <3> QED
      BY <2>1, <3>1, <3>2
  <2> QED
    BY <2>2, <2>4, <2>5
<1>6. ASSUME pc = "reported", calm' = "still"
      PROVE  total = Sum(entries)' /\ Kms = total /\ Count = Cardinality(entries)
  <2>1. Grown /\ Sum(entries)' = Sum(entries)
    BY <1>2, <1>6
  <2>2. calm = "still"
    BY <1>6, <2>1 DEF Grown
  <2> QED
    BY <1>6, <2>1, <2>2 DEF Figured, Added
<1>7. ASSUME pc = "reported", calm' = "grew"
      PROVE  Sum(entries)' <= total /\ total <= Kms /\ Cardinality(entries) <= Count
  <2>1. Grown /\ Sum(entries)' = Sum(entries) /\ Sum(entries) \in Int /\ Cardinality(entries) \in Nat
    BY <1>2, <1>7
  <2>2. calm \in {"still", "grew"}
    BY <2>1 DEF Grown, Inv, TypeOK
  <2>3. CASE calm = "still"
    <3>1. total = Sum(entries) /\ Kms = total /\ Count = Cardinality(entries)
      BY <1>7, <2>3 DEF Figured, Added
    <3> QED
      BY <2>1, <3>1
  <2>4. CASE calm = "grew"
    BY <1>7, <2>1, <2>4 DEF Figured, Added
  <2> QED
    BY <2>2, <2>3, <2>4
<1>8. Added'
  BY <1>1, <1>4, <1>5, <1>6, <1>7 DEF Added
<1>9. Whole'
  <2>1. calm' # "disturbed" => calm # "disturbed"
    BY DEF Watch
  <2> QED
    BY <1>1, <2>1 DEF Figured, Whole
<1> QED
  BY <1>3, <1>8, <1>9

LEMMA WriteCarried ==
  ASSUME Inv, Inv', Figured, Quiet, Watch
  PROVE  Carried'
<1>1. /\ pc' = pc /\ ask' = ask /\ span' = span /\ entries' = entries /\ total' = total
      /\ carry' = carry
  BY DEF Quiet, reply
<1>2. pc \in PrintSteps => NotAfter(span.first, span.last)
  BY DEF Figured, Carried
<1>3. ASSUME calm' = "still", pc \in {"carry", "printed"}
      PROVE  /\ calm = "still" /\ Sum(entries)' = Sum(entries)
             /\ HighestReading(Prior)' = HighestReading(Prior)
  <2>1. ask \in Log /\ span \in Span /\ NotAfter(span.first, span.last)
    BY <1>2, <1>3 DEF Inv, Served, TypeOK, PrintSteps
  <2>2. /\ calm = "still" /\ Mine' = Mine /\ Prior' = Prior
        /\ \A id \in Mine \cup Prior : rows'[id] = rows[id]
    BY <1>1, <1>3, <2>1, LogKept
  <2>3. entries = Mine
    BY <1>3, <2>2 DEF Inv, RowsShown, Mine
  <2>4. Sum(entries)' = SumOver(KmIn(rows'), entries)
    BY <1>1 DEF Sum
  <2>5. SumOver(KmIn(rows'), entries) = Sum(entries)
    BY <2>2, <2>3, MineThere, SumKept DEF Sum
  <2>6. HighestReading(Prior)' = HighestReading(Prior)
    BY <2>2, HighSame
  <2> QED
    BY <2>2, <2>4, <2>5, <2>6
<1> QED
  BY <1>1, <1>2, <1>3 DEF Carried, Figured

LEMMA OthersFigured ==
  ASSUME Inv, Inv', Figured, Others
  PROVE  Figured'
<1>1. CASE Midnight
  BY <1>1, FiguredSame DEF Midnight, Quiet
<1>2. CASE ~Midnight
  <2>1. Quiet /\ Watch
    BY <1>2 DEF Others, Record, Remove, Revise, RemoveVehicle
  <2> QED
    BY <2>1, WriteListed, WriteCarried DEF Figured
<1> QED
  BY <1>1, <1>2

-----------------------------------------------------------------------------
(* The statements of a report. *)
LEMMA EntriesFigured ==
  ASSUME Inv, ReadEntries
  PROVE  Figured'
<1>1. pc' = "total" /\ entries' = Mine /\ UNCHANGED <<rows, ask, span>>
  BY DEF ReadEntries, Mine, table
<1>2. entries' = Mine'
  BY <1>1, MineSame
<1> QED
  BY <1>1, <1>2 DEF Figured, Listed, Whole, Added, Carried, PrintSteps

LEMMA TotalFigured ==
  ASSUME Inv, Figured, ReadTotal
  PROVE  Figured'
<1>1. /\ pc = "total" /\ pc' = "summary" /\ total' = KmOf(Mine)
      /\ UNCHANGED <<rows, ask, span, entries, calm>>
  BY DEF ReadTotal, Mine, table
<1>2. Mine' = Mine
  BY <1>1, MineSame
<1>3. Sum(Mine)' = Sum(Mine) /\ Sum(entries)' = Sum(entries)
  BY <1>1, <1>2 DEF Sum
<1>4. total' = Sum(Mine) /\ Sum(Mine) \in Int
  BY <1>1, MineSum
<1>5. calm # "disturbed" => entries \subseteq Mine /\ Sum(entries) <= Sum(Mine)
  <2>1. calm # "disturbed" => entries \in SUBSET Mine
    BY <1>1 DEF Figured, Listed
  <2> QED
    BY <2>1, MineSum
<1>6. Listed' /\ Whole'
  BY <1>1, <1>2, <1>4, <1>5 DEF Listed, Whole
<1>7. Added'
  <2>1. total' = Sum(Mine)' /\ total' <= Sum(Mine)'
    BY <1>3, <1>4
  <2>2. calm' = "grew" => Sum(entries)' <= total'
    BY <1>1, <1>3, <1>4, <1>5
  <2> QED
    BY <1>1, <2>1, <2>2 DEF Added
<1>8. Carried'
  BY <1>1 DEF Carried, PrintSteps
<1> QED
  BY <1>6, <1>7, <1>8 DEF Figured

(* The rows of the vehicles of the summary are those of the report. *)
Share(v) == IF ask.vehicle \in {None, v} THEN Selected(v, span) ELSE {}

LEMMA SharesPart ==
  ASSUME Inv, ask \in Report
  PROVE  /\ Parted([v \in Vehicles |-> Share(v)], Vehicles, Ids)
         /\ Together([v \in Vehicles |-> Share(v)], Vehicles) = Mine
         /\ \A v \in Vehicles : Share(v) \in SUBSET Mine
<1>1. ask.vehicle \in Vehicles \cup {None} /\ None \notin Vehicles
  BY ReadingAssumption DEF Report
<1>2. \A id \in Ids : Active(id) => rows[id].vehicle \in Vehicles
  BY ReadingsOf DEF Inv, TypeOK, Active
<1>3. ASSUME NEW v \in Vehicles
      PROVE  Share(v) = {id \in Mine : rows[id].vehicle = v}
  BY <1>1, <1>2 DEF Share, Mine, Selected, Of
<1>4. \A id \in Mine : id \in Ids /\ rows[id].vehicle \in Vehicles
  BY <1>2 DEF Mine, Selected, Of
<1>5. Parted([v \in Vehicles |-> Share(v)], Vehicles, Ids)
  <2>1. \A v \in Vehicles : Share(v) \in SUBSET Ids
    BY <1>3, <1>4
  <2>2. \A v, w \in Vehicles : v # w => Share(v) \cap Share(w) = {}
    BY <1>3
  <2> QED
    BY <2>1, <2>2 DEF Parted
<1>6. Together([v \in Vehicles |-> Share(v)], Vehicles) = Mine
  BY <1>3, <1>4 DEF Together
<1>7. \A v \in Vehicles : Share(v) \in SUBSET Mine
  BY <1>3
<1> QED
  BY <1>5, <1>6, <1>7

LEMMA SummarySums ==
  ASSUME Inv, pc = "summary", ReadSummary
  PROVE  Kms' = Sum(Mine) /\ Count' = Cardinality(Mine)
<1> DEFINE P == [v \in Vehicles |-> Share(v)]
           one == [id \in Ids |-> 1]
           kms == [v \in Vehicles |-> summary'[v].km]
           cnt == [v \in Vehicles |-> summary'[v].count]
<1>1. ask \in Report
  BY DEF Inv, Served, ReportSteps
<1>2. Parted(P, Vehicles, Ids) /\ Together(P, Vehicles) = Mine
        /\ \A v \in Vehicles : Share(v) \in SUBSET Mine
  BY <1>1, SharesPart
<1>3. summary' = [v \in Vehicles |-> [count |-> Cardinality(Share(v)), km |-> KmOf(Share(v))]]
  BY DEF ReadSummary, Share
<1>4. Kms' = SumOver(kms, Vehicles) /\ Count' = SumOver(cnt, Vehicles)
  <2>1. Kms' = SumFunction(kms) /\ Count' = SumFunction(cnt)
    BY DEF Kms, Count
  <2>2. DOMAIN kms = Vehicles /\ DOMAIN cnt = Vehicles
    OBVIOUS
  <2> HIDE DEF kms, cnt
  <2> QED
    BY <2>1, <2>2, SummaryIs
<1>5. /\ IsFiniteSet(Ids) /\ IsFiniteSet(Vehicles) /\ KmIn(rows) \in [Ids -> Int]
      /\ one \in [Ids -> Int] /\ Mine \in SUBSET Ids /\ \A id \in Mine : Active(id)
  BY MineThere, ReadingAssumption
<1>6. \A v \in Vehicles : kms[v] = SumOver(KmIn(rows), P[v])
  <2> SUFFICES ASSUME NEW v \in Vehicles PROVE kms[v] = SumOver(KmIn(rows), P[v])
    OBVIOUS
  <2>1. kms[v] = KmOf(Share(v)) /\ P[v] = Share(v)
    BY <1>3
  <2>2. Share(v) \in SUBSET Ids /\ \A id \in Share(v) : Active(id)
    BY <1>2, <1>5
  <2> QED
    BY <2>1, <2>2, KmOfIs DEF Sum
<1>7. \A v \in Vehicles : cnt[v] = SumOver(one, P[v])
  <2> SUFFICES ASSUME NEW v \in Vehicles PROVE cnt[v] = SumOver(one, P[v])
    OBVIOUS
  <2>1. cnt[v] = Cardinality(Share(v)) /\ P[v] = Share(v)
    BY <1>3
  <2>2. Share(v) \in SUBSET Ids
    BY <1>2, <1>5
  <2> QED
    BY <1>5, <2>1, <2>2, CountIsSum
<1>8. Cardinality(Mine) = SumOver(one, Mine)
  BY <1>5, CountIsSum
<1> HIDE DEF P, kms, cnt, one
<1>9. SumOver(kms, Vehicles) = SumOver(KmIn(rows), Mine)
  <2>1. SumOver(kms, Vehicles) = SumOver(KmIn(rows), Together(P, Vehicles))
    BY <1>2, <1>5, <1>6, SumOfParts
  <2> QED
    BY <1>2, <2>1
<1>10. SumOver(cnt, Vehicles) = SumOver(one, Mine)
  <2>1. SumOver(cnt, Vehicles) = SumOver(one, Together(P, Vehicles))
    BY <1>2, <1>5, <1>7, SumOfParts
  <2> QED
    BY <1>2, <2>1
<1> QED
  BY <1>4, <1>8, <1>9, <1>10 DEF Sum

LEMMA SummaryFigured ==
  ASSUME Inv, Figured, ReadSummary
  PROVE  Figured'
<1>1. /\ pc = "summary" /\ pc' = "reported"
      /\ UNCHANGED <<rows, ask, span, entries, total, calm>>
  BY DEF ReadSummary, table
<1>2. Mine' = Mine
  BY <1>1, MineSame
<1>3. Sum(entries)' = Sum(entries)
  BY <1>1 DEF Sum
<1>4. Kms' = Sum(Mine) /\ Count' = Cardinality(Mine)
  BY <1>1, SummarySums
<1>5. calm # "disturbed" => entries \in SUBSET Mine
  BY <1>1 DEF Figured, Listed
<1>6. calm = "still" => entries = Mine
  BY <1>1 DEF Inv, RowsShown, Mine
<1>7. entries \in SUBSET Mine => Cardinality(entries) <= Cardinality(Mine)
  BY MineThere, FS_Subset
<1>8. Listed' /\ Whole'
  BY <1>1, <1>2, <1>5 DEF Figured, Listed, Whole
<1>9. Added'
  BY <1>1, <1>3, <1>4, <1>5, <1>6, <1>7 DEF Figured, Added
<1>10. Carried'
  BY <1>1 DEF Carried, PrintSteps
<1> QED
  BY <1>8, <1>9, <1>10 DEF Figured

-----------------------------------------------------------------------------
(* The statements of a printed log. *)
LEMMA MonthForward ==
  ASSUME NEW y \in Year, NEW m \in 1..12
  PROVE  NotAfter(MonthPeriod(y, m).first, MonthPeriod(y, m).last)
<1>1. y \in Int /\ DaysIn(y, m) \in 28..31
  BY YearIsInt, DaysInRange
<1>2. MonthPeriod(y, m) = [first |-> On(y, m, 1), last |-> On(y, m, DaysIn(y, m))]
  BY <1>1, FirstDayBefore DEF MonthPeriod
<1> QED
  BY <1>1, <1>2 DEF NotAfter, On

LEMMA QuarterForward ==
  ASSUME NEW y \in Year, NEW q \in 1..4
  PROVE  NotAfter(QuarterPeriod(y, q).first, QuarterPeriod(y, q).last)
<1> DEFINE s == (q - 1) * 3 + 1
           e == s + 2
<1>1. y \in Int
  BY YearIsInt
<1>2. s \in 1..12 /\ e \in 1..12 /\ (e = 12 <=> q = 4) /\ e + 1 = s + 3 /\ s < e
  OBVIOUS
<1>3. QuarterPeriod(y, q) = [first |-> On(y, s, 1),
        last |-> DayBefore(IF e = 12 THEN On(y + 1, 1, 1) ELSE On(y, e + 1, 1))]
  BY <1>2 DEF QuarterPeriod
<1> HIDE DEF s, e
<1>4. QuarterPeriod(y, q) = [first |-> On(y, s, 1), last |-> On(y, e, DaysIn(y, e))]
  BY <1>1, <1>2, <1>3, FirstDayBefore
<1> QED
  BY <1>1, <1>2, <1>4 DEF NotAfter, On

LEMMA PrintForward ==
  ASSUME NEW x \in Date, NEW t \in Text, PrintPeriod(t, x) # Failed
  PROVE  NotAfter(PrintPeriod(t, x).first, PrintPeriod(t, x).last)
<1>1. x.year \in Year /\ x.month \in 1..12
  BY DateFields
<1>2. QuarterOf(x.month) \in 1..4
  BY <1>1 DEF QuarterOf
<1>3. \/ \E y \in Year, m \in 1..12 : PrintPeriod(t, x) = MonthPeriod(y, m)
      \/ \E y \in Year, q \in 1..4 : PrintPeriod(t, x) = QuarterPeriod(y, q)
  BY <1>1, <1>2 DEF PrintPeriod, CurrentMonth, CurrentQuarter, Representable
<1> QED
  BY <1>3, MonthForward, QuarterForward

LEMMA VehicleFigured ==
  ASSUME Inv, ReadVehicle
  PROVE  Figured'
<1>1. /\ pc = "vehicle" /\ pc' = IF span' = Failed THEN "failed" ELSE "log"
      /\ span' = IF ask.vehicle \in vehicles THEN PrintPeriod(ask.text, today) ELSE Failed
  BY DEF ReadVehicle
<1>2. ask.text \in Text /\ today \in Date
  BY <1>1, ReadingAssumption DEF Log, Inv, TypeOK, Served
<1>3. span' # Failed => NotAfter(span'.first, span'.last)
  BY <1>1, <1>2, PrintForward
<1>4. pc' \in {"failed", "log"} /\ (pc' = "log" => span' # Failed)
  BY <1>1
<1> QED
  BY <1>3, <1>4 DEF Figured, Listed, Whole, Added, Carried, PrintSteps

LEMMA LogFigured ==
  ASSUME Inv, Figured, ReadLog \/ ReadCarry
  PROVE  Figured'
<1>1. /\ UNCHANGED <<rows, ask, span, calm>>
      /\ pc \in PrintSteps /\ pc' \in {"carry", "printed"}
  BY DEF ReadLog, ReadCarry, PrintSteps, table
<1>2. Mine' = Mine /\ HighestReading(Prior)' = HighestReading(Prior)
  BY <1>1, MineSame
<1>3. NotAfter(span'.first, span'.last)
  BY <1>1 DEF Figured, Carried
<1>4. CASE ReadLog
  <2>1. entries' = Mine /\ total' = KmOf(entries') /\ pc' = "carry"
    BY <1>4 DEF ReadLog, Mine
  <2>2. total' = Sum(Mine)
    BY <2>1, MineSum
  <2>3. Sum(entries)' = Sum(Mine)
    BY <1>1, <2>1 DEF Sum
  <2> QED
    BY <1>3, <2>1, <2>2, <2>3 DEF Figured, Listed, Whole, Added, Carried
<1>5. CASE ReadCarry
  <2>1. /\ pc = "carry" /\ pc' = "printed" /\ carry' = HighestReading(Prior)
        /\ UNCHANGED <<entries, total>>
    BY <1>5 DEF ReadCarry, Prior
  <2>2. Sum(entries)' = Sum(entries)
    BY <1>1, <2>1 DEF Sum
  <2> QED
    BY <1>1, <1>2, <1>3, <2>1, <2>2 DEF Figured, Listed, Whole, Added, Carried
<1> QED
  BY <1>4, <1>5

LEMMA NextFigured == Inv /\ Inv' /\ Figured /\ [Next]_vars => Figured'
<1> SUFFICES ASSUME Inv, Inv', Figured, [Next]_vars PROVE Figured'
  OBVIOUS
<1>1. CASE UNCHANGED vars
  BY <1>1, FiguredSame DEF vars, table
<1>2. CASE Others
  BY <1>2, OthersFigured
<1>3. CASE OpenList \/ Leave \/ FollowNext \/ ReadPage \/ CountRows \/ ReadPageAgain
  BY <1>3, FiguredElsewhere DEF OpenList, Leave, FollowNext, ReadPage, CountRows, ReadPageAgain,
     Show, ReportSteps, PrintSteps
<1>4. CASE OpenReport \/ OpenPrint
  BY <1>4, FiguredElsewhere DEF OpenReport, OpenPrint, ReportSteps, PrintSteps
<1>5. CASE ReadEntries \/ ReadTotal \/ ReadSummary
  BY <1>5, EntriesFigured, TotalFigured, SummaryFigured
<1>6. CASE ReadVehicle \/ ReadLog \/ ReadCarry
  BY <1>6, VehicleFigured, LogFigured
<1> QED
  BY <1>1, <1>2, <1>3, <1>4, <1>5, <1>6 DEF Next, Reader

LEMMA InitFigured == Init => Figured
  BY DEF Init, Figured, Listed, Whole, Added, Carried, PrintSteps

LEMMA FigureInvariance == Spec => [](Inv /\ Figured)
<1>1. Init => Inv /\ Figured
  BY InitInv, InitFigured
<1>2. (Inv /\ Figured) /\ [Next]_vars => (Inv /\ Figured)'
  BY NextInv, NextFigured
<1> QED
  BY <1>1, <1>2, PTL DEF Spec

LEMMA FiguresOfReport == Inv /\ Figured => FiguresAgree
<1> SUFFICES ASSUME Inv, Figured, pc = "reported", calm # "disturbed"
             PROVE  KmOf(entries) = Sum(entries)
  BY DEF Figured, Added, FiguresAgree, Kms, Count
<1>1. entries \subseteq Mine
  BY DEF Figured, Listed
<1>2. entries \in SUBSET Ids /\ \A id \in entries : Active(id)
  BY <1>1, MineThere
<1> QED
  BY <1>2, KmOfIs

(* The sums of a report are those of the trips it lists, whatever is added *)
(* between its three statements (routes/report.py:88-167).                  *)
THEOREM FiguresTrue == Spec => []FiguresAgree
  BY FigureInvariance, FiguresOfReport, PTL

-----------------------------------------------------------------------------
(* What a log carries over.  Its rows in order, with the readings at which *)
(* they start and end.                                                     *)
After(S)    == {p \in S \X S : Above(p[2], p[1])}
Starts(S)   == [id \in S |-> rows[id].odo[1]]
Ends(S)     == [id \in S |-> rows[id].odo[2]]
Complete(S) == \A id \in S : None \notin {rows[id].odo[1], rows[id].odo[2]}
Gapless(S)  == \A i, j \in S : Adjacent(i, j, S) => rows[i].odo[2] = rows[j].odo[1]

LEMMA UpToDated ==
  ASSUME Inv
  PROVE  /\ Dated(UpTo) /\ IsFiniteSet(UpTo) /\ UpTo \in SUBSET Ids
         /\ \A id \in UpTo : Active(id)
<1>1. UpTo \in SUBSET Ids /\ \A id \in UpTo : Active(id)
  BY DEF UpTo, Of
<1>2. \A id \in UpTo : rows[id].date \in Date
  BY <1>1, ReadingsOf DEF Inv, TypeOK, Active
<1> QED
  BY <1>1, <1>2, FS_Subset, ReadingAssumption DEF Dated

LEMMA LogOrdered ==
  ASSUME Inv
  PROVE  Ordered(UpTo, After(UpTo))
<1>1. \A i, j \in UpTo : <<i, j>> \in After(UpTo) <=> Above(j, i)
  BY DEF After
<1> QED
  BY <1>1, UpToDated, AboveOrder DEF Ordered

LEMMA LogUnbroken ==
  ASSUME Inv, Complete(UpTo), Gapless(UpTo)
  PROVE  Unbroken(UpTo, After(UpTo), Starts(UpTo), Ends(UpTo))
<1>1. \A i, j \in UpTo : <<i, j>> \in After(UpTo) <=> Above(j, i)
  BY DEF After
<1>2. ASSUME NEW id \in UpTo
      PROVE  /\ rows[id].odo[1] \in Int /\ rows[id].odo[2] \in Int
             /\ rows[id].odo[1] <= rows[id].odo[2]
  <2>1. id \in Ids /\ rows[id] \notin {None, Gone} /\ rows \in [Ids -> Row \cup {None, Gone}]
    BY UpToDated DEF Active, Inv, TypeOK
  <2>2. None \notin {rows[id].odo[1], rows[id].odo[2]}
    BY DEF Complete
  <2> QED
    BY <2>1, <2>2, ReadingsOf
<1>3. Starts(UpTo) \in [UpTo -> Int] /\ Ends(UpTo) \in [UpTo -> Int]
        /\ \A i \in UpTo : Starts(UpTo)[i] <= Ends(UpTo)[i]
  BY <1>2 DEF Starts, Ends
<1>4. ASSUME NEW i \in UpTo, NEW j \in UpTo, <<i, j>> \in After(UpTo),
             ~\E k \in UpTo : <<i, k>> \in After(UpTo) /\ <<k, j>> \in After(UpTo)
      PROVE  Ends(UpTo)[i] = Starts(UpTo)[j]
  <2>1. Adjacent(i, j, UpTo)
    BY <1>1, <1>4 DEF Adjacent
  <2> QED
    BY <2>1 DEF Gapless, Starts, Ends
<1> QED
  BY <1>3, <1>4 DEF Unbroken

(* The highest reading of a beginning of such a log is that of its latest row. *)
LEMMA HighestIsLatest ==
  ASSUME Inv, Complete(UpTo), Gapless(UpTo), NEW T, Opening(T, UpTo, After(UpTo)),
         NEW j, Latest(j, T, After(UpTo))
  PROVE  HighestReading(T) = Ends(UpTo)[j]
<1> DEFINE R == {LastReading(id) : id \in T} \ {None}
<1>1. T \subseteq UpTo /\ j \in T
  BY DEF Opening, Latest
<1>2. \A id \in UpTo : Ends(UpTo)[id] \in Int /\ LastReading(id) = Ends(UpTo)[id] /\ Ends(UpTo)[id] # None
  <2>1. \A id \in UpTo : Ends(UpTo)[id] \in Int
    BY LogUnbroken DEF Unbroken
  <2> QED
    BY <2>1 DEF LastReading, Ends, Complete
<1>3. R = {Ends(UpTo)[id] : id \in T}
  BY <1>1, <1>2
<1>4. \A z \in T : Ends(UpTo)[z] <= Ends(UpTo)[j]
  BY UpToDated, LogOrdered, LogUnbroken, EndsRise
<1>5. Ends(UpTo)[j] \in R /\ (\A y \in R : y \in Int /\ Ends(UpTo)[j] >= y)
  BY <1>1, <1>2, <1>3, <1>4
<1> HIDE DEF R
<1>6. Max(R) \in R /\ (\A y \in R : Max(R) >= y)
  BY <1>5 DEF Max
<1>7. Max(R) = Ends(UpTo)[j]
  BY <1>5, <1>6
<1>8. HighestReading(T) = IF R = {} THEN 0 ELSE Max(R)
  BY DEF HighestReading, R
<1> QED
  BY <1>5, <1>7, <1>8

(* The rows before a period are a beginning of the log, and so are all up  *)
(* to its end.                                                             *)
LEMMA Openings ==
  ASSUME Inv, span \in Span, LogSeen, Prior # {}
  PROVE  Opening(Prior, UpTo, After(UpTo)) /\ Opening(UpTo, UpTo, After(UpTo))
<1>1. Prior = {id \in UpTo : ~NotAfter(span.first, rows[id].date)}
  BY DEF LogSeen
<1>2. ASSUME NEW i \in UpTo, NEW j \in Prior, <<i, j>> \in After(UpTo)
      PROVE  i \in Prior
  <2> DEFINE a == rows[i].date
             b == rows[j].date
  <2>1. j \in UpTo /\ a \in Date /\ b \in Date /\ span.first \in Date
    BY <1>1, UpToDated DEF Dated, Span
  <2>2. NotAfter(a, b)
    <3>1. Above(j, i)
      BY <1>2 DEF After
    <3>2. a = b => NotAfter(a, b)
      BY <2>1, DateOrder
    <3> QED
      BY <3>1, <3>2 DEF Above
  <2>3. ~NotAfter(span.first, b)
    BY <1>1
  <2>4. ~NotAfter(span.first, a)
    BY <2>1, <2>2, <2>3, DateOrder
  <2> QED
    BY <1>1, <2>4
<1>3. Opening(Prior, UpTo, After(UpTo))
  BY <1>1, <1>2 DEF Opening
<1>4. Opening(UpTo, UpTo, After(UpTo))
  BY <1>1 DEF Opening
<1> QED
  BY <1>3, <1>4

LEMMA BalanceOf ==
  ASSUME Inv, span \in Span, LogSeen, Prior # {}, Complete(UpTo), Gapless(UpTo)
  PROVE  HighestReading(Prior) + Sum(Mine) = HighestReading(UpTo)
<1> DEFINE O == After(UpTo)
           s == Starts(UpTo)
           f == Ends(UpTo)
           km == [id \in UpTo |-> f[id] - s[id]]
<1>1. Ordered(UpTo, O) /\ Unbroken(UpTo, O, s, f) /\ IsFiniteSet(UpTo) /\ UpTo \in SUBSET Ids
  BY LogOrdered, LogUnbroken, UpToDated
<1>2. Opening(Prior, UpTo, O) /\ Opening(UpTo, UpTo, O)
  BY Openings
<1>3. PICK e \in Prior : Latest(e, Prior, O)
  BY <1>1, <1>2, LatestExists DEF Opening
<1>4. PICK j \in UpTo : Latest(j, UpTo, O)
  BY <1>1, <1>2, LatestExists DEF Opening
<1>5. HighestReading(Prior) = f[e] /\ HighestReading(UpTo) = f[j]
  BY <1>2, <1>3, <1>4, HighestIsLatest
<1>6. Mine = UpTo \ Prior
  BY DEF LogSeen
<1>7. s \in [UpTo -> Int] /\ f \in [UpTo -> Int]
  BY <1>1 DEF Unbroken
<1>8. km \in [UpTo -> Int] /\ \A i \in UpTo : km[i] = f[i] - s[i]
  <2> HIDE DEF f, s
  <2> QED
    BY <1>7
<1>9. f[e] + SumOver(km, UpTo \ Prior) = f[j]
  <2> HIDE DEF O, f, s, km
  <2>1. Prior \subseteq UpTo
    BY <1>2 DEF Opening
  <2> QED
    BY <1>1, <1>2, <1>3, <1>4, <1>8, <2>1, SumsMeet
<1>10. Sum(Mine) = SumOver(km, Mine)
  <2>1. \A id \in UpTo : KmIn(rows)[id] = km[id]
    <3> SUFFICES ASSUME NEW id \in UpTo PROVE KmIn(rows)[id] = km[id]
      OBVIOUS
    <3>1. id \in Ids /\ rows[id] \notin {None, Gone}
      BY UpToDated DEF Active
    <3>2. None \notin {rows[id].odo[1], rows[id].odo[2]}
      BY DEF Complete
    <3> QED
      BY <3>1, <3>2 DEF KmIn, Starts, Ends
  <2>2. Mine \in SUBSET UpTo
    BY <1>6
  <2> HIDE DEF km
  <2> QED
    BY <1>1, <2>1, <2>2, SumAgrees DEF Sum
<1> QED
  BY <1>5, <1>6, <1>9, <1>10

LEMMA BalanceOfLog == Inv /\ Figured => BalanceCarriesOver
<1> SUFFICES ASSUME Inv, Figured, pc = "printed", calm = "still", Complete(UpTo), Gapless(UpTo),
                    \E id \in UpTo : ~NotAfter(span.first, rows[id].date)
             PROVE  carry + total = HighestReading(UpTo)
  BY DEF BalanceCarriesOver, Complete, Gapless, UpTo
<1>1. ask \in Log /\ span \in Span
  BY DEF Inv, Served, TypeOK, PrintSteps
<1>2. NotAfter(span.first, span.last) /\ total = Sum(entries) /\ carry = HighestReading(Prior)
  BY DEF Figured, Carried, PrintSteps
<1>3. LogSeen
  BY <1>1, <1>2, SeesLog
<1>4. Prior # {}
  BY <1>3 DEF LogSeen
<1>5. entries = Mine
  BY DEF Inv, RowsShown, Mine
<1> QED
  BY <1>1, <1>2, <1>3, <1>4, <1>5, BalanceOf

(* In a log without gaps, what a printed period carries over and what was  *)
(* driven in it add up to the last reading of the period, which the next   *)
(* one carries over (routes/report.py:243-287).                            *)
THEOREM BalanceHolds == Spec => []BalanceCarriesOver
  BY FigureInvariance, BalanceOfLog, PTL

=============================================================================
