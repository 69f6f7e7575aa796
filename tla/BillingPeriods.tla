--------------------------- MODULE BillingPeriods ---------------------------
(***************************************************************************)
(* The calendar of billing_export.py: which days a bill covers, how many   *)
(* 15-minute slots lie in them, and what the file is called.               *)
(*                                                                         *)
(* The code computes all three from the date of the run by arithmetic on   *)
(* months and on UTC midnights. Here the days pass one at a time, and what *)
(* passed is the reference. Summer time is what the zone Europe/Zurich     *)
(* does: it changes in the night of the last Sunday of March and October.  *)
(***************************************************************************)
EXTENDS Integers, Sequences

CONSTANTS
    FirstDate,   \* the day the walk begins: the first of a month
    LastDate,    \* the day it ends (a bound)
    MaxMonths    \* largest --months (a bound)

ASSUME FirstDateAssumption == FirstDate \in [y : Nat \ {0}, m : 1 .. 12, d : {1}]
ASSUME MaxMonthsAssumption == MaxMonths \in Nat \ {0}

VARIABLES
    today,       \* the date of the run, in Zurich
    elapsed,     \* slots since the walk began, at today's midnight
    months       \* of each month begun: its first day, the slots elapsed then

calendar == <<today, elapsed, months>>

Date(y, m, d) == [y |-> y, m |-> m, d |-> d]

Leap(y) == y % 4 = 0 /\ (y % 100 # 0 \/ y % 400 = 0)
Days(y, m) == CASE m = 2 -> (IF Leap(y) THEN 29 ELSE 28)
                [] m \in {4, 6, 9, 11} -> 30
                [] OTHER -> 31

\* date.toordinal: days since 1 January of the year 1, that one included.
Before(m) == <<0, 31, 59, 90, 120, 151, 181, 212, 243, 273, 304, 334>>[m]
Ordinal(day) ==
    LET y == day.y - 1
    IN 365 * y + y \div 4 - y \div 100 + y \div 400
         + Before(day.m) + (IF Leap(day.y) /\ day.m > 2 THEN 1 ELSE 0) + day.d

DayAfter(day) ==
    IF day.d < Days(day.y, day.m) THEN [day EXCEPT !.d = @ + 1]
    ELSE IF day.m < 12 THEN Date(day.y, day.m + 1, 1) ELSE Date(day.y + 1, 1, 1)

DayBefore(day) ==
    IF day.d > 1 THEN [day EXCEPT !.d = @ - 1]
    ELSE IF day.m > 1 THEN Date(day.y, day.m - 1, Days(day.y, day.m - 1))
    ELSE Date(day.y - 1, 12, 31)

\* Ordinals of Sundays are multiples of 7.
LastSunday(y, m) == LET last == Ordinal(Date(y, m, Days(y, m))) IN last - (last % 7)

\* The slots Zurich is ahead of UTC at a midnight.
Offset(day) ==
    IF Ordinal(day) > LastSunday(day.y, 3) /\ Ordinal(day) =< LastSunday(day.y, 10)
    THEN 8 ELSE 4

-----------------------------------------------------------------------------
(* The arithmetic of the code.                                             *)

\* _month_end
MonthEnd(y, m) == DayBefore(Date(y + m \div 12, (m % 12) + 1, 1))

\* Mutant: the month the period begins in counts from 1.
LastFullMonths_fromOne(day, n) ==
    LET last == DayBefore([day EXCEPT !.d = 1])
        index == last.y * 12 + last.m - (n - 1)
    IN [first |-> Date(index \div 12, (index % 12) + 1, 1), last |-> last]

\* last_full_months: the n complete months before the one the day is in.
LastFullMonths(day, n) ==
    LET last == DayBefore([day EXCEPT !.d = 1])
        index == last.y * 12 + last.m - 1 - (n - 1)
    IN [first |-> Date(index \div 12, (index % 12) + 1, 1), last |-> last]

\* Mutant: every day has 96 slots.
UtcMidnight_noOffset(day) == Ordinal(day) * 96

\* A midnight of Zurich in UTC, in slots.
UtcMidnight(day) == Ordinal(day) * 96 - Offset(day)

\* expected_slots
ExpectedSlots(p) == UtcMidnight(DayAfter(p.last)) - UtcMidnight(p.first)

\* file_stem: the quarter, with two digits of the year, or the two days.
FileStem(p) ==
    IF /\ p.first.d = 1
       /\ (p.first.m % 3) = 1
       /\ p.last = MonthEnd(p.first.y, p.first.m + 2)
    THEN <<"quarter", p.first.y % 100, (p.first.m - 1) \div 3 + 1>>
    ELSE <<"days", p.first, p.last>>

-----------------------------------------------------------------------------
(* The days pass.                                                          *)

CalendarInit ==
    /\ today = FirstDate
    /\ elapsed = 0
    /\ months = <<[first |-> FirstDate, slots |-> 0]>>

\* 23 hours on the last Sunday of March, 25 on that of October.
SlotsOf(day) == CASE day.m = 3 /\ Ordinal(day) = LastSunday(day.y, 3) -> 92
                  [] day.m = 10 /\ Ordinal(day) = LastSunday(day.y, 10) -> 100
                  [] OTHER -> 96

Pass ==
    /\ today # LastDate
    /\ today' = DayAfter(today)
    /\ elapsed' = elapsed + SlotsOf(today)
    /\ months' = IF today'.d = 1
                 THEN Append(months, [first |-> today', slots |-> elapsed'])
                 ELSE months

CalendarSpec == CalendarInit /\ [][Pass]_calendar

Current == months[Len(months)]
NMonths == {n \in 1 .. MaxMonths : n < Len(months)}
Earlier(n) == months[Len(months) - n]

\* The bills that can be asked for today: months, or days up to yesterday.
ByMonths == {LastFullMonths(today, n) : n \in NMonths}
ByDays == IF Len(months) = 1 THEN {} ELSE
            {[first |-> months[i].first, last |-> DayBefore(today)]
               : i \in {j \in 1 .. Len(months) : months[j].first # today}}

-----------------------------------------------------------------------------
\* "The N full calendar months before the run date" (billing_export): the
\* period begins with the month n before this one, over year ends too, and
\* stops the day before this month began.
MonthsAreWhole ==
    \A n \in NMonths :
        LET p == LastFullMonths(today, n)
        IN p.first = Earlier(n).first /\ DayAfter(p.last) = Current.first

\* A complete period has as many rows of a meter and a segment as slots passed
\* in it, with both changes of clock: a bill on stored data is complete, or
\* warned about, on the strength of this number (build_rows).
SlotsAreCounted ==
    /\ \A n \in NMonths : ExpectedSlots(LastFullMonths(today, n))
                            = Current.slots - Earlier(n).slots
    /\ \A p \in ByDays : \A i \in 1 .. Len(months) : months[i].first = p.first
          => ExpectedSlots(p) = elapsed - months[i].slots

\* The name is all that keeps a bill from taking the place of another one
\* (export): different periods have different names.
StemIdentifiesPeriod ==
    \A p, q \in ByMonths \cup ByDays : FileStem(p) = FileStem(q) => p = q

\* "import_factures_26T3 for a calendar quarter": the bill of three months
\* asked for in the first month of a quarter is named after the quarter before,
\* that of the old year in January.
QuarterIsNamed ==
    3 \in NMonths /\ today.m % 3 = 1 =>
        FileStem(LastFullMonths(today, 3)) =
            IF today.m = 1 THEN <<"quarter", (today.y - 1) % 100, 4>>
                           ELSE <<"quarter", today.y % 100, (today.m - 1) \div 3>>

\* What the code computes from the date of the run alone, slots and names, is
\* what the days that passed say.
CalendarIsRight == SlotsAreCounted /\ StemIdentifiesPeriod /\ QuarterIsNamed

=============================================================================
