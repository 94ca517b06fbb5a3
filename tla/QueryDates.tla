----------------------------- MODULE QueryDates -----------------------------
(***************************************************************************)
(* The dates of a search query: relative expressions (app/search/dates.py) *)
(* and the check of the range (_date_range in app/search/prompts.py).      *)
(*                                                                         *)
(* A date is its ordinal in the calendar of Python: 1 is January 1 of the  *)
(* year 1, a Monday.  Months count from January of the year 0.             *)
(***************************************************************************)
EXTENDS Integers, FiniteSets, FiniteSetsExt

NoDate == -1            \* a missing date
BadDate == -2           \* of the right form, but in no calendar
Absent == -10000000     \* a missing offset or weekday
NoDates == <<NoDate, NoDate>>

LastYear == 9999
Leap(y) == (y % 4) = 0 /\ ((y % 100) # 0 \/ (y % 400) = 0)
DaysBeforeYear(y) == 365 * (y - 1) + ((y - 1) \div 4) - ((y - 1) \div 100) + ((y - 1) \div 400)
DaysBeforeMonth == <<0, 31, 59, 90, 120, 151, 181, 212, 243, 273, 304, 334>>

Ordinal(y, m, d) ==
    DaysBeforeYear(y) + DaysBeforeMonth[m] + (IF m > 2 /\ Leap(y) THEN 1 ELSE 0) + d
DaysInMonth(y, m) ==
    IF m = 2 THEN (IF Leap(y) THEN 29 ELSE 28) ELSE IF m \in {4, 6, 9, 11} THEN 30 ELSE 31
FirstOfMonth(k) == Ordinal(k \div 12, (k % 12) + 1, 1)
Weekday(date) == (date + 6) % 7              \* Monday is 0

InCalendar(date) == 1 <= date /\ date <= DaysBeforeYear(LastYear + 1)

\* date and timedelta raise outside of the calendar, which gives None.
Span(first, last) == IF InCalendar(first) /\ InCalendar(last) THEN <<first, last>> ELSE NoDates

MonthRange_SameYear(k, months) ==
    Span(FirstOfMonth(k), FirstOfMonth(12 * (k \div 12) + ((k + months) % 12)) - 1)

\* _month_range
MonthRange(k, months) == Span(FirstOfMonth(k), FirstOfMonth(k + months) - 1)

SeasonStart == [SPRING |-> 3, SUMMER |-> 6, FALL |-> 9, WINTER |-> 12]

\* The fields that the unit cannot do without.
Incomplete(expr) ==
    \/ expr.unit = "none"
    \/ expr.unit \in {"day", "week", "month", "year"} /\ expr.offset = Absent
    \/ expr.unit = "weekday" /\ expr.weekday = Absent
    \/ expr.unit = "season" /\ expr.season = "none"

\* resolve_relative_date; today is [year, month, day].
ResolveRelative(expr, today) ==
    LET date == Ordinal(today.year, today.month, today.day)
        monday == date - Weekday(date) + 7 * expr.offset
        back == (Weekday(date) - expr.weekday) % 7
        start == SeasonStart[expr.season]
        latest == IF Ordinal(today.year, start, 1) <= date THEN today.year ELSE today.year - 1
        year == IF expr.offset = Absent THEN latest ELSE today.year + expr.offset
    IN  IF Incomplete(expr) THEN NoDates ELSE
        CASE expr.unit = "day"     -> Span(date + expr.offset, date + expr.offset)
          [] expr.unit = "week"    -> IF expr.weekday = Absent THEN Span(monday, monday + 6)
                                      ELSE IF InCalendar(monday)
                                      THEN Span(monday + expr.weekday, monday + expr.weekday)
                                      ELSE NoDates
          [] expr.unit = "weekday" -> Span(date - back, date - back)
          [] expr.unit = "month"   -> MonthRange(12 * today.year + today.month - 1 + expr.offset, 1)
          [] expr.unit = "year"    -> Span(DaysBeforeYear(today.year + expr.offset) + 1,
                                           DaysBeforeYear(today.year + expr.offset + 1))
          [] expr.unit = "season"  -> MonthRange(12 * year + start - 1, 3)

\* _date_range: a relative date counts before the dates the model has written,
\* nothing after today remains, and what is left in no order is dropped.
DateRange(output, today) ==
    LET date == Ordinal(today.year, today.month, today.day)
        relative == output.relative.unit # "none"
        range == IF relative THEN ResolveRelative(output.relative, today)
                 ELSE IF BadDate \in {output.from, output.to} THEN NoDates
                 ELSE <<output.from, output.to>>
        start == range[1]
        end == IF range[2] = NoDate THEN NoDate ELSE Min({range[2], date})
    IN  IF start # NoDate /\ start > (IF end = NoDate THEN date ELSE end)
        THEN NoDates ELSE <<start, end>>

-----------------------------------------------------------------------------
(* What the expressions mean, day by day.                                  *)

YearOf(date) == CHOOSE y \in (date \div 366) .. (date \div 365) + 1 :
                    DaysBeforeYear(y) < date /\ date <= DaysBeforeYear(y + 1)
MonthOf(date) == CHOOSE k \in {12 * YearOf(date) + m : m \in 0 .. 11} :
                    FirstOfMonth(k) <= date /\ date < FirstOfMonth(k + 1)

\* A winter belongs to the year of its December.
SeasonYear(date, start) == (MonthOf(date) - (start - 1)) \div 12
InSeason(date, start) == ((MonthOf(date) - (start - 1)) % 12) <= 2

Means(expr, today, date) ==
    LET now == Ordinal(today.year, today.month, today.day)
    IN  CASE expr.unit = "day"     -> date - now = expr.offset
          [] expr.unit = "week"    -> /\ ((date - 1) \div 7) - ((now - 1) \div 7) = expr.offset
                                      /\ expr.weekday \in {Absent, Weekday(date)}
          [] expr.unit = "weekday" -> date \in now - 6 .. now /\ Weekday(date) = expr.weekday
          [] expr.unit = "month"   -> MonthOf(date) - MonthOf(now) = expr.offset
          [] expr.unit = "year"    -> YearOf(date) - YearOf(now) = expr.offset
          [] expr.unit = "season"  ->
                LET start == SeasonStart[expr.season]
                IN  /\ InSeason(date, start)
                    /\ SeasonYear(date, start) =
                         IF expr.offset = Absent THEN SeasonYear(now, start)
                         ELSE YearOf(now) + expr.offset
=============================================================================
