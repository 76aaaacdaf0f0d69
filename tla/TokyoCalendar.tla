--------------------------- MODULE TokyoCalendar ---------------------------
(***************************************************************************)
(* A calendar year in Tokyo, computed twice: for the end of a group's      *)
(* retention (plusCalendarYearInTokyo of apps/api/src/group-management/    *)
(* domain/group-value-objects.ts) and for the end of a retired close       *)
(* intent (addTokyoCalendarYear of infrastructure/postgres/                *)
(* group-management-retention-adapter.ts).                                 *)
(*                                                                         *)
(* An instant is a number of units since the start of year FirstYear in    *)
(* UTC, UnitsPerDay units to the day; Tokyo is TokyoOffset units ahead.    *)
(* The calendar is the proleptic Gregorian one of Date.UTC.                *)
(***************************************************************************)
EXTENDS Integers

CONSTANTS
    FirstYear, LastYear,    \* years the calendar covers
    UnitsPerDay,            \* a day has 86,400,000 in the code
    TokyoOffset,            \* nine hours
    Starts,                 \* where the clock may start
    Span                    \* how far it runs

ASSUME CalendarAssumption ==
    /\ FirstYear \in Nat /\ LastYear \in Nat /\ FirstYear < LastYear
    /\ UnitsPerDay \in Nat \ {0} /\ TokyoOffset \in 0 .. UnitsPerDay
    /\ Starts \subseteq Nat /\ Span \in Nat

VARIABLES instant, start
calendarVars == <<instant, start>>

-----------------------------------------------------------------------------
(* The calendar of Date.UTC and getUTC...                                  *)

IsLeapYear(y) == y % 4 = 0 /\ (y % 100 # 0 \/ y % 400 = 0)

DaysIn(y, m) ==
    CASE m = 2 -> IF IsLeapYear(y) THEN 29 ELSE 28
      [] m \in {4, 6, 9, 11} -> 30
      [] OTHER -> 31

(* Days before 1 January of y, and before the month m in y.                *)
LeapsBefore(y) == (y - 1) \div 4 - (y - 1) \div 100 + (y - 1) \div 400
DaysBeforeYear(y) ==
    365 * (y - FirstYear) + LeapsBefore(y) - LeapsBefore(FirstYear)
DaysBeforeMonth(y, m) ==
    <<0, 31, 59, 90, 120, 151, 181, 212, 243, 273, 304, 334>>[m]
        + (IF m > 2 /\ IsLeapYear(y) THEN 1 ELSE 0)

(* Date.UTC of a date and a time of day, as an instant.                    *)
DateUTC(y, m, d, time) ==
    (DaysBeforeYear(y) + DaysBeforeMonth(y, m) + d - 1) * UnitsPerDay + time

(* The date and time of day of an instant in UTC.                          *)
DateOf(t) ==
    LET day == t \div UnitsPerDay
        y == CHOOSE y \in FirstYear .. LastYear :
                DaysBeforeYear(y) <= day /\ day < DaysBeforeYear(y + 1)
        rest == day - DaysBeforeYear(y)
        m == CHOOSE m \in 1 .. 12 :
                /\ DaysBeforeMonth(y, m) <= rest
                /\ rest < DaysBeforeMonth(y, m) + DaysIn(y, m)
    IN  [year |-> y, month |-> m, day |-> rest - DaysBeforeMonth(y, m) + 1,
         time |-> t % UnitsPerDay]

InTokyo(t) == DateOf(t + TokyoOffset)

-----------------------------------------------------------------------------
(* The domain: the day, or the last day of the month in the next year.     *)
LesserOf(a, b) == IF a < b THEN a ELSE b
DomainDay(local) == LesserOf(local.day, DaysIn(local.year + 1, local.month))
PlusCalendarYearInTokyo(t) ==
    LET local == InTokyo(t)
    IN  DateUTC(local.year + 1, local.month, DomainDay(local), local.time) - TokyoOffset

(* The adapter: 29 February becomes 28 February unless the next year is a  *)
(* leap year.                                                              *)
\* Mutant: 29 February stays.
MutAdapterDay(local) == local.day
AdapterDay(local) ==
    IF local.month = 2 /\ local.day = 29 /\ ~IsLeapYear(local.year + 1)
    THEN 28 ELSE local.day
AddTokyoCalendarYear(t) ==
    LET local == InTokyo(t)
    IN  DateUTC(local.year + 1, local.month, AdapterDay(local), local.time) - TokyoOffset

-----------------------------------------------------------------------------
(* The clock runs through the calendar.                                    *)
CalendarInit == start \in Starts /\ instant = start
CalendarNext == instant < start + Span /\ instant' = instant + 1 /\ UNCHANGED start
CalendarSpec == CalendarInit /\ [][CalendarNext]_calendarVars

(* The two computations agree on every instant: a group and the close      *)
(* intent that dies with it are kept by the same calendar.                 *)
CalendarsAgree == PlusCalendarYearInTokyo(instant) = AddTokyoCalendarYear(instant)
=============================================================================
