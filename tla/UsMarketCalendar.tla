--------------------------- MODULE UsMarketCalendar ---------------------------
(***************************************************************************)
(* The US market calendar: holidays by rule, the few closures no rule      *)
(* gives, and the trading days that are left.  A date is its day number,   *)
(* 1 for 1 January of year 0 (utc of the code); Sunday is 0.               *)
(***************************************************************************)
EXTENDS Integers, FiniteSets, Functions

Leap(y) == (y % 4 = 0 /\ y % 100 # 0) \/ y % 400 = 0
MonthLength(y) ==
  [m \in 1..12 |-> IF m = 2 THEN (IF Leap(y) THEN 29 ELSE 28)
                   ELSE IF m \in {4, 6, 9, 11} THEN 30 ELSE 31]
YearStart(y) == 365 * y + (y - 1) \div 4 - (y - 1) \div 100 + (y - 1) \div 400
Plus(a, b) == a + b
Utc(y, m, d) == YearStart(y) + FoldFunctionOnSet(Plus, 0, MonthLength(y), 1..(m - 1)) + d
DayOfWeek(d) == (d - 1) % 7
YearOf(d) == CHOOSE y \in ((d \div 366) - 1)..((d \div 365) + 1) :
               YearStart(y) < d /\ d <= YearStart(y + 1)

UnscheduledClosures ==
  {Utc(2001, 9, d) : d \in 11..14} \cup {Utc(2012, 10, d) : d \in {29, 30}}
  \cup {Utc(2004, 6, 11), Utc(2007, 1, 2), Utc(2018, 12, 5), Utc(2025, 1, 9)}

NthWeekdayOfMonth(y, m, weekday, n) ==
  LET first == Utc(y, m, 1) IN first + ((weekday - DayOfWeek(first)) % 7) + (n - 1) * 7
LastWeekdayOfMonth(y, m, weekday) ==
  LET last == Utc(y, m, MonthLength(y)[m]) IN last - ((DayOfWeek(last) - weekday) % 7)

(* The computus of the code; n counts the days from 22 March.               *)
EasterSunday(y) ==
  LET a == y % 19
      b == y \div 100
      c == y % 100
      g == (b - (b + 8) \div 25 + 1) \div 3
      h == (19 * a + b - b \div 4 - g + 15) % 30
      l == (32 + 2 * (b % 4) + 2 * (c \div 4) - h - (c % 4)) % 7
      n == h + l - 7 * ((a + 11 * h + 22 * l) \div 451)
  IN Utc(y, 3, 22) + n

(* Variant: a Sunday holiday is not moved.                                  *)
SaturdayOnly(d) == IF DayOfWeek(d) = 6 THEN d - 1 ELSE d

Observed(d) == CASE DayOfWeek(d) = 6 -> d - 1 [] DayOfWeek(d) = 0 -> d + 1 [] OTHER -> d

OwnHolidays(y) ==
  {Observed(Utc(y, 1, 1)), NthWeekdayOfMonth(y, 2, 1, 3), EasterSunday(y) - 2,
   LastWeekdayOfMonth(y, 5, 1), Observed(Utc(y, 7, 4)), NthWeekdayOfMonth(y, 9, 1, 1),
   NthWeekdayOfMonth(y, 11, 4, 4), Observed(Utc(y, 12, 25))}
  \cup (IF y >= 1998 THEN {NthWeekdayOfMonth(y, 1, 1, 3)} ELSE {})
  \cup (IF y >= 2022 THEN {Observed(Utc(y, 6, 19))} ELSE {})

(* A New Year's Day observed on 31 December is in the list of both years.   *)
UsMarketHolidays(y) ==
  OwnHolidays(y)
  \cup (IF YearOf(Observed(Utc(y + 1, 1, 1))) = y THEN {Observed(Utc(y + 1, 1, 1))} ELSE {})

(* A date is looked up in the list of its year and in that of the one       *)
(* before.                                                                  *)
IsUsMarketTradingDay(d) ==
  LET y == YearOf(d)
  IN /\ DayOfWeek(d) \in 1..5
     /\ d \notin UnscheduledClosures
     /\ d \notin UsMarketHolidays(y) \cup UsMarketHolidays(y - 1)

GenerateTradingDays(start, end) == {d \in start..end : IsUsMarketTradingDay(d)}
===============================================================================
