------------------------------- MODULE Calendar -------------------------------
(***************************************************************************)
(* DATE (src/src/fingerprints/DATE/DATE.c): dates as three cells, Julian   *)
(* day numbers and days of the year. There is no year 0: -1 is followed by *)
(* 1. A date is <<year, month, day>>. The stack is left out: a program has *)
(* one date, and hands it to an instruction or gets it from one.           *)
(***************************************************************************)
EXTENDS Integers

CONSTANTS
  Days,    \* the Julian days the program asks for; no sum of days leaves them
  Years,   \* the years it asks for a day of
  YDays,   \* the days it asks for, from 0
  Dates,   \* what it makes up itself, dates or not
  Spans    \* how many days it adds

ASSUME DateAssumption == /\ Days \subseteq Int /\ Years \subseteq Int /\ YDays \subseteq Int
                         /\ Spans \subseteq Int /\ Dates \subseteq Int \X Int \X Int

VARIABLES
  date,       \* the date on the stack
  day,        \* the Julian day it stands for
  reflected,  \* the last instruction refused it
  reply       \* the number the last instruction answered with

dateVars == <<date, day, reflected, reply>>

-----------------------------------------------------------------------------
Astronomical(year) == IF year < 0 THEN year + 1 ELSE year

(* Mutant: the Julian calendar.                                            *)
is_leap_year_Fourth(year) == Astronomical(year) % 4 = 0

is_leap_year(year) == LET y == Astronomical(year)
                      IN  y % 4 = 0 /\ (y % 100 # 0 \/ y % 400 = 0)

month_length(year, month) ==
  IF month \in {1, 3, 5, 7, 8, 10, 12} THEN 31
  ELSE IF month # 2 THEN 30 ELSE IF is_leap_year(year) THEN 29 ELSE 28

(* pop_ymd takes nothing else.                                             *)
IsDate(d) == d[1] # 0 /\ d[2] \in 1 .. 12 /\ d[3] \in 1 .. month_length(d[1], d[2])

ymd_to_julian(d) ==
  LET a == (14 - d[2]) \div 12
      y == Astronomical(d[1]) + 4800 - a
      m == d[2] + 12 * a - 3
  IN  d[3] + (153 * m + 2) \div 5 + 365 * y + y \div 4 - y \div 100 + y \div 400 - 32045

julian_to_ymd(n) ==
  LET l1 == n + 68569
      c  == (4 * l1) \div 146097
      l2 == l1 - (146097 * c + 3) \div 4
      i  == (4000 * (l2 + 1)) \div 1461001
      l3 == l2 - (1461 * i) \div 4 + 31
      j  == (80 * l3) \div 2447
      l4 == j \div 11
      y  == 100 * (c - 49) + i + l4
  IN  <<IF y <= 0 THEN y - 1 ELSE y, j + 2 - 12 * l4, l3 - (2447 * j) \div 80>>

(* T: month after month is taken from the days. A negative day of the year *)
(* or a year 0 is not refused.                                             *)
Months(year) == [k \in 0 .. 12 |-> LET sum[i \in 0 .. 12] ==
                    IF i = 0 THEN 0 ELSE sum[i - 1] + month_length(year, i) IN sum[k]]
Full(year, doy) ==
  LET before == Months(year)
      month  == CHOOSE k \in 1 .. 12 : /\ \A i \in 1 .. k - 1 : doy + 1 > before[i]
                                       /\ doy + 1 <= before[k]
  IN  <<year, month, doy + 1 - before[month - 1]>>
TooFar(year, doy) == doy + 1 > IF is_leap_year(year) THEN 366 ELSE 365

(* C's % has the sign of the dividend.                                     *)
Remainder(n, k) == IF n < 0 THEN -((-n) % k) ELSE n % k

-----------------------------------------------------------------------------
DateInit == /\ day \in Days /\ date = julian_to_ymd(day)
            /\ reflected = FALSE /\ reply = 0

Becomes(d, n) == date' = d /\ day' = n /\ reflected' = FALSE /\ reply' = 0
Refused       == reflected' = TRUE /\ reply' = 0 /\ UNCHANGED <<date, day>>
Answers(n)    == reply' = n /\ reflected' = FALSE /\ UNCHANGED <<date, day>>

finger_DATE_jdn_to_ymd == Becomes(julian_to_ymd(day), day)

(* The program makes up a date; the day it stands for is what J says.      *)
MakesUp == \E d \in Dates : Becomes(d, IF IsDate(d) THEN ymd_to_julian(d) ELSE day)

finger_DATE_add_days ==
  \E n \in Spans :
    IF ~IsDate(date) THEN Refused
    ELSE /\ day + n \in Days
         /\ Becomes(julian_to_ymd(ymd_to_julian(date) + n), day + n)

finger_DATE_year_day_to_full ==
  \E year \in Years, doy \in YDays :
    IF TooFar(year, doy) THEN Refused
    ELSE Becomes(Full(year, doy), ymd_to_julian(<<year, 1, 1>>) + doy)

finger_DATE_ymd_to_jdn == IF IsDate(date) THEN Answers(ymd_to_julian(date)) ELSE Refused

(* The other date lies below.                                              *)
finger_DATE_day_diff ==
  \E d \in Dates : IF IsDate(date) /\ IsDate(d)
                     THEN Answers(ymd_to_julian(d) - ymd_to_julian(date)) ELSE Refused

WeekDay(d)   == Remainder(ymd_to_julian(d), 7)
DayOfYear(d) == ymd_to_julian(d) - ymd_to_julian(<<d[1], 1, 1>>)

finger_DATE_week_day == IF IsDate(date) THEN Answers(WeekDay(date)) ELSE Refused
finger_DATE_year_day == IF IsDate(date) THEN Answers(DayOfYear(date)) ELSE Refused

DateNext == \/ finger_DATE_jdn_to_ymd \/ MakesUp \/ finger_DATE_add_days
            \/ finger_DATE_year_day_to_full \/ finger_DATE_ymd_to_jdn
            \/ finger_DATE_day_diff \/ finger_DATE_week_day \/ finger_DATE_year_day

DateSpec == DateInit /\ [][DateNext]_dateVars

-----------------------------------------------------------------------------
(* The calendar on the wall: the day after a date.                         *)
Tomorrow(d) ==
  IF d[3] < month_length(d[1], d[2]) THEN <<d[1], d[2], d[3] + 1>>
  ELSE IF d[2] < 12 THEN <<d[1], d[2] + 1, 1>>
  ELSE <<IF d[1] = -1 THEN 1 ELSE d[1] + 1, 1, 1>>

(* No sequence of instructions makes a date another one than the days it   *)
(* was counted by lead to, over leap days, ends of years and the missing   *)
(* year 0: one day more is the next day on the wall and, from Julian day 0 *)
(* on, of the week, and the day of the year leads back. What pop_ymd       *)
(* refuses is what no day leads to.                                        *)
CalendarSound ==
  LET n == ymd_to_julian(date)
      next == julian_to_ymd(n + 1)
  IN  /\ IsDate(date) <=> date[1] # 0 /\ date[2] \in 1 .. 12 /\ julian_to_ymd(n) = date
      /\ IsDate(date) =>
           /\ n = day /\ next = Tomorrow(date)
           /\ day >= 0 => WeekDay(next) = (WeekDay(date) + 1) % 7
           /\ Full(date[1], DayOfYear(date)) = date
=============================================================================
