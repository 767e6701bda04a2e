------------------------------ MODULE Calendar ------------------------------
(***************************************************************************)
(* The calendar arithmetic between the Date header of an HTTP response and *)
(* the RTC, as in examples/picow/src/bin/bath_heater_httpdate_rtc_htu_mq.rs*)
(* and, to compare it with, a calendar that advances from one moment to    *)
(* the next.  A moment is [year, month, day, dow, time]; its time of day   *)
(* is one number, in units of which a day has DayLength.                   *)
(***************************************************************************)
EXTENDS Integers

CONSTANT DayLength

ASSUME DayAssumption == DayLength \in Nat \ {0}

-----------------------------------------------------------------------------
(* The firmware's conversions.                                             *)

\* Mutant: every fourth year is a leap year.
IsLeapJulian(y) == y % 4 = 0

IsLeap(y) == (y % 4 = 0 /\ y % 100 # 0) \/ y % 400 = 0

YearDays(y) == IF IsLeap(y) THEN 366 ELSE 365

MDays == <<31, 28, 31, 30, 31, 30, 31, 31, 30, 31, 30, 31>>
MonthDays(y, m) == IF m = 2 /\ IsLeap(y) THEN 29 ELSE MDays[m]

\* days_since_unix_epoch of a valid date: the loops over years, either way from
\* 1970, and over months; and the seconds made of it.
DaysBeforeYear[y \in Nat] ==
    IF y > 1970 THEN DaysBeforeYear[y - 1] + YearDays(y - 1)
    ELSE IF y < 1970 THEN DaysBeforeYear[y + 1] - YearDays(y)
    ELSE 0
DaysBeforeMonth(y, month) ==
    LET days[m \in 1 .. 12] ==
            IF m = 1 THEN 0 ELSE days[m - 1] + MonthDays(y, m - 1)
    IN  days[month]
DaysSinceEpoch(date) ==
    DaysBeforeYear[date.year] + DaysBeforeMonth(date.year, date.month) + date.day - 1
ToUnix(date) == DaysSinceEpoch(date) * DayLength + date.time

\* The loops of unix_to_datetime, over <<year, days into it>> and then, in year y,
\* over <<month, days into it>>.  A thirteenth month stands for an index beyond the
\* table of months.
YearOf[p \in Nat \X Nat] ==
    IF p[2] >= YearDays(p[1]) THEN YearOf[<<p[1] + 1, p[2] - YearDays(p[1])>>] ELSE p
MonthOf(y, days) ==
    LET from[p \in (1 .. 13) \X Nat] ==
            IF p[1] <= 12 /\ p[2] >= MonthDays(y, p[1])
            THEN from[<<p[1] + 1, p[2] - MonthDays(y, p[1])>>]
            ELSE p
    IN  from[<<1, days>>]

ToDateTime(ts) ==
    LET days == ts \div DayLength
        year == YearOf[<<1970, days>>]
        month == MonthOf(year[1], year[2])
    IN  [year |-> year[1], month |-> month[1], day |-> month[2] + 1,
         dow |-> (days + 4) % 7, time |-> ts % DayLength]

-----------------------------------------------------------------------------
(* A calendar in which leap says whether the year has a 29 February.       *)

Tomorrow(date, leap) ==
    LET last == IF date.month = 2 /\ leap THEN 29 ELSE MDays[date.month]
        next == [date EXCEPT !.dow = (@ + 1) % 7, !.time = 0]
    IN  IF date.day < last THEN [next EXCEPT !.day = @ + 1]
        ELSE IF date.month < 12 THEN [next EXCEPT !.day = 1, !.month = @ + 1]
        ELSE [next EXCEPT !.day = 1, !.month = 1, !.year = @ + 1]

Advance(date, leap) ==
    IF date.time + 1 < DayLength THEN [date EXCEPT !.time = @ + 1]
    ELSE Tomorrow(date, leap)

\* A date that the calendar has, from 1970 on, on its weekday.
IsDate(date) ==
    /\ date \in [year : Nat, month : 1 .. 12, day : Nat, dow : 0 .. 6,
                 time : 0 .. DayLength - 1]
    /\ date.year >= 1970
    /\ date.day \in 1 .. MonthDays(date.year, date.month)
    /\ date.dow = (DaysSinceEpoch(date) + 4) % 7

\* The Gregorian calendar, which web servers keep, and that of the RP2040's
\* RTC, which "will always add a Feb 29th on every year that is divisable by
\* 4" (embassy-rp/src/rtc/mod.rs:33).
Gregorian(y) == 4 * (y \div 4) = y /\ (100 * (y \div 100) = y => 400 * (y \div 400) = y)
TrueNext(date) == Advance(date, Gregorian(date.year))
RtcNext(date) == Advance(date, date.year % 4 = 0)
=============================================================================
