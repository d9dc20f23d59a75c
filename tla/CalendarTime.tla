---------------------------- MODULE CalendarTime ----------------------------
(***************************************************************************)
(* Dates and times of the calendar (modules/calendar.rs): the day count,   *)
(* the texts Google sends and is sent, and the events made of them.  A     *)
(* wrong day shows an event on the wrong date, or asks for the wrong weeks.*)
(*                                                                         *)
(* A walk from month to month counts the days by the calendar's rules; in  *)
(* every month the code's arithmetic is compared with the count.  An       *)
(* instant is a day and a second of it, where the code has milliseconds in *)
(* 64 bits; a text is the fields it spells.                                *)
(***************************************************************************)
EXTENDS Integers, Sequences

CONSTANTS FirstYear, \* where the walk begins
          FirstDay,  \* the number of its first of January
          LastYear,  \* bound: where it ends
          Seconds,   \* times of day looked at
          Offsets    \* zones looked at, in minutes

\* The leap days up to a year's end, and the number of its first of January by them.
LeapDays(y) == y \div 4 - y \div 100 + y \div 400
NewYear(y) == 365 * (y - 1970) + LeapDays(y - 1) - LeapDays(1969)

WalkAssumption == FirstYear \in Nat \ {0} /\ LastYear \in Nat /\ FirstDay = NewYear(FirstYear)
TimesAssumption ==
  /\ \A s \in Seconds : s \in Nat /\ s < 86400
  /\ \A offset \in Offsets : offset \in Int /\ -1440 < offset /\ offset < 1440

VARIABLES year, month, \* the month
          first        \* the number of its first day, counted

vars == <<year, month, first>>

-----------------------------------------------------------------------------
(* The code.                                                                *)

\* Mutant: February belongs to the year that begins after it.
days_from_civil_february(y, m, d) ==
  LET z   == IF m < 2 THEN y - 1 ELSE y
      era == z \div 400
      yoe == z - era * 400
      doy == (153 * ((m + 9) % 12) + 2) \div 5 + d - 1
  IN era * 146097 + yoe * 365 + yoe \div 4 - yoe \div 100 + doy - 719468

\* The year begins in March; an era is 400 years.
days_from_civil(y, m, d) ==
  LET z   == IF m <= 2 THEN y - 1 ELSE y
      era == z \div 400
      yoe == z - era * 400
      doy == (153 * ((m + 9) % 12) + 2) \div 5 + d - 1
  IN era * 146097 + yoe * 365 + yoe \div 4 - yoe \div 100 + doy - 719468

\* The date of an era's day.
civil_of_era(era, doe) ==
  LET yoe == (doe - doe \div 1460 + doe \div 36524 - doe \div 146096) \div 365
      doy == doe - (365 * yoe + yoe \div 4 - yoe \div 100)
      mp  == (5 * doy + 2) \div 153
      m   == IF mp < 10 THEN mp + 3 ELSE mp - 9
  IN <<yoe + era * 400 + (IF m <= 2 THEN 1 ELSE 0), m, doy - (153 * mp + 2) \div 5 + 1>>

civil_from_days(days) ==
  LET z   == days + 719468
      era == z \div 146097
  IN civil_of_era(era, z - era * 146097)

\* A date may name a day its month does not have: it is one of the next month.
parse_date(date) ==
  IF date[2] \in 1..12 /\ date[3] \in 1..31
  THEN {days_from_civil(date[1], date[2], date[3])} ELSE {}

format_date(days) == civil_from_days(days)

\* A day and a number of seconds, which may be negative or more than a day.
Instant(days, seconds) == <<days + seconds \div 86400, seconds % 86400>>

Text(date, s, offset) ==
  [date |-> date, hour |-> s \div 3600, minute |-> (s % 3600) \div 60, second |-> s % 60,
   negative |-> offset < 0,
   hours |-> (IF offset < 0 THEN -offset ELSE offset) \div 60,
   minutes |-> (IF offset < 0 THEN -offset ELSE offset) % 60]

format_rfc3339_utc(t) == Text(format_date(t[1]), t[2], 0)

clock(text) == text.hour * 3600 + text.minute * 60 + text.second

offset_minutes(text) == (IF text.negative THEN -1 ELSE 1) * (text.hours * 60 + text.minutes)

\* What the clock shows, less the zone's offset.
parse_rfc3339_ms(text) ==
  {Instant(days, clock(text) - offset_minutes(text) * 60) : days \in parse_date(text.date)}

\* An all-day event has a day after its last, and lasts a day where the end is missing
\* or none; another event ends when it begins where the end is missing or too early.
Before(t, u) == t[1] < u[1] \/ (t[1] = u[1] /\ t[2] < u[2])

convert_all_day(start, end) ==
  {[start |-> format_date(s),
    end |-> format_date(IF \E e \in end : e > s THEN CHOOSE e \in end : e > s ELSE s + 1)]
     : s \in parse_date(start)}

convert_timed(start, end) ==
  {[start |-> s, end |-> IF \E e \in end : ~Before(e, s) THEN CHOOSE e \in end : ~Before(e, s)
                         ELSE s] : s \in parse_rfc3339_ms(start)}

\* An all-day event sorts as its day begins.
sort_key_all_day(event) == {Instant(days, 0) : days \in parse_date(event.start)}

-----------------------------------------------------------------------------
(* The calendar's rules.                                                    *)

Leap(y) == y % 4 = 0 /\ (y % 100 # 0 \/ y % 400 = 0)

Length(y, m) ==
  CASE m \in {4, 6, 9, 11} -> 30
    [] m = 2               -> IF Leap(y) THEN 29 ELSE 28
    [] OTHER               -> 31

Init == year = FirstYear /\ month = 1 /\ first = FirstDay

Next ==
  /\ year <= LastYear
  /\ first' = first + Length(year, month)
  /\ month' = IF month = 12 THEN 1 ELSE month + 1
  /\ year' = IF month = 12 THEN year + 1 ELSE year

Spec == Init /\ [][Next]_vars

-----------------------------------------------------------------------------
(* Properties.                                                              *)

\* Every day of the month has the number that counting gives it, both ways; a day too
\* many is the first of the next month.
DaysAgree ==
  /\ \A d \in 1..Length(year, month) :
       /\ parse_date(<<year, month, d>>) = {first + d - 1}
       /\ format_date(first + d - 1) = <<year, month, d>>
  /\ Length(year, month) < 31 =>
       parse_date(<<year, month, Length(year, month) + 1>>) = {first + Length(year, month)}

\* An instant of the month's first or last day, in whatever zone it is told, is read as
\* itself, the neighbouring day's date included.
InstantsAgree ==
  \A day \in {first, first + Length(year, month) - 1}, s \in Seconds :
    LET t == <<day, s>> IN
      /\ parse_rfc3339_ms(format_rfc3339_utc(t)) = {t}
      /\ \A offset \in Offsets :
           LET local == Instant(day, s + offset * 60) IN
             parse_rfc3339_ms(Text(format_date(local[1]), local[2], offset)) = {t}

\* An event has a last day that is not before its first, whatever end it came with,
\* and comes before what happens on its day.
EventsLast ==
  LET last == first + Length(year, month) - 1 IN
    \A e \in {{}, {first}, {last}, {last + 1}} :
      \A event \in convert_all_day(<<year, month, Length(year, month)>>, e) :
        /\ event.start = format_date(last)
        /\ parse_date(event.end) = {last + 1}
        /\ \A s \in Seconds :
             LET timed == convert_timed(format_rfc3339_utc(<<last, s>>), {<<d, 0>> : d \in e}) IN
               \A t \in timed, k \in sort_key_all_day(event) :
                 ~Before(t.start, k) /\ ~Before(t.end, t.start)

\* The calendar's dates, zones and ends of months are the code's: leap years, centuries,
\* days that a zone moves over a month's or a year's end.
DatesAreRight == DaysAgree /\ InstantsAgree /\ EventsLast

\* What is counted is what the code computes, month after month.
IInv == year \in Int /\ month \in 1..12 /\ first = days_from_civil(year, month, 1)
=============================================================================
