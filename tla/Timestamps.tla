----------------------------- MODULE Timestamps -----------------------------
(***************************************************************************)
(* extract_ts_and_body and parse_ts of megalog/ingest/parser.py: the       *)
(* moment a line is stamped with, from what its format says of it and from *)
(* the clock of the reader.  Moments are local and counted in hours, as no *)
(* rule looks at less.                                                     *)
(***************************************************************************)
EXTENDS Integers, Sequences

\* A and E carry the date, B and D the date without its year, C the time of day.
Formats == {"A", "B", "C", "D", "E"}

Leap(y) == y % 4 = 0 /\ (y % 100 # 0 \/ y % 400 = 0)
MonthDays(y) == <<31, IF Leap(y) THEN 29 ELSE 28, 31, 30, 31, 30, 31, 31, 30, 31, 30, 31>>

\* strptime and replace raise ValueError for a date that the year does not have.
HasDate(y, t) == t.day <= MonthDays(y)[t.month]

\* Years count from 1970, as a clock's do: strptime wants four digits.
Dates == [year : {y \in Nat : y >= 1970}, month : 1 .. 12, day : 1 .. 31, hour : 0 .. 23]

\* What a clock shows.
Moments == {t \in Dates : HasDate(t.year, t)}

DaysBeforeMonth(y, m) ==
    LET days[k \in 0 .. 11] == IF k = 0 THEN 0 ELSE days[k - 1] + MonthDays(y)[k]
    IN  days[m - 1]

Hours(t) ==
    24 * (365 * t.year + (t.year - 1) \div 4 - (t.year - 1) \div 100 + (t.year - 1) \div 400
             + DaysBeforeMonth(t.year, t.month) + t.day)
    + t.hour

InYear(t, y) == [t EXCEPT !.year = y]

\* Mutant: a date that lies ahead is kept.
StampThisYear(t, now) == IF HasDate(now.year, t) THEN InYear(t, now.year) ELSE now

\* The date in the year of the reader, or in the year before when it would lie more than 25
\* hours ahead; a date that the year does not have is stamped with the reader's clock.
StampWithoutYear(t, now) ==
    LET ahead == Hours(InYear(t, now.year)) - Hours(now) > 25
        year == IF ahead THEN now.year - 1 ELSE now.year
    IN  IF HasDate(now.year, t) /\ HasDate(year, t) THEN InYear(t, year) ELSE now

\* parse_ts of a line written at t in format f and read at now.
Stamp(f, t, now) ==
    CASE f \in {"A", "E"} -> t
      [] f \in {"B", "D"} -> StampWithoutYear(t, now)
      [] f = "C" -> [now EXCEPT !.hour = t.hour]

-----------------------------------------------------------------------------

\* parse_ts: a line is stamped with the moment it was written,
\*   - always, when it carries its date;
\*   - when it carries none but the time, if it is read on the day it was written;
\*   - when it lacks the year, if it is read within eleven months, or by a clock that is
\*     at most 25 hours behind in the same year, and is not of a February 29
\*     that is read in another year.
\* No stamp without a year lies more than 25 hours ahead of the reader.
StampRight(f, t, now, stamp) ==
    LET lag == Hours(now) - Hours(t)
        sameYear == t.year = now.year
    IN  /\ f \in {"A", "E"} => stamp = t
        /\ f = "C" /\ <<t.year, t.month, t.day>> = <<now.year, now.month, now.day>> => stamp = t
        /\ f \in {"B", "D"} =>
              /\ lag \in -25 .. 330 * 24 /\ (lag < 0 => sameYear)
                    /\ (<<t.month, t.day>> = <<2, 29>> => sameYear)
                    => stamp = t
              /\ Hours(stamp) - Hours(now) <= 25
=============================================================================
