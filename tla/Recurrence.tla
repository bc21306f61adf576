----------------------------- MODULE Recurrence -----------------------------
(***************************************************************************)
(* The arithmetic of a weekly schedule.  Time is counted in ticks since    *)
(* midnight, Indian time, of some Sunday; a day has Day ticks.  A row of a *)
(* schedule is a weekday and the times of day at which lessons start and   *)
(* end; an interval is the start and the end of one lesson.                *)
(***************************************************************************)
EXTENDS Integers

CONSTANTS Day,      \* ticks in a day
          Buffer    \* ticks that must lie between two bookings

ASSUME DayAssumption == Day \in Nat /\ Day > 0
ASSUME BufferAssumption == Buffer \in Nat

Week == 7 * Day
Weekdays == 0 .. 6
Times == 0 .. Day - 1
Rows == [day : Weekdays, start : Times, end : Times]

DateOf(t) == t \div Day
Weekday(t) == DateOf(t) % 7
Midnight(t) == t - (t % Day)

(* The end of a lesson, when the requirement gives only start and length:  *)
(* past midnight the hours start again at 0.                               *)
AddMinutes(time, n) == (time + n) % Day

DaysAhead(day, time, now) ==
    LET ahead == (day - Weekday(now) + 7) % 7
    IN  IF ahead = 0 /\ Midnight(now) + time <= now THEN 7 ELSE ahead

(* The first moment after now on that weekday at that time, weeks later.   *)
NextOccurrence(day, time, week, now) ==
    Midnight(now) + time + DaysAhead(day, time, now) * Day + week * Week

(* Start and end are looked for separately, each from now.                 *)
Lesson(row, week, now) ==
    LET start == NextOccurrence(row.day, row.start, week, now)
        end   == NextOccurrence(row.day, row.end, week, now)
    IN  [start |-> start, end |-> IF end <= start THEN end + Day ELSE end]

(* Two bookings keep the buffer, in either order.                          *)
Apart(x, y) == \/ x.end + Buffer <= y.start
               \/ y.end + Buffer <= x.start

(* What the database is asked for before Apart is tested row by row.       *)
InWindow(x, y) == y.start < x.end + Buffer /\ y.end > x.start - Buffer

(* The dates an exception of which forbids a booking: those of its ends.   *)
EndDates(x) == {DateOf(x.start), DateOf(x.end)}

(* What the schedule says, for comparison: a lesson takes this long.       *)
Length(row) == LET n == (row.end - row.start + Day) % Day
               IN  IF n = 0 THEN Day ELSE n

(* The row's lesson of this week has begun and not ended, or, if it ends   *)
(* past midnight, would have ended this morning and begins tonight.        *)
Straddles(row, now) ==
    LET t == now % Day
    IN  /\ row.day = Weekday(now)
        /\ \/ row.start <= t /\ t < row.end
           \/ row.end <= t /\ t < row.start
=============================================================================
