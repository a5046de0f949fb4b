------------------------------ MODULE LocalTime ------------------------------
(***************************************************************************)
(* Wall clocks and instants (domain/recurrence.py, to_utc).  An instant is *)
(* a number of slots since an epoch; so is a wall clock reading, date and  *)
(* time of day together.  A zone changes its offset once: forward, leaving *)
(* a gap of readings that never show, or back, showing some twice.         *)
(***************************************************************************)
EXTENDS Integers

CONSTANTS DayLength,    \* slots of a calendar day
          DaysInWeek

ASSUME CalendarAssumption == DayLength \in Nat \ {0} /\ DaysInWeek \in Nat \ {0}

\* A zone: the instant of its transition and the offsets on either side, which
\* are less than a day, as utcoffset promises.
Offset == 1 - DayLength .. DayLength - 1
Zone == [at : Int, before : Offset, after : Offset]

LesserOf(m, n) == IF m < n THEN m ELSE n
GreaterOf(m, n) == IF m > n THEN m ELSE n

Local(z, t) == t + (IF t < z.at THEN z.before ELSE z.after)

DayOf(wall) == wall \div DayLength
TimeOf(wall) == wall % DayLength
Combine(day, time) == day * DayLength + time
IsoWeekday(day) == (day % DaysInWeek) + 1

\* utcoffset of a reading, fold = 0: the earlier side of a repeated reading,
\* the offset in force before the transition inside a gap.  fold = 1: the other.
EarlyOffset(z, wall) == IF wall < z.at + GreaterOf(z.before, z.after) THEN z.before ELSE z.after
LateOffset(z, wall) == IF wall < z.at + LesserOf(z.before, z.after) THEN z.before ELSE z.after

\* _first_existing_moment: bisection between an instant whose reading is
\* before the gap and one whose reading is after it.
FirstExisting(z, wall) ==
  LET Bisect[ends \in Int \X Int] ==
        LET low == ends[1]
            high == ends[2]
            mid == (low + high) \div 2
        IN IF high - low <= 1 THEN high
           ELSE IF Local(z, mid) >= wall THEN Bisect[<<low, mid>>] ELSE Bisect[<<mid, high>>]
  IN Bisect[<<wall - LateOffset(z, wall), wall - EarlyOffset(z, wall)>>]

\* Mutant: a reading the clock jumped over is read with the offset before it.
ToUtcUnmoved(z, wall) == wall - EarlyOffset(z, wall)

ToUtc(z, wall) ==
  IF EarlyOffset(z, wall) >= LateOffset(z, wall)
  THEN wall - EarlyOffset(z, wall)
  ELSE FirstExisting(z, wall)

\* local_day_bounds: a calendar day as the instants from start to next start.
DayStart(z, day) == ToUtc(z, Combine(day, 0))
DayEnd(z, day) == ToUtc(z, Combine(day + 1, 0))

---------------------------------------------------------------------------
(* What is true of nearly every zone, and what the theorems about days, the *)
(* planner and the digest have as hypotheses.                               *)

\* The clock is never put back over a midnight, so no day comes back after the
\* next has begun.
MidnightOnce(z) ==
  z.before > z.after => DayOf(z.at + z.before - 1) <= DayOf(z.at + z.after)

\* The clock is not put back by more than a day, which is the margin the
\* planner leaves.
PutBackByADay(z) == z.before - z.after <= DayLength

\* The clock is not put forward by a day: then a digest's hour could read as
\* itself and be the wrong day's.
JumpsLessThanADay(z) == z.after - z.before < DayLength
=============================================================================
