------------------------------ MODULE Calendar ------------------------------
(***************************************************************************)
(* Everything the program works out from a clock and a calendar, against   *)
(* what it should be: one user, one schedule planned cycle after cycle as  *)
(* domain/planning.py cuts it into windows, quiet hours, the weekly digest *)
(* (domain/digest.py), the day of /today and the streaks of /stats         *)
(* (domain/stats.py), while the clock runs over a change of offset.        *)
(***************************************************************************)
EXTENDS Recurrence, QuietHours

CONSTANTS Settings,       \* combinations of a zone, a schedule, quiet hours and a digest hour
          Days,           \* days of the model's calendar
          Start, MaxTime, \* bounds of the clock; the reminder starts at Start
          Lead,           \* planner_horizon_hours
          BatchLimit,     \* MAX_OCCURRENCES_PER_CYCLE
          DigestWeekday

\* What the contract of schedules and the settings screen let through.
ASSUME SettingsAssumption ==
  \A c \in Settings :
    /\ c.zone \in Zone /\ IsSchedule(c.schedule)
    /\ c.quiet = Off \/ {c.quiet.start, c.quiet.end} \subseteq 0 .. DayLength - 1
    /\ c.digest_hour \in 0 .. DayLength - 1

ASSUME BoundsAssumption ==
  /\ {Start, MaxTime, Lead} \subseteq Nat /\ Start <= MaxTime /\ BatchLimit \in Nat \ {0}
  /\ DigestWeekday \in 1 .. DaysInWeek /\ Days \subseteq Int

VARIABLES s,              \* the settings
          now,
          planned,        \* fire_at of the occurrences written
          planned_until   \* NULL is before any moment: Start - 1

vars == <<s, now, planned, planned_until>>

Init ==
  /\ s \in Settings
  /\ now = Start
  /\ planned = {} /\ planned_until = Start - 1

GreatestOf(moments) == CHOOSE t \in moments : \A u \in moments : u <= t

\* settle_plan: a batch cut short is resumed from its last moment.
Settled(moments, until) ==
  IF moments # {} /\ Cardinality(moments) >= BatchLimit THEN GreatestOf(moments)
  ELSE GreaterOf(planned_until, until)

\* plan_window, next_occurrences, settle_plan.
Plan ==
  LET moments == NextOccurrences(s.schedule, s.zone, planned_until, now + Lead, BatchLimit)
  IN /\ planned_until < now + Lead
     /\ planned' = planned \cup moments
     /\ planned_until' = Settled(moments, now + Lead)
     /\ UNCHANGED <<s, now>>

\* Two slots at a time: the planner is late, or misses a cycle.
Tick ==
  /\ now + 2 <= MaxTime
  /\ now' = now + 2
  /\ UNCHANGED <<s, planned, planned_until>>

Next == Plan \/ Tick
Spec == Init /\ [][Next]_vars

---------------------------------------------------------------------------
(* domain/digest.py                                                        *)

\* last_digest_moment
LastDigestMoment(z, hour, t) ==
  LET today == DayOf(Local(z, t))
      behind == (IsoWeekday(today) - DigestWeekday) % DaysInWeek
      moment == ToUtc(z, Combine(today - behind, hour))
  IN IF moment > t THEN ToUtc(z, Combine(today - behind - DaysInWeek, hour)) ELSE moment

\* Mutant: the week is a number of instants.
WindowStartAbsolute(z, moment) == moment - DaysInWeek * DayLength

\* digest_window: seven days back on the wall clock.
WindowStart(z, moment) == ToUtc(z, Local(z, moment) - DaysInWeek * DayLength)

---------------------------------------------------------------------------
(* domain/stats.py                                                         *)

\* Mutant: the day that is not over yet breaks the streak.
CurrentStreakToday(done, today) ==
  LET run[n \in Nat] == IF today - n \in done THEN 1 + run[n + 1] ELSE 0 IN run[0]

\* An empty today does not break the streak until the day is over.
CurrentStreak(done, today) ==
  LET cursor == IF today \in done THEN today ELSE today - 1
      run[n \in Nat] == IF cursor - n \in done THEN 1 + run[n + 1] ELSE 0
  IN run[0]

\* The longest of the runs, each measured from its first day.
LongestStreak(done) ==
  LET run[d \in Int] == IF d \in done THEN 1 + run[d + 1] ELSE 0
      lengths == {0} \cup {run[d] : d \in {e \in done : e - 1 \notin done}}
  IN GreatestOf(lengths)

---------------------------------------------------------------------------
(* The model's calendar is as long as the theorems ask.                    *)

\* The calendar goes back far enough to hold the weeks before.
DaysReachBack ==
  \A c \in Settings : \A t \in Start .. MaxTime :
    LET today == DayOf(Local(c.zone, t)) IN today - 3 * DaysInWeek .. today \subseteq Days

\* The calendar holds the days the planner can look at.
DaysHoldHorizon ==
  \A c \in Settings : LocalDays(c.zone, Start - 1, MaxTime + Lead) \subseteq Days

\* The clock and the wizard's look ahead stay within the days that are looked
\* at, which are ten years of them.
LooksFarEnough == MaxTime + Lead < (MaxLocalDays - 4) * DayLength

---------------------------------------------------------------------------
(* Properties.  On the right of each is what the function is for, said     *)
(* without its way of getting there.                                       *)

Today == DayOf(Local(s.zone, now))

\* Rules 3 and 4 of recurrence.py in one: a reading stands for the first
\* instant at which the clock shows it or, if it jumps over it, a later one.
\* And every instant is in the bounds of its own calendar day, however long
\* that day is: what fires now is on the list of /today (tech.md 21.8).
FirstInstant(wall) ==
  CHOOSE t \in now - 3 * DayLength .. now + 3 * DayLength :
    /\ Local(s.zone, t) >= wall
    /\ \A u \in now - 3 * DayLength .. t - 1 : Local(s.zone, u) < wall

ReadingsResolved ==
  /\ \A wall \in Local(s.zone, now) - 1 .. Local(s.zone, now) + 2 :
       ToUtc(s.zone, wall) = FirstInstant(wall)
  /\ DayStart(s.zone, Today) <= now /\ now < DayEnd(s.zone, Today)

\* However the range is cut into windows, by the horizon or by the limit, the
\* planner has written exactly the moments the schedule has in it: nothing
\* lost at a seam or near midnight, nothing twice (tech.md 10, gluing).  And the
\* moment on the wizard's card is the first of them (domain/reminders.py,
\* BOUNDARY: otherwise "the two would disagree about the first moment of a
\* brand new reminder").
AllMoments ==
  IF s.schedule.kind = "once" THEN {ToUtc(s.zone, s.schedule.at)}
  ELSE UNION {MomentsForDay(s.schedule, s.zone, d) : d \in Days}

PlannedIsWhatFires ==
  /\ planned = {t \in AllMoments : Start <= t /\ t <= planned_until}
  /\ planned # {} =>
       FirstFireAt(s.schedule, s.zone, Start, MaxTime + Lead) = FirstOf(planned, 1)

\* Quiet hours never bring a delivery forward, put it outside the silence
\* within a day, and leave alone what is outside already, also where the
\* silence ends in an hour that is skipped or repeated (tech.md 20.1).  Not for
\* a silence so long that the clock can jump over all the waking time there is:
\* then the end of one silence is inside the next.
Waking(q) == {time \in 0 .. DayLength - 1 : ~IsQuiet(time, q)}

SilenceKept ==
  LET moved == Shift(s.quiet, s.zone, now)
  IN /\ moved >= now
     /\ moved = now <=> ~Covers(s.quiet, s.zone, now)
     /\ moved <= now + DayLength + GreaterOf(0, s.zone.before - s.zone.after)
     /\ Cardinality(Waking(s.quiet)) > s.zone.after - s.zone.before
          => ~Covers(s.quiet, s.zone, moved)

\* The digest's moment is the last weekly moment that is not ahead, and its
\* week starts where the one before ended, with no gap and no overlap
\* (digest_window).  Not when the clock jumped over the digest's hour: then the
\* moment does not read as that hour, and the week counted back starts late.
DigestWeeks ==
  LET moments == {ToUtc(s.zone, Combine(d, s.digest_hour)) :
                    d \in {e \in Days : IsoWeekday(e) = DigestWeekday}}
      moment == LastDigestMoment(s.zone, s.digest_hour, now)
  IN /\ moment = GreatestOf({t \in moments : t <= now})
     /\ TimeOf(Local(s.zone, moment)) = s.digest_hour =>
          WindowStart(s.zone, moment) = GreatestOf({t \in moments : t < moment})

\* A streak counts the days in a row up to yesterday, and today once there is
\* something done; no run of days is longer than the longest.
StreaksCount ==
  \A done \in SUBSET (Today - 3 .. Today) :
    LET runs == {p[2] - p[1] + 1 : p \in {r \in done \X done : r[1] <= r[2] /\ r[1] .. r[2] \subseteq done}}
        streak == CurrentStreak(done, Today)
        last == IF Today \in done THEN Today ELSE Today - 1
    IN /\ last - streak + 1 .. last \subseteq done
       /\ last - streak \notin done
       /\ LongestStreak(done) = GreatestOf({0} \cup runs)
=============================================================================
