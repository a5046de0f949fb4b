----------------------------- MODULE Recurrence -----------------------------
(***************************************************************************)
(* The expansion of a schedule into instants: next_occurrences             *)
(* (domain/recurrence.py) over the schedules of domain/schedules.py.       *)
(***************************************************************************)
EXTENDS LocalTime, FiniteSets

CONSTANTS DayOfMonth, DaysInMonth,   \* of every day of the model's calendar
          SafetyBuffer,              \* more moments than two days can hold
          MaxLocalDays               \* how many days of a range are looked at

ASSUME SafetyBufferAssumption ==
  SafetyBuffer \in Nat /\ SafetyBuffer > 2 * DayLength /\ MaxLocalDays \in Nat

\* What the contract allows; the wizard's build_* functions write nothing else.
IsTimes(times) == times # {} /\ times \subseteq 0 .. DayLength - 1
IsSchedule(s) ==
  \/ s.kind = "once" /\ s.at \in Nat
  \/ s.kind = "daily" /\ IsTimes(s.times) /\ s.every_n_days \in Nat \ {0}
  \/ s.kind = "weekly" /\ IsTimes(s.times) /\ s.weekdays # {}
     /\ s.weekdays \subseteq 1 .. DaysInWeek
  \/ s.kind = "monthly" /\ IsTimes(s.times) /\ s.days # {} /\ s.days \subseteq Nat \ {0}
     /\ s.on_missing_day \in {"last_day", "skip"}
  \/ s.kind = "interval" /\ s.every \in Nat \ {0}
     /\ {s.from, s.to} \subseteq 0 .. DayLength - 1

\* The activity window anchored on a day, stepped by an absolute interval;
\* equal ends mean a whole day.
IntervalMoments(s, z, day) ==
  LET start == ToUtc(z, Combine(day, s.from))
      end == ToUtc(z, Combine(IF s.to > s.from THEN day ELSE day + 1, s.to))
  IN IF end <= start THEN {start}
     ELSE {t \in start .. end : (t - start) % s.every = 0}

\* The days of the month a rule means in the month of this day.
WantedDays(s, day) ==
  {d \in s.days : d <= DaysInMonth[day]}
  \cup {d \in {DaysInMonth[day]} : s.on_missing_day = "last_day" /\ \E w \in s.days : w > d}

FiresOn(s, day) ==
  CASE s.kind = "daily" -> day % s.every_n_days = 0
    [] s.kind = "weekly" -> IsoWeekday(day) \in s.weekdays
    [] s.kind = "monthly" -> DayOfMonth[day] \in WantedDays(s, day)
    [] OTHER -> FALSE

MomentsForDay(s, z, day) ==
  IF s.kind = "interval" THEN IntervalMoments(s, z, day)
  ELSE IF FiresOn(s, day) THEN {ToUtc(z, Combine(day, time)) : time \in s.times}
  ELSE {}

\* Mutant: no margin, the local dates of the two ends only.
LocalDaysExact(z, after, until) == DayOf(Local(z, after)) .. DayOf(Local(z, until))

\* The local dates that can contribute, a day more at either end, and none of
\* those beyond the guard against unbounded ranges.
FirstDay(z, after) == DayOf(Local(z, after) - DayLength)
LastDay(z, until) == DayOf(Local(z, until) + DayLength)
LocalDays(z, after, until) ==
  FirstDay(z, after) .. LesserOf(LastDay(z, until), FirstDay(z, after) + MaxLocalDays)

\* The first moments of a set, in ascending order, as many as the limit.
FirstOf(moments, limit) == {t \in moments : Cardinality({u \in moments : u < t}) < limit}

\* Day after day, until there are enough for the limit and to spare: a day is
\* looked at only if the days before it have not given that many.
Collected(s, z, after, until, limit) ==
  LET Found(days) == {t \in UNION {MomentsForDay(s, z, d) : d \in days} : after < t /\ t <= until}
      Earlier(day) == {d \in LocalDays(z, after, until) : d < day}
  IN Found({d \in LocalDays(z, after, until) :
              Cardinality(Found(Earlier(d))) < limit + SafetyBuffer})

\* The moments in (after, until], the first `limit` of them.
NextOccurrences(s, z, after, until, limit) ==
  IF limit <= 0 \/ until <= after THEN {}
  ELSE IF s.kind = "once"
       THEN {t \in {ToUtc(z, s.at)} : after < t /\ t <= until}
       ELSE FirstOf(Collected(s, z, after, until, limit), limit)

\* first_fire_at: the moment the wizard's card shows, if there is one.  An
\* instant is the smallest step of the model's clock, so BOUNDARY is one.
FirstFireAt(s, z, starts_at, ahead) ==
  NextOccurrences(s, z, starts_at - 1, starts_at + ahead, 1)

\* The guard cuts nothing off this range: a hypothesis of the theorems.
Spanned(z, after, until) == LastDay(z, until) - FirstDay(z, after) <= MaxLocalDays
=============================================================================
