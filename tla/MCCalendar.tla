----------------------------- MODULE MCCalendar -----------------------------
(***************************************************************************)
(* A small calendar for TLC: days of 6 slots, weeks of 3 days, months of 3 *)
(* and 2 days.  The clock runs for two weeks, with the change of offset    *)
(* where it hurts: at midday, at midnight, and by more than one slot.      *)
(***************************************************************************)
EXTENDS Calendar

AllDays == -4 .. 22
InMonth == [d \in AllDays |-> IF d % 5 < 3 THEN (d % 5) + 1 ELSE (d % 5) - 2]
MonthLength == [d \in AllDays |-> IF d % 5 < 3 THEN 3 ELSE 2]

Steady == [at |-> 40, before |-> 1, after |-> 1]
Zones == {Steady,
          [at |-> 44, before |-> 0, after |-> 1],    \* noon is skipped
          [at |-> 41, before |-> 1, after |-> 3],    \* midnight and more is skipped
          [at |-> 46, before |-> 2, after |-> 0],    \* afternoon hours are repeated
          [at |-> 41, before |-> 1, after |-> 0]}    \* the last hour of a day is repeated

Plain == [kind |-> "daily", times |-> {0, 2}, every_n_days |-> 1]
Schedules ==
  {Plain,
   [kind |-> "once", at |-> 43],
   [kind |-> "daily", times |-> {1, 5}, every_n_days |-> 2],
   [kind |-> "weekly", times |-> {0, 3}, weekdays |-> {1, 2}],
   [kind |-> "monthly", times |-> {1, 4}, days |-> {3}, on_missing_day |-> "last_day"],
   [kind |-> "monthly", times |-> {0, 4}, days |-> {1, 3}, on_missing_day |-> "skip"],
   [kind |-> "interval", every |-> 1, from |-> 0, to |-> 0],
   [kind |-> "interval", every |-> 2, from |-> 4, to |-> 3],
   [kind |-> "interval", every |-> 1, from |-> 2, to |-> 3]}

Silences == {Off} \cup [start : 0 .. 5, end : 0 .. 5]

Planning == {[zone |-> z, schedule |-> r, quiet |-> Off, digest_hour |-> 0] :
             z \in Zones, r \in Schedules}
Silence == {[zone |-> z, schedule |-> [kind |-> "once", at |-> 43], quiet |-> q, digest_hour |-> h] :
            z \in Zones, q \in Silences, h \in {1, 2, 5}}
Combinations == Planning \cup {c \in Silence : c.quiet = Off \/ c.digest_hour = 2}

\* The theorems' hypotheses hold of this calendar and of these zones.
ASSUME HypothesesHold ==
  /\ \A c \in Settings : MidnightOnce(c.zone) /\ PutBackByADay(c.zone) /\ JumpsLessThanADay(c.zone)
  /\ DaysReachBack /\ DaysHoldHorizon /\ LooksFarEnough
=============================================================================
