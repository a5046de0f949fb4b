----------------------------- MODULE QuietHours -----------------------------
(***************************************************************************)
(* A person's silent interval and what it does to a delivery               *)
(* (domain/quiet_hours.py): never dropped, moved to the end of the silence. *)
(***************************************************************************)
EXTENDS LocalTime

Off == [start |-> -1, end |-> -1]     \* both columns NULL

\* Membership in [start, end), which may cross midnight.
IsQuiet(time, q) ==
  /\ q # Off /\ q.start # q.end
  /\ IF q.start < q.end THEN q.start <= time /\ time < q.end
     ELSE time >= q.start \/ time < q.end

Covers(q, z, t) == IsQuiet(TimeOf(Local(z, t)), q)

\* Mutant: the earlier of two readings, even when it has gone by.
ResolveEndEarly(z, t, wall) == ToUtc(z, wall)

\* The end of the silence after t: the first reading, the repeated one, or a
\* day later.
ResolveEnd(z, t, wall) ==
  IF ToUtc(z, wall) > t THEN ToUtc(z, wall)
  ELSE IF wall - LateOffset(z, wall) > t THEN wall - LateOffset(z, wall)
  ELSE ToUtc(z, wall + DayLength)

Shift(q, z, t) ==
  LET wall == Local(z, t)
      tomorrow == q.start > q.end /\ TimeOf(wall) >= q.start
  IN IF ~Covers(q, z, t) THEN t
     ELSE ResolveEnd(z, t, Combine(DayOf(wall) + (IF tomorrow THEN 1 ELSE 0), q.end))
=============================================================================
