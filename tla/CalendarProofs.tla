-------------------------- MODULE CalendarProofs --------------------------
(***************************************************************************)
(* Proofs about Calendar: what the program works out from a clock and a    *)
(* calendar is what it is for, for every zone, schedule, silence and length *)
(* of a day.  Each function is shown to meet its promise at any instant;   *)
(* only the planner's windows need an invariant.                           *)
(***************************************************************************)
EXTENDS Calendar, LocalTimeProofs, FiniteSetTheorems

\* Where the clock and the settings can be.
InBounds == s \in Settings /\ now \in Start .. MaxTime

LEMMA InBoundsHolds == Spec => []InBounds
<1>1. Init => InBounds
  BY BoundsAssumption DEF Init, InBounds
<1>2. InBounds /\ [Next]_vars => InBounds'
  BY BoundsAssumption DEF InBounds, Next, Plan, Tick, vars
<1> QED
  BY <1>1, <1>2, PTL DEF Spec

LEMMA SettingsTyped ==
    ASSUME InBounds
    PROVE  /\ s.zone \in Zone /\ IsSchedule(s.schedule) /\ now \in Int
           /\ s.quiet = Off \/ (s.quiet.start \in 0 .. DayLength - 1 /\ s.quiet.end \in 0 .. DayLength - 1)
           /\ s.digest_hour \in 0 .. DayLength - 1
  BY SettingsAssumption, BoundsAssumption DEF InBounds

-----------------------------------------------------------------------------
(* Readings.                                                                 *)

\* to_utc gives the first instant of the readings around now, and now is in the
\* bounds of its own day, where no midnight comes twice.
THEOREM ReadingsResolvedHolds ==
    ASSUME \A c \in Settings : MidnightOnce(c.zone)
    PROVE  Spec => []ReadingsResolved
<1>1. InBounds => ReadingsResolved
  <2> SUFFICES ASSUME InBounds PROVE ReadingsResolved
    OBVIOUS
  <2> DEFINE z == s.zone
  <2>1. z \in Zone /\ now \in Int /\ MidnightOnce(z)
    BY SettingsTyped DEF InBounds
  <2> HIDE DEF z
  <2>2. ASSUME NEW wall \in Local(z, now) - 1 .. Local(z, now) + 2
        PROVE  ToUtc(z, wall) =
                 CHOOSE t \in now - 3 * DayLength .. now + 3 * DayLength :
                   /\ Local(z, t) >= wall
                   /\ \A u \in now - 3 * DayLength .. t - 1 : Local(z, u) < wall
    <3> DEFINE range == now - 3 * DayLength .. now + 3 * DayLength
               IsIt(t) == /\ Local(z, t) >= wall
                          /\ \A u \in now - 3 * DayLength .. t - 1 : Local(z, u) < wall
               first == ToUtc(z, wall)
    <3>1. /\ z.before \in Int /\ z.after \in Int /\ DayLength \in Nat /\ DayLength > 0
          /\ -DayLength < z.before /\ z.before < DayLength
          /\ -DayLength < z.after /\ z.after < DayLength /\ Local(z, now) \in Int
      BY <2>1, ZoneTyped
    <3>2. wall \in Int /\ -1 <= wall - Local(z, now) /\ wall - Local(z, now) <= 2
      BY <3>1
    <3>3. first \in range
      <4>1. /\ first <= now + GreaterOf(0, wall - Local(z, now)) + GreaterOf(0, z.before - z.after)
            /\ first >= now + (wall - Local(z, now)) - GreaterOf(0, z.after - z.before)
                          - GreaterOf(0, z.before - z.after)
            /\ first \in Int
        BY <2>1, <3>2, Distance, NotBefore
      <4> HIDE DEF first
      <4> QED
        BY <2>1, <3>1, <3>2, <4>1 DEF GreaterOf
    <3>4. IsIt(first)
      <4>1. \A u \in now - 3 * DayLength .. first - 1 : u \in Int /\ u < first
        BY <2>1, <3>1, <3>2, NotBefore
      <4> QED
        BY <2>1, <3>2, <4>1, NotBefore
    <3>5. ASSUME NEW t \in range, IsIt(t) PROVE t = first
      <4>1. t \in Int /\ first \in Int /\ first <= t
        BY <2>1, <3>1, <3>2, <3>5, NotBefore
      <4>2. ~(first < t)
        BY <2>1, <3>1, <3>2, <3>3, <3>5, <4>1, NotBefore, ZoneTyped
      <4> QED
        BY <4>1, <4>2
    <3> HIDE DEF first, range, IsIt
    <3>6. first = CHOOSE t \in range : IsIt(t)
      BY <3>3, <3>4, <3>5
    <3> QED
      BY <3>6 DEF first, range, IsIt
  <2>3. DayStart(z, Today) <= now /\ now < DayEnd(z, Today)
    BY <2>1, InOwnDay DEF Today, z
  <2> QED
    BY <2>2, <2>3 DEF ReadingsResolved, FirstInstant, z
<1> QED
  BY <1>1, InBoundsHolds, PTL

-----------------------------------------------------------------------------
(* Quiet hours.                                                              *)

IsSilence(q) ==
  q.start \in 0 .. DayLength - 1 /\ q.end \in 0 .. DayLength - 1 /\ q.start # q.end

\* The time awake between the end of a silence and the next one.
Awake(q) == IF q.start < q.end THEN DayLength - (q.end - q.start) ELSE q.start - q.end

LEMMA AwakeIsWaking ==
    ASSUME NEW q, q # Off, IsSilence(q)
    PROVE  Cardinality(Waking(q)) = Awake(q)
<1>1. DayLength \in Nat /\ DayLength > 0 /\ q.start \in Int /\ q.end \in Int
  BY CalendarAssumption DEF IsSilence
<1>2. CASE q.start > q.end
  <2>1. Waking(q) = q.end .. q.start - 1
    BY <1>1, <1>2 DEF Waking, IsQuiet, IsSilence
  <2>2. Cardinality(q.end .. q.start - 1) = (q.start - 1) - q.end + 1
    BY <1>1, <1>2, FS_Interval, SMTT(60)
  <2> QED
    BY <1>1, <1>2, <2>1, <2>2 DEF Awake
<1>3. CASE q.start < q.end
  <2> DEFINE early == 0 .. q.start - 1
             late == q.end .. DayLength - 1
  <2>1. Waking(q) = early \cup late /\ early \cap late = {}
    BY <1>1, <1>3 DEF Waking, IsQuiet, IsSilence
  <2>2. IsFiniteSet(early) /\ Cardinality(early) = q.start
    <3>1. 0 \in Int /\ q.start - 1 \in Int /\ q.start >= 0
      BY <1>1 DEF IsSilence
    <3>2. /\ IsFiniteSet(early)
          /\ Cardinality(early) = IF 0 > q.start - 1 THEN 0 ELSE q.start - 1 - 0 + 1
      BY <3>1, FS_Interval
    <3> QED
      BY <1>1, <3>1, <3>2
  <2>3. IsFiniteSet(late) /\ Cardinality(late) = DayLength - q.end
    <3>1. DayLength - 1 \in Int /\ q.end <= DayLength - 1
      BY <1>1 DEF IsSilence
    <3>2. /\ IsFiniteSet(late)
          /\ Cardinality(late) = IF q.end > DayLength - 1 THEN 0 ELSE DayLength - 1 - q.end + 1
      BY <1>1, <3>1, FS_Interval
    <3> QED
      BY <1>1, <3>1, <3>2
  <2>4. Cardinality(early \cup late) = q.start + (DayLength - q.end)
    <3> HIDE DEF early, late
    <3>1. Cardinality(early \cup late) =
            Cardinality(early) + Cardinality(late) - Cardinality(early \cap late)
      BY <2>2, <2>3, FS_Union
    <3> QED
      BY <1>1, <2>1, <2>2, <2>3, <3>1, FS_EmptySet
  <2> QED
    BY <1>1, <1>3, <2>1, <2>4 DEF Awake
<1> QED
  BY <1>1, <1>2, <1>3 DEF IsSilence

\* The end of the silence as the code writes it: the next reading of its time
\* of day, at most a day ahead, with the waking time after it.
LEMMA SilenceEnds ==
    ASSUME NEW q, q # Off, IsSilence(q), NEW wall \in Int, IsQuiet(TimeOf(wall), q),
           NEW tomorrow \in BOOLEAN, tomorrow <=> (q.start > q.end /\ TimeOf(wall) >= q.start),
           NEW end, end = Combine(DayOf(wall) + (IF tomorrow THEN 1 ELSE 0), q.end)
    PROVE  /\ end \in Int /\ wall < end /\ end <= wall + DayLength
           /\ \A k \in 0 .. Awake(q) - 1 : ~IsQuiet(TimeOf(end + k), q)
<1> DEFINE day == DayOf(wall) + (IF tomorrow THEN 1 ELSE 0)
           time == TimeOf(wall)
<1>1. DayLength \in Nat /\ DayLength > 0 /\ q.start \in Int /\ q.end \in Int
  BY CalendarAssumption DEF IsSilence
<1>2. DayOf(wall) \in Int /\ time \in 0 .. DayLength - 1 /\ wall = DayOf(wall) * DayLength + time
  BY DayAndTime DEF Combine
<1>3. day \in Int /\ end = day * DayLength + q.end /\ end \in Int
  BY <1>1, <1>2 DEF Combine
<1>4. day * DayLength = DayOf(wall) * DayLength + (IF tomorrow THEN DayLength ELSE 0)
  <2>1. CASE tomorrow
    <3>1. (DayOf(wall) + 1) * DayLength = DayOf(wall) * DayLength + DayLength
      BY <1>1, <1>2
    <3> QED
      BY <2>1, <3>1
  <2>2. CASE ~tomorrow
    BY <1>1, <1>2, <2>2
  <2> QED
    BY <2>1, <2>2
<1>5. wall < end /\ end <= wall + DayLength
  <2> DEFINE midnight == DayOf(wall) * DayLength
  <2>1. midnight \in Int
    BY <1>1, <1>2
  <2>2. /\ wall = midnight + time
        /\ end = midnight + (IF tomorrow THEN DayLength ELSE 0) + q.end
    BY <1>1, <1>2, <1>3, <1>4
  <2> HIDE DEF midnight, time, day
  <2>3. q.start < q.end => q.start <= time /\ time < q.end
    BY DEF IsQuiet, time
  <2>4. q.start > q.end => time >= q.start \/ time < q.end
    BY <1>1 DEF IsQuiet, time
  <2>5. tomorrow <=> (q.start > q.end /\ time >= q.start)
    BY DEF time
  <2>6. q.start # q.end
    BY DEF IsSilence
  <2>7. 0 <= q.start /\ q.start < DayLength /\ 0 <= q.end /\ q.end < DayLength
    BY <1>1 DEF IsSilence
  <2> QED
    BY <1>1, <1>2, <2>1, <2>2, <2>3, <2>4, <2>5, <2>6, <2>7
<1>6. ASSUME NEW k \in 0 .. Awake(q) - 1
      PROVE  ~IsQuiet(TimeOf(end + k), q)
  <2>0. /\ k \in Int /\ 0 <= k
        /\ q.start < q.end => q.end + k < DayLength + q.start
        /\ q.end < q.start => q.end + k < q.start
    BY <1>1 DEF Awake, IsSilence
  <2>1. CASE q.end + k < DayLength
    <3>1. q.end + k \in 0 .. DayLength - 1 /\ end + k = Combine(day, q.end + k)
      BY <1>1, <1>3, <2>0, <2>1 DEF IsSilence, Combine
    <3>2. TimeOf(end + k) = q.end + k
      BY <1>3, <3>1, Combined
    <3> QED
      BY <1>1, <2>0, <3>2 DEF IsQuiet, IsSilence
  <2>2. CASE DayLength <= q.end + k
    <3> DEFINE rest == q.end + k - DayLength
    <3>1. q.start < q.end /\ rest \in 0 .. DayLength - 1 /\ rest < q.start
      BY <1>1, <2>0, <2>2 DEF IsSilence
    <3>2. (day + 1) * DayLength = day * DayLength + DayLength
      BY <1>1, <1>3
    <3>3. end + k = Combine(day + 1, rest)
      <4> DEFINE midnight == day * DayLength
      <4>1. midnight \in Int
        BY <1>1, <1>3
      <4>2. end = midnight + q.end /\ (day + 1) * DayLength = midnight + DayLength
        BY <1>3, <3>2
      <4> HIDE DEF midnight, day
      <4> QED
        BY <1>1, <2>0, <4>1, <4>2 DEF Combine
    <3>4. TimeOf(end + k) = rest
      <4>1. day + 1 \in Int
        BY <1>3
      <4> QED
        BY <3>1, <3>3, <4>1, Combined
    <3> QED
      BY <1>1, <3>1, <3>4 DEF IsQuiet, IsSilence
  <2> QED
    BY <1>1, <2>0, <2>1, <2>2
<1> QED
  BY <1>3, <1>5, <1>6

\* _resolve_end: after the delivery, no later than the silence is long, with the
\* end on the clock or just jumped over.  Its last resort, a day later, is never
\* needed where the clock changes once.
LEMMA EndResolved ==
    ASSUME NEW z \in Zone, NEW t \in Int, NEW wall \in Int, Local(z, t) < wall
    PROVE  LET m == ResolveEnd(z, t, wall) IN
             /\ m \in Int /\ t < m
             /\ m <= t + (wall - Local(z, t)) + GreaterOf(0, z.before - z.after)
             /\ Local(z, m) = wall \/ (wall < Local(z, m) /\ Local(z, m) - wall <= z.after - z.before)
             /\ m # ToUtc(z, wall) => m = wall - LateOffset(z, wall)
<1> DEFINE u == ToUtc(z, wall)
           late == wall - LateOffset(z, wall)
<1>1. z.at \in Int /\ z.before \in Int /\ z.after \in Int /\ Local(z, t) \in Int
  BY ZoneTyped
<1>2. u \in Int /\ u <= t + GreaterOf(0, wall - Local(z, t)) + GreaterOf(0, z.before - z.after)
  BY Distance, NotBefore
<1>3. GreaterOf(0, wall - Local(z, t)) = wall - Local(z, t)
  BY <1>1 DEF GreaterOf
<1>4. CASE u > t
  <2>1. ResolveEnd(z, t, wall) = u
    BY <1>4 DEF ResolveEnd
  <2>2. Local(z, u) = wall \/ (wall < Local(z, u) /\ Local(z, u) - wall <= z.after - z.before)
    <3>1. \/ Local(z, u) = wall
          \/ u = z.at /\ z.at + z.before <= wall /\ wall < Local(z, z.at) /\ Local(z, z.at) = z.at + z.after
      BY ShownOrSkipped
    <3> HIDE DEF u
    <3> QED
      BY <1>1, <3>1
  <2> HIDE DEF u
  <2> QED
    BY <1>2, <1>3, <1>4, <2>1, <2>2 DEF u
<1>5. CASE ~(u > t)
  <2>1. Local(z, u) >= wall /\ Local(z, u) \in Int
    BY <1>2, NotBefore, ZoneTyped
  <2> HIDE DEF u
  <2>2. u < z.at /\ z.at <= t /\ z.at + z.after <= wall /\ z.after < z.before /\ t + z.after < wall
    BY <1>1, <1>2, <1>5, <2>1 DEF Local
  <2>3. LateOffset(z, wall) = z.after
    BY <1>1, <2>2 DEF LateOffset, LesserOf
  <2>4. late = wall - z.after /\ late > t /\ late \in Int /\ Local(z, late) = wall
    BY <1>1, <2>2, <2>3 DEF Local
  <2>5. ResolveEnd(z, t, wall) = late
    BY <1>5, <2>4 DEF ResolveEnd, u
  <2>6. late <= t + (wall - Local(z, t)) + GreaterOf(0, z.before - z.after)
    BY <1>1, <2>2, <2>4 DEF Local, GreaterOf
  <2> HIDE DEF late
  <2> QED
    BY <2>4, <2>5, <2>6 DEF late
<1> QED
  BY <1>4, <1>5

\* Quiet hours only postpone, by a day at most, out of the silence.
THEOREM SilenceKeptHolds == Spec => []SilenceKept
<1>1. InBounds => SilenceKept
  <2> SUFFICES ASSUME InBounds PROVE SilenceKept
    OBVIOUS
  <2> DEFINE z == s.zone
             q == s.quiet
             wall == Local(z, now)
             moved == Shift(q, z, now)
             jump == z.after - z.before
  <2>1. /\ z \in Zone /\ now \in Int
        /\ q = Off \/ (q.start \in 0 .. DayLength - 1 /\ q.end \in 0 .. DayLength - 1)
    BY SettingsTyped
  <2> HIDE DEF z, q
  <2>2. /\ z.before \in Int /\ z.after \in Int /\ wall \in Int
        /\ DayLength \in Nat /\ DayLength > 0
    BY <2>1, ZoneTyped
  <2> SUFFICES /\ moved >= now
               /\ moved = now <=> ~Covers(q, z, now)
               /\ moved <= now + DayLength + GreaterOf(0, z.before - z.after)
               /\ Cardinality(Waking(q)) > jump => ~Covers(q, z, moved)
    BY DEF SilenceKept, z, q
  <2>3. CASE ~Covers(q, z, now)
    <3>1. moved = now
      BY <2>3 DEF Shift
    <3> QED
      BY <2>1, <2>2, <2>3, <3>1 DEF GreaterOf
  <2>4. CASE Covers(q, z, now)
    <3> DEFINE tomorrow == q.start > q.end /\ TimeOf(wall) >= q.start
               end == Combine(DayOf(wall) + (IF tomorrow THEN 1 ELSE 0), q.end)
    <3>1. q # Off /\ IsSilence(q) /\ IsQuiet(TimeOf(wall), q)
      BY <2>1, <2>4 DEF Covers, IsQuiet, IsSilence
    <3>2. /\ end \in Int /\ wall < end /\ end <= wall + DayLength
          /\ \A k \in 0 .. Awake(q) - 1 : ~IsQuiet(TimeOf(end + k), q)
      BY <2>2, <3>1, SilenceEnds
    <3>3. moved = ResolveEnd(z, now, end)
      BY <2>4 DEF Shift
    <3> HIDE DEF end
    <3>4. /\ moved \in Int /\ now < moved
          /\ moved <= now + (end - wall) + GreaterOf(0, z.before - z.after)
          /\ Local(z, moved) = end \/ (end < Local(z, moved) /\ Local(z, moved) - end <= jump)
      BY <2>1, <3>2, <3>3, EndResolved
    <3> HIDE DEF moved
    <3>5. moved <= now + DayLength + GreaterOf(0, z.before - z.after)
      BY <2>1, <2>2, <3>2, <3>4 DEF GreaterOf
    <3>6. ASSUME Cardinality(Waking(q)) > jump PROVE ~Covers(q, z, moved)
      <4> DEFINE k == Local(z, moved) - end
      <4>1. Awake(q) > jump /\ Awake(q) \in Int /\ Awake(q) > 0
        <5>1. Awake(q) = Cardinality(Waking(q))
          BY <3>1, AwakeIsWaking
        <5>2. Awake(q) \in Int /\ Awake(q) > 0
          BY <2>2, <3>1 DEF Awake, IsSilence
        <5> QED
          BY <3>6, <5>1, <5>2
      <4>2. Local(z, moved) \in Int
        BY <2>1, <3>4, ZoneTyped
      <4>3. k \in 0 .. Awake(q) - 1 /\ end + k = Local(z, moved)
        BY <2>2, <3>2, <3>4, <4>1, <4>2
      <4> HIDE DEF k
      <4> QED
        BY <3>2, <4>3 DEF Covers
    <3> QED
      BY <2>1, <2>4, <3>4, <3>5, <3>6
  <2> QED
    BY <2>3, <2>4
<1> QED
  BY <1>1, InBoundsHolds, PTL

-----------------------------------------------------------------------------
(* The weekly digest.                                                        *)

\* Days of the same weekday are the same or a week apart.
LEMMA SameWeekday ==
    ASSUME NEW d \in Int, NEW e \in Int, IsoWeekday(d) = IsoWeekday(e)
    PROVE  e = d \/ e >= d + DaysInWeek \/ e <= d - DaysInWeek
<1> DEFINE i == d \div DaysInWeek
           j == e \div DaysInWeek
           r == d % DaysInWeek
<1>1. DaysInWeek \in Nat \ {0}
  BY CalendarAssumption
<1>2. i \in Int /\ j \in Int /\ r \in Int /\ d = i * DaysInWeek + r
  BY <1>1, Division
<1>3. e = j * DaysInWeek + r
  <2>1. e % DaysInWeek \in Int /\ e % DaysInWeek = r
    <3>1. e % DaysInWeek \in Int
      BY <1>1, Division
    <3>2. (d % DaysInWeek) + 1 = (e % DaysInWeek) + 1
      BY DEF IsoWeekday
    <3> QED
      BY <1>2, <3>1, <3>2
  <2> QED
    BY <1>1, <2>1, Division
<1> HIDE DEF i, j, r
<1>4. i < j => i * DaysInWeek + DaysInWeek <= j * DaysInWeek
  BY <1>1, <1>2, MultiplesApart
<1>5. j < i => j * DaysInWeek + DaysInWeek <= i * DaysInWeek
  BY <1>1, <1>2, MultiplesApart
<1>6. i * DaysInWeek \in Int /\ j * DaysInWeek \in Int
  BY <1>1, <1>2
<1> QED
  BY <1>1, <1>2, <1>3, <1>4, <1>5, <1>6

LEMMA WeekBefore ==
    ASSUME NEW d \in Int
    PROVE  IsoWeekday(d - DaysInWeek) = IsoWeekday(d)
<1> DEFINE i == d \div DaysInWeek
           r == d % DaysInWeek
<1>1. DaysInWeek \in Nat \ {0}
  BY CalendarAssumption
<1>2. i \in Int /\ r \in 0 .. DaysInWeek - 1 /\ d = i * DaysInWeek + r
  BY <1>1, Division
<1> HIDE DEF i
<1>3. (i - 1) * DaysInWeek = i * DaysInWeek - DaysInWeek /\ i * DaysInWeek \in Int
  BY <1>1, <1>2
<1>4. d - DaysInWeek = (i - 1) * DaysInWeek + r
  BY <1>1, <1>2, <1>3
<1>5. (d - DaysInWeek) % DaysInWeek = r
  <2> HIDE DEF r
  <2>1. i - 1 \in Int
    BY <1>2
  <2> QED
    BY <1>1, <1>2, <1>4, <2>1, DivisionUnique
<1> QED
  BY <1>5 DEF IsoWeekday

\* Counting back to a weekday ends on it, less than a week ago.
LEMMA CountedBack ==
    ASSUME NEW d \in Int, NEW weekday \in 1 .. DaysInWeek
    PROVE  LET behind == (IsoWeekday(d) - weekday) % DaysInWeek IN
             /\ behind \in 0 .. DaysInWeek - 1
             /\ IsoWeekday(d - behind) = weekday
<1> DEFINE i == d \div DaysInWeek
           r == d % DaysInWeek
           x == IsoWeekday(d) - weekday
           behind == x % DaysInWeek
           w == weekday - 1
<1>1. DaysInWeek \in Nat \ {0}
  BY CalendarAssumption
<1>2. /\ i \in Int /\ r \in 0 .. DaysInWeek - 1 /\ d = i * DaysInWeek + r
      /\ x = r - w /\ w \in 0 .. DaysInWeek - 1
  BY <1>1, Division DEF IsoWeekday
<1>3. i * DaysInWeek \in Int
  BY <1>1, <1>2
<1> HIDE DEF i, r, w
<1>4. x \in Int
  BY <1>1, <1>2
<1>5. CASE x >= 0
  <2>1. x \in 0 .. DaysInWeek - 1 /\ x = 0 * DaysInWeek + x
    BY <1>1, <1>2, <1>5
  <2>2. behind = x
    <3> HIDE DEF x
    <3> QED
      BY <1>1, <2>1, DivisionUnique
  <2>3. d - behind = i * DaysInWeek + w
    BY <1>1, <1>2, <1>3, <2>2
  <2>4. (d - behind) % DaysInWeek = w
    <3>1. (i * DaysInWeek + w) % DaysInWeek = w
      BY <1>1, <1>2, DivisionUnique
    <3> QED
      BY <2>3, <3>1
  <2> QED
    BY <2>1, <2>2, <2>4 DEF IsoWeekday, w
<1>6. CASE x < 0
  <2> DEFINE y == x + DaysInWeek
  <2>1. y \in 0 .. DaysInWeek - 1 /\ x = (-1) * DaysInWeek + y
    BY <1>1, <1>2, <1>6
  <2>2. behind = y
    <3> HIDE DEF x, y
    <3> QED
      BY <1>1, <2>1, DivisionUnique
  <2>3. (i - 1) * DaysInWeek = i * DaysInWeek - DaysInWeek
    BY <1>1, <1>2
  <2>4. d - behind = (i - 1) * DaysInWeek + w
    BY <1>1, <1>2, <1>3, <2>2, <2>3
  <2>5. (d - behind) % DaysInWeek = w
    <3>1. i - 1 \in Int
      BY <1>2
    <3>2. ((i - 1) * DaysInWeek + w) % DaysInWeek = w
      BY <1>1, <1>2, <3>1, DivisionUnique
    <3> QED
      BY <2>4, <3>2
  <2> QED
    BY <2>1, <2>2, <2>5 DEF IsoWeekday, w
<1> QED
  BY <1>4, <1>5, <1>6

LEMMA Greatest ==
    ASSUME NEW S \in SUBSET Int, NEW x \in S, \A y \in S : y <= x
    PROVE  GreatestOf(S) = x
<1>1. \A y \in S : (\A k \in S : k <= y) => y = x
  OBVIOUS
<1> QED
  BY <1>1 DEF GreatestOf

\* The weekly moment of a day.
DigestOn(c, d) == ToUtc(c.zone, Combine(d, c.digest_hour))

LEMMA WeeklyMoments ==
    ASSUME InBounds, NEW d \in Int, NEW e \in Int
    PROVE  /\ DigestOn(s, d) \in Int
           /\ d <= e => DigestOn(s, d) <= DigestOn(s, e)
<1>1. s.zone \in Zone /\ s.digest_hour \in 0 .. DayLength - 1
  BY SettingsTyped
<1>2. Combine(d, s.digest_hour) \in Int /\ Combine(e, s.digest_hour) \in Int
  BY <1>1, Combined
<1>3. ASSUME d <= e PROVE Combine(d, s.digest_hour) <= Combine(e, s.digest_hour)
  <2>1. DayLength \in Nat \ {0} /\ s.digest_hour \in Int
    BY <1>1, CalendarAssumption
  <2>2. d < e => d * DayLength + DayLength <= e * DayLength
    BY <2>1, MultiplesApart
  <2>3. d * DayLength \in Int /\ e * DayLength \in Int
    BY <2>1
  <2> QED
    BY <1>3, <2>1, <2>2, <2>3 DEF Combine
<1> QED
  BY <1>1, <1>2, <1>3, NotBefore, Monotone DEF DigestOn

\* last_digest_moment: of a day of the right weekday, not ahead, with the next
\* week's still ahead.
LEMMA LastMoment ==
    ASSUME InBounds, MidnightOnce(s.zone)
    PROVE  \E d \in Today - 2 * DaysInWeek .. Today :
             /\ IsoWeekday(d) = DigestWeekday
             /\ LastDigestMoment(s.zone, s.digest_hour, now) = DigestOn(s, d)
             /\ DigestOn(s, d) <= now
             /\ \A e \in Int : IsoWeekday(e) = DigestWeekday /\ e > d => now < DigestOn(s, e)
<1> DEFINE z == s.zone
           hour == s.digest_hour
           behind == (IsoWeekday(Today) - DigestWeekday) % DaysInWeek
           this == Today - behind
           last == this - DaysInWeek
<1>1. /\ z \in Zone /\ hour \in 0 .. DayLength - 1 /\ now \in Int
      /\ Local(z, now) \in Int /\ Today \in Int /\ DaysInWeek \in Nat /\ DaysInWeek > 0
  BY SettingsTyped, ZoneTyped, DayAndTime, CalendarAssumption DEF Today
<1>2. behind \in 0 .. DaysInWeek - 1 /\ IsoWeekday(this) = DigestWeekday
  BY <1>1, CountedBack, BoundsAssumption
<1> HIDE DEF behind
<1>3. this \in Int /\ last \in Int /\ IsoWeekday(last) = DigestWeekday
  BY <1>1, <1>2, WeekBefore
<1>4. LastDigestMoment(z, hour, now) = IF DigestOn(s, this) > now THEN DigestOn(s, last) ELSE DigestOn(s, this)
  BY DEF LastDigestMoment, DigestOn, Today, behind
<1>5. \A d \in Int : DigestOn(s, d) \in Int
  BY WeeklyMoments
<1>6. DigestOn(s, last) <= now
  <2>1. Combine(Today, 0) <= Local(z, now) /\ Combine(Today, 0) \in Int
    BY <1>1, InDay DEF Today
  <2>2. Combine(last, hour) \in Int /\ DayOf(Combine(last, hour)) = last
    BY <1>1, <1>3, Combined
  <2>3. ~(Combine(Today, 0) <= Combine(last, hour))
    <3>1. ~(Today <= last)
      BY <1>1, <1>2
    <3> QED
      BY <1>1, <2>2, <3>1, InDay
  <2> QED
    BY <1>1, <2>1, <2>2, <2>3, NotBefore DEF DigestOn
<1>7. ASSUME NEW e \in Int, e > Today PROVE now < DigestOn(s, e)
  <2>1. now < DayEnd(z, Today)
    BY <1>1, InOwnDay DEF Today
  <2>2. Combine(e, hour) \in Int /\ DayOf(Combine(e, hour)) = e
    BY <1>1, Combined
  <2>3. Today + 1 \in Int /\ Combine(Today + 1, 0) \in Int /\ Combine(Today + 1, 0) <= Combine(e, hour)
    <3>1. Today + 1 \in Int /\ Today + 1 <= DayOf(Combine(e, hour))
      BY <1>1, <1>7, <2>2
    <3> QED
      BY <2>2, <3>1, InDay
  <2>4. DayEnd(z, Today) <= DigestOn(s, e)
    BY <1>1, <2>2, <2>3, Monotone DEF DayEnd, DigestOn
  <2>5. DayEnd(z, Today) \in Int
    BY <1>1, <2>3, NotBefore DEF DayEnd
  <2> QED
    BY <1>1, <1>5, <2>1, <2>4, <2>5
<1>8. \A e \in Int : IsoWeekday(e) = DigestWeekday /\ e > this => e > Today
  BY <1>1, <1>2, <1>3, SameWeekday
<1>9. \A e \in Int : IsoWeekday(e) = DigestWeekday /\ e > last => e >= this
  BY <1>1, <1>3, SameWeekday
<1>10. this \in Today - 2 * DaysInWeek .. Today /\ last \in Today - 2 * DaysInWeek .. Today
  BY <1>1, <1>2
<1> HIDE DEF this, last
<1>11. CASE DigestOn(s, this) > now
  <2>1. \A e \in Int : e >= this => now < DigestOn(s, e)
    BY <1>1, <1>3, <1>5, <1>11, WeeklyMoments
  <2> QED
    BY <1>3, <1>4, <1>6, <1>9, <1>10, <1>11, <2>1
<1>12. CASE ~(DigestOn(s, this) > now)
  BY <1>1, <1>2, <1>3, <1>4, <1>5, <1>7, <1>8, <1>10, <1>12
<1> QED
  BY <1>11, <1>12

\* The digest is the last weekly moment that is not ahead, and its week starts
\* at the one before.
THEOREM DigestWeeksHolds ==
    ASSUME \A c \in Settings : MidnightOnce(c.zone) /\ JumpsLessThanADay(c.zone), DaysReachBack
    PROVE  Spec => []DigestWeeks
<1>1. InBounds => DigestWeeks
  <2> SUFFICES ASSUME InBounds PROVE DigestWeeks
    OBVIOUS
  <2> DEFINE z == s.zone
             hour == s.digest_hour
             weekly == {e \in Days : IsoWeekday(e) = DigestWeekday}
             moments == {DigestOn(s, d) : d \in weekly}
             moment == LastDigestMoment(z, hour, now)
  <2>1. /\ z \in Zone /\ hour \in 0 .. DayLength - 1 /\ now \in Int
        /\ Today \in Int /\ DaysInWeek \in Nat /\ DaysInWeek > 0 /\ DayLength \in Nat /\ DayLength > 0
        /\ MidnightOnce(z) /\ JumpsLessThanADay(z)
    BY SettingsTyped, ZoneTyped, DayAndTime, CalendarAssumption DEF Today, InBounds
  <2>2. PICK d \in Today - 2 * DaysInWeek .. Today :
          /\ IsoWeekday(d) = DigestWeekday
          /\ moment = DigestOn(s, d)
          /\ DigestOn(s, d) <= now
          /\ \A e \in Int : IsoWeekday(e) = DigestWeekday /\ e > d => now < DigestOn(s, e)
    BY <2>1, LastMoment
  <2> DEFINE before == d - DaysInWeek
  <2>3. d \in Int /\ before \in Int /\ before < d /\ IsoWeekday(before) = DigestWeekday
    BY <2>1, <2>2, WeekBefore
  <2>4. d \in Days /\ before \in Days
    <3>1. Today - 3 * DaysInWeek .. Today \subseteq Days
      BY DEF InBounds, DaysReachBack, Today
    <3>2. d \in Today - 3 * DaysInWeek .. Today /\ before \in Today - 3 * DaysInWeek .. Today
      BY <2>1, <2>2
    <3> QED
      BY <3>1, <3>2
  <2>5. \A e \in weekly : e \in Int /\ DigestOn(s, e) \in Int
    BY WeeklyMoments, BoundsAssumption
  <2>6. DigestOn(s, d) \in Int /\ DigestOn(s, before) \in Int
    BY <2>3, WeeklyMoments
  <2>7. moment = GreatestOf({t \in moments : t <= now})
    <3> DEFINE past == {t \in moments : t <= now}
    <3>1. past \in SUBSET Int /\ DigestOn(s, d) \in past
      BY <2>2, <2>4, <2>5
    <3>2. ASSUME NEW t \in past PROVE t <= DigestOn(s, d)
      <4>1. PICK e \in weekly : t = DigestOn(s, e) /\ DigestOn(s, e) <= now
        OBVIOUS
      <4>2. e \in Int /\ e <= d
        BY <2>1, <2>2, <2>3, <2>5, <4>1
      <4> QED
        BY <2>3, <4>1, <4>2, WeeklyMoments
    <3> HIDE DEF past
    <3>3. GreatestOf(past) = DigestOn(s, d)
      BY <3>1, <3>2, Greatest
    <3> QED
      BY <2>2, <3>3 DEF past
  <2>8. ASSUME TimeOf(Local(z, moment)) = hour
        PROVE  WindowStart(z, moment) = GreatestOf({t \in moments : t < moment})
    <3> DEFINE reading == Combine(d, hour)
               weekAgo == Combine(before, hour)
               earlier == {t \in moments : t < moment}
    <3>1. /\ reading \in Int /\ DayOf(reading) = d /\ TimeOf(reading) = hour
          /\ weekAgo \in Int /\ reading = weekAgo + DaysInWeek * DayLength
          /\ DaysInWeek * DayLength \in Int /\ DaysInWeek * DayLength >= DayLength
      <4>1. before * DayLength = d * DayLength - DaysInWeek * DayLength
        BY <2>1, <2>3
      <4>2. d * DayLength \in Int /\ DaysInWeek * DayLength \in Int /\ DaysInWeek * DayLength >= DayLength
        BY <2>1, <2>3
      <4> HIDE DEF before
      <4>3. reading = weekAgo + DaysInWeek * DayLength /\ weekAgo \in Int
        BY <2>1, <4>1, <4>2 DEF Combine
      <4> QED
        BY <2>1, <2>3, <4>2, <4>3, Combined
    <3> HIDE DEF reading, weekAgo, before
    <3>2. Local(z, moment) = reading
      <4> DEFINE shown == Local(z, moment)
      <4>1. shown \in Int /\ shown >= reading /\ shown < reading + DayLength
        <5>1. moment = ToUtc(z, reading) /\ z.before \in Int /\ z.after \in Int /\ z.at \in Int
          BY <2>1, <2>2, ZoneTyped DEF DigestOn, reading
        <5> HIDE DEF moment
        <5>2. \/ shown = reading
              \/ z.at + z.before <= reading /\ reading < shown /\ shown = z.at + z.after
          BY <2>1, <3>1, <5>1, ShownOrSkipped
        <5> HIDE DEF shown
        <5> QED
          BY <2>1, <3>1, <5>1, <5>2 DEF JumpsLessThanADay
      <4> HIDE DEF moment
      <4> QED
        BY <2>8, <3>1, <4>1, SameTimeOfDay
    <3>3. WindowStart(z, moment) = DigestOn(s, before)
      <4>1. Local(z, moment) - DaysInWeek * DayLength = weekAgo
        BY <3>1, <3>2
      <4> QED
        BY <4>1 DEF WindowStart, DigestOn, weekAgo
    <3>4. DigestOn(s, before) < moment
      <4>1. DigestOn(s, before) <= moment
        BY <2>2, <2>3, WeeklyMoments
      <4>2. DigestOn(s, before) # moment
        <5> SUFFICES ASSUME ToUtc(z, weekAgo) = moment PROVE FALSE
          BY DEF DigestOn, weekAgo
        <5>1. z.before \in Int /\ z.after \in Int /\ z.at \in Int
          BY <2>1, ZoneTyped
        <5>2. \/ reading = weekAgo
              \/ z.at + z.before <= weekAgo /\ reading = z.at + z.after
          BY <2>1, <3>1, <3>2, ShownOrSkipped
        <5> QED
          BY <2>1, <3>1, <5>1, <5>2 DEF JumpsLessThanADay
      <4> QED
        BY <2>2, <2>6, <4>1, <4>2
    <3>5. earlier \in SUBSET Int /\ DigestOn(s, before) \in earlier
      BY <2>3, <2>4, <2>5, <3>4
    <3>6. ASSUME NEW t \in earlier PROVE t <= DigestOn(s, before)
      <4>1. PICK e \in weekly : t = DigestOn(s, e) /\ DigestOn(s, e) < DigestOn(s, d)
        BY <2>2
      <4>2. e \in Int /\ ~(d <= e)
        <5>1. e \in Int /\ DigestOn(s, e) \in Int
          BY <2>5
        <5>2. d <= e => DigestOn(s, d) <= DigestOn(s, e)
          BY <2>3, <5>1, WeeklyMoments
        <5> QED
          BY <2>6, <4>1, <5>1, <5>2
      <4>3. e <= before
        BY <2>1, <2>2, <2>3, <4>2, SameWeekday DEF before
      <4> QED
        BY <2>3, <4>1, <4>2, <4>3, WeeklyMoments
    <3> HIDE DEF earlier
    <3>7. GreatestOf(earlier) = DigestOn(s, before)
      BY <3>5, <3>6, Greatest
    <3> QED
      BY <3>3, <3>7 DEF earlier
  <2> QED
    BY <2>7, <2>8 DEF DigestWeeks, DigestOn
<1> QED
  BY <1>1, InBoundsHolds, PTL

-----------------------------------------------------------------------------
(* Streaks: counting on until something is missing.                          *)

\* The count of numbers in a row from each number on.
IsCount(D, S, f) == f = [n \in D |-> IF n \in S THEN 1 + f[n + 1] ELSE 0]

EndsRow(S, n, m) == n <= m /\ m \notin S /\ \A k \in Int : n <= k /\ k < m => k \in S

LEMMA RowEnds ==
    ASSUME NEW S \in SUBSET Int, NEW top \in Int, \A k \in S : k <= top, NEW n \in Int
    PROVE  \E m \in Int : EndsRow(S, n, m)
<1> DEFINE Outside == {j \in Nat : n + j \notin S}
<1>1. Outside \in SUBSET Nat /\ Outside # {}
  <2>1. CASE n > top
    <3>1. 0 \in Outside
      BY <2>1
    <3> QED
      BY <3>1
  <2>2. CASE n <= top
    <3>1. top + 1 - n \in Outside
      BY <2>2
    <3> QED
      BY <3>1
  <2> QED
    BY <2>1, <2>2
<1>2. PICK j \in Outside : \A i \in Outside : j <= i
  <2> HIDE DEF Outside
  <2> QED
    BY <1>1, LeastNatural
<1>3. n + j \in Int /\ n <= n + j /\ n + j \notin S
  BY <1>2
<1>4. ASSUME NEW k \in Int, n <= k, k < n + j PROVE k \in S
  <2>1. k - n \in Nat /\ n + (k - n) = k /\ ~(j <= k - n)
    BY <1>2, <1>4
  <2>2. k - n \notin Outside
    BY <1>2, <2>1
  <2> QED
    BY <2>1, <2>2
<1> QED
  BY <1>3, <1>4 DEF EndsRow

LEMMA RowEndsOnce ==
    ASSUME NEW S \in SUBSET Int, NEW n \in Int, NEW m \in Int, NEW k \in Int,
           EndsRow(S, n, m), EndsRow(S, n, k)
    PROVE  m = k
  BY DEF EndsRow

\* Such a count exists where every row ends.
LEMMA CountExists ==
    ASSUME NEW D \in SUBSET Int, \A n \in D : n + 1 \in D, NEW S \in SUBSET D,
           NEW top \in Int, \A k \in S : k <= top
    PROVE  \E f : IsCount(D, S, f)
<1> DEFINE End(n) == CHOOSE m \in Int : EndsRow(S, n, m)
           f == [n \in D |-> End(n) - n]
<1>1. \A n \in Int : End(n) \in Int /\ EndsRow(S, n, End(n))
  <2> TAKE n \in Int
  <2>1. \E m \in Int : EndsRow(S, n, m)
    BY RowEnds
  <2> QED
    BY <2>1
<1> HIDE DEF End
<1>2. ASSUME NEW n \in D PROVE f[n] = IF n \in S THEN 1 + f[n + 1] ELSE 0
  <2>1. n \in Int /\ n + 1 \in Int /\ f[n] = End(n) - n /\ f[n + 1] = End(n + 1) - (n + 1)
    OBVIOUS
  <2>2. CASE n \notin S
    <3>1. EndsRow(S, n, n)
      BY <2>1, <2>2 DEF EndsRow
    <3> HIDE DEF f
    <3> QED
      BY <1>1, <2>1, <2>2, <3>1, RowEndsOnce
  <2>3. CASE n \in S
    <3>1. EndsRow(S, n, End(n + 1))
      <4>1. n + 1 <= End(n + 1) /\ End(n + 1) \notin S /\ End(n + 1) \in Int
        BY <1>1, <2>1 DEF EndsRow
      <4>2. \A k \in Int : n + 1 <= k /\ k < End(n + 1) => k \in S
        BY <1>1, <2>1 DEF EndsRow
      <4>3. \A k \in Int : n <= k => k = n \/ n + 1 <= k
        BY <2>1
      <4> QED
        BY <2>1, <2>3, <4>1, <4>2, <4>3 DEF EndsRow
    <3>2. End(n) = End(n + 1)
      BY <1>1, <2>1, <3>1, RowEndsOnce
    <3> HIDE DEF f
    <3> QED
      BY <1>1, <2>1, <2>3, <3>2
  <2> QED
    BY <2>2, <2>3
<1>3. f = [n \in D |-> IF n \in S THEN 1 + f[n + 1] ELSE 0]
  BY <1>2
<1> QED
  BY <1>3 DEF IsCount

\* And it counts: the last number for which it did not would be wrong about the
\* next.
LEMMA CountIs ==
    ASSUME NEW D \in SUBSET Int, \A n \in D : n + 1 \in D, NEW S \in SUBSET D,
           NEW f, IsCount(D, S, f), NEW n \in D, NEW m \in Int, EndsRow(S, n, m)
    PROVE  f[n] = m - n
<1> DEFINE Wrong == {j \in Nat : m - j \in D /\ n <= m - j /\ f[m - j] # j}
<1>1. \A k \in D : f[k] = IF k \in S THEN 1 + f[k + 1] ELSE 0
  BY DEF IsCount
<1>2. Wrong = {}
  <2> SUFFICES ASSUME Wrong # {} PROVE FALSE
    OBVIOUS
  <2>1. PICK j \in Wrong : \A i \in Wrong : j <= i
    <3>1. Wrong \in SUBSET Nat
      OBVIOUS
    <3> HIDE DEF Wrong
    <3> QED
      BY <3>1, LeastNatural
  <2> DEFINE k == m - j
  <2>2. j \in Nat /\ k \in D /\ k \in Int /\ n <= k /\ k = m - j /\ f[k] # j
    BY <2>1
  <2>3. f[k] = IF k \in S THEN 1 + f[k + 1] ELSE 0
    BY <1>1, <2>2
  <2>4. CASE j = 0
    <3>1. k \notin S
      BY <2>2, <2>4 DEF EndsRow
    <3> QED
      BY <2>2, <2>3, <2>4, <3>1
  <2>5. CASE j > 0
    <3>1. k \in S
      <4> HIDE DEF k
      <4> QED
        BY <2>2, <2>5 DEF EndsRow
    <3>2. j - 1 \notin Wrong /\ j - 1 \in Nat
      BY <2>1, <2>5
    <3>3. k + 1 \in D /\ n <= k + 1 /\ m - (j - 1) = k + 1
      BY <2>2
    <3>4. f[k + 1] = j - 1
      BY <3>2, <3>3
    <3> HIDE DEF k
    <3> QED
      BY <2>2, <2>3, <3>1, <3>4
  <2> QED
    BY <2>2, <2>4, <2>5
<1>3. m - n \in Nat /\ m - (m - n) = n /\ n <= n
  BY DEF EndsRow
<1>4. m - n \notin Wrong
  BY <1>2
<1> QED
  BY <1>3, <1>4

\* current_streak, backwards from its cursor.
IsStreak(done, cursor, f) == f = [n \in Nat |-> IF cursor - n \in done THEN 1 + f[n + 1] ELSE 0]

\* The current streak of any days with a first one: as far back as something was
\* done on each.
THEOREM CurrentStreakCounts ==
    ASSUME NEW done \in SUBSET Int, NEW low \in Int, \A d \in done : low <= d, NEW today \in Int
    PROVE  LET last == IF today \in done THEN today ELSE today - 1
               streak == CurrentStreak(done, today)
           IN streak \in Nat /\ last - streak + 1 .. last \subseteq done /\ last - streak \notin done
<1> DEFINE cursor == IF today \in done THEN today ELSE today - 1
           S == {n \in Nat : cursor - n \in done}
           run == CHOOSE f : IsStreak(done, cursor, f)
<1>1. cursor \in Int /\ Nat \in SUBSET Int /\ (\A n \in Nat : n + 1 \in Nat) /\ 0 \in Nat
  OBVIOUS
<1>2. S \in SUBSET Nat /\ S \in SUBSET Int /\ (\A n \in S : n <= cursor - low) /\ cursor - low \in Int
  BY <1>1
<1>3. ASSUME NEW f PROVE IsCount(Nat, S, f) <=> IsStreak(done, cursor, f)
  <2>1. [n \in Nat |-> IF n \in S THEN 1 + f[n + 1] ELSE 0] =
          [n \in Nat |-> IF cursor - n \in done THEN 1 + f[n + 1] ELSE 0]
    OBVIOUS
  <2> QED
    BY <2>1 DEF IsCount, IsStreak
<1>4. IsCount(Nat, S, run)
  <2> HIDE DEF S, cursor
  <2>1. \E f : IsCount(Nat, S, f)
    BY <1>1, <1>2, CountExists
  <2>2. \E f : IsStreak(done, cursor, f)
    BY <1>3, <2>1
  <2>3. IsStreak(done, cursor, run)
    BY <2>2, Zenon
  <2> HIDE DEF run
  <2> QED
    BY <1>3, <2>3
<1>5. CurrentStreak(done, today) = run[0]
  BY DEF CurrentStreak, IsStreak
<1> HIDE DEF run
<1>6. PICK m \in Int : EndsRow(S, 0, m)
  <2> HIDE DEF S, cursor
  <2> QED
    BY <1>1, <1>2, RowEnds
<1>7. run[0] = m
  <2> HIDE DEF S, cursor
  <2>1. run[0] = m - 0
    BY <1>1, <1>2, <1>4, <1>6, CountIs
  <2> QED
    BY <2>1
<1>8. m \in Nat /\ cursor - m \notin done
  BY <1>6 DEF EndsRow
<1>9. ASSUME NEW d \in cursor - m + 1 .. cursor PROVE d \in done
  <2>1. cursor - d \in Int /\ 0 <= cursor - d /\ cursor - d < m /\ cursor - (cursor - d) = d
    BY <1>1, <1>8
  <2>2. cursor - d \in S
    <3> HIDE DEF S, cursor
    <3> QED
      BY <1>6, <2>1 DEF EndsRow
  <2> QED
    BY <2>1, <2>2
<1> QED
  BY <1>5, <1>7, <1>8, <1>9

\* The longest streak: of the rows of days, each measured from its first day.
IsRun(done, f) == f = [d \in Int |-> IF d \in done THEN 1 + f[d + 1] ELSE 0]
RowsIn(done) == {p[2] - p[1] + 1 : p \in {r \in done \X done : r[1] <= r[2] /\ r[1] .. r[2] \subseteq done}}

LEMMA GreatestExists ==
    ASSUME NEW S \in SUBSET Int, S # {}, NEW top \in Int, \A k \in S : k <= top
    PROVE  \E x \in S : \A y \in S : y <= x
<1> DEFINE Gaps == {j \in Nat : top - j \in S}
<1>1. Gaps \in SUBSET Nat /\ Gaps # {}
  <2>1. PICK k \in S : TRUE
    OBVIOUS
  <2>2. top - k \in Nat /\ top - (top - k) = k
    BY <2>1
  <2> QED
    BY <2>1, <2>2
<1>2. PICK j \in Gaps : \A i \in Gaps : j <= i
  <2> HIDE DEF Gaps
  <2> QED
    BY <1>1, LeastNatural
<1>3. ASSUME NEW y \in S PROVE y <= top - j
  <2>1. top - y \in Nat /\ top - (top - y) = y
    OBVIOUS
  <2>2. j <= top - y
    BY <1>2, <2>1
  <2> QED
    BY <1>2, <2>1, <2>2
<1> QED
  BY <1>2, <1>3

\* The longest streak of any days between two: the length of the longest row of
\* days, wherever it lies.
THEOREM LongestStreakMeasures ==
    ASSUME NEW done \in SUBSET Int, NEW low \in Int, NEW high \in Int,
           \A d \in done : low <= d /\ d <= high
    PROVE  LongestStreak(done) = GreatestOf({0} \cup RowsIn(done))
<1> DEFINE run == CHOOSE f : IsRun(done, f)
           firsts == {e \in done : e - 1 \notin done}
           lengths == {0} \cup {run[d] : d \in firsts}
           rows == {0} \cup RowsIn(done)
<1>1. IsRun(done, run)
  <2>1. \E f : IsCount(Int, done, f)
    <3>1. Int \in SUBSET Int /\ (\A n \in Int : n + 1 \in Int) /\ \A d \in done : d <= high
      OBVIOUS
    <3> HIDE DEF run, firsts, lengths, rows
    <3> QED
      BY <3>1, CountExists
  <2>2. \E f : IsRun(done, f)
    BY <2>1 DEF IsCount, IsRun
  <2> QED
    BY <2>2, Zenon
<1>2. LongestStreak(done) = GreatestOf(lengths)
  BY DEF LongestStreak, IsRun
<1> HIDE DEF run
<1>3. ASSUME NEW d \in done
      PROVE  \E m \in Int : EndsRow(done, d, m) /\ run[d] = m - d /\ d < m /\ m <= high + 1
  <2>1. PICK m \in Int : EndsRow(done, d, m)
    BY RowEnds
  <2>2. IsCount(Int, done, run)
    BY <1>1 DEF IsCount, IsRun
  <2>3. run[d] = m - d
    BY <2>1, <2>2, CountIs
  <2>4. d < m /\ m <= high + 1
    <3>1. d # m /\ d <= m
      BY <2>1 DEF EndsRow
    <3>2. m - 1 \in Int /\ m - 1 < m /\ d <= m - 1
      BY <3>1
    <3>3. m - 1 \in done
      BY <2>1, <3>2 DEF EndsRow
    <3> QED
      BY <3>1, <3>3
  <2> QED
    BY <2>1, <2>3, <2>4
<1>4. lengths \in SUBSET Int /\ lengths # {} /\ \A x \in lengths : x <= GreaterOf(0, high - low + 1)
  <2>1. ASSUME NEW d \in firsts PROVE run[d] \in Int /\ run[d] <= high - low + 1
    BY <1>3
  <2> QED
    BY <2>1 DEF GreaterOf
<1>5. PICK x \in lengths : \A y \in lengths : y <= x
  <2> HIDE DEF lengths
  <2>1. GreaterOf(0, high - low + 1) \in Int
    BY DEF GreaterOf
  <2> QED
    BY <1>4, <2>1, GreatestExists
<1>6. x \in rows
  <2>1. CASE x = 0
    BY <2>1
  <2>2. CASE x # 0
    <3>1. PICK d \in firsts : x = run[d]
      BY <2>2
    <3>2. PICK m \in Int : EndsRow(done, d, m) /\ run[d] = m - d /\ d < m
      BY <1>3
    <3>3. m - 1 \in Int /\ d <= m - 1 /\ m - 1 < m /\ x = (m - 1) - d + 1 /\ d \in Int
      BY <3>1, <3>2
    <3>4. m - 1 \in done /\ d .. m - 1 \subseteq done
      BY <3>2, <3>3 DEF EndsRow
    <3>5. <<d, m - 1>> \in {r \in done \X done : r[1] <= r[2] /\ r[1] .. r[2] \subseteq done}
      BY <3>3, <3>4
    <3> QED
      BY <3>3, <3>5 DEF RowsIn
  <2> QED
    BY <2>1, <2>2
<1>7. ASSUME NEW y \in rows PROVE y \in Int /\ y <= x
  <2>1. CASE y = 0
    BY <1>4, <1>5, <2>1
  <2>2. CASE y # 0
    <3>1. PICK p \in done \X done : p[1] <= p[2] /\ p[1] .. p[2] \subseteq done /\ y = p[2] - p[1] + 1
      BY <2>2 DEF RowsIn
    <3> DEFINE a == p[1]
               b == p[2]
               Back == {j \in Nat : a - j - 1 \notin done}
    <3>2. a \in done /\ b \in done /\ a \in Int /\ b \in Int /\ a <= b
      BY <3>1
    <3>3. Back \in SUBSET Nat /\ Back # {}
      <4>1. a - low \in Nat /\ a - (a - low) - 1 \notin done
        BY <3>2
      <4> HIDE DEF a
      <4> QED
        BY <4>1
    <3>4. PICK j \in Back : \A i \in Back : j <= i
      <4> HIDE DEF Back
      <4> QED
        BY <3>3, LeastNatural
    <3> DEFINE e == a - j
    <3>5. e \in Int /\ e <= a /\ e - 1 \notin done
      BY <3>2, <3>4
    <3>6. ASSUME NEW k \in Int, e <= k, k <= b PROVE k \in done
      <4>1. CASE a <= k
        BY <3>1, <3>6, <4>1
      <4>2. CASE k < a
        <5>1. a - k - 1 \in Nat /\ a - (a - k - 1) - 1 = k /\ ~(j <= a - k - 1)
          <6> HIDE DEF a, Back
          <6>1. j \in Nat
            BY <3>3, <3>4
          <6> QED
            BY <3>2, <3>6, <4>2, <6>1
        <5>2. a - k - 1 \notin Back
          <6> HIDE DEF a, Back
          <6> QED
            BY <3>4, <5>1
        <5> HIDE DEF a
        <5> QED
          BY <5>1, <5>2
      <4> QED
        BY <3>2, <3>6, <4>1, <4>2
    <3> HIDE DEF e
    <3>7. e \in firsts
      BY <3>2, <3>5, <3>6
    <3>8. PICK m \in Int : EndsRow(done, e, m) /\ run[e] = m - e
      BY <1>3, <3>7
    <3>9. b < m
      BY <3>2, <3>6, <3>8 DEF EndsRow
    <3>10. run[e] <= x
      BY <1>5, <3>7
    <3> QED
      BY <1>4, <1>5, <3>1, <3>2, <3>5, <3>8, <3>9, <3>10
  <2> QED
    BY <2>1, <2>2
<1>8. GreatestOf(lengths) = x
  <2> HIDE DEF lengths
  <2> QED
    BY <1>4, <1>5, Greatest
<1>9. GreatestOf(rows) = x
  <2> HIDE DEF rows
  <2> QED
    BY <1>6, <1>7, Greatest
<1> QED
  BY <1>2, <1>8, <1>9

\* The streaks of /stats are the rows of days in which something was done.
THEOREM StreaksCountHolds == Spec => []StreaksCount
<1>1. InBounds => StreaksCount
  <2> SUFFICES ASSUME InBounds, NEW done \in SUBSET (Today - 3 .. Today)
               PROVE  LET runs == {p[2] - p[1] + 1 : p \in {r \in done \X done : r[1] <= r[2] /\ r[1] .. r[2] \subseteq done}}
                          streak == CurrentStreak(done, Today)
                          last == IF Today \in done THEN Today ELSE Today - 1
                      IN /\ last - streak + 1 .. last \subseteq done
                         /\ last - streak \notin done
                         /\ LongestStreak(done) = GreatestOf({0} \cup runs)
    BY DEF StreaksCount
  <2>1. Today \in Int
    BY SettingsTyped, ZoneTyped, DayAndTime DEF Today
  <2>2. done \in SUBSET Int /\ Today - 3 \in Int /\ \A d \in done : Today - 3 <= d /\ d <= Today
    BY <2>1
  <2>3. LongestStreak(done) = GreatestOf({0} \cup RowsIn(done))
    BY <2>1, <2>2, LongestStreakMeasures
  <2> QED
    BY <2>1, <2>2, <2>3, CurrentStreakCounts DEF RowsIn
<1> QED
  BY <1>1, InBoundsHolds, PTL

-----------------------------------------------------------------------------
(* The moments of a schedule.                                                *)

\* How many instants lie between two readings.
LEMMA InstantsBetween ==
    ASSUME NEW z \in Zone, PutBackByADay(z), NEW v \in Int, NEW w \in Int, v <= w
    PROVE  ToUtc(z, w) - ToUtc(z, v) <= (w - v) + DayLength
<1> DEFINE t == ToUtc(z, v)
           u == ToUtc(z, w)
<1>1. t \in Int /\ u \in Int /\ Local(z, t) \in Int /\ v <= Local(z, t)
  BY NotBefore, ZoneTyped
<1>2. u <= t + GreaterOf(0, w - Local(z, t)) + GreaterOf(0, z.before - z.after)
  BY <1>1, Distance
<1>3. z.before \in Int /\ z.after \in Int /\ DayLength \in Nat
  BY ZoneTyped
<1> HIDE DEF t, u
<1>4. u - t <= (w - v) + DayLength
  BY <1>1, <1>2, <1>3 DEF GreaterOf, PutBackByADay
<1> QED
  BY <1>4 DEF t, u

\* The moments of a day start on the day and end before the next is over, and
\* the buffer has room for them.
LEMMA MomentsOfDay ==
    ASSUME NEW z \in Zone, PutBackByADay(z), NEW r, IsSchedule(r), r.kind # "once", NEW d \in Int
    PROVE  \E x \in Int, y \in Int :
             /\ MomentsForDay(r, z, d) \subseteq x .. y /\ y - x <= 2 * DayLength
             /\ ToUtc(z, Combine(d, 0)) <= x /\ y <= ToUtc(z, Combine(d + 2, 0) - 1)
<1> DEFINE first == Combine(d, 0)
           last == Combine(d + 2, 0) - 1
<1>1. DayLength \in Nat /\ DayLength > 0
  BY CalendarAssumption
<1>2. first \in Int /\ last = first + 2 * DayLength - 1 /\ d * DayLength = first
  <2>1. d + 1 \in Int /\ d + 1 + 1 = d + 2 /\ d * DayLength \in Int
    BY <1>1
  <2> QED
    BY <1>1, <2>1, InDay DEF Combine
<1>3. \A time \in 0 .. DayLength - 1 :
        Combine(d, time) = first + time /\ Combine(d + 1, time) = first + DayLength + time
  <2>1. (d + 1) * DayLength = first + DayLength
    BY <1>1, <1>2
  <2> QED
    BY <1>1, <1>2, <2>1 DEF Combine
<1> HIDE DEF first, last
<1>4. CASE r.kind = "interval"
  <2> DEFINE from == Combine(d, r.from)
             to == Combine(IF r.to > r.from THEN d ELSE d + 1, r.to)
             start == ToUtc(z, from)
             end == ToUtc(z, to)
  <2>1. r.from \in 0 .. DayLength - 1 /\ r.to \in 0 .. DayLength - 1
    BY <1>4 DEF IsSchedule
  <2>2. /\ from \in Int /\ to \in Int /\ first <= from /\ from <= to /\ to <= last
        /\ to - from <= DayLength
    BY <1>1, <1>2, <1>3, <2>1
  <2> HIDE DEF from, to
  <2>3. /\ start \in Int /\ end \in Int /\ start <= end /\ end - start <= 2 * DayLength
        /\ ToUtc(z, first) <= start /\ end <= ToUtc(z, last)
    <3>1. first \in Int /\ last \in Int
      BY <1>1, <1>2
    <3>2. end - start <= (to - from) + DayLength
      BY <2>2, InstantsBetween
    <3>3. start \in Int /\ end \in Int /\ start <= end /\ ToUtc(z, first) <= start /\ end <= ToUtc(z, last)
      BY <2>2, <3>1, NotBefore, Monotone
    <3> HIDE DEF start, end
    <3> QED
      BY <1>1, <2>2, <3>2, <3>3
  <2>4. MomentsForDay(r, z, d) = IF end <= start THEN {start}
                                 ELSE {t \in start .. end : (t - start) % r.every = 0}
    BY <1>4 DEF MomentsForDay, IntervalMoments, from, to
  <2> HIDE DEF start, end
  <2>5. MomentsForDay(r, z, d) \subseteq start .. end
    BY <2>3, <2>4
  <2> QED
    BY <2>3, <2>5 DEF first, last
<1>5. CASE r.kind # "interval"
  <2> DEFINE close == first + DayLength - 1
             x == ToUtc(z, first)
             y == ToUtc(z, close)
  <2>1. r.times \subseteq 0 .. DayLength - 1
    BY <1>5 DEF IsSchedule, IsTimes
  <2>2. close \in Int /\ first <= close /\ close <= last /\ last \in Int /\ close - first <= DayLength
    BY <1>1, <1>2
  <2>3. MomentsForDay(r, z, d) \subseteq {ToUtc(z, first + time) : time \in 0 .. DayLength - 1}
    BY <1>3, <1>5, <2>1 DEF MomentsForDay
  <2>4. ASSUME NEW time \in 0 .. DayLength - 1 PROVE ToUtc(z, first + time) \in x .. y
    <3>1. first + time \in Int /\ first <= first + time /\ first + time <= close
      BY <1>1, <1>2
    <3> HIDE DEF close
    <3>2. ToUtc(z, first + time) \in Int /\ x \in Int /\ y \in Int
          /\ x <= ToUtc(z, first + time) /\ ToUtc(z, first + time) <= y
      BY <1>2, <2>2, <3>1, NotBefore, Monotone
    <3> QED
      BY <3>2
  <2> HIDE DEF close
  <2>5. x \in Int /\ y \in Int /\ y - x <= 2 * DayLength /\ y <= ToUtc(z, last)
    <3>1. y - x <= (close - first) + DayLength
      BY <1>2, <2>2, InstantsBetween
    <3>2. x \in Int /\ y \in Int /\ y <= ToUtc(z, last)
      BY <1>2, <2>2, NotBefore, Monotone
    <3> HIDE DEF x, y
    <3> QED
      BY <1>1, <1>2, <2>2, <3>1, <3>2
  <2>6. MomentsForDay(r, z, d) \subseteq x .. y
    BY <2>3, <2>4
  <2> QED
    <3>1. x <= x
      BY <2>5
    <3> QED
      BY <2>5, <2>6, <3>1 DEF first, last
<1> QED
  BY <1>4, <1>5

\* The moments of a schedule, on whatever day, in (after, until].
On(r, z, days) == UNION {MomentsForDay(r, z, d) : d \in days}
Fires(r, z) == IF r.kind = "once" THEN {ToUtc(z, r.at)} ELSE On(r, z, Int)
Among(moments, after, until) == {t \in moments : after < t /\ t <= until}

\* The days looked at hold every moment of the range: the margin is enough.
LEMMA DaysHoldRange ==
    ASSUME NEW z \in Zone, PutBackByADay(z), NEW r, IsSchedule(r), r.kind # "once",
           NEW after \in Int, NEW until \in Int, Spanned(z, after, until), NEW d \in Int,
           NEW t \in MomentsForDay(r, z, d), after < t, t <= until
    PROVE  t \in Int /\ d \in LocalDays(z, after, until)
<1>1. PICK x \in Int, y \in Int :
        /\ MomentsForDay(r, z, d) \subseteq x .. y
        /\ ToUtc(z, Combine(d, 0)) <= x /\ y <= ToUtc(z, Combine(d + 2, 0) - 1)
  BY MomentsOfDay
<1> DEFINE first == Combine(d, 0)
           late == Local(z, after) - DayLength
           soon == Local(z, until) + DayLength
<1>2. /\ DayLength \in Nat /\ z.at \in Int /\ z.before \in Int /\ z.after \in Int
      /\ Local(z, after) \in Int /\ Local(z, until) \in Int
  BY ZoneTyped
<1>3. first \in Int /\ Combine(d + 1, 0) = first + DayLength /\ Combine(d + 2, 0) = first + 2 * DayLength
  <2>1. d + 1 \in Int /\ d + 1 + 1 = d + 2
    OBVIOUS
  <2> QED
    BY <1>2, <2>1, InDay
<1>4. t \in Int /\ ToUtc(z, first) <= t /\ t <= ToUtc(z, first + 2 * DayLength - 1)
  <2>1. t \in x .. y
    BY <1>1
  <2> DEFINE last == first + 2 * DayLength - 1
  <2>2. last \in Int /\ Combine(d + 2, 0) - 1 = last
    BY <1>2, <1>3
  <2> HIDE DEF first, last
  <2>3. ToUtc(z, first) \in Int /\ ToUtc(z, last) \in Int
    BY <1>3, <2>2, NotBefore
  <2>4. ToUtc(z, first) <= x /\ y <= ToUtc(z, last)
    BY <1>1, <2>2 DEF first
  <2>5. t \in Int /\ ToUtc(z, first) <= t /\ t <= ToUtc(z, last)
    BY <2>1, <2>3, <2>4
  <2> QED
    BY <2>5 DEF last
<1>5. DayOf(late) <= d
  <2>1. first + 2 * DayLength - 1 \in Int
    BY <1>2, <1>3
  <2>2. after < ToUtc(z, first + 2 * DayLength - 1)
    BY <1>4, <2>1, NotBefore
  <2>3. Local(z, after) < first + 2 * DayLength - 1
    BY <2>1, <2>2, NotBefore
  <2>4. late \in Int /\ late < Combine(d + 1, 0)
    BY <1>2, <1>3, <2>3
  <2> QED
    BY <2>4, InDay
<1>6. d <= DayOf(soon)
  <2> DEFINE u == ToUtc(z, first)
  <2>1. u \in Int /\ u <= until /\ first <= Local(z, u)
    BY <1>3, <1>4, NotBefore
  <2> HIDE DEF u, first
  <2>2. soon \in Int /\ first <= soon
    BY <1>2, <1>3, <2>1 DEF Local, PutBackByADay
  <2> QED
    BY <2>2, InDay DEF first
<1>7. DayOf(late) \in Int /\ DayOf(soon) \in Int
  BY <1>2, DayAndTime
<1> QED
  BY <1>4, <1>5, <1>6, <1>7, SafetyBufferAssumption DEF LocalDays, FirstDay, LastDay, Spanned, LesserOf

Below(moments, t) == {u \in moments : u < t}

LEMMA FewerBelow ==
    ASSUME NEW moments \in SUBSET Int, IsFiniteSet(moments), NEW part \in SUBSET moments,
           NEW t \in Int, NEW v \in Int, t <= v
    PROVE  /\ Cardinality(Below(part, t)) \in Nat /\ Cardinality(Below(moments, v)) \in Nat
           /\ Cardinality(Below(part, t)) <= Cardinality(Below(moments, v))
<1>1. Below(moments, v) \in SUBSET moments /\ Below(part, t) \in SUBSET Below(moments, v)
  <2>1. \A u \in part : u < t => u \in moments /\ u < v
    <3>1. part \in SUBSET Int
      OBVIOUS
    <3> QED
      BY <3>1
  <2> QED
    BY <2>1 DEF Below
<1>2. IsFiniteSet(Below(moments, v))
  BY <1>1, FS_Subset
<1>3. /\ IsFiniteSet(Below(part, t))
      /\ Cardinality(Below(part, t)) <= Cardinality(Below(moments, v))
  BY <1>1, <1>2, FS_Subset
<1> QED
  BY <1>2, <1>3, FS_CardinalityType

\* What is left out does not matter if there is enough below it.
LEMMA FirstOfPart ==
    ASSUME NEW moments \in SUBSET Int, IsFiniteSet(moments), NEW part \in SUBSET moments,
           NEW limit \in Nat, \A t \in moments \ part : Cardinality(Below(part, t)) >= limit
    PROVE  FirstOf(part, limit) = FirstOf(moments, limit)
<1>1. ASSUME NEW t \in moments
      PROVE  /\ Cardinality(Below(part, t)) <= Cardinality(Below(moments, t))
             /\ Cardinality(Below(part, t)) \in Nat /\ Cardinality(Below(moments, t)) \in Nat
  <2>1. t \in Int /\ t <= t
    OBVIOUS
  <2> QED
    BY <2>1, FewerBelow
<1>2. ASSUME NEW t \in part, Cardinality(Below(part, t)) < limit
      PROVE  Below(moments, t) = Below(part, t)
  <2>1. ASSUME NEW v \in moments \ part, v < t PROVE FALSE
    <3>1. Cardinality(Below(part, v)) >= limit
      OBVIOUS
    <3>2. part \in SUBSET Int /\ IsFiniteSet(part) /\ part \in SUBSET part /\ v \in Int /\ t \in Int /\ v <= t
      <4>1. IsFiniteSet(part)
        BY FS_Subset
      <4>2. part \in SUBSET Int /\ t \in Int /\ v \in Int
        OBVIOUS
      <4> QED
        BY <2>1, <4>1, <4>2
    <3>3. /\ Cardinality(Below(part, v)) \in Nat /\ Cardinality(Below(part, t)) \in Nat
          /\ Cardinality(Below(part, v)) <= Cardinality(Below(part, t))
      BY <3>2, FewerBelow
    <3> QED
      BY <1>2, <3>1, <3>3
  <2> QED
    BY <2>1 DEF Below
<1>3. ASSUME NEW t \in part
      PROVE  Cardinality(Below(part, t)) < limit <=> Cardinality(Below(moments, t)) < limit
  <2>1. t \in moments
    OBVIOUS
  <2> QED
    BY <1>1, <1>2, <2>1
<1>4. ASSUME NEW t \in moments, t \notin part PROVE ~(Cardinality(Below(moments, t)) < limit)
  <2>1. Cardinality(Below(part, t)) >= limit
    BY <1>4
  <2> QED
    BY <1>1, <2>1
<1> QED
  BY <1>3, <1>4 DEF FirstOf, Below

\* If there are fewer than the limit, they are all there are.
LEMMA FirstOfAll ==
    ASSUME NEW moments \in SUBSET Int, IsFiniteSet(moments), NEW low \in Int,
           \A t \in moments : low <= t,
           NEW limit \in Nat, Cardinality(FirstOf(moments, limit)) < limit
    PROVE  FirstOf(moments, limit) = moments
<1> DEFINE few == FirstOf(moments, limit)
           Left == {j \in Nat : low + j \in moments \ few}
<1>1. Left = {}
  <2> SUFFICES ASSUME Left # {} PROVE FALSE
    OBVIOUS
  <2>1. PICK j \in Left : \A i \in Left : j <= i
    <3>1. Left \in SUBSET Nat
      OBVIOUS
    <3> HIDE DEF Left
    <3> QED
      BY <3>1, LeastNatural
  <2> DEFINE t == low + j
  <2>2. t \in moments \ few
    BY <2>1
  <2>3. {u \in moments : u < t} \subseteq few
    <3> SUFFICES ASSUME NEW u \in moments, u < t, u \notin few PROVE FALSE
      OBVIOUS
    <3>1. u - low \in Nat /\ low + (u - low) = u /\ ~(j <= u - low)
      <4> HIDE DEF few
      <4> QED
        BY <2>1
    <3>2. u - low \in Left
      BY <3>1
    <3> QED
      BY <2>1, <3>1, <3>2
  <2>4. few \in SUBSET moments
    BY DEF FirstOf
  <2>5. IsFiniteSet(few)
    <3> HIDE DEF few
    <3> QED
      BY <2>4, FS_Subset
  <2>6. /\ Cardinality({u \in moments : u < t}) <= Cardinality(few)
        /\ IsFiniteSet({u \in moments : u < t})
    <3> HIDE DEF few, t
    <3> QED
      BY <2>3, <2>5, FS_Subset
  <2>7. ~(Cardinality({u \in moments : u < t}) < limit)
    BY <2>2 DEF FirstOf
  <2>8. Cardinality(few) \in Nat /\ Cardinality({u \in moments : u < t}) \in Nat /\ Cardinality(few) < limit
    <3>1. Cardinality(few) < limit
      OBVIOUS
    <3> HIDE DEF few, t
    <3> QED
      BY <2>5, <2>6, <3>1, FS_CardinalityType
  <2> HIDE DEF few, t
  <2> QED
    BY <2>6, <2>7, <2>8
<1>2. \A t \in moments : t - low \in Nat /\ low + (t - low) = t
  OBVIOUS
<1>3. moments \subseteq few
  BY <1>1, <1>2
<1> QED
  BY <1>3 DEF FirstOf

\* Stopping early loses nothing: the last day looked at has no more moments
\* than the buffer, and the moments of the days before it are all below those
\* of the days to come.
LEMMA StopsLate ==
    ASSUME NEW z \in Zone, PutBackByADay(z), NEW r, IsSchedule(r), r.kind # "once",
           NEW after \in Int, NEW until \in Int, Spanned(z, after, until), NEW limit \in Nat
    PROVE  LET all == Among(Fires(r, z), after, until)
               part == Collected(r, z, after, until, limit)
           IN /\ all \in SUBSET Int /\ IsFiniteSet(all) /\ part \in SUBSET all
              /\ \A t \in all \ part : Cardinality(Below(part, t)) >= limit
<1> DEFINE days == LocalDays(z, after, until)
           Found(D) == Among(On(r, z, D), after, until)
           Earlier(day) == {d \in days : d < day}
           Enough(day) == ~(Cardinality(Found(Earlier(day))) < limit + SafetyBuffer)
           all == Found(Int)
           part == Found({d \in days : ~Enough(d)})
<1>1. Among(Fires(r, z), after, until) = all /\ Collected(r, z, after, until, limit) = part
  BY DEF Fires, Collected, Among, On
<1>2. DayOf(Local(z, after) - DayLength) \in Int /\ DayOf(Local(z, until) + DayLength) \in Int
  BY ZoneTyped, DayAndTime
<1>3. days \in SUBSET Int /\ \A d \in days : DayOf(Local(z, after) - DayLength) <= d
  BY <1>2, SafetyBufferAssumption DEF LocalDays, FirstDay, LastDay, LesserOf
<1> HIDE DEF days, Enough
<1>4. \A t \in all : t \in after + 1 .. until /\ \E d \in days : t \in MomentsForDay(r, z, d)
  <2> TAKE t \in all
  <2>1. PICK d \in Int : t \in MomentsForDay(r, z, d) /\ after < t /\ t <= until
    BY DEF Among, On
  <2>2. t \in Int /\ d \in LocalDays(z, after, until)
    BY <2>1, DaysHoldRange
  <2> HIDE DEF all
  <2>3. t \in after + 1 .. until
    BY <2>1, <2>2
  <2> QED
    BY <2>1, <2>2, <2>3 DEF days
<1>5. all \in SUBSET Int /\ IsFiniteSet(all)
  <2>1. IsFiniteSet(after + 1 .. until)
    BY FS_Interval
  <2>2. all \in SUBSET (after + 1 .. until)
    BY <1>4
  <2> HIDE DEF all
  <2>3. IsFiniteSet(all)
    BY <2>1, <2>2, FS_Subset
  <2> QED
    BY <2>2, <2>3
<1>6. \A D \in SUBSET Int : Found(D) \in SUBSET all
  BY DEF Among, On
<1>7. part \in SUBSET all
  BY <1>3, <1>6
<1>8. ASSUME NEW t \in all, t \notin part PROVE Cardinality(Below(part, t)) >= limit
  <2>1. PICK e \in days : t \in MomentsForDay(r, z, e)
    BY <1>4
  <2>2. Enough(e) /\ after < t /\ t <= until /\ t \in Int
    <3>1. after < t /\ t <= until /\ t \in Int
      BY <1>5 DEF Among
    <3> QED
      BY <1>8, <2>1, <3>1 DEF Among, On
  <2> DEFINE Full == {d \in days : Enough(d)}
  <2>3. PICK n \in Full : \A d \in Full : n <= d
    <3> DEFINE low == DayOf(Local(z, after) - DayLength)
               Steps == {j \in Nat : low + j \in Full}
    <3>1. Steps \in SUBSET Nat /\ Steps # {}
      <4>1. e - low \in Nat /\ low + (e - low) = e
        BY <1>2, <1>3
      <4> HIDE DEF low
      <4> QED
        BY <2>2, <4>1
    <3>2. PICK j \in Steps : \A i \in Steps : j <= i
      <4> HIDE DEF Steps
      <4> QED
        BY <3>1, LeastNatural
    <3>3. \A d \in Full : low + j <= d
      <4> TAKE d \in Full
      <4>1. d - low \in Nat /\ low + (d - low) = d
        BY <1>2, <1>3
      <4> HIDE DEF low, Full
      <4>2. d - low \in Steps
        BY <4>1
      <4>3. low \in Int /\ d \in Int
        BY <1>2, <1>3 DEF low, Full
      <4> QED
        BY <3>2, <4>1, <4>2, <4>3
    <3>4. low + j \in Full
      BY <3>2
    <3> QED
      BY <3>3, <3>4
  <2>4. n \in Int /\ e \in Int /\ n <= e /\ Enough(n)
    BY <1>3, <2>2, <2>3
  <2> DEFINE found == Found(Earlier(n))
             last == MomentsForDay(r, z, n - 1)
             old == found \ last
             border == ToUtc(z, Combine(n, 0))
  <2>5. found \in SUBSET part
    <3>1. \A d \in Earlier(n) : d \in days /\ ~Enough(d)
      BY <1>3, <2>3, <2>4
    <3> QED
      BY <3>1 DEF Among, On
  <2>6. IsFiniteSet(found) /\ Cardinality(found) >= limit + SafetyBuffer
    <3>1. found \in SUBSET all
      BY <1>7, <2>5
    <3>2. IsFiniteSet(found)
      <4> HIDE DEF all, found
      <4> QED
        BY <1>5, <3>1, FS_Subset
    <3>3. Cardinality(found) \in Nat
      <4> HIDE DEF found
      <4> QED
        BY <3>2, FS_CardinalityType
    <3>4. ~(Cardinality(found) < limit + SafetyBuffer)
      BY <2>4 DEF Enough
    <3> HIDE DEF found
    <3> QED
      BY <3>2, <3>3, <3>4, SafetyBufferAssumption
  <2>7. border \in Int /\ border <= t
    <3>1. PICK x \in Int, y \in Int :
            /\ MomentsForDay(r, z, e) \subseteq x .. y
            /\ ToUtc(z, Combine(e, 0)) <= x
      BY <2>4, MomentsOfDay
    <3>2. x <= t
      BY <2>1, <3>1
    <3>3. Combine(n, 0) \in Int /\ Combine(e, 0) \in Int /\ Combine(n, 0) <= Combine(e, 0)
      <4>1. Combine(n, 0) \in Int /\ Combine(e, 0) \in Int /\ DayOf(Combine(e, 0)) = e
        BY <2>4, CalendarAssumption, Combined
      <4> QED
        BY <2>4, <4>1, InDay
    <3>4. border \in Int /\ ToUtc(z, Combine(e, 0)) \in Int /\ border <= ToUtc(z, Combine(e, 0))
      BY <3>3, NotBefore, Monotone
    <3> HIDE DEF border
    <3> QED
      BY <2>2, <3>1, <3>2, <3>4
  <2>8. ASSUME NEW u \in old PROVE u \in Int /\ u <= border
    <3>1. PICK d \in Earlier(n) : u \in MomentsForDay(r, z, d)
      BY DEF Among, On
    <3>2. d \in Int /\ d < n - 1
      <4>1. d # n - 1
        BY <3>1
      <4> QED
        BY <1>3, <2>4, <4>1
    <3>3. PICK x \in Int, y \in Int :
            /\ MomentsForDay(r, z, d) \subseteq x .. y
            /\ y <= ToUtc(z, Combine(d + 2, 0) - 1)
      BY <3>2, MomentsOfDay
    <3>4. u \in Int /\ u <= y
      BY <3>1, <3>3
    <3> DEFINE close == Combine(d + 2, 0) - 1
    <3>5. close \in Int /\ Combine(n, 0) \in Int /\ close <= Combine(n, 0)
      <4>1. d + 2 \in Int /\ d + 2 <= n
        BY <2>4, <3>2
      <4>2. Combine(d + 2, 0) \in Int /\ Combine(n, 0) \in Int /\ DayOf(Combine(n, 0)) = n
        BY <2>4, <4>1, CalendarAssumption, Combined
      <4>3. Combine(d + 2, 0) <= Combine(n, 0)
        BY <2>4, <4>1, <4>2, InDay
      <4> QED
        BY <4>2, <4>3
    <3>6. ToUtc(z, close) \in Int /\ ToUtc(z, close) <= border
      BY <3>5, NotBefore, Monotone
    <3>7. y <= ToUtc(z, close)
      BY <3>3
    <3> HIDE DEF border, close
    <3> QED
      BY <2>7, <3>4, <3>6, <3>7
  <2>9. Cardinality(old) >= limit /\ Cardinality(old) \in Nat /\ IsFiniteSet(old)
    <3>1. PICK x \in Int, y \in Int : last \subseteq x .. y /\ y - x <= 2 * DayLength
      <4>1. n - 1 \in Int
        BY <2>4
      <4> QED
        BY <4>1, MomentsOfDay
    <3>2. /\ IsFiniteSet(x .. y) /\ Cardinality(x .. y) = IF x > y THEN 0 ELSE y - x + 1
      BY FS_Interval
    <3> DEFINE shared == found \cap last
    <3>3. shared \in SUBSET (x .. y)
      BY <3>1
    <3> HIDE DEF found, last
    <3>4. /\ IsFiniteSet(old) /\ Cardinality(old) = Cardinality(found) - Cardinality(shared)
      BY <2>6, FS_Difference
    <3>5. Cardinality(old) \in Nat /\ Cardinality(found) \in Nat
      <4> HIDE DEF old
      <4> QED
        BY <2>6, <3>4, FS_CardinalityType
    <3> HIDE DEF shared, old
    <3>6. IsFiniteSet(shared) /\ Cardinality(shared) <= Cardinality(x .. y) /\ Cardinality(shared) \in Nat
      BY <3>2, <3>3, FS_Subset, FS_CardinalityType
    <3>7. Cardinality(shared) <= SafetyBuffer
      BY <3>1, <3>2, <3>6, SafetyBufferAssumption, CalendarAssumption
    <3> QED
      BY <2>6, <3>4, <3>5, <3>6, <3>7, SafetyBufferAssumption
  <2>10. old \in SUBSET Below(part, t)
    <3> SUFFICES ASSUME NEW u \in old PROVE u \in part /\ u < t
      BY DEF Below
    <3>1. u \in part /\ u # t
      <4> HIDE DEF part, found
      <4> QED
        BY <1>8, <2>5
    <3>2. u \in Int /\ u <= border
      BY <2>8
    <3> HIDE DEF border, old, part
    <3> QED
      BY <2>2, <2>7, <3>1, <3>2
  <2>11. IsFiniteSet(Below(part, t)) /\ Cardinality(Below(part, t)) \in Nat
    <3> HIDE DEF part, all
    <3>1. Below(part, t) \in SUBSET all
      BY <1>7 DEF Below
    <3> QED
      BY <1>5, <3>1, FS_Subset, FS_CardinalityType
  <2>12. Cardinality(old) <= Cardinality(Below(part, t))
    <3> HIDE DEF old, part
    <3> QED
      BY <2>10, <2>11, FS_Subset
  <2> HIDE DEF old, part
  <2> QED
    BY <2>9, <2>11, <2>12
<1> HIDE DEF all, part
<1> QED
  BY <1>1, <1>5, <1>7, <1>8

\* next_occurrences, for any schedule and limit and any range the guard cuts
\* nothing off: the first moments of the range, whatever the early stop skips.
THEOREM NextOccurrencesAreTheFirst ==
    ASSUME NEW z \in Zone, PutBackByADay(z), NEW r, IsSchedule(r),
           NEW after \in Int, NEW until \in Int, Spanned(z, after, until), NEW limit \in Nat \ {0}
    PROVE  /\ NextOccurrences(r, z, after, until, limit) = FirstOf(Among(Fires(r, z), after, until), limit)
           /\ Among(Fires(r, z), after, until) \in SUBSET Int
           /\ IsFiniteSet(Among(Fires(r, z), after, until))
<1> DEFINE all == Among(Fires(r, z), after, until)
<1>1. CASE r.kind = "once"
  <2> DEFINE t == ToUtc(z, r.at)
  <2>1. t \in Int
    <3>1. r.at \in Int
      BY <1>1 DEF IsSchedule
    <3> QED
      BY <3>1, NotBefore
  <2>2. all = IF after < t /\ t <= until THEN {t} ELSE {}
    BY <1>1 DEF Among, Fires
  <2> HIDE DEF t
  <2>3. all \in SUBSET Int /\ IsFiniteSet(all)
    <3> HIDE DEF all
    <3>1. IsFiniteSet({t}) /\ IsFiniteSet({})
      BY FS_Singleton, FS_EmptySet
    <3> QED
      BY <2>1, <2>2, <3>1
  <2>4. FirstOf(all, limit) = all
    <3>1. \A u \in all : {v \in all : v < u} = {}
      BY <2>1, <2>2
    <3>2. \A u \in all : Cardinality({v \in all : v < u}) < limit
      BY <3>1, FS_EmptySet
    <3> QED
      BY <3>2 DEF FirstOf
  <2>5. NextOccurrences(r, z, after, until, limit) = all
    BY <1>1, <2>1, <2>2 DEF NextOccurrences, t
  <2> QED
    BY <2>3, <2>4, <2>5
<1>2. CASE r.kind # "once"
  <2> DEFINE part == Collected(r, z, after, until, limit)
  <2>1. /\ all \in SUBSET Int /\ IsFiniteSet(all) /\ part \in SUBSET all
        /\ \A t \in all \ part : Cardinality(Below(part, t)) >= limit
    BY <1>2, StopsLate
  <2> HIDE DEF all, part
  <2>2. FirstOf(part, limit) = FirstOf(all, limit)
    BY <2>1, FirstOfPart
  <2>3. CASE until <= after
    <3>1. all = {}
      BY <2>1, <2>3 DEF all, Among
    <3> QED
      BY <2>1, <2>3, <3>1 DEF NextOccurrences, FirstOf, all
  <2>4. CASE ~(until <= after)
    <3>1. NextOccurrences(r, z, after, until, limit) = FirstOf(part, limit)
      BY <1>2, <2>4 DEF NextOccurrences, part
    <3> QED
      BY <2>1, <2>2, <3>1 DEF all
  <2> QED
    BY <2>3, <2>4
<1> QED
  BY <1>1, <1>2

LEMMA AmongTyped ==
    ASSUME NEW z \in Zone, PutBackByADay(z), NEW r, IsSchedule(r),
           NEW after \in Int, NEW until \in Int, Spanned(z, after, until)
    PROVE  /\ Among(Fires(r, z), after, until) \in SUBSET Int
           /\ IsFiniteSet(Among(Fires(r, z), after, until))
<1>1. 1 \in Nat \ {0}
  OBVIOUS
<1> QED
  BY <1>1, NextOccurrencesAreTheFirst, Zenon

\* The wizard's card looks for one moment.
LEMMA FirstFireIsTheFirst ==
    ASSUME NEW z \in Zone, PutBackByADay(z), NEW r, IsSchedule(r),
           NEW at \in Int, NEW horizon \in Int, Spanned(z, at - 1, at + horizon)
    PROVE  FirstFireAt(r, z, at, horizon) = FirstOf(Among(Fires(r, z), at - 1, at + horizon), 1)
<1> DEFINE after == at - 1
           until == at + horizon
           limit == 1
<1>1. after \in Int /\ until \in Int /\ limit \in Nat \ {0} /\ Spanned(z, after, until)
  OBVIOUS
<1> HIDE DEF after, until, limit
<1>2. NextOccurrences(r, z, after, until, limit) = FirstOf(Among(Fires(r, z), after, until), limit)
  BY <1>1, NextOccurrencesAreTheFirst
<1> QED
  BY <1>2 DEF FirstFireAt, after, until, limit

-----------------------------------------------------------------------------
(* The planner's windows.                                                    *)

\* What has been written is what fires up to where the planner has got.
Written ==
  /\ InBounds
  /\ planned_until \in Int /\ Start - 1 <= planned_until /\ planned_until <= now + Lead
  /\ planned = Among(Fires(s.schedule, s.zone), Start - 1, planned_until)

LEMMA Typed ==
    ASSUME InBounds, \A c \in Settings : PutBackByADay(c.zone)
    PROVE  /\ s.zone \in Zone /\ PutBackByADay(s.zone) /\ IsSchedule(s.schedule)
           /\ now \in Int /\ now >= Start /\ now <= MaxTime
           /\ Start \in Int /\ Start >= 0 /\ MaxTime \in Int /\ Lead \in Int /\ Lead >= 0
           /\ BatchLimit \in Nat \ {0}
  BY SettingsTyped, BoundsAssumption DEF InBounds

\* None of the program's windows has more days than are looked at.
LEMMA ShortRangeIsSpanned ==
    ASSUME NEW z \in Zone, NEW after \in Int, NEW until \in Int,
           until - after <= (MaxLocalDays - 4) * DayLength
    PROVE  Spanned(z, after, until)
<1> DEFINE low == Local(z, after) - DayLength
           high == Local(z, until) + DayLength
           d == DayOf(low)
           m == MaxLocalDays * DayLength
           k == d * DayLength
<1>1. /\ DayLength \in Nat /\ z.at \in Int /\ z.before \in Offset /\ z.after \in Offset
      /\ Local(z, after) \in Int /\ Local(z, until) \in Int /\ MaxLocalDays \in Int
  BY ZoneTyped, SafetyBufferAssumption DEF Zone
<1>2. low \in Int /\ high \in Int /\ d \in Int /\ DayOf(high) \in Int
  BY <1>1, DayAndTime
<1>3. m \in Int /\ k \in Int /\ (MaxLocalDays - 4) * DayLength = m - 4 * DayLength
  BY <1>1, <1>2
<1>4. Combine(d + MaxLocalDays, 0) = k + m /\ Combine(d, 0) = k
  BY <1>1, <1>2 DEF Combine
<1>5. low < k + DayLength
  BY <1>2, <1>4, InDay
<1>6. high <= low + m
  BY <1>1, <1>3 DEF Local, Offset
<1> HIDE DEF low, high, d, m, k
<1>7. high < Combine(d + MaxLocalDays + 1, 0)
  <2>1. d + MaxLocalDays \in Int
    BY <1>1, <1>2
  <2>2. Combine(d + MaxLocalDays + 1, 0) = Combine(d + MaxLocalDays, 0) + DayLength
    BY <1>2, <2>1, InDay
  <2> QED
    BY <1>1, <1>2, <1>3, <1>4, <1>5, <1>6, <2>2
<1>8. DayOf(high) <= d + MaxLocalDays
  <2>1. d + MaxLocalDays \in Int
    BY <1>1, <1>2
  <2> QED
    BY <1>2, <1>7, <2>1, InDay
<1> QED
  BY <1>1, <1>2, <1>8 DEF Spanned, FirstDay, LastDay, low, high, d

LEMMA WindowsSpanned ==
    ASSUME LooksFarEnough, NEW z \in Zone, NEW after \in Int, NEW until \in Int,
           Start - 1 <= after, until <= Start + MaxTime + Lead
    PROVE  Spanned(z, after, until)
<1> DEFINE room == (MaxLocalDays - 4) * DayLength
<1>1. room \in Int /\ Start \in Int /\ MaxTime \in Int /\ Lead \in Int
  BY CalendarAssumption, SafetyBufferAssumption, BoundsAssumption
<1>2. MaxTime + Lead < room
  BY DEF LooksFarEnough
<1> HIDE DEF room
<1>3. until - after <= room
  BY <1>1, <1>2
<1> QED
  BY <1>3, ShortRangeIsSpanned DEF room

\* One cycle: the moments up to the last one written, or up to the horizon.
LEMMA PlanWrites ==
    ASSUME \A c \in Settings : PutBackByADay(c.zone), LooksFarEnough, Written, Plan
    PROVE  Written'
<1> DEFINE fires == Fires(s.schedule, s.zone)
           until == now + Lead
           all == Among(fires, planned_until, until)
           moments == NextOccurrences(s.schedule, s.zone, planned_until, until, BatchLimit)
<1>1. /\ s.zone \in Zone /\ PutBackByADay(s.zone) /\ IsSchedule(s.schedule)
      /\ Start \in Int /\ until \in Int /\ BatchLimit \in Nat \ {0} /\ planned_until \in Int
      /\ Start - 1 <= planned_until /\ planned_until < until
  BY Typed DEF Written, Plan
<1>2. InBounds'
  BY DEF Written, InBounds, Plan
<1>3. planned = Among(fires, Start - 1, planned_until)
  BY DEF Written
<1>4. moments = FirstOf(all, BatchLimit) /\ all \in SUBSET Int /\ IsFiniteSet(all)
  <2> DEFINE z == s.zone
             r == s.schedule
             after == planned_until
  <2>1. /\ z \in Zone /\ PutBackByADay(z) /\ IsSchedule(r)
        /\ after \in Int /\ until \in Int /\ BatchLimit \in Nat \ {0}
    BY <1>1
  <2>2. Start - 1 <= after /\ until <= Start + MaxTime + Lead
    BY <1>1, Typed DEF Written
  <2> HIDE DEF z, r, after, until
  <2>3. Spanned(z, after, until)
    BY <2>1, <2>2, WindowsSpanned
  <2>4. /\ NextOccurrences(r, z, after, until, BatchLimit) = FirstOf(Among(Fires(r, z), after, until), BatchLimit)
        /\ Among(Fires(r, z), after, until) \in SUBSET Int
        /\ IsFiniteSet(Among(Fires(r, z), after, until))
    BY <2>1, <2>3, NextOccurrencesAreTheFirst
  <2> QED
    BY <2>4 DEF z, r, after
<1>5. planned' = planned \cup moments /\ planned_until' = Settled(moments, until) /\ UNCHANGED <<s, now>>
  BY DEF Plan
<1>6. \A t \in fires : t \in all <=> planned_until < t /\ t <= until
  BY DEF Among
<1> HIDE DEF moments, all
<1>7. moments \in SUBSET all
  BY <1>4 DEF FirstOf
<1>8. IsFiniteSet(moments) /\ Cardinality(moments) \in Nat
  BY <1>4, <1>7, FS_Subset, FS_CardinalityType
<1>9. all \in SUBSET fires /\ \A t \in all : t \in Int /\ planned_until < t /\ t <= until
  BY <1>4 DEF all, Among
<1>10. \A t \in fires : t \in Int
  <2>1. CASE s.schedule.kind = "once"
    <3>1. s.schedule.at \in Int
      BY <1>1, <2>1 DEF IsSchedule
    <3> QED
      BY <1>1, <2>1, <3>1, NotBefore DEF Fires
  <2>2. CASE s.schedule.kind # "once"
    <3> SUFFICES ASSUME NEW t \in fires PROVE t \in Int
      OBVIOUS
    <3>1. PICK d \in Int : t \in MomentsForDay(s.schedule, s.zone, d)
      BY <2>2 DEF Fires, On
    <3>2. PICK x \in Int, y \in Int : MomentsForDay(s.schedule, s.zone, d) \subseteq x .. y
      BY <1>1, <2>2, MomentsOfDay
    <3> QED
      BY <3>1, <3>2
  <2> QED
    BY <2>1, <2>2
<1> HIDE DEF fires, until
<1>11. CASE moments # {} /\ Cardinality(moments) >= BatchLimit
  <2>1. PICK g \in moments : \A t \in moments : t <= g
    <3>1. moments \in SUBSET Int /\ \A t \in moments : t <= until
      BY <1>7, <1>9
    <3> QED
      BY <1>1, <1>11, <3>1, GreatestExists
  <2>2. planned_until' = g
    <3>1. GreatestOf(moments) = g
      BY <1>4, <1>7, <2>1, Greatest
    <3> QED
      BY <1>5, <1>11, <3>1 DEF Settled
  <2>3. g \in all /\ g \in Int /\ planned_until < g /\ g <= until
    BY <1>7, <1>9, <2>1
  <2>4. ASSUME NEW t \in all, t <= g PROVE t \in moments
    <3>1. Cardinality({u \in all : u < g}) < BatchLimit
      BY <1>4, <2>1 DEF FirstOf
    <3>2. /\ Cardinality(Below(all, t)) <= Cardinality(Below(all, g))
          /\ Cardinality(Below(all, t)) \in Nat /\ Cardinality(Below(all, g)) \in Nat
      <4>1. t \in Int /\ all \in SUBSET all
        BY <1>9
      <4> QED
        BY <1>4, <2>3, <2>4, <4>1, FewerBelow
    <3>3. Cardinality(Below(all, t)) < BatchLimit
      BY <1>1, <3>1, <3>2 DEF Below
    <3> QED
      BY <1>4, <3>3 DEF FirstOf, Below
  <2>5. planned' = Among(fires, Start - 1, g)
    <3>1. ASSUME NEW t \in planned' PROVE t \in fires /\ Start - 1 < t /\ t <= g
      <4>1. CASE t \in planned
        BY <1>1, <1>3, <1>10, <2>3, <4>1 DEF Among
      <4>2. CASE t \in moments
        BY <1>1, <1>7, <1>9, <2>1, <4>2
      <4> QED
        BY <1>5, <3>1, <4>1, <4>2
    <3>2. ASSUME NEW t \in fires, Start - 1 < t, t <= g PROVE t \in planned'
      <4>1. CASE t <= planned_until
        BY <1>3, <1>5, <3>2, <4>1 DEF Among
      <4>2. CASE planned_until < t
        <5>1. t \in all
          BY <1>1, <1>6, <1>10, <2>3, <3>2, <4>2
        <5> QED
          BY <1>5, <2>4, <3>2, <5>1
      <4> QED
        BY <1>1, <1>10, <4>1, <4>2
    <3> QED
      BY <3>1, <3>2 DEF Among
  <2> QED
    <3>1. fires' = fires /\ until' = until
      BY <1>5 DEF fires, until
    <3> QED
      BY <1>1, <1>2, <1>5, <2>2, <2>3, <2>5, <3>1 DEF Written, fires, until
<1>12. CASE ~(moments # {} /\ Cardinality(moments) >= BatchLimit)
  <2>1. Cardinality(moments) < BatchLimit
    BY <1>1, <1>8, <1>12, FS_EmptySet
  <2>2. moments = all
    <3>1. \A t \in all : planned_until <= t
      BY <1>1, <1>9
    <3> QED
      BY <1>1, <1>4, <2>1, <3>1, FirstOfAll
  <2>3. planned_until' = until
    BY <1>1, <1>5, <1>12 DEF Settled, GreaterOf
  <2>4. planned' = Among(fires, Start - 1, until)
    <3>1. ASSUME NEW t \in planned' PROVE t \in fires /\ Start - 1 < t /\ t <= until
      <4>1. CASE t \in planned
        BY <1>1, <1>3, <1>10, <4>1 DEF Among
      <4>2. CASE t \in moments
        BY <1>1, <1>7, <1>9, <4>2
      <4> QED
        BY <1>5, <3>1, <4>1, <4>2
    <3>2. ASSUME NEW t \in fires, Start - 1 < t, t <= until PROVE t \in planned'
      <4>1. CASE t <= planned_until
        BY <1>3, <1>5, <3>2, <4>1 DEF Among
      <4>2. CASE planned_until < t
        BY <1>5, <1>6, <2>2, <3>2, <4>2
      <4> QED
        BY <1>1, <1>10, <4>1, <4>2
    <3> QED
      BY <3>1, <3>2 DEF Among
  <2> QED
    <3>1. fires' = fires /\ until' = until
      BY <1>5 DEF fires, until
    <3> QED
      BY <1>1, <1>2, <1>5, <2>3, <2>4, <3>1 DEF Written, fires, until
<1> QED
  BY <1>11, <1>12

LEMMA WrittenHolds ==
    ASSUME \A c \in Settings : PutBackByADay(c.zone), LooksFarEnough
    PROVE  Spec => []Written
<1>1. Init => Written
  <2> SUFFICES ASSUME Init PROVE Written
    OBVIOUS
  <2>1. InBounds
    BY BoundsAssumption DEF Init, InBounds
  <2>2. Among(Fires(s.schedule, s.zone), Start - 1, Start - 1) = {}
    <3>1. Among(Fires(s.schedule, s.zone), Start - 1, Start - 1) \in SUBSET Int
      <4>1. /\ s.zone \in Zone /\ PutBackByADay(s.zone) /\ IsSchedule(s.schedule)
            /\ Start - 1 \in Int /\ Start - 1 <= Start - 1 /\ Start - 1 <= Start + MaxTime + Lead
        BY <2>1, Typed
      <4>2. Spanned(s.zone, Start - 1, Start - 1)
        BY <4>1, WindowsSpanned, Zenon
      <4> QED
        BY <4>1, <4>2, AmongTyped, Zenon
    <3> QED
      BY <2>1, <3>1, Typed DEF Among
  <2> QED
    BY <2>1, <2>2, Typed DEF Init, Written
<1>2. Written /\ [Next]_vars => Written'
  <2> SUFFICES ASSUME Written, [Next]_vars PROVE Written'
    OBVIOUS
  <2>1. CASE Plan
    BY <2>1, PlanWrites
  <2>2. CASE Tick
    <3>1. InBounds' /\ now' = now + 2 /\ UNCHANGED <<s, planned, planned_until>>
      BY <2>2, BoundsAssumption DEF Written, InBounds, Tick
    <3> QED
      BY <3>1, Typed DEF Written
  <2>3. CASE UNCHANGED vars
    BY <2>3 DEF Written, InBounds, vars
  <2> QED
    BY <2>1, <2>2, <2>3 DEF Next
<1> QED
  BY <1>1, <1>2, PTL DEF Spec

\* However the windows are cut, the planner has written what the schedule has
\* in them, and the wizard's card shows the first of it.
THEOREM PlannedIsWhatFiresHolds ==
    ASSUME \A c \in Settings : PutBackByADay(c.zone), DaysHoldHorizon, LooksFarEnough
    PROVE  Spec => []PlannedIsWhatFires
<1>1. Written => PlannedIsWhatFires
  <2> SUFFICES ASSUME Written PROVE PlannedIsWhatFires
    OBVIOUS
  <2> DEFINE r == s.schedule
             z == s.zone
             fires == Fires(r, z)
             horizon == MaxTime + Lead
  <2>1. /\ z \in Zone /\ PutBackByADay(z) /\ IsSchedule(r)
        /\ Start \in Int /\ Start >= 0 /\ horizon \in Int
        /\ planned_until \in Int /\ Start - 1 <= planned_until /\ planned_until <= horizon
        /\ planned = Among(fires, Start - 1, planned_until)
    BY Typed DEF Written
  <2>2. /\ FirstFireAt(r, z, Start, horizon) = FirstOf(Among(fires, Start - 1, Start + horizon), 1)
        /\ Among(fires, Start - 1, Start + horizon) \in SUBSET Int
        /\ IsFiniteSet(Among(fires, Start - 1, Start + horizon))
    <3>1. Start \in Int /\ horizon \in Int /\ Start - 1 \in Int /\ Start + horizon \in Int
      BY <2>1
    <3>2. /\ Start - 1 <= Start - 1 /\ Start + horizon <= Start + MaxTime + Lead
      BY <2>1, Typed DEF Written
    <3> HIDE DEF horizon, r, z
    <3>3. Spanned(z, Start - 1, Start + horizon)
      BY <2>1, <3>1, <3>2, WindowsSpanned
    <3>4. FirstFireAt(r, z, Start, horizon) = FirstOf(Among(fires, Start - 1, Start + horizon), 1)
      BY <2>1, <3>1, <3>3, FirstFireIsTheFirst, SMTT(60)
    <3>5. /\ Among(fires, Start - 1, Start + horizon) \in SUBSET Int
          /\ IsFiniteSet(Among(fires, Start - 1, Start + horizon))
      BY <2>1, <3>1, <3>3, AmongTyped, Zenon
    <3> QED
      BY <3>4, <3>5
  <2>3. planned = {t \in AllMoments : Start <= t /\ t <= planned_until}
    <3>1. CASE r.kind = "once"
      <4>1. AllMoments = fires /\ \A t \in fires : t \in Int
        <5>1. r.at \in Int
          BY <2>1, <3>1 DEF IsSchedule
        <5> QED
          BY <2>1, <3>1, <5>1, NotBefore DEF AllMoments, Fires
      <4> QED
        BY <2>1, <4>1 DEF Among
    <3>2. CASE r.kind # "once"
      <4>1. AllMoments = On(r, z, Days) /\ fires = On(r, z, Int)
        BY <3>2 DEF AllMoments, On, Fires
      <4>2. ASSUME NEW t \in planned PROVE t \in AllMoments /\ Start <= t /\ t <= planned_until
        <5>1. PICK d \in Int : t \in MomentsForDay(r, z, d) /\ Start - 1 < t /\ t <= planned_until
          BY <2>1, <4>1 DEF Among, On
        <5>2. PICK x \in Int, y \in Int : MomentsForDay(r, z, d) \subseteq x .. y
          BY <2>1, <3>2, MomentsOfDay
        <5>3. t \in Int /\ t <= horizon /\ Start - 1 \in Int
          BY <2>1, <5>1, <5>2
        <5>4. d \in LocalDays(z, Start - 1, horizon)
          <6>1. Start - 1 <= Start - 1 /\ horizon <= Start + MaxTime + Lead /\ Start - 1 < t
            BY <2>1, <5>1, <5>3, Typed DEF Written
          <6> HIDE DEF z, r, horizon
          <6>2. Spanned(z, Start - 1, horizon)
            BY <2>1, <5>3, <6>1, WindowsSpanned
          <6> QED
            BY <2>1, <3>2, <5>1, <5>3, <6>1, <6>2, DaysHoldRange
        <5>5. d \in Days
          BY <5>4 DEF DaysHoldHorizon, Written, InBounds
        <5> QED
          BY <2>1, <4>1, <5>1, <5>3, <5>5 DEF On
      <4>3. ASSUME NEW t \in AllMoments, Start <= t, t <= planned_until PROVE t \in planned
        <5>1. PICK d \in Days : t \in MomentsForDay(r, z, d)
          BY <4>1 DEF On
        <5>2. d \in Int
          BY BoundsAssumption
        <5>3. PICK x \in Int, y \in Int : MomentsForDay(r, z, d) \subseteq x .. y
          BY <2>1, <3>2, <5>2, MomentsOfDay
        <5>4. t \in Int
          BY <5>1, <5>3
        <5> QED
          BY <2>1, <4>1, <4>3, <5>1, <5>2, <5>4 DEF Among, On
      <4> QED
        BY <4>2, <4>3
    <3> QED
      BY <3>1, <3>2
  <2>4. ASSUME planned # {} PROVE FirstFireAt(r, z, Start, horizon) = FirstOf(planned, 1)
    <3> DEFINE all == Among(fires, Start - 1, Start + horizon)
    <3>1. all \in SUBSET Int /\ IsFiniteSet(all)
      BY <2>2
    <3>2. planned \in SUBSET all
      <4>1. planned_until <= Start + horizon
        BY <2>1
      <4>2. planned \in SUBSET Int
        <5>1. Among(fires, Start - 1, planned_until) \in SUBSET Int
          <6>1. /\ Start - 1 \in Int /\ Start - 1 <= Start - 1
                /\ planned_until <= Start + MaxTime + Lead
            BY <2>1, Typed DEF Written
          <6>2. Spanned(z, Start - 1, planned_until)
            BY <2>1, <6>1, WindowsSpanned, Zenon
          <6> QED
            BY <2>1, <6>1, <6>2, AmongTyped, Zenon
        <5> QED
          BY <2>1, <5>1
      <4> QED
        BY <2>1, <4>1, <4>2 DEF Among
    <3>3. ASSUME NEW t \in all, t \notin planned PROVE Cardinality(Below(planned, t)) >= 1
      <4>1. t \in Int /\ planned_until < t
        BY <2>1, <3>1, <3>3 DEF Among
      <4>2. Below(planned, t) = planned
        <5>1. \A u \in planned : u \in Int /\ u <= planned_until
          BY <2>1, <3>1, <3>2 DEF Among
        <5>2. \A u \in planned : u < t
          BY <2>1, <4>1, <5>1
        <5> QED
          BY <5>2 DEF Below
      <4>3. IsFiniteSet(planned)
        <5> HIDE DEF all
        <5> QED
          BY <3>1, <3>2, FS_Subset
      <4>4. Cardinality(planned) \in Nat /\ Cardinality(planned) # 0
        BY <2>4, <4>3, FS_CardinalityType, FS_EmptySet
      <4> QED
        BY <4>2, <4>4
    <3> HIDE DEF all
    <3>4. FirstOf(planned, 1) = FirstOf(all, 1)
      BY <3>1, <3>2, <3>3, FirstOfPart
    <3> QED
      BY <2>2, <3>4 DEF all
  <2> QED
    BY <2>3, <2>4 DEF PlannedIsWhatFires
<1> QED
  BY <1>1, WrittenHolds, PTL
=============================================================================
