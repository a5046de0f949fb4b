-------------------------- MODULE LocalTimeProofs --------------------------
(***************************************************************************)
(* Proofs about LocalTime, for every zone, reading and length of a day: a  *)
(* reading stands for the first instant at which the clock shows it or a   *)
(* later one, however to_utc gets there.                                   *)
(***************************************************************************)
EXTENDS LocalTime, WellFoundedInduction, TLAPS

-----------------------------------------------------------------------------
(* Numbers.                                                                  *)

LEMMA LeastNatural ==
    ASSUME NEW S \in SUBSET Nat, S # {}
    PROVE  \E m \in S : \A n \in S : m <= n
<1> DEFINE Less == {p \in Nat \X Nat : p[1] < p[2]}
<1>1. IsWellFoundedOn(Less, Nat)
  <2>1. OpToRel(<, Nat) = Less
    BY DEF OpToRel
  <2> QED
    BY <2>1, NatLessThanWellFounded
<1> HIDE DEF Less
<1>2. PICK m \in S : \A n \in S : <<n, m>> \notin Less
  BY <1>1, WFMin
<1>3. \A n \in S : <<n, m>> \notin Less => m <= n
  BY DEF Less
<1> QED
  BY <1>2, <1>3

LEMMA MultiplesApart ==
    ASSUME NEW n \in Nat \ {0}, NEW d \in Int, NEW e \in Int, d < e
    PROVE  d * n + n <= e * n
<1> DEFINE k == e - d
<1>1. k \in Int /\ k >= 1 /\ e = d + k
  OBVIOUS
<1> HIDE DEF k
<1>2. e * n = d * n + k * n
  BY <1>1
<1>3. k * n >= n
  BY <1>1
<1>4. d * n \in Int /\ e * n \in Int /\ k * n \in Int
  BY <1>1
<1> QED
  BY <1>2, <1>3, <1>4

LEMMA Division ==
    ASSUME NEW n \in Nat \ {0}, NEW x \in Int
    PROVE  /\ x \div n \in Int /\ x % n \in 0 .. n - 1
           /\ x = (x \div n) * n + (x % n)
  OBVIOUS

LEMMA DivisionUnique ==
    ASSUME NEW n \in Nat \ {0}, NEW d \in Int, NEW r \in 0 .. n - 1
    PROVE  d * n + r \in Int /\ (d * n + r) \div n = d /\ (d * n + r) % n = r
<1> DEFINE x == d * n + r
           e == x \div n
<1>1. d * n \in Int /\ x \in Int
  OBVIOUS
<1>2. e \in Int /\ x % n \in 0 .. n - 1 /\ x = e * n + (x % n)
  BY <1>1, Division
<1>3. e * n \in Int
  BY <1>2
<1>4. ~(e < d)
  BY <1>1, <1>2, <1>3, MultiplesApart
<1>5. ~(d < e)
  BY <1>1, <1>2, <1>3, MultiplesApart
<1>6. e = d
  BY <1>2, <1>4, <1>5
<1> QED
  BY <1>1, <1>2, <1>6

\* A reading is a day and a time of day.
LEMMA DayAndTime ==
    ASSUME NEW wall \in Int
    PROVE  /\ DayOf(wall) \in Int /\ TimeOf(wall) \in 0 .. DayLength - 1
           /\ wall = Combine(DayOf(wall), TimeOf(wall))
  BY CalendarAssumption, Division DEF DayOf, TimeOf, Combine

LEMMA Combined ==
    ASSUME NEW d \in Int, NEW time \in 0 .. DayLength - 1
    PROVE  /\ Combine(d, time) \in Int
           /\ DayOf(Combine(d, time)) = d /\ TimeOf(Combine(d, time)) = time
  BY CalendarAssumption, DivisionUnique DEF DayOf, TimeOf, Combine

\* Readings of one time of day are the same or a day apart.
LEMMA SameTimeOfDay ==
    ASSUME NEW v \in Int, NEW w \in Int, TimeOf(v) = TimeOf(w), w <= v, v < w + DayLength
    PROVE  v = w
<1> DEFINE i == DayOf(v)
           j == DayOf(w)
           r == TimeOf(w)
<1>1. DayLength \in Nat \ {0}
  BY CalendarAssumption
<1>2. /\ i \in Int /\ j \in Int /\ r \in Int
      /\ v = i * DayLength + r /\ w = j * DayLength + r
  BY DayAndTime DEF Combine
<1> HIDE DEF i, j, r
<1>3. i * DayLength \in Int /\ j * DayLength \in Int
  BY <1>1, <1>2
<1>4. j < i => j * DayLength + DayLength <= i * DayLength
  BY <1>1, <1>2, MultiplesApart
<1>5. i < j => i * DayLength + DayLength <= j * DayLength
  BY <1>1, <1>2, MultiplesApart
<1> QED
  BY <1>1, <1>2, <1>3, <1>4, <1>5

\* The readings of a day are the ones from its midnight to the next.
LEMMA InDay ==
    ASSUME NEW d \in Int, NEW wall \in Int
    PROVE  /\ Combine(d, 0) <= wall <=> d <= DayOf(wall)
           /\ wall < Combine(d + 1, 0) <=> DayOf(wall) <= d
           /\ Combine(d, 0) \in Int /\ Combine(d + 1, 0) = Combine(d, 0) + DayLength
<1> DEFINE e == DayOf(wall)
           m == d * DayLength
           k == e * DayLength
<1>1. DayLength \in Nat /\ DayLength > 0
  BY CalendarAssumption
<1>2. e \in Int /\ TimeOf(wall) \in 0 .. DayLength - 1 /\ wall = k + TimeOf(wall)
  BY DayAndTime DEF Combine
<1>3. m \in Int /\ k \in Int /\ (d + 1) * DayLength = m + DayLength
  BY <1>1, <1>2
<1>4. d < e => m + DayLength <= k
  <2> HIDE DEF e
  <2> QED
    BY <1>1, <1>2, MultiplesApart
<1>5. e < d => k + DayLength <= m
  <2> HIDE DEF e
  <2> QED
    BY <1>1, <1>2, MultiplesApart
<1>6. d = e => m = k
  OBVIOUS
<1>7. Combine(d, 0) = m /\ Combine(d + 1, 0) = m + DayLength
  BY <1>1, <1>3 DEF Combine
<1> HIDE DEF e, m, k
<1>8. d <= DayOf(wall) <=> d <= e
  BY DEF e
<1>9. DayOf(wall) <= d <=> e <= d
  BY DEF e
<1> QED
  BY <1>1, <1>2, <1>3, <1>4, <1>5, <1>6, <1>7, <1>8, <1>9

-----------------------------------------------------------------------------
(* Readings and instants.                                                    *)

\* The first instant at which the clock shows a reading or a later one.
IsFirst(z, wall, t) ==
  /\ t \in Int
  /\ Local(z, t) >= wall
  /\ \A u \in Int : u < t => Local(z, u) < wall

LEMMA ZoneTyped ==
    ASSUME NEW z \in Zone
    PROVE  /\ z.at \in Int /\ z.before \in Int /\ z.after \in Int
           /\ -DayLength < z.before /\ z.before < DayLength
           /\ -DayLength < z.after /\ z.after < DayLength
           /\ DayLength \in Nat /\ DayLength > 0
           /\ \A t \in Int : Local(z, t) \in Int
<1>1. DayLength \in Nat /\ DayLength > 0
  BY CalendarAssumption
<1>2. z.at \in Int /\ z.before \in Offset /\ z.after \in Offset
  BY DEF Zone
<1>3. Offset \subseteq Int
  BY <1>1 DEF Offset
<1>4. \A o \in Offset : -DayLength < o /\ o < DayLength
  BY <1>1 DEF Offset
<1>5. z.before \in Int /\ z.after \in Int
  BY <1>2, <1>3
<1>6. \A t \in Int : Local(z, t) \in Int
  BY <1>2, <1>5 DEF Local
<1> QED
  BY <1>1, <1>2, <1>4, <1>5, <1>6

\* The bisection from low to high, as an equation and as what it comes to: a
\* reading inside the gap is first shown, or jumped over, at the transition.
IsBisection(z, wall, f) ==
  f = [ends \in Int \X Int |->
        LET low == ends[1]
            high == ends[2]
            mid == (low + high) \div 2
        IN IF high - low <= 1 THEN high
           ELSE IF Local(z, mid) >= wall THEN f[<<low, mid>>] ELSE f[<<mid, high>>]]

LEMMA BisectionInGap ==
    ASSUME NEW z \in Zone, NEW wall \in Int,
           z.at + z.before <= wall, wall < z.at + z.after
    PROVE  \E f : IsBisection(z, wall, f)
<1> DEFINE Found(low, high) ==
             IF high <= low + 1 THEN high
             ELSE IF high < z.at THEN high
             ELSE IF z.at <= low THEN low + 1
             ELSE z.at
           mid(low, high) == (low + high) \div 2
           f == [ends \in Int \X Int |-> Found(ends[1], ends[2])]
<1>1. z.at \in Int /\ z.before \in Int /\ z.after \in Int
  BY ZoneTyped
<1>2. \A t \in Int : Local(z, t) >= wall <=> z.at <= t
  BY <1>1 DEF Local
<1>3. ASSUME NEW low \in Int, NEW high \in Int
      PROVE  Found(low, high) =
               (IF high - low <= 1 THEN high
                ELSE IF Local(z, mid(low, high)) >= wall THEN f[<<low, mid(low, high)>>]
                ELSE f[<<mid(low, high), high>>])
  <2> DEFINE m == mid(low, high)
  <2>1. m \in Int /\ (high - low > 1 => low < m /\ m < high)
    OBVIOUS
  <2> HIDE DEF m
  <2>2. f[<<low, m>>] = Found(low, m) /\ f[<<m, high>>] = Found(m, high)
    BY <2>1
  <2>3. Local(z, m) >= wall <=> z.at <= m
    BY <1>2, <2>1
  <2>4. Found(low, high) =
          (IF high - low <= 1 THEN high
           ELSE IF Local(z, m) >= wall THEN Found(low, m) ELSE Found(m, high))
    BY <1>1, <2>1, <2>3
  <2> QED
    BY <2>2, <2>4 DEF m
<1>4. f = [ends \in Int \X Int |->
            (IF ends[2] - ends[1] <= 1 THEN ends[2]
             ELSE IF Local(z, mid(ends[1], ends[2])) >= wall
                  THEN f[<<ends[1], mid(ends[1], ends[2])>>]
             ELSE f[<<mid(ends[1], ends[2]), ends[2]>>])]
  <2> HIDE DEF Found, mid
  <2> QED
    BY <1>3
<1>5. IsBisection(z, wall, f)
  BY <1>4 DEF IsBisection
<1> QED
  BY <1>5

\* Halving an interval around the transition ends at the transition: the
\* shortest interval for which it did not would be halved into a shorter one.
LEMMA BisectionFinds ==
    ASSUME NEW z \in Zone, NEW wall \in Int,
           z.at + z.before <= wall, wall < z.at + z.after,
           NEW f, IsBisection(z, wall, f),
           NEW low \in Int, NEW high \in Int, low < z.at, z.at <= high
    PROVE  f[<<low, high>>] = z.at
<1> DEFINE Ends == {p \in Int \X Int : p[1] < z.at /\ z.at <= p[2]}
           Width(p) == p[2] - p[1]
           Wrong == {p \in Ends : f[p] # z.at}
           Widths == {Width(p) : p \in Wrong}
<1>1. z.at \in Int /\ \A t \in Int : Local(z, t) >= wall <=> z.at <= t
  BY ZoneTyped DEF Local
<1>2. Wrong = {}
  <2> SUFFICES ASSUME Wrong # {} PROVE FALSE
    OBVIOUS
  <2>1. Widths \in SUBSET Nat /\ Widths # {}
    BY <1>1
  <2>2. PICK w \in Widths : \A v \in Widths : w <= v
    <3> HIDE DEF Widths
    <3> QED
      BY <2>1, LeastNatural
  <2>3. PICK p \in Wrong : w = Width(p)
    BY <2>2
  <2> DEFINE l == p[1]
             h == p[2]
             m == (l + h) \div 2
  <2>4. l \in Int /\ h \in Int /\ p = <<l, h>> /\ l < z.at /\ z.at <= h /\ f[<<l, h>>] # z.at
    BY <2>3
  <2>5. \A a \in Int, b \in Int : a < z.at /\ z.at <= b /\ b - a < h - l => f[<<a, b>>] = z.at
    <3> TAKE a \in Int, b \in Int
    <3> HAVE a < z.at /\ z.at <= b /\ b - a < h - l
    <3>1. <<a, b>> \in Ends /\ Width(<<a, b>>) = b - a
      OBVIOUS
    <3>2. ASSUME <<a, b>> \in Wrong PROVE FALSE
      <4>1. b - a \in Widths
        BY <3>1, <3>2
      <4>2. h - l <= b - a
        <5> HIDE DEF Widths
        <5> QED
          BY <2>2, <2>3, <4>1
      <4> QED
        BY <2>4, <4>2
    <3> QED
      BY <3>1, <3>2
  <2>6. f[<<l, h>>] = (IF h - l <= 1 THEN h
                       ELSE IF Local(z, m) >= wall THEN f[<<l, m>>] ELSE f[<<m, h>>])
    <3> HIDE DEF l, h
    <3>1. <<l, h>> \in Int \X Int /\ <<l, h>>[1] = l /\ <<l, h>>[2] = h
      BY <2>4
    <3> QED
      BY <3>1 DEF IsBisection
  <2> HIDE DEF l, h
  <2>7. m \in Int /\ (h - l > 1 => l < m /\ m < h)
    BY <2>4
  <2> HIDE DEF m
  <2>8. CASE h - l <= 1
    BY <1>1, <2>4, <2>6, <2>8
  <2>9. CASE h - l > 1 /\ Local(z, m) >= wall
    BY <1>1, <2>4, <2>5, <2>6, <2>7, <2>9
  <2>10. CASE h - l > 1 /\ ~(Local(z, m) >= wall)
    BY <1>1, <2>4, <2>5, <2>6, <2>7, <2>10
  <2> QED
    BY <2>4, <2>8, <2>9, <2>10
<1>3. <<low, high>> \in Ends
  OBVIOUS
<1> QED
  BY <1>2, <1>3

\* to_utc, rules 3 and 4 at once: the first instant at which the clock shows
\* the reading or, if it jumps over it, a later one.
THEOREM FirstReading ==
    ASSUME NEW z \in Zone, NEW wall \in Int
    PROVE  IsFirst(z, wall, ToUtc(z, wall))
<1> DEFINE early == EarlyOffset(z, wall)
           late == LateOffset(z, wall)
<1>1. z.at \in Int /\ z.before \in Int /\ z.after \in Int
  BY ZoneTyped
<1>2. CASE early >= late
  <2>1. ToUtc(z, wall) = wall - early
    BY <1>2 DEF ToUtc
  <2> QED
    BY <1>1, <1>2, <2>1 DEF IsFirst, Local, EarlyOffset, LateOffset, GreaterOf, LesserOf
<1>3. CASE ~(early >= late)
  <2> DEFINE chosen == CHOOSE f : IsBisection(z, wall, f)
  <2>1. /\ z.at + z.before <= wall /\ wall < z.at + z.after
        /\ early = z.before /\ late = z.after
    BY <1>1, <1>3 DEF EarlyOffset, LateOffset, GreaterOf, LesserOf
  <2>2. IsBisection(z, wall, chosen)
    <3>1. \E f : IsBisection(z, wall, f)
      BY <2>1, BisectionInGap
    <3> QED
      BY <3>1, Zenon
  <2>3. FirstExisting(z, wall) = chosen[<<wall - late, wall - early>>]
    BY DEF FirstExisting, IsBisection
  <2> HIDE DEF chosen
  <2>4. /\ wall - late \in Int /\ wall - late < z.at
        /\ wall - early \in Int /\ z.at <= wall - early
    BY <1>1, <2>1
  <2> HIDE DEF early, late
  <2>5. ToUtc(z, wall) = z.at
    BY <1>3, <2>1, <2>2, <2>3, <2>4, BisectionFinds DEF ToUtc, early, late
  <2> QED
    BY <1>1, <2>1, <2>5 DEF IsFirst, Local
<1> QED
  BY <1>2, <1>3

-----------------------------------------------------------------------------
(* What follows from it.                                                     *)

LEMMA NotBefore ==
    ASSUME NEW z \in Zone, NEW wall \in Int
    PROVE  /\ ToUtc(z, wall) \in Int /\ Local(z, ToUtc(z, wall)) >= wall
           /\ \A t \in Int : Local(z, t) >= wall => ToUtc(z, wall) <= t
           /\ \A t \in Int : t < ToUtc(z, wall) => Local(z, t) < wall
<1>1. IsFirst(z, wall, ToUtc(z, wall))
  BY FirstReading
<1> QED
  BY <1>1, ZoneTyped DEF IsFirst

LEMMA Monotone ==
    ASSUME NEW z \in Zone, NEW v \in Int, NEW w \in Int, v <= w
    PROVE  ToUtc(z, v) <= ToUtc(z, w)
<1>1. ToUtc(z, w) \in Int /\ Local(z, ToUtc(z, w)) \in Int /\ Local(z, ToUtc(z, w)) >= v
  BY NotBefore, ZoneTyped
<1> QED
  BY <1>1, NotBefore

\* The clock shows the reading itself, or has just jumped over it.
LEMMA ShownOrSkipped ==
    ASSUME NEW z \in Zone, NEW wall \in Int
    PROVE  \/ Local(z, ToUtc(z, wall)) = wall
           \/ /\ ToUtc(z, wall) = z.at
              /\ z.at + z.before <= wall /\ wall < Local(z, z.at)
              /\ Local(z, z.at) = z.at + z.after
<1> DEFINE t == ToUtc(z, wall)
<1>1. z.at \in Int /\ z.before \in Int /\ z.after \in Int
  BY ZoneTyped
<1>2. t \in Int /\ t - 1 \in Int /\ t - 1 < t
  BY NotBefore
<1>3. Local(z, t) >= wall /\ Local(z, t - 1) < wall
  BY <1>2, NotBefore
<1> HIDE DEF t
<1>4. Local(z, t) = wall \/ (t = z.at /\ z.at + z.before <= wall
                             /\ wall < Local(z, z.at) /\ Local(z, z.at) = z.at + z.after)
  BY <1>1, <1>2, <1>3 DEF Local
<1> QED
  BY <1>4 DEF t

\* How far a reading is from an instant: as far as the two readings are apart,
\* and by as much as the clock is put forward or back.
LEMMA Distance ==
    ASSUME NEW z \in Zone, NEW wall \in Int, NEW t \in Int
    PROVE  /\ ToUtc(z, wall) <= t + GreaterOf(0, wall - Local(z, t)) + GreaterOf(0, z.before - z.after)
           /\ ToUtc(z, wall) >= t + (wall - Local(z, t)) - GreaterOf(0, z.after - z.before)
                                - GreaterOf(0, z.before - z.after)
<1> DEFINE u == ToUtc(z, wall)
           v == t + GreaterOf(0, wall - Local(z, t)) + GreaterOf(0, z.before - z.after)
<1>1. z.at \in Int /\ z.before \in Int /\ z.after \in Int /\ Local(z, t) \in Int
  BY ZoneTyped
<1>2. u \in Int /\ Local(z, u) >= wall /\ Local(z, u) \in Int
  BY NotBefore, ZoneTyped
<1>3. u <= v
  <2>1. v \in Int /\ Local(z, v) >= wall
    BY <1>1 DEF GreaterOf, Local
  <2> QED
    BY <2>1, NotBefore
<1> HIDE DEF u
<1>4. u >= t + (wall - Local(z, t)) - GreaterOf(0, z.after - z.before) - GreaterOf(0, z.before - z.after)
  BY <1>1, <1>2 DEF GreaterOf, Local
<1> QED
  BY <1>3, <1>4 DEF u

\* local_day_bounds: every instant is in the bounds of its own day.
LEMMA InOwnDay ==
    ASSUME NEW z \in Zone, MidnightOnce(z), NEW t \in Int
    PROVE  DayStart(z, DayOf(Local(z, t))) <= t /\ t < DayEnd(z, DayOf(Local(z, t)))
<1> DEFINE wall == Local(z, t)
           d == DayOf(wall)
<1>1. z.at \in Int /\ z.before \in Int /\ z.after \in Int /\ wall \in Int
  BY ZoneTyped
<1>2. d \in Int
  BY <1>1, DayAndTime
<1>3. Combine(d, 0) \in Int /\ Combine(d, 0) <= wall
  BY <1>1, <1>2, InDay
<1>4. Combine(d + 1, 0) \in Int /\ wall < Combine(d + 1, 0)
  <2>1. d + 1 \in Int
    BY <1>2
  <2> QED
    BY <1>1, <1>2, <2>1, InDay
<1>5. DayStart(z, d) <= t
  BY <1>3, NotBefore DEF DayStart
<1>6. t < DayEnd(z, d)
  <2> DEFINE next == Combine(d + 1, 0)
             u == ToUtc(z, next)
  <2> SUFFICES ASSUME u <= t PROVE FALSE
    BY <1>4, NotBefore DEF DayEnd
  <2>1. /\ next \in Int /\ wall < next
        /\ u \in Int /\ Local(z, u) >= next
    BY <1>4, NotBefore
  <2>2. /\ z.before > z.after
        /\ next <= z.at + z.before - 1 /\ z.at + z.after < next
    <3> HIDE DEF u, next, d
    <3> QED
      BY <1>1, <2>1 DEF Local
  <2>3. ~(DayOf(z.at + z.before - 1) <= d)
    <3>1. z.at + z.before - 1 \in Int /\ ~(z.at + z.before - 1 < next)
      <4> HIDE DEF next, d
      <4> QED
        BY <1>1, <2>1, <2>2
    <3> QED
      BY <1>2, <3>1, InDay
  <2>4. DayOf(z.at + z.after) <= d
    <3>1. z.at + z.after \in Int
      BY <1>1
    <3> QED
      BY <1>2, <2>2, <3>1, InDay
  <2>5. DayOf(z.at + z.before - 1) \in Int /\ DayOf(z.at + z.after) \in Int
    BY <1>1, DayAndTime
  <2> HIDE DEF d
  <2> QED
    BY <1>2, <2>2, <2>3, <2>4, <2>5 DEF MidnightOnce
<1> QED
  BY <1>5, <1>6
=============================================================================
