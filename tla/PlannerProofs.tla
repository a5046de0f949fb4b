----------------------------- MODULE PlannerProofs -----------------------------
(***************************************************************************)
(* Proofs about Planner, for any schedules (unending ones included), any   *)
(* quiet hours, bounds, budget, cycle limit, horizon and users.            *)
(***************************************************************************)
EXTENDS Planner, FiniteSetTheorems, WellFoundedInduction, TLAPS

-----------------------------------------------------------------------------
(* Sets of moments.                                                          *)

\* The members of W with fewer than n members before them.
First(W, n) == {m \in W : Cardinality({k \in W : k < m}) < n}

LEMMA SmallestOf ==
    ASSUME NEW S \in SUBSET Nat, S # {}
    PROVE  \E m \in S : \A k \in S : m <= k
<1> DEFINE Less == OpToRel(<, Nat)
<1>1. \E x \in S : \A y \in S : ~(<<y, x>> \in Less)
  <2>1. IsWellFoundedOn(Less, Nat)
    BY NatLessThanWellFounded DEF Less
  <2> HIDE DEF Less
  <2> QED
    BY <2>1, WFMin
<1>2. PICK x \in S : \A y \in S : ~(<<y, x>> \in Less)
  BY <1>1
<1>3. \A y \in S : ~(y < x)
  BY <1>2 DEF OpToRel
<1> QED
  BY <1>3

LEMMA LargestOf ==
    ASSUME NEW t \in Nat, NEW S \in SUBSET Nat, S # {}, \A m \in S : m <= t
    PROVE  Largest(S) \in S /\ \A k \in S : k <= Largest(S)
<1> DEFINE Gaps == {t - m : m \in S}
<1>1. Gaps \in SUBSET Nat /\ Gaps # {}
  <2>1. \A m \in S : t - m \in Nat
    OBVIOUS
  <2> QED
    BY <2>1
<1>2. PICK x \in Gaps : \A y \in Gaps : x <= y
  <2> HIDE DEF Gaps
  <2> QED
    BY <1>1, SmallestOf
<1>3. PICK m \in S : x = t - m
  BY <1>2
<1>4. ASSUME NEW k \in S PROVE k <= m
  <2>1. t - k \in Gaps /\ k \in Nat /\ m \in Nat
    OBVIOUS
  <2>2. t - m <= t - k
    <3> HIDE DEF Gaps
    <3> QED
      BY <1>2, <1>3, <2>1
  <2> QED
    BY <2>1, <2>2
<1>5. \E l \in S : \A k \in S : k <= l
  BY <1>4
<1> QED
  BY <1>5, Zenon DEF Largest

\* What comes before a member of a finite set.
LEMMA BeforeOf ==
    ASSUME NEW W \in SUBSET Nat, IsFiniteSet(W), NEW m \in W
    PROVE  /\ IsFiniteSet({k \in W : k < m})
           /\ Cardinality({k \in W : k < m}) \in Nat
<1>1. {k \in W : k < m} \in SUBSET W
  OBVIOUS
<1> QED
  BY <1>1, FS_Subset, FS_CardinalityType

\* More comes before a later member.
LEMMA MoreBefore ==
    ASSUME NEW W \in SUBSET Nat, IsFiniteSet(W), NEW a \in W, NEW b \in W, a < b
    PROVE  Cardinality({k \in W : k < a}) < Cardinality({k \in W : k < b})
<1> DEFINE A == {k \in W : k < a}
           B == {k \in W : k < b}
<1>1. A \in SUBSET B
  <2>1. \A k \in W : k < a => k < b
    OBVIOUS
  <2> QED
    BY <2>1
<1>2. a \in B /\ a \notin A
  OBVIOUS
<1>3. IsFiniteSet(B) /\ Cardinality(B) \in Nat /\ Cardinality(A) \in Nat
  BY BeforeOf
<1>4. Cardinality(A) <= Cardinality(B) /\ Cardinality(A) # Cardinality(B)
  <2> HIDE DEF A, B
  <2> QED
    BY <1>1, <1>2, <1>3, FS_Subset
<1> QED
  <2> HIDE DEF A, B
  <2>1. Cardinality(A) < Cardinality(B)
    BY <1>3, <1>4
  <2> QED
    BY <2>1 DEF A, B

\* There are at most n first members ...
LEMMA FirstAtMost ==
    ASSUME NEW W \in SUBSET Nat, IsFiniteSet(W), NEW n \in Nat
    PROVE  /\ IsFiniteSet(First(W, n))
           /\ Cardinality(First(W, n)) \in Nat
           /\ Cardinality(First(W, n)) <= n
<1> DEFINE place == [m \in First(W, n) |-> Cardinality({k \in W : k < m})]
<1>1. \A m \in First(W, n) : place[m] \in 0 .. n - 1
  <2> SUFFICES ASSUME NEW m \in First(W, n) PROVE place[m] \in 0 .. n - 1
    OBVIOUS
  <2>1. m \in W /\ place[m] < n
    BY DEF First
  <2>2. place[m] \in Nat
    BY <2>1, BeforeOf
  <2> QED
    <3> HIDE DEF place
    <3> QED
      BY <2>1, <2>2
<1>2. \A a, b \in First(W, n) : a # b => place[a] # place[b]
  <2> SUFFICES ASSUME NEW a \in First(W, n), NEW b \in First(W, n), a # b
               PROVE  place[a] # place[b]
    OBVIOUS
  <2>1. a \in W /\ b \in W /\ a \in Nat /\ b \in Nat
    BY DEF First
  <2>2. place[a] \in Nat /\ place[b] \in Nat
    BY <2>1, BeforeOf
  <2>3. a < b => place[a] < place[b]
    BY <2>1, MoreBefore
  <2>4. b < a => place[b] < place[a]
    BY <2>1, MoreBefore
  <2> HIDE DEF place
  <2> QED
    BY <2>1, <2>2, <2>3, <2>4
<1>3. place \in Injection(First(W, n), 0 .. n - 1)
  <2>1. place \in [First(W, n) -> 0 .. n - 1]
    BY <1>1
  <2> HIDE DEF place
  <2> QED
    BY <1>2, <2>1 DEF Injection, IsInjective
<1>4. IsFiniteSet(0 .. n - 1) /\ Cardinality(0 .. n - 1) = n
  BY FS_Interval
<1> HIDE DEF place
<1>5. IsFiniteSet(First(W, n)) /\ Cardinality(First(W, n)) <= n
  BY <1>3, <1>4, FS_Injection
<1> QED
  BY <1>5, FS_CardinalityType

\* ... and at least n when some member is not among them.
LEMMA FirstAtLeast ==
    ASSUME NEW W \in SUBSET Nat, IsFiniteSet(W), NEW n \in Nat,
           NEW w \in W, w \notin First(W, n)
    PROVE  Cardinality(First(W, n)) >= n
<1>1. W \ First(W, n) \in SUBSET Nat /\ W \ First(W, n) # {}
  OBVIOUS
<1>2. PICK x \in W \ First(W, n) : \A y \in W \ First(W, n) : x <= y
  BY <1>1, SmallestOf
<1> DEFINE B == {k \in W : k < x}
<1>3. B \in SUBSET First(W, n)
  <2>1. ASSUME NEW k \in B PROVE k \in First(W, n)
    <3>1. k \in W /\ k < x /\ k \in Nat /\ x \in Nat
      OBVIOUS
    <3> QED
      BY <1>2, <3>1
  <2> QED
    BY <2>1
<1>4. IsFiniteSet(B) /\ Cardinality(B) \in Nat
  BY BeforeOf
<1>5. ~(Cardinality(B) < n)
  BY <1>2 DEF First
<1> HIDE DEF B
<1>6. IsFiniteSet(First(W, n)) /\ Cardinality(First(W, n)) \in Nat
  BY FirstAtMost
<1>7. Cardinality(B) <= Cardinality(First(W, n))
  BY <1>3, <1>6, FS_Subset
<1> QED
  BY <1>4, <1>5, <1>6, <1>7

\* What comes before a first member is a first member.
LEMMA FirstIsPrefix ==
    ASSUME NEW W \in SUBSET Nat, IsFiniteSet(W), NEW n \in Nat,
           NEW m \in First(W, n), NEW k \in W, k < m
    PROVE  k \in First(W, n)
<1>1. m \in W /\ Cardinality({j \in W : j < m}) < n
  BY DEF First
<1>2. Cardinality({j \in W : j < k}) < Cardinality({j \in W : j < m})
  BY <1>1, MoreBefore
<1>3. Cardinality({j \in W : j < k}) \in Nat /\ Cardinality({j \in W : j < m}) \in Nat
  BY <1>1, BeforeOf
<1>4. Cardinality({j \in W : j < k}) < n
  BY <1>1, <1>2, <1>3
<1> QED
  BY <1>4 DEF First
-----------------------------------------------------------------------------
(* The operators of domain/planning.py, for a reminder, a horizon and a count. *)

Window(r, horizon_end) == {m \in MomentsOf[r.schedule] :
                             After(r) < m /\ m <= Until(horizon_end)}

LEMMA WindowFacts ==
    ASSUME NEW r \in Reminder, NEW h \in Nat
    PROVE  /\ Window(r, h) \in SUBSET Nat /\ Window(r, h) \subseteq Moments
           /\ Window(r, h) \subseteq MomentsOf[r.schedule]
           /\ \A m \in Window(r, h) : m <= Until(h)
           /\ IsFiniteSet(Window(r, h))
           /\ Until(h) \in Nat /\ After(r) \in Int /\ After(r) >= StartsAt - 1
           /\ (r.planned_until # NoTime => After(r) >= r.planned_until)
           /\ (StartsAt > r.planned_until => After(r) = StartsAt - 1)
           /\ (StartsAt <= r.planned_until => After(r) = r.planned_until)
<1>1. r.schedule \in Schedules /\ r.planned_until \in Nat \cup {NoTime}
  BY DEF Reminder
<1>2. Until(h) \in Nat
  BY ReminderAssumption DEF Until, Smaller, NoTime
<1>3. /\ After(r) \in Int /\ After(r) >= StartsAt - 1
      /\ (r.planned_until # NoTime => After(r) >= r.planned_until)
      /\ (StartsAt > r.planned_until => After(r) = StartsAt - 1)
      /\ (StartsAt <= r.planned_until => After(r) = r.planned_until)
  BY <1>1, ReminderAssumption DEF After, Larger, NoTime
<1>4. Window(r, h) \in SUBSET Nat
  BY <1>1, ScheduleAssumption DEF Window
<1>5. Window(r, h) \subseteq Moments
  BY <1>1 DEF Window, Moments
<1>6. \A m \in Window(r, h) : m <= Until(h)
  BY DEF Window
<1>7. IsFiniteSet(Window(r, h))
  BY <1>2, <1>4, <1>6, FS_BoundedSetOfNaturals
<1> QED
  BY <1>2, <1>3, <1>4, <1>5, <1>6, <1>7 DEF Window

LEMMA LimitFacts ==
    ASSUME NEW fired \in Nat
    PROVE  /\ Limit(fired) \in Nat
           /\ Limit(fired) = 0 => MaxOccurrences # NoTime /\ fired >= MaxOccurrences
           /\ MaxOccurrences # NoTime /\ fired <= MaxOccurrences
                => fired + Limit(fired) <= MaxOccurrences
<1> QED
  BY ReminderAssumption, PlannerAssumption DEF Limit, Larger, Smaller, NoTime

\* The expansion is bounded by the limit.
LEMMA ExpandFacts ==
    ASSUME NEW r \in Reminder, NEW h \in Nat, NEW fired \in Nat
    PROVE  /\ Expand(r, h, fired) = First(Window(r, h), Limit(fired))
           /\ Expand(r, h, fired) \in SUBSET Window(r, h)
           /\ IsFiniteSet(Expand(r, h, fired))
           /\ Cardinality(Expand(r, h, fired)) \in Nat
           /\ Cardinality(Expand(r, h, fired)) <= Limit(fired)
<1>1. Expand(r, h, fired) = First(Window(r, h), Limit(fired))
  BY DEF Expand, First, Window
<1>2. Expand(r, h, fired) \in SUBSET Window(r, h)
  BY <1>1 DEF First
<1> QED
  BY <1>1, <1>2, WindowFacts, LimitFacts, FirstAtMost

LEMMA LargestExpanded ==
    ASSUME NEW r \in Reminder, NEW h \in Nat, NEW fired \in Nat,
           Expand(r, h, fired) # {}
    PROVE  /\ Largest(Expand(r, h, fired)) \in Expand(r, h, fired)
           /\ \A k \in Expand(r, h, fired) : k <= Largest(Expand(r, h, fired))
<1>1. /\ Expand(r, h, fired) \in SUBSET Nat
      /\ \A m \in Expand(r, h, fired) : m <= Until(h)
      /\ Until(h) \in Nat
  BY ExpandFacts, WindowFacts
<1> QED
  BY <1>1, LargestOf

LEMMA PlannedUntilIsTime ==
    ASSUME NEW r \in Reminder, NEW h \in Nat, NEW fired \in Nat
    PROVE  PlannedUntil(r, h, fired, Expand(r, h, fired)) \in Nat
<1>1. CASE /\ Expand(r, h, fired) # {}
           /\ Cardinality(Expand(r, h, fired)) >= Limit(fired)
  <2>1. PlannedUntil(r, h, fired, Expand(r, h, fired)) = Largest(Expand(r, h, fired))
    BY <1>1 DEF PlannedUntil
  <2>2. Largest(Expand(r, h, fired)) \in Expand(r, h, fired)
    BY <1>1, LargestExpanded
  <2>3. Expand(r, h, fired) \in SUBSET Nat
    BY ExpandFacts, WindowFacts
  <2> QED
    BY <2>1, <2>2, <2>3
<1>2. CASE ~(/\ Expand(r, h, fired) # {}
             /\ Cardinality(Expand(r, h, fired)) >= Limit(fired))
  <2>1. PlannedUntil(r, h, fired, Expand(r, h, fired)) = Larger(After(r), Until(h))
    BY <1>2 DEF PlannedUntil
  <2>2. After(r) \in Int /\ Until(h) \in Nat
    BY WindowFacts
  <2> QED
    BY <2>1, <2>2 DEF Larger
<1> QED
  BY <1>1, <1>2

LEMMA ExpandIsPrefix ==
    ASSUME NEW r \in Reminder, NEW h \in Nat, NEW fired \in Nat,
           NEW m \in Expand(r, h, fired), NEW k \in Window(r, h), k < m
    PROVE  k \in Expand(r, h, fired)
<1>1. m \in First(Window(r, h), Limit(fired))
  BY ExpandFacts
<1>2. k \in First(Window(r, h), Limit(fired))
  BY <1>1, WindowFacts, LimitFacts, FirstIsPrefix
<1> QED
  BY <1>2, ExpandFacts

LEMMA ExpandIsFull ==
    ASSUME NEW r \in Reminder, NEW h \in Nat, NEW fired \in Nat, Limit(fired) # 0,
           NEW m \in Window(r, h), m \notin Expand(r, h, fired)
    PROVE  /\ Expand(r, h, fired) # {}
           /\ Cardinality(Expand(r, h, fired)) >= Limit(fired)
<1>1. m \notin First(Window(r, h), Limit(fired))
  BY ExpandFacts
<1>2. Cardinality(First(Window(r, h), Limit(fired))) >= Limit(fired)
  BY <1>1, WindowFacts, LimitFacts, FirstAtLeast
<1>3. Cardinality(Expand(r, h, fired)) >= Limit(fired)
  BY <1>2, ExpandFacts
<1>4. Limit(fired) \in Nat
  BY LimitFacts
<1>5. Cardinality(Expand(r, h, fired)) # 0
  BY <1>3, <1>4
<1> QED
  BY <1>3, <1>5, FS_EmptySet

\* settle_plan never moves past a moment of the window that was not expanded.
LEMMA NothingSkipped ==
    ASSUME NEW r \in Reminder, NEW h \in Nat, NEW fired \in Nat, Limit(fired) # 0,
           NEW m \in MomentsOf[r.schedule], EndsAt = NoTime \/ m <= EndsAt,
           After(r) < m, m <= PlannedUntil(r, h, fired, Expand(r, h, fired))
    PROVE  m \in Expand(r, h, fired)
<1>1. m \in Nat /\ After(r) \in Int /\ Until(h) \in Nat
  BY WindowFacts, ScheduleAssumption DEF Reminder
<1>2. m <= Until(h) => m \in Window(r, h)
  BY DEF Window
<1>3. CASE /\ Expand(r, h, fired) # {}
           /\ Cardinality(Expand(r, h, fired)) >= Limit(fired)
  <2> DEFINE last == Largest(Expand(r, h, fired))
  <2>1. m <= last
    BY <1>3 DEF PlannedUntil
  <2>2. last \in Expand(r, h, fired)
    BY <1>3, LargestExpanded
  <2>3. last \in Window(r, h)
    BY <2>2, ExpandFacts
  <2>4. last <= Until(h) /\ last \in Nat
    BY <2>3, WindowFacts
  <2> HIDE DEF last
  <2>5. m \in Window(r, h)
    BY <1>1, <1>2, <2>1, <2>4
  <2>6. m = last \/ m < last
    BY <1>1, <2>1, <2>4
  <2> QED
    BY <2>2, <2>5, <2>6, ExpandIsPrefix
<1>4. CASE ~(/\ Expand(r, h, fired) # {}
             /\ Cardinality(Expand(r, h, fired)) >= Limit(fired))
  <2>1. m <= Larger(After(r), Until(h))
    BY <1>4 DEF PlannedUntil
  <2>2. m \in Window(r, h)
    BY <1>1, <1>2, <2>1 DEF Larger
  <2> QED
    BY <1>4, <2>2, ExpandIsFull
<1> QED
  BY <1>3, <1>4

-----------------------------------------------------------------------------
(* The invariant.                                                            *)

Happened == {m \in Moments : occ[m] # "none"}

NothingQueued == \A m \in Moments : occ[m] # "pending"

\* What the rows say together: a delivery has its occurrence, a sent one shows
\* on it, and nothing is queued for a reminder that is not planned.
RowsAgree ==
    /\ accepted[Owner] # Invited
    /\ IsFiniteSet(Happened)
    /\ \A m \in Moments, u \in Users :
         /\ del[<<m, u>>] # "none" => occ[m] # "none"
         /\ del[<<m, u>>] = "sent" => occ[m] = "sent"
    /\ (~raced /\ reminder.planned_until = NoTime) => NothingQueued

Counting == planner.pc \in {"counted", "expanded", "written"}

\* What the planner keeps in memory.  Nobody else makes occurrences or plans, so
\* what it has inserted is still missing for the others, what its deliveries are
\* for is still there, and what was not planned when it read the reminder is not
\* planned now.
PlanAsRead ==
    /\ planner.pc # "idle" =>
         /\ planner.read.status = "active"
         /\ planner.read.planned_until = NoTime => reminder.planned_until = NoTime
    /\ Counting =>
         /\ planner.moments = Expand(planner.read, planner.horizon_end, planner.fired)
         /\ MaxOccurrences # NoTime => planner.fired <= MaxOccurrences
    /\ Inserting =>
         /\ planner.inserted \subseteq planner.moments
         /\ \A m \in planner.inserted : occ[m] = "none"
         /\ \A m \in planner.inserted, u \in planner.recipients : <<m, u>> \in planner.added
         /\ \A q \in planner.added : q[1] \in planner.inserted \/ occ[q[1]] # "none"

\* The count only goes down under it, and only when the queue is dropped from
\* a planned reminder, which shows on the reminder; nor is anything it found to
\* exist deleted otherwise.
Undisturbed ==
    Counting =>
        /\ Fired <= planner.fired
        /\ \/ raced
           \/ reminder.status = "gone"
           \/ reminder.planned_until = NoTime /\ planner.read.planned_until # NoTime
           \/ /\ Fired = planner.fired
              /\ Inserting => \A m \in planner.moments \ planner.inserted : occ[m] # "none"

Dropping == owner.pc \in {"dropped", "reset"}

\* What the owner keeps in memory: what its DELETE took is still queued for the
\* others, and is everything queued unless the planner committed since.  The two
\* transactions hold no row together.
OwnerAsRead ==
    /\ owner.pc # "idle" => owner.read.status \in {"active", "paused"}
    /\ Dropping => Drops(owner.op)
    /\ (Dropping /\ reminder.status # "gone") =>
         /\ \A m \in owner.dropped : occ[m] = "pending"
         /\ ~owner.overtaken => \A m \in Moments : occ[m] = "pending" => m \in owner.dropped
    /\ owner.pc = "reset" => /\ planner.pc # "written"
                             /\ \A q \in Added : q[1] \notin owner.dropped

PausedIsUnplanned ==
    (~raced /\ reminder.status = "paused") => reminder.planned_until = NoTime

IInv == /\ TypeOK /\ RowsAgree /\ PlanAsRead /\ Undisturbed /\ OwnerAsRead
        /\ PausedIsUnplanned /\ BudgetKept /\ HorizonCovered /\ ArchivedIsComplete
        /\ QueueMatchesReminder /\ RecipientsServed

\* The shape of the planner's memory.
LEMMA PlanTypes ==
    ASSUME TypeOK
    PROVE  /\ planner.pc \in {"idle", "selected", "counted", "expanded", "written"}
           /\ planner.pc # "idle" =>
                planner.read \in Reminder /\ planner.horizon_end \in Nat
           /\ Counting => planner.fired \in Nat /\ planner.moments \subseteq Moments
           /\ Inserting => /\ planner.inserted \subseteq Moments
                           /\ planner.recipients \subseteq Users
                           /\ planner.added \subseteq Moments \X Users
                           /\ Counting
<1> QED
  BY DEF TypeOK, Plans, Idle, Counting, Inserting

LEMMA OwnerTypes ==
    ASSUME TypeOK
    PROVE  /\ owner.pc \in {"idle", "read", "dropped", "reset"}
           /\ owner.pc # "idle" =>
                /\ owner.op \in {"pause", "resume", "edit"} /\ owner.schedule \in Schedules
                /\ owner.read \in Reminder
           /\ Dropping => owner.dropped \subseteq Moments /\ owner.overtaken \in BOOLEAN
<1> QED
  BY DEF TypeOK, Edits, Idle, Dropping

LEMMA JoinerTypes ==
    ASSUME TypeOK
    PROVE  /\ joiner.pc \in {"idle", "read"}
           /\ joiner.pc = "read" =>
                /\ joiner.u \in Users \ {Owner} /\ joiner.at \in Time
                /\ joiner.upcoming \subseteq Moments
<1> QED
  BY DEF TypeOK, Joins, Idle

LEMMA FiredIsNat == RowsAgree => Fired \in Nat
<1> QED
  BY FS_CardinalityType DEF RowsAgree, Fired, Happened

\* The same occurrences, the same count.
LEMMA SameCount ==
    ASSUME \A m \in Moments : occ'[m] = "none" <=> occ[m] = "none"
    PROVE  Happened' = Happened /\ Fired' = Fired
<1>1. Happened' = Happened
  BY DEF Happened
<1> QED
  BY <1>1 DEF Fired, Happened

\* Dropping occurrences lowers the count.
LEMMA FewerCount ==
    ASSUME IsFiniteSet(Happened), \A m \in Moments : occ'[m] # "none" => occ[m] # "none"
    PROVE  /\ IsFiniteSet(Happened')
           /\ Fired' \in Nat /\ Fired \in Nat /\ Fired' <= Fired
<1>1. Happened' \in SUBSET Happened
  BY DEF Happened
<1>2. /\ IsFiniteSet(Happened') /\ Cardinality(Happened') \in Nat
      /\ Cardinality(Happened) \in Nat /\ Cardinality(Happened') <= Cardinality(Happened)
  BY <1>1, FS_Subset, FS_CardinalityType
<1> QED
  BY <1>2 DEF Fired, Happened

\* A step that leaves the reminder and the occurrences alone.
LEMMA ScheduleKept ==
    ASSUME IInv, UNCHANGED <<reminder, occ>>, raced => raced'
    PROVE  /\ Happened' = Happened /\ Fired' = Fired
           /\ PausedIsUnplanned' /\ BudgetKept' /\ HorizonCovered'
           /\ ArchivedIsComplete' /\ QueueMatchesReminder'
<1>1. Happened' = Happened /\ Fired' = Fired
  BY SameCount
<1>2. PausedIsUnplanned'
  BY DEF IInv, PausedIsUnplanned
<1>3. BudgetKept'
  BY <1>1 DEF IInv, BudgetKept
<1>4. HorizonCovered'
  BY DEF IInv, HorizonCovered, InBounds
<1>5. ArchivedIsComplete'
  BY <1>1 DEF IInv, ArchivedIsComplete, InBounds, BudgetSpent
<1>6. QueueMatchesReminder'
  BY DEF IInv, QueueMatchesReminder
<1> QED
  BY <1>1, <1>2, <1>3, <1>4, <1>5, <1>6

\* A step of somebody else, or one that ends a transaction without a write.
LEMMA MemoryKept ==
    ASSUME IInv, UNCHANGED <<reminder, occ>>, raced => raced',
           planner' \in {planner, Idle}, owner' \in {owner, Idle}
    PROVE  PlanAsRead' /\ Undisturbed' /\ OwnerAsRead'
<1>1. Fired' = Fired
  BY ScheduleKept
<1>2. PlanAsRead' /\ Undisturbed'
  <2>1. CASE planner' = planner
    BY <1>1, <2>1 DEF IInv, PlanAsRead, Undisturbed, Counting, Inserting
  <2>2. CASE planner' = Idle
    BY <2>2 DEF PlanAsRead, Undisturbed, Idle, Counting, Inserting
  <2> QED
    BY <2>1, <2>2
<1>3. OwnerAsRead'
  <2>1. CASE owner' = owner
    <3>1. planner'.pc = "written" => planner.pc = "written"
      BY DEF Idle
    <3>2. Added' \subseteq Added
      BY DEF Added, Inserting, Idle
    <3> QED
      BY <2>1, <3>1, <3>2 DEF IInv, OwnerAsRead, Dropping
  <2>2. CASE owner' = Idle
    BY <2>2 DEF OwnerAsRead, Idle, Dropping
  <2> QED
    BY <2>1, <2>2
<1> QED
  BY <1>2, <1>3

LEMMA QuietKeeps ==
    ASSUME IInv, TypeOK', UNCHANGED <<rowVars, raced>>,
           planner' \in {planner, Idle}, owner' \in {owner, Idle}
    PROVE  IInv'
<1>1. UNCHANGED <<reminder, occ, del, accepted, raced>>
  BY DEF rowVars
<1>2. /\ Happened' = Happened /\ PausedIsUnplanned' /\ BudgetKept' /\ HorizonCovered'
      /\ ArchivedIsComplete' /\ QueueMatchesReminder'
  BY <1>1, ScheduleKept
<1>3. PlanAsRead' /\ Undisturbed' /\ OwnerAsRead'
  BY <1>1, MemoryKept
<1>4. RowsAgree'
  BY <1>1, <1>2 DEF IInv, RowsAgree, NothingQueued
<1>5. RecipientsServed'
  BY <1>1 DEF IInv, RecipientsServed, Accepted
<1> QED
  BY <1>2, <1>3, <1>4, <1>5 DEF IInv

LEMMA InvInit == Init => IInv
<1> SUFFICES ASSUME Init PROVE IInv
  OBVIOUS
<1>1. planner.pc = "idle" /\ owner.pc = "idle" /\ joiner.pc = "idle"
  BY DEF Init, Idle
<1>2. TypeOK
  <2>1. reminder \in Reminder
    BY ScheduleAssumption DEF Init, Reminder, Status, NoTime
  <2>2. accepted \in [Users -> Time \cup {Invited, Absent}]
    BY DEF Init
  <2> QED
    BY <2>1, <2>2 DEF Init, TypeOK
<1>3. Happened = {} /\ Fired = 0 /\ IsFiniteSet(Happened)
  BY FS_EmptySet DEF Init, Happened, Fired
<1>4. RowsAgree
  <2>1. accepted[Owner] # Invited
    BY ReminderAssumption DEF Init, Time, Invited
  <2>2. \A m \in Moments, u \in Users : del[<<m, u>>] = "none"
    BY DEF Init
  <2>3. NothingQueued
    BY DEF Init, NothingQueued
  <2> QED
    BY <1>3, <2>1, <2>2, <2>3 DEF RowsAgree
<1>5. BudgetKept
  BY <1>3, ReminderAssumption DEF BudgetKept, NoTime
<1>6. \A m \in Moments : occ[m] # "pending"
  BY DEF Init
<1>7. PlanAsRead /\ Undisturbed /\ OwnerAsRead
  BY <1>1 DEF PlanAsRead, Undisturbed, OwnerAsRead, Counting, Inserting, Dropping
<1> QED
  BY <1>1, <1>2, <1>4, <1>5, <1>6, <1>7
  DEF Init, IInv, PausedIsUnplanned, HorizonCovered, ArchivedIsComplete,
      QueueMatchesReminder, RecipientsServed

-----------------------------------------------------------------------------
(* Types.                                                                    *)

LEMMA PlannerTypeStep ==
    ASSUME IInv, Plan \/ PlanAbort
    PROVE  TypeOK'
<1> USE DEF IInv
<1>1. CASE PlanSelect
  <2>1. now + Horizon \in Nat
    BY PlannerAssumption DEF TypeOK, Time
  <2>2. planner' \in Plans
    BY <1>1, <2>1 DEF PlanSelect, TypeOK, Plans
  <2> QED
    BY <1>1, <2>2 DEF PlanSelect, TypeOK, rowVars
<1>2. CASE PlanCount
  <2>1. planner.read \in Reminder /\ planner.horizon_end \in Nat
    BY <1>2, PlanTypes DEF PlanCount
  <2>2. Fired \in Nat
    BY FiredIsNat
  <2> DEFINE moments == Expand(planner.read, planner.horizon_end, Fired)
  <2>3. moments \subseteq Moments
    BY <2>1, <2>2, ExpandFacts, WindowFacts
  <2>4. planner' = [pc |-> "counted", read |-> planner.read,
                    horizon_end |-> planner.horizon_end, fired |-> Fired,
                    moments |-> moments]
    BY <1>2 DEF PlanCount
  <2>5. planner' \in Plans
    <3> HIDE DEF moments
    <3> QED
      BY <2>1, <2>2, <2>3, <2>4 DEF Plans
  <2> QED
    BY <1>2, <2>5 DEF PlanCount, TypeOK, rowVars
<1>3. CASE PlanExpand
  <2>1. /\ planner.read \in Reminder /\ planner.horizon_end \in Nat /\ planner.fired \in Nat
        /\ planner.moments \subseteq Moments
    BY <1>3, PlanTypes DEF PlanExpand, Counting
  <2>2. Accepted \subseteq Users
    BY ReminderAssumption DEF Accepted
  <2> DEFINE inserted == {m \in planner.moments : occ[m] = "none"}
             added == {q \in planner.moments \X Accepted : del[q] = "none"}
  <2>3. inserted \subseteq Moments /\ added \subseteq Moments \X Users
    BY <2>1, <2>2
  <2>4. planner' = [pc |-> "expanded", read |-> planner.read,
                    horizon_end |-> planner.horizon_end, fired |-> planner.fired,
                    moments |-> planner.moments, inserted |-> inserted,
                    recipients |-> Accepted, added |-> added]
    BY <1>3 DEF PlanExpand
  <2>5. planner' \in Plans
    <3> HIDE DEF inserted, added
    <3> QED
      BY <2>1, <2>2, <2>3, <2>4 DEF Plans
  <2> QED
    BY <1>3, <2>5 DEF PlanExpand, TypeOK, rowVars
<1>4. CASE PlanWrite
  <2>1. planner' \in Plans
    BY <1>4 DEF PlanWrite, TypeOK, Plans, Idle
  <2> QED
    BY <1>4, <2>1 DEF PlanWrite, TypeOK, rowVars
<1>5. CASE PlanCommit
  <2>1. /\ planner.read \in Reminder /\ planner.horizon_end \in Nat
        /\ planner.fired \in Nat
        /\ planner.moments = Expand(planner.read, planner.horizon_end, planner.fired)
    BY <1>5, PlanTypes DEF PlanCommit, PlanAsRead, Counting
  <2>2. PlannedUntil(planner.read, planner.horizon_end, planner.fired, planner.moments) \in Nat
    BY <2>1, PlannedUntilIsTime
  <2>3. reminder' \in Reminder
    BY <1>5, <2>2 DEF PlanCommit, TypeOK, Reminder, Status
  <2>4. occ' \in [Moments -> {"none", "pending", "sent"}]
    BY <1>5 DEF PlanCommit, TypeOK
  <2>5. del' \in [Moments \X Users -> {"none", "pending", "sent"}]
    BY <1>5 DEF PlanCommit, TypeOK
  <2>6. raced' \in BOOLEAN
    BY <1>5 DEF PlanCommit, TypeOK
  <2>7. owner' \in Edits \cup {Idle}
    <3>1. CASE owner.pc = "dropped"
      BY <1>5, <3>1 DEF PlanCommit, TypeOK, Edits, Idle
    <3> QED
      BY <1>5, <3>1 DEF PlanCommit, TypeOK
  <2> QED
    BY <1>5, <2>3, <2>4, <2>5, <2>6, <2>7 DEF PlanCommit, TypeOK
<1>6. CASE PlanFail \/ PlanAbort
  BY <1>6 DEF PlanFail, PlanAbort, TypeOK, rowVars
<1> QED
  BY <1>1, <1>2, <1>3, <1>4, <1>5, <1>6 DEF Plan

LEMMA OwnerTypeStep ==
    ASSUME IInv,
           \/ \E op \in {"pause", "resume", "edit"}, s \in Schedules : OwnerRead(op, s)
           \/ OwnerDrop \/ OwnerReset \/ OwnerCommit \/ OwnerAbort \/ Delete
    PROVE  TypeOK'
<1> USE DEF IInv
<1>1. CASE \E op \in {"pause", "resume", "edit"}, s \in Schedules : OwnerRead(op, s)
  <2>1. PICK op \in {"pause", "resume", "edit"}, s \in Schedules : OwnerRead(op, s)
    BY <1>1
  <2>2. owner' \in Edits
    BY <2>1 DEF OwnerRead, TypeOK, Edits
  <2> QED
    BY <2>1, <2>2 DEF OwnerRead, TypeOK, rowVars
<1>2. CASE OwnerDrop
  <2>1. /\ owner.op \in {"pause", "resume", "edit"} /\ owner.schedule \in Schedules
        /\ owner.read \in Reminder
    BY <1>2, OwnerTypes DEF OwnerDrop
  <2>2. Unsent \subseteq Moments
    BY DEF Unsent
  <2>3. owner' \in Edits
    BY <1>2, <2>1, <2>2 DEF OwnerDrop, Edits
  <2> QED
    BY <1>2, <2>3 DEF OwnerDrop, TypeOK, rowVars
<1>3. CASE OwnerReset
  <2>1. owner' \in Edits
    BY <1>3 DEF OwnerReset, TypeOK, Edits, Idle
  <2> QED
    BY <1>3, <2>1 DEF OwnerReset, TypeOK, rowVars
<1>4. CASE OwnerCommit
  <2>1. /\ owner.op \in {"pause", "resume", "edit"} /\ owner.schedule \in Schedules
        /\ owner.read \in Reminder /\ (Drops(owner.op) => owner.overtaken \in BOOLEAN)
    BY <1>4, OwnerTypes DEF OwnerCommit, Dropping
  <2>2. reminder' \in Reminder
    BY <1>4, <2>1 DEF OwnerCommit, TypeOK, Reminder, Status, NewStatus
  <2>3. occ' \in [Moments -> {"none", "pending", "sent"}]
    BY <1>4 DEF OwnerCommit, TypeOK
  <2>4. del' \in [Moments \X Users -> {"none", "pending", "sent"}]
    BY <1>4 DEF OwnerCommit, TypeOK
  <2>5. raced' \in BOOLEAN
    BY <1>4, <2>1 DEF OwnerCommit, TypeOK
  <2> QED
    BY <1>4, <2>2, <2>3, <2>4, <2>5 DEF OwnerCommit, TypeOK
<1>5. CASE OwnerAbort
  BY <1>5 DEF OwnerAbort, TypeOK, rowVars
<1>6. CASE Delete
  <2>1. reminder' \in Reminder
    BY <1>6 DEF Delete, TypeOK, Reminder, Status
  <2> QED
    BY <1>6, <2>1 DEF Delete, TypeOK
<1> QED
  BY <1>1, <1>2, <1>3, <1>4, <1>5, <1>6

LEMMA OthersTypeStep ==
    ASSUME IInv,
           \/ \E u \in Users : Invite(u) \/ AcceptRead(u) \/ Leave(u) \/ Decline(u)
           \/ AcceptCommit \/ AcceptAbort
           \/ \E m \in Moments, u \in Users : Dispatch(m, u)
           \/ Tick \/ UNCHANGED vars
    PROVE  TypeOK'
<1> USE DEF IInv
<1>1. CASE \E u \in Users : Invite(u) \/ Leave(u) \/ Decline(u)
  <2>1. PICK u \in Users : Invite(u) \/ Leave(u) \/ Decline(u)
    BY <1>1
  <2>2. accepted' \in [Users -> Time \cup {Invited, Absent}]
    BY <2>1 DEF Invite, Leave, Decline, TypeOK
  <2>3. del' \in [Moments \X Users -> {"none", "pending", "sent"}]
    BY <2>1 DEF Invite, Leave, Decline, TypeOK
  <2> QED
    BY <2>1, <2>2, <2>3 DEF Invite, Leave, Decline, TypeOK
<1>2. CASE \E u \in Users : AcceptRead(u)
  <2>1. PICK u \in Users : AcceptRead(u)
    BY <1>2
  <2>2. u # Owner
    BY <2>1 DEF AcceptRead, RowsAgree
  <2>3. Upcoming(now) \subseteq Moments
    BY DEF Upcoming
  <2>4. joiner' \in Joins
    BY <2>1, <2>2, <2>3 DEF AcceptRead, TypeOK, Joins
  <2> QED
    BY <2>1, <2>4 DEF AcceptRead, TypeOK, rowVars
<1>3. CASE AcceptCommit
  <2>1. joiner.u \in Users \ {Owner} /\ joiner.at \in Time
    BY <1>3, JoinerTypes DEF AcceptCommit
  <2>2. accepted' \in [Users -> Time \cup {Invited, Absent}]
    BY <1>3, <2>1 DEF AcceptCommit, TypeOK
  <2>3. del' \in [Moments \X Users -> {"none", "pending", "sent"}]
    BY <1>3 DEF AcceptCommit, TypeOK
  <2>4. raced' \in BOOLEAN
    BY <1>3 DEF AcceptCommit, TypeOK
  <2> QED
    BY <1>3, <2>2, <2>3, <2>4 DEF AcceptCommit, TypeOK
<1>4. CASE AcceptAbort
  BY <1>4 DEF AcceptAbort, TypeOK, rowVars
<1>5. CASE \E m \in Moments, u \in Users : Dispatch(m, u)
  BY <1>5 DEF Dispatch, TypeOK
<1>6. CASE Tick
  <2>1. now' \in Time
    BY <1>6, PlannerAssumption DEF Tick, TypeOK, Time
  <2> QED
    BY <1>6, <2>1 DEF Tick, TypeOK, rowVars
<1>7. CASE UNCHANGED vars
  BY <1>7 DEF vars, TypeOK
<1> QED
  BY <1>1, <1>2, <1>3, <1>4, <1>5, <1>6, <1>7

LEMMA TypeStep == IInv /\ [Next]_vars => TypeOK'
<1> QED
  BY PlannerTypeStep, OwnerTypeStep, OthersTypeStep DEF Next, Plan

-----------------------------------------------------------------------------
(* Everybody but the planner's and the owner's commits.                      *)

\* A step that changes nothing but what the planner or the owner remembers.
LEMMA RememberKeeps ==
    ASSUME IInv, TypeOK', UNCHANGED <<reminder, occ, del, accepted, raced>>,
           PlanAsRead', Undisturbed', OwnerAsRead'
    PROVE  IInv'
<1>1. /\ Happened' = Happened /\ PausedIsUnplanned' /\ BudgetKept' /\ HorizonCovered'
      /\ ArchivedIsComplete' /\ QueueMatchesReminder'
  BY ScheduleKept
<1>2. RowsAgree' /\ RecipientsServed'
  BY <1>1 DEF IInv, RowsAgree, NothingQueued, RecipientsServed, Accepted
<1> QED
  BY <1>1, <1>2 DEF IInv

LEMMA SelectKeeps ==
    ASSUME IInv, TypeOK', PlanSelect
    PROVE  IInv'
<1>1. UNCHANGED <<reminder, occ, del, accepted, raced, owner>>
  BY DEF PlanSelect, rowVars
<1>2. planner'.pc = "selected" /\ planner'.read = reminder /\ reminder.status = "active"
  BY DEF PlanSelect
<1>3. PlanAsRead' /\ Undisturbed'
  BY <1>1, <1>2 DEF PlanAsRead, Undisturbed, Counting, Inserting
<1>4. OwnerAsRead'
  BY <1>1, <1>2 DEF IInv, OwnerAsRead, Dropping, Added, Inserting
<1> QED
  BY <1>1, <1>3, <1>4, RememberKeeps

LEMMA CountKeeps ==
    ASSUME IInv, TypeOK', PlanCount
    PROVE  IInv'
<1>1. UNCHANGED <<reminder, occ, del, accepted, raced, owner>>
  BY DEF PlanCount, rowVars
<1>2. Fired' = Fired
  BY <1>1, ScheduleKept
<1> DEFINE moments == Expand(planner.read, planner.horizon_end, Fired)
<1>3. /\ planner'.pc = "counted" /\ planner'.read = planner.read
      /\ planner'.horizon_end = planner.horizon_end /\ planner'.fired = Fired
      /\ planner'.moments = moments
  BY DEF PlanCount
<1>4. /\ planner.read.status = "active"
      /\ planner.read.planned_until = NoTime => reminder.planned_until = NoTime
  BY DEF IInv, PlanAsRead, PlanCount
<1>5. MaxOccurrences # NoTime => Fired <= MaxOccurrences
  BY DEF IInv, BudgetKept
<1> HIDE DEF moments
<1>6. planner'.moments = Expand(planner'.read, planner'.horizon_end, planner'.fired)
  BY <1>3 DEF moments
<1>7. PlanAsRead'
  BY <1>1, <1>3, <1>4, <1>5, <1>6 DEF PlanAsRead, Inserting
<1>8. Undisturbed'
  BY <1>2, <1>3, FiredIsNat DEF Undisturbed, IInv, Inserting
<1>9. OwnerAsRead'
  BY <1>1, <1>3 DEF IInv, OwnerAsRead, Dropping, Added, Inserting
<1> QED
  BY <1>1, <1>7, <1>8, <1>9, RememberKeeps

LEMMA ExpandKeeps ==
    ASSUME IInv, TypeOK', PlanExpand
    PROVE  IInv'
<1>1. UNCHANGED <<reminder, occ, del, accepted, raced, owner>>
  BY DEF PlanExpand, rowVars
<1>2. Fired' = Fired
  BY <1>1, ScheduleKept
<1>3. /\ planner'.pc = "expanded" /\ planner'.read = planner.read
      /\ planner'.horizon_end = planner.horizon_end /\ planner'.fired = planner.fired
      /\ planner'.moments = planner.moments
      /\ planner'.inserted = {m \in planner.moments : occ[m] = "none"}
      /\ planner'.recipients = Accepted
      /\ planner'.added = {q \in planner.moments \X Accepted : del[q] = "none"}
  BY DEF PlanExpand
<1>4. planner.pc = "counted" /\ planner.moments \cap Held = {} /\ planner.moments \subseteq Moments
  BY PlanTypes DEF PlanExpand, IInv, Counting
<1>5. PlanAsRead'
  <2>1. /\ planner'.read.status = "active"
        /\ planner'.read.planned_until = NoTime => reminder'.planned_until = NoTime
    BY <1>1, <1>3, <1>4 DEF IInv, PlanAsRead
  <2>2. /\ planner'.moments = Expand(planner'.read, planner'.horizon_end, planner'.fired)
        /\ MaxOccurrences # NoTime => planner'.fired <= MaxOccurrences
    BY <1>3, <1>4 DEF IInv, PlanAsRead, Counting
  <2>3. \A m \in planner'.inserted, u \in planner'.recipients : <<m, u>> \in planner'.added
    <3> SUFFICES ASSUME NEW m \in planner.moments, occ[m] = "none", NEW u \in Accepted
                 PROVE  <<m, u>> \in planner'.added
      BY <1>3
    <3>1. u \in Users
      BY ReminderAssumption DEF Accepted
    <3>2. del[<<m, u>>] = "none"
      BY <1>4, <3>1 DEF IInv, RowsAgree
    <3> QED
      BY <1>3, <3>2
  <2>4. \A q \in planner'.added : q[1] \in planner'.inserted \/ occ'[q[1]] # "none"
    BY <1>1, <1>3
  <2>5. planner'.inserted \subseteq planner'.moments /\ \A m \in planner'.inserted : occ'[m] = "none"
    BY <1>1, <1>3
  <2> QED
    BY <2>1, <2>2, <2>3, <2>4, <2>5 DEF PlanAsRead
<1>6. Undisturbed'
  BY <1>1, <1>2, <1>3, <1>4 DEF IInv, Undisturbed, Counting
<1>7. OwnerAsRead'
  <2>1. owner.pc = "reset" => \A q \in Added' : q[1] \notin owner.dropped
    BY <1>3, <1>4 DEF Added, Inserting, Held
  <2> QED
    BY <1>1, <1>3, <2>1 DEF IInv, OwnerAsRead, Dropping
<1> QED
  BY <1>1, <1>5, <1>6, <1>7, RememberKeeps

LEMMA WriteKeeps ==
    ASSUME IInv, TypeOK', PlanWrite
    PROVE  IInv'
<1>1. /\ UNCHANGED <<reminder, occ, del, accepted, raced, owner>>
      /\ planner.pc = "expanded" /\ owner.pc # "reset"
  BY DEF PlanWrite, rowVars
<1>2. Fired' = Fired
  BY <1>1, ScheduleKept
<1>3. /\ planner'.pc = "written" /\ planner'.read = planner.read
      /\ planner'.horizon_end = planner.horizon_end /\ planner'.fired = planner.fired
      /\ planner'.moments = planner.moments /\ planner'.inserted = planner.inserted
      /\ planner'.recipients = planner.recipients /\ planner'.added = planner.added
  BY <1>1 DEF PlanWrite, IInv, TypeOK, Plans, Idle
<1>4. PlanAsRead'
  BY <1>1, <1>3 DEF IInv, PlanAsRead, Counting, Inserting
<1>5. Undisturbed'
  BY <1>1, <1>2, <1>3 DEF IInv, Undisturbed, Counting, Inserting
<1>6. OwnerAsRead'
  BY <1>1 DEF IInv, OwnerAsRead, Dropping
<1> QED
  BY <1>1, <1>4, <1>5, <1>6, RememberKeeps

LEMMA OwnerReadKeeps ==
    ASSUME IInv, TypeOK', NEW op \in {"pause", "resume", "edit"}, NEW s \in Schedules,
           OwnerRead(op, s)
    PROVE  IInv'
<1>1. UNCHANGED <<reminder, occ, del, accepted, raced, planner>>
  BY DEF OwnerRead, rowVars
<1>2. Fired' = Fired
  BY <1>1, ScheduleKept
<1>3. OwnerAsRead'
  BY DEF OwnerRead, OwnerAsRead, Dropping
<1>4. PlanAsRead' /\ Undisturbed'
  BY <1>1, <1>2 DEF IInv, PlanAsRead, Undisturbed, Counting, Inserting
<1> QED
  BY <1>1, <1>3, <1>4, RememberKeeps

\* The DELETE takes everything that is queued when it starts.
LEMMA OwnerDropKeeps ==
    ASSUME IInv, TypeOK', OwnerDrop \/ OwnerReset
    PROVE  IInv'
<1>1. UNCHANGED <<reminder, occ, del, accepted, raced, planner>>
  BY DEF OwnerDrop, OwnerReset, rowVars
<1>2. Fired' = Fired
  BY <1>1, ScheduleKept
<1>3. PlanAsRead' /\ Undisturbed'
  BY <1>1, <1>2 DEF IInv, PlanAsRead, Undisturbed, Counting, Inserting
<1>4. OwnerAsRead'
  <2>1. CASE OwnerDrop
    <3>1. Unsent = {m \in Moments : occ[m] = "pending"}
      BY DEF IInv, RowsAgree, Unsent
    <3>2. /\ owner'.pc = "dropped" /\ owner'.op = owner.op /\ owner'.read = owner.read
          /\ owner'.dropped = Unsent /\ owner.pc = "read" /\ Drops(owner.op)
      BY <2>1 DEF OwnerDrop
    <3> QED
      BY <1>1, <3>1, <3>2 DEF IInv, OwnerAsRead, Dropping
  <2>2. CASE OwnerReset
    <3>1. /\ owner'.pc = "reset" /\ owner'.op = owner.op /\ owner'.read = owner.read
          /\ owner'.dropped = owner.dropped /\ owner'.overtaken = owner.overtaken
          /\ owner.pc = "dropped" /\ planner.pc # "written"
          /\ \A q \in Added : q[1] \notin owner.dropped
      BY <2>2 DEF OwnerReset, IInv, TypeOK, Edits, Idle
    <3> QED
      BY <1>1, <3>1 DEF IInv, OwnerAsRead, Dropping, Added, Inserting
  <2> QED
    BY <2>1, <2>2
<1> QED
  BY <1>1, <1>3, <1>4, RememberKeeps

\* A recipient changes deliveries and recipient rows, never the schedule's rows.
LEMMA RecipientKeeps ==
    ASSUME IInv, TypeOK', UNCHANGED <<reminder, occ, planner, owner>>, raced => raced',
           accepted'[Owner] # Invited, RecipientsServed',
           \A m \in Moments, u \in Users :
             /\ del'[<<m, u>>] # "none" => occ[m] # "none"
             /\ del'[<<m, u>>] = "sent" => del[<<m, u>>] = "sent"
    PROVE  IInv'
<1>1. /\ Happened' = Happened /\ PausedIsUnplanned' /\ BudgetKept' /\ HorizonCovered'
      /\ ArchivedIsComplete' /\ QueueMatchesReminder'
  BY ScheduleKept
<1>2. PlanAsRead' /\ Undisturbed' /\ OwnerAsRead'
  BY MemoryKept
<1>3. RowsAgree'
  BY <1>1 DEF IInv, RowsAgree, NothingQueued
<1> QED
  BY <1>1, <1>2, <1>3 DEF IInv

LEMMA InviteKeeps ==
    ASSUME IInv, TypeOK', NEW u \in Users, Invite(u)
    PROVE  IInv'
<1>1. /\ UNCHANGED <<reminder, occ, del, planner, owner, raced>>
      /\ u # Owner /\ accepted' = [accepted EXCEPT ![u] = Invited]
  BY DEF Invite
<1>2. \A v \in Users : v # u => accepted'[v] = accepted[v]
  BY <1>1 DEF IInv, TypeOK
<1>3. accepted'[u] = Invited /\ Invited \notin Time
  BY <1>1, PlannerAssumption DEF IInv, TypeOK, Time, Invited
<1>4. u \notin Accepted' /\ \A v \in Users : v # u => (v \in Accepted' <=> v \in Accepted)
  BY <1>1, <1>2, <1>3 DEF Accepted
<1>5. Accepted' \subseteq Users
  BY ReminderAssumption DEF Accepted
<1>6. RecipientsServed'
  BY <1>1, <1>2, <1>4, <1>5 DEF IInv, RecipientsServed
<1>7. accepted'[Owner] # Invited
  BY <1>1, <1>2, ReminderAssumption DEF IInv, RowsAgree
<1> QED
  BY <1>1, <1>6, <1>7, RecipientKeeps DEF IInv, RowsAgree

\* Leaving takes the user out of the accepted, with whatever is queued for them.
LEMMA RemovalKeeps ==
    ASSUME IInv, TypeOK', NEW u \in Users, Leave(u) \/ Decline(u)
    PROVE  IInv'
<1>1. /\ UNCHANGED <<reminder, occ, planner, owner, raced>>
      /\ u # Owner /\ accepted' = [accepted EXCEPT ![u] = Absent]
  BY DEF Leave, Decline, HasRow
<1>2. \A m \in Moments, v \in Users :
        /\ v # u => del'[<<m, v>>] = del[<<m, v>>]
        /\ del'[<<m, v>>] \in {del[<<m, v>>], "none"}
  BY DEF Leave, Decline, IInv, TypeOK
<1>3. \A v \in Users : v # u => accepted'[v] = accepted[v]
  BY <1>1 DEF IInv, TypeOK
<1>4. accepted'[u] = Absent /\ Absent \notin Time
  BY <1>1, PlannerAssumption DEF IInv, TypeOK, Time, Absent
<1>5. u \notin Accepted' /\ \A v \in Users : v # u => (v \in Accepted' <=> v \in Accepted)
  BY <1>1, <1>3, <1>4 DEF Accepted
<1>6. Accepted' \subseteq Users
  BY ReminderAssumption DEF Accepted
<1>7. RecipientsServed'
  BY <1>1, <1>2, <1>3, <1>5, <1>6 DEF IInv, RecipientsServed
<1>8. accepted'[Owner] # Invited
  BY <1>1, <1>3, ReminderAssumption DEF IInv, RowsAgree
<1>9. \A m \in Moments, v \in Users :
        /\ del'[<<m, v>>] # "none" => occ[m] # "none"
        /\ del'[<<m, v>>] = "sent" => del[<<m, v>>] = "sent"
  BY <1>2 DEF IInv, RowsAgree
<1> QED
  BY <1>1, <1>7, <1>8, <1>9, RecipientKeeps

LEMMA AcceptKeeps ==
    ASSUME IInv, TypeOK', AcceptCommit
    PROVE  IInv'
<1> DEFINE j == joiner
<1>1. /\ UNCHANGED <<reminder, occ, planner, owner>>
      /\ accepted' = [accepted EXCEPT ![j.u] = j.at]
      /\ raced' = (raced \/ Upcoming(j.at) # j.upcoming)
      /\ \A m \in j.upcoming : occ[m] # "none"
  BY DEF AcceptCommit
<1>2. j.u \in Users \ {Owner} /\ j.at \in Time /\ j.upcoming \subseteq Moments
  BY JoinerTypes DEF AcceptCommit, IInv
<1>3. \A m \in Moments, v \in Users :
        del'[<<m, v>>] = IF m \in j.upcoming /\ v = j.u /\ del[<<m, v>>] = "none"
                         THEN "pending" ELSE del[<<m, v>>]
  BY DEF AcceptCommit
<1>4. /\ accepted'[j.u] = j.at
      /\ \A v \in Users : v # j.u => accepted'[v] = accepted[v]
  BY <1>1, <1>2 DEF IInv, TypeOK
<1>5. RecipientsServed'
  <2> SUFFICES ASSUME ~raced', NEW v \in Accepted', NEW m \in Moments,
                      occ[m] = "pending", accepted'[v] < FireAt[m]
               PROVE  del'[<<m, v>>] # "none"
    BY <1>1 DEF RecipientsServed
  <2>1. v \in Users
    BY ReminderAssumption DEF Accepted
  <2>2. ~raced /\ Upcoming(j.at) = j.upcoming
    BY <1>1 DEF IInv, TypeOK
  <2>3. CASE v = j.u
    <3>1. FireAt[m] > j.at
      BY <1>2, <1>4, <2>3, ReminderAssumption DEF Time
    <3>2. m \in j.upcoming
      BY <2>2, <3>1 DEF Upcoming
    <3> QED
      BY <1>3, <2>1, <2>3, <3>2
  <2>4. CASE v # j.u
    <3>1. v \in Accepted /\ accepted'[v] = accepted[v]
      BY <1>4, <2>1, <2>4 DEF Accepted
    <3>2. del[<<m, v>>] # "none"
      BY <2>2, <3>1 DEF IInv, RecipientsServed
    <3> QED
      BY <1>3, <2>1, <3>2
  <2> QED
    BY <2>3, <2>4
<1>6. accepted'[Owner] # Invited
  BY <1>2, <1>4, ReminderAssumption DEF IInv, RowsAgree
<1>7. \A m \in Moments, v \in Users :
        /\ del'[<<m, v>>] # "none" => occ[m] # "none"
        /\ del'[<<m, v>>] = "sent" => del[<<m, v>>] = "sent"
  BY <1>1, <1>3 DEF IInv, RowsAgree
<1>8. raced => raced'
  BY <1>1
<1> HIDE DEF j
<1> QED
  BY <1>1, <1>5, <1>6, <1>7, <1>8, RecipientKeeps

\* What goes out already had its occurrence, so the count stands.
LEMMA DispatchKeeps ==
    ASSUME IInv, TypeOK', NEW m \in Moments, NEW u \in Users, Dispatch(m, u)
    PROVE  IInv'
<1>1. /\ UNCHANGED <<reminder, accepted, planner, owner, raced>>
      /\ del' = [del EXCEPT ![<<m, u>>] = "sent"] /\ occ' = [occ EXCEPT ![m] = "sent"]
      /\ del[<<m, u>>] = "pending" /\ m \notin Held
  BY DEF Dispatch
<1>2. \A k \in Moments : occ'[k] = IF k = m THEN "sent" ELSE occ[k]
  BY <1>1 DEF IInv, TypeOK
<1>3. \A k \in Moments, v \in Users :
        del'[<<k, v>>] = IF k = m /\ v = u THEN "sent" ELSE del[<<k, v>>]
  BY <1>1 DEF IInv, TypeOK
<1>4. occ[m] # "none"
  BY <1>1 DEF IInv, RowsAgree
<1>5. /\ \A k \in Moments : occ'[k] = "none" <=> occ[k] = "none"
      /\ \A k \in Moments : occ'[k] = "pending" => occ[k] = "pending"
  BY <1>2, <1>4
<1>6. Happened' = Happened /\ Fired' = Fired
  BY <1>5, SameCount
<1>7. RowsAgree'
  <2>1. ASSUME NEW k \in Moments, NEW v \in Users
        PROVE  /\ del'[<<k, v>>] # "none" => occ'[k] # "none"
               /\ del'[<<k, v>>] = "sent" => occ'[k] = "sent"
    <3>1. CASE k = m
      BY <1>2, <3>1
    <3>2. CASE k # m
      <4>1. del'[<<k, v>>] = del[<<k, v>>] /\ occ'[k] = occ[k]
        BY <1>2, <1>3, <3>2
      <4> QED
        BY <4>1 DEF IInv, RowsAgree
    <3> QED
      BY <3>1, <3>2
  <2> QED
    BY <1>1, <1>5, <1>6, <2>1 DEF IInv, RowsAgree, NothingQueued
<1>8. PlanAsRead' /\ Undisturbed' /\ OwnerAsRead'
  <2>1. PlanAsRead'
    <3>1. /\ Inserting => planner.inserted \subseteq Moments
          /\ \A q \in Added : q[1] \in Moments
      BY PlanTypes DEF IInv, Added
    <3> QED
      BY <1>1, <1>5, <3>1 DEF IInv, PlanAsRead, Counting, Inserting, Added
  <2>2. Undisturbed'
    <3>1. Inserting => planner.moments \subseteq Moments
      BY PlanTypes DEF IInv
    <3> QED
      BY <1>1, <1>5, <1>6, <3>1 DEF IInv, Undisturbed, Counting, Inserting
  <2>3. OwnerAsRead'
    <3>1. Dropping => owner.dropped \subseteq Moments /\ m \notin owner.dropped
      BY <1>1, OwnerTypes DEF IInv, Held, Dropping
    <3> QED
      BY <1>1, <1>2, <1>5, <3>1 DEF IInv, OwnerAsRead, Dropping, Added, Inserting
  <2> QED
    BY <2>1, <2>2, <2>3
<1>9. PausedIsUnplanned' /\ BudgetKept'
  BY <1>1, <1>6 DEF IInv, PausedIsUnplanned, BudgetKept
<1>10. \A k \in MomentsOf[reminder.schedule] : k \in Moments
  BY DEF IInv, TypeOK, Reminder, Moments
<1>11. HorizonCovered'
  BY <1>1, <1>5, <1>10 DEF IInv, HorizonCovered, InBounds
<1>12. ArchivedIsComplete'
  BY <1>1, <1>5, <1>6, <1>10 DEF IInv, ArchivedIsComplete, InBounds, BudgetSpent
<1>13. QueueMatchesReminder'
  BY <1>1, <1>5 DEF IInv, QueueMatchesReminder
<1>14. RecipientsServed'
  BY <1>1, <1>3, <1>5, ReminderAssumption DEF IInv, RecipientsServed, Accepted
<1> QED
  BY <1>7, <1>8, <1>9, <1>11, <1>12, <1>13, <1>14 DEF IInv

LEMMA DeleteKeeps ==
    ASSUME IInv, TypeOK', Delete
    PROVE  IInv'
<1>1. /\ UNCHANGED <<planner, owner, raced>>
      /\ \A m \in Moments : occ'[m] = "none"
      /\ \A m \in Moments, u \in Users : del'[<<m, u>>] = "none"
      /\ reminder'.status = "gone" /\ reminder'.planned_until = reminder.planned_until
      /\ accepted'[Owner] = Absent
      /\ owner.pc # "reset" /\ Added = {} /\ Fresh = {}
  BY ReminderAssumption DEF Delete, IInv, TypeOK, Reminder, RowLocked
<1>2. /\ IsFiniteSet(Happened') /\ Fired' \in Nat /\ Fired \in Nat /\ Fired' <= Fired
  BY <1>1, FewerCount DEF IInv, RowsAgree
<1>3. RowsAgree'
  BY <1>1, <1>2 DEF RowsAgree, NothingQueued, Absent, Invited
<1>4. PlanAsRead'
  <2>1. Inserting => planner.added = {} /\ planner.inserted = {}
    BY <1>1 DEF Added, Fresh
  <2> QED
    BY <1>1, <2>1 DEF IInv, PlanAsRead, Counting, Inserting
<1>5. Undisturbed'
  BY <1>1, <1>2, PlanTypes DEF IInv, Undisturbed, Counting, Inserting
<1>6. OwnerAsRead'
  BY <1>1 DEF IInv, OwnerAsRead, Dropping
<1>7. BudgetKept'
  BY <1>2, ReminderAssumption DEF IInv, BudgetKept, NoTime
<1> QED
  BY <1>1, <1>3, <1>4, <1>5, <1>6, <1>7
  DEF IInv, PausedIsUnplanned, HorizonCovered, ArchivedIsComplete,
      QueueMatchesReminder, RecipientsServed

-----------------------------------------------------------------------------
(* The owner's commit.                                                       *)

\* What was deleted was still queued and had not gone out, and unless the planner
\* committed since, it was everything queued.
LEMMA DropFacts ==
    ASSUME IInv, OwnerCommit
    PROVE  /\ reminder'.planned_until = IF Drops(owner.op) THEN NoTime ELSE reminder.planned_until
           /\ \A m \in Moments : occ'[m] = occ[m] \/ (Drops(owner.op) /\ occ'[m] = "none")
           /\ \A m \in Moments : occ'[m] # occ[m] => occ[m] = "pending"
           /\ \A m \in Moments, u \in Users :
                del'[<<m, u>>] = IF Drops(owner.op) /\ m \in owner.dropped
                                 THEN "none" ELSE del[<<m, u>>]
           /\ \A m \in Moments : Drops(owner.op) /\ m \in owner.dropped => occ'[m] = "none"
           /\ \A m \in Moments : ~(Drops(owner.op) /\ m \in owner.dropped) => occ'[m] = occ[m]
           /\ Drops(owner.op) /\ ~raced' => NothingQueued'
           /\ Drops(owner.op) => owner.pc = "reset"
<1>1. Drops(owner.op) => owner.pc = "reset" /\ reminder.status # "gone" /\ Dropping
  BY DEF OwnerCommit, Dropping
<1>2. Drops(owner.op) =>
        /\ \A m \in owner.dropped : occ[m] = "pending"
        /\ ~owner.overtaken => \A m \in Moments : occ[m] = "pending" => m \in owner.dropped
        /\ owner.overtaken \in BOOLEAN
  BY <1>1, OwnerTypes DEF IInv, OwnerAsRead
<1>3. \A m \in Moments :
        occ'[m] = IF Drops(owner.op) /\ m \in owner.dropped THEN "none" ELSE occ[m]
  BY DEF OwnerCommit
<1>4. \A m \in Moments, u \in Users :
        del'[<<m, u>>] = IF Drops(owner.op) /\ m \in owner.dropped
                         THEN "none" ELSE del[<<m, u>>]
  BY DEF OwnerCommit
<1>5. Drops(owner.op) /\ ~raced' => ~owner.overtaken
  BY DEF OwnerCommit
<1>6. reminder'.planned_until = IF Drops(owner.op) THEN NoTime ELSE reminder.planned_until
  BY DEF OwnerCommit
<1>7. Drops(owner.op) /\ ~raced' => NothingQueued'
  BY <1>2, <1>3, <1>5 DEF NothingQueued
<1> QED
  BY <1>1, <1>2, <1>3, <1>4, <1>6, <1>7

LEMMA OwnerCommitKeeps ==
    ASSUME IInv, TypeOK', OwnerCommit
    PROVE  IInv'
<1> DEFINE drops == Drops(owner.op)
<1>1. /\ UNCHANGED <<accepted, planner>> /\ owner' = Idle
      /\ reminder'.status = NewStatus(owner.op, owner.read.status, reminder.status)
      /\ reminder'.schedule = IF owner.op = "edit" THEN owner.schedule ELSE reminder.schedule
      /\ raced' = (raced \/ reminder.status # owner.read.status \/ (drops /\ owner.overtaken))
      /\ reminder.status # "gone" /\ owner.pc # "idle"
  BY DEF OwnerCommit
<1>2. /\ owner.op \in {"pause", "resume", "edit"} /\ owner.read.status \in {"active", "paused"}
      /\ ~drops => owner.op = "resume"
  BY <1>1, OwnerTypes DEF IInv, OwnerAsRead, Drops
<1>3. /\ reminder'.planned_until = IF drops THEN NoTime ELSE reminder.planned_until
      /\ \A m \in Moments : occ'[m] = occ[m] \/ (drops /\ occ'[m] = "none")
      /\ \A m \in Moments : occ'[m] # occ[m] => occ[m] = "pending"
      /\ \A m \in Moments, u \in Users :
           del'[<<m, u>>] = IF drops /\ m \in owner.dropped THEN "none" ELSE del[<<m, u>>]
      /\ \A m \in Moments : drops /\ m \in owner.dropped => occ'[m] = "none"
      /\ \A m \in Moments : ~(drops /\ m \in owner.dropped) => occ'[m] = occ[m]
      /\ drops /\ ~raced' => NothingQueued'
      /\ drops => owner.pc = "reset"
  BY DropFacts
<1> HIDE DEF drops
<1>4. \A m \in Moments : occ'[m] # "none" => occ[m] # "none" /\ occ'[m] = occ[m]
  BY <1>3
<1>5. raced => raced'
  BY <1>1
<1>6. /\ IsFiniteSet(Happened') /\ Fired' \in Nat /\ Fired \in Nat /\ Fired' <= Fired
  BY <1>4, FewerCount DEF IInv, RowsAgree
<1>7. RowsAgree'
  <2>1. ASSUME NEW m \in Moments, NEW u \in Users
        PROVE  /\ del'[<<m, u>>] # "none" => occ'[m] # "none"
               /\ del'[<<m, u>>] = "sent" => occ'[m] = "sent"
    <3>1. CASE drops /\ m \in owner.dropped
      BY <1>3, <3>1
    <3>2. CASE ~(drops /\ m \in owner.dropped)
      <4>1. del'[<<m, u>>] = del[<<m, u>>] /\ occ'[m] = occ[m]
        BY <1>3, <3>2
      <4> QED
        BY <4>1 DEF IInv, RowsAgree
    <3> QED
      BY <3>1, <3>2
  <2>2. (~raced' /\ reminder'.planned_until = NoTime) => NothingQueued'
    BY <1>3, <1>4, <1>5 DEF IInv, RowsAgree, NothingQueued
  <2> QED
    BY <1>1, <1>6, <2>1, <2>2 DEF IInv, RowsAgree
<1>8. PlanAsRead'
  <2>1. planner.pc # "idle" =>
          /\ planner.read.status = "active"
          /\ planner.read.planned_until = NoTime => reminder'.planned_until = NoTime
    BY <1>3 DEF IInv, PlanAsRead
  <2>2. Inserting =>
          /\ \A m \in planner.inserted : occ'[m] = "none"
          /\ \A q \in planner.added : q[1] \in planner.inserted \/ occ'[q[1]] # "none"
    <3> SUFFICES ASSUME Inserting
                 PROVE  /\ \A m \in planner.inserted : occ'[m] = "none"
                        /\ \A q \in planner.added : q[1] \in planner.inserted \/ occ'[q[1]] # "none"
      OBVIOUS
    <3>1. /\ planner.inserted \subseteq Moments /\ \A q \in planner.added : q[1] \in Moments
          /\ Added = planner.added
      BY PlanTypes DEF IInv, Added
    <3>2. \A m \in planner.inserted : occ'[m] = "none"
      BY <1>4, <3>1 DEF IInv, PlanAsRead
    <3>3. ASSUME NEW q \in planner.added PROVE q[1] \in planner.inserted \/ occ'[q[1]] # "none"
      <4>1. q[1] \in planner.inserted \/ occ[q[1]] # "none"
        BY DEF IInv, PlanAsRead
      <4>2. drops => q[1] \notin owner.dropped
        BY <1>3, <3>1 DEF IInv, OwnerAsRead
      <4>3. occ'[q[1]] = occ[q[1]]
        BY <1>3, <3>1, <4>2
      <4> QED
        BY <4>1, <4>3
    <3> QED
      BY <3>2, <3>3
  <2> QED
    BY <1>1, <2>1, <2>2 DEF IInv, PlanAsRead, Counting, Inserting
<1>9. Undisturbed'
  <2> SUFFICES ASSUME Counting
               PROVE  /\ Fired' <= planner.fired
                      /\ \/ raced'
                         \/ /\ reminder'.planned_until = NoTime
                            /\ planner.read.planned_until # NoTime
                         \/ /\ Fired' = planner.fired
                            /\ Inserting => \A m \in planner.moments \ planner.inserted :
                                              occ'[m] # "none"
    BY <1>1 DEF Undisturbed, Counting, Inserting
  <2>1. /\ Fired <= planner.fired /\ planner.fired \in Nat /\ planner.moments \subseteq Moments
        /\ \/ raced
           \/ reminder.planned_until = NoTime /\ planner.read.planned_until # NoTime
           \/ /\ Fired = planner.fired
              /\ Inserting => \A m \in planner.moments \ planner.inserted : occ[m] # "none"
    BY <1>1, PlanTypes DEF IInv, Undisturbed
  <2>2. Fired' <= planner.fired
    BY <1>6, <2>1
  <2>3. CASE raced'
    BY <2>2, <2>3
  <2>4. CASE planner.read.planned_until # NoTime /\ ~raced'
    <3>1. ~drops => Fired' = Fired /\ \A m \in Moments : occ'[m] = occ[m]
      BY <1>3, SameCount
    <3> QED
      BY <1>3, <1>5, <2>1, <2>2, <2>4, <3>1
  <2>5. CASE planner.read.planned_until = NoTime /\ ~raced'
    <3>1. NothingQueued
      <4>1. planner.pc # "idle"
        BY DEF Counting
      <4> QED
        BY <1>5, <2>5, <4>1 DEF IInv, PlanAsRead, RowsAgree
    <3>2. \A m \in Moments : occ'[m] = occ[m]
      BY <1>3, <3>1 DEF NothingQueued
    <3>3. Fired' = Fired
      BY <3>2, SameCount
    <3> QED
      BY <1>5, <2>1, <2>2, <2>5, <3>2, <3>3
  <2> QED
    BY <2>3, <2>4, <2>5
<1>10. OwnerAsRead'
  BY <1>1 DEF OwnerAsRead, Idle, Dropping
<1>11. ~raced' => ~raced /\ reminder.status = owner.read.status
  BY <1>1 DEF IInv, TypeOK
<1>12. PausedIsUnplanned'
  BY <1>1, <1>2, <1>3, <1>11 DEF PausedIsUnplanned, NewStatus
<1>13. BudgetKept'
  BY <1>6, ReminderAssumption DEF IInv, BudgetKept, NoTime
<1>14. \A s \in Schedules : \A m \in MomentsOf[s] : m \in Moments
  BY DEF Moments
<1>15. reminder.schedule \in Schedules
  BY DEF IInv, TypeOK, Reminder
<1>16. HorizonCovered'
  <2> SUFFICES ASSUME ~raced', reminder'.planned_until # NoTime,
                      NEW m \in MomentsOf[reminder'.schedule], InBounds(m),
                      m <= reminder'.planned_until
               PROVE  occ'[m] # "none"
    BY DEF HorizonCovered, InBounds
  <2>1. ~drops /\ reminder'.schedule = reminder.schedule
        /\ reminder'.planned_until = reminder.planned_until
    BY <1>1, <1>2, <1>3
  <2>2. reminder.status = "active"
    BY <1>2, <1>11, <2>1 DEF IInv, PausedIsUnplanned
  <2> QED
    BY <1>3, <1>11, <1>14, <1>15, <2>1, <2>2 DEF IInv, HorizonCovered
<1>17. ArchivedIsComplete'
  BY <1>1, <1>2, <1>11 DEF ArchivedIsComplete, NewStatus
<1>18. QueueMatchesReminder'
  <2> SUFFICES ASSUME ~raced', NEW m \in Moments, occ'[m] = "pending"
               PROVE  reminder'.status # "paused" /\ m \in MomentsOf[reminder'.schedule]
    BY DEF QueueMatchesReminder
  <2>1. owner.op = "resume" /\ occ[m] = "pending" /\ reminder'.schedule = reminder.schedule
    BY <1>1, <1>2, <1>3, <1>4 DEF NothingQueued
  <2>2. reminder.status # "paused" /\ m \in MomentsOf[reminder.schedule]
    BY <1>11, <2>1 DEF IInv, QueueMatchesReminder
  <2> QED
    BY <1>1, <2>1, <2>2 DEF NewStatus
<1>19. RecipientsServed'
  <2> SUFFICES ASSUME ~raced', NEW u \in Accepted, NEW m \in Moments,
                      occ'[m] = "pending", accepted[u] < FireAt[m]
               PROVE  del'[<<m, u>>] # "none"
    BY <1>1 DEF RecipientsServed, Accepted
  <2>1. u \in Users
    BY ReminderAssumption DEF Accepted
  <2>2. ~drops /\ occ[m] = "pending"
    BY <1>3, <1>4 DEF NothingQueued
  <2> QED
    BY <1>3, <1>11, <2>1, <2>2 DEF IInv, RecipientsServed
<1> QED
  BY <1>7, <1>8, <1>9, <1>10, <1>12, <1>13, <1>16, <1>17, <1>18, <1>19 DEF IInv

-----------------------------------------------------------------------------
(* The planner's commit.                                                     *)

\* What it inserts was still missing, and each of its deliveries has an occurrence.
LEMMA CommitFacts ==
    ASSUME IInv, PlanCommit
    PROVE  /\ planner.pc = "written" /\ Counting /\ Inserting
           /\ planner.inserted \subseteq planner.moments /\ planner.moments \subseteq Moments
           /\ \A m \in Moments : occ[m] # "none" => occ'[m] = occ[m]
           /\ \A m \in Moments :
                occ'[m] # occ[m] => m \in planner.inserted /\ occ'[m] = "pending"
           /\ \A m \in planner.inserted : occ'[m] # "none"
           /\ \A q \in planner.added : occ'[q[1]] # "none"
<1>1. /\ planner.pc = "written" /\ Counting /\ Inserting
      /\ \A m \in Moments : occ'[m] = IF m \in planner.inserted THEN "pending" ELSE occ[m]
  BY DEF PlanCommit, Counting, Inserting
<1>2. /\ planner.moments \subseteq Moments /\ planner.inserted \subseteq planner.moments
      /\ \A m \in planner.inserted : occ[m] = "none"
      /\ \A q \in planner.added : q[1] \in planner.inserted \/ occ[q[1]] # "none"
      /\ \A q \in planner.added : q[1] \in Moments
  BY <1>1, PlanTypes DEF IInv, PlanAsRead
<1> QED
  BY <1>1, <1>2

LEMMA CommitCount ==
    ASSUME IInv, PlanCommit
    PROVE  /\ IsFiniteSet(Happened') /\ Fired \in Nat
           /\ Cardinality(planner.inserted) \in Nat
           /\ Cardinality(planner.inserted) <= Limit(planner.fired)
           /\ Fired' = Fired + Cardinality(planner.inserted)
<1> DEFINE new == planner.inserted
<1>1. /\ planner.read \in Reminder /\ planner.horizon_end \in Nat /\ planner.fired \in Nat
      /\ planner.moments = Expand(planner.read, planner.horizon_end, planner.fired)
      /\ planner.inserted \in SUBSET planner.moments
      /\ \A m \in planner.inserted : m \in Moments /\ occ[m] = "none"
  BY PlanTypes, CommitFacts DEF IInv, PlanAsRead
<1>2. /\ IsFiniteSet(planner.moments) /\ Cardinality(planner.moments) \in Nat
      /\ Cardinality(planner.moments) <= Limit(planner.fired)
  BY <1>1, ExpandFacts
<1>3. /\ IsFiniteSet(new) /\ Cardinality(new) \in Nat
      /\ Cardinality(new) <= Cardinality(planner.moments)
  BY <1>1, <1>2, FS_Subset, FS_CardinalityType
<1>4. Happened' = Happened \cup new
  BY <1>1 DEF PlanCommit, Happened
<1>5. Happened \cap new = {}
  BY <1>1 DEF Happened
<1>6. IsFiniteSet(Happened) /\ Cardinality(Happened) \in Nat
  BY FS_CardinalityType DEF IInv, RowsAgree
<1> HIDE DEF new
<1>7. /\ IsFiniteSet(Happened \cup new)
      /\ Cardinality(Happened \cup new)
           = Cardinality(Happened) + Cardinality(new) - Cardinality(Happened \cap new)
  BY <1>3, <1>6, FS_Union
<1>8. Cardinality(Happened \cap new) = 0
  BY <1>5, FS_EmptySet
<1>9. Cardinality(Happened') = Cardinality(Happened) + Cardinality(new)
  BY <1>3, <1>4, <1>6, <1>7, <1>8
<1>10. Limit(planner.fired) \in Nat /\ Cardinality(new) <= Limit(planner.fired)
  BY <1>1, <1>2, <1>3, LimitFacts
<1> QED
  BY <1>3, <1>4, <1>6, <1>7, <1>9, <1>10 DEF Fired, Happened, new

\* Without a race the reminder and the count are the ones that were read, and
\* every moment expanded has its occurrence.
LEMMA CommitAsRead ==
    ASSUME IInv, PlanCommit, ~raced'
    PROVE  /\ ~raced /\ reminder = planner.read /\ reminder.status = "active"
           /\ Accepted = planner.recipients /\ Fired = planner.fired
           /\ \A m \in planner.moments : occ'[m] # "none"
<1>1. ~raced /\ reminder = planner.read /\ Accepted = planner.recipients
  BY DEF PlanCommit, IInv, TypeOK
<1>2. planner.pc = "written" /\ reminder.status = "active"
  BY <1>1 DEF PlanCommit, IInv, PlanAsRead
<1>3. /\ Fired = planner.fired
      /\ \A m \in planner.moments \ planner.inserted : occ[m] # "none"
  BY <1>1, <1>2, CommitFacts DEF IInv, Undisturbed
<1>4. \A m \in planner.moments : occ'[m] # "none"
  BY <1>3, CommitFacts
<1> QED
  BY <1>1, <1>2, <1>3, <1>4

\* Without a race every moment up to the new planned_until has its occurrence,
\* unless there was no budget left to plan with.
LEMMA CommitCovers ==
    ASSUME IInv, PlanCommit, ~raced', Limit(planner.fired) # 0,
           NEW m \in MomentsOf[reminder.schedule], InBounds(m),
           m <= reminder'.planned_until
    PROVE  occ'[m] # "none"
<1>1. /\ planner.read \in Reminder /\ planner.horizon_end \in Nat /\ planner.fired \in Nat
      /\ planner.moments = Expand(planner.read, planner.horizon_end, planner.fired)
  BY PlanTypes, CommitFacts DEF IInv, PlanAsRead
<1>2. ~raced /\ reminder = planner.read /\ reminder.status = "active"
  BY CommitAsRead
<1>3. m \in Nat /\ m \in Moments
  BY <1>1, <1>2, ScheduleAssumption DEF Reminder, Moments
<1>4. /\ After(planner.read) \in Int
      /\ (StartsAt > planner.read.planned_until => After(planner.read) = StartsAt - 1)
      /\ (StartsAt <= planner.read.planned_until
            => After(planner.read) = planner.read.planned_until)
  BY <1>1, WindowFacts
<1>5. StartsAt <= m /\ (EndsAt = NoTime \/ m <= EndsAt)
  BY DEF InBounds
<1>6. CASE After(planner.read) < m
  <2>1. reminder'.planned_until
          = PlannedUntil(planner.read, planner.horizon_end, planner.fired, planner.moments)
    BY <1>2 DEF PlanCommit, IInv, TypeOK, Reminder
  <2>2. m \in planner.moments
    BY <1>1, <1>2, <1>5, <1>6, <2>1, NothingSkipped
  <2> QED
    BY <2>2, CommitAsRead
<1>7. CASE ~(After(planner.read) < m)
  <2>1. planner.read.planned_until \in Nat \cup {NoTime}
    BY <1>1 DEF Reminder
  <2>2. m <= planner.read.planned_until /\ planner.read.planned_until # NoTime
    BY <1>3, <1>4, <1>5, <1>7, <2>1, ReminderAssumption DEF NoTime
  <2>3. occ[m] # "none"
    BY <1>2, <2>2 DEF IInv, HorizonCovered
  <2> QED
    BY <1>3, <2>3, CommitFacts
<1> QED
  BY <1>6, <1>7

LEMMA CommitKeeps ==
    ASSUME IInv, TypeOK', PlanCommit
    PROVE  IInv'
<1> DEFINE until == PlannedUntil(planner.read, planner.horizon_end, planner.fired, planner.moments)
           fired == planner.fired + Cardinality(planner.inserted)
<1>1. /\ accepted' = accepted /\ planner' = Idle /\ reminder'.schedule = reminder.schedule
      /\ raced => raced'
      /\ owner' = IF owner.pc = "dropped" THEN [owner EXCEPT !.overtaken = TRUE] ELSE owner
      /\ reminder.status = "gone" => reminder' = reminder /\ raced'
      /\ reminder.status # "gone" =>
           /\ reminder'.planned_until = until
           /\ reminder'.status = IF Exhausted(planner.read, until, fired) THEN "archived"
                                 ELSE reminder.status
  <2>1. planner.read.status = "active"
    BY CommitFacts DEF IInv, PlanAsRead
  <2> QED
    BY <2>1 DEF PlanCommit, IInv, TypeOK, Reminder
<1>2. /\ planner.read \in Reminder /\ planner.horizon_end \in Nat /\ planner.fired \in Nat
      /\ planner.moments = Expand(planner.read, planner.horizon_end, planner.fired)
      /\ MaxOccurrences # NoTime => planner.fired <= MaxOccurrences
      /\ Fired <= planner.fired
  BY PlanTypes, CommitFacts DEF IInv, PlanAsRead, Undisturbed
<1>3. until \in Nat
  BY <1>2, PlannedUntilIsTime
<1>4. /\ \A m \in Moments : occ[m] # "none" => occ'[m] = occ[m]
      /\ \A m \in Moments : occ'[m] # occ[m] => m \in planner.inserted /\ occ'[m] = "pending"
      /\ \A q \in planner.added : occ'[q[1]] # "none"
      /\ \A m \in planner.inserted : occ'[m] # "none"
      /\ planner.inserted \subseteq planner.moments /\ planner.moments \subseteq Moments
  BY CommitFacts
<1>5. /\ IsFiniteSet(Happened') /\ Fired \in Nat
      /\ Cardinality(planner.inserted) \in Nat
      /\ Cardinality(planner.inserted) <= Limit(planner.fired)
      /\ Fired' = Fired + Cardinality(planner.inserted)
  BY CommitCount
<1>6. \A m \in Moments, u \in Users :
        del'[<<m, u>>] = IF <<m, u>> \in planner.added /\ del[<<m, u>>] = "none"
                         THEN "pending" ELSE del[<<m, u>>]
  BY DEF PlanCommit
<1>7. RowsAgree'
  <2>1. ASSUME NEW m \in Moments, NEW u \in Users
        PROVE  /\ del'[<<m, u>>] # "none" => occ'[m] # "none"
               /\ del'[<<m, u>>] = "sent" => occ'[m] = "sent"
    <3>1. CASE del'[<<m, u>>] = del[<<m, u>>]
      <4>1. del[<<m, u>>] # "none" => occ[m] # "none"
        BY DEF IInv, RowsAgree
      <4>2. del[<<m, u>>] = "sent" => occ[m] = "sent"
        BY DEF IInv, RowsAgree
      <4> QED
        BY <1>4, <3>1, <4>1, <4>2
    <3>2. CASE del'[<<m, u>>] # del[<<m, u>>]
      <4>1. <<m, u>> \in planner.added /\ del'[<<m, u>>] = "pending"
        BY <1>6, <3>2
      <4> QED
        BY <1>4, <4>1
    <3> QED
      BY <3>1, <3>2
  <2>2. ~raced' => reminder'.planned_until # NoTime
    BY <1>1, <1>3 DEF NoTime
  <2> QED
    BY <1>1, <1>5, <2>1, <2>2 DEF IInv, RowsAgree
<1>8. PlanAsRead' /\ Undisturbed'
  BY <1>1 DEF PlanAsRead, Undisturbed, Idle, Counting, Inserting
<1>9. OwnerAsRead'
  <2>1. owner.pc # "reset"
    BY CommitFacts DEF IInv, OwnerAsRead
  <2>2. reminder'.status # "gone" => reminder.status # "gone"
    BY <1>1
  <2>3. CASE owner.pc = "dropped"
    <3>1. /\ owner'.pc = "dropped" /\ owner'.op = owner.op /\ owner'.read = owner.read
          /\ owner'.dropped = owner.dropped /\ owner'.overtaken
          /\ owner.dropped \subseteq Moments
      BY <1>1, <2>3 DEF IInv, TypeOK, Edits, Idle
    <3>2. reminder.status # "gone" => \A m \in owner.dropped : occ'[m] = "pending"
      BY <1>4, <2>3, <3>1 DEF IInv, OwnerAsRead, Dropping
    <3> QED
      BY <2>2, <2>3, <3>1, <3>2 DEF IInv, OwnerAsRead, Dropping
  <2>4. CASE owner.pc # "dropped"
    BY <1>1, <2>1, <2>4 DEF IInv, OwnerAsRead, Dropping
  <2> QED
    BY <2>3, <2>4
<1>10. ~raced' => /\ ~raced /\ reminder = planner.read /\ reminder.status = "active"
                  /\ Accepted = planner.recipients /\ Fired = planner.fired
                  /\ reminder.status # "gone"
  BY CommitAsRead
<1>11. PausedIsUnplanned'
  BY <1>1, <1>10 DEF PausedIsUnplanned
<1>12. BudgetKept'
  <2> SUFFICES ASSUME MaxOccurrences # NoTime PROVE Fired' <= MaxOccurrences
    BY DEF BudgetKept
  <2>1. /\ planner.fired + Limit(planner.fired) <= MaxOccurrences
        /\ Limit(planner.fired) \in Nat /\ MaxOccurrences \in Nat
    BY <1>2, LimitFacts, ReminderAssumption
  <2> QED
    BY <1>2, <1>5, <2>1
\* The budget was already spent: the reminder is archived, and that is why.
<1>13. ASSUME ~raced', Limit(planner.fired) = 0
       PROVE  reminder'.status = "archived" /\ BudgetSpent'
  <2>1. MaxOccurrences # NoTime /\ planner.fired >= MaxOccurrences /\ MaxOccurrences \in Nat
    BY <1>2, <1>13, LimitFacts, ReminderAssumption
  <2>2. fired >= MaxOccurrences /\ Fired' = fired
    BY <1>2, <1>5, <1>10, <1>13, <2>1
  <2>3. Exhausted(planner.read, until, fired)
    BY <2>1, <2>2 DEF Exhausted
  <2> QED
    BY <1>1, <1>10, <1>13, <2>1, <2>2, <2>3 DEF BudgetSpent
<1>14. HorizonCovered'
  <2> SUFFICES ASSUME ~raced', reminder'.status = "active",
                      NEW m \in MomentsOf[reminder.schedule], InBounds(m),
                      m <= reminder'.planned_until
               PROVE  occ'[m] # "none"
    BY <1>1 DEF HorizonCovered, InBounds
  <2> QED
    BY <1>13, CommitCovers
<1>15. ArchivedIsComplete'
  <2> SUFFICES ASSUME ~raced', reminder'.status = "archived", ~BudgetSpent',
                      NEW m \in MomentsOf[reminder.schedule], InBounds(m)
               PROVE  occ'[m] # "none"
    BY <1>1 DEF ArchivedIsComplete, InBounds
  <2>1. Exhausted(planner.read, until, fired) /\ reminder'.planned_until = until
    BY <1>1, <1>10
  <2>2. ~(MaxOccurrences # NoTime /\ fired >= MaxOccurrences)
    BY <1>5, <1>10 DEF BudgetSpent
  <2>3. planner.read.schedule \in Schedules /\ planner.read = reminder
    BY <1>2, <1>10 DEF Reminder
  <2>4. m \in Nat
    BY <2>3, ScheduleAssumption
  <2>5. m <= until
    <3>1. CASE EndsAt # NoTime /\ until >= EndsAt
      BY <1>3, <2>4, <3>1, ReminderAssumption DEF InBounds
    <3>2. CASE /\ LastMoment[planner.read.schedule] # NoTime
               /\ until >= LastMoment[planner.read.schedule]
      <4>1. /\ LastMoment[planner.read.schedule] \in Nat
            /\ m \in 0 .. LastMoment[planner.read.schedule]
        BY <2>3, <3>2, ScheduleAssumption
      <4> QED
        BY <1>3, <2>4, <3>2, <4>1
    <3> QED
      BY <2>1, <2>2, <3>1, <3>2 DEF Exhausted
  <2> QED
    BY <1>13, <2>1, <2>5, CommitCovers
<1>16. QueueMatchesReminder'
  <2> SUFFICES ASSUME ~raced', NEW m \in Moments, occ'[m] = "pending"
               PROVE  reminder'.status # "paused" /\ m \in MomentsOf[reminder.schedule]
    BY <1>1 DEF QueueMatchesReminder
  <2>1. reminder'.status # "paused"
    BY <1>1, <1>10
  <2>2. CASE occ'[m] = occ[m]
    BY <1>10, <2>1, <2>2 DEF IInv, QueueMatchesReminder
  <2>3. CASE occ'[m] # occ[m]
    <3>1. m \in Expand(planner.read, planner.horizon_end, planner.fired)
      BY <1>2, <1>4, <2>3
    <3>2. Expand(planner.read, planner.horizon_end, planner.fired)
            \subseteq MomentsOf[planner.read.schedule]
      BY <1>2, ExpandFacts, WindowFacts
    <3> QED
      BY <1>10, <2>1, <3>1, <3>2
  <2> QED
    BY <2>2, <2>3
<1>17. RecipientsServed'
  <2> SUFFICES ASSUME ~raced', NEW u \in Accepted, NEW m \in Moments,
                      occ'[m] = "pending", accepted[u] < FireAt[m]
               PROVE  del'[<<m, u>>] # "none"
    BY <1>1 DEF RecipientsServed, Accepted
  <2>1. u \in Users
    BY ReminderAssumption DEF Accepted
  <2>2. CASE occ'[m] = occ[m]
    <3>1. del[<<m, u>>] # "none"
      BY <1>10, <2>2 DEF IInv, RecipientsServed
    <3> QED
      BY <1>6, <2>1, <3>1
  <2>3. CASE occ'[m] # occ[m]
    <3>1. m \in planner.inserted /\ u \in planner.recipients
      BY <1>4, <1>10, <2>3
    <3>2. <<m, u>> \in planner.added
      BY <3>1, CommitFacts DEF IInv, PlanAsRead
    <3> QED
      BY <1>6, <2>1, <3>2
  <2> QED
    BY <2>2, <2>3
<1> QED
  BY <1>7, <1>8, <1>9, <1>11, <1>12, <1>14, <1>15, <1>16, <1>17 DEF IInv

-----------------------------------------------------------------------------
(* The theorems.                                                             *)

LEMMA InvStep == IInv /\ [Next]_vars => IInv'
<1> SUFFICES ASSUME IInv, [Next]_vars PROVE IInv'
  OBVIOUS
<1>1. TypeOK'
  BY TypeStep
<1>2. CASE Tick
  BY <1>1, <1>2, QuietKeeps DEF Tick
<1>3. CASE Plan \/ PlanAbort
  <2>1. CASE PlanSelect
    BY <1>1, <2>1, SelectKeeps
  <2>2. CASE PlanCount
    BY <1>1, <2>2, CountKeeps
  <2>3. CASE PlanExpand
    BY <1>1, <2>3, ExpandKeeps
  <2>4. CASE PlanWrite
    BY <1>1, <2>4, WriteKeeps
  <2>5. CASE PlanCommit
    BY <1>1, <2>5, CommitKeeps
  <2>6. CASE PlanFail \/ PlanAbort
    BY <1>1, <2>6, QuietKeeps DEF PlanFail, PlanAbort
  <2> QED
    BY <1>3, <2>1, <2>2, <2>3, <2>4, <2>5, <2>6 DEF Plan
<1>4. CASE \E op \in {"pause", "resume", "edit"}, s \in Schedules : OwnerRead(op, s)
  BY <1>1, <1>4, OwnerReadKeeps
<1>5. CASE OwnerDrop \/ OwnerReset
  BY <1>1, <1>5, OwnerDropKeeps
<1>6. CASE OwnerCommit
  BY <1>1, <1>6, OwnerCommitKeeps
<1>7. CASE OwnerAbort
  BY <1>1, <1>7, QuietKeeps DEF OwnerAbort
<1>8. CASE Delete
  BY <1>1, <1>8, DeleteKeeps
<1>9. CASE \E u \in Users : Invite(u)
  BY <1>1, <1>9, InviteKeeps
<1>10. CASE \E u \in Users : AcceptRead(u)
  BY <1>1, <1>10, QuietKeeps DEF AcceptRead
<1>11. CASE \E u \in Users : Leave(u) \/ Decline(u)
  BY <1>1, <1>11, RemovalKeeps
<1>12. CASE AcceptCommit
  BY <1>1, <1>12, AcceptKeeps
<1>13. CASE AcceptAbort
  BY <1>1, <1>13, QuietKeeps DEF AcceptAbort
<1>14. CASE \E m \in Moments, u \in Users : Dispatch(m, u)
  BY <1>1, <1>14, DispatchKeeps
<1>15. CASE UNCHANGED vars
  BY <1>1, <1>15, QuietKeeps DEF vars, rowVars
<1> QED
  BY <1>2, <1>3, <1>4, <1>5, <1>6, <1>7, <1>8, <1>9, <1>10, <1>11, <1>12, <1>13,
     <1>14, <1>15 DEF Next

LEMMA InvAlways == Spec => []IInv
<1> QED
  BY InvInit, InvStep, PTL DEF Spec

\* Every row and every transaction's memory keeps its shape.
THEOREM PlannerTypeOK == Spec => []TypeOK
<1>1. IInv => TypeOK
  BY DEF IInv
<1> QED
  BY <1>1, InvAlways, PTL

\* materialize never gives a reminder more than max_occurrences occurrences,
\* however its transactions, the owner's and the recipients' overlap.
THEOREM PlannerBudgetKept == Spec => []BudgetKept
<1>1. IInv => BudgetKept
  BY DEF IInv
<1> QED
  BY <1>1, InvAlways, PTL

\* settle_plan never moves planned_until past a moment without an occurrence, for
\* any schedule, quiet hours, bounds, budget and cycle limit.
THEOREM PlannerHorizonCovered == Spec => []HorizonCovered
<1>1. IInv => HorizonCovered
  BY DEF IInv
<1> QED
  BY <1>1, InvAlways, PTL

\* _is_exhausted archives a reminder only when its budget is spent or nothing of
\* its schedule is left without an occurrence.
THEOREM PlannerArchivedIsComplete == Spec => []ArchivedIsComplete
<1>1. IInv => ArchivedIsComplete
  BY DEF IInv
<1> QED
  BY <1>1, InvAlways, PTL

\* After _drop_queued what is still queued belongs to the current schedule of a
\* reminder that is not paused.
THEOREM PlannerQueueMatchesReminder == Spec => []QueueMatchesReminder
<1>1. IInv => QueueMatchesReminder
  BY DEF IInv
<1> QED
  BY <1>1, InvAlways, PTL

\* Whichever of materialize and accept came first, everybody who accepted has a
\* delivery for every occurrence queued past their acceptance.
THEOREM PlannerRecipientsServed == Spec => []RecipientsServed
<1>1. IInv => RecipientsServed
  BY DEF IInv
<1> QED
  BY <1>1, InvAlways, PTL

=============================================================================
