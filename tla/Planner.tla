------------------------------- MODULE Planner -------------------------------
(***************************************************************************)
(* How one reminder's schedule becomes queue rows, and everything that can *)
(* change the schedule, the status or the recipients meanwhile:            *)
(*                                                                         *)
(*   planner       planner.materialize: select, expand, one commit         *)
(*   owner         pause, resume, replace the schedule, delete             *)
(*   watchers      accept, decline, leave                                  *)
(*   dispatcher    sends what is due (module DeliveryQueue has the detail) *)
(*                                                                         *)
(* The planner and the services read without a lock, so the rows read at   *)
(* the start of a transaction may be old when it commits.  What a          *)
(* transaction has written is locked until its commit, and visible to      *)
(* nobody else before it (READ COMMITTED).  Time is counted in the         *)
(* schedule's smallest step; the planner's BOUNDARY, which only makes      *)
(* starts_at inclusive, is one step.                                       *)
(***************************************************************************)
EXTENDS Contracts, Integers, FiniteSets

CONSTANTS
    Schedules,      \* the schedules the owner moves between
    MomentsOf,      \* the moments each of them fires at
    LastMoment,     \* last_moment_of: a once schedule's moment, else NoTime
    FirstSchedule,  \* the one the reminder is created with
    StartsAt, EndsAt, MaxOccurrences,  \* reminders columns, NoTime for NULL
    FireAt,         \* the owner's quiet hours applied to a moment
    Owner, Users,   \* the owner and everybody the reminder may be shared with
    Horizon,        \* PLANNER_HORIZON_HOURS
    CycleLimit,     \* MAX_OCCURRENCES_PER_CYCLE
    PlannerDies,    \* whether a planner cycle may die half way
    MaxTime         \* bound: the last instant of the model

\* SQL NULL in a timestamp or limit column.
NoTime == -1

Time == 0..MaxTime
Moments == UNION {MomentsOf[s] : s \in Schedules}

ASSUME ScheduleAssumption ==
    /\ FirstSchedule \in Schedules
    /\ \A s \in Schedules : MomentsOf[s] \subseteq Nat
    /\ \A s \in Schedules :
         LastMoment[s] # NoTime => /\ LastMoment[s] \in Nat
                                   /\ MomentsOf[s] \subseteq 0..LastMoment[s]
ASSUME ReminderAssumption ==
    /\ StartsAt \in Nat
    /\ EndsAt \in Nat \cup {NoTime}
    /\ MaxOccurrences \in (Nat \cup {NoTime}) \ {0}
    /\ \A m \in Moments : FireAt[m] \in Nat /\ FireAt[m] >= m
    /\ Owner \in Users
ASSUME PlannerAssumption == /\ Horizon \in Nat \ {0}
                            /\ CycleLimit \in Nat \ {0}
                            /\ PlannerDies \in BOOLEAN
                            /\ MaxTime \in Nat

VARIABLES
    now,
    reminder,    \* status, schedule, planned_until
    occ,         \* occurrences by scheduled_for: none, pending, sent
    del,         \* deliveries by <<scheduled_for, user>>: none, pending, sent
    accepted,    \* reminder_recipients: accepted_at, or why there is none
    planner,     \* memory of the planner's transaction
    owner,       \* memory of the owner's transaction
    joiner,      \* memory of a watcher's acceptance
    raced        \* history: a commit relied on rows changed since it read them

rowVars == <<reminder, occ, del, accepted>>
vars == <<now, reminder, occ, del, accepted, planner, owner, joiner, raced>>

Status == {"active", "paused", "archived", "gone"}
Invited == -2      \* a recipient row with accepted_at NULL
Absent == -1       \* no recipient row

Reminder == [status : Status, schedule : Schedules,
             planned_until : Nat \cup {NoTime}]

Idle == [pc |-> "idle"]

Plans == [pc : {"selected"}, read : Reminder, horizon_end : Nat]
         \cup
         [pc : {"counted"}, read : Reminder, horizon_end : Nat, fired : Nat,
          moments : SUBSET Moments]
         \cup
         [pc : {"expanded", "written"}, read : Reminder, horizon_end : Nat, fired : Nat,
          moments : SUBSET Moments, inserted : SUBSET Moments,
          recipients : SUBSET Users, added : SUBSET (Moments \X Users)]

\* overtaken is history: the planner committed after this transaction's DELETE.
Edits == [pc : {"read"}, op : {"pause", "resume", "edit"}, schedule : Schedules,
          read : Reminder]
         \cup
         [pc : {"dropped", "reset"}, op : {"pause", "resume", "edit"}, schedule : Schedules,
          read : Reminder, dropped : SUBSET Moments, overtaken : BOOLEAN]

Joins == [pc : {"read"}, u : Users \ {Owner}, at : Time,
          upcoming : SUBSET Moments]

TypeOK ==
    /\ now \in Time
    /\ reminder \in Reminder
    /\ occ \in [Moments -> {"none", "pending", "sent"}]
    /\ del \in [Moments \X Users -> {"none", "pending", "sent"}]
    /\ accepted \in [Users -> Time \cup {Invited, Absent}]
    /\ planner \in Plans \cup {Idle}
    /\ owner \in Edits \cup {Idle}
    /\ joiner \in Joins \cup {Idle}
    /\ raced \in BOOLEAN

Init ==
    /\ now \in Time
    /\ now <= StartsAt
    /\ reminder = [status |-> "active", schedule |-> FirstSchedule,
                   planned_until |-> NoTime]
    /\ occ = [m \in Moments |-> "none"]
    /\ del = [p \in Moments \X Users |-> "none"]
    /\ accepted = [u \in Users |-> IF u = Owner THEN now ELSE Absent]
    /\ planner = Idle /\ owner = Idle /\ joiner = Idle
    /\ raced = FALSE

Tick == /\ now < MaxTime
        /\ now' = now + 1
        /\ UNCHANGED <<rowVars, planner, owner, joiner, raced>>

-----------------------------------------------------------------------------
(* domain/planning.py and domain/recurrence.py, as functions of a reminder. *)

Larger(a, b) == IF a > b THEN a ELSE b
Smaller(a, b) == IF a < b THEN a ELSE b
Largest(S) == CHOOSE m \in S : \A k \in S : k <= m

\* Mutant: planned_until itself is taken as unplanned.
AfterLate(r) == Larger(StartsAt - 1, r.planned_until + 1)

\* plan_window: after is exclusive, until inclusive.
After(r) == Larger(StartsAt - 1, r.planned_until)
Until(horizon_end) == IF EndsAt = NoTime THEN horizon_end
                      ELSE Smaller(horizon_end, EndsAt)

\* Mutant: the budget is what the reminder started with.
LimitUnspent(fired) == IF MaxOccurrences = NoTime THEN CycleLimit
                       ELSE Smaller(CycleLimit, MaxOccurrences)

Limit(fired) == IF MaxOccurrences = NoTime THEN CycleLimit
                ELSE Smaller(CycleLimit, Larger(MaxOccurrences - fired, 0))

\* next_occurrences: the first moments of the window.
Expand(r, horizon_end, fired) ==
    LET window == {m \in MomentsOf[r.schedule] :
                     After(r) < m /\ m <= Until(horizon_end)}
    IN  {m \in window : Cardinality({k \in window : k < m}) < Limit(fired)}

\* Mutant: a window cut short counts as planned to its end.
PlannedToTheEnd(r, horizon_end, fired, moments) ==
    Larger(After(r), Until(horizon_end))

\* settle_plan: a window cut short resumes from its last moment.
PlannedUntil(r, horizon_end, fired, moments) ==
    IF moments # {} /\ Cardinality(moments) >= Limit(fired)
    THEN Largest(moments)
    ELSE Larger(After(r), Until(horizon_end))

\* Mutant: the horizon, not what was planned, is held against ends_at.
ExhaustedByHorizon(r, planned_until, fired) ==
    \/ MaxOccurrences # NoTime /\ fired >= MaxOccurrences
    \/ EndsAt # NoTime /\ now + Horizon >= EndsAt
    \/ /\ LastMoment[r.schedule] # NoTime
       /\ planned_until >= LastMoment[r.schedule]

\* _is_exhausted, with the count after the write.
Exhausted(r, planned_until, fired) ==
    \/ MaxOccurrences # NoTime /\ fired >= MaxOccurrences
    \/ EndsAt # NoTime /\ planned_until >= EndsAt
    \/ /\ LastMoment[r.schedule] # NoTime
       /\ planned_until >= LastMoment[r.schedule]

\* count_for_reminder
Fired == Cardinality({m \in Moments : occ[m] # "none"})

\* list_accepted_user_ids: the owner always accepts.
Accepted == {u \in Users : accepted[u] \in Time} \cup {Owner}

-----------------------------------------------------------------------------
(* Row locks held between a statement and its commit. *)

\* The UPDATE of the reminder, by set_planning_state or by reset_planning.
RowLocked == planner.pc = "written" \/ owner.pc = "reset"

\* Rows the planner has inserted and not committed, and the deliveries among them.
Inserting == planner.pc \in {"expanded", "written"}
Fresh == IF Inserting THEN planner.inserted ELSE {}
Added == IF Inserting THEN planner.added ELSE {}

\* Occurrences the owner's transaction has deleted and not committed.
Held == IF owner.pc \in {"dropped", "reset"} THEN owner.dropped ELSE {}

-----------------------------------------------------------------------------
(* planner.materialize: one transaction *)

\* due_for_planning: the reminder as the batch query returns it.
PlanSelect ==
    LET horizon_end == now + Horizon IN
    /\ planner.pc = "idle"
    /\ reminder.status = "active"
    /\ StartsAt <= horizon_end
    /\ reminder.planned_until = NoTime \/ reminder.planned_until < horizon_end
    /\ planner' = [pc |-> "selected", read |-> reminder, horizon_end |-> horizon_end]
    /\ UNCHANGED <<now, rowVars, owner, joiner, raced>>

\* Its turn in the batch: what has been materialised is counted, and the window
\* expanded.
PlanCount ==
    /\ planner.pc = "selected"
    /\ planner' = [pc |-> "counted", read |-> planner.read,
                   horizon_end |-> planner.horizon_end,
                   fired |-> Fired,
                   moments |-> Expand(planner.read, planner.horizon_end, Fired)]
    /\ UNCHANGED <<now, rowVars, owner, joiner, raced>>

\* insert_missing of the occurrences, and of a delivery to each recipient who
\* lacks one, for occurrences that already existed as well.  A key that is being
\* deleted makes the insert wait for the end of that transaction.
PlanExpand ==
    LET p == planner IN
    /\ p.pc = "counted"
    /\ p.moments # {} => reminder.status # "gone"
    /\ p.moments \cap Held = {}
    /\ planner' = [pc |-> "expanded", read |-> p.read, horizon_end |-> p.horizon_end,
                   fired |-> p.fired, moments |-> p.moments,
                   inserted |-> {m \in p.moments : occ[m] = "none"},
                   recipients |-> Accepted,
                   added |-> {q \in p.moments \X Accepted : del[q] = "none"}]
    /\ UNCHANGED <<now, rowVars, owner, joiner, raced>>

\* The reminder was deleted under the batch: the occurrences fail their foreign
\* key, nothing of the batch is written, and the next cycle starts over.
PlanFail ==
    /\ planner.pc = "counted"
    /\ planner.moments # {} /\ reminder.status = "gone"
    /\ planner' = Idle
    /\ UNCHANGED <<now, rowVars, owner, joiner, raced>>

\* set_planning_state and set_status take the reminder's row lock.
PlanWrite ==
    /\ planner.pc = "expanded"
    /\ owner.pc # "reset"
    /\ planner' = [planner EXCEPT !.pc = "written"]
    /\ UNCHANGED <<now, rowVars, owner, joiner, raced>>

\* The commit makes it all visible.
PlanCommit ==
    LET p == planner
        fired == p.fired + Cardinality(p.inserted)
        until == PlannedUntil(p.read, p.horizon_end, p.fired, p.moments)
    IN  /\ p.pc = "written"
        /\ occ' = [m \in Moments |-> IF m \in p.inserted THEN "pending" ELSE occ[m]]
        /\ del' = [q \in Moments \X Users |->
                     IF q \in p.added /\ del[q] = "none" THEN "pending" ELSE del[q]]
        /\ reminder' = IF reminder.status = "gone" THEN reminder
                       ELSE [reminder EXCEPT
                         !.planned_until = until,
                         !.status = IF Exhausted(p.read, until, fired) THEN "archived" ELSE @]
        /\ raced' = (raced \/ reminder # p.read \/ Accepted # p.recipients)
        /\ owner' = IF owner.pc = "dropped" THEN [owner EXCEPT !.overtaken = TRUE] ELSE owner
        /\ planner' = Idle
        /\ UNCHANGED <<now, accepted, joiner>>

\* The process dies, or the cycle raises.
PlanAbort ==
    /\ PlannerDies
    /\ planner.pc # "idle"
    /\ planner' = Idle
    /\ UNCHANGED <<now, rowVars, owner, joiner, raced>>

-----------------------------------------------------------------------------
(* RemindersService: the owner's transactions *)

\* get_editable, and for a new schedule the check that something is ahead of
\* it.  An archived reminder refuses every edit.
OwnerRead(op, s) ==
    /\ owner.pc = "idle"
    /\ reminder.status \in {"active", "paused"}
    /\ op = "edit" => \E m \in MomentsOf[s] : m >= Larger(StartsAt, now)
    /\ op # "edit" => s = reminder.schedule
    /\ owner' = [pc |-> "read", op |-> op, schedule |-> s, read |-> reminder]
    /\ UNCHANGED <<now, rowVars, planner, joiner, raced>>

\* Mutant: an edit keeps what is queued.
DropsOnPause(op) == op = "pause"

\* _drop_queued runs when the reminder leaves active and when its schedule
\* is replaced.
Drops(op) == op \in {"pause", "edit"}

\* delete_unsent: occurrences nothing has gone out for.
Unsent == {m \in Moments : occ[m] = "pending"
                           /\ \A u \in Users : del[<<m, u>>] # "sent"}

NewStatus(op, read, current) ==
    IF op = "edit" THEN current
    ELSE LET wanted == IF op = "pause" THEN "paused" ELSE "active"
         IN  IF wanted = read THEN current ELSE wanted

\* delete_unsent, as of the statement's start: occurrences the planner has
\* inserted and not committed are not among them.
OwnerDrop ==
    /\ owner.pc = "read" /\ Drops(owner.op)
    /\ owner' = [pc |-> "dropped", op |-> owner.op, schedule |-> owner.schedule,
                 read |-> owner.read, dropped |-> Unsent, overtaken |-> FALSE]
    /\ UNCHANGED <<now, rowVars, planner, joiner, raced>>

\* The DELETE waits for deliveries being added to what it deletes, and
\* reset_planning for the reminder's row lock.
OwnerReset ==
    /\ owner.pc = "dropped"
    /\ planner.pc # "written"
    /\ \A q \in Added : q[1] \notin owner.dropped
    /\ owner' = [owner EXCEPT !.pc = "reset"]
    /\ UNCHANGED <<now, rowVars, planner, joiner, raced>>

\* The commit, and the flush before it of what was assigned to the row.
OwnerCommit ==
    LET o == owner
        dropped == IF Drops(o.op) THEN o.dropped ELSE {}
    IN  /\ o.pc = "reset" \/ (o.pc = "read" /\ ~Drops(o.op))
        /\ planner.pc # "written"
        /\ reminder.status # "gone"
        /\ occ' = [m \in Moments |-> IF m \in dropped THEN "none" ELSE occ[m]]
        /\ del' = [q \in Moments \X Users |->
                     IF q[1] \in dropped THEN "none" ELSE del[q]]
        /\ reminder' = [status |-> NewStatus(o.op, o.read.status, reminder.status),
                        schedule |-> IF o.op = "edit" THEN o.schedule
                                     ELSE reminder.schedule,
                        planned_until |-> IF Drops(o.op) THEN NoTime
                                          ELSE reminder.planned_until]
        /\ raced' = \/ raced \/ reminder.status # o.read.status
                    \/ Drops(o.op) /\ o.overtaken
        /\ owner' = Idle
        /\ UNCHANGED <<now, accepted, planner, joiner>>

\* The reminder is gone, or the handler dies: nothing is written.
OwnerAbort ==
    /\ owner.pc # "idle"
    /\ owner' = Idle
    /\ UNCHANGED <<now, rowVars, planner, joiner, raced>>

\* delete: recipients, occurrences and deliveries cascade.
Delete ==
    /\ reminder.status # "gone"
    /\ joiner.pc = "idle"
    /\ ~RowLocked /\ Fresh = {} /\ Added = {}
    /\ reminder' = [reminder EXCEPT !.status = "gone"]
    /\ occ' = [m \in Moments |-> "none"]
    /\ del' = [q \in Moments \X Users |-> "none"]
    /\ accepted' = [u \in Users |-> Absent]
    /\ UNCHANGED <<now, planner, owner, joiner, raced>>

-----------------------------------------------------------------------------
(* SharingService: what recipients do to the queue *)

\* open_invite locks the reminder and leaves a pending row; the links and the
\* limit are in Sharing, and here any user without a row may be invited.
Invite(u) ==
    /\ u # Owner
    /\ reminder.status # "gone"
    /\ ~RowLocked /\ Fresh = {}
    /\ accepted[u] = Absent
    /\ accepted' = [accepted EXCEPT ![u] = Invited]
    /\ UNCHANGED <<now, reminder, occ, del, planner, owner, joiner, raced>>

\* Mutants of Upcoming: the scheduled moment compared, or returned, in place of
\* the one quiet hours gave.
UpcomingScheduled(at) == {m \in Moments : occ[m] = "pending" /\ m > at}

UpcomingFireAt(at) == {FireAt[m] : m \in {k \in Moments : occ[k] = "pending" /\ FireAt[k] > at}}

\* list_upcoming
Upcoming(at) == {m \in Moments : occ[m] = "pending" /\ FireAt[m] > at}

\* accept: mark the pending row and read what is queued ...
AcceptRead(u) ==
    /\ joiner.pc = "idle"
    /\ accepted[u] = Invited
    /\ joiner' = [pc |-> "read", u |-> u, at |-> now, upcoming |-> Upcoming(now)]
    /\ UNCHANGED <<now, rowVars, planner, owner, raced>>

\* ... then insert the missing deliveries and commit.
AcceptCommit ==
    LET j == joiner IN
    /\ j.pc = "read"
    /\ \A m \in j.upcoming : occ[m] # "none" /\ m \notin Held
    /\ accepted' = [accepted EXCEPT ![j.u] = j.at]
    /\ del' = [q \in Moments \X Users |->
                 IF q[1] \in j.upcoming /\ q[2] = j.u /\ del[q] = "none"
                 THEN "pending" ELSE del[q]]
    /\ raced' = (raced \/ Upcoming(j.at) # j.upcoming)
    /\ joiner' = Idle
    /\ UNCHANGED <<now, reminder, occ, planner, owner>>

\* An occurrence was deleted before its delivery was inserted, or the handler
\* dies: nothing is written.
AcceptAbort ==
    /\ joiner.pc = "read"
    /\ joiner' = Idle
    /\ UNCHANGED <<now, rowVars, planner, owner, raced>>

\* The recipient row is locked while an acceptance is under way.
HasRow(u) == u # Owner /\ accepted[u] # Absent /\ (joiner.pc = "read" => joiner.u # u)

\* leave: unsent deliveries first, then the row.
Leave(u) ==
    /\ HasRow(u)
    /\ del' = [q \in Moments \X Users |->
                 IF q[2] = u /\ del[q] = "pending" THEN "none" ELSE del[q]]
    /\ accepted' = [accepted EXCEPT ![u] = Absent]
    /\ UNCHANGED <<now, reminder, occ, planner, owner, joiner, raced>>

\* decline: the row alone, whether or not it was accepted since the offer.
Decline(u) ==
    /\ HasRow(u)
    /\ accepted' = [accepted EXCEPT ![u] = Absent]
    /\ UNCHANGED <<now, reminder, occ, del, planner, owner, joiner, raced>>

-----------------------------------------------------------------------------
\* The dispatcher, seen from here: what is due goes out.  Its claim skips rows
\* that somebody has locked.
Dispatch(m, u) ==
    /\ del[<<m, u>>] = "pending"
    /\ FireAt[m] <= now /\ m \notin Held
    /\ del' = [del EXCEPT ![<<m, u>>] = "sent"]
    /\ occ' = [occ EXCEPT ![m] = "sent"]
    /\ UNCHANGED <<now, reminder, accepted, planner, owner, joiner, raced>>

Plan == PlanSelect \/ PlanCount \/ PlanExpand \/ PlanWrite \/ PlanCommit \/ PlanFail

Next ==
    \/ Tick
    \/ Plan \/ PlanAbort
    \/ \E op \in {"pause", "resume", "edit"}, s \in Schedules : OwnerRead(op, s)
    \/ OwnerDrop \/ OwnerReset \/ OwnerCommit \/ OwnerAbort \/ Delete
    \/ \E u \in Users : Invite(u) \/ AcceptRead(u) \/ Leave(u) \/ Decline(u)
    \/ AcceptCommit \/ AcceptAbort
    \/ \E m \in Moments, u \in Users : Dispatch(m, u)

Spec == Init /\ [][Next]_vars

\* run_loop repeats the cycle; a cycle that died is followed by another.
FairSpec == Spec /\ WF_vars(Tick) /\ WF_vars(Plan)

-----------------------------------------------------------------------------
(* What holds unless a transaction committed on rows changed under it, or an *)
(* owner's after the planner committed past its DELETE.                      *)

InBounds(m) == StartsAt <= m /\ (EndsAt = NoTime \/ m <= EndsAt)

BudgetSpent == MaxOccurrences # NoTime /\ Fired >= MaxOccurrences

\* Nothing inside the planned horizon is missing: planned_until never moves
\* past a moment without an occurrence (domain/planning.py settle_plan:
\* "or everything past it is dropped in silence").
HorizonCovered ==
    (~raced /\ reminder.status = "active" /\ reminder.planned_until # NoTime)
        => \A m \in MomentsOf[reminder.schedule] :
             (InBounds(m) /\ m <= reminder.planned_until) => occ[m] # "none"

\* A reminder is archived only when its schedule has nothing left to give
\* (services/planning.py materialize, tech.md 7.1).
ArchivedIsComplete ==
    (~raced /\ reminder.status = "archived")
        => \/ BudgetSpent
           \/ \A m \in MomentsOf[reminder.schedule] : InBounds(m) => occ[m] # "none"

\* What is still queued belongs to the current schedule, and a paused
\* reminder has nothing queued (services/reminders.py _drop_queued), though the
\* planner may hold rows of it in an open transaction when the owner reads,
\* deletes and commits.
QueueMatchesReminder ==
    ~raced => \A m \in Moments :
        occ[m] = "pending" => /\ reminder.status # "paused"
                              /\ m \in MomentsOf[reminder.schedule]

\* Everybody who accepted has a delivery for every queued occurrence still
\* ahead of their acceptance, whichever of planner and acceptance came first
\* (tech.md 22.6).
RecipientsServed ==
    ~raced => \A u \in Accepted, m \in Moments :
        (occ[m] = "pending" /\ accepted[u] < FireAt[m]) => del[<<m, u>>] # "none"

\* The planner never materialises more than max_occurrences rows, across
\* pauses and edits that give some back (domain/planning.py plan_window).
BudgetKept == MaxOccurrences # NoTime => Fired <= MaxOccurrences

\* Every moment of an active schedule gets its occurrence, at the latest when
\* the clock reaches it, unless the owner keeps changing the reminder: every
\* edit and pause makes the planner start over from starts_at.
EveryMomentPlanned ==
    \A s \in Schedules : \A m \in MomentsOf[s] \cap Time :
        (reminder.status = "active" /\ reminder.schedule = s /\ InBounds(m))
            ~> \/ occ[m] # "none"
               \/ BudgetSpent
               \/ reminder.status # "active" \/ reminder.schedule # s
               \/ owner.pc # "idle"
               \/ raced
=============================================================================
