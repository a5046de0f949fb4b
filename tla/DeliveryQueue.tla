---------------------------- MODULE DeliveryQueue ----------------------------
(***************************************************************************)
(* The queue of one reminder: its occurrences, their deliveries, and every *)
(* actor that writes them.                                                 *)
(*                                                                         *)
(*   dispatchers   claim a batch, load its context, send, write back       *)
(*   taps          a recipient's Done / Snooze / Skip, under a row lock    *)
(*   reaper        expire, repeat, release leases: one transaction         *)
(*   the owner     pause and delete; a watcher: leave; a user: come back   *)
(*                                                                         *)
(* The actors are different tasks and processes over one PostgreSQL at     *)
(* READ COMMITTED.  A step of an actor is what it does between two points  *)
(* where another actor's commit can fall: a read that is used later and    *)
(* the write that uses it are different steps.  A transaction's writes     *)
(* take effect in the step that commits it.                                *)
(*                                                                         *)
(* Rows come from the planner and from a watcher's accept (modules Planner *)
(* and Sharing).  Here one planner commit has left the occurrences and the *)
(* first deliveries; a delivery of a watcher who joins later may be added  *)
(* to any occurrence that exists, also to one that is closed.              *)
(***************************************************************************)
EXTENDS RetryPolicy, FiniteSets

CONSTANTS
    Occs,          \* occurrences of the reminder
    Deliveries,    \* delivery ids, integers: the claim breaks ties by id
    Late,          \* the ids given out after the first planner commit
    Users,         \* its recipients
    Watchers,      \* the recipients who may leave
    OccOf, UserOf, \* deliveries.occurrence_id, deliveries.user_id
    FireAt,        \* occurrences.fire_at
    ExpiresAt,     \* occurrences.expires_at
    QuietShift,    \* QuietHours.shift of each recipient
    Dispatchers,   \* concurrent runs of dispatcher.deliver
    Taps,          \* concurrent runs of ReactionsService.react
    Errors,        \* the failures Telegram answers a send with
    Kinds,         \* the buttons recipients press
    Crashes,       \* the processes that may die half way
    LockFor,       \* DISPATCH_LOCK_SECONDS
    BatchSize,     \* DISPATCH_BATCH_SIZE
    SnoozeFor,     \* reminders.snooze_minutes
    RepeatAfter,   \* reminders.repeat_after_minutes, NoTime for none
    MaxRepeats,    \* reminders.max_repeats
    MaxTime        \* bound: the last instant of the model

Time == 0..MaxTime

ActionKind == {"done", "snooze", "skip"}

ASSUME DeliveriesAssumption == Deliveries \subseteq Nat /\ IsFiniteSet(Deliveries)
ASSUME OwnersAssumption == /\ OccOf \in [Deliveries -> Occs]
                           /\ UserOf \in [Deliveries -> Users]
                           /\ Watchers \subseteq Users
                           /\ Late \subseteq Deliveries
ASSUME EnvironmentAssumption == /\ Errors \subseteq ErrorClass
                                /\ Kinds \subseteq ActionKind
                                /\ Crashes \subseteq {"dispatcher", "bot", "reaper"}
ASSUME ClockAssumption == /\ MaxTime \in Nat
                          /\ FireAt \in [Occs -> Time]
                          /\ ExpiresAt \in [Occs -> Nat]
ASSUME QuietAssumption ==
    /\ QuietShift \in [Users -> [0..(MaxTime + SnoozeFor) -> Nat]]
    /\ \A u \in Users : \A t \in 0..(MaxTime + SnoozeFor) : QuietShift[u][t] >= t
ASSUME TuningAssumption == /\ LockFor \in Nat \ {0}
                           /\ BatchSize \in Nat \ {0}
                           /\ SnoozeFor \in Nat \ {0}
                           /\ RepeatAfter \in Nat \cup {NoTime}
                           /\ MaxRepeats \in Nat

VARIABLES
    now,         \* the clock every process reads
    occ,         \* occurrences: status and repeats_sent
    row,         \* deliveries, Gone once deleted
    answers,     \* done and skip rows in delivery_actions, per delivery
    silent,      \* deliveries with an auto_expire row in delivery_actions
    blocked,     \* users.is_blocked
    unused,      \* delivery ids not given out yet
    shown,       \* deliveries whose message, with its buttons, reached a screen
    worker,      \* memory of each dispatcher run
    tap,         \* memory of each reaction
    reaper,      \* memory of the sweep
    staleRows,   \* history: rows written over a change the writer had not read
    missed       \* history: rows inserted too late to be counted (Counted)

dbVars == <<occ, row, answers, silent, blocked, unused>>
historyVars == <<staleRows, missed>>
vars == <<now, occ, row, answers, silent, blocked, unused, shown, worker, tap,
          reaper, staleRows, missed>>

-----------------------------------------------------------------------------
(* Types *)

Gone == [status |-> "gone"]

\* next_attempt_at is kept only while the row is queued and sent_at only while
\* it is sent: no statement reads them otherwise, and each is written again
\* on the way back.  snoozed_until is next_attempt_at while the row is snoozed.
Row == [status : DeliveryStatus, attempts : Nat,
        next_attempt_at : Nat \cup {NoTime},
        locked_until : Nat \cup {NoTime}, sent_at : Nat \cup {NoTime},
        reacted : BOOLEAN]

OccRow == [status : OccurrenceStatus \cup {"gone"}, repeats_sent : Nat]

\* The copy of a delivery a dispatcher holds after its claim.
Claimed == [id : Deliveries, status : DeliveryStatus, attempts : Nat \ {0},
            next_attempt_at : Nat]

Verdict == [status : DeliveryStatus, attempts : Nat,
            next_attempt_at : Nat \cup {NoTime}, blocks_user : BOOLEAN]

NoVerdict == [status |-> "none"]

Worker == [pc : {"idle", "claimed", "loaded", "sent"},
           batch : SUBSET Claimed,
           known : SUBSET Deliveries,
           seen : [Occs -> OccurrenceStatus \cup {"gone"}],
           seen_blocked : SUBSET Users,
           verdict : Verdict \cup {NoVerdict}]

IdleWorker == [pc |-> "idle", batch |-> {}, known |-> {},
               seen |-> [o \in Occs |-> "gone"], seen_blocked |-> {},
               verdict |-> NoVerdict]

IdleTap == [pc |-> "idle"]

Tap == [pc : {"asked"}, d : Deliveries, kind : ActionKind, at : Time]
       \cup
       [pc : {"locked"}, d : Deliveries, kind : ActionKind, at : Time,
        last : BOOLEAN, found : OccurrenceStatus \cup {"gone"}]
       \cup {IdleTap}

IdleReaper == [pc |-> "idle"]

Reaper == [pc : {"ready"}, at : Time,
           overdue : SUBSET (Occs \X OccurrenceStatus),
           silenced : SUBSET Deliveries, again : SUBSET Deliveries]
          \cup {IdleReaper}

TypeOK ==
    /\ now \in Time
    /\ occ \in [Occs -> OccRow]
    /\ row \in [Deliveries -> Row \cup {Gone}]
    /\ answers \in [Deliveries -> Nat]
    /\ silent \subseteq Deliveries
    /\ blocked \subseteq Users
    /\ unused \subseteq Late
    /\ shown \subseteq Deliveries
    /\ worker \in [Dispatchers -> Worker]
    /\ tap \in [Taps -> Tap]
    /\ reaper \in Reaper
    /\ staleRows \subseteq Deliveries
    /\ missed \subseteq Deliveries

-----------------------------------------------------------------------------
(* Initial state: the rows one planner commit leaves. *)

FreshRow(d) ==
    [status |-> "pending", attempts |-> 0,
     next_attempt_at |-> FireAt[OccOf[d]], locked_until |-> NoTime,
     sent_at |-> NoTime, reacted |-> FALSE]

Init ==
    /\ now = 0
    /\ occ = [o \in Occs |-> [status |-> "pending", repeats_sent |-> 0]]
    /\ row = [d \in Deliveries |-> IF d \in Late THEN Gone ELSE FreshRow(d)]
    /\ answers = [d \in Deliveries |-> 0]
    /\ silent = {} /\ blocked = {} /\ unused = Late /\ shown = {}
    /\ worker = [w \in Dispatchers |-> IdleWorker]
    /\ tap = [t \in Taps |-> IdleTap]
    /\ reaper = IdleReaper
    /\ staleRows = {} /\ missed = {}

Tick ==
    /\ now < MaxTime
    /\ now' = now + 1
    /\ UNCHANGED <<dbVars, shown, worker, tap, reaper, historyVars>>

-----------------------------------------------------------------------------
(* Helpers *)

Of(o) == {d \in Deliveries : OccOf[d] = o}

\* SELECT ... FOR UPDATE, held by a reaction until it commits.  Any other
\* write of the row waits for it; the claim skips the row instead.
RowLocked(d) == \E t \in Taps : tap[t].pc = "locked" /\ tap[t].d = d

\* Queue order: ORDER BY next_attempt_at, id.
Earlier(a, i, b, j) == a < b \/ (a = b /\ i < j)

SetOccStatus(o, status) == [occ[o] EXCEPT !.status =
                              IF @ = "gone" THEN @ ELSE status]

-----------------------------------------------------------------------------
(* dispatcher.deliver *)

\* Mutants of Due: the status, the moment or the snoozed rows forgotten.
DueAnyStatus(d) ==
    /\ row[d] # Gone
    /\ row[d].next_attempt_at <= now
    /\ row[d].locked_until = NoTime \/ row[d].locked_until < now

DueEarly(d) ==
    /\ row[d].status \in Queued
    /\ row[d].locked_until = NoTime \/ row[d].locked_until < now

DuePending(d) ==
    /\ row[d].status = "pending"
    /\ row[d].next_attempt_at <= now
    /\ row[d].locked_until = NoTime \/ row[d].locked_until < now

Due(d) ==
    /\ row[d].status \in Queued
    /\ row[d].next_attempt_at <= now
    /\ row[d].locked_until = NoTime \/ row[d].locked_until < now

Claimable == {d \in Deliveries : Due(d) /\ ~RowLocked(d)}

\* Mutant: the batch is handed over with the counter it had before the claim.
ClaimedCopyUncharged(d) ==
    [id |-> d, status |-> row[d].status, attempts |-> row[d].attempts,
     next_attempt_at |-> row[d].next_attempt_at]

ClaimedCopy(d) ==
    [id |-> d, status |-> row[d].status, attempts |-> row[d].attempts + 1,
     next_attempt_at |-> row[d].next_attempt_at]

\* claim_due and its commit: lease the oldest due rows and charge an attempt.
ClaimDue(w) ==
    /\ worker[w].pc = "idle"
    /\ \E S \in SUBSET Claimable :
        /\ S # {}
        /\ Cardinality(S) <= BatchSize
        /\ S = Claimable \/ Cardinality(S) = BatchSize
        /\ \A d \in S, e \in Claimable \ S :
             Earlier(row[d].next_attempt_at, d, row[e].next_attempt_at, e)
        /\ row' = [d \in Deliveries |->
                     IF d \in S
                     THEN [row[d] EXCEPT !.attempts = @ + 1,
                                         !.locked_until = now + LockFor]
                     ELSE row[d]]
        /\ worker' = [worker EXCEPT ![w] =
                        [IdleWorker EXCEPT !.pc = "claimed",
                                           !.batch = {ClaimedCopy(d) : d \in S}]]
    /\ UNCHANGED <<now, occ, answers, silent, blocked, unused, shown, tap, reaper,
                  historyVars>>

BatchIds(w) == {m.id : m \in worker[w].batch}

\* load_send_context: one query for the batch, kept in memory for all of it.
LoadContext(w) ==
    /\ worker[w].pc = "claimed"
    /\ worker' = [worker EXCEPT ![w] =
                    [@ EXCEPT !.pc = "loaded",
                              !.known = {d \in BatchIds(w) : row[d] # Gone},
                              !.seen = [o \in Occs |-> occ[o].status],
                              !.seen_blocked = blocked]]
    /\ UNCHANGED <<now, dbVars, shown, tap, reaper, historyVars>>

\* The delivery the loop over the batch has reached.
Current(w, m) ==
    /\ m \in worker[w].batch
    /\ \A n \in worker[w].batch \ {m} :
         Earlier(m.next_attempt_at, m.id, n.next_attempt_at, n.id)

\* check_deliverable on the loaded context, never on the row as it is now.
AbortReason(w, m) ==
    IF m.id \notin worker[w].known THEN "context_missing"
    ELSE IF worker[w].seen[OccOf[m.id]] \in TerminalOccurrence
    THEN "occurrence_closed"
    ELSE IF UserOf[m.id] \in worker[w].seen_blocked THEN "user_blocked"
    ELSE "none"

\* The row is no longer what the dispatcher claimed.
Stale(m) ==
    /\ row[m.id] # Gone
    /\ \/ row[m.id].status # m.status
       \/ row[m.id].attempts # m.attempts
       \/ row[m.id].next_attempt_at # m.next_attempt_at

\* The UPDATE of _apply: by id alone, whatever the row has become.
VerdictRow(m, v) ==
    IF row[m.id] = Gone THEN Gone
    ELSE [row[m.id] EXCEPT
            !.status = v.status,
            !.attempts = v.attempts,
            !.locked_until = NoTime,
            !.next_attempt_at = v.next_attempt_at,
            !.sent_at = IF v.status = "sent" THEN now ELSE NoTime]

\* _apply: row, recipient and occurrence in one commit.  The occurrence is
\* moved to sent on the strength of the status loaded with the batch.
WriteBack(w, m, v) ==
    LET o == OccOf[m.id]
        opens == v.status = "sent" /\ worker[w].seen[o] \in {"pending", "dispatching"}
        rest == worker[w].batch \ {m}
    IN  /\ ~RowLocked(m.id)
        /\ row' = [row EXCEPT ![m.id] = VerdictRow(m, v)]
        /\ staleRows' = IF Stale(m) THEN staleRows \cup {m.id} ELSE staleRows
        /\ blocked' = IF v.blocks_user THEN blocked \cup {UserOf[m.id]} ELSE blocked
        /\ occ' = IF opens THEN [occ EXCEPT ![o] = SetOccStatus(o, "sent")] ELSE occ
        /\ worker' = [worker EXCEPT ![w] =
             IF rest = {} THEN IdleWorker
             ELSE [worker[w] EXCEPT
                     !.pc = "loaded", !.batch = rest, !.verdict = NoVerdict,
                     !.seen = IF opens THEN [worker[w].seen EXCEPT ![o] = "sent"]
                              ELSE worker[w].seen,
                     !.seen_blocked = IF v.blocks_user
                                      THEN worker[w].seen_blocked \cup {UserOf[m.id]}
                                      ELSE worker[w].seen_blocked]]
        /\ UNCHANGED <<now, answers, silent, unused, shown, tap, reaper, missed>>

\* A delivery the loaded context says must not go out.
Abort(w) ==
    /\ worker[w].pc = "loaded"
    /\ \E m \in worker[w].batch :
        /\ Current(w, m)
        /\ AbortReason(w, m) # "none"
        /\ WriteBack(w, m, DecideAbort(AbortReason(w, m), m.attempts))

\* gateway.send.  A transient error (a timeout) does not tell whether the
\* message reached the screen.  Bound: a retry stays within MaxTime.
Send(w) ==
    /\ worker[w].pc = "loaded"
    /\ \E m \in worker[w].batch :
        /\ Current(w, m)
        /\ AbortReason(w, m) = "none"
        /\ \/ /\ shown' = shown \cup {m.id}
              /\ worker' = [worker EXCEPT ![w].pc = "sent",
                                          ![w].verdict = DecideSuccess]
           \/ \E error \in Errors :
                /\ shown' \in {shown} \cup
                     (IF error = "transient" THEN {shown \cup {m.id}} ELSE {})
                /\ DecideFailure(m.attempts, error, now).next_attempt_at <= MaxTime
                /\ worker' = [worker EXCEPT
                     ![w].pc = "sent",
                     ![w].verdict = DecideFailure(m.attempts, error, now)]
    /\ UNCHANGED <<now, dbVars, tap, reaper, historyVars>>

Apply(w) ==
    /\ worker[w].pc = "sent"
    /\ \E m \in worker[w].batch :
         Current(w, m) /\ WriteBack(w, m, worker[w].verdict)

\* The process dies, or the cycle raises: memory is lost, leases stay.
\* Bound: the leases left behind lapse within MaxTime.
Crash(w) ==
    /\ "dispatcher" \in Crashes
    /\ worker[w].pc # "idle"
    /\ now + LockFor < MaxTime
    /\ worker' = [worker EXCEPT ![w] = IdleWorker]
    /\ UNCHANGED <<now, dbVars, shown, tap, reaper, historyVars>>

-----------------------------------------------------------------------------
(* ReactionsService.react *)

\* postpone: silence moves the moment, unless it outlasts the occurrence.
Postpone(d, at) ==
    LET requested == at + SnoozeFor
        shifted == QuietShift[UserOf[d]][requested]
    IN  IF shifted >= ExpiresAt[OccOf[d]] THEN requested ELSE shifted

\* A tap on a message that carries buttons: the clock is read before the row
\* is locked.  A message may have several copies, so its buttons stay usable.
\* Bound: a snooze ends within MaxTime.
Press(t, d, kind) ==
    /\ tap[t].pc = "idle"
    /\ d \in shown
    /\ row[d] # Gone
    /\ kind = "snooze" => Postpone(d, now) <= MaxTime
    /\ tap' = [tap EXCEPT ![t] = [pc |-> "asked", d |-> d, kind |-> kind, at |-> now]]
    /\ UNCHANGED <<now, dbVars, shown, worker, reaper, historyVars>>

Postponed(d, at) == row[d].status = "snoozed" /\ row[d].next_attempt_at > at

\* Mutant: only the deadline and the pending snooze are checked.
RejectedLate(d, kind, at) ==
    \/ ExpiresAt[OccOf[d]] <= at
    \/ kind = "snooze" /\ Postponed(d, at)

\* Mutant: a closed occurrence is not looked at.
RejectedOpen(d, kind, at) ==
    \/ row[d].status \in TerminalDelivery
    \/ ExpiresAt[OccOf[d]] <= at
    \/ kind = "snooze" /\ Postponed(d, at)

\* check_reactable: why the tap changes nothing.
Rejected(d, kind, at) ==
    \/ row[d].status \in TerminalDelivery
    \/ occ[OccOf[d]].status \in TerminalOccurrence
    \/ ExpiresAt[OccOf[d]] <= at
    \/ kind = "snooze" /\ Postponed(d, at)

\* Mutant: a delivery still in the queue does not keep the occurrence open.
LastToAnswerOfSent(d) ==
    \A e \in Of(OccOf[d]) \ {d} : row[e].status # "sent"

\* all_deliveries_terminal as this transaction sees it: its own write and
\* whatever the others have committed.
LastToAnswer(d) ==
    \A e \in Of(OccOf[d]) \ {d} :
        row[e] = Gone \/ row[e].status \in TerminalDelivery

\* The lock is taken and the decision made on the committed state.
ReactLock(t) ==
    /\ tap[t].pc = "asked"
    /\ ~RowLocked(tap[t].d)
    /\ LET d == tap[t].d IN
        IF row[d] = Gone \/ Rejected(d, tap[t].kind, tap[t].at)
        THEN tap' = [tap EXCEPT ![t] = IdleTap]
        ELSE tap' = [tap EXCEPT ![t] =
                [pc |-> "locked", d |-> d, kind |-> tap[t].kind, at |-> tap[t].at,
                 last |-> LastToAnswer(d), found |-> occ[OccOf[d]].status]]
    /\ UNCHANGED <<now, dbVars, shown, worker, reaper, historyVars>>

AnswerRow(d, kind, at) ==
    IF kind = "snooze"
    THEN [row[d] EXCEPT !.status = "snoozed", !.locked_until = NoTime,
                        !.next_attempt_at = Postpone(d, at), !.sent_at = NoTime]
    ELSE [row[d] EXCEPT !.status = IF kind = "done" THEN "done" ELSE "skipped",
                        !.locked_until = NoTime, !.next_attempt_at = NoTime,
                        !.sent_at = NoTime, !.reacted = TRUE]

\* roll_up: this reaction counted itself the last and will close the occurrence.
Closing(t) == tap[t].pc = "locked" /\ tap[t].kind # "snooze" /\ tap[t].last

\* The writes and the commit.
ReactCommit(t) ==
    /\ tap[t].pc = "locked"
    /\ LET d == tap[t].d
           o == OccOf[d]
           kind == tap[t].kind
       IN  /\ row' = [row EXCEPT ![d] = AnswerRow(d, kind, tap[t].at)]
           /\ answers' = IF kind = "snooze" THEN answers
                         ELSE [answers EXCEPT ![d] = @ + 1]
           /\ occ' = IF Closing(t)
                     THEN [occ EXCEPT ![o] = SetOccStatus(o,
                             IF kind = "done" THEN "done" ELSE "skipped")]
                     ELSE occ
    /\ tap' = [tap EXCEPT ![t] = IdleTap]
    /\ UNCHANGED <<now, silent, blocked, unused, shown, worker, reaper, historyVars>>

\* The bot dies or the handler raises before the commit: the lock is released.
ReactAbort(t) ==
    /\ "bot" \in Crashes
    /\ tap[t].pc # "idle"
    /\ tap' = [tap EXCEPT ![t] = IdleTap]
    /\ UNCHANGED <<now, dbVars, shown, worker, reaper, historyVars>>

-----------------------------------------------------------------------------
(* ReaperService.sweep: one transaction; the clock is read at its start. *)

\* Mutant: only the occurrences that went out.
OverdueSent == {<<o, occ[o].status>> : o \in
                  {o \in Occs : occ[o].status = "sent" /\ ExpiresAt[o] < now}}

\* list_expired and is_overdue, with the status that was read.
Overdue == {<<o, occ[o].status>> : o \in
              {o \in Occs : /\ occ[o].status \notin TerminalOccurrence \cup {"gone"}
                            /\ ExpiresAt[o] < now}}

\* list_repeat_candidates and decide_repeat.  Bound: the repeat is due within
\* MaxTime.
Repeats(d) ==
    LET moment == QuietShift[UserOf[d]][now] IN
    /\ row[d].status = "sent"
    /\ ~row[d].reacted
    /\ RepeatAfter # NoTime
    /\ occ[OccOf[d]].repeats_sent < MaxRepeats
    /\ ExpiresAt[OccOf[d]] > now
    /\ row[d].sent_at + RepeatAfter <= now
    /\ moment < ExpiresAt[OccOf[d]]
    /\ moment <= MaxTime

\* release_stale_locks finds a queued row whose lease has lapsed.
Lapsed(d, at) ==
    /\ row[d].status \in Queued
    /\ row[d].locked_until # NoTime
    /\ row[d].locked_until < at

\* The reads of the sweep: overdue occurrences with their sent deliveries, and
\* the deliveries to repeat.  Everything is kept across the network edits that
\* strip keyboards.  A sweep that finds nothing to do is left out.
SweepRead ==
    LET silenced == {d \in Deliveries :
                       row[d].status = "sent" /\ OccOf[d] \in {p[1] : p \in Overdue}}
        again == {d \in Deliveries : Repeats(d)}
    IN  /\ reaper.pc = "idle"
        /\ \/ Overdue # {} \/ again # {} \/ \E d \in Deliveries : Lapsed(d, now)
        /\ reaper' = [pc |-> "ready", at |-> now, overdue |-> Overdue,
                      silenced |-> silenced, again |-> again]
        /\ UNCHANGED <<now, dbVars, shown, worker, tap, historyVars>>

OverdueOccs == {p[1] : p \in reaper.overdue}

\* A repeat goes back to the queue; a lease that lapsed is dropped.
SweptRow(d) ==
    IF row[d] = Gone THEN Gone
    ELSE IF d \in reaper.again
    THEN [row[d] EXCEPT !.status = "pending", !.locked_until = NoTime,
                        !.next_attempt_at = QuietShift[UserOf[d]][reaper.at],
                        !.sent_at = NoTime]
    ELSE IF Lapsed(d, reaper.at)
    THEN [row[d] EXCEPT !.locked_until = NoTime]
    ELSE row[d]

\* Mutant: one repeat per recipient.
SweptOccPerRecipient(o) ==
    IF o \in OverdueOccs THEN SetOccStatus(o, "expired")
    ELSE IF occ[o].status # "gone"
    THEN [occ[o] EXCEPT !.repeats_sent =
            @ + Cardinality({d \in reaper.again : OccOf[d] = o})]
    ELSE occ[o]

\* bump_repeats costs one repeat per occurrence, not per recipient.
SweptOcc(o) ==
    IF o \in OverdueOccs THEN SetOccStatus(o, "expired")
    ELSE IF occ[o].status # "gone" /\ \E d \in reaper.again : OccOf[d] = o
    THEN [occ[o] EXCEPT !.repeats_sent = @ + 1]
    ELSE occ[o]

\* The writes and the commit.  They wait for the rows a reaction has locked.
SweepCommit ==
    /\ reaper.pc = "ready"
    /\ reaper.silenced \subseteq {d \in Deliveries : row[d] # Gone}
    /\ \A d \in Deliveries :
         (d \in reaper.silenced \/ SweptRow(d) # row[d]) => ~RowLocked(d)
    /\ row' = [d \in Deliveries |-> SweptRow(d)]
    /\ occ' = [o \in Occs |-> SweptOcc(o)]
    /\ silent' = silent \cup reaper.silenced
    /\ staleRows' = staleRows \cup
         {d \in reaper.again : row[d] # Gone /\ row[d].status # "sent"}
    /\ reaper' = IdleReaper
    /\ UNCHANGED <<now, answers, blocked, unused, shown, worker, tap, missed>>

\* A delivery deleted before its journal row is inserted fails the foreign key,
\* and the whole sweep with it.
SweepFail ==
    /\ reaper.pc = "ready"
    /\ \E d \in reaper.silenced : row[d] = Gone
    /\ reaper' = IdleReaper
    /\ UNCHANGED <<now, dbVars, shown, worker, tap, historyVars>>

\* The process dies or the cycle raises: the transaction is rolled back.
SweepAbort ==
    /\ "reaper" \in Crashes
    /\ reaper.pc # "idle"
    /\ reaper' = IdleReaper
    /\ UNCHANGED <<now, dbVars, shown, worker, tap, historyVars>>

-----------------------------------------------------------------------------
(* What people do to the queue from the bot. *)

\* A row is deleted with its journal; a delete waits for a locked row.
DropRows(S) ==
    /\ \A d \in S : ~RowLocked(d)
    /\ row' = [d \in Deliveries |-> IF d \in S THEN Gone ELSE row[d]]
    /\ answers' = [d \in Deliveries |-> IF d \in S THEN 0 ELSE answers[d]]
    /\ silent' = silent \ S

DropOccs(S) ==
    /\ occ' = [o \in Occs |->
                 IF o \in S THEN [status |-> "gone", repeats_sent |-> 0] ELSE occ[o]]
    /\ DropRows({d \in Deliveries : OccOf[d] \in S})
    /\ UNCHANGED <<now, blocked, unused, shown, worker, tap, reaper, historyVars>>

\* delete_unsent: occurrences still pending, none of whose deliveries has
\* left pending.
Unsent == {o \in Occs : /\ occ[o].status = "pending"
                        /\ \A d \in Of(o) : row[d].status \in {"pending", "gone"}}

\* RemindersService.set_status leaving active, or a schedule replaced.
Pause == Unsent # {} /\ DropOccs(Unsent)

\* RemindersService.delete: everything below the reminder cascades.
Delete == (\E o \in Occs : occ[o].status # "gone") /\ DropOccs(Occs)

\* SharingService.leave: delete_pending_for_recipient.
Leave(u) ==
    /\ u \in Watchers
    /\ LET S == {d \in Deliveries : UserOf[d] = u /\ row[d].status = "pending"}
       IN  S # {} /\ DropRows(S)
    /\ UNCHANGED <<now, occ, blocked, unused, shown, worker, tap, reaper, historyVars>>

\* OnboardingService.register: a user who writes to the bot again.
Return(u) ==
    /\ u \in blocked
    /\ blocked' = blocked \ {u}
    /\ UNCHANGED <<now, occ, row, answers, silent, unused, shown, worker, tap, reaper,
                  historyVars>>

-----------------------------------------------------------------------------
(* Deliveries added to occurrences that exist: the planner expands the      *)
(* schedule anew once planned_until was reset and inserts what is missing   *)
(* for every accepted recipient, whatever the occurrence has become; accept *)
(* inserts its own for the occurrences that are still ahead.                *)

\* deliveries (occurrence_id, user_id) is unique.
SameKey(d, e) == OccOf[d] = OccOf[e] /\ UserOf[d] = UserOf[e]

\* The occurrence is closed by its answers, or by a reaction that has already
\* counted them and is about to.
Counted(o) ==
    \/ occ[o].status \in Answered
    \/ \E t \in Taps : Closing(t) /\ OccOf[tap[t].d] = o

\* insert_missing and its commit.  ON CONFLICT DO NOTHING: a recipient who has
\* a row keeps it.  Bound: the ids in Late.
Insert(S) ==
    /\ S # {}
    /\ S \subseteq unused
    /\ \A d \in S :
         /\ occ[OccOf[d]].status # "gone"
         /\ \A e \in Deliveries : SameKey(d, e) => row[e] = Gone /\ e \notin S \ {d}
    /\ row' = [d \in Deliveries |-> IF d \in S THEN FreshRow(d) ELSE row[d]]
    /\ unused' = unused \ S
    /\ missed' = missed \cup {d \in S : Counted(OccOf[d])}
    /\ UNCHANGED <<now, occ, answers, silent, blocked, shown, worker, tap, reaper,
                  staleRows>>

-----------------------------------------------------------------------------
Dispatch(w) == ClaimDue(w) \/ LoadContext(w) \/ Abort(w) \/ Send(w) \/ Apply(w)

React(t) == ReactLock(t) \/ ReactCommit(t)

Sweep == SweepRead \/ SweepCommit \/ SweepFail

Next ==
    \/ Tick
    \/ \E w \in Dispatchers : Dispatch(w) \/ Crash(w)
    \/ \E t \in Taps : React(t) \/ ReactAbort(t)
    \/ \E t \in Taps, d \in Deliveries, kind \in Kinds : Press(t, d, kind)
    \/ Sweep \/ SweepAbort
    \/ Pause \/ Delete
    \/ \E u \in Users : Leave(u) \/ Return(u)
    \/ \E S \in SUBSET Late : Insert(S)

Spec == Init /\ [][Next]_vars

\* Each cycle of the worker and each handler runs to its end and runs again
\* (worker/main.py, run_loop); the clock advances.  Nobody has to press
\* anything, and Telegram owes no particular answer.  A process may be killed
\* again and again, but not in every sweep it ever starts.
Fairness ==
    /\ WF_vars(Tick)
    /\ \A w \in Dispatchers : WF_vars(Dispatch(w))
    /\ \A t \in Taps : WF_vars(React(t))
    /\ WF_vars(Sweep)
    /\ SF_vars(SweepCommit)

FairSpec == Spec /\ Fairness

-----------------------------------------------------------------------------
(* What holds as long as no write-back has overwritten a change it had not *)
(* read: staleRows names exactly the rows this happened to.                *)

\* One answer per delivery: whatever taps, retries, repeats and sweeps are in
\* flight, the journal holds at most one done or skip for a delivery, and the
\* row shows it (services/reactions.py: "Every reaction is idempotent").
AnsweredOnce ==
    \A d \in Deliveries \ staleRows :
        row[d] # Gone =>
            /\ answers[d] <= 1
            /\ answers[d] = 1 <=> row[d].status \in Answered

\* The dispatcher never takes up a delivery somebody has answered
\* (domain/reactions.py: "an answered one is never redelivered").  One that a
\* verdict or a sweep put back into the queue over the answer is in staleRows.
AnsweredNotClaimed ==
    [][\A w \in Dispatchers : \A d \in Deliveries \ staleRows :
         (answers[d] > 0 /\ row[d] # Gone /\ worker[w].pc = "idle")
            => ~\E m \in worker'[w].batch : m.id = d]_vars

\* A postponed reminder is not lost and does not come back early: before its
\* moment only the recipient's own answer, or deletion, takes it out of
\* snoozed (domain/reactions.py postpone, deliveries.py claim_due).
SnoozeKept ==
    [][\A d \in Deliveries \ staleRows' :
         (row[d].status = "snoozed" /\ now < row[d].next_attempt_at)
            => \/ row'[d] = Gone
               \/ row'[d].status = "snoozed"
               \/ answers'[d] > answers[d]]_vars

\* A done or skipped occurrence leaves no delivery open of those there were
\* when the reaction that closed it counted (services/reactions.py
\* _close_occurrence; domain/reactions.py check_reactable relies on it).  A
\* delivery the planner adds after that is not covered: it does stay open.
DoneMeansAnswered ==
    \A o \in Occs :
        (occ[o].status \in Answered /\ Of(o) \cap staleRows = {})
            => \A d \in Of(o) \ missed :
                 row[d] = Gone \/ row[d].status \in TerminalDelivery

\* Who may still write an occurrence that has been closed meanwhile, each in
\* the step that commits: a dispatcher whose message got through, a reaction
\* that counted itself the last, the sweep.  Each only if what it had itself
\* read of the occurrence was open.
SendsLate(w, o) ==
    /\ worker[w].pc = "sent" /\ worker'[w].pc # "sent"
    /\ worker[w].seen[o] \in {"pending", "dispatching"}
    /\ \E m \in worker[w].batch : Current(w, m) /\ OccOf[m.id] = o

AnswersLate(t, o) ==
    /\ Closing(t) /\ tap'[t] = IdleTap
    /\ OccOf[tap[t].d] = o
    /\ tap[t].found \notin TerminalOccurrence

ExpiresLate(o) ==
    /\ reaper.pc = "ready" /\ reaper' = IdleReaper
    /\ \E q \in reaper.overdue : q[1] = o /\ q[2] \notin TerminalOccurrence

\* A closed occurrence is reopened, or closed a second time as something else,
\* by nobody who knew: only by a writer that had read it open and comes late,
\* a dispatcher with "sent", the last reaction with its answer, the sweep with
\* "expired" (domain/contracts.py: "the planner never revisits it";
\* services/dispatching.py _apply, services/reactions.py react, sweep).
ClosedStaysClosed ==
    [][\A o \in Occs :
         occ[o].status \in TerminalOccurrence =>
            \/ occ'[o].status \in {occ[o].status, "gone"}
            \/ occ'[o].status = "sent" /\ \E w \in Dispatchers : SendsLate(w, o)
            \/ occ'[o].status \in Answered /\ \E t \in Taps : AnswersLate(t, o)
            \/ occ'[o].status = "expired" /\ ExpiresLate(o)]_vars

\* A shared occurrence is repeated at most max_repeats times, however many
\* recipients each sweep reaches (services/dispatching.py _repeat_unanswered).
RepeatsWithinBudget ==
    \A o \in Occs : occ[o].repeats_sent <= MaxRepeats

-----------------------------------------------------------------------------
(* Liveness *)

\* Nothing stays in the queue: what is due, postponed or waiting for a retry
\* is eventually sent, answered, given up or deleted.
QueueDrains ==
    \A d \in Deliveries :
        row[d].status \in Queued ~> row[d].status \notin Queued

\* Every occurrence is closed in the end, and for good, whatever write-backs
\* land after the sweep that expired it.
OccurrencesClose ==
    <>[](\A o \in Occs : occ[o].status \in TerminalOccurrence \cup {"gone"})

-----------------------------------------------------------------------------
(* What the documents and comments promise and the code does not keep. *)

\* tech.md 7.2: the terminal transition of deliveries.status happens once.
TerminalOnce ==
    [][\A d \in Deliveries :
         row[d].status \in TerminalDelivery
            => row'[d].status \in {row[d].status, "gone"}]_vars

\* tech.md 7.4: when every delivery has been answered the occurrence is
\* closed, once the reactions that answered have committed.
LastAnswerCloses ==
    \A o \in Occs :
        (/\ \A d \in Of(o) : row[d] # Gone /\ row[d].status \in Answered
         /\ \A t \in Taps : tap[t].pc = "idle")
            => occ[o].status \in TerminalOccurrence \cup {"gone"}
=============================================================================
