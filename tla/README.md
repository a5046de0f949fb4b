# Remindo in TLA+

Specifications of Remindo, a Telegram reminder bot: the parts where several
actors write the same rows (the delivery queue, the planner, shared reminders,
the weekly digest), the dialogue of one chat, the worker's own loops, and the
calendar arithmetic underneath. TLC checks all of them on small instances;
TLAPS proves every safety property the runs check, of the queue, the planner,
sharing, the digest, the worker, the dialogue and the calendar, for every value
of their constants, under the hypotheses section 4 names.

All source paths below are relative to `src/app/`; `tech.md` is `src/tech.md`.

## 1. The system

Two processes over one PostgreSQL at READ COMMITTED: the **bot** (one handler
per Telegram update, one session per handler) and the **worker** (independent
loops, `worker/main.py`). They share nothing but the database. There is no
retry and no serialisable transaction anywhere: every interleaving is settled by
row locks (`FOR UPDATE` in reactions and in joining, `FOR UPDATE SKIP LOCKED` in
the claim), unique keys, and by what each service reads before it writes.

| component | state | operations | talks to |
|---|---|---|---|
| dispatcher (`services/dispatching.py`, `domain/dispatching.py`, `domain/retry.py`) | `deliveries`: status, attempts, next_attempt_at, locked_until; a batch and its context in memory | claim (lease), load context, send, write the verdict back | gateway, occurrences, users |
| reactions (`services/reactions.py`, `domain/reactions.py`) | `deliveries`, `delivery_actions`, `occurrences.status` | Done, Snooze, Skip under the delivery's row lock; roll-up of the occurrence | bot |
| reaper (`services/dispatching.py`, `domain/sweeping.py`) | `occurrences.repeats_sent`, statuses | expire, repeat, release leases, purge FSM rows, in one transaction | gateway |
| planner (`services/planning.py`, `domain/planning.py`) | `reminders.planned_until`, `fired_count`, status | select, expand, insert, settle | recurrence, recipients |
| reminders (`services/reminders.py`) | `reminders`, `schedules` | create, edit, pause, resume, delete | drops what is queued |
| sharing (`services/sharing.py`, `domain/sharing.py`) | `reminder_invites`, `reminder_recipients` | issue, revoke, open a link, accept, decline, leave | queue: backfill and removal |
| digest (`services/digest.py`) | `users.last_digest_at` | weekly summary: list, send, mark | gateway |
| ops monitor and health (`services/ops.py`, `domain/ops.py`, `worker/health.py`) | alert state and heartbeats in memory | observe, decide, notify admins | every loop |
| quiet hours, recurrence, schedules (`domain/`) | none | pure functions on local time | planner, reactions, reaper |
| onboarding, settings, categories, statistics | single rows; read-only queries | | bot |
| wizard and screens (`bot/handlers`, `bot/fsm`) | dialogue state per chat in `fsm_states` | forms step by step | all services |

Behaviours that are hard to test: a tap while the message is being sent; two
recipients answering at once; a sweep that talks to Telegram between its reads
and its commit; a dispatcher that outlives its lease; a planner cycle that
straddles an edit, a pause, a join or a leave; two people at the watcher limit;
crashes between any two of these steps.

What makes each component correct:

* queue: an answered delivery is not sent again or counted twice; a closed
  occurrence is not written by anybody who knows it is closed; a snooze is kept; repeats stay in budget; everything queued is eventually
  settled and every occurrence closes;
* planner: nothing inside the planned horizon is missing, the occurrence budget
  holds, nothing is archived early, what is queued matches the reminder;
* sharing: one live link, a limit on watchers, a revocation that revokes, and
  everybody who accepted is served;
* digest: every week is dealt with, none is sent twice but for a kill between
  the send and its mark;
* worker: a loop stuck in one attempt is told from a failing one, and an alert
  from one that nobody heard;
* dialogue: whatever screens interrupt a form, each question can be answered,
  an edit reaches the reminder that was opened, and no reminder is left in an
  archived category;
* calendar: every moment of a schedule is found once, in whatever windows, over
  every change of offset; quiet hours end outside the silence.

## 2. Modules

| module | models | proofs |
|---|---|---|
| `Contracts` | the status enums of `domain/contracts.py` | |
| `RetryPolicy` | `decide_abort`, `decide_success`, `decide_failure`, `should_retry` | |
| `DeliveryQueue` | dispatcher, reactions, reaper, and pause, delete, leave as they hit the queue | `DeliveryQueueProofs` |
| `Planner` | the planner's transaction against the owner's and the watchers' | `PlannerProofs` |
| `Sharing` | invitations and recipient rows | `SharingProofs` |
| `WatchList` | what sharing promises: the abstract specification `Sharing` implements | `SharingProofs` |
| `Digest` | the weekly cycle and the settings that change under it | `DigestProofs` |
| `Worker` | the loops, their heartbeats, `/healthz`, and the monitor's alerts | `WorkerProofs` |
| `Dialogs` | one user's chat: wizard, edit screens, settings, category form, and the row in `fsm_states` | `DialogsProofs` |
| `LocalTime` | wall clocks, instants, a zone with one change of offset: `to_utc` | `LocalTimeProofs` |
| `Recurrence`, `QuietHours` | the expansion of schedules, the silent interval: pure functions | `CalendarProofs` |
| `Calendar` | those functions used by planner, digest, `/today` and `/stats` while a clock runs | `CalendarProofs` |
| `MC...` | instances for TLC | |

`DeliveryQueue` and `RetryPolicy` extend `Contracts`; so does `Planner`.
`Planner` sees the dispatcher as one step (what is due goes out). `DeliveryQueue`
sees the planner as its initial state (the rows one planner commit leaves) and as
`Insert`: after a reset of `planned_until` the schedule is expanded again, and a
recipient without a row gets one for any occurrence that exists, open or closed.
The ids of those rows are fresh (`Late`). `Planner` sees `Sharing` as one step
(`Invite`: a user without a row gets one).
`Recurrence` and `QuietHours` extend `LocalTime`, `Calendar` extends both; in
`Planner`, `DeliveryQueue` and `Digest` what they compute is a constant (the
moments of a schedule, `FireAt`, `QuietShift`, `WeeklyMoments`). `Worker` sees
every cycle but the monitor as something that takes time, fails or hangs.

### Where a step ends

A TLA+ action is what an actor does between two points at which another actor's
commit can fall. A transaction whose decision rests on a read made before an
`await` on the network, before another statement, or before a lock is split
there; its writes take effect together in the step that commits.

* **Dispatcher** (`worker[w]`): `ClaimDue` (lease and commit), `LoadContext`
  (one query for the whole batch), then per delivery, in queue order, `Abort` or
  `Send` followed by `Apply`. `Abort` and `Apply` share `WriteBack`: the row is
  updated by id alone, whatever it has become, and the occurrence is moved to
  `sent` on the strength of the status loaded with the batch. A transient error
  leaves open whether the message reached the screen. `Crash` forgets the batch
  and leaves the leases.
* **Reaction** (`tap[t]`): `Press` reads the clock, `ReactLock` takes the row
  lock and decides, `ReactCommit` writes the row, the journal and, for the last
  one, the occurrence. What the roll-up saw (`last`) and the status of the
  occurrence (`found`) are read before the commit: two recipients hold different
  locks.
* **Reaper** (`reaper`): `SweepRead` collects what is overdue and what to
  repeat; the network edits follow; `SweepCommit` writes all of it. A journal
  row for a delivery deleted meanwhile fails the foreign key and the sweep with
  it (`SweepFail`).
* **Planner** (`planner`): `PlanSelect` (the batch query), `PlanCount` (count and
  expand), `PlanExpand` (the two inserts, not visible to others yet), `PlanWrite`
  (the UPDATE, and with it the reminder's row lock), `PlanCommit`; or `PlanFail`.
* **Owner** (`owner`): `OwnerRead`; for a pause or a new schedule `OwnerDrop` (the
  DELETE, on what is committed when it starts) and `OwnerReset` (the UPDATE, which
  waits for the planner's lock); `OwnerCommit`. So the planner may commit between
  an owner's DELETE and UPDATE, and an owner's DELETE makes an insert of the same
  key wait.
* **Watcher** (`joiner`): `AcceptRead`, `AcceptCommit`; `Leave` and `Decline` are
  single statements.
* **Digest** (`cycle`): `Begin` reads the batch, once; each user of it is
  deferred, marked for an empty week (`SkipEmpty`), or sent to (`Send`, then
  `Answered` and `Mark`, or `Refused`, or `Unanswered`), on the row as it was
  read. `SetTimezone`, `SetDigest` and `EnsureUser` fall anywhere in between.
* **Worker** (`job`, `monitor`): `Wake`, `Finish`, `Hang` of each loop; the
  monitor's attempt is `MonitorRead`, one step per admin, `MonitorSettles`.
  Marks are ages and sleeps are countdowns, so time needs no end.
* **Dialogs** (`run[r]`): a handler is a script of commits. Routing reads the
  state (`Handle`); then each step of the script is one read (`GetData`, of
  which `update_data` is the first half), one write (`SetState`, `SetData`,
  `StoreData`), one check that may end the handler (`Check`, `Refuse`), or one
  write of a reminder or a category. `Crash` and `Purge` fall between any two.
  Answers are kept as what later steps ask of them: a key is there, a list is
  empty, an identifier names this reminder.
* **Calendar**: `Plan` is one planner cycle over the real expansion, `Tick` two
  slots of the clock; everything else is checked as a function of the moment.
* **Sharing** (`run[r]`): an UPDATE that can meet a locked row is two steps,
  its start (the rows it sees) and its effect (after the wait, on those rows
  only); `Resolve` checks the link before `OpenLock` waits for the reminder.

### History variables

`staleRows` (`DeliveryQueue`) names the deliveries a write-back or a sweep has
overwritten after somebody else had changed them, `missed` those inserted after
the reaction that closes their occurrence had counted. `raced` (`Planner`) says that
some transaction committed on rows changed since it read them, or an owner's
after the planner had committed past its DELETE (`overtaken`). No guard reads
them. The code does race (section 5), so several properties hold only up to
these: "outside rows overwritten by a stale write-back, every delivery has at
most one answer". The race itself is then a property of its own, which the code
violates, or a divergence listed in section 5. `ClosedStaysClosed` has no such
exception: it says of every overwrite of a closed occurrence who made it and what
that writer had read.
`asked`, `made` and `torn` (`Dialogs`) are what the open screen is about, how
many reminders this wizard has made, and whether a handler was cut short.
`told` (`Worker`) is the last alert that reached anybody, `spent` for how long the
attempt of a loop has been running.

### Refinement

`Sharing` implements `WatchList` (`KeepsTheList`): guests, one way in, an end.
`guests` is each user's row seen as out, invited or watching (`GuestsSeen`);
`link` is none before the first link, live while one lets anybody in, dead when
all are taken back (`LinkSeen`); `gone` is the deleted reminder. Reads, waits,
aborts, expiry of a link and the clock are stutters; a handler's commit is one
step of `WatchList`, never two. A link that has run out still counts as live
there: a `revoke` is what takes it back, and `WatchList!Join` asks only that
there was a link, because the code checks the link before it waits for the lock
(section 5).

## 3. Runs

| run | what it shows | distinct states |
|---|---|---|
| `dq_one` | one delivery, every error, button and crash, two attempts, one repeat, under `FairSpec`: `AnsweredOnce`, `AnsweredNotClaimed`, `SnoozeKept`, `ClosedStaysClosed`, `QueueDrains`, `OccurrencesClose`, `TypeOK` | 320 k |
| `dq_shared` | one shared occurrence, two recipients tapping at once, a repeat, a watcher who leaves or whose row comes late, into a closed occurrence too: `DoneMeansAnswered`, `RepeatsWithinBudget` | 4.4 M |
| `plan_owner` | three schedules, a budget of three, an end date, one moment per cycle: `HorizonCovered`, `QueueMatchesReminder`, `BudgetKept`, `ArchivedIsComplete` | 1.5 M |
| `plan_shared` | a watcher joining and leaving, under `FairSpec`: `RecipientsServed`, `EveryMomentPlanned`, `TypeOK` | 420 k |
| `sharing` | three handler runs, two links, two invitees, a limit of one: `WithinLimit`, `OneLiveLink`, `RevokeTakesBack`, `AcceptanceStands`, `KeepsTheList`, `TypeOK` | 110 k |
| `dialogs` | two categories, two titles, two reminders, kills and the purge, one handler at a time: `AnswersKept`, `EditsWhatWasOpened`, `NoOrphans`, `TypeOK` | 1.4 M |
| `digest` | two users, two zones, a batch of one, one kill or retried failure, under `FairSpec`: `NoSecondCopy`, `MarksOnlyAdvance`, `WeekDealtWith` | 86 k |
| `worker` | two loops whose attempts take any time, two admins, one restart, under `FairSpec`: `StaleMeansLongAttempt`, `BelievesWhatWasTold`, `HungIsReported`, `LagIsReported` | 190 k |
| `calendar` | five zones, nine schedules, every silence, three digest hours: `ReadingsResolved`, `PlannedIsWhatFires`, `SilenceKept`, `DigestWeeks`, `StreaksCount` | 38 k |
| `bad_terminal_once`, `bad_rollup`, `bad_titles` | section 5: TLC finds the counterexample | |

`CHECK_DEADLOCK FALSE` except in `dialogs`: elsewhere the clock stops at
`MaxTime`, and once the queue is empty or the reminder deleted nothing is left
to do. In `worker` time goes on, but when every loop hangs and the restarts are
used up only the lag still moves. A chat can always be navigated, so `dialogs`
checks deadlock.

### Bounds, and why they are enough

* **Time** is a few steps (`MaxTime` 2 to 4). One step is a lease, a backoff, a
  snooze, a repeat interval and, twice, an occurrence's life: every order of
  those moments occurs. Guards keep what is rescheduled within `MaxTime`; those
  guards are marked `Bound` in the modules.
* **One dispatcher** in the runs. Two dispatchers meet only through a lease that
  has run out; a crashed one leaves exactly such a lease (`dq_one`).
  The proofs hold for any number of dispatchers.
* **Two recipients, two taps** are the smallest instance in which two row locks
  and one occurrence disagree; two taps on one delivery are the double tap.
  `Late = {2}`: the watcher's row comes when he joins, with the owner's or at any
  time after; an occurrence that is deleted and inserted anew is the start of
  another run.
* **Two attempts** reach every verdict of `decide_failure`: a retry, the last
  attempt, flood control (refunded), a block.
* **Planner**: `plan_owner` has a schedule that stays within the budget and
  three that together do not, a cycle limit of one so that every window is cut,
  and a horizon of two steps. `plan_shared` needs two moments, 0 and 2, with a
  horizon of one: one queued ahead of an acceptance, one behind it; quiet hours
  move the first, so the scheduled and the delivered moment differ.
* **Sharing**: three runs are two that contend and one that changes what they
  wait for. Two links suffice for one to replace another. The model of a limit
  of two with three invitees was checked as well and is not kept.

* **Dialogs**: two reminders are what an edit that reaches the wrong one needs, two
  categories what a move out of an archived one does; the categories and
  reminders are symmetric. In `dialogs` one handler runs at a time: with two
  the code loses answers (section 5). `bad_titles` has two handlers, two categories
  and one title, and no kills. One cut (a kill or a purge under a
  handler) until the data is next cleared; `HandleConfirm` and `HandleFormEmoji`
  need a free identifier.
* **Digest**: time is in days. Two weekly moments per zone, a day apart between
  the zones, with a prefilter of six days; a batch of one makes the second user
  wait for the first; quiet hours hold a moment of one user back by a day. One
  fault (`MaxFaults`), kill or retried failure, because any number of them in a
  row defers a week for as long as they last.
* **Worker**: units of ten seconds; the dispatcher's interval, the floor of a
  minute and the factor of three are the code's own, the monitor's minute is
  three units. Nothing bounds an attempt; ages and times spent stop counting once
  past the threshold (`Oldest`), where nothing tells them apart any more. One
  restart, because the proofs need no bound.
* **Calendar**: days of six slots, weeks of three days, months of three and two
  days. The functions are parametric in these lengths; what can go wrong is at
  the seams, and each zone puts one where it hurts: noon skipped, midnight and
  more skipped, an afternoon repeated, the last hour of a day repeated. Windows
  are cut by a limit of four and by a horizon that is not a whole number of
  days. `DayOfMonth` and `DaysInMonth` are tables over the days -4 to 22.
  `SafetyBuffer` is more than two days of slots, as 600 is more than 576 of five
  minutes; `MaxLocalDays` (3660 in the code) is never reached. `MCCalendar`
  assumes the theorems' hypotheses (`HypothesesHold`), so TLC shows that they
  hold of all five zones.

### Fairness

`DeliveryQueue!Fairness` assumes that the clock advances, that each dispatcher
cycle, each reaction in flight and the sweep run on. The sweep's commit is
strongly fair: a sweep whose rows are deleted under it fails, and one that keeps
failing for ever needs somebody who keeps leaving at that moment.
`worker/main.py run_loop` justifies it: every loop catches what its cycle raises, sleeps and starts
again, and a handler either commits or ends. No one is assumed to press a
button, and Telegram may answer every send with an error. In `dq_one` crashes
of the dispatcher are possible as long as their leases lapse within the model's
time. `Planner!FairSpec` assumes the clock and the planner's cycle, and nothing
of the owner or the watchers; `plan_shared` sets `PlannerDies = FALSE`, because
a planner that may die in every cycle owes nothing.

`Digest!FairSpec` assumes the cycle and the clock, nothing of the users; the
bound on faults stands for an outage that ends. `Worker!FairSpec` assumes the
event loop (a loop that may wake or finish does, and the monitor goes on) and
the clock; that the queue is read and that a notification gets through again
and again are strong fairness of `MonitorRead` and `NotifyDelivered`, without
which nothing could be reported: a database or a Telegram that is down for good.
Nothing makes a loop hang or return from hanging.

`EveryMomentPlanned` allows for the owner: every pause and edit resets the
horizon, so an owner who keeps editing keeps the planner starting over. It
allows for `raced` too: a planner that writes its horizon over a reset loses
moments (section 5).

### What the properties catch

Each property was tried against a plausible bug in the code it rests on: the
operators named `...Late`, `...Early`, `...PerRecipient`, `...Unlocked` and so
on, marked `Mutant` in the modules. They are used by no action.

## 4. Proofs

### `DeliveryQueueProofs`

For every set of occurrences, deliveries, users, dispatchers and taps, every
batch size, lease, backoff, snooze and repeat setting, every subset of errors,
buttons and crashing processes, and quiet hours that never move a moment back:

| theorem | states |
|---|---|
| `TypeCorrect` | `TypeOK` |
| `AnsweredOnceHolds` | `AnsweredOnce` |
| `AnsweredNotClaimedHolds` | `AnsweredNotClaimed` |
| `SnoozeKeptHolds` | `SnoozeKept` |
| `RepeatsWithinBudgetHolds` | `RepeatsWithinBudget` |
| `ClosedStaysClosedHolds` | `ClosedStaysClosed` |
| `DoneMeansAnsweredHolds` | `DoneMeansAnswered` |

`TypeOK` is not inductive: that a queued row has a moment depends on the verdict
a dispatcher holds, which depends on the attempts it copied at its claim.
`Typed` adds those facts, and `Base` adds `LockHeld`: a reaction that holds a
row holds it alone, and what it found still stands. On top of `Base`:

* `AnsweredOnce` follows because only a reaction under the lock adds an answer,
  on a row it found unanswered, and any other write of an answered row is either
  refused by its guard or recorded in `staleRows` (`StaleGrows`: that set only
  grows). The case analysis over who may touch a delivery is stated once, as the
  life of a delivery (`StepLives`), and the action properties reuse it. A row
  that is inserted starts unanswered, because its id names nothing before
  (`Unissued`).
* `ClosedStaysClosed` needs what each late writer has read: a reaction that holds
  its row has found the occurrence open (`FoundOpen`), the sweep remembers open
  ones only (`SweepMemory`), and a dispatcher moves an occurrence on the status it
  loaded. `StepOcc` is the case analysis over who writes an occurrence.
* `RepeatsWithinBudget` needs what the sweep remembers (`SweepMemory`): between
  its read and its commit nobody else spends a repeat, so the budget it checked
  is still there.
* `DoneMeansAnswered` needs `LastStands`: what the last reaction saw of the other
  deliveries, outside rows overwritten by stale write-backs and rows inserted
  after it had counted (`missed`), cannot be undone by the time it commits, nor
  afterwards (`OverStays`).

### `PlannerProofs`

For any schedules, unending ones included, any quiet hours that never move a
moment back, any bounds, budget, cycle limit, horizon and users:

| theorem | states |
|---|---|
| `PlannerTypeOK` | `TypeOK` |
| `PlannerBudgetKept` | `BudgetKept`, races included |
| `PlannerHorizonCovered` | `HorizonCovered` |
| `PlannerArchivedIsComplete` | `ArchivedIsComplete` |
| `PlannerQueueMatchesReminder` | `QueueMatchesReminder` |
| `PlannerRecipientsServed` | `RecipientsServed` |

One invariant, `IInv`, carries all of them; TLC checked it on both planner
instances before it was proved. The properties alone are not inductive, and need:

* `RowsAgree`: a delivery has its occurrence, a sent one shows on it, and a
  reminder that is not planned has nothing queued. So a drop removes the whole
  queue, and sending never changes the count.
* `OwnerAsRead`: what an owner's DELETE took is still queued for everybody else,
  and is all that is queued unless the planner has committed since
  (`overtaken`); the two never hold the reminder's row, or a key, together. This
  is what a pause relies on, and where the code fails (section 5).
* `PlanAsRead` and `Undisturbed`: nobody else inserts occurrences or plans, so
  what the planner has inserted is still missing for the others until its commit and its count is
  an upper bound (`BudgetKept` needs no more); the count has gone down only if
  the queue was dropped from a planned reminder, which shows on the reminder and
  makes the commit a race.
* `PausedIsUnplanned`: what a resume finds is not planned.

`NothingSkipped` is the heart of `HorizonCovered`: the first `Limit` moments of a
window are an initial piece of it (`FirstIsPrefix`), and if some moment of the
window is left out there are at least `Limit` of them (`FirstAtLeast`), so
`settle_plan` resumes from the last one. Both are counting arguments on finite
sets of naturals, without induction. A limit of zero means a spent budget, and
the reminder is archived in the same commit.

### `SharingProofs`

For every finite set of users and any links and handler runs:
`SharingTypeCorrect`, `WithinLimitHolds`, `OneLiveLinkHolds`,
`RevokeTakesBackHolds`, `AcceptanceStandsHolds`.

`WithinLimit` becomes inductive with `OneHolder` (one run holds the reminder)
and `Room` (the run that holds it and is about to insert still has the room it
counted, and its user still has no row): rows are only added under that lock, so
the count a run took can only have gone down. `RevokeTakesBack` needs
`SeenWatched`: a run that waited for a link either holds it or waited until it
was dead, and a dead link stays dead (`DeadStaysDead`). `AcceptanceStands` also
uses `Room`: an insert never meets an accepted row.

`SharingKeepsTheList` is the refinement: `Spec => KeepsTheList`. The same
invariant carries it, one lemma per action: a step maps to the step of
`WatchList` its name suggests, or leaves the three mapped variables alone.

### `DigestProofs`

For every finite set of users, every zone and calendar, batch, prefilter and
number of faults: `DigestTypeOK`, `DigestNoSecondCopy` (`NoSecondCopy`),
`DigestMarksOnlyAdvance` (`MarksOnlyAdvance`). What makes both inductive is that
a batch is read once and every user appears in it once (`NobodyTwice`), that
nobody but the cycle writes a mark, so the mark of a user still ahead in the
batch is the one that was read (`MarksAsRead`), and that the moment being sent
was owed on that row (`MomentOwed`). `TypeOK` of `Digest` and of `Worker` is
proved and not in a run.

### `WorkerProofs`

For every set of cycles, intervals and admins, and any number of restarts:
`WorkerTypeOK`; `WorkerBelievesWhatWasTold` from `Believes`, which says what a
round in progress knows (nothing delivered and the old state, or delivered and
`told` is its edge); `WorkerStaleMeansLongAttempt` from `Young`: a sleeper's mark
is no older than what it has slept, and during an attempt the mark is no older
than that sleep and the attempt together. Attempts may take any time. The only
assumption is that the error backoff is not longer than the floor of the
threshold, 5 s against 60 s. `/healthz` cannot tell a slow attempt from a hung
one, and the property says no more than it can.

### `DialogsProofs`

For every set of categories, titles and reminders, with or without kills, and
purges anywhere, of a chat whose handlers run one at a time (`OneHandler`):

| theorem | states |
|---|---|
| `DialogsTypeCorrect` | `TypeOK` |
| `NoOrphansHolds` | `NoOrphans` |
| `AnswersKeptHolds` | `AnswersKept` |
| `EditsWhatWasOpenedHolds` | `EditsWhatWasOpened` |

`OneHandler` is not a convenience: with two handlers at once the code breaks
`AnswersKept` and `EditsWhatWasOpened` (section 5). It is what the code relies on, and what a chat
does as long as every handler ends before the next update comes through the
rate limit. TLC checked the whole invariant on the run's 1.4 million states.

A handler is a script of commits, so the invariant must say of a script cut
anywhere what the rest of it will do. It has two halves:

* `Remaining` and `Checked`: what is left of a script is linked (`Linked`): each
  write of a category or a reminder comes right behind the check of the very
  thing it writes, so what the check found still holds at the write. Neither a
  kill nor a purge comes between them: a kill ends the script, a purge touches
  only the row. `NoOrphans` rests on this half, and no history
  variable appears in it.
* `Promise`: as long as nothing was cut short, wherever the rest of the script may
  stop, and where it ends, the question on the screen can be answered
  (`Answerable`) and asks about what was opened. It speaks of every sequence of
  contexts the steps may lead through. `PromiseNow`, `PromiseNext` and
  `PromiseFrom` are all that is used of it: what is due now, what is left after
  a step, and how a promise is made of a first step and a rest. With the last,
  each handler's script is shown to keep its promise from its end backwards
  (`Starts`), for every dialogue state it may start in; `KindsAnswerable`,
  `ListsAnswerable` and `AnswersAdd` are the map of which question may follow
  which answer.

`EditsWhatWasOpened` says of a wizard opened with `/new` that it never updates an
old reminder, cut or not: that part is in `Chat` and `Handling` (`NoEdit`), outside
the promise. `IdentifiersAssumption` says that a category of the user is neither
the preset one nor the mark of one that is gone, and that no title is that mark:
identifiers are row keys, and a missing row is not a value of a title. The third
part of `AnswersKept`, that a wizard which has made its reminder is over, is kept
by the same promise.

### `LocalTimeProofs` and `CalendarProofs`

For days, weeks and months of any length, any zone with one change of offset,
any schedule, quiet hours, clock and limit:

| theorem | states | hypotheses on zones and bounds |
|---|---|---|
| `FirstReading` | `to_utc` is the first instant that shows a reading or a later one | |
| `ReadingsResolvedHolds` | `ReadingsResolved` | `MidnightOnce` |
| `SilenceKeptHolds` | `SilenceKept` | |
| `DigestWeeksHolds` | `DigestWeeks` | `MidnightOnce`, `JumpsLessThanADay`, `DaysReachBack` |
| `CurrentStreakCounts`, `LongestStreakMeasures` | both streaks, of any bounded set of days | |
| `StreaksCountHolds` | `StreaksCount` | |
| `NextOccurrencesAreTheFirst` | `next_occurrences` is the first `limit` moments of the range | `PutBackByADay`, `Spanned` |
| `PlannedIsWhatFiresHolds` | `PlannedIsWhatFires` | `PutBackByADay`, `DaysHoldHorizon`, `LooksFarEnough` |

The hypotheses are what the code takes for granted, and each was found by a
proof that did not go through without it:

* `MidnightOnce`: the clock is never put back over a midnight. Zones that change
  at midnight exactly repeat the last hour of a day and satisfy it; one that
  goes from 00:01 back to 23:01 (America/St_Johns until 2011) does not, and
  there an instant of the repeated hour lies outside the bounds of its own day.
* `JumpsLessThanADay`: Pacific/Apia skipped a whole day in 2011. A digest whose
  hour fell on that day reads as the same hour of the day after, so the guard of
  `DigestWeeks` does not notice that it was moved.
* `PutBackByADay`: the margin of one local day at either end of a range is
  enough as long as the clock is put back by a day at most, and the moments of
  one day's rule span two days at most.
* `Spanned` and `LooksFarEnough`: no range has more days than `_MAX_LOCAL_DAYS`.
  A longer one is cut there while `settle_plan` still moves `planned_until` to
  its end; it takes a reminder that is planned again from a start ten years ago.
* `DaysReachBack` and `DaysHoldHorizon` say that the set `Days` over which the
  properties quantify is long enough. They restrict the model, not the code.

How the arguments go:

* Three functions are recursive over data: the bisection of
  `_first_existing_moment` and the two streaks. No induction rule can be
  instantiated, so each fact is proved from the least counterexample
  (`LeastNatural`): the shortest interval the bisection gets wrong is halved into
  one that is shorter (`BisectionFinds`); of the days whose count is wrong, the
  one nearest to the end of its row has a successor whose count is right
  (`CountIs`). That the recursion defines a function at all (`CountExists`,
  `IsBisection`) is part of the proof.
* `FirstReading` gives everything else its footing: `NotBefore` (an instant is
  before the resolution of a reading exactly when its own reading is),
  `Monotone`, and `ShownOrSkipped` (a resolved reading is either shown or the
  transition itself).
* `SilenceKept`: `_resolve_end` tries the end of the silence as the early side,
  as the late side, and a day later. With one change of offset the third is
  never needed (`EndResolved`).
* `NextOccurrencesAreTheFirst` has three parts: the days looked at hold every
  moment of the range (`DaysHoldRange`); the moments of day `d` lie between the
  midnights of `d` and `d + 2` (`MomentsOfDay`); so, when enough days have been
  looked at for `limit + SafetyBuffer` moments, all but those of the last day are
  before anything to come, and the last day gives fewer than the buffer
  (`StopsLate`).
* `PlannedIsWhatFires` is not inductive, because it speaks of the card and of a
  bounded calendar. `Written` is: what is planned is what the schedule has in
  `(Start - 1, planned_until]`. A cycle cut by its limit goes on from the
  greatest of what it wrote, and a moment left out below it would be one of the
  first `limit` (`PlanWrites`).

Assumptions are the `ASSUME`s of the modules: typing of the constants, quiet
hours that never move a moment back, finite sets of users and admins where they
are counted (sharing, digest, worker; the planner counts only occurrences), the
contract of schedules and settings, offsets shorter than a day, and a safety
buffer of more than two days of slots. In the last one a slot stands for five
minutes, the least step of an interval: with finer slots the code's 600 still
exceeds what a day gives, but by a count of moments that is not carried out.

### Only model-checked

The liveness properties (`QueueDrains`, `OccurrencesClose`,
`EveryMomentPlanned`, `WeekDealtWith`, `HungIsReported`, `LagIsReported`), which
are outside the prover's reach; the three violated
properties; `Dialogs` with more than one handler.

## 5. Where the code and its documents disagree

Three disagreements have a run whose counterexample TLC prints:

1. **`TerminalOnce`** (tech.md 7.2: the terminal transition happens once).
   `DispatchingService._apply` updates by id. A message reaches the screen, its
   recipient answers, the send raises a timeout, and the verdict is written over
   the answer: the row goes back to the queue or to `failed`, and can be closed
   again.
2. **`LastAnswerCloses`** (tech.md 7.4). Two recipients answer one occurrence at
   once, each under its own row's lock. Neither sees the other's commit, nobody
   closes the occurrence, and the reaper later expires it as unanswered.
3. **`TitlesDiffer`** (tech.md 17, invariant 5: the title of an active category is
   unique within its owner). `_reject_duplicate` reads the categories
   (`services/categories.py:60`, `:79`), the title is written later, and the unique
   index is on the code. Two handlers both find the title free, the second takes
   the next free code after the first's commit, and both categories live.

Divergences seen in the model without a run of their own:

* a planner cycle that read the reminder before an edit writes its
  `planned_until` over the reset, and the new schedule's moments before it are
  never planned (`services/planning.py:118`; `db/repositories/reminders.py:55`
  says what the reset is for);
* a snooze given while a send of the same delivery is in flight is overwritten
  by the verdict (`services/dispatching.py:162`; tech.md 1.1);
* a sweep that read an occurrence before it was answered writes `expired` over
  the answer (`services/dispatching.py:231`), and a dispatcher that loaded it open
  writes `sent` over `done`, `skipped` or `expired` (`services/dispatching.py:165`);
  `ClosedStaysClosed` says that nobody else does;
* a pause or an edit deletes a row that is still `pending` although its message
  is on a screen: between send and write-back, or after a timeout
  (`db/repositories/occurrences.py:63`);
* leaving does the same to a delivery queued for its automatic repeat
  (`db/repositories/deliveries.py:204`);
* a dispatcher that outlived its lease clears its successor's
  (`services/dispatching.py:154`);
* a planner cycle that straddles a pause inserts occurrences into the paused
  reminder (`services/planning.py:111`);
* the DELETE of a pause or an edit does not see what the planner has inserted and
  not committed (`services/reminders.py:217`), while the UPDATE after it waits for
  the planner's row lock (`services/planning.py:118`) and is applied to what it
  left: the reminder is paused, or has its new schedule, with rows of the old plan
  still queued;
* a pause clears `planned_until`, as tech.md 21.3 asks, so the first cycle after
  the resume plans from `starts_at`, and moments that passed during the pause
  (or, for a replaced schedule, before the edit) are delivered as long as their
  `OCCURRENCE_TTL` has not run out (`services/reminders.py:219`);
* a join and a planner cycle that do not see each other leave an occurrence
  without the watcher's delivery (`services/sharing.py:243`);
* after a pause or an edit the window is expanded again, and a watcher gets
  deliveries of occurrences that went out before they joined, of answered and
  closed ones too: a row that is pending in an occurrence marked done, until the
  dispatcher claims it and settles it as failed (`services/planning.py:160` to
  `177`; `missed` of `DeliveryQueue`);
* decline from an old offer, after accepting, removes the recipient and keeps
  the deliveries (`services/sharing.py:185`);
* a planner cycle that listed the recipients before somebody left queues a
  delivery for them (`services/planning.py:163`);
* a link is checked before the wait for the reminder's lock, so a revoke that
  commits during the wait does not keep that invitee out
  (`services/sharing.py:116`);
* a kill between a digest's send and its mark sends the week again
  (`services/digest.py:110`); `NoSecondCopy` says nothing of it;
* when the clock skips the digest's hour, the moment reads later than the hour,
  and the week counted back from it starts late: that hour of the week before is
  in no digest (`domain/digest.py:49`; its docstring and
  `tests/unit/test_digest.py:90` promise weeks without gaps);
* quiet hours that leave less waking time than the clock jumps end inside the
  next silence (`domain/quiet_hours.py:48`), and where the clock goes back a
  later moment may be delivered before an earlier one;
* a kill between the creation of a reminder and the clearing of the dialogue
  leaves a confirmation whose second press makes a second reminder
  (`bot/handlers/reminders.py:482` to `501`);
* confirm pressed twice makes two reminders: the second handler is routed and
  reads the draft while the first one's create is in flight
  (`bot/handlers/reminders.py:478` to `501`; the comment at `:499` promises that a
  finished wizard cannot create a second one);
* with two handlers of one user at once (updates are handled as tasks, and the
  rate limit is 0.3 s) an answer is lost to `update_data`, an edit is applied to
  the reminder opened before, and, as in the two items above, titles collide and
  a wizard makes two reminders; `tla/Dialogs.tla` shows each with
  `Runs = {u1, u2}`. By the same overlap a category may be archived between a
  create's check and its insert (`services/reminders.py:185`,
  `services/categories.py:89`; tech.md 17, invariant 6), over more steps than the
  two-handler instances reach;
* `/healthz` turning to 503 restarts nothing by itself: the comment at
  `worker/health.py:127` counts on docker, which only marks the container.

## 6. What the model leaves out

* PostgreSQL's deadlock detector: an aborted transaction is `Crash`,
  `SweepAbort`, `ReactAbort` or `Abort`, whatever its cause.
* `DeliveryQueue`: `snoozed_until` (it equals `next_attempt_at` while the row is
  snoozed); the batch limits of the sweep's two queries; ownership checks; the
  journal's `sent` and `failed` rows, which nothing reads back; lock, check and
  count of a reaction are one step, since nothing but the lock's holder writes
  the row and the count is taken under it.
* `Planner`: `fired_count` (recomputed on every write), `starts_at` edits, the
  order of reminders inside a batch, several reminders. Schedules are sets of
  moments; quiet hours are a function on moments.
* `Sharing`: tokens are model values; the owner's own click on the link, which
  is refused before anything is read; what accept and leave do to the queue.
* `Digest`: the text, the category names, the sums; language and new quiet
  hours (a function of the user here).
* `Worker`: the two numbers of the report that only `/metrics` shows; the
  cycles' own work; one clock for marks and for `/healthz`.
* `Dialogs`: paging, screens that only show something, pause and resume (in
  `Planner`), the texts of titles and notes, the codes and emoji of categories;
  foreign categories and reminders, which are refused like those that are gone.
  What a user types is valid or not (`Refuse`). Of two creations that derive one
  code at the same time the unique index refuses the second; that failure is left
  out.
* `Calendar`: one change of offset per zone; sub-slot times; `ends_at` and
  budgets (in `Planner`). The sums of `/stats` are counts over a query.
* Rendering, keyboards, the rate limit, configuration, migrations: no state that
  several actors share.

## 7. Plan

What is left, in this order:

1. An abstract promise of a delivery (queued, on screen, settled; settled once,
   outside stale rows) which `DeliveryQueue` implements under a refinement
   mapping, first with TLC and then as a theorem.
2. `Dialogs` with two handlers at once: what still holds, and a run for the second
   press of confirm.
3. A composition of `Sharing` and `Planner` in which `Invite` is `OpenCommit`,
   and of `Calendar` and `Planner` in which `MomentsOf` is `NextOccurrences`.

Runs stay few: a new module brings one run, and the violated properties give
way when a question is worth more than one of them.
