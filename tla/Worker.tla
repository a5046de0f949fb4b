------------------------------- MODULE Worker -------------------------------
(***************************************************************************)
(* The worker process: its loops (worker/main.py), their heartbeats and    *)
(* what /healthz says of them (worker/health.py), and the fifth cycle,     *)
(* ops.monitor, which tells the admins when the queue lags                 *)
(* (services/ops.py).  What the other cycles do is in Planner,             *)
(* DeliveryQueue and Digest; here they take time, fail or hang.            *)
(*                                                                         *)
(* Time is kept as ages and countdowns, so it needs no end.                *)
(***************************************************************************)
EXTENDS Naturals, FiniteSets

CONSTANTS Jobs, Ops,       \* the cycles, and the one that is ops.monitor
          Interval,        \* seconds between attempts of each
          ErrorBackoff,    \* ERROR_BACKOFF_SECONDS
          StaleFactor,     \* HEALTH_STALE_FACTOR
          StaleFloor,      \* HEALTH_STALE_FLOOR_SECONDS
          Admins,          \* settings.admin_ids, integers
          AlertLag,        \* settings.alert_lag
          Lags,            \* the lags queue_lag may report
          MaxRestarts      \* bound on restarts of the process

ASSUME WorkerAssumption ==
  /\ Ops \in Jobs /\ Interval \in [Jobs -> Nat \ {0}]
  /\ {ErrorBackoff, StaleFactor, StaleFloor} \subseteq Nat \ {0}
  /\ ErrorBackoff <= StaleFloor         \* 5 s and 60 s, both constants of the code
  /\ Admins \subseteq Nat /\ IsFiniteSet(Admins)
  /\ AlertLag \in Nat /\ Lags \subseteq Nat /\ MaxRestarts \in Nat

VARIABLES job,       \* of each loop: what it does, the age of its mark, and for how
                     \* long its attempt has been running (history)
          lag,       \* how long the oldest due delivery has been waiting
          monitor,   \* MonitorState, and the alert being sent
          told,      \* history: the last alert of this process that got through
          restarts

vars == <<job, lag, monitor, told, restarts>>

LongerOf(m, n) == IF m > n THEN m ELSE n

StaleAfter(j) == LongerOf(Interval[j] * StaleFactor, StaleFloor)

Stale(j) == job[j].age > StaleAfter(j)

\* healthz: 503 as soon as one cycle is stale.
Healthy == \A j \in Jobs : ~Stale(j)

Loop == [pc : {"sleeping", "running", "hung"}, wait : Nat, age : Nat, spent : Nat]

Edges == {"raised", "cleared"}      \* AlertKind
Round == [phase : {"notifying"}, kind : Edges, rest : SUBSET Admins,
          asked : BOOLEAN, delivered : Nat]
Resting == [phase |-> "resting"]
FreshMonitor == [alert |-> "clear", muted |-> {}, round |-> Resting]

\* register, then every loop starts with an attempt.
Started == [j \in Jobs |-> [pc |-> "running", wait |-> 0, age |-> 0, spent |-> 0]]

Init ==
  /\ job = Started
  /\ lag \in Lags
  /\ monitor = FreshMonitor
  /\ told = "nothing"
  /\ restarts = 0

---------------------------------------------------------------------------
(* run_loop.                                                               *)

\* Mutant: only a successful attempt is marked.
FinishedUnmarked(j, failed) ==
  [job EXCEPT ![j] = [pc |-> "sleeping", wait |-> IF failed THEN ErrorBackoff ELSE Interval[j],
                      age |-> IF failed THEN @.age ELSE 0, spent |-> 0]]

\* The mark goes down on every attempt, failed ones included.
Finished(j, failed) ==
  [job EXCEPT ![j] = [pc |-> "sleeping", wait |-> IF failed THEN ErrorBackoff ELSE Interval[j],
                      age |-> 0, spent |-> 0]]

Wake(j) ==
  /\ job[j].pc = "sleeping" /\ job[j].wait = 0
  /\ job' = [job EXCEPT ![j].pc = "running"]
  /\ UNCHANGED <<lag, monitor, told, restarts>>

\* One of the other cycles returns or raises.
Finish(j) ==
  /\ j # Ops /\ job[j].pc = "running"
  /\ \E failed \in BOOLEAN : job' = Finished(j, failed)
  /\ UNCHANGED <<lag, monitor, told, restarts>>

\* An await inside the attempt never returns.
Hang(j) ==
  /\ job[j].pc = "running"
  /\ job' = [job EXCEPT ![j].pc = "hung"]
  /\ UNCHANGED <<lag, monitor, told, restarts>>

\* The process ends, for whatever reason, and its container is started again.
Restart ==
  /\ restarts < MaxRestarts /\ restarts' = restarts + 1
  /\ job' = Started
  /\ monitor' = FreshMonitor
  /\ told' = "nothing"
  /\ UNCHANGED lag

Oldest(j) == StaleAfter(j) + 1     \* older marks are not told apart

\* Mutant: only a cycle at rest grows old.
AgedAtRest(j) ==
  [job[j] EXCEPT !.wait = IF @ = 0 THEN 0 ELSE @ - 1,
                 !.age = IF job[j].pc = "hung" \/ @ = Oldest(j) THEN @ ELSE @ + 1,
                 !.spent = IF job[j].pc = "sleeping" \/ @ = Oldest(j) THEN @ ELSE @ + 1]

Aged(j) ==
  [job[j] EXCEPT !.wait = IF @ = 0 THEN 0 ELSE @ - 1,
                 !.age = IF @ = Oldest(j) THEN @ ELSE @ + 1,
                 !.spent = IF job[j].pc = "sleeping" \/ @ = Oldest(j) THEN @ ELSE @ + 1]

\* The event loop wakes a sleeper on time.  Nothing bounds an attempt: it may
\* take any time before it ends.
Overdue(j) == job[j].pc = "sleeping" /\ job[j].wait = 0

Tick ==
  /\ \A j \in Jobs : ~Overdue(j)
  /\ job' = [j \in Jobs |-> Aged(j)]
  /\ UNCHANGED <<lag, monitor, told, restarts>>

QueueMoves ==
  /\ \E l \in Lags : l # lag /\ lag' = l
  /\ UNCHANGED <<job, monitor, told, restarts>>

---------------------------------------------------------------------------
(* ops.monitor: run, _notify, _alert_failed.                               *)

\* decide_alert: the comparison is strict, and only an edge owes a message.
Firing == lag > AlertLag
Owes == IF Firing /\ monitor.alert = "clear" THEN "raised"
        ELSE IF ~Firing /\ monitor.alert = "firing" THEN "cleared"
        ELSE "nothing"

Audience == Admins \ monitor.muted

\* The queue is read; between the edges there is nothing to say.
MonitorRead ==
  /\ job[Ops].pc = "running" /\ monitor.round = Resting
  /\ IF Owes = "nothing"
     THEN job' = Finished(Ops, FALSE) /\ UNCHANGED monitor
     ELSE /\ monitor' = [monitor EXCEPT !.round =
                           [phase |-> "notifying", kind |-> Owes, rest |-> Audience,
                            asked |-> Audience # {}, delivered |-> 0]]
          /\ UNCHANGED job
  /\ UNCHANGED <<lag, told, restarts>>

\* The query raises.
MonitorFails ==
  /\ job[Ops].pc = "running" /\ monitor.round = Resting
  /\ job' = Finished(Ops, TRUE)
  /\ UNCHANGED <<lag, monitor, told, restarts>>

Notifying == job[Ops].pc = "running" /\ monitor.round.phase = "notifying" /\ monitor.round.rest # {}
Addressee == CHOOSE a \in monitor.round.rest : \A b \in monitor.round.rest : a <= b
WithoutAddressee == monitor.round.rest \ {Addressee}

NotifyDelivered ==
  /\ Notifying
  /\ monitor' = [monitor EXCEPT !.round.rest = WithoutAddressee, !.round.delivered = @ + 1]
  /\ told' = monitor.round.kind
  /\ UNCHANGED <<job, lag, restarts>>

\* The admin blocked the bot: no more alerts to them in this process.
NotifyForbidden ==
  /\ Notifying
  /\ monitor' = [monitor EXCEPT !.round.rest = WithoutAddressee, !.muted = @ \cup {Addressee}]
  /\ UNCHANGED <<job, lag, told, restarts>>

NotifyFailed ==
  /\ Notifying
  /\ monitor' = [monitor EXCEPT !.round.rest = WithoutAddressee]
  /\ UNCHANGED <<job, lag, told, restarts>>

EdgeState == IF monitor.round.kind = "raised" THEN "firing" ELSE "clear"

\* Mutant: the edge counts as reported although nobody heard of it.
SettledUnheard == [monitor EXCEPT !.alert = EdgeState, !.round = Resting]

\* Nobody heard it: the old state stays, and the next tick tries again.
Settled ==
  IF monitor.round.asked /\ monitor.round.delivered = 0
  THEN [monitor EXCEPT !.round = Resting]
  ELSE [monitor EXCEPT !.alert = EdgeState, !.round = Resting]

MonitorSettles ==
  /\ job[Ops].pc = "running"
  /\ monitor.round.phase = "notifying" /\ monitor.round.rest = {}
  /\ monitor' = Settled
  /\ job' = Finished(Ops, FALSE)
  /\ UNCHANGED <<lag, told, restarts>>

Monitor == \/ MonitorRead \/ MonitorFails \/ MonitorSettles
           \/ NotifyDelivered \/ NotifyForbidden \/ NotifyFailed

Next == \/ Tick \/ QueueMoves \/ Restart \/ Monitor
        \/ \E j \in Jobs : Wake(j) \/ Finish(j) \/ Hang(j)

Spec == Init /\ [][Next]_vars

\* The event loop runs what is ready, an attempt that does not hang ends, the
\* clock advances, the database and
\* Telegram answer again and again.
FairSpec ==
  /\ Spec
  /\ WF_vars(Tick)
  /\ WF_vars(Monitor) /\ SF_vars(MonitorRead) /\ SF_vars(NotifyDelivered)
  /\ \A j \in Jobs : WF_vars(Wake(j)) /\ WF_vars(Finish(j))

---------------------------------------------------------------------------
(* Properties.                                                             *)

TypeOK ==
  /\ job \in [Jobs -> Loop]
  /\ lag \in Lags
  /\ monitor \in [alert : {"clear", "firing"}, muted : SUBSET Admins,
                  round : {Resting} \cup Round]
  /\ told \in {"nothing"} \cup Edges
  /\ restarts \in Nat

\* /healthz turns to 503 for a cycle that is inside one attempt, and has been
\* there for all of its threshold but the sleep before it.  A cycle that sleeps is
\* never stale, however many attempts have failed and whatever the other cycles
\* do: "a database that blinks must not look like a hung worker" (main.py:36).
LongestSleep(j) == LongerOf(Interval[j], ErrorBackoff)

StaleMeansLongAttempt ==
  \A j \in Jobs : Stale(j) =>
    /\ job[j].pc # "sleeping"
    /\ job[j].spent + LongestSleep(j) > StaleAfter(j)

\* A cycle that hangs is reported in the end, until the process is restarted.
HungIsReported ==
  \A j \in Jobs : job[j].pc = "hung" ~> (~Healthy \/ job[j].pc # "hung")

\* At rest, and while there is anybody to tell, the monitor believes what the
\* admins were last told: an alert is not repeated, an edge is not skipped, and
\* one that reached nobody is still owed.
BelievesWhatWasTold ==
  (monitor.round = Resting /\ Audience # {}) =>
    (monitor.alert = "firing" <=> told = "raised")

\* A lag that stays is reported in the end, however many rounds reached nobody.
LagIsReported ==
  <>[](Firing /\ Audience # {} /\ job[Ops].pc # "hung") => <>[](told = "raised")
=============================================================================
