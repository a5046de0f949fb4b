---------------------------- MODULE WorkerProofs ----------------------------
(***************************************************************************)
(* Proofs about Worker, for any set of cycles and admins and any numbers.  *)
(***************************************************************************)
EXTENDS Worker, WellFoundedInduction, TLAPS

-----------------------------------------------------------------------------
(* Types.                                                                    *)

LEMMA LongerOfType ==
    ASSUME NEW m \in Nat, NEW n \in Nat
    PROVE  /\ LongerOf(m, n) \in Nat /\ m <= LongerOf(m, n) /\ n <= LongerOf(m, n)
           /\ LongerOf(m, n) \in {m, n}
<1> QED
  BY DEF LongerOf

LEMMA StaleAfterType ==
    ASSUME NEW j \in Jobs
    PROVE  StaleAfter(j) \in Nat /\ Oldest(j) = StaleAfter(j) + 1
<1>1. Interval[j] * StaleFactor \in Nat /\ StaleFloor \in Nat
  BY WorkerAssumption
<1> QED
  BY <1>1, LongerOfType DEF StaleAfter, Oldest

LEMMA AgedType ==
    ASSUME job \in [Jobs -> Loop], NEW j \in Jobs
    PROVE  /\ Aged(j) \in Loop /\ Aged(j).pc = job[j].pc
           /\ Aged(j).wait = IF job[j].wait = 0 THEN 0 ELSE job[j].wait - 1
           /\ Aged(j).age = IF job[j].age = Oldest(j) THEN job[j].age ELSE job[j].age + 1
           /\ Aged(j).spent = IF job[j].pc = "sleeping" \/ job[j].spent = Oldest(j)
                              THEN job[j].spent ELSE job[j].spent + 1
<1>1. job[j] \in Loop /\ job[j].age \in Nat /\ job[j].wait \in Nat /\ job[j].spent \in Nat
  BY DEF Loop
<1> DEFINE w == IF job[j].wait = 0 THEN 0 ELSE job[j].wait - 1
           a == IF job[j].age = Oldest(j) THEN job[j].age ELSE job[j].age + 1
           t == IF job[j].pc = "sleeping" \/ job[j].spent = Oldest(j)
                THEN job[j].spent ELSE job[j].spent + 1
<1>2. w \in Nat /\ a \in Nat /\ t \in Nat
  BY <1>1
<1>3. Aged(j) = [job[j] EXCEPT !.wait = w, !.age = a, !.spent = t]
  BY <1>1 DEF Aged, Loop
<1> HIDE DEF w, a, t
<1>4. /\ Aged(j) \in Loop /\ Aged(j).pc = job[j].pc
      /\ Aged(j).wait = w /\ Aged(j).age = a /\ Aged(j).spent = t
  BY <1>1, <1>2, <1>3 DEF Loop
<1> QED
  BY <1>4 DEF w, a, t

LEMMA FinishedType ==
    ASSUME job \in [Jobs -> Loop], NEW j \in Jobs, NEW failed \in BOOLEAN
    PROVE  /\ Finished(j, failed) \in [Jobs -> Loop]
           /\ \A k \in Jobs : k # j => Finished(j, failed)[k] = job[k]
           /\ Finished(j, failed)[j] = [pc |-> "sleeping", age |-> 0, spent |-> 0,
                                        wait |-> IF failed THEN ErrorBackoff ELSE Interval[j]]
<1>1. (IF failed THEN ErrorBackoff ELSE Interval[j]) \in Nat
  BY WorkerAssumption
<1> QED
  BY <1>1 DEF Loop, Finished

LEMMA StartedType ==
    /\ Started \in [Jobs -> Loop]
    /\ \A j \in Jobs : Started[j] = [pc |-> "running", wait |-> 0, age |-> 0, spent |-> 0]
<1> QED
  BY DEF Started, Loop

\* The admins are told in the order of their identifiers: the first is one of them.
LEMMA AddresseeInRest ==
    ASSUME monitor.round.rest \in SUBSET Admins, monitor.round.rest # {}
    PROVE  Addressee \in monitor.round.rest
<1> DEFINE S == monitor.round.rest
           Less == OpToRel(<, Nat)
<1>1. S \subseteq Nat
  BY WorkerAssumption
<1>2. \E x \in S : \A y \in S : ~(<<y, x>> \in Less)
  <2> HIDE DEF S, Less
  <2>1. IsWellFoundedOn(Less, Nat)
    BY NatLessThanWellFounded DEF Less
  <2>2. S # {}
    BY DEF S
  <2> QED
    BY <1>1, <2>1, <2>2, WFMin
<1>3. PICK x \in S : \A y \in S : ~(<<y, x>> \in Less)
  BY <1>2
<1>4. \A y \in S : ~(y < x)
  BY <1>1, <1>3 DEF OpToRel
<1>5. \A y \in S : x <= y
  <2> HIDE DEF S
  <2> QED
    BY <1>1, <1>4
<1> QED
  BY <1>5 DEF Addressee

LEMMA TypeInit == Init => TypeOK
<1> QED
  BY StartedType DEF Init, TypeOK, FreshMonitor

LEMMA TypeStep == TypeOK /\ [Next]_vars => TypeOK'
<1> SUFFICES ASSUME TypeOK, [Next]_vars PROVE TypeOK'
  OBVIOUS
<1> USE DEF TypeOK
<1>1. CASE Tick
  <2>1. \A j \in Jobs : Aged(j) \in Loop
    BY AgedType
  <2> QED
    BY <1>1, <2>1 DEF Tick
<1>2. CASE QueueMoves
  BY <1>2 DEF QueueMoves
<1>3. CASE Restart
  BY <1>3, StartedType, WorkerAssumption DEF Restart, FreshMonitor
<1>4. CASE MonitorRead
  <2>1. Ops \in Jobs
    BY WorkerAssumption
  <2>2. CASE Owes = "nothing"
    BY <1>4, <2>1, <2>2, FinishedType DEF MonitorRead
  <2>3. CASE Owes # "nothing"
    <3>1. [phase |-> "notifying", kind |-> Owes, rest |-> Audience,
           asked |-> Audience # {}, delivered |-> 0] \in Round
      <4>1. Owes \in Edges /\ Audience \in SUBSET Admins
        BY <2>3 DEF Owes, Edges, Audience
      <4> QED
        BY <4>1 DEF Round
    <3> QED
      BY <1>4, <2>3, <3>1 DEF MonitorRead
  <2> QED
    BY <2>2, <2>3
<1>5. CASE MonitorFails
  BY <1>5, FinishedType, WorkerAssumption DEF MonitorFails
<1>6. CASE NotifyDelivered \/ NotifyForbidden \/ NotifyFailed
  <2>1. monitor.round \in Round /\ Addressee \in Admins
    <3>1. monitor.round \in Round
      BY <1>6 DEF NotifyDelivered, NotifyForbidden, NotifyFailed, Notifying, Resting
    <3>2. monitor.round.rest # {}
      BY <1>6 DEF NotifyDelivered, NotifyForbidden, NotifyFailed, Notifying
    <3> QED
      BY <3>1, <3>2, AddresseeInRest DEF Round
  <2>2. WithoutAddressee \in SUBSET Admins /\ monitor.round.delivered \in Nat
    BY <2>1 DEF WithoutAddressee, Round
  <2>3. CASE NotifyDelivered
    <3>1. [monitor.round EXCEPT !.rest = WithoutAddressee, !.delivered = @ + 1] \in Round
      <4>1. monitor.round.delivered + 1 \in Nat
        BY <2>2
      <4> QED
        BY <2>1, <2>2, <4>1, Zenon DEF Round
    <3>2. monitor' = [monitor EXCEPT !.round =
                        [monitor.round EXCEPT !.rest = WithoutAddressee, !.delivered = @ + 1]]
      BY <2>3 DEF NotifyDelivered
    <3>3. monitor.round.kind \in Edges
      BY <2>1 DEF Round
    <3> QED
      BY <2>3, <3>1, <3>2, <3>3 DEF NotifyDelivered
  <2>4. [monitor.round EXCEPT !.rest = WithoutAddressee] \in Round
    BY <2>1, <2>2, Zenon DEF Round
  <2>5. CASE NotifyForbidden
    <3>1. monitor' = [monitor EXCEPT !.muted = monitor.muted \cup {Addressee},
                        !.round = [monitor.round EXCEPT !.rest = WithoutAddressee]]
      BY <2>5 DEF NotifyForbidden
    <3>2. monitor.muted \cup {Addressee} \in SUBSET Admins
      BY <2>1
    <3> QED
      BY <2>4, <2>5, <3>1, <3>2 DEF NotifyForbidden
  <2>6. CASE NotifyFailed
    <3>1. monitor' = [monitor EXCEPT !.round = [monitor.round EXCEPT !.rest = WithoutAddressee]]
      BY <2>6 DEF NotifyFailed
    <3> QED
      BY <2>4, <2>6, <3>1 DEF NotifyFailed
  <2> QED
    BY <1>6, <2>3, <2>5, <2>6
<1>7. CASE MonitorSettles
  <2>1. Settled \in [alert : {"clear", "firing"}, muted : SUBSET Admins, round : {Resting} \cup Round]
    BY DEF Settled, EdgeState
  <2> QED
    BY <1>7, <2>1, FinishedType, WorkerAssumption DEF MonitorSettles
<1>8. CASE \E j \in Jobs : Wake(j) \/ Finish(j) \/ Hang(j)
  <2>1. PICK j \in Jobs : Wake(j) \/ Finish(j) \/ Hang(j)
    BY <1>8
  <2>2. CASE Wake(j)
    BY <2>2 DEF Wake, Loop
  <2>3. CASE Finish(j)
    <3>1. PICK failed \in BOOLEAN : job' = Finished(j, failed)
      BY <2>3 DEF Finish
    <3> QED
      BY <2>3, <3>1, FinishedType DEF Finish
  <2>4. CASE Hang(j)
    BY <2>4 DEF Hang, Loop
  <2> QED
    BY <2>1, <2>2, <2>3, <2>4
<1>9. CASE UNCHANGED vars
  BY <1>9 DEF vars
<1> QED
  BY <1>1, <1>2, <1>3, <1>4, <1>5, <1>6, <1>7, <1>8, <1>9 DEF Next, Monitor

LEMMA TypeAlways == Spec => []TypeOK
<1> QED
  BY TypeInit, TypeStep, PTL DEF Spec

\* The loops, the monitor and what was told keep their shapes.
THEOREM WorkerTypeOK == Spec => []TypeOK
<1> QED
  BY TypeAlways

-----------------------------------------------------------------------------
(* What the monitor believes.  The property speaks of a monitor at rest; the *)
(* invariant adds what holds while a message goes round the admins: until it *)
(* gets through to one, the old belief is still what they were told, and a   *)
(* round with nobody to ask stays without an audience.                       *)

Agrees == Audience # {} => (monitor.alert = "firing" <=> told = "raised")

Believes ==
  /\ monitor.round = Resting => Agrees
  /\ monitor.round # Resting =>
       /\ monitor.round.kind = "raised" <=> monitor.alert = "clear"
       /\ monitor.round.delivered = 0 => Agrees
       /\ monitor.round.delivered # 0 => told = monitor.round.kind
       /\ ~monitor.round.asked => Audience = {}

LEMMA BelievesInit == Init => Believes
<1> QED
  BY DEF Init, FreshMonitor, Believes, Agrees

LEMMA BelievesStep == TypeOK /\ Believes /\ [Next]_vars => Believes'
<1> SUFFICES ASSUME TypeOK, Believes, [Next]_vars PROVE Believes'
  OBVIOUS
<1>1. monitor \in [alert : {"clear", "firing"}, muted : SUBSET Admins, round : {Resting} \cup Round]
  BY DEF TypeOK
<1>2. CASE UNCHANGED <<monitor, told>>
  BY <1>2 DEF Believes, Agrees, Audience
<1>3. CASE Restart
  <2>1. monitor'.round = Resting /\ monitor'.alert = "clear" /\ told' = "nothing"
    BY <1>3 DEF Restart, FreshMonitor
  <2> QED
    BY <2>1 DEF Believes, Agrees
<1>4. CASE MonitorRead /\ Owes # "nothing"
  <2> DEFINE round == [phase |-> "notifying", kind |-> Owes, rest |-> Audience,
                       asked |-> Audience # {}, delivered |-> 0]
  <2>1. monitor' = [monitor EXCEPT !.round = round] /\ UNCHANGED told /\ monitor.round = Resting
    BY <1>4 DEF MonitorRead
  <2>2. monitor'.round = round /\ monitor'.alert = monitor.alert /\ monitor'.muted = monitor.muted
    BY <1>1, <2>1
  <2>3. Audience' = Audience /\ (Agrees => Agrees')
    BY <2>1, <2>2 DEF Audience, Agrees
  <2>4. round.kind = Owes /\ round.delivered = 0 /\ (~round.asked => Audience = {})
    OBVIOUS
  <2>5. round # Resting
    BY DEF Resting
  <2>6. Owes = "raised" <=> monitor.alert = "clear"
    BY <1>1, <1>4 DEF Owes
  <2> HIDE DEF round
  <2> QED
    BY <2>1, <2>2, <2>3, <2>4, <2>5, <2>6 DEF Believes
<1>5. CASE NotifyDelivered \/ NotifyForbidden \/ NotifyFailed
  <2>1. monitor.round \in Round /\ monitor.round # Resting
    BY <1>1, <1>5 DEF NotifyDelivered, NotifyForbidden, NotifyFailed, Notifying, Resting
  <2>2. CASE NotifyDelivered
    <3> DEFINE round == [monitor.round EXCEPT !.rest = WithoutAddressee, !.delivered = @ + 1]
    <3>1. monitor' = [monitor EXCEPT !.round = round] /\ told' = monitor.round.kind
      BY <2>2 DEF NotifyDelivered
    <3>2. /\ round.kind = monitor.round.kind /\ round.asked = monitor.round.asked
          /\ round.delivered = monitor.round.delivered + 1 /\ monitor.round.delivered \in Nat
          /\ round.phase = "notifying"
      BY <2>1 DEF Round
    <3>3. round.delivered # 0 /\ round # Resting
      <4> HIDE DEF round
      <4> QED
        BY <3>2 DEF Resting
    <3>4. monitor'.round = round /\ monitor'.alert = monitor.alert /\ Audience' = Audience
      BY <1>1, <3>1 DEF Audience
    <3> HIDE DEF round
    <3> QED
      BY <2>1, <3>1, <3>2, <3>3, <3>4 DEF Believes
  <2>3. CASE NotifyForbidden \/ NotifyFailed
    <3> DEFINE round == [monitor.round EXCEPT !.rest = WithoutAddressee]
    <3>1. /\ monitor'.round = round /\ monitor'.alert = monitor.alert
          /\ monitor.muted \subseteq monitor'.muted
      BY <1>1, <2>3 DEF NotifyForbidden, NotifyFailed
    <3>2. told' = told
      BY <2>3 DEF NotifyForbidden, NotifyFailed
    <3>3. /\ round.kind = monitor.round.kind /\ round.asked = monitor.round.asked
          /\ round.delivered = monitor.round.delivered /\ round.phase = "notifying"
      BY <2>1 DEF Round
    <3>4. round # Resting
      <4> HIDE DEF round
      <4> QED
        BY <3>3 DEF Resting
    <3>5. Audience' \subseteq Audience /\ (Agrees => Agrees')
      BY <3>1, <3>2 DEF Audience, Agrees
    <3> HIDE DEF round
    <3> QED
      BY <2>1, <3>1, <3>2, <3>3, <3>4, <3>5 DEF Believes
  <2> QED
    BY <1>5, <2>2, <2>3
<1>6. CASE MonitorSettles
  <2>1. monitor.round \in Round /\ monitor.round # Resting /\ told' = told /\ monitor' = Settled
    BY <1>1, <1>6 DEF MonitorSettles, Resting
  <2>2. monitor'.round = Resting /\ monitor'.muted = monitor.muted /\ Audience' = Audience
    BY <1>1, <2>1 DEF Settled, Audience
  <2>3. CASE monitor.round.asked /\ monitor.round.delivered = 0
    <3>1. monitor'.alert = monitor.alert
      BY <1>1, <2>1, <2>3 DEF Settled
    <3> QED
      BY <2>1, <2>2, <2>3, <3>1 DEF Believes, Agrees
  <2>4. CASE ~(monitor.round.asked /\ monitor.round.delivered = 0)
    <3>1. monitor'.alert = EdgeState
      BY <1>1, <2>1, <2>4 DEF Settled
    <3>2. Audience # {} => told = monitor.round.kind
      BY <2>1, <2>4 DEF Believes
    <3>3. EdgeState = "firing" <=> monitor.round.kind = "raised"
      BY DEF EdgeState
    <3> QED
      BY <2>1, <2>2, <3>1, <3>2, <3>3 DEF Believes, Agrees
  <2> QED
    BY <2>3, <2>4
<1> QED
  BY <1>2, <1>3, <1>4, <1>5, <1>6
  DEF Next, Monitor, Tick, QueueMoves, MonitorRead, MonitorFails, Wake, Finish, Hang, vars

\* The admins' last news and the monitor's belief agree, for any number of
\* admins, whoever of them blocks the bot and whatever fails on the way.
THEOREM WorkerBelievesWhatWasTold == Spec => []BelievesWhatWasTold
<1>1. Believes => BelievesWhatWasTold
  BY DEF Believes, Agrees, BelievesWhatWasTold
<1> QED
  BY <1>1, BelievesInit, BelievesStep, TypeAlways, PTL DEF Spec

-----------------------------------------------------------------------------
(* What /healthz says.  A sleeper's mark is no older than the sleep it is    *)
(* taking, and an attempt's no older than that sleep and the attempt.        *)

Young ==
  \A j \in Jobs :
    /\ job[j].age <= Oldest(j)
    /\ job[j].pc = "sleeping" => job[j].age + job[j].wait <= LongestSleep(j) /\ job[j].spent = 0
    /\ job[j].pc # "sleeping" => \/ job[j].age <= LongestSleep(j) + job[j].spent
                                 \/ job[j].spent = Oldest(j)

\* Neither sleep reaches the age at which a mark is stale.
LEMMA SleepIsShort ==
    ASSUME NEW j \in Jobs
    PROVE  /\ LongestSleep(j) \in Nat /\ LongestSleep(j) <= StaleAfter(j)
           /\ Interval[j] <= LongestSleep(j) /\ ErrorBackoff <= LongestSleep(j)
           /\ Interval[j] \in Nat /\ ErrorBackoff \in Nat
<1>1. /\ Interval[j] \in Nat \ {0} /\ ErrorBackoff \in Nat /\ StaleFloor \in Nat
      /\ StaleFactor \in Nat \ {0} /\ ErrorBackoff <= StaleFloor
  BY WorkerAssumption
<1>2. Interval[j] <= Interval[j] * StaleFactor /\ Interval[j] * StaleFactor \in Nat
  BY <1>1
<1>3. Interval[j] <= StaleAfter(j) /\ ErrorBackoff <= StaleAfter(j)
  BY <1>1, <1>2 DEF StaleAfter, LongerOf
<1> QED
  BY <1>1, <1>3, LongerOfType DEF LongestSleep

LEMMA YoungStep == TypeOK /\ Young /\ [Next]_vars => Young'
<1> SUFFICES ASSUME TypeOK, Young, [Next]_vars PROVE Young'
  OBVIOUS
<1> DEFINE Fresh(j) ==
      /\ job'[j].age <= Oldest(j)
      /\ job'[j].pc = "sleeping" => job'[j].age + job'[j].wait <= LongestSleep(j) /\ job'[j].spent = 0
      /\ job'[j].pc # "sleeping" => \/ job'[j].age <= LongestSleep(j) + job'[j].spent
                                    \/ job'[j].spent = Oldest(j)
<1>0. (\A j \in Jobs : Fresh(j)) => Young'
  BY DEF Young, Oldest, LongestSleep, StaleAfter
<1>1. /\ job \in [Jobs -> Loop]
      /\ \A j \in Jobs : job[j].age \in Nat /\ job[j].wait \in Nat /\ job[j].spent \in Nat
  BY DEF TypeOK, Loop
<1>2. \A j \in Jobs : /\ StaleAfter(j) \in Nat /\ Oldest(j) = StaleAfter(j) + 1
                      /\ LongestSleep(j) \in Nat /\ LongestSleep(j) <= StaleAfter(j)
                      /\ Interval[j] \in Nat /\ Interval[j] <= LongestSleep(j)
                      /\ ErrorBackoff \in Nat /\ ErrorBackoff <= LongestSleep(j)
  BY StaleAfterType, SleepIsShort
<1>3. CASE Tick
  <2> SUFFICES ASSUME NEW j \in Jobs PROVE Fresh(j)
    BY <1>0
  <2>1. job'[j] = Aged(j) /\ ~Overdue(j)
    BY <1>3 DEF Tick
  <2>2. /\ job'[j].pc = job[j].pc
        /\ job'[j].wait = IF job[j].wait = 0 THEN 0 ELSE job[j].wait - 1
        /\ job'[j].age = IF job[j].age = Oldest(j) THEN job[j].age ELSE job[j].age + 1
        /\ job'[j].spent = IF job[j].pc = "sleeping" \/ job[j].spent = Oldest(j)
                           THEN job[j].spent ELSE job[j].spent + 1
    BY <1>1, <2>1, AgedType
  <2>3. CASE job[j].pc = "sleeping"
    BY <1>1, <1>2, <2>1, <2>2, <2>3 DEF Young, Overdue
  <2>4. CASE job[j].pc # "sleeping"
    BY <1>1, <1>2, <2>2, <2>4 DEF Young
  <2> QED
    BY <2>3, <2>4
<1>4. ASSUME NEW j \in Jobs, NEW failed \in BOOLEAN, job' = Finished(j, failed)
      PROVE  Young'
  <2> SUFFICES ASSUME NEW k \in Jobs PROVE Fresh(k)
    BY <1>0
  <2>1. CASE k = j
    <3>1. /\ job'[k].pc = "sleeping" /\ job'[k].age = 0 /\ job'[k].spent = 0
          /\ job'[k].wait \in {ErrorBackoff, Interval[k]}
      <4>1. job'[k] = [pc |-> "sleeping", age |-> 0, spent |-> 0,
                       wait |-> IF failed THEN ErrorBackoff ELSE Interval[k]]
        BY <1>1, <1>4, <2>1, FinishedType
      <4> QED
        BY <4>1
    <3> QED
      BY <1>2, <3>1
  <2>2. CASE k # j
    BY <1>1, <1>4, <2>2, FinishedType DEF Young
  <2> QED
    BY <2>1, <2>2
<1>5. CASE \E j \in Jobs : Finish(j)
  BY <1>4, <1>5 DEF Finish
<1>6. CASE MonitorFails \/ MonitorSettles \/ (MonitorRead /\ Owes = "nothing")
  BY <1>4, <1>6, WorkerAssumption DEF MonitorFails, MonitorSettles, MonitorRead
<1>7. CASE Restart
  <2> SUFFICES ASSUME NEW j \in Jobs PROVE Fresh(j)
    BY <1>0
  <2>1. job'[j].age = 0 /\ job'[j].spent = 0 /\ job'[j].pc = "running"
    BY <1>7, StartedType DEF Restart
  <2> QED
    BY <1>2, <2>1
<1>8. ASSUME NEW j \in Jobs, Wake(j) \/ Hang(j)
      PROVE  Young'
  <2> SUFFICES ASSUME NEW k \in Jobs PROVE Fresh(k)
    BY <1>0
  <2>1. /\ job'[k].age = job[k].age /\ job'[k].wait = job[k].wait
        /\ job'[k].spent = job[k].spent
    BY <1>1, <1>8 DEF Wake, Hang, Loop
  <2>2. CASE k = j
    BY <1>1, <1>2, <1>8, <2>1, <2>2 DEF Wake, Hang, Young, Loop
  <2>3. CASE k # j
    BY <1>1, <1>8, <2>1, <2>3 DEF Wake, Hang, Young
  <2> QED
    BY <2>2, <2>3
<1>9. CASE UNCHANGED job
  BY <1>9 DEF Young, Oldest, LongestSleep, StaleAfter
<1> QED
  BY <1>3, <1>5, <1>6, <1>7, <1>8, <1>9
  DEF Next, Monitor, QueueMoves, MonitorRead, NotifyDelivered, NotifyForbidden, NotifyFailed, vars

\* A stale mark means an attempt that has filled the threshold but for the sleep
\* before it, for any set of cycles and intervals, however long attempts take and
\* however many of them fail.
THEOREM WorkerStaleMeansLongAttempt == Spec => []StaleMeansLongAttempt
<1>1. TypeOK /\ Young => StaleMeansLongAttempt
  <2> SUFFICES ASSUME TypeOK, Young, NEW j \in Jobs, Stale(j)
               PROVE  job[j].pc # "sleeping" /\ job[j].spent + LongestSleep(j) > StaleAfter(j)
    BY DEF StaleMeansLongAttempt
  <2>1. /\ job[j].age \in Nat /\ job[j].wait \in Nat /\ job[j].spent \in Nat
        /\ StaleAfter(j) \in Nat /\ Oldest(j) = StaleAfter(j) + 1
        /\ LongestSleep(j) \in Nat /\ LongestSleep(j) <= StaleAfter(j)
    BY StaleAfterType, SleepIsShort DEF TypeOK, Loop
  <2>2. job[j].age > StaleAfter(j)
    BY DEF Stale
  <2>3. job[j].pc # "sleeping"
    BY <2>1, <2>2 DEF Young
  <2> QED
    BY <2>1, <2>2, <2>3 DEF Young
<1>2. Init => Young
  <2> SUFFICES ASSUME Init, NEW j \in Jobs
               PROVE  job[j].pc = "running" /\ job[j].age = 0 /\ job[j].spent = 0
                      /\ Oldest(j) \in Nat /\ LongestSleep(j) \in Nat
    BY DEF Young
  <2>1. job[j] = [pc |-> "running", wait |-> 0, age |-> 0, spent |-> 0]
    BY StartedType DEF Init
  <2> QED
    BY <2>1, StaleAfterType, SleepIsShort
<1> QED
  BY <1>1, <1>2, YoungStep, TypeAlways, PTL DEF Spec
=============================================================================
