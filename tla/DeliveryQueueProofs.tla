------------------------- MODULE DeliveryQueueProofs -------------------------
(***************************************************************************)
(* Proofs about DeliveryQueue, for every value of its constants.           *)
(***************************************************************************)
EXTENDS DeliveryQueue, TLAPS

-----------------------------------------------------------------------------
(* The typing invariant, strengthened until it is inductive. *)

\* What is queued has a moment to be sent at.
QueuedHasMoment ==
    \A d \in Deliveries : row[d].status \in Queued => row[d].next_attempt_at \in Nat

\* What a verdict may turn a delivery into.
VerdictOK(v) ==
    /\ v \in Verdict
    /\ v.status \in {"sent", "pending", "failed", "blocked"}
    /\ v.status = "pending" => v.next_attempt_at \in Nat

\* A dispatcher that has sent holds the verdict it will write.
VerdictReady ==
    \A w \in Dispatchers : worker[w].pc = "sent" => VerdictOK(worker[w].verdict)

\* A batch is made of rows that were queued and due when they were claimed.
BatchWasDue ==
    \A w \in Dispatchers : \A m \in worker[w].batch :
        m.status \in Queued /\ m.next_attempt_at <= now

\* A dispatcher between two cycles holds nothing.
IdleHoldsNothing ==
    \A w \in Dispatchers : worker[w].pc = "idle" => worker[w].batch = {}

Typed == /\ TypeOK
         /\ QueuedHasMoment
         /\ VerdictReady
         /\ BatchWasDue
         /\ IdleHoldsNothing

LEMMA TimeIsNat == Time \subseteq Nat
  BY ClockAssumption DEF Time

\* A refund never makes a counter negative (domain/dispatching.py _refund).
LEMMA RefundNat == \A a \in Nat : Refund(a) \in Nat
  BY DEF Refund

LEMMA AbortVerdict ==
    ASSUME NEW reason, NEW a \in Nat
    PROVE  VerdictOK(DecideAbort(reason, a))
  BY RefundNat DEF VerdictOK, DecideAbort, Verdict, DeliveryStatus, NoTime

LEMMA SuccessVerdict == VerdictOK(DecideSuccess)
  BY DEF VerdictOK, DecideSuccess, Verdict, DeliveryStatus, NoTime

\* Whatever Telegram answers, the write-back is a valid one, and a retry has a
\* moment (domain/dispatching.py decide_failure).
LEMMA FailureVerdict ==
    ASSUME NEW a \in Nat \ {0}, NEW error \in ErrorClass, NEW t \in Nat
    PROVE  VerdictOK(DecideFailure(a, error, t))
<1>1. CASE ~ShouldRetry(a, error)
  BY <1>1 DEF VerdictOK, DecideFailure, Verdict, DeliveryStatus, NoTime
<1>2. CASE ShouldRetry(a, error) /\ error = "retry_after"
  BY <1>2, RefundNat, FloodDelayAssumption
  DEF VerdictOK, DecideFailure, Verdict, DeliveryStatus
<1>3. CASE ShouldRetry(a, error) /\ error # "retry_after"
  <2>1. a \in 1..MaxAttempts
    BY <1>3, MaxAttemptsAssumption DEF ShouldRetry
  <2>2. RetryDelay[a] \in Nat
    BY <2>1, RetryDelayAssumption
  <2> QED
    BY <1>3, <2>2 DEF VerdictOK, DecideFailure, Verdict, DeliveryStatus
<1> QED
  BY <1>1, <1>2, <1>3

\* A snooze ends at a moment (domain/reactions.py postpone).
LEMMA PostponeNat ==
    ASSUME NEW d \in Deliveries, NEW at \in Time
    PROVE  Postpone(d, at) \in Nat
<1>1. at + SnoozeFor \in 0..(MaxTime + SnoozeFor)
  BY ClockAssumption, TuningAssumption DEF Time
<1>2. UserOf[d] \in Users
  BY OwnersAssumption
<1>3. QuietShift[UserOf[d]][at + SnoozeFor] \in Nat
  BY <1>1, <1>2, QuietAssumption
<1> QED
  BY <1>1, <1>3, ClockAssumption, TuningAssumption DEF Postpone, Time

\* An inserted row is a row, due when its occurrence fires.
LEMMA FreshRowTyped ==
    \A d \in Deliveries : FreshRow(d) \in Row /\ FreshRow(d).next_attempt_at \in Nat
  BY OwnersAssumption, ClockAssumption, TimeIsNat
  DEF FreshRow, Row, DeliveryStatus, NoTime

LEMMA InitTyped == Init => Typed
<1> SUFFICES ASSUME Init PROVE Typed
  OBVIOUS
<1>1. \A d \in Deliveries : FreshRow(d) \in Row /\ FreshRow(d).next_attempt_at \in Nat
  BY FreshRowTyped
<1>2. IdleWorker \in Worker /\ IdleWorker.pc = "idle" /\ IdleWorker.batch = {}
  BY DEF IdleWorker, Worker
<1>3. occ \in [Occs -> OccRow]
  BY DEF Init, OccRow, OccurrenceStatus
<1>4. TypeOK
  BY <1>1, <1>2, <1>3, ClockAssumption, OwnersAssumption
  DEF Init, TypeOK, Time, Tap, Reaper, IdleTap, IdleReaper
<1>5. QueuedHasMoment
  BY <1>1 DEF Init, QueuedHasMoment, Gone, Queued
<1>6. VerdictReady /\ BatchWasDue /\ IdleHoldsNothing
  BY <1>2 DEF Init, VerdictReady, BatchWasDue, IdleHoldsNothing
<1> QED
  BY <1>4, <1>5, <1>6 DEF Typed

\* What only the clock changes.
LEMMA TickTyped == Typed /\ Tick => Typed'
<1> SUFFICES ASSUME Typed, Tick PROVE Typed'
  OBVIOUS
<1> USE DEF Typed, Tick, dbVars, historyVars
<1>1. TypeOK'
  BY ClockAssumption DEF TypeOK, Time
<1>2. QueuedHasMoment' /\ VerdictReady' /\ IdleHoldsNothing'
  BY DEF QueuedHasMoment, VerdictReady, IdleHoldsNothing
<1>3. BatchWasDue'
  BY DEF BatchWasDue, TypeOK, Worker, Claimed, Time
<1> QED
  BY <1>1, <1>2, <1>3

\* A row that can be claimed is a row, and queued.
LEMMA ClaimedIsRow ==
    ASSUME TypeOK, QueuedHasMoment, NEW d \in Deliveries, Due(d)
    PROVE  /\ row[d] \in Row
           /\ ClaimedCopy(d) \in Claimed
           /\ ClaimedCopy(d).id = d
           /\ ClaimedCopy(d).status \in Queued
           /\ ClaimedCopy(d).next_attempt_at <= now
<1>1. row[d] # Gone
  BY DEF Due, Gone, Queued
<1>2. row[d] \in Row
  BY <1>1 DEF TypeOK
<1> QED
  BY <1>2 DEF Due, Row, Claimed, ClaimedCopy, QueuedHasMoment

LEMMA ClaimDueTyped ==
    ASSUME Typed, NEW w \in Dispatchers, ClaimDue(w)
    PROVE  Typed'
<1> USE DEF Typed
<1>1. PICK S \in SUBSET Claimable :
        /\ row' = [d \in Deliveries |->
                     IF d \in S
                     THEN [row[d] EXCEPT !.attempts = @ + 1,
                                         !.locked_until = now + LockFor]
                     ELSE row[d]]
        /\ worker' = [worker EXCEPT ![w] =
                        [IdleWorker EXCEPT !.pc = "claimed",
                                           !.batch = {ClaimedCopy(d) : d \in S}]]
  BY DEF ClaimDue
<1>2. UNCHANGED <<now, occ, answers, silent, blocked, unused, shown, tap, reaper, staleRows, missed>>
  BY DEF ClaimDue, historyVars
<1>3. \A d \in S : d \in Deliveries /\ Due(d)
  BY DEF Claimable
<1> DEFINE batch == {ClaimedCopy(d) : d \in S}
           held == [IdleWorker EXCEPT !.pc = "claimed", !.batch = batch]
<1>4. batch \subseteq Claimed /\ \A m \in batch : m.status \in Queued /\ m.next_attempt_at <= now
  BY <1>3, ClaimedIsRow
<1>5. held \in Worker /\ held.pc = "claimed" /\ held.batch = batch
  BY <1>4 DEF IdleWorker, Worker
<1>6. \A d \in Deliveries :
        /\ row'[d] \in Row \cup {Gone}
        /\ row'[d].status = row[d].status
        /\ row'[d].next_attempt_at = row[d].next_attempt_at
  <2> TAKE d \in Deliveries
  <2>1. CASE d \in S
    <3>1. row[d] \in Row
      BY <1>3, <2>1, ClaimedIsRow
    <3>2. now + LockFor \in Nat
      BY TuningAssumption, TimeIsNat DEF TypeOK
    <3>3. PICK a \in Nat, t \in Nat :
            row'[d] = [row[d] EXCEPT !.attempts = a, !.locked_until = t]
      <4>1. row[d].attempts + 1 \in Nat
        BY <3>1 DEF Row
      <4> QED
        BY <1>1, <2>1, <3>2, <4>1
    <3>4. row'[d] \in Row
      BY <3>1, <3>3 DEF Row
    <3> QED
      BY <3>1, <3>3, <3>4 DEF Row
  <2>2. CASE d \notin S
    BY <1>1, <2>2 DEF TypeOK
  <2> QED
    BY <2>1, <2>2
<1>7. worker' = [worker EXCEPT ![w] = held]
  BY <1>1
<1> HIDE DEF held, batch
<1>8. TypeOK'
  <2>1. row' \in [Deliveries -> Row \cup {Gone}]
    BY <1>1, <1>6
  <2>2. worker' \in [Dispatchers -> Worker]
    BY <1>5, <1>7 DEF TypeOK
  <2> QED
    BY <1>2, <2>1, <2>2 DEF TypeOK
<1>9. QueuedHasMoment'
  BY <1>6 DEF QueuedHasMoment
<1>10. VerdictReady' /\ IdleHoldsNothing'
  BY <1>5, <1>7 DEF VerdictReady, IdleHoldsNothing, TypeOK
<1>11. BatchWasDue'
  BY <1>2, <1>4, <1>5, <1>7 DEF BatchWasDue, TypeOK
<1> QED
  BY <1>8, <1>9, <1>10, <1>11

LEMMA LoadContextTyped ==
    ASSUME Typed, NEW w \in Dispatchers, LoadContext(w)
    PROVE  Typed'
<1> USE DEF Typed
<1> DEFINE known == {d \in BatchIds(w) : row[d] # Gone}
           seen == [o \in Occs |-> occ[o].status]
           loaded == [worker[w] EXCEPT !.pc = "loaded", !.known = known,
                        !.seen = seen, !.seen_blocked = blocked]
<1>1. known \subseteq Deliveries
  BY DEF BatchIds, TypeOK, Worker, Claimed
<1>2. loaded \in Worker /\ loaded.pc = "loaded" /\ loaded.batch = worker[w].batch
  <2>1. worker[w] \in Worker /\ blocked \subseteq Users
    BY DEF TypeOK
  <2>2. seen \in [Occs -> OccurrenceStatus \cup {"gone"}]
    BY DEF TypeOK, OccRow
  <2> HIDE DEF known, seen
  <2> QED
    BY <1>1, <2>1, <2>2 DEF Worker
<1>3. worker' = [worker EXCEPT ![w] = loaded]
  BY DEF LoadContext
<1>4. UNCHANGED <<now, row, occ, answers, silent, blocked, unused, shown, tap, reaper, staleRows, missed>>
  BY DEF LoadContext, dbVars, historyVars
<1> HIDE DEF loaded
<1>5. TypeOK'
  BY <1>2, <1>3, <1>4 DEF TypeOK
<1>6. QueuedHasMoment' /\ VerdictReady' /\ IdleHoldsNothing' /\ BatchWasDue'
  BY <1>2, <1>3, <1>4
  DEF QueuedHasMoment, VerdictReady, IdleHoldsNothing, BatchWasDue, TypeOK
<1> QED
  BY <1>5, <1>6

\* The write-back keeps a row a row, and gives a retry its moment.
LEMMA VerdictRowTyped ==
    ASSUME TypeOK, NEW m \in Claimed, NEW v, VerdictOK(v)
    PROVE  /\ VerdictRow(m, v) \in Row \cup {Gone}
           /\ VerdictRow(m, v).status \in Queued
                => VerdictRow(m, v).next_attempt_at \in Nat
<1>1. CASE row[m.id] = Gone
  BY <1>1 DEF VerdictRow, Gone, Queued
<1>2. CASE row[m.id] # Gone
  <2>1. row[m.id] \in Row
    BY <1>2 DEF TypeOK, Claimed
  <2>2. now \in Nat
    BY TimeIsNat DEF TypeOK
  <2> QED
    BY <1>2, <2>1, <2>2 DEF VerdictRow, Row, VerdictOK, Verdict, Queued
<1> QED
  BY <1>1, <1>2

\* Setting the status of an occurrence keeps it an occurrence.
LEMMA SetOccStatusTyped ==
    ASSUME TypeOK, NEW o \in Occs, NEW status \in OccurrenceStatus
    PROVE  SetOccStatus(o, status) \in OccRow
  BY DEF SetOccStatus, TypeOK, OccRow

LEMMA WriteBackTyped ==
    ASSUME Typed, NEW w \in Dispatchers, NEW m \in worker[w].batch,
           NEW v, VerdictOK(v), WriteBack(w, m, v)
    PROVE  Typed'
<1> USE DEF Typed
<1> DEFINE o == OccOf[m.id]
           opens == v.status = "sent" /\ worker[w].seen[o] \in {"pending", "dispatching"}
           rest == worker[w].batch \ {m}
           next == IF rest = {} THEN IdleWorker
                   ELSE [worker[w] EXCEPT
                     !.pc = "loaded", !.batch = rest, !.verdict = NoVerdict,
                     !.seen = IF opens THEN [worker[w].seen EXCEPT ![o] = "sent"]
                              ELSE worker[w].seen,
                     !.seen_blocked = IF v.blocks_user
                                      THEN worker[w].seen_blocked \cup {UserOf[m.id]}
                                      ELSE worker[w].seen_blocked]
<1>1. m \in Claimed /\ m.id \in Deliveries
  BY DEF TypeOK, Worker, Claimed
<1>2. o \in Occs /\ UserOf[m.id] \in Users
  BY <1>1, OwnersAssumption
<1>3. row' = [row EXCEPT ![m.id] = VerdictRow(m, v)]
  BY DEF WriteBack
<1>4. occ' = IF opens THEN [occ EXCEPT ![o] = SetOccStatus(o, "sent")] ELSE occ
  BY DEF WriteBack
<1>5. worker' = [worker EXCEPT ![w] = next]
  BY DEF WriteBack
<1>6. /\ blocked' \subseteq blocked \cup {UserOf[m.id]}
      /\ staleRows' \subseteq staleRows \cup {m.id}
      /\ UNCHANGED <<now, answers, silent, unused, shown, tap, reaper, missed>>
  BY DEF WriteBack
<1>7. /\ next \in Worker
      /\ next.pc # "sent"
      /\ next.batch \subseteq worker[w].batch
      /\ next.pc = "idle" => next.batch = {}
  <2>1. CASE rest = {}
    BY <2>1 DEF IdleWorker, Worker
  <2>2. CASE rest # {}
    <3>1. worker[w] \in Worker
      BY DEF TypeOK
    <3> DEFINE seen == IF opens THEN [worker[w].seen EXCEPT ![o] = "sent"]
                       ELSE worker[w].seen
    <3>2. seen \in [Occs -> OccurrenceStatus \cup {"gone"}]
      BY <1>2, <3>1 DEF Worker, OccurrenceStatus
    <3>3. next = [worker[w] EXCEPT
                    !.pc = "loaded", !.batch = rest, !.verdict = NoVerdict,
                    !.seen = seen,
                    !.seen_blocked = IF v.blocks_user
                                     THEN worker[w].seen_blocked \cup {UserOf[m.id]}
                                     ELSE worker[w].seen_blocked]
      BY <2>2
    <3> HIDE DEF seen, next, opens
    <3> QED
      BY <1>2, <3>1, <3>2, <3>3 DEF Worker
  <2> QED
    BY <2>1, <2>2
<1> HIDE DEF next
<1>8. occ' \in [Occs -> OccRow]
  <2>1. SetOccStatus(o, "sent") \in OccRow
    BY <1>2, SetOccStatusTyped DEF OccurrenceStatus
  <2> QED
    BY <1>4, <2>1 DEF TypeOK
<1> HIDE DEF opens, o, rest
<1>9. TypeOK'
  <2>1. row' \in [Deliveries -> Row \cup {Gone}]
    BY <1>1, <1>3, VerdictRowTyped DEF TypeOK
  <2>2. worker' \in [Dispatchers -> Worker]
    BY <1>5, <1>7 DEF TypeOK
  <2> QED
    BY <1>1, <1>2, <1>6, <1>8, <2>1, <2>2 DEF TypeOK
<1>10. QueuedHasMoment'
  BY <1>1, <1>3, VerdictRowTyped DEF QueuedHasMoment, TypeOK
<1>11. VerdictReady' /\ IdleHoldsNothing' /\ BatchWasDue'
  BY <1>5, <1>6, <1>7 DEF VerdictReady, IdleHoldsNothing, BatchWasDue, TypeOK
<1> QED
  BY <1>9, <1>10, <1>11

LEMMA AbortTyped ==
    ASSUME Typed, NEW w \in Dispatchers, Abort(w)
    PROVE  Typed'
<1>1. PICK m \in worker[w].batch :
        WriteBack(w, m, DecideAbort(AbortReason(w, m), m.attempts))
  BY DEF Abort
<1>2. m.attempts \in Nat
  BY DEF Typed, TypeOK, Worker, Claimed
<1>3. VerdictOK(DecideAbort(AbortReason(w, m), m.attempts))
  BY <1>2, AbortVerdict
<1> QED
  BY <1>1, <1>3, WriteBackTyped

LEMMA ApplyTyped ==
    ASSUME Typed, NEW w \in Dispatchers, Apply(w)
    PROVE  Typed'
<1>1. PICK m \in worker[w].batch : WriteBack(w, m, worker[w].verdict)
  BY DEF Apply
<1>2. VerdictOK(worker[w].verdict)
  BY DEF Apply, Typed, VerdictReady
<1> QED
  BY <1>1, <1>2, WriteBackTyped

LEMMA SendTyped ==
    ASSUME Typed, NEW w \in Dispatchers, Send(w)
    PROVE  Typed'
<1> USE DEF Typed
<1>1. PICK v :
        /\ VerdictOK(v)
        /\ worker' = [worker EXCEPT ![w].pc = "sent", ![w].verdict = v]
        /\ shown' \subseteq Deliveries
  <2>1. PICK m \in worker[w].batch :
        \/ /\ shown' = shown \cup {m.id}
           /\ worker' = [worker EXCEPT ![w].pc = "sent",
                                       ![w].verdict = DecideSuccess]
        \/ \E error \in Errors :
             /\ shown' \in {shown} \cup
                  (IF error = "transient" THEN {shown \cup {m.id}} ELSE {})
             /\ worker' = [worker EXCEPT
                  ![w].pc = "sent",
                  ![w].verdict = DecideFailure(m.attempts, error, now)]
    BY DEF Send
  <2>2. m.id \in Deliveries /\ m.attempts \in Nat \ {0} /\ now \in Nat
    BY TimeIsNat DEF TypeOK, Worker, Claimed
  <2>3. \A error \in Errors : VerdictOK(DecideFailure(m.attempts, error, now))
    BY <2>2, FailureVerdict, EnvironmentAssumption
  <2>4. shown \subseteq Deliveries
    BY DEF TypeOK
  <2> QED
    BY <2>1, <2>2, <2>3, <2>4, SuccessVerdict
<1>2. UNCHANGED <<now, row, occ, answers, silent, blocked, unused, tap, reaper, staleRows, missed>>
  BY DEF Send, dbVars, historyVars
<1>3. worker'[w].verdict = v /\ worker'[w].pc = "sent"
       /\ worker'[w].batch = worker[w].batch /\ worker'[w] \in Worker
  <2>1. worker[w] \in Worker /\ v \in Verdict
    BY <1>1 DEF TypeOK, VerdictOK
  <2>2. worker'[w] = [worker[w] EXCEPT !.pc = "sent", !.verdict = v]
    BY <1>1 DEF TypeOK
  <2> DEFINE held == worker[w]
             sent == [held EXCEPT !.pc = "sent", !.verdict = v]
  <2>3. sent \in Worker /\ sent.verdict = v /\ sent.pc = "sent" /\ sent.batch = held.batch
    <3>1. held \in Worker
      BY <2>1
    <3> HIDE DEF held
    <3> QED
      BY <2>1, <3>1 DEF Worker
  <2> QED
    BY <2>2, <2>3
<1>4. \A x \in Dispatchers \ {w} : worker'[x] = worker[x]
  BY <1>1 DEF TypeOK
<1>5. TypeOK'
  <2>1. worker' \in [Dispatchers -> Worker]
    BY <1>1, <1>3, <1>4 DEF TypeOK
  <2> QED
    BY <1>1, <1>2, <2>1 DEF TypeOK
<1>6. QueuedHasMoment'
  BY <1>2 DEF QueuedHasMoment
<1>7. VerdictReady' /\ IdleHoldsNothing'
  BY <1>1, <1>3, <1>4 DEF VerdictReady, IdleHoldsNothing
<1>8. BatchWasDue'
  BY <1>2, <1>3, <1>4 DEF BatchWasDue
<1> QED
  BY <1>5, <1>6, <1>7, <1>8

LEMMA CrashTyped ==
    ASSUME Typed, NEW w \in Dispatchers, Crash(w)
    PROVE  Typed'
<1> USE DEF Typed
<1>1. IdleWorker \in Worker /\ IdleWorker.pc = "idle" /\ IdleWorker.batch = {}
  BY DEF IdleWorker, Worker
<1>2. worker' = [worker EXCEPT ![w] = IdleWorker]
  BY DEF Crash
<1>3. UNCHANGED <<now, row, occ, answers, silent, blocked, unused, shown, tap, reaper, staleRows, missed>>
  BY DEF Crash, dbVars, historyVars
<1>4. TypeOK'
  BY <1>1, <1>2, <1>3 DEF TypeOK
<1>5. QueuedHasMoment' /\ VerdictReady' /\ IdleHoldsNothing' /\ BatchWasDue'
  BY <1>1, <1>2, <1>3
  DEF QueuedHasMoment, VerdictReady, IdleHoldsNothing, BatchWasDue, TypeOK
<1> QED
  BY <1>4, <1>5

\* Whatever leaves the dispatchers and the clock alone owes only the rows.
LEMMA OtherActorsTyped ==
    ASSUME Typed, TypeOK', QueuedHasMoment', UNCHANGED <<now, worker>>
    PROVE  Typed'
  BY DEF Typed, VerdictReady, BatchWasDue, IdleHoldsNothing

LEMMA ReactionTyped ==
    ASSUME Typed, NEW t \in Taps,
           \/ \E d \in Deliveries, kind \in Kinds : Press(t, d, kind)
           \/ ReactLock(t) \/ ReactAbort(t)
    PROVE  Typed'
<1> USE DEF Typed
<1>1. UNCHANGED <<now, occ, row, answers, silent, blocked, unused, shown, worker, reaper,
                  staleRows, missed>>
  BY DEF Press, ReactLock, ReactAbort, dbVars, historyVars
<1>2. tap' \in [Taps -> Tap]
  <2>1. tap \in [Taps -> Tap] /\ now \in Time
    BY DEF TypeOK
  <2>2. CASE \E d \in Deliveries, kind \in Kinds : Press(t, d, kind)
    <3>1. PICK d \in Deliveries, kind \in Kinds :
            tap' = [tap EXCEPT ![t] = [pc |-> "asked", d |-> d, kind |-> kind, at |-> now]]
      BY <2>2 DEF Press
    <3>2. [pc |-> "asked", d |-> d, kind |-> kind, at |-> now] \in Tap
      BY <2>1, EnvironmentAssumption DEF Tap
    <3> QED
      BY <2>1, <3>1, <3>2
  <2>3. CASE ReactLock(t)
    <3>1. tap[t].d \in Deliveries /\ tap[t].kind \in ActionKind /\ tap[t].at \in Time
      BY <2>1, <2>3 DEF ReactLock, Tap, IdleTap
    <3>2. LastToAnswer(tap[t].d) \in BOOLEAN
      BY DEF LastToAnswer
    <3>3. [pc |-> "locked", d |-> tap[t].d, kind |-> tap[t].kind, at |-> tap[t].at,
           last |-> LastToAnswer(tap[t].d), found |-> occ[OccOf[tap[t].d]].status] \in Tap
      <4>1. occ[OccOf[tap[t].d]].status \in OccurrenceStatus \cup {"gone"}
        BY <3>1, OwnersAssumption DEF TypeOK, OccRow
      <4> QED
        BY <3>1, <3>2, <4>1 DEF Tap
    <3>4. IdleTap \in Tap
      BY DEF Tap
    <3> QED
      BY <2>1, <2>3, <3>3, <3>4 DEF ReactLock
  <2>4. CASE ReactAbort(t)
    BY <2>1, <2>4 DEF ReactAbort, Tap
  <2> QED
    BY <2>2, <2>3, <2>4
<1>3. TypeOK' /\ QueuedHasMoment'
  BY <1>1, <1>2 DEF TypeOK, QueuedHasMoment
<1> QED
  BY <1>1, <1>3, OtherActorsTyped

\* What a locked reaction knows.
LEMMA LockedTap ==
    ASSUME TypeOK, NEW t \in Taps, tap[t].pc = "locked"
    PROVE  /\ tap[t].d \in Deliveries /\ tap[t].kind \in ActionKind
           /\ tap[t].at \in Time /\ tap[t].last \in BOOLEAN
  BY DEF TypeOK, Tap, IdleTap

LEMMA AnswerRowTyped ==
    ASSUME TypeOK, NEW d \in Deliveries, row[d] # Gone,
           NEW kind \in ActionKind, NEW at \in Time
    PROVE  /\ AnswerRow(d, kind, at) \in Row
           /\ AnswerRow(d, kind, at).status \in Queued
                => AnswerRow(d, kind, at).next_attempt_at \in Nat
           /\ AnswerRow(d, kind, at).status =
                IF kind = "snooze" THEN "snoozed"
                ELSE IF kind = "done" THEN "done" ELSE "skipped"
<1>1. row[d] \in Row
  BY DEF TypeOK
<1>2. CASE kind = "snooze"
  <2>1. PICK p \in Nat : p = Postpone(d, at)
    BY PostponeNat
  <2>2. AnswerRow(d, kind, at) =
          [row[d] EXCEPT !.status = "snoozed", !.locked_until = NoTime,
                         !.next_attempt_at = p, !.sent_at = NoTime]
    BY <1>2, <2>1 DEF AnswerRow
  <2> QED
    BY <1>1, <1>2, <2>2 DEF Row, DeliveryStatus
<1>3. CASE kind # "snooze"
  BY <1>1, <1>3 DEF AnswerRow, Row, DeliveryStatus, Queued
<1> QED
  BY <1>2, <1>3

\* A reaction that holds the lock holds it on a row that can still be
\* answered, and nobody else holds it (services/reactions.py react).
LockHeld ==
    \A t \in Taps : tap[t].pc = "locked" =>
        /\ row[tap[t].d] # Gone
        /\ row[tap[t].d].status \notin TerminalDelivery
        /\ \A s \in Taps \ {t} : tap[s].pc = "locked" => tap[s].d # tap[t].d

LEMMA ReactCommitTyped ==
    ASSUME Typed, LockHeld, NEW t \in Taps, ReactCommit(t)
    PROVE  Typed'
<1> USE DEF Typed
<1> DEFINE d == tap[t].d
           o == OccOf[d]
           kind == tap[t].kind
           closes == Closing(t)
<1>1. d \in Deliveries /\ kind \in ActionKind /\ tap[t].at \in Time /\ o \in Occs
  BY LockedTap, OwnersAssumption DEF ReactCommit
<1>2. row[d] # Gone
  BY DEF ReactCommit, LockHeld
<1>3. /\ row' = [row EXCEPT ![d] = AnswerRow(d, kind, tap[t].at)]
      /\ answers' = IF kind = "snooze" THEN answers ELSE [answers EXCEPT ![d] = @ + 1]
      /\ occ' = IF closes
                THEN [occ EXCEPT ![o] = SetOccStatus(o,
                        IF kind = "done" THEN "done" ELSE "skipped")]
                ELSE occ
      /\ tap' = [tap EXCEPT ![t] = IdleTap]
      /\ UNCHANGED <<now, silent, blocked, unused, shown, worker, reaper, staleRows, missed>>
  BY DEF ReactCommit, historyVars
<1> HIDE DEF d, o, kind, closes
<1>4. row' \in [Deliveries -> Row \cup {Gone}]
  BY <1>1, <1>2, <1>3, AnswerRowTyped DEF TypeOK
<1>5. answers' \in [Deliveries -> Nat]
  BY <1>1, <1>3 DEF TypeOK
<1>6. occ' \in [Occs -> OccRow]
  <2>1. SetOccStatus(o, "done") \in OccRow /\ SetOccStatus(o, "skipped") \in OccRow
    BY <1>1, SetOccStatusTyped DEF OccurrenceStatus
  <2> QED
    BY <1>1, <1>3, <2>1 DEF TypeOK
<1>7. tap' \in [Taps -> Tap]
  BY <1>3 DEF TypeOK, Tap
<1>8. TypeOK'
  BY <1>1, <1>3, <1>4, <1>5, <1>6, <1>7 DEF TypeOK
<1>9. QueuedHasMoment'
  BY <1>1, <1>2, <1>3, AnswerRowTyped DEF QueuedHasMoment, TypeOK
<1> QED
  BY <1>3, <1>8, <1>9, OtherActorsTyped

\* Rows the sweep would change: status is kept unless the row is repeated.
LEMMA SweptRowTyped ==
    ASSUME TypeOK, QueuedHasMoment, reaper.pc = "ready", NEW d \in Deliveries
    PROVE  /\ SweptRow(d) \in Row \cup {Gone}
           /\ SweptRow(d).status \in Queued => SweptRow(d).next_attempt_at \in Nat
           /\ SweptRow(d) = Gone <=> row[d] = Gone
           /\ \/ d \in reaper.again /\ SweptRow(d).status \in {"pending", "gone"}
              \/ SweptRow(d).status = row[d].status
<1>1. CASE row[d] = Gone
  BY <1>1 DEF SweptRow, Gone, Queued
<1>2. CASE row[d] # Gone /\ d \in reaper.again
  <2>1. reaper.at \in 0..(MaxTime + SnoozeFor) /\ UserOf[d] \in Users
    BY OwnersAssumption, ClockAssumption, TuningAssumption
    DEF TypeOK, Reaper, IdleReaper, Time
  <2>2. PICK q \in Nat : q = QuietShift[UserOf[d]][reaper.at]
    BY <2>1, QuietAssumption
  <2>3. SweptRow(d) = [row[d] EXCEPT !.status = "pending", !.locked_until = NoTime,
                                     !.next_attempt_at = q, !.sent_at = NoTime]
    BY <1>2, <2>2 DEF SweptRow
  <2>4. row[d] \in Row
    BY <1>2 DEF TypeOK
  <2>5. SweptRow(d) \in Row /\ SweptRow(d).status = "pending"
          /\ SweptRow(d).next_attempt_at = q
    BY <2>3, <2>4 DEF Row, DeliveryStatus
  <2>6. SweptRow(d) # Gone
    BY <2>5 DEF Gone
  <2> QED
    BY <1>2, <2>5, <2>6
<1>3. CASE row[d] # Gone /\ d \notin reaper.again
  <2>1. row[d] \in Row
    BY <1>3 DEF TypeOK
  <2>2. SweptRow(d) \in {row[d], [row[d] EXCEPT !.locked_until = NoTime]}
    BY <1>3 DEF SweptRow
  <2>3. SweptRow(d) \in Row /\ SweptRow(d).status = row[d].status
          /\ SweptRow(d).next_attempt_at = row[d].next_attempt_at
    BY <2>1, <2>2 DEF Row
  <2>4. SweptRow(d) # Gone
    BY <2>3 DEF Row, Gone, DeliveryStatus
  <2> QED
    BY <1>3, <2>3, <2>4 DEF QueuedHasMoment
<1> QED
  BY <1>1, <1>2, <1>3

\* The sweep's memory is made of what it read.
LEMMA SweepReadTyped == Typed /\ SweepRead => Typed'
<1> SUFFICES ASSUME Typed, SweepRead PROVE Typed'
  OBVIOUS
<1> USE DEF Typed
<1>1. UNCHANGED <<now, occ, row, answers, silent, blocked, unused, shown, worker, tap,
                  staleRows, missed>>
  BY DEF SweepRead, dbVars, historyVars
<1>2. reaper' = [pc |-> "ready", at |-> now, overdue |-> Overdue,
                 silenced |-> {d \in Deliveries :
                    row[d].status = "sent" /\ OccOf[d] \in {p[1] : p \in Overdue}},
                 again |-> {d \in Deliveries : Repeats(d)}]
  BY DEF SweepRead
<1>3. Overdue \subseteq Occs \X OccurrenceStatus
  BY DEF Overdue, TypeOK, OccRow
<1>4. reaper' \in Reaper
  BY <1>2, <1>3 DEF Reaper, TypeOK
<1>5. TypeOK' /\ QueuedHasMoment'
  BY <1>1, <1>4 DEF TypeOK, QueuedHasMoment
<1> QED
  BY <1>1, <1>5, OtherActorsTyped

LEMMA SweepCommitTyped == Typed /\ SweepCommit => Typed'
<1> SUFFICES ASSUME Typed, SweepCommit PROVE Typed'
  OBVIOUS
<1> USE DEF Typed
<1>1. /\ reaper.pc = "ready"
      /\ row' = [d \in Deliveries |-> SweptRow(d)]
      /\ occ' = [o \in Occs |-> SweptOcc(o)]
      /\ silent' = silent \cup reaper.silenced
      /\ reaper' = IdleReaper
      /\ UNCHANGED <<now, answers, blocked, unused, shown, worker, tap, missed>>
  BY DEF SweepCommit
<1>2. reaper.overdue \subseteq Occs \X OccurrenceStatus
        /\ reaper.silenced \subseteq Deliveries /\ reaper.again \subseteq Deliveries
  BY <1>1 DEF TypeOK, Reaper, IdleReaper
<1>3. row' \in [Deliveries -> Row \cup {Gone}]
  BY <1>1, SweptRowTyped
<1>4. occ' \in [Occs -> OccRow]
  <2> SUFFICES ASSUME NEW o \in Occs PROVE SweptOcc(o) \in OccRow
    BY <1>1
  <2>1. SetOccStatus(o, "expired") \in OccRow
    BY SetOccStatusTyped DEF OccurrenceStatus
  <2>2. occ[o] \in OccRow
    BY DEF TypeOK
  <2>3. [occ[o] EXCEPT !.repeats_sent = @ + 1] \in OccRow
    BY <2>2 DEF OccRow
  <2> QED
    BY <2>1, <2>2, <2>3 DEF SweptOcc
<1>5. staleRows' \subseteq Deliveries
  BY <1>2 DEF SweepCommit, TypeOK
<1>6. TypeOK'
  BY <1>1, <1>2, <1>3, <1>4, <1>5 DEF TypeOK, Reaper
<1>7. QueuedHasMoment'
  BY <1>1, SweptRowTyped DEF QueuedHasMoment
<1> QED
  BY <1>1, <1>6, <1>7, OtherActorsTyped

LEMMA SweepEndsTyped == Typed /\ (SweepFail \/ SweepAbort) => Typed'
<1> SUFFICES ASSUME Typed, SweepFail \/ SweepAbort PROVE Typed'
  OBVIOUS
<1>1. UNCHANGED <<now, occ, row, answers, silent, blocked, unused, shown, worker, tap,
                  staleRows, missed>> /\ reaper' = IdleReaper
  BY DEF SweepFail, SweepAbort, dbVars, historyVars
<1>2. TypeOK' /\ QueuedHasMoment'
  BY <1>1 DEF Typed, TypeOK, Reaper, QueuedHasMoment
<1> QED
  BY <1>1, <1>2, OtherActorsTyped

\* Deleting rows leaves rows.
LEMMA DropRowsTyped ==
    ASSUME Typed, NEW S \in SUBSET Deliveries, DropRows(S)
    PROVE  /\ row' \in [Deliveries -> Row \cup {Gone}]
           /\ answers' \in [Deliveries -> Nat]
           /\ silent' \subseteq Deliveries
           /\ QueuedHasMoment'
  BY DEF Typed, TypeOK, DropRows, QueuedHasMoment, Gone, Queued

LEMMA DropOccsTyped ==
    ASSUME Typed, NEW S \in SUBSET Occs, DropOccs(S)
    PROVE  Typed'
<1>1. DropRows({d \in Deliveries : OccOf[d] \in S})
  BY DEF DropOccs
<1>2. /\ occ' = [o \in Occs |->
                 IF o \in S THEN [status |-> "gone", repeats_sent |-> 0] ELSE occ[o]]
      /\ UNCHANGED <<now, blocked, unused, shown, worker, tap, reaper, staleRows, missed>>
  BY DEF DropOccs, historyVars
<1>3. occ' \in [Occs -> OccRow]
  BY <1>2 DEF Typed, TypeOK, OccRow
<1>4. /\ row' \in [Deliveries -> Row \cup {Gone}]
      /\ answers' \in [Deliveries -> Nat]
      /\ silent' \subseteq Deliveries
      /\ QueuedHasMoment'
  BY <1>1, DropRowsTyped
<1>5. TypeOK'
  BY <1>2, <1>3, <1>4 DEF Typed, TypeOK
<1> QED
  BY <1>2, <1>4, <1>5, OtherActorsTyped

LEMMA LeaveTyped ==
    ASSUME Typed, NEW u \in Users, Leave(u)
    PROVE  Typed'
<1>1. DropRows({d \in Deliveries : UserOf[d] = u /\ row[d].status = "pending"})
  BY DEF Leave
<1>2. UNCHANGED <<now, occ, blocked, unused, shown, worker, tap, reaper, staleRows, missed>>
  BY DEF Leave, historyVars
<1>3. /\ row' \in [Deliveries -> Row \cup {Gone}]
      /\ answers' \in [Deliveries -> Nat]
      /\ silent' \subseteq Deliveries
      /\ QueuedHasMoment'
  BY <1>1, DropRowsTyped
<1>4. TypeOK'
  BY <1>2, <1>3 DEF Typed, TypeOK
<1> QED
  BY <1>2, <1>3, <1>4, OtherActorsTyped

LEMMA ReturnTyped ==
    ASSUME Typed, NEW u \in Users, Return(u)
    PROVE  Typed'
<1>1. UNCHANGED <<now, occ, row, answers, silent, unused, shown, worker, tap, reaper,
                  staleRows, missed>> /\ blocked' = blocked \ {u}
  BY DEF Return, historyVars
<1>2. TypeOK' /\ QueuedHasMoment'
  BY <1>1 DEF Typed, TypeOK, QueuedHasMoment
<1> QED
  BY <1>1, <1>2, OtherActorsTyped

\* An insert leaves the rows there are alone.
LEMMA InsertFinds ==
    ASSUME NEW S, Insert(S), NEW d \in Deliveries, row[d] # Gone
    PROVE  row'[d] = row[d]
<1>1. d \notin S
  BY DEF Insert, SameKey
<1> QED
  BY <1>1 DEF Insert

\* A planner or an accept adds fresh rows and nothing else.
LEMMA InsertTyped ==
    ASSUME Typed, NEW S \in SUBSET Late, Insert(S)
    PROVE  Typed'
<1>1. /\ row' = [d \in Deliveries |-> IF d \in S THEN FreshRow(d) ELSE row[d]]
      /\ unused' = unused \ S
      /\ missed' = missed \cup {d \in S : Counted(OccOf[d])}
      /\ UNCHANGED <<now, occ, answers, silent, blocked, shown, worker, tap, reaper, staleRows>>
  BY DEF Insert
<1>2. row' \in [Deliveries -> Row \cup {Gone}] /\ QueuedHasMoment'
  BY <1>1, FreshRowTyped DEF Typed, TypeOK, QueuedHasMoment
<1>3. unused' \subseteq Late /\ missed' \subseteq Deliveries
  BY <1>1, OwnersAssumption DEF Typed, TypeOK
<1>4. TypeOK'
  BY <1>1, <1>2, <1>3 DEF Typed, TypeOK
<1> QED
  BY <1>1, <1>2, <1>4, OtherActorsTyped

-----------------------------------------------------------------------------
(* The row lock, and the typing invariant that needs it. *)


\* Everybody but the reactions: a locked row is left alone.
LEMMA LockKept ==
    ASSUME TypeOK, LockHeld, UNCHANGED tap,
           \A d \in Deliveries : RowLocked(d) => row'[d] = row[d]
    PROVE  LockHeld'
<1> SUFFICES ASSUME NEW t \in Taps, tap[t].pc = "locked"
             PROVE  row'[tap[t].d] = row[tap[t].d]
  BY DEF LockHeld
<1>1. tap[t].d \in Deliveries
  BY LockedTap
<1> QED
  BY <1>1 DEF RowLocked

LEMMA ReactLockHeld ==
    ASSUME Typed, LockHeld, NEW t \in Taps, ReactLock(t)
    PROVE  LockHeld'
<1>1. row' = row
  BY DEF ReactLock, dbVars
<1>2. CASE tap' = [tap EXCEPT ![t] = IdleTap]
  BY <1>1, <1>2 DEF LockHeld, IdleTap, Typed, TypeOK
<1>3. CASE tap' # [tap EXCEPT ![t] = IdleTap]
  <2>1. /\ ~RowLocked(tap[t].d)
        /\ row[tap[t].d] # Gone
        /\ ~Rejected(tap[t].d, tap[t].kind, tap[t].at)
        /\ tap' = [tap EXCEPT ![t] =
             [pc |-> "locked", d |-> tap[t].d, kind |-> tap[t].kind,
              at |-> tap[t].at, last |-> LastToAnswer(tap[t].d),
              found |-> occ[OccOf[tap[t].d]].status]]
    BY <1>3 DEF ReactLock
  <2>2. row[tap[t].d].status \notin TerminalDelivery
    BY <2>1 DEF Rejected
  <2>3. \A s \in Taps \ {t} : tap[s].pc = "locked" => tap[s].d # tap[t].d
    BY <2>1 DEF RowLocked
  <2>4. \A s \in Taps \ {t} : tap'[s] = tap[s]
    BY <2>1 DEF Typed, TypeOK
  <2>5. tap'[t].d = tap[t].d
    BY <2>1 DEF Typed, TypeOK
  <2> QED
    BY <1>1, <2>1, <2>2, <2>3, <2>4, <2>5 DEF LockHeld
<1> QED
  BY <1>2, <1>3

LEMMA ReactCommitHeld ==
    ASSUME Typed, LockHeld, NEW t \in Taps, ReactCommit(t)
    PROVE  LockHeld'
<1>1. /\ tap[t].pc = "locked"
      /\ row' = [row EXCEPT ![tap[t].d] = AnswerRow(tap[t].d, tap[t].kind, tap[t].at)]
      /\ tap' = [tap EXCEPT ![t] = IdleTap]
  BY DEF ReactCommit
<1>2. \A s \in Taps : tap'[s].pc = "locked" => s # t /\ tap'[s] = tap[s]
  BY <1>1 DEF Typed, TypeOK, IdleTap
<1>3. \A s \in Taps : tap'[s].pc = "locked" =>
         tap[s].d \in Deliveries /\ tap[s].d # tap[t].d
  BY <1>1, <1>2, LockedTap DEF LockHeld, Typed
<1>4. \A s \in Taps : tap'[s].pc = "locked" => row'[tap[s].d] = row[tap[s].d]
  BY <1>1, <1>3 DEF Typed, TypeOK
<1> QED
  BY <1>2, <1>4 DEF LockHeld

\* A press or a handler that raises takes no lock.
LEMMA PressHeld ==
    ASSUME Typed, LockHeld, NEW t \in Taps,
           ReactAbort(t) \/ \E d \in Deliveries, kind \in Kinds : Press(t, d, kind)
    PROVE  LockHeld'
<1>1. row' = row
  BY DEF Press, ReactAbort, dbVars
<1>2. /\ tap'[t].pc # "locked"
      /\ \A s \in Taps \ {t} : tap'[s] = tap[s]
  BY DEF Press, ReactAbort, IdleTap, Typed, TypeOK
<1> QED
  BY <1>1, <1>2 DEF LockHeld

LEMMA WriteBackHeld ==
    ASSUME Typed, LockHeld, NEW w \in Dispatchers, NEW m \in worker[w].batch,
           NEW v, WriteBack(w, m, v)
    PROVE  LockHeld'
<1>1. ~RowLocked(m.id) /\ UNCHANGED tap /\ row' = [row EXCEPT ![m.id] = VerdictRow(m, v)]
  BY DEF WriteBack
<1>2. \A d \in Deliveries : RowLocked(d) => row'[d] = row[d]
  BY <1>1 DEF Typed, TypeOK
<1> QED
  BY <1>1, <1>2, LockKept DEF Typed

LEMMA DispatchHeld ==
    ASSUME Typed, LockHeld, NEW w \in Dispatchers, Dispatch(w) \/ Crash(w)
    PROVE  LockHeld'
<1>1. CASE ClaimDue(w)
  <2>1. PICK S \in SUBSET Claimable :
          row' = [d \in Deliveries |->
                    IF d \in S
                    THEN [row[d] EXCEPT !.attempts = @ + 1,
                                        !.locked_until = now + LockFor]
                    ELSE row[d]]
    BY <1>1 DEF ClaimDue
  <2>2. \A d \in Deliveries : RowLocked(d) => row'[d] = row[d]
    BY <2>1 DEF Claimable
  <2> QED
    BY <1>1, <2>2, LockKept DEF ClaimDue, Typed
<1>2. CASE Abort(w) \/ Apply(w)
  BY <1>2, WriteBackHeld DEF Abort, Apply
<1>3. CASE LoadContext(w) \/ Send(w) \/ Crash(w)
  BY <1>3, LockKept DEF LoadContext, Send, Crash, dbVars, Typed
<1> QED
  BY <1>1, <1>2, <1>3 DEF Dispatch

LEMMA SweepHeld ==
    ASSUME Typed, LockHeld, Sweep \/ SweepAbort
    PROVE  LockHeld'
<1>1. CASE SweepCommit
  BY <1>1, LockKept DEF SweepCommit, Typed
<1>2. CASE SweepRead \/ SweepFail \/ SweepAbort
  BY <1>2, LockKept DEF SweepRead, SweepFail, SweepAbort, dbVars, Typed
<1> QED
  BY <1>1, <1>2 DEF Sweep

LEMMA PeopleHeld ==
    ASSUME Typed, LockHeld,
           Pause \/ Delete \/ Tick \/ \E u \in Users : Leave(u) \/ Return(u)
    PROVE  LockHeld'
<1>1. \A S : DropRows(S) => \A d \in Deliveries : RowLocked(d) => row'[d] = row[d]
  BY DEF DropRows
<1>2. CASE Pause \/ Delete
  BY <1>1, <1>2, LockKept DEF Pause, Delete, DropOccs, Typed
<1>3. CASE Tick
  BY <1>3, LockKept DEF Tick, dbVars, Typed
<1>4. CASE \E u \in Users : Leave(u)
  BY <1>1, <1>4, LockKept DEF Leave, Typed
<1>5. CASE \E u \in Users : Return(u)
  BY <1>5, LockKept DEF Return, Typed
<1> QED
  BY <1>2, <1>3, <1>4, <1>5

LEMMA InsertHeld ==
    ASSUME Typed, LockHeld, NEW S, Insert(S)
    PROVE  LockHeld'
<1>1. \A d \in Deliveries : RowLocked(d) => row'[d] = row[d]
  BY InsertFinds DEF RowLocked, LockHeld
<1> QED
  BY <1>1, LockKept DEF Insert, Typed

Base == Typed /\ LockHeld

LEMMA InitBase == Init => Base
<1>1. Init => LockHeld
  BY DEF Init, LockHeld, IdleTap
<1> QED
  BY <1>1, InitTyped DEF Base

LEMMA NextBase == Base /\ [Next]_vars => Base'
<1> SUFFICES ASSUME Base, [Next]_vars PROVE Base'
  OBVIOUS
<1> USE DEF Base
<1>1. ASSUME NEW w \in Dispatchers, Dispatch(w) \/ Crash(w) PROVE Base'
  BY <1>1, DispatchHeld, ClaimDueTyped, LoadContextTyped, AbortTyped, SendTyped,
     ApplyTyped, CrashTyped DEF Dispatch
<1>2. ASSUME NEW t \in Taps,
             \/ React(t) \/ ReactAbort(t)
             \/ \E d \in Deliveries, kind \in Kinds : Press(t, d, kind)
      PROVE  Base'
  BY <1>2, ReactionTyped, ReactCommitTyped, ReactLockHeld, ReactCommitHeld, PressHeld
  DEF React
<1>3. CASE Sweep \/ SweepAbort
  BY <1>3, SweepHeld, SweepReadTyped, SweepCommitTyped, SweepEndsTyped DEF Sweep
<1>4. CASE Tick
  BY <1>4, TickTyped, PeopleHeld
<1>5. CASE Pause \/ Delete
  BY <1>5, DropOccsTyped, PeopleHeld DEF Pause, Delete, Unsent
<1>6. ASSUME NEW u \in Users, Leave(u) \/ Return(u) PROVE Base'
  BY <1>6, LeaveTyped, ReturnTyped, PeopleHeld
<1>7. ASSUME NEW S \in SUBSET Late, Insert(S) PROVE Base'
  BY <1>7, InsertTyped, InsertHeld
<1>8. CASE UNCHANGED vars
  BY <1>8 DEF vars, Typed, TypeOK, QueuedHasMoment, VerdictReady, BatchWasDue,
              IdleHoldsNothing, LockHeld
<1> QED
  BY <1>1, <1>2, <1>3, <1>4, <1>5, <1>6, <1>7, <1>8 DEF Next

LEMMA BaseAlways == Spec => []Base
  BY InitBase, NextBase, PTL DEF Spec

\* Every variable keeps its type: no claim hands out an uncharged attempt, no
\* retry is left without a moment, no reaction writes a deleted row
\* (db/repositories/deliveries.py, domain/dispatching.py).
THEOREM TypeCorrect == Spec => []TypeOK
<1>1. Base => TypeOK
  BY DEF Base, Typed
<1> QED
  BY <1>1, BaseAlways, PTL

-----------------------------------------------------------------------------
(* The life of a delivery: what one step of anybody may do to a row, as    *)
(* long as no stale write-back has hit it.                                 *)

Kept(d) == row'[d].status = row[d].status /\ answers'[d] = answers[d]

\* A dispatcher writes its verdict on a row that is still queued and due.
Delivered(d) ==
    /\ row[d].status \in Queued /\ row[d].next_attempt_at <= now
    /\ row'[d].status \in {"sent", "pending", "failed", "blocked"}
    /\ answers'[d] = answers[d]

\* The sweep queues a message nobody answered once more.
Repeated(d) ==
    row[d].status = "sent" /\ row'[d].status = "pending" /\ answers'[d] = answers[d]

Snoozed(d) ==
    /\ row[d].status \notin TerminalDelivery
    /\ row'[d].status = "snoozed" /\ answers'[d] = answers[d]

AnsweredNow(d) ==
    /\ row[d].status \notin TerminalDelivery
    /\ row'[d].status \in Answered /\ answers'[d] = answers[d] + 1

\* A delivery nobody had is added; its id was never given out.
Inserted(d) ==
    /\ d \in unused /\ d \notin unused'
    /\ row'[d] = FreshRow(d) /\ answers'[d] = answers[d]
    /\ Counted(OccOf[d]) => d \in missed'

Lives(d) ==
    \/ row'[d] = Gone
    \/ Inserted(d)
    \/ /\ row[d] # Gone
       /\ Kept(d) \/ Delivered(d) \/ Repeated(d) \/ Snoozed(d) \/ AnsweredNow(d)

LEMMA WriteBackLives ==
    ASSUME Base, NEW w \in Dispatchers, NEW m \in worker[w].batch,
           NEW v, VerdictOK(v), WriteBack(w, m, v),
           NEW d \in Deliveries, d \notin staleRows'
    PROVE  Lives(d)
<1>1. /\ row' = [row EXCEPT ![m.id] = VerdictRow(m, v)]
      /\ staleRows' = IF Stale(m) THEN staleRows \cup {m.id} ELSE staleRows
      /\ answers' = answers
  BY DEF WriteBack
<1>2. CASE d # m.id
  BY <1>1, <1>2 DEF Lives, Kept, Base, Typed, TypeOK
<1>3. CASE d = m.id /\ row[d] = Gone
  BY <1>1, <1>3 DEF Lives, VerdictRow, Base, Typed, TypeOK
<1>4. CASE d = m.id /\ row[d] # Gone
  <2>1. ~Stale(m)
    BY <1>1, <1>4
  <2>2. row[d].status = m.status /\ row[d].next_attempt_at = m.next_attempt_at
    BY <1>4, <2>1 DEF Stale
  <2>3. m.status \in Queued /\ m.next_attempt_at <= now
    BY DEF Base, Typed, BatchWasDue
  <2>4. row'[d] = VerdictRow(m, v)
    BY <1>1, <1>4 DEF Base, Typed, TypeOK
  <2>5. row[d] \in Row
    BY <1>4 DEF Base, Typed, TypeOK
  <2>6. row'[d].status = v.status
    BY <1>4, <2>4, <2>5 DEF VerdictRow, Row
  <2>7. v.status \in {"sent", "pending", "failed", "blocked"}
    BY DEF VerdictOK
  <2> QED
    BY <1>1, <1>4, <2>2, <2>3, <2>6, <2>7 DEF Lives, Delivered
<1> QED
  BY <1>2, <1>3, <1>4

LEMMA DispatchLives ==
    ASSUME Base, NEW w \in Dispatchers, Dispatch(w) \/ Crash(w),
           NEW d \in Deliveries, d \notin staleRows'
    PROVE  Lives(d)
<1> USE DEF Base, Typed
<1>1. CASE ClaimDue(w)
  <2>1. PICK S \in SUBSET Claimable :
          row' = [e \in Deliveries |->
                    IF e \in S
                    THEN [row[e] EXCEPT !.attempts = @ + 1,
                                        !.locked_until = now + LockFor]
                    ELSE row[e]]
    BY <1>1 DEF ClaimDue
  <2>2. CASE d \in S
    <3>1. row[d] \in Row /\ row[d] # Gone
      BY <2>2, ClaimedIsRow DEF Claimable, Due, Gone, Queued
    <3>2. row'[d] = [row[d] EXCEPT !.attempts = row[d].attempts + 1,
                                   !.locked_until = now + LockFor]
      BY <2>1, <2>2
    <3>3. row'[d].status = row[d].status
      BY <3>1, <3>2 DEF Row
    <3> QED
      BY <1>1, <3>1, <3>3 DEF ClaimDue, Lives, Kept
  <2>3. CASE d \notin S
    BY <1>1, <2>1, <2>3 DEF ClaimDue, Lives, Kept
  <2> QED
    BY <2>2, <2>3
<1>2. CASE Abort(w)
  <2>1. PICK m \in worker[w].batch :
          WriteBack(w, m, DecideAbort(AbortReason(w, m), m.attempts))
    BY <1>2 DEF Abort
  <2>2. m.attempts \in Nat
    BY DEF TypeOK, Worker, Claimed
  <2> QED
    BY <2>1, <2>2, AbortVerdict, WriteBackLives
<1>3. CASE Apply(w)
  <2>1. PICK m \in worker[w].batch : WriteBack(w, m, worker[w].verdict)
    BY <1>3 DEF Apply
  <2>2. VerdictOK(worker[w].verdict)
    BY <1>3 DEF Apply, VerdictReady
  <2> QED
    BY <2>1, <2>2, WriteBackLives
<1>4. CASE LoadContext(w) \/ Send(w) \/ Crash(w)
  BY <1>4 DEF LoadContext, Send, Crash, dbVars, Lives, Kept
<1> QED
  BY <1>1, <1>2, <1>3, <1>4 DEF Dispatch

LEMMA ReactLives ==
    ASSUME Base, NEW t \in Taps, React(t),
           NEW d \in Deliveries, d \notin staleRows'
    PROVE  Lives(d)
<1>1. CASE ReactLock(t)
  BY <1>1 DEF ReactLock, dbVars, Lives, Kept
<1>2. CASE ReactCommit(t)
  <2> DEFINE x == tap[t].d
             kind == tap[t].kind
  <2>1. /\ row' = [row EXCEPT ![x] = AnswerRow(x, kind, tap[t].at)]
        /\ answers' = IF kind = "snooze" THEN answers ELSE [answers EXCEPT ![x] = @ + 1]
    BY <1>2 DEF ReactCommit
  <2>2. /\ x \in Deliveries /\ kind \in ActionKind /\ tap[t].at \in Time
        /\ row[x] # Gone /\ row[x].status \notin TerminalDelivery
    BY <1>2, LockedTap DEF ReactCommit, Base, Typed, LockHeld
  <2>3. AnswerRow(x, kind, tap[t].at).status =
          IF kind = "snooze" THEN "snoozed"
          ELSE IF kind = "done" THEN "done" ELSE "skipped"
    BY <2>2, AnswerRowTyped DEF Base, Typed
  <2> HIDE DEF x, kind
  <2>4. CASE d # x
    BY <2>1, <2>2, <2>4 DEF Lives, Kept, Base, Typed, TypeOK
  <2>5. CASE d = x /\ kind = "snooze"
    BY <2>1, <2>2, <2>3, <2>5 DEF Lives, Snoozed, Base, Typed, TypeOK
  <2>6. CASE d = x /\ kind # "snooze"
    BY <2>1, <2>2, <2>3, <2>6 DEF Lives, AnsweredNow, Answered, Base, Typed, TypeOK
  <2> QED
    BY <2>4, <2>5, <2>6
<1> QED
  BY <1>1, <1>2 DEF React

LEMMA SweepLives ==
    ASSUME Base, Sweep \/ SweepAbort, NEW d \in Deliveries, d \notin staleRows'
    PROVE  Lives(d)
<1>1. CASE SweepCommit
  <2>1. /\ reaper.pc = "ready"
        /\ row'[d] = SweptRow(d)
        /\ answers' = answers
        /\ d \in reaper.again /\ row[d] # Gone => row[d].status = "sent"
    BY <1>1 DEF SweepCommit
  <2>2. /\ SweptRow(d) = Gone <=> row[d] = Gone
        /\ \/ d \in reaper.again /\ SweptRow(d).status \in {"pending", "gone"}
           \/ SweptRow(d).status = row[d].status
    BY <2>1, SweptRowTyped DEF Base, Typed
  <2>3. SweptRow(d) # Gone => SweptRow(d).status # "gone"
    BY <2>1, SweptRowTyped DEF Base, Typed, Row, DeliveryStatus
  <2> QED
    BY <2>1, <2>2, <2>3 DEF Lives, Kept, Repeated
<1>2. CASE SweepRead \/ SweepFail \/ SweepAbort
  BY <1>2 DEF SweepRead, SweepFail, SweepAbort, dbVars, Lives, Kept
<1> QED
  BY <1>1, <1>2 DEF Sweep

LEMMA PeopleLives ==
    ASSUME Base,
           \/ Tick \/ Pause \/ Delete
           \/ \E u \in Users : Leave(u) \/ Return(u)
           \/ \E t \in Taps : ReactAbort(t) \/
                \E x \in Deliveries, kind \in Kinds : Press(t, x, kind),
           NEW d \in Deliveries
    PROVE  Lives(d)
<1>1. \A S : DropRows(S) => Lives(d)
  BY DEF DropRows, Lives, Kept, Base, Typed, TypeOK
<1>2. CASE Pause \/ Delete \/ \E u \in Users : Leave(u)
  BY <1>1, <1>2 DEF Pause, Delete, DropOccs, Leave
<1>3. CASE Tick \/ \E u \in Users : Return(u)
  BY <1>3 DEF Tick, Return, dbVars, Lives, Kept
<1>4. CASE \E t \in Taps : ReactAbort(t) \/
             \E x \in Deliveries, kind \in Kinds : Press(t, x, kind)
  BY <1>4 DEF ReactAbort, Press, dbVars, Lives, Kept
<1> QED
  BY <1>2, <1>3, <1>4

LEMMA InsertLives ==
    ASSUME Base, NEW S \in SUBSET Late, Insert(S), NEW d \in Deliveries
    PROVE  Lives(d)
<1>1. CASE d \in S
  BY <1>1 DEF Insert, Lives, Inserted
<1>2. CASE d \notin S
  BY <1>2 DEF Insert, Lives, Kept
<1> QED
  BY <1>1, <1>2

\* Every step is one of the lives.
LEMMA StepLives ==
    ASSUME Base, [Next]_vars, NEW d \in Deliveries, d \notin staleRows'
    PROVE  Lives(d)
<1>1. CASE UNCHANGED vars
  BY <1>1 DEF vars, Lives, Kept
<1>2. CASE Next
  BY <1>2, DispatchLives, ReactLives, SweepLives, PeopleLives, InsertLives DEF Next
<1> QED
  BY <1>1, <1>2

\* History only grows.
LEMMA StaleGrows ==
    ASSUME [Next]_vars
    PROVE  staleRows \subseteq staleRows' /\ missed \subseteq missed'
<1>1. \A w, m, v : WriteBack(w, m, v) =>
         staleRows \subseteq staleRows' /\ missed \subseteq missed'
  BY DEF WriteBack
<1>2. ASSUME NEW w \in Dispatchers, Dispatch(w) \/ Crash(w)
      PROVE  staleRows \subseteq staleRows' /\ missed \subseteq missed'
  BY <1>1, <1>2 DEF Dispatch, ClaimDue, LoadContext, Send, Apply, Abort, Crash, historyVars
<1>3. ASSUME NEW t \in Taps,
             \/ React(t) \/ ReactAbort(t)
             \/ \E d \in Deliveries, kind \in Kinds : Press(t, d, kind)
      PROVE  staleRows \subseteq staleRows' /\ missed \subseteq missed'
  BY <1>3 DEF React, ReactLock, ReactCommit, ReactAbort, Press, historyVars
<1>4. CASE Sweep \/ SweepAbort
  BY <1>4 DEF Sweep, SweepRead, SweepCommit, SweepFail, SweepAbort, historyVars
<1>5. CASE Tick \/ Pause \/ Delete \/ \E u \in Users : Leave(u) \/ Return(u)
  BY <1>5 DEF Tick, Pause, Delete, DropOccs, Leave, Return, historyVars
<1>6. CASE \E S \in SUBSET Late : Insert(S)
  BY <1>6 DEF Insert
<1>7. CASE UNCHANGED vars
  BY <1>7 DEF vars
<1> QED
  BY <1>2, <1>3, <1>4, <1>5, <1>6, <1>7 DEF Next

-----------------------------------------------------------------------------
(* Ids that have not been given out. *)

\* Such an id names no row, and nobody writes one under it but an insert
\* (deliveries.id, a sequence).
Unissued == \A d \in unused : row[d] = Gone /\ answers[d] = 0

LEMMA UnissuedStep ==
    ASSUME Base, Unissued, [Next]_vars
    PROVE  Unissued'
<1> SUFFICES ASSUME NEW d \in Deliveries, d \in unused', d \in unused,
                    row[d] = Gone, answers[d] = 0
             PROVE  row'[d] = Gone /\ answers'[d] = 0
  <2>1. unused' \subseteq unused
    <3>1. ASSUME NEW w \in Dispatchers, Dispatch(w) \/ Crash(w) PROVE unused' = unused
      BY <3>1 DEF Dispatch, ClaimDue, LoadContext, Send, Apply, Abort, WriteBack, Crash, dbVars
    <3>2. ASSUME NEW t \in Taps,
                 \/ React(t) \/ ReactAbort(t)
                 \/ \E d \in Deliveries, kind \in Kinds : Press(t, d, kind)
          PROVE  unused' = unused
      BY <3>2 DEF React, ReactLock, ReactCommit, ReactAbort, Press, dbVars
    <3>3. CASE Sweep \/ SweepAbort
      BY <3>3 DEF Sweep, SweepRead, SweepCommit, SweepFail, SweepAbort, dbVars
    <3>4. CASE Tick \/ Pause \/ Delete \/ \E u \in Users : Leave(u) \/ Return(u)
      BY <3>4 DEF Tick, Pause, Delete, DropOccs, Leave, Return, dbVars
    <3>5. CASE \E S \in SUBSET Late : Insert(S)
      BY <3>5 DEF Insert
    <3>6. CASE UNCHANGED vars
      BY <3>6 DEF vars
    <3> QED
      BY <3>1, <3>2, <3>3, <3>4, <3>5, <3>6 DEF Next
  <2>2. unused \subseteq Deliveries
    BY OwnersAssumption DEF Base, Typed, TypeOK
  <2> QED
    BY <2>1, <2>2 DEF Unissued
<1> USE DEF Base, Typed
<1>1. ASSUME NEW w \in Dispatchers, Dispatch(w) \/ Crash(w)
      PROVE  row'[d] = Gone /\ answers'[d] = 0
  <2>1. CASE ClaimDue(w)
    <3>1. ~Due(d)
      BY DEF Due, Gone, Queued
    <3> QED
      BY <2>1, <3>1 DEF ClaimDue, Claimable
  <2>2. CASE Abort(w) \/ Apply(w)
    <3>1. PICK m, v : WriteBack(w, m, v)
      BY <2>2 DEF Abort, Apply
    <3>2. row' = [row EXCEPT ![m.id] = VerdictRow(m, v)] /\ answers' = answers
      BY <3>1 DEF WriteBack
    <3> QED
      BY <3>2 DEF VerdictRow, TypeOK
  <2>3. CASE LoadContext(w) \/ Send(w) \/ Crash(w)
    BY <2>3 DEF LoadContext, Send, Crash, dbVars
  <2> QED
    BY <1>1, <2>1, <2>2, <2>3 DEF Dispatch
<1>2. ASSUME NEW t \in Taps,
             \/ React(t) \/ ReactAbort(t)
             \/ \E e \in Deliveries, kind \in Kinds : Press(t, e, kind)
      PROVE  row'[d] = Gone /\ answers'[d] = 0
  <2>1. CASE ReactCommit(t)
    <3>1. tap[t].d # d
      BY <2>1 DEF ReactCommit, LockHeld
    <3>2. /\ row' = [row EXCEPT ![tap[t].d] = AnswerRow(tap[t].d, tap[t].kind, tap[t].at)]
          /\ \/ answers' = answers
             \/ answers' = [answers EXCEPT ![tap[t].d] = @ + 1]
      BY <2>1 DEF ReactCommit
    <3> QED
      BY <3>1, <3>2 DEF TypeOK
  <2>2. CASE ~ReactCommit(t)
    BY <1>2, <2>2 DEF React, ReactLock, ReactAbort, Press, dbVars
  <2> QED
    BY <2>1, <2>2
<1>3. CASE Sweep \/ SweepAbort
  <2>1. CASE SweepCommit
    BY <2>1 DEF SweepCommit, SweptRow
  <2>2. CASE ~SweepCommit
    BY <1>3, <2>2 DEF Sweep, SweepRead, SweepFail, SweepAbort, dbVars
  <2> QED
    BY <2>1, <2>2
<1>4. \A S : DropRows(S) => row'[d] = Gone /\ answers'[d] = 0
  BY DEF DropRows
<1>5. CASE Pause \/ Delete \/ \E u \in Users : Leave(u)
  BY <1>4, <1>5 DEF Pause, Delete, DropOccs, Leave
<1>6. CASE Tick \/ \E u \in Users : Return(u)
  BY <1>6 DEF Tick, Return, dbVars
<1>7. CASE \E S \in SUBSET Late : Insert(S)
  BY <1>7 DEF Insert
<1>8. CASE UNCHANGED vars
  BY <1>8 DEF vars
<1> QED
  BY <1>1, <1>2, <1>3, <1>5, <1>6, <1>7, <1>8 DEF Next

LEMMA UnissuedAlways == Spec => []Unissued
<1>1. Init => Unissued
  BY OwnersAssumption DEF Init, Unissued
<1> QED
  BY <1>1, UnissuedStep, BaseAlways, PTL DEF Spec

-----------------------------------------------------------------------------
(* What follows from the life of a delivery. *)

\* The journal and the row agree after every step of anybody.
LEMMA AnsweredOnceStep ==
    ASSUME Base, Unissued, AnsweredOnce, [Next]_vars
    PROVE  AnsweredOnce'
<1> SUFFICES ASSUME NEW d \in Deliveries, d \notin staleRows', row'[d] # Gone
             PROVE  /\ answers'[d] <= 1
                    /\ answers'[d] = 1 <=> row'[d].status \in Answered
  BY DEF AnsweredOnce
<1>1. d \notin staleRows /\ Lives(d)
  BY StaleGrows, StepLives
<1>2. CASE Inserted(d)
  BY <1>2 DEF Inserted, Unissued, FreshRow, Answered
<1> SUFFICES ASSUME ~Inserted(d) PROVE /\ answers'[d] <= 1
                                       /\ answers'[d] = 1 <=> row'[d].status \in Answered
  BY <1>2
<1>8. row[d] # Gone
  BY <1>1 DEF Lives
<1>9. /\ answers[d] \in Nat /\ answers[d] <= 1
      /\ answers[d] = 1 <=> row[d].status \in Answered
  BY <1>1, <1>8 DEF AnsweredOnce, Base, Typed, TypeOK
<1>3. CASE Kept(d)
  BY <1>9, <1>3 DEF Kept
<1>4. CASE Delivered(d)
  BY <1>9, <1>4 DEF Delivered, Queued, Answered
<1>5. CASE Repeated(d)
  BY <1>9, <1>5 DEF Repeated, Answered
<1>6. CASE Snoozed(d)
  BY <1>9, <1>6 DEF Snoozed, Answered, TerminalDelivery
<1>7. CASE AnsweredNow(d)
  <2>1. answers[d] = 0
    BY <1>9, <1>7 DEF AnsweredNow, Answered, TerminalDelivery
  <2> QED
    BY <1>7, <2>1 DEF AnsweredNow
<1> QED
  BY <1>1, <1>3, <1>4, <1>5, <1>6, <1>7 DEF Lives

\* One answer per delivery, and the row shows it, whatever taps, retries,
\* repeats and sweeps are in flight (services/reactions.py react).
THEOREM AnsweredOnceHolds == Spec => []AnsweredOnce
<1>1. Init => AnsweredOnce
  BY DEF Init, AnsweredOnce, FreshRow, Answered
<1> QED
  BY <1>1, AnsweredOnceStep, BaseAlways, UnissuedAlways, PTL DEF Spec

\* A claim takes queued rows only, and an answered row is not queued.
LEMMA ClaimStep ==
    ASSUME Base, AnsweredOnce, [Next]_vars,
           NEW w \in Dispatchers, worker[w].pc = "idle",
           NEW d \in Deliveries \ staleRows, answers[d] > 0, row[d] # Gone
    PROVE  ~\E m \in worker'[w].batch : m.id = d
<1>1. worker[w].batch = {}
  BY DEF Base, Typed, IdleHoldsNothing
<1>2. row[d].status \in Answered
  BY DEF AnsweredOnce, Base, Typed, TypeOK
<1>3. CASE worker'[w] = worker[w]
  BY <1>1, <1>3
<1>4. CASE ClaimDue(w)
  <2>1. PICK S \in SUBSET Claimable :
          worker' = [worker EXCEPT ![w] =
                        [IdleWorker EXCEPT !.pc = "claimed",
                                           !.batch = {ClaimedCopy(e) : e \in S}]]
    BY <1>4 DEF ClaimDue
  <2>2. d \notin S
    BY <1>2 DEF Claimable, Due, Answered, Queued
  <2>3. worker'[w].batch = {ClaimedCopy(e) : e \in S}
    BY <2>1 DEF Base, Typed, TypeOK, IdleWorker
  <2> QED
    BY <2>2, <2>3 DEF ClaimedCopy
<1>5. CASE \E x \in Dispatchers : Dispatch(x) \/ Crash(x)
  <2>1. PICK x \in Dispatchers : Dispatch(x) \/ Crash(x)
    BY <1>5
  <2>2. CASE x = w
    BY <1>4, <2>1, <2>2 DEF Dispatch, LoadContext, Abort, Send, Apply, Crash
  <2>3. CASE x # w
    <3>1. worker'[w] = worker[w]
      BY <2>1, <2>3
      DEF Dispatch, ClaimDue, LoadContext, Abort, Send, Apply, Crash, WriteBack,
          Base, Typed, TypeOK
    <3> QED
      BY <1>3, <3>1
  <2> QED
    BY <2>2, <2>3
<1>6. CASE ~\E x \in Dispatchers : Dispatch(x) \/ Crash(x)
  <2>1. UNCHANGED worker
    BY <1>6 DEF Next, vars, Tick, React, ReactLock, ReactCommit, ReactAbort, Press,
       Sweep, SweepRead, SweepCommit, SweepFail, SweepAbort, Pause, Delete,
       DropOccs, Leave, Return, Insert
  <2> QED
    BY <1>3, <2>1
<1> QED
  BY <1>5, <1>6

\* An answered delivery is never claimed again (domain/reactions.py).
THEOREM AnsweredNotClaimedHolds == Spec => AnsweredNotClaimed
<1>1. Base /\ AnsweredOnce /\ [Next]_vars =>
        [\A w \in Dispatchers : \A d \in Deliveries \ staleRows :
           (answers[d] > 0 /\ row[d] # Gone /\ worker[w].pc = "idle")
              => ~\E m \in worker'[w].batch : m.id = d]_vars
  BY ClaimStep
<1> QED
  BY <1>1, BaseAlways, AnsweredOnceHolds, PTL DEF Spec, AnsweredNotClaimed

\* A postponed delivery stays postponed until its moment, unless it is
\* answered or deleted (domain/reactions.py postpone).
THEOREM SnoozeKeptHolds == Spec => SnoozeKept
<1>1. ASSUME Base, Unissued, [Next]_vars,
             NEW d \in Deliveries \ staleRows',
             row[d].status = "snoozed", now < row[d].next_attempt_at
      PROVE  \/ row'[d] = Gone
             \/ row'[d].status = "snoozed"
             \/ answers'[d] > answers[d]
  <2>1. answers[d] \in Nat /\ now \in Nat /\ row[d].next_attempt_at \in Nat
    BY <1>1, TimeIsNat DEF Base, Typed, TypeOK, QueuedHasMoment, Queued
  <2>2. Lives(d)
    BY <1>1, StepLives
  <2>3. ~Delivered(d) /\ ~Inserted(d)
    BY <1>1, <2>1 DEF Delivered, Inserted, Unissued, Gone
  <2> QED
    BY <1>1, <2>1, <2>2, <2>3 DEF Lives, Kept, Repeated, Snoozed, AnsweredNow
<1>2. Base /\ Unissued /\ [Next]_vars =>
        [\A d \in Deliveries \ staleRows' :
           (row[d].status = "snoozed" /\ now < row[d].next_attempt_at)
              => \/ row'[d] = Gone
                 \/ row'[d].status = "snoozed"
                 \/ answers'[d] > answers[d]]_vars
  BY <1>1
<1> QED
  BY <1>2, BaseAlways, UnissuedAlways, PTL DEF Spec, SnoozeKept

-----------------------------------------------------------------------------
(* The occurrences. *)

\* A reaction that holds its row has read the occurrence open
\* (services/reactions.py react, check_reactable).
FoundOpen ==
    \A t \in Taps : tap[t].pc = "locked" => tap[t].found \notin TerminalOccurrence

\* A step that is neither the sweep's commit nor a deletion leaves the count of
\* repeats alone and sets a status, never of an occurrence that is gone, and
\* only a dispatcher or a reaction that had read the occurrence open sets one.
SetsStatus(o) ==
    /\ occ'[o].repeats_sent = occ[o].repeats_sent
    /\ occ[o].status = "gone" => occ'[o].status = "gone"
    /\ \/ occ'[o].status = occ[o].status
       \/ occ'[o].status = "sent" /\ \E w \in Dispatchers : SendsLate(w, o)
       \/ occ'[o].status \in Answered /\ \E t \in Taps : AnswersLate(t, o)

Emptied(o) == occ'[o] = [status |-> "gone", repeats_sent |-> 0]

LEMMA SetOccStatusKeeps ==
    ASSUME TypeOK, NEW o \in Occs, NEW status
    PROVE  /\ SetOccStatus(o, status).repeats_sent = occ[o].repeats_sent
           /\ SetOccStatus(o, status).status =
                IF occ[o].status = "gone" THEN "gone" ELSE status
<1>1. occ[o] \in OccRow
  BY DEF TypeOK
<1> QED
  BY <1>1 DEF SetOccStatus, OccRow

LEMMA WriteBackOcc ==
    ASSUME Base, NEW w \in Dispatchers, Abort(w) \/ Apply(w), NEW o \in Occs
    PROVE  SetsStatus(o)
<1>0. PICK m \in worker[w].batch : \E v :
        /\ Current(w, m)
        /\ WriteBack(w, m, v)
        /\ v.status = "sent" => worker[w].pc = "sent"
  <2>1. CASE Abort(w)
    <3>1. PICK m \in worker[w].batch :
            /\ Current(w, m)
            /\ WriteBack(w, m, DecideAbort(AbortReason(w, m), m.attempts))
      BY <2>1 DEF Abort
    <3>2. DecideAbort(AbortReason(w, m), m.attempts).status # "sent"
      BY DEF DecideAbort
    <3> QED
      BY <3>1, <3>2
  <2>2. CASE Apply(w)
    BY <2>2 DEF Apply
  <2> QED
    BY <2>1, <2>2
<1>1. PICK v :
        /\ Current(w, m)
        /\ WriteBack(w, m, v)
        /\ v.status = "sent" => worker[w].pc = "sent"
  BY <1>0
<1> DEFINE x == OccOf[m.id]
           opens == v.status = "sent" /\ worker[w].seen[x] \in {"pending", "dispatching"}
<1>2. occ' = IF opens THEN [occ EXCEPT ![x] = SetOccStatus(x, "sent")] ELSE occ
  BY <1>1 DEF WriteBack
<1>3. worker'[w].pc # "sent"
  BY <1>1 DEF WriteBack, IdleWorker, Base, Typed, TypeOK, Worker
<1>4. CASE o = x /\ opens
  <2>1. occ'[o] = SetOccStatus(o, "sent")
    BY <1>2, <1>4 DEF Base, Typed, TypeOK
  <2>2. SendsLate(w, o)
    BY <1>1, <1>3, <1>4 DEF SendsLate
  <2> HIDE DEF x, opens
  <2>3. /\ occ'[o].repeats_sent = occ[o].repeats_sent
        /\ occ'[o].status = IF occ[o].status = "gone" THEN "gone" ELSE "sent"
    BY <2>1, SetOccStatusKeeps DEF Base, Typed
  <2> QED
    BY <2>2, <2>3 DEF SetsStatus
<1>5. CASE ~(o = x /\ opens)
  <2> HIDE DEF x, opens
  <2>1. occ'[o] = occ[o]
    BY <1>2, <1>5 DEF Base, Typed, TypeOK
  <2> QED
    BY <2>1 DEF SetsStatus
<1> QED
  BY <1>4, <1>5

\* Occurrences are closed by a reaction only with an answer.
LEMMA ReactCommitOcc ==
    ASSUME Base, FoundOpen, NEW t \in Taps, ReactCommit(t), NEW o \in Occs
    PROVE  SetsStatus(o)
<1> DEFINE x == OccOf[tap[t].d]
           status == IF tap[t].kind = "done" THEN "done" ELSE "skipped"
<1>1. /\ occ' = IF Closing(t) THEN [occ EXCEPT ![x] = SetOccStatus(x, status)] ELSE occ
      /\ tap'[t] = IdleTap
  BY DEF ReactCommit, Base, Typed, TypeOK
<1>2. status \in Answered /\ status # "gone"
  BY DEF Answered
<1>3. CASE o = x /\ Closing(t)
  <2>1. AnswersLate(t, o)
    BY <1>1, <1>3 DEF AnswersLate, FoundOpen, Closing
  <2> HIDE DEF x, status
  <2>2. occ'[o] = SetOccStatus(o, status)
    BY <1>1, <1>3 DEF Base, Typed, TypeOK
  <2>3. /\ occ'[o].repeats_sent = occ[o].repeats_sent
        /\ occ'[o].status = IF occ[o].status = "gone" THEN "gone" ELSE status
    BY <2>2, SetOccStatusKeeps DEF Base, Typed
  <2> QED
    BY <1>2, <2>1, <2>3 DEF SetsStatus
<1>4. CASE ~(o = x /\ Closing(t))
  <2> HIDE DEF x, status
  <2>1. occ'[o] = occ[o]
    BY <1>1, <1>4 DEF Base, Typed, TypeOK
  <2> QED
    BY <2>1 DEF SetsStatus
<1> QED
  BY <1>3, <1>4

LEMMA StepOcc ==
    ASSUME Base, FoundOpen, [Next]_vars, ~SweepCommit, NEW o \in Occs
    PROVE  SetsStatus(o) \/ Emptied(o)
<1>1. CASE \E w \in Dispatchers : Abort(w) \/ Apply(w)
  BY <1>1, WriteBackOcc
<1>2. CASE \E t \in Taps : ReactCommit(t)
  BY <1>2, ReactCommitOcc
<1>3. CASE Pause \/ Delete
  BY <1>3 DEF Pause, Delete, DropOccs, SetsStatus, Emptied
<1>4. CASE UNCHANGED occ
  BY <1>4 DEF SetsStatus
<1>5. \/ \E w \in Dispatchers : Abort(w) \/ Apply(w)
      \/ \E t \in Taps : ReactCommit(t)
      \/ Pause \/ Delete
      \/ UNCHANGED occ
  BY DEF Next, vars, Tick, Dispatch, ClaimDue, LoadContext, Send, Crash, React,
     ReactLock, ReactAbort, Press, Sweep, SweepRead, SweepFail, SweepAbort,
     Leave, Return, Insert, dbVars
<1> QED
  BY <1>1, <1>2, <1>3, <1>4, <1>5

\* What the sweep remembers between its reads and its commit.
SweepMemory ==
    reaper.pc = "ready" =>
        /\ \A q \in reaper.overdue : q[2] \notin TerminalOccurrence
        /\ \A d \in reaper.again :
             \/ occ[OccOf[d]].status = "gone"
             \/ occ[OccOf[d]].repeats_sent < MaxRepeats

OccInv == FoundOpen /\ SweepMemory /\ RepeatsWithinBudget

\* A locked reaction either was locked before the step or locks in it, on what
\* is committed.
LocksNow(t) ==
    /\ UNCHANGED row
    /\ tap'[t].last = LastToAnswer(tap'[t].d)
    /\ tap'[t].found = occ[OccOf[tap'[t].d]].status
    /\ tap'[t].found \notin TerminalOccurrence

LEMMA LockStep ==
    ASSUME Base, [Next]_vars, NEW t \in Taps, tap'[t].pc = "locked"
    PROVE  \/ tap'[t] = tap[t]
           \/ LocksNow(t)
<1>1. ASSUME NEW s \in Taps,
             \/ React(s) \/ ReactAbort(s)
             \/ \E d \in Deliveries, kind \in Kinds : Press(s, d, kind)
      PROVE  \/ tap'[t] = tap[t]
             \/ LocksNow(t)
  <2>1. CASE s # t
    <3>1. tap'[t] = tap[t]
      BY <1>1, <2>1 DEF React, ReactLock, ReactCommit, ReactAbort, Press, Base, Typed, TypeOK
    <3> QED
      BY <3>1
  <2>2. CASE s = t /\ ReactLock(t)
    <3>1. \/ tap' = [tap EXCEPT ![t] = IdleTap]
          \/ /\ ~Rejected(tap[t].d, tap[t].kind, tap[t].at)
             /\ tap' = [tap EXCEPT ![t] =
                 [pc |-> "locked", d |-> tap[t].d, kind |-> tap[t].kind,
                  at |-> tap[t].at, last |-> LastToAnswer(tap[t].d),
                  found |-> occ[OccOf[tap[t].d]].status]]
      BY <2>2 DEF ReactLock
    <3>2. UNCHANGED row
      BY <2>2 DEF ReactLock, dbVars
    <3> QED
      BY <3>1, <3>2 DEF LocksNow, Rejected, IdleTap, Base, Typed, TypeOK
  <2>3. CASE s = t /\ ~ReactLock(t)
    BY <1>1, <2>3 DEF React, ReactCommit, ReactAbort, Press, IdleTap, Base, Typed, TypeOK
  <2> QED
    BY <2>1, <2>2, <2>3
<1>2. CASE UNCHANGED tap
  BY <1>2
<1>3. ASSUME NEW w \in Dispatchers, Dispatch(w) \/ Crash(w) PROVE UNCHANGED tap
  BY <1>3 DEF Dispatch, ClaimDue, LoadContext, Abort, Send, Apply, WriteBack, Crash
<1>4. CASE Sweep \/ SweepAbort
  BY <1>2, <1>4 DEF Sweep, SweepRead, SweepCommit, SweepFail, SweepAbort
<1>5. CASE Tick \/ Pause \/ Delete \/ \E u \in Users : Leave(u) \/ Return(u)
  BY <1>2, <1>5 DEF Tick, Pause, Delete, DropOccs, Leave, Return
<1>6. CASE \E S \in SUBSET Late : Insert(S)
  BY <1>2, <1>6 DEF Insert
<1>7. CASE UNCHANGED vars
  BY <1>2, <1>7 DEF vars
<1> QED
  BY <1>1, <1>2, <1>3, <1>4, <1>5, <1>6, <1>7 DEF Next

\* A reaction locks its row only on an occurrence it finds open.
LEMMA FoundOpenStep ==
    ASSUME Base, FoundOpen, [Next]_vars
    PROVE  FoundOpen'
<1> SUFFICES ASSUME NEW t \in Taps, tap'[t].pc = "locked"
             PROVE  tap'[t].found \notin TerminalOccurrence
  BY DEF FoundOpen
<1>1. CASE tap'[t] = tap[t]
  BY <1>1 DEF FoundOpen
<1>2. CASE LocksNow(t)
  BY <1>2 DEF LocksNow
<1> QED
  BY <1>1, <1>2, LockStep

LEMMA SweepCommitOcc ==
    ASSUME Base, OccInv, SweepCommit, NEW o \in Occs
    PROVE  /\ occ'[o].repeats_sent <= MaxRepeats
           /\ \/ occ'[o].status = occ[o].status
              \/ occ'[o].status = "expired" /\ ExpiresLate(o)
<1>1. /\ reaper.pc = "ready"
      /\ reaper' = IdleReaper
      /\ occ'[o] = SweptOcc(o)
  BY DEF SweepCommit
<1>2. occ[o] \in OccRow /\ occ[o].repeats_sent \in Nat /\ occ[o].repeats_sent <= MaxRepeats
  BY DEF Base, Typed, TypeOK, OccRow, OccInv, RepeatsWithinBudget
<1>3. CASE o \in OverdueOccs
  <2>1. PICK q \in reaper.overdue : q[1] = o
    BY <1>3 DEF OverdueOccs
  <2>2. q[2] \notin TerminalOccurrence
    BY <1>1, <2>1 DEF OccInv, SweepMemory
  <2>3. ExpiresLate(o)
    BY <1>1, <2>1, <2>2 DEF ExpiresLate
  <2>4. occ'[o] = SetOccStatus(o, "expired")
    BY <1>1, <1>3 DEF SweptOcc
  <2> QED
    BY <1>2, <2>3, <2>4, SetOccStatusKeeps DEF Base, Typed
<1>4. CASE o \notin OverdueOccs /\ occ[o].status # "gone" /\ \E d \in reaper.again : OccOf[d] = o
  <2>1. occ[o].repeats_sent < MaxRepeats
    BY <1>1, <1>4 DEF OccInv, SweepMemory
  <2>2. occ'[o] = [occ[o] EXCEPT !.repeats_sent = @ + 1]
    BY <1>1, <1>4 DEF SweptOcc
  <2> QED
    BY <1>2, <2>1, <2>2, TuningAssumption DEF OccRow
<1>5. CASE o \notin OverdueOccs /\ ~(occ[o].status # "gone" /\ \E d \in reaper.again : OccOf[d] = o)
  BY <1>1, <1>2, <1>5 DEF SweptOcc
<1> QED
  BY <1>3, <1>4, <1>5

LEMMA OccInvStep ==
    ASSUME Base, OccInv, [Next]_vars
    PROVE  OccInv'
<1> USE DEF OccInv
<1>3. FoundOpen'
  BY FoundOpenStep
<1>1. CASE SweepCommit
  <2>1. reaper' = IdleReaper
    BY <1>1 DEF SweepCommit
  <2> QED
    BY <1>1, <1>3, <2>1, SweepCommitOcc DEF SweepMemory, IdleReaper, RepeatsWithinBudget
<1>2. CASE ~SweepCommit
  <2>1. \A o \in Occs :
          \/ /\ occ'[o].repeats_sent = occ[o].repeats_sent
             /\ occ[o].status = "gone" => occ'[o].status = "gone"
          \/ occ'[o].status = "gone" /\ occ'[o].repeats_sent = 0
    BY <1>2, StepOcc DEF SetsStatus, Emptied
  <2>2. RepeatsWithinBudget'
    BY <2>1, TuningAssumption DEF RepeatsWithinBudget
  <2>3. CASE SweepRead
    <3>1. /\ occ' = occ
          /\ reaper'.overdue = Overdue
          /\ reaper'.again = {d \in Deliveries : Repeats(d)}
      BY <2>3 DEF SweepRead, dbVars
    <3>2. \A q \in Overdue : q[2] \notin TerminalOccurrence
      BY DEF Overdue
    <3> QED
      BY <1>3, <2>2, <3>1, <3>2 DEF SweepMemory, Repeats
  <2>4. CASE UNCHANGED reaper
    <3>1. reaper.pc = "ready" => \A d \in reaper.again : OccOf[d] \in Occs
      BY OwnersAssumption DEF Base, Typed, TypeOK, Reaper, IdleReaper
    <3> QED
      BY <1>3, <2>1, <2>2, <2>4, <3>1 DEF SweepMemory
  <2>5. CASE SweepFail \/ SweepAbort
    BY <1>3, <2>2, <2>5 DEF SweepFail, SweepAbort, SweepMemory, IdleReaper
  <2>6. SweepRead \/ SweepFail \/ SweepAbort \/ UNCHANGED reaper
    <3>1. ASSUME NEW w \in Dispatchers, Dispatch(w) \/ Crash(w) PROVE UNCHANGED reaper
      BY <3>1 DEF Dispatch, ClaimDue, LoadContext, Abort, Send, Apply, WriteBack, Crash
    <3>2. ASSUME NEW t \in Taps,
                 \/ React(t) \/ ReactAbort(t)
                 \/ \E d \in Deliveries, kind \in Kinds : Press(t, d, kind)
          PROVE  UNCHANGED reaper
      BY <3>2 DEF React, ReactLock, ReactCommit, ReactAbort, Press
    <3>3. CASE Tick \/ Pause \/ Delete \/ \E u \in Users : Leave(u) \/ Return(u)
      BY <3>3 DEF Tick, Pause, Delete, DropOccs, Leave, Return
    <3>4. CASE \E S \in SUBSET Late : Insert(S)
      BY <3>4 DEF Insert
    <3>5. CASE UNCHANGED vars
      BY <3>5 DEF vars
    <3> QED
      BY <1>2, <3>1, <3>2, <3>3, <3>4, <3>5 DEF Next, Sweep
  <2> QED
    BY <2>3, <2>4, <2>5, <2>6
<1> QED
  BY <1>1, <1>2

LEMMA OccInvAlways == Spec => []OccInv
<1>1. Init => OccInv
  BY TuningAssumption DEF Init, OccInv, FoundOpen, IdleTap, SweepMemory, IdleReaper,
     RepeatsWithinBudget
<1> QED
  BY <1>1, OccInvStep, BaseAlways, PTL DEF Spec

\* No interleaving of sweeps, sends and reactions repeats an occurrence more
\* often than its reminder allows (services/dispatching.py _repeat_unanswered).
THEOREM RepeatsWithinBudgetHolds == Spec => []RepeatsWithinBudget
<1>1. OccInv => RepeatsWithinBudget
  BY DEF OccInv
<1> QED
  BY <1>1, OccInvAlways, PTL

\* Whatever runs at once, a closed occurrence is written again only by a
\* dispatcher, a reaction or a sweep that had itself read it open, and with that
\* writer's own status (services/dispatching.py _apply, sweep,
\* services/reactions.py react, db/repositories/occurrences.py set_status).
THEOREM ClosedStaysClosedHolds == Spec => ClosedStaysClosed
<1> DEFINE Closed(o) ==
             occ[o].status \in TerminalOccurrence =>
               \/ occ'[o].status \in {occ[o].status, "gone"}
               \/ occ'[o].status = "sent" /\ \E w \in Dispatchers : SendsLate(w, o)
               \/ occ'[o].status \in Answered /\ \E t \in Taps : AnswersLate(t, o)
               \/ occ'[o].status = "expired" /\ ExpiresLate(o)
<1>1. ASSUME Base, OccInv, [Next]_vars, NEW o \in Occs
      PROVE  Closed(o)
  <2>1. CASE SweepCommit
    BY <1>1, <2>1, SweepCommitOcc
  <2>2. CASE ~SweepCommit
    <3>1. SetsStatus(o) \/ Emptied(o)
      BY <1>1, <2>2, StepOcc DEF OccInv
    <3> QED
      BY <3>1 DEF SetsStatus, Emptied
  <2> QED
    BY <2>1, <2>2
<1>2. Base /\ OccInv /\ [Next]_vars => [\A o \in Occs : Closed(o)]_vars
  BY <1>1
<1> QED
  BY <1>2, BaseAlways, OccInvAlways, PTL DEF Spec, ClosedStaysClosed

-----------------------------------------------------------------------------
(* A done occurrence has been answered by everybody it was sent to. *)

\* A delivery nobody can answer any more.
Over(d) == row[d] = Gone \/ row[d].status \in TerminalDelivery

\* A reaction that counted itself last still is, but for a row a stale
\* write-back has put back or an insert has added since.
LastStands ==
    \A t \in Taps : Closing(t) =>
        \A e \in Of(OccOf[tap[t].d]) \ {tap[t].d} :
            e \in staleRows \cup missed \/ Over(e)

\* What is over stays over, once it has been counted.
LEMMA OverStays ==
    ASSUME Base, [Next]_vars, NEW d \in Deliveries, d \notin staleRows' \cup missed',
           Over(d), Counted(OccOf[d])
    PROVE  Over(d)'
<1>1. Lives(d)
  BY StepLives
<1>2. CASE row'[d] = Gone
  BY <1>2 DEF Over
<1>3. CASE row'[d] # Gone
  <2>1. row[d].status \in TerminalDelivery /\ ~Inserted(d)
    BY <1>1, <1>3 DEF Lives, Inserted, Over
  <2>2. Kept(d)
    BY <1>1, <1>3, <2>1
    DEF Lives, Delivered, Repeated, Snoozed, AnsweredNow, TerminalDelivery, Queued
  <2> QED
    BY <2>1, <2>2 DEF Kept, Over
<1> QED
  BY <1>2, <1>3

LEMMA LastStandsStep ==
    ASSUME Base, LastStands, [Next]_vars
    PROVE  LastStands'
<1> SUFFICES ASSUME NEW t \in Taps, Closing(t)',
                    NEW e \in Of(OccOf[tap'[t].d]) \ {tap'[t].d},
                    e \notin staleRows' \cup missed'
             PROVE  Over(e)'
  BY DEF LastStands, Of
<1>1. e \in Deliveries /\ e \notin staleRows \cup missed /\ OccOf[e] = OccOf[tap'[t].d]
  BY StaleGrows DEF Of
<1>2. CASE tap'[t] = tap[t]
  <2>1. Closing(t)
    BY <1>2 DEF Closing
  <2>2. Over(e)
    BY <1>1, <1>2, <2>1 DEF LastStands
  <2>3. Counted(OccOf[e])
    BY <1>1, <1>2, <2>1 DEF Counted
  <2> QED
    BY <1>1, <2>2, <2>3, OverStays
<1>3. CASE LocksNow(t)
  BY <1>3 DEF LocksNow, Closing, LastToAnswer, Over
<1> QED
  BY <1>2, <1>3, LockStep DEF Closing

LEMMA LastStandsAlways == Spec => []LastStands
<1>1. Init => LastStands
  BY DEF Init, LastStands, Closing, IdleTap
<1> QED
  BY <1>1, LastStandsStep, BaseAlways, PTL DEF Spec

\* The reaction that closes an occurrence leaves nothing open in it.
LEMMA ClosingReaction ==
    ASSUME Base, LastStands, NEW t \in Taps, ReactCommit(t),
           NEW o \in Occs, occ[o].status \notin Answered, occ'[o].status \in Answered,
           NEW d \in Of(o), d \notin staleRows' \cup missed'
    PROVE  Over(d)'
<1> DEFINE x == tap[t].d
           kind == tap[t].kind
<1>1. /\ tap[t].pc = "locked"
      /\ row' = [row EXCEPT ![x] = AnswerRow(x, kind, tap[t].at)]
      /\ staleRows' = staleRows /\ missed' = missed
      /\ occ' # occ => /\ Closing(t)
                       /\ \A p \in Occs \ {OccOf[x]} : occ'[p] = occ[p]
  BY DEF ReactCommit, historyVars, Base, Typed, TypeOK
<1>2. Closing(t) /\ kind # "snooze" /\ o = OccOf[x]
  BY <1>1 DEF Closing
<1>3. /\ x \in Deliveries /\ kind \in ActionKind /\ tap[t].at \in Time
      /\ row[x] # Gone /\ d \in Deliveries
  BY <1>1, LockedTap DEF Base, Typed, LockHeld, Of
<1>4. CASE d = x
  <2>1. AnswerRow(x, kind, tap[t].at).status \in {"done", "skipped"}
    BY <1>2, <1>3, AnswerRowTyped DEF Base, Typed
  <2> QED
    BY <1>1, <1>3, <1>4, <2>1 DEF Over, TerminalDelivery, Base, Typed, TypeOK
<1>5. CASE d # x
  <2>1. Over(d)
    BY <1>1, <1>2, <1>5 DEF LastStands
  <2> QED
    BY <1>1, <1>3, <1>5, <2>1 DEF Over, Base, Typed, TypeOK
<1> QED
  BY <1>4, <1>5

\* Only a reaction marks an occurrence done or skipped.
LEMMA OnlyReactionsAnswer ==
    ASSUME Base, OccInv, [Next]_vars, NEW o \in Occs,
           occ[o].status \notin Answered, occ'[o].status \in Answered
    PROVE  \E t \in Taps : ReactCommit(t)
<1>1. ASSUME NEW w \in Dispatchers, Abort(w) \/ Apply(w)
      PROVE  occ'[o].status \in {occ[o].status, "sent"}
  <2>1. PICK m, v : WriteBack(w, m, v)
    BY <1>1 DEF Abort, Apply
  <2> DEFINE x == OccOf[m.id]
  <2>2. occ' = occ \/ occ' = [occ EXCEPT ![x] = SetOccStatus(x, "sent")]
    BY <2>1 DEF WriteBack
  <2> HIDE DEF x
  <2>3. occ'[o] = occ[o] \/ occ'[o] = SetOccStatus(o, "sent")
    BY <2>2 DEF Base, Typed, TypeOK
  <2> QED
    BY <2>3, SetOccStatusKeeps DEF Base, Typed
<1>2. CASE SweepCommit
  BY <1>2, SweepCommitOcc DEF Answered
<1>3. CASE Pause \/ Delete
  BY <1>3 DEF Pause, Delete, DropOccs, Answered
<1>4. CASE UNCHANGED occ
  BY <1>4
<1>5. \/ \E w \in Dispatchers : Abort(w) \/ Apply(w)
      \/ \E t \in Taps : ReactCommit(t)
      \/ SweepCommit \/ Pause \/ Delete
      \/ UNCHANGED occ
  BY DEF Next, vars, Tick, Dispatch, ClaimDue, LoadContext, Send, Crash, React,
     ReactLock, ReactAbort, Press, Sweep, SweepRead, SweepFail, SweepAbort,
     Leave, Return, Insert, dbVars
<1> QED
  BY <1>1, <1>2, <1>3, <1>4, <1>5 DEF Answered

\* An occurrence marked done or skipped has no open delivery among those the
\* closing reaction could count (services/reactions.py _close_occurrence,
\* roll_up_occurrence; db/repositories/occurrences.py all_deliveries_terminal).
THEOREM DoneMeansAnsweredHolds == Spec => []DoneMeansAnswered
<1>1. Init => DoneMeansAnswered
  BY DEF Init, DoneMeansAnswered, Answered
<1>2. ASSUME Base, OccInv, LastStands, DoneMeansAnswered, [Next]_vars
      PROVE  DoneMeansAnswered'
  <2> SUFFICES ASSUME NEW o \in Occs, occ'[o].status \in Answered,
                      Of(o) \cap staleRows' = {}, NEW d \in Of(o) \ missed'
               PROVE  Over(d)'
    BY DEF DoneMeansAnswered, Over
  <2>1. /\ d \in Deliveries /\ OccOf[d] = o
        /\ d \notin staleRows' \cup missed' /\ d \notin missed
        /\ Of(o) \cap staleRows = {}
    BY <1>2, StaleGrows DEF Of
  <2>2. CASE occ[o].status \in Answered
    <3>1. Over(d)
      BY <1>2, <2>1, <2>2 DEF DoneMeansAnswered, Over
    <3>2. Counted(OccOf[d])
      BY <2>1, <2>2 DEF Counted
    <3> QED
      BY <1>2, <2>1, <3>1, <3>2, OverStays
  <2>3. CASE occ[o].status \notin Answered
    BY <1>2, <2>1, <2>3, OnlyReactionsAnswer, ClosingReaction
  <2> QED
    BY <2>2, <2>3
<1> QED
  BY <1>1, <1>2, BaseAlways, OccInvAlways, LastStandsAlways, PTL DEF Spec

=============================================================================
