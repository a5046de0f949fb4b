------------------------------- MODULE Digest -------------------------------
(***************************************************************************)
(* digest.send, the fourth cycle of the worker (services/digest.py): the   *)
(* weekly summary of every user who wants one, keyed on the weekly moment  *)
(* of the user's own time zone.  A cycle reads a batch of users once, sends *)
(* each summary and then marks the moment; users change their settings     *)
(* underneath, and the process is killed between a send and its mark.      *)
(*                                                                         *)
(* Time is in days.  The local calendar is a constant: the weekly moments  *)
(* of each zone, and where quiet hours put them (modules Calendar and      *)
(* QuietHours say what those functions compute).                           *)
(***************************************************************************)
EXTENDS Naturals, Sequences, FiniteSets

CONSTANTS Users,          \* identifiers, the tie-break of the batch's order
          Zones,
          WeeklyMoments,  \* zone -> the weekly moments in it
          QuietShift,     \* user -> moment -> where the user's quiet hours put it
          Busy,           \* user -> the moments whose week had something to report
          Prefilter,      \* DIGEST_PREFILTER_DAYS
          BatchSize,      \* digest_batch_size
          MaxFaults,      \* bound on kills and on failures that are retried
          Start, MaxTime  \* bounds of the clock

ASSUME DigestAssumption ==
  /\ Users \subseteq Nat /\ IsFiniteSet(Users) /\ BatchSize \in Nat \ {0} /\ Prefilter \in Nat
  /\ Start \in Nat /\ MaxTime \in Nat /\ MaxFaults \in Nat
  /\ WeeklyMoments \in [Zones -> SUBSET (Nat \ {0})]

VARIABLES now,
          user,    \* settings, is_blocked and digest_sent_at of each user
          cycle,   \* the cycle in progress: users as they were read
          faults   \* kills and retried failures so far

vars == <<now, user, cycle, faults>>

Pcs == {"idle", "next", "sending", "marking"}
UserRow == [zone : Zones, enabled : BOOLEAN, blocked : BOOLEAN, sent_at : Nat]
Entry == [id : Users, row : UserRow]

Never == 0               \* digest_sent_at is NULL; sorts first
NoCycle == [pc |-> "idle", at |-> Start, rest |-> <<>>]

Init ==
  /\ now = Start
  /\ user \in [Users -> [zone : Zones, enabled : {TRUE}, blocked : {FALSE}, sent_at : {Never}]]
  /\ cycle = NoCycle
  /\ faults = 0

---------------------------------------------------------------------------
(* What is owed (domain/digest.py).                                        *)

LastDigestMoment(zone, t) ==
  LET past == {m \in WeeklyMoments[zone] : m <= t}
  IN IF past = {} THEN Never ELSE CHOOSE m \in past : \A k \in past : k <= m

\* digest_due_at: the moment still owed, unshifted, or Never.
Owed(row, u, t) ==
  LET m == LastDigestMoment(row.zone, t)
  IN IF m # Never /\ row.sent_at < m /\ QuietShift[u][m] <= t THEN m ELSE Never

\* list_digest_candidates: a mark of the last days cannot be due yet.
Candidate(u) ==
  /\ ~user[u].blocked /\ user[u].enabled
  /\ user[u].sent_at = Never \/ user[u].sent_at + Prefilter < now

\* Oldest mark first, then by identifier; read once for the whole batch.
Before(u, v) == \/ user[u].sent_at < user[v].sent_at
                \/ user[u].sent_at = user[v].sent_at /\ u < v
Ahead(u) == {v \in Users : Candidate(v) /\ Before(v, u)}
Chosen == {u \in Users : Candidate(u) /\ Cardinality(Ahead(u)) < BatchSize}
IsInOrder(ids) == \A i, j \in DOMAIN ids : i < j => Before(ids[i], ids[j])

---------------------------------------------------------------------------
(* The cycle: run, _one, _send, _failed, _mark.                            *)

Subject == Head(cycle.rest).id
Moment == Owed(Head(cycle.rest).row, Subject, cycle.at)

\* Mutant: after a mark the batch goes on with the same user.
ProceedAgain ==
  cycle' = IF Len(cycle.rest) = 1 /\ cycle.pc # "marking" THEN NoCycle
           ELSE [cycle EXCEPT !.pc = "next", !.rest = IF cycle.pc = "marking" THEN @ ELSE Tail(@)]

\* The next user of the batch, or the end of the cycle.
Proceed ==
  cycle' = IF Len(cycle.rest) = 1 THEN NoCycle
           ELSE [cycle EXCEPT !.pc = "next", !.rest = Tail(@)]

Begin ==
  /\ cycle.pc = "idle"
  /\ Chosen # {}
  /\ \E ids \in [1 .. Cardinality(Chosen) -> Chosen] :
       /\ IsInOrder(ids)
       /\ cycle' = [pc |-> "next", at |-> now,
                    rest |-> [n \in DOMAIN ids |-> [id |-> ids[n], row |-> user[ids[n]]]]]
  /\ UNCHANGED <<now, user, faults>>

Defer ==
  /\ cycle.pc = "next"
  /\ Moment = Never
  /\ Proceed
  /\ UNCHANGED <<now, user, faults>>

\* Mutant: an empty week is left unmarked.
SkipUnmarked ==
  /\ cycle.pc = "next"
  /\ Moment # Never /\ Moment \notin Busy[Subject]
  /\ Proceed
  /\ UNCHANGED <<now, user, faults>>

\* Nothing happened that week: nothing is sent, the mark goes down.
SkipEmpty ==
  /\ cycle.pc = "next"
  /\ Moment # Never /\ Moment \notin Busy[Subject]
  /\ user' = [user EXCEPT ![Subject].sent_at = Moment]
  /\ Proceed
  /\ UNCHANGED <<now, faults>>

Send ==
  /\ cycle.pc = "next"
  /\ Moment # Never /\ Moment \in Busy[Subject]
  /\ cycle' = [cycle EXCEPT !.pc = "sending"]
  /\ UNCHANGED <<now, user, faults>>

Answered ==
  /\ cycle.pc = "sending"
  /\ cycle' = [cycle EXCEPT !.pc = "marking"]
  /\ UNCHANGED <<now, user, faults>>

\* A terminal failure marks the moment too; FORBIDDEN also blocks the user.
Refused ==
  /\ cycle.pc = "sending"
  /\ \E forbids \in BOOLEAN :
       user' = [user EXCEPT ![Subject].sent_at = Moment, ![Subject].blocked = @ \/ forbids]
  /\ Proceed
  /\ UNCHANGED <<now, faults>>

\* RETRY_AFTER and TRANSIENT leave the mark off; the message may be there.
Unanswered ==
  /\ cycle.pc = "sending"
  /\ faults < MaxFaults /\ faults' = faults + 1
  /\ Proceed
  /\ UNCHANGED <<now, user>>

Mark ==
  /\ cycle.pc = "marking"
  /\ user' = [user EXCEPT ![Subject].sent_at = Moment]
  /\ Proceed
  /\ UNCHANGED <<now, faults>>

\* The process is killed, or a query of the cycle raises.
Crash ==
  /\ cycle.pc # "idle"
  /\ faults < MaxFaults /\ faults' = faults + 1
  /\ cycle' = NoCycle
  /\ UNCHANGED <<now, user>>

Cycle == Begin \/ Defer \/ SkipEmpty \/ Send \/ Answered \/ Refused \/ Unanswered \/ Mark

---------------------------------------------------------------------------
(* What users do meanwhile (services/onboarding.py).                       *)

\* Mutant: the mark belongs to the old zone, so it is dropped.
SetTimezoneForgetting(u) == \E z \in Zones :
  /\ z # user[u].zone
  /\ user' = [user EXCEPT ![u].zone = z, ![u].sent_at = Never]
  /\ UNCHANGED <<now, cycle, faults>>

SetTimezone(u) == \E z \in Zones :
  /\ z # user[u].zone
  /\ user' = [user EXCEPT ![u].zone = z]
  /\ UNCHANGED <<now, cycle, faults>>

\* The mark is left alone.
SetDigest(u) ==
  /\ user' = [user EXCEPT ![u].enabled = ~@]
  /\ UNCHANGED <<now, cycle, faults>>

\* ensure_user: any update from somebody who had blocked the bot.
EnsureUser(u) ==
  /\ user[u].blocked
  /\ user' = [user EXCEPT ![u].blocked = FALSE]
  /\ UNCHANGED <<now, cycle, faults>>

Tick ==
  /\ now < MaxTime
  /\ now' = now + 1
  /\ UNCHANGED <<user, cycle, faults>>

Next ==
  \/ Cycle \/ Crash \/ Tick
  \/ \E u \in Users : SetTimezone(u) \/ SetDigest(u) \/ EnsureUser(u)

Spec == Init /\ [][Next]_vars

\* run_loop runs the cycle again and again, and the clock advances.
FairSpec == Spec /\ WF_vars(Cycle) /\ WF_vars(Tick)

---------------------------------------------------------------------------
(* Properties.                                                             *)

TypeOK ==
  /\ now \in Nat
  /\ user \in [Users -> UserRow]
  /\ cycle \in [pc : Pcs, at : Nat, rest : Seq(Entry)]
  /\ cycle.pc # "idle" => cycle.rest # <<>>

\* A digest is never on its way for a week already reported, found empty or
\* given up, however the user moves, switches the digest off and on, or changes
\* after the batch was read.  (A kill after the send leaves the week unmarked,
\* and the next cycle sends it again.)
NoSecondCopy ==
  cycle.pc \in {"sending", "marking"} => user[Subject].sent_at < Moment

\* The mark of a user never moves back: a week that was reported, found empty
\* or given up stays so, also for somebody who moves to another zone while a
\* cycle holds the row it read before.
MarksOnlyAdvance ==
  [][\A u \in Users : user'[u].sent_at >= user[u].sent_at]_vars

\* Everybody's week is dealt with in the end, however small the batch and
\* whoever is ahead in it, unless the user leaves, moves or switches off.
\* The clock ends, so what is held back until then is left out: by quiet hours,
\* or because a mark set in another zone still looks recent to the query.
HeldBack(u, m) ==
  QuietShift[u][m] > MaxTime \/ (user[u].sent_at # Never /\ user[u].sent_at + Prefilter >= MaxTime)

WeekDealtWith ==
  \A u \in Users : \A z \in Zones : \A m \in WeeklyMoments[z] :
    (now >= m /\ user[u].zone = z)
      ~> \/ user[u].sent_at >= m \/ HeldBack(u, m)
         \/ user[u].zone # z \/ ~user[u].enabled \/ user[u].blocked
=============================================================================
