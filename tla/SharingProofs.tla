----------------------------- MODULE SharingProofs -----------------------------
(***************************************************************************)
(* Proofs about Sharing, for any number of people, links and handler runs. *)
(***************************************************************************)
EXTENDS Sharing, FiniteSetTheorems, TLAPS

-----------------------------------------------------------------------------
(* The watcher limit.  WithinLimit is not inductive: it needs that what the *)
(* run that holds the reminder has found still stands (there is room, and   *)
(* the user has no row), and that only one run holds it.                    *)

OneHolder ==
    \A r1, r2 \in Runs : (run[r1].pc = "locked" /\ run[r2].pc = "locked") => r1 = r2

Room ==
    \A r \in Runs : (run[r].pc = "locked" /\ run[r].joins)
                       => WatcherCount < Limit /\ run[r].u \notin Watchers

Inv == TypeOK /\ WithinLimit /\ OneHolder /\ Room

LEMMA WatchersFinite ==
    IsFiniteSet(Watchers) /\ Cardinality(Watchers) \in Nat
<1>1. Watchers \in SUBSET Users
  BY DEF Watchers
<1> QED
  BY <1>1, UsersAssumption, FS_Subset, FS_CardinalityType

\* Marking a row that exists does not change who is a watcher.
LEMMA MarkKeepsWatchers ==
    ASSUME TypeOK, NEW u \in Users, NEW at \in Time, recipients[u] = Pending,
           recipients' = [recipients EXCEPT ![u] = at]
    PROVE  Watchers' = Watchers
<1>1. at # Absent
  BY NumbersAssumption DEF Time, Absent
<1> QED
  BY <1>1 DEF TypeOK, Watchers, Absent, Pending

\* Dropping rows leaves room where there was room.
LEMMA FewerWatchers ==
    ASSUME Watchers' \subseteq Watchers
    PROVE  Cardinality(Watchers') <= Cardinality(Watchers) /\ Cardinality(Watchers') \in Nat
<1>1. IsFiniteSet(Watchers)
  BY WatchersFinite
<1>2. Watchers' \in SUBSET Watchers
  OBVIOUS
<1>3. IsFiniteSet(Watchers')
  BY <1>1, <1>2, FS_Subset
<1> QED
  BY <1>1, <1>2, <1>3, FS_Subset, FS_CardinalityType

LEMMA InvInit == Init => Inv
<1> SUFFICES ASSUME Init PROVE Inv
  OBVIOUS
<1>1. TypeOK
  <2>1. now \in Time
    BY NumbersAssumption DEF Init, Time
  <2>2. invites \in [Tokens -> Invite \cup {Unissued}]
    BY DEF Init
  <2>3. recipients \in [Users -> Time \cup {Absent, Pending}]
    BY DEF Init
  <2>4. run \in [Runs -> OwnerRun \cup InviteeRun \cup {Idle}]
    BY DEF Init
  <2> QED
    BY <2>1, <2>2, <2>3, <2>4 DEF Init, TypeOK
<1>2. Watchers = {}
  BY DEF Init, Watchers
<1>3. WithinLimit
  BY <1>2, FS_EmptySet, NumbersAssumption DEF WithinLimit
<1>4. OneHolder /\ Room
  BY DEF Init, OneHolder, Room, Idle
<1> QED
  BY <1>1, <1>3, <1>4 DEF Inv

\* A step that changes no run but r's, and leaves r without the reminder, keeps
\* the lock discipline as long as the watchers have not grown.
LEMMA LockKept ==
    ASSUME Inv, NEW r \in Runs, NEW next \in OwnerRun \cup InviteeRun \cup {Idle},
           next.pc # "locked", run' = [run EXCEPT ![r] = next],
           Watchers' \subseteq Watchers
    PROVE  WithinLimit' /\ OneHolder' /\ Room'
<1>1. /\ Cardinality(Watchers') <= Cardinality(Watchers)
      /\ Cardinality(Watchers') \in Nat /\ Cardinality(Watchers) \in Nat
  BY FewerWatchers, WatchersFinite
<1>2. WithinLimit'
  BY <1>1, NumbersAssumption DEF Inv, WithinLimit
<1>3. \A q \in Runs : run'[q].pc = "locked" => q # r /\ run'[q] = run[q]
  BY DEF Inv, TypeOK
<1>4. OneHolder'
  BY <1>3 DEF Inv, OneHolder
<1>5. Room'
  BY <1>1, <1>3, NumbersAssumption DEF Inv, Room, WatcherCount
<1> QED
  BY <1>2, <1>4, <1>5

LEMMA OwnerKeepsInv ==
    ASSUME Inv, NEW r \in Runs, OwnerStep(r)
    PROVE  Inv'
<1> USE DEF Inv
<1>1. ASSUME NEW op \in {"issue", "revoke"}, LinkStart(r, op)
      PROVE  Inv'
  <2>1. PICK seen \in Tokens \cup {NoToken} :
           run' = [run EXCEPT ![r] = [pc |-> "revoking", op |-> op, seen |-> seen]]
    BY <1>1 DEF LinkStart
  <2> DEFINE next == [pc |-> "revoking", op |-> op, seen |-> seen]
  <2>2. next \in OwnerRun /\ next.pc # "locked"
    BY DEF OwnerRun
  <2>3. Watchers' = Watchers
    BY <1>1 DEF LinkStart, Watchers
  <2>4. TypeOK'
    BY <1>1, <2>1, <2>2 DEF LinkStart, TypeOK
  <2> QED
    BY <2>1, <2>2, <2>3, <2>4, LockKept
<1>2. CASE LinkRevoke(r)
  <2> DEFINE next == [pc |-> "revoked", op |-> run[r].op, seen |-> run[r].seen,
                      held |-> LinkHeld(run[r].seen)]
  <2>1. run[r] \in OwnerRun
    BY <1>2 DEF LinkRevoke, TypeOK, InviteeRun, Idle
  <2>2. next \in OwnerRun /\ next.pc # "locked"
    BY <2>1 DEF OwnerRun, LinkHeld
  <2>3. Watchers' = Watchers
    BY <1>2 DEF LinkRevoke, Watchers
  <2>4. run' = [run EXCEPT ![r] = next]
    BY <1>2 DEF LinkRevoke
  <2>5. TypeOK'
    BY <1>2, <2>2, <2>4 DEF LinkRevoke, TypeOK
  <2> QED
    BY <2>2, <2>3, <2>4, <2>5, LockKept
<1>3. CASE IssueCommit(r)
  <2>1. PICK t \in Tokens :
          invites' = [Revoking(r) EXCEPT ![t] =
                        [issued |-> TRUE, expires_at |-> now + Ttl, revoked |-> FALSE]]
    BY <1>3 DEF IssueCommit
  <2>2. now + Ttl \in Nat
    BY NumbersAssumption DEF TypeOK, Time
  <2>3. Revoking(r) \in [Tokens -> Invite \cup {Unissued}]
    <3>1. ASSUME NEW x \in Invite \cup {Unissued}
          PROVE  [x EXCEPT !.revoked = TRUE] \in Invite \cup {Unissued}
      BY <3>1 DEF Invite, Unissued
    <3> QED
      BY <3>1 DEF Revoking, TypeOK
  <2>4. TypeOK'
    BY <1>3, <2>1, <2>2, <2>3 DEF IssueCommit, TypeOK, Invite
  <2>5. Watchers' = Watchers
    BY <1>3 DEF IssueCommit, Watchers
  <2> QED
    BY <1>3, <2>4, <2>5, LockKept DEF IssueCommit, Idle
<1>4. CASE RevokeCommit(r)
  <2>1. Revoking(r) \in [Tokens -> Invite \cup {Unissued}]
    <3>1. ASSUME NEW x \in Invite \cup {Unissued}
          PROVE  [x EXCEPT !.revoked = TRUE] \in Invite \cup {Unissued}
      BY <3>1 DEF Invite, Unissued
    <3> QED
      BY <3>1 DEF Revoking, TypeOK
  <2>2. TypeOK'
    BY <1>4, <2>1 DEF RevokeCommit, TypeOK
  <2>3. Watchers' = Watchers
    BY <1>4 DEF RevokeCommit, Watchers
  <2> QED
    BY <1>4, <2>2, <2>3, LockKept DEF RevokeCommit, Idle
<1> QED
  BY <1>1, <1>2, <1>3, <1>4 DEF OwnerStep

LEMMA InviteeKeepsInv ==
    ASSUME Inv, NEW r \in Runs, InviteeStep(r)
    PROVE  Inv'
<1> USE DEF Inv
<1>1. ASSUME NEW u \in Users, Resolve(r, u)
      PROVE  Inv'
  <2> DEFINE next == [pc |-> "resolved", u |-> u]
  <2>1. next \in InviteeRun /\ next.pc # "locked"
    BY DEF InviteeRun
  <2>2. run' = [run EXCEPT ![r] = next] /\ Watchers' = Watchers
    BY <1>1 DEF Resolve, Watchers
  <2>3. TypeOK'
    BY <1>1, <2>1, <2>2 DEF Resolve, TypeOK
  <2> QED
    BY <2>1, <2>2, <2>3, LockKept
<1>2. ASSUME NEW u \in Users, AcceptRead(r, u)
      PROVE  Inv'
  <2> DEFINE next == [pc |-> "participant", u |-> u, at |-> now]
  <2>1. next \in InviteeRun /\ next.pc # "locked"
    BY DEF InviteeRun, TypeOK
  <2>2. run' = [run EXCEPT ![r] = next] /\ Watchers' = Watchers
    BY <1>2 DEF AcceptRead, Watchers
  <2>3. TypeOK'
    BY <1>2, <2>1, <2>2 DEF AcceptRead, TypeOK
  <2> QED
    BY <2>1, <2>2, <2>3, LockKept
<1>3. CASE OpenLock(r)
  <2> DEFINE u == run[r].u
             next == [pc |-> "locked", u |-> u, joins |-> recipients[u] = Absent,
                      watchers |-> WatcherCount]
  <2>1. u \in Users
    BY <1>3 DEF OpenLock, TypeOK, OwnerRun, InviteeRun, Idle
  <2>2. WatcherCount \in 0..Limit
    BY WatchersFinite, NumbersAssumption DEF WithinLimit, WatcherCount
  <2>3. next \in InviteeRun
    BY <2>1, <2>2 DEF InviteeRun
  <2>4. run' = [run EXCEPT ![r] = next]
    BY <1>3 DEF OpenLock
  <2>5. TypeOK'
    BY <1>3, <2>3, <2>4 DEF OpenLock, TypeOK
  <2>6. Watchers' = Watchers /\ WatcherCount' = WatcherCount
    BY <1>3 DEF OpenLock, Watchers, WatcherCount
  <2>7. \A q \in Runs : run[q].pc # "locked"
    BY <1>3 DEF OpenLock, OpenWaits, ReminderLocked
  <2>8. \A q \in Runs : run'[q].pc = "locked" => q = r
    BY <2>4, <2>7 DEF TypeOK
  <2>9. run'[r].joins => WatcherCount < Limit /\ run'[r].u \notin Watchers
    BY <1>3, <2>4 DEF OpenLock, MayJoin, TypeOK, Watchers
  <2> QED
    BY <2>5, <2>6, <2>8, <2>9 DEF WithinLimit, OneHolder, Room
<1>4. CASE OpenCommit(r)
  <2> DEFINE u == run[r].u
  <2>1. u \in Users /\ run[r].joins \in BOOLEAN
    BY <1>4 DEF OpenCommit, TypeOK, OwnerRun, InviteeRun, Idle
  <2>2. TypeOK'
    BY <1>4, <2>1 DEF OpenCommit, TypeOK
  <2>3. CASE ~run[r].joins
    <3>1. Watchers' = Watchers
      BY <1>4, <2>3 DEF OpenCommit, Watchers
    <3> QED
      BY <1>4, <2>2, <3>1, LockKept DEF OpenCommit, Idle
  <2>4. CASE run[r].joins
    <3>1. Watchers' = Watchers \cup {u}
      BY <1>4, <2>1, <2>4 DEF OpenCommit, Watchers, TypeOK, Pending, Absent
    <3>2. WatcherCount < Limit
      BY <1>4, <2>4 DEF OpenCommit, Room
    <3>3. Cardinality(Watchers') = Cardinality(Watchers) + 1
      <4>1. u \notin Watchers
        BY <1>4, <2>4 DEF OpenCommit, Room
      <4>2. Cardinality(Watchers \cup {u}) = IF u \in Watchers THEN Cardinality(Watchers)
                                             ELSE Cardinality(Watchers) + 1
        BY WatchersFinite, FS_AddElement, Zenon
      <4> QED
        BY <3>1, <4>1, <4>2
    <3>4. Cardinality(Watchers') \in Nat
      <4>1. IsFiniteSet(Watchers')
        BY <3>1, WatchersFinite, FS_AddElement
      <4> QED
        BY <4>1, FS_CardinalityType
    <3>5. WithinLimit'
      BY <3>2, <3>3, <3>4, WatchersFinite, NumbersAssumption DEF WithinLimit, WatcherCount
    <3>6. \A q \in Runs : run'[q].pc # "locked"
      <4>1. \A q \in Runs : run[q].pc = "locked" => q = r
        BY <1>4 DEF OpenCommit, OneHolder
      <4> QED
        BY <1>4, <4>1 DEF OpenCommit, TypeOK, Idle
    <3> QED
      BY <2>2, <3>5, <3>6 DEF OneHolder, Room
  <2> QED
    BY <2>1, <2>3, <2>4
<1>5. CASE AcceptCommit(r)
  <2>1. run[r].u \in Users /\ run[r].at \in Time
    BY <1>5 DEF AcceptCommit, TypeOK, OwnerRun, InviteeRun, Idle
  <2>2. TypeOK'
    BY <1>5, <2>1 DEF AcceptCommit, TypeOK
  <2>3. Watchers' = Watchers
    <3>1. CASE Accepts(run[r].u)
      BY <1>5, <2>1, <3>1, MarkKeepsWatchers DEF AcceptCommit, Accepts
    <3>2. CASE ~Accepts(run[r].u)
      BY <1>5, <3>2 DEF AcceptCommit, Watchers
    <3> QED
      BY <3>1, <3>2
  <2> QED
    BY <1>5, <2>2, <2>3, LockKept DEF AcceptCommit, Idle
<1> QED
  BY <1>1, <1>2, <1>3, <1>4, <1>5 DEF InviteeStep

\* A step that touches no run and drops rows at most.
LEMMA QuietKeepsLock ==
    ASSUME Inv, UNCHANGED run, Watchers' \subseteq Watchers
    PROVE  WithinLimit' /\ OneHolder' /\ Room'
<1>1. /\ Cardinality(Watchers') <= Cardinality(Watchers)
      /\ Cardinality(Watchers') \in Nat /\ Cardinality(Watchers) \in Nat
  BY FewerWatchers, WatchersFinite
<1> QED
  BY <1>1, NumbersAssumption DEF Inv, WithinLimit, OneHolder, Room, WatcherCount

LEMMA InvStep == Inv /\ [Next]_vars => Inv'
<1> SUFFICES ASSUME Inv, [Next]_vars PROVE Inv'
  OBVIOUS
<1> USE DEF Inv
<1>1. CASE Tick
  <2>1. TypeOK'
    BY <1>1, NumbersAssumption DEF Tick, TypeOK, Time
  <2>2. Watchers' = Watchers
    BY <1>1 DEF Tick, Watchers
  <2> QED
    BY <1>1, <2>1, <2>2, QuietKeepsLock DEF Tick
<1>2. ASSUME NEW r \in Runs, OwnerStep(r)
      PROVE  Inv'
  BY <1>2, OwnerKeepsInv
<1>3. ASSUME NEW r \in Runs, InviteeStep(r)
      PROVE  Inv'
  BY <1>3, InviteeKeepsInv
<1>4. ASSUME NEW r \in Runs, Abort(r)
      PROVE  Inv'
  <2>1. TypeOK'
    BY <1>4 DEF Abort, TypeOK
  <2>2. Watchers' = Watchers
    BY <1>4 DEF Abort, Watchers
  <2> QED
    BY <1>4, <2>1, <2>2, LockKept DEF Abort, Idle
<1>5. ASSUME NEW u \in Users, Remove(u)
      PROVE  Inv'
  <2>1. TypeOK'
    BY <1>5 DEF Remove, TypeOK
  <2>2. Watchers' \subseteq Watchers
    BY <1>5 DEF Remove, Watchers, TypeOK
  <2> QED
    BY <1>5, <2>1, <2>2, QuietKeepsLock DEF Remove
<1>6. CASE Delete
  <2>1. TypeOK'
    BY <1>6 DEF Delete, TypeOK
  <2>2. Watchers' \subseteq Watchers
    BY <1>6 DEF Delete, Watchers
  <2> QED
    BY <1>6, <2>1, <2>2, QuietKeepsLock DEF Delete
<1>7. CASE UNCHANGED vars
  <2>1. TypeOK' /\ Watchers' = Watchers
    BY <1>7 DEF vars, TypeOK, Watchers
  <2> QED
    BY <1>7, <2>1, QuietKeepsLock DEF vars
<1> QED
  BY <1>1, <1>2, <1>3, <1>4, <1>5, <1>6, <1>7 DEF Next

LEMMA InvAlways == Spec => []Inv
  BY InvInit, InvStep, PTL DEF Spec

\* Every reachable state is well-typed, in particular the count a run takes
\* under the reminder's lock never exceeds the limit (SharingService).
THEOREM SharingTypeCorrect == Spec => []TypeOK
<1>1. Inv => TypeOK
  BY DEF Inv
<1> QED
  BY <1>1, InvAlways, PTL

\* However many people follow links at once, the watchers stay within the limit
\* (open_invite: the count and the insert are one decision under the lock).
THEOREM WithinLimitHolds == Spec => []WithinLimit
<1>1. Inv => WithinLimit
  BY DEF Inv
<1> QED
  BY <1>1, InvAlways, PTL

-----------------------------------------------------------------------------
(* Acceptance. *)

\* No press but the first moves the moment of acceptance, and only leaving
\* takes it back (RecipientsRepository.accept).
THEOREM AcceptanceStandsHolds == Spec => AcceptanceStands
<1> DEFINE Stands == \A u \in Users :
             recipients[u] \in Time => recipients'[u] \in {recipients[u], Absent}
<1>1. ASSUME Inv, [Next]_vars
      PROVE  Stands
  <2>1. Pending \notin Time /\ Absent \notin Time
    BY NumbersAssumption DEF Time, Pending, Absent
  <2>2. CASE UNCHANGED recipients
    BY <2>2
  <2>3. ASSUME NEW r \in Runs, OpenCommit(r)
        PROVE  Stands
    <3>1. run[r].joins => recipients[run[r].u] \notin Time
      BY <1>1, <2>1, <2>3
         DEF OpenCommit, Inv, TypeOK, Room, Watchers, OwnerRun, InviteeRun, Idle
    <3> QED
      BY <1>1, <2>3, <3>1 DEF OpenCommit, Inv, TypeOK
  <2>4. ASSUME NEW r \in Runs, AcceptCommit(r)
        PROVE  Stands
    BY <1>1, <2>1, <2>4 DEF AcceptCommit, Accepts, Inv, TypeOK
  <2>5. ASSUME NEW u \in Users, Remove(u)
        PROVE  Stands
    BY <1>1, <2>5 DEF Remove, Inv, TypeOK
  <2>6. CASE Delete
    BY <2>6 DEF Delete
  <2> QED
    BY <1>1, <2>2, <2>3, <2>4, <2>5, <2>6
       DEF Next, vars, Tick, OwnerStep, LinkStart, LinkRevoke, IssueCommit, RevokeCommit,
           InviteeStep, Resolve, AcceptRead, OpenLock, Abort
<1>2. Inv /\ [Next]_vars => [\A u \in Users :
         recipients[u] \in Time => recipients'[u] \in {recipients[u], Absent}]_vars
  BY <1>1
<1> QED
  BY <1>2, InvAlways, PTL DEF Spec, AcceptanceStands

-----------------------------------------------------------------------------
(* The links.  OneLiveLink is inductive over well-typed states: the index    *)
(* lets a link in only when the one it replaces is the only other.          *)

LEMMA UnissuedNotLive ==
    ASSUME NEW t \in Tokens, invites[t] = Unissued
    PROVE  ~Unrevoked(t)
  BY DEF Unrevoked, Unissued

\* What a revocation leaves alive.
LEMMA RevokingLeaves ==
    ASSUME TypeOK, NEW r \in Runs, NEW t \in Tokens, t # run[r].held
    PROVE  Revoking(r)[t] = invites[t]
  BY DEF Revoking

LEMMA RevokingKills ==
    ASSUME TypeOK, NEW r \in Runs, NEW t \in Tokens, t = run[r].held
    PROVE  ~(Revoking(r)[t].issued /\ ~Revoking(r)[t].revoked)
<1>1. ASSUME NEW x \in Invite \cup {Unissued}
      PROVE  LET y == [x EXCEPT !.revoked = TRUE] IN ~(y.issued /\ ~y.revoked)
  BY <1>1 DEF Invite, Unissued
<1>2. Revoking(r)[t] = [invites[t] EXCEPT !.revoked = TRUE] /\ invites[t] \in Invite \cup {Unissued}
  BY DEF Revoking, TypeOK
<1> QED
  BY <1>1, <1>2

\* A committed revocation takes the link it held, and nothing else, out of use.
LEMMA RevokeLive ==
    ASSUME TypeOK, NEW r \in Runs, RevokeCommit(r)
    PROVE  LiveLinks' = LiveLinks \ {run[r].held}
<1>1. invites' = Revoking(r)
  BY DEF RevokeCommit
<1> QED
  BY <1>1, RevokingLeaves, RevokingKills DEF LiveLinks, Unrevoked

\* A committed issue leaves exactly the new link in use.
LEMMA IssueLive ==
    ASSUME TypeOK, NEW r \in Runs, IssueCommit(r)
    PROVE  \E t \in Tokens : invites[t] = Unissued /\ LiveLinks' = {t}
<1> DEFINE new == [issued |-> TRUE, expires_at |-> now + Ttl, revoked |-> FALSE]
<1>1. PICK t \in Tokens :
        invites[t] = Unissued /\ invites' = [Revoking(r) EXCEPT ![t] = new]
  BY DEF IssueCommit
<1>2. Revoking(r) = [x \in Tokens |-> Revoking(r)[x]]
  BY DEF Revoking
<1>3. invites'[t] = new /\ \A x \in Tokens \ {t} : invites'[x] = Revoking(r)[x]
  BY <1>1, <1>2
<1>4. \A x \in LiveLinks : x = run[r].held
  BY DEF IssueCommit, NoClash
<1>5. t \in LiveLinks'
  BY <1>3 DEF LiveLinks, Unrevoked
<1>6. ASSUME NEW x \in Tokens \ {t}
      PROVE  x \notin LiveLinks'
  <2>1. CASE x = run[r].held
    BY <1>3, <1>6, <2>1, RevokingKills DEF LiveLinks, Unrevoked
  <2>2. CASE x # run[r].held
    <3>1. x \notin LiveLinks
      BY <1>4, <2>2
    <3> QED
      BY <1>3, <1>6, <2>2, <3>1, RevokingLeaves DEF LiveLinks, Unrevoked
  <2> QED
    BY <2>1, <2>2
<1>7. LiveLinks' \subseteq Tokens
  BY DEF LiveLinks
<1> QED
  BY <1>1, <1>5, <1>6, <1>7

\* A run that has started keeps an eye on the link it saw: that link has been
\* issued, and once the run has its locks, either it holds the link or the link
\* was dead.
Watches(r) ==
    (run[r].pc \in {"revoking", "revoked"} /\ run[r].seen # NoToken) =>
        /\ run[r].seen \in Tokens
        /\ invites[run[r].seen] # Unissued \/ deleted
        /\ (run[r].pc = "revoked" /\ run[r].held # run[r].seen)
              => run[r].seen \notin LiveLinks

SeenWatched == \A r \in Runs : Watches(r)

LinkInv == TypeOK /\ OneLiveLink /\ SeenWatched

LEMMA LinkInit == Init => OneLiveLink /\ SeenWatched
  BY UnissuedNotLive DEF Init, OneLiveLink, SeenWatched, Watches, LiveLinks, Idle

\* A link out of use stays out of use, and a link that was issued stays issued.
LEMMA DeadStaysDead ==
    ASSUME LinkInv, [Next]_vars
    PROVE  /\ \A t \in Tokens : (invites[t] # Unissued \/ deleted)
                => (invites'[t] # Unissued \/ deleted')
           /\ \A t \in Tokens : (t \notin LiveLinks /\ (invites[t] # Unissued \/ deleted))
                => t \notin LiveLinks'
<1> DEFINE Kept ==
      /\ \A t \in Tokens : (invites[t] # Unissued \/ deleted)
            => (invites'[t] # Unissued \/ deleted')
      /\ \A t \in Tokens : (t \notin LiveLinks /\ (invites[t] # Unissued \/ deleted))
            => t \notin LiveLinks'
<1>1. CASE UNCHANGED <<invites, deleted>>
  BY <1>1 DEF LiveLinks, Unrevoked
<1>2. \A r \in Runs, t \in Tokens : invites[t] # Unissued => Revoking(r)[t] # Unissued
  <2>1. ASSUME NEW x \in Invite
        PROVE  [x EXCEPT !.revoked = TRUE] # Unissued
    BY <2>1 DEF Invite, Unissued
  <2> QED
    BY <2>1 DEF Revoking, LinkInv, TypeOK
<1>3. ASSUME NEW r \in Runs, RevokeCommit(r)
      PROVE  Kept
  <2>1. invites' = Revoking(r) /\ deleted' = deleted /\ LiveLinks' = LiveLinks \ {run[r].held}
    BY <1>3, RevokeLive DEF RevokeCommit, LinkInv
  <2> QED
    BY <1>2, <2>1
<1>4. ASSUME NEW r \in Runs, IssueCommit(r)
      PROVE  Kept
  <2> DEFINE new == [issued |-> TRUE, expires_at |-> now + Ttl, revoked |-> FALSE]
  <2>1. PICK t \in Tokens : invites[t] = Unissued /\ LiveLinks' = {t}
    BY <1>4, IssueLive DEF LinkInv
  <2>2. ~deleted /\ deleted' = deleted
    BY <1>4 DEF IssueCommit
  <2>3. PICK s \in Tokens : invites' = [Revoking(r) EXCEPT ![s] = new]
    BY <1>4 DEF IssueCommit
  <2>4. new # Unissued
    BY DEF Unissued
  <2>5. \A x \in Tokens : invites'[x] = new \/ invites'[x] = Revoking(r)[x]
    BY <2>3 DEF Revoking
  <2> QED
    BY <1>2, <2>1, <2>2, <2>4, <2>5
<1>5. CASE Delete
  BY <1>5, UnissuedNotLive DEF Delete, LiveLinks, Unrevoked, Unissued
<1> QED
  BY <1>1, <1>3, <1>4, <1>5
     DEF Next, vars, Tick, OwnerStep, LinkStart, LinkRevoke, InviteeStep, Resolve,
         AcceptRead, OpenLock, OpenCommit, AcceptCommit, Abort, Remove

LEMMA OneLiveLinkStep == LinkInv /\ [Next]_vars => OneLiveLink'
<1> SUFFICES ASSUME LinkInv, [Next]_vars PROVE OneLiveLink'
  OBVIOUS
<1>1. CASE UNCHANGED invites
  BY <1>1 DEF LinkInv, OneLiveLink, LiveLinks, Unrevoked
<1>2. ASSUME NEW r \in Runs, RevokeCommit(r)
      PROVE  OneLiveLink'
  BY <1>2, RevokeLive DEF LinkInv, OneLiveLink
<1>3. ASSUME NEW r \in Runs, IssueCommit(r)
      PROVE  OneLiveLink'
  BY <1>3, IssueLive DEF LinkInv, OneLiveLink
<1>4. CASE Delete
  BY <1>4 DEF Delete, OneLiveLink, LiveLinks, Unrevoked, Unissued
<1> QED
  BY <1>1, <1>2, <1>3, <1>4
     DEF Next, vars, Tick, OwnerStep, LinkStart, LinkRevoke, InviteeStep, Resolve,
         AcceptRead, OpenLock, OpenCommit, AcceptCommit, Abort, Remove

LEMMA SeenWatchedStep == LinkInv /\ [Next]_vars => SeenWatched'
<1> SUFFICES ASSUME LinkInv, [Next]_vars, NEW q \in Runs PROVE Watches(q)'
  BY DEF SeenWatched
<1> USE DEF LinkInv
<1>1. CASE run'[q] = run[q]
  BY <1>1, DeadStaysDead DEF SeenWatched, Watches
<1>2. CASE run'[q].pc \notin {"revoking", "revoked"}
  BY <1>2 DEF Watches
<1>3. ASSUME NEW op \in {"issue", "revoke"}, LinkStart(q, op)
      PROVE  Watches(q)'
  <2>1. PICK seen \in Tokens \cup {NoToken} :
          /\ IF LiveLinks = {} THEN seen = NoToken ELSE seen \in LiveLinks
          /\ run' = [run EXCEPT ![q] = [pc |-> "revoking", op |-> op, seen |-> seen]]
    BY <1>3 DEF LinkStart
  <2>2. run'[q] = [pc |-> "revoking", op |-> op, seen |-> seen]
    BY <2>1 DEF TypeOK
  <2>3. seen # NoToken => seen \in Tokens /\ invites[seen] # Unissued
    BY <2>1, UnissuedNotLive DEF LiveLinks
  <2>4. invites' = invites
    BY <1>3 DEF LinkStart
  <2> QED
    BY <2>2, <2>3, <2>4 DEF Watches
<1>4. CASE LinkRevoke(q)
  <2>1. run'[q] = [pc |-> "revoked", op |-> run[q].op, seen |-> run[q].seen,
                   held |-> LinkHeld(run[q].seen)]
    BY <1>4 DEF LinkRevoke, TypeOK
  <2>2. invites' = invites /\ deleted' = deleted /\ run[q].pc = "revoking"
    BY <1>4 DEF LinkRevoke
  <2>3. LiveLinks' = LiveLinks
    BY <2>2 DEF LiveLinks, Unrevoked
  <2>4. (run[q].seen # NoToken /\ LinkHeld(run[q].seen) # run[q].seen)
          => run[q].seen \notin LiveLinks
    BY DEF LinkHeld, LiveLinks
  <2> QED
    BY <2>1, <2>2, <2>3, <2>4 DEF SeenWatched, Watches
<1>5. ASSUME NEW r \in Runs, OwnerStep(r) \/ InviteeStep(r) \/ Abort(r), r # q
      PROVE  run'[q] = run[q]
  BY <1>5 DEF TypeOK, OwnerStep, LinkStart, LinkRevoke, IssueCommit, RevokeCommit,
              InviteeStep, Resolve, AcceptRead, OpenLock, OpenCommit, AcceptCommit, Abort
<1>6. CASE InviteeStep(q) \/ Abort(q) \/ IssueCommit(q) \/ RevokeCommit(q)
  <2>1. run'[q].pc \notin {"revoking", "revoked"}
    BY <1>6 DEF TypeOK, IssueCommit, RevokeCommit, InviteeStep, Resolve, AcceptRead,
                OpenLock, OpenCommit, AcceptCommit, Abort, Idle
  <2> QED
    BY <1>2, <2>1
<1> QED
  BY <1>1, <1>3, <1>4, <1>5, <1>6 DEF Next, vars, Tick, OwnerStep, Remove, Delete

LEMMA LinkAlways == Spec => []LinkInv
<1>1. Init => LinkInv
  BY InvInit, LinkInit DEF Inv, LinkInv
<1>2. Inv /\ LinkInv /\ [Next]_vars => LinkInv'
  BY InvStep, OneLiveLinkStep, SeenWatchedStep DEF Inv, LinkInv
<1> QED
  BY <1>1, <1>2, InvAlways, PTL DEF Spec

\* However presses of "invite" and "revoke" interleave, at most one link lets
\* anybody in (tech.md 22.1).
THEOREM OneLiveLinkHolds == Spec => []OneLiveLink
<1>1. LinkInv => OneLiveLink
  BY DEF LinkInv
<1> QED
  BY <1>1, LinkAlways, PTL

\* When a "revoke" ends, the link that was out when it was pressed is dead,
\* whoever else was about to take it back (SharingService.revoke_invite).
THEOREM RevokeTakesBackHolds == Spec => RevokeTakesBack
<1>1. ASSUME LinkInv, NEW r \in Runs, RevokeCommit(r), run[r].seen # NoToken
      PROVE  run[r].seen \notin LiveLinks'
  <2>1. LiveLinks' = LiveLinks \ {run[r].held}
    BY <1>1, RevokeLive DEF LinkInv
  <2>2. run[r].held # run[r].seen => run[r].seen \notin LiveLinks
    BY <1>1 DEF LinkInv, SeenWatched, Watches, RevokeCommit
  <2> QED
    BY <2>1, <2>2
<1>2. LinkInv /\ [Next]_vars => [\A r \in Runs :
         (RevokeCommit(r) /\ run[r].seen # NoToken) => run[r].seen \notin LiveLinks']_vars
  BY <1>1
<1> QED
  BY <1>2, LinkAlways, PTL DEF Spec, RevokeTakesBack

-----------------------------------------------------------------------------
(* The refinement.  A joining run must still have a link that was issued and *)
(* a reminder that is there, and nothing may be left below a deleted one.    *)

LinkKnown ==
    \A r \in Runs : /\ run[r].pc = "resolved" => deleted \/ Issued # {}
                    /\ run[r].pc = "locked" => ~deleted /\ Issued # {}

NothingLeft == deleted => Issued = {} /\ Watchers = {}

ListInv == Inv /\ OneLiveLink /\ LinkKnown /\ NothingLeft

\* A run that is not about to join keeps what the others know.
LEMMA KnownKept ==
    ASSUME Inv, LinkKnown, NEW r \in Runs, NEW next, next.pc \notin {"resolved", "locked"},
           run' = [run EXCEPT ![r] = next], deleted' = deleted,
           Issued # {} => Issued' # {}
    PROVE  LinkKnown'
<1>1. \A q \in Runs : run'[q] = IF q = r THEN next ELSE run[q]
  BY DEF Inv, TypeOK
<1> QED
  BY <1>1 DEF LinkKnown

\* Revoking issues nothing and takes no issue back.
LEMMA RevokeKeepsIssued ==
    ASSUME TypeOK, NEW r \in Runs
    PROVE  /\ {t \in Tokens : Revoking(r)[t].issued} = Issued
           /\ Revoking(r) \in [Tokens -> Invite \cup {Unissued}]
<1>1. ASSUME NEW x \in Invite \cup {Unissued}
      PROVE  LET y == [x EXCEPT !.revoked = TRUE]
             IN y.issued = x.issued /\ y \in Invite \cup {Unissued}
  BY <1>1 DEF Invite, Unissued
<1>2. \A t \in Tokens : invites[t] \in Invite \cup {Unissued}
  BY DEF TypeOK
<1>3. \A t \in Tokens : /\ Revoking(r)[t].issued = invites[t].issued
                        /\ Revoking(r)[t] \in Invite \cup {Unissued}
  BY <1>1, <1>2 DEF Revoking
<1> QED
  BY <1>3 DEF Issued, Revoking

LEMMA LiveIsIssued == LiveLinks \subseteq Issued
  BY DEF LiveLinks, Unrevoked, Issued

LEMMA UnissuedIsNotIssued ==
    ASSUME NEW t \in Tokens, invites[t] = Unissued
    PROVE  t \notin Issued
  BY DEF Issued, Unissued

\* Nothing but a commit moves what WatchList sees.
LEMMA ListUnmoved ==
    ASSUME UNCHANGED <<invites, recipients, deleted>>
    PROVE  UNCHANGED List!vars
  BY DEF List!vars, GuestsSeen, LinkSeen, LiveLinks, Issued, Unrevoked

LEMMA SeenListed == List!Listed = Watchers
<1>1. \A u \in Users : GuestsSeen[u] = "out" <=> recipients[u] = Absent
  BY DEF GuestsSeen, Absent, Pending
<1> QED
  BY <1>1 DEF List!Listed, Watchers

\* A handler's commit of links: the owner's two.
LEMMA OwnerStepsList ==
    ASSUME ListInv, NEW r \in Runs, OwnerStep(r)
    PROVE  [List!Next]_(List!vars) /\ LinkKnown' /\ NothingLeft'
<1> USE DEF ListInv, Inv
<1>1. ASSUME NEW op \in {"issue", "revoke"}, LinkStart(r, op)
      PROVE  [List!Next]_(List!vars) /\ LinkKnown' /\ NothingLeft'
  <2>1. PICK seen \in Tokens \cup {NoToken} :
           run' = [run EXCEPT ![r] = [pc |-> "revoking", op |-> op, seen |-> seen]]
    BY <1>1 DEF LinkStart
  <2>2. UNCHANGED <<invites, recipients, deleted>>
    BY <1>1 DEF LinkStart
  <2>3. Issued' = Issued /\ NothingLeft'
    BY <2>2 DEF Issued, NothingLeft, Watchers
  <2> QED
    BY <2>1, <2>2, <2>3, KnownKept, ListUnmoved
<1>2. CASE LinkRevoke(r)
  <2>1. UNCHANGED <<invites, recipients, deleted>>
    BY <1>2 DEF LinkRevoke
  <2>2. Issued' = Issued /\ NothingLeft'
    BY <2>1 DEF Issued, NothingLeft, Watchers
  <2> QED
    BY <1>2, <2>1, <2>2, KnownKept, ListUnmoved DEF LinkRevoke
<1>3. CASE IssueCommit(r)
  <2> DEFINE new == [issued |-> TRUE, expires_at |-> now + Ttl, revoked |-> FALSE]
  <2>1. PICK t \in Tokens : invites[t] = Unissued /\ LiveLinks' = {t}
    BY <1>3, IssueLive
  <2>2. t \in Issued'
    BY <2>1 DEF LiveLinks, Unrevoked, Issued
  <2>3. UNCHANGED <<recipients, deleted>> /\ ~deleted
    BY <1>3 DEF IssueCommit
  <2>4. LinkSeen' = "live"
    BY <2>1, <2>2 DEF LinkSeen
  <2>5. GuestsSeen' = GuestsSeen
    BY <2>3 DEF GuestsSeen
  <2>6. List!Next
    BY <2>3, <2>4, <2>5 DEF List!Next, List!Issue
  <2>7. LinkKnown'
    BY <1>3, <2>2, <2>3, KnownKept DEF IssueCommit, Idle
  <2> QED
    BY <2>3, <2>6, <2>7 DEF NothingLeft
<1>4. CASE RevokeCommit(r)
  <2>1. UNCHANGED <<recipients, deleted>> /\ invites' = Revoking(r)
    BY <1>4 DEF RevokeCommit
  <2>2. Issued' = Issued
    BY <2>1, RevokeKeepsIssued DEF Issued
  <2>3. LiveLinks' = LiveLinks \ {run[r].held}
    BY <1>4, RevokeLive
  <2>4. GuestsSeen' = GuestsSeen /\ Watchers' = Watchers
    BY <2>1 DEF GuestsSeen, Watchers
  <2>5. LinkKnown'
    BY <1>4, <2>1, <2>2, KnownKept DEF RevokeCommit, Idle
  <2>6. [List!Next]_(List!vars)
    <3>1. CASE LiveLinks' = LiveLinks
      BY <2>1, <2>2, <2>4, <3>1 DEF List!vars, LinkSeen
    <3>2. CASE LiveLinks' # LiveLinks
      <4>1. LiveLinks # {} /\ LiveLinks' = {}
        BY <2>3, <3>2 DEF OneLiveLink
      <4>2. LinkSeen = "live" /\ LinkSeen' = "dead"
        BY <2>2, <4>1, LiveIsIssued DEF LinkSeen
      <4> QED
        BY <2>1, <2>4, <4>2 DEF List!Next, List!Revoke
    <3> QED
      BY <3>1, <3>2
  <2> QED
    BY <2>1, <2>2, <2>4, <2>5, <2>6 DEF NothingLeft
<1> QED
  BY <1>1, <1>2, <1>3, <1>4 DEF OwnerStep

\* The invitee's handlers: a guest more, or an acceptance.
LEMMA InviteeStepsList ==
    ASSUME ListInv, NEW r \in Runs, InviteeStep(r)
    PROVE  [List!Next]_(List!vars) /\ LinkKnown' /\ NothingLeft'
<1> USE DEF ListInv, Inv
<1>0. ASSUME UNCHANGED <<invites, recipients, deleted>>
      PROVE  Issued' = Issued /\ NothingLeft'
  BY <1>0 DEF Issued, NothingLeft, Watchers
<1>1. ASSUME NEW u \in Users, Resolve(r, u)
      PROVE  [List!Next]_(List!vars) /\ LinkKnown' /\ NothingLeft'
  <2>1. UNCHANGED <<invites, recipients, deleted>>
    BY <1>1 DEF Resolve
  <2>2. Issued # {}
    BY <1>1 DEF Resolve, Live, Unrevoked, Issued
  <2>3. \A q \in Runs : run'[q] = IF q = r THEN [pc |-> "resolved", u |-> u] ELSE run[q]
    BY <1>1 DEF Resolve, TypeOK
  <2>4. LinkKnown'
    BY <1>0, <2>1, <2>2, <2>3 DEF LinkKnown
  <2> QED
    BY <1>0, <2>1, <2>4, ListUnmoved
<1>2. ASSUME NEW u \in Users, AcceptRead(r, u)
      PROVE  [List!Next]_(List!vars) /\ LinkKnown' /\ NothingLeft'
  <2>1. UNCHANGED <<invites, recipients, deleted>>
    BY <1>2 DEF AcceptRead
  <2>2. LinkKnown'
    BY <1>0, <1>2, <2>1, KnownKept DEF AcceptRead
  <2> QED
    BY <1>0, <2>1, <2>2, ListUnmoved
<1>3. CASE OpenLock(r)
  <2>1. UNCHANGED <<invites, recipients, deleted>> /\ ~deleted /\ Issued # {}
    BY <1>3 DEF OpenLock, LinkKnown
  <2>2. \A q \in Runs : q # r => run'[q] = run[q]
    BY <1>3 DEF OpenLock, TypeOK
  <2>3. LinkKnown'
    BY <1>0, <2>1, <2>2 DEF LinkKnown
  <2> QED
    BY <1>0, <2>1, <2>3, ListUnmoved
<1>4. CASE OpenCommit(r)
  <2> DEFINE u == run[r].u
  <2>1. u \in Users /\ run[r].joins \in BOOLEAN
    BY <1>4 DEF OpenCommit, TypeOK, OwnerRun, InviteeRun, Idle
  <2>2. UNCHANGED <<invites, deleted>> /\ ~deleted /\ Issued # {}
    BY <1>4 DEF OpenCommit, LinkKnown
  <2>3. LinkSeen' = LinkSeen /\ LinkSeen # "none" /\ Issued' = Issued
    BY <2>2 DEF LinkSeen, Issued, LiveLinks, Unrevoked
  <2>4. LinkKnown' /\ NothingLeft'
    <3>1. Idle.pc \notin {"resolved", "locked"} /\ run' = [run EXCEPT ![r] = Idle]
      BY <1>4 DEF OpenCommit, Idle
    <3>2. LinkKnown'
      BY <2>2, <2>3, <3>1, KnownKept
    <3> QED
      BY <2>2, <3>2 DEF NothingLeft
  <2>5. CASE ~run[r].joins
    BY <1>4, <2>2, <2>4, <2>5, ListUnmoved DEF OpenCommit
  <2>6. CASE run[r].joins
    <3>1. WatcherCount < Limit /\ u \notin Watchers
      BY <1>4, <2>6 DEF OpenCommit, Room
    <3>2. recipients[u] = Absent /\ recipients' = [recipients EXCEPT ![u] = Pending]
      BY <1>4, <2>1, <2>6, <3>1 DEF OpenCommit, Watchers
    <3>3. GuestsSeen[u] = "out" /\ GuestsSeen' = [GuestsSeen EXCEPT ![u] = "invited"]
      BY <2>1, <3>2 DEF GuestsSeen, TypeOK, Absent, Pending
    <3>4. List!Cardinality(List!Listed) < Limit
      <4>1. List!Cardinality(Watchers) = Cardinality(Watchers)
        BY DEF Cardinality, List!Cardinality
      <4> QED
        BY <3>1, <4>1, SeenListed DEF WatcherCount
    <3>5. List!Join(u)
      <4>1. UNCHANGED <<LinkSeen, deleted>>
        BY <2>2, <2>3
      <4> QED
        BY <2>2, <2>3, <3>3, <3>4, <4>1 DEF List!Join
    <3> QED
      BY <2>1, <2>4, <3>5 DEF List!Next
  <2> QED
    BY <2>1, <2>5, <2>6
<1>5. CASE AcceptCommit(r)
  <2> DEFINE u == run[r].u
             at == run[r].at
  <2>1. u \in Users /\ at \in Time
    BY <1>5 DEF AcceptCommit, TypeOK, OwnerRun, InviteeRun, Idle
  <2>2. UNCHANGED <<invites, deleted>>
    BY <1>5 DEF AcceptCommit
  <2>3. LinkSeen' = LinkSeen /\ Issued' = Issued
    BY <2>2 DEF LinkSeen, Issued, LiveLinks, Unrevoked
  <2>4. LinkKnown'
    BY <1>5, <2>2, <2>3, KnownKept DEF AcceptCommit, Idle
  <2>5. CASE ~Accepts(u)
    <3>1. UNCHANGED <<invites, recipients, deleted>>
      BY <1>5, <2>2, <2>5 DEF AcceptCommit
    <3> QED
      BY <1>0, <2>4, <3>1, ListUnmoved
  <2>6. CASE Accepts(u)
    <3>1. recipients[u] = Pending /\ recipients' = [recipients EXCEPT ![u] = at]
      BY <1>5, <2>6 DEF AcceptCommit, Accepts
    <3>2. at # Absent /\ at # Pending /\ Absent # Pending
      BY <2>1, NumbersAssumption DEF Time, Absent, Pending
    <3>3. GuestsSeen[u] = "invited" /\ GuestsSeen' = [GuestsSeen EXCEPT ![u] = "watching"]
      BY <2>1, <3>1, <3>2 DEF GuestsSeen, TypeOK
    <3>4. List!Accept(u)
      BY <2>2, <2>3, <3>3 DEF List!Accept
    <3>5. NothingLeft'
      BY <2>1, <2>2, <2>3, <3>1, MarkKeepsWatchers DEF NothingLeft
    <3> QED
      BY <2>1, <2>4, <3>4, <3>5 DEF List!Next
  <2> QED
    BY <2>5, <2>6
<1> QED
  BY <1>1, <1>2, <1>3, <1>4, <1>5 DEF InviteeStep

LEMMA ListStep == ListInv /\ [Next]_vars => [List!Next]_(List!vars) /\ LinkKnown' /\ NothingLeft'
<1> SUFFICES ASSUME ListInv, [Next]_vars
             PROVE  [List!Next]_(List!vars) /\ LinkKnown' /\ NothingLeft'
  OBVIOUS
<1> USE DEF ListInv, Inv
<1>1. ASSUME UNCHANGED <<invites, recipients, deleted, run>>
      PROVE  [List!Next]_(List!vars) /\ LinkKnown' /\ NothingLeft'
  <2>1. Issued' = Issued /\ Watchers' = Watchers
    BY <1>1 DEF Issued, Watchers
  <2> QED
    BY <1>1, <2>1, ListUnmoved DEF LinkKnown, NothingLeft
<1>2. ASSUME NEW r \in Runs, Abort(r)
      PROVE  [List!Next]_(List!vars) /\ LinkKnown' /\ NothingLeft'
  <2>1. UNCHANGED <<invites, recipients, deleted>>
    BY <1>2 DEF Abort
  <2>2. Issued' = Issued /\ Watchers' = Watchers
    BY <2>1 DEF Issued, Watchers
  <2>3. LinkKnown'
    BY <1>2, <2>1, <2>2, KnownKept DEF Abort, Idle
  <2> QED
    BY <2>1, <2>2, <2>3, ListUnmoved DEF NothingLeft
<1>3. ASSUME NEW u \in Users, Remove(u)
      PROVE  [List!Next]_(List!vars) /\ LinkKnown' /\ NothingLeft'
  <2>1. UNCHANGED <<invites, deleted, run>> /\ recipients[u] # Absent
        /\ recipients' = [recipients EXCEPT ![u] = Absent]
    BY <1>3 DEF Remove
  <2>2. LinkSeen' = LinkSeen /\ Issued' = Issued
    BY <2>1 DEF LinkSeen, Issued, LiveLinks, Unrevoked
  <2>3. GuestsSeen[u] # "out" /\ GuestsSeen' = [GuestsSeen EXCEPT ![u] = "out"]
    BY <2>1 DEF GuestsSeen, TypeOK, Absent, Pending
  <2>4. List!Leave(u)
    BY <2>1, <2>2, <2>3 DEF List!Leave
  <2>5. Watchers' \subseteq Watchers
    BY <2>1 DEF Watchers, TypeOK
  <2> QED
    BY <2>1, <2>2, <2>4, <2>5 DEF List!Next, LinkKnown, NothingLeft
<1>4. CASE Delete
  <2>1. ~deleted /\ deleted' /\ UNCHANGED run
    BY <1>4 DEF Delete
  <2>2. \A r \in Runs : run[r].pc # "locked"
    BY <1>4 DEF Delete, ReminderLocked
  <2>3. Issued' = {} /\ Watchers' = {}
    BY <1>4 DEF Delete, Issued, Watchers, Unissued
  <2>4. GuestsSeen' = List!Nobody
    BY <1>4 DEF Delete, GuestsSeen, List!Nobody
  <2>5. LinkSeen' = "none"
    BY <2>3 DEF LinkSeen
  <2>6. List!Delete
    <3>1. deleted' = TRUE
      BY <1>4 DEF Delete
    <3> QED
      BY <2>1, <2>4, <2>5, <3>1 DEF List!Delete
  <2> QED
    BY <2>1, <2>2, <2>3, <2>6 DEF List!Next, LinkKnown, NothingLeft
<1> QED
  BY <1>1, <1>2, <1>3, <1>4, OwnerStepsList, InviteeStepsList DEF Next, vars, Tick

LEMMA ListInit == Init => List!Init /\ LinkKnown /\ NothingLeft
<1> SUFFICES ASSUME Init PROVE List!Init /\ LinkKnown /\ NothingLeft
  OBVIOUS
<1>1. Issued = {}
  BY DEF Init, Issued, Unissued
<1>2. GuestsSeen = List!Nobody
  BY DEF Init, GuestsSeen, List!Nobody
<1> QED
  BY <1>1, <1>2 DEF Init, List!Init, LinkSeen, LinkKnown, NothingLeft, Idle

\* Whatever the handlers of sharing do to each other, a reader of the tables
\* sees WatchList: one step at a time, never past the limit, never a guest when
\* no link was issued, nothing after the reminder is deleted.
THEOREM SharingKeepsTheList == Spec => KeepsTheList
<1>1. Init => List!Init /\ LinkKnown /\ NothingLeft
  BY ListInit
<1>2. Inv /\ LinkInv /\ LinkKnown /\ NothingLeft /\ [Next]_vars
        => [List!Next]_(List!vars) /\ LinkKnown' /\ NothingLeft'
  BY ListStep DEF ListInv, LinkInv
<1> QED
  BY <1>1, <1>2, InvAlways, LinkAlways, PTL DEF Spec, KeepsTheList, List!Spec
=============================================================================
