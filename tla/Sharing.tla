------------------------------- MODULE Sharing -------------------------------
(***************************************************************************)
(* The invitations of one reminder and its watchers: SharingService.       *)
(*                                                                         *)
(*   the owner     issues a link (taking the previous one back), revokes   *)
(*   an invitee    follows a link, accepts, declines, leaves               *)
(*                                                                         *)
(* Every press is a handler run of its own, with its own transaction, and  *)
(* several are under way at once.  An UPDATE sees the rows committed when  *)
(* it starts, waits for the row locks it meets and then looks again at     *)
(* those rows only: the start of a statement and its effect are different  *)
(* steps wherever another run can hold the row in between.                 *)
(***************************************************************************)
EXTENDS Integers, FiniteSets

CONSTANTS
    Users,      \* the people who may follow a link; the owner is not one
    Tokens,     \* the links the owner can issue (bound: each is issued once)
    Runs,       \* concurrent handler runs
    Limit,      \* REMINDER_WATCHERS_MAX
    Ttl,        \* INVITE_TTL_HOURS
    MaxTime     \* bound: the last instant of the model

NoToken == "no token"

Time == 0..MaxTime

ASSUME UsersAssumption == IsFiniteSet(Users)
ASSUME TokensAssumption == NoToken \notin Tokens
ASSUME NumbersAssumption == Limit \in Nat /\ Ttl \in Nat \ {0} /\ MaxTime \in Nat

VARIABLES
    now,
    invites,     \* reminder_invites by token
    recipients,  \* reminder_recipients: accepted_at by watcher
    deleted,     \* the reminder is gone, and everything below it
    run          \* memory of each handler run

vars == <<now, invites, recipients, deleted, run>>

Absent == -1     \* no recipient row
Pending == -2    \* a recipient row with accepted_at NULL

Unissued == [issued |-> FALSE]
Invite == [issued : {TRUE}, expires_at : Nat, revoked : BOOLEAN]

Idle == [pc |-> "idle"]

\* A run of the owner's: the live link its UPDATE sees, then the one it locked.
OwnerRun == [pc : {"revoking"}, op : {"issue", "revoke"}, seen : Tokens \cup {NoToken}]
            \cup
            [pc : {"revoked"}, op : {"issue", "revoke"}, seen : Tokens \cup {NoToken},
             held : Tokens \cup {NoToken}]

\* A run of an invitee's: a link found live; the reminder locked and the
\* watchers counted; the watcher's own row found.
InviteeRun == [pc : {"resolved"}, u : Users]
              \cup
              [pc : {"locked"}, u : Users, joins : BOOLEAN, watchers : 0..Limit]
              \cup
              [pc : {"participant"}, u : Users, at : Time]

TypeOK ==
    /\ now \in Time
    /\ invites \in [Tokens -> Invite \cup {Unissued}]
    /\ recipients \in [Users -> Time \cup {Absent, Pending}]
    /\ deleted \in BOOLEAN
    /\ run \in [Runs -> OwnerRun \cup InviteeRun \cup {Idle}]

Init ==
    /\ now = 0
    /\ invites = [t \in Tokens |-> Unissued]
    /\ recipients = [u \in Users |-> Absent]
    /\ deleted = FALSE
    /\ run = [r \in Runs |-> Idle]

Tick == /\ now < MaxTime
        /\ now' = now + 1
        /\ UNCHANGED <<invites, recipients, deleted, run>>

\* A handler raises or the bot dies: the transaction is rolled back.
Abort(r) ==
    /\ run[r] # Idle
    /\ run' = [run EXCEPT ![r] = Idle]
    /\ UNCHANGED <<now, invites, recipients, deleted>>

-----------------------------------------------------------------------------
(* issue_invite and revoke_invite *)

Unrevoked(t) == invites[t].issued /\ ~invites[t].revoked
LiveLinks == {t \in Tokens : Unrevoked(t)}

\* The row lock of an UPDATE, kept until its transaction ends.
LinkLocked(t) == \E r \in Runs : run[r].pc = "revoked" /\ run[r].held = t

\* _owned, and the UPDATE of revoke_live begins: it will look at no link but
\* the ones it sees now.
LinkStart(r, op) ==
    /\ run[r] = Idle
    /\ ~deleted
    /\ \E seen \in Tokens \cup {NoToken} :
        /\ IF LiveLinks = {} THEN seen = NoToken ELSE seen \in LiveLinks
        /\ run' = [run EXCEPT ![r] = [pc |-> "revoking", op |-> op, seen |-> seen]]
    /\ UNCHANGED <<now, invites, recipients, deleted>>

\* Mutant: a link another transaction has locked is passed over.
LinkHeldSkipping(t) ==
    IF t # NoToken /\ Unrevoked(t) /\ ~LinkLocked(t) THEN t ELSE NoToken

\* What is left to revoke of the link that was seen.
LinkHeld(t) == IF t # NoToken /\ Unrevoked(t) THEN t ELSE NoToken

\* The UPDATE gets its locks and looks again.
LinkRevoke(r) ==
    /\ run[r].pc = "revoking"
    /\ LinkLocked(run[r].seen) => LinkHeld(run[r].seen) = NoToken
    /\ run' = [run EXCEPT ![r] =
                 [pc |-> "revoked", op |-> run[r].op, seen |-> run[r].seen,
                  held |-> LinkHeld(run[r].seen)]]
    /\ UNCHANGED <<now, invites, recipients, deleted>>

\* The UPDATE of this run, as its commit shows it.
Revoking(r) == [t \in Tokens |->
                  IF t = run[r].held THEN [invites[t] EXCEPT !.revoked = TRUE]
                  ELSE invites[t]]

\* Mutant: no partial unique index.
NoClashUnindexed(r) == TRUE

\* uq_reminder_invites_live: no other link of the reminder is unrevoked.
NoClash(r) == LiveLinks \subseteq {run[r].held}

IssueCommit(r) ==
    /\ run[r].pc = "revoked" /\ run[r].op = "issue"
    /\ ~deleted /\ NoClash(r)
    /\ \E t \in Tokens :
        /\ invites[t] = Unissued
        /\ invites' = [Revoking(r) EXCEPT ![t] =
                         [issued |-> TRUE, expires_at |-> now + Ttl, revoked |-> FALSE]]
    /\ run' = [run EXCEPT ![r] = Idle]
    /\ UNCHANGED <<now, recipients, deleted>>

\* The reminder is gone, or somebody else's link is live already: the insert
\* fails, and the revocation with it.  Every failure to insert is an Abort.
RevokeCommit(r) ==
    /\ run[r].pc = "revoked" /\ run[r].op = "revoke"
    /\ invites' = Revoking(r)
    /\ run' = [run EXCEPT ![r] = Idle]
    /\ UNCHANGED <<now, recipients, deleted>>

-----------------------------------------------------------------------------
(* open_invite *)

\* invite_state
Live(t) == Unrevoked(t) /\ invites[t].expires_at > now

\* get_by_token and invite_state: a link that is worth nothing ends here.
Resolve(r, u) ==
    /\ run[r] = Idle
    /\ \E t \in Tokens : Live(t)
    /\ run' = [run EXCEPT ![r] = [pc |-> "resolved", u |-> u]]
    /\ UNCHANGED <<now, invites, recipients, deleted>>

ReminderLocked == \E r \in Runs : run[r].pc = "locked"

Watchers == {u \in Users : recipients[u] # Absent}

\* count_watchers: accepted or still deciding.
WatcherCount == Cardinality(Watchers)

\* Mutant: the limit counts everybody already there as room for one more.
MayJoinPastLimit(u) == recipients[u] # Absent \/ WatcherCount <= Limit

\* check_join
MayJoin(u) == recipients[u] # Absent \/ WatcherCount < Limit

\* Mutant: the reminder is read without a lock.
OpenWaitsUnlocked == FALSE

\* get_for_update waits for whoever holds the reminder.
OpenWaits == ReminderLocked

\* The reminder is locked, the user's row read and the watchers counted.
OpenLock(r) ==
    /\ run[r].pc = "resolved"
    /\ ~OpenWaits /\ ~deleted
    /\ LET u == run[r].u IN
        /\ MayJoin(u)
        /\ run' = [run EXCEPT ![r] = [pc |-> "locked", u |-> u,
                                      joins |-> recipients[u] = Absent,
                                      watchers |-> WatcherCount]]
    /\ UNCHANGED <<now, invites, recipients, deleted>>

\* The row is inserted, and the lock goes with the commit.
OpenCommit(r) ==
    /\ run[r].pc = "locked"
    /\ recipients' = IF run[r].joins
                     THEN [recipients EXCEPT ![run[r].u] = Pending]
                     ELSE recipients
    /\ run' = [run EXCEPT ![r] = Idle]
    /\ UNCHANGED <<now, invites, deleted>>

-----------------------------------------------------------------------------
(* accept, decline and leave *)

\* _participation, and the clock.
AcceptRead(r, u) ==
    /\ run[r] = Idle
    /\ recipients[u] # Absent
    /\ run' = [run EXCEPT ![r] = [pc |-> "participant", u |-> u, at |-> now]]
    /\ UNCHANGED <<now, invites, recipients, deleted>>

\* Mutant: any row of the watcher is marked.
AcceptsAnew(u) == recipients[u] # Absent

\* Only a row still pending is marked.
Accepts(u) == recipients[u] = Pending

AcceptCommit(r) ==
    /\ run[r].pc = "participant"
    /\ recipients' = IF Accepts(run[r].u)
                     THEN [recipients EXCEPT ![run[r].u] = run[r].at]
                     ELSE recipients
    /\ run' = [run EXCEPT ![r] = Idle]
    /\ UNCHANGED <<now, invites, deleted>>

\* decline and leave: remove_watcher.  (What leaving takes out of the queue is
\* in Planner and DeliveryQueue.)
Remove(u) ==
    /\ recipients[u] # Absent
    /\ recipients' = [recipients EXCEPT ![u] = Absent]
    /\ UNCHANGED <<now, invites, deleted, run>>

\* Mutant: the rows of the watchers outlive the reminder.
DeleteKeepingWatchers ==
    /\ ~deleted
    /\ ~ReminderLocked
    /\ \A t \in Tokens : ~LinkLocked(t)
    /\ deleted' = TRUE
    /\ invites' = [t \in Tokens |-> Unissued]
    /\ UNCHANGED <<now, recipients, run>>

\* RemindersService.delete: waits for every row lock below the reminder.
Delete ==
    /\ ~deleted
    /\ ~ReminderLocked
    /\ \A t \in Tokens : ~LinkLocked(t)
    /\ deleted' = TRUE
    /\ invites' = [t \in Tokens |-> Unissued]
    /\ recipients' = [u \in Users |-> Absent]
    /\ UNCHANGED <<now, run>>

-----------------------------------------------------------------------------
OwnerStep(r) ==
    \/ \E op \in {"issue", "revoke"} : LinkStart(r, op)
    \/ LinkRevoke(r) \/ IssueCommit(r) \/ RevokeCommit(r)

InviteeStep(r) ==
    \/ \E u \in Users : Resolve(r, u) \/ AcceptRead(r, u)
    \/ OpenLock(r) \/ OpenCommit(r) \/ AcceptCommit(r)

Next ==
    \/ Tick
    \/ \E r \in Runs : OwnerStep(r) \/ InviteeStep(r) \/ Abort(r)
    \/ \E u \in Users : Remove(u)
    \/ Delete

Spec == Init /\ [][Next]_vars

-----------------------------------------------------------------------------
(* What sharing promises. *)

\* However many people follow links at once, the reminder never has more
\* watchers than the limit, undecided ones included (SharingService.open_invite:
\* "counting the watchers and adding one is a single decision").
WithinLimit == Cardinality(Watchers) <= Limit

\* Two presses of "invite" and a "revoke" between them leave at most one link
\* that lets anybody in (tech.md 22.1: with two live links, taking one back
\* takes nothing back).
OneLiveLink == \A t1, t2 \in LiveLinks : t1 = t2

\* When a "revoke" ends, every link that was out when it was pressed is dead,
\* also when an "invite" in flight at the same moment was about to take the
\* link back itself and failed (SharingService.revoke_invite).
RevokeTakesBack ==
    [][\A r \in Runs :
         (RevokeCommit(r) /\ run[r].seen # NoToken) => run[r].seen \notin LiveLinks']_vars

\* The moment of acceptance is the first press's, whatever other presses are
\* in flight (RecipientsRepository.accept: "a second press changes nothing").
AcceptanceStands ==
    [][\A u \in Users :
         recipients[u] \in Time => recipients'[u] \in {recipients[u], Absent}]_vars

-----------------------------------------------------------------------------
(* Sharing implements WatchList: what a reader of the two tables sees.      *)

Issued == {t \in Tokens : invites[t].issued}

GuestsSeen == [u \in Users |-> IF recipients[u] = Absent THEN "out"
                               ELSE IF recipients[u] = Pending THEN "invited" ELSE "watching"]
LinkSeen == IF Issued = {} THEN "none" ELSE IF LiveLinks = {} THEN "dead" ELSE "live"

List == INSTANCE WatchList WITH guests <- GuestsSeen, link <- LinkSeen, gone <- deleted

\* Behind all its reads, waits and aborts, a handler that commits does one step
\* of WatchList: a link out, a link dead, one guest more while there is room, an
\* acceptance, a departure, or the end of it all; and never two of them.
KeepsTheList == List!Spec
=============================================================================
