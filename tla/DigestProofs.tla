---------------------------- MODULE DigestProofs ----------------------------
(***************************************************************************)
(* Proofs about Digest, for any number of users, any calendar of weekly    *)
(* moments and any batch.  The two properties rest on one fact: the marks  *)
(* of the users still ahead in the batch are the marks they were read      *)
(* with.  It needs that a batch holds nobody twice.                        *)
(***************************************************************************)
EXTENDS Digest, FiniteSetTheorems, WellFoundedInduction, TLAPS

\* A batch holds nobody twice.
NobodyTwice ==
  \A i, j \in 1 .. Len(cycle.rest) : i # j => cycle.rest[i].id # cycle.rest[j].id

\* Nobody but the cycle writes the mark, and it writes only the one in hand.
MarksAsRead ==
  \A i \in 1 .. Len(cycle.rest) : cycle.rest[i].row.sent_at = user[cycle.rest[i].id].sent_at

\* A digest is sent, and marked, only for a moment that is owed.
MomentOwed == cycle.pc \in {"sending", "marking"} => Moment # Never

IInv == TypeOK /\ NobodyTwice /\ MarksAsRead /\ MomentOwed
-----------------------------------------------------------------------------
(* The most recent weekly moment is a moment, and not after now: a set of    *)
(* numbers below t has a largest one.                                        *)

LEMMA LargestBelow ==
    ASSUME NEW t \in Nat, NEW S \in SUBSET Nat, S # {}, \A m \in S : m <= t
    PROVE  \E m \in S : \A k \in S : k <= m
<1> DEFINE Gaps == {t - m : m \in S}
           Less == OpToRel(<, Nat)
<1>1. Gaps \subseteq Nat /\ Gaps # {}
  <2>1. \A m \in S : t - m \in Nat
    OBVIOUS
  <2> QED
    BY <2>1
<1>2. \E x \in Gaps : \A y \in Gaps : ~(<<y, x>> \in Less)
  <2> HIDE DEF Gaps, Less
  <2>1. IsWellFoundedOn(Less, Nat)
    BY NatLessThanWellFounded DEF Less
  <2> QED
    BY <1>1, <2>1, WFMin
<1>3. PICK x \in Gaps : \A y \in Gaps : ~(<<y, x>> \in Less)
  BY <1>2
<1>4. \A y \in Gaps : ~(y < x)
  BY <1>1, <1>3 DEF OpToRel
<1>5. PICK m \in S : x = t - m
  BY <1>3
<1>6. ASSUME NEW k \in S PROVE k <= m
  <2>1. t - k \in Gaps /\ k \in Nat /\ m \in Nat
    OBVIOUS
  <2>2. ~(t - k < t - m)
    BY <1>4, <1>5, <2>1
  <2> QED
    <3> HIDE DEF Gaps
    <3> QED
      BY <2>1, <2>2
<1> QED
  BY <1>6

LEMMA LastDigestMomentIsPast ==
    ASSUME NEW zone \in Zones, NEW t \in Nat, LastDigestMoment(zone, t) # Never
    PROVE  LastDigestMoment(zone, t) \in Nat
<1> DEFINE past == {m \in WeeklyMoments[zone] : m <= t}
<1>1. past \in SUBSET Nat /\ \A m \in past : m <= t
  BY DigestAssumption
<1>2. past # {}
  BY DEF LastDigestMoment
<1>3. \E m \in past : \A k \in past : k <= m
  <2> HIDE DEF past
  <2> QED
    BY <1>1, <1>2, LargestBelow
<1>4. LastDigestMoment(zone, t) = CHOOSE m \in past : \A k \in past : k <= m
  BY <1>2 DEF LastDigestMoment
<1>5. LastDigestMoment(zone, t) \in past
  BY <1>3, <1>4
<1> QED
  BY <1>1, <1>5

\* What is owed is a moment after the mark the row was read with.
LEMMA OwedIsNewer ==
    ASSUME NEW row \in UserRow, NEW u \in Users, NEW t \in Nat, Owed(row, u, t) # Never
    PROVE  Owed(row, u, t) \in Nat /\ row.sent_at < Owed(row, u, t)
<1> DEFINE m == LastDigestMoment(row.zone, t)
<1>1. m # Never /\ row.sent_at < m /\ Owed(row, u, t) = m
  BY DEF Owed
<1>2. m \in Nat
  BY <1>1, LastDigestMomentIsPast DEF UserRow
<1> QED
  BY <1>1, <1>2

-----------------------------------------------------------------------------
(* The invariant.                                                            *)

\* What Tail leaves of a batch of more than one.
LEMMA TailOf ==
    ASSUME NEW s \in Seq(Entry), s # <<>>, Len(s) # 1
    PROVE  /\ Tail(s) \in Seq(Entry) /\ Len(Tail(s)) = Len(s) - 1
           /\ Tail(s) # <<>>
           /\ \A i \in 1 .. Len(Tail(s)) : i + 1 \in 1 .. Len(s) /\ Tail(s)[i] = s[i + 1]
<1>1. Len(s) \in Nat /\ Len(s) > 1
  OBVIOUS
<1>2. Tail(s) \in Seq(Entry)
  OBVIOUS
<1>3. Len(Tail(s)) = Len(s) - 1
  BY <1>1
<1>4. Tail(s) # <<>>
  BY <1>1, <1>3
<1>5. \A i \in 1 .. Len(s) - 1 : i + 1 \in 1 .. Len(s) /\ Tail(s)[i] = s[i + 1]
  BY <1>1
<1> QED
  BY <1>2, <1>3, <1>4, <1>5

\* The batch loses its head, whose mark alone may have moved.
LEMMA ProceedKeeps ==
    ASSUME IInv, cycle.pc # "idle", Proceed, now' \in Nat,
           user' \in [Users -> UserRow],
           \A u \in Users : u # Subject => user'[u].sent_at = user[u].sent_at
    PROVE  IInv'
<1> DEFINE rest == cycle.rest
<1>1. rest \in Seq(Entry) /\ rest # <<>> /\ Len(rest) \in Nat
  BY DEF IInv, TypeOK
<1>2. CASE Len(rest) = 1
  <2>1. cycle' = NoCycle
    BY <1>2 DEF Proceed
  <2>2. cycle'.pc = "idle" /\ cycle'.at = Start /\ cycle'.rest = <<>>
    BY <2>1 DEF NoCycle
  <2>3. cycle' \in [pc : Pcs, at : Nat, rest : Seq(Entry)]
    BY <2>1, DigestAssumption DEF NoCycle, Pcs
  <2> QED
    BY <2>2, <2>3 DEF IInv, TypeOK, NobodyTwice, MarksAsRead, MomentOwed
<1>3. CASE Len(rest) # 1
  <2>1. cycle' = [cycle EXCEPT !.pc = "next", !.rest = Tail(cycle.rest)]
    BY <1>3 DEF Proceed
  <2>2. cycle'.pc = "next" /\ cycle'.rest = Tail(rest)
    BY <2>1 DEF IInv, TypeOK
  <2>3. /\ Tail(rest) \in Seq(Entry) /\ Len(Tail(rest)) = Len(rest) - 1
        /\ Tail(rest) # <<>>
        /\ \A i \in 1 .. Len(Tail(rest)) : i + 1 \in 1 .. Len(rest) /\ Tail(rest)[i] = rest[i + 1]
    <3> HIDE DEF rest
    <3> QED
      BY <1>1, <1>3, TailOf
  <2>4. cycle' \in [pc : Pcs, at : Nat, rest : Seq(Entry)]
    BY <2>1, <2>3 DEF IInv, TypeOK, Pcs
  <2>5. NobodyTwice'
    <3> SUFFICES ASSUME NEW i \in 1 .. Len(Tail(rest)), NEW j \in 1 .. Len(Tail(rest)), i # j
                 PROVE  Tail(rest)[i].id # Tail(rest)[j].id
      BY <2>2 DEF NobodyTwice
    <3>1. i + 1 # j + 1
      OBVIOUS
    <3> QED
      BY <3>1, <2>3 DEF IInv, NobodyTwice
  <2>6. MarksAsRead'
    <3> SUFFICES ASSUME NEW i \in 1 .. Len(Tail(rest))
                 PROVE  Tail(rest)[i].row.sent_at = user'[Tail(rest)[i].id].sent_at
      BY <2>2 DEF MarksAsRead
    <3>1. i + 1 \in 1 .. Len(rest) /\ Tail(rest)[i] = rest[i + 1] /\ rest[i + 1] \in Entry
      BY <1>1, <2>3
    <3>2. rest[1] = Head(rest) /\ 1 \in 1 .. Len(rest) /\ i + 1 # 1
      BY <1>1, <3>1
    <3>3. rest[i + 1].id # Subject
      BY <3>1, <3>2 DEF IInv, NobodyTwice, Subject
    <3>4. rest[i + 1].row.sent_at = user[rest[i + 1].id].sent_at
      BY <3>1 DEF IInv, MarksAsRead
    <3>5. rest[i + 1].id \in Users
      BY <3>1 DEF Entry
    <3> QED
      BY <3>1, <3>3, <3>4, <3>5
  <2> QED
    BY <2>2, <2>3, <2>4, <2>5, <2>6 DEF IInv, TypeOK, MomentOwed
<1> QED
  BY <1>2, <1>3

\* What users do leaves the marks alone.
LEMMA SettingsKeep ==
    ASSUME IInv, UNCHANGED cycle, now' \in Nat, user' \in [Users -> UserRow],
           \A u \in Users : user'[u].sent_at = user[u].sent_at
    PROVE  IInv'
<1>1. \A i \in 1 .. Len(cycle.rest) : cycle.rest[i].id \in Users
  <2>1. cycle.rest \in Seq(Entry)
    BY DEF IInv, TypeOK
  <2>2. \A i \in 1 .. Len(cycle.rest) : cycle.rest[i] \in Entry
    BY <2>1
  <2> QED
    BY <2>2 DEF Entry
<1>2. MomentOwed'
  BY DEF IInv, MomentOwed, Moment, Subject
<1> QED
  BY <1>1, <1>2 DEF IInv, TypeOK, NobodyTwice, MarksAsRead

\* The head of the batch, as it was read and as it is.
LEMMA InHand ==
    ASSUME IInv, cycle.pc # "idle", Moment # Never
    PROVE  /\ Subject \in Users /\ Moment \in Nat
           /\ user[Subject] \in UserRow /\ user[Subject].sent_at < Moment
<1>1. /\ cycle.rest[1] = Head(cycle.rest) /\ 1 \in 1 .. Len(cycle.rest)
      /\ Head(cycle.rest) \in Entry
  BY DEF IInv, TypeOK
<1>2. Subject \in Users /\ Head(cycle.rest).row \in UserRow
  BY <1>1 DEF Subject, Entry
<1>3. Head(cycle.rest).row.sent_at = user[Subject].sent_at
  BY <1>1 DEF IInv, MarksAsRead, Subject
<1>4. cycle.at \in Nat
  BY DEF IInv, TypeOK
<1>5. Moment \in Nat /\ Head(cycle.rest).row.sent_at < Moment
  BY <1>2, <1>4, OwedIsNewer DEF Moment
<1> QED
  BY <1>2, <1>3, <1>5 DEF IInv, TypeOK

\* Setting the mark of the one in hand keeps every row a row.
LEMMA MarkedRows ==
    ASSUME IInv, cycle.pc # "idle", Moment # Never, NEW stop \in BOOLEAN,
           user' = [user EXCEPT ![Subject].sent_at = Moment, ![Subject].blocked = @ \/ stop]
    PROVE  /\ user' \in [Users -> UserRow]
           /\ \A u \in Users : u # Subject => user'[u].sent_at = user[u].sent_at
           /\ user'[Subject].sent_at = Moment
<1>1. Subject \in Users /\ Moment \in Nat /\ user[Subject] \in UserRow
  BY InHand
<1>2. user \in [Users -> UserRow]
  BY DEF IInv, TypeOK
<1> QED
  BY <1>1, <1>2 DEF UserRow

LEMMA MarkedRow ==
    ASSUME IInv, cycle.pc # "idle", Moment # Never,
           user' = [user EXCEPT ![Subject].sent_at = Moment]
    PROVE  /\ user' \in [Users -> UserRow]
           /\ \A u \in Users : u # Subject => user'[u].sent_at = user[u].sent_at
           /\ user'[Subject].sent_at = Moment
<1>1. Subject \in Users /\ Moment \in Nat /\ user[Subject] \in UserRow
  BY InHand
<1>2. user \in [Users -> UserRow]
  BY DEF IInv, TypeOK
<1> QED
  BY <1>1, <1>2 DEF UserRow

\* What a user changes is never the mark.
LEMMA SettingsRows ==
    ASSUME user \in [Users -> UserRow], NEW u \in Users, SetTimezone(u) \/ SetDigest(u) \/ EnsureUser(u)
    PROVE  user' \in [Users -> UserRow] /\ \A v \in Users : user'[v].sent_at = user[v].sent_at
<1> user[u] \in UserRow
  OBVIOUS
<1>1. ASSUME NEW row \in UserRow, row.sent_at = user[u].sent_at, user' = [user EXCEPT ![u] = row]
      PROVE  user' \in [Users -> UserRow] /\ \A v \in Users : user'[v].sent_at = user[v].sent_at
  BY <1>1
<1>2. CASE SetTimezone(u)
  <2>1. PICK z \in Zones : user' = [user EXCEPT ![u] = [user[u] EXCEPT !.zone = z]]
    BY <1>2 DEF SetTimezone
  <2> QED
    BY <1>1, <2>1 DEF UserRow
<1>3. CASE SetDigest(u)
  <2>1. user' = [user EXCEPT ![u] = [user[u] EXCEPT !.enabled = ~user[u].enabled]]
    BY <1>3 DEF SetDigest
  <2>2. [user[u] EXCEPT !.enabled = ~user[u].enabled] \in UserRow
    BY Zenon DEF UserRow
  <2> QED
    BY <1>1, <2>1, <2>2 DEF UserRow
<1>4. CASE EnsureUser(u)
  <2>1. user' = [user EXCEPT ![u] = [user[u] EXCEPT !.blocked = FALSE]]
    BY <1>4 DEF EnsureUser
  <2> QED
    BY <1>1, <2>1 DEF UserRow
<1> QED
  BY <1>2, <1>3, <1>4

\* The cycle turns to its next step for the same user.
LEMMA PcKeeps ==
    ASSUME IInv, cycle.pc # "idle", Moment # Never, NEW pc \in Pcs \ {"idle"},
           cycle' = [cycle EXCEPT !.pc = pc], UNCHANGED <<now, user>>
    PROVE  IInv'
<1>1. cycle'.pc = pc /\ cycle'.at = cycle.at /\ cycle'.rest = cycle.rest
  BY DEF IInv, TypeOK
<1>2. cycle' \in [pc : Pcs, at : Nat, rest : Seq(Entry)]
  BY DEF IInv, TypeOK
<1>3. Moment' = Moment
  BY <1>1 DEF Moment, Subject
<1> QED
  BY <1>1, <1>2, <1>3 DEF IInv, TypeOK, NobodyTwice, MarksAsRead, MomentOwed, Never

LEMMA RowOf ==
    ASSUME NEW z \in Zones, NEW e \in BOOLEAN, NEW b \in BOOLEAN, NEW n \in Nat
    PROVE  [zone |-> z, enabled |-> e, blocked |-> b, sent_at |-> n] \in UserRow
<1> QED
  BY DEF UserRow

LEMMA InvInit == Init => IInv
<1> SUFFICES ASSUME Init PROVE IInv
  OBVIOUS
<1>1. cycle.pc = "idle" /\ cycle.rest = <<>>
  BY DEF Init, NoCycle
<1>2. cycle \in [pc : Pcs, at : Nat, rest : Seq(Entry)]
  BY DigestAssumption DEF Init, NoCycle, Pcs
<1>3. user \in [Users -> UserRow]
  <2>1. [zone : Zones, enabled : {TRUE}, blocked : {FALSE}, sent_at : {Never}] \subseteq UserRow
    <3> SUFFICES ASSUME NEW row \in [zone : Zones, enabled : {TRUE}, blocked : {FALSE}, sent_at : {Never}]
                 PROVE  row \in UserRow
      OBVIOUS
    <3>1. row.enabled = TRUE /\ row.blocked = FALSE /\ row.sent_at = 0
      BY DEF Never
    <3>2. row = [zone |-> row.zone, enabled |-> TRUE, blocked |-> FALSE, sent_at |-> 0]
          /\ row.zone \in Zones
      BY <3>1
    <3>3. [zone |-> row.zone, enabled |-> TRUE, blocked |-> FALSE, sent_at |-> 0] \in UserRow
      BY <3>2, RowOf
    <3> QED
      BY <3>2, <3>3, Zenon
  <2> QED
    BY <2>1 DEF Init
<1>4. now \in Nat
  BY DigestAssumption DEF Init
<1> QED
  BY <1>1, <1>2, <1>3, <1>4 DEF IInv, TypeOK, NobodyTwice, MarksAsRead, MomentOwed

\* A batch in order holds nobody twice: nobody comes before himself.
LEMMA BeginKeeps ==
    ASSUME IInv, Begin
    PROVE  IInv'
<1>1. PICK ids \in [1 .. Cardinality(Chosen) -> Chosen] :
        /\ IsInOrder(ids)
        /\ cycle' = [pc |-> "next", at |-> now,
                     rest |-> [n \in DOMAIN ids |-> [id |-> ids[n], row |-> user[ids[n]]]]]
  BY DEF Begin
<1>2. UNCHANGED <<now, user, faults>>
  BY DEF Begin
<1> DEFINE k == Cardinality(Chosen)
           rest == [n \in 1 .. k |-> [id |-> ids[n], row |-> user[ids[n]]]]
<1>3. Chosen \subseteq Users /\ Chosen # {} /\ IsFiniteSet(Chosen)
  <2>1. Chosen \subseteq Users /\ Chosen # {}
    BY DEF Begin, Chosen
  <2> QED
    BY <2>1, DigestAssumption, FS_Subset
<1>4. k \in Nat /\ k # 0
  BY <1>3, FS_CardinalityType, FS_EmptySet
<1>5. \A n \in 1 .. k : ids[n] \in Users /\ ids[n] \in Nat
  BY <1>3, DigestAssumption
<1>6. rest \in Seq(Entry) /\ Len(rest) = k /\ rest # <<>>
  <2>1. \A n \in 1 .. k : [id |-> ids[n], row |-> user[ids[n]]] \in Entry
    BY <1>5 DEF IInv, TypeOK, Entry
  <2>2. rest \in [1 .. k -> Entry]
    BY <2>1
  <2>3. rest \in Seq(Entry) /\ Len(rest) = k
    <3> HIDE DEF k, rest
    <3> QED
      BY <1>4, <2>2
  <2> QED
    BY <1>4, <2>3
<1>7. cycle' = [pc |-> "next", at |-> now, rest |-> rest]
  BY <1>1
<1>8. cycle'.pc = "next" /\ cycle'.rest = rest
  BY <1>7
<1> HIDE DEF k, rest
<1>14. \A n \in 1 .. k : rest[n].id = ids[n] /\ rest[n].row = user[ids[n]]
  BY DEF rest
<1>9. TypeOK'
  <2>1. cycle' \in [pc : Pcs, at : Nat, rest : Seq(Entry)]
    BY <1>6, <1>7 DEF IInv, TypeOK, Pcs
  <2> QED
    BY <1>2, <1>6, <1>8, <2>1 DEF IInv, TypeOK
<1>10. NobodyTwice'
  <2> SUFFICES ASSUME NEW i \in 1 .. k, NEW j \in 1 .. k, i # j
               PROVE  ids[i] # ids[j]
    BY <1>6, <1>8, <1>14 DEF NobodyTwice
  <2>1. \A n \in 1 .. k : ~Before(ids[n], ids[n])
    <3> SUFFICES ASSUME NEW n \in 1 .. k PROVE ~Before(ids[n], ids[n])
      OBVIOUS
    <3>1. user[ids[n]].sent_at \in Nat /\ ids[n] \in Nat
      BY <1>5 DEF IInv, TypeOK, UserRow
    <3> QED
      BY <3>1 DEF Before
  <2>2. i < j \/ j < i
    BY <1>4
  <2>3. Before(ids[i], ids[j]) \/ Before(ids[j], ids[i])
    BY <1>1, <2>2 DEF IsInOrder, k
  <2> QED
    BY <2>1, <2>3
<1>11. MarksAsRead'
  BY <1>2, <1>6, <1>8, <1>14 DEF MarksAsRead
<1> QED
  BY <1>8, <1>9, <1>10, <1>11 DEF IInv, MomentOwed

LEMMA InvStep == IInv /\ [Next]_vars => IInv'
<1> SUFFICES ASSUME IInv, [Next]_vars PROVE IInv'
  OBVIOUS
<1>1. now \in Nat /\ user \in [Users -> UserRow] /\ cycle \in [pc : Pcs, at : Nat, rest : Seq(Entry)]
  BY DEF IInv, TypeOK
<1>2. CASE Begin
  BY <1>2, BeginKeeps
<1>3. CASE Defer
  BY <1>1, <1>3, ProceedKeeps DEF Defer
<1>4. CASE SkipEmpty
  <2>1. user[Subject].blocked \in BOOLEAN /\ Subject \in Users
    BY <1>4, InHand DEF SkipEmpty, UserRow
  <2>2. user' = [user EXCEPT ![Subject].sent_at = Moment]
    BY <1>4 DEF SkipEmpty
  <2>3. /\ user' \in [Users -> UserRow]
        /\ \A u \in Users : u # Subject => user'[u].sent_at = user[u].sent_at
    BY <1>4, <2>2, MarkedRow DEF SkipEmpty
  <2> QED
    BY <1>1, <1>4, <2>3, ProceedKeeps DEF SkipEmpty
<1>5. CASE Send
  <2>1. Moment # Never
    BY <1>5 DEF Send
  <2> QED
    BY <1>1, <1>5, <2>1, PcKeeps DEF Send, Pcs
<1>6. CASE Answered
  BY <1>1, <1>6, PcKeeps DEF Answered, Pcs, IInv, MomentOwed
<1>7. CASE Refused
  <2>1. Moment # Never
    BY <1>7 DEF Refused, IInv, MomentOwed
  <2>2. PICK forbids \in BOOLEAN :
          user' = [user EXCEPT ![Subject].sent_at = Moment, ![Subject].blocked = @ \/ forbids]
    BY <1>7 DEF Refused
  <2>3. /\ user' \in [Users -> UserRow]
        /\ \A u \in Users : u # Subject => user'[u].sent_at = user[u].sent_at
    BY <1>7, <2>1, <2>2, MarkedRows DEF Refused
  <2> QED
    BY <1>1, <1>7, <2>3, ProceedKeeps DEF Refused
<1>8. CASE Unanswered
  BY <1>1, <1>8, ProceedKeeps DEF Unanswered
<1>9. CASE Mark
  <2>1. Moment # Never
    BY <1>9 DEF Mark, IInv, MomentOwed
  <2>2. /\ user' \in [Users -> UserRow]
        /\ \A u \in Users : u # Subject => user'[u].sent_at = user[u].sent_at
    BY <1>9, <2>1, MarkedRow DEF Mark
  <2> QED
    BY <1>1, <1>9, <2>2, ProceedKeeps DEF Mark
<1>10. CASE Crash
  <2>1. cycle'.pc = "idle" /\ cycle'.at = Start /\ cycle'.rest = <<>>
    BY <1>10 DEF Crash, NoCycle
  <2>2. cycle' \in [pc : Pcs, at : Nat, rest : Seq(Entry)]
    BY <1>10, DigestAssumption DEF Crash, NoCycle, Pcs
  <2> QED
    BY <1>1, <1>10, <2>1, <2>2 DEF Crash, IInv, TypeOK, NobodyTwice, MarksAsRead, MomentOwed
<1>11. CASE Tick
  BY <1>1, <1>11, SettingsKeep DEF Tick
<1>12. CASE \E u \in Users : SetTimezone(u) \/ SetDigest(u) \/ EnsureUser(u)
  <2>1. PICK u \in Users : SetTimezone(u) \/ SetDigest(u) \/ EnsureUser(u)
    BY <1>12
  <2>2. UNCHANGED <<now, cycle>>
    BY <2>1 DEF SetTimezone, SetDigest, EnsureUser
  <2>3. user' \in [Users -> UserRow] /\ \A v \in Users : user'[v].sent_at = user[v].sent_at
    BY <1>1, <2>1, SettingsRows
  <2> QED
    BY <1>1, <2>2, <2>3, SettingsKeep
<1>13. CASE UNCHANGED vars
  BY <1>1, <1>13, SettingsKeep DEF vars
<1> QED
  BY <1>2, <1>3, <1>4, <1>5, <1>6, <1>7, <1>8, <1>9, <1>10, <1>11, <1>12, <1>13 DEF Next, Cycle

-----------------------------------------------------------------------------
(* The theorems.                                                             *)

LEMMA InvAlways == Spec => []IInv
<1> QED
  BY InvInit, InvStep, PTL DEF Spec

\* Every row keeps its shape, and a cycle in progress has somebody in hand.
THEOREM DigestTypeOK == Spec => []TypeOK
<1>1. IInv => TypeOK
  BY DEF IInv
<1> QED
  BY <1>1, InvAlways, PTL

\* The digest on its way is for a week later than the mark of its user, for any
\* number of users, any calendar and any batch.
THEOREM DigestNoSecondCopy == Spec => []NoSecondCopy
<1>1. IInv => NoSecondCopy
  BY InHand DEF NoSecondCopy, IInv, MomentOwed
<1> QED
  BY <1>1, InvAlways, PTL

\* No step of a cycle or of a user moves a mark back.
THEOREM DigestMarksOnlyAdvance == Spec => MarksOnlyAdvance
<1>1. ASSUME IInv, [Next]_vars
      PROVE  [\A u \in Users : user'[u].sent_at >= user[u].sent_at]_vars
  <2> SUFFICES ASSUME Next, NEW u \in Users PROVE user'[u].sent_at >= user[u].sent_at
    BY <1>1
  <2>1. user \in [Users -> UserRow] /\ user[u].sent_at \in Nat
    BY <1>1 DEF IInv, TypeOK, UserRow
  <2>2. ASSUME user' = [user EXCEPT ![Subject].sent_at = Moment], cycle.pc # "idle", Moment # Never
        PROVE  user'[u].sent_at >= user[u].sent_at
    BY <1>1, <2>1, <2>2, InHand, MarkedRow
  <2>3. CASE UNCHANGED user
    BY <2>1, <2>3
  <2>4. CASE SkipEmpty
    BY <2>2, <2>4 DEF SkipEmpty
  <2>5. CASE Mark
    BY <1>1, <2>2, <2>5 DEF Mark, IInv, MomentOwed
  <2>6. CASE Refused
    <3>1. cycle.pc # "idle" /\ Moment # Never
      BY <1>1, <2>6 DEF Refused, IInv, MomentOwed
    <3>2. PICK forbids \in BOOLEAN :
            user' = [user EXCEPT ![Subject].sent_at = Moment, ![Subject].blocked = @ \/ forbids]
      BY <2>6 DEF Refused
    <3>3. Subject \in Users /\ Moment \in Nat /\ user[Subject].sent_at < Moment
      BY <1>1, <3>1, InHand
    <3>4. /\ \A v \in Users : v # Subject => user'[v].sent_at = user[v].sent_at
          /\ user'[Subject].sent_at = Moment
      BY <1>1, <3>1, <3>2, MarkedRows
    <3> QED
      BY <2>1, <3>3, <3>4
  <2>7. CASE \E v \in Users : SetTimezone(v) \/ SetDigest(v) \/ EnsureUser(v)
    BY <2>1, <2>7, SettingsRows
  <2> QED
    BY <2>3, <2>4, <2>5, <2>6, <2>7
    DEF Next, Cycle, Begin, Defer, Send, Answered, Unanswered, Crash, Tick
<1> QED
  BY <1>1, InvAlways, PTL DEF Spec, MarksOnlyAdvance

=============================================================================
