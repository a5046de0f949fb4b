---------------------------- MODULE DialogsProofs ----------------------------
(***************************************************************************)
(* Proofs about Dialogs for a chat whose handlers run one at a time: every *)
(* set of categories, titles and reminders, every path through the wizard, *)
(* the forms and the edit screens, with kills and purges anywhere.         *)
(*                                                                         *)
(* The invariant has two halves.  What is left of a script is linked: each *)
(* write of a category or a reminder comes right behind the check it needs,*)
(* so what the check found still holds at the write.  And, as long as no   *)
(* handler was cut short, what is left of a script keeps a promise:        *)
(* wherever it may stop or ends, the question on the screen can be         *)
(* answered.  The promise speaks of every sequence of contexts the steps   *)
(* may lead through; from there on only its first step, its rest and its   *)
(* composition from the two are used.                                      *)
(***************************************************************************)
EXTENDS Dialogs, SequenceTheorems, TLAPS

OneHandler == \E r \in Runs : Runs = {r}

---------------------------------------------------------------------------
(* Scripts as sequences of steps.                                          *)

\* A script whose first step and rest are known.
LEMMA Joined ==
  ASSUME NEW S, NEW a \in S, NEW s \in Seq(S)
  PROVE  /\ <<a>> \o s \in Seq(S) /\ <<a>> \o s # <<>>
         /\ Head(<<a>> \o s) = a /\ Tail(<<a>> \o s) = s
OBVIOUS

\* Two steps given at once are one and then the other.
LEMMA Pair ==
  ASSUME NEW S, NEW a \in S, NEW b \in S, NEW s \in Seq(S)
  PROVE  <<a, b>> \o s = <<a>> \o (<<b>> \o s)
<1> DEFINE t == <<a, b>> \o s
           u == <<a>> \o (<<b>> \o s)
<1>1. /\ <<a>> \in Seq(S) /\ <<b>> \in Seq(S) /\ <<a, b>> \in Seq(S)
      /\ Len(<<a, b>>) = 2
  OBVIOUS
<1>2. t \in Seq(S) /\ u \in Seq(S) /\ Len(t) = Len(s) + 2 /\ Len(u) = Len(s) + 2
  BY <1>1
<1>3. ASSUME NEW i \in 1 .. Len(t) PROVE t[i] = u[i]
  <2>1. CASE i = 1
    BY <1>1, <2>1
  <2>2. CASE i = 2
    BY <1>1, <2>2
  <2>3. CASE i > 2
    BY <1>1, <1>2, <2>3
  <2> QED BY <2>1, <2>2, <2>3
<1> HIDE DEF t, u
<1>4. t = u
  BY <1>2, <1>3, SeqEqual
<1> QED BY <1>4 DEF t, u

LEMMA LastPair ==
  ASSUME NEW a, NEW b
  PROVE  <<a, b>> = <<a>> \o <<b>>
<1> DEFINE S == {a, b}
<1>1. <<b>> \in Seq(S) /\ <<a, b>> \in Seq(S) /\ <<>> \in Seq(S) /\ a \in S /\ b \in S
  OBVIOUS
<1> HIDE DEF S
<1>2. <<a, b>> \o <<>> = <<a>> \o (<<b>> \o <<>>)
  BY <1>1, Pair
<1>3. <<a, b>> \o <<>> = <<a, b>> /\ <<b>> \o <<>> = <<b>>
  BY <1>1, ConcatEmptySeq
<1> QED BY <1>2, <1>3

---------------------------------------------------------------------------
(* What a script promises.                                                 *)

\* What the rest of a handler sees of the chat: the dialogue's state and
\* data, what the handler read, and the two histories.
Here(r) == [state |-> fsm.state, data |-> fsm.data, seen |-> run[r].seen,
            asked |-> asked, made |-> made]

\* Question s can be answered with data d, by an answer to what was opened: q
\* is what it asks about.
Answerable(s, d, q) ==
  /\ Expected(s, d) \subseteq DOMAIN d
  /\ s = "wizard:times" => Buildable(d)
  /\ s = "wizard:weekdays" => d.kind = "weekly"
  /\ s \in {"wizard:month_days", "wizard:on_missing"} => d.kind = "monthly"
  /\ s = "wizard:on_missing" => IsSet(d, "month_days")
  /\ s \in Edit => "reminder_id" \in DOMAIN d /\ q = Editing(d.reminder_id)
  /\ s \in Wizard => IF "edit_reminder_id" \in DOMAIN d THEN q = Editing(d.edit_reminder_id)
                     ELSE q = Opened
Good(c) == Answerable(c.state, c.data, c.asked) /\ c.made = 0

\* The steps a handler may stop at; "finish" stands for the ones it grows into.
Stopping == {"need", "nonempty", "build", "live", "editable", "opened", "unique",
             "renamable", "unused", "try", "finish"}

\* Step a, when it does not stop, may lead from context c to context d.
Leads(a, c, d) ==
  /\ d.state = IF a.op = "put" THEN a.to ELSE c.state
  /\ d.data = IF a.op = "replace" THEN a.with ELSE IF a.op = "store" THEN c.seen ELSE c.data
  /\ IF a.op = "toggle" THEN \E b \in BOOLEAN : d.seen = Over(Answer(a.key, b), c.data)
     ELSE d.seen = IF a.op = "read" THEN c.data
                   ELSE IF a.op = "merge" THEN Over(a.with, c.data) ELSE c.seen
  /\ d.asked = IF a.op \in {"put", "replace"} /\ a.asks # Same THEN a.asks ELSE c.asked
  /\ IF a.op = "finish" THEN d.made \in {c.made, c.made + 1}
     ELSE d.made = IF a.op = "create" THEN c.made + 1
                   ELSE IF \/ a.op = "put" /\ a.asks = Opened
                           \/ a.op = "replace" /\ a.with = Empty /\ c.state = None
                        THEN 0 ELSE c.made
  /\ a.op = "nonempty" => IsSet(c.seen, a.key)

\* What is due after k steps of T, where the script stops or ends.
Due(T, k, c) ==
  /\ c.made <= 1
  /\ k = Len(T) => Good(c)
  /\ k < Len(T) /\ T[k + 1].op \in Stopping => Good(c)

Promise(T, c) ==
  \A k \in 0 .. Len(T) : \A cs :
    /\ cs[1] = c
    /\ \A i \in 1 .. k : Leads(T[i], cs[i], cs[i + 1])
    => Due(T, k, cs[k + 1])

\* What a promise says of the context the script is in.
LEMMA PromiseNow ==
  ASSUME NEW S, NEW T \in Seq(S), NEW c, Promise(T, c)
  PROVE  Due(T, 0, c)
<1> DEFINE cs == [i \in {1} |-> c]
<1>1. cs[1] = c /\ 0 \in 0 .. Len(T) /\ 0 + 1 = 1 /\ 1 .. 0 = {}
  OBVIOUS
<1> HIDE DEF cs
<1>2. Due(T, 0, cs[0 + 1])
  BY <1>1 DEF Promise
<1> QED BY <1>1, <1>2

\* A promise holds for the rest of the script after its first step.
LEMMA PromiseNext ==
  ASSUME NEW S, NEW T \in Seq(S), T # <<>>, NEW c, NEW d,
         Promise(T, c), Leads(Head(T), c, d)
  PROVE  Promise(Tail(T), d)
<1> SUFFICES ASSUME NEW k \in 0 .. Len(Tail(T)), NEW cs, cs[1] = d,
                    \A i \in 1 .. k : Leads(Tail(T)[i], cs[i], cs[i + 1])
             PROVE  Due(Tail(T), k, cs[k + 1])
  BY DEF Promise
<1> DEFINE ds == [i \in 1 .. k + 2 |-> IF i = 1 THEN c ELSE cs[i - 1]]
<1>1. /\ Len(Tail(T)) = Len(T) - 1 /\ Len(T) \in Nat
      /\ T[1] = Head(T) /\ \A i \in 1 .. Len(T) - 1 : Tail(T)[i] = T[i + 1]
  OBVIOUS
<1>2. /\ ds[1] = c /\ ds[2] = d /\ k + 1 \in 0 .. Len(T)
      /\ \A i \in 1 .. k + 1 : ds[i + 1] = cs[i]
  BY <1>1
<1>3. ASSUME NEW i \in 1 .. k + 1 PROVE Leads(T[i], ds[i], ds[i + 1])
  <2>1. CASE i = 1
    BY <1>1, <1>2, <2>1
  <2>2. CASE i # 1
    <3>1. i - 1 \in 1 .. k /\ ds[i] = cs[i - 1] /\ ds[i + 1] = cs[i]
      BY <2>2
    <3>2. Leads(Tail(T)[i - 1], cs[i - 1], cs[(i - 1) + 1])
      BY <3>1
    <3>3. Tail(T)[i - 1] = T[i] /\ (i - 1) + 1 = i
      BY <1>1, <3>1
    <3> QED BY <3>1, <3>2, <3>3
  <2> QED BY <2>1, <2>2
<1> HIDE DEF ds
<1>4. Due(T, k + 1, ds[k + 2])
  BY <1>2, <1>3, (k + 1) + 1 = k + 2 DEF Promise
<1>5. ds[k + 2] = cs[k + 1]
  BY <1>2
<1>6. k < Len(Tail(T)) => Tail(T)[k + 1] = T[(k + 1) + 1]
  BY <1>1
<1>7. /\ k = Len(Tail(T)) => k + 1 = Len(T)
      /\ k < Len(Tail(T)) => k + 1 < Len(T)
  <2> DEFINE m == Len(Tail(T))
             n == Len(T)
  <2>1. m = n - 1 /\ n \in Nat /\ k \in 0 .. m
    BY <1>1
  <2> HIDE DEF m, n
  <2>2. (k = m => k + 1 = n) /\ (k < m => k + 1 < n)
    BY <2>1
  <2> QED BY <2>2 DEF m, n
<1>8. /\ ds[k + 2].made <= 1
      /\ k + 1 = Len(T) => Good(ds[k + 2])
      /\ k + 1 < Len(T) /\ T[(k + 1) + 1].op \in Stopping => Good(ds[k + 2])
  BY <1>4 DEF Due
<1>9. cs[k + 1].made <= 1
  BY <1>5, <1>8
<1>10. k = Len(Tail(T)) => Good(cs[k + 1])
  BY <1>5, <1>7, <1>8
<1>11. k < Len(Tail(T)) /\ Tail(T)[k + 1].op \in Stopping => Good(cs[k + 1])
  BY <1>5, <1>6, <1>7, <1>8
<1> QED BY <1>9, <1>10, <1>11 DEF Due

\* A promise is made of what is due now and of the promises of the rest.
LEMMA PromiseFrom ==
  ASSUME NEW S, NEW a \in S, NEW T \in Seq(S), NEW c, c.made <= 1,
         a.op \in Stopping => Good(c),
         \A d : Leads(a, c, d) => Promise(T, d)
  PROVE  Promise(<<a>> \o T, c)
<1> DEFINE U == <<a>> \o T
<1>1. /\ U \in Seq(S) /\ Len(U) = Len(T) + 1 /\ Len(T) \in Nat /\ U[1] = a
      /\ \A i \in 1 .. Len(T) : U[i + 1] = T[i]
  OBVIOUS
<1> HIDE DEF U
<1> SUFFICES ASSUME NEW k \in 0 .. Len(U), NEW cs, cs[1] = c,
                    \A i \in 1 .. k : Leads(U[i], cs[i], cs[i + 1])
             PROVE  Due(U, k, cs[k + 1])
  BY DEF Promise, U
<1>2. CASE k = 0
  BY <1>1, <1>2 DEF Due
<1>3. CASE k > 0
  <2> DEFINE n == k - 1
             ds == [i \in 1 .. k |-> cs[i + 1]]
  <2>1. Leads(a, c, cs[2])
    BY <1>1, <1>3
  <2>2. n \in 0 .. Len(T) /\ ds[1] = cs[2] /\ ds[n + 1] = cs[k + 1]
    BY <1>1, <1>3
  <2>3. ASSUME NEW i \in 1 .. n PROVE Leads(T[i], ds[i], ds[i + 1])
    <3>1. i + 1 \in 1 .. k /\ ds[i] = cs[i + 1] /\ ds[i + 1] = cs[(i + 1) + 1] /\ U[i + 1] = T[i]
      BY <1>1, SMTT(60)
    <3> QED BY <3>1
  <2> HIDE DEF ds
  <2>4. Due(T, n, ds[n + 1])
    BY <2>1, <2>2, <2>3 DEF Promise
  <2>5. n < Len(T) => U[k + 1] = T[n + 1]
    BY <1>1, <2>2, SMTT(60)
  <2> QED BY <1>1, <2>2, <2>4, <2>5 DEF Due
<1> QED BY <1>2, <1>3

\* The last step promises that what it leaves can be answered.
LEMMA PromiseDone ==
  ASSUME NEW c, c.made <= 1, Good(c)
  PROVE  Promise(<<>>, c)
<1>1. Len(<<>>) = 0
  OBVIOUS
<1> QED BY <1>1 DEF Promise, Due

LEMMA PromiseLast ==
  ASSUME NEW a, NEW c, c.made <= 1, a.op \in Stopping => Good(c),
         \A d : Leads(a, c, d) => d.made <= 1 /\ Good(d)
  PROVE  Promise(<<a>>, c)
<1> DEFINE S == {a}
<1>1. a \in S /\ <<>> \in Seq(S)
  OBVIOUS
<1>2. <<a>> \o <<>> = <<a>>
  BY <<a>> \in Seq(S), ConcatEmptySeq
<1>3. Promise(<<a>> \o <<>>, c)
  BY <1>1, PromiseFrom, PromiseDone
<1> QED BY <1>2, <1>3

---------------------------------------------------------------------------
(* What scripts are made of.                                               *)

AnyCategory == Categories \cup {Gone}
Asks == {Same, Nothing, Opened} \cup {Editing(i) : i \in Reminders}
Keys == {"category_id", "title", "schedule", "date", "every_minutes", "reminder_id", "quiet_start"}
Unread == {"title", "schedule", "date", "every_minutes", "quiet_start"}
Merged ==
  {Answer("category_id", c) : c \in Categories} \cup {Answer(k, Given) : k \in Unread}
  \cup {Answer("kind", kind) : kind \in Kinds} \cup {Answer(k, FALSE) : k \in Lists}
  \cup {Over(Answer("on_missing", Given), Answer("times", FALSE))}

Opening == [op |-> "put", to |-> "wizard:category", asks |-> Opened]
Emptying == [op |-> "replace", with |-> Empty, asks |-> Same]

\* Steps that can neither lose a title of the form nor write one.
Harmless ==
  {Opening, Emptying}
  \cup [op : {"put"}, to : States \ {"form:emoji"}, asks : Asks \ {Opened}]
  \cup [op : {"read", "build", "try", "opened"}]
  \cup [op : {"need"}, keys : SUBSET Keys]
  \cup [op : {"nonempty"}, key : Lists]
  \cup [op : {"editable", "delete"}, reminder : Reminders]
  \cup [op : {"live", "create", "move"}, category : AnyCategory]
  \cup [op : {"unused", "archive"}, category : Own]
  \cup [op : {"renamable", "rename"}, title : Titles]

\* Every step outside the form that makes a category.
Ordinary ==
  Harmless
  \cup [op : {"replace"}, with : {Answer("reminder_id", i) : i \in Reminders}, asks : {Same}]
  \cup {[op |-> "replace", with |-> EditData(i, c), asks |-> Editing(i)] :
          i \in Reminders, c \in AnyCategory}
  \cup [op : {"store", "finish"}]
  \cup [op : {"merge"}, with : Merged]
  \cup [op : {"toggle"}, key : Lists]

\* Which step may come right behind which: a write behind the check of the
\* very thing it writes, the wizard's first question behind the emptied data.
Follows(a, b) ==
  /\ b.op \in {"create", "move"} => a.op = "live" /\ a.category = b.category
  /\ b.op = "archive" => a.op = "unused" /\ a.category = b.category
  /\ b.op = "rename" => a.op = "renamable" /\ a.title = b.title
  /\ b = Opening <=> a = Emptying
  /\ a # Opening
Linked(T) == \A i \in 1 .. Len(T) - 1 : Follows(T[i], T[i + 1])

\* The two scripts of the form, as far as they are left.
Titled(d) == "title" \in DOMAIN d => d.title \in Titles
Merge(d) == <<[op |-> "merge", with |-> d]>>
Store == <<[op |-> "store"]>>
Steps ==
  Ordinary \cup [op : {"unique", "add"}]
  \cup {[op |-> "put", to |-> "form:emoji", asks |-> Nothing]}
  \cup {[op |-> "need", keys |-> {"title"}]}
  \cup {[op |-> "merge", with |-> Answer("title", t)] : t \in Titles}
AddCategory == <<[op |-> "add"]>> \o Clear
UniqueCategory == <<[op |-> "unique"]>> \o AddCategory
NeedTitle == Need({"title"}) \o UniqueCategory
StoreTitle == Store \o Put("form:emoji")

TakesTitle(T, data, seen) ==
  \/ \E t \in Titles : T = Merge(Answer("title", t)) \o StoreTitle
  \/ T = StoreTitle /\ Titled(seen)
  \/ T = Put("form:emoji") /\ Titled(data)

AddsCategory(T, data, seen) ==
  /\ Titled(data) /\ Titled(seen)
  /\ \/ T = Read \o NeedTitle
     \/ T = NeedTitle
     \/ "title" \in DOMAIN seen /\ T = UniqueCategory
     \/ "title" \in DOMAIN seen /\ T = AddCategory

\* A script outside the form; one that runs on the form's last screen is harmless.
Plain(T, state) ==
  /\ T \in Seq(Ordinary) /\ Linked(T)
  /\ state = "form:emoji" => T \in Seq(Harmless)

\* Values of the answers that later steps rely on.
DataOK(d) ==
  /\ \A k \in DOMAIN d \cap Lists : d[k] \in BOOLEAN
  /\ "category_id" \in DOMAIN d => d["category_id"] \in AnyCategory
  /\ "edit_reminder_id" \in DOMAIN d => d["edit_reminder_id"] \in Reminders
NoEdit(d) == "edit_reminder_id" \notin DOMAIN d

---------------------------------------------------------------------------
(* Facts about the pieces.                                                 *)

LEMMA OrdinarySteps ==
  ASSUME NEW a \in Ordinary
  PROVE  /\ a.op = "put" => /\ a.to \in States \ {"form:emoji"} /\ a.asks \in Asks
                            /\ a.asks = Opened => a = Opening
         /\ a.op = "replace" =>
              \/ a = Emptying
              \/ a.asks = Same /\ \E i \in Reminders : a.with = Answer("reminder_id", i)
              \/ \E i \in Reminders, c \in AnyCategory :
                   a.asks = Editing(i) /\ a.with = EditData(i, c)
         /\ a.op = "merge" => a.with \in Merged
         /\ a.op \in {"toggle", "nonempty"} => a.key \in Lists
         /\ a.op \in {"create", "move"} => a.category \in AnyCategory
         /\ a.op = "archive" => a.category \in Own
         /\ a.op = "rename" => a.title \in Titles
         /\ a.op \notin {"unique", "add"}
         /\ a \in Harmless => /\ a.op \notin {"store", "merge", "toggle", "finish"}
                              /\ a.op = "replace" => a = Emptying
<1>1. CASE a \in Harmless
  BY <1>1 DEF Harmless, Opening, Emptying, Asks, States, Wizard, None
<1>2. CASE a \notin Harmless
  BY <1>2 DEF Ordinary
<1> QED BY <1>1, <1>2

LEMMA EditDataFacts ==
  ASSUME NEW i, NEW c
  PROVE  /\ DOMAIN EditData(i, c) = {"edit_reminder_id", "title", "category_id"}
         /\ EditData(i, c)["edit_reminder_id"] = i
         /\ EditData(i, c)["category_id"] = c
BY DEF EditData, Over, Answer

LEMMA MissingDayFacts ==
  LET w == Over(Answer("on_missing", Given), Answer("times", FALSE))
  IN DOMAIN w = {"on_missing", "times"} /\ w["times"] = FALSE
BY DEF Over, Answer

\* No merged answer marks an edit, and all of them have the values relied on.
LEMMA MergedFacts ==
  ASSUME NEW w \in Merged
  PROVE  DataOK(w) /\ NoEdit(w)
<1>1. CASE \E c \in Categories : w = Answer("category_id", c)
  BY <1>1 DEF Answer, DataOK, NoEdit, AnyCategory, Lists
<1>2. CASE \E k \in Unread : w = Answer(k, Given)
  BY <1>2 DEF Answer, DataOK, NoEdit, Unread, Lists
<1>3. CASE \E kind \in Kinds : w = Answer("kind", kind)
  BY <1>3 DEF Answer, DataOK, NoEdit, Lists
<1>4. CASE \E k \in Lists : w = Answer(k, FALSE)
  BY <1>4 DEF Answer, DataOK, NoEdit, Lists
<1>5. CASE w = Over(Answer("on_missing", Given), Answer("times", FALSE))
  BY <1>5, MissingDayFacts DEF DataOK, NoEdit, Lists
<1> QED BY <1>1, <1>2, <1>3, <1>4, <1>5 DEF Merged

LEMMA OverlayOK ==
  ASSUME NEW w, NEW d, DataOK(w), DataOK(d)
  PROVE  /\ DataOK(Over(w, d))
         /\ NoEdit(w) /\ NoEdit(d) => NoEdit(Over(w, d))
BY DEF Over, DataOK, NoEdit

LEMMA EmptyOK == DataOK(Empty) /\ NoEdit(Empty) /\ Titled(Empty)
BY DEF DataOK, NoEdit, Titled, Empty

LEMMA ReplacedOK ==
  ASSUME NEW a \in Ordinary, a.op = "replace"
  PROVE  /\ DataOK(a.with)
         /\ a.asks = Same => NoEdit(a.with)
         /\ a.asks \notin {Opened, Nothing}
         /\ a.with = Empty => a = Emptying
<1>1. CASE a = Emptying
  BY <1>1, EmptyOK DEF Emptying, Same, Opened, Nothing
<1>2. CASE a.asks = Same /\ \E i \in Reminders : a.with = Answer("reminder_id", i)
  BY <1>2 DEF Answer, DataOK, NoEdit, Lists, Same, Opened, Nothing, Empty
<1>3. CASE \E i \in Reminders, c \in AnyCategory :
             a.asks = Editing(i) /\ a.with = EditData(i, c)
  BY <1>3, EditDataFacts DEF DataOK, Lists, Editing, Same, Opened, Nothing, Empty
<1> QED BY <1>1, <1>2, <1>3, OrdinarySteps

---------------------------------------------------------------------------
(* Linked scripts.                                                         *)

LEMMA LinkedShort == Linked(<<>>) /\ \A a : Linked(<<a>>)
BY DEF Linked

LEMMA LinkedFrom ==
  ASSUME NEW S, NEW a \in S, NEW T \in Seq(S), Linked(T), T # <<>> => Follows(a, Head(T))
  PROVE  Linked(<<a>> \o T)
<1> DEFINE U == <<a>> \o T
<1>1. /\ Len(U) = Len(T) + 1 /\ Len(T) \in Nat /\ U[1] = a
      /\ \A i \in 1 .. Len(T) : U[i + 1] = T[i]
      /\ T # <<>> => Head(T) = T[1]
      /\ Len(T) > 0 => T # <<>>
  OBVIOUS
<1> HIDE DEF U
<1>2. ASSUME NEW i \in 1 .. Len(U) - 1 PROVE Follows(U[i], U[i + 1])
  <2>1. CASE i = 1
    <3>1. Len(T) > 0 /\ U[2] = T[1]
      BY <1>1, <2>1
    <3> QED BY <1>1, <2>1, <3>1
  <2>2. CASE i # 1
    <3>1. i - 1 \in 1 .. Len(T) - 1 /\ U[i] = T[i - 1] /\ U[i + 1] = T[i]
      BY <1>1, <2>2
    <3>2. Follows(T[i - 1], T[(i - 1) + 1])
      BY <3>1 DEF Linked
    <3> QED BY <3>1, <3>2
  <2> QED BY <2>1, <2>2
<1> QED BY <1>2 DEF Linked, U

LEMMA LinkedRest ==
  ASSUME NEW S, NEW T \in Seq(S), T # <<>>, Linked(T)
  PROVE  Linked(Tail(T)) /\ (Tail(T) # <<>> => Follows(Head(T), Head(Tail(T))))
<1> DEFINE U == Tail(T)
<1>1. /\ U \in Seq(S) /\ Len(U) = Len(T) - 1 /\ Len(U) \in Nat /\ T[1] = Head(T)
      /\ \A i \in 1 .. Len(U) : U[i] = T[i + 1]
      /\ U # <<>> => Len(U) > 0 /\ Head(U) = U[1]
  OBVIOUS
<1> HIDE DEF U
<1>2. ASSUME NEW i \in 1 .. Len(U) - 1 PROVE Follows(U[i], U[i + 1])
  <2>1. U[i] = T[i + 1] /\ U[i + 1] = T[(i + 1) + 1] /\ i + 1 \in 1 .. Len(T) - 1
    BY <1>1
  <2> QED BY <2>1 DEF Linked
<1>3. U # <<>> => Follows(T[1], T[1 + 1])
  BY <1>1 DEF Linked
<1>4. U # <<>> => T[1 + 1] = Head(U)
  BY <1>1
<1> QED BY <1>1, <1>2, <1>3, <1>4 DEF Linked, U

LEMMA ClearFacts ==
  /\ Clear \in Seq(Harmless) /\ Clear # <<>> /\ Linked(Clear)
  /\ Head(Clear) = [op |-> "put", to |-> None, asks |-> Nothing]
  /\ Tail(Clear) = <<Emptying>> /\ Clear = Put(None) \o <<Emptying>>
<1> DEFINE a == [op |-> "put", to |-> None, asks |-> Nothing]
<1>1. Put(None) = <<a>> /\ Clear = <<a>> \o <<Emptying>>
  BY DEF Clear, Put, PutAsking, ReplaceAsking, Emptying, None, Wizard, Edit
<1>2. a \in Harmless /\ Emptying \in Harmless
  BY DEF Harmless, States, None, Asks, Nothing, Opened
<1>3. a # Emptying /\ a # Opening /\ Emptying # Opening
  BY DEF Emptying, Opening, None
<1>4. Follows(a, Emptying)
  BY <1>3 DEF Follows, Emptying
<1> HIDE DEF a
<1>5. <<Emptying>> \in Seq(Harmless) /\ Head(<<Emptying>>) = Emptying
  BY <1>2
<1>6. Linked(<<a>> \o <<Emptying>>)
  BY <1>2, <1>4, <1>5, LinkedFrom, LinkedShort
<1>7. /\ <<a>> \o <<Emptying>> \in Seq(Harmless) /\ <<a>> \o <<Emptying>> # <<>>
      /\ Head(<<a>> \o <<Emptying>>) = a /\ Tail(<<a>> \o <<Emptying>>) = <<Emptying>>
  BY <1>2, <1>5, Joined
<1> QED BY <1>1, <1>6, <1>7 DEF a

\* The scripts of the form, first step and rest.
LEMMA FormFacts ==
  /\ \A t \in Titles : LET T == Merge(Answer("title", t)) \o StoreTitle IN
       T # <<>> /\ Head(T) = [op |-> "merge", with |-> Answer("title", t)] /\ Tail(T) = StoreTitle
       /\ T \in Seq(Steps)
  /\ {StoreTitle, Put("form:emoji"), Read \o NeedTitle, NeedTitle, UniqueCategory, AddCategory}
       \subseteq Seq(Steps)
  /\ StoreTitle # <<>> /\ Head(StoreTitle).op = "store" /\ Tail(StoreTitle) = Put("form:emoji")
  /\ Put("form:emoji") # <<>> /\ Tail(Put("form:emoji")) = <<>>
  /\ Head(Put("form:emoji")) = [op |-> "put", to |-> "form:emoji", asks |-> Nothing]
  /\ Read \o NeedTitle # <<>> /\ Head(Read \o NeedTitle).op = "read"
  /\ Tail(Read \o NeedTitle) = NeedTitle
  /\ NeedTitle # <<>> /\ Head(NeedTitle) = [op |-> "need", keys |-> {"title"}]
  /\ Tail(NeedTitle) = UniqueCategory
  /\ UniqueCategory # <<>> /\ Head(UniqueCategory) = [op |-> "unique"]
  /\ Tail(UniqueCategory) = AddCategory
  /\ AddCategory # <<>> /\ Head(AddCategory).op = "add" /\ Tail(AddCategory) = Clear
<1> DEFINE p == [op |-> "put", to |-> "form:emoji", asks |-> Nothing]
           m(t) == [op |-> "merge", with |-> Answer("title", t)]
           n == [op |-> "need", keys |-> {"title"}]
           S == Steps
<1>1. /\ p \in S /\ n \in S /\ \A t \in Titles : m(t) \in S
      /\ \A o \in {"store", "read", "unique", "add"} : [op |-> o] \in S
  BY DEF Steps, Ordinary, Harmless
<1>2. /\ Put("form:emoji") = <<p>>
      /\ StoreTitle = <<[op |-> "store"]>> \o <<p>>
      /\ \A t : Merge(Answer("title", t)) = <<m(t)>>
      /\ Read = <<[op |-> "read"]>> /\ NeedTitle = <<n>> \o UniqueCategory
  BY DEF StoreTitle, Store, Merge, Put, PutAsking, NeedTitle, Need, Read, Wizard, Edit
<1>3. Clear \in Seq(S)
  BY ClearFacts DEF Steps, Ordinary
<1> HIDE DEF p, m, n, S
<1>4. <<p>> \in Seq(S) /\ <<p>> # <<>> /\ Head(<<p>>) = p /\ Tail(<<p>>) = <<>>
  BY <1>1
<1>5. StoreTitle \in Seq(S) /\ StoreTitle # <<>> /\ Head(StoreTitle).op = "store"
      /\ Tail(StoreTitle) = <<p>>
  <2> DEFINE a == [op |-> "store"]
  <2>1. a \in S /\ StoreTitle = <<a>> \o <<p>> /\ a.op = "store"
    BY <1>1, <1>2
  <2> DEFINE P == <<p>>
  <2>2. P \in Seq(S) /\ StoreTitle = <<a>> \o P
    BY <1>4, <2>1
  <2> HIDE DEF a, P
  <2>3. /\ <<a>> \o P \in Seq(S) /\ <<a>> \o P # <<>>
        /\ Head(<<a>> \o P) = a /\ Tail(<<a>> \o P) = P
    BY <2>1, <2>2, Joined
  <2> QED BY <2>1, <2>2, <2>3 DEF P
<1>6. ASSUME NEW t \in Titles
      PROVE  LET T == <<m(t)>> \o StoreTitle IN
               T \in Seq(S) /\ T # <<>> /\ Head(T) = m(t) /\ Tail(T) = StoreTitle
  BY <1>1, <1>5, Joined
<1>7. /\ AddCategory \in Seq(S) /\ AddCategory # <<>>
      /\ Head(AddCategory).op = "add" /\ Tail(AddCategory) = Clear
  BY <1>1, <1>3, Joined DEF AddCategory
<1>8. /\ UniqueCategory \in Seq(S) /\ UniqueCategory # <<>>
      /\ Head(UniqueCategory) = [op |-> "unique"] /\ Tail(UniqueCategory) = AddCategory
  BY <1>1, <1>7, Joined DEF UniqueCategory
<1>9. /\ NeedTitle \in Seq(S) /\ NeedTitle # <<>>
      /\ Head(NeedTitle) = n /\ Tail(NeedTitle) = UniqueCategory
  BY <1>1, <1>2, <1>8, Joined
<1>10. /\ Read \o NeedTitle \in Seq(S) /\ Read \o NeedTitle # <<>>
       /\ Head(Read \o NeedTitle).op = "read" /\ Tail(Read \o NeedTitle) = NeedTitle
  BY <1>1, <1>2, <1>9, Joined
<1> QED BY <1>2, <1>4, <1>5, <1>6, <1>7, <1>8, <1>9, <1>10 DEF p, m, n, S

---------------------------------------------------------------------------
(* The inductive invariant.                                                *)

Remaining(T, state, data, seen) ==
  \/ Plain(T, state)
  \/ state # "form:emoji" /\ TakesTitle(T, data, seen)
  \/ AddsCategory(T, data, seen)

\* What the step before a write has found still holds.
Checked(T, seen, data) ==
  T # <<>> =>
    /\ Head(T).op \in {"create", "move"} => LiveCategory(Head(T).category)
    /\ Head(T).op = "archive" => UsedBy(Head(T).category) = {}
    /\ Head(T).op = "rename" => OwnLive(seen.category_id)
    /\ Head(T) = Opening => data = Empty

Handling(r) ==
  /\ run[r] = [todo |-> run[r].todo, seen |-> run[r].seen]
  /\ DataOK(run[r].seen)
  /\ asked = Opened => NoEdit(run[r].seen)
  /\ Remaining(run[r].todo, fsm.state, fsm.data, run[r].seen)
  /\ Checked(run[r].todo, run[r].seen, fsm.data)
  /\ ~torn => Promise(run[r].todo, Here(r))

Chat ==
  /\ fsm = [state |-> fsm.state, data |-> fsm.data, old |-> fsm.old]
  /\ DataOK(fsm.data)
  /\ asked = Opened => NoEdit(fsm.data)
  /\ fsm.state = "form:emoji" => Titled(fsm.data)

Inv ==
  /\ TypeOK /\ Chat /\ NoOrphans
  /\ run = [q \in Runs |-> run[q]]
  /\ \A r \in Runs : Handling(r)

---------------------------------------------------------------------------
(* The first step of a script and what is left behind it.                  *)

PlainStep(a, U, state) ==
  /\ a \in Ordinary /\ U \in Seq(Ordinary) /\ Linked(U)
  /\ U # <<>> => Follows(a, Head(U))
  /\ state = "form:emoji" => a \in Harmless /\ U \in Seq(Harmless)

TitleStep(a, U, data, seen) ==
  \/ U = StoreTitle /\ \E t \in Titles : a = [op |-> "merge", with |-> Answer("title", t)]
  \/ U = Put("form:emoji") /\ a.op = "store" /\ Titled(seen)
  \/ U = <<>> /\ a = [op |-> "put", to |-> "form:emoji", asks |-> Nothing] /\ Titled(data)

AddStep(a, U, data, seen) ==
  /\ Titled(data) /\ Titled(seen)
  /\ \/ U = NeedTitle /\ a.op = "read"
     \/ U = UniqueCategory /\ a = [op |-> "need", keys |-> {"title"}]
     \/ U = AddCategory /\ a = [op |-> "unique"] /\ "title" \in DOMAIN seen
     \/ U = Clear /\ a.op = "add" /\ "title" \in DOMAIN seen

LEMMA PlainRest ==
  ASSUME NEW T, NEW state, Plain(T, state), T # <<>>
  PROVE  PlainStep(Head(T), Tail(T), state)
<1>1. T \in Seq(Ordinary) /\ Linked(T)
  BY DEF Plain
<1>2. Head(T) \in Ordinary /\ Tail(T) \in Seq(Ordinary)
  BY <1>1
<1>3. Linked(Tail(T)) /\ (Tail(T) # <<>> => Follows(Head(T), Head(Tail(T))))
  BY <1>1, LinkedRest
<1>4. ASSUME state = "form:emoji" PROVE Head(T) \in Harmless /\ Tail(T) \in Seq(Harmless)
  <2>1. T \in Seq(Harmless)
    BY <1>4 DEF Plain
  <2> QED BY <2>1
<1> QED BY <1>2, <1>3, <1>4 DEF PlainStep

LEMMA RestOf ==
  ASSUME NEW T, NEW state, NEW data, NEW seen, Remaining(T, state, data, seen), T # <<>>
  PROVE  \/ PlainStep(Head(T), Tail(T), state)
         \/ state # "form:emoji" /\ TitleStep(Head(T), Tail(T), data, seen)
         \/ AddStep(Head(T), Tail(T), data, seen)
<1>1. CASE Plain(T, state)
  BY <1>1, PlainRest
<1>2. CASE state # "form:emoji" /\ TakesTitle(T, data, seen)
  BY <1>2, FormFacts DEF TakesTitle, TitleStep
<1>3. CASE AddsCategory(T, data, seen)
  BY <1>3, FormFacts DEF AddsCategory, AddStep
<1> QED BY <1>1, <1>2, <1>3 DEF Remaining

\* Scripts are sequences.
LEMMA ScriptSeq ==
  ASSUME NEW T, NEW state, NEW data, NEW seen, Remaining(T, state, data, seen)
  PROVE  T \in Seq(Steps)
<1>1. CASE Plain(T, state)
  <2>1. T \in Seq(Ordinary) /\ Ordinary \subseteq Steps
    BY <1>1 DEF Plain, Steps
  <2> QED BY <2>1, SeqMonotonic
<1>2. CASE TakesTitle(T, data, seen)
  BY <1>2, FormFacts DEF TakesTitle
<1>3. CASE AddsCategory(T, data, seen)
  BY <1>3, FormFacts DEF AddsCategory
<1> QED BY <1>1, <1>2, <1>3 DEF Remaining

---------------------------------------------------------------------------
(* What a step does to a handler.                                          *)

LEMMA Stopped ==
  ASSUME NEW r \in Runs, run = [q \in Runs |-> run[q]], Stop(r)
  PROVE  /\ run' = [q \in Runs |-> run'[q]]
         /\ run'[r] = [todo |-> run'[r].todo, seen |-> run'[r].seen]
         /\ run'[r].todo = <<>> /\ run'[r].seen = Empty
BY DEF Stop, Idle

\* What is promised does not depend on what the last step has read.
LEMMA PromiseIdle ==
  ASSUME NEW c, NEW d, Good(c), c.made <= 1, d.state = c.state, d.data = c.data,
         d.asked = c.asked, d.made = c.made
  PROVE  Promise(<<>>, d)
<1>1. Good(d) /\ d.made <= 1
  BY DEF Good
<1> QED BY <1>1, PromiseDone

\* The promise goes on to the rest of the script.
LEMMA PromiseStep ==
  ASSUME NEW r \in Runs, Inv, run[r].todo # <<>>, NEW d, Then(r, Tail(run[r].todo), d), ~torn,
         Leads(Head(run[r].todo), Here(r),
               [state |-> fsm'.state, data |-> fsm'.data, seen |-> d,
                asked |-> asked', made |-> made'])
  PROVE  Promise(run'[r].todo, Here(r)')
<1> DEFINE T == run[r].todo
           c == [state |-> fsm'.state, data |-> fsm'.data, seen |-> d,
                 asked |-> asked', made |-> made']
<1>1. Handling(r) /\ run = [q \in Runs |-> run[q]]
  BY DEF Inv
<1>2. T \in Seq(Steps) /\ Promise(T, Here(r))
  BY <1>1, ScriptSeq DEF Handling
<1>3. Leads(Head(T), Here(r), c)
  OBVIOUS
<1>4. run'[r].todo = Tail(T) /\ run'[r].seen = IF Tail(T) = <<>> THEN Empty ELSE d
  BY <1>1 DEF Then, Idle
<1> HIDE DEF c
<1>5. Promise(Tail(T), c)
  BY <1>2, <1>3, PromiseNext
<1>6. CASE Tail(T) # <<>>
  <2>1. Here(r)' = c
    BY <1>4, <1>6 DEF Here, c
  <2> QED BY <1>4, <1>5, <2>1
<1>7. CASE Tail(T) = <<>>
  <2>1. Promise(<<>>, c)
    BY <1>5, <1>7
  <2>2. Due(<<>>, 0, c)
    BY <2>1, PromiseNow, <<>> \in Seq(Steps)
  <2>3. Good(c) /\ c.made <= 1
    BY <2>2, Len(<<>>) = 0 DEF Due
  <2>4. LET h == Here(r)' IN
          h.state = c.state /\ h.data = c.data /\ h.asked = c.asked /\ h.made = c.made
    BY DEF Here, c
  <2>5. Promise(<<>>, Here(r)')
    BY <2>3, <2>4, PromiseIdle
  <2> QED BY <1>4, <1>7, <2>5
<1> QED BY <1>6, <1>7

\* Where a handler stops, the question on the screen can be answered.
LEMMA PromiseStop ==
  ASSUME NEW r \in Runs, Inv, run[r].todo # <<>>, Head(run[r].todo).op \in Stopping,
         ~torn
  PROVE  Good(Here(r)) /\ made = 0
<1> DEFINE T == run[r].todo
<1>1. T \in Seq(Steps) /\ Promise(T, Here(r))
  BY ScriptSeq DEF Handling, Inv
<1>2. Due(T, 0, Here(r))
  BY <1>1, PromiseNow
<1>3. 0 < Len(T) /\ T[0 + 1] = Head(T)
  BY <1>1
<1>4. Good(Here(r))
  BY <1>2, <1>3 DEF Due
<1> QED BY <1>4 DEF Good, Here

\* At rest, too.
LEMMA PromiseRest ==
  ASSUME NEW r \in Runs, Inv, run[r].todo = <<>>, ~torn
  PROVE  Good(Here(r)) /\ made = 0
<1>1. Promise(<<>>, Here(r)) /\ <<>> \in Seq(Steps) /\ Len(<<>>) = 0
  BY DEF Handling, Inv
<1>2. Due(<<>>, 0, Here(r))
  BY <1>1, PromiseNow
<1>3. Good(Here(r))
  BY <1>1, <1>2 DEF Due
<1> QED BY <1>3 DEF Good, Here

---------------------------------------------------------------------------
(* Every step keeps the invariant.                                         *)

LEMMA NothingLeft ==
  ASSUME NEW state
  PROVE  Plain(<<>>, state)
<1>1. <<>> \in Seq(Ordinary) /\ <<>> \in Seq(Harmless) /\ Linked(<<>>)
  BY LinkedShort
<1> QED BY <1>1 DEF Plain

LEMMA PlainLeft ==
  ASSUME NEW a, NEW U, NEW state, NEW state2,
         PlainStep(a, U, state), state2 = "form:emoji" => state = "form:emoji"
  PROVE  Plain(U, state2)
BY DEF PlainStep, Plain

\* Behind a step that checks nothing comes no write, and the wizard's first
\* question only behind the emptied data.
LEMMA UncheckedNext ==
  ASSUME NEW a, NEW U, NEW state, PlainStep(a, U, state), U # <<>>
  PROVE  /\ a.op \notin {"live", "unused", "renamable"} =>
              Head(U).op \notin {"create", "move", "archive", "rename"}
         /\ Head(U) = Opening => a = Emptying
         /\ a # Opening
BY DEF PlainStep, Follows

LEMMA SetStateKeeps ==
  ASSUME Inv, NEW r \in Runs, Runs = {r}, SetState(r)
  PROVE  Inv'
<1> DEFINE T == run[r].todo
           a == Head(T)
           U == Tail(T)
<1>1. /\ T # <<>> /\ a.op = "put"
      /\ fsm'.state = a.to /\ fsm'.data = fsm.data /\ fsm'.old = FALSE
      /\ fsm' = [state |-> fsm'.state, data |-> fsm'.data, old |-> fsm'.old]
      /\ asked' = IF a.asks = Same THEN asked ELSE a.asks
      /\ made' = IF a.asks = Opened THEN 0 ELSE made
      /\ cats' = cats /\ rems' = rems /\ torn' = torn
  BY DEF SetState, Doing, Next1, Inv, Chat
<1>2. /\ Then(r, U, run[r].seen)
      /\ run' = [q \in Runs |-> run'[q]]
      /\ run'[r] = [todo |-> run'[r].todo, seen |-> run'[r].seen]
      /\ run'[r].todo = U /\ run'[r].seen = IF U = <<>> THEN Empty ELSE run[r].seen
  BY DEF SetState, Advance, Then, Idle, Inv
<1>3. /\ TypeOK /\ Chat /\ Handling(r)
  BY DEF Inv
<1> HIDE DEF T, a, U
<1>4. \/ PlainStep(a, U, fsm.state)
      \/ fsm.state # "form:emoji" /\ TitleStep(a, U, fsm.data, run[r].seen)
  <2>1. \/ PlainStep(a, U, fsm.state)
        \/ fsm.state # "form:emoji" /\ TitleStep(a, U, fsm.data, run[r].seen)
        \/ AddStep(a, U, fsm.data, run[r].seen)
    BY <1>1, <1>3, RestOf DEF Handling, T, a, U
  <2>2. ~AddStep(a, U, fsm.data, run[r].seen)
    BY <1>1 DEF AddStep
  <2> QED BY <2>1, <2>2
<1>5. /\ a.to \in States /\ a.asks \in Asks
      /\ a.asks = Opened => a = Opening /\ U = <<>> /\ fsm.data = Empty
      /\ a.to = "form:emoji" => Titled(fsm.data) /\ U = <<>>
  <2>1. CASE PlainStep(a, U, fsm.state)
    <3>1. a \in Ordinary
      BY <2>1 DEF PlainStep
    <3>2. a.asks = Opened => a = Opening /\ U = <<>>
      BY <1>1, <2>1, <3>1, OrdinarySteps, UncheckedNext
    <3>3. a = Opening => fsm.data = Empty
      BY <1>1, <1>3 DEF Handling, Checked, T, a
    <3> QED BY <1>1, <3>1, <3>2, <3>3, OrdinarySteps
  <2>2. CASE TitleStep(a, U, fsm.data, run[r].seen)
    BY <1>1, <2>2, FormFacts DEF TitleStep, States, Form, Asks, Nothing, Opened, Opening
  <2> QED BY <1>4, <2>1, <2>2
<1>6. TypeOK'
  <2>1. asked' \in {Nothing, Opened} \cup {Editing(i) : i \in Reminders}
    BY <1>1, <1>3, <1>5 DEF TypeOK, Asks
  <2>2. \A q \in Runs : run'[q].todo = <<>> => run'[q].seen = Empty
    BY <1>2
  <2> QED BY <1>1, <1>3, <1>5, <2>1, <2>2 DEF TypeOK
<1>7. Chat'
  BY <1>1, <1>3, <1>5, EmptyOK DEF Chat
<1>8. Handling(r)'
  <2>1. DataOK(run'[r].seen) /\ (asked' = Opened => NoEdit(run'[r].seen))
    BY <1>1, <1>2, <1>3, <1>5, EmptyOK DEF Handling
  <2>2. Remaining(run[r].todo, fsm.state, fsm.data, run[r].seen)'
    <3>1. CASE U = <<>>
      BY <1>2, <3>1, NothingLeft DEF Remaining
    <3>2. CASE U # <<>>
      <4>1. PlainStep(a, U, fsm.state) /\ fsm'.state # "form:emoji"
        BY <1>1, <1>4, <1>5, <3>2, FormFacts DEF TitleStep
      <4>2. Plain(U, fsm'.state)
        BY <4>1, PlainLeft
      <4> QED BY <1>2, <4>2 DEF Remaining
    <3> QED BY <3>1, <3>2
  <2>3. Checked(run[r].todo, run[r].seen, fsm.data)'
    <3>1. CASE U = <<>>
      BY <1>2, <3>1 DEF Checked
    <3>2. CASE U # <<>>
      <4>1. PlainStep(a, U, fsm.state) /\ a # Emptying
        BY <1>1, <1>4, <1>5, <3>2, FormFacts DEF TitleStep, Emptying
      <4>2. /\ Head(U).op \notin {"create", "move", "archive", "rename"}
            /\ Head(U) # Opening
        BY <1>1, <3>2, <4>1, UncheckedNext
      <4> QED BY <1>2, <4>2 DEF Checked
    <3> QED BY <3>1, <3>2
  <2>4. ASSUME ~torn' PROVE Promise(run[r].todo, Here(r))'
    <3>1. Leads(a, Here(r), [state |-> fsm'.state, data |-> fsm'.data, seen |-> run[r].seen,
                              asked |-> asked', made |-> made'])
      BY <1>1 DEF Leads, Here
    <3> QED BY <1>1, <1>2, <2>4, <3>1, PromiseStep DEF T, a, U
  <2> QED BY <1>2, <2>1, <2>2, <2>3, <2>4 DEF Handling
<1> QED BY <1>1, <1>2, <1>6, <1>7, <1>8 DEF Inv, NoOrphans, LiveCategory

LEMMA OpeningLast ==
  ASSUME NEW S, NEW U \in Seq(S), U # <<>>, Linked(U), Head(U) = Opening
  PROVE  U = <<Opening>>
<1>1. Tail(U) = <<>>
  <2>1. Tail(U) # <<>> => Follows(Head(U), Head(Tail(U)))
    BY LinkedRest
  <2> QED BY <2>1 DEF Follows
<1>2. Len(U) = 1 /\ U[1] = Opening
  <2>1. Len(Tail(U)) = Len(U) - 1 /\ Len(U) \in Nat /\ Head(U) = U[1]
    BY HeadTailProperties
  <2> QED BY <1>1, <2>1
<1> QED BY <1>2

\* Once the data is cleared everything can be answered again.
LEMMA Recovered ==
  ASSUME NEW c, c.state = None, c.data = Empty, c.made = 0
  PROVE  Promise(<<>>, c) /\ Promise(<<Opening>>, c)
<1>1. Good(c)
  BY DEF Good, Answerable, Expected, None, Wizard, Edit
<1>2. ASSUME NEW d, Leads(Opening, c, d)
      PROVE  d.made <= 1 /\ Good(d)
  <2>1. d.state = "wizard:category" /\ d.data = Empty /\ d.asked = Opened /\ d.made = 0
    BY <1>2 DEF Leads, Opening, Opened, Same
  <2> QED BY <2>1 DEF Good, Answerable, Expected, Wizard, Edit, Empty
<1>3. Opening.op \notin Stopping
  BY DEF Opening, Stopping
<1> QED BY <1>1, <1>2, <1>3, PromiseDone, PromiseLast

LEMMA SetDataKeeps ==
  ASSUME Inv, NEW r \in Runs, Runs = {r}, SetData(r)
  PROVE  Inv'
<1> DEFINE T == run[r].todo
           a == Head(T)
           U == Tail(T)
<1>1. /\ T # <<>> /\ a.op = "replace"
      /\ fsm'.state = fsm.state /\ fsm'.data = a.with /\ fsm'.old = FALSE
      /\ fsm' = [state |-> fsm'.state, data |-> fsm'.data, old |-> fsm'.old]
      /\ asked' = IF a.asks = Same THEN asked ELSE a.asks
      /\ IF a.with = Empty /\ fsm.state = None
         THEN torn' = FALSE /\ made' = 0 ELSE torn' = torn /\ made' = made
      /\ cats' = cats /\ rems' = rems
  BY DEF SetData, Doing, Next1, Inv, Chat
<1>2. /\ Then(r, U, run[r].seen)
      /\ run' = [q \in Runs |-> run'[q]]
      /\ run'[r] = [todo |-> run'[r].todo, seen |-> run'[r].seen]
      /\ run'[r].todo = U /\ run'[r].seen = IF U = <<>> THEN Empty ELSE run[r].seen
  BY DEF SetData, Advance, Then, Idle, Inv
<1>3. /\ TypeOK /\ Chat /\ Handling(r)
  BY DEF Inv
<1> HIDE DEF T, a, U
<1>4. PlainStep(a, U, fsm.state) /\ a \in Ordinary
  <2>1. \/ PlainStep(a, U, fsm.state)
        \/ fsm.state # "form:emoji" /\ TitleStep(a, U, fsm.data, run[r].seen)
        \/ AddStep(a, U, fsm.data, run[r].seen)
    BY <1>1, <1>3, RestOf DEF Handling, T, a, U
  <2>2. ~AddStep(a, U, fsm.data, run[r].seen) /\ ~TitleStep(a, U, fsm.data, run[r].seen)
    BY <1>1 DEF AddStep, TitleStep
  <2> QED BY <2>1, <2>2 DEF PlainStep
<1>5. /\ a.asks \in Asks \ {Opened} /\ DataOK(a.with)
      /\ a.asks = Same => NoEdit(a.with)
      /\ a.with = Empty => a = Emptying
      /\ fsm.state = "form:emoji" => a = Emptying
  <2>1. a.asks \in Asks
    BY <1>1, <1>4, OrdinarySteps DEF Emptying, Asks
  <2>2. fsm.state = "form:emoji" => a = Emptying
    BY <1>1, <1>4, OrdinarySteps DEF PlainStep
  <2>3. /\ DataOK(a.with) /\ (a.asks = Same => NoEdit(a.with))
        /\ a.asks # Opened /\ (a.with = Empty => a = Emptying)
    BY <1>1, <1>4, ReplacedOK
  <2> QED BY <2>1, <2>2, <2>3
<1>6. TypeOK'
  <2>1. asked' \in {Nothing, Opened} \cup {Editing(i) : i \in Reminders}
    BY <1>1, <1>3, <1>5 DEF TypeOK, Asks
  <2>2. \A q \in Runs : run'[q].todo = <<>> => run'[q].seen = Empty
    BY <1>2
  <2>3. \A k \in DOMAIN a.with \cap Lists : a.with[k] \in BOOLEAN
    BY <1>5 DEF DataOK
  <2>4. made' \in Nat /\ torn' \in BOOLEAN
    <3>1. made' \in Nat
      BY <1>1, <1>3 DEF TypeOK
    <3>2. torn' = FALSE \/ torn' = torn
      BY <1>1, Zenon
    <3> QED BY <1>3, <3>1, <3>2 DEF TypeOK
  <2>5. /\ fsm'.state \in States /\ fsm'.old \in BOOLEAN
        /\ \A k \in DOMAIN fsm'.data \cap Lists : fsm'.data[k] \in BOOLEAN
    BY <1>1, <1>3, <2>3 DEF TypeOK
  <2>6. cats' \in [Own -> {Gone} \cup Titles] /\ rems' \in [Reminders -> {Gone} \cup Categories]
    BY <1>1, <1>3 DEF TypeOK
  <2> QED BY <2>1, <2>2, <2>4, <2>5, <2>6 DEF TypeOK
<1>7. Chat'
  <2>1. Emptying.with = Empty
    BY DEF Emptying
  <2> QED BY <1>1, <1>3, <1>5, <2>1, EmptyOK DEF Chat
<1>8. Handling(r)'
  <2>1. DataOK(run'[r].seen) /\ (asked' = Opened => NoEdit(run'[r].seen))
    BY <1>1, <1>2, <1>3, <1>5, EmptyOK DEF Handling
  <2>2. Remaining(run[r].todo, fsm.state, fsm.data, run[r].seen)'
    <3>1. Plain(U, fsm'.state)
      BY <1>1, <1>4, PlainLeft
    <3> QED BY <1>2, <3>1 DEF Remaining
  <2>3. Checked(run[r].todo, run[r].seen, fsm.data)'
    <3>1. CASE U = <<>>
      BY <1>2, <3>1 DEF Checked
    <3>2. CASE U # <<>>
      <4>1. /\ Head(U).op \notin {"create", "move", "archive", "rename"}
            /\ Head(U) = Opening => a = Emptying
        BY <1>1, <1>4, <3>2, UncheckedNext
      <4>2. a = Emptying => fsm'.data = Empty
        BY <1>1 DEF Emptying
      <4> QED BY <1>2, <4>1, <4>2 DEF Checked
    <3> QED BY <3>1, <3>2
  <2>4. ASSUME ~torn' PROVE Promise(run[r].todo, Here(r))'
    <3>1. CASE a.with = Empty /\ fsm.state = None
      <4>1. U = <<>> \/ U = <<Opening>>
        <5>1. U # <<>> => Head(U) = Opening
          BY <1>4, <1>5, <3>1 DEF PlainStep, Follows
        <5> QED BY <1>4, <5>1, OpeningLast DEF PlainStep
      <4>2. LET h == Here(r)' IN h.state = None /\ h.data = Empty /\ h.made = 0
        BY <1>1, <3>1 DEF Here
      <4>3. Promise(<<>>, Here(r)') /\ Promise(<<Opening>>, Here(r)')
        BY <4>2, Recovered
      <4> QED BY <1>2, <4>1, <4>3
    <3>2. CASE ~(a.with = Empty /\ fsm.state = None)
      <4>1. Leads(a, Here(r), [state |-> fsm'.state, data |-> fsm'.data, seen |-> run[r].seen,
                                asked |-> asked', made |-> made'])
        BY <1>1, <3>2 DEF Leads, Here
      <4>2. ~torn
        BY <1>1, <2>4, <3>2
      <4> QED BY <1>1, <1>2, <4>1, <4>2, PromiseStep DEF T, a, U
    <3> QED BY <3>1, <3>2
  <2> QED BY <1>2, <2>1, <2>2, <2>3, <2>4 DEF Handling
<1> QED BY <1>1, <1>2, <1>6, <1>7, <1>8 DEF Inv, NoOrphans, LiveCategory

\* Whatever a handler reads has the values relied on, and the mark of an edit
\* only when the data has it.
LEMMA GetDataReads ==
  ASSUME Inv, NEW r \in Runs, GetData(r)
  PROVE  LET a == Head(run[r].todo) IN
         \E d : /\ Then(r, Tail(run[r].todo), d)
                /\ run[r].todo # <<>> /\ a.op \in {"read", "merge", "toggle"}
                /\ DataOK(d) /\ (NoEdit(fsm.data) => NoEdit(d))
                /\ a.op = "read" => d = fsm.data
                /\ a.op = "merge" => d = Over(a.with, fsm.data)
                /\ a.op = "toggle" => \E b \in BOOLEAN : d = Over(Answer(a.key, b), fsm.data)
<1> DEFINE T == run[r].todo
           a == Head(T)
<1>1. DataOK(fsm.data) /\ Remaining(T, fsm.state, fsm.data, run[r].seen)
  BY DEF Inv, Chat, Handling
<1>2. CASE Doing(r, "read") /\ Then(r, Tail(T), fsm.data)
  BY <1>1, <1>2 DEF Doing, Next1
<1>3. CASE Doing(r, "merge") /\ Then(r, Tail(T), Over(Next1(r).with, fsm.data))
  <2>1. T # <<>> /\ a.op = "merge" /\ Then(r, Tail(T), Over(a.with, fsm.data))
    BY <1>3 DEF Doing, Next1
  <2>2. \/ PlainStep(a, Tail(T), fsm.state)
        \/ TitleStep(a, Tail(T), fsm.data, run[r].seen)
        \/ AddStep(a, Tail(T), fsm.data, run[r].seen)
    BY <1>1, <2>1, RestOf
  <2>3. DataOK(a.with) /\ NoEdit(a.with)
    <3>1. CASE PlainStep(a, Tail(T), fsm.state)
      BY <2>1, <3>1, OrdinarySteps, MergedFacts DEF PlainStep
    <3>2. CASE TitleStep(a, Tail(T), fsm.data, run[r].seen)
      <4> HIDE DEF T, a
      <4>1. PICK t \in Titles : a = [op |-> "merge", with |-> Answer("title", t)]
        BY <2>1, <3>2 DEF TitleStep
      <4>2. a.with = Answer("title", t)
        BY <4>1
      <4> QED BY <4>2 DEF DataOK, NoEdit, Answer, Lists
    <3>3. ~AddStep(a, Tail(T), fsm.data, run[r].seen)
      BY <2>1 DEF AddStep
    <3> QED BY <2>2, <3>1, <3>2, <3>3
  <2>4. /\ DataOK(Over(a.with, fsm.data))
        /\ NoEdit(fsm.data) => NoEdit(Over(a.with, fsm.data))
    BY <1>1, <2>3, OverlayOK
  <2> QED BY <2>1, <2>4
<1>4. CASE /\ Doing(r, "toggle")
           /\ LET k == Next1(r).key IN
              \E some \in IF IsSet(run[r].seen, k) THEN BOOLEAN ELSE {TRUE} :
                Then(r, Tail(T), Over(Answer(k, some), fsm.data))
  <2>1. PICK b \in BOOLEAN : Then(r, Tail(T), Over(Answer(a.key, b), fsm.data))
    BY <1>4 DEF Next1
  <2>2. T # <<>> /\ a.op = "toggle"
    BY <1>4 DEF Doing, Next1
  <2>3. \/ PlainStep(a, Tail(T), fsm.state)
        \/ TitleStep(a, Tail(T), fsm.data, run[r].seen)
        \/ AddStep(a, Tail(T), fsm.data, run[r].seen)
    BY <1>1, <2>2, RestOf
  <2>4. a.key \in Lists
    <3> HIDE DEF T, a
    <3>1. PlainStep(a, Tail(T), fsm.state)
      BY <2>2, <2>3 DEF TitleStep, AddStep
    <3> QED BY <2>2, <3>1, OrdinarySteps DEF PlainStep
  <2>5. DataOK(Answer(a.key, b)) /\ NoEdit(Answer(a.key, b))
    BY <2>4 DEF DataOK, NoEdit, Answer, Lists
  <2>6. /\ DataOK(Over(Answer(a.key, b), fsm.data))
        /\ NoEdit(fsm.data) => NoEdit(Over(Answer(a.key, b), fsm.data))
    BY <1>1, <2>5, OverlayOK
  <2> QED BY <2>1, <2>2, <2>6
<1> QED BY <1>2, <1>3, <1>4 DEF GetData

LEMMA GetDataKeeps ==
  ASSUME Inv, NEW r \in Runs, Runs = {r}, GetData(r)
  PROVE  Inv'
<1> DEFINE T == run[r].todo
           a == Head(T)
           U == Tail(T)
<1>1. PICK d : /\ Then(r, U, d)
               /\ T # <<>> /\ a.op \in {"read", "merge", "toggle"}
               /\ DataOK(d) /\ (NoEdit(fsm.data) => NoEdit(d))
               /\ a.op = "read" => d = fsm.data
               /\ a.op = "merge" => d = Over(a.with, fsm.data)
               /\ a.op = "toggle" => \E b \in BOOLEAN : d = Over(Answer(a.key, b), fsm.data)
  BY GetDataReads
<1>2. /\ run' = [q \in Runs |-> run'[q]]
      /\ run'[r] = [todo |-> run'[r].todo, seen |-> run'[r].seen]
      /\ run'[r].todo = U /\ run'[r].seen = IF U = <<>> THEN Empty ELSE d
  BY <1>1 DEF Then, Idle, Inv
<1>3. /\ TypeOK /\ Chat /\ Handling(r)
      /\ UNCHANGED <<fsm, cats, rems, asked, made, torn>>
  BY DEF Inv, GetData, history
<1> HIDE DEF T, a, U
<1>4. \/ PlainStep(a, U, fsm.state)
      \/ fsm.state # "form:emoji" /\ TitleStep(a, U, fsm.data, run[r].seen)
      \/ AddStep(a, U, fsm.data, run[r].seen)
  BY <1>1, <1>3, RestOf DEF Handling, T, a, U
<1>5. TypeOK'
  BY <1>2, <1>3 DEF TypeOK, LiveCategory
<1>6. Chat'
  BY <1>3 DEF Chat
<1>7. Handling(r)'
  <2>1. DataOK(run'[r].seen) /\ (asked' = Opened => NoEdit(run'[r].seen))
    BY <1>1, <1>2, <1>3, EmptyOK DEF Chat
  <2>2. Remaining(run[r].todo, fsm.state, fsm.data, run[r].seen)'
        /\ Checked(run[r].todo, run[r].seen, fsm.data)'
    <3>1. CASE PlainStep(a, U, fsm.state)
      <4>1. Plain(U, fsm.state)
        BY <3>1, PlainLeft
      <4>2. U # <<>> => /\ Head(U).op \notin {"create", "move", "archive", "rename"}
                        /\ Head(U) # Opening
        BY <1>1, <3>1, UncheckedNext DEF Emptying
      <4> QED BY <1>2, <1>3, <4>1, <4>2 DEF Remaining, Checked
    <3>2. CASE fsm.state # "form:emoji" /\ TitleStep(a, U, fsm.data, run[r].seen)
      <4>1. PICK t \in Titles : a = [op |-> "merge", with |-> Answer("title", t)]
        BY <1>1, <3>2 DEF TitleStep
      <4>2. U = StoreTitle
        BY <3>2, <4>1 DEF TitleStep
      <4>3. d = Over(Answer("title", t), fsm.data) /\ Titled(d)
        BY <1>1, <4>1 DEF Titled, Over, Answer
      <4>4. U # <<>> /\ Head(U).op = "store"
        BY <4>2, FormFacts
      <4>5. Head(U) # Opening
        BY <4>4 DEF Opening
      <4>6. TakesTitle(U, fsm.data, d)
        BY <4>2, <4>3 DEF TakesTitle
      <4> QED BY <1>2, <1>3, <3>2, <4>4, <4>5, <4>6 DEF Remaining, Checked
    <3>3. CASE AddStep(a, U, fsm.data, run[r].seen)
      <4>1. U = NeedTitle /\ a.op = "read" /\ Titled(fsm.data)
        BY <1>1, <3>3 DEF AddStep
      <4>2. U # <<>> /\ Head(U).op = "need" /\ Head(U) # Opening
        BY <4>1, FormFacts DEF Opening
      <4>3. run'[r].todo = NeedTitle /\ run'[r].seen = fsm.data
        BY <1>1, <1>2, <4>1, <4>2
      <4>4. AddsCategory(run[r].todo, fsm.data, run[r].seen)'
        BY <1>3, <4>1, <4>3 DEF AddsCategory
      <4> QED BY <1>2, <4>2, <4>4 DEF Remaining, Checked
    <3> QED BY <1>4, <3>1, <3>2, <3>3
  <2>3. ASSUME ~torn' PROVE Promise(run[r].todo, Here(r))'
    <3>1. Leads(a, Here(r), [state |-> fsm'.state, data |-> fsm'.data, seen |-> d,
                              asked |-> asked', made |-> made'])
      BY <1>1, <1>3 DEF Leads, Here
    <3> QED BY <1>1, <1>3, <2>3, <3>1, PromiseStep DEF T, a, U
  <2> QED BY <1>2, <2>1, <2>2, <2>3 DEF Handling
<1> QED BY <1>2, <1>3, <1>5, <1>6, <1>7 DEF Inv, NoOrphans, LiveCategory

LEMMA StoreDataKeeps ==
  ASSUME Inv, NEW r \in Runs, Runs = {r}, StoreData(r)
  PROVE  Inv'
<1> DEFINE T == run[r].todo
           a == Head(T)
           U == Tail(T)
<1>1. /\ T # <<>> /\ a.op = "store"
      /\ fsm'.state = fsm.state /\ fsm'.data = run[r].seen /\ fsm'.old = FALSE
      /\ fsm' = [state |-> fsm'.state, data |-> fsm'.data, old |-> fsm'.old]
      /\ UNCHANGED <<cats, rems, asked, made, torn>>
  BY DEF StoreData, Doing, Next1, Inv, Chat, history
<1>2. /\ Then(r, U, run[r].seen)
      /\ run' = [q \in Runs |-> run'[q]]
      /\ run'[r] = [todo |-> run'[r].todo, seen |-> run'[r].seen]
      /\ run'[r].todo = U /\ run'[r].seen = IF U = <<>> THEN Empty ELSE run[r].seen
  BY DEF StoreData, Advance, Then, Idle, Inv
<1>3. /\ TypeOK /\ Chat /\ Handling(r)
  BY DEF Inv
<1> HIDE DEF T, a, U
<1>4. /\ fsm.state # "form:emoji"
      /\ PlainStep(a, U, fsm.state) \/ (U = Put("form:emoji") /\ Titled(run[r].seen))
  <2>1. \/ PlainStep(a, U, fsm.state)
        \/ fsm.state # "form:emoji" /\ TitleStep(a, U, fsm.data, run[r].seen)
        \/ AddStep(a, U, fsm.data, run[r].seen)
    BY <1>1, <1>3, RestOf DEF Handling, T, a, U
  <2>2. ~AddStep(a, U, fsm.data, run[r].seen)
    BY <1>1 DEF AddStep
  <2>3. PlainStep(a, U, fsm.state) => fsm.state # "form:emoji"
    BY <1>1, OrdinarySteps DEF PlainStep
  <2>4. TitleStep(a, U, fsm.data, run[r].seen) =>
          U = Put("form:emoji") /\ Titled(run[r].seen)
    BY <1>1 DEF TitleStep
  <2> QED BY <2>1, <2>2, <2>3, <2>4
<1>5. TypeOK'
  <2>1. \A k \in DOMAIN run[r].seen \cap Lists : run[r].seen[k] \in BOOLEAN
    BY <1>3 DEF Handling, DataOK
  <2> QED BY <1>1, <1>2, <1>3, <2>1 DEF TypeOK
<1>6. Chat'
  BY <1>1, <1>3, <1>4 DEF Chat, Handling
<1>7. Handling(r)'
  <2>1. DataOK(run'[r].seen) /\ (asked' = Opened => NoEdit(run'[r].seen))
    BY <1>1, <1>2, <1>3, EmptyOK DEF Handling
  <2>2. Remaining(run[r].todo, fsm.state, fsm.data, run[r].seen)'
        /\ Checked(run[r].todo, run[r].seen, fsm.data)'
    <3>1. CASE PlainStep(a, U, fsm.state)
      <4>1. Plain(U, fsm.state)
        BY <3>1, PlainLeft
      <4>2. U # <<>> => /\ Head(U).op \notin {"create", "move", "archive", "rename"}
                        /\ Head(U) # Opening
        BY <1>1, <3>1, UncheckedNext DEF Emptying
      <4> QED BY <1>1, <1>2, <4>1, <4>2 DEF Remaining, Checked
    <3>2. CASE U = Put("form:emoji") /\ Titled(run[r].seen)
      <4>1. /\ U # <<>> /\ Head(U) = [op |-> "put", to |-> "form:emoji", asks |-> Nothing]
        BY <3>2, FormFacts
      <4>2. Head(U).op = "put" /\ Head(U) # Opening
        BY <4>1 DEF Opening
      <4>3. TakesTitle(U, fsm'.data, run'[r].seen)
        BY <1>1, <3>2 DEF TakesTitle
      <4> QED BY <1>1, <1>2, <1>4, <4>1, <4>2, <4>3 DEF Remaining, Checked
    <3> QED BY <1>4, <3>1, <3>2
  <2>3. ASSUME ~torn' PROVE Promise(run[r].todo, Here(r))'
    <3>1. Leads(a, Here(r), [state |-> fsm'.state, data |-> fsm'.data, seen |-> run[r].seen,
                              asked |-> asked', made |-> made'])
      BY <1>1 DEF Leads, Here
    <3> QED BY <1>1, <1>2, <2>3, <3>1, PromiseStep DEF T, a, U
  <2> QED BY <1>2, <2>1, <2>2, <2>3 DEF Handling
<1> QED BY <1>1, <1>2, <1>3, <1>5, <1>6, <1>7 DEF Inv, NoOrphans, LiveCategory

\* A handler that stops leaves the chat as it is.
LEMMA StopKeeps ==
  ASSUME Inv, NEW r \in Runs, Runs = {r}, Stop(r), UNCHANGED <<fsm, cats, rems, history>>,
         run[r].todo # <<>>, Head(run[r].todo).op \in Stopping
  PROVE  Inv'
<1>1. /\ run' = [q \in Runs |-> run'[q]]
      /\ run'[r] = [todo |-> run'[r].todo, seen |-> run'[r].seen]
      /\ run'[r].todo = <<>> /\ run'[r].seen = Empty
  BY Stopped DEF Inv
<1>2. /\ TypeOK /\ Chat /\ Handling(r)
      /\ UNCHANGED <<fsm, cats, rems, asked, made, torn>>
  BY DEF Inv, history
<1>3. TypeOK' /\ Chat'
  BY <1>1, <1>2 DEF TypeOK, Chat
<1>4. Handling(r)'
  <2>1. Plain(<<>>, fsm.state)
    BY NothingLeft
  <2>2. Remaining(run[r].todo, fsm.state, fsm.data, run[r].seen)'
        /\ Checked(run[r].todo, run[r].seen, fsm.data)'
    BY <1>1, <1>2, <2>1 DEF Remaining, Checked
  <2>3. ASSUME ~torn' PROVE Promise(run[r].todo, Here(r))'
    <3>1. Good(Here(r)) /\ made = 0
      BY <1>2, <2>3, PromiseStop
    <3>2. LET h == Here(r)' c == Here(r) IN
            /\ h.state = c.state /\ h.data = c.data /\ h.asked = c.asked /\ h.made = c.made
            /\ c.made = 0
      BY <1>2, <3>1 DEF Here
    <3>3. Promise(<<>>, Here(r)')
      BY <3>1, <3>2, PromiseIdle
    <3> QED BY <1>1, <3>3
  <2> QED BY <1>1, <2>2, <2>3, EmptyOK DEF Handling
<1> QED BY <1>1, <1>2, <1>3, <1>4 DEF Inv, NoOrphans, LiveCategory

\* A handler that goes on from a check: what it found holds for the next step.
LEMMA CheckedKeeps ==
  ASSUME Inv, NEW r \in Runs, Runs = {r}, Advance(r), UNCHANGED <<fsm, cats, rems, history>>,
         run[r].todo # <<>>, Head(run[r].todo).op \in Stopping \ {"finish"},
         Head(run[r].todo).op # "try" => Allowed(Head(run[r].todo), run[r].seen)
  PROVE  Inv'
<1> DEFINE T == run[r].todo
           a == Head(T)
           U == Tail(T)
<1>1. /\ T # <<>> /\ a.op \in Stopping \ {"finish"}
      /\ a.op # "try" => Allowed(a, run[r].seen)
      /\ UNCHANGED <<fsm, cats, rems, asked, made, torn>>
  BY DEF history
<1>2. /\ Then(r, U, run[r].seen)
      /\ run' = [q \in Runs |-> run'[q]]
      /\ run'[r] = [todo |-> run'[r].todo, seen |-> run'[r].seen]
      /\ run'[r].todo = U /\ run'[r].seen = IF U = <<>> THEN Empty ELSE run[r].seen
  BY DEF Advance, Then, Idle, Inv
<1>3. /\ TypeOK /\ Chat /\ Handling(r)
  BY DEF Inv
<1> HIDE DEF T, a, U
<1>4. PlainStep(a, U, fsm.state) \/ AddStep(a, U, fsm.data, run[r].seen)
  <2>1. \/ PlainStep(a, U, fsm.state)
        \/ fsm.state # "form:emoji" /\ TitleStep(a, U, fsm.data, run[r].seen)
        \/ AddStep(a, U, fsm.data, run[r].seen)
    BY <1>1, <1>3, RestOf DEF Handling, T, a, U
  <2>2. ~TitleStep(a, U, fsm.data, run[r].seen)
    BY <1>1 DEF TitleStep, Stopping
  <2> QED BY <2>1, <2>2
<1>5. TypeOK' /\ Chat'
  BY <1>1, <1>2, <1>3 DEF TypeOK, Chat
<1>6. Handling(r)'
  <2>1. DataOK(run'[r].seen) /\ (asked' = Opened => NoEdit(run'[r].seen))
    BY <1>1, <1>2, <1>3, EmptyOK DEF Handling
  <2>2. Remaining(run[r].todo, fsm.state, fsm.data, run[r].seen)'
        /\ Checked(run[r].todo, run[r].seen, fsm.data)'
    <3>1. CASE PlainStep(a, U, fsm.state)
      <4>1. Plain(U, fsm.state)
        BY <3>1, PlainLeft
      <4>2. ASSUME U # <<>>
            PROVE  /\ Head(U).op \in {"create", "move"} => LiveCategory(Head(U).category)
                   /\ Head(U).op = "archive" => UsedBy(Head(U).category) = {}
                   /\ Head(U).op = "rename" => OwnLive(run[r].seen.category_id)
                   /\ Head(U) # Opening
        <5>1. Follows(a, Head(U)) /\ a # Emptying
          BY <1>1, <3>1, <4>2 DEF PlainStep, Emptying, Stopping
        <5>2. /\ a.op = "live" => LiveCategory(a.category)
              /\ a.op = "unused" => UsedBy(a.category) = {}
              /\ a.op = "renamable" => OwnLive(run[r].seen.category_id)
          BY <1>1 DEF Allowed
        <5> QED BY <5>1, <5>2 DEF Follows
      <4>3. Checked(run[r].todo, run[r].seen, fsm.data)'
        BY <1>1, <1>2, <4>2 DEF Checked, LiveCategory, UsedBy, OwnLive
      <4> QED BY <1>1, <1>2, <4>1, <4>3 DEF Remaining
    <3>2. CASE AddStep(a, U, fsm.data, run[r].seen)
      <4>1. /\ a.op = "need" => a = [op |-> "need", keys |-> {"title"}] /\ U = UniqueCategory
                                /\ "title" \in DOMAIN run[r].seen
            /\ a.op # "need" => a = [op |-> "unique"] /\ U = AddCategory
                                /\ "title" \in DOMAIN run[r].seen
        <5>1. \/ U = UniqueCategory /\ a = [op |-> "need", keys |-> {"title"}]
              \/ /\ U = AddCategory /\ a = [op |-> "unique"]
                 /\ "title" \in DOMAIN run[r].seen
          BY <1>1, <3>2 DEF AddStep, Stopping
        <5>2. a.op = "need" => a.keys \subseteq DOMAIN run[r].seen
          BY <1>1 DEF Allowed
        <5>3. a = [op |-> "need", keys |-> {"title"}] => a.op = "need" /\ a.keys = {"title"}
          OBVIOUS
        <5>4. a = [op |-> "unique"] => a.op = "unique"
          OBVIOUS
        <5> QED BY <5>1, <5>2, <5>3, <5>4
      <4>2. U # <<>> /\ Head(U).op \in {"unique", "add"} /\ Head(U) # Opening
        BY <4>1, FormFacts DEF Opening
      <4>3. AddsCategory(U, fsm.data, run[r].seen)
        BY <3>2, <4>1 DEF AddStep, AddsCategory
      <4>4. AddsCategory(run[r].todo, fsm.data, run[r].seen)'
        BY <1>1, <1>2, <4>2, <4>3 DEF AddsCategory, LiveCategory
      <4> QED BY <1>2, <4>2, <4>4 DEF Remaining, Checked
    <3> QED BY <1>4, <3>1, <3>2
  <2>3. ASSUME ~torn' PROVE Promise(run[r].todo, Here(r))'
    <3>1. a.op = "nonempty" => IsSet(run[r].seen, a.key)
      BY <1>1 DEF Allowed
    <3>2. Leads(a, Here(r), [state |-> fsm'.state, data |-> fsm'.data, seen |-> run[r].seen,
                              asked |-> asked', made |-> made'])
      BY <1>1, <3>1 DEF Leads, Here, Stopping
    <3> QED BY <1>1, <1>2, <2>3, <3>2, PromiseStep DEF T, a, U
  <2> QED BY <1>2, <2>1, <2>2, <2>3 DEF Handling
<1> QED BY <1>1, <1>2, <1>3, <1>5, <1>6 DEF Inv, NoOrphans, LiveCategory

\* A handler that found what it needs goes on, one that did not stops.
LEMMA CheckKeeps ==
  ASSUME Inv, NEW r \in Runs, Runs = {r}, Check(r) \/ Refuse(r)
  PROVE  Inv'
<1> DEFINE a == Head(run[r].todo)
<1>1. /\ UNCHANGED <<fsm, cats, rems, history>>
      /\ run[r].todo # <<>> /\ a.op \in Stopping \ {"finish"}
  BY DEF Check, Refuse, Doing, Next1, Stopping
<1>2. Stop(r) \/ (Advance(r) /\ (a.op # "try" => Allowed(a, run[r].seen)))
  <2>1. CASE Check(r)
    BY <2>1 DEF Check, StopUnless, Next1
  <2>2. CASE Refuse(r)
    BY <2>2 DEF Refuse, StopUnless, Doing, Next1
  <2> QED BY <2>1, <2>2
<1>3. CASE Stop(r)
  BY <1>1, <1>3, StopKeeps
<1>4. CASE Advance(r) /\ (a.op # "try" => Allowed(a, run[r].seen))
  BY <1>1, <1>4, CheckedKeeps
<1> QED BY <1>2, <1>3, <1>4

Writing == {"create", "move", "delete", "add", "rename", "archive"}

\* A write of a category or a reminder leaves the rest of the script in order.
LEMMA WriteKeeps ==
  ASSUME Inv, NEW r \in Runs, Runs = {r}, Advance(r), UNCHANGED <<fsm, asked, torn>>,
         run[r].todo # <<>>, Head(run[r].todo).op \in Writing,
         made' = IF Head(run[r].todo).op = "create" THEN made + 1 ELSE made,
         cats' \in [Own -> {Gone} \cup Titles], rems' \in [Reminders -> {Gone} \cup Categories],
         NoOrphans'
  PROVE  Inv'
<1> DEFINE T == run[r].todo
           a == Head(T)
           U == Tail(T)
<1>1. /\ T # <<>> /\ a.op \in Writing
      /\ made' = IF a.op = "create" THEN made + 1 ELSE made
      /\ fsm' = fsm /\ asked' = asked /\ torn' = torn
  OBVIOUS
<1>2. /\ Then(r, U, run[r].seen)
      /\ run' = [q \in Runs |-> run'[q]]
      /\ run'[r] = [todo |-> run'[r].todo, seen |-> run'[r].seen]
      /\ run'[r].todo = U /\ run'[r].seen = IF U = <<>> THEN Empty ELSE run[r].seen
  BY DEF Advance, Then, Idle, Inv
<1>3. /\ TypeOK /\ Chat /\ Handling(r)
  BY DEF Inv
<1> HIDE DEF T, a, U
<1>4. /\ Plain(U, fsm.state)
      /\ U # <<>> => /\ Head(U).op \notin {"create", "move", "archive", "rename"}
                     /\ Head(U) # Opening
  <2>1. \/ PlainStep(a, U, fsm.state)
        \/ fsm.state # "form:emoji" /\ TitleStep(a, U, fsm.data, run[r].seen)
        \/ AddStep(a, U, fsm.data, run[r].seen)
    BY <1>1, <1>3, RestOf DEF Handling, T, a, U
  <2>2. ~TitleStep(a, U, fsm.data, run[r].seen)
    BY <1>1 DEF TitleStep, Writing
  <2>3. CASE PlainStep(a, U, fsm.state)
    <3>1. Plain(U, fsm.state)
      BY <2>3, PlainLeft
    <3> QED BY <1>1, <2>3, <3>1, UncheckedNext DEF Writing, Emptying
  <2>4. CASE AddStep(a, U, fsm.data, run[r].seen)
    <3>1. U = Clear
      BY <1>1, <2>4 DEF AddStep, Writing
    <3>2. Clear \in Seq(Ordinary) /\ Clear \in Seq(Harmless) /\ Linked(Clear)
      <4>1. Harmless \subseteq Ordinary
        BY DEF Ordinary
      <4> QED BY <4>1, ClearFacts, SeqMonotonic
    <3>3. Head(Clear).op = "put" /\ Head(Clear) # Opening
      BY ClearFacts DEF Opening, None
    <3> QED BY <3>1, <3>2, <3>3 DEF Plain
  <2> QED BY <2>1, <2>2, <2>3, <2>4
<1>5. TypeOK'
  BY <1>1, <1>2, <1>3 DEF TypeOK
<1>6. Chat'
  BY <1>1, <1>3 DEF Chat
<1>7. Handling(r)'
  <2>1. DataOK(run'[r].seen) /\ (asked' = Opened => NoEdit(run'[r].seen))
    BY <1>1, <1>2, <1>3, EmptyOK DEF Handling
  <2>2. Remaining(run[r].todo, fsm.state, fsm.data, run[r].seen)'
        /\ Checked(run[r].todo, run[r].seen, fsm.data)'
    BY <1>1, <1>2, <1>4 DEF Remaining, Checked
  <2>3. ASSUME ~torn' PROVE Promise(run[r].todo, Here(r))'
    <3>1. Leads(a, Here(r), [state |-> fsm'.state, data |-> fsm'.data, seen |-> run[r].seen,
                              asked |-> asked', made |-> made'])
      BY <1>1 DEF Leads, Here, Writing
    <3>2. ~torn /\ T # <<>>
      BY <1>1, <2>3
    <3>3. Then(r, U, run[r].seen)
      BY <1>2
    <3>4. Promise(run'[r].todo, Here(r)')
      BY ONLY Inv, r \in Runs, <3>1, <3>2, <3>3, PromiseStep DEF T, a, U
    <3> QED BY <3>4
  <2> QED BY <1>2, <2>1, <2>2, <2>3 DEF Handling
<1> QED BY <1>1, <1>2, <1>3, <1>5, <1>6, <1>7 DEF Inv

\* A reminder is made in, or moved to, the category that was checked just before.
LEMMA ReminderKeeps ==
  ASSUME Inv, NEW r \in Runs, Runs = {r},
         CreateReminder(r) \/ MoveReminder(r) \/ DeleteReminder(r)
  PROVE  Inv'
<1> DEFINE a == Head(run[r].todo)
<1>1. /\ Advance(r) /\ UNCHANGED <<fsm, cats, asked, torn>>
      /\ run[r].todo # <<>> /\ a.op \in {"create", "move", "delete"}
      /\ made' = IF a.op = "create" THEN made + 1 ELSE made
  BY DEF CreateReminder, MoveReminder, DeleteReminder, Doing, Next1, history
<1>2. PICK i, c : /\ rems' = [rems EXCEPT ![i] = c]
                  /\ a.op = "delete" => c = Gone
                  /\ a.op # "delete" => c = a.category
  <2>1. CASE CreateReminder(r)
    BY <2>1 DEF CreateReminder, Doing, Next1
  <2>2. CASE MoveReminder(r)
    BY <2>2 DEF MoveReminder, Doing, Next1
  <2>3. CASE DeleteReminder(r)
    BY <2>3 DEF DeleteReminder, Doing, Next1
  <2> QED BY <2>1, <2>2, <2>3
<1>3. c = Gone \/ LiveCategory(c)
  <2>1. Checked(run[r].todo, run[r].seen, fsm.data)
    BY DEF Inv, Handling
  <2> QED BY <1>1, <1>2, <2>1 DEF Checked
<1>4. TypeOK /\ NoOrphans
  BY DEF Inv
<1> HIDE DEF a
<1>5. rems' \in [Reminders -> {Gone} \cup Categories]
  BY <1>2, <1>3, <1>4 DEF TypeOK, LiveCategory, Categories
<1>6. NoOrphans'
  BY <1>1, <1>2, <1>3, <1>4 DEF NoOrphans, LiveCategory, TypeOK
<1>7. cats' \in [Own -> {Gone} \cup Titles]
  BY <1>1, <1>4 DEF TypeOK
<1> QED BY <1>1, <1>5, <1>6, <1>7, WriteKeeps DEF a, Writing

\* A category is made or renamed with a title, and archived with no reminder
\* in it.
LEMMA CategoryKeeps ==
  ASSUME Inv, NEW r \in Runs, Runs = {r}, WriteCategory(r)
  PROVE  Inv'
<1> DEFINE a == Head(run[r].todo)
           seen == run[r].seen
<1>1. /\ Advance(r) /\ UNCHANGED <<fsm, rems, asked, made, torn>>
      /\ run[r].todo # <<>>
      /\ \/ a.op = "add" /\ \E c \in Own : cats[c] = Gone /\ cats' = [cats EXCEPT ![c] = seen.title]
         \/ a.op = "rename" /\ cats' = [cats EXCEPT ![seen.category_id] = a.title]
         \/ a.op = "archive" /\ cats' = [cats EXCEPT ![a.category] = Gone]
  BY DEF WriteCategory, Doing, Next1, history
<1>2. TypeOK /\ NoOrphans /\ Handling(r)
  BY DEF Inv
<1>3. Checked(run[r].todo, seen, fsm.data)
  BY <1>2 DEF Handling
<1>4. \/ PlainStep(a, Tail(run[r].todo), fsm.state)
      \/ AddStep(a, Tail(run[r].todo), fsm.data, seen)
  <2>1. Remaining(run[r].todo, fsm.state, fsm.data, seen)
    BY <1>2 DEF Handling
  <2>2. \/ PlainStep(a, Tail(run[r].todo), fsm.state)
        \/ fsm.state # "form:emoji" /\ TitleStep(a, Tail(run[r].todo), fsm.data, seen)
        \/ AddStep(a, Tail(run[r].todo), fsm.data, seen)
    BY <1>1, <2>1, RestOf
  <2>3. a.op \notin {"merge", "store", "put"}
    BY <1>1
  <2> HIDE DEF a, seen
  <2>4. ~TitleStep(a, Tail(run[r].todo), fsm.data, seen)
    BY <2>3 DEF TitleStep
  <2> QED BY <2>2, <2>4
<1>5. /\ a.op = "add" => seen.title \in Titles
      /\ a.op = "rename" => a.title \in Titles
      /\ a.op = "archive" => a.category \in Own
  <2>1. CASE PlainStep(a, Tail(run[r].todo), fsm.state)
    BY <2>1, OrdinarySteps DEF PlainStep
  <2>2. CASE AddStep(a, Tail(run[r].todo), fsm.data, seen)
    BY <2>2 DEF AddStep, Titled
  <2> QED BY <1>4, <2>1, <2>2
<1>6. /\ a.op = "rename" => OwnLive(seen.category_id)
      /\ a.op = "archive" => UsedBy(a.category) = {}
  BY <1>1, <1>3 DEF Checked
<1> HIDE DEF a, seen
<1>7. CASE a.op = "add"
  <2>1. PICK c \in Own : cats[c] = Gone /\ cats' = [cats EXCEPT ![c] = seen.title]
    BY <1>1, <1>7
  <2>2. seen.title \in Titles
    BY <1>5, <1>7
  <2>3. /\ cats' \in [Own -> {Gone} \cup Titles]
        /\ \A e \in Own : cats'[e] = IF e = c THEN seen.title ELSE cats[e]
    BY <1>2, <2>1, <2>2 DEF TypeOK
  <2>4. NoOrphans'
    BY <1>1, <1>2, <2>2, <2>3 DEF NoOrphans, LiveCategory
  <2> QED BY <1>1, <1>2, <1>7, <2>3, <2>4, WriteKeeps DEF a, Writing, TypeOK
<1>8. CASE a.op = "rename"
  <2> DEFINE c == seen.category_id
  <2>1. cats' = [cats EXCEPT ![c] = a.title] /\ a.title \in Titles
    BY <1>1, <1>5, <1>8
  <2>2. c \in Own /\ LiveCategory(c)
    BY <1>6, <1>8 DEF OwnLive
  <2> HIDE DEF c
  <2>3. /\ cats' \in [Own -> {Gone} \cup Titles]
        /\ \A e \in Own : cats'[e] = IF e = c THEN a.title ELSE cats[e]
    BY <1>2, <2>1, <2>2 DEF TypeOK
  <2>4. NoOrphans'
    BY <1>1, <1>2, <2>1, <2>2, <2>3 DEF NoOrphans, LiveCategory
  <2> QED BY <1>1, <1>2, <1>8, <2>3, <2>4, WriteKeeps DEF a, Writing, TypeOK
<1>9. CASE a.op = "archive"
  <2> DEFINE c == a.category
  <2>1. cats' = [cats EXCEPT ![c] = Gone] /\ c \in Own /\ \A i \in Reminders : rems[i] # c
    BY <1>1, <1>5, <1>6, <1>9 DEF UsedBy
  <2> HIDE DEF c
  <2>2. /\ cats' \in [Own -> {Gone} \cup Titles]
        /\ \A e \in Own : cats'[e] = IF e = c THEN Gone ELSE cats[e]
    BY <1>2, <2>1 DEF TypeOK
  <2>3. NoOrphans'
    BY <1>1, <1>2, <2>1, <2>2 DEF NoOrphans, LiveCategory
  <2> QED BY <1>1, <1>2, <1>9, <2>2, <2>3, WriteKeeps DEF a, Writing, TypeOK
<1> QED BY <1>1, <1>7, <1>8, <1>9

---------------------------------------------------------------------------
(* Building scripts from their end.                                        *)

\* A script that may start, or follow a step that checks nothing.
Sound(T) ==
  /\ T \in Seq(Ordinary) /\ Linked(T)
  /\ T # <<>> => Head(T).op \notin {"create", "move", "archive", "rename"} /\ Head(T) # Opening

\* In state s, with data d, having read v, asked about q and made m reminders,
\* script T keeps its promise.
Keeps(T, s, d, v, q, m) ==
  \A c : /\ c.state = s /\ c.data = d /\ c.seen = v /\ c.asked = q /\ c.made = m
         => Promise(T, c)

LEMMA SoundFrom ==
  ASSUME NEW a \in Ordinary, NEW T, Sound(T), a # Opening, a # Emptying,
         a.op \notin {"create", "move", "archive", "rename"}
  PROVE  /\ Sound(<<a>> \o T) /\ <<a>> \o T # <<>>
         /\ a \in Harmless /\ T \in Seq(Harmless) => <<a>> \o T \in Seq(Harmless)
<1>1. T \in Seq(Ordinary) /\ Linked(T)
  BY DEF Sound
<1>2. /\ <<a>> \o T \in Seq(Ordinary) /\ <<a>> \o T # <<>>
      /\ Head(<<a>> \o T) = a
  BY <1>1, Joined
<1>3. T # <<>> => Follows(a, Head(T))
  BY DEF Sound, Follows
<1>4. Linked(<<a>> \o T)
  BY <1>1, <1>3, LinkedFrom
<1>5. a \in Harmless /\ T \in Seq(Harmless) => <<a>> \o T \in Seq(Harmless)
  BY Joined
<1> QED BY <1>2, <1>4, <1>5 DEF Sound

\* A write behind its check.
LEMMA SoundWrite ==
  ASSUME NEW a \in Ordinary, NEW b \in Ordinary, NEW T, Sound(T), Follows(a, b),
         a # Opening, a # Emptying, b # Opening, b # Emptying,
         a.op \notin {"create", "move", "archive", "rename"}
  PROVE  Sound(<<a>> \o (<<b>> \o T)) /\ <<a>> \o (<<b>> \o T) # <<>>
<1> DEFINE U == <<b>> \o T
<1>1. T \in Seq(Ordinary) /\ Linked(T)
  BY DEF Sound
<1>2. U \in Seq(Ordinary) /\ Head(U) = b
  BY <1>1, Joined
<1>3. T # <<>> => Follows(b, Head(T))
  BY DEF Sound, Follows
<1>4. Linked(U)
  BY <1>1, <1>3, LinkedFrom
<1> HIDE DEF U
<1>5. Linked(<<a>> \o U)
  BY <1>2, <1>4, LinkedFrom
<1>6. <<a>> \o U \in Seq(Ordinary) /\ <<a>> \o U # <<>> /\ Head(<<a>> \o U) = a
  BY <1>2, Joined
<1>7. Sound(<<a>> \o U) /\ <<a>> \o U # <<>>
  BY <1>5, <1>6 DEF Sound
<1> QED BY <1>7 DEF U

\* A check keeps the promise if the question on the screen can be answered now.
LEMMA KeepsCheck ==
  ASSUME NEW a, a.op \in Stopping \ {"finish"}, NEW T \in Seq(Steps), a \in Steps,
         NEW s, NEW d, NEW v, NEW q, Answerable(s, d, q),
         (a.op = "nonempty" => IsSet(v, a.key)) => Keeps(T, s, d, v, q, 0)
  PROVE  Keeps(<<a>> \o T, s, d, v, q, 0)
<1> SUFFICES ASSUME NEW c, c.state = s, c.data = d, c.seen = v, c.asked = q, c.made = 0
             PROVE  Promise(<<a>> \o T, c)
  BY DEF Keeps
<1>1. Good(c) /\ c.made <= 1
  BY DEF Good
<1>2. ASSUME NEW e, Leads(a, c, e) PROVE Promise(T, e)
  <2>1. /\ e.state = s /\ e.data = d /\ e.seen = v /\ e.asked = q /\ e.made = 0
        /\ a.op = "nonempty" => IsSet(v, a.key)
    BY <1>2 DEF Leads, Stopping
  <2> QED BY <2>1 DEF Keeps
<1> QED BY <1>1, <1>2, PromiseFrom

\* A reminder is made or moved, or a category or reminder goes.
LEMMA KeepsWrite ==
  ASSUME NEW a, a.op \in {"create", "move", "delete", "rename", "archive", "add"},
         NEW T \in Seq(Steps), a \in Steps,
         NEW s, NEW d, NEW v, NEW q,
         NEW n, n = (IF a.op = "create" THEN 1 ELSE 0), Keeps(T, s, d, v, q, n)
  PROVE  Keeps(<<a>> \o T, s, d, v, q, 0)
<1> SUFFICES ASSUME NEW c, c.state = s, c.data = d, c.seen = v, c.asked = q, c.made = 0
             PROVE  Promise(<<a>> \o T, c)
  BY DEF Keeps
<1>1. a.op \notin Stopping /\ c.made <= 1
  BY DEF Stopping
<1>2. ASSUME NEW e, Leads(a, c, e) PROVE Promise(T, e)
  <2>1. /\ e.state = s /\ e.data = d /\ e.seen = v /\ e.asked = q
        /\ e.made = n
    BY <1>2 DEF Leads
  <2> QED BY <2>1 DEF Keeps
<1> QED BY <1>1, <1>2, PromiseFrom

LEMMA OrdinaryIsStep == Ordinary \subseteq Steps /\ Harmless \subseteq Ordinary
                        /\ \A T \in Seq(Ordinary) : T \in Seq(Steps)
<1>1. Ordinary \subseteq Steps /\ Harmless \subseteq Ordinary
  BY DEF Steps, Ordinary
<1>2. Seq(Ordinary) \subseteq Seq(Steps)
  BY <1>1, SeqMonotonic
<1> QED BY <1>1, <1>2

\* What the last question of the wizard grows into.
LEMMA FinishOK ==
  ASSUME NEW v, DataOK(v), NEW U, Sound(U),
         NEW s, NEW d, NEW q
  PROVE  LET T == Finish(v) \o U IN
         /\ Sound(T) /\ T # <<>>
         /\ /\ Answerable(s, d, q) /\ Keeps(U, s, d, v, q, 0) /\ Keeps(U, s, d, v, q, 1)
            => Keeps(T, s, d, v, q, 0)
<1> DEFINE n(ks) == [op |-> "need", keys |-> ks]
           y == [op |-> "try"]
           e == [op |-> "editable", reminder |-> v["edit_reminder_id"]]
           l == [op |-> "live", category |-> v["category_id"]]
           w == [op |-> "create", category |-> v["category_id"]]
           ka == {"schedule"}
           kb == {"category_id", "title", "schedule"}
<1>1. /\ n(ka) \in Ordinary /\ n(kb) \in Ordinary /\ y \in Ordinary
      /\ "edit_reminder_id" \in DOMAIN v => e \in Ordinary
      /\ "category_id" \in DOMAIN v => l \in Ordinary /\ w \in Ordinary
  BY DEF Ordinary, Harmless, Keys, DataOK
<1>2. \A x \in {n(ka), n(kb), y, e, l, w} : x # Opening /\ x # Emptying
  BY DEF Opening, Emptying
<1>3. /\ \A ks : n(ks).op = "need"
      /\ y.op = "try" /\ e.op = "editable" /\ l.op = "live"
      /\ w.op = "create" /\ Follows(l, w)
  BY <1>2 DEF Follows
<1>4. Finish(v) = IF "edit_reminder_id" \in DOMAIN v
                  THEN <<n(ka)>> \o <<e>> \o <<y>>
                  ELSE <<n(kb)>> \o <<y>>
                       \o (IF "category_id" \in DOMAIN v THEN <<l>> \o <<w>> ELSE <<>>)
  BY DEF Finish, Need, Editable, Try, Live, Do
<1>5. U \in Seq(Ordinary) /\ U \in Seq(Steps) /\ Ordinary \subseteq Steps
  BY OrdinaryIsStep DEF Sound
<1> HIDE DEF n, y, e, l, w, ka, kb
<1>6. /\ Sound(<<y>> \o U) /\ <<y>> \o U \in Seq(Ordinary) /\ <<y>> \o U \in Seq(Steps)
      /\ Answerable(s, d, q) /\ Keeps(U, s, d, v, q, 0) => Keeps(<<y>> \o U, s, d, v, q, 0)
  <2>1. Sound(<<y>> \o U)
    BY <1>1, <1>2, <1>3, SoundFrom
  <2>2. Answerable(s, d, q) /\ Keeps(U, s, d, v, q, 0) => Keeps(<<y>> \o U, s, d, v, q, 0)
    BY <1>1, <1>3, <1>5, KeepsCheck DEF Stopping
  <2> QED BY <2>1, <2>2, OrdinaryIsStep DEF Sound
<1>7. CASE "edit_reminder_id" \in DOMAIN v
  <2> DEFINE V == <<y>> \o U
             W == <<e>> \o V
  <2>1. Finish(v) \o U = <<n(ka)>> \o W
    BY <1>1, <1>4, <1>5, <1>7, ConcatAssociative
  <2> HIDE DEF V
  <2>2. /\ V \in Seq(Steps) /\ Sound(V)
        /\ Answerable(s, d, q) /\ Keeps(U, s, d, v, q, 0) => Keeps(V, s, d, v, q, 0)
    BY <1>6 DEF V
  <2>3. Sound(W) /\ W \in Seq(Steps)
    BY <1>1, <1>2, <1>3, <1>7, <2>2, SoundFrom, OrdinaryIsStep DEF Sound
  <2>4. Answerable(s, d, q) /\ Keeps(U, s, d, v, q, 0) => Keeps(W, s, d, v, q, 0)
    BY <1>1, <1>3, <1>5, <1>7, <2>2, KeepsCheck DEF Stopping
  <2> HIDE DEF W
  <2>5. Sound(<<n(ka)>> \o W) /\ <<n(ka)>> \o W # <<>>
    BY <1>1, <1>2, <1>3, <2>3, SoundFrom
  <2>6. Answerable(s, d, q) /\ Keeps(U, s, d, v, q, 0) => Keeps(<<n(ka)>> \o W, s, d, v, q, 0)
    BY <1>1, <1>3, <1>5, <2>3, <2>4, KeepsCheck DEF Stopping
  <2> QED BY <2>1, <2>5, <2>6
<1>8. CASE "edit_reminder_id" \notin DOMAIN v /\ "category_id" \in DOMAIN v
  <2> DEFINE X == <<w>> \o U
             V == <<l>> \o X
             W == <<y>> \o V
  <2>1. Finish(v) \o U = <<n(kb)>> \o W
    BY <1>1, <1>4, <1>5, <1>8, ConcatAssociative
  <2>2. Sound(V) /\ V \in Seq(Steps) /\ X \in Seq(Steps)
    BY <1>1, <1>2, <1>3, <1>5, <1>8, SoundWrite, OrdinaryIsStep DEF Sound
  <2>3. Keeps(U, s, d, v, q, 1) => Keeps(X, s, d, v, q, 0)
    BY <1>1, <1>3, <1>5, <1>8, KeepsWrite
  <2> HIDE DEF X
  <2>4. Answerable(s, d, q) /\ Keeps(U, s, d, v, q, 1) => Keeps(V, s, d, v, q, 0)
    BY <1>1, <1>3, <1>5, <1>8, <2>2, <2>3, KeepsCheck DEF Stopping
  <2> HIDE DEF V
  <2>5. Sound(W) /\ W \in Seq(Steps)
    BY <1>1, <1>2, <1>3, <2>2, SoundFrom, OrdinaryIsStep DEF Sound
  <2>6. Answerable(s, d, q) /\ Keeps(U, s, d, v, q, 1) => Keeps(W, s, d, v, q, 0)
    BY <1>1, <1>3, <1>5, <2>2, <2>4, KeepsCheck DEF Stopping
  <2> HIDE DEF W
  <2>7. Sound(<<n(kb)>> \o W) /\ <<n(kb)>> \o W # <<>>
    BY <1>1, <1>2, <1>3, <2>5, SoundFrom
  <2>8. Answerable(s, d, q) /\ Keeps(U, s, d, v, q, 1) => Keeps(<<n(kb)>> \o W, s, d, v, q, 0)
    BY <1>1, <1>3, <1>5, <2>5, <2>6, KeepsCheck DEF Stopping
  <2> QED BY <2>1, <2>7, <2>8
<1>9. CASE "edit_reminder_id" \notin DOMAIN v /\ "category_id" \notin DOMAIN v
  <2> DEFINE W == <<y>> \o U
  <2>1. Finish(v) \o U = <<n(kb)>> \o W
    BY <1>1, <1>4, <1>5, <1>9, ConcatAssociative
  <2> HIDE DEF W
  <2>2. /\ W \in Seq(Steps) /\ Sound(W)
        /\ Answerable(s, d, q) /\ Keeps(U, s, d, v, q, 0) => Keeps(W, s, d, v, q, 0)
    BY <1>6 DEF W
  <2>3. Sound(<<n(kb)>> \o W) /\ <<n(kb)>> \o W # <<>>
    BY <1>1, <1>2, <1>3, <2>2, SoundFrom
  <2>4. Answerable(s, d, q) /\ Keeps(U, s, d, v, q, 0) => Keeps(<<n(kb)>> \o W, s, d, v, q, 0)
    BY <1>1, <1>3, <1>5, <2>2, KeepsCheck DEF Stopping
  <2> QED BY <2>1, <2>3, <2>4
<1> QED BY <1>7, <1>8, <1>9

\* The branch between update and create adds steps that keep the promise.
LEMMA BranchKeeps ==
  ASSUME Inv, NEW r \in Runs, Runs = {r}, Branch(r)
  PROVE  Inv'
<1> DEFINE T == run[r].todo
           a == Head(T)
           U == Tail(T)
           v == run[r].seen
           W == Finish(v) \o U
<1>1. /\ T # <<>> /\ a.op = "finish"
      /\ UNCHANGED <<fsm, cats, rems, asked, made, torn>>
  BY DEF Branch, Doing, Next1, history
<1>2. /\ TypeOK /\ Chat /\ Handling(r) /\ DataOK(v)
  BY DEF Inv, Handling
<1>3. PlainStep(a, U, fsm.state)
  <2>1. Remaining(T, fsm.state, fsm.data, v)
    BY <1>2 DEF Handling
  <2>2. \/ PlainStep(a, U, fsm.state)
        \/ fsm.state # "form:emoji" /\ TitleStep(a, U, fsm.data, v)
        \/ AddStep(a, U, fsm.data, v)
    BY <1>1, <2>1, RestOf
  <2> HIDE DEF T, a, U, v
  <2>3. ~TitleStep(a, U, fsm.data, v) /\ ~AddStep(a, U, fsm.data, v)
    BY <1>1 DEF TitleStep, AddStep
  <2> QED BY <2>2, <2>3
<1> HIDE DEF a, U
<1>4. Sound(U) /\ fsm.state # "form:emoji"
  <2>1. U # <<>> => /\ Head(U).op \notin {"create", "move", "archive", "rename"}
                    /\ Head(U) # Opening
    BY <1>1, <1>3, UncheckedNext DEF Emptying
  <2>2. a \in Ordinary /\ (fsm.state = "form:emoji" => a \in Harmless)
    BY <1>3 DEF PlainStep
  <2>3. fsm.state # "form:emoji"
    BY <1>1, <2>2, OrdinarySteps
  <2> QED BY <1>3, <2>1, <2>3 DEF Sound, PlainStep
<1>5. /\ Sound(W) /\ W # <<>>
      /\ /\ Answerable(fsm.state, fsm.data, asked)
         /\ Keeps(U, fsm.state, fsm.data, v, asked, 0)
         /\ Keeps(U, fsm.state, fsm.data, v, asked, 1)
         => Keeps(W, fsm.state, fsm.data, v, asked, 0)
  BY <1>2, <1>4, FinishOK
<1>6. /\ run' = [q \in Runs |-> run'[q]]
      /\ run'[r] = [todo |-> run'[r].todo, seen |-> run'[r].seen]
      /\ run'[r].todo = W /\ run'[r].seen = v
  <2>1. run' = [run EXCEPT ![r] = [todo |-> W, seen |-> v]]
    BY <1>5 DEF Branch, Then, U, T
  <2> HIDE DEF W, v
  <2> QED BY <2>1 DEF Inv
<1>7. ASSUME ~torn PROVE Keeps(W, fsm.state, fsm.data, v, asked, 0)
  <2>1. Good(Here(r)) /\ made = 0
    BY <1>1, <1>7, PromiseStop DEF T, a, Stopping
  <2>2. T \in Seq(Steps) /\ Promise(T, Here(r))
    BY <1>2, <1>7, ScriptSeq DEF Handling
  <2>3. ASSUME NEW c, c.state = fsm.state, c.data = fsm.data, c.seen = v, c.asked = asked,
               c.made \in {0, 1}
        PROVE  Promise(U, c)
    <3>1. Leads(a, Here(r), c)
      BY <1>1, <2>1, <2>3 DEF Leads, Here
    <3> QED BY <1>1, <2>2, <3>1, PromiseNext DEF a, U
  <2>4. /\ Keeps(U, fsm.state, fsm.data, v, asked, 0)
        /\ Keeps(U, fsm.state, fsm.data, v, asked, 1)
    BY <2>3 DEF Keeps
  <2>5. Answerable(fsm.state, fsm.data, asked)
    BY <2>1 DEF Good, Here
  <2> QED BY <1>5, <2>4, <2>5
<1> HIDE DEF T, v, W
<1>8. TypeOK' /\ Chat'
  BY <1>1, <1>2, <1>5, <1>6 DEF TypeOK, Chat
<1>9. Handling(r)'
  <2>1. DataOK(run'[r].seen) /\ (asked' = Opened => NoEdit(run'[r].seen))
    BY <1>1, <1>2, <1>6 DEF Handling, v
  <2>2. Remaining(run[r].todo, fsm.state, fsm.data, run[r].seen)'
        /\ Checked(run[r].todo, run[r].seen, fsm.data)'
    BY <1>1, <1>4, <1>5, <1>6 DEF Remaining, Checked, Sound, Plain
  <2>3. ASSUME ~torn' PROVE Promise(run[r].todo, Here(r))'
    <3>1. Keeps(W, fsm.state, fsm.data, v, asked, 0)
      BY <1>1, <1>7, <2>3
    <3>2. made = 0
      BY <1>1, <2>3, PromiseStop DEF T, a, Stopping
    <3>3. Promise(W, Here(r)')
      BY <1>1, <1>6, <3>1, <3>2 DEF Keeps, Here
    <3> QED BY <1>6, <3>3
  <2> QED BY <1>6, <2>1, <2>2, <2>3 DEF Handling
<1> QED BY <1>1, <1>2, <1>6, <1>8, <1>9 DEF Inv, NoOrphans, LiveCategory

---------------------------------------------------------------------------
(* Around the handlers.                                                    *)

\* What a handler has left when the chat around it changes.
LEMMA AtRest ==
  ASSUME Inv, NEW r \in Runs, Runs = {r}
  PROVE  InFlight <=> run[r].todo # <<>>
BY DEF Inv, TypeOK, Handling, InFlight, Idle

LEMMA EndsKeeps ==
  ASSUME Inv, NEW r \in Runs, Runs = {r}, ReminderEnds
  PROVE  Inv'
<1>1. PICK i \in Reminders : rems' = [rems EXCEPT ![i] = Gone]
  BY DEF ReminderEnds
<1>2. /\ UNCHANGED <<fsm, cats, run, asked, made, torn>>
      /\ TypeOK /\ Chat /\ NoOrphans /\ Handling(r)
      /\ run = [q \in Runs |-> run[q]]
  BY DEF ReminderEnds, Inv, history
<1>3. TypeOK'
  BY <1>1, <1>2 DEF TypeOK
<1>4. NoOrphans' /\ Chat'
  BY <1>1, <1>2 DEF NoOrphans, LiveCategory, TypeOK, Chat
<1>5. Handling(r)'
  <2>1. ASSUME NEW c \in Own, UsedBy(c) = {} PROVE UsedBy(c)' = {}
    BY <1>1, <1>2, <2>1, IdentifiersAssumption DEF UsedBy, TypeOK, Gone
  <2>2. Checked(run[r].todo, run[r].seen, fsm.data)'
    <3> DEFINE T == run[r].todo
    <3>1. Checked(T, run[r].seen, fsm.data)
      BY <1>2 DEF Handling
    <3>2. T # <<>> /\ Head(T).op = "archive" => Head(T).category \in Own
      <4>1. Remaining(T, fsm.state, fsm.data, run[r].seen)
        BY <1>2 DEF Handling
      <4> HIDE DEF T
      <4>2. ASSUME T # <<>>, Head(T).op = "archive"
            PROVE  PlainStep(Head(T), Tail(T), fsm.state)
        <5> DEFINE a == Head(T)
                   U == Tail(T)
        <5>1. \/ PlainStep(a, U, fsm.state)
              \/ fsm.state # "form:emoji" /\ TitleStep(a, U, fsm.data, run[r].seen)
              \/ AddStep(a, U, fsm.data, run[r].seen)
          BY <4>1, <4>2, RestOf
        <5>2. a.op = "archive"
          BY <4>2
        <5> HIDE DEF a, U
        <5>3. ~TitleStep(a, U, fsm.data, run[r].seen) /\ ~AddStep(a, U, fsm.data, run[r].seen)
          BY <5>2 DEF TitleStep, AddStep
        <5> QED BY <5>1, <5>3 DEF a, U
      <4> QED BY <4>2, OrdinarySteps DEF PlainStep
    <3> HIDE DEF T
    <3>3. Checked(T, run[r].seen, fsm.data)'
      BY <1>2, <2>1, <3>1, <3>2 DEF Checked, LiveCategory, OwnLive, T
    <3> QED BY <3>3 DEF T
  <2>3. Remaining(run[r].todo, fsm.state, fsm.data, run[r].seen)'
    BY <1>2 DEF Handling, Remaining, AddsCategory, LiveCategory
  <2>4. (~torn => Promise(run[r].todo, Here(r)))'
    BY <1>2 DEF Handling, Here
  <2> QED BY <1>2, <2>2, <2>3, <2>4 DEF Handling
<1> QED BY <1>2, <1>3, <1>4, <1>5 DEF Inv

\* A row that grows old, or a step that changes nothing, is as good as before.
LEMMA AgeKeeps ==
  ASSUME Inv, NEW r \in Runs, Runs = {r}, Age \/ UNCHANGED vars
  PROVE  Inv'
<1>1. /\ UNCHANGED <<cats, rems, run, asked, made, torn>>
      /\ fsm' = [state |-> fsm.state, data |-> fsm.data, old |-> fsm'.old]
      /\ fsm'.old \in BOOLEAN
  <2>1. CASE Age
    BY <2>1 DEF Age, Inv, Chat, history
  <2>2. CASE UNCHANGED vars
    BY <2>2 DEF vars, Inv, Chat, TypeOK, history
  <2> QED BY <2>1, <2>2
<1>2. /\ TypeOK /\ Chat /\ NoOrphans /\ Handling(r)
      /\ run = [q \in Runs |-> run[q]]
  BY DEF Inv
<1>3. fsm'.state = fsm.state /\ fsm'.data = fsm.data
  BY <1>1
<1>4. TypeOK' /\ Chat'
  <2>1. fsm' = [state |-> fsm'.state, data |-> fsm'.data, old |-> fsm'.old]
    BY <1>1
  <2> QED BY <1>1, <1>2, <1>3, <2>1 DEF TypeOK, Chat
<1>5. NoOrphans'
  BY <1>1, <1>2 DEF NoOrphans, LiveCategory
<1>6. Handling(r)'
  <2>1. Remaining(run[r].todo, fsm.state, fsm.data, run[r].seen)'
    BY <1>1, <1>2, <1>3 DEF Handling, Remaining, AddsCategory, LiveCategory
  <2>2. Checked(run[r].todo, run[r].seen, fsm.data)'
    BY <1>1, <1>2, <1>3 DEF Handling, Checked, LiveCategory, UsedBy, OwnLive
  <2>3. (~torn => Promise(run[r].todo, Here(r)))'
    BY <1>1, <1>2, <1>3 DEF Handling, Here
  <2> QED BY <1>1, <1>2, <2>1, <2>2, <2>3 DEF Handling
<1> QED BY <1>1, <1>2, <1>4, <1>5, <1>6 DEF Inv

\* The purge of the row leaves a handler that was routed by it with a script
\* that still checks before it writes.
LEMMA PurgeKeeps ==
  ASSUME Inv, NEW r \in Runs, Runs = {r}, Purge
  PROVE  Inv'
<1>1. /\ UNCHANGED <<cats, rems, run>> /\ fsm' = Fresh /\ asked' = Nothing
      /\ torn' = InFlight /\ made' = IF InFlight THEN made ELSE 0
  BY DEF Purge
<1>2. /\ TypeOK /\ Chat /\ NoOrphans /\ Handling(r)
      /\ run = [q \in Runs |-> run[q]]
  BY DEF Inv
<1>3. /\ fsm' = [state |-> fsm'.state, data |-> fsm'.data, old |-> fsm'.old]
      /\ fsm'.state = None /\ fsm'.data = Empty /\ fsm'.old = FALSE
  BY <1>1 DEF Fresh
<1>4. TypeOK' /\ Chat'
  <2>1. None \in States /\ None # "form:emoji"
    BY DEF States, None
  <2>2. fsm'.state \in States /\ fsm'.old \in BOOLEAN
        /\ \A k \in DOMAIN fsm'.data \cap Lists : fsm'.data[k] \in BOOLEAN
    BY <1>3, <2>1, EmptyOK DEF DataOK
  <2>3. torn' \in BOOLEAN
    BY <1>1, Zenon DEF InFlight
  <2>4. made' \in Nat
    BY <1>1, <1>2 DEF TypeOK
  <2>5. asked' \in {Nothing, Opened} \cup {Editing(i) : i \in Reminders}
    BY <1>1
  <2>6. /\ cats' \in [Own -> {Gone} \cup Titles] /\ rems' \in [Reminders -> {Gone} \cup Categories]
        /\ \A q \in Runs : run'[q].todo = <<>> => run'[q].seen = Empty
    BY <1>1, <1>2 DEF TypeOK
  <2>7. TypeOK'
    BY <2>2, <2>3, <2>4, <2>5, <2>6 DEF TypeOK
  <2>8. Chat'
    BY <1>1, <1>3, <2>1, EmptyOK DEF Chat
  <2> QED BY <2>7, <2>8
<1>5. NoOrphans'
  BY <1>1, <1>2 DEF NoOrphans, LiveCategory
<1>6. Handling(r)'
  <2>1. Remaining(run[r].todo, fsm.state, fsm.data, run[r].seen)'
    <3> DEFINE T == run[r].todo
               v == run[r].seen
    <3>1. Remaining(T, fsm.state, fsm.data, v)
      BY <1>2 DEF Handling
    <3>2. None # "form:emoji" /\ Titled(Empty)
      BY EmptyOK DEF None
    <3> HIDE DEF T, v
    <3>3. Plain(T, fsm.state) => Plain(T, None)
      BY <3>2 DEF Plain
    <3>4. TakesTitle(T, fsm.data, v) => TakesTitle(T, Empty, v)
      BY <3>2 DEF TakesTitle
    <3>5. AddsCategory(T, fsm.data, v) => AddsCategory(T, Empty, v)
      BY <3>2 DEF AddsCategory
    <3>6. Remaining(T, None, Empty, v)
      BY <3>1, <3>2, <3>3, <3>4, <3>5 DEF Remaining
    <3> QED BY <1>1, <1>3, <3>6 DEF T, v, Remaining, AddsCategory
  <2>2. Checked(run[r].todo, run[r].seen, fsm.data)'
    BY <1>1, <1>2, <1>3 DEF Handling, Checked, LiveCategory, UsedBy, OwnLive
  <2>3. ASSUME ~torn' PROVE Promise(run[r].todo, Here(r))'
    <3>1. ~InFlight
      BY <1>1, <2>3
    <3>2. run[r].todo = <<>> /\ made' = 0
      BY <1>1, <3>1, AtRest
    <3>3. LET h == Here(r)' IN h.state = None /\ h.data = Empty /\ h.made = 0
      BY <1>3, <3>2 DEF Here
    <3>4. Promise(<<>>, Here(r)')
      BY <3>3, Recovered
    <3> QED BY <1>1, <3>2, <3>4
  <2>4. asked' # Opened
    BY <1>1 DEF Nothing, Opened
  <2> QED BY <1>1, <1>2, <2>1, <2>2, <2>3, <2>4 DEF Handling
<1> QED BY <1>1, <1>2, <1>4, <1>5, <1>6 DEF Inv

LEMMA CrashKeeps ==
  ASSUME Inv, NEW r \in Runs, Runs = {r}, Crash
  PROVE  Inv'
<1>1. /\ UNCHANGED <<fsm, cats, rems, asked, made>> /\ torn' = TRUE
      /\ run' = [q \in Runs |-> Idle]
  BY DEF Crash
<1>2. TypeOK /\ Chat /\ NoOrphans
  BY DEF Inv
<1>3. TypeOK' /\ Chat' /\ NoOrphans'
  BY <1>1, <1>2 DEF TypeOK, Chat, NoOrphans, LiveCategory, Idle
<1>4. Handling(r)'
  <2>1. run'[r] = Idle /\ Plain(<<>>, fsm'.state)
    BY <1>1, NothingLeft
  <2> QED BY <1>1, <2>1, EmptyOK DEF Handling, Idle, Remaining, Checked
<1> QED BY <1>1, <1>3, <1>4 DEF Inv

LEMMA InitInv ==
  ASSUME Init, NEW r \in Runs, Runs = {r}
  PROVE  Inv
<1>1. /\ fsm = [state |-> None, data |-> Empty, old |-> FALSE]
      /\ cats = [c \in Own |-> Gone] /\ rems = [i \in Reminders |-> Gone]
      /\ run = [q \in Runs |-> Idle] /\ asked = Nothing /\ made = 0 /\ torn = FALSE
  BY DEF Init, Fresh
<1>2. None \in States /\ None # "form:emoji" /\ Nothing # Opened
  BY DEF States, None, Nothing, Opened
<1>3. TypeOK /\ Chat
  BY <1>1, <1>2, EmptyOK DEF TypeOK, Chat, DataOK, Idle
<1>4. NoOrphans
  BY <1>1, IdentifiersAssumption DEF NoOrphans, LiveCategory, Gone, System
<1>5. Handling(r)
  <2>1. run[r] = Idle /\ Plain(<<>>, fsm.state)
    BY <1>1, NothingLeft
  <2>2. Promise(<<>>, Here(r))
    BY <1>1, Recovered DEF Here
  <2> QED BY <1>1, <1>2, <2>1, <2>2, EmptyOK DEF Handling, Idle, Remaining, Checked
<1> QED BY <1>1, <1>3, <1>4, <1>5 DEF Inv

---------------------------------------------------------------------------
(* A handler starts.                                                       *)

\* Script T may be started in state s.
Starts(T, s) ==
  /\ Sound(T) /\ T # <<>>
  /\ s = "form:emoji" => T \in Seq(Harmless)
  /\ \A d, v, q : Answerable(s, d, q) => Keeps(T, s, d, v, q, 0)

LEMMA HandleKeeps ==
  ASSUME Inv, NEW r \in Runs, Runs = {r}, NEW from, NEW T, Handle(r, from, T), T # <<>>,
         Remaining(T, fsm.state, fsm.data, Empty),
         Head(T).op \notin {"create", "move", "archive", "rename"}, Head(T) # Opening,
         Answerable(fsm.state, fsm.data, asked) => Keeps(T, fsm.state, fsm.data, Empty, asked, 0)
  PROVE  Inv'
<1>1. /\ UNCHANGED <<fsm, cats, rems, asked, made, torn>>
      /\ run[r] = Idle /\ run' = [run EXCEPT ![r].todo = T]
  BY DEF Handle, history
<1>2. /\ TypeOK /\ Chat /\ NoOrphans /\ Handling(r)
      /\ run = [q \in Runs |-> run[q]]
  BY DEF Inv
<1>3. /\ run' = [q \in Runs |-> run'[q]]
      /\ run'[r] = [todo |-> run'[r].todo, seen |-> run'[r].seen]
      /\ run'[r].todo = T /\ run'[r].seen = Empty
  <2>1. run' = [q \in Runs |-> IF q = r THEN [run[r] EXCEPT !.todo = T] ELSE run[q]]
    BY <1>1, <1>2
  <2>2. run[r] = [todo |-> <<>>, seen |-> Empty]
    BY <1>1 DEF Idle
  <2>3. [run[r] EXCEPT !.todo = T] = [todo |-> T, seen |-> Empty]
    BY <2>2
  <2>4. run'[r] = [todo |-> T, seen |-> Empty]
    BY <2>1, <2>3
  <2> QED BY <2>1, <2>4
<1>4. TypeOK' /\ Chat' /\ NoOrphans'
  BY <1>1, <1>2, <1>3 DEF TypeOK, Chat, NoOrphans, LiveCategory
<1>5. Remaining(run[r].todo, fsm.state, fsm.data, run[r].seen)'
  BY <1>1, <1>3 DEF Remaining, AddsCategory
<1>6. Checked(run[r].todo, run[r].seen, fsm.data)'
  BY <1>3 DEF Checked
<1>7. ASSUME ~torn' PROVE Promise(run[r].todo, Here(r))'
  <2>1. run[r].todo = <<>> /\ ~torn
    BY <1>1, <1>7 DEF Idle
  <2>2. Good(Here(r)) /\ made = 0
    BY <2>1, PromiseRest
  <2>3. Keeps(T, fsm.state, fsm.data, Empty, asked, 0)
    BY <2>2 DEF Good, Here
  <2>4. Promise(T, Here(r)')
    BY <1>1, <1>3, <2>2, <2>3 DEF Keeps, Here
  <2> QED BY <1>3, <2>4
<1>8. Handling(r)'
  BY <1>3, <1>5, <1>6, <1>7, EmptyOK DEF Handling
<1> QED BY <1>3, <1>4, <1>8 DEF Inv

LEMMA StartKeeps ==
  ASSUME Inv, NEW r \in Runs, Runs = {r}, NEW from, NEW T, Handle(r, from, T),
         \A s \in from : Starts(T, s)
  PROVE  Inv'
<1>1. Starts(T, fsm.state)
  BY DEF Handle
<1>2. Remaining(T, fsm.state, fsm.data, Empty)
  BY <1>1 DEF Starts, Sound, Plain, Remaining
<1> QED BY <1>1, <1>2, HandleKeeps DEF Starts, Sound

---------------------------------------------------------------------------
(* The commits scripts are built from.                                     *)

LEMMA KeepsDone ==
  ASSUME NEW s, NEW d, NEW v, NEW q, Answerable(s, d, q)
  PROVE  Keeps(<<>>, s, d, v, q, 0)
BY PromiseDone DEF Keeps, Good

\* A step that writes or reads the chat's row leads on from what it leaves.
LEMMA KeepsStep ==
  ASSUME NEW a \in Steps, NEW T \in Seq(Steps), a.op \in {"put", "replace", "read", "merge", "store"},
         NEW s, NEW d, NEW v, NEW q, NEW m \in {0, 1},
         NEW t, t = (IF a.op = "put" THEN a.to ELSE s),
         NEW e, e = (IF a.op = "replace" THEN a.with ELSE IF a.op = "store" THEN v ELSE d),
         NEW w, w = (IF a.op = "read" THEN d ELSE IF a.op = "merge" THEN Over(a.with, d) ELSE v),
         NEW p, p = (IF a.op \in {"put", "replace"} /\ a.asks # Same THEN a.asks ELSE q),
         NEW n, n = (IF \/ a.op = "put" /\ a.asks = Opened
                        \/ a.op = "replace" /\ a.with = Empty /\ s = None THEN 0 ELSE m),
         Keeps(T, t, e, w, p, n)
  PROVE  Keeps(<<a>> \o T, s, d, v, q, m)
<1> SUFFICES ASSUME NEW c, c.state = s, c.data = d, c.seen = v, c.asked = q, c.made = m
             PROVE  Promise(<<a>> \o T, c)
  BY DEF Keeps
<1>1. a.op \notin Stopping /\ c.made <= 1
  BY DEF Stopping
<1>2. ASSUME NEW b, Leads(a, c, b) PROVE Promise(T, b)
  <2>1. b.state = t /\ b.data = e /\ b.seen = w
    BY <1>2 DEF Leads
  <2>2. b.asked = p
    BY <1>2 DEF Leads
  <2>3. b.made = n
    BY <1>2 DEF Leads
  <2> QED BY <2>1, <2>2, <2>3 DEF Keeps
<1> QED BY <1>1, <1>2, PromiseFrom

LEMMA NothingSound == Sound(<<>>) /\ <<>> \in Seq(Harmless) /\ <<>> \in Seq(Steps)
BY LinkedShort DEF Sound

LEMMA PutThen ==
  ASSUME NEW t \in States \ {"form:emoji"}, NEW x \in Asks \ {Opened}, NEW T, Sound(T)
  PROVE  LET U == PutAsking(t, x) \o T IN
         /\ Sound(U) /\ U # <<>> /\ U \in Seq(Steps)
         /\ T \in Seq(Harmless) => U \in Seq(Harmless)
         /\ \A s, d, v, q, m :
              m \in {0, 1} /\ Keeps(T, t, d, v, IF x = Same THEN q ELSE x, m)
              => Keeps(U, s, d, v, q, m)
<1> DEFINE a == [op |-> "put", to |-> t, asks |-> x]
<1>1. a \in Harmless /\ a \in Ordinary /\ a # Opening /\ a # Emptying
  BY DEF Harmless, Ordinary, Opening, Emptying
<1>2. /\ PutAsking(t, x) = <<a>> /\ T \in Seq(Steps)
      /\ a.op = "put" /\ a.to = t /\ a.asks = x /\ a \in Steps
  BY <1>1, OrdinaryIsStep DEF PutAsking, Sound
<1> HIDE DEF a
<1>3. /\ Sound(<<a>> \o T) /\ <<a>> \o T # <<>>
      /\ T \in Seq(Harmless) => <<a>> \o T \in Seq(Harmless)
  BY <1>1, <1>2, SoundFrom
<1>4. ASSUME NEW s, NEW d, NEW v, NEW q, NEW m \in {0, 1},
             Keeps(T, t, d, v, IF x = Same THEN q ELSE x, m)
      PROVE  Keeps(<<a>> \o T, s, d, v, q, m)
  <2> DEFINE p == IF x = Same THEN q ELSE x
  <2>1. p = IF a.op \in {"put", "replace"} /\ a.asks # Same THEN a.asks ELSE q
    BY <1>2
  <2>2. Keeps(T, t, d, v, p, m)
    BY <1>4
  <2> HIDE DEF p
  <2> QED BY <1>2, <2>1, <2>2, KeepsStep
<1> QED BY <1>2, <1>3, <1>4, OrdinaryIsStep DEF Sound

LEMMA PutDone ==
  ASSUME NEW t \in States \ {"form:emoji"}, NEW x \in Asks \ {Opened}
  PROVE  LET U == PutAsking(t, x) IN
         /\ Sound(U) /\ U # <<>> /\ U \in Seq(Harmless)
         /\ \A s, d, v, q : Answerable(t, d, IF x = Same THEN q ELSE x)
                            => Keeps(U, s, d, v, q, 0)
<1> DEFINE U == PutAsking(t, x)
<1>1. U \o <<>> = U
  BY DEF PutAsking
<1> HIDE DEF U
<1>2. /\ Sound(U) /\ U # <<>> /\ U \in Seq(Harmless)
      /\ \A s, d, v, q, m :
           m \in {0, 1} /\ Keeps(<<>>, t, d, v, IF x = Same THEN q ELSE x, m)
           => Keeps(U, s, d, v, q, m)
  <2>1. Sound(<<>>) /\ <<>> \in Seq(Harmless)
    BY NothingSound
  <2> QED BY <1>1, <2>1, PutThen DEF U
<1>3. ASSUME NEW s, NEW d, NEW v, NEW q, Answerable(t, d, IF x = Same THEN q ELSE x)
      PROVE  Keeps(U, s, d, v, q, 0)
  BY <1>2, <1>3, KeepsDone
<1> QED BY <1>2, <1>3 DEF U

LEMMA ReadThen ==
  ASSUME NEW T, Sound(T)
  PROVE  LET U == Read \o T IN
         /\ Sound(U) /\ U # <<>> /\ U \in Seq(Steps)
         /\ T \in Seq(Harmless) => U \in Seq(Harmless)
         /\ \A s, d, v, q : Keeps(T, s, d, d, q, 0) => Keeps(U, s, d, v, q, 0)
<1> DEFINE a == [op |-> "read"]
<1>1. a \in Harmless /\ a \in Ordinary /\ a # Opening /\ a # Emptying
  BY DEF Harmless, Ordinary, Opening, Emptying
<1>2. Read = <<a>> /\ T \in Seq(Steps) /\ a.op = "read" /\ a \in Steps
  BY <1>1, OrdinaryIsStep DEF Read, Sound
<1> HIDE DEF a
<1>3. /\ Sound(<<a>> \o T) /\ <<a>> \o T # <<>>
      /\ T \in Seq(Harmless) => <<a>> \o T \in Seq(Harmless)
  BY <1>1, <1>2, SoundFrom
<1>4. ASSUME NEW s, NEW d, NEW v, NEW q, Keeps(T, s, d, d, q, 0)
      PROVE  Keeps(<<a>> \o T, s, d, v, q, 0)
  BY <1>2, <1>4, KeepsStep
<1> QED BY <1>2, <1>3, <1>4, OrdinaryIsStep DEF Sound

\* A check, with the question on the screen answerable.
LEMMA CheckThen ==
  ASSUME NEW a \in Ordinary, a.op \in Stopping \ {"finish"}, NEW T, Sound(T)
  PROVE  LET U == <<a>> \o T IN
         /\ Sound(U) /\ U # <<>> /\ U \in Seq(Steps)
         /\ a \in Harmless /\ T \in Seq(Harmless) => U \in Seq(Harmless)
         /\ \A s, d, v, q :
              /\ Answerable(s, d, q)
              /\ (a.op = "nonempty" => IsSet(v, a.key)) => Keeps(T, s, d, v, q, 0)
              => Keeps(U, s, d, v, q, 0)
<1>1. T \in Seq(Steps) /\ a \in Steps
  BY OrdinaryIsStep DEF Sound
<1>2. a # Opening /\ a # Emptying /\ a.op \notin {"create", "move", "archive", "rename"}
  BY DEF Opening, Emptying, Stopping
<1>3. /\ Sound(<<a>> \o T) /\ <<a>> \o T # <<>>
      /\ a \in Harmless /\ T \in Seq(Harmless) => <<a>> \o T \in Seq(Harmless)
  BY <1>2, SoundFrom
<1>4. ASSUME NEW s, NEW d, NEW v, NEW q, Answerable(s, d, q),
             (a.op = "nonempty" => IsSet(v, a.key)) => Keeps(T, s, d, v, q, 0)
      PROVE  Keeps(<<a>> \o T, s, d, v, q, 0)
  BY <1>1, <1>4, KeepsCheck
<1> QED BY <1>3, <1>4, OrdinaryIsStep DEF Sound

LEMMA UpdateThen ==
  ASSUME NEW w \in Merged, NEW T, Sound(T)
  PROVE  LET U == Update(w) \o T IN
         /\ Sound(U) /\ U # <<>> /\ U \in Seq(Steps)
         /\ \A s, d, v, q : Keeps(T, s, Over(w, d), Over(w, d), q, 0) => Keeps(U, s, d, v, q, 0)
<1> DEFINE a == [op |-> "merge", with |-> w]
           b == [op |-> "store"]
           V == <<b>> \o T
<1>1. /\ a \in Ordinary /\ b \in Ordinary
      /\ a # Opening /\ a # Emptying /\ b # Opening /\ b # Emptying
  BY DEF Ordinary, Opening, Emptying
<1>2. /\ Update(w) = <<a, b>> /\ T \in Seq(Ordinary) /\ T \in Seq(Steps)
      /\ a.op = "merge" /\ a.with = w /\ b.op = "store" /\ a \in Steps /\ b \in Steps
  BY <1>1, OrdinaryIsStep DEF Update, Sound
<1> HIDE DEF a, b
<1>3. Update(w) \o T = <<a>> \o V
  BY <1>1, <1>2, Pair, SMTT(60)
<1>4. Sound(V) /\ V \in Seq(Steps)
  BY <1>1, <1>2, SoundFrom, OrdinaryIsStep DEF Sound
<1>5. \A s, d, v, q : Keeps(T, s, v, v, q, 0) => Keeps(V, s, d, v, q, 0)
  BY <1>2, KeepsStep
<1> HIDE DEF V
<1>6. Sound(<<a>> \o V) /\ <<a>> \o V # <<>>
  BY <1>1, <1>2, <1>4, SoundFrom
<1>7. \A s, d, v, q : Keeps(V, s, d, Over(w, d), q, 0) => Keeps(<<a>> \o V, s, d, v, q, 0)
  BY <1>2, <1>4, KeepsStep
<1>8. \A s, d, v, q : Keeps(T, s, Over(w, d), Over(w, d), q, 0) => Keeps(<<a>> \o V, s, d, v, q, 0)
  BY <1>5, <1>7
<1> QED BY <1>3, <1>6, <1>8, OrdinaryIsStep DEF Sound

\* A clear answers for everything, and so does the first question behind it.
LEMMA ClearDone ==
  /\ Sound(Clear) /\ Clear # <<>> /\ Clear \in Seq(Harmless)
  /\ \A s, d, v, q, m : m \in {0, 1} => Keeps(Clear, s, d, v, q, m)
<1> DEFINE a == [op |-> "put", to |-> None, asks |-> Nothing]
<1>1. a \in Steps /\ a.op = "put" /\ a.to = None /\ a.asks = Nothing /\ a # Opening
  BY DEF Steps, Ordinary, Harmless, States, None, Asks, Nothing, Opened, Opening
<1>2. Clear = <<a>> \o <<Emptying>>
  BY ClearFacts DEF Put, PutAsking, None, Wizard, Edit
<1>3. /\ Emptying \in Steps /\ <<Emptying>> \in Seq(Steps) /\ Emptying.op = "replace"
      /\ Emptying.with = Empty /\ Emptying.asks = Same /\ <<Emptying>> \o <<>> = <<Emptying>>
  BY DEF Steps, Ordinary, Harmless, Emptying
<1> HIDE DEF a
<1>4. \A v, q : Keeps(<<>>, None, Empty, v, q, 0)
  BY Recovered DEF Keeps
<1>5. ASSUME NEW d, NEW v, NEW q, NEW m \in {0, 1}
      PROVE  Keeps(<<Emptying>>, None, d, v, q, m)
  <2>1. Keeps(<<Emptying>> \o <<>>, None, d, v, q, m)
    BY <1>3, <1>4, NothingSound, KeepsStep
  <2> QED BY <1>3, <2>1
<1>6. ASSUME NEW s, NEW d, NEW v, NEW q, NEW m \in {0, 1}
      PROVE  Keeps(Clear, s, d, v, q, m)
  <2>1. Nothing # Same /\ Nothing # Opened
    BY DEF Nothing, Same, Opened
  <2>2. Keeps(<<Emptying>>, None, d, v, Nothing, m)
    BY <1>5
  <2>3. Keeps(<<a>> \o <<Emptying>>, s, d, v, q, m)
    BY <1>1, <1>3, <2>1, <2>2, KeepsStep
  <2> QED BY <1>2, <2>3
<1>7. Sound(Clear)
  <2>1. Head(Clear).op = "put" /\ Head(Clear) # Opening
    BY ClearFacts DEF Opening, None
  <2> QED BY <2>1, ClearFacts, OrdinaryIsStep, SeqMonotonic DEF Sound
<1> QED BY <1>6, <1>7, ClearFacts

LEMMA NewStarts ==
  ASSUME NEW s
  PROVE  Starts(Clear \o PutAsking("wizard:category", Opened), s)
<1> DEFINE a == [op |-> "put", to |-> None, asks |-> Nothing]
           U == <<Emptying>> \o <<Opening>>
           T == <<a>> \o U
<1>1. /\ a \in Steps /\ a \in Harmless /\ a.op = "put" /\ a.to = None /\ a.asks = Nothing
      /\ a # Opening /\ a # Emptying
  BY DEF Steps, Ordinary, Harmless, States, None, Asks, Nothing, Opened, Opening, Emptying
<1>2. Clear = <<a>> \o <<Emptying>> /\ PutAsking("wizard:category", Opened) = <<Opening>>
  BY ClearFacts DEF Put, PutAsking, None, Wizard, Edit, Opening
<1>3. /\ Emptying \in Steps /\ Emptying.op = "replace" /\ Emptying # Opening
      /\ Emptying.with = Empty /\ Emptying.asks = Same /\ Opening.op = "put"
      /\ Emptying \in Harmless /\ Opening \in Harmless /\ Opening \in Steps
  BY DEF Steps, Ordinary, Harmless, Emptying, Opening
<1> HIDE DEF a
<1>4. Clear \o PutAsking("wizard:category", Opened) = T
  <2>1. <<a>> \in Seq(Steps) /\ <<Emptying>> \in Seq(Steps) /\ <<Opening>> \in Seq(Steps)
    BY <1>1, <1>3
  <2>2. (<<a>> \o <<Emptying>>) \o <<Opening>> = T
    BY <2>1, ConcatAssociative
  <2> QED BY <1>2, <2>2
<1>5. /\ Follows(Emptying, Opening) /\ Follows(a, Emptying)
  BY <1>1, <1>3 DEF Follows
<1>6. /\ <<Opening>> \in Seq(Harmless) /\ Head(<<Opening>>) = Opening /\ Linked(<<Opening>>)
      /\ <<Opening>> \in Seq(Steps)
  BY <1>3, LinkedShort
<1>7. U \in Seq(Harmless) /\ Head(U) = Emptying /\ Linked(U) /\ U \in Seq(Steps)
  BY <1>3, <1>5, <1>6, Joined, LinkedFrom
<1>8. T \in Seq(Harmless) /\ Head(T) = a /\ Linked(T) /\ T # <<>>
  BY <1>1, <1>5, <1>7, Joined, LinkedFrom
<1>9. Sound(T)
  BY <1>1, <1>8, OrdinaryIsStep, SeqMonotonic DEF Sound
<1>10. ASSUME NEW d, NEW v, NEW q PROVE Keeps(T, s, d, v, q, 0)
  <2>1. Nothing # Same /\ Nothing # Opened
    BY DEF Nothing, Same, Opened
  <2>2. Keeps(<<Opening>>, None, Empty, v, Nothing, 0)
    BY Recovered DEF Keeps
  <2>3. Keeps(U, None, d, v, Nothing, 0)
    BY <1>3, <1>6, <2>2, KeepsStep
  <2> HIDE DEF U
  <2>4. Keeps(<<a>> \o U, s, d, v, q, 0)
    BY <1>1, <1>7, <2>1, <2>3, KeepsStep
  <2> QED BY <2>4
<1> QED BY <1>4, <1>8, <1>9, <1>10 DEF Starts

\* An answer is stored and the next question asked.
LEMMA AskThen ==
  ASSUME NEW w \in Merged, NEW t \in States \ {"form:emoji"}
  PROVE  LET T == Update(w) \o Put(t) IN
         /\ Sound(T) /\ T # <<>>
         /\ \A s, d, v, q :
              Answerable(t, Over(w, d), IF t \in Wizard \cup Edit THEN q ELSE Nothing)
              => Keeps(T, s, d, v, q, 0)
<1> DEFINE x == IF t \in Wizard \cup Edit THEN Same ELSE Nothing
<1>1. x \in Asks \ {Opened}
  BY DEF Asks, Same, Opened, Nothing
<1>2. /\ Put(t) = PutAsking(t, x)
      /\ \A q : (IF x = Same THEN q ELSE x) = IF t \in Wizard \cup Edit THEN q ELSE Nothing
  BY DEF Put, Same, Nothing
<1> HIDE DEF x
<1>3. /\ Sound(Put(t))
      /\ \A s, d, v, q : Answerable(t, d, IF x = Same THEN q ELSE x)
                         => Keeps(Put(t), s, d, v, q, 0)
  BY <1>1, <1>2, PutDone
<1>4. ASSUME NEW s, NEW d, NEW v, NEW q,
             Answerable(t, Over(w, d), IF t \in Wizard \cup Edit THEN q ELSE Nothing)
      PROVE  Keeps(Update(w) \o Put(t), s, d, v, q, 0)
  <2>1. Keeps(Put(t), s, Over(w, d), Over(w, d), q, 0)
    BY <1>2, <1>3, <1>4
  <2> QED BY <1>3, <2>1, UpdateThen
<1> QED BY <1>3, <1>4, UpdateThen

---------------------------------------------------------------------------
(* Which question can be answered after which.                             *)

LEMMA AnswersAdd ==
  ASSUME NEW d, NEW q
  PROVE  /\ \A c : Answerable("wizard:category", d, q)
                   => Answerable("wizard:title", Over(Answer("category_id", c), d), q)
         /\ Answerable("wizard:title", d, q)
            => Answerable("wizard:kind", Over(Answer("title", Given), d), q)
         /\ Answerable("wizard:date", d, q)
            => Answerable("wizard:at", Over(Answer("date", Given), d), q)
         /\ Answerable("wizard:every_minutes", d, q)
            => Answerable("wizard:window", Over(Answer("every_minutes", Given), d), q)
         /\ \A s \in {"wizard:at", "wizard:times", "wizard:window"} :
              Answerable(s, d, q) => Answerable("wizard:confirm", Over(Answer("schedule", Given), d), q)
<1> USE DEF Answerable, Expected, Draft, Kept, Wizard, Edit, Over, Answer
<1>1. \A c : Answerable("wizard:category", d, q)
             => Answerable("wizard:title", Over(Answer("category_id", c), d), q)
  OBVIOUS
<1>2. Answerable("wizard:title", d, q)
      => Answerable("wizard:kind", Over(Answer("title", Given), d), q)
  OBVIOUS
<1>3. Answerable("wizard:date", d, q)
      => Answerable("wizard:at", Over(Answer("date", Given), d), q)
  OBVIOUS
<1>4. Answerable("wizard:every_minutes", d, q)
      => Answerable("wizard:window", Over(Answer("every_minutes", Given), d), q)
  OBVIOUS
<1>5. ASSUME NEW s \in {"wizard:at", "wizard:times", "wizard:window"}, Answerable(s, d, q)
      PROVE  Answerable("wizard:confirm", Over(Answer("schedule", Given), d), q)
  BY <1>5
<1> QED BY <1>1, <1>2, <1>3, <1>4, <1>5

LEMMA KindsAnswerable ==
  ASSUME NEW d, NEW q, Answerable("wizard:kind", d, q)
  PROVE  LET k(kind) == Over(Answer("kind", kind), d)
             l(key, kind) == Over(Answer(key, FALSE), k(kind)) IN
         /\ Answerable("wizard:date", k("once"), q)
         /\ Answerable("wizard:every_minutes", k("interval"), q)
         /\ Answerable("wizard:times", l("times", "daily"), q)
         /\ Answerable("wizard:weekdays", l("weekdays", "weekly"), q)
         /\ Answerable("wizard:month_days", l("month_days", "monthly"), q)
<1> USE DEF Answerable, Expected, Draft, Kept, Buildable, Wizard, Edit, Over, Answer
<1>1. Answerable("wizard:date", Over(Answer("kind", "once"), d), q)
  OBVIOUS
<1>2. Answerable("wizard:every_minutes", Over(Answer("kind", "interval"), d), q)
  OBVIOUS
<1>3. Answerable("wizard:times", Over(Answer("times", FALSE), Over(Answer("kind", "daily"), d)), q)
  OBVIOUS
<1>4. Answerable("wizard:weekdays",
                 Over(Answer("weekdays", FALSE), Over(Answer("kind", "weekly"), d)), q)
  OBVIOUS
<1>5. Answerable("wizard:month_days",
                 Over(Answer("month_days", FALSE), Over(Answer("kind", "monthly"), d)), q)
  OBVIOUS
<1> QED BY <1>1, <1>2, <1>3, <1>4, <1>5

LEMMA ListsAnswerable ==
  ASSUME NEW d, NEW q
  PROVE  /\ \A b \in BOOLEAN :
              /\ Answerable("wizard:times", d, q)
                 => Answerable("wizard:times", Over(Answer("times", b), d), q)
              /\ Answerable("wizard:weekdays", d, q)
                 => Answerable("wizard:weekdays", Over(Answer("weekdays", b), d), q)
              /\ Answerable("wizard:month_days", d, q)
                 => Answerable("wizard:month_days", Over(Answer("month_days", b), d), q)
         /\ Answerable("wizard:weekdays", d, q) /\ IsSet(d, "weekdays")
            => Answerable("wizard:times", Over(Answer("times", FALSE), d), q)
         /\ Answerable("wizard:month_days", d, q) /\ IsSet(d, "month_days")
            => Answerable("wizard:on_missing", d, q)
         /\ Answerable("wizard:on_missing", d, q)
            => Answerable("wizard:times",
                          Over(Over(Answer("on_missing", Given), Answer("times", FALSE)), d), q)
<1> USE DEF Answerable, Expected, Draft, Kept, Buildable, IsSet, Wizard, Edit, Over, Answer
<1>1. ASSUME NEW b \in BOOLEAN, Answerable("wizard:times", d, q)
      PROVE  Answerable("wizard:times", Over(Answer("times", b), d), q)
  BY <1>1
<1>2. ASSUME NEW b \in BOOLEAN, Answerable("wizard:weekdays", d, q)
      PROVE  Answerable("wizard:weekdays", Over(Answer("weekdays", b), d), q)
  BY <1>2
<1>3. ASSUME NEW b \in BOOLEAN, Answerable("wizard:month_days", d, q)
      PROVE  Answerable("wizard:month_days", Over(Answer("month_days", b), d), q)
  BY <1>3
<1>4. Answerable("wizard:weekdays", d, q) /\ IsSet(d, "weekdays")
      => Answerable("wizard:times", Over(Answer("times", FALSE), d), q)
  OBVIOUS
<1>5. Answerable("wizard:month_days", d, q) /\ IsSet(d, "month_days")
      => Answerable("wizard:on_missing", d, q)
  OBVIOUS
<1>6. Answerable("wizard:on_missing", d, q)
      => Answerable("wizard:times",
                    Over(Over(Answer("on_missing", Given), Answer("times", FALSE)), d), q)
  OBVIOUS
<1> HIDE DEF Answerable, Expected, Draft, Kept, Buildable, IsSet, Wizard, Edit, Over, Answer
<1> QED BY <1>1, <1>2, <1>3, <1>4, <1>5, <1>6

---------------------------------------------------------------------------
(* The scripts of the wizard may start where the code starts them.         *)

LEMMA AskStarts ==
  ASSUME NEW w \in Merged, NEW t \in States \ {"form:emoji"}, NEW s, s # "form:emoji",
         \A d, q : Answerable(s, d, q)
                   => Answerable(t, Over(w, d), IF t \in Wizard \cup Edit THEN q ELSE Nothing)
  PROVE  Starts(Update(w) \o Put(t), s)
BY AskThen DEF Starts

LEMMA AnswerStarts ==
  /\ \A c \in Categories :
       Starts(Update(Answer("category_id", c)) \o Put("wizard:title"), "wizard:category")
  /\ Starts(Update(Answer("title", Given)) \o Put("wizard:kind"), "wizard:title")
  /\ Starts(RememberDate, "wizard:date")
  /\ Starts(AskWindow, "wizard:every_minutes")
  /\ Starts(Update(Over(Answer("on_missing", Given), Answer("times", FALSE)))
              \o Put("wizard:times"), "wizard:on_missing")
  /\ Starts(RememberStart, "settings:quiet_start")
<1>1. /\ \A c \in Categories : Answer("category_id", c) \in Merged
      /\ \A k \in Unread : Answer(k, Given) \in Merged
      /\ Over(Answer("on_missing", Given), Answer("times", FALSE)) \in Merged
  BY DEF Merged
<1>2. /\ {"title", "date", "every_minutes", "quiet_start"} \subseteq Unread
      /\ {"wizard:title", "wizard:kind", "wizard:at", "wizard:window", "wizard:times"}
           \subseteq Wizard \cap (States \ {"form:emoji"})
      /\ "settings:quiet_end" \in States \ {"form:emoji"}
      /\ "settings:quiet_end" \notin Wizard \cup Edit
  BY DEF Unread, Wizard, Edit, States, Settings
<1>3. ASSUME NEW c \in Categories
      PROVE  Starts(Update(Answer("category_id", c)) \o Put("wizard:title"), "wizard:category")
  BY <1>1, <1>2, AnswersAdd, AskStarts
<1>4. Starts(Update(Answer("title", Given)) \o Put("wizard:kind"), "wizard:title")
  BY <1>1, <1>2, AnswersAdd, AskStarts
<1>5. Starts(RememberDate, "wizard:date")
  BY <1>1, <1>2, AnswersAdd, AskStarts DEF RememberDate
<1>6. Starts(AskWindow, "wizard:every_minutes")
  BY <1>1, <1>2, AnswersAdd, AskStarts DEF AskWindow
<1>7. Starts(Update(Over(Answer("on_missing", Given), Answer("times", FALSE)))
              \o Put("wizard:times"), "wizard:on_missing")
  BY <1>1, <1>2, ListsAnswerable, AskStarts
<1>8. Starts(RememberStart, "settings:quiet_start")
  <2>1. \A d : Answerable("settings:quiet_end", Over(Answer("quiet_start", Given), d), Nothing)
    BY DEF Answerable, Expected, Over, Answer, Wizard, Edit
  <2> QED BY <1>1, <1>2, <2>1, AskStarts DEF RememberStart
<1> QED BY <1>3, <1>4, <1>5, <1>6, <1>7, <1>8

LEMMA KindStarts ==
  ASSUME NEW kind \in Kinds
  PROVE  Starts(Update(Answer("kind", kind)) \o FirstQuestion(kind), "wizard:kind")
<1> DEFINE w == Answer("kind", kind)
           T == FirstQuestion(kind)
<1>1. /\ w \in Merged /\ \A k \in Lists : Answer(k, FALSE) \in Merged
      /\ {"wizard:date", "wizard:every_minutes", "wizard:times", "wizard:weekdays",
          "wizard:month_days"} \subseteq Wizard \cap (States \ {"form:emoji"})
  BY DEF Merged, Wizard, States
<1>2. \/ kind = "once" /\ T = Put("wizard:date")
      \/ kind = "interval" /\ T = Put("wizard:every_minutes")
      \/ kind = "daily" /\ T = Update(Answer("times", FALSE)) \o Put("wizard:times")
      \/ kind = "weekly" /\ T = Update(Answer("weekdays", FALSE)) \o Put("wizard:weekdays")
      \/ kind = "monthly" /\ T = Update(Answer("month_days", FALSE)) \o Put("wizard:month_days")
  BY DEF FirstQuestion, Kinds
<1>3. CASE kind \in {"once", "interval"}
  <2>1. PICK t \in {"wizard:date", "wizard:every_minutes"} :
          T = Put(t) /\ \A d, q : Answerable("wizard:kind", d, q)
                                  => Answerable(t, Over(Answer("kind", kind), d), q)
    BY <1>2, <1>3, KindsAnswerable
  <2> QED BY <1>1, <2>1, AskStarts
<1>4. CASE kind \in {"daily", "weekly", "monthly"}
  <2>1. PICK k \in Lists, t \in {"wizard:times", "wizard:weekdays", "wizard:month_days"} :
          /\ T = Update(Answer(k, FALSE)) \o Put(t)
          /\ \A d, q : Answerable("wizard:kind", d, q)
                       => Answerable(t, Over(Answer(k, FALSE), Over(Answer("kind", kind), d)), q)
    BY <1>2, <1>4, KindsAnswerable DEF Lists
  <2> HIDE DEF T, w
  <2>2. /\ Sound(T) /\ T # <<>>
        /\ \A s, d, v, q : Answerable(t, Over(Answer(k, FALSE), d), q) => Keeps(T, s, d, v, q, 0)
    BY <1>1, <2>1, AskThen
  <2>3. /\ Sound(Update(w) \o T) /\ Update(w) \o T # <<>>
        /\ \A s, d, v, q : Keeps(T, s, Over(w, d), Over(w, d), q, 0)
                           => Keeps(Update(w) \o T, s, d, v, q, 0)
    BY <1>1, <2>2, UpdateThen
  <2>4. ASSUME NEW d, NEW v, NEW q, Answerable("wizard:kind", d, q)
        PROVE  Keeps(Update(w) \o T, "wizard:kind", d, v, q, 0)
    <3>1. Answerable(t, Over(Answer(k, FALSE), Over(w, d)), q)
      BY <2>1, <2>4 DEF w
    <3>2. Keeps(T, "wizard:kind", Over(w, d), Over(w, d), q, 0)
      BY <2>2, <3>1
    <3> QED BY <2>3, <3>2
  <2>5. Starts(Update(w) \o T, "wizard:kind")
    BY <2>3, <2>4 DEF Starts
  <2> QED BY <2>5 DEF w, T
<1> QED BY <1>3, <1>4 DEF Kinds

LEMMA ConfirmationDone ==
  /\ Sound(ToConfirmation) /\ ToConfirmation # <<>>
  /\ \A s \in {"wizard:at", "wizard:times", "wizard:window"} : \A d, v, q :
       Answerable(s, d, q) => Keeps(ToConfirmation, s, d, v, q, 0)
<1>1. Answer("schedule", Given) \in Merged /\ "wizard:confirm" \in Wizard \cap (States \ {"form:emoji"})
  BY DEF Merged, Unread, Wizard, States
<1> QED BY <1>1, AskThen, AnswersAdd DEF ToConfirmation

\* A step that looks at what was read and may end the handler.
LEMMA CheckSteps ==
  /\ \A ks \in SUBSET Keys : [op |-> "need", keys |-> ks] \in Harmless
  /\ \A k \in Lists : [op |-> "nonempty", key |-> k] \in Harmless
  /\ \A i \in Reminders : [op |-> "editable", reminder |-> i] \in Harmless
  /\ \A c \in AnyCategory : [op |-> "live", category |-> c] \in Harmless
  /\ {[op |-> "build"], [op |-> "try"], [op |-> "opened"]} \subseteq Harmless
  /\ {"need", "nonempty", "editable", "live", "build", "try", "opened"} \subseteq Stopping \ {"finish"}
BY DEF Harmless, Stopping

LEMMA NeedThen ==
  ASSUME NEW ks \in SUBSET Keys, NEW T, Sound(T)
  PROVE  LET U == Need(ks) \o T IN
         /\ Sound(U) /\ U # <<>> /\ U \in Seq(Steps)
         /\ T \in Seq(Harmless) => U \in Seq(Harmless)
         /\ \A s, d, v, q : Answerable(s, d, q) /\ Keeps(T, s, d, v, q, 0)
                            => Keeps(U, s, d, v, q, 0)
<1> DEFINE a == [op |-> "need", keys |-> ks]
<1>1. a \in Harmless /\ a \in Ordinary /\ a.op \in Stopping \ {"finish"} /\ a.op # "nonempty"
      /\ Need(ks) = <<a>>
  BY CheckSteps, OrdinaryIsStep DEF Need
<1> HIDE DEF a
<1> QED BY <1>1, CheckThen

LEMMA TryThen ==
  ASSUME NEW T, Sound(T)
  PROVE  LET U == Try \o T IN
         /\ Sound(U) /\ U # <<>> /\ U \in Seq(Steps)
         /\ T \in Seq(Harmless) => U \in Seq(Harmless)
         /\ \A s, d, v, q : Answerable(s, d, q) /\ Keeps(T, s, d, v, q, 0)
                            => Keeps(U, s, d, v, q, 0)
<1> DEFINE a == [op |-> "try"]
<1>1. a \in Harmless /\ a \in Ordinary /\ a.op \in Stopping \ {"finish"} /\ a.op # "nonempty"
      /\ Try = <<a>>
  BY CheckSteps, OrdinaryIsStep DEF Try
<1> HIDE DEF a
<1> QED BY <1>1, CheckThen

LEMMA LiveThen ==
  ASSUME NEW c \in AnyCategory, NEW T, Sound(T)
  PROVE  LET U == Live(c) \o T IN
         /\ Sound(U) /\ U # <<>> /\ U \in Seq(Steps)
         /\ \A s, d, v, q : Answerable(s, d, q) /\ Keeps(T, s, d, v, q, 0)
                            => Keeps(U, s, d, v, q, 0)
<1> DEFINE a == [op |-> "live", category |-> c]
<1>1. a \in Ordinary /\ a.op \in Stopping \ {"finish"} /\ a.op # "nonempty" /\ Live(c) = <<a>>
  BY CheckSteps, OrdinaryIsStep DEF Live
<1> HIDE DEF a
<1> QED BY <1>1, CheckThen

LEMMA EditableThen ==
  ASSUME NEW i \in Reminders, NEW T, Sound(T)
  PROVE  LET U == Editable(i) \o T IN
         /\ Sound(U) /\ U # <<>> /\ U \in Seq(Steps)
         /\ \A s, d, v, q : Answerable(s, d, q) /\ Keeps(T, s, d, v, q, 0)
                            => Keeps(U, s, d, v, q, 0)
<1> DEFINE a == [op |-> "editable", reminder |-> i]
<1>1. a \in Ordinary /\ a.op \in Stopping \ {"finish"} /\ a.op # "nonempty" /\ Editable(i) = <<a>>
  BY CheckSteps, OrdinaryIsStep DEF Editable
<1> HIDE DEF a
<1> QED BY <1>1, CheckThen

LEMMA NonEmptyThen ==
  ASSUME NEW k \in Lists, NEW T, Sound(T)
  PROVE  LET U == NonEmpty(k) \o T IN
         /\ Sound(U) /\ U # <<>> /\ U \in Seq(Steps)
         /\ \A s, d, v, q : Answerable(s, d, q) /\ (IsSet(v, k) => Keeps(T, s, d, v, q, 0))
                            => Keeps(U, s, d, v, q, 0)
<1> DEFINE a == [op |-> "nonempty", key |-> k]
<1>1. a \in Ordinary /\ a.op \in Stopping \ {"finish"} /\ a.op = "nonempty" /\ a.key = k
      /\ NonEmpty(k) = <<a>>
  BY CheckSteps, OrdinaryIsStep DEF NonEmpty
<1> HIDE DEF a
<1> QED BY <1>1, CheckThen

\* Pieces of scripts are sequences, so that a script can be read step by step.
LEMMA Pieces ==
  /\ {Read, Try, <<[op |-> "build"]>>, <<[op |-> "finish"]>>, <<[op |-> "opened"]>>}
       \subseteq Seq(Ordinary)
  /\ \A ks \in SUBSET Keys : Need(ks) \in Seq(Ordinary)
  /\ \A k \in Lists : NonEmpty(k) \in Seq(Ordinary)
  /\ \A i \in Reminders : Editable(i) \in Seq(Ordinary)
  /\ \A c \in AnyCategory : Live(c) \in Seq(Ordinary) /\ Do("move", c) \in Seq(Ordinary)
  /\ \A w \in Merged : Update(w) \in Seq(Ordinary)
<1>1. /\ {[op |-> o] : o \in {"read", "try", "build", "finish", "opened", "store"}} \subseteq Ordinary
      /\ \A ks \in SUBSET Keys : [op |-> "need", keys |-> ks] \in Ordinary
      /\ \A k \in Lists : [op |-> "nonempty", key |-> k] \in Ordinary
      /\ \A i \in Reminders : [op |-> "editable", reminder |-> i] \in Ordinary
      /\ \A c \in AnyCategory : /\ [op |-> "live", category |-> c] \in Ordinary
                                /\ [op |-> "move", category |-> c] \in Ordinary
      /\ \A w \in Merged : [op |-> "merge", with |-> w] \in Ordinary
  BY DEF Ordinary, Harmless
<1>2. /\ Read \in Seq(Ordinary) /\ Try \in Seq(Ordinary)
      /\ <<[op |-> "build"]>> \in Seq(Ordinary) /\ <<[op |-> "finish"]>> \in Seq(Ordinary)
      /\ <<[op |-> "opened"]>> \in Seq(Ordinary)
  BY <1>1 DEF Read, Try
<1>3. ASSUME NEW ks \in SUBSET Keys PROVE Need(ks) \in Seq(Ordinary)
  <2>1. Need(ks) = <<[op |-> "need", keys |-> ks]>>
    BY DEF Need
  <2>2. [op |-> "need", keys |-> ks] \in Ordinary
    BY <1>1
  <2> QED BY <2>1, <2>2
<1>4. ASSUME NEW k \in Lists PROVE NonEmpty(k) \in Seq(Ordinary)
  <2>1. NonEmpty(k) = <<[op |-> "nonempty", key |-> k]>>
    BY DEF NonEmpty
  <2>2. [op |-> "nonempty", key |-> k] \in Ordinary
    BY <1>1
  <2> QED BY <2>1, <2>2
<1>5. ASSUME NEW i \in Reminders PROVE Editable(i) \in Seq(Ordinary)
  <2>1. Editable(i) = <<[op |-> "editable", reminder |-> i]>>
    BY DEF Editable
  <2>2. [op |-> "editable", reminder |-> i] \in Ordinary
    BY <1>1
  <2> QED BY <2>1, <2>2
<1>6. ASSUME NEW c \in AnyCategory PROVE Live(c) \in Seq(Ordinary)
  <2>1. Live(c) = <<[op |-> "live", category |-> c]>>
    BY DEF Live
  <2>2. [op |-> "live", category |-> c] \in Ordinary
    BY <1>1
  <2> QED BY <2>1, <2>2
<1>7. ASSUME NEW c \in AnyCategory PROVE Do("move", c) \in Seq(Ordinary)
  <2> DEFINE a == [op |-> "move", category |-> c]
             x == Do("move", c)
  <2>1. x = <<a>> /\ a \in Ordinary
    BY <1>1 DEF Do
  <2> HIDE DEF a, x
  <2>2. x \in Seq(Ordinary)
    BY <2>1
  <2> QED BY <2>2 DEF x
<1>8. ASSUME NEW w \in Merged PROVE Update(w) \in Seq(Ordinary)
  <2> DEFINE a == [op |-> "merge", with |-> w]
             b == [op |-> "store"]
  <2>1. a \in Ordinary /\ b \in Ordinary /\ Update(w) = <<a, b>>
    BY <1>1 DEF Update
  <2> HIDE DEF a, b
  <2> QED BY <2>1
<1> QED BY <1>2, <1>3, <1>4, <1>5, <1>6, <1>7, <1>8

\* The data is read again, a checked answer is there, the schedule is stored.
LEMMA FinishStarts ==
  Starts(FinishOnce, "wizard:at") /\ Starts(FinishInterval, "wizard:window")
<1>1. ASSUME NEW k \in {"date", "every_minutes"}, NEW s \in {"wizard:at", "wizard:window"}
      PROVE  Starts(Read \o Need({k}) \o ToConfirmation, s)
  <2> DEFINE V == Need({k}) \o ToConfirmation
  <2>1. {k} \in SUBSET Keys
    BY DEF Keys
  <2>2. Read \o Need({k}) \o ToConfirmation = Read \o V
    BY <2>1, Pieces, ConfirmationDone, ConcatAssociative DEF Sound
  <2>3. /\ Sound(V)
        /\ \A d, v, q : Answerable(s, d, q) => Keeps(V, s, d, v, q, 0)
    BY <2>1, ConfirmationDone, NeedThen
  <2> HIDE DEF V
  <2>4. Starts(Read \o V, s)
    BY <2>3, ReadThen DEF Starts
  <2> QED BY <2>2, <2>4
<1> QED BY <1>1 DEF FinishOnce, FinishInterval

LEMMA TimesStarts ==
  Starts(Read \o NonEmpty("times") \o <<[op |-> "build"]>> \o ToConfirmation, "wizard:times")
<1> DEFINE b == [op |-> "build"]
           V == <<b>> \o ToConfirmation
           W == NonEmpty("times") \o V
           s == "wizard:times"
<1>1. "times" \in Lists /\ b \in Ordinary /\ b.op \in Stopping \ {"finish"} /\ b.op # "nonempty"
  BY CheckSteps, OrdinaryIsStep DEF Lists
<1>2. <<b>> \in Seq(Ordinary) /\ Sound(ToConfirmation) /\ ToConfirmation \in Seq(Ordinary)
      /\ Read \in Seq(Ordinary) /\ NonEmpty("times") \in Seq(Ordinary)
  BY <1>1, Pieces, ConfirmationDone DEF Sound
<1> HIDE DEF b
<1>3. Read \o NonEmpty("times") \o <<b>> \o ToConfirmation = Read \o W
  BY <1>2, ConcatAssociative, SMTT(60)
<1>4. /\ Sound(V)
      /\ \A d, v, q : Answerable(s, d, q) => Keeps(V, s, d, v, q, 0)
  BY <1>1, ConfirmationDone, CheckThen
<1> HIDE DEF V
<1>5. /\ Sound(W)
      /\ \A d, v, q : Answerable(s, d, q) => Keeps(W, s, d, v, q, 0)
  BY <1>1, <1>4, NonEmptyThen
<1> HIDE DEF W
<1>6. Starts(Read \o W, s)
  BY <1>5, ReadThen DEF Starts
<1> QED BY <1>3, <1>6 DEF b

LEMMA WeekdaysStarts ==
  Starts(Read \o NonEmpty("weekdays") \o Update(Answer("times", FALSE)) \o Put("wizard:times"),
         "wizard:weekdays")
<1> DEFINE V == Update(Answer("times", FALSE)) \o Put("wizard:times")
           W == NonEmpty("weekdays") \o V
           s == "wizard:weekdays"
<1>1. /\ "weekdays" \in Lists /\ Answer("times", FALSE) \in Merged
      /\ "wizard:times" \in Wizard \cap (States \ {"form:emoji"})
  BY DEF Lists, Merged, Wizard, States
<1>2. Put("wizard:times") \in Seq(Ordinary)
  <2>1. Put("wizard:times") = PutAsking("wizard:times", Same) /\ Same \in Asks \ {Opened}
    BY <1>1 DEF Put, Asks, Same, Opened
  <2> QED BY <1>1, <2>1, PutDone DEF Sound
<1>3. Read \o NonEmpty("weekdays") \o Update(Answer("times", FALSE)) \o Put("wizard:times")
      = Read \o W
  <2> DEFINE n == NonEmpty("weekdays")
             u == Update(Answer("times", FALSE))
             p == Put("wizard:times")
  <2>1. /\ Read \in Seq(Ordinary) /\ n \in Seq(Ordinary)
        /\ u \in Seq(Ordinary) /\ p \in Seq(Ordinary)
    BY <1>1, <1>2, Pieces
  <2> HIDE DEF n, u, p
  <2>2. Read \o n \o u \o p = Read \o (n \o (u \o p))
    BY <2>1, SMTT(60)
  <2> QED BY <2>2 DEF n, u, p
<1>4. /\ Sound(V)
      /\ \A d, v, q : Answerable(s, d, q) /\ IsSet(d, "weekdays") => Keeps(V, s, d, v, q, 0)
  BY <1>1, AskThen, ListsAnswerable
<1> HIDE DEF V
<1>5. /\ Sound(W)
      /\ \A d, q : Answerable(s, d, q) => Keeps(W, s, d, d, q, 0)
  BY <1>1, <1>4, NonEmptyThen
<1> HIDE DEF W
<1>6. Starts(Read \o W, s)
  BY <1>5, ReadThen DEF Starts
<1> QED BY <1>3, <1>6

LEMMA MonthDaysStarts ==
  Starts(Read \o NonEmpty("month_days") \o Put("wizard:on_missing"), "wizard:month_days")
<1> DEFINE V == Put("wizard:on_missing")
           W == NonEmpty("month_days") \o V
           s == "wizard:month_days"
<1>1. /\ "month_days" \in Lists /\ "wizard:on_missing" \in Wizard \cap (States \ {"form:emoji"})
      /\ Same \in Asks \ {Opened}
  BY DEF Lists, Wizard, States, Asks, Same, Opened
<1>2. V = PutAsking("wizard:on_missing", Same)
  BY <1>1 DEF Put
<1>3. /\ Sound(V) /\ V \in Seq(Ordinary)
      /\ \A d, v, q : Answerable(s, d, q) /\ IsSet(d, "month_days") => Keeps(V, s, d, v, q, 0)
  BY <1>1, <1>2, PutDone, ListsAnswerable DEF Sound
<1> HIDE DEF V
<1>4. Read \o NonEmpty("month_days") \o V = Read \o W
  BY <1>1, <1>3, Pieces, ConcatAssociative, SMTT(60)
<1>5. /\ Sound(W)
      /\ \A d, q : Answerable(s, d, q) => Keeps(W, s, d, d, q, 0)
  BY <1>1, <1>3, NonEmptyThen
<1> HIDE DEF W
<1>6. Starts(Read \o W, s)
  BY <1>5, ReadThen DEF Starts
<1> QED BY <1>4, <1>6 DEF V

\* One press on a list leaves the question as answerable as it was.
LEMMA ToggleStarts ==
  /\ Starts(Toggle("times"), "wizard:times")
  /\ Starts(Toggle("weekdays"), "wizard:weekdays")
  /\ Starts(Toggle("month_days"), "wizard:month_days")
<1>1. ASSUME NEW k \in Lists, NEW s, s # "form:emoji",
             \A b \in BOOLEAN : \A d, q :
               Answerable(s, d, q) => Answerable(s, Over(Answer(k, b), d), q)
      PROVE  Starts(Toggle(k), s)
  <2> DEFINE a == [op |-> "toggle", key |-> k]
             b == [op |-> "store"]
             V == <<b>>
             W == <<a>> \o V
  <2>1. /\ a \in Ordinary /\ b \in Ordinary /\ a # Opening /\ a # Emptying
        /\ b # Opening /\ b # Emptying /\ a.op = "toggle" /\ a.key = k /\ b.op = "store"
        /\ a \in Steps /\ b \in Steps
    BY DEF Ordinary, Steps, Opening, Emptying
  <2>2. Toggle(k) = Read \o W
    BY LastPair DEF Toggle
  <2> HIDE DEF a, b
  <2>3. Sound(V) /\ V \in Seq(Steps) /\ V = <<b>> \o <<>>
    <3>1. <<b>> \o <<>> = <<b>>
      OBVIOUS
    <3>2. Sound(<<b>> \o <<>>)
      BY <2>1, NothingSound, SoundFrom
    <3>3. <<b>> \in Seq(Steps)
      BY <2>1
    <3> QED BY <3>1, <3>2, <3>3
  <2>4. \A d, v, q : Answerable(s, v, q) => Keeps(V, s, d, v, q, 0)
    BY <2>1, <2>3, NothingSound, KeepsDone, KeepsStep
  <2> HIDE DEF V
  <2>5. Sound(W)
    BY <2>1, <2>3, SoundFrom
  <2>6. ASSUME NEW d, NEW v, NEW q, Answerable(s, d, q)
        PROVE  Keeps(W, s, d, v, q, 0)
    <3> SUFFICES ASSUME NEW c, c.state = s, c.data = d, c.seen = v, c.asked = q, c.made = 0
                 PROVE  Promise(<<a>> \o V, c)
      BY DEF Keeps
    <3>1. ASSUME NEW e, Leads(a, c, e) PROVE Promise(V, e)
      <4>1. /\ e.state = s /\ e.data = d /\ e.asked = q /\ e.made = 0
            /\ \E x \in BOOLEAN : e.seen = Over(Answer(k, x), d)
        BY <2>1, <3>1 DEF Leads
      <4>2. PICK x \in BOOLEAN : e.seen = Over(Answer(k, x), d)
        BY <4>1
      <4>3. Answerable(s, e.seen, q)
        BY <1>1, <2>6, <4>2
      <4> QED BY <2>4, <4>1, <4>3 DEF Keeps
    <3>2. a.op \notin Stopping /\ c.made <= 1
      BY <2>1 DEF Stopping
    <3> QED BY <2>1, <2>3, <3>1, <3>2, PromiseFrom
  <2> HIDE DEF W
  <2>7. Starts(Read \o W, s)
    BY <1>1, <2>5, <2>6, ReadThen DEF Starts
  <2> QED BY <2>2, <2>7
<1> QED BY <1>1, ListsAnswerable DEF Lists

\* The wizard's last press.
LEMMA ConfirmStarts == Starts(Read \o <<[op |-> "finish"]>> \o Clear, "wizard:confirm")
<1> DEFINE a == [op |-> "finish"]
           W == <<a>> \o Clear
           s == "wizard:confirm"
<1>1. /\ a \in Ordinary /\ a # Opening /\ a # Emptying /\ a.op = "finish" /\ a \in Steps
  BY DEF Ordinary, Steps, Opening, Emptying
<1>2. Read \in Seq(Ordinary) /\ <<a>> \in Seq(Ordinary) /\ Clear \in Seq(Ordinary)
      /\ Clear \in Seq(Steps)
  BY Pieces, ClearDone, OrdinaryIsStep DEF Sound
<1> HIDE DEF a
<1>3. Read \o <<a>> \o Clear = Read \o W
  BY <1>2, ConcatAssociative
<1>4. Sound(W)
  BY <1>1, ClearDone, SoundFrom
<1>5. ASSUME NEW d, NEW v, NEW q, Answerable(s, d, q)
      PROVE  Keeps(W, s, d, v, q, 0)
  <2> SUFFICES ASSUME NEW c, c.state = s, c.data = d, c.seen = v, c.asked = q, c.made = 0
               PROVE  Promise(<<a>> \o Clear, c)
    BY DEF Keeps
  <2>1. ASSUME NEW e, Leads(a, c, e) PROVE Promise(Clear, e)
    <3>1. /\ e.state = s /\ e.data = d /\ e.seen = v /\ e.asked = q /\ e.made \in {0, 1}
      BY <1>1, <2>1 DEF Leads
    <3> QED BY <3>1, ClearDone DEF Keeps
  <2>2. Good(c) /\ c.made <= 1
    BY <1>5 DEF Good
  <2> QED BY <1>1, <1>2, <2>1, <2>2, PromiseFrom
<1> HIDE DEF W
<1>6. Starts(Read \o W, s)
  BY <1>4, <1>5, ReadThen DEF Starts
<1> QED BY <1>3, <1>6 DEF a

---------------------------------------------------------------------------
(* The scripts of the screens that clear, of settings and of edits.        *)

LEMMA ClearStarts ==
  ASSUME NEW s
  PROVE  /\ Starts(Clear, s) /\ Starts(Try \o Clear, s) /\ Starts(BackToCard, s)
<1>1. Starts(Clear, s)
  BY ClearDone DEF Starts
<1>2. Starts(Try \o Clear, s)
  BY ClearDone, TryThen DEF Starts
<1>3. Starts(BackToCard, s)
  BY ClearDone, ReadThen DEF Starts, BackToCard
<1> QED BY <1>1, <1>2, <1>3

\* A question that needs no earlier answer may be asked anywhere.
LEMMA PutStarts ==
  ASSUME NEW s,
         NEW t \in {"onboarding:timezone", "settings:timezone", "settings:quiet_start", "form:title"}
  PROVE  Starts(Put(t), s)
<1>1. /\ t \in States \ {"form:emoji"} /\ t \notin Wizard \cup Edit
      /\ Nothing \in Asks \ {Opened} /\ Nothing # Same
  BY DEF States, Settings, Form, Wizard, Edit, Asks, Nothing, Opened, Same
<1>2. Put(t) = PutAsking(t, Nothing)
  BY <1>1 DEF Put
<1>3. \A d : Answerable(t, d, Nothing)
  BY DEF Answerable, Expected, Wizard, Edit
<1> QED BY <1>1, <1>2, <1>3, PutDone DEF Starts

LEMMA QuietHoursStart == Starts(SaveQuietHours, "settings:quiet_end")
<1> DEFINE V == Try \o Clear
           W == Need({"quiet_start"}) \o V
           s == "settings:quiet_end"
<1>1. {"quiet_start"} \in SUBSET Keys
  BY DEF Keys
<1>2. SaveQuietHours = Read \o W
  <2> DEFINE n == Need({"quiet_start"})
  <2>1. /\ Read \in Seq(Ordinary) /\ n \in Seq(Ordinary) /\ Try \in Seq(Ordinary)
        /\ Clear \in Seq(Ordinary)
    BY <1>1, Pieces, ClearDone DEF Sound
  <2> HIDE DEF n
  <2>2. Read \o n \o Try \o Clear = Read \o (n \o (Try \o Clear))
    BY <2>1, SMTT(60)
  <2> QED BY <2>2 DEF n, SaveQuietHours
<1>3. Sound(V) /\ \A d, v, q : Answerable(s, d, q) => Keeps(V, s, d, v, q, 0)
  BY ClearDone, TryThen
<1> HIDE DEF V
<1>4. Sound(W) /\ \A d, v, q : Answerable(s, d, q) => Keeps(W, s, d, v, q, 0)
  BY <1>1, <1>3, NeedThen
<1> HIDE DEF W
<1>5. Starts(Read \o W, s)
  BY <1>4, ReadThen DEF Starts
<1> QED BY <1>2, <1>5

\* The checks before an edited field is written.
LEMMA ApplyThen ==
  ASSUME NEW T, Sound(T), NEW s, s # "form:emoji",
         \A d, v, q : Answerable(s, d, q) => Keeps(T, s, d, v, q, 0)
  PROVE  Starts(Apply \o T, s)
<1> DEFINE o == [op |-> "opened"]
           n == Need({"reminder_id"})
           U == Try \o T
           V == <<o>> \o U
           W == n \o V
<1>1. /\ {"reminder_id"} \in SUBSET Keys
      /\ o \in Ordinary /\ o.op \in Stopping \ {"finish"} /\ o.op # "nonempty"
  BY CheckSteps, OrdinaryIsStep DEF Keys
<1>2. /\ Read \in Seq(Ordinary) /\ n \in Seq(Ordinary) /\ Try \in Seq(Ordinary)
      /\ <<o>> \in Seq(Ordinary) /\ T \in Seq(Ordinary)
  BY <1>1, Pieces DEF Sound
<1>3. Apply = Read \o n \o <<o>> \o Try
  BY DEF Apply
<1> HIDE DEF o, n
<1>4. Read \o n \o <<o>> \o Try \o T = Read \o (n \o (<<o>> \o (Try \o T)))
  <2> DEFINE x == <<o>>
  <2>1. x \in Seq(Ordinary)
    BY <1>2
  <2> HIDE DEF x
  <2> DEFINE h == Read \o n \o x
             e == Try \o T
  <2>2. h \in Seq(Ordinary)
    BY <1>2, <2>1
  <2>3. e \in Seq(Ordinary)
    BY <1>2
  <2>4. h \o Try \o T = h \o e
    <3> HIDE DEF h
    <3> QED BY <1>2, <2>2, SMTT(60)
  <2> HIDE DEF e
  <2>0. Read \o n \o x \o e = Read \o (n \o (x \o e))
    <3>1. /\ Read \in Seq(Ordinary) /\ n \in Seq(Ordinary)
          /\ x \in Seq(Ordinary) /\ e \in Seq(Ordinary)
      BY <1>2, <2>1, <2>3
    <3> HIDE DEF h
    <3> QED BY ONLY <3>1, SMTT(60)
  <2>5. Read \o n \o x \o Try \o T = Read \o (n \o (x \o e))
    BY <2>0, <2>4
  <2> QED BY <2>5 DEF x, e
<1>5. Sound(U) /\ \A d, v, q : Answerable(s, d, q) => Keeps(U, s, d, v, q, 0)
  BY TryThen
<1> HIDE DEF U
<1>6. Sound(V) /\ \A d, v, q : Answerable(s, d, q) => Keeps(V, s, d, v, q, 0)
  BY <1>1, <1>5, CheckThen
<1> HIDE DEF V
<1>7. Sound(W) /\ \A d, v, q : Answerable(s, d, q) => Keeps(W, s, d, v, q, 0)
  BY <1>1, <1>6, NeedThen DEF n
<1> HIDE DEF W
<1>8. Starts(Read \o W, s)
  BY <1>7, ReadThen DEF Starts
<1> QED BY <1>3, <1>4, <1>8 DEF U, V, W

LEMMA FieldAnswerStarts ==
  ASSUME NEW s \in Edit
  PROVE  Starts(Apply \o BackToCard, s)
<1>1. s # "form:emoji"
  BY DEF Edit
<1>2. Sound(BackToCard) /\ \A d, v, q : Keeps(BackToCard, s, d, v, q, 0)
  BY ClearDone, ReadThen DEF BackToCard
<1> QED BY <1>1, <1>2, ApplyThen

LEMMA CategoryAnswerStarts ==
  ASSUME NEW c \in Categories
  PROVE  Starts(Apply \o Live(c) \o Do("move", c) \o BackToCard, "edit:category")
<1> DEFINE l == [op |-> "live", category |-> c]
           m == [op |-> "move", category |-> c]
           B == BackToCard
           U == <<m>> \o B
           V == <<l>> \o U
           s == "edit:category"
<1>1. /\ l \in Ordinary /\ m \in Ordinary /\ l \in Steps /\ m \in Steps
      /\ l # Opening /\ l # Emptying /\ m # Opening /\ m # Emptying
      /\ l.op = "live" /\ m.op = "move" /\ l.category = m.category
      /\ Live(c) = <<l>> /\ Do("move", c) = <<m>>
  BY DEF Ordinary, Harmless, Steps, AnyCategory, Opening, Emptying, Live, Do
<1>2. /\ Sound(B) /\ B \in Seq(Ordinary) /\ B \in Seq(Steps) /\ Apply \in Seq(Ordinary)
      /\ \A d, v, q : Keeps(B, s, d, v, q, 0)
  <2>1. Apply \in Seq(Ordinary)
    <3> DEFINE n == Need({"reminder_id"})
               o == <<[op |-> "opened"]>>
    <3>1. /\ Read \in Seq(Ordinary) /\ n \in Seq(Ordinary) /\ Try \in Seq(Ordinary)
          /\ o \in Seq(Ordinary)
      BY Pieces DEF Keys
    <3> HIDE DEF n, o
    <3>2. Read \o n \o o \o Try \in Seq(Ordinary)
      BY <3>1
    <3> QED BY <3>2 DEF n, o, Apply
  <2>2. Sound(B) /\ \A d, v, q : Keeps(B, s, d, v, q, 0)
    BY ClearDone, ReadThen DEF BackToCard
  <2> QED BY <2>1, <2>2, OrdinaryIsStep DEF Sound
<1> HIDE DEF l, m, B
<1>3. Follows(l, m)
  BY <1>1 DEF Follows
<1>4. Sound(V)
  BY <1>1, <1>2, <1>3, SoundWrite
<1>5. U \in Seq(Steps) /\ \A d, v, q : Keeps(U, s, d, v, q, 0)
  <2>1. U \in Seq(Steps)
    BY <1>1, <1>2, Joined
  <2>2. \A d, v, q : Keeps(U, s, d, v, q, 0)
    BY <1>1, <1>2, KeepsWrite
  <2> QED BY <2>1, <2>2
<1>6. Apply \o <<l>> \o <<m>> \o B = Apply \o V
  <2>1. <<l>> \in Seq(Ordinary) /\ <<m>> \in Seq(Ordinary)
    BY <1>1
  <2> QED BY <1>2, <2>1
<1> HIDE DEF U
<1>7. \A d, v, q : Answerable(s, d, q) => Keeps(V, s, d, v, q, 0)
  BY <1>1, <1>5, KeepsCheck DEF Stopping
<1> HIDE DEF V
<1>8. Starts(Apply \o V, s)
  BY <1>4, <1>7, ApplyThen
<1> QED BY <1>1, <1>6, <1>8 DEF B

\* The edit screens: the card is opened again, the wizard takes over with the
\* mark of the edit, or one field is asked for.
LEMMA EditFieldStarts ==
  ASSUME NEW i \in Reminders, NEW s \in {None} \cup Edit, TypeOK
  PROVE  /\ Starts(Editable(i) \o Clear, s)
         /\ Starts(Editable(i) \o EditSchedule(i), s)
         /\ \A field \in Edit : Starts(Editable(i) \o FieldScreen(i, field), s)
<1>1. s # "form:emoji"
  BY DEF Edit, None
<1>2. Starts(Editable(i) \o Clear, s)
  BY <1>1, ClearDone, EditableThen DEF Starts
<1>3. Starts(Editable(i) \o EditSchedule(i), s)
  <2> DEFINE w == EditData(i, rems[i])
             a == [op |-> "replace", with |-> w, asks |-> Editing(i)]
             U == <<a>>
             V == PutAsking("wizard:kind", Same) \o U
  <2>1. /\ a \in Ordinary /\ a.op = "replace" /\ a.with = w /\ a.asks = Editing(i)
        /\ a # Opening /\ a # Emptying /\ a \in Steps /\ Editing(i) # Same /\ w # Empty
    <3>1. rems[i] \in AnyCategory
      BY DEF TypeOK, AnyCategory
    <3>2. a \in Ordinary /\ a \in Steps
      BY <3>1 DEF Ordinary, Steps
    <3>3. w # Empty
      BY EditDataFacts DEF Empty
    <3> QED BY <3>2, <3>3 DEF Opening, Emptying, Editing, Same
  <2>2. EditSchedule(i) = V
    BY DEF EditSchedule, ReplaceAsking, Put, Wizard
  <2>3. \A q : Answerable("wizard:kind", w, Editing(i))
    <3>1. Editing(w.edit_reminder_id) = Editing(i)
      BY EditDataFacts
    <3> HIDE DEF w
    <3>2. DOMAIN w = {"edit_reminder_id", "title", "category_id"}
      BY EditDataFacts DEF w
    <3> QED BY <3>1, <3>2 DEF Answerable, Expected, Draft, Wizard, Edit
  <2> HIDE DEF a, w
  <2>4. Sound(U)
    <3>1. Sound(<<a>> \o <<>>)
      BY <2>1, NothingSound, SoundFrom
    <3>2. <<a>> \o <<>> = <<a>>
      OBVIOUS
    <3> QED BY <3>1, <3>2
  <2>5. \A d, v, q : Keeps(U, "wizard:kind", d, v, q, 0)
    <3>1. \A v : Keeps(<<>>, "wizard:kind", w, v, Editing(i), 0)
      BY <2>3, KeepsDone
    <3>2. \A d, v, q : Keeps(<<a>> \o <<>>, "wizard:kind", d, v, q, 0)
      BY <2>1, <3>1, NothingSound, KeepsStep
    <3>3. <<a>> \o <<>> = <<a>>
      OBVIOUS
    <3> QED BY <3>2, <3>3
  <2> HIDE DEF U
  <2>6. "wizard:kind" \in States \ {"form:emoji"} /\ Same \in Asks \ {Opened}
    BY DEF States, Wizard, Asks, Same, Opened
  <2>7. Sound(V) /\ \A d, v, q : Keeps(V, s, d, v, q, 0)
    BY <2>4, <2>5, <2>6, PutThen
  <2> HIDE DEF V
  <2>8. Starts(Editable(i) \o V, s)
    BY <1>1, <2>7, EditableThen DEF Starts
  <2> QED BY <2>2, <2>8
<1>4. ASSUME NEW field \in Edit PROVE Starts(Editable(i) \o FieldScreen(i, field), s)
  <2> DEFINE w == Answer("reminder_id", i)
             a == [op |-> "replace", with |-> w, asks |-> Same]
             U == PutAsking(field, Editing(i))
             V == <<a>> \o U
  <2>1. /\ a \in Ordinary /\ a.op = "replace" /\ a.with = w /\ a.asks = Same
        /\ a # Opening /\ a # Emptying /\ a \in Steps /\ w # Empty
    <3>1. a \in Ordinary /\ a \in Steps
      BY DEF Ordinary, Steps
    <3>2. w # Empty
      BY DEF Answer, Empty
    <3> QED BY <3>1, <3>2 DEF Opening, Emptying
  <2>2. FieldScreen(i, field) = V
    BY DEF FieldScreen, ReplaceAsking
  <2>3. Answerable(field, w, Editing(i))
    <3>1. Editing(w.reminder_id) = Editing(i) /\ DOMAIN w = {"reminder_id"}
      BY DEF Answer
    <3> HIDE DEF w
    <3> QED BY <3>1 DEF Answerable, Expected, Wizard, Edit
  <2>4. /\ field \in States \ {"form:emoji"} /\ Editing(i) \in Asks \ {Opened}
        /\ Editing(i) # Same
    BY DEF States, Edit, Asks, Editing, Opened, Same
  <2> HIDE DEF a, w
  <2>5. /\ Sound(U) /\ U \in Seq(Steps)
        /\ \A t, v, q : Keeps(U, t, w, v, q, 0)
    BY <2>3, <2>4, PutDone, OrdinaryIsStep DEF Sound
  <2> HIDE DEF U
  <2>6. Sound(V)
    BY <2>1, <2>5, SoundFrom
  <2>7. \A d, v, q : Keeps(V, s, d, v, q, 0)
    BY <2>1, <2>5, KeepsStep
  <2> HIDE DEF V
  <2>8. Starts(Editable(i) \o V, s)
    BY <1>1, <2>6, <2>7, EditableThen DEF Starts
  <2> QED BY <2>2, <2>8
<1> QED BY <1>2, <1>3, <1>4

LEMMA DeleteStarts ==
  ASSUME NEW i \in Reminders
  PROVE  Starts(<<[op |-> "delete", reminder |-> i]>>, None)
<1> DEFINE a == [op |-> "delete", reminder |-> i]
<1>1. /\ a \in Ordinary /\ a \in Steps /\ a # Opening /\ a # Emptying /\ a.op = "delete"
  BY DEF Ordinary, Harmless, Steps, Opening, Emptying
<1> HIDE DEF a
<1>2. <<a>> \o <<>> = <<a>>
  OBVIOUS
<1>3. Sound(<<a>> \o <<>>) /\ <<a>> \o <<>> # <<>>
  BY <1>1, NothingSound, SoundFrom
<1>4. ASSUME NEW d, NEW v, NEW q, Answerable(None, d, q)
      PROVE  Keeps(<<a>> \o <<>>, None, d, v, q, 0)
  <2>1. Keeps(<<>>, None, d, v, q, 0)
    BY <1>4, KeepsDone
  <2> DEFINE T == <<>>
  <2>2. T \in Seq(Steps) /\ Keeps(T, None, d, v, q, 0)
    BY <2>1, NothingSound
  <2>3. 0 = IF a.op = "create" THEN 1 ELSE 0
    BY <1>1
  <2> HIDE DEF T
  <2>4. Keeps(<<a>> \o T, None, d, v, q, 0)
    BY <1>1, <2>2, <2>3, KeepsWrite
  <2> QED BY <2>4 DEF T
<1>5. Starts(<<a>>, None)
  BY <1>2, <1>3, <1>4 DEF Starts, None
<1> QED BY <1>5 DEF a

---------------------------------------------------------------------------
(* The category form.                                                      *)

\* The category to be renamed is kept after its question is asked.
LEMMA RenameStarts ==
  ASSUME NEW c \in Own
  PROVE  Starts(Live(c) \o Put("form:rename") \o Update(Answer("category_id", c)), None)
<1> DEFINE w == Answer("category_id", c)
           u == Update(w)
           p == Put("form:rename")
           U == u \o <<>>
           V == p \o U
           W == Live(c) \o V
           s == "form:rename"
<1>1. /\ w \in Merged /\ c \in AnyCategory /\ DOMAIN w = {"category_id"}
      /\ s \in States \ {"form:emoji"} /\ Nothing \in Asks \ {Opened} /\ Nothing # Same
      /\ p = PutAsking(s, Nothing)
  BY DEF Merged, Categories, AnyCategory, Answer, States, Form, Asks, Nothing, Opened, Same,
         Put, Wizard, Edit
<1> HIDE DEF w
<1>2. \A d : Answerable(s, Over(w, d), Nothing)
  BY <1>1 DEF Answerable, Expected, Over, Wizard, Edit
<1>3. /\ Sound(U) /\ U \in Seq(Steps)
      /\ \A d, v : Keeps(U, s, d, v, Nothing, 0)
  <2> DEFINE T == <<>>
  <2>1. \A d, v : Keeps(T, s, Over(w, d), v, Nothing, 0)
    BY <1>2, KeepsDone
  <2>2. Sound(T)
    BY NothingSound
  <2> HIDE DEF T
  <2>3. Sound(u \o T) /\ u \o T \in Seq(Steps) /\ \A d, v : Keeps(u \o T, s, d, v, Nothing, 0)
    BY <1>1, <2>1, <2>2, UpdateThen
  <2> QED BY <2>3 DEF T
<1>4. Live(c) \o p \o u = W
  <2> DEFINE l == Live(c)
  <2>1. l \in Seq(Ordinary) /\ p \in Seq(Ordinary) /\ u \in Seq(Ordinary)
    BY <1>1, Pieces, PutDone DEF Sound
  <2> HIDE DEF l, p, u
  <2>2. l \o p \o u = l \o (p \o (u \o <<>>))
    BY <2>1, SMTT(60)
  <2> QED BY <2>2 DEF l
<1> HIDE DEF U
<1>5. /\ Sound(V)
      /\ \A t, d, v, q : Keeps(V, t, d, v, q, 0)
  BY <1>1, <1>3, PutThen
<1> HIDE DEF V
<1>6. Starts(W, None)
  BY <1>1, <1>5, LiveThen DEF Starts, None
<1> QED BY <1>4, <1>6 DEF w, u, p

\* The title is written right behind its comparison with the others.
LEMMA RenameTextStarts ==
  ASSUME NEW t \in Titles
  PROVE  Starts(Read \o Need({"category_id"})
                \o <<[op |-> "renamable", title |-> t], [op |-> "rename", title |-> t]>> \o Clear,
                "form:rename")
<1> DEFINE a == [op |-> "renamable", title |-> t]
           b == [op |-> "rename", title |-> t]
           n == Need({"category_id"})
           U == <<b>> \o Clear
           V == <<a>> \o U
           W == n \o V
           s == "form:rename"
<1>1. /\ a \in Ordinary /\ b \in Ordinary /\ a \in Steps /\ b \in Steps
      /\ a # Opening /\ a # Emptying /\ b # Opening /\ b # Emptying
      /\ a.op = "renamable" /\ b.op = "rename" /\ a.title = b.title
      /\ {"category_id"} \in SUBSET Keys
  BY DEF Ordinary, Harmless, Steps, Opening, Emptying, Keys
<1> HIDE DEF a, b
<1>2. Follows(a, b)
  BY <1>1 DEF Follows
<1>3. Sound(V)
  BY <1>1, <1>2, ClearDone, SoundWrite
<1>4. Clear \in Seq(Ordinary) /\ Clear \in Seq(Steps)
  BY ClearDone, OrdinaryIsStep DEF Sound
<1>5. U \in Seq(Steps) /\ U \in Seq(Ordinary)
  BY <1>1, <1>4, Joined
<1>6. \A d, v, q : Keeps(U, s, d, v, q, 0)
  <2>1. 0 = IF b.op = "create" THEN 1 ELSE 0
    BY <1>1
  <2> QED BY <1>1, <1>4, <2>1, ClearDone, KeepsWrite
<1>7. Read \o n \o <<a, b>> \o Clear = Read \o W
  <2>1. /\ Read \in Seq(Ordinary) /\ n \in Seq(Ordinary)
        /\ <<a, b>> \in Seq(Ordinary) /\ Clear \in Seq(Ordinary)
    BY <1>1, <1>4, Pieces
  <2>2. <<a, b>> \o Clear = V
    BY <1>1, <1>4, Pair, SMTT(60)
  <2> HIDE DEF n, V
  <2> DEFINE x == <<a, b>>
  <2>3. x \in Seq(Ordinary) /\ x \o Clear = V
    BY <2>1, <2>2
  <2> HIDE DEF x
  <2>4. Read \o n \o x \o Clear = Read \o (n \o (x \o Clear))
    <3>1. /\ Read \in Seq(Ordinary) /\ n \in Seq(Ordinary)
          /\ x \in Seq(Ordinary) /\ Clear \in Seq(Ordinary)
      BY <2>1, <2>3
    <3> QED BY ONLY <3>1, SMTT(60)
  <2> QED BY <2>3, <2>4 DEF x
<1> HIDE DEF U
<1>8. \A d, v, q : Answerable(s, d, q) => Keeps(V, s, d, v, q, 0)
  BY <1>1, <1>5, <1>6, KeepsCheck DEF Stopping
<1> HIDE DEF V
<1>9. /\ Sound(W)
      /\ \A d, v, q : Answerable(s, d, q) => Keeps(W, s, d, v, q, 0)
  BY <1>1, <1>3, <1>8, NeedThen
<1> HIDE DEF W
<1>10. Starts(Read \o W, s)
  BY <1>9, ReadThen DEF Starts
<1> QED BY <1>7, <1>10 DEF a, b

LEMMA ArchiveStarts ==
  ASSUME NEW c \in Own
  PROVE  Starts(Do("unused", c) \o Do("archive", c), None)
<1> DEFINE a == [op |-> "unused", category |-> c]
           b == [op |-> "archive", category |-> c]
           T == <<>>
           U == <<b>> \o T
           V == <<a>> \o U
<1>1. /\ a \in Ordinary /\ b \in Ordinary /\ a \in Steps /\ b \in Steps
      /\ a # Opening /\ a # Emptying /\ b # Opening /\ b # Emptying
      /\ a.op = "unused" /\ b.op = "archive" /\ a.category = b.category
      /\ Do("unused", c) = <<a>> /\ Do("archive", c) = <<b>>
  BY DEF Ordinary, Harmless, Steps, Opening, Emptying, Do
<1> HIDE DEF a, b
<1>2. Follows(a, b)
  BY <1>1 DEF Follows
<1>3. <<a>> \o <<b>> = V
  OBVIOUS
<1>4. Sound(T) /\ T \in Seq(Steps) /\ \A s, d, v, q : Answerable(s, d, q) => Keeps(T, s, d, v, q, 0)
  BY NothingSound, KeepsDone
<1> HIDE DEF T
<1>5. Sound(V) /\ V # <<>>
  BY <1>1, <1>2, <1>4, SoundWrite
<1>6. U \in Seq(Steps)
  BY <1>1, <1>4, Joined
<1>7. \A d, v, q : Answerable(None, d, q) => Keeps(U, None, d, v, q, 0)
  <2>1. 0 = IF b.op = "create" THEN 1 ELSE 0
    BY <1>1
  <2> QED BY <1>1, <1>4, <2>1, KeepsWrite
<1> HIDE DEF U
<1>8. \A d, v, q : Answerable(None, d, q) => Keeps(V, None, d, v, q, 0)
  BY <1>1, <1>6, <1>7, KeepsCheck DEF Stopping
<1> HIDE DEF V
<1>9. Starts(V, None)
  BY <1>5, <1>8 DEF Starts, None
<1> QED BY <1>1, <1>3, <1>9

\* The title of a new category, whatever the data holds.
LEMMA FormTitleStarts ==
  ASSUME NEW t \in Titles
  PROVE  LET T == Update(Answer("title", t)) \o Put("form:emoji")
             s == "form:title" IN
         /\ T # <<>> /\ Head(T).op = "merge" /\ Head(T) # Opening
         /\ \A d, v : Remaining(T, s, d, v)
         /\ \A d, v, q : Keeps(T, s, d, v, q, 0)
<1> DEFINE w == Answer("title", t)
           m == [op |-> "merge", with |-> w]
           o == [op |-> "store"]
           p == [op |-> "put", to |-> "form:emoji", asks |-> Nothing]
           P == <<p>>
           O == <<o>> \o P
           M == <<m>> \o O
           T == Update(w) \o Put("form:emoji")
<1>1. /\ m \in Steps /\ o \in Steps /\ p \in Steps
      /\ m.op = "merge" /\ m.with = w /\ m # Opening /\ o.op = "store"
      /\ p.op = "put" /\ p.to = "form:emoji" /\ p.asks = Nothing /\ Nothing # Same
      /\ Nothing # Opened
  BY DEF Steps, Ordinary, Opening, Nothing, Same, Opened
<1>2. /\ Put("form:emoji") = P /\ Update(w) = <<m, o>> /\ Store = <<o>> /\ Merge(w) = <<m>>
  BY DEF Put, PutAsking, Wizard, Edit, Update, Store, Merge
<1>3. DOMAIN w = {"title"}
  BY DEF Answer
<1> HIDE DEF m, o, p, w
<1>4. P \in Seq(Steps) /\ O \in Seq(Steps) /\ M \in Seq(Steps) /\ M # <<>> /\ Head(M) = m
  BY <1>1, Joined
<1>5. T = M
  <2>1. T = <<m, o>> \o P
    BY <1>2
  <2> HIDE DEF P, T
  <2>2. <<m, o>> \o P = <<m>> \o (<<o>> \o P)
    BY <1>1, <1>4, Pair, SMTT(60)
  <2> QED BY <2>1, <2>2
<1>6. T = Merge(Answer("title", t)) \o StoreTitle
  BY <1>2, <1>5 DEF StoreTitle, w
<1>7. \A d, v : Remaining(T, "form:title", d, v)
  BY <1>6 DEF Remaining, TakesTitle
<1>8. \A d, v, q : Keeps(T, "form:title", d, v, q, 0)
  <2>1. \A d : Answerable("form:emoji", Over(w, d), Nothing)
    BY <1>3 DEF Answerable, Expected, Over, Wizard, Edit
  <2>2. \A s, d, v, q : Keeps(P, s, Over(w, d), v, q, 0)
    <3> DEFINE N == <<>>
    <3>1. N \in Seq(Steps) /\ P = <<p>> \o N
      BY NothingSound
    <3>2. \A d, v : Keeps(N, "form:emoji", Over(w, d), v, Nothing, 0)
      BY <2>1, KeepsDone
    <3> HIDE DEF N
    <3>3. \A s, d, v, q : Keeps(<<p>> \o N, s, Over(w, d), v, q, 0)
      BY <1>1, <3>1, <3>2, KeepsStep
    <3> QED BY <3>1, <3>3
  <2> HIDE DEF P
  <2>3. \A s, e, d, q : Keeps(O, s, e, Over(w, d), q, 0)
    BY <1>1, <1>4, <2>2, KeepsStep
  <2> HIDE DEF O
  <2>4. \A s, d, v, q : Keeps(M, s, d, v, q, 0)
    BY <1>1, <1>4, <2>3, KeepsStep
  <2> QED BY <1>5, <2>4
<1> QED BY <1>1, <1>4, <1>5, <1>7, <1>8 DEF w

\* Making the category, from a title that was kept.
LEMMA FormEmojiStarts ==
  LET T == CreateCategory \o Clear
      s == "form:emoji" IN
  /\ T # <<>> /\ Head(T).op = "read"
  /\ \A d : Titled(d) => Remaining(T, s, d, Empty)
  /\ \A d, v, q : Answerable(s, d, q) => Keeps(T, s, d, v, q, 0)
<1> DEFINE a == [op |-> "add"]
           u == [op |-> "unique"]
           n == [op |-> "need", keys |-> {"title"}]
           e == [op |-> "read"]
           s == "form:emoji"
           A == <<a>> \o Clear
           U == <<u>> \o A
           N == <<n>> \o U
           R == <<e>> \o N
           T == CreateCategory \o Clear
<1>1. /\ a \in Steps /\ u \in Steps /\ n \in Steps /\ e \in Steps
      /\ a.op = "add" /\ u.op = "unique" /\ n.op = "need" /\ e.op = "read"
  BY DEF Steps, Ordinary, Harmless
<1>2. Clear \in Seq(Steps)
  BY ClearDone, OrdinaryIsStep DEF Sound
<1>3. Read = <<e>> /\ Need({"title"}) = <<n>> /\ AddCategory = A /\ UniqueCategory = U
      /\ NeedTitle = N
  BY DEF Read, Need, AddCategory, UniqueCategory, NeedTitle
<1>4. CreateCategory = <<e>> \o <<n>> \o <<u, a>>
  BY DEF CreateCategory, Read, Need
<1> HIDE DEF a, u, n, e
<1>5. A \in Seq(Steps) /\ U \in Seq(Steps) /\ N \in Seq(Steps)
  BY <1>1, <1>2, Joined
<1>6. T = R
  <2> DEFINE x == <<u, a>>
             y == <<n>>
             z == <<e>>
  <2>1. x \in Seq(Steps) /\ y \in Seq(Steps) /\ z \in Seq(Steps) /\ Clear \in Seq(Steps)
    BY <1>1, <1>2
  <2>2. x \o Clear = U
    BY <1>1, <1>2, Pair, SMTT(60)
  <2> HIDE DEF x, y, z, U
  <2>3. z \o y \o x \o Clear = z \o (y \o (x \o Clear))
    BY <2>1, SMTT(60)
  <2> QED BY <1>4, <2>2, <2>3 DEF x, y, z
<1>7. R = Read \o NeedTitle
  BY <1>3
<1>8. \A d : Titled(d) => Remaining(T, s, d, Empty)
  BY <1>6, <1>7, EmptyOK DEF Remaining, AddsCategory
<1>9. \A d, v, q : Keeps(A, s, d, v, q, 0)
  <2>1. 0 = IF a.op = "create" THEN 1 ELSE 0
    BY <1>1
  <2> QED BY <1>1, <1>2, <2>1, ClearDone, KeepsWrite
<1> HIDE DEF A
<1>10. \A d, v, q : Answerable(s, d, q) => Keeps(U, s, d, v, q, 0)
  BY <1>1, <1>5, <1>9, KeepsCheck DEF Stopping
<1> HIDE DEF U
<1>11. \A d, v, q : Answerable(s, d, q) => Keeps(N, s, d, v, q, 0)
  BY <1>1, <1>5, <1>10, KeepsCheck DEF Stopping
<1> HIDE DEF N
<1>12. \A d, v, q : Answerable(s, d, q) => Keeps(R, s, d, v, q, 0)
  BY <1>1, <1>5, <1>11, KeepsStep
<1>13. T # <<>> /\ Head(T).op = "read"
  BY <1>6, <1>7, FormFacts
<1> HIDE DEF R
<1> QED BY <1>6, <1>8, <1>12, <1>13

---------------------------------------------------------------------------
(* Every handler starts a script that keeps the invariant.                 *)

LEMMA ScreensKeep ==
  ASSUME Inv, NEW r \in Runs, Runs = {r},
         \/ HandleNew(r) \/ HandleCancel(r) \/ HandleEditCancel(r) \/ HandleNavigate(r)
         \/ HandleStart(r) \/ HandleOnboardingTimezone(r) \/ HandleTimezone(r)
         \/ HandleTimezoneText(r) \/ HandleQuiet(r) \/ HandleQuietStart(r) \/ HandleQuietEnd(r)
         \/ HandleFormNew(r) \/ HandleFormCancel(r)
  PROVE  Inv'
<1>1. CASE HandleNew(r)
  BY <1>1, NewStarts, StartKeeps DEF HandleNew
<1>2. CASE HandleCancel(r)
  BY <1>2, ClearStarts, StartKeeps DEF HandleCancel
<1>3. CASE HandleEditCancel(r)
  BY <1>3, ClearStarts, StartKeeps DEF HandleEditCancel
<1>4. CASE HandleNavigate(r)
  BY <1>4, ClearStarts, StartKeeps DEF HandleNavigate
<1>5. CASE HandleStart(r)
  BY <1>5, ClearStarts, PutStarts, StartKeeps DEF HandleStart
<1>6. CASE HandleOnboardingTimezone(r)
  BY <1>6, ClearStarts, StartKeeps DEF HandleOnboardingTimezone
<1>7. CASE HandleTimezone(r)
  BY <1>7, ClearStarts, PutStarts, StartKeeps DEF HandleTimezone
<1>8. CASE HandleTimezoneText(r)
  BY <1>8, ClearStarts, StartKeeps DEF HandleTimezoneText
<1>9. CASE HandleQuiet(r)
  BY <1>9, ClearStarts, PutStarts, StartKeeps DEF HandleQuiet
<1>10. CASE HandleQuietStart(r)
  BY <1>10, AnswerStarts, StartKeeps DEF HandleQuietStart
<1>11. CASE HandleQuietEnd(r)
  BY <1>11, QuietHoursStart, StartKeeps DEF HandleQuietEnd
<1>12. CASE HandleFormNew(r)
  BY <1>12, PutStarts, StartKeeps DEF HandleFormNew
<1>13. CASE HandleFormCancel(r)
  BY <1>13, ClearStarts, StartKeeps DEF HandleFormCancel
<1> QED BY <1>1, <1>2, <1>3, <1>4, <1>5, <1>6, <1>7, <1>8, <1>9, <1>10, <1>11, <1>12, <1>13

LEMMA WizardKeeps ==
  ASSUME Inv, NEW r \in Runs, Runs = {r},
         \/ HandleCategory(r) \/ HandleTitle(r) \/ HandleKind(r) \/ HandleDate(r) \/ HandleAt(r)
         \/ HandleTime(r) \/ HandleTimesDone(r) \/ HandleWeekdays(r) \/ HandleMonthDays(r)
         \/ HandleMissingDay(r) \/ HandleInterval(r) \/ HandleWindow(r) \/ HandleConfirm(r)
  PROVE  Inv'
<1>1. CASE HandleCategory(r)
  BY <1>1, AnswerStarts, StartKeeps DEF HandleCategory
<1>2. CASE HandleTitle(r)
  BY <1>2, AnswerStarts, StartKeeps DEF HandleTitle
<1>3. CASE HandleKind(r)
  BY <1>3, KindStarts, StartKeeps DEF HandleKind
<1>4. CASE HandleDate(r)
  BY <1>4, AnswerStarts, StartKeeps DEF HandleDate
<1>5. CASE HandleAt(r)
  BY <1>5, FinishStarts, StartKeeps DEF HandleAt
<1>6. CASE HandleTime(r)
  BY <1>6, ToggleStarts, StartKeeps DEF HandleTime
<1>7. CASE HandleTimesDone(r)
  BY <1>7, TimesStarts, StartKeeps DEF HandleTimesDone
<1>8. CASE HandleWeekdays(r)
  <2> DEFINE T == Read \o NonEmpty("weekdays") \o Update(Answer("times", FALSE))
                  \o Put("wizard:times")
  <2>1. Handle(r, {"wizard:weekdays"}, Toggle("weekdays")) \/ Handle(r, {"wizard:weekdays"}, T)
    BY <1>8 DEF HandleWeekdays
  <2>2. Starts(Toggle("weekdays"), "wizard:weekdays") /\ Starts(T, "wizard:weekdays")
    BY ToggleStarts, WeekdaysStarts
  <2> HIDE DEF T
  <2> QED BY <2>1, <2>2, StartKeeps
<1>9. CASE HandleMonthDays(r)
  BY <1>9, ToggleStarts, MonthDaysStarts, StartKeeps DEF HandleMonthDays
<1>10. CASE HandleMissingDay(r)
  <2> DEFINE T == Update(Over(Answer("on_missing", Given), Answer("times", FALSE)))
                  \o Put("wizard:times")
  <2>1. Handle(r, {"wizard:on_missing"}, T)
    BY <1>10 DEF HandleMissingDay
  <2>2. Starts(T, "wizard:on_missing")
    BY AnswerStarts
  <2> HIDE DEF T
  <2> QED BY <2>1, <2>2, StartKeeps
<1>11. CASE HandleInterval(r)
  BY <1>11, AnswerStarts, StartKeeps DEF HandleInterval
<1>12. CASE HandleWindow(r)
  BY <1>12, FinishStarts, StartKeeps DEF HandleWindow
<1>13. CASE HandleConfirm(r)
  BY <1>13, ConfirmStarts, StartKeeps DEF HandleConfirm
<1> QED BY <1>1, <1>2, <1>3, <1>4, <1>5, <1>6, <1>7, <1>8, <1>9, <1>10, <1>11, <1>12, <1>13

LEMMA CardKeeps ==
  ASSUME Inv, NEW r \in Runs, Runs = {r},
         \/ HandleConfirmDelete(r) \/ HandleEditField(r) \/ HandleFieldAnswer(r)
         \/ HandleCategoryAnswer(r)
  PROVE  Inv'
<1>1. CASE HandleConfirmDelete(r)
  BY <1>1, DeleteStarts, StartKeeps DEF HandleConfirmDelete
<1>2. CASE HandleEditField(r)
  <2> DEFINE from == {None} \cup Edit
  <2>1. PICK i \in Reminders :
          \/ Handle(r, from, Editable(i) \o Clear)
          \/ Handle(r, from, Editable(i) \o EditSchedule(i))
          \/ \E field \in Edit : Handle(r, from, Editable(i) \o FieldScreen(i, field))
    BY <1>2 DEF HandleEditField
  <2>2. \A s \in from :
          /\ Starts(Editable(i) \o Clear, s)
          /\ Starts(Editable(i) \o EditSchedule(i), s)
          /\ \A field \in Edit : Starts(Editable(i) \o FieldScreen(i, field), s)
    BY EditFieldStarts DEF Inv
  <2> HIDE DEF from
  <2> QED BY <2>1, <2>2, StartKeeps
<1>3. CASE HandleFieldAnswer(r)
  BY <1>3, FieldAnswerStarts, StartKeeps DEF HandleFieldAnswer
<1>4. CASE HandleCategoryAnswer(r)
  BY <1>4, CategoryAnswerStarts, StartKeeps DEF HandleCategoryAnswer
<1> QED BY <1>1, <1>2, <1>3, <1>4

LEMMA FormKeeps ==
  ASSUME Inv, NEW r \in Runs, Runs = {r},
         \/ HandleFormTitle(r) \/ HandleFormEmoji(r) \/ HandleRename(r) \/ HandleRenameText(r)
         \/ HandleConfirmArchive(r)
  PROVE  Inv'
<1>1. CASE HandleFormTitle(r)
  <2>1. PICK t \in Titles :
          Handle(r, {"form:title"}, Update(Answer("title", t)) \o Put("form:emoji"))
    BY <1>1 DEF HandleFormTitle
  <2> DEFINE T == Update(Answer("title", t)) \o Put("form:emoji")
  <2>2. /\ T # <<>> /\ Head(T).op = "merge" /\ Head(T) # Opening
        /\ \A d, v : Remaining(T, "form:title", d, v)
        /\ \A d, v, q : Keeps(T, "form:title", d, v, q, 0)
    BY FormTitleStarts
  <2>3. Handle(r, {"form:title"}, T)
    BY <2>1
  <2> HIDE DEF T
  <2>4. fsm.state = "form:title"
    BY <2>3 DEF Handle
  <2> QED BY <2>2, <2>3, <2>4, HandleKeeps
<1>2. CASE HandleFormEmoji(r)
  <2> DEFINE T == CreateCategory \o Clear
  <2>1. Handle(r, {"form:emoji"}, T)
    BY <1>2 DEF HandleFormEmoji
  <2>2. /\ T # <<>> /\ Head(T).op = "read"
        /\ \A d : Titled(d) => Remaining(T, "form:emoji", d, Empty)
        /\ \A d, v, q : Answerable("form:emoji", d, q) => Keeps(T, "form:emoji", d, v, q, 0)
    BY FormEmojiStarts
  <2> HIDE DEF T
  <2>3. fsm.state = "form:emoji" /\ Titled(fsm.data)
    BY <2>1 DEF Handle, Inv, Chat
  <2>4. Head(T) # Opening
    BY <2>2 DEF Opening
  <2> QED BY <2>1, <2>2, <2>3, <2>4, HandleKeeps
<1>3. CASE HandleRename(r)
  BY <1>3, RenameStarts, StartKeeps DEF HandleRename
<1>4. CASE HandleRenameText(r)
  BY <1>4, RenameTextStarts, StartKeeps DEF HandleRenameText
<1>5. CASE HandleConfirmArchive(r)
  BY <1>5, ArchiveStarts, StartKeeps DEF HandleConfirmArchive
<1> QED BY <1>1, <1>2, <1>3, <1>4, <1>5

---------------------------------------------------------------------------
(* The invariant, and the properties it gives.                             *)

LEMMA NextKeeps ==
  ASSUME Inv, [Next]_vars, NEW r \in Runs, Runs = {r}
  PROVE  Inv'
<1>1. CASE \/ HandleNew(r) \/ HandleCancel(r) \/ HandleEditCancel(r) \/ HandleNavigate(r)
           \/ HandleStart(r) \/ HandleOnboardingTimezone(r) \/ HandleTimezone(r)
           \/ HandleTimezoneText(r) \/ HandleQuiet(r) \/ HandleQuietStart(r) \/ HandleQuietEnd(r)
           \/ HandleFormNew(r) \/ HandleFormCancel(r)
  BY <1>1, ScreensKeep
<1>2. CASE \/ HandleCategory(r) \/ HandleTitle(r) \/ HandleKind(r) \/ HandleDate(r) \/ HandleAt(r)
           \/ HandleTime(r) \/ HandleTimesDone(r) \/ HandleWeekdays(r) \/ HandleMonthDays(r)
           \/ HandleMissingDay(r) \/ HandleInterval(r) \/ HandleWindow(r) \/ HandleConfirm(r)
  BY <1>2, WizardKeeps
<1>3. CASE \/ HandleConfirmDelete(r) \/ HandleEditField(r) \/ HandleFieldAnswer(r)
           \/ HandleCategoryAnswer(r)
  BY <1>3, CardKeeps
<1>4. CASE \/ HandleFormTitle(r) \/ HandleFormEmoji(r) \/ HandleRename(r) \/ HandleRenameText(r)
           \/ HandleConfirmArchive(r)
  BY <1>4, FormKeeps
<1>5. CASE SetState(r)
  BY <1>5, SetStateKeeps
<1>6. CASE SetData(r)
  BY <1>6, SetDataKeeps
<1>7. CASE GetData(r)
  BY <1>7, GetDataKeeps
<1>8. CASE StoreData(r)
  BY <1>8, StoreDataKeeps
<1>9. CASE Check(r) \/ Refuse(r)
  BY <1>9, CheckKeeps
<1>10. CASE Branch(r)
  BY <1>10, BranchKeeps
<1>11. CASE CreateReminder(r) \/ MoveReminder(r) \/ DeleteReminder(r)
  BY <1>11, ReminderKeeps
<1>12. CASE WriteCategory(r)
  BY <1>12, CategoryKeeps
<1>13. CASE ReminderEnds
  BY <1>13, EndsKeeps
<1>14. CASE Age \/ UNCHANGED vars
  BY <1>14, AgeKeeps
<1>15. CASE Purge
  BY <1>15, PurgeKeeps
<1>16. CASE Crash
  BY <1>16, CrashKeeps
<1> QED BY <1>1, <1>2, <1>3, <1>4, <1>5, <1>6, <1>7, <1>8, <1>9, <1>10, <1>11, <1>12, <1>13,
           <1>14, <1>15, <1>16 DEF Next

\* At rest and uncut, the question on the screen can be answered.
LEMMA RestAnswerable ==
  ASSUME Inv, NEW r \in Runs, Runs = {r}, ~torn, ~InFlight
  PROVE  Answerable(fsm.state, fsm.data, asked) /\ made = 0
<1>1. run[r].todo = <<>>
  BY AtRest
<1>2. Good(Here(r))
  BY <1>1, PromiseRest DEF Inv
<1> QED BY <1>2 DEF Good, Here

LEMMA InvGives ==
  ASSUME Inv, NEW r \in Runs, Runs = {r}
  PROVE  TypeOK /\ NoOrphans /\ AnswersKept /\ EditsWhatWasOpened
<1>1. TypeOK /\ NoOrphans /\ Chat /\ Handling(r)
  BY DEF Inv
<1>2. AnswersKept
  BY RestAnswerable DEF AnswersKept, Answerable
<1>3. EditsWhatWasOpened
  <2>1. asked = Opened /\ fsm.state \in Wizard => "edit_reminder_id" \notin DOMAIN fsm.data
    BY <1>1 DEF Chat, NoEdit
  <2>2. ASSUME ~torn, ~InFlight
        PROVE  /\ fsm.state \in Edit =>
                    "reminder_id" \in DOMAIN fsm.data /\ asked = Editing(fsm.data["reminder_id"])
               /\ fsm.state \in Wizard /\ asked # Opened =>
                    /\ "edit_reminder_id" \in DOMAIN fsm.data
                    /\ asked = Editing(fsm.data["edit_reminder_id"])
    BY <2>2, RestAnswerable DEF Answerable
  <2> QED BY <2>1, <2>2 DEF EditsWhatWasOpened
<1> QED BY <1>1, <1>2, <1>3

\* With one handler at a time, every reachable state satisfies the invariant.
THEOREM InvHolds ==
  ASSUME OneHandler
  PROVE  Spec => []Inv
<1>1. PICK r \in Runs : Runs = {r}
  BY DEF OneHandler
<1>2. Init => Inv
  BY <1>1, InitInv
<1>3. Inv /\ [Next]_vars => Inv'
  BY <1>1, NextKeeps
<1> QED BY <1>2, <1>3, PTL DEF Spec

\* The row, the categories and the reminders keep their shape over every path
\* of the handlers, with kills and purges (bot/handlers, SQLAlchemyStorage).
THEOREM DialogsTypeCorrect ==
  ASSUME OneHandler
  PROVE  Spec => []TypeOK
<1>1. PICK r \in Runs : Runs = {r}
  BY DEF OneHandler
<1>2. Inv => TypeOK
  BY <1>1, InvGives
<1> QED BY <1>2, InvHolds, PTL

\* A reminder never sits in a category that was archived: archiving checks that
\* nothing uses the category, and a reminder is made or moved right behind the
\* check that its category is live (CategoriesService.archive, RemindersService).
THEOREM NoOrphansHolds ==
  ASSUME OneHandler
  PROVE  Spec => []NoOrphans
<1>1. PICK r \in Runs : Runs = {r}
  BY DEF OneHandler
<1>2. Inv => NoOrphans
  BY <1>1, InvGives
<1> QED BY <1>2, InvHolds, PTL

\* On every path through the wizard, the forms and the edit screens the data
\* holds what the handler of the next answer will read, unless a handler was
\* cut short (bot/handlers/reminders.py, manage.py, categories.py).
THEOREM AnswersKeptHolds ==
  ASSUME OneHandler
  PROVE  Spec => []AnswersKept
<1>1. PICK r \in Runs : Runs = {r}
  BY DEF OneHandler
<1>2. Inv => AnswersKept
  BY <1>1, InvGives
<1> QED BY <1>2, InvHolds, PTL

\* A wizard opened with /new never updates an old reminder, even after a kill or
\* a purge, and an edit goes to the reminder whose screen was opened last
\* (handle_new, handle_edit_field, handle_confirm).
THEOREM EditsWhatWasOpenedHolds ==
  ASSUME OneHandler
  PROVE  Spec => []EditsWhatWasOpened
<1>1. PICK r \in Runs : Runs = {r}
  BY DEF OneHandler
<1>2. Inv => EditsWhatWasOpened
  BY <1>1, InvGives
<1> QED BY <1>2, InvHolds, PTL
=============================================================================
