------------------------------ MODULE Dialogs ------------------------------
(***************************************************************************)
(* One user's chat with the bot (src/app/bot): every update is routed by   *)
(* the dialogue state read once, and its handler then changes the state,   *)
(* the collected answers and the user's categories and reminders in        *)
(* separate commits.  Handlers of the same user overlap when the rate      *)
(* limit lets them, the bot is killed between any two commits, and the     *)
(* reaper deletes a row nobody has written for a day.                      *)
(*                                                                         *)
(* A handler is a script of commits.  The user's answers are abstracted to *)
(* what later steps ask of them: whether a key is there, whether a list is *)
(* empty, and which category or reminder an identifier names.              *)
(***************************************************************************)
EXTENDS Naturals, Sequences, FiniteSets

CONSTANTS Runs,       \* updates of the user that may be in flight at once
          Own,        \* identifiers of the user's own categories
          Titles,     \* category titles, equal when their casefold is
          Reminders,  \* identifiers of reminders
          CanCrash    \* whether the bot process may be killed

\* A preset category is nobody's own, and no title or category reads as "gone".
ASSUME IdentifiersAssumption ==
  /\ "system" \notin Own /\ "gone" \notin Own /\ "gone" \notin Titles

VARIABLES fsm,    \* the user's row of fsm_states
          cats,   \* own categories: the title of a live one, or Gone
          rems,   \* reminders: the category of one the planner still uses, or Gone
          run,    \* handlers in flight: what is left to do, the data last read
          asked,  \* what the questions on the screen are about (history)
          made,   \* reminders made since the wizard was opened (history)
          torn    \* a handler was cut short since the last clear (history)

history == <<asked, made, torn>>
vars == <<fsm, cats, rems, run, history>>

---------------------------------------------------------------------------
(* Dialogue states, collected answers and identifiers.                     *)

None == "none"
\* What a dialogue is about; Same leaves it as it is.
Nothing == <<"nothing">>
Opened == <<"new">>
Editing(i) == <<"edit", i>>
Same == <<"same">>
System == "system"          \* a preset category: always live, never edited
Gone == "gone"              \* not made yet, deleted or archived: refused alike
Categories == Own \cup {System}

Wizard == {"wizard:category", "wizard:title", "wizard:kind", "wizard:date", "wizard:at",
           "wizard:times", "wizard:weekdays", "wizard:month_days", "wizard:on_missing",
           "wizard:every_minutes", "wizard:window", "wizard:confirm"}
Edit == {"edit:title", "edit:note", "edit:category", "edit:snooze", "edit:repeat"}
Form == {"form:title", "form:emoji", "form:rename"}
Settings == {"settings:timezone", "settings:quiet_start", "settings:quiet_end"}
States == {None, "onboarding:timezone"} \cup Wizard \cup Edit \cup Form \cup Settings

Kinds == {"once", "daily", "weekly", "monthly", "interval"}
Lists == {"times", "weekdays", "month_days"}      \* stored as: is it non-empty
Given == "given"                                  \* an answer nobody looks into
Empty == [k \in {} |-> Given]
Answer(k, v) == [x \in {k} |-> v]
Over(new, old) ==
  [k \in DOMAIN new \cup DOMAIN old |-> IF k \in DOMAIN new THEN new[k] ELSE old[k]]

LiveCategory(c) == c = System \/ (c \in Own /\ cats[c] \in Titles)
LiveTitles(c) == {cats[d] : d \in {e \in Own \ {c} : LiveCategory(e)}}
Free == {i \in Reminders : rems[i] = Gone}
IsSet(data, k) == k \in DOMAIN data /\ data[k]

Idle == [todo |-> <<>>, seen |-> Empty]
Fresh == [state |-> None, data |-> Empty, old |-> FALSE]

Init ==
  /\ fsm = Fresh
  /\ cats = [c \in Own |-> Gone]
  /\ rems = [i \in Reminders |-> Gone]
  /\ run = [r \in Runs |-> Idle]
  /\ asked = Nothing /\ made = 0 /\ torn = FALSE

---------------------------------------------------------------------------
(* The commits a script is made of.                                        *)

PutAsking(s, a) == <<[op |-> "put", to |-> s, asks |-> a]>>
Put(s) == PutAsking(s, IF s \in Wizard \cup Edit THEN Same ELSE Nothing)
ReplaceAsking(d, a) == <<[op |-> "replace", with |-> d, asks |-> a]>>
Read == <<[op |-> "read"]>>
Update(d) == <<[op |-> "merge", with |-> d], [op |-> "store"]>>
Clear == Put(None) \o ReplaceAsking(Empty, Same)
Need(keys) == <<[op |-> "need", keys |-> keys]>>        \* KeyError otherwise
NonEmpty(k) == <<[op |-> "nonempty", key |-> k]>>       \* asks again otherwise
Try == <<[op |-> "try"]>>                               \* input or schedule refused
Live(c) == <<[op |-> "live", category |-> c]>>
Editable(i) == <<[op |-> "editable", reminder |-> i]>>
Do(what, c) == <<[op |-> what, category |-> c]>>

\* Routing: the handler is chosen by the state the update found.
Handle(r, from, script) ==
  /\ run[r] = Idle
  /\ fsm.state \in from
  /\ run' = [run EXCEPT ![r].todo = script]
  /\ UNCHANGED <<fsm, cats, rems, history>>

---------------------------------------------------------------------------
(* The wizard (bot/handlers/reminders.py).                                 *)

HandleNew(r) == Handle(r, States, Clear \o PutAsking("wizard:category", Opened))

HandleCategory(r) == \E c \in Categories :
  Handle(r, {"wizard:category"}, Update(Answer("category_id", c)) \o Put("wizard:title"))

HandleTitle(r) ==
  Handle(r, {"wizard:title"}, Update(Answer("title", Given)) \o Put("wizard:kind"))

\* What each kind asks first; a list that is about to be asked starts empty.
FirstQuestion(kind) ==
  CASE kind = "once"     -> Put("wizard:date")
    [] kind = "daily"    -> Update(Answer("times", FALSE)) \o Put("wizard:times")
    [] kind = "weekly"   -> Update(Answer("weekdays", FALSE)) \o Put("wizard:weekdays")
    [] kind = "monthly"  -> Update(Answer("month_days", FALSE)) \o Put("wizard:month_days")
    [] kind = "interval" -> Put("wizard:every_minutes")

HandleKind(r) == \E kind \in Kinds :
  Handle(r, {"wizard:kind"}, Update(Answer("kind", kind)) \o FirstQuestion(kind))

RememberDate == Update(Answer("date", Given)) \o Put("wizard:at")
HandleDate(r) == Handle(r, {"wizard:date"}, RememberDate)

ToConfirmation == Update(Answer("schedule", Given)) \o Put("wizard:confirm")
FinishOnce == Read \o Need({"date"}) \o ToConfirmation
HandleAt(r) == Handle(r, {"wizard:at"}, FinishOnce)

\* One press adds or removes one element, on the list as it was read.
Toggle(k) == Read \o <<[op |-> "toggle", key |-> k], [op |-> "store"]>>

HandleTime(r) == Handle(r, {"wizard:times"}, Toggle("times"))

HandleTimesDone(r) ==
  Handle(r, {"wizard:times"},
         Read \o NonEmpty("times") \o <<[op |-> "build"]>> \o ToConfirmation)

HandleWeekdays(r) ==
  \/ Handle(r, {"wizard:weekdays"}, Toggle("weekdays"))
  \/ Handle(r, {"wizard:weekdays"},
            Read \o NonEmpty("weekdays") \o Update(Answer("times", FALSE)) \o Put("wizard:times"))

HandleMonthDays(r) ==
  \/ Handle(r, {"wizard:month_days"}, Toggle("month_days"))
  \/ Handle(r, {"wizard:month_days"},
            Read \o NonEmpty("month_days") \o Put("wizard:on_missing"))

\* Mutant: the rule for a missing day is not stored.
HandleMissingDayUnkept(r) ==
  Handle(r, {"wizard:on_missing"}, Update(Answer("times", FALSE)) \o Put("wizard:times"))

HandleMissingDay(r) ==
  Handle(r, {"wizard:on_missing"},
         Update(Over(Answer("on_missing", Given), Answer("times", FALSE))) \o Put("wizard:times"))

AskWindow == Update(Answer("every_minutes", Given)) \o Put("wizard:window")
HandleInterval(r) == Handle(r, {"wizard:every_minutes"}, AskWindow)

FinishInterval == Read \o Need({"every_minutes"}) \o ToConfirmation
HandleWindow(r) == Handle(r, {"wizard:window"}, FinishInterval)

HandleCancel(r) == Handle(r, Wizard, Clear)

\* Mutant: creation trusts the category picked earlier.
FinishUnchecked(data) ==
  IF "edit_reminder_id" \in DOMAIN data
  THEN Need({"schedule"}) \o Editable(data.edit_reminder_id) \o Try
  ELSE Need({"category_id", "title", "schedule"}) \o Try
       \o (IF "category_id" \in DOMAIN data THEN Do("create", data.category_id) ELSE <<>>)

\* The marker of an edit, and nothing else, decides between update and create.
Finish(data) ==
  IF "edit_reminder_id" \in DOMAIN data
  THEN Need({"schedule"}) \o Editable(data.edit_reminder_id) \o Try
  ELSE Need({"category_id", "title", "schedule"}) \o Try
       \o (IF "category_id" \in DOMAIN data
           THEN Live(data.category_id) \o Do("create", data.category_id) ELSE <<>>)

HandleConfirm(r) ==
  /\ Cardinality(Free) >= Cardinality(Runs)      \* bound: one identifier for each press
  /\ Handle(r, {"wizard:confirm"}, Read \o <<[op |-> "finish"]>> \o Clear)

---------------------------------------------------------------------------
(* The card and the edit screens (bot/handlers/manage.py).                 *)

HandleConfirmDelete(r) == \E i \in Reminders :
  Handle(r, {None}, <<[op |-> "delete", reminder |-> i]>>)

\* Mutant: moving on from another field keeps the reminder that was open.
FieldScreenKeeping(i, field) ==
  (IF fsm.state = None THEN ReplaceAsking(Answer("reminder_id", i), Same) ELSE <<>>)
  \o PutAsking(field, Editing(i))

FieldScreen(i, field) ==
  ReplaceAsking(Answer("reminder_id", i), Same) \o PutAsking(field, Editing(i))

\* The marker of an edit, and what the wizard would ask for otherwise.
EditData(i, c) ==
  Over(Answer("edit_reminder_id", i), Over(Answer("title", Given), Answer("category_id", c)))

\* The state moves to the wizard before its data is there.
EditSchedule(i) ==
  Put("wizard:kind")
  \o ReplaceAsking(EditData(i, rems[i]), Editing(i))

HandleEditField(r) == \E i \in Reminders :
  \/ Handle(r, {None} \cup Edit, Editable(i) \o Clear)
  \/ Handle(r, {None} \cup Edit, Editable(i) \o EditSchedule(i))
  \/ \E field \in Edit : Handle(r, {None} \cup Edit, Editable(i) \o FieldScreen(i, field))

Apply == Read \o Need({"reminder_id"}) \o <<[op |-> "opened"]>> \o Try
BackToCard == Read \o Clear

HandleFieldAnswer(r) == Handle(r, Edit \ {"edit:category"}, Apply \o BackToCard)

HandleCategoryAnswer(r) == \E c \in Categories :
  Handle(r, {"edit:category"}, Apply \o Live(c) \o Do("move", c) \o BackToCard)

HandleEditCancel(r) == Handle(r, Edit, BackToCard)

---------------------------------------------------------------------------
(* Settings, onboarding and the screens that only navigate.                *)

\* /settings, /categories, /list, /today, /shared, /stats, /help and the
\* captions of the menu, in any state.
HandleNavigate(r) == Handle(r, States, Clear)

HandleStart(r) ==
  \/ Handle(r, States, Put("onboarding:timezone"))
  \/ Handle(r, States, Clear)

HandleOnboardingTimezone(r) == Handle(r, {"onboarding:timezone"}, Try \o Clear)

HandleTimezone(r) ==
  \/ Handle(r, States \ {"onboarding:timezone"}, Put("settings:timezone"))
  \/ Handle(r, States \ {"onboarding:timezone"}, Try \o Clear)

HandleTimezoneText(r) == Handle(r, {"settings:timezone"}, Try \o Clear)

\* Asking for the quiet hours keeps whatever the data holds.
HandleQuiet(r) ==
  \/ Handle(r, States, Put("settings:quiet_start"))
  \/ Handle(r, States, Clear)

RememberStart == Update(Answer("quiet_start", Given)) \o Put("settings:quiet_end")
HandleQuietStart(r) == Handle(r, {"settings:quiet_start"}, RememberStart)

SaveQuietHours == Read \o Need({"quiet_start"}) \o Try \o Clear
HandleQuietEnd(r) == Handle(r, {"settings:quiet_end"}, SaveQuietHours)

---------------------------------------------------------------------------
(* The category form (bot/handlers/categories.py).                         *)

HandleFormNew(r) == Handle(r, {None}, Put("form:title"))

HandleFormTitle(r) == \E t \in Titles :
  Handle(r, {"form:title"}, Update(Answer("title", t)) \o Put("form:emoji"))

CreateCategory == Read \o Need({"title"}) \o <<[op |-> "unique"], [op |-> "add"]>>
HandleFormEmoji(r) ==
  /\ Cardinality({c \in Own : cats[c] = Gone}) >= Cardinality(Runs)    \* bound
  /\ Handle(r, {"form:emoji"}, CreateCategory \o Clear)

HandleRename(r) == \E c \in Own :
  Handle(r, {None}, Live(c) \o Put("form:rename") \o Update(Answer("category_id", c)))

HandleRenameText(r) == \E t \in Titles :
  Handle(r, {"form:rename"},
         Read \o Need({"category_id"})
         \o <<[op |-> "renamable", title |-> t], [op |-> "rename", title |-> t]>> \o Clear)

HandleConfirmArchive(r) == \E c \in Own :
  Handle(r, {None}, Do("unused", c) \o Do("archive", c))

HandleFormCancel(r) == Handle(r, Form, Clear)

---------------------------------------------------------------------------
(* Carrying out a script, one commit at a time.                            *)

Next1(r) == Head(run[r].todo)
Doing(r, what) == run[r].todo # <<>> /\ Next1(r).op = what

Stop(r) == run' = [run EXCEPT ![r] = Idle]
Then(r, rest, data) ==
  run' = [run EXCEPT ![r] = IF rest = <<>> THEN Idle ELSE [todo |-> rest, seen |-> data]]
Advance(r) == Then(r, Tail(run[r].todo), run[r].seen)
StopUnless(r, ok) == IF ok THEN Advance(r) ELSE Stop(r)

\* set_state: the row is written, which also makes it young again.
SetState(r) ==
  /\ Doing(r, "put")
  /\ fsm' = [fsm EXCEPT !.state = Next1(r).to, !.old = FALSE]
  /\ asked' = IF Next1(r).asks = Same THEN asked ELSE Next1(r).asks
  /\ made' = IF Next1(r).asks = Opened THEN 0 ELSE made
  /\ Advance(r)
  /\ UNCHANGED <<cats, rems, torn>>

\* set_data; the one that empties the data is the end of a clear.
SetData(r) ==
  /\ Doing(r, "replace")
  /\ fsm' = [fsm EXCEPT !.data = Next1(r).with, !.old = FALSE]
  /\ asked' = IF Next1(r).asks = Same THEN asked ELSE Next1(r).asks
  /\ IF Next1(r).with = Empty /\ fsm.state = None
       THEN torn' = FALSE /\ made' = 0 ELSE UNCHANGED <<torn, made>>
  /\ Advance(r)
  /\ UNCHANGED <<cats, rems>>

\* update_data reads, then writes the merged dictionary back.
GetData(r) ==
  /\ \/ Doing(r, "read") /\ Then(r, Tail(run[r].todo), fsm.data)
     \/ Doing(r, "merge") /\ Then(r, Tail(run[r].todo), Over(Next1(r).with, fsm.data))
     \/ /\ Doing(r, "toggle")
        /\ LET k == Next1(r).key IN \E some \in IF IsSet(run[r].seen, k) THEN BOOLEAN ELSE {TRUE} :
             Then(r, Tail(run[r].todo), Over(Answer(k, some), fsm.data))
  /\ UNCHANGED <<fsm, cats, rems, history>>

StoreData(r) ==
  /\ Doing(r, "store")
  /\ fsm' = [fsm EXCEPT !.data = run[r].seen, !.old = FALSE]
  /\ Advance(r)
  /\ UNCHANGED <<cats, rems, history>>

\* The schedule the collected answers add up to (_schedule_from).
Buildable(data) ==
  /\ "kind" \in DOMAIN data
  /\ data.kind = "weekly" => IsSet(data, "weekdays")
  /\ data.kind = "monthly" => IsSet(data, "month_days") /\ "on_missing" \in DOMAIN data

OwnLive(c) == c \in Own /\ LiveCategory(c)
UsedBy(c) == {i \in Reminders : rems[i] = c}

\* What a handler finds missing, refused or gone ends it; the state stays.
Allowed(s, seen) ==
  CASE s.op = "need"      -> s.keys \subseteq DOMAIN seen
    [] s.op = "nonempty"  -> IsSet(seen, s.key)
    [] s.op = "build"     -> Buildable(seen)
    [] s.op = "live"      -> LiveCategory(s.category)
    [] s.op = "editable"  -> rems[s.reminder] # Gone
    [] s.op = "opened"    -> rems[seen.reminder_id] # Gone
    [] s.op = "unique"    -> seen.title \notin LiveTitles(System)
    [] s.op = "renamable" -> OwnLive(seen.category_id) /\ s.title \notin LiveTitles(seen.category_id)
    [] s.op = "unused"    -> OwnLive(s.category) /\ UsedBy(s.category) = {}

Check(r) ==
  /\ run[r].todo # <<>>
  /\ Next1(r).op \in {"need", "nonempty", "build", "live", "editable", "opened",
                      "unique", "renamable", "unused"}
  /\ StopUnless(r, Allowed(Next1(r), run[r].seen))
  /\ UNCHANGED <<fsm, cats, rems, history>>

\* The input is not valid, or the schedule has no moment left.
Refuse(r) ==
  /\ Doing(r, "try")
  /\ \E ok \in BOOLEAN : StopUnless(r, ok)
  /\ UNCHANGED <<fsm, cats, rems, history>>

Branch(r) ==
  /\ Doing(r, "finish")
  /\ Then(r, Finish(run[r].seen) \o Tail(run[r].todo), run[r].seen)
  /\ UNCHANGED <<fsm, cats, rems, history>>

CreateReminder(r) ==
  /\ Doing(r, "create")
  /\ \E i \in Free : rems' = [rems EXCEPT ![i] = Next1(r).category]
  /\ made' = made + 1
  /\ Advance(r)
  /\ UNCHANGED <<fsm, cats, asked, torn>>

\* Mutant: the reminder's own identifier is written where its category belongs.
MoveReminderAstray(r) ==
  /\ Doing(r, "move")
  /\ rems' = [rems EXCEPT ![run[r].seen.reminder_id] = run[r].seen.reminder_id]
  /\ Advance(r)
  /\ UNCHANGED <<fsm, cats, history>>

MoveReminder(r) ==
  /\ Doing(r, "move")
  /\ rems' = [rems EXCEPT ![run[r].seen.reminder_id] = Next1(r).category]
  /\ Advance(r)
  /\ UNCHANGED <<fsm, cats, history>>

DeleteReminder(r) ==
  /\ Doing(r, "delete")
  /\ rems' = [rems EXCEPT ![Next1(r).reminder] = Gone]
  /\ Advance(r)
  /\ UNCHANGED <<fsm, cats, history>>

\* The code of a new category is derived from those there are.  Of two handlers
\* that derive the same one at the same time the unique index lets one in; that
\* failure is left out, as only handlers that overlap can meet it.
WriteCategory(r) ==
  /\ \/ Doing(r, "add") /\ \E c \in Own : cats[c] = Gone /\ cats' = [cats EXCEPT ![c] = run[r].seen.title]
     \/ Doing(r, "rename") /\ cats' = [cats EXCEPT ![run[r].seen.category_id] = Next1(r).title]
     \/ Doing(r, "archive") /\ cats' = [cats EXCEPT ![Next1(r).category] = Gone]
  /\ Advance(r)
  /\ UNCHANGED <<fsm, rems, history>>

---------------------------------------------------------------------------
(* Around the handlers.                                                    *)

InFlight == \E r \in Runs : run[r] # Idle

\* The planner archives a reminder with nothing left to fire.
ReminderEnds == \E i \in Reminders :
  /\ rems[i] # Gone
  /\ rems' = [rems EXCEPT ![i] = Gone]
  /\ UNCHANGED <<fsm, cats, run, history>>

\* Nobody writes the row for FSM_TTL; handlers do not last that long.
Age ==
  /\ ~InFlight /\ fsm # Fresh /\ ~fsm.old
  /\ ~torn                        \* bound: as for Crash
  /\ fsm' = [fsm EXCEPT !.old = TRUE]
  /\ UNCHANGED <<cats, rems, run, history>>

\* The reaper deletes the row, perhaps after an update was routed by it.
Purge ==
  /\ fsm.old
  /\ fsm' = Fresh
  /\ asked' = Nothing
  /\ torn' = InFlight /\ made' = IF InFlight THEN made ELSE 0
  /\ UNCHANGED <<cats, rems, run>>

Crash ==
  /\ CanCrash /\ InFlight
  /\ ~torn                        \* bound: one cut before the data is cleared
  /\ run' = [r \in Runs |-> Idle]
  /\ torn' = TRUE
  /\ UNCHANGED <<fsm, cats, rems, asked, made>>

Next ==
  \/ \E r \in Runs :
       \/ HandleNew(r) \/ HandleCategory(r) \/ HandleTitle(r) \/ HandleKind(r)
       \/ HandleDate(r) \/ HandleAt(r) \/ HandleTime(r) \/ HandleTimesDone(r)
       \/ HandleWeekdays(r) \/ HandleMonthDays(r) \/ HandleMissingDay(r)
       \/ HandleInterval(r) \/ HandleWindow(r) \/ HandleCancel(r) \/ HandleConfirm(r)
       \/ HandleConfirmDelete(r) \/ HandleEditField(r) \/ HandleFieldAnswer(r)
       \/ HandleCategoryAnswer(r) \/ HandleEditCancel(r)
       \/ HandleNavigate(r) \/ HandleStart(r) \/ HandleOnboardingTimezone(r)
       \/ HandleTimezone(r) \/ HandleTimezoneText(r) \/ HandleQuiet(r)
       \/ HandleQuietStart(r) \/ HandleQuietEnd(r)
       \/ HandleFormNew(r) \/ HandleFormTitle(r) \/ HandleFormEmoji(r) \/ HandleRename(r)
       \/ HandleRenameText(r) \/ HandleConfirmArchive(r) \/ HandleFormCancel(r)
       \/ SetState(r) \/ SetData(r) \/ GetData(r) \/ StoreData(r) \/ Check(r) \/ Refuse(r)
       \/ Branch(r) \/ CreateReminder(r) \/ MoveReminder(r) \/ DeleteReminder(r) \/ WriteCategory(r)
  \/ ReminderEnds \/ Age \/ Purge \/ Crash

Spec == Init /\ [][Next]_vars

---------------------------------------------------------------------------
(* Properties.                                                             *)

\* The chat's row, the categories and the reminders keep their shape, and a
\* handler at rest remembers nothing.
TypeOK ==
  /\ fsm.state \in States /\ fsm.old \in BOOLEAN
  /\ \A k \in DOMAIN fsm.data \cap Lists : fsm.data[k] \in BOOLEAN
  /\ cats \in [Own -> {Gone} \cup Titles]
  /\ rems \in [Reminders -> {Gone} \cup Categories]
  /\ \A r \in Runs : run[r].todo = <<>> => run[r].seen = Empty
  /\ asked \in {Nothing, Opened} \cup {Editing(i) : i \in Reminders}
  /\ made \in Nat /\ torn \in BOOLEAN

\* What the handler of an answer will look for in the data.
Kept == {"category_id", "title"}
Draft(data) == IF "edit_reminder_id" \in DOMAIN data THEN {"title"} ELSE Kept
Expected(s, data) ==
  CASE s = "wizard:at"            -> Draft(data) \cup {"kind", "date"}
    [] s = "wizard:window"        -> Draft(data) \cup {"kind", "every_minutes"}
    [] s \in {"wizard:times", "wizard:weekdays", "wizard:month_days", "wizard:on_missing",
              "wizard:date", "wizard:every_minutes"} -> Draft(data) \cup {"kind"}
    [] s = "wizard:confirm"       -> Draft(data) \cup {"schedule"}
    [] s = "wizard:kind"          -> Draft(data)
    [] s = "wizard:title"         -> {"category_id"}
    [] s \in Edit                 -> {"reminder_id"}
    [] s = "form:emoji"           -> {"title"}
    [] s = "form:rename"          -> {"category_id"}
    [] s = "settings:quiet_end"   -> {"quiet_start"}
    [] OTHER                      -> {}

\* Whatever the path through the wizard, the forms and the screens that
\* interrupt them, a question on the screen can be answered: the data holds
\* every earlier answer its handlers rely on, and the days of a weekly or
\* monthly draft are there by the time the times are asked.  Nor is a wizard
\* that has made its reminder left there to be confirmed again.  Of handlers that
\* run one at a time, only one cut short (a kill, or the purge of the row it was
\* routed by) may break this; of two at once each may take away what the other
\* has found.
AnswersKept ==
  ~torn /\ ~InFlight =>
    /\ Expected(fsm.state, fsm.data) \subseteq DOMAIN fsm.data
    /\ fsm.state = "wizard:times" => Buildable(fsm.data)
    /\ fsm.state \in Wizard => made = 0

\* A wizard opened with /new makes a new reminder and never updates an old
\* one, even when a kill or the purge interrupts the handlers before it; and an
\* edit is applied to the reminder whose screen was opened last.
EditsWhatWasOpened ==
  /\ asked = Opened /\ fsm.state \in Wizard => "edit_reminder_id" \notin DOMAIN fsm.data
  /\ ~torn /\ ~InFlight =>
       LET Holds(k) == k \in DOMAIN fsm.data /\ asked = Editing(fsm.data[k]) IN
       /\ fsm.state \in Edit => Holds("reminder_id")
       /\ fsm.state \in Wizard /\ asked # Opened => Holds("edit_reminder_id")

\* A reminder that is not archived never sits in an archived category.
NoOrphans == \A i \in Reminders : rems[i] # Gone => LiveCategory(rems[i])

\* Two live categories of a user never share a title, as tech.md says of
\* create and rename.  Two handlers at once break it: each compares its title
\* with the categories before either has written one.
TitlesDiffer ==
  \A c, d \in Own : LiveCategory(c) /\ LiveCategory(d) /\ cats[c] = cats[d] => c = d
=============================================================================
