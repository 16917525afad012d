# TLA+ models of quizbot

Models, model-checking runs and machine-checked proofs for quizbot, a
spaced-repetition quiz program (Go): a command line, a Telegram bot and a
scheduler over one SQLite file. Source references are relative to
`src/internal/` unless they start with `src/`.

## The system

| Part | State it keeps | Operations | Meets the others through |
|---|---|---|---|
| Quiz engine (`core/engine.go`) | none of its own: rows of four tables | StartQuiz, NextQuestion, SubmitAnswer, GetSessionStatus, ResumeSession, FindResumableSession, AbandonSession | repository calls, one SQL statement each, no transaction, no lock |
| Spaced repetition (`core/repetition.go`) | ease, interval, repetition count, last result, next review of a question | CalculateNextReview, SelectNextQuestion | called by engine and scheduler |
| Interactive quiz (`cli/quiz.go`) | the session it runs, the question on the screen | quiz start, quiz resume | calls the engine; reads standard input |
| Scheduler (`core/scheduler.go`) | pending questions (mutex), time of the last delivery | a tick per minute, RecordAnswer, Start, Stop | store, messenger, notifier; one goroutine per process |
| Preferences commands (`cli/packs.go`, `cli/config.go`) | the row of user_preferences | packs activate / deactivate, config set | read and written back as a whole row |
| SQLite store (`store/sqlite/sqlite.go`) | quiz_packs, quiz_sessions, study_sessions, question_states, topic_stats, user_preferences | get, upsert, list | a missing row is `(nil, nil)`; times keep whole seconds |
| Notifier (`core/notifier.go`) | none | CheckNotifications | called by the scheduler after a delivery |
| Telegram messenger (`messenger/telegram`) | two channels of 64 events, a stop channel | SendQuestion, SendNotification, StartListening, StopListening | the scheduler sends; a goroutine receives updates; nobody receives the events |
| Lifecycle (`src/cmd/quizbot/main.go`) | the context | start everything, run one command, wait for a signal, stop | every command is a process with its own scheduler and bot |
| Importer (`importer`, `cli/import_cmd.go`) | none; replaces a row of quiz_packs | import | sessions and memories keep question ids of the pack they began with |
| Statistics, security, configuration | none | sums, encryption, environment | pure functions and I/O |

What is hard here is that *every command is a process*, all processes share one
database file, and the engine's operations are sequences of reads and whole-row
writes. So: lost updates between processes; operations cut short between two writes;
questions on a screen that were answered meanwhile; deliveries that time out while
they are answered; a pending list that dies with its process; numbers that grow
without bound; preferences that two commands write at once; a pack that is replaced
under a session; notifications nobody remembers having sent; channels that nobody
empties; a signal that meets goroutines anywhere. `PROJECT.json` lists each hazard at
its line with the properties that would catch it.

What makes each part correct:

- engine: a stored session can always be gone on with; the four tables agree
  when one client runs, and are never damaged when several do; an operation
  takes effect at once or not at all;
- repetition: the row tells the history it was computed from, the ladder of
  intervals only goes up while answers are correct;
- interactive quiz: no question is counted twice, a failure costs the record of one
  answer at most, every session is completed in the end;
- scheduler: nothing pending twice, nothing added beyond the limit the tick has read,
  skips are timeouts, delivery never stops for good;
- preferences: the row is always one the scheduler can work with, a command
  changes what it names;
- notifier: quiet hours are kept but for the length of a tick, no reminder to a user
  whose answers the check could have read, what stays true is announced in the end;
- messenger and lifecycle: events in order, an acknowledgement attempted for every
  button, a signal ends every goroutine and then the process, the database closed last;
- importer: an answer is judged by the question that was read, a session on a
  pack whose questions are there can be completed.

## Modules

`QuizCli` extends `QuizEngine`, which extends `SM2` and `Tables`; `QuizEngine`
instantiates `AnswerSheet`; `ReviewHistory` extends `SM2`; `Scheduler` extends
`Tables` and `Lists`, and so does `Notifier`; `Preferences` extends `SettingsRow`,
which extends `Lists`, and instantiates `Settings`; `Process` extends `Telegram`, which
extends `Lists`; `PackImport` stands alone, on `Tables`. The `MC`
modules only name the values of the constants that a `.cfg` cannot write.

| Module | Component | Composed with |
|---|---|---|
| `QuizEngine`, `AnswerSheet` | the engine, and what it promises | `QuizCli` |
| `QuizCli` | the interactive loop | |
| `SM2`, `ReviewHistory` | the algorithm, and its use over time | `QuizEngine` |
| `Scheduler` | the tick, with answers and preference changes around it | |
| `SettingsRow`, `Preferences`, `Settings` | commands on the preferences, and what they promise | |
| `Notifier` | notifications, over days of ticks and answers | |
| `Telegram` | the receiving side of the bot | `Process` |
| `Process` | main, command, scheduler goroutine and bot of one process | |
| `PackImport` | imports under a session | |
| `Tables`, `Lists` | what the modules above share | |
| `*Proofs` | theorems | |

### Tables
Tables of the store and Go maps as partial functions; `Put` is the upsert.

### Lists
The loops that filter a slice (`updated = append(updated, p)`), as a recursive
function of how far the loop is, so that it can be proved about.

### SM2
`CalculateNextReview` with its arithmetic. Ease factors are integers in
hundredths, which is exact (2.5, 1.3, steps of 0.1 and 0.32). Intervals are
integers in hundredths of a day; the product of interval and ease is truncated
where the code keeps a float64. Truncating keeps every comparison the properties
make: both are monotone, and the first two rungs are exact. `NextReviewAt` is
the conversion to `time.Duration`, with both results Go implementations give
when the interval is out of range.

### QuizEngine
`quiz`, `study`, `memory`, `topics` are the tables quiz_sessions,
study_sessions, question_states and topic_stats. `call[c]` is the operation a
client (a process) is in the middle of: the repository call it makes next and
the locals it still needs, among them the row it has computed and is about to
write. One action is one repository call:

| Go | Actions |
|---|---|
| StartQuiz | `StartQuiz` (reads, chooses the questions, SaveQuizSession), `CreateStudy` |
| SubmitAnswer | `SubmitAnswer` (GetQuizSession and the computation), `SaveAnswer` |
| updateQuestionState | `GetMemory`, `PutMemory` |
| updateTopicStats | `GetTopic`, `PutTopic` |
| recordStudyAttempt | `GetStudy`, `PutAttempt` |
| AbandonSession | `AbandonSession`, `SaveAbandoned`, `GetEnd`, `PutEnd` |
| an error or the death of the process between two calls | `Fail` |
| GetSession answered `(nil, nil)` and the nil is dereferenced | `NilStudy` |

Folded into one action are reads whose result no other client can change (the
pack, the question states that only order a practice session) and the row id,
which comes from the nanosecond clock. Questions of a practice session may come
in any order here: no property of the engine depends on it. `acked` is a history
variable: the answers whose SubmitAnswer has returned. A session id handed to
the engine is one StartQuiz has made (as the command line does).

### AnswerSheet
The abstract specification: a session is a sheet that is opened, filled in and
abandoned, each in one step on its latest state. `QuizEngine!ImplementsSheet`
maps a stored session to a sheet (its questions as a set, its answers, its
status). It says in particular that an answer may be filled in again and that
filling the last place of an abandoned sheet completes it: that is what the code
does.

### QuizCli
The interactive loop on top of the engine: a terminal runs one command,
`quiz start` or `quiz resume`; the loop asks for the next question, shows it,
waits, and submits. Between showing and submitting, other terminals run.
`Die` is the end of the input, an error or a kill, at any point.

### ReviewHistory
One row of question_states over a long history of reviews and of time passing,
when the reviews follow one another.

### Scheduler
The goroutine's tick, one action per critical section, repository call or message:
`Expire`, `FindSkipped` and `PutSkipped` (markSkipped), `LoadPrefs`, `Select`,
`SendQuestion`, `Track`. Between them `RecordAnswer`, answers through the engine, and
changes of the preferences happen; `CallFails` lets any call fail (`SkipFails`: a pack
that cannot be read is passed over, and a later active pack may own the question;
`SelectFails`: a pack or a row is left out of the choice; `SendFails`: the message may
have arrived all the same); `Restart` loses the memory of the process; `NilPack` is
the death by a pack that does not exist. From `LoadPrefs` to `Track` a tick carries
the packs and the limit it has read. Times are relative (age of a pending question,
time since the last delivery, time until a review), so the model is finite and runs
for ever, which the liveness properties need. A unit of time is the tick interval, a
tick takes less than one (`Pass` happens between ticks: the code runs a tick to its
end before it receives the next). Reviews overdue for `MaxOverdue` units or longer are
not told apart, so which of them is chosen is left open: more behaviours than the code
has, never fewer. `chat` is a history variable: the deliveries of this process that
are not settled, with their age and whether the engine has had an answer; one is
settled when its answer is recorded or it is skipped or given up. The notifications at
the end of a tick change no state of the scheduler and are in `Notifier`.

### SettingsRow, Preferences, Settings
`SettingsRow` is the row of user_preferences and what each command makes of a
row it has read: `Refused` (already active, not active, out of range) and
`Edited`. `Preferences` is the commands as processes: `Load` reads the row,
checks and works out the new one, `Save` writes every column back; `Fail` and
`DieAfterSave` are an error or the death of the process before and after the
write. `held[c].missed` is a history variable: the packs and keys others have
written since the row was read; a lost update is exactly a stale value there.
`acked` is the last command about each pack or key that has returned; it is forgotten
when a command that overlapped it writes. `Settings` is the promise to a user whose
commands follow each other: one command, one step, on the latest row.

### Telegram
The library's poller fills a bounded channel of updates; the goroutine of
StartListening takes them out (`TakeUpdate`, `HandleUpdate`), and ends when the
context is done (`SeeCancelled`) or when StopListening meets it. A send on the
unbuffered `stopCh` with a default case succeeds only when the receiver is already
waiting: the model tells `parked` from `busy` for that. `Acknowledge` is the one
request that removes the spinner of a button: it may fail, the code discards the error
and does not ask again. `sent`, `acked` and `refused` are history: what the user has
sent, which buttons have lost their spinner, and which keep it for good because the
request failed. The module has no specification of its own: its steps are those of
`Process`.

### Process
`main` of `src/cmd/quizbot/main.go`, one action per statement that other
goroutines can observe, with the goroutine of the scheduler (in its select, in a
tick, gone) and the goroutine of `Telegram`. `Interrupt` may come at any point:
before NotifyContext it kills the process, afterwards it cancels the context.
`ReadInput` waits for standard input until `InputArrives`.

### Notifier
Three actions of time and of the user (`Pass`, `Answer`, `ChangePrefs`) may come
between any two steps of the scheduler's `Tick` and of the check that follows a
delivery. The check makes one repository call at a time:

| Go | Actions |
|---|---|
| CheckNotifications, GetPreferences, inQuietHours | `Begin` |
| checkInactivity, the loop over packs and questions | `ReadQuestion` (`Review`) |
| checkStreak, the same loop and then the topics | `ReadQuestion` (`ReviewToday`), `ReadStats` |
| checkWeakTopics, checkMilestone: topics of a pack | `ReadStats` |
| the end of a type | `Conclude` |
| GetQuizPack fails inside a loop, which leaves the pack out | `PackUnread` |
| any other error, which drops everything found | `CheckFails` |
| the sends of deliverNotifications, each of which may fail | `SendNotification`, `Done` |

A check keeps what its locals keep: the preferences it has read, the types still to
do, the rows of this type still to read, and what it has found. Which row is read next
is left open. A unit of time is the delivery interval, and the hours of quiet hours are
units of a day; `Unset` is an hour that is empty or does not parse. One unit may begin
while a check is under way (`Late`): the check goes on with the time at which its tick
came (`TickMinute`, `Within`, `Today`). A second one does not begin before the first
one's tick is received, which is the assumption that a tick takes less than a delivery
interval. `studied`, `celebrated`, `quiet` and `fresh` are history: when the user last
answered a question of a pack, which milestones were heard of, how many units have
begun in quiet hours since they came or the preferences changed, and the packs answered
within the days of the check as it began, without those it could not read. Topics are
one for each pack.

### PackImport
Importing replaces the pack; a session keeps ids and looks them up in the pack
there is. Files have a format (Markdown ids are positions) and questions, of
which a question is its id, its text, the number of its choices and the correct
one. The calls of the engine are single steps here, since their interleaving is
in `QuizEngine`: what is between them is the user, with a question on the screen.
`verdict` is history: the question shown and the one it was judged by.

## Runs

| Run | Instance | What it shows |
|---|---|---|
| `engine_alone` | one client, 2 sessions, 2 questions, 2 choices, 4 operations, 1 failure | The writes land in order, the tables agree between operations, ended is closed, acknowledged answers stay; the engine implements AnswerSheet |
| `cli_alone` | one terminal, 2 sessions, 2 deaths, 7 operations | One attempt per question, the score agrees, answers are final, a failure leaves one answer at most without its attempt |
| `cli_shared` | 2 terminals on one session of 2 questions of one topic, 1 death | Rows of sessions, of studies and of topics, stored or held, are never damaged by lost updates, and the session is completed although answers get lost |
| `review` | 11 reviews | Counting, the ladder, correct answers never bring a review forward |
| `scheduler` | 2 packs with 2 questions and 1, a missing pack, limits 1 and 2, 1 answer, 1 change, 1 failure, for ever | Pending once, nothing added beyond the limit the tick has read, skips are timeouts of deliveries of this process; deliveries are settled and go on |
| `preferences` | 3 clients, 2 packs, 2 keys, 4 commands, 1 failure | No pack twice, no value out of range, a loss takes an overlap, what a command has set stays in effect |
| `process` | 3 buttons and 2 commands, event channels of 2, the library's of 1 | Events in order, every button's acknowledgement attempted, a cancelled context ends the bot, the database is open while it is used, a signal ends the process when the command gets its input |
| `notifier` | 2 packs, a day of 3 units, windows of every kind, 1 answer per pack, 1 change, 1 failure of any kind | Quiet hours are kept but for the length of a tick, no reminder against answers the check could read, a milestone that lasts is announced |
| `pack_import` | 3 versions of a pack and 3 invalid files, 4 imports, 1 death | Answers are judged by the question shown, a session whose questions are there is completed |

Three runs show a disagreement between the code and what the repository says of
it; each is a finding in `PROJECT.json`:

| Run | Said | What the code does |
|---|---|---|
| `answered_skipped` | "Unanswered questions are marked as skipped" (`src/SPEC.md:241`) | an answered one is too: nothing calls RecordAnswer |
| `missing_pack` | "Verify the pack exists." (`cli/packs.go:48`) | the store's `(nil, nil)` passes for a pack |
| `shared_ids` | "Spaced repetition runs independently per pack." (`src/SPEC.md:411`) | the pending list keeps bare question ids; with an id in two packs a skip is counted against the wrong one |

### Other disagreements

The models contain these behaviours, as the code does; the properties above are
stated so as to hold with them, by a premise (one terminal, input that arrives, a
pack that can be read) or by saying less. No run is kept for them.

- `src/SPEC.md:422` "Progress is saved after each answer." With two terminals on one
  session a later whole-row save removes an answer already acknowledged
  (`AckedAnswersKept` is a property of one client).
- `src/SPEC.md:396` "validated against the active session's expected question".
  SubmitAnswer makes no such check (`core/engine.go:276`): any question of the session is
  accepted, again and after completion. No property says otherwise; with two terminals
  the screen may be stale, and what is checked then is that the rows are not damaged
  and the session is completed (`cli_shared`).
- `core/repetition.go:25` "NextReviewAt = now + interval." After ten correct answers
  the interval overflows `time.Duration` (`CorrectNeverBringsForward` stops there).
- `core/engine.go:513` "the first is the most recent". Of two sessions started in
  one second the older may be resumed (`Resumable` leaves it open).
- `src/SPEC.md:452` "Changes take effect immediately". Of two commands that overlap, the one
  that writes last takes the other's change back (`Save` drops it from `acked`).
- `src/cmd/quizbot/main.go:83` "Set up graceful shutdown". A command that waits for
  input does not see the signal (the premise of `SignalEnds`).
- `messenger/telegram/telegram.go:117` "exits when ctx is cancelled or StopListening
  is called". The stop signal is lost unless the goroutine is in its select;
  only the context, cancelled earlier, ends it (`CancelEnds`).
- `messenger/telegram/telegram.go:185` "Acknowledge the callback query to remove the
  loading spinner." When the request fails the spinner stays: the error is discarded and
  nothing asks again (`SpinnersAreSeenTo` is about the attempt).
- `src/SPEC.md:294` "On answer: sends feedback, updates stats". Nothing receives from
  answerCh: no action of `Process` does.
- `src/SPEC.md:263` "Once per week", with "frequency capping is handled by the
  scheduler" (`core/notifier.go:246`). The readiness update comes with every delivery.
- `src/SPEC.md:270` "Notifications queued and delivered after quiet hours end."
  Nothing is queued; `MilestonesThatStay` therefore asks that the condition lasts.
- `src/SPEC.md:270` "Quiet hours respected". The hours are looked at before the check
  reads anything (`core/notifier.go:37`), the sends come after, so a notification can
  go out in the first unit of the quiet hours, or after the user has set them;
  `QuietAtNight` bounds that by the length of a tick. Questions are delivered at any
  hour: quiet hours are about notifications.
- `core/notifier.go:136` "No study activity in the last %d days". An answer given during the
  check, about a question it has read already, comes too late: the reminder is then
  untrue when it arrives. `RemindersAreTrue` speaks of the answers that were there when
  the check began.
- `src/SPEC.md:260` "No study in N days". Each question that expires counts as a
  review, so the reminder stays away while questions expire; `RemindersAreTrue` is about
  the reminders that do come.
- `core/notifier.go:97` "across all active packs". A pack that cannot be read is
  left out, and with it the reviews that speak against the reminder (the premise of
  `RemindersAreTrue`).
- `src/SPEC.md:269` "on a regular tick (hourly)". Conditions are looked at only after a
  delivery.
- `src/SPEC.md:424` "picks up from the last unanswered question". Without that
  question in the pack resume fails for ever (the premise of `SessionGoesOn`).
- `src/SPEC.md:321` "Immediate feedback with explanation." The loop indexes the choices
  it has shown with the key of the pack imported since, and may panic (a death in
  `PackImport`).

### Bounds

Two sessions, because a mistaken id or a mistaken choice of the session to resume
needs two; two questions, because order, skipping and completion need two and a
session of one is in the instances too; two clients, because a lost update needs two.
Four operations are enough for a start, two answers that complete the session and a
further answer or an abandonment. One failure at any point, because the properties
relate neighbouring writes; `MaxCalls` of `cli_alone` lets a session be started, die,
be resumed and be completed next to a second one. `FailuresCostOneAnswer` counts in
sessions that have a study session: one that was never created has no attempts at all.
In `cli_shared` the bound on operations is larger than what the terminals can use up
before the session is completed: two deaths or lost answers cost at most as many
operations again. There the user always enters the same choice, which is right for one
question and wrong for the other, to keep the instance small: the counters of the one
topic and of the study session then differ between the terminals, which is what a mix
of two updates would show. `engine_alone` has both choices for every question. Eleven
reviews reach the overflow of the interval at the tenth.

In the scheduler's run three questions may be due at once with limits of 1 and 2, so
nothing but the check of the limit keeps a third one from being added, or a second one
when the limit read is 1; the limit may be lowered while two are pending. `SkipTimeout`
is more than twice `DeliveryInterval`, so that the list is full before anything
expires. A skipped question is due again within the run. In `shared_ids` both packs
have the same id, which in the `scheduler` run they have not; the theorems have no such
restriction.

Three clients of the preferences, because a third can overwrite what a second has
already lost; two packs and two keys with a legal range each, and values inside and
outside of it. Event channels of two hold an order, and three buttons are one more
than they hold: the third meets a full channel, with the goroutine anywhere and
commands in between. What the user sends is named in the order of sending
(`NamedInOrder`, an action constraint that keeps one of the namings of each behaviour;
messages of a kind differ in nothing else, and the properties speak of all of them
alike). The windows of quiet hours reach over midnight, lie within the day, or do not
parse, in a day of three units, so that two quiet units can follow each other; ages
are told apart up to beyond the inactivity threshold. One answer for each pack,
together two, reach the milestone; one reaches a streak and a weak topic. With one
answer, one change of the preferences and one failure at any place between the reads
of a check, every order of a read of a pack and its answer occurs. Six files: the pack
grows, shrinks, changes its choices and permutes its ids, and each reason to refuse a
file occurs. Four imports replace the pack before, while and after a question is on
the screen. Deadlock is not checked: a bound can be used up, and the process of
`Process` ends.

### Fairness

`QuizCli`: a command that runs keeps running (weak fairness of its steps: the
engine has no locks to wait for). Strong fairness of entering a valid answer and
weak fairness of resuming say that the user goes on: the properties are about
what the program does for a user who does. There is none on starting a session
nor on dying.
`Scheduler`: time passes, and the goroutine takes its steps (weak fairness of
`Pass` and of `TickStep \/ NilPack`); the runtime schedules a runnable goroutine and
the ticker fires. No fairness for answers, changes or failures: deliveries go on
with nobody answering, and a process that has stopped is started again
(`Restart` is one step, which is the assumption that somebody does).
`Telegram`, `Process`: goroutines run and calls return (weak fairness). Strong
fairness of `SeeCancelled` and `SchedulerReturns` stands for Go's `select`, which
chooses at random among the cases that are ready: a context that is done is not
passed over for ever, although new updates and ticks can always be ready as well.
Strong fairness of `CommandReturns` says that a command reads a finite number of
lines. That the input arrives is no fairness but the premise of `SignalEnds`: without
it the process does not end. The user and the signal have no fairness.
`Notifier`: time passes, ticks and checks run. `MilestonesThatStay` has as its
premise, rather than as fairness, that questions go on being delivered outside of
quiet hours.
`PackImport`: the command runs, the user answers what is shown (strong: imports and
deaths may come in between) and resumes. The premise of `SessionGoesOn` is that the
questions of the session are in the pack from some time on.

## Proofs

Every invariant and every action property of a passing run is also a theorem, for
every value of the constants that satisfies the modules' assumptions:

| Module | Theorems | Of |
|---|---|---|
| `QuizProofs` | `TypeCorrect`, `QuizRowsStayConsistent`, `TopicRowsStayConsistent`, `StudyRowsStayConsistent`, `HeldRowsStayConsistent` | `QuizEngine`, any number of clients |
| | `SheetImplemented`, `NoAnswerIsLost`, `EndedSessionsAreClosed`, `WritesLandInOrder`, `TheBooksAgree` | `QuizEngine`, one client |
| | `TerminalsKeepRows` | `QuizCli`, any number of terminals |
| | `OneAttemptEach`, `NoAnswerChanges`, `TheScoreAgrees`, `FewAnswersUnrecorded` | `QuizCli`, one terminal |
| `ReviewProofs` | `TypeCorrect`, `RepsAlwaysCountTheRun`, `LadderHolds`, `CorrectPutsOff` | `ReviewHistory` |
| `PreferencesProofs` | `TypeCorrect`, `AlwaysUsable`, `LossNeedsOverlap`, `EffectsStay` | `Preferences` |
| | `SettingsImplemented` | `Preferences`, one client |
| `SchedulerProofs` | `TypeCorrect`, `PendingAreDistinct`, `PendingAreFew`, `SkipsAreOfDelivered` | `Scheduler` |
| `NotifierProofs` | `TypeCorrect`, `NightsFallQuiet`, `RemindersHold` | `Notifier` |
| `ProcessProofs` | `DatabaseOpen`, `InOrderOfSending` | `Process` with `Telegram` |
| `PackImportProofs` | `ImportTypes`, `AnswersJudgedAsShown` | `PackImport` |
| `DataProofs` | lemmas only | `Tables`, `Lists` |

"One client" is the assumption `OneClient` of the theorem, not of the module: the
same specifications are checked, and the first group proved, with any number.

### The engine

The first part of `QuizProofs` proves `Spec => []IInv` (`THEOREM Invariance`) under
`PackAssumption` and `BoundAssumption`: any number of clients, sessions,
questions, topics, choices and operations.

`IInv` is `TypeOK` with four parts. `QuizRowsConsistent`, `TopicRowsConsistent`
and `StudyRowsConsistent` are about the stored rows, and none of them is
inductive alone: a client writes a row it computed earlier, from a row that may
have been overwritten since. `HeldRowsConsistent` says the same of the rows the
clients hold. It survives the steps of other clients because it relates a held
row only to what never changes (the questions of a session, the existence of a
session), and that is the reason lost updates do no damage. The heart of the
arithmetic is the lemma about `SkipAnswered`: starting from a row whose index
stands at its first unanswered question, the new index stands there again, and
it is the end of the list exactly when everything is answered; with the
cardinalities of the two sets that makes the status right. One lemma per action
shows that it preserves `IInv`; the five properties follow.

The second part is about at most one client (`OneClient`). For the refinement
`Spec => ImplementsSheet` (`SheetImplemented`) the invariant `HeldRowsCurrent` is
what one client adds: the row about to be saved is what AfterAnswer makes of the
stored row *now*. Every step is then a step of AnswerSheet or leaves the sheet
alone.

The rest of it is what the four tables say of each other at every step and
wherever operations are cut short: `AckedAnswersKept`, `EndedIsClosed`,
`WritesInOrder`. There is no transaction around an operation, so the argument is
about the order of its writes. `OInv` says, for each point an operation can have
reached, what it has already written (`InOrder`: past `saveAnswer` the answer is
in the session, past `putMemory` its question has a memory, from `getEnd` on the
session is abandoned) and that the study session it holds is computed from the
stored one. `CInv` counts: `PutTopic` comes before `PutAttempt`, so a topic counts at
least the attempts on record (`Counted`) and strictly more while the operation is
between the two (`CountedAhead`). Recording an attempt adds at most one pair to
`AttemptsOn` (`OneNewAttempt`), which the strict inequality pays for; an operation
cut short in between leaves the counter too high for ever, which `Counted` allows.

`BooksAgree` is the equality, between operations and as long as nothing has failed.
It says nothing while an operation is under way, so it is far from inductive.
`BInv` says what the operation in progress still owes the tables (`Balanced`): after
`PutTopic` the total of its topic is one ahead (`Owed`), between saving the answer and
recording the attempt the answer may lack its attempt (`Recording`), a session that has
just been closed need not be ended (`Closing`), and a new one may lack its study session
(`Opened`). With nothing in progress nothing is owed, which is `BooksAgree`. That there
is one operation to owe it is where `OneClient` is needed, and the premise that
nothing failed is needed because an operation that is cut short never pays.
All of this part is false with two clients, where a stale write undoes an answer
that was acknowledged.

### Terminals

The third part is about `CliSpec`. With any number of terminals a step of a command
is a step of the engine, or a death, which is one of the engine's failures or hits no
operation at all (`EngineOrDie`); what is needed to see it is that a command stays with
a session that exists and shows questions that exist (`Commanded`). So `IInv` carries
over, and `TerminalsKeepRows` is what the run `cli_shared` checks with two.

With one terminal `TInv` adds to `OInv` that an operation in progress belongs to the
command that runs and to its session (`CallsOfCommands`), and that the question on the
screen is the one the stored session waits for (`ScreenIsNext`). The last is why
SubmitAnswer, which does not look, is only ever called for that question, and so why no
answer is overwritten (`AnswersAreFinal`) and none counted twice (`AtMostOneAttempt`);
with two terminals it fails.

`ScoreAgrees` compares a counter in the study session with a number worked out from
the answers in the quiz session. The counter is the number of correct attempts, which
`StudyRowsConsistent` says; each attempt records the answer as it was given and as it
still is (`AttemptsFinal`, which rests on answers being final); no question has two
attempts, and by `BInv` every answer has one. The attempts that are correct are
therefore mapped one to one onto the answers that are (`ScoreOfAttempts`), and the two
sets have the same size (`CountImage`).

`FailuresCostOneAnswer` is about what failures leave behind for good, so it holds the
number of failures against the answers without an attempt. In the midst of SubmitAnswer
there is one such answer more, between SaveAnswer and PutAttempt (`Pend`); `FInv` says
that, but for that one, they are no more than the failures (`Few`). An operation
that is cut short turns the one it has pending into one that counts, and a failure pays
for it; PutAttempt records its own answer and takes no other one off the record; and
since the next question asked is an unanswered one, no answer is given twice. A session
whose study session is missing has no answer by the time it is created
(the last part of `Few`), so creating it adds none to the count.

### The algorithm

`ReviewProofs` proves the properties of `ReviewHistory` (types,
`RepsCountTheRun`, `Ladder`, `CorrectNeverBringsForward`) for histories of any
length. `IInv` adds to them that the next review is an interval after the last
one as long as a time.Duration holds the interval (`DueInRange`) and that the last
review is not in the future; `CorrectNeverBringsForward` follows from it with
`Growth`: the truncating multiplication by an ease factor of at least 1.3 does not
shorten an interval.

### Preferences, scheduler, notifications

`PreferencesProofs` proves that the row stays usable (`AlwaysUsable`), that an
update is lost only to an overlap (`LossNeedsOverlap`) and that what a command has set
stays in effect (`EffectsStay`) for any number of clients, and for one client that the
two calls implement `Settings` (`SettingsImplemented`). A row written is a row worked
out earlier, so `RowsUsable` speaks of the held rows too. `OnlyOverlapsAreLost` is
what makes a held row comparable with the stored one: it differs from it at the
command's own target and at the targets in `missed` only; each write of another
client enters its target, and what it had missed itself, into the `missed` of
everyone else. So a write changes the stored row only at its own target, which it
acknowledges, and at the targets it has missed, which `acked` forgets: that is
`EffectsStay`. With one client `missed` is empty, the held row is therefore the
result of the command on the latest row, and the refinement follows.

`SchedulerProofs` proves types, `PendingOnce`, `PendingWithinLimit` and
`SkipsAreTimeouts` for any packs, questions, limits and timeouts, with one lemma for each
action; packs may share ids. The strengthening `IInv` says of every stage of a tick
what later stages rely on: the queue of expired questions is disjoint from the pending
list and without repetitions (`QueueOnce`), the question on its way is not pending, and
from the check of the limit on the list is shorter than the limit the tick has read
(`RoomLeft`), which survives because only the goroutine itself makes the list longer.
`DeliveriesKnown` relates the list to the deliveries: for whatever is pending there is a
delivery of a question of that id by this process, at least as old and not settled
(`Delivered`), and for whatever waits to be skipped one that is at least `SkipTimeout`
old. That is `SkipsAreTimeouts`. Which pack the id belonged to is not known, and that
a skip is counted for the pack that was delivered from is false (`shared_ids`).

`NotifierProofs` proves types, `QuietAtNight` and `RemindersAreTrue` for any packs,
thresholds and windows. That the code's comparison of hours (`InQuietHours`) covers
every minute a clock shows from the start until the end (`QuietArc`) is arithmetic
with remainders (`ArcIsQuiet`). `NightWatch` ties it to the check: one or two quiet
units mean that the last one or two minutes of the clock are in the window of the stored
preferences; and while a check is under way at most the unit that began after its tick is
quiet, since a check that had begun in one would have ended at `Begin`. The second one
cannot begin before the check has ended, so no send sees it: `QuietAtNight`. A reminder
rests on `StudyOnRecord`: every pack that was studied has a row at most as old as its
last study, since an answer writes a row, a skip only makes one younger, and time makes
both older alike, up to a bound above every threshold. `FreshSeen` carries it
through the reads of a check: a pack in `fresh` has a recent row, and as long as the
check has not seen one, a recent row of that pack is still to be read. Rows only get
younger during the check or older together with the time it has fixed, and a pack that
cannot be read leaves `fresh`; so a check that ends without a recent row has `fresh`
empty.

### The process

`ProcessProofs` proves the two safety properties of a process for any messages of the
user and any capacity of the channels. That the database is open while it is used
(`DatabaseOpen`) rests on the order of main's statements, `DbInv`: the goroutine of the
scheduler exists only between `Start` and the end of the wait for it in `Stop`, and the
deferred `Close` comes after. `EventsInOrder` compares a channel with everything the
user has ever sent, from which updates have since been taken one by one; `TgInv` says
where the rest is: the updates that are done with are the first *n* that were sent, and
after them, in this order and with nothing missing, come the one in the goroutine's
hands, those in the library's channel, and those at the server (`Follows`). A channel
holds the first `Capacity` of its kind among the *n* (`FirstOf`), and since a full
channel stays full, what is dropped is always the end: the first of the first *n* are
the first of them all (`KeepPrefix`).

### Imports

`PackImportProofs` proves the invariants of a session whose pack is replaced, for any
files. Its assumption about files (`ImportAssumption`) is no more than that they are
lists of questions; which of them are acceptable is what `Valid` decides. `PackInv`
says that the stored pack has passed Validate, so an id has one question at most
and its correct answer is one of its choices; `SessionInv` that a session is completed
exactly when its questions are all answered; `LoopInv`, which is why `JudgedAsShown`
holds, that the question on the screen is the one its id stands for now, *or* the pack
has been replaced since it was shown.

### Data

`DataProofs` has the facts about tables (`Put`, `Drop`), counting, and lists that the
others cite. `Keep` of a list without repetitions has none, its elements are those of
the list that are kept, it is not longer than the list, and a longer list is kept by
keeping what was added (`KeepPrefix`). `Keep` is a recursive function, and induction
theorems with an operator parameter are out of the prover's reach, so the facts about
it go by least counterexample (`LeastElement`): a set of positions at which the fact
fails has a least element, and the equation of the function refutes it there.
For cardinalities there are `CountImage`, that a function which repeats no value has as
many values as arguments, and `CountingDistinct`, that counting the answers to a list of
distinct questions is enough to know whether all of them are answered.

### Only model-checked

Out of reach of the prover and left to TLC are the liveness properties
(`EverySessionCompletes`, `EveryDeliveryIsSettled`, `DeliveryGoesOn`, `SpinnersAreSeenTo`,
`CancelEnds`, `SignalEnds`, `MilestonesThatStay`, `SessionGoesOn`), which need
fairness and ENABLED. The bounds (`MaxCalls`, `MaxFaults`, `MaxImports`, ...) remain in the
theorems as constants, of any size. Conversely `SettingsImplemented` is only proved: it
needs one client, and the run has three.

## Not modelled

- The parsing of JSON, YAML and Markdown beyond the ids it gives; the layout of
  messages and keyboards; formatting, logging.
- Time limits of mock tests and auto-abandonment: the code stores the limit and
  never looks at it, and nothing abandons a session by age.
- Statistics (`core/stats.go`, `cli/stats.go`): sums of floating-point weights that
  change nothing and are read in one go for display.
- Security, configuration, explainer: stateless helpers; sanitizer, crypto and
  explainer have no caller in the program.
- The test doubles (`store/mock_repository.go`, `messenger/mock_messenger.go`).
- SQL: a statement is atomic, as SQLite makes it; migrations run once before
  anything else.
- The flags and wiring of the command tree (`cli/root.go`).
- Which of two concurrent reviews of a question should win
  (`core/engine.go:408`, `core/scheduler.go:226`): nothing in the repository says.

## Order of the work

Done, in this order: `QuizEngine` with `AnswerSheet`, `SM2`, `ReviewHistory`,
`QuizCli`, `Scheduler`, their proofs; `Preferences` with `Settings`; `Telegram` and
`Process`; `Notifier`; `PackImport`; the proofs of the scheduler, the preferences, the
notifier and one terminal; the books and the score, the terminals that share a
session, the process and the imports. What could still be added: the composition of
`Scheduler` and `QuizEngine` on one table of memories, once it is decided what a lost
review should mean.
