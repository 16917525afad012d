------------------------------- MODULE Notifier -------------------------------
(***************************************************************************)
(* The notifications (internal/core/notifier.go) and what decides when     *)
(* they come: the scheduler looks for them after it has delivered a        *)
(* question (internal/core/scheduler.go, deliverNotifications), and only   *)
(* then.  Nothing remembers which were sent.                               *)
(*                                                                         *)
(* CheckNotifications reads the preferences, then, for one type after the  *)
(* other, the rows it needs, one by one; in between the user answers       *)
(* questions and changes the preferences in other processes.               *)
(*                                                                         *)
(* A unit of time is the delivery interval: one tick in it gets past the   *)
(* interval and may deliver.  A tick works with the time at which it came  *)
(* (now), also when the next unit begins before its last notification is   *)
(* out; a second one does not.  The details of a tick are in Scheduler.    *)
(***************************************************************************)
EXTENDS Integers, Sequences, FiniteSets, FiniteSetsExt, Tables, Lists

CONSTANTS
  Packs,          \* imported packs
  Questions,      \* pairs of a pack and a question
  PrefValues,        \* preferences the user may have
  MaxUnanswered,  \* max_unanswered
  DayLength,      \* units in a day
  SkipTimeout,    \* SchedulerConfig.SkipTimeout
  Intervals,      \* intervals an answered question may get; the least is the
                  \* one after a wrong answer or a skip
  Milestones,     \* milestones
  StreakAtRisk,   \* the streak worth a warning
  MaxAge,         \* bound: how long ago a review is told apart
  MaxAttempts,    \* bound: answers per pack
  MaxChanges,     \* bound: changes of the preferences
  MaxErrors       \* bound: calls that fail

\* An hour that is empty or does not parse.
Unset == -1

ASSUME NotifierAssumption ==
  /\ IsFiniteSet(Packs) /\ Questions \subseteq Packs \X STRING
  /\ DayLength \in Nat \ {0} /\ SkipTimeout \in Nat \ {0} /\ MaxUnanswered \in Nat
  /\ DayLength < MaxAge
  /\ Intervals \subseteq 1..MaxAge /\ Intervals # {}
  /\ Milestones \subseteq Nat /\ StreakAtRisk \in Nat \ {0}
  /\ \A c \in PrefValues :
       /\ c.active \subseteq Packs
       /\ c.days \in Nat /\ c.days * DayLength + 1 < MaxAge
       /\ {c.start, c.end} \subseteq Unset..(DayLength - 1)

ASSUME BoundAssumption ==
  {MaxAge, MaxAttempts, MaxChanges, MaxErrors} \subseteq Nat

VARIABLES
  rows,       \* question_states: time since LastReviewedAt, and the interval
  topics,     \* topic_stats, one topic for each pack
  prefs,      \* user_preferences
  pending,    \* Scheduler.pending, with the age of each question
  minute,     \* the time of the day
  fired,      \* the ticker's channel holds a tick
  check,      \* where CheckNotifications and the sends after it stand
  studied,    \* history: time since the last answer, for each pack
  celebrated, \* history: milestones the user has heard of
  quiet,      \* history: the units begun in quiet hours since these came or
              \* the preferences changed, up to 2
  fresh,      \* history: packs answered within the days of the check when it
              \* began, without those it could not read
  changes, errors     \* bounds

stored == <<rows, topics, prefs>>
history == <<studied, celebrated, quiet>>
bounds == <<changes, errors>>
vars == <<stored, pending, minute, fired, check, history, fresh, bounds>>

Types == <<"inactivity", "weak", "milestone", "streak", "readiness">>

AtMost(a, b) == IF a <= b THEN a ELSE b
-----------------------------------------------------------------------------
(* Time, as the tick under way sees it.                                    *)

Idle == [at |-> "idle"]

At(place) == check.at = place

\* The units that have begun since the tick under way.
Late == IF fired THEN 1 ELSE 0

\* now
TickMinute == (minute - Late) % DayLength

\* LastReviewedAt is not more than the days of preferences c before now.
Within(age, c) == age <= c.days * DayLength + Late

\* LastReviewedAt is not before the midnight before now.
Today(age) == age <= TickMinute + Late

\* Mutant of InQuietHours: no window reaches over midnight.
InQuietHoursByDay(t, c) == c.start # Unset /\ c.end # Unset /\ c.start <= t /\ t < c.end

\* A window within a day, or one over midnight.
InQuietHours(t, c) ==
  /\ c.start # Unset /\ c.end # Unset
  /\ IF c.start < c.end THEN c.start <= t /\ t < c.end ELSE c.start <= t \/ t < c.end
-----------------------------------------------------------------------------
(* The scheduler: a tick, and the notifications after a delivery.          *)

Skipped == [age |-> 0, interval |-> CHOOSE i \in Intervals : \A j \in Intervals : i <= j]

IsDue(k, table) == k \notin DOMAIN table \/ table[k].age >= table[k].interval

\* What timed out is marked as skipped, in the packs that are active; then a
\* question that is due and not pending is sent, if the limit allows.
Tick ==
  /\ At("idle") /\ fired
  /\ fired' = FALSE
  /\ LET left == {k \in DOMAIN pending : pending[k] < SkipTimeout}
         skipped == {k \in DOMAIN pending \ left : k[1] \in prefs.active}
         due == {k \in Questions \ left : k[1] \in prefs.active /\ IsDue(k, rows')}
     IN  /\ rows' = [k \in DOMAIN rows \cup skipped |-> IF k \in skipped THEN Skipped ELSE rows[k]]
         /\ IF due # {} /\ Cardinality(left) < MaxUnanswered
              THEN /\ check' = [at |-> "begin"]
                   /\ \E k \in due : pending' = [l \in left \cup {k} |-> IF l = k THEN 0 ELSE pending[l]]
              ELSE pending' = [l \in left |-> pending[l]] /\ UNCHANGED check
  /\ UNCHANGED <<topics, prefs, minute, history, fresh, bounds>>

(* CheckNotifications: one read after the other.  The order of the rows     *)
(* within a type is left open.                                             *)

\* The type whose condition is looked at.
TypeOf(todo) == IF todo = <<>> THEN "none" ELSE Head(todo)

\* The rows that the condition asks for: question states, and topic stats.
QuestionsFor(todo, c) ==
  {k \in Questions : k[1] \in c.active /\ TypeOf(todo) \in {"inactivity", "streak"}}

StatsFor(todo, c) ==
  {p \in c.active : TypeOf(todo) \in {"weak", "milestone", "streak"}}

\* The check of preferences c that goes on with what is left to do.
Check(c, todo, found) ==
  [at |-> "evaluate", prefs |-> c, todo |-> todo, found |-> found,
   questions |-> QuestionsFor(todo, c), stats |-> StatsFor(todo, c),
   recent |-> FALSE, total |-> 0]

Reading(type) == At("evaluate") /\ TypeOf(check.todo) = type

\* The preferences are read; in quiet hours that is all.
Begin ==
  /\ At("begin")
  /\ IF InQuietHours(TickMinute, prefs)
       THEN check' = Idle /\ UNCHANGED fresh
       ELSE /\ check' = Check(prefs, Keep(Types, prefs.on), {})
            /\ fresh' = {p \in prefs.active \cap DOMAIN studied : Within(studied[p], prefs)}
  /\ UNCHANGED <<stored, pending, minute, fired, history, bounds>>

OfPack(p) == {k \in Questions : k[1] = p}

\* Mutant of Review: the row read last decides, not the most recent one.
ReviewLast(k) ==
  check' = [check EXCEPT !.questions = @ \ {k},
             !.recent = k \in DOMAIN rows /\ Within(rows[k].age, check.prefs)]

\* checkInactivity: a question of an active pack; no row counts as inactive.
Review(k) ==
  check' = [check EXCEPT !.questions = @ \ {k},
             !.recent = @ \/ (k \in DOMAIN rows /\ Within(rows[k].age, check.prefs))]

\* checkStreak: a question reviewed today settles its pack.
ReviewToday(k) ==
  check' = IF k \in DOMAIN rows /\ Today(rows[k].age)
             THEN [check EXCEPT !.questions = @ \ OfPack(k[1]), !.stats = @ \ {k[1]}]
             ELSE [check EXCEPT !.questions = @ \ {k}]

ReadQuestion ==
  /\ \E k \in check.questions :
       \/ Reading("inactivity") /\ Review(k)
       \/ Reading("streak") /\ ReviewToday(k)
  /\ UNCHANGED <<stored, pending, minute, fired, history, fresh, bounds>>

\* Mutant of Attempts: wrong answers do not count.
AttemptsCorrect(p) == IF p \in DOMAIN topics THEN topics[p].correct ELSE 0

Attempts(p) == IF p \in DOMAIN topics THEN topics[p].attempts ELSE 0

Weak(p, c) ==
  p \in DOMAIN topics /\ topics[p].correct * 100 < c.pct * topics[p].attempts

AtRisk(p) == p \in DOMAIN topics /\ topics[p].streak >= StreakAtRisk

\* The topics of a pack, whose questions are done.
ReadStats ==
  /\ \E p \in check.stats :
       /\ check.questions \cap OfPack(p) = {}
       /\ LET read == [check EXCEPT !.stats = @ \ {p}]
          IN  \/ /\ Reading("weak")
                 /\ check' = IF Weak(p, check.prefs)
                               THEN [read EXCEPT !.found = @ \cup {<<"weak", p>>}] ELSE read
              \/ /\ Reading("milestone")
                 /\ check' = [read EXCEPT !.total = @ + Attempts(p)]
              \/ /\ Reading("streak")
                 /\ check' = IF AtRisk(p)
                               THEN [read EXCEPT !.found = @ \cup {<<"streak", p>>}] ELSE read
  /\ UNCHANGED <<stored, pending, minute, fired, history, fresh, bounds>>

\* What the rows read for a condition come to.
Conclusion ==
  CASE Reading("inactivity") /\ check.prefs.active # {} /\ ~ check.recent -> {<<"inactivity">>}
    [] Reading("milestone") -> {<<"milestone", m>> : m \in Milestones \cap {check.total}}
    [] Reading("readiness") -> {<<"readiness">>}
    [] OTHER -> {}

Conclude ==
  /\ At("evaluate") /\ check.todo # <<>> /\ check.questions = {} /\ check.stats = {}
  /\ check' = Check(check.prefs, Tail(check.todo), check.found \cup Conclusion)
  /\ UNCHANGED <<stored, pending, minute, fired, history, fresh, bounds>>

\* A pack that cannot be read is left out of the condition.
PackUnread ==
  /\ At("evaluate") /\ errors < MaxErrors
  /\ errors' = errors + 1
  /\ \E p \in check.prefs.active :
       /\ OfPack(p) # {} /\ OfPack(p) \subseteq check.questions
       /\ check' = [check EXCEPT !.questions = @ \ OfPack(p), !.stats = @ \ {p}]
       /\ fresh' = IF Reading("inactivity") THEN fresh \ {p} ELSE fresh
  /\ UNCHANGED <<stored, pending, minute, fired, history, changes>>

\* Any other error drops what was found so far.
CheckFails ==
  /\ At("begin") \/ (At("evaluate") /\ check.todo # <<>>)
  /\ errors < MaxErrors
  /\ errors' = errors + 1
  /\ check' = Idle /\ fresh' = {}
  /\ UNCHANGED <<stored, pending, minute, fired, history, changes>>

\* The notifications go out one by one; an error is ignored.
SendNotification ==
  /\ Reading("none")
  /\ \E n \in check.found :
       /\ check' = [check EXCEPT !.found = @ \ {n}]
       /\ \/ /\ celebrated' = celebrated \cup {m \in Milestones : n = <<"milestone", m>>}
             /\ UNCHANGED errors
          \/ errors < MaxErrors /\ errors' = errors + 1 /\ UNCHANGED celebrated
  /\ UNCHANGED <<stored, pending, minute, fired, studied, quiet, fresh, changes>>

Done ==
  /\ Reading("none") /\ check.found = {}
  /\ check' = Idle /\ fresh' = {}
  /\ UNCHANGED <<stored, pending, minute, fired, history, bounds>>

CheckStep ==
  \/ Begin
  \/ At("evaluate") /\ (ReadQuestion \/ ReadStats \/ Conclude)
  \/ SendNotification \/ Done
-----------------------------------------------------------------------------
(* The user, and time.                                                     *)

\* Mutant of Answer: a wrong answer keeps the streak going.
AnswerStreak(k, correct, interval) ==
  LET p == k[1]
      before == IF p \in DOMAIN topics THEN topics[p]
                ELSE [attempts |-> 0, correct |-> 0, streak |-> 0]
  IN  /\ before.attempts < MaxAttempts
      /\ rows' = Put(rows, k, IF correct THEN [age |-> 0, interval |-> interval] ELSE Skipped)
      /\ topics' = Put(topics, p,
           [attempts |-> before.attempts + 1,
            correct |-> before.correct + (IF correct THEN 1 ELSE 0),
            streak |-> before.streak + 1])
      /\ studied' = Put(studied, p, 0)
      /\ UNCHANGED <<prefs, pending, minute, fired, check, celebrated, quiet, fresh, bounds>>

\* SubmitAnswer of the engine, in another process.
Answer(k, correct, interval) ==
  LET p == k[1]
      before == IF p \in DOMAIN topics THEN topics[p]
                ELSE [attempts |-> 0, correct |-> 0, streak |-> 0]
  IN  /\ before.attempts < MaxAttempts
      /\ rows' = Put(rows, k, IF correct THEN [age |-> 0, interval |-> interval] ELSE Skipped)
      /\ topics' = Put(topics, p,
           [attempts |-> before.attempts + 1,
            correct |-> before.correct + (IF correct THEN 1 ELSE 0),
            streak |-> IF correct THEN before.streak + 1 ELSE 0])
      /\ studied' = Put(studied, p, 0)
      /\ UNCHANGED <<prefs, pending, minute, fired, check, celebrated, quiet, fresh, bounds>>

\* The minutes a clock shows from start until end.
QuietArc(c) ==
  IF c.start = Unset \/ c.end = Unset THEN {}
  ELSE {(c.start + i) % DayLength : i \in 0..(((c.end - c.start) % DayLength) - 1)}

ChangePrefs(c) ==
  /\ changes < MaxChanges
  /\ changes' = changes + 1
  /\ prefs' = c /\ quiet' = 0
  /\ UNCHANGED <<rows, topics, pending, minute, fired, check, studied, celebrated, fresh, errors>>

\* The next unit begins; the tick of the one before it is at least under way.
Pass ==
  /\ ~ fired
  /\ fired' = TRUE
  /\ minute' = (minute + 1) % DayLength
  /\ rows' = [k \in DOMAIN rows |-> [rows[k] EXCEPT !.age = AtMost(@ + 1, MaxAge)]]
  /\ pending' = [k \in DOMAIN pending |-> AtMost(pending[k] + 1, SkipTimeout)]
  /\ studied' = [p \in DOMAIN studied |-> AtMost(studied[p] + 1, MaxAge)]
  /\ quiet' = IF minute' \in QuietArc(prefs) THEN AtMost(quiet + 1, 2) ELSE 0
  /\ UNCHANGED <<topics, prefs, check, celebrated, fresh, bounds>>

Init ==
  /\ rows = EmptyTable /\ topics = EmptyTable
  /\ prefs \in PrefValues
  /\ pending = EmptyTable
  /\ minute = 0 /\ fired = FALSE
  /\ check = Idle
  /\ studied = EmptyTable /\ celebrated = {} /\ quiet = 0 /\ fresh = {}
  /\ changes = 0 /\ errors = 0

Next ==
  \/ Tick \/ CheckStep \/ PackUnread \/ CheckFails
  \/ \E k \in Questions, correct \in BOOLEAN, i \in Intervals : Answer(k, correct, i)
  \/ \E c \in PrefValues : ChangePrefs(c)
  \/ Pass

Spec == Init /\ [][Next]_vars

\* Time passes and the goroutine of the scheduler runs.
FairSpec == Spec /\ WF_vars(Pass) /\ WF_vars(Tick) /\ WF_vars(CheckStep)
-----------------------------------------------------------------------------
(* Properties.                                                             *)

Ages == 0..MaxAge

Notices ==
  {<<"inactivity">>, <<"readiness">>} \cup ({"weak", "streak"} \X Packs)
    \cup ({"milestone"} \X Milestones)

Checks ==
  [at : {"idle", "begin"}]
    \cup [at : {"evaluate"}, prefs : PrefValues, todo : Seq(Range(Types)), found : SUBSET Notices,
          questions : SUBSET Questions, stats : SUBSET Packs, recent : BOOLEAN, total : Nat]

TypeOK ==
  /\ IsTable(rows, Questions, [age : Ages, interval : Intervals])
  /\ IsTable(topics, Packs, [attempts : 1..MaxAttempts, correct : 0..MaxAttempts, streak : 0..MaxAttempts])
  /\ \A p \in DOMAIN topics : topics[p].streak <= topics[p].correct /\ topics[p].correct <= topics[p].attempts
  /\ prefs \in PrefValues
  /\ IsTable(pending, Questions, 0..SkipTimeout) /\ Cardinality(DOMAIN pending) <= MaxUnanswered
  /\ minute \in 0..(DayLength - 1) /\ fired \in BOOLEAN
  /\ check \in Checks
  /\ IsTable(studied, Packs, Ages)
  /\ celebrated \subseteq Milestones
  /\ quiet \in 0..2 /\ fresh \subseteq Packs

Sends(n) == Reading("none") /\ check'.at = "evaluate" /\ n \in check.found /\ n \notin check'.found

SendsAny == At("evaluate") /\ \E n \in check.found : Sends(n)

\* "Quiet hours respected" (SPEC.md): a tick looks at the hours once, before
\* its first read (notifier.go, CheckNotifications), and sends later.  But once
\* the hours the user has set have been quiet for longer than a tick takes, no
\* notification goes out, whether or not midnight lies between start and end.
QuietAtNight == [][SendsAny => quiet < 2]_vars

\* "No study activity in the last %d days" (notifier.go, checkInactivity) goes
\* to nobody who had answered a question of an active pack within those days
\* when the check began, unless that pack could not be read.  An answer given
\* during the check may come too late for it.
RemindersAreTrue == [][Sends(<<"inactivity">>) => fresh = {}]_vars

Total(active) == MapThenSumSet(LAMBDA p : topics[p].attempts, active \cap DOMAIN topics)

\* A user who stops at a milestone hears of it, provided that questions go on
\* being delivered by day, whatever failed before: there is no queue, but a
\* condition that still holds is found again (notifier.go, checkMilestone).
MilestonesThatStay ==
  \A m \in Milestones :
    (/\ <>[](Total(prefs.active) = m /\ "milestone" \in prefs.on)
     /\ []<>(At("begin") /\ ~ InQuietHours(TickMinute, prefs))) => []<>(m \in celebrated)
=============================================================================
