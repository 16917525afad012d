------------------------------ MODULE Scheduler ------------------------------
(***************************************************************************)
(* The scheduler goroutine (internal/core/scheduler.go): at every tick it  *)
(* expires the deliveries nobody answered, and delivers one more question  *)
(* if max_unanswered and the delivery interval allow it.                   *)
(*                                                                         *)
(* The mutex protects the list of pending questions alone; between two of  *)
(* its critical sections, and between two calls of the store or of the     *)
(* messenger, other goroutines and processes answer questions and change   *)
(* the preferences.  tick is where the goroutine stands in its cycle, with *)
(* the locals it still needs.                                              *)
(*                                                                         *)
(* Times are relative, so that the scheduler can run for ever in a finite  *)
(* model: the age of a pending question, the time since the last delivery, *)
(* the time left until a review.  A unit of time is the tick interval, and *)
(* a tick takes less than a unit.                                          *)
(***************************************************************************)
EXTENDS Integers, Sequences, FiniteSets, Functions, Lists, Tables

CONSTANTS
  Packs,            \* pack ids the user may name
  Imported,         \* packs the store has
  Questions,        \* question ids, unique within a pack only
  Contents,         \* questions of an imported pack
  Limits,           \* values of max_unanswered the user may set
  SkipTimeout,      \* SchedulerConfig.SkipTimeout
  DeliveryInterval, \* delivery_interval_min
  Day,              \* interval of a question that was skipped
  Intervals,        \* intervals an answered question may get
  MaxOverdue,       \* bound: how long a review that is overdue is told apart
  MaxAnswers,       \* bound: answers given through the engine
  MaxChanges,       \* bound: changes of the preferences
  MaxFaults         \* bound: failing calls and restarts

ASSUME SchedulerAssumption ==
  /\ Imported \subseteq Packs
  /\ Contents \in [Imported -> SUBSET Questions]
  /\ Limits \subseteq Nat \ {0}
  /\ SkipTimeout \in Nat \ {0}
  /\ DeliveryInterval \in Nat \ {0}
  /\ Day \in Intervals
  /\ Intervals \subseteq Nat \ {0}

ASSUME BoundAssumption ==
  {MaxOverdue, MaxAnswers, MaxChanges, MaxFaults} \subseteq Nat

VARIABLES
  rows,             \* table question_states: time until NextReviewAt
  active, limit,    \* user_preferences: active_pack_ids, max_unanswered
  pending,          \* Scheduler.pending, with the age of each question
  sinceSent,        \* time since lastSentAt, or Never
  fired,            \* the ticker's channel holds a tick
  tick,             \* where the goroutine stands
  chat,             \* history: the questions this process sent that are not settled
  answers, changes, faults    \* bounds

process == <<pending, sinceSent, fired, tick, chat>>
prefs == <<active, limit>>
bounds == <<answers, changes, faults>>
vars == <<rows, prefs, process, bounds>>
-----------------------------------------------------------------------------
(* Questions and their reviews.                                            *)

Keys == {k \in Imported \X Questions : k[2] \in Contents[k[1]]}

\* A question without a row has the zero time as its NextReviewAt, which is
\* more overdue than any other.
Wait(k) == IF k \in DOMAIN rows THEN rows[k] ELSE -(MaxOverdue + 1)

PendingIDs == {pending[i].q : i \in DOMAIN pending}

\* Mutant of Deliverable: a pending question may be delivered again.
DeliverableTwice(packs) ==
  {k \in Keys : k[1] \in Range(packs) /\ Wait(k) <= 0}

Deliverable(packs) ==
  {k \in Keys : k[1] \in Range(packs) /\ k[2] \notin PendingIDs /\ Wait(k) <= 0}

Position(packs, p) == CHOOSE i \in DOMAIN packs : packs[i] = p

\* Mutant of Chosen: only questions never seen are chosen.
ChosenUnseen(packs) == {k \in Deliverable(packs) : k \notin DOMAIN rows}

\* selectNextQuestion: the most overdue question; among those never seen, one
\* of the first pack that has any.  Which of them comes first in its pack is
\* left open, and so is the order of those overdue for MaxOverdue or longer.
Chosen(packs) ==
  {k \in Deliverable(packs) : \A l \in Deliverable(packs) :
     /\ Wait(k) <= Wait(l)
     /\ {k, l} \cap DOMAIN rows = {} => Position(packs, k[1]) <= Position(packs, l[1])}

\* markSkipped takes the first active pack that has a question of that id.
Owners(q) == {i \in DOMAIN active : active[i] \in Imported /\ q \in Contents[active[i]]}

\* GetQuizPack answers (nil, nil) for a pack the store does not have, and
\* the caller dereferences the nil.
MeetsNil(packs, before) == \E i \in DOMAIN packs : i < before /\ packs[i] \notin Imported
-----------------------------------------------------------------------------
(* One tick.                                                               *)

Idle == [at |-> "idle"]

At(step) == tick.at = step

Never == DeliveryInterval + 1

\* expireTimedOut goes on with the next expired question, or is done.
Skipping(queue) ==
  IF queue = <<>> THEN [at |-> "prefs"] ELSE [at |-> "skip", queue |-> queue]

\* Mutant of TimedOut: when one question has timed out, all pending ones have.
TimedOutTogether ==
  {e \in Range(pending) : \E d \in Range(pending) : d.age >= SkipTimeout}

TimedOut == {e \in Range(pending) : e.age >= SkipTimeout}

Ids(entries) == [i \in DOMAIN entries |-> entries[i].q]

\* Mutant of Expire: nothing expires while the scheduler is paused at
\* max_unanswered.
ExpireAfterPause ==
  /\ At("idle") /\ fired
  /\ fired' = FALSE
  /\ Len(pending) < limit
  /\ tick' = Skipping(Ids(Keep(pending, TimedOut)))
  /\ pending' = Keep(pending, Range(pending) \ TimedOut)
  /\ UNCHANGED <<rows, prefs, sinceSent, chat, bounds>>

\* The first critical section of expireTimedOut.
Expire ==
  /\ At("idle") /\ fired
  /\ fired' = FALSE
  /\ tick' = Skipping(Ids(Keep(pending, TimedOut)))
  /\ pending' = Keep(pending, Range(pending) \ TimedOut)
  /\ UNCHANGED <<rows, prefs, sinceSent, chat, bounds>>

\* The answer is recorded, or the question skipped or given up:
\* its delivery is settled.
Unsettled(q) == [k \in {l \in DOMAIN chat : l[2] # q} |-> chat[k]]

\* The goroutine goes on to the row of the question in that pack.
Owner(p) == [at |-> "skipPut", queue |-> tick.queue, pack |-> p]

FindSkipped ==
  /\ At("skip")
  /\ LET owners == Owners(Head(tick.queue))
     IN  IF owners = {}
           THEN /\ ~ MeetsNil(active, Len(active) + 1)
                /\ tick' = Skipping(Tail(tick.queue))
                /\ chat' = Unsettled(Head(tick.queue))
           ELSE \E i \in owners :
                  /\ \A j \in owners : i <= j
                  /\ ~ MeetsNil(active, i)
                  /\ tick' = Owner(active[i])
                  /\ UNCHANGED chat
  /\ UNCHANGED <<rows, prefs, pending, sinceSent, fired, bounds>>

PutSkipped ==
  /\ At("skipPut")
  /\ rows' = Put(rows, <<tick.pack, Head(tick.queue)>>, Day)
  /\ chat' = Unsettled(Head(tick.queue))
  /\ tick' = Skipping(Tail(tick.queue))
  /\ UNCHANGED <<prefs, pending, sinceSent, fired, bounds>>

\* Mutant of LoadPrefs: one question more than max_unanswered.
LoadPrefsOneMore ==
  /\ At("prefs")
  /\ tick' = IF Len(pending) <= limit /\ sinceSent >= DeliveryInterval
               THEN [at |-> "select", packs |-> active, limit |-> limit] ELSE Idle
  /\ UNCHANGED <<rows, prefs, pending, sinceSent, fired, chat, bounds>>

\* The preferences are read, then the number of pending questions.
LoadPrefs ==
  /\ At("prefs")
  /\ tick' = IF Len(pending) < limit /\ sinceSent >= DeliveryInterval
               THEN [at |-> "select", packs |-> active, limit |-> limit] ELSE Idle
  /\ UNCHANGED <<rows, prefs, pending, sinceSent, fired, chat, bounds>>

\* The question is on its way; the limit is that of the preferences read.
Sending(k) == [at |-> "send", key |-> k, limit |-> tick.limit]

Select ==
  /\ At("select")
  /\ ~ MeetsNil(tick.packs, Len(tick.packs) + 1)
  /\ IF Chosen(tick.packs) = {}
       THEN tick' = Idle
       ELSE \E k \in Chosen(tick.packs) : tick' = Sending(k)
  /\ UNCHANGED <<rows, prefs, pending, sinceSent, fired, chat, bounds>>

Sent == [answered |-> FALSE, age |-> 0]

SendQuestion ==
  /\ At("send")
  /\ chat' = Put(chat, tick.key, Sent)
  /\ tick' = [at |-> "track", key |-> tick.key, limit |-> tick.limit]
  /\ UNCHANGED <<rows, prefs, pending, sinceSent, fired, bounds>>

\* The delivery is tracked; the notifications that follow only read.
Track ==
  /\ At("track")
  /\ pending' = Append(pending, [q |-> tick.key[2], age |-> 0])
  /\ sinceSent' = 0
  /\ tick' = Idle
  /\ UNCHANGED <<rows, prefs, fired, chat, bounds>>

TickStep ==
  \/ Expire \/ FindSkipped \/ PutSkipped \/ LoadPrefs \/ Select \/ SendQuestion \/ Track
-----------------------------------------------------------------------------
(* Failures.                                                               *)

\* A question cannot be skipped when the preferences cannot be read.  A pack
\* that cannot be read is passed over, and a later one may have the question.
SkipFails ==
  LET q == Head(tick.queue)
  IN  /\ At("skip")
      /\ \/ tick' = Skipping(Tail(tick.queue)) /\ chat' = Unsettled(q)
         \/ \E f \in DOMAIN active, i \in Owners(q) :
              /\ f < i
              /\ \A j \in 1..(i - 1) : j # f => active[j] \in Imported /\ j \notin Owners(q)
              /\ tick' = Owner(active[i])
              /\ UNCHANGED chat

\* A pack or a row that cannot be read is left out of the selection.
SelectFails ==
  /\ At("select")
  /\ tick' \in {Idle} \cup {Sending(k) : k \in Deliverable(tick.packs)}
  /\ UNCHANGED chat

\* A question may arrive although sending it failed.
SendFails ==
  /\ At("send")
  /\ tick' = Idle
  /\ chat' \in {chat, Put(chat, tick.key, Sent)}

\* A call of the store or of the messenger returns an error: in most places
\* the tick ends, or the question is given up.
CallFails ==
  /\ faults < MaxFaults
  /\ faults' = faults + 1
  /\ \/ SkipFails \/ SelectFails \/ SendFails
     \/ At("skipPut") /\ tick' = Skipping(Tail(tick.queue)) /\ chat' = Unsettled(Head(tick.queue))
     \/ At("prefs") /\ tick' = Idle /\ UNCHANGED chat
  /\ UNCHANGED <<rows, prefs, pending, sinceSent, fired, answers, changes>>

\* A process starts with nothing pending and nothing sent.
StartAgain ==
  /\ pending' = <<>>
  /\ sinceSent' = Never
  /\ fired' = FALSE
  /\ tick' = Idle
  /\ chat' = EmptyTable

\* The process is stopped, or killed, and started again.
Restart ==
  /\ faults < MaxFaults
  /\ faults' = faults + 1
  /\ StartAgain
  /\ UNCHANGED <<rows, prefs, answers, changes>>

\* The process dies of the nil pack and is started again.
NilPack ==
  /\ \/ /\ At("skip")
        /\ LET owners == Owners(Head(tick.queue))
           IN  \E i \in owners \cup {Len(active) + 1} :
                 (\A j \in owners : i <= j) /\ MeetsNil(active, i)
     \/ At("select") /\ MeetsNil(tick.packs, Len(tick.packs) + 1)
  /\ StartAgain
  /\ UNCHANGED <<rows, prefs, bounds>>
-----------------------------------------------------------------------------
(* The rest of the program and the user.                                   *)

\* RecordAnswer, called by whoever receives the answer.  For a question that
\* is not pending, not yet or no more, it changes nothing.
RecordAnswer(q) ==
  /\ q \in PendingIDs
  /\ pending' = Keep(pending, {e \in Range(pending) : e.q # q})
  /\ chat' = Unsettled(q)
  /\ UNCHANGED <<rows, prefs, sinceSent, fired, tick, bounds>>

\* SubmitAnswer of the engine, in this process or another.
Answer(k, interval) ==
  /\ answers < MaxAnswers
  /\ answers' = answers + 1
  /\ rows' = Put(rows, k, interval)
  /\ chat' = [l \in DOMAIN chat |->
                [answered |-> l = k \/ chat[l].answered, age |-> chat[l].age]]
  /\ UNCHANGED <<prefs, pending, sinceSent, fired, tick, changes, faults>>

ChangePrefs ==
  /\ changes < MaxChanges
  /\ changes' = changes + 1
  /\ UNCHANGED <<rows, process, answers, faults>>

\* Mutant of Activate: a pack may be activated twice.
ActivateTwice(p) ==
  /\ ChangePrefs
  /\ active' = Append(active, p)
  /\ UNCHANGED limit

\* RunPacksActivate: the check that the pack exists never fails.
Activate(p) ==
  /\ ChangePrefs
  /\ p \notin Range(active)
  /\ active' = Append(active, p)
  /\ UNCHANGED limit

Deactivate(p) ==
  /\ ChangePrefs
  /\ p \in Range(active)
  /\ active' = Keep(active, Packs \ {p})
  /\ UNCHANGED limit

SetMaxUnanswered(n) ==
  /\ ChangePrefs
  /\ limit' = n
  /\ UNCHANGED active

AtMost(a, b) == IF a <= b THEN a ELSE b

AtLeast(a, b) == IF a >= b THEN a ELSE b

\* A unit of time passes.  The ticker drops a tick nobody has received.
Pass ==
  /\ At("idle")
  /\ fired' = TRUE
  /\ rows' = [k \in DOMAIN rows |-> AtLeast(rows[k] - 1, -MaxOverdue)]
  /\ pending' = [i \in DOMAIN pending |->
                   [q |-> pending[i].q, age |-> AtMost(pending[i].age + 1, SkipTimeout)]]
  /\ chat' = [k \in DOMAIN chat |->
                [answered |-> chat[k].answered, age |-> AtMost(chat[k].age + 1, SkipTimeout)]]
  /\ sinceSent' = IF sinceSent = Never THEN Never ELSE AtMost(sinceSent + 1, DeliveryInterval)
  /\ UNCHANGED <<prefs, tick, bounds>>
-----------------------------------------------------------------------------
Init ==
  /\ rows = EmptyTable
  /\ active \in {s \in UNION {[1..n -> Imported] : n \in 0..Cardinality(Imported)} :
                   IsInjective(s)}
  /\ limit \in Limits
  /\ pending = <<>>
  /\ sinceSent = Never
  /\ fired = FALSE
  /\ tick = Idle
  /\ chat = EmptyTable
  /\ answers = 0 /\ changes = 0 /\ faults = 0

Next ==
  \/ TickStep
  \/ CallFails \/ Restart \/ NilPack
  \/ \E q \in Questions : RecordAnswer(q)
  \/ \E k \in Keys, i \in Intervals : Answer(k, i)
  \/ \E p \in Packs : Activate(p) \/ Deactivate(p)
  \/ \E n \in Limits : SetMaxUnanswered(n)
  \/ Pass

Spec == Init /\ [][Next]_vars

\* Time passes and the goroutine runs.
FairSpec == Spec /\ WF_vars(Pass) /\ WF_vars(TickStep \/ NilPack)
-----------------------------------------------------------------------------
(* Properties.                                                             *)

TypeOK ==
  /\ IsTable(rows, Keys, Int)
  /\ active \in Seq(Packs) /\ IsInjective(active)
  /\ limit \in Limits
  /\ pending \in Seq([q : Questions, age : 0..SkipTimeout])
  /\ sinceSent \in 0..DeliveryInterval \cup {Never}
  /\ fired \in BOOLEAN
  /\ At("idle") \/ At("prefs")
       \/ (At("select") /\ tick.packs \in Seq(Packs) /\ tick.limit \in Limits)
       \/ ((At("send") \/ At("track")) /\ tick.key \in Keys /\ tick.limit \in Limits)
       \/ (At("skip") /\ tick.queue \in Seq(Questions) \ {<<>>})
       \/ (At("skipPut") /\ tick.queue \in Seq(Questions) \ {<<>>} /\ tick.pack \in Imported)
  /\ IsTable(chat, Keys, [answered : BOOLEAN, age : 0..SkipTimeout])

\* A question is pending once at most, although it is chosen in one critical
\* section and added in another, and never while it is being skipped
\* (scheduler.go, selectNextQuestion and tick).
PendingOnce ==
  /\ \A i, j \in DOMAIN pending : pending[i].q = pending[j].q => i = j
  /\ (At("send") \/ At("track")) => tick.key[2] \notin PendingIDs
  /\ (At("skip") \/ At("skipPut")) => Range(tick.queue) \cap PendingIDs = {}

\* A delivery never takes the pending questions beyond the max_unanswered its
\* tick has read: between the check of their number and the append lie the
\* selection and a call over the network, while answers, failures and changes
\* of the preferences go on (scheduler.go, tick).
PendingWithinLimit == [][Len(pending') > Len(pending) => Len(pending') <= tick.limit]_vars

\* What the proofs need besides: there is room for the question on its way; a
\* question is skipped once for each time it expires; and whatever is pending
\* or being skipped was delivered at least that long ago and is not settled.
RoomLeft == (At("select") \/ At("send") \/ At("track")) => Len(pending) < tick.limit

QueueOnce == (At("skip") \/ At("skipPut")) => IsInjective(tick.queue)

Delivered(q, age) == \E k \in DOMAIN chat : k[2] = q /\ chat[k].age >= age

DeliveriesKnown ==
  /\ \A i \in DOMAIN pending : Delivered(pending[i].q, pending[i].age)
  /\ (At("skip") \/ At("skipPut")) => \A q \in Range(tick.queue) : Delivered(q, SkipTimeout)
  /\ At("skipPut") => <<tick.pack, Head(tick.queue)>> \in Keys
  /\ At("track") => tick.key \in DOMAIN chat

IInv == TypeOK /\ PendingOnce /\ RoomLeft /\ QueueOnce /\ DeliveriesKnown

\* The row k is written by markSkipped.
Skips(k) ==
  tick.at = "skipPut" /\ k = <<tick.pack, Head(tick.queue)>> /\ rows' # rows /\ tick' # tick

\* A skip is the timeout of a delivery: this process sent a question of that
\* id at least SkipTimeout ago, and since then its answer has not been
\* recorded and it has not been skipped or given up, with restarts, sends that
\* failed and late answers in between (scheduler.go, expireTimedOut,
\* markSkipped and RecordAnswer).  Which pack it belonged to is not known:
\* see PacksIndependent.
SkipsAreTimeouts ==
  [][\A k \in Keys : Skips(k) =>
       \E l \in DOMAIN chat : l[2] = k[2] /\ chat[l].age >= SkipTimeout]_vars

\* "Spaced repetition runs independently per pack." (SPEC.md): a skip is
\* counted against the question that was delivered.
PacksIndependent == [][\A k \in Keys : Skips(k) => k \in DOMAIN chat]_vars

\* "Unanswered questions are marked as skipped after a configurable timeout."
\* (SPEC.md): a question that has been answered is not.
AnsweredAreNotSkipped ==
  [][\A k \in Keys : Skips(k) => k \in DOMAIN chat /\ ~ chat[k].answered]_vars

\* "Verify the pack exists." (packs.go, RunPacksActivate).
ActivePacksExist == Range(active) \subseteq Imported

\* Every pending question is answered or expires: a delivery nobody reacts
\* to never blocks the scheduler for good (scheduler.go, expireTimedOut).
EveryDeliveryIsSettled ==
  \A q \in Questions : (q \in PendingIDs) ~> (q \notin PendingIDs)

\* As long as there are packs to ask from, and no missing one among them,
\* questions go on being delivered, whatever was left unanswered, failed or
\* was lost at a restart (scheduler.go, tick: delivery resumes after the
\* pause at max_unanswered).
DeliveryGoesOn == <>[](active # <<>> /\ ActivePacksExist) => []<>At("track")
=============================================================================
