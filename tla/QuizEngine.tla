----------------------------- MODULE QuizEngine -----------------------------
(***************************************************************************)
(* The quiz engine (internal/core/engine.go) over the SQLite store         *)
(* (internal/store/sqlite/sqlite.go).                                      *)
(*                                                                         *)
(* The store is four tables.  Each repository call is one SQL statement    *)
(* and therefore atomic, but the engine opens no transaction and takes no  *)
(* lock: an operation of the engine is a sequence of atomic reads and      *)
(* whole-row writes, and between any two of them another client of the     *)
(* same database file may run, or this one may fail or die.                *)
(*                                                                         *)
(* A client is a process running the program.  call[c] is the operation    *)
(* client c is in the middle of: the repository call it makes next and the *)
(* locals it still needs, among them the row it has computed and is about  *)
(* to write.  A client that is not in DOMAIN call is between operations.   *)
(***************************************************************************)
EXTENDS Naturals, Sequences, FiniteSets, Functions, SM2, Tables

CONSTANTS
  Clients,          \* processes that share the database file
  Sessions,         \* session ids, increasing with creation time
  Questions,        \* question ids of the pack
  Topics,           \* topic ids of the pack
  TopicOf,          \* Question.TopicID
  Choices,          \* answer indices that are entered
  CorrectIndex,     \* Question.CorrectIndex
  TestCount,        \* TestFormat.QuestionCount
  AnyTopic,         \* the empty topic filter
  MaxCalls,         \* bound: operations started
  MaxFaults,        \* bound: operations cut short
  MaxSecond         \* bound: clock, in seconds

ASSUME PackAssumption ==
  /\ IsFiniteSet(Questions)
  /\ TopicOf \in [Questions -> Topics]
  /\ Choices \subseteq Nat
  /\ CorrectIndex \in [Questions -> Nat]
  /\ TestCount \in Nat \ {0}
  /\ AnyTopic \notin Topics

ASSUME BoundAssumption ==
  /\ Sessions \subseteq Nat
  /\ MaxCalls \in Nat
  /\ MaxFaults \in Nat
  /\ MaxSecond \in Nat

VARIABLES
  quiz,             \* table quiz_sessions
  study,            \* table study_sessions
  memory,           \* table question_states
  topics,           \* table topic_stats
  call,             \* operation each busy client is executing
  clock,            \* wall clock, in the seconds that formatTime keeps
  calls, faults,    \* bounds
  acked             \* history: answers whose SubmitAnswer has returned

tables == <<quiz, study, memory, topics>>
vars == <<quiz, study, memory, topics, call, clock, calls, faults, acked>>
-----------------------------------------------------------------------------
(* Rows.                                                                   *)

Status == {"in_progress", "completed", "abandoned"}

QuizRow == [questions : Seq(Questions), index : Nat,
            answers : Table(Questions, Choices),
            status : Status, started : Nat]

Attempt == [q : Questions, a : Choices, correct : BOOLEAN]

StudyRow == [count : Nat, attempts : Seq(Attempt), correct : Nat, ended : BOOLEAN]

TopicRow == [total : Nat, correct : Nat, streak : Nat, best : Nat]

IsCorrect(q, a) == a = CorrectIndex[q]

Answered(row) == DOMAIN row.answers

\* Mutants of SkipAnswered: one step forward whatever was answered, and one
\* question too far.
SkipAnsweredByOne(qs, answered, i) == IF i < Len(qs) THEN i + 1 ELSE i

SkipAnsweredTooFar(qs, answered, i) == IF i + 2 <= Len(qs) THEN i + 2 ELSE Len(qs)

\* The loop of SubmitAnswer that advances CurrentIndex from i.
SkipAnswered(qs, answered, i) ==
  CHOOSE j \in i..Len(qs) :
    /\ \A k \in i+1..j : qs[k] \in answered
    /\ j < Len(qs) => qs[j+1] \notin answered

\* Mutant of AfterAnswer: whether the session is completed is decided before
\* the answer is added.
AfterAnswerEarly(row, q, a) ==
  LET answers == Put(row.answers, q, a)
  IN  [questions |-> row.questions,
       index     |-> SkipAnswered(row.questions, DOMAIN answers, row.index),
       answers   |-> answers,
       status    |-> IF Cardinality(Answered(row)) >= Len(row.questions)
                       THEN "completed" ELSE row.status,
       started   |-> row.started]

\* What SubmitAnswer does to the session it has loaded.
AfterAnswer(row, q, a) ==
  LET answers == Put(row.answers, q, a)
  IN  [questions |-> row.questions,
       index     |-> SkipAnswered(row.questions, DOMAIN answers, row.index),
       answers   |-> answers,
       status    |-> IF Cardinality(DOMAIN answers) >= Len(row.questions)
                       THEN "completed" ELSE row.status,
       started   |-> row.started]

\* NextQuestion: the positions (from 1) of the unanswered questions at or
\* after CurrentIndex; the operation returns the first, or nil.
OpenPositions(row) ==
  IF row.status = "in_progress"
    THEN {k \in row.index+1..Len(row.questions) : row.questions[k] \notin Answered(row)}
    ELSE {}

IsNext(row, q) ==
  \E k \in OpenPositions(row) :
    q = row.questions[k] /\ \A j \in OpenPositions(row) : k <= j

\* Mutant of AfterAttempt: wrong answers are not counted.
AfterAttemptCorrectOnly(row, correct) ==
  LET streak == IF correct THEN row.streak + 1 ELSE 0
  IN  [total   |-> IF correct THEN row.total + 1 ELSE row.total,
       correct |-> IF correct THEN row.correct + 1 ELSE row.correct,
       streak  |-> streak,
       best    |-> IF streak > row.best THEN streak ELSE row.best]

AfterAttempt(row, correct) ==
  LET streak == IF correct THEN row.streak + 1 ELSE 0
  IN  [total   |-> row.total + 1,
       correct |-> IF correct THEN row.correct + 1 ELSE row.correct,
       streak  |-> streak,
       best    |-> IF streak > row.best THEN streak ELSE row.best]

FreshTopic == [total |-> 0, correct |-> 0, streak |-> 0, best |-> 0]

\* Mutants of AfterRecording: the session is ended by the number of attempts;
\* every attempt counts as correct; a question answered again has no further
\* attempt but is counted; the list keeps the last attempt alone.
AfterRecordingByCount(row, q, a, status) ==
  [count    |-> row.count,
   attempts |-> Append(row.attempts, [q |-> q, a |-> a, correct |-> IsCorrect(q, a)]),
   correct  |-> IF IsCorrect(q, a) THEN row.correct + 1 ELSE row.correct,
   ended    |-> row.ended \/ Len(row.attempts) + 1 >= row.count]

AfterRecordingAlwaysCorrect(row, q, a, status) ==
  [count    |-> row.count,
   attempts |-> Append(row.attempts, [q |-> q, a |-> a, correct |-> IsCorrect(q, a)]),
   correct  |-> row.correct + 1,
   ended    |-> row.ended \/ status \in {"completed", "abandoned"}]

AfterRecordingOnce(row, q, a, status) ==
  [count    |-> row.count,
   attempts |-> IF \E i \in DOMAIN row.attempts : row.attempts[i].q = q
                  THEN row.attempts
                  ELSE Append(row.attempts, [q |-> q, a |-> a, correct |-> IsCorrect(q, a)]),
   correct  |-> IF IsCorrect(q, a) THEN row.correct + 1 ELSE row.correct,
   ended    |-> row.ended \/ status \in {"completed", "abandoned"}]

AfterRecordingLast(row, q, a, status) ==
  [count    |-> row.count,
   attempts |-> <<[q |-> q, a |-> a, correct |-> IsCorrect(q, a)]>>,
   correct  |-> IF IsCorrect(q, a) THEN row.correct + 1 ELSE row.correct,
   ended    |-> row.ended \/ status \in {"completed", "abandoned"}]

AfterRecording(row, q, a, status) ==
  [count    |-> row.count,
   attempts |-> Append(row.attempts, [q |-> q, a |-> a, correct |-> IsCorrect(q, a)]),
   correct  |-> IF IsCorrect(q, a) THEN row.correct + 1 ELSE row.correct,
   ended    |-> row.ended \/ status \in {"completed", "abandoned"}]
-----------------------------------------------------------------------------
(* Operations in progress.  The field at names the next repository call.   *)

Call ==
  [at : {"createStudy"}, s : Sessions, row : StudyRow]
    \cup [at : {"saveAnswer"}, s : Sessions, q : Questions, a : Choices, row : QuizRow]
    \cup [at : {"getMemory", "getTopic", "getStudy"},
          s : Sessions, q : Questions, a : Choices, status : Status]
    \cup [at : {"putMemory"}, s : Sessions, q : Questions, a : Choices,
          status : Status, row : Memory]
    \cup [at : {"putTopic"}, s : Sessions, q : Questions, a : Choices,
          status : Status, row : TopicRow]
    \cup [at : {"putAttempt"}, s : Sessions, q : Questions, a : Choices,
          status : Status, row : StudyRow]
    \cup [at : {"saveAbandoned"}, s : Sessions, row : QuizRow]
    \cup [at : {"getEnd"}, s : Sessions]
    \cup [at : {"putEnd"}, s : Sessions, row : StudyRow]

Idle(c) == c \notin DOMAIN call

At(c, step) == c \in DOMAIN call /\ call[c].at = step

Begin(c) ==
  /\ Idle(c)
  /\ calls < MaxCalls
  /\ calls' = calls + 1
  /\ UNCHANGED <<clock, faults>>

Goto(c, next) == call' = Put(call, c, next)

Return(c) == call' = Drop(call, c)

KeepBounds == UNCHANGED <<clock, calls, faults>>
-----------------------------------------------------------------------------
(* StartQuiz.                                                              *)

Candidates(topic) == {q \in Questions : topic = AnyTopic \/ TopicOf[q] = topic}

SessionLength(mode, topic, count) ==
  LET available == Cardinality(Candidates(topic))
      wanted    == IF count > 0 THEN count ELSE TestCount
  IN  IF mode = "practice" \/ wanted > available THEN available ELSE wanted

\* The lists a session may be given: a random subset in random order (mock),
\* or all candidates ordered by review priority (practice; the order itself
\* plays no part in this module, so any order is allowed).
QuestionLists(mode, topic, count) ==
  Injection(1..SessionLength(mode, topic, count), Candidates(topic))

NewQuiz(list) ==
  [questions |-> list, index |-> 0, answers |-> EmptyTable,
   status |-> "in_progress", started |-> clock]

NewStudy(list) ==
  [count |-> Len(list), attempts |-> <<>>, correct |-> 0, ended |-> FALSE]

\* Mutant of IsNewID: an id may be generated twice.
IsNewIDReused(s) == s \in Sessions

\* generateID is the nanosecond clock: ids are new and increase.
IsNewID(s) == s \in Sessions /\ \A t \in DOMAIN quiz : t < s

StartQuiz(c, mode, topic, count) ==
  /\ Begin(c)
  /\ Candidates(topic) # {}
  /\ \E s \in Sessions, list \in QuestionLists(mode, topic, count) :
       /\ IsNewID(s)
       /\ quiz' = Put(quiz, s, NewQuiz(list))
       /\ Goto(c, [at |-> "createStudy", s |-> s, row |-> NewStudy(list)])
  /\ UNCHANGED <<study, memory, topics, acked>>

CreateStudy(c) ==
  /\ At(c, "createStudy")
  /\ study' = Put(study, call[c].s, call[c].row)
  /\ Return(c)
  /\ KeepBounds
  /\ UNCHANGED <<quiz, memory, topics, acked>>
-----------------------------------------------------------------------------
(* SubmitAnswer: eight repository calls.  The first reads the session, and *)
(* the pack, which never changes here.                                     *)

SubmitAnswer(c, s, q, a) ==
  /\ Begin(c)
  /\ s \in DOMAIN quiz
  /\ q \in Range(quiz[s].questions)
  /\ Goto(c, [at |-> "saveAnswer", s |-> s, q |-> q, a |-> a,
              row |-> AfterAnswer(quiz[s], q, a)])
  /\ UNCHANGED <<tables, acked>>

\* The continuation of c's SubmitAnswer at another repository call.
Submitting(c, step, status) ==
  [at |-> step, s |-> call[c].s, q |-> call[c].q, a |-> call[c].a, status |-> status]

Writing(c, step, row) ==
  [at |-> step, s |-> call[c].s, q |-> call[c].q, a |-> call[c].a,
   status |-> call[c].status, row |-> row]

\* Mutant of SaveAnswer: progress is saved when the session is completed.
SaveAnswerAtEnd(c) ==
  /\ At(c, "saveAnswer")
  /\ quiz' = IF call[c].row.status = "completed"
               THEN Put(quiz, call[c].s, call[c].row) ELSE quiz
  /\ Goto(c, Submitting(c, "getMemory", call[c].row.status))
  /\ KeepBounds
  /\ UNCHANGED <<study, memory, topics, acked>>

SaveAnswer(c) ==
  /\ At(c, "saveAnswer")
  /\ quiz' = Put(quiz, call[c].s, call[c].row)
  /\ Goto(c, Submitting(c, "getMemory", call[c].row.status))
  /\ KeepBounds
  /\ UNCHANGED <<study, memory, topics, acked>>

GetMemory(c) ==
  /\ At(c, "getMemory")
  /\ LET q == call[c].q
         current == IF q \in DOMAIN memory THEN memory[q] ELSE Fresh
     IN  Goto(c, Writing(c, "putMemory",
                         CalculateNextReview(current, IsCorrect(q, call[c].a))))
  /\ KeepBounds
  /\ UNCHANGED <<tables, acked>>

PutMemory(c) ==
  /\ At(c, "putMemory")
  /\ memory' = Put(memory, call[c].q, call[c].row)
  /\ Goto(c, Submitting(c, "getTopic", call[c].status))
  /\ KeepBounds
  /\ UNCHANGED <<quiz, study, topics, acked>>

GetTopic(c) ==
  /\ At(c, "getTopic")
  /\ LET q == call[c].q
         t == TopicOf[q]
         current == IF t \in DOMAIN topics THEN topics[t] ELSE FreshTopic
     IN  Goto(c, Writing(c, "putTopic", AfterAttempt(current, IsCorrect(q, call[c].a))))
  /\ KeepBounds
  /\ UNCHANGED <<tables, acked>>

\* Mutants of PutTopic: the row is stored under the question; the correct
\* answers are counted up in the row as it is stored now, the rest overwritten.
PutTopicByQuestion(c) ==
  /\ At(c, "putTopic")
  /\ topics' = Put(topics, call[c].q, call[c].row)
  /\ Goto(c, Submitting(c, "getStudy", call[c].status))
  /\ KeepBounds
  /\ UNCHANGED <<quiz, study, memory, acked>>

PutTopicByField(c) ==
  /\ At(c, "putTopic")
  /\ LET q == call[c].q
         t == TopicOf[q]
         stored == IF t \in DOMAIN topics THEN topics[t].correct ELSE 0
         correct == IF IsCorrect(q, call[c].a) THEN stored + 1 ELSE stored
     IN  topics' = Put(topics, t, [call[c].row EXCEPT !.correct = correct])
  /\ Goto(c, Submitting(c, "getStudy", call[c].status))
  /\ KeepBounds
  /\ UNCHANGED <<quiz, study, memory, acked>>

PutTopic(c) ==
  /\ At(c, "putTopic")
  /\ topics' = Put(topics, TopicOf[call[c].q], call[c].row)
  /\ Goto(c, Submitting(c, "getStudy", call[c].status))
  /\ KeepBounds
  /\ UNCHANGED <<quiz, study, memory, acked>>

GetStudy(c) ==
  /\ At(c, "getStudy")
  /\ call[c].s \in DOMAIN study
  /\ Goto(c, Writing(c, "putAttempt",
       AfterRecording(study[call[c].s], call[c].q, call[c].a, call[c].status)))
  /\ KeepBounds
  /\ UNCHANGED <<tables, acked>>

PutAttempt(c) ==
  /\ At(c, "putAttempt")
  /\ study' = Put(study, call[c].s, call[c].row)
  /\ acked' = [acked EXCEPT ![call[c].s] = @ \cup {call[c].q}]
  /\ Return(c)
  /\ KeepBounds
  /\ UNCHANGED <<quiz, memory, topics>>
-----------------------------------------------------------------------------
(* AbandonSession.                                                         *)

AbandonSession(c, s) ==
  /\ Begin(c)
  /\ s \in DOMAIN quiz
  /\ Goto(c, [at |-> "saveAbandoned", s |-> s,
              row |-> [quiz[s] EXCEPT !.status = "abandoned"]])
  /\ UNCHANGED <<tables, acked>>

\* Mutant of SaveAbandoned: the study session is left open.
SaveAbandonedOnly(c) ==
  /\ At(c, "saveAbandoned")
  /\ quiz' = Put(quiz, call[c].s, call[c].row)
  /\ Return(c)
  /\ KeepBounds
  /\ UNCHANGED <<study, memory, topics, acked>>

SaveAbandoned(c) ==
  /\ At(c, "saveAbandoned")
  /\ quiz' = Put(quiz, call[c].s, call[c].row)
  /\ Goto(c, [at |-> "getEnd", s |-> call[c].s])
  /\ KeepBounds
  /\ UNCHANGED <<study, memory, topics, acked>>

GetEnd(c) ==
  /\ At(c, "getEnd")
  /\ call[c].s \in DOMAIN study
  /\ Goto(c, [at |-> "putEnd", s |-> call[c].s,
              row |-> [study[call[c].s] EXCEPT !.ended = TRUE]])
  /\ KeepBounds
  /\ UNCHANGED <<tables, acked>>

PutEnd(c) ==
  /\ At(c, "putEnd")
  /\ study' = Put(study, call[c].s, call[c].row)
  /\ Return(c)
  /\ KeepBounds
  /\ UNCHANGED <<quiz, memory, topics, acked>>
-----------------------------------------------------------------------------
(* Failures.                                                               *)

\* GetSession answers (nil, nil) for a missing row, and the caller
\* dereferences the nil: the process dies with its earlier writes in place.
NilStudy(c) ==
  /\ At(c, "getStudy") \/ At(c, "getEnd")
  /\ call[c].s \notin DOMAIN study
  /\ Return(c)
  /\ KeepBounds
  /\ UNCHANGED <<tables, acked>>

\* A repository call returns an error, or the process is killed, between
\* two repository calls.  What was written stays written.
Fail(c) ==
  /\ ~ Idle(c)
  /\ faults < MaxFaults
  /\ faults' = faults + 1
  /\ Return(c)
  /\ UNCHANGED <<tables, acked, clock, calls>>

Tick ==
  /\ clock < MaxSecond
  /\ clock' = clock + 1
  /\ UNCHANGED <<tables, call, calls, faults, acked>>
-----------------------------------------------------------------------------
Init ==
  /\ quiz = EmptyTable
  /\ study = EmptyTable
  /\ memory = EmptyTable
  /\ topics = EmptyTable
  /\ call = EmptyTable
  /\ clock = 0
  /\ calls = 0
  /\ faults = 0
  /\ acked = [s \in Sessions |-> {}]

\* The statement a busy client executes next; a client is inside one
\* operation at a time, so at most one of these is enabled.
Continue(c) ==
  \/ CreateStudy(c)
  \/ SaveAnswer(c) \/ GetMemory(c) \/ PutMemory(c) \/ GetTopic(c)
  \/ PutTopic(c) \/ GetStudy(c) \/ PutAttempt(c)
  \/ SaveAbandoned(c) \/ GetEnd(c) \/ PutEnd(c)
  \/ NilStudy(c)

Next ==
  \/ \E c \in Clients :
       \/ \E mode \in {"mock", "practice"}, topic \in Topics \cup {AnyTopic},
            count \in 0..TestCount : StartQuiz(c, mode, topic, count)
       \/ \E s \in Sessions, q \in Questions, a \in Choices : SubmitAnswer(c, s, q, a)
       \/ \E s \in Sessions : AbandonSession(c, s)
       \/ Continue(c)
       \/ Fail(c)
  \/ Tick

Spec == Init /\ [][Next]_vars
-----------------------------------------------------------------------------
(* Properties.                                                             *)

TypeOK ==
  /\ IsTable(quiz, Sessions, QuizRow)
  /\ IsTable(study, Sessions, StudyRow)
  /\ IsTable(memory, Questions, Memory)
  /\ IsTable(topics, Topics, TopicRow)
  /\ IsTable(call, Clients, Call)
  /\ clock \in 0..MaxSecond
  /\ calls \in 0..MaxCalls
  /\ faults \in 0..MaxFaults
  /\ acked \in [Sessions -> SUBSET Questions]

QuizRowOK(row) ==
  LET qs == row.questions
  IN  /\ IsInjective(qs)
      /\ Answered(row) \subseteq Range(qs)
      /\ row.index <= Len(qs)
      /\ \A k \in 1..row.index : qs[k] \in Answered(row)
      /\ row.index < Len(qs) => qs[row.index + 1] \notin Answered(row)
      /\ row.status = "completed" => row.index = Len(qs)
      /\ row.status = "in_progress" => row.index < Len(qs)

\* Every stored session is one the user can go on with, whatever was lost or
\* cut short on the way to it: CurrentIndex stands at the first unanswered
\* question, a session is completed only when every question is answered,
\* and one that is in progress has a question left, so that NextQuestion has
\* something to return (engine.go, NextQuestion and SubmitAnswer).
QuizRowsConsistent == \A s \in DOMAIN quiz : QuizRowOK(quiz[s])

TopicRowOK(row) ==
  /\ row.streak <= row.best
  /\ row.best <= row.correct
  /\ row.correct <= row.total

\* Topic counters stay in order, current streak <= best streak <= correct
\* <= attempts, although concurrent updates of a row overwrite one another
\* (engine.go, updateTopicStats).
TopicRowsConsistent == \A t \in DOMAIN topics : TopicRowOK(topics[t])

CorrectAttempts(row) == {i \in DOMAIN row.attempts : row.attempts[i].correct}

StudyRowOK(s, row) ==
  /\ row.count = Len(quiz[s].questions)
  /\ row.correct = Cardinality(CorrectAttempts(row))
  /\ \A i \in DOMAIN row.attempts :
       /\ row.attempts[i].q \in Range(quiz[s].questions)
       /\ row.attempts[i].correct = IsCorrect(row.attempts[i].q, row.attempts[i].a)

\* A study session never exists without its quiz session, is about the same
\* questions, and its CorrectCount is the number of correct attempts it
\* lists (engine.go, StartQuiz, recordStudyAttempt and AbandonSession).
StudyRowsConsistent ==
  /\ DOMAIN study \subseteq DOMAIN quiz
  /\ \A s \in DOMAIN study : StudyRowOK(s, study[s])

\* The steps of SubmitAnswer.
SubmitSteps == {"saveAnswer", "getMemory", "putMemory", "getTopic", "putTopic",
                "getStudy", "putAttempt"}

HeldRowOK(r) ==
  /\ r.s \in DOMAIN quiz
  /\ r.at \in SubmitSteps => r.q \in Range(quiz[r.s].questions)
  /\ r.at \in {"saveAnswer", "saveAbandoned"} =>
       QuizRowOK(r.row) /\ r.row.questions = quiz[r.s].questions
  /\ r.at = "putTopic" => TopicRowOK(r.row)
  /\ r.at \in {"createStudy", "putAttempt", "putEnd"} => StudyRowOK(r.s, r.row)

\* The rows the clients hold and are about to write, however stale they have
\* become, are as consistent as the stored ones: writing one may lose an
\* update but never damages a row (engine.go: every operation writes back
\* the whole row it has read).
HeldRowsConsistent == \A c \in DOMAIN call : HeldRowOK(call[c])

IInv ==
  /\ TypeOK
  /\ QuizRowsConsistent
  /\ TopicRowsConsistent
  /\ StudyRowsConsistent
  /\ HeldRowsConsistent

AttemptsOn(t) ==
  UNION {{<<s, i>> : i \in {k \in DOMAIN study[s].attempts :
                              TopicOf[study[s].attempts[k].q] = t}}
         : s \in DOMAIN study}

\* With one client, the writes of SubmitAnswer land in order even when the
\* operation is cut short: an attempt in the study session has been counted
\* in the topic statistics, its question has a memory, and the answer is in
\* the quiz session (engine.go, SubmitAnswer).
WritesInOrder ==
  /\ \A s \in DOMAIN study : \A i \in DOMAIN study[s].attempts :
       LET q == study[s].attempts[i].q
       IN  q \in Answered(quiz[s]) /\ q \in DOMAIN memory
  /\ \A t \in Topics : AttemptsOn(t) # {} =>
       t \in DOMAIN topics /\ topics[t].total >= Cardinality(AttemptsOn(t))

\* With one client and no failure, between operations the four tables tell
\* the same story: the topic totals are the attempts on record, and a
\* session is ended exactly when it is no longer in progress.
BooksAgree ==
  (DOMAIN call = {} /\ faults = 0) =>
    /\ DOMAIN study = DOMAIN quiz
    /\ \A t \in Topics :
         (IF t \in DOMAIN topics THEN topics[t].total ELSE 0) = Cardinality(AttemptsOn(t))
    /\ \A s \in DOMAIN quiz : study[s].ended <=> quiz[s].status # "in_progress"
    /\ \A s \in DOMAIN quiz :
         Answered(quiz[s]) = {study[s].attempts[i].q : i \in DOMAIN study[s].attempts}

Unrecorded ==
  UNION {{<<s, q>> : q \in {r \in Answered(quiz[s]) :
                             \A i \in DOMAIN study[s].attempts : study[s].attempts[i].q # r}}
         : s \in DOMAIN study}

\* With one client, each failure costs the record of one answer at most: of
\* the answers saved in sessions that have a study session, no more are
\* without an attempt than operations were cut short, in whichever of their
\* writes that happened and however the sessions were gone on with
\* (engine.go, SubmitAnswer and recordStudyAttempt).
FailuresCostOneAnswer == DOMAIN call = {} => Cardinality(Unrecorded) <= faults

\* A study session that is ended belongs to a quiz session that is no longer
\* in progress, also when the operation that ended it was cut short.
EndedIsClosed ==
  \A s \in DOMAIN study : study[s].ended => quiz[s].status # "in_progress"

\* An answer whose SubmitAnswer returned without an error stays in the
\* stored session: "Progress is saved after each answer." (SPEC.md).
AckedAnswersKept ==
  \A s \in DOMAIN quiz : acked[s] \subseteq Answered(quiz[s])

\* The refinement mapping: what a stored session says of its sheet.
SheetOf(row) == [asked |-> Range(row.questions), filled |-> row.answers,
                 status |-> row.status]

Sheet == INSTANCE AnswerSheet WITH sheet <- [s \in DOMAIN quiz |-> SheetOf(quiz[s])]

\* What the engine promises of a quiz session, see AnswerSheet: with one
\* client of the database every operation takes effect on the latest state
\* of the session in one step, or not at all when it is cut short (engine.go,
\* StartQuiz, SubmitAnswer, AbandonSession).
ImplementsSheet == Sheet!Spec
=============================================================================
