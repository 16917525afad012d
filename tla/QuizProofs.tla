----------------------------- MODULE QuizProofs -----------------------------
(***************************************************************************)
(* Proofs about the quiz engine and the commands that run it, for any sets *)
(* of sessions and questions and any number of operations and failures, in *)
(* three parts.                                                            *)
(*                                                                         *)
(* 1. Any number of clients (QuizEngine): IInv, what no interleaving and   *)
(*    no failure breaks.                                                   *)
(*                                                                         *)
(* 2. One client (QuizEngine): the engine implements AnswerSheet, and the  *)
(*    four tables tell the same story at every step of an operation (OInv, *)
(*    CInv, BInv).  With two clients neither is so: a client may overwrite *)
(*    what the other one has saved (see AckedAnswersKept).                 *)
(*                                                                         *)
(* 3. Terminals that run the interactive commands (QuizCli).  Any number   *)
(*    of them keep IInv.  One of them never abandons a session, and shows  *)
(*    a question only while no operation of the engine is in progress      *)
(*    (TInv, AttemptsFinal).                                               *)
(***************************************************************************)
EXTENDS QuizCli, DataProofs
-----------------------------------------------------------------------------
(* Part 1: any number of clients.                                          *)
-----------------------------------------------------------------------------
\* The fields an operation in progress has at each of its steps.
LEMMA CallShape ==
  ASSUME NEW r \in Call
  PROVE  /\ r.s \in Sessions
         /\ r.at \in {"saveAnswer", "getMemory", "putMemory", "getTopic", "putTopic",
                      "getStudy", "putAttempt"} => r.q \in Questions /\ r.a \in Choices
         /\ r.at \in {"getMemory", "putMemory", "getTopic", "putTopic",
                      "getStudy", "putAttempt"} => r.status \in Status
         /\ r.at \in {"saveAnswer", "saveAbandoned"} => r.row \in QuizRow
         /\ r.at \in {"createStudy", "putAttempt", "putEnd"} => r.row \in StudyRow
         /\ r.at = "putMemory" => r.row \in Memory
         /\ r.at = "putTopic" => r.row \in TopicRow
BY DEF Call
-----------------------------------------------------------------------------
(* Rows.                                                                   *)

\* The loop of SubmitAnswer stops at the first unanswered question at or
\* after the index it started from.
LEMMA SkipAnsweredStops ==
  ASSUME NEW qs \in Seq(Questions), NEW answered, NEW i \in Nat, i <= Len(qs)
  PROVE  LET j == SkipAnswered(qs, answered, i)
         IN  /\ j \in i..Len(qs)
             /\ \A k \in i+1..j : qs[k] \in answered
             /\ j < Len(qs) => qs[j+1] \notin answered
<1> DEFINE Stop(j) == /\ \A k \in i+1..j : qs[k] \in answered
                      /\ j < Len(qs) => qs[j+1] \notin answered
           J == {j \in i..Len(qs) : j < Len(qs) => qs[j+1] \notin answered}
<1>1. Len(qs) \in Nat
  OBVIOUS
<1>2. J \in SUBSET Nat /\ Len(qs) \in J
  BY <1>1
<1>3. PICK j \in J : \A k \in J : j <= k
  BY <1>2, LeastElement
<1>4. ASSUME NEW k \in i+1..j
      PROVE  qs[k] \in answered
  <2>1. k-1 \in i..Len(qs) /\ k-1 < j /\ k-1 < Len(qs) /\ (k-1)+1 = k
    BY <1>1, <1>2
  <2>2. k-1 \notin J
    BY <2>1, <1>2, <1>3
  <2>3. QED
    BY <2>1, <2>2
<1>5. j \in i..Len(qs) /\ Stop(j)
  BY <1>4
<1>6. QED
  BY <1>5 DEF SkipAnswered

\* Counting is enough to tell that every question is answered: the questions
\* are distinct and only questions of the session are answered.
LEMMA CountingAnswers ==
  ASSUME NEW qs \in Seq(Questions), IsInjective(qs),
         NEW answered, answered \subseteq Range(qs)
  PROVE  /\ Cardinality(answered) >= Len(qs) <=> Range(qs) \subseteq answered
         /\ Range(qs) \subseteq answered <=> \A k \in 1..Len(qs) : qs[k] \in answered
BY CountingDistinct

\* Answering keeps a session row consistent.
LEMMA AfterAnswerOK ==
  ASSUME NEW row \in QuizRow, QuizRowOK(row),
         NEW q \in Range(row.questions), NEW a \in Choices
  PROVE  /\ AfterAnswer(row, q, a) \in QuizRow
         /\ QuizRowOK(AfterAnswer(row, q, a))
         /\ AfterAnswer(row, q, a).questions = row.questions
         /\ AfterAnswer(row, q, a).answers = Put(row.answers, q, a)
<1> DEFINE qs == row.questions
           answers == Put(row.answers, q, a)
           j == SkipAnswered(qs, DOMAIN answers, row.index)
           new == AfterAnswer(row, q, a)
<1>1. /\ qs \in Seq(Questions) /\ row.index \in Nat /\ row.index <= Len(qs)
      /\ row.answers \in Table(Questions, Choices) /\ row.status \in Status
      /\ row.started \in Nat /\ IsInjective(qs) /\ DOMAIN row.answers \subseteq Range(qs)
      /\ \A k \in 1..row.index : qs[k] \in DOMAIN row.answers
  BY DEF QuizRow, QuizRowOK, Answered
<1>2. q \in Questions
  BY <1>1 DEF Range
<1>3. /\ IsTable(answers, Questions, Choices)
      /\ DOMAIN answers = DOMAIN row.answers \cup {q}
  <2>1. IsTable(row.answers, Questions, Choices)
    BY <1>1, TableMember
  <2>2. IsTable(answers, Questions, Choices)
    BY <2>1, <1>2, PutRow
  <2>3. DOMAIN answers = DOMAIN row.answers \cup {q}
    BY DEF Put
  <2>4. QED
    BY <2>2, <2>3
<1>4. /\ j \in row.index..Len(qs)
      /\ \A k \in row.index+1..j : qs[k] \in DOMAIN answers
      /\ j < Len(qs) => qs[j+1] \notin DOMAIN answers
  BY <1>1, SkipAnsweredStops
<1>5. new = [questions |-> qs, index |-> j, answers |-> answers,
             status |-> IF Cardinality(DOMAIN answers) >= Len(qs)
                          THEN "completed" ELSE row.status,
             started |-> row.started]
  BY DEF AfterAnswer
<1>6. new \in QuizRow
  <2>1. j \in Nat
    BY <1>1, <1>4
  <2>2. answers \in Table(Questions, Choices)
    BY <1>3, TableMember
  <2>3. (IF Cardinality(DOMAIN answers) >= Len(qs) THEN "completed" ELSE row.status) \in Status
    BY <1>1 DEF Status
  <2>4. QED
    BY <1>1, <1>5, <2>1, <2>2, <2>3 DEF QuizRow
<1>7. QuizRowOK(new)
  <2>1. DOMAIN answers \subseteq Range(qs)
    BY <1>1, <1>3
  <2>2. ASSUME NEW k \in 1..j
        PROVE  qs[k] \in DOMAIN answers
    <3>1. k \in 1..row.index \/ k \in row.index+1..j
      BY <1>1, <1>4
    <3>2. CASE k \in 1..row.index
      BY <3>2, <1>1, <1>3
    <3>3. CASE k \in row.index+1..j
      BY <3>3, <1>4
    <3>4. QED
      BY <3>1, <3>2, <3>3
  <2>3. (j = Len(qs)) <=> Cardinality(DOMAIN answers) >= Len(qs)
    <3>1. Cardinality(DOMAIN answers) >= Len(qs)
            <=> \A k \in 1..Len(qs) : qs[k] \in DOMAIN answers
      BY <1>1, <2>1, CountingAnswers
    <3>2. (j = Len(qs)) <=> \A k \in 1..Len(qs) : qs[k] \in DOMAIN answers
      BY <1>1, <1>4, <2>2
    <3>3. QED
      BY <3>1, <3>2
  <2>4. row.status = "completed" => Cardinality(DOMAIN answers) >= Len(qs)
    BY <1>1, <1>4, <2>3 DEF QuizRowOK
  <2>5. QED
    BY <1>1, <1>4, <1>5, <2>1, <2>2, <2>3, <2>4 DEF QuizRowOK, Answered
<1>8. QED
  BY <1>5, <1>6, <1>7

\* Recording an attempt, a review and a topic result give rows again.
LEMMA NewRows ==
  /\ \A m \in Memory, correct \in BOOLEAN : CalculateNextReview(m, correct) \in Memory
  /\ Fresh \in Memory
  /\ \A row \in TopicRow, correct \in BOOLEAN : AfterAttempt(row, correct) \in TopicRow
  /\ FreshTopic \in TopicRow
  /\ \A row \in StudyRow, q \in Questions, a \in Choices, status \in Status :
       AfterRecording(row, q, a, status) \in StudyRow
<1>1. \A m \in Memory, correct \in BOOLEAN : CalculateNextReview(m, correct) \in Memory
  <2> SUFFICES ASSUME NEW m \in Memory
               PROVE  AfterCorrect(m) \in Memory /\ AfterWrong(m) \in Memory
    BY DEF CalculateNextReview
  <2>1. (m.interval * m.ease) \div 100 \in Int
    BY DEF Memory
  <2>2. AfterCorrect(m) \in Memory
    BY <2>1 DEF AfterCorrect, Memory, AnswerResult, EaseIncrement, IntervalFirst,
                IntervalSecond, DayUnit
  <2>3. AfterWrong(m) \in Memory
    BY DEF AfterWrong, AfterLapse, LoweredEase, Memory, AnswerResult, EaseDecrement,
           EaseFactor, IntervalFirst, DayUnit
  <2>4. QED
    BY <2>2, <2>3
<1>2. Fresh \in Memory
  BY DEF Fresh, Memory, AnswerResult, EaseInitial
<1>3. \A row \in TopicRow, correct \in BOOLEAN : AfterAttempt(row, correct) \in TopicRow
  BY DEF AfterAttempt, TopicRow
<1>4. FreshTopic \in TopicRow
  BY DEF FreshTopic, TopicRow
<1>5. \A row \in StudyRow, q \in Questions, a \in Choices, status \in Status :
        AfterRecording(row, q, a, status) \in StudyRow
  <2> SUFFICES ASSUME NEW row \in StudyRow, NEW q \in Questions, NEW a \in Choices,
                      NEW status \in Status
               PROVE  AfterRecording(row, q, a, status) \in StudyRow
    OBVIOUS
  <2>1. [q |-> q, a |-> a, correct |-> IsCorrect(q, a)] \in Attempt
    BY DEF Attempt, IsCorrect
  <2>2. Append(row.attempts, [q |-> q, a |-> a, correct |-> IsCorrect(q, a)]) \in Seq(Attempt)
    BY <2>1 DEF StudyRow
  <2>3. (row.ended \/ status \in {"completed", "abandoned"}) \in BOOLEAN
    OBVIOUS
  <2>4. (IF IsCorrect(q, a) THEN row.correct + 1 ELSE row.correct) \in Nat
    BY DEF StudyRow
  <2>5. QED
    BY <2>2, <2>3, <2>4 DEF AfterRecording, StudyRow
<1>6. QED
  BY <1>1, <1>2, <1>3, <1>4, <1>5
-----------------------------------------------------------------------------
(* Steps of the operations in progress.                                    *)

\* Moving a client to its next repository call leaves the other clients
\* where they are.
LEMMA GotoKeepsOthers ==
  ASSUME NEW c, NEW next, Goto(c, next)
  PROVE  /\ call'[c] = next
         /\ \A d \in DOMAIN call' : d # c => d \in DOMAIN call /\ call'[d] = call[d]
BY DEF Goto, Put

\* Ending the operation of a client leaves the other clients where they are.
LEMMA ReturnKeepsOthers ==
  ASSUME NEW c, Return(c)
  PROVE  \A d \in DOMAIN call' : d # c /\ d \in DOMAIN call /\ call'[d] = call[d]
BY DEF Return, Drop

\* Moving a client keeps the operations in progress well formed.
LEMMA GotoTyped ==
  ASSUME IsTable(call, Clients, Call), NEW c \in Clients, NEW next \in Call, Goto(c, next)
  PROVE  IsTable(call, Clients, Call)'
BY PutRow DEF Goto, IsTable, Put

\* Ending an operation keeps the others well formed.
LEMMA ReturnTyped ==
  ASSUME IsTable(call, Clients, Call), NEW c, Return(c)
  PROVE  IsTable(call, Clients, Call)'
BY DropRow DEF Return, IsTable, Drop

\* The lists of questions a session may be given are not empty and repeat
\* no question.
LEMMA QuestionListsOK ==
  ASSUME NEW mode, NEW topic, NEW count \in Nat, Candidates(topic) # {},
         NEW list \in QuestionLists(mode, topic, count)
  PROVE  /\ list \in Seq(Questions)
         /\ IsInjective(list)
         /\ Len(list) \in Nat \ {0}
<1> DEFINE n == SessionLength(mode, topic, count)
<1>1. IsFiniteSet(Candidates(topic))
  <2>1. Candidates(topic) \in SUBSET Questions
    BY DEF Candidates
  <2>2. QED
    BY <2>1, PackAssumption, FS_Subset
<1>2. Cardinality(Candidates(topic)) \in Nat \ {0}
  BY <1>1, FS_CardinalityType, FS_EmptySet
<1>3. n \in Nat \ {0}
  BY <1>2, PackAssumption DEF SessionLength
<1>4. list \in [1..n -> Candidates(topic)] /\ IsInjective(list)
  BY DEF QuestionLists, Injection
<1>5. Candidates(topic) \subseteq Questions
  BY DEF Candidates
<1>6. list \in [1..n -> Questions]
  BY <1>4, <1>5
<1>7. QED
  BY <1>3, <1>4, <1>6

\* A new session is a row the user can start with.
LEMMA NewQuizOK ==
  ASSUME clock \in Nat, NEW list \in Seq(Questions), IsInjective(list), Len(list) \in Nat \ {0}
  PROVE  NewQuiz(list) \in QuizRow /\ QuizRowOK(NewQuiz(list))
<1>1. EmptyTable \in Table(Questions, Choices)
  BY NoRows, TableMember
<1>2. NewQuiz(list) \in QuizRow
  BY <1>1 DEF NewQuiz, QuizRow, Status
<1>3. QuizRowOK(NewQuiz(list))
  BY DEF QuizRowOK, NewQuiz, Answered, EmptyTable
<1>4. QED
  BY <1>2, <1>3
-----------------------------------------------------------------------------
(* The invariant.                                                          *)

Counters ==
  /\ clock \in 0..MaxSecond
  /\ calls \in 0..MaxCalls
  /\ faults \in 0..MaxFaults

\* Reading a row, computing the one to write and going on preserves the
\* invariant when the computed row is consistent.
LEMMA ReadStep ==
  ASSUME IInv, Counters', NEW c \in Clients, NEW next \in Call,
         Goto(c, next), HeldRowOK(next), UNCHANGED <<tables, acked>>
  PROVE  IInv'
<1>1. IsTable(call, Clients, Call)'
  BY GotoTyped DEF IInv, TypeOK
<1>2. TypeOK'
  BY <1>1 DEF IInv, TypeOK, Counters, IsTable, tables
<1>3. HeldRowsConsistent'
  <2> SUFFICES ASSUME NEW d \in DOMAIN call'
               PROVE  HeldRowOK(call[d])'
    BY DEF HeldRowsConsistent
  <2>1. CASE d = c
    BY <2>1, GotoKeepsOthers DEF tables, HeldRowOK, StudyRowOK
  <2>2. CASE d # c
    <3>1. d \in DOMAIN call /\ call'[d] = call[d]
      BY <2>2, GotoKeepsOthers
    <3>2. HeldRowOK(call[d])
      BY <3>1 DEF IInv, HeldRowsConsistent
    <3>3. QED
      BY <3>1, <3>2 DEF tables, HeldRowOK, StudyRowOK
  <2>3. QED
    BY <2>1, <2>2
<1>4. (QuizRowsConsistent /\ TopicRowsConsistent /\ StudyRowsConsistent)'
  BY DEF IInv, QuizRowsConsistent, TopicRowsConsistent, StudyRowsConsistent,
         StudyRowOK, tables
<1>5. QED
  BY <1>2, <1>3, <1>4 DEF IInv

\* Leaving an operation without writing preserves the invariant.
LEMMA LeaveStep ==
  ASSUME IInv, Counters', NEW c \in Clients, Return(c), UNCHANGED <<tables, acked>>
  PROVE  IInv'
<1>1. IsTable(call, Clients, Call)'
  BY ReturnTyped DEF IInv, TypeOK
<1>2. TypeOK'
  BY <1>1 DEF IInv, TypeOK, Counters, IsTable, tables
<1>3. HeldRowsConsistent'
  <2> SUFFICES ASSUME NEW d \in DOMAIN call'
               PROVE  HeldRowOK(call[d])'
    BY DEF HeldRowsConsistent
  <2>1. d \in DOMAIN call /\ call'[d] = call[d]
    BY ReturnKeepsOthers
  <2>2. HeldRowOK(call[d])
    BY <2>1 DEF IInv, HeldRowsConsistent
  <2>3. QED
    BY <2>1, <2>2 DEF tables, HeldRowOK, StudyRowOK
<1>4. (QuizRowsConsistent /\ TopicRowsConsistent /\ StudyRowsConsistent)'
  BY DEF IInv, QuizRowsConsistent, TopicRowsConsistent, StudyRowsConsistent,
         StudyRowOK, tables
<1>5. QED
  BY <1>2, <1>3, <1>4 DEF IInv

\* No step changes the questions of a session that exists.
QuestionsKept ==
  \A s \in DOMAIN quiz : s \in DOMAIN quiz' /\ quiz'[s].questions = quiz[s].questions

\* What the other clients hold stays consistent when one client moves.
LEMMA HeldByOthers ==
  ASSUME IInv, QuestionsKept, NEW c,
         \A d \in DOMAIN call' : d # c => d \in DOMAIN call /\ call'[d] = call[d],
         c \in DOMAIN call' => HeldRowOK(call[c])'
  PROVE  HeldRowsConsistent'
<1> SUFFICES ASSUME NEW d \in DOMAIN call', d # c
             PROVE  HeldRowOK(call[d])'
  BY DEF HeldRowsConsistent
<1>1. d \in DOMAIN call /\ call'[d] = call[d]
  OBVIOUS
<1>2. HeldRowOK(call[d])
  BY <1>1 DEF IInv, HeldRowsConsistent
<1>3. QED
  BY <1>1, <1>2 DEF QuestionsKept, HeldRowOK, StudyRowOK

\* Study sessions stay consistent while they are not written.
LEMMA StudiesKept ==
  ASSUME IInv, QuestionsKept, UNCHANGED study
  PROVE  StudyRowsConsistent'
<1>1. DOMAIN study \subseteq DOMAIN quiz'
  BY DEF IInv, StudyRowsConsistent, QuestionsKept
<1>2. ASSUME NEW s \in DOMAIN study
      PROVE  StudyRowOK(s, study[s])'
  BY DEF IInv, StudyRowsConsistent, StudyRowOK, QuestionsKept
<1>3. QED
  BY <1>1, <1>2 DEF StudyRowsConsistent

\* Writing a consistent study session keeps the study sessions consistent.
LEMMA StudyWritten ==
  ASSUME IInv, UNCHANGED quiz, NEW s \in DOMAIN quiz, NEW row \in StudyRow,
         StudyRowOK(s, row), study' = Put(study, s, row)
  PROVE  IsTable(study, Sessions, StudyRow)' /\ StudyRowsConsistent' /\ QuestionsKept
<1>1. s \in Sessions
  BY DEF IInv, TypeOK, IsTable
<1>2. IsTable(study, Sessions, StudyRow)'
  BY <1>1, PutRow DEF IInv, TypeOK, IsTable, Put
<1>3. \A x \in DOMAIN study' : study'[x] = IF x = s THEN row ELSE study[x]
  BY DEF Put
<1>4. \A x \in DOMAIN study' : x = s \/ x \in DOMAIN study
  BY DEF Put
<1>5. StudyRowsConsistent'
  <2>1. DOMAIN study' \subseteq DOMAIN quiz'
    BY <1>4 DEF IInv, StudyRowsConsistent
  <2>2. ASSUME NEW x \in DOMAIN study'
        PROVE  StudyRowOK(x, study[x])'
    BY <1>3, <1>4 DEF IInv, StudyRowsConsistent, StudyRowOK
  <2>3. QED
    BY <2>1, <2>2 DEF StudyRowsConsistent
<1>6. QED
  BY <1>2, <1>5 DEF QuestionsKept

\* Writing a consistent session with the questions it had keeps the sessions
\* consistent.
LEMMA QuizWritten ==
  ASSUME IInv, NEW s \in DOMAIN quiz, NEW row \in QuizRow, QuizRowOK(row),
         row.questions = quiz[s].questions, quiz' = Put(quiz, s, row)
  PROVE  IsTable(quiz, Sessions, QuizRow)' /\ QuizRowsConsistent' /\ QuestionsKept
<1>1. s \in Sessions
  BY DEF IInv, TypeOK, IsTable
<1>2. IsTable(quiz, Sessions, QuizRow)'
  BY <1>1, PutRow DEF IInv, TypeOK, IsTable, Put
<1>3. \A x \in DOMAIN quiz' : quiz'[x] = IF x = s THEN row ELSE quiz[x]
  BY DEF Put
<1>4. \A x \in DOMAIN quiz' : x = s \/ x \in DOMAIN quiz
  BY DEF Put
<1>5. \A x \in DOMAIN quiz : x \in DOMAIN quiz'
  BY DEF Put
<1>6. QuizRowsConsistent'
  BY <1>3, <1>4 DEF IInv, QuizRowsConsistent
<1>7. QuestionsKept
  BY <1>3, <1>5 DEF QuestionsKept
<1>8. QED
  BY <1>2, <1>6, <1>7

\* A correct attempt adds one to the correct attempts on record, a wrong one
\* none.
LEMMA RecordingKeepsStudyRow ==
  ASSUME NEW s, NEW row \in StudyRow, StudyRowOK(s, row), NEW q \in Questions,
         q \in Range(quiz[s].questions), NEW a \in Choices, NEW status
  PROVE  StudyRowOK(s, AfterRecording(row, q, a, status))
<1> DEFINE at == [q |-> q, a |-> a, correct |-> IsCorrect(q, a)]
           new == AfterRecording(row, q, a, status)
           n == Len(row.attempts)
<1>1. /\ row.attempts \in Seq(Attempt) /\ n \in Nat
      /\ DOMAIN row.attempts = 1..n /\ row.correct \in Nat
  BY DEF StudyRow
<1>2. at \in Attempt
  BY DEF Attempt, IsCorrect
<1>3. /\ new.attempts = Append(row.attempts, at)
      /\ new.count = row.count
      /\ new.correct = IF IsCorrect(q, a) THEN row.correct + 1 ELSE row.correct
  BY DEF AfterRecording
<1>4. /\ DOMAIN new.attempts = 1..n+1
      /\ \A i \in 1..n : new.attempts[i] = row.attempts[i]
      /\ new.attempts[n+1] = at
  BY <1>1, <1>2, <1>3
<1>5. IsFiniteSet(CorrectAttempts(row)) /\ n+1 \notin CorrectAttempts(row)
  <2>1. CorrectAttempts(row) \in SUBSET (1..n)
    BY <1>1 DEF CorrectAttempts
  <2>2. IsFiniteSet(1..n)
    BY <1>1, FS_Interval
  <2>3. n+1 \notin 1..n
    BY <1>1
  <2>4. QED
    BY <2>1, <2>2, <2>3, FS_Subset
<1>6. CorrectAttempts(new) = IF IsCorrect(q, a) THEN CorrectAttempts(row) \cup {n+1}
                                                ELSE CorrectAttempts(row)
  <2>1. \A i \in 1..n+1 : i \in CorrectAttempts(new) <=>
           (i \in CorrectAttempts(row) \/ (i = n+1 /\ IsCorrect(q, a)))
    BY <1>1, <1>4 DEF CorrectAttempts
  <2>2. CorrectAttempts(new) \subseteq 1..n+1 /\ CorrectAttempts(row) \subseteq 1..n+1
    BY <1>1, <1>4 DEF CorrectAttempts
  <2>3. n+1 \in 1..n+1
    BY <1>1
  <2>4. QED
    BY <2>1, <2>2, <2>3
<1>7. new.correct = Cardinality(CorrectAttempts(new))
  <2>1. row.correct = Cardinality(CorrectAttempts(row))
    BY DEF StudyRowOK
  <2>2. Cardinality(CorrectAttempts(row) \cup {n+1}) = Cardinality(CorrectAttempts(row)) + 1
    BY <1>5, FS_AddElement
  <2>3. QED
    BY <2>1, <2>2, <1>3, <1>6
<1>8. \A i \in DOMAIN new.attempts :
        /\ new.attempts[i].q \in Range(quiz[s].questions)
        /\ new.attempts[i].correct = IsCorrect(new.attempts[i].q, new.attempts[i].a)
  <2> SUFFICES ASSUME NEW i \in 1..n+1
               PROVE  /\ new.attempts[i].q \in Range(quiz[s].questions)
                      /\ new.attempts[i].correct
                           = IsCorrect(new.attempts[i].q, new.attempts[i].a)
    BY <1>4
  <2>1. CASE i = n+1
    BY <2>1, <1>4
  <2>2. CASE i # n+1
    <3>1. i \in DOMAIN row.attempts /\ new.attempts[i] = row.attempts[i]
      BY <2>2, <1>1, <1>4
    <3>2. QED
      BY <3>1 DEF StudyRowOK
  <2>3. QED
    BY <2>1, <2>2
<1>9. QED
  BY <1>3, <1>7, <1>8 DEF StudyRowOK
-----------------------------------------------------------------------------
(* One lemma per step of the engine.                                       *)

\* Storing a new session; the client goes on to create the study session.
LEMMA StartQuizStep ==
  ASSUME IInv, NEW c \in Clients, NEW mode, NEW topic, NEW count \in Nat,
         StartQuiz(c, mode, topic, count)
  PROVE  IInv'
<1>1. PICK s \in Sessions, list \in QuestionLists(mode, topic, count) :
        /\ IsNewID(s)
        /\ quiz' = Put(quiz, s, NewQuiz(list))
        /\ Goto(c, [at |-> "createStudy", s |-> s, row |-> NewStudy(list)])
  BY DEF StartQuiz
<1> DEFINE next == [at |-> "createStudy", s |-> s, row |-> NewStudy(list)]
<1>2. Counters'
  BY BoundAssumption DEF StartQuiz, Begin, Counters, IInv, TypeOK
<1>3. UNCHANGED <<study, memory, topics, acked>>
  BY DEF StartQuiz
<1>4. list \in Seq(Questions) /\ IsInjective(list) /\ Len(list) \in Nat \ {0}
  BY QuestionListsOK DEF StartQuiz
<1>5. NewQuiz(list) \in QuizRow /\ QuizRowOK(NewQuiz(list))
  BY <1>4, NewQuizOK DEF IInv, TypeOK
<1>6. s \notin DOMAIN quiz
  BY <1>1, BoundAssumption DEF IsNewID
<1>7. IsTable(quiz, Sessions, QuizRow)'
  BY <1>1, <1>5, PutRow DEF IInv, TypeOK, IsTable, Put
<1>8. /\ \A x \in DOMAIN quiz' : x = s \/ x \in DOMAIN quiz
      /\ \A x \in DOMAIN quiz : x \in DOMAIN quiz' /\ quiz'[x] = quiz[x]
      /\ s \in DOMAIN quiz' /\ quiz'[s] = NewQuiz(list)
  BY <1>1, <1>6 DEF Put
<1>9. QuizRowsConsistent'
  BY <1>5, <1>8 DEF IInv, QuizRowsConsistent
<1>10. QuestionsKept
  BY <1>8 DEF QuestionsKept
<1>11. NewStudy(list) \in StudyRow
  BY <1>4 DEF NewStudy, StudyRow
<1>12. next \in Call
  BY <1>11 DEF Call
<1>13. TypeOK'
  <2>1. IsTable(call, Clients, Call)'
    BY <1>1, <1>12, GotoTyped DEF IInv, TypeOK
  <2>2. QED
    BY <1>2, <1>3, <1>7, <2>1 DEF IInv, TypeOK, Counters, IsTable
<1>14. HeldRowsConsistent'
  <2>1. HeldRowOK(next)'
    <3>1. /\ NewStudy(list).count = Len(list)
          /\ NewStudy(list).attempts = <<>>
          /\ NewStudy(list).correct = 0
          /\ quiz'[s].questions = list
      BY <1>8 DEF NewStudy, NewQuiz
    <3>2. Cardinality({i \in DOMAIN <<>> : <<>>[i].correct}) = 0
      BY FS_EmptySet
    <3>3. StudyRowOK(s, NewStudy(list))'
      BY <3>1, <3>2 DEF StudyRowOK, CorrectAttempts
    <3>4. QED
      BY <1>8, <3>3 DEF HeldRowOK, SubmitSteps
  <2>2. /\ call'[c] = next
        /\ \A d \in DOMAIN call' : d # c => d \in DOMAIN call /\ call'[d] = call[d]
    BY <1>1, GotoKeepsOthers
  <2>3. HeldRowOK(call[c])'
    BY <2>1, <2>2 DEF HeldRowOK, StudyRowOK
  <2>4. QED
    BY <1>10, <2>2, <2>3, HeldByOthers
<1>15. StudyRowsConsistent'
  BY <1>3, <1>10, StudiesKept
<1>16. TopicRowsConsistent'
  BY <1>3 DEF IInv, TopicRowsConsistent
<1>17. QED
  BY <1>9, <1>13, <1>14, <1>15, <1>16 DEF IInv

\* Storing the study session of a new session.
LEMMA CreateStudyStep ==
  ASSUME IInv, NEW c \in Clients, CreateStudy(c)
  PROVE  IInv'
<1> DEFINE s == call[c].s
           row == call[c].row
<1>1. c \in DOMAIN call /\ call[c].at = "createStudy" /\ call[c] \in Call
  BY DEF CreateStudy, At, IInv, TypeOK, IsTable
<1>2. row \in StudyRow /\ s \in DOMAIN quiz /\ StudyRowOK(s, row)
  BY <1>1, CallShape DEF IInv, HeldRowsConsistent, HeldRowOK
<1>3. /\ study' = Put(study, s, row)
      /\ UNCHANGED <<quiz, memory, topics, acked>>
      /\ Return(c) /\ Counters'
  BY DEF CreateStudy, KeepBounds, Counters, IInv, TypeOK
<1>4. IsTable(study, Sessions, StudyRow)' /\ StudyRowsConsistent' /\ QuestionsKept
  BY <1>2, <1>3, StudyWritten
<1>5. TypeOK'
  <2>1. IsTable(call, Clients, Call)'
    BY <1>3, ReturnTyped DEF IInv, TypeOK
  <2>2. QED
    BY <1>3, <1>4, <2>1 DEF IInv, TypeOK, Counters, IsTable
<1>6. HeldRowsConsistent'
  BY <1>3, <1>4, HeldByOthers, ReturnKeepsOthers
<1>7. (QuizRowsConsistent /\ TopicRowsConsistent)'
  BY <1>3 DEF IInv, QuizRowsConsistent, TopicRowsConsistent
<1>8. QED
  BY <1>4, <1>5, <1>6, <1>7 DEF IInv

\* Reading the session and computing the answered one.
LEMMA SubmitAnswerStep ==
  ASSUME IInv, NEW c \in Clients, NEW s \in Sessions, NEW q \in Questions,
         NEW a \in Choices, SubmitAnswer(c, s, q, a)
  PROVE  IInv'
<1> DEFINE row == AfterAnswer(quiz[s], q, a)
           next == [at |-> "saveAnswer", s |-> s, q |-> q, a |-> a, row |-> row]
<1>1. /\ s \in DOMAIN quiz /\ q \in Range(quiz[s].questions)
      /\ Goto(c, next) /\ UNCHANGED <<tables, acked>>
  BY DEF SubmitAnswer
<1>2. quiz[s] \in QuizRow /\ QuizRowOK(quiz[s])
  BY <1>1 DEF IInv, TypeOK, IsTable, QuizRowsConsistent
<1>3. row \in QuizRow /\ QuizRowOK(row) /\ row.questions = quiz[s].questions
  BY <1>1, <1>2, AfterAnswerOK
<1>4. next \in Call
  BY <1>3 DEF Call
<1>5. HeldRowOK(next)
  BY <1>1, <1>3 DEF HeldRowOK, SubmitSteps
<1>6. Counters'
  BY BoundAssumption DEF SubmitAnswer, Begin, Counters, IInv, TypeOK
<1>7. QED
  BY <1>1, <1>4, <1>5, <1>6, ReadStep

\* Writing the answered session over whatever is stored by then: it has the
\* same questions.
LEMMA SaveAnswerStep ==
  ASSUME IInv, NEW c \in Clients, SaveAnswer(c)
  PROVE  IInv'
<1> DEFINE s == call[c].s
           row == call[c].row
           next == Submitting(c, "getMemory", row.status)
<1>1. c \in DOMAIN call /\ call[c].at = "saveAnswer" /\ call[c] \in Call
  BY DEF SaveAnswer, At, IInv, TypeOK, IsTable
<1>2. /\ row \in QuizRow /\ s \in DOMAIN quiz /\ QuizRowOK(row)
      /\ row.questions = quiz[s].questions
      /\ s \in Sessions /\ call[c].q \in Questions /\ call[c].a \in Choices
      /\ call[c].q \in Range(quiz[s].questions)
  BY <1>1, CallShape DEF IInv, HeldRowsConsistent, HeldRowOK, SubmitSteps
<1>3. /\ quiz' = Put(quiz, s, row)
      /\ UNCHANGED <<study, memory, topics, acked>>
      /\ Goto(c, next) /\ Counters'
  BY DEF SaveAnswer, KeepBounds, Counters, IInv, TypeOK
<1>4. IsTable(quiz, Sessions, QuizRow)' /\ QuizRowsConsistent' /\ QuestionsKept
  BY <1>2, <1>3, QuizWritten
<1>5. next \in Call
  BY <1>2 DEF Submitting, Call, QuizRow
<1>6. TypeOK'
  <2>1. IsTable(call, Clients, Call)'
    BY <1>3, <1>5, GotoTyped DEF IInv, TypeOK
  <2>2. QED
    BY <1>3, <1>4, <2>1 DEF IInv, TypeOK, Counters, IsTable
<1>7. HeldRowsConsistent'
  <2>1. call'[c] = next
    BY <1>3, GotoKeepsOthers
  <2>2. HeldRowOK(call[c])'
    BY <1>2, <1>4, <2>1 DEF HeldRowOK, QuestionsKept, Submitting
  <2>3. QED
    BY <1>3, <1>4, <2>2, GotoKeepsOthers, HeldByOthers
<1>8. TopicRowsConsistent' /\ StudyRowsConsistent'
  BY <1>3, <1>4, StudiesKept DEF IInv, TopicRowsConsistent
<1>9. QED
  BY <1>4, <1>6, <1>7, <1>8 DEF IInv

\* Reading the memory of the question and computing its review.
LEMMA GetMemoryStep ==
  ASSUME IInv, NEW c \in Clients, GetMemory(c)
  PROVE  IInv'
<1> DEFINE q == call[c].q
           current == IF q \in DOMAIN memory THEN memory[q] ELSE Fresh
           row == CalculateNextReview(current, IsCorrect(q, call[c].a))
           next == Writing(c, "putMemory", row)
<1>1. c \in DOMAIN call /\ call[c].at = "getMemory" /\ call[c] \in Call
  BY DEF GetMemory, At, IInv, TypeOK, IsTable
<1>2. /\ call[c].s \in Sessions /\ q \in Questions /\ call[c].a \in Choices
      /\ call[c].status \in Status
      /\ call[c].s \in DOMAIN quiz /\ q \in Range(quiz[call[c].s].questions)
  BY <1>1, CallShape DEF IInv, HeldRowsConsistent, HeldRowOK, SubmitSteps
<1>3. Goto(c, next) /\ UNCHANGED <<tables, acked>> /\ Counters'
  BY DEF GetMemory, KeepBounds, Counters, IInv, TypeOK
<1>4. row \in Memory
  <2>1. current \in Memory
    BY NewRows DEF IInv, TypeOK, IsTable
  <2>2. IsCorrect(q, call[c].a) \in BOOLEAN
    BY DEF IsCorrect
  <2>3. QED
    BY <2>1, <2>2, NewRows
<1>5. next \in Call
  BY <1>2, <1>4 DEF Writing, Call
<1>6. HeldRowOK(next)
  BY <1>2 DEF HeldRowOK, Writing
<1>7. QED
  BY <1>3, <1>5, <1>6, ReadStep

\* Writing the memory of the question.
LEMMA PutMemoryStep ==
  ASSUME IInv, NEW c \in Clients, PutMemory(c)
  PROVE  IInv'
<1> DEFINE q == call[c].q
           next == Submitting(c, "getTopic", call[c].status)
<1>1. c \in DOMAIN call /\ call[c].at = "putMemory" /\ call[c] \in Call
  BY DEF PutMemory, At, IInv, TypeOK, IsTable
<1>2. /\ call[c].s \in Sessions /\ q \in Questions /\ call[c].a \in Choices
      /\ call[c].status \in Status /\ call[c].row \in Memory
      /\ call[c].s \in DOMAIN quiz /\ q \in Range(quiz[call[c].s].questions)
  BY <1>1, CallShape DEF IInv, HeldRowsConsistent, HeldRowOK, SubmitSteps
<1>3. /\ memory' = Put(memory, q, call[c].row)
      /\ UNCHANGED <<quiz, study, topics, acked>>
      /\ Goto(c, next) /\ Counters'
  BY DEF PutMemory, KeepBounds, Counters, IInv, TypeOK
<1>4. IsTable(memory, Questions, Memory)'
  BY <1>2, <1>3, PutRow DEF IInv, TypeOK, IsTable, Put
<1>5. next \in Call
  BY <1>2 DEF Submitting, Call
<1>6. TypeOK'
  <2>1. IsTable(call, Clients, Call)'
    BY <1>3, <1>5, GotoTyped DEF IInv, TypeOK
  <2>2. QED
    BY <1>3, <1>4, <2>1 DEF IInv, TypeOK, Counters, IsTable
<1>7. QuestionsKept
  BY <1>3 DEF QuestionsKept
<1>8. HeldRowsConsistent'
  <2>1. call'[c] = next
    BY <1>3, GotoKeepsOthers
  <2>2. HeldRowOK(call[c])'
    BY <1>2, <1>3, <2>1 DEF HeldRowOK, Submitting
  <2>3. QED
    BY <1>3, <1>7, <2>2, GotoKeepsOthers, HeldByOthers
<1>9. (QuizRowsConsistent /\ TopicRowsConsistent)' /\ StudyRowsConsistent'
  BY <1>3, <1>7, StudiesKept DEF IInv, QuizRowsConsistent, TopicRowsConsistent
<1>10. QED
  BY <1>6, <1>8, <1>9 DEF IInv

\* Reading the statistics of the topic and counting the attempt.
LEMMA GetTopicStep ==
  ASSUME IInv, NEW c \in Clients, GetTopic(c)
  PROVE  IInv'
<1> DEFINE q == call[c].q
           t == TopicOf[q]
           current == IF t \in DOMAIN topics THEN topics[t] ELSE FreshTopic
           row == AfterAttempt(current, IsCorrect(q, call[c].a))
           next == Writing(c, "putTopic", row)
<1>1. c \in DOMAIN call /\ call[c].at = "getTopic" /\ call[c] \in Call
  BY DEF GetTopic, At, IInv, TypeOK, IsTable
<1>2. /\ call[c].s \in Sessions /\ q \in Questions /\ call[c].a \in Choices
      /\ call[c].status \in Status
      /\ call[c].s \in DOMAIN quiz /\ q \in Range(quiz[call[c].s].questions)
  BY <1>1, CallShape DEF IInv, HeldRowsConsistent, HeldRowOK, SubmitSteps
<1>3. Goto(c, next) /\ UNCHANGED <<tables, acked>> /\ Counters'
  BY DEF GetTopic, KeepBounds, Counters, IInv, TypeOK
<1>4. row \in TopicRow /\ TopicRowOK(row)
  <2>1. FreshTopic \in TopicRow /\ TopicRowOK(FreshTopic)
    BY NewRows DEF TopicRowOK, FreshTopic
  <2>2. current \in TopicRow /\ TopicRowOK(current)
    BY <2>1 DEF IInv, TypeOK, IsTable, TopicRowsConsistent
  <2>3. IsCorrect(q, call[c].a) \in BOOLEAN
    BY DEF IsCorrect
  <2>4. row \in TopicRow
    BY <2>2, <2>3, NewRows
  <2>5. TopicRowOK(row)
    BY <2>2 DEF TopicRowOK, TopicRow, AfterAttempt
  <2>6. QED
    BY <2>4, <2>5
<1>5. next \in Call
  BY <1>2, <1>4 DEF Writing, Call
<1>6. HeldRowOK(next)
  BY <1>2, <1>4 DEF HeldRowOK, Writing
<1>7. QED
  BY <1>3, <1>5, <1>6, ReadStep

\* Writing the statistics of the topic.
LEMMA PutTopicStep ==
  ASSUME IInv, NEW c \in Clients, PutTopic(c)
  PROVE  IInv'
<1> DEFINE q == call[c].q
           row == call[c].row
           next == Submitting(c, "getStudy", call[c].status)
<1>1. c \in DOMAIN call /\ call[c].at = "putTopic" /\ call[c] \in Call
  BY DEF PutTopic, At, IInv, TypeOK, IsTable
<1>2. /\ call[c].s \in Sessions /\ q \in Questions /\ call[c].a \in Choices
      /\ call[c].status \in Status /\ row \in TopicRow /\ TopicRowOK(row)
      /\ call[c].s \in DOMAIN quiz /\ q \in Range(quiz[call[c].s].questions)
  BY <1>1, CallShape DEF IInv, HeldRowsConsistent, HeldRowOK, SubmitSteps
<1>3. /\ topics' = Put(topics, TopicOf[q], row)
      /\ UNCHANGED <<quiz, study, memory, acked>>
      /\ Goto(c, next) /\ Counters'
  BY DEF PutTopic, KeepBounds, Counters, IInv, TypeOK
<1>4. IsTable(topics, Topics, TopicRow)'
  <2>1. TopicOf[q] \in Topics
    BY <1>2, PackAssumption
  <2>2. QED
    BY <1>2, <1>3, <2>1, PutRow DEF IInv, TypeOK, IsTable, Put
<1>5. TopicRowsConsistent'
  BY <1>2, <1>3 DEF IInv, TopicRowsConsistent, Put
<1>6. next \in Call
  BY <1>2 DEF Submitting, Call
<1>7. TypeOK'
  <2>1. IsTable(call, Clients, Call)'
    BY <1>3, <1>6, GotoTyped DEF IInv, TypeOK
  <2>2. QED
    BY <1>3, <1>4, <2>1 DEF IInv, TypeOK, Counters, IsTable
<1>8. QuestionsKept
  BY <1>3 DEF QuestionsKept
<1>9. HeldRowsConsistent'
  <2>1. call'[c] = next
    BY <1>3, GotoKeepsOthers
  <2>2. HeldRowOK(call[c])'
    BY <1>2, <1>3, <2>1 DEF HeldRowOK, Submitting
  <2>3. QED
    BY <1>3, <1>8, <2>2, GotoKeepsOthers, HeldByOthers
<1>10. QuizRowsConsistent' /\ StudyRowsConsistent'
  BY <1>3, <1>8, StudiesKept DEF IInv, QuizRowsConsistent
<1>11. QED
  BY <1>5, <1>7, <1>9, <1>10 DEF IInv

\* Reading the study session and computing its next attempt.
LEMMA GetStudyStep ==
  ASSUME IInv, NEW c \in Clients, GetStudy(c)
  PROVE  IInv'
<1> DEFINE s == call[c].s
           q == call[c].q
           a == call[c].a
           row == AfterRecording(study[s], q, a, call[c].status)
           next == Writing(c, "putAttempt", row)
<1>1. c \in DOMAIN call /\ call[c].at = "getStudy" /\ call[c] \in Call
  BY DEF GetStudy, At, IInv, TypeOK, IsTable
<1>2. /\ s \in Sessions /\ q \in Questions /\ a \in Choices
      /\ call[c].status \in Status
      /\ s \in DOMAIN quiz /\ q \in Range(quiz[s].questions)
  BY <1>1, CallShape DEF IInv, HeldRowsConsistent, HeldRowOK, SubmitSteps
<1>3. /\ s \in DOMAIN study
      /\ Goto(c, next) /\ UNCHANGED <<tables, acked>> /\ Counters'
  BY DEF GetStudy, KeepBounds, Counters, IInv, TypeOK
<1>4. study[s] \in StudyRow /\ StudyRowOK(s, study[s])
  BY <1>3 DEF IInv, TypeOK, IsTable, StudyRowsConsistent
<1>5. row \in StudyRow
  BY <1>2, <1>4, NewRows
<1>6. StudyRowOK(s, row)
  BY <1>2, <1>4, RecordingKeepsStudyRow
<1>7. next \in Call
  BY <1>2, <1>5 DEF Writing, Call
<1>8. HeldRowOK(next)
  BY <1>2, <1>6 DEF HeldRowOK, Writing
<1>9. QED
  BY <1>3, <1>7, <1>8, ReadStep

\* Writing the study session, which ends SubmitAnswer.
LEMMA PutAttemptStep ==
  ASSUME IInv, NEW c \in Clients, PutAttempt(c)
  PROVE  IInv'
<1> DEFINE s == call[c].s
           row == call[c].row
<1>1. c \in DOMAIN call /\ call[c].at = "putAttempt" /\ call[c] \in Call
  BY DEF PutAttempt, At, IInv, TypeOK, IsTable
<1>2. row \in StudyRow /\ s \in DOMAIN quiz /\ StudyRowOK(s, row) /\ call[c].q \in Questions
  BY <1>1, CallShape DEF IInv, HeldRowsConsistent, HeldRowOK
<1>3. /\ study' = Put(study, s, row)
      /\ acked' = [acked EXCEPT ![s] = @ \cup {call[c].q}]
      /\ UNCHANGED <<quiz, memory, topics>>
      /\ Return(c) /\ Counters'
  BY DEF PutAttempt, KeepBounds, Counters, IInv, TypeOK
<1>4. IsTable(study, Sessions, StudyRow)' /\ StudyRowsConsistent' /\ QuestionsKept
  BY <1>2, <1>3, StudyWritten
<1>5. TypeOK'
  <2>1. IsTable(call, Clients, Call)'
    BY <1>3, ReturnTyped DEF IInv, TypeOK
  <2>2. acked' \in [Sessions -> SUBSET Questions]
    BY <1>2, <1>3 DEF IInv, TypeOK
  <2>3. QED
    BY <1>3, <1>4, <2>1, <2>2 DEF IInv, TypeOK, Counters, IsTable
<1>6. HeldRowsConsistent'
  BY <1>3, <1>4, HeldByOthers, ReturnKeepsOthers
<1>7. (QuizRowsConsistent /\ TopicRowsConsistent)'
  BY <1>3 DEF IInv, QuizRowsConsistent, TopicRowsConsistent
<1>8. QED
  BY <1>4, <1>5, <1>6, <1>7 DEF IInv

\* Reading the session to abandon; a completed one stays consistent too.
LEMMA AbandonSessionStep ==
  ASSUME IInv, NEW c \in Clients, NEW s \in Sessions, AbandonSession(c, s)
  PROVE  IInv'
<1> DEFINE row == [quiz[s] EXCEPT !.status = "abandoned"]
           next == [at |-> "saveAbandoned", s |-> s, row |-> row]
<1>1. s \in DOMAIN quiz /\ Goto(c, next) /\ UNCHANGED <<tables, acked>>
  BY DEF AbandonSession
<1>2. quiz[s] \in QuizRow /\ QuizRowOK(quiz[s])
  BY <1>1 DEF IInv, TypeOK, IsTable, QuizRowsConsistent
<1>3. row \in QuizRow
  BY <1>2 DEF QuizRow, Status
<1>4. /\ row.questions = quiz[s].questions /\ row.index = quiz[s].index
      /\ row.answers = quiz[s].answers /\ row.status = "abandoned"
  BY <1>2 DEF QuizRow
<1>5. QuizRowOK(row)
  BY <1>2, <1>4 DEF QuizRowOK, Answered
<1>6. next \in Call
  BY <1>3 DEF Call
<1>7. HeldRowOK(next)
  BY <1>1, <1>4, <1>5 DEF HeldRowOK, SubmitSteps
<1>8. Counters'
  BY BoundAssumption DEF AbandonSession, Begin, Counters, IInv, TypeOK
<1>9. QED
  BY <1>1, <1>6, <1>7, <1>8, ReadStep

\* Writing the abandoned session.
LEMMA SaveAbandonedStep ==
  ASSUME IInv, NEW c \in Clients, SaveAbandoned(c)
  PROVE  IInv'
<1> DEFINE s == call[c].s
           row == call[c].row
           next == [at |-> "getEnd", s |-> s]
<1>1. c \in DOMAIN call /\ call[c].at = "saveAbandoned" /\ call[c] \in Call
  BY DEF SaveAbandoned, At, IInv, TypeOK, IsTable
<1>2. /\ row \in QuizRow /\ s \in DOMAIN quiz /\ QuizRowOK(row)
      /\ row.questions = quiz[s].questions /\ s \in Sessions
  BY <1>1, CallShape DEF IInv, HeldRowsConsistent, HeldRowOK
<1>3. /\ quiz' = Put(quiz, s, row)
      /\ UNCHANGED <<study, memory, topics, acked>>
      /\ Goto(c, next) /\ Counters'
  BY DEF SaveAbandoned, KeepBounds, Counters, IInv, TypeOK
<1>4. IsTable(quiz, Sessions, QuizRow)' /\ QuizRowsConsistent' /\ QuestionsKept
  BY <1>2, <1>3, QuizWritten
<1>5. next \in Call
  BY <1>2 DEF Call
<1>6. TypeOK'
  <2>1. IsTable(call, Clients, Call)'
    BY <1>3, <1>5, GotoTyped DEF IInv, TypeOK
  <2>2. QED
    BY <1>3, <1>4, <2>1 DEF IInv, TypeOK, Counters, IsTable
<1>7. HeldRowsConsistent'
  <2>1. call'[c] = next
    BY <1>3, GotoKeepsOthers
  <2>2. HeldRowOK(call[c])'
    BY <1>2, <1>4, <2>1 DEF HeldRowOK, QuestionsKept, SubmitSteps
  <2>3. QED
    BY <1>3, <1>4, <2>2, GotoKeepsOthers, HeldByOthers
<1>8. TopicRowsConsistent' /\ StudyRowsConsistent'
  BY <1>3, <1>4, StudiesKept DEF IInv, TopicRowsConsistent
<1>9. QED
  BY <1>4, <1>6, <1>7, <1>8 DEF IInv

\* Reading the study session to end.
LEMMA GetEndStep ==
  ASSUME IInv, NEW c \in Clients, GetEnd(c)
  PROVE  IInv'
<1> DEFINE s == call[c].s
           row == [study[s] EXCEPT !.ended = TRUE]
           next == [at |-> "putEnd", s |-> s, row |-> row]
<1>1. c \in DOMAIN call /\ call[c].at = "getEnd" /\ call[c] \in Call
  BY DEF GetEnd, At, IInv, TypeOK, IsTable
<1>2. s \in Sessions /\ s \in DOMAIN quiz
  BY <1>1, CallShape DEF IInv, HeldRowsConsistent, HeldRowOK
<1>3. /\ s \in DOMAIN study
      /\ Goto(c, next) /\ UNCHANGED <<tables, acked>> /\ Counters'
  BY DEF GetEnd, KeepBounds, Counters, IInv, TypeOK
<1>4. study[s] \in StudyRow /\ StudyRowOK(s, study[s])
  BY <1>3 DEF IInv, TypeOK, IsTable, StudyRowsConsistent
<1>5. row \in StudyRow
  BY <1>4 DEF StudyRow
<1>6. /\ row.count = study[s].count /\ row.attempts = study[s].attempts
      /\ row.correct = study[s].correct
  BY <1>4 DEF StudyRow
<1>7. StudyRowOK(s, row)
  BY <1>4, <1>6 DEF StudyRowOK, CorrectAttempts
<1>8. next \in Call
  BY <1>2, <1>5 DEF Call
<1>9. HeldRowOK(next)
  BY <1>2, <1>7 DEF HeldRowOK, SubmitSteps
<1>10. QED
  BY <1>3, <1>8, <1>9, ReadStep

\* Writing the ended study session.
LEMMA PutEndStep ==
  ASSUME IInv, NEW c \in Clients, PutEnd(c)
  PROVE  IInv'
<1> DEFINE s == call[c].s
           row == call[c].row
<1>1. c \in DOMAIN call /\ call[c].at = "putEnd" /\ call[c] \in Call
  BY DEF PutEnd, At, IInv, TypeOK, IsTable
<1>2. row \in StudyRow /\ s \in DOMAIN quiz /\ StudyRowOK(s, row)
  BY <1>1, CallShape DEF IInv, HeldRowsConsistent, HeldRowOK
<1>3. /\ study' = Put(study, s, row)
      /\ UNCHANGED <<quiz, memory, topics, acked>>
      /\ Return(c) /\ Counters'
  BY DEF PutEnd, KeepBounds, Counters, IInv, TypeOK
<1>4. IsTable(study, Sessions, StudyRow)' /\ StudyRowsConsistent' /\ QuestionsKept
  BY <1>2, <1>3, StudyWritten
<1>5. TypeOK'
  <2>1. IsTable(call, Clients, Call)'
    BY <1>3, ReturnTyped DEF IInv, TypeOK
  <2>2. QED
    BY <1>3, <1>4, <2>1 DEF IInv, TypeOK, Counters, IsTable
<1>6. HeldRowsConsistent'
  BY <1>3, <1>4, HeldByOthers, ReturnKeepsOthers
<1>7. (QuizRowsConsistent /\ TopicRowsConsistent)'
  BY <1>3 DEF IInv, QuizRowsConsistent, TopicRowsConsistent
<1>8. QED
  BY <1>4, <1>5, <1>6, <1>7 DEF IInv
-----------------------------------------------------------------------------
(* The theorems.                                                           *)

\* An operation that runs goes on, one lemma per repository call.
LEMMA ContinueStep ==
  ASSUME IInv, NEW c \in Clients, Continue(c)
  PROVE  IInv'
<1>1. CASE NilStudy(c)
  <2>1. Return(c) /\ UNCHANGED <<tables, acked>> /\ Counters'
    BY <1>1 DEF NilStudy, KeepBounds, Counters, IInv, TypeOK
  <2>2. QED
    BY <2>1, LeaveStep
<1>2. QED
  BY <1>1, CreateStudyStep, SaveAnswerStep, GetMemoryStep, PutMemoryStep, GetTopicStep,
     PutTopicStep, GetStudyStep, PutAttemptStep, SaveAbandonedStep, GetEndStep,
     PutEndStep DEF Continue

\* The invariant is inductive: no repository call of any client, no failure
\* of one and no tick of the clock breaks it.
LEMMA StepInvariant ==
  ASSUME IInv, [Next]_vars
  PROVE  IInv'
<1>1. ASSUME NEW c \in Clients, NEW mode, NEW topic, NEW count \in 0..TestCount,
             StartQuiz(c, mode, topic, count)
      PROVE  IInv'
  <2>1. count \in Nat
    BY PackAssumption
  <2>2. QED
    BY <1>1, <2>1, StartQuizStep
<1>2. ASSUME NEW c \in Clients, Fail(c)
      PROVE  IInv'
  <2>1. Return(c) /\ UNCHANGED <<tables, acked>>
    BY <1>2 DEF Fail
  <2>2. Counters'
    BY <1>2, BoundAssumption DEF Fail, Counters, IInv, TypeOK
  <2>3. QED
    BY <2>1, <2>2, LeaveStep
<1>3. CASE Tick
  <2>1. UNCHANGED <<quiz, study, memory, topics, call, acked>> /\ Counters'
    BY <1>3, BoundAssumption DEF Tick, tables, Counters, IInv, TypeOK
  <2>2. TypeOK'
    BY <2>1 DEF IInv, TypeOK, Counters, IsTable
  <2>3. QED
    BY <2>1, <2>2 DEF IInv, QuizRowsConsistent, TopicRowsConsistent,
       StudyRowsConsistent, StudyRowOK, HeldRowsConsistent, HeldRowOK
<1>4. CASE UNCHANGED vars
  <2>1. UNCHANGED <<quiz, study, memory, topics, call, clock, calls, faults, acked>>
    BY <1>4 DEF vars
  <2>2. TypeOK'
    BY <2>1 DEF IInv, TypeOK, IsTable
  <2>3. QED
    BY <2>1, <2>2 DEF IInv, QuizRowsConsistent, TopicRowsConsistent,
       StudyRowsConsistent, StudyRowOK, HeldRowsConsistent, HeldRowOK
<1>5. QED
  BY <1>1, <1>2, <1>3, <1>4, SubmitAnswerStep, AbandonSessionStep, ContinueStep DEF Next

\* The empty database satisfies the invariant.
LEMMA InitInvariant ==
  ASSUME Init
  PROVE  IInv
<1>1. /\ IsTable(quiz, Sessions, QuizRow) /\ IsTable(study, Sessions, StudyRow)
      /\ IsTable(memory, Questions, Memory) /\ IsTable(topics, Topics, TopicRow)
      /\ IsTable(call, Clients, Call)
      /\ DOMAIN quiz = {} /\ DOMAIN study = {} /\ DOMAIN topics = {} /\ DOMAIN call = {}
  BY NoRows DEF Init
<1>2. TypeOK
  BY <1>1, BoundAssumption DEF Init, TypeOK
<1>3. QED
  BY <1>1, <1>2 DEF IInv, QuizRowsConsistent, TopicRowsConsistent, StudyRowsConsistent,
                    HeldRowsConsistent

\* However many clients share the database, in whatever order their reads
\* and whole-row writes fall and wherever their operations are cut short,
\* the tables stay well formed and their rows consistent.
THEOREM Invariance == Spec => []IInv
<1>1. Init => IInv
  BY InitInvariant
<1>2. IInv /\ [Next]_vars => IInv'
  BY StepInvariant
<1>3. QED
  BY <1>1, <1>2, PTL DEF Spec

\* Types: every row that is stored or held is a row of its table.
THEOREM TypeCorrect == Spec => []TypeOK
BY Invariance, PTL DEF IInv

\* Every stored session is one the user can go on with.
THEOREM QuizRowsStayConsistent == Spec => []QuizRowsConsistent
BY Invariance, PTL DEF IInv

\* The topic counters stay in order under lost updates.
THEOREM TopicRowsStayConsistent == Spec => []TopicRowsConsistent
BY Invariance, PTL DEF IInv

\* CorrectCount of a study session is the number of its correct attempts,
\* and every attempt is on a question of its quiz session.
THEOREM StudyRowsStayConsistent == Spec => []StudyRowsConsistent
BY Invariance, PTL DEF IInv

\* A stale row that a client is about to write is as consistent as the
\* stored ones.
THEOREM HeldRowsStayConsistent == Spec => []HeldRowsConsistent
BY Invariance, PTL DEF IInv
-----------------------------------------------------------------------------
(* Part 2: one client.                                                     *)

\* What makes the difference: no other client moves the row under a client
\* that has read it.
OneClient == \A c, d \in Clients : c = d

HeldIsCurrent(r) ==
  /\ r.at = "saveAnswer" => r.row = AfterAnswer(quiz[r.s], r.q, r.a)
  /\ r.at = "saveAbandoned" => r.row = [quiz[r.s] EXCEPT !.status = "abandoned"]

\* The session a client is about to write is computed from the one that is
\* stored now.
HeldRowsCurrent == \A c \in DOMAIN call : HeldIsCurrent(call[c])

sheet == [s \in DOMAIN quiz |-> SheetOf(quiz[s])]
-----------------------------------------------------------------------------
\* No other client is in an operation.
LEMMA AloneAtWork ==
  ASSUME OneClient, IInv, NEW c \in Clients
  PROVE  \A d \in DOMAIN call : d = c
BY DEF OneClient, IInv, TypeOK, IsTable

\* With one client, what it holds stays current.
LEMMA CurrentStep ==
  ASSUME OneClient, IInv, HeldRowsCurrent, [Next]_vars
  PROVE  HeldRowsCurrent'
<1>1. ASSUME NEW c \in Clients, NEW next, Goto(c, next), HeldIsCurrent(next)'
      PROVE  HeldRowsCurrent'
  <2>1. call'[c] = next /\ \A d \in DOMAIN call' : d = c
    BY <1>1, AloneAtWork, GotoKeepsOthers
  <2>2. HeldIsCurrent(call[c])'
    BY <1>1, <2>1 DEF HeldIsCurrent
  <2>3. QED
    BY <2>1, <2>2 DEF HeldRowsCurrent
<1>2. ASSUME NEW c \in Clients, NEW next, Goto(c, next),
              next.at \notin {"saveAnswer", "saveAbandoned"}
       PROVE  HeldRowsCurrent'
  BY <1>2, <1>1 DEF HeldIsCurrent
<1>3. ASSUME NEW c \in Clients, Return(c)
      PROVE  HeldRowsCurrent'
  BY <1>3, AloneAtWork, ReturnKeepsOthers DEF HeldRowsCurrent
<1>4. ASSUME NEW c \in Clients, NEW mode, NEW topic, NEW count,
             StartQuiz(c, mode, topic, count)
      PROVE  HeldRowsCurrent'
  BY <1>4, <1>2 DEF StartQuiz
<1>5. ASSUME NEW c \in Clients, NEW s \in Sessions, NEW q \in Questions,
             NEW a \in Choices, SubmitAnswer(c, s, q, a)
      PROVE  HeldRowsCurrent'
  <2> DEFINE next == [at |-> "saveAnswer", s |-> s, q |-> q, a |-> a,
                      row |-> AfterAnswer(quiz[s], q, a)]
  <2>1. Goto(c, next) /\ quiz' = quiz
    BY <1>5 DEF SubmitAnswer, tables
  <2>2. HeldIsCurrent(next)'
    BY <2>1 DEF HeldIsCurrent
  <2>3. QED
    BY <2>1, <2>2, <1>1
<1>6. ASSUME NEW c \in Clients, NEW s \in Sessions, AbandonSession(c, s)
      PROVE  HeldRowsCurrent'
  <2> DEFINE next == [at |-> "saveAbandoned", s |-> s,
                      row |-> [quiz[s] EXCEPT !.status = "abandoned"]]
  <2>1. Goto(c, next) /\ quiz' = quiz
    BY <1>6 DEF AbandonSession, tables
  <2>2. HeldIsCurrent(next)'
    BY <2>1 DEF HeldIsCurrent
  <2>3. QED
    BY <2>1, <2>2, <1>1
<1>7. ASSUME NEW c \in Clients, Continue(c)
      PROVE  HeldRowsCurrent'
  <2>1. CASE SaveAnswer(c) \/ PutMemory(c) \/ PutTopic(c)
    BY <2>1, <1>2 DEF SaveAnswer, PutMemory, PutTopic, Submitting
  <2>2. CASE GetMemory(c) \/ GetTopic(c) \/ GetStudy(c)
    BY <2>2, <1>2 DEF GetMemory, GetTopic, GetStudy, Writing
  <2>3. CASE SaveAbandoned(c) \/ GetEnd(c)
    BY <2>3, <1>2 DEF SaveAbandoned, GetEnd
  <2>4. CASE CreateStudy(c) \/ PutAttempt(c) \/ PutEnd(c) \/ NilStudy(c)
    BY <2>4, <1>3 DEF CreateStudy, PutAttempt, PutEnd, NilStudy
  <2>5. QED
    BY <1>7, <2>1, <2>2, <2>3, <2>4 DEF Continue
<1>8. ASSUME NEW c \in Clients, Fail(c)
      PROVE  HeldRowsCurrent'
  BY <1>8, <1>3 DEF Fail
<1>9. CASE Tick \/ UNCHANGED vars
  BY <1>9 DEF Tick, vars, tables, HeldRowsCurrent, HeldIsCurrent
<1>10. QED
  BY <1>4, <1>5, <1>6, <1>7, <1>8, <1>9 DEF Next
-----------------------------------------------------------------------------
(* The steps that write a session.                                         *)

\* A new session is a new sheet.
LEMMA StartOpens ==
  ASSUME IInv, NEW c \in Clients, NEW mode, NEW topic, NEW count \in Nat,
         StartQuiz(c, mode, topic, count)
  PROVE  \E s \in Sessions, asked \in (SUBSET Questions) \ {{}} : Sheet!Open(s, asked)
<1>1. PICK s \in Sessions, list \in QuestionLists(mode, topic, count) :
        IsNewID(s) /\ quiz' = Put(quiz, s, NewQuiz(list))
  BY DEF StartQuiz
<1>2. list \in Seq(Questions) /\ Len(list) \in Nat \ {0}
  BY QuestionListsOK DEF StartQuiz
<1>3. Range(list) \in (SUBSET Questions) \ {{}}
  <2>1. 1 \in DOMAIN list
    BY <1>2
  <2>2. Range(list) \subseteq Questions
    BY <1>2 DEF Range
  <2>3. list[1] \in Range(list)
    BY <2>1 DEF Range
  <2>4. QED
    BY <2>2, <2>3
<1>4. s \notin DOMAIN quiz
  BY <1>1, BoundAssumption DEF IsNewID
<1>5. SheetOf(NewQuiz(list)) = [asked |-> Range(list), filled |-> [q \in {} |-> q],
                                status |-> "in_progress"]
  BY DEF SheetOf, NewQuiz, EmptyTable
<1>6. Sheet!Open(s, Range(list))
  BY <1>1, <1>4, <1>5 DEF Sheet!Open, Put
<1>7. QED
  BY <1>3, <1>6

\* Writing a session that is stored changes its sheet alone.
LEMMA WriteSheet ==
  ASSUME NEW s \in DOMAIN quiz, NEW row, quiz' = Put(quiz, s, row)
  PROVE  sheet' = [sheet EXCEPT ![s] = SheetOf(row)]
BY DEF Put, sheet, SheetOf

\* Saving the answered session fills in the sheet.
LEMMA SaveFills ==
  ASSUME IInv, HeldRowsCurrent, NEW c \in Clients, SaveAnswer(c)
  PROVE  \E s \in Sessions, q \in Questions, a \in Choices : Sheet!Fill(s, q, a)
<1> DEFINE s == call[c].s
           q == call[c].q
           a == call[c].a
           row == quiz[s]
           answers == Put(row.answers, q, a)
<1>1. c \in DOMAIN call /\ call[c].at = "saveAnswer" /\ call[c] \in Call
  BY DEF SaveAnswer, At, IInv, TypeOK, IsTable
<1>2. /\ s \in DOMAIN quiz /\ s \in Sessions /\ q \in Questions /\ a \in Choices
      /\ q \in Range(row.questions)
      /\ row \in QuizRow /\ QuizRowOK(row)
  BY <1>1, CallShape DEF IInv, HeldRowsConsistent, HeldRowOK, SubmitSteps, TypeOK,
     IsTable, QuizRowsConsistent
<1>3. quiz' = Put(quiz, s, AfterAnswer(row, q, a))
  BY <1>1 DEF SaveAnswer, HeldRowsCurrent, HeldIsCurrent
<1>4. sheet' = [sheet EXCEPT ![s] = SheetOf(AfterAnswer(row, q, a))]
  BY <1>2, <1>3, WriteSheet
<1>5. Cardinality(DOMAIN answers) >= Len(row.questions)
        <=> DOMAIN answers = Range(row.questions)
  <2>1. row.questions \in Seq(Questions) /\ IsInjective(row.questions)
    BY <1>2 DEF QuizRow, QuizRowOK
  <2>2. DOMAIN answers \subseteq Range(row.questions)
    BY <1>2 DEF QuizRowOK, Answered, Put
  <2>3. QED
    BY <2>1, <2>2, CountingAnswers
<1>6. SheetOf(AfterAnswer(row, q, a)) = Sheet!Filled(SheetOf(row), q, a)
  BY <1>5 DEF SheetOf, AfterAnswer, Sheet!Filled, Put
<1>7. Sheet!Fill(s, q, a)
  BY <1>2, <1>4, <1>6 DEF Sheet!Fill, sheet, SheetOf
<1>8. QED
  BY <1>2, <1>7

\* Saving the abandoned session abandons the sheet.
LEMMA SaveAbandons ==
  ASSUME IInv, HeldRowsCurrent, NEW c \in Clients, SaveAbandoned(c)
  PROVE  \E s \in Sessions : Sheet!Abandon(s)
<1> DEFINE s == call[c].s
           row == [quiz[s] EXCEPT !.status = "abandoned"]
<1>1. c \in DOMAIN call /\ call[c].at = "saveAbandoned" /\ call[c] \in Call
  BY DEF SaveAbandoned, At, IInv, TypeOK, IsTable
<1>2. s \in DOMAIN quiz /\ s \in Sessions /\ quiz[s] \in QuizRow
  BY <1>1, CallShape DEF IInv, HeldRowsConsistent, HeldRowOK, TypeOK, IsTable
<1>3. quiz' = Put(quiz, s, row)
  BY <1>1 DEF SaveAbandoned, HeldRowsCurrent, HeldIsCurrent
<1>4. sheet' = [sheet EXCEPT ![s] = SheetOf(row)]
  BY <1>2, <1>3, WriteSheet
<1>5. SheetOf(row) = Sheet!Abandoned(SheetOf(quiz[s]))
  BY <1>2 DEF SheetOf, Sheet!Abandoned, QuizRow
<1>6. Sheet!Abandon(s)
  BY <1>2, <1>4, <1>5 DEF Sheet!Abandon, sheet
<1>7. QED
  BY <1>2, <1>6
-----------------------------------------------------------------------------
\* Every step of a lone client is a step of the sheet or leaves it alone.
LEMMA SheetStep ==
  ASSUME OneClient, IInv, HeldRowsCurrent, [Next]_vars
  PROVE  [Sheet!Next]_sheet
<1>1. ASSUME UNCHANGED quiz
      PROVE  [Sheet!Next]_sheet
  BY <1>1 DEF sheet
<1>2. ASSUME NEW c \in Clients, NEW mode, NEW topic, NEW count \in 0..TestCount,
             StartQuiz(c, mode, topic, count)
      PROVE  Sheet!Next
  <2>1. count \in Nat
    BY PackAssumption
  <2>2. QED
    BY <1>2, <2>1, StartOpens DEF Sheet!Next
<1>3. ASSUME NEW c \in Clients, Continue(c)
      PROVE  [Sheet!Next]_sheet
  <2>1. CASE SaveAnswer(c)
    BY <2>1, SaveFills DEF Sheet!Next
  <2>2. CASE SaveAbandoned(c)
    BY <2>2, SaveAbandons DEF Sheet!Next
  <2>3. CASE \/ CreateStudy(c) \/ GetMemory(c) \/ PutMemory(c) \/ GetTopic(c)
             \/ PutTopic(c) \/ GetStudy(c) \/ PutAttempt(c) \/ GetEnd(c) \/ PutEnd(c)
             \/ NilStudy(c)
    <3>1. UNCHANGED quiz
      BY <2>3 DEF CreateStudy, GetMemory, PutMemory, GetTopic, PutTopic, GetStudy,
                  PutAttempt, GetEnd, PutEnd, NilStudy, tables
    <3>2. QED
      BY <3>1, <1>1
  <2>4. QED
    BY <1>3, <2>1, <2>2, <2>3 DEF Continue
<1>4. ASSUME \/ Tick \/ UNCHANGED vars
             \/ \E c \in Clients :
                  \/ \E s \in Sessions, q \in Questions, a \in Choices : SubmitAnswer(c, s, q, a)
                  \/ \E s \in Sessions : AbandonSession(c, s)
                  \/ Fail(c)
      PROVE  [Sheet!Next]_sheet
  <2>1. UNCHANGED quiz
    BY <1>4 DEF Tick, vars, SubmitAnswer, AbandonSession, Fail, tables
  <2>2. QED
    BY <2>1, <1>1
<1>5. QED
  BY <1>2, <1>3, <1>4 DEF Next

\* With one client of the database, a quiz session is an answer sheet: no
\* answer that was saved is lost, a session is completed by its last answer,
\* and an operation that is cut short has taken effect or has not.
THEOREM SheetImplemented ==
  ASSUME OneClient
  PROVE  Spec => ImplementsSheet
<1>1. Init => IInv /\ HeldRowsCurrent /\ Sheet!Init
  <2> SUFFICES ASSUME Init
               PROVE  IInv /\ HeldRowsCurrent /\ Sheet!Init
    OBVIOUS
  <2>1. DOMAIN quiz = {} /\ DOMAIN call = {}
    BY DEF Init, EmptyTable
  <2>2. Sheet!Init
    BY <2>1 DEF Sheet!Init
  <2>3. QED
    BY <2>1, <2>2, InitInvariant DEF HeldRowsCurrent
<1>2. IInv /\ HeldRowsCurrent /\ [Next]_vars => IInv' /\ HeldRowsCurrent'
  BY StepInvariant, CurrentStep
<1>3. IInv /\ HeldRowsCurrent /\ [Next]_vars => [Sheet!Next]_sheet
  BY SheetStep
<1>4. QED
  BY <1>1, <1>2, <1>3, PTL DEF Spec, ImplementsSheet, Sheet!Spec, sheet
-----------------------------------------------------------------------------
(* The order of the writes.                                                *)

\* The steps of SubmitAnswer that come after its answer is saved, and those
\* that come after the memory of its question is.
AfterSave == {"getMemory", "putMemory", "getTopic", "putTopic", "getStudy", "putAttempt"}

AfterMemory == {"getTopic", "putTopic", "getStudy", "putAttempt"}

\* What an operation in progress has done so far is in the tables, and the
\* study session it is about to write is computed from the stored one.
InOrder(r) ==
  /\ r.at \in AfterSave => r.q \in Answered(quiz[r.s]) /\ r.status = quiz[r.s].status
  /\ r.at \in AfterMemory => r.q \in DOMAIN memory
  /\ r.at = "createStudy" => r.row.attempts = <<>> /\ ~ r.row.ended
  /\ r.at = "putAttempt" =>
       r.s \in DOMAIN study /\ r.row = AfterRecording(study[r.s], r.q, r.a, r.status)
  /\ r.at \in {"getEnd", "putEnd"} => quiz[r.s].status = "abandoned"
  /\ r.at = "putEnd" => r.s \in DOMAIN study /\ r.row = [study[r.s] EXCEPT !.ended = TRUE]

HeldInOrder == \A c \in DOMAIN call : InOrder(call[c])

AttemptsSaved ==
  \A s \in DOMAIN study : \A i \in DOMAIN study[s].attempts :
    LET q == study[s].attempts[i].q
    IN  q \in Answered(quiz[s]) /\ q \in DOMAIN memory

NothingAckedBefore == \A s \in Sessions \ DOMAIN quiz : acked[s] = {}

OInv ==
  /\ IInv
  /\ HeldRowsCurrent
  /\ HeldInOrder
  /\ AttemptsSaved
  /\ NothingAckedBefore
  /\ AckedAnswersKept
  /\ EndedIsClosed

\* A topic counts at least the attempts on record, and one more while the
\* attempt that it has counted is not on record yet.
Counted(t) ==
  /\ IsFiniteSet(AttemptsOn(t))
  /\ AttemptsOn(t) # {} =>
       t \in DOMAIN topics /\ topics[t].total >= Cardinality(AttemptsOn(t))

CountedAhead(r) ==
  /\ r.at = "putTopic" => r.row.total > Cardinality(AttemptsOn(TopicOf[r.q]))
  /\ r.at \in {"getStudy", "putAttempt"} =>
       /\ TopicOf[r.q] \in DOMAIN topics
       /\ topics[TopicOf[r.q]].total > Cardinality(AttemptsOn(TopicOf[r.q]))

CInv ==
  /\ \A t \in Topics : Counted(t)
  /\ \A c \in DOMAIN call : CountedAhead(call[c])
-----------------------------------------------------------------------------
(* One client at work.                                                     *)

\* A client that moves to its next repository call is the only busy one.
LEMMA AloneAfterGoto ==
  ASSUME OneClient, IInv, NEW c \in Clients, NEW next, Goto(c, next)
  PROVE  call'[c] = next /\ \A d \in DOMAIN call' : d = c
BY AloneAtWork, GotoKeepsOthers

\* When a client ends its operation nobody is busy.
LEMMA NobodyAfterReturn ==
  ASSUME OneClient, IInv, NEW c \in Clients, Return(c)
  PROVE  DOMAIN call' = {}
BY AloneAtWork, ReturnKeepsOthers

\* What is known of an operation in progress.
LEMMA AtWork ==
  ASSUME OInv, NEW c \in DOMAIN call
  PROVE  /\ c \in Clients /\ call[c] \in Call /\ InOrder(call[c]) /\ HeldIsCurrent(call[c])
         /\ call[c].s \in Sessions /\ call[c].s \in DOMAIN quiz
         /\ quiz[call[c].s] \in QuizRow
         /\ call[c].at \in SubmitSteps => call[c].q \in Questions /\ call[c].a \in Choices
<1>1. c \in Clients /\ call[c] \in Call /\ HeldRowOK(call[c])
  BY DEF OInv, IInv, TypeOK, IsTable, HeldRowsConsistent
<1>2. call[c].s \in DOMAIN quiz /\ quiz[call[c].s] \in QuizRow
  BY <1>1 DEF HeldRowOK, OInv, IInv, TypeOK, IsTable
<1>3. InOrder(call[c]) /\ HeldIsCurrent(call[c])
  BY DEF OInv, HeldInOrder, HeldRowsCurrent
<1>4. QED
  BY <1>1, <1>2, <1>3, CallShape DEF SubmitSteps

\* What is in order when it moves to its next repository call stays so.
LEMMA OrderAfterGoto ==
  ASSUME OneClient, IInv, NEW c \in Clients, NEW next, Goto(c, next), InOrder(next)'
  PROVE  HeldInOrder'
<1>1. call'[c] = next /\ \A d \in DOMAIN call' : d = c
  BY AloneAfterGoto
<1>2. InOrder(call[c])'
  BY <1>1 DEF InOrder
<1>3. QED
  BY <1>1, <1>2 DEF HeldInOrder

\* When it ends its operation there is nothing left to be in order.
LEMMA OrderAfterReturn ==
  ASSUME OneClient, IInv, NEW c \in Clients, Return(c)
  PROVE  HeldInOrder'
BY NobodyAfterReturn DEF HeldInOrder
-----------------------------------------------------------------------------
(* The tables.                                                             *)

Books == AttemptsSaved /\ NothingAckedBefore /\ AckedAnswersKept /\ EndedIsClosed

\* New sessions, further answers and sessions that are closed keep the books.
LEMMA QuizGrows ==
  ASSUME OInv, IInv', DOMAIN quiz \subseteq DOMAIN quiz',
         \A s \in DOMAIN quiz :
           /\ Answered(quiz[s]) \subseteq Answered(quiz'[s])
           /\ quiz[s].status # "in_progress" => quiz'[s].status # "in_progress",
         UNCHANGED <<study, memory, acked>>
  PROVE  Books'
<1>1. DOMAIN study \subseteq DOMAIN quiz
  BY DEF OInv, IInv, StudyRowsConsistent
<1>2. DOMAIN quiz' \subseteq Sessions
  BY DEF IInv, TypeOK, IsTable
<1>3. AttemptsSaved'
  BY <1>1 DEF OInv, AttemptsSaved
<1>4. NothingAckedBefore'
  BY <1>2 DEF OInv, NothingAckedBefore
<1>5. AckedAnswersKept'
  BY <1>2 DEF OInv, AckedAnswersKept, NothingAckedBefore
<1>6. EndedIsClosed'
  BY <1>1 DEF OInv, EndedIsClosed
<1>7. QED
  BY <1>3, <1>4, <1>5, <1>6 DEF Books

\* Steps that touch neither sessions nor attempts keep the books.
LEMMA SessionsUnchanged ==
  ASSUME OInv, UNCHANGED <<quiz, study, acked>>, DOMAIN memory \subseteq DOMAIN memory'
  PROVE  Books'
BY DEF Books, OInv, AttemptsSaved, NothingAckedBefore, AckedAnswersKept, EndedIsClosed

\* Writing a study session whose attempts are saved, and that is ended only
\* when its quiz session is closed, keeps the books.
LEMMA StudyKept ==
  ASSUME OInv, UNCHANGED <<quiz, memory>>, NEW s \in DOMAIN quiz, NEW row,
         study' = Put(study, s, row),
         row.ended => quiz[s].status # "in_progress",
         \A i \in DOMAIN row.attempts :
           row.attempts[i].q \in Answered(quiz[s]) /\ row.attempts[i].q \in DOMAIN memory,
         \/ acked' = acked
         \/ \E q \in Answered(quiz[s]) : acked' = [acked EXCEPT ![s] = @ \cup {q}]
  PROVE  Books'
<1>1. AttemptsSaved'
  BY DEF OInv, AttemptsSaved, Put
<1>2. EndedIsClosed'
  BY DEF OInv, EndedIsClosed, Put
<1>3. acked \in [Sessions -> SUBSET Questions] /\ s \in Sessions
  BY DEF OInv, IInv, TypeOK, IsTable
<1>4. NothingAckedBefore'
  BY <1>3 DEF OInv, NothingAckedBefore
<1>5. ASSUME NEW t \in DOMAIN quiz'
      PROVE  acked'[t] \subseteq Answered(quiz'[t])
  <2>1. acked[t] \subseteq Answered(quiz[t]) /\ t \in Sessions
    BY DEF OInv, AckedAnswersKept, IInv, TypeOK, IsTable
  <2>2. CASE acked' = acked
    BY <2>1, <2>2
  <2>3. ASSUME NEW q \in Answered(quiz[s]), acked' = [acked EXCEPT ![s] = @ \cup {q}]
        PROVE  acked'[t] \subseteq Answered(quiz'[t])
    <3>1. CASE t = s
      BY <2>1, <2>3, <1>3, <3>1
    <3>2. CASE t # s
      BY <2>1, <2>3, <1>3, <3>2
    <3>3. QED
      BY <3>1, <3>2
  <2>4. QED
    BY <2>2, <2>3
<1>6. QED
  BY <1>1, <1>2, <1>4, <1>5 DEF Books, AckedAnswersKept
-----------------------------------------------------------------------------
(* The steps, one lemma each for those that write a session.               *)

\* StartQuiz: the new session has no answers and no study session yet.
LEMMA StartKeepsOrder ==
  ASSUME OneClient, OInv, IInv', NEW c \in Clients, NEW mode, NEW topic, NEW count,
         StartQuiz(c, mode, topic, count)
  PROVE  Books' /\ HeldInOrder'
<1>1. PICK s \in Sessions, list \in QuestionLists(mode, topic, count) :
        /\ IsNewID(s)
        /\ quiz' = Put(quiz, s, NewQuiz(list))
        /\ Goto(c, [at |-> "createStudy", s |-> s, row |-> NewStudy(list)])
  BY DEF StartQuiz
<1>2. s \notin DOMAIN quiz
  BY <1>1, BoundAssumption DEF IsNewID
<1>3. DOMAIN quiz \subseteq DOMAIN quiz' /\ \A t \in DOMAIN quiz : quiz'[t] = quiz[t]
  BY <1>1, <1>2 DEF Put
<1>4. UNCHANGED <<study, memory, acked>>
  BY DEF StartQuiz
<1>5. Books'
  BY <1>3, <1>4, QuizGrows
<1>6. HeldInOrder'
  <2>1. PICK next : next = [at |-> "createStudy", s |-> s, row |-> NewStudy(list)]
    OBVIOUS
  <2>2. InOrder(next)'
    BY <2>1 DEF InOrder, NewStudy, AfterSave, AfterMemory
  <2>3. QED
    BY <1>1, <2>1, <2>2, OrderAfterGoto DEF OInv
<1>7. QED
  BY <1>5, <1>6

\* SaveAnswer: the answer is in the session before anything else is written.
LEMMA SaveAnswerKeepsOrder ==
  ASSUME OneClient, OInv, IInv', NEW c \in Clients, SaveAnswer(c)
  PROVE  Books' /\ HeldInOrder'
<1> DEFINE s == call[c].s
           q == call[c].q
<1>1. c \in DOMAIN call /\ call[c].at = "saveAnswer"
  BY DEF SaveAnswer, At
<1>2. s \in DOMAIN quiz /\ call[c].row = AfterAnswer(quiz[s], q, call[c].a)
  BY <1>1, AtWork DEF HeldIsCurrent
<1>3. quiz' = Put(quiz, s, AfterAnswer(quiz[s], q, call[c].a))
  BY <1>2 DEF SaveAnswer
<1>4. /\ DOMAIN quiz' = DOMAIN quiz
      /\ \A t \in DOMAIN quiz : t # s => quiz'[t] = quiz[t]
      /\ quiz'[s] = AfterAnswer(quiz[s], q, call[c].a)
  BY <1>2, <1>3 DEF Put
<1>5. /\ Answered(quiz'[s]) = Answered(quiz[s]) \cup {q}
      /\ quiz[s].status # "in_progress" => quiz'[s].status # "in_progress"
  BY <1>4 DEF AfterAnswer, Answered, Put
<1>6. UNCHANGED <<study, memory, acked>>
  BY DEF SaveAnswer
<1>7. Books'
  BY <1>4, <1>5, <1>6, QuizGrows
<1>8. PICK next : next = Submitting(c, "getMemory", call[c].row.status)
  OBVIOUS
<1>9. next.at = "getMemory" /\ next.s = s /\ next.q = q /\ next.status = quiz'[s].status
  BY <1>2, <1>4, <1>8 DEF Submitting
<1>10. InOrder(next)'
  BY <1>5, <1>9 DEF InOrder, AfterSave, AfterMemory
<1>11. HeldInOrder'
  BY <1>8, <1>10, OrderAfterGoto DEF OInv, SaveAnswer
<1>12. QED
  BY <1>7, <1>11

\* SaveAbandoned: the session is closed before its study session is ended.
LEMMA SaveAbandonedKeepsOrder ==
  ASSUME OneClient, OInv, IInv', NEW c \in Clients, SaveAbandoned(c)
  PROVE  Books' /\ HeldInOrder'
<1> DEFINE s == call[c].s
<1>1. c \in DOMAIN call /\ call[c].at = "saveAbandoned"
  BY DEF SaveAbandoned, At
<1>2. /\ s \in DOMAIN quiz /\ quiz[s] \in QuizRow
      /\ call[c].row = [quiz[s] EXCEPT !.status = "abandoned"]
  BY <1>1, AtWork DEF HeldIsCurrent
<1>3. /\ DOMAIN quiz' = DOMAIN quiz
      /\ \A t \in DOMAIN quiz : t # s => quiz'[t] = quiz[t]
      /\ quiz'[s] = [quiz[s] EXCEPT !.status = "abandoned"]
  BY <1>2 DEF SaveAbandoned, Put
<1>4. quiz'[s].status = "abandoned" /\ Answered(quiz'[s]) = Answered(quiz[s])
  BY <1>2, <1>3 DEF QuizRow, Answered
<1>5. UNCHANGED <<study, memory, acked>>
  BY DEF SaveAbandoned
<1>6. Books'
  BY <1>3, <1>4, <1>5, QuizGrows
<1>7. PICK next : next = [at |-> "getEnd", s |-> s]
  OBVIOUS
<1>8. InOrder(next)'
  BY <1>4, <1>7 DEF InOrder, AfterSave, AfterMemory
<1>9. HeldInOrder'
  BY <1>7, <1>8, OrderAfterGoto DEF OInv, SaveAbandoned
<1>10. QED
  BY <1>6, <1>9

\* The writes of a study session end their operation.
LEMMA StudyWriteKeepsOrder ==
  ASSUME OneClient, OInv, NEW c \in Clients,
         CreateStudy(c) \/ PutAttempt(c) \/ PutEnd(c)
  PROVE  Books' /\ HeldInOrder'
<1> DEFINE r == call[c]
           s == call[c].s
<1>1. c \in DOMAIN call /\ r.at \in {"createStudy", "putAttempt", "putEnd"}
  BY DEF CreateStudy, PutAttempt, PutEnd, At
<1>2. InOrder(r) /\ s \in DOMAIN quiz /\ r \in Call
  BY <1>1, AtWork
<1>3. study' = Put(study, s, r.row) /\ Return(c) /\ UNCHANGED <<quiz, memory>>
  BY DEF CreateStudy, PutAttempt, PutEnd
<1>4. s \in DOMAIN study => study[s] \in StudyRow
  BY DEF OInv, IInv, TypeOK, IsTable
<1>5. CASE CreateStudy(c)
  <2>1. r.row.attempts = <<>> /\ ~ r.row.ended /\ acked' = acked
    BY <1>2, <1>5 DEF CreateStudy, At, InOrder
  <2>2. \A i \in DOMAIN r.row.attempts : FALSE
    BY <2>1
  <2>3. QED
    BY <1>2, <1>3, <2>1, <2>2, StudyKept, OrderAfterReturn DEF OInv
<1>6. CASE PutAttempt(c)
  <2>1. /\ s \in DOMAIN study
        /\ r.row = AfterRecording(study[s], r.q, r.a, r.status)
        /\ r.q \in Answered(quiz[s]) /\ r.q \in DOMAIN memory
        /\ r.status = quiz[s].status
    BY <1>2, <1>6 DEF PutAttempt, At, InOrder, AfterSave, AfterMemory
  <2>2. r.row.ended => quiz[s].status # "in_progress"
    <3>1. study[s].ended => quiz[s].status # "in_progress"
      BY <2>1 DEF OInv, EndedIsClosed
    <3>2. AfterRecording(study[s], r.q, r.a, r.status).ended
            = (study[s].ended \/ r.status \in {"completed", "abandoned"})
      BY Zenon DEF AfterRecording
    <3>3. r.row.ended => study[s].ended \/ quiz[s].status \in {"completed", "abandoned"}
      BY <2>1, <3>2, Zenon
    <3>4. QED
      BY <3>1, <3>3
  <2>3. ASSUME NEW i \in DOMAIN r.row.attempts
        PROVE  r.row.attempts[i].q \in Answered(quiz[s]) /\ r.row.attempts[i].q \in DOMAIN memory
    <3>1. r.row.attempts = Append(study[s].attempts,
                             [q |-> r.q, a |-> r.a, correct |-> IsCorrect(r.q, r.a)])
      BY <2>1 DEF AfterRecording
    <3>2. study[s].attempts \in Seq(Attempt)
      BY <1>4, <2>1 DEF StudyRow
    <3>3. CASE i \in DOMAIN study[s].attempts
      <4>1. r.row.attempts[i] = study[s].attempts[i]
        BY <3>1, <3>2, <3>3
      <4>2. QED
        BY <2>1, <3>3, <4>1 DEF OInv, AttemptsSaved
    <3>4. CASE i \notin DOMAIN study[s].attempts
      <4>1. i = Len(study[s].attempts) + 1
        BY <2>3, <3>1, <3>2, <3>4
      <4>2. r.row.attempts[i] = [q |-> r.q, a |-> r.a, correct |-> IsCorrect(r.q, r.a)]
        BY <3>1, <3>2, <4>1
      <4>3. r.row.attempts[i].q = r.q
        BY <4>2
      <4>4. QED
        BY <2>1, <4>3
    <3>5. QED
      BY <3>3, <3>4
  <2>4. acked' = [acked EXCEPT ![s] = @ \cup {r.q}]
    BY <1>6 DEF PutAttempt
  <2>5. QED
    BY <1>2, <1>3, <2>1, <2>2, <2>3, <2>4, StudyKept, OrderAfterReturn DEF OInv
<1>7. CASE PutEnd(c)
  <2>1. /\ s \in DOMAIN study
        /\ r.row = [study[s] EXCEPT !.ended = TRUE]
        /\ quiz[s].status = "abandoned" /\ acked' = acked
    BY <1>2, <1>7 DEF PutEnd, At, InOrder
  <2>2. r.row.attempts = study[s].attempts
    BY <1>4, <2>1 DEF StudyRow
  <2>3. \A i \in DOMAIN r.row.attempts :
          r.row.attempts[i].q \in Answered(quiz[s]) /\ r.row.attempts[i].q \in DOMAIN memory
    BY <2>1, <2>2 DEF OInv, AttemptsSaved
  <2>4. quiz[s].status # "in_progress"
    BY <2>1
  <2>5. Books'
    BY <1>2, <1>3, <2>1, <2>3, <2>4, StudyKept
  <2>6. HeldInOrder'
    BY <1>3, OrderAfterReturn DEF OInv
  <2>7. QED
    BY <2>5, <2>6
<1>8. QED
  BY <1>5, <1>6, <1>7

\* The other steps of SubmitAnswer: each adds to what is in the tables, or
\* reads, and the operation goes on.
LEMMA SubmittingKeepsOrder ==
  ASSUME OneClient, OInv, NEW c \in Clients,
         \/ GetMemory(c) \/ PutMemory(c) \/ GetTopic(c) \/ PutTopic(c) \/ GetStudy(c)
  PROVE  Books' /\ HeldInOrder'
<1> DEFINE r == call[c]
<1>1. c \in DOMAIN call /\ r.at \in {"getMemory", "putMemory", "getTopic", "putTopic", "getStudy"}
  BY DEF GetMemory, PutMemory, GetTopic, PutTopic, GetStudy, At
<1>2. InOrder(r) /\ r.q \in Answered(quiz[r.s]) /\ r.status = quiz[r.s].status
  BY <1>1, AtWork DEF InOrder, AfterSave
<1>3. UNCHANGED <<quiz, study, acked>>
  BY DEF GetMemory, PutMemory, GetTopic, PutTopic, GetStudy, tables
<1>4. DOMAIN memory \subseteq DOMAIN memory'
  BY DEF GetMemory, PutMemory, GetTopic, PutTopic, GetStudy, tables, Put
<1>5. Books'
  BY <1>3, <1>4, SessionsUnchanged
<1>6. \E next :
        /\ Goto(c, next)
        /\ next.s = r.s /\ next.q = r.q /\ next.a = r.a /\ next.status = r.status
        /\ \/ next.at = "putMemory"
           \/ next.at \in {"getTopic", "putTopic", "getStudy"} /\ r.q \in DOMAIN memory'
           \/ /\ next.at = "putAttempt" /\ r.q \in DOMAIN memory' /\ r.s \in DOMAIN study
              /\ next.row = AfterRecording(study[r.s], r.q, r.a, r.status)
  <2>1. CASE GetMemory(c)
    BY <2>1 DEF GetMemory, Writing
  <2>2. CASE PutMemory(c)
    BY <2>2 DEF PutMemory, Submitting, Put
  <2>3. CASE GetTopic(c)
    <3>1. r.q \in DOMAIN memory'
      BY <1>2, <1>4, <2>3 DEF GetTopic, At, InOrder, AfterMemory
    <3>2. QED
      BY <2>3, <3>1 DEF GetTopic, Writing
  <2>4. CASE PutTopic(c)
    <3>1. r.q \in DOMAIN memory'
      BY <1>2, <1>4, <2>4 DEF PutTopic, At, InOrder, AfterMemory
    <3>2. QED
      BY <2>4, <3>1 DEF PutTopic, Submitting
  <2>5. CASE GetStudy(c)
    <3>1. r.q \in DOMAIN memory'
      BY <1>2, <1>4, <2>5 DEF GetStudy, At, InOrder, AfterMemory
    <3>2. QED
      BY <2>5, <3>1 DEF GetStudy, Writing
  <2>6. QED
    BY <2>1, <2>2, <2>3, <2>4, <2>5
<1>7. PICK next :
        /\ Goto(c, next)
        /\ next.s = r.s /\ next.q = r.q /\ next.a = r.a /\ next.status = r.status
        /\ \/ next.at = "putMemory"
           \/ next.at \in {"getTopic", "putTopic", "getStudy"} /\ r.q \in DOMAIN memory'
           \/ /\ next.at = "putAttempt" /\ r.q \in DOMAIN memory' /\ r.s \in DOMAIN study
              /\ next.row = AfterRecording(study[r.s], r.q, r.a, r.status)
  BY <1>6
<1>8. InOrder(next)'
  BY <1>2, <1>3, <1>7 DEF InOrder, AfterSave, AfterMemory
<1>9. QED
  BY <1>5, <1>7, <1>8, OrderAfterGoto DEF OInv

\* GetEnd holds the study session of a session that has been abandoned.
LEMMA GetEndKeepsOrder ==
  ASSUME OneClient, OInv, NEW c \in Clients, GetEnd(c)
  PROVE  Books' /\ HeldInOrder'
<1> DEFINE s == call[c].s
<1>1. c \in DOMAIN call /\ call[c].at = "getEnd" /\ s \in DOMAIN study
  BY DEF GetEnd, At
<1>2. quiz[s].status = "abandoned"
  BY <1>1, AtWork DEF InOrder
<1>3. UNCHANGED tables /\ UNCHANGED acked
  BY DEF GetEnd
<1>4. PICK next : next = [at |-> "putEnd", s |-> s, row |-> [study[s] EXCEPT !.ended = TRUE]]
  OBVIOUS
<1>5. InOrder(next)'
  BY <1>1, <1>2, <1>3, <1>4 DEF InOrder, AfterSave, AfterMemory, tables
<1>6. Books'
  BY <1>3, SessionsUnchanged DEF tables
<1>7. QED
  BY <1>4, <1>5, <1>6, OrderAfterGoto DEF OInv, GetEnd

\* The first step of SubmitAnswer and of AbandonSession only reads.
LEMMA ReadingKeepsOrder ==
  ASSUME OneClient, OInv, NEW c \in Clients, NEW s,
         AbandonSession(c, s) \/ \E q, a : SubmitAnswer(c, s, q, a)
  PROVE  Books' /\ HeldInOrder'
<1>1. UNCHANGED tables /\ UNCHANGED acked
  BY DEF AbandonSession, SubmitAnswer
<1>2. Books'
  BY <1>1, SessionsUnchanged DEF tables
<1>3. \E next : Goto(c, next) /\ next.at \in {"saveAnswer", "saveAbandoned"}
  <2>1. CASE AbandonSession(c, s)
    BY <2>1 DEF AbandonSession
  <2>2. ASSUME NEW q, NEW a, SubmitAnswer(c, s, q, a)
        PROVE  \E next : Goto(c, next) /\ next.at \in {"saveAnswer", "saveAbandoned"}
    <3> DEFINE next == [at |-> "saveAnswer", s |-> s, q |-> q, a |-> a,
                        row |-> AfterAnswer(quiz[s], q, a)]
    <3>1. Goto(c, next) /\ next.at = "saveAnswer"
      BY <2>2 DEF SubmitAnswer
    <3>2. QED
      BY <3>1
  <2>3. QED
    BY <2>1, <2>2
<1>4. PICK next : Goto(c, next) /\ next.at \in {"saveAnswer", "saveAbandoned"}
  BY <1>3
<1>5. InOrder(next)'
  BY <1>4 DEF InOrder, AfterSave, AfterMemory
<1>6. QED
  BY <1>2, <1>4, <1>5, OrderAfterGoto DEF OInv

\* An operation that is cut short leaves what it has written.
LEMMA CuttingShortKeepsOrder ==
  ASSUME OneClient, OInv, NEW c \in Clients, NilStudy(c) \/ Fail(c)
  PROVE  Books' /\ HeldInOrder'
<1>1. UNCHANGED tables /\ UNCHANGED acked /\ Return(c)
  BY DEF NilStudy, Fail
<1>2. QED
  BY <1>1, SessionsUnchanged, OrderAfterReturn DEF tables, OInv

\* OInv is inductive.
LEMMA OrderStep ==
  ASSUME OneClient, OInv, [Next]_vars
  PROVE  OInv'
<1>1. IInv' /\ HeldRowsCurrent'
  BY StepInvariant, CurrentStep DEF OInv
<1>2. ASSUME NEW c \in Clients, Continue(c)
      PROVE  Books' /\ HeldInOrder'
  BY <1>1, <1>2, SaveAnswerKeepsOrder, SaveAbandonedKeepsOrder, StudyWriteKeepsOrder,
     SubmittingKeepsOrder, GetEndKeepsOrder, CuttingShortKeepsOrder DEF Continue
<1>3. ASSUME NEW c \in Clients, NEW mode, NEW topic, NEW count,
             StartQuiz(c, mode, topic, count)
      PROVE  Books' /\ HeldInOrder'
  BY <1>1, <1>3, StartKeepsOrder
<1>4. ASSUME NEW c \in Clients, NEW s,
             AbandonSession(c, s) \/ \E q, a : SubmitAnswer(c, s, q, a)
      PROVE  Books' /\ HeldInOrder'
  BY <1>4, ReadingKeepsOrder
<1>5. ASSUME NEW c \in Clients, Fail(c)
      PROVE  Books' /\ HeldInOrder'
  BY <1>5, CuttingShortKeepsOrder
<1>6. ASSUME Tick \/ UNCHANGED vars
      PROVE  Books' /\ HeldInOrder'
  <2>1. UNCHANGED <<quiz, study, memory, acked, call>>
    BY <1>6 DEF Tick, vars, tables
  <2>2. Books'
    BY <2>1, SessionsUnchanged
  <2>3. HeldInOrder'
    BY <2>1 DEF OInv, HeldInOrder, InOrder
  <2>4. QED
    BY <2>2, <2>3
<1>7. ASSUME NEW c \in Clients,
             \/ \E mode \in {"mock", "practice"}, topic \in Topics \cup {AnyTopic},
                  count \in 0..TestCount : StartQuiz(c, mode, topic, count)
             \/ \E s \in Sessions, q \in Questions, a \in Choices : SubmitAnswer(c, s, q, a)
             \/ \E s \in Sessions : AbandonSession(c, s)
             \/ Continue(c)
             \/ Fail(c)
      PROVE  Books' /\ HeldInOrder'
  BY <1>2, <1>3, <1>4, <1>5, <1>7
<1>8. Books' /\ HeldInOrder'
  BY <1>6, <1>7 DEF Next
<1>9. QED
  BY <1>1, <1>8 DEF OInv, Books

\* OInv holds initially.
LEMMA OrderInit == Init => OInv
<1> SUFFICES ASSUME Init
             PROVE  OInv
  OBVIOUS
<1>1. DOMAIN quiz = {} /\ DOMAIN study = {} /\ DOMAIN call = {}
  BY DEF Init, EmptyTable
<1>2. NothingAckedBefore
  BY DEF Init, NothingAckedBefore
<1>3. QED
  BY <1>1, <1>2, InitInvariant DEF OInv, HeldRowsCurrent, HeldInOrder, AttemptsSaved,
     AckedAnswersKept, EndedIsClosed

\* With one client, an answer whose SubmitAnswer has returned stays in the
\* stored session, however many operations are cut short after it
\* (engine.go, SubmitAnswer).
THEOREM NoAnswerIsLost ==
  ASSUME OneClient
  PROVE  Spec => []AckedAnswersKept
<1>1. OInv => AckedAnswersKept
  BY DEF OInv
<1>2. QED
  BY <1>1, OrderInit, OrderStep, PTL DEF Spec

\* With one client, a study session is ended only when its quiz session is
\* no longer in progress (engine.go, recordStudyAttempt, AbandonSession).
THEOREM EndedSessionsAreClosed ==
  ASSUME OneClient
  PROVE  Spec => []EndedIsClosed
<1>1. OInv => EndedIsClosed
  BY DEF OInv
<1>2. QED
  BY <1>1, OrderInit, OrderStep, PTL DEF Spec
-----------------------------------------------------------------------------
(* The attempts on a topic and its counter.                                *)

\* The members of AttemptsOn.
LEMMA AttemptsMember ==
  ASSUME NEW t
  PROVE  \A p : p \in AttemptsOn(t) <=>
           \E s \in DOMAIN study : \E i \in DOMAIN study[s].attempts :
             p = <<s, i>> /\ TopicOf[study[s].attempts[i].q] = t
BY DEF AttemptsOn

\* A smaller set of attempts is still counted.
LEMMA FewerAttempts ==
  ASSUME OInv, CInv, NEW t \in Topics, AttemptsOn(t)' \subseteq AttemptsOn(t),
         t \in DOMAIN topics => t \in DOMAIN topics' /\ topics'[t] = topics[t]
  PROVE  Counted(t)' /\ Cardinality(AttemptsOn(t)') <= Cardinality(AttemptsOn(t))
<1>1. IsFiniteSet(AttemptsOn(t)) /\ Counted(t)
  BY DEF CInv, Counted
<1>2. /\ IsFiniteSet(AttemptsOn(t)')
      /\ Cardinality(AttemptsOn(t)') <= Cardinality(AttemptsOn(t))
  BY <1>1, FS_Subset
<1>3. Cardinality(AttemptsOn(t)) \in Nat /\ Cardinality(AttemptsOn(t)') \in Nat
  BY <1>1, <1>2, FS_CardinalityType
<1>4. t \in DOMAIN topics => topics[t].total \in Nat
  BY DEF OInv, IInv, TypeOK, IsTable, TopicRow
<1>5. ASSUME AttemptsOn(t)' # {}
      PROVE  t \in DOMAIN topics' /\ topics'[t].total >= Cardinality(AttemptsOn(t)')
  <2>1. t \in DOMAIN topics /\ topics[t].total >= Cardinality(AttemptsOn(t))
    BY <1>1, <1>5 DEF Counted
  <2>2. QED
    BY <2>1, <1>2, <1>3, <1>4
<1>6. QED
  BY <1>2, <1>5 DEF Counted

\* A step that does not touch the study sessions leaves the attempts alone.
LEMMA SameAttempts ==
  ASSUME UNCHANGED study, NEW t
  PROVE  AttemptsOn(t)' = AttemptsOn(t)
BY DEF AttemptsOn

\* Writing a study session whose attempts were there adds none.
LEMMA NoNewAttempts ==
  ASSUME NEW s, NEW row, study' = Put(study, s, row), NEW t,
         \A i \in DOMAIN row.attempts :
           s \in DOMAIN study /\ i \in DOMAIN study[s].attempts
             /\ row.attempts[i] = study[s].attempts[i]
  PROVE  AttemptsOn(t)' \subseteq AttemptsOn(t)
<1> SUFFICES ASSUME NEW p \in AttemptsOn(t)'
             PROVE  p \in AttemptsOn(t)
  OBVIOUS
<1>1. PICK u \in DOMAIN study' : \E i \in DOMAIN study'[u].attempts :
        p = <<u, i>> /\ TopicOf[study'[u].attempts[i].q] = t
  BY DEF AttemptsOn
<1>2. PICK i \in DOMAIN study'[u].attempts :
        p = <<u, i>> /\ TopicOf[study'[u].attempts[i].q] = t
  BY <1>1
<1>3. CASE u = s
  <2>1. study'[u] = row
    BY <1>3 DEF Put
  <2>2. s \in DOMAIN study /\ i \in DOMAIN study[s].attempts
          /\ row.attempts[i] = study[s].attempts[i]
    BY <1>2, <2>1
  <2>3. QED
    BY <1>2, <1>3, <2>1, <2>2, AttemptsMember
<1>4. CASE u # s
  <2>1. u \in DOMAIN study /\ study'[u] = study[u]
    BY <1>4, <1>1 DEF Put
  <2>2. QED
    BY <1>2, <2>1, AttemptsMember
<1>5. QED
  BY <1>3, <1>4

\* Recording an attempt on question q adds one, on the topic of q.
LEMMA OneNewAttempt ==
  ASSUME NEW s \in DOMAIN study, study[s] \in StudyRow, NEW q, NEW a, NEW status,
         study' = Put(study, s, AfterRecording(study[s], q, a, status))
  PROVE  LET new == <<s, Len(study[s].attempts) + 1>>
         IN  \A t : AttemptsOn(t)' \subseteq
               IF t = TopicOf[q] THEN AttemptsOn(t) \cup {new} ELSE AttemptsOn(t)
<1> DEFINE n == Len(study[s].attempts)
           row == AfterRecording(study[s], q, a, status)
           e == [q |-> q, a |-> a, correct |-> IsCorrect(q, a)]
<1>1. study[s].attempts \in Seq(Attempt) /\ n \in Nat /\ DOMAIN study[s].attempts = 1..n
  BY DEF StudyRow
<1>2. row.attempts = Append(study[s].attempts, e)
  BY DEF AfterRecording
<1>3. /\ DOMAIN row.attempts = 1..n+1
      /\ \A i \in 1..n : row.attempts[i] = study[s].attempts[i]
      /\ row.attempts[n+1] = e
  BY <1>1, <1>2
<1>4. study'[s] = row /\ \A u \in DOMAIN study' : u # s => u \in DOMAIN study /\ study'[u] = study[u]
  BY DEF Put
<1>5. SUFFICES ASSUME NEW t, NEW p \in AttemptsOn(t)', p \notin AttemptsOn(t)
               PROVE  t = TopicOf[q] /\ p = <<s, n+1>>
  OBVIOUS
<1>6. PICK u \in DOMAIN study' : \E i \in DOMAIN study'[u].attempts :
        p = <<u, i>> /\ TopicOf[study'[u].attempts[i].q] = t
  BY DEF AttemptsOn
<1>7. PICK i \in DOMAIN study'[u].attempts :
        p = <<u, i>> /\ TopicOf[study'[u].attempts[i].q] = t
  BY <1>6
<1>8. u = s
  BY <1>4, <1>5, <1>7, AttemptsMember
<1>9. i = n + 1
  <2>1. SUFFICES ASSUME i \in 1..n
                 PROVE  FALSE
    BY <1>1, <1>3, <1>4, <1>7, <1>8
  <2>2. study'[u].attempts[i] = study[s].attempts[i] /\ i \in DOMAIN study[s].attempts
    BY <1>1, <1>3, <1>4, <1>8, <2>1
  <2>3. QED
    BY <1>5, <1>7, <1>8, <2>2, AttemptsMember
<1>10. study'[u].attempts[i].q = q
  BY <1>3, <1>4, <1>8, <1>9
<1>11. QED
  BY <1>7, <1>8, <1>9, <1>10

\* Counting stays right in steps that add no attempt and keep the counters.
LEMMA CountedKept ==
  ASSUME OInv, CInv, UNCHANGED topics,
         \A t \in Topics : AttemptsOn(t)' \subseteq AttemptsOn(t)
  PROVE  \A t \in Topics : Counted(t)'
BY FewerAttempts

\* The same for steps that touch neither attempts nor counters.
LEMMA CountedUntouched ==
  ASSUME OInv, CInv, UNCHANGED <<study, topics>>
  PROVE  \A t \in Topics : Counted(t)'
BY SameAttempts, CountedKept

\* What the client has counted ahead when it moves on.
LEMMA AheadAfterGoto ==
  ASSUME OneClient, IInv, NEW c \in Clients, NEW next, Goto(c, next), CountedAhead(next)'
  PROVE  \A d \in DOMAIN call' : CountedAhead(call[d])'
<1>1. call'[c] = next /\ \A d \in DOMAIN call' : d = c
  BY AloneAfterGoto
<1>2. CountedAhead(call[c])'
  BY <1>1 DEF CountedAhead
<1>3. QED
  BY <1>1, <1>2

\* The steps after which nothing is counted ahead.
LEMMA NothingAhead ==
  ASSUME OneClient, OInv, CInv, NEW c \in Clients, UNCHANGED topics,
         \A t \in Topics : AttemptsOn(t)' \subseteq AttemptsOn(t),
         \/ Return(c)
         \/ \E next : Goto(c, next) /\ next.at \notin {"putTopic", "getStudy", "putAttempt"}
  PROVE  CInv'
<1>1. \A t \in Topics : Counted(t)'
  BY CountedKept
<1>2. \A d \in DOMAIN call' : CountedAhead(call[d])'
  <2>1. CASE Return(c)
    BY <2>1, NobodyAfterReturn DEF OInv
  <2>2. ASSUME NEW next, Goto(c, next), next.at \notin {"putTopic", "getStudy", "putAttempt"}
        PROVE  \A d \in DOMAIN call' : CountedAhead(call[d])'
    <3>1. CountedAhead(next)'
      BY <2>2 DEF CountedAhead
    <3>2. QED
      BY <2>2, <3>1, AheadAfterGoto DEF OInv
  <2>3. QED
    BY <2>1, <2>2
<1>3. QED
  BY <1>1, <1>2 DEF CInv

\* GetTopic counts the attempt that is to come.
LEMMA GetTopicCounts ==
  ASSUME OneClient, OInv, CInv, NEW c \in Clients, GetTopic(c)
  PROVE  CInv'
<1> PICK q, t : q = call[c].q /\ t = TopicOf[q]
  OBVIOUS
<1> DEFINE current == IF t \in DOMAIN topics THEN topics[t] ELSE FreshTopic
<1>1. c \in DOMAIN call /\ q \in Questions /\ t \in Topics
  BY AtWork, PackAssumption DEF GetTopic, At, SubmitSteps
<1>2. UNCHANGED <<study, topics>>
  BY DEF GetTopic, tables
<1>3. PICK next : next = Writing(c, "putTopic", AfterAttempt(current, IsCorrect(q, call[c].a)))
  OBVIOUS
<1>4. Goto(c, next) /\ next.at = "putTopic" /\ next.q = q /\ next.row.total = current.total + 1
  BY <1>3 DEF GetTopic, Writing, AfterAttempt
<1>5. /\ current.total \in Nat
      /\ Cardinality(AttemptsOn(t)) \in Nat
      /\ current.total >= Cardinality(AttemptsOn(t))
  <2>1. IsFiniteSet(AttemptsOn(t)) /\ Counted(t)
    BY <1>1 DEF CInv, Counted
  <2>2. Cardinality(AttemptsOn(t)) \in Nat
    BY <2>1, FS_CardinalityType
  <2>3. current.total \in Nat
    BY DEF OInv, IInv, TypeOK, IsTable, TopicRow, FreshTopic
  <2>4. CASE AttemptsOn(t) = {}
    BY <2>2, <2>3, <2>4, FS_EmptySet
  <2>5. CASE AttemptsOn(t) # {}
    BY <2>1, <2>2, <2>3, <2>5 DEF Counted
  <2>6. QED
    BY <2>2, <2>3, <2>4, <2>5
<1>6. AttemptsOn(t)' = AttemptsOn(t)
  BY <1>2, SameAttempts
<1>7. next.row.total > Cardinality(AttemptsOn(t)')
  BY <1>4, <1>5, <1>6
<1>8. CountedAhead(next)'
  BY <1>4, <1>7 DEF CountedAhead
<1>9. QED
  BY <1>2, <1>4, <1>8, AheadAfterGoto, CountedUntouched DEF CInv, OInv

\* PutTopic stores the counter.
LEMMA PutTopicCounts ==
  ASSUME OneClient, OInv, CInv, NEW c \in Clients, PutTopic(c)
  PROVE  CInv'
<1> DEFINE q == call[c].q
           t == TopicOf[q]
           n == Cardinality(AttemptsOn(t))
<1>1. c \in DOMAIN call /\ call[c].at = "putTopic" /\ call[c] \in Call
      /\ q \in Questions /\ t \in Topics
  BY AtWork, PackAssumption DEF PutTopic, At, SubmitSteps
<1>2. call[c].row.total \in Nat /\ call[c].row.total > n
  BY <1>1, CallShape DEF CInv, CountedAhead, TopicRow
<1>3. /\ t \in DOMAIN topics' /\ topics'[t] = call[c].row
      /\ \A u \in DOMAIN topics : u # t => u \in DOMAIN topics' /\ topics'[u] = topics[u]
  BY DEF PutTopic, Put
<1>4. \A u : AttemptsOn(u)' = AttemptsOn(u)
  BY SameAttempts DEF PutTopic
<1>5. IsFiniteSet(AttemptsOn(t)) /\ n \in Nat
  BY <1>1, FS_CardinalityType DEF CInv, Counted
<1>6. ASSUME NEW u \in Topics
      PROVE  Counted(u)'
  <2>1. CASE u = t
    BY <1>2, <1>3, <1>4, <1>5, <2>1 DEF Counted
  <2>2. CASE u # t
    BY <1>3, <1>4, <2>2, FewerAttempts
  <2>3. QED
    BY <2>1, <2>2
<1>7. PICK next : next = Submitting(c, "getStudy", call[c].status)
  OBVIOUS
<1>8. Goto(c, next) /\ next.at = "getStudy" /\ next.q = q
  BY <1>7 DEF PutTopic, Submitting
<1>9. CountedAhead(next)'
  BY <1>2, <1>3, <1>4, <1>8 DEF CountedAhead
<1>10. QED
  BY <1>6, <1>8, <1>9, AheadAfterGoto DEF CInv, OInv

\* GetStudy goes on to record the attempt that has been counted.
LEMMA GetStudyCounts ==
  ASSUME OneClient, OInv, CInv, NEW c \in Clients, GetStudy(c)
  PROVE  CInv'
<1> PICK q : q = call[c].q
  OBVIOUS
<1>1. /\ TopicOf[q] \in DOMAIN topics
      /\ topics[TopicOf[q]].total > Cardinality(AttemptsOn(TopicOf[q]))
  BY DEF GetStudy, At, CInv, CountedAhead
<1>2. UNCHANGED <<study, topics>>
  BY DEF GetStudy, tables
<1>3. PICK next : next = Writing(c, "putAttempt",
         AfterRecording(study[call[c].s], q, call[c].a, call[c].status))
  OBVIOUS
<1>4. Goto(c, next) /\ next.at = "putAttempt" /\ next.q = q
  BY <1>3 DEF GetStudy, Writing
<1>5. AttemptsOn(TopicOf[q])' = AttemptsOn(TopicOf[q])
  BY <1>2, SameAttempts
<1>6. CountedAhead(next)'
  BY <1>1, <1>2, <1>4, <1>5 DEF CountedAhead
<1>7. QED
  BY <1>2, <1>4, <1>6, AheadAfterGoto, CountedUntouched DEF CInv, OInv

\* PutAttempt records the attempt that has been counted.
LEMMA PutAttemptCounts ==
  ASSUME OneClient, OInv, CInv, NEW c \in Clients, PutAttempt(c)
  PROVE  CInv'
<1> PICK s, q, t : s = call[c].s /\ q = call[c].q /\ t = TopicOf[q]
  OBVIOUS
<1> PICK new : new = <<s, Len(study[s].attempts) + 1>>
  OBVIOUS
<1>1. c \in DOMAIN call /\ call[c].at = "putAttempt" /\ q \in Questions /\ t \in Topics
  BY AtWork, PackAssumption DEF PutAttempt, At, SubmitSteps
<1>2. /\ s \in DOMAIN study
      /\ call[c].row = AfterRecording(study[s], q, call[c].a, call[c].status)
  BY <1>1, AtWork DEF InOrder
<1>3. study[s] \in StudyRow
  BY <1>2 DEF OInv, IInv, TypeOK, IsTable
<1>4. \A u : AttemptsOn(u)' \subseteq IF u = t THEN AttemptsOn(u) \cup {new} ELSE AttemptsOn(u)
  BY <1>2, <1>3, OneNewAttempt DEF PutAttempt
<1>5. /\ t \in DOMAIN topics /\ topics[t].total \in Nat
      /\ topics[t].total > Cardinality(AttemptsOn(t))
  <2>1. t \in DOMAIN topics /\ topics[t].total > Cardinality(AttemptsOn(t))
    BY <1>1 DEF CInv, CountedAhead
  <2>2. QED
    BY <2>1 DEF OInv, IInv, TypeOK, IsTable, TopicRow
<1>6. Counted(t)'
  <2> PICK more : more = AttemptsOn(t) \cup {new}
    OBVIOUS
  <2>1. IsFiniteSet(AttemptsOn(t)) /\ Cardinality(AttemptsOn(t)) \in Nat
    BY <1>1, FS_CardinalityType DEF CInv, Counted
  <2>2. IsFiniteSet(more) /\ Cardinality(more) <= Cardinality(AttemptsOn(t)) + 1
    <3>1. /\ IsFiniteSet(more)
          /\ Cardinality(more) = IF new \in AttemptsOn(t) THEN Cardinality(AttemptsOn(t))
                                                         ELSE Cardinality(AttemptsOn(t)) + 1
      BY <2>1, FS_AddElement, Zenon
    <3>2. QED
      BY <2>1, <3>1
  <2>3. Cardinality(more) \in Nat
    BY <2>2, FS_CardinalityType
  <2>4. AttemptsOn(t)' \subseteq more
    BY <1>4
  <2>5. IsFiniteSet(AttemptsOn(t)') /\ Cardinality(AttemptsOn(t)') <= Cardinality(more)
    BY <2>2, <2>4, FS_Subset
  <2>6. Cardinality(AttemptsOn(t)') \in Nat
    BY <2>5, FS_CardinalityType
  <2>7. topics[t].total >= Cardinality(AttemptsOn(t)')
    BY <1>5, <2>1, <2>2, <2>3, <2>5, <2>6
  <2>8. topics' = topics
    BY DEF PutAttempt
  <2>9. QED
    BY <1>5, <2>5, <2>7, <2>8 DEF Counted
<1>7. ASSUME NEW u \in Topics, u # t
      PROVE  Counted(u)'
  BY <1>4, <1>7, FewerAttempts DEF PutAttempt
<1>8. \A d \in DOMAIN call' : CountedAhead(call[d])'
  BY NobodyAfterReturn DEF PutAttempt, OInv
<1>9. QED
  BY <1>6, <1>7, <1>8 DEF CInv

\* CInv is inductive, given OInv.
LEMMA CountStep ==
  ASSUME OneClient, OInv, CInv, [Next]_vars
  PROVE  CInv'
<1>1. ASSUME NEW c \in Clients, CreateStudy(c) \/ PutEnd(c)
      PROVE  CInv'
  <2>1. c \in DOMAIN call /\ call[c].at \in {"createStudy", "putEnd"}
    BY <1>1 DEF CreateStudy, PutEnd, At
  <2>2. PICK s, row : s = call[c].s /\ row = call[c].row
    OBVIOUS
  <2>3. study' = Put(study, s, row) /\ Return(c) /\ UNCHANGED topics
    BY <1>1, <2>2 DEF CreateStudy, PutEnd
  <2>4. s \in DOMAIN study => study[s] \in StudyRow
    BY DEF OInv, IInv, TypeOK, IsTable
  <2>5. \/ row.attempts = <<>>
        \/ s \in DOMAIN study /\ row.attempts = study[s].attempts
    BY <2>1, <2>2, <2>4, AtWork DEF InOrder, StudyRow
  <2>6. \A i \in DOMAIN row.attempts :
          s \in DOMAIN study /\ i \in DOMAIN study[s].attempts
            /\ row.attempts[i] = study[s].attempts[i]
    BY <2>5
  <2>7. \A t \in Topics : AttemptsOn(t)' \subseteq AttemptsOn(t)
    BY <2>3, <2>6, NoNewAttempts
  <2>8. QED
    BY <2>3, <2>7, NothingAhead
<1>2. ASSUME NEW c \in Clients, UNCHANGED <<study, topics>>,
             \/ Return(c)
             \/ \E next : Goto(c, next) /\ next.at \notin {"putTopic", "getStudy", "putAttempt"}
      PROVE  CInv'
  BY <1>2, SameAttempts, NothingAhead
<1>3. ASSUME NEW c \in Clients,
             SaveAnswer(c) \/ GetMemory(c) \/ PutMemory(c) \/ SaveAbandoned(c) \/ GetEnd(c)
      PROVE  CInv'
  <2>1. UNCHANGED <<study, topics>>
    BY <1>3 DEF SaveAnswer, GetMemory, PutMemory, SaveAbandoned, GetEnd, tables
  <2>2. \E next : Goto(c, next) /\ next.at \notin {"putTopic", "getStudy", "putAttempt"}
    <3>1. CASE SaveAnswer(c)
      BY <3>1 DEF SaveAnswer, Submitting
    <3>2. CASE GetMemory(c)
      BY <3>2 DEF GetMemory, Writing
    <3>3. CASE PutMemory(c)
      BY <3>3 DEF PutMemory, Submitting
    <3>4. CASE SaveAbandoned(c)
      BY <3>4 DEF SaveAbandoned
    <3>5. CASE GetEnd(c)
      BY <3>5 DEF GetEnd
    <3>6. QED
      BY <1>3, <3>1, <3>2, <3>3, <3>4, <3>5
  <2>3. QED
    BY <2>1, <2>2, <1>2
<1>4. ASSUME NEW c \in Clients, NilStudy(c) \/ Fail(c)
      PROVE  CInv'
  BY <1>4, <1>2 DEF NilStudy, Fail, tables
<1>5. ASSUME NEW c \in Clients, NEW mode, NEW topic, NEW count,
             StartQuiz(c, mode, topic, count)
      PROVE  CInv'
  BY <1>5, <1>2 DEF StartQuiz
<1>6. ASSUME NEW c \in Clients, NEW s, NEW q, NEW a, SubmitAnswer(c, s, q, a)
      PROVE  CInv'
  BY <1>6, <1>2 DEF SubmitAnswer, tables
<1>7. ASSUME NEW c \in Clients, NEW s, AbandonSession(c, s)
      PROVE  CInv'
  BY <1>7, <1>2 DEF AbandonSession, tables
<1>8. ASSUME NEW c \in Clients, Continue(c)
      PROVE  CInv'
  BY <1>8, <1>1, <1>3, <1>4, GetTopicCounts, PutTopicCounts, GetStudyCounts,
     PutAttemptCounts DEF Continue
<1>9. CASE Tick \/ UNCHANGED vars
  <2>1. UNCHANGED <<study, topics, call>>
    BY <1>9 DEF Tick, vars, tables
  <2>2. \A t : AttemptsOn(t)' = AttemptsOn(t)
    BY <2>1, SameAttempts
  <2>3. \A d \in DOMAIN call' : CountedAhead(call[d])'
    BY <2>1, <2>2 DEF CInv, CountedAhead
  <2>4. QED
    BY <2>1, <2>3, CountedUntouched DEF CInv
<1>10. ASSUME NEW c \in Clients,
              \/ \E mode \in {"mock", "practice"}, topic \in Topics \cup {AnyTopic},
                   count \in 0..TestCount : StartQuiz(c, mode, topic, count)
              \/ \E s \in Sessions, q \in Questions, a \in Choices : SubmitAnswer(c, s, q, a)
              \/ \E s \in Sessions : AbandonSession(c, s)
              \/ Continue(c)
              \/ Fail(c)
       PROVE  CInv'
  BY <1>10, <1>4, <1>5, <1>6, <1>7, <1>8
<1>11. QED
  BY <1>9, <1>10 DEF Next

\* CInv holds initially.
LEMMA CountInit == Init => CInv
<1> SUFFICES ASSUME Init
             PROVE  CInv
  OBVIOUS
<1>1. DOMAIN study = {} /\ DOMAIN call = {}
  BY DEF Init, EmptyTable
<1>2. \A t : AttemptsOn(t) = {}
  BY <1>1 DEF AttemptsOn
<1>3. QED
  BY <1>1, <1>2, FS_EmptySet DEF CInv, Counted

\* With one client, the writes of SubmitAnswer land in order however often
\* the operation is cut short: an attempt on record has been counted in the
\* topic statistics, its question has a memory, and its answer is saved
\* (engine.go, SubmitAnswer).
THEOREM WritesLandInOrder ==
  ASSUME OneClient
  PROVE  Spec => []WritesInOrder
<1>1. OInv /\ CInv => WritesInOrder
  BY DEF OInv, AttemptsSaved, CInv, Counted, WritesInOrder
<1>2. Init => OInv /\ CInv
  BY OrderInit, CountInit
<1>3. OInv /\ CInv /\ [Next]_vars => OInv' /\ CInv'
  BY OrderStep, CountStep
<1>4. QED
  BY <1>1, <1>2, <1>3, PTL DEF Spec
-----------------------------------------------------------------------------
(* The books, while no operation has been cut short.                       *)

\* What the tables say when no operation is in progress, put right for what
\* operation r has written already and is still going to write.
NoCall == [at |-> "none"]

Opened(r) == IF r.at = "createStudy" THEN {r.s} ELSE {}

Owed(r, t) == IF r.at \in {"getStudy", "putAttempt"} /\ TopicOf[r.q] = t THEN 1 ELSE 0

Closing(r, s) == r.at \in AfterSave \cup {"getEnd", "putEnd"} /\ r.s = s

Recording(r, s) == IF r.at \in AfterSave /\ r.s = s THEN {r.q} ELSE {}

Total(t) == IF t \in DOMAIN topics THEN topics[t].total ELSE 0

AttemptedIn(s) == {study[s].attempts[i].q : i \in DOMAIN study[s].attempts}

\* Every quiz session has its study session.
Paired(r) ==
  /\ DOMAIN quiz = DOMAIN study \cup Opened(r)
  /\ r.at = "createStudy" =>
       /\ r.s \notin DOMAIN study
       /\ quiz[r.s].status = "in_progress" /\ Answered(quiz[r.s]) = {}

\* The topic totals are the attempts on record.
Totalled(r) ==
  /\ \A t \in Topics :
       IsFiniteSet(AttemptsOn(t)) /\ Total(t) = Cardinality(AttemptsOn(t)) + Owed(r, t)
  /\ r.at = "putTopic" => r.row.total = Total(TopicOf[r.q]) + 1

\* A closed session is ended, and its answers have their attempts.
Recorded(r) ==
  \A s \in DOMAIN study :
    /\ quiz[s].status # "in_progress" => study[s].ended \/ Closing(r, s)
    /\ Answered(quiz[s]) \subseteq AttemptedIn(s) \cup Recording(r, s)

Balanced(r) == Paired(r) /\ Totalled(r) /\ Recorded(r)

\* Mutual exclusion of operations is what makes the sum come out: with a
\* second operation under way the same tables would owe something to both.
BInv ==
  faults = 0 =>
    /\ DOMAIN call = {} => Balanced(NoCall)
    /\ \A c \in DOMAIN call : Balanced(call[c])
-----------------------------------------------------------------------------
(* The books between two steps.                                            *)

\* A step that begins or goes on with an operation.
LEMMA BooksAfterGoto ==
  ASSUME OneClient, IInv, NEW c \in Clients, NEW next, Goto(c, next),
         faults' = 0 => Balanced(next)'
  PROVE  BInv'
<1>1. call'[c] = next /\ c \in DOMAIN call' /\ \A d \in DOMAIN call' : d = c
  BY AloneAfterGoto DEF Goto, Put
<1>2. faults' = 0 => Balanced(call[c])'
  BY <1>1 DEF Balanced, Paired, Totalled, Recorded, Opened, Owed, Closing, Recording
<1>3. QED
  BY <1>1, <1>2 DEF BInv

\* A step that ends an operation.
LEMMA BooksAfterReturn ==
  ASSUME OneClient, IInv, NEW c \in Clients, Return(c), faults' = 0 => Balanced(NoCall)'
  PROVE  BInv'
BY NobodyAfterReturn DEF BInv

\* What the books are when client c takes a step: it is the only one that can
\* be in an operation.
LEMMA BooksAtWork ==
  ASSUME OneClient, IInv, BInv, faults = 0, NEW c \in Clients
  PROVE  IF c \in DOMAIN call THEN Balanced(call[c]) ELSE Balanced(NoCall)
BY AloneAtWork DEF BInv

\* An operation that has just begun, or has ended, owes nothing.
LEMMA OwesNothing ==
  ASSUME NEW r, r.at \in {"none", "saveAnswer", "saveAbandoned"}
  PROVE  /\ Opened(r) = {} /\ \A t : Owed(r, t) = 0
         /\ \A s : ~ Closing(r, s) /\ Recording(r, s) = {}
         /\ r.at \notin {"createStudy", "putTopic"}
BY DEF Opened, Owed, Closing, Recording, AfterSave

\* The totals do not move in a step that moves neither attempts nor counters
\* and leaves the same to be recorded.
LEMMA TotalsUntouched ==
  ASSUME NEW r, NEW next, Totalled(r), UNCHANGED topics, next.at # "putTopic",
         \A t \in Topics : AttemptsOn(t)' = AttemptsOn(t) /\ Owed(next, t) = Owed(r, t)
  PROVE  Totalled(next)'
<1>1. \A t \in Topics : Total(t)' = Total(t)
  BY DEF Total
<1>2. ASSUME NEW t \in Topics
      PROVE  IsFiniteSet(AttemptsOn(t))' /\ (Total(t) = Cardinality(AttemptsOn(t)) + Owed(next, t))'
  <2>1. IsFiniteSet(AttemptsOn(t)) /\ Total(t) = Cardinality(AttemptsOn(t)) + Owed(r, t)
    BY DEF Totalled
  <2>2. AttemptsOn(t)' = AttemptsOn(t) /\ Total(t)' = Total(t) /\ Owed(next, t)' = Owed(r, t)
    BY <1>1 DEF Owed
  <2>3. QED
    BY <2>1, <2>2
<1>3. QED
  BY <1>2 DEF Totalled

\* No attempt is lost by writing a study session that lists those it had.
LEMMA NoAttemptLost ==
  ASSUME NEW s, NEW row, study' = Put(study, s, row), NEW t,
         s \in DOMAIN study =>
           \A i \in DOMAIN study[s].attempts :
             i \in DOMAIN row.attempts /\ row.attempts[i] = study[s].attempts[i]
  PROVE  AttemptsOn(t) \subseteq AttemptsOn(t)'
<1> SUFFICES ASSUME NEW p \in AttemptsOn(t)
             PROVE  p \in AttemptsOn(t)'
  OBVIOUS
<1>1. PICK u \in DOMAIN study : \E i \in DOMAIN study[u].attempts :
        p = <<u, i>> /\ TopicOf[study[u].attempts[i].q] = t
  BY DEF AttemptsOn
<1>2. PICK i \in DOMAIN study[u].attempts :
        p = <<u, i>> /\ TopicOf[study[u].attempts[i].q] = t
  BY <1>1
<1>3. /\ u \in DOMAIN study' /\ i \in DOMAIN study'[u].attempts
      /\ study'[u].attempts[i] = study[u].attempts[i]
  BY DEF Put
<1>4. QED
  BY <1>2, <1>3 DEF AttemptsOn
-----------------------------------------------------------------------------
(* The steps, while no operation has been cut short.                       *)

\* StartQuiz: the study session is yet to be created.
LEMMA StartBalances ==
  ASSUME OneClient, OInv, NEW c \in Clients, NEW mode, NEW topic, NEW count,
         StartQuiz(c, mode, topic, count), Balanced(NoCall)
  PROVE  BInv'
<1>1. PICK s \in Sessions, list \in QuestionLists(mode, topic, count) :
        /\ IsNewID(s)
        /\ quiz' = Put(quiz, s, NewQuiz(list))
        /\ Goto(c, [at |-> "createStudy", s |-> s, row |-> NewStudy(list)])
  BY DEF StartQuiz
<1>2. PICK next : next = [at |-> "createStudy", s |-> s, row |-> NewStudy(list)]
  OBVIOUS
<1>3. next.at = "createStudy" /\ next.s = s
  BY <1>2
<1>4. s \notin DOMAIN quiz
  BY <1>1, BoundAssumption DEF IsNewID
<1>5. /\ DOMAIN quiz' = DOMAIN quiz \cup {s}
      /\ quiz'[s].status = "in_progress" /\ Answered(quiz'[s]) = {}
      /\ \A u \in DOMAIN quiz : quiz'[u] = quiz[u]
  BY <1>1, <1>4 DEF Put, NewQuiz, Answered, EmptyTable
<1>6. UNCHANGED <<study, topics>>
  BY DEF StartQuiz
<1>7. DOMAIN study = DOMAIN quiz
  BY OwesNothing DEF Balanced, Paired, NoCall, Opened
<1>8. Paired(next)'
  BY <1>3, <1>4, <1>5, <1>6, <1>7 DEF Paired, Opened
<1>9. \A t \in Topics : Owed(next, t) = Owed(NoCall, t)
  BY <1>3 DEF Owed, NoCall
<1>10. \A t : AttemptsOn(t)' = AttemptsOn(t)
  BY <1>6, SameAttempts
<1>11. Totalled(next)'
  BY <1>3, <1>6, <1>9, <1>10, TotalsUntouched DEF Balanced
<1>12. Recorded(next)'
  BY <1>3, <1>5, <1>6, <1>7 DEF Balanced, Recorded, Closing, Recording, AfterSave, AttemptedIn,
     NoCall
<1>13. QED
  BY <1>1, <1>2, <1>8, <1>11, <1>12, BooksAfterGoto DEF Balanced, OInv

\* CreateStudy: the session that was opened has its study session.
LEMMA CreateStudyBalances ==
  ASSUME OneClient, OInv, NEW c \in Clients, CreateStudy(c), Balanced(call[c])
  PROVE  BInv'
<1>1. PICK r, s : r = call[c] /\ s = r.s
  OBVIOUS
<1>2. c \in DOMAIN call /\ r.at = "createStudy"
  BY <1>1 DEF CreateStudy, At
<1>3. study' = Put(study, s, r.row) /\ Return(c) /\ UNCHANGED <<quiz, topics>>
  BY <1>1 DEF CreateStudy
<1>4. /\ DOMAIN quiz = DOMAIN study \cup {s} /\ s \notin DOMAIN study
      /\ quiz[s].status = "in_progress" /\ Answered(quiz[s]) = {}
  BY <1>1, <1>2 DEF Balanced, Paired, Opened
<1>5. r.row.attempts = <<>>
  BY <1>1, <1>2, AtWork DEF InOrder
<1>6. DOMAIN study' = DOMAIN study \cup {s} /\ \A u \in DOMAIN study : u # s => study'[u] = study[u]
  BY <1>3 DEF Put
<1>7. Paired(NoCall)'
  BY <1>3, <1>4, <1>6 DEF Paired, NoCall, Opened
<1>8. \A t : AttemptsOn(t)' = AttemptsOn(t)
  <2>1. \A i \in DOMAIN r.row.attempts : FALSE
    BY <1>5
  <2>2. ASSUME NEW t
        PROVE  AttemptsOn(t)' = AttemptsOn(t)
    <3>1. AttemptsOn(t)' \subseteq AttemptsOn(t)
      BY <1>3, <2>1, NoNewAttempts
    <3>2. AttemptsOn(t) \subseteq AttemptsOn(t)'
      BY <1>3, <1>4, NoAttemptLost
    <3>3. QED
      BY <3>1, <3>2
  <2>3. QED
    BY <2>2
<1>9. \A t \in Topics : Owed(NoCall, t) = Owed(r, t)
  BY <1>2 DEF Owed, NoCall
<1>10. NoCall.at # "putTopic"
  BY DEF NoCall
<1>11. Totalled(NoCall)'
  BY <1>1, <1>3, <1>8, <1>9, <1>10, TotalsUntouched DEF Balanced
<1>12. Recorded(NoCall)'
  <2>1. ASSUME NEW u \in DOMAIN study'
        PROVE  /\ quiz'[u].status # "in_progress" => study'[u].ended
               /\ Answered(quiz'[u]) \subseteq AttemptedIn(u)'
    <3>1. CASE u = s
      BY <1>3, <1>4, <3>1
    <3>2. CASE u # s
      BY <1>1, <1>2, <1>3, <1>6, <3>2 DEF Balanced, Recorded, Closing, Recording, AfterSave,
         AttemptedIn
    <3>3. QED
      BY <3>1, <3>2
  <2>2. QED
    BY <2>1 DEF Recorded
<1>13. QED
  BY <1>3, <1>7, <1>11, <1>12, BooksAfterReturn DEF Balanced, OInv

\* The first step of SubmitAnswer and of AbandonSession only reads.
LEMMA ReadingBalances ==
  ASSUME OneClient, OInv, NEW c \in Clients, NEW s,
         AbandonSession(c, s) \/ \E q, a : SubmitAnswer(c, s, q, a), Balanced(NoCall)
  PROVE  BInv'
<1>1. UNCHANGED <<quiz, study, topics>>
  BY DEF AbandonSession, SubmitAnswer, tables
<1>2. \E next : Goto(c, next) /\ next.at \in {"saveAnswer", "saveAbandoned"}
  <2>1. CASE AbandonSession(c, s)
    BY <2>1 DEF AbandonSession
  <2>2. ASSUME NEW q, NEW a, SubmitAnswer(c, s, q, a)
        PROVE  \E next : Goto(c, next) /\ next.at \in {"saveAnswer", "saveAbandoned"}
    <3> DEFINE next == [at |-> "saveAnswer", s |-> s, q |-> q, a |-> a,
                        row |-> AfterAnswer(quiz[s], q, a)]
    <3>1. Goto(c, next) /\ next.at = "saveAnswer"
      BY <2>2 DEF SubmitAnswer
    <3>2. QED
      BY <3>1
  <2>3. QED
    BY <2>1, <2>2
<1>3. PICK next : Goto(c, next) /\ next.at \in {"saveAnswer", "saveAbandoned"}
  BY <1>2
<1>4. NoCall.at = "none"
  BY DEF NoCall
<1>5. Paired(next)' /\ Recorded(next)'
  <2>1. /\ DOMAIN quiz = DOMAIN study
        /\ \A u \in DOMAIN study :
             /\ quiz[u].status # "in_progress" => study[u].ended
             /\ Answered(quiz[u]) \subseteq AttemptedIn(u)
    BY <1>4, OwesNothing DEF Balanced, Paired, Recorded
  <2>2. Opened(next) = {} /\ next.at # "createStudy"
    BY <1>3, OwesNothing
  <2>3. Paired(next)'
    BY <1>1, <2>1, <2>2 DEF Paired, Opened
  <2>4. Recorded(next)'
    BY <1>1, <2>1 DEF Recorded, AttemptedIn
  <2>5. QED
    BY <2>3, <2>4
<1>6. \A t : AttemptsOn(t)' = AttemptsOn(t)
  BY <1>1, SameAttempts
<1>7. Totalled(next)'
  BY <1>1, <1>3, <1>4, <1>6, OwesNothing, TotalsUntouched DEF Balanced
<1>8. QED
  BY <1>3, <1>5, <1>7, BooksAfterGoto DEF Balanced, OInv

\* SaveAnswer: the answer is saved, its attempt is still to be recorded.
LEMMA SaveAnswerBalances ==
  ASSUME OneClient, OInv, NEW c \in Clients, SaveAnswer(c), Balanced(call[c])
  PROVE  BInv'
<1>1. PICK r, s, q : r = call[c] /\ s = r.s /\ q = r.q
  OBVIOUS
<1>2. c \in DOMAIN call /\ r.at = "saveAnswer"
  BY <1>1 DEF SaveAnswer, At
<1>3. s \in DOMAIN quiz /\ r.row = AfterAnswer(quiz[s], q, r.a)
  BY <1>1, <1>2, AtWork DEF HeldIsCurrent
<1>4. quiz' = Put(quiz, s, r.row) /\ UNCHANGED <<study, topics>>
  BY <1>1 DEF SaveAnswer
<1>5. /\ DOMAIN quiz' = DOMAIN quiz
      /\ \A u \in DOMAIN quiz : u # s => quiz'[u] = quiz[u]
      /\ Answered(quiz'[s]) = Answered(quiz[s]) \cup {q}
  <2>1. /\ DOMAIN quiz' = DOMAIN quiz /\ quiz'[s] = r.row
        /\ \A u \in DOMAIN quiz : u # s => quiz'[u] = quiz[u]
    BY <1>3, <1>4 DEF Put
  <2>2. Answered(r.row) = Answered(quiz[s]) \cup {q}
    BY <1>3 DEF AfterAnswer, Answered, Put
  <2>3. QED
    BY <2>1, <2>2
<1>6. PICK next : next = Submitting(c, "getMemory", call[c].row.status)
  OBVIOUS
<1>7. Goto(c, next) /\ next.at = "getMemory" /\ next.s = s /\ next.q = q
  BY <1>1, <1>6 DEF SaveAnswer, Submitting
<1>8. Paired(next)'
  BY <1>1, <1>2, <1>4, <1>5, <1>7 DEF Balanced, Paired, Opened
<1>9. \A t : AttemptsOn(t)' = AttemptsOn(t) /\ Owed(next, t) = Owed(r, t)
  BY <1>2, <1>4, <1>7, SameAttempts DEF Owed
<1>10. Totalled(next)'
  BY <1>1, <1>4, <1>7, <1>9, TotalsUntouched DEF Balanced
<1>11. Recorded(next)'
  <2>1. ASSUME NEW u \in DOMAIN study'
        PROVE  /\ quiz'[u].status # "in_progress" => study'[u].ended \/ Closing(next, u)
               /\ Answered(quiz'[u]) \subseteq AttemptedIn(u) \cup Recording(next, u)
    <3>1. /\ quiz[u].status # "in_progress" => study[u].ended
          /\ Answered(quiz[u]) \subseteq AttemptedIn(u)
      BY <1>1, <1>2, <1>4, <2>1, OwesNothing DEF Balanced, Recorded
    <3>2. CASE u = s
      <4>1. Closing(next, u) /\ Recording(next, u) = {q}
        BY <1>7, <3>2 DEF Closing, Recording, AfterSave
      <4>2. QED
        BY <1>5, <3>1, <3>2, <4>1
    <3>3. CASE u # s
      <4>1. u \in DOMAIN quiz
        BY <1>1, <1>4, <2>1 DEF Balanced, Paired
      <4>2. QED
        BY <1>4, <1>5, <3>1, <3>3, <4>1
    <3>4. QED
      BY <3>2, <3>3
  <2>2. QED
    BY <1>4, <2>1 DEF Recorded, AttemptedIn, Closing, Recording
<1>12. QED
  BY <1>7, <1>8, <1>10, <1>11, BooksAfterGoto DEF Balanced, OInv

\* The steps of SubmitAnswer that write none of the three tables, or only
\* the memory.
LEMMA CountingBalances ==
  ASSUME OneClient, OInv, NEW c \in Clients, NEW next, Goto(c, next),
         call[c].at \in AfterSave, next.at \in AfterSave, next.s = call[c].s, next.q = call[c].q,
         UNCHANGED <<quiz, study>>, Balanced(call[c]), Totalled(next)'
  PROVE  BInv'
<1>1. PICK r : r = call[c]
  OBVIOUS
<1>2. /\ Opened(next) = {} /\ Opened(r) = {}
      /\ r.at # "createStudy" /\ next.at # "createStudy"
      /\ \A s : (Closing(next, s) <=> Closing(r, s)) /\ Recording(next, s) = Recording(r, s)
  BY <1>1 DEF Opened, Closing, Recording, AfterSave
<1>3. Paired(next)' /\ Recorded(next)'
  BY <1>1, <1>2 DEF Balanced, Paired, Recorded, AttemptedIn, Opened, Closing, Recording
<1>4. QED
  BY <1>3, BooksAfterGoto DEF Balanced, OInv

\* GetMemory and PutMemory have nothing to do with the books.
LEMMA MemoryBalances ==
  ASSUME OneClient, OInv, NEW c \in Clients, GetMemory(c) \/ PutMemory(c), Balanced(call[c])
  PROVE  BInv'
<1>1. \E next : /\ Goto(c, next) /\ next.at \in {"putMemory", "getTopic"}
                /\ next.s = call[c].s /\ next.q = call[c].q
  <2>1. CASE GetMemory(c)
    BY <2>1 DEF GetMemory, Writing
  <2>2. CASE PutMemory(c)
    BY <2>2 DEF PutMemory, Submitting
  <2>3. QED
    BY <2>1, <2>2
<1>2. PICK next : /\ Goto(c, next) /\ next.at \in {"putMemory", "getTopic"}
                  /\ next.s = call[c].s /\ next.q = call[c].q
  BY <1>1
<1>3. call[c].at \in {"getMemory", "putMemory"} /\ UNCHANGED <<quiz, study, topics>>
  BY DEF GetMemory, PutMemory, At, tables
<1>4. \A t : AttemptsOn(t)' = AttemptsOn(t) /\ Owed(next, t) = Owed(call[c], t)
  BY <1>2, <1>3, SameAttempts DEF Owed
<1>5. Totalled(next)'
  BY <1>2, <1>3, <1>4, TotalsUntouched DEF Balanced
<1>6. QED
  BY <1>2, <1>3, <1>5, CountingBalances DEF AfterSave

\* GetTopic computes the total with the attempt that is to come.
LEMMA GetTopicBalances ==
  ASSUME OneClient, OInv, NEW c \in Clients, GetTopic(c), Balanced(call[c])
  PROVE  BInv'
<1>1. PICK r, q, t : r = call[c] /\ q = r.q /\ t = TopicOf[q]
  OBVIOUS
<1>2. r.at = "getTopic" /\ UNCHANGED <<quiz, study, topics>>
  BY <1>1 DEF GetTopic, At, tables
<1>3. PICK current : current = IF t \in DOMAIN topics THEN topics[t] ELSE FreshTopic
  OBVIOUS
<1>4. PICK next : next = Writing(c, "putTopic", AfterAttempt(current, IsCorrect(q, r.a)))
  OBVIOUS
<1>5. /\ next.at = "putTopic" /\ next.s = r.s /\ next.q = q
      /\ next.row.total = current.total + 1
  BY <1>1, <1>4 DEF Writing, AfterAttempt
<1>6. Goto(c, next)
  BY <1>1, <1>3, <1>4 DEF GetTopic
<1>7. current.total = Total(t)
  BY <1>3 DEF Total, FreshTopic
<1>8. \A u : AttemptsOn(u)' = AttemptsOn(u) /\ Owed(next, u) = Owed(r, u) /\ Total(u)' = Total(u)
  BY <1>2, <1>5, SameAttempts DEF Owed, Total
<1>9. Totalled(next)'
  <2>1. \A u \in Topics : IsFiniteSet(AttemptsOn(u)) /\ Total(u) = Cardinality(AttemptsOn(u)) + Owed(r, u)
    BY <1>1 DEF Balanced, Totalled
  <2>2. \A u \in Topics :
          /\ IsFiniteSet(AttemptsOn(u)')
          /\ Total(u)' = Cardinality(AttemptsOn(u)') + Owed(next, u)
    BY <1>8, <2>1
  <2>3. next.row.total = Total(TopicOf[next.q])' + 1
    BY <1>1, <1>5, <1>7, <1>8
  <2>4. QED
    BY <2>2, <2>3 DEF Totalled, Owed
<1>10. QED
  BY <1>1, <1>2, <1>5, <1>6, <1>9, CountingBalances DEF AfterSave

\* PutTopic stores the total: it is now ahead of the attempts on record.
LEMMA PutTopicBalances ==
  ASSUME OneClient, OInv, NEW c \in Clients, PutTopic(c), Balanced(call[c])
  PROVE  BInv'
<1>1. PICK r, q, t : r = call[c] /\ q = r.q /\ t = TopicOf[q]
  OBVIOUS
<1>2. r.at = "putTopic" /\ UNCHANGED <<quiz, study>> /\ topics' = Put(topics, t, r.row)
  BY <1>1 DEF PutTopic, At
<1>3. PICK next : next = Submitting(c, "getStudy", call[c].status)
  OBVIOUS
<1>4. Goto(c, next) /\ next.at = "getStudy" /\ next.s = r.s /\ next.q = q
  BY <1>1, <1>3 DEF PutTopic, Submitting
<1>5. Total(t)' = r.row.total /\ \A u : u # t => Total(u)' = Total(u)
  BY <1>2 DEF Total, Put
<1>6. r.row.total = Total(t) + 1
  BY <1>1, <1>2 DEF Balanced, Totalled
<1>7. /\ \A u : AttemptsOn(u)' = AttemptsOn(u)
      /\ \A u : Owed(r, u) = 0 /\ Owed(next, u) = IF u = t THEN 1 ELSE 0
  BY <1>1, <1>2, <1>4, SameAttempts DEF Owed
<1>8. \A u \in Topics : IsFiniteSet(AttemptsOn(u)) /\ Total(u) = Cardinality(AttemptsOn(u)) + 0
  BY <1>1, <1>7 DEF Balanced, Totalled
<1>9. ASSUME NEW u \in Topics
      PROVE  IsFiniteSet(AttemptsOn(u)') /\ Total(u)' = Cardinality(AttemptsOn(u)') + Owed(next, u)
  <2>1. Cardinality(AttemptsOn(u)) \in Nat /\ IsFiniteSet(AttemptsOn(u)')
    BY <1>7, <1>8, FS_CardinalityType
  <2>2. CASE u = t
    BY <1>5, <1>6, <1>7, <1>8, <2>1, <2>2
  <2>3. CASE u # t
    BY <1>5, <1>7, <1>8, <2>1, <2>3
  <2>4. QED
    BY <2>2, <2>3
<1>10. Totalled(next)'
  BY <1>4, <1>9 DEF Totalled, Owed
<1>11. QED
  BY <1>1, <1>2, <1>4, <1>10, CountingBalances DEF AfterSave

\* GetStudy goes on to record the attempt that has been counted.
LEMMA GetStudyBalances ==
  ASSUME OneClient, OInv, NEW c \in Clients, GetStudy(c), Balanced(call[c])
  PROVE  BInv'
<1>1. call[c].at = "getStudy" /\ UNCHANGED <<quiz, study, topics>>
  BY DEF GetStudy, At, tables
<1>2. PICK next : next = Writing(c, "putAttempt",
         AfterRecording(study[call[c].s], call[c].q, call[c].a, call[c].status))
  OBVIOUS
<1>3. Goto(c, next) /\ next.at = "putAttempt" /\ next.s = call[c].s /\ next.q = call[c].q
  BY <1>2 DEF GetStudy, Writing
<1>4. \A t : AttemptsOn(t)' = AttemptsOn(t) /\ Owed(next, t) = Owed(call[c], t)
  BY <1>1, <1>3, SameAttempts DEF Owed
<1>5. Totalled(next)'
  BY <1>1, <1>3, <1>4, TotalsUntouched DEF Balanced
<1>6. QED
  BY <1>1, <1>3, <1>5, CountingBalances DEF AfterSave

\* What recording an attempt adds to a study session.
LEMMA RecordingAppends ==
  ASSUME NEW row \in StudyRow, NEW q, NEW a, NEW status
  PROVE  LET n == Len(row.attempts)
             new == AfterRecording(row, q, a, status)
         IN  /\ n \in Nat /\ DOMAIN row.attempts = 1..n
             /\ DOMAIN new.attempts = 1..n+1
             /\ \A i \in 1..n : new.attempts[i] = row.attempts[i]
             /\ new.attempts[n+1] = [q |-> q, a |-> a, correct |-> IsCorrect(q, a)]
             /\ new.ended = (row.ended \/ status \in {"completed", "abandoned"})
<1> DEFINE e == [q |-> q, a |-> a, correct |-> IsCorrect(q, a)]
<1>1. row.attempts \in Seq(Attempt) /\ Len(row.attempts) \in Nat
      /\ DOMAIN row.attempts = 1..Len(row.attempts)
  BY DEF StudyRow
<1>2. AfterRecording(row, q, a, status).attempts = Append(row.attempts, e)
  BY DEF AfterRecording
<1>3. AfterRecording(row, q, a, status).ended = (row.ended \/ status \in {"completed", "abandoned"})
  BY Zenon DEF AfterRecording
<1>4. QED
  BY <1>1, <1>2, <1>3

\* PutAttempt records the attempt that has been counted, and ends the study
\* session of a session that is closed.
LEMMA PutAttemptBalances ==
  ASSUME OneClient, OInv, NEW c \in Clients, PutAttempt(c), Balanced(call[c])
  PROVE  BInv'
<1>1. PICK r, s, q, t : r = call[c] /\ s = r.s /\ q = r.q /\ t = TopicOf[q]
  OBVIOUS
<1>2. /\ c \in DOMAIN call /\ r.at = "putAttempt" /\ Return(c)
      /\ study' = Put(study, s, r.row) /\ UNCHANGED <<quiz, topics>>
  BY <1>1 DEF PutAttempt, At
<1>3. /\ s \in DOMAIN study /\ r.row = AfterRecording(study[s], q, r.a, r.status)
      /\ r.status = quiz[s].status /\ s \in DOMAIN quiz /\ quiz[s] \in QuizRow
      /\ q \in Questions /\ t \in Topics
  BY <1>1, <1>2, AtWork, PackAssumption DEF InOrder, AfterSave, SubmitSteps
<1>4. study[s] \in StudyRow
  BY <1>3 DEF OInv, IInv, TypeOK, IsTable
<1>5. PICK n, new : n = Len(study[s].attempts) /\ new = <<s, n + 1>>
  OBVIOUS
<1>6. /\ n \in Nat /\ DOMAIN study[s].attempts = 1..n
      /\ DOMAIN r.row.attempts = 1..n+1
      /\ \A i \in 1..n : r.row.attempts[i] = study[s].attempts[i]
      /\ r.row.attempts[n+1] = [q |-> q, a |-> r.a, correct |-> IsCorrect(q, r.a)]
      /\ r.row.ended = (study[s].ended \/ r.status \in {"completed", "abandoned"})
  BY <1>3, <1>4, <1>5, RecordingAppends
<1>7. /\ DOMAIN study' = DOMAIN study /\ study'[s] = r.row
      /\ \A u \in DOMAIN study : u # s => study'[u] = study[u]
  BY <1>2, <1>3 DEF Put
<1>8. Paired(NoCall)'
  BY <1>1, <1>2, <1>7 DEF Balanced, Paired, Opened, NoCall
<1>9. Recorded(NoCall)'
  <2>1. ASSUME NEW u \in DOMAIN study
        PROVE  /\ quiz[u].status # "in_progress" => study'[u].ended
               /\ Answered(quiz[u]) \subseteq AttemptedIn(u)'
    <3>1. /\ quiz[u].status # "in_progress" => study[u].ended \/ Closing(r, u)
          /\ Answered(quiz[u]) \subseteq AttemptedIn(u) \cup Recording(r, u)
      BY <1>1 DEF Balanced, Recorded
    <3>2. CASE u # s
      BY <1>7, <3>1, <3>2, <1>1 DEF Closing, Recording, AttemptedIn
    <3>3. CASE u = s
      <4>1. quiz[s].status # "in_progress" => r.row.ended
        BY <1>3, <1>6 DEF QuizRow, Status
      <4>2. AttemptedIn(s) \subseteq AttemptedIn(s)'
        BY <1>6, <1>7 DEF AttemptedIn
      <4>3. q \in AttemptedIn(s)'
        <5>1. n + 1 \in DOMAIN study'[s].attempts /\ study'[s].attempts[n+1].q = q
          BY <1>6, <1>7
        <5>2. QED
          BY <5>1 DEF AttemptedIn
      <4>4. Recording(r, u) \subseteq {q}
        BY <1>1 DEF Recording
      <4>5. QED
        BY <1>7, <3>1, <3>3, <4>1, <4>2, <4>3, <4>4
    <3>4. QED
      BY <3>2, <3>3
  <2>2. QED
    BY <1>2, <1>7, <2>1 DEF Recorded
<1>10. ASSUME NEW u \in Topics
       PROVE  IsFiniteSet(AttemptsOn(u)') /\ Total(u)' = Cardinality(AttemptsOn(u)') + 0
  <2>1. IsFiniteSet(AttemptsOn(u)) /\ Total(u) = Cardinality(AttemptsOn(u)) + Owed(r, u)
    BY <1>1 DEF Balanced, Totalled
  <2>2. Total(u)' = Total(u) /\ Owed(r, u) = IF u = t THEN 1 ELSE 0
    BY <1>1, <1>2 DEF Total, Owed
  <2>3. AttemptsOn(u)' \subseteq IF u = t THEN AttemptsOn(u) \cup {new} ELSE AttemptsOn(u)
    BY <1>1, <1>2, <1>3, <1>4, <1>5, OneNewAttempt
  <2>4. AttemptsOn(u) \subseteq AttemptsOn(u)'
    <3>1. \A i \in DOMAIN study[s].attempts :
            i \in DOMAIN r.row.attempts /\ r.row.attempts[i] = study[s].attempts[i]
      BY <1>6
    <3>2. study' = Put(study, s, r.row)
      BY <1>2
    <3>3. QED
      BY <3>1, <3>2, NoAttemptLost
  <2>5. Cardinality(AttemptsOn(u)) \in Nat
    BY <2>1, FS_CardinalityType
  <2>6. CASE u # t
    <3>1. AttemptsOn(u)' = AttemptsOn(u)
      BY <2>3, <2>4, <2>6
    <3>2. QED
      BY <2>1, <2>2, <2>6, <3>1
  <2>7. CASE u = t
    <3>1. new \in AttemptsOn(u)'
      <4>1. n + 1 \in DOMAIN study'[s].attempts /\ study'[s].attempts[n+1].q = q /\ s \in DOMAIN study'
        BY <1>3, <1>6, <1>7
      <4>2. TopicOf[study'[s].attempts[n+1].q] = u
        BY <1>1, <2>7, <4>1
      <4>3. QED
        BY <1>5, <4>1, <4>2 DEF AttemptsOn
    <3>2. new \notin AttemptsOn(u)
      <4>1. SUFFICES ASSUME new \in AttemptsOn(u)
                     PROVE  FALSE
        OBVIOUS
      <4>2. PICK v \in DOMAIN study : \E i \in DOMAIN study[v].attempts : new = <<v, i>>
        BY <4>1, AttemptsMember
      <4>3. PICK i \in DOMAIN study[v].attempts : new = <<v, i>>
        BY <4>2
      <4>4. v = s /\ i = n + 1
        BY <1>5, <4>3
      <4>5. QED
        BY <1>6, <4>3, <4>4
    <3>3. AttemptsOn(u)' = AttemptsOn(u) \cup {new}
      BY <2>3, <2>4, <2>7, <3>1
    <3>4. /\ IsFiniteSet(AttemptsOn(u) \cup {new})
          /\ Cardinality(AttemptsOn(u) \cup {new}) = Cardinality(AttemptsOn(u)) + 1
      BY <2>1, <3>2, FS_AddElement
    <3>5. QED
      BY <2>1, <2>2, <2>5, <2>7, <3>3, <3>4
  <2>8. QED
    BY <2>6, <2>7
<1>11. Totalled(NoCall)'
  BY <1>10, OwesNothing DEF Totalled, NoCall, Owed
<1>12. QED
  BY <1>2, <1>8, <1>9, <1>11, BooksAfterReturn DEF Balanced, OInv

\* SaveAbandoned: the session is closed, its study session is still to be
\* ended.
LEMMA SaveAbandonedBalances ==
  ASSUME OneClient, OInv, NEW c \in Clients, SaveAbandoned(c), Balanced(call[c])
  PROVE  BInv'
<1>1. PICK r, s : r = call[c] /\ s = r.s
  OBVIOUS
<1>2. /\ c \in DOMAIN call /\ r.at = "saveAbandoned"
      /\ quiz' = Put(quiz, s, r.row) /\ UNCHANGED <<study, topics>>
  BY <1>1 DEF SaveAbandoned, At
<1>3. s \in DOMAIN quiz /\ quiz[s] \in QuizRow /\ r.row = [quiz[s] EXCEPT !.status = "abandoned"]
  BY <1>1, <1>2, AtWork DEF HeldIsCurrent
<1>4. /\ DOMAIN quiz' = DOMAIN quiz /\ quiz'[s] = r.row
      /\ \A u \in DOMAIN quiz : u # s => quiz'[u] = quiz[u]
  BY <1>2, <1>3 DEF Put
<1>5. Answered(quiz'[s]) = Answered(quiz[s])
  BY <1>3, <1>4 DEF QuizRow, Answered
<1>6. PICK next : next = [at |-> "getEnd", s |-> s]
  OBVIOUS
<1>7. Goto(c, next) /\ next.at = "getEnd" /\ next.s = s
  BY <1>1, <1>6 DEF SaveAbandoned
<1>8. DOMAIN quiz = DOMAIN study
  BY <1>1, <1>2, OwesNothing DEF Balanced, Paired
<1>9. Paired(next)'
  BY <1>2, <1>4, <1>7, <1>8 DEF Paired, Opened
<1>10. \A t : AttemptsOn(t)' = AttemptsOn(t) /\ Owed(next, t) = Owed(r, t)
  BY <1>2, <1>7, SameAttempts DEF Owed
<1>11. Totalled(next)'
  BY <1>1, <1>2, <1>7, <1>10, TotalsUntouched DEF Balanced
<1>12. ASSUME NEW u \in DOMAIN study
       PROVE  /\ quiz'[u].status # "in_progress" => study[u].ended \/ Closing(next, u)
              /\ Answered(quiz'[u]) \subseteq AttemptedIn(u)
  <2>1. /\ quiz[u].status # "in_progress" => study[u].ended
        /\ Answered(quiz[u]) \subseteq AttemptedIn(u)
    BY <1>1, <1>2, OwesNothing DEF Balanced, Recorded
  <2>2. CASE u = s
    BY <1>5, <1>7, <2>1, <2>2 DEF Closing
  <2>3. CASE u # s
    BY <1>4, <1>8, <2>1, <2>3
  <2>4. QED
    BY <2>2, <2>3
<1>13. Recorded(next)'
  BY <1>2, <1>12 DEF Recorded, AttemptedIn, Closing
<1>14. QED
  BY <1>7, <1>9, <1>11, <1>13, BooksAfterGoto DEF Balanced, OInv

\* GetEnd only reads.
LEMMA GetEndBalances ==
  ASSUME OneClient, OInv, NEW c \in Clients, GetEnd(c), Balanced(call[c])
  PROVE  BInv'
<1>1. PICK r, s : r = call[c] /\ s = r.s
  OBVIOUS
<1>2. r.at = "getEnd" /\ UNCHANGED <<quiz, study, topics>>
  BY <1>1 DEF GetEnd, At, tables
<1>3. PICK next : next = [at |-> "putEnd", s |-> s, row |-> [study[s] EXCEPT !.ended = TRUE]]
  OBVIOUS
<1>4. Goto(c, next) /\ next.at = "putEnd" /\ next.s = s
  BY <1>1, <1>3 DEF GetEnd
<1>5. Paired(next)'
  BY <1>1, <1>2, <1>4 DEF Balanced, Paired, Opened
<1>6. \A u : (Closing(next, u) <=> Closing(r, u)) /\ Recording(next, u) = {} /\ Recording(r, u) = {}
  BY <1>1, <1>2, <1>4 DEF Closing, Recording, AfterSave
<1>7. Recorded(next)'
  BY <1>1, <1>2, <1>6 DEF Balanced, Recorded, AttemptedIn, Closing, Recording
<1>8. \A t : AttemptsOn(t)' = AttemptsOn(t) /\ Owed(next, t) = Owed(r, t)
  BY <1>2, <1>4, SameAttempts DEF Owed
<1>9. Totalled(next)'
  BY <1>1, <1>2, <1>4, <1>8, TotalsUntouched DEF Balanced
<1>10. QED
  BY <1>4, <1>5, <1>7, <1>9, BooksAfterGoto DEF Balanced, OInv

\* PutEnd ends the study session of the session that has been closed.
LEMMA PutEndBalances ==
  ASSUME OneClient, OInv, NEW c \in Clients, PutEnd(c), Balanced(call[c])
  PROVE  BInv'
<1>1. PICK r, s : r = call[c] /\ s = r.s
  OBVIOUS
<1>2. /\ c \in DOMAIN call /\ r.at = "putEnd" /\ Return(c)
      /\ study' = Put(study, s, r.row) /\ UNCHANGED <<quiz, topics>>
  BY <1>1 DEF PutEnd, At
<1>3. s \in DOMAIN study /\ r.row = [study[s] EXCEPT !.ended = TRUE]
  BY <1>1, <1>2, AtWork DEF InOrder
<1>4. study[s] \in StudyRow
  BY <1>3 DEF OInv, IInv, TypeOK, IsTable
<1>5. r.row.attempts = study[s].attempts /\ r.row.ended
  BY <1>3, <1>4 DEF StudyRow
<1>6. /\ DOMAIN study' = DOMAIN study /\ study'[s] = r.row
      /\ \A u \in DOMAIN study : u # s => study'[u] = study[u]
  BY <1>2, <1>3 DEF Put
<1>7. Paired(NoCall)'
  BY <1>1, <1>2, <1>6 DEF Balanced, Paired, Opened, NoCall
<1>8. ASSUME NEW t
      PROVE  AttemptsOn(t)' = AttemptsOn(t)
  <2>1. \A i \in DOMAIN r.row.attempts :
          s \in DOMAIN study /\ i \in DOMAIN study[s].attempts
            /\ r.row.attempts[i] = study[s].attempts[i]
    BY <1>3, <1>5
  <2>2. \A i \in DOMAIN study[s].attempts :
          i \in DOMAIN r.row.attempts /\ r.row.attempts[i] = study[s].attempts[i]
    BY <1>5
  <2>3. study' = Put(study, s, r.row)
    BY <1>2
  <2>4. AttemptsOn(t)' \subseteq AttemptsOn(t)
    BY <2>1, <2>3, NoNewAttempts
  <2>5. AttemptsOn(t) \subseteq AttemptsOn(t)'
    BY <2>2, <2>3, NoAttemptLost
  <2>6. QED
    BY <2>4, <2>5
<1>9. \A t : Owed(NoCall, t) = Owed(r, t)
  BY <1>2 DEF Owed, NoCall
<1>10. NoCall.at # "putTopic"
  BY DEF NoCall
<1>11. Totalled(NoCall)'
  BY <1>1, <1>2, <1>8, <1>9, <1>10, TotalsUntouched DEF Balanced
<1>12. ASSUME NEW u \in DOMAIN study
       PROVE  /\ quiz[u].status # "in_progress" => study'[u].ended
              /\ Answered(quiz[u]) \subseteq AttemptedIn(u)'
  <2>1. /\ quiz[u].status # "in_progress" => study[u].ended \/ Closing(r, u)
        /\ Answered(quiz[u]) \subseteq AttemptedIn(u) \cup Recording(r, u)
    BY <1>1 DEF Balanced, Recorded
  <2>2. Recording(r, u) = {} /\ (Closing(r, u) => u = s)
    BY <1>1, <1>2 DEF Recording, Closing, AfterSave
  <2>3. CASE u = s
    BY <1>5, <1>6, <2>1, <2>2, <2>3 DEF AttemptedIn
  <2>4. CASE u # s
    BY <1>6, <2>1, <2>2, <2>4 DEF AttemptedIn
  <2>5. QED
    BY <2>3, <2>4
<1>13. Recorded(NoCall)'
  BY <1>2, <1>6, <1>12 DEF Recorded
<1>14. QED
  BY <1>2, <1>7, <1>11, <1>13, BooksAfterReturn DEF Balanced, OInv

\* The study session that SubmitAnswer and AbandonSession look up is there.
LEMMA NoNilStudy ==
  ASSUME OneClient, OInv, NEW c \in Clients, NilStudy(c), Balanced(call[c])
  PROVE  FALSE
<1>1. c \in DOMAIN call /\ call[c].at \in {"getStudy", "getEnd"} /\ call[c].s \notin DOMAIN study
  BY DEF NilStudy, At
<1>2. call[c].s \in DOMAIN quiz
  BY <1>1, AtWork
<1>3. DOMAIN quiz = DOMAIN study
  BY <1>1 DEF Balanced, Paired, Opened
<1>4. QED
  BY <1>1, <1>2, <1>3

\* BInv is inductive, given OInv.
LEMMA BooksStep ==
  ASSUME OneClient, OInv, BInv, [Next]_vars
  PROVE  BInv'
<1>1. CASE faults' # 0
  BY <1>1 DEF BInv
<1>2. CASE faults' = 0
  <2>1. ASSUME NEW c \in Clients, Continue(c)
        PROVE  BInv'
    <3>1. c \in DOMAIN call /\ faults = 0
      BY <1>2, <2>1 DEF Continue, CreateStudy, SaveAnswer, GetMemory, PutMemory, GetTopic,
         PutTopic, GetStudy, PutAttempt, SaveAbandoned, GetEnd, PutEnd, NilStudy, At, KeepBounds
    <3>2. Balanced(call[c])
      BY <3>1, BooksAtWork DEF OInv
    <3>3. QED
      BY <2>1, <3>2, CreateStudyBalances, SaveAnswerBalances, MemoryBalances, GetTopicBalances,
         PutTopicBalances, GetStudyBalances, PutAttemptBalances, SaveAbandonedBalances,
         GetEndBalances, PutEndBalances, NoNilStudy DEF Continue
  <2>2. ASSUME NEW c \in Clients, Begin(c)
        PROVE  Balanced(NoCall)
    BY <1>2, <2>2, BooksAtWork DEF Begin, Idle, OInv
  <2>3. ASSUME NEW c \in Clients, NEW mode, NEW topic, NEW count,
               StartQuiz(c, mode, topic, count)
        PROVE  BInv'
    BY <2>2, <2>3, StartBalances DEF StartQuiz
  <2>4. ASSUME NEW c \in Clients, NEW s,
               AbandonSession(c, s) \/ \E q, a : SubmitAnswer(c, s, q, a)
        PROVE  BInv'
    BY <2>2, <2>4, ReadingBalances DEF AbandonSession, SubmitAnswer
  <2>5. ASSUME NEW c \in Clients, Fail(c)
        PROVE  FALSE
    BY <1>2, <2>5 DEF Fail, OInv, IInv, TypeOK
  <2>6. ASSUME Tick \/ UNCHANGED vars
        PROVE  BInv'
    <3>1. UNCHANGED <<quiz, study, topics, call, faults>>
      BY <2>6 DEF Tick, vars, tables
    <3>2. ASSUME NEW r, Balanced(r)
          PROVE  Balanced(r)'
      <4>1. Paired(r)' /\ Recorded(r)'
        BY <3>1, <3>2 DEF Balanced, Paired, Recorded, Opened, Closing, Recording, AttemptedIn
      <4>2. \A t : AttemptsOn(t)' = AttemptsOn(t) /\ Total(t)' = Total(t) /\ Owed(r, t)' = Owed(r, t)
        BY <3>1, SameAttempts DEF Total, Owed
      <4>3. Totalled(r)'
        BY <3>2, <4>2 DEF Balanced, Totalled
      <4>4. QED
        BY <4>1, <4>3 DEF Balanced
    <3>3. DOMAIN call' = {} => Balanced(NoCall)'
      BY <1>2, <3>1, <3>2 DEF BInv
    <3>4. ASSUME NEW c \in DOMAIN call'
          PROVE  Balanced(call[c])'
      <4>1. PICK r : r = call[c]
        OBVIOUS
      <4>2. Balanced(r)'
        BY <1>2, <3>1, <3>2, <4>1 DEF BInv
      <4>3. QED
        BY <3>1, <4>1, <4>2 DEF Balanced, Paired, Totalled, Recorded, Opened, Owed, Closing,
           Recording
    <3>5. QED
      BY <3>3, <3>4 DEF BInv
  <2>7. ASSUME NEW c \in Clients,
               \/ \E mode \in {"mock", "practice"}, topic \in Topics \cup {AnyTopic},
                    count \in 0..TestCount : StartQuiz(c, mode, topic, count)
               \/ \E s \in Sessions, q \in Questions, a \in Choices : SubmitAnswer(c, s, q, a)
               \/ \E s \in Sessions : AbandonSession(c, s)
               \/ Continue(c)
               \/ Fail(c)
        PROVE  BInv'
    BY <2>1, <2>3, <2>4, <2>5, <2>7
  <2>8. QED
    BY <2>6, <2>7 DEF Next
<1>3. QED
  BY <1>1, <1>2

\* BInv holds initially.
LEMMA BooksInit == Init => BInv
<1> SUFFICES ASSUME Init
             PROVE  BInv
  OBVIOUS
<1>1. DOMAIN quiz = {} /\ DOMAIN study = {} /\ DOMAIN topics = {} /\ DOMAIN call = {}
  BY DEF Init, EmptyTable
<1>2. \A t : AttemptsOn(t) = {} /\ Total(t) = 0 /\ Owed(NoCall, t) = 0
  BY <1>1 DEF AttemptsOn, Total, Owed, NoCall
<1>3. Totalled(NoCall)
  BY <1>2, FS_EmptySet DEF Totalled, NoCall
<1>4. Paired(NoCall) /\ Recorded(NoCall)
  BY <1>1 DEF Paired, Recorded, Opened, NoCall
<1>5. QED
  BY <1>1, <1>3, <1>4 DEF BInv, Balanced

\* Books that balance, in the terms of the property.
LEMMA BalancedBooks ==
  ASSUME OInv, BInv
  PROVE  BooksAgree
<1> SUFFICES ASSUME DOMAIN call = {}, faults = 0
             PROVE  /\ DOMAIN study = DOMAIN quiz
                    /\ \A t \in Topics : Total(t) = Cardinality(AttemptsOn(t))
                    /\ \A s \in DOMAIN quiz : study[s].ended <=> quiz[s].status # "in_progress"
                    /\ \A s \in DOMAIN quiz : Answered(quiz[s]) = AttemptedIn(s)
  BY DEF BooksAgree, Total, AttemptedIn
<1>1. Balanced(NoCall) /\ NoCall.at = "none"
  BY DEF BInv, NoCall
<1>2. DOMAIN study = DOMAIN quiz
  BY <1>1 DEF Balanced, Paired, NoCall, Opened
<1>3. ASSUME NEW t \in Topics
      PROVE  Total(t) = Cardinality(AttemptsOn(t))
  <2>1. /\ IsFiniteSet(AttemptsOn(t)) /\ Owed(NoCall, t) = 0
        /\ Total(t) = Cardinality(AttemptsOn(t)) + Owed(NoCall, t)
    BY <1>1, OwesNothing DEF Balanced, Totalled
  <2>2. Cardinality(AttemptsOn(t)) \in Nat
    BY <2>1, FS_CardinalityType
  <2>3. QED
    BY <2>1, <2>2
<1>4. ASSUME NEW s \in DOMAIN quiz
      PROVE  /\ study[s].ended <=> quiz[s].status # "in_progress"
             /\ Answered(quiz[s]) = AttemptedIn(s)
  <2>1. /\ quiz[s].status # "in_progress" => study[s].ended
        /\ Answered(quiz[s]) \subseteq AttemptedIn(s)
    BY <1>1, <1>2, OwesNothing DEF Balanced, Recorded
  <2>2. study[s].ended => quiz[s].status # "in_progress"
    BY <1>2 DEF OInv, EndedIsClosed
  <2>3. AttemptedIn(s) \subseteq Answered(quiz[s])
    BY <1>2 DEF OInv, AttemptsSaved, AttemptedIn
  <2>4. QED
    BY <2>1, <2>2, <2>3
<1>5. QED
  BY <1>2, <1>3, <1>4

\* With one client and as long as no operation has been cut short, the four
\* tables agree between operations: the topic totals are the attempts on
\* record, a study session is ended exactly when its quiz session is no
\* longer in progress, and every answer has its attempt (engine.go,
\* StartQuiz, SubmitAnswer and AbandonSession).
THEOREM TheBooksAgree ==
  ASSUME OneClient
  PROVE  Spec => []BooksAgree
<1>1. OInv /\ BInv /\ [Next]_vars => OInv' /\ BInv'
  BY OrderStep, BooksStep
<1>2. QED
  BY <1>1, OrderInit, BooksInit, BalancedBooks, PTL DEF Spec
-----------------------------------------------------------------------------
(* Part 3: terminals that run the interactive commands, any number of them *)
(* at first.                                                               *)

\* A command is about a session that is stored, and what it shows are
\* questions.
Commanded ==
  \A c \in DOMAIN cli :
    /\ c \in Clients /\ cli[c].s \in DOMAIN quiz
    /\ cli[c].phase = "typing" => cli[c].q \in Questions

\* A failure that hits no operation.
OnlyFaults ==
  /\ UNCHANGED <<quiz, study, memory, topics, call, clock, calls, acked>>
  /\ faults' \in 0..MaxFaults

\* A command that dies cuts its operation short, if it is in one.
LEMMA DieIsFail ==
  ASSUME IInv, NEW c \in Clients, Die(c)
  PROVE  Next \/ OnlyFaults
<1>1. UNCHANGED <<tables, clock, calls, acked>> /\ faults < MaxFaults
      /\ faults' = faults + 1 /\ call' = Drop(call, c)
  BY DEF Die
<1>2. CASE c \in DOMAIN call
  <2>1. Fail(c)
    BY <1>1, <1>2 DEF Fail, Idle, Return
  <2>2. QED
    BY <2>1 DEF Next
<1>3. CASE c \notin DOMAIN call
  <2>1. call = [d \in DOMAIN call |-> call[d]]
    BY DEF IInv, TypeOK, IsTable
  <2>2. call' = call
    BY <1>1, <1>3, <2>1 DEF Drop
  <2>3. faults \in 0..MaxFaults /\ MaxFaults \in Nat
    BY BoundAssumption DEF IInv, TypeOK
  <2>4. faults' \in 0..MaxFaults
    BY <1>1, <2>3
  <2>5. QED
    BY <1>1, <2>2, <2>4 DEF tables, OnlyFaults
<1>4. QED
  BY <1>2, <1>3

\* The steps of the commands are steps of the engine, or none, or a death.
LEMMA EngineOrDie ==
  ASSUME IInv, Commanded, [CliNext]_cliVars
  PROVE  [Next]_vars \/ \E c \in Clients : Die(c)
<1>1. ASSUME NEW c \in Clients, NEW mode \in {"mock", "practice"},
             NEW topic \in Topics \cup {AnyTopic}, NEW count \in 0..TestCount,
             RunQuizStart(c, mode, topic, count)
      PROVE  Next
  BY <1>1 DEF RunQuizStart, Next
<1>2. ASSUME NEW c \in Clients, NEW a \in Choices, EnterAnswer(c, a)
      PROVE  Next
  <2>1. cli[c].s \in DOMAIN quiz /\ cli[c].q \in Questions
    BY <1>2 DEF EnterAnswer, In, Running, Commanded
  <2>2. DOMAIN quiz \subseteq Sessions
    BY DEF IInv, TypeOK, IsTable
  <2>3. SubmitAnswer(c, cli[c].s, cli[c].q, a)
    BY <1>2 DEF EnterAnswer
  <2>4. QED
    BY <2>1, <2>2, <2>3 DEF Next
<1>3. ASSUME NEW c \in Clients, EngineStep(c)
      PROVE  Next
  BY <1>3 DEF EngineStep, Continue, Next
<1>4. ASSUME NEW c \in Clients,
             RunQuizResume(c) \/ ShowQuestion(c) \/ ShowScore(c) \/ EnterInvalid(c)
      PROVE  UNCHANGED vars
  BY <1>4 DEF RunQuizResume, ShowQuestion, ShowScore, EnterInvalid
<1>5. ASSUME Tick
      PROVE  Next
  BY <1>5 DEF Next
<1>6. ASSUME UNCHANGED cliVars
      PROVE  UNCHANGED vars
  BY <1>6 DEF cliVars
<1>7. QED
  BY <1>1, <1>2, <1>3, <1>4, <1>5, <1>6 DEF CliNext

\* A failure that hits no operation damages no row.
LEMMA FaultsKeepRows ==
  ASSUME IInv, OnlyFaults
  PROVE  IInv'
<1>1. TypeOK'
  BY DEF OnlyFaults, IInv, TypeOK
<1>2. QuizRowsConsistent' /\ TopicRowsConsistent'
  BY DEF OnlyFaults, IInv, QuizRowsConsistent, TopicRowsConsistent
<1>3. StudyRowsConsistent'
  BY DEF OnlyFaults, IInv, StudyRowsConsistent, StudyRowOK
<1>4. HeldRowsConsistent'
  BY DEF OnlyFaults, IInv, HeldRowsConsistent, HeldRowOK, StudyRowOK
<1>5. QED
  BY <1>1, <1>2, <1>3, <1>4 DEF IInv

\* What holds of the rows under any calls holds under the commands.
LEMMA RowsBelow ==
  ASSUME IInv, Commanded, [CliNext]_cliVars
  PROVE  IInv'
BY EngineOrDie, DieIsFail, FaultsKeepRows, StepInvariant

\* No step removes a session.
LEMMA SessionsStay ==
  ASSUME IInv, Commanded, [CliNext]_cliVars
  PROVE  DOMAIN quiz \subseteq DOMAIN quiz'
<1>1. ASSUME NEW c \in Clients, Continue(c)
      PROVE  DOMAIN quiz \subseteq DOMAIN quiz'
  BY <1>1 DEF Continue, CreateStudy, SaveAnswer, GetMemory, PutMemory, GetTopic, PutTopic,
     GetStudy, PutAttempt, SaveAbandoned, GetEnd, PutEnd, NilStudy, tables, Put
<1>2. ASSUME NEW c \in Clients, NEW mode, NEW topic, NEW count,
             StartQuiz(c, mode, topic, count)
      PROVE  DOMAIN quiz \subseteq DOMAIN quiz'
  BY <1>2 DEF StartQuiz, Put
<1>3. ASSUME \/ \E c \in Clients : \/ \E s, q, a : SubmitAnswer(c, s, q, a)
                                  \/ \E s : AbandonSession(c, s)
                                  \/ Fail(c)
                                  \/ Die(c)
             \/ Tick
             \/ UNCHANGED vars
      PROVE  quiz' = quiz
  BY <1>3 DEF SubmitAnswer, AbandonSession, Fail, Die, Tick, vars, tables
<1>4. QED
  BY <1>1, <1>2, <1>3, EngineOrDie DEF Next

\* Commands go on with the session they began with.
LEMMA CommandedStep ==
  ASSUME IInv, Commanded, [CliNext]_cliVars
  PROVE  Commanded'
<1>1. DOMAIN quiz \subseteq DOMAIN quiz'
  BY SessionsStay
<1>2. ASSUME NEW c \in Clients, NEW s \in DOMAIN quiz',
             \A d \in DOMAIN cli' :
               \/ d \in DOMAIN cli /\ cli'[d] = cli[d]
               \/ /\ d = c /\ cli'[d].s = s
                  /\ cli'[d].phase = "typing" => cli'[d].q \in Questions
      PROVE  Commanded'
  BY <1>1, <1>2 DEF Commanded
<1>3. ASSUME \A d \in DOMAIN cli' : d \in DOMAIN cli /\ cli'[d] = cli[d]
      PROVE  Commanded'
  BY <1>1, <1>3 DEF Commanded
<1>4. ASSUME NEW c \in Clients, NEW s \in DOMAIN quiz', NEW phase \in {"engine", "next"},
             cli' = Put(cli, c, [phase |-> phase, s |-> s])
      PROVE  Commanded'
  BY <1>2, <1>4 DEF Put
<1>5. ASSUME NEW c \in Clients, NEW mode, NEW topic, NEW count, RunQuizStart(c, mode, topic, count)
      PROVE  Commanded'
  <2>1. PICK s \in Sessions, list \in QuestionLists(mode, topic, count) :
          /\ quiz' = Put(quiz, s, NewQuiz(list))
          /\ Goto(c, [at |-> "createStudy", s |-> s, row |-> NewStudy(list)])
    BY <1>5 DEF RunQuizStart, StartQuiz
  <2>2. s \in DOMAIN quiz' /\ call'[c].s = s
    BY <2>1 DEF Goto, Put
  <2>3. QED
    BY <1>4, <1>5, <2>2 DEF RunQuizStart
<1>6. ASSUME NEW c \in Clients, RunQuizResume(c)
      PROVE  Commanded'
  <2>1. PICK s \in Resumable : cli' = Put(cli, c, Loop(s))
    BY <1>6 DEF RunQuizResume
  <2>2. s \in DOMAIN quiz'
    BY <1>1 DEF Resumable, InProgress
  <2>3. QED
    BY <1>4, <2>1, <2>2 DEF Loop
<1>7. ASSUME NEW c \in Clients, ShowQuestion(c)
      PROVE  Commanded'
  <2>1. PICK q \in Questions : cli' = Put(cli, c, [phase |-> "typing", s |-> cli[c].s, q |-> q])
    BY <1>7 DEF ShowQuestion
  <2>2. cli[c].s \in DOMAIN quiz'
    BY <1>1, <1>7 DEF ShowQuestion, In, Running, Commanded
  <2>3. QED
    BY <1>2, <2>1, <2>2 DEF Put
<1>8. ASSUME NEW c \in Clients, ShowScore(c) \/ Die(c)
      PROVE  Commanded'
  BY <1>3, <1>8 DEF ShowScore, Die, Drop
<1>9. ASSUME NEW c \in Clients, NEW a, EnterAnswer(c, a)
      PROVE  Commanded'
  <2>1. cli[c].s \in DOMAIN quiz' /\ cli' = Put(cli, c, [phase |-> "engine", s |-> cli[c].s])
    BY <1>1, <1>9 DEF EnterAnswer, In, Running, Commanded
  <2>2. QED
    BY <1>4, <2>1
<1>10. ASSUME NEW c \in Clients, EnterInvalid(c) \/ EngineStep(c)
       PROVE  Commanded'
  <2>1. cli[c].s \in DOMAIN quiz'
    BY <1>1, <1>10 DEF EnterInvalid, EngineStep, In, Running, Commanded
  <2>2. cli' = Put(cli, c, Loop(cli[c].s)) \/ cli' = Drop(cli, c) \/ cli' = cli
    BY <1>10 DEF EnterInvalid, EngineStep
  <2>3. CASE cli' = Put(cli, c, Loop(cli[c].s))
    BY <1>4, <2>1, <2>3 DEF Loop
  <2>4. CASE cli' = Drop(cli, c) \/ cli' = cli
    BY <1>3, <2>4 DEF Drop
  <2>5. QED
    BY <2>2, <2>3, <2>4
<1>11. ASSUME (Tick /\ UNCHANGED cli) \/ UNCHANGED cliVars
       PROVE  Commanded'
  BY <1>3, <1>11 DEF cliVars
<1>12. QED
  BY <1>5, <1>6, <1>7, <1>8, <1>9, <1>10, <1>11 DEF CliNext

\* However many terminals answer the same session at a time, interleaving
\* their repository calls, overwriting one another's rows and dying anywhere,
\* the stored rows and the rows about to be written stay consistent
\* (quiz.go, runInteractiveQuiz; engine.go, SubmitAnswer).
THEOREM TerminalsKeepRows ==
  CliSpec => [](QuizRowsConsistent /\ TopicRowsConsistent /\ StudyRowsConsistent
                  /\ HeldRowsConsistent)
<1>1. CliInit => IInv /\ Commanded
  <2>1. ASSUME CliInit
        PROVE  Commanded
    BY <2>1 DEF CliInit, EmptyTable, Commanded
  <2>2. QED
    BY <2>1, InitInvariant DEF CliInit
<1>2. IInv /\ Commanded /\ [CliNext]_cliVars => IInv' /\ Commanded'
  BY RowsBelow, CommandedStep
<1>3. IInv => QuizRowsConsistent /\ TopicRowsConsistent /\ StudyRowsConsistent /\ HeldRowsConsistent
  BY DEF IInv
<1>4. QED
  BY <1>1, <1>2, <1>3, PTL DEF CliSpec
-----------------------------------------------------------------------------
(* One terminal: the inductive invariant.                                  *)

\* The question an operation is about has no attempt in the study session.
NotAttempted(r) ==
  r.s \in DOMAIN study =>
    \A i \in DOMAIN study[r.s].attempts : study[r.s].attempts[i].q # r.q

\* What the commands ask of the engine.
CliCall(r) ==
  /\ r.at \notin {"saveAbandoned", "getEnd", "putEnd"}
  /\ r.at = "saveAnswer" => r.q \notin Answered(quiz[r.s])
  /\ r.at \in AfterSave => NotAttempted(r)

\* An operation is in progress only while its command waits for it.
CallsOfCommands ==
  \A c \in DOMAIN call : In(c, "engine") /\ CliCall(call[c])

\* The question on the screen is the one the session is waiting for.
ScreenIsNext ==
  \A c \in DOMAIN cli :
    /\ c \in Clients /\ cli[c].s \in DOMAIN quiz
    /\ cli[c].phase = "typing" => cli[c].q \in Questions /\ IsNext(quiz[cli[c].s], cli[c].q)

TInv == OInv /\ CallsOfCommands /\ ScreenIsNext /\ AtMostOneAttempt

\* What is on record of an answer, or is about to be, is the answer that is
\* saved.
AttemptsFinal ==
  /\ \A s \in DOMAIN study : \A i \in DOMAIN study[s].attempts :
       study[s].attempts[i].a = quiz[s].answers[study[s].attempts[i].q]
  /\ \A c \in DOMAIN call :
       call[c].at \in AfterSave => call[c].a = quiz[call[c].s].answers[call[c].q]
-----------------------------------------------------------------------------
(* The engine below the commands of one terminal.                          *)

\* The question on the screen is a question.
LEMMA OneCommand ==
  ASSUME TInv
  PROVE  IInv /\ Commanded
BY DEF TInv, OInv, ScreenIsNext, Commanded

\* A failure that hits no operation.
LEMMA FaultsKeepOrder ==
  ASSUME OInv, OnlyFaults
  PROVE  OInv'
<1>1. IInv'
  BY FaultsKeepRows DEF OInv
<1>2. HeldRowsCurrent' /\ HeldInOrder'
  BY DEF OnlyFaults, OInv, HeldRowsCurrent, HeldIsCurrent, HeldInOrder, InOrder
<1>3. AttemptsSaved' /\ NothingAckedBefore' /\ AckedAnswersKept' /\ EndedIsClosed'
  BY DEF OnlyFaults, OInv, AttemptsSaved, NothingAckedBefore, AckedAnswersKept, EndedIsClosed
<1>4. QED
  BY <1>1, <1>2, <1>3 DEF OInv

\* What holds of the engine holds under the commands.
LEMMA EngineBelow ==
  ASSUME OneClient, TInv, [CliNext]_cliVars
  PROVE  OInv'
BY OneCommand, EngineOrDie, DieIsFail, FaultsKeepOrder, OrderStep DEF TInv

\* So do the books: a death ends what they say.
LEMMA BooksBelow ==
  ASSUME OneClient, TInv, BInv, [CliNext]_cliVars
  PROVE  BInv'
<1>1. ASSUME NEW c \in Clients, Die(c)
      PROVE  BInv'
  <2>1. faults' = faults + 1 /\ faults \in Nat
    BY <1>1 DEF Die, TInv, OInv, IInv, TypeOK
  <2>2. faults' # 0
    BY <2>1
  <2>3. QED
    BY <2>2 DEF BInv
<1>2. QED
  BY <1>1, OneCommand, EngineOrDie, BooksStep DEF TInv
-----------------------------------------------------------------------------
(* Between operations.                                                     *)

\* There is no other terminal.
LEMMA AloneAtTerminal ==
  ASSUME OneClient, TInv, NEW c \in Clients
  PROVE  /\ \A d \in DOMAIN cli : d = c
         /\ \A d \in DOMAIN call : d = c
         /\ ~ In(c, "engine") => DOMAIN call = {}
BY AloneAtWork DEF OneClient, TInv, ScreenIsNext, CallsOfCommands, OInv

\* The step of a command that calls nothing, when no operation is left
\* behind.
LEMMA QuietStep ==
  ASSUME TInv, NEW c \in Clients, UNCHANGED <<quiz, study>>, DOMAIN call' = {},
         \A d \in DOMAIN cli' :
           \/ d \in DOMAIN cli /\ cli'[d] = cli[d]
           \/ /\ d = c /\ cli'[d].s \in DOMAIN quiz
              /\ cli'[d].phase = "typing" =>
                   cli'[d].q \in Questions /\ IsNext(quiz[cli'[d].s], cli'[d].q)
  PROVE  CallsOfCommands' /\ ScreenIsNext' /\ AtMostOneAttempt'
<1>1. CallsOfCommands'
  BY DEF CallsOfCommands
<1>2. ScreenIsNext'
  BY DEF TInv, ScreenIsNext
<1>3. AtMostOneAttempt'
  BY DEF TInv, AtMostOneAttempt
<1>4. QED
  BY <1>1, <1>2, <1>3

\* Commands that resume, show, end or ask again.
LEMMA CommandSteps ==
  ASSUME OneClient, TInv, NEW c \in Clients,
         RunQuizResume(c) \/ ShowQuestion(c) \/ ShowScore(c) \/ EnterInvalid(c)
  PROVE  CallsOfCommands' /\ ScreenIsNext' /\ AtMostOneAttempt'
<1>1. UNCHANGED vars
  BY DEF RunQuizResume, ShowQuestion, ShowScore, EnterInvalid
<1>2. ~ In(c, "engine")
  BY DEF RunQuizResume, ShowQuestion, ShowScore, EnterInvalid, In
<1>3. UNCHANGED <<quiz, study>> /\ DOMAIN call' = {}
  BY <1>1, <1>2, AloneAtTerminal DEF vars
<1>4. CASE RunQuizResume(c)
  <2>1. PICK s \in Resumable : cli' = Put(cli, c, Loop(s))
    BY <1>4 DEF RunQuizResume
  <2>2. s \in DOMAIN quiz
    BY DEF Resumable, InProgress
  <2>3. Loop(s).s = s /\ Loop(s).phase = "next"
    BY DEF Loop
  <2>4. \A d \in DOMAIN cli' : (d = c /\ cli'[d] = Loop(s)) \/ (d \in DOMAIN cli /\ cli'[d] = cli[d])
    BY <2>1 DEF Put
  <2>5. QED
    BY <1>3, <2>2, <2>3, <2>4, QuietStep
<1>5. CASE ShowQuestion(c)
  <2>1. PICK q \in Questions :
          /\ IsNext(quiz[cli[c].s], q)
          /\ cli' = Put(cli, c, [phase |-> "typing", s |-> cli[c].s, q |-> q])
    BY <1>5 DEF ShowQuestion
  <2>2. PICK screen : screen = [phase |-> "typing", s |-> cli[c].s, q |-> q]
    OBVIOUS
  <2>3. cli[c].s \in DOMAIN quiz
    BY <1>5 DEF ShowQuestion, In, Running, TInv, ScreenIsNext
  <2>4. screen.s = cli[c].s /\ screen.q = q
    BY <2>2
  <2>5. \A d \in DOMAIN cli' : (d = c /\ cli'[d] = screen) \/ (d \in DOMAIN cli /\ cli'[d] = cli[d])
    BY <2>1, <2>2 DEF Put
  <2>6. QED
    BY <1>3, <2>1, <2>3, <2>4, <2>5, QuietStep
<1>6. CASE ShowScore(c)
  <2>1. \A d \in DOMAIN cli' : d \in DOMAIN cli /\ cli'[d] = cli[d]
    BY <1>6 DEF ShowScore, Drop
  <2>2. QED
    BY <1>3, <2>1, QuietStep
<1>7. CASE EnterInvalid(c)
  <2>1. cli' = Put(cli, c, Loop(cli[c].s)) /\ cli[c].s \in DOMAIN quiz
    BY <1>7 DEF EnterInvalid, In, Running, TInv, ScreenIsNext
  <2>2. Loop(cli[c].s).s = cli[c].s /\ Loop(cli[c].s).phase = "next"
    BY DEF Loop
  <2>3. \A d \in DOMAIN cli' :
          (d = c /\ cli'[d] = Loop(cli[c].s)) \/ (d \in DOMAIN cli /\ cli'[d] = cli[d])
    BY <2>1 DEF Put
  <2>4. QED
    BY <1>3, <2>1, <2>2, <2>3, QuietStep
<1>8. QED
  BY <1>4, <1>5, <1>6, <1>7

\* A command that dies leaves nothing behind but what was written.
LEMMA DieStep ==
  ASSUME OneClient, TInv, NEW c \in Clients, Die(c)
  PROVE  CallsOfCommands' /\ ScreenIsNext' /\ AtMostOneAttempt'
<1>1. UNCHANGED <<quiz, study>> /\ call' = Drop(call, c) /\ cli' = Drop(cli, c)
  BY DEF Die, tables
<1>2. DOMAIN call' = {}
  BY <1>1, AloneAtTerminal DEF Drop
<1>3. \A d \in DOMAIN cli' : d \in DOMAIN cli /\ cli'[d] = cli[d]
  BY <1>1 DEF Drop
<1>4. QED
  BY <1>1, <1>2, <1>3, QuietStep
-----------------------------------------------------------------------------
(* Calls of the engine.                                                    *)

\* quiz start: a session that is new, with nothing recorded yet.
LEMMA RunQuizStartKeeps ==
  ASSUME OneClient, TInv, NEW c \in Clients, NEW mode, NEW topic, NEW count,
         RunQuizStart(c, mode, topic, count)
  PROVE  /\ CallsOfCommands' /\ ScreenIsNext' /\ AtMostOneAttempt'
         /\ \A s \in DOMAIN quiz : s \in DOMAIN quiz' /\ quiz'[s] = quiz[s]
<1>1. /\ StartQuiz(c, mode, topic, count) /\ ~ Running(c) /\ UNCHANGED study
      /\ cli' = Put(cli, c, [phase |-> "engine", s |-> call'[c].s])
  BY DEF RunQuizStart, StartQuiz
<1>2. PICK s \in Sessions, list \in QuestionLists(mode, topic, count) :
        /\ IsNewID(s)
        /\ quiz' = Put(quiz, s, NewQuiz(list))
        /\ call' = Put(call, c, [at |-> "createStudy", s |-> s, row |-> NewStudy(list)])
  BY <1>1 DEF StartQuiz, Goto
<1>3. DOMAIN call = {} /\ DOMAIN cli = {}
  BY <1>1, AloneAtTerminal DEF Running, In
<1>4. PICK next : next = [at |-> "createStudy", s |-> s, row |-> NewStudy(list)]
  OBVIOUS
<1>5. next.at = "createStudy" /\ next.s = s
  BY <1>4
<1>6. DOMAIN call' = {c} /\ call'[c] = next
  BY <1>2, <1>3, <1>4 DEF Put
<1>7. DOMAIN cli' = {c} /\ cli'[c] = [phase |-> "engine", s |-> s]
  BY <1>1, <1>3, <1>5, <1>6 DEF Put
<1>8. cli'[c].phase = "engine" /\ cli'[c].s = s
  BY <1>7
<1>9. s \notin DOMAIN quiz
  <2>1. \A t \in DOMAIN quiz : t < s /\ t \in Nat
    BY <1>2, BoundAssumption DEF IsNewID, TInv, OInv, IInv, TypeOK, IsTable
  <2>2. QED
    BY <2>1
<1>10. /\ s \in DOMAIN quiz'
       /\ \A t \in DOMAIN quiz : t \in DOMAIN quiz' /\ quiz'[t] = quiz[t]
  BY <1>2, <1>9 DEF Put
<1>11. CallsOfCommands'
  BY <1>5, <1>6, <1>7, <1>8 DEF CallsOfCommands, In, Running, CliCall, AfterSave
<1>12. ScreenIsNext'
  BY <1>7, <1>8, <1>10 DEF ScreenIsNext
<1>13. AtMostOneAttempt'
  BY <1>1 DEF TInv, AtMostOneAttempt
<1>14. QED
  BY <1>10, <1>11, <1>12, <1>13

\* The question that is answered is the next one, and so has no answer.
LEMMA EnterAnswerKeeps ==
  ASSUME OneClient, TInv, NEW c \in Clients, NEW a, EnterAnswer(c, a)
  PROVE  /\ CallsOfCommands' /\ ScreenIsNext' /\ AtMostOneAttempt'
         /\ quiz' = quiz /\ DOMAIN call' = {c}
<1>1. PICK s, q : s = cli[c].s /\ q = cli[c].q
  OBVIOUS
<1>2. /\ UNCHANGED <<quiz, study>> /\ cli' = Put(cli, c, [phase |-> "engine", s |-> s])
      /\ call' = Put(call, c, [at |-> "saveAnswer", s |-> s, q |-> q, a |-> a,
                               row |-> AfterAnswer(quiz[s], q, a)])
      /\ c \in DOMAIN cli /\ cli[c].phase = "typing"
  BY <1>1 DEF EnterAnswer, SubmitAnswer, Goto, tables, In, Running
<1>3. DOMAIN call = {} /\ DOMAIN cli = {c}
  BY <1>2, AloneAtTerminal DEF In
<1>4. s \in DOMAIN quiz /\ IsNext(quiz[s], q)
  BY <1>1, <1>2 DEF TInv, ScreenIsNext
<1>5. q \notin Answered(quiz[s])
  BY <1>4 DEF IsNext, OpenPositions
<1>6. PICK next : next = [at |-> "saveAnswer", s |-> s, q |-> q, a |-> a,
                          row |-> AfterAnswer(quiz[s], q, a)]
  OBVIOUS
<1>7. next.at = "saveAnswer" /\ next.s = s /\ next.q = q
  BY <1>6
<1>8. DOMAIN call' = {c} /\ call'[c] = next
  BY <1>2, <1>3, <1>6 DEF Put
<1>9. DOMAIN cli' = {c} /\ cli'[c] = [phase |-> "engine", s |-> s]
  BY <1>2, <1>3 DEF Put
<1>10. cli'[c].phase = "engine" /\ cli'[c].s = s
  BY <1>9
<1>11. CallsOfCommands'
  BY <1>2, <1>5, <1>7, <1>8, <1>9, <1>10 DEF CallsOfCommands, In, Running, CliCall, AfterSave
<1>12. ScreenIsNext'
  BY <1>2, <1>4, <1>9, <1>10 DEF ScreenIsNext
<1>13. AtMostOneAttempt'
  BY <1>2 DEF TInv, AtMostOneAttempt
<1>14. QED
  BY <1>2, <1>8, <1>11, <1>12, <1>13
-----------------------------------------------------------------------------
(* Steps of the engine.                                                    *)

\* What a step of the engine keeps of the sessions it finds.
AnswersKept ==
  \A s \in DOMAIN quiz :
    /\ s \in DOMAIN quiz'
    /\ \A q \in Answered(quiz[s]) :
         q \in Answered(quiz'[s]) /\ quiz'[s].answers[q] = quiz[s].answers[q]
    /\ quiz[s].status = "completed" => quiz'[s].status = "completed"

\* The operation in progress stays one that a command has asked for.
CallStays(c) ==
  \A d \in DOMAIN call' : d = c /\ CliCall(call[d])'

\* When it moves on, what holds of where it goes.
LEMMA CallMoves ==
  ASSUME OneClient, TInv, NEW c \in Clients, NEW next, Goto(c, next), CliCall(next)'
  PROVE  CallStays(c)
<1>1. call'[c] = next /\ \A d \in DOMAIN call' : d = c
  BY AloneAfterGoto DEF TInv, OInv
<1>2. CliCall(call[c])'
  BY <1>1 DEF CliCall, NotAttempted
<1>3. QED
  BY <1>1, <1>2 DEF CallStays

\* When it returns there is none.
LEMMA CallEnds ==
  ASSUME OneClient, TInv, NEW c \in Clients, Return(c)
  PROVE  CallStays(c)
BY NobodyAfterReturn DEF TInv, OInv, CallStays

\* CreateStudy: a study session without attempts.
LEMMA CliCreatesStudy ==
  ASSUME OneClient, TInv, NEW c \in Clients, CreateStudy(c)
  PROVE  CallStays(c) /\ AtMostOneAttempt' /\ AnswersKept
<1>1. c \in DOMAIN call /\ call[c].at = "createStudy" /\ Return(c) /\ quiz' = quiz
      /\ study' = Put(study, call[c].s, call[c].row)
  BY DEF CreateStudy, At
<1>2. call[c].row.attempts = <<>>
  BY <1>1, AtWork DEF TInv, InOrder
<1>3. \A s \in DOMAIN study' :
        \/ study'[s].attempts = <<>>
        \/ s \in DOMAIN study /\ study'[s] = study[s]
  BY <1>1, <1>2 DEF Put
<1>4. AtMostOneAttempt'
  <2>1. ASSUME NEW s \in DOMAIN study'
        PROVE  IsInjective([i \in DOMAIN study'[s].attempts |-> study'[s].attempts[i].q])
    <3>1. CASE study'[s].attempts = <<>>
      BY <3>1 DEF IsInjective
    <3>2. CASE s \in DOMAIN study /\ study'[s] = study[s]
      BY <3>2 DEF TInv, AtMostOneAttempt
    <3>3. QED
      BY <1>3, <3>1, <3>2
  <2>2. QED
    BY <2>1 DEF AtMostOneAttempt
<1>5. QED
  BY <1>1, <1>4, CallEnds DEF AnswersKept

\* SaveAnswer: the question had no answer, and so has no attempt.
LEMMA CliSavesAnswer ==
  ASSUME OneClient, TInv, NEW c \in Clients, SaveAnswer(c)
  PROVE  CallStays(c) /\ AtMostOneAttempt' /\ AnswersKept
<1>1. PICK s, q, a : s = call[c].s /\ q = call[c].q /\ a = call[c].a
  OBVIOUS
<1>2. /\ c \in DOMAIN call /\ call[c].at = "saveAnswer" /\ study' = study
      /\ quiz' = Put(quiz, s, call[c].row)
  BY <1>1 DEF SaveAnswer, At
<1>3. s \in DOMAIN quiz /\ call[c].row = AfterAnswer(quiz[s], q, a)
  BY <1>1, <1>2, AtWork DEF HeldIsCurrent, TInv
<1>4. q \notin Answered(quiz[s])
  BY <1>1, <1>2 DEF TInv, CallsOfCommands, CliCall
<1>5. /\ DOMAIN quiz' = DOMAIN quiz
      /\ \A t \in DOMAIN quiz : t # s => quiz'[t] = quiz[t]
      /\ quiz'[s] = AfterAnswer(quiz[s], q, a)
  BY <1>2, <1>3 DEF Put
<1>6. /\ quiz'[s].answers = Put(quiz[s].answers, q, a)
      /\ quiz[s].status = "completed" => quiz'[s].status = "completed"
  BY <1>5 DEF AfterAnswer
<1>7. AnswersKept
  BY <1>4, <1>5, <1>6 DEF AnswersKept, Answered, Put
<1>8. PICK next : next = Submitting(c, "getMemory", call[c].row.status)
  OBVIOUS
<1>9. next.at = "getMemory" /\ next.s = s /\ next.q = q
  BY <1>1, <1>8 DEF Submitting
<1>10. s \in DOMAIN study =>
         \A i \in DOMAIN study[s].attempts : study[s].attempts[i].q # q
  BY <1>4 DEF TInv, OInv, AttemptsSaved
<1>11. CliCall(next)'
  BY <1>2, <1>9, <1>10 DEF CliCall, NotAttempted, AfterSave
<1>12. CallStays(c)
  BY <1>8, <1>11, CallMoves DEF SaveAnswer
<1>13. AtMostOneAttempt'
  BY <1>2 DEF TInv, AtMostOneAttempt
<1>14. QED
  BY <1>7, <1>12, <1>13

\* The steps between the saved answer and the attempt.
LEMMA CliCounts ==
  ASSUME OneClient, TInv, NEW c \in Clients,
         GetMemory(c) \/ PutMemory(c) \/ GetTopic(c) \/ PutTopic(c) \/ GetStudy(c)
  PROVE  CallStays(c) /\ AtMostOneAttempt' /\ AnswersKept
<1>1. UNCHANGED <<quiz, study>> /\ c \in DOMAIN call
  BY DEF GetMemory, PutMemory, GetTopic, PutTopic, GetStudy, At, tables
<1>2. call[c].at \in AfterSave
  BY DEF GetMemory, PutMemory, GetTopic, PutTopic, GetStudy, At, AfterSave
<1>3. NotAttempted(call[c])
  BY <1>1, <1>2 DEF TInv, CallsOfCommands, CliCall
<1>4. \E next : /\ Goto(c, next) /\ next.s = call[c].s /\ next.q = call[c].q
                /\ next.at \in AfterSave
  <2>1. ASSUME NEW step, NEW status, step \in AfterSave, Goto(c, Submitting(c, step, status))
        PROVE  \E next : /\ Goto(c, next) /\ next.s = call[c].s /\ next.q = call[c].q
                         /\ next.at \in AfterSave
    <3>1. PICK next : next = Submitting(c, step, status)
      OBVIOUS
    <3>2. Goto(c, next) /\ next.s = call[c].s /\ next.q = call[c].q /\ next.at = step
      BY <2>1, <3>1 DEF Submitting
    <3>3. QED
      BY <2>1, <3>2
  <2>2. ASSUME NEW step, NEW row, step \in AfterSave, Goto(c, Writing(c, step, row))
        PROVE  \E next : /\ Goto(c, next) /\ next.s = call[c].s /\ next.q = call[c].q
                         /\ next.at \in AfterSave
    <3>1. PICK next : next = Writing(c, step, row)
      OBVIOUS
    <3>2. Goto(c, next) /\ next.s = call[c].s /\ next.q = call[c].q /\ next.at = step
      BY <2>2, <3>1 DEF Writing
    <3>3. QED
      BY <2>2, <3>2
  <2>3. {"putMemory", "getTopic", "putTopic", "getStudy", "putAttempt"} \subseteq AfterSave
    BY DEF AfterSave
  <2>4. CASE GetMemory(c)
    BY <2>2, <2>3, <2>4, Zenon DEF GetMemory
  <2>5. CASE PutMemory(c)
    BY <2>1, <2>3, <2>5 DEF PutMemory
  <2>6. CASE GetTopic(c)
    BY <2>2, <2>3, <2>6, Zenon DEF GetTopic
  <2>7. CASE PutTopic(c)
    BY <2>1, <2>3, <2>7 DEF PutTopic
  <2>8. CASE GetStudy(c)
    BY <2>2, <2>3, <2>8 DEF GetStudy
  <2>9. QED
    BY <2>4, <2>5, <2>6, <2>7, <2>8
<1>5. PICK next : /\ Goto(c, next) /\ next.s = call[c].s /\ next.q = call[c].q
                  /\ next.at \in AfterSave
  BY <1>4
<1>6. CliCall(next)'
  BY <1>1, <1>3, <1>5 DEF CliCall, NotAttempted, AfterSave
<1>7. CallStays(c)
  BY <1>5, <1>6, CallMoves
<1>8. AtMostOneAttempt' /\ AnswersKept
  BY <1>1 DEF TInv, AtMostOneAttempt, AnswersKept
<1>9. QED
  BY <1>7, <1>8

\* PutAttempt: one attempt more, on a question that had none.
LEMMA CliRecords ==
  ASSUME OneClient, TInv, NEW c \in Clients, PutAttempt(c)
  PROVE  CallStays(c) /\ AtMostOneAttempt' /\ AnswersKept
<1>1. PICK s, q, a : s = call[c].s /\ q = call[c].q /\ a = call[c].a
  OBVIOUS
<1>2. /\ c \in DOMAIN call /\ call[c].at = "putAttempt" /\ quiz' = quiz /\ Return(c)
      /\ study' = Put(study, s, call[c].row)
  BY <1>1 DEF PutAttempt, At
<1>3. s \in DOMAIN study /\ call[c].row = AfterRecording(study[s], q, a, call[c].status)
  BY <1>1, <1>2, AtWork DEF TInv, InOrder
<1>4. \A i \in DOMAIN study[s].attempts : study[s].attempts[i].q # q
  BY <1>1, <1>2, <1>3 DEF TInv, CallsOfCommands, CliCall, NotAttempted, AfterSave
<1>5. PICK old, new : old = study[s].attempts /\ new = study'[s].attempts
  OBVIOUS
<1>6. PICK x : x = [q |-> q, a |-> a, correct |-> IsCorrect(q, a)]
  OBVIOUS
<1>7. new = Append(old, x) /\ x.q = q
  <2>1. study'[s] = AfterRecording(study[s], q, a, call[c].status)
    BY <1>2, <1>3 DEF Put
  <2>2. study'[s].attempts = Append(study[s].attempts, [q |-> q, a |-> a, correct |-> IsCorrect(q, a)])
    BY <2>1 DEF AfterRecording
  <2>3. QED
    BY <1>5, <1>6, <2>2
<1>8. old \in Seq(Attempt)
  <2>1. study[s] \in StudyRow
    BY <1>3 DEF TInv, OInv, IInv, TypeOK, IsTable
  <2>2. QED
    BY <1>5, <2>1 DEF StudyRow
<1>9. IsInjective([i \in DOMAIN new |-> new[i].q])
  <2>1. x \in Attempt \cup {x} /\ old \in Seq(Attempt \cup {x})
    BY <1>8
  <2>2. /\ Len(old) \in Nat /\ DOMAIN old = 1..Len(old) /\ DOMAIN new = 1..(Len(old) + 1)
        /\ \A i \in 1..Len(old) : new[i] = old[i]
        /\ new[Len(old) + 1] = x
    BY <1>7, <2>1
  <2>3. \A i \in DOMAIN new : i \in DOMAIN old \/ i = Len(old) + 1
    BY <2>2
  <2>4. \A i \in DOMAIN old : old[i].q # q
    BY <1>4, <1>5
  <2>5. IsInjective([i \in DOMAIN old |-> old[i].q])
    BY <1>3, <1>5 DEF TInv, AtMostOneAttempt
  <2>6. \A i, j \in DOMAIN old : old[i].q = old[j].q => i = j
    BY <2>5 DEF IsInjective
  <2>7. \A i, j \in DOMAIN new : new[i].q = new[j].q => i = j
    BY <1>7, <2>2, <2>3, <2>4, <2>6
  <2>8. QED
    BY <2>7 DEF IsInjective
<1>10. \A t \in DOMAIN study' : t = s \/ (t \in DOMAIN study /\ study'[t] = study[t])
  BY <1>2 DEF Put
<1>11. AtMostOneAttempt'
  <2>1. ASSUME NEW t \in DOMAIN study'
        PROVE  IsInjective([i \in DOMAIN study'[t].attempts |-> study'[t].attempts[i].q])
    <3>1. CASE t = s
      BY <1>5, <1>9, <3>1
    <3>2. CASE t # s
      BY <1>10, <3>2 DEF TInv, AtMostOneAttempt
    <3>3. QED
      BY <3>1, <3>2
  <2>2. QED
    BY <2>1 DEF AtMostOneAttempt
<1>12. QED
  BY <1>2, <1>11, CallEnds DEF AnswersKept

\* A step of the engine under a command.
LEMMA EngineStepKeeps ==
  ASSUME OneClient, TInv, NEW c \in Clients, EngineStep(c)
  PROVE  /\ CallsOfCommands' /\ ScreenIsNext' /\ AtMostOneAttempt' /\ AnswersKept
         /\ c \in DOMAIN call
<1>1. Continue(c) /\ In(c, "engine")
  BY DEF EngineStep, Continue
<1>2. c \in DOMAIN call
  BY <1>1 DEF Continue, CreateStudy, SaveAnswer, GetMemory, PutMemory, GetTopic, PutTopic,
       GetStudy, PutAttempt, SaveAbandoned, GetEnd, PutEnd, NilStudy, At
<1>3. call[c].at \notin {"saveAbandoned", "getEnd", "putEnd"}
  BY <1>2 DEF TInv, CallsOfCommands, CliCall
<1>4. ASSUME NilStudy(c)
      PROVE  CallStays(c) /\ AtMostOneAttempt' /\ AnswersKept
  <2>1. Return(c) /\ UNCHANGED <<quiz, study>>
    BY <1>4 DEF NilStudy, tables
  <2>2. QED
    BY <2>1, CallEnds DEF TInv, AtMostOneAttempt, AnswersKept
<1>5. CallStays(c) /\ AtMostOneAttempt' /\ AnswersKept
  BY <1>1, <1>3, <1>4, CliCreatesStudy, CliSavesAnswer, CliCounts, CliRecords
     DEF Continue, SaveAbandoned, GetEnd, PutEnd, At
<1>6. \A d \in DOMAIN cli : d = c
  BY AloneAtTerminal
<1>7. cli[c].s \in DOMAIN quiz' /\ c \in DOMAIN cli /\ cli[c].phase = "engine"
  BY <1>1, <1>5 DEF In, Running, TInv, ScreenIsNext, AnswersKept
<1>8. CASE ~ Idle(c)' /\ UNCHANGED cli
  <2>1. CallsOfCommands'
    BY <1>5, <1>7, <1>8 DEF CallStays, CallsOfCommands, In, Running
  <2>2. ScreenIsNext'
    BY <1>6, <1>7, <1>8 DEF ScreenIsNext
  <2>3. QED
    BY <1>2, <1>5, <2>1, <2>2
<1>9. CASE DOMAIN call' = {} /\ (cli' = Put(cli, c, Loop(cli[c].s)) \/ cli' = Drop(cli, c))
  <2>1. Loop(cli[c].s).s = cli[c].s /\ Loop(cli[c].s).phase = "next"
    BY DEF Loop
  <2>2. \A d \in DOMAIN cli' : d = c /\ cli'[d] = Loop(cli[c].s)
    BY <1>6, <1>9 DEF Put, Drop
  <2>3. ScreenIsNext'
    BY <1>7, <2>1, <2>2 DEF ScreenIsNext
  <2>4. CallsOfCommands'
    BY <1>9 DEF CallsOfCommands
  <2>5. QED
    BY <1>2, <1>5, <2>3, <2>4
<1>10. NilStudy(c) \/ Idle(c)' => DOMAIN call' = {}
  <2>1. NilStudy(c) => DOMAIN call' = {}
    BY NobodyAfterReturn DEF NilStudy, TInv, OInv
  <2>2. Idle(c)' => DOMAIN call' = {}
    BY <1>5 DEF Idle, CallStays
  <2>3. QED
    BY <2>1, <2>2
<1>11. QED
  BY <1>8, <1>9, <1>10 DEF EngineStep
-----------------------------------------------------------------------------
(* The theorems.                                                           *)

\* One step of the commands.
LEMMA TerminalStep ==
  ASSUME OneClient, TInv, [CliNext]_cliVars
  PROVE  TInv' /\ AnswersKept
<1> DEFINE Kept == CallsOfCommands' /\ ScreenIsNext' /\ AtMostOneAttempt' /\ AnswersKept
<1>1. ASSUME NEW c \in Clients, NEW mode, NEW topic, NEW count, RunQuizStart(c, mode, topic, count)
      PROVE  Kept
  BY <1>1, RunQuizStartKeeps DEF AnswersKept
<1>2. ASSUME NEW c \in Clients, NEW a, EnterAnswer(c, a)
      PROVE  Kept
  <2>1. CallsOfCommands' /\ ScreenIsNext' /\ AtMostOneAttempt' /\ quiz' = quiz
    BY <1>2, EnterAnswerKeeps
  <2>2. QED
    BY <2>1 DEF AnswersKept
<1>3. ASSUME NEW c \in Clients, EngineStep(c)
      PROVE  Kept
  BY <1>3, EngineStepKeeps
<1>4. ASSUME NEW c \in Clients,
             RunQuizResume(c) \/ ShowQuestion(c) \/ ShowScore(c) \/ EnterInvalid(c)
      PROVE  Kept
  <2>1. UNCHANGED quiz
    BY <1>4 DEF RunQuizResume, ShowQuestion, ShowScore, EnterInvalid, vars
  <2>2. AnswersKept
    BY <2>1 DEF AnswersKept
  <2>3. QED
    BY <1>4, <2>2, CommandSteps
<1>5. ASSUME NEW c \in Clients, Die(c)
      PROVE  Kept
  <2>1. quiz' = quiz
    BY <1>5 DEF Die, tables
  <2>2. AnswersKept
    BY <2>1 DEF AnswersKept
  <2>3. QED
    BY <1>5, <2>2, DieStep
<1>6. ASSUME (Tick /\ UNCHANGED cli) \/ UNCHANGED cliVars
      PROVE  Kept
  <2>1. UNCHANGED <<quiz, study, call, cli>>
    BY <1>6 DEF Tick, cliVars, vars, tables
  <2>2. AnswersKept
    BY <2>1 DEF AnswersKept
  <2>3. CallsOfCommands'
    BY <2>1 DEF TInv, CallsOfCommands, CliCall, NotAttempted, In, Running
  <2>4. ScreenIsNext' /\ AtMostOneAttempt'
    BY <2>1 DEF TInv, ScreenIsNext, AtMostOneAttempt
  <2>5. QED
    BY <2>2, <2>3, <2>4
<1> HIDE DEF Kept
<1>7. Kept
  BY <1>1, <1>2, <1>3, <1>4, <1>5, <1>6 DEF CliNext
<1>8. TInv'
  BY <1>7, EngineBelow DEF Kept, TInv
<1>9. QED
  BY <1>7, <1>8 DEF Kept

\* The terminal before its first command.
LEMMA TerminalInit == CliInit => TInv
<1> SUFFICES ASSUME CliInit PROVE TInv
  OBVIOUS
<1>1. DOMAIN call = {} /\ DOMAIN cli = {} /\ DOMAIN study = {}
  BY DEF CliInit, Init, EmptyTable
<1>2. QED
  BY <1>1, OrderInit DEF CliInit, TInv, CallsOfCommands, ScreenIsNext, AtMostOneAttempt

\* With one terminal, a question has one attempt at most in the study session
\* of its quiz, however often commands die and sessions are resumed.
THEOREM OneAttemptEach ==
  ASSUME OneClient
  PROVE  CliSpec => []AtMostOneAttempt
<1>1. TInv => AtMostOneAttempt
  BY DEF TInv
<1>2. TInv /\ [CliNext]_cliVars => TInv'
  BY TerminalStep
<1>3. QED
  BY <1>1, <1>2, TerminalInit, PTL DEF CliSpec

\* With one terminal, no step takes an answer back or changes it, and a
\* completed session stays completed.
THEOREM NoAnswerChanges ==
  ASSUME OneClient
  PROVE  CliSpec => AnswersAreFinal
<1>1. TInv /\ [CliNext]_cliVars => TInv'
  BY TerminalStep
<1>2. TInv /\ [CliNext]_cliVars =>
        [\A s \in DOMAIN quiz :
           /\ \A q \in Answered(quiz[s]) :
                q \in Answered(quiz'[s]) /\ quiz'[s].answers[q] = quiz[s].answers[q]
           /\ quiz[s].status = "completed" => quiz'[s].status = "completed"]_cliVars
  BY TerminalStep DEF AnswersKept
<1>3. QED
  BY <1>1, <1>2, TerminalInit, PTL DEF CliSpec, AnswersAreFinal
-----------------------------------------------------------------------------
(* The score.                                                              *)

\* An attempt that is recorded was about to be, or was on record before, with
\* the answer that is saved.
LEMMA RecordedAnswers ==
  ASSUME OneClient, TInv, AttemptsFinal, NEW c \in Clients, EngineStep(c)
  PROVE  \A s \in DOMAIN study' : \A i \in DOMAIN study'[s].attempts :
           LET e == study'[s].attempts[i]
           IN  s \in DOMAIN quiz /\ e.q \in Answered(quiz[s]) /\ e.a = quiz[s].answers[e.q]
<1> DEFINE Saved(s, e) == s \in DOMAIN quiz /\ e.q \in Answered(quiz[s]) /\ e.a = quiz[s].answers[e.q]
<1>1. ASSUME NEW s \in DOMAIN study, NEW i \in DOMAIN study[s].attempts
      PROVE  Saved(s, study[s].attempts[i])
  BY DEF TInv, OInv, IInv, StudyRowsConsistent, AttemptsSaved, AttemptsFinal
<1>2. CASE UNCHANGED study
  BY <1>1, <1>2
<1>3. CASE CreateStudy(c)
  <2>1. c \in DOMAIN call /\ call[c].at = "createStudy" /\ study' = Put(study, call[c].s, call[c].row)
    BY <1>3 DEF CreateStudy, At
  <2>2. call[c].row.attempts = <<>>
    BY <2>1, AtWork DEF TInv, InOrder
  <2>3. \A s \in DOMAIN study' :
          \/ study'[s].attempts = <<>>
          \/ s \in DOMAIN study /\ study'[s] = study[s]
    BY <2>1, <2>2 DEF Put
  <2>4. ASSUME NEW s \in DOMAIN study', NEW i \in DOMAIN study'[s].attempts
        PROVE  Saved(s, study'[s].attempts[i])
    <3>1. s \in DOMAIN study /\ study'[s] = study[s]
      BY <2>3, <2>4
    <3>2. QED
      BY <1>1, <2>4, <3>1
  <2>5. QED
    BY <2>4
<1>4. CASE PutAttempt(c)
  <2>1. PICK r, u : r = call[c] /\ u = r.s
    OBVIOUS
  <2>2. c \in DOMAIN call /\ r.at = "putAttempt" /\ study' = Put(study, u, r.row)
    BY <1>4, <2>1 DEF PutAttempt, At
  <2>3. /\ u \in DOMAIN study /\ r.row = AfterRecording(study[u], r.q, r.a, r.status)
        /\ u \in DOMAIN quiz /\ r.q \in Answered(quiz[u])
    BY <2>1, <2>2, AtWork DEF TInv, InOrder, AfterSave
  <2>4. r.a = quiz[u].answers[r.q]
    BY <2>1, <2>2 DEF AttemptsFinal, AfterSave
  <2>5. study[u] \in StudyRow
    BY <2>3 DEF TInv, OInv, IInv, TypeOK, IsTable
  <2>6. PICK n : n = Len(study[u].attempts)
    OBVIOUS
  <2>7. /\ DOMAIN study[u].attempts = 1..n /\ DOMAIN r.row.attempts = 1..n+1 /\ n \in Nat
        /\ \A i \in 1..n : r.row.attempts[i] = study[u].attempts[i]
        /\ r.row.attempts[n+1] = [q |-> r.q, a |-> r.a, correct |-> IsCorrect(r.q, r.a)]
    BY <2>3, <2>5, <2>6, RecordingAppends
  <2>8. ASSUME NEW s \in DOMAIN study', NEW i \in DOMAIN study'[s].attempts
        PROVE  Saved(s, study'[s].attempts[i])
    <3>1. CASE s # u
      <4>1. s \in DOMAIN study /\ study'[s] = study[s]
        BY <2>2, <2>8, <3>1 DEF Put
      <4>2. QED
        BY <1>1, <2>8, <4>1
    <3>2. CASE s = u
      <4>1. study'[s] = r.row
        BY <2>2, <3>2 DEF Put
      <4>2. i \in 1..n \/ i = n + 1
        BY <2>7, <2>8, <4>1
      <4>3. CASE i \in 1..n
        BY <1>1, <2>3, <2>7, <3>2, <4>1, <4>3
      <4>4. CASE i = n + 1
        BY <2>3, <2>4, <2>7, <3>2, <4>1, <4>4
      <4>5. QED
        BY <4>2, <4>3, <4>4
    <3>3. QED
      BY <3>1, <3>2
  <2>9. QED
    BY <2>8
<1>5. ~ PutEnd(c)
  BY DEF PutEnd, At, TInv, CallsOfCommands, CliCall
<1>6. QED
  BY <1>2, <1>3, <1>4, <1>5 DEF EngineStep, Continue, SaveAnswer, GetMemory, PutMemory, GetTopic,
     PutTopic, GetStudy, SaveAbandoned, GetEnd, NilStudy, tables

\* What an operation is going to record is the answer it has saved.
LEMMA HeldAnswers ==
  ASSUME OneClient, TInv, AttemptsFinal, AnswersKept, NEW c \in Clients, EngineStep(c),
         NEW d \in DOMAIN call', call'[d].at \in AfterSave
  PROVE  call'[d].a = quiz'[call'[d].s].answers[call'[d].q]
<1>1. PICK r : r = call[c]
  OBVIOUS
<1>2. c \in DOMAIN call
  BY EngineStepKeeps
<1>3. r.at \in AfterSave =>
        /\ r.s \in DOMAIN quiz /\ r.q \in Answered(quiz[r.s])
        /\ r.a = quiz[r.s].answers[r.q]
  BY <1>1, <1>2, AtWork DEF TInv, InOrder, AttemptsFinal
<1>4. CASE SaveAnswer(c)
  <2>1. PICK next : next = Submitting(c, "getMemory", call[c].row.status)
    OBVIOUS
  <2>2. Goto(c, next) /\ next.s = r.s /\ next.q = r.q /\ next.a = r.a
    BY <1>1, <1>4, <2>1 DEF SaveAnswer, Submitting
  <2>3. call'[d] = next
    BY <2>2, AloneAfterGoto DEF TInv, OInv
  <2>4. r.at = "saveAnswer" /\ quiz' = Put(quiz, r.s, r.row)
    BY <1>1, <1>4 DEF SaveAnswer, At
  <2>5. r.row = AfterAnswer(quiz[r.s], r.q, r.a)
    BY <1>1, <1>2, <2>4, AtWork DEF TInv, HeldIsCurrent
  <2>6. r.row.answers = Put(quiz[r.s].answers, r.q, r.a)
    BY <2>5 DEF AfterAnswer
  <2>7. quiz'[r.s] = r.row
    BY <2>4 DEF Put
  <2>8. r.row.answers[r.q] = r.a
    BY <2>6 DEF Put
  <2>9. QED
    BY <2>2, <2>3, <2>7, <2>8
<1>5. CASE GetMemory(c) \/ PutMemory(c) \/ GetTopic(c) \/ PutTopic(c) \/ GetStudy(c)
  <2>1. r.at \in AfterSave
    BY <1>1, <1>5 DEF GetMemory, PutMemory, GetTopic, PutTopic, GetStudy, At, AfterSave
  <2>2. \E next : Goto(c, next) /\ next.s = r.s /\ next.q = r.q /\ next.a = r.a
    <3>1. ASSUME NEW step, NEW status, Goto(c, Submitting(c, step, status))
          PROVE  \E next : Goto(c, next) /\ next.s = r.s /\ next.q = r.q /\ next.a = r.a
      <4>1. PICK next : next = Submitting(c, step, status)
        OBVIOUS
      <4>2. Goto(c, next) /\ next.s = r.s /\ next.q = r.q /\ next.a = r.a
        BY <1>1, <3>1, <4>1 DEF Submitting
      <4>3. QED
        BY <4>2
    <3>2. ASSUME NEW step, NEW row, Goto(c, Writing(c, step, row))
          PROVE  \E next : Goto(c, next) /\ next.s = r.s /\ next.q = r.q /\ next.a = r.a
      <4>1. PICK next : next = Writing(c, step, row)
        OBVIOUS
      <4>2. Goto(c, next) /\ next.s = r.s /\ next.q = r.q /\ next.a = r.a
        BY <1>1, <3>2, <4>1 DEF Writing
      <4>3. QED
        BY <4>2
    <3>3. CASE GetMemory(c)
      BY <3>2, <3>3, Zenon DEF GetMemory
    <3>4. CASE PutMemory(c)
      BY <3>1, <3>4 DEF PutMemory
    <3>5. CASE GetTopic(c)
      BY <3>2, <3>5, Zenon DEF GetTopic
    <3>6. CASE PutTopic(c)
      BY <3>1, <3>6 DEF PutTopic
    <3>7. CASE GetStudy(c)
      BY <3>2, <3>7 DEF GetStudy
    <3>8. QED
      BY <1>5, <3>3, <3>4, <3>5, <3>6, <3>7
  <2>3. PICK next : Goto(c, next) /\ next.s = r.s /\ next.q = r.q /\ next.a = r.a
    BY <2>2
  <2>4. call'[d] = next
    BY <2>3, AloneAfterGoto DEF TInv, OInv
  <2>5. quiz'[r.s].answers[r.q] = quiz[r.s].answers[r.q]
    BY <1>3, <2>1 DEF AnswersKept
  <2>6. QED
    BY <1>3, <2>1, <2>3, <2>4, <2>5
<1>6. CASE Return(c)
  BY <1>6, NobodyAfterReturn DEF TInv, OInv
<1>7. r.at \notin {"saveAbandoned", "getEnd", "putEnd"}
  BY <1>1, <1>2 DEF TInv, CallsOfCommands, CliCall
<1>8. QED
  BY <1>1, <1>4, <1>5, <1>6, <1>7 DEF EngineStep, Continue, CreateStudy, PutAttempt, NilStudy,
     SaveAbandoned, GetEnd, PutEnd, At

\* AttemptsFinal is inductive, given TInv.
LEMMA FinalStep ==
  ASSUME OneClient, TInv, AttemptsFinal, [CliNext]_cliVars
  PROVE  AttemptsFinal'
<1>1. AnswersKept
  BY TerminalStep
<1>2. CASE \E c \in Clients : EngineStep(c)
  <2>1. PICK c \in Clients : EngineStep(c)
    BY <1>2
  <2>2. ASSUME NEW s \in DOMAIN study', NEW i \in DOMAIN study'[s].attempts
        PROVE  study'[s].attempts[i].a = quiz'[s].answers[study'[s].attempts[i].q]
    <3>1. PICK e : e = study'[s].attempts[i]
      OBVIOUS
    <3>2. s \in DOMAIN quiz /\ e.q \in Answered(quiz[s]) /\ e.a = quiz[s].answers[e.q]
      BY <2>1, <2>2, <3>1, RecordedAnswers
    <3>3. QED
      BY <1>1, <3>1, <3>2 DEF AnswersKept
  <2>3. QED
    BY <1>1, <2>1, <2>2, HeldAnswers DEF AttemptsFinal
<1>3. ASSUME UNCHANGED <<quiz, study>>,
             \A d \in DOMAIN call' :
               \/ d \in DOMAIN call /\ call'[d] = call[d]
               \/ call'[d].at \notin AfterSave
      PROVE  AttemptsFinal'
  BY <1>3 DEF AttemptsFinal
<1>4. ASSUME NEW c \in Clients, NEW mode, NEW topic, NEW count, RunQuizStart(c, mode, topic, count)
      PROVE  AttemptsFinal'
  <2>1. PICK s \in Sessions, list \in QuestionLists(mode, topic, count) :
          /\ IsNewID(s) /\ quiz' = Put(quiz, s, NewQuiz(list))
          /\ Goto(c, [at |-> "createStudy", s |-> s, row |-> NewStudy(list)])
    BY <1>4 DEF RunQuizStart, StartQuiz
  <2>2. PICK next : next = [at |-> "createStudy", s |-> s, row |-> NewStudy(list)]
    OBVIOUS
  <2>3. Goto(c, next) /\ next.at = "createStudy"
    BY <2>1, <2>2
  <2>4. \A d \in DOMAIN call' : call'[d].at \notin AfterSave
    BY <2>3, AloneAfterGoto DEF TInv, OInv, AfterSave
  <2>5. s \notin DOMAIN quiz
    BY <2>1, BoundAssumption DEF IsNewID
  <2>6. study' = study /\ DOMAIN study \subseteq DOMAIN quiz
    BY <1>4 DEF RunQuizStart, StartQuiz, TInv, OInv, IInv, StudyRowsConsistent
  <2>7. \A u \in DOMAIN study : quiz'[u] = quiz[u]
    BY <2>1, <2>5, <2>6 DEF Put
  <2>8. QED
    BY <2>4, <2>6, <2>7 DEF AttemptsFinal
<1>5. ASSUME NEW c \in Clients, NEW a, EnterAnswer(c, a)
      PROVE  AttemptsFinal'
  <2>1. UNCHANGED <<quiz, study>>
    BY <1>5 DEF EnterAnswer, SubmitAnswer, tables
  <2>2. PICK next : next = [at |-> "saveAnswer", s |-> cli[c].s, q |-> cli[c].q, a |-> a,
                            row |-> AfterAnswer(quiz[cli[c].s], cli[c].q, a)]
    OBVIOUS
  <2>3. Goto(c, next) /\ next.at = "saveAnswer"
    BY <1>5, <2>2 DEF EnterAnswer, SubmitAnswer
  <2>4. \A d \in DOMAIN call' : call'[d].at \notin AfterSave
    BY <2>3, AloneAfterGoto DEF TInv, OInv, AfterSave
  <2>5. QED
    BY <1>3, <2>1, <2>4
<1>6. ASSUME NEW c \in Clients,
             RunQuizResume(c) \/ ShowQuestion(c) \/ ShowScore(c) \/ EnterInvalid(c)
      PROVE  AttemptsFinal'
  BY <1>3, <1>6 DEF RunQuizResume, ShowQuestion, ShowScore, EnterInvalid, vars
<1>7. ASSUME NEW c \in Clients, Die(c)
      PROVE  AttemptsFinal'
  BY <1>3, <1>7 DEF Die, tables, Drop
<1>8. ASSUME (Tick /\ UNCHANGED cli) \/ UNCHANGED cliVars
      PROVE  AttemptsFinal'
  BY <1>3, <1>8 DEF Tick, cliVars, vars, tables
<1>9. QED
  BY <1>2, <1>4, <1>5, <1>6, <1>7, <1>8 DEF CliNext

\* The score of a completed session, once its attempts are the answers.
LEMMA ScoreOfAttempts ==
  ASSUME TInv, AttemptsFinal, BInv
  PROVE  ScoreAgrees
<1> SUFFICES ASSUME NEW s \in DOMAIN quiz, quiz[s].status = "completed",
                    call = EmptyTable, faults = 0
             PROVE  /\ study[s].correct = Score(s)
                    /\ Len(study[s].attempts) = study[s].count
  BY DEF ScoreAgrees
<1>1. PICK att, qs, row : att = study[s].attempts /\ qs = quiz[s].questions /\ row = study[s]
  OBVIOUS
<1>2. DOMAIN call = {}
  BY DEF EmptyTable
<1>3. s \in DOMAIN study /\ Answered(quiz[s]) = {att[i].q : i \in DOMAIN att}
  BY <1>1, <1>2, BalancedBooks DEF BooksAgree, TInv
<1>4. /\ row \in StudyRow /\ StudyRowOK(s, row)
      /\ quiz[s] \in QuizRow /\ QuizRowOK(quiz[s])
  BY <1>1, <1>3 DEF TInv, OInv, IInv, TypeOK, IsTable, StudyRowsConsistent, QuizRowsConsistent
<1>5. /\ att \in Seq(Attempt) /\ Len(att) \in Nat /\ DOMAIN att = 1..Len(att)
      /\ qs \in Seq(Questions) /\ Len(qs) \in Nat /\ DOMAIN qs = 1..Len(qs)
  BY <1>1, <1>4 DEF StudyRow, QuizRow
<1>6. \A i, j \in DOMAIN att : att[i].q = att[j].q => i = j
  <2>1. IsInjective([i \in DOMAIN att |-> att[i].q])
    BY <1>1, <1>3 DEF TInv, AtMostOneAttempt
  <2>2. QED
    BY <2>1 DEF IsInjective
<1>7. Len(att) = row.count
  <2>1. Answered(quiz[s]) = {qs[k] : k \in DOMAIN qs}
    <3>1. Answered(quiz[s]) \subseteq Range(qs) /\ \A k \in 1..Len(qs) : qs[k] \in Answered(quiz[s])
      BY <1>1, <1>4 DEF QuizRowOK
    <3>2. QED
      BY <1>5, <3>1 DEF Range
  <2>2. Cardinality({qs[k] : k \in DOMAIN qs}) = Len(qs)
    <3>1. IsFiniteSet(DOMAIN qs) /\ Cardinality(DOMAIN qs) = Len(qs)
      BY <1>5, CountTo
    <3>2. \A x, y \in DOMAIN qs : qs[x] = qs[y] => x = y
      BY <1>1, <1>4 DEF QuizRowOK, IsInjective
    <3>3. qs = [k \in DOMAIN qs |-> qs[k]]
      BY <1>5
    <3>4. QED
      BY <3>1, <3>2, <3>3, CountImage
  <2>3. Cardinality({att[i].q : i \in DOMAIN att}) = Len(att)
    <3> DEFINE f == [i \in DOMAIN att |-> att[i].q]
    <3>1. IsFiniteSet(DOMAIN f) /\ Cardinality(DOMAIN f) = Len(att)
      BY <1>5, CountTo
    <3>2. \A x, y \in DOMAIN f : f[x] = f[y] => x = y
      BY <1>6
    <3>3. {f[x] : x \in DOMAIN f} = {att[i].q : i \in DOMAIN att}
      OBVIOUS
    <3>4. f = [x \in DOMAIN f |-> f[x]]
      OBVIOUS
    <3> HIDE DEF f
    <3>5. QED
      BY <3>1, <3>2, <3>3, <3>4, CountImage
  <2>4. row.count = Len(qs)
    BY <1>1, <1>4 DEF StudyRowOK
  <2>5. QED
    BY <1>3, <2>1, <2>2, <2>3, <2>4
<1>8. row.correct = Score(s)
  <2> DEFINE C == CorrectAttempts(row)
             f == [i \in C |-> att[i].q]
             right == {q \in Answered(quiz[s]) : IsCorrect(q, quiz[s].answers[q])}
  <2>1. C \subseteq DOMAIN att
    BY <1>1 DEF CorrectAttempts
  <2>2. \A i \in DOMAIN att : att[i].correct = IsCorrect(att[i].q, quiz[s].answers[att[i].q])
    BY <1>1, <1>3, <1>4 DEF StudyRowOK, AttemptsFinal
  <2>3. \A i \in DOMAIN att : i \in C <=> IsCorrect(att[i].q, quiz[s].answers[att[i].q])
    BY <1>1, <2>2 DEF CorrectAttempts
  <2>4. {f[i] : i \in DOMAIN f} = right
    <3>1. ASSUME NEW i \in C
          PROVE  att[i].q \in right
      BY <1>3, <2>1, <2>3
    <3>2. ASSUME NEW q \in right
          PROVE  \E i \in C : q = att[i].q
      <4>1. PICK i \in DOMAIN att : q = att[i].q
        BY <1>3
      <4>2. i \in C
        BY <2>3, <4>1
      <4>3. QED
        BY <4>1, <4>2
    <3>3. QED
      BY <3>1, <3>2
  <2>5. IsFiniteSet(C)
    <3>1. IsFiniteSet(DOMAIN att)
      BY <1>5, FS_Interval
    <3>2. QED
      BY <2>1, <3>1, FS_Subset
  <2>6. /\ DOMAIN f = C /\ f = [x \in DOMAIN f |-> f[x]]
        /\ \A x, y \in DOMAIN f : f[x] = f[y] => x = y
    BY <1>6, <2>1
  <2>7. Cardinality(right) = Cardinality(C)
    <3> HIDE DEF f, C, right
    <3>1. QED
      BY <2>4, <2>5, <2>6, CountImage
  <2>8. row.correct = Cardinality(C)
    BY <1>4 DEF StudyRowOK
  <2>9. QED
    BY <2>7, <2>8 DEF Score
<1>9. QED
  BY <1>1, <1>7, <1>8

\* With one terminal and no failure, the score shown at the end of a session
\* is the one on record, and every question of it has its attempt
\* (quiz.go, runInteractiveQuiz; engine.go, GetSessionStatus).
THEOREM TheScoreAgrees ==
  ASSUME OneClient
  PROVE  CliSpec => []ScoreAgrees
<1>1. CliInit => TInv /\ AttemptsFinal /\ BInv
  <2>1. CliInit => AttemptsFinal
    BY DEF CliInit, Init, EmptyTable, AttemptsFinal
  <2>2. QED
    BY <2>1, TerminalInit, BooksInit DEF CliInit
<1>2. TInv /\ AttemptsFinal /\ BInv /\ [CliNext]_cliVars => TInv' /\ AttemptsFinal' /\ BInv'
  BY TerminalStep, FinalStep, BooksBelow
<1>3. QED
  BY <1>1, <1>2, ScoreOfAttempts, PTL DEF CliSpec
-----------------------------------------------------------------------------
(* What failures cost.                                                     *)

\* The answer whose attempt the operation r is still going to record.
Pend(r) == IF r.at \in AfterSave THEN {<<r.s, r.q>>} ELSE {}

\* But for that one, the answers without an attempt are no more than the
\* failures; a session without its study session has no answer.
Few(r) ==
  /\ IsFiniteSet(Unrecorded \ Pend(r))
  /\ Cardinality(Unrecorded \ Pend(r)) <= faults
  /\ r.at = "createStudy" => Answered(quiz[r.s]) = {}

FInv ==
  /\ DOMAIN call = {} => Few(NoCall)
  /\ \A c \in DOMAIN call : Few(call[c])

LEMMA UnrecordedMember ==
  ASSUME NEW s, NEW q
  PROVE  <<s, q>> \in Unrecorded <=>
           /\ s \in DOMAIN study /\ q \in Answered(quiz[s])
           /\ \A i \in DOMAIN study[s].attempts : study[s].attempts[i].q # q
BY DEF Unrecorded

\* Sessions and attempts that lose no attempt and gain no answer but those in
\* Extra gain no unrecorded answer but those.
LEMMA UnrecordedWithin ==
  ASSUME NEW Extra,
         \A s \in DOMAIN study' : \A q \in Answered(quiz'[s]) :
           (\A i \in DOMAIN study'[s].attempts : study'[s].attempts[i].q # q)
             => <<s, q>> \in Unrecorded \cup Extra
  PROVE  Unrecorded' \subseteq Unrecorded \cup Extra
BY DEF Unrecorded

\* The same of a step that writes one study session.
LEMMA UnrecordedAfterStudy ==
  ASSUME NEW s, NEW row, study' = Put(study, s, row), UNCHANGED quiz,
         Answered(quiz[s]) = {}
           \/ /\ s \in DOMAIN study
              /\ \A i \in DOMAIN study[s].attempts :
                   i \in DOMAIN row.attempts /\ row.attempts[i].q = study[s].attempts[i].q
  PROVE  Unrecorded' \subseteq Unrecorded
<1>1. /\ DOMAIN study' = DOMAIN study \cup {s} /\ study'[s] = row
      /\ \A u \in DOMAIN study : u # s => study'[u] = study[u]
  BY DEF Put
<1>2. ASSUME NEW u \in DOMAIN study', NEW q \in Answered(quiz'[u]),
             \A i \in DOMAIN study'[u].attempts : study'[u].attempts[i].q # q
      PROVE  <<u, q>> \in Unrecorded \cup {}
  <2>1. q \in Answered(quiz[u])
    BY DEF Answered
  <2>2. CASE u = s
    BY <1>1, <1>2, <2>1, <2>2, UnrecordedMember
  <2>3. CASE u # s
    BY <1>1, <1>2, <2>1, <2>3, UnrecordedMember
  <2>4. QED
    BY <2>2, <2>3
<1>3. QED
  BY <1>2, UnrecordedWithin

\* Fewer answers without an attempt are as few.
LEMMA FewerUnrecorded ==
  ASSUME NEW S, IsFiniteSet(S), Cardinality(S) <= faults, NEW T \in SUBSET S, faults \in Nat
  PROVE  IsFiniteSet(T) /\ Cardinality(T) <= faults
<1>1. /\ IsFiniteSet(T) /\ Cardinality(T) <= Cardinality(S)
      /\ Cardinality(S) \in Nat /\ Cardinality(T) \in Nat
  BY FS_Subset, FS_CardinalityType
<1>2. QED
  BY <1>1

\* A step that begins or goes on with an operation, and one that ends it.
LEMMA FewAfterGoto ==
  ASSUME OneClient, IInv, NEW c \in Clients, NEW r, Few(r), NEW next, Goto(c, next),
         UNCHANGED faults, Unrecorded' \ Pend(next) \subseteq Unrecorded \ Pend(r),
         next.at = "createStudy" => Answered(quiz'[next.s]) = {}
  PROVE  FInv'
<1>1. call'[c] = next /\ c \in DOMAIN call' /\ \A d \in DOMAIN call' : d = c
  BY AloneAfterGoto DEF Goto, Put
<1>2. faults \in Nat
  BY DEF IInv, TypeOK
<1>3. PICK S, T : S = Unrecorded \ Pend(r) /\ T = Unrecorded' \ Pend(next)
  OBVIOUS
<1>4. IsFiniteSet(T) /\ Cardinality(T) <= faults
  BY <1>2, <1>3, FewerUnrecorded DEF Few
<1>5. Pend(next) = Pend(call[c])'
  BY <1>1 DEF Pend
<1>6. Few(call[c])'
  BY <1>1, <1>3, <1>4, <1>5 DEF Few
<1>7. QED
  BY <1>1, <1>6 DEF FInv

LEMMA FewAfterReturn ==
  ASSUME OneClient, IInv, NEW c \in Clients, NEW r, Few(r), Return(c),
         UNCHANGED faults, Unrecorded' \subseteq Unrecorded \ Pend(r)
  PROVE  FInv'
<1>1. DOMAIN call' = {}
  BY NobodyAfterReturn
<1>2. faults \in Nat
  BY DEF IInv, TypeOK
<1>3. PICK S, T : S = Unrecorded \ Pend(r) /\ T = Unrecorded'
  OBVIOUS
<1>4. IsFiniteSet(T) /\ Cardinality(T) <= faults
  BY <1>2, <1>3, FewerUnrecorded DEF Few
<1>5. NoCall.at = "none" /\ Pend(NoCall) = {}
  BY DEF NoCall, Pend, AfterSave
<1>6. T \ {} = T
  OBVIOUS
<1>7. Few(NoCall)'
  BY <1>3, <1>4, <1>5, <1>6 DEF Few
<1>8. QED
  BY <1>1, <1>7 DEF FInv
-----------------------------------------------------------------------------
\* The first steps of the operations give no answer.
LEMMA BeginKeepsFew ==
  ASSUME OneClient, OInv, NEW c \in Clients, Few(NoCall), UNCHANGED faults,
         \/ \E mode, topic, count : StartQuiz(c, mode, topic, count)
         \/ \E s, q, a : SubmitAnswer(c, s, q, a)
         \/ \E s : AbandonSession(c, s)
  PROVE  FInv'
<1>1. Pend(NoCall) = {}
  BY DEF NoCall, Pend, AfterSave
<1>2. CASE \E mode, topic, count : StartQuiz(c, mode, topic, count)
  <2>1. PICK mode, topic, count : StartQuiz(c, mode, topic, count)
    BY <1>2
  <2>2. PICK s \in Sessions, list \in QuestionLists(mode, topic, count) :
          /\ IsNewID(s) /\ quiz' = Put(quiz, s, NewQuiz(list))
          /\ Goto(c, [at |-> "createStudy", s |-> s, row |-> NewStudy(list)])
    BY <2>1 DEF StartQuiz
  <2>3. PICK next : next = [at |-> "createStudy", s |-> s, row |-> NewStudy(list)]
    OBVIOUS
  <2>4. next.at = "createStudy" /\ next.s = s /\ Goto(c, next)
    BY <2>2, <2>3
  <2>5. Pend(next) = {}
    BY <2>4 DEF Pend, AfterSave
  <2>6. s \notin DOMAIN study /\ study' = study
    BY <2>1, <2>2, BoundAssumption DEF IsNewID, OInv, IInv, StudyRowsConsistent, StartQuiz
  <2>7. quiz'[s] = NewQuiz(list) /\ \A u \in DOMAIN quiz : u # s => quiz'[u] = quiz[u]
    BY <2>2 DEF Put
  <2>8. Answered(quiz'[s]) = {}
    BY <2>7 DEF NewQuiz, Answered, EmptyTable
  <2>9. DOMAIN study \subseteq DOMAIN quiz
    BY DEF OInv, IInv, StudyRowsConsistent
  <2>10. ASSUME NEW u \in DOMAIN study', NEW q \in Answered(quiz'[u]),
                \A i \in DOMAIN study'[u].attempts : study'[u].attempts[i].q # q
         PROVE  <<u, q>> \in Unrecorded \cup {}
    <3>1. u \in DOMAIN study /\ quiz'[u] = quiz[u]
      BY <2>6, <2>7, <2>9
    <3>2. QED
      BY <2>6, <2>10, <3>1, UnrecordedMember DEF Answered
  <2>11. Unrecorded' \subseteq Unrecorded
    BY <2>10, UnrecordedWithin
  <2>12. QED
    BY <1>1, <2>4, <2>5, <2>8, <2>11, FewAfterGoto DEF OInv
<1>3. ASSUME NEW next, Goto(c, next), next.at \in {"saveAnswer", "saveAbandoned"},
             UNCHANGED <<quiz, study>>
      PROVE  FInv'
  <2>1. Pend(next) = {} /\ Unrecorded' = Unrecorded
    BY <1>3 DEF Pend, AfterSave, Unrecorded, Answered
  <2>2. QED
    BY <1>1, <1>3, <2>1, FewAfterGoto DEF OInv
<1>4. CASE \E s, q, a : SubmitAnswer(c, s, q, a)
  <2>1. PICK s, q, a : SubmitAnswer(c, s, q, a)
    BY <1>4
  <2>2. PICK next : next = [at |-> "saveAnswer", s |-> s, q |-> q, a |-> a,
                            row |-> AfterAnswer(quiz[s], q, a)]
    OBVIOUS
  <2>3. Goto(c, next) /\ next.at = "saveAnswer" /\ UNCHANGED <<quiz, study>>
    BY <2>1, <2>2 DEF SubmitAnswer, tables
  <2>4. QED
    BY <1>3, <2>3
<1>5. CASE \E s : AbandonSession(c, s)
  <2>1. PICK s : AbandonSession(c, s)
    BY <1>5
  <2>2. PICK next : next = [at |-> "saveAbandoned", s |-> s,
                            row |-> [quiz[s] EXCEPT !.status = "abandoned"]]
    OBVIOUS
  <2>3. Goto(c, next) /\ next.at = "saveAbandoned" /\ UNCHANGED <<quiz, study>>
    BY <2>1, <2>2 DEF AbandonSession, tables
  <2>4. QED
    BY <1>3, <2>3
<1>6. QED
  BY <1>2, <1>4, <1>5

\* SaveAnswer adds the answer that is going to be recorded.
LEMMA SaveAnswerKeepsFew ==
  ASSUME OneClient, OInv, NEW c \in Clients, SaveAnswer(c), Few(call[c])
  PROVE  FInv'
<1>1. PICK r, s, q : r = call[c] /\ s = r.s /\ q = r.q
  OBVIOUS
<1>2. c \in DOMAIN call /\ r.at = "saveAnswer"
  BY <1>1 DEF SaveAnswer, At
<1>3. s \in DOMAIN quiz /\ r.row = AfterAnswer(quiz[s], q, r.a)
  BY <1>1, <1>2, AtWork DEF HeldIsCurrent
<1>4. quiz' = Put(quiz, s, r.row) /\ UNCHANGED <<study, faults>>
  BY <1>1 DEF SaveAnswer, KeepBounds
<1>5. /\ quiz'[s] = r.row /\ \A u \in DOMAIN quiz : u # s => quiz'[u] = quiz[u]
      /\ Answered(r.row) = Answered(quiz[s]) \cup {q}
  BY <1>3, <1>4 DEF Put, AfterAnswer, Answered
<1>6. PICK next : next = Submitting(c, "getMemory", call[c].row.status)
  OBVIOUS
<1>7. Goto(c, next) /\ next.at = "getMemory" /\ next.s = s /\ next.q = q
  BY <1>1, <1>6 DEF SaveAnswer, Submitting
<1>8. Pend(next) = {<<s, q>>} /\ Pend(r) = {}
  BY <1>2, <1>7 DEF Pend, AfterSave
<1>9. ASSUME NEW u \in DOMAIN study', NEW p \in Answered(quiz'[u]),
             \A i \in DOMAIN study'[u].attempts : study'[u].attempts[i].q # p
      PROVE  <<u, p>> \in Unrecorded \cup {<<s, q>>}
  <2>1. u \in DOMAIN study /\ u \in DOMAIN quiz
    BY <1>4 DEF OInv, IInv, StudyRowsConsistent
  <2>2. CASE u = s /\ p = q
    BY <2>2
  <2>3. CASE u = s /\ p # q
    <3>1. p \in Answered(quiz[u])
      BY <1>5, <1>9, <2>3
    <3>2. QED
      BY <1>4, <1>9, <2>1, <3>1, UnrecordedMember
  <2>4. CASE u # s
    <3>1. p \in Answered(quiz[u])
      BY <1>5, <1>9, <2>1, <2>4 DEF Answered
    <3>2. QED
      BY <1>4, <1>9, <2>1, <3>1, UnrecordedMember
  <2>5. QED
    BY <2>2, <2>3, <2>4
<1>10. Unrecorded' \subseteq Unrecorded \cup {<<s, q>>}
  BY <1>9, UnrecordedWithin
<1>11. QED
  BY <1>1, <1>4, <1>7, <1>8, <1>10, FewAfterGoto DEF OInv

\* The steps between that and the recording.
LEMMA SubmittingKeepsFew ==
  ASSUME OneClient, OInv, NEW c \in Clients, Few(call[c]),
         GetMemory(c) \/ PutMemory(c) \/ GetTopic(c) \/ PutTopic(c) \/ GetStudy(c)
  PROVE  FInv'
<1>1. PICK r : r = call[c]
  OBVIOUS
<1>2. r.at \in AfterSave /\ UNCHANGED <<quiz, study, faults>>
  BY <1>1 DEF GetMemory, PutMemory, GetTopic, PutTopic, GetStudy, At, AfterSave, tables, KeepBounds
<1>3. \E next : Goto(c, next) /\ next.at \in AfterSave /\ next.s = r.s /\ next.q = r.q
  <2>1. ASSUME NEW step \in AfterSave, NEW status, Goto(c, Submitting(c, step, status))
        PROVE  \E next : Goto(c, next) /\ next.at \in AfterSave /\ next.s = r.s /\ next.q = r.q
    <3>1. PICK next : next = Submitting(c, step, status)
      OBVIOUS
    <3>2. Goto(c, next) /\ next.at \in AfterSave /\ next.s = r.s /\ next.q = r.q
      BY <1>1, <2>1, <3>1 DEF Submitting
    <3>3. QED
      BY <3>2
  <2>2. ASSUME NEW step \in AfterSave, NEW row, Goto(c, Writing(c, step, row))
        PROVE  \E next : Goto(c, next) /\ next.at \in AfterSave /\ next.s = r.s /\ next.q = r.q
    <3>1. PICK next : next = Writing(c, step, row)
      OBVIOUS
    <3>2. Goto(c, next) /\ next.at \in AfterSave /\ next.s = r.s /\ next.q = r.q
      BY <1>1, <2>2, <3>1 DEF Writing
    <3>3. QED
      BY <3>2
  <2>3. {"putMemory", "getTopic", "putTopic", "getStudy", "putAttempt"} \subseteq AfterSave
    BY DEF AfterSave
  <2>4. CASE GetMemory(c)
    BY <2>2, <2>3, <2>4, Zenon DEF GetMemory
  <2>5. CASE PutMemory(c)
    BY <2>1, <2>3, <2>5 DEF PutMemory
  <2>6. CASE GetTopic(c)
    BY <2>2, <2>3, <2>6, Zenon DEF GetTopic
  <2>7. CASE PutTopic(c)
    BY <2>1, <2>3, <2>7 DEF PutTopic
  <2>8. CASE GetStudy(c)
    BY <2>2, <2>3, <2>8 DEF GetStudy
  <2>9. QED
    BY <2>4, <2>5, <2>6, <2>7, <2>8
<1>4. PICK next : Goto(c, next) /\ next.at \in AfterSave /\ next.s = r.s /\ next.q = r.q
  BY <1>3
<1>5. Pend(next) = Pend(r) /\ Unrecorded' = Unrecorded /\ next.at # "createStudy"
  BY <1>2, <1>4 DEF Pend, AfterSave, Unrecorded, Answered
<1>6. QED
  BY <1>1, <1>2, <1>4, <1>5, FewAfterGoto DEF OInv

\* PutAttempt records it.
LEMMA PutAttemptKeepsFew ==
  ASSUME OneClient, OInv, NEW c \in Clients, PutAttempt(c), Few(call[c])
  PROVE  FInv'
<1>1. PICK r, s, q : r = call[c] /\ s = r.s /\ q = r.q
  OBVIOUS
<1>2. /\ c \in DOMAIN call /\ r.at = "putAttempt" /\ Return(c)
      /\ study' = Put(study, s, r.row) /\ UNCHANGED <<quiz, faults>>
  BY <1>1 DEF PutAttempt, At, KeepBounds
<1>3. s \in DOMAIN study /\ r.row = AfterRecording(study[s], q, r.a, r.status)
  BY <1>1, <1>2, AtWork DEF InOrder
<1>4. study[s] \in StudyRow
  BY <1>3 DEF OInv, IInv, TypeOK, IsTable
<1>5. PICK n : n = Len(study[s].attempts)
  OBVIOUS
<1>6. /\ n \in Nat /\ DOMAIN study[s].attempts = 1..n /\ DOMAIN r.row.attempts = 1..n+1
      /\ \A i \in 1..n : r.row.attempts[i] = study[s].attempts[i]
      /\ r.row.attempts[n+1] = [q |-> q, a |-> r.a, correct |-> IsCorrect(q, r.a)]
  BY <1>3, <1>4, <1>5, RecordingAppends
<1>7. Unrecorded' \subseteq Unrecorded
  BY <1>2, <1>3, <1>6, UnrecordedAfterStudy
<1>8. <<s, q>> \notin Unrecorded'
  <2>1. study'[s] = r.row /\ n + 1 \in DOMAIN r.row.attempts /\ r.row.attempts[n+1].q = q
    BY <1>2, <1>6 DEF Put
  <2>2. QED
    BY <2>1 DEF Unrecorded
<1>9. Pend(r) = {<<s, q>>}
  BY <1>1, <1>2 DEF Pend, AfterSave
<1>10. QED
  BY <1>1, <1>2, <1>7, <1>8, <1>9, FewAfterReturn DEF OInv

\* The other steps of the engine touch no answer and no attempt.
LEMMA OtherStepsKeepFew ==
  ASSUME OneClient, OInv, NEW c \in Clients, Few(call[c]),
         CreateStudy(c) \/ SaveAbandoned(c) \/ GetEnd(c) \/ PutEnd(c) \/ NilStudy(c)
  PROVE  FInv'
<1>1. PICK r, s : r = call[c] /\ s = r.s
  OBVIOUS
<1>2. c \in DOMAIN call /\ UNCHANGED faults
  BY DEF CreateStudy, SaveAbandoned, GetEnd, PutEnd, NilStudy, At, KeepBounds
<1>3. CASE CreateStudy(c)
  <2>1. r.at = "createStudy" /\ study' = Put(study, s, r.row) /\ UNCHANGED quiz /\ Return(c)
    BY <1>1, <1>3 DEF CreateStudy, At
  <2>2. Answered(quiz[s]) = {} /\ Pend(r) = {}
    BY <1>1, <2>1 DEF Few, Pend, AfterSave
  <2>3. Unrecorded' \subseteq Unrecorded
    BY <2>1, <2>2, UnrecordedAfterStudy
  <2>4. QED
    BY <1>1, <1>2, <2>1, <2>2, <2>3, FewAfterReturn DEF OInv
<1>4. CASE SaveAbandoned(c)
  <2>1. r.at = "saveAbandoned" /\ quiz' = Put(quiz, s, r.row) /\ UNCHANGED study
    BY <1>1, <1>4 DEF SaveAbandoned, At
  <2>2. /\ s \in DOMAIN quiz /\ quiz[s] \in QuizRow
        /\ r.row = [quiz[s] EXCEPT !.status = "abandoned"]
    BY <1>1, <1>2, <2>1, AtWork DEF HeldIsCurrent
  <2>3. quiz'[s] = r.row /\ \A u \in DOMAIN quiz : u # s => quiz'[u] = quiz[u]
    BY <2>1 DEF Put
  <2>4. r.row.answers = quiz[s].answers
    BY <2>2 DEF QuizRow
  <2>5. DOMAIN study \subseteq DOMAIN quiz
    BY DEF OInv, IInv, StudyRowsConsistent
  <2>6. ASSUME NEW u \in DOMAIN study', NEW q \in Answered(quiz'[u]),
               \A i \in DOMAIN study'[u].attempts : study'[u].attempts[i].q # q
        PROVE  <<u, q>> \in Unrecorded \cup {}
    <3>1. u \in DOMAIN study /\ quiz'[u].answers = quiz[u].answers
      BY <2>1, <2>3, <2>4, <2>5
    <3>2. QED
      BY <2>1, <2>6, <3>1, UnrecordedMember DEF Answered
  <2>7. Unrecorded' \subseteq Unrecorded
    BY <2>6, UnrecordedWithin
  <2>8. PICK next : next = [at |-> "getEnd", s |-> s]
    OBVIOUS
  <2>9. Goto(c, next) /\ next.at = "getEnd"
    BY <1>1, <1>4, <2>8 DEF SaveAbandoned
  <2>10. Pend(next) = {} /\ Pend(r) = {}
    BY <2>1, <2>9 DEF Pend, AfterSave
  <2>11. QED
    BY <1>1, <1>2, <2>7, <2>9, <2>10, FewAfterGoto DEF OInv
<1>5. CASE GetEnd(c)
  <2>1. r.at = "getEnd" /\ UNCHANGED <<quiz, study>>
    BY <1>1, <1>5 DEF GetEnd, At, tables
  <2>2. PICK next : next = [at |-> "putEnd", s |-> s, row |-> [study[s] EXCEPT !.ended = TRUE]]
    OBVIOUS
  <2>3. Goto(c, next) /\ next.at = "putEnd"
    BY <1>1, <1>5, <2>2 DEF GetEnd
  <2>4. Pend(next) = {} /\ Pend(r) = {} /\ Unrecorded' = Unrecorded
    BY <2>1, <2>3 DEF Pend, AfterSave, Unrecorded, Answered
  <2>5. QED
    BY <1>1, <1>2, <2>3, <2>4, FewAfterGoto DEF OInv
<1>6. CASE PutEnd(c)
  <2>1. r.at = "putEnd" /\ study' = Put(study, s, r.row) /\ UNCHANGED quiz /\ Return(c)
    BY <1>1, <1>6 DEF PutEnd, At
  <2>2. s \in DOMAIN study /\ r.row = [study[s] EXCEPT !.ended = TRUE]
    BY <1>1, <1>2, <2>1, AtWork DEF InOrder
  <2>3. study[s] \in StudyRow
    BY <2>2 DEF OInv, IInv, TypeOK, IsTable
  <2>4. r.row.attempts = study[s].attempts
    BY <2>2, <2>3 DEF StudyRow
  <2>5. Unrecorded' \subseteq Unrecorded
    BY <2>1, <2>2, <2>4, UnrecordedAfterStudy
  <2>6. Pend(r) = {}
    BY <2>1 DEF Pend, AfterSave
  <2>7. QED
    BY <1>1, <1>2, <2>1, <2>5, <2>6, FewAfterReturn DEF OInv
<1>7. CASE NilStudy(c)
  <2>1. s \notin DOMAIN study /\ Return(c) /\ UNCHANGED <<quiz, study>>
    BY <1>1, <1>7 DEF NilStudy, tables
  <2>2. Unrecorded' = Unrecorded /\ \A q : <<s, q>> \notin Unrecorded
    BY <2>1 DEF Unrecorded, Answered
  <2>3. Unrecorded' \subseteq Unrecorded \ Pend(r)
    BY <1>1, <2>2 DEF Pend
  <2>4. QED
    BY <1>1, <1>2, <2>1, <2>3, FewAfterReturn DEF OInv
<1>8. QED
  BY <1>3, <1>4, <1>5, <1>6, <1>7

\* Cutting an operation short, or dying outside of one, is one failure more
\* and leaves at most the answer the operation was about.
LEMMA DeathKeepsFew ==
  ASSUME OneClient, IInv, FInv, NEW c \in Clients, UNCHANGED <<quiz, study>>,
         faults' = faults + 1, call' = Drop(call, c)
  PROVE  FInv'
<1>1. PICK r : Few(r) /\ \E p : Pend(r) \subseteq {p}
  <2>1. \A d : \E p : Pend(d) \subseteq {p}
    BY DEF Pend
  <2>2. (\E d : Few(call[d])) \/ Few(NoCall)
    BY DEF FInv
  <2>3. QED
    BY <2>1, <2>2
<1>2. PICK p : Pend(r) \subseteq {p}
  BY <1>1
<1>3. DOMAIN call' = {}
  BY NobodyAfterReturn DEF Return
<1>4. PICK S : S = Unrecorded \ Pend(r)
  OBVIOUS
<1>5. IsFiniteSet(S) /\ Cardinality(S) <= faults
  BY <1>1, <1>4 DEF Few
<1>6. faults \in Nat /\ Cardinality(S) \in Nat
  BY <1>5, FS_CardinalityType DEF IInv, TypeOK
<1>7. IsFiniteSet(S \cup {p}) /\ Cardinality(S \cup {p}) <= faults + 1
  BY <1>5, <1>6, FS_AddElement
<1>8. PICK T : T = Unrecorded
  OBVIOUS
<1>9. T \in SUBSET (S \cup {p})
  BY <1>2, <1>4, <1>8
<1>10. IsFiniteSet(T) /\ Cardinality(T) <= Cardinality(S \cup {p}) /\ Cardinality(T) \in Nat
       /\ Cardinality(S \cup {p}) \in Nat
  BY <1>7, <1>9, FS_Subset, FS_CardinalityType
<1>11. IsFiniteSet(T) /\ Cardinality(T) <= faults'
  BY <1>6, <1>7, <1>10
<1>12. Unrecorded' = T
  BY <1>8 DEF Unrecorded, Answered
<1>13. NoCall.at = "none" /\ Pend(NoCall) = {} /\ T \ {} = T
  BY DEF NoCall, Pend, AfterSave
<1>14. Few(NoCall)'
  BY <1>11, <1>12, <1>13 DEF Few
<1>15. QED
  BY <1>3, <1>14 DEF FInv

\* FInv is inductive, given TInv.
LEMMA FewStep ==
  ASSUME OneClient, TInv, FInv, [CliNext]_cliVars
  PROVE  FInv'
<1>1. OInv /\ IInv
  BY DEF TInv, OInv
<1>2. ASSUME NEW c \in Clients, Die(c)
      PROVE  FInv'
  <2>1. faults' = faults + 1 /\ call' = Drop(call, c) /\ UNCHANGED <<quiz, study>>
    BY <1>2 DEF Die, tables
  <2>2. QED
    BY <1>1, <2>1, DeathKeepsFew
<1>3. ASSUME NEW c \in Clients, Continue(c)
      PROVE  FInv'
  <2>1. c \in DOMAIN call
    BY <1>3 DEF Continue, CreateStudy, SaveAnswer, GetMemory, PutMemory, GetTopic, PutTopic,
       GetStudy, PutAttempt, SaveAbandoned, GetEnd, PutEnd, NilStudy, At
  <2>2. Few(call[c])
    BY <2>1 DEF FInv
  <2>3. QED
    BY <1>1, <1>3, <2>2, SaveAnswerKeepsFew, SubmittingKeepsFew, PutAttemptKeepsFew,
       OtherStepsKeepFew DEF Continue
<1>4. ASSUME NEW c \in Clients,
             \/ \E mode, topic, count : StartQuiz(c, mode, topic, count)
             \/ \E s, q, a : SubmitAnswer(c, s, q, a)
             \/ \E s : AbandonSession(c, s)
      PROVE  FInv'
  <2>1. Begin(c)
    BY <1>4 DEF StartQuiz, SubmitAnswer, AbandonSession
  <2>2. DOMAIN call = {} /\ UNCHANGED faults
    BY <1>1, <2>1, AloneAtWork DEF Begin, Idle
  <2>3. QED
    BY <1>1, <1>4, <2>2, BeginKeepsFew DEF FInv
<1>5. ASSUME NEW c \in Clients, Fail(c)
      PROVE  FInv'
  <2>1. faults' = faults + 1 /\ call' = Drop(call, c) /\ UNCHANGED <<quiz, study>>
    BY <1>5 DEF Fail, Return, tables
  <2>2. QED
    BY <1>1, <2>1, DeathKeepsFew
<1>6. CASE Tick \/ UNCHANGED vars
  <2>1. UNCHANGED <<quiz, study, call, faults>>
    BY <1>6 DEF Tick, vars, tables
  <2>2. \A r : Few(r)' <=> Few(r)
    BY <2>1 DEF Few, Unrecorded, Answered, Pend
  <2>3. QED
    BY <2>1, <2>2 DEF FInv, Few, Pend, Unrecorded, Answered
<1>7. [Next]_vars => FInv'
  BY <1>3, <1>4, <1>5, <1>6 DEF Next
<1>8. QED
  BY <1>1, <1>2, <1>7, OneCommand, EngineOrDie

\* With one terminal, no more answers are without their attempt than there
\* were failures, whatever they cut short.
THEOREM FewAnswersUnrecorded ==
  ASSUME OneClient
  PROVE  CliSpec => []FailuresCostOneAnswer
<1>1. CliInit => FInv
  <2>1. SUFFICES ASSUME CliInit PROVE FInv
    OBVIOUS
  <2>2. Unrecorded = {} /\ faults = 0 /\ DOMAIN call = {}
    BY <2>1 DEF CliInit, Init, EmptyTable, Unrecorded
  <2>3. NoCall.at = "none" /\ Unrecorded \ Pend(NoCall) = {}
    BY <2>2 DEF NoCall
  <2>4. IsFiniteSet({}) /\ Cardinality({}) = 0
    BY FS_EmptySet
  <2>5. QED
    BY <2>2, <2>3, <2>4 DEF FInv, Few
<1>2. TInv /\ FInv /\ [CliNext]_cliVars => TInv' /\ FInv'
  BY TerminalStep, FewStep
<1>3. FInv => FailuresCostOneAnswer
  <2>1. SUFFICES ASSUME FInv, DOMAIN call = {} PROVE Cardinality(Unrecorded) <= faults
    BY DEF FailuresCostOneAnswer
  <2>2. Pend(NoCall) = {} /\ Unrecorded \ {} = Unrecorded
    BY DEF Pend, NoCall, AfterSave
  <2>3. QED
    BY <2>1, <2>2 DEF FInv, Few
<1>4. QED
  BY <1>1, <1>2, <1>3, TerminalInit, PTL DEF CliSpec
=============================================================================
