------------------------------ MODULE QuizCli ------------------------------
(***************************************************************************)
(* The interactive quiz commands (internal/cli/quiz.go) on top of the      *)
(* engine.  Each client of QuizEngine is now a terminal: it runs at most   *)
(* one command at a time, `quiz start' or `quiz resume', and that command  *)
(* loops: ask the engine for the next question, show it, wait for the      *)
(* user, submit the answer.  The question on the screen may be stale by    *)
(* the time the user answers it.                                           *)
(*                                                                         *)
(* cli[c] is the command running in terminal c: where it stands, the       *)
(* session it is about and, while one is on the screen, the question.      *)
(***************************************************************************)
EXTENDS QuizEngine

VARIABLE cli

cliVars == <<vars, cli>>

Running(c) == c \in DOMAIN cli

In(c, phase) == Running(c) /\ cli[c].phase = phase

Loop(s) == [phase |-> "next", s |-> s]
-----------------------------------------------------------------------------
(* Commands.                                                               *)

RunQuizStart(c, mode, topic, count) ==
  /\ ~ Running(c)
  /\ StartQuiz(c, mode, topic, count)
  /\ cli' = Put(cli, c, [phase |-> "engine", s |-> call'[c].s])

InProgress == {s \in DOMAIN quiz : quiz[s].status = "in_progress"}

\* FindResumableSession returns the first row ordered by started_at DESC.
\* Rows with the same started_at come in any order.
Resumable == {s \in InProgress : \A t \in InProgress : quiz[t].started <= quiz[s].started}

RunQuizResume(c) ==
  /\ ~ Running(c)
  /\ \E s \in Resumable : cli' = Put(cli, c, Loop(s))
  /\ UNCHANGED vars

\* NextQuestion returned a question: it is shown and the loop waits for input.
ShowQuestion(c) ==
  /\ In(c, "next")
  /\ \E q \in Questions :
       /\ IsNext(quiz[cli[c].s], q)
       /\ cli' = Put(cli, c, [phase |-> "typing", s |-> cli[c].s, q |-> q])
  /\ UNCHANGED vars

\* NextQuestion returned nil: the score is shown and the command ends.
ShowScore(c) ==
  /\ In(c, "next")
  /\ OpenPositions(quiz[cli[c].s]) = {}
  /\ cli' = Drop(cli, c)
  /\ UNCHANGED vars

EnterAnswer(c, a) ==
  /\ In(c, "typing")
  /\ SubmitAnswer(c, cli[c].s, cli[c].q, a)
  /\ cli' = Put(cli, c, [phase |-> "engine", s |-> cli[c].s])

\* The input is not the number of a choice: the loop starts over.
EnterInvalid(c) ==
  /\ In(c, "typing")
  /\ cli' = Put(cli, c, Loop(cli[c].s))
  /\ UNCHANGED vars

\* A step of the engine operation the command has called.  When it returns,
\* the loop starts over; a nil dereference ends the process.
EngineStep(c) ==
  /\ In(c, "engine")
  /\ \/ Continue(c) /\ ~ NilStudy(c) /\ Idle(c)'
        /\ cli' = Put(cli, c, Loop(cli[c].s))
     \/ Continue(c) /\ ~ Idle(c)' /\ UNCHANGED cli
     \/ NilStudy(c) /\ cli' = Drop(cli, c)

\* End of input, an error from the store, or the process is killed.
Die(c) ==
  /\ Running(c)
  /\ faults < MaxFaults
  /\ faults' = faults + 1
  /\ call' = Drop(call, c)
  /\ cli' = Drop(cli, c)
  /\ UNCHANGED <<tables, clock, calls, acked>>
-----------------------------------------------------------------------------
CliInit == Init /\ cli = EmptyTable

CliNext ==
  \/ \E c \in Clients :
       \/ \E mode \in {"mock", "practice"}, topic \in Topics \cup {AnyTopic},
            count \in 0..TestCount : RunQuizStart(c, mode, topic, count)
       \/ RunQuizResume(c)
       \/ ShowQuestion(c)
       \/ ShowScore(c)
       \/ \E a \in Choices : EnterAnswer(c, a)
       \/ EnterInvalid(c)
       \/ EngineStep(c)
       \/ Die(c)
  \/ Tick /\ UNCHANGED cli

\* A command that runs keeps running; the user, however often the input is
\* invalid, ends up entering a valid answer; and an interrupted session is
\* resumed sooner or later.
CliFairness ==
  \A c \in Clients :
    /\ WF_cliVars(ShowQuestion(c))
    /\ WF_cliVars(ShowScore(c))
    /\ WF_cliVars(EngineStep(c))
    /\ SF_cliVars(\E a \in Choices : EnterAnswer(c, a))
    /\ WF_cliVars(RunQuizResume(c))

CliSpec == CliInit /\ [][CliNext]_cliVars

FairCliSpec == CliSpec /\ CliFairness
-----------------------------------------------------------------------------
(* Properties.                                                             *)

\* With one terminal, a question is recorded at most once in the study
\* session, however often the command dies and the session is resumed: the
\* answer is saved before anything is counted, so the question is not asked
\* again (engine.go, SubmitAnswer; quiz.go, runInteractiveQuiz).
AtMostOneAttempt ==
  \A s \in DOMAIN study :
    IsInjective([i \in DOMAIN study[s].attempts |-> study[s].attempts[i].q])

\* With one terminal, answers are final: what is answered stays answered in
\* the same way, and a completed session never reopens.
AnswersAreFinal ==
  [][\A s \in DOMAIN quiz :
       /\ \A q \in Answered(quiz[s]) :
            q \in Answered(quiz'[s]) /\ quiz'[s].answers[q] = quiz[s].answers[q]
       /\ quiz[s].status = "completed" => quiz'[s].status = "completed"]_cliVars

Score(s) == Cardinality({q \in Answered(quiz[s]) : IsCorrect(q, quiz[s].answers[q])})

\* With one terminal and no failure, the score shown at the end, recomputed
\* from the answers (GetSessionStatus), is the CorrectCount on record, and
\* every question of the session has its attempt.
ScoreAgrees ==
  \A s \in DOMAIN quiz :
    (quiz[s].status = "completed" /\ call = EmptyTable /\ faults = 0) =>
      /\ study[s].correct = Score(s)
      /\ Len(study[s].attempts) = study[s].count

\* Every session that is started ends up completed for good, whatever
\* updates the terminals that answer it overwrite and however the commands
\* that answered it died, as long as someone goes on answering.
EverySessionCompletes ==
  \A s \in Sessions :
    (s \in DOMAIN quiz) ~> [](s \in DOMAIN quiz /\ quiz[s].status = "completed")
=============================================================================
