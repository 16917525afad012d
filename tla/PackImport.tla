------------------------------ MODULE PackImport ------------------------------
(***************************************************************************)
(* Importing a pack (internal/cli/import_cmd.go, internal/importer), and   *)
(* what importing it again does to a session on it.  SaveQuizPack replaces *)
(* the whole pack; a session keeps the ids of its questions and looks each *)
(* of them up in the pack there is now (internal/core/engine.go,           *)
(* NextQuestion and SubmitAnswer), and so does the interactive loop        *)
(* (internal/cli/quiz.go).                                                 *)
(*                                                                         *)
(* One session and one terminal; the calls of the engine are single steps, *)
(* their details are in QuizEngine and QuizCli.  Imports happen in another *)
(* process at any time.                                                    *)
(***************************************************************************)
EXTENDS Integers, Sequences, FiniteSets, Functions, Tables

CONSTANTS
  Files,        \* files the author may import: their format and questions
  MaxImports,   \* bound: imports
  MaxDeaths     \* bound: how often the command is killed

\* A question of a file as RunImport reads it; "complete" says that no required
\* field is blank and that the topic is one of the pack.
Question == [id : Nat, text : STRING, choices : Nat, correct : Int, complete : BOOLEAN]

ASSUME ImportAssumption ==
  /\ \A f \in Files : /\ f.format \in {"markdown", "yaml", "json"}
                       /\ f.questions \in Seq(Question)
  /\ {MaxImports, MaxDeaths} \subseteq Nat

VARIABLES
  pack,         \* quiz_packs: the questions of the pack, in order
  asked,        \* QuestionIDs of the session, empty before it is started
  answers,      \* Answers of the session
  status,       \* Status of the session
  command,      \* where the quiz command stands
  screen,       \* the question on the screen, if any
  verdict,      \* history: the question shown and the one it was judged by
  replaced,     \* history: the pack was imported while that was on the screen
  imports, deaths   \* bounds

session == <<asked, answers, status>>
loop == <<command, screen, verdict>>
vars == <<pack, session, loop, replaced, imports, deaths>>
-----------------------------------------------------------------------------
(* Files and packs.                                                        *)

\* Questions of a Markdown file get their ids by position.
Parse(file) ==
  IF file.format = "markdown"
    THEN [i \in DOMAIN file.questions |-> [file.questions[i] EXCEPT !.id = i]]
    ELSE file.questions

\* Mutants of Valid: ids may occur twice, and the correct index may lie
\* beyond the choices.
ValidDuplicates(p) ==
  \A i \in DOMAIN p : p[i].complete /\ p[i].choices >= 2 /\ p[i].correct \in 0..(p[i].choices - 1)

ValidIndex(p) ==
  /\ \A i \in DOMAIN p : p[i].complete /\ p[i].choices >= 2
  /\ \A i, j \in DOMAIN p : p[i].id = p[j].id => i = j

\* Validate.
Valid(p) ==
  /\ \A i \in DOMAIN p : p[i].complete /\ p[i].choices >= 2 /\ p[i].correct \in 0..(p[i].choices - 1)
  /\ \A i, j \in DOMAIN p : p[i].id = p[j].id => i = j

IDs == {pack[i].id : i \in DOMAIN pack}

\* Mutant of Find: ids are taken for positions.
FindByPosition(id) == {pack[i] : i \in {id} \cap DOMAIN pack}

\* The loop over the questions of the pack: the first with that id.
Find(id) ==
  {pack[i] : i \in {i \in DOMAIN pack :
     pack[i].id = id /\ \A j \in DOMAIN pack : pack[j].id = id => i <= j}}

\* RunImport; a file that does not validate changes nothing.
Import(file) ==
  /\ imports < MaxImports
  /\ imports' = imports + 1
  /\ Valid(Parse(file))
  /\ pack' = Parse(file)
  /\ replaced' = TRUE
  /\ UNCHANGED <<session, loop, deaths>>
-----------------------------------------------------------------------------
(* The session.                                                            *)

Nothing == <<>>

In(place) == command = place

\* The order of the questions is random, or that of their reviews.
StartQuiz ==
  /\ asked = <<>> /\ In("none")
  /\ pack # <<>>
  /\ \E p \in {p \in [DOMAIN pack -> DOMAIN pack] : IsInjective(p)} :
       asked' = [i \in DOMAIN pack |-> pack[p[i]].id]
  /\ command' = "next"
  /\ UNCHANGED <<pack, answers, status, screen, verdict, replaced, imports, deaths>>

Open == {i \in DOMAIN asked : asked[i] \notin DOMAIN answers}

\* NextQuestion and what the loop makes of it: a question is shown, the
\* session is over, or the command ends with an error.
NextQuestion ==
  /\ In("next")
  /\ IF Open = {} \/ status # "in_progress"
       THEN command' = "none" /\ UNCHANGED screen
       ELSE LET i == CHOOSE i \in Open : \A j \in Open : i <= j
            IN  IF Find(asked[i]) = {}
                  THEN command' = "none" /\ UNCHANGED screen
                  ELSE command' = "typing" /\ \E q \in Find(asked[i]) : screen' = <<q>>
  /\ replaced' = FALSE
  /\ verdict' = Nothing
  /\ UNCHANGED <<pack, session, imports, deaths>>

\* SubmitAnswer reads the pack again.  The loop has checked the answer against
\* the choices on the screen; it shows the correct one among them when the
\* answer is wrong, and dies when there is no choice of that index.
EnterAnswer(a) ==
  /\ In("typing")
  /\ LET shown == Head(screen)
         found == Find(shown.id)
     IN  /\ a \in 0..(shown.choices - 1)
         /\ IF found = {}
              THEN command' = "none" /\ UNCHANGED <<answers, status, verdict>>
              ELSE \E q \in found :
                     /\ answers' = Put(answers, shown.id, a)
                     /\ status' = IF Cardinality(DOMAIN answers') >= Len(asked)
                                    THEN "completed" ELSE status
                     /\ verdict' = <<shown, q>>
                     /\ command' = IF a # q.correct /\ q.correct >= shown.choices
                                     THEN "panicked" ELSE "next"
  /\ screen' = Nothing
  /\ UNCHANGED <<pack, asked, replaced, imports, deaths>>

RunQuizResume ==
  /\ In("none") \/ In("panicked")
  /\ asked # <<>> /\ status = "in_progress"
  /\ command' = "next"
  /\ UNCHANGED <<pack, session, screen, verdict, replaced, imports, deaths>>

Die ==
  /\ deaths < MaxDeaths
  /\ deaths' = deaths + 1
  /\ In("next") \/ In("typing")
  /\ command' = "none"
  /\ screen' = Nothing
  /\ UNCHANGED <<pack, session, verdict, replaced, imports>>

Init ==
  /\ pack = <<>>
  /\ asked = <<>> /\ answers = EmptyTable /\ status = "in_progress"
  /\ command = "none" /\ screen = Nothing /\ verdict = Nothing
  /\ replaced = FALSE
  /\ imports = 0 /\ deaths = 0

Indices == UNION {0..(q.choices - 1) : q \in UNION {Range(f.questions) : f \in Files}}

Next ==
  \/ \E f \in Files : Import(f)
  \/ StartQuiz \/ NextQuestion \/ (\E a \in Indices : EnterAnswer(a))
  \/ RunQuizResume \/ Die

Spec == Init /\ [][Next]_vars

\* The command runs, the user answers, and resumes what was interrupted.
Fairness ==
  /\ WF_vars(NextQuestion)
  /\ SF_vars(\E a \in Indices : EnterAnswer(a))
  /\ WF_vars(RunQuizResume)

FairSpec == Spec /\ Fairness
-----------------------------------------------------------------------------
(* Properties.                                                             *)

TypeOK ==
  /\ IsInjective([i \in DOMAIN pack |-> pack[i].id])
  /\ IsInjective(asked)
  /\ DOMAIN answers \subseteq Range(asked)
  /\ status = "completed" <=> (asked # <<>> /\ Open = {})
  /\ command \in {"none", "next", "typing", "panicked"}
  /\ In("typing") <=> screen # Nothing
  /\ replaced \in BOOLEAN

\* The engine finds the question again by its id: unless the pack is imported
\* while it is on the screen, the answer is judged by the key of the question
\* the user has read, and the command does not die of it (quiz.go,
\* runInteractiveQuiz; engine.go, SubmitAnswer; validate.go).
JudgedAsShown ==
  /\ verdict # Nothing => (replaced \/ verdict[1] = verdict[2])
  /\ In("panicked") => replaced

\* Importing the pack again, even with other questions under the same ids, or
\* without some of them for a while, does not keep a session from being
\* completed as long as its questions are there again in the end
\* (import_cmd.go, RunImport; engine.go, NextQuestion).
SessionGoesOn ==
  (<>[](asked # <<>> /\ Range(asked) \subseteq IDs)) => <>(status = "completed")
=============================================================================
