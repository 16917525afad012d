--------------------------- MODULE ReviewHistory ---------------------------
(***************************************************************************)
(* The life of one row of question_states: what CalculateNextReview        *)
(* (internal/core/repetition.go) makes of a question over a long history   *)
(* of reviews, when the reviews follow one another.  A review comes from   *)
(* the engine (updateQuestionState, at any time: practice mode also asks   *)
(* questions that are not due) or from the scheduler, which records a skip *)
(* as a wrong answer (markSkipped).                                        *)
(***************************************************************************)
EXTENDS SM2, Sequences

CONSTANTS
  MaxReviews,       \* bound: reviews of the question
  MaxNow            \* bound: clock, in hundredths of a day

ASSUME BoundAssumption == MaxReviews \in Nat /\ MaxNow \in Nat

VARIABLES
  memory,           \* the row, or what stands for it before the first review
  due,              \* NextReviewAt
  reviewed,         \* LastReviewedAt
  now,              \* the clock
  history           \* history: the answers given, TRUE for a correct one

vars == <<memory, due, reviewed, now, history>>

Seen == history # <<>>

Init ==
  /\ memory = Fresh
  /\ due = 0
  /\ reviewed = 0
  /\ now = 0
  /\ history = <<>>

Review(correct) ==
  /\ Len(history) < MaxReviews
  /\ memory' = CalculateNextReview(memory, correct)
  /\ due' \in NextReviewAt(memory', now)
  /\ reviewed' = now
  /\ history' = Append(history, correct)
  /\ UNCHANGED now

\* Time passes between reviews, less or more than the interval.
Wait ==
  /\ now < MaxNow
  /\ \E t \in {now + DayUnit, due} :
       /\ t \in now + 1 .. MaxNow
       /\ now' = t
  /\ UNCHANGED <<memory, due, reviewed, history>>

Next == (\E correct \in BOOLEAN : Review(correct)) \/ Wait

Spec == Init /\ [][Next]_vars
-----------------------------------------------------------------------------
(* Properties.                                                             *)

TypeOK ==
  /\ memory \in Memory
  /\ due \in Int
  /\ reviewed \in Nat
  /\ now \in Nat
  /\ history \in Seq(BOOLEAN)

\* The row tells the history it was computed from: RepetitionCount is the
\* length of the run of correct answers the history ends in.
RepsCountTheRun ==
  LET n == Len(history)
  IN  /\ memory.reps <= n
      /\ \A i \in n - memory.reps + 1 .. n : history[i]
      /\ memory.reps < n => ~ history[n - memory.reps]

\* The ladder of intervals: one day after a wrong and after a first correct
\* answer, at least six days from the second one on, and an ease factor that
\* never falls below its floor, so that the ladder only goes up.
Ladder ==
  /\ memory.ease >= EaseFactor
  /\ Seen => memory.interval >= IntervalFirst
  /\ (Seen /\ memory.reps <= 1) => memory.interval = IntervalFirst
  /\ memory.reps >= 2 => memory.interval >= IntervalSecond

\* A correct answer never brings the next review forward, however early the
\* question was asked, as long as the interval is one a time.Duration holds.
CorrectNeverBringsForward ==
  [][\A correct \in BOOLEAN :
       (history' = Append(history, correct) /\ correct /\ Seen
          /\ memory'.interval <= MaxDuration)
         => memory'.interval >= memory.interval /\ due' >= due]_vars
=============================================================================
