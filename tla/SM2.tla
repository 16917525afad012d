-------------------------------- MODULE SM2 --------------------------------
(***************************************************************************)
(* The spaced-repetition arithmetic of internal/core/repetition.go.        *)
(*                                                                         *)
(* A memory is the part of model.QuestionState that the algorithm          *)
(* computes.  Ease factors are integers in hundredths, which represents    *)
(* every value the code can produce (2.5, 1.3, steps of 0.1 and 0.32)      *)
(* exactly.  Intervals are integers in hundredths of a day; the product    *)
(* of an interval and an ease is truncated to that unit, where the code    *)
(* keeps a float64.                                                        *)
(***************************************************************************)
EXTENDS Integers

DayUnit        == 100           \* one day
EaseFactor     == 130           \* the floor the code calls easeFactor
EaseIncrement  == 10
EaseDecrement  == 32
EaseInitial    == 250
IntervalFirst  == 1 * DayUnit
IntervalSecond == 6 * DayUnit

\* The longest interval that survives the conversion
\* time.Duration(days * float64(24*time.Hour)): 2^63 - 1 nanoseconds is
\* 106751.99 days.
MaxDuration == 10675199

AnswerResult == {"none", "correct", "wrong"}

Memory == [ease : Int, interval : Int, reps : Nat, last : AnswerResult]

\* What a caller builds when the store has no row for the question.
Fresh == [ease |-> EaseInitial, interval |-> 0, reps |-> 0, last |-> "none"]

\* Mutant of AfterCorrect: the ladder is climbed with the old count.
AfterCorrectLate(m) ==
  [ease     |-> IF m.reps = 0 THEN m.ease ELSE m.ease + EaseIncrement,
   interval |-> CASE m.reps = 1 -> IntervalFirst
                  [] m.reps = 2 -> IntervalSecond
                  [] OTHER      -> (m.interval * m.ease) \div 100,
   reps     |-> m.reps + 1,
   last     |-> "correct"]

AfterCorrect(m) ==
  LET reps == m.reps + 1
  IN  [ease     |-> IF reps = 1 THEN m.ease ELSE m.ease + EaseIncrement,
       interval |-> CASE reps = 1 -> IntervalFirst
                      [] reps = 2 -> IntervalSecond
                      [] OTHER    -> (m.interval * m.ease) \div 100,
       reps     |-> reps,
       last     |-> "correct"]

AfterLapse(ease, reps) ==
  [ease |-> ease, interval |-> IntervalFirst, reps |-> reps, last |-> "wrong"]

LoweredEase(m) ==
  LET lowered == m.ease - EaseDecrement
  IN  IF lowered < EaseFactor THEN EaseFactor ELSE lowered

\* Mutants of AfterWrong: the count is not reset, the ease factor has no
\* floor.
AfterWrongKeepsCount(m) == AfterLapse(LoweredEase(m), m.reps)

AfterWrongNoFloor(m) == AfterLapse(m.ease - EaseDecrement, 0)

AfterWrong(m) == AfterLapse(LoweredEase(m), 0)

CalculateNextReview(m, correct) ==
  IF correct THEN AfterCorrect(m) ELSE AfterWrong(m)

\* The values now.Add(time.Duration(interval)) can take.  Converting a
\* float64 beyond the range of int64 is implementation-defined in Go: amd64
\* yields the most negative duration, arm64 the largest one.
NextReviewAt(m, now) ==
  IF m.interval <= MaxDuration
    THEN {now + m.interval}
    ELSE {now - MaxDuration, now + MaxDuration}
=============================================================================
