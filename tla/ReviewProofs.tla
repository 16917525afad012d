---------------------------- MODULE ReviewProofs ----------------------------
(***************************************************************************)
(* Proofs about ReviewHistory, for histories of any length.                *)
(***************************************************************************)
EXTENDS ReviewHistory, TLAPS
-----------------------------------------------------------------------------
(* Arithmetic.                                                             *)

\* Multiplying by an ease factor of at least 1.3, truncated to hundredths of
\* a day, does not make an interval shorter.
LEMMA Growth ==
  ASSUME NEW i \in Nat, NEW e \in Nat, e >= EaseFactor
  PROVE  (i * e) \div 100 \in Int /\ (i * e) \div 100 >= i
<1>1. PICK d \in Nat : e = 100 + d
  <2>1. e - 100 \in Nat /\ e = 100 + (e - 100)
    BY DEF EaseFactor
  <2> QED  BY <2>1
<1>2. i * d \in Nat
  OBVIOUS
<1>3. i * e = 100 * i + i * d
  BY <1>1
<1>4. \A p \in Nat : (100 * i + p) \div 100 \in Int /\ (100 * i + p) \div 100 >= i
  OBVIOUS
<1> QED  BY <1>2, <1>3, <1>4

\* The units and constants of SM2 as numbers.
LEMMA Numbers ==
  /\ EaseFactor = 130 /\ EaseInitial = 250 /\ EaseIncrement = 10 /\ EaseDecrement = 32
  /\ IntervalFirst = 100 /\ IntervalSecond = 600
  /\ MaxDuration \in Nat
BY DEF EaseFactor, EaseInitial, EaseIncrement, EaseDecrement, IntervalFirst,
       IntervalSecond, DayUnit, MaxDuration
-----------------------------------------------------------------------------
(* The inductive invariant.                                                *)

\* A row stands for its history, its ladder is in order, and as long as the
\* interval is one a time.Duration holds, the next review is an interval
\* after the last.
DueInRange ==
  (Seen /\ memory.interval <= MaxDuration) => due = reviewed + memory.interval

IInv ==
  /\ TypeOK
  /\ RepsCountTheRun
  /\ Ladder
  /\ DueInRange
  /\ reviewed <= now

\* A memory that has not been reviewed yet counts no correct answers.
LEMMA UnseenCountsNothing ==
  ASSUME IInv, ~ Seen
  PROVE  memory.reps = 0
BY DEF IInv, TypeOK, RepsCountTheRun, Seen, Memory

\* What a correct answer makes of the row.
LEMMA CorrectAnswer ==
  ASSUME IInv
  PROVE  LET m == AfterCorrect(memory)
         IN  /\ m \in Memory
             /\ m.reps = memory.reps + 1
             /\ m.ease >= EaseFactor
             /\ m.interval >= IntervalFirst
             /\ m.reps <= 1 => m.interval = IntervalFirst
             /\ m.reps >= 2 => m.interval >= IntervalSecond
             /\ Seen => m.interval >= memory.interval
<1> DEFINE m == AfterCorrect(memory)
<1>1. /\ memory.ease \in Int /\ memory.interval \in Int /\ memory.reps \in Nat
      /\ memory.ease >= 130
      /\ Seen => memory.interval >= 100
      /\ (Seen /\ memory.reps <= 1) => memory.interval = 100
      /\ memory.reps >= 2 => memory.interval >= 600
      /\ ~ Seen => memory.reps = 0
  BY Numbers, UnseenCountsNothing DEF IInv, TypeOK, Ladder, Memory
<1>2. m.reps = memory.reps + 1 /\ m.last = "correct"
  BY DEF AfterCorrect
<1>3. m.ease \in Int /\ m.ease >= 130
  BY <1>1, Numbers DEF AfterCorrect
<1>4. CASE memory.reps = 0
  <2>1. m.interval = 100
    BY <1>1, <1>4, Numbers DEF AfterCorrect
  <2>2. m \in Memory
    BY <1>1, <1>2, <1>3, <2>1 DEF Memory, AnswerResult, AfterCorrect
  <2> QED  BY <1>1, <1>2, <1>3, <1>4, <2>1, <2>2, Numbers
<1>5. CASE memory.reps = 1
  <2>1. m.interval = 600
    BY <1>1, <1>5, Numbers DEF AfterCorrect
  <2>2. m \in Memory
    BY <1>1, <1>2, <1>3, <2>1 DEF Memory, AnswerResult, AfterCorrect
  <2> QED  BY <1>1, <1>2, <1>3, <1>5, <2>1, <2>2, Numbers
<1>6. CASE memory.reps >= 2
  <2>1. m.interval = (memory.interval * memory.ease) \div 100
    BY <1>1, <1>6 DEF AfterCorrect
  <2>2. m.interval \in Int /\ m.interval >= memory.interval
    BY <1>1, <1>6, <2>1, Growth, Numbers
  <2>3. m \in Memory
    BY <1>1, <1>2, <1>3, <2>2 DEF Memory, AnswerResult, AfterCorrect
  <2> QED  BY <1>1, <1>2, <1>3, <1>6, <2>2, <2>3, Numbers
<1> QED  BY <1>1, <1>4, <1>5, <1>6

\* What a wrong answer makes of the row.
LEMMA WrongAnswer ==
  ASSUME IInv
  PROVE  LET m == AfterWrong(memory)
         IN  /\ m \in Memory
             /\ m.reps = 0
             /\ m.ease >= EaseFactor
             /\ m.interval = IntervalFirst
<1>1. memory.ease \in Int
  BY DEF IInv, TypeOK, Memory
<1>2. LoweredEase(memory) \in Int /\ LoweredEase(memory) >= 130
  BY <1>1, Numbers DEF LoweredEase
<1> QED
  BY <1>2, Numbers DEF AfterWrong, AfterLapse, Memory, AnswerResult

\* The next review is a time, and an interval from now while that fits.
LEMMA DueTime ==
  ASSUME NEW m \in Memory, NEW t \in Nat, NEW d \in NextReviewAt(m, t)
  PROVE  d \in Int /\ (m.interval <= MaxDuration => d = t + m.interval)
BY Numbers DEF NextReviewAt, Memory
-----------------------------------------------------------------------------
(* The steps.                                                              *)

\* The invariant holds of a question that has not been seen.
LEMMA InitInvariant == Init => IInv
<1> SUFFICES ASSUME Init PROVE IInv
  OBVIOUS
<1>1. memory = [ease |-> 250, interval |-> 0, reps |-> 0, last |-> "none"]
  BY Numbers DEF Init, Fresh
<1>2. TypeOK
  BY <1>1 DEF Init, TypeOK, Memory, AnswerResult
<1>3. history = <<>> /\ Len(history) = 0 /\ ~ Seen
  BY DEF Init, Seen
<1>4. RepsCountTheRun
  BY <1>1, <1>3 DEF RepsCountTheRun
<1>5. Ladder
  BY <1>1, <1>3, Numbers DEF Ladder
<1>6. DueInRange /\ reviewed <= now
  BY <1>3 DEF Init, DueInRange
<1> QED  BY <1>2, <1>4, <1>5, <1>6 DEF IInv

\* The passing of time keeps the invariant.
LEMMA WaitStep ==
  ASSUME IInv, Wait
  PROVE  IInv'
<1>1. now' \in Nat /\ now' > now
  BY DEF Wait, IInv, TypeOK, BoundAssumption
<1>2. memory' = memory /\ due' = due /\ reviewed' = reviewed /\ history' = history
  BY DEF Wait
<1>3. TypeOK' /\ RepsCountTheRun' /\ Ladder' /\ DueInRange'
  BY <1>1, <1>2 DEF IInv, TypeOK, RepsCountTheRun, Ladder, DueInRange, Seen
<1>4. (reviewed <= now)'
  BY <1>1, <1>2 DEF IInv, TypeOK
<1> QED  BY <1>3, <1>4 DEF IInv

\* A review keeps the invariant.
LEMMA ReviewStep ==
  ASSUME IInv, NEW correct \in BOOLEAN, Review(correct)
  PROVE  IInv'
<1> DEFINE n == Len(history)
<1>1. /\ memory \in Memory /\ now \in Nat /\ history \in Seq(BOOLEAN) /\ n \in Nat
      /\ memory.reps \in Nat
  BY DEF IInv, TypeOK, Memory
<1>2. /\ memory' = CalculateNextReview(memory, correct)
      /\ due' \in NextReviewAt(memory', now)
      /\ reviewed' = now /\ now' = now
      /\ history' = Append(history, correct)
  BY DEF Review
<1>3. /\ memory' \in Memory
      /\ memory'.ease >= EaseFactor
      /\ memory'.interval >= IntervalFirst
      /\ memory'.reps <= 1 => memory'.interval = IntervalFirst
      /\ memory'.reps >= 2 => memory'.interval >= IntervalSecond
      /\ memory'.reps = IF correct THEN memory.reps + 1 ELSE 0
  <2>1. CASE correct
    BY <1>2, <2>1, CorrectAnswer DEF CalculateNextReview
  <2>2. CASE ~ correct
    BY <1>2, <2>2, WrongAnswer, Numbers DEF CalculateNextReview
  <2> QED  BY <2>1, <2>2
<1>4. /\ history' \in Seq(BOOLEAN)
      /\ Len(history') = n + 1
      /\ \A i \in 1..n : history'[i] = history[i]
      /\ history'[n + 1] = correct
      /\ Seen'
  BY <1>1, <1>2 DEF Seen
<1>5. TypeOK'
  BY <1>1, <1>2, <1>3, <1>4, DueTime DEF TypeOK
<1>6. RepsCountTheRun'
  <2>1. /\ memory.reps <= n
        /\ \A i \in n - memory.reps + 1 .. n : history[i]
        /\ memory.reps < n => ~ history[n - memory.reps]
    BY DEF IInv, RepsCountTheRun
  <2>2. CASE correct
    <3>1. memory'.reps = memory.reps + 1
      BY <1>3, <2>2
    <3>2. Len(history') = n + 1 /\ memory'.reps <= Len(history')
      BY <1>1, <1>4, <2>1, <3>1
    <3>3. \A i \in Len(history') - memory'.reps + 1 .. Len(history') : history'[i]
      <4> SUFFICES ASSUME NEW i \in Len(history') - memory'.reps + 1 .. Len(history')
                   PROVE  history'[i]
        OBVIOUS
      <4>1. i \in n - memory.reps + 1 .. n + 1
        BY <1>1, <3>1, <3>2
      <4>2. CASE i = n + 1
        BY <1>4, <2>2, <4>2
      <4>3. CASE i # n + 1
        <5>1. i \in n - memory.reps + 1 .. n /\ i \in 1 .. n
          BY <1>1, <2>1, <4>1, <4>3
        <5>2. history'[i] = history[i]
          BY <1>4, <5>1
        <5>3. history[i]
          BY <2>1, <5>1
        <5> QED  BY <5>2, <5>3
      <4> QED  BY <4>2, <4>3
    <3>4. ASSUME memory'.reps < Len(history')
          PROVE  ~ history'[Len(history') - memory'.reps]
      <4>1. memory.reps < n /\ Len(history') - memory'.reps = n - memory.reps
        BY <1>1, <3>1, <3>2, <3>4
      <4> QED  BY <1>1, <1>4, <2>1, <4>1
    <3> QED  BY <3>2, <3>3, <3>4 DEF RepsCountTheRun
  <2>3. CASE ~ correct
    <3>1. memory'.reps = 0
      BY <1>3, <2>3
    <3> QED  BY <1>1, <1>4, <2>3, <3>1 DEF RepsCountTheRun
  <2> QED  BY <2>2, <2>3
<1>7. Ladder'
  BY <1>3 DEF Ladder
<1>8. DueInRange' /\ (reviewed <= now)'
  BY <1>1, <1>2, <1>3, DueTime DEF DueInRange
<1> QED  BY <1>5, <1>6, <1>7, <1>8 DEF IInv

\* The invariant is inductive.
LEMMA StepInvariant == IInv /\ [Next]_vars => IInv'
<1> SUFFICES ASSUME IInv, [Next]_vars PROVE IInv'
  OBVIOUS
<1>1. CASE \E correct \in BOOLEAN : Review(correct)
  BY <1>1, ReviewStep
<1>2. CASE Wait
  BY <1>2, WaitStep
<1>3. CASE UNCHANGED vars
  BY <1>3 DEF IInv, TypeOK, RepsCountTheRun, Ladder, DueInRange, Seen, vars
<1> QED  BY <1>1, <1>2, <1>3 DEF Next
-----------------------------------------------------------------------------
(* The theorems.                                                           *)

\* The inductive invariant holds throughout (repetition.go,
\* CalculateNextReview).
THEOREM Invariance == Spec => []IInv
<1>1. Init => IInv
  BY InitInvariant
<1>2. IInv /\ [Next]_vars => IInv'
  BY StepInvariant
<1> QED  BY <1>1, <1>2, PTL DEF Spec

\* The row has its type after any history of reviews (model/state.go,
\* QuestionState).
THEOREM TypeCorrect == Spec => []TypeOK
<1>1. IInv => TypeOK
  BY DEF IInv
<1> QED  BY <1>1, Invariance, PTL

\* RepetitionCount is the run of correct answers, after any history
\* (repetition.go, CalculateNextReview).
THEOREM RepsAlwaysCountTheRun == Spec => []RepsCountTheRun
<1>1. IInv => RepsCountTheRun
  BY DEF IInv
<1> QED  BY <1>1, Invariance, PTL

\* The ladder of intervals and the floor of the ease factor hold after any
\* history (repetition.go, CalculateNextReview).
THEOREM LadderHolds == Spec => []Ladder
<1>1. IInv => Ladder
  BY DEF IInv
<1> QED  BY <1>1, Invariance, PTL

\* The last element of a sequence is determined by the sequence.
LEMMA LastOfAppend ==
  ASSUME NEW S, NEW s \in Seq(S), NEW a \in S, NEW b \in S, Append(s, a) = Append(s, b)
  PROVE  a = b
<1>1. Append(s, a)[Len(s) + 1] = a /\ Append(s, b)[Len(s) + 1] = b
  OBVIOUS
<1> QED  BY <1>1

\* Appending to a sequence changes it.
LEMMA AppendChanges ==
  ASSUME NEW S, NEW s \in Seq(S), NEW a \in S
  PROVE  Append(s, a) # s
<1>1. Len(Append(s, a)) = Len(s) + 1 /\ Len(s) \in Nat
  OBVIOUS
<1> QED  BY <1>1

\* A step that records a correct answer in range puts the review off.
LEMMA CorrectStep ==
  ASSUME IInv, [Next]_vars, NEW correct \in BOOLEAN,
         history' = Append(history, correct), correct, Seen,
         memory'.interval <= MaxDuration
  PROVE  memory'.interval >= memory.interval /\ due' >= due
<1>1. history \in Seq(BOOLEAN) /\ now \in Nat /\ reviewed \in Nat /\ memory \in Memory
      /\ reviewed <= now
  BY DEF IInv, TypeOK
<1>2. PICK c \in BOOLEAN : Review(c)
  <2>1. history' # history
    BY <1>1, AppendChanges
  <2> QED  BY <2>1 DEF Next, Wait, vars
<1>3. c
  <2>1. Append(history, c) = Append(history, correct)
    BY <1>2 DEF Review
  <2>2. c = correct
    BY <1>1, <2>1, LastOfAppend
  <2> QED  BY <2>2
<1>4. memory' = AfterCorrect(memory) /\ due' \in NextReviewAt(memory', now)
  BY <1>2, <1>3 DEF Review, CalculateNextReview
<1>5. memory' \in Memory /\ memory'.interval >= memory.interval
  BY <1>4, CorrectAnswer
<1>6. due' = now + memory'.interval
  BY <1>1, <1>4, <1>5, DueTime
<1>7. due = reviewed + memory.interval
  BY <1>1, <1>5, Numbers DEF IInv, DueInRange, Memory
<1> QED  BY <1>1, <1>5, <1>6, <1>7 DEF Memory

\* A correct answer never brings the next review forward, after any history
\* whose interval a time.Duration holds (repetition.go, CalculateNextReview).
THEOREM CorrectPutsOff == Spec => CorrectNeverBringsForward
<1>1. IInv /\ [Next]_vars =>
        [\A correct \in BOOLEAN :
           (history' = Append(history, correct) /\ correct /\ Seen
              /\ memory'.interval <= MaxDuration)
             => memory'.interval >= memory.interval /\ due' >= due]_vars
  BY CorrectStep
<1> QED  BY <1>1, Invariance, PTL DEF Spec, CorrectNeverBringsForward
=============================================================================
