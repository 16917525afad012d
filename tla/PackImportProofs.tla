--------------------------- MODULE PackImportProofs ---------------------------
(***************************************************************************)
(* Proofs about PackImport, for any files, sizes of packs, imports and     *)
(* deaths of the command.                                                  *)
(***************************************************************************)
EXTENDS PackImport, DataProofs
-----------------------------------------------------------------------------
(* The inductive invariant.                                                *)

\* What is in the store has been validated.
PackInv == pack \in Seq(Question) /\ Valid(pack)

\* Sound: the correct answer is one of the choices.
Sound(q) == q \in Question /\ q.correct \in 0..(q.choices - 1)

SessionInv ==
  /\ asked \in Seq(Nat) /\ IsInjective(asked)
  /\ DOMAIN answers \subseteq Range(asked)
  /\ status \in {"in_progress", "completed"}
  /\ status = "completed" <=> (asked # <<>> /\ Open = {})
  /\ asked = <<>> => In("none")

\* A question is on the screen while the user types, and unless the pack has
\* been replaced it is the one that its id stands for.
LoopInv ==
  /\ command \in {"none", "next", "typing", "panicked"}
  /\ In("typing") => \E q \in Question :
                       /\ screen = <<q>> /\ Sound(q) /\ q.id \in Range(asked)
                       /\ replaced \/ Find(q.id) = {q}
  /\ ~ In("typing") => screen = Nothing
  /\ replaced \in BOOLEAN

IInv == PackInv /\ SessionInv /\ LoopInv /\ JudgedAsShown
-----------------------------------------------------------------------------
(* Packs.                                                                  *)

\* Numbering the questions of a file changes their ids and nothing else.
LEMMA ParseTyped ==
  ASSUME NEW file \in Files
  PROVE  Parse(file) \in Seq(Question)
<1>1. file.questions \in Seq(Question)
  BY ImportAssumption
<1>2. PICK qs : qs = file.questions
  OBVIOUS
<1>3. PICK numbered : numbered = [i \in DOMAIN qs |-> [qs[i] EXCEPT !.id = i]]
  OBVIOUS
<1>4. numbered \in Seq(Question)
  <2>1. DOMAIN qs = 1..Len(qs) /\ Len(qs) \in Nat /\ DOMAIN numbered = 1..Len(qs)
    BY <1>1, <1>2, <1>3
  <2>2. ASSUME NEW i \in 1..Len(qs)
        PROVE  numbered[i] \in Question
    <3>1. qs[i] \in Question /\ i \in Nat /\ numbered[i] = [qs[i] EXCEPT !.id = i]
      BY <1>1, <1>2, <1>3, <2>1
    <3>2. QED
      BY <3>1 DEF Question
  <2>3. numbered \in [1..Len(qs) -> Question]
    BY <1>3, <2>1, <2>2
  <2>4. QED
    BY <2>1, <2>3
<1>5. QED
  BY <1>1, <1>2, <1>3, <1>4 DEF Parse

\* In a pack that has been validated every question is sound, and no other
\* question has its id: looking it up finds it.
LEMMA FindsIt ==
  ASSUME PackInv, NEW id, NEW q \in Find(id)
  PROVE  Sound(q) /\ q.id = id /\ Find(q.id) = {q}
<1>1. PICK i \in DOMAIN pack : q = pack[i] /\ q.id = id
  BY DEF Find
<1>2. Sound(q)
  BY <1>1 DEF PackInv, Valid, Sound
<1>3. \A j \in DOMAIN pack : pack[j].id = id => j = i
  BY <1>1 DEF PackInv, Valid
<1>4. i \in Nat
  BY <1>1 DEF PackInv
<1>5. Find(id) = {pack[i]}
  BY <1>1, <1>3, <1>4 DEF Find
<1>6. QED
  BY <1>1, <1>2, <1>5

\* Of the questions that are not answered there is a first.
LEMMA FirstOpen ==
  ASSUME SessionInv, Open # {}
  PROVE  \E i \in Open : \A j \in Open : i <= j
<1>1. Open \in SUBSET Nat
  BY DEF SessionInv, Open
<1>2. QED
  BY <1>1, LeastElement
-----------------------------------------------------------------------------
(* The steps.                                                              *)

LEMMA ImportKeeps ==
  ASSUME IInv, NEW f \in Files, Import(f)
  PROVE  IInv'
<1>1. PackInv'
  BY ParseTyped DEF Import, PackInv, Valid
<1>2. SessionInv'
  BY DEF IInv, Import, SessionInv, Open, In, session, loop
<1>3. LoopInv'
  BY DEF IInv, Import, LoopInv, In, session, loop
<1>4. JudgedAsShown'
  BY DEF Import, JudgedAsShown
<1>5. QED
  BY <1>1, <1>2, <1>3, <1>4 DEF IInv

LEMMA StartKeeps ==
  ASSUME IInv, StartQuiz
  PROVE  IInv'
<1>1. /\ asked = <<>> /\ In("none") /\ pack # <<>>
      /\ command' = "next"
      /\ UNCHANGED <<pack, answers, status, screen, verdict, replaced>>
  BY DEF StartQuiz
<1>2. PICK p \in [DOMAIN pack -> DOMAIN pack] :
        /\ IsInjective(p)
        /\ asked' = [i \in DOMAIN pack |-> pack[p[i]].id]
  BY DEF StartQuiz
<1>3. pack \in Seq(Question) /\ DOMAIN pack = 1..Len(pack) /\ Len(pack) \in Nat
  BY DEF IInv, PackInv
<1>4. asked' \in Seq(Nat) /\ Len(asked') = Len(pack)
  <2>1. ASSUME NEW i \in DOMAIN pack
        PROVE  pack[p[i]].id \in Nat
    <3>1. p[i] \in 1..Len(pack)
      BY <1>2, <1>3
    <3>2. pack[p[i]] \in Question
      BY <1>3, <3>1
    <3>3. QED
      BY <3>2 DEF Question
  <2>2. asked' \in [1..Len(pack) -> Nat]
    BY <1>2, <1>3, <2>1
  <2>3. QED
    BY <1>3, <2>2
<1>5. IsInjective(asked')
  <2>1. SUFFICES ASSUME NEW i \in DOMAIN pack, NEW j \in DOMAIN pack, asked'[i] = asked'[j]
                 PROVE  i = j
    BY <1>2 DEF IsInjective
  <2>2. p[i] \in DOMAIN pack /\ p[j] \in DOMAIN pack /\ pack[p[i]].id = pack[p[j]].id
    BY <1>2, <2>1
  <2>3. p[i] = p[j]
    BY <2>2 DEF IInv, PackInv, Valid
  <2>4. QED
    BY <1>2, <2>3 DEF IsInjective
<1>6. DOMAIN answers = {} /\ status = "in_progress"
  <2>1. Range(asked) = {}
    BY <1>1 DEF Range
  <2>2. status # "completed"
    BY <1>1 DEF IInv, SessionInv
  <2>3. QED
    BY <2>1, <2>2 DEF IInv, SessionInv
<1>7. Len(pack) # 0
  BY <1>1, <1>3
<1>8. SessionInv'
  <2>1. asked' # <<>> /\ 1 \in DOMAIN asked'
    BY <1>3, <1>4, <1>7
  <2>2. Open' # {}
    BY <1>1, <1>6, <2>1 DEF Open
  <2>3. QED
    BY <1>1, <1>4, <1>5, <1>6, <2>1, <2>2 DEF SessionInv
<1>9. PackInv'
  BY <1>1 DEF IInv, PackInv, Valid
<1>10. LoopInv'
  BY <1>1 DEF IInv, LoopInv, In
<1>11. JudgedAsShown'
  BY <1>1 DEF IInv, JudgedAsShown, In
<1>12. QED
  BY <1>8, <1>9, <1>10, <1>11 DEF IInv

LEMMA NextQuestionKeeps ==
  ASSUME IInv, NextQuestion
  PROVE  IInv'
<1>1. /\ In("next") /\ replaced' = FALSE /\ verdict' = Nothing
      /\ UNCHANGED <<pack, asked, answers, status>>
  BY DEF NextQuestion, session
<1>2. asked # <<>> /\ screen = Nothing
  BY <1>1 DEF IInv, SessionInv, LoopInv, In
<1>3. \/ command' = "none" /\ screen' = screen
      \/ /\ command' = "typing"
         /\ \E i \in Open : \E q \in Find(asked[i]) : screen' = <<q>>
  <2>1. CASE Open = {} \/ status # "in_progress"
    BY <2>1 DEF NextQuestion
  <2>2. CASE ~ (Open = {} \/ status # "in_progress")
    <3>1. PICK i : i = CHOOSE k \in Open : \A j \in Open : k <= j
      OBVIOUS
    <3>2. i \in Open
      BY <2>2, <3>1, FirstOpen DEF IInv
    <3>3. CASE Find(asked[i]) = {}
      BY <2>2, <3>1, <3>3 DEF NextQuestion
    <3>4. CASE Find(asked[i]) # {}
      BY <2>2, <3>1, <3>2, <3>4 DEF NextQuestion
    <3>5. QED
      BY <3>3, <3>4
  <2>3. QED
    BY <2>1, <2>2
<1>4. PackInv'
  BY <1>1 DEF IInv, PackInv, Valid
<1>5. SessionInv'
  BY <1>1, <1>2 DEF IInv, SessionInv, Open
<1>6. LoopInv'
  <2>1. CASE command' = "none" /\ screen' = screen
    BY <1>1, <1>2, <2>1 DEF LoopInv, In
  <2>2. CASE /\ command' = "typing"
             /\ \E i \in Open : \E q \in Find(asked[i]) : screen' = <<q>>
    <3>1. PICK i \in Open : \E q \in Find(asked[i]) : screen' = <<q>>
      BY <2>2
    <3>2. PICK q \in Find(asked[i]) : screen' = <<q>>
      BY <3>1
    <3>3. Sound(q) /\ q.id = asked[i] /\ Find(q.id) = {q}
      BY <3>2, FindsIt DEF IInv
    <3>4. asked[i] \in Range(asked)
      BY <3>1 DEF Open, Range
    <3>5. Find(q.id)' = {q}
      BY <1>1, <3>3 DEF Find
    <3>6. QED
      BY <1>1, <2>2, <3>2, <3>3, <3>4, <3>5 DEF LoopInv, In, Sound
  <2>3. QED
    BY <1>3, <2>1, <2>2
<1>7. JudgedAsShown'
  BY <1>1, <1>3 DEF JudgedAsShown, In
<1>8. QED
  BY <1>4, <1>5, <1>6, <1>7 DEF IInv

LEMMA EnterAnswerKeeps ==
  ASSUME IInv, NEW a \in Indices, EnterAnswer(a)
  PROVE  IInv'
<1>1. /\ In("typing") /\ screen' = Nothing
      /\ UNCHANGED <<pack, asked, replaced>>
  BY DEF EnterAnswer
<1>2. PICK shown \in Question :
        /\ screen = <<shown>> /\ Sound(shown) /\ shown.id \in Range(asked)
        /\ replaced \/ Find(shown.id) = {shown}
  BY <1>1 DEF IInv, LoopInv
<1>3. \/ /\ Find(shown.id) = {} /\ command' = "none"
         /\ UNCHANGED <<answers, status, verdict>>
      \/ \E q \in Find(shown.id) :
           /\ answers' = Put(answers, shown.id, a)
           /\ status' = IF Cardinality(DOMAIN answers') >= Len(asked)
                          THEN "completed" ELSE status
           /\ verdict' = <<shown, q>>
           /\ command' = IF a # q.correct /\ q.correct >= shown.choices
                           THEN "panicked" ELSE "next"
  <2>1. Head(screen) = shown
    BY <1>2
  <2>2. QED
    BY <2>1 DEF EnterAnswer
<1>4. asked # <<>> /\ command' # "typing"
  BY <1>1, <1>3 DEF IInv, SessionInv, In
<1>5. PackInv'
  BY <1>1 DEF IInv, PackInv, Valid
<1>6. SessionInv'
  <2>1. CASE UNCHANGED <<answers, status>>
    BY <1>1, <1>4, <2>1 DEF IInv, SessionInv, Open
  <2>2. CASE /\ answers' = Put(answers, shown.id, a)
             /\ status' = IF Cardinality(DOMAIN answers') >= Len(asked)
                            THEN "completed" ELSE status
    <3>1. DOMAIN answers' = DOMAIN answers \cup {shown.id}
      BY <2>2 DEF Put
    <3>2. DOMAIN answers' \subseteq Range(asked)
      BY <1>2, <3>1 DEF IInv, SessionInv
    <3>3. Cardinality(DOMAIN answers') >= Len(asked) <=>
            \A k \in 1..Len(asked) : asked[k] \in DOMAIN answers'
      <4>1. asked \in Seq(Nat) /\ IsInjective(asked)
        BY DEF IInv, SessionInv
      <4>2. QED
        BY <3>2, <4>1, CountingDistinct
    <3>4. DOMAIN asked = 1..Len(asked)
      BY DEF IInv, SessionInv
    <3>5. Open' = {} <=> \A k \in 1..Len(asked) : asked[k] \in DOMAIN answers'
      BY <1>1, <3>4 DEF Open
    <3>6. Open = {} => Open' = {}
      BY <1>1, <3>1 DEF Open
    <3>7. status' = "completed" <=> Open' = {}
      BY <2>2, <3>3, <3>5, <3>6 DEF IInv, SessionInv
    <3>8. status' \in {"in_progress", "completed"}
      BY <2>2 DEF IInv, SessionInv
    <3>9. QED
      BY <1>1, <1>4, <3>2, <3>7, <3>8 DEF IInv, SessionInv
  <2>3. QED
    BY <1>3, <2>1, <2>2
<1>7. LoopInv'
  BY <1>1, <1>3, <1>4 DEF IInv, LoopInv, In
<1>8. JudgedAsShown'
  <2>1. CASE replaced
    BY <1>1, <2>1 DEF JudgedAsShown
  <2>2. CASE ~ replaced
    <3>1. Find(shown.id) = {shown}
      BY <1>2, <2>2
    <3>2. verdict' = <<shown, shown>>
      BY <1>3, <3>1
    <3>3. ~ (shown.correct >= shown.choices)
      BY <1>2 DEF Sound, Question
    <3>4. command' = "next"
      BY <1>3, <3>1, <3>3
    <3>5. QED
      BY <3>2, <3>4 DEF JudgedAsShown, In
  <2>3. QED
    BY <2>1, <2>2
<1>9. QED
  BY <1>5, <1>6, <1>7, <1>8 DEF IInv

LEMMA ResumeOrDieKeeps ==
  ASSUME IInv, RunQuizResume \/ Die
  PROVE  IInv'
<1>1. UNCHANGED <<pack, asked, answers, status, verdict, replaced>>
  BY DEF RunQuizResume, Die, session
<1>2. /\ command' = "next" \/ command' = "none"
      /\ screen' = Nothing
      /\ asked # <<>>
  <2>1. CASE RunQuizResume
    BY <2>1 DEF RunQuizResume, IInv, LoopInv, In
  <2>2. CASE Die
    BY <2>2 DEF Die, IInv, SessionInv, In
  <2>3. QED
    BY <2>1, <2>2
<1>3. PackInv'
  BY <1>1 DEF IInv, PackInv, Valid
<1>4. SessionInv'
  BY <1>1, <1>2 DEF IInv, SessionInv, Open
<1>5. LoopInv'
  BY <1>1, <1>2 DEF IInv, LoopInv, In
<1>6. JudgedAsShown'
  BY <1>1, <1>2 DEF IInv, JudgedAsShown, In
<1>7. QED
  BY <1>3, <1>4, <1>5, <1>6 DEF IInv

LEMMA Stutter ==
  ASSUME IInv, UNCHANGED vars
  PROVE  IInv'
<1>1. PackInv'
  BY DEF IInv, PackInv, Valid, vars
<1>2. SessionInv'
  BY DEF IInv, SessionInv, Open, In, vars, session, loop
<1>3. LoopInv'
  BY DEF IInv, LoopInv, In, Find, vars, session, loop
<1>4. JudgedAsShown'
  BY DEF IInv, JudgedAsShown, In, vars, loop
<1>5. QED
  BY <1>1, <1>2, <1>3, <1>4 DEF IInv

LEMMA Inductive == Spec => []IInv
<1>1. Init => IInv
  <2> SUFFICES ASSUME Init PROVE IInv
    OBVIOUS
  <2>1. PackInv
    BY DEF Init, PackInv, Valid
  <2>2. asked = <<>> /\ DOMAIN answers = {} /\ status = "in_progress" /\ In("none")
    BY DEF Init, EmptyTable, In
  <2>3. SessionInv
    BY <2>2 DEF SessionInv, IsInjective
  <2>4. LoopInv /\ JudgedAsShown
    BY DEF Init, LoopInv, JudgedAsShown, In, Nothing
  <2>5. QED
    BY <2>1, <2>3, <2>4 DEF IInv
<1>2. IInv /\ [Next]_vars => IInv'
  BY ImportKeeps, StartKeeps, NextQuestionKeeps, EnterAnswerKeeps, ResumeOrDieKeeps, Stutter
     DEF Next
<1>3. QED
  BY <1>1, <1>2, PTL DEF Spec
-----------------------------------------------------------------------------
(* The theorems.                                                           *)

\* The ids of a pack and of a session are told apart, only questions of the
\* session are answered, and it is completed exactly when all of them are
\* (validate.go; engine.go, SubmitAnswer).
THEOREM ImportTypes == Spec => []TypeOK
<1>1. IInv => TypeOK
  <2> SUFFICES ASSUME IInv PROVE TypeOK
    OBVIOUS
  <2>1. IsInjective([i \in DOMAIN pack |-> pack[i].id])
    BY DEF IInv, PackInv, Valid, IsInjective
  <2>2. In("typing") <=> screen # Nothing
    BY DEF IInv, LoopInv, Nothing
  <2>3. QED
    BY <2>1, <2>2 DEF IInv, SessionInv, LoopInv, TypeOK
<1>2. QED
  BY Inductive, <1>1, PTL

\* Unless the pack is imported while a question is on the screen, the answer is
\* judged by the key of the question the user has read, and the command does not
\* die of it (quiz.go, runInteractiveQuiz; engine.go, SubmitAnswer).
THEOREM AnswersJudgedAsShown == Spec => []JudgedAsShown
<1>1. IInv => JudgedAsShown
  BY DEF IInv
<1>2. QED
  BY Inductive, <1>1, PTL
=============================================================================
