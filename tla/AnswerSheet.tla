---------------------------- MODULE AnswerSheet ----------------------------
(***************************************************************************)
(* What a quiz session promises, with every operation of the engine taking *)
(* effect in one step on the latest state of the sheet.                    *)
(*                                                                         *)
(* A sheet asks a set of questions.  Filling in an answer keeps all the    *)
(* others, and completes the sheet when it was the last one missing, even  *)
(* on a sheet that had been abandoned; an answer may be filled in again.   *)
(* Abandoning a sheet keeps its answers.                                   *)
(***************************************************************************)
CONSTANTS Sessions, Questions, Choices

VARIABLE sheet

Open(s, asked) ==
  /\ s \notin DOMAIN sheet
  /\ sheet' = [x \in DOMAIN sheet \cup {s} |->
                 IF x = s THEN [asked |-> asked, filled |-> [q \in {} |-> q],
                                status |-> "in_progress"]
                 ELSE sheet[x]]

Filled(old, q, a) ==
  LET filled == [x \in DOMAIN old.filled \cup {q} |-> IF x = q THEN a ELSE old.filled[x]]
  IN  [asked  |-> old.asked,
       filled |-> filled,
       status |-> IF DOMAIN filled = old.asked THEN "completed" ELSE old.status]

Fill(s, q, a) ==
  /\ s \in DOMAIN sheet
  /\ q \in sheet[s].asked
  /\ sheet' = [sheet EXCEPT ![s] = Filled(@, q, a)]

Abandoned(old) == [old EXCEPT !.status = "abandoned"]

Abandon(s) ==
  /\ s \in DOMAIN sheet
  /\ sheet' = [sheet EXCEPT ![s] = Abandoned(@)]

Init == sheet = [s \in {} |-> s]

Next ==
  \E s \in Sessions :
    \/ \E asked \in (SUBSET Questions) \ {{}} : Open(s, asked)
    \/ \E q \in Questions, a \in Choices : Fill(s, q, a)
    \/ Abandon(s)

Spec == Init /\ [][Next]_sheet
=============================================================================
