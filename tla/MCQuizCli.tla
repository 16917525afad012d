----------------------------- MODULE MCQuizCli -----------------------------
(* Instances of QuizCli for TLC. *)
EXTENDS QuizCli, TLC

CONSTANTS c1, c2, q1, q2, q3, t1, t2

OneTopic == [q \in Questions |-> t1]

FirstChoice == [q \in Questions |-> 0]

\* The user enters 0: right for q1, wrong for the others.
RightForOne == [q \in Questions |-> IF q = q1 THEN 0 ELSE 1]
=============================================================================
