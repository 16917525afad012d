---------------------------- MODULE MCQuizEngine ----------------------------
(* Instances of QuizEngine for TLC. *)
EXTENDS QuizEngine, TLC

CONSTANTS c1, c2, q1, q2, t1, t2

OneTopic == q1 :> t1 @@ q2 :> t1

FirstChoice == [q \in Questions |-> 0]
=============================================================================
