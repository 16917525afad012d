---------------------------- MODULE MCScheduler ----------------------------
(* Instances of Scheduler for TLC. *)
EXTENDS Scheduler, TLC

CONSTANTS p1, p2, missing, q1, q2, q3

SameIds == p1 :> {q1} @@ p2 :> {q1}

SmallPacks == p1 :> {q1} @@ p2 :> {q2}

ThreeQuestions == p1 :> {q1, q2} @@ p2 :> {q3}
=============================================================================
