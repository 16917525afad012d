---------------------------- MODULE MCPreferences ----------------------------
(* Instances of Preferences for TLC. *)
EXTENDS Preferences, TLC

CONSTANTS c1, c2, c3, p1, p2

\* One key whose values are bounded below, one bounded on both sides.
SomeDefaults == [key \in Keys |-> IF key = "max_unanswered" THEN 3 ELSE 50]

ClientSymmetry == Permutations(Clients)
=============================================================================
