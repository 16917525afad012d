----------------------------- MODULE MCPackImport -----------------------------
(* Instances of PackImport for TLC. *)
EXTENDS PackImport

Q(id, text, choices, correct) ==
  [id |-> id, text |-> text, choices |-> choices, correct |-> correct, complete |-> TRUE]

File(format, questions) == [format |-> format, questions |-> questions]

First == File("yaml", <<Q(2, "a", 2, 0), Q(1, "b", 2, 1)>>)

\* A question is gone, the other has more choices.
Second == File("yaml", <<Q(1, "b", 3, 2)>>)

\* Ids by position, so that "b" and "a" change places with those of First.
Third == File("markdown", <<Q(0, "a", 2, 0), Q(0, "b", 2, 1)>>)

\* What Validate refuses.
Refused ==
  {File("json", <<Q(1, "a", 2, 0), Q(1, "b", 2, 1)>>),
   File("json", <<Q(1, "a", 2, 2)>>),
   File("markdown", <<[Q(0, "a", 2, 0) EXCEPT !.complete = FALSE]>>)}

SomeFiles == {First, Second, Third} \cup Refused
=============================================================================
