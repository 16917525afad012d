------------------------------ MODULE MCProcess ------------------------------
(* Instances of Process for TLC. *)
EXTENDS Process

ThreeButtons == 1..3
TwoCommands == 4..5

\* The names of what the user sends, among messages of one kind, are given in
\* the order of sending: another naming of the same behaviour.
NamedInOrder ==
  \A K \in {Buttons, Commands} : \A p, q \in K :
    (p < q /\ q \in Range(sent')) => p \in Range(sent')
=============================================================================
