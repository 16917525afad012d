-------------------------------- MODULE Lists --------------------------------
(***************************************************************************)
(* The loops of the program that filter a slice in place or into a new one *)
(* (updated = append(updated, p)), as a function of how far the loop is.   *)
(***************************************************************************)
EXTENDS Integers, Sequences

\* The elements of s that are in S, in the order they have in s.
Keep(s, S) ==
  LET kept[i \in 0..Len(s)] ==
        IF i = 0 THEN <<>>
        ELSE IF s[i] \in S THEN Append(kept[i - 1], s[i]) ELSE kept[i - 1]
  IN  kept[Len(s)]

\* No element occurs twice.
Distinct(s) == \A i, j \in DOMAIN s : s[i] = s[j] => i = j

Elements(s) == {s[i] : i \in DOMAIN s}
=============================================================================
