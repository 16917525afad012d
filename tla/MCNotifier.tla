------------------------------ MODULE MCNotifier ------------------------------
(* Instances of Notifier for TLC. *)
EXTENDS Notifier

Pref(packs, on, start, end) ==
  [active |-> packs, on |-> on, days |-> 1, pct |-> 50, start |-> start, end |-> end]

TwoPacks == {<<"p1", "q1">>, <<"p2", "q1">>}

\* Quiet hours over midnight, within the day, and around the clock.
Windows ==
  {Pref({"p1", "p2"}, {"inactivity", "milestone"}, 2, 1),
   Pref({"p1", "p2"}, {"streak", "readiness"}, 0, 2),
   Pref({"p2"}, {"inactivity", "weak"}, 0, Unset)}
=============================================================================
