------------------------------- MODULE Settings -------------------------------
(***************************************************************************)
(* What the commands on the preferences promise: each changes the row in   *)
(* one step, on its latest state, or leaves it alone.                      *)
(***************************************************************************)
EXTENDS SettingsRow

VARIABLE settings

Init == settings = DefaultRow

Apply(cmd) ==
  /\ ~ Refused(cmd, settings)
  /\ settings' = Edited(cmd, settings)

Spec == Init /\ [][\E cmd \in Command : Apply(cmd)]_settings
=============================================================================
