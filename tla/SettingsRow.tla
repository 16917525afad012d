----------------------------- MODULE SettingsRow -----------------------------
(***************************************************************************)
(* The row of user_preferences, and what each command on it does to the    *)
(* row it has read.  A command is packs activate, packs deactivate or      *)
(* config set.  The values of the configuration are numbers: a boolean is  *)
(* 0 or 1, and so is a focus mode; any other number there stands for a     *)
(* value that does not parse.                                              *)
(***************************************************************************)
EXTENDS Lists

CONSTANTS
  Packs,      \* pack ids the user may name
  Keys,       \* keys of the configuration
  Values,     \* values the user may give
  Defaults    \* DefaultPreferences

Numbers == {"delivery_interval_min", "max_unanswered", "notify_inactivity_days"}

Toggles == {"notify_inactivity", "notify_weak_topic", "notify_milestones",
            "notify_readiness", "notify_streak", "focus_mode"}

Hours == {"quiet_hours_start", "quiet_hours_end"}

supportedConfigKeys == Numbers \cup Toggles \cup Hours \cup {"notify_weak_topic_pct"}

\* setPreferenceValue: hours are stored as they are given.
Legal(key, value) ==
  /\ key \in Numbers => value >= 1
  /\ key \in Toggles => value \in {0, 1}
  /\ key = "notify_weak_topic_pct" => value \in 0..100

ASSUME SettingsAssumption ==
  /\ Keys \subseteq supportedConfigKeys
  /\ Keys \cap Packs = {}
  /\ Values \subseteq Int
  /\ Defaults \in [Keys -> Values]
  /\ \A key \in Keys : Legal(key, Defaults[key])

Row == [packs : Seq(Packs), config : [Keys -> Values]]

DefaultRow == [packs |-> <<>>, config |-> Defaults]

PackCommand == [op : {"activate", "deactivate"}, pack : Packs]

SetCommand == [op : {"set"}, key : Keys, value : Values]

Command == PackCommand \cup SetCommand

\* What the command is about.
Target(cmd) == IF cmd.op = "set" THEN cmd.key ELSE cmd.pack

\* Mutant of Refused: no check that a pack is active already.
RefusedInactive(cmd, row) ==
  \/ cmd.op = "deactivate" /\ cmd.pack \notin Elements(row.packs)
  \/ cmd.op = "set" /\ ~ Legal(cmd.key, cmd.value)

\* The command writes nothing.
Refused(cmd, row) ==
  \/ cmd.op = "activate" /\ cmd.pack \in Elements(row.packs)
  \/ cmd.op = "deactivate" /\ cmd.pack \notin Elements(row.packs)
  \/ cmd.op = "set" /\ ~ Legal(cmd.key, cmd.value)

\* Mutants of Edited: deactivating a pack cuts the list at that pack, or
\* leaves an empty id in its place.
EditedCut(cmd, row) ==
  CASE cmd.op = "activate" -> [row EXCEPT !.packs = Append(@, cmd.pack)]
    [] cmd.op = "deactivate" ->
         [row EXCEPT !.packs = SubSeq(@, 1, (CHOOSE i \in DOMAIN @ : @[i] = cmd.pack) - 1)]
    [] cmd.op = "set" -> [row EXCEPT !.config[cmd.key] = cmd.value]

EditedBlank(cmd, row) ==
  CASE cmd.op = "activate" -> [row EXCEPT !.packs = Append(@, cmd.pack)]
    [] cmd.op = "deactivate" ->
         [row EXCEPT !.packs = [i \in DOMAIN @ |-> IF @[i] = cmd.pack THEN "" ELSE @[i]]]
    [] cmd.op = "set" -> [row EXCEPT !.config[cmd.key] = cmd.value]

\* The row the command writes.
Edited(cmd, row) ==
  CASE cmd.op = "activate" -> [row EXCEPT !.packs = Append(@, cmd.pack)]
    [] cmd.op = "deactivate" -> [row EXCEPT !.packs = Keep(@, Packs \ {cmd.pack})]
    [] cmd.op = "set" -> [row EXCEPT !.config[cmd.key] = cmd.value]

\* What the command asks for is so in the row.
InEffect(cmd, row) ==
  CASE cmd.op = "activate" -> cmd.pack \in Elements(row.packs)
    [] cmd.op = "deactivate" -> cmd.pack \notin Elements(row.packs)
    [] cmd.op = "set" -> row.config[cmd.key] = cmd.value

\* A row the scheduler can work with.
Usable(row) ==
  /\ Distinct(row.packs)
  /\ \A key \in Keys : Legal(key, row.config[key])

\* The two rows say the same of a pack or of a key.
SameAt(t, one, other) ==
  IF t \in Keys
    THEN one.config[t] = other.config[t]
    ELSE t \in Elements(one.packs) <=> t \in Elements(other.packs)
=============================================================================
