----------------------------- MODULE Preferences -----------------------------
(***************************************************************************)
(* The commands that change the user's preferences (internal/cli/packs.go, *)
(* internal/cli/config.go).  Each is a process that reads the whole row of *)
(* user_preferences, changes one field and writes the whole row back; no   *)
(* transaction holds the two together.                                     *)
(***************************************************************************)
EXTENDS SettingsRow, Tables

CONSTANTS
  Clients,        \* processes
  MaxCommands,    \* bound: commands issued
  MaxFaults       \* bound: commands that fail or are killed

ASSUME BoundAssumption == {MaxCommands, MaxFaults} \subseteq Nat

VARIABLES
  stored,         \* the row of user_preferences
  held,           \* client -> its command, the row it is about to write and
                  \* (history) what others have written since it was read
  acked,          \* history: target -> the last command about it that returned,
                  \* unless one that overlapped it has written since
  commands, faults    \* bounds

vars == <<stored, held, acked, commands, faults>>

NoRow == [none |-> TRUE]

\* A user without a row has the defaults.
GetPreferences == IF stored = NoRow THEN DefaultRow ELSE stored

\* What others are about to write misses what is written now, and what the
\* writer had missed itself.
Overtaken(c, others) ==
  [d \in DOMAIN others |->
     [others[d] EXCEPT !.missed = @ \cup {Target(held[c].cmd)} \cup held[c].missed]]

\* The commands that returned, but for those about the targets in T.
AckedBut(T) == [t \in DOMAIN acked \ T |-> acked[t]]

\* Mutant of Load: the new row is worked out from the defaults.
LoadDefaults(c, cmd) ==
  /\ commands < MaxCommands
  /\ commands' = commands + 1
  /\ c \notin DOMAIN held
  /\ IF Refused(cmd, GetPreferences)
       THEN UNCHANGED <<held, acked>>
       ELSE /\ held' = Put(held, c, [cmd |-> cmd, missed |-> {}, row |-> Edited(cmd, DefaultRow)])
            /\ UNCHANGED acked
  /\ UNCHANGED <<stored, faults>>

\* The command is read and checked; what does not apply writes nothing.
Load(c, cmd) ==
  /\ commands < MaxCommands
  /\ commands' = commands + 1
  /\ c \notin DOMAIN held
  /\ IF Refused(cmd, GetPreferences)
       THEN /\ acked' = IF cmd.op = "set" THEN acked ELSE Put(acked, cmd.pack, cmd)
            /\ UNCHANGED held
       ELSE /\ held' = Put(held, c, [cmd |-> cmd, missed |-> {},
                                     row |-> Edited(cmd, GetPreferences)])
            /\ UNCHANGED acked
  /\ UNCHANGED <<stored, faults>>

\* UpdatePreferences, an upsert of every column.
Save(c) ==
  /\ c \in DOMAIN held
  /\ stored' = held[c].row
  /\ acked' = Put(AckedBut(held[c].missed), Target(held[c].cmd), held[c].cmd)
  /\ held' = Overtaken(c, Drop(held, c))
  /\ UNCHANGED <<commands, faults>>

\* The command fails before it has written.
Fail(c) ==
  /\ faults < MaxFaults
  /\ faults' = faults + 1
  /\ c \in DOMAIN held
  /\ held' = Drop(held, c)
  /\ UNCHANGED <<stored, acked, commands>>

\* The command dies after it has written.
DieAfterSave(c) ==
  /\ faults < MaxFaults
  /\ faults' = faults + 1
  /\ c \in DOMAIN held
  /\ stored' = held[c].row
  /\ acked' = AckedBut(held[c].missed \cup {Target(held[c].cmd)})
  /\ held' = Overtaken(c, Drop(held, c))
  /\ UNCHANGED commands

Init ==
  /\ stored = NoRow
  /\ held = EmptyTable
  /\ acked = EmptyTable
  /\ commands = 0 /\ faults = 0

Next ==
  \E c \in Clients :
    \/ \E cmd \in Command : Load(c, cmd)
    \/ Save(c) \/ Fail(c) \/ DieAfterSave(c)

Spec == Init /\ [][Next]_vars
-----------------------------------------------------------------------------
(* Properties.                                                             *)

Held == [cmd : Command, row : Row, missed : SUBSET (Packs \cup Keys)]

TypeOK ==
  /\ stored = NoRow \/ stored \in Row
  /\ IsTable(held, Clients, Held)
  /\ IsTable(acked, Packs \cup Keys, Command)
  /\ \A t \in DOMAIN acked : Target(acked[t]) = t
  /\ commands \in Nat /\ faults \in Nat

\* However the reads and the writes of several commands interleave, no pack
\* is active twice and no setting leaves its range, in the row the scheduler
\* reads and in those still to be written (packs.go, RunPacksActivate: the
\* check and the write are two calls; config.go, setPreferenceValue).
RowsUsable ==
  /\ Usable(GetPreferences)
  /\ \A c \in DOMAIN held : Usable(held[c].row)

\* A command changes what it names and nothing else: the row it writes
\* differs from the stored one there, and where commands that ran at the same
\* time have written since it read the row.  So a lost update takes an overlap
\* (app.go, getPreferences and savePreferences).
OnlyOverlapsAreLost ==
  \A c \in DOMAIN held : \A t \in Packs \cup Keys :
    t = Target(held[c].cmd) \/ t \in held[c].missed \/ SameAt(t, held[c].row, GetPreferences)

\* "Changes take effect immediately - no restart required." (SPEC.md): what
\* the last command about a pack or a key has set, when it returned, is what
\* the scheduler reads at its next tick, unless a command that overlapped it
\* has written in the meantime: a command that begins afterwards keeps it,
\* however many others it overlaps (packs.go and config.go).
ChangesTakeEffect == \A t \in DOMAIN acked : InEffect(acked[t], GetPreferences)

\* The commands of one user that follow each other are steps of Settings
\* (packs.go and config.go).
Abstract == INSTANCE Settings WITH settings <- GetPreferences

ImplementsSettings == Abstract!Spec
=============================================================================
