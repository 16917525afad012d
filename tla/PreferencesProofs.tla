------------------------- MODULE PreferencesProofs -------------------------
(***************************************************************************)
(* Proofs about Preferences, for any number of clients, packs, keys and    *)
(* commands.                                                               *)
(***************************************************************************)
EXTENDS Preferences, DataProofs
-----------------------------------------------------------------------------
(* What a command does to a row.                                           *)

\* A pack that is activated comes last, and the others stay where they are.
LEMMA AppendPack ==
  ASSUME NEW s \in Seq(Packs), NEW p \in Packs, p \notin Elements(s), Distinct(s)
  PROVE  /\ Append(s, p) \in Seq(Packs)
         /\ Distinct(Append(s, p))
         /\ Elements(Append(s, p)) = Elements(s) \cup {p}
<1>1. PICK t : t = Append(s, p)
  OBVIOUS
<1>2. /\ t \in Seq(Packs)
      /\ Len(t) = Len(s) + 1 /\ DOMAIN t = 1..Len(t) /\ DOMAIN s = 1..Len(s) /\ Len(s) \in Nat
      /\ t[Len(t)] = p /\ \A i \in DOMAIN s : t[i] = s[i] /\ s[i] # p
  BY <1>1 DEF Elements
<1>3. Distinct(t)
  <2>1. SUFFICES ASSUME NEW i \in DOMAIN t, NEW j \in DOMAIN t, t[i] = t[j]
                 PROVE  i = j
    BY DEF Distinct
  <2>2. (i \in DOMAIN s \/ i = Len(t)) /\ (j \in DOMAIN s \/ j = Len(t))
    BY <1>2
  <2>3. QED
    BY <1>2, <2>1, <2>2 DEF Distinct
<1>4. Elements(t) = Elements(s) \cup {p}
  BY <1>2 DEF Elements
<1>5. QED
  BY <1>1, <1>2, <1>3, <1>4

\* A pack that is deactivated is gone, and the others stay.
LEMMA RemovePack ==
  ASSUME NEW s \in Seq(Packs), NEW p \in Packs, Distinct(s)
  PROVE  /\ Keep(s, Packs \ {p}) \in Seq(Packs)
         /\ Distinct(Keep(s, Packs \ {p}))
         /\ Elements(Keep(s, Packs \ {p})) = Elements(s) \ {p}
<1>1. PICK r : r = Keep(s, Packs \ {p})
  OBVIOUS
<1>2. r \in Seq(Packs) /\ Selects(r, s, Packs \ {p}, Len(s))
  BY <1>1, KeepSelects
<1>3. PICK pos \in [1..Len(r) -> 1..Len(s)] :
        /\ \A a \in 1..Len(r) : r[a] = s[pos[a]] /\ s[pos[a]] \in Packs \ {p}
        /\ \A a, b \in 1..Len(r) : a < b => pos[a] < pos[b]
        /\ \A k \in 1..Len(s) : s[k] \in Packs \ {p} => \E a \in 1..Len(r) : pos[a] = k
  BY <1>2 DEF Selects
<1>4. DOMAIN r = 1..Len(r) /\ DOMAIN s = 1..Len(s) /\ Len(r) \in Nat /\ Len(s) \in Nat
  BY <1>2
<1>5. Distinct(r)
  <2>1. SUFFICES ASSUME NEW a \in 1..Len(r), NEW b \in 1..Len(r), r[a] = r[b]
                 PROVE  a = b
    BY <1>4 DEF Distinct
  <2>2. pos[a] = pos[b]
    BY <1>3, <1>4, <2>1 DEF Distinct
  <2>3. ~ (a < b) /\ ~ (b < a)
    BY <1>3, <2>2
  <2>4. QED
    BY <1>4, <2>3
<1>6. ASSUME NEW x
      PROVE  x \in Elements(r) <=> x \in Elements(s) \ {p}
  <2>1. ASSUME x \in Elements(r) PROVE x \in Elements(s) \ {p}
    BY <1>3, <1>4, <2>1 DEF Elements
  <2>2. ASSUME x \in Elements(s) \ {p} PROVE x \in Elements(r)
    <3>1. PICK k \in 1..Len(s) : s[k] = x
      BY <1>4, <2>2 DEF Elements
    <3>2. s[k] \in Packs \ {p}
      BY <2>2, <3>1
    <3>3. PICK a \in 1..Len(r) : pos[a] = k
      BY <1>3, <3>2
    <3>4. r[a] = x
      BY <1>3, <3>1, <3>3
    <3>5. QED
      BY <1>4, <3>4 DEF Elements
  <2>3. QED
    BY <2>1, <2>2
<1>7. QED
  BY <1>1, <1>2, <1>5, <1>6

\* A command that applies to a usable row leaves a usable one, the same
\* everywhere but at what it is about.
LEMMA EditedRow ==
  ASSUME NEW row \in Row, NEW cmd \in Command, Usable(row), ~ Refused(cmd, row)
  PROVE  /\ Edited(cmd, row) \in Row
         /\ Usable(Edited(cmd, row))
         /\ Target(cmd) \in Packs \cup Keys
         /\ \A t \in Packs \cup Keys : t = Target(cmd) \/ SameAt(t, Edited(cmd, row), row)
<1>1. row.packs \in Seq(Packs) /\ row.config \in [Keys -> Values] /\ Distinct(row.packs)
      /\ \A key \in Keys : Legal(key, row.config[key])
  BY DEF Row, Usable
<1>2. CASE cmd.op = "activate"
  <2>1. cmd.pack \in Packs /\ cmd.pack \notin Elements(row.packs)
    BY <1>2 DEF Command, PackCommand, SetCommand, Refused
  <2>2. Edited(cmd, row) = [packs |-> Append(row.packs, cmd.pack), config |-> row.config]
    BY <1>2 DEF Edited, Row
  <2>3. /\ Append(row.packs, cmd.pack) \in Seq(Packs)
        /\ Distinct(Append(row.packs, cmd.pack))
        /\ Elements(Append(row.packs, cmd.pack)) = Elements(row.packs) \cup {cmd.pack}
    BY <1>1, <2>1, AppendPack
  <2>4. QED
    BY <1>1, <1>2, <2>1, <2>2, <2>3 DEF Row, Usable, Target, SameAt
<1>3. CASE cmd.op = "deactivate"
  <2>1. cmd.pack \in Packs
    BY <1>3 DEF Command, PackCommand, SetCommand
  <2>2. PICK packs : packs = Keep(row.packs, Packs \ {cmd.pack})
    OBVIOUS
  <2>3. Edited(cmd, row) = [packs |-> packs, config |-> row.config]
    BY <1>3, <2>2 DEF Edited, Row
  <2>4. packs \in Seq(Packs) /\ Distinct(packs) /\ Elements(packs) = Elements(row.packs) \ {cmd.pack}
    BY <1>1, <2>1, <2>2, RemovePack
  <2>5. QED
    BY <1>1, <1>3, <2>1, <2>3, <2>4 DEF Row, Usable, Target, SameAt
<1>4. CASE cmd.op = "set"
  <2>1. cmd.key \in Keys /\ cmd.value \in Values /\ Legal(cmd.key, cmd.value)
    BY <1>4 DEF Command, PackCommand, SetCommand, Refused
  <2>2. PICK config : config = [row.config EXCEPT ![cmd.key] = cmd.value]
    OBVIOUS
  <2>3. Edited(cmd, row) = [packs |-> row.packs, config |-> config]
    <3>1. Edited(cmd, row) = [row EXCEPT !.config[cmd.key] = cmd.value]
      BY <1>4, Zenon DEF Edited
    <3>2. row = [packs |-> row.packs, config |-> row.config]
      BY DEF Row
    <3>3. QED
      BY <2>2, <3>1, <3>2
  <2>4. /\ config \in [Keys -> Values]
        /\ config[cmd.key] = cmd.value
        /\ \A key \in Keys : key = cmd.key \/ config[key] = row.config[key]
    BY <1>1, <2>1, <2>2
  <2>5. QED
    BY <1>1, <1>4, <2>1, <2>3, <2>4 DEF Row, Usable, Target, SameAt
<1>5. cmd.op \in {"activate", "deactivate", "set"}
  BY DEF Command, PackCommand, SetCommand
<1>6. QED
  BY <1>2, <1>3, <1>4, <1>5
-----------------------------------------------------------------------------
(* Any number of commands at once.                                         *)

IInv == TypeOK /\ RowsUsable /\ OnlyOverlapsAreLost

\* The row a command reads is a usable one.
LEMMA ReadRow ==
  ASSUME TypeOK, RowsUsable
  PROVE  GetPreferences \in Row /\ Usable(GetPreferences)
<1>1. DefaultRow \in Row
  BY SettingsAssumption DEF DefaultRow, Row
<1>2. QED
  BY <1>1 DEF TypeOK, RowsUsable, GetPreferences

\* The initial state satisfies the invariant.
LEMMA InitInv == ASSUME Init PROVE IInv
<1>1. Usable(DefaultRow)
  BY SettingsAssumption DEF Usable, DefaultRow, Distinct
<1>2. IsTable(EmptyTable, Clients, Held) /\ IsTable(EmptyTable, Packs \cup Keys, Command)
      /\ DOMAIN EmptyTable = {}
  BY NoRows
<1>3. TypeOK
  BY <1>2 DEF Init, TypeOK
<1>4. QED
  BY <1>1, <1>2, <1>3 DEF Init, IInv, RowsUsable, OnlyOverlapsAreLost, GetPreferences

\* Reading the row and working out a new one preserves the invariant.
LEMMA LoadInv ==
  ASSUME IInv, NEW c \in Clients, NEW cmd \in Command, Load(c, cmd)
  PROVE  IInv'
<1>1. GetPreferences \in Row /\ Usable(GetPreferences) /\ GetPreferences' = GetPreferences
      /\ stored' = stored /\ faults' = faults /\ commands' \in Nat
  BY ReadRow DEF IInv, Load, GetPreferences, TypeOK
<1>2. CASE Refused(cmd, GetPreferences)
  <2>1. held' = held /\ acked' = IF cmd.op = "set" THEN acked ELSE Put(acked, cmd.pack, cmd)
    BY <1>2 DEF Load
  <2>2. CASE cmd.op = "set"
    BY <1>1, <2>1, <2>2 DEF IInv, TypeOK, RowsUsable, OnlyOverlapsAreLost
  <2>3. CASE cmd.op # "set"
    <3>1. cmd.pack \in Packs /\ Target(cmd) = cmd.pack
      BY <2>3 DEF Command, PackCommand, SetCommand, Target
    <3>2. acked' = Put(acked, cmd.pack, cmd)
      BY <2>1, <2>3
    <3>3. IsTable(acked', Packs \cup Keys, Command)
      BY <3>1, <3>2, PutRow DEF IInv, TypeOK
    <3>4. \A t \in DOMAIN acked' : Target(acked'[t]) = t
      BY <3>1, <3>2 DEF IInv, TypeOK, Put
    <3>5. QED
      BY <1>1, <2>1, <3>3, <3>4 DEF IInv, TypeOK, RowsUsable, OnlyOverlapsAreLost
  <2>4. QED
    BY <2>2, <2>3
<1>3. CASE ~ Refused(cmd, GetPreferences)
  <2>1. PICK h : h = [cmd |-> cmd, missed |-> {}, row |-> Edited(cmd, GetPreferences)]
    OBVIOUS
  <2>2. acked' = acked /\ held' = Put(held, c, h)
    BY <1>3, <2>1 DEF Load
  <2>3. /\ h.cmd = cmd /\ h.row \in Row /\ Usable(h.row) /\ h.missed = {}
        /\ \A t \in Packs \cup Keys : t = Target(cmd) \/ SameAt(t, h.row, GetPreferences)
    BY <1>1, <1>3, <2>1, EditedRow
  <2>4. h \in Held
    BY <2>1, <2>3 DEF Held
  <2>5. IsTable(held', Clients, Held)
    BY <2>2, <2>4, PutRow DEF IInv, TypeOK
  <2>6. \A d \in DOMAIN held' : held'[d] = h \/ (d \in DOMAIN held /\ held'[d] = held[d])
    BY <2>2 DEF Put
  <2>7. TypeOK'
    BY <1>1, <2>2, <2>5 DEF IInv, TypeOK
  <2>8. RowsUsable'
    BY <1>1, <2>3, <2>6 DEF IInv, RowsUsable
  <2>9. OnlyOverlapsAreLost'
    BY <1>1, <2>3, <2>6 DEF IInv, OnlyOverlapsAreLost
  <2>10. QED
    BY <2>7, <2>8, <2>9 DEF IInv
<1>4. QED
  BY <1>2, <1>3

\* What a client has read and not written.
LEMMA HeldRow ==
  ASSUME TypeOK, NEW c \in DOMAIN held
  PROVE  /\ c \in Clients /\ held[c] \in Held
         /\ held[c].cmd \in Command /\ held[c].row \in Row
         /\ held[c].missed \subseteq Packs \cup Keys
         /\ Target(held[c].cmd) \in Packs \cup Keys
<1>1. held[c] \in Held /\ c \in Clients
  BY DEF TypeOK, IsTable
<1>2. held[c].cmd \in Command
  BY <1>1 DEF Held
<1>3. Target(held[c].cmd) \in Packs \cup Keys
  BY <1>2 DEF Command, PackCommand, SetCommand, Target
<1>4. QED
  BY <1>1, <1>2, <1>3 DEF Held

\* The stored row is the one written.
LEMMA WrittenRow ==
  ASSUME TypeOK, NEW c \in DOMAIN held, stored' = held[c].row
  PROVE  GetPreferences' = held[c].row
<1>1. PICK r \in Row : r = held[c].row
  BY HeldRow
<1>2. "packs" \in DOMAIN r
  BY DEF Row
<1>3. "packs" \notin DOMAIN NoRow
  BY DEF NoRow
<1>4. held[c].row # NoRow
  BY <1>1, <1>2, <1>3
<1>5. QED
  BY <1>4 DEF GetPreferences

\* Writing a row that others have overtaken costs what they wrote, no more:
\* the rows still to be written remain usable, and what they miss is known.
LEMMA WriteInv ==
  ASSUME IInv, NEW c \in DOMAIN held,
         stored' = held[c].row, held' = Overtaken(c, Drop(held, c))
  PROVE  /\ stored' \in Row
         /\ IsTable(held', Clients, Held)
         /\ RowsUsable'
         /\ OnlyOverlapsAreLost'
<1> DEFINE writes == {Target(held[c].cmd)} \cup held[c].missed
<1>1. /\ c \in Clients /\ held[c].row \in Row /\ writes \subseteq Packs \cup Keys
      /\ TypeOK /\ Usable(held[c].row)
  BY HeldRow DEF IInv, RowsUsable
<1>2. GetPreferences' = held[c].row
  BY WrittenRow DEF IInv
<1>3. DOMAIN held' = DOMAIN held \ {c}
  BY DEF Overtaken, Drop
<1>4. ASSUME NEW d \in DOMAIN held'
      PROVE  /\ d \in DOMAIN held /\ d \in Clients /\ held'[d] \in Held
             /\ held'[d].cmd = held[d].cmd /\ held'[d].row = held[d].row
             /\ held'[d].missed = held[d].missed \cup writes
  <2>1. d \in DOMAIN held /\ d # c
    BY <1>3
  <2>2. held'[d] = [held[d] EXCEPT !.missed = @ \cup writes]
    BY <2>1 DEF Overtaken, Drop
  <2>3. d \in Clients /\ held[d] \in Held /\ held[d].missed \subseteq Packs \cup Keys
    BY <1>1, <2>1, HeldRow
  <2>4. held[d] = [cmd |-> held[d].cmd, row |-> held[d].row, missed |-> held[d].missed]
        /\ held[d].cmd \in Command /\ held[d].row \in Row
    BY <2>3 DEF Held
  <2>5. held'[d] = [cmd |-> held[d].cmd, row |-> held[d].row,
                    missed |-> held[d].missed \cup writes]
    BY <2>2, <2>4
  <2>6. QED
    BY <1>1, <2>1, <2>3, <2>4, <2>5 DEF Held
<1>5. IsTable(held', Clients, Held)
  <2>1. held' = [d \in DOMAIN held' |-> held'[d]]
    BY DEF Overtaken, Drop
  <2>2. QED
    BY <1>4, <2>1 DEF IsTable
<1>6. RowsUsable'
  BY <1>1, <1>2, <1>4 DEF IInv, RowsUsable
<1>7. ASSUME NEW d \in DOMAIN held', NEW t \in Packs \cup Keys,
             t # Target(held'[d].cmd), t \notin held'[d].missed
      PROVE  SameAt(t, held'[d].row, GetPreferences')
  <2>1. d \in DOMAIN held /\ t # Target(held[d].cmd) /\ t \notin held[d].missed
        /\ t # Target(held[c].cmd) /\ t \notin held[c].missed
    BY <1>4, <1>7
  <2>2. SameAt(t, held[d].row, GetPreferences) /\ SameAt(t, held[c].row, GetPreferences)
    BY <2>1 DEF IInv, OnlyOverlapsAreLost
  <2>3. SameAt(t, held[d].row, held[c].row)
    BY <2>2 DEF SameAt
  <2>4. QED
    BY <1>2, <1>4, <2>3
<1>8. OnlyOverlapsAreLost'
  BY <1>7 DEF OnlyOverlapsAreLost
<1>9. QED
  BY <1>1, <1>5, <1>6, <1>8

\* The commands that returned, but for some.
LEMMA AckedSome ==
  ASSUME TypeOK, NEW T
  PROVE  /\ IsTable(AckedBut(T), Packs \cup Keys, Command)
         /\ \A t \in DOMAIN AckedBut(T) :
              /\ t \in DOMAIN acked \ T
              /\ AckedBut(T)[t] = acked[t] /\ Target(AckedBut(T)[t]) = t
BY DEF TypeOK, IsTable, AckedBut

\* Writing the row preserves the invariant.
LEMMA SaveInv ==
  ASSUME IInv, NEW c \in Clients, Save(c)
  PROVE  IInv'
<1>1. /\ c \in DOMAIN held /\ stored' = held[c].row /\ held' = Overtaken(c, Drop(held, c))
      /\ acked' = Put(AckedBut(held[c].missed), Target(held[c].cmd), held[c].cmd)
      /\ commands' = commands /\ faults' = faults
  BY DEF Save
<1>2. stored' \in Row /\ IsTable(held', Clients, Held) /\ RowsUsable' /\ OnlyOverlapsAreLost'
  BY <1>1, WriteInv
<1>3. Target(held[c].cmd) \in Packs \cup Keys /\ held[c].cmd \in Command
  BY <1>1, HeldRow DEF IInv
<1>4. IsTable(acked', Packs \cup Keys, Command)
  <2>1. IsTable(AckedBut(held[c].missed), Packs \cup Keys, Command)
    BY AckedSome DEF IInv
  <2>2. QED
    BY <1>1, <1>3, <2>1, PutRow
<1>5. \A t \in DOMAIN acked' : Target(acked'[t]) = t
  BY <1>1, AckedSome DEF IInv, Put
<1>6. QED
  BY <1>1, <1>2, <1>4, <1>5 DEF IInv, TypeOK

\* A command that writes and dies preserves the invariant.
LEMMA DieInv ==
  ASSUME IInv, NEW c \in Clients, DieAfterSave(c)
  PROVE  IInv'
<1>1. /\ c \in DOMAIN held /\ stored' = held[c].row /\ held' = Overtaken(c, Drop(held, c))
      /\ acked' = AckedBut(held[c].missed \cup {Target(held[c].cmd)})
      /\ commands' = commands /\ faults' \in Nat
  BY DEF DieAfterSave, IInv, TypeOK
<1>2. stored' \in Row /\ IsTable(held', Clients, Held) /\ RowsUsable' /\ OnlyOverlapsAreLost'
  BY <1>1, WriteInv
<1>3. IsTable(acked', Packs \cup Keys, Command)
  BY <1>1, AckedSome DEF IInv
<1>4. \A t \in DOMAIN acked' : Target(acked'[t]) = t
  BY <1>1, AckedSome DEF IInv
<1>5. QED
  BY <1>1, <1>2, <1>3, <1>4 DEF IInv, TypeOK

\* A command that fails before it writes preserves the invariant.
LEMMA FailInv ==
  ASSUME IInv, NEW c \in Clients, Fail(c)
  PROVE  IInv'
<1>1. /\ held' = Drop(held, c) /\ stored' = stored /\ acked' = acked /\ commands' = commands
      /\ faults' \in Nat
  BY DEF Fail, IInv, TypeOK
<1>2. IsTable(held', Clients, Held)
  BY <1>1, DropRow DEF IInv, TypeOK
<1>3. \A d \in DOMAIN held' : d \in DOMAIN held /\ held'[d] = held[d]
  BY <1>1 DEF Drop
<1>4. GetPreferences' = GetPreferences
  BY <1>1 DEF GetPreferences
<1>5. QED
  BY <1>1, <1>2, <1>3, <1>4 DEF IInv, TypeOK, RowsUsable, OnlyOverlapsAreLost

\* Every step preserves the invariant.
LEMMA NextInv == ASSUME IInv, [Next]_vars PROVE IInv'
<1>1. CASE Next
  <2>1. PICK c \in Clients :
          (\E cmd \in Command : Load(c, cmd)) \/ Save(c) \/ Fail(c) \/ DieAfterSave(c)
    BY <1>1 DEF Next
  <2>2. CASE \E cmd \in Command : Load(c, cmd)
    BY <2>2, LoadInv
  <2>3. QED
    BY <2>1, <2>2, SaveInv, FailInv, DieInv
<1>2. CASE UNCHANGED vars
  BY <1>2 DEF vars, IInv, TypeOK, RowsUsable, OnlyOverlapsAreLost, GetPreferences
<1>3. QED
  BY <1>1, <1>2

\* However the commands of packs.go and config.go interleave and fail.
THEOREM Invariance == Spec => []IInv
<1>1. Init => IInv
  BY InitInv
<1>2. IInv /\ [Next]_vars => IInv'
  BY NextInv
<1>3. QED
  BY <1>1, <1>2, PTL DEF Spec

\* The types of the preferences, stored and held (model.UserPreferences).
THEOREM TypeCorrect == Spec => []TypeOK
<1>1. IInv => TypeOK
  BY DEF IInv
<1>2. QED
  BY Invariance, <1>1, PTL

\* RunPacksActivate and RunConfigSet never store a row the scheduler cannot
\* work with, although check and write are two calls.
THEOREM AlwaysUsable == Spec => []RowsUsable
<1>1. IInv => RowsUsable
  BY DEF IInv
<1>2. QED
  BY Invariance, <1>1, PTL

\* An update is lost only to a command that ran at the same time.
THEOREM LossNeedsOverlap == Spec => []OnlyOverlapsAreLost
<1>1. IInv => OnlyOverlapsAreLost
  BY DEF IInv
<1>2. QED
  BY Invariance, <1>1, PTL
-----------------------------------------------------------------------------
(* What a command has set stays until a command that overlapped it, or a   *)
(* later one about the same target, writes.                                *)

\* A row that is about to be written has what its command has set.
HeldTakesEffect == \A c \in DOMAIN held : InEffect(held[c].cmd, held[c].row)

EffectInv == IInv /\ HeldTakesEffect /\ ChangesTakeEffect

\* What a command has set is in the row it makes.
LEMMA EditTakesEffect ==
  ASSUME NEW row \in Row, NEW cmd \in Command, Usable(row), ~ Refused(cmd, row)
  PROVE  InEffect(cmd, Edited(cmd, row))
<1>1. row.packs \in Seq(Packs) /\ row.config \in [Keys -> Values] /\ Distinct(row.packs)
      /\ row = [packs |-> row.packs, config |-> row.config]
  BY DEF Row, Usable
<1>2. CASE cmd.op = "activate"
  <2>1. cmd.pack \in Packs /\ cmd.pack \notin Elements(row.packs)
    BY <1>2 DEF Command, PackCommand, SetCommand, Refused
  <2>2. PICK packs : packs = Append(row.packs, cmd.pack)
    OBVIOUS
  <2>3. Edited(cmd, row).packs = packs
    BY <1>1, <1>2, <2>2 DEF Edited
  <2>4. cmd.pack \in Elements(packs)
    BY <1>1, <2>1, <2>2, AppendPack
  <2>5. QED
    BY <1>2, <2>3, <2>4 DEF InEffect
<1>3. CASE cmd.op = "deactivate"
  <2>1. cmd.pack \in Packs
    BY <1>3 DEF Command, PackCommand, SetCommand
  <2>2. PICK packs : packs = Keep(row.packs, Packs \ {cmd.pack})
    OBVIOUS
  <2>3. Edited(cmd, row).packs = packs
    BY <1>1, <1>3, <2>2 DEF Edited
  <2>4. cmd.pack \notin Elements(packs)
    BY <1>1, <2>1, <2>2, RemovePack
  <2>5. QED
    BY <1>3, <2>3, <2>4 DEF InEffect
<1>4. CASE cmd.op = "set"
  <2>1. cmd.key \in Keys
    BY <1>4 DEF Command, PackCommand, SetCommand
  <2>2. Edited(cmd, row) = [row EXCEPT !.config[cmd.key] = cmd.value]
    BY <1>4, Zenon DEF Edited
  <2>3. Edited(cmd, row).config[cmd.key] = cmd.value
    BY <1>1, <2>1, <2>2
  <2>4. QED
    BY <1>4, <2>3 DEF InEffect
<1>5. cmd.op \in {"activate", "deactivate", "set"}
  BY DEF Command, PackCommand, SetCommand
<1>6. QED
  BY <1>2, <1>3, <1>4, <1>5

\* What a command found done already holds of the row it read.
LEMMA RefusedTakesEffect ==
  ASSUME NEW row, NEW cmd \in PackCommand, Refused(cmd, row)
  PROVE  InEffect(cmd, row)
BY DEF PackCommand, Refused, InEffect

\* Two rows that agree about its target agree about a command.
LEMMA EffectElsewhere ==
  ASSUME NEW cmd \in Command, NEW one, NEW other,
         SameAt(Target(cmd), one, other), InEffect(cmd, other)
  PROVE  InEffect(cmd, one)
BY SettingsAssumption DEF Command, PackCommand, SetCommand, Target, SameAt, InEffect

\* A command that has read the row leaves the others in effect.
LEMMA EffectOfLoad ==
  ASSUME EffectInv, NEW c \in Clients, NEW cmd \in Command, Load(c, cmd)
  PROVE  HeldTakesEffect' /\ ChangesTakeEffect'
<1>1. GetPreferences' = GetPreferences /\ GetPreferences \in Row /\ Usable(GetPreferences)
  BY ReadRow DEF EffectInv, IInv, Load, GetPreferences
<1>2. CASE Refused(cmd, GetPreferences)
  <2>1. held' = held /\ acked' = IF cmd.op = "set" THEN acked ELSE Put(acked, cmd.pack, cmd)
    BY <1>2 DEF Load
  <2>2. HeldTakesEffect'
    BY <2>1 DEF EffectInv, HeldTakesEffect
  <2>3. CASE cmd.op = "set"
    BY <1>1, <2>1, <2>2, <2>3 DEF EffectInv, ChangesTakeEffect
  <2>4. CASE cmd.op # "set"
    <3>1. cmd \in PackCommand
      BY <2>4 DEF Command, SetCommand
    <3>2. InEffect(cmd, GetPreferences)
      BY <1>2, <3>1, RefusedTakesEffect
    <3>3. \A t \in DOMAIN acked' : acked'[t] = cmd \/ (t \in DOMAIN acked /\ acked'[t] = acked[t])
      BY <2>1, <2>4 DEF Put
    <3>4. QED
      BY <1>1, <2>2, <3>2, <3>3 DEF EffectInv, ChangesTakeEffect
  <2>5. QED
    BY <2>3, <2>4
<1>3. CASE ~ Refused(cmd, GetPreferences)
  <2>1. PICK h : h = [cmd |-> cmd, missed |-> {}, row |-> Edited(cmd, GetPreferences)]
    OBVIOUS
  <2>2. acked' = acked /\ held' = Put(held, c, h)
    BY <1>3, <2>1 DEF Load
  <2>3. \A d \in DOMAIN held' : held'[d] = h \/ (d \in DOMAIN held /\ held'[d] = held[d])
    BY <2>2 DEF Put
  <2>4. InEffect(h.cmd, h.row)
    BY <1>1, <1>3, <2>1, EditTakesEffect
  <2>5. HeldTakesEffect'
    BY <2>3, <2>4 DEF EffectInv, HeldTakesEffect
  <2>6. QED
    BY <1>1, <2>2, <2>5 DEF EffectInv, ChangesTakeEffect
<1>4. QED
  BY <1>2, <1>3

\* The rows of the others do not change when one is written.
LEMMA OthersHold ==
  ASSUME TypeOK, NEW c, held' = Overtaken(c, Drop(held, c)), NEW d \in DOMAIN held'
  PROVE  d \in DOMAIN held /\ held'[d].cmd = held[d].cmd /\ held'[d].row = held[d].row
<1>1. d \in DOMAIN held
  BY DEF Overtaken, Drop
<1>2. held[d] \in Held
  BY <1>1 DEF TypeOK, IsTable
<1>3. \E m : held'[d] = [held[d] EXCEPT !.missed = m]
  BY DEF Overtaken, Drop
<1>4. QED
  BY <1>1, <1>2, <1>3 DEF Held

\* A command that writes the row puts itself into effect and, but for those
\* that have overlapped it, leaves the others in effect.
LEMMA EffectOfWrite ==
  ASSUME EffectInv, NEW c \in Clients, Save(c) \/ DieAfterSave(c)
  PROVE  HeldTakesEffect' /\ ChangesTakeEffect'
<1>1. c \in DOMAIN held /\ stored' = held[c].row /\ held' = Overtaken(c, Drop(held, c))
  BY DEF Save, DieAfterSave
<1>2. GetPreferences' = held[c].row
  BY <1>1, WrittenRow DEF EffectInv, IInv
<1>3. HeldTakesEffect'
  BY <1>1, OthersHold DEF EffectInv, IInv, HeldTakesEffect
<1>4. ASSUME NEW t \in DOMAIN acked'
      PROVE  InEffect(acked'[t], held[c].row)
  <2>1. \/ acked'[t] = held[c].cmd
        \/ /\ t \in DOMAIN acked \ held[c].missed
           /\ t # Target(held[c].cmd) /\ acked'[t] = acked[t]
    BY <1>4 DEF Save, DieAfterSave, Put, AckedBut
  <2>2. CASE acked'[t] = held[c].cmd
    BY <1>1, <2>2 DEF EffectInv, HeldTakesEffect
  <2>3. CASE /\ t \in DOMAIN acked \ held[c].missed
             /\ t # Target(held[c].cmd) /\ acked'[t] = acked[t]
    <3>1. t \in Packs \cup Keys /\ acked[t] \in Command /\ Target(acked[t]) = t
      BY <2>3 DEF EffectInv, IInv, TypeOK, IsTable
    <3>2. SameAt(t, held[c].row, GetPreferences)
      BY <1>1, <2>3, <3>1 DEF EffectInv, IInv, OnlyOverlapsAreLost
    <3>3. InEffect(acked[t], GetPreferences)
      BY <2>3 DEF EffectInv, ChangesTakeEffect
    <3>4. QED
      BY <2>3, <3>1, <3>2, <3>3, EffectElsewhere
  <2>4. QED
    BY <2>1, <2>2, <2>3
<1>5. QED
  BY <1>2, <1>3, <1>4 DEF ChangesTakeEffect

\* Every step keeps in effect what has been set.
LEMMA EffectNext == ASSUME EffectInv, [Next]_vars PROVE EffectInv'
<1>1. IInv'
  BY NextInv DEF EffectInv
<1>2. ASSUME NEW c \in Clients, Fail(c)
      PROVE  HeldTakesEffect' /\ ChangesTakeEffect'
  <2>1. stored' = stored /\ acked' = acked /\ held' = Drop(held, c)
    BY <1>2 DEF Fail
  <2>2. GetPreferences' = GetPreferences
    BY <2>1 DEF GetPreferences
  <2>3. \A d \in DOMAIN held' : d \in DOMAIN held /\ held'[d] = held[d]
    BY <2>1 DEF Drop
  <2>4. QED
    BY <2>1, <2>2, <2>3 DEF EffectInv, HeldTakesEffect, ChangesTakeEffect
<1>3. ASSUME UNCHANGED vars
      PROVE  HeldTakesEffect' /\ ChangesTakeEffect'
  BY <1>3 DEF EffectInv, HeldTakesEffect, ChangesTakeEffect, vars, GetPreferences
<1>4. QED
  BY <1>1, <1>2, <1>3, EffectOfLoad, EffectOfWrite DEF EffectInv, Next

\* "Changes take effect immediately" (SPEC.md), and stay, however many
\* commands overlap and fail, until one that overlapped them writes.
THEOREM EffectsStay == Spec => []ChangesTakeEffect
<1>1. Init => EffectInv
  <2>1. ASSUME Init PROVE held = EmptyTable /\ acked = EmptyTable /\ DOMAIN EmptyTable = {}
    BY <2>1, NoRows DEF Init
  <2>2. QED
    BY <2>1, InitInv DEF EffectInv, HeldTakesEffect, ChangesTakeEffect
<1>2. EffectInv /\ [Next]_vars => EffectInv'
  BY EffectNext
<1>3. EffectInv => ChangesTakeEffect
  BY DEF EffectInv
<1>4. QED
  BY <1>1, <1>2, <1>3, PTL DEF Spec
-----------------------------------------------------------------------------
(* Commands of one client, which follow each other.                        *)

\* One client: no other command runs between the two calls of a command.
OneClient == \A c, d \in Clients : c = d

\* The row a command is about to write is what it makes of the stored row.
HeldIsCurrent ==
  \A c \in DOMAIN held :
    /\ ~ Refused(held[c].cmd, GetPreferences)
    /\ held[c].row = Edited(held[c].cmd, GetPreferences)

AloneInv == IInv /\ HeldIsCurrent

\* Settings and Preferences mean the same by a command.
LEMMA SameCommands ==
  /\ \A cmd, row : Abstract!Refused(cmd, row) <=> Refused(cmd, row)
  /\ \A cmd, row : Abstract!Edited(cmd, row) = Edited(cmd, row)
  /\ Abstract!Command = Command
  /\ Abstract!DefaultRow = DefaultRow
<1>1. \A key, value : Abstract!Legal(key, value) <=> Legal(key, value)
  BY Zenon DEF Abstract!Legal, Legal, Abstract!Numbers, Numbers, Abstract!Toggles, Toggles
<1>2. \A s, S : Abstract!Keep(s, S) = Keep(s, S)
  BY Zenon DEF Abstract!Keep, Keep
<1>3. \A s : Abstract!Elements(s) = Elements(s)
  BY Zenon DEF Abstract!Elements, Elements
<1>4. \A cmd, row : Abstract!Refused(cmd, row) <=> Refused(cmd, row)
  BY <1>1, <1>3, Zenon DEF Abstract!Refused, Refused
<1>5. \A cmd, row : Abstract!Edited(cmd, row) = Edited(cmd, row)
  BY <1>2, Zenon DEF Abstract!Edited, Edited
<1>6. Abstract!Command = Command /\ Abstract!DefaultRow = DefaultRow
  BY Zenon DEF Abstract!Command, Command, Abstract!PackCommand, PackCommand,
     Abstract!SetCommand, SetCommand, Abstract!DefaultRow, DefaultRow
<1>7. QED
  BY <1>4, <1>5, <1>6

\* Writing a current row is one step of Settings.
LEMMA WriteAlone ==
  ASSUME AloneInv, OneClient, NEW c \in Clients, Save(c) \/ DieAfterSave(c)
  PROVE  HeldIsCurrent' /\ \E cmd \in Command : Abstract!Apply(cmd)
<1>1. c \in DOMAIN held /\ stored' = held[c].row /\ held' = Overtaken(c, Drop(held, c))
  BY DEF Save, DieAfterSave
<1>2. IsTable(held, Clients, Held) /\ held[c].cmd \in Command
  BY <1>1, HeldRow DEF AloneInv, IInv, TypeOK
<1>3. GetPreferences' = held[c].row
  BY <1>1, WrittenRow DEF AloneInv, IInv
<1>4. DOMAIN held' = {}
  BY <1>1, <1>2 DEF OneClient, IsTable, Overtaken, Drop
<1>5. ~ Refused(held[c].cmd, GetPreferences) /\ held[c].row = Edited(held[c].cmd, GetPreferences)
  BY <1>1 DEF AloneInv, HeldIsCurrent
<1>6. Abstract!Apply(held[c].cmd)
  BY <1>3, <1>5, SameCommands DEF Abstract!Apply
<1>7. QED
  BY <1>2, <1>4, <1>6 DEF HeldIsCurrent

\* Reading the row leaves it alone.
LEMMA ReadAlone ==
  ASSUME AloneInv, NEW c \in Clients, NEW cmd \in Command, Load(c, cmd)
  PROVE  HeldIsCurrent' /\ GetPreferences' = GetPreferences
<1>1. GetPreferences' = GetPreferences
  BY DEF Load, GetPreferences
<1>2. CASE Refused(cmd, GetPreferences)
  BY <1>1, <1>2 DEF Load, AloneInv, HeldIsCurrent
<1>3. CASE ~ Refused(cmd, GetPreferences)
  <2>1. PICK h : h = [cmd |-> cmd, missed |-> {}, row |-> Edited(cmd, GetPreferences)]
    OBVIOUS
  <2>2. held' = Put(held, c, h)
    BY <1>3, <2>1 DEF Load
  <2>3. \A d \in DOMAIN held' : held'[d] = h \/ (d \in DOMAIN held /\ held'[d] = held[d])
    BY <2>2 DEF Put
  <2>4. h.cmd = cmd /\ h.row = Edited(cmd, GetPreferences)
    BY <2>1
  <2>5. QED
    BY <1>1, <1>3, <2>3, <2>4 DEF AloneInv, HeldIsCurrent
<1>4. QED
  BY <1>2, <1>3

\* Every step of a lone client preserves the invariant and is a step of
\* Settings or leaves the row alone.
LEMMA AloneNext ==
  ASSUME AloneInv, OneClient, [Next]_vars
  PROVE  AloneInv' /\ [\E cmd \in Command : Abstract!Apply(cmd)]_GetPreferences
<1>1. IInv'
  BY NextInv DEF AloneInv
<1>2. ASSUME NEW c \in Clients, Fail(c)
      PROVE  HeldIsCurrent' /\ GetPreferences' = GetPreferences
  <2>1. GetPreferences' = GetPreferences
    BY <1>2 DEF Fail, GetPreferences
  <2>2. \A d \in DOMAIN held' : d \in DOMAIN held /\ held'[d] = held[d]
    BY <1>2 DEF Fail, Drop
  <2>3. QED
    BY <2>1, <2>2 DEF AloneInv, HeldIsCurrent
<1>3. ASSUME UNCHANGED vars
      PROVE  HeldIsCurrent' /\ GetPreferences' = GetPreferences
  BY <1>3 DEF AloneInv, HeldIsCurrent, vars, GetPreferences
<1>4. QED
  BY <1>1, <1>2, <1>3, ReadAlone, WriteAlone DEF AloneInv, Next

\* The two calls of a command are one step of Settings: it happens or it does
\* not.
THEOREM SettingsImplemented ==
  ASSUME OneClient
  PROVE  Spec => ImplementsSettings
<1>1. Init => AloneInv /\ Abstract!Init
  <2>1. ASSUME Init
        PROVE  held = EmptyTable /\ GetPreferences = DefaultRow /\ DOMAIN EmptyTable = {}
    BY <2>1, NoRows DEF Init, GetPreferences
  <2>2. QED
    BY <2>1, InitInv, SameCommands DEF AloneInv, HeldIsCurrent, Abstract!Init
<1>2. AloneInv /\ [Next]_vars => AloneInv'
  BY AloneNext
<1>3. AloneInv /\ [Next]_vars => [\E cmd \in Abstract!Command : Abstract!Apply(cmd)]_GetPreferences
  BY AloneNext, SameCommands
<1>4. QED
  BY <1>1, <1>2, <1>3, PTL DEF Spec, ImplementsSettings, Abstract!Spec
=============================================================================
