---------------------------- MODULE NotifierProofs ----------------------------
(***************************************************************************)
(* What every user can rely on who gets notifications: for any packs,      *)
(* questions, thresholds and hours, with answers and changes of the        *)
(* preferences at any moment of a check and calls that fail.               *)
(***************************************************************************)
EXTENDS Notifier, DataProofs
-----------------------------------------------------------------------------
(* Time of the day.                                                        *)

\* Remainders of numbers that lie at most one day outside of a day.
LEMMA Remainder ==
  \A d \in Nat \ {0} : \A x \in (-d)..(2 * d - 1) :
    x % d = IF x < 0 THEN x + d ELSE IF x < d THEN x ELSE x - d
<1> SUFFICES ASSUME NEW d \in Nat \ {0}, NEW x \in (-d)..(2 * d - 1)
             PROVE  x % d = IF x < 0 THEN x + d ELSE IF x < d THEN x ELSE x - d
  OBVIOUS
<1>1. CASE x < 0
  BY <1>1
<1>2. CASE x \in 0..(d - 1)
  BY <1>2
<1>3. CASE x >= d
  BY <1>3
<1>4. QED
  BY <1>1, <1>2, <1>3

\* The hours the clock shows from start until end are quiet hours, also when
\* midnight lies between them.
LEMMA ArcIsQuiet ==
  ASSUME NEW c \in PrefValues, NEW t \in QuietArc(c)
  PROVE  InQuietHours(t, c)
<1> DEFINE d == DayLength
           width == c.end - c.start
<1>1. d \in Nat \ {0} /\ c.start \in 0..(d - 1) /\ c.end \in 0..(d - 1)
  BY NotifierAssumption DEF QuietArc, Unset
<1>2. PICK i \in 0..((width % d) - 1) : t = (c.start + i) % d
  BY DEF QuietArc
<1> DEFINE past == c.start + i
<1>3. width \in (-d)..(2 * d - 1)
  BY <1>1
<1>4. width % d = IF width < 0 THEN width + d ELSE width
  <2> HIDE DEF d, width
  <2>1. width % d = IF width < 0 THEN width + d ELSE IF width < d THEN width ELSE width - d
    BY <1>1, <1>3, Remainder
  <2>2. QED
    BY <1>1, <2>1 DEF width
<1>5. past \in 0..(2 * d - 1) /\ past - c.start < width % d
  BY <1>1, <1>2, <1>4
<1>6. t = IF past < d THEN past ELSE past - d
  <2> HIDE DEF d, past
  <2>1. past \in (-d)..(2 * d - 1)
    BY <1>1, <1>5
  <2>2. past % d = IF past < 0 THEN past + d ELSE IF past < d THEN past ELSE past - d
    BY <1>1, <2>1, Remainder
  <2>3. QED
    BY <1>1, <1>2, <1>5, <2>2 DEF past
<1>7. QED
  BY <1>1, <1>2, <1>4, <1>5, <1>6 DEF InQuietHours, Unset
-----------------------------------------------------------------------------
(* The inductive invariant.                                                *)

Reviewed(p) == {k \in DOMAIN rows : k[1] = p}

\* Quiet hours by the stored preferences, and the check under way: it has seen
\* them if they had come before its tick.
NightWatch ==
  /\ quiet >= 1 => minute \in QuietArc(prefs)
  /\ quiet = 2 => (minute - 1) % DayLength \in QuietArc(prefs)
  /\ At("evaluate") => quiet <= Late

\* Each pack has a row that is at most as old as the user's last answer about
\* it: SubmitAnswer writes one, and a skip only makes it younger.
StudyOnRecord ==
  \A p \in DOMAIN studied : \E k \in Reviewed(p) : rows[k].age <= studied[p]

\* A row that checkInactivity takes for recent.
RecentRow(k, p) == k \in Reviewed(p) /\ Within(rows[k].age, check.prefs)

\* Packs answered within the days have a recent row, which the check for
\* inactivity has seen or has yet to see.
FreshSeen ==
  At("evaluate") =>
    /\ \A p \in fresh : p \in check.prefs.active /\ \E k \in DOMAIN rows : RecentRow(k, p)
    /\ <<"inactivity">> \in check.found => fresh = {}
    /\ (Reading("inactivity") /\ ~ check.recent) =>
         \A p \in fresh : \E k \in check.questions : RecentRow(k, p)

IInv ==
  /\ TypeOK
  /\ IsFiniteSet(DOMAIN pending)
  /\ {changes, errors} \subseteq Nat
  /\ NightWatch
  /\ StudyOnRecord
  /\ FreshSeen

LEMMA SkippedRow == Skipped \in [age : Ages, interval : Intervals] /\ Skipped.age = 0
<1>1. Intervals \in SUBSET Nat /\ Intervals # {}
  BY NotifierAssumption, BoundAssumption
<1>2. PICK i \in Intervals : \A j \in Intervals : i <= j
  BY <1>1, LeastElement
<1>3. (CHOOSE l \in Intervals : \A j \in Intervals : l <= j) \in Intervals
  BY <1>2
<1>4. QED
  BY <1>3, BoundAssumption DEF Skipped, Ages

LEMMA AgeGrows ==
  ASSUME NEW m \in Nat, NEW a \in 0..m, NEW b \in 0..m
  PROVE  /\ AtMost(a + 1, m) \in 0..m
         /\ a <= b => AtMost(a + 1, m) <= AtMost(b + 1, m)
BY DEF AtMost

LEMMA InitOK == Init => IInv
<1> SUFFICES ASSUME Init PROVE IInv
  OBVIOUS
<1>1. /\ IsTable(rows, Questions, [age : Ages, interval : Intervals])
      /\ IsTable(topics, Packs, [attempts : 1..MaxAttempts, correct : 0..MaxAttempts,
                                 streak : 0..MaxAttempts])
      /\ IsTable(pending, Questions, 0..SkipTimeout)
      /\ IsTable(studied, Packs, Ages)
  BY NoRows DEF Init
<1>2. DOMAIN topics = {} /\ DOMAIN pending = {} /\ DOMAIN studied = {}
  BY NoRows DEF Init
<1>3. IsFiniteSet(DOMAIN pending) /\ Cardinality(DOMAIN pending) <= MaxUnanswered
  BY <1>2, FS_EmptySet, NotifierAssumption
<1>4. check \in Checks /\ minute \in 0..(DayLength - 1) /\ check.at = "idle"
  BY NotifierAssumption DEF Init, Idle, Checks
<1>5. TypeOK
  <2>1. prefs \in PrefValues /\ celebrated \subseteq Milestones /\ fresh \subseteq Packs
    BY DEF Init
  <2>2. quiet \in 0..2 /\ fired \in BOOLEAN
    <3>1. quiet \in 0..2
      BY DEF Init
    <3>2. fired \in BOOLEAN
      BY Zenon DEF Init
    <3>3. QED
      BY <3>1, <3>2
  <2>3. \A p \in DOMAIN topics :
          topics[p].streak <= topics[p].correct /\ topics[p].correct <= topics[p].attempts
    BY <1>2
  <2>4. QED
    BY <1>1, <1>3, <1>4, <2>1, <2>2, <2>3 DEF TypeOK
<1>6. NightWatch /\ FreshSeen /\ StudyOnRecord
  BY <1>2, <1>4 DEF Init, NightWatch, StudyOnRecord, FreshSeen, At
<1>7. QED
  BY <1>2, <1>3, <1>5, <1>6 DEF Init, IInv
-----------------------------------------------------------------------------
(* The steps.                                                              *)

\* A step that leaves the rows, the topics and the time alone.
LEMMA CheckMoves ==
  ASSUME IInv, UNCHANGED <<stored, pending, minute, fired, studied, quiet>>,
         check' \in Checks, celebrated' \subseteq Milestones, fresh' \subseteq Packs,
         {changes', errors'} \subseteq Nat,
         check'.at = "evaluate" => quiet <= Late, FreshSeen'
  PROVE  IInv'
<1>1. TypeOK'
  BY DEF IInv, TypeOK, stored
<1>2. NightWatch'
  BY DEF IInv, NightWatch, At, QuietArc, Late, stored
<1>3. StudyOnRecord'
  BY DEF IInv, StudyOnRecord, Reviewed, stored
<1>4. QED
  BY <1>1, <1>2, <1>3 DEF IInv

LEMMA KindsOfChecks ==
  ASSUME check \in Checks, At("evaluate")
  PROVE  check \in [at : {"evaluate"}, prefs : PrefValues, todo : Seq(Range(Types)),
                    found : SUBSET Notices, questions : SUBSET Questions, stats : SUBSET Packs,
                    recent : BOOLEAN, total : Nat]
BY DEF Checks, At

\* A check that goes over to the type that is next.
LEMMA NextType ==
  ASSUME NEW c \in PrefValues, NEW todo \in Seq(Range(Types)), NEW found \in SUBSET Notices
  PROVE  Check(c, todo, found) \in Checks
<1>1. QuestionsFor(todo, c) \subseteq Questions /\ StatsFor(todo, c) \subseteq Packs
  BY NotifierAssumption DEF QuestionsFor, StatsFor
<1>2. QED
  BY <1>1 DEF Check, Checks

\* At the start of the check for inactivity every row is yet to be read.
LEMMA NothingReadYet ==
  ASSUME NEW c, NEW todo, NEW p \in c.active, NEW k \in Questions, k[1] = p,
         TypeOf(todo) = "inactivity"
  PROVE  k \in QuestionsFor(todo, c)
BY DEF QuestionsFor

LEMMA BeginKeeps == ASSUME IInv, Begin PROVE IInv'
<1>1. CASE check' = Idle /\ fresh' = fresh
  <2>1. check' \in Checks /\ check'.at = "idle"
    BY <1>1 DEF Checks, Idle
  <2>2. FreshSeen'
    BY <2>1 DEF FreshSeen, At
  <2>3. QED
    BY <1>1, <2>1, <2>2, CheckMoves DEF Begin, history, bounds, IInv, TypeOK
<1>2. CASE /\ ~ InQuietHours(TickMinute, prefs)
           /\ check' = Check(prefs, Keep(Types, prefs.on), {})
           /\ fresh' = {p \in prefs.active \cap DOMAIN studied : Within(studied[p], prefs)}
  <2> DEFINE todo == Keep(Types, prefs.on)
  <2>1. Types \in Seq(Range(Types))
    BY DEF Types, Range
  <2>2. todo \in Seq(Range(Types)) /\ prefs \in PrefValues
    BY <2>1, KeepPositions DEF IInv, TypeOK
  <2>3. check' \in Checks
    BY <1>2, <2>2, NextType
  <2>4. fresh' \subseteq Packs
    BY <1>2, <2>2, NotifierAssumption
  <2>5. quiet <= Late
    <3>1. TickMinute = IF fired THEN (minute - 1) % DayLength ELSE minute
      <4>1. DayLength \in Nat \ {0} /\ minute \in 0..(DayLength - 1)
        BY NotifierAssumption DEF IInv, TypeOK
      <4>2. (minute - 0) % DayLength = minute
        BY <4>1, Remainder
      <4>3. QED
        BY <4>2 DEF TickMinute, Late
    <3>2. TickMinute \notin QuietArc(prefs)
      BY <1>2, <2>2, ArcIsQuiet
    <3>3. quiet \in 0..2
      BY DEF IInv, TypeOK
    <3>4. QED
      BY <3>1, <3>2, <3>3 DEF IInv, NightWatch, Late
  <2>6. /\ check'.prefs = prefs /\ check'.found = {} /\ check'.todo = todo
        /\ check'.questions = QuestionsFor(todo, prefs)
    BY <1>2 DEF Check
  <2>7. ASSUME NEW p \in fresh'
        PROVE  /\ p \in prefs.active
               /\ \E k \in Questions : k[1] = p /\ RecentRow(k, p)'
    <3>1. p \in prefs.active /\ p \in DOMAIN studied /\ Within(studied[p], prefs)
      BY <1>2
    <3>2. PICK k \in Reviewed(p) : rows[k].age <= studied[p]
      BY <3>1 DEF IInv, StudyOnRecord
    <3>3. k \in Questions /\ k[1] = p /\ rows[k].age \in Int /\ studied[p] \in Int
      BY <3>1, <3>2, BoundAssumption DEF IInv, TypeOK, IsTable, Ages, Reviewed
    <3>4. prefs.days * DayLength \in Int /\ Late \in Int
      BY <2>2, NotifierAssumption DEF Late
    <3>5. Within(rows[k].age, prefs)
      BY <3>1, <3>2, <3>3, <3>4 DEF Within
    <3>6. RecentRow(k, p)'
      BY <2>6, <3>2, <3>5 DEF RecentRow, Begin, stored, Reviewed, Within, Late
    <3>7. QED
      BY <3>1, <3>3, <3>6
  <2>8. FreshSeen'
    <3>1. \A p \in fresh' : p \in check'.prefs.active /\ \E k \in DOMAIN rows' : RecentRow(k, p)'
      BY <2>6, <2>7 DEF RecentRow, Reviewed
    <3>2. Reading("inactivity")' => \A p \in fresh' : \E k \in check'.questions : RecentRow(k, p)'
      BY <2>6, <2>7, NothingReadYet DEF Reading
    <3>3. QED
      BY <2>6, <3>1, <3>2 DEF FreshSeen
  <2>9. QED
    BY <2>3, <2>4, <2>5, <2>8, CheckMoves DEF Begin, history, bounds, IInv, TypeOK
<1>3. QED
  BY <1>1, <1>2 DEF Begin

\* A check that goes on with the same preferences keeps to the fresh packs.
LEMMA GoesOn ==
  ASSUME IInv, At("evaluate"), UNCHANGED <<rows, fired>>,
         check'.at = "evaluate", check'.prefs = check.prefs, fresh' \subseteq fresh,
         <<"inactivity">> \in check'.found => fresh' = {},
         (Reading("inactivity")' /\ ~ check'.recent) =>
            \A p \in fresh' : \E k \in check'.questions : RecentRow(k, p)
  PROVE  FreshSeen'
<1>1. \A k, p : RecentRow(k, p)' <=> RecentRow(k, p)
  BY DEF RecentRow, Reviewed, Within, Late
<1>2. \A p \in fresh' : p \in check'.prefs.active /\ \E k \in DOMAIN rows' : RecentRow(k, p)'
  BY <1>1 DEF IInv, FreshSeen
<1>3. QED
  BY <1>1, <1>2 DEF FreshSeen

\* What a step of the check leaves alone.
Alone == UNCHANGED <<stored, pending, minute, fired, history, bounds>>

LEMMA ReadsKeep ==
  ASSUME IInv, At("evaluate"), Alone, fresh' \subseteq fresh, check' \in Checks,
         check'.at = "evaluate", check'.prefs = check.prefs,
         <<"inactivity">> \in check'.found => fresh' = {},
         (Reading("inactivity")' /\ ~ check'.recent) =>
            \A p \in fresh' : \E k \in check'.questions : RecentRow(k, p)
  PROVE  IInv'
<1>1. FreshSeen'
  BY GoesOn DEF Alone, stored
<1>2. quiet <= Late
  BY DEF IInv, NightWatch
<1>3. QED
  BY <1>1, <1>2, CheckMoves DEF Alone, history, bounds, IInv, TypeOK

LEMMA ReadQuestionKeeps == ASSUME IInv, At("evaluate"), ReadQuestion PROVE IInv'
<1>1. check \in [at : {"evaluate"}, prefs : PrefValues, todo : Seq(Range(Types)),
                 found : SUBSET Notices, questions : SUBSET Questions, stats : SUBSET Packs,
                 recent : BOOLEAN, total : Nat]
  BY KindsOfChecks DEF IInv, TypeOK
<1>2. Alone /\ fresh' = fresh
  BY DEF ReadQuestion, Alone
<1>3. <<"inactivity">> \in check.found => fresh = {}
  BY DEF IInv, FreshSeen
<1>4. ASSUME NEW k \in check.questions, Reading("inactivity"), Review(k)
      PROVE  IInv'
  <2> DEFINE now == check.recent \/ (k \in DOMAIN rows /\ Within(rows[k].age, check.prefs))
  <2>1. check' = [check EXCEPT !.questions = @ \ {k}, !.recent = now]
    BY <1>4 DEF Review
  <2>2. now \in BOOLEAN
    BY <1>1
  <2> HIDE DEF now
  <2>3. /\ check'.at = "evaluate" /\ check'.prefs = check.prefs /\ check'.found = check.found
        /\ check'.questions = check.questions \ {k} /\ check'.recent = now
        /\ check' \in Checks
    BY <1>1, <2>1, <2>2 DEF Checks
  <2>4. ASSUME ~ check'.recent, NEW p \in fresh
        PROVE  \E l \in check'.questions : RecentRow(l, p)
    <3>1. ~ check.recent /\ ~ (k \in DOMAIN rows /\ Within(rows[k].age, check.prefs))
      BY <2>3, <2>4 DEF now
    <3>2. PICK l \in check.questions : RecentRow(l, p)
      BY <1>4, <3>1 DEF IInv, FreshSeen, Reading
    <3>3. l # k
      BY <3>1, <3>2 DEF RecentRow, Reviewed
    <3>4. QED
      BY <2>3, <3>2, <3>3
  <2>5. QED
    BY <1>2, <1>3, <2>3, <2>4, ReadsKeep
<1>5. ASSUME NEW k \in check.questions, Reading("streak"), ReviewToday(k)
      PROVE  IInv'
  <2>1. /\ check'.at = "evaluate" /\ check'.prefs = check.prefs /\ check'.found = check.found
        /\ check'.todo = check.todo /\ check' \in Checks
    BY <1>1, <1>5 DEF ReviewToday, Checks
  <2>2. ~ Reading("inactivity")'
    BY <1>5, <2>1 DEF Reading
  <2>3. QED
    BY <1>2, <1>3, <2>1, <2>2, ReadsKeep
<1>6. QED
  BY <1>4, <1>5 DEF ReadQuestion

LEMMA ReadStatsKeeps == ASSUME IInv, At("evaluate"), ReadStats PROVE IInv'
<1>1. check \in [at : {"evaluate"}, prefs : PrefValues, todo : Seq(Range(Types)),
                 found : SUBSET Notices, questions : SUBSET Questions, stats : SUBSET Packs,
                 recent : BOOLEAN, total : Nat]
  BY KindsOfChecks DEF IInv, TypeOK
<1>2. Alone /\ fresh' = fresh
  BY DEF ReadStats, Alone
<1>3. <<"inactivity">> \in check.found => fresh = {}
  BY DEF IInv, FreshSeen
<1>4. PICK p \in check.stats :
        LET read == [check EXCEPT !.stats = @ \ {p}]
        IN  \/ /\ Reading("weak")
               /\ check' = IF Weak(p, check.prefs)
                             THEN [read EXCEPT !.found = @ \cup {<<"weak", p>>}] ELSE read
            \/ /\ Reading("milestone")
               /\ check' = [read EXCEPT !.total = @ + Attempts(p)]
            \/ /\ Reading("streak")
               /\ check' = IF AtRisk(p)
                             THEN [read EXCEPT !.found = @ \cup {<<"streak", p>>}] ELSE read
  BY DEF ReadStats
<1>5. p \in Packs /\ Attempts(p) \in Nat
  BY <1>1, BoundAssumption DEF Attempts, IInv, TypeOK, IsTable
<1>6. {<<"weak", p>>, <<"streak", p>>} \subseteq Notices
  BY <1>5 DEF Notices
<1>7. /\ check'.at = "evaluate" /\ check'.prefs = check.prefs /\ check'.todo = check.todo
      /\ check' \in Checks /\ check'.found \subseteq check.found \cup {<<"weak", p>>, <<"streak", p>>}
  <2> DEFINE read == [check EXCEPT !.stats = @ \ {p}]
  <2>1. read \in [at : {"evaluate"}, prefs : {check.prefs}, todo : {check.todo},
                  found : {check.found}, questions : SUBSET Questions, stats : SUBSET Packs,
                  recent : BOOLEAN, total : Nat]
    BY <1>1
  <2>2. \/ check' = read
        \/ check' = [read EXCEPT !.total = @ + Attempts(p)]
        \/ \E n \in {<<"weak", p>>, <<"streak", p>>} : check' = [read EXCEPT !.found = @ \cup {n}]
    BY <1>4
  <2> HIDE DEF read
  <2>3. check' \in [at : {"evaluate"}, prefs : {check.prefs}, todo : {check.todo},
                    found : SUBSET (check.found \cup {<<"weak", p>>, <<"streak", p>>}),
                    questions : SUBSET Questions, stats : SUBSET Packs,
                    recent : BOOLEAN, total : Nat]
    <3>1. read.total + Attempts(p) \in Nat
      BY <1>5, <2>1
    <3>2. QED
      BY <2>1, <2>2, <3>1
  <2>4. QED
    BY <1>1, <1>6, <2>3 DEF Checks
<1>8. ~ Reading("inactivity")'
  BY <1>4, <1>7 DEF Reading
<1>9. <<"inactivity">> \in check'.found => fresh' = {}
  <2>1. <<"inactivity">> # <<"weak", p>> /\ <<"inactivity">> # <<"streak", p>>
    OBVIOUS
  <2>2. QED
    BY <1>2, <1>3, <1>7, <2>1
<1>10. QED
  BY <1>2, <1>7, <1>8, <1>9, ReadsKeep

LEMMA ConcludeKeeps == ASSUME IInv, At("evaluate"), Conclude PROVE IInv'
<1>1. check \in [at : {"evaluate"}, prefs : PrefValues, todo : Seq(Range(Types)),
                 found : SUBSET Notices, questions : SUBSET Questions, stats : SUBSET Packs,
                 recent : BOOLEAN, total : Nat]
  BY KindsOfChecks DEF IInv, TypeOK
<1> DEFINE todo == Tail(check.todo)
           found == check.found \cup Conclusion
<1>2. /\ Alone /\ fresh' = fresh /\ check' = Check(check.prefs, todo, found)
      /\ check.todo # <<>> /\ check.questions = {}
  BY DEF Conclude, Alone
<1>3. todo \in Seq(Range(Types))
  BY <1>1, <1>2
<1>4. Conclusion \subseteq Notices
  BY DEF Conclusion, Notices
<1>5. check' \in Checks
  BY <1>1, <1>2, <1>3, <1>4, NextType
<1>6. /\ check'.at = "evaluate" /\ check'.prefs = check.prefs /\ check'.found = found
      /\ check'.todo = todo /\ check'.questions = QuestionsFor(todo, check.prefs)
  BY <1>2 DEF Check
<1>7. <<"inactivity">> \in check'.found => fresh' = {}
  <2> SUFFICES ASSUME <<"inactivity">> \in Conclusion PROVE fresh = {}
    BY <1>2, <1>6 DEF IInv, FreshSeen
  <2>1. Reading("inactivity") /\ ~ check.recent
    BY DEF Conclusion
  <2>2. QED
    BY <1>2, <2>1 DEF IInv, FreshSeen
<1>8. ASSUME Reading("inactivity")', NEW p \in fresh
      PROVE  \E k \in check'.questions : RecentRow(k, p)
  <2>1. PICK k \in DOMAIN rows : RecentRow(k, p)
    BY DEF IInv, FreshSeen
  <2>2. k \in Questions /\ k[1] = p /\ p \in check.prefs.active
    BY <2>1 DEF RecentRow, Reviewed, IInv, TypeOK, IsTable, FreshSeen
  <2>3. TypeOf(todo) = "inactivity"
    BY <1>6, <1>8 DEF Reading
  <2>4. QED
    BY <1>6, <2>1, <2>2, <2>3, NothingReadYet
<1>9. QED
  BY <1>2, <1>5, <1>6, <1>7, <1>8, ReadsKeep

LEMMA PackUnreadKeeps == ASSUME IInv, PackUnread PROVE IInv'
<1>1. check \in [at : {"evaluate"}, prefs : PrefValues, todo : Seq(Range(Types)),
                 found : SUBSET Notices, questions : SUBSET Questions, stats : SUBSET Packs,
                 recent : BOOLEAN, total : Nat]
  BY KindsOfChecks DEF PackUnread, IInv, TypeOK
<1>2. PICK p \in check.prefs.active :
        /\ check' = [check EXCEPT !.questions = @ \ OfPack(p), !.stats = @ \ {p}]
        /\ fresh' = IF Reading("inactivity") THEN fresh \ {p} ELSE fresh
  BY DEF PackUnread
<1>3. /\ check'.at = "evaluate" /\ check'.prefs = check.prefs /\ check'.found = check.found
      /\ check'.todo = check.todo /\ check'.recent = check.recent
      /\ check'.questions = check.questions \ OfPack(p) /\ check' \in Checks
  BY <1>1, <1>2 DEF Checks
<1>4. fresh' \subseteq fresh /\ (<<"inactivity">> \in check'.found => fresh' = {})
  BY <1>2, <1>3 DEF PackUnread, IInv, FreshSeen
<1>5. ASSUME Reading("inactivity")', ~ check'.recent, NEW o \in fresh'
      PROVE  \E k \in check'.questions : RecentRow(k, o)
  <2>1. Reading("inactivity") /\ ~ check.recent /\ o \in fresh /\ o # p
    BY <1>1, <1>2, <1>3, <1>5 DEF Reading, At
  <2>2. PICK k \in check.questions : RecentRow(k, o)
    BY <2>1 DEF IInv, FreshSeen, Reading
  <2>3. k \notin OfPack(p)
    BY <2>1, <2>2 DEF RecentRow, Reviewed, OfPack
  <2>4. QED
    BY <1>3, <2>2, <2>3
<1>6. FreshSeen'
  BY <1>3, <1>4, <1>5, GoesOn DEF PackUnread, stored
<1>7. quiet <= Late
  BY DEF PackUnread, IInv, NightWatch
<1>8. errors' \in Nat
  BY DEF PackUnread, IInv
<1>9. fresh' \subseteq Packs
  BY <1>4 DEF IInv, TypeOK
<1>10. QED
  BY <1>3, <1>6, <1>7, <1>8, <1>9, CheckMoves DEF PackUnread, history, IInv, TypeOK

\* The check is over.
LEMMA IdleKeeps ==
  ASSUME IInv, check' = Idle, fresh' = {},
         UNCHANGED <<stored, pending, minute, fired, history>>, {changes', errors'} \subseteq Nat
  PROVE  IInv'
<1>1. check' \in Checks /\ check'.at = "idle"
  BY DEF Idle, Checks
<1>2. FreshSeen'
  BY <1>1 DEF FreshSeen, At
<1>3. QED
  BY <1>1, <1>2, CheckMoves DEF history, IInv, TypeOK

LEMMA CheckFailsKeeps == ASSUME IInv, CheckFails PROVE IInv'
<1>1. errors' \in Nat
  BY DEF CheckFails, IInv
<1>2. QED
  BY <1>1, IdleKeeps DEF CheckFails, IInv

LEMMA DoneKeeps == ASSUME IInv, Done PROVE IInv'
BY IdleKeeps DEF Done, bounds, IInv

LEMMA SendKeeps == ASSUME IInv, SendNotification PROVE IInv'
<1>1. PICK n \in check.found : check' = [check EXCEPT !.found = @ \ {n}]
  BY DEF SendNotification
<1>2. Reading("none") /\ At("evaluate") /\ fresh' = fresh
  BY DEF SendNotification, Reading
<1>3. check \in [at : {"evaluate"}, prefs : PrefValues, todo : Seq(Range(Types)),
                 found : SUBSET Notices, questions : SUBSET Questions, stats : SUBSET Packs,
                 recent : BOOLEAN, total : Nat]
  BY <1>2, KindsOfChecks DEF IInv, TypeOK
<1>4. /\ check'.at = "evaluate" /\ check'.prefs = check.prefs /\ check'.found = check.found \ {n}
      /\ check'.todo = check.todo /\ check' \in Checks
  BY <1>1, <1>3 DEF Checks
<1>5. FreshSeen'
  <2>1. ~ Reading("inactivity")'
    BY <1>2, <1>4 DEF Reading
  <2>2. <<"inactivity">> \in check'.found => fresh' = {}
    BY <1>2, <1>4 DEF IInv, FreshSeen
  <2>3. QED
    BY <1>2, <1>4, <2>1, <2>2, GoesOn DEF SendNotification, stored
<1>6. celebrated' \subseteq Milestones /\ errors' \in Nat
  BY DEF SendNotification, IInv, TypeOK
<1>7. quiet <= Late
  BY <1>2 DEF IInv, NightWatch
<1>8. QED
  BY <1>2, <1>4, <1>5, <1>6, <1>7, CheckMoves DEF SendNotification, IInv, TypeOK

\* Time: every age grows by the same, up to a limit that is the same for all.
LEMMA PassKeeps == ASSUME IInv, Pass PROVE IInv'
<1>1. MaxAge \in Nat /\ SkipTimeout \in Nat /\ DayLength \in Nat \ {0}
  BY NotifierAssumption, BoundAssumption
<1>2. /\ IsTable(rows, Questions, [age : Ages, interval : Intervals])
      /\ IsTable(pending, Questions, 0..SkipTimeout)
      /\ IsTable(studied, Packs, Ages)
  BY DEF IInv, TypeOK
<1>3. /\ rows' = [k \in DOMAIN rows |-> [rows[k] EXCEPT !.age = AtMost(@ + 1, MaxAge)]]
      /\ pending' = [k \in DOMAIN pending |-> AtMost(pending[k] + 1, SkipTimeout)]
      /\ studied' = [p \in DOMAIN studied |-> AtMost(studied[p] + 1, MaxAge)]
  BY DEF Pass
<1>4. ASSUME NEW k \in DOMAIN rows
      PROVE  /\ rows[k] \in [age : Ages, interval : Intervals]
             /\ rows'[k] = [rows[k] EXCEPT !.age = AtMost(rows[k].age + 1, MaxAge)]
             /\ rows'[k] \in [age : Ages, interval : Intervals]
             /\ rows'[k].age = AtMost(rows[k].age + 1, MaxAge)
  BY <1>1, <1>2, <1>3, AgeGrows DEF IsTable, Ages
<1>5. IsTable(rows, Questions, [age : Ages, interval : Intervals])'
  BY <1>2, <1>3, <1>4 DEF IsTable, Ages
<1>6. IsTable(pending, Questions, 0..SkipTimeout)' /\ DOMAIN pending' = DOMAIN pending
  BY <1>1, <1>2, <1>3, AgeGrows DEF IsTable
<1>7. IsTable(studied, Packs, Ages)'
  BY <1>1, <1>2, <1>3, AgeGrows DEF IsTable, Ages
<1>8. /\ minute' \in 0..(DayLength - 1) /\ fired' \in BOOLEAN /\ quiet' \in 0..2
  BY <1>1 DEF Pass, AtMost, IInv, TypeOK
<1>9. TypeOK'
  BY <1>5, <1>6, <1>7, <1>8 DEF Pass, bounds, IInv, TypeOK
<1>10. StudyOnRecord'
  <2> SUFFICES ASSUME NEW p \in DOMAIN studied'
               PROVE  \E k \in Reviewed(p)' : rows'[k].age <= studied'[p]
    BY DEF StudyOnRecord
  <2>1. PICK k \in Reviewed(p) : rows[k].age <= studied[p]
    BY <1>3 DEF IInv, StudyOnRecord
  <2>2. k \in Reviewed(p)' /\ k \in DOMAIN rows
    BY <1>3 DEF Reviewed
  <2>3. rows[k].age \in 0..MaxAge /\ studied[p] \in 0..MaxAge
    BY <1>2, <1>3, <2>2, <1>4 DEF IsTable, Ages
  <2>4. rows'[k].age <= studied'[p]
    BY <1>1, <1>3, <1>4, <2>1, <2>2, <2>3, AgeGrows
  <2>5. QED
    BY <2>2, <2>4
<1>11. NightWatch'
  <2>1. minute \in 0..(DayLength - 1) /\ quiet \in 0..2
    BY DEF IInv, TypeOK
  <2>2. quiet' >= 1 => minute' \in QuietArc(prefs)'
    BY DEF Pass, QuietArc
  <2>3. quiet' = 2 => quiet >= 1
    BY <2>1 DEF Pass, AtMost
  <2>4. (minute' - 1) % DayLength = minute
    <3> DEFINE d == DayLength
    <3>1. minute' = (minute + 1) % d /\ d \in Nat \ {0} /\ minute \in 0..(d - 1)
      BY <1>1, <2>1 DEF Pass
    <3> HIDE DEF d
    <3>2. \A x \in (-d)..(2 * d - 1) :
            x % d = IF x < 0 THEN x + d ELSE IF x < d THEN x ELSE x - d
      BY <3>1, Remainder
    <3>3. minute + 1 \in (-d)..(2 * d - 1)
      BY <3>1
    <3>4. minute' = IF minute + 1 < d THEN minute + 1 ELSE 0
      BY <3>1, <3>2, <3>3
    <3>5. minute' - 1 \in (-d)..(2 * d - 1)
      BY <3>1, <3>4
    <3>6. (minute' - 1) % d = minute
      BY <3>1, <3>2, <3>4, <3>5
    <3>7. QED
      BY <3>6 DEF d
  <2>5. quiet' = 2 => (minute' - 1) % DayLength \in QuietArc(prefs)'
    BY <2>3, <2>4 DEF Pass, IInv, NightWatch, QuietArc
  <2>6. At("evaluate")' => quiet' <= Late'
    BY <2>1 DEF Pass, AtMost, IInv, NightWatch, At, Late
  <2>7. QED
    BY <2>2, <2>5, <2>6 DEF NightWatch
<1>12. FreshSeen'
  <2> SUFFICES ASSUME At("evaluate") PROVE FreshSeen'
    BY DEF Pass, FreshSeen, At
  <2>1. check \in Checks /\ check.prefs \in PrefValues
    BY KindsOfChecks DEF IInv, TypeOK
  <2>2. check.prefs.days * DayLength \in Nat
    BY <2>1, NotifierAssumption
  <2>3. ASSUME NEW k, NEW p, RecentRow(k, p)
        PROVE  RecentRow(k, p)'
    <3>1. k \in DOMAIN rows /\ k[1] = p /\ rows[k].age \in 0..MaxAge
      BY <1>4, <2>3 DEF RecentRow, Reviewed, Ages
    <3>2. rows'[k].age = AtMost(rows[k].age + 1, MaxAge)
      BY <1>4, <3>1
    <3>3. rows[k].age <= check.prefs.days * DayLength
      <4>1. Late = 0
        BY DEF Late, Pass
      <4>2. rows[k].age <= check.prefs.days * DayLength + Late
        BY <2>3 DEF RecentRow, Within
      <4>3. QED
        BY <2>2, <4>1, <4>2
    <3>4. rows'[k].age \in Int /\ rows'[k].age <= rows[k].age + 1
      BY <1>1, <3>1, <3>2 DEF AtMost
    <3>5. Within(rows[k].age, check.prefs)'
      BY <2>2, <3>1, <3>2, <3>3, <3>4 DEF Within, Late, Pass
    <3>6. QED
      BY <1>3, <3>1, <3>5 DEF RecentRow, Reviewed
  <2>4. QED
    BY <1>3, <2>3 DEF Pass, IInv, FreshSeen, At, Reading
<1>13. QED
  BY <1>6, <1>9, <1>10, <1>11, <1>12 DEF Pass, bounds, IInv

LEMMA ChangePrefsKeeps ==
  ASSUME IInv, NEW c \in PrefValues, ChangePrefs(c)
  PROVE  IInv'
<1>1. TypeOK'
  BY DEF ChangePrefs, history, IInv, TypeOK
<1>2. NightWatch'
  BY DEF ChangePrefs, IInv, NightWatch, At, Late
<1>3. StudyOnRecord'
  BY DEF ChangePrefs, history, IInv, StudyOnRecord, Reviewed
<1>4. FreshSeen'
  BY DEF ChangePrefs, IInv, FreshSeen, At, Reading, RecentRow, Reviewed, Within, Late
<1>5. QED
  BY <1>1, <1>2, <1>3, <1>4 DEF ChangePrefs, IInv

\* An answer: the question's row is as young as the study it counts as.
LEMMA AnswerKeeps ==
  ASSUME IInv, NEW k \in Questions, NEW correct \in BOOLEAN, NEW i \in Intervals,
         Answer(k, correct, i)
  PROVE  IInv'
<1> DEFINE p == k[1]
           before == IF p \in DOMAIN topics THEN topics[p]
                     ELSE [attempts |-> 0, correct |-> 0, streak |-> 0]
           after == [attempts |-> before.attempts + 1,
                     correct |-> before.correct + (IF correct THEN 1 ELSE 0),
                     streak |-> IF correct THEN before.streak + 1 ELSE 0]
           row == IF correct THEN [age |-> 0, interval |-> i] ELSE Skipped
<1>1. /\ before.attempts < MaxAttempts
      /\ rows' = Put(rows, k, row)
      /\ topics' = Put(topics, p, after)
      /\ studied' = Put(studied, p, 0)
  BY DEF Answer
<1>2. p \in Packs /\ MaxAge \in Nat /\ MaxAttempts \in Nat
  BY NotifierAssumption, BoundAssumption
<1>3. row \in [age : Ages, interval : Intervals] /\ row.age = 0
  BY <1>2, SkippedRow DEF Ages
<1>4. /\ before.attempts \in 0..MaxAttempts /\ before.correct \in 0..MaxAttempts
      /\ before.streak \in 0..MaxAttempts
      /\ before.streak <= before.correct /\ before.correct <= before.attempts
  BY <1>2 DEF IInv, TypeOK, IsTable
<1>5. /\ after \in [attempts : 1..MaxAttempts, correct : 0..MaxAttempts, streak : 0..MaxAttempts]
      /\ after.streak <= after.correct /\ after.correct <= after.attempts
  BY <1>1, <1>2, <1>4
<1>6. /\ IsTable(rows, Questions, [age : Ages, interval : Intervals])'
      /\ IsTable(topics, Packs, [attempts : 1..MaxAttempts, correct : 0..MaxAttempts,
                                 streak : 0..MaxAttempts])'
      /\ IsTable(studied, Packs, Ages)'
  BY <1>1, <1>2, <1>3, <1>5, PutRow DEF IInv, TypeOK, Ages
<1>7. \A o \in DOMAIN topics' :
        topics'[o].streak <= topics'[o].correct /\ topics'[o].correct <= topics'[o].attempts
  BY <1>1, <1>5 DEF Put, IInv, TypeOK
<1>8. TypeOK'
  BY <1>6, <1>7 DEF Answer, bounds, IInv, TypeOK
<1>9. StudyOnRecord'
  <2> SUFFICES ASSUME NEW o \in DOMAIN studied'
               PROVE  \E l \in Reviewed(o)' : rows'[l].age <= studied'[o]
    BY DEF StudyOnRecord
  <2>1. CASE o = p
    BY <2>1, <1>1, <1>3 DEF Reviewed, Put
  <2>2. CASE o # p
    <3>1. o \in DOMAIN studied /\ studied'[o] = studied[o]
      BY <2>2, <1>1 DEF Put
    <3>2. PICK l \in Reviewed(o) : rows[l].age <= studied[o]
      BY <3>1 DEF IInv, StudyOnRecord
    <3>3. l # k /\ l \in Reviewed(o)' /\ rows'[l] = rows[l]
      BY <2>2, <3>2, <1>1 DEF Reviewed, Put
    <3>4. QED
      BY <3>1, <3>2, <3>3
  <2>3. QED
    BY <2>1, <2>2
<1>10. NightWatch'
  BY DEF Answer, IInv, NightWatch, At, QuietArc, Late
<1>11. FreshSeen'
  <2> SUFFICES ASSUME At("evaluate") PROVE FreshSeen'
    BY DEF Answer, FreshSeen, At
  <2>1. check.prefs \in PrefValues
    BY KindsOfChecks DEF IInv, TypeOK
  <2>2. check.prefs.days * DayLength \in Nat
    BY <2>1, NotifierAssumption
  <2>3. ASSUME NEW l, NEW o, RecentRow(l, o)
        PROVE  RecentRow(l, o)'
    <3>1. l \in DOMAIN rows /\ l[1] = o
      BY <2>3 DEF RecentRow, Reviewed
    <3>2. l \in DOMAIN rows' /\ rows'[l] = IF l = k THEN row ELSE rows[l]
      BY <1>1, <3>1 DEF Put
    <3>3. Within(rows'[l].age, check.prefs)
      BY <1>3, <2>2, <2>3, <3>2 DEF RecentRow, Within, Late
    <3>4. QED
      BY <3>1, <3>2, <3>3 DEF RecentRow, Reviewed, Within, Late, Answer
  <2>4. DOMAIN rows \subseteq DOMAIN rows'
    BY <1>1 DEF Put
  <2>5. QED
    BY <2>3, <2>4 DEF Answer, IInv, FreshSeen, At, Reading
<1>12. QED
  BY <1>8, <1>9, <1>10, <1>11 DEF Answer, bounds, IInv

\* A tick: at most one question is added to those that have time left, and a
\* skip writes a row that is as young as can be.
LEMMA TickKeeps == ASSUME IInv, Tick PROVE IInv'
<1> DEFINE left == {k \in DOMAIN pending : pending[k] < SkipTimeout}
           skipped == {k \in DOMAIN pending \ left : k[1] \in prefs.active}
           due == {k \in Questions \ left : k[1] \in prefs.active /\ IsDue(k, rows')}
           Sent(k) == pending' = [l \in left \cup {k} |-> IF l = k THEN 0 ELSE pending[l]]
<1>1. /\ rows' = [k \in DOMAIN rows \cup skipped |-> IF k \in skipped THEN Skipped ELSE rows[k]]
      /\ \/ /\ Cardinality(left) < MaxUnanswered
            /\ check' = [at |-> "begin"] /\ \E k \in due : Sent(k)
         \/ pending' = [l \in left |-> pending[l]] /\ check' = check
  BY DEF Tick
<1>2. /\ IsTable(rows, Questions, [age : Ages, interval : Intervals])
      /\ IsTable(pending, Questions, 0..SkipTimeout)
      /\ MaxUnanswered \in Nat /\ SkipTimeout \in Nat
  BY NotifierAssumption DEF IInv, TypeOK
<1>3. IsTable(rows, Questions, [age : Ages, interval : Intervals])'
  BY <1>1, <1>2, SkippedRow DEF IsTable
<1>4. /\ IsFiniteSet(left) /\ Cardinality(left) \in Nat
      /\ Cardinality(left) <= Cardinality(DOMAIN pending)
  BY FS_Subset, FS_CardinalityType DEF IInv
<1> DEFINE Kept == /\ IsTable(pending, Questions, 0..SkipTimeout)'
                   /\ IsFiniteSet(DOMAIN pending') /\ Cardinality(DOMAIN pending') <= MaxUnanswered
<1>5. Kept
  <2>1. CASE pending' = [l \in left |-> pending[l]]
    <3>1. Cardinality(DOMAIN pending) <= MaxUnanswered /\ Cardinality(DOMAIN pending) \in Nat
      BY FS_CardinalityType DEF IInv, TypeOK
    <3>2. QED
      BY <2>1, <1>2, <1>4, <3>1 DEF IsTable
  <2>2. ASSUME Cardinality(left) < MaxUnanswered, NEW k \in due, Sent(k)
        PROVE  Kept
    <3>1. DOMAIN pending' = left \cup {k} /\ k \in Questions
      BY <2>2
    <3>2. /\ IsFiniteSet(left \cup {k})
          /\ Cardinality(left \cup {k}) = IF k \in left THEN Cardinality(left)
                                          ELSE Cardinality(left) + 1
      <4> HIDE DEF left, due
      <4>1. QED
        BY <1>4, FS_AddElement
    <3>3. Cardinality(left \cup {k}) <= MaxUnanswered
      BY <1>2, <1>4, <2>2, <3>2
    <3>4. QED
      BY <2>2, <1>2, <3>1, <3>2, <3>3 DEF IsTable
  <2>3. QED
    <3> HIDE DEF left, due, Sent, Kept
    <3>1. QED
      BY <1>1, <2>1, <2>2
<1>6. check' \in Checks /\ check'.at # "evaluate"
  BY <1>1 DEF Tick, At, Checks, IInv, TypeOK
<1>7. TypeOK'
  BY <1>3, <1>5, <1>6 DEF Tick, history, bounds, IInv, TypeOK
<1>8. StudyOnRecord'
  <2> SUFFICES ASSUME NEW p \in DOMAIN studied
               PROVE  \E k \in Reviewed(p)' : rows'[k].age <= studied[p]
    BY DEF StudyOnRecord, Tick, history
  <2>1. PICK k \in Reviewed(p) : rows[k].age <= studied[p]
    BY DEF IInv, StudyOnRecord
  <2>2. k \in Reviewed(p)' /\ (rows'[k] = rows[k] \/ rows'[k] = Skipped)
    BY <1>1, <2>1 DEF Reviewed
  <2>3. studied[p] \in Nat
    BY BoundAssumption DEF IInv, TypeOK, IsTable, Ages
  <2>4. QED
    BY <2>1, <2>2, <2>3, SkippedRow
<1>9. NightWatch' /\ FreshSeen'
  BY <1>6 DEF Tick, history, IInv, NightWatch, FreshSeen, At, QuietArc
<1>10. QED
  BY <1>5, <1>7, <1>8, <1>9 DEF Tick, bounds, IInv
-----------------------------------------------------------------------------
(* The theorems.                                                           *)

LEMMA Step == IInv /\ [Next]_vars => IInv'
<1> SUFFICES ASSUME IInv, [Next]_vars PROVE IInv'
  OBVIOUS
<1>1. CASE UNCHANGED vars
  BY <1>1 DEF vars, stored, history, bounds, IInv, TypeOK, NightWatch, At, QuietArc, Late,
              StudyOnRecord, Reviewed, FreshSeen, Reading, RecentRow, Within
<1>2. CASE CheckStep
  BY <1>2, BeginKeeps, ReadQuestionKeeps, ReadStatsKeeps, ConcludeKeeps, SendKeeps, DoneKeeps
     DEF CheckStep
<1>3. CASE \E k \in Questions, correct \in BOOLEAN, i \in Intervals : Answer(k, correct, i)
  BY <1>3, AnswerKeeps
<1>4. CASE \E c \in PrefValues : ChangePrefs(c)
  BY <1>4, ChangePrefsKeeps
<1>5. QED
  BY <1>1, <1>2, <1>3, <1>4, TickKeeps, PackUnreadKeeps, CheckFailsKeeps, PassKeeps DEF Next

THEOREM Invariance == Spec => []IInv
BY InitOK, Step, PTL DEF Spec

\* The rows, the topics, the pending questions and the check under way have
\* their types; no topic counts more correct answers than answers, and no
\* more questions are pending than the limit allows.
THEOREM TypeCorrect == Spec => []TypeOK
<1>1. IInv => TypeOK
  BY DEF IInv
<1>2. QED
  BY <1>1, Invariance, PTL

\* Once the stored preferences have made the hours quiet for longer than a tick
\* takes, no notification is sent, whatever the window and whatever the user
\* has changed before or during the check.
THEOREM NightsFallQuiet == Spec => QuietAtNight
<1>1. IInv => (SendsAny => quiet < 2)
  BY DEF IInv, TypeOK, NightWatch, SendsAny, Late
<1>2. IInv /\ [Next]_vars => [SendsAny => quiet < 2]_vars
  BY <1>1
<1>3. QED
  BY <1>2, Invariance, PTL DEF Spec, QuietAtNight

\* The reminder of inactivity goes out only when each active pack that had an
\* answer within the days as the check began could not be read, however the
\* rows are read between answers.
THEOREM RemindersHold == Spec => RemindersAreTrue
<1>1. IInv => (Sends(<<"inactivity">>) => fresh = {})
  BY DEF IInv, FreshSeen, Sends, Reading
<1>2. IInv /\ [Next]_vars => [Sends(<<"inactivity">>) => fresh = {}]_vars
  BY <1>1
<1>3. QED
  BY <1>2, Invariance, PTL DEF Spec, RemindersAreTrue
=============================================================================
