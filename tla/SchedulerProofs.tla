-------------------------- MODULE SchedulerProofs --------------------------
(***************************************************************************)
(* Proofs about Scheduler, for any packs, limits, intervals, timeouts,     *)
(* answers, changes of the preferences and failures.  IInv is inductive;   *)
(* there is a lemma for every action.                                      *)
(***************************************************************************)
EXTENDS Scheduler, DataProofs
-----------------------------------------------------------------------------
(* The invariant in parts.                                                 *)

\* What the history keeps of a delivery.
Entries == [answered : BOOLEAN, age : 0..SkipTimeout]

\* The type of the tables, of the preferences and of the clock.
StoreOK ==
  /\ IsTable(rows, Keys, Int)
  /\ active \in Seq(Packs) /\ IsInjective(active)
  /\ limit \in Limits
  /\ sinceSent \in 0..DeliveryInterval \cup {Never}
  /\ fired \in BOOLEAN
  /\ IsTable(chat, Keys, Entries)

\* What holds of the list of pending questions, whatever the goroutine does.
PendingOK ==
  /\ pending \in Seq([q : Questions, age : 0..SkipTimeout])
  /\ \A i, j \in DOMAIN pending : pending[i].q = pending[j].q => i = j
  /\ \A i \in DOMAIN pending : Delivered(pending[i].q, pending[i].age)

\* What holds where the goroutine stands.
TickOK ==
  /\ At("idle") \/ At("prefs")
       \/ (At("select") /\ tick.packs \in Seq(Packs) /\ tick.limit \in Limits)
       \/ ((At("send") \/ At("track")) /\ tick.key \in Keys /\ tick.limit \in Limits)
       \/ (At("skip") /\ tick.queue \in Seq(Questions) \ {<<>>})
       \/ (At("skipPut") /\ tick.queue \in Seq(Questions) \ {<<>>} /\ tick.pack \in Imported)
  /\ (At("send") \/ At("track")) => tick.key[2] \notin PendingIDs
  /\ (At("skip") \/ At("skipPut")) =>
       /\ Range(tick.queue) \cap PendingIDs = {}
       /\ IsInjective(tick.queue)
       /\ \A q \in Range(tick.queue) : Delivered(q, SkipTimeout)
  /\ At("skipPut") => <<tick.pack, Head(tick.queue)>> \in Keys
  /\ At("track") => tick.key \in DOMAIN chat

\* IInv is the conjunction of the parts.
LEMMA Parts == IInv <=> StoreOK /\ PendingOK /\ TickOK /\ RoomLeft
BY DEF IInv, TypeOK, PendingOnce, QueueOnce, DeliveriesKnown, StoreOK, PendingOK, TickOK,
   Entries

\* The same in the next state.
LEMMA PartsNext == IInv' <=> StoreOK' /\ PendingOK' /\ TickOK' /\ RoomLeft'
BY DEF IInv, TypeOK, PendingOnce, QueueOnce, DeliveriesKnown, StoreOK, PendingOK, TickOK,
   Entries
-----------------------------------------------------------------------------
(* Lists of questions.                                                     *)

\* What is left of a queue of distinct questions: fewer of them, all
\* different from the first.
LEMMA RestOfQueue ==
  ASSUME NEW queue \in Seq(Questions), queue # <<>>, IsInjective(queue)
  PROVE  /\ Head(queue) \in Questions /\ Head(queue) \in Range(queue)
         /\ Tail(queue) \in Seq(Questions)
         /\ IsInjective(Tail(queue))
         /\ Range(Tail(queue)) \subseteq Range(queue) \ {Head(queue)}
<1>1. Len(queue) \in Nat \ {0} /\ DOMAIN queue = 1..Len(queue)
  OBVIOUS
<1>2. Head(queue) = queue[1] /\ 1 \in DOMAIN queue
  BY <1>1
<1>3. /\ Tail(queue) \in Seq(Questions)
      /\ DOMAIN Tail(queue) = 1..(Len(queue) - 1)
      /\ \A i \in 1..(Len(queue) - 1) : Tail(queue)[i] = queue[i + 1]
  BY <1>1
<1>4. \A i \in DOMAIN Tail(queue) : i + 1 \in DOMAIN queue /\ i + 1 # 1
  BY <1>1, <1>3
<1>5. IsInjective(Tail(queue))
  <2>1. ASSUME NEW i \in DOMAIN Tail(queue), NEW j \in DOMAIN Tail(queue),
               Tail(queue)[i] = Tail(queue)[j]
        PROVE  i = j
    <3>1. i + 1 = j + 1
      BY <1>3, <1>4, <2>1 DEF IsInjective
    <3>2. i \in Int /\ j \in Int
      BY <1>1, <1>3
    <3>3. QED
      BY <3>1, <3>2
  <2>2. QED
    BY <2>1 DEF IsInjective
<1>6. \A i \in DOMAIN Tail(queue) :
        Tail(queue)[i] \in Range(queue) /\ Tail(queue)[i] # Head(queue)
  BY <1>2, <1>3, <1>4 DEF IsInjective, Range
<1>7. QED
  BY <1>2, <1>3, <1>5, <1>6 DEF Range

\* Filtering the pending questions: a list of the same type, no longer, of
\* questions that still occur once, all of which were there before.
LEMMA KeptPending ==
  ASSUME PendingOK, NEW S, NEW kept, kept = Keep(pending, S)
  PROVE  /\ kept \in Seq([q : Questions, age : 0..SkipTimeout])
         /\ Len(kept) <= Len(pending)
         /\ \A a, b \in DOMAIN kept : kept[a].q = kept[b].q => a = b
         /\ \A a \in DOMAIN kept : \E i \in DOMAIN pending : kept[a] = pending[i] /\ pending[i] \in S
<1>1. PICK p : p = pending
  OBVIOUS
<1>2. p \in Seq([q : Questions, age : 0..SkipTimeout])
      /\ \A i, j \in DOMAIN p : p[i].q = p[j].q => i = j
  BY <1>1 DEF PendingOK
<1>3. /\ kept \in Seq([q : Questions, age : 0..SkipTimeout])
      /\ Len(kept) <= Len(p)
      /\ \E pos \in [DOMAIN kept -> DOMAIN p] :
           /\ \A a \in DOMAIN kept : kept[a] = p[pos[a]] /\ p[pos[a]] \in S
           /\ \A a, b \in DOMAIN kept : pos[a] = pos[b] => a = b
  BY <1>1, <1>2, KeepPositions
<1>4. PICK pos \in [DOMAIN kept -> DOMAIN p] :
           /\ \A a \in DOMAIN kept : kept[a] = p[pos[a]] /\ p[pos[a]] \in S
           /\ \A a, b \in DOMAIN kept : pos[a] = pos[b] => a = b
  BY <1>3
<1>5. \A a, b \in DOMAIN kept : kept[a].q = kept[b].q => a = b
  BY <1>2, <1>4
<1>6. \A a \in DOMAIN kept : \E i \in DOMAIN p : kept[a] = p[i] /\ p[i] \in S
  BY <1>4
<1>7. QED
  BY <1>1, <1>3, <1>5, <1>6

\* An element of the list.
LEMMA PendingEntry ==
  ASSUME PendingOK, NEW i \in DOMAIN pending
  PROVE  pending[i] \in [q : Questions, age : 0..SkipTimeout]
<1>1. PICK T : T = [q : Questions, age : 0..SkipTimeout]
  OBVIOUS
<1>2. pending \in Seq(T)
  BY <1>1 DEF PendingOK
<1>3. pending[i] \in T
  BY <1>2
<1>4. QED
  BY <1>1, <1>3

\* Where expireTimedOut stands with what is left of its queue.
LEMMA SkippingStands ==
  ASSUME NEW queue
  PROVE  \/ queue = <<>> /\ Skipping(queue) = [at |-> "prefs"]
         \/ queue # <<>> /\ Skipping(queue) = [at |-> "skip", queue |-> queue]
BY DEF Skipping
-----------------------------------------------------------------------------
(* Steps that only move the goroutine.                                     *)

\* A step that leaves the store, the pending questions and the history alone.
LEMMA OnlyTick ==
  ASSUME IInv, UNCHANGED <<rows, prefs, pending, sinceSent, chat>>, fired' \in BOOLEAN,
         TickOK', RoomLeft'
  PROVE  IInv'
<1>1. StoreOK'
  BY Parts DEF StoreOK, prefs
<1>2. PendingOK'
  BY Parts DEF PendingOK, PendingIDs, Delivered
<1>3. QED
  BY <1>1, <1>2, PartsNext

\* Nothing is on its way.
LEMMA NoDelivery == ASSUME tick'.at \notin {"select", "send", "track"} PROVE RoomLeft'
BY DEF RoomLeft, At

\* What is on its way was allowed.
LEMMA SameDelivery ==
  ASSUME IInv, pending' = pending, tick.at \in {"select", "send", "track"}, tick'.limit = tick.limit
  PROVE  RoomLeft'
BY Parts DEF RoomLeft, At

\* The next question to skip is looked for, or given up.
LEMMA RestIsSkipped ==
  ASSUME IInv, At("skip") \/ At("skipPut"), tick' = Skipping(Tail(tick.queue)),
         pending' = pending,
         \A q \in Range(Tail(tick.queue)) : Delivered(q, SkipTimeout)'
  PROVE  TickOK' /\ tick'.at \notin {"select", "send", "track"}
<1>1. PICK queue : queue = tick.queue
  OBVIOUS
<1>2. queue \in Seq(Questions) /\ queue # <<>> /\ IsInjective(queue)
      /\ Range(queue) \cap PendingIDs = {}
  BY <1>1, Parts DEF TickOK, At
<1>3. /\ Tail(queue) \in Seq(Questions)
      /\ IsInjective(Tail(queue))
      /\ Range(Tail(queue)) \subseteq Range(queue)
  BY <1>2, RestOfQueue
<1>4. PICK rest : rest = Tail(queue)
  OBVIOUS
<1>5. PendingIDs' = PendingIDs
  BY DEF PendingIDs
<1>6. \A q \in Range(rest) : Delivered(q, SkipTimeout)'
  BY <1>1, <1>4
<1>7. Range(rest) \cap PendingIDs' = {}
  BY <1>2, <1>3, <1>4, <1>5
<1>8. rest \in Seq(Questions) /\ IsInjective(rest)
  BY <1>3, <1>4
<1>9. tick' = Skipping(rest)
  BY <1>1, <1>4
<1>10. CASE rest = <<>>
  <2>1. tick' = [at |-> "prefs"]
    BY <1>9, <1>10, SkippingStands
  <2>2. QED
    BY <2>1 DEF TickOK, At
<1>11. CASE rest # <<>>
  <2>1. tick' = [at |-> "skip", queue |-> rest]
    BY <1>9, <1>11, SkippingStands
  <2>2. tick'.at = "skip" /\ tick'.queue = rest
    BY <2>1
  <2>3. QED
    BY <1>6, <1>7, <1>8, <1>11, <2>2 DEF TickOK, At
<1>12. QED
  BY <1>10, <1>11

\* A question whose delivery is settled leaves the others as they are.
LEMMA OthersStay ==
  ASSUME NEW q, chat' = Unsettled(q), NEW r, NEW age, r # q, Delivered(r, age)
  PROVE  Delivered(r, age)'
<1>1. PICK k \in DOMAIN chat : k[2] = r /\ chat[k].age >= age
  BY DEF Delivered
<1>2. k \in DOMAIN chat' /\ chat'[k] = chat[k]
  BY <1>1 DEF Unsettled
<1>3. QED
  BY <1>1, <1>2 DEF Delivered

\* Fewer deliveries of the same kind.
LEMMA FewerEntries ==
  ASSUME IInv, NEW q, chat' = Unsettled(q)
  PROVE  IsTable(chat', Keys, Entries)
BY Parts DEF StoreOK, IsTable, Unsettled

\* The first question of the queue is settled, and no other.
LEMMA SettledInv ==
  ASSUME IInv, At("skip") \/ At("skipPut"), tick' = Skipping(Tail(tick.queue)),
         chat' = Unsettled(Head(tick.queue)), UNCHANGED <<prefs, pending, sinceSent>>,
         fired' \in BOOLEAN, IsTable(rows', Keys, Int)
  PROVE  IInv'
<1>1. PICK queue : queue = tick.queue
  OBVIOUS
<1>2. /\ queue \in Seq(Questions) /\ queue # <<>> /\ IsInjective(queue)
      /\ Range(queue) \cap PendingIDs = {}
      /\ \A q \in Range(queue) : Delivered(q, SkipTimeout)
  BY <1>1, Parts DEF TickOK, At
<1>3. /\ Head(queue) \in Range(queue)
      /\ Range(Tail(queue)) \subseteq Range(queue) \ {Head(queue)}
  BY <1>2, RestOfQueue
<1>4. \A q \in Range(Tail(tick.queue)) : Delivered(q, SkipTimeout)'
  BY <1>1, <1>2, <1>3, OthersStay
<1>5. TickOK' /\ tick'.at \notin {"select", "send", "track"}
  BY <1>4, RestIsSkipped
<1>6. PendingOK'
  <2>1. \A i \in DOMAIN pending : pending[i].q # Head(queue)
    BY <1>2, <1>3 DEF PendingIDs
  <2>2. \A i \in DOMAIN pending : Delivered(pending[i].q, pending[i].age)'
    <3>1. ASSUME NEW i \in DOMAIN pending
          PROVE  Delivered(pending[i].q, pending[i].age)'
      <4>1. PICK r, age : r = pending[i].q /\ age = pending[i].age
        OBVIOUS
      <4>2. Delivered(r, age) /\ r # Head(queue)
        BY <2>1, <4>1, Parts DEF PendingOK
      <4>3. Delivered(r, age)'
        BY <1>1, <4>2, OthersStay
      <4>4. QED
        BY <4>1, <4>3 DEF Delivered
    <3>2. QED
      BY <3>1
  <2>3. QED
    BY <2>2, Parts DEF PendingOK, Delivered
<1>7. RoomLeft'
  BY <1>5, NoDelivery
<1>8. StoreOK'
  BY FewerEntries, Parts DEF StoreOK, prefs
<1>9. QED
  BY <1>5, <1>6, <1>7, <1>8, PartsNext

\* The goroutine has found a pack with the question.
LEMMA OwnerInv ==
  ASSUME IInv, At("skip"), UNCHANGED <<rows, prefs, pending, sinceSent, chat>>, fired' \in BOOLEAN,
         NEW i \in Owners(Head(tick.queue)), tick' = Owner(active[i])
  PROVE  IInv'
<1>1. PICK queue, pack : queue = tick.queue /\ pack = active[i]
  OBVIOUS
<1>2. /\ queue \in Seq(Questions) /\ queue # <<>> /\ IsInjective(queue)
      /\ Range(queue) \cap PendingIDs = {}
      /\ \A q \in Range(queue) : Delivered(q, SkipTimeout)
  BY <1>1, Parts DEF TickOK, At
<1>3. PendingIDs' = PendingIDs
  BY DEF PendingIDs
<1>4. \A q \in Range(queue) : Delivered(q, SkipTimeout)'
  BY <1>2 DEF Delivered
<1>5. pack \in Imported /\ Head(queue) \in Contents[pack] /\ Head(queue) \in Questions
  BY <1>1, <1>2, RestOfQueue DEF Owners
<1>6. <<pack, Head(queue)>> \in Keys
  BY <1>5 DEF Keys
<1>7. tick'.at = "skipPut" /\ tick'.queue = queue /\ tick'.pack = pack
  BY <1>1 DEF Owner
<1>8. TickOK'
  BY <1>2, <1>3, <1>4, <1>5, <1>6, <1>7 DEF TickOK, At
<1>9. RoomLeft'
  BY <1>7, NoDelivery
<1>10. QED
  BY <1>8, <1>9, OnlyTick

\* The pack of the question is searched for in the active packs.
LEMMA FindSkippedInv == ASSUME IInv, FindSkipped PROVE IInv'
<1>1. UNCHANGED <<rows, prefs, pending, sinceSent, fired>> /\ At("skip")
  BY DEF FindSkipped
<1>2. fired' \in BOOLEAN /\ IsTable(rows', Keys, Int)
  BY <1>1, Parts DEF StoreOK
<1>3. CASE Owners(Head(tick.queue)) = {}
  BY <1>1, <1>2, <1>3, SettledInv DEF FindSkipped
<1>4. CASE Owners(Head(tick.queue)) # {}
  <2>1. PICK i \in Owners(Head(tick.queue)) : tick' = Owner(active[i]) /\ UNCHANGED chat
    BY <1>4 DEF FindSkipped
  <2>2. QED
    BY <1>1, <1>2, <2>1, OwnerInv
<1>5. QED
  BY <1>3, <1>4

\* The limit is read when the goroutine goes on to a delivery.
LEMMA LoadPrefsInv == ASSUME IInv, LoadPrefs PROVE IInv'
<1>1. UNCHANGED <<rows, prefs, pending, sinceSent, fired, chat>> /\ fired' \in BOOLEAN
  BY Parts DEF LoadPrefs, StoreOK
<1>2. CASE tick' = Idle
  <2>1. tick'.at = "idle"
    BY <1>2 DEF Idle
  <2>2. TickOK'
    BY <2>1 DEF TickOK, At
  <2>3. RoomLeft'
    BY <2>1, NoDelivery
  <2>4. QED
    BY <1>1, <2>2, <2>3, OnlyTick
<1>3. CASE tick' = [at |-> "select", packs |-> active, limit |-> limit] /\ Len(pending) < limit
  <2>1. tick'.at = "select" /\ tick'.packs = active /\ tick'.limit = limit
    BY <1>3
  <2>2. limit \in Limits /\ active \in Seq(Packs)
    BY Parts DEF StoreOK
  <2>3. TickOK'
    BY <2>1, <2>2 DEF TickOK, At
  <2>5. RoomLeft'
    BY <1>1, <1>3, <2>1 DEF RoomLeft
  <2>6. QED
    BY <1>1, <2>3, <2>5, OnlyTick
<1>4. QED
  BY <1>2, <1>3 DEF LoadPrefs

\* A question selected is not pending.
LEMMA SendingInv ==
  ASSUME IInv, At("select"), UNCHANGED <<rows, prefs, pending, sinceSent, chat>>, fired' \in BOOLEAN,
         NEW k \in Deliverable(tick.packs), tick' = Sending(k)
  PROVE  IInv'
<1>1. k \in Keys /\ k[2] \notin PendingIDs
  BY DEF Deliverable
<1>2. tick'.at = "send" /\ tick'.key = k /\ tick'.limit = tick.limit
  BY DEF Sending
<1>3. PendingIDs' = PendingIDs
  BY DEF PendingIDs
<1>4. tick.limit \in Limits /\ tick.at = "select"
  BY Parts DEF TickOK, At
<1>5. TickOK'
  BY <1>1, <1>2, <1>3, <1>4 DEF TickOK, At
<1>6. RoomLeft'
  BY <1>2, <1>4, SameDelivery
<1>7. QED
  BY <1>5, <1>6, OnlyTick

\* The goroutine ends its tick without a delivery.
LEMMA IdleInv ==
  ASSUME IInv, UNCHANGED <<rows, prefs, pending, sinceSent, chat>>, fired' \in BOOLEAN, tick' = Idle
  PROVE  IInv'
<1>1. tick'.at = "idle"
  BY DEF Idle
<1>2. TickOK'
  BY <1>1 DEF TickOK, At
<1>3. QED
  BY <1>1, <1>2, NoDelivery, OnlyTick

\* The question selected is not pending, and stays so until it is tracked.
LEMMA SelectInv == ASSUME IInv, Select PROVE IInv'
<1>1. UNCHANGED <<rows, prefs, pending, sinceSent, fired, chat>> /\ fired' \in BOOLEAN
      /\ At("select")
  BY Parts DEF Select, StoreOK
<1>2. CASE tick' = Idle
  BY <1>1, <1>2, IdleInv
<1>3. CASE tick' # Idle
  <2>1. PICK k \in Chosen(tick.packs) : tick' = Sending(k)
    BY <1>3 DEF Select
  <2>2. k \in Deliverable(tick.packs)
    BY DEF Chosen
  <2>3. QED
    BY <1>1, <2>1, <2>2, SendingInv
<1>4. QED
  BY <1>2, <1>3
-----------------------------------------------------------------------------
(* Steps of the tick that change the store or the pending questions.       *)

\* What has expired leaves the pending questions for the queue.
LEMMA ExpireInv == ASSUME IInv, Expire PROVE IInv'
<1>1. UNCHANGED <<rows, prefs, sinceSent, chat>> /\ fired' = FALSE
  BY DEF Expire
<1>2. PICK expired : expired = Keep(pending, TimedOut)
  OBVIOUS
<1>3. PICK left : left = Keep(pending, Range(pending) \ TimedOut)
  OBVIOUS
<1>4. pending' = left /\ tick' = Skipping(Ids(expired))
  BY <1>2, <1>3 DEF Expire
<1>5. PendingOK
  BY Parts
<1>6. /\ expired \in Seq([q : Questions, age : 0..SkipTimeout])
      /\ \A a, b \in DOMAIN expired : expired[a].q = expired[b].q => a = b
      /\ \A a \in DOMAIN expired : \E i \in DOMAIN pending :
           expired[a] = pending[i] /\ pending[i] \in TimedOut
  BY <1>2, <1>5, KeptPending
<1>7. /\ left \in Seq([q : Questions, age : 0..SkipTimeout])
      /\ Len(left) <= Len(pending)
      /\ \A a, b \in DOMAIN left : left[a].q = left[b].q => a = b
      /\ \A a \in DOMAIN left : \E i \in DOMAIN pending :
           left[a] = pending[i] /\ pending[i] \in Range(pending) \ TimedOut
  BY <1>3, <1>5, KeptPending
<1>8. PICK queue : queue = Ids(expired)
  OBVIOUS
<1>9. DOMAIN queue = DOMAIN expired /\ \A a \in DOMAIN expired : queue[a] = expired[a].q
  BY <1>8 DEF Ids
<1>10. queue \in Seq(Questions) /\ IsInjective(queue)
  <2>1. DOMAIN expired = 1..Len(expired) /\ Len(expired) \in Nat
    BY <1>6
  <2>2. \A a \in DOMAIN expired : expired[a] \in [q : Questions, age : 0..SkipTimeout]
    <3>1. PICK T : T = [q : Questions, age : 0..SkipTimeout]
      OBVIOUS
    <3>2. expired \in Seq(T)
      BY <1>6, <3>1
    <3>3. \A a \in DOMAIN expired : expired[a] \in T
      BY <3>2
    <3>4. QED
      BY <3>1, <3>3
  <2>3. \A a \in DOMAIN expired : expired[a].q \in Questions
    BY <2>2
  <2>4. queue = [a \in 1..Len(expired) |-> expired[a].q]
    BY <1>8, <2>1 DEF Ids
  <2>5. queue \in Seq(Questions)
    BY <2>1, <2>3, <2>4
  <2>6. IsInjective(queue)
    BY <1>6, <1>9 DEF IsInjective
  <2>7. QED
    BY <2>5, <2>6
<1>11. \A q \in Range(queue) : \E i \in DOMAIN pending : q = pending[i].q /\ pending[i] \in TimedOut
  BY <1>6, <1>9 DEF Range
<1>12. \A q \in PendingIDs' : \E i \in DOMAIN pending : q = pending[i].q /\ pending[i] \notin TimedOut
  <2>1. PendingIDs' = {left[a].q : a \in DOMAIN left}
    BY <1>4 DEF PendingIDs
  <2>2. QED
    BY <2>1, <1>7
<1>13. \A q, age : Delivered(q, age)' <=> Delivered(q, age)
  BY <1>1 DEF Delivered
<1>14. \A i \in DOMAIN pending : Delivered(pending[i].q, pending[i].age)
  BY <1>5 DEF PendingOK
<1>15. Range(queue) \cap PendingIDs' = {}
  BY <1>5, <1>11, <1>12 DEF PendingOK
<1>16. PendingOK'
  <2>1. \A a \in DOMAIN left : Delivered(left[a].q, left[a].age)'
    <3>1. \A a \in DOMAIN left : Delivered(left[a].q, left[a].age)
      BY <1>7, <1>14
    <3>2. QED
      BY <1>1, <3>1 DEF Delivered
  <2>2. QED
    BY <1>1, <1>4, <1>7, <2>1 DEF PendingOK, Delivered
<1>17. TickOK' /\ tick'.at \notin {"select", "send", "track"}
  <2>1. CASE queue = <<>>
    <3>1. tick' = [at |-> "prefs"]
      BY <1>4, <1>8, <2>1, SkippingStands
    <3>2. QED
      BY <3>1 DEF TickOK, At
  <2>2. CASE queue # <<>>
    <3>1. tick' = [at |-> "skip", queue |-> queue]
      BY <1>4, <1>8, <2>2, SkippingStands
    <3>2. tick'.at = "skip" /\ tick'.queue = queue
      BY <3>1
    <3>3. \A q \in Range(queue) : Delivered(q, SkipTimeout)'
      <4>1. ASSUME NEW q \in Range(queue)
            PROVE  Delivered(q, SkipTimeout)
        <5>1. PICK i \in DOMAIN pending : q = pending[i].q /\ pending[i].age >= SkipTimeout
          BY <1>11 DEF TimedOut
        <5>2. PICK k \in DOMAIN chat : k[2] = q /\ chat[k].age >= pending[i].age
          BY <1>14, <5>1 DEF Delivered
        <5>3. chat[k].age \in Int /\ pending[i].age \in Int /\ SkipTimeout \in Int
          <6>1. chat[k] \in Entries
            BY <5>2, Parts DEF StoreOK, IsTable
          <6>2. pending[i] \in [q : Questions, age : 0..SkipTimeout]
            BY <1>5, PendingEntry
          <6>3. QED
            BY <6>1, <6>2, SchedulerAssumption DEF Entries
        <5>4. chat[k].age >= SkipTimeout
          BY <5>1, <5>2, <5>3
        <5>5. QED
          BY <5>2, <5>4 DEF Delivered
      <4>2. QED
        BY <1>13, <4>1
    <3>4. QED
      BY <1>10, <1>15, <2>2, <3>2, <3>3 DEF TickOK, At
  <2>3. QED
    BY <2>1, <2>2
<1>18. RoomLeft'
  BY <1>17, NoDelivery
<1>19. StoreOK'
  BY <1>1, Parts DEF StoreOK, prefs
<1>20. QED
  BY <1>16, <1>17, <1>18, <1>19, PartsNext

\* A question that is skipped exists, and is settled.
LEMMA PutSkippedInv == ASSUME IInv, PutSkipped PROVE IInv'
<1>1. /\ UNCHANGED <<prefs, pending, sinceSent, fired>> /\ tick' = Skipping(Tail(tick.queue))
      /\ At("skipPut") /\ chat' = Unsettled(Head(tick.queue))
  BY DEF PutSkipped
<1>2. PICK k : k = <<tick.pack, Head(tick.queue)>>
  OBVIOUS
<1>3. rows' = Put(rows, k, Day)
  BY <1>2 DEF PutSkipped
<1>4. k \in Keys /\ Day \in Int /\ IsTable(rows, Keys, Int) /\ fired \in BOOLEAN
  BY <1>1, <1>2, SchedulerAssumption, Parts DEF TickOK, StoreOK
<1>5. IsTable(rows', Keys, Int)
  BY <1>3, <1>4, PutRow
<1>6. QED
  BY <1>1, <1>4, <1>5, SettledInv

\* A question that arrives in the chat is open there.
LEMMA Arrives ==
  ASSUME IInv, NEW k \in Keys, chat' = Put(chat, k, Sent)
  PROVE  /\ IsTable(chat', Keys, Entries)
         /\ \A q, age : q # k[2] /\ Delivered(q, age) => Delivered(q, age)'
         /\ k \in DOMAIN chat' /\ chat'[k].age = 0
<1>1. IsTable(chat, Keys, Entries) /\ Sent \in Entries
  BY SchedulerAssumption, Parts DEF StoreOK, Entries, Sent
<1>2. IsTable(chat', Keys, Entries)
  BY <1>1, PutRow
<1>3. /\ k \in DOMAIN chat' /\ chat'[k] = Sent
      /\ \A l \in DOMAIN chat : l # k => l \in DOMAIN chat' /\ chat'[l] = chat[l]
  BY DEF Put
<1>4. ASSUME NEW q, NEW age, q # k[2], Delivered(q, age)
      PROVE  Delivered(q, age)'
  <2>1. PICK l \in DOMAIN chat : l[2] = q /\ chat[l].age >= age
    BY <1>4 DEF Delivered
  <2>2. l # k
    BY <1>4, <2>1
  <2>3. l \in DOMAIN chat' /\ chat'[l] = chat[l]
    BY <1>3, <2>1, <2>2
  <2>4. QED
    BY <2>1, <2>3 DEF Delivered
<1>5. QED
  BY <1>2, <1>3, <1>4 DEF Sent

\* A question that arrives is no pending one.
LEMMA PendingStays ==
  ASSUME IInv, NEW k \in Keys, k[2] \notin PendingIDs, pending' = pending,
         chat' = Put(chat, k, Sent)
  PROVE  PendingOK'
<1>1. ASSUME NEW i \in DOMAIN pending
      PROVE  Delivered(pending[i].q, pending[i].age)'
  <2>1. PICK q, age : q = pending[i].q /\ age = pending[i].age
    OBVIOUS
  <2>2. q # k[2] /\ Delivered(q, age)
    BY <2>1, Parts DEF PendingOK, PendingIDs
  <2>3. Delivered(q, age)'
    BY <2>2, Arrives
  <2>4. QED
    BY <2>1, <2>3 DEF Delivered
<1>2. QED
  BY <1>1, Parts DEF PendingOK, Delivered

\* The question is in the chat before it is tracked.
LEMMA SendQuestionInv == ASSUME IInv, SendQuestion PROVE IInv'
<1>1. UNCHANGED <<rows, prefs, pending, sinceSent, fired>> /\ tick.at = "send"
      /\ chat' = Put(chat, tick.key, Sent) /\ tick' = [at |-> "track", key |-> tick.key, limit |-> tick.limit]
  BY DEF SendQuestion, At
<1>2. PICK k, n : k = tick.key /\ n = tick.limit
  OBVIOUS
<1>3. k \in Keys /\ k[2] \notin PendingIDs /\ n \in Limits
  BY <1>1, <1>2, Parts DEF TickOK, At
<1>4. tick'.at = "track" /\ tick'.key = k /\ tick'.limit = n
  BY <1>1, <1>2
<1>5. chat' = Put(chat, k, Sent)
  BY <1>1, <1>2
<1>6. IsTable(chat', Keys, Entries) /\ k \in DOMAIN chat'
  BY <1>3, <1>5, Arrives
<1>7. PendingIDs' = PendingIDs
  BY <1>1 DEF PendingIDs
<1>8. StoreOK'
  BY <1>1, <1>6, Parts DEF StoreOK, prefs
<1>9. PendingOK'
  BY <1>1, <1>3, <1>5, PendingStays
<1>10. TickOK'
  BY <1>3, <1>4, <1>6, <1>7 DEF TickOK, At
<1>11. RoomLeft'
  BY <1>1, <1>2, <1>4, SameDelivery
<1>12. QED
  BY <1>8, <1>9, <1>10, <1>11, PartsNext

\* The question tracked was not pending, and there was room for it.
LEMMA TrackInv == ASSUME IInv, Track PROVE IInv'
<1>1. UNCHANGED <<rows, prefs, fired, chat>> /\ tick.at = "track" /\ sinceSent' = 0 /\ tick' = Idle
      /\ pending' = Append(pending, [q |-> tick.key[2], age |-> 0])
  BY DEF Track, At
<1>2. PICK k : k = tick.key
  OBVIOUS
<1>3. k \in Keys /\ k[2] \notin PendingIDs /\ k \in DOMAIN chat
  BY <1>1, <1>2, Parts DEF TickOK, At
<1>4. PICK e : e = [q |-> k[2], age |-> 0]
  OBVIOUS
<1>5. k[2] \in Questions
  BY <1>3 DEF Keys
<1>6. 0 \in 0..SkipTimeout /\ 0 \in 0..DeliveryInterval
  BY SchedulerAssumption
<1>7. e \in [q : Questions, age : 0..SkipTimeout] /\ e.q = k[2] /\ e.age = 0
  BY <1>4, <1>5, <1>6
<1>8. PICK T : T = [q : Questions, age : 0..SkipTimeout]
  OBVIOUS
<1>9. pending \in Seq(T) /\ e \in T /\ pending' = Append(pending, e)
  BY <1>1, <1>2, <1>4, <1>7, <1>8, Parts DEF PendingOK
<1>10. /\ pending' \in Seq(T) /\ Len(pending) \in Nat
       /\ Len(pending') = Len(pending) + 1
       /\ DOMAIN pending = 1..Len(pending) /\ DOMAIN pending' = 1..(Len(pending) + 1)
       /\ \A i \in 1..Len(pending) : pending'[i] = pending[i]
       /\ pending'[Len(pending) + 1] = e
  BY <1>9
<1>11. \A i \in DOMAIN pending' : i \in DOMAIN pending \/ i = Len(pending) + 1
  BY <1>10
<1>12. \A i \in DOMAIN pending : pending[i].q # k[2]
  BY <1>3 DEF PendingIDs
<1>14. Delivered(e.q, e.age)
  <2>1. chat[k] \in Entries
    BY <1>3, Parts DEF StoreOK, IsTable
  <2>2. chat[k].age >= 0
    BY <2>1, SchedulerAssumption DEF Entries
  <2>3. QED
    BY <1>3, <1>7, <2>2 DEF Delivered
<1>15. \A i, j \in DOMAIN pending : pending[i].q = pending[j].q => i = j
  BY Parts DEF PendingOK
<1>16. PendingOK'
  <2>1. \A i, j \in DOMAIN pending' : pending'[i].q = pending'[j].q => i = j
    BY <1>7, <1>10, <1>11, <1>12, <1>15
  <2>2. \A i \in DOMAIN pending : Delivered(pending[i].q, pending[i].age)
    BY Parts DEF PendingOK
  <2>3. \A i \in DOMAIN pending' : Delivered(pending'[i].q, pending'[i].age)
    BY <1>10, <1>11, <1>14, <2>2
  <2>4. (\A i \in DOMAIN pending : Delivered(pending[i].q, pending[i].age))'
    BY <1>1, <2>3 DEF Delivered
  <2>5. QED
    BY <1>8, <1>10, <2>1, <2>4 DEF PendingOK
<1>17. tick'.at = "idle"
  BY <1>1 DEF Idle
<1>18. TickOK'
  BY <1>17 DEF TickOK, At
<1>19. RoomLeft'
  BY <1>17, NoDelivery
<1>20. StoreOK'
  BY <1>1, <1>6, Parts DEF StoreOK, prefs
<1>21. QED
  BY <1>16, <1>18, <1>19, <1>20, PartsNext
-----------------------------------------------------------------------------
(* Failures.                                                               *)

\* A failing call ends the tick or gives up a question.
LEMMA CallFailsInv == ASSUME IInv, CallFails PROVE IInv'
<1>1. UNCHANGED <<rows, prefs, pending, sinceSent, fired>> /\ fired' \in BOOLEAN
      /\ IsTable(rows', Keys, Int)
  BY Parts DEF CallFails, StoreOK
<1>2. CASE SkipFails
  <2>1. CASE tick' = Skipping(Tail(tick.queue)) /\ chat' = Unsettled(Head(tick.queue))
    BY <1>1, <1>2, <2>1, SettledInv DEF SkipFails
  <2>2. CASE \E i \in Owners(Head(tick.queue)) : tick' = Owner(active[i]) /\ UNCHANGED chat
    BY <1>1, <1>2, <2>2, OwnerInv DEF SkipFails
  <2>3. QED
    BY <1>2, <2>1, <2>2 DEF SkipFails
<1>3. CASE SelectFails
  <2>1. CASE tick' = Idle
    BY <1>1, <1>3, <2>1, IdleInv DEF SelectFails
  <2>2. CASE \E k \in Deliverable(tick.packs) : tick' = Sending(k)
    BY <1>1, <1>3, <2>2, SendingInv DEF SelectFails
  <2>3. QED
    BY <1>3, <2>1, <2>2 DEF SelectFails
<1>4. CASE SendFails
  <2>1. CASE chat' = chat
    BY <1>1, <1>4, <2>1, IdleInv DEF SendFails
  <2>2. CASE chat' = Put(chat, tick.key, Sent)
    <3>1. PICK k : k = tick.key
      OBVIOUS
    <3>2. k \in Keys /\ k[2] \notin PendingIDs /\ chat' = Put(chat, k, Sent)
      BY <1>4, <2>2, <3>1, Parts DEF SendFails, TickOK, At
    <3>3. IsTable(chat', Keys, Entries)
      BY <3>2, Arrives
    <3>4. PendingOK'
      BY <1>1, <3>2, PendingStays
    <3>5. tick'.at = "idle"
      BY <1>4 DEF SendFails, Idle
    <3>6. TickOK'
      BY <3>5 DEF TickOK, At
    <3>7. StoreOK'
      BY <1>1, <3>3, Parts DEF StoreOK, prefs
    <3>8. RoomLeft'
      BY <3>5, NoDelivery
    <3>9. QED
      BY <3>4, <3>6, <3>7, <3>8, PartsNext
  <2>3. QED
    BY <1>4, <2>1, <2>2 DEF SendFails
<1>5. CASE At("skipPut") /\ tick' = Skipping(Tail(tick.queue)) /\ chat' = Unsettled(Head(tick.queue))
  BY <1>1, <1>5, SettledInv
<1>6. CASE At("prefs") /\ tick' = Idle /\ UNCHANGED chat
  BY <1>1, <1>6, IdleInv
<1>7. QED
  BY <1>2, <1>3, <1>4, <1>5, <1>6 DEF CallFails

\* A new process has nothing pending.
LEMMA StartAgainInv == ASSUME IInv, StartAgain, UNCHANGED <<rows, prefs>> PROVE IInv'
<1>1. pending' = <<>> /\ sinceSent' = Never /\ fired' = FALSE /\ tick'.at = "idle"
      /\ chat' = EmptyTable
  BY DEF StartAgain, Idle
<1>2. pending' \in Seq([q : Questions, age : 0..SkipTimeout]) /\ DOMAIN pending' = {}
      /\ Len(pending') = 0
  BY <1>1
<1>3. PendingOK'
  BY <1>2 DEF PendingOK, PendingIDs
<1>4. TickOK'
  BY <1>1 DEF TickOK, At
<1>5. RoomLeft'
  BY <1>1, NoDelivery
<1>6. StoreOK'
  BY <1>1, NoRows, Parts DEF StoreOK, prefs
<1>7. QED
  BY <1>3, <1>4, <1>5, <1>6, PartsNext
-----------------------------------------------------------------------------
(* The rest of the program and the user.                                   *)

\* The goroutine stays where it is, and what it relies on stays true.
LEMMA TickStays ==
  ASSUME IInv, tick' = tick, PendingIDs' \subseteq PendingIDs,
         (At("skip") \/ At("skipPut")) => \A q \in Range(tick.queue) : Delivered(q, SkipTimeout)',
         At("track") => tick.key \in DOMAIN chat'
  PROVE  TickOK'
<1>1. TickOK
  BY Parts
<1>2. PICK t : t = tick
  OBVIOUS
<1>3. CASE t.at = "skip" \/ t.at = "skipPut"
  <2>1. Range(t.queue) \cap PendingIDs' = {}
    BY <1>1, <1>2, <1>3 DEF TickOK, At
  <2>2. QED
    BY <1>1, <1>2, <1>3, <2>1 DEF TickOK, At
<1>4. CASE t.at = "send" \/ t.at = "track"
  BY <1>1, <1>2, <1>4 DEF TickOK, At
<1>5. CASE t.at \notin {"skip", "skipPut", "send", "track"}
  BY <1>1, <1>2, <1>5 DEF TickOK, At
<1>6. QED
  BY <1>3, <1>4, <1>5

\* No more questions are pending than before, and the goroutine stays.
LEMMA RoomStays ==
  ASSUME IInv, tick' = tick, pending' \in Seq([q : Questions, age : 0..SkipTimeout]),
         Len(pending') <= Len(pending)
  PROVE  RoomLeft'
<1>1. Len(pending) \in Nat /\ Len(pending') \in Nat
  BY Parts DEF PendingOK
<1>2. (At("select") \/ At("send") \/ At("track")) => tick.limit \in Nat
  BY SchedulerAssumption, Parts DEF TickOK, At
<1>3. QED
  BY <1>1, <1>2, Parts DEF RoomLeft, At

\* A question whose answer is recorded is pending no more, and is on the way
\* to no other place.
LEMMA RecordAnswerInv ==
  ASSUME IInv, NEW q \in Questions, RecordAnswer(q)
  PROVE  IInv'
<1>1. UNCHANGED <<rows, prefs, sinceSent, fired, tick>> /\ q \in PendingIDs
  BY DEF RecordAnswer
<1>2. PICK left : left = Keep(pending, {e \in Range(pending) : e.q # q})
  OBVIOUS
<1>3. pending' = left
      /\ chat' = Unsettled(q)
  BY <1>2 DEF RecordAnswer
<1>4. PendingOK
  BY Parts
<1>5. /\ left \in Seq([q : Questions, age : 0..SkipTimeout])
      /\ Len(left) <= Len(pending)
      /\ \A a, b \in DOMAIN left : left[a].q = left[b].q => a = b
      /\ \A a \in DOMAIN left : \E i \in DOMAIN pending :
           left[a] = pending[i] /\ pending[i] \in {e \in Range(pending) : e.q # q}
  BY <1>2, <1>4, KeptPending
<1>6. \A r \in PendingIDs' : r \in PendingIDs /\ r # q
  <2>1. PendingIDs' = {left[a].q : a \in DOMAIN left}
    BY <1>3 DEF PendingIDs
  <2>2. ASSUME NEW r \in PendingIDs'
        PROVE  r \in PendingIDs /\ r # q
    <3>1. PICK a \in DOMAIN left : r = left[a].q
      BY <2>1
    <3>2. PICK i \in DOMAIN pending :
            left[a] = pending[i] /\ pending[i] \in {e \in Range(pending) : e.q # q}
      BY <1>5
    <3>3. pending[i].q # q /\ r = pending[i].q
      BY <3>1, <3>2
    <3>4. QED
      BY <3>3 DEF PendingIDs
  <2>3. QED
    BY <2>2
<1>7. \A r, age : r # q /\ Delivered(r, age) => Delivered(r, age)'
  BY <1>3, OthersStay
<1>8. PendingOK'
  <2>1. ASSUME NEW a \in DOMAIN left
        PROVE  Delivered(left[a].q, left[a].age)'
    <3>1. PICK i \in DOMAIN pending : left[a] = pending[i] /\ pending[i].q # q
      BY <1>5
    <3>2. PICK r, age : r = pending[i].q /\ age = pending[i].age
      OBVIOUS
    <3>3. Delivered(r, age)'
      BY <1>4, <1>7, <3>1, <3>2 DEF PendingOK
    <3>4. r = left[a].q /\ age = left[a].age
      BY <3>1, <3>2
    <3>5. QED
      BY <3>3, <3>4 DEF Delivered
  <2>2. (\A i \in DOMAIN pending : Delivered(pending[i].q, pending[i].age))'
    BY <1>3, <2>1 DEF Delivered
  <2>3. QED
    BY <1>3, <1>5, <2>2 DEF PendingOK
<1>9. TickOK'
  <2>1. ASSUME At("skip") \/ At("skipPut"), NEW r \in Range(tick.queue)
        PROVE  Delivered(r, SkipTimeout)'
    <3>1. Delivered(r, SkipTimeout) /\ r \notin PendingIDs
      BY <2>1, Parts DEF TickOK
    <3>2. QED
      BY <1>1, <1>7, <3>1
  <2>2. ASSUME At("track")
        PROVE  tick.key \in DOMAIN chat'
    <3>1. PICK k : k = tick.key
      OBVIOUS
    <3>2. k \in DOMAIN chat /\ k[2] \notin PendingIDs
      BY <2>2, <3>1, Parts DEF TickOK, At
    <3>3. QED
      BY <1>1, <1>3, <3>1, <3>2 DEF Unsettled
  <2>3. QED
    BY <1>1, <1>6, <2>1, <2>2, TickStays
<1>10. RoomLeft'
  BY <1>1, <1>3, <1>5, RoomStays
<1>11. IsTable(chat', Keys, Entries)
  BY <1>3, FewerEntries
<1>12. StoreOK'
  BY <1>1, <1>11, Parts DEF StoreOK, prefs
<1>13. QED
  BY <1>8, <1>9, <1>10, <1>12, PartsNext

\* An answer through the engine does not settle a delivery.
LEMMA AnswerInv ==
  ASSUME IInv, NEW k \in Keys, NEW interval \in Intervals, Answer(k, interval)
  PROVE  IInv'
<1>1. UNCHANGED <<prefs, pending, sinceSent, fired, tick>> /\ rows' = Put(rows, k, interval)
      /\ chat' = [l \in DOMAIN chat |->
                    [answered |-> l = k \/ chat[l].answered, age |-> chat[l].age]]
  BY DEF Answer
<1>2. DOMAIN chat' = DOMAIN chat /\ \A l \in DOMAIN chat : chat'[l].age = chat[l].age
  BY <1>1
<1>3. \A q, age : Delivered(q, age)' <=> Delivered(q, age)
  BY <1>2 DEF Delivered
<1>4. PendingIDs' = PendingIDs
  BY <1>1 DEF PendingIDs
<1>5. PendingOK'
  BY <1>1, <1>2, Parts DEF PendingOK, Delivered
<1>6. TickOK'
  <2>1. (At("skip") \/ At("skipPut")) => \A q \in Range(tick.queue) : Delivered(q, SkipTimeout)'
    BY <1>3, Parts DEF TickOK
  <2>2. At("track") => tick.key \in DOMAIN chat'
    BY <1>2, Parts DEF TickOK
  <2>3. QED
    BY <1>1, <1>4, <2>1, <2>2, TickStays
<1>7. RoomLeft'
  BY <1>1, RoomStays, Parts DEF PendingOK
<1>8. IsTable(chat', Keys, Entries)
  <2>1. IsTable(chat, Keys, Entries)
    BY Parts DEF StoreOK
  <2>2. ASSUME NEW l \in DOMAIN chat
        PROVE  chat'[l] \in Entries
    <3>1. chat[l] \in Entries
      BY <2>1 DEF IsTable
    <3>2. PICK b, n : n = chat[l].age /\ b = (l = k \/ chat[l].answered)
      OBVIOUS
    <3>3. n \in 0..SkipTimeout /\ b \in BOOLEAN
      BY <3>1, <3>2 DEF Entries
    <3>4. chat'[l] = [answered |-> b, age |-> n]
      BY <1>1, <3>2
    <3>5. QED
      BY <3>3, <3>4 DEF Entries
  <2>3. QED
    BY <1>1, <2>1, <2>2 DEF IsTable
<1>9. IsTable(rows', Keys, Int)
  <2>1. interval \in Int /\ IsTable(rows, Keys, Int)
    BY SchedulerAssumption, Parts DEF StoreOK
  <2>2. QED
    BY <1>1, <2>1, PutRow
<1>10. StoreOK'
  BY <1>1, <1>8, <1>9, Parts DEF StoreOK, prefs
<1>11. QED
  BY <1>5, <1>6, <1>7, <1>10, PartsNext

\* A step that leaves the questions, the goroutine and the history alone.
LEMMA OnlyPrefs ==
  ASSUME IInv, UNCHANGED <<rows, process>>, limit' \in Limits,
         active' \in Seq(Packs), IsInjective(active')
  PROVE  IInv'
<1>1. UNCHANGED <<pending, sinceSent, fired, tick, chat>>
  BY DEF process
<1>2. StoreOK'
  BY <1>1, Parts DEF StoreOK
<1>3. PendingOK'
  BY <1>1, Parts DEF PendingOK, Delivered
<1>4. TickOK'
  BY <1>1, Parts DEF TickOK, At, PendingIDs, Delivered
<1>5. RoomLeft'
  BY <1>1, RoomStays, Parts DEF PendingOK
<1>6. QED
  BY <1>2, <1>3, <1>4, <1>5, PartsNext

\* A pack is active once.
LEMMA ActivateInv ==
  ASSUME IInv, NEW p \in Packs, Activate(p)
  PROVE  IInv'
<1>1. UNCHANGED <<rows, process>> /\ limit' = limit /\ p \notin Range(active)
      /\ active' = Append(active, p)
  BY DEF Activate, ChangePrefs
<1>2. active \in Seq(Packs) /\ IsInjective(active) /\ limit \in Limits
  BY Parts DEF StoreOK
<1>3. /\ active' \in Seq(Packs)
      /\ Len(active) \in Nat
      /\ DOMAIN active = 1..Len(active) /\ DOMAIN active' = 1..(Len(active) + 1)
      /\ \A i \in 1..Len(active) : active'[i] = active[i]
      /\ active'[Len(active) + 1] = p
  BY <1>1, <1>2
<1>4. \A i \in DOMAIN active' : i \in DOMAIN active \/ i = Len(active) + 1
  BY <1>3
<1>5. IsInjective(active')
  BY <1>1, <1>2, <1>3, <1>4 DEF IsInjective, Range
<1>6. QED
  BY <1>1, <1>2, <1>3, <1>5, OnlyPrefs

\* Filtering a list of distinct elements.
LEMMA KeptDistinct ==
  ASSUME NEW T, NEW S, NEW s \in Seq(T), IsInjective(s), NEW kept, kept = Keep(s, S)
  PROVE  kept \in Seq(T) /\ IsInjective(kept)
<1>1. /\ kept \in Seq(T)
      /\ \E pos \in [DOMAIN kept -> DOMAIN s] :
           /\ \A a \in DOMAIN kept : kept[a] = s[pos[a]]
           /\ \A a, b \in DOMAIN kept : pos[a] = pos[b] => a = b
  BY KeepPositions
<1>2. PICK pos \in [DOMAIN kept -> DOMAIN s] :
           /\ \A a \in DOMAIN kept : kept[a] = s[pos[a]]
           /\ \A a, b \in DOMAIN kept : pos[a] = pos[b] => a = b
  BY <1>1
<1>3. IsInjective(kept)
  BY <1>2 DEF IsInjective
<1>4. QED
  BY <1>1, <1>3

\* The loop that drops a pack adds none.
LEMMA DeactivateInv ==
  ASSUME IInv, NEW p \in Packs, Deactivate(p)
  PROVE  IInv'
<1>1. UNCHANGED <<rows, process>> /\ limit' = limit /\ active' = Keep(active, Packs \ {p})
  BY DEF Deactivate, ChangePrefs
<1>2. active \in Seq(Packs) /\ IsInjective(active) /\ limit \in Limits
  BY Parts DEF StoreOK
<1>3. active' \in Seq(Packs) /\ IsInjective(active')
  BY <1>1, <1>2, KeptDistinct
<1>4. QED
  BY <1>1, <1>2, <1>3, OnlyPrefs

\* A limit may be lowered below the number of pending questions.
LEMMA SetMaxUnansweredInv ==
  ASSUME IInv, NEW n \in Limits, SetMaxUnanswered(n)
  PROVE  IInv'
<1>1. UNCHANGED <<rows, process>> /\ limit' = n /\ active' = active
  BY DEF SetMaxUnanswered, ChangePrefs
<1>2. QED
  BY <1>1, OnlyPrefs, Parts DEF StoreOK

\* Time passes for the questions that are pending.
LEMMA PassInv == ASSUME IInv, Pass PROVE IInv'
<1>1. UNCHANGED <<prefs, tick>> /\ tick.at = "idle" /\ fired' = TRUE
      /\ rows' = [k \in DOMAIN rows |-> AtLeast(rows[k] - 1, -MaxOverdue)]
      /\ sinceSent' = IF sinceSent = Never THEN Never ELSE AtMost(sinceSent + 1, DeliveryInterval)
  BY DEF Pass, At
<1>2. PICK p : p = pending
  OBVIOUS
<1>3. PICK older : older = [i \in DOMAIN p |-> [q |-> p[i].q, age |-> AtMost(p[i].age + 1, SkipTimeout)]]
  OBVIOUS
<1>4. pending' = older
  BY <1>2, <1>3 DEF Pass
<1>5. SkipTimeout \in Nat /\ DeliveryInterval \in Nat /\ MaxOverdue \in Nat
  BY SchedulerAssumption, BoundAssumption
<1>6. PICK T : T = [q : Questions, age : 0..SkipTimeout]
  OBVIOUS
<1>7. p \in Seq(T) /\ DOMAIN p = 1..Len(p) /\ Len(p) \in Nat /\ \A i \in DOMAIN p : p[i] \in T
  <2>1. p \in Seq(T)
    BY <1>2, <1>6, Parts DEF PendingOK
  <2>2. QED
    BY <2>1
<1>8. \A i \in DOMAIN p : older[i] = [q |-> p[i].q, age |-> AtMost(p[i].age + 1, SkipTimeout)]
  BY <1>3
<1>9. \A i \in DOMAIN p : older[i] \in T /\ older[i].q = p[i].q
  <2>1. ASSUME NEW i \in DOMAIN p
        PROVE  older[i] \in T /\ older[i].q = p[i].q
    <3>1. p[i].q \in Questions /\ p[i].age \in 0..SkipTimeout
      BY <1>6, <1>7
    <3>2. AtMost(p[i].age + 1, SkipTimeout) \in 0..SkipTimeout
      BY <1>5, <3>1 DEF AtMost
    <3>3. PICK n : n = AtMost(p[i].age + 1, SkipTimeout)
      OBVIOUS
    <3>4. older[i] = [q |-> p[i].q, age |-> n]
      BY <1>8, <3>3
    <3>5. n \in 0..SkipTimeout
      BY <3>2, <3>3
    <3>6. QED
      BY <1>6, <3>1, <3>4, <3>5
  <2>2. QED
    BY <2>1
<1>10. DOMAIN older = DOMAIN p
  BY <1>3
<1>11. older \in Seq(T) /\ Len(older) = Len(p)
  BY <1>7, <1>9, <1>10, <1>3
<1>12. PendingIDs' = PendingIDs
  BY <1>2, <1>4, <1>9, <1>10 DEF PendingIDs
<1>13. /\ IsTable(chat', Keys, Entries)
       /\ DOMAIN chat' = DOMAIN chat
       /\ \A k \in DOMAIN chat :
            chat[k].age \in 0..SkipTimeout /\ chat'[k].age = AtMost(chat[k].age + 1, SkipTimeout)
  <2>1. IsTable(chat, Keys, Entries)
    BY Parts DEF StoreOK
  <2>2. chat' = [k \in DOMAIN chat |->
                  [answered |-> chat[k].answered, age |-> AtMost(chat[k].age + 1, SkipTimeout)]]
    BY DEF Pass
  <2>3. ASSUME NEW k \in DOMAIN chat
        PROVE  /\ chat'[k] \in Entries /\ chat[k].age \in 0..SkipTimeout
               /\ chat'[k].age = AtMost(chat[k].age + 1, SkipTimeout)
    <3>1. chat[k] \in Entries
      BY <2>1 DEF IsTable
    <3>2. chat[k].answered \in BOOLEAN /\ chat[k].age \in 0..SkipTimeout
      BY <3>1 DEF Entries
    <3>3. PICK n : n = AtMost(chat[k].age + 1, SkipTimeout)
      OBVIOUS
    <3>4. n \in 0..SkipTimeout
      BY <1>5, <3>2, <3>3 DEF AtMost
    <3>5. chat'[k] = [answered |-> chat[k].answered, age |-> n]
      BY <2>2, <3>3
    <3>6. QED
      BY <3>2, <3>3, <3>4, <3>5 DEF Entries
  <2>4. QED
    BY <2>1, <2>2, <2>3 DEF IsTable
<1>14. \A i, j \in DOMAIN older : older[i].q = older[j].q => i = j
  <2>1. \A i, j \in DOMAIN p : p[i].q = p[j].q => i = j
    BY <1>2, Parts DEF PendingOK
  <2>2. QED
    BY <1>9, <1>10, <2>1
<1>15. PendingOK'
  <2>1. ASSUME NEW i \in DOMAIN older
        PROVE  Delivered(older[i].q, older[i].age)'
    <3>1. PICK q, age : q = p[i].q /\ age = p[i].age
      OBVIOUS
    <3>2. age \in 0..SkipTimeout /\ Delivered(q, age)
      BY <1>2, <1>6, <1>7, <1>10, <2>1, <3>1, Parts DEF PendingOK
    <3>3. PICK k \in DOMAIN chat : k[2] = q /\ chat[k].age >= age
      BY <3>2 DEF Delivered
    <3>4. AtMost(chat[k].age + 1, SkipTimeout) >= AtMost(age + 1, SkipTimeout)
      BY <1>5, <1>13, <3>2, <3>3 DEF AtMost
    <3>5. older[i].q = q /\ older[i].age = AtMost(age + 1, SkipTimeout)
      BY <1>8, <1>10, <3>1
    <3>6. QED
      BY <1>13, <3>3, <3>4, <3>5 DEF Delivered
  <2>2. (\A i \in DOMAIN pending : Delivered(pending[i].q, pending[i].age))'
    BY <1>4, <2>1 DEF Delivered
  <2>3. QED
    BY <1>4, <1>6, <1>11, <1>14, <2>2 DEF PendingOK
<1>16. TickOK'
  BY <1>1 DEF TickOK, At
<1>17. RoomLeft'
  BY <1>1, NoDelivery
<1>18. IsTable(rows', Keys, Int)
  <2>1. IsTable(rows, Keys, Int)
    BY Parts DEF StoreOK
  <2>2. \A k \in DOMAIN rows : rows[k] \in Int
    BY <2>1 DEF IsTable
  <2>3. \A k \in DOMAIN rows : rows'[k] \in Int
    BY <1>1, <1>5, <2>2 DEF AtLeast
  <2>4. QED
    BY <1>1, <2>1, <2>3 DEF IsTable
<1>19. sinceSent' \in 0..DeliveryInterval \cup {Never}
  <2>1. sinceSent \in 0..DeliveryInterval \cup {Never}
    BY Parts DEF StoreOK
  <2>2. QED
    BY <1>1, <1>5, <2>1 DEF AtMost, Never
<1>20. StoreOK'
  BY <1>1, <1>13, <1>18, <1>19, Parts DEF StoreOK, prefs
<1>21. QED
  BY <1>15, <1>16, <1>17, <1>20, PartsNext
-----------------------------------------------------------------------------
(* Nothing but Track adds to the pending questions.                        *)

\* A list that is filtered does not grow.
LEMMA KeepIsShorter ==
  ASSUME IInv, NEW S, pending' = Keep(pending, S)
  PROVE  ~ (Len(pending') > Len(pending))
<1>1. PendingOK
  BY Parts
<1>2. PICK kept : kept = Keep(pending, S)
  OBVIOUS
<1>3. Len(kept) <= Len(pending) /\ Len(kept) \in Nat /\ Len(pending) \in Nat
  BY <1>1, <1>2, KeptPending DEF PendingOK
<1>4. QED
  BY <1>2, <1>3

\* A delivery is tracked by the step that follows its sending.
LEMMA OnlyTrackAdds ==
  ASSUME IInv, [Next]_vars, Len(pending') > Len(pending)
  PROVE  At("track") /\ Len(pending') = Len(pending) + 1
<1>1. Len(pending) \in Nat
  BY Parts DEF PendingOK
<1>2. pending' # pending
  BY <1>1
<1>3. CASE Track
  <2>1. pending \in Seq([q : Questions, age : 0..SkipTimeout])
    BY Parts DEF PendingOK
  <2>2. PICK e : pending' = Append(pending, e)
    BY <1>3 DEF Track
  <2>3. QED
    BY <1>3, <2>1, <2>2 DEF Track
<1>4. CASE Expire
  BY <1>4, KeepIsShorter DEF Expire
<1>5. CASE \E q \in Questions : RecordAnswer(q)
  BY <1>5, KeepIsShorter DEF RecordAnswer
<1>6. CASE StartAgain
  <2>1. Len(pending') = 0
    BY <1>6 DEF StartAgain
  <2>2. QED
    BY <1>1, <2>1
<1>7. CASE Pass
  <2>1. DOMAIN pending = 1..Len(pending)
    BY Parts DEF PendingOK
  <2>2. DOMAIN pending' = DOMAIN pending
    BY <1>7 DEF Pass
  <2>3. Len(pending') = Len(pending)
    <3>1. PendingOK'
      BY <1>7, PassInv, PartsNext
    <3>2. DOMAIN pending' = 1..Len(pending') /\ Len(pending') \in Nat
      BY <3>1 DEF PendingOK
    <3>3. QED
      BY <1>1, <2>1, <2>2, <3>2
  <2>4. QED
    BY <1>1, <2>3
<1>8. CASE UNCHANGED pending
  BY <1>2, <1>8
<1>9. QED
  BY <1>3, <1>4, <1>5, <1>6, <1>7, <1>8 DEF Next, TickStep, FindSkipped, PutSkipped, LoadPrefs,
     Select, SendQuestion, CallFails, Restart, NilPack, Answer, Activate, Deactivate, ChangePrefs,
     SetMaxUnanswered, process, vars
-----------------------------------------------------------------------------
(* The theorems.                                                           *)

\* A fresh start.
LEMMA InitInv == ASSUME Init PROVE IInv
<1>1. rows = EmptyTable /\ chat = EmptyTable /\ limit \in Limits /\ pending = <<>>
      /\ sinceSent = Never /\ fired = FALSE /\ tick.at = "idle"
  BY DEF Init, Idle
<1>2. active \in Seq(Packs) /\ IsInjective(active)
  <2>1. PICK n \in 0..Cardinality(Imported) : active \in [1..n -> Imported]
    BY DEF Init
  <2>2. Imported \subseteq Packs
    BY SchedulerAssumption
  <2>3. n \in Nat
    <3>1. CASE Cardinality(Imported) \in Int
      BY <3>1
    <3>2. QED
      BY <2>1
  <2>4. QED
    BY <2>1, <2>2, <2>3 DEF Init
<1>3. StoreOK
  BY <1>1, <1>2, NoRows DEF StoreOK
<1>4. pending \in Seq([q : Questions, age : 0..SkipTimeout]) /\ DOMAIN pending = {}
      /\ Len(pending) = 0
  BY <1>1
<1>5. PendingOK
  BY <1>4 DEF PendingOK, PendingIDs
<1>6. TickOK
  BY <1>1 DEF TickOK, At
<1>7. RoomLeft
  BY <1>1 DEF RoomLeft, At
<1>8. QED
  BY <1>3, <1>5, <1>6, <1>7, Parts

\* One step per action.
LEMMA NextInv == ASSUME IInv, [Next]_vars PROVE IInv'
<1>1. CASE TickStep
  BY <1>1, ExpireInv, FindSkippedInv, PutSkippedInv, LoadPrefsInv, SelectInv, SendQuestionInv,
     TrackInv DEF TickStep
<1>2. CASE CallFails
  BY <1>2, CallFailsInv
<1>3. CASE Restart
  BY <1>3, StartAgainInv DEF Restart
<1>4. CASE NilPack
  BY <1>4, StartAgainInv DEF NilPack
<1>5. CASE \E q \in Questions : RecordAnswer(q)
  BY <1>5, RecordAnswerInv
<1>6. CASE \E k \in Keys, i \in Intervals : Answer(k, i)
  BY <1>6, AnswerInv
<1>7. CASE \E p \in Packs : Activate(p) \/ Deactivate(p)
  BY <1>7, ActivateInv, DeactivateInv
<1>8. CASE \E n \in Limits : SetMaxUnanswered(n)
  BY <1>8, SetMaxUnansweredInv
<1>9. CASE Pass
  BY <1>9, PassInv
<1>10. CASE UNCHANGED vars
  <2>1. UNCHANGED <<rows, process, active, limit>>
    BY <1>10 DEF vars, prefs
  <2>2. active \in Seq(Packs) /\ IsInjective(active) /\ limit \in Limits
    BY Parts DEF StoreOK
  <2>3. QED
    BY <2>1, <2>2, OnlyPrefs
<1>11. QED
  BY <1>1, <1>2, <1>3, <1>4, <1>5, <1>6, <1>7, <1>8, <1>9, <1>10 DEF Next

\* The inductive invariant holds in every behaviour.
THEOREM Invariance == Spec => []IInv
<1>1. Init => IInv
  BY InitInv
<1>2. IInv /\ [Next]_vars => IInv'
  BY NextInv
<1>3. QED
  BY <1>1, <1>2, PTL DEF Spec

\* Every variable keeps its type; a question being skipped has a key, so the
\* table of reviews never gets a row of a question that does not exist.
THEOREM TypeCorrect == Spec => []TypeOK
<1>1. IInv => TypeOK
  BY DEF IInv
<1>2. QED
  BY Invariance, <1>1, PTL

\* The selection and the append are two critical sections, and still no
\* question is pending twice (tick, selectNextQuestion).
THEOREM PendingAreDistinct == Spec => []PendingOnce
<1>1. IInv => PendingOnce
  BY DEF IInv
<1>2. QED
  BY Invariance, <1>1, PTL

\* However max_unanswered, the answers and the failures interleave with a
\* tick, its delivery leaves no more questions pending than the value of
\* max_unanswered the tick has read (tick).
THEOREM PendingAreFew == Spec => PendingWithinLimit
<1>1. ASSUME IInv, [Next]_vars, Len(pending') > Len(pending)
      PROVE  Len(pending') <= tick.limit
  <2>1. Len(pending) \in Nat
    BY <1>1, Parts DEF PendingOK
  <2>2. At("track") /\ Len(pending') = Len(pending) + 1
    BY <1>1, OnlyTrackAdds
  <2>3. Len(pending) < tick.limit /\ tick.limit \in Nat
    BY <1>1, <2>2, SchedulerAssumption, Parts DEF RoomLeft, TickOK, At
  <2>4. QED
    BY <2>1, <2>2, <2>3
<1>2. IInv /\ [Next]_vars => [Len(pending') > Len(pending) => Len(pending') <= tick.limit]_vars
  BY <1>1
<1>3. QED
  BY Invariance, <1>2, PTL DEF Spec, PendingWithinLimit

\* Whichever pack it is counted against, a skip is the timeout of a question
\* this process sent at least SkipTimeout ago, and whose answer was not
\* recorded; question ids need not be unique over the packs (markSkipped).
THEOREM SkipsAreOfDelivered == Spec => SkipsAreTimeouts
<1>1. ASSUME IInv, [Next]_vars, NEW k \in Keys, Skips(k)
      PROVE  \E l \in DOMAIN chat : l[2] = k[2] /\ chat[l].age >= SkipTimeout
  <2>1. PICK queue : queue = tick.queue
    OBVIOUS
  <2>2. At("skipPut") /\ k[2] = Head(queue)
    BY <1>1, <2>1 DEF Skips, At
  <2>3. queue \in Seq(Questions) /\ queue # <<>> /\ IsInjective(queue)
        /\ \A q \in Range(queue) : Delivered(q, SkipTimeout)
    BY <1>1, <2>1, <2>2, Parts DEF TickOK, At
  <2>4. Head(queue) \in Range(queue)
    BY <2>3, RestOfQueue
  <2>5. QED
    BY <2>2, <2>3, <2>4 DEF Delivered
<1>2. IInv /\ [Next]_vars =>
        [\A k \in Keys : Skips(k) =>
           \E l \in DOMAIN chat : l[2] = k[2] /\ chat[l].age >= SkipTimeout]_vars
  BY <1>1
<1>3. QED
  BY Invariance, <1>2, PTL DEF Spec, SkipsAreTimeouts
=============================================================================
