---------------------------- MODULE ProcessProofs ----------------------------
(***************************************************************************)
(* Proofs about Process and the receiving side of the bot, Telegram: for   *)
(* any messages of the user and any sizes of the channels.                 *)
(***************************************************************************)
EXTENDS Process, DataProofs
-----------------------------------------------------------------------------
(* The inductive invariant.                                                *)

\* The updates the goroutine has done with are the first n that were sent: the
\* rest is, in this order, in its hands, in the library's channel, at the
\* server.
Follows(n) ==
  /\ n \in 0..Len(sent)
  /\ Len(sent) = n + Len(handling) + Len(updates) + Len(inbox)
  /\ \A i \in 1..Len(handling) : handling[i] = sent[n + i]
  /\ \A i \in 1..Len(updates) : updates[i] = sent[n + Len(handling) + i]
  /\ \A i \in 1..Len(inbox) : inbox[i] = sent[n + Len(handling) + Len(updates) + i]

\* A channel holds the first Capacity of what was offered to it.
FirstOf(ch, s) ==
  /\ Len(ch) = IF Len(s) < Capacity THEN Len(s) ELSE Capacity
  /\ \A i \in 1..Len(ch) : ch[i] = s[i]

Done(n) == SubSeq(sent, 1, n)

ChannelsTyped ==
  /\ {sent, inbox, updates, handling, answerCh, commandCh} \subseteq Seq(Sent)
  /\ Len(handling) <= 1
  /\ listener = "parked" => handling = Nothing

ChannelsFilled ==
  \E n \in Nat : /\ Follows(n)
                 /\ FirstOf(answerCh, Keep(Done(n), Buttons))
                 /\ FirstOf(commandCh, Keep(Done(n), Commands))

TgInv == ChannelsTyped /\ ChannelsFilled

\* The database is open from the start of the program to its end, and the
\* goroutine of the scheduler is there in between.
OpenPlaces == {"opened", "listen", "schedule", "command", "wait", "stop", "join",
               "stopListening", "close"}

DbInv ==
  /\ main \in OpenPlaces \cup {"start", "return", "exited", "killed"}
  /\ main \in OpenPlaces => db
  /\ sched \in {"none", "select", "tick", "gone"}
  /\ main \in {"start", "opened", "listen", "schedule"} => sched = "none"
  /\ main \in {"stopListening", "close", "return"} => sched = "gone"

IInv == TgInv /\ DbInv
-----------------------------------------------------------------------------
(* The channels.                                                           *)

\* The updates that are done with are a list of what the user sends.
LEMMA DoneTyped ==
  ASSUME sent \in Seq(Sent), NEW n \in 0..Len(sent)
  PROVE  /\ Done(n) \in Seq(Sent)
         /\ Len(Done(n)) = n
         /\ \A i \in 1..n : Done(n)[i] = sent[i]
BY DEF Done

\* An offer leaves the first Capacity of what was offered, one more included.
LEMMA OfferFirst ==
  ASSUME NEW ch \in Seq(Sent), NEW s \in Seq(Sent), FirstOf(ch, s), NEW p \in Sent
  PROVE  FirstOf(Offer(ch, p), Append(s, p)) /\ Offer(ch, p) \in Seq(Sent)
<1>1. Capacity \in Nat
  BY TelegramAssumption
<1>2. Len(Append(s, p)) = Len(s) + 1 /\ Len(s) \in Nat
      /\ \A i \in 1..Len(s) : Append(s, p)[i] = s[i]
  OBVIOUS
<1>3. CASE Len(ch) < Capacity
  <2>1. Len(ch) = Len(s) /\ Offer(ch, p) = Append(ch, p)
    BY <1>1, <1>2, <1>3 DEF FirstOf, Offer
  <2>2. Len(Offer(ch, p)) = Len(s) + 1
    BY <2>1
  <2>3. ASSUME NEW i \in 1..Len(Offer(ch, p))
        PROVE  Offer(ch, p)[i] = Append(s, p)[i]
    BY <2>1, <2>2 DEF FirstOf
  <2>4. QED
    BY <1>1, <1>2, <1>3, <2>1, <2>2, <2>3 DEF FirstOf
<1>4. CASE ~ (Len(ch) < Capacity)
  <2>1. Offer(ch, p) = ch /\ Len(ch) = Capacity /\ Capacity <= Len(s)
    BY <1>1, <1>2, <1>4 DEF FirstOf, Offer
  <2>2. QED
    BY <1>1, <1>2, <2>1 DEF FirstOf
<1>5. QED
  BY <1>3, <1>4

\* What an element at the end, or taking the first, makes of a list.
LEMMA AppendList ==
  ASSUME NEW T, NEW s \in Seq(T), NEW x \in T
  PROVE  /\ Append(s, x) \in Seq(T)
         /\ Len(Append(s, x)) = Len(s) + 1
         /\ Append(s, x)[Len(s) + 1] = x
         /\ \A i \in 1..Len(s) : Append(s, x)[i] = s[i]
         /\ Len(s) \in Nat
OBVIOUS

LEMMA HeadTailList ==
  ASSUME NEW T, NEW s \in Seq(T), s # <<>>
  PROVE  /\ Head(s) \in T /\ Head(s) = s[1]
         /\ Tail(s) \in Seq(T)
         /\ Len(s) = Len(Tail(s)) + 1
         /\ \A i \in 1..Len(Tail(s)) : Tail(s)[i] = s[i + 1]
         /\ Len(Tail(s)) \in Nat
OBVIOUS

\* Nothing of this depends on the rest of the process.
LEMMA TgSame ==
  ASSUME TgInv, UNCHANGED <<sent, inbox, updates, listener, handling, answerCh, commandCh>>
  PROVE  TgInv'
BY DEF TgInv, ChannelsTyped, ChannelsFilled, Follows, FirstOf, Done

\* Something new is sent: it is the last the server has.
LEMMA SendKeeps ==
  ASSUME TgInv, NEW p \in Sent, Send(p)
  PROVE  TgInv'
<1>1. /\ sent' = Append(sent, p) /\ inbox' = Append(inbox, p)
      /\ UNCHANGED <<updates, listener, handling, answerCh, commandCh>>
  BY DEF Send, bot
<1>2. ChannelsTyped'
  BY <1>1 DEF TgInv, ChannelsTyped
<1>3. PICK n \in Nat : /\ Follows(n)
                       /\ FirstOf(answerCh, Keep(Done(n), Buttons))
                       /\ FirstOf(commandCh, Keep(Done(n), Commands))
  BY DEF TgInv, ChannelsFilled
<1>4. /\ sent \in Seq(Sent) /\ inbox \in Seq(Sent) /\ updates \in Seq(Sent)
      /\ handling \in Seq(Sent)
  BY DEF TgInv, ChannelsTyped
<1>5. Follows(n)'
  <2>1. /\ Len(sent') = Len(sent) + 1 /\ sent'[Len(sent) + 1] = p
        /\ \A i \in 1..Len(sent) : sent'[i] = sent[i]
        /\ Len(inbox') = Len(inbox) + 1 /\ inbox'[Len(inbox) + 1] = p
        /\ \A i \in 1..Len(inbox) : inbox'[i] = inbox[i]
        /\ {Len(sent), Len(inbox), Len(updates), Len(handling)} \subseteq Nat
    BY <1>1, <1>4, AppendList
  <2>2. /\ n \in 0..Len(sent)
        /\ Len(sent) = n + Len(handling) + Len(updates) + Len(inbox)
        /\ \A i \in 1..Len(handling) : handling[i] = sent[n + i]
        /\ \A i \in 1..Len(updates) : updates[i] = sent[n + Len(handling) + i]
        /\ \A i \in 1..Len(inbox) : inbox[i] = sent[n + Len(handling) + Len(updates) + i]
    BY <1>3 DEF Follows
  <2>3. \A i \in 1..Len(handling) : handling[i] = sent'[n + i]
    BY <2>1, <2>2
  <2>4. \A i \in 1..Len(updates) : updates[i] = sent'[n + Len(handling) + i]
    BY <2>1, <2>2
  <2>5. ASSUME NEW i \in 1..Len(inbox')
        PROVE  inbox'[i] = sent'[n + Len(handling) + Len(updates) + i]
    <3>1. i \in 1..Len(inbox) \/ i = Len(inbox) + 1
      BY <2>1
    <3>2. n + Len(handling) + Len(updates) + (Len(inbox) + 1) = Len(sent) + 1
      BY <2>1, <2>2
    <3>3. CASE i = Len(inbox) + 1
      BY <2>1, <3>2, <3>3
    <3>4. CASE i \in 1..Len(inbox)
      <4>1. n + Len(handling) + Len(updates) + i \in 1..Len(sent)
        BY <2>1, <2>2, <3>4
      <4>2. QED
        BY <2>1, <2>2, <3>4, <4>1
    <3>5. QED
      BY <3>1, <3>3, <3>4
  <2>6. n \in 0..Len(sent') /\ Len(sent') = n + Len(handling) + Len(updates) + Len(inbox')
    BY <2>1, <2>2
  <2>7. QED
    BY <1>1, <2>3, <2>4, <2>5, <2>6 DEF Follows
<1>6. Done(n)' = Done(n)
  <2>1. n \in 0..Len(sent) /\ n \in 0..Len(sent')
    BY <1>3, <1>5 DEF Follows
  <2>2. QED
    BY <2>1, <1>1, <1>4 DEF Done
<1>7. QED
  BY <1>1, <1>2, <1>3, <1>5, <1>6 DEF TgInv, ChannelsFilled, FirstOf

\* The library and the goroutine pass on the oldest there is.
LEMMA PassKeeps ==
  ASSUME TgInv, Poll \/ TakeUpdate
  PROVE  TgInv'
<1>1. /\ sent \in Seq(Sent) /\ inbox \in Seq(Sent) /\ updates \in Seq(Sent)
      /\ handling \in Seq(Sent)
  BY DEF TgInv, ChannelsTyped
<1>2. PICK n \in Nat : /\ Follows(n)
                       /\ FirstOf(answerCh, Keep(Done(n), Buttons))
                       /\ FirstOf(commandCh, Keep(Done(n), Commands))
  BY DEF TgInv, ChannelsFilled
<1>3. UNCHANGED <<sent, answerCh, commandCh>>
  BY DEF Poll, TakeUpdate, chat
<1>4. /\ {Len(sent), Len(inbox), Len(updates), Len(handling)} \subseteq Nat
      /\ n \in 0..Len(sent)
      /\ Len(sent) = n + Len(handling) + Len(updates) + Len(inbox)
      /\ \A i \in 1..Len(handling) : handling[i] = sent[n + i]
      /\ \A i \in 1..Len(updates) : updates[i] = sent[n + Len(handling) + i]
      /\ \A i \in 1..Len(inbox) : inbox[i] = sent[n + Len(handling) + Len(updates) + i]
  BY <1>1, <1>2 DEF Follows
<1>5. ChannelsTyped' /\ Follows(n)'
  <2>1. CASE Poll
    <3>1. /\ inbox # <<>> /\ updates' = Append(updates, Head(inbox)) /\ inbox' = Tail(inbox)
          /\ UNCHANGED <<handling, listener>>
      BY <2>1 DEF Poll
    <3>2. /\ Head(inbox) \in Sent /\ Head(inbox) = inbox[1]
          /\ inbox' \in Seq(Sent) /\ Len(inbox) = Len(inbox') + 1 /\ Len(inbox') \in Nat
          /\ \A i \in 1..Len(inbox') : inbox'[i] = inbox[i + 1]
      BY <1>1, <3>1, HeadTailList
    <3>3. /\ updates' \in Seq(Sent) /\ Len(updates') = Len(updates) + 1
          /\ updates'[Len(updates) + 1] = inbox[1]
          /\ \A i \in 1..Len(updates) : updates'[i] = updates[i]
      BY <1>1, <3>1, <3>2, AppendList
    <3>4. ChannelsTyped'
      BY <1>1, <1>3, <3>1, <3>2, <3>3 DEF TgInv, ChannelsTyped
    <3>5. ASSUME NEW i \in 1..Len(updates')
          PROVE  updates'[i] = sent[n + Len(handling) + i]
      <4>1. i \in 1..Len(updates) \/ i = Len(updates) + 1
        BY <1>4, <3>3
      <4>2. inbox[1] = sent[n + Len(handling) + Len(updates) + 1]
        BY <1>4, <3>2
      <4>3. CASE i \in 1..Len(updates)
        BY <1>4, <3>3, <4>3
      <4>4. CASE i = Len(updates) + 1
        <5>1. n + Len(handling) + (Len(updates) + 1) = n + Len(handling) + Len(updates) + 1
          BY <1>4
        <5>2. QED
          BY <3>3, <4>2, <4>4, <5>1
      <4>5. QED
        BY <4>1, <4>3, <4>4
    <3>6. \A i \in 1..Len(inbox') : inbox'[i] = sent[n + Len(handling) + Len(updates') + i]
      BY <1>4, <3>2, <3>3
    <3>7. QED
      BY <1>3, <1>4, <3>1, <3>2, <3>3, <3>4, <3>5, <3>6 DEF Follows
  <2>2. CASE TakeUpdate
    <3>1. /\ updates # <<>> /\ handling' = <<Head(updates)>> /\ updates' = Tail(updates)
          /\ inbox' = inbox /\ listener' = "busy"
      BY <2>2 DEF TakeUpdate, chat
    <3>2. handling = <<>> /\ Len(handling) = 0
      BY <2>2 DEF TakeUpdate, AtSelect, Nothing, TgInv, ChannelsTyped
    <3>3. /\ Head(updates) \in Sent /\ Head(updates) = updates[1]
          /\ updates' \in Seq(Sent) /\ Len(updates) = Len(updates') + 1 /\ Len(updates') \in Nat
          /\ \A i \in 1..Len(updates') : updates'[i] = updates[i + 1]
      BY <1>1, <3>1, HeadTailList
    <3>4. handling' \in Seq(Sent) /\ Len(handling') = 1 /\ handling'[1] = updates[1]
      BY <3>1, <3>3
    <3>5. ChannelsTyped'
      BY <1>1, <1>3, <3>1, <3>3, <3>4 DEF TgInv, ChannelsTyped
    <3>6. handling'[1] = sent[n + 1]
      BY <1>4, <3>2, <3>3, <3>4
    <3>7. \A i \in 1..Len(updates') : updates'[i] = sent[n + Len(handling') + i]
      BY <1>4, <3>2, <3>3, <3>4
    <3>8. \A i \in 1..Len(inbox) : inbox[i] = sent[n + Len(handling') + Len(updates') + i]
      BY <1>4, <3>2, <3>3, <3>4
    <3>9. Len(sent) = n + Len(handling') + Len(updates') + Len(inbox)
      BY <1>4, <3>2, <3>3, <3>4
    <3>10. \A i \in 1..Len(handling') : handling'[i] = sent[n + i]
      BY <3>4, <3>6
    <3>11. Follows(n)'
      BY <1>3, <1>4, <3>1, <3>7, <3>8, <3>9, <3>10 DEF Follows
    <3>12. QED
      BY <3>5, <3>11
  <2>3. QED
    BY <2>1, <2>2
<1>6. Done(n)' = Done(n)
  BY <1>3 DEF Done
<1>7. QED
  BY <1>2, <1>3, <1>5, <1>6 DEF TgInv, ChannelsFilled, FirstOf

\* The update in hand is done with: what it was goes to the end of its channel
\* if there is room.
LEMMA HandleKeeps ==
  ASSUME TgInv, HandleUpdate
  PROVE  TgInv'
<1>1. /\ sent \in Seq(Sent) /\ inbox \in Seq(Sent) /\ updates \in Seq(Sent)
      /\ handling \in Seq(Sent) /\ answerCh \in Seq(Sent) /\ commandCh \in Seq(Sent)
      /\ Len(handling) <= 1
  BY DEF TgInv, ChannelsTyped
<1>2. PICK n \in Nat : /\ Follows(n)
                       /\ FirstOf(answerCh, Keep(Done(n), Buttons))
                       /\ FirstOf(commandCh, Keep(Done(n), Commands))
  BY DEF TgInv, ChannelsFilled
<1>3. PICK p : p = Head(handling)
  OBVIOUS
<1>4. /\ handling # <<>> /\ handling' = <<>>
      /\ answerCh' = IF p \in Buttons THEN Offer(answerCh, p) ELSE answerCh
      /\ commandCh' = IF p \in Commands THEN Offer(commandCh, p) ELSE commandCh
      /\ UNCHANGED <<sent, inbox, updates, listener>>
  BY <1>3 DEF HandleUpdate, Nothing, chat
<1>5. Len(handling) = 1 /\ handling[1] = p /\ p \in Sent
  <2>1. /\ Head(handling) \in Sent /\ Head(handling) = handling[1]
        /\ Len(handling) = Len(Tail(handling)) + 1 /\ Len(Tail(handling)) \in Nat
    BY <1>1, <1>4, HeadTailList
  <2>2. handling[1] = p /\ p \in Sent
    BY <1>3, <2>1
  <2>3. Len(handling) = 1
    <3>1. PICK k \in Nat : Len(handling) = k + 1
      BY <2>1, Zenon
    <3>2. Len(handling) <= 1
      BY <1>1
    <3>3. k = 0
      BY <3>1, <3>2
    <3>4. QED
      BY <3>1, <3>3
  <2>4. QED
    BY <2>2, <2>3
<1>6. /\ {Len(sent), Len(inbox), Len(updates)} \subseteq Nat
      /\ n \in 0..Len(sent)
      /\ Len(sent) = n + 1 + Len(updates) + Len(inbox)
      /\ sent[n + 1] = p
      /\ \A i \in 1..Len(updates) : updates[i] = sent[n + 1 + i]
      /\ \A i \in 1..Len(inbox) : inbox[i] = sent[n + 1 + Len(updates) + i]
  BY <1>1, <1>2, <1>5 DEF Follows
<1>7. Follows(n + 1)'
  <2>1. Len(handling') = 0 /\ n + 1 \in 0..Len(sent)
    BY <1>4, <1>6
  <2>2. \A i \in 1..Len(updates) : updates[i] = sent[n + 1 + Len(handling') + i]
    BY <1>6, <2>1
  <2>3. \A i \in 1..Len(inbox) : inbox[i] = sent[n + 1 + Len(handling') + Len(updates) + i]
    BY <1>6, <2>1
  <2>4. Len(sent) = n + 1 + Len(handling') + Len(updates) + Len(inbox)
    BY <1>6, <2>1
  <2>5. \A i \in 1..Len(handling') : handling'[i] = sent[n + 1 + i]
    BY <2>1
  <2>6. QED
    BY <1>4, <2>1, <2>2, <2>3, <2>4, <2>5 DEF Follows
<1>8. /\ Done(n) \in Seq(Sent) /\ Done(n + 1) \in Seq(Sent)
      /\ Len(Done(n)) = n /\ Len(Done(n + 1)) = n + 1
      /\ \A i \in 1..n : Done(n)[i] = Done(n + 1)[i]
      /\ Done(n + 1)[n + 1] = p
  <2>1. n \in 0..Len(sent) /\ n + 1 \in 0..Len(sent)
    BY <1>6
  <2>2. /\ \A i \in 1..n : Done(n)[i] = sent[i]
        /\ \A i \in 1..(n + 1) : Done(n + 1)[i] = sent[i]
    BY <1>1, <2>1, DoneTyped
  <2>3. /\ Done(n) \in Seq(Sent) /\ Done(n + 1) \in Seq(Sent)
        /\ Len(Done(n)) = n /\ Len(Done(n + 1)) = n + 1
    BY <1>1, <2>1, DoneTyped
  <2>4. QED
    BY <1>6, <2>1, <2>2, <2>3
<1>9. ASSUME NEW S
      PROVE  /\ Keep(Done(n), S) \in Seq(Sent)
             /\ Keep(Done(n + 1), S) =
                  IF p \in S THEN Append(Keep(Done(n), S), p) ELSE Keep(Done(n), S)
  <2>1. PICK s, t : s = Done(n) /\ t = Done(n + 1)
    OBVIOUS
  <2>2. /\ s \in Seq(Sent) /\ t \in Seq(Sent) /\ Len(s) <= Len(t)
        /\ Len(t) = Len(s) + 1 /\ t[Len(t)] = p
        /\ \A i \in 1..Len(s) : s[i] = t[i]
    BY <1>8, <2>1
  <2>3. Keep(t, S) = IF t[Len(t)] \in S THEN Append(Keep(s, S), t[Len(t)]) ELSE Keep(s, S)
    BY <2>2, KeepPrefix
  <2>4. Keep(s, S) \in Seq(Sent)
    BY <2>2, KeepSelects
  <2>5. QED
    BY <2>1, <2>2, <2>3, <2>4
<1>10. FirstOf(answerCh', Keep(Done(n + 1), Buttons)) /\ answerCh' \in Seq(Sent)
  BY <1>1, <1>2, <1>4, <1>5, <1>9, OfferFirst
<1>11. FirstOf(commandCh', Keep(Done(n + 1), Commands)) /\ commandCh' \in Seq(Sent)
  BY <1>1, <1>2, <1>4, <1>5, <1>9, OfferFirst
<1>12. Done(n + 1)' = Done(n + 1) /\ n + 1 \in Nat
  BY <1>4 DEF Done
<1>13. ChannelsTyped'
  <2>1. handling' \in Seq(Sent) /\ Len(handling') = 0
    BY <1>4
  <2>2. QED
    BY <1>1, <1>4, <1>10, <1>11, <2>1 DEF ChannelsTyped, Nothing
<1>14. ChannelsFilled'
  BY <1>7, <1>10, <1>11, <1>12 DEF ChannelsFilled, FirstOf
<1>15. QED
  BY <1>13, <1>14 DEF TgInv

\* The rest of what goroutine and library do touches no channel.
LEMMA ListenerKeeps ==
  ASSUME TgInv, Park \/ SeeCancelled \/ StartListening \/ StopListening
  PROVE  TgInv'
<1>1. UNCHANGED <<sent, inbox, updates, handling, answerCh, commandCh>>
  BY DEF Park, SeeCancelled, StartListening, StopListening, Quit, chat, bot
<1>2. listener' = "parked" => handling = Nothing
  BY DEF Park, SeeCancelled, StartListening, StopListening, Quit, bot, TgInv, ChannelsTyped
<1>3. ChannelsTyped'
  BY <1>1, <1>2 DEF TgInv, ChannelsTyped, Nothing
<1>4. ChannelsFilled'
  BY <1>1 DEF TgInv, ChannelsFilled, Follows, FirstOf, Done
<1>5. QED
  BY <1>3, <1>4 DEF TgInv
-----------------------------------------------------------------------------
(* The process.                                                            *)

\* Nothing main or the scheduler does but to start and to stop the bot touches
\* what it has received.
LEMMA ProcessKeepsChannels ==
  ASSUME TgInv, [Next]_vars
  PROVE  TgInv'
<1>1. CASE Listen \/ StopBot
  BY <1>1, ListenerKeeps DEF Listen, StopBot
<1>2. CASE BotStep
  BY <1>2, ListenerKeeps, PassKeeps, HandleKeeps DEF BotStep, ListenerStep
<1>3. CASE UserStep
  BY <1>3, SendKeeps DEF UserStep
<1>4. CASE PollStep
  BY <1>4, PassKeeps DEF PollStep
<1>5. CASE Interrupt
  BY <1>5, TgSame DEF Interrupt, chat, bot
<1>6. CASE \/ Open \/ NotifyContext \/ StartScheduler \/ ReadInput \/ CommandReturns
           \/ AwaitSignal \/ CancelScheduler \/ JoinScheduler \/ Close \/ Exit
  BY <1>6, TgSame DEF Open, NotifyContext, StartScheduler, ReadInput, CommandReturns,
     AwaitSignal, CancelScheduler, JoinScheduler, Close, Exit, tgVars, chat, bot
<1>7. CASE OpenFails \/ InputArrives \/ TickerFires \/ BeginTick \/ EndTick \/ SchedulerReturns
  BY <1>7, TgSame DEF OpenFails, InputArrives, TickerFires, BeginTick, EndTick,
     SchedulerReturns, tgVars, chat, bot
<1>8. CASE UNCHANGED vars
  BY <1>8, TgSame DEF vars, tgVars, chat, bot
<1>9. QED
  BY <1>1, <1>2, <1>3, <1>4, <1>5, <1>6, <1>7, <1>8 DEF Next, MainStep

\* main opens the database before it starts anything, and closes it when the
\* goroutine of the scheduler has gone.
LEMMA ProcessKeepsDb ==
  ASSUME DbInv, [Next]_vars
  PROVE  DbInv'
<1> USE DEF DbInv, OpenPlaces, At
<1>1. CASE Open \/ OpenFails \/ NotifyContext
  BY <1>1 DEF Open, OpenFails, NotifyContext
<1>2. CASE Listen \/ StartScheduler
  BY <1>2 DEF Listen, StartScheduler
<1>3. CASE ReadInput \/ InputArrives \/ CommandReturns
  BY <1>3 DEF ReadInput, InputArrives, CommandReturns
<1>4. CASE AwaitSignal \/ CancelScheduler \/ JoinScheduler
  BY <1>4 DEF AwaitSignal, CancelScheduler, JoinScheduler
<1>5. CASE StopBot \/ Close \/ Exit
  BY <1>5 DEF StopBot, Close, Exit
<1>6. CASE TickerFires \/ BeginTick \/ EndTick
  BY <1>6 DEF TickerFires, BeginTick, EndTick
<1>7. CASE SchedulerReturns
  BY <1>7 DEF SchedulerReturns
<1>8. CASE Interrupt
  BY <1>8 DEF Interrupt
<1>9. CASE BotStep \/ UserStep \/ PollStep
  BY <1>9 DEF BotStep, UserStep, PollStep, procVars
<1>10. CASE UNCHANGED vars
  BY <1>10 DEF vars, procVars
<1>11. QED
  BY <1>1, <1>2, <1>3, <1>4, <1>5, <1>6, <1>7, <1>8, <1>9, <1>10 DEF Next, MainStep

LEMMA InitProcess == Init => IInv
<1> SUFFICES ASSUME Init PROVE IInv
  OBVIOUS
<1>1. /\ sent = <<>> /\ inbox = <<>> /\ updates = <<>> /\ handling = <<>>
      /\ answerCh = <<>> /\ commandCh = <<>> /\ listener = "none"
  BY DEF Init, TgInit, Nothing
<1>2. ChannelsTyped
  BY <1>1 DEF ChannelsTyped, Nothing
<1>3. Follows(0)
  BY <1>1 DEF Follows
<1>4. Done(0) = <<>>
  BY <1>1 DEF Done
<1>5. FirstOf(answerCh, Keep(Done(0), Buttons)) /\ FirstOf(commandCh, Keep(Done(0), Commands))
  <2>1. Keep(Done(0), Buttons) = <<>> /\ Keep(Done(0), Commands) = <<>>
    BY <1>4, KeepNothing
  <2>2. 0 < Capacity /\ Capacity \in Nat
    BY TelegramAssumption
  <2>3. QED
    BY <1>1, <2>1, <2>2 DEF FirstOf
<1>6. DbInv
  BY DEF Init, DbInv, OpenPlaces
<1>7. QED
  BY <1>2, <1>3, <1>5, <1>6 DEF IInv, TgInv, ChannelsFilled

LEMMA Inductive == Spec => []IInv
<1>1. IInv /\ [Next]_vars => IInv'
  BY ProcessKeepsChannels, ProcessKeepsDb DEF IInv
<1>2. QED
  BY InitProcess, <1>1, PTL DEF Spec
-----------------------------------------------------------------------------
(* The theorems.                                                           *)

\* Whoever uses the database finds it open: the command, and the scheduler in
\* the middle of a tick, whenever the signal comes (main.go, the deferred
\* db.Close; scheduler.go, Stop).
THEOREM DatabaseOpen == Spec => []StoreOpenWhileUsed
<1>1. IInv => StoreOpenWhileUsed
  BY DEF IInv, DbInv, OpenPlaces, StoreOpenWhileUsed, Ended, At
<1>2. QED
  BY Inductive, <1>1, PTL

\* The channels hold what the user sent first, in that order and without gaps,
\* for channels of any size (telegram.go, handleCallbackQuery, handleCommand).
THEOREM InOrderOfSending == Spec => []EventsInOrder
<1>1. IInv => EventsInOrder
  <2> SUFFICES ASSUME IInv PROVE EventsInOrder
    OBVIOUS
  <2>1. PICK n \in Nat : /\ Follows(n)
                         /\ FirstOf(answerCh, Keep(Done(n), Buttons))
                         /\ FirstOf(commandCh, Keep(Done(n), Commands))
    BY DEF IInv, TgInv, ChannelsFilled
  <2>2. sent \in Seq(Sent) /\ answerCh \in Seq(Sent) /\ commandCh \in Seq(Sent)
    BY DEF IInv, TgInv, ChannelsTyped
  <2>3. ASSUME NEW ch \in Seq(Sent), NEW S, FirstOf(ch, Keep(Done(n), S))
        PROVE  IsPrefix(ch, Keep(sent, S))
    <3>1. PICK s : s = Done(n)
      OBVIOUS
    <3>2. /\ s \in Seq(Sent) /\ Len(s) <= Len(sent)
          /\ \A i \in 1..Len(s) : s[i] = sent[i]
      BY <2>1, <2>2, <3>1, DoneTyped DEF Follows
    <3>3. PICK k, l : k = Keep(s, S) /\ l = Keep(sent, S)
      OBVIOUS
    <3>4. /\ k \in Seq(Sent) /\ l \in Seq(Sent)
      BY <2>2, <3>2, <3>3, KeepSelects
    <3>5. Len(k) <= Len(l) /\ \A i \in 1..Len(k) : k[i] = l[i]
      BY <2>2, <3>2, <3>3, KeepPrefix
    <3>6. Len(ch) <= Len(k) /\ \A i \in 1..Len(ch) : ch[i] = k[i]
      BY <2>3, <3>1, <3>3, <3>4, TelegramAssumption DEF FirstOf
    <3>7. Len(ch) <= Len(l) /\ \A i \in 1..Len(ch) : ch[i] = l[i]
      BY <2>3, <3>4, <3>5, <3>6
    <3>8. SubSeq(ch, 1, Len(ch)) = SubSeq(l, 1, Len(ch))
      BY <2>3, <3>4, <3>7
    <3>9. QED
      BY <3>3, <3>7, <3>8 DEF IsPrefix
  <2>4. QED
    BY <2>1, <2>2, <2>3 DEF EventsInOrder
<1>2. QED
  BY Inductive, <1>1, PTL
=============================================================================
