------------------------------- MODULE Telegram -------------------------------
(***************************************************************************)
(* The receiving side of the Telegram messenger                            *)
(* (internal/messenger/telegram/telegram.go): a goroutine of the library   *)
(* polls the server and fills a bounded channel of updates; the goroutine  *)
(* of StartListening takes them out and puts events into answerCh and      *)
(* commandCh, from which nothing in the program receives.  It is ended by  *)
(* a cancelled context or by a send on the unbuffered stopCh.              *)
(*                                                                         *)
(* The goroutine is "busy" (handling an update, or on its way back to the  *)
(* select) or "parked" in the select; only there can it be met on stopCh.  *)
(***************************************************************************)
EXTENDS Integers, Sequences, SequencesExt, Lists

CONSTANTS
  Buttons, Commands, Others,  \* what the user may send: buttons of questions,
                              \* commands, and anything else
  Buffer,                     \* the library's channel of updates
  Capacity                    \* answerCh and commandCh

Sent == Buttons \cup Commands \cup Others

ASSUME TelegramAssumption ==
  /\ Buffer \in Nat \ {0}
  /\ Capacity \in Nat \ {0}
  /\ Buttons \cap Commands = {} /\ Others \cap (Buttons \cup Commands) = {}

VARIABLES
  sent,        \* history: what the user has sent, in order
  inbox,       \* what the server has for the bot
  polling,     \* the library polls (its shutdown channel is open)
  updates,     \* the library's channel of updates
  listener,    \* where the goroutine stands
  handling,    \* the update it handles, if any, and what is left to do
  answerCh, commandCh,
  acked,       \* history: buttons whose spinner is gone
  refused,     \* history: buttons whose acknowledgement failed
  cancelled    \* the context is done

chat == <<sent, inbox>>
bot == <<polling, updates, listener, handling, answerCh, commandCh, acked, refused>>
tgVars == <<chat, bot, cancelled>>
-----------------------------------------------------------------------------
(* The user and the library.                                               *)

Send(p) ==
  /\ p \notin Range(sent)
  /\ sent' = Append(sent, p)
  /\ inbox' = Append(inbox, p)
  /\ UNCHANGED <<bot, cancelled>>

\* The poller blocks while its channel is full.
Poll ==
  /\ polling
  /\ inbox # <<>>
  /\ Len(updates) < Buffer
  /\ updates' = Append(updates, Head(inbox))
  /\ inbox' = Tail(inbox)
  /\ UNCHANGED <<sent, polling, listener, handling, answerCh, commandCh, acked, refused, cancelled>>
-----------------------------------------------------------------------------
(* The goroutine.                                                          *)

Nothing == <<>>

StartListening ==
  /\ listener = "none"
  /\ listener' = "busy"
  /\ polling' = TRUE
  /\ UNCHANGED <<chat, updates, handling, answerCh, commandCh, acked, refused, cancelled>>

\* Nothing is ready: the goroutine waits in the select.
Park ==
  /\ listener = "busy"
  /\ handling = Nothing
  /\ listener' = "parked"
  /\ UNCHANGED <<chat, polling, updates, handling, answerCh, commandCh, acked, refused, cancelled>>

AtSelect == listener = "parked" \/ (listener = "busy" /\ handling = Nothing)

TakeUpdate ==
  /\ AtSelect
  /\ updates # <<>>
  /\ listener' = "busy"
  /\ handling' = <<Head(updates)>>
  /\ updates' = Tail(updates)
  /\ UNCHANGED <<chat, polling, answerCh, commandCh, acked, refused, cancelled>>

Quit ==
  /\ listener' = "gone"
  /\ polling' = FALSE
  /\ UNCHANGED <<chat, updates, handling, answerCh, commandCh, acked, refused>>

SeeCancelled ==
  /\ AtSelect
  /\ cancelled
  /\ Quit
  /\ UNCHANGED cancelled

\* Mutant of Offer: the oldest event makes room.
OfferNewest(ch, p) == IF Len(ch) < Capacity THEN Append(ch, p) ELSE Append(Tail(ch), p)

\* A send that does not wait: the event is dropped when the channel is full.
Offer(ch, p) == IF Len(ch) < Capacity THEN Append(ch, p) ELSE ch

\* The one request that takes the spinner away; its error is discarded.
Acknowledge(p) ==
  \/ acked' = acked \cup {p} /\ UNCHANGED refused
  \/ refused' = refused \cup {p} /\ UNCHANGED acked

\* Mutants of HandleUpdate: a full channel blocks; a dropped button is not
\* acknowledged.
HandleUpdateBlocking ==
  /\ handling # Nothing
  /\ LET p == Head(handling)
     IN  /\ p \in Buttons => Len(answerCh) < Capacity
         /\ answerCh' = IF p \in Buttons THEN Offer(answerCh, p) ELSE answerCh
         /\ commandCh' = IF p \in Commands THEN Offer(commandCh, p) ELSE commandCh
         /\ IF p \in Buttons THEN Acknowledge(p) ELSE UNCHANGED <<acked, refused>>
  /\ handling' = Nothing
  /\ UNCHANGED <<chat, polling, updates, listener, cancelled>>

HandleUpdateReturning ==
  /\ handling # Nothing
  /\ LET p == Head(handling)
     IN  /\ answerCh' = IF p \in Buttons THEN Offer(answerCh, p) ELSE answerCh
         /\ commandCh' = IF p \in Commands THEN Offer(commandCh, p) ELSE commandCh
         /\ IF p \in Buttons /\ Len(answerCh) < Capacity
              THEN Acknowledge(p) ELSE UNCHANGED <<acked, refused>>
  /\ handling' = Nothing
  /\ UNCHANGED <<chat, polling, updates, listener, cancelled>>

\* handleUpdate; the bot tries to acknowledge a button whether or not its event
\* found room.
HandleUpdate ==
  /\ handling # Nothing
  /\ LET p == Head(handling)
     IN  /\ answerCh' = IF p \in Buttons THEN Offer(answerCh, p) ELSE answerCh
         /\ commandCh' = IF p \in Commands THEN Offer(commandCh, p) ELSE commandCh
         /\ IF p \in Buttons THEN Acknowledge(p) ELSE UNCHANGED <<acked, refused>>
  /\ handling' = Nothing
  /\ UNCHANGED <<chat, polling, updates, listener, cancelled>>

ListenerStep == Park \/ TakeUpdate \/ SeeCancelled \/ HandleUpdate

\* Mutant of StopListening: the send waits for the goroutine.
StopListeningWaiting ==
  /\ listener = "parked" /\ Quit
  /\ UNCHANGED cancelled

\* The send succeeds when the goroutine is parked, and is given up otherwise.
StopListening ==
  /\ IF listener = "parked" THEN Quit ELSE UNCHANGED <<chat, bot>>
  /\ UNCHANGED cancelled
-----------------------------------------------------------------------------
TgInit ==
  /\ sent = <<>> /\ inbox = <<>>
  /\ polling = FALSE
  /\ updates = <<>> /\ handling = Nothing
  /\ listener = "none"
  /\ answerCh = <<>> /\ commandCh = <<>>
  /\ acked = {} /\ refused = {}
  /\ cancelled = FALSE
-----------------------------------------------------------------------------
(* Properties.                                                             *)

\* What waits for a receiver is what the user pressed first, in that order,
\* with no gap: events are never reordered or duplicated, and only what comes
\* after a full channel is dropped (telegram.go, handleCallbackQuery).
EventsInOrder ==
  /\ IsPrefix(answerCh, Keep(sent, Buttons))
  /\ IsPrefix(commandCh, Keep(sent, Commands))
=============================================================================
