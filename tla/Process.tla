------------------------------- MODULE Process -------------------------------
(***************************************************************************)
(* One quizbot process (cmd/quizbot/main.go): the main goroutine opens the *)
(* database, takes over the signals, starts the bot and the scheduler,     *)
(* runs one command, waits for a signal, and shuts everything down.  The   *)
(* command runs in the main goroutine and may wait for standard input; it  *)
(* does not look at the context.  Telegram is the receiving side of the    *)
(* bot.                                                                    *)
(*                                                                         *)
(* Of a tick of the scheduler only its beginning and end are told apart:   *)
(* in between it uses the database.                                        *)
(***************************************************************************)
EXTENDS Telegram

VARIABLES
  main,         \* the next thing main does
  waiting,      \* the command waits for standard input
  db,           \* the database is open
  sched,        \* the goroutine of the scheduler
  fired,        \* the ticker's channel holds a tick
  schedDone,    \* the context of the scheduler is done
  interrupted   \* history: the user has pressed Ctrl+C since the start

procVars == <<main, waiting, db, sched, fired, schedDone, interrupted>>
vars == <<tgVars, procVars>>

At(place) == main = place

Ended == At("exited") \/ At("killed")
-----------------------------------------------------------------------------
(* The main goroutine.                                                     *)

\* sqlite.Open and the components.
Open ==
  /\ At("start")
  /\ main' = "opened"
  /\ db' = TRUE
  /\ UNCHANGED <<tgVars, waiting, sched, fired, schedDone, interrupted>>

\* The database or the bot is not there: os.Exit(1).
OpenFails ==
  /\ At("start") \/ At("opened")
  /\ main' = "killed"
  /\ db' = FALSE
  /\ UNCHANGED <<tgVars, waiting, sched, fired, schedDone, interrupted>>

\* From here on signals cancel the context.
NotifyContext ==
  /\ At("opened")
  /\ main' = "listen"
  /\ UNCHANGED <<tgVars, waiting, db, sched, fired, schedDone, interrupted>>

Listen ==
  /\ At("listen")
  /\ main' = "schedule"
  /\ StartListening
  /\ UNCHANGED <<waiting, db, sched, fired, schedDone, interrupted>>

StartScheduler ==
  /\ At("schedule")
  /\ main' = "command"
  /\ sched' = "select"
  /\ schedDone' = cancelled
  /\ UNCHANGED <<tgVars, waiting, db, fired, interrupted>>

ReadInput ==
  /\ At("command") /\ ~ waiting
  /\ waiting' = TRUE
  /\ UNCHANGED <<tgVars, main, db, sched, fired, schedDone, interrupted>>

\* A line, or the end of the input.
InputArrives ==
  /\ At("command") /\ waiting
  /\ waiting' = FALSE
  /\ UNCHANGED <<tgVars, main, db, sched, fired, schedDone, interrupted>>

CommandReturns ==
  /\ At("command") /\ ~ waiting
  /\ main' = "wait"
  /\ UNCHANGED <<tgVars, waiting, db, sched, fired, schedDone, interrupted>>

AwaitSignal ==
  /\ At("wait") /\ cancelled
  /\ main' = "stop"
  /\ UNCHANGED <<tgVars, waiting, db, sched, fired, schedDone, interrupted>>

\* Stop: the context of the scheduler is cancelled, then its goroutine awaited.
CancelScheduler ==
  /\ At("stop")
  /\ schedDone' = TRUE
  /\ main' = "join"
  /\ UNCHANGED <<tgVars, waiting, db, sched, fired, interrupted>>

\* Mutant of JoinScheduler: Stop does not wait for the goroutine.
JoinSchedulerNot ==
  /\ At("join")
  /\ main' = "stopListening"
  /\ UNCHANGED <<tgVars, waiting, db, sched, fired, schedDone, interrupted>>

JoinScheduler ==
  /\ At("join") /\ sched = "gone"
  /\ main' = "stopListening"
  /\ UNCHANGED <<tgVars, waiting, db, sched, fired, schedDone, interrupted>>

StopBot ==
  /\ At("stopListening")
  /\ StopListening
  /\ main' = "close"
  /\ UNCHANGED <<waiting, db, sched, fired, schedDone, interrupted>>

\* The deferred calls: stop, then db.Close.
Close ==
  /\ At("close")
  /\ db' = FALSE
  /\ main' = "return"
  /\ UNCHANGED <<tgVars, waiting, sched, fired, schedDone, interrupted>>

\* main has returned: the process ends, with whatever goroutines there are.
Exit ==
  /\ At("return")
  /\ main' = "exited"
  /\ UNCHANGED <<tgVars, waiting, db, sched, fired, schedDone, interrupted>>

MainStep ==
  \/ Open \/ NotifyContext \/ Listen \/ StartScheduler
  \/ ReadInput \/ CommandReturns
  \/ AwaitSignal \/ CancelScheduler \/ JoinScheduler \/ StopBot \/ Close \/ Exit
-----------------------------------------------------------------------------
(* The scheduler and the signal.                                           *)

TickerFires ==
  /\ sched # "none" /\ ~ Ended
  /\ fired' = TRUE
  /\ UNCHANGED <<tgVars, main, waiting, db, sched, schedDone, interrupted>>

BeginTick ==
  /\ sched = "select" /\ fired /\ ~ Ended
  /\ sched' = "tick"
  /\ fired' = FALSE
  /\ UNCHANGED <<tgVars, main, waiting, db, schedDone, interrupted>>

EndTick ==
  /\ sched = "tick" /\ ~ Ended
  /\ sched' = "select"
  /\ UNCHANGED <<tgVars, main, waiting, db, fired, schedDone, interrupted>>

SchedulerReturns ==
  /\ sched = "select" /\ schedDone /\ ~ Ended
  /\ sched' = "gone"
  /\ UNCHANGED <<tgVars, main, waiting, db, fired, schedDone, interrupted>>

\* Ctrl+C: until NotifyContext it ends the process, then it cancels the
\* context and with it that of the scheduler.
Interrupt ==
  /\ ~ Ended
  /\ interrupted' = TRUE
  /\ IF At("start") \/ At("opened")
       THEN /\ main' = "killed" /\ db' = FALSE
            /\ UNCHANGED <<cancelled, schedDone>>
       ELSE /\ cancelled' = TRUE /\ schedDone' = (sched # "none")
            /\ UNCHANGED <<main, db>>
  /\ UNCHANGED <<chat, bot, waiting, sched, fired>>

BotStep == ListenerStep /\ ~ Ended /\ UNCHANGED procVars

UserStep == \E p \in Sent : Send(p) /\ UNCHANGED procVars

PollStep == Poll /\ ~ Ended /\ UNCHANGED procVars
-----------------------------------------------------------------------------
Init ==
  /\ TgInit
  /\ main = "start"
  /\ waiting = FALSE /\ db = FALSE
  /\ sched = "none" /\ fired = FALSE /\ schedDone = FALSE
  /\ interrupted = FALSE

Next ==
  \/ MainStep \/ OpenFails \/ InputArrives
  \/ TickerFires \/ BeginTick \/ EndTick \/ SchedulerReturns
  \/ Interrupt
  \/ BotStep \/ UserStep \/ PollStep

Spec == Init /\ [][Next]_vars

\* The goroutines run, calls of the store and of the messenger return, and the
\* select of a goroutine whose context is done does not choose another case
\* every time.  A command reads a finite number of answers.
Fairness ==
  /\ WF_vars(MainStep)
  /\ SF_vars(CommandReturns)
  /\ WF_vars(EndTick)
  /\ SF_vars(SchedulerReturns)
  /\ WF_vars(BotStep)
  /\ SF_vars(SeeCancelled /\ ~ Ended /\ UNCHANGED procVars)
  /\ WF_vars(PollStep)

FairSpec == Spec /\ Fairness
-----------------------------------------------------------------------------
(* Properties.                                                             *)

\* Whoever uses the database finds it open: the command, and the scheduler in
\* the middle of a tick, whenever the signal comes and however long the tick
\* takes (main.go, the deferred db.Close; scheduler.go, Stop).
StoreOpenWhileUsed ==
  ((sched = "tick" /\ ~ Ended) \/ At("command")) => db

\* For every button that the bot can still fetch it asks to have the spinner
\* removed, although nobody receives the events and the channel is full from
\* the Capacity-th on, unless bot or process have ended ("Acknowledge the
\* callback query to remove the loading spinner.", telegram.go,
\* handleCallbackQuery).  A request that fails is not made again.
SpinnersAreSeenTo ==
  \A p \in Buttons :
    (p \in Range(inbox) /\ polling) ~> (p \in acked \cup refused \/ listener = "gone" \/ Ended)

\* "The goroutine exits when ctx is cancelled" (telegram.go, StartListening):
\* with updates waiting, with channels full, and also while the command goes
\* on waiting for input and main is not going to stop anything.
CancelEnds == (cancelled /\ listener # "none") ~> (listener = "gone" \/ Ended)

\* A signal ends the process, whether the bot still listens or has gone
\* already, its channels full or not, a tick under way or not, as long as a
\* command that reads input does not wait for ever: it does not look at the
\* context, although NotifyContext has taken the signal over (main.go;
\* scheduler.go, Stop; telegram.go, StopListening).
SignalEnds == []<>(~ waiting) => (interrupted ~> Ended)
=============================================================================
