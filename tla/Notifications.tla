----------------------------- MODULE Notifications -----------------------------
(***************************************************************************)
(* internal/notifications: the service that taps the MQTT queue and posts  *)
(* a message for each change of the print to an Apprise server.            *)
(*                                                                         *)
(* Names and templates of the messages are left out; a post either reaches *)
(* the recipient or does not.                                              *)
(***************************************************************************)
EXTENDS Integers, Sequences

CONSTANTS
  TapSize,     \* room in the channel of the tap
  FullPercent, \* 100 %, in the unit of the progress reports
  Interval,    \* Progress.IntervalPercent in that unit
  MaxValue     \* Progress.MaxValue: messages per print, 0 for no limit

ASSUME NotificationsAssumption ==
  /\ TapSize \in Nat \ {0} /\ FullPercent \in Nat \ {0}
  /\ Interval \in 1..FullPercent /\ MaxValue \in Nat

VARIABLES
  printer,     \* state in the last print_state event of the MQTT queue
  tapped,      \* WorkerRun is running and has its tap
  events,      \* the channel of the tap
  lastState,
  lastProgressNotified,
  progressSendCount,
  sending,     \* message being posted
  appriseOn,   \* the configuration has Apprise enabled
  told,        \* last message about the state that arrived (external)
  missed       \* history: since the recipient last knew, one did not arrive

notifVars == <<printer, tapped, events, lastState, lastProgressNotified,
               progressSendCount, sending, appriseOn, told, missed>>

Stats    == {"idle", "printing", "paused", "aborted", "other"}
Messages == {"started", "resumed", "paused", "finished", "failed"}
Nothing  == "nothing"
Progress == 1..FullPercent

(* An event has a state or a progress. *)
StateEvent(state)    == [state |-> state, progress |-> 0]
ProgressEvent(value) == [state |-> Nothing, progress |-> value]

NotifTypeOK ==
  /\ printer \in Stats \union {"unknown"}
  /\ tapped \in BOOLEAN
  /\ events \in Seq([state : Stats \union {Nothing}, progress : 0..FullPercent])
  /\ Len(events) <= TapSize
  /\ lastState \in Stats \union {"unknown"}
  /\ lastProgressNotified \in -1..FullPercent
  /\ progressSendCount \in Nat
  /\ sending \in Messages \union {"progress", Nothing}
  /\ appriseOn \in BOOLEAN /\ missed \in BOOLEAN
  /\ told \in Messages \union {Nothing}

NotifInit ==
  /\ printer = "unknown" /\ lastState = "unknown"
  /\ tapped = FALSE
  /\ events = << >>
  /\ lastProgressNotified = -1 /\ progressSendCount = 0
  /\ sending = Nothing /\ told = Nothing
  /\ appriseOn = TRUE
  /\ missed = FALSE

(* What the recipient was told last fits the state. *)
Fits(message, state) ==
  CASE state = "printing"             -> message \in {"started", "resumed"}
    [] state = "paused"               -> message = "paused"
    [] state \in {"idle", "aborted"}  -> message \in {Nothing, "finished", "failed"}
    [] OTHER                          -> FALSE

-----------------------------------------------------------------------------
(* The tap: when the channel is full the new event is dropped. *)

Offer(event) ==
  events' = IF tapped /\ Len(events) < TapSize THEN Append(events, event) ELSE events

PrinterTurns(state) ==
  /\ printer' = state
  /\ Offer(StateEvent(state))
  /\ missed' = (missed \/ events' = events)
  /\ UNCHANGED <<tapped, lastState, lastProgressNotified, progressSendCount,
                 sending, appriseOn, told>>

ProgressReport(value) ==
  /\ printer \in {"printing", "paused", "idle"}
  /\ Offer(ProgressEvent(value))
  /\ UNCHANGED <<printer, tapped, lastState, lastProgressNotified, progressSendCount,
                 sending, appriseOn, told, missed>>

-----------------------------------------------------------------------------
(* handleEvent: one at a time, and a post keeps the next one waiting. *)

Takes == tapped /\ sending = Nothing /\ events # << >>

(* currentClient reads the configuration again for every message. *)
Send(message) == sending' = IF appriseOn THEN message ELSE Nothing

(* Mutant: a print that is aborted while it is paused ends unsaid. *)
MessageUnlessPaused(prev, state) ==
  CASE state = "printing" /\ prev = "paused"                    -> "resumed"
    [] state = "printing" /\ prev \notin {"paused", "printing"} -> "started"
    [] state = "paused"   /\ prev = "printing"                  -> "paused"
    [] state = "idle"     /\ prev \in {"printing", "paused"}    -> "finished"
    [] state = "aborted"  /\ prev = "printing"                  -> "failed"
    [] OTHER                                                    -> Nothing

Message(prev, state) ==
  CASE state = "printing" /\ prev = "paused"                    -> "resumed"
    [] state = "printing" /\ prev \notin {"paused", "printing"} -> "started"
    [] state = "paused"   /\ prev = "printing"                  -> "paused"
    [] state = "idle"     /\ prev \in {"printing", "paused"}    -> "finished"
    [] state = "aborted"  /\ prev \in {"printing", "paused"}    -> "failed"
    [] OTHER                                                    -> Nothing

(* Changes no message is meant for: another state of the printer, and the  *)
(* pause of a print whose start was not seen.                              *)
NotSaid(prev, state) ==
  state = "other" \/ (state = "paused" /\ prev \notin {"printing", "paused"})

handleStateTransition ==
  /\ Takes /\ Head(events).state # Nothing
  /\ LET state == Head(events).state
         message == Message(lastState, state)
     IN  /\ lastState' = state
         /\ Send(message)
         /\ IF message \in {"started", "finished", "failed"}
            THEN lastProgressNotified' = -1 /\ progressSendCount' = 0
            ELSE UNCHANGED <<lastProgressNotified, progressSendCount>>
         /\ missed' = (missed \/ NotSaid(lastState, state) \/ (message # Nothing /\ ~appriseOn))
  /\ events' = Tail(events)
  /\ UNCHANGED <<printer, tapped, appriseOn, told>>

NextThreshold == IF lastProgressNotified < 0 THEN Interval ELSE lastProgressNotified + Interval

(* A full report before the first of a print is the previous print's. *)
ProgressIsNews(value) ==
  /\ appriseOn
  /\ lastState = "printing"
  /\ ~(lastProgressNotified < 0 /\ value >= FullPercent)
  /\ value >= NextThreshold
  /\ ~(MaxValue > 0 /\ progressSendCount >= MaxValue)

maybeProgressNotification ==
  /\ Takes /\ Head(events).state = Nothing
  /\ LET value == Head(events).progress
     IN  IF ProgressIsNews(value)
         THEN /\ lastProgressNotified' = value
              /\ progressSendCount' = progressSendCount + 1
              /\ Send("progress")
         ELSE UNCHANGED <<lastProgressNotified, progressSendCount, sending>>
  /\ events' = Tail(events)
  /\ UNCHANGED <<printer, tapped, lastState, appriseOn, told, missed>>

(* The post ends.  When nothing else is on its way the recipient knows. *)
PostEnds ==
  /\ sending # Nothing
  /\ sending' = Nothing
  /\ told' = (IF sending = "progress" THEN told ELSE sending)
  /\ missed' = (missed /\ ~(tapped /\ events = << >> /\ lastState = printer
                              /\ Fits(told', printer)))
  /\ UNCHANGED <<printer, tapped, events, lastState, lastProgressNotified,
                 progressSendCount, appriseOn>>

PostFails ==
  /\ sending # Nothing
  /\ sending' = Nothing
  /\ missed' = (missed \/ sending # "progress")
  /\ UNCHANGED <<printer, tapped, events, lastState, lastProgressNotified,
                 progressSendCount, appriseOn, told>>

-----------------------------------------------------------------------------
(* The worker and the settings *)

NotifRuns ==
  /\ ~tapped
  /\ tapped' = TRUE
  /\ UNCHANGED <<printer, events, lastState, lastProgressNotified, progressSendCount,
                 sending, appriseOn, told, missed>>

(* WorkerRun returns between two events; its channel goes with it. *)
NotifStops ==
  /\ tapped /\ sending = Nothing
  /\ tapped' = FALSE
  /\ events' = << >>
  /\ missed' = (missed \/ \E i \in DOMAIN events : events[i].state # Nothing)
  /\ UNCHANGED <<printer, lastState, lastProgressNotified, progressSendCount,
                 sending, appriseOn, told>>

AppriseSwitched ==
  /\ appriseOn' = ~appriseOn
  /\ UNCHANGED <<printer, tapped, events, lastState, lastProgressNotified,
                 progressSendCount, sending, told, missed>>

NotifNext ==
  \/ \E state \in Stats : PrinterTurns(state)
  \/ \E value \in Progress : ProgressReport(value)
  \/ handleStateTransition \/ maybeProgressNotification \/ PostEnds \/ PostFails
  \/ NotifRuns \/ NotifStops \/ AppriseSwitched

NotifSpec == NotifInit /\ [][NotifNext]_notifVars

-----------------------------------------------------------------------------
(* Once the service has handled every event, and unless an event or a post *)
(* was lost since the recipient last knew, the last message fits the state *)
(* of the printer.                                                         *)
PrintIsTold ==
  tapped /\ events = << >> /\ sending = Nothing /\ ~missed /\ printer # "unknown"
    => Fits(told, printer)
===============================================================================
