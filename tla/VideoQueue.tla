------------------------------ MODULE VideoQueue ------------------------------
(***************************************************************************)
(* internal/service/videoqueue.go as a BaseWorker, with those who use it:  *)
(* the /ws/video sockets (ws/video.go), which enable the video when they   *)
(* connect and disable it when they are the last to leave; the /ws/ctrl    *)
(* messages (ws/ctrl.go), which toggle it and choose the profile; and the  *)
(* /video downloads (handler/general.go), which borrow the service only    *)
(* when they find it stopped.                                              *)
(*                                                                         *)
(* SetVideoEnabled sets its flag under q.mu, then asks for the state, then *)
(* calls Start, Restart or Stop: three steps.  A socket looks at the       *)
(* reference count before it decides to disable: one more.  The count of   *)
(* the manager and the call that follows from it are apart as well         *)
(* (ServiceManager).                                                       *)
(***************************************************************************)
EXTENDS BaseWorker, Naturals, FiniteSets

CONSTANTS
  Viewers,    \* the /ws/video sockets
  Controls,   \* the /ws/ctrl sockets
  Downloads,  \* the /video requests
  Casts       \* bound: who is there at the same time

ASSUME UsersAssumption ==
  /\ IsFiniteSet(Viewers \cup Controls \cup Downloads)
  /\ Casts \subseteq SUBSET (Viewers \cup Controls \cup Downloads)

(* A request is of one kind.                                               *)
ASSUME KindAssumption ==
  /\ Viewers \cap Controls = {}
  /\ Viewers \cap Downloads = {}
  /\ Controls \cap Downloads = {}

VARIABLES
  enabled,    \* q.VideoEnabledField
  profile,    \* q.profileID: a live profile (sd, hd) or the still one (fhd)
  plan,       \* in WorkerStart and WorkerRun: what follows from the flag read
  live,       \* the printer streams: StartLive was answered
  queueRefs,  \* m.refs["videoqueue"]
  user,       \* where each client is
  toggled     \* history: a /ws/ctrl message has set video_enabled

queueVars == <<enabled, profile, plan, live>>
useVars   == <<queueRefs, user, toggled>>
videoVars == <<vars, queueVars, useVars>>

Users  == Viewers \cup Controls \cup Downloads
Profiles == {"live", "still"}

Points ==
  { "gone", "away",                       \* never there, or not now
    "enabled", "starting", "restarting",  \* SetVideoEnabled(true): the flag, then the call
    "borrowing", "counted",               \* Borrow: before the count, before svc.Start
    "watching",                           \* has a reference; viewers and downloads tap
    "tapping",                            \* a download that taps without a reference
    "leaving", "last",                    \* the deferred function, Refs() not yet, then read
    "disabled", "stopping",               \* SetVideoEnabled(false): the flag, then the call
    "returning", "releasing" }            \* Return: before the count, before svc.Stop

VideoTypeOK ==
  /\ TypeOK
  /\ enabled \in BOOLEAN
  /\ profile \in Profiles
  /\ plan \in {"none", "connect", "stream"}
  /\ live \in BOOLEAN
  /\ queueRefs \in 0..Cardinality(Users)
  /\ user \in [Users -> Points]
  /\ toggled \in BOOLEAN

VideoInit ==
  /\ Init
  /\ enabled = FALSE
  /\ profile = "live"
  /\ plan = "none"
  /\ live = FALSE
  /\ queueRefs = 0
  /\ \E cast \in Casts :
       user = [c \in Users |-> IF c \in cast THEN "away" ELSE "gone"]
  /\ toggled = FALSE

UserAt(c, point) == user[c] = point
Go(c, point) == user' = [user EXCEPT ![c] = point]

(* The taps on the service: q.handlers. *)
Consumers ==
  {c \in Viewers \cup Downloads : user[c] \in {"watching", "tapping"}}

(* What follows SetVideoEnabled: a socket borrows, or returns; a control   *)
(* message is done.                                                        *)
AfterEnable(c)  == IF c \in Viewers THEN "borrowing" ELSE "away"
AfterDisable(c) == IF c \in Viewers THEN "returning" ELSE "away"
-------------------------------------------------------------------------------
(* The hooks. *)

(* What WorkerStart does about the printer, from one look at the flag. *)
Planned == IF ~enabled THEN "none" ELSE IF profile = "live" THEN "stream" ELSE "connect"

StartReads ==
  /\ CallWorkerStart
  /\ plan' = Planned
  /\ UNCHANGED <<enabled, profile, live, useVars>>

(* The PPPP service does not connect within 6 s or StartLive fails. *)
StartFails ==
  /\ WorkerStartFails
  /\ plan # "none"
  /\ plan' = "none"
  /\ UNCHANGED <<enabled, profile, live, useVars>>

StartEnds ==
  /\ WorkerStartSucceeds
  /\ live' = (live \/ plan = "stream")
  /\ plan' = "none"
  /\ UNCHANGED <<enabled, profile, useVars>>

(* Mutant: a run does not care for a stream that was not asked for. *)
RunTrustsStart ==
  /\ CallWorkerRun
  /\ plan' = IF live THEN Planned ELSE "none"
  /\ UNCHANGED <<enabled, profile, live, useVars>>

(* WorkerRun looks at the flag again. *)
RunReads ==
  /\ CallWorkerRun
  /\ plan' = Planned
  /\ UNCHANGED <<enabled, profile, live, useVars>>

(* No frame for 5 s while somebody taps: ErrServiceRestartSignal.  A run   *)
(* that began with the video disabled only waits for its context.          *)
RunStalls ==
  /\ WorkerRunFails
  /\ holdoff' = "ahead"
  /\ plan # "none"
  /\ Consumers # {}
  /\ plan' = "none"
  /\ UNCHANGED <<enabled, profile, live, useVars>>

RunReturns ==
  /\ WorkerRunReturns
  /\ plan' = "none"
  /\ UNCHANGED <<enabled, profile, live, useVars>>

(* WorkerStop sends StopLive. *)
StopEnds ==
  /\ WorkerStopReturns \/ LoopExit
  /\ live' = FALSE
  /\ UNCHANGED <<enabled, profile, plan, useVars>>

(* The PPPP connection is lost, and the stream with it. *)
ConnectionLost ==
  /\ live
  /\ live' = FALSE
  /\ UNCHANGED <<vars, enabled, profile, plan, useVars>>

OtherLoopStep ==
  /\ \/ LoopInit
     \/ TakeSnapshot
     \/ CheckLoopCtx
     \/ Idle
     \/ BeginStart
     \/ LeaveRunning
     \/ CallWorkerStop
  /\ UNCHANGED <<queueVars, useVars>>

QueueHoldoffElapses == Elapse /\ UNCHANGED <<queueVars, useVars>>
-------------------------------------------------------------------------------
(* SetVideoEnabled. *)

SetEnabled(c, toggling) ==
  /\ IF enabled THEN Go(c, AfterEnable(c)) ELSE Go(c, "enabled")
  /\ enabled' = TRUE
  /\ toggled' = (toggled \/ toggling)
  /\ UNCHANGED <<vars, profile, plan, live, queueRefs>>

LookToEnable(c) ==
  /\ UserAt(c, "enabled")
  /\ Go(c, IF state = "stopped" THEN "starting" ELSE "restarting")
  /\ UNCHANGED <<vars, queueVars, queueRefs, toggled>>

EnableStarts(c) ==
  /\ UserAt(c, "starting")
  /\ Start
  /\ Go(c, AfterEnable(c))
  /\ UNCHANGED <<queueVars, queueRefs, toggled>>

EnableRestarts(c) ==
  /\ UserAt(c, "restarting")
  /\ Restart
  /\ Go(c, AfterEnable(c))
  /\ UNCHANGED <<queueVars, queueRefs, toggled>>

SetDisabled(c, toggling) ==
  /\ IF enabled THEN Go(c, "disabled") ELSE Go(c, AfterDisable(c))
  /\ enabled' = FALSE
  /\ toggled' = (toggled \/ toggling)
  /\ UNCHANGED <<vars, profile, plan, live, queueRefs>>

LookToDisable(c) ==
  /\ UserAt(c, "disabled")
  /\ Go(c, IF state = "running" THEN "stopping" ELSE AfterDisable(c))
  /\ UNCHANGED <<vars, queueVars, queueRefs, toggled>>

DisableStops(c) ==
  /\ UserAt(c, "stopping")
  /\ Stop
  /\ Go(c, AfterDisable(c))
  /\ UNCHANGED <<queueVars, queueRefs, toggled>>
-------------------------------------------------------------------------------
(* ServiceManager.Borrow and Return. *)

BorrowQueue(c) ==
  /\ UserAt(c, "borrowing")
  /\ queueRefs' = queueRefs + 1
  /\ Go(c, IF queueRefs = 0 THEN "counted" ELSE "watching")
  /\ UNCHANGED <<vars, queueVars, toggled>>

BorrowQueueStarts(c) ==
  /\ UserAt(c, "counted")
  /\ Start
  /\ Go(c, "watching")
  /\ UNCHANGED <<queueVars, queueRefs, toggled>>

(* Mutant: the video queue is kept although its video is disabled. *)
ReturnKeepsQueue(c) ==
  /\ UserAt(c, "returning")
  /\ queueRefs' = queueRefs - 1
  /\ Go(c, IF queueRefs = 1 /\ ~enabled /\ ~live THEN "releasing" ELSE "away")
  /\ UNCHANGED <<vars, queueVars, toggled>>

(* keepVideoQueueRunning asks VideoEnabled() while m.mu is held. *)
ReturnQueue(c) ==
  /\ UserAt(c, "returning")
  /\ queueRefs' = queueRefs - 1
  /\ Go(c, IF queueRefs = 1 /\ ~enabled THEN "releasing" ELSE "away")
  /\ UNCHANGED <<vars, queueVars, toggled>>

ReturnQueueStops(c) ==
  /\ UserAt(c, "releasing")
  /\ Stop
  /\ Go(c, "away")
  /\ UNCHANGED <<queueVars, queueRefs, toggled>>
-------------------------------------------------------------------------------
(* The clients. *)

Connect(v) == UserAt(v, "away") /\ SetEnabled(v, FALSE)

(* The socket is closed: the tap is removed first, then the deferred       *)
(* function looks at the count.                                            *)
Disconnect(v) ==
  /\ UserAt(v, "watching")
  /\ Go(v, "leaving")
  /\ UNCHANGED <<vars, queueVars, queueRefs, toggled>>

LookAtRefs(v) ==
  /\ UserAt(v, "leaving")
  /\ Go(v, IF queueRefs = 1 THEN "last" ELSE "returning")
  /\ UNCHANGED <<vars, queueVars, queueRefs, toggled>>

LastDisables(v) == UserAt(v, "last") /\ SetDisabled(v, FALSE)

ToggleOn(k)  == UserAt(k, "away") /\ SetEnabled(k, TRUE)
ToggleOff(k) == UserAt(k, "away") /\ SetDisabled(k, TRUE)

(* light, video_profile and quality borrow the service for the message.    *)
BeginControl(k) ==
  /\ UserAt(k, "away")
  /\ Go(k, "borrowing")
  /\ UNCHANGED <<vars, queueVars, queueRefs, toggled>>

SetProfile(k) ==
  /\ UserAt(k, "watching")
  /\ profile' \in Profiles
  /\ Go(k, "returning")
  /\ UNCHANGED <<vars, enabled, plan, live, queueRefs, toggled>>

(* A download asks for the state; for_timelapse=1 does not need the video  *)
(* to be enabled.                                                          *)
BeginDownload(d) ==
  /\ UserAt(d, "away")
  /\ Go(d, IF state = "stopped" THEN "borrowing" ELSE "tapping")
  /\ UNCHANGED <<vars, queueVars, queueRefs, toggled>>

EndDownload(d) ==
  /\ \/ UserAt(d, "watching") /\ Go(d, "returning")
     \/ UserAt(d, "tapping") /\ Go(d, "away")
  /\ UNCHANGED <<vars, queueVars, queueRefs, toggled>>

(* A call that was begun goes on. *)
Continue(c) ==
  \/ LookToEnable(c)
  \/ EnableStarts(c)
  \/ EnableRestarts(c)
  \/ LookToDisable(c)
  \/ DisableStops(c)
  \/ BorrowQueue(c)
  \/ BorrowQueueStarts(c)
  \/ ReturnQueue(c)
  \/ ReturnQueueStops(c)
  \/ c \in Viewers /\ (LookAtRefs(c) \/ LastDisables(c))

ClientBegins ==
  \/ \E v \in Viewers : Connect(v) \/ Disconnect(v)
  \/ \E k \in Controls : \/ ToggleOn(k)
                         \/ ToggleOff(k)
                         \/ BeginControl(k)
                         \/ SetProfile(k)
  \/ \E d \in Downloads : BeginDownload(d) \/ EndDownload(d)

HookStep ==
  \/ StartReads
  \/ StartFails
  \/ StartEnds
  \/ RunReads
  \/ RunStalls
  \/ RunReturns
  \/ StopEnds
  \/ OtherLoopStep

VideoNext ==
  \/ HookStep
  \/ QueueHoldoffElapses
  \/ ConnectionLost
  \/ ClientBegins
  \/ \E c \in Users : Continue(c)

(* The run loop, its timers and the goroutines inside a call go on.  A     *)
(* stall is only certain when the printer does not stream.                 *)
VideoFairness ==
  /\ WF_videoVars(HookStep /\ (loop = "running" => runCtx = "cancelled" \/ ~live))
  /\ WF_videoVars(QueueHoldoffElapses)
  /\ \A c \in Users : WF_videoVars(Continue(c))

VideoSpec     == VideoInit /\ [][VideoNext]_videoVars
VideoFairSpec == VideoSpec /\ VideoFairness
-------------------------------------------------------------------------------
UsersQuiet == \A c \in Users : user[c] \in {"gone", "away", "tapping", "watching"}

(* The printer streams only for a service that is open: however the flag,  *)
(* the requests and the reference count cross, a stopped queue has closed  *)
(* the stream it asked for (videoqueue.go:472-479).                        *)
LiveIsOpen == live => open

(* No leak: a queue nobody holds and whose video is disabled is not wanted *)
(* any more once the calls have settled, in whatever order sockets connect *)
(* and leave (manager.go:57-77, ws/video.go:43-58).  A /ws/ctrl message is *)
(* the exception, it enables and disables without a reference.             *)
NoVideoLeak == (UsersQuiet /\ queueRefs = 0 /\ ~enabled /\ ~toggled) => ~wanted

(* A stream and a queue last no longer than somebody needs them.           *)
VideoInv == VideoTypeOK /\ LiveIsOpen /\ NoVideoLeak

(* Video that is enabled, wanted and watched reaches the point where the   *)
(* printer is asked for a stream, also when the Restart of                 *)
(* SetVideoEnabled is lost on a run loop that is between two hooks: the    *)
(* stall of a run that looked at the flag again makes up for it            *)
(* (videoqueue.go:419-467).                                                *)
Watched == enabled /\ wanted /\ profile = "live" /\ Consumers # {}

WatchedIsStreamed == 
  Watched ~> (live \/ (loop = "starting" /\ plan = "stream") \/ ~Watched)

-------------------------------------------------------------------------------
(* What the comments of the code say, and the code does not do. *)

(* ws/video.go:33, "disable it when the last client disconnects": without  *)
(* control messages, no client and no reference means the video is off.    *)
LastClientDisables ==
  (~toggled /\ \A c \in Users : user[c] \in {"gone", "away"}) => ~enabled

(* ws/video.go:31-34, "Now we enable it here": a connected socket finds    *)
(* the video enabled, unless a control message disabled it.                *)
ViewerFindsVideo ==
  (~toggled /\ UsersQuiet /\ \E v \in Viewers : UserAt(v, "watching")) => enabled
===============================================================================
