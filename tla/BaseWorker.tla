------------------------------ MODULE BaseWorker ------------------------------
(***************************************************************************)
(* internal/service/worker.go: the lifecycle of one background service.    *)
(*                                                                         *)
(* A run-loop goroutine drives the hooks of the service.  Any goroutine    *)
(* may call Start, Stop, Restart or Shutdown; each call is one critical    *)
(* section of w.mu.  The loop takes a snapshot of the fields under w.mu,   *)
(* lets the lock go, and acts on the snapshot: whatever was requested in   *)
(* between is unknown to the branch it takes.                              *)
(*                                                                         *)
(* A wait of the loop (waitLoopSignal) ends on a signal or on the next     *)
(* 50 ms tick and reads nothing, so it is not a step of its own: the loop  *)
(* goes back to its top.                                                   *)
(***************************************************************************)

VARIABLES
  state,        \* w.state
  wanted,       \* w.wanted
  initialized,  \* w.initialized
  holdoff,      \* w.holdoffUntil: the zero time, still to come, or elapsed
  loopCtx,      \* w.loopCtx: nil, live or done
  runCtx,       \* the context w.runCancel cancels: nil, live or cancelled
  loop,         \* where the run-loop goroutine is; "off" is w.loopDone = nil
  seen,         \* the locals of the loop's snapshot
  open          \* history: WorkerStart succeeded, WorkerStop not yet returned

vars == <<state, wanted, initialized, holdoff, loopCtx, runCtx, loop, seen, open>>

RunState == {"stopped", "starting", "running", "stopping"}

LoopPoints ==
  { "off",        \* no goroutine
    "init",       \* in WorkerInit, if it is needed
    "top",        \* at the head of the for statement
    "check",      \* snapshot taken, loopCtx.Done() not yet polled
    "branch",     \* in the switch on the snapshot
    "starting",   \* in WorkerStart
    "running",    \* in WorkerRun
    "stopping",   \* in WorkerStop, called by the stopping branch
    "exiting" }   \* in WorkerStop, called on the way out of the loop

Snapshot    == [state : RunState, wanted : BOOLEAN, heldOff : BOOLEAN]
NothingSeen == [state |-> "stopped", wanted |-> FALSE, heldOff |-> FALSE]

TypeOK ==
  /\ state \in RunState
  /\ wanted \in BOOLEAN
  /\ initialized \in BOOLEAN
  /\ holdoff \in {"zero", "ahead", "elapsed"}
  /\ loopCtx \in {"nil", "live", "done"}
  /\ runCtx \in {"nil", "live", "cancelled"}
  /\ loop \in LoopPoints
  /\ seen \in Snapshot
  /\ open \in BOOLEAN

Init ==
  /\ state = "stopped"
  /\ wanted = FALSE
  /\ initialized = FALSE
  /\ holdoff = "zero"
  /\ loopCtx = "nil"
  /\ runCtx = "nil"
  /\ loop = "off"
  /\ seen = NothingSeen
  /\ open = FALSE

-------------------------------------------------------------------------------
(* w.runCancel() when there is one: a cancelled context stays cancelled. *)
CancelRun == runCtx' = IF runCtx = "nil" THEN "nil" ELSE "cancelled"

(* go w.runLoop() with a fresh loop context, unless a loop is there. *)
SpawnLoop ==
  IF loop = "off"
  THEN loop' = "init" /\ loopCtx' = "live"
  ELSE UNCHANGED <<loop, loopCtx>>

(* A branch of the switch is left: the snapshot is forgotten. *)
Branch(point) == loop = "branch" /\ loop' = point /\ seen' = NothingSeen

-------------------------------------------------------------------------------
(* Mutants: bugs these actions might have.  Each is put in the place of    *)
(* the action it changes to see that a property notices.                   *)

(* Another error of WorkerRun goes straight back to stopped. *)
RunFailureSkipsStop ==
  /\ loop = "running"
  /\ holdoff' \in {"ahead", "elapsed"}
  /\ state' = "stopped"
  /\ loop' = "top"
  /\ UNCHANGED <<wanted, initialized, loopCtx, runCtx, seen, open>>

(* The loop only looks whether there is a holdoff, not at the clock. *)
SnapshotIgnoresClock ==
  /\ loop = "top"
  /\ seen' = [state |-> state, wanted |-> wanted, heldOff |-> holdoff # "zero"]
  /\ loop' = "check"
  /\ UNCHANGED <<state, wanted, initialized, holdoff, loopCtx, runCtx, open>>

-------------------------------------------------------------------------------
(* Requests: one critical section each, from any goroutine. *)

Start ==
  /\ wanted' = TRUE
  /\ SpawnLoop
  /\ UNCHANGED <<state, initialized, holdoff, runCtx, seen, open>>

Stop ==
  /\ wanted' = FALSE
  /\ CancelRun
  /\ UNCHANGED <<state, initialized, holdoff, loopCtx, loop, seen, open>>

Restart ==
  /\ CancelRun
  /\ wanted' = TRUE
  /\ holdoff' = "ahead"
  /\ state' = "stopping"
  /\ SpawnLoop
  /\ UNCHANGED <<initialized, seen, open>>

(* The first half of Shutdown; its caller then blocks until this loop has  *)
(* exited (the second half is AwaitShutdown in ServiceManager).            *)
Shutdown ==
  /\ IF loopCtx = "nil"
     THEN UNCHANGED <<wanted, loopCtx, runCtx>>
     ELSE wanted' = FALSE /\ loopCtx' = "done" /\ CancelRun
  /\ UNCHANGED <<state, initialized, holdoff, loop, seen, open>>

(* The clock reaches holdoffUntil. *)
Elapse ==
  /\ holdoff = "ahead"
  /\ holdoff' = "elapsed"
  /\ UNCHANGED <<state, wanted, initialized, loopCtx, runCtx, loop, seen, open>>

-------------------------------------------------------------------------------
(* The run loop. *)

LoopInit ==
  /\ loop = "init"
  /\ initialized' = TRUE
  /\ loop' = "top"
  /\ UNCHANGED <<state, wanted, holdoff, loopCtx, runCtx, seen, open>>

TakeSnapshot ==
  /\ loop = "top"
  /\ seen' = [state |-> state, wanted |-> wanted, heldOff |-> holdoff = "ahead"]
  /\ loop' = "check"
  /\ UNCHANGED <<state, wanted, initialized, holdoff, loopCtx, runCtx, open>>

(* stopWorker up to its hook: the run context is taken and cancelled. *)
StopWorkerTo(point) ==
  /\ loop' = point
  /\ runCtx' = "nil"
  /\ seen' = NothingSeen
  /\ UNCHANGED <<state, wanted, initialized, holdoff, loopCtx, open>>

CheckLoopCtx ==
  /\ loop = "check"
  /\ IF loopCtx = "done"
     THEN StopWorkerTo("exiting")
     ELSE /\ loop' = "branch"
          /\ UNCHANGED <<state, wanted, initialized, holdoff, loopCtx, runCtx, seen, open>>

(* Nothing to do, or a holdoff to wait for. *)
Idle ==
  /\ \/ seen.state = "stopped" /\ ~seen.wanted
     \/ seen.state \in {"stopped", "starting"} /\ seen.heldOff
  /\ Branch("top")
  /\ UNCHANGED <<state, wanted, initialized, holdoff, loopCtx, runCtx, open>>

BeginStart ==
  /\ seen.state = "stopped" /\ seen.wanted /\ ~seen.heldOff
  /\ Branch("top")
  /\ holdoff' = "zero"
  /\ state' = "starting"
  /\ UNCHANGED <<wanted, initialized, loopCtx, runCtx, open>>

CallWorkerStart ==
  /\ seen.state = "starting" /\ ~seen.heldOff
  /\ Branch("starting")
  /\ UNCHANGED <<state, wanted, initialized, holdoff, loopCtx, runCtx, open>>

WorkerStartFails ==
  /\ loop = "starting"
  /\ holdoff' = IF wanted THEN "ahead" ELSE holdoff
  /\ state' = "stopped"
  /\ loop' = "top"
  /\ UNCHANGED <<wanted, initialized, loopCtx, runCtx, seen, open>>

WorkerStartSucceeds ==
  /\ loop = "starting"
  /\ holdoff' = "zero"
  /\ state' = "running"
  /\ loop' = "top"
  /\ open' = TRUE
  /\ UNCHANGED <<wanted, initialized, loopCtx, runCtx, seen>>

LeaveRunning ==
  /\ seen.state = "running" /\ ~seen.wanted
  /\ Branch("top")
  /\ state' = "stopping"
  /\ UNCHANGED <<wanted, initialized, holdoff, loopCtx, runCtx, open>>

(* newRunContext, a child of the loop context, and the call of WorkerRun. *)
CallWorkerRun ==
  /\ seen.state = "running" /\ seen.wanted
  /\ Branch("running")
  /\ runCtx' = IF loopCtx = "done" THEN "cancelled" ELSE "live"
  /\ UNCHANGED <<state, wanted, initialized, holdoff, loopCtx, open>>

(* WorkerRun blocks until its context is cancelled, then returns nil ... *)
WorkerRunReturns ==
  /\ loop = "running"
  /\ runCtx = "cancelled"
  /\ loop' = "top"
  /\ UNCHANGED <<state, wanted, initialized, holdoff, loopCtx, runCtx, seen, open>>

(* ... unless it gives up by itself: with ErrServiceRestartSignal the      *)
(* service comes back after a holdoff, with another error at once.         *)
WorkerRunFails ==
  /\ loop = "running"
  /\ holdoff' \in {"ahead", "elapsed"}
  /\ state' = "stopping"
  /\ loop' = "top"
  /\ UNCHANGED <<wanted, initialized, loopCtx, runCtx, seen, open>>

CallWorkerStop ==
  /\ seen.state = "stopping"
  /\ loop = "branch"
  /\ StopWorkerTo("stopping")

WorkerStopReturns ==
  /\ loop = "stopping"
  /\ holdoff' = IF wanted /\ holdoff = "zero" THEN "ahead" ELSE holdoff
  /\ state' = "stopped"
  /\ loop' = "top"
  /\ open' = FALSE
  /\ UNCHANGED <<wanted, initialized, loopCtx, runCtx, seen>>

(* WorkerStop returns on the way out, and the deferred clean-up closes     *)
(* the done channel of this loop.                                          *)
LoopExit ==
  /\ loop = "exiting"
  /\ state' = "stopped"
  /\ runCtx' = "nil"
  /\ loop' = "off"
  /\ open' = FALSE
  /\ UNCHANGED <<wanted, initialized, holdoff, loopCtx, seen>>

Request == Start \/ Stop \/ Restart \/ Shutdown

LoopStep ==
  \/ LoopInit
  \/ TakeSnapshot
  \/ CheckLoopCtx
  \/ Idle
  \/ BeginStart
  \/ CallWorkerStart
  \/ WorkerStartFails
  \/ WorkerStartSucceeds
  \/ LeaveRunning
  \/ CallWorkerRun
  \/ WorkerRunReturns
  \/ WorkerRunFails
  \/ CallWorkerStop
  \/ WorkerStopReturns
  \/ LoopExit

Next == Request \/ Elapse \/ LoopStep

(* The loop is a goroutine and its hooks return: WorkerStart and           *)
(* WorkerStop are bounded by their own timeouts, WorkerRun returns once    *)
(* its context is cancelled.  It is not forced to fail by itself, nor is   *)
(* WorkerStart forced to succeed.                                          *)
Progress == LoopStep /\ (loop = "running" => runCtx = "cancelled")

Spec     == Init /\ [][Next]_vars
FairSpec == Spec /\ WF_vars(Progress) /\ WF_vars(Elapse)
-------------------------------------------------------------------------------
(* What the service observes of all this: HookContract. *)

hook ==
  CASE loop = "starting"                -> "starting"
    [] loop = "running"                 -> "running"
    [] loop \in {"stopping", "exiting"} -> "stopping"
    [] OTHER                            -> IF open THEN "open" ELSE "closed"

Contract == INSTANCE HookContract WITH hook <- hook

(* Whatever is requested and whenever, the hooks are called in an order    *)
(* the embedding service can rely on: never WorkerStart twice without      *)
(* WorkerStop in between, never WorkerRun on a service that is not open.   *)
(* The loop acts on stale snapshots, so this is not what the switch says.  *)
HooksInOrder == Contract!HooksSpec

(* The decision a stale snapshot stands for is still a legal one: between  *)
(* the snapshot and the branch only requests can move w.state, and they    *)
(* move it to "stopping".                                                  *)
StaleButSafe ==
  loop \in {"check", "branch"} => state \in {seen.state, "stopping"}

(* w.state "running" is only ever published for an open service, and       *)
(* "stopped" or "starting" only for a closed one: State() never tells the  *)
(* callers of SetVideoEnabled or of the status pages otherwise.            *)
StateTellsOpen ==
  /\ state = "running" => open
  /\ state \in {"stopped", "starting"} => ~open

(* Once the loop goroutine is gone the service is closed, with no run      *)
(* context left that a later Stop could mistake for a live one.            *)
GoneIsClosed == loop = "off" => ~open /\ state = "stopped" /\ runCtx = "nil"

(* Shutdown's caller blocks on the loop's done channel: a loop whose       *)
(* context is cancelled must exit, also when a Start or a Restart arrives  *)
(* after the cancellation.                                                 *)
ShutdownEndsLoop == (loopCtx = "done") ~> (loop = "off")

(* A Stop that finds WorkerRun under way closes the service, unless it is  *)
(* wanted again in the meantime.                                           *)
StopReachesRun ==
  (loop = "running" /\ runCtx = "cancelled" /\ ~wanted) ~> (~open \/ wanted)

(* A Restart that finds WorkerRun under way closes the service before it   *)
(* runs again, whatever is requested in the meantime.                      *)
RestartReachesRun ==
  (loop = "running" /\ runCtx = "cancelled" /\ state = "stopping") ~> ~open

-------------------------------------------------------------------------------
(* What the comments of the code say, and the code does not do. *)

(* worker.go:143, "Stop requests the worker to stop": a worker that is no  *)
(* longer wanted is eventually closed, or wanted again.                    *)
StopIsObeyed == ~wanted ~> (~open \/ wanted)

(* worker.go:154, "Restart requests stop + delayed start": a worker asked   *)
(* to restart is stopped first, it does not go on to run as it is.         *)
RestartIsObeyed == [][state = "stopping" => state' # "running"]_vars
===============================================================================
