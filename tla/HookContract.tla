----------------------------- MODULE HookContract -----------------------------
(***************************************************************************)
(* What BaseWorker promises to the service that embeds it: the order in    *)
(* which the hooks WorkerStart, WorkerRun and WorkerStop are called and    *)
(* may return.  A service relies on nothing else, so the run loop, its     *)
(* contexts and its holdoff do not appear here.                            *)
(***************************************************************************)

VARIABLE hook   \* the hook being executed, or what holds between two hooks

HookStates ==
  { "closed",     \* between hooks, nothing acquired
    "starting",   \* inside WorkerStart
    "open",       \* between hooks, WorkerStart has succeeded
    "running",    \* inside WorkerRun
    "stopping" }  \* inside WorkerStop

HooksInit == hook = "closed"

(* WorkerStart is only ever called on a closed service. *)
CallStart   == hook = "closed"   /\ hook' = "starting"
StartFails  == hook = "starting" /\ hook' = "closed"
StartOpens  == hook = "starting" /\ hook' = "open"

(* WorkerRun is only ever called on an open service, and may be called     *)
(* again without a WorkerStop in between.                                  *)
CallRun     == hook = "open"     /\ hook' = "running"
RunReturns  == hook = "running"  /\ hook' = "open"

(* WorkerStop may also be called on a service that was never started.      *)
CallStop    == hook \in {"closed", "open"} /\ hook' = "stopping"
StopReturns == hook = "stopping" /\ hook' = "closed"

HooksNext == \/ CallStart
             \/ StartFails
             \/ StartOpens
             \/ CallRun
             \/ RunReturns
             \/ CallStop
             \/ StopReturns

HooksSpec == HooksInit /\ [][HooksNext]_hook
===============================================================================
