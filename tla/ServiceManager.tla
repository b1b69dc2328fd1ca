---------------------------- MODULE ServiceManager ----------------------------
(***************************************************************************)
(* internal/service/manager.go: one registered service, shared by the      *)
(* handlers that borrow it and stopped when the last of them returns it.   *)
(*                                                                         *)
(* Borrow and Return count under m.mu, but call Start and Stop of the      *)
(* service after m.mu is released: each is two steps, and two handlers may *)
(* make their second step in the other order than their first.  The        *)
(* entries of the manager's maps are independent of each other, so one     *)
(* service stands for all.                                                 *)
(***************************************************************************)
EXTENDS BaseWorker, Naturals, FiniteSets

CONSTANTS
  Clients,      \* the handlers, websockets and services that may borrow it
  MaxRestarts,  \* bound: how often Restart is requested
  KeepRunning   \* keepVideoQueueRunning: the videoqueue with video enabled

ASSUME ClientsAssumption     == IsFiniteSet(Clients)
ASSUME MaxRestartsAssumption == MaxRestarts \in Nat
ASSUME KeepRunningAssumption == KeepRunning \in BOOLEAN

VARIABLES
  refs,      \* m.refs[name]
  client,    \* where each client is
  manager,   \* where main's call of ServiceManager.Shutdown is
  restarts   \* the number of Restart requests so far

managerVars == <<vars, refs, client, manager, restarts>>

ClientPoints ==
  { "away",      \* does not hold the service
    "starting",  \* counted 0 -> 1, has still to call svc.Start
    "holding",   \* Borrow has returned
    "stopping" } \* counted 1 -> 0, has still to call svc.Stop

ManagerPoints ==
  { "up",        \* not shut down
    "stopped",   \* the first pass has called svc.Stop
    "waiting",   \* svc.Shutdown waits for the loop it found
    "down" }     \* svc.Shutdown has returned

ManagerTypeOK ==
  /\ TypeOK
  /\ refs \in Nat
  /\ client \in [Clients -> ClientPoints]
  /\ manager \in ManagerPoints
  /\ restarts \in 0..MaxRestarts

ManagerInit ==
  /\ Init
  /\ refs = 0
  /\ client = [c \in Clients |-> "away"]
  /\ manager = "up"
  /\ restarts = 0

-------------------------------------------------------------------------------
At(c, point)   == client[c] = point
Move(c, point) == client' = [client EXCEPT ![c] = point]

(* Mutants: bugs these actions might have.                                 *)

(* Only the borrow that starts the service is counted.                     *)
BorrowCountsFirst(c) ==
  /\ At(c, "away")
  /\ refs' = IF refs = 0 THEN 1 ELSE refs
  /\ Move(c, IF refs = 0 THEN "starting" ELSE "holding")
  /\ UNCHANGED <<vars, manager, restarts>>

(* A client that is not the last one returns what it still uses.           *)
ReturnTwice(c) ==
  /\ At(c, "holding")
  /\ refs' = refs - 1
  /\ Move(c, IF refs = 1 /\ ~KeepRunning THEN "stopping" ELSE "holding")
  /\ UNCHANGED <<vars, manager, restarts>>

(* The count is compared before it is decremented.                         *)
ReturnComparesEarly(c) ==
  /\ At(c, "holding")
  /\ refs' = refs - 1
  /\ Move(c, IF refs = 0 /\ ~KeepRunning THEN "stopping" ELSE "away")
  /\ UNCHANGED <<vars, manager, restarts>>

(* A loop that is wanted again leaves its done channel open.               *)
ExitForgetsDone ==
  /\ LoopExit
  /\ manager' = IF manager = "waiting" /\ ~wanted THEN "down" ELSE manager
  /\ UNCHANGED <<refs, client, restarts>>

-------------------------------------------------------------------------------
Borrow(c) ==
  /\ At(c, "away")
  /\ refs' = refs + 1
  /\ Move(c, IF refs = 0 THEN "starting" ELSE "holding")
  /\ UNCHANGED <<vars, manager, restarts>>

BorrowStarts(c) ==
  /\ At(c, "starting")
  /\ Start
  /\ Move(c, "holding")
  /\ UNCHANGED <<refs, manager, restarts>>

(* A count of 0 stays: that of a client which returns what nobody holds.   *)
Return(c) ==
  /\ At(c, "holding")
  /\ refs' = IF refs > 0 THEN refs - 1 ELSE refs
  /\ Move(c, IF refs = 1 /\ ~KeepRunning THEN "stopping" ELSE "away")
  /\ UNCHANGED <<vars, manager, restarts>>

ReturnStops(c) ==
  /\ At(c, "stopping")
  /\ Stop
  /\ Move(c, "away")
  /\ UNCHANGED <<refs, manager, restarts>>

(* RestartAll (logout, reload, printer selection) and the debug endpoints  *)
(* restart a service whether or not somebody holds it.                     *)
RestartAll ==
  /\ restarts < MaxRestarts
  /\ restarts' = restarts + 1
  /\ Restart
  /\ UNCHANGED <<refs, client, manager>>

(* ServiceManager.Shutdown, while the HTTP server still runs handlers:     *)
(* Stop in the first pass, Shutdown in the second.                         *)
ShutdownStops ==
  /\ manager = "up"
  /\ manager' = "stopped"
  /\ Stop
  /\ UNCHANGED <<refs, client, restarts>>

ShutdownService ==
  /\ manager = "stopped"
  /\ manager' = IF loop = "off" THEN "down" ELSE "waiting"
  /\ Shutdown
  /\ UNCHANGED <<refs, client, restarts>>

(* The loop exits and closes its done channel; nobody else waits for it.   *)
ServiceLoopExits ==
  /\ LoopExit
  /\ manager' = IF manager = "waiting" THEN "down" ELSE manager
  /\ UNCHANGED <<refs, client, restarts>>

ServiceLoopRuns ==
  /\ LoopStep
  /\ loop' # "off"
  /\ UNCHANGED <<refs, client, manager, restarts>>

HoldoffElapses ==
  /\ Elapse
  /\ UNCHANGED <<refs, client, manager, restarts>>

ClientStep(c) == Borrow(c) \/ BorrowStarts(c) \/ Return(c) \/ ReturnStops(c)

ManagerNext ==
  \/ \E c \in Clients : ClientStep(c)
  \/ RestartAll
  \/ ShutdownStops
  \/ ShutdownService
  \/ ServiceLoopRuns
  \/ ServiceLoopExits
  \/ HoldoffElapses

(* A goroutine inside Borrow, Return or ServiceManager.Shutdown goes on,   *)
(* and so does the run loop.  Nobody is forced to begin a call, and a      *)
(* client may hold the service for ever.                                   *)
ManagerFairness ==
  /\ \A c \in Clients : /\ WF_managerVars(BorrowStarts(c))
                        /\ WF_managerVars(ReturnStops(c))
  /\ WF_managerVars(ShutdownService)
  /\ WF_managerVars(ServiceLoopRuns /\ (loop = "running" => runCtx = "cancelled"))
  /\ WF_managerVars(ServiceLoopExits)
  /\ WF_managerVars(HoldoffElapses)

ManagerSpec     == ManagerInit /\ [][ManagerNext]_managerVars
ManagerFairSpec == ManagerSpec /\ ManagerFairness
-------------------------------------------------------------------------------
Holders == {c \in Clients : client[c] \in {"starting", "holding"}}

(* No goroutine is between its count and the call that follows from it.    *)
Quiet == \A c \in Clients : client[c] \in {"away", "holding"}

(* The count is the number of clients that have borrowed and not returned, *)
(* also while they race with each other between count and call.            *)
RefsCountHolders == refs = Cardinality(Holders)

(* No leak: once the calls have settled, a service nobody holds is not     *)
(* wanted any more, so the loop closes it.  Restart is the exception, it   *)
(* starts what nobody has borrowed.                                        *)
NoLeak ==
  (Quiet /\ refs = 0 /\ restarts = 0 /\ ~KeepRunning) => ~wanted

(* A service that is wanted is opened or being opened, however often its   *)
(* WorkerStart fails or its WorkerRun gives up, unless a Stop or a         *)
(* shutdown comes first.                                                   *)
WantedIsServed ==
  wanted ~> (open \/ loop = "starting" \/ ~wanted \/ loopCtx = "done")

(* ServiceManager.Shutdown returns, whatever the handlers that still run   *)
(* borrow, return and restart meanwhile.                                   *)
ShutdownReturns == (manager = "stopped") ~> (manager = "down")

(* What is asked of a service that runs takes effect, whatever the clients *)
(* do meanwhile: a Stop, a Restart, and the shutdown main waits for.       *)
RequestsReachWorker == StopReachesRun /\ RestartReachesRun /\ ShutdownReturns

(* manager.go:39, "Borrow increments the reference count and auto-starts   *)
(* on transition 0->1" (Architecture.md:98): once the calls have settled a *)
(* service somebody holds is wanted.                                       *)
BorrowedIsWanted == (Quiet /\ refs > 0 /\ manager = "up") => wanted
===============================================================================
