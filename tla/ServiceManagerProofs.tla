------------------------ MODULE ServiceManagerProofs ------------------------
(***************************************************************************)
(* Proofs about the services, from the bottom up.                          *)
(*                                                                         *)
(* The worker (BaseWorker): its types, what w.state tells, and that the    *)
(* run loop implements HookContract although it acts on stale snapshots.   *)
(*                                                                         *)
(* The manager (ServiceManager), for any finite set of clients: it drives  *)
(* the service through its requests only, the count is right, no service   *)
(* is left wanted by nobody, and the shutdown waits only for a loop that   *)
(* was told to end.                                                        *)
(*                                                                         *)
(* The video queue (VideoQueue), which sockets, control messages and       *)
(* downloads share under rules of its own: the count is right there, too,  *)
(* and no stream and no queue outlasts its users.                          *)
(***************************************************************************)
EXTENDS ServiceManager, VideoQueue, FiniteSetTheorems, TLAPS

-----------------------------------------------------------------------------
(* The worker. *)

(* What a snapshot still being acted upon says of the service.             *)
SeenTellsOpen ==
  loop \in {"check", "branch"} =>
    /\ seen.state = "running" => open
    /\ seen.state \in {"stopped", "starting"} => ~open

(* WorkerStart runs on a closed service, WorkerRun on an open one.         *)
HookTellsOpen ==
  /\ loop = "starting" => ~open
  /\ loop = "running"  => open

(* The inductive invariant: what the run loop knows of the service at each *)
(* of its points, from the published state, from its snapshot, and from    *)
(* the hook it is in.                                                      *)
LifecycleInv ==
  /\ TypeOK
  /\ StaleButSafe
  /\ StateTellsOpen
  /\ GoneIsClosed
  /\ SeenTellsOpen
  /\ HookTellsOpen

-----------------------------------------------------------------------------
(* Every variable keeps its type, whatever is requested.                   *)
LEMMA NothingSeenType == NothingSeen \in Snapshot
BY DEF NothingSeen, Snapshot, RunState

LEMMA TypeInit == Init => TypeOK
BY NothingSeenType DEF Init, TypeOK, RunState, LoopPoints

LEMMA TypeStep == TypeOK /\ [Next]_vars => TypeOK'
<1> SUFFICES ASSUME TypeOK, [Next]_vars
             PROVE  TypeOK'
  OBVIOUS
<1> USE DEF TypeOK, RunState, LoopPoints
<1>1. CASE Request
  <2>1. CASE Start
    BY <2>1 DEF Start, SpawnLoop
  <2>2. CASE Stop
    BY <2>2 DEF Stop, CancelRun
  <2>3. CASE Restart
    BY <2>3 DEF Restart, SpawnLoop, CancelRun
  <2>4. CASE Shutdown
    BY <2>4 DEF Shutdown, CancelRun
  <2> QED
    BY <1>1, <2>1, <2>2, <2>3, <2>4 DEF Request
<1>2. CASE Elapse
  BY <1>2 DEF Elapse
<1>3. CASE LoopStep
  <2>1. CASE LoopInit
    BY <2>1 DEF LoopInit
  <2>2. CASE TakeSnapshot
    BY <2>2 DEF TakeSnapshot, Snapshot
  <2>3. CASE CheckLoopCtx
    BY <2>3, NothingSeenType DEF CheckLoopCtx, StopWorkerTo
  <2>4. CASE Idle \/ BeginStart \/ CallWorkerStart \/ LeaveRunning \/ CallWorkerRun
    BY <2>4, NothingSeenType
       DEF Idle, BeginStart, CallWorkerStart, LeaveRunning, CallWorkerRun, Branch
  <2>5. CASE WorkerStartFails \/ WorkerStartSucceeds
    BY <2>5 DEF WorkerStartFails, WorkerStartSucceeds
  <2>6. CASE WorkerRunReturns \/ WorkerRunFails
    BY <2>6 DEF WorkerRunReturns, WorkerRunFails
  <2>7. CASE CallWorkerStop
    BY <2>7, NothingSeenType DEF CallWorkerStop, StopWorkerTo
  <2>8. CASE WorkerStopReturns \/ LoopExit
    BY <2>8 DEF WorkerStopReturns, LoopExit
  <2> QED
    BY <1>3, <2>1, <2>2, <2>3, <2>4, <2>5, <2>6, <2>7, <2>8 DEF LoopStep
<1>4. CASE UNCHANGED vars
  BY <1>4 DEF vars
<1> QED
  BY <1>1, <1>2, <1>3, <1>4 DEF Next

THEOREM TypeCorrect == Spec => []TypeOK
<1>1. QED
  BY TypeInit, TypeStep, PTL DEF Spec

-----------------------------------------------------------------------------
LEMMA LifecycleInit == Init => LifecycleInv
BY TypeInit DEF Init, LifecycleInv, StaleButSafe, StateTellsOpen, GoneIsClosed,
                SeenTellsOpen, HookTellsOpen, NothingSeen

LEMMA LifecycleStep == LifecycleInv /\ [Next]_vars => LifecycleInv'
<1> SUFFICES ASSUME LifecycleInv, [Next]_vars
             PROVE  LifecycleInv'
  OBVIOUS
<1>t. TypeOK /\ TypeOK'
  BY TypeStep DEF LifecycleInv
<1> USE <1>t DEF LifecycleInv, StaleButSafe, StateTellsOpen, GoneIsClosed,
                 SeenTellsOpen, HookTellsOpen
<1>1. CASE Request
  <2>1. CASE Start
    BY <2>1 DEF Start, SpawnLoop
  <2>2. CASE Stop
    BY <2>2 DEF Stop, CancelRun
  <2>3. CASE Restart
    BY <2>3 DEF Restart, SpawnLoop, CancelRun
  <2>4. CASE Shutdown
    BY <2>4 DEF Shutdown, CancelRun
  <2> QED
    BY <1>1, <2>1, <2>2, <2>3, <2>4 DEF Request
<1>2. CASE Elapse
  BY <1>2 DEF Elapse
<1>3. CASE LoopStep
  <2>1. CASE LoopInit
    BY <2>1 DEF LoopInit
  <2>2. CASE TakeSnapshot
    BY <2>2 DEF TakeSnapshot
  <2>3. CASE CheckLoopCtx
    BY <2>3 DEF CheckLoopCtx, StopWorkerTo
  <2>4. CASE Idle
    BY <2>4 DEF Idle, Branch
  <2>5. CASE BeginStart
    BY <2>5 DEF BeginStart, Branch
  <2>6. CASE CallWorkerStart
    BY <2>6 DEF CallWorkerStart, Branch
  <2>7. CASE WorkerStartFails
    BY <2>7 DEF WorkerStartFails
  <2>8. CASE WorkerStartSucceeds
    BY <2>8 DEF WorkerStartSucceeds
  <2>9. CASE LeaveRunning
    BY <2>9 DEF LeaveRunning, Branch
  <2>10. CASE CallWorkerRun
    BY <2>10 DEF CallWorkerRun, Branch
  <2>11. CASE WorkerRunReturns
    BY <2>11 DEF WorkerRunReturns
  <2>12. CASE WorkerRunFails
    BY <2>12 DEF WorkerRunFails
  <2>13. CASE CallWorkerStop
    BY <2>13 DEF CallWorkerStop, StopWorkerTo
  <2>14. CASE WorkerStopReturns
    BY <2>14 DEF WorkerStopReturns
  <2>15. CASE LoopExit
    BY <2>15 DEF LoopExit
  <2> QED
    BY <1>3, <2>1, <2>2, <2>3, <2>4, <2>5, <2>6, <2>7, <2>8, <2>9, <2>10,
       <2>11, <2>12, <2>13, <2>14, <2>15 DEF LoopStep
<1>4. CASE UNCHANGED vars
  BY <1>4 DEF vars
<1> QED
  BY <1>1, <1>2, <1>3, <1>4 DEF Next

THEOREM LifecycleInvariant == Spec => []LifecycleInv
<1>1. QED
  BY LifecycleInit, LifecycleStep, PTL DEF Spec

(* State() tells the callers outside whether the service is open.          *)
THEOREM StateIsTruthful == Spec => []StateTellsOpen
<1>1. LifecycleInv => StateTellsOpen
  BY DEF LifecycleInv
<1>2. QED
  BY <1>1, LifecycleInvariant, PTL

(* A decision taken on a snapshot is at worst overtaken by a Restart.      *)
THEOREM StaleSnapshotIsSafe == Spec => []StaleButSafe
<1>1. LifecycleInv => StaleButSafe
  BY DEF LifecycleInv
<1>2. QED
  BY <1>1, LifecycleInvariant, PTL

(* A loop that is gone has closed the service.                             *)
THEOREM GoneLoopHasClosed == Spec => []GoneIsClosed
<1>1. LifecycleInv => GoneIsClosed
  BY DEF LifecycleInv
<1>2. QED
  BY <1>1, LifecycleInvariant, PTL

-----------------------------------------------------------------------------
(* Every step of the run loop is a step of HookContract, or none: the      *)
(* hooks of every service are called in order.                             *)
LEMMA ContractInit == Init => Contract!HooksInit
BY DEF Init, Contract!HooksInit, hook

LEMMA ContractStep ==
  LifecycleInv /\ LifecycleInv' /\ [Next]_vars => [Contract!HooksNext]_hook
<1> SUFFICES ASSUME LifecycleInv, LifecycleInv', [Next]_vars
             PROVE  [Contract!HooksNext]_hook
  OBVIOUS
<1> USE DEF LifecycleInv, TypeOK, LoopPoints, hook
<1>1. CASE Request
  BY <1>1 DEF Request, Start, Stop, Restart, Shutdown, SpawnLoop
<1>2. CASE Elapse
  BY <1>2 DEF Elapse
<1>3. CASE LoopStep
  <2>1. CASE LoopInit \/ TakeSnapshot
    BY <2>1 DEF LoopInit, TakeSnapshot
  <2>2. CASE CheckLoopCtx
    <3>1. CASE loop' = "exiting"
      BY <2>2, <3>1 DEF CheckLoopCtx, StopWorkerTo, Contract!HooksNext, Contract!CallStop
    <3>2. CASE loop' # "exiting"
      BY <2>2, <3>2 DEF CheckLoopCtx, StopWorkerTo
    <3> QED
      BY <3>1, <3>2
  <2>3. CASE Idle \/ BeginStart \/ LeaveRunning
    BY <2>3 DEF Idle, BeginStart, LeaveRunning, Branch
  <2>4. CASE CallWorkerStart
    BY <2>4 DEF CallWorkerStart, Branch, SeenTellsOpen, Contract!HooksNext, Contract!CallStart
  <2>5. CASE WorkerStartFails
    BY <2>5 DEF WorkerStartFails, HookTellsOpen, Contract!HooksNext, Contract!StartFails
  <2>6. CASE WorkerStartSucceeds
    BY <2>6 DEF WorkerStartSucceeds, Contract!HooksNext, Contract!StartOpens
  <2>7. CASE CallWorkerRun
    BY <2>7 DEF CallWorkerRun, Branch, SeenTellsOpen, Contract!HooksNext, Contract!CallRun
  <2>8. CASE WorkerRunReturns \/ WorkerRunFails
    BY <2>8 DEF WorkerRunReturns, WorkerRunFails, HookTellsOpen,
                Contract!HooksNext, Contract!RunReturns
  <2>9. CASE CallWorkerStop
    BY <2>9 DEF CallWorkerStop, StopWorkerTo, Contract!HooksNext, Contract!CallStop
  <2>10. CASE WorkerStopReturns \/ LoopExit
    BY <2>10 DEF WorkerStopReturns, LoopExit, Contract!HooksNext, Contract!StopReturns
  <2> QED
    BY <1>3, <2>1, <2>2, <2>3, <2>4, <2>5, <2>6, <2>7, <2>8, <2>9, <2>10 DEF LoopStep
<1>4. CASE UNCHANGED vars
  BY <1>4 DEF vars
<1> QED
  BY <1>1, <1>2, <1>3, <1>4 DEF Next

THEOREM HooksAreInOrder == Spec => HooksInOrder
<1>1. QED
  BY LifecycleInvariant, ContractInit, ContractStep, PTL
     DEF Spec, HooksInOrder, Contract!HooksSpec

-----------------------------------------------------------------------------
(* The manager. *)

(* Why a service that was never restarted is wanted: somebody holds it, or *)
(* the Stop that follows the last Return is still on its way.  NoLeak says *)
(* this of the settled states only, which is not inductive.                *)
WantedHasReason ==
  (wanted /\ restarts = 0 /\ ~KeepRunning)
    => \/ Holders # {}
       \/ \E c \in Clients : At(c, "stopping")

CountInv ==
  /\ ManagerTypeOK
  /\ RefsCountHolders
  /\ WantedHasReason

-----------------------------------------------------------------------------
(* Every step of the manager, its clients and the loop is a step of        *)
(* BaseWorker or leaves the service alone.                                 *)
LEMMA WorkerStep == [ManagerNext]_managerVars => [Next]_vars
<1> SUFFICES ASSUME [ManagerNext]_managerVars
             PROVE  [Next]_vars
  OBVIOUS
<1>1. CASE \E c \in Clients : ClientStep(c)
  <2>1. PICK c \in Clients : ClientStep(c)
    BY <1>1
  <2>2. CASE Borrow(c) \/ Return(c)
    BY <2>2 DEF Borrow, Return
  <2>3. CASE BorrowStarts(c)
    BY <2>3 DEF BorrowStarts, Next, Request
  <2>4. CASE ReturnStops(c)
    BY <2>4 DEF ReturnStops, Next, Request
  <2> QED
    BY <2>1, <2>2, <2>3, <2>4 DEF ClientStep
<1>2. CASE RestartAll
  BY <1>2 DEF RestartAll, Next, Request
<1>3. CASE ShutdownStops
  BY <1>3 DEF ShutdownStops, Next, Request
<1>4. CASE ShutdownService
  BY <1>4 DEF ShutdownService, Next, Request
<1>5. CASE ServiceLoopRuns
  BY <1>5 DEF ServiceLoopRuns, Next
<1>6. CASE ServiceLoopExits
  BY <1>6 DEF ServiceLoopExits, Next, LoopStep
<1>7. CASE HoldoffElapses
  BY <1>7 DEF HoldoffElapses, Next
<1>8. CASE UNCHANGED managerVars
  BY <1>8 DEF managerVars
<1> QED
  BY <1>1, <1>2, <1>3, <1>4, <1>5, <1>6, <1>7, <1>8 DEF ManagerNext

(* The manager uses the service only as BaseWorker allows, so whatever is  *)
(* proved of BaseWorker holds of every service under the manager.          *)
THEOREM ManagerImplementsWorker == ManagerSpec => Spec
<1>1. ManagerInit => Init
  BY DEF ManagerInit
<1>2. QED
  BY <1>1, WorkerStep, PTL DEF ManagerSpec, Spec

(* A service that clients share still calls its hooks in order.            *)
THEOREM ManagedHooksAreInOrder == ManagerSpec => HooksInOrder
<1>1. QED
  BY ManagerImplementsWorker, HooksAreInOrder

-----------------------------------------------------------------------------
LEMMA HoldersFinite == IsFiniteSet(Holders)
<1>1. Holders \in SUBSET Clients
  BY DEF Holders
<1>2. QED
  BY <1>1, ClientsAssumption, FS_Subset

(* A step that moves no client keeps the count and the reason, if it does  *)
(* not make the service wanted.                                            *)
LEMMA CountKept ==
  ASSUME CountInv, ManagerTypeOK',
         UNCHANGED <<refs, client>>,
         wanted' => wanted \/ restarts' # 0,
         restarts' = 0 => restarts = 0
  PROVE  CountInv'
BY DEF CountInv, RefsCountHolders, WantedHasReason, Holders, At

LEMMA CountInit == ManagerInit => CountInv
<1> SUFFICES ASSUME ManagerInit
             PROVE  CountInv
  OBVIOUS
<1>1. ManagerTypeOK
  BY TypeInit, MaxRestartsAssumption DEF ManagerInit, ManagerTypeOK, ClientPoints, ManagerPoints
<1>2. Holders = {}
  BY DEF ManagerInit, Holders
<1>3. RefsCountHolders
  BY <1>2, FS_EmptySet DEF ManagerInit, RefsCountHolders
<1>4. WantedHasReason
  BY DEF ManagerInit, Init, WantedHasReason
<1> QED
  BY <1>1, <1>3, <1>4 DEF CountInv

(* The run loop and the clock never make a service wanted.                 *)
LEMMA LoopKeepsWanted == LoopStep \/ Elapse => wanted' = wanted
BY DEF LoopStep, Elapse, LoopInit, TakeSnapshot, CheckLoopCtx, StopWorkerTo, Idle,
       BeginStart, CallWorkerStart, WorkerStartFails, WorkerStartSucceeds,
       LeaveRunning, CallWorkerRun, WorkerRunReturns, WorkerRunFails,
       CallWorkerStop, WorkerStopReturns, LoopExit

LEMMA CountStep == CountInv /\ [ManagerNext]_managerVars => CountInv'
<1> SUFFICES ASSUME CountInv, [ManagerNext]_managerVars
             PROVE  CountInv'
  OBVIOUS
<1>t. TypeOK'
  BY WorkerStep, TypeStep DEF CountInv, ManagerTypeOK
<1> USE DEF ManagerTypeOK, ClientPoints, ManagerPoints
<1>1. ASSUME NEW c \in Clients, Borrow(c)
      PROVE  CountInv'
  <2>1. Holders' = Holders \union {c} /\ c \notin Holders
    BY <1>1 DEF Borrow, Holders, At, Move, CountInv
  <2>2. RefsCountHolders'
    BY <1>1, <2>1, HoldersFinite, FS_AddElement DEF Borrow, RefsCountHolders, CountInv
  <2>3. WantedHasReason'
    BY <2>1 DEF WantedHasReason
  <2>4. ManagerTypeOK'
    BY <1>1, <1>t DEF Borrow, Move, CountInv
  <2> QED
    BY <2>2, <2>3, <2>4 DEF CountInv
<1>2. ASSUME NEW c \in Clients, BorrowStarts(c)
      PROVE  CountInv'
  <2>1. Holders' = Holders /\ c \in Holders
    BY <1>2 DEF BorrowStarts, Holders, At, Move, CountInv
  <2>2. RefsCountHolders'
    BY <1>2, <2>1 DEF BorrowStarts, RefsCountHolders, CountInv
  <2>3. WantedHasReason'
    BY <2>1 DEF WantedHasReason
  <2>4. ManagerTypeOK'
    BY <1>2, <1>t DEF BorrowStarts, Move, CountInv
  <2> QED
    BY <2>2, <2>3, <2>4 DEF CountInv
<1>3. ASSUME NEW c \in Clients, Return(c)
      PROVE  CountInv'
  <2>1. Holders' = Holders \ {c} /\ c \in Holders
    BY <1>3 DEF Return, Holders, At, Move, CountInv
  <2>2. /\ IsFiniteSet(Holders')
        /\ Cardinality(Holders') = refs - 1
    BY <2>1, HoldersFinite, FS_RemoveElement DEF RefsCountHolders, CountInv
  <2>3. refs' \in Nat /\ refs' = refs - 1
    <3>1. refs - 1 \in Nat /\ refs \in Nat
      BY <2>2, FS_CardinalityType DEF CountInv, ManagerTypeOK
    <3> QED
      BY <1>3, <3>1 DEF Return
  <2>4. RefsCountHolders'
    BY <2>2, <2>3 DEF RefsCountHolders
  <2>5. ASSUME refs = 1, ~KeepRunning
        PROVE  WantedHasReason'
    <3>1. client'[c] = "stopping"
      BY <1>3, <2>5 DEF Return, Move, CountInv
    <3> QED
      BY <3>1 DEF WantedHasReason, At
  <2>6. ASSUME refs # 1
        PROVE  WantedHasReason'
    <3>1. Holders' # {}
      BY <2>2, <2>6, FS_EmptySet DEF CountInv
    <3> QED
      BY <3>1 DEF WantedHasReason
  <2>7. ManagerTypeOK'
    BY <1>3, <1>t, <2>3 DEF Return, Move, CountInv
  <2>8. KeepRunning => WantedHasReason'
    BY DEF WantedHasReason
  <2> QED
    BY <2>4, <2>5, <2>6, <2>7, <2>8 DEF CountInv
<1>4. ASSUME NEW c \in Clients, ReturnStops(c)
      PROVE  CountInv'
  <2>1. Holders' = Holders
    BY <1>4 DEF ReturnStops, Holders, At, Move, CountInv
  <2>2. RefsCountHolders'
    BY <1>4, <2>1 DEF ReturnStops, RefsCountHolders, CountInv
  <2>3. WantedHasReason'
    BY <1>4 DEF ReturnStops, Stop, WantedHasReason
  <2>4. ManagerTypeOK'
    BY <1>4, <1>t DEF ReturnStops, Move, CountInv
  <2> QED
    BY <2>2, <2>3, <2>4 DEF CountInv
<1>5. CASE RestartAll
  <2>1. ManagerTypeOK'
    BY <1>5, <1>t, MaxRestartsAssumption DEF RestartAll, CountInv
  <2>2. restarts' # 0
    BY <1>5 DEF RestartAll, CountInv
  <2> QED
    BY <1>5, <2>1, <2>2, CountKept DEF RestartAll
<1>6. CASE ShutdownStops \/ ShutdownService
  <2>1. ManagerTypeOK'
    BY <1>6, <1>t DEF ShutdownStops, ShutdownService, CountInv
  <2> QED
    BY <1>6, <2>1, CountKept DEF ShutdownStops, ShutdownService, Stop, Shutdown
<1>7. CASE ServiceLoopRuns \/ ServiceLoopExits \/ HoldoffElapses
  <2>1. ManagerTypeOK'
    BY <1>7, <1>t DEF ServiceLoopRuns, ServiceLoopExits, HoldoffElapses, CountInv
  <2>2. wanted' = wanted
    BY <1>7, LoopKeepsWanted DEF ServiceLoopRuns, ServiceLoopExits, HoldoffElapses, LoopStep
  <2> QED
    BY <1>7, <2>1, <2>2, CountKept DEF ServiceLoopRuns, ServiceLoopExits, HoldoffElapses
<1>8. CASE UNCHANGED managerVars
  <2>1. ManagerTypeOK'
    BY <1>8, <1>t DEF managerVars, CountInv
  <2> QED
    BY <1>8, <2>1, CountKept DEF managerVars, vars
<1> QED
  BY <1>1, <1>2, <1>3, <1>4, <1>5, <1>6, <1>7, <1>8 DEF ManagerNext, ClientStep

THEOREM CountInvariant == ManagerSpec => []CountInv
<1>1. QED
  BY CountInit, CountStep, PTL DEF ManagerSpec

(* The count is the number of holders, for any number of racing clients.   *)
THEOREM CountIsRight == ManagerSpec => []RefsCountHolders
<1>1. CountInv => RefsCountHolders
  BY DEF CountInv
<1>2. QED
  BY <1>1, CountInvariant, PTL

(* Borrowing leaks no service, for any number of racing clients.           *)
THEOREM NothingLeaks == ManagerSpec => []NoLeak
<1>1. CountInv => NoLeak
  <2> SUFFICES ASSUME CountInv, Quiet, refs = 0, restarts = 0, ~KeepRunning
               PROVE  ~wanted
    BY DEF NoLeak
  <2>1. Holders = {}
    BY HoldersFinite, FS_EmptySet DEF CountInv, RefsCountHolders
  <2>2. ~ \E c \in Clients : At(c, "stopping")
    BY DEF Quiet, At
  <2> QED
    BY <2>1, <2>2 DEF CountInv, WantedHasReason
<1>2. QED
  BY <1>1, CountInvariant, PTL

(* The count, the clients, the shutdown and the service keep their types.  *)
THEOREM ManagerTypeCorrect == ManagerSpec => []ManagerTypeOK
<1>1. CountInv => ManagerTypeOK
  BY DEF CountInv
<1>2. QED
  BY <1>1, CountInvariant, PTL

-----------------------------------------------------------------------------
(* The safe part of ShutdownReturns: while ServiceManager.Shutdown waits,  *)
(* there is a loop to wait for, and its context is done.  No Start or      *)
(* Restart of a handler that still runs gives that loop a new context.     *)
WaitsForDoneLoop == manager = "waiting" => loop # "off" /\ loopCtx = "done"

WaitInv ==
  /\ ManagerTypeOK
  /\ loop # "off" => loopCtx # "nil"
  /\ WaitsForDoneLoop

(* What the loop does to itself: it never changes its context, and leaves  *)
(* only by LoopExit.                                                       *)
LEMMA LoopKeepsContext ==
  /\ LoopStep \/ Elapse => loopCtx' = loopCtx
  /\ LoopStep => loop # "off"
  /\ Elapse => loop' = loop
  /\ LoopExit => loop' = "off"
<1>1. LoopStep => loop # "off" /\ loopCtx' = loopCtx
  BY DEF LoopStep, LoopInit, TakeSnapshot, CheckLoopCtx, StopWorkerTo, Idle, Branch,
         BeginStart, CallWorkerStart, WorkerStartFails, WorkerStartSucceeds,
         LeaveRunning, CallWorkerRun, WorkerRunReturns, WorkerRunFails,
         CallWorkerStop, WorkerStopReturns, LoopExit
<1>2. QED
  BY <1>1 DEF Elapse, LoopExit

(* A request of a client starts a loop with a context, or leaves both.     *)
LEMMA RequestKeepsContext ==
  ASSUME WaitInv, ManagerTypeOK', UNCHANGED manager, Start \/ Stop \/ Restart \/ UNCHANGED vars
  PROVE  WaitInv'
BY DEF WaitInv, WaitsForDoneLoop, Start, Stop, Restart, SpawnLoop, vars

LEMMA WaitStep == WaitInv /\ CountInv /\ [ManagerNext]_managerVars => WaitInv'
<1> SUFFICES ASSUME WaitInv, CountInv, [ManagerNext]_managerVars
             PROVE  WaitInv'
  OBVIOUS
<1>t. ManagerTypeOK'
  BY CountStep DEF CountInv
<1>1. CASE \E c \in Clients : ClientStep(c)
  BY <1>1, <1>t, RequestKeepsContext DEF ClientStep, Borrow, BorrowStarts, Return, ReturnStops
<1>2. CASE RestartAll \/ UNCHANGED managerVars
  BY <1>2, <1>t, RequestKeepsContext DEF RestartAll, managerVars
<1>3. CASE ShutdownStops
  BY <1>3, <1>t DEF ShutdownStops, Stop, WaitInv, WaitsForDoneLoop
<1>4. CASE ShutdownService
  BY <1>4, <1>t DEF ShutdownService, Shutdown, WaitInv, WaitsForDoneLoop
<1>5. CASE ServiceLoopRuns \/ HoldoffElapses
  BY <1>5, <1>t, LoopKeepsContext DEF ServiceLoopRuns, HoldoffElapses, WaitInv, WaitsForDoneLoop
<1>6. CASE ServiceLoopExits
  BY <1>6, <1>t, LoopKeepsContext DEF ServiceLoopExits, LoopStep, WaitInv, WaitsForDoneLoop
<1> QED
  BY <1>1, <1>2, <1>3, <1>4, <1>5, <1>6 DEF ManagerNext

(* Nobody waits for a loop that was never told to end.                     *)
THEOREM ShutdownWaitsForDoneLoop == ManagerSpec => []WaitsForDoneLoop
<1>1. ManagerInit => WaitInv
  BY CountInit DEF ManagerInit, Init, CountInv, WaitInv, WaitsForDoneLoop
<1>2. WaitInv => WaitsForDoneLoop
  BY DEF WaitInv
<1>3. QED
  BY <1>1, <1>2, WaitStep, CountInvariant, PTL DEF ManagerSpec

-----------------------------------------------------------------------------
(* The video queue. *)

(* Who is counted: a viewer until its deferred function has returned the   *)
(* service, a control message or a download while it holds it.             *)
Counts(c, point) ==
  \/ point \in {"counted", "watching", "leaving", "last", "returning"}
  \/ c \in Viewers /\ point \in {"disabled", "stopping"}

Counted == {c \in Users : Counts(c, user[c])}

(* Who is a reason for a queue whose video is disabled to be wanted: one   *)
(* who is counted, is about to be, or is about to stop it.                 *)
IsReason(c, point) ==
  \/ Counts(c, point)
  \/ point \in {"enabled", "starting", "restarting", "borrowing", "releasing"}

VideoReason ==
  wanted /\ ~enabled /\ ~toggled => \E c \in Users : IsReason(c, user[c])

(* Only viewers look at the count when they leave, and nobody else enables *)
(* the video unless by a control message.                                  *)
OwnPoints ==
  \A c \in Users :
    /\ user[c] \in {"leaving", "last"} => c \in Viewers
    /\ user[c] \in {"enabled", "starting", "restarting"} => c \in Viewers \/ toggled

VideoCountInv ==
  /\ VideoTypeOK
  /\ LiveIsOpen
  /\ queueRefs = Cardinality(Counted)
  /\ VideoReason
  /\ OwnPoints

LEMMA HookIsWorkerStep ==
  ASSUME HookStep \/ QueueHoldoffElapses
  PROVE  LoopStep \/ Elapse
BY DEF HookStep, QueueHoldoffElapses, StartReads, StartFails, StartEnds, RunReads, RunStalls,
       RunReturns, StopEnds, OtherLoopStep, LoopStep

(* What the users do to the service: a request, or nothing.                *)
LEMMA UserIsWorkerStep ==
  ASSUME \/ ClientBegins
         \/ \E c \in Users : Continue(c)
  PROVE  Start \/ Stop \/ Restart \/ UNCHANGED vars
<1>1. CASE ClientBegins
  BY <1>1 DEF ClientBegins, Connect, Disconnect, ToggleOn, ToggleOff, BeginControl, SetProfile,
              BeginDownload, EndDownload, SetEnabled, SetDisabled
<1>2. CASE \E c \in Users : Continue(c)
  BY <1>2 DEF Continue, LookToEnable, EnableStarts, EnableRestarts, LookToDisable, DisableStops,
              BorrowQueue, BorrowQueueStarts, ReturnQueue, ReturnQueueStops, LookAtRefs,
              LastDisables, SetDisabled
<1> QED
  BY <1>1, <1>2

LEMMA VideoWorkerStep == [VideoNext]_videoVars => [Next]_vars
<1> SUFFICES ASSUME [VideoNext]_videoVars
             PROVE  [Next]_vars
  OBVIOUS
<1>1. CASE HookStep \/ QueueHoldoffElapses
  BY <1>1, HookIsWorkerStep DEF Next
<1>2. CASE ClientBegins \/ \E c \in Users : Continue(c)
  BY <1>2, UserIsWorkerStep DEF Next, Request
<1>3. CASE ConnectionLost \/ UNCHANGED videoVars
  BY <1>3 DEF ConnectionLost, videoVars
<1> QED
  BY <1>1, <1>2, <1>3 DEF VideoNext

(* The video queue calls its hooks in order, too.                          *)
THEOREM VideoHooksAreInOrder == VideoSpec => HooksInOrder
<1>1. VideoInit => Init
  BY DEF VideoInit
<1>2. VideoSpec => Spec
  BY <1>1, VideoWorkerStep, PTL DEF VideoSpec, Spec
<1>3. QED
  BY <1>2, HooksAreInOrder

LEMMA CountedFinite ==
  /\ IsFiniteSet(Counted) /\ Cardinality(Counted) \in 0 .. Cardinality(Users)
  /\ Cardinality(Users) \in Nat
<1>1. IsFiniteSet(Users) /\ Counted \subseteq Users
  BY UsersAssumption DEF Users, Counted
<1>2. QED
  BY <1>1, FS_Subset, FS_CardinalityType

(* A user goes on: the count follows if it says whether the user is        *)
(* counted, and there is a reason left if the user is one, or was none.    *)
LEMMA UserMoves ==
  ASSUME VideoCountInv, TypeOK', NEW c \in Users, NEW p \in Points, Go(c, p),
         enabled' \in BOOLEAN, profile' \in Profiles, UNCHANGED <<plan, live, open>>,
         toggled' \in BOOLEAN, toggled => toggled',
         /\ Counts(c, p) /\ ~Counts(c, user[c]) => queueRefs' = queueRefs + 1
         /\ ~Counts(c, p) /\ Counts(c, user[c]) => queueRefs' = queueRefs - 1
         /\ (Counts(c, p) <=> Counts(c, user[c])) => queueRefs' = queueRefs,
         \/ wanted' /\ ~enabled' /\ ~toggled' => IsReason(c, p)
         \/ /\ wanted' => wanted
            /\ enabled => enabled'
            /\ ~IsReason(c, user[c]) \/ (queueRefs # 1 /\ Counts(c, user[c])),
         p \in {"leaving", "last"} => c \in Viewers,
         p \in {"enabled", "starting", "restarting"} => c \in Viewers \/ toggled'
  PROVE  VideoCountInv'
<1>1. user \in [Users -> Points] /\ queueRefs = Cardinality(Counted)
  BY DEF VideoCountInv, VideoTypeOK
<1>2. /\ user' \in [Users -> Points] /\ user'[c] = p
      /\ \A d \in Users \ {c} : user'[d] = user[d]
  BY <1>1 DEF Go
<1>3. /\ Counts(c, p) => Counted' = Counted \union {c}
      /\ ~Counts(c, p) => Counted' = Counted \ {c}
      /\ c \in Counted <=> Counts(c, user[c])
  BY <1>2 DEF Counted, Counts
<1>4. queueRefs' = Cardinality(Counted')
  <2>1. CASE Counts(c, p) /\ ~Counts(c, user[c])
    BY <1>1, <1>3, <2>1, CountedFinite, FS_AddElement
  <2>2. CASE ~Counts(c, p) /\ Counts(c, user[c])
    BY <1>1, <1>3, <2>2, CountedFinite, FS_RemoveElement
  <2>3. CASE Counts(c, p) <=> Counts(c, user[c])
    <3>1. Counted' = Counted
      BY <1>3, <2>3
    <3> QED
      BY <1>1, <2>3, <3>1
  <2> QED
    BY <2>1, <2>2, <2>3
<1>5. Cardinality(Counted') \in 0 .. Cardinality(Users)
  <2>1. IsFiniteSet(Users) /\ Counted' \subseteq Users
    BY UsersAssumption DEF Users, Counted
  <2> QED
    BY <2>1, FS_Subset, FS_CardinalityType
<1>6. VideoTypeOK'
  BY <1>2, <1>4, <1>5 DEF VideoCountInv, VideoTypeOK
<1>7. VideoReason'
  <2> SUFFICES ASSUME wanted', ~enabled', ~toggled'
               PROVE  \E d \in Users : IsReason(d, user'[d])
    BY DEF VideoReason
  <2>1. CASE IsReason(c, p)
    BY <1>2, <2>1
  <2>2. CASE ~IsReason(c, p)
    <3>1. \E d \in Users : IsReason(d, user[d])
      BY <2>2 DEF VideoCountInv, VideoReason
    <3>2. CASE ~IsReason(c, user[c])
      BY <1>2, <3>1, <3>2
    <3>3. CASE queueRefs # 1 /\ Counts(c, user[c])
      <4>1. Counted # {c}
        BY <1>1, <3>3, FS_Singleton
      <4>2. PICK d \in Counted : d # c
        BY <1>3, <3>3, <4>1
      <4> QED
        BY <1>2, <4>2 DEF Counted, IsReason
    <3> QED
      BY <2>2, <3>2, <3>3
  <2> QED
    BY <2>1, <2>2
<1>8. OwnPoints'
  BY <1>2 DEF VideoCountInv, OwnPoints
<1>9. LiveIsOpen'
  BY DEF VideoCountInv, LiveIsOpen
<1> QED
  BY <1>4, <1>6, <1>7, <1>8, <1>9 DEF VideoCountInv

(* A user that only goes on, and stays a reason if it was one.             *)
LEMMA UserGoesOn ==
  ASSUME VideoCountInv, TypeOK', NEW c \in Users, NEW p \in Points, Go(c, p),
         UNCHANGED <<enabled, profile, plan, live, open, toggled, queueRefs, wanted>>,
         Counts(c, p) <=> Counts(c, user[c]),
         IsReason(c, user[c]) => IsReason(c, p),
         p \in {"leaving", "last"} => c \in Viewers,
         p \in {"enabled", "starting", "restarting"} => c \in Viewers \/ toggled
  PROVE  VideoCountInv'
<1>1. enabled' \in BOOLEAN /\ profile' \in Profiles /\ toggled' \in BOOLEAN
  BY DEF VideoCountInv, VideoTypeOK
<1>2. /\ UNCHANGED <<plan, live, open>> /\ (toggled => toggled')
      /\ wanted' => wanted
      /\ enabled => enabled'
      /\ queueRefs' = queueRefs
      /\ p \in {"enabled", "starting", "restarting"} => c \in Viewers \/ toggled'
  OBVIOUS
<1>3. CASE IsReason(c, p)
  BY <1>1, <1>2, <1>3, UserMoves
<1>4. CASE ~IsReason(c, user[c])
  BY <1>1, <1>2, <1>4, UserMoves
<1> QED
  BY <1>3, <1>4

(* The calls of the users, one after the other.                            *)
LEMMA UserContinues ==
  ASSUME VideoCountInv, TypeOK', NEW c \in Users, Continue(c)
  PROVE  VideoCountInv'
<1> USE DEF UserAt, Counts, IsReason, Points, queueVars, vars
<1>1. /\ enabled \in BOOLEAN /\ profile \in Profiles /\ toggled \in BOOLEAN
      /\ user[c] \in {"enabled", "starting", "restarting"} => c \in Viewers \/ toggled
  BY DEF VideoCountInv, VideoTypeOK, OwnPoints
<1>2. CASE LookToEnable(c)
  <2>1. PICK p \in {"starting", "restarting"} : Go(c, p)
    BY <1>2 DEF LookToEnable
  <2>2. /\ user[c] = "enabled"
        /\ UNCHANGED <<enabled, profile, plan, live, open, toggled, queueRefs, wanted>>
    BY <1>2 DEF LookToEnable
  <2> QED
    BY <1>1, <2>1, <2>2, UserMoves
<1>3. CASE EnableStarts(c) \/ EnableRestarts(c)
  <2>1. /\ Go(c, AfterEnable(c)) /\ user[c] \in {"starting", "restarting"}
        /\ UNCHANGED <<enabled, profile, plan, live, open, toggled, queueRefs>>
    BY <1>3 DEF EnableStarts, EnableRestarts, Start, Restart
  <2>2. CASE c \in Viewers
    BY <1>1, <2>1, <2>2, UserMoves DEF AfterEnable
  <2>3. CASE c \notin Viewers
    BY <1>1, <2>1, <2>3, UserMoves DEF AfterEnable
  <2> QED
    BY <2>2, <2>3
<1>4. CASE LookToDisable(c)
  <2>1. PICK p \in {"stopping", AfterDisable(c)} : Go(c, p)
    BY <1>4 DEF LookToDisable
  <2>2. /\ user[c] = "disabled"
        /\ UNCHANGED <<enabled, profile, plan, live, open, toggled, queueRefs, wanted>>
    BY <1>4 DEF LookToDisable
  <2>3. CASE c \in Viewers
    <3>1. p \in {"stopping", "returning"}
      BY <2>1, <2>3 DEF AfterDisable
    <3> QED
      BY <2>1, <2>2, <2>3, <3>1, UserGoesOn
  <2>4. CASE c \notin Viewers
    <3>1. p \in {"stopping", "away"}
      BY <2>1, <2>4 DEF AfterDisable
    <3> QED
      BY <2>1, <2>2, <2>4, <3>1, UserGoesOn
  <2> QED
    BY <2>3, <2>4
<1>5. CASE DisableStops(c)
  <2>1. /\ Go(c, AfterDisable(c)) /\ user[c] = "stopping" /\ wanted' = FALSE
        /\ UNCHANGED <<enabled, profile, plan, live, open, toggled, queueRefs>>
    BY <1>5 DEF DisableStops, Stop
  <2> QED
    BY <1>1, <2>1, UserMoves DEF AfterDisable
<1>6. CASE BorrowQueue(c)
  <2>1. PICK p \in {"counted", "watching"} : Go(c, p)
    BY <1>6 DEF BorrowQueue
  <2>2. /\ user[c] = "borrowing" /\ queueRefs' = queueRefs + 1
        /\ UNCHANGED <<enabled, profile, plan, live, open, toggled, wanted>>
    BY <1>6 DEF BorrowQueue
  <2> QED
    BY <1>1, <2>1, <2>2, UserMoves
<1>7. CASE BorrowQueueStarts(c)
  <2>1. /\ Go(c, "watching") /\ user[c] = "counted"
        /\ UNCHANGED <<enabled, profile, plan, live, open, toggled, queueRefs>>
    BY <1>7 DEF BorrowQueueStarts, Start
  <2> QED
    BY <1>1, <2>1, UserMoves
<1>8. CASE ReturnQueue(c)
  <2>1. /\ user[c] = "returning" /\ queueRefs' = queueRefs - 1
        /\ UNCHANGED <<enabled, profile, plan, live, open, toggled, wanted>>
    BY <1>8 DEF ReturnQueue
  <2>2. CASE queueRefs = 1 /\ ~enabled
    <3>1. Go(c, "releasing")
      BY <1>8, <2>2 DEF ReturnQueue
    <3> QED
      BY <1>1, <2>1, <3>1, UserMoves
  <2>3. CASE ~(queueRefs = 1 /\ ~enabled)
    <3>1. Go(c, "away")
      BY <1>8, <2>3 DEF ReturnQueue
    <3> QED
      BY <1>1, <2>1, <2>3, <3>1, UserMoves
  <2> QED
    BY <2>2, <2>3
<1>9. CASE ReturnQueueStops(c)
  <2>1. /\ Go(c, "away") /\ user[c] = "releasing" /\ wanted' = FALSE
        /\ UNCHANGED <<enabled, profile, plan, live, open, toggled, queueRefs>>
    BY <1>9 DEF ReturnQueueStops, Stop
  <2> QED
    BY <1>1, <2>1, UserMoves
<1>10. CASE c \in Viewers /\ LookAtRefs(c)
  <2>1. PICK p \in {"last", "returning"} : Go(c, p)
    BY <1>10 DEF LookAtRefs
  <2>2. /\ user[c] = "leaving"
        /\ UNCHANGED <<enabled, profile, plan, live, open, toggled, queueRefs, wanted>>
    BY <1>10 DEF LookAtRefs
  <2> QED
    BY <1>1, <1>10, <2>1, <2>2, UserMoves
<1>11. CASE c \in Viewers /\ LastDisables(c)
  <2>1. PICK p \in {"disabled", "returning"} : Go(c, p)
    BY <1>11 DEF LastDisables, SetDisabled, AfterDisable
  <2>2. /\ user[c] = "last" /\ enabled' = FALSE /\ toggled' = toggled
        /\ UNCHANGED <<profile, plan, live, open, queueRefs, wanted>>
    BY <1>1, <1>11 DEF LastDisables, SetDisabled
  <2> QED
    BY <1>1, <1>11, <2>1, <2>2, UserMoves
<1> QED
  BY <1>2, <1>3, <1>4, <1>5, <1>6, <1>7, <1>8, <1>9, <1>10, <1>11 DEF Continue

LEMMA UserBegins ==
  ASSUME VideoCountInv, TypeOK', ClientBegins
  PROVE  VideoCountInv'
<1> USE DEF UserAt, Counts, IsReason, Points, queueVars, vars
<1>1. /\ enabled \in BOOLEAN /\ profile \in Profiles /\ toggled \in BOOLEAN
      /\ Viewers \subseteq Users /\ Controls \subseteq Users /\ Downloads \subseteq Users
  BY DEF VideoCountInv, VideoTypeOK, Users
<1>2. ASSUME NEW v \in Viewers, Connect(v)
      PROVE  VideoCountInv'
  <2>1. PICK p \in {"borrowing", "enabled"} : Go(v, p)
    BY <1>2 DEF Connect, SetEnabled, AfterEnable
  <2>2. /\ v \in Users /\ user[v] = "away" /\ enabled' = TRUE /\ toggled' = toggled
        /\ UNCHANGED <<profile, plan, live, open, queueRefs, wanted>>
    BY <1>1, <1>2 DEF Connect, SetEnabled
  <2> QED
    BY <1>1, <2>1, <2>2, UserMoves
<1>3. ASSUME NEW v \in Viewers, Disconnect(v)
      PROVE  VideoCountInv'
  <2>1. /\ v \in Users /\ Go(v, "leaving") /\ user[v] = "watching"
        /\ UNCHANGED <<enabled, profile, plan, live, open, toggled, queueRefs, wanted>>
    BY <1>1, <1>3 DEF Disconnect
  <2> QED
    BY <1>1, <2>1, UserMoves
<1>4. ASSUME NEW k \in Controls, ToggleOn(k) \/ ToggleOff(k)
      PROVE  VideoCountInv'
  <2>1. k \in Users /\ k \notin Viewers
    BY <1>1, KindAssumption
  <2>2. PICK p \in {"away", "enabled", "disabled"} : Go(k, p)
    BY <1>4, <2>1 DEF ToggleOn, ToggleOff, SetEnabled, SetDisabled, AfterEnable, AfterDisable
  <2>3. /\ user[k] = "away" /\ enabled' \in BOOLEAN /\ toggled' = TRUE
        /\ UNCHANGED <<profile, plan, live, open, queueRefs, wanted>>
    BY <1>4 DEF ToggleOn, ToggleOff, SetEnabled, SetDisabled
  <2> QED
    BY <1>1, <2>1, <2>2, <2>3, UserMoves
<1>5. ASSUME NEW k \in Controls, BeginControl(k)
      PROVE  VideoCountInv'
  <2>1. /\ k \in Users /\ Go(k, "borrowing") /\ user[k] = "away"
        /\ UNCHANGED <<enabled, profile, plan, live, open, toggled, queueRefs, wanted>>
    BY <1>1, <1>5 DEF BeginControl
  <2> QED
    BY <1>1, <2>1, UserMoves
<1>6. ASSUME NEW k \in Controls, SetProfile(k)
      PROVE  VideoCountInv'
  <2>1. /\ k \in Users /\ Go(k, "returning") /\ user[k] = "watching" /\ profile' \in Profiles
        /\ UNCHANGED <<enabled, plan, live, open, toggled, queueRefs, wanted>>
    BY <1>1, <1>6 DEF SetProfile
  <2> QED
    BY <1>1, <2>1, UserMoves
<1>7. ASSUME NEW d \in Downloads, BeginDownload(d)
      PROVE  VideoCountInv'
  <2>1. PICK p \in {"borrowing", "tapping"} : Go(d, p)
    BY <1>7 DEF BeginDownload
  <2>2. /\ d \in Users /\ user[d] = "away"
        /\ UNCHANGED <<enabled, profile, plan, live, open, toggled, queueRefs, wanted>>
    BY <1>1, <1>7 DEF BeginDownload
  <2> QED
    BY <1>1, <2>1, <2>2, UserGoesOn
<1>8. ASSUME NEW d \in Downloads, EndDownload(d)
      PROVE  VideoCountInv'
  <2>1. /\ d \in Users
        /\ UNCHANGED <<enabled, profile, plan, live, open, toggled, queueRefs, wanted>>
    BY <1>1, <1>8 DEF EndDownload
  <2>2. CASE user[d] = "watching" /\ Go(d, "returning")
    BY <1>1, <2>1, <2>2, UserGoesOn
  <2>3. CASE user[d] = "tapping" /\ Go(d, "away")
    BY <1>1, <2>1, <2>3, UserGoesOn
  <2> QED
    BY <1>8, <2>2, <2>3 DEF EndDownload
<1> QED
  BY <1>2, <1>3, <1>4, <1>5, <1>6, <1>7, <1>8 DEF ClientBegins

(* The hooks and the connection count nobody; the stream they open and     *)
(* close is that of the service.                                           *)
LEMMA HooksKeepCount ==
  ASSUME VideoCountInv, TypeOK',
         HookStep \/ QueueHoldoffElapses \/ ConnectionLost \/ UNCHANGED videoVars
  PROVE  VideoCountInv'
<1> DEFINE Hooked == /\ UNCHANGED <<enabled, profile, useVars, wanted>>
                     /\ plan' \in {"none", "connect", "stream"}
                     /\ live' \in BOOLEAN
                     /\ live' => open'
<1>1. /\ VideoTypeOK /\ LiveIsOpen /\ enabled \in BOOLEAN /\ live \in BOOLEAN
      /\ plan \in {"none", "connect", "stream"}
  BY DEF VideoCountInv, VideoTypeOK
<1>2. Hooked => VideoCountInv'
  BY <1>1 DEF VideoCountInv, VideoTypeOK, LiveIsOpen, VideoReason, OwnPoints, Counted, useVars
<1>3. CASE HookStep \/ QueueHoldoffElapses
  <2>1. wanted' = wanted
    BY <1>3, HookIsWorkerStep, LoopKeepsWanted
  <2>2. CASE StartReads \/ RunReads
    BY <1>1, <2>1, <2>2, <1>2 DEF StartReads, RunReads, Planned, CallWorkerStart, CallWorkerRun, LiveIsOpen
  <2>3. CASE StartFails \/ RunStalls \/ RunReturns
    BY <1>1, <2>1, <2>3, <1>2 DEF StartFails, RunStalls, RunReturns, WorkerStartFails, WorkerRunFails,
                                  WorkerRunReturns, LiveIsOpen
  <2>4. CASE StartEnds
    <3>1. live' = (live \/ plan = "stream") /\ open' = TRUE /\ plan' = "none"
          /\ UNCHANGED <<enabled, profile, useVars>>
      BY <2>4 DEF StartEnds, WorkerStartSucceeds
    <3> QED
      BY <1>1, <1>2, <2>1, <3>1
  <2>5. CASE StopEnds
    BY <1>1, <2>1, <2>5, <1>2 DEF StopEnds
  <2>6. CASE OtherLoopStep \/ QueueHoldoffElapses
    BY <1>1, <2>1, <2>6, <1>2
      DEF OtherLoopStep, QueueHoldoffElapses, LoopInit, TakeSnapshot, CheckLoopCtx, StopWorkerTo,
          Idle, BeginStart, LeaveRunning, CallWorkerStop, Elapse, LiveIsOpen, queueVars
  <2> QED
    BY <1>3, <2>2, <2>3, <2>4, <2>5, <2>6 DEF HookStep
<1>4. CASE ConnectionLost \/ UNCHANGED videoVars
  <2>1. UNCHANGED <<open, enabled, profile, useVars, wanted, plan>>
    BY <1>4 DEF ConnectionLost, videoVars, vars, queueVars
  <2>2. CASE ConnectionLost
    <3>1. ~live'
      BY <2>2 DEF ConnectionLost
    <3>2. live' \in BOOLEAN
      BY <2>2 DEF ConnectionLost
    <3> QED
      BY <1>1, <1>2, <2>1, <3>1, <3>2
  <2>3. CASE UNCHANGED videoVars
    <3>1. live' = live
      BY <2>3 DEF videoVars, queueVars
    <3>2. live' \in BOOLEAN /\ (live' => open')
      BY <1>1, <2>1, <3>1 DEF LiveIsOpen
    <3> QED
      BY <1>1, <1>2, <2>1, <3>2
  <2> QED
    BY <1>4, <2>2, <2>3
<1> QED
  BY <1>3, <1>4

LEMMA VideoStep == VideoCountInv /\ [VideoNext]_videoVars => VideoCountInv'
<1> SUFFICES ASSUME VideoCountInv, [VideoNext]_videoVars
             PROVE  VideoCountInv'
  OBVIOUS
<1>1. TypeOK'
  BY VideoWorkerStep, TypeStep DEF VideoCountInv, VideoTypeOK
<1> QED
  BY <1>1, UserContinues, UserBegins, HooksKeepCount DEF VideoNext

LEMMA VideoBegins == VideoInit => VideoCountInv
<1> SUFFICES ASSUME VideoInit
             PROVE  VideoCountInv
  OBVIOUS
<1>1. /\ user \in [Users -> Points] /\ \A c \in Users : user[c] \in {"away", "gone"}
  BY DEF VideoInit, Points
<1>2. Counted = {}
  BY <1>1 DEF Counted, Counts
<1>3. queueRefs = Cardinality(Counted) /\ queueRefs \in 0 .. Cardinality(Users)
  BY <1>2, CountedFinite, FS_EmptySet DEF VideoInit
<1>4. VideoTypeOK
  BY <1>1, <1>3, TypeInit DEF VideoInit, VideoTypeOK, Profiles
<1> QED
  BY <1>1, <1>3, <1>4 DEF VideoInit, Init, VideoCountInv, LiveIsOpen, VideoReason, OwnPoints

THEOREM VideoInvariant == VideoSpec => []VideoCountInv
<1>1. QED
  BY VideoBegins, VideoStep, PTL DEF VideoSpec

(* For any number of sockets, control messages and downloads: the printer  *)
(* streams only for a queue that is open, and a queue that nobody holds    *)
(* and whose video is disabled is not wanted once the calls have settled.  *)
THEOREM VideoIsSound == VideoSpec => []VideoInv
<1>1. VideoCountInv => NoVideoLeak
  <2> SUFFICES ASSUME VideoCountInv, UsersQuiet, queueRefs = 0, ~enabled, ~toggled
               PROVE  ~wanted
    BY DEF NoVideoLeak
  <2>1. Counted = {}
    BY CountedFinite, FS_EmptySet DEF VideoCountInv
  <2> QED
    BY <2>1 DEF VideoCountInv, VideoReason, IsReason, Counted, UsersQuiet
<1>2. VideoCountInv => VideoInv
  BY <1>1 DEF VideoCountInv, VideoInv
<1>3. QED
  BY <1>2, VideoInvariant, PTL

===============================================================================
