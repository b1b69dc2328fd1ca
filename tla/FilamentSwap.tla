----------------------------- MODULE FilamentSwap -----------------------------
(***************************************************************************)
(* internal/web/handler/filament_service.go: the filament swap.            *)
(*                                                                         *)
(* One package variable holds the swap in progress.  The handlers Start,   *)
(* Confirm and Cancel and the goroutines they leave behind share it under  *)
(* a mutex that each of them takes several times, so every critical        *)
(* section is a step.  A goroutine knows its swap by the token it was      *)
(* given, and heats and moves filament on the printer between the steps.   *)
(*                                                                         *)
(* A request and the goroutine it starts are one process here: after the   *)
(* go statement the handler only writes its response.                      *)
(***************************************************************************)
EXTENDS Naturals

CONSTANTS
  Starters,    \* the requests that may be inside SwapStart at a time
  Confirmers,  \* the requests that may be inside SwapConfirm at a time
  MaxSwaps,    \* bound: how many swaps are registered
  NoSwap       \* filamentSwapValue = nil

ASSUME ProcessAssumption  == Starters \cap Confirmers = {}
ASSUME MaxSwapsAssumption == MaxSwaps \in Nat

Processes    == Starters \union Confirmers
Tokens       == 1..MaxSwaps
Modes        == {"manual", "legacy"}
activePhases == {"heating_unload", "unloading", "heating_load", "loading"}
Phases       == activePhases \union {"await_manual_swap", "error"}
SwapStates   == [token : Tokens, mode : Modes, phase : Phases]

ASSUME NoSwapAssumption == NoSwap \notin SwapStates

VARIABLES
  swap,     \* filamentSwapValue
  process,  \* where each process is, and its local token and mode
  issued,   \* the last token made; tokens are random and never repeat
  moved     \* history: the tokens whose unload move has been sent

vars == <<swap, process, issued, moved>>

StagePoints ==
  { "launched",  \* goroutine started, has not looked at the swap yet
    "ready",     \* holds its copy, about to borrow the MQTT service
    "heating",   \* M104 to be sent, then waitForNozzle
    "moving",    \* the move is to be sent
    "moved" }    \* the move is sent, the outcome not yet recorded

Points == StagePoints \union
  { "away",       \* no request
    "checked",    \* Start: passed the conflict check
    "registered", \* Start: swap stored, MQTT to be borrowed
    "accepted",   \* Confirm: has copied the swap
    "confirmed" } \* Confirm: heating_load recorded, MQTT to be borrowed

Locals  == [at : Points, token : 0..MaxSwaps, mode : Modes]
Nowhere == [at |-> "away", token |-> 0, mode |-> "manual"]

TypeOK ==
  /\ swap \in SwapStates \union {NoSwap}
  /\ process \in [Processes -> Locals]
  /\ issued \in 0..MaxSwaps
  /\ moved \subseteq Tokens

Init ==
  /\ swap = NoSwap
  /\ process = [p \in Processes |-> Nowhere]
  /\ issued = 0
  /\ moved = {}

-------------------------------------------------------------------------------
At(p, points) == process[p].at \in points
Go(p, point)  == process' = [process EXCEPT ![p].at = point]
Leave(p)      == process' = [process EXCEPT ![p] = Nowhere]
Token(p)      == process[p].token
Mode(p)       == process[p].mode

swapTokenMatches(t) == swap # NoSwap /\ swap.token = t

(* Confirm and Cancel are refused while a stage is under way.              *)
Settled == swap # NoSwap /\ swap.phase \notin activePhases

(* A mutant: a goroutine writes its copy of the swap back.                 *)
WriteBackCopy(t, phase) == swap' = [token |-> t, mode |-> "legacy", phase |-> phase]

swapStateUpdate(t, phase) ==
  swap' = IF swapTokenMatches(t) THEN [swap EXCEPT !.phase = phase] ELSE swap

swapStateClear(t) ==
  swap' = IF swapTokenMatches(t) THEN NoSwap ELSE swap

-------------------------------------------------------------------------------
(* Mutants: bugs the actions below might have.                             *)

(* A failed stage is only logged.                                          *)
StageFailsSilently(p) ==
  /\ At(p, {"ready", "heating", "moving"})
  /\ Leave(p)
  /\ UNCHANGED <<swap, issued, moved>>

(* A Confirm that cannot launch the load leaves the phase it wrote.        *)
ConfirmFailsSilently(c) ==
  /\ At(c, {"confirmed"})
  /\ Leave(c)
  /\ UNCHANGED <<swap, issued, moved>>

(* Both goroutines end with a phase of their own.                          *)
StageEndsAsPhase(p) ==
  /\ At(p, {"moved"})
  /\ swapStateUpdate(Token(p), IF p \in Starters THEN "await_manual_swap" ELSE "done")
  /\ Leave(p)
  /\ UNCHANGED <<issued, moved>>

-------------------------------------------------------------------------------
(* SwapStart: check for a conflict, let the mutex go, store the new swap.  *)

StartChecks(s) ==
  /\ At(s, {"away"})
  /\ swap = NoSwap
  /\ \E mode \in Modes :
       process' = [process EXCEPT ![s] = [at |-> "checked", token |-> 0, mode |-> mode]]
  /\ UNCHANGED <<swap, issued, moved>>

StartRegisters(s) ==
  /\ At(s, {"checked"})
  /\ issued < MaxSwaps
  /\ issued' = issued + 1
  /\ swap' = [token |-> issued + 1, mode |-> Mode(s),
              phase |-> IF Mode(s) = "legacy" THEN "heating_unload"
                                              ELSE "await_manual_swap"]
  /\ process' = [process EXCEPT ![s] = [at |-> "registered", token |-> issued + 1,
                                        mode |-> Mode(s)]]
  /\ UNCHANGED moved

(* The MQTT service is not there, not ready, or the preheat is not sent.   *)
StartAbandons(s) ==
  /\ At(s, {"registered"})
  /\ swapStateClear(Token(s))
  /\ Leave(s)
  /\ UNCHANGED <<issued, moved>>

(* Manual mode ends with the preheat; legacy mode launches the unload.     *)
StartContinues(s) ==
  /\ At(s, {"registered"})
  /\ IF Mode(s) = "legacy" THEN Go(s, "launched") ELSE Leave(s)
  /\ UNCHANGED <<swap, issued, moved>>

-------------------------------------------------------------------------------
(* SwapConfirm: copy the swap, let the mutex go, act on the copy.          *)

ConfirmAccepts(c) ==
  /\ At(c, {"away"})
  /\ Settled
  /\ process' = [process EXCEPT ![c] = [at |-> "accepted", token |-> swap.token,
                                        mode |-> swap.mode]]
  /\ UNCHANGED <<swap, issued, moved>>

ConfirmManual(c) ==
  /\ At(c, {"accepted"})
  /\ Mode(c) = "manual"
  /\ swapStateClear(Token(c))
  /\ Leave(c)
  /\ UNCHANGED <<issued, moved>>

ConfirmLegacy(c) ==
  /\ At(c, {"accepted"})
  /\ Mode(c) = "legacy"
  /\ swapStateUpdate(Token(c), "heating_load")
  /\ Go(c, "confirmed")
  /\ UNCHANGED <<issued, moved>>

ConfirmFails(c) ==
  /\ At(c, {"confirmed"})
  /\ swapStateUpdate(Token(c), "error")
  /\ Leave(c)
  /\ UNCHANGED <<issued, moved>>

ConfirmLaunches(c) ==
  /\ At(c, {"confirmed"})
  /\ Go(c, "launched")
  /\ UNCHANGED <<swap, issued, moved>>

(* SwapCancel is one critical section.                                     *)
Cancel ==
  /\ Settled
  /\ swap' = NoSwap
  /\ UNCHANGED <<process, issued, moved>>

-------------------------------------------------------------------------------
(* The two goroutines, runLegacySwapUnload of a Start and                  *)
(* runLegacySwapLoad of a Confirm, differ in their phases and their end.   *)

HeatingPhase(p) == IF p \in Starters THEN "heating_unload" ELSE "heating_load"
MovingPhase(p)  == IF p \in Starters THEN "unloading" ELSE "loading"

StageBegins(p) ==
  /\ At(p, {"launched"})
  /\ IF swapTokenMatches(Token(p)) THEN Go(p, "ready") ELSE Leave(p)
  /\ UNCHANGED <<swap, issued, moved>>

(* MQTT not available, a command not sent, or the nozzle not hot in time.  *)
StageFails(p) ==
  /\ At(p, {"ready", "heating", "moving"})
  /\ swapStateUpdate(Token(p), "error")
  /\ Leave(p)
  /\ UNCHANGED <<issued, moved>>

StageHeats(p) ==
  /\ At(p, {"ready"})
  /\ swapStateUpdate(Token(p), HeatingPhase(p))
  /\ Go(p, "heating")
  /\ UNCHANGED <<issued, moved>>

(* The nozzle was hot already, or has become hot.                          *)
StageIsHot(p) ==
  /\ At(p, {"ready", "heating"})
  /\ swapStateUpdate(Token(p), MovingPhase(p))
  /\ Go(p, "moving")
  /\ UNCHANGED <<issued, moved>>

StageMoves(p) ==
  /\ At(p, {"moving"})
  /\ Go(p, "moved")
  /\ moved' = IF p \in Starters THEN moved \union {Token(p)} ELSE moved
  /\ UNCHANGED <<swap, issued>>

StageEnds(p) ==
  /\ At(p, {"moved"})
  /\ IF p \in Starters THEN swapStateUpdate(Token(p), "await_manual_swap")
                       ELSE swapStateClear(Token(p))
  /\ Leave(p)
  /\ UNCHANGED <<issued, moved>>

StageStep(p) ==
  \/ StageBegins(p)
  \/ StageFails(p)
  \/ StageHeats(p)
  \/ StageIsHot(p)
  \/ StageMoves(p)
  \/ StageEnds(p)

StartStep(s)   == StartRegisters(s) \/ StartAbandons(s) \/ StartContinues(s)
ConfirmStep(c) == \/ ConfirmManual(c)
                  \/ ConfirmLegacy(c)
                  \/ ConfirmFails(c)
                  \/ ConfirmLaunches(c)

Next ==
  \/ \E s \in Starters   : StartChecks(s) \/ StartStep(s)
  \/ \E c \in Confirmers : ConfirmAccepts(c) \/ ConfirmStep(c)
  \/ \E p \in Processes  : StageStep(p)
  \/ Cancel

(* A request that has begun and a goroutine that was started go on: a      *)
(* publish ends with the broker's answer or with the connection (there is  *)
(* no automatic reconnect), and waitForNozzle gives up after 240 s.        *)
(* Nobody is forced to send a request.                                     *)
Fairness ==
  /\ \A s \in Starters   : WF_vars(StartStep(s))
  /\ \A c \in Confirmers : WF_vars(ConfirmStep(c))
  /\ \A p \in Processes  : WF_vars(StageStep(p))

Spec     == Init /\ [][Next]_vars
FairSpec == Spec /\ Fairness
-------------------------------------------------------------------------------
InStage(p) == At(p, StagePoints)
Busy(p)    == ~At(p, {"away", "checked"})

(* The printer is never told to load the filament of a swap while the      *)
(* goroutine that unloads it is still at work, in whatever order the       *)
(* requests and the failures come: two moves of one swap in opposite       *)
(* directions would grind the filament.                                    *)
NoLoadDuringUnload ==
  \A s \in Starters, c \in Confirmers :
    InStage(s) /\ InStage(c) => Token(s) # Token(c)

(* A phase that blocks Confirm, Cancel and every new Start has somebody at *)
(* work who will leave it: no failure path forgets to record the error,    *)
(* or the swap could never be finished, cancelled or started again.        *)
ActivePhaseHasWorker ==
  swap # NoSwap /\ swap.phase \in activePhases =>
    \E p \in Processes : Busy(p) /\ Token(p) = swap.token

(* "Unload finished" is only shown when the unload move was sent, and a    *)
(* legacy swap only waits for the user's hands then.                       *)
AwaitAfterUnload ==
  swap # NoSwap /\ swap.mode = "legacy" /\ swap.phase = "await_manual_swap"
    => swap.token \in moved

(* What the three say together: a swap is handled in order and by one.     *)
SwapIsOrderly == NoLoadDuringUnload /\ ActivePhaseHasWorker /\ AwaitAfterUnload

(* A finished, cancelled or replaced swap does not come back: the late     *)
(* write of a goroutine that still works for it changes nothing.           *)
NoResurrection ==
  [][ swap' # NoSwap => \/ swapTokenMatches(swap'.token)
                        \/ swap'.token > issued ]_vars

(* Every active phase ends: the swap is gone, replaced, or open to Confirm *)
(* and Cancel again.                                                       *)
ActivePhaseEnds ==
  \A t \in Tokens :
    (swapTokenMatches(t) /\ ~Settled) ~> (~swapTokenMatches(t) \/ Settled)

(* filament_service.go:742, "only one swap in progress at a time": storing *)
(* a swap does not replace another.                                        *)
OneSwapAtATime ==
  [][ swap # NoSwap /\ swap' # NoSwap => swap'.token = swap.token ]_vars
===============================================================================
