------------------------- MODULE FilamentSwapProofs -------------------------
(***************************************************************************)
(* The filament swap, proved for any number of concurrent requests.  The   *)
(* conflict check of SwapStart does not keep swaps apart, so the argument  *)
(* goes by token: of the swap a process holds the token of, it knows the   *)
(* mode, and while its unload is under way nobody else knows the token.    *)
(***************************************************************************)
EXTENDS FilamentSwap, TLAPS

(* Where the processes of each kind can be, and that a process has a token *)
(* exactly while it works for a swap.                                      *)
PointsInv ==
  /\ \A s \in Starters   : ~At(s, {"accepted", "confirmed"})
  /\ \A c \in Confirmers : ~At(c, {"checked", "registered"})
  /\ \A p \in Processes  : Token(p) <= issued
  /\ \A p \in Processes  : Busy(p) <=> Token(p) # 0
  /\ \A p \in Processes  : InStage(p) \/ At(p, {"confirmed"}) => Mode(p) = "legacy"

(* Tokens are fresh, and what a process remembers of a swap is true of it. *)
TokenInv ==
  /\ swap # NoSwap => swap.token <= issued
  /\ \A s, r \in Starters : Busy(s) /\ Token(s) = Token(r) => s = r
  /\ \A p \in Processes : Busy(p) /\ swapTokenMatches(Token(p)) => Mode(p) = swap.mode

(* A manual swap only waits.  A legacy swap whose Start is not done is     *)
(* being unloaded, so no Confirm has been accepted for it.                 *)
UnloadInv ==
  /\ swap # NoSwap /\ swap.mode = "manual" => swap.phase = "await_manual_swap"
  /\ \A s \in Starters : Busy(s) /\ Mode(s) = "legacy" /\ swapTokenMatches(Token(s))
       => swap.phase \in {"heating_unload", "unloading"}
  /\ \A s \in Starters, c \in Confirmers :
       Busy(s) /\ Mode(s) = "legacy" /\ Mode(c) = "legacy" => Token(s) # Token(c)
  /\ \A s \in Starters : At(s, {"moved"}) => Token(s) \in moved

SwapInv ==
  /\ TypeOK
  /\ PointsInv
  /\ TokenInv
  /\ UnloadInv
  /\ ActivePhaseHasWorker
  /\ AwaitAfterUnload

-----------------------------------------------------------------------------
LEMMA SwapTypeInit == Init => TypeOK
BY MaxSwapsAssumption DEF Init, TypeOK, Nowhere, Locals, Points, StagePoints, Modes

(* What the two writes of a goroutine may do to the swap.                  *)
LEMMA UpdateType ==
  ASSUME swap \in SwapStates \union {NoSwap}, NEW t, NEW phase \in Phases,
         swapStateUpdate(t, phase)
  PROVE  /\ swap' \in SwapStates \union {NoSwap}
         /\ swapTokenMatches(t) =>
              /\ swap' # NoSwap
              /\ swap'.token = swap.token
              /\ swap'.mode = swap.mode
              /\ swap'.phase = phase
         /\ ~swapTokenMatches(t) => swap' = swap
<1>1. CASE swapTokenMatches(t)
  <2>1. swap \in SwapStates
    BY <1>1 DEF swapTokenMatches
  <2>2. swap' = [swap EXCEPT !.phase = phase]
    BY <1>1 DEF swapStateUpdate
  <2>3. swap' \in SwapStates
    BY <2>1, <2>2 DEF SwapStates
  <2> QED
    BY <1>1, <2>1, <2>2, <2>3, NoSwapAssumption DEF SwapStates
<1>2. CASE ~swapTokenMatches(t)
  BY <1>2 DEF swapStateUpdate
<1> QED
  BY <1>1, <1>2

LEMMA ClearType ==
  ASSUME swap \in SwapStates \union {NoSwap}, NEW t, swapStateClear(t)
  PROVE  /\ swap' \in SwapStates \union {NoSwap}
         /\ swapTokenMatches(t) => swap' = NoSwap
         /\ ~swapTokenMatches(t) => swap' = swap
BY DEF swapStateClear

LEMMA SwapInvInit == Init => SwapInv
<1> SUFFICES ASSUME Init PROVE SwapInv
  OBVIOUS
<1>1. TypeOK
  BY SwapTypeInit
<1>2. \A p \in Processes : At(p, {"away"}) /\ Token(p) = 0
  BY DEF Init, Nowhere, At, Token
<1>3. PointsInv
  BY <1>2 DEF PointsInv, Processes, At, Token, Busy, InStage, StagePoints, Init
<1>4. TokenInv /\ UnloadInv
  BY <1>2 DEF TokenInv, UnloadInv, Processes, At, Token, Busy, swapTokenMatches, Init
<1> QED
  BY <1>1, <1>3, <1>4 DEF SwapInv, ActivePhaseHasWorker, AwaitAfterUnload, Init

(***************************************************************************)
(* One lemma per action, and under it one step per conjunct.               *)
(***************************************************************************)

LEMMA StartChecksKeeps ==
  ASSUME SwapInv, NEW s \in Starters, StartChecks(s)
  PROVE  SwapInv'
<1>0. s \in Processes
  BY DEF Processes
<1>1. TypeOK'
  BY <1>0, MaxSwapsAssumption DEF SwapInv, TypeOK, StartChecks, Locals, Points
<1>2. PointsInv'
  BY <1>0, ProcessAssumption DEF SwapInv, PointsInv, TypeOK, StartChecks,
      StagePoints, At, Token, Mode, Busy, InStage
<1>3. TokenInv'
  BY <1>0 DEF SwapInv, PointsInv, TokenInv, TypeOK, StartChecks, At, Token,
      Busy, swapTokenMatches
<1>4. UnloadInv'
  BY <1>0, ProcessAssumption DEF SwapInv, UnloadInv, TypeOK, StartChecks, At,
      Token, Mode, Busy, swapTokenMatches
<1>5. ActivePhaseHasWorker'
  BY <1>0 DEF SwapInv, ActivePhaseHasWorker, TypeOK, StartChecks
<1>6. AwaitAfterUnload'
  BY <1>0 DEF SwapInv, AwaitAfterUnload, TypeOK, StartChecks
<1> QED
  BY <1>1, <1>2, <1>3, <1>4, <1>5, <1>6 DEF SwapInv

LEMMA StartRegistersKeeps ==
  ASSUME SwapInv, NEW s \in Starters, StartRegisters(s)
  PROVE  SwapInv'
<1>0. s \in Processes
  BY DEF Processes
<1>1. TypeOK'
  BY <1>0, MaxSwapsAssumption DEF SwapInv, TypeOK, StartRegisters, Locals,
      Points, Phases, activePhases, SwapStates, Tokens, Mode
<1>2. PointsInv'
  BY <1>0 DEF SwapInv, PointsInv, TypeOK, StartRegisters, Locals, StagePoints,
      At, Token, Mode, Busy, InStage
<1>3. TokenInv'
  BY <1>0 DEF SwapInv, PointsInv, TokenInv, TypeOK, StartRegisters, At, Token,
      Mode, Busy, swapTokenMatches, Processes
<1>4. UnloadInv'
  BY <1>0 DEF SwapInv, PointsInv, UnloadInv, TypeOK, StartRegisters, At, Token,
      Mode, Busy, swapTokenMatches, Processes
<1>5. ActivePhaseHasWorker'
  BY <1>0 DEF SwapInv, ActivePhaseHasWorker, TypeOK, StartRegisters, At, Token,
      Busy
<1>6. AwaitAfterUnload'
  BY <1>0 DEF SwapInv, AwaitAfterUnload, TypeOK, StartRegisters
<1> QED
  BY <1>1, <1>2, <1>3, <1>4, <1>5, <1>6 DEF SwapInv

LEMMA StartAbandonsKeeps ==
  ASSUME SwapInv, NEW s \in Starters, StartAbandons(s)
  PROVE  SwapInv'
<1>0. s \in Processes
  BY DEF Processes
<1>1. TypeOK'
  BY <1>0, ClearType, MaxSwapsAssumption DEF SwapInv, TypeOK, StartAbandons,
      Leave, Nowhere, Locals, Points, Modes
<1>2. PointsInv'
  BY <1>0 DEF SwapInv, PointsInv, TypeOK, StartAbandons, Leave, Nowhere,
      StagePoints, At, Token, Mode, Busy, InStage
<1>3. TokenInv'
  BY <1>0, ClearType DEF SwapInv, PointsInv, TokenInv, TypeOK, StartAbandons,
      Leave, Nowhere, At, Token, Mode, Busy, swapTokenMatches, Processes
<1>4. UnloadInv'
  BY <1>0, ClearType DEF SwapInv, UnloadInv, TypeOK, StartAbandons, Leave,
      Nowhere, At, Token, Mode, Busy, swapTokenMatches
<1>5. ActivePhaseHasWorker'
  BY <1>0, ClearType DEF SwapInv, ActivePhaseHasWorker, TypeOK, StartAbandons,
      Leave, At, Token, Busy, swapTokenMatches
<1>6. AwaitAfterUnload'
  BY <1>0, ClearType DEF SwapInv, AwaitAfterUnload, TypeOK, StartAbandons
<1> QED
  BY <1>1, <1>2, <1>3, <1>4, <1>5, <1>6 DEF SwapInv

LEMMA StartContinuesKeeps ==
  ASSUME SwapInv, NEW s \in Starters, StartContinues(s)
  PROVE  SwapInv'
<1>0. s \in Processes
  BY DEF Processes
<1>1. TypeOK'
  BY <1>0, MaxSwapsAssumption DEF SwapInv, TypeOK, StartContinues, Go, Leave,
      Nowhere, Locals, Points, StagePoints, Modes
<1>2. PointsInv'
  BY <1>0 DEF SwapInv, PointsInv, TypeOK, StartContinues, Go, Leave, Nowhere,
      Locals, StagePoints, At, Token, Mode, Busy, InStage, Processes
<1>3. TokenInv'
  BY <1>0 DEF SwapInv, PointsInv, TokenInv, TypeOK, StartContinues, Go, Leave,
      Nowhere, Locals, At, Token, Mode, Busy, swapTokenMatches, Processes
<1>4. UnloadInv'
  BY <1>0 DEF SwapInv, UnloadInv, TypeOK, StartContinues, Go, Leave, Nowhere,
      Locals, At, Token, Mode, Busy, swapTokenMatches, Processes
<1>5. ActivePhaseHasWorker'
  BY <1>0 DEF SwapInv, TokenInv, UnloadInv, ActivePhaseHasWorker, TypeOK,
      StartContinues, Go, Leave, Locals, Modes, activePhases, At, Token, Mode,
      Busy, swapTokenMatches
<1>6. AwaitAfterUnload'
  BY <1>0 DEF SwapInv, AwaitAfterUnload, TypeOK, StartContinues
<1> QED
  BY <1>1, <1>2, <1>3, <1>4, <1>5, <1>6 DEF SwapInv

LEMMA ConfirmAcceptsKeeps ==
  ASSUME SwapInv, NEW c \in Confirmers, ConfirmAccepts(c)
  PROVE  SwapInv'
<1>0. c \in Processes
  BY DEF Processes
<1>1. TypeOK'
  BY <1>0 DEF SwapInv, TypeOK, ConfirmAccepts, Locals, Points, SwapStates,
      Tokens, Settled
<1>2. PointsInv'
  BY <1>0, ProcessAssumption DEF SwapInv, PointsInv, TokenInv, TypeOK,
      ConfirmAccepts, StagePoints, SwapStates, Tokens, At, Token, Mode, Busy,
      InStage, Settled
<1>3. TokenInv'
  BY <1>0, ProcessAssumption DEF SwapInv, TokenInv, TypeOK, ConfirmAccepts, At,
      Token, Mode, Busy, swapTokenMatches
<1>4. UnloadInv'
  BY <1>0, ProcessAssumption DEF SwapInv, UnloadInv, TypeOK, ConfirmAccepts,
      activePhases, At, Token, Mode, Busy, swapTokenMatches, Settled
<1>5. ActivePhaseHasWorker'
  BY <1>0 DEF SwapInv, ActivePhaseHasWorker, TypeOK, ConfirmAccepts, Settled
<1>6. AwaitAfterUnload'
  BY <1>0 DEF SwapInv, AwaitAfterUnload, TypeOK, ConfirmAccepts
<1> QED
  BY <1>1, <1>2, <1>3, <1>4, <1>5, <1>6 DEF SwapInv

LEMMA ConfirmManualKeeps ==
  ASSUME SwapInv, NEW c \in Confirmers, ConfirmManual(c)
  PROVE  SwapInv'
<1>0. c \in Processes
  BY DEF Processes
<1>1. TypeOK'
  BY <1>0, ClearType, MaxSwapsAssumption DEF SwapInv, TypeOK, ConfirmManual,
      Leave, Nowhere, Locals, Points, Mode
<1>2. PointsInv'
  BY <1>0 DEF SwapInv, PointsInv, TypeOK, ConfirmManual, Leave, Nowhere,
      StagePoints, At, Token, Mode, Busy, InStage
<1>3. TokenInv'
  BY <1>0, ClearType, ProcessAssumption DEF SwapInv, TokenInv, TypeOK,
      ConfirmManual, Leave, Nowhere, At, Token, Mode, Busy, swapTokenMatches
<1>4. UnloadInv'
  BY <1>0, ClearType DEF SwapInv, UnloadInv, TypeOK, ConfirmManual, Leave,
      Nowhere, At, Token, Mode, Busy, swapTokenMatches
<1>5. ActivePhaseHasWorker'
  BY <1>0, ClearType DEF SwapInv, ActivePhaseHasWorker, TypeOK, ConfirmManual,
      Leave, At, Token, Busy, swapTokenMatches
<1>6. AwaitAfterUnload'
  BY <1>0, ClearType DEF SwapInv, AwaitAfterUnload, TypeOK, ConfirmManual
<1> QED
  BY <1>1, <1>2, <1>3, <1>4, <1>5, <1>6 DEF SwapInv

LEMMA ConfirmLegacyKeeps ==
  ASSUME SwapInv, NEW c \in Confirmers, ConfirmLegacy(c)
  PROVE  SwapInv'
<1>0. c \in Processes
  BY DEF Processes
<1>1. TypeOK'
  BY <1>0, UpdateType DEF SwapInv, TypeOK, ConfirmLegacy, Go, Locals, Points,
      Phases, activePhases
<1>2. PointsInv'
  BY <1>0 DEF SwapInv, PointsInv, TypeOK, ConfirmLegacy, Go, At, Token, Mode,
      Busy, InStage
<1>3. TokenInv'
  BY <1>0, UpdateType DEF SwapInv, TokenInv, TypeOK, ConfirmLegacy, Go, Phases,
      activePhases, At, Token, Mode, Busy, swapTokenMatches
<1>4. UnloadInv'
  BY <1>0, UpdateType DEF SwapInv, TokenInv, UnloadInv, TypeOK, ConfirmLegacy,
      Go, Phases, activePhases, At, Token, Mode, Busy, swapTokenMatches
<1>5. ActivePhaseHasWorker'
  BY <1>0, UpdateType DEF SwapInv, ActivePhaseHasWorker, TypeOK, ConfirmLegacy,
      Go, Phases, activePhases, At, Token, Busy, swapTokenMatches
<1>6. AwaitAfterUnload'
  BY <1>0, UpdateType DEF SwapInv, AwaitAfterUnload, TypeOK, ConfirmLegacy,
      Phases, activePhases
<1> QED
  BY <1>1, <1>2, <1>3, <1>4, <1>5, <1>6 DEF SwapInv

LEMMA ConfirmFailsKeeps ==
  ASSUME SwapInv, NEW c \in Confirmers, ConfirmFails(c)
  PROVE  SwapInv'
<1>0. c \in Processes
  BY DEF Processes
<1>1. TypeOK'
  BY <1>0, UpdateType, MaxSwapsAssumption DEF SwapInv, TypeOK, ConfirmFails,
      Leave, Nowhere, Locals, Points, Modes, Phases
<1>2. PointsInv'
  BY <1>0 DEF SwapInv, PointsInv, TypeOK, ConfirmFails, Leave, Nowhere,
      StagePoints, At, Token, Mode, Busy, InStage
<1>3. TokenInv'
  BY <1>0, UpdateType, ProcessAssumption DEF SwapInv, TokenInv, TypeOK,
      ConfirmFails, Leave, Nowhere, Phases, At, Token, Mode, Busy,
      swapTokenMatches
<1>4. UnloadInv'
  BY <1>0, UpdateType DEF SwapInv, PointsInv, TokenInv, UnloadInv, TypeOK,
      ConfirmFails, Leave, Nowhere, Phases, At, Token, Mode, Busy,
      swapTokenMatches
<1>5. ActivePhaseHasWorker'
  BY <1>0, UpdateType DEF SwapInv, ActivePhaseHasWorker, TypeOK, ConfirmFails,
      Leave, Phases, activePhases, At, Token, Busy, swapTokenMatches
<1>6. AwaitAfterUnload'
  BY <1>0, UpdateType DEF SwapInv, AwaitAfterUnload, TypeOK, ConfirmFails,
      Phases
<1> QED
  BY <1>1, <1>2, <1>3, <1>4, <1>5, <1>6 DEF SwapInv

LEMMA ConfirmLaunchesKeeps ==
  ASSUME SwapInv, NEW c \in Confirmers, ConfirmLaunches(c)
  PROVE  SwapInv'
<1>0. c \in Processes
  BY DEF Processes
<1>1. TypeOK'
  BY <1>0 DEF SwapInv, TypeOK, ConfirmLaunches, Go, Locals, Points, StagePoints
<1>2. PointsInv'
  BY <1>0 DEF SwapInv, PointsInv, TypeOK, ConfirmLaunches, Go, At, Token, Mode,
      Busy, InStage
<1>3. TokenInv'
  BY <1>0 DEF SwapInv, TokenInv, TypeOK, ConfirmLaunches, Go, At, Token, Mode,
      Busy, swapTokenMatches
<1>4. UnloadInv'
  BY <1>0 DEF SwapInv, UnloadInv, TypeOK, ConfirmLaunches, Go, At, Token, Mode,
      Busy, swapTokenMatches
<1>5. ActivePhaseHasWorker'
  BY <1>0 DEF SwapInv, ActivePhaseHasWorker, TypeOK, ConfirmLaunches, Go, At,
      Token, Busy
<1>6. AwaitAfterUnload'
  BY <1>0 DEF SwapInv, AwaitAfterUnload, TypeOK, ConfirmLaunches
<1> QED
  BY <1>1, <1>2, <1>3, <1>4, <1>5, <1>6 DEF SwapInv

LEMMA StageBeginsKeeps ==
  ASSUME SwapInv, NEW p \in Processes, StageBegins(p)
  PROVE  SwapInv'
<1>0. p \in Processes
  BY DEF Processes
<1>1. TypeOK'
  BY <1>0, MaxSwapsAssumption DEF SwapInv, TypeOK, StageBegins, Go, Leave,
      Nowhere, Locals, Points, StagePoints, Modes
<1>2. PointsInv'
  BY <1>0 DEF SwapInv, PointsInv, TypeOK, StageBegins, Go, Leave, Nowhere,
      Locals, StagePoints, At, Token, Mode, Busy, InStage, Processes
<1>3. TokenInv'
  BY <1>0 DEF SwapInv, PointsInv, TokenInv, TypeOK, StageBegins, Go, Leave,
      Nowhere, Locals, At, Token, Mode, Busy, swapTokenMatches, Processes
<1>4. UnloadInv'
  BY <1>0 DEF SwapInv, UnloadInv, TypeOK, StageBegins, Go, Leave, Nowhere,
      Locals, At, Token, Mode, Busy, swapTokenMatches, Processes
<1>5. ActivePhaseHasWorker'
  BY <1>0 DEF SwapInv, ActivePhaseHasWorker, TypeOK, StageBegins, Go, Leave,
      Locals, At, Token, Busy, swapTokenMatches
<1>6. AwaitAfterUnload'
  BY <1>0 DEF SwapInv, AwaitAfterUnload, TypeOK, StageBegins
<1> QED
  BY <1>1, <1>2, <1>3, <1>4, <1>5, <1>6 DEF SwapInv

LEMMA StageFailsKeeps ==
  ASSUME SwapInv, NEW p \in Processes, StageFails(p)
  PROVE  SwapInv'
<1>0. p \in Processes
  BY DEF Processes
<1>1. TypeOK'
  BY <1>0, UpdateType, MaxSwapsAssumption DEF SwapInv, TypeOK, StageFails,
      Leave, Nowhere, Locals, Points, Modes, Phases
<1>2. PointsInv'
  BY <1>0 DEF SwapInv, PointsInv, TypeOK, StageFails, Leave, Nowhere,
      StagePoints, At, Token, Mode, Busy, InStage
<1>3. TokenInv'
  BY <1>0, UpdateType DEF SwapInv, PointsInv, TokenInv, TypeOK, StageFails,
      Leave, Nowhere, Phases, At, Token, Mode, Busy, swapTokenMatches,
      Processes
<1>4. UnloadInv'
  BY <1>0, UpdateType DEF SwapInv, PointsInv, TokenInv, UnloadInv, TypeOK,
      StageFails, Leave, Nowhere, StagePoints, Phases, At, Token, Mode, Busy,
      InStage, swapTokenMatches, Processes
<1>5. ActivePhaseHasWorker'
  BY <1>0, UpdateType DEF SwapInv, ActivePhaseHasWorker, TypeOK, StageFails,
      Leave, Phases, activePhases, At, Token, Busy, swapTokenMatches
<1>6. AwaitAfterUnload'
  BY <1>0, UpdateType DEF SwapInv, AwaitAfterUnload, TypeOK, StageFails, Phases
<1> QED
  BY <1>1, <1>2, <1>3, <1>4, <1>5, <1>6 DEF SwapInv

LEMMA StageHeatsKeeps ==
  ASSUME SwapInv, NEW p \in Processes, StageHeats(p)
  PROVE  SwapInv'
<1>0. p \in Processes
  BY DEF Processes
<1>1. TypeOK'
  BY <1>0, UpdateType DEF SwapInv, TypeOK, StageHeats, Go, Locals, Points,
      StagePoints, Phases, activePhases, HeatingPhase
<1>2. PointsInv'
  BY <1>0 DEF SwapInv, PointsInv, TypeOK, StageHeats, Go, StagePoints, At,
      Token, Mode, Busy, InStage
<1>3. TokenInv'
  BY <1>0, UpdateType DEF SwapInv, TokenInv, TypeOK, StageHeats, Go, Phases,
      activePhases, HeatingPhase, At, Token, Mode, Busy, swapTokenMatches
<1>4. UnloadInv'
  BY <1>0, UpdateType DEF SwapInv, PointsInv, TokenInv, UnloadInv, TypeOK,
      StageHeats, Go, StagePoints, Phases, activePhases, HeatingPhase, At,
      Token, Mode, Busy, InStage, swapTokenMatches, Processes
<1>5. ActivePhaseHasWorker'
  BY <1>0, UpdateType DEF SwapInv, ActivePhaseHasWorker, TypeOK, StageHeats,
      Go, Phases, activePhases, HeatingPhase, At, Token, Busy, swapTokenMatches
<1>6. AwaitAfterUnload'
  BY <1>0, UpdateType DEF SwapInv, AwaitAfterUnload, TypeOK, StageHeats,
      Phases, activePhases, HeatingPhase
<1> QED
  BY <1>1, <1>2, <1>3, <1>4, <1>5, <1>6 DEF SwapInv

LEMMA StageIsHotKeeps ==
  ASSUME SwapInv, NEW p \in Processes, StageIsHot(p)
  PROVE  SwapInv'
<1>0. p \in Processes
  BY DEF Processes
<1>1. TypeOK'
  BY <1>0, UpdateType DEF SwapInv, TypeOK, StageIsHot, Go, Locals, Points,
      StagePoints, Phases, activePhases, MovingPhase
<1>2. PointsInv'
  BY <1>0 DEF SwapInv, PointsInv, TypeOK, StageIsHot, Go, StagePoints, At,
      Token, Mode, Busy, InStage
<1>3. TokenInv'
  BY <1>0, UpdateType DEF SwapInv, TokenInv, TypeOK, StageIsHot, Go, Phases,
      activePhases, MovingPhase, At, Token, Mode, Busy, swapTokenMatches
<1>4. UnloadInv'
  BY <1>0, UpdateType DEF SwapInv, PointsInv, TokenInv, UnloadInv, TypeOK,
      StageIsHot, Go, StagePoints, Phases, activePhases, MovingPhase, At,
      Token, Mode, Busy, InStage, swapTokenMatches, Processes
<1>5. ActivePhaseHasWorker'
  BY <1>0, UpdateType DEF SwapInv, ActivePhaseHasWorker, TypeOK, StageIsHot,
      Go, Phases, activePhases, MovingPhase, At, Token, Busy, swapTokenMatches
<1>6. AwaitAfterUnload'
  BY <1>0, UpdateType DEF SwapInv, AwaitAfterUnload, TypeOK, StageIsHot,
      Phases, activePhases, MovingPhase
<1> QED
  BY <1>1, <1>2, <1>3, <1>4, <1>5, <1>6 DEF SwapInv

LEMMA StageMovesKeeps ==
  ASSUME SwapInv, NEW p \in Processes, StageMoves(p)
  PROVE  SwapInv'
<1>0. p \in Processes
  BY DEF Processes
<1>1. TypeOK'
  BY <1>0 DEF SwapInv, PointsInv, TypeOK, StageMoves, Go, Locals, Points,
      StagePoints, Tokens, At, Token, Busy
<1>2. PointsInv'
  BY <1>0 DEF SwapInv, PointsInv, TypeOK, StageMoves, Go, StagePoints, At,
      Token, Mode, Busy, InStage
<1>3. TokenInv'
  BY <1>0 DEF SwapInv, TokenInv, TypeOK, StageMoves, Go, At, Token, Mode, Busy,
      swapTokenMatches
<1>4. UnloadInv'
  BY <1>0 DEF SwapInv, UnloadInv, TypeOK, StageMoves, Go, At, Token, Mode,
      Busy, swapTokenMatches
<1>5. ActivePhaseHasWorker'
  BY <1>0 DEF SwapInv, ActivePhaseHasWorker, TypeOK, StageMoves, Go, At, Token,
      Busy
<1>6. AwaitAfterUnload'
  BY <1>0 DEF SwapInv, AwaitAfterUnload, TypeOK, StageMoves
<1> QED
  BY <1>1, <1>2, <1>3, <1>4, <1>5, <1>6 DEF SwapInv

LEMMA StageEndsKeeps ==
  ASSUME SwapInv, NEW p \in Processes, StageEnds(p)
  PROVE  SwapInv'
<1>0. p \in Processes
  BY DEF Processes
<1>1. TypeOK'
  BY <1>0, UpdateType, ClearType, MaxSwapsAssumption DEF SwapInv, TypeOK,
      StageEnds, Leave, Nowhere, Locals, Points, Modes, Phases
<1>2. PointsInv'
  BY <1>0 DEF SwapInv, PointsInv, TypeOK, StageEnds, Leave, Nowhere,
      StagePoints, At, Token, Mode, Busy, InStage
<1>3. TokenInv'
  BY <1>0, UpdateType, ClearType DEF SwapInv, PointsInv, TokenInv, TypeOK,
      StageEnds, Leave, Nowhere, Phases, At, Token, Mode, Busy,
      swapTokenMatches, Processes
<1>4. UnloadInv'
  BY <1>0, UpdateType, ClearType DEF SwapInv, TokenInv, UnloadInv, TypeOK,
      StageEnds, Leave, Nowhere, Phases, At, Token, Mode, Busy,
      swapTokenMatches
<1>5. ActivePhaseHasWorker'
  BY <1>0, UpdateType, ClearType DEF SwapInv, ActivePhaseHasWorker, TypeOK,
      StageEnds, Leave, Phases, activePhases, At, Token, Busy, swapTokenMatches
<1>6. AwaitAfterUnload'
  BY <1>0, <1>1, UpdateType, ClearType DEF SwapInv, UnloadInv,
      AwaitAfterUnload, TypeOK, StageEnds, SwapStates, swapTokenMatches
<1> QED
  BY <1>1, <1>2, <1>3, <1>4, <1>5, <1>6 DEF SwapInv

LEMMA CancelKeeps == SwapInv /\ Cancel => SwapInv'
<1> SUFFICES ASSUME SwapInv, Cancel PROVE SwapInv'
  OBVIOUS
<1>1. swap' = NoSwap /\ UNCHANGED <<process, issued, moved>>
  BY DEF Cancel
<1>2. TypeOK'
  BY <1>1 DEF SwapInv, TypeOK
<1>3. PointsInv'
  BY <1>1 DEF SwapInv, PointsInv, At, Token, Mode, Busy, InStage
<1>4. TokenInv'
  BY <1>1 DEF SwapInv, TokenInv, At, Token, Mode, Busy, swapTokenMatches
<1>5. UnloadInv'
  BY <1>1 DEF SwapInv, UnloadInv, At, Token, Mode, Busy, swapTokenMatches
<1>6. ActivePhaseHasWorker' /\ AwaitAfterUnload'
  BY <1>1 DEF ActivePhaseHasWorker, AwaitAfterUnload
<1> QED
  BY <1>2, <1>3, <1>4, <1>5, <1>6 DEF SwapInv

LEMMA SwapStep == SwapInv /\ [Next]_vars => SwapInv'
<1> SUFFICES ASSUME SwapInv, [Next]_vars PROVE SwapInv'
  OBVIOUS
<1>1. CASE UNCHANGED vars
  BY <1>1 DEF vars, SwapInv, TypeOK, PointsInv, TokenInv, UnloadInv,
    ActivePhaseHasWorker, AwaitAfterUnload, At, Token, Mode, Busy, InStage,
    swapTokenMatches
<1>2. ASSUME NEW s \in Starters, StartChecks(s) \/ StartStep(s) PROVE SwapInv'
  BY <1>2, StartChecksKeeps, StartRegistersKeeps, StartAbandonsKeeps,
    StartContinuesKeeps DEF StartStep
<1>3. ASSUME NEW c \in Confirmers, ConfirmAccepts(c) \/ ConfirmStep(c) PROVE SwapInv'
  BY <1>3, ConfirmAcceptsKeeps, ConfirmManualKeeps, ConfirmLegacyKeeps,
    ConfirmFailsKeeps, ConfirmLaunchesKeeps DEF ConfirmStep
<1>4. ASSUME NEW p \in Processes, StageStep(p) PROVE SwapInv'
  BY <1>4, StageBeginsKeeps, StageFailsKeeps, StageHeatsKeeps, StageIsHotKeeps,
    StageMovesKeeps, StageEndsKeeps DEF StageStep
<1>5. CASE Cancel
  BY <1>5, CancelKeeps
<1> QED
  BY <1>1, <1>2, <1>3, <1>4, <1>5 DEF Next

(* The inductive invariant holds of every behaviour: any number of Start   *)
(* and Confirm requests, any interleaving, any failure.                    *)
THEOREM SwapInvariant == Spec => []SwapInv
<1>1. Init => SwapInv
  BY SwapInvInit
<1>2. SwapInv /\ [Next]_vars => SwapInv'
  BY SwapStep
<1> QED
  BY <1>1, <1>2, PTL DEF Spec

(* Type correctness.                                                       *)
THEOREM SwapTypeCorrect == Spec => []TypeOK
<1>1. SwapInv => TypeOK
  BY DEF SwapInv
<1> QED
  BY <1>1, SwapInvariant, PTL

(* The load of a swap never runs beside its unload (filament_service.go,   *)
(* runLegacySwapUnload and runLegacySwapLoad).                             *)
THEOREM LoadAfterUnload == Spec => []NoLoadDuringUnload
<1>1. SwapInv => NoLoadDuringUnload
  <2> SUFFICES ASSUME SwapInv, NEW s \in Starters, NEW c \in Confirmers,
                      InStage(s), InStage(c)
               PROVE  Token(s) # Token(c)
    BY DEF NoLoadDuringUnload
  <2>1. Mode(s) = "legacy" /\ Mode(c) = "legacy"
    BY DEF SwapInv, PointsInv, Processes
  <2>2. Busy(s)
    BY DEF InStage, StagePoints, Busy, At
  <2> QED
    BY <2>1, <2>2 DEF SwapInv, UnloadInv
<1> QED
  BY <1>1, SwapInvariant, PTL

(* A phase that locks everybody out has a process that will leave it.      *)
THEOREM LockedPhaseHasWorker == Spec => []ActivePhaseHasWorker
<1>1. SwapInv => ActivePhaseHasWorker
  BY DEF SwapInv
<1> QED
  BY <1>1, SwapInvariant, PTL

(* A legacy swap only asks for the user's hands after its unload.          *)
THEOREM HandsAfterUnload == Spec => []AwaitAfterUnload
<1>1. SwapInv => AwaitAfterUnload
  BY DEF SwapInv
<1> QED
  BY <1>1, SwapInvariant, PTL

(* Together: a swap is handled in order, and a locked one is being worked  *)
(* at, whatever the number of requests.                                    *)
THEOREM SwapOrderly == Spec => []SwapIsOrderly
<1>1. NoLoadDuringUnload /\ ActivePhaseHasWorker /\ AwaitAfterUnload => SwapIsOrderly
  BY DEF SwapIsOrderly
<1> QED
  BY <1>1, LoadAfterUnload, LockedPhaseHasWorker, HandsAfterUnload, PTL

(* A write to the swap keeps its token, unless it stores a new one.        *)
LEMMA SwapKeepsToken ==
  ASSUME SwapInv, [Next]_vars, swap' # NoSwap
  PROVE  swapTokenMatches(swap'.token) \/ swap'.token > issued
<1>1. swap \in SwapStates \union {NoSwap} /\ issued \in Nat
  BY MaxSwapsAssumption DEF SwapInv, TypeOK
<1>2. SUFFICES ASSUME swap' # swap
               PROVE  swapTokenMatches(swap'.token) \/ swap'.token > issued
  BY DEF swapTokenMatches
<1>3. ASSUME NEW t, NEW phase \in Phases, swapStateUpdate(t, phase)
      PROVE  swapTokenMatches(swap'.token)
  BY <1>1, <1>2, <1>3, UpdateType DEF swapTokenMatches
<1>4. ASSUME NEW t, swapStateClear(t) PROVE FALSE
  BY <1>1, <1>2, <1>4, ClearType
<1>5. CASE \E s \in Starters : StartChecks(s) \/ StartStep(s)
  <2> PICK s \in Starters : StartChecks(s) \/ StartStep(s)
    BY <1>5
  <2>1. CASE StartRegisters(s)
    BY <1>1, <2>1 DEF StartRegisters
  <2> QED
    BY <1>2, <1>4, <2>1 DEF StartStep, StartChecks, StartAbandons, StartContinues
<1>6. CASE \E c \in Confirmers : ConfirmAccepts(c) \/ ConfirmStep(c)
  <2> PICK c \in Confirmers : ConfirmAccepts(c) \/ ConfirmStep(c)
    BY <1>6
  <2>1. "heating_load" \in Phases /\ "error" \in Phases
    BY DEF Phases, activePhases
  <2> QED
    BY <1>2, <1>3, <1>4, <2>1 DEF ConfirmStep, ConfirmAccepts, ConfirmManual,
      ConfirmLegacy, ConfirmFails, ConfirmLaunches
<1>7. CASE \E p \in Processes : StageStep(p)
  <2> PICK p \in Processes : StageStep(p)
    BY <1>7
  <2>1. {"error", "await_manual_swap", HeatingPhase(p), MovingPhase(p)} \subseteq Phases
    BY DEF Phases, activePhases, HeatingPhase, MovingPhase
  <2> QED
    BY <1>2, <1>3, <1>4, <2>1 DEF StageStep, StageBegins, StageFails, StageHeats,
      StageIsHot, StageMoves, StageEnds
<1>8. CASE Cancel
  BY <1>8 DEF Cancel
<1> QED
  BY <1>2, <1>5, <1>6, <1>7, <1>8 DEF Next, vars

(* A swap that is gone does not come back by a late write of a goroutine   *)
(* (swapStateUpdate compares the token under the mutex).                   *)
THEOREM GoneSwapStaysGone == Spec => NoResurrection
<1>1. SwapInv /\ [Next]_vars =>
        [ swap' # NoSwap => swapTokenMatches(swap'.token) \/ swap'.token > issued ]_vars
  BY SwapKeepsToken
<1> QED
  BY <1>1, SwapInvariant, PTL DEF Spec, NoResurrection

=============================================================================
