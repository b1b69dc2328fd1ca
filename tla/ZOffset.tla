-------------------------------- MODULE ZOffset --------------------------------
(***************************************************************************)
(* internal/service/mqttqueue.go: requests that change or read the         *)
(* z-offset of the printer, in steps of 0.01 mm.                           *)
(*                                                                         *)
(* The printer only understands relative moves (M290) and tells the        *)
(* offset in ct=1021.  SetZOffset takes the last report for the truth,     *)
(* sends the difference and waits for a report of the target.  Every       *)
(* report puts one token into a channel of one place; all waiting requests *)
(* take from it.                                                           *)
(***************************************************************************)
EXTENDS Integers, Sequences

CONSTANTS
  ZRequests,   \* requests, one call each
  NoReport,    \* no report yet: nil
  Steps,       \* targets and distances they ask for
  MaxReports   \* bound: reports under way

ASSUME ZOffsetAssumption ==
  Steps \subseteq Int /\ NoReport \notin Int /\ MaxReports \in Nat

VARIABLES
  offset,     \* the printer's own offset (external)
  commands,   \* M290 moves sent and not yet executed (external)
  reports,    \* ct=1021 messages not yet handled (external)
  zAxisRecoup,
  zAxisRecoupCh,  \* whether the channel holds a token
  zreq,       \* request |-> what it is doing
  quiet       \* history: nothing was under way when the request began, nor since

zVars == <<offset, commands, reports, zAxisRecoup, zAxisRecoupCh, zreq, quiet>>

ZPoints == {"new", "send", "wait", "refresh", "ok", "failed"}
Busy    == {"send", "wait"}

ZTypeOK ==
  /\ offset \in Int
  /\ commands \in Seq(Int)
  /\ reports \in Seq(Int) /\ Len(reports) <= MaxReports
  /\ zAxisRecoup = NoReport \/ zAxisRecoup \in Int
  /\ zAxisRecoupCh \in BOOLEAN
  /\ zreq \in [ZRequests -> [at : ZPoints, target : Int, delta : Int]]
  /\ quiet \in [ZRequests -> BOOLEAN]

ZInit ==
  /\ offset = 0
  /\ commands = << >>
  /\ reports = << >>
  /\ zAxisRecoup = NoReport
  /\ zAxisRecoupCh = FALSE
  /\ zreq = [r \in ZRequests |-> [at |-> "new", target |-> 0, delta |-> 0]]
  /\ quiet = [r \in ZRequests |-> FALSE]

Known == zAxisRecoup # NoReport

ZMoveTo(r, point) == zreq' = [zreq EXCEPT ![r].at = point]

(* Nothing is on its way, and nobody else is waiting. *)
AllQuiet ==
  /\ commands = << >>
  /\ zAxisRecoup = offset
  /\ \A i \in DOMAIN reports : reports[i] = offset
  /\ \A r \in ZRequests : zreq[r].at \notin Busy

-------------------------------------------------------------------------------
(* The first half of SetZOffset and NudgeZOffset: the target and the       *)
(* distance to it, from the last report.                                   *)
Begins(r, target) ==
  /\ zreq[r].at = "new"
  /\ Known
  /\ LET delta == target - zAxisRecoup
     IN  zreq' = [zreq EXCEPT ![r] = [at     |-> IF delta = 0 THEN "ok" ELSE "send",
                                      target |-> target, delta |-> delta]]
  /\ quiet' = [q \in ZRequests |-> q = r /\ AllQuiet]
  /\ UNCHANGED <<offset, commands, reports, zAxisRecoup, zAxisRecoupCh>>

SetZOffset(r)   == \E target \in Steps : Begins(r, target)
NudgeZOffset(r) == \E delta \in Steps : Known /\ Begins(r, zAxisRecoup + delta)

(* Nothing was reported yet, or the command cannot be sent. *)
ZFails(r) ==
  /\ \/ zreq[r].at = "new" /\ ~Known
     \/ zreq[r].at = "send"
  /\ ZMoveTo(r, "failed")
  /\ UNCHANGED <<offset, commands, reports, zAxisRecoup, zAxisRecoupCh, quiet>>

(* SendGCode; its caller may be gone by the time the line is sent. *)
SendDelta(r) ==
  /\ zreq[r].at = "send"
  /\ commands' = Append(commands, zreq[r].delta)
  /\ \E point \in {"wait", "failed"} : ZMoveTo(r, point)
  /\ UNCHANGED <<offset, reports, zAxisRecoup, zAxisRecoupCh, quiet>>

(* Mutant: any report counts as the confirmation. *)
TakeAnyReport(r) ==
  /\ zreq[r].at = "wait"
  /\ zAxisRecoupCh
  /\ zAxisRecoupCh' = FALSE
  /\ ZMoveTo(r, "ok")
  /\ UNCHANGED <<offset, commands, reports, zAxisRecoup, quiet>>

(* A waiting request takes the token and looks at the last report. *)
TakeReport(r) ==
  /\ zreq[r].at = "wait"
  /\ zAxisRecoupCh
  /\ zAxisRecoupCh' = FALSE
  /\ IF zAxisRecoup = zreq[r].target THEN ZMoveTo(r, "ok") ELSE UNCHANGED zreq
  /\ UNCHANGED <<offset, commands, reports, zAxisRecoup, quiet>>

(* RefreshZOffset: the token is drained, the status is asked for, and any  *)
(* report that comes is the answer.                                        *)
RefreshDrains(r) ==
  /\ zreq[r].at = "new"
  /\ zAxisRecoupCh' = FALSE
  /\ ZMoveTo(r, "refresh")
  /\ UNCHANGED <<offset, commands, reports, zAxisRecoup, quiet>>

RefreshTakes(r) ==
  /\ zreq[r].at = "refresh"
  /\ zAxisRecoupCh
  /\ zAxisRecoupCh' = FALSE
  /\ IF Known THEN ZMoveTo(r, "ok") ELSE UNCHANGED zreq
  /\ UNCHANGED <<offset, commands, reports, zAxisRecoup, quiet>>

(* Five seconds pass, or the caller goes. *)
ZTimeout(r) ==
  /\ zreq[r].at \in {"wait", "refresh"}
  /\ ZMoveTo(r, "failed")
  /\ UNCHANGED <<offset, commands, reports, zAxisRecoup, zAxisRecoupCh, quiet>>

-------------------------------------------------------------------------------
handleZAxisRecoup ==
  /\ reports # << >>
  /\ zAxisRecoup' = Head(reports)
  /\ zAxisRecoupCh' = TRUE
  /\ reports' = Tail(reports)
  /\ UNCHANGED <<offset, commands, zreq, quiet>>

(* WorkerStop forgets the report, and leaves the token. *)
ZForget ==
  /\ Known
  /\ zAxisRecoup' = NoReport
  /\ UNCHANGED <<offset, commands, reports, zAxisRecoupCh, zreq, quiet>>

(* The printer moves, and tells its offset after a move, when its status   *)
(* is asked for, and by itself.                                            *)
PrinterMoves ==
  /\ commands # << >>
  /\ offset' = offset + Head(commands)
  /\ commands' = Tail(commands)
  /\ UNCHANGED <<reports, zAxisRecoup, zAxisRecoupCh, zreq, quiet>>

PrinterReports ==
  /\ Len(reports) < MaxReports
  /\ reports' = Append(reports, offset)
  /\ UNCHANGED <<offset, commands, zAxisRecoup, zAxisRecoupCh, zreq, quiet>>

ZRequest(r) ==
  \/ SetZOffset(r)
  \/ NudgeZOffset(r)
  \/ ZFails(r)
  \/ SendDelta(r)
  \/ TakeReport(r)
  \/ RefreshDrains(r)
  \/ RefreshTakes(r)
  \/ ZTimeout(r)

ZNext ==
  \/ \E r \in ZRequests : ZRequest(r)
  \/ handleZAxisRecoup
  \/ ZForget
  \/ PrinterMoves
  \/ PrinterReports

ZSpec == ZInit /\ [][ZNext]_zVars

-------------------------------------------------------------------------------
ChangeSucceeds(r) == zreq[r].at \in {"new"} \union Busy /\ zreq'[r].at = "ok"

(* A change of the offset that reports success has left the printer at its *)
(* target, provided that nothing was under way when it began and no other  *)
(* change began meanwhile; refreshes, reports and restarts may.            *)
QuietChangeIsTrue ==
  [][\A r \in ZRequests : ChangeSucceeds(r) /\ quiet'[r] => offset = zreq'[r].target]_zVars

(* mqttqueue.go:713, "SetZOffset sets the Z-offset to the given absolute   *)
(* value": without that proviso.  A second attempt after a timeout starts  *)
(* from a report that is out of date.                                      *)
ChangeIsTrue ==
  [][\A r \in ZRequests : ChangeSucceeds(r) => offset = zreq'[r].target]_zVars
===============================================================================
