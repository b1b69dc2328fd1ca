--------------------------- MODULE PeripheralsProofs ---------------------------
(***************************************************************************)
(* The small components beside the core, each for any values of its        *)
(* constants, and then the nine of them next to one another.               *)
(***************************************************************************)
EXTENDS Peripherals, SequenceTheorems, FiniteSetTheorems, WellFoundedInduction, TLAPS

-------------------------------------------------------------------------------
(* The z-offset.  A change that reports success, and that nothing          *)
(* disturbed, has left the printer at its target.                          *)
(*                                                                         *)
(* The reason is in Undisturbed: until the printer makes the one move of   *)
(* the request, every report there is tells an offset that is not the      *)
(* target; and once it made it, there is no other move left.               *)

(* The move of r has not been made, and no report tells anything else.     *)
Ahead(r) ==
  /\ zreq[r].delta = zreq[r].target - offset
  /\ zreq[r].delta # 0
  /\ \A i \in DOMAIN reports : reports[i] = offset
  /\ zAxisRecoup \in {offset, NoReport}

Undisturbed(r) ==
  /\ \A q \in ZRequests \ {r} : zreq[q].at \notin Busy
  /\ zreq[r].at = "send" => commands = << >> /\ Ahead(r)
  /\ zreq[r].at = "wait" =>
       \/ commands = <<zreq[r].delta>> /\ Ahead(r)
       \/ commands = << >> /\ offset = zreq[r].target

ZInv ==
  /\ ZTypeOK
  /\ \A r \in ZRequests : quiet[r] /\ zreq[r].at \in Busy => Undisturbed(r)

-------------------------------------------------------------------------------
(* Moves, reports and requests keep their types in every step.             *)
LEMMA ZTypeStep ==
  ASSUME ZTypeOK, [ZNext]_zVars
  PROVE  ZTypeOK'
<1> USE ZOffsetAssumption DEF ZTypeOK, ZPoints, Busy, zVars
<1>1. ASSUME NEW r \in ZRequests, NEW target \in Int, Begins(r, target)
      PROVE  ZTypeOK'
  BY <1>1 DEF Begins, Known
<1>2. ASSUME NEW r \in ZRequests, ZRequest(r)
      PROVE  ZTypeOK'
  <2>1. CASE SetZOffset(r)
    BY <2>1, <1>1 DEF SetZOffset
  <2>2. CASE NudgeZOffset(r)
    <3>1. PICK delta \in Steps : Known /\ Begins(r, zAxisRecoup + delta)
      BY <2>2 DEF NudgeZOffset
    <3>2. zAxisRecoup + delta \in Int
      BY <3>1 DEF Known
    <3> QED
      BY <3>1, <3>2, <1>1
  <2>3. CASE ZFails(r)
    BY <2>3 DEF ZFails, ZMoveTo
  <2>4. CASE SendDelta(r)
    <3>1. zreq[r].delta \in Int
      OBVIOUS
    <3>2. commands' \in Seq(Int)
      BY <2>4, <3>1 DEF SendDelta
    <3>3. zreq' \in [ZRequests -> [at : ZPoints, target : Int, delta : Int]]
      BY <2>4 DEF SendDelta, ZMoveTo
    <3> QED
      BY <2>4, <3>2, <3>3 DEF SendDelta
  <2>5. CASE TakeReport(r)
    BY <2>5 DEF TakeReport, ZMoveTo
  <2>6. CASE RefreshDrains(r)
    BY <2>6 DEF RefreshDrains, ZMoveTo
  <2>7. CASE RefreshTakes(r)
    BY <2>7 DEF RefreshTakes, ZMoveTo
  <2>8. CASE ZTimeout(r)
    BY <2>8 DEF ZTimeout, ZMoveTo
  <2> QED
    BY <1>2, <2>1, <2>2, <2>3, <2>4, <2>5, <2>6, <2>7, <2>8 DEF ZRequest
<1>3. CASE handleZAxisRecoup
  <2>1. /\ Head(reports) \in Int
        /\ Tail(reports) \in Seq(Int)
        /\ Len(Tail(reports)) = Len(reports) - 1
    BY <1>3 DEF handleZAxisRecoup
  <2>2. Len(reports') <= MaxReports
    <3>1. Len(reports) \in Nat /\ Len(reports) <= MaxReports /\ MaxReports \in Nat
      OBVIOUS
    <3>2. Len(reports') = Len(reports) - 1
      BY <1>3, <2>1 DEF handleZAxisRecoup
    <3> HIDE DEF ZTypeOK
    <3> QED
      BY <3>1, <3>2
  <2> QED
    BY <1>3, <2>1, <2>2 DEF handleZAxisRecoup
<1>4. CASE ZForget
  BY <1>4 DEF ZForget
<1>5. CASE PrinterMoves
  <2>1. Head(commands) \in Int /\ Tail(commands) \in Seq(Int)
    BY <1>5 DEF PrinterMoves
  <2> QED
    BY <1>5, <2>1 DEF PrinterMoves
<1>6. CASE PrinterReports
  <2>1. /\ Append(reports, offset) \in Seq(Int)
        /\ Len(Append(reports, offset)) = Len(reports) + 1
    OBVIOUS
  <2> QED
    BY <1>6, <2>1 DEF PrinterReports
<1>7. CASE UNCHANGED zVars
  BY <1>7
<1> QED
  BY <1>2, <1>3, <1>4, <1>5, <1>6, <1>7 DEF ZNext

(* The quiet request is the only one that can be about to act, so the      *)
(* steps that could disturb it are its own, and those of the printer and   *)
(* of the worker.                                                          *)
LEMMA ZInvStep ==
  ASSUME ZInv, [ZNext]_zVars
  PROVE  ZInv'
<1> USE ZOffsetAssumption DEF Busy
<1>1. ZTypeOK /\ ZTypeOK'
  BY ZTypeStep DEF ZInv
<1>2. ZPoints = {"new", "send", "wait", "refresh", "ok", "failed"}
  BY DEF ZPoints
<1> SUFFICES ASSUME NEW s \in ZRequests, quiet'[s], zreq'[s].at \in Busy
             PROVE  Undisturbed(s)'
  BY <1>1 DEF ZInv
<1>3. ASSUME NEW r \in ZRequests, NEW target \in Int, Begins(r, target)
      PROVE  Undisturbed(s)'
  <2>1. s = r /\ AllQuiet
    BY <1>1, <1>3 DEF Begins, ZTypeOK
  <2>2. zreq'[r] = [at |-> IF target - zAxisRecoup = 0 THEN "ok" ELSE "send",
                    target |-> target, delta |-> target - zAxisRecoup]
    BY <1>1, <1>3 DEF Begins, ZTypeOK
  <2>3. \A q \in ZRequests \ {r} : zreq'[q] = zreq[q]
    BY <1>1, <1>3 DEF Begins, ZTypeOK
  <2>4. /\ zreq'[r].at = "send"
        /\ zreq'[r].target = target /\ zreq'[r].delta = target - zAxisRecoup
        /\ target - zAxisRecoup # 0
    BY <2>1, <2>2
  <2>5. zAxisRecoup = offset /\ commands = << >>
    BY <2>1 DEF AllQuiet
  <2>6. Ahead(r)'
    BY <1>3, <2>1, <2>4, <2>5 DEF Begins, Ahead, AllQuiet
  <2> QED
    BY <1>3, <2>1, <2>3, <2>4, <2>5, <2>6 DEF Begins, Undisturbed, AllQuiet
(* Every step that begins nothing finds s quiet and busy already.          *)
<1>4. ASSUME UNCHANGED quiet, zreq[s].at \in Busy
      PROVE  Undisturbed(s)
  BY <1>4 DEF ZInv
<1>5. ASSUME NEW r \in ZRequests, NEW point \in ZPoints, ZMoveTo(r, point)
      PROVE  /\ zreq'[r].at = point
             /\ zreq'[r].target = zreq[r].target /\ zreq'[r].delta = zreq[r].delta
             /\ \A q \in ZRequests \ {r} : zreq'[q] = zreq[q]
  BY <1>1, <1>5 DEF ZMoveTo, ZTypeOK
(* A request that stops being busy, or never was, disturbs nobody.         *)
<1>6. ASSUME NEW r \in ZRequests, NEW point \in ZPoints \ Busy, ZMoveTo(r, point),
             UNCHANGED <<offset, commands, reports, zAxisRecoup, quiet>>
      PROVE  Undisturbed(s)'
  <2>1. s # r /\ zreq'[s] = zreq[s]
    BY <1>5, <1>6
  <2>2. Undisturbed(s)
    BY <1>4, <1>6, <2>1
  <2>3. \A q \in ZRequests \ {s} : zreq'[q].at \notin Busy
    BY <1>5, <1>6, <2>2 DEF Undisturbed
  <2> QED
    BY <1>6, <2>1, <2>2, <2>3 DEF Undisturbed, Ahead
<1>7. ASSUME UNCHANGED <<zreq, quiet, commands, offset>>,
             \A i \in DOMAIN reports' : \/ reports'[i] = offset
                                       \/ \E j \in DOMAIN reports : reports'[i] = reports[j],
             \/ zAxisRecoup' \in {zAxisRecoup, NoReport}
             \/ \E j \in DOMAIN reports : zAxisRecoup' = reports[j]
      PROVE  Undisturbed(s)'
  <2>1. Undisturbed(s)
    BY <1>4, <1>7
  <2>2. Ahead(s) => Ahead(s)'
    BY <1>7 DEF Ahead
  <2> QED
    BY <1>7, <2>1, <2>2 DEF Undisturbed
<1>8. ASSUME NEW r \in ZRequests, ZRequest(r)
      PROVE  Undisturbed(s)'
  <2>1. CASE SetZOffset(r)
    BY <2>1, <1>3 DEF SetZOffset
  <2>2. CASE NudgeZOffset(r)
    <3>1. PICK delta \in Steps : Known /\ Begins(r, zAxisRecoup + delta)
      BY <2>2 DEF NudgeZOffset
    <3>2. zAxisRecoup + delta \in Int
      BY <1>1, <3>1 DEF Known, ZTypeOK
    <3> QED
      BY <3>1, <3>2, <1>3
  <2>3. CASE ZFails(r)
    BY <2>3, <1>2, <1>6 DEF ZFails
  <2>4. CASE SendDelta(r)
    <3>1. PICK point \in {"wait", "failed"} : ZMoveTo(r, point)
      BY <2>4 DEF SendDelta
    <3>2. zreq[s].at \in Busy /\ Undisturbed(s)
      <4>1. zreq[s].at \in Busy
        BY <1>2, <1>5, <2>4, <3>1 DEF SendDelta
      <4> QED
        BY <4>1, <1>4, <2>4 DEF SendDelta
    <3>3. s = r
      BY <2>4, <3>2 DEF SendDelta, Undisturbed
    <3>4. commands = << >> /\ Ahead(s)
      BY <2>4, <3>2, <3>3 DEF SendDelta, Undisturbed
    <3>5. /\ zreq'[s].at = "wait"
          /\ zreq'[s].target = zreq[s].target /\ zreq'[s].delta = zreq[s].delta
          /\ \A q \in ZRequests \ {s} : zreq'[q] = zreq[q]
      BY <1>2, <1>5, <3>1, <3>3
    <3>6. commands' = <<zreq'[s].delta>>
      BY <2>4, <3>3, <3>4, <3>5 DEF SendDelta
    <3>7. Ahead(s)'
      BY <2>4, <3>4, <3>5 DEF SendDelta, Ahead
    <3> QED
      BY <3>2, <3>5, <3>6, <3>7 DEF Undisturbed
  <2>5. CASE TakeReport(r)
    <3>1. CASE zAxisRecoup = zreq[r].target
      BY <2>5, <3>1, <1>2, <1>6 DEF TakeReport
    <3>2. CASE zAxisRecoup # zreq[r].target
      BY <2>5, <3>2, <1>7 DEF TakeReport
    <3> QED
      BY <3>1, <3>2
  <2>6. CASE RefreshDrains(r)
    BY <2>6, <1>2, <1>6 DEF RefreshDrains
  <2>7. CASE RefreshTakes(r)
    <3>1. CASE Known
      BY <2>7, <3>1, <1>2, <1>6 DEF RefreshTakes
    <3>2. CASE ~Known
      BY <2>7, <3>2, <1>7 DEF RefreshTakes
    <3> QED
      BY <3>1, <3>2
  <2>8. CASE ZTimeout(r)
    BY <2>8, <1>2, <1>6 DEF ZTimeout
  <2> QED
    BY <1>8, <2>1, <2>2, <2>3, <2>4, <2>5, <2>6, <2>7, <2>8 DEF ZRequest
<1>9. CASE handleZAxisRecoup
  <2>1. /\ Head(reports) = reports[1] /\ 1 \in DOMAIN reports
        /\ \A i \in DOMAIN Tail(reports) :
              i + 1 \in DOMAIN reports /\ Tail(reports)[i] = reports[i + 1]
    BY <1>1, <1>9 DEF handleZAxisRecoup, ZTypeOK
  <2> QED
    BY <1>7, <1>9, <2>1 DEF handleZAxisRecoup
<1>10. CASE ZForget
  BY <1>10, <1>7 DEF ZForget
<1>11. CASE PrinterMoves
  <2>1. Undisturbed(s)
    BY <1>4, <1>11 DEF PrinterMoves
  <2>2. zreq[s].at = "wait" /\ commands = <<zreq[s].delta>> /\ Ahead(s)
    BY <1>11, <2>1 DEF PrinterMoves, Undisturbed
  <2>3. zreq[s].target \in Int /\ zreq[s].delta \in Int /\ offset \in Int
    BY <1>1 DEF ZTypeOK
  <2>4. commands' = << >> /\ offset' = zreq[s].target
    BY <1>11, <2>2, <2>3 DEF PrinterMoves, Ahead
  <2> QED
    BY <1>11, <2>1, <2>2, <2>4 DEF PrinterMoves, Undisturbed
<1>12. CASE PrinterReports
  <2>1. \A i \in DOMAIN Append(reports, offset) :
          \/ Append(reports, offset)[i] = offset
          \/ i \in DOMAIN reports /\ Append(reports, offset)[i] = reports[i]
    BY <1>1 DEF ZTypeOK
  <2> QED
    BY <1>7, <1>12, <2>1 DEF PrinterReports
<1>13. CASE UNCHANGED zVars
  BY <1>13, <1>7 DEF zVars
<1> QED
  BY <1>8, <1>9, <1>10, <1>11, <1>12, <1>13 DEF ZNext

-------------------------------------------------------------------------------
(* The inductive invariant of the z-offset requests, for any requests,     *)
(* targets and bounds.                                                     *)
THEOREM ZOffsetInvariant == ZSpec => []ZInv
<1>1. ASSUME ZInit PROVE ZInv
  <2>1. commands \in Seq(Int) /\ reports \in Seq(Int) /\ Len(reports) = 0
    BY <1>1 DEF ZInit
  <2>2. zreq \in [ZRequests -> [at : ZPoints, target : Int, delta : Int]]
    BY <1>1 DEF ZInit, ZPoints
  <2>3. Len(reports) <= MaxReports
    BY <2>1, ZOffsetAssumption
  <2>4. quiet \in [ZRequests -> BOOLEAN] /\ zAxisRecoupCh \in BOOLEAN
    BY <1>1 DEF ZInit
  <2>5. offset \in Int /\ zAxisRecoup = NoReport
    BY <1>1 DEF ZInit
  <2>6. ZTypeOK
    BY <2>1, <2>2, <2>3, <2>4, <2>5 DEF ZTypeOK
  <2> QED
    BY <1>1, <2>6 DEF ZInit, ZInv
<1>2. ZInv /\ [ZNext]_zVars => ZInv'
  BY ZInvStep
<1> QED
  BY <1>1, <1>2, PTL DEF ZSpec

(* A change that nothing disturbed and that reports success has left the   *)
(* printer at its target: SetZOffset and NudgeZOffset do what they say.    *)
THEOREM QuietChangesAreTrue == ZSpec => QuietChangeIsTrue
<1> USE ZOffsetAssumption
<1>1. ASSUME ZInv, [ZNext]_zVars, NEW s \in ZRequests,
             ChangeSucceeds(s), quiet'[s]
      PROVE  offset = zreq'[s].target
  <2>1. ZTypeOK
    BY <1>1 DEF ZInv
  <2>2. zreq[s].at # "ok" /\ zreq'[s].at = "ok" /\ zreq[s].at \in {"new", "send", "wait"}
    BY <1>1 DEF ChangeSucceeds, Busy
  <2>3. ASSUME NEW r \in ZRequests, NEW target \in Int, Begins(r, target)
        PROVE  offset = zreq'[s].target
    <3>1. s = r /\ AllQuiet
      BY <1>1, <2>1, <2>3 DEF Begins, ZTypeOK
    <3>2. zreq'[s] = [at |-> IF target - zAxisRecoup = 0 THEN "ok" ELSE "send",
                      target |-> target, delta |-> target - zAxisRecoup]
      BY <2>1, <2>3, <3>1 DEF Begins, ZTypeOK
    <3>3. target - zAxisRecoup = 0 /\ zreq'[s].target = target
      BY <2>2, <3>2
    <3>4. zAxisRecoup = offset /\ offset \in Int
      BY <2>1, <3>1 DEF AllQuiet, ZTypeOK
    <3> QED
      BY <3>3, <3>4
  <2>4. ASSUME NEW r \in ZRequests, NEW point \in ZPoints, ZMoveTo(r, point)
        PROVE  /\ zreq'[r].at = point /\ zreq'[r].target = zreq[r].target
               /\ \A q \in ZRequests \ {r} : zreq'[q] = zreq[q]
    BY <2>1, <2>4 DEF ZMoveTo, ZTypeOK
  <2>5. ASSUME NEW r \in ZRequests, ZRequest(r)
        PROVE  offset = zreq'[s].target
    <3>1. CASE SetZOffset(r)
      BY <3>1, <2>3 DEF SetZOffset
    <3>2. CASE NudgeZOffset(r)
      <4>1. PICK delta \in Steps : Known /\ Begins(r, zAxisRecoup + delta)
        BY <3>2 DEF NudgeZOffset
      <4>2. zAxisRecoup + delta \in Int
        BY <2>1, <4>1 DEF Known, ZTypeOK
      <4> QED
        BY <4>1, <4>2, <2>3
    <3>3. CASE TakeReport(r)
      <4>1. s = r /\ zAxisRecoup = zreq[s].target /\ ZMoveTo(s, "ok")
        BY <3>3, <2>2, <2>4 DEF TakeReport, ZPoints
      <4>2. zreq[s].at = "wait" /\ quiet[s]
        BY <1>1, <3>3, <4>1 DEF TakeReport
      <4>3. Undisturbed(s)
        BY <1>1, <4>2 DEF ZInv, Busy
      <4>4. zreq'[s].target = zreq[s].target
        BY <2>4, <4>1 DEF ZPoints
      <4>5. ~Ahead(s)
        <5>1. zreq[s].target \in Int /\ zreq[s].delta \in Int /\ offset \in Int
          BY <2>1 DEF ZTypeOK
        <5> QED
          BY <4>1, <5>1 DEF Ahead
      <4> QED
        BY <4>2, <4>3, <4>4, <4>5 DEF Undisturbed
    <3>4. CASE ZFails(r) \/ SendDelta(r) \/ ZTimeout(r)
      <4>1. PICK point \in {"wait", "failed"} : ZMoveTo(r, point)
        BY <3>4 DEF ZFails, SendDelta, ZTimeout
      <4> QED
        BY <4>1, <2>2, <2>4 DEF ZPoints
    <3>5. CASE RefreshDrains(r)
      BY <3>5, <2>2, <2>4 DEF RefreshDrains, ZPoints
    <3>6. CASE RefreshTakes(r)
      BY <3>6, <2>2, <2>4 DEF RefreshTakes, ZPoints
    <3> QED
      BY <2>5, <3>1, <3>2, <3>3, <3>4, <3>5, <3>6 DEF ZRequest
  <2>6. ~UNCHANGED zreq
    BY <2>2
  <2> QED
    BY <1>1, <2>5, <2>6 DEF ZNext, zVars, handleZAxisRecoup, ZForget, PrinterMoves, PrinterReports
<1>2. ZInv /\ [ZNext]_zVars
        => [\A r \in ZRequests :
              ChangeSucceeds(r) /\ quiet'[r] => offset = zreq'[r].target]_zVars
  BY <1>1
<1> QED
  BY <1>2, ZOffsetInvariant, PTL DEF ZSpec, QuietChangeIsTrue

-------------------------------------------------------------------------------
(* The alerts.  The buffer holds the last alerts without a gap, and a      *)
(* cursor is never ahead of them.                                          *)

Buffered(f) ==
  /\ f \in 1..nextAlertId
  /\ alerts = f..(nextAlertId - 1) /\ nextAlertId - f <= AlertBufferSize
  /\ f = nextAlertId => nextAlertId = 1

AlertInv ==
  /\ AlertTypeOK
  /\ \E f \in Nat : Buffered(f)
  /\ \A p \in Pages : cursor[p] # NoCursor => cursor[p] < nextAlertId
  /\ MissIsTold

LEMMA BufferOf ==
  ASSUME AlertTypeOK, NEW f \in Nat, Buffered(f)
  PROVE  /\ IsFiniteSet(alerts) /\ Cardinality(alerts) = nextAlertId - f
         /\ f < nextAlertId => alerts # {} /\ FirstId = f
         /\ LastId = nextAlertId - 1
<1>1. /\ f \in 1..nextAlertId /\ alerts = f..(nextAlertId - 1) /\ nextAlertId \in Nat
      /\ f = nextAlertId => nextAlertId = 1
  BY AlertAssumption DEF Buffered, AlertTypeOK
<1>2. IsFiniteSet(alerts) /\ Cardinality(alerts) = nextAlertId - f
  BY <1>1, FS_Interval
<1>3. ASSUME f < nextAlertId
      PROVE  alerts # {} /\ FirstId = f
  <2>1. f \in alerts /\ \A j \in alerts : f <= j
    BY <1>1, <1>3
  <2>2. \A i \in alerts : (\A j \in alerts : i <= j) => i = f
    BY <1>1, <2>1
  <2> QED
    BY <2>1, <2>2 DEF FirstId
<1>4. LastId = nextAlertId - 1
  <2>1. CASE f < nextAlertId
    BY <1>3, <2>1 DEF LastId
  <2>2. CASE f = nextAlertId
    <3>1. alerts = {} /\ nextAlertId = 1
      BY <1>1, <2>2
    <3> QED
      BY <3>1 DEF LastId
  <2> QED
    BY <1>1, <2>1, <2>2
<1> QED
  BY <1>2, <1>3, <1>4

LEMMA AppendAlertKeeps ==
  ASSUME AlertInv, NEW key \in AlertKeys, AppendAlert(key)
  PROVE  AlertInv'
<1>1. AlertTypeOK /\ MissIsTold
  BY DEF AlertInv
<1>2. PICK f \in Nat : Buffered(f)
  BY DEF AlertInv
<1>3. /\ f \in 1..nextAlertId /\ alerts = f..(nextAlertId - 1)
      /\ nextAlertId \in Nat /\ nextAlertId - f <= AlertBufferSize
      /\ nextAlertId' = nextAlertId + 1 /\ nextAlertId <= MaxAlerts
      /\ UNCHANGED <<cursor, owed>>
  BY <1>1, <1>2, AlertAssumption DEF Buffered, AlertTypeOK, AppendAlert
<1>4. PICK g \in {f, f + 1} : /\ alerts' = g..nextAlertId
                              /\ g <= nextAlertId /\ (nextAlertId + 1) - g <= AlertBufferSize
  <2>1. CASE nextAlertId - f = AlertBufferSize
    <3>1. Cardinality(alerts) >= AlertBufferSize /\ FirstId = f
      BY <1>1, <1>2, <1>3, <2>1, BufferOf, AlertAssumption
    <3>2. alerts' = (alerts \ {f}) \union {nextAlertId}
      BY <3>1 DEF AppendAlert
    <3>3. alerts' = (f + 1)..nextAlertId
      BY <1>3, <2>1, <3>2, AlertAssumption
    <3>4. f + 1 <= nextAlertId /\ (nextAlertId + 1) - (f + 1) <= AlertBufferSize
      BY <1>3, <2>1, AlertAssumption
    <3> QED
      BY <3>3, <3>4
  <2>2. CASE nextAlertId - f # AlertBufferSize
    <3>1. Cardinality(alerts) < AlertBufferSize
      BY <1>1, <1>2, <1>3, <2>2, BufferOf, AlertAssumption
    <3>2. ~(Cardinality(alerts) >= AlertBufferSize)
      <4>1. Cardinality(alerts) \in Int
        BY <1>1, <1>2, <1>3, BufferOf
      <4> QED
        BY <3>1, <4>1, AlertAssumption
    <3>3. alerts' = alerts \union {nextAlertId}
      BY <3>2 DEF AppendAlert
    <3>4. alerts' = f..nextAlertId
      BY <1>3, <3>3
    <3>5. f <= nextAlertId /\ (nextAlertId + 1) - f <= AlertBufferSize
      BY <1>3, <2>2, AlertAssumption
    <3> QED
      BY <3>4, <3>5
  <2> QED
    BY <2>1, <2>2
<1>5. /\ g \in Nat /\ g \in 1..nextAlertId' /\ g # nextAlertId'
      /\ nextAlertId' - 1 = nextAlertId
  BY <1>3, <1>4
<1>6. AlertTypeOK' /\ Buffered(g)'
  <2>1. Cardinality(g..nextAlertId) = nextAlertId - g + 1
    BY <1>3, <1>4, <1>5, FS_Interval
  <2>2. Cardinality(alerts') <= AlertBufferSize
    BY <1>3, <1>4, <1>5, <2>1, AlertAssumption
  <2>3. alerts' \subseteq 1..(nextAlertId' - 1) /\ nextAlertId' \in 1..(MaxAlerts + 1)
    BY <1>3, <1>4, <1>5, AlertAssumption
  <2>4. recentKeys' \subseteq AlertKeys
    BY <1>1 DEF AlertTypeOK, AppendAlert
  <2>5. AlertTypeOK'
    BY <1>1, <1>3, <2>2, <2>3, <2>4 DEF AlertTypeOK
  <2>6. nextAlertId' - g <= AlertBufferSize
    BY <1>3, <1>4
  <2> QED
    BY <1>4, <1>5, <2>5, <2>6 DEF Buffered
<1>7. \A p \in Pages : cursor'[p] # NoCursor => cursor'[p] < nextAlertId'
  <2>1. \A p \in Pages : cursor[p] # NoCursor => cursor[p] \in Nat /\ cursor[p] < nextAlertId
    BY <1>1, AlertAssumption DEF AlertInv, AlertTypeOK
  <2> QED
    BY <1>3, <2>1
<1> QED
  BY <1>1, <1>3, <1>5, <1>6, <1>7 DEF AlertInv, MissIsTold

(* What a poll is not told to have missed it is given.                     *)
LEMMA PollAlertsKeeps ==
  ASSUME AlertInv, NEW page \in Pages, PollAlerts(page)
  PROVE  AlertInv'
<1>1. AlertTypeOK /\ MissIsTold
  BY DEF AlertInv
<1>2. PICK f \in Nat : Buffered(f)
  BY DEF AlertInv
<1>3. /\ f \in 1..nextAlertId /\ alerts = f..(nextAlertId - 1) /\ nextAlertId \in Nat
      /\ f = nextAlertId => nextAlertId = 1
      /\ nextAlertId <= MaxAlerts + 1
  BY <1>1, <1>2, AlertAssumption DEF Buffered, AlertTypeOK
<1>4. /\ LastId = nextAlertId - 1 /\ LastId \in 0..MaxAlerts
      /\ f < nextAlertId => FirstId = f /\ alerts # {}
      /\ IsFiniteSet(alerts)
  BY <1>1, <1>2, <1>3, BufferOf, AlertAssumption
<1>5. PICK limit \in 1..AlertBufferSize :
        owed' = [owed EXCEPT ![page] =
                   IF cursor[page] = NoCursor \/ Truncated(page, limit) THEN {}
                   ELSE @ \union ((cursor[page] + 1)..LastId
                          \ ({i \in alerts : i + limit > LastId} \intersect After(page)))]
  BY DEF PollAlerts
<1>6. ASSUME cursor[page] # NoCursor, ~Truncated(page, limit)
      PROVE  (cursor[page] + 1)..LastId
               \subseteq {i \in alerts : i + limit > LastId} \intersect After(page)
  <2>1. cursor[page] \in Nat /\ cursor[page] < nextAlertId
    BY <1>1, <1>6 DEF AlertInv, AlertTypeOK
  <2> SUFFICES ASSUME NEW i \in (cursor[page] + 1)..LastId
               PROVE  i \in alerts /\ i + limit > LastId /\ i > cursor[page]
    BY DEF After
  <2>2. i \in Nat /\ i > cursor[page] /\ i <= nextAlertId - 1 /\ limit \in Nat
    BY <1>3, <1>4, <2>1
  <2>3. f < nextAlertId
    BY <1>3, <2>1, <2>2
  <2>4. cursor[page] >= f - 1
    BY <1>3, <1>4, <1>6, <2>1, <2>3 DEF Truncated
  <2>5. i \in alerts
    BY <1>3, <2>1, <2>2, <2>4
  <2>6. After(page) = (cursor[page] + 1)..(nextAlertId - 1)
    BY <1>3, <2>1, <2>4 DEF After
  <2>7. Cardinality(After(page)) = nextAlertId - 1 - cursor[page]
    <3>1. /\ cursor[page] + 1 \in Int /\ nextAlertId - 1 \in Int
          /\ cursor[page] + 1 <= nextAlertId - 1
      BY <1>3, <2>1, <2>2
    <3>2. Cardinality((cursor[page] + 1)..(nextAlertId - 1))
            = (nextAlertId - 1) - (cursor[page] + 1) + 1
      BY <3>1, FS_Interval
    <3> QED
      BY <1>3, <2>1, <2>6, <3>2
  <2>8. nextAlertId - 1 - cursor[page] <= limit
    BY <1>3, <1>6, <2>1, <2>2, <2>7 DEF Truncated
  <2> QED
    BY <1>3, <1>4, <2>1, <2>2, <2>5, <2>8
<1>7. owed' = [owed EXCEPT ![page] = {}]
  <2>1. owed[page] = {}
    BY <1>1 DEF MissIsTold
  <2> QED
    BY <1>5, <1>6, <2>1
<1>8. MissIsTold'
  BY <1>1, <1>7 DEF MissIsTold, AlertTypeOK
<1>9. /\ cursor' = [cursor EXCEPT ![page] = LastId]
      /\ UNCHANGED <<alerts, nextAlertId, recentKeys>>
  BY DEF PollAlerts
<1>10. AlertTypeOK'
  <2>1. {} \in SUBSET (1..MaxAlerts)
    OBVIOUS
  <2>2. owed' \in [Pages -> SUBSET (1..MaxAlerts)]
    BY <1>1, <1>7, <2>1 DEF AlertTypeOK
  <2>3. cursor' \in [Pages -> {NoCursor} \union (0..MaxAlerts)]
    BY <1>1, <1>4, <1>9 DEF AlertTypeOK
  <2> QED
    BY <1>1, <1>9, <2>2, <2>3 DEF AlertTypeOK
<1>11. Buffered(f)'
  BY <1>2, <1>9 DEF Buffered
<1>12. \A p \in Pages : cursor'[p] # NoCursor => cursor'[p] < nextAlertId'
  BY <1>1, <1>3, <1>4, <1>9 DEF AlertInv, AlertTypeOK
<1> QED
  BY <1>8, <1>10, <1>11, <1>12 DEF AlertInv

(* The inductive invariant of the alerts, for any pages and sizes.         *)
THEOREM AlertInvariant == AlertSpec => []AlertInv
<1>1. ASSUME AlertInit PROVE AlertInv
  <2>1. Cardinality({}) = 0
    BY FS_EmptySet
  <2>2. AlertTypeOK
    BY <1>1, <2>1, AlertAssumption DEF AlertInit, AlertTypeOK
  <2>3. Buffered(1)
    BY <1>1, AlertAssumption DEF AlertInit, Buffered
  <2> QED
    BY <1>1, <2>2, <2>3 DEF AlertInit, AlertInv, MissIsTold
<1>2. ASSUME AlertInv, [AlertNext]_alertVars PROVE AlertInv'
  <2>1. ASSUME NEW key \in AlertKeys, CooldownEnds(key) PROVE AlertInv'
    BY <1>2, <2>1 DEF CooldownEnds, AlertInv, AlertTypeOK, Buffered, MissIsTold
  <2>2. CASE UNCHANGED alertVars
    BY <1>2, <2>2 DEF alertVars, AlertInv, AlertTypeOK, Buffered, MissIsTold
  <2> QED
    BY <1>2, <2>1, <2>2, AppendAlertKeeps, PollAlertsKeeps DEF AlertNext
<1> QED
  BY <1>1, <1>2, PTL DEF AlertSpec

-------------------------------------------------------------------------------
(* The log ring.  A slot holds the line its place says, counted back from  *)
(* the head, and the viewer's id is never ahead of the ring.               *)

LineAt(slot) ==
  IF slot < head THEN nextID - head + slot ELSE nextID - LogCapacity - head + slot

LogInv ==
  /\ LogTypeOK
  /\ size < LogCapacity => head = size /\ nextID = size + 1
  /\ size < nextID
  /\ \A s \in Slots : s < size => ids[s] = LineAt(s)
  /\ viewer < nextID
  /\ unseen = {}

LEMMA ModOnce ==
  ASSUME NEW n \in Nat \ {0}, NEW a \in 0..(2 * n - 1)
  PROVE  a % n = IF a < n THEN a ELSE a - n
<1>1. CASE a < n
  BY <1>1
<1>2. CASE ~(a < n)
  <2>1. a = n * 1 + (a - n) /\ a - n \in 0..(n - 1)
    BY <1>2
  <2> QED
    BY <1>2, <2>1
<1> QED
  BY <1>1, <1>2

(* Entries has the last lines, oldest first, wherever the ring wraps.      *)
LEMMA EntriesAreLast ==
  ASSUME LogInv
  PROVE  /\ size \in Nat /\ nextID \in Nat /\ size < nextID
         /\ \A i \in 1..size : Entries[i] = nextID - 1 - size + i
<1> USE LogAssumption
<1>1. /\ size \in 0..LogCapacity /\ nextID \in Nat /\ size < nextID
      /\ head \in 0..(LogCapacity - 1)
  BY DEF LogInv, LogTypeOK, Slots
<1> SUFFICES ASSUME NEW i \in 1..size PROVE Entries[i] = nextID - 1 - size + i
  BY <1>1
<1>2. CASE size < LogCapacity
  <2>1. i - 1 \in Slots /\ i - 1 < size /\ head = size
    BY <1>1, <1>2 DEF Slots, LogInv
  <2>2. ids[i - 1] = nextID - head + (i - 1)
    BY <2>1 DEF LogInv, LineAt
  <2>3. Entries[i] = ids[i - 1]
    BY <1>2 DEF Entries
  <2> QED
    BY <1>1, <2>1, <2>2, <2>3
<1>3. CASE size = LogCapacity
  <2> DEFINE a == head + i - 1
             s == IF a < LogCapacity THEN a ELSE a - LogCapacity
  <2>1. a \in 0..(2 * LogCapacity - 1) /\ s \in Slots /\ s < size
    BY <1>1, <1>3 DEF Slots
  <2>2. a % LogCapacity = s
    BY <2>1, ModOnce
  <2>3. Entries[i] = ids[s]
    BY <1>3, <2>2 DEF Entries
  <2>4. ids[s] = LineAt(s)
    BY <2>1 DEF LogInv
  <2>5. LineAt(s) = nextID - 1 - size + i
    BY <1>1, <1>3 DEF LineAt
  <2> QED
    BY <2>3, <2>4, <2>5
<1> QED
  BY <1>1, <1>2, <1>3

LEMMA AppendLineKeeps ==
  ASSUME LogInv, AppendLine
  PROVE  LogInv'
<1> USE LogAssumption
<1>1. /\ size \in 0..LogCapacity /\ nextID \in 1..(MaxLines + 1) /\ size < nextID
      /\ head \in Slots /\ ids \in [Slots -> 0..MaxLines]
      /\ viewer \in -1..MaxLines /\ viewer < nextID /\ unseen = {}
      /\ size < LogCapacity => head = size /\ nextID = size + 1
  BY DEF LogInv, LogTypeOK
<1>2. /\ nextID <= MaxLines /\ nextID' = nextID + 1 /\ UNCHANGED <<viewer, unseen>>
      /\ ids' = [ids EXCEPT ![head] = nextID]
      /\ size' = IF size < LogCapacity THEN size + 1 ELSE size
  BY DEF AppendLine
<1>3. head' = IF head + 1 = LogCapacity THEN 0 ELSE head + 1
  <2>1. head + 1 \in 0..(2 * LogCapacity - 1) /\ head + 1 <= LogCapacity
    BY <1>1 DEF Slots
  <2>2. head' = (head + 1) % LogCapacity
    BY DEF AppendLine
  <2> QED
    BY <2>1, <2>2, ModOnce
<1>4. /\ head' \in Slots /\ size' \in 0..LogCapacity /\ nextID' \in 1..(MaxLines + 1)
      /\ ids' \in [Slots -> 0..MaxLines]
  BY <1>1, <1>2, <1>3 DEF Slots
<1>5. ASSUME NEW s \in Slots, s < size' PROVE ids'[s] = LineAt(s)'
  <2>1. s \in 0..(LogCapacity - 1) /\ head \in 0..(LogCapacity - 1)
    BY <1>1 DEF Slots
  <2>2. CASE s = head
    BY <1>1, <1>2, <1>3, <2>1, <2>2 DEF LineAt
  <2>3. CASE s # head
    <3>1. s < size
      BY <1>1, <1>2, <1>5, <2>1, <2>3
    <3>2. ids'[s] = LineAt(s)
      BY <1>1, <1>2, <2>3, <3>1 DEF LogInv
    <3>3. LineAt(s)' = LineAt(s)
      BY <1>1, <1>2, <1>3, <2>1, <2>3, <3>1 DEF LineAt
    <3> QED
      BY <3>2, <3>3
  <2> QED
    BY <2>2, <2>3
<1>6. size' < LogCapacity => head' = size' /\ nextID' = size' + 1
  BY <1>1, <1>2, <1>3 DEF Slots
<1> QED
  BY <1>1, <1>2, <1>4, <1>5, <1>6 DEF LogInv, LogTypeOK

(* What is not cut off and newer than the viewer's id is given.            *)
LEMMA ConsoleLogsKeeps ==
  ASSUME LogInv, ConsoleLogs
  PROVE  LogInv'
<1> USE LogAssumption
<1>1. /\ size \in Nat /\ nextID \in Nat /\ size < nextID /\ nextID <= MaxLines + 1
      /\ \A i \in 1..size : Entries[i] = nextID - 1 - size + i
      /\ viewer \in -1..MaxLines /\ viewer < nextID /\ unseen = {}
      /\ size = 0 => nextID = 1
  BY EntriesAreLast DEF LogInv, LogTypeOK
<1>2. PICK limit \in 1..LogCapacity :
        LET reply == Snapshot(limit)
            given == {Entries[i] : i \in reply.places}
        IN  unseen' = IF viewer < 0 \/ reply.truncated THEN {}
                      ELSE unseen \union {id \in 1..(nextID - 1) : id > viewer /\ id \notin given}
  BY DEF ConsoleLogs
<1>3. viewer' = LastID /\ UNCHANGED <<ids, head, size, nextID>>
  BY DEF ConsoleLogs, ringVars
<1>4. LastID = nextID - 1
  BY <1>1 DEF LastID
<1>5. ASSUME ~(viewer < 0), ~Snapshot(limit).truncated,
             NEW id \in 1..(nextID - 1), id > viewer
      PROVE  id \in {Entries[i] : i \in Snapshot(limit).places}
  <2> DEFINE i == id - (nextID - 1 - size)
  <2>1. /\ Snapshot(limit).places = LastOf(Newer(viewer), limit)
        /\ ~(size > 0 /\ viewer < FirstID - 1)
        /\ ~(Cardinality(Newer(viewer)) > limit)
    BY <1>5 DEF Snapshot
  <2>2. size > 0 => FirstID = nextID - size
    BY <1>1 DEF FirstID
  <2>3. i \in 1..size /\ Entries[i] = id
    <3>1. size > 0
      BY <1>1
    <3>2. viewer >= nextID - size - 1
      BY <1>1, <2>1, <2>2, <3>1
    <3>3. i \in 1..size
      BY <1>1, <1>5, <3>2
    <3> QED
      BY <1>1, <3>3
  <2>4. i \in Newer(viewer)
    BY <1>5, <2>3 DEF Newer
  <2>5. Newer(viewer) \in SUBSET (1..size) /\ IsFiniteSet(Newer(viewer))
    <3>1. IsFiniteSet(1..size)
      BY <1>1, FS_Interval
    <3> QED
      BY <3>1, FS_Subset DEF Newer
  <2> HIDE DEF i
  <2>6. Cardinality({j \in Newer(viewer) : j >= i}) <= limit
    <3>1. /\ Cardinality({j \in Newer(viewer) : j >= i}) <= Cardinality(Newer(viewer))
          /\ Cardinality({j \in Newer(viewer) : j >= i}) \in Nat
          /\ Cardinality(Newer(viewer)) \in Nat
      BY <2>5, FS_Subset, FS_CardinalityType
    <3> QED
      BY <2>1, <3>1
  <2>7. i \in LastOf(Newer(viewer), limit)
    BY <2>4, <2>6 DEF LastOf
  <2> QED
    BY <2>1, <2>3, <2>7
<1>6. unseen' = {}
  BY <1>1, <1>2, <1>5
<1>7. viewer' \in -1..MaxLines /\ viewer' < nextID
  BY <1>1, <1>3, <1>4
<1> QED
  BY <1>3, <1>6, <1>7 DEF LogInv, LogTypeOK, LineAt

(* The inductive invariant of the log ring, for any capacity.              *)
THEOREM LogInvariant == LogSpec => []LogInv
<1>1. ASSUME LogInit PROVE LogInv
  <2>1. 0 \in Slots /\ ids \in [Slots -> 0..MaxLines]
    BY <1>1, LogAssumption DEF LogInit, Slots
  <2>2. /\ head = 0 /\ size = 0 /\ nextID = 1 /\ viewer = -1 /\ unseen = {}
    BY <1>1 DEF LogInit
  <2>3. LogTypeOK
    BY <2>1, <2>2, LogAssumption DEF LogTypeOK
  <2>4. \A s \in Slots : ~(s < size)
    BY <2>2, LogAssumption DEF Slots
  <2> QED
    BY <2>2, <2>3, <2>4 DEF LogInv
<1>2. ASSUME LogInv, UNCHANGED logVars PROVE LogInv'
  BY <1>2 DEF logVars, ringVars, LogInv, LogTypeOK, LineAt
<1> QED
  BY <1>1, <1>2, AppendLineKeeps, ConsoleLogsKeeps, PTL DEF LogSpec, LogNext

-------------------------------------------------------------------------------
(* The pictures of the camera.  The frames sent are those of the stream,   *)
(* for the buffer is always the rest of it, and the start markers behind   *)
(* the last picture are all in the buffer: what is thrown away ends before *)
(* the first of them, and is never the first half of one.                  *)

LEMMA LeastOf ==
  ASSUME NEW S \in SUBSET Nat, S # {}
  PROVE  First(S) \in S /\ \A x \in S : First(S) <= x
<1> DEFINE below(x) == 0..x
           chains == {below(x) : x \in S}
<1>1. chains \subseteq FiniteSubsetsOf(Nat) /\ chains # {}
  <2>1. \A x \in S : below(x) \subseteq Nat /\ IsFiniteSet(below(x))
    <3> TAKE x \in S
    <3>1. 0 \in Int /\ x \in Int
      OBVIOUS
    <3> QED
      BY <3>1, FS_Interval
  <2> QED
    BY <2>1 DEF FiniteSubsetsOf
<1>2. PICK t \in chains : \A u \in chains : ~(<<u, t>> \in StrictSubsetOrdering(Nat))
  <2> HIDE DEF chains
  <2> QED
    BY <1>1, FS_StrictSubsetOrderingWellFounded, WFMin
<1>3. PICK x \in S : t = below(x)
  BY <1>2
<1>4. ASSUME NEW y \in S, y < x PROVE FALSE
  <2>1. below(y) \in SUBSET Nat /\ below(x) \in SUBSET Nat /\ below(y) \subseteq below(x)
    BY <1>4
  <2>2. x \in below(x) /\ x \notin below(y)
    BY <1>4
  <2>3. <<below(y), below(x)>> \in StrictSubsetOrdering(Nat)
    <3> HIDE DEF below
    <3> QED
      BY <2>1, <2>2 DEF StrictSubsetOrdering
  <2>4. below(y) \in chains
    OBVIOUS
  <2> QED
    BY <1>2, <1>3, <2>3, <2>4
<1>5. \A y \in S : x <= y
  BY <1>4
<1> QED
  BY <1>5 DEF First

LEMMA FirstMark ==
  ASSUME NEW s \in Seq(Bytes), NEW second, NEW from \in Nat \ {0},
         Marks(s, second, from) # {}
  PROVE  /\ First(Marks(s, second, from)) \in Marks(s, second, from)
         /\ First(Marks(s, second, from)) \in from..(Len(s) - 1)
         /\ \A i \in Marks(s, second, from) : First(Marks(s, second, from)) <= i
<1>1. Marks(s, second, from) \in SUBSET (from..(Len(s) - 1))
  BY DEF Marks
<1>2. Marks(s, second, from) \in SUBSET Nat
  BY <1>1
<1> DEFINE places == Marks(s, second, from)
<1>3. places \in SUBSET Nat /\ places # {}
  BY <1>2
<1> HIDE DEF places
<1>4. First(places) \in places /\ \A i \in places : First(places) <= i
  BY <1>3, LeastOf
<1> QED
  BY <1>1, <1>4 DEF places

LEMMA SliceOfSeq ==
  ASSUME NEW S, NEW s \in Seq(S), NEW m \in Nat \ {0}, NEW n \in Int, n <= Len(s)
  PROVE  SubSeq(s, m, n) \in Seq(S)
<1>1. \A i \in m..n : i \in 1..Len(s)
  OBVIOUS
<1>2. \A i \in m..n : s[i] \in S
  BY <1>1, ElementOfSeq
<1> QED
  BY <1>2, SubSeqProperties

(* What was read and is not in the buffer any more. *)
Gone == Len(stream) - Len(buf)

BufferIsTheRest ==
  /\ Len(buf) <= Len(stream)
  /\ \A i \in 1..Len(buf) : buf[i] = stream[Gone + i]

FramesSoFar ==
  /\ Len(cuts) = Len(frames)
  /\ \A n \in 1..Len(frames) : /\ IsPicture(cuts[n], stream, Behind(n - 1))
                               /\ frames[n] = SubSeq(stream, cuts[n][1], cuts[n][2] + 1)

(* No start marker behind the last picture was dropped, nor the first half *)
(* of one: an empty buffer is what a picture was just cut off from.        *)
StartsAreKept ==
  /\ Behind(Len(frames)) <= Gone + 1
  /\ buf # << >> \/ Behind(Len(frames)) = Gone + 1
  /\ \A k \in Marks(stream, "D8", Behind(Len(frames))) : k > Gone

NoWholePicture ==
  \A start \in Marks(stream, "D8", Behind(Len(frames))) : Marks(stream, "D9", start + 2) = {}

MjpegInv ==
  /\ MjpegTypeOK /\ BufferIsTheRest
  /\ ~overrun => FramesSoFar /\ StartsAreKept
  /\ mjAt = "read" /\ ~overrun => NoWholePicture

(* The markers in the buffer are those of the stream behind what is gone. *)
LEMMA MarksOfRest ==
  ASSUME MjpegTypeOK, BufferIsTheRest, NEW second, NEW from \in Nat \ {0}, NEW i \in Nat \ {0}
  PROVE  (i \in Marks(buf, second, from)) <=> (Gone + i \in Marks(stream, second, Gone + from))
<1>1. Len(buf) \in Nat /\ Len(stream) \in Nat /\ Gone \in Nat
  BY DEF MjpegTypeOK, BufferIsTheRest, Gone
<1>2. (i \in from..(Len(buf) - 1)) <=> (Gone + i \in (Gone + from)..(Len(stream) - 1))
  BY <1>1 DEF Gone
<1>3. ASSUME i \in from..(Len(buf) - 1)
      PROVE  buf[i] = stream[Gone + i] /\ buf[i + 1] = stream[(Gone + i) + 1]
  <2>1. i \in 1..Len(buf) /\ i + 1 \in 1..Len(buf) /\ Gone + (i + 1) = (Gone + i) + 1
    BY <1>1, <1>3
  <2> QED
    BY <2>1 DEF BufferIsTheRest
<1> QED
  BY <1>2, <1>3 DEF Marks

(* What is appended adds markers at the end only. *)
LEMMA MarksStay ==
  ASSUME NEW s \in Seq(Bytes), NEW t \in Seq(Bytes), NEW second, NEW from \in Nat \ {0}
  PROVE  /\ Marks(s, second, from) \subseteq Marks(s \o t, second, from)
         /\ \A i \in Marks(s \o t, second, from) : i \in Marks(s, second, from) \/ i >= Len(s)
<1>1. /\ Len(s \o t) = Len(s) + Len(t) /\ Len(s) \in Nat /\ Len(t) \in Nat
      /\ \A i \in 1..Len(s) : (s \o t)[i] = s[i]
  BY ConcatProperties
<1> DEFINE w == s \o t
<1> HIDE DEF w
<1>2. \A i \in from..(Len(s) - 1) : i \in from..(Len(w) - 1) /\ w[i] = s[i] /\ w[i + 1] = s[i + 1]
  <2> TAKE i \in from..(Len(s) - 1)
  <2>1. i \in 1..Len(s) /\ i + 1 \in 1..Len(s)
    BY <1>1
  <2> QED
    BY <1>1, <2>1 DEF w
<1>3. \A i \in from..(Len(w) - 1) : i \in from..(Len(s) - 1) \/ i >= Len(s)
  BY <1>1
<1>4. /\ Marks(s, second, from) \subseteq Marks(w, second, from)
      /\ \A i \in Marks(w, second, from) : i \in Marks(s, second, from) \/ i >= Len(s)
  BY <1>2, <1>3 DEF Marks
<1> QED
  BY <1>4 DEF w

LEMMA PictureStays ==
  ASSUME NEW s \in Seq(Bytes), NEW t \in Seq(Bytes), NEW cut \in Nat \X Nat,
         NEW from \in Nat \ {0}, IsPicture(cut, s, from)
  PROVE  /\ IsPicture(cut, s \o t, from)
         /\ SubSeq(s \o t, cut[1], cut[2] + 1) = SubSeq(s, cut[1], cut[2] + 1)
<1>1. /\ cut[1] \in Nat \ {0} /\ cut[2] \in Nat /\ cut[1] + 2 \in Nat \ {0}
      /\ cut[1] < Len(s) /\ cut[2] < Len(s)
  BY DEF IsPicture, Marks
<1>2. IsPicture(cut, s \o t, from)
  <2>1. /\ Marks(s, "D8", from) \subseteq Marks(s \o t, "D8", from)
        /\ \A i \in Marks(s \o t, "D8", from) : i \in Marks(s, "D8", from) \/ i >= Len(s)
    BY MarksStay
  <2>2. /\ Marks(s, "D9", cut[1] + 2) \subseteq Marks(s \o t, "D9", cut[1] + 2)
        /\ \A i \in Marks(s \o t, "D9", cut[1] + 2) :
             i \in Marks(s, "D9", cut[1] + 2) \/ i >= Len(s)
    BY <1>1, MarksStay
  <2>3. /\ \A i \in Marks(s \o t, "D8", from) : i \in Nat
        /\ \A i \in Marks(s \o t, "D9", cut[1] + 2) : i \in Nat
    BY <1>1 DEF Marks
  <2>4. /\ cut[1] \in Marks(s \o t, "D8", from)
        /\ \A i \in Marks(s \o t, "D8", from) : cut[1] <= i
    BY <1>1, <2>1, <2>3 DEF IsPicture
  <2>5. /\ cut[2] \in Marks(s \o t, "D9", cut[1] + 2)
        /\ \A i \in Marks(s \o t, "D9", cut[1] + 2) : cut[2] <= i
    BY <1>1, <2>2, <2>3 DEF IsPicture
  <2> QED
    BY <2>4, <2>5 DEF IsPicture
<1>3. SubSeq(s \o t, cut[1], cut[2] + 1) = SubSeq(s, cut[1], cut[2] + 1)
  <2>1. \A i \in cut[1]..(cut[2] + 1) : i \in 1..Len(s)
    BY <1>1
  <2>2. \A i \in cut[1]..(cut[2] + 1) : (s \o t)[i] = s[i] /\ s[i] \in Bytes
    BY <2>1, ConcatProperties, ElementOfSeq
  <2> DEFINE w == s \o t
             m == cut[1]
             n == cut[2] + 1
  <2>3. m \in Nat /\ n \in Nat /\ w \in Seq(Bytes)
    BY <1>1, ConcatProperties
  <2>4. \A i \in m..n : w[i] = s[i] /\ s[i] \in Bytes /\ w[i] \in Bytes
    BY <2>2
  <2> HIDE DEF m, n, w
  <2>5. SubSeq(w, m, n) = SubSeq(s, m, n)
    BY <2>3, <2>4, SubSeqProperties
  <2> QED
    BY <2>5 DEF w, m, n
<1> QED
  BY <1>2, <1>3

(* The buffer from its place m on: what went before is gone. *)
KeepsFrom(m) ==
  /\ buf' \in Seq(Bytes) /\ Len(buf') = Len(buf) - (m - 1)
  /\ \A i \in 1..Len(buf') : buf'[i] = buf[(m - 1) + i]

LEMMA RestStaysRest ==
  ASSUME MjpegTypeOK, BufferIsTheRest, NEW m \in Nat \ {0}, KeepsFrom(m), stream' = stream
  PROVE  BufferIsTheRest' /\ Gone' = Gone + (m - 1) /\ m <= Len(buf) + 1
<1>1. Len(buf) \in Nat /\ Len(buf') \in Nat /\ Len(stream) \in Nat
  BY DEF MjpegTypeOK, KeepsFrom
<1>2. Gone' = Gone + (m - 1) /\ m <= Len(buf) + 1 /\ Len(buf') <= Len(stream')
  BY <1>1 DEF KeepsFrom, Gone, BufferIsTheRest
<1>3. ASSUME NEW i \in 1..Len(buf') PROVE buf'[i] = stream'[Gone' + i]
  <2>1. (m - 1) + i \in 1..Len(buf) /\ Gone' + i = Gone + ((m - 1) + i)
    BY <1>1, <1>2 DEF KeepsFrom, Gone
  <2> QED
    BY <2>1 DEF KeepsFrom, BufferIsTheRest
<1> QED
  BY <1>2, <1>3 DEF BufferIsTheRest

LEMMA SliceKeepsFrom ==
  ASSUME MjpegTypeOK, NEW m \in Nat \ {0}, m <= Len(buf) + 1, buf' = SubSeq(buf, m, Len(buf))
  PROVE  KeepsFrom(m)
<1>1. \A i \in m..Len(buf) : i \in 1..Len(buf)
  OBVIOUS
<1>2. \A i \in m..Len(buf) : buf[i] \in Bytes
  BY <1>1, ElementOfSeq DEF MjpegTypeOK
<1>3. buf' \in Seq(Bytes)
  BY SliceOfSeq DEF MjpegTypeOK
<1>4. Len(buf) \in Nat
  BY DEF MjpegTypeOK
<1> DEFINE n == Len(buf)
<1>5. /\ Len(SubSeq(buf, m, n)) = IF m <= n THEN (n - m) + 1 ELSE 0
      /\ \A i \in 1..((n - m) + 1) : SubSeq(buf, m, n)[i] = buf[(m + i) - 1]
  <2> HIDE DEF n
  <2>1. n \in Nat /\ \A i \in m..n : buf[i] \in Bytes
    BY <1>2, <1>4 DEF n
  <2> QED
    BY <2>1, SubSeqProperties
<1>6. Len(buf') = Len(buf) - (m - 1)
  BY <1>4, <1>5
<1>7. \A i \in 1..Len(buf') : buf'[i] = buf[(m - 1) + i]
  <2> TAKE i \in 1..Len(buf')
  <2>1. i \in 1..((n - m) + 1) /\ (m + i) - 1 = (m - 1) + i
    BY <1>4, <1>6
  <2> QED
    BY <1>5, <2>1
<1> QED
  BY <1>3, <1>6, <1>7 DEF KeepsFrom

LEMMA BehindIsPlace ==
  ASSUME MjpegTypeOK, NEW n \in 0..Len(cuts)
  PROVE  Behind(n) \in Nat \ {0}
<1>1. ASSUME n # 0 PROVE cuts[n] \in Nat \X Nat
  BY <1>1, ElementOfSeq DEF MjpegTypeOK
<1> QED
  BY <1>1 DEF Behind

LEMMA ReadChunkKeeps ==
  ASSUME MjpegInv, ReadChunk
  PROVE  MjpegInv'
<1> USE MjpegAssumption
<1>1. PICK n \in 1..ChunkSize : \E chunk \in [1..n -> Bytes] :
        /\ Len(stream) + n <= MaxStream
        /\ stream' = stream \o chunk
        /\ buf' = buf \o chunk
  BY DEF ReadChunk
<1>2. PICK chunk \in [1..n -> Bytes] :
        /\ Len(stream) + n <= MaxStream
        /\ stream' = stream \o chunk
        /\ buf' = buf \o chunk
  BY <1>1
<1>3. n \in Nat /\ n > 0 /\ chunk \in Seq(Bytes) /\ Len(chunk) = n
  <2>1. n \in Nat
    OBVIOUS
  <2> QED
    BY <2>1
<1>4. /\ stream \in Seq(Bytes) /\ buf \in Seq(Bytes) /\ Len(stream) \in Nat /\ Len(buf) \in Nat
      /\ Len(buf) <= Len(stream) /\ Gone \in Nat
  BY DEF MjpegInv, MjpegTypeOK, BufferIsTheRest, Gone
<1>5. /\ stream' \in Seq(Bytes) /\ Len(stream') = Len(stream) + n
      /\ \A i \in 1..Len(stream) : stream'[i] = stream[i]
      /\ \A i \in (Len(stream) + 1)..(Len(stream) + n) : stream'[i] = chunk[i - Len(stream)]
  <2> DEFINE all == stream \o chunk
  <2>1. /\ all \in Seq(Bytes) /\ Len(all) = Len(stream) + Len(chunk)
        /\ \A i \in 1..(Len(stream) + Len(chunk)) :
             all[i] = IF i <= Len(stream) THEN stream[i] ELSE chunk[i - Len(stream)]
    BY <1>3, <1>4, ConcatProperties
  <2>2. stream' = all
    BY <1>2
  <2>3. /\ \A i \in 1..Len(stream) : i \in 1..(Len(stream) + Len(chunk)) /\ i <= Len(stream)
        /\ \A i \in (Len(stream) + 1)..(Len(stream) + Len(chunk)) :
             i \in 1..(Len(stream) + Len(chunk)) /\ ~(i <= Len(stream))
    BY <1>3, <1>4
  <2> HIDE DEF all
  <2> QED
    BY <1>3, <2>1, <2>2, <2>3
<1>6. /\ buf' \in Seq(Bytes) /\ Len(buf') = Len(buf) + n
      /\ \A i \in 1..Len(buf) : buf'[i] = buf[i]
      /\ \A i \in (Len(buf) + 1)..(Len(buf) + n) : buf'[i] = chunk[i - Len(buf)]
  <2> DEFINE all == buf \o chunk
  <2>1. /\ all \in Seq(Bytes) /\ Len(all) = Len(buf) + Len(chunk)
        /\ \A i \in 1..(Len(buf) + Len(chunk)) :
             all[i] = IF i <= Len(buf) THEN buf[i] ELSE chunk[i - Len(buf)]
    BY <1>3, <1>4, ConcatProperties
  <2>2. buf' = all
    BY <1>2
  <2>3. /\ \A i \in 1..Len(buf) : i \in 1..(Len(buf) + Len(chunk)) /\ i <= Len(buf)
        /\ \A i \in (Len(buf) + 1)..(Len(buf) + Len(chunk)) :
             i \in 1..(Len(buf) + Len(chunk)) /\ ~(i <= Len(buf))
    BY <1>3, <1>4
  <2> HIDE DEF all
  <2> QED
    BY <1>3, <2>1, <2>2, <2>3
<1>7. mjAt' = "cut" /\ UNCHANGED <<frames, cuts, queued, overrun>>
  BY DEF ReadChunk
<1>8. MjpegTypeOK'
  BY <1>2, <1>5, <1>6, <1>7 DEF MjpegInv, MjpegTypeOK
<1>9. Gone' = Gone
  BY <1>3, <1>4, <1>5, <1>6 DEF Gone
<1>10. BufferIsTheRest'
  <2>1. Len(buf') <= Len(stream')
    BY <1>3, <1>4, <1>5, <1>6
  <2>2. ASSUME NEW i \in 1..Len(buf') PROVE buf'[i] = stream'[Gone + i]
    <3>1. CASE i \in 1..Len(buf)
      <4>1. Gone + i \in 1..Len(stream)
        BY <1>4, <3>1 DEF Gone
      <4>2. buf[i] = stream[Gone + i]
        BY <3>1 DEF MjpegInv, BufferIsTheRest
      <4> QED
        BY <1>5, <1>6, <3>1, <4>1, <4>2
    <3>2. CASE i \in (Len(buf) + 1)..(Len(buf) + n)
      <4>1. /\ Gone + i \in (Len(stream) + 1)..(Len(stream) + n)
            /\ (Gone + i) - Len(stream) = i - Len(buf)
        BY <1>3, <1>4, <3>2 DEF Gone
      <4>2. stream'[Gone + i] = chunk[(Gone + i) - Len(stream)]
        BY <1>5, <4>1
      <4>3. buf'[i] = chunk[i - Len(buf)]
        BY <1>6, <3>2
      <4> QED
        BY <4>1, <4>2, <4>3
    <3> QED
      BY <1>3, <1>4, <1>6, <3>1, <3>2
  <2> QED
    BY <1>9, <2>1, <2>2 DEF BufferIsTheRest
<1>11. ASSUME ~overrun PROVE FramesSoFar' /\ StartsAreKept'
  <2>1. Len(cuts) = Len(frames) /\ Len(frames) \in Nat
    BY <1>11 DEF MjpegInv, FramesSoFar, MjpegTypeOK
  <2>2. ASSUME NEW k \in 1..Len(frames)
        PROVE  /\ IsPicture(cuts[k], stream', Behind(k - 1))
               /\ frames[k] = SubSeq(stream', cuts[k][1], cuts[k][2] + 1)
    <3>1. k - 1 \in 0..Len(cuts) /\ k \in 1..Len(cuts)
      BY <2>1
    <3>2. Behind(k - 1) \in Nat \ {0}
      BY <3>1, BehindIsPlace DEF MjpegInv
    <3>3. cuts[k] \in Nat \X Nat
      BY <3>1, ElementOfSeq DEF MjpegInv, MjpegTypeOK
    <3>4. /\ IsPicture(cuts[k], stream, Behind(k - 1))
          /\ frames[k] = SubSeq(stream, cuts[k][1], cuts[k][2] + 1)
      BY <1>11 DEF MjpegInv, FramesSoFar
    <3>5. /\ IsPicture(cuts[k], stream \o chunk, Behind(k - 1))
          /\ SubSeq(stream \o chunk, cuts[k][1], cuts[k][2] + 1)
               = SubSeq(stream, cuts[k][1], cuts[k][2] + 1)
      BY <1>3, <1>4, <3>2, <3>3, <3>4, PictureStays
    <3> QED
      BY <1>2, <3>4, <3>5
  <2>3. FramesSoFar'
    BY <1>7, <2>1, <2>2 DEF FramesSoFar, Behind
  <2> DEFINE from == Behind(Len(frames))
  <2>4. from \in Nat \ {0}
    BY <2>1, BehindIsPlace DEF MjpegInv
  <2>5. /\ from <= Gone + 1 /\ (buf # << >> \/ from = Gone + 1)
        /\ \A k \in Marks(stream, "D8", from) : k > Gone
    BY <1>11 DEF MjpegInv, StartsAreKept
  <2> HIDE DEF from
  <2>6. ASSUME NEW k \in Marks(stream', "D8", from) PROVE k > Gone
    <3>1. k \in Nat /\ k >= from
      BY <2>4 DEF Marks
    <3>2. CASE from = Gone + 1
      BY <1>4, <3>1, <3>2
    <3>3. CASE buf # << >>
      <4>1. Len(buf) >= 1
        BY <1>4, <3>3
      <4>2. k \in Marks(stream, "D8", from) \/ k >= Len(stream)
        BY <1>2, <1>3, <1>4, <2>4, MarksStay
      <4>3. Len(stream) > Gone
        BY <1>4, <4>1 DEF Gone
      <4> QED
        BY <1>4, <2>5, <3>1, <4>2, <4>3
    <3> QED
      BY <2>5, <3>2, <3>3
  <2>7. buf' # << >>
    BY <1>3, <1>4, <1>6
  <2>8. from' = from
    BY <1>7 DEF from, Behind
  <2>9. StartsAreKept'
    <3>1. /\ from' <= Gone' + 1 /\ (buf' # << >> \/ from' = Gone' + 1)
          /\ \A k \in Marks(stream', "D8", from') : k > Gone'
      BY <1>9, <2>5, <2>6, <2>7, <2>8
    <3> QED
      BY <3>1 DEF StartsAreKept, from
  <2> QED
    BY <2>3, <2>9
<1> QED
  BY <1>7, <1>8, <1>10, <1>11 DEF MjpegInv

(* What the markers of the buffer say of the stream behind the last        *)
(* picture.                                                                *)
LEMMA FirstStart ==
  ASSUME MjpegInv, ~overrun, NEW k \in Marks(stream, "D8", Behind(Len(frames)))
  PROVE  /\ k - Gone \in Starts(buf)
         /\ Starts(buf) # {} /\ k >= Gone + First(Starts(buf))
<1>1. Gone \in Nat /\ Len(cuts) = Len(frames) /\ Len(frames) \in Nat
  BY DEF MjpegInv, MjpegTypeOK, BufferIsTheRest, Gone, FramesSoFar
<1>2. Behind(Len(frames)) \in Nat \ {0}
  BY <1>1, BehindIsPlace DEF MjpegInv
<1>3. k > Gone /\ k \in Nat
  BY <1>2 DEF MjpegInv, StartsAreKept, Marks
<1>4. k \in Marks(stream, "D8", Gone + 1)
  BY <1>1, <1>2, <1>3 DEF Marks
<1> DEFINE i == k - Gone
<1>5. i \in Nat \ {0} /\ Gone + i = k
  BY <1>1, <1>3
<1> HIDE DEF i
<1>6. i \in Marks(buf, "D8", 1)
  BY <1>4, <1>5, MarksOfRest DEF MjpegInv
<1>7. First(Starts(buf)) \in Nat /\ First(Starts(buf)) <= i
  <2>1. buf \in Seq(Bytes)
    BY DEF MjpegInv, MjpegTypeOK
  <2>2. 1 \in Nat \ {0} /\ Len(buf) \in Nat
    BY <2>1
  <2> QED
    BY <1>6, <2>1, <2>2, FirstMark DEF Starts
<1> QED
  BY <1>1, <1>5, <1>6, <1>7 DEF Starts, i

LEMMA SendFrameKeeps ==
  ASSUME MjpegInv, SendFrame
  PROVE  MjpegInv'
<1> USE MjpegAssumption
<1> DEFINE start == First(Starts(buf))
           end   == First(Ends(buf))
           from  == Behind(Len(frames))
<1>1. Starts(buf) # {} /\ Ends(buf) = Marks(buf, "D9", start + 2)
  BY DEF SendFrame, Ends
<1>2. /\ buf \in Seq(Bytes) /\ stream \in Seq(Bytes) /\ Len(buf) \in Nat /\ Len(stream) \in Nat
      /\ Gone \in Nat /\ Gone + Len(buf) = Len(stream)
  BY DEF MjpegInv, MjpegTypeOK, BufferIsTheRest, Gone
<1>3. /\ start \in Marks(buf, "D8", 1) /\ start \in 1..(Len(buf) - 1)
      /\ \A i \in Marks(buf, "D8", 1) : start <= i
  <2>1. 1 \in Nat \ {0}
    OBVIOUS
  <2> QED
    BY <1>1, <1>2, <2>1, FirstMark DEF Starts
<1>4. start + 2 \in Nat \ {0}
  BY <1>2, <1>3
<1>5. /\ end \in Marks(buf, "D9", start + 2) /\ end \in (start + 2)..(Len(buf) - 1)
      /\ \A i \in Marks(buf, "D9", start + 2) : end <= i
  <2>1. Marks(buf, "D9", start + 2) # {} /\ end = First(Marks(buf, "D9", start + 2))
    BY <1>1 DEF SendFrame
  <2> HIDE DEF start, end
  <2> QED
    BY <1>2, <1>4, <2>1, FirstMark
<1>6. /\ cuts' = Append(cuts, <<Gone + start, Gone + end>>)
      /\ frames' = Append(frames, SubSeq(buf, start, end + 1))
      /\ buf' = SubSeq(buf, end + 2, Len(buf))
      /\ mjAt = "cut" /\ queued < FrameCap /\ queued' = queued + 1
      /\ UNCHANGED <<stream, mjAt, overrun>>
  BY DEF SendFrame, Gone
<1> HIDE DEF start, end
<1>7. /\ start \in Nat \ {0} /\ end \in Nat \ {0} /\ end + 1 \in Int /\ end + 1 <= Len(buf)
      /\ end + 2 \in Nat \ {0} /\ Len(buf) \in Int /\ end + 2 <= Len(buf) + 1
  BY <1>2, <1>3, <1>5
<1>8. SubSeq(buf, start, end + 1) \in Seq(Bytes)
  BY <1>2, <1>7, SliceOfSeq
<1>9. KeepsFrom(end + 2)
  BY <1>6, <1>7, SliceKeepsFrom DEF MjpegInv
<1>10. BufferIsTheRest' /\ Gone' = Gone + (end + 1)
  BY <1>6, <1>7, <1>9, <1>2, RestStaysRest DEF MjpegInv
<1>11. /\ cuts \in Seq(Nat \X Nat) /\ frames \in Seq(Seq(Bytes))
       /\ Len(cuts) \in Nat /\ Len(frames) \in Nat
  BY DEF MjpegInv, MjpegTypeOK
<1>12. <<Gone + start, Gone + end>> \in Nat \X Nat
  BY <1>2, <1>7
<1>13. /\ cuts' \in Seq(Nat \X Nat) /\ Len(cuts') = Len(cuts) + 1
       /\ cuts'[Len(cuts) + 1] = <<Gone + start, Gone + end>>
       /\ \A i \in 1..Len(cuts) : cuts'[i] = cuts[i]
  BY <1>6, <1>11, <1>12, AppendProperties
<1>14. /\ frames' \in Seq(Seq(Bytes)) /\ Len(frames') = Len(frames) + 1
       /\ frames'[Len(frames) + 1] = SubSeq(buf, start, end + 1)
       /\ \A i \in 1..Len(frames) : frames'[i] = frames[i]
  <2> DEFINE p == SubSeq(buf, start, end + 1)
  <2>1. p \in Seq(Bytes) /\ frames' = Append(frames, p)
    BY <1>6, <1>8
  <2> HIDE DEF p
  <2>2. /\ frames' \in Seq(Seq(Bytes)) /\ Len(frames') = Len(frames) + 1
        /\ frames'[Len(frames) + 1] = p
        /\ \A i \in 1..Len(frames) : frames'[i] = frames[i]
    BY <1>11, <2>1, AppendProperties
  <2> QED
    BY <2>2 DEF p
<1>15. MjpegTypeOK'
  <2>1. queued' \in 0..FrameCap
    BY <1>6 DEF MjpegInv, MjpegTypeOK
  <2>2. buf' \in Seq(Bytes)
    BY <1>9 DEF KeepsFrom
  <2> QED
    BY <1>6, <1>13, <1>14, <2>1, <2>2 DEF MjpegInv, MjpegTypeOK
<1>16. ASSUME ~overrun PROVE FramesSoFar' /\ StartsAreKept'
  <2>1. Len(cuts) = Len(frames)
    BY <1>16 DEF MjpegInv, FramesSoFar
  <2>2. from \in Nat \ {0} /\ from <= Gone + 1
    BY <1>11, <1>16, <2>1, BehindIsPlace DEF MjpegInv, StartsAreKept
  <2>3. \A k \in Marks(stream, "D8", from) : k \in Nat /\ Gone + start <= k
    <3>1. \A k \in Marks(stream, "D8", from) : k >= Gone + start
      BY <1>16, FirstStart DEF start
    <3>2. \A k \in Marks(stream, "D8", from) : k \in Nat
      BY <2>2 DEF Marks
    <3> QED
      BY <1>2, <1>7, <3>1, <3>2
  <2>4. Gone + start \in Marks(stream, "D8", from)
    <3>1. 1 \in Nat \ {0}
      OBVIOUS
    <3>2. Gone + start \in Marks(stream, "D8", Gone + 1)
      BY <1>3, <1>7, <3>1, MarksOfRest DEF MjpegInv
    <3> QED
      BY <1>2, <1>7, <2>2, <3>2 DEF Marks
  <2>5. Gone + end \in Marks(stream, "D9", (Gone + start) + 2)
    <3>1. Gone + end \in Marks(stream, "D9", Gone + (start + 2))
      BY <1>4, <1>5, <1>7, MarksOfRest DEF MjpegInv
    <3>2. Gone + (start + 2) = (Gone + start) + 2
      BY <1>2, <1>7
    <3> QED
      BY <3>1, <3>2
  <2>6. ASSUME NEW k \in Marks(stream, "D9", (Gone + start) + 2) PROVE Gone + end <= k
    <3>1. k \in Nat /\ k >= (Gone + start) + 2 /\ Gone + (start + 2) = (Gone + start) + 2
      BY <1>2, <1>7 DEF Marks
    <3> DEFINE i == k - Gone
    <3>2. i \in Nat \ {0} /\ Gone + i = k
      BY <1>2, <1>7, <3>1
    <3> HIDE DEF i
    <3>3. i \in Marks(buf, "D9", start + 2)
      BY <1>4, <3>1, <3>2, MarksOfRest DEF MjpegInv
    <3> QED
      BY <1>2, <1>5, <1>7, <3>2, <3>3
  <2> DEFINE cut == <<Gone + start, Gone + end>>
  <2>7. cut[1] = Gone + start /\ cut[2] = Gone + end
    OBVIOUS
  <2> HIDE DEF cut
  <2>8. IsPicture(cut, stream, from)
    BY <2>3, <2>4, <2>5, <2>6, <2>7 DEF IsPicture
  <2>9. SubSeq(buf, start, end + 1) = SubSeq(stream, cut[1], cut[2] + 1)
    <3> DEFINE p == SubSeq(buf, start, end + 1)
               q == SubSeq(stream, Gone + start, (Gone + end) + 1)
               width == (end + 2) - start
    <3>1. \A i \in start..(end + 1) : i \in 1..Len(buf)
      BY <1>2, <1>7
    <3>2. \A i \in start..(end + 1) : buf[i] \in Bytes /\ buf[i] = stream[Gone + i]
      BY <1>2, <3>1, ElementOfSeq DEF MjpegInv, BufferIsTheRest
    <3>3. \A i \in (Gone + start)..((Gone + end) + 1) : i \in 1..Len(stream)
      BY <1>2, <1>7
    <3>4. \A i \in (Gone + start)..((Gone + end) + 1) : stream[i] \in Bytes
      BY <1>2, <3>3, ElementOfSeq
    <3>5. /\ p \in Seq(Bytes) /\ Len(p) = width
          /\ \A i \in 1..width : p[i] = buf[(start + i) - 1]
      <4>1. /\ start \in Nat /\ end + 1 \in Nat /\ start <= end + 1
            /\ ((end + 1) - start) + 1 = width /\ width \in Nat
        BY <1>5, <1>7, <1>2
      <4> DEFINE n == end + 1
      <4> HIDE DEF n, width
      <4>2. /\ SubSeq(buf, start, n) \in Seq(Bytes)
            /\ Len(SubSeq(buf, start, n)) = (n - start) + 1
            /\ \A i \in 1..((n - start) + 1) : SubSeq(buf, start, n)[i] = buf[(start + i) - 1]
        BY <3>2, <4>1, SubSeqProperties DEF n
      <4> QED
        BY <4>1, <4>2 DEF n
    <3>6. /\ q \in Seq(Bytes) /\ Len(q) = width
          /\ \A i \in 1..width : q[i] = stream[((Gone + start) + i) - 1]
      <4> DEFINE m == Gone + start
                 n == (Gone + end) + 1
      <4>1. /\ m \in Nat /\ n \in Nat /\ m <= n /\ (n - m) + 1 = width /\ width \in Nat
        BY <1>5, <1>7, <1>2
      <4> HIDE DEF m, n, width
      <4>2. \A i \in m..n : stream[i] \in Bytes
        BY <3>4 DEF m, n
      <4>3. /\ SubSeq(stream, m, n) \in Seq(Bytes)
            /\ Len(SubSeq(stream, m, n)) = (n - m) + 1
            /\ \A i \in 1..((n - m) + 1) : SubSeq(stream, m, n)[i] = stream[(m + i) - 1]
        BY <4>1, <4>2, SubSeqProperties
      <4> QED
        BY <4>1, <4>3 DEF m, n
    <3>7. ASSUME NEW i \in 1..width PROVE p[i] = q[i]
      <4>1. /\ (start + i) - 1 \in start..(end + 1)
            /\ Gone + ((start + i) - 1) = ((Gone + start) + i) - 1
        BY <1>2, <1>5, <1>7
      <4> HIDE DEF p, q, width
      <4> QED
        BY <3>2, <3>5, <3>6, <4>1
    <3>8. p = q
      <4> HIDE DEF p, q, width
      <4> QED
        BY <3>5, <3>6, <3>7, SeqEqual
    <3> QED
      BY <2>7, <3>8
  <2>10. ASSUME NEW i \in 0..Len(cuts) PROVE Behind(i)' = Behind(i)
    <3>1. CASE i = 0
      BY <3>1 DEF Behind
    <3>2. CASE i \in 1..Len(cuts)
      BY <1>13, <3>2 DEF Behind
    <3> QED
      BY <1>11, <3>1, <3>2
  <2>11. ASSUME NEW n \in 1..Len(frames')
         PROVE  /\ IsPicture(cuts'[n], stream', (Behind(n - 1))')
                /\ frames'[n] = SubSeq(stream', cuts'[n][1], cuts'[n][2] + 1)
    <3>1. CASE n \in 1..Len(frames)
      <4>1. n - 1 \in 0..Len(cuts) /\ n \in 1..Len(cuts)
        BY <1>11, <2>1, <3>1
      <4>2. (Behind(n - 1))' = Behind(n - 1) /\ cuts'[n] = cuts[n] /\ frames'[n] = frames[n]
        BY <1>13, <1>14, <3>1, <4>1, <2>10
      <4>3. /\ IsPicture(cuts[n], stream, Behind(n - 1))
            /\ frames[n] = SubSeq(stream, cuts[n][1], cuts[n][2] + 1)
        BY <1>16, <3>1 DEF MjpegInv, FramesSoFar
      <4> QED
        BY <1>6, <4>2, <4>3
    <3>2. CASE n = Len(frames) + 1
      <4>1. cuts'[n] = cut /\ frames'[n] = SubSeq(buf, start, end + 1)
        BY <1>13, <1>14, <2>1, <3>2 DEF cut
      <4>2. n - 1 = Len(frames) /\ n - 1 \in 0..Len(cuts)
        BY <1>11, <2>1, <3>2
      <4>3. (Behind(n - 1))' = from
        BY <2>10, <4>2
      <4> QED
        BY <1>6, <2>8, <2>9, <4>1, <4>3
    <3> QED
      BY <1>11, <1>14, <3>1, <3>2
  <2>12. FramesSoFar'
    BY <1>13, <1>14, <2>1, <2>11 DEF FramesSoFar
  <2>13. Behind(Len(frames))' = Gone' + 1
    <3>1. Behind(Len(frames))' = cuts'[Len(frames')][2] + 2
      BY <1>11, <1>14 DEF Behind
    <3>2. cuts'[Len(frames')] = cut
      BY <1>13, <1>14, <2>1 DEF cut
    <3> QED
      BY <1>2, <1>7, <1>10, <2>7, <3>1, <3>2
  <2>14. \A k \in Marks(stream, "D8", Gone' + 1) : k > Gone'
    BY <1>2, <1>7, <1>10 DEF Marks
  <2>15. StartsAreKept'
    <3>1. Gone' \in Nat
      BY <1>2, <1>7, <1>10
    <3> QED
      BY <1>6, <2>13, <2>14, <3>1 DEF StartsAreKept
  <2> QED
    BY <2>12, <2>15
<1> QED
  BY <1>6, <1>10, <1>15, <1>16 DEF MjpegInv

LEMMA KeepRestKeeps ==
  ASSUME MjpegInv, KeepRest
  PROVE  MjpegInv'
<1> USE MjpegAssumption
<1> DEFINE start == First(Starts(buf))
           rest  == IF Starts(buf) = {} THEN buf ELSE SubSeq(buf, start, Len(buf))
           from  == Behind(Len(frames))
<1>1. /\ buf \in Seq(Bytes) /\ stream \in Seq(Bytes) /\ Len(buf) \in Nat /\ Len(stream) \in Nat
      /\ Gone \in Nat /\ Gone + Len(buf) = Len(stream)
  BY DEF MjpegInv, MjpegTypeOK, BufferIsTheRest, Gone
<1>2. ASSUME Starts(buf) # {} PROVE start \in 1..(Len(buf) - 1)
  <2>1. 1 \in Nat \ {0}
    OBVIOUS
  <2> QED
    BY <1>1, <1>2, <2>1, FirstMark DEF Starts
<1>3. /\ buf' = IF Len(rest) <= BufferSize THEN rest
                ELSE IF Starts(buf) = {} THEN <<buf[Len(buf)]>> ELSE << >>
      /\ overrun' = (overrun \/ (Starts(buf) # {} /\ Len(rest) > BufferSize))
      /\ mjAt' = "read" /\ Ends(buf) = {} /\ UNCHANGED <<stream, frames, cuts, queued>>
  BY DEF KeepRest
<1> HIDE DEF start
<1>4. PICK m \in Nat \ {0} :
        /\ KeepsFrom(m)
        /\ ~overrun' => /\ Starts(buf) # {} => m = start
                        /\ buf' # << >> \/ (buf = << >> /\ m = 1)
  <2>1. CASE Starts(buf) = {} /\ Len(buf) <= BufferSize
    <3>1. buf' = buf
      BY <1>3, <2>1
    <3>2. KeepsFrom(1)
      BY <1>1, <3>1 DEF KeepsFrom
    <3>3. 1 \in Nat \ {0} /\ (buf' # << >> \/ buf = << >>)
      BY <3>1
    <3> QED
      BY <2>1, <3>2, <3>3
  <2>2. CASE Starts(buf) = {} /\ ~(Len(buf) <= BufferSize)
    <3>1. buf' = <<buf[Len(buf)]>> /\ Len(buf) \in 1..Len(buf)
      BY <1>1, <1>3, <2>2
    <3>2. buf[Len(buf)] \in Bytes
      BY <1>1, <3>1, ElementOfSeq
    <3>3. buf' \in Seq(Bytes) /\ Len(buf') = 1 /\ buf'[1] = buf[Len(buf)] /\ buf' # << >>
      BY <3>1, <3>2
    <3>4. KeepsFrom(Len(buf))
      BY <1>1, <3>3 DEF KeepsFrom
    <3> QED
      BY <2>2, <3>1, <3>3, <3>4
  <2>3. CASE Starts(buf) # {} /\ Len(rest) <= BufferSize
    <3>1. buf' = SubSeq(buf, start, Len(buf))
      BY <1>3, <2>3
    <3>2. start \in Nat \ {0} /\ start <= Len(buf)
      BY <1>1, <1>2, <2>3
    <3>3. KeepsFrom(start)
      BY <1>1, <3>1, <3>2, SliceKeepsFrom DEF MjpegInv
    <3>4. buf' # << >>
      BY <1>1, <3>2, <3>3 DEF KeepsFrom
    <3> QED
      BY <3>2, <3>3, <3>4
  <2>4. CASE Starts(buf) # {} /\ ~(Len(rest) <= BufferSize)
    <3>1. rest \in Seq(Bytes) /\ rest = SubSeq(buf, start, Len(buf))
      <4>1. start \in Nat \ {0} /\ Len(buf) \in Int
        BY <1>1, <1>2, <2>4
      <4>2. SubSeq(buf, start, Len(buf)) \in Seq(Bytes)
        BY <1>1, <4>1, SliceOfSeq
      <4> QED
        BY <2>4, <4>2
    <3>2. buf' = << >> /\ overrun'
      <4>1. Len(rest) > BufferSize
        <5>1. Len(rest) \in Nat /\ BufferSize \in Nat
          BY <3>1, MjpegAssumption
        <5>2. ~(Len(rest) <= BufferSize)
          BY <2>4
        <5> HIDE DEF rest
        <5> QED
          BY <5>1, <5>2
      <4>2. overrun' = TRUE
        <5> HIDE DEF rest
        <5> QED
          BY <1>3, <2>4, <4>1, Zenon
      <4> QED
        BY <1>3, <2>4, <4>2
    <3>3. KeepsFrom(Len(buf) + 1) /\ Len(buf) + 1 \in Nat \ {0}
      BY <1>1, <3>2 DEF KeepsFrom
    <3> QED
      BY <3>2, <3>3
  <2> QED
    BY <2>1, <2>2, <2>3, <2>4
<1>5. /\ mjAt' = "read" /\ Ends(buf) = {} /\ UNCHANGED <<stream, frames, cuts, queued>>
      /\ overrun' \in BOOLEAN /\ (~overrun' => ~overrun)
  <2>1. overrun' \in BOOLEAN /\ (~overrun' => ~overrun)
    BY <1>3, Zenon
  <2> QED
    BY <1>3, <2>1
<1>6. MjpegTypeOK'
  BY <1>4, <1>5 DEF MjpegInv, MjpegTypeOK, KeepsFrom
<1>7. BufferIsTheRest' /\ Gone' = Gone + (m - 1)
  BY <1>4, <1>5, RestStaysRest DEF MjpegInv
<1>8. ASSUME ~overrun' PROVE FramesSoFar' /\ StartsAreKept' /\ NoWholePicture'
  <2>1. ~overrun /\ FramesSoFar /\ StartsAreKept
    BY <1>5, <1>8 DEF MjpegInv
  <2>2. FramesSoFar'
    BY <1>5, <2>1 DEF FramesSoFar, Behind
  <2>3. /\ Len(cuts) = Len(frames) /\ Len(frames) \in Nat
    BY <2>1 DEF MjpegInv, FramesSoFar, MjpegTypeOK
  <2>4. from \in Nat \ {0}
    BY <2>3, BehindIsPlace DEF MjpegInv
  <2>5. from' = from
    BY <1>5 DEF Behind
  <2>6. ASSUME NEW k \in Marks(stream, "D8", from)
        PROVE  /\ k \in Nat \ {0} /\ k > Gone' /\ Starts(buf) # {} /\ k >= Gone + start
               /\ start \in Nat \ {0}
    <3>1. Starts(buf) # {} /\ k >= Gone + start
      BY <2>1, FirstStart DEF start
    <3>2. k \in Nat \ {0}
      BY <2>4 DEF Marks
    <3>3. start \in Nat \ {0} /\ m = start
      BY <1>1, <1>2, <1>4, <1>8, <3>1
    <3> QED
      BY <1>1, <1>7, <3>1, <3>2, <3>3
  <2>7. StartsAreKept'
    <3>1. from <= Gone' + 1
      BY <1>1, <1>4, <1>7, <2>1, <2>4 DEF StartsAreKept
    <3>2. buf' # << >> \/ from = Gone' + 1
      <4>1. CASE buf' # << >>
        BY <4>1
      <4>2. CASE buf = << >> /\ m = 1
        BY <1>1, <1>7, <2>1, <4>2 DEF StartsAreKept
      <4> QED
        BY <1>4, <1>8, <4>1, <4>2
    <3> HIDE DEF from
    <3>3. /\ from' <= Gone' + 1 /\ (buf' # << >> \/ from' = Gone' + 1)
          /\ \A k \in Marks(stream', "D8", from') : k > Gone'
      BY <1>5, <2>5, <2>6, <3>1, <3>2
    <3> QED
      BY <3>3 DEF StartsAreKept, from
  <2>8. ASSUME NEW k \in Marks(stream, "D8", from), NEW i \in Marks(stream, "D9", k + 2)
        PROVE  FALSE
    <3>1. /\ k \in Nat \ {0} /\ Starts(buf) # {} /\ k >= Gone + start /\ start \in Nat \ {0}
      BY <2>6
    <3>2. i \in Marks(stream, "D9", Gone + (start + 2)) /\ i \in Nat
      BY <1>1, <3>1 DEF Marks
    <3>3. i >= k + 2
      BY <3>1 DEF Marks
    <3> DEFINE j == i - Gone
    <3>4. j \in Nat \ {0} /\ Gone + j = i
      BY <1>1, <3>1, <3>2, <3>3
    <3> HIDE DEF j
    <3>5. start + 2 \in Nat \ {0}
      BY <3>1
    <3>6. j \in Marks(buf, "D9", start + 2)
      BY <3>2, <3>4, <3>5, MarksOfRest DEF MjpegInv
    <3> QED
      BY <1>5, <3>1, <3>6 DEF Ends, start
  <2>9. NoWholePicture'
    <3>1. \A k \in Marks(stream, "D8", from) : Marks(stream, "D9", k + 2) = {}
      BY <2>8
    <3> HIDE DEF from
    <3>2. \A k \in Marks(stream', "D8", from') : Marks(stream', "D9", k + 2) = {}
      BY <1>5, <2>5, <3>1
    <3> QED
      BY <3>2 DEF NoWholePicture, from
  <2> QED
    BY <2>2, <2>7, <2>9
<1> QED
  BY <1>6, <1>7, <1>8 DEF MjpegInv

LEMMA MjpegInvStep ==
  ASSUME MjpegInv, [MjpegNext]_mjVars
  PROVE  MjpegInv'
<1> USE DEF MjpegInv, BufferIsTheRest, FramesSoFar, StartsAreKept, NoWholePicture, Gone, Behind
<1>1. CASE TakeFrame
  <2>1. UNCHANGED <<stream, buf, mjAt, frames, cuts, overrun>> /\ queued' \in 0..FrameCap
    BY <1>1, MjpegAssumption DEF TakeFrame, MjpegTypeOK
  <2> QED
    BY <2>1 DEF MjpegTypeOK
<1>2. CASE StopReading
  BY <1>2 DEF StopReading, MjpegTypeOK
<1>3. CASE UNCHANGED mjVars
  BY <1>3 DEF mjVars, MjpegTypeOK
<1> QED
  BY <1>1, <1>2, <1>3, ReadChunkKeeps, SendFrameKeeps, KeepRestKeeps DEF MjpegNext

(* The pictures of ffmpeg's output are cut out of it as they lie in it     *)
(* (ReadMJPEGFrames), for chunks and a buffer of any size.                 *)
THEOREM MjpegInvariant == MjpegSpec => []MjpegInv
<1>1. ASSUME MjpegInit PROVE MjpegInv
  <2>1. /\ stream \in Seq(Bytes) /\ Len(stream) = 0 /\ buf \in Seq(Bytes) /\ Len(buf) = 0
        /\ frames \in Seq(Seq(Bytes)) /\ Len(frames) = 0
        /\ cuts \in Seq(Nat \X Nat) /\ Len(cuts) = 0
    BY <1>1 DEF MjpegInit
  <2>2. overrun \in BOOLEAN
    BY <1>1, Zenon DEF MjpegInit
  <2>3. MjpegTypeOK /\ BufferIsTheRest
    BY <1>1, <2>1, <2>2, MjpegAssumption DEF MjpegInit, MjpegTypeOK, BufferIsTheRest
  <2>4. Behind(Len(frames)) = 1 /\ Gone = 0
    BY <2>1 DEF Behind, Gone
  <2>5. Marks(stream, "D8", 1) = {}
    BY <2>1 DEF Marks
  <2> QED
    BY <2>1, <2>3, <2>4, <2>5 DEF MjpegInv, FramesSoFar, StartsAreKept, NoWholePicture
<1> QED
  BY <1>1, MjpegInvStep, PTL DEF MjpegSpec

LEMMA MjpegInvShows == MjpegInv => MjpegTypeOK /\ FramesAreThePictures
<1>1. frames \in Seq(Seq(Bytes)) => DOMAIN frames = 1..Len(frames)
  OBVIOUS
<1> QED
  BY <1>1 DEF MjpegInv, MjpegTypeOK, FramesAreThePictures, FramesSoFar, NoWholePicture

-------------------------------------------------------------------------------
(* The badge of the LAN connection: its types.                             *)

ProbeRecords ==
  [running : BOOLEAN, result : {"none", "ok", "failed"}, failCount : 0..(ppppMaxRetries + 1)]
BadgeRecords ==
  [open : BOOLEAN, shows : {"", "connected", "disconnected", "dormant"},
   wasConnected : BOOLEAN, mqttWasStale : BOOLEAN, wantsProbe : BOOLEAN]

LEMMA BadgeKeepsType ==
  ASSUME badge \in [Badges -> BadgeRecords], NEW b \in Badges, NEW r \in BadgeRecords
  PROVE  [badge EXCEPT ![b] = r] \in [Badges -> BadgeRecords]
OBVIOUS

LEMMA StatusTypeStep ==
  ASSUME StatusTypeOK, [StatusNext]_statusVars
  PROVE  StatusTypeOK'
<1> USE StatusAssumption
<1>1. /\ probe \in ProbeRecords /\ badge \in [Badges -> BadgeRecords]
      /\ lastProbe \in {"never", "recent", "retry", "probe"}
      /\ svc \in {"stopped", "starting", "connected"}
      /\ reachable \in BOOLEAN /\ mqtt \in {"none", "fresh", "stale"}
  BY DEF StatusTypeOK, ProbeRecords, BadgeRecords
<1>2. SUFFICES /\ probe' \in ProbeRecords /\ badge' \in [Badges -> BadgeRecords]
               /\ lastProbe' \in {"never", "recent", "retry", "probe"}
               /\ svc' \in {"stopped", "starting", "connected"}
               /\ reachable' \in BOOLEAN /\ mqtt' \in {"none", "fresh", "stale"}
  BY DEF StatusTypeOK, ProbeRecords, BadgeRecords
<1>3. Closed \in BadgeRecords
  BY DEF Closed, BadgeRecords
<1>4. ASSUME NEW b \in Badges, OpenBadge(b)
      PROVE  badge' \in [Badges -> BadgeRecords]
  <2> DEFINE first == (Watching = {})
             r     == [badge[b] EXCEPT !.open = TRUE, !.wantsProbe = first]
  <2>1. badge' = [badge EXCEPT ![b] = r]
    BY <1>1, <1>4 DEF OpenBadge
  <2>2. first \in BOOLEAN
    BY Zenon
  <2>3. r \in BadgeRecords
    <3> HIDE DEF first
    <3> QED
      BY <1>1, <2>2 DEF BadgeRecords
  <2> HIDE DEF r
  <2> QED
    BY <1>1, <2>1, <2>3, BadgeKeepsType
<1>5. ASSUME NEW b \in Badges, CloseBadge(b)
      PROVE  badge' \in [Badges -> BadgeRecords]
  <2> DEFINE r == [Closed EXCEPT !.wantsProbe = badge[b].wantsProbe]
  <2>1. badge' = [badge EXCEPT ![b] = r]
    BY <1>5 DEF CloseBadge
  <2>2. badge[b].wantsProbe \in BOOLEAN
    BY <1>1 DEF BadgeRecords
  <2>3. r \in BadgeRecords
    BY <1>3, <2>2 DEF BadgeRecords
  <2> HIDE DEF r
  <2> QED
    BY <1>1, <2>1, <2>3, BadgeKeepsType
<1>6. ASSUME NEW b \in Badges, startProbe(b)
      PROVE  badge' \in [Badges -> BadgeRecords] /\ probe' \in ProbeRecords
  <2> DEFINE r  == [badge[b] EXCEPT !.wantsProbe = FALSE]
             on == (probe.running \/ Watching # {})
  <2>1. badge' = [badge EXCEPT ![b] = r] /\ probe' = [probe EXCEPT !.running = on]
    BY <1>1, <1>6 DEF startProbe
  <2>2. r \in BadgeRecords
    BY <1>1 DEF BadgeRecords
  <2>3. on \in BOOLEAN
    BY Zenon
  <2> HIDE DEF r, on
  <2>4. probe' \in ProbeRecords
    BY <1>1, <2>1, <2>3 DEF ProbeRecords
  <2> QED
    BY <1>1, <2>1, <2>2, <2>4, BadgeKeepsType
<1>7. ASSUME NEW b \in Badges, PollConnected(b)
      PROVE  badge' \in [Badges -> BadgeRecords] /\ probe' \in ProbeRecords
  <2> DEFINE r == [badge[b] EXCEPT !.shows = "connected", !.wasConnected = TRUE]
  <2>1. /\ badge' = [badge EXCEPT ![b] = r]
        /\ probe' = [probe EXCEPT !.result = "none", !.failCount = 0]
    BY <1>1, <1>7 DEF PollConnected
  <2>2. r \in BadgeRecords
    BY <1>1 DEF BadgeRecords
  <2> HIDE DEF r
  <2>3. 0 \in 0..(ppppMaxRetries + 1)
    OBVIOUS
  <2>4. probe' \in ProbeRecords
    BY <1>1, <2>1, <2>3 DEF ProbeRecords
  <2> QED
    BY <1>1, <2>1, <2>2, <2>4, BadgeKeepsType
<1>8. ASSUME NEW b \in Badges, PollOtherwise(b)
      PROVE  badge' \in [Badges -> BadgeRecords] /\ probe' \in ProbeRecords
  <2> DEFINE p == IF Recovered(b) THEN [probe EXCEPT !.result = "none", !.failCount = 0] ELSE probe
             want  == ShouldProbe(b, p)
             old   == (mqtt = "stale")
             was   == badge[b].wasConnected /\ ~(Shown(b, p) = "dormant" /\ svc = "stopped")
             shown == Shown(b, p)
             r == [badge[b] EXCEPT !.shows = shown, !.wantsProbe = want,
                                   !.mqttWasStale = old, !.wasConnected = was]
  <2>1. probe' = p /\ badge' = [badge EXCEPT ![b] = r]
    <3>1. probe' = p
      BY <1>8 DEF PollOtherwise
    <3>2. badge' = [badge EXCEPT ![b] = r]
      BY <1>8, Zenon DEF PollOtherwise
    <3> QED
      BY <3>1, <3>2
  <2>2. p \in ProbeRecords
    <3>1. 0 \in 0..(ppppMaxRetries + 1)
      OBVIOUS
    <3>2. [probe EXCEPT !.result = "none", !.failCount = 0] \in ProbeRecords
      BY <1>1, <3>1 DEF ProbeRecords
    <3> QED
      BY <1>1, <3>2, Zenon
  <2>3. want \in BOOLEAN
    BY Zenon DEF ShouldProbe
  <2>4. old \in BOOLEAN /\ was \in BOOLEAN
    BY Zenon
  <2>5. shown \in {"", "connected", "disconnected", "dormant"}
    <3> HIDE DEF p
    <3>1. p.result \in {"none", "ok", "failed"}
      BY <2>2 DEF ProbeRecords
    <3> QED
      BY <3>1 DEF Shown
  <2> HIDE DEF p, want, old, was, shown
  <2>6. r \in BadgeRecords
    BY <1>1, <2>3, <2>4, <2>5 DEF BadgeRecords
  <2> HIDE DEF r
  <2> QED
    BY <1>1, <2>1, <2>2, <2>6, BadgeKeepsType
<1>9. CASE \E b \in Badges : OpenBadge(b) \/ CloseBadge(b)
  BY <1>1, <1>4, <1>5, <1>9 DEF OpenBadge, CloseBadge
<1>10. CASE \E b \in Badges : startProbe(b)
  BY <1>1, <1>6, <1>10 DEF startProbe
<1>11. CASE \E b \in Badges : PollConnected(b) \/ PollOtherwise(b)
  BY <1>1, <1>7, <1>8, <1>11 DEF PollConnected, PollOtherwise
<1>12. CASE StatusProbeEnds
  <2> DEFINE ok == reachable /\ svc = "stopped"
             n  == IF ok THEN 0 ELSE IF probe.failCount > ppppMaxRetries
                   THEN probe.failCount ELSE probe.failCount + 1
             res == IF ok THEN "ok" ELSE "failed"
  <2>1. probe' = [running |-> FALSE, result |-> res, failCount |-> n]
    BY <1>12 DEF StatusProbeEnds
  <2>2. n \in 0..(ppppMaxRetries + 1) /\ res \in {"none", "ok", "failed"}
    BY <1>1 DEF ProbeRecords
  <2> HIDE DEF ok, n, res
  <2>3. probe' \in ProbeRecords
    BY <2>1, <2>2 DEF ProbeRecords
  <2> QED
    BY <1>1, <1>12, <2>3 DEF StatusProbeEnds
<1>13. CASE ProbeAges
  BY <1>1, <1>13 DEF ProbeAges
<1>14. CASE ServiceMoves
  BY <1>1, <1>14 DEF ServiceMoves
<1>15. CASE LanChanges
  <2>1. (~reachable) \in BOOLEAN
    BY Zenon
  <2> QED
    BY <1>1, <1>15, <2>1 DEF LanChanges
<1>16. CASE MqttChanges
  BY <1>1, <1>16 DEF MqttChanges
<1>17. CASE UNCHANGED statusVars
  BY <1>1, <1>17 DEF statusVars
<1> QED
  BY <1>9, <1>10, <1>11, <1>12, <1>13, <1>14, <1>15, <1>16, <1>17 DEF StatusNext, Poll

THEOREM StatusTypeCorrect == StatusSpec => []StatusTypeOK
<1>1. ASSUME StatusInit PROVE StatusTypeOK
  <2>1. Closed \in BadgeRecords
    BY DEF Closed, BadgeRecords
  <2>2. badge \in [Badges -> BadgeRecords]
    BY <1>1, <2>1 DEF StatusInit
  <2>3. probe \in ProbeRecords
    BY <1>1, StatusAssumption DEF StatusInit, ProbeRecords
  <2>4. reachable \in BOOLEAN
    BY <1>1, Zenon DEF StatusInit
  <2> QED
    BY <1>1, <2>2, <2>3, <2>4 DEF StatusInit, StatusTypeOK, ProbeRecords, BadgeRecords
<1> QED
  BY <1>1, StatusTypeStep, PTL DEF StatusSpec

-------------------------------------------------------------------------------
(* The notifications.                                                      *)

(* What the recipient will have been told when the post ends. *)
Word == IF sending \in Messages THEN sending ELSE told

NoState(i) == events[i].state = Nothing

(* The newest state of the printer is the last one in the channel, or the  *)
(* one handled last.                                                       *)
SeenLast ==
  \/ /\ \A i \in DOMAIN events : NoState(i)
     /\ lastState = printer
  \/ \E i \in DOMAIN events :
       /\ events[i].state = printer
       /\ \A j \in DOMAIN events : j > i => NoState(j)

NotifInv ==
  /\ NotifTypeOK
  /\ ~missed => SeenLast
  /\ ~missed /\ lastState # "unknown" => Fits(Word, lastState)
  /\ lastState = "unknown" => told = Nothing /\ sending = Nothing

Events == [state : Stats \union {Nothing}, progress : 0..FullPercent]

LEMMA OfferedEvent ==
  ASSUME NotifTypeOK, NEW event \in Events, Offer(event)
  PROVE  /\ events' \in Seq(Events) /\ Len(events') <= TapSize
         /\ \/ events' = events
            \/ /\ events' # events /\ DOMAIN events' = 1..(Len(events) + 1)
               /\ DOMAIN events = 1..Len(events) /\ Len(events) \in Nat
               /\ events'[Len(events) + 1] = event
               /\ \A i \in DOMAIN events : events'[i] = events[i]
<1>1. events \in Seq(Events) /\ Len(events) \in Nat /\ Len(events) <= TapSize /\ TapSize \in Nat
  BY NotificationsAssumption DEF NotifTypeOK, Events
<1>2. CASE events' = events
  BY <1>1, <1>2
<1>3. CASE Len(events) < TapSize /\ events' = Append(events, event)
  <2>1. events' \in Seq(Events) /\ Len(events') = Len(events) + 1
        /\ events'[Len(events) + 1] = event /\ \A i \in 1..Len(events) : events'[i] = events[i]
    BY <1>1, <1>3, AppendProperties
  <2>2. DOMAIN events' = 1..(Len(events) + 1) /\ DOMAIN events = 1..Len(events)
    BY <1>1, <2>1, LenProperties
  <2>3. Len(events') <= TapSize /\ events' # events
    BY <1>1, <1>3, <2>1
  <2> QED
    BY <1>1, <2>1, <2>2, <2>3
<1> QED
  BY <1>2, <1>3 DEF Offer

LEMMA TakenEvent ==
  ASSUME NotifTypeOK, Takes
  PROVE  /\ Tail(events) \in Seq(Events) /\ Len(Tail(events)) <= TapSize
         /\ Head(events) \in Events /\ Head(events) = events[1]
         /\ Len(events) \in Nat \ {0} /\ DOMAIN events = 1..Len(events)
         /\ DOMAIN Tail(events) = 1..(Len(events) - 1)
         /\ \A i \in 1..(Len(events) - 1) : Tail(events)[i] = events[i + 1]
<1>1. events \in Seq(Events) /\ events # << >> /\ Len(events) <= TapSize /\ TapSize \in Nat
  BY NotificationsAssumption DEF NotifTypeOK, Events, Takes
<1>2. /\ Head(events) \in Events /\ Tail(events) \in Seq(Events)
      /\ Len(Tail(events)) = Len(events) - 1
      /\ \A i \in 1..Len(Tail(events)) : Tail(events)[i] = events[i + 1]
  BY <1>1, HeadTailProperties
<1>3. Len(events) \in Nat \ {0} /\ Head(events) = events[1]
  BY <1>1, EmptySeq, LenProperties
<1>4. DOMAIN events = 1..Len(events) /\ DOMAIN Tail(events) = 1..(Len(events) - 1)
  BY <1>1, <1>2, LenProperties
<1> QED
  BY <1>1, <1>2, <1>3, <1>4

(* Without the state of an event nothing of SeenLast is lost at its end.   *)
LEMMA SeenLastStays ==
  ASSUME NotifTypeOK, SeenLast, NEW value \in Progress, Offer(ProgressEvent(value)),
         UNCHANGED <<printer, lastState>>
  PROVE  SeenLast'
<1>1. ProgressEvent(value) \in Events
  BY NotificationsAssumption DEF ProgressEvent, Events, Progress
<1>2. CASE events' = events
  BY <1>2 DEF SeenLast, NoState
<1>3. CASE events' # events
  <2>1. PICK n \in Nat : /\ DOMAIN events' = 1..(n + 1) /\ DOMAIN events = 1..n
                         /\ events'[n + 1] = ProgressEvent(value)
                         /\ \A i \in DOMAIN events : events'[i] = events[i]
    BY <1>1, <1>3, OfferedEvent
  <2>2. NoState(n + 1)'
    BY <2>1 DEF ProgressEvent, NoState
  <2>3. \A i \in DOMAIN events : (NoState(i)' <=> NoState(i)) /\ i \in DOMAIN events'
    BY <2>1 DEF NoState
  <2>4. \A i \in DOMAIN events' : i \in DOMAIN events \/ i = n + 1
    BY <2>1
  <2>5. CASE (\A i \in DOMAIN events : NoState(i)) /\ lastState = printer
    <3>1. \A i \in DOMAIN events' : NoState(i)'
      BY <2>2, <2>3, <2>4, <2>5
    <3> QED
      BY <2>5, <3>1 DEF SeenLast
  <2>6. ASSUME NEW i \in DOMAIN events, events[i].state = printer,
               \A j \in DOMAIN events : j > i => NoState(j)
        PROVE  SeenLast'
    <3>1. i \in DOMAIN events' /\ events'[i].state = printer'
      BY <2>1, <2>3, <2>6
    <3>2. \A j \in DOMAIN events' : j > i => NoState(j)'
      BY <2>2, <2>3, <2>4, <2>6
    <3> QED
      BY <3>1, <3>2 DEF SeenLast
  <2> QED
    BY <2>5, <2>6 DEF SeenLast
<1> QED
  BY <1>2, <1>3

LEMMA PrinterTurnsKeeps ==
  ASSUME NotifInv, NEW state \in Stats, PrinterTurns(state)
  PROVE  NotifInv'
<1>1. NotifTypeOK /\ StateEvent(state) \in Events
  BY NotificationsAssumption DEF NotifInv, StateEvent, Events
<1>2. /\ events' \in Seq(Events) /\ Len(events') <= TapSize
      /\ \/ events' = events
         \/ /\ events' # events /\ DOMAIN events' = 1..(Len(events) + 1)
            /\ Len(events) \in Nat /\ events'[Len(events) + 1] = StateEvent(state)
  BY <1>1, OfferedEvent DEF PrinterTurns
<1>3. missed' \in BOOLEAN
  BY Zenon DEF PrinterTurns
<1>4. NotifTypeOK'
  BY <1>1, <1>2, <1>3 DEF PrinterTurns, NotifTypeOK, Events
<1>5. ~missed' => ~missed /\ events' # events
  BY DEF PrinterTurns
<1>6. ~missed' => SeenLast'
  <2>1. ASSUME events' # events PROVE SeenLast'
    <3>1. /\ Len(events) + 1 \in DOMAIN events'
          /\ \A j \in DOMAIN events' : ~(j > Len(events) + 1)
      BY <1>2, <2>1
    <3>2. events'[Len(events) + 1].state = printer'
      BY <1>2, <2>1 DEF StateEvent, PrinterTurns
    <3> QED
      BY <3>1, <3>2 DEF SeenLast
  <2> QED
    BY <1>5, <2>1
<1>7. Word' = Word /\ UNCHANGED <<lastState, told, sending>>
  BY DEF PrinterTurns, Word
<1> QED
  BY <1>4, <1>5, <1>6, <1>7 DEF NotifInv, Fits

LEMMA ProgressReportKeeps ==
  ASSUME NotifInv, NEW value \in Progress, ProgressReport(value)
  PROVE  NotifInv'
<1>1. NotifTypeOK /\ ProgressEvent(value) \in Events
  BY NotificationsAssumption DEF NotifInv, ProgressEvent, Events, Progress
<1>2. events' \in Seq(Events) /\ Len(events') <= TapSize
  BY <1>1, OfferedEvent DEF ProgressReport
<1>3. NotifTypeOK'
  BY <1>1, <1>2 DEF ProgressReport, NotifTypeOK, Events
<1>4. SeenLast => SeenLast'
  BY <1>1, SeenLastStays DEF ProgressReport
<1>5. UNCHANGED <<lastState, told, sending, missed>> /\ Word' = Word
  BY DEF ProgressReport, Word
<1> QED
  BY <1>3, <1>4, <1>5 DEF NotifInv, Fits

(* An event leaves the channel, and what it says is the last thing seen.   *)
LEMMA SeenLastMoves ==
  ASSUME NotifTypeOK, SeenLast, Takes, events' = Tail(events), printer' = printer,
         lastState' = IF Head(events).state = Nothing THEN lastState ELSE Head(events).state
  PROVE  SeenLast'
<1>1. /\ Len(events) \in Nat \ {0} /\ DOMAIN events = 1..Len(events)
      /\ Head(events) = events[1]
      /\ DOMAIN events' = 1..(Len(events) - 1)
      /\ \A i \in 1..(Len(events) - 1) : events'[i] = events[i + 1]
  BY TakenEvent
<1>2. 1 \in DOMAIN events
  BY <1>1
<1>3. \A i \in DOMAIN events' : i + 1 \in DOMAIN events /\ (NoState(i)' <=> NoState(i + 1))
  BY <1>1 DEF NoState
<1>4. CASE (\A i \in DOMAIN events : NoState(i)) /\ lastState = printer
  <2>1. \A i \in DOMAIN events' : NoState(i)'
    BY <1>3, <1>4
  <2>2. lastState' = printer'
    BY <1>1, <1>2, <1>4 DEF NoState
  <2> QED
    BY <2>1, <2>2 DEF SeenLast
<1>5. ASSUME NEW i \in DOMAIN events, events[i].state = printer,
             \A j \in DOMAIN events : j > i => NoState(j)
      PROVE  SeenLast'
  <2>1. CASE i = 1
    <3>1. \A j \in DOMAIN events' : NoState(j)'
      <4> TAKE j \in DOMAIN events'
      <4>1. j + 1 \in DOMAIN events /\ j + 1 > i
        BY <1>1, <2>1
      <4> QED
        BY <1>3, <1>5, <4>1
    <3>2. CASE printer # Nothing
      <4>1. lastState' = printer'
        BY <1>1, <1>5, <2>1, <3>2
      <4> QED
        BY <3>1, <4>1 DEF SeenLast
    <3>3. printer # Nothing
      BY DEF NotifTypeOK, Stats, Nothing
    <3> QED
      BY <3>2, <3>3
  <2>2. CASE i # 1
    <3>1. i - 1 \in DOMAIN events' /\ events'[i - 1] = events[i]
      BY <1>1, <2>2
    <3>2. \A j \in DOMAIN events' : j > i - 1 => NoState(j)'
      <4> TAKE j \in DOMAIN events'
      <4>1. j > i - 1 => j + 1 > i
        BY <1>1
      <4> QED
        BY <1>3, <1>5, <4>1
    <3>3. events'[i - 1].state = printer'
      BY <1>5, <3>1
    <3> QED
      BY <3>1, <3>2, <3>3 DEF SeenLast
  <2> QED
    BY <2>1, <2>2
<1> QED
  BY <1>4, <1>5 DEF SeenLast

LEMMA HandleStateKeeps ==
  ASSUME NotifInv, handleStateTransition
  PROVE  NotifInv'
<1> DEFINE state   == Head(events).state
           message == Message(lastState, state)
<1>1. /\ NotifTypeOK /\ Takes /\ sending = Nothing
      /\ state # Nothing
      /\ lastState' = state
      /\ sending' = (IF appriseOn THEN message ELSE Nothing)
      /\ missed' = (missed \/ NotSaid(lastState, state) \/ (message # Nothing /\ ~appriseOn))
      /\ events' = Tail(events)
      /\ UNCHANGED <<printer, tapped, appriseOn, told>>
  BY DEF handleStateTransition, NotifInv, Takes, Send
<1>2. events' \in Seq(Events) /\ Len(events') <= TapSize /\ Head(events) \in Events
  BY <1>1, TakenEvent
<1>3. state \in Stats
  BY <1>1, <1>2 DEF Events
<1> HIDE DEF state
<1>4. message \in Messages \union {Nothing}
  BY DEF Message, Messages
<1>5. /\ lastProgressNotified' \in -1..FullPercent /\ progressSendCount' \in Nat
  <2>1. lastProgressNotified \in -1..FullPercent /\ progressSendCount \in Nat /\ FullPercent \in Nat
    BY <1>1, NotificationsAssumption DEF NotifTypeOK
  <2>2. \/ lastProgressNotified' = -1 /\ progressSendCount' = 0
        \/ UNCHANGED <<lastProgressNotified, progressSendCount>>
    BY DEF handleStateTransition
  <2> QED
    BY <2>1, <2>2
<1>6. missed' \in BOOLEAN
  BY <1>1, Zenon
<1>7. sending' \in Messages \union {"progress", Nothing}
  BY <1>1, <1>4
<1>8. NotifTypeOK'
  BY <1>1, <1>2, <1>3, <1>5, <1>6, <1>7 DEF NotifTypeOK, Events
<1>9. ~missed' => SeenLast'
  BY <1>1, SeenLastMoves DEF NotifInv, state
<1>10. ASSUME ~missed' PROVE Fits(Word', state)
  <2>1. ~missed /\ ~NotSaid(lastState, state) /\ (message = Nothing \/ appriseOn)
    BY <1>1, <1>10
  <2>2. CASE message # Nothing
    <3>1. Word' = message
      BY <1>1, <1>4, <2>1, <2>2 DEF Word
    <3>2. Fits(message, state)
      BY <1>3, <2>2 DEF Message, Fits, Stats, Nothing
    <3> QED
      BY <3>1, <3>2
  <2>3. CASE message = Nothing
    <3>1. Word' = told /\ Word = told
      BY <1>1, <2>3 DEF Word, Messages, Nothing
    <3>2. IF lastState = "unknown" THEN told = Nothing ELSE Fits(told, lastState)
      BY <2>1, <3>1 DEF NotifInv
    <3>3. lastState \in Stats \union {"unknown"}
      BY <1>1 DEF NotifTypeOK
    <3>4. Fits(told, state)
      BY <1>3, <2>1, <2>3, <3>2, <3>3 DEF Message, NotSaid, Fits, Stats, Nothing
    <3> QED
      BY <3>1, <3>4
  <2> QED
    BY <2>2, <2>3
<1>11. lastState' # "unknown"
  BY <1>1, <1>3 DEF Stats
<1> QED
  BY <1>1, <1>8, <1>9, <1>10, <1>11 DEF NotifInv, Fits

LEMMA MaybeProgressKeeps ==
  ASSUME NotifInv, maybeProgressNotification
  PROVE  NotifInv'
<1>1. /\ NotifTypeOK /\ Takes /\ sending = Nothing
      /\ Head(events).state = Nothing
      /\ events' = Tail(events)
      /\ UNCHANGED <<printer, tapped, lastState, appriseOn, told, missed>>
      /\ \/ /\ lastState = "printing"
            /\ lastProgressNotified' = Head(events).progress
            /\ progressSendCount' = progressSendCount + 1
            /\ sending' \in {"progress", Nothing}
         \/ UNCHANGED <<lastProgressNotified, progressSendCount, sending>>
  BY DEF maybeProgressNotification, NotifInv, Takes, Send, ProgressIsNews
<1>2. events' \in Seq(Events) /\ Len(events') <= TapSize /\ Head(events) \in Events
  BY <1>1, TakenEvent
<1>3. lastProgressNotified' \in -1..FullPercent /\ progressSendCount' \in Nat
  <2>1. Head(events).progress \in 0..FullPercent /\ FullPercent \in Nat
    BY <1>2, NotificationsAssumption DEF Events
  <2>2. lastProgressNotified \in -1..FullPercent /\ progressSendCount \in Nat
    BY <1>1 DEF NotifTypeOK
  <2> QED
    BY <1>1, <2>1, <2>2
<1>4. sending' \in {"progress", Nothing} /\ (lastState = "unknown" => sending' = Nothing)
  BY <1>1
<1>5. NotifTypeOK'
  BY <1>1, <1>2, <1>3, <1>4 DEF NotifTypeOK, Events
<1>6. SeenLast => SeenLast'
  BY <1>1, SeenLastMoves
<1>7. Word' = Word
  BY <1>1, <1>4 DEF Word, Messages, Nothing
<1> QED
  BY <1>1, <1>4, <1>5, <1>6, <1>7 DEF NotifInv, Fits

LEMMA PostEndsKeeps ==
  ASSUME NotifInv, PostEnds
  PROVE  NotifInv'
<1>1. /\ NotifTypeOK /\ sending # Nothing /\ sending' = Nothing
      /\ told' = (IF sending = "progress" THEN told ELSE sending)
      /\ missed' = (missed /\ ~(tapped /\ events = << >> /\ lastState = printer
                                  /\ Fits(told', printer)))
      /\ UNCHANGED <<printer, tapped, events, lastState, lastProgressNotified,
                     progressSendCount, appriseOn>>
  BY DEF PostEnds, NotifInv
<1>2. told' \in Messages \union {Nothing}
  BY <1>1 DEF NotifTypeOK
<1>3. missed' \in BOOLEAN
  BY <1>1, Zenon
<1>4. NotifTypeOK'
  BY <1>1, <1>2, <1>3 DEF NotifTypeOK
<1>5. Word' = told' /\ Word = told'
  BY <1>1 DEF Word, NotifTypeOK, Messages, Nothing
<1>6. lastState # "unknown"
  BY <1>1 DEF NotifInv
<1>7. CASE ~missed
  <2>1. SeenLast => SeenLast'
    BY <1>1 DEF SeenLast, NoState
  <2> QED
    BY <1>1, <1>4, <1>5, <1>6, <1>7, <2>1 DEF NotifInv, Fits
<1>8. CASE missed
  <2>1. ~missed' => events = << >> /\ lastState = printer /\ Fits(told', printer)
    BY <1>1, <1>8
  <2>2. events = << >> => DOMAIN events = {}
    OBVIOUS
  <2>3. ~missed' => SeenLast'
    BY <1>1, <2>1, <2>2 DEF SeenLast
  <2> QED
    BY <1>1, <1>4, <1>5, <1>6, <2>1, <2>3 DEF NotifInv, Fits
<1> QED
  BY <1>7, <1>8

LEMMA PostFailsKeeps ==
  ASSUME NotifInv, PostFails
  PROVE  NotifInv'
<1>1. /\ NotifTypeOK /\ sending # Nothing /\ sending' = Nothing
      /\ missed' = (missed \/ sending # "progress")
      /\ UNCHANGED <<printer, tapped, events, lastState, lastProgressNotified,
                     progressSendCount, appriseOn, told>>
  BY DEF PostFails, NotifInv
<1>2. missed' \in BOOLEAN
  BY <1>1, Zenon
<1>3. NotifTypeOK'
  BY <1>1, <1>2 DEF NotifTypeOK
<1>4. ~missed' => Word' = Word
  BY <1>1 DEF Word, Messages, Nothing
<1>5. SeenLast => SeenLast'
  BY <1>1 DEF SeenLast, NoState
<1> QED
  BY <1>1, <1>3, <1>4, <1>5 DEF NotifInv, Fits

LEMMA NotifStopsKeeps ==
  ASSUME NotifInv, NotifStops
  PROVE  NotifInv'
<1>1. /\ NotifTypeOK /\ events' = << >> /\ tapped' = FALSE
      /\ missed' = (missed \/ \E i \in DOMAIN events : events[i].state # Nothing)
      /\ UNCHANGED <<printer, lastState, lastProgressNotified, progressSendCount,
                     sending, appriseOn, told>>
  BY DEF NotifStops, NotifInv
<1>2. missed' \in BOOLEAN /\ tapped' \in BOOLEAN
  BY <1>1, Zenon
<1>3. events' \in Seq(Events) /\ Len(events') <= TapSize /\ DOMAIN events' = {}
  BY <1>1, NotificationsAssumption
<1>4. NotifTypeOK'
  BY <1>1, <1>2, <1>3 DEF NotifTypeOK, Events
<1>5. ~missed' => SeenLast'
  <2>1. ASSUME ~missed' PROVE lastState = printer
    <3>1. ~missed /\ \A i \in DOMAIN events : NoState(i)
      BY <1>1, <2>1 DEF NoState
    <3>2. printer # Nothing
      BY <1>1 DEF NotifTypeOK, Stats, Nothing
    <3> QED
      BY <3>1, <3>2 DEF NotifInv, SeenLast, NoState
  <2> QED
    BY <1>1, <1>3, <2>1 DEF SeenLast
<1>6. Word' = Word
  BY <1>1 DEF Word
<1> QED
  BY <1>1, <1>4, <1>5, <1>6 DEF NotifInv, Fits

LEMMA NotifOthersKeep ==
  ASSUME NotifInv, NotifRuns \/ AppriseSwitched \/ UNCHANGED notifVars
  PROVE  NotifInv'
<1>1. /\ NotifTypeOK
      /\ UNCHANGED <<printer, events, lastState, lastProgressNotified, progressSendCount,
                     sending, told, missed>>
  BY DEF NotifInv, NotifRuns, AppriseSwitched, notifVars
<1>2. tapped' \in BOOLEAN /\ appriseOn' \in BOOLEAN
  <2>1. tapped \in BOOLEAN /\ appriseOn \in BOOLEAN
    BY <1>1 DEF NotifTypeOK
  <2>2. (~appriseOn) \in BOOLEAN
    BY Zenon
  <2>3. tapped' = TRUE \/ tapped' = tapped
    BY DEF NotifRuns, AppriseSwitched, notifVars
  <2>4. appriseOn' = appriseOn \/ appriseOn' = ~appriseOn
    BY DEF NotifRuns, AppriseSwitched, notifVars
  <2>5. TRUE \in BOOLEAN
    OBVIOUS
  <2> QED
    BY <2>1, <2>2, <2>3, <2>4, <2>5, Zenon
<1>3. NotifTypeOK'
  BY <1>1, <1>2 DEF NotifTypeOK
<1>4. Word' = Word /\ (SeenLast => SeenLast')
  BY <1>1 DEF Word, SeenLast, NoState
<1> QED
  BY <1>1, <1>3, <1>4 DEF NotifInv, Fits

(* The inductive invariant of the notifications, for any room in the       *)
(* channel of the tap and any settings of the progress messages.           *)
THEOREM NotifInvariant == NotifSpec => []NotifInv
<1>1. ASSUME NotifInit PROVE NotifInv
  <2>1. events \in Seq(Events) /\ Len(events) = 0 /\ DOMAIN events = {}
    BY <1>1 DEF NotifInit
  <2>2. tapped \in BOOLEAN /\ appriseOn \in BOOLEAN /\ missed \in BOOLEAN
    BY <1>1, Zenon DEF NotifInit
  <2>3. /\ lastState = "unknown" /\ printer = "unknown" /\ sending = Nothing /\ told = Nothing
        /\ lastProgressNotified = -1 /\ progressSendCount = 0
    BY <1>1 DEF NotifInit
  <2>4. NotifTypeOK
    BY <2>1, <2>2, <2>3, NotificationsAssumption DEF NotifTypeOK, Events
  <2>5. SeenLast
    BY <2>1, <2>3 DEF SeenLast
  <2> QED
    BY <2>3, <2>4, <2>5 DEF NotifInv
<1>2. NotifInv /\ [NotifNext]_notifVars => NotifInv'
  BY PrinterTurnsKeeps, ProgressReportKeeps, HandleStateKeeps, MaybeProgressKeeps,
     PostEndsKeeps, PostFailsKeeps, NotifStopsKeeps, NotifOthersKeep DEF NotifNext
<1> QED
  BY <1>1, <1>2, PTL DEF NotifSpec

LEMMA NotifInvTells == NotifInv => PrintIsTold
<1> SUFFICES ASSUME NotifInv, events = << >>, sending = Nothing, ~missed, printer # "unknown"
             PROVE  Fits(told, printer)
  BY DEF PrintIsTold
<1>1. DOMAIN events = {}
  OBVIOUS
<1>2. lastState = printer
  BY <1>1 DEF NotifInv, SeenLast
<1>3. Word = told
  BY DEF Word, Messages, Nothing
<1> QED
  BY <1>2, <1>3 DEF NotifInv

-------------------------------------------------------------------------------
(* The Home Assistant bridge.                                              *)

HaInv ==
  /\ HaTypeOK
  /\ haLink => haClient = "known" /\ ~haWill
  /\ haClient = "known" => haStage \in {"running", "stopping"}
  /\ haStage = "running" /\ haLink /\ haHandler # "discovery" => availability = "online"
  /\ haHandler = "publish" => haRaced \/ haSnapshot = haState
  /\ haWorker = "publish" => haRaced \/ haPayload = haState
  /\ haLink /\ haHandler \in {"subscribe", "none"} /\ haWorker = "idle"
       => haRaced \/ haTold = haState

HaWords ==
  /\ haStage \in {"stopped", "connecting", "running", "stopping"}
  /\ haWorker \in {"idle", "publish"}
  /\ haHandler \in {"none", "discovery", "setOnline", "marshal", "publish", "subscribe"}
  /\ availability \in {"none", "online", "offline"}
  /\ haClient \in {"nil", "new", "known"}

HaFlags == haEnabled \in BOOLEAN /\ haLink \in BOOLEAN /\ haLost \in BOOLEAN
           /\ haWill \in BOOLEAN /\ haRaced \in BOOLEAN

HaPayloads == haState \in HaStates /\ haTold \in HaStates
              /\ haSnapshot \in HaStates /\ haPayload \in HaStates

HaUpdates == updateQ \in Seq(HaValues) /\ Len(updateQ) <= HaQueue

LEMMA HaTypeParts == HaTypeOK <=> HaWords /\ HaFlags /\ HaPayloads /\ HaUpdates
BY DEF HaTypeOK, HaWords, HaFlags, HaPayloads, HaUpdates

LEMMA HaWordsStep ==
  ASSUME HaWords, [HaNext]_haVars
  PROVE  HaWords'
BY DEF HaWords, HaNext, HaStarts, HaConnects, LinkComesUp, HaConnectFails, TakeUpdate,
       ApplyUpdate, handleLightCommand, PublishUpdate, Heartbeat, PublishAvailability,
       HaStops, HaDisconnects, AnnounceOnline, SetOnline, MarshalState, PublishState,
       Subscribe, HaLinkLost, ConnectionLostHandler, WillIsPublished, HaReconnects,
       Configure, UpdateState, haVars, workerVars, linkVars, handlerVars, brokerVars

LEMMA HaFlagsStep ==
  ASSUME HaFlags, [HaNext]_haVars
  PROVE  HaFlags'
<1> USE DEF HaNext, HaStarts, HaConnects, LinkComesUp, HaConnectFails, TakeUpdate,
            ApplyUpdate, handleLightCommand, PublishUpdate, Heartbeat, HaStops,
            HaDisconnects, AnnounceOnline, SetOnline, setOnline, MarshalState, PublishState,
            Subscribe, HaLinkLost, ConnectionLostHandler, WillIsPublished, HaReconnects,
            Configure, UpdateState, haVars, workerVars, linkVars, handlerVars, brokerVars
<1>1. haEnabled' = haEnabled \/ haEnabled' = ~haEnabled
  OBVIOUS
<1>2. haLink' = haLink \/ haLink' = TRUE \/ haLink' = FALSE
  OBVIOUS
<1>3. haWill' = haWill \/ haWill' = TRUE \/ haWill' = FALSE
  OBVIOUS
<1>4. haLost' = haLost \/ haLost' = TRUE \/ haLost' = FALSE
  OBVIOUS
<1>5. \/ haRaced' = haRaced \/ haRaced' = TRUE \/ haRaced' = (haHandler = "publish")
      \/ haRaced' = (haRaced /\ haWorker = "publish")
  OBVIOUS
<1>6. /\ TRUE \in BOOLEAN /\ FALSE \in BOOLEAN /\ (~haEnabled) \in BOOLEAN
      /\ (haHandler = "publish") \in BOOLEAN /\ (haRaced /\ haWorker = "publish") \in BOOLEAN
  BY Zenon
<1> QED
  BY <1>1, <1>2, <1>3, <1>4, <1>5, <1>6, Zenon DEF HaFlags

LEMMA InitialStateType == InitialState \in HaStates
<1>1. (CHOOSE value \in HaValues : TRUE) \in HaValues
  BY HaAssumption
<1> QED
  BY <1>1 DEF InitialState, HaStates

LEMMA HaPayloadsStep ==
  ASSUME HaPayloads, HaUpdates, [HaNext]_haVars
  PROVE  HaPayloads'
<1> USE DEF HaPayloads
<1>1. ASSUME NEW value \in HaValues, ApplyUpdate(value),
             UNCHANGED <<handlerVars, brokerVars>>
      PROVE  HaPayloads'
  <2>1. [haState EXCEPT !.value = value] \in HaStates
    BY DEF HaStates
  <2> QED
    BY <1>1, <2>1 DEF ApplyUpdate, handlerVars, brokerVars
<1>2. CASE TakeUpdate
  <2>1. Head(updateQ) \in HaValues
    BY <1>2, HeadTailProperties DEF TakeUpdate, HaUpdates
  <2> QED
    BY <1>1, <1>2, <2>1 DEF TakeUpdate
<1>3. CASE \E value \in HaValues : handleLightCommand(value)
  BY <1>1, <1>3 DEF handleLightCommand
<1>4. CASE SetOnline \/ ConnectionLostHandler
  <2>1. PICK v \in BOOLEAN : setOnline(v)
    BY <1>4 DEF SetOnline, ConnectionLostHandler
  <2>2. [haState EXCEPT !.mqtt_connected = v] \in HaStates
    BY DEF HaStates
  <2> QED
    BY <1>4, <2>1, <2>2 DEF SetOnline, ConnectionLostHandler, setOnline, workerVars,
       handlerVars, brokerVars
<1>5. CASE PublishUpdate \/ MarshalState \/ PublishState
  BY <1>5, InitialStateType DEF PublishUpdate, MarshalState, PublishState, Publish,
     workerVars, handlerVars, brokerVars
<1>6. CASE \/ HaStarts \/ HaConnects \/ HaConnectFails \/ Heartbeat \/ HaStops
           \/ HaDisconnects \/ AnnounceOnline \/ Subscribe \/ HaLinkLost \/ WillIsPublished
           \/ HaReconnects \/ Configure \/ (\E value \in HaValues : UpdateState(value))
           \/ UNCHANGED haVars
  BY <1>6 DEF HaStarts, HaConnects, HaConnectFails, Heartbeat, HaStops, HaDisconnects,
              AnnounceOnline, Subscribe, HaLinkLost, WillIsPublished, HaReconnects, Configure,
              UpdateState, haVars, workerVars, handlerVars, brokerVars
<1> QED
  BY <1>2, <1>3, <1>4, <1>5, <1>6 DEF HaNext

LEMMA HaUpdatesStep ==
  ASSUME HaUpdates, [HaNext]_haVars
  PROVE  HaUpdates'
<1> USE HaAssumption DEF HaUpdates
<1>1. CASE TakeUpdate
  <2>1. /\ Tail(updateQ) \in Seq(HaValues) /\ Len(Tail(updateQ)) = Len(updateQ) - 1
        /\ Len(updateQ) \in Nat
    BY <1>1, HeadTailProperties, LenProperties DEF TakeUpdate
  <2> QED
    BY <1>1, <2>1 DEF TakeUpdate
<1>2. ASSUME NEW value \in HaValues, UpdateState(value)
      PROVE  HaUpdates'
  <2>1. /\ Append(updateQ, value) \in Seq(HaValues) /\ Len(Append(updateQ, value)) = Len(updateQ) + 1
        /\ Len(updateQ) \in Nat
    BY AppendProperties, LenProperties
  <2> QED
    BY <1>2, <2>1 DEF UpdateState
<1>3. updateQ' = updateQ \/ TakeUpdate \/ \E value \in HaValues : UpdateState(value)
  BY DEF HaNext, HaStarts, HaConnects, HaConnectFails, handleLightCommand, PublishUpdate,
         Heartbeat, HaStops, HaDisconnects, AnnounceOnline, SetOnline, MarshalState,
         PublishState, Subscribe, HaLinkLost, ConnectionLostHandler, WillIsPublished,
         HaReconnects, Configure, haVars
<1> QED
  BY <1>1, <1>2, <1>3

(* What is marshalled is the state until a goroutine changes it, and the   *)
(* broker is told what was marshalled last unless that has happened.       *)
LEMMA HaInvStep ==
  ASSUME HaInv, [HaNext]_haVars
  PROVE  HaInv'
<1>1. HaTypeOK'
  <2>1. HaWords' /\ HaFlags' /\ HaUpdates' /\ HaPayloads'
    BY HaTypeParts, HaWordsStep, HaFlagsStep, HaUpdatesStep, HaPayloadsStep DEF HaInv
  <2> QED
    BY <2>1 DEF HaTypeOK, HaWords, HaFlags, HaUpdates, HaPayloads
<1> DEFINE Rest ==
      /\ haLink => haClient = "known" /\ ~haWill
      /\ haClient = "known" => haStage \in {"running", "stopping"}
      /\ haStage = "running" /\ haLink /\ haHandler # "discovery" => availability = "online"
      /\ haHandler = "publish" => haRaced \/ haSnapshot = haState
      /\ haWorker = "publish" => haRaced \/ haPayload = haState
      /\ haLink /\ haHandler \in {"subscribe", "none"} /\ haWorker = "idle"
           => haRaced \/ haTold = haState
<1>2. SUFFICES Rest'
  BY <1>1 DEF HaInv
<1>3. Rest
  BY DEF HaInv
<1>4. HaWords /\ HaFlags
  BY HaTypeParts DEF HaInv
<1> USE DEF workerVars, linkVars, handlerVars, brokerVars
<1>5. CASE HaStarts
  BY <1>3, <1>4, <1>5 DEF HaStarts, HaWords, HaFlags
<1>6. CASE HaConnects
  BY <1>3, <1>4, <1>6 DEF HaConnects, LinkComesUp, HaWords, HaFlags
<1>7. CASE HaConnectFails
  BY <1>3, <1>4, <1>7 DEF HaConnectFails, HaWords, HaFlags
<1>8. ASSUME NEW value, ApplyUpdate(value),
             UNCHANGED <<haStage, linkVars, handlerVars, brokerVars>>
      PROVE  Rest'
  BY <1>3, <1>4, <1>8 DEF ApplyUpdate, HaWords, HaFlags
<1>9. CASE TakeUpdate
  BY <1>8, <1>9 DEF TakeUpdate
<1>10. CASE \E value \in HaValues : handleLightCommand(value)
  BY <1>8, <1>10 DEF handleLightCommand
<1>11. CASE PublishUpdate
  BY <1>3, <1>4, <1>11 DEF PublishUpdate, Publish, Reaches
<1>12. CASE Heartbeat
  BY <1>3, <1>4, <1>12 DEF Heartbeat, PublishAvailability, Reaches
<1>13. CASE HaStops
  BY <1>3, <1>4, <1>13 DEF HaStops
<1>14. CASE HaDisconnects
  BY <1>3, <1>4, <1>14 DEF HaDisconnects
<1>15. CASE AnnounceOnline
  BY <1>3, <1>4, <1>15 DEF AnnounceOnline, PublishAvailability, Reaches
<1>16. CASE SetOnline
  BY <1>3, <1>4, <1>16 DEF SetOnline, setOnline
<1>17. CASE MarshalState
  <2>1. haWorker = "publish" => (haRaced' <=> haRaced)
    BY <1>4, <1>17, Zenon DEF MarshalState, HaFlags
  <2> QED
    BY <1>3, <1>4, <1>17, <2>1 DEF MarshalState
<1>18. CASE PublishState
  BY <1>3, <1>4, <1>18 DEF PublishState, Publish, Reaches
<1>19. CASE Subscribe
  BY <1>3, <1>4, <1>19 DEF Subscribe
<1>20. CASE HaLinkLost
  BY <1>3, <1>4, <1>20 DEF HaLinkLost
<1>21. CASE ConnectionLostHandler
  BY <1>3, <1>4, <1>21 DEF ConnectionLostHandler, setOnline
<1>22. CASE WillIsPublished
  BY <1>3, <1>4, <1>22 DEF WillIsPublished
<1>23. CASE HaReconnects
  BY <1>3, <1>4, <1>23 DEF HaReconnects, LinkComesUp
<1>24. CASE Configure \/ (\E value \in HaValues : UpdateState(value)) \/ UNCHANGED haVars
  BY <1>3, <1>24 DEF Configure, UpdateState, haVars
<1> QED
  BY <1>5, <1>6, <1>7, <1>9, <1>10, <1>11, <1>12, <1>13, <1>14, <1>15, <1>16, <1>17, <1>18,
     <1>19, <1>20, <1>21, <1>22, <1>23, <1>24 DEF HaNext

(* The inductive invariant of the bridge, for any reports of the printer   *)
(* and any room in its queue: where the worker and the connect handler     *)
(* each hold a payload to publish, which payloads are still the state, and *)
(* what the broker therefore keeps.                                        *)
THEOREM HaInvariant == HaSpec => []HaInv
<1>1. ASSUME HaInit PROVE HaInv
  <2>1. HaWords
    BY <1>1 DEF HaInit, HaWords
  <2>2. HaFlags
    BY <1>1, Zenon DEF HaInit, HaFlags
  <2>3. HaPayloads
    BY <1>1, InitialStateType DEF HaInit, HaPayloads
  <2>4. HaUpdates
    BY <1>1, HaAssumption DEF HaInit, HaUpdates
  <2> QED
    BY <1>1, <2>1, <2>2, <2>3, <2>4, HaTypeParts DEF HaInit, HaInv
<1> QED
  BY <1>1, HaInvStep, PTL DEF HaSpec

LEMMA HaInvTells == HaInv => BrokerHasState
BY DEF HaInv, BrokerHasState, Reaches

-------------------------------------------------------------------------------
(* The G-code archive.                                                     *)

(* What a row says is so: its archive is whole, and under that name.       *)
RowIsTrue(row) ==
  /\ archiveDir[row.of].gcode = "whole"
  /\ uploading[row.of].name = row.name /\ uploading[row.of].at # "new"

FileRecords    == [gcode : Contents, thumbnail : Contents]
UploadRecords  == [at : UploadPoints, name : Names]
ReprintRecords == [at : {"new", "found", "read", "done"}, row : Rows \union {NoRow},
                   bytes : Contents]

ArchiveMaps ==
  /\ archiveDir \in [Uploads -> FileRecords]
  /\ uploading \in [Uploads -> UploadRecords]
  /\ reprinting \in [Reprints -> ReprintRecords]
  /\ table \subseteq Rows
  /\ sent \subseteq [name : Names, of : Uploads, bytes : Contents]
  /\ kills \in 0..MaxKills

ArchiveInv ==
  /\ ArchiveMaps
  /\ \A u \in Uploads : uploading[u].at \in {"thumbnail", "sending", "recording"}
                          => archiveDir[u].gcode = "whole"
  /\ \A row \in table : RowIsTrue(row)
  /\ \A p \in Reprints : reprinting[p].at \in {"found", "read"}
                           => reprinting[p].row \in Rows /\ RowIsTrue(reprinting[p].row)
  /\ \A p \in Reprints : reprinting[p].at = "read" => reprinting[p].bytes = "whole"
  /\ \A s \in sent : s.bytes = "whole" /\ RowIsTrue(s)

LEMMA ArchiveMapsTyped == ArchiveMaps => ArchiveTypeOK
BY DEF ArchiveMaps, ArchiveTypeOK, FileRecords, UploadRecords, ReprintRecords

LEMMA ReprintRecordEdits ==
  ASSUME NEW r \in ReprintRecords, NEW at \in {"new", "found", "read", "done"}
  PROVE  /\ [r EXCEPT !.at = at] \in ReprintRecords
         /\ \A row \in Rows : [r EXCEPT !.at = at, !.row = row] \in ReprintRecords
         /\ \A bytes \in Contents : [r EXCEPT !.at = at, !.bytes = bytes] \in ReprintRecords
BY DEF ReprintRecords

(* Only a row that was found is read and sent. *)
ReprintRowKnown(p) == reprinting[p].at \in {"found", "read"} => reprinting[p].row \in Rows

LEMMA ArchiveMapsStep ==
  ASSUME ArchiveMaps, [ArchiveNext]_archiveVars, \A p \in Reprints : ReprintRowKnown(p)
  PROVE  ArchiveMaps'
<1> USE DEF ArchiveMaps
<1>1. /\ \A u \in Uploads : \A c \in Contents :
           /\ [archiveDir EXCEPT ![u].gcode = c] \in [Uploads -> FileRecords]
           /\ [archiveDir EXCEPT ![u].thumbnail = c] \in [Uploads -> FileRecords]
      /\ "part" \in Contents /\ "whole" \in Contents
  BY DEF FileRecords, Contents
<1>2. \A u \in Uploads : \A to \in UploadPoints :
        [uploading EXCEPT ![u].at = to] \in [Uploads -> UploadRecords]
  BY DEF UploadRecords
<1>3a. {"thumbnail", "sending", "sendingOnly", "recording", "done"} \subseteq UploadPoints
  BY DEF UploadPoints
<1>3. \A u \in Uploads : archiveDir[u].gcode \in Contents /\ uploading[u].name \in Names
  BY DEF FileRecords, UploadRecords
<1>4. \A p \in Reprints : \A r \in ReprintRecords :
        [reprinting EXCEPT ![p] = r] \in [Reprints -> ReprintRecords]
  OBVIOUS
<1>5. \A p \in Reprints : \A at \in {"new", "found", "read", "done"} :
        /\ [reprinting EXCEPT ![p].at = at] \in [Reprints -> ReprintRecords]
        /\ \A row \in Rows :
             [reprinting EXCEPT ![p].at = at, ![p].row = row] \in [Reprints -> ReprintRecords]
        /\ \A bytes \in Contents :
             [reprinting EXCEPT ![p].at = at, ![p].bytes = bytes] \in [Reprints -> ReprintRecords]
  BY <1>4, ReprintRecordEdits
<1>6. ASSUME NEW u \in Uploads, ArchiveBegins(u)
      PROVE  ArchiveMaps'
  <2>1. PICK n \in Names : uploading' = [uploading EXCEPT ![u] = [at |-> "writing", name |-> n]]
    BY <1>6 DEF ArchiveBegins
  <2>2. [at |-> "writing", name |-> n] \in UploadRecords
    BY DEF UploadRecords, UploadPoints
  <2> QED
    BY <1>1, <1>6, <2>1, <2>2 DEF ArchiveBegins
<1>7. ASSUME NEW u \in Uploads, ArchiveWritten(u)
      PROVE  ArchiveMaps'
  <2>1. archiveDir' \in [Uploads -> FileRecords]
    <3>1. archiveDir' = archiveDir \/ archiveDir' = [archiveDir EXCEPT ![u].gcode = "whole"]
      BY <1>7 DEF ArchiveWritten
    <3>2. [archiveDir EXCEPT ![u].gcode = "whole"] \in [Uploads -> FileRecords]
      BY <1>1, Zenon
    <3> QED
      BY <3>1, <3>2
  <2>2. \E to \in UploadPoints : Comes(u, to)
    BY <1>3a, <1>7 DEF ArchiveWritten
  <2>3. uploading' \in [Uploads -> UploadRecords]
    BY <1>2, <2>2 DEF Comes
  <2> QED
    BY <1>7, <2>1, <2>3 DEF ArchiveWritten
<1>8. ASSUME NEW u \in Uploads, ThumbnailWritten(u)
      PROVE  ArchiveMaps'
  <2>1. archiveDir' \in [Uploads -> FileRecords]
    <3>1. PICK c \in Contents : archiveDir' = [archiveDir EXCEPT ![u].thumbnail = c]
      BY <1>8 DEF ThumbnailWritten
    <3>2. [archiveDir EXCEPT ![u].thumbnail = c] \in [Uploads -> FileRecords]
      BY <1>1, Zenon
    <3> QED
      BY <3>1, <3>2
  <2>2. uploading' \in [Uploads -> UploadRecords]
    BY <1>2, <1>3a, <1>8 DEF ThumbnailWritten, Comes
  <2> QED
    BY <1>8, <2>1, <2>2 DEF ThumbnailWritten
<1>9. ASSUME NEW u \in Uploads, UploadSent(u)
      PROVE  ArchiveMaps'
  <2>1. \E to \in UploadPoints : Comes(u, to)
    BY <1>3a, <1>9 DEF UploadSent
  <2>2. uploading' \in [Uploads -> UploadRecords]
    BY <1>2, <2>1 DEF Comes
  <2> QED
    BY <1>9, <2>2 DEF UploadSent
<1>10. ASSUME NEW u \in Uploads, UploadRecorded(u)
       PROVE  ArchiveMaps'
  <2>1. [name |-> uploading[u].name, of |-> u] \in Rows
    BY <1>3 DEF Rows
  <2> QED
    BY <1>2, <1>10, <2>1 DEF UploadRecorded, Comes, UploadPoints
<1>11. ASSUME NEW row \in table, RowGoes(row)
       PROVE  ArchiveMaps'
  BY <1>11 DEF RowGoes
<1>12. ASSUME NEW p \in Reprints, ReprintLooks(p)
       PROVE  ArchiveMaps'
  <2>1. PICK row \in table : reprinting' = [reprinting EXCEPT ![p].at = "found", ![p].row = row]
    BY <1>12 DEF ReprintLooks
  <2>2. reprinting' \in [Reprints -> ReprintRecords]
    BY <1>5, <2>1
  <2> QED
    BY <1>12, <2>2 DEF ReprintLooks
<1>13. ASSUME NEW p \in Reprints, ReprintReads(p), reprinting[p].row \in Rows
       PROVE  ArchiveMaps'
  <2> DEFINE row == reprinting[p].row
  <2>1. CASE reprinting' = [reprinting EXCEPT ![p].at = "done"]
    BY <1>5, <1>13, <2>1 DEF ReprintReads
  <2>2. ASSUME NEW bytes \in Reads(row),
               reprinting' = [reprinting EXCEPT ![p].at = "read", ![p].bytes = bytes]
        PROVE  ArchiveMaps'
    <3>1. bytes \in Contents
      BY <1>3, <1>13, <2>2 DEF Reads, Rows
    <3>2. reprinting' \in [Reprints -> ReprintRecords]
      BY <1>5, <2>2, <3>1
    <3> QED
      BY <1>13, <3>2 DEF ReprintReads
  <2> QED
    BY <1>13, <2>1, <2>2 DEF ReprintReads
<1>14. ASSUME NEW p \in Reprints, ReprintEnds(p), reprinting[p].row \in Rows
       PROVE  ArchiveMaps'
  <2>1. [name |-> reprinting[p].row.name, of |-> reprinting[p].row.of,
         bytes |-> reprinting[p].bytes] \in [name : Names, of : Uploads, bytes : Contents]
    BY <1>14 DEF Rows, ReprintRecords
  <2>2. reprinting' \in [Reprints -> ReprintRecords]
    BY <1>5, <1>14 DEF ReprintEnds
  <2> QED
    BY <1>14, <2>1, <2>2 DEF ReprintEnds
<1>15. CASE Killed
  <2>1. kills' \in 0..MaxKills
    BY <1>15, ArchiveAssumption DEF Killed
  <2>2. uploading' \in [Uploads -> UploadRecords]
    BY <1>15 DEF Killed, UploadRecords, UploadPoints
  <2>3. reprinting' \in [Reprints -> ReprintRecords]
    <3>1. \A p \in Reprints : [reprinting[p] EXCEPT !.at = "done"] \in ReprintRecords
      BY ReprintRecordEdits
    <3> QED
      BY <1>15, <3>1 DEF Killed
  <2>4. archiveDir' \in [Uploads -> FileRecords]
    BY <1>15 DEF Killed, FileRecords, Contents
  <2> QED
    BY <1>15, <2>1, <2>2, <2>3, <2>4 DEF Killed
<1>16. CASE UNCHANGED archiveVars
  BY <1>16 DEF archiveVars
<1> QED
  BY <1>6, <1>7, <1>8, <1>9, <1>10, <1>11, <1>12, <1>13, <1>14, <1>15, <1>16
     DEF ArchiveNext, ReprintReads, ReprintEnds, ReprintRowKnown

(* What a step does to an upload and its archive. *)
UploadMoves(u) ==
  \/ uploading'[u] = uploading[u] /\ archiveDir'[u].gcode = archiveDir[u].gcode
  \/ uploading[u].at = "new" /\ uploading'[u].at = "writing"
  \/ /\ uploading[u].at # "new" /\ uploading'[u].name = uploading[u].name
     /\ \/ uploading'[u].at = "thumbnail" /\ archiveDir'[u].gcode = "whole"
        \/ /\ archiveDir'[u].gcode = archiveDir[u].gcode
           /\ \/ uploading'[u].at \in {"sendingOnly", "done"}
              \/ uploading[u].at = "thumbnail" /\ uploading'[u].at = "sending"
              \/ uploading[u].at = "sending" /\ uploading'[u].at = "recording"

(* ... and to a reprint. *)
ReprintMoves(p) ==
  \/ reprinting'[p] = reprinting[p]
  \/ reprinting'[p].at = "found" /\ reprinting'[p].row \in table
  \/ /\ reprinting[p].at = "found" /\ reprinting'[p].at = "read"
     /\ reprinting'[p].row = reprinting[p].row
     /\ reprinting'[p].bytes = archiveDir[reprinting[p].row.of].gcode
  \/ reprinting'[p].at = "done"

LEMMA ArchiveSteps ==
  ASSUME ArchiveMaps, [ArchiveNext]_archiveVars
  PROVE  /\ \A u \in Uploads : UploadMoves(u)
         /\ \A p \in Reprints : ReprintMoves(p)
         /\ \A row \in table' : \/ row \in table
                                \/ \E u \in Uploads : /\ uploading[u].at = "recording"
                                                      /\ row = [name |-> uploading[u].name, of |-> u]
         /\ \A s \in sent' : \/ s \in sent
                             \/ \E p \in Reprints :
                                  /\ reprinting[p].at = "read"
                                  /\ s = [name |-> reprinting[p].row.name,
                                          of |-> reprinting[p].row.of,
                                          bytes |-> reprinting[p].bytes]
<1> USE DEF ArchiveMaps, FileRecords, UploadRecords, ReprintRecords
<1> DEFINE Still == UNCHANGED <<uploading, archiveDir>>
           Quiet == UNCHANGED <<reprinting, sent>>
<1>1. /\ Still => \A u \in Uploads : UploadMoves(u)
      /\ Quiet => /\ \A p \in Reprints : ReprintMoves(p)
                  /\ sent' = sent
  BY DEF UploadMoves, ReprintMoves
<1>2. ASSUME NEW u \in Uploads, ArchiveBegins(u)
      PROVE  Quiet /\ table' = table /\ \A v \in Uploads : UploadMoves(v)
  BY <1>2 DEF ArchiveBegins, UploadMoves
<1>3. ASSUME NEW u \in Uploads, ArchiveWritten(u)
      PROVE  Quiet /\ table' = table /\ \A v \in Uploads : UploadMoves(v)
  BY <1>3 DEF ArchiveWritten, UploadMoves, Comes
<1>4. ASSUME NEW u \in Uploads, ThumbnailWritten(u)
      PROVE  Quiet /\ table' = table /\ \A v \in Uploads : UploadMoves(v)
  BY <1>4 DEF ThumbnailWritten, UploadMoves, Comes
<1>5. ASSUME NEW u \in Uploads, UploadSent(u)
      PROVE  Quiet /\ table' = table /\ \A v \in Uploads : UploadMoves(v)
  BY <1>5 DEF UploadSent, UploadMoves, Comes
<1>6. ASSUME NEW u \in Uploads, UploadRecorded(u)
      PROVE  /\ Quiet /\ \A v \in Uploads : UploadMoves(v)
             /\ uploading[u].at = "recording"
             /\ table' = table \union {[name |-> uploading[u].name, of |-> u]}
  BY <1>6 DEF UploadRecorded, UploadMoves, Comes
<1>7. ASSUME NEW row \in table, RowGoes(row)
      PROVE  Quiet /\ Still /\ table' \subseteq table
  BY <1>7 DEF RowGoes
<1>8. ASSUME NEW p \in Reprints, ReprintLooks(p)
      PROVE  Still /\ table' = table /\ sent' = sent /\ \A q \in Reprints : ReprintMoves(q)
  BY <1>8 DEF ReprintLooks, ReprintMoves
<1>9. ASSUME NEW p \in Reprints, ReprintReads(p)
      PROVE  Still /\ table' = table /\ sent' = sent /\ \A q \in Reprints : ReprintMoves(q)
  BY <1>9 DEF ReprintReads, Reads, ReprintMoves
<1>10. ASSUME NEW p \in Reprints, ReprintEnds(p)
       PROVE  /\ Still /\ table' = table /\ \A q \in Reprints : ReprintMoves(q)
              /\ reprinting[p].at = "read"
              /\ \A s \in sent' : s \in sent \/ s = [name |-> reprinting[p].row.name,
                                                     of |-> reprinting[p].row.of,
                                                     bytes |-> reprinting[p].bytes]
  BY <1>10 DEF ReprintEnds, ReprintMoves
<1>11. ASSUME Killed
       PROVE  /\ table' = table /\ sent' = sent
              /\ \A v \in Uploads : UploadMoves(v)
              /\ \A q \in Reprints : ReprintMoves(q)
  BY <1>11 DEF Killed, UploadMoves, ReprintMoves
<1>12. CASE UNCHANGED archiveVars
  BY <1>1, <1>12 DEF archiveVars
<1> HIDE DEF Still, Quiet, ArchiveMaps
<1>13. CASE \E u \in Uploads : \/ ArchiveBegins(u) \/ ArchiveWritten(u) \/ ThumbnailWritten(u)
                               \/ UploadSent(u)
  BY <1>1, <1>2, <1>3, <1>4, <1>5, <1>13
<1>14. CASE \E u \in Uploads : UploadRecorded(u)
  BY <1>1, <1>6, <1>14
<1>15. CASE \E row \in table : RowGoes(row)
  BY <1>1, <1>7, <1>15
<1>16. CASE \E p \in Reprints : ReprintLooks(p) \/ ReprintReads(p)
  BY <1>1, <1>8, <1>9, <1>16
<1>17. CASE \E p \in Reprints : ReprintEnds(p)
  BY <1>1, <1>10, <1>17
<1> QED
  BY <1>11, <1>12, <1>13, <1>14, <1>15, <1>16, <1>17 DEF ArchiveNext

(* A row that is true stays true: nothing touches an archive that is whole.*)
LEMMA TrueRowStays ==
  ASSUME ArchiveMaps, [ArchiveNext]_archiveVars, NEW row, row.of \in Uploads, RowIsTrue(row)
  PROVE  RowIsTrue(row)'
<1>1. UploadMoves(row.of)
  BY ArchiveSteps
<1> QED
  BY <1>1 DEF UploadMoves, RowIsTrue

LEMMA ArchiveInvStep ==
  ASSUME ArchiveInv, [ArchiveNext]_archiveVars
  PROVE  ArchiveInv'
<1>1. ArchiveMaps /\ ArchiveMaps'
  BY ArchiveMapsStep DEF ArchiveInv, ReprintRowKnown
<1>2. /\ \A u \in Uploads : UploadMoves(u)
      /\ \A p \in Reprints : ReprintMoves(p)
  BY <1>1, ArchiveSteps
<1>3. \A row \in Rows : RowIsTrue(row) => RowIsTrue(row)'
  <2> TAKE row \in Rows
  <2>1. row.of \in Uploads
    BY DEF Rows
  <2> QED
    BY <1>1, <2>1, TrueRowStays
<1>4. \A u \in Uploads : uploading'[u].at \in {"thumbnail", "sending", "recording"}
                           => archiveDir'[u].gcode = "whole"
  BY <1>2 DEF UploadMoves, ArchiveInv
<1>5. ASSUME NEW row \in table' PROVE RowIsTrue(row)'
  <2>1. CASE row \in table
    BY <1>1, <1>3, <2>1 DEF ArchiveInv, ArchiveMaps
  <2>2. ASSUME NEW u \in Uploads, uploading[u].at = "recording",
               row = [name |-> uploading[u].name, of |-> u]
        PROVE  RowIsTrue(row)'
    <3>1. RowIsTrue(row) /\ row.of \in Uploads
      BY <2>2 DEF RowIsTrue, ArchiveInv
    <3> QED
      BY <1>1, <3>1, TrueRowStays
  <2> QED
    BY <1>1, <2>1, <2>2, ArchiveSteps
<1>6. ASSUME NEW p \in Reprints, reprinting'[p].at \in {"found", "read"}
      PROVE  reprinting'[p].row \in Rows /\ RowIsTrue(reprinting[p].row)'
  <2>1. PICK row : row = reprinting'[p].row
    OBVIOUS
  <2>2. row \in Rows /\ RowIsTrue(row)
    BY <1>1, <1>2, <1>6, <2>1 DEF ReprintMoves, ArchiveInv, ArchiveMaps
  <2>3. RowIsTrue(row)'
    BY <1>3, <2>2
  <2> QED
    BY <2>1, <2>2, <2>3 DEF RowIsTrue
<1>7. ASSUME NEW p \in Reprints, reprinting'[p].at = "read"
      PROVE  reprinting'[p].bytes = "whole"
  <2>1. CASE reprinting'[p] = reprinting[p]
    BY <1>7, <2>1 DEF ArchiveInv
  <2>2. CASE /\ reprinting[p].at = "found"
             /\ reprinting'[p].bytes = archiveDir[reprinting[p].row.of].gcode
    BY <2>2 DEF ArchiveInv, RowIsTrue
  <2> QED
    BY <1>2, <1>7, <2>1, <2>2 DEF ReprintMoves
<1>8. ASSUME NEW s \in sent' PROVE s.bytes = "whole" /\ RowIsTrue(s)'
  <2>1. CASE s \in sent
    <3>1. s.of \in Uploads /\ RowIsTrue(s) /\ s.bytes = "whole"
      BY <1>1, <2>1 DEF ArchiveInv, ArchiveMaps
    <3> QED
      BY <1>1, <3>1, TrueRowStays
  <2>2. ASSUME NEW p \in Reprints, reprinting[p].at = "read",
               s = [name |-> reprinting[p].row.name, of |-> reprinting[p].row.of,
                    bytes |-> reprinting[p].bytes]
        PROVE  s.bytes = "whole" /\ RowIsTrue(s)'
    <3>1. reprinting[p].row \in Rows /\ RowIsTrue(reprinting[p].row) /\ reprinting[p].bytes = "whole"
      BY <2>2 DEF ArchiveInv
    <3>2. s.of \in Uploads /\ RowIsTrue(s) /\ s.bytes = "whole"
      BY <2>2, <3>1 DEF RowIsTrue, Rows
    <3> QED
      BY <1>1, <3>2, TrueRowStays
  <2> QED
    BY <1>1, <2>1, <2>2, ArchiveSteps
<1> QED
  BY <1>1, <1>4, <1>5, <1>6, <1>7, <1>8 DEF ArchiveInv

(* The inductive invariant of the archive, for any number of uploads,      *)
(* reprints and kills.                                                     *)
THEOREM ArchiveInvariant == ArchiveSpec => []ArchiveInv
<1>1. ASSUME ArchiveInit PROVE ArchiveInv
  <2>1. (CHOOSE n \in Names : TRUE) \in Names
    BY ArchiveAssumption
  <2>2. ArchiveMaps
    BY <1>1, <2>1, ArchiveAssumption DEF ArchiveInit, ArchiveMaps, Contents, UploadPoints,
       FileRecords, UploadRecords, ReprintRecords
  <2>3. /\ \A u \in Uploads : uploading[u].at = "new"
        /\ \A p \in Reprints : reprinting[p].at = "new"
        /\ table = {} /\ sent = {}
    BY <1>1 DEF ArchiveInit
  <2> QED
    BY <2>2, <2>3 DEF ArchiveInv
<1> QED
  BY <1>1, ArchiveInvStep, PTL DEF ArchiveSpec

LEMMA ArchiveInvTells == ArchiveInv => ArchiveTypeOK /\ ReprintIsUpload
BY ArchiveMapsTyped DEF ArchiveInv, ReprintIsUpload, RowIsTrue

-------------------------------------------------------------------------------
(* The questions to the printer.                                           *)

QueryMaps ==
  /\ stage \in [Requests -> Stages] /\ asks \in [Requests -> Questions \union {Unasked}]
  /\ replyCh \in [Requests -> Seq(Abouts)] /\ got \in [Requests -> SUBSET Abouts]
  /\ probes \in [Requests -> 0..Drain] /\ left \in [Requests -> 1..Reports]
  /\ answer \in [Requests -> SUBSET Abouts]
  /\ listening \subseteq Requests /\ linked \in {"no", "yes", "lost"}
  /\ onTheWay \in Seq(Replies) /\ Len(onTheWay) <= MaxOnTheWay
  /\ storedFilePreviewCache \subseteq StoredFiles /\ bedLevelingGrid \in BOOLEAN

(* How far a request is goes with what it asks. *)
StageFits(r) ==
  /\ stage[r] = "new" <=> asks[r].kind = "none"
  /\ stage[r] \in {"selected", "await"} => asks[r].kind = "preview"
  /\ stage[r] = "first" => asks[r].kind = "files"
  /\ stage[r] = "window" => asks[r].kind \in {"report", "grid", "files"}
  /\ stage[r] \in {"pause", "probe"} => asks[r].kind = "report"
  /\ stage[r] \notin {"pause", "probe"} => probes[r] = 0
  /\ stage[r] = "pause" => probes[r] < Drain

(* Its channel holds nothing before it asks, and for a preview nothing else.*)
ChannelFits(r) ==
  /\ Len(replyCh[r]) <= ReplyBuffer
  /\ stage[r] = "new" => replyCh[r] = << >> /\ answer[r] = {}
  /\ asks[r].kind = "preview" => \A i \in DOMAIN replyCh[r] : replyCh[r][i] = asks[r].about

(* What a request that asks this question may be answered.                 *)
Answers(question, with) ==
  /\ question.kind = "preview" => with \subseteq {question.about}
  /\ question.kind = "files" => with \intersect Sources \subseteq {question.about}

AnswerFits(r) == Answers(asks[r], answer[r])

Listens(r) == r \in listening <=> stage[r] \notin {"new", "done"}

RequestFits(r) == StageFits(r) /\ ChannelFits(r) /\ AnswerFits(r) /\ Listens(r)

(* A reply on its way is one its request wants; a preview is of a file. *)
Expected(reply) ==
  /\ stage[reply.to] # "new" /\ Wants(reply.to, reply)
  /\ reply.kind = "preview" => reply.about \in StoredFiles

QueryInv ==
  /\ QueryMaps
  /\ \A r \in Requests : RequestFits(r)
  /\ \A i \in DOMAIN onTheWay : Expected(onTheWay[i])
  /\ passed = {}

LEMMA QueryInvTells == QueryInv => QueryTypeOK /\ RepliesReachRequest /\ AnswersFit
<1> SUFFICES ASSUME QueryInv PROVE QueryTypeOK /\ RepliesReachRequest /\ AnswersFit
  OBVIOUS
<1>1. QueryMaps /\ passed = {}
  BY DEF QueryInv
<1>2. \A r \in Requests : /\ Len(replyCh[r]) <= ReplyBuffer
                          /\ r \in listening <=> stage[r] \notin {"new", "done"}
                          /\ AnswerFits(r)
  BY DEF QueryInv, RequestFits, ChannelFits, Listens
<1>3. \A r \in Requests :
        /\ replyCh[r] \in Seq(Abouts) /\ got[r] \subseteq Abouts /\ probes[r] \in 0..Drain
        /\ left[r] \in 0..Reports /\ answer[r] \subseteq Abouts
  BY <1>1 DEF QueryMaps
<1>4. QueryTypeOK
  BY <1>1, <1>2, <1>3 DEF QueryMaps, QueryTypeOK
<1> QED
  BY <1>1, <1>2, <1>4 DEF RepliesReachRequest, AnswersFit, AnswerFits, Answers

LEMMA QuestionParts ==
  ASSUME NEW q \in Questions \union {Unasked}
  PROVE  /\ q.kind \in {"report", "grid", "files", "preview", "none"}
         /\ q.kind = "none" <=> q = Unasked
         /\ q.kind = "files" => q.about \in Sources /\ q.about \in Abouts
         /\ q.kind = "preview" => q.about \in StoredFiles /\ q.about \in Abouts
         /\ q \in Questions <=> q # Unasked
BY DEF Questions, Unasked, Abouts

(* A step of one request leaves the others as they are. *)
Alone(r) ==
  \A q \in Requests \ {r} :
    /\ stage'[q] = stage[q] /\ asks'[q] = asks[q] /\ replyCh'[q] = replyCh[q]
    /\ probes'[q] = probes[q] /\ answer'[q] = answer[q]
    /\ q \in listening' <=> q \in listening

LEMMA AloneKeeps ==
  ASSUME NEW r \in Requests, Alone(r), NEW q \in Requests, q # r, RequestFits(q)
  PROVE  RequestFits(q)'
<1>1. /\ stage'[q] = stage[q] /\ asks'[q] = asks[q] /\ replyCh'[q] = replyCh[q]
      /\ probes'[q] = probes[q] /\ answer'[q] = answer[q]
      /\ q \in listening' <=> q \in listening
  BY DEF Alone
<1>2. StageFits(q)'
  BY <1>1 DEF RequestFits, StageFits
<1>3. ChannelFits(q)'
  BY <1>1 DEF RequestFits, ChannelFits
<1>4. AnswerFits(q)' /\ Listens(q)'
  BY <1>1 DEF RequestFits, AnswerFits, Listens
<1> QED
  BY <1>2, <1>3, <1>4 DEF RequestFits

(* What a request asks stays, and so does what it expects. *)
LEMMA ExpectedStays ==
  ASSUME QueryMaps, NEW reply \in Replies, Expected(reply),
         \A q \in Requests : stage[q] # "new" => stage'[q] # "new" /\ asks'[q] = asks[q]
  PROVE  Expected(reply)'
<1>1. reply.to \in Requests
  BY DEF Replies
<1>2. stage'[reply.to] # "new" /\ asks'[reply.to] = asks[reply.to]
  BY <1>1 DEF Expected
<1> QED
  BY <1>2 DEF Expected, Wants

(* What is left to show of a step of request r. *)
LEMMA RequestStep ==
  ASSUME QueryInv, NEW r \in Requests, QueryMaps', Alone(r), RequestFits(r)',
         stage'[r] # "new", stage[r] # "new" => asks'[r] = asks[r],
         passed' = passed,
         \A i \in DOMAIN onTheWay' : \/ i \in DOMAIN onTheWay /\ onTheWay'[i] = onTheWay[i]
                                     \/ onTheWay'[i].to = r /\ Wants(r, onTheWay[i])'
  PROVE  QueryInv'
<1>1. \A q \in Requests : RequestFits(q)'
  BY AloneKeeps DEF QueryInv
<1>2. \A q \in Requests : stage[q] # "new" => stage'[q] # "new" /\ asks'[q] = asks[q]
  BY DEF Alone
<1>3. ASSUME NEW i \in DOMAIN onTheWay' PROVE Expected(onTheWay[i])'
  <2>1. CASE i \in DOMAIN onTheWay /\ onTheWay'[i] = onTheWay[i]
    <3>1. PICK reply \in Replies : reply = onTheWay[i]
      <4>1. i \in 1..Len(onTheWay) /\ onTheWay \in Seq(Replies)
        BY <2>1, LenProperties DEF QueryInv, QueryMaps
      <4> QED
        BY <4>1, ElementOfSeq
    <3>2. Expected(reply)
      BY <2>1, <3>1 DEF QueryInv
    <3>3. Expected(reply)'
      BY <1>2, <3>2, ExpectedStays DEF QueryInv
    <3> QED
      BY <2>1, <3>1, <3>3
  <2>2. CASE onTheWay'[i].to = r /\ Wants(r, onTheWay[i])'
    <3>1. asks'[r] \in Questions \union {Unasked} /\ asks'[r].kind # "none"
      BY DEF QueryMaps, RequestFits, StageFits
    <3>2. /\ asks'[r].kind \in {"report", "grid", "files", "preview"}
          /\ asks'[r].kind = "preview" => asks'[r].about \in StoredFiles
      BY <3>1, QuestionParts
    <3>3. onTheWay'[i].kind = "preview" => onTheWay'[i].about \in StoredFiles
      BY <2>2, <3>2 DEF Wants
    <3> QED
      BY <2>2, <3>3 DEF Expected, Wants
  <2> QED
    BY <2>1, <2>2
<1> QED
  BY <1>1, <1>3 DEF QueryInv

(* A request is answered. *)
LEMMA FinishStep ==
  ASSUME QueryInv, NEW r \in Requests, NEW with \in SUBSET Abouts, Finish(r, with),
         UNCHANGED network,
         asks' \in [Requests -> Questions \union {Unasked}], asks'[r].kind # "none",
         \A q \in Requests \ {r} : asks'[q] = asks[q],
         stage[r] # "new" => asks'[r] = asks[r],
         Answers(asks'[r], with)
  PROVE  QueryInv'
<1>1. QueryMaps
  BY DEF QueryInv
<1>2. /\ stage' = [stage EXCEPT ![r] = "done"] /\ listening' = listening \ {r}
      /\ answer' = [answer EXCEPT ![r] = with]
      /\ replyCh' = [replyCh EXCEPT ![r] = << >>] /\ got' = [got EXCEPT ![r] = {}]
      /\ probes' = [probes EXCEPT ![r] = 0]
      /\ bedLevelingGrid' = (bedLevelingGrid \/ (asks[r].kind = "grid" /\ with # {}))
      /\ UNCHANGED <<left, storedFilePreviewCache, passed, linked, onTheWay>>
  BY DEF Finish, Goes, network
<1>3. QueryMaps'
  <2>1. bedLevelingGrid' \in BOOLEAN
    BY <1>2, Zenon
  <2>2. << >> \in Seq(Abouts) /\ 0 \in 0..Drain /\ "done" \in Stages
    BY QueryAssumption DEF Stages
  <2>3. stage' \in [Requests -> Stages] /\ replyCh' \in [Requests -> Seq(Abouts)]
        /\ got' \in [Requests -> SUBSET Abouts] /\ probes' \in [Requests -> 0..Drain]
        /\ answer' \in [Requests -> SUBSET Abouts]
    BY <1>1, <1>2, <2>2 DEF QueryMaps
  <2> QED
    BY <1>1, <1>2, <2>1, <2>3 DEF QueryMaps
<1>4. /\ stage'[r] = "done" /\ answer'[r] = with /\ replyCh'[r] = << >> /\ probes'[r] = 0
      /\ r \notin listening' /\ Len(<< >>) = 0 /\ DOMAIN replyCh'[r] = {}
  BY <1>1, <1>2 DEF QueryMaps
<1>5. StageFits(r)'
  BY <1>4 DEF StageFits
<1>6. ChannelFits(r)' /\ AnswerFits(r)' /\ Listens(r)'
  BY <1>4, QueryAssumption DEF ChannelFits, AnswerFits, Listens
<1>7. Alone(r)
  BY <1>1, <1>2 DEF Alone, QueryMaps
<1> QED
  BY <1>2, <1>3, <1>4, <1>5, <1>6, <1>7, RequestStep DEF RequestFits

LEMMA AskCacheKeeps ==
  ASSUME QueryInv, NEW r \in Requests, AskCache(r)
  PROVE  QueryInv'
<1>1. PICK file \in StoredFiles :
        /\ stage[r] = "new"
        /\ asks' = [asks EXCEPT ![r] = [kind |-> "preview", about |-> file]]
        /\ Finish(r, Cached(file)) /\ UNCHANGED network
  BY DEF AskCache
<1>2. [kind |-> "preview", about |-> file] \in Questions
  BY DEF Questions
<1>3. asks \in [Requests -> Questions \union {Unasked}]
  BY DEF QueryInv, QueryMaps
<1>4. /\ asks' \in [Requests -> Questions \union {Unasked}]
      /\ asks'[r] = [kind |-> "preview", about |-> file]
      /\ \A q \in Requests \ {r} : asks'[q] = asks[q]
  BY <1>1, <1>2, <1>3
<1>5. Cached(file) \in SUBSET Abouts
      /\ Answers([kind |-> "preview", about |-> file], Cached(file))
  BY DEF Cached, Abouts, Answers
<1> HIDE DEF QueryInv
<1> QED
  BY <1>1, <1>4, <1>5, FinishStep

(* A request that ends as it was asked. *)
LEMMA EndsKeeps ==
  ASSUME QueryInv, NEW r \in Requests, stage[r] # "new", UNCHANGED <<asks, network>>,
         NEW with \in SUBSET Abouts, Finish(r, with),
         Answers(asks[r], with)
  PROVE  QueryInv'
<1>1. asks \in [Requests -> Questions \union {Unasked}] /\ asks[r].kind # "none"
  BY DEF QueryInv, QueryMaps, RequestFits, StageFits
<1>2. asks' = asks /\ UNCHANGED network
  OBVIOUS
<1> QED
  BY <1>1, <1>2, FinishStep

LEMMA EndingsKeep ==
  ASSUME QueryInv, NEW r \in Requests,
         Cancel(r) \/ TakePreview(r) \/ TimesOut(r) \/ FilesEnd(r) \/ GridEnds(r)
  PROVE  QueryInv'
<1>1. /\ QueryMaps /\ StageFits(r) /\ ChannelFits(r)
      /\ got[r] \in SUBSET Abouts /\ asks[r] \in Questions \union {Unasked}
  BY DEF QueryInv, QueryMaps, RequestFits
<1>2. UNCHANGED <<asks, network>>
  BY DEF Cancel, TakePreview, TimesOut, FilesEnd, GridEnds
<1>3. CASE Cancel(r)
  <2>1. Answers(asks[r], {}) /\ {} \in SUBSET Abouts
    BY DEF Answers
  <2>2. Finish(r, {}) /\ stage[r] # "new"
    BY <1>3 DEF Cancel
  <2> QED
    BY <1>2, <2>1, <2>2, EndsKeeps
<1>4. CASE TakePreview(r)
  <2>1. /\ stage[r] = "await" /\ asks[r].kind = "preview" /\ replyCh[r] # << >>
        /\ replyCh[r] \in Seq(Abouts) /\ Finish(r, {Head(replyCh[r])})
    BY <1>1, <1>4 DEF TakePreview, StageFits, QueryMaps
  <2>2. Head(replyCh[r]) \in Abouts /\ Head(replyCh[r]) = replyCh[r][1] /\ 1 \in DOMAIN replyCh[r]
    BY <2>1
  <2>3. Head(replyCh[r]) = asks[r].about
    BY <1>1, <2>1, <2>2 DEF ChannelFits
  <2>4. {Head(replyCh[r])} \in SUBSET Abouts /\ Answers(asks[r], {Head(replyCh[r])})
    BY <2>1, <2>2, <2>3 DEF Answers
  <2> QED
    BY <1>2, <2>1, <2>4, EndsKeeps
<1>5. CASE TimesOut(r)
  <2> DEFINE with == IF stage[r] = "await" THEN Cached(asks[r].about) ELSE {}
  <2>1. Finish(r, with) /\ stage[r] # "new"
    BY <1>5 DEF TimesOut
  <2>2. with \in SUBSET Abouts
    BY <1>1 DEF Cached, Abouts, QueryMaps
  <2>3. Answers(asks[r], with)
    BY DEF Cached, Answers
  <2> HIDE DEF with
  <2> QED
    BY <1>2, <2>1, <2>2, <2>3, EndsKeeps
<1>6. CASE FilesEnd(r)
  <2>1. /\ Finish(r, got[r] \ (Sources \ {asks[r].about})) /\ stage[r] # "new"
        /\ (got[r] \ (Sources \ {asks[r].about})) \in SUBSET Abouts
        /\ Answers(asks[r], got[r] \ (Sources \ {asks[r].about}))
    BY <1>1, <1>6 DEF FilesEnd, Answers
  <2> QED
    BY <1>2, <2>1, EndsKeeps
<1>7. CASE GridEnds(r)
  <2>1. /\ Finish(r, got[r] \intersect {"grid"}) /\ stage[r] # "new"
        /\ (got[r] \intersect {"grid"}) \in SUBSET Abouts
        /\ Answers(asks[r], got[r] \intersect {"grid"})
    BY <1>1, <1>7 DEF GridEnds, Answers
  <2> QED
    BY <1>2, <2>1, EndsKeeps
<1> QED
  BY <1>3, <1>4, <1>5, <1>6, <1>7

LEMMA ReportEndsKeeps ==
  ASSUME QueryInv, NEW r \in Requests, stage[r] \notin {"new", "done"}, asks[r].kind = "report",
         ReportEnds(r), UNCHANGED network
  PROVE  QueryInv'
<1>1. /\ QueryMaps /\ RequestFits(r) /\ got[r] \in SUBSET Abouts /\ answer[r] \in SUBSET Abouts
      /\ left[r] \in 1..Reports /\ Reports \in Nat
  BY QueryAssumption DEF QueryInv, QueryMaps
<1>2. CASE left[r] = 1
  <2>1. /\ Finish(r, answer[r] \union got[r]) /\ UNCHANGED asks
        /\ (answer[r] \union got[r]) \in SUBSET Abouts
        /\ Answers(asks[r], answer[r] \union got[r])
    BY <1>1, <1>2 DEF ReportEnds, Answers
  <2> QED
    BY <2>1, EndsKeeps
<1>3. CASE left[r] # 1
  <2>1. /\ stage' = [stage EXCEPT ![r] = "asked"] /\ left' = [left EXCEPT ![r] = left[r] - 1]
        /\ replyCh' = [replyCh EXCEPT ![r] = << >>] /\ got' = [got EXCEPT ![r] = {}]
        /\ answer' = [answer EXCEPT ![r] = answer[r] \union got[r]]
        /\ probes' = [probes EXCEPT ![r] = 0]
        /\ UNCHANGED <<asks, listening, storedFilePreviewCache, bedLevelingGrid, passed,
                       linked, onTheWay>>
    BY <1>1, <1>3 DEF ReportEnds, Goes, network, kept, QueryMaps
  <2>2. QueryMaps'
    <3>1. /\ << >> \in Seq(Abouts) /\ 0 \in 0..Drain /\ "asked" \in Stages
          /\ left[r] - 1 \in 1..Reports /\ (answer[r] \union got[r]) \in SUBSET Abouts
      BY <1>1, <1>3, QueryAssumption DEF Stages
    <3>2. /\ stage' \in [Requests -> Stages] /\ replyCh' \in [Requests -> Seq(Abouts)]
          /\ got' \in [Requests -> SUBSET Abouts] /\ probes' \in [Requests -> 0..Drain]
          /\ answer' \in [Requests -> SUBSET Abouts] /\ left' \in [Requests -> 1..Reports]
      BY <1>1, <2>1, <3>1 DEF QueryMaps
    <3> QED
      BY <1>1, <2>1, <3>2 DEF QueryMaps
  <2>3. /\ stage'[r] = "asked" /\ replyCh'[r] = << >> /\ probes'[r] = 0 /\ asks' = asks
        /\ listening' = listening /\ Len(<< >>) = 0
    BY <1>1, <2>1 DEF QueryMaps
  <2>4. StageFits(r)' /\ ChannelFits(r)' /\ AnswerFits(r)'
    BY <2>3, QueryAssumption DEF StageFits, ChannelFits, AnswerFits, Answers
  <2>5. Listens(r)'
    <3>1. r \in listening
      BY <1>1 DEF RequestFits, Listens
    <3> QED
      BY <2>3, <3>1 DEF Listens
  <2>6. Alone(r)
    BY <1>1, <2>1 DEF Alone, QueryMaps
  <2> QED
    BY <2>1, <2>2, <2>3, <2>4, <2>5, <2>6, RequestStep DEF RequestFits
<1> QED
  BY <1>2, <1>3

LEMMA AskKeeps ==
  ASSUME QueryInv, NEW r \in Requests, Ask(r)
  PROVE  QueryInv'
<1>1. QueryMaps /\ RequestFits(r)
  BY DEF QueryInv
<1>2. PICK question \in Questions :
        /\ stage[r] = "new" /\ asks' = [asks EXCEPT ![r] = question]
        /\ stage' = [stage EXCEPT ![r] = "asked"] /\ listening' = listening \union {r}
        /\ UNCHANGED <<replyCh, got, probes, left, answer, linked, onTheWay,
                       storedFilePreviewCache, bedLevelingGrid, passed>>
  BY DEF Ask, Goes, collecting, network, kept
<1>3. question.kind # "none"
  BY DEF Questions
<1>4. /\ asks'[r] = question /\ stage'[r] = "asked" /\ r \in listening'
      /\ replyCh'[r] = << >> /\ answer'[r] = {} /\ probes'[r] = 0
      /\ DOMAIN << >> = {} /\ Len(<< >>) = 0
  BY <1>1, <1>2 DEF QueryMaps, RequestFits, ChannelFits, StageFits
<1>5. QueryMaps'
  <2>1. asks' \in [Requests -> Questions \union {Unasked}] /\ stage' \in [Requests -> Stages]
    BY <1>1, <1>2 DEF QueryMaps, Stages
  <2> QED
    BY <1>1, <1>2, <2>1 DEF QueryMaps
<1>6. StageFits(r)'
  BY <1>3, <1>4 DEF StageFits
<1>7. ChannelFits(r)' /\ AnswerFits(r)' /\ Listens(r)'
  BY <1>4, QueryAssumption DEF ChannelFits, AnswerFits, Answers, Listens
<1>8. Alone(r)
  BY <1>1, <1>2 DEF Alone, QueryMaps
<1> QED
  BY <1>2, <1>4, <1>5, <1>6, <1>7, <1>8, RequestStep DEF RequestFits

(* What a request makes the printer send is what it wants.                 *)
LEMMA SentReplies ==
  ASSUME onTheWay \in Seq(Replies), NEW r \in Requests, NEW replies \in Seq(Replies),
         \A j \in DOMAIN replies : replies[j].to = r /\ Wants(r, replies[j]),
         Sends(r, replies), asks' = asks
  PROVE  /\ onTheWay' \in Seq(Replies) /\ Len(onTheWay') <= MaxOnTheWay
         /\ \A i \in DOMAIN onTheWay' : \/ i \in DOMAIN onTheWay /\ onTheWay'[i] = onTheWay[i]
                                        \/ onTheWay'[i].to = r /\ Wants(r, onTheWay[i])'
<1>1. onTheWay' = onTheWay \o replies /\ Len(onTheWay \o replies) <= MaxOnTheWay
  BY DEF Sends
<1>2. /\ onTheWay' \in Seq(Replies)
      /\ Len(onTheWay') = Len(onTheWay) + Len(replies)
      /\ \A i \in 1..(Len(onTheWay) + Len(replies)) :
           onTheWay'[i] = IF i <= Len(onTheWay) THEN onTheWay[i] ELSE replies[i - Len(onTheWay)]
  BY <1>1, ConcatProperties
<1>3. /\ Len(onTheWay) \in Nat /\ Len(replies) \in Nat
      /\ DOMAIN onTheWay = 1..Len(onTheWay) /\ DOMAIN replies = 1..Len(replies)
      /\ DOMAIN onTheWay' = 1..(Len(onTheWay) + Len(replies))
  BY <1>2, LenProperties
<1>4. ASSUME NEW i \in DOMAIN onTheWay'
      PROVE  \/ i \in DOMAIN onTheWay /\ onTheWay'[i] = onTheWay[i]
             \/ onTheWay'[i].to = r /\ Wants(r, onTheWay[i])'
  <2>1. CASE i <= Len(onTheWay)
    BY <1>2, <1>3, <2>1
  <2>2. CASE ~(i <= Len(onTheWay))
    <3>1. i - Len(onTheWay) \in DOMAIN replies /\ onTheWay'[i] = replies[i - Len(onTheWay)]
      BY <1>2, <1>3, <2>2
    <3>2. onTheWay'[i].to = r /\ Wants(r, replies[i - Len(onTheWay)])
      BY <3>1
    <3> QED
      BY <3>1, <3>2 DEF Wants
  <2> QED
    BY <2>1, <2>2
<1> QED
  BY <1>1, <1>2, <1>4

LEMMA OneReply ==
  ASSUME NEW r \in Requests, NEW kind \in {"gcode", "files", "preview"}, NEW about \in Abouts,
         Wants(r, Reply(kind, about, r))
  PROVE  /\ <<Reply(kind, about, r)>> \in Seq(Replies)
         /\ \A j \in DOMAIN <<Reply(kind, about, r)>> :
              /\ <<Reply(kind, about, r)>>[j].to = r
              /\ Wants(r, <<Reply(kind, about, r)>>[j])
<1>1. Reply(kind, about, r) \in Replies /\ Reply(kind, about, r).to = r
  BY DEF Reply, Replies
<1> DEFINE reply == Reply(kind, about, r)
<1> HIDE DEF reply
<1> QED
  BY <1>1

LEMMA NoReply ==
  ASSUME NEW r
  PROVE  << >> \in Seq(Replies) /\ \A j \in DOMAIN << >> : <<>>[j].to = r /\ Wants(r, <<>>[j])
OBVIOUS

LEMMA AnswersWanted ==
  ASSUME QueryMaps, NEW r \in Requests, NEW replies \in AnswersTo(r)
  PROVE  /\ replies \in Seq(Replies)
         /\ \A j \in DOMAIN replies : replies[j].to = r /\ Wants(r, replies[j])
<1>1. asks[r] \in Questions \union {Unasked}
  BY DEF QueryMaps
<1>2. CASE replies = << >>
  BY <1>2
<1>3. CASE asks[r].kind = "report" /\ replies # << >>
  <2>1. Reply("gcode", "text", r) \in Replies /\ Reply("gcode", "text", r).to = r
        /\ Wants(r, Reply("gcode", "text", r))
    BY <1>3 DEF Reply, Replies, Abouts, Wants
  <2>2. \/ replies = <<Reply("gcode", "text", r)>>
        \/ replies = <<Reply("gcode", "text", r), Reply("gcode", "text", r)>>
    BY <1>3 DEF AnswersTo
  <2>3. PICK t : t = Reply("gcode", "text", r)
    OBVIOUS
  <2>4. t \in Replies /\ t.to = r /\ Wants(r, t) /\ (replies = <<t>> \/ replies = <<t, t>>)
    BY <2>1, <2>2, <2>3
  <2>5. CASE replies = <<t>>
    BY <2>4, <2>5
  <2>6. CASE replies = <<t, t>>
    <3>1. replies \in Seq(Replies) /\ DOMAIN replies = 1..2
      BY <2>4, <2>6
    <3>2. \A j \in 1..2 : replies[j] = t
      BY <2>6
    <3> QED
      BY <2>4, <3>1, <3>2
  <2> QED
    BY <2>4, <2>5, <2>6
<1>4. CASE asks[r].kind = "grid" /\ replies # << >>
  <2>1. \A about \in {"text", "grid"} : about \in Abouts /\ Wants(r, Reply("gcode", about, r))
    BY <1>4 DEF Reply, Abouts, Wants
  <2>2. \E about \in {"text", "grid"} : replies = <<Reply("gcode", about, r)>>
    BY <1>4 DEF AnswersTo
  <2> QED
    BY <2>1, <2>2, OneReply
<1>5. CASE asks[r].kind = "files" /\ replies # << >>
  <2>1. \A about \in {asks[r].about, "elsewhere"} :
          about \in Abouts /\ Wants(r, Reply("files", about, r))
    BY <1>1, <1>5, QuestionParts DEF Reply, Wants, Abouts
  <2>2. \E about \in {asks[r].about, "elsewhere"} : replies = <<Reply("files", about, r)>>
    BY <1>5 DEF AnswersTo
  <2> QED
    BY <2>1, <2>2, OneReply
<1>6. CASE asks[r].kind \notin {"report", "grid", "files"}
  BY <1>2, <1>6 DEF AnswersTo
<1> QED
  BY <1>2, <1>3, <1>4, <1>5, <1>6

(* A step that moves the request on and leaves its channel alone.          *)
LEMMA MovesOnStep ==
  ASSUME QueryInv, NEW r \in Requests, stage[r] # "new", NEW to \in Stages, Goes(r, to),
         r \in listening' <=> to # "done", to # "new",
         \A q \in Requests \ {r} : q \in listening' <=> q \in listening,
         listening' \subseteq Requests,
         UNCHANGED <<asks, replyCh, left, storedFilePreviewCache, bedLevelingGrid, passed>>,
         got' \in [Requests -> SUBSET Abouts], answer' \in [Requests -> SUBSET Abouts],
         probes' \in [Requests -> 0..Drain], linked' \in {"no", "yes", "lost"},
         \A q \in Requests \ {r} : probes'[q] = probes[q] /\ answer'[q] = answer[q],
         AnswerFits(r)', StageFits(r)',
         onTheWay' \in Seq(Replies), Len(onTheWay') <= MaxOnTheWay,
         \A i \in DOMAIN onTheWay' : \/ i \in DOMAIN onTheWay /\ onTheWay'[i] = onTheWay[i]
                                     \/ onTheWay'[i].to = r /\ Wants(r, onTheWay[i])'
  PROVE  QueryInv'
<1>1. QueryMaps /\ RequestFits(r)
  BY DEF QueryInv
<1>2. stage' \in [Requests -> Stages] /\ stage'[r] = to
      /\ \A q \in Requests \ {r} : stage'[q] = stage[q]
  BY <1>1 DEF Goes, QueryMaps
<1>3. QueryMaps'
  BY <1>1, <1>2 DEF QueryMaps
<1>4. ChannelFits(r)'
  BY <1>1, <1>2 DEF RequestFits, ChannelFits
<1>5. Listens(r)'
  BY <1>2 DEF Listens
<1>6. Alone(r)
  BY <1>2 DEF Alone
<1> QED
  BY <1>2, <1>3, <1>4, <1>5, <1>6, RequestStep DEF RequestFits

LEMMA SendQuestionKeeps ==
  ASSUME QueryInv, NEW r \in Requests, SendQuestion(r)
  PROVE  QueryInv'
<1>1. QueryMaps /\ RequestFits(r)
  BY DEF QueryInv
<1> DEFINE to == CASE asks[r].kind = "preview" -> "selected"
                   [] asks[r].kind = "files"   -> "first"
                   [] OTHER                    -> "window"
<1>2. PICK replies \in AnswersTo(r) :
        /\ stage[r] = "asked" /\ Sends(r, replies) /\ Goes(r, to) /\ linked' = linked
        /\ UNCHANGED <<asks, listening, replyCh, got, probes, left, answer,
                       storedFilePreviewCache, bedLevelingGrid, passed>>
  BY DEF SendQuestion, Sends, collecting, kept
<1>3. to \in {"selected", "first", "window"} /\ to \in Stages
  BY DEF Stages
<1>4. asks[r].kind \in {"report", "grid", "files", "preview"} /\ probes[r] = 0 /\ r \in listening
  <2>1. asks[r] \in Questions \union {Unasked}
    BY <1>1 DEF QueryMaps
  <2>2. asks[r].kind \in {"report", "grid", "files", "preview", "none"}
    BY <2>1, QuestionParts
  <2> QED
    BY <1>1, <1>2, <2>2 DEF RequestFits, StageFits, Listens
<1>5. /\ onTheWay' \in Seq(Replies) /\ Len(onTheWay') <= MaxOnTheWay
      /\ \A i \in DOMAIN onTheWay' : \/ i \in DOMAIN onTheWay /\ onTheWay'[i] = onTheWay[i]
                                     \/ onTheWay'[i].to = r /\ Wants(r, onTheWay[i])'
  BY <1>1, <1>2, AnswersWanted, SentReplies DEF QueryMaps
<1>6. stage'[r] = to
  BY <1>1, <1>2 DEF Goes, QueryMaps
<1>7. StageFits(r)' /\ AnswerFits(r)'
  BY <1>1, <1>2, <1>4, <1>6 DEF StageFits, AnswerFits, RequestFits
<1> HIDE DEF to
<1> QED
  BY <1>1, <1>2, <1>3, <1>4, <1>5, <1>7, MovesOnStep DEF QueryMaps

LEMMA SendRequestKeeps ==
  ASSUME QueryInv, NEW r \in Requests, SendRequest(r)
  PROVE  QueryInv'
<1>1. QueryMaps /\ RequestFits(r)
  BY DEF QueryInv
<1>2. PICK replies \in {<< >>, <<Reply("preview", asks[r].about, r)>>} :
        /\ stage[r] = "selected" /\ Sends(r, replies) /\ Goes(r, "await") /\ linked' = linked
        /\ UNCHANGED <<asks, listening, replyCh, got, probes, left, answer,
                       storedFilePreviewCache, bedLevelingGrid, passed>>
  BY DEF SendRequest, Sends, collecting, kept
<1>3. asks[r].kind = "preview" /\ probes[r] = 0 /\ r \in listening
  BY <1>1, <1>2 DEF RequestFits, StageFits, Listens
<1>4. asks[r].about \in Abouts
  BY <1>1, <1>3, QuestionParts DEF QueryMaps
<1>5. Wants(r, Reply("preview", asks[r].about, r))
  BY <1>3 DEF Wants, Reply
<1>6. /\ replies \in Seq(Replies)
      /\ \A j \in DOMAIN replies : replies[j].to = r /\ Wants(r, replies[j])
  <2>1. CASE replies = << >>
    BY <2>1, NoReply
  <2>2. CASE replies = <<Reply("preview", asks[r].about, r)>>
    BY <1>4, <1>5, <2>2, OneReply
  <2> QED
    BY <1>2, <2>1, <2>2
<1>7. /\ onTheWay' \in Seq(Replies) /\ Len(onTheWay') <= MaxOnTheWay
      /\ \A i \in DOMAIN onTheWay' : \/ i \in DOMAIN onTheWay /\ onTheWay'[i] = onTheWay[i]
                                     \/ onTheWay'[i].to = r /\ Wants(r, onTheWay[i])'
  BY <1>1, <1>2, <1>6, SentReplies DEF QueryMaps
<1>8. stage'[r] = "await" /\ "await" \in Stages
  BY <1>1, <1>2 DEF Goes, QueryMaps, Stages
<1>9. StageFits(r)' /\ AnswerFits(r)'
  BY <1>1, <1>2, <1>3, <1>8 DEF StageFits, AnswerFits, RequestFits
<1> QED
  BY <1>1, <1>2, <1>3, <1>7, <1>8, <1>9, MovesOnStep DEF QueryMaps

LEMMA SendFailsKeeps ==
  ASSUME QueryInv, NEW r \in Requests, SendFails(r)
  PROVE  QueryInv'
<1>1. stage[r] \in {"asked", "selected"} /\ UNCHANGED network
  BY DEF SendFails
<1>2. CASE asks[r].kind = "report"
  BY <1>1, <1>2, ReportEndsKeeps DEF SendFails
<1>3. CASE asks[r].kind # "report"
  <2>1. Finish(r, {}) /\ UNCHANGED <<asks, network>> /\ {} \in SUBSET Abouts
        /\ Answers(asks[r], {})
    BY <1>1, <1>3 DEF SendFails, Answers
  <2> QED
    BY <1>1, <2>1, EndsKeeps
<1> QED
  BY <1>2, <1>3

(* The pause before a probe, from the window or from the last probe. *)
LEMMA PauseKeeps ==
  ASSUME QueryInv, NEW r \in Requests, stage[r] \in {"window", "probe"}, asks[r].kind = "report",
         probes[r] < Drain, Goes(r, "pause"),
         UNCHANGED <<asks, listening, collecting, left, answer, kept, passed, network>>
  PROVE  QueryInv'
<1>1. QueryMaps /\ RequestFits(r)
  BY DEF QueryInv
<1>2. UNCHANGED <<asks, listening, replyCh, got, probes, left, answer, linked, onTheWay,
                  storedFilePreviewCache, bedLevelingGrid, passed>>
  BY DEF collecting, kept, network
<1>3. stage'[r] = "pause" /\ "pause" \in Stages /\ r \in listening
  BY <1>1 DEF Goes, QueryMaps, Stages, RequestFits, Listens
<1>4. StageFits(r)' /\ AnswerFits(r)'
  BY <1>1, <1>2, <1>3 DEF StageFits, AnswerFits, RequestFits
<1> QED
  BY <1>1, <1>2, <1>3, <1>4, MovesOnStep DEF QueryMaps

LEMMA WindowEndsKeeps ==
  ASSUME QueryInv, NEW r \in Requests, WindowEnds(r)
  PROVE  QueryInv'
<1>1. stage[r] = "window" /\ asks[r].kind = "report" /\ UNCHANGED network
  BY DEF WindowEnds
<1>2. CASE got[r] = {} \/ Drain = 0
  BY <1>1, <1>2, ReportEndsKeeps DEF WindowEnds
<1>3. CASE ~(got[r] = {} \/ Drain = 0)
  <2>1. probes[r] = 0 /\ 0 < Drain
    BY <1>1, <1>3, QueryAssumption DEF QueryInv, RequestFits, StageFits
  <2>2. /\ Goes(r, "pause")
        /\ UNCHANGED <<asks, listening, collecting, left, answer, kept, passed, network>>
    BY <1>3 DEF WindowEnds
  <2> QED
    BY <1>1, <2>1, <2>2, PauseKeeps
<1> QED
  BY <1>2, <1>3

LEMMA ProbeEndsKeeps ==
  ASSUME QueryInv, NEW r \in Requests, ProbeEnds(r)
  PROVE  QueryInv'
<1>1. stage[r] = "probe" /\ UNCHANGED network /\ asks[r].kind = "report"
  BY DEF ProbeEnds, QueryInv, RequestFits, StageFits
<1>2. CASE got[r] = {} \/ (probes[r] > 1 /\ "short" \in got[r]) \/ probes[r] = Drain
  BY <1>1, <1>2, ReportEndsKeeps DEF ProbeEnds
<1>3. CASE ~(got[r] = {} \/ (probes[r] > 1 /\ "short" \in got[r]) \/ probes[r] = Drain)
  <2>1. probes[r] \in 0..Drain /\ probes[r] # Drain
    BY <1>3 DEF QueryInv, QueryMaps
  <2>2. probes[r] < Drain
    BY <2>1, QueryAssumption
  <2>3. /\ Goes(r, "pause")
        /\ UNCHANGED <<asks, listening, collecting, left, answer, kept, passed, network>>
    BY <1>3 DEF ProbeEnds
  <2> QED
    BY <1>1, <2>2, <2>3, PauseKeeps
<1> QED
  BY <1>2, <1>3

LEMMA SendProbeKeeps ==
  ASSUME QueryInv, NEW r \in Requests, SendProbe(r)
  PROVE  QueryInv'
<1>1. /\ QueryMaps /\ RequestFits(r) /\ stage[r] = "pause" /\ asks[r].kind = "report"
      /\ r \in listening
  BY DEF QueryInv, RequestFits, StageFits, SendProbe, Listens
<1>2. CASE ReportEnds(r) /\ UNCHANGED network
  BY <1>1, <1>2, ReportEndsKeeps
<1>3. CASE ~(ReportEnds(r) /\ UNCHANGED network)
  <2>1. PICK replies \in {<< >>, <<Reply("gcode", "short", r)>>, <<Reply("gcode", "text", r)>>} :
          /\ Sends(r, replies) /\ linked' = linked
          /\ Goes(r, "probe")
          /\ probes' = [probes EXCEPT ![r] = probes[r] + 1]
          /\ got' = [got EXCEPT ![r] = {}]
          /\ answer' = [answer EXCEPT ![r] = answer[r] \union got[r]]
          /\ UNCHANGED <<asks, listening, replyCh, left, storedFilePreviewCache,
                         bedLevelingGrid, passed>>
    BY <1>3 DEF SendProbe, Sends, kept
  <2>2. /\ replies \in Seq(Replies)
        /\ \A j \in DOMAIN replies : replies[j].to = r /\ Wants(r, replies[j])
    <3>1. \A about \in {"short", "text"} : about \in Abouts /\ Wants(r, Reply("gcode", about, r))
      BY <1>1 DEF Reply, Abouts, Wants
    <3>2. CASE replies = << >>
      BY <3>2, NoReply
    <3>3. ASSUME NEW about \in {"short", "text"}, replies = <<Reply("gcode", about, r)>>
          PROVE  /\ replies \in Seq(Replies)
                 /\ \A j \in DOMAIN replies : replies[j].to = r /\ Wants(r, replies[j])
      BY <3>1, <3>3, OneReply
    <3> QED
      BY <2>1, <3>2, <3>3
  <2>3. /\ onTheWay' \in Seq(Replies) /\ Len(onTheWay') <= MaxOnTheWay
        /\ \A i \in DOMAIN onTheWay' : \/ i \in DOMAIN onTheWay /\ onTheWay'[i] = onTheWay[i]
                                       \/ onTheWay'[i].to = r /\ Wants(r, onTheWay[i])'
    BY <1>1, <2>1, <2>2, SentReplies DEF QueryMaps
  <2>4. probes[r] + 1 \in 0..Drain
    BY <1>1, QueryAssumption DEF QueryMaps, RequestFits, StageFits
  <2>5. /\ got' \in [Requests -> SUBSET Abouts] /\ answer' \in [Requests -> SUBSET Abouts]
        /\ probes' \in [Requests -> 0..Drain] /\ stage'[r] = "probe" /\ "probe" \in Stages
        /\ \A q \in Requests \ {r} : probes'[q] = probes[q] /\ answer'[q] = answer[q]
    <3>1. (answer[r] \union got[r]) \in SUBSET Abouts
      BY <1>1 DEF QueryMaps
    <3> QED
      BY <1>1, <2>1, <2>4, <3>1 DEF QueryMaps, Goes, Stages
  <2>6. StageFits(r)' /\ AnswerFits(r)'
    BY <1>1, <2>1, <2>5 DEF StageFits, AnswerFits, Answers
  <2> QED
    BY <1>1, <2>1, <2>3, <2>5, <2>6, MovesOnStep DEF QueryMaps
<1> QED
  BY <1>2, <1>3

LEMMA TakeKeeps ==
  ASSUME QueryInv, NEW r \in Requests, Take(r)
  PROVE  QueryInv'
<1>1. /\ QueryMaps /\ RequestFits(r) /\ stage[r] \in {"first", "window", "probe"}
      /\ replyCh[r] \in Seq(Abouts) /\ replyCh[r] # << >>
  BY DEF QueryInv, QueryMaps, Take
<1> DEFINE to == IF stage[r] = "first" THEN "window" ELSE stage[r]
<1>2. /\ stage' = [stage EXCEPT ![r] = to]
      /\ got' = [got EXCEPT ![r] = got[r] \union {Head(replyCh[r])}]
      /\ replyCh' = [replyCh EXCEPT ![r] = Tail(replyCh[r])]
      /\ UNCHANGED <<asks, listening, probes, left, answer, linked, onTheWay,
                     storedFilePreviewCache, bedLevelingGrid, passed>>
  BY DEF Take, Goes, network, kept
<1>3. /\ Head(replyCh[r]) \in Abouts /\ Tail(replyCh[r]) \in Seq(Abouts)
      /\ Len(Tail(replyCh[r])) = Len(replyCh[r]) - 1 /\ Len(replyCh[r]) \in Nat
  BY <1>1, HeadTailProperties, LenProperties
<1>4. to \in {"window", "probe"} /\ to \in Stages
      /\ asks[r].kind \in {"report", "grid", "files"} /\ r \in listening
      /\ (to = "probe" => asks[r].kind = "report") /\ (to # "probe" => probes[r] = 0)
  BY <1>1 DEF RequestFits, StageFits, Stages, Listens
<1> HIDE DEF to
<1>5. /\ stage'[r] = to /\ replyCh'[r] = Tail(replyCh[r])
      /\ stage' \in [Requests -> Stages] /\ replyCh' \in [Requests -> Seq(Abouts)]
      /\ got' \in [Requests -> SUBSET Abouts]
  <2>1. (got[r] \union {Head(replyCh[r])}) \in SUBSET Abouts
    BY <1>1, <1>3 DEF QueryMaps
  <2> QED
    BY <1>1, <1>2, <1>3, <1>4, <2>1 DEF QueryMaps
<1>6. QueryMaps'
  BY <1>1, <1>2, <1>5 DEF QueryMaps
<1>7. StageFits(r)' /\ Listens(r)'
  BY <1>2, <1>4, <1>5 DEF StageFits, Listens
<1>8. ChannelFits(r)'
  <2>1. Len(replyCh[r]) <= ReplyBuffer
    BY <1>1 DEF RequestFits, ChannelFits
  <2>2. Len(replyCh'[r]) <= ReplyBuffer
    BY <1>3, <1>5, <2>1, QueryAssumption
  <2> QED
    BY <1>2, <1>4, <1>5, <2>2 DEF ChannelFits
<1>9. AnswerFits(r)'
  BY <1>1, <1>2 DEF RequestFits, AnswerFits
<1>10. Alone(r)
  BY <1>1, <1>2 DEF Alone, QueryMaps
<1> QED
  BY <1>2, <1>4, <1>5, <1>6, <1>7, <1>8, <1>9, <1>10, RequestStep DEF RequestFits

(* No request is passed by: whoever has sent is listening, and what is on  *)
(* its way is wanted by the one it was sent for.                           *)
LEMMA HandleReplyKeeps ==
  ASSUME QueryInv, HandleReply
  PROVE  QueryInv'
<1> DEFINE reply  == Head(onTheWay)
           takers == {r \in listening : Wants(r, reply)}
<1>1. /\ QueryMaps /\ onTheWay \in Seq(Replies) /\ onTheWay # << >>
      /\ onTheWay' = Tail(onTheWay)
      /\ replyCh' = [r \in Requests |->
                       IF r \in takers /\ asks[r].kind # "grid" /\ Room(r)
                       THEN Append(replyCh[r], reply.about) ELSE replyCh[r]]
      /\ got' = [r \in Requests |->
                   IF r \in takers /\ asks[r].kind = "grid"
                   THEN got[r] \union {reply.about} ELSE got[r]]
      /\ storedFilePreviewCache' = storedFilePreviewCache \union
           (IF reply.kind = "preview" THEN {reply.about} ELSE {})
      /\ passed' = passed \union
           {r \in {reply.to} \ takers : stage[r] \notin {"new", "asked", "done"}}
      /\ UNCHANGED <<stage, asks, listening, probes, left, answer, linked, bedLevelingGrid>>
  BY DEF HandleReply, handleCT1044, QueryInv, QueryMaps
<1>2. /\ reply \in Replies /\ reply = onTheWay[1] /\ 1 \in DOMAIN onTheWay
      /\ Len(onTheWay') = Len(onTheWay) - 1 /\ Len(onTheWay) \in Nat \ {0}
      /\ onTheWay' \in Seq(Replies)
      /\ DOMAIN onTheWay' = 1..(Len(onTheWay) - 1) /\ DOMAIN onTheWay = 1..Len(onTheWay)
      /\ \A i \in DOMAIN onTheWay' : onTheWay'[i] = onTheWay[i + 1]
  BY <1>1, HeadTailProperties, LenProperties
<1>3. reply.about \in Abouts /\ reply.to \in Requests
  BY <1>2 DEF Replies
<1>4. Expected(reply)
  BY <1>2 DEF QueryInv
<1>5. passed' = {}
  <2>1. stage[reply.to] \notin {"new", "done"} => reply.to \in takers
    BY <1>3, <1>4 DEF QueryInv, RequestFits, Listens, Expected
  <2> HIDE DEF takers
  <2> QED
    BY <1>1, <2>1 DEF QueryInv
<1>6. ASSUME NEW r \in Requests
      PROVE  \/ replyCh'[r] = replyCh[r]
             \/ /\ replyCh'[r] = Append(replyCh[r], reply.about)
                /\ Wants(r, reply) /\ Room(r) /\ r \in listening
  BY <1>1
<1> HIDE DEF reply
<1>7. ASSUME NEW r \in Requests
      PROVE  replyCh'[r] \in Seq(Abouts) /\ ChannelFits(r)'
  <2>1. /\ replyCh[r] \in Seq(Abouts) /\ Len(replyCh[r]) \in Nat /\ RequestFits(r)
        /\ DOMAIN replyCh[r] = 1..Len(replyCh[r])
    BY <1>1, LenProperties DEF QueryMaps, QueryInv
  <2>2. CASE replyCh'[r] = replyCh[r]
    BY <1>1, <2>1, <2>2 DEF RequestFits, ChannelFits
  <2>3. CASE /\ replyCh'[r] = Append(replyCh[r], reply.about)
             /\ Wants(r, reply) /\ Room(r) /\ r \in listening
    <3>1. /\ replyCh'[r] \in Seq(Abouts) /\ Len(replyCh'[r]) = Len(replyCh[r]) + 1
          /\ DOMAIN replyCh'[r] = 1..(Len(replyCh[r]) + 1)
          /\ \A i \in 1..Len(replyCh[r]) : replyCh'[r][i] = replyCh[r][i]
          /\ replyCh'[r][Len(replyCh[r]) + 1] = reply.about
      BY <1>3, <2>1, <2>3, AppendProperties, LenProperties
    <3>2. Len(replyCh'[r]) <= ReplyBuffer
      BY <2>1, <2>3, <3>1, QueryAssumption DEF Room
    <3>3. stage'[r] # "new"
      BY <1>1, <2>1, <2>3 DEF RequestFits, Listens
    <3>4. ASSUME asks'[r].kind = "preview", NEW i \in DOMAIN replyCh'[r]
          PROVE  replyCh'[r][i] = asks'[r].about
      <4>1. reply.about = asks[r].about
        BY <1>1, <2>3, <3>4 DEF Wants
      <4>2. \A j \in DOMAIN replyCh[r] : replyCh[r][j] = asks[r].about
        BY <1>1, <2>1, <3>4 DEF RequestFits, ChannelFits
      <4> QED
        BY <1>1, <2>1, <3>1, <4>1, <4>2
    <3> QED
      BY <3>1, <3>2, <3>3, <3>4 DEF ChannelFits
  <2> QED
    BY <1>6, <2>2, <2>3
<1>8. QueryMaps'
  <2>1. got' \in [Requests -> SUBSET Abouts]
    BY <1>1, <1>3 DEF QueryMaps
  <2>2. replyCh' \in [Requests -> Seq(Abouts)]
    BY <1>1, <1>7
  <2>3. storedFilePreviewCache' \subseteq StoredFiles
    BY <1>1, <1>4 DEF QueryMaps, Expected
  <2>4. Len(onTheWay') <= MaxOnTheWay
    BY <1>1, <1>2, QueryAssumption DEF QueryMaps
  <2> QED
    BY <1>1, <1>2, <2>1, <2>2, <2>3, <2>4 DEF QueryMaps
<1>9. ASSUME NEW r \in Requests PROVE RequestFits(r)'
  <2>1. RequestFits(r)
    BY DEF QueryInv
  <2>2. StageFits(r)' /\ AnswerFits(r)' /\ Listens(r)'
    BY <1>1, <2>1 DEF RequestFits, StageFits, AnswerFits, Listens
  <2> QED
    BY <1>7, <2>2 DEF RequestFits
<1>10. ASSUME NEW i \in DOMAIN onTheWay' PROVE Expected(onTheWay[i])'
  <2>1. i + 1 \in DOMAIN onTheWay /\ onTheWay'[i] = onTheWay[i + 1]
    BY <1>2
  <2>2. Expected(onTheWay[i + 1])
    BY <2>1 DEF QueryInv
  <2> QED
    BY <1>1, <2>1, <2>2 DEF Expected, Wants
<1> QED
  BY <1>5, <1>8, <1>9, <1>10 DEF QueryInv

LEMMA LinkKeeps ==
  ASSUME QueryInv, LinkLost \/ ClientStops \/ ClientStarts \/ UNCHANGED qVars
  PROVE  QueryInv'
<1>1. /\ QueryMaps
      /\ UNCHANGED <<stage, asks, listening, replyCh, got, probes, left, answer,
                     storedFilePreviewCache, bedLevelingGrid, passed>>
      /\ linked' \in {"no", "yes", "lost"}
      /\ \/ onTheWay' = onTheWay \/ onTheWay' = << >>
         \/ \E n \in 0..Len(onTheWay) : onTheWay' = SubSeq(onTheWay, 1, n)
  BY DEF QueryInv, QueryMaps, LinkLost, ClientStops, ClientStarts, Untouched, collecting, kept,
         qVars
<1>2. onTheWay \in Seq(Replies) /\ Len(onTheWay) \in Nat /\ Len(onTheWay) <= MaxOnTheWay
      /\ DOMAIN onTheWay = 1..Len(onTheWay)
  BY <1>1, LenProperties DEF QueryMaps
<1>3. /\ onTheWay' \in Seq(Replies) /\ Len(onTheWay') <= MaxOnTheWay
      /\ \A i \in DOMAIN onTheWay' : i \in DOMAIN onTheWay /\ onTheWay'[i] = onTheWay[i]
  <2>1. CASE onTheWay' = onTheWay
    BY <1>2, <2>1
  <2>2. CASE onTheWay' = << >>
    BY <2>2, QueryAssumption
  <2>3. ASSUME NEW n \in 0..Len(onTheWay), onTheWay' = SubSeq(onTheWay, 1, n)
        PROVE  /\ onTheWay' \in Seq(Replies) /\ Len(onTheWay') <= MaxOnTheWay
               /\ \A i \in DOMAIN onTheWay' : i \in DOMAIN onTheWay /\ onTheWay'[i] = onTheWay[i]
    <3>1. \A i \in 1..n : i \in 1..Len(onTheWay) /\ onTheWay[i] \in Replies
      BY <1>2, ElementOfSeq
    <3>2. /\ onTheWay' \in Seq(Replies)
          /\ Len(onTheWay') = IF 1 <= n THEN n - 1 + 1 ELSE 0
          /\ \A i \in 1..(n - 1 + 1) : onTheWay'[i] = onTheWay[1 + i - 1]
      BY <1>2, <2>3, <3>1, SubSeqProperties
    <3>3. Len(onTheWay') = n /\ DOMAIN onTheWay' = 1..n
      BY <1>2, <3>2, LenProperties
    <3>4. \A i \in 1..n : onTheWay'[i] = onTheWay[i]
      BY <1>2, <3>2
    <3> QED
      BY <1>2, <3>1, <3>2, <3>3, <3>4, QueryAssumption
  <2> QED
    BY <1>1, <2>1, <2>2, <2>3
<1>4. QueryMaps'
  BY <1>1, <1>3 DEF QueryMaps
<1>5. ASSUME NEW r \in Requests PROVE RequestFits(r)'
  BY <1>1 DEF QueryInv, RequestFits, StageFits, ChannelFits, AnswerFits, Listens
<1>6. ASSUME NEW i \in DOMAIN onTheWay' PROVE Expected(onTheWay[i])'
  <2>1. Expected(onTheWay[i]) /\ onTheWay'[i] = onTheWay[i]
    BY <1>3 DEF QueryInv
  <2> QED
    BY <1>1, <2>1 DEF Expected, Wants
<1> QED
  BY <1>1, <1>4, <1>5, <1>6 DEF QueryInv

(* The inductive invariant of the questions, for any requests, windows and *)
(* room in the channels.                                                   *)
THEOREM QueryInvariant == QuerySpec => []QueryInv
<1>1. ASSUME QueryInit PROVE QueryInv
  <2>1. QueryMaps
    <3>1. /\ "new" \in Stages /\ << >> \in Seq(Abouts) /\ 0 \in 0..Drain
          /\ Reports \in 1..Reports /\ {} \in SUBSET Abouts
          /\ << >> \in Seq(Replies) /\ Len(<< >>) = 0
      BY QueryAssumption DEF Stages
    <3>2. bedLevelingGrid \in BOOLEAN
      BY <1>1, Zenon DEF QueryInit
    <3>3. /\ stage \in [Requests -> Stages] /\ asks \in [Requests -> Questions \union {Unasked}]
          /\ replyCh \in [Requests -> Seq(Abouts)] /\ got \in [Requests -> SUBSET Abouts]
          /\ probes \in [Requests -> 0..Drain] /\ left \in [Requests -> 1..Reports]
          /\ answer \in [Requests -> SUBSET Abouts]
      BY <1>1, <3>1 DEF QueryInit
    <3> QED
      BY <1>1, <3>1, <3>2, <3>3, QueryAssumption DEF QueryInit, QueryMaps
  <2>2. \A r \in Requests :
          /\ stage[r] = "new" /\ asks[r].kind = "none" /\ r \notin listening
          /\ replyCh[r] = << >> /\ answer[r] = {} /\ probes[r] = 0
    BY <1>1 DEF QueryInit, Unasked
  <2>3. ASSUME NEW r \in Requests PROVE RequestFits(r)
    BY <2>2, QueryAssumption DEF RequestFits, StageFits, ChannelFits, AnswerFits, Answers, Listens
  <2> QED
    BY <1>1, <2>1, <2>3 DEF QueryInit, QueryInv
<1>2. QueryInv /\ [QueryNext]_qVars => QueryInv'
  BY AskCacheKeeps, AskKeeps, SendQuestionKeeps, SendRequestKeeps, SendFailsKeeps, EndingsKeep,
     TakeKeeps, WindowEndsKeeps, SendProbeKeeps, ProbeEndsKeeps, HandleReplyKeeps, LinkKeeps
     DEF QueryNext
<1> QED
  BY <1>1, <1>2, PTL DEF QuerySpec

-------------------------------------------------------------------------------
(* A behaviour of the peripherals is one of each of them: they share no    *)
(* variable, and a step of one leaves the others at rest.                  *)

LEMMA StepOfEach ==
  ASSUME [Next]_vars
  PROVE  /\ [ZNext]_zVars /\ [AlertNext]_alertVars /\ [MjpegNext]_mjVars
         /\ [StatusNext]_statusVars /\ [NotifNext]_notifVars /\ [HaNext]_haVars
         /\ [QueryNext]_qVars /\ [LogNext]_logVars /\ [ArchiveNext]_archiveVars
BY Zenon DEF Next, vars

LEMMA EachOnItsOwn ==
  Spec => /\ ZSpec /\ AlertSpec /\ MjpegSpec /\ StatusSpec /\ NotifSpec /\ HaSpec
          /\ QuerySpec /\ LogSpec /\ ArchiveSpec
<1>1. Init => /\ ZInit /\ AlertInit /\ MjpegInit /\ StatusInit /\ NotifInit /\ HaInit
              /\ QueryInit /\ LogInit /\ ArchiveInit
  BY DEF Init
<1> QED
  BY <1>1, StepOfEach, PTL DEF Spec, ZSpec, AlertSpec, MjpegSpec, StatusSpec, NotifSpec, HaSpec,
     QuerySpec, LogSpec, ArchiveSpec

(* The invariants of all of them. *)
PeripheralsInv ==
  ZInv /\ AlertInv /\ MjpegInv /\ StatusTypeOK /\ NotifInv /\ HaInv /\ QueryInv /\ LogInv
    /\ ArchiveInv

THEOREM PeripheralsInvariant == Spec => []PeripheralsInv
BY EachOnItsOwn, ZOffsetInvariant, AlertInvariant, MjpegInvariant, StatusTypeCorrect,
   NotifInvariant, HaInvariant, QueryInvariant, LogInvariant, ArchiveInvariant, PTL
   DEF PeripheralsInv

(* Every variable of the peripherals keeps to its type.                    *)
THEOREM PeripheralsTypeCorrect == Spec => []PeripheralsTypeOK
<1>1. PeripheralsInv => PeripheralsTypeOK
  BY QueryInvTells, ArchiveInvTells, MjpegInvShows
     DEF PeripheralsInv, PeripheralsTypeOK, ZInv, AlertInv, NotifInv, HaInv, LogInv
<1> QED
  BY <1>1, PeripheralsInvariant, PTL

(* A page that polls the alerts learns when some were lost to it; a viewer *)
(* of the log ring sees its lines in order; no reply of the printer goes   *)
(* past a request that waits for it (its full channel may still drop it),  *)
(* and what a request answers is of what it asked for.  This is about any  *)
(* number of pages, requests and lines, and any size of the buffers.       *)
THEOREM NothingGoesMissing == Spec => []NothingIsMissed
<1>1. LogInv => LinesInOrder
  BY EntriesAreLast DEF LogInv, LinesInOrder
<1>2. PeripheralsInv => NothingIsMissed
  BY <1>1, QueryInvTells DEF PeripheralsInv, AlertInv, NothingIsMissed
<1> QED
  BY <1>2, PeripheralsInvariant, PTL

(* The frames of ReadMJPEGFrames are the pictures of the whole stream, one *)
(* after the other, however it is cut into chunks, until a picture is      *)
(* larger than the buffer.                                                 *)
THEOREM FramesAreCutRight == Spec => []FramesAreThePictures
<1>1. PeripheralsInv => FramesAreThePictures
  BY MjpegInvShows DEF PeripheralsInv
<1> QED
  BY <1>1, PeripheralsInvariant, PTL

(* When no event and no post was lost, the last notification fits the      *)
(* printer; while its link is up, the Home Assistant broker has the state, *)
(* but for an update between the halves of publishCurrentState; and a      *)
(* reprint sends the whole G-code of one upload, whatever was cut short.   *)
THEOREM OutsideKnows == Spec => []OutsideIsTold
<1>1. PeripheralsInv => OutsideIsTold
  BY NotifInvTells, HaInvTells, ArchiveInvTells DEF PeripheralsInv, OutsideIsTold
<1> QED
  BY <1>1, PeripheralsInvariant, PTL

(* QuietChangesAreTrue holds of the peripherals too.                       *)
THEOREM OffsetChangesAreTrue == Spec => QuietChangeIsTrue
BY EachOnItsOwn, QuietChangesAreTrue, PTL

===============================================================================
