-------------------------- MODULE PrintMonitorProofs --------------------------
(***************************************************************************)
(* The table of prints, for every set of files, tasks and requests and     *)
(* every limit of rows: it is a log of one print at a time, and the        *)
(* requests that delete selected rows do not take the row of the print that*)
(* is going on, unless they have selected its id before there was a row of *)
(* it.  The invariant: only the row inserted last can be open, and an id   *)
(* that a request has checked is not open.  The second follows from the    *)
(* first, because a checked id was given out before, and an insertion gives*)
(* a new one.                                                              *)
(*                                                                         *)
(* The monitor that writes it, for every number of requests, whatever the  *)
(* printer reports: its steps are steps of that log, each print it knows   *)
(* of is recorded once, and a pending file has a request behind it.        *)
(***************************************************************************)
EXTENDS PrintMonitor, FiniteSetTheorems, TLAPS

HistoryInv ==
  /\ HistoryTypeOK
  /\ Open \subseteq {lastId}
  /\ \A d \in Deleters : checked[d] \cap Open = {}

(* What any step that only edits rows in place, or takes some away, must   *)
(* show to keep the invariant.                                             *)
LEMMA RowsEdited ==
  ASSUME HistoryInv, NEW S \in SUBSET Ids, NEW f \in [S -> Row],
         rows' = f, UNCHANGED lastId,
         \A i \in S : f[i].status = "started" => i \in Open,
         checked' \in [Deleters -> SUBSET (1 .. lastId)],
         ahead' \in [Deleters -> SUBSET Nat],
         \A d \in Deleters : checked'[d] \cap Open = {}
  PROVE  HistoryInv' /\ Open' \subseteq Open
<1>1. DOMAIN rows' = S
  OBVIOUS
<1>2. Open' \subseteq Open
  BY <1>1 DEF Open, Ids
<1>3. HistoryTypeOK'
  BY <1>1 DEF HistoryInv, HistoryTypeOK, Ids
<1> QED
  BY <1>2, <1>3 DEF HistoryInv

(* An insertion opens the new row and closes every other.                  *)
LEMMA InsertOpensOne ==
  ASSUME HistoryInv, NEW file \in Files, NEW task \in Tasks \union {NoTask},
         NEW a \in Archive, Insert(file, task, a), UNCHANGED deleterVars
  PROVE  HistoryInv' /\ lastId' = lastId + 1 /\ Open' = {lastId + 1}
<1> DEFINE id == lastId + 1
           K  == Kept(Ids \union {id})
<1>1. lastId \in Nat /\ Ids \subseteq 1 .. lastId /\ rows \in [Ids -> Row]
  BY DEF HistoryInv, HistoryTypeOK
<1>2. K \subseteq Ids \union {id}
  BY DEF Kept
<1>3. id \in K
  <2>1. id \notin Ids
    BY <1>1
  <2>2. {j \in Ids \union {id} : j > id} = {}
    <3>1. \A j \in Ids \union {id} : j \in Nat /\ ~(j > id)
      BY <1>1
    <3> QED
      BY <3>1
  <2>3. Cardinality({j \in Ids \union {id} : j > id}) = 0
    BY <2>2, FS_EmptySet
  <2> QED
    BY <2>1, <2>3, HistoryAssumption DEF Kept
<1>4. DOMAIN rows' = K
  BY DEF Insert
<1>5. \A i \in K : /\ rows'[i] \in Row
                   /\ rows'[i].status = "started" <=> i = id
  <2> SUFFICES ASSUME NEW i \in K
               PROVE  /\ rows'[i] \in Row
                      /\ rows'[i].status = "started" <=> i = id
    OBVIOUS
  <2>1. CASE i = id
    <3>1. rows'[i] = StartedRow(file, task, a)
      BY <2>1 DEF Insert
    <3> QED
      BY <2>1, <3>1 DEF StartedRow, Row, Status
  <2>2. CASE i # id
    <3>1. i \in Ids /\ rows[i] \in Row
      BY <1>1, <1>2, <2>2
    <3>2. rows'[i] = Interrupted(rows[i])
      BY <2>2 DEF Insert
    <3> QED
      BY <2>2, <3>1, <3>2 DEF Interrupted, Row, Status
  <2> QED
    BY <2>1, <2>2
<1>6. rows' \in [K -> Row]
  <2>1. rows' = [i \in K |-> rows'[i]]
    BY DEF Insert
  <2> QED
    BY <2>1, <1>5
<1>7. lastId' = id /\ id \in Nat
  BY <1>1 DEF Insert
<1>8. Open' = {id}
  BY <1>3, <1>4, <1>5 DEF Open, Ids
<1>9. K \subseteq 1 .. id
  <2>1. \A i \in Ids \union {id} : i \in 1 .. id
    BY <1>1
  <2> HIDE DEF K, id
  <2> QED
    BY <1>2, <2>1
<1>10. checked' \in [Deleters -> SUBSET (1 .. id)]
  <2>1. \A S \in SUBSET (1 .. lastId) : S \in SUBSET (1 .. id)
    BY <1>1
  <2>2. checked' = checked /\ checked \in [Deleters -> SUBSET (1 .. lastId)]
    BY DEF HistoryInv, HistoryTypeOK, deleterVars
  <2> HIDE DEF id
  <2> QED
    BY <2>1, <2>2
<1>11. HistoryTypeOK'
  BY <1>4, <1>6, <1>7, <1>9, <1>10 DEF HistoryInv, HistoryTypeOK, Ids, deleterVars
<1>12. \A d \in Deleters : checked'[d] \cap Open' = {}
  BY <1>1, <1>8 DEF HistoryInv, HistoryTypeOK, deleterVars
<1> QED
  BY <1>7, <1>8, <1>11, <1>12 DEF HistoryInv

(* RecordStart of the three kinds: skipped, resumed, inserted.             *)
LEMMA RecordStartKeeps ==
  ASSUME HistoryInv, NEW file \in Files, NEW task \in Tasks \union {NoTask},
         NEW a \in Archive, RecordStart(file, task, a), UNCHANGED deleterVars
  PROVE  /\ HistoryInv'
         /\ \/ UNCHANGED <<Open, lastId>>
            \/ lastId' = lastId + 1 /\ Open' = {lastId + 1}
<1>1. CASE file \in Placeholders
  <2>1. UNCHANGED historyVars
    BY <1>1 DEF RecordStart, historyVars, deleterVars
  <2> QED
    BY <2>1 DEF historyVars, deleterVars, HistoryInv, HistoryTypeOK, Open, Ids
<1>2. CASE file \notin Placeholders /\ OfTask(task) # {}
  <2> DEFINE f == [i \in Ids |-> IF i \in OfTask(task)
                                 THEN [rows[i] EXCEPT !.archive = Coalesce(@, a)]
                                 ELSE rows[i]]
  <2>1. rows' = f /\ UNCHANGED lastId
    BY <1>2 DEF RecordStart, Resume
  <2>2. \A i \in Ids : rows[i] \in Row
    BY DEF HistoryInv, HistoryTypeOK
  <2>3. \A i \in Ids : f[i] \in Row /\ f[i].status = rows[i].status
    BY <2>2 DEF Row, Archive, Coalesce
  <2>4. f \in [Ids -> Row]
    BY <2>3
  <2>5. HistoryInv'
    BY <2>1, <2>3, <2>4, RowsEdited DEF Open, HistoryInv, HistoryTypeOK, deleterVars
  <2>6. Open' = Open
    BY <2>1, <2>3 DEF Open, Ids
  <2> QED
    BY <2>1, <2>5, <2>6
<1>3. CASE file \notin Placeholders /\ OfTask(task) = {}
  <2>1. Insert(file, task, a)
    BY <1>3 DEF RecordStart
  <2> QED
    BY <2>1, InsertOpensOne
<1> QED
  BY <1>1, <1>2, <1>3

(* A report of the end closes one row or none.                             *)
LEMMA RecordEndKeeps ==
  ASSUME HistoryInv, NEW file, NEW task, NEW s \in {"finished", "failed"},
         RecordEnd(file, task, s), UNCHANGED deleterVars
  PROVE  HistoryInv' /\ UNCHANGED lastId /\ (Open' = {} \/ Open' = Open)
<1> DEFINE A == FindActive(file, task)
           f == [i \in Ids |-> IF i \in A THEN [rows[i] EXCEPT !.status = s] ELSE rows[i]]
<1>1. rows' = f /\ UNCHANGED lastId
  BY DEF RecordEnd
<1>2. \A i \in Ids : rows[i] \in Row
  BY DEF HistoryInv, HistoryTypeOK
<1>3. \A i \in Ids : /\ f[i] \in Row
                     /\ f[i].status = IF i \in A THEN s ELSE rows[i].status
  BY <1>2 DEF Row, Status
<1>4. f \in [Ids -> Row]
  BY <1>3
<1>5. HistoryInv' /\ Open' \subseteq Open
  <2>1. \A i \in Ids : f[i].status = "started" => i \in Open
    BY <1>3 DEF Open
  <2>2. /\ checked' \in [Deleters -> SUBSET (1 .. lastId)]
        /\ ahead' \in [Deleters -> SUBSET Nat]
        /\ \A d \in Deleters : checked'[d] \cap Open = {}
    BY DEF HistoryInv, HistoryTypeOK, deleterVars
  <2> HIDE DEF f
  <2> QED
    BY <1>1, <1>4, <2>1, <2>2, RowsEdited
<1>6. Open' = {} \/ Open' = Open
  BY <1>5 DEF HistoryInv
<1> QED
  BY <1>1, <1>5, <1>6

(* Rows are taken away, by a request or by a clear.                        *)
LEMMA DeleteKeeps ==
  ASSUME HistoryInv, NEW S, DeleteRows(S),
         checked' \in [Deleters -> SUBSET (1 .. lastId)],
         ahead' \in [Deleters -> SUBSET Nat],
         \A d \in Deleters : checked'[d] \cap Open = {}
  PROVE  HistoryInv' /\ UNCHANGED lastId /\ Open' = Open \ S
<1> DEFINE f == [i \in Ids \ S |-> rows[i]]
<1>1. rows' = f /\ UNCHANGED lastId
  BY DEF DeleteRows
<1>2. f \in [Ids \ S -> Row]
  BY DEF HistoryInv, HistoryTypeOK
<1>3. HistoryInv'
  BY <1>1, <1>2, RowsEdited DEF Open
<1>4. Open' = Open \ S
  BY <1>1 DEF Open, Ids
<1> QED
  BY <1>1, <1>3, <1>4

(* Every step of the history keeps the invariant, and is a step of the log *)
(* or changes nothing of it.                                               *)
LEMMA HistoryStep ==
  ASSUME HistoryInv, HistoryNext
  PROVE  /\ HistoryInv'
         /\ Log!Begin \/ Log!End \/ UNCHANGED <<Open, lastId>>
<1> USE DEF deleterVars
<1>0. /\ checked \in [Deleters -> SUBSET (1 .. lastId)]
      /\ ahead \in [Deleters -> SUBSET Nat]
      /\ \A d \in Deleters : checked[d] \cap Open = {}
  BY DEF HistoryInv, HistoryTypeOK
<1>1. CASE \E f \in Files, t \in Tasks \union {NoTask}, a \in Archive :
             RecordStart(f, t, a) /\ UNCHANGED deleterVars
  BY <1>1, RecordStartKeeps DEF Log!Begin
<1>2. CASE \E f \in Files, t \in Tasks \union {NoTask}, s \in {"finished", "failed"} :
             RecordEnd(f, t, s) /\ UNCHANGED deleterVars
  BY <1>2, RecordEndKeeps DEF Log!End
<1>3. CASE \E i \in Ids : SetArchiveInfo(i) /\ UNCHANGED deleterVars
  <2> PICK k \in Ids : SetArchiveInfo(k) /\ UNCHANGED deleterVars
    BY <1>3
  <2> DEFINE f == [i \in Ids |-> IF i = k THEN [rows[i] EXCEPT !.archive = Coalesce(@, "stored")] ELSE rows[i]]
  <2>1. rows' = f /\ UNCHANGED lastId
    BY DEF SetArchiveInfo
  <2>2. \A i \in Ids : rows[i] \in Row
    BY DEF HistoryInv, HistoryTypeOK
  <2>3. \A i \in Ids : f[i] \in Row /\ f[i].status = rows[i].status
    BY <2>2 DEF Row, Archive, Coalesce
  <2>4. f \in [Ids -> Row]
    BY <2>3
  <2>5. HistoryInv'
    BY <1>0, <2>1, <2>3, <2>4, RowsEdited DEF Open
  <2>6. Open' = Open
    BY <2>1, <2>3 DEF Open, Ids
  <2> QED
    BY <2>1, <2>5, <2>6
<1>4. CASE ClearHistory
  <2>1. HistoryInv' /\ UNCHANGED lastId /\ Open' = Open \ Ids
    BY <1>0, <1>4, DeleteKeeps DEF ClearHistory
  <2> QED
    BY <2>1 DEF Log!End, Open
<1>5. CASE \E d \in Deleters, i \in 1 .. MaxId : CheckEntry(d, i)
  <2> PICK d \in Deleters, i \in 1 .. MaxId : CheckEntry(d, i)
    BY <1>5
  <2>1. /\ i \in Nat /\ i >= 1 /\ i \notin Open
        /\ UNCHANGED <<rows, lastId>> /\ lastId \in Nat
    BY HistoryAssumption DEF CheckEntry, HistoryInv, HistoryTypeOK
  <2>2. /\ checked' \in [Deleters -> SUBSET (1 .. lastId)]
        /\ \A e \in Deleters : checked'[e] \cap Open = {}
    <3>1. i <= lastId => i \in 1 .. lastId
      BY <2>1
    <3> QED
      BY <1>0, <2>1, <3>1 DEF CheckEntry
  <2>3. ahead' \in [Deleters -> SUBSET Nat]
    BY <1>0, <2>1 DEF CheckEntry
  <2> QED
    BY <2>1, <2>2, <2>3 DEF HistoryInv, HistoryTypeOK, Open, Ids
<1>6. ASSUME NEW d \in Deleters, RequestEnds(d)
      PROVE  /\ checked' \in [Deleters -> SUBSET (1 .. lastId)]
             /\ ahead' \in [Deleters -> SUBSET Nat]
             /\ \A e \in Deleters : checked'[e] \cap Open = {}
  BY <1>0, <1>6 DEF RequestEnds
<1>7. CASE \E d \in Deleters : CheckRefuses(d)
  <2>1. /\ checked' \in [Deleters -> SUBSET (1 .. lastId)]
        /\ ahead' \in [Deleters -> SUBSET Nat]
        /\ \A e \in Deleters : checked'[e] \cap Open = {}
    BY <1>6, <1>7 DEF CheckRefuses
  <2> QED
    BY <1>7, <2>1 DEF CheckRefuses, HistoryInv, HistoryTypeOK, Open, Ids
<1>8. CASE \E d \in Deleters : DeleteEntries(d)
  <2> PICK d \in Deleters : DeleteEntries(d)
    BY <1>8
  <2>1. RequestEnds(d) /\ DeleteRows(Selected(d))
    BY DEF DeleteEntries
  <2>2. HistoryInv' /\ UNCHANGED lastId /\ Open' = Open \ Selected(d)
    BY <1>6, <2>1, DeleteKeeps
  <2>3. Open' = Open \/ Open' = {}
    BY <2>2 DEF HistoryInv
  <2> QED
    BY <2>2, <2>3 DEF Log!End
<1>9. CASE \E i \in Ids : Age(i)
  <2> PICK k \in Ids : Age(k)
    BY <1>9
  <2> DEFINE f == [rows EXCEPT ![k].aged = TRUE]
  <2>1. rows' = f /\ UNCHANGED <<lastId, deleterVars>>
    BY DEF Age
  <2>2. rows \in [Ids -> Row]
    BY DEF HistoryInv, HistoryTypeOK
  <2>3. \A i \in Ids : f[i] \in Row /\ f[i].status = rows[i].status
    BY <2>2 DEF Row
  <2>4. f \in [Ids -> Row]
    BY <2>2, <2>3
  <2>5. HistoryInv'
    BY <1>0, <2>1, <2>3, <2>4, RowsEdited DEF Open
  <2>6. Open' = Open
    BY <2>1, <2>2, <2>3 DEF Open, Ids
  <2> QED
    BY <2>1, <2>5, <2>6
<1> QED
  BY <1>1, <1>2, <1>3, <1>4, <1>5, <1>6, <1>7, <1>8, <1>9 DEF HistoryNext, DeleteStep

LEMMA HistoryStutter == HistoryInv /\ UNCHANGED historyVars => HistoryInv' /\ UNCHANGED <<Open, lastId>>
  BY DEF HistoryInv, HistoryTypeOK, Open, Ids, historyVars, deleterVars

LEMMA HistoryBegins == HistoryInit => HistoryInv /\ Log!Init
<1> SUFFICES ASSUME HistoryInit PROVE HistoryInv /\ Log!Init
  OBVIOUS
<1>1. DOMAIN rows = {} /\ rows \in [{} -> Row]
  BY DEF HistoryInit
<1> QED
  BY <1>1 DEF HistoryInit, HistoryInv, HistoryTypeOK, Open, Ids, Log!Init

(* The inductive invariant of the history.                                 *)
THEOREM HistoryInvariant == HistorySpec => []HistoryInv
<1>1. HistoryInv /\ [HistoryNext]_historyVars => HistoryInv'
  BY HistoryStep, HistoryStutter
<1> QED
  BY <1>1, HistoryBegins, PTL DEF HistorySpec

(* Type correctness of the table and of the requests.                      *)
THEOREM HistoryTypeCorrect == HistorySpec => []HistoryTypeOK
<1>1. HistoryInv => HistoryTypeOK
  BY DEF HistoryInv
<1> QED
  BY <1>1, HistoryInvariant, PTL

(* The table implements the log of one print at a time.                    *)
THEOREM HistoryIsLog == HistorySpec => KeepsLog
<1>1. HistoryInv /\ [HistoryNext]_historyVars => [Log!Begin \/ Log!End]_<<Open, lastId>>
  BY HistoryStep, HistoryStutter
<1> QED
  BY <1>1, HistoryBegins, HistoryInvariant, PTL DEF HistorySpec, KeepsLog, Log!Spec

(* A request that deletes selected rows leaves the open one alone, unless  *)
(* it has selected it before there was one.                                *)
THEOREM InProgressStays == HistorySpec => InProgressIsKept
<1>1. HistoryInv /\ [HistoryNext]_historyVars
        => [\A d \in Deleters : DeleteEntries(d) => Open \ Open' \subseteq ahead[d]]_historyVars
  <2> SUFFICES ASSUME HistoryInv, NEW d \in Deleters, DeleteEntries(d)
               PROVE  Open \ Open' \subseteq ahead[d]
    OBVIOUS
  <2> QED
    BY DEF HistoryInv, HistoryTypeOK, DeleteEntries, DeleteRows, Selected, Open, Ids
<1> QED
  BY <1>1, HistoryInvariant, PTL DEF HistorySpec, InProgressIsKept

-------------------------------------------------------------------------------
(* The monitor. *)

(* A print is reported, waits for its name or is about to be reported; of  *)
(* no print, nothing is noted.                                             *)
OneNote ==
  \/ asked = 1 /\ ~pendingHistory /\ recording = NoFile
  \/ asked = 0 /\ pendingHistory /\ recording = NoFile
  \/ asked = 0 /\ ~pendingHistory /\ recording # NoFile

Noted ==
  /\ printActive => OneNote
  /\ ~printActive => asked = 0 /\ ~pendingHistory /\ recording = NoFile

(* The owner of a pending path has set it itself, before it sent the start *)
(* command; nothing is left to be recorded by a service that is stopped.   *)
PendingWasMarked ==
  pendingStoredFilePath # NoFile =>
    \E r \in Starters : /\ start[r].file = pendingStoredFilePath
                        /\ start[r].at \in {"marked", "tapped", "waiting", "started"}

MonitorInv ==
  /\ HistoryInv
  /\ MonitorTypeOK
  /\ Noted
  /\ PendingWasMarked
  /\ ~client => recording = NoFile

(* A report goes to the requests that listen, and changes only whether     *)
(* they are confirmed.                                                     *)
LEMMA ConfirmKeeps ==
  ASSUME start \in [Starters -> Request], NEW R, Confirm(R)
  PROVE  /\ start' \in [Starters -> Request]
         /\ \A r \in Starters : start'[r].at = start[r].at /\ start'[r].file = start[r].file
<1> SUFFICES ASSUME NEW r \in Starters
             PROVE  /\ start'[r] \in Request
                    /\ start'[r].at = start[r].at /\ start'[r].file = start[r].file
  BY DEF Confirm
<1> QED
  BY DEF Confirm, Request

(* A request goes from one point to the next. *)
LEMMA MoveKeeps ==
  ASSUME start \in [Starters -> Request], NEW r \in Starters,
         NEW point \in StartPoints, MoveTo(r, point)
  PROVE  /\ start' \in [Starters -> Request]
         /\ start'[r].at = point /\ start'[r].file = start[r].file
         /\ \A q \in Starters \ {r} : start'[q] = start[q]
BY DEF MoveTo, Request

LEMMA MonitorHistoryStep ==
  ASSUME HistoryInv, MonitorTypeOK, MonitorNext
  PROVE  HistoryInv' /\ [HistoryNext]_historyVars
<1>1. CASE UNCHANGED historyVars
  BY <1>1, HistoryStutter
<1>2. CASE HandlerRecords \/ \E f \in Files : SlicerRecords(f)
  <2>1. NoTask \in Tasks \union {NoTask} /\ "none" \in Archive /\ "stored" \in Archive
    BY DEF Archive
  <2>2. HistoryNext
    BY <1>2, <2>1 DEF HandlerRecords, SlicerRecords, HistoryNext, MonitorTypeOK
  <2> QED
    BY <2>2, HistoryStep
<1>3. CASE DeleteStep \/ \E i \in Ids : Age(i)
  <2>1. HistoryNext
    BY <1>3 DEF HistoryNext
  <2> QED
    BY <2>1, HistoryStep
<1>4. CASE WorkerStart \/ WorkerStop \/ Report
  BY <1>1, <1>4 DEF WorkerStart, WorkerStop, Report, EventPrinting, EventPaused, EventEnded,
                    EventOther, handlePrintSchedule, handleCT1044
<1>5. CASE \E r \in Starters : StartStoredFile(r)
  BY <1>1, <1>5 DEF StartStoredFile, StartAdmitted, StartRefused, SelectFails, SelectEnds, TapStart,
                    AlreadyPrinting, SendStart, StartConfirmed, GiveUp, NotTheLoop
<1> QED
  BY <1>2, <1>3, <1>4, <1>5 DEF MonitorNext

(* The reports, and what is recorded because of them. *)
LEMMA ReportKeeps ==
  ASSUME MonitorInv, HistoryTypeOK', Report \/ HandlerRecords \/ WorkerStart \/ WorkerStop
  PROVE  /\ MonitorTypeOK' /\ Noted' /\ PendingWasMarked'
         /\ ~client' => recording' = NoFile
<1> USE MonitorAssumption
<1>1. /\ MonitorTypeOK /\ start \in [Starters -> Request] /\ Noted
      /\ Files \subseteq Files \union {NoFile}
  BY DEF MonitorInv, MonitorTypeOK
<1>2. CASE EventPrinting
  <2>1. MonitorTypeOK'
    <3>1. CASE printActive
      BY <1>1, <1>2, <3>1, ConfirmKeeps DEF EventPrinting, MonitorTypeOK, Stats
    <3>2. CASE ~printActive
      <4>1. pendingHistory' \in BOOLEAN
        BY <1>1, <1>2, <3>2 DEF EventPrinting, MonitorTypeOK
      <4> QED
        BY <1>1, <1>2, <3>2, <4>1, ConfirmKeeps DEF EventPrinting, MonitorTypeOK, Stats
    <3> QED
      BY <3>1, <3>2
  <2>2. Noted'
    BY <1>1, <1>2 DEF EventPrinting, MonitorTypeOK, Noted, OneNote, Listening
  <2>3. PendingWasMarked'
    BY <1>1, <1>2, ConfirmKeeps DEF EventPrinting, MonitorInv, PendingWasMarked
  <2> QED
    BY <1>2, <2>1, <2>2, <2>3 DEF EventPrinting, Listening
<1>3. CASE EventPaused
  <2>1. MonitorTypeOK'
    BY <1>1, <1>3, ConfirmKeeps DEF EventPaused, MonitorTypeOK, Stats
  <2>2. Noted' /\ PendingWasMarked'
    BY <1>1, <1>3 DEF EventPaused, Noted, OneNote, PendingWasMarked
  <2> QED
    BY <1>3, <2>1, <2>2 DEF EventPaused, Listening
<1>4. CASE EventOther \/ \E s \in {"idle", "aborted"} : EventEnded(s)
  <2>1. MonitorTypeOK'
    <3>1. CASE EventOther
      <4>1. currentPrinterStat' \in Stats
        BY <3>1 DEF EventOther, Stats
      <4> QED
        BY <1>1, <3>1, <4>1 DEF EventOther, MonitorTypeOK
    <3>2. CASE \E s \in {"idle", "aborted"} : EventEnded(s)
      <4>1. currentPrinterStat' \in Stats
        BY <3>2 DEF EventEnded, Stats
      <4>2. printActive' \in BOOLEAN /\ pendingHistory' \in BOOLEAN
        BY <3>2, Zenon DEF EventEnded
      <4>3. asked' \in 0 .. 1
        BY <3>2 DEF EventEnded
      <4> QED
        BY <1>1, <3>2, <4>1, <4>2, <4>3 DEF EventEnded, MonitorTypeOK
    <3> QED
      BY <1>4, <3>1, <3>2
  <2>2. Noted'
    BY <1>1, <1>4 DEF EventEnded, EventOther, Noted, OneNote, Listening
  <2>3. PendingWasMarked'
    BY <1>4 DEF EventEnded, EventOther, MonitorInv, PendingWasMarked
  <2> QED
    BY <1>4, <2>1, <2>2, <2>3 DEF EventEnded, EventOther, Listening
<1>5. ASSUME NEW f \in Files, handlePrintSchedule(f)
      PROVE  /\ MonitorTypeOK' /\ Noted' /\ PendingWasMarked'
             /\ ~client' => recording' = NoFile
  <2>1. MonitorTypeOK'
    BY <1>1, <1>5, ConfirmKeeps DEF handlePrintSchedule, MonitorTypeOK, ShouldRecord
  <2>2. Noted'
    BY <1>1, <1>5 DEF handlePrintSchedule, MonitorTypeOK, Noted, OneNote, Listening, ShouldRecord
  <2>3. PendingWasMarked'
    BY <1>1, <1>5, ConfirmKeeps DEF handlePrintSchedule, MonitorInv, PendingWasMarked
  <2> QED
    BY <1>5, <2>1, <2>2, <2>3 DEF handlePrintSchedule, Listening
<1>6. ASSUME NEW f \in Files, NEW p \in BOOLEAN, handleCT1044(f, p)
      PROVE  /\ MonitorTypeOK' /\ Noted' /\ PendingWasMarked'
             /\ ~client' => recording' = NoFile
  <2>1. MonitorTypeOK'
    BY <1>1, <1>6, ConfirmKeeps DEF handleCT1044, MonitorTypeOK, ShouldRecord
  <2>2. Noted'
    BY <1>1, <1>6 DEF handleCT1044, MonitorTypeOK, Noted, OneNote, Listening, ShouldRecord
  <2>3. PendingWasMarked'
    BY <1>1, <1>6, ConfirmKeeps DEF handleCT1044, MonitorInv, PendingWasMarked
  <2> QED
    BY <1>6, <2>1, <2>2, <2>3 DEF handleCT1044, Listening
<1>7. CASE HandlerRecords
  <2>1. Noted' /\ asked' = 1
    BY <1>1, <1>7 DEF HandlerRecords, MonitorTypeOK, Noted, OneNote
  <2>2. MonitorTypeOK'
    BY <1>1, <1>7, <2>1 DEF HandlerRecords, MonitorTypeOK
  <2> QED
    BY <1>7, <2>1, <2>2 DEF HandlerRecords, MonitorInv, PendingWasMarked
<1>8. CASE WorkerStart \/ WorkerStop
  <2>1. recording = NoFile /\ recording' = NoFile /\ resetPrintState /\ client' \in BOOLEAN
        /\ start' = start
    BY <1>8 DEF WorkerStart, WorkerStop, Listening, MonitorInv
  <2>2. MonitorTypeOK'
    <3>1. currentPrinterStat' \in Stats
      BY <2>1 DEF resetPrintState, Stats
    <3>2. printActive' \in BOOLEAN /\ pendingHistory' \in BOOLEAN
      BY <2>1, Zenon DEF resetPrintState
    <3>3. asked' \in 0 .. 1
      BY <2>1 DEF resetPrintState
    <3> QED
      BY <1>1, <2>1, <3>1, <3>2, <3>3 DEF resetPrintState, MonitorTypeOK
  <2> QED
    BY <2>1, <2>2 DEF resetPrintState, Noted, OneNote, PendingWasMarked
<1> QED
  BY <1>2, <1>3, <1>4, <1>5, <1>6, <1>7, <1>8 DEF Report

(* The requests touch only themselves, the pending path and its name.      *)
LEMMA StarterKeeps ==
  ASSUME MonitorInv, HistoryTypeOK', NEW r \in Starters, StartStoredFile(r)
  PROVE  /\ MonitorTypeOK' /\ Noted' /\ PendingWasMarked'
         /\ ~client' => recording' = NoFile
<1>1. MonitorTypeOK /\ start \in [Starters -> Request]
  BY DEF MonitorInv, MonitorTypeOK
<1>2. NotTheLoop
  BY DEF StartStoredFile, StartAdmitted, StartRefused, SelectFails, SelectEnds, TapStart,
         AlreadyPrinting, SendStart, StartConfirmed, GiveUp
<1>3. Noted' /\ (~client' => recording' = NoFile)
  BY <1>2 DEF NotTheLoop, MonitorInv, Noted, OneNote
<1>4. ASSUME start' \in [Starters -> Request],
             lastFilename' \in Files \union {NoFile},
             pendingStoredFilePath' \in Files \union {NoFile}
      PROVE  MonitorTypeOK'
  BY <1>1, <1>2, <1>4 DEF NotTheLoop, MonitorTypeOK
<1>5. \A p \in {"selecting", "marked", "tapped", "waiting", "started", "failed"} :
        p \in StartPoints
  BY DEF StartPoints
<1>6. ASSUME NEW f \in Files, StartAdmitted(r, f)
      PROVE  MonitorTypeOK' /\ PendingWasMarked'
  <2>1. /\ start' \in [Starters -> Request]
        /\ start[r].at = "new" /\ \A q \in Starters \ {r} : start'[q] = start[q]
        /\ UNCHANGED <<lastFilename, pendingStoredFilePath>>
    BY <1>1, <1>5, <1>6 DEF StartAdmitted, Request
  <2> QED
    BY <1>1, <1>4, <2>1 DEF MonitorInv, MonitorTypeOK, PendingWasMarked
<1>7. ASSUME NEW p \in StartPoints, MoveTo(r, p), UNCHANGED <<lastFilename, pendingStoredFilePath>>,
             \/ start[r].at \in {"new", "selecting"}
             \/ p \in {"tapped", "waiting", "started"}
      PROVE  MonitorTypeOK' /\ PendingWasMarked'
  <2>1. /\ start' \in [Starters -> Request]
        /\ start'[r].at = p /\ start'[r].file = start[r].file
        /\ \A q \in Starters \ {r} : start'[q] = start[q]
    BY <1>1, <1>7, MoveKeeps
  <2>2. MonitorTypeOK'
    BY <1>1, <1>4, <1>7, <2>1 DEF MonitorTypeOK
  <2>3. PendingWasMarked'
    BY <1>7, <2>1 DEF MonitorInv, PendingWasMarked
  <2> QED
    BY <2>2, <2>3
<1>8. CASE StartRefused(r) \/ SelectFails(r)
  BY <1>3, <1>5, <1>7, <1>8 DEF StartRefused, SelectFails
<1>9. CASE TapStart(r) \/ AlreadyPrinting(r) \/ SendStart(r) \/ StartConfirmed(r)
  BY <1>3, <1>5, <1>7, <1>9 DEF TapStart, AlreadyPrinting, SendStart, StartConfirmed
<1>10. CASE SelectEnds(r)
  <2>1. /\ start' \in [Starters -> Request]
        /\ start'[r].at = "marked" /\ start'[r].file = start[r].file
    BY <1>1, <1>5, <1>10, MoveKeeps DEF SelectEnds
  <2>2. start[r].file \in Files \union {NoFile}
    BY <1>1 DEF Request
  <2> QED
    BY <1>3, <1>4, <1>10, <2>1, <2>2 DEF SelectEnds, PendingWasMarked
<1>11. CASE GiveUp(r)
  <2>1. /\ start' \in [Starters -> Request]
        /\ \A q \in Starters \ {r} : start'[q] = start[q]
    BY <1>1, <1>5, <1>11, MoveKeeps DEF GiveUp
  <2>2. /\ pendingStoredFilePath' \in {pendingStoredFilePath, NoFile}
        /\ lastFilename' = lastFilename
        /\ pendingStoredFilePath' # NoFile => start[r].file # pendingStoredFilePath'
    BY <1>11 DEF GiveUp, ClearPending
  <2>3. MonitorTypeOK'
    BY <1>1, <1>4, <2>1, <2>2 DEF MonitorTypeOK
  <2>4. PendingWasMarked'
    BY <2>1, <2>2 DEF MonitorInv, PendingWasMarked
  <2> QED
    BY <1>3, <2>3, <2>4
<1> QED
  BY <1>3, <1>6, <1>8, <1>9, <1>10, <1>11 DEF StartStoredFile

LEMMA MonitorStep ==
  ASSUME MonitorInv, [MonitorNext]_vars
  PROVE  MonitorInv' /\ [HistoryNext]_historyVars
<1>1. CASE UNCHANGED vars
  BY <1>1, HistoryStutter DEF vars, monitorVars, historyVars, MonitorInv, MonitorTypeOK,
                              HistoryInv, Noted, OneNote, PendingWasMarked
<1>2. CASE MonitorNext
  <2>1. HistoryInv' /\ HistoryTypeOK' /\ [HistoryNext]_historyVars
    BY <1>2, MonitorHistoryStep DEF MonitorInv, HistoryInv
  <2>2. CASE Report \/ HandlerRecords \/ WorkerStart \/ WorkerStop
    BY <2>1, <2>2, ReportKeeps DEF MonitorInv
  <2>3. CASE \E r \in Starters : StartStoredFile(r)
    BY <2>1, <2>3, StarterKeeps DEF MonitorInv
  <2>4. CASE UNCHANGED monitorVars
    BY <2>1, <2>4 DEF monitorVars, MonitorInv, MonitorTypeOK, Noted, OneNote, PendingWasMarked
  <2> QED
    BY <1>2, <2>1, <2>2, <2>3, <2>4 DEF MonitorNext, SlicerRecords
<1> QED
  BY <1>1, <1>2

(* The inductive invariant of the monitor and the history together.        *)
THEOREM MonitorInvariant == MonitorSpec => []MonitorInv
<1>1. ASSUME MonitorInit
      PROVE  MonitorInv
  <2>1. HistoryInv
    BY <1>1, HistoryBegins DEF MonitorInit
  <2>2. start \in [Starters -> Request]
    BY <1>1 DEF MonitorInit, Request, StartPoints
  <2>3. "unknown" \in Stats
    BY DEF Stats
  <2>4. MonitorTypeOK
    <3>1. client \in BOOLEAN /\ printActive \in BOOLEAN /\ pendingHistory \in BOOLEAN
      BY <1>1, Zenon DEF MonitorInit
    <3>2. /\ lastFilename = NoFile /\ pendingStoredFilePath = NoFile /\ recording = NoFile
          /\ currentPrinterStat = "unknown" /\ asked = 0
      BY <1>1 DEF MonitorInit
    <3> QED
      BY <2>1, <2>2, <2>3, <3>1, <3>2 DEF MonitorTypeOK, HistoryInv
  <2> QED
    BY <1>1, <2>1, <2>4 DEF MonitorInit, MonitorInv, Noted, PendingWasMarked
<1>2. MonitorInv /\ [MonitorNext]_vars => MonitorInv'
  BY MonitorStep
<1> QED
  BY <1>1, <1>2, PTL DEF MonitorSpec

(* The monitor, its requests and the table keep their types; a handler has *)
(* recorded the print at most once.                                        *)
THEOREM MonitorTypeCorrect == MonitorSpec => []MonitorTypeOK
<1>1. MonitorInv => MonitorTypeOK
  BY DEF MonitorInv
<1> QED
  BY <1>1, MonitorInvariant, PTL

(* Each print the monitor knows of is reported to the history once, in     *)
(* whatever order its states and names come, and a file that is pending    *)
(* belongs to a request that did not fail.                                 *)
THEOREM PrintsAreLogged == MonitorSpec => []PrintIsLogged
<1>1. ASSUME MonitorInv
      PROVE  PrintIsLogged
  <2> DEFINE notes == asked + (IF pendingHistory THEN 1 ELSE 0)
                            + (IF recording # NoFile THEN 1 ELSE 0)
  <2>1. OneNote => notes = 1
    BY DEF OneNote
  <2>2. asked = 0 /\ ~pendingHistory /\ recording = NoFile => notes # 1
    OBVIOUS
  <2>3. LoggedOnce
    BY <2>1, <2>2, <1>1, Zenon DEF MonitorInv, Noted, LoggedOnce
  <2>4. PendingHasOwner
    BY <1>1 DEF MonitorInv, PendingWasMarked, PendingHasOwner, InFlight
  <2> QED
    BY <2>3, <2>4 DEF PrintIsLogged
<1> QED
  BY <1>1, MonitorInvariant, PTL

(* The steps of the monitor on the table are steps of the history, so what *)
(* it and the requests make of the table is a log of one print at a time.  *)
THEOREM MonitorImplementsHistory == MonitorSpec => HistorySpec
<1>1. MonitorInit => HistoryInit
  BY DEF MonitorInit
<1>2. MonitorInv /\ [MonitorNext]_vars => [HistoryNext]_historyVars
  BY MonitorStep
<1> QED
  BY <1>1, <1>2, MonitorInvariant, PTL DEF MonitorSpec, HistorySpec

(* Under the monitor and its requests the table is a log of one print at a *)
(* time.                                                                   *)
THEOREM MonitorIsLog == MonitorSpec => KeepsLog
BY MonitorImplementsHistory, HistoryIsLog

(* No deletion of selected rows takes the row of the print that is going   *)
(* on, whatever reports and uploads come between its check and its step;   *)
(* but for a row that was selected before it was there.                    *)
THEOREM MonitorKeepsInProgress == MonitorSpec => InProgressIsKept
BY MonitorImplementsHistory, InProgressStays

===============================================================================
