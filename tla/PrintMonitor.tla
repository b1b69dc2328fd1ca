----------------------------- MODULE PrintMonitor -----------------------------
(***************************************************************************)
(* internal/service/mqttqueue.go and mqttqueue_files.go: what the queue    *)
(* makes of the reports of the printer, and the requests that start a      *)
(* print of a file stored in the printer.                                  *)
(*                                                                         *)
(* The handlers run one after the other in the goroutine of WorkerRun.     *)
(* They decide under q.mu that a print is to be recorded and record it     *)
(* after letting q.mu go: "recording" is what is decided and not yet in    *)
(* the table.  HTTP requests come in between: the ones that start a stored *)
(* file, the slicer's upload, which records a row itself, and the          *)
(* deletions of PrintHistory.  The printer may report anything at any      *)
(* time.                                                                   *)
(***************************************************************************)
EXTENDS PrintHistory

CONSTANTS
  NoFile,    \* no file name: the empty string
  Starters   \* requests for the print of a stored file, one each

ASSUME MonitorAssumption == NoFile \notin Files

VARIABLES
  client,          \* q.client # nil: the service is running
  printActive, pendingHistory, lastFilename, currentPrinterStat,
  pendingStoredFilePath,
  recording,       \* file a handler has still to record, or NoFile
  start,           \* starter |-> its request
  asked            \* history: RecordStart calls of handlers for this print

monitorVars == <<client, printActive, pendingHistory, lastFilename,
                 currentPrinterStat, pendingStoredFilePath, recording, start, asked>>
vars == <<monitorVars, historyVars>>

Stats == {"unknown", "idle", "printing", "paused", "aborted", "other"}

(* Where a request is.  "selecting": its first three commands; "marked":   *)
(* the pending path is set; "tapped": it listens to the reports and is     *)
(* about to send the start command; "waiting": for the printer.            *)
StartPoints == {"new", "selecting", "marked", "tapped", "waiting", "started", "failed"}
InFlight    == {"selecting", "marked", "tapped", "waiting"}

Request == [at : StartPoints, file : Files \union {NoFile}, confirmed : BOOLEAN]

MonitorTypeOK ==
  /\ HistoryTypeOK
  /\ client \in BOOLEAN
  /\ printActive \in BOOLEAN
  /\ pendingHistory \in BOOLEAN
  /\ lastFilename \in Files \union {NoFile}
  /\ currentPrinterStat \in Stats
  /\ pendingStoredFilePath \in Files \union {NoFile}
  /\ recording \in Files \union {NoFile}
  /\ start \in [Starters -> Request]
  /\ asked \in 0 .. 1

MonitorInit ==
  /\ HistoryInit
  /\ client = FALSE
  /\ printActive = FALSE
  /\ pendingHistory = FALSE
  /\ lastFilename = NoFile
  /\ currentPrinterStat = "unknown"
  /\ pendingStoredFilePath = NoFile
  /\ recording = NoFile
  /\ start = [r \in Starters |-> [at |-> "new", file |-> NoFile, confirmed |-> FALSE]]
  /\ asked = 0

IsPrinting == printActive \/ currentPrinterStat \in {"printing", "paused"}

-------------------------------------------------------------------------------
(* The service. *)

resetPrintState ==
  /\ printActive' = FALSE
  /\ pendingHistory' = FALSE
  /\ lastFilename' = NoFile
  /\ currentPrinterStat' = "unknown"
  /\ pendingStoredFilePath' = NoFile
  /\ asked' = 0

WorkerStart ==
  /\ ~client
  /\ client' = TRUE
  /\ resetPrintState
  /\ UNCHANGED <<recording, start, historyVars>>

(* The loop is between two messages, in a handler it is not stopped. *)
Listening == client /\ recording = NoFile

WorkerStop ==
  /\ Listening
  /\ client' = FALSE
  /\ resetPrintState
  /\ UNCHANGED <<recording, start, historyVars>>

-------------------------------------------------------------------------------
(* The reports. Before its handler, each is given to the taps: a request   *)
(* that listens takes it for the confirmation of its start, or does not.   *)

Tapping(r) == start[r].at \in {"tapped", "waiting"}

Confirm(R) == start' = [r \in Starters |->
                          IF r \in R /\ Tapping(r)
                          THEN [start[r] EXCEPT !.confirmed = TRUE]
                          ELSE start[r]]

StartersOf(file) == {r \in Starters : start[r].file = file}

(* Mutant: a print that was waiting for its name is recorded a second time *)
(* when the printer reports "printing" again.                              *)
PrintingAsksAgain ==
  /\ Listening
  /\ currentPrinterStat' = "printing"
  /\ Confirm(Starters)
  /\ printActive' = TRUE
  /\ pendingStoredFilePath' = NoFile
  /\ recording' = lastFilename
  /\ pendingHistory' = (lastFilename = NoFile)
  /\ asked' = IF printActive THEN asked ELSE 0
  /\ UNCHANGED <<client, lastFilename, historyVars>>

(* ct=1000, value 1. A print begins unless one is active. *)
EventPrinting ==
  /\ Listening
  /\ currentPrinterStat' = "printing"
  /\ Confirm(Starters)
  /\ IF printActive
     THEN UNCHANGED <<printActive, pendingStoredFilePath, recording, pendingHistory, asked>>
     ELSE /\ printActive' = TRUE
          /\ pendingStoredFilePath' = NoFile
          /\ recording' = lastFilename
          /\ pendingHistory' = IF lastFilename = NoFile THEN TRUE ELSE pendingHistory
          /\ asked' = 0
  /\ UNCHANGED <<client, lastFilename, historyVars>>

(* ct=1000, value 2. *)
EventPaused ==
  /\ Listening
  /\ currentPrinterStat' = "paused"
  /\ Confirm(Starters)
  /\ pendingStoredFilePath' = NoFile
  /\ UNCHANGED <<client, printActive, pendingHistory, lastFilename, recording, asked,
                 historyVars>>

(* ct=1000, value 0 or 8. The name of the file stays. *)
EventEnded(stat) ==
  /\ Listening
  /\ stat \in {"idle", "aborted"}
  /\ currentPrinterStat' = stat
  /\ printActive' = FALSE
  /\ pendingHistory' = FALSE
  /\ asked' = 0
  /\ UNCHANGED <<client, lastFilename, pendingStoredFilePath, recording, start, historyVars>>

(* ct=1000 with another value. *)
EventOther ==
  /\ Listening
  /\ currentPrinterStat' = "other"
  /\ UNCHANGED <<client, printActive, pendingHistory, lastFilename, pendingStoredFilePath,
                 recording, start, asked, historyVars>>

ShouldRecord == printActive /\ pendingHistory

(* ct=1001 with the name of a file. *)
handlePrintSchedule(file) ==
  /\ Listening
  /\ Confirm(StartersOf(file))
  /\ lastFilename' = file
  /\ pendingStoredFilePath' = IF pendingStoredFilePath = file THEN NoFile
                                                              ELSE pendingStoredFilePath
  /\ recording' = IF ShouldRecord THEN file ELSE NoFile
  /\ pendingHistory' = (pendingHistory /\ ~ShouldRecord)
  /\ UNCHANGED <<client, printActive, currentPrinterStat, asked, historyVars>>

(* ct=1044 with the name of a file, the one being prepared for a print or  *)
(* another one.                                                            *)
handleCT1044(file, preprint) ==
  /\ Listening
  /\ Confirm(IF preprint THEN StartersOf(file) ELSE {})
  /\ lastFilename' = file
  /\ recording' = IF ShouldRecord THEN file ELSE NoFile
  /\ pendingHistory' = FALSE
  /\ UNCHANGED <<client, printActive, currentPrinterStat, pendingStoredFilePath, asked,
                 historyVars>>

(* The end of handleCT1000, handlePrintSchedule or handleCT1044. *)
HandlerRecords ==
  /\ recording # NoFile
  /\ lastId < MaxId
  /\ RecordStart(recording, NoTask, "none")
  /\ recording' = NoFile
  /\ asked' = asked + 1
  /\ UNCHANGED <<client, printActive, pendingHistory, lastFilename, currentPrinterStat,
                 pendingStoredFilePath, start, deleterVars>>

-------------------------------------------------------------------------------
(* The requests. *)

(* The end of SlicerUpload, whose file was archived and sent. *)
SlicerRecords(file) ==
  /\ lastId < MaxId
  /\ RecordStart(file, NoTask, "stored")
  /\ UNCHANGED <<monitorVars, deleterVars>>

MoveTo(r, point) == start' = [start EXCEPT ![r].at = point]

ClearPending(file) ==
  pendingStoredFilePath' = IF pendingStoredFilePath = file THEN NoFile
                                                           ELSE pendingStoredFilePath

NotTheLoop == UNCHANGED <<client, printActive, pendingHistory, currentPrinterStat,
                          recording, asked, historyVars>>

(* PrinterFilePrint lets the request in, or answers 409. *)
StartAdmitted(r, file) ==
  /\ start[r].at = "new"
  /\ client
  /\ ~IsPrinting /\ pendingStoredFilePath = NoFile
  /\ start' = [start EXCEPT ![r] = [at |-> "selecting", file |-> file, confirmed |-> FALSE]]
  /\ UNCHANGED <<lastFilename, pendingStoredFilePath>>
  /\ NotTheLoop

StartRefused(r) ==
  /\ start[r].at = "new"
  /\ IsPrinting \/ pendingStoredFilePath # NoFile
  /\ MoveTo(r, "failed")
  /\ UNCHANGED <<lastFilename, pendingStoredFilePath>>
  /\ NotTheLoop

(* One of the first commands fails, or the caller gives up. *)
SelectFails(r) ==
  /\ start[r].at = "selecting"
  /\ MoveTo(r, "failed")
  /\ UNCHANGED <<lastFilename, pendingStoredFilePath>>
  /\ NotTheLoop

(* The printer shows the file it selected, or two seconds pass. *)
SelectEnds(r) ==
  /\ start[r].at = "selecting"
  /\ MoveTo(r, "marked")
  /\ pendingStoredFilePath' = start[r].file
  /\ lastFilename' = start[r].file
  /\ NotTheLoop

TapStart(r) ==
  /\ start[r].at = "marked"
  /\ MoveTo(r, "tapped")
  /\ UNCHANGED <<lastFilename, pendingStoredFilePath>>
  /\ NotTheLoop

(* Something is printing already: the request is content with that. *)
AlreadyPrinting(r) ==
  /\ start[r].at \in {"tapped", "waiting"}
  /\ IsPrinting
  /\ MoveTo(r, "started")
  /\ UNCHANGED <<lastFilename, pendingStoredFilePath>>
  /\ NotTheLoop

SendStart(r) ==
  /\ start[r].at = "tapped"
  /\ ~IsPrinting
  /\ client
  /\ MoveTo(r, "waiting")
  /\ UNCHANGED <<lastFilename, pendingStoredFilePath>>
  /\ NotTheLoop

StartConfirmed(r) ==
  /\ start[r].at = "waiting"
  /\ start[r].confirmed
  /\ MoveTo(r, "started")
  /\ UNCHANGED <<lastFilename, pendingStoredFilePath>>
  /\ NotTheLoop

(* Mutant: the timer forgets the pending path. *)
GiveUpForgets(r) ==
  /\ start[r].at \in {"tapped", "waiting"}
  /\ MoveTo(r, "failed")
  /\ UNCHANGED <<lastFilename, pendingStoredFilePath>>
  /\ NotTheLoop

(* The start command fails, or nothing comes in time, or the caller goes.  *)
GiveUp(r) ==
  /\ start[r].at \in {"tapped", "waiting"}
  /\ MoveTo(r, "failed")
  /\ ClearPending(start[r].file)
  /\ UNCHANGED lastFilename
  /\ NotTheLoop

Report ==
  \/ EventPrinting
  \/ EventPaused
  \/ \E s \in {"idle", "aborted"} : EventEnded(s)
  \/ EventOther
  \/ \E f \in Files : handlePrintSchedule(f)
  \/ \E f \in Files, p \in BOOLEAN : handleCT1044(f, p)

StartStoredFile(r) ==
  \/ \E f \in Files : StartAdmitted(r, f)
  \/ StartRefused(r)
  \/ SelectFails(r)
  \/ SelectEnds(r)
  \/ TapStart(r)
  \/ AlreadyPrinting(r)
  \/ SendStart(r)
  \/ StartConfirmed(r)
  \/ GiveUp(r)

MonitorNext ==
  \/ WorkerStart
  \/ WorkerStop
  \/ Report
  \/ HandlerRecords
  \/ \E f \in Files : SlicerRecords(f)
  \/ \E r \in Starters : StartStoredFile(r)
  \/ DeleteStep /\ UNCHANGED monitorVars
  \/ \E i \in Ids : Age(i) /\ UNCHANGED monitorVars

MonitorSpec == MonitorInit /\ [][MonitorNext]_vars

-------------------------------------------------------------------------------
(* handleCT1000 records a print at once when it knows the name and leaves  *)
(* it to the message with the name otherwise; ends of prints, restarts and *)
(* requests that set the name come in between.  Each print the queue knows *)
(* of is reported to the history once: it has been, is about to be, or     *)
(* waits for the name; and no print is reported that is over.              *)
LoggedOnce ==
  /\ printActive <=> asked + (IF pendingHistory THEN 1 ELSE 0)
                           + (IF recording # NoFile THEN 1 ELSE 0) = 1
  /\ ~printActive => ~pendingHistory /\ recording = NoFile

(* A pending path makes every later request answer 409.  A request that    *)
(* failed leaves none behind, whatever other requests for the same or      *)
(* another file did meanwhile: the path belongs to a request that is under *)
(* way or that reported success.                                           *)
PendingHasOwner ==
  pendingStoredFilePath # NoFile =>
    \E r \in Starters : /\ start[r].file = pendingStoredFilePath
                        /\ start[r].at \in InFlight \union {"started"}

(* What is noted about a print is noted once and has somebody to act on it.*)
PrintIsLogged == LoggedOnce /\ PendingHasOwner

-------------------------------------------------------------------------------
(* What comments and documents say, and the code does not do. *)

(* README.md:31, "Automatic print history (SQLite-backed log of every      *)
(* print with start time, duration, result)": the row of a print that the  *)
(* printer reports as ended is closed.                                     *)
EndedPrintIsClosed ==
  \A i \in 1 .. MaxId :
    (i \in Open /\ client /\ currentPrinterStat = "idle")
      ~> (i \notin Open \/ ~client \/ currentPrinterStat # "idle")

(* handler/slicer.go:107, "back-fill the latest history row for this       *)
(* file": an upload of the file that is being printed adds its archive to  *)
(* the row of the print, and leaves the row open.                          *)
UploadFillsRow ==
  [][\A f \in Files : (SlicerRecords(f) /\ OfFile(f) # {}) => Open \subseteq Open']_vars

(* mqttqueue_files.go:286, "HasPendingStoredFileStart reports whether a    *)
(* stored-file start is still in-flight".                                  *)
PendingIsInFlight ==
  pendingStoredFilePath # NoFile => \E r \in Starters : start[r].at \in InFlight
===============================================================================
