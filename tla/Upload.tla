-------------------------------- MODULE Upload --------------------------------
(***************************************************************************)
(* internal/service/filetransfer.go and PPPPService.Upload of pppp.go: a   *)
(* file on its way from an HTTP request to the printer.                    *)
(*                                                                         *)
(* A request borrows the file transfer service, queues for its goroutine,  *)
(* the one that uploads, and returns the service.  Borrow and Return count *)
(* first and call Start and Stop later (ServiceManager), so a late Stop may*)
(* leave a request at a service that is not wanted.                        *)
(*                                                                         *)
(* The goroutine speaks with the printer in frames, one at a time: it      *)
(* writes a frame, waits until the frame is acknowledged, and waits for the*)
(* printer's reply, which may be late.  The client it has taken may be     *)
(* closed and replaced by the PPPP service at any time; nobody reads or    *)
(* sends for it then.                                                      *)
(*                                                                         *)
(* A live client carries the frames and the replies reliably and in order: *)
(* that is what PpppChannel shows of the channels.                         *)
(***************************************************************************)
EXTENDS Naturals, Sequences

CONSTANTS
  Requests,   \* the requests that borrow the service and call SendFile
  NoRequest,  \* no request is being handled
  QueueCap,   \* capacity of reqCh
  Blocks,     \* the length of a file in blocks of 32 KB
  MaxClients, \* bound: how many PPPP clients are opened
  MaxReplies  \* bound: how many replies are on their way at a time

ASSUME RequestAssumption == NoRequest \notin Requests
ASSUME UploadAssumption  == /\ QueueCap \in Nat \ {0}
                            /\ Blocks \in Nat
                            /\ MaxClients \in Nat
                            /\ MaxReplies \in Nat

maxDataRetries == 2

VARIABLES
  caller,    \* where each request is
  wanted,    \* s.wanted of the file transfer service: Start or Stop came last
  result,    \* req.result: "none", or what handleUpload has returned
  queue,     \* reqCh
  worker,    \* where the worker goroutine is
  up,        \* its locals
  client,    \* s.client: its number and its state
  wire,      \* frames written to the channel and not yet received
  replies,   \* replies of the printer that have not been dispatched
  replyCh,   \* the answer waiting in replyCh
  received,  \* history: the blocks the printer has received since BEGIN
  accepted   \* history: those it has answered with OK

holderVars  == <<caller, wanted>>
requestVars == <<holderVars, result, queue>>
workerVars  == <<worker, up, replyCh>>
printerVars == <<received, accepted>>
netVars     == <<client, wire, replies>>
vars        == <<requestVars, workerVars, printerVars, netVars>>

CallerPoints ==
  { "away",      \* has not come yet
    "borrowed",  \* counted 0 -> 1, has still to call Start
    "offering",  \* in SendFile, before reqCh
    "waiting",   \* in SendFile, for the result
    "gone",      \* the client has gone away: the context is done
    "stopping",  \* counted 1 -> 0, has still to call Stop
    "left" }     \* the request has ended
WorkerPoints == {"off", "idle", "connecting", "writing", "replying"}
Stages       == {"hello", "legacy", "begin", "data", "end"}
Outcomes     == {"ok", "refused", "timeout", "cancelled"}
Frames       == [stage : Stages, pos : 0..Blocks]
File         == 0 .. Blocks - 1
Answers      == {"ok", "refused"}

NoUpload ==
  [ request |-> NoRequest, cli |-> 0, stage |-> "hello", pos |-> 0,
    attempt |-> 0, lastErr |-> "ok", late |-> FALSE ]

TypeOK ==
  /\ caller \in [Requests -> CallerPoints]
  /\ wanted \in BOOLEAN
  /\ result \in [Requests -> {"none", "ok", "error"}]
  /\ queue \in Seq(Requests) /\ Len(queue) <= QueueCap
  /\ worker \in WorkerPoints
  /\ up \in [ request : Requests \union {NoRequest}, cli : 0..MaxClients,
              stage : Stages, pos : 0..Blocks, attempt : 0..maxDataRetries,
              lastErr : Outcomes, late : BOOLEAN ]
  /\ client \in [number : 0..MaxClients, state : {"down", "connecting", "connected"}]
  /\ wire \in Seq(Frames)
  /\ replies \in Seq(Answers)
  /\ replyCh \in {"empty"} \union Answers
  /\ received \subseteq File
  /\ accepted \subseteq received

Init ==
  /\ caller = [r \in Requests |-> "away"]
  /\ wanted = FALSE
  /\ result = [r \in Requests |-> "none"]
  /\ queue = <<>>
  /\ worker = "off"
  /\ up = NoUpload
  /\ client = [number |-> 0, state |-> "down"]
  /\ wire = <<>>
  /\ replies = <<>>
  /\ replyCh = "empty"
  /\ received = {}
  /\ accepted = {}

-------------------------------------------------------------------------------
(* The handlers that upload (SlicerUpload, HistoryReprint) hold the service*)
(* from Borrow to the deferred Return; in between they are in SendFile, and*)
(* may leave it when their client goes away: the context is done then.  A  *)
(* websocket that holds the service for its events is a request that goes  *)
(* away before it has queued.                                              *)

Inside(r)  == caller[r] \in {"offering", "waiting"}
Gone(r)    == caller[r] \in {"gone", "stopping", "left"}
Holders    == {r \in Requests : caller[r] \notin {"away", "stopping", "left"}}
Move(r, p) == caller' = [caller EXCEPT ![r] = p]

Borrow(r) ==
  /\ caller[r] = "away"
  /\ Move(r, IF Holders = {} THEN "borrowed" ELSE "offering")
  /\ UNCHANGED <<wanted, result, queue, workerVars, printerVars, netVars>>

BorrowStarts(r) ==
  /\ caller[r] = "borrowed"
  /\ wanted' = TRUE
  /\ Move(r, "offering")
  /\ UNCHANGED <<result, queue, workerVars, printerVars, netVars>>

(* A mutant: reqCh has no limit.                                           *)
EnqueueUnbounded(r) ==
  /\ caller[r] = "offering"
  /\ queue' = Append(queue, r)
  /\ Move(r, "waiting")
  /\ UNCHANGED <<wanted, result, workerVars, printerVars, netVars>>

Enqueue(r) ==
  /\ caller[r] = "offering"
  /\ Len(queue) < QueueCap
  /\ queue' = Append(queue, r)
  /\ Move(r, "waiting")
  /\ UNCHANGED <<wanted, result, workerVars, printerVars, netVars>>

CallerLeaves(r) ==
  /\ Inside(r)
  /\ Move(r, "gone")
  /\ UNCHANGED <<wanted, result, queue, workerVars, printerVars, netVars>>

(* SendFile has returned, with the result or the error of the context.     *)
ReturnService(r) ==
  /\ caller[r] = "gone" \/ (caller[r] = "waiting" /\ result[r] # "none")
  /\ Move(r, IF Holders = {r} THEN "stopping" ELSE "left")
  /\ UNCHANGED <<wanted, result, queue, workerVars, printerVars, netVars>>

ReturnStops(r) ==
  /\ caller[r] = "stopping"
  /\ wanted' = FALSE
  /\ Move(r, "left")
  /\ UNCHANGED <<result, queue, workerVars, printerVars, netVars>>

RequestStep(r) ==
  \/ Borrow(r)
  \/ BorrowStarts(r)
  \/ Enqueue(r)
  \/ CallerLeaves(r)
  \/ ReturnService(r)
  \/ ReturnStops(r)

(* RestartAll starts a service whether or not somebody holds it.           *)
RestartAll ==
  /\ wanted' = TRUE
  /\ UNCHANGED <<caller, result, queue, workerVars, printerVars, netVars>>

-------------------------------------------------------------------------------
(* FileTransferService.WorkerRun.  Its context is only looked at between   *)
(* two requests.  The service is opened while it is wanted, and closed when*)
(* it is not, or to restart it.                                            *)

WorkerStarts ==
  /\ worker = "off"
  /\ wanted
  /\ worker' = "idle"
  /\ UNCHANGED <<requestVars, up, replyCh, printerVars, netVars>>

(* A mutant: stopping the worker empties reqCh.                            *)
WorkerStopsAndDrains ==
  /\ worker = "idle"
  /\ worker' = "off"
  /\ queue' = <<>>
  /\ UNCHANGED <<holderVars, result, up, replyCh, printerVars, netVars>>

WorkerStops ==
  /\ worker = "idle"
  /\ worker' = "off"
  /\ UNCHANGED <<requestVars, up, replyCh, printerVars, netVars>>

TakeRequest ==
  /\ worker = "idle"
  /\ queue # <<>>
  /\ queue' = Tail(queue)
  /\ worker' = "connecting"
  /\ up' = [NoUpload EXCEPT !.request = Head(queue)]
  /\ UNCHANGED <<holderVars, result, replyCh, printerVars, netVars>>

(* handleUpload returns.                                                   *)
Return(answer) ==
  /\ result' = [result EXCEPT ![up.request] = answer]
  /\ worker' = "idle"
  /\ up' = NoUpload
  /\ UNCHANGED wire

-------------------------------------------------------------------------------
(* PPPPService.Upload. *)

Live(number) == client.number = number /\ client.state = "connected"

(* A frame for the channel of the upload's client.                         *)
Write(frame) ==
  wire' = IF Live(frame.cli)
          THEN Append(wire, [stage |-> frame.stage, pos |-> frame.pos])
          ELSE wire

(* WriteContext(..., true) begins: the upload with its next frame.         *)
Send(next) ==
  /\ up' = next
  /\ Write(next)
  /\ worker' = "writing"
  /\ UNCHANGED result

(* A mutant: the loop ends a block early.                                  *)
SendFromShort(pos, late) ==
  LET next == [up EXCEPT !.pos = pos, !.attempt = 0, !.lastErr = "ok", !.late = late]
  IN  IF pos + 1 < Blocks
      THEN Send([next EXCEPT !.stage = "data"])
      ELSE Send([next EXCEPT !.stage = "end"]) \/ Return("ok")

(* The loop over the blocks, and what follows it: END only if the print is *)
(* to be started.                                                          *)
SendFrom(pos, late) ==
  LET next == [up EXCEPT !.pos = pos, !.attempt = 0, !.lastErr = "ok", !.late = late]
  IN  IF pos < Blocks
      THEN Send([next EXCEPT !.stage = "data"])
      ELSE Send([next EXCEPT !.stage = "end"]) \/ Return("ok")

(* waitConnected: a connected client is found, the reply handlers are      *)
(* registered, and the handshake on channel 0 is written ...               *)
WaitConnected ==
  /\ worker = "connecting"
  /\ client.state = "connected"
  /\ Send([up EXCEPT !.cli = client.number, !.late = wire # <<>> \/ replies # <<>>])
  /\ replyCh' = "empty"
  /\ UNCHANGED <<holderVars, queue, printerVars, client, replies>>

(* ... or 10 s are over, or the context is done.                           *)
ConnectFails ==
  /\ worker = "connecting"
  /\ Return("error")
  /\ UNCHANGED <<holderVars, queue, replyCh, printerVars, client, replies>>

(* Everything written is acknowledged.  The legacy handshake is not        *)
(* answered.                                                               *)
WriteReturns ==
  /\ worker = "writing"
  /\ Live(up.cli)
  /\ wire = <<>>
  /\ IF up.stage = "legacy"
     THEN Send([up EXCEPT !.stage = "begin"])
     ELSE worker' = "replying" /\ UNCHANGED <<up, wire, result>>
  /\ UNCHANGED <<holderVars, queue, replyCh, printerVars, client, replies>>

WriteCancelled ==
  /\ worker = "writing"
  /\ Gone(up.request)
  /\ Return("error")
  /\ UNCHANGED <<holderVars, queue, replyCh, printerVars, client, replies>>

(* The printer answers the JSON handshake, or the legacy one follows.      *)
HelloReply ==
  /\ worker = "replying"
  /\ up.stage = "hello"
  /\ \/ \E stage \in {"legacy", "begin"} : Send([up EXCEPT !.stage = stage])
     \/ Gone(up.request) /\ Return("error")
  /\ UNCHANGED <<holderVars, queue, replyCh, printerVars, client, replies>>

(* waitReply: the select on the context, 15 s, and replyCh.                *)
waitReply(outcome) ==
  /\ worker = "replying"
  /\ outcome = "cancelled" => Gone(up.request)
  /\ IF outcome \in Answers
     THEN replyCh = outcome /\ replyCh' = "empty"
     ELSE UNCHANGED replyCh
  /\ UNCHANGED <<holderVars, queue, printerVars, client, replies>>

(* A wait that was given up leaves a reply about.                          *)
Late(outcome) == up.late \/ outcome \notin Answers

BeginReply(outcome) ==
  /\ up.stage = "begin"
  /\ waitReply(outcome)
  /\ IF outcome = "ok" THEN SendFrom(0, up.late) ELSE Return("error")

(* A mutant: lastErr is not looked at after the last attempt.              *)
DataReplyForgetsError(outcome) ==
  /\ up.stage = "data"
  /\ waitReply(outcome)
  /\ IF outcome = "ok" \/ up.attempt = maxDataRetries
     THEN SendFrom(up.pos + 1, Late(outcome))
     ELSE Send([up EXCEPT !.attempt = @ + 1, !.lastErr = outcome, !.late = Late(outcome)])

DataReply(outcome) ==
  /\ up.stage = "data"
  /\ waitReply(outcome)
  /\ \/ outcome = "ok" /\ SendFrom(up.pos + 1, up.late)
     \/ /\ outcome # "ok" /\ up.attempt < maxDataRetries
        /\ Send([up EXCEPT !.attempt = @ + 1, !.lastErr = outcome,
                           !.late = Late(outcome)])
     \/ outcome # "ok" /\ up.attempt = maxDataRetries /\ Return("error")

(* The reply to END is logged at most.                                     *)
EndReply(outcome) ==
  /\ up.stage = "end"
  /\ waitReply(outcome)
  /\ Return("ok")

UploadStep ==
  \/ WaitConnected
  \/ ConnectFails
  \/ WriteReturns
  \/ WriteCancelled
  \/ HelloReply
  \/ \E outcome \in Outcomes :
       BeginReply(outcome) \/ DataReply(outcome) \/ EndReply(outcome)

-------------------------------------------------------------------------------
(* The PPPP service opens a client, the handshake with the printer ends,   *)
(* and WorkerStop closes the client: what was on its way is lost.          *)

ClientOpens ==
  /\ client.state = "down"
  /\ client.number < MaxClients
  /\ client' = [number |-> client.number + 1, state |-> "connecting"]
  /\ UNCHANGED <<requestVars, workerVars, printerVars, wire, replies>>

ClientConnects ==
  /\ client.state = "connecting"
  /\ client' = [client EXCEPT !.state = "connected"]
  /\ UNCHANGED <<requestVars, workerVars, printerVars, wire, replies>>

ClientCloses ==
  /\ client.state # "down"
  /\ client' = [client EXCEPT !.state = "down"]
  /\ wire' = <<>>
  /\ replies' = <<>>
  /\ UNCHANGED <<requestVars, workerVars, printerVars>>

(* The printer receives a frame and answers it, or not; the handshake has  *)
(* no answer on this channel.                                              *)
Answering(frame) ==
  frame.stage \in {"begin", "data", "end"} /\ Len(replies) < MaxReplies

PrinterReceives ==
  /\ wire # <<>>
  /\ LET frame  == Head(wire)
         before == IF frame.stage = "begin" THEN {} ELSE accepted
         block  == IF frame.stage = "data" THEN {frame.pos} ELSE {}
     IN  /\ wire' = Tail(wire)
         /\ received' = IF frame.stage = "begin" THEN {} ELSE received \union block
         /\ \/ accepted' = before /\ UNCHANGED replies
            \/ /\ Answering(frame)
               /\ accepted' = before \union block
               /\ replies' = Append(replies, "ok")
            \/ /\ Answering(frame)
               /\ accepted' = before
               /\ replies' = Append(replies, "refused")
  /\ UNCHANGED <<requestVars, workerVars, client>>

(* drainXzyh and dispatchAabb: the handler of the upload that is under way *)
(* gets the reply, if replyCh has room.                                    *)
ReplyArrives ==
  /\ replies # <<>>
  /\ replies' = Tail(replies)
  /\ replyCh' = IF worker \in {"writing", "replying"} /\ replyCh = "empty"
                THEN Head(replies) ELSE replyCh
  /\ UNCHANGED <<requestVars, worker, up, printerVars, client, wire>>

Next ==
  \/ \E r \in Requests : RequestStep(r)
  \/ RestartAll
  \/ WorkerStarts
  \/ WorkerStops
  \/ TakeRequest
  \/ UploadStep
  \/ ClientOpens
  \/ ClientConnects
  \/ ClientCloses
  \/ PrinterReceives
  \/ ReplyArrives

(* The goroutines go on, a service that is wanted is opened at last        *)
(* (WantedIsServed of ServiceManager), the waits for a connection and for a*)
(* reply are bounded, and the channel of a live client delivers.  The      *)
(* select of the worker picks its request at last although its context may *)
(* be done too.                                                            *)
(* The printer is not forced to reply, and a caller is not forced to leave.*)
Fairness ==
  /\ \A r \in Requests :
       WF_vars(BorrowStarts(r) \/ ReturnService(r) \/ ReturnStops(r))
  /\ WF_vars(WorkerStarts)
  /\ SF_vars(TakeRequest)
  /\ WF_vars(UploadStep)
  /\ WF_vars(PrinterReceives)

Spec     == Init /\ [][Next]_vars
FairSpec == Spec /\ Fairness
-------------------------------------------------------------------------------
(* The print is never started of half a file: the printer gets END only    *)
(* when it has received every block, however late or stale its replies     *)
(* were, and however often blocks were sent again.                         *)
StartsWholeFile ==
  wire # <<>> /\ Head(wire).stage = "end" => received = File

(* An upload that reports success has had every block accepted, provided   *)
(* that no reply was given up on; one that was can be taken for the answer *)
(* to a later frame.                                                       *)
SuccessMeansAccepted ==
  [][ \A r \in Requests :
        result[r] # "ok" /\ result'[r] = "ok" /\ ~up.late => accepted = File ]_vars

(* The client of the upload was closed while a write waits for it.         *)
Stranded == worker = "writing" /\ ~Live(up.cli)

(* An upload whose caller is gone ends, even on a client that is closed:   *)
(* the one goroutine of the service is free for the next.                  *)
AbortedUploadEnds ==
  \A r \in Requests : (up.request = r /\ Gone(r)) ~> (up.request # r)

(* A caller who stays gets an answer, also when it is queued behind others *)
(* and the service is restarted meanwhile.  There are two ways to wait for *)
(* ever: an upload strands, or the Stop of another request came after the  *)
(* Start of this one (BorrowedIsWanted of ServiceManager is violated) and  *)
(* nobody restarts the service.                                            *)
CallerIsAnswered ==
  \A r \in Requests : <>[](caller[r] = "waiting" /\ ~Stranded) => <>[]~wanted

(* Nobody else waits for ever: neither a caller who stays, nor the uploads *)
(* behind one who has left.                                                *)
UploadsEnd == AbortedUploadEnds /\ CallerIsAnswered

(* pppp.go:444, "Only retry on DRW-level timeouts, not application errors":*)
(* a block is only sent again when the reply to it timed out.              *)
RetryOnlyOnTimeout ==
  [][ up'.attempt > up.attempt => up'.lastErr = "timeout" ]_vars
===============================================================================
