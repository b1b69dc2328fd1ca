----------------------------- MODULE UploadProofs -----------------------------
(***************************************************************************)
(* For every set of requests, every length of a file and every number of   *)
(* clients: the printer is told END only when it has received every block  *)
(* of the file.                                                            *)
(*                                                                         *)
(* A reply may answer an earlier frame, so what the upload believes of the *)
(* last frame proves nothing.  The reason is the acknowledgement each      *)
(* write waits for: a frame is only written when the channel is empty, and *)
(* it is empty on a client that is still the same only because the printer *)
(* has received the frame before.                                          *)
(*                                                                         *)
(* As long as no reply was given up on there is at most one frame without  *)
(* an answer, so every reply is the answer to the last frame: an upload    *)
(* that reports success has had every block accepted.                      *)
(***************************************************************************)
EXTENDS Upload, SequenceTheorems, TLAPS

Uploads ==
  [ request : Requests \union {NoRequest}, cli : 0..MaxClients,
    stage : Stages, pos : 0..Blocks, attempt : 0..maxDataRetries,
    lastErr : Outcomes, late : BOOLEAN ]

(* Only the first frame on the wire can be other than a handshake: the     *)
(* others were written by uploads that began while it was there.           *)
WireInOrder ==
  /\ \A i \in 2 .. Len(wire) : wire[i].stage = "hello"
  /\ \A i \in 1 .. Len(wire) : wire[i].stage = "data" => wire[i].pos < Blocks
  /\ wire # << >> /\ wire[1].stage = "end" => received = File

(* What the printer has received from an upload whose client still lives.  *)
Received ==
  /\ worker = "replying" => wire = << >>
  /\ up.stage # "hello" =>
       wire = << >> \/ wire = <<[stage |-> up.stage, pos |-> up.pos]>>
  /\ up.stage = "data" => /\ 0 .. up.pos - 1 \subseteq received
                          /\ wire = << >> => up.pos \in received
  /\ up.stage = "end" => received = File

(* A client that was closed does not come back: the numbers grow.          *)
ClientKnown ==
  /\ up.cli <= client.number
  /\ up.cli = client.number => client.state # "connecting"
  /\ Live(up.cli) => Received

UploadInv ==
  /\ TypeOK
  /\ WireInOrder
  /\ up.stage = "data" => up.pos < Blocks
  /\ worker = "connecting" => up.stage = "hello"
  /\ worker \in {"writing", "replying"} => ClientKnown

-------------------------------------------------------------------------------
(* The type of an upload, and what follows from the types of the wire.     *)
LEMMA UploadType == TypeOK => up \in Uploads /\ client.number \in Nat
BY UploadAssumption DEF TypeOK, Uploads

(* A frame put on the wire keeps all of UploadInv, if the wire was empty   *)
(* or the frame is the handshake.                                          *)
LEMMA SendKeeps ==
  ASSUME UploadInv, NEW next \in Uploads, Send(next),
         UNCHANGED <<caller, wanted, queue, client, received, accepted, replies>>,
         replyCh' \in {"empty"} \union Answers,
         next.cli <= client.number,
         next.cli = client.number => client.state # "connecting",
         next.stage = "data" => next.pos < Blocks,
         Live(next.cli) => next.stage = "hello" \/ wire = << >>,
         Live(next.cli) /\ next.stage = "data" => 0 .. next.pos - 1 \subseteq received,
         Live(next.cli) /\ next.stage = "end" => received = File
  PROVE  UploadInv'
<1> DEFINE frame == [stage |-> next.stage, pos |-> next.pos]
<1>1. TypeOK /\ WireInOrder
  BY DEF UploadInv
<1>2. up' = next /\ worker' = "writing" /\ result' = result
  BY DEF Send
<1>3. wire' = IF Live(next.cli) THEN Append(wire, frame) ELSE wire
  BY DEF Send, Write
<1>4. frame \in Frames /\ wire \in Seq(Frames)
  BY <1>1 DEF Frames, Uploads, TypeOK
<1>5. wire' \in Seq(Frames)
  BY <1>3, <1>4
<1>6. TypeOK'
  BY <1>1, <1>2, <1>5 DEF TypeOK, Uploads, WorkerPoints
<1>7. WireInOrder'
  <2>1. CASE Live(next.cli)
    <3>1. /\ wire' = Append(wire, frame) /\ Len(wire') = Len(wire) + 1
          /\ Len(wire) \in Nat
          /\ \A i \in 1 .. Len(wire) : wire'[i] = wire[i]
          /\ wire'[Len(wire) + 1] = frame
      BY <1>3, <1>4, <2>1
    <3>2. CASE wire = << >>
      <4>1. Len(wire') = 1 /\ wire'[1] = frame
        BY <3>1, <3>2
      <4>2. frame.stage = next.stage /\ frame.pos = next.pos
        OBVIOUS
      <4> QED
        BY <2>1, <4>1, <4>2 DEF WireInOrder, File
    <3>3. CASE wire # << >>
      <4>1. Len(wire) >= 1
        BY <1>4, <3>1, <3>3
      <4>2. frame.stage = "hello"
        BY <2>1, <3>3
      <4>3. \A i \in 1 .. Len(wire') : i = Len(wire) + 1 \/ i \in 1 .. Len(wire)
        BY <3>1
      <4>4. \A i \in 2 .. Len(wire') : wire'[i].stage = "hello"
        <5> TAKE i \in 2 .. Len(wire')
        <5>1. i = Len(wire) + 1 \/ i \in 2 .. Len(wire)
          BY <3>1
        <5> QED
          BY <1>1, <3>1, <4>2, <5>1 DEF WireInOrder
      <4>5. \A i \in 1 .. Len(wire') : wire'[i].stage = "data" => wire'[i].pos < Blocks
        BY <1>1, <3>1, <4>2, <4>3 DEF WireInOrder
      <4>6. wire'[1] = wire[1]
        BY <3>1, <4>1
      <4> QED
        BY <1>1, <3>3, <4>4, <4>5, <4>6 DEF WireInOrder, File
    <3> QED
      BY <3>2, <3>3
  <2>2. CASE ~Live(next.cli)
    BY <1>1, <1>3, <2>2 DEF WireInOrder, File
  <2> QED
    BY <2>1, <2>2
<1>8. ClientKnown'
  <2>1. ASSUME Live(next.cli), next.stage # "hello" PROVE wire' = <<frame>>
    <3>1. wire = << >> /\ wire' = Append(wire, frame)
      BY <1>3, <2>1
    <3> HIDE DEF frame
    <3> QED
      BY <3>1
  <2>2. ASSUME Live(next.cli), next.stage # "hello" PROVE wire' # << >>
    <3> HIDE DEF frame
    <3> QED
      BY <2>1, <2>2
  <2>3. Received' \/ ~Live(next.cli)
    BY <1>2, <2>1, <2>2 DEF Received, File
  <2> QED
    BY <1>2, <2>3 DEF ClientKnown, Live
<1> QED
  BY <1>2, <1>6, <1>7, <1>8 DEF UploadInv

LEMMA ReturnKeeps ==
  ASSUME UploadInv, NEW answer \in {"ok", "error"}, Return(answer),
         UNCHANGED <<caller, wanted, queue, client, received, accepted, replies>>,
         replyCh' \in {"empty"} \union Answers
  PROVE  UploadInv'
<1>1. NoUpload \in Uploads /\ NoUpload.stage = "hello"
  BY UploadAssumption DEF NoUpload, Uploads, Stages, Outcomes, maxDataRetries
<1>2. TypeOK'
  <2>1. result' \in [Requests -> {"none", "ok", "error"}]
    BY DEF Return, UploadInv, TypeOK
  <2> QED
    BY <1>1, <2>1 DEF Return, UploadInv, TypeOK, Uploads, WorkerPoints
<1> QED
  BY <1>1, <1>2 DEF Return, UploadInv, WireInOrder, File

(* The upload as it comes to a block.                                      *)
LEMMA UploadAt ==
  ASSUME up \in Uploads, NEW pos \in 0 .. Blocks, NEW late \in BOOLEAN
  PROVE  LET next == [up EXCEPT !.pos = pos, !.attempt = 0, !.lastErr = "ok", !.late = late]
         IN  next \in Uploads /\ next.cli = up.cli /\ next.pos = pos /\ next.late = late
<1> DEFINE first == [up EXCEPT !.pos = pos, !.attempt = 0]
           next  == [up EXCEPT !.pos = pos, !.attempt = 0, !.lastErr = "ok", !.late = late]
<1>1. first \in Uploads /\ first.cli = up.cli /\ first.pos = pos
  <2>1. 0 \in 0 .. maxDataRetries
    BY DEF maxDataRetries
  <2> QED
    BY <2>1 DEF Uploads
<1>2. next = [first EXCEPT !.lastErr = "ok", !.late = late]
  OBVIOUS
<1>3. "ok" \in Outcomes
  BY DEF Outcomes
<1>4. next \in Uploads /\ next.cli = up.cli /\ next.pos = pos /\ next.late = late
  <2> HIDE DEF first, next
  <2> QED
    BY <1>1, <1>2, <1>3 DEF Uploads
<1> QED
  BY <1>4

(* The loop over the blocks goes on from a block that was received.        *)
LEMMA SendFromKeeps ==
  ASSUME UploadInv, worker = "replying", NEW pos \in 0 .. Blocks, NEW late \in BOOLEAN,
         SendFrom(pos, late),
         UNCHANGED <<caller, wanted, queue, client, received, accepted, replies>>,
         replyCh' \in {"empty"} \union Answers,
         Live(up.cli) => 0 .. pos - 1 \subseteq received
  PROVE  UploadInv'
<1> DEFINE next == [up EXCEPT !.pos = pos, !.attempt = 0, !.lastErr = "ok", !.late = late]
           data == [next EXCEPT !.stage = "data"]
           end  == [next EXCEPT !.stage = "end"]
<1>1. TypeOK /\ ClientKnown /\ up \in Uploads
  BY UploadType DEF UploadInv
<1>2. /\ data \in Uploads /\ data.cli = up.cli /\ data.stage = "data" /\ data.pos = pos
      /\ end \in Uploads /\ end.cli = up.cli /\ end.stage = "end"
  <2>1. next \in Uploads /\ next.cli = up.cli /\ next.pos = pos
    BY <1>1, UploadAt
  <2> HIDE DEF next
  <2>2. data \in Uploads /\ data.cli = next.cli /\ data.stage = "data" /\ data.pos = next.pos
    BY <2>1 DEF Uploads, Stages
  <2>3. end \in Uploads /\ end.cli = next.cli /\ end.stage = "end"
    BY <2>1 DEF Uploads, Stages
  <2> QED
    BY <2>1, <2>2, <2>3
<1>3. Live(up.cli) => wire = << >>
  BY <1>1 DEF ClientKnown, Received
<1>4. CASE pos < Blocks
  <2>1. Send(data)
    BY <1>4 DEF SendFrom
  <2> HIDE DEF data
  <2> QED
    BY <1>1, <1>2, <1>3, <1>4, <2>1, SendKeeps DEF ClientKnown
<1>5. CASE ~(pos < Blocks)
  <2>1. Send(end) \/ Return("ok")
    BY <1>5 DEF SendFrom
  <2>2. Live(up.cli) => received = File
    <3>1. pos = Blocks /\ received \subseteq File
      BY <1>1, <1>5, UploadAssumption DEF TypeOK
    <3> QED
      BY <3>1 DEF File
  <2>3. CASE Send(end)
    <3> HIDE DEF end
    <3> QED
      BY <1>1, <1>2, <1>3, <2>2, <2>3, SendKeeps DEF ClientKnown
  <2> QED
    BY <2>1, <2>3, ReturnKeeps
<1> QED
  BY <1>4, <1>5

-------------------------------------------------------------------------------
(* The requests, and the worker between two of them.                       *)
LEMMA RequestKeeps ==
  ASSUME UploadInv, RestartAll \/ \E r \in Requests : RequestStep(r)
  PROVE  UploadInv'
<1> USE DEF workerVars, printerVars, netVars
<1>1. TypeOK
  BY DEF UploadInv
<1>2. ASSUME NEW r \in Requests, NEW p \in CallerPoints, Move(r, p)
      PROVE  caller' \in [Requests -> CallerPoints]
  BY <1>1, <1>2 DEF Move, TypeOK
<1>3. ASSUME NEW r \in Requests, Enqueue(r)
      PROVE  UploadInv'
  <2>1. Append(queue, r) \in Seq(Requests) /\ Len(Append(queue, r)) = Len(queue) + 1
    BY <1>1 DEF TypeOK
  <2>2. Len(queue) \in Nat /\ QueueCap \in Nat
    BY <1>1, UploadAssumption DEF TypeOK
  <2>3. queue' \in Seq(Requests) /\ Len(queue') <= QueueCap
    BY <1>3, <2>1, <2>2 DEF Enqueue
  <2>4. caller' \in [Requests -> CallerPoints]
    BY <1>2, <1>3 DEF Enqueue, CallerPoints
  <2>5. TypeOK'
    BY <1>1, <1>3, <2>3, <2>4 DEF Enqueue, TypeOK
  <2> QED
    BY <1>3, <2>5 DEF Enqueue, UploadInv, WireInOrder, ClientKnown, Received, Live, File
<1>4. CASE \/ RestartAll
           \/ \E r \in Requests : \/ Borrow(r) \/ BorrowStarts(r) \/ CallerLeaves(r)
                                  \/ ReturnService(r) \/ ReturnStops(r)
  <2>1. UNCHANGED <<result, queue, workerVars, printerVars, netVars>>
    BY <1>4 DEF RestartAll, Borrow, BorrowStarts, CallerLeaves, ReturnService, ReturnStops
  <2>2. caller' \in [Requests -> CallerPoints]
    <3>1. CASE RestartAll
      BY <1>1, <3>1 DEF RestartAll, TypeOK
    <3>2. ASSUME NEW r \in Requests,
                 \/ Borrow(r) \/ BorrowStarts(r) \/ CallerLeaves(r)
                 \/ ReturnService(r) \/ ReturnStops(r)
          PROVE  \E p \in CallerPoints : Move(r, p)
      BY <3>2 DEF Borrow, BorrowStarts, CallerLeaves, ReturnService, ReturnStops, CallerPoints
    <3> QED
      BY <1>2, <1>4, <3>1, <3>2
  <2>3. wanted' \in BOOLEAN
    BY <1>1, <1>4
    DEF RestartAll, Borrow, BorrowStarts, CallerLeaves, ReturnService, ReturnStops, TypeOK
  <2>4. TypeOK'
    BY <1>1, <2>1, <2>2, <2>3 DEF TypeOK
  <2> QED
    BY <2>1, <2>4 DEF UploadInv, WireInOrder, ClientKnown, Received, Live, File
<1> QED
  BY <1>3, <1>4 DEF RequestStep

LEMMA WorkerStep ==
  ASSUME UploadInv, WorkerStarts \/ WorkerStops \/ TakeRequest
  PROVE  UploadInv'
<1> USE DEF requestVars, holderVars, printerVars, netVars
<1>1. TypeOK /\ WireInOrder
  BY DEF UploadInv
<1>2. CASE WorkerStarts \/ WorkerStops
  <2>1. TypeOK'
    BY <1>1, <1>2 DEF WorkerStarts, WorkerStops, TypeOK, WorkerPoints
  <2> QED
    BY <1>2, <2>1 DEF WorkerStarts, WorkerStops, UploadInv, WireInOrder, File
<1>3. CASE TakeRequest
  <2>1. Head(queue) \in Requests /\ Tail(queue) \in Seq(Requests)
        /\ Len(Tail(queue)) = Len(queue) - 1 /\ Len(queue) \in Nat
    BY <1>1, <1>3 DEF TakeRequest, TypeOK
  <2>2. queue' \in Seq(Requests) /\ Len(queue') <= QueueCap
    <3>1. QueueCap \in Nat /\ Len(queue) <= QueueCap
      BY <1>1, UploadAssumption DEF TypeOK
    <3> QED
      BY <1>3, <2>1, <3>1 DEF TakeRequest
  <2>3. up' \in Uploads /\ up'.stage = "hello"
    <3>1. NoUpload \in Uploads /\ NoUpload.stage = "hello"
      BY UploadAssumption DEF NoUpload, Uploads, Stages, Outcomes, maxDataRetries
    <3>2. up' = [NoUpload EXCEPT !.request = Head(queue)]
      BY <1>3 DEF TakeRequest
    <3> QED
      BY <2>1, <3>1, <3>2 DEF Uploads
  <2>4. TypeOK'
    BY <1>1, <1>3, <2>2, <2>3 DEF TakeRequest, TypeOK, Uploads, WorkerPoints
  <2> QED
    BY <1>1, <1>3, <2>3, <2>4 DEF TakeRequest, UploadInv, WireInOrder, File
<1> QED
  BY <1>2, <1>3

(* PPPPService.Upload: one step of the conversation with the printer.      *)
LEMMA UploadStepKeeps ==
  ASSUME UploadInv, UploadStep
  PROVE  UploadInv'
<1>1. TypeOK /\ up \in Uploads /\ client.number \in Nat /\ WireInOrder
  BY UploadType DEF UploadInv
<1>2. replyCh \in {"empty"} \union Answers
  BY <1>1 DEF TypeOK
<1>3. CASE WaitConnected
  <2> DEFINE next == [up EXCEPT !.cli = client.number,
                                !.late = wire # <<>> \/ replies # <<>>]
  <2>1. Send(next) /\ client.number \in 0 .. MaxClients /\ client.state # "connecting"
    BY <1>1, <1>3 DEF WaitConnected, TypeOK
  <2>2. next \in Uploads /\ next.cli = client.number /\ next.stage = "hello"
    <3>1. (wire # <<>> \/ replies # <<>>) \in BOOLEAN
      OBVIOUS
    <3>2. up.stage = "hello"
      BY <1>3 DEF WaitConnected, UploadInv
    <3> QED
      BY <1>1, <2>1, <3>1, <3>2 DEF Uploads
  <2>3. /\ UNCHANGED <<caller, wanted, queue, client, received, accepted, replies>>
        /\ replyCh' \in {"empty"} \union Answers
    BY <1>3 DEF WaitConnected, printerVars, holderVars
  <2> HIDE DEF next
  <2> QED
    BY <1>1, <2>1, <2>2, <2>3, SendKeeps
<1>4. CASE ConnectFails \/ WriteCancelled
  BY <1>2, <1>4, ReturnKeeps DEF ConnectFails, WriteCancelled, printerVars, holderVars
<1>5. CASE WriteReturns
  <2>1. /\ UNCHANGED <<caller, wanted, queue, client, received, accepted, replies, replyCh>>
        /\ worker = "writing" /\ wire = << >> /\ Live(up.cli)
    BY <1>5 DEF WriteReturns, printerVars, holderVars
  <2>2. ClientKnown
    BY <2>1 DEF UploadInv
  <2>3. CASE up.stage = "legacy"
    <3> DEFINE next == [up EXCEPT !.stage = "begin"]
    <3>1. Send(next)
      BY <1>5, <2>3 DEF WriteReturns
    <3>2. next \in Uploads /\ next.cli = up.cli /\ next.stage = "begin"
      BY <1>1 DEF Uploads, Stages
    <3> HIDE DEF next
    <3> QED
      BY <1>2, <2>1, <2>2, <3>1, <3>2, SendKeeps DEF ClientKnown
  <2>4. CASE up.stage # "legacy"
    <3>1. worker' = "replying" /\ UNCHANGED <<up, wire, result>>
      BY <1>5, <2>4 DEF WriteReturns
    <3>2. TypeOK'
      BY <1>1, <2>1, <3>1 DEF TypeOK, WorkerPoints
    <3> QED
      BY <2>1, <2>2, <3>1, <3>2
      DEF UploadInv, WireInOrder, ClientKnown, Received, Live, File
  <2> QED
    BY <2>3, <2>4
(* While it waits for a reply, the wire of its client is empty.            *)
<1>6. ASSUME worker = "replying"
      PROVE  ClientKnown /\ (Live(up.cli) => wire = << >> /\ Received)
  BY <1>6 DEF UploadInv, ClientKnown, Received
<1>7. CASE HelloReply
  <2>1. /\ UNCHANGED <<caller, wanted, queue, client, received, accepted, replies, replyCh>>
        /\ worker = "replying"
    BY <1>7 DEF HelloReply, printerVars, holderVars
  <2>2. ASSUME NEW stage \in {"legacy", "begin"}, Send([up EXCEPT !.stage = stage])
        PROVE  UploadInv'
    <3> DEFINE next == [up EXCEPT !.stage = stage]
    <3>1. next \in Uploads /\ next.cli = up.cli /\ next.stage = stage
      BY <1>1 DEF Uploads, Stages
    <3>2. Send(next)
      BY <2>2
    <3> HIDE DEF next
    <3> QED
      BY <1>2, <1>6, <2>1, <3>1, <3>2, SendKeeps DEF ClientKnown
  <2> QED
    BY <1>2, <1>7, <2>1, <2>2, ReturnKeeps DEF HelloReply
<1>8. ASSUME NEW outcome \in Outcomes, waitReply(outcome)
      PROVE  /\ worker = "replying"
             /\ UNCHANGED <<caller, wanted, queue, client, received, accepted, replies>>
             /\ replyCh' \in {"empty"} \union Answers
  BY <1>2, <1>8 DEF waitReply, printerVars, holderVars
<1>9. ASSUME NEW outcome \in Outcomes, BeginReply(outcome)
      PROVE  UploadInv'
  <2>1. waitReply(outcome) /\ (SendFrom(0, up.late) \/ Return("error"))
    BY <1>9 DEF BeginReply
  <2>2. 0 \in 0 .. Blocks /\ up.late \in BOOLEAN /\ 0 .. 0 - 1 \subseteq received
    BY <1>1, UploadAssumption DEF Uploads
  <2> QED
    BY <1>8, <2>1, <2>2, SendFromKeeps, ReturnKeeps
<1>10. ASSUME NEW outcome \in Outcomes, DataReply(outcome)
       PROVE  UploadInv'
  <2>1. waitReply(outcome) /\ up.stage = "data"
    BY <1>10 DEF DataReply
  <2>2. up.pos < Blocks /\ up.pos \in 0 .. Blocks /\ up.late \in BOOLEAN
    BY <1>1, <2>1 DEF UploadInv, Uploads
  <2>3. Live(up.cli) => 0 .. up.pos - 1 \subseteq received /\ up.pos \in received
    BY <1>6, <1>8, <2>1 DEF Received
  <2>4. CASE SendFrom(up.pos + 1, up.late)
    <3>1. up.pos + 1 \in 0 .. Blocks
      BY <2>2, UploadAssumption
    <3>2. Live(up.cli) => 0 .. (up.pos + 1) - 1 \subseteq received
      BY <2>2, <2>3
    <3> QED
      BY <1>8, <2>1, <2>2, <2>4, <3>1, <3>2, SendFromKeeps
  <2>5. CASE /\ up.attempt < maxDataRetries
             /\ Send([up EXCEPT !.attempt = @ + 1, !.lastErr = outcome,
                                !.late = Late(outcome)])
    <3> DEFINE next == [up EXCEPT !.attempt = @ + 1, !.lastErr = outcome,
                                  !.late = Late(outcome)]
    <3>1. up.attempt + 1 \in 0 .. maxDataRetries /\ Late(outcome) \in BOOLEAN
      BY <1>1, <2>5 DEF Uploads, maxDataRetries, Late
    <3>2. /\ next \in Uploads /\ next.cli = up.cli
          /\ next.stage = "data" /\ next.pos = up.pos
      BY <1>1, <2>1, <3>1 DEF Uploads
    <3>3. Send(next)
      BY <2>5
    <3> HIDE DEF next
    <3> QED
      BY <1>6, <1>8, <2>1, <2>2, <2>3, <3>2, <3>3, SendKeeps DEF ClientKnown
  <2>6. CASE Return("error")
    BY <1>8, <2>1, <2>6, ReturnKeeps
  <2> QED
    BY <1>10, <2>4, <2>5, <2>6 DEF DataReply
<1>11. ASSUME NEW outcome \in Outcomes, EndReply(outcome)
       PROVE  UploadInv'
  BY <1>8, <1>11, ReturnKeeps DEF EndReply
<1> QED
  BY <1>3, <1>4, <1>5, <1>7, <1>9, <1>10, <1>11 DEF UploadStep

(* The life of the clients: a frame for a client that is gone is gone.     *)
LEMMA ClientStep ==
  ASSUME UploadInv, ClientOpens \/ ClientConnects \/ ClientCloses
  PROVE  UploadInv'
<1> USE DEF requestVars, holderVars, workerVars, printerVars
<1>1. TypeOK /\ up \in Uploads /\ client.number \in Nat /\ up.cli \in Nat /\ WireInOrder
  BY UploadType, UploadAssumption DEF UploadInv, Uploads
<1>2. CASE ClientOpens
  <2>1. client'.number = client.number + 1 /\ client'.state = "connecting"
    BY <1>2 DEF ClientOpens
  <2>2. client' \in [number : 0..MaxClients, state : {"down", "connecting", "connected"}]
    BY <1>1, <1>2, UploadAssumption DEF ClientOpens, TypeOK
  <2>3. TypeOK'
    BY <1>1, <1>2, <2>2 DEF ClientOpens, TypeOK
  <2>4. ClientKnown => ClientKnown'
    BY <1>1, <1>2, <2>1 DEF ClientOpens, ClientKnown, Live
  <2> QED
    BY <1>2, <2>3, <2>4 DEF ClientOpens, UploadInv, WireInOrder, File
<1>3. CASE ClientConnects
  <2>1. /\ client'.number = client.number /\ client'.state = "connected"
        /\ client' \in [number : 0..MaxClients, state : {"down", "connecting", "connected"}]
    BY <1>1, <1>3 DEF ClientConnects, TypeOK
  <2>2. TypeOK'
    BY <1>1, <1>3, <2>1 DEF ClientConnects, TypeOK
  <2>3. ClientKnown => ClientKnown'
    BY <1>1, <1>3, <2>1 DEF ClientConnects, ClientKnown, Live
  <2> QED
    BY <1>3, <2>2, <2>3 DEF ClientConnects, UploadInv, WireInOrder, File
<1>4. CASE ClientCloses
  <2>1. /\ client'.number = client.number /\ client'.state = "down"
        /\ client' \in [number : 0..MaxClients, state : {"down", "connecting", "connected"}]
    BY <1>1, <1>4 DEF ClientCloses, TypeOK
  <2>2. wire' = << >> /\ wire' \in Seq(Frames) /\ replies' \in Seq(Answers) /\ Len(wire') = 0
    BY <1>4 DEF ClientCloses
  <2>3. TypeOK'
    BY <1>1, <1>4, <2>1, <2>2 DEF ClientCloses, TypeOK
  <2>4. ClientKnown => ClientKnown'
    BY <1>1, <1>4, <2>1 DEF ClientCloses, ClientKnown, Live
  <2>5. WireInOrder'
    BY <2>2 DEF WireInOrder
  <2> QED
    BY <1>4, <2>3, <2>4, <2>5 DEF ClientCloses, UploadInv
<1> QED
  BY <1>2, <1>3, <1>4

(* The printer takes the first frame: what is left are handshakes.         *)
LEMMA PrinterStep ==
  ASSUME UploadInv, PrinterReceives
  PROVE  UploadInv'
<1> DEFINE frame == wire[1]
           block == IF frame.stage = "data" THEN {frame.pos} ELSE {}
<1> USE DEF requestVars, holderVars, workerVars
<1>1. TypeOK /\ up \in Uploads /\ WireInOrder
  BY UploadType DEF UploadInv
<1>2. /\ wire # << >> /\ frame \in Frames /\ frame = Head(wire)
      /\ wire' = Tail(wire) /\ wire' \in Seq(Frames)
      /\ Len(wire) \in Nat /\ Len(wire') = Len(wire) - 1 /\ Len(wire) >= 1
      /\ \A i \in 1 .. Len(wire') : wire'[i] = wire[i + 1]
  BY <1>1 DEF PrinterReceives, TypeOK
<1>3. received' = IF frame.stage = "begin" THEN {} ELSE received \union block
  BY <1>2 DEF PrinterReceives
<1>4. block \subseteq File
  <2>1. frame.stage = "data" => frame.pos \in 0 .. Blocks /\ frame.pos < Blocks
    BY <1>1, <1>2 DEF WireInOrder, Frames
  <2> QED
    BY <2>1, UploadAssumption DEF File
<1>5. /\ received' \subseteq File
      /\ accepted' \subseteq received'
      /\ replies' \in Seq(Answers)
      /\ UNCHANGED <<caller, wanted, result, queue, worker, up, replyCh, client>>
  <2>1. accepted \subseteq received /\ received \subseteq File
    BY <1>1 DEF TypeOK
  <2>2. replies \in Seq(Answers) /\ "ok" \in Answers /\ "refused" \in Answers
    BY <1>1 DEF TypeOK, Answers
  <2>3. Append(replies, "ok") \in Seq(Answers) /\ Append(replies, "refused") \in Seq(Answers)
    BY <2>2
  <2>4. replies' \in Seq(Answers)
    BY <2>2, <2>3 DEF PrinterReceives
  <2>5. accepted' \subseteq (IF frame.stage = "begin" THEN {} ELSE accepted) \union block
    BY <1>2 DEF PrinterReceives
  <2>6. frame.stage = "begin" => block = {}
    OBVIOUS
  <2>7. accepted' \subseteq received'
    BY <1>3, <2>1, <2>5, <2>6
  <2> QED
    BY <1>3, <1>4, <2>1, <2>4, <2>7 DEF PrinterReceives
<1>6. TypeOK'
  BY <1>1, <1>2, <1>5 DEF TypeOK
<1>7. \A i \in 1 .. Len(wire') : wire'[i].stage = "hello"
  BY <1>1, <1>2 DEF WireInOrder
<1>8. WireInOrder'
  <2>1. wire' # << >> => 1 \in 1 .. Len(wire')
    BY <1>2
  <2>2. wire' # << >> => wire'[1].stage = "hello"
    BY <1>7, <2>1
  <2>3. 2 .. Len(wire') \subseteq 1 .. Len(wire')
    BY <1>2
  <2> QED
    BY <1>7, <2>2, <2>3 DEF WireInOrder
<1>9. ASSUME ClientKnown PROVE ClientKnown'
  <2>1. ASSUME Received, up.stage = "hello" PROVE Received'
    <3>1. worker # "replying"
      BY <1>2, <2>1 DEF Received
    <3> QED
      BY <1>5, <2>1, <3>1 DEF Received
  <2>2. ASSUME Received, up.stage # "hello" PROVE Received'
    <3>1. wire = <<[stage |-> up.stage, pos |-> up.pos]>>
      BY <1>2, <2>2 DEF Received
    <3>2. frame.stage = up.stage /\ frame.pos = up.pos /\ Len(wire) = 1
      BY <3>1
    <3>3. wire' = << >>
      BY <1>2, <3>2
    <3>4. worker # "replying"
      BY <1>2, <2>2 DEF Received
    <3>5. up.stage = "data" => received' = received \union {up.pos}
      BY <1>3, <3>2
    <3>6. up.stage = "end" => received' = received
      BY <1>3, <3>2
    <3> QED
      BY <1>5, <2>2, <3>3, <3>4, <3>5, <3>6 DEF Received, File
  <2> QED
    BY <1>5, <1>9, <2>1, <2>2 DEF ClientKnown, Live
<1> QED
  BY <1>5, <1>6, <1>8, <1>9 DEF UploadInv

LEMMA ReplyStep ==
  ASSUME UploadInv, ReplyArrives
  PROVE  UploadInv'
<1> USE DEF requestVars, holderVars, printerVars
<1>1. TypeOK
  BY DEF UploadInv
<1>2. Head(replies) \in Answers /\ Tail(replies) \in Seq(Answers)
  BY <1>1 DEF ReplyArrives, TypeOK
<1>3. TypeOK'
  BY <1>1, <1>2 DEF ReplyArrives, TypeOK
<1> QED
  BY <1>3 DEF ReplyArrives, UploadInv, WireInOrder, ClientKnown, Received, Live, File

-------------------------------------------------------------------------------
(* The inductive invariant of an upload, for any requests, any length of a *)
(* file and any number of clients.                                         *)
THEOREM UploadInvariant == Spec => []UploadInv
<1>1. ASSUME Init PROVE UploadInv
  <2>1. NoUpload \in Uploads /\ NoUpload.stage = "hello"
    BY UploadAssumption DEF NoUpload, Uploads, Stages, Outcomes, maxDataRetries
  <2>2. /\ queue \in Seq(Requests) /\ Len(queue) <= QueueCap
        /\ wire \in Seq(Frames) /\ replies \in Seq(Answers) /\ Len(wire) = 0
    BY <1>1, UploadAssumption DEF Init
  <2>3. client \in [number : 0..MaxClients, state : {"down", "connecting", "connected"}]
    BY <1>1, UploadAssumption DEF Init
  <2>4. TypeOK
    BY <1>1, <2>1, <2>2, <2>3 DEF Init, TypeOK, Uploads, CallerPoints, WorkerPoints
  <2> QED
    BY <1>1, <2>1, <2>2, <2>4 DEF Init, UploadInv, WireInOrder
<1>2. ASSUME UploadInv, [Next]_vars PROVE UploadInv'
  <2>1. CASE UNCHANGED vars
    BY <1>2, <2>1
    DEF vars, requestVars, holderVars, workerVars, printerVars, netVars,
        UploadInv, TypeOK, WireInOrder, ClientKnown, Received, Live, File
  <2> QED
    BY <1>2, <2>1, RequestKeeps, WorkerStep, UploadStepKeeps, ClientStep, PrinterStep,
       ReplyStep DEF Next
<1> QED
  BY <1>1, <1>2, PTL DEF Spec

(* Type correctness of the upload and its queue.                           *)
THEOREM UploadTypeCorrect == Spec => []TypeOK
BY UploadInvariant, PTL DEF UploadInv

(* The print is never started of half a file, whatever was lost, late or   *)
(* sent again.                                                             *)
THEOREM WholeFileIsStarted == Spec => []StartsWholeFile
<1>1. UploadInv => StartsWholeFile
  BY DEF UploadInv, TypeOK, WireInOrder, StartsWholeFile
<1> QED
  BY <1>1, UploadInvariant, PTL

-------------------------------------------------------------------------------
(* An upload that has not given up on a reply: it is under way with at     *)
(* most one frame unanswered, and what the printer has not answered yet,   *)
(* or the program not read yet, belongs to that frame.                     *)
Outstanding == [stage |-> up.stage, pos |-> up.pos]

Quiet == wire = << >> /\ replies = << >> /\ replyCh = "empty"

Accepting ==
  /\ up.stage = "data" => 0 .. up.pos - 1 \subseteq accepted
  /\ up.stage = "end" => accepted = File

Pending(reply) ==
  \/ replies = <<reply>> /\ replyCh = "empty"
  \/ replies = << >> /\ replyCh = reply

ReplyIsFresh ==
  \/ Quiet
  \/ wire = <<Outstanding>> /\ replies = << >> /\ replyCh = "empty"
  \/ /\ wire = << >> /\ up.stage \notin {"hello", "legacy"}
     /\ \E reply \in Answers :
          /\ Pending(reply)
          /\ up.stage = "data" /\ reply = "ok" => up.pos \in accepted

(* The client is the one the upload began with, or that one is closed and  *)
(* nothing is on its way.                                                  *)
OneFrame ==
  /\ Accepting /\ ReplyIsFresh
  /\ ~Live(up.cli) \/ worker = "replying" => wire = << >>
  /\ up.cli <= client.number
  /\ up.cli = client.number => client.state # "connecting"

PunctualInv == worker \in {"writing", "replying"} /\ ~up.late => OneFrame

(* A frame sent when nothing is outstanding. *)
LEMMA SendIsPunctual ==
  ASSUME NEW next \in Uploads, Send(next), UNCHANGED <<client, accepted, replies>>,
         ~next.late => /\ wire = << >> /\ replies = << >> /\ replyCh' = "empty"
                       /\ next.cli <= client.number
                       /\ next.cli = client.number => client.state # "connecting"
                       /\ next.stage = "data" => 0 .. next.pos - 1 \subseteq accepted
                       /\ next.stage = "end" => accepted = File
  PROVE  PunctualInv'
<1> SUFFICES ASSUME ~next.late PROVE OneFrame'
  BY DEF PunctualInv, Send
<1> DEFINE frame == [stage |-> next.stage, pos |-> next.pos]
<1>1. up' = next /\ worker' = "writing"
  BY DEF Send
<1>2. wire' = IF Live(next.cli) THEN <<frame>> ELSE << >>
  <2>1. wire = << >> /\ Append(<< >>, frame) = <<frame>>
    OBVIOUS
  <2>2. wire' = IF Live(next.cli) THEN Append(wire, frame) ELSE wire
    BY DEF Send, Write
  <2> HIDE DEF frame
  <2> QED
    BY <2>1, <2>2
<1>3. Outstanding' = frame
  BY <1>1 DEF Outstanding
<1>4. ReplyIsFresh'
  BY <1>2, <1>3 DEF ReplyIsFresh, Quiet
<1>5. Accepting'
  BY <1>1 DEF Accepting, File
<1>6. ~Live(up.cli)' => wire' = << >>
  BY <1>1, <1>2 DEF Live
<1> QED
  BY <1>1, <1>4, <1>5, <1>6 DEF OneFrame

(* The frame is answered and the reply read: nothing is outstanding.       *)
LEMMA ReadReplyIsTheLast ==
  ASSUME UploadInv, PunctualInv, ~up.late, NEW outcome \in Answers, waitReply(outcome)
  PROVE  /\ OneFrame /\ wire = << >> /\ replies = << >> /\ replyCh' = "empty"
         /\ up.stage = "data" /\ outcome = "ok" => up.pos \in accepted
<1>1. OneFrame /\ worker = "replying" /\ wire = << >>
  <2>1. worker = "replying"
    BY DEF waitReply
  <2>2. OneFrame
    BY <2>1 DEF PunctualInv
  <2> QED
    BY <2>1, <2>2 DEF OneFrame
<1>2. replyCh = outcome /\ replyCh' = "empty" /\ outcome # "empty"
  BY DEF waitReply, Answers
<1>3. PICK reply \in Answers :
        /\ Pending(reply)
        /\ up.stage = "data" /\ reply = "ok" => up.pos \in accepted
  BY <1>1, <1>2 DEF OneFrame, ReplyIsFresh, Quiet
<1>4. replies = << >> /\ reply = outcome
  BY <1>2, <1>3 DEF Pending
<1> QED
  BY <1>1, <1>2, <1>3, <1>4

(* The next block, or the end of the loop.                                 *)
LEMMA SendFromIsPunctual ==
  ASSUME TypeOK, up \in Uploads, NEW pos \in 0 .. Blocks, NEW late \in BOOLEAN,
         SendFrom(pos, late), UNCHANGED <<client, accepted, replies>>,
         ~late => /\ wire = << >> /\ replies = << >> /\ replyCh' = "empty"
                  /\ up.cli <= client.number
                  /\ up.cli = client.number => client.state # "connecting"
                  /\ 0 .. pos - 1 \subseteq accepted
  PROVE  PunctualInv'
<1> DEFINE base == [up EXCEPT !.pos = pos, !.attempt = 0, !.lastErr = "ok", !.late = late]
           next(stage) == [base EXCEPT !.stage = stage]
<1>1. ASSUME NEW stage \in {"data", "end"}
      PROVE  /\ next(stage) \in Uploads /\ next(stage).cli = up.cli
             /\ next(stage).stage = stage /\ next(stage).pos = pos
             /\ next(stage).late = late
  <2>1. base \in Uploads /\ base.cli = up.cli /\ base.pos = pos /\ base.late = late
    BY UploadAt
  <2> HIDE DEF base
  <2> QED
    BY <1>1, <2>1 DEF Uploads, Stages
<1>2. CASE Return("ok")
  BY <1>2 DEF Return, PunctualInv
<1>3. CASE pos < Blocks /\ Send(next("data"))
  <2> HIDE DEF next
  <2> QED
    BY <1>1, <1>3, SendIsPunctual
<1>4. CASE ~(pos < Blocks) /\ Send(next("end"))
  <2>1. pos = Blocks
    BY <1>4, UploadAssumption
  <2>2. ~late => accepted = File
    BY <2>1 DEF TypeOK, File
  <2> HIDE DEF next
  <2> QED
    BY <1>1, <1>4, <2>2, SendIsPunctual
<1> QED
  BY <1>2, <1>3, <1>4 DEF SendFrom

LEMMA UploadStepIsPunctual ==
  ASSUME UploadInv, PunctualInv, UploadStep
  PROVE  PunctualInv'
<1>1. TypeOK /\ up \in Uploads /\ client.number \in Nat
  BY UploadType DEF UploadInv
<1>2. ASSUME NEW answer, Return(answer)
      PROVE  PunctualInv'
  BY <1>2 DEF Return, PunctualInv
<1>3. CASE WaitConnected
  <2> DEFINE next == [up EXCEPT !.cli = client.number,
                                !.late = wire # <<>> \/ replies # <<>>]
  <2>1. /\ Send(next) /\ client.number \in 0 .. MaxClients /\ client.state # "connecting"
        /\ UNCHANGED <<client, accepted, replies>> /\ replyCh' = "empty"
    BY <1>1, <1>3 DEF WaitConnected, TypeOK, printerVars
  <2>2. /\ next \in Uploads /\ next.cli = client.number /\ next.stage = "hello"
        /\ ~next.late => wire = << >> /\ replies = << >>
    <3>1. (wire # <<>> \/ replies # <<>>) \in BOOLEAN
      OBVIOUS
    <3>2. up.stage = "hello"
      BY <1>3 DEF WaitConnected, UploadInv
    <3> QED
      BY <1>1, <2>1, <3>1, <3>2 DEF Uploads
  <2> HIDE DEF next
  <2> QED
    BY <1>1, <2>1, <2>2, SendIsPunctual
<1>4. CASE WriteReturns
  <2>1. /\ UNCHANGED <<client, accepted, replies, replyCh>>
        /\ worker = "writing" /\ wire = << >>
    BY <1>4 DEF WriteReturns, printerVars
  <2>2. ~up.late => OneFrame
    BY <2>1 DEF PunctualInv
  <2>3. CASE up.stage = "legacy"
    <3> DEFINE next == [up EXCEPT !.stage = "begin"]
    <3>1. Send(next)
      BY <1>4, <2>3 DEF WriteReturns
    <3>2. /\ next \in Uploads /\ next.cli = up.cli /\ next.stage = "begin"
          /\ next.late = up.late
      BY <1>1 DEF Uploads, Stages
    <3>3. ~up.late => replies = << >> /\ replyCh = "empty"
      BY <2>2, <2>3 DEF OneFrame, ReplyIsFresh, Quiet
    <3> HIDE DEF next
    <3> QED
      BY <2>1, <2>2, <3>1, <3>2, <3>3, SendIsPunctual DEF OneFrame
  <2>4. CASE up.stage # "legacy"
    <3>1. worker' = "replying" /\ UNCHANGED <<up, wire>>
      BY <1>4, <2>4 DEF WriteReturns
    <3>2. ReplyIsFresh => ReplyIsFresh'
      BY <2>1, <3>1 DEF ReplyIsFresh, Quiet, Pending, Outstanding
    <3> QED
      BY <2>1, <2>2, <3>1, <3>2 DEF PunctualInv, OneFrame, Accepting, Live, File
  <2> QED
    BY <2>3, <2>4
<1>5. CASE HelloReply
  <2>1. /\ UNCHANGED <<client, accepted, replies, replyCh>>
        /\ worker = "replying" /\ up.stage = "hello"
    BY <1>5 DEF HelloReply, printerVars
  <2>2. ~up.late => OneFrame /\ Quiet
    BY <2>1 DEF PunctualInv, OneFrame, ReplyIsFresh, Quiet
  <2>3. ASSUME NEW stage \in {"legacy", "begin"}, Send([up EXCEPT !.stage = stage])
        PROVE  PunctualInv'
    <3> DEFINE next == [up EXCEPT !.stage = stage]
    <3>1. /\ next \in Uploads /\ next.cli = up.cli /\ next.stage = stage
          /\ next.late = up.late
      BY <1>1 DEF Uploads, Stages
    <3>2. Send(next)
      BY <2>3
    <3> HIDE DEF next
    <3> QED
      BY <2>1, <2>2, <3>1, <3>2, SendIsPunctual DEF OneFrame, Quiet
  <2> QED
    BY <1>2, <1>5, <2>3 DEF HelloReply
<1>6. ASSUME NEW outcome \in Outcomes, waitReply(outcome)
      PROVE  UNCHANGED <<client, accepted, replies>>
  BY <1>6 DEF waitReply, printerVars
<1>7. ASSUME NEW outcome \in Outcomes, BeginReply(outcome)
      PROVE  PunctualInv'
  <2>1. waitReply(outcome)
    BY <1>7 DEF BeginReply
  <2>2. CASE outcome = "ok"
    <3>1. SendFrom(0, up.late) /\ outcome \in Answers
      BY <1>7, <2>2 DEF BeginReply, Answers
    <3>2. 0 \in 0 .. Blocks /\ up.late \in BOOLEAN /\ 0 .. 0 - 1 \subseteq accepted
      BY <1>1, UploadAssumption DEF Uploads
    <3> QED
      BY <1>1, <1>6, <2>1, <3>1, <3>2, ReadReplyIsTheLast, SendFromIsPunctual DEF OneFrame
  <2> QED
    BY <1>2, <1>7, <2>2 DEF BeginReply
<1>8. ASSUME NEW outcome \in Outcomes, DataReply(outcome)
      PROVE  PunctualInv'
  <2>1. waitReply(outcome) /\ up.stage = "data"
    BY <1>8 DEF DataReply
  <2>2. up.pos < Blocks /\ up.pos \in 0 .. Blocks /\ up.late \in BOOLEAN
    BY <1>1, <2>1 DEF UploadInv, Uploads
  <2>3. CASE outcome = "ok" /\ SendFrom(up.pos + 1, up.late)
    <3>1. up.pos + 1 \in 0 .. Blocks /\ outcome \in Answers
      BY <2>2, <2>3, UploadAssumption DEF Answers
    <3>2. ~up.late => 0 .. (up.pos + 1) - 1 \subseteq accepted
      <4>1. ~up.late => 0 .. up.pos - 1 \subseteq accepted /\ up.pos \in accepted
        BY <2>1, <2>3, <3>1, ReadReplyIsTheLast DEF OneFrame, Accepting
      <4> QED
        BY <2>2, <4>1
    <3> QED
      BY <1>1, <1>6, <2>1, <2>2, <2>3, <3>1, <3>2, ReadReplyIsTheLast, SendFromIsPunctual
      DEF OneFrame
  <2>4. CASE /\ outcome # "ok" /\ up.attempt < maxDataRetries
             /\ Send([up EXCEPT !.attempt = @ + 1, !.lastErr = outcome,
                                !.late = Late(outcome)])
    <3> DEFINE next == [up EXCEPT !.attempt = @ + 1, !.lastErr = outcome,
                                  !.late = Late(outcome)]
    <3>1. up.attempt + 1 \in 0 .. maxDataRetries /\ Late(outcome) \in BOOLEAN
      BY <1>1, <2>4 DEF Uploads, maxDataRetries, Late
    <3>2. /\ next \in Uploads /\ next.cli = up.cli
          /\ next.stage = "data" /\ next.pos = up.pos /\ next.late = Late(outcome)
      BY <1>1, <2>1, <3>1 DEF Uploads
    <3>3. Send(next)
      BY <2>4
    <3>4. ~Late(outcome) => ~up.late /\ outcome \in Answers
      BY DEF Late
    <3> HIDE DEF next
    <3> QED
      BY <1>6, <2>1, <3>2, <3>3, <3>4, ReadReplyIsTheLast, SendIsPunctual
      DEF OneFrame, Accepting
  <2> QED
    BY <1>2, <1>8, <2>3, <2>4 DEF DataReply
<1> QED
  BY <1>2, <1>3, <1>4, <1>5, <1>7, <1>8
  DEF UploadStep, ConnectFails, WriteCancelled, EndReply

LEMMA OthersArePunctual ==
  ASSUME UploadInv, PunctualInv,
         \/ RestartAll \/ \E r \in Requests : RequestStep(r)
         \/ WorkerStarts \/ WorkerStops \/ TakeRequest
         \/ ClientOpens \/ ClientConnects \/ ClientCloses
         \/ UNCHANGED vars
  PROVE  PunctualInv'
<1> USE DEF requestVars, holderVars, workerVars, printerVars, netVars
<1>1. client \in [number : 0..MaxClients, state : {"down", "connecting", "connected"}]
      /\ up \in Uploads /\ client.number \in Nat /\ up.cli \in Nat
  BY UploadType, UploadAssumption DEF UploadInv, TypeOK, Uploads
<1>2. CASE WorkerStarts \/ WorkerStops \/ TakeRequest
  <2>1. worker' \notin {"writing", "replying"}
    BY <1>2 DEF WorkerStarts, WorkerStops, TakeRequest
  <2> QED
    BY <2>1 DEF PunctualInv
<1>3. CASE RestartAll \/ (\E r \in Requests : RequestStep(r)) \/ UNCHANGED vars
  <2>1. UNCHANGED <<worker, up, replyCh, client, wire, replies, accepted>>
    BY <1>3 DEF RestartAll, RequestStep, Borrow, BorrowStarts, Enqueue, CallerLeaves,
                ReturnService, ReturnStops, vars
  <2> QED
    BY <2>1 DEF PunctualInv, OneFrame, Accepting, ReplyIsFresh, Quiet, Pending,
                Outstanding, Live, File
<1> SUFFICES ASSUME worker \in {"writing", "replying"}, ~up.late,
                    ClientOpens \/ ClientConnects \/ ClientCloses
             PROVE  PunctualInv'
  BY <1>2, <1>3 DEF PunctualInv, ClientOpens, ClientConnects, ClientCloses
<1>4. OneFrame
  BY DEF PunctualInv
<1>5. UNCHANGED <<worker, up, replyCh, accepted>>
  BY DEF ClientOpens, ClientConnects, ClientCloses
<1>6. Accepting'
  BY <1>4, <1>5 DEF OneFrame, Accepting, File
<1>7. CASE ClientOpens \/ ClientConnects
  <2>1. UNCHANGED <<wire, replies>>
    BY <1>7 DEF ClientOpens, ClientConnects
  <2>2. ReplyIsFresh'
    BY <1>4, <1>5, <2>1 DEF OneFrame, ReplyIsFresh, Quiet, Pending, Outstanding
  <2>3. /\ up.cli <= client'.number
        /\ up.cli = client'.number => client'.state # "connecting"
        /\ Live(up.cli)' => Live(up.cli)
    BY <1>1, <1>4, <1>5, <1>7 DEF ClientOpens, ClientConnects, OneFrame, Live
  <2>4. Live(up.cli) => Live(up.cli)'
    BY <1>1, <1>4, <1>5, <1>7 DEF ClientOpens, ClientConnects, OneFrame, Live
  <2> QED
    BY <1>4, <1>5, <1>6, <2>1, <2>2, <2>3, <2>4 DEF OneFrame, PunctualInv
<1>8. CASE ClientCloses
  <2>1. /\ wire' = << >> /\ replies' = << >>
        /\ client'.number = client.number /\ client'.state = "down"
    BY <1>1, <1>8 DEF ClientCloses
  <2>2. ReplyIsFresh'
    <3>1. CASE replyCh = "empty"
      BY <1>5, <2>1, <3>1 DEF ReplyIsFresh, Quiet
    <3>2. CASE replyCh # "empty"
      <4>1. PICK reply \in Answers :
              /\ Pending(reply) /\ up.stage \notin {"hello", "legacy"}
              /\ up.stage = "data" /\ reply = "ok" => up.pos \in accepted
        BY <1>4, <3>2 DEF OneFrame, ReplyIsFresh, Quiet
      <4>2. Pending(reply)'
        BY <1>5, <2>1, <3>2, <4>1 DEF Pending
      <4> QED
        BY <1>5, <2>1, <4>1, <4>2 DEF ReplyIsFresh
    <3> QED
      BY <3>1, <3>2
  <2> QED
    BY <1>4, <1>5, <1>6, <2>1, <2>2 DEF OneFrame, PunctualInv
<1> QED
  BY <1>7, <1>8

(* The printer gets the frame that is outstanding, and takes a block only  *)
(* when it answers with OK.                                                *)
LEMMA PrinterIsPunctual ==
  ASSUME UploadInv, PunctualInv, PrinterReceives
  PROVE  PunctualInv'
<1> USE DEF requestVars, holderVars, workerVars
<1>1. UNCHANGED <<worker, up, replyCh, client>> /\ wire # << >>
  BY DEF PrinterReceives
<1> SUFFICES ASSUME worker \in {"writing", "replying"}, ~up.late PROVE OneFrame'
  BY <1>1 DEF PunctualInv
<1>2. OneFrame
  BY DEF PunctualInv
<1>3. wire = <<Outstanding>> /\ replies = << >> /\ replyCh = "empty"
  BY <1>1, <1>2 DEF OneFrame, ReplyIsFresh, Quiet
<1>4. Head(wire) = Outstanding /\ Tail(wire) = << >>
  BY <1>3
<1>5. /\ Append(replies, "ok") = <<"ok">>
      /\ Append(replies, "refused") = <<"refused">>
  BY <1>3
<1> DEFINE block  == IF up.stage = "data" THEN {up.pos} ELSE {}
           before == IF up.stage = "begin" THEN {} ELSE accepted
<1>6. /\ wire' = << >>
      /\ \/ accepted' = before /\ replies' = << >>
         \/ /\ up.stage \in {"begin", "data", "end"}
            /\ accepted' = before \union block /\ replies' = <<"ok">>
         \/ /\ up.stage \in {"begin", "data", "end"}
            /\ accepted' = before /\ replies' = <<"refused">>
  BY <1>3, <1>4, <1>5 DEF PrinterReceives, Answering, Outstanding
<1>7. Accepting'
  BY <1>1, <1>2, <1>6 DEF OneFrame, Accepting, File
<1>8. ReplyIsFresh'
  <2>1. CASE replies' = << >>
    BY <1>1, <1>3, <1>6, <2>1 DEF ReplyIsFresh, Quiet
  <2>2. ASSUME NEW reply \in Answers, replies' = <<reply>>,
               up.stage \in {"begin", "data", "end"},
               up.stage = "data" /\ reply = "ok" => up.pos \in accepted'
        PROVE  ReplyIsFresh'
    <3>1. Pending(reply)'
      BY <1>1, <1>3, <2>2 DEF Pending
    <3> QED
      BY <1>1, <1>6, <2>2, <3>1 DEF ReplyIsFresh
  <2> QED
    BY <1>6, <2>1, <2>2 DEF Answers
<1> QED
  BY <1>1, <1>2, <1>6, <1>7, <1>8 DEF OneFrame, Live

LEMMA ReplyIsPunctual ==
  ASSUME UploadInv, PunctualInv, ReplyArrives
  PROVE  PunctualInv'
<1> USE DEF requestVars, holderVars, printerVars
<1>1. UNCHANGED <<worker, up, accepted, client, wire>> /\ replies # << >>
  BY DEF ReplyArrives
<1> SUFFICES ASSUME worker \in {"writing", "replying"}, ~up.late PROVE OneFrame'
  BY <1>1 DEF PunctualInv
<1>2. OneFrame
  BY DEF PunctualInv
<1>3. PICK reply \in Answers :
        /\ wire = << >> /\ up.stage \notin {"hello", "legacy"}
        /\ replies = <<reply>> /\ replyCh = "empty"
        /\ up.stage = "data" /\ reply = "ok" => up.pos \in accepted
  BY <1>1, <1>2 DEF OneFrame, ReplyIsFresh, Quiet, Pending
<1>4. Head(replies) = reply /\ Tail(replies) = << >>
  BY <1>3
<1>5. Pending(reply)'
  BY <1>3, <1>4 DEF ReplyArrives, Pending
<1>6. ReplyIsFresh'
  BY <1>1, <1>3, <1>5 DEF ReplyIsFresh
<1> QED
  BY <1>1, <1>2, <1>6 DEF OneFrame, Accepting, Live, File

(* As long as an upload has not given up on a reply, every reply it reads  *)
(* answers its last frame.                                                 *)
THEOREM PunctualInvariant == Spec => [](UploadInv /\ PunctualInv)
<1>1. Init => PunctualInv
  BY DEF Init, PunctualInv
<1>2. UploadInv /\ PunctualInv /\ [Next]_vars => PunctualInv'
  BY UploadStepIsPunctual, OthersArePunctual, PrinterIsPunctual, ReplyIsPunctual DEF Next
<1> QED
  BY <1>1, <1>2, UploadInvariant, PTL DEF Spec

(* Success is only reported of an upload whose every block was accepted,   *)
(* unless it has given up on a reply on the way.                           *)
THEOREM SuccessIsAcceptance == Spec => SuccessMeansAccepted
<1> DEFINE Claim == \A r \in Requests :
                      result[r] # "ok" /\ result'[r] = "ok" /\ ~up.late => accepted = File
<1>1. ASSUME UploadInv, PunctualInv, [Next]_vars PROVE Claim
  <2> SUFFICES ASSUME NEW r \in Requests, result[r] # "ok", result'[r] = "ok", ~up.late
               PROVE  accepted = File
    OBVIOUS
  <2>1. TypeOK /\ up \in Uploads
    BY <1>1, UploadType DEF UploadInv
  <2>2. result' # result /\ ~Return("error")
    BY <2>1 DEF TypeOK, Return
  <2>3. UploadStep
    <3>1. UNCHANGED vars => UNCHANGED result
      BY DEF vars, requestVars, holderVars
    <3> QED
      BY <1>1, <2>2, <3>1
      DEF Next, RestartAll, RequestStep, Borrow, BorrowStarts, Enqueue, CallerLeaves,
          ReturnService, ReturnStops, WorkerStarts, WorkerStops, TakeRequest,
          ClientOpens, ClientConnects, ClientCloses, PrinterReceives, ReplyArrives,
          requestVars, holderVars
  <2>4. ASSUME NEW next, Send(next) PROVE FALSE
    BY <2>2, <2>4 DEF Send
  <2>5. ASSUME NEW pos \in 0 .. Blocks, NEW late, SendFrom(pos, late) PROVE pos = Blocks
    BY <2>4, <2>5, UploadAssumption DEF SendFrom
  <2>6. ASSUME NEW outcome \in Outcomes, BeginReply(outcome)
        PROVE  accepted = File
    <3>1. SendFrom(0, up.late)
      BY <2>2, <2>6 DEF BeginReply
    <3>2. Blocks = 0
      BY <2>5, <3>1, UploadAssumption
    <3> QED
      BY <2>1, <3>2 DEF TypeOK, File
  <2>7. ASSUME NEW outcome \in Outcomes, DataReply(outcome)
        PROVE  accepted = File
    <3>1. /\ waitReply(outcome) /\ up.stage = "data" /\ outcome = "ok"
          /\ SendFrom(up.pos + 1, up.late)
      <4>1. ~Send([up EXCEPT !.attempt = @ + 1, !.lastErr = outcome, !.late = Late(outcome)])
        BY <2>4
      <4> QED
        BY <2>2, <2>7, <4>1 DEF DataReply
    <3>2. up.pos \in 0 .. Blocks /\ up.pos < Blocks
      BY <1>1, <2>1, <3>1 DEF Uploads, UploadInv
    <3>3. up.pos + 1 = Blocks
      <4>1. up.pos + 1 \in 0 .. Blocks
        BY <3>2, UploadAssumption
      <4> QED
        BY <2>5, <3>1, <4>1
    <3>4. 0 .. up.pos - 1 \subseteq accepted /\ up.pos \in accepted
      BY <1>1, <3>1, ReadReplyIsTheLast DEF OneFrame, Accepting, Answers
    <3>5. File \subseteq accepted
      <4>1. \A i \in 0 .. Blocks - 1 : i \in 0 .. up.pos - 1 \/ i = up.pos
        BY <3>2, <3>3, UploadAssumption
      <4> QED
        BY <3>4, <4>1 DEF File
    <3> QED
      BY <2>1, <3>5 DEF TypeOK
  <2>8. ASSUME NEW outcome \in Outcomes, EndReply(outcome)
        PROVE  accepted = File
    <3>1. worker = "replying" /\ up.stage = "end"
      BY <2>8 DEF EndReply, waitReply
    <3> QED
      BY <1>1, <3>1 DEF PunctualInv, OneFrame, Accepting
  <2> QED
    BY <2>2, <2>3, <2>4, <2>6, <2>7, <2>8
    DEF UploadStep, WaitConnected, ConnectFails, WriteReturns, WriteCancelled, HelloReply
<1>2. UploadInv /\ PunctualInv /\ [Next]_vars => [Claim]_vars
  BY <1>1
<1> QED
  BY <1>2, PunctualInvariant, PTL DEF Spec, SuccessMeansAccepted

===============================================================================
