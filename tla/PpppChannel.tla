----------------------------- MODULE PpppChannel -----------------------------
(***************************************************************************)
(* internal/pppp/protocol/channel.go: one direction of a logical PPPP      *)
(* channel over UDP, from the writes of one end to the byte stream the     *)
(* other end reads.                                                        *)
(*                                                                         *)
(* The sender cuts a write into chunks, keeps at most MaxInFlight of them  *)
(* in flight and sends each again until it is acknowledged.  The receiver  *)
(* acknowledges every packet it gets and hands the chunks on in order.     *)
(* Packets and acknowledgements may be lost, duplicated and reordered.     *)
(*                                                                         *)
(* A chunk is named by its position in the stream, and txCtr, txAck and    *)
(* rxCtr are kept as the number of increments they have had; the code sees *)
(* only their cyclic index, and so does every test below.                  *)
(***************************************************************************)
EXTENDS CyclicU16, Sequences, FiniteSets

CONSTANTS
  MaxInFlight,  \* DefaultMaxInFlight
  MaxSpan,      \* chunks written and not acknowledged: the largest write
  MaxLag,       \* how many chunks a packet can be overtaken by in the network
  MaxChunks     \* bound: the length of the stream

ASSUME InFlightAssumption == MaxInFlight \in Nat \ {0}
ASSUME SpanAssumption     == MaxSpan \in Nat /\ MaxSpan <= WrapLimit
ASSUME LagAssumption      == MaxLag \in Nat /\ MaxLag <= WrapLimit
ASSUME ChunksAssumption   == MaxChunks \in Nat

VARIABLES
  use,        \* what the channel carries: 0 commands, 1 a file
  txCtr,      \* c.txCtr: the chunks written so far
  txAck,      \* c.txAck: the first chunk not known to be acknowledged
  backlog,    \* the first chunk of c.backlog, which ends at txCtr
  txQueue,    \* the chunks of c.txQueue
  acks,       \* c.acks: acknowledged indices ahead of txAck
  writer,     \* the caller of a blocking WriteContext, and the end it awaits
  data,       \* DRW packets in the network, by chunk
  dataAcks,   \* DRW acknowledgements in the network, by chunk
  rxQueue,    \* c.rxQueue of the receiver: chunks by index
  delivered   \* the chunks written to c.RX; its length is c.rxCtr

txVars  == <<txCtr, txAck, backlog, txQueue, acks, writer>>
netVars == <<data, dataAcks>>
rxVars  == <<rxQueue, delivered>>
vars    == <<use, txVars, netVars, rxVars>>

Chunks == 0 .. MaxChunks - 1
rxCtr  == Len(delivered)

TypeOK ==
  /\ use \in {"commands", "file"}
  /\ txCtr \in 0..MaxChunks
  /\ txAck \in 0..txCtr
  /\ backlog \in 0..txCtr
  /\ txQueue \subseteq 0 .. backlog - 1
  /\ Cardinality(txQueue) <= MaxInFlight
  /\ acks \subseteq Index
  /\ writer \in [at : {"idle", "waiting", "returned"}, done : 0..MaxChunks]
  /\ data \subseteq Chunks
  /\ dataAcks \subseteq Chunks
  /\ DOMAIN rxQueue \subseteq Index
  /\ \A i \in DOMAIN rxQueue : rxQueue[i] \in Chunks
  /\ delivered \in Seq(Chunks)

NoWriter == [at |-> "idle", done |-> 0]

Init ==
  /\ use \in {"commands", "file"}
  /\ txCtr = 0
  /\ txAck = 0
  /\ backlog = 0
  /\ txQueue = {}
  /\ acks = {}
  /\ writer = NoWriter
  /\ data = {}
  /\ dataAcks = {}
  /\ rxQueue = [i \in {} |-> 0]
  /\ delivered = <<>>

(* The length of the run of consecutive indices of a set that starts at    *)
(* the counter n: how far the loops of RXAck and RXDrw advance it.         *)
RunLength(set, n) ==
  CHOOSE k \in 0..Modulus :
    /\ Cyclic(n + k) \notin set
    /\ \A j \in 0 .. k - 1 : Cyclic(n + j) \in set

-------------------------------------------------------------------------------
(* Mutants: bugs the operations below might have.                          *)

(* The whole backlog goes out at once.                                     *)
PollFloods(n) ==
  /\ backlog' = txCtr
  /\ txQueue' = txQueue \union (backlog .. txCtr - 1)
  /\ n \in txQueue'
  /\ data' = data \union {n}
  /\ UNCHANGED <<use, txCtr, txAck, acks, writer, dataAcks, rxVars>>

(* An acknowledgement is taken for all chunks before it, too.              *)
RXAckCumulative(ack) ==
  /\ txQueue' = {n \in txQueue : Cyclic(n) # ack}
  /\ txAck' = IF IsAfterOrEqual(Cyclic(txAck), ack)
              THEN txAck + Diff(Cyclic(txAck), ack) + 1
              ELSE txAck
  /\ UNCHANGED <<txCtr, backlog, acks, writer>>

(* Packets are handed on as they come.                                     *)
RXDrwInArrivalOrder(index, chunk) ==
  IF Greater(Cyclic(rxCtr), index)
  THEN UNCHANGED rxVars
  ELSE delivered' = Append(delivered, chunk) /\ UNCHANGED rxQueue

-------------------------------------------------------------------------------
(* The sender. *)

(* WriteContext up to its unlock.  Nobody writes without end before the    *)
(* peer has acknowledged: a file goes in blocks that are waited for, and   *)
(* commands are few.                                                       *)
Enqueue(k) ==
  /\ txCtr + k <= MaxChunks
  /\ txCtr + k - txAck <= MaxSpan
  /\ txCtr' = txCtr + k

WriteBlocking(k) ==
  /\ writer.at = "idle"
  /\ Enqueue(k)
  /\ writer' = [at |-> "waiting", done |-> txCtr + k]
  /\ UNCHANGED <<use, txAck, backlog, txQueue, acks, netVars, rxVars>>

(* Only commands are written without waiting (PPPPService.Command).  A     *)
(* blocked writer looks at txAck every 250 ms at the latest, before many   *)
(* commands can have been written and acknowledged.                        *)
WriteNonBlocking(k) ==
  /\ use = "commands"
  /\ writer.at = "waiting" => txCtr + k <= writer.done + MaxSpan
  /\ Enqueue(k)
  /\ UNCHANGED <<use, txAck, backlog, txQueue, acks, writer, netVars, rxVars>>

WriteReturns ==
  /\ writer.at = "waiting"
  /\ IsAfterOrEqual(Cyclic(writer.done), Cyclic(txAck))
  /\ writer' = [writer EXCEPT !.at = "returned"]
  /\ UNCHANGED <<use, txCtr, txAck, backlog, txQueue, acks, netVars, rxVars>>

(* The caller's context is done; its chunks stay queued.                   *)
WriteCancelled ==
  /\ writer.at = "waiting"
  /\ writer' = NoWriter
  /\ UNCHANGED <<use, txCtr, txAck, backlog, txQueue, acks, netVars, rxVars>>

(* The caller of a successful write goes on ...                            *)
WriterGoesOn ==
  /\ writer.at = "returned"
  /\ writer' = NoWriter
  /\ UNCHANGED <<use, txCtr, txAck, backlog, txQueue, acks, netVars, rxVars>>

(* ... unless it is Upload and the printer's reply to a block is late.     *)
ResetTx ==
  /\ use = "file"
  /\ writer.at = "returned"
  /\ txQueue' = {}
  /\ backlog' = txCtr
  /\ acks' = {}
  /\ txAck' = txCtr
  /\ writer' = NoWriter
  /\ UNCHANGED <<use, txCtr, netVars, rxVars>>

(* Poll fills the window from the backlog and sends what is due.  Every    *)
(* queued chunk becomes due again and again, in any order the deadlines    *)
(* may have; a poll that sends several is several polls here.              *)
Poll(n) ==
  LET room  == MaxInFlight - Cardinality(txQueue)
      taken == IF txCtr - backlog < room THEN txCtr - backlog ELSE room
  IN  /\ backlog' = backlog + taken
      /\ txQueue' = txQueue \union (backlog .. backlog + taken - 1)
      /\ n \in txQueue'
      /\ data' = data \union {n}
      /\ UNCHANGED <<use, txCtr, txAck, acks, writer, dataAcks, rxVars>>

RXAck(ack) ==
  /\ txQueue' = {n \in txQueue : Cyclic(n) # ack}
  /\ LET known == IF IsAfterOrEqual(Cyclic(txAck), ack) THEN acks \union {ack} ELSE acks
         k     == RunLength(known, txAck)
     IN  /\ txAck' = txAck + k
         /\ acks' = known \ {Cyclic(txAck + j) : j \in 0 .. k - 1}
  /\ UNCHANGED <<txCtr, backlog, writer>>

-------------------------------------------------------------------------------
(* The receiver. *)

RXDrw(index, chunk) ==
  IF Greater(Cyclic(rxCtr), index)
  THEN UNCHANGED rxVars
  ELSE LET queue == IF index \in DOMAIN rxQueue THEN rxQueue
                    ELSE [i \in DOMAIN rxQueue \union {index} |->
                            IF i = index THEN chunk ELSE rxQueue[i]]
           k     == RunLength(DOMAIN queue, rxCtr)
           run   == [j \in 1..k |-> queue[Cyclic(rxCtr + j - 1)]]
           drained == {Cyclic(rxCtr + j) : j \in 0 .. k - 1}
       IN  /\ delivered' = delivered \o run
           /\ rxQueue' = [i \in DOMAIN queue \ drained |-> queue[i]]

-------------------------------------------------------------------------------
(* The network, with process of client.go at its two ends.  A packet may   *)
(* be delivered any number of times until it is lost, and it is lost when  *)
(* the stream has left it behind by more than MaxLag chunks.               *)

Recent(packets, counter) == {n \in packets : counter <= n + MaxLag}

(* A mutant: a packet that was received before is not acknowledged again.  *)
DeliverDrwAcksNew(n) ==
  /\ n \in data
  /\ RXDrw(Cyclic(n), n)
  /\ data' = Recent(data, rxCtr')
  /\ dataAcks' = Recent(IF n < rxCtr THEN dataAcks ELSE dataAcks \union {n}, txAck)
  /\ UNCHANGED <<use, txVars>>

DeliverDrw(n) ==
  /\ n \in data
  /\ RXDrw(Cyclic(n), n)
  /\ data' = Recent(data, rxCtr')
  /\ dataAcks' = Recent(dataAcks \union {n}, txAck)
  /\ UNCHANGED <<use, txVars>>

DeliverAck(n) ==
  /\ n \in dataAcks
  /\ RXAck(Cyclic(n))
  /\ dataAcks' = Recent(dataAcks, txAck')
  /\ UNCHANGED <<use, data, rxVars>>

LoseDrw(n) ==
  /\ n \in data
  /\ data' = data \ {n}
  /\ UNCHANGED <<use, txVars, dataAcks, rxVars>>

LoseAck(n) ==
  /\ n \in dataAcks
  /\ dataAcks' = dataAcks \ {n}
  /\ UNCHANGED <<use, txVars, data, rxVars>>

Next ==
  \/ \E k \in 1..MaxSpan : WriteBlocking(k) \/ WriteNonBlocking(k)
  \/ WriteReturns
  \/ WriteCancelled
  \/ WriterGoesOn
  \/ ResetTx
  \/ \E n \in Chunks :
       Poll(n) \/ DeliverDrw(n) \/ DeliverAck(n) \/ LoseDrw(n) \/ LoseAck(n)

(* The 25 ms ticker of Client.Run polls for ever, and a packet that is     *)
(* sent for ever is received at last: it is enough that this holds of the  *)
(* oldest chunk not acknowledged and of its acknowledgement.               *)
Fairness ==
  /\ WF_vars(WriteReturns)
  /\ WF_vars(Poll(txAck))
  /\ SF_vars(DeliverDrw(txAck))
  /\ SF_vars(DeliverAck(txAck))

Spec     == Init /\ [][Next]_vars
FairSpec == Spec /\ Fairness
-------------------------------------------------------------------------------
(* The stream is read as it was written: every chunk once and in order,    *)
(* across the wraps of the index, whatever the network does.               *)
InOrderExactlyOnce == \A i \in 1..rxCtr : delivered[i] = i - 1

(* What the sender takes for acknowledged has reached the reader: an       *)
(* acknowledgement is never counted for another chunk of the same index.   *)
AckedIsDelivered == txAck <= rxCtr

(* A blocking write that returns has delivered all it wrote.               *)
WriteMeansDelivered == writer.at = "returned" => writer.done <= rxCtr

(* When Upload resets the channel there is nothing left to throw away:     *)
(* otherwise the receiver would wait for ever for a chunk that is no       *)
(* longer sent.                                                            *)
ResetFindsNothing ==
  use = "file" /\ writer.at = "returned" => txAck = txCtr

(* What the sending side takes for delivered is delivered, by each of the  *)
(* three ways it learns of it: acknowledgements, the end of a write, and   *)
(* the upload that goes on to the next frame.                              *)
DeliveryIsKnown == AckedIsDelivered /\ WriteMeansDelivered /\ ResetFindsNothing

(* Everything written is delivered in the end (the stream is bounded, so   *)
(* the reader can catch up with the writer).                               *)
EventuallyDelivered == (rxCtr < txCtr) ~> (rxCtr = txCtr)

(* A blocking write ends: with success, or by its caller.                  *)
WriteEnds == (writer.at = "waiting") ~> (writer.at # "waiting")

(* A transfer ends on both sides, whatever the network loses.              *)
TransferEnds == EventuallyDelivered /\ WriteEnds
===============================================================================
