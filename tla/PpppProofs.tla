------------------------------ MODULE PpppProofs ------------------------------
(***************************************************************************)
(* Proofs about the PPPP protocol: the channel below (PpppChannel), and    *)
(* the clients above it that share one UDP port (PpppSession).             *)
(*                                                                         *)
(* The channel.  For every ring, every window, every length of the stream  *)
(* and every behaviour of the network that the assumptions on MaxSpan and  *)
(* MaxLag allow: the stream is read as it was written, and what the sender *)
(* takes for delivered is.  The reason is in the windows: every chunk that *)
(* is about is less than half a turn from the counter it is compared with, *)
(* so the cyclic orders of the code are the order of the chunks.           *)
(*                                                                         *)
(* The clients.  The service and the probe never share the UDP port, and   *)
(* no Run loop outlives the socket it reads from: for every order of       *)
(* hooks, probes, packets, timeouts and cancelled contexts.  What makes it *)
(* inductive: a goroutine that has still to enter Run also belongs to the  *)
(* client on the port, and a service that is open or running has the port. *)
(***************************************************************************)
EXTENDS PpppChannel, PpppSession, FiniteSetTheorems, SequenceTheorems, WellFoundedInduction, TLAPS

-------------------------------------------------------------------------------
(* Every set of natural numbers has a least one.                           *)
LEMMA LeastOf ==
  ASSUME NEW R, IsWellFoundedOn(R, Nat),
         \A m, n \in Nat : n < m => <<n, m>> \in R,
         NEW S, S \subseteq Nat, S # {}
  PROVE  \E m \in S : \A n \in S : m <= n
<1>1. PICK m \in S : \A n \in S : ~ (<<n, m>> \in R)
  BY WFMin
<1>2. \A n \in S : m \in Nat /\ n \in Nat /\ ~ (n < m)
  BY <1>1
<1>3. \A n \in S : m <= n
  BY <1>2
<1> QED
  BY <1>3

LEMMA Least ==
  ASSUME NEW S, S \subseteq Nat, S # {}
  PROVE  \E m \in S : \A n \in S : m <= n
<1>1. \A m, n \in Nat : n < m => <<n, m>> \in OpToRel(<, Nat)
  BY DEF OpToRel
<1> QED
  BY <1>1, NatLessThanWellFounded, LeastOf

LEMMA ModulusIsEven ==
  /\ Half \in Nat /\ WrapLimit \in Nat /\ 0 < WrapLimit /\ 2 * WrapLimit <= Half
  /\ Modulus = Half + Half /\ Modulus \in Nat /\ Modulus > 0
BY RingAssumption DEF Modulus

(* % is what is left of whole turns.                                       *)
LEMMA Remainder ==
  ASSUME NEW M \in Nat, M > 0, NEW n \in Nat
  PROVE  /\ n \div M \in Nat /\ M * (n \div M) \in Nat
         /\ n % M \in Nat /\ n % M < M
         /\ n = M * (n \div M) + (n % M)
<1>1. n \div M \in Nat /\ n % M \in Nat /\ n % M < M
  BY SMT
<1>2. M * (n \div M) \in Nat
  BY <1>1
<1>3. n = M * (n \div M) + (n % M)
  BY Z3
<1> QED
  BY <1>1, <1>2, <1>3

(* Less than a turn ahead: the index is as much ahead, or has wrapped.     *)
LEMMA AheadModulo ==
  ASSUME NEW M \in Nat, M > 0, NEW a \in Nat, NEW b \in Nat, a <= b, b < a + M
  PROVE  b % M = (a % M) + (b - a) \/ b % M = (a % M) + (b - a) - M
<1> DEFINE qa == a \div M
           qb == b \div M
           ra == a % M
           rb == b % M
<1>1. /\ qa \in Nat /\ ra \in Nat /\ ra < M /\ a = M * qa + ra
      /\ qb \in Nat /\ rb \in Nat /\ rb < M /\ b = M * qb + rb
      /\ M * qa \in Nat /\ M * qb \in Nat
  BY Remainder
<1> HIDE DEF qa, qb, ra, rb
<1>2. ~ (qb < qa)
  <2>1. SUFFICES ASSUME qa >= qb + 1 PROVE FALSE
    BY <1>1
  <2>2. M * qa >= M * qb + M
    <3>1. M * qa = M * (qb + 1) + M * (qa - qb - 1)
      BY <1>1
    <3>2. M * (qa - qb - 1) >= 0
      BY <1>1, <2>1
    <3>3. M * (qb + 1) = M * qb + M
      BY <1>1
    <3> QED
      BY <1>1, <3>1, <3>2, <3>3
  <2> QED
    BY <1>1, <2>2
<1>3. ~ (qb > qa + 1)
  <2>1. SUFFICES ASSUME qb >= qa + 2 PROVE FALSE
    BY <1>1
  <2>2. M * qb >= M * qa + M + M
    <3>1. M * qb = M * (qa + 2) + M * (qb - qa - 2)
      BY <1>1
    <3>2. M * (qb - qa - 2) >= 0
      BY <1>1, <2>1
    <3>3. M * (qa + 2) = M * qa + M + M
      BY <1>1
    <3> QED
      BY <1>1, <3>1, <3>2, <3>3
  <2> QED
    BY <1>1, <2>2
<1>4. qb = qa \/ qb = qa + 1
  BY <1>1, <1>2, <1>3
<1>5. M * (qa + 1) = M * qa + M
  BY <1>1
<1>6. rb = ra + (b - a) \/ rb = ra + (b - a) - M
  BY <1>1, <1>4, <1>5
<1> QED
  BY <1>6 DEF ra, rb

LEMMA SmallModulo ==
  ASSUME NEW M \in Nat, M > 0, NEW n \in Nat, n < M + M
  PROVE  n % M = IF n < M THEN n ELSE n - M
BY SMT

-------------------------------------------------------------------------------
(* The cyclic orders of the code, on counters that are near each other.    *)

LEMMA CyclicAhead ==
  ASSUME NEW a \in Nat, NEW b \in Nat, a <= b, b < a + Modulus
  PROVE  /\ Cyclic(a) \in 0 .. Modulus - 1 /\ Cyclic(b) \in 0 .. Modulus - 1
         /\ \/ Cyclic(b) = Cyclic(a) + (b - a)
            \/ Cyclic(b) = Cyclic(a) + (b - a) - Modulus
<1> DEFINE M == Modulus
<1>1. M \in Nat /\ M > 0 /\ b < a + M
  BY ModulusIsEven
<1> HIDE DEF M
<1>2. b % M = (a % M) + (b - a) \/ b % M = (a % M) + (b - a) - M
  BY <1>1, AheadModulo
<1>3. a % M \in 0 .. M - 1 /\ b % M \in 0 .. M - 1
  BY <1>1, Remainder
<1> QED
  BY <1>2, <1>3 DEF Cyclic, M

LEMMA CyclicInjective ==
  ASSUME NEW a \in Nat, NEW b \in Nat, a < b + Modulus, b < a + Modulus,
         Cyclic(a) = Cyclic(b)
  PROVE  a = b
<1>1. Modulus \in Nat /\ Modulus > 0
  BY ModulusIsEven
<1>2. CASE a <= b
  <2>1. \/ Cyclic(b) = Cyclic(a) + (b - a)
        \/ Cyclic(b) = Cyclic(a) + (b - a) - Modulus
    BY <1>2, CyclicAhead
  <2>2. Cyclic(a) \in 0 .. Modulus - 1
    BY <1>2, CyclicAhead
  <2> QED
    BY <1>1, <1>2, <2>1, <2>2
<1>3. CASE b <= a
  <2>1. \/ Cyclic(a) = Cyclic(b) + (a - b)
        \/ Cyclic(a) = Cyclic(b) + (a - b) - Modulus
    BY <1>3, CyclicAhead
  <2>2. Cyclic(b) \in 0 .. Modulus - 1
    BY <1>3, CyclicAhead
  <2> QED
    BY <1>1, <1>3, <2>1, <2>2
<1> QED
  BY <1>2, <1>3

(* Both directions at once: the two indices of near counters.              *)
LEMMA CyclicNear ==
  ASSUME NEW a \in Nat, NEW b \in Nat, a <= b + WrapLimit, b <= a + WrapLimit
  PROVE  /\ Cyclic(a) \in 0 .. Modulus - 1 /\ Cyclic(b) \in 0 .. Modulus - 1
         /\ \/ Cyclic(b) = Cyclic(a) + (b - a)
            \/ Cyclic(b) = Cyclic(a) + (b - a) - Modulus
            \/ Cyclic(b) = Cyclic(a) + (b - a) + Modulus
<1>1. CASE a <= b
  <2>1. b < a + Modulus
    BY <1>1, ModulusIsEven
  <2> QED
    BY <1>1, <2>1, CyclicAhead
<1>2. CASE b <= a
  <2>1. a < b + Modulus
    BY <1>2, ModulusIsEven
  <2>2. \/ Cyclic(a) = Cyclic(b) + (a - b)
        \/ Cyclic(a) = Cyclic(b) + (a - b) - Modulus
    BY <1>2, <2>1, CyclicAhead
  <2>3. Cyclic(a) \in 0 .. Modulus - 1 /\ Cyclic(b) \in 0 .. Modulus - 1
    BY <1>2, <2>1, CyclicAhead
  <2> QED
    BY <2>2, <2>3, ModulusIsEven
<1> QED
  BY <1>1, <1>2

LEMMA AfterIsOrder ==
  ASSUME NEW a \in Nat, NEW b \in Nat, a <= b + WrapLimit, b <= a + WrapLimit
  PROVE  IsAfterOrEqual(Cyclic(a), Cyclic(b)) <=> a <= b
<1> DEFINE x == Cyclic(a)
           y == Cyclic(b)
           M == Modulus
<1>1. /\ x \in 0 .. M - 1 /\ y \in 0 .. M - 1
      /\ y = x + (b - a) \/ y = x + (b - a) - M \/ y = x + (b - a) + M
  BY CyclicNear
<1>2. /\ Half \in Nat /\ WrapLimit \in Nat /\ 0 < WrapLimit /\ 2 * WrapLimit <= Half
      /\ M = Half + Half /\ M \in Nat /\ M > 0
  BY ModulusIsEven
<1>3. Diff(x, y) = (y + M - x) % M
  BY DEF Diff
<1>4. IsAfterOrEqual(x, y) <=> x = y \/ (Diff(x, y) # 0 /\ Diff(x, y) < Half)
  BY DEF IsAfterOrEqual, IsAfter
<1> HIDE DEF x, y, M
<1>5. Diff(x, y) = IF y + M - x < M THEN y + M - x ELSE y - x
  <2> DEFINE z == y + M - x
  <2>1. z \in Nat /\ z < M + M
    BY <1>1, <1>2
  <2>2. Diff(x, y) = z % M
    BY <1>3
  <2>3. z = y + M - x
    OBVIOUS
  <2> HIDE DEF z
  <2>4. z % M = IF z < M THEN z ELSE z - M
    BY <1>2, <2>1, SmallModulo
  <2> QED
    BY <1>1, <1>2, <2>2, <2>3, <2>4
<1>6. IsAfterOrEqual(x, y) <=> a <= b
  BY <1>1, <1>2, <1>4, <1>5
<1> QED
  BY <1>6 DEF x, y

LEMMA GreaterIsOrder ==
  ASSUME NEW a \in Nat, NEW b \in Nat, a <= b + WrapLimit, b <= a + WrapLimit
  PROVE  Greater(Cyclic(a), Cyclic(b)) <=> a > b
<1> DEFINE x == Cyclic(a)
           y == Cyclic(b)
           M == Modulus
           W == WrapLimit
<1>1. /\ x \in 0 .. M - 1 /\ y \in 0 .. M - 1
      /\ y = x + (b - a) \/ y = x + (b - a) - M \/ y = x + (b - a) + M
  BY CyclicNear
<1>2. /\ Half \in Nat /\ W \in Nat /\ 0 < W /\ W + W <= Half
      /\ M = Half + Half /\ M \in Nat /\ M > 0
  BY ModulusIsEven
<1>3. Sub(x, W) = (x + M - W) % M /\ Sub(y, W) = (y + M - W) % M
  BY DEF Sub
<1>4. Greater(x, y) <=> IF (x < Half) # (y < Half) THEN Sub(x, W) > Sub(y, W) ELSE x > y
  BY DEF Greater, AcrossHalf
<1>5. a <= b + W /\ b <= a + W
  OBVIOUS
<1> HIDE DEF x, y, M, W
<1>6. ASSUME NEW z \in 0 .. M - 1
      PROVE  (z + M - W) % M = IF z < W THEN z + M - W ELSE z - W
  <2>1. z + M - W \in Nat /\ z + M - W < M + M
    BY <1>2
  <2>2. (z + M - W) % M = IF z + M - W < M THEN z + M - W ELSE z + M - W - M
    BY <1>2, <2>1, SmallModulo
  <2> QED
    BY <1>2, <2>2
<1>7. /\ Sub(x, W) = IF x < W THEN x + M - W ELSE x - W
      /\ Sub(y, W) = IF y < W THEN y + M - W ELSE y - W
  BY <1>1, <1>3, <1>6
<1>8. Greater(x, y) <=> a > b
  BY <1>1, <1>2, <1>4, <1>5, <1>7
<1> QED
  BY <1>8 DEF x, y

(* What RunLength finds, when the run is known to end.                     *)
LEMMA RunEnds ==
  ASSUME NEW set, NEW n \in Nat, NEW m \in 0 .. Modulus, Cyclic(n + m) \notin set
  PROVE  /\ RunLength(set, n) \in 0 .. m
         /\ Cyclic(n + RunLength(set, n)) \notin set
         /\ \A j \in 0 .. RunLength(set, n) - 1 : Cyclic(n + j) \in set
<1> DEFINE P(k) == /\ Cyclic(n + k) \notin set
                   /\ \A j \in 0 .. k - 1 : Cyclic(n + j) \in set
           Ends == {k \in 0 .. m : Cyclic(n + k) \notin set}
<1>1. m \in Nat /\ Modulus \in Nat /\ m <= Modulus
  BY ModulusIsEven
<1>2. PICK k \in Ends : \A j \in Ends : k <= j
  <2>1. Ends \subseteq Nat /\ m \in Ends
    BY <1>1
  <2> HIDE DEF Ends
  <2> QED
    BY <2>1, Least
<1>3. k \in 0 .. Modulus /\ P(k)
  BY <1>1, <1>2
<1>4. RunLength(set, n) = CHOOSE i \in 0 .. Modulus : P(i)
  BY DEF RunLength
<1>5. \E i \in 0 .. Modulus : P(i)
  BY <1>3
<1> HIDE DEF P
<1>6. RunLength(set, n) \in 0 .. Modulus /\ P(RunLength(set, n))
  BY <1>4, <1>5
<1>7. RunLength(set, n) <= m
  BY <1>1, <1>6 DEF P
<1> QED
  BY <1>1, <1>6, <1>7 DEF P

-------------------------------------------------------------------------------
(* The receiver has the chunk.                                             *)
Landed(n) == n < rxCtr \/ \E i \in DOMAIN rxQueue : rxQueue[i] = n

(* The counters follow each other, and the window is short.                *)
Counters ==
  /\ txAck <= rxCtr
  /\ rxCtr <= backlog
  /\ txCtr <= txAck + MaxSpan

DataNear ==
  \A n \in data : n < backlog /\ rxCtr <= n + WrapLimit

QueueNear ==
  \A i \in DOMAIN rxQueue :
    i = Cyclic(rxQueue[i]) /\ rxCtr < rxQueue[i] /\ rxQueue[i] < backlog

DataAcksNear == \A n \in dataAcks : Landed(n) /\ txAck <= n + MaxLag

AcksNear ==
  \A i \in acks : \E n \in txAck + 1 .. txCtr - 1 : i = Cyclic(n) /\ Landed(n)

(* A chunk that is acknowledged is not sent again.                         *)
QueuedIsUnknown ==
  \A n \in txQueue : txAck <= n /\ Cyclic(n) \notin acks

WriterKnows ==
  /\ writer.at = "waiting" => writer.done <= txCtr /\ txCtr <= writer.done + MaxSpan
  /\ writer.at = "returned" => writer.done <= txAck
  /\ use = "file" /\ writer.at \in {"waiting", "returned"} => txCtr = writer.done

ChannelInv ==
  /\ TypeOK
  /\ InOrderExactlyOnce
  /\ Counters
  /\ DataNear
  /\ QueueNear
  /\ DataAcksNear
  /\ AcksNear
  /\ QueuedIsUnknown
  /\ WriterKnows

LEMMA Numbers ==
  ASSUME TypeOK
  PROVE  /\ txCtr \in Nat /\ txAck \in Nat /\ backlog \in Nat /\ rxCtr \in Nat
         /\ txCtr <= MaxChunks /\ txAck <= txCtr /\ backlog <= txCtr
         /\ MaxSpan \in Nat /\ MaxSpan <= WrapLimit
         /\ MaxLag \in Nat /\ MaxLag <= WrapLimit
         /\ WrapLimit \in Nat /\ 2 * WrapLimit < Modulus /\ WrapLimit < Modulus
         /\ Modulus \in Nat /\ MaxChunks \in Nat
         /\ data \subseteq Nat /\ dataAcks \subseteq Nat /\ txQueue \subseteq Nat
<1>1. /\ txCtr \in 0 .. MaxChunks /\ txAck \in 0 .. txCtr /\ backlog \in 0 .. txCtr
      /\ delivered \in Seq(Chunks)
      /\ txQueue \subseteq 0 .. backlog - 1 /\ data \subseteq Chunks /\ dataAcks \subseteq Chunks
  BY DEF TypeOK
<1>2. MaxChunks \in Nat
  BY ChunksAssumption
<1>3. txCtr \in Nat /\ txAck \in Nat /\ backlog \in Nat
  BY <1>1, <1>2
<1>4. rxCtr \in Nat
  BY <1>1 DEF rxCtr
<1>5. data \subseteq Nat /\ dataAcks \subseteq Nat /\ txQueue \subseteq Nat
  BY <1>1, <1>2, <1>3 DEF Chunks
<1> QED
  BY <1>1, <1>2, <1>3, <1>4, <1>5, SpanAssumption, LagAssumption, ModulusIsEven

(* What the receiver has was sent.                                         *)
LEMMA LandedWasSent ==
  ASSUME TypeOK, Counters, QueueNear, NEW n \in Nat, Landed(n)
  PROVE  n < backlog
BY Numbers DEF Counters, QueueNear, Landed

-------------------------------------------------------------------------------
(* The callers: new chunks, and what a writer concludes from txAck.        *)
LEMMA WriterStep ==
  ASSUME ChannelInv,
         \/ \E k \in 1 .. MaxSpan : WriteBlocking(k) \/ WriteNonBlocking(k)
         \/ WriteReturns \/ WriteCancelled \/ WriterGoesOn
  PROVE  ChannelInv'
<1> USE DEF netVars, rxVars
<1>1. /\ TypeOK /\ Counters /\ WriterKnows
  BY DEF ChannelInv
<1>2. /\ UNCHANGED <<use, txAck, backlog, txQueue, acks, data, dataAcks, rxQueue, delivered>>
      /\ txCtr' \in Nat /\ txCtr <= txCtr' /\ txCtr' <= MaxChunks
      /\ txCtr' <= txAck + MaxSpan
  <2>1. CASE \E k \in 1 .. MaxSpan : WriteBlocking(k) \/ WriteNonBlocking(k)
    BY <1>1, <2>1, Numbers DEF WriteBlocking, WriteNonBlocking, Enqueue
  <2>2. CASE WriteReturns \/ WriteCancelled \/ WriterGoesOn
    BY <1>1, <2>2, Numbers DEF WriteReturns, WriteCancelled, WriterGoesOn, Counters
  <2> QED
    BY <2>1, <2>2
<1>3. /\ writer' \in [at : {"idle", "waiting", "returned"}, done : 0 .. MaxChunks]
      /\ WriterKnows'
  <2>0. writer \in [at : {"idle", "waiting", "returned"}, done : 0 .. MaxChunks]
    BY <1>1 DEF TypeOK
  <2>1. ASSUME NEW k \in 1 .. MaxSpan, WriteBlocking(k)
        PROVE  /\ writer' \in [at : {"idle", "waiting", "returned"}, done : 0 .. MaxChunks]
               /\ WriterKnows'
    <3>1. writer' = [at |-> "waiting", done |-> txCtr'] /\ txCtr' \in 0 .. MaxChunks
      BY <1>2, <2>1 DEF WriteBlocking, Enqueue
    <3> QED
      BY <1>1, <1>2, <3>1, Numbers DEF WriterKnows
  <2>2. ASSUME NEW k \in 1 .. MaxSpan, WriteNonBlocking(k)
        PROVE  WriterKnows' /\ UNCHANGED writer
    <3>1. /\ UNCHANGED writer /\ use = "commands" /\ txCtr' = txCtr + k
          /\ writer.at = "waiting" => txCtr + k <= writer.done + MaxSpan
      BY <2>2 DEF WriteNonBlocking, Enqueue
    <3>2. writer.done \in Nat
      BY <2>0, Numbers, <1>1
    <3> QED
      BY <1>1, <1>2, <3>1, <3>2, Numbers DEF WriterKnows
  <2>3. CASE WriteReturns
    <3>1. /\ writer.at = "waiting"
          /\ IsAfterOrEqual(Cyclic(writer.done), Cyclic(txAck))
          /\ writer' = [writer EXCEPT !.at = "returned"] /\ UNCHANGED txCtr
      BY <2>3 DEF WriteReturns
    <3>2. writer.done \in Nat /\ writer.done <= txCtr /\ txCtr <= writer.done + MaxSpan
      BY <1>1, <2>0, <3>1, Numbers DEF WriterKnows
    <3>3. writer.done <= txAck + WrapLimit /\ txAck <= writer.done + WrapLimit
      BY <1>1, <3>2, Numbers DEF Counters
    <3>4. writer.done <= txAck
      BY <1>1, <3>1, <3>2, <3>3, Numbers, AfterIsOrder
    <3>5. /\ writer' \in [at : {"idle", "waiting", "returned"}, done : 0 .. MaxChunks]
          /\ writer'.at = "returned" /\ writer'.done = writer.done
      BY <2>0, <3>1
    <3> QED
      BY <1>1, <1>2, <3>1, <3>4, <3>5 DEF WriterKnows
  <2>4. CASE WriteCancelled \/ WriterGoesOn
    <3>1. writer' = NoWriter
      BY <2>4 DEF WriteCancelled, WriterGoesOn
    <3> QED
      BY <1>1, <3>1, Numbers DEF NoWriter, WriterKnows
  <2> QED
    BY <2>0, <2>1, <2>2, <2>3, <2>4
<1>4. TypeOK'
  <2>1. txCtr' \in 0 .. MaxChunks /\ txAck' \in 0 .. txCtr' /\ backlog' \in 0 .. txCtr'
    BY <1>1, <1>2, Numbers
  <2> QED
    BY <1>1, <1>2, <1>3, <2>1 DEF TypeOK, Chunks
<1>5. AcksNear'
  <2>1. txAck + 1 .. txCtr - 1 \subseteq txAck' + 1 .. txCtr' - 1
    BY <1>1, <1>2, Numbers
  <2> QED
    BY <1>2, <2>1 DEF ChannelInv, AcksNear, Landed, rxCtr
<1>6. /\ InOrderExactlyOnce' /\ Counters' /\ DataNear' /\ QueueNear' /\ DataAcksNear'
      /\ QueuedIsUnknown'
  BY <1>2 DEF ChannelInv, InOrderExactlyOnce, Counters, DataNear, QueueNear, DataAcksNear,
              QueuedIsUnknown, Landed, rxCtr
<1> QED
  BY <1>3, <1>4, <1>5, <1>6 DEF ChannelInv

(* Upload resets the channel after a write that returned: everything is    *)
(* acknowledged, and there is nothing to forget.                           *)
LEMMA ResetStep ==
  ASSUME ChannelInv, ResetTx
  PROVE  ChannelInv'
<1> USE DEF netVars, rxVars
<1>1. TypeOK /\ WriterKnows /\ Counters
  BY DEF ChannelInv
<1>2. /\ UNCHANGED <<use, txCtr, data, dataAcks, rxQueue, delivered>>
      /\ txQueue' = {} /\ acks' = {} /\ backlog' = txCtr /\ txAck' = txCtr
      /\ writer' = NoWriter
  BY DEF ResetTx
<1>3. txAck = txCtr
  BY <1>1, Numbers DEF ResetTx, WriterKnows
<1>4. TypeOK'
  <2>1. Cardinality({}) = 0 /\ 0 <= MaxInFlight
    BY FS_EmptySet, InFlightAssumption
  <2>2. writer' \in [at : {"idle", "waiting", "returned"}, done : 0 .. MaxChunks]
    BY <1>1, <1>2, Numbers DEF NoWriter
  <2>3. txAck' \in 0 .. txCtr' /\ backlog' \in 0 .. txCtr'
    BY <1>1, <1>2, Numbers
  <2> QED
    BY <1>1, <1>2, <2>1, <2>2, <2>3 DEF TypeOK, Chunks
<1>5. Counters'
  BY <1>1, <1>2, <1>3, Numbers DEF Counters, rxCtr
<1>6. DataNear' /\ QueueNear' /\ DataAcksNear'
  <2>1. backlog <= backlog' /\ backlog \in Nat /\ backlog' \in Nat /\ txAck' = txAck
    BY <1>1, <1>2, <1>3, Numbers
  <2>2. DataNear'
    <3>1. \A n \in data : n \in Nat /\ n < backlog /\ rxCtr <= n + WrapLimit
      BY <1>1, Numbers DEF ChannelInv, DataNear
    <3> QED
      BY <1>2, <2>1, <3>1 DEF DataNear, rxCtr
  <2>3. QueueNear'
    <3>1. \A i \in DOMAIN rxQueue : rxQueue[i] \in Nat
      BY <1>1, Numbers DEF TypeOK, Chunks
    <3> QED
      BY <1>2, <2>1, <3>1 DEF ChannelInv, QueueNear, rxCtr
  <2> QED
    BY <1>2, <2>1, <2>2, <2>3 DEF ChannelInv, DataAcksNear, Landed, rxCtr
<1>7. InOrderExactlyOnce' /\ AcksNear' /\ QueuedIsUnknown' /\ WriterKnows'
  BY <1>2 DEF ChannelInv, InOrderExactlyOnce, AcksNear, QueuedIsUnknown, WriterKnows,
              NoWriter, rxCtr
<1> QED
  BY <1>4, <1>5, <1>6, <1>7 DEF ChannelInv
-------------------------------------------------------------------------------
(* The network loses a packet or an acknowledgement.                       *)
LEMMA LossStep ==
  ASSUME ChannelInv, NEW n \in Chunks, LoseDrw(n) \/ LoseAck(n)
  PROVE  ChannelInv'
<1>1. /\ UNCHANGED <<use, txCtr, txAck, backlog, txQueue, acks, writer, rxQueue, delivered>>
      /\ data' \subseteq data /\ dataAcks' \subseteq dataAcks
  BY DEF LoseDrw, LoseAck, txVars, rxVars
<1>2. TypeOK'
  BY <1>1 DEF ChannelInv, TypeOK, Chunks
<1>3. InOrderExactlyOnce' /\ Counters' /\ QueueNear' /\ AcksNear' /\ QueuedIsUnknown' /\ WriterKnows'
  BY <1>1 DEF ChannelInv, InOrderExactlyOnce, Counters, QueueNear, AcksNear, QueuedIsUnknown,
              WriterKnows, Landed, rxCtr
<1>4. DataNear' /\ DataAcksNear'
  BY <1>1 DEF ChannelInv, DataNear, DataAcksNear, Landed, rxCtr
<1> QED
  BY <1>2, <1>3, <1>4 DEF ChannelInv

-------------------------------------------------------------------------------
(* The chunks Poll moves are not acknowledged: nobody has seen them.       *)
LEMMA BacklogIsUnknown ==
  ASSUME ChannelInv, NEW n \in Nat, backlog <= n, n < txCtr
  PROVE  Cyclic(n) \notin acks
<1>1. TypeOK /\ Counters /\ QueueNear
  BY DEF ChannelInv
<1>2. SUFFICES ASSUME Cyclic(n) \in acks PROVE FALSE
  OBVIOUS
<1>3. PICK m \in txAck + 1 .. txCtr - 1 : Cyclic(n) = Cyclic(m) /\ Landed(m)
  BY <1>2 DEF ChannelInv, AcksNear
<1>4. m \in Nat /\ m < backlog /\ txAck < m
  BY <1>1, <1>3, Numbers, LandedWasSent
<1>5. n < m + Modulus /\ m < n + Modulus
  BY <1>1, <1>4, Numbers DEF Counters
<1>6. n = m
  BY <1>3, <1>4, <1>5, CyclicInjective
<1> QED
  BY <1>1, <1>4, <1>6, Numbers

(* The window is never exceeded.                                           *)
LEMMA WindowKept ==
  ASSUME NEW b \in Nat, NEW Q, Q \subseteq 0 .. b - 1, Cardinality(Q) <= MaxInFlight,
         NEW c \in Nat, c <= MaxInFlight - Cardinality(Q)
  PROVE  Cardinality(Q \union (b .. b + c - 1)) <= MaxInFlight
<1>1. MaxInFlight \in Nat
  BY InFlightAssumption
<1>2. IsFiniteSet(Q) /\ Cardinality(Q) \in Nat
  <2>1. IsFiniteSet(0 .. b - 1)
    BY FS_Interval
  <2> QED
    BY <2>1, FS_Subset, FS_CardinalityType
<1>3. IsFiniteSet(b .. b + c - 1) /\ Cardinality(b .. b + c - 1) = c
  <2>1. IsFiniteSet(b .. b + c - 1)
    BY FS_Interval
  <2>2. Cardinality(b .. b + c - 1) = IF b > b + c - 1 THEN 0 ELSE b + c - 1 - b + 1
    BY FS_Interval
  <2> QED
    BY <2>1, <2>2
<1>4. Q \intersect (b .. b + c - 1) = {}
  OBVIOUS
<1>5. Cardinality(Q \union (b .. b + c - 1)) = Cardinality(Q) + c
  <2>1. Cardinality({}) = 0
    BY FS_EmptySet
  <2>2. Cardinality(Q \union (b .. b + c - 1)) = Cardinality(Q) + Cardinality(b .. b + c - 1) - Cardinality(Q \intersect (b .. b + c - 1))
    BY <1>2, <1>3, FS_Union
  <2> QED
    BY <1>2, <1>3, <1>4, <2>1, <2>2
<1> QED
  BY <1>1, <1>2, <1>5

(* Poll moves chunks of the backlog into the window and sends one of it.   *)
LEMMA PollStep ==
  ASSUME ChannelInv, NEW n \in Chunks, Poll(n)
  PROVE  ChannelInv'
<1> DEFINE room  == MaxInFlight - Cardinality(txQueue)
           taken == IF txCtr - backlog < room THEN txCtr - backlog ELSE room
<1>1. TypeOK /\ Counters
  BY DEF ChannelInv
<1>2. /\ UNCHANGED <<use, txCtr, txAck, acks, writer, dataAcks, rxQueue, delivered>>
      /\ backlog' = backlog + taken
      /\ txQueue' = txQueue \union (backlog .. backlog + taken - 1)
      /\ n \in txQueue'
      /\ data' = data \union {n}
  BY DEF Poll, rxVars
<1>3. /\ txQueue \subseteq 0 .. backlog - 1 /\ Cardinality(txQueue) <= MaxInFlight
      /\ Cardinality(txQueue) \in Nat /\ MaxInFlight \in Nat
  <2>1. txQueue \subseteq 0 .. backlog - 1 /\ Cardinality(txQueue) <= MaxInFlight
    BY <1>1 DEF TypeOK
  <2>2. backlog \in Nat
    BY <1>1, Numbers
  <2>3. IsFiniteSet(0 .. backlog - 1)
    BY <2>2, FS_Interval
  <2> QED
    BY <2>1, <2>3, FS_Subset, FS_CardinalityType, InFlightAssumption
<1>4. /\ taken \in Nat /\ taken <= room /\ backlog + taken <= txCtr
  BY <1>1, <1>3, Numbers
<1> HIDE DEF taken
<1>5. /\ backlog' \in Nat /\ backlog <= backlog' /\ backlog' <= txCtr
  BY <1>1, <1>2, <1>4, Numbers
<1>6. TypeOK'
  <2>1. Cardinality(txQueue') <= MaxInFlight
    BY <1>1, <1>2, <1>3, <1>4, Numbers, WindowKept
  <2>2. txQueue' \subseteq 0 .. backlog' - 1
    <3>1. backlog \in Nat /\ backlog' = backlog + taken
      BY <1>1, <1>2, Numbers
    <3>2. txQueue \subseteq 0 .. backlog' - 1
      BY <1>3, <1>4, <3>1
    <3>3. backlog .. backlog + taken - 1 \subseteq 0 .. backlog' - 1
      BY <1>4, <3>1
    <3> QED
      BY <1>2, <3>2, <3>3
  <2>3. backlog' \in 0 .. txCtr' /\ data' \subseteq Chunks
    BY <1>1, <1>2, <1>5, Numbers DEF TypeOK
  <2> QED
    BY <1>1, <1>2, <2>1, <2>2, <2>3 DEF TypeOK, Chunks
<1>7. QueuedIsUnknown'
  <2>1. SUFFICES ASSUME NEW m \in txQueue' PROVE txAck <= m /\ Cyclic(m) \notin acks
    BY <1>2 DEF QueuedIsUnknown
  <2>2. CASE m \in txQueue
    BY <2>2 DEF ChannelInv, QueuedIsUnknown
  <2>3. CASE m \in backlog .. backlog + taken - 1
    <3>1. m \in Nat /\ backlog <= m /\ m < txCtr
      BY <1>1, <1>4, <2>3, Numbers
    <3> QED
      BY <1>1, <3>1, BacklogIsUnknown, Numbers DEF Counters
  <2> QED
    BY <1>2, <2>1, <2>2, <2>3
<1>8. DataNear'
  <2>1. txAck <= n /\ n \in Nat /\ n < backlog'
    <3>1. n \in txQueue' /\ txAck' = txAck
      BY <1>2
    <3>2. n \in 0 .. backlog' - 1
      BY <1>2, <1>6 DEF TypeOK
    <3>3. txAck <= n
      BY <1>7, <3>1 DEF QueuedIsUnknown
    <3>4. backlog' \in Nat
      BY <1>5
    <3>5. \A b \in Nat : \A m \in 0 .. b - 1 : m \in Nat /\ m < b
      OBVIOUS
    <3>6. n \in Nat /\ n < backlog'
      BY <3>2, <3>4, <3>5
    <3> QED
      BY <3>3, <3>6
  <2>2. rxCtr <= n + WrapLimit
    BY <1>1, <2>1, Numbers DEF Counters
  <2>3. ASSUME NEW m \in data PROVE m < backlog' /\ rxCtr <= m + WrapLimit
    <3>1. m \in Nat /\ m < backlog /\ rxCtr <= m + WrapLimit
      BY <1>1, Numbers DEF ChannelInv, DataNear
    <3> QED
      BY <1>1, <1>5, <3>1, Numbers
  <2> QED
    BY <1>2, <2>1, <2>2, <2>3 DEF DataNear, rxCtr
<1>9. QueueNear'
  <2>1. \A i \in DOMAIN rxQueue : rxQueue[i] \in Nat
    BY <1>1, Numbers DEF TypeOK, Chunks
  <2>2. backlog \in Nat
    BY <1>1, Numbers
  <2> QED
    BY <1>2, <1>5, <2>1, <2>2 DEF ChannelInv, QueueNear, rxCtr
<1>10. Counters'
  BY <1>1, <1>2, <1>5, Numbers DEF Counters, rxCtr
<1>11. InOrderExactlyOnce' /\ DataAcksNear' /\ AcksNear' /\ WriterKnows'
  BY <1>2 DEF ChannelInv, InOrderExactlyOnce, DataAcksNear, AcksNear, WriterKnows, Landed, rxCtr
<1> QED
  BY <1>6, <1>7, <1>8, <1>9, <1>10, <1>11 DEF ChannelInv
-------------------------------------------------------------------------------
(* An acknowledgement moves txAck over the run of acknowledged chunks that *)
(* starts there, and every chunk of the run has landed.                    *)
LEMMA AckStep ==
  ASSUME ChannelInv, NEW m \in Chunks, DeliverAck(m)
  PROVE  ChannelInv'
<1> DEFINE known == IF IsAfterOrEqual(Cyclic(txAck), Cyclic(m))
                    THEN acks \union {Cyclic(m)} ELSE acks
           k == RunLength(known, txAck)
           drained == {Cyclic(txAck + j) : j \in 0 .. k - 1}
<1>1. TypeOK /\ Counters /\ QueueNear /\ WriterKnows
  BY DEF ChannelInv
<1>2. /\ UNCHANGED <<use, txCtr, backlog, writer, data, rxQueue, delivered>>
      /\ txQueue' = {n \in txQueue : Cyclic(n) # Cyclic(m)}
      /\ txAck' = txAck + k
      /\ acks' = known \ drained
      /\ m \in dataAcks /\ dataAcks' = Recent(dataAcks, txAck')
  BY DEF DeliverAck, RXAck, rxVars
<1>3. m \in Nat /\ m < backlog /\ Landed(m) /\ txAck <= m + MaxLag
  <2>1. m \in Nat /\ Landed(m) /\ txAck <= m + MaxLag
    BY <1>1, <1>2, Numbers DEF ChannelInv, DataAcksNear
  <2> QED
    BY <1>1, <2>1, LandedWasSent
<1>4. IsAfterOrEqual(Cyclic(txAck), Cyclic(m)) <=> txAck <= m
  <2>1. txAck <= m + WrapLimit /\ m <= txAck + WrapLimit /\ txAck \in Nat
    BY <1>1, <1>3, Numbers DEF Counters
  <2> QED
    BY <1>3, <2>1, AfterIsOrder
<1>5. ASSUME NEW i \in known
      PROVE  \E n \in txAck .. txCtr - 1 : i = Cyclic(n) /\ Landed(n)
  <2>1. CASE i \in acks
    <3>1. PICK n \in txAck + 1 .. txCtr - 1 : i = Cyclic(n) /\ Landed(n)
      BY <2>1 DEF ChannelInv, AcksNear
    <3>2. n \in txAck .. txCtr - 1
      BY <1>1, <3>1, Numbers
    <3> QED
      BY <3>1, <3>2
  <2>2. CASE i = Cyclic(m) /\ txAck <= m
    <3>1. m \in txAck .. txCtr - 1
      BY <1>1, <1>3, <2>2, Numbers
    <3> QED
      BY <1>3, <2>2, <3>1
  <2> QED
    BY <1>4, <1>5, <2>1, <2>2
<1> HIDE DEF known
<1>6. ASSUME NEW n \in txAck .. txCtr, Cyclic(n) \in known
      PROVE  n < txCtr /\ Landed(n)
  <2>1. PICK j \in txAck .. txCtr - 1 : Cyclic(n) = Cyclic(j) /\ Landed(j)
    BY <1>5, <1>6
  <2>2. n \in Nat /\ j \in Nat /\ n < j + Modulus /\ j < n + Modulus /\ j < txCtr
    BY <1>1, <1>6, <2>1, Numbers DEF Counters
  <2>3. n = j
    BY <2>1, <2>2, CyclicInjective
  <2> QED
    BY <2>1, <2>2, <2>3
<1>7. /\ k \in Nat /\ txAck + k <= txCtr
      /\ Cyclic(txAck + k) \notin known
      /\ \A j \in 0 .. k - 1 : Cyclic(txAck + j) \in known
  <2> DEFINE w == txCtr - txAck
  <2>1. w \in 0 .. Modulus /\ txAck + w = txCtr /\ w \in Nat
    BY <1>1, Numbers DEF Counters
  <2>2. txCtr \in txAck .. txCtr /\ ~ (txCtr < txCtr)
    BY <1>1, Numbers
  <2>3. Cyclic(txCtr) \notin known
    BY <1>6, <2>2
  <2>4. Cyclic(txAck + w) \notin known
    BY <2>1, <2>3
  <2> HIDE DEF w
  <2>5. txAck \in Nat
    BY <1>1, Numbers
  <2>6. /\ k \in 0 .. w /\ Cyclic(txAck + k) \notin known
        /\ \A j \in 0 .. k - 1 : Cyclic(txAck + j) \in known
    BY <2>1, <2>4, <2>5, RunEnds
  <2>7. k \in Nat /\ k <= w
    BY <2>1, <2>6
  <2>8. txAck + k <= txCtr
    BY <1>1, <2>1, <2>7, Numbers
  <2> QED
    BY <2>6, <2>7, <2>8
<1> HIDE DEF k
<1>8. /\ txAck' \in Nat /\ txAck <= txAck' /\ txAck' <= txCtr
  BY <1>1, <1>2, <1>7, Numbers
<1>9. txAck' <= rxCtr
  <2>1. SUFFICES ASSUME rxCtr < txAck + k PROVE FALSE
    BY <1>1, <1>2, <1>8, Numbers
  <2>2. rxCtr - txAck \in 0 .. k - 1 /\ txAck + (rxCtr - txAck) = rxCtr /\ rxCtr \in txAck .. txCtr
    BY <1>1, <1>7, <2>1, Numbers DEF Counters
  <2>3. Cyclic(rxCtr) \in known
    BY <1>7, <2>2
  <2>4. Landed(rxCtr)
    BY <1>6, <2>2, <2>3
  <2>5. rxCtr \in Nat
    BY <1>1, Numbers
  <2> QED
    BY <1>1, <2>4, <2>5 DEF Landed, QueueNear
<1>10. AcksNear'
  <2>1. SUFFICES ASSUME NEW i \in acks'
                 PROVE  \E n \in txAck' + 1 .. txCtr - 1 : i = Cyclic(n) /\ Landed(n)
    BY <1>2 DEF AcksNear, Landed, rxCtr
  <2>2. i \in known /\ i \notin drained
    BY <1>2, <2>1
  <2>3. PICK n \in txAck .. txCtr - 1 : i = Cyclic(n) /\ Landed(n)
    BY <1>5, <2>2
  <2>4. n \in Nat /\ txAck <= n /\ n <= txCtr - 1
    BY <1>1, Numbers
  <2>5. n # txAck + k
    BY <1>7, <2>2, <2>3
  <2>6. ~ (n < txAck + k)
    <3>1. SUFFICES ASSUME n < txAck + k PROVE FALSE
      OBVIOUS
    <3>2. n - txAck \in 0 .. k - 1 /\ txAck + (n - txAck) = n
      BY <1>1, <1>7, <2>4, <3>1, Numbers
    <3> QED
      BY <2>2, <2>3, <3>2
  <2>7. n \in txAck' + 1 .. txCtr - 1
    BY <1>1, <1>2, <1>7, <2>4, <2>5, <2>6, Numbers
  <2> QED
    BY <2>3, <2>7
<1>11. QueuedIsUnknown'
  <2>1. SUFFICES ASSUME NEW n \in txQueue' PROVE txAck' <= n /\ Cyclic(n) \notin acks'
    BY DEF QueuedIsUnknown
  <2>2. n \in txQueue /\ Cyclic(n) # Cyclic(m)
    BY <1>2
  <2>3. n \in Nat /\ txAck <= n /\ Cyclic(n) \notin acks
    BY <1>1, <2>2, Numbers DEF ChannelInv, QueuedIsUnknown
  <2>4. Cyclic(n) \notin known
    BY <2>2, <2>3 DEF known
  <2>5. ~ (n < txAck + k)
    <3>1. SUFFICES ASSUME n < txAck + k PROVE FALSE
      OBVIOUS
    <3>2. n - txAck \in 0 .. k - 1 /\ txAck + (n - txAck) = n
      BY <1>1, <1>7, <2>3, <3>1, Numbers
    <3> QED
      BY <1>7, <2>4, <3>2
  <2>6. txAck' <= n
    BY <1>1, <1>2, <1>7, <2>3, <2>5, Numbers
  <2> QED
    BY <1>2, <2>4, <2>6
<1>12. TypeOK'
  <2>1. /\ txQueue' \subseteq 0 .. backlog - 1 /\ Cardinality(txQueue') <= MaxInFlight
    <3>1. /\ txQueue \subseteq 0 .. backlog - 1 /\ Cardinality(txQueue) <= MaxInFlight
          /\ txQueue' \subseteq txQueue /\ backlog \in Nat /\ MaxInFlight \in Nat
      BY <1>1, <1>2, Numbers, InFlightAssumption DEF TypeOK
    <3>2. IsFiniteSet(txQueue)
      <4>1. IsFiniteSet(0 .. backlog - 1)
        BY <3>1, FS_Interval
      <4> QED
        BY <3>1, <4>1, FS_Subset
    <3>3. Cardinality(txQueue') <= Cardinality(txQueue) /\ IsFiniteSet(txQueue')
      BY <3>1, <3>2, FS_Subset
    <3>4. Cardinality(txQueue) \in Nat /\ Cardinality(txQueue') \in Nat
      BY <3>2, <3>3, FS_CardinalityType
    <3> QED
      BY <3>1, <3>3, <3>4
  <2>2. acks' \subseteq Index
    <3>1. acks \subseteq Index /\ Cyclic(m) \in Index
      BY <1>1, <1>3, ModulusIsEven DEF TypeOK, Cyclic, Index
    <3> QED
      BY <1>2, <3>1 DEF known
  <2>3. txAck' \in 0 .. txCtr' /\ backlog' \in 0 .. txCtr'
    BY <1>1, <1>2, <1>8, Numbers
  <2>4. dataAcks' \subseteq Chunks
    BY <1>1, <1>2 DEF TypeOK, Recent
  <2> QED
    BY <1>1, <1>2, <2>1, <2>2, <2>3, <2>4 DEF TypeOK, Chunks
<1>13. DataAcksNear'
  BY <1>2 DEF ChannelInv, DataAcksNear, Recent, Landed, rxCtr
<1>14. Counters'
  BY <1>1, <1>2, <1>8, <1>9, Numbers DEF Counters, rxCtr
<1>15. WriterKnows'
  <2>1. writer.done \in Nat
    BY <1>1, Numbers DEF TypeOK
  <2> QED
    BY <1>1, <1>2, <1>8, <2>1, Numbers DEF WriterKnows
<1>16. InOrderExactlyOnce' /\ DataNear' /\ QueueNear'
  BY <1>2 DEF ChannelInv, InOrderExactlyOnce, DataNear, QueueNear, rxCtr
<1> QED
  BY <1>9, <1>10, <1>11, <1>12, <1>13, <1>14, <1>15, <1>16 DEF ChannelInv
-------------------------------------------------------------------------------
(* A packet is put in its place, and the run of chunks that starts at      *)
(* rxCtr is handed on: these are the next chunks of the stream.            *)
LEMMA DrwLands ==
  ASSUME ChannelInv, NEW n \in data, RXDrw(Cyclic(n), n)
  PROVE  /\ delivered' \in Seq(Chunks) /\ InOrderExactlyOnce'
         /\ rxCtr' \in Nat /\ rxCtr <= rxCtr' /\ rxCtr' <= backlog
         /\ DOMAIN rxQueue' \subseteq Index
         /\ \A i \in DOMAIN rxQueue' : /\ rxQueue'[i] \in Chunks
                                       /\ i = Cyclic(rxQueue'[i])
                                       /\ rxCtr' < rxQueue'[i] /\ rxQueue'[i] < backlog
         /\ \A c \in Nat : Landed(c) => Landed(c)'
         /\ Landed(n)'
<1>1. TypeOK /\ Counters /\ QueueNear /\ InOrderExactlyOnce
  BY DEF ChannelInv
<1>2. /\ n \in Nat /\ n \in Chunks /\ n < backlog
      /\ rxCtr <= n + WrapLimit /\ n <= rxCtr + WrapLimit
  <2>1. n \in Nat /\ n \in Chunks /\ n < backlog /\ rxCtr <= n + WrapLimit
    BY <1>1, Numbers DEF ChannelInv, DataNear, TypeOK
  <2> QED
    BY <1>1, <2>1, Numbers DEF Counters
<1>3. Greater(Cyclic(rxCtr), Cyclic(n)) <=> rxCtr > n
  BY <1>1, <1>2, Numbers, GreaterIsOrder
<1>4. ASSUME NEW i \in DOMAIN rxQueue
      PROVE  /\ rxQueue[i] \in Chunks /\ rxQueue[i] \in Nat /\ i = Cyclic(rxQueue[i])
             /\ rxCtr < rxQueue[i] /\ rxQueue[i] < backlog
  BY <1>1, Numbers DEF TypeOK, QueueNear, Chunks
<1>5. CASE rxCtr > n
  <2>1. UNCHANGED <<rxQueue, delivered>>
    BY <1>3, <1>5 DEF RXDrw, rxVars
  <2>2. DOMAIN rxQueue \subseteq Index /\ delivered \in Seq(Chunks)
    BY <1>1 DEF TypeOK
  <2>3. rxCtr' = rxCtr /\ InOrderExactlyOnce' /\ (\A c : Landed(c)' <=> Landed(c))
    BY <1>1, <2>1 DEF rxCtr, InOrderExactlyOnce, Landed
  <2>4. Landed(n)
    BY <1>5 DEF Landed
  <2>5. rxCtr \in Nat /\ rxCtr <= backlog /\ rxCtr <= rxCtr
    BY <1>1, Numbers DEF Counters
  <2> QED
    BY <1>4, <2>1, <2>2, <2>3, <2>4, <2>5
<1>6. CASE ~ (rxCtr > n)
  <2> DEFINE index == Cyclic(n)
             queue == IF index \in DOMAIN rxQueue THEN rxQueue
                      ELSE [i \in DOMAIN rxQueue \union {index} |->
                              IF i = index THEN n ELSE rxQueue[i]]
             k     == RunLength(DOMAIN queue, rxCtr)
             run   == [j \in 1..k |-> queue[Cyclic(rxCtr + j - 1)]]
             drained == {Cyclic(rxCtr + j) : j \in 0 .. k - 1}
  <2>1. /\ delivered' = delivered \o run
        /\ rxQueue' = [i \in DOMAIN queue \ drained |-> queue[i]]
    BY <1>3, <1>6 DEF RXDrw
  <2>2. rxCtr \in Nat /\ backlog \in Nat /\ rxCtr <= n
    BY <1>1, <1>2, <1>6, Numbers
  <2>3. /\ index \in DOMAIN queue /\ queue[index] = n
        /\ \A i \in DOMAIN rxQueue : i \in DOMAIN queue /\ queue[i] = rxQueue[i]
        /\ \A i \in DOMAIN queue : i \in DOMAIN rxQueue \/ i = index
    <3>1. CASE index \in DOMAIN rxQueue
      <4>1. /\ rxQueue[index] \in Nat /\ Cyclic(rxQueue[index]) = Cyclic(n)
            /\ rxCtr < rxQueue[index] /\ rxQueue[index] < backlog
        BY <1>4, <3>1
      <4>2. backlog <= rxCtr + WrapLimit /\ WrapLimit < Modulus /\ Modulus \in Nat /\ WrapLimit \in Nat
        BY <1>1, Numbers DEF Counters
      <4>3. rxQueue[index] < n + Modulus /\ n < rxQueue[index] + Modulus
        BY <1>2, <2>2, <4>1, <4>2
      <4>4. rxQueue[index] = n
        BY <1>2, <4>1, <4>3, CyclicInjective
      <4> QED
        BY <3>1, <4>4
    <3>2. CASE index \notin DOMAIN rxQueue
      BY <3>2
    <3> QED
      BY <3>1, <3>2
  <2> HIDE DEF queue
  <2>4. ASSUME NEW i \in DOMAIN queue
        PROVE  /\ queue[i] \in Chunks /\ queue[i] \in Nat /\ i = Cyclic(queue[i])
               /\ rxCtr <= queue[i] /\ queue[i] < backlog
    <3>1. CASE i \in DOMAIN rxQueue
      <4>1. /\ rxQueue[i] \in Chunks /\ rxQueue[i] \in Nat /\ i = Cyclic(rxQueue[i])
            /\ rxCtr < rxQueue[i] /\ rxQueue[i] < backlog /\ queue[i] = rxQueue[i]
        BY <1>4, <2>3, <3>1
      <4> QED
        BY <2>2, <4>1
    <3>2. CASE i = index
      BY <1>2, <2>2, <2>3, <3>2
    <3> QED
      BY <2>3, <3>1, <3>2
  <2> HIDE DEF index
  <2>5. ASSUME NEW c \in rxCtr .. backlog, Cyclic(c) \in DOMAIN queue
        PROVE  queue[Cyclic(c)] = c /\ c < backlog
    <3>1. /\ queue[Cyclic(c)] \in Nat /\ Cyclic(c) = Cyclic(queue[Cyclic(c)])
          /\ rxCtr <= queue[Cyclic(c)] /\ queue[Cyclic(c)] < backlog
      BY <2>4, <2>5
    <3>2. backlog <= rxCtr + WrapLimit /\ WrapLimit < Modulus /\ Modulus \in Nat /\ WrapLimit \in Nat
      BY <1>1, Numbers DEF Counters
    <3>3. c \in Nat /\ queue[Cyclic(c)] < c + Modulus /\ c < queue[Cyclic(c)] + Modulus
      BY <2>2, <3>1, <3>2
    <3>4. queue[Cyclic(c)] = c
      BY <3>1, <3>3, CyclicInjective
    <3> QED
      BY <3>1, <3>4
  <2>6. /\ k \in Nat /\ rxCtr + k <= backlog
        /\ Cyclic(rxCtr + k) \notin DOMAIN queue
        /\ \A j \in 0 .. k - 1 : Cyclic(rxCtr + j) \in DOMAIN queue
    <3> DEFINE w == backlog - rxCtr
    <3>1. w \in 0 .. Modulus /\ rxCtr + w = backlog /\ w \in Nat
      BY <1>1, Numbers DEF Counters
    <3>2. backlog \in rxCtr .. backlog /\ ~ (backlog < backlog)
      BY <2>2, <3>1
    <3>3. Cyclic(backlog) \notin DOMAIN queue
      BY <2>5, <3>2
    <3>4. Cyclic(rxCtr + w) \notin DOMAIN queue
      BY <3>1, <3>3
    <3> HIDE DEF w
    <3>5. /\ k \in 0 .. w /\ Cyclic(rxCtr + k) \notin DOMAIN queue
          /\ \A j \in 0 .. k - 1 : Cyclic(rxCtr + j) \in DOMAIN queue
      BY <2>2, <3>1, <3>4, RunEnds
    <3>6. k \in Nat /\ k <= w
      BY <3>1, <3>5
    <3>7. rxCtr + k <= backlog
      BY <2>2, <3>1, <3>6
    <3> QED
      BY <3>5, <3>6, <3>7
  <2> HIDE DEF k
  <2>7. ASSUME NEW j \in 0 .. k - 1
        PROVE  /\ Cyclic(rxCtr + j) \in DOMAIN queue
               /\ queue[Cyclic(rxCtr + j)] = rxCtr + j
    <3>1. rxCtr + j \in rxCtr .. backlog
      BY <2>2, <2>6
    <3> QED
      BY <2>5, <2>6, <3>1
  <2>8. run \in Seq(Chunks) /\ Len(run) = k /\ \A j \in 1..k : run[j] = rxCtr + j - 1
    <3>1. ASSUME NEW j \in 1..k
          PROVE  run[j] = rxCtr + j - 1 /\ run[j] \in Chunks
      <4>1. j - 1 \in 0 .. k - 1 /\ rxCtr + (j - 1) = rxCtr + j - 1
        BY <2>2, <2>6
      <4>2. queue[Cyclic(rxCtr + j - 1)] = rxCtr + j - 1 /\ Cyclic(rxCtr + j - 1) \in DOMAIN queue
        BY <2>7, <4>1
      <4> QED
        BY <2>4, <4>2
    <3>2. run \in [1..k -> Chunks]
      BY <3>1
    <3> HIDE DEF run
    <3>3. run \in Seq(Chunks) /\ Len(run) = k
      BY <2>6, <3>2
    <3> QED
      BY <3>1, <3>3
  <2> HIDE DEF run
  <2>9. /\ delivered' \in Seq(Chunks) /\ rxCtr' = rxCtr + k
        /\ \A i \in 1 .. rxCtr + k :
             delivered'[i] = IF i <= rxCtr THEN delivered[i] ELSE run[i - rxCtr]
    <3>1. delivered \in Seq(Chunks)
      BY <1>1 DEF TypeOK
    <3> QED
      BY <2>1, <2>8, <3>1, ConcatProperties DEF rxCtr
  <2>10. InOrderExactlyOnce'
    <3>1. ASSUME NEW i \in 1 .. rxCtr + k PROVE delivered'[i] = i - 1
      <4>1. CASE i <= rxCtr
        <5>1. i \in 1 .. rxCtr
          BY <2>2, <4>1
        <5> QED
          BY <1>1, <2>9, <4>1, <5>1 DEF InOrderExactlyOnce
      <4>2. CASE ~ (i <= rxCtr)
        <5>1. i - rxCtr \in 1..k /\ rxCtr + (i - rxCtr) - 1 = i - 1
          BY <2>2, <2>6, <4>2
        <5> QED
          BY <2>8, <2>9, <4>2, <5>1
      <4> QED
        BY <4>1, <4>2
    <3> QED
      BY <2>9, <3>1 DEF InOrderExactlyOnce
  <2>11. rxCtr' \in Nat /\ rxCtr <= rxCtr' /\ rxCtr' <= backlog
    BY <2>2, <2>6, <2>9
  <2>12. /\ DOMAIN rxQueue' = DOMAIN queue \ drained
         /\ \A i \in DOMAIN rxQueue' : rxQueue'[i] = queue[i]
    BY <2>1
  <2>13. DOMAIN rxQueue' \subseteq Index
    <3>1. DOMAIN rxQueue \subseteq Index
      BY <1>1 DEF TypeOK
    <3>2. index \in Index
      BY <1>2, ModulusIsEven DEF index, Cyclic, Index
    <3> QED
      BY <2>3, <2>12, <3>1, <3>2
  <2>14. ASSUME NEW i \in DOMAIN rxQueue'
         PROVE  /\ rxQueue'[i] \in Chunks /\ i = Cyclic(rxQueue'[i])
                /\ rxCtr' < rxQueue'[i] /\ rxQueue'[i] < backlog
    <3>1. i \in DOMAIN queue /\ i \notin drained /\ rxQueue'[i] = queue[i]
      BY <2>12
    <3>2. PICK c \in Nat : /\ c = queue[i] /\ c \in Chunks /\ i = Cyclic(c)
                           /\ rxCtr <= c /\ c < backlog
      BY <2>4, <3>1
    <3>3. c # rxCtr + k
      BY <2>6, <3>1, <3>2
    <3>4. ~ (c < rxCtr + k)
      <4>1. SUFFICES ASSUME c < rxCtr + k PROVE FALSE
        OBVIOUS
      <4>2. c - rxCtr \in 0 .. k - 1 /\ rxCtr + (c - rxCtr) = c
        BY <2>2, <2>6, <3>2, <4>1
      <4> QED
        BY <3>1, <3>2, <4>2
    <3>5. rxCtr' < c
      BY <2>2, <2>6, <2>9, <3>2, <3>3, <3>4
    <3> QED
      BY <3>1, <3>2, <3>5
  <2>15. ASSUME NEW i \in DOMAIN queue, NEW c \in Nat, queue[i] = c
         PROVE  Landed(c)'
    <3>1. CASE i \in drained
      <4>1. PICK j \in 0 .. k - 1 : i = Cyclic(rxCtr + j)
        BY <3>1
      <4>2. c = rxCtr + j /\ c < rxCtr + k
        BY <2>2, <2>6, <2>7, <2>15, <4>1
      <4> QED
        BY <2>9, <4>2 DEF Landed
    <3>2. CASE i \notin drained
      <4>1. i \in DOMAIN rxQueue' /\ rxQueue'[i] = c
        BY <2>12, <2>15, <3>2
      <4> QED
        BY <4>1 DEF Landed
    <3> QED
      BY <3>1, <3>2
  <2>16. \A c \in Nat : Landed(c) => Landed(c)'
    <3>1. SUFFICES ASSUME NEW c \in Nat, Landed(c) PROVE Landed(c)'
      OBVIOUS
    <3>2. CASE c < rxCtr
      BY <2>2, <2>11, <3>2 DEF Landed
    <3>3. CASE \E i \in DOMAIN rxQueue : rxQueue[i] = c
      BY <2>3, <2>15, <3>3
    <3> QED
      BY <3>1, <3>2, <3>3 DEF Landed
  <2>17. Landed(n)'
    BY <1>2, <2>3, <2>15
  <2> QED
    BY <2>9, <2>10, <2>11, <2>13, <2>14, <2>16, <2>17
<1> QED
  BY <1>5, <1>6

LEMMA DrwStep ==
  ASSUME ChannelInv, NEW n \in Chunks, DeliverDrw(n)
  PROVE  ChannelInv'
<1>1. TypeOK /\ Counters
  BY DEF ChannelInv
<1>2. /\ UNCHANGED <<use, txCtr, txAck, backlog, txQueue, acks, writer>>
      /\ n \in data /\ RXDrw(Cyclic(n), n)
      /\ data' = Recent(data, rxCtr')
      /\ dataAcks' = Recent(dataAcks \union {n}, txAck)
  BY DEF DeliverDrw, txVars
<1>3. /\ delivered' \in Seq(Chunks) /\ InOrderExactlyOnce'
      /\ rxCtr' \in Nat /\ rxCtr <= rxCtr' /\ rxCtr' <= backlog
      /\ DOMAIN rxQueue' \subseteq Index
      /\ \A i \in DOMAIN rxQueue' : /\ rxQueue'[i] \in Chunks
                                    /\ i = Cyclic(rxQueue'[i])
                                    /\ rxCtr' < rxQueue'[i] /\ rxQueue'[i] < backlog
      /\ \A c \in Nat : Landed(c) => Landed(c)'
      /\ Landed(n)'
  BY <1>2, DrwLands
<1>4. TypeOK'
  <2>1. data' \subseteq Chunks /\ dataAcks' \subseteq Chunks
    BY <1>1, <1>2 DEF TypeOK, Recent
  <2> QED
    BY <1>1, <1>2, <1>3, <2>1 DEF TypeOK, Chunks
<1>5. Counters' /\ QueueNear'
  BY <1>1, <1>2, <1>3, Numbers DEF Counters, QueueNear
<1>6. DataNear'
  <2>1. SUFFICES ASSUME NEW c \in data' PROVE c < backlog /\ rxCtr' <= c + WrapLimit
    BY <1>2 DEF DataNear
  <2>2. c \in data /\ c \in Nat /\ rxCtr' <= c + MaxLag
    BY <1>1, <1>2, Numbers DEF Recent
  <2> QED
    BY <1>1, <1>3, <2>2, Numbers DEF ChannelInv, DataNear
<1>7. DataAcksNear'
  <2>1. SUFFICES ASSUME NEW c \in dataAcks' PROVE Landed(c)' /\ txAck <= c + MaxLag
    BY <1>2 DEF DataAcksNear
  <2>2. c \in dataAcks \union {n} /\ txAck <= c + MaxLag
    BY <1>2 DEF Recent
  <2>3. CASE c \in dataAcks
    BY <1>1, <1>3, <2>2, <2>3, Numbers DEF ChannelInv, DataAcksNear
  <2> QED
    BY <1>3, <2>2, <2>3
<1>8. AcksNear'
  <2>1. SUFFICES ASSUME NEW i \in acks
                 PROVE  \E c \in txAck + 1 .. txCtr - 1 : i = Cyclic(c) /\ Landed(c)'
    BY <1>2 DEF AcksNear
  <2>2. PICK c \in txAck + 1 .. txCtr - 1 : i = Cyclic(c) /\ Landed(c)
    BY DEF ChannelInv, AcksNear
  <2>3. c \in Nat
    BY <1>1, Numbers
  <2> QED
    BY <1>3, <2>2, <2>3
<1>9. QueuedIsUnknown' /\ WriterKnows'
  BY <1>2 DEF ChannelInv, QueuedIsUnknown, WriterKnows
<1> QED
  BY <1>3, <1>4, <1>5, <1>6, <1>7, <1>8, <1>9 DEF ChannelInv
-------------------------------------------------------------------------------
LEMMA InitChannel == Init => ChannelInv
<1> SUFFICES ASSUME Init PROVE ChannelInv
  OBVIOUS
<1>1. /\ txCtr = 0 /\ txAck = 0 /\ backlog = 0 /\ rxCtr = 0 /\ DOMAIN rxQueue = {}
      /\ delivered \in Seq(Chunks)
      /\ txQueue = {} /\ acks = {} /\ data = {} /\ dataAcks = {}
      /\ use \in {"commands", "file"}
  BY DEF Init, rxCtr
<1>2. /\ writer \in [at : {"idle", "waiting", "returned"}, done : 0 .. MaxChunks]
      /\ writer.at = "idle"
  BY ChunksAssumption DEF Init, NoWriter
<1>3. Cardinality({}) <= MaxInFlight
  BY FS_EmptySet, InFlightAssumption
<1>4. TypeOK
  BY <1>1, <1>2, <1>3, ChunksAssumption DEF TypeOK
<1>5. Counters
  BY <1>1, SpanAssumption DEF Counters
<1>6. InOrderExactlyOnce
  BY <1>1 DEF InOrderExactlyOnce
<1> QED
  BY <1>1, <1>2, <1>4, <1>5, <1>6
     DEF ChannelInv, DataNear, QueueNear, DataAcksNear, AcksNear, QueuedIsUnknown, WriterKnows

LEMMA StutterChannel == ChannelInv /\ UNCHANGED vars => ChannelInv'
BY DEF ChannelInv, vars, txVars, netVars, rxVars, TypeOK, InOrderExactlyOnce, Counters, DataNear,
       QueueNear, DataAcksNear, AcksNear, QueuedIsUnknown, WriterKnows, Landed, rxCtr, Chunks

(* The windows are kept by every operation of the channel and everything   *)
(* the network does (WriteContext, ResetTx, Poll, RXAck, RXDrw).           *)
THEOREM ChannelInvariant == Spec => []ChannelInv
<1>1. ChannelInv /\ [Next]_vars => ChannelInv'
  <2> SUFFICES ASSUME ChannelInv, [Next]_vars PROVE ChannelInv'
    OBVIOUS
  <2>1. CASE \/ \E k \in 1 .. MaxSpan : WriteBlocking(k) \/ WriteNonBlocking(k)
             \/ WriteReturns \/ WriteCancelled \/ WriterGoesOn
    BY <2>1, WriterStep
  <2>2. CASE ResetTx
    BY <2>2, ResetStep
  <2>3. ASSUME NEW n \in Chunks, Poll(n) PROVE ChannelInv'
    BY <2>3, PollStep
  <2>4. ASSUME NEW n \in Chunks, DeliverDrw(n) PROVE ChannelInv'
    BY <2>4, DrwStep
  <2>5. ASSUME NEW n \in Chunks, DeliverAck(n) PROVE ChannelInv'
    BY <2>5, AckStep
  <2>6. ASSUME NEW n \in Chunks, LoseDrw(n) \/ LoseAck(n) PROVE ChannelInv'
    BY <2>6, LossStep
  <2>7. CASE UNCHANGED vars
    BY <2>7, StutterChannel
  <2> QED
    BY <2>1, <2>2, <2>3, <2>4, <2>5, <2>6, <2>7 DEF Next
<1> QED
  BY <1>1, InitChannel, PTL DEF Spec

(* The state of the channel has its types, and the in-flight window is     *)
(* never exceeded (Poll).                                                  *)
THEOREM ChannelTypeCorrect == Spec => []TypeOK
<1>1. ChannelInv => TypeOK
  BY DEF ChannelInv
<1> QED
  BY <1>1, ChannelInvariant, PTL

(* The stream is read as it was written (RXDrw), for every length: also    *)
(* when the 16-bit index has wrapped any number of times.                  *)
THEOREM StreamIsInOrder == Spec => []InOrderExactlyOnce
<1>1. ChannelInv => InOrderExactlyOnce
  BY DEF ChannelInv
<1> QED
  BY <1>1, ChannelInvariant, PTL

(* What the sender takes for delivered is delivered (RXAck, WriteContext,  *)
(* ResetTx).                                                               *)
THEOREM DeliveryIsTrue == Spec => []DeliveryIsKnown
<1>1. ChannelInv => DeliveryIsKnown
  <2> SUFFICES ASSUME ChannelInv PROVE DeliveryIsKnown
    OBVIOUS
  <2>1. TypeOK /\ Counters /\ WriterKnows
    BY DEF ChannelInv
  <2>2. writer.done \in Nat
    BY <2>1, Numbers DEF TypeOK
  <2> QED
    BY <2>1, <2>2, Numbers
       DEF DeliveryIsKnown, AckedIsDelivered, WriteMeansDelivered, ResetFindsNothing,
           Counters, WriterKnows
<1> QED
  BY <1>1, ChannelInvariant, PTL

-------------------------------------------------------------------------------
(* The clients. *)

RunHasSocket == \A u \in Users : spawned[u] # {} => port = u

OpenHasPort == hook \in {"open", "running"} => port = "service"

PortInv ==
  /\ PortHasOwner
  /\ LoopHasSocket
  /\ RunHasSocket
  /\ OpenHasPort

SInv == SessionTypeOK /\ PortInv

-------------------------------------------------------------------------------
(* What every step that opens, closes, starts or ends nothing keeps.       *)
LEMMA SInvKept ==
  ASSUME SInv, SessionTypeOK',
         UNCHANGED <<spawned, port>>,
         hook' \in {"open", "running"} => hook \in {"open", "running"},
         hook \in {"open", "running", "stopping"} => hook' \in {"open", "running", "stopping"},
         probe \in {"waiting", "closing"} => probe' \in {"waiting", "closing"},
         \A u \in Users : looping'[u] # "no" => looping[u] # "no"
  PROVE  SInv'
BY DEF SInv, PortInv, PortHasOwner, LoopHasSocket, RunHasSocket, OpenHasPort

(* A new client has the port to itself: nobody has it, so that no          *)
(* goroutine and no loop is left.                                          *)
LEMMA OpenTypes ==
  ASSUME SInv, NEW u \in Users, Open(u)
  PROVE  /\ state' \in [Users -> {"none", "connecting", "connected", "disconnected"}]
         /\ running' \in [Users -> BOOLEAN]
         /\ spawned' = [spawned EXCEPT ![u] = {}]
         /\ ended' \in [Users -> BOOLEAN]
         /\ remote' \in [Users -> {"broadcast", "printer", "foreign"}]
         /\ port' = u /\ port = "free"
         /\ inbox' \in SUBSET Packets
         /\ looping' = looping
BY DEF SInv, SessionTypeOK, Open, Answered, Packets

(* Run: a goroutine goes into the loop, and out of it.                     *)
LEMMA RunStepKeeps ==
  ASSUME SInv, NEW u \in Users, RunStep(u)
  PROVE  SInv'
<1> USE DEF serviceVars
<1>1. SessionTypeOK /\ PortInv
  BY DEF SInv
<1>2. CASE LeaveRun(u)
  <2>1. SessionTypeOK'
    BY <1>1, <1>2 DEF LeaveRun, ExitRun, SessionTypeOK, Runs
  <2> QED
    BY <1>1, <1>2, <2>1, SInvKept DEF LeaveRun, ExitRun, SessionTypeOK
<1>3. ASSUME NEW r \in Runs, EnterRun(u, r)
      PROVE  SInv'
  <2>1. SessionTypeOK'
    <3>1. running' \in [Users -> BOOLEAN] /\ ended' \in [Users -> BOOLEAN]
      BY <1>1, <1>3 DEF EnterRun, SessionTypeOK
    <3>2. looping' \in [Users -> Runs \cup {"no"}] /\ spawned' \in [Users -> SUBSET Runs]
      BY <1>1, <1>3 DEF EnterRun, SessionTypeOK
    <3> QED
      BY <1>1, <1>3, <3>1, <3>2 DEF EnterRun, SessionTypeOK
  <2>2. port = u /\ port' = port
    BY <1>1, <1>3 DEF EnterRun, PortInv, RunHasSocket
  <2>3. \A w \in Users : spawned'[w] \subseteq spawned[w]
    BY <1>1, <1>3 DEF EnterRun, SessionTypeOK
  <2>4. \A w \in Users : w # u => looping'[w] = looping[w]
    BY <1>1, <1>3 DEF EnterRun, SessionTypeOK
  <2> QED
    BY <1>1, <1>3, <2>1, <2>2, <2>3, <2>4
    DEF EnterRun, SInv, PortInv, PortHasOwner, LoopHasSocket, RunHasSocket, OpenHasPort
<1> QED
  BY <1>2, <1>3 DEF RunStep

(* Packets change what a client knows, and not whose the port is.          *)
LEMMA NetworkKeeps ==
  ASSUME SInv, Network
  PROVE  SInv'
<1> USE DEF serviceVars, clientVars
<1>1. SessionTypeOK
  BY DEF SInv
<1>2. ASSUME NEW u \in Users, NEW p \in Packets, Receive(u, p)
      PROVE  SInv'
  <2>1. Process(u, p)
    BY <1>2 DEF Receive
  <2>2. inbox' \in SUBSET Packets
    BY <1>1, <2>1 DEF Process, Answered, SessionTypeOK, Packets
  <2>3. remote' \in [Users -> {"broadcast", "printer", "foreign"}]
    BY <1>1, <2>1 DEF Process, SessionTypeOK
  <2>4. state' \in [Users -> {"none", "connecting", "connected", "disconnected"}]
    BY <1>1, <2>1 DEF Process, SessionTypeOK
  <2>5. SessionTypeOK'
    BY <1>1, <1>2, <2>2, <2>3, <2>4 DEF Receive, SessionTypeOK
  <2> QED
    BY <1>2, <2>5, SInvKept DEF Receive
<1>3. ASSUME NEW u \in Users, ReceiveOther(u)
      PROVE  SInv'
  <2>1. SessionTypeOK'
    BY <1>1, <1>3 DEF ReceiveOther, SessionTypeOK
  <2> QED
    BY <1>3, <2>1, SInvKept DEF ReceiveOther
<1>4. CASE (\E p \in Packets : Lose(p)) \/ PrinterCloses
  <2>1. SessionTypeOK'
    BY <1>1, <1>4 DEF Lose, PrinterCloses, SessionTypeOK, Packets
  <2>2. UNCHANGED <<ctx, clientVars, port, serviceVars, probe>>
    BY <1>4 DEF Lose, PrinterCloses
  <2> QED
    BY <2>1, <2>2, SInvKept
<1> QED
  BY <1>2, <1>3, <1>4 DEF Network

(* The hooks of the service.                                               *)
LEMMA HooksKeep ==
  ASSUME SInv,
         \/ WorkerStart \/ WorkerRun \/ WorkerStop \/ ServiceReturns
         \/ RunTicks \/ DrainFails \/ CancelRun \/ DeadlinePasses
  PROVE  SInv'
<1> USE DEF clientVars, serviceVars
<1>1. SessionTypeOK /\ PortInv
  BY DEF SInv
<1>2. CASE WorkerStart
  <2>1. SessionTypeOK'
    BY <1>1, <1>2 DEF WorkerStart, CallStart, SessionTypeOK, HookStates
  <2> QED
    BY <1>2, <2>1, SInvKept DEF WorkerStart, CallStart
<1>3. CASE WorkerStartFails
  <2>1. SessionTypeOK'
    BY <1>1, <1>3 DEF WorkerStartFails, StartFails, SessionTypeOK, HookStates
  <2> QED
    BY <1>3, <2>1, SInvKept DEF WorkerStartFails, StartFails
<1>4. CASE WorkerStartOpens
  <2>1. Open("service") /\ "service" \in Users
    BY <1>4 DEF WorkerStartOpens, Users
  <2>2. /\ spawned' = [spawned EXCEPT !["service"] = {}] /\ looping' = looping
        /\ port' = "service" /\ port = "free"
    BY <2>1, OpenTypes
  <2>3. SessionTypeOK'
    <3>1. spawned' \in [Users -> SUBSET Runs]
      BY <1>1, <2>2 DEF SessionTypeOK
    <3> QED
      BY <1>1, <1>4, <2>1, <2>2, <3>1, OpenTypes
      DEF WorkerStartOpens, StartOpens, SessionTypeOK, HookStates
  <2>4. \A u \in Users : spawned[u] = {} /\ spawned'[u] = {} /\ looping'[u] = "no"
    BY <1>1, <2>2 DEF PortInv, RunHasSocket, LoopHasSocket, SessionTypeOK, Users
  <2> QED
    BY <1>4, <2>2, <2>3, <2>4
    DEF WorkerStartOpens, StartOpens, SInv, PortInv, PortHasOwner, LoopHasSocket, RunHasSocket,
        OpenHasPort
<1>5. CASE WorkerRun
  <2>1. port = "service" /\ hook = "open" /\ hook' = "running" /\ UNCHANGED <<port, probe>>
    BY <1>1, <1>5 DEF WorkerRun, CallRun, PortInv, OpenHasPort
  <2>2. spawned' \in [Users -> SUBSET Runs] /\ looping' \in [Users -> Runs \cup {"no"}]
    BY <1>1, <1>5 DEF WorkerRun, SessionTypeOK, Runs
  <2>3. SessionTypeOK'
    BY <1>1, <1>5, <2>1, <2>2 DEF WorkerRun, SessionTypeOK, HookStates
  <2>4. \A u \in Users : u # "service" => spawned'[u] = spawned[u] /\ looping'[u] = looping[u]
    BY <1>1, <1>5 DEF WorkerRun, SessionTypeOK
  <2> QED
    BY <1>1, <2>1, <2>3, <2>4
    DEF SInv, PortInv, PortHasOwner, LoopHasSocket, RunHasSocket, OpenHasPort
<1>6. CASE RunSeesContext \/ RunSeesEnd \/ RunTimesOut \/ DrainFails
  <2>1. PICK err \in BOOLEAN : ReturnFromRun(err)
    <3>1. (ctx["service"] = "live") \in BOOLEAN
      OBVIOUS
    <3> QED
      BY <1>6, <3>1 DEF RunSeesContext, RunSeesEnd, RunTimesOut, DrainFails
  <2>2. SessionTypeOK'
    BY <1>1, <2>1 DEF ReturnFromRun, RunReturns, SessionTypeOK, HookStates
  <2> QED
    BY <2>1, <2>2, SInvKept DEF ReturnFromRun, RunReturns
<1>7. CASE RunTicks \/ CancelRun \/ DeadlinePasses
  <2>1. UNCHANGED <<clientVars, port, inbox, hook, failed, probe>>
    BY <1>7 DEF RunTicks, CancelRun, DeadlinePasses
  <2>2. ctx' \in [Users -> {"live", "cancelled"}] /\ late' \in BOOLEAN /\ fresh' \in BOOLEAN
    BY <1>1, <1>7 DEF RunTicks, CancelRun, DeadlinePasses, SessionTypeOK
  <2>3. persisted' \in {"unknown", "printer", "foreign"}
    <3>1. remote["service"] \in {"broadcast", "printer", "foreign"}
      BY <1>1 DEF SessionTypeOK, Users
    <3> QED
      BY <1>1, <1>7, <3>1 DEF RunTicks, CancelRun, DeadlinePasses, SessionTypeOK
  <2>4. SessionTypeOK'
    BY <1>1, <2>1, <2>2, <2>3 DEF SessionTypeOK
  <2> QED
    BY <2>1, <2>4, SInvKept
<1>8. CASE WorkerStop
  <2>1. /\ UNCHANGED <<spawned, looping, ended, remote, port, inbox, late, persisted, fresh, probe>>
        /\ hook \in {"closed", "open"} /\ hook' = "stopping" /\ failed' = FALSE
    BY <1>8 DEF WorkerStop, CallStop, BeginClose
  <2>2. /\ ctx' \in [Users -> {"live", "cancelled"}]
        /\ running' \in [Users -> BOOLEAN]
        /\ state' \in [Users -> {"none", "connecting", "connected", "disconnected"}]
    BY <1>1, <1>8 DEF WorkerStop, BeginClose, SessionTypeOK
  <2>3. SessionTypeOK'
    BY <1>1, <2>1, <2>2 DEF SessionTypeOK, HookStates
  <2> QED
    BY <2>1, <2>3, SInvKept
<1>9. CASE WorkerStopReturns
  <2>1. Closed("service") /\ "service" \in Users /\ hook = "stopping" /\ hook' = "closed"
        /\ UNCHANGED <<ctx, inbox, late, failed, persisted, fresh, probe>>
    BY <1>9 DEF WorkerStopReturns, StopReturns, Users
  <2>2. /\ looping["service"] = "no" /\ UNCHANGED looping
        /\ spawned' = [spawned EXCEPT !["service"] = {}]
        /\ port' = IF port = "service" THEN "free" ELSE port
    BY <2>1 DEF Closed
  <2>3. SessionTypeOK'
    BY <1>1, <2>1 DEF Closed, SessionTypeOK, HookStates
  <2> QED
    BY <1>1, <2>1, <2>2, <2>3
    DEF SInv, PortInv, PortHasOwner, LoopHasSocket, RunHasSocket, OpenHasPort, SessionTypeOK
<1> QED
  BY <1>2, <1>3, <1>4, <1>5, <1>6, <1>7, <1>8, <1>9 DEF ServiceReturns

(* The probe.                                                              *)
LEMMA ProbeKeeps ==
  ASSUME SInv, ProbeBegins \/ ProbeStep \/ ProbeTimesOut
  PROVE  SInv'
<1> USE DEF clientVars, serviceVars
<1>1. SessionTypeOK /\ PortInv /\ "probe" \in Users
  BY DEF SInv, Users
<1>2. CASE ProbeBegins
  <2>1. SessionTypeOK'
    BY <1>1, <1>2 DEF ProbeBegins, SessionTypeOK
  <2> QED
    BY <1>2, <2>1, SInvKept DEF ProbeBegins
<1>3. CASE ProbeCannotOpen
  <2>1. SessionTypeOK'
    BY <1>1, <1>3 DEF ProbeCannotOpen, SessionTypeOK
  <2> QED
    BY <1>3, <2>1, SInvKept DEF ProbeCannotOpen
<1>4. CASE ProbeTimesOut
  <2>1. SessionTypeOK'
    BY <1>1, <1>4 DEF ProbeTimesOut, SessionTypeOK
  <2> QED
    BY <1>4, <2>1, SInvKept DEF ProbeTimesOut
<1>5. CASE ProbeEnds
  <2>1. SessionTypeOK'
    BY <1>1, <1>5 DEF ProbeEnds, BeginClose, SessionTypeOK
  <2> QED
    BY <1>5, <2>1, SInvKept DEF ProbeEnds, BeginClose
<1>6. CASE ProbeOpens
  <2>1. /\ spawned' = [spawned EXCEPT !["probe"] = {"new"}] /\ UNCHANGED <<looping, hook>>
        /\ port = "free" /\ port' = "probe" /\ probe' = "waiting"
    BY <1>6 DEF ProbeOpens
  <2>2. SessionTypeOK'
    <3>1. inbox' \in SUBSET Packets
      BY <1>1, <1>6 DEF ProbeOpens, Answered, SessionTypeOK, Packets
    <3>2. spawned' \in [Users -> SUBSET Runs]
      BY <1>1, <2>1 DEF SessionTypeOK, Runs
    <3> QED
      BY <1>1, <1>6, <3>1, <3>2 DEF ProbeOpens, SessionTypeOK
  <2>3. \A u \in Users : spawned[u] = {} /\ looping[u] = "no"
    BY <1>1, <2>1 DEF PortInv, RunHasSocket, LoopHasSocket, Users
  <2>4. \A u \in Users : u # "probe" => spawned'[u] = {}
    BY <1>1, <2>1, <2>3 DEF SessionTypeOK
  <2> QED
    BY <1>1, <2>1, <2>2, <2>3, <2>4
    DEF SInv, PortInv, PortHasOwner, LoopHasSocket, RunHasSocket, OpenHasPort
<1>7. CASE ProbeReturns
  <2>1. /\ Closed("probe") /\ probe' = "idle" /\ UNCHANGED <<inbox, serviceVars>>
        /\ ctx' = [ctx EXCEPT !["probe"] = "cancelled"]
    BY <1>7 DEF ProbeReturns
  <2>2. /\ looping["probe"] = "no" /\ UNCHANGED looping
        /\ spawned' = [spawned EXCEPT !["probe"] = {}]
        /\ port' = IF port = "probe" THEN "free" ELSE port
    BY <2>1 DEF Closed
  <2>3. SessionTypeOK'
    BY <1>1, <2>1 DEF Closed, SessionTypeOK
  <2> QED
    BY <1>1, <2>1, <2>2, <2>3
    DEF SInv, PortInv, PortHasOwner, LoopHasSocket, RunHasSocket, OpenHasPort, SessionTypeOK
<1> QED
  BY <1>2, <1>3, <1>4, <1>5, <1>6, <1>7 DEF ProbeStep

-------------------------------------------------------------------------------
(* The inductive invariant of the LAN session and its probe.               *)
THEOREM SessionInvariant == SessionSpec => []SInv
<1>1. ASSUME SessionInit PROVE SInv
  <2>1. running \in [Users -> BOOLEAN] /\ ended \in [Users -> BOOLEAN]
    BY <1>1 DEF SessionInit
  <2>2. SessionTypeOK
    BY <1>1, <2>1 DEF SessionInit, HooksInit, SessionTypeOK, HookStates
  <2>3. PortInv
    BY <1>1 DEF SessionInit, HooksInit, PortInv, PortHasOwner, LoopHasSocket, RunHasSocket, OpenHasPort
  <2> QED
    BY <2>2, <2>3 DEF SInv
<1>2. SInv /\ [SessionNext]_sessionVars => SInv'
  <2>1. SInv /\ UNCHANGED sessionVars => SInv'
    BY DEF sessionVars, clientVars, serviceVars, SInv, SessionTypeOK, PortInv, PortHasOwner,
           LoopHasSocket, RunHasSocket, OpenHasPort
  <2> QED
    BY <2>1, NetworkKeeps, RunStepKeeps, HooksKeep, ProbeKeeps DEF SessionNext
<1> QED
  BY <1>1, <1>2, PTL DEF SessionSpec

(* The port has an owner that will let it go, and no loop reads from a     *)
(* socket that is not its client's.                                        *)
THEOREM SessionIsSound == SessionSpec => []SessionInv
<1>1. SInv => SessionInv
  BY DEF SInv, PortInv, SessionInv
<1> QED
  BY <1>1, SessionInvariant, PTL
===============================================================================
