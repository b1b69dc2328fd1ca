-------------------------------- MODULE LogRing --------------------------------
(***************************************************************************)
(* internal/logging/ringbuffer.go: the ring of console lines, and a viewer *)
(* that polls it with the id its last answer ended with.  A line is its id.*)
(***************************************************************************)
EXTENDS Integers, FiniteSets

CONSTANTS
  LogCapacity,  \* RingBuffer.cap
  MaxLines      \* bound: lines in all

ASSUME LogAssumption == LogCapacity \in Nat \ {0} /\ MaxLines \in Nat

VARIABLES
  ids,     \* slot |-> id of its line; 0 in a slot never written
  head,    \* the slot to write next, the oldest of a full ring
  size,
  nextID,
  viewer,  \* after of the viewer; -1 before its first answer
  unseen   \* history: ids the viewer was neither given nor warned of

ringVars == <<ids, head, size, nextID>>
logVars  == <<ringVars, viewer, unseen>>

Slots == 0..(LogCapacity - 1)

LogTypeOK ==
  /\ ids \in [Slots -> 0..MaxLines] /\ head \in Slots
  /\ size \in 0..LogCapacity /\ nextID \in 1..(MaxLines + 1)
  /\ viewer \in -1..MaxLines /\ unseen \subseteq 1..MaxLines

LogInit ==
  /\ ids = [s \in Slots |-> 0] /\ head = 0 /\ size = 0 /\ nextID = 1
  /\ viewer = -1 /\ unseen = {}

AppendLine ==
  /\ nextID <= MaxLines
  /\ ids' = [ids EXCEPT ![head] = nextID]
  /\ nextID' = nextID + 1
  /\ head' = (head + 1) % LogCapacity
  /\ size' = IF size < LogCapacity THEN size + 1 ELSE size
  /\ UNCHANGED <<viewer, unseen>>

(* Entries: from slot 0 while the ring fills, from head once it is full. *)
Entries ==
  IF size < LogCapacity THEN [i \in 1..size |-> ids[i - 1]]
  ELSE [i \in 1..size |-> ids[(head + i - 1) % LogCapacity]]

FirstID == IF size = 0 THEN 0 ELSE Entries[1]
LastID  == IF size = 0 THEN 0 ELSE Entries[size]

(* Tail, and the cut of Snapshot: of some places in Entries the last n.    *)
LastOf(places, n) == {i \in places : Cardinality({j \in places : j >= i}) <= n}

Newer(after) == {i \in 1..size : Entries[i] > after}

(* Snapshot, for the request of ConsoleLogs: the newest lines at first,    *)
(* then those after the viewer's id; truncated when the ring or the limit  *)
(* cut some off.                                                           *)
Snapshot(limit) ==
  IF viewer < 0 THEN [places |-> LastOf(1..size, limit), truncated |-> FALSE]
  ELSE [places    |-> LastOf(Newer(viewer), limit),
        truncated |-> \/ size > 0 /\ viewer < FirstID - 1
                      \/ Cardinality(Newer(viewer)) > limit]

ConsoleLogs ==
  \E limit \in 1..LogCapacity :
    LET answer == Snapshot(limit)
        given  == {Entries[i] : i \in answer.places}
    IN  /\ viewer' = LastID
        /\ unseen' = IF viewer < 0 \/ answer.truncated THEN {}
                     ELSE unseen \union {id \in 1..(nextID - 1) : id > viewer /\ id \notin given}
        /\ UNCHANGED ringVars

LogNext == AppendLine \/ ConsoleLogs
LogSpec == LogInit /\ [][LogNext]_logVars

(* The lines read from the slots are the last ones, oldest first, wherever *)
(* the ring wraps, and a viewer that follows next_after misses a line only *)
(* when it is told so.                                                     *)
LinesInOrder ==
  /\ \A i \in 1..size : Entries[i] = nextID - 1 - size + i
  /\ unseen = {}
================================================================================
