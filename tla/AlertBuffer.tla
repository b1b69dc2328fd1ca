------------------------------ MODULE AlertBuffer ------------------------------
(***************************************************************************)
(* internal/web/handler/printer_state.go: the ring buffer of printer       *)
(* alerts and the pages that poll it with the cursor of their last answer. *)
(***************************************************************************)
EXTENDS Naturals, FiniteSets

CONSTANTS
  AlertKeys,        \* what an alert says, with the printer
  Pages,            \* pages that poll
  NoCursor,         \* the first poll of a page
  AlertBufferSize,  \* printerAlertBufferSize
  MaxAlerts         \* bound: alerts in all

ASSUME AlertAssumption ==
  NoCursor \notin Nat /\ AlertBufferSize \in Nat \ {0} /\ MaxAlerts \in Nat

VARIABLES
  alerts,      \* ids in the buffer; they are consecutive
  nextAlertId,
  recentKeys,  \* keys within their cooldown
  cursor,      \* page |-> next_after of its last answer
  owed         \* history: page |-> ids it was neither given nor warned of

alertVars == <<alerts, nextAlertId, recentKeys, cursor, owed>>

AlertTypeOK ==
  /\ nextAlertId \in 1..(MaxAlerts + 1)
  /\ alerts \subseteq 1..(nextAlertId - 1) /\ Cardinality(alerts) <= AlertBufferSize
  /\ recentKeys \subseteq AlertKeys
  /\ cursor \in [Pages -> {NoCursor} \union (0..MaxAlerts)]
  /\ owed \in [Pages -> SUBSET (1..MaxAlerts)]

AlertInit ==
  /\ alerts = {}
  /\ nextAlertId = 1
  /\ recentKeys = {}
  /\ cursor = [p \in Pages |-> NoCursor]
  /\ owed = [p \in Pages |-> {}]

FirstId == IF alerts = {} THEN 0 ELSE CHOOSE i \in alerts : \A j \in alerts : i <= j
LastId  == IF alerts = {} THEN 0 ELSE nextAlertId - 1

(* Mutant: room is made one alert late. *)
AppendLate(key) ==
  /\ nextAlertId <= MaxAlerts
  /\ key \notin recentKeys
  /\ recentKeys' = recentKeys \union {key}
  /\ alerts' = (IF Cardinality(alerts) > AlertBufferSize THEN alerts \ {FirstId} ELSE alerts)
                 \union {nextAlertId}
  /\ nextAlertId' = nextAlertId + 1
  /\ UNCHANGED <<cursor, owed>>

(* append: nothing within the cooldown; the oldest entry makes room. *)
AppendAlert(key) ==
  /\ nextAlertId <= MaxAlerts
  /\ key \notin recentKeys
  /\ recentKeys' = recentKeys \union {key}
  /\ alerts' = (IF Cardinality(alerts) >= AlertBufferSize THEN alerts \ {FirstId} ELSE alerts)
                 \union {nextAlertId}
  /\ nextAlertId' = nextAlertId + 1
  /\ UNCHANGED <<cursor, owed>>

CooldownEnds(key) ==
  /\ key \in recentKeys
  /\ recentKeys' = recentKeys \ {key}
  /\ UNCHANGED <<alerts, nextAlertId, cursor, owed>>

After(page) == {i \in alerts : i > cursor[page]}

Truncated(page, limit) ==
  \/ alerts # {} /\ cursor[page] < FirstId - 1
  \/ Cardinality(After(page)) > limit

(* snapshot: the newest entries after the cursor, at most limit of them.   *)
(* A page without a cursor begins with the newest ones.                    *)
PollAlerts(page) ==
  /\ cursor' = [cursor EXCEPT ![page] = LastId]
  /\ \E limit \in 1..AlertBufferSize :
       LET given == {i \in alerts : i + limit > LastId}
       IN  owed' = [owed EXCEPT ![page] =
                      IF cursor[page] = NoCursor \/ Truncated(page, limit) THEN {}
                      ELSE @ \union ((cursor[page] + 1)..LastId \ (given \intersect After(page)))]
  /\ UNCHANGED <<alerts, nextAlertId, recentKeys>>

AlertNext ==
  \/ \E key \in AlertKeys : AppendAlert(key) \/ CooldownEnds(key)
  \/ \E page \in Pages : PollAlerts(page)

AlertSpec == AlertInit /\ [][AlertNext]_alertVars

(* A page that follows its cursor is given every alert, or is told that it *)
(* missed some, however the polls and the evictions fall.                  *)
MissIsTold == \A page \in Pages : owed[page] = {}
===============================================================================
