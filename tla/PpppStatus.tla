------------------------------ MODULE PpppStatus ------------------------------
(***************************************************************************)
(* internal/web/ws/pppp.go: the badge pages show for the LAN connection.   *)
(* Every page polls the services once a second and shares one background   *)
(* probe with the other pages.                                             *)
(*                                                                         *)
(* Time is what the code compares: the age of the last probe against       *)
(* ppppRetryInterval and ppppProbeInterval, and of the last MQTT message   *)
(* against ppppMQTTStaleAfter.  Messages to a page are not queued.         *)
(***************************************************************************)
EXTENDS Naturals

CONSTANTS
  Badges,           \* pages with /ws/pppp-state open or closed
  ppppMaxRetries

ASSUME StatusAssumption == ppppMaxRetries \in Nat

VARIABLES
  probe,      \* h.ppppProbe: running, result, failCount
  lastProbe,  \* "never", or what its age exceeds: "recent", "retry", "probe"
  badge,      \* page |-> its local variables
  svc,        \* ppppservice: "stopped", "starting" or "connected"
  reachable,  \* the printer answers on the LAN
  mqtt        \* LastMessageTime: "none", "fresh" or "stale"

statusVars == <<probe, lastProbe, badge, svc, reachable, mqtt>>

StatusTypeOK ==
  /\ probe \in [running : BOOLEAN, result : {"none", "ok", "failed"},
                failCount : 0..(ppppMaxRetries + 1)]
  /\ lastProbe \in {"never", "recent", "retry", "probe"}
  /\ badge \in [Badges -> [open : BOOLEAN, shows : {"", "connected", "disconnected", "dormant"},
                           wasConnected : BOOLEAN, mqttWasStale : BOOLEAN, wantsProbe : BOOLEAN]]
  /\ svc \in {"stopped", "starting", "connected"}
  /\ reachable \in BOOLEAN
  /\ mqtt \in {"none", "fresh", "stale"}

Closed == [open |-> FALSE, shows |-> "", wasConnected |-> FALSE,
           mqttWasStale |-> FALSE, wantsProbe |-> FALSE]

StatusInit ==
  /\ probe = [running |-> FALSE, result |-> "none", failCount |-> 0]
  /\ lastProbe = "never"
  /\ badge = [b \in Badges |-> Closed]
  /\ svc = "stopped" /\ reachable = FALSE /\ mqtt = "none"

Watching == {b \in Badges : badge[b].open}

-----------------------------------------------------------------------------
(* A page *)

(* The first page starts a probe before it polls. *)
OpenBadge(b) ==
  /\ ~badge[b].open /\ ~badge[b].wantsProbe
  /\ badge' = [badge EXCEPT ![b].open = TRUE, ![b].wantsProbe = (Watching = {})]
  /\ UNCHANGED <<probe, lastProbe, svc, reachable, mqtt>>

(* A poll that decided to probe before the page closed still asks for it. *)
CloseBadge(b) ==
  /\ badge[b].open
  /\ badge' = [badge EXCEPT ![b] = [Closed EXCEPT !.wantsProbe = badge[b].wantsProbe]]
  /\ UNCHANGED <<probe, lastProbe, svc, reachable, mqtt>>

startProbe(b) ==
  /\ badge[b].wantsProbe
  /\ badge' = [badge EXCEPT ![b].wantsProbe = FALSE]
  /\ probe' = [probe EXCEPT !.running = @ \/ Watching # {}]
  /\ UNCHANGED <<lastProbe, svc, reachable, mqtt>>

(* The service is connected: what the probe found no longer counts. *)
PollConnected(b) ==
  /\ badge[b].open /\ ~badge[b].wantsProbe
  /\ svc = "connected"
  /\ badge' = [badge EXCEPT ![b].shows = "connected", ![b].wasConnected = TRUE]
  /\ probe' = [probe EXCEPT !.result = "none", !.failCount = 0]
  /\ UNCHANGED <<lastProbe, svc, reachable, mqtt>>

Recovered(b) == badge[b].mqttWasStale /\ mqtt # "stale"

(* now - lastProbeTime > nextInterval *)
Due(p) == lastProbe \in (IF p.failCount > ppppMaxRetries THEN {"probe"} ELSE {"retry", "probe"})

(* Mutant: a printer that answered once is not asked again. *)
ShouldProbeOnce(b, p) ==
  ~p.running /\ (lastProbe = "never" \/ (p.result # "ok" /\ Due(p)))

ShouldProbe(b, p) ==
  /\ ~p.running
  /\ \/ lastProbe = "never"
     \/ /\ \/ mqtt = "stale" \/ Recovered(b) \/ p.result = "failed"
           \/ badge[b].wasConnected /\ p.result = "none"
        /\ Due(p)

Shown(b, p) ==
  CASE p.result = "ok"                                                  -> "connected"
    [] p.result = "failed"                                              -> "disconnected"
    [] p.result = "none" /\ svc # "stopped" /\ badge[b].wasConnected    -> "disconnected"
    [] p.result = "none" /\ ~(svc # "stopped" /\ badge[b].wasConnected) -> "dormant"

PollOtherwise(b) ==
  /\ badge[b].open /\ ~badge[b].wantsProbe
  /\ svc # "connected"
  /\ LET p == IF Recovered(b) THEN [probe EXCEPT !.result = "none", !.failCount = 0] ELSE probe
     IN  /\ probe' = p
         /\ badge' = [badge EXCEPT
              ![b] = [badge[b] EXCEPT !.shows = Shown(b, p), !.wantsProbe = ShouldProbe(b, p),
                                      !.mqttWasStale = (mqtt = "stale"),
                                      !.wasConnected = badge[b].wasConnected
                                        /\ ~(Shown(b, p) = "dormant" /\ svc = "stopped")]]
  /\ UNCHANGED <<lastProbe, svc, reachable, mqtt>>

-----------------------------------------------------------------------------
(* The probe and the rest of the system *)

(* The probe opens the port the service uses: it fails while that runs. *)
StatusProbeEnds ==
  /\ probe.running
  /\ LET ok == reachable /\ svc = "stopped"
     IN  probe' = [running |-> FALSE, result |-> IF ok THEN "ok" ELSE "failed",
                   failCount |-> IF ok THEN 0 ELSE IF probe.failCount > ppppMaxRetries
                                 THEN probe.failCount ELSE probe.failCount + 1]
  /\ lastProbe' = "recent"
  /\ UNCHANGED <<badge, svc, reachable, mqtt>>

ProbeAges ==
  /\ \/ lastProbe = "recent" /\ lastProbe' = "retry"
     \/ lastProbe = "retry" /\ lastProbe' = "probe"
  /\ UNCHANGED <<probe, badge, svc, reachable, mqtt>>

ServiceMoves ==
  /\ \/ svc = "stopped" /\ svc' = "starting"
     \/ svc = "starting" /\ svc' \in {"stopped"} \union (IF reachable THEN {"connected"} ELSE {})
     \/ svc = "connected" /\ svc' \in {"stopped", "starting"}
  /\ UNCHANGED <<probe, lastProbe, badge, reachable, mqtt>>

LanChanges ==
  /\ reachable' = ~reachable
  /\ UNCHANGED <<probe, lastProbe, badge, svc, mqtt>>

MqttChanges ==
  /\ mqtt' = (IF mqtt = "fresh" THEN "stale" ELSE "fresh")
  /\ UNCHANGED <<probe, lastProbe, badge, svc, reachable>>

Poll(b) == PollConnected(b) \/ PollOtherwise(b)

StatusNext ==
  \/ \E b \in Badges : OpenBadge(b) \/ CloseBadge(b) \/ startProbe(b) \/ Poll(b)
  \/ StatusProbeEnds \/ ProbeAges
  \/ ServiceMoves \/ LanChanges \/ MqttChanges

StatusSpec == StatusInit /\ [][StatusNext]_statusVars

(* The page's ticker fires, a probe has a 5 second timeout, time passes. *)
StatusFairness ==
  /\ \A b \in Badges : WF_statusVars(Poll(b)) /\ WF_statusVars(startProbe(b))
  /\ WF_statusVars(StatusProbeEnds) /\ WF_statusVars(ProbeAges)

StatusFairSpec == StatusSpec /\ StatusFairness

-----------------------------------------------------------------------------
(* A printer that stays gone, over the LAN and over MQTT, does not stay    *)
(* "connected" on an open page; one that stays within reach does not stay  *)
(* "disconnected" on it: whatever result another page's probe left.        *)
BadgeCatchesUp ==
  \A b \in Badges :
    /\ <>[](badge[b].open /\ svc = "stopped" /\ ~reachable /\ mqtt = "stale")
         => []<>(badge[b].shows # "connected")
    /\ <>[](badge[b].open /\ svc = "stopped" /\ reachable)
         => []<>(badge[b].shows # "disconnected")
=============================================================================
