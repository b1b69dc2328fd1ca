----------------------------- MODULE HomeAssistant -----------------------------
(***************************************************************************)
(* internal/service/homeassistant.go: the bridge that publishes the state  *)
(* of the printer to a Home Assistant broker, as retained messages.        *)
(*                                                                         *)
(* Three goroutines change s.state under s.mu and publish it, if at all,   *)
(* after the unlock: the worker, paho's connect handler and paho's handler *)
(* of a lost connection.  The state is what the printer reported, as one   *)
(* value, and mqtt_connected; discovery messages are one step without      *)
(* content.  A client whose first connection failed never connects, and a  *)
(* handler of paho is done before the next of its kind begins; the one of  *)
(* a lost connection may run when the connection is up again.              *)
(***************************************************************************)
EXTENDS Naturals, Sequences

CONSTANTS
  HaValues,  \* reports of the printer that are told apart
  HaQueue    \* room in updateQ

ASSUME HaAssumption == HaValues # {} /\ HaQueue \in Nat \ {0}

VARIABLES
  haStage,     \* the service: "stopped", "connecting", "running", "stopping"
  haWorker,    \* WorkerRun: "idle" or about to "publish" what applyUpdate marshalled
  haPayload,   \* that payload
  haEnabled,   \* s.enabled
  haClient,    \* s.client: "nil", "new" (never connected) or "known"
  haLink,      \* that client is connected
  haLost,      \* the handler of the lost connection has not run yet
  haHandler,   \* where onConnected is
  haSnapshot,  \* what publishCurrentState marshalled
  haState,     \* s.state
  updateQ,
  availability,\* retained on the broker (external)
  haWill,      \* the broker still has to publish the will (external)
  haTold,      \* retained state on the broker (external)
  haRaced      \* history: s.state is no longer what was marshalled last, or a
               \* payload that is not published yet is older than s.state

workerVars  == <<haStage, haWorker, haPayload>>
linkVars    == <<haClient, haLink, haLost>>
handlerVars == <<haHandler, haSnapshot>>
brokerVars  == <<availability, haWill, haTold>>

haVars == <<workerVars, linkVars, handlerVars, brokerVars, haEnabled, haState, updateQ,
            haRaced>>

HaStates == [value : HaValues, mqtt_connected : BOOLEAN]

(* s.state at first; also what stands for a payload nobody holds. *)
InitialState == [value |-> CHOOSE value \in HaValues : TRUE, mqtt_connected |-> FALSE]

HaTypeOK ==
  /\ haStage \in {"stopped", "connecting", "running", "stopping"}
  /\ haWorker \in {"idle", "publish"}
  /\ haHandler \in {"none", "discovery", "setOnline", "marshal", "publish", "subscribe"}
  /\ availability \in {"none", "online", "offline"}
  /\ {haState, haTold, haSnapshot, haPayload} \subseteq HaStates
  /\ updateQ \in Seq(HaValues) /\ Len(updateQ) <= HaQueue
  /\ haClient \in {"nil", "new", "known"}
  /\ {haEnabled, haLink, haLost, haWill, haRaced} \subseteq BOOLEAN

HaInit ==
  /\ haStage = "stopped" /\ haWorker = "idle"
  /\ haEnabled = TRUE
  /\ haClient = "nil" /\ haLink = FALSE /\ haLost = FALSE
  /\ haHandler = "none"
  /\ haState = InitialState /\ haTold = InitialState
  /\ haSnapshot = InitialState /\ haPayload = InitialState
  /\ updateQ = << >>
  /\ availability = "none" /\ haWill = FALSE
  /\ haRaced = FALSE

(* publish does nothing without a connected client. *)
Reaches == haClient # "nil" /\ haLink
PublishAvailability(value) == availability' = IF Reaches THEN value ELSE availability
Publish(payload) == haTold' = IF Reaches THEN payload ELSE haTold

(* setOnline changes the state and publishes nothing. *)
setOnline(v) ==
  /\ haState' = [haState EXCEPT !.mqtt_connected = v]
  /\ haRaced' = TRUE

-----------------------------------------------------------------------------
(* The worker *)

(* Disabled, the service runs without a client. *)
HaStarts ==
  /\ haStage = "stopped"
  /\ haStage' = IF haEnabled THEN "connecting" ELSE "running"
  /\ haClient' = IF haEnabled THEN "new" ELSE haClient
  /\ UNCHANGED <<haWorker, haPayload, haLink, haLost, handlerVars, brokerVars, haEnabled,
                 haState, updateQ, haRaced>>

(* The broker publishes the will of the session it replaces first. *)
LinkComesUp ==
  /\ haLink' = TRUE
  /\ haClient' = "known"
  /\ haHandler = "none" /\ haHandler' = "discovery"
  /\ availability' = IF haWill THEN "offline" ELSE availability
  /\ haWill' = FALSE

HaConnects ==
  /\ haStage = "connecting"
  /\ haStage' = "running"
  /\ LinkComesUp
  /\ UNCHANGED <<haWorker, haPayload, haLost, haSnapshot, haTold, haEnabled, haState,
                 updateQ, haRaced>>

(* WorkerStart returns the error; the client stays in s.client. *)
HaConnectFails ==
  /\ haStage = "connecting"
  /\ haStage' = "stopped"
  /\ UNCHANGED <<haWorker, haPayload, linkVars, handlerVars, brokerVars, haEnabled,
                 haState, updateQ, haRaced>>

(* applyUpdate, under s.mu: the update is merged and the state marshalled. *)
ApplyUpdate(value) ==
  /\ haStage = "running" /\ haWorker = "idle"
  /\ haState' = [haState EXCEPT !.value = value]
  /\ haPayload' = haState'
  /\ haWorker' = "publish"
  /\ haRaced' = (haHandler = "publish")

TakeUpdate ==
  /\ updateQ # << >>
  /\ ApplyUpdate(Head(updateQ))
  /\ updateQ' = Tail(updateQ)
  /\ UNCHANGED <<haStage, linkVars, handlerVars, brokerVars, haEnabled>>

(* A command is answered with the state it asks for, done or not. *)
handleLightCommand(value) ==
  /\ Reaches
  /\ ApplyUpdate(value)
  /\ UNCHANGED <<haStage, linkVars, handlerVars, brokerVars, haEnabled, updateQ>>

(* The rest of applyUpdate, after the unlock. *)
PublishUpdate ==
  /\ haWorker = "publish"
  /\ Publish(haPayload)
  /\ haWorker' = "idle" /\ haPayload' = InitialState
  /\ UNCHANGED <<haStage, linkVars, handlerVars, availability, haWill,
                 haEnabled, haState, updateQ, haRaced>>

Heartbeat ==
  /\ haStage = "running" /\ haWorker = "idle"
  /\ PublishAvailability("online")
  /\ UNCHANGED <<workerVars, linkVars, handlerVars, haWill, haTold, haEnabled, haState,
                 updateQ, haRaced>>

(* WorkerStop takes two steps: it says goodbye, then lets go of the client. *)
HaStops ==
  /\ haStage = "running" /\ haWorker = "idle"
  /\ haStage' = "stopping"
  /\ PublishAvailability("offline")
  /\ UNCHANGED <<haWorker, haPayload, linkVars, handlerVars, haWill, haTold, haEnabled,
                 haState, updateQ, haRaced>>

HaDisconnects ==
  /\ haStage = "stopping"
  /\ haStage' = "stopped"
  /\ haClient' = "nil" /\ haLink' = FALSE
  /\ UNCHANGED <<haWorker, haPayload, haLost, handlerVars, brokerVars, haEnabled, haState,
                 updateQ, haRaced>>

-----------------------------------------------------------------------------
(* onConnected, in a goroutine of paho *)

AnnounceOnline ==
  /\ haHandler = "discovery"
  /\ PublishAvailability("online")
  /\ haHandler' = "setOnline"
  /\ UNCHANGED <<workerVars, linkVars, haSnapshot, haWill, haTold, haEnabled, haState,
                 updateQ, haRaced>>

SetOnline ==
  /\ haHandler = "setOnline"
  /\ setOnline(TRUE)
  /\ haHandler' = "marshal"
  /\ UNCHANGED <<workerVars, linkVars, haSnapshot, brokerVars, haEnabled, updateQ>>

(* What the worker has yet to publish may be older than this. *)
MarshalState ==
  /\ haHandler = "marshal"
  /\ haSnapshot' = haState
  /\ haHandler' = "publish"
  /\ haRaced' = (haRaced /\ haWorker = "publish")
  /\ UNCHANGED <<workerVars, linkVars, brokerVars, haEnabled, haState, updateQ>>

(* Mutant: only updates are published, not what they left behind. *)
SkipState ==
  /\ haHandler = "publish"
  /\ haHandler' = "subscribe"
  /\ UNCHANGED <<workerVars, linkVars, haSnapshot, brokerVars, haEnabled, haState, updateQ,
                 haRaced>>

PublishState ==
  /\ haHandler = "publish"
  /\ Publish(haSnapshot)
  /\ haHandler' = "subscribe" /\ haSnapshot' = InitialState
  /\ UNCHANGED <<workerVars, linkVars, availability, haWill, haEnabled,
                 haState, updateQ, haRaced>>

Subscribe ==
  /\ haHandler = "subscribe"
  /\ haHandler' = "none"
  /\ UNCHANGED <<workerVars, linkVars, haSnapshot, brokerVars, haEnabled, haState, updateQ,
                 haRaced>>

-----------------------------------------------------------------------------
(* The broker, the settings and the MQTT queue *)

HaLinkLost ==
  /\ haLink /\ ~haLost
  /\ haLink' = FALSE
  /\ haLost' = TRUE
  /\ haWill' = TRUE
  /\ UNCHANGED <<workerVars, haClient, handlerVars, availability, haTold, haEnabled,
                 haState, updateQ, haRaced>>

(* The handler of the lost connection, in a goroutine of paho; the next    *)
(* connection may be up before it.                                         *)
ConnectionLostHandler ==
  /\ haLost
  /\ haLost' = FALSE
  /\ setOnline(FALSE)
  /\ UNCHANGED <<workerVars, haClient, haLink, handlerVars, brokerVars, haEnabled, updateQ>>

WillIsPublished ==
  /\ haWill
  /\ haWill' = FALSE
  /\ availability' = "offline"
  /\ UNCHANGED <<workerVars, linkVars, handlerVars, haTold, haEnabled, haState, updateQ,
                 haRaced>>

(* SetAutoReconnect: a client that was connected tries again. *)
HaReconnects ==
  /\ haClient = "known" /\ ~haLink
  /\ LinkComesUp
  /\ UNCHANGED <<workerVars, haLost, haSnapshot, haTold, haEnabled, haState, updateQ,
                 haRaced>>

(* The worker restarts after it; that is HaStops and HaStarts. *)
Configure ==
  /\ haEnabled' = ~haEnabled
  /\ UNCHANGED <<workerVars, linkVars, handlerVars, brokerVars, haState, updateQ, haRaced>>

UpdateState(value) ==
  /\ updateQ' = IF Len(updateQ) < HaQueue THEN Append(updateQ, value) ELSE updateQ
  /\ UNCHANGED <<workerVars, linkVars, handlerVars, brokerVars, haEnabled, haState, haRaced>>

HaNext ==
  \/ HaStarts \/ HaConnects \/ HaConnectFails \/ TakeUpdate \/ PublishUpdate \/ Heartbeat
  \/ HaStops \/ HaDisconnects
  \/ AnnounceOnline \/ SetOnline \/ MarshalState \/ PublishState \/ Subscribe
  \/ HaLinkLost \/ ConnectionLostHandler \/ WillIsPublished \/ HaReconnects \/ Configure
  \/ \E value \in HaValues : handleLightCommand(value) \/ UpdateState(value)

HaSpec == HaInit /\ [][HaNext]_haVars

-----------------------------------------------------------------------------
(* While the service runs with its link up, the connect handler is done    *)
(* and the worker publishes nothing, the broker holds "online" and s.state *)
(* (also what changed while the link was down), but for two races: a       *)
(* payload that was marshalled before another goroutine changed the state  *)
(* was published after it, or the handler of a lost connection ran after   *)
(* the state was marshalled for the next connection.                       *)
BrokerHasState ==
  haStage = "running" /\ Reaches /\ haHandler = "none" /\ haWorker = "idle"
    => availability = "online" /\ (haRaced \/ haTold = haState)
===============================================================================
