------------------------------ MODULE PpppSession ------------------------------
(***************************************************************************)
(* The LAN session with the printer: Client of internal/pppp/client with   *)
(* its Run loop, the worker hooks of PPPPService that own one client, and  *)
(* ProbePPPP, which opens another one on the same UDP port to see whether  *)
(* the printer answers.                                                    *)
(*                                                                         *)
(* HookContract says in which order BaseWorker calls the hooks; nothing    *)
(* else of it matters here.  The printer and the network are one: what a   *)
(* packet sent has for an answer is put into inbox at once, or is lost.    *)
(* The packets of inbox come in any order, also when another client has    *)
(* bound the port in the meantime.                                         *)
(***************************************************************************)
EXTENDS HookContract

VARIABLES
  ctx,        \* the context of the current Run of each user
  state,      \* c.state
  running,    \* c.running
  spawned,    \* the goroutines that have still to enter Run
  looping,    \* the goroutine inside the loop of Run
  ended,      \* runErrCh: the last Run has returned
  remote,     \* c.addr
  port,       \* who has bound the local UDP port 32108
  inbox,      \* packets on their way to that port
  late,       \* time.Now().After(connectDeadline) of WorkerRun
  failed,     \* WorkerRun returned an error: BaseWorker calls WorkerStop next
  persisted,  \* the printer's address in default.json and in the database
  fresh,      \* not yet persisted in this WorkerRun: ~ipPersisted
  probe       \* where the probe is

clientVars  == <<state, running, spawned, looping, ended, remote>>
serviceVars == <<hook, late, failed, persisted, fresh>>
sessionVars == <<ctx, clientVars, port, inbox, serviceVars, probe>>

Users == {"service", "probe"}

(* A Run goroutine belongs to the WorkerRun in progress or to an earlier   *)
(* one, whose context is cancelled.                                        *)
Runs == {"new", "old"}

(* What the printer with our DUID and another printer on the network send. *)
Packets == {"punch", "foreignPunch", "p2pRdy", "close"}

SessionTypeOK ==
  /\ hook \in HookStates
  /\ ctx \in [Users -> {"live", "cancelled"}]
  /\ state \in [Users -> {"none", "connecting", "connected", "disconnected"}]
  /\ running \in [Users -> BOOLEAN]
  /\ spawned \in [Users -> SUBSET Runs]
  /\ looping \in [Users -> Runs \cup {"no"}]
  /\ ended \in [Users -> BOOLEAN]
  /\ remote \in [Users -> {"broadcast", "printer", "foreign"}]
  /\ port \in Users \cup {"free"}
  /\ inbox \in SUBSET Packets
  /\ late \in BOOLEAN /\ failed \in BOOLEAN /\ fresh \in BOOLEAN
  /\ persisted \in {"unknown", "printer", "foreign"}
  /\ probe \in {"idle", "opening", "waiting", "closing"}

SessionInit ==
  /\ HooksInit
  /\ ctx = [u \in Users |-> "cancelled"]
  /\ state = [u \in Users |-> "none"]
  /\ running = [u \in Users |-> FALSE]
  /\ spawned = [u \in Users |-> {}]
  /\ looping = [u \in Users |-> "no"]
  /\ ended = [u \in Users |-> FALSE]
  /\ remote = [u \in Users |-> "broadcast"]
  /\ port = "free"
  /\ inbox = {}
  /\ late = FALSE /\ failed = FALSE /\ fresh = FALSE
  /\ persisted = "unknown"
  /\ probe = "idle"
-------------------------------------------------------------------------------
(* The client. *)

(* Some of the answers to what is sent arrive. *)
Answered(answers) == \E some \in SUBSET answers : inbox' = inbox \cup some

(* OpenBroadcastLAN and ConnectLANSearch: one LAN_SEARCH, to everybody. *)
Open(u) ==
  /\ port = "free"
  /\ port' = u
  /\ state' = [state EXCEPT ![u] = "connecting"]
  /\ running' = [running EXCEPT ![u] = FALSE]
  /\ spawned' = [spawned EXCEPT ![u] = {}]
  /\ ended' = [ended EXCEPT ![u] = FALSE]
  /\ remote' = [remote EXCEPT ![u] = "broadcast"]
  /\ Answered({"punch", "foreignPunch"})
  /\ UNCHANGED looping

(* A goroutine enters Run: an error when another one has been there. *)
EnterRun(u, r) ==
  /\ r \in spawned[u]
  /\ spawned' = [spawned EXCEPT ![u] = @ \ {r}]
  /\ IF running[u]
     THEN /\ ended' = [ended EXCEPT ![u] = @ \/ r = "new"]
          /\ UNCHANGED <<running, looping>>
     ELSE /\ running' = [running EXCEPT ![u] = TRUE]
          /\ looping' = [looping EXCEPT ![u] = r]
          /\ UNCHANGED ended
  /\ UNCHANGED <<ctx, state, remote, port, inbox, serviceVars, probe>>

Cancelled(u) == looping[u] = "old" \/ ctx[u] = "cancelled"

(* The way out of Run: CLOSE to the peer, and disconnected. *)
ExitRun(u) ==
  /\ looping' = [looping EXCEPT ![u] = "no"]
  /\ state' = [state EXCEPT ![u] = "disconnected"]
  /\ ended' = [ended EXCEPT ![u] = @ \/ looping[u] = "new"]
  /\ UNCHANGED <<ctx, running, spawned, remote, port, inbox, serviceVars, probe>>

(* Mutant: a Run that only looks at its own state. *)
LeaveIgnoresContext(u) ==
  /\ looping[u] # "no"
  /\ state[u] = "disconnected"
  /\ ExitRun(u)

LeaveRun(u) ==
  /\ looping[u] # "no"
  /\ Cancelled(u) \/ state[u] = "disconnected"
  /\ ExitRun(u)

(* process: what a packet does.  The remote address is that of the sender  *)
(* of the last packet, whatever it was; up to 256 packets are read before  *)
(* the loop looks at its state again.                                      *)
Process(u, packet) ==
  /\ IF packet = "punch" /\ state[u] = "connecting"
     THEN Answered({"p2pRdy"})
     ELSE inbox' = inbox \ {packet}
  /\ state' = [state EXCEPT ![u] = CASE packet = "p2pRdy" -> "connected"
                                     [] packet = "close"  -> "disconnected"
                                     [] OTHER             -> @]
  /\ remote' = [remote EXCEPT ![u] = IF packet = "foreignPunch" THEN "foreign" ELSE "printer"]

(* A packet that asks for an answer may come twice, it stays in inbox. *)
Receive(u, packet) ==
  /\ looping[u] # "no" /\ port = u
  /\ packet \in inbox
  /\ Process(u, packet)
  /\ UNCHANGED <<ctx, running, spawned, looping, ended, port, serviceVars, probe>>

(* DRW, DRW_ACK, ping and login packets of the printer: see PpppChannel.   *)
ReceiveOther(u) ==
  /\ looping[u] # "no" /\ port = u
  /\ remote[u] # "printer"
  /\ remote' = [remote EXCEPT ![u] = "printer"]
  /\ UNCHANGED <<ctx, state, running, spawned, looping, ended, port, inbox, serviceVars, probe>>

Lose(packet) ==
  /\ packet \in inbox
  /\ inbox' = inbox \ {packet}
  /\ UNCHANGED <<ctx, clientVars, port, serviceVars, probe>>

(* The printer ends the session it has. *)
PrinterCloses ==
  /\ \E u \in Users : state[u] = "connected"
  /\ inbox' = inbox \cup {"close"}
  /\ UNCHANGED <<ctx, clientVars, port, serviceVars, probe>>

(* Close up to wg.Wait: the Run loop is told by the state alone. *)
BeginClose(u) ==
  /\ running' = [running EXCEPT ![u] = FALSE]
  /\ state' = [state EXCEPT ![u] = "disconnected"]
  /\ UNCHANGED <<spawned, looping, ended, remote>>

(* wg.Wait returns and the socket is closed.  A goroutine that has not yet *)
(* entered Run is not waited for: it finds the client disconnected.        *)
Closed(u) ==
  /\ looping[u] = "no"
  /\ port' = IF port = u THEN "free" ELSE port
  /\ state' = [state EXCEPT ![u] = "none"]
  /\ spawned' = [spawned EXCEPT ![u] = {}]
  /\ ended' = [ended EXCEPT ![u] = FALSE]
  /\ remote' = [remote EXCEPT ![u] = "broadcast"]
  /\ running' = [running EXCEPT ![u] = FALSE]
  /\ UNCHANGED looping
-------------------------------------------------------------------------------
(* The hooks of PPPPService. *)

WorkerStart ==
  /\ CallStart
  /\ UNCHANGED <<ctx, clientVars, port, inbox, late, failed, persisted, fresh, probe>>

WorkerStartOpens ==
  /\ StartOpens
  /\ Open("service")
  /\ UNCHANGED <<ctx, late, failed, persisted, fresh, probe>>

(* No printer configured, the port in use, or the search not sent.        *)
WorkerStartFails ==
  /\ StartFails
  /\ UNCHANGED <<ctx, clientVars, port, inbox, late, failed, persisted, fresh, probe>>

WorkerRun ==
  /\ CallRun
  /\ ~failed
  /\ ctx' = [ctx EXCEPT !["service"] = "live"]
  /\ spawned' = [spawned EXCEPT !["service"] =
                   (IF @ = {} THEN {} ELSE {"old"}) \cup {"new"}]
  /\ looping' = [looping EXCEPT !["service"] = IF @ = "no" THEN "no" ELSE "old"]
  /\ ended' = [ended EXCEPT !["service"] = FALSE]
  /\ late' = FALSE
  /\ fresh' = TRUE
  /\ UNCHANGED <<state, running, remote, port, inbox, failed, persisted, probe>>

(* Stop, Restart or Shutdown cancel the run context. *)
CancelRun ==
  /\ hook = "running"
  /\ ctx["service"] = "live"
  /\ ctx' = [ctx EXCEPT !["service"] = "cancelled"]
  /\ UNCHANGED <<clientVars, port, inbox, serviceVars, probe>>

(* WorkerRun returns, its locals are gone. *)
ReturnFromRun(err) ==
  /\ RunReturns
  /\ failed' = err
  /\ late' = FALSE
  /\ fresh' = FALSE
  /\ UNCHANGED <<ctx, clientVars, port, inbox, persisted, probe>>

RunSeesContext == ctx["service"] = "cancelled" /\ ReturnFromRun(FALSE)

RunSeesEnd ==
  /\ ended["service"]
  /\ ReturnFromRun(ctx["service"] = "live")

(* The 10 s for the handshake are over. *)
DeadlinePasses ==
  /\ hook = "running" /\ ~late
  /\ late' = TRUE
  /\ UNCHANGED <<ctx, clientVars, port, inbox, hook, failed, persisted, fresh, probe>>

(* Mutant: the deadline counts only until the Run loop is there.           *)
TimeoutNeedsNoLoop ==
  /\ state["service"] # "connected"
  /\ late /\ looping["service"] = "no"
  /\ ReturnFromRun(TRUE)

RunTimesOut ==
  /\ state["service"] # "connected"
  /\ late
  /\ ReturnFromRun(TRUE)

(* A tick while connected: the deadline is zeroed, so that it is over when *)
(* the connection is lost, and a unicast address is persisted once.        *)
RunTicks ==
  /\ hook = "running"
  /\ state["service"] = "connected"
  /\ late' = TRUE
  /\ IF fresh /\ remote["service"] # "broadcast"
     THEN persisted' = remote["service"] /\ fresh' = FALSE
     ELSE UNCHANGED <<persisted, fresh>>
  /\ UNCHANGED <<ctx, clientVars, port, inbox, hook, failed, probe>>

(* A frame that does not parse. *)
DrainFails ==
  /\ state["service"] = "connected"
  /\ ReturnFromRun(TRUE)

WorkerStop ==
  /\ CallStop
  /\ ctx' = [ctx EXCEPT !["service"] = "cancelled"]
  /\ IF hook = "open" THEN BeginClose("service") ELSE UNCHANGED clientVars
  /\ failed' = FALSE
  /\ UNCHANGED <<port, inbox, late, persisted, fresh, probe>>

(* Mutant: Close does not wait for the Run loop. *)
StopDoesNotWait ==
  /\ StopReturns
  /\ port' = IF port = "service" THEN "free" ELSE port
  /\ state' = [state EXCEPT !["service"] = "none"]
  /\ spawned' = [spawned EXCEPT !["service"] = {}]
  /\ UNCHANGED <<ctx, running, looping, ended, remote, inbox, late, failed, persisted, fresh, probe>>

WorkerStopReturns ==
  /\ StopReturns
  /\ Closed("service")
  /\ UNCHANGED <<ctx, inbox, late, failed, persisted, fresh, probe>>
-------------------------------------------------------------------------------
(* probePPPPWithFactory. *)

ProbeBegins ==
  /\ probe = "idle"
  /\ probe' = "opening"
  /\ UNCHANGED <<ctx, clientVars, port, inbox, serviceVars>>

ProbeOpens ==
  /\ probe = "opening"
  /\ port = "free"
  /\ port' = "probe"
  /\ probe' = "waiting"
  /\ ctx' = [ctx EXCEPT !["probe"] = "live"]
  /\ state' = [state EXCEPT !["probe"] = "connecting"]
  /\ running' = [running EXCEPT !["probe"] = FALSE]
  /\ spawned' = [spawned EXCEPT !["probe"] = {"new"}]
  /\ ended' = [ended EXCEPT !["probe"] = FALSE]
  /\ remote' = [remote EXCEPT !["probe"] = "broadcast"]
  /\ Answered({"punch", "foreignPunch"})
  /\ UNCHANGED <<looping, serviceVars>>

(* The factory fails: the answer is that the printer is not there.         *)
ProbeCannotOpen ==
  /\ probe = "opening"
  /\ probe' = "idle"
  /\ UNCHANGED <<ctx, clientVars, port, inbox, serviceVars>>

(* Connected, out of time, or the end of Run: the deferred Close is called *)
(* before the deferred cancel.                                             *)
ProbeEnds ==
  /\ probe = "waiting"
  /\ state["probe"] = "connected" \/ ended["probe"] \/ ctx["probe"] = "cancelled"
  /\ probe' = "closing"
  /\ BeginClose("probe")
  /\ UNCHANGED <<ctx, port, inbox, serviceVars>>

(* The 5 s of the caller's context are over. *)
ProbeTimesOut ==
  /\ probe \in {"waiting", "closing"}
  /\ ctx["probe"] = "live"
  /\ ctx' = [ctx EXCEPT !["probe"] = "cancelled"]
  /\ UNCHANGED <<clientVars, port, inbox, serviceVars, probe>>

ProbeReturns ==
  /\ probe = "closing"
  /\ Closed("probe")
  /\ probe' = "idle"
  /\ ctx' = [ctx EXCEPT !["probe"] = "cancelled"]
  /\ UNCHANGED <<inbox, serviceVars>>

Network ==
  \/ \E u \in Users, p \in Packets : Receive(u, p)
  \/ \E u \in Users : ReceiveOther(u)
  \/ \E p \in Packets : Lose(p)
  \/ PrinterCloses

RunStep(u) == LeaveRun(u) \/ \E r \in Runs : EnterRun(u, r)

ServiceReturns ==
  \/ WorkerStartOpens \/ WorkerStartFails
  \/ RunSeesContext \/ RunSeesEnd \/ RunTimesOut
  \/ WorkerStopReturns

ProbeStep == ProbeOpens \/ ProbeCannotOpen \/ ProbeEnds \/ ProbeReturns

SessionNext ==
  \/ Network
  \/ \E u \in Users : RunStep(u)
  \/ WorkerStart \/ WorkerRun \/ WorkerStop
  \/ CancelRun
  \/ RunTicks \/ DrainFails
  \/ ServiceReturns
  \/ DeadlinePasses \/ ProbeTimesOut
  \/ ProbeBegins
  \/ ProbeStep

(* The goroutines and the timers go on.  Nothing is asked of the network,  *)
(* nor that BaseWorker calls a hook.                                       *)
SessionFairness ==
  /\ \A u \in Users : WF_sessionVars(LeaveRun(u)) /\ WF_sessionVars(RunStep(u))
  /\ WF_sessionVars(ServiceReturns)
  /\ WF_sessionVars(ProbeStep)
  /\ WF_sessionVars(DeadlinePasses)
  /\ WF_sessionVars(ProbeTimesOut)

SessionSpec     == SessionInit /\ [][SessionNext]_sessionVars
SessionFairSpec == SessionSpec /\ SessionFairness
-------------------------------------------------------------------------------
(* The port is bound only by a service that is open or by a probe under    *)
(* way: a failed start, a lost handshake or a WorkerRun called twice leave *)
(* no socket behind that would make every later start fail with            *)
(* EADDRINUSE (pppp.go:484-576, 629-664).                                  *)
PortHasOwner ==
  /\ port = "service" => hook \in {"open", "running", "stopping"}
  /\ port = "probe" => probe \in {"waiting", "closing"}

(* A Run loop reads from the socket of its own client only: Close returns  *)
(* after the loop, so the next client on the port does not share it with   *)
(* a loop of the last one (client.go:203-211).                             *)
LoopHasSocket == \A u \in Users : looping[u] # "no" => port = u

(* The sockets and the loops of the two clients keep apart.                *)
SessionInv == SessionTypeOK /\ PortHasOwner /\ LoopHasSocket

(* Close does not hang, although a P2P_RDY that is processed after it has  *)
(* set disconnected makes the client connected again (client.go:353-358):  *)
(* the context of the loop ends it.                                        *)
CloseReturns ==
  /\ (hook = "stopping") ~> (hook = "closed")
  /\ (probe = "closing") ~> (probe = "idle")

(* WorkerRun does not sit on a session that is not there: it connects or   *)
(* gives up, whichever packet is lost and whoever ended the session.       *)
SessionSettles ==
  (hook = "running" /\ state["service"] # "connected")
    ~> (hook # "running" \/ state["service"] = "connected")

-------------------------------------------------------------------------------
(* What the comments of the code say, and the code does not do. *)

(* pppp.go:109, "the DUID filter ensures we latch onto the right printer   *)
(* even when multiple AnkerMake devices are on the network": the address   *)
(* persisted for the printer is the printer's.                             *)
PersistedIsPrinter == persisted # "foreign"
===============================================================================
