------------------------------ MODULE Peripherals ------------------------------
(***************************************************************************)
(* The small components beside the core, one next to the other: a          *)
(* behaviour is one of any of them while the others rest.  They share no   *)
(* variable: what two of them use in the code (the MQTT client, the table  *)
(* of the history) each has as its own environment.                        *)
(***************************************************************************)
EXTENDS ZOffset, AlertBuffer, MjpegFrames, PpppStatus, Notifications, HomeAssistant,
        PrinterQueries, LogRing, GcodeArchive

VARIABLE which  \* the component of this behaviour

vars == <<zVars, alertVars, mjVars, statusVars, notifVars, haVars, qVars, logVars,
          archiveVars, which>>

Init ==
  /\ ZInit /\ AlertInit /\ MjpegInit /\ StatusInit /\ NotifInit /\ HaInit
  /\ QueryInit /\ LogInit /\ ArchiveInit
  /\ which \in {"zoffset", "alerts", "mjpeg", "badge", "notifications", "homeassistant",
               "queries", "logs", "archive"}

Next ==
  /\ \/ /\ which = "zoffset" /\ ZNext
        /\ UNCHANGED <<alertVars, mjVars, statusVars, notifVars, haVars,
                       qVars, logVars, archiveVars>>
     \/ /\ which = "alerts" /\ AlertNext
        /\ UNCHANGED <<zVars, mjVars, statusVars, notifVars, haVars,
                       qVars, logVars, archiveVars>>
     \/ /\ which = "mjpeg" /\ MjpegNext
        /\ UNCHANGED <<zVars, alertVars, statusVars, notifVars, haVars,
                       qVars, logVars, archiveVars>>
     \/ /\ which = "badge" /\ StatusNext
        /\ UNCHANGED <<zVars, alertVars, mjVars, notifVars, haVars,
                       qVars, logVars, archiveVars>>
     \/ /\ which = "notifications" /\ NotifNext
        /\ UNCHANGED <<zVars, alertVars, mjVars, statusVars, haVars,
                       qVars, logVars, archiveVars>>
     \/ /\ which = "homeassistant" /\ HaNext
        /\ UNCHANGED <<zVars, alertVars, mjVars, statusVars, notifVars,
                       qVars, logVars, archiveVars>>
     \/ /\ which = "queries" /\ QueryNext
        /\ UNCHANGED <<zVars, alertVars, mjVars, statusVars, notifVars,
                       haVars, logVars, archiveVars>>
     \/ /\ which = "logs" /\ LogNext
        /\ UNCHANGED <<zVars, alertVars, mjVars, statusVars, notifVars,
                       haVars, qVars, archiveVars>>
     \/ /\ which = "archive" /\ ArchiveNext
        /\ UNCHANGED <<zVars, alertVars, mjVars, statusVars, notifVars,
                       haVars, qVars, logVars>>
  /\ UNCHANGED which

(* In a behaviour of the badge its steps are not put off for ever: the     *)
(* fairness PpppStatus asks for, of its own behaviours only.               *)
BadgeFairness ==
  /\ \A b \in Badges : WF_statusVars(which = "badge" /\ Poll(b))
  /\ \A b \in Badges : WF_statusVars(which = "badge" /\ startProbe(b))
  /\ WF_statusVars(which = "badge" /\ StatusProbeEnds)
  /\ WF_statusVars(which = "badge" /\ ProbeAges)

Spec == Init /\ [][Next]_vars /\ BadgeFairness

(* The variables of every component keep to their types. *)
PeripheralsTypeOK ==
  ZTypeOK /\ AlertTypeOK /\ MjpegTypeOK /\ StatusTypeOK /\ NotifTypeOK /\ HaTypeOK
  /\ QueryTypeOK /\ LogTypeOK /\ ArchiveTypeOK

(* Nobody who waits or watches misses what is there without being told:   *)
(* the pages that poll alerts, the requests that collect replies of the    *)
(* printer, the viewer of the log ring.                                    *)
NothingIsMissed ==
  MissIsTold /\ RepliesReachRequest /\ AnswersFit /\ LinesInOrder

(* What leaves the program is true: the messages of the notification       *)
(* service, the entities of the Home Assistant bridge, the G-code that is  *)
(* printed again.                                                          *)
OutsideIsTold == PrintIsTold /\ BrokerHasState /\ ReprintIsUpload
===============================================================================
