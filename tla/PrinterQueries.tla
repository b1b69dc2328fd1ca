---------------------------- MODULE PrinterQueries ----------------------------
(***************************************************************************)
(* internal/service/mqttqueue.go, mqttqueue_files.go, internal/mqtt/client *)
(* and the requests of internal/web/handler that put a question to the     *)
(* printer: each taps the stream of MQTT messages, sends commands, and     *)
(* collects what comes until a window closes.  Nothing in a reply says     *)
(* which request it answers.                                               *)
(***************************************************************************)
EXTENDS Naturals, Sequences, FiniteSets

CONSTANTS
  Requests,     \* HTTP requests; each asks once
  StoredFiles,  \* files under a root of the printer, with a preview each
  Sources,      \* storage sources
  Reports,      \* reports of a settings summary
  Drain,        \* printerReportSpec.Drain: M114 probes after a report
  ReplyBuffer,  \* capacity of chunksCh and of replyCh
  MaxSummaries, \* bound: requests for a summary
  MaxOnTheWay   \* bound: replies the printer has sent and nobody handled

ASSUME QueryAssumption ==
  /\ Reports \in Nat \ {0} /\ Drain \in Nat /\ ReplyBuffer \in Nat \ {0}
  /\ MaxSummaries \in Nat /\ MaxOnTheWay \in Nat

VARIABLES
  stage,    \* request |-> how far it is
  asks,     \* request |-> what it asks, [kind, about]
  listening,\* requests whose tap the MQTT queue calls
  replyCh,  \* request |-> its channel: replyCh, chunksCh, previewCh
  got,      \* request |-> what it took since it last sent
  probes,   \* request |-> M114 probes of this report
  left,     \* request |-> reports to come
  answer,   \* request |-> what it will be answered
  linked,   \* the queue has a client, and the client its connection
  onTheWay, \* replies sent and not handled: at the broker, in Client.queue, fetched
  storedFilePreviewCache,
  bedLevelingGrid, \* there is a last grid
  passed   \* history: requests past which a reply to them was handled

qVars == <<stage, asks, listening, replyCh, got, probes, left, answer, linked, onTheWay,
           storedFilePreviewCache, bedLevelingGrid, passed>>
collecting == <<replyCh, got, probes>>
network == <<linked, onTheWay>>
kept == <<storedFilePreviewCache, bedLevelingGrid>>

Questions ==
  [kind : {"report", "grid"}, about : {"text"}] \union [kind : {"files"}, about : Sources]
    \union [kind : {"preview"}, about : StoredFiles]
Unasked == [kind |-> "none", about |-> "nothing"]
(* A list of files is of a source, or of paths under the root of none. *)
Abouts == {"text", "grid", "short", "elsewhere"} \union Sources \union StoredFiles
Replies == [kind : {"gcode", "files", "preview"}, about : Abouts, to : Requests]
Stages == {"new", "asked", "selected", "await", "first", "window", "pause", "probe", "done"}

QueryTypeOK ==
  /\ stage \in [Requests -> Stages] /\ asks \in [Requests -> Questions \union {Unasked}]
  /\ listening \subseteq Requests /\ linked \in {"no", "yes", "lost"}
  /\ \A r \in Requests :
       /\ replyCh[r] \in Seq(Abouts) /\ Len(replyCh[r]) <= ReplyBuffer
       /\ got[r] \subseteq Abouts /\ probes[r] \in 0..Drain
       /\ left[r] \in 0..Reports /\ answer[r] \subseteq Abouts
       /\ r \in listening <=> stage[r] \notin {"new", "done"}
  /\ onTheWay \in Seq(Replies) /\ Len(onTheWay) <= MaxOnTheWay
  /\ storedFilePreviewCache \subseteq StoredFiles /\ bedLevelingGrid \in BOOLEAN
  /\ passed \subseteq Requests

QueryInit ==
  /\ stage = [r \in Requests |-> "new"] /\ asks = [r \in Requests |-> Unasked]
  /\ listening = {} /\ passed = {} /\ storedFilePreviewCache = {} /\ bedLevelingGrid = FALSE
  /\ replyCh = [r \in Requests |-> <<>>] /\ got = [r \in Requests |-> {}]
  /\ probes = [r \in Requests |-> 0]
  /\ left = [r \in Requests |-> Reports] /\ answer = [r \in Requests |-> {}]
  /\ linked = "no" /\ onTheWay = <<>>

-----------------------------------------------------------------------------
Goes(r, to) == stage' = [stage EXCEPT ![r] = to]

(* The request ends: its tap is removed, its channel goes; a grid that was *)
(* read is the last one.                                                   *)
Finish(r, with) ==
  /\ Goes(r, "done") /\ listening' = listening \ {r}
  /\ answer' = [answer EXCEPT ![r] = with]
  /\ replyCh' = [replyCh EXCEPT ![r] = <<>>] /\ got' = [got EXCEPT ![r] = {}]
  /\ probes' = [probes EXCEPT ![r] = 0]
  /\ bedLevelingGrid' = (bedLevelingGrid \/ (asks[r].kind = "grid" /\ with # {}))
  /\ UNCHANGED <<left, storedFilePreviewCache, passed>>

Cached(file) == storedFilePreviewCache \intersect {file}

(* A preview is answered from the cache if it can be, or must be. *)
AskCache(r) ==
  /\ stage[r] = "new"
  /\ \E file \in StoredFiles :
       /\ asks' = [asks EXCEPT ![r] = [kind |-> "preview", about |-> file]]
       /\ Finish(r, Cached(file))
  /\ UNCHANGED network

(* Every other request taps the stream before it sends. *)
Ask(r) ==
  /\ stage[r] = "new"
  /\ \E question \in Questions :
       /\ question.kind = "preview" => Cached(question.about) = {}
       /\ question.kind = "report" =>
            Cardinality({q \in Requests : asks[q].kind = "report"}) < MaxSummaries
       /\ asks' = [asks EXCEPT ![r] = question]
  /\ Goes(r, "asked") /\ listening' = listening \union {r}
  /\ UNCHANGED <<collecting, left, answer, network, kept, passed>>

(* command, SendGCode: what the printer will reply, if the client has its  *)
(* connection; an error ends the request.                                  *)
Sends(r, replies) ==
  /\ linked = "yes" /\ Len(onTheWay \o replies) <= MaxOnTheWay
  /\ onTheWay' = onTheWay \o replies
  /\ UNCHANGED linked

Reply(kind, about, r) == [kind |-> kind, about |-> about, to |-> r]

AnswersTo(r) ==
  LET text == Reply("gcode", "text", r)
  IN  CASE asks[r].kind = "report" -> {<<>>, <<text>>, <<text, text>>}
        [] asks[r].kind = "grid"   -> {<<>>, <<text>>, <<Reply("gcode", "grid", r)>>}
        [] asks[r].kind = "files"  -> {<<>>, <<Reply("files", asks[r].about, r)>>,
                                             <<Reply("files", "elsewhere", r)>>}
        [] OTHER                   -> {<<>>}

SendQuestion(r) ==
  /\ stage[r] = "asked"
  /\ \E replies \in AnswersTo(r) : Sends(r, replies)
  /\ Goes(r, CASE asks[r].kind = "preview" -> "selected"
               [] asks[r].kind = "files"   -> "first"
               [] OTHER                    -> "window")
  /\ UNCHANGED <<asks, listening, collecting, left, answer, kept, passed>>

(* A preview selects the file in the list, waits, and requests it. *)
SendRequest(r) ==
  /\ stage[r] = "selected"
  /\ \E replies \in {<<>>, <<Reply("preview", asks[r].about, r)>>} : Sends(r, replies)
  /\ Goes(r, "await")
  /\ UNCHANGED <<asks, listening, collecting, left, answer, kept, passed>>

(* The client of the request is gone. *)
Cancel(r) == stage[r] \notin {"new", "done"} /\ Finish(r, {}) /\ UNCHANGED <<asks, network>>

-----------------------------------------------------------------------------
Wants(r, reply) ==
  CASE asks[r].kind \in {"report", "grid"} -> reply.kind = "gcode"
    [] asks[r].kind = "files"              -> reply.kind = "files"
    [] OTHER -> reply.kind = "preview" /\ reply.about = asks[r].about

Room(r) == Len(replyCh[r]) < (IF asks[r].kind = "preview" THEN 1 ELSE ReplyBuffer)

(* A preview of a stored file is kept, whoever asked for it. *)
handleCT1044(reply) ==
  storedFilePreviewCache' = storedFilePreviewCache \union
    (IF reply.kind = "preview" THEN {reply.about} ELSE {})

(* WorkerRun fetches what handleIncoming queued, and handlePayload calls   *)
(* the taps: a reply a channel has no room for is dropped; the bed         *)
(* leveling query keeps all of them itself.                                *)
HandleReply ==
  LET reply  == Head(onTheWay)
      takers == {r \in listening : Wants(r, reply)}
  IN  /\ linked # "no" /\ onTheWay # <<>> /\ onTheWay' = Tail(onTheWay)
      /\ replyCh' = [r \in Requests |->
                       IF r \in takers /\ asks[r].kind # "grid" /\ Room(r)
                       THEN Append(replyCh[r], reply.about) ELSE replyCh[r]]
      /\ got' = [r \in Requests |->
                   IF r \in takers /\ asks[r].kind = "grid"
                   THEN got[r] \union {reply.about} ELSE got[r]]
      /\ handleCT1044(reply)
      /\ passed' = passed \union
           {r \in {reply.to} \ takers : stage[r] \notin {"new", "asked", "done"}}
      /\ UNCHANGED <<stage, asks, listening, probes, left, answer, linked, bedLevelingGrid>>

Untouched == UNCHANGED <<stage, asks, listening, collecting, left, answer, kept, passed>>

(* The connection is lost, and with it what handleIncoming was not given:  *)
(* nothing connects this client again.                                     *)
LinkLost ==
  /\ linked = "yes" /\ linked' = "lost"
  /\ \E n \in 0..Len(onTheWay) : onTheWay' = SubSeq(onTheWay, 1, n)
  /\ Untouched

(* WorkerStop; WorkerStart, with a new client. *)
ClientStops  == linked # "no" /\ linked' = "no" /\ onTheWay' = <<>> /\ Untouched
ClientStarts == linked = "no" /\ linked' = "yes" /\ UNCHANGED onTheWay /\ Untouched

-----------------------------------------------------------------------------
(* The select of every collecting loop: a reply, *)
Take(r) ==
  /\ stage[r] \in {"first", "window", "probe"} /\ replyCh[r] # <<>>
  /\ got' = [got EXCEPT ![r] = @ \union {Head(replyCh[r])}]
  /\ replyCh' = [replyCh EXCEPT ![r] = Tail(@)]
  /\ Goes(r, IF stage[r] = "first" THEN "window" ELSE stage[r])
  /\ UNCHANGED <<asks, listening, probes, left, answer, network, kept, passed>>

(* ... the preview, *)
TakePreview(r) ==
  /\ stage[r] = "await" /\ replyCh[r] # <<>>
  /\ Finish(r, {Head(replyCh[r])}) /\ UNCHANGED <<asks, network>>

(* ... or the timer; a preview is then looked for in the cache. *)
TimesOut(r) ==
  /\ stage[r] \in {"await", "first"}
  /\ Finish(r, IF stage[r] = "await" THEN Cached(asks[r].about) ELSE {})
  /\ UNCHANGED <<asks, network>>

(* The files of all replies but those of another source: a path that tells *)
(* no source passes for the one asked for.  The rows of all replies with a *)
(* grid.                                                                   *)
FilesEnd(r) ==
  /\ stage[r] = "window" /\ asks[r].kind = "files"
  /\ Finish(r, got[r] \ (Sources \ {asks[r].about})) /\ UNCHANGED <<asks, network>>

GridEnds(r) ==
  /\ stage[r] = "window" /\ asks[r].kind = "grid"
  /\ Finish(r, got[r] \intersect {"grid"}) /\ UNCHANGED <<asks, network>>

(* A report ends, and the next of the summary is asked for at once, with a *)
(* tap and a channel of its own.                                           *)
ReportEnds(r) ==
  IF left[r] = 1 THEN Finish(r, answer[r] \union got[r]) /\ UNCHANGED asks
  ELSE /\ Goes(r, "asked") /\ left' = [left EXCEPT ![r] = @ - 1]
       /\ replyCh' = [replyCh EXCEPT ![r] = <<>>] /\ got' = [got EXCEPT ![r] = {}]
       /\ answer' = [answer EXCEPT ![r] = @ \union got[r]]
       /\ probes' = [probes EXCEPT ![r] = 0]
       /\ UNCHANGED <<asks, listening, kept, passed>>

(* An error of the client ends the request, or the report. *)
SendFails(r) ==
  /\ stage[r] \in {"asked", "selected"} /\ linked # "yes"
  /\ IF asks[r].kind = "report" THEN ReportEnds(r) ELSE Finish(r, {}) /\ UNCHANGED asks
  /\ UNCHANGED network

(* Mutant: the tap goes when the first window is over. *)
WindowEndsUntaps(r) ==
  /\ stage[r] = "window" /\ asks[r].kind = "report"
  /\ IF got[r] = {} \/ Drain = 0 THEN ReportEnds(r)
     ELSE /\ Goes(r, "pause") /\ listening' = listening \ {r}
          /\ UNCHANGED <<asks, collecting, left, answer, kept, passed>>
  /\ UNCHANGED network

(* No reply within the window is an error, or else the probes follow. *)
WindowEnds(r) ==
  /\ stage[r] = "window" /\ asks[r].kind = "report"
  /\ IF got[r] = {} \/ Drain = 0 THEN ReportEnds(r)
     ELSE /\ Goes(r, "pause")
          /\ UNCHANGED <<asks, listening, collecting, left, answer, kept, passed>>
  /\ UNCHANGED network

SendProbe(r) ==
  /\ stage[r] = "pause"
  /\ \/ /\ \E replies \in {<<>>, <<Reply("gcode", "short", r)>>, <<Reply("gcode", "text", r)>>} :
             Sends(r, replies)
        /\ Goes(r, "probe")
        /\ probes' = [probes EXCEPT ![r] = @ + 1]
        /\ got' = [got EXCEPT ![r] = {}] /\ answer' = [answer EXCEPT ![r] = @ \union got[r]]
        /\ UNCHANGED <<asks, listening, replyCh, left, kept, passed>>
     \/ linked # "yes" /\ ReportEnds(r) /\ UNCHANGED network

(* The probes end with one that nothing answers, with a short reply to any *)
(* but the first, and with the last.                                       *)
ProbeEnds(r) ==
  /\ stage[r] = "probe"
  /\ IF got[r] = {} \/ (probes[r] > 1 /\ "short" \in got[r]) \/ probes[r] = Drain
     THEN ReportEnds(r)
     ELSE /\ Goes(r, "pause")
          /\ UNCHANGED <<asks, listening, collecting, left, answer, kept, passed>>
  /\ UNCHANGED network

QueryNext ==
  \/ \E r \in Requests :
       \/ AskCache(r) \/ Ask(r) \/ SendQuestion(r) \/ SendRequest(r) \/ SendFails(r) \/ Cancel(r)
       \/ Take(r) \/ TakePreview(r) \/ TimesOut(r) \/ FilesEnd(r) \/ GridEnds(r)
       \/ WindowEnds(r) \/ SendProbe(r) \/ ProbeEnds(r)
  \/ HandleReply \/ LinkLost \/ ClientStops \/ ClientStarts

QuerySpec == QueryInit /\ [][QueryNext]_qVars

(* No reply to a request that has sent its question goes past it: the tap  *)
(* is there before the first reply and until the last window closes (a     *)
(* full channel may still drop it).                                        *)
RepliesReachRequest == passed = {}

(* A request that others ask at the same time is still answered with what  *)
(* it asked for: the preview of its file, and no file that is of another   *)
(* source by its path.  Files of no known root are anybody's: the answer   *)
(* to one request may list those another asked for, as of its own source.  *)
AnswersFit ==
  \A r \in Requests :
    /\ asks[r].kind = "preview" => answer[r] \subseteq {asks[r].about}
    /\ asks[r].kind = "files" => answer[r] \intersect Sources \subseteq {asks[r].about}
===============================================================================
