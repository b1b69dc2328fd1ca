------------------------------- MODULE Timelapse -------------------------------
(***************************************************************************)
(* internal/service/timelapse.go, with timelapse_controls.go and the       *)
(* deletion of timelapse_snapshots.go: frames of a print are captured into *)
(* a directory and assembled into a video when the print ends.             *)
(*                                                                         *)
(* The MQTT queue and the HTTP handlers send commands through a bounded    *)
(* channel; the one goroutine of the service handles them and its ticks.   *)
(* A paused capture may be resumed within 60 minutes.  The directories     *)
(* outlive the process, and whenever the service starts it takes the ones  *)
(* it finds for captures that were interrupted.                            *)
(*                                                                         *)
(* Left out: the light, the pruning of old videos, the archive of single   *)
(* snapshots, and errors of the file system.                               *)
(***************************************************************************)
EXTENDS Naturals, Sequences, FiniteSets

CONSTANTS
  Files,       \* the names of the prints
  Manual,      \* the name ManualStart makes up
  Api,         \* the HTTP requests that may come
  QueueCap,    \* capacity of cmdCh
  Lead,        \* ffmpeg starts a sequence within its first Lead numbers (5)
  MaxDirs,     \* bound: how many captures are begun
  MaxFrames,   \* bound: how many frames a capture has
  MaxStops,    \* bound: how often the service or the process is restarted
  MaxRequests, \* bound: how many HTTP requests come
  NoCapture    \* s.active = nil, s.resume = nil

ASSUME NameAssumption  == Manual \notin Files
ASSUME ApiAssumption   ==
  Api \subseteq {"start", "pause", "stop", "resume", "dismiss", "delete"}
ASSUME BoundAssumption == /\ QueueCap \in Nat \ {0}
                          /\ Lead \in Nat
                          /\ MaxDirs \in Nat
                          /\ MaxFrames \in Nat
                          /\ MaxStops \in Nat
                          /\ MaxRequests \in Nat

VARIABLES
  reported,    \* the printer state MqttQueue has reported last
  cmds,        \* cmdCh
  api,         \* the HTTP request under way, between its steps
  enabled,     \* s.enabled
  active,      \* s.active
  resume,      \* s.resume, and whether its deadline has passed
  worker,      \* where the goroutine of the service is
  ctx,         \* the context of WorkerRun
  job,         \* the capture that is being assembled
  orphans,     \* captures found at the start and not dealt with yet
  dirs,        \* the directories of in_progress
  made,        \* the number of directories made so far
  newer,       \* which of those with frames was written to after which
  videos,      \* history: the videos assembled
  torn,        \* history: a crash came between ffmpeg and the clean-up
  undisturbed, \* history: no command dropped, nothing disabled or by hand
  stops,       \* the number of restarts and crashes so far
  asked        \* the number of HTTP requests so far

memory    == <<enabled, active, resume>>
disk      == <<dirs, made, newer>>
goroutine == <<worker, ctx, job, orphans>>
history   == <<videos, torn>>
counters  == <<stops, asked>>
vars      == <<reported, cmds, api, memory, goroutine, disk, history, undisturbed, counters>>

Dirs     == 1..MaxDirs
Numbers  == 0 .. MaxFrames - 1
Names    == Files \union {Manual}
Captures == [dir : Dirs, file : Names \union {"unknown"}, count : 0..MaxFrames]
Found    == [dir : Dirs, count : 0..MaxFrames]

Commands ==
  [op : {"start"}, file : Names \union {"unknown"}] \union [op : {"config"}, on : BOOLEAN]
    \union [op : {"finish"}, final : BOOLEAN] \union [op : {"fail"}]

NoRequest == [op |-> "none"]
Requests  ==
  {NoRequest} \union [op : {"send"}, cmd : Commands] \union [op : {"check", "remove"}, dir : Dirs]

NoJob == [dir |-> 0, count |-> 0, from |-> "nobody"]

(* A frame is its number in the directory and, as history, the file its    *)
(* capture was asked for and how many videos there were when it was taken. *)
Frame == [number : Numbers, of : Names \union {"unknown"}, after : Nat]

(* Its frame files, the file name in its .meta, and how long ago it was    *)
(* modified.  A directory that is not there and an empty one are the same: *)
(* both are made again when a frame is captured.                           *)
Directory == [frames : SUBSET Frame, meta : Names \union {"unknown"},
              age : {"fresh", "stale", "old"}]
Removed   == [frames |-> {}, meta |-> "unknown", age |-> "fresh"]

TypeOK ==
  /\ reported \in {"idle", "printing", "paused", "aborted"}
  /\ cmds \in Seq(Commands) /\ Len(cmds) <= QueueCap
  /\ api \in Requests
  /\ enabled \in BOOLEAN
  /\ active \in {NoCapture} \union
       [capture : Captures, of : Names \union {"unknown"}]
  /\ resume \in {NoCapture} \union [capture : Captures, expired : BOOLEAN]
  /\ worker \in {"stopped", "recovering", "ready"}
  /\ ctx \in {"live", "cancelled"}
  /\ job \in {NoJob} \union
       [dir : Dirs, count : 0..MaxFrames, from : {"run", "recovery"}]
  /\ orphans \subseteq Found
  /\ dirs \in [Dirs -> Directory]
  /\ made \in 0..MaxDirs
  /\ newer \subseteq Dirs \X Dirs
  /\ videos \in Seq([dir : Dirs, frames : SUBSET Frame])
  /\ torn \subseteq Dirs
  /\ undisturbed \in BOOLEAN
  /\ stops \in 0..MaxStops
  /\ asked \in 0..MaxRequests

(* A process that starts queues its saved settings before its services.    *)
Boot ==
  /\ reported = "idle"
  /\ \E on \in BOOLEAN : cmds = <<[op |-> "config", on |-> on]>>
  /\ api = NoRequest
  /\ enabled = FALSE
  /\ active = NoCapture
  /\ resume = NoCapture
  /\ worker = "stopped"
  /\ ctx = "live"
  /\ job = NoJob
  /\ orphans = {}
  /\ undisturbed = TRUE

Init ==
  /\ Boot
  /\ dirs = [d \in Dirs |-> Removed]
  /\ made = 0
  /\ newer = {}
  /\ videos = <<>>
  /\ torn = {}
  /\ stops = 0
  /\ asked = 0

-------------------------------------------------------------------------------
Locked       == job.from = "run"       \* s.mu is held while ffmpeg runs
Capturing    == active # NoCapture
Paused       == resume # NoCapture
ActiveIn(d)  == Capturing /\ active.capture.dir = d
PausedIn(d)  == Paused /\ resume.capture.dir = d
Named(f)     == f # "unknown"
RemoveAll(ds) ==
  /\ dirs' = [d \in Dirs |-> IF d \in ds THEN Removed ELSE dirs[d]]
  /\ newer' = {p \in newer : p[1] \notin ds /\ p[2] \notin ds}
Assemble(c)  == job' = [dir |-> c.dir, count |-> c.count, from |-> "run"]

(* Every start that is under way may make a directory (a bound).           *)
Room ==
  made + Cardinality({i \in DOMAIN cmds : cmds[i].op = "start"})
       + Cardinality({r \in {api} : r.op = "send" /\ r.cmd.op = "start"}) < MaxDirs

(* A send that does not wait: a full channel drops the command.            *)
Send(cmd) ==
  cmds' = IF Len(cmds) < QueueCap THEN Append(cmds, cmd) ELSE cmds

-------------------------------------------------------------------------------
(* Notify: MqttQueue reports each change of the state of the printer.      *)

Report(state, cmd) ==
  /\ reported # state
  /\ reported' = state
  /\ Send(cmd)
  /\ undisturbed' = (undisturbed /\ Len(cmds) < QueueCap)
  /\ UNCHANGED <<api, memory, goroutine, disk, history, counters>>

NotifyPrinting(f) == Room /\ Report("printing", [op |-> "start", file |-> f])
NotifyPaused      == Report("paused", [op |-> "finish", final |-> FALSE])
NotifyIdle        == Report("idle", [op |-> "finish", final |-> TRUE])
NotifyAborted     == Report("aborted", [op |-> "fail"])

(* Configure queues the settings, or sets them if the channel is full.     *)
Configure(on) ==
  /\ asked < MaxRequests
  /\ asked' = asked + 1
  /\ IF Len(cmds) < QueueCap
     THEN Send([op |-> "config", on |-> on]) /\ UNCHANGED <<enabled, undisturbed>>
     ELSE /\ ~Locked
          /\ enabled' = on
          /\ undisturbed' = (undisturbed /\ on)
          /\ UNCHANGED cmds
  /\ UNCHANGED <<reported, api, active, resume, goroutine, disk, history, stops>>

-------------------------------------------------------------------------------
(* The HTTP requests look at the state under s.mu, let it go, and act.     *)

Ask(name, request) ==
  /\ name \in Api
  /\ api = NoRequest
  /\ ~Locked
  /\ api' = request
  /\ asked < MaxRequests
  /\ asked' = asked + 1
  /\ UNCHANGED <<reported, cmds, memory, goroutine, disk, history, undisturbed, stops>>

Later(cmd) == [op |-> "send", cmd |-> cmd]

ManualStart ==
  /\ ~Capturing /\ enabled /\ Room
  /\ Ask("start", Later([op |-> "start", file |-> Manual]))

ManualPause == Capturing /\ Ask("pause", Later([op |-> "finish", final |-> FALSE]))
ManualStop  == Capturing /\ Ask("stop", Later([op |-> "finish", final |-> TRUE]))

ManualResume ==
  /\ Paused /\ Room
  /\ Ask("resume", Later([op |-> "start", file |-> resume.capture.file]))

ManualSends ==
  /\ api.op = "send"
  /\ Send(api.cmd)
  /\ undisturbed' = (undisturbed /\ api.cmd.op # "start")
  /\ api' = NoRequest
  /\ UNCHANGED <<reported, memory, goroutine, disk, history, counters>>

ManualDismiss ==
  /\ "dismiss" \in Api /\ asked < MaxRequests
  /\ ~Locked
  /\ resume' = NoCapture
  /\ asked' = asked + 1
  /\ UNCHANGED <<reported, cmds, api, enabled, active, goroutine, disk, history,
                 undisturbed, stops>>

(* DeleteSnapshotCollection: resolve the directory, check and forget it    *)
(* under s.mu, remove it.                                                  *)
DeleteResolves(d) ==
  /\ ActiveIn(d) \/ PausedIn(d)
  /\ Ask("delete", [op |-> "check", dir |-> d])

DeleteChecks ==
  /\ api.op = "check"
  /\ ~Locked
  /\ resume' = IF PausedIn(api.dir) THEN NoCapture ELSE resume
  /\ api' = IF ActiveIn(api.dir) THEN NoRequest ELSE [op |-> "remove", dir |-> api.dir]
  /\ UNCHANGED <<reported, cmds, enabled, active, goroutine, disk, history,
                 undisturbed, counters>>

DeleteRemoves ==
  /\ api.op = "remove"
  /\ RemoveAll({api.dir})
  /\ api' = NoRequest
  /\ UNCHANGED <<reported, cmds, memory, goroutine, made, history,
                 undisturbed, counters>>

-------------------------------------------------------------------------------
(* handleCommand.  The select of WorkerRun may pick a command although its *)
(* context is done.                                                        *)

Handle(op) ==
  /\ worker = "ready" /\ job = NoJob
  /\ cmds # <<>> /\ Head(cmds).op = op
  /\ cmds' = Tail(cmds)
  /\ UNCHANGED <<reported, api, worker, ctx, orphans, history, counters>>

(* A mutant: any start resumes what is paused.                             *)
ResumesAny(f) == Paused /\ ~resume.expired /\ Named(f)

(* A start of the paused file within its 60 minutes resumes the capture.   *)
Resumes(f) == Paused /\ resume.capture.file = f /\ ~resume.expired

HandleConfig ==
  /\ Handle("config")
  /\ enabled' = Head(cmds).on
  /\ undisturbed' = (undisturbed /\ Head(cmds).on)
  /\ UNCHANGED <<active, resume, job, disk>>

HandleStartRefused ==
  /\ Handle("start")
  /\ ~enabled \/ ~Named(Head(cmds).file)
  /\ UNCHANGED <<memory, job, disk, undisturbed>>

HandleStartResumes ==
  /\ Handle("start")
  /\ enabled /\ Named(Head(cmds).file) /\ Resumes(Head(cmds).file)
  /\ active' = [capture |-> resume.capture, of |-> Head(cmds).file]
  /\ resume' = NoCapture
  /\ UNCHANGED <<enabled, job, disk, undisturbed>>

(* Any other start throws away what is paused, and leaves alone what is    *)
(* being captured: its directory stays behind.                             *)
HandleStartAnew ==
  /\ Handle("start")
  /\ LET f == Head(cmds).file
         d == made + 1
     IN  /\ enabled /\ Named(f) /\ ~Resumes(f)
         /\ made' = d
         /\ dirs' = [e \in Dirs |->
                       IF e = d THEN [Removed EXCEPT !.meta = f]
                       ELSE IF PausedIn(e) THEN Removed ELSE dirs[e]]
         /\ newer' = {p \in newer : ~PausedIn(p[1]) /\ ~PausedIn(p[2])}
         /\ active' = [capture |-> [dir |-> d, file |-> f, count |-> 0], of |-> f]
         /\ resume' = NoCapture
  /\ UNCHANGED <<enabled, job, undisturbed>>

(* Mutants: an end of the capture that forgets one thing.                  *)
HandlePauseUndated ==
  /\ Handle("finish")
  /\ enabled /\ Capturing /\ ~Head(cmds).final
  /\ active' = NoCapture
  /\ resume' = [capture |-> active.capture]
  /\ UNCHANGED <<enabled, job, disk, undisturbed>>

HandleFailKeepsActive ==
  /\ Handle("fail")
  /\ enabled /\ Capturing
  /\ resume' = NoCapture
  /\ Assemble(active.capture)
  /\ UNCHANGED <<enabled, active, disk, undisturbed>>

HandlePause ==
  /\ Handle("finish")
  /\ enabled /\ Capturing /\ ~Head(cmds).final
  /\ active' = NoCapture
  /\ resume' = [capture |-> active.capture, expired |-> FALSE]
  /\ UNCHANGED <<enabled, job, disk, undisturbed>>

HandleFinish ==
  /\ Handle("finish")
  /\ enabled /\ Capturing /\ Head(cmds).final
  /\ active' = NoCapture
  /\ resume' = NoCapture
  /\ Assemble(active.capture)
  /\ UNCHANGED <<enabled, disk, undisturbed>>

HandleFail ==
  /\ Handle("fail")
  /\ enabled /\ Capturing
  /\ active' = NoCapture
  /\ resume' = NoCapture
  /\ Assemble(active.capture)
  /\ UNCHANGED <<enabled, disk, undisturbed>>

(* Disabled, or nothing is being captured: what is paused stays paused.    *)
HandleEndIgnored ==
  /\ Handle("finish") \/ Handle("fail")
  /\ ~enabled \/ ~Capturing
  /\ UNCHANGED <<memory, job, disk, undisturbed>>

-------------------------------------------------------------------------------
(* tick: first what is paused for too long, then a frame.                  *)

Ready == worker = "ready" /\ job = NoJob

(* A mutant: a disabled service does nothing.                              *)
TickFinalizesEnabled ==
  /\ Ready /\ enabled /\ Paused /\ resume.expired
  /\ resume' = NoCapture
  /\ Assemble(resume.capture)
  /\ UNCHANGED <<reported, cmds, api, enabled, active, worker, ctx, orphans, disk,
                 history, undisturbed, counters>>

TickFinalizes ==
  /\ Ready /\ Paused /\ resume.expired
  /\ resume' = NoCapture
  /\ Assemble(resume.capture)
  /\ UNCHANGED <<reported, cmds, api, enabled, active, worker, ctx, orphans, disk,
                 history, undisturbed, counters>>

(* The snapshot makes the directory again if it is gone.                   *)
TickCaptures ==
  /\ Ready /\ ctx = "live" /\ enabled /\ Capturing
  /\ Paused => ~resume.expired
  /\ active.capture.count < MaxFrames
  /\ LET c      == active.capture
         others == {f \in dirs[c.dir].frames : f.number # c.count}
         frame  == [number |-> c.count, of |-> active.of, after |-> Len(videos)]
         kept   == {e \in Dirs \ {c.dir} : dirs[e].frames # {}}
     IN  /\ dirs' = [dirs EXCEPT ![c.dir] =
                       [frames |-> others \union {frame}, meta |-> c.file, age |-> "fresh"]]
         /\ newer' = {p \in newer : c.dir \notin {p[1], p[2]}} \union ({c.dir} \X kept)
         /\ active' = [active EXCEPT !.capture.count = @ + 1]
  /\ UNCHANGED <<reported, cmds, api, enabled, resume, goroutine, made, history,
                 undisturbed, counters>>

-------------------------------------------------------------------------------
(* finalizeCaptureLocked: ffmpeg reads the frames from the first one it    *)
(* finds up to the next gap, and whatever it does the directory is removed *)
(* after it.  It is killed when the context of WorkerRun is done.          *)

FramesIn(d)  == dirs[d].frames
Age(d)       == dirs[d].age
NumbersIn(d) == {f.number : f \in FramesIn(d)}

Readable(d) ==
  {f \in FramesIn(d) :
     \E n \in NumbersIn(d) : n < Lead /\ n <= f.number /\ n .. f.number \subseteq NumbersIn(d)}

CanEncode ==
  /\ job # NoJob /\ job.count >= 2
  /\ Readable(job.dir) # {}
  /\ job.from = "run" => ctx = "live"

Encode == videos' = Append(videos, [dir |-> job.dir, frames |-> Readable(job.dir)])

AssemblyEnds ==
  /\ job # NoJob
  /\ (CanEncode /\ Encode) \/ UNCHANGED videos
  /\ RemoveAll({job.dir})
  /\ job' = NoJob
  /\ UNCHANGED <<reported, cmds, api, memory, worker, ctx, orphans, made, torn,
                undisturbed, counters>>

-------------------------------------------------------------------------------
(* WorkerStart: recoverOrphans takes every directory with frames for an    *)
(* interrupted capture, also one that s.active or s.resume is in.  The one *)
(* modified last may be resumed, the others are assembled.                 *)

FoundIn(d)   == [dir |-> d, count |-> Cardinality(FramesIn(d))]
FoundDirs    == {d \in Dirs : FramesIn(d) # {} /\ Age(d) # "old"}
Resumable(d) == /\ d \in FoundDirs /\ Age(d) = "fresh"
                /\ \A e \in FoundDirs \ {d} : <<d, e>> \in newer

WorkerStarts ==
  /\ worker = "stopped"
  /\ worker' = "recovering"
  /\ \/ \E d \in Dirs :
          /\ Resumable(d)
          /\ resume' = [capture |-> [dir |-> d, file |-> dirs[d].meta, count |-> FoundIn(d).count],
                        expired |-> FALSE]
          /\ orphans' = {FoundIn(e) : e \in FoundDirs \ {d}}
     \/ /\ \A d \in Dirs : ~Resumable(d)
        /\ orphans' = {FoundIn(e) : e \in FoundDirs}
        /\ UNCHANGED resume
  /\ RemoveAll({d \in Dirs : Age(d) = "old"})
  /\ UNCHANGED <<reported, cmds, api, enabled, active, ctx, job, made, history, undisturbed, counters>>

RecoverNext ==
  /\ worker = "recovering" /\ job = NoJob
  /\ \E o \in orphans :
       /\ \A p \in orphans : <<p.dir, o.dir>> \notin newer
       /\ job' = [dir |-> o.dir, count |-> o.count, from |-> "recovery"]
       /\ orphans' = orphans \ {o}
  /\ UNCHANGED <<reported, cmds, api, memory, worker, ctx, disk, history,
                 undisturbed, counters>>

RecoveryEnds ==
  /\ worker = "recovering" /\ job = NoJob /\ orphans = {}
  /\ worker' = "ready"
  /\ ctx' = "live"
  /\ UNCHANGED <<reported, cmds, api, memory, job, orphans, disk, history,
                 undisturbed, counters>>

Restart ==
  /\ stops < MaxStops
  /\ worker = "ready" /\ ctx = "live"
  /\ stops' = stops + 1
  /\ ctx' = "cancelled"
  /\ UNCHANGED <<reported, cmds, api, memory, worker, job, orphans, disk, history,
                 undisturbed, asked>>

WorkerRunReturns ==
  /\ Ready /\ ctx = "cancelled"
  /\ worker' = "stopped"
  /\ UNCHANGED <<reported, cmds, api, memory, ctx, job, orphans, disk, history,
                 undisturbed, counters>>

(* The process ends and is started again.  It may end after ffmpeg and     *)
(* before the clean-up, and while a .meta file is written.                 *)
Crash ==
  /\ stops < MaxStops
  /\ stops' = stops + 1
  /\ reported' = "idle"
  /\ \E on \in BOOLEAN : cmds' = <<[op |-> "config", on |-> on]>>
  /\ api' = NoRequest
  /\ enabled' = FALSE
  /\ active' = NoCapture
  /\ resume' = NoCapture
  /\ worker' = "stopped"
  /\ ctx' = "live"
  /\ job' = NoJob
  /\ orphans' = {}
  /\ undisturbed' = TRUE
  /\ \/ CanEncode /\ Encode /\ torn' = torn \union {job.dir}
     \/ UNCHANGED history
  /\ \/ Ready /\ Capturing /\ dirs' = [dirs EXCEPT ![active.capture.dir].meta = "unknown"]
     \/ UNCHANGED dirs
  /\ UNCHANGED <<made, newer, asked>>

-------------------------------------------------------------------------------
(* The clock: a directory that is not written to becomes older than 60     *)
(* minutes and than 24 hours, the ones written before it no later than it. *)

Older(a) == CASE a = "fresh" -> "stale" [] a \in {"stale", "old"} -> "old"

DirectoryAges(d) ==
  /\ FramesIn(d) # {} /\ Age(d) # "old"
  /\ \A e \in Dirs : <<d, e>> \in newer => Age(e) \in {"old", Older(Age(d))}
  /\ dirs' = [dirs EXCEPT ![d].age = Older(Age(d))]
  /\ UNCHANGED <<reported, cmds, api, memory, goroutine, made, newer, history,
                 undisturbed, counters>>

(* 60 minutes have passed since a pause, or since the last frame that was  *)
(* found.                                                                  *)
DeadlinePasses ==
  /\ Paused /\ ~resume.expired
  /\ LET d == resume.capture.dir
     IN  FramesIn(d) = {} \/ Age(d) # "fresh" \/ ActiveIn(d)
  /\ resume' = [resume EXCEPT !.expired = TRUE]
  /\ UNCHANGED <<reported, cmds, api, enabled, active, goroutine, disk, history,
                 undisturbed, counters>>

HandleCommand ==
  \/ HandleConfig
  \/ HandleStartRefused
  \/ HandleStartResumes
  \/ HandleStartAnew
  \/ HandlePause
  \/ HandleFinish
  \/ HandleFail
  \/ HandleEndIgnored

Recovery == WorkerRunReturns \/ WorkerStarts \/ RecoverNext \/ RecoveryEnds

Next ==
  \/ \E f \in Files : NotifyPrinting(f)
  \/ NotifyPaused
  \/ NotifyIdle
  \/ NotifyAborted
  \/ \E on \in BOOLEAN : Configure(on)
  \/ ManualStart \/ ManualPause \/ ManualStop \/ ManualResume \/ ManualSends
  \/ ManualDismiss
  \/ \E d \in Dirs : DeleteResolves(d)
  \/ DeleteChecks
  \/ DeleteRemoves
  \/ HandleCommand
  \/ TickFinalizes
  \/ TickCaptures
  \/ AssemblyEnds
  \/ Recovery
  \/ Restart
  \/ Crash
  \/ \E d \in Dirs : DirectoryAges(d)
  \/ DeadlinePasses

(* The goroutine goes on, its select passes over neither the ticks nor the *)
(* commands for ever, ffmpeg ends, and time passes.                        *)
Fairness ==
  /\ WF_vars(HandleCommand)
  /\ WF_vars(TickFinalizes)
  /\ WF_vars(AssemblyEnds)
  /\ WF_vars(Recovery)
  /\ WF_vars(\E d \in Dirs : DirectoryAges(d))
  /\ WF_vars(DeadlinePasses)

Spec     == Init /\ [][Next]_vars
FairSpec == Spec /\ Fairness
-------------------------------------------------------------------------------
(* A video never mixes the frames of two prints of different names,        *)
(* whatever was paused, resumed, interrupted and recovered in between.     *)
OneFilePerVideo ==
  \A i \in DOMAIN videos : \A f, g \in videos[i].frames : f.of = g.of

(* No frame is in two videos, although a capture may be finished by its    *)
(* end, by its deadline and by a recovery, unless the process has ended    *)
(* between ffmpeg and the clean-up: what a later video of a directory      *)
(* shows was taken after the earlier one.                                  *)
FrameInOneVideo ==
  \A i, j \in DOMAIN videos :
    i < j /\ videos[i].dir = videos[j].dir /\ videos[i].dir \notin torn =>
      \A f \in videos[j].frames : f.after >= i

(* A video is of one print and shows every moment of it at most once.      *)
VideosDoNotMix == OneFilePerVideo /\ FrameInOneVideo

(* Frames are only captured while something is printed, or a command is on *)
(* its way that will end the capture: the last end of a print is not       *)
(* overtaken.  A dropped command, a service that was disabled meanwhile    *)
(* and a start by hand are the exceptions.                                 *)
CaptureFollowsPrint ==
  undisturbed /\ Capturing /\ reported # "printing" => cmds # <<>>

(* A paused capture does not wait for ever: it is resumed, assembled or    *)
(* thrown away, also when the service is disabled or restarted meanwhile.  *)
PauseEnds == Paused ~> ~Paused

(* timelapse.go:194, "FailCapture assembles partial timelapse (if enough   *)
(* frames)": also when the print was paused before it was aborted.         *)
FailAssembles ==
  [][ /\ Len(cmds') < Len(cmds) /\ Head(cmds).op = "fail" /\ enabled
      /\ Paused /\ resume.capture.count >= 2
      => job' # NoJob ]_vars
===============================================================================
