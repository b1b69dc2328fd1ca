# Verification of ankerctl's services

TLA+ models of the Go program under `internal/`, checked with TLC on small
instances, and theorems about them checked with TLAPS for every instance.
ankerctl is a server that talks to a 3D printer: to the vendor's MQTT broker in
the cloud, and to the printer itself over PPPP, a peer-to-peer protocol on UDP.
A web front end and slicers use it to watch, print and upload.

Contents: [the system](#the-system) · [modules](#the-modules) ·
[runs](#the-runs) · [fairness](#fairness) · [proofs](#the-proofs) ·
[disagreements found](#where-the-code-and-its-comments-disagree) ·
[what is left out](#what-is-not-modelled) · [plan](#plan) · [how to run](#how-to-run)

## The system

`cmd/ankerctl/main.go` wires the parts together. The services run as goroutines
for the life of the process; HTTP handlers and websockets, one goroutine per
request, call into them.

| component (source) | state it keeps | operations | made hard by |
|---|---|---|---|
| worker lifecycle (`service/worker.go`) | run state, `wanted`, holdoff, loop and run contexts, done channel | `Start`, `Stop`, `Restart`, `Shutdown`, the run loop with the hooks `WorkerStart/Run/Stop` | the loop acts on a snapshot taken under a lock it has let go |
| service manager (`service/manager.go`) | reference counts, registration order | `Borrow`, `Return`, `RestartAll`, `Shutdown` | count and call are two steps; handlers run during the shutdown |
| filament swap (`web/handler/filament_service.go`) | the one swap in progress, its phase and token | Start, Confirm, Cancel, two background goroutines | check and store in separate critical sections; goroutines outlive requests by minutes |
| PPPP channel (`pppp/protocol/channel.go`, `cyclic.go`) | counters, backlog, window, early acks, receive queue | `WriteContext`, `Poll`, `RXDrw`, `RXAck`, `ResetTx` | loss, duplication, reordering, a 16-bit index that wraps |
| PPPP client (`pppp/client/client.go`) | connection state, 8 channels, socket | discovery, `Run`, `process`, `Close` | a packet processed while `Close` is under way; two goroutines read the socket |
| PPPP service (`service/pppp.go`) | current client, reply handlers | `WorkerStart/Run/Stop`, `Upload`, `Command`, probes | an upload keeps a client that a restart replaces; late replies; service and probe want one UDP port |
| file transfer (`service/filetransfer.go`) | request queue | `SendFile`, `WorkerRun` | callers leave, the worker is restarted, the queue is bounded |
| MQTT queue (`service/mqttqueue*.go`) | print state, pending history, stored file, z-offset | handlers of `ct=1000`, `1044`, `1001`, `1021`; commands; queries | messages in any order; one notification channel for all waiters; replies that name no request |
| print history (`db/history.go`, `web/handler/history.go`) | one SQLite table | record start, finish and fail, archive info, delete, clear, prune | rows left open by a crash; a deletion that checks first and deletes later |
| timelapse (`service/timelapse*.go`) | active and resumable capture, files on disk | start, finish, fail, configure, manual control, recovery | a bounded command channel; crashes; a 60-minute resume window |
| video queue (`service/videoqueue.go`, `web/ws/video.go`), MJPEG (`service/mjpeghub.go`) | enabled flag, profile, stream | enable, stream, stall detection, framing | check-then-act on `State()` and `Refs()`; markers split over reads |
| configuration (`config/manager.go`, the handlers that write it, `cmd/ankerctl/configcheck.go`) | one JSON file, a table of addresses | `Load`, `Save`, `Modify`; login, logout, upload, switch, searches, settings, repair | handlers write what they loaded minutes ago; written in place |
| PPPP badge (`web/ws/pppp.go`) | one shared probe, its result | poll, probe, retry | the result outlives what it was about |
| notifications (`notifications`), home assistant (`service/homeassistant.go`) | last state told; retained messages | transitions, thresholds; connect, heartbeat, will | bounded channels, failed posts; three goroutines that publish |
| printer alerts (`web/handler/printer_state.go`), log ring (`logging/ringbuffer.go`) | rings of fixed size | append, poll with a cursor | a cursor that has left the ring |
| G-code archive (`service/gcodearchive.go`, `web/handler/slicer.go`) | files, columns of the history | archive, reprint | the process is killed in the middle of a write |
| packets and crypto (`pppp/protocol/packet.go`, `pppp/crypto`), cloud API (`internal/httpapi`, `internal/crypto`), G-code analysis (`internal/gcode`), command line | none | encoding, I/O | – |

How they interact. A handler borrows a service by name from the manager, uses
it and returns it; the first borrow starts its worker and the last return stops
it. `main` holds the notifications, the timelapse and the home assistant service
for good. The slicer's upload handler borrows both the PPPP and the file transfer
service; the video queue starts the PPPP service directly when it needs it; the
PPPP service writes the address it found into the configuration. The
MQTT queue reports to the print history, the timelapse service, home assistant
and the notifications. A file goes from the HTTP handler to `SendFile`, to the
file transfer worker, to `PPPPService.Upload`, to channel 1 of the client, and
over UDP to the printer. On a signal or a shutdown request `main` shuts the
manager down while the HTTP server is still ending its handlers.

What correctness means, per component, is in the tables of runs below; the list
of everything in the code that is hard to test, each at its line with the
properties that watch it, is under `hazards` in `PROJECT.json`.

## The modules

Every constant, variable and action has a comment in its module; `map` in
`PROJECT.json` gives the lines of code each definition stands for. A mutant is a
definition placed before the one it changes; nothing uses it except the check
that a property notices it.

`HookContract` – the abstract specification: in which order a service may find
its hooks called. Six hook transitions, no loop, no contexts.

`BaseWorker` – `worker.go` in full. `state`, `wanted`, `initialized`, `holdoff`
are the fields (the deadline is "zero", "ahead" or "elapsed"), `loopCtx` and
`runCtx` the two contexts, `loop` the program point of the run-loop goroutine,
`seen` the locals of its snapshot. Start, Stop, Restart and Shutdown are one
critical section each. The loop is cut where it takes or releases the lock, where
it polls `loopCtx`, and where a hook begins and ends, so a request can fall
anywhere between. `waitLoopSignal` reads nothing and is no step of its own.
`open` is history: `WorkerStart` succeeded, `WorkerStop` not yet returned. It is
what the refinement mapping `hook` and the state properties speak about.

`ServiceManager` (extends `BaseWorker`) – `manager.go` for one name of its maps,
which are independent of each other. `refs` is the count; `client` is where each
borrower is, with a point of its own between the count and the call of `Start` or
`Stop` that follows it after the unlock. `manager` is main's `Shutdown`: the first
pass calls `Stop`, the second `Shutdown`, which waits for the loop it found.

`FilamentSwap` – the swap handlers and `runLegacySwapUnload`/`runLegacySwapLoad`.
`swap` is the package variable; a request and the goroutine it leaves behind are
one process, since after the `go` statement the handler only writes its response.
The actions follow the critical sections: check, store, (abandon or launch) for
Start; copy, act for Confirm. `swapStateUpdate` and `swapStateClear` compare the
token as the code does. `moved` is history: the unload moves that were sent.

`CyclicU16` – the index order of `cyclic.go`, for any ring of its shape.

`PpppChannel` (extends `CyclicU16`) – `channel.go`, sender and receiver of one
direction, with the network between them. A chunk is named by its position in the
stream so that the properties can tell two chunks with one index apart; every
test in the actions uses the cyclic index, as the code does. A packet may be
delivered any number of times, in any order, and lost at any time.

`Upload` – `filetransfer.go`, `PPPPService.Upload`, `waitConnected`, `waitReply`
and the dispatch of replies, with the HTTP callers on one side and the printer on
the other. A caller borrows the file transfer service, is in `SendFile`, and returns the
service; the count and the Start or Stop it decides are two steps, so that a service can
be held and not `wanted`, as `BorrowedIsWanted` of `ServiceManager` shows, until a
`RestartAll` wants it again. A live client's channel is a reliable FIFO here, which is what
`PpppChannel` establishes; a client that is closed loses what was on its way, and
an upload that kept it writes into nothing. `ResetTx` changes nothing at the
places where `Upload` calls it: that is `ResetFindsNothing`, a part of `DeliveryIsKnown`
of `PpppChannel`. `up.late` is history: a reply was given up on.

`Timelapse` – `timelapse.go`, `timelapse_controls.go` and the deletion of a
collection in `timelapse_snapshots.go`. `cmds` is `cmdCh`; `active`, `resume` and
`enabled` are the fields of the same names, a deadline being passed or not;
`worker` and `ctx` are where the service's goroutine is and whether the context of
its `WorkerRun` is done. A command is handled in one step, as it is under `s.mu`,
except for the assembly of a video, which is `job` and holds `s.mu` until ffmpeg
ends (`Locked`; the assembly during recovery holds no lock). An HTTP request is cut
where it lets `s.mu` go (`api`). `dirs` is what is on disk and survives a crash,
`newer` tells which of the directories with frames was written to after which, and so
which one `recoverOrphans` resumes; `orphans` are those it has still to deal with. A frame carries, as history, the name of the
print its capture was asked for; `videos` is the history of what was assembled.

`PrintLog` – the abstract history: one entry after the other, at most one open, a
closed one never opened again. Two steps.

`PrintHistory` – the table of `history.go` and the two deleting requests. An
operation is one transaction under `d.mu` and one step; `RecordStart` resumes,
completes or inserts as the code does. `checked` is what a request has found not in
progress before it deletes, `ahead` the ids it named that no row had had yet: they pass
the check, and the row that gets such an id can be deleted while its print is going on. `Log` is the refinement mapping to `PrintLog`.

`PrintMonitor` (extends `PrintHistory`) – `handleCT1000`, `handleCT1044` and
`handlePrintSchedule` of the MQTT queue, `StartStoredFile` with the handler that
calls it, and the row the slicer's upload records. Handlers run one after the
other; what one has decided under `q.mu` and not yet recorded is `recording`.

`ZOffset` – `SetZOffset`, `NudgeZOffset`, `RefreshZOffset`. The printer's own
offset is a variable, the moves and reports under way are queues. `quiet` is
history: no other request and no foreign report crossed this one.

`PrinterQueries` – the requests that tap the MQTT messages and collect replies for
a while: the bed grid, the three reports, the list and preview of stored files.
A reply carries, as history, what it is about and for whom; of that the code sees the
source a path tells, the file of a preview, and whether a text is a grid. A path under
neither root ("elsewhere") passes for the source that was asked for, whoever asked, and
the preview of a stored file is cached for everybody.

`VideoQueue` (extends `BaseWorker`) – the hooks of `videoqueue.go`, its enable flag,
and the users: sockets, control messages, downloads, each a process of one kind
(`KindAssumption`). The count of the manager is repeated here as `queueRefs`, since the
sockets decide by it.

`MjpegFrames` – `ReadMJPEGFrames`: a stream of markers and bytes, read in chunks
that end anywhere, against the frames that are sent. `cuts` is history: where in the
whole stream each frame began and ended. With it the property says without recursion
that the frames are the pictures of the stream, one behind the other.

`PpppSession` (extends `HookContract`) – two clients, the service's and the
probe's, with the handshake, `Run`, `process`, `Close`, and the one port both bind.
The hooks come in the order `HookContract` promises, which is what `BaseWorker` is
proved to implement.

`ConfigStore` – the file, the table of addresses, and everything that writes them. A
start of the PPPP service reads the file (`loaded`) and is connected a good while later
(`attached`); a restart that meets it in between may not stop it (`missed`).
`MCConfigStore` gives TLC two printers in either order. `Modify` is one step; a
handler that loads first and writes later is two, and keeps what it loaded. What a
step may change of the file (`OneChange`) is the active printer, one setting, or the
address of the printer with one serial number.

`Subsequence` – what the filtering loops of `config/manager.go` leave of a slice, as a
function of places: `SelectSeq` of the standard module is recursive, and nothing could
be proved of what it returns.

`HomeAssistant` – the worker, `onConnected` and the handler of a lost connection each
change `s.state` under the lock and publish, if at all, in a later step. `setOnline` is
in the state they publish. `haRaced` is history: a payload is under way that is older
than the state, or the state was changed by a handler that publishes nothing.

`AlertBuffer`, `LogRing`, `PpppStatus`, `Notifications`, `GcodeArchive` – one component
each, of the size of their code's control.

Composition: `ServiceManager` = manager + clients + one `BaseWorker`; `VideoQueue` =
queue + clients + `BaseWorker`; `PrintMonitor` = queue + requests + `PrintHistory`;
`PpppSession` = service + probe + clients on `HookContract`. `Upload` composes the
callers, the worker, the client and the printer, and stands on the channel's
properties instead of repeating its steps. `Timelapse` has the part of `MqttQueue`
that reports to it, and of its own `BaseWorker` the restart alone. `Peripherals` is
no composition in this sense: it puts nine components that share no variable side by
side, a behaviour being one of any of them, so that one run checks them all.

## The runs

What `expect` in `PROJECT.json` means: *pass*, TLC explores every state and finds
nothing; *violation*, TLC finds the documented behaviour broken.

| run | states | question |
|---|---:|---|
| `services` | 94,444 | three clients, a restart and a shutdown over one worker: the hooks stay in order (refinement of `HookContract`), the count is the number of holders, an unused service is not wanted, a wanted one is served, Stop, Restart and shutdown that find `WorkerRun` take effect |
| `filament_swap` | 234,205 | two Starts and two Confirms at once: load never runs during unload of the same swap, a phase that locks everybody out has somebody who ends it and it does end, the user is called only after the unload, a finished swap stays finished |
| `pppp_channel` | 218,407 | loss, duplication, reordering and wraps: the stream arrives once and in order, what the sender takes for delivered is (an acknowledgement, the end of a blocking write, a reset), and both ends come to an end |
| `upload` | 615,291 | late and refusing printer, replaced clients, leaving callers, a service borrowed and returned: a print never starts of half a file, success means every block accepted, an aborted upload frees the worker, and a caller who stays is answered unless its upload is stranded on a closed client or its service was stopped under it |
| `timelapse` | 441,428 | pauses, aborts, HTTP requests, a full command channel, a restart, a crash: no video mixes two prints, no frame is in two videos, a capture does not outlive its print, a pause ends |
| `print_monitor` | 3,791,130 | reports, stored-file starts, an upload and deletions: each print is reported once and a failed start takes back its note, the table implements `PrintLog`, the row of the print under way is not deleted, but by a request that named it before it was there |
| `video` | 484,913 | sockets, control messages and downloads: a stopped queue has closed its stream, an unused one is not wanted, a watched one streams again and again |
| `pppp_session` | 34,994 | service and probe on one port: it has one owner, a loop reads its own socket, `Close` returns, a session connects or is given up |
| `config` | 764,719 | every writer of the configuration with a crash in a write: a write changes one thing and keeps the rest; after a logout the PPPP service lets the printer go, unless the restart met it in a start that had read the file |
| `peripherals` | 991,762 | alerts, logs, queries, MJPEG, notifications, home assistant, reprint, z-offset, badge: nobody misses what is there without being told, what leaves the program is true |
| `borrow_race` | violation | a held service ends up not wanted |
| `home_assistant` | violation | an enabled home assistant service is not started |

Every property of a passing run has a mutant: a plausible bug in one mapped
definition under which TLC finds that property violated with the same cfg.

### Bounds

- `services`: three clients, so that one can come while a second leaves and a
  third holds; `MaxRestarts = 1`, since each further Restart meets the same states
  and only `NoLeak` looks at the number. `KeepRunning = FALSE`: with `TRUE` no
  Return ever stops the service, which `CountInvariant` covers in the proofs and
  `VideoQueue` in detail. `BaseWorker` itself has no bound.
- `filament_swap`: two processes of each kind; `MaxSwaps = 3` so that two racing
  Starts can be followed by a swap that replaces both while their goroutines live.
  The proofs remove all three bounds.
- `pppp_channel`: a ring of 12 indices (`Half = 6`) with a wrap limit of 3 in the
  place of 65536 and 256, a window of 2 for 64, writes of up to 3 chunks, and a
  stream of 16, so that the index wraps and early packets of the second turn meet
  late ones of the first. `MaxSpan` and `MaxLag` are at most `WrapLimit`, as in the
  code, where a block of 32 KB with its header is 33 chunks and the wrap limit 256: a packet that is
  overtaken by more than `WrapLimit` chunks would be taken for a new one, and
  `MaxLag` is that assumption about the network. Larger instances hold too:
  `MaxLag = 2` with 14 chunks, `MaxChunks = 25` (two wraps), and `Half = 4`,
  `WrapLimit = 2`, `MaxLag = 2`; the proofs remove every bound but the two
  assumptions.
- `upload`: two requests and a queue of one (8 in the code), so that one uploads, one is
  queued or waits for room, and one may leave and stop the service while the other
  comes; two blocks, so that there is a first and a last one; two clients, so that one
  can replace another under an upload; one reply on its way beside the one in `replyCh`,
  so that a late one is taken for the next frame's and a prompt one is dropped because a
  late one is in its place. `maxDataRetries` is the code's. Also checked: the safety
  properties with three blocks and two replies on their way, the liveness with one block
  and two replies.

- `timelapse`: one name of a print beside the one `ManualStart` makes up, so that
  captures of two names exist; two captures of two frames (two are the least ffmpeg
  is run for); one restart or crash; one HTTP request; a command channel of one (16
  in the code), so that every command may be dropped, `Configure`'s way around a
  full channel included. `Lead = 1` is 5 in ffmpeg. Also checked, without the
  liveness property where the instance is large: a channel of two, two requests, and
  two restarts with the requests "stop" and "resume".

- `print_monitor`: two files, one of them a placeholder name, two starts, one
  deleting request, two rows, and ids up to 2 to select, so that one can be named before it
  is given. A second row is what an end may close by mistake; a
  third was tried without the second start and showed nothing new. No task ids in
  this instance: `PrintMonitorProofs` has them.
- `video`: two sockets, a control page and a download, of which any two at a time
  (`Casts`): the interesting crossings are of two clients with the run loop.
- `pppp_session`: no constants. Each client has one packet of a kind under way.
- `config`: two printers, one request of any kind beside the service, the repair, the
  background discovery and the crash; one start of the program, so the start that finds
  half a file is in the model (`Crash`, `Boot`) and not in this run. `Unsupported = {}`: the stripping of
  devices without support is in the model and not in this instance.
- `peripherals`: alerts, a ring of 2 and 6 alerts, so that a cursor can fall out twice; log,
  a ring of 3 and 7 lines, twice around; MJPEG, 8 bytes in chunks of 2, a buffer of 4
  and a channel of one frame, so that markers are split, two pictures follow each other,
  the channel is full and the buffer overflows;
  z-offset, two requests and two reports under way; badge, two pages; notifications,
  a tap of 2; home assistant, a queue of one; queries, two requests, a channel of one
  reply and two on the way; archive, two uploads of two names, a reprint, a kill.

`CHECK_DEADLOCK FALSE` stands where the bounds on swaps, chunks, clients, captures and
requests let the modelled world come to an end. The manager with its worker, the
print monitor, the video queue and the PPPP session are checked for deadlock.

## Fairness

Each is weak fairness unless said otherwise; a request, a failure, a loss or a
reply is never forced.

- *Run loop* (`BaseWorker`, `ServiceManager`): the goroutine goes on, with a 50 ms
  tick where it waits, and its hooks return. `WorkerStart` and `WorkerStop` are
  bounded by timeouts of their own (the home assistant service waits 10 s for its broker).
  `WorkerRun` is assumed to return once its context is cancelled, not before.
  For the file transfer service that takes as long as the upload it is in, which
  `Upload` treats on its own. The holdoff elapses: it is a clock.
- *Manager*: a goroutine inside `Borrow`, `Return` or `Shutdown` makes its second
  step. Nobody is forced to borrow or to return.
- *Filament swap*: a request that has begun and a goroutine that was started go
  on. A publish ends: the MQTT client is built with `SetAutoReconnect(false)` and a
  clean session, so its token completes with the broker's answer or with the loss
  of the connection, which keep-alive notices. `waitForNozzle` gives up after 240 s.
- *Channel*: the 25 ms ticker of `Client.Run` polls for ever (weak fairness on the
  oldest unacknowledged chunk), and what is sent for ever arrives at last (strong
  fairness on its packet and on its acknowledgement). A blocked writer looks every
  250 ms. Nothing is assumed of the other packets.
- *Upload*: a request makes the second step of its Borrow or Return and picks up its
  answer; the service is opened when it is wanted (`WantedIsServed` of `ServiceManager`),
  and not when it is only held; the waits for a connection (10 s) and for a reply (15 s)
  end, and a live channel delivers. `TakeRequest` has strong
  fairness: Go's `select` picks at random among its ready cases, so a worker that
  is stopped and started again does not pass over its queue for ever. The printer
  need not reply and the client need not be closed or replaced.

- *Timelapse*: the goroutine's `select` picks at random among its ready cases, so
  neither the one-second ticks nor the commands are passed over for ever; ffmpeg
  ends, or is killed with the context; recovery goes on; the clock moves. No frame
  need be captured, no report need come, nobody need ask for anything.

- *Video*: as for the run loop; `WorkerRun` returns when its context is cancelled or
  the stream stalls (its own 10 s check), a client that has begun a request goes on.
- *PPPP session*: `Run` wakes up from its read every 25 ms and leaves when its context
  is done or `Close` has set the state; the deadlines of `WorkerRun` (10 s) and of the
  probe pass. No packet need arrive: the printer may be silent for ever.
- *Configuration*: a logout that has begun reloads the services. Nothing else.
- *Badge*: an open page polls once a second, a probe ends (its context has 5 s), and
  time passes. `BadgeCatchesUp` supposes that the printer, the service and MQTT stay as
  they are; nothing makes them.

Under a scheduler without these, a goroutine simply stops and no liveness
property of the code could hold.

## The proofs

Eight modules of proofs, each extending the modules it is about. They use the named
assumptions on the constants and nothing else: no bound of a cfg appears. Every
invariant and every action property of a passing run is stated by a theorem; what is
left to TLC is liveness.

Each proof has the shape: an invariant that is inductive, one lemma per action (or per
group of actions that write the same), and the property from it. What the invariant
has to say beyond the property is what follows.

### `ServiceManagerProofs`: worker, manager, video queue

The loop acts on a snapshot that may be stale, so what `State()` tells is not an
invariant by itself: `state = "running" => open` is preserved by the branches only if
the snapshot was right when it was taken and only requests came after. `LifecycleInv`
says this at each point of the loop: a stale snapshot differs from the state only by a
Restart (`StaleButSafe`), what the snapshot says is true of `open` (`SeenTellsOpen`),
and so is the hook that is being executed (`HookTellsOpen`). From it follow
`StateIsTruthful`, `GoneLoopHasClosed`, `StaleSnapshotIsSafe` and `HooksAreInOrder`:
every step of the worker is a step of `HookContract` or a stutter under the mapping
`hook`.

`ManagerImplementsWorker`: every step of manager, clients and loop is a step of
`BaseWorker` or leaves it alone, so all of the above holds of a managed service
(`ManagedHooksAreInOrder`). `CountInvariant` is for any finite set of clients, with the
cardinality lemmas of `FiniteSetTheorems`. `NoLeak` speaks of the settled states and is
not inductive; `WantedHasReason` is: a service that was never restarted is wanted only
while somebody holds it or the Stop of the last Return is still to come.
`ShutdownWaitsForDoneLoop`: the loop the shutdown waits for is one that was told to end.

The video queue is another environment of the same loop (`VideoHooksAreInOrder`).
`VideoCountInv` has the same two ideas as `CountInv`, the count is the number of
holders and a wanted queue has a reason (`VideoReason`), where a reason can also be a
socket or control message between two of its steps, and a third: the stream is live
only while the hooks are open (`LiveIsOpen`). `VideoIsSound`, for any number of sockets.

### `FilamentSwapProofs`

For any number of concurrent requests. Since the conflict check does not keep two swaps
apart (`OneSwapAtATime`), the argument cannot be that there is one swap; it goes by
token. `TokenInv`: tokens are fresh, no two Starts share one, and what a process
remembers of its swap is true of it. `UnloadInv`: while the Start of a legacy swap is at
work the swap is in an unload phase, so no Confirm can have copied it. With the types,
the points each kind of process can be at, and the two properties
`ActivePhaseHasWorker` and `AwaitAfterUnload` themselves, this is inductive
(`SwapInvariant`). `GoneSwapStaysGone` is an action property from the same invariant.

### `PpppProofs`: channel and session

The channel, for every ring of the shape of `cyclic.go`, every window, length of stream
and every lag up to the wrap limit. First arithmetic: on two counters at most
`WrapLimit` apart the code's two cyclic orders are the order of the counters
(`AfterIsOrder`, `GreaterIsOrder`), and counters less than a turn apart have different
indices (`CyclicInjective`); `RunEnds` says what the two loops over consecutive indices
find. `ChannelInv` then keeps everything that is about near its counter: packets
(`DataNear`), the receive queue (`QueueNear`), acknowledgements under way and early ones
(`DataAcksNear`, `AcksNear`), and says that an acknowledged chunk has landed.
`InOrderExactlyOnce` and `DeliveryIsKnown` follow. `MaxSpan <= WrapLimit` and
`MaxLag <= WrapLimit` are where the proof needs the code's wrap limit of 256: without
either of them the property is false.

The session: `SInv` says which of the two users can hold the port at each point of its
hooks, that a loop exists only between `Run` and the end of `Close`, and what each packet
on the way can still do (`SessionIsSound`).

### `UploadProofs`

`UploadInv` ties what the worker believes (stage, position, reply awaited) to what is on
its way to the printer and what the printer has, so that END is under way only behind the
whole file (`WholeFileIsStarted`). `SuccessIsAcceptance` needs more: an upload that gave
up on no reply has at most one frame unanswered, every block before it was accepted, and
a reply on its way or in the channel answers that frame (`OneFrame`). `PunctualInv` is
this while `~up.late`, and is inductive with `UploadInv`; that it fails with a late reply
is the caution below.

### `TimelapseProofs`

After a restart one directory may be in `s.active` and in `s.resume`, and after a crash
nobody knows whose it is, so a video cannot be kept to one print by who owns the
directory. What is inductive is that each *name* the program has for a directory with
frames – in `s.active`, `s.resume` and `.meta` – is the name of the print of all its
frames, or "unknown", which no start can resume (`DirsInv`, `OwnerInv`). That no frame is
in two videos is an order: what is in a directory was captured after the last video made
of it (`LaterFrames`). `Budget` bounds directories by the starts under way and is about
the model's bound alone. `CapturesFollowPrints` goes by the queue: while nobody disturbs
the service, a start that is still in it when nothing is printed any more has an end
behind it (`FollowInv`). Any number of prints, captures, frames, requests and crashes,
and any channel.

### `PrintMonitorProofs`: history and monitor

`HistoryInv`: only the row inserted last can be open, and a row a request has checked is
not open – the ids are never given twice, and that is what the gap between check and
deletion needs. An id that was checked ahead of its row is not covered, and is the
exception `InProgressIsKept` states. `HistoryIsLog` is the refinement of `PrintLog`, `InProgressStays` the
action property, for all files, tasks and limits.

`MonitorImplementsHistory`: a step of the queue is one of the table or leaves it alone,
so both hold of it too (`MonitorIsLog`, `MonitorKeepsInProgress`). `MonitorInv` adds that
a print is in exactly one of three places – reported, waiting for its name, about to be
recorded (`Noted`) – and that a pending path was set by a start that is still at work or
went through (`PendingWasMarked`). `PrintsAreLogged`, for any number of starts.

### `ConfigStoreProofs`

`NoUpdateIsLost`: each write but a login or an import changes one thing of what is on
disk and keeps the rest, for any set of printers, requests, settings and devices.
`StoreInv` is types, and that a request with a list of searched devices has one; the
weight is in the lemmas: what `Subsequence` returns for the rows a filter leaves
(`Stripped` is kept), and that each of the handlers' functions is `OneChange` of the
configuration it finds, not of the one it loaded before.

### `PeripheralsProofs`

The nine small components one by one, then together: they share no variable, and a
behaviour of `Peripherals` is one of each of them (`EachOnItsOwn`).

- *Z-offset*, `ZInv`: until the printer makes the one move of an undisturbed request,
  every report there is tells an offset that is not the target; once it made it, no
  other move is left.
- *Alerts*, `AlertInv`: the buffer holds the last alerts without a gap, and no cursor is
  ahead of them. *Log*, `LogInv`: a slot holds the line its place says, counted back from
  the head; `%` by `ModOnce`.
- *MJPEG*, `MjpegInv`: the buffer is the rest of the stream, every start marker behind
  the last picture is in it, and it is empty only right behind a picture, so that no half
  marker was thrown away (`StartsAreKept`); behind the last picture there is no whole one
  when the reader reads. A marker of the buffer is one of the stream (`MarksOfRest`), and
  what is read later changes no earlier picture (`PictureStays`).
- *Notifications*, `NotifInv`: the state the service saw last, or the last event with a
  state in the queue, is the printer's. *Home assistant*, `HaInv`: while nothing has raced,
  a payload that is still to be published, by the worker or by the handler, is the state,
  and with the link up the broker has the state once both are past their publish.
  *Archive*, `ArchiveInv`: a
  row, and a row a reprint holds, names an upload whose G-code is whole. *Badge*: its
  types.
- *Queries*, `QueryInv`: a request listens from before it asks until it is done, and all
  that is on its way to it or in its channel is what it wants. So none goes past it
  (`RepliesReachRequest`), a preview is of its file, and a list has no file of another
  source by its path (`AnswersFit`); files under neither root may be another request's.

`NothingGoesMissing`, `OutsideKnows`, `FramesAreCutRight` and `OffsetChangesAreTrue` are
the properties of the run.

Only model-checked: the liveness properties (`WantedIsServed`, `RequestsReachWorker`,
`ActivePhaseEnds`, `TransferEnds`, `UploadsEnd`, `PauseEnds`, `WatchedIsStreamed`,
`CloseReturns`, `SessionSettles`, `LogoutDetaches`, `BadgeCatchesUp`), since the prover
does not do fairness or `ENABLED`. No module uses a RECURSIVE operator.

The assumptions on constants ask for what the code has: buffers and channels that hold
at least one, sets that are finite where they are counted, names that differ from "none",
and at least one name of a file and one value of the home assistant state.

## Where the code and its comments disagree

Each is a definition that TLC refutes. The first two are runs of the project; the others
are stated in their modules, and putting one in the place of the properties of the cfg
that checks the module shows the counterexample. None has to do with the bounds.

1. `main.go:167` the home assistant service "starts automatically when enabled". `main`
   borrows "ha" (201) and the service is registered as "homeassistant"
   (`homeassistant.go:102`): it is never started. (`home_assistant`.)
2. `manager.go:39` "Borrow increments the reference count and auto-starts on
   transition 0->1". The Start of a Borrow can come before the Stop of an earlier
   Return, and then the service is held but not wanted; no later Borrow starts it,
   since the count is not 0. (`borrow_race`.) The caller of an upload has no timeout
   (`slicer.go:102`) and then waits as long as its client does (the exception of
   `CallerIsAnswered`).
3. `handler/config.go:478` "ConfigLogout deletes the stored credentials and stops all
   services". The PPPP service reads the file at the beginning of its start
   (`pppp.go:89`). A Restart during the start has nothing to cancel and what it sets is
   overwritten (`worker.go:293`): the service connects when the logout is over.
   (`LogoutStopsServices`; `LogoutDetaches` is what does hold.)
4. `worker.go:143` "Stop requests the worker to stop". A Stop that comes after the
   loop's snapshot and before `newRunContext` (304) finds no context to cancel, and
   `WorkerRun` is then called with a live one. Nothing looks at `wanted` again until
   it returns. (`StopIsObeyed`; `StopReachesRun` is what does hold.)
5. `worker.go:154` "Restart requests stop + delayed start (1 second holdoff)". During
   `WorkerStart` the request is overwritten by "running" and the holdoff cleared
   (293). (`RestartIsObeyed`; `RestartReachesRun` holds.)
6. `filament_service.go:742` "only one swap in progress at a time". Check and store
   are two critical sections (743-749, 795-797). (`OneSwapAtATime`.)
7. `pppp.go:444` "Only retry on DRW-level timeouts, not application errors". The test
   for a timeout decides about `ResetTx`, not about the retry. (`RetryOnlyOnTimeout`.)
8. `timelapse.go:194` "FailCapture assembles partial timelapse (if enough frames)
   with _partial suffix". `failCaptureLocked` returns when nothing is being captured
   (404), and while a print is paused nothing is: the frames of a print aborted in a
   pause wait in `s.resume` for the 60 minutes, or are removed by the next print of
   another name. (`FailAssembles`.)
9. `pppp.go:109` "the DUID filter ensures we latch onto the right printer". A packet of
   another device that arrives between is taken for the printer's address, which is
   persisted. (`PersistedIsPrinter`.)
10. `config/manager.go:271` settings are preserved "when re-importing from the Anker
   API". `MergeConfigPreferences` is called nowhere; a login writes the defaults.
   (`LoginKeepsSettings`.)
11. `lansearch.go:12` "persists matching printer IPs into the config". Devices are matched by
    DUID with the list that was loaded before the search, and the address is written at the
    index found there (58-70): if the list has changed meanwhile, into the row of another
    printer. (`AddressesMatch`.)
12. `selector.go:39` the selector "sets the active printer index in config and restarts
    services". The services keep the index they were made with. (`ServesSelected`.)
13. `ws/video.go:33` "disable it when the last client disconnects", and 31 "Now we
    enable it here". Two sockets that leave at once each see the other's reference; one
    that comes while the last leaves is disabled by it. (`LastClientDisables`,
    `ViewerFindsVideo`.)
14. `mqttqueue.go:713`, `SetZOffset` succeeds when the offset is what was asked for. Not if
    a second request or a report of the printer's own crosses it. (`ChangeIsTrue`;
    `QuietChangeIsTrue` is what does hold.)
15. `slicer.go:107` the archive is attached to the row of the upload; a print that the
    queue recorded in between is the newest row. (`UploadFillsRow`.) `README.md:31`, the
    history is told of finished prints: a print whose end was missed stays open until
    the next starts. (`EndedPrintIsClosed`.)
16. `mqttqueue_files.go:286` a stored-file start "is in flight": the path is kept after a
    start that was confirmed. (`PendingIsInFlight`.)

A caution about `SuccessMeansAccepted`: it holds as long as no reply was given up
on. A reply that comes after its 15 s is taken for the answer to the next frame,
so with one late reply an upload can report success for a block the printer
refused; nothing in the code claims otherwise.

A caution about `InProgressIsKept`: the request that deletes history rows takes any
number for an id. One that has no row yet passes the check (`handler/history.go:356`),
and when a print gets it before the deletion, its row is deleted while it is going on.

And two about `Timelapse`. The frames are removed when ffmpeg has ended, however it
ended, and a restart of the service kills it: a restart while a video is being
assembled loses the video and the frames. `CaptureFollowsPrint` has exceptions that
are real: when a finish finds the service disabled the capture stays active, and a
service that is enabled again goes on with it outside any print.

Seen in the small components, with no text of the repository that says otherwise:

- The MQTT connection is made with `SetAutoReconnect(false)` (`paho_transport.go:86`) and
  a failed status query is "non-fatal, will retry" (`mqttqueue.go:297`): a lost
  connection is not made again until the service is restarted.
- Replies name no request. Two queries at once mix theirs: a bed grid can have rows
  twice, a late reply of one report turns up in the next, and files whose path is under
  neither root are listed by whichever list query is waiting, as of the source it asked
  for. Full reply channels drop.
- A PPPP badge that a probe has turned to connected stays so while MQTT messages
  arrive, whatever becomes of the printer's LAN connection: `BadgeCatchesUp` needs MQTT to be stale.
- A notification is lost when its post fails or the tap is full, and an unknown state
  value between printing and the end loses the message of the end (`PrintIsTold` has
  these exceptions as `missed` and `printer # "unknown"`).
- `onConnected` of the home assistant service may publish "online" after `WorkerStop`
  has published "offline". A payload of the worker or of `onConnected` may be published
  after a newer one of the other, and the handler of a lost connection may set
  `mqtt_connected` to false when the next connection is up, to be published with the
  next report and to stay so until the next connection (`haRaced`).
  `pppp_connected` is published and never set. A light command is answered with the
  new state even when `SetLight` fails.
- Archives are never removed: rows that are deleted leave theirs behind. A thumbnail
  whose write failed is served as far as it was written.

## What is not modelled

- Pure functions on bytes and text: packets and their encryption
  (`pppp/protocol/packet.go`, `pppp/crypto`), the MQTT framing, G-code analysis, the
  cloud's signatures, the parsing of reports. They keep no state; a model would
  repeat them.
- I/O without state of its own: the cloud API, middleware, routing, most handlers.
- The log and event messages of the modelled components, and `Notify`/`Tap` of
  `BaseWorker`, which only edit a map under a lock.
- Of the modelled components: preheat, move and extrude of the filament service; the
  byte buffer `Wire`; discovery by broadcast; the progress events of an upload; of the
  MQTT queue temperatures, layers, filament alarms and the commands that are one
  message; of the timelapse the light, the pruning of old videos, archived snapshots
  (two taken within a second share their name) and failing file operations; of the
  history listings; of the badge the queue of updates, which may drop one.
- Alert ids begin again after a restart of the program; a page's cursor from before is
  then too large. The model begins with the pages.
- `SettingsCameraUpdate` dereferences the configuration inside `Modify` and would find
  none if a logout came between its load and its `Modify`; the model's settings are
  plain values.
- `HistoryReprint` looks at `IsPrinting` before it reads and uploads, which is a check
  and then an act: the model has no print that begins in between.

## Plan

Done: all modules above with their runs, and the proofs of every safety property the
runs check. What would come next, in this order:

1. Proofs: that `PpppChannel` implements the reliable queue `Upload` stands on; and the
   safe parts of the liveness properties, as `ShutdownWaitsForDoneLoop` is of the
   shutdown's: what a waiting caller waits for is always still able to come.
2. `Timelapse` composed with `PrintMonitor`, so that the reports it gets are the ones the
   queue makes.
3. The hub of external cameras and the pruning of videos and snapshots.
4. `HistoryReprint` against a print that begins meanwhile, with the printer's reports.

## How to run

In this directory:

    tlasany Timelapse.tla                       # parse
    tlc -workers 2 -config Timelapse.cfg Timelapse
    tlapm FilamentSwapProofs.tla                # check the proofs

`PROJECT.json` names the module and cfg of every run. The longest take two to three
minutes with two workers; the proofs of all eight modules take some ten minutes from nothing.
