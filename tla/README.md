# A TLA+ model of x-media

x-media is a media gateway: it pulls or reads streams (MP4 files, RTSP
cameras), moves standard frames through pipes, and offers them as RTSP,
HTTP-FLV, RTMP, WebRTC or as a GB/T 28181 device registered at a platform. A
web front end and an HTTP API create, start and stop inputs, outputs and pipes;
SQLite keeps their rows, and a restart brings the running ones back.

This directory models the parts in which goroutines, partial failures and
restarts meet, checks them with TLC on small instances, and proves the
invariants that carry the most weight with TLAPS. All definitions are
translated from the Go sources under `src/server`; `PROJECT.json` maps each of
them to its lines.

## 1. Inventory

| Component | State | Operations | Talks to | What is hard |
|---|---|---|---|---|
| DefaultPipe (`media/default_pipe.go`) | started, ctx/cancel, inFlight queue, unbind closure, counters | Bind, Start, Stop, routeFrame, sinkWriter | source callbacks, sink.WriteFrame | writers of two runs overlap, the queue is read without the lock, drops, failed Start |
| MediaHub (`media/media_hub.go`) | registries of sources, sinks, pipes | Create/Remove/Start of inputs and outputs, Connect, Disconnect, StartPipe, Stop | services above, objects below | look-up under the lock, use after it; cascades |
| Services (`service/*.go`) | rows of inputs, outputs, pipes | create, update, delete, start, stop; cascades; Restore | repositories, hub | no lock across calls, partial failures, end of the process between an engine call and a row |
| HTTP server, main | – | one goroutine per request, recovery; Restore on main | services | requests during Restore, a panic outside a request |
| HTTPFLVSink (`media/httpflv_sink.go`) | ring of bytes, cursors, channels | Configure, WriteFrame, ServeHTTP | writers of a pipe, HTTP clients | overwriting under slow readers, lost wake-ups, GOP mark |
| RTSPSink, RTSPServerManager | servers and reference counts per address, paths, streams | Start, Configure, WriteFrame, Stop; OnDescribe/OnSetup/OnPlay/OnAnnounce/OnSessionClose | gortsplib | Close outside the lock, delayed callback, replaced streams |
| RTMPSink, rtmp_client | connection, back-off, what was sent on it | Start, Configure, WriteFrame, Stop | remote server | connect racing with Stop, failure marking a new connection |
| WebRTCSink | clients, tracks, send queues | HandleWHEP, WriteFrame, callbacks, Stop | pion | a failed write, the state callback and Stop release one client |
| GB28181Sink, hub, media | audio queue, GOP cache, bounded channels | Start, Configure, WriteFrame, Subscribe | device server | slow media sessions, replay joining the live stream |
| GB28181 device: registration | socket or stream, CSeq, timers, response channel | REGISTER, keep-alive, re-registration, de-registration | platform over UDP/TCP/TLS | loss, repetition, time-outs, a platform that forgets, a stream that goes deaf, Stop in the middle |
| GB28181 device: media sessions | one slot of resources, a goroutine per session | INVITE, ACK, BYE, INFO, broadcast, Stop | platform, GB28181Hub, recordings | who may close what: late connections, repeated INVITEs, BYE between two steps, handlers of several TCP connections at once |
| GB28181 device: commands and subscriptions | registry of subscriptions, position loop | MESSAGE, SUBSCRIBE, NOTIFY | platform | several receive loops, paging, replaced loops |
| MP4Source | play state, per-track position, loop offset, pacing anchor | Start, Stop, seek, pause, readLoop, emit | pipes | read loop against control; clocks of two tracks around the loop |
| RTSPInput | client, context, decoders | Start, Stop, connectOnce, runSession, readLoop, packet handlers | remote camera | reconnect against Stop |
| FLV writer, PS mux, codecs, clock | – | pure functions | – | width and wrap of time stamps |
| Repositories, models, config, logger, utils, front end, tools | rows, files | CRUD, formatting | – | I/O |

What makes each of the modelled ones correct:

- **Pipe**: every frame is accounted for once; a live writer can be stopped; a
  stopped pipe lets go of its source; no restart reorders or repeats frames
  unless two runs overlap; the source never blocks.
- **Hub**: the registries and the pipes' bindings agree; nothing runs outside
  the registries.
- **Services**: rows and engine agree whenever no handler is at work; Restore
  makes them agree again after any end of the process.
- **HTTP-FLV**: a client gets whole tags in order, is never left asleep with
  data unread, and starts where it can decode.
- **RTSP**: a server lives exactly as long as a running sink uses its address;
  a path leads to the stream its sink writes to; a stream gets only its media.
- **Registration**: the device believes only answers to its own, newest
  REGISTER; a platform that forgot it gets it back; Stop comes to its end.
- **Media sessions**: at most one goroutine goes on streaming, whatever ended
  the earlier ones, as long as INVITEs are handled one after the other; what left
  the slot ends.
- **Playback**: what a platform receives of a recording can be decoded, lies in
  the range it asked for and never goes back in time; it ends.
- **GB28181 frames**: a session reads the pictures in order, without a gap until
  its channel was full, replay included; the newest audio is kept.
- **Commands**: each request is answered completely and once; one position loop.
- **RTMP, RTSP input**: one connection at a time; nothing before the headers; a
  lost connection comes back.
- **WebRTC**: packets in order; a browser that is gone leaves nothing behind.
- **MP4**: the tracks leave interleaved, and no earlier than their time.

`PROJECT.json` lists the hazards behind these, each at its line.

## 2. Modules

| Module | Models | Role |
|---|---|---|
| `FramePipe` | DefaultPipe: emitters, Start/Stop, sinkWriters | detailed specification |
| `FrameDelivery` | what a pipe promises its sink | abstract specification |
| `PipeLifecycle` | what the hub sees of a pipe | abstract specification |
| `FramePipe_proofs` | – | theorems about FramePipe |
| `MediaHub` | the hub; objects with the life cycle of PipeLifecycle | specification, also a layer of ControlPlane |
| `ControlPlane` | services, repositories, Restore, process restarts, over MediaHub | composition |
| `ControlPlane_proofs` | – | theorems about MediaHub, ControlPlane and Restore |
| `InTurn_proofs` | – | theorems about ControlPlane when requests come one after the other |
| `FLVRing` | HTTPFLVSink: writers, ring, HTTP clients | specification |
| `FLVRing_proofs` | – | theorems about FLVRing |
| `RTSPServers` | RTSPSink, RTSPServerManager, RTSPServerHandler: servers shared by address, paths, sessions | specification |
| `RTSPServers_proofs` | – | theorems about RTSPServers |
| `AddressLease` | what sharing the servers promises | abstract specification |
| `GBRegistration` | REGISTER, keep-alive and de-REGISTER of a GB28181 output, its stream transport, its platform | specification with a fault model |
| `GBRegistration_proofs` | – | theorem about GBRegistration |
| `GBSessions` | INVITE, BYE, INFO, broadcasts; the slot and the goroutines of media sessions | specification |
| `GBPlayback` | the goroutine of a playback: recordings, pacing as far as order, controls | specification |
| `GBFrames` | frames to access units; the hub's cache, replay and channels | specification |
| `GBMessages` | answers to MESSAGE, SUBSCRIBE and the NOTIFYs | specification |
| `RTMPSink` | the RTMP publisher | specification |
| `WebRTCSink` | the WHEP clients of a WebRTC output | specification |
| `RTSPInput` | the RTSP pull input and its reconnections | specification |
| `MP4Source` | the MP4 file input: choice of track, pacing, loop, seek | specification |
| `GBDevice` | GBSessions, GBPlayback, GBFrames, GBMessages side by side | composition |
| `GBDevice_proofs` | – | theorems about GBDevice and its parts |
| `Endpoints` | MP4Source, RTSPInput, RTMPSink, WebRTCSink side by side | composition |
| `Endpoints_proofs` | – | theorems about Endpoints and its parts |
| `MCFramePipe`, `MCControlPlane`, `MCFLVRing`, `MCRTSPServers`, `MCGBRegistration`, `MCGBSessions`, `MCGBDevice`, `MCEndpoints` | – | constants for TLC |

**FramePipe.** `gen` counts effective Starts: what a Start allocates (context,
channel, writer) is the "generation". Start holds `p.mu` from `StartBegin` to
`StartOK`/`StartFail`, and only the writers, which evaluate `p.inFlight`
without the lock, see what happens in between. Stop is `StopMark`,
`UnbindTake`, `UnbindCall` – the three sections it and Unbind consist of – or
`StopNoop`. An emitter is in `called` between copying the handler slice and
taking the pipe's lock and in `routing` between reading the channel and sending
to it. `ReadChan` chooses any generation between the one the writer saw last
and the present one: the read is a data race, and this is what the build can
produce. Actions whose comment begins with "Fault:" are not part of `Next`;
they are the mutated forms of the action that follows them and serve to show
that the properties are sensitive to such errors.

FramePipe implements FrameDelivery (offered = frames emitted, out = WriteFrame
calls that returned no error) and PipeLifecycle (Start takes effect when it
succeeds, Stop when it has cancelled). PipeLifecycle is the interface at which
MediaHub stands: `pstate` of a pipe object takes its states plus `stuck`, the
state after a panic in Configure, which FramePipe does not model.

**MediaHub.** Each operation under `h.mu` is one step, since the lock is held
throughout. StartInput, StartOutput and StartPipe release the lock between the
look-up and the call: they are `Find…` and `Run…`, with `held[c]` in between.
`startInputOnly` uses what CreateInput returns in the same way (`OpenInput`).
Objects are numbered as they are allocated, so an object that left the registry
and one that replaced it differ. `Fragile` outputs are those whose Configure
dereferences what only a successful Start creates (RTSP).

**ControlPlane.** A handler is a program, a sequence of instructions, one per
call of a repository or of the hub; programs of all goroutines interleave.
Errors unwind a program to the end of the handler or, in Restore, to the branch
that marks the row stopped. `Reboot` empties the hub and all programs and
leaves the rows; then `Boot` runs Restore while requests may come in already,
as `main` starts the HTTP server first. `MaxActive` limits how many goroutines
are at work at once; 1 means "requests one at a time", which is what the
correctness of rows against engine needs and what no lock in the code enforces.

**FLVRing.** A byte of the model stands for a stretch of the stream and its
value is its number in the whole stream, so a client that gets a lost, repeated
or foreign byte notices. `write` holds `ring.mu` over its loop: `BeginWrite`,
one `Put` per byte, `EndWrite` with the notifications. WriteFrame's mark of the
GOP is a section of its own. A client goes through ServeHTTP's steps, may be
slow at each, and leaves where the handler can return.

**RTSPServers.** `holds[s]` says where the goroutine that holds `r.mu` of a sink
is between two sections of other locks: Configure before it takes `h.mutex`,
Stop before `h.mutex`, before `m.mu`, before `srv.Close`. Servers are numbered,
so one that is being closed and its successor differ; streams too, and a media
has the number of the Configure that made it. A packet is `foreign` if it goes
to an open stream with another media (in the code: a look-up that finds
nothing); `mixed` marks those that a Configure and no race is to blame for.
A session sets up, plays in two sections, as OnPlay takes the lock twice, and
leaves the delayed callback behind; or it publishes. gortsplib is external: how
it listens, closes and calls back is in the module's head.

**GBRegistration.** Three goroutines run REGISTER flows: Start (`reg` without
`regMu`), the re-registration goroutine, and Stop (`off`); `flow[g]` says where
each is. A REGISTER and its answer are messages in `net`, which may be lost,
repeated, overtaken or refused. A CSeq is written as its *age*: 0 is the newest
one given out and each new one makes the others older, so the model has no
counter of CSeqs, and `MaxAge` only says how late an answer may arrive.
Keep-alives are counted in `quiet` and `failures` as `keepaliveLoop` does; a
signal, the retry timer or the refresh of the registration's life starts the
next flow. A stream is `up`, `dead` (nobody noticed yet) or `closed`, and `deaf`
once the read deadline of `readSIPStream` has passed with nothing read: from then
on it is not read again. The platform is external: it takes a CSeq above the last
one it took, asks for a digest or not, and answers keep-alives by what it knows.
Time-outs strike only when the answer is lost (`Slow = FALSE`) or at any moment.

**GBSessions.** A session has the number of its INVITE, and the fields of
`Server` that hold the resources of the current one (`mediaConn`, `sub`,
`mediaCancel`, `mediaTCPConn`, the listener, `playbackCtl`) hold such numbers.
The handler of an INVITE is cut where it lets go of `s.mu`; `step[i]` says in which
section that of INVITE `i` is, or that the goroutine of broadcast `i` awaits its
answer. `site`, chosen at the start, says where the device is: with or without a
listener, and what its platform offers and announces. Over UDP and over an outgoing
stream one goroutine handles requests, so `MayHandle` lets the next one in when no
handler is at work. With `Listener` (`Config.Transport` "tcp") every accepted connection has a goroutine, and INVITE,
BYE and INFO come between any two sections of any other handler; `raced` remembers
the sessions whose INVITE was handled beside another one. Broadcasts (one goroutine
per announcement), media goroutines and Stop always run beside the handlers. INFO
is two sections too, the look at `playbackCtl` and the send (`informing`).
`cancelled` and `open` are what the goroutines look at: nothing else tells a
session that it was replaced. `hub.Subscribe` and the store of `s.sub` after it are
one step: a tear-down between the two does what it would have done before both, as
it finds the subscription of an earlier session or none.

**GBPlayback.** A recording is the sequence of NAL unit types of its file and the
times of its sidecar. Pacing is abstracted to "a held frame is due at some
moment", and that is when controls are read. `anchored` says that `baseWall` is
set: only the very first frame goes out at once. The first frame after a seek is
held like any other, and pauses, seeks and the end of the context are met there
too. **GBFrames** takes frames with their kind, parameter sets and size; `made`
is the history of access units since Configure, `got` what a session has read.
**GBMessages** has several receive goroutines, each with the answers it has still
to send (`todo`); the position loop is swapped under the lock (`SwapLoop`) and
the replaced one closed after it (`CloseOld`).

**RTMPSink.** `WriteFrame` is cut where the code unlocks: check, connect,
metadata, headers, frame. Client numbers stand for connections; `up` is what the
network still carries, `torn` those on which a write failed. **WebRTCSink**: a
WHEP request (`whep`), the send loop of its client (`loop`), its connection
(`peer`) and the state callback (`told`) run beside WriteFrame and Stop.
**RTSPInput**: the read loop has its own client (`mine`), `r.client` is
`client`; Stop is cut into call, wait and close. A decoder is what its video
channel has under way. **MP4Source**: the loop's steps between two sections of
`m.mu` are actions, so a seek may come between the choice of a sample, its count
and its reading. Media times of all tracks are compared in `Micro`; sample
positions and rounds follow `loopDur`.

**Side by side.** The four parts in `GBDevice`, and those in `Endpoints`, share no
state: the code joins them through the calls the parts already abstract (an
INVITE subscribes to the hub, whatever the hub does next). Hence a behaviour of
the composition is one of exactly one part, named by `part`; the others stay
initial. Its states are the union, not the product, of the parts' states, and
each property is one part's, or the conjunction of what several parts say on one
subject.

## 3. Runs

| Run | Instance | Shows |
|---|---|---|
| `pipe_safety` | 2 tracks, 2 frames each, queue 2, 2 Starts | accounting, order, reachability of writers, release of the source, both refinements |
| `pipe_live` | 1 track, 3 frames, queue 1, 2 Starts | cancelled writers end, emitters never block, queued frames are served |
| `plane_in_turn` | 2 inputs, 2 outputs, 2 pipes (one of each to be created), 6 requests, 1 restart, one at a time, no failures | rows and engine agree after every request |
| `plane_restore` | 2 clients at once, failing creates and pipe starts, 3 requests, 1 restart anywhere | the registries agree; Restore heals the rows |
| `plane_faults` | one request at a time, 4 requests, every hub call may fail, RTSP outputs that panic | pipe rows tell the truth except about a pipe that panicked |
| `plane_boot_loop` | 1 RTSP output | **violated**: Restore ends the process at every start |
| `flv_ring` | 2 writers, 1 client, ring of 3, tags of 1–2, 4 bytes, 2 Configures | whole tags, no lost wake-up, start at the GOP |
| `rtsp_servers` | 3 sinks at one address, 2 of them with one path, 1 client, 2 servers, 2 streams | reference counts, no server left or closed in use, paths lead to live streams, races send no foreign media, AddressLease |
| `gb_registration` | UDP and outgoing stream, digest, one fault of any kind, answers one REGISTER late | `NeverFooled`: no flow ends well on an answer to another REGISTER; `Heals`: a forgotten device comes back by its keep-alives unless its stream went deaf; `StopEnds` |
| `gb_device` | sessions: 2 INVITEs or broadcasts, over UDP (3 offers and broadcasts) and behind a TCP listener (2 offers, handled at once or not); playback: 2 recordings, 4 ranges, 2 controls; frames: 1 session, 4 frames, 2 Configures, channel of 2; commands: 2 receive goroutines, 2 of 11 requests | `OneStream`, `OldEnds`; `GoodStream`, `PlaybackOver`; `FramesDelivered`; `AnswersComplete`, `OnePositionLoop` |
| `gb_bye` | 2 INVITEs over UDP | **violated**: the BYE of an old dialog ends the new session |
| `endpoints` | MP4: 2 tracks, 9 ticks, 1 signal; RTMP: 6 clients, 2 faults, 1 Stop; WebRTC: 1 browser, 3 frames, queue of 3, 2 runs; RTSP input: 4 clients, 2 faults, 3 packets | `Interleaved`, `Paced`; `OneConnection`, `StreamsInOrder`, `LinksHeal`, `ClientsReleased` |

Bounds. Two generations of a pipe show every overlap of a writer with its
successor; a third adds none, as only `gen` and the writers' lag matter. A
queue of two distinguishes full, half full and empty. Two pipes with one input
and two outputs give an input in use by another pipe and one that is not, which
the orphan rule is about. The ring of three cells with tags of two makes tags
straddle the end, wrap exactly and wrap over, and lets a client be overtaken.
`MaxObjs` is larger than any run can allocate.

Three sinks let one stop, one join and one run at the same time, two with the
same path an output that is deleted in use and made again; two servers are one
and its successor, two streams one and its successor (a sink's or a publisher's).

Registration: the fault may come at any step of any flow, and one fault is
enough to lose each message, to make the platform forget and to break the stream
at each point; what follows it is a history without bound. A heartbeat limit of
one is the shortest way to each decision of the keep-alive loop. `Slow = FALSE`
keeps the time-outs to lost answers; late ones come in through repetition and
`MaxAge`. Two INVITEs are a session and its successor in each pair of kinds, with
broadcasts among them; a third would meet a slot that is in no new state. Beside
a listener there are two, for live media over TCP and for talk, whose handlers have
the most sections between them, handled one after the other or at once in any two
of them. Three transports occur, each with one kind: what a handler does about the
transport does not depend on the kind. With a playback among a listener's offers
TLC agrees too, but takes longer than the run should. Two recordings give a gap, an
overlap of ranges with both, one and none of them, and a file that begins within a
group of pictures. A cache limit of three and four frames
let the cache be filled, truncated and renewed. Three items on pages of two make
a page full, half full and an end that falls on a page. Six RTMP clients are more
than two faults and a Stop can use up; two frames of two packets fill a queue of
three. Nine ticks let the longer track go around twice. The file's tracks have
different clocks and lengths, which is what rounds and drift depend on.

Fairness of the pipe (`FairSpec` of FramePipe). Goroutines that can run do run (weak
fairness of every step of an emitter inside the pipe, of Start, of Unbind and
of the writers), and a `select` with two ready cases does not pass over one of
them for ever, which Go's random choice justifies: strong fairness of
`WriterExit`. Nothing obliges anybody to call Start or Stop or a source to emit;
WriteFrame returns, which for the network sinks depends on their time-outs.

In the other parts, likewise, goroutines go on, and nobody outside is obliged to
anything unless the property is about him:
registration assumes that timers fire and that the platform
answers what reaches it, and, for the end of a registration's life against other
cases of the same `select`, strong fairness; faults are bounded. Sessions and
playback assume nothing of the platform: it need not dial, acknowledge or send
BYE, and `PlaybackOver` says that only its own pause can hold a playback. The
RTMP output needs strong fairness of "a frame is written while the connection
stands", as a pipe that feeds it goes on, and that the back-off passes. For the
WebRTC output the send loop, its end and the callbacks run; no browser is obliged
to ask and no connection to fail. The RTSP input's loop and the caller of Stop
run; its faults are bounded, so in the end the camera answers. The MP4 input's
properties need no fairness.

No run checks deadlock: a server without requests, or a pipe nobody uses,
rightly stops.

## 4. Proofs

| Theorem | Says |
|---|---|
| `FramePipe_proofs!TypeCorrect` | types, and no queue above its capacity, for any tracks, capacity and number of Starts |
| `FramePipe_proofs!WriterReachable` | a writer that was not cancelled is that of the current run of a started pipe |
| `FramePipe_proofs!StopReleasesHandler` | after the Stop of a started pipe the source does not hold the callback |
| `FramePipe_proofs!ImplementsLifecycle` | FramePipe implements PipeLifecycle, on which MediaHub stands |
| `FramePipe_proofs!FramesConserved` | every frame handed over is in exactly one place: none lost uncounted, none doubled |
| `FramePipe_proofs!ImplementsDelivery` | FramePipe implements FrameDelivery: at most once, nothing invented, in order within a run |
| `FramePipe_proofs!SinkInOrder` | the sink sees the frames of a track in order while runs do not overlap |
| `ControlPlane_proofs!HubTypeCorrect` | types of the hub |
| `ControlPlane_proofs!RegistriesAgree` | registries and bindings agree, for any callers and any failures |
| `ControlPlane_proofs!PlaneTypeCorrect` | rows and remaining programs keep their types, also when an error unwinds a program |
| `ControlPlane_proofs!ImplementsHub` | every step of services, Restore and restarts is an operation of MediaHub, a restart of it or a stutter |
| `ControlPlane_proofs!ServicesKeepRegistries` | hence registries and bindings agree under any requests and restarts |
| `ControlPlane_proofs!RestoreHealsAlways` | Restore, once at its end and before any request, leaves rows and engine in agreement, whatever rows the previous process left |
| `InTurn_proofs!EngineInTurn` | when requests come one after the other and sources, sinks and pipes start when told to, exactly what the rows say runs, whenever no handler is at work; through failed creations, panics and ends of the process anywhere |
| `InTurn_proofs!PipeRowsInTurn` | when requests come one after the other, a pipe's row says running exactly when the pipe runs, whatever calls of the hub fail |
| `FLVRing_proofs!RingTyped` | types: no cursor leaves the ring, no channel exceeds its capacity |
| `FLVRing_proofs!RingKeepsShape` | the ring is full exactly when its oldest byte is the next to go |
| `FLVRing_proofs!ClientsGetWholeTags` | a client gets whole tags in order until it is lapped or reconfigured, for any ring, tags, writers and clients |
| `FLVRing_proofs!WakeupsSuffice` | a client that waits on an empty channel has read everything, unless reconfigured under it |
| `FLVRing_proofs!MarkLeadsToKeyframe` | until the ring wraps a new client starts at the latest keyframe, unless a second writer overtakes a mark |
| `RTSPServers_proofs!CountsRight` | the reference count of an address is the number of sinks that use its server |
| `RTSPServers_proofs!NeverClosedInUse` | the server of a running sink listens and is the registered one |
| `RTSPServers_proofs!NoServerLeft` | no server listens once every sink has stopped |
| `RTSPServers_proofs!ImplementsLease` | RTSPServers implements AddressLease, for any sinks and addresses |
| `RTSPServers_proofs!PathsTrue` | a sink's path answers with the open stream the sink writes to; a stopped sink is listed nowhere |
| `RTSPServers_proofs!ReadersLeave` | who is listed as a reader is a session of that server |
| `RTSPServers_proofs!NoForeignMedia` | a media goes to a stream that has not got it only if an earlier Configure left it behind |
| `RTSPServers_proofs!LatestStays` | the sink configured last on a path stays reachable there while it runs |
| `GBRegistration_proofs!RegistrationHonest` | a REGISTER flow of Start or of the re-registration goroutine ends well only on an answer to the REGISTER it sent last, one that the platform accepted, for any transport, faults, capacities and lateness |
| `GBDevice_proofs!NeverTwoStreams` | of the sessions whose INVITE was handled beside no other, the hub serves at most the one in the slot and, without broadcasts, no media goroutine of theirs goes on beside it; for any number of INVITEs and any offers, with and without a listener |
| `GBDevice_proofs!InTurnNothingLeaks` | without a listener the same of every session: the hub serves at most the one in the slot and, without broadcasts, no INVITE leaks a goroutine |
| `GBDevice_proofs!OneStreamAlways` | the same of the whole device |
| `GBDevice_proofs!GoodStreamAlways` | a playback sends frames of the range asked for, in order, from a key frame on, for any recordings that do not overlap and any controls |
| `GBDevice_proofs!FramesDeliveredAlways` | a session gets the pictures once and in order across the replay, the cache is the last group of pictures, the newest audio is kept |
| `GBDevice_proofs!AnswersCompleteAlways` | a command handled to its end was answered once and with every page, for any receive goroutines and requests |
| `GBDevice_proofs!OnePositionLoopAlways` | only the position loop of the last subscription goes on |
| `Endpoints_proofs!OneConnectionAlways` | one RTMP publisher and one RTSP session at a time, for any number of clients and faults |
| `Endpoints_proofs!StreamsInOrderAlways` | metadata and headers before frames; a browser's packets in order; a key unit has its own packets' time |
| `Endpoints_proofs!InterleavedAlways` | the frames of all tracks of an MP4 input leave in the order of their media times, around and around, for any file of `FineScales` and any Starts, pauses and seeks |
| `Endpoints_proofs!PacedAlways` | from its first Start on an MP4 input never runs ahead of the clock but with the first frame of a round, for any file of `TwoSamples` |

Assumptions are the named ASSUMEs of the modules, and the hypotheses the theorems
state themselves: bounds that are numbers, requests one at a time and starts that
succeed (`InTurn_proofs`, `RestoreHealsAlways`), and what is asked of an MP4 file
(`FineScales`, `TwoSamples`; see below). `WriterReachable` needs
the strengthening that no writer exists for a generation above `gen` and none
for `gen` while Start is in progress; `StopReleasesHandler` that `unbind` and
`handler` change together except while a stopper stands between UnbindTake and
UnbindCall. `RegistriesAgree` needs that registered numbers do not exceed the
number of objects made (`RegInv`), so that a new object is not registered
already, and that callers hold objects (`HeldInv`); every operation that
forgets something is an instance of one lemma, `DropStep`. `RingKeepsShape`
needs that a writer is inside `write` exactly while it holds the lock.
`ClientsGetWholeTags` rests on `ReadInv`: every cell that was written holds the
byte of its age (`Content`), the places a client may start at are starts of
tags (`StartsAtTags`), and a client that was neither lapped nor reconfigured is
as far behind the tail in the ring as in the stream (`ClientsInStep`). TLC
agrees that `ReadInv` holds on the instance of `flv_ring`.
`WakeupsSuffice` needs no more than the types: while a tag is being put the lock
is held, and the end of the write leaves no channel empty. `MarkLeadsToKeyframe`
needs that a mark no other tag has overtaken is at the tail (`MarkFresh`), that
every other mark is overtaken while a tag is being put (`MarksLate`), and that
`gopPos` is as far behind the tail as the last keyframe is behind the stream
(`MarkTrue`).

The first four theorems of RTSPServers rest on one inductive invariant, `LeaseInv`:
what a sink's lock protects fits the point its goroutine has reached
(`Phase`), a sink's server is the registered one (`Registered`), a server being
closed is registered nowhere and closed by one sink (`Apart`), every listening
server is registered or being closed (`Accounted`), and the counts count the
users. The last needs cardinalities: a Start adds one sink to the users of one
address, a Release takes one away. The refinement maps Start to Acquire, the
removal of the handler to Release and the delayed close to Close; the step in
between, where the last user has left the register, is a stutter.

The other four add what is listed to it. `PathInv`: an entry of a sink is at the
sink's server and path and names the open stream it writes to, no two sinks and
no two entries share a stream, a stream just made by Configure is listed nowhere
yet, and readers are sessions that play. `Current`: a stream that a frame or the
delayed parameter sets have read, and that is still open, is still the sink's.
`LatestInv`: the sink configured last is at the server its address has or at one
about to be closed, and its entry is taken only by a publisher, who closes the
stream.

`ImplementsLifecycle` needs little (`LifeInv`): the pipe is marked started while
Start holds its lock, and a Stop that is under way has cancelled. A failed
Start is a stutter of PipeLifecycle, and of the three sections of Stop only the
one that marks the pipe stopped is a step.

The order of frames rests on `OrderInv`, which looks at a queue as a sorted set:
what a later generation's queue holds of a track is newer (`QueuesInTurn`), nothing
is as new as the frame in its emitter's hands (`QueuesPast`, `WritersPast`), a
writer finds in the queues it may still read only frames newer than those it has
and has written (`NewerAhead`), and no frame is in two of these places
(`OncePlaced`). It gives the refinement of FrameDelivery. For `SinkInOrder` one
needs besides that, while runs do not overlap, one writer runs and reads no older
queue than those before it did (`Solo`). `FramesConserved` counts seven places
for each frame (`Places`): a step moves one frame from one of them to another.

`RegistrationHonest` adds to `NeverFooled` that a 200 to a REGISTER that is on
its way, on the network or in `regRespCh`, has an age the platform took
(`Honest`), and that mail with the CSeq a flow waits for is of that flow's kind,
so that the answer to a de-REGISTER ends no registration (`Own`); sending makes
everything older at once (`AgedMail`, `SendStep`), reading only takes mail away
(`ReadStep`), and the other steps leave all of it alone (`CalmStep`).
`NeverTwoStreams` needs that handlers of INVITEs that are at work together are
all marked `raced` (`Overlap`), that only the one unmarked handler's session can
have subscribed since its tear-down (`HandlerAlone`), and that, until a handler
ends, its session has no goroutine and the slot no cancel function but one of a
marked session (`SlotFree`), which broadcasts break. A BYE or another
connection's INFO may come at any of these points. Without a listener nothing is
ever marked, which gives `InTurnNothingLeaks`.

`ImplementsHub` maps each instruction of a program to the operation of the hub it
calls, and a restart to one that empties it; the hub's own theorem then gives
`ServicesKeepRegistries`. `RestoreHealsAlways` walks through Restore: `BootInv`
says, for each point its program can be at, which rows and objects it has already
brought into agreement and which it has not touched (`AtStart`, `PipesPhase`,
`InsPhase`, `OutsPhase`). It needs that no two rows have the same input and
output (`PairUnique`, the unique index of the table), and it leaves out the
failures of a single source or sink (`"src"`, `"snk"` in `Faults`): `startPipe`
only logs those and goes on, so that after them rows and engine disagree by
design. A pipe that fails, fails to be created or panics is not left out.

`EngineInTurn` and `PipeRowsInTurn` share one invariant, `TurnInv`. A handler makes
rows and engine disagree on its way: it stops an input and says so one call
later, and starts a sink seven calls before the sink's row says running. So
`TurnInv` says where the program of the one goroutine at work can be
(`BeginningPipe`, `StoppingInput`, `MarkingOut`, …) and names for each place the
pipes, inputs and outputs whose rows may be wrong there (`True`); all others agree,
and nobody else is under way. At the end of a handler nothing is left on these
lists (`Calm`). The cascades carry a set of pipes already stopped whose rows
still say running (`Dead`), which each round makes smaller by one; an orphan may
be stopped only when no such row keeps it in use. After a restart the place is
one of Restore's, and `BootInv` holds. That rows and objects appear only under
ids that a Create was given (`Unused`, `OnlyKnown`) is what keeps a remaining
program from reviving a deleted row. The conjuncts about inputs and outputs need
`Sure`, that starts succeed (a failed one is only logged, section 5); those about
pipes do not, so `PipeRowsInTurn` holds with all faults. `MaxActive = 1` stands for
"one after the other" and is the whole point: with `MaxActive = 2` TLC finds both
properties violated, by a request that comes during Restore.

The theorems of GBDevice and Endpoints hold of each part alone and, as a step of
one part is a stutter of the others, of the composition. `LoopInv` follows the
channel a receive goroutine makes: known to nobody until it is swapped in
(`Swapping`), and from then on the current one, closed, or in the hands of the
goroutine that will close it (`Closing`). `AnswerInv` says of each request in
work what it has been answered and what it still owes (`Owing`), that the two
together are the whole answer, and that background work and NOTIFYs belong to
other requests (`Foreign`). `PlayInv` says that what a playback has sent lies
before what it reads next, in this recording and in those left (`Ahead`); this is
where `RecordingsAssumption`, that recordings of one device do not overlap, is
needed: `recordingSegments` sorts by start only. `FrameInv` says that the cache
is the tail of the access units made since the last key frame (`Cached`) and
that what a session has read, what waits in its channel and what is to come are
one ascending sequence (`InTurn`); for the audio, that the units younger than one
that was dropped suffice to have pushed it out (`Kept`).

`PublisherInv` needs that clients above the newest are new (`Single`), and how
far the newest connection has come when WriteFrame is at each of its places
(`Progress`), with the exception of a WriteFrame whose client was replaced under
it (`Stale`). `InputInv` needs that a client that neither fails nor is lost is
closed by its own read loop before another is made (`LetGo`). `WebInv` says that
what a browser has got and what waits for it ascends (`OneStream`), that frames it
was not too slow for are whole (`Whole`), and that a request not yet answered has
no client (`NotYetIn`).

`SourceInv` says that what an MP4 input has sent lies before everything it may
send next and before the end of its round (`SentBefore`), that the sample it has
chosen is the next of all unless the media time has jumped since (`ChosenNext`),
and that no track's round starts later than the base track's (`Aligned`). The
crux is the loop around: `alignLoopDuration` rounds the start of the next round
down to a unit of each track's own scale, so a frame could go back by less than
such a unit. `FineScales` says that it does not: in a file that is played around
and around, the last sample of a track begins at least one unit of any other
track's scale before its round ends. Without it the property is false (scales 3
and 1, five samples: TLC finds the frame). Media files keep it with ease, with
scales of 90000 and 48000 and samples of many units; TLC evaluates it for the file
of `endpoints` as an assumption of `MCEndpoints`. The running sums of the durations
are a recursive function over any file, and what is said of them is proved by a
least counterexample (`Least`, from the library's `WFMin`).

`PaceInv` follows the next sample of the base track. The anchor is no earlier
than the last jump of the media time and counts from no later a sample
(`AnchorTrue`). While this sample is the next of all (`First`), it may go now, or
at the end of the wait under way (`Ready`, `Waits`), because a wait ends when
`nextPaceTarget` says; so may the one chosen (`Chosen`), unless the media time has
jumped since, and then it lies before the jump (`Overtaken`). A jump makes
everything due at once (`AtOnce`). When the base track is through, its last sample
was in time (`RoundOver`), and the next round starts one sample further on; no
wait ends there, hence the allowance for the first frame of a round in `Slack`,
which is zero for all others if the base track's scale divides the common one.
`ConvertClock` is applied four times between a media time and the moment a frame
is due, and each application may lose a unit (`DueIsLate`, `Rounding`). `TwoSamples`
keeps the first frame of a round from being the last one of the base track too,
where the allowances of all rounds would add up. `FineScales` is not needed. TLC
agrees that `PaceInv` holds for the file of `endpoints` with two signals of each
kind, with a common scale that is a multiple of the base track's and with one
that is not.

Model-checked only: liveness, as TLAPS does not reason about ENABLED here. That is
`WriterEnds`, `EmitterNeverBlocked`, `QueuedFrameServed` of the pipe, `Heals` and
`StopEnds` of the registration, `OldEnds` and `PlaybackOver` of sessions and playback,
`LinksHeal` and `ClientsReleased` of the endpoints. Every other property that a
passing run checks is a theorem.

## 5. Known deviations

Places where the code does not do what its comments or documents say, or what one
would expect of it. Two are shown by runs: `plane_boot_loop` (Restore runs into
the same panic at every start, `main.go:95` against `pipe_service.go:281`) and
`gb_bye` (BYE looks at no Call-ID, `server.go:1986` against
`docs/gb28181-sink-design.md:658`). The others hold in the models as they stand;
where a definition is named, adding it to the cfg of the part exhibits the case.

**Pipe, services and hub**

- Stop after a failed Start keeps the callback at the source
  (`default_pipe.go:168`; `pipe.go:29` says that Stop unbinds).
- When the start of a pipe fails, its input and output stay running behind rows
  that say stopped (`pipe_service.go:244`; `EngineMatchesDB` with faults).
- An input or output can be started after its removal, as the hub looks it up
  under the lock and starts it without (`media_hub.go:182`; `NoZombieSource` and
  `NoZombiePipe`). No run claims that it cannot.
- `PipeService.Update` (`pipe_service.go:65`) moves a pipe to an output that
  another pipe feeds already; Create forbids it.
- Two concurrent Creates pass the same check (`pipe_service.go:103`) and both
  insert, as the unique index is on the pair of input and output.
- A failing StartInput inside startPipe is only logged (`pipe_service.go:241`);
  outputs that accept an empty stream list let the pipe start, and the input's
  row becomes running.
- After the panic of Configure in a request the pipe stays marked started
  (`default_pipe.go:115`): the next start succeeds at once and the row says
  running. `PipeRowsTrue` leaves these pipes out.

**HTTP-FLV and RTSP outputs**

- Once the ring has wrapped, a new HTTP-FLV client does not start at a keyframe
  (`httpflv_sink.go:329`, `NewClientStartsAtKeyframe`; `docs/design.md:458`).
- A Configure under connected HTTP-FLV clients leaves their cursors where they
  were: they are sent stale bytes.
- configureLocked replaces the video media before it can fail, and keeps the
  old one when the new input has no video (`rtsp_sink.go:161`). The next parameter
  sets or video frame go to a stream that has not got that media; the comments
  at `rtsp_sink.go:262` and `rtsp_server.go:30` say why that must not be.
  `RacesHarmless` leaves such packets out.
- A publisher that announces the path of a sink closes the sink's stream
  (`rtsp_server.go:129`); the sink runs on unheard until it is configured again.

**GB28181 output**

- A Stop during the first registration finds no socket to de-register through,
  and the flow, which takes no `regMu`, registers the device after it; a lost
  de-REGISTER has the same end (`server.go:1334`, `gb28181_sink.go:306`).
  `docs/gb28181-sink-design.md:63` says that the platform sees the device go
  offline (`DepartedAfterStop`).
- The first dial of an outgoing stream is never retried
  (`gb28181_sink.go:262-263` says it is).
- `readSIPStream` sets its read deadline once per message and, when it has passed
  before a header came, tries again with the same deadline (`sip_tcp.go:109`, `:124`):
  after one second of silence the goroutine spins, nothing that arrives is read, a
  drop is not noticed and, as the connection stays in `tcpConns`, not healed, though
  `sip_tls.go:196-200` promises it (`StreamHeals`). With keep-alives a minute apart this is the rule, not the exception; the model counts
  it as a fault so that the other properties of a stream can be looked at without
  it. The goroutine of an inbound connection spins the same way and for ever, as
  it sees neither its peer's end nor the context, and Stop closes no such connection.
- Inbound TCP connections handle requests at once (`sip_tcp.go:45`). Two INVITEs
  may both pass the teardown (`server.go:1680`) before either stores what it has
  made (1884-1902); the first session then streams on, subscribed and uncancelled,
  which the comment at 1676-1679 says must not be (`InviteLeaksNothing`). `OneStream` leaves out the sessions of such INVITEs and no others.
- A BYE on another connection that comes between two sections of an INVITE tears
  down what is there, and the INVITE goes on to start a session whose dialog is over.
  An INFO that has read `playbackCtl` sends to a playback that left the slot since.
- With the transport "tcp" there is no UDP socket, and the INVITE of a broadcast
  cannot be sent (`server.go:557`).
- A seek forward does not move the anchor of the pace (`playback.go:178-196`,
  279-306): the platform gets nothing for as long as the gap it wanted to skip.
- A talk that Stop overtakes between its 200 and its slot keeps its socket and
  goroutine; an accepted TCP connection may overwrite the slot of a later session;
  a playback that ended by itself stays in the slot until the next request.
- `inviteRespCh` is read without a look at the Call-ID, and 100 Trying counts as a
  refusal (`broadcast.go:173-179`). Broadcasts are not torn down with the
  sessions as `broadcast.go:8-11` says (`BroadcastsToo`).
- Parameter sets do not always travel with the picture they precede
  (`segment.go:60-61`, `KeyHasParameters`): they are put at the end of the access
  unit before it.
- After a new Configure, and until its first key frame, a session may be sent
  pictures that start with no key frame (`gb28181_hub.go:6-8`,
  `ReplayStartsWithKey`): Configure does not reset the cache. A replay longer than
  the channel (128 units, `gb28181_hub.go:57`) is cut silently.
- A Configure that fails at the ADTS header leaves half of its fields assigned
  (`gb28181_media.go:90-103`; not modelled). `tsLocked` multiplies a time in
  90 kHz by a second and overflows after about 28 hours.
- A MESSAGE without a body is answered 500 (`manscdp.go:736-739`,
  `EmptyAcknowledged`). Stop never closes `positionCancel`; a SUBSCRIBE with
  Expires 0 is booked for 3600 s; x-media's own sink never installs a position
  source, so the position loop runs only with another owner of the device; a
  renewal starts the CSeq of NOTIFY anew; pages are sent 50 ms apart on the
  goroutine that receives.

**RTMP and WebRTC outputs**

- WriteFrame checks the status before it takes the lock (`rtmp_sink.go:103-128`):
  a connection may be opened after Stop and stays (`StopDisconnects`). A sequence
  header that fails is only logged.
- The model of WebRTC has one goroutine in WriteFrame; two runs of a pipe that
  overlap could be two for a moment (`SinkInOrder` of the pipe leaves them out too).
- A WHEP request that passes its check before Stop adds its client after it
  (`StoppedHasNoClient`). `lastKeyframe` is kept and never replayed, although
  `webrtc_sink.go:23` and `:36` say so.

**Inputs**

- For a camera with ONVIF metadata (a generic format without configuration) the
  channels of frames differ from those announced (`ChannelsAgree`; the comment at
  `rtsp_input.go:339-340` says they agree). Two overlapping Stops and a Start
  leave a connection behind (`StoppedIsQuiet` with `InTurn = FALSE`); clients whose
  SETUP or PLAY failed are never closed; streams are not refreshed on
  reconnection; `reconnect` and `reconnect_interval_ms` (`docs/design.md:110-111`)
  are ignored.
- A second Start of an MP4 input does not reset `paceAnchored`, so it runs ahead
  of the clock (`mp4_source.go:48-50`, `OnTime` with `Starts = 2`). After the last
  sample of a round there is no next one to wait for (`mp4_source.go:628`): the loop
  waits a nominal frame interval (569-573), and the first frame of the next round
  is early if that sample lasts longer.
  `nextPaceTarget` counts paused tracks; `reAnchorPacing` takes `loopDur` alone when
  the base track is exhausted (755-758). A seek between the choice of a sample and
  its reading gives a payload another sample's header (`SampleOfItsHeader`). The
  status stays running after the end of the file or a read error
  (`RunningReads`). The time a seek asks for ignores the rounds played.

## 6. Plan

Done: pipe, hub, control plane, HTTP-FLV, RTSP servers; registration, media
sessions, playback, frames and commands of the GB28181 output; RTMP and WebRTC
outputs; MP4 and RTSP inputs. Every safety property the passing runs check is a
theorem.

What could follow:

1. Operators for what is pure arithmetic: FLV and RTP time stamps with their
   width, the splitting of PS packets, against a reference definition.
2. The Configure of GBFrames that fails half way; the guard state of MANSCDP.
3. `EngineMatchesDB` with starts that fail, once the code records in the row what
   it now only logs (`pipe_service.go:241`).

## 7. Not modelled

Encoding and parsing (FLV, PS, RTP, SIP, SDP, XML, AMF0), sockets, the file
system, ffprobe, logging, statistics, configuration, the front end and the Python
test source: no state of theirs takes part in the properties above. TLS and
multicast differ from the transports modelled in how bytes travel. The digest
of SIP and the MANSCDP executors that are mocks are abstracted to success or failure.
The orderly shutdown of `main` is an action of the hub (`StopAll`), not of
ControlPlane: the rows are not touched by it, so for them it is an end of the
process. Signals of the control path (`SendSignal`) change nothing in pipe or
hub; what they do to an MP4 input is in MP4Source.
