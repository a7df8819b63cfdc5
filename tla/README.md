# TLA+ models of p3-vision-nx

p3-vision-nx is an analytics plugin for the NX video server. The C++ plugin runs
inside the server; for every camera it sends frames over a Unix socket to a Python
worker, which runs a detector and a tracker and answers with boxes; the plugin turns
the boxes into NX metadata. This directory holds TLA+ models of the parts that keep
state, TLC configurations that check them on small instances, and TLAPS proofs of the
results that do not depend on the size of the instance.

Paths below are relative to the repository; `…/sample/` stands for
`src/nx/vms_server_plugins/analytics/sample/`.

## 1. The system

    settings page --> Engine ----- broadcastEngineConfig ----+
                                                             v
    camera page --> DeviceAgent::settingsReceived --> sendConfigToWorker --+
                                                                           v
    camera frames --> pushUncompressedVideoFrame --> sendFrameAndRecv --> IpcClient
                            ^      |                                       |
                  metadata  |      +- resolveTrackUuid (cache)             | socket
                                                                           v
                                       worker.py: serve(), one thread per connection
                                         adapter (onnx, openvino, tensorrt, pytorch)
                                         infer_utils (crop, masks, class filter)
                                         ByteTrackLite

| component | state it keeps | operations | modelled |
|---|---|---|---|
| ByteTrackLite (`python/tracker.py`) | next id, list of tracks, max_age, match mode | `set_params`, `update` | Tracker, TrackIds |
| Track UUID cache (`…/device_agent.cpp`, `resolveTrackUuid`) | LRU list, map of iterators into it | lookup, insert, evict | TrackUuids, LruMap, Identity |
| Configuration push (`…/device_agent.cpp`, `…/engine.cpp`) | the camera's settings, the engine's defaults, a message on its way | `settingsReceived` (two), `sendConfigToWorker`, broadcast | ConfigPush |
| IpcClient (`…/ipc_client.cpp`) | `m_fd`, `m_nextConnectAttempt` | attach, config, detach, frame call, reconnect | IpcClient, FrameRpc |
| Connection handler `serve()` (`python/worker.py`) | adapter, labels, class filter, regions, polygon cache, tracker | config, frame, leave | WorkerServe; the frame branch again, with its arithmetic, in FramePipeline |
| Inference adapters (`python/adapter_*.py`, `python/optional/`) | session, output layout | `load`, `infer` | Adapters |
| Letterbox, decoding, masks (`python/infer_utils.py`) | none | numerical functions | Geometry, FramePipeline |
| Settings parsing (`…/device_agent.cpp`) | none | `parseClassesJson`, `parsePolygonJson`, `parseBoxFigure`, `parseFloatPercent`, … | SettingsPage (partly) |
| Engine (`…/engine.cpp`, `.h`) | default runtime and device, worker count, probe result, list of agents | settings, registration, broadcast, manifest | EngineAgents |
| Environment probe (`…/env_probe.*`, `python/env_probe.py`) | its result | one subprocess at start | EnvProbe |
| Class table, manifests, plugin entry point | none | static data | no |
| Worker process, systemd unit, scripts | the process | start, die, restart | death and restart are actions |

What is hard about it, and what has to be right:

* **Tracker.** A greedy matching that terminates by the values it overwrites; ageing
  that must run before new tracks are appended; parameters that change while tracks
  live. *Right means:* every box gets one id of its own, an id is never reissued, no
  box becomes a new id beside a track that was free and near enough, a track keeps its
  class family, the loop ends.
* **Identity over time.** Ids are per connection and start at 1; the UUID cache is per
  camera and survives reconnects; it is bounded. *Right means:* list and map stay
  coherent, a track has one UUID, a UUID has one track.
* **Configuration.** Two threads push, each takes a snapshot and sends after it has
  released the locks; a send that fails is only logged; a new connection starts
  without any configuration. *Right means:* what is applied is what was saved last.
* **The socket.** `IpcClient` has no lock and re-reads `m_fd` for every operation; the
  answer's id is not compared with the question's; reads have no timeout. *Right
  means:* framing is kept, no socket leaks, an answer belongs to its question, calls
  return.
* **serve() and its adapters.** Adapter swap, load, filters, polygon cache and tracker
  parameters are changed one after the other and some steps can raise, inside an
  adapter's `load()` too. *Right means:* labels describe the session, a config that
  worked is in effect, a model's output is read by that model's layout, no cached value
  of an earlier config shows in an answer, the tracker ticks once per frame.
* **A frame's way to the model and back.** Five coordinate systems (drawing, frame, crop,
  canvas, drawing again), roundings that differ on the two ways, a suppression whose
  result depends on what was filtered before it. *Right means:* a box is where its object
  is, an object that should be reported is, a mask decides about what is reported and
  not about something near it.
* **What the page says.** The client sends figures in three shapes; "nothing drawn",
  "drawn but unusable" and "every class unticked" all look nearly alike and pass two
  parsers. *Right means:* what the user drew is in force and nothing else.
* **The engine and its agents.** The broadcast calls agents from a copy of the list while
  others come and go; values can come from the camera, the engine, the probe or a
  constant. *Right means:* after a change every agent has the new values, only an agent
  that leaves during the broadcast can be called dead, and no message names a runtime
  or a device the machine does not have.

The list of hazards with their lines is in `PROJECT.json`.

## 2. Modules

`TrackIds` is the abstract specification of what the tracker promises about ids: they
are issued in order and once, live while seen or missed for at most `maxAge` frames,
and a frame names no id twice.

`Tracker` is `ByteTrackLite`. `update()` is split at its loops: `UpdateStart` builds the
IoU matrix, each `Pick` is a turn of the greedy loop with its masking and its defensive
branch, `Apply` is the end of the loop with ageing and pruning, `Create` and
`SkipMatched` are the turns of the last loop, `Return` ends the call. `UpdateEmpty` is
the fast path for a frame without boxes. The list of tracks is a function from id to
record (it is ordered by id, see the module's comment). The IoU of two positions is a
constant function, so nothing depends on a particular geometry. `Tracker` implements
`TrackIds` (`ImplementsTrackIds`).

`TrackUuids` is `resolveTrackUuid`: the list, the map, hit, miss and eviction. An entry's
UUID stands for the list node that the map's iterator points to. `Identity` composes it
with `TrackIds`: the worker's tracker issues ids, the reply carries them, the plugin
resolves box after box, and a reconnect replaces the tracker but not the cache. `LruMap` is
what the cache is to be, with neither list nor iterators: a map of at most `Cap` ids that
knows of each id which others were used since. The cache implements it (`ImplementsLruMap` in
`IdentityProofs`).

`ConfigPush` follows a configuration from the two settings callbacks through the four
locks of `sendConfigToWorker` to the worker. Contents are version numbers. An IpcClient
call is one step here. The history variable `overlapped` remembers whether the last
callback began while the other one was running.

`IpcClient` looks inside that step: each call is the sequence of socket operations it
makes, messages travel in the chunks the code writes and reads, `serve()` is the reader
at the other end. The worker may die at any moment (`WorkerDies`), and so may the media
server with the client in it (`ServerDies`). A send or a recv may also fail while `serve()`
lives (`IoError`), and an answer may be no JSON, which is no answer and keeps the
connection (`Read`). `FrameRpc` is what `sendFrameAndRecv` promises: a call returns the
answer to its own frame or nothing, and a frame is handled at most once. A call that gave
up does not take its frame back: `serve()` of the old connection may handle it while the
next call is under way, after that call's frame even. `IpcClient` implements `FrameRpc` when
calls do not overlap (`ImplementsFrameRpc`).

`Adapters` has the four inference adapters: what a call of `load()` can leave behind,
with every point where it can raise (`LoadOutcomes`), and what `infer()` can answer
(`InferOutcomes`). `Torn` names the one state in which an adapter has a new session and the
layout of the old one: OpenVINO's `load()` raised after its line 101.

`WorkerServe` is `serve()` around them: one action per outcome of a config (`ConfigKeeps`,
`AdapterFails`, `LoadWorks`, `LoadFails`) and of a frame (`FrameSkipped`, `FrameInferred`,
`FrameRaises`), and `Leave`. The tracker is updated at two places of a frame, and the flag
`tracker_ticked` is to make it one update per frame: `FrameStart` resets the flag, `InTry` is
the update on the way of a frame that is inferred, `PostBlock` the one behind the `try`, for
the others. Geometry is one-dimensional here: columns and pixels per
column, which is enough to tell normalized from pixel coordinates, crop-relative from
frame-relative positions and a small crop from a large one.

`FramePipeline` takes the frame branch apart, with both dimensions and the arithmetic of
the code, one step per stage: `Received`, `LetterboxFails` or `Infers` (letterbox, model, masks of
`decode_boxes`), `Thins` (suppression), `Places` (the way back to the frame), `FiltersByRegions`,
`Sent`; `Configured` is a config between two frames. It is built on two modules of operators:
`Geometry` (crop, letterbox, its inverse, masks; positions are exact multiples of a
named unit, so no floating point is needed) and `SettingsPage` (what was drawn, as JSON in
the shapes the client uses; the parsers of `device_agent.cpp`; the message; the parsers of
`worker.py`). The network is external: it draws a box where the resized image shows the
object.

`EnvProbe` is what the script finds on a machine, what `env_probe.cpp` and the engine make
of it, and what the engine's page offers. `EngineAgents` has the engine's settings, the
broadcast over a copy of the list, and the life of agents from `doObtainDeviceAgent` to
the end of the destructor. A push goes lock by lock here too: the agent's settings
(`Snapshot`), the three values it asks the engine for (`AskRuntime`, `AskDevice`, `AskWorkers`)
and the message (`Send`), on the camera's thread or on the engine's. Where `ConfigPush` has one
agent and a link that fails, `EngineAgents` has several and links that work.

Both loops over the points of a polygon, in `parsePolygonJson` and in `_coerce_poly`, append what
they do not skip; `ItemsAt` says that as the items at a set of places, in their order, which
can be reasoned about for a list of any length.

`MCTracker`, `MCWorkerServe`, `MCFramePipeline` and `MCEngineAgents` give constants that a .cfg
cannot express. `TrackerProofs`, `IdentityProofs`, `ConfigPushProofs`, `IpcClientProofs`,
`WorkerServeProofs`, `FramePipelineProofs` and `EngineAgentsProofs` hold the proofs, on the lemmas
of `FiniteOrder` (smallest sets, largest numbers, ranks; finite sets only). Each module
that is checked also holds the operators the mutation checks use; they are marked
"Mutant of …", are used by no specification, and show for each property one plausible
bug that it detects.

How they share the system: a value on the page becomes a parameter in `SettingsPage`
(regions, classes) and `EngineAgents` (runtime, device); `ConfigPush` says when the parameters
reach the worker, `IpcClient` how the message does; `WorkerServe` says what they do to the
session, `FramePipeline` what they do to a frame; the boxes get ids in `Tracker` and UUIDs
in `Identity`. Where one module takes a step of another as a whole, its comment says so.

## 3. Runs

| run | properties | what it shows |
|---|---|---|
| tracker | TypeOK, DefensiveBranchDead, NoBlockingPair, ReturnedIds, FamilyKept, NoIdReissued, UpdateReturns, ImplementsTrackIds | the tracker's promises, with all three match modes, an unknown mode and both max_age values |
| identity | TypeOK, Coherent, OneUuidPerTrack, NoMergeInConnection, EvictedAreDead | the cache over frames, evictions and a reconnect |
| identity_reconnect | OneTrackPerUuid (violated) | after a reconnect a UUID names a second object |
| config | TypeOK, ConfiguredMeansCurrent, LaterReadsNotOlder, SavedIsPushed, FramesReconnect | both callbacks, overlapping or not: a configured worker is a current one unless the last two callbacks overlapped; how torn a message can be; a working link gets what was saved; frames bring the link back |
| config_stale | MirrorsTheWorker (violated) | with both callbacks at once, the engine's push can carry an older page of the camera and go out last: the worker keeps settings that the members no longer hold |
| config_unconfigured | ReconnectReconfigures (violated) | a worker that came back is not configured again |
| ipc_serial | TypeOK, Aligned, NoLeakedSocket, CallsReturn, ImplementsFrameRpc | one call at a time: framing, sockets, answers, termination, while the worker dies, the connection fails and answers are no JSON |
| ipc_overlap | Aligned (violated) | a configuration written between the chunks of a frame |
| worker | TypeOK, LabelsNameTheSession, ConfigTakesEffect, ReportsWhatIsAllowed, UntickedNeverReported, OneTickPerFrame | serve() and its adapters over sequences of configs and frames with failures |
| worker_swap | FailedLoadKeepsSession (violated) | OpenVINO's `load()` raises after it has replaced the session |
| pipeline | TypeOK, PageIsInForce, WhereItIs, MissingHasAReason, MasksDecide, RaisesOnlyIfElongated | from the drawing to the parameters, and a frame through crop, letterbox, decoding, suppression, remapping and masks |
| engine | TypeOK, EveryAgentFollows, OnlyOverlappedDestructorsAreCalled, MessagesNameWhatIsThere, ShownIsUsed | defaults from four machines, changes of the engine's page and of the cameras', agents that come and go during a broadcast, both threads' pushes lock by lock |

The five violated properties state what a text of the repository says and the code does
not do; `PROJECT.json` quotes the text of each ("findings"). Two of them, `config_stale` and
`ipc_overlap`, need two threads in one agent at the same time. The code's comments name
three: `device_agent.h:60-63` says that `onEngineConfigChanged` runs on the engine's thread and
`settingsReceived` on the server's settings thread, and `device_agent.h:98-99` that frames come
on a dedicated plugin thread. The members have a mutex for that reason; `IpcClient` has
none. `ConfiguredMeansCurrent` (which is `MirrorsTheWorker`, and the same of the engine's
defaults, where the last callback began after the other had ended) and the run ipc_serial (`Overlap = FALSE`) show that the same code
is right when calls are serialized, so that the interleaving is the cause.

Notes on single properties:

* `OneUuidPerTrack` and `EvictedAreDead` are conditional on the number of tracks
  *around* in a frame: those live when it arrived plus those created. The plain count
  of live tracks is not enough, because ids that died in this very frame still occupy
  the front of the list.
* `LaterReadsNotOlder` is what remains of "a message is a snapshot": the four locks are
  taken one after the other, so a message can mix two states, but only in one
  direction.
* `FailedLoadKeepsSession` also fails if the runtime changes with the model
  (`worker.py:319`: the new adapter replaces the old one before its load is tried). With the
  same runtime and any adapter but OpenVINO the old session is kept.
  `LabelsNameTheSession` and `ConfigTakesEffect` show that a swap at least never mislabels
  what runs, unless the load was torn, and the theorems `OldSessionsSurvive` and
  `FailedLoadsAreRetried` say what is left of the promise.
* `WhereItIs` allows half a pixel of the model's input per edge. That is what the rounding
  of the resized image costs: the letterbox rounds its sides to whole pixels, and the way
  back divides by the exact ratio.
* `MissingHasAReason` says that an object suppressed by another is suppressed by one that
  was reported (or masked afterwards). It fails if the class filter runs after the
  suppression, because then an unticked object can hide a ticked one.
* `RaisesOnlyIfElongated`: `cv2.resize` refuses a side of no pixels. The crop's minimum of 8
  pixels keeps a thin region of interest from doing that, the frame alone may.
* `EveryAgentFollows` holds in spite of the copied list because the engine's values are
  written before the list is copied and an agent is registered before it gets its own
  settings. It is about agents of which no push is under way and whose last push did
  not begin during another one: without the second condition it fails as `config_stale`
  does, the camera's thread having read the old default before the broadcast and sending
  it after.
* `MirrorsTheWorker` is about the camera's own settings only: that the members mirror "what we
  last pushed" (`device_agent.h:60`) says nothing of the engine's defaults.
* `NoLeakedSocket` and `CallsReturn` are about one caller at a time. With two, both can connect
  and the first socket is lost, and a read can wait for ever on a connection that was
  never asked. No text promises otherwise, so there is no run for it.

Texts that differ from the code where no run was given to it: `engine.cpp:316` speaks of
"(ROI ∪ Inclusive)" to the user, and the code intersects the two: a mask that
is not in the ROI adds nothing to it; `engine.h:27-29` says the defaults stay in sync
with what the page shows, which `ShownIsUsed` needs a condition for (the devices of the first
reported runtime could be listed); `engine.cpp:235` mentions a fall-back to AUTO, which only the
OpenVINO adapter has.

### Bounds

* *tracker*: two overlapping positions, three classes (two in one family), two
  detections per frame, four ids. Two detections against two tracks is the smallest
  matrix in which a greedy pick can block another; four ids let tracks die and be
  followed by others.
* *identity*: `Cap = 2` with up to four tracks and two boxes per frame: the cache
  overflows both with and without a frame that is too crowded; two connections, seven
  UUIDs.
* *config*: two saves, one engine change (two in the runs that expect a violation), two
  disappearances of the worker: an old snapshot can be overtaken by a new one in each thread, before and after a loss.
* *ipc*: two frames, three control messages (attach, config, detach), three
  connections: a failed call, its reconnect and a second failure.
* *worker*: three columns, two scales of which one makes some ROIs too small for the
  crop, two families of configs (what to run, what to report), two frames after the
  first config. `MaxTicks` bounds the frames once there is a tracker; configs are
  unbounded. Three models: one of each layout and one whose output has a dynamic rank.
* *pipeline*: three frame sizes (fitting, wide, and one so long that a letterbox reduces it
  to nothing), two model inputs, so that either side decides the ratio and paddings are
  even and odd; scenes of up to two objects of which pairs overlap with better, equal
  and worse scores; a crop, masks, filters in all combinations, and seven odd drawings
  (clicks, incomplete points, two-point masks, coordinates out of the frame, unknown
  names, other shapes).
* *engine*: two places for agents, so that one is freed and reused while the other is
  called; four machines (nothing installed, one runtime with two devices, two runtimes
  with one, a first runtime without a device list); pages that name OpenVINO, the CPU or
  nothing (`Choices`), one or two workers. Nothing bounds the clicks, the broadcasts or
  the agents obtained: the run covers every reachable state. Agents are symmetric.

### Fairness

* `Tracker`: weak fairness of the steps of `update()`, which is straight-line code; none for
  a frame to arrive.
* `ConfigPush`: a callback that has started goes on (`PushStep`); frames keep coming, as
  long as the camera runs (`FrameStep`); the cooldown of two seconds ends; the worker
  handles its messages; systemd restarts it (`Restart=on-failure` in the unit). The number of
  disappearances is bounded, so "eventually always connected" means: once they stop.
* `IpcClient`: the threads run and `serve()` goes on, which includes that an inference
  returns. No fairness for connections to succeed or for the cooldown, and an `IoError` is
  owed to nobody: calls return without one.

Deadlock is checked in every run; steps in which nothing the model keeps changes
(`FrameServed`, `Rest`) are actions where the system may go on without an effect or rest.

## 4. Proofs

`TrackerProofs`, for every set of positions and classes, IoU function, threshold,
max_age values and bounds:

* `TrackerTypeOK`, `DefensiveBranchNeverRuns`, `GreedyIsStable`, `EveryBoxGetsItsId`,
  `TracksKeepTheirFamily`, `DeadIdsStayDead`, and `TrackerImplementsTrackIds`.
* The invariant behind them relates the matrix to the matching. While the greedy loop
  runs, an entry is either the original score of a free pair or -1, and it is -1 exactly if its
  row or column has been taken; the matching is injective; a masked pair was beaten by
  the pair that masked it. `TypeOK` alone is not inductive: it cannot tell that a
  matched id is live.
* `UpdateReturns` is a liveness property, and two theorems prove all of it but the fairness:
  `GreedyLoopGoesOn` (a turn of the greedy loop always has a largest entry to take or
  nothing left to take, so nothing is stuck) and `EveryStepOfACallCounts` (every step inside
  a call lowers a count that starts at twice the detections plus two and stays at or above
  zero). The first needs that a finite matrix has a first largest entry in the order of
  `np.argmax`, which is proved with `FiniteOrder` (a nonempty family of finite sets has a
  smallest, the replacement for an induction over the matrix).
* `FamiliesAreCanonicalKeys`: `SameFamily`, by which the model matches, is the comparison of the
  keys that `_canonical_cls` returns, in every mode, unknown ones included.
* The assumptions are those named in `Tracker`: IoU values are natural numbers, the
  threshold is positive, classes and max_age values are natural.

`IdentityProofs`, for every capacity and bounds: `IdentityTypeOK`, `CacheIsCoherent`,
`TracksAreNotMerged`, `EvictedTracksAreDead`, `TracksAreNotSplit`. `Coherent` is inductive together
with the types; `NoMergeInConnection` needs that every UUID belongs to one integer id. The
last two rest on recency (`RecencyOK`): what stands before an entry used in this connection was
used later in it, so its track was seen no earlier and is dropped no earlier, whatever
`max_age` was meanwhile. While a frame is in progress this holds only up to the boxes not
resolved yet and the tracks that died in this frame, which is where the condition on the
tracks *around* comes from: an eviction of a live track finds Cap ids in the list, all of them
around, and brings one more. `OneUuidPerTrack` adds that a live track that was shown is still in
the cache under its UUID as long as no frame was crowded.

`CacheIsAnLruMap` is the refinement of `LruMap`: the ids of the map are the keys of `m_trackUuids`,
an id's UUID is that of the entry its iterator points to, and what was used since an id was
last used is what stands before its entry. `SinceMoves` shows that a hit's `splice` and a miss's
`push_front` both add the id to that of every id that stays; `OldestIsLast` that the last entry
is the one all others were used since; `MissKeepsTheYounger` that the loop of evictions removes that
entry, and only from a full list. The whole composition keeps refining it: frames,
reconnects and changes of `max_age` are stutters of the map.

`ConfigPushProofs`, for any number of saves, engine changes and hang-ups, and for both
threads at once: `PushTypeOK`, `TornOneWayOnly` and `AloneMeansCurrent`. The first two rest on an
invariant that compares what a thread has read with what there is to read (versions only
grow). The last one needs four facts together, each under the condition that the last
callback began alone: only one thread is inside a push; what it has read so far is
current, because nobody else can change it; a link that is not open has nothing
configured, so a lost push leaves no old configuration in force; and between pushes the
last message of the link is the current one. Two more theorems say what overlapping callbacks
cannot break: `PushesAreWholeInTheirOwnPart` (a message carries its sender's own part as it is
when it is sent; only the other thread's part can be old) and `SavesAreHandedOver` (the camera's
callback does not return over a working link before what was saved has been pushed), the
safety half of `SavedIsPushed`.

`IpcClientProofs`, for any number of frames, messages and connections, if calls do not overlap
(`~Overlap`; with overlap, the run ipc_overlap violates `Aligned`): `IpcTypeOK`, `ClientIsAligned`,
`SocketsAreClosed` and the refinement `ClientImplementsFrameRpc`. The invariant says of every
connection that the chunks on the wire are a walk through `AfterRead` from what `serve()` waits
for to what the client writes next; that a body on its way is the last chunk of its
connection, that its frame has not been handled and is on its way in no other connection,
and that a body in the connection in use is that of the call that waits; that at most
the socket in `m_fd` is open; and that what comes back there is the reply to the call that
waits for it. For the refinement, a step of the client is a step of `FrameRpc` where the frame
thread starts or returns, `serve()` reading a body is `Handle` of its frame, late or not, and
everything else is a stutter.

`CallsReturn` is proved but for its fairness. `NobodyWaitsForNothing`: a frame call that is blocked in
`readFramed`, which has no timeout, finds the end of the stream, or the part of the reply it
asks for, or `serve()` has a chunk it can read with this frame's body behind it.
`EveryStepShortensACall`: each step of the calling thread and each chunk `serve()` reads lowers a
count, and nothing that dies or reconnects meanwhile raises it. The first adds one conjunct to
the invariant (`BodyAhead`: a thread that is about to read has its body at the end of the
stream, unless it was answered or nobody is left to answer it).

`WorkerServeProofs`, for any configs, scenes, models and frame sizes: `WorkerTypeOK`,
`LabelsAreRight`, `ConfigsTakeEffect`, `AnswersAreAllowed`, `UntickedStayOut`, `TicksCountFrames`. The
invariant adds to the properties that the runtime label is right also while there is no
session (otherwise a later load into the kept adapter would be mislabelled), that an
adapter that is not torn has the layout of its model, that no frame is counted without a
tracker, and that every cached polygon is that of the regions in force. `TicksCountFrames`
rests on a lemma about the flag (`OneOfTheTwo`: whichever way a frame takes to the end, the
tracker is updated at one of the two places and not at both, whatever the flag was left at
by the frame before).
`AnswersAreAllowed` also uses that a mask in pixels tells the same columns apart as the mask
in columns, which holds because a column has at least one pixel. `OldSessionsSurvive` and
`FailedLoadsAreRetried` are about the promise that the run worker_swap refutes. A load that fails
leaves adapter, session and labels as they were if the runtime stays and the model's rank can
be told; with a new runtime no session is left; and only OpenVINO can leave the new session under
the old labels. In all of these cases the same config sent again loads again, in
the same adapter, which needs that labels never name a model where there is no session. The assumptions are that
configs and scenes lie in the frame and that `None` is none of the values it is compared
with.

`FramePipelineProofs`, for any frame and model sizes, drawings, scenes and threshold:
`PipelineTypeOK`, `PipelinePageIsInForce`, `PipelineWhereItIs`, `PipelineMissingHasAReason`,
`PipelineMasksDecide`, `PipelineRaises`. The arithmetic is in lemmas about one axis (`RoundIsNear`, `RatioIsProper`,
`PlacedIsNear`: a box brought to the canvas and back is off by at most half a model
pixel, clamping included); the invariant says of each stage what its rows are.
Non-linear arithmetic is beyond the SMT solver, so products are compared step by step.
`PipelinePageIsInForce` follows a drawing with any number of points through both parsers. The
places that are kept are numbered by the number of places below them (`EveryRankOccurs` of
`FiniteOrder`: every number up to their count occurs, once), so that `ItemsAt` is the list of
complete points in their order; a second pass over complete points is the identity; and a
key is absent from the message exactly if nothing usable was drawn. The assumptions are that
sizes are positive, that points are lists of integers (a unit is as small as one likes) and names
are strings, that `None` is neither, and that the masks a drawing gives are rectangles
(`MasksAssumption`). No proof cites the last one; it is what makes "in the mask" the test of the
code, because `FramePipeline` compares a point with the mask's bounding rectangle.

`EngineAgentsProofs`, for any agents and machines: `EngineTypeOK`, `AgentsFollow`,
`DeadAreCalledOnlyInOverlap`, `NamesAreThere`, `DefaultsAreShown`. The invariant behind `AgentsFollow`:
unless an agent's last push began during another, what it was told last is current, or a
push of it is under way that has read nothing old and will read the rest, or the broadcast
has still to call it. A change of the page makes every message old at once, but only
while no list is being called, and the list that is copied next has every live agent.

Model-checked only: the liveness properties `UpdateReturns`, `FramesReconnect`, `SavedIsPushed` and
`CallsReturn`, which need fairness and are out of the prover's reach. Of three of them the theorems
above prove what does not. Every invariant, action property and refinement that a passing
run checks is proved for every value of the constants. What the recursion in `cv2.dnn.NMSBoxes`
or in a JSON parser computes is not modelled, so nothing is proved of it.

## 5. What is left out

* Percentages and integers of the settings page (`parseFloatPercent`, `parseInt`), and what
  of a frame lies in a mask that is no rectangle (which points of it are in force is
  `PageIsInForce`, for any polygon).
* Bytes inside a chunk. A frame's body is one chunk: the client sends `dataSize` bytes
  and the worker waits for `h * stride`; the frames the SDK delivers in packed RGB make these equal.
* A control message whose JSON does not parse or whose type is unknown (`serve()` skips it),
  and `accept()`.
* The inference libraries. Whether they import, load, compile or run is a choice.
* What a call on a destroyed agent does: `EngineAgents` shows when it can happen.
* Class table, manifests and plugin entry point: static data and text.
* The subprocess of the probe and the deployment scripts.

## 6. Plan

Done, in this order: tracker, UUID cache, configuration push, client and connection
handler, with the proofs of all; then adapters, the frame pipeline with the settings
parsing, the engine with its agents and the probe, and their proofs.

Then the proofs of what the page says, of the cache as an `LruMap`, and of the safety halves of the
liveness properties.

Left: `parseFloatPercent` and the threshold it produces; masks that are no rectangles in
`FramePipeline`; what the client still promises when its threads overlap. The theorems about
`IpcClient` assume `~Overlap`: with overlap `Aligned` fails (run ipc_overlap), and the model's
`serve()` ends a connection whose chunks come in the wrong order, where the code may read on for a
while. Reading on has to be modelled before a weaker promise (an answer of a frame is that
frame's own or none) is worth proving.
