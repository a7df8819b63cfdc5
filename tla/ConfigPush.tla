----------------------------- MODULE ConfigPush -----------------------------
(***************************************************************************)
(* How a camera's configuration travels from the settings pages to the     *)
(* worker.  Two server threads push it: the camera's settings thread       *)
(* (DeviceAgent::settingsReceived) and the engine's                        *)
(* (Engine::settingsReceived -> broadcastEngineConfig ->                   *)
(* onEngineConfigChanged).  Both run sendConfigToWorker, which reads the   *)
(* camera's settings, the engine's defaults and the tracker's settings     *)
(* under locks it takes one after the other, and then sends.  The frame    *)
(* thread shares the IpcClient: it reconnects, and pushes no configuration.*)
(*                                                                         *)
(* Contents are version numbers.  A call of IpcClient is one step here     *)
(* (IpcClient.tla looks inside it).                                        *)
(***************************************************************************)
EXTENDS Integers, Sequences

CONSTANTS
  MaxSaved,     \* bound: Apply clicks on the camera's page
  MaxEng,       \* bound: changes of the engine's page
  MaxHangups,   \* bound: times the worker or its serve() goes away
  None          \* the worker has no configuration on this connection

ASSUME BoundsAssumption ==
  MaxSaved \in Nat /\ MaxEng \in Nat /\ MaxHangups \in Nat

Threads == {"settings", "engine"}

VARIABLES
  saved,        \* version of m_modelPath .. m_exclusiveMask, m_track*
  own,          \* which of m_runtime and m_device is not empty
  eng,          \* version of Engine::m_runtime and m_device
  pc,           \* thread |-> where its sendConfigToWorker is
  cfg,          \* thread |-> the locals it has read
  link,         \* m_fd: "closed", "open", or "dead" once the peer has gone
  cooling,      \* now < m_nextConnectAttempt
  up,           \* is the worker process listening?
  wire,         \* configs sent and not handled, oldest first
  applied,      \* what this connection's serve() last handled
  pushed,       \* history: newest version handed to a live connection
  overlapped,   \* history: did the last callback start during the other?
  hangups       \* how often the worker has gone away

threads == <<pc, cfg>>
client == <<link, cooling>>
peer == <<up, wire, applied, hangups>>
vars == <<saved, own, eng, pc, cfg, link, cooling, up, wire, applied,
          pushed, overlapped, hangups>>

Defaulted == {"runtime", "device"}
Config ==
  [main : Nat, own : SUBSET Defaulted, rt : Nat, dev : Nat, trk : Nat]

(* Mutant of NoConfig: a local starts without a value.                     *)
UnsetConfig == [main |-> 0, own |-> {}, rt |-> None, dev |-> 0, trk |-> 0]

NoConfig == [main |-> 0, own |-> {}, rt |-> 0, dev |-> 0, trk |-> 0]

(* Right after the constructor: sendAttach found the worker, or it did not *)
(* and started the cooldown.                                               *)
Init ==
  /\ saved = 0 /\ own = {} /\ eng = 0
  /\ pc = [t \in Threads |-> "idle"]
  /\ cfg = [t \in Threads |-> NoConfig]
  /\ up \in BOOLEAN
  /\ link = IF up THEN "open" ELSE "closed"
  /\ cooling = ~up
  /\ wire = <<>> /\ applied = None
  /\ pushed = 0 /\ overlapped = FALSE /\ hangups = 0

Goto(t, where) == pc' = [pc EXCEPT ![t] = where]

-----------------------------------------------------------------------------
(* The two callbacks.                                                      *)
Starts(t) ==
  /\ pc[t] = "idle"
  /\ overlapped' = \E s \in Threads : pc[s] # "idle"

(* DeviceAgent::settingsReceived writes everything under the mutex.        *)
Apply ==
  /\ Starts("settings")
  /\ saved < MaxSaved
  /\ saved' = saved + 1
  /\ own' \in SUBSET Defaulted
  /\ Goto("settings", "snapshot")
  /\ UNCHANGED <<eng, cfg, client, peer, pushed>>

(* Engine::settingsReceived with a value that differs, then the broadcast. *)
EngineApply ==
  /\ Starts("engine")
  /\ eng < MaxEng
  /\ eng' = eng + 1
  /\ Goto("engine", "snapshot")
  /\ UNCHANGED <<saved, own, cfg, client, peer, pushed>>

-----------------------------------------------------------------------------

(* Mutant of Snapshot: a push gives way to one that is in progress.        *)
SnapshotUnlessBusy(t) ==
  /\ pc[t] = "snapshot"
  /\ cfg' = [cfg EXCEPT ![t] = [NoConfig EXCEPT !.main = saved, !.own = own]]
  /\ Goto(t, IF \A s \in Threads \ {t} : pc[s] = "idle" THEN "runtime" ELSE "idle")
  /\ UNCHANGED <<saved, own, eng, overlapped, client, peer, pushed>>

(* sendConfigToWorker, one lock at a time.                                 *)
Snapshot(t) ==
  /\ pc[t] = "snapshot"
  /\ cfg' = [cfg EXCEPT ![t] = [NoConfig EXCEPT !.main = saved, !.own = own]]
  /\ Goto(t, "runtime")
  /\ UNCHANGED <<saved, own, eng, overlapped, client, peer, pushed>>

(* Engine::runtime() and Engine::device() lock once each, if they are      *)
(* asked at all.                                                           *)
EngineRuntime(t) ==
  /\ pc[t] = "runtime"
  /\ cfg' = [cfg EXCEPT ![t].rt = IF "runtime" \in cfg[t].own THEN 0 ELSE eng]
  /\ Goto(t, "device")
  /\ UNCHANGED <<saved, own, eng, overlapped, client, peer, pushed>>

EngineDevice(t) ==
  /\ pc[t] = "device"
  /\ cfg' = [cfg EXCEPT ![t].dev = IF "device" \in cfg[t].own THEN 0 ELSE eng]
  /\ Goto(t, "tracker")
  /\ UNCHANGED <<saved, own, eng, overlapped, client, peer, pushed>>

(* Mutant of TrackerSettings: the tracker's settings are read in the first *)
(* lock, the rest in the second.                                           *)
TrackerSettingsFirst(t) ==
  /\ pc[t] = "tracker"
  /\ cfg' = [cfg EXCEPT ![t] = [@ EXCEPT !.trk = cfg[t].main, !.main = saved]]
  /\ Goto(t, "send")
  /\ UNCHANGED <<saved, own, eng, overlapped, client, peer, pushed>>

TrackerSettings(t) ==
  /\ pc[t] = "tracker"
  /\ cfg' = [cfg EXCEPT ![t].trk = saved]
  /\ Goto(t, "send")
  /\ UNCHANGED <<saved, own, eng, overlapped, client, peer, pushed>>

(* ensureConnected: what a call finds or makes of the connection.          *)
CanConnect == link = "closed" /\ ~cooling /\ up
ConnectRefused == link = "closed" /\ ~cooling /\ ~up

(* sendConfig on a connection that works, found open or just opened.       *)
Deliver(t) ==
  /\ pc[t] = "send"
  /\ \/ link = "open" /\ wire' = Append(wire, cfg[t]) /\ UNCHANGED applied
     \/ CanConnect /\ wire' = <<cfg[t]>> /\ applied' = None
  /\ link' = "open"
  /\ pushed' = IF cfg[t].main > pushed THEN cfg[t].main ELSE pushed
  /\ Goto(t, "idle")
  /\ UNCHANGED <<saved, own, eng, overlapped, cfg, cooling, up, hangups>>

(* sendConfig fails; its result is ignored and nothing is kept to retry.   *)
Lose(t) ==
  /\ pc[t] = "send"
  /\ \/ link = "dead" /\ link' = "closed" /\ UNCHANGED cooling
     \/ link = "closed" /\ cooling /\ UNCHANGED client
     \/ ConnectRefused /\ cooling' = TRUE /\ UNCHANGED link
  /\ Goto(t, "idle")
  /\ UNCHANGED <<saved, own, eng, overlapped, cfg, peer, pushed>>

-----------------------------------------------------------------------------

(* Mutant of FrameFails: an I/O error leaves m_fd as it is.                *)
FrameFailsOpen ==
  /\ link = "dead"
  /\ UNCHANGED vars

(* sendFrameAndRecv, as far as the connection goes.                        *)
FrameFails ==
  /\ link = "dead"
  /\ link' = "closed"
  /\ UNCHANGED <<saved, own, eng, overlapped, threads, cooling, peer, pushed>>

FrameConnects ==
  /\ CanConnect
  /\ link' = "open" /\ wire' = <<>> /\ applied' = None
  /\ UNCHANGED <<saved, own, eng, overlapped, threads, cooling, up, pushed, hangups>>

(* On a working connection a frame changes nothing that is kept here.      *)
FrameServed ==
  /\ link = "open"
  /\ UNCHANGED vars

FrameRefused ==
  /\ ConnectRefused
  /\ cooling' = TRUE
  /\ UNCHANGED <<saved, own, eng, overlapped, threads, link, peer, pushed>>

CooldownOver ==
  /\ cooling
  /\ cooling' = FALSE
  /\ UNCHANGED <<saved, own, eng, overlapped, threads, link, peer, pushed>>

(* serve() handles the next config message of the connection.              *)
WorkerHandles ==
  /\ link = "open" /\ wire # <<>>
  /\ applied' = Head(wire)
  /\ wire' = Tail(wire)
  /\ UNCHANGED <<saved, own, eng, overlapped, threads, client, up, pushed, hangups>>

(* Mutant of HangUp: the worker keeps a camera's config in a global.       *)
HangUpKeepingConfig ==
  /\ up
  /\ hangups < MaxHangups
  /\ up' \in BOOLEAN
  /\ link' = IF link = "open" THEN "dead" ELSE link
  /\ wire' = <<>> /\ UNCHANGED applied
  /\ hangups' = hangups + 1
  /\ UNCHANGED <<saved, own, eng, overlapped, threads, cooling, pushed>>

(* The worker process dies, or only this connection's serve() leaves.      *)
HangUp ==
  /\ up
  /\ hangups < MaxHangups
  /\ up' \in BOOLEAN
  /\ link' = IF link = "open" THEN "dead" ELSE link
  /\ wire' = <<>> /\ applied' = None
  /\ hangups' = hangups + 1
  /\ UNCHANGED <<saved, own, eng, overlapped, threads, cooling, pushed>>

(* systemd restarts it.                                                    *)
Restart ==
  /\ ~up
  /\ up' = TRUE
  /\ UNCHANGED <<saved, own, eng, overlapped, threads, client, wire, applied, pushed,
                 hangups>>

PushStep(t) ==
  Snapshot(t) \/ EngineRuntime(t) \/ EngineDevice(t) \/ TrackerSettings(t)
  \/ Deliver(t) \/ Lose(t)

FrameStep == FrameFails \/ FrameConnects \/ FrameRefused

Next ==
  \/ Apply
  \/ EngineApply
  \/ \E t \in Threads :
       \/ Snapshot(t)
       \/ EngineRuntime(t)
       \/ EngineDevice(t)
       \/ TrackerSettings(t)
       \/ Deliver(t)
       \/ Lose(t)
  \/ FrameFails
  \/ FrameConnects
  \/ FrameServed
  \/ FrameRefused
  \/ CooldownOver
  \/ WorkerHandles
  \/ HangUp
  \/ Restart

(* A callback that started returns; frames keep coming; time passes; the   *)
(* worker serves and is restarted.  Nobody is bound to press Apply again.  *)
Fairness ==
  /\ \A t \in Threads : WF_vars(PushStep(t))
  /\ WF_vars(FrameStep)
  /\ WF_vars(CooldownOver)
  /\ WF_vars(WorkerHandles)
  /\ WF_vars(Restart)

Spec == Init /\ [][Next]_vars /\ Fairness

-----------------------------------------------------------------------------
TypeOK ==
  /\ saved \in 0..MaxSaved /\ own \subseteq Defaulted /\ eng \in 0..MaxEng
  /\ pc \in [Threads ->
       {"idle", "snapshot", "runtime", "device", "tracker", "send"}]
  /\ cfg \in [Threads -> Config]
  /\ link \in {"closed", "open", "dead"}
  /\ cooling \in BOOLEAN /\ up \in BOOLEAN
  /\ wire \in Seq(Config)
  /\ applied \in Config \cup {None}
  /\ pushed \in 0..MaxSaved /\ hangups \in 0..MaxHangups
  /\ overlapped \in BOOLEAN

InFlight == {wire[i] : i \in 1..Len(wire)}

(* The camera's settings as its members hold them now, and with them the   *)
(* engine's defaults where the camera has none of its own.                 *)
OwnSettings(c) == c.main = saved /\ c.trk = saved /\ c.own = own

Current(c) ==
  /\ OwnSettings(c)
  /\ "runtime" \in own \/ c.rt = eng
  /\ "device" \in own \/ c.dev = eng

Settled ==
  /\ \A t \in Threads : pc[t] = "idle"
  /\ wire = <<>>

(* The DeviceAgent's members are the "mirror of what we last pushed to the *)
(* worker" (device_agent.h): when nothing is under way, the camera's       *)
(* settings a connection has applied are those the members hold.           *)
MirrorsTheWorker == Settled /\ applied # None => OwnSettings(applied)

(* If the last callback began while the other thread was not in one, a     *)
(* worker connection is either not configured at all or has the latest     *)
(* settings and defaults, whatever was lost and whatever overlapped before.*)
ConfiguredMeansCurrent ==
  ~overlapped => (Settled /\ applied # None => Current(applied))

(* Within a message the tracker's settings, which are read last, are never *)
(* older than the rest, nor the default device older than the runtime.     *)
LaterReadsNotOlder ==
  \A c \in InFlight \cup ({applied} \ {None}) :
    c.trk >= c.main /\ ("device" \in c.own \/ c.dev >= c.rt)

(* What the user saves while the link is up reaches it, whatever else is   *)
(* being pushed, unless the link fails: nothing blocks or drops a push on  *)
(* a working connection.                                                   *)
SavedIsPushed ==
  \A v \in 1..MaxSaved :
    saved = v /\ pc["settings"] = "snapshot" /\ link = "open"
      ~> pushed >= v \/ link # "open"

(* However often the worker goes away, the frame thread reconnects.        *)
FramesReconnect == <>[](link = "open")

(* "After a successful reconnect the current config is sent again"         *)
(* (docs/nx-plugin-plan.md, 9.1).                                          *)
ReconnectReconfigures ==
  saved > 0 /\ link = "open" ~> (applied # None \/ link # "open")
=============================================================================
