---------------------------- MODULE EngineAgents ----------------------------
(***************************************************************************)
(* The engine's settings and the device agents that follow them            *)
(* (engine.cpp, with the constructor, destructor, settingsReceived and     *)
(* sendConfigToWorker of device_agent.cpp).  Three of the server's threads *)
(* meet here: one applies the engine's page and broadcasts, one obtains    *)
(* and destroys agents, one delivers the cameras' settings.  The broadcast *)
(* copies the list of agents under its mutex and calls them after          *)
(* releasing it.                                                           *)
(*                                                                         *)
(* A push is cut at every lock it takes: the agent's settings, the three   *)
(* values it asks the engine for, and the message, which goes out under    *)
(* none.  Its link works; ConfigPush is about links that do not.           *)
(***************************************************************************)
EXTENDS EnvProbe

CONSTANTS
  Agents,       \* places for DeviceAgent objects; a freed one can be reused
  Inventory,    \* the machines the plugin is started on
  Choices,      \* bound: the names users choose on the pages
  None          \* nothing was pushed

(* Names of runtimes and devices, "" for a value a page does not have.     *)
RuntimeNames == Runtimes \cup {Nothing, ""}
Devices == DeviceNames \cup {Nothing, ""}
WorkerCounts == 1..2      \* bound: the page allows 1..4
Messages == [runtime : RuntimeNames, device : Devices, workers : Nat]

ASSUME InventoryAssumption == Inventory \subseteq Machines
ASSUME NoneOfThem == None \notin Messages /\ None \notin Agents

Threads == {"camera", "engine"}
Stages == {"idle", "snapshot", "runtime", "device", "workers", "send"}

VARIABLES
  machine,      \* what the constructor's probe looked at
  engine,       \* Engine::m_runtime, m_device, m_workerCount
  broadcast,    \* "idle", "due" (changed = true) or "calling"
  todo,         \* the rest of the copy of m_agents
  agents,       \* Engine::m_agents
  life,         \* agent |-> "free", "attached", "live" or "leaving"
  camera,       \* agent |-> its m_runtime and m_device, "" if not set
  told,         \* agent |-> what its last config message said
  pc,           \* thread |-> where its sendConfigToWorker is
  whose,        \* thread |-> the agent it is pushing for
  msg,          \* thread |-> the locals it has read
  raced,        \* history: agent |-> did its last push begin during another?
  left,         \* history: agents whose destructor began in this broadcast
  applied       \* history: has anybody applied the engine's page?

registry == <<agents, life, left>>
broadcaster == <<engine, broadcast, todo, applied>>
pushes == <<pc, whose, msg, raced>>
vars == <<machine, engine, broadcast, todo, agents, life, camera, told, pc, whose,
          msg, raced, left, applied>>

Lives == {"free", "attached", "live", "leaving"}
Unset == [runtime |-> "", device |-> ""]
Blank == [runtime |-> "", device |-> "", workers |-> 1]
Pages == [runtime : (OfferedRuntimes(machine) \cap Choices) \cup {""},
          device : (OfferedDevices(machine) \cap Choices) \cup {""}]

(* Mutant of DefaultWorkers: the count is left at zero.                    *)
NoWorkers == 0

DefaultWorkers == 1

Init ==
  /\ machine \in Inventory
  /\ engine = [runtime |-> DefaultRuntime(machine), device |-> DefaultDevice(machine),
               workers |-> DefaultWorkers]
  /\ broadcast = "idle" /\ todo = {}
  /\ agents = {} /\ life = [a \in Agents |-> "free"]
  /\ camera = [a \in Agents |-> Unset]
  /\ told = [a \in Agents |-> None]
  /\ pc = [t \in Threads |-> "idle"] /\ whose = [t \in Threads |-> None]
  /\ msg = [t \in Threads |-> Blank] /\ raced = [a \in Agents |-> FALSE]
  /\ left = {} /\ applied = FALSE

-----------------------------------------------------------------------------
(* sendConfigToWorker: the camera's value, else the engine's, else a       *)
(* constant.                                                               *)
OrElse(value, other) == IF value # "" THEN value ELSE other

(* What it sends if nothing changes on the way.                            *)
Message(own, eng) ==
  [runtime |-> OrElse(OrElse(own.runtime, eng.runtime), "onnx"),
   device |-> OrElse(OrElse(own.device, eng.device), "cpu"),
   workers |-> eng.workers]

Pushing(t, a) == pc[t] # "idle" /\ whose[t] = a

Begin(t, a) ==
  /\ pc[t] = "idle"
  /\ pc' = [pc EXCEPT ![t] = "snapshot"]
  /\ whose' = [whose EXCEPT ![t] = a]
  /\ raced' = [raced EXCEPT ![a] = \E u \in Threads : Pushing(u, a)]
  /\ UNCHANGED msg

(* One lock: what the thread has read, and where it goes on.               *)
Read(t, from, value, to) ==
  /\ pc[t] = from
  /\ msg' = [msg EXCEPT ![t] = value]
  /\ pc' = [pc EXCEPT ![t] = to]
  /\ UNCHANGED <<machine, broadcaster, registry, camera, told, whose, raced>>

Snapshot(t) ==
  /\ pc[t] = "snapshot"
  /\ LET own == camera[whose[t]]
     IN  Read(t, "snapshot",
              [Blank EXCEPT !.runtime = own.runtime, !.device = own.device], "runtime")

AskRuntime(t) ==
  Read(t, "runtime", [msg[t] EXCEPT !.runtime = OrElse(@, engine.runtime)], "device")

AskDevice(t) ==
  Read(t, "device", [msg[t] EXCEPT !.device = OrElse(@, engine.device)], "workers")

AskWorkers(t) ==
  Read(t, "workers", [msg[t] EXCEPT !.workers = engine.workers], "send")

Finish(t) ==
  /\ pc' = [pc EXCEPT ![t] = "idle"]
  /\ whose' = [whose EXCEPT ![t] = None]
  /\ msg' = [msg EXCEPT ![t] = Blank]

Send(t) ==
  /\ pc[t] = "send"
  /\ told' = [told EXCEPT ![whose[t]] =
                [msg[t] EXCEPT !.runtime = OrElse(@, "onnx"), !.device = OrElse(@, "cpu")]]
  /\ Finish(t)
  /\ UNCHANGED <<machine, broadcaster, registry, camera, raced>>

-----------------------------------------------------------------------------
(* Engine::settingsReceived.                                               *)

(* Mutant of Kept: a value the page does not have overwrites the old one.  *)
KeptNever(new, old) == new

Kept(new, old) == IF new # "" THEN new ELSE old

(* Mutant of Changed: a new device alone is no change.                     *)
ChangedRuntime(new) ==
  new.runtime # engine.runtime \/ new.workers # engine.workers

Changed(new) == new # engine

EngineApply ==
  /\ broadcast = "idle"
  /\ \E page \in Pages, n \in WorkerCounts :
       LET new == [runtime |-> Kept(page.runtime, engine.runtime),
                   device |-> Kept(page.device, engine.device),
                   workers |-> n]
       IN  /\ engine' = new
           /\ broadcast' = IF Changed(new) THEN "due" ELSE "idle"
  /\ applied' = TRUE
  /\ UNCHANGED <<machine, todo, camera, told, pushes, registry>>

(* broadcastEngineConfig: the copy under m_agentsMutex ...                 *)
CopyList ==
  /\ broadcast = "due"
  /\ broadcast' = "calling"
  /\ todo' = agents
  /\ left' = {}
  /\ UNCHANGED <<machine, engine, applied, camera, told, pushes, agents, life>>

(* ... and the calls after it: onEngineConfigChanged is a push.  A call of *)
(* an agent that is no more is not defined; here it does nothing.          *)
CallAgent(a) ==
  /\ broadcast = "calling" /\ a \in todo /\ pc["engine"] = "idle"
  /\ todo' = todo \ {a}
  /\ \/ life[a] \in {"live", "leaving"} /\ Begin("engine", a)
     \/ life[a] \in {"free", "attached"} /\ UNCHANGED pushes
  /\ UNCHANGED <<machine, engine, broadcast, applied, camera, told, registry>>

BroadcastDone ==
  /\ broadcast = "calling" /\ todo = {} /\ pc["engine"] = "idle"
  /\ broadcast' = "idle"
  /\ left' = {}
  /\ UNCHANGED <<machine, engine, todo, applied, camera, told, pushes, agents, life>>

-----------------------------------------------------------------------------
(* doObtainDeviceAgent: the constructor, up to sendAttach.                 *)
Obtain(a) ==
  /\ life[a] = "free"
  /\ life' = [life EXCEPT ![a] = "attached"]
  /\ UNCHANGED <<machine, broadcaster, agents, camera, told, pushes, left>>

Register(a) ==
  /\ life[a] = "attached"
  /\ life' = [life EXCEPT ![a] = "live"]
  /\ agents' = agents \cup {a}
  /\ UNCHANGED <<machine, broadcaster, camera, told, pushes, left>>

(* DeviceAgent::settingsReceived, for the first time or again: the members *)
(* are written under the mutex, and a push begins.                         *)
Configure(a) ==
  /\ life[a] = "live"
  /\ \E page \in Pages : camera' = [camera EXCEPT ![a] = page]
  /\ Begin("camera", a)
  /\ UNCHANGED <<machine, broadcaster, told, registry>>

(* Mutant of Unregister: the destructor leaves the pointer in the list.    *)
UnregisterNot(a) ==
  /\ life[a] = "live" /\ ~Pushing("camera", a)
  /\ life' = [life EXCEPT ![a] = "leaving"]
  /\ left' = IF broadcast = "calling" THEN left \cup {a} ELSE {}
  /\ UNCHANGED <<machine, broadcaster, agents, camera, told, pushes>>

(* The destructor, up to sendDetach.  The server does not destroy an agent *)
(* it is calling; the engine's thread calls without holding it.            *)
Unregister(a) ==
  /\ life[a] = "live" /\ ~Pushing("camera", a)
  /\ life' = [life EXCEPT ![a] = "leaving"]
  /\ agents' = agents \ {a}
  /\ left' = IF broadcast = "calling" THEN left \cup {a} ELSE {}
  /\ UNCHANGED <<machine, broadcaster, camera, told, pushes>>

(* ... and from there to the end: serve() returns, the memory is free.  A  *)
(* push that is still in it is not defined any more; here it ends.         *)
Detach(a) ==
  /\ life[a] = "leaving"
  /\ life' = [life EXCEPT ![a] = "free"]
  /\ told' = [told EXCEPT ![a] = None]
  /\ camera' = [camera EXCEPT ![a] = Unset]
  /\ raced' = [raced EXCEPT ![a] = FALSE]
  /\ IF Pushing("engine", a) THEN Finish("engine") ELSE UNCHANGED <<pc, whose, msg>>
  /\ UNCHANGED <<machine, broadcaster, agents, left>>

Next ==
  \/ EngineApply \/ CopyList \/ BroadcastDone
  \/ \E a \in Agents :
       CallAgent(a) \/ Obtain(a) \/ Register(a) \/ Configure(a)
       \/ Unregister(a) \/ Detach(a)
  \/ \E t \in Threads :
       Snapshot(t) \/ AskRuntime(t) \/ AskDevice(t) \/ AskWorkers(t) \/ Send(t)

Spec == Init /\ [][Next]_vars

-----------------------------------------------------------------------------
(* Properties.                                                             *)

(* The types of the engine's state and of the registry's; there is at      *)
(* least one worker, and an agent that is not live yet has told nothing.   *)
TypeOK ==
  /\ machine \in Inventory
  /\ engine \in Messages /\ engine.workers \in WorkerCounts
  /\ broadcast \in {"idle", "due", "calling"}
  /\ todo \subseteq Agents /\ agents \subseteq Agents /\ left \subseteq Agents
  /\ life \in [Agents -> Lives]
  /\ camera \in [Agents -> [runtime : RuntimeNames, device : Devices]]
  /\ told \in [Agents -> Messages \cup {None}]
  /\ \A a \in Agents : life[a] \in {"free", "attached"} => told[a] = None
  /\ pc \in [Threads -> Stages] /\ msg \in [Threads -> Messages]
  /\ whose \in [Threads -> Agents \cup {None}]
  /\ \A t \in Threads : whose[t] \in (IF pc[t] = "idle" THEN {None} ELSE Agents)
  /\ raced \in [Agents -> BOOLEAN]
  /\ applied \in BOOLEAN

(* "An engine-level setting change can fan out new config to every         *)
(* attached camera without waiting for the user to re-apply camera         *)
(* settings" (engine.h).  Between broadcasts every live agent that has     *)
(* pushed anything has pushed what its camera's page and the engine's say  *)
(* now, provided that no push of it is under way and that its last one did *)
(* not begin during another.  That covers the agents that register while   *)
(* the list is being called, the camera's push that has read the old       *)
(* default when the engine's page changes, and whatever raced before.      *)
EveryAgentFollows ==
  broadcast = "idle" =>
    \A a \in Agents :
      /\ life[a] = "live" /\ told[a] # None
      /\ ~raced[a] /\ \A t \in Threads : ~Pushing(t, a)
      => told[a] = Message(camera[a], engine)

(* The broadcast calls its copy of the list without the mutex, and nothing *)
(* in engine.cpp makes a destructor wait: the copy and the call that is    *)
(* under way can outlive those agents whose destructor runs during this    *)
(* very broadcast, and no other.                                           *)
OnlyOverlappedDestructorsAreCalled ==
  \A a \in Agents :
    a \in todo \/ Pushing("engine", a) => life[a] = "live" \/ a \in left

(* No message names a runtime or a device that the probe did not report,   *)
(* unless it reported none (or none for the first runtime): the "onnx" and *)
(* "cpu" at the end of sendConfigToWorker's fall-back chain are never      *)
(* reached as long as there is an engine.                                  *)
MessagesNameWhatIsThere ==
  \A a \in Agents : told[a] # None =>
    /\ told[a].runtime \in OfferedRuntimes(machine)
    /\ \/ told[a].device \in OfferedDevices(machine)
       \/ told[a].device = Nothing /\ DefaultDevice(machine) = Nothing

(* "Defaults are filled from the env probe's first runtime/device and stay *)
(* in sync with the manifest default shown to the user" (engine.h): they   *)
(* do if the first runtime's devices could be listed.                      *)
ShownIsUsed ==
  ~applied /\ (Reported(machine) # {} => DefaultRuntime(machine) \in WithDevices(machine)) =>
    /\ engine.runtime = ShownRuntime(machine)
    /\ engine.device = ShownDevice(machine)
=============================================================================
