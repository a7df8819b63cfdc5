------------------------- MODULE EngineAgentsProofs -------------------------
(***************************************************************************)
(* Proofs about EngineAgents for any agents, machines and bounds: that no  *)
(* agent misses a change of the engine's settings, which agents a          *)
(* broadcast may still call after their destructor ran, and that messages  *)
(* name only what the probe reported.                                      *)
(***************************************************************************)
EXTENDS EngineAgents, TLAPS

(* The registry is the live agents, and its copy is empty but during the   *)
(* calls.                                                                  *)
Registered == agents = {a \in Agents : life[a] = "live"}
Calls ==
  /\ broadcast # "calling" => todo = {} /\ pc["engine"] = "idle"
  /\ \A a \in Agents : /\ Pushing("camera", a) => life[a] = "live"
                       /\ Pushing("engine", a) => life[a] \in {"live", "leaving"}

(* What a push has in its locals at a place, if nothing changed since it   *)
(* began.                                                                  *)
SoFar(m, own, eng, at) ==
  /\ at # "snapshot" => /\ m.runtime = IF at = "runtime" THEN own.runtime
                                       ELSE OrElse(own.runtime, eng.runtime)
                        /\ m.device = IF at \in {"runtime", "device"} THEN own.device
                                      ELSE OrElse(own.device, eng.device)
  /\ at = "send" => m.workers = eng.workers

(* Before a broadcast has called an agent, the agent may be behind; after  *)
(* that, if its last push began alone, that push has read nothing old, and *)
(* what it sent in the end is not old either.                              *)
Ahead(a) == broadcast = "due" \/ a \in todo
Follows(a) ==
  life[a] = "live" /\ ~raced[a] /\ ~Ahead(a) =>
    /\ \A t \in Threads : Pushing(t, a) => SoFar(msg[t], camera[a], engine, pc[t])
    /\ (\A t \in Threads : ~Pushing(t, a)) /\ told[a] # None =>
         told[a] = Message(camera[a], engine)
NobodyForgotten == \A a \in Agents : Follows(a)

(* What is set was offered by a page or is the engine's default; a push    *)
(* may still lack a value it has not asked for.                            *)
KnownRuntime(runtime) == runtime \in OfferedRuntimes(machine)
KnownDevice(device) ==
  \/ device \in OfferedDevices(machine)
  \/ device = Nothing /\ DefaultDevice(machine) = Nothing
Known(s) == KnownRuntime(s.runtime) /\ KnownDevice(s.device)
Named(m, at) ==
  /\ KnownRuntime(m.runtime) \/ (m.runtime = "" /\ at \notin {"device", "workers", "send"})
  /\ KnownDevice(m.device) \/ (m.device = "" /\ at \notin {"workers", "send"})
NamesOK ==
  /\ Known(engine)
  /\ camera \in [Agents -> Pages]
  /\ \A a \in Agents : told[a] # None => Known(told[a])
  /\ \A t \in Threads : Named(msg[t], pc[t])

IInv ==
  TypeOK /\ Registered /\ Calls /\ NobodyForgotten /\ OnlyOverlappedDestructorsAreCalled
  /\ NamesOK

-----------------------------------------------------------------------------
(* The probe.                                                              *)
LEMMA FirstLeads ==
  ASSUME NEW S \in SUBSET Runtimes, S # {}
  PROVE  First(S) \in S /\ \A other \in S : Place[First(S)] <= Place[other]
  <1>1. /\ Runtimes = {"onnx", "openvino", "pytorch", "tensorrt"}
        /\ Place["onnx"] = 1 /\ Place["openvino"] = 2
        /\ Place["pytorch"] = 3 /\ Place["tensorrt"] = 4
    BY DEF Runtimes, Place
  <1>2. \E rt \in S : \A other \in S : Place[rt] <= Place[other]
    <2>1. CASE "onnx" \in S
      BY <1>1, <2>1
    <2>2. CASE "onnx" \notin S /\ "openvino" \in S
      BY <1>1, <2>2
    <2>3. CASE "onnx" \notin S /\ "openvino" \notin S /\ "pytorch" \in S
      BY <1>1, <2>3
    <2>4. CASE "onnx" \notin S /\ "openvino" \notin S /\ "pytorch" \notin S
      <3>1. S = {"tensorrt"}
        BY <1>1, <2>4
      <3>. QED BY <1>1, <3>1
    <2>. QED BY <2>1, <2>2, <2>3, <2>4
  <1>. QED BY <1>2 DEF First

(* The first of some runtimes is the first of any of them it is among.     *)
LEMMA FirstOfSome ==
  ASSUME NEW S \in SUBSET Runtimes, NEW T \in SUBSET S, First(S) \in T
  PROVE  First(T) = First(S)
  <1>1. /\ Runtimes = {"onnx", "openvino", "pytorch", "tensorrt"}
        /\ Place["onnx"] = 1 /\ Place["openvino"] = 2
        /\ Place["pytorch"] = 3 /\ Place["tensorrt"] = 4
    BY DEF Runtimes, Place
  <1>2. First(S) \in S /\ \A other \in S : Place[First(S)] <= Place[other]
    BY FirstLeads
  <1>3. First(T) \in T /\ \A other \in T : Place[First(T)] <= Place[other]
    BY FirstLeads
  <1>4. Place[First(T)] = Place[First(S)] /\ First(T) \in Runtimes /\ First(S) \in Runtimes
    <2>1. /\ First(T) \in Runtimes /\ First(S) \in Runtimes
          /\ Place[First(T)] <= Place[First(S)] /\ Place[First(S)] <= Place[First(T)]
      BY <1>2, <1>3
    <2>2. \A rt \in Runtimes : Place[rt] \in Nat
      BY <1>1
    <2>. QED BY <2>1, <2>2
  <1>5. \A p, q \in Runtimes : Place[p] = Place[q] => p = q
    BY <1>1
  <1>. QED BY <1>4, <1>5

(* The device list of a runtime is never empty, and holds device names.    *)
LEMMA ListedIsNamed ==
  ASSUME NEW m, NEW rt \in Runtimes
  PROVE  /\ Listed(m, rt) \in Seq(DeviceNames)
         /\ Len(Listed(m, rt)) >= 1
  <1>1. rt \in {"onnx", "openvino", "pytorch", "tensorrt"}
    BY DEF Runtimes, Place
  <1> DEFINE cuda == If(m.cuda, <<"cuda:0">>)
             gpu == If(m.gpu, <<"intel:gpu">>)
             cpu == <<"cpu">>
             one == <<"cuda:0">>
  <1>2. /\ cuda \in Seq(DeviceNames) /\ gpu \in Seq(DeviceNames)
        /\ cpu \in Seq(DeviceNames) /\ one \in Seq(DeviceNames)
    <2>1. "cpu" \in DeviceNames /\ "cuda:0" \in DeviceNames /\ "intel:gpu" \in DeviceNames
      BY DEF DeviceNames
    <2>2. /\ <<>> \in Seq(DeviceNames) /\ cpu \in Seq(DeviceNames)
          /\ one \in Seq(DeviceNames) /\ <<"intel:gpu">> \in Seq(DeviceNames)
      BY <2>1
    <2>. QED BY <2>2 DEF If
  <1>3. Len(cpu) = 1 /\ Len(one) = 1
    OBVIOUS
  <1>4. /\ rt = "onnx" => Listed(m, rt) = cuda \o gpu \o cpu
        /\ rt = "openvino" => Listed(m, rt) = cpu \o gpu
        /\ rt = "pytorch" => Listed(m, rt) = cpu \o cuda
        /\ rt = "tensorrt" => Listed(m, rt) = one
    BY DEF Listed
  <1>. HIDE DEF cuda, gpu, cpu, one
  <1>5. CASE rt = "onnx"
    <2>1. cuda \o gpu \in Seq(DeviceNames)
      BY <1>2
    <2>2. /\ (cuda \o gpu) \o cpu \in Seq(DeviceNames)
          /\ Len((cuda \o gpu) \o cpu) = Len(cuda \o gpu) + Len(cpu)
      BY <1>2, <2>1
    <2>3. Len(cuda \o gpu) \in Nat
      BY <2>1
    <2>4. Len((cuda \o gpu) \o cpu) >= 1
      BY <1>3, <2>2, <2>3
    <2>5. Listed(m, rt) = (cuda \o gpu) \o cpu
      BY <1>4, <1>5
    <2>. QED BY <2>2, <2>4, <2>5
  <1>6. CASE rt # "onnx"
    <2>1. /\ cpu \o gpu \in Seq(DeviceNames) /\ Len(cpu \o gpu) = Len(cpu) + Len(gpu)
          /\ cpu \o cuda \in Seq(DeviceNames) /\ Len(cpu \o cuda) = Len(cpu) + Len(cuda)
          /\ Len(gpu) \in Nat /\ Len(cuda) \in Nat
      BY <1>2
    <2>2. Len(cpu \o gpu) >= 1 /\ Len(cpu \o cuda) >= 1 /\ Len(one) >= 1
      BY <1>3, <2>1
    <2>3. \/ Listed(m, rt) = cpu \o gpu
          \/ Listed(m, rt) = cpu \o cuda
          \/ Listed(m, rt) = one
      BY <1>1, <1>4, <1>6
    <2>. QED BY <1>2, <2>1, <2>2, <2>3
  <1>. QED BY <1>5, <1>6

(* The defaults and what a page offers are names, and the defaults are     *)
(* among what it offers, but for a device that could not be listed.        *)
LEMMA ProbeNames ==
  ASSUME NEW m
  PROVE  /\ OfferedRuntimes(m) \subseteq RuntimeNames \ {""}
         /\ OfferedDevices(m) \subseteq Devices \ {""}
         /\ DefaultRuntime(m) \in OfferedRuntimes(m)
         /\ DefaultDevice(m) \in OfferedDevices(m) \/ DefaultDevice(m) = Nothing
         /\ DefaultDevice(m) \in Devices \ {""}
  <1>1. /\ Reported(m) \subseteq Runtimes /\ WithDevices(m) \subseteq Runtimes
    BY DEF Reported, WithDevices
  <1>2. /\ Runtimes \subseteq RuntimeNames \ {""} /\ Nothing \in RuntimeNames \ {""}
        /\ DeviceNames \subseteq Devices \ {""} /\ Nothing \in Devices \ {""}
    BY DEF Runtimes, Place, Nothing, RuntimeNames, Devices, DeviceNames
  <1>3. \A rt \in Runtimes : /\ DevicesOf(m, rt) \subseteq DeviceNames
                             /\ Listed(m, rt)[1] \in DevicesOf(m, rt)
    <2> TAKE rt \in Runtimes
    <2> DEFINE s == Listed(m, rt)
    <2>1. s \in Seq(DeviceNames) /\ Len(s) >= 1
      BY ListedIsNamed
    <2>. HIDE DEF s
    <2>2. /\ \A i \in 1..Len(s) : s[i] \in DeviceNames
          /\ 1 \in 1..Len(s)
      BY <2>1
    <2>3. DevicesOf(m, rt) = {s[i] : i \in 1..Len(s)}
      BY DEF DevicesOf, s
    <2>4. DevicesOf(m, rt) \subseteq DeviceNames /\ s[1] \in DevicesOf(m, rt)
      BY <2>2, <2>3
    <2>. QED BY <2>4 DEF s
  <1>4. OfferedRuntimes(m) \subseteq RuntimeNames \ {""}
    BY <1>1, <1>2 DEF OfferedRuntimes
  <1>5. OfferedDevices(m) \subseteq Devices \ {""}
    BY <1>1, <1>2, <1>3 DEF OfferedDevices
  <1>6. DefaultRuntime(m) \in OfferedRuntimes(m)
    BY <1>1, FirstLeads DEF OfferedRuntimes, DefaultRuntime
  <1>7. DefaultDevice(m) \in OfferedDevices(m) \/ DefaultDevice(m) = Nothing
    BY <1>1, <1>3 DEF DefaultDevice, OfferedDevices
  <1>. QED BY <1>2, <1>4, <1>5, <1>6, <1>7

(* "" is the name of nothing.                                              *)
LEMMA KnownIsNamed ==
  /\ \A runtime : KnownRuntime(runtime) => runtime \in RuntimeNames \ {""}
  /\ \A device : KnownDevice(device) => device \in Devices \ {""}
  <1>1. Nothing \in Devices /\ Nothing # ""
    BY DEF Nothing, Devices
  <1>. QED BY <1>1, ProbeNames DEF KnownRuntime, KnownDevice

(* A page's values are known or missing.                                   *)
LEMMA PageNames ==
  ASSUME NEW page \in Pages
  PROVE  /\ KnownRuntime(page.runtime) \/ page.runtime = ""
         /\ KnownDevice(page.device) \/ page.device = ""
         /\ page \in [runtime : RuntimeNames, device : Devices]
  <1>1. /\ KnownRuntime(page.runtime) \/ page.runtime = ""
        /\ KnownDevice(page.device) \/ page.device = ""
    BY DEF Pages, KnownRuntime, KnownDevice
  <1>2. page.runtime \in RuntimeNames /\ page.device \in Devices
    BY <1>1, KnownIsNamed DEF RuntimeNames, Devices
  <1>. QED BY <1>1, <1>2 DEF Pages

-----------------------------------------------------------------------------
(* The constructor takes the defaults from the probe; there is no agent    *)
(* yet.                                                                    *)
LEMMA InitIInv == Init => IInv
  <1> SUFFICES ASSUME Init PROVE IInv
    OBVIOUS
  <1>1. /\ DefaultRuntime(machine) \in OfferedRuntimes(machine)
        /\ OfferedRuntimes(machine) \subseteq RuntimeNames
        /\ DefaultDevice(machine) \in OfferedDevices(machine) \/ DefaultDevice(machine) = Nothing
        /\ DefaultDevice(machine) \in Devices
    BY ProbeNames
  <1>2. engine \in Messages /\ engine.workers \in WorkerCounts
    BY <1>1 DEF Init, Messages, DefaultWorkers, WorkerCounts
  <1>3. Unset \in Pages /\ Unset \in [runtime : RuntimeNames, device : Devices]
    BY DEF Unset, Pages, RuntimeNames, Devices
  <1>4. Blank \in Messages
    BY DEF Blank, Messages, RuntimeNames, Devices
  <1>5. TypeOK
    BY <1>2, <1>3, <1>4 DEF Init, TypeOK, Lives, Stages
  <1>6. NamesOK
    BY <1>1, <1>3 DEF Init, NamesOK, Known, KnownRuntime, KnownDevice, Named, Blank
  <1>. QED BY <1>5, <1>6 DEF Init, IInv, Registered, Calls, Pushing, NobodyForgotten, Follows,
                              OnlyOverlappedDestructorsAreCalled, Threads

(* What is known stays known: the machine is the same.                     *)
LEMMA MachineStays ==
  ASSUME [Next]_vars
  PROVE  machine' = machine
  BY DEF Next, EngineApply, CopyList, BroadcastDone, CallAgent, Obtain, Register, Configure,
         Unregister, Detach, Snapshot, AskRuntime, AskDevice, AskWorkers, Read, Send, vars

LEMMA KnownStays ==
  ASSUME machine' = machine
  PROVE  /\ Pages' = Pages
         /\ \A s : Known(s)' <=> Known(s)
         /\ \A m, at : Named(m, at)' <=> Named(m, at)
  BY DEF Pages, Known, Named, KnownRuntime, KnownDevice

(* An Apply that changes something puts everybody behind.                  *)
LEMMA EngineApplyStep == IInv /\ EngineApply => IInv'
  <1> SUFFICES ASSUME IInv, EngineApply PROVE IInv'
    OBVIOUS
  <1>. /\ TypeOK /\ Registered /\ Calls /\ NobodyForgotten
       /\ OnlyOverlappedDestructorsAreCalled /\ NamesOK
    BY DEF IInv
  <1>1. PICK page \in Pages, n \in WorkerCounts :
          /\ engine' = [runtime |-> Kept(page.runtime, engine.runtime),
                        device |-> Kept(page.device, engine.device),
                        workers |-> n]
          /\ broadcast' = IF Changed(engine') THEN "due" ELSE "idle"
    BY DEF EngineApply
  <1>2. /\ UNCHANGED <<machine, todo, camera, told, pc, whose, msg, raced, agents, life, left>>
        /\ broadcast = "idle" /\ applied' = TRUE
    BY DEF EngineApply, registry, pushes
  <1>3. Known(engine')
    BY <1>1, PageNames DEF NamesOK, Known, Kept
  <1>4. engine' \in Messages
    <2>1. KnownRuntime(engine'.runtime) /\ KnownDevice(engine'.device)
      BY <1>3 DEF Known
    <2>2. engine'.runtime \in RuntimeNames /\ engine'.device \in Devices
      BY <2>1, KnownIsNamed
    <2>3. n \in Nat
      BY DEF WorkerCounts
    <2>. QED BY <1>1, <2>2, <2>3 DEF Messages
  <1>5. TypeOK'
    BY <1>1, <1>2, <1>4 DEF TypeOK
  <1>6. NobodyForgotten'
    <2>1. broadcast' # "due" => engine' = engine
      BY <1>1 DEF Changed
    <2>. QED BY <1>2, <2>1 DEF NobodyForgotten, Follows, Ahead, Pushing
  <1>7. NamesOK'
    BY <1>2, <1>3, KnownStays DEF NamesOK
  <1>. QED BY <1>1, <1>2, <1>5, <1>6, <1>7
           DEF IInv, Registered, Calls, Pushing, OnlyOverlappedDestructorsAreCalled

(* The copy holds everybody, and is called to its end.                     *)
LEMMA BroadcastStep == IInv /\ (CopyList \/ BroadcastDone) => IInv'
  <1> SUFFICES ASSUME IInv, CopyList \/ BroadcastDone PROVE IInv'
    OBVIOUS
  <1>. /\ TypeOK /\ Registered /\ Calls /\ NobodyForgotten
       /\ OnlyOverlappedDestructorsAreCalled /\ NamesOK
    BY DEF IInv
  <1>1. UNCHANGED <<machine, engine, applied, camera, told, pc, whose, msg, raced, agents, life>>
    BY DEF CopyList, BroadcastDone, pushes
  <1>2. \/ broadcast = "due" /\ broadcast' = "calling" /\ todo' = agents /\ left' = {}
        \/ /\ broadcast = "calling" /\ todo = {} /\ pc["engine"] = "idle"
           /\ broadcast' = "idle" /\ todo' = {} /\ left' = {}
    BY DEF CopyList, BroadcastDone
  <1>3. TypeOK'
    BY <1>1, <1>2 DEF TypeOK
  <1>4. NamesOK'
    BY <1>1, KnownStays DEF NamesOK
  <1>5. NobodyForgotten'
    BY <1>1, <1>2 DEF NobodyForgotten, Follows, Ahead, Pushing, Registered
  <1>6. Calls' /\ OnlyOverlappedDestructorsAreCalled'
    BY <1>1, <1>2 DEF Calls, OnlyOverlappedDestructorsAreCalled, Pushing, Registered
  <1>. QED BY <1>1, <1>3, <1>4, <1>5, <1>6 DEF IInv, Registered

(* A push that begins has read nothing yet, and knows if it is alone.      *)
LEMMA BeginKeeps ==
  ASSUME TypeOK, NEW t \in Threads, NEW a \in Agents, Begin(t, a)
  PROVE  /\ pc' \in [Threads -> Stages]
         /\ whose' \in [Threads -> Agents \cup {None}]
         /\ \A u \in Threads : whose'[u] \in (IF pc'[u] = "idle" THEN {None} ELSE Agents)
         /\ raced' \in [Agents -> BOOLEAN]
         /\ msg' = msg /\ pc[t] = "idle" /\ pc'[t] = "snapshot"
         /\ \A u \in Threads \ {t} : pc'[u] = pc[u]
         /\ \A u \in Threads, b \in Agents :
              Pushing(u, b)' <=> (u = t /\ b = a) \/ Pushing(u, b)
         /\ \A b \in Agents \ {a} : raced'[b] = raced[b]
         /\ ~raced'[a] => \A u \in Threads : ~Pushing(u, a)
  <1>1. /\ pc[t] = "idle" /\ pc' = [pc EXCEPT ![t] = "snapshot"]
        /\ whose' = [whose EXCEPT ![t] = a] /\ msg' = msg
        /\ raced' = [raced EXCEPT ![a] = \E u \in Threads : Pushing(u, a)]
    BY DEF Begin
  <1>2. /\ pc \in [Threads -> Stages] /\ raced \in [Agents -> BOOLEAN]
        /\ whose \in [Threads -> Agents \cup {None}]
        /\ \A u \in Threads : whose[u] \in (IF pc[u] = "idle" THEN {None} ELSE Agents)
    BY DEF TypeOK
  <1>3. pc' \in [Threads -> Stages] /\ pc'[t] = "snapshot" /\ whose'[t] = a
    BY <1>1, <1>2 DEF Stages
  <1>4. \A u \in Threads \ {t} : pc'[u] = pc[u] /\ whose'[u] = whose[u]
    BY <1>1, <1>2
  <1>5. /\ whose' \in [Threads -> Agents \cup {None}]
        /\ \A u \in Threads : whose'[u] \in (IF pc'[u] = "idle" THEN {None} ELSE Agents)
    BY <1>1, <1>2, <1>3, <1>4
  <1>6. \A u \in Threads, b \in Agents :
          Pushing(u, b)' <=> (u = t /\ b = a) \/ Pushing(u, b)
    BY <1>1, <1>3, <1>4 DEF Pushing
  <1>7. /\ raced' \in [Agents -> BOOLEAN]
        /\ \A b \in Agents \ {a} : raced'[b] = raced[b]
    BY <1>1, <1>2
  <1>8. raced'[a] = \E u \in Threads : Pushing(u, a)
    BY <1>1, <1>2
  <1>. QED BY <1>1, <1>3, <1>4, <1>5, <1>6, <1>7, <1>8

(* The engine's thread begins a push; its agent is no longer behind.       *)
LEMMA CallAgentStep == \A a \in Agents : IInv /\ CallAgent(a) => IInv'
  <1> SUFFICES ASSUME NEW a \in Agents, IInv, CallAgent(a) PROVE IInv'
    OBVIOUS
  <1>. /\ TypeOK /\ Registered /\ Calls /\ NobodyForgotten
       /\ OnlyOverlappedDestructorsAreCalled /\ NamesOK
    BY DEF IInv
  <1>1. /\ UNCHANGED <<machine, engine, broadcast, applied, camera, told, agents, life, left>>
        /\ todo' = todo \ {a} /\ broadcast = "calling" /\ a \in todo
    BY DEF CallAgent, registry
  <1>2. "engine" \in Threads
    BY DEF Threads
  <1>3. CASE life[a] \in {"live", "leaving"} /\ Begin("engine", a)
    <2>1. /\ pc' \in [Threads -> Stages]
          /\ whose' \in [Threads -> Agents \cup {None}]
          /\ \A u \in Threads : whose'[u] \in (IF pc'[u] = "idle" THEN {None} ELSE Agents)
          /\ raced' \in [Agents -> BOOLEAN]
          /\ msg' = msg /\ pc["engine"] = "idle" /\ pc'["engine"] = "snapshot"
          /\ \A u \in Threads \ {"engine"} : pc'[u] = pc[u]
          /\ \A u \in Threads, b \in Agents :
               Pushing(u, b)' <=> (u = "engine" /\ b = a) \/ Pushing(u, b)
          /\ \A b \in Agents \ {a} : raced'[b] = raced[b]
          /\ ~raced'[a] => \A u \in Threads : ~Pushing(u, a)
      BY <1>2, <1>3, BeginKeeps
    <2>2. TypeOK'
      BY <1>1, <2>1 DEF TypeOK
    <2>3. ASSUME NEW b \in Agents PROVE Follows(b)'
      <3>1. CASE b = a
        BY <1>1, <1>2, <2>1, <3>1 DEF Follows, SoFar
      <3>2. CASE b # a
        <4>1. \A u \in Threads : Pushing(u, b) => pc'[u] = pc[u]
          BY <2>1 DEF Pushing
        <4>. QED BY <1>1, <1>2, <2>1, <3>2, <4>1 DEF NobodyForgotten, Follows, Ahead
      <3>. QED BY <3>1, <3>2
    <2>4. NamesOK'
      <3>1. \A u \in Threads : Named(msg'[u], pc'[u])
        BY <2>1 DEF NamesOK, Named
      <3>. QED BY <1>1, <2>1, <3>1, KnownStays DEF NamesOK
    <2>5. Calls'
      <3>1. "camera" \in Threads
        BY DEF Threads
      <3>. QED BY <1>1, <1>2, <1>3, <2>1, <3>1 DEF Calls
    <2>6. OnlyOverlappedDestructorsAreCalled'
      BY <1>1, <1>2, <2>1 DEF OnlyOverlappedDestructorsAreCalled
    <2>. QED BY <1>1, <2>2, <2>3, <2>4, <2>5, <2>6 DEF IInv, Registered, NobodyForgotten
  <1>4. CASE life[a] \in {"free", "attached"} /\ UNCHANGED pushes
    <2>1. UNCHANGED <<pc, whose, msg, raced>>
      BY <1>4 DEF pushes
    <2>2. TypeOK' /\ NamesOK'
      BY <1>1, <2>1, KnownStays DEF TypeOK, NamesOK
    <2>3. NobodyForgotten'
      BY <1>1, <1>4, <2>1 DEF NobodyForgotten, Follows, Ahead, Pushing
    <2>. QED BY <1>1, <2>1, <2>2, <2>3
             DEF IInv, Registered, Calls, Pushing, OnlyOverlappedDestructorsAreCalled
  <1>. QED BY <1>3, <1>4 DEF CallAgent

(* The settings thread writes the page and begins a push.                  *)
LEMMA ConfigureStep == \A a \in Agents : IInv /\ Configure(a) => IInv'
  <1> SUFFICES ASSUME NEW a \in Agents, IInv, Configure(a) PROVE IInv'
    OBVIOUS
  <1>. /\ TypeOK /\ Registered /\ Calls /\ NobodyForgotten
       /\ OnlyOverlappedDestructorsAreCalled /\ NamesOK
    BY DEF IInv
  <1>1. PICK page \in Pages : camera' = [camera EXCEPT ![a] = page]
    BY DEF Configure
  <1>2. /\ UNCHANGED <<machine, engine, broadcast, todo, applied, told, agents, life, left>>
        /\ life[a] = "live" /\ Begin("camera", a)
    BY DEF Configure, broadcaster, registry
  <1>3. "camera" \in Threads /\ "engine" \in Threads /\ "camera" # "engine"
    BY DEF Threads
  <1>4. /\ pc' \in [Threads -> Stages]
        /\ whose' \in [Threads -> Agents \cup {None}]
        /\ \A u \in Threads : whose'[u] \in (IF pc'[u] = "idle" THEN {None} ELSE Agents)
        /\ raced' \in [Agents -> BOOLEAN]
        /\ msg' = msg /\ pc["camera"] = "idle" /\ pc'["camera"] = "snapshot"
        /\ \A u \in Threads \ {"camera"} : pc'[u] = pc[u]
        /\ \A u \in Threads, b \in Agents :
             Pushing(u, b)' <=> (u = "camera" /\ b = a) \/ Pushing(u, b)
        /\ \A b \in Agents \ {a} : raced'[b] = raced[b]
        /\ ~raced'[a] => \A u \in Threads : ~Pushing(u, a)
    BY <1>2, <1>3, BeginKeeps
  <1>5. TypeOK'
    BY <1>1, <1>2, <1>4, PageNames DEF TypeOK
  <1>6. ASSUME NEW b \in Agents PROVE Follows(b)'
    <2>1. CASE b = a
      BY <1>2, <1>3, <1>4, <2>1 DEF Follows, SoFar
    <2>2. CASE b # a
      <3>1. /\ \A u \in Threads : Pushing(u, b) => pc'[u] = pc[u]
            /\ camera'[b] = camera[b]
        BY <1>1, <1>4, <2>2 DEF Pushing, TypeOK
      <3>. QED BY <1>2, <1>3, <1>4, <2>2, <3>1 DEF NobodyForgotten, Follows, Ahead
    <2>. QED BY <2>1, <2>2
  <1>7. NamesOK'
    <2>1. \A u \in Threads : Named(msg'[u], pc'[u])
      BY <1>4 DEF NamesOK, Named
    <2>. QED BY <1>1, <1>2, <1>4, <2>1, KnownStays DEF NamesOK
  <1>8. Calls' /\ OnlyOverlappedDestructorsAreCalled'
    BY <1>2, <1>3, <1>4 DEF Calls, OnlyOverlappedDestructorsAreCalled
  <1>. QED BY <1>2, <1>5, <1>6, <1>7, <1>8 DEF IInv, Registered, NobodyForgotten

(* A read that takes what is there now keeps a push as current as it was.  *)
LEMMA ReadKeeps ==
  ASSUME IInv, NEW t \in Threads, NEW from \in Stages \ {"idle"}, NEW to \in Stages \ {"idle"},
         NEW value \in Messages, Read(t, from, value, to), Named(value, to),
         SoFar(msg[t], camera[whose[t]], engine, from)
           => SoFar(value, camera[whose[t]], engine, to)
  PROVE  IInv'
  <1>. /\ TypeOK /\ Registered /\ Calls /\ NobodyForgotten
       /\ OnlyOverlappedDestructorsAreCalled /\ NamesOK
    BY DEF IInv
  <1>1. /\ pc[t] = from /\ msg' = [msg EXCEPT ![t] = value] /\ pc' = [pc EXCEPT ![t] = to]
        /\ UNCHANGED <<machine, engine, broadcast, todo, applied, agents, life, left, camera,
                       told, whose, raced>>
    BY DEF Read, broadcaster, registry
  <1>2. /\ pc'[t] = to /\ msg'[t] = value
        /\ \A u \in Threads \ {t} : pc'[u] = pc[u] /\ msg'[u] = msg[u]
    BY <1>1 DEF TypeOK
  <1>3. \A u \in Threads, a \in Agents : Pushing(u, a)' <=> Pushing(u, a)
    BY <1>1, <1>2 DEF Pushing
  <1>4. TypeOK'
    BY <1>1, <1>2 DEF TypeOK
  <1>5. ASSUME NEW a \in Agents PROVE Follows(a)'
    <2>1. CASE Pushing(t, a)
      <3>1. whose[t] = a
        BY <2>1 DEF Pushing
      <3>. QED BY <1>1, <1>2, <1>3, <2>1, <3>1 DEF NobodyForgotten, Follows, Ahead
    <2>2. CASE ~Pushing(t, a)
      BY <1>1, <1>2, <1>3, <2>2 DEF NobodyForgotten, Follows, Ahead
    <2>. QED BY <2>1, <2>2
  <1>6. NamesOK'
    <2>1. \A u \in Threads : Named(msg'[u], pc'[u])
      BY <1>2 DEF NamesOK
    <2>. QED BY <1>1, <2>1, KnownStays DEF NamesOK
  <1>7. Calls' /\ OnlyOverlappedDestructorsAreCalled'
    <2>1. "camera" \in Threads /\ "engine" \in Threads
      BY DEF Threads
    <2>2. pc["engine"] = "idle" => pc'["engine"] = "idle"
      BY <1>1, <1>2, <2>1
    <2>. QED BY <1>1, <1>3, <2>1, <2>2 DEF Calls, OnlyOverlappedDestructorsAreCalled
  <1>. QED BY <1>1, <1>4, <1>5, <1>6, <1>7 DEF IInv, Registered, NobodyForgotten

(* The four reads, one after the other.                                    *)
LEMMA ReadsStep ==
  \A t \in Threads :
    IInv /\ (Snapshot(t) \/ AskRuntime(t) \/ AskDevice(t) \/ AskWorkers(t)) => IInv'
  <1> SUFFICES ASSUME NEW t \in Threads, IInv,
                      Snapshot(t) \/ AskRuntime(t) \/ AskDevice(t) \/ AskWorkers(t)
               PROVE  IInv'
    OBVIOUS
  <1>. TypeOK /\ NamesOK
    BY DEF IInv
  <1>1. /\ msg[t] \in [runtime : RuntimeNames, device : Devices, workers : Nat]
        /\ engine \in [runtime : RuntimeNames, device : Devices, workers : Nat]
        /\ Named(msg[t], pc[t]) /\ Known(engine)
    BY DEF TypeOK, NamesOK, Messages
  <1>2. engine.runtime # "" /\ engine.device # ""
    BY <1>1, KnownIsNamed DEF Known
  <1>3. CASE Snapshot(t)
    <2> DEFINE own == camera[whose[t]]
               value == [Blank EXCEPT !.runtime = own.runtime, !.device = own.device]
    <2>1. pc[t] = "snapshot" /\ Read(t, "snapshot", value, "runtime")
      BY <1>3 DEF Snapshot
    <2>2. whose[t] \in Agents
      BY <2>1 DEF TypeOK
    <2>3. own \in Pages
      BY <2>2 DEF NamesOK
    <2>. HIDE DEF own
    <2>4. value.runtime = own.runtime /\ value.device = own.device /\ value \in Messages
      BY <2>3, PageNames DEF Blank, Messages
    <2>5. Named(value, "runtime")
      BY <2>3, <2>4, PageNames DEF Named
    <2>6. SoFar(value, own, engine, "runtime")
      BY <2>4 DEF SoFar
    <2>. QED BY <2>1, <2>4, <2>5, <2>6, ReadKeeps DEF own, Stages
  <1>4. CASE AskRuntime(t)
    <2> DEFINE value == [msg[t] EXCEPT !.runtime = OrElse(@, engine.runtime)]
    <2>1. pc[t] = "runtime" /\ Read(t, "runtime", value, "device")
      BY <1>4 DEF AskRuntime, Read
    <2>2. /\ value.runtime = OrElse(msg[t].runtime, engine.runtime)
          /\ value.device = msg[t].device /\ value \in Messages
      BY <1>1 DEF OrElse, Messages
    <2>3. Named(value, "device")
      <3>1. /\ KnownRuntime(msg[t].runtime) \/ msg[t].runtime = ""
            /\ KnownDevice(msg[t].device) \/ msg[t].device = ""
            /\ KnownRuntime(engine.runtime)
        BY <1>1 DEF Named, Known
      <3>2. KnownRuntime(value.runtime)
        BY <2>2, <3>1 DEF OrElse
      <3>3. KnownDevice(value.device) \/ value.device = ""
        BY <2>2, <3>1
      <3>. HIDE DEF value
      <3>. QED BY <3>2, <3>3 DEF Named
    <2>4. SoFar(msg[t], camera[whose[t]], engine, "runtime")
            => SoFar(value, camera[whose[t]], engine, "device")
      BY <2>2 DEF SoFar
    <2>. QED BY <2>1, <2>2, <2>3, <2>4, ReadKeeps DEF Stages
  <1>5. CASE AskDevice(t)
    <2> DEFINE value == [msg[t] EXCEPT !.device = OrElse(@, engine.device)]
    <2>1. pc[t] = "device" /\ Read(t, "device", value, "workers")
      BY <1>5 DEF AskDevice, Read
    <2>2. /\ value.device = OrElse(msg[t].device, engine.device)
          /\ value.runtime = msg[t].runtime /\ value \in Messages
      BY <1>1 DEF OrElse, Messages
    <2>3. Named(value, "workers")
      BY <1>1, <2>1, <2>2 DEF Named, Known, OrElse
    <2>4. SoFar(msg[t], camera[whose[t]], engine, "device")
            => SoFar(value, camera[whose[t]], engine, "workers")
      BY <2>2 DEF SoFar
    <2>. QED BY <2>1, <2>2, <2>3, <2>4, ReadKeeps DEF Stages
  <1>6. CASE AskWorkers(t)
    <2> DEFINE value == [msg[t] EXCEPT !.workers = engine.workers]
    <2>1. pc[t] = "workers" /\ Read(t, "workers", value, "send")
      BY <1>6 DEF AskWorkers, Read
    <2>2. /\ value.device = msg[t].device /\ value.runtime = msg[t].runtime
          /\ value.workers = engine.workers /\ value \in Messages
      BY <1>1 DEF Messages
    <2>3. Named(value, "send")
      BY <1>1, <2>1, <2>2 DEF Named
    <2>4. SoFar(msg[t], camera[whose[t]], engine, "workers")
            => SoFar(value, camera[whose[t]], engine, "send")
      BY <2>2 DEF SoFar
    <2>. QED BY <2>1, <2>2, <2>3, <2>4, ReadKeeps DEF Stages
  <1>. QED BY <1>3, <1>4, <1>5, <1>6

(* A push that ends leaves the others as they are.                         *)
LEMMA FinishKeeps ==
  ASSUME TypeOK, NEW t \in Threads, Finish(t)
  PROVE  /\ pc' \in [Threads -> Stages] /\ msg' \in [Threads -> Messages]
         /\ whose' \in [Threads -> Agents \cup {None}]
         /\ \A u \in Threads : whose'[u] \in (IF pc'[u] = "idle" THEN {None} ELSE Agents)
         /\ pc'[t] = "idle" /\ msg'[t] = Blank
         /\ \A u \in Threads \ {t} : pc'[u] = pc[u] /\ whose'[u] = whose[u] /\ msg'[u] = msg[u]
         /\ \A u \in Threads, b \in Agents : Pushing(u, b)' <=> u # t /\ Pushing(u, b)
  <1>1. Blank \in Messages
    BY DEF Blank, Messages, RuntimeNames, Devices
  <1>2. /\ pc' = [pc EXCEPT ![t] = "idle"] /\ whose' = [whose EXCEPT ![t] = None]
        /\ msg' = [msg EXCEPT ![t] = Blank]
    BY DEF Finish
  <1>3. /\ pc \in [Threads -> Stages] /\ msg \in [Threads -> Messages]
        /\ whose \in [Threads -> Agents \cup {None}]
        /\ \A u \in Threads : whose[u] \in (IF pc[u] = "idle" THEN {None} ELSE Agents)
    BY DEF TypeOK
  <1>4. pc' \in [Threads -> Stages] /\ msg' \in [Threads -> Messages]
    BY <1>1, <1>2, <1>3 DEF Stages
  <1>5. /\ pc'[t] = "idle" /\ msg'[t] = Blank /\ whose'[t] = None
        /\ \A u \in Threads \ {t} : pc'[u] = pc[u] /\ whose'[u] = whose[u] /\ msg'[u] = msg[u]
    BY <1>2, <1>3
  <1>6. /\ whose' \in [Threads -> Agents \cup {None}]
        /\ \A u \in Threads : whose'[u] \in (IF pc'[u] = "idle" THEN {None} ELSE Agents)
    BY <1>2, <1>3, <1>5
  <1>. QED BY <1>4, <1>5, <1>6 DEF Pushing

(* What is sent is the message of the moment, if nothing changed.          *)
LEMMA SendStep == \A t \in Threads : IInv /\ Send(t) => IInv'
  <1> SUFFICES ASSUME NEW t \in Threads, IInv, Send(t) PROVE IInv'
    OBVIOUS
  <1>. /\ TypeOK /\ Registered /\ Calls /\ NobodyForgotten
       /\ OnlyOverlappedDestructorsAreCalled /\ NamesOK
    BY DEF IInv
  <1> DEFINE a == whose[t]
             m == msg[t]
             sent == [m EXCEPT !.runtime = OrElse(@, "onnx"), !.device = OrElse(@, "cpu")]
  <1>1. /\ pc[t] = "send" /\ told' = [told EXCEPT ![a] = sent] /\ Finish(t)
        /\ UNCHANGED <<machine, engine, broadcast, todo, applied, agents, life, left, camera,
                       raced>>
    BY DEF Send, broadcaster, registry
  <1>2. /\ a \in Agents /\ Pushing(t, a)
        /\ m \in [runtime : RuntimeNames, device : Devices, workers : Nat]
        /\ Named(m, "send")
    BY <1>1 DEF TypeOK, Pushing, NamesOK, Messages
  <1>. HIDE DEF a, m
  <1>3. KnownRuntime(m.runtime) /\ KnownDevice(m.device)
    BY <1>2 DEF Named
  <1>4. m.runtime # "" /\ m.device # ""
    BY <1>3, KnownIsNamed
  <1>5. sent = m
    BY <1>2, <1>4 DEF OrElse
  <1>. HIDE DEF sent
  <1>6. told'[a] = m /\ \A b \in Agents \ {a} : told'[b] = told[b]
    BY <1>1, <1>2, <1>5 DEF TypeOK
  <1>7. /\ pc' \in [Threads -> Stages] /\ msg' \in [Threads -> Messages]
        /\ whose' \in [Threads -> Agents \cup {None}]
        /\ \A u \in Threads : whose'[u] \in (IF pc'[u] = "idle" THEN {None} ELSE Agents)
        /\ pc'[t] = "idle" /\ msg'[t] = Blank
        /\ \A u \in Threads \ {t} : pc'[u] = pc[u] /\ whose'[u] = whose[u] /\ msg'[u] = msg[u]
        /\ \A u \in Threads, b \in Agents : Pushing(u, b)' <=> u # t /\ Pushing(u, b)
    BY <1>1, FinishKeeps
  <1>8. life[a] \in {"live", "leaving"}
    BY <1>2 DEF Calls, Threads
  <1>9. TypeOK'
    <2>1. told' \in [Agents -> Messages \cup {None}]
      BY <1>1, <1>2, <1>5 DEF TypeOK, Messages
    <2>2. \A b \in Agents : life[b] \in {"free", "attached"} => told'[b] = None
      BY <1>6, <1>8 DEF TypeOK
    <2>. QED BY <1>1, <1>7, <2>1, <2>2 DEF TypeOK
  <1>10. ASSUME NEW b \in Agents PROVE Follows(b)'
    <2>1. CASE b = a
      <3>1. SoFar(m, camera[a], engine, "send") => m = Message(camera[a], engine)
        <4>1. SoFar(m, camera[a], engine, "send") =>
                /\ m.runtime = OrElse(camera[a].runtime, engine.runtime)
                /\ m.device = OrElse(camera[a].device, engine.device)
                /\ m.workers = engine.workers
          BY DEF SoFar
        <4>2. m = [runtime |-> m.runtime, device |-> m.device, workers |-> m.workers]
          BY <1>2
        <4>. QED BY <1>4, <4>1, <4>2 DEF Message, OrElse
      <3>2. life[a] = "live" /\ ~raced[a] /\ ~Ahead(a) => told'[a] = Message(camera[a], engine)
        BY <1>1, <1>2, <1>6, <3>1 DEF NobodyForgotten, Follows, m
      <3>. QED BY <1>1, <1>2, <1>7, <2>1, <3>2 DEF NobodyForgotten, Follows, Ahead
    <2>2. CASE b # a
      <3>1. ~Pushing(t, b)
        BY <2>2 DEF Pushing, a
      <3>. QED BY <1>1, <1>6, <1>7, <2>2, <3>1 DEF NobodyForgotten, Follows, Ahead
    <2>. QED BY <2>1, <2>2
  <1>11. NamesOK'
    <2>1. \A u \in Threads : Named(msg'[u], pc'[u])
      <3>1. Named(Blank, "idle")
        BY DEF Named, Blank
      <3>. QED BY <1>7, <3>1 DEF NamesOK
    <2>2. \A b \in Agents : told'[b] # None => Known(told'[b])
      BY <1>3, <1>6 DEF NamesOK, Known
    <2>. QED BY <1>1, <2>1, <2>2, KnownStays DEF NamesOK
  <1>12. Calls' /\ OnlyOverlappedDestructorsAreCalled'
    <2>1. "camera" \in Threads /\ "engine" \in Threads
      BY DEF Threads
    <2>2. pc["engine"] = "idle" => pc'["engine"] = "idle"
      BY <1>7, <2>1
    <2>. QED BY <1>1, <1>7, <2>1, <2>2 DEF Calls, OnlyOverlappedDestructorsAreCalled
  <1>. QED BY <1>1, <1>9, <1>10, <1>11, <1>12 DEF IInv, Registered, NobodyForgotten

(* Agents come, with nothing told, and go.                                 *)
LEMMA ArrivalStep == \A a \in Agents : IInv /\ (Obtain(a) \/ Register(a)) => IInv'
  <1> SUFFICES ASSUME NEW a \in Agents, IInv, Obtain(a) \/ Register(a) PROVE IInv'
    OBVIOUS
  <1>. /\ TypeOK /\ Registered /\ Calls /\ NobodyForgotten
       /\ OnlyOverlappedDestructorsAreCalled /\ NamesOK
    BY DEF IInv
  <1>1. /\ UNCHANGED <<machine, engine, broadcast, todo, applied, camera, told, pc, whose, msg,
                       raced, left>>
        /\ \/ life[a] = "free" /\ life' = [life EXCEPT ![a] = "attached"] /\ agents' = agents
           \/ /\ life[a] = "attached" /\ life' = [life EXCEPT ![a] = "live"]
              /\ agents' = agents \cup {a}
    BY DEF Obtain, Register, broadcaster, pushes
  <1>2. /\ \A t \in Threads : ~Pushing(t, a)
        /\ told[a] = None
    BY <1>1 DEF Calls, Threads, TypeOK
  <1>3. TypeOK'
    BY <1>1, <1>2 DEF TypeOK, Lives
  <1>4. NobodyForgotten'
    BY <1>1, <1>2 DEF TypeOK, NobodyForgotten, Follows, Ahead, Pushing
  <1>5. NamesOK'
    BY <1>1, KnownStays DEF NamesOK
  <1>6. Registered' /\ OnlyOverlappedDestructorsAreCalled'
    BY <1>1 DEF TypeOK, Registered, OnlyOverlappedDestructorsAreCalled, Pushing
  <1>7. Calls'
    BY <1>1, <1>2 DEF TypeOK, Calls, Pushing, Threads
  <1>. QED BY <1>3, <1>4, <1>5, <1>6, <1>7 DEF IInv

LEMMA UnregisterStep == \A a \in Agents : IInv /\ Unregister(a) => IInv'
  <1> SUFFICES ASSUME NEW a \in Agents, IInv, Unregister(a) PROVE IInv'
    OBVIOUS
  <1>. /\ TypeOK /\ Registered /\ Calls /\ NobodyForgotten
       /\ OnlyOverlappedDestructorsAreCalled /\ NamesOK
    BY DEF IInv
  <1>1. /\ UNCHANGED <<machine, engine, broadcast, todo, applied, camera, told, pc, whose, msg,
                       raced>>
        /\ life[a] = "live" /\ ~Pushing("camera", a)
        /\ life' = [life EXCEPT ![a] = "leaving"] /\ agents' = agents \ {a}
        /\ left' = IF broadcast = "calling" THEN left \cup {a} ELSE {}
    BY DEF Unregister, broadcaster, pushes
  <1>2. TypeOK' /\ NamesOK'
    BY <1>1, KnownStays DEF TypeOK, Lives, NamesOK
  <1>3. NobodyForgotten'
    BY <1>1 DEF TypeOK, NobodyForgotten, Follows, Ahead, Pushing
  <1>4. Registered' /\ Calls'
    BY <1>1 DEF TypeOK, Registered, Calls, Pushing
  <1>5. OnlyOverlappedDestructorsAreCalled'
    BY <1>1 DEF TypeOK, OnlyOverlappedDestructorsAreCalled, Calls, Pushing
  <1>. QED BY <1>2, <1>3, <1>4, <1>5 DEF IInv

LEMMA DetachStep == \A a \in Agents : IInv /\ Detach(a) => IInv'
  <1> SUFFICES ASSUME NEW a \in Agents, IInv, Detach(a) PROVE IInv'
    OBVIOUS
  <1>. /\ TypeOK /\ Registered /\ Calls /\ NobodyForgotten
       /\ OnlyOverlappedDestructorsAreCalled /\ NamesOK
    BY DEF IInv
  <1>1. /\ UNCHANGED <<machine, engine, broadcast, todo, applied, agents, left>>
        /\ life[a] = "leaving" /\ life' = [life EXCEPT ![a] = "free"]
        /\ told' = [told EXCEPT ![a] = None] /\ camera' = [camera EXCEPT ![a] = Unset]
        /\ raced' = [raced EXCEPT ![a] = FALSE]
        /\ IF Pushing("engine", a) THEN Finish("engine") ELSE UNCHANGED <<pc, whose, msg>>
    BY DEF Detach, broadcaster
  <1>2. "camera" \in Threads /\ "engine" \in Threads /\ Threads = {"camera", "engine"}
    BY DEF Threads
  <1>3. Unset \in Pages /\ Unset \in [runtime : RuntimeNames, device : Devices]
    BY DEF Unset, Pages, RuntimeNames, Devices
  <1>4. ~Pushing("camera", a)
    BY <1>1 DEF Calls
  <1>5. ASSUME Pushing("engine", a)
        PROVE  /\ pc' \in [Threads -> Stages] /\ msg' \in [Threads -> Messages]
               /\ whose' \in [Threads -> Agents \cup {None}]
               /\ \A u \in Threads : whose'[u] \in (IF pc'[u] = "idle" THEN {None} ELSE Agents)
               /\ pc'["engine"] = "idle" /\ msg'["engine"] = Blank
               /\ \A u \in Threads \ {"engine"} :
                    pc'[u] = pc[u] /\ whose'[u] = whose[u] /\ msg'[u] = msg[u]
               /\ \A u \in Threads, b \in Agents :
                    Pushing(u, b)' <=> u # "engine" /\ Pushing(u, b)
    BY <1>1, <1>2, <1>5, FinishKeeps
  <1>6. ASSUME ~Pushing("engine", a) PROVE UNCHANGED <<pc, whose, msg>>
    BY <1>1, <1>6
  <1>7. /\ pc' \in [Threads -> Stages] /\ msg' \in [Threads -> Messages]
         /\ whose' \in [Threads -> Agents \cup {None}]
         /\ \A u \in Threads : whose'[u] \in (IF pc'[u] = "idle" THEN {None} ELSE Agents)
    BY <1>5, <1>6 DEF TypeOK
  <1>8. ASSUME NEW u \in Threads, NEW b \in Agents
         PROVE  Pushing(u, b)' <=> b # a /\ Pushing(u, b)
    <2>1. CASE Pushing("engine", a)
      <3>1. Pushing("engine", b) => b = a
        BY <2>1 DEF Pushing
      <3>. QED BY <1>2, <1>4, <1>5, <2>1, <3>1
    <2>2. CASE ~Pushing("engine", a)
      <3>1. Pushing(u, b)' <=> Pushing(u, b)
        BY <1>6, <2>2 DEF Pushing
      <3>. QED BY <1>2, <1>4, <2>2, <3>1
    <2>. QED BY <2>1, <2>2
  <1>9. ASSUME NEW u \in Threads
         PROVE  \/ pc'[u] = "idle" /\ msg'[u] = Blank
                \/ pc'[u] = pc[u] /\ msg'[u] = msg[u]
    BY <1>2, <1>5, <1>6
  <1>10. TypeOK'
    BY <1>1, <1>3, <1>7 DEF TypeOK, Lives
  <1>11. ASSUME NEW b \in Agents PROVE Follows(b)'
    <2>1. CASE b = a
      BY <1>1, <2>1 DEF TypeOK, Follows
    <2>2. CASE b # a
      <3>1. \A u \in Threads : Pushing(u, b) => pc'[u] = pc[u] /\ msg'[u] = msg[u]
        BY <1>8, <1>9, <2>2 DEF Pushing
      <3>2. /\ life'[b] = life[b] /\ raced'[b] = raced[b] /\ told'[b] = told[b]
            /\ camera'[b] = camera[b]
        BY <1>1, <2>2 DEF TypeOK
      <3>. QED BY <1>1, <1>8, <2>2, <3>1, <3>2 DEF NobodyForgotten, Follows, Ahead
    <2>. QED BY <2>1, <2>2
  <1>12. NamesOK'
    <2>1. \A u \in Threads : Named(msg'[u], pc'[u])
      <3>1. Named(Blank, "idle")
        BY DEF Named, Blank
      <3>. QED BY <1>9, <3>1 DEF NamesOK
    <2>2. camera' \in [Agents -> Pages]
      BY <1>1, <1>3 DEF NamesOK
    <2>3. \A b \in Agents : told'[b] # None => Known(told'[b])
      BY <1>1 DEF TypeOK, NamesOK
    <2>. QED BY <1>1, <2>1, <2>2, <2>3, KnownStays DEF NamesOK
  <1>13. Registered' /\ OnlyOverlappedDestructorsAreCalled'
    BY <1>1, <1>2, <1>8 DEF TypeOK, Registered, OnlyOverlappedDestructorsAreCalled
  <1>14. Calls'
    <2>1. pc["engine"] = "idle" => pc'["engine"] = "idle"
      BY <1>2, <1>9
    <2>2. \A b \in Agents \ {a} : life'[b] = life[b]
      BY <1>1 DEF TypeOK
    <2>. QED BY <1>1, <1>2, <1>8, <2>1, <2>2 DEF Calls
  <1>. QED BY <1>10, <1>11, <1>12, <1>13, <1>14 DEF IInv, NobodyForgotten

(* One step for each action of the three threads.                          *)
LEMMA StepIInv == IInv /\ [Next]_vars => IInv'
  <1> SUFFICES ASSUME IInv, [Next]_vars PROVE IInv'
    OBVIOUS
  <1>1. CASE UNCHANGED vars
    <2>1. NamesOK'
      BY <1>1, KnownStays DEF vars, IInv, NamesOK
    <2>. QED BY <1>1, <2>1
             DEF vars, IInv, TypeOK, Registered, Calls, Pushing, NobodyForgotten, Follows, Ahead,
                 OnlyOverlappedDestructorsAreCalled
  <1>. QED BY <1>1, EngineApplyStep, BroadcastStep, CallAgentStep, ConfigureStep, ReadsStep,
              SendStep, ArrivalStep, UnregisterStep, DetachStep DEF Next

(* The registry and the messages are in order in every state.              *)
LEMMA SpecIInv == Spec => []IInv
  BY InitIInv, StepIInv, PTL DEF Spec

(* Types of the engine's settings and of the registry.                     *)
THEOREM EngineTypeOK == Spec => []TypeOK
  <1>1. IInv => TypeOK
    BY DEF IInv
  <1>. QED BY <1>1, SpecIInv, PTL

(* No agent misses a change of the engine's settings, whenever it          *)
(* registers and whatever its own thread is doing, unless two pushes of it *)
(* overlapped.                                                             *)
THEOREM AgentsFollow == Spec => []EveryAgentFollows
  <1>1. IInv => EveryAgentFollows
    BY DEF IInv, Calls, NobodyForgotten, Follows, Ahead, EveryAgentFollows
  <1>. QED BY <1>1, SpecIInv, PTL

(* A broadcast calls no agent but live ones and those whose destructor     *)
(* overlaps it.                                                            *)
THEOREM DeadAreCalledOnlyInOverlap == Spec => []OnlyOverlappedDestructorsAreCalled
  <1>1. IInv => OnlyOverlappedDestructorsAreCalled
    BY DEF IInv
  <1>. QED BY <1>1, SpecIInv, PTL

(* Messages name what the probe reported.                                  *)
THEOREM NamesAreThere == Spec => []MessagesNameWhatIsThere
  <1>1. IInv => MessagesNameWhatIsThere
    BY DEF IInv, NamesOK, Known, KnownRuntime, KnownDevice, MessagesNameWhatIsThere
  <1>. QED BY <1>1, SpecIInv, PTL

(* The engine starts with what its page shows, if the devices of the first *)
(* reported runtime could be listed: that runtime is then also the first   *)
(* of those with devices.                                                  *)
THEOREM DefaultsAreShown == Spec => []ShownIsUsed
  <1> DEFINE Fresh == ~applied =>
        engine.runtime = DefaultRuntime(machine) /\ engine.device = DefaultDevice(machine)
  <1>1. Init => Fresh
    BY DEF Init
  <1>2. Fresh /\ [Next]_vars => Fresh'
    <2> SUFFICES ASSUME Fresh, [Next]_vars PROVE Fresh'
      OBVIOUS
    <2>1. EngineApply \/ UNCHANGED <<applied, engine>>
      BY DEF Next, vars, broadcaster, CopyList, CallAgent, BroadcastDone, Obtain, Register,
             Configure, Unregister, Detach, Snapshot, AskRuntime, AskDevice, AskWorkers, Read,
             Send
    <2>2. EngineApply => applied'
      BY DEF EngineApply
    <2>. QED BY <2>1, <2>2, MachineStays
  <1>3. Fresh => ShownIsUsed
    <2> SUFFICES ASSUME Fresh, ~applied,
                        Reported(machine) # {} => DefaultRuntime(machine) \in WithDevices(machine)
                 PROVE  engine.device = ShownDevice(machine)
      BY DEF ShownIsUsed, ShownRuntime
    <2>1. WithDevices(machine) \subseteq Reported(machine) /\ Reported(machine) \subseteq Runtimes
      BY DEF WithDevices, Reported, Lists
    <2>2. CASE Reported(machine) = {}
      <3>1. DefaultRuntime(machine) \notin WithDevices(machine) /\ WithDevices(machine) = {}
        BY <2>1, <2>2
      <3>. QED BY <3>1 DEF DefaultDevice, ShownDevice
    <2>3. CASE Reported(machine) # {}
      <3>1. First(WithDevices(machine)) = First(Reported(machine))
        BY <2>1, <2>3, FirstOfSome DEF DefaultRuntime
      <3>. QED BY <2>3, <3>1 DEF DefaultRuntime, DefaultDevice, ShownDevice
    <2>. QED BY <2>2, <2>3
  <1>. HIDE DEF Fresh
  <1>. QED BY <1>1, <1>2, <1>3, PTL DEF Spec
=============================================================================
