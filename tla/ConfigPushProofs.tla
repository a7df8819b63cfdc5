------------------------- MODULE ConfigPushProofs --------------------------
(***************************************************************************)
(* Proofs about ConfigPush for any number of saves, engine changes and     *)
(* hang-ups: how torn a message may be when the callbacks overlap, and     *)
(* that a configured worker is a current one as soon as they do not.       *)
(***************************************************************************)
EXTENDS ConfigPush, SequenceTheorems, TLAPS

LaterDevice(c) == "device" \in c.own \/ c.dev >= c.rt
Later(c) == c.trk >= c.main /\ LaterDevice(c)

(* What a thread has read so far, compared with what there is to read.     *)
ReadOK(t) ==
  /\ pc[t] \in {"runtime", "device", "tracker", "send"} => cfg[t].main <= saved
  /\ pc[t] = "device" => cfg[t].rt <= eng
  /\ pc[t] \in {"tracker", "send"} => LaterDevice(cfg[t])
  /\ pc[t] = "send" => Later(cfg[t])

MessagesOK ==
  /\ \A i \in 1..Len(wire) : Later(wire[i])
  /\ applied # None => Later(applied)

IInv == TypeOK /\ (\A t \in Threads : ReadOK(t)) /\ MessagesOK

-----------------------------------------------------------------------------
(* Right after the constructor nothing has been read or sent.              *)
LEMMA InitIInv == Init => IInv
  <1> SUFFICES ASSUME Init PROVE IInv
    OBVIOUS
  <1>1. NoConfig \in Config
    BY DEF NoConfig, Config
  <1>2. cooling \in BOOLEAN /\ overlapped \in BOOLEAN
    BY DEF Init
  <1>3. TypeOK
    BY <1>1, <1>2, BoundsAssumption DEF Init, TypeOK
  <1>. QED BY <1>3 DEF Init, IInv, ReadOK, MessagesOK

(* A step of a callback changes what its own thread has read and nothing   *)
(* the other one is compared with.                                         *)
LEMMA ReadStep ==
  ASSUME IInv, NEW t \in Threads, NEW c \in Config, NEW where,
         where \in {"runtime", "device", "tracker", "send"},
         cfg' = [cfg EXCEPT ![t] = c], pc' = [pc EXCEPT ![t] = where],
         UNCHANGED <<saved, own, eng, overlapped, client, peer, pushed>>,
         c.main <= saved,
         where = "device" => c.rt <= eng,
         where \in {"tracker", "send"} => LaterDevice(c),
         where = "send" => Later(c)
  PROVE  IInv'
  <1>1. TypeOK'
    BY DEF IInv, TypeOK, client, peer
  <1>2. \A s \in Threads : cfg'[s] = (IF s = t THEN c ELSE cfg[s])
                           /\ pc'[s] = (IF s = t THEN where ELSE pc[s])
    BY DEF IInv, TypeOK
  <1>3. \A s \in Threads : ReadOK(s)'
    BY <1>2 DEF IInv, ReadOK, Later, LaterDevice
  <1>4. MessagesOK'
    BY DEF IInv, MessagesOK, Later, LaterDevice, peer
  <1>. QED BY <1>1, <1>3, <1>4 DEF IInv

(* Versions only grow, and a thread reads the locks in one order.          *)
LEMMA StepIInv == IInv /\ [Next]_vars => IInv'
  <1> SUFFICES ASSUME IInv, [Next]_vars PROVE IInv'
    OBVIOUS
  <1>. /\ saved \in Nat /\ eng \in Nat /\ pushed \in Nat
       /\ \A t \in Threads : cfg[t] \in Config
    BY BoundsAssumption DEF IInv, TypeOK
  <1>1. CASE Apply
    <2>1. TypeOK'
      BY <1>1, BoundsAssumption
         DEF Apply, Starts, Goto, IInv, TypeOK, client, peer, Threads
    <2>2. \A t \in Threads : ReadOK(t)'
      BY <1>1 DEF Apply, Starts, Goto, IInv, TypeOK, ReadOK, Later,
                  LaterDevice, client, peer, Threads, Config
    <2>3. MessagesOK'
      BY <1>1 DEF Apply, IInv, MessagesOK, Later, LaterDevice, peer
    <2>. QED BY <2>1, <2>2, <2>3 DEF IInv
  <1>2. CASE EngineApply
    <2>1. TypeOK'
      BY <1>2, BoundsAssumption
         DEF EngineApply, Starts, Goto, IInv, TypeOK, client, peer, Threads
    <2>2. \A t \in Threads : ReadOK(t)'
      BY <1>2 DEF EngineApply, Starts, Goto, IInv, TypeOK, ReadOK, Later,
                  LaterDevice, client, peer, Threads, Config
    <2>3. MessagesOK'
      BY <1>2 DEF EngineApply, IInv, MessagesOK, Later, LaterDevice, peer
    <2>. QED BY <2>1, <2>2, <2>3 DEF IInv
  <1>3. ASSUME NEW t \in Threads, Snapshot(t) PROVE IInv'
    <2> DEFINE c == [NoConfig EXCEPT !.main = saved, !.own = own]
    <2>1. c \in Config /\ c.main <= saved
      <3>1. own \in SUBSET Defaulted
        BY DEF IInv, TypeOK
      <3>2. c \in Config
        BY <3>1 DEF NoConfig, Config
      <3>3. c.main = saved
        BY DEF NoConfig
      <3>. QED BY <3>2, <3>3
    <2>2. cfg' = [cfg EXCEPT ![t] = c] /\ pc' = [pc EXCEPT ![t] = "runtime"]
      BY <1>3 DEF Snapshot, Goto
    <2>3. UNCHANGED <<saved, own, eng, overlapped, client, peer, pushed>>
      BY <1>3 DEF Snapshot
    <2>. HIDE DEF c
    <2>. QED BY <2>1, <2>2, <2>3, ReadStep
  <1>4. ASSUME NEW t \in Threads, EngineRuntime(t) PROVE IInv'
    <2> DEFINE c == [cfg[t] EXCEPT !.rt = IF "runtime" \in cfg[t].own THEN 0 ELSE eng]
    <2>1. c \in Config /\ c.main = cfg[t].main /\ c.rt <= eng
      BY DEF Config
    <2>2. c.main <= saved
      BY <1>4, <2>1 DEF EngineRuntime, IInv, ReadOK
    <2>3. cfg' = [cfg EXCEPT ![t] = c] /\ pc' = [pc EXCEPT ![t] = "device"]
      BY <1>4 DEF EngineRuntime, Goto, IInv, TypeOK
    <2>4. UNCHANGED <<saved, own, eng, overlapped, client, peer, pushed>>
      BY <1>4 DEF EngineRuntime
    <2>. HIDE DEF c
    <2>. QED BY <2>1, <2>2, <2>3, <2>4, ReadStep
  <1>5. ASSUME NEW t \in Threads, EngineDevice(t) PROVE IInv'
    <2> DEFINE c == [cfg[t] EXCEPT !.dev = IF "device" \in cfg[t].own THEN 0 ELSE eng]
    <2>1. /\ c \in Config /\ c.main = cfg[t].main /\ c.rt = cfg[t].rt
          /\ c.own = cfg[t].own
          /\ "device" \in c.own \/ c.dev = eng
      BY DEF Config
    <2>2. c.main <= saved /\ LaterDevice(c)
      BY <1>5, <2>1 DEF EngineDevice, IInv, ReadOK, LaterDevice, Config
    <2>3. cfg' = [cfg EXCEPT ![t] = c] /\ pc' = [pc EXCEPT ![t] = "tracker"]
      BY <1>5 DEF EngineDevice, Goto, IInv, TypeOK
    <2>4. UNCHANGED <<saved, own, eng, overlapped, client, peer, pushed>>
      BY <1>5 DEF EngineDevice
    <2>. HIDE DEF c
    <2>. QED BY <2>1, <2>2, <2>3, <2>4, ReadStep
  <1>6. ASSUME NEW t \in Threads, TrackerSettings(t) PROVE IInv'
    <2> DEFINE c == [cfg[t] EXCEPT !.trk = saved]
    <2>1. /\ c \in Config /\ c.main = cfg[t].main /\ c.trk = saved
          /\ c.own = cfg[t].own /\ c.dev = cfg[t].dev /\ c.rt = cfg[t].rt
      BY DEF Config
    <2>2. c.main <= saved /\ LaterDevice(c)
      BY <1>6, <2>1 DEF TrackerSettings, IInv, ReadOK, LaterDevice
    <2>3. Later(c)
      BY <2>1, <2>2 DEF Later, Config
    <2>4. cfg' = [cfg EXCEPT ![t] = c] /\ pc' = [pc EXCEPT ![t] = "send"]
      BY <1>6 DEF TrackerSettings, Goto, IInv, TypeOK
    <2>5. UNCHANGED <<saved, own, eng, overlapped, client, peer, pushed>>
      BY <1>6 DEF TrackerSettings
    <2>. HIDE DEF c
    <2>. QED BY <2>1, <2>2, <2>3, <2>4, <2>5, ReadStep
  <1>7. ASSUME NEW t \in Threads, Deliver(t) PROVE IInv'
    <2>1. cfg[t] \in Config /\ Later(cfg[t]) /\ cfg[t].main <= saved
      BY <1>7 DEF Deliver, IInv, ReadOK
    <2>2. \/ wire' = Append(wire, cfg[t]) /\ applied' = applied
          \/ wire' = <<cfg[t]>> /\ applied' = None
      BY <1>7 DEF Deliver
    <2>3. wire \in Seq(Config) /\ wire' \in Seq(Config)
      <3>1. wire \in Seq(Config)
        BY DEF IInv, TypeOK
      <3>2. Append(wire, cfg[t]) \in Seq(Config) /\ <<cfg[t]>> \in Seq(Config)
        BY <2>1, <3>1
      <3>. QED BY <2>2, <3>1, <3>2
    <2>4. pushed' \in 0..MaxSaved
      <3>1. cfg[t].main \in Nat /\ saved \in 0..MaxSaved /\ pushed \in 0..MaxSaved
        BY <2>1 DEF Config, IInv, TypeOK
      <3>2. cfg[t].main \in 0..MaxSaved
        BY <2>1, <3>1, BoundsAssumption
      <3>. QED BY <1>7, <3>1, <3>2 DEF Deliver
    <2>5. TypeOK'
      BY <1>7, <2>2, <2>3, <2>4 DEF Deliver, Goto, IInv, TypeOK
    <2>6. \A s \in Threads : ReadOK(s)'
      BY <1>7 DEF Deliver, Goto, IInv, TypeOK, ReadOK, Later, LaterDevice
    <2>7. \A i \in 1..Len(wire') : Later(wire'[i])
      <3>1. CASE wire' = Append(wire, cfg[t])
        BY <2>1, <2>3, <3>1 DEF IInv, MessagesOK
      <3>2. CASE wire' = <<cfg[t]>>
        BY <2>1, <3>2
      <3>. QED BY <2>2, <3>1, <3>2
    <2>8. MessagesOK'
      BY <2>2, <2>7 DEF IInv, MessagesOK, Later, LaterDevice
    <2>. QED BY <2>5, <2>6, <2>8 DEF IInv
  <1>8. ASSUME NEW t \in Threads, Lose(t) PROVE IInv'
    <2>1. TypeOK'
      BY <1>8 DEF Lose, ConnectRefused, Goto, IInv, TypeOK, client, peer
    <2>2. \A s \in Threads : ReadOK(s)'
      BY <1>8 DEF Lose, Goto, IInv, TypeOK, ReadOK, Later, LaterDevice
    <2>3. MessagesOK'
      BY <1>8 DEF Lose, IInv, MessagesOK, Later, LaterDevice, peer
    <2>. QED BY <2>1, <2>2, <2>3 DEF IInv
  <1>9. CASE FrameFails \/ FrameRefused \/ CooldownOver \/ FrameServed
             \/ UNCHANGED vars
    <2>1. UNCHANGED <<saved, own, eng, overlapped, pc, cfg, up, wire, applied, pushed, hangups>>
      BY <1>9 DEF FrameFails, FrameRefused, CooldownOver, FrameServed, vars,
                  threads, client, peer
    <2>2. link' \in {"closed", "open", "dead"} /\ cooling' \in BOOLEAN
      BY <1>9 DEF FrameFails, FrameRefused, CooldownOver, FrameServed, vars,
                  client, IInv, TypeOK
    <2>3. TypeOK'
      BY <2>1, <2>2 DEF IInv, TypeOK
    <2>. QED BY <2>1, <2>3 DEF IInv, ReadOK, MessagesOK, Later, LaterDevice
  <1>10. CASE FrameConnects \/ HangUp \/ Restart
    <2>1. UNCHANGED <<saved, own, eng, overlapped, pc, cfg, pushed>>
      BY <1>10 DEF FrameConnects, HangUp, Restart, threads, client
    <2>2. \/ wire' = <<>> /\ applied' = None
          \/ wire' = wire /\ applied' = applied
      BY <1>10 DEF FrameConnects, HangUp, Restart
    <2>3. TypeOK'
      <3>1. <<>> \in Seq(Config)
        OBVIOUS
      <3>2. hangups' \in 0..MaxHangups
        BY <1>10, BoundsAssumption
           DEF FrameConnects, HangUp, Restart, IInv, TypeOK
      <3>. QED BY <1>10, <2>1, <2>2, <3>1, <3>2
               DEF FrameConnects, HangUp, Restart, client, IInv, TypeOK
    <2>4. MessagesOK'
      BY <2>2 DEF IInv, MessagesOK, Later, LaterDevice
    <2>. QED BY <2>1, <2>3, <2>4 DEF IInv, ReadOK, Later, LaterDevice
  <1>11. CASE WorkerHandles
    <2>1. wire \in Seq(Config) /\ wire # <<>>
      BY <1>11 DEF WorkerHandles, IInv, TypeOK
    <2>2. /\ Head(wire) \in Config /\ Tail(wire) \in Seq(Config)
          /\ Head(wire) = wire[1] /\ 1 \in 1..Len(wire)
          /\ Len(Tail(wire)) = Len(wire) - 1
          /\ \A i \in 1..Len(Tail(wire)) : Tail(wire)[i] = wire[i + 1]
      BY <2>1
    <2>3. TypeOK'
      BY <1>11, <2>2 DEF WorkerHandles, threads, client, IInv, TypeOK
    <2>4. \A i \in 1..Len(wire') : Later(wire'[i])
      <3>1. \A i \in 1..Len(wire') : i + 1 \in 1..Len(wire)
        BY <1>11, <2>1, <2>2 DEF WorkerHandles
      <3>. QED BY <1>11, <2>2, <3>1 DEF WorkerHandles, IInv, MessagesOK
    <2>5. Later(applied')
      BY <1>11, <2>2 DEF WorkerHandles, IInv, MessagesOK
    <2>6. MessagesOK'
      BY <2>4, <2>5 DEF MessagesOK, Later, LaterDevice
    <2>. QED BY <1>11, <2>3, <2>6
             DEF WorkerHandles, threads, IInv, ReadOK, Later, LaterDevice
  <1>. QED BY <1>1, <1>2, <1>3, <1>4, <1>5, <1>6, <1>7, <1>8, <1>9, <1>10, <1>11
           DEF Next

(* Every thread has read what there was to read, in every state.           *)
LEMMA SpecIInv == Spec => []IInv
  BY InitIInv, StepIInv, PTL DEF Spec

(* The state of the push keeps its types; in particular nothing is sent    *)
(* that no one saved.                                                      *)
THEOREM PushTypeOK == Spec => []TypeOK
  <1>1. IInv => TypeOK
    BY DEF IInv
  <1>. QED BY <1>1, SpecIInv, PTL

(* A message can mix two states of the settings, but what is read later in *)
(* sendConfigToWorker is never older.                                      *)
THEOREM TornOneWayOnly == Spec => []LaterReadsNotOlder
  <1>1. IInv => LaterReadsNotOlder
    BY DEF IInv, MessagesOK, Later, LaterDevice, LaterReadsNotOlder, InFlight
  <1>. QED BY <1>1, SpecIInv, PTL

-----------------------------------------------------------------------------
(* A callback that began alone, and up to the next one.  The thread that   *)
(* is pushing has read what is current, as no one else can change it       *)
(* meanwhile; between pushes the last message of a configured link is the  *)
(* current one; and a link that is not open has nothing configured, so     *)
(* that a lost push does not leave an old configuration in force.          *)
SoFar(t) ==
  /\ pc[t] \in {"runtime", "device", "tracker", "send"} =>
       cfg[t].main = saved /\ cfg[t].own = own
  /\ pc[t] \in {"device", "tracker", "send"} =>
       "runtime" \in own \/ cfg[t].rt = eng
  /\ pc[t] \in {"tracker", "send"} => "device" \in own \/ cfg[t].dev = eng
  /\ pc[t] = "send" => cfg[t].trk = saved

Alone == \A s, t \in Threads : pc[s] # "idle" /\ pc[t] # "idle" => s = t
Unlinked == link # "open" => wire = <<>> /\ applied = None
Last == IF wire = <<>> THEN applied ELSE wire[Len(wire)]
IdleCurrent ==
  (\A t \in Threads : pc[t] = "idle") /\ Last # None => Current(Last)

SInv ==
  TypeOK /\ (\A t \in Threads : SoFar(t)) /\ Alone /\ Unlinked /\ IdleCurrent

(* Before the first callback nothing is configured, which is no old        *)
(* configuration.                                                          *)
LEMMA InitSInv == Init => SInv
  <1> SUFFICES ASSUME Init PROVE SInv
    OBVIOUS
  <1>1. TypeOK
    BY InitIInv DEF IInv
  <1>. QED BY <1>1 DEF Init, SInv, SoFar, Alone, Unlinked, IdleCurrent, Last

(* A step inside a push, by the only thread that is not idle.              *)
LEMMA PushKeeps ==
  ASSUME SInv, NEW t \in Threads, pc[t] # "idle", NEW c \in Config, NEW where,
         where \in {"runtime", "device", "tracker", "send"},
         cfg' = [cfg EXCEPT ![t] = c], pc' = [pc EXCEPT ![t] = where],
         UNCHANGED <<saved, own, eng, overlapped, client, peer, pushed>>,
         c.main = saved, c.own = own,
         where \in {"device", "tracker", "send"} => "runtime" \in own \/ c.rt = eng,
         where \in {"tracker", "send"} => "device" \in own \/ c.dev = eng,
         where = "send" => c.trk = saved
  PROVE  SInv'
  <1>1. TypeOK'
    BY DEF SInv, TypeOK, client, peer
  <1>2. \A s \in Threads : cfg'[s] = (IF s = t THEN c ELSE cfg[s])
                           /\ pc'[s] = (IF s = t THEN where ELSE pc[s])
    BY DEF SInv, TypeOK
  <1>3. \A s \in Threads : SoFar(s)'
    BY <1>2 DEF SInv, SoFar
  <1>4. Alone' /\ IdleCurrent'
    BY <1>2 DEF SInv, Alone, IdleCurrent
  <1>5. Unlinked'
    BY DEF SInv, Unlinked, client, peer
  <1>. QED BY <1>1, <1>3, <1>4, <1>5 DEF SInv

(* A callback that begins alone finds nobody reading, whatever was left.   *)
LEMMA StartSInv ==
  ASSUME IInv, Unlinked, Apply \/ EngineApply, ~overlapped'
  PROVE  SInv'
  <1>1. TypeOK'
    BY StepIInv DEF IInv, Next
  <1>2. \A t \in Threads : pc[t] = "idle"
    BY DEF Apply, EngineApply, Starts
  <1>3. PICK t \in Threads : pc' = [pc EXCEPT ![t] = "snapshot"]
    BY DEF Apply, EngineApply, Goto, Threads
  <1>4. \A s \in Threads : pc'[s] = IF s = t THEN "snapshot" ELSE "idle"
    BY <1>2, <1>3 DEF IInv, TypeOK
  <1>5. (\A s \in Threads : SoFar(s)') /\ Alone' /\ IdleCurrent'
    BY <1>4 DEF SoFar, Alone, IdleCurrent
  <1>6. Unlinked'
    BY DEF Apply, EngineApply, client, peer, Unlinked
  <1>. QED BY <1>1, <1>5, <1>6 DEF SInv

(* A link that is not open has nothing configured, and only a push over an *)
(* open link changes that.                                                 *)
LEMMA StepUnlinked == IInv /\ Unlinked /\ [Next]_vars => Unlinked'
  <1> SUFFICES ASSUME IInv, Unlinked, [Next]_vars PROVE Unlinked'
    OBVIOUS
  <1>1. CASE Apply \/ EngineApply \/ FrameServed \/ FrameRefused \/ CooldownOver
             \/ Restart \/ UNCHANGED vars
    BY <1>1 DEF Apply, EngineApply, FrameServed, FrameRefused, CooldownOver,
                Restart, vars, client, peer, Unlinked
  <1>2. ASSUME NEW t \in Threads,
               Snapshot(t) \/ EngineRuntime(t) \/ EngineDevice(t) \/ TrackerSettings(t)
               \/ Deliver(t) \/ Lose(t)
        PROVE  Unlinked'
    BY <1>2 DEF Snapshot, EngineRuntime, EngineDevice, TrackerSettings, Deliver,
                Lose, ConnectRefused, client, peer, Unlinked
  <1>3. CASE FrameFails \/ FrameConnects \/ HangUp \/ WorkerHandles
    BY <1>3 DEF FrameFails, FrameConnects, HangUp, WorkerHandles, client, peer,
                Unlinked
  <1>. QED BY <1>1, <1>2, <1>3 DEF Next

(* Every other step keeps it.                                              *)
LEMMA StepSInv ==
  ASSUME IInv, SInv, [Next]_vars, ~Apply, ~EngineApply
  PROVE  SInv'
  <1>. TypeOK'
    BY StepIInv DEF IInv
  <1>. \A t \in Threads : cfg[t] \in Config
    BY DEF SInv, TypeOK
  <1>2. ASSUME NEW t \in Threads, Snapshot(t) PROVE SInv'
    <2> DEFINE c == [NoConfig EXCEPT !.main = saved, !.own = own]
    <2>1. c \in Config /\ c.main = saved /\ c.own = own
      <3>1. own \in SUBSET Defaulted /\ saved \in Nat
        BY BoundsAssumption DEF SInv, TypeOK
      <3>2. c \in Config
        BY <3>1 DEF NoConfig, Config
      <3>3. c.main = saved /\ c.own = own
        BY DEF NoConfig
      <3>. QED BY <3>2, <3>3
    <2>2. cfg' = [cfg EXCEPT ![t] = c] /\ pc' = [pc EXCEPT ![t] = "runtime"]
      BY <1>2 DEF Snapshot, Goto
    <2>3. UNCHANGED <<saved, own, eng, overlapped, client, peer, pushed>> /\ pc[t] # "idle"
      BY <1>2 DEF Snapshot
    <2>. HIDE DEF c
    <2>. QED BY <2>1, <2>2, <2>3, PushKeeps
  <1>3. ASSUME NEW t \in Threads, EngineRuntime(t) PROVE SInv'
    <2> DEFINE c == [cfg[t] EXCEPT !.rt = IF "runtime" \in cfg[t].own THEN 0 ELSE eng]
    <2>1. eng \in Nat /\ cfg[t].main = saved /\ cfg[t].own = own
      BY <1>3, BoundsAssumption DEF EngineRuntime, SInv, SoFar, TypeOK
    <2>2. c \in Config /\ c.main = saved /\ c.own = own
      BY <2>1 DEF Config
    <2>3. "runtime" \in own \/ c.rt = eng
      BY <2>1 DEF Config
    <2>4. cfg' = [cfg EXCEPT ![t] = c] /\ pc' = [pc EXCEPT ![t] = "device"]
      BY <1>3 DEF EngineRuntime, Goto, SInv, TypeOK
    <2>5. UNCHANGED <<saved, own, eng, overlapped, client, peer, pushed>> /\ pc[t] # "idle"
      BY <1>3 DEF EngineRuntime
    <2>. HIDE DEF c
    <2>. QED BY <2>2, <2>3, <2>4, <2>5, PushKeeps
  <1>4. ASSUME NEW t \in Threads, EngineDevice(t) PROVE SInv'
    <2> DEFINE c == [cfg[t] EXCEPT !.dev = IF "device" \in cfg[t].own THEN 0 ELSE eng]
    <2>1. /\ eng \in Nat /\ cfg[t].main = saved /\ cfg[t].own = own
          /\ "runtime" \in own \/ cfg[t].rt = eng
      BY <1>4, BoundsAssumption DEF EngineDevice, SInv, SoFar, TypeOK
    <2>2. /\ c \in Config /\ c.main = saved /\ c.own = own
          /\ c.rt = cfg[t].rt
      BY <2>1 DEF Config
    <2>3. "device" \in own \/ c.dev = eng
      BY <2>1 DEF Config
    <2>4. cfg' = [cfg EXCEPT ![t] = c] /\ pc' = [pc EXCEPT ![t] = "tracker"]
      BY <1>4 DEF EngineDevice, Goto, SInv, TypeOK
    <2>5. UNCHANGED <<saved, own, eng, overlapped, client, peer, pushed>> /\ pc[t] # "idle"
      BY <1>4 DEF EngineDevice
    <2>. HIDE DEF c
    <2>. QED BY <2>1, <2>2, <2>3, <2>4, <2>5, PushKeeps
  <1>5. ASSUME NEW t \in Threads, TrackerSettings(t) PROVE SInv'
    <2> DEFINE c == [cfg[t] EXCEPT !.trk = saved]
    <2>1. /\ saved \in Nat /\ cfg[t].main = saved /\ cfg[t].own = own
          /\ "runtime" \in own \/ cfg[t].rt = eng
          /\ "device" \in own \/ cfg[t].dev = eng
      BY <1>5, BoundsAssumption DEF TrackerSettings, SInv, SoFar, TypeOK
    <2>2. /\ c \in Config /\ c.main = saved /\ c.own = own /\ c.trk = saved
          /\ c.rt = cfg[t].rt /\ c.dev = cfg[t].dev
      BY <2>1 DEF Config
    <2>3. cfg' = [cfg EXCEPT ![t] = c] /\ pc' = [pc EXCEPT ![t] = "send"]
      BY <1>5 DEF TrackerSettings, Goto, SInv, TypeOK
    <2>4. UNCHANGED <<saved, own, eng, overlapped, client, peer, pushed>> /\ pc[t] # "idle"
      BY <1>5 DEF TrackerSettings
    <2>. HIDE DEF c
    <2>. QED BY <2>1, <2>2, <2>3, <2>4, PushKeeps
  <1>6. ASSUME NEW t \in Threads, Deliver(t) PROVE SInv'
    <2>1. UNCHANGED <<saved, own, eng, overlapped, cfg>> /\ link' = "open"
      BY <1>6 DEF Deliver
    <2>2. \A s \in Threads : pc'[s] = IF s = t THEN "idle" ELSE pc[s]
      BY <1>6 DEF Deliver, Goto, SInv, TypeOK
    <2>3. \A s \in Threads : SoFar(s)'
      BY <2>1, <2>2 DEF SInv, SoFar
    <2>4. Alone' /\ Unlinked'
      BY <2>1, <2>2 DEF SInv, Alone, Unlinked
    <2>5. Current(cfg[t])
      BY <1>6 DEF Deliver, SInv, SoFar, Current, OwnSettings
    <2>6. Last' = cfg[t]
      <3>1. wire \in Seq(Config) /\ cfg[t] \in Config
        BY DEF SInv, TypeOK
      <3>2. \/ wire' = Append(wire, cfg[t])
            \/ wire' = <<cfg[t]>>
        BY <1>6 DEF Deliver
      <3>3. CASE wire' = Append(wire, cfg[t])
        <4>1. wire' # <<>> /\ Len(wire') = Len(wire) + 1
          BY <3>1, <3>3
        <4>2. wire'[Len(wire) + 1] = cfg[t]
          BY <3>1, <3>3
        <4>. QED BY <4>1, <4>2 DEF Last
      <3>4. CASE wire' = <<cfg[t]>>
        BY <3>4 DEF Last
      <3>. QED BY <3>2, <3>3, <3>4
    <2>7. IdleCurrent'
      BY <2>1, <2>5, <2>6 DEF IdleCurrent, Current, OwnSettings
    <2>. QED BY <2>3, <2>4, <2>7 DEF SInv
  <1>7. ASSUME NEW t \in Threads, Lose(t) PROVE SInv'
    <2>1. UNCHANGED <<saved, own, eng, overlapped, cfg, wire, applied>>
      BY <1>7 DEF Lose, peer
    <2>2. \A s \in Threads : pc'[s] = IF s = t THEN "idle" ELSE pc[s]
      BY <1>7 DEF Lose, Goto, SInv, TypeOK
    <2>3. \A s \in Threads : SoFar(s)'
      BY <2>1, <2>2 DEF SInv, SoFar
    <2>4. Alone'
      BY <2>2 DEF SInv, Alone
    <2>5. wire' = <<>> /\ applied' = None
      BY <1>7, <2>1 DEF Lose, ConnectRefused, SInv, Unlinked
    <2>. QED BY <2>3, <2>4, <2>5 DEF SInv, Unlinked, IdleCurrent, Last
  <1>8. CASE FrameFails \/ FrameRefused \/ CooldownOver \/ FrameServed
             \/ UNCHANGED vars
    <2>1. UNCHANGED <<saved, own, eng, overlapped, pc, cfg, wire, applied>>
      BY <1>8 DEF FrameFails, FrameRefused, CooldownOver, FrameServed, vars,
                  threads, peer
    <2>2. link' # "open" => link # "open"
      BY <1>8 DEF FrameFails, FrameRefused, CooldownOver, FrameServed, vars
    <2>. QED BY <2>1, <2>2 DEF SInv, SoFar, Alone, Unlinked, IdleCurrent, Last, Current, OwnSettings
  <1>9. CASE FrameConnects \/ HangUp
    <2>1. UNCHANGED <<saved, own, eng, overlapped, pc, cfg>> /\ wire' = <<>> /\ applied' = None
      BY <1>9 DEF FrameConnects, HangUp, threads
    <2>. QED BY <2>1 DEF SInv, SoFar, Alone, Unlinked, IdleCurrent, Last
  <1>10. CASE Restart
    <2>1. UNCHANGED <<saved, own, eng, overlapped, pc, cfg, link, wire, applied>>
      BY <1>10 DEF Restart, threads, client
    <2>. QED BY <2>1 DEF SInv, SoFar, Alone, Unlinked, IdleCurrent, Last, Current, OwnSettings
  <1>11. CASE WorkerHandles
    <2>1. UNCHANGED <<saved, own, eng, overlapped, pc, cfg, link>> /\ link = "open"
      BY <1>11 DEF WorkerHandles, threads, client
    <2>2. Last' = Last
      <3>1. wire \in Seq(Config) /\ wire # <<>>
        BY <1>11 DEF WorkerHandles, SInv, TypeOK
      <3>2. /\ Len(wire) \in Nat \ {0}
            /\ Head(wire) = wire[1] /\ Tail(wire) \in Seq(Config)
            /\ Len(Tail(wire)) = Len(wire) - 1
            /\ \A i \in 1..Len(Tail(wire)) : Tail(wire)[i] = wire[i + 1]
        BY <3>1
      <3>3. wire' = Tail(wire) /\ applied' = wire[1]
        BY <1>11, <3>2 DEF WorkerHandles
      <3>4. CASE Len(wire) = 1
        <4>1. wire' = <<>>
          BY <3>2, <3>3, <3>4
        <4>. QED BY <3>1, <3>3, <3>4, <4>1 DEF Last
      <3>5. CASE Len(wire) # 1
        <4>1. Len(wire') \in 1..Len(Tail(wire)) /\ Len(wire') + 1 = Len(wire)
          BY <3>2, <3>3, <3>5
        <4>2. wire' # <<>>
          <5>1. Len(wire') # 0
            BY <4>1
          <5>. QED BY <5>1
        <4>. QED BY <3>1, <3>2, <3>3, <4>1, <4>2 DEF Last
      <3>. QED BY <3>4, <3>5
    <2>. QED BY <2>1, <2>2 DEF SInv, SoFar, Alone, Unlinked, IdleCurrent, Current, OwnSettings
  <1>. QED BY <1>2, <1>3, <1>4, <1>5, <1>6, <1>7, <1>8, <1>9, <1>10, <1>11
           DEF Next

PInv == Unlinked /\ (~overlapped => SInv)

(* Of a callback that began alone, everything it has read stays current    *)
(* until its push is over; one that did not sets `overlapped`.             *)
LEMMA StepPInv == IInv /\ PInv /\ [Next]_vars => PInv'
  <1> SUFFICES ASSUME IInv, PInv, [Next]_vars, ~overlapped' PROVE SInv'
    BY StepUnlinked DEF PInv
  <1>1. CASE Apply \/ EngineApply
    BY <1>1, StartSInv DEF PInv
  <1>2. CASE ~Apply /\ ~EngineApply
    <2>1. overlapped' = overlapped
      BY <1>2 DEF Next, Snapshot, EngineRuntime, EngineDevice, TrackerSettings,
                  Deliver, Lose, FrameFails, FrameConnects, FrameServed,
                  FrameRefused, CooldownOver, WorkerHandles, HangUp, Restart, vars
    <2>. QED BY <1>2, <2>1, StepSInv DEF PInv
  <1>. QED BY <1>1, <1>2

(* A worker that is configured at all has the latest settings once the     *)
(* pushes are through, however many were lost on the way, if the last      *)
(* callback did not begin during the other thread's.                       *)
THEOREM AloneMeansCurrent == Spec => []ConfiguredMeansCurrent
  <1>1. PInv => ConfiguredMeansCurrent
    BY DEF PInv, SInv, IdleCurrent, Last, ConfiguredMeansCurrent,
           Settled
  <1>2. Init => PInv
    BY InitSInv DEF PInv, SInv
  <1>. QED BY <1>1, <1>2, StepPInv, SpecIInv, PTL DEF Spec
-----------------------------------------------------------------------------
(* What remains of a push being a snapshot when the callbacks overlap as   *)
(* they like: its own part.  Only the camera's callback changes what it    *)
(* saved, and only the engine's the defaults, so that each sends its own   *)
(* part as it is at the moment it sends; the other part may be of before.  *)
OwnPartSoFar ==
  /\ pc["settings"] \in {"runtime", "device", "tracker", "send"} =>
       cfg["settings"].main = saved /\ cfg["settings"].own = own
  /\ pc["settings"] = "send" => cfg["settings"].trk = saved
  /\ pc["engine"] \in {"device", "tracker", "send"} =>
       "runtime" \in cfg["engine"].own \/ cfg["engine"].rt = eng
  /\ pc["engine"] \in {"tracker", "send"} =>
       "device" \in cfg["engine"].own \/ cfg["engine"].dev = eng

Sent == wire'[Len(wire')]

OwnPartIsCurrent ==
  /\ Deliver("settings") => Sent.main = saved /\ Sent.trk = saved /\ Sent.own = own
  /\ Deliver("engine") =>
       /\ "runtime" \in Sent.own \/ Sent.rt = eng
       /\ "device" \in Sent.own \/ Sent.dev = eng

(* The step in which the camera's callback returns, on a link that works.  *)
SavedIsHandedOver ==
  pc["settings"] # "idle" /\ pc'["settings"] = "idle" /\ link = "open" => pushed' >= saved

(* The step of a push changes its own thread's locals and place.           *)
LEMMA OwnPartStep == IInv /\ OwnPartSoFar /\ [Next]_vars => OwnPartSoFar'
  <1> SUFFICES ASSUME IInv, OwnPartSoFar, [Next]_vars PROVE OwnPartSoFar'
    OBVIOUS
  <1>1. cfg \in [Threads -> Config]
        /\ pc \in [Threads -> {"idle", "snapshot", "runtime", "device", "tracker", "send"}]
        /\ \A t \in Threads : cfg[t] \in Config
    BY DEF IInv, TypeOK
  <1>2. CASE Apply
    BY <1>1, <1>2 DEF Apply, Starts, Goto, OwnPartSoFar, Threads
  <1>3. CASE EngineApply
    BY <1>1, <1>3 DEF EngineApply, Starts, Goto, OwnPartSoFar, Threads
  <1>4. ASSUME NEW t \in Threads, Snapshot(t) PROVE OwnPartSoFar'
    <2>1. /\ [NoConfig EXCEPT !.main = saved, !.own = own].main = saved
          /\ [NoConfig EXCEPT !.main = saved, !.own = own].own = own
      BY DEF NoConfig
    <2>. QED BY <1>1, <1>4, <2>1 DEF Snapshot, Goto, OwnPartSoFar, Threads
  <1>5. ASSUME NEW t \in Threads, EngineRuntime(t) PROVE OwnPartSoFar'
    <2>1. PICK v : /\ cfg' = [cfg EXCEPT ![t] = [cfg[t] EXCEPT !.rt = v]]
                   /\ v = IF "runtime" \in cfg[t].own THEN 0 ELSE eng
      BY <1>5 DEF EngineRuntime
    <2>2. LET c == [cfg[t] EXCEPT !.rt = v]
          IN  c.main = cfg[t].main /\ c.own = cfg[t].own /\ c.rt = v
      BY <1>1 DEF Config
    <2>. QED BY <1>1, <1>5, <2>1, <2>2 DEF EngineRuntime, Goto, OwnPartSoFar, Threads
  <1>6. ASSUME NEW t \in Threads, EngineDevice(t) PROVE OwnPartSoFar'
    <2>1. PICK v : /\ cfg' = [cfg EXCEPT ![t] = [cfg[t] EXCEPT !.dev = v]]
                   /\ v = IF "device" \in cfg[t].own THEN 0 ELSE eng
      BY <1>6 DEF EngineDevice
    <2>2. LET c == [cfg[t] EXCEPT !.dev = v]
          IN  c.main = cfg[t].main /\ c.own = cfg[t].own /\ c.rt = cfg[t].rt /\ c.dev = v
      BY <1>1 DEF Config
    <2>. QED BY <1>1, <1>6, <2>1, <2>2 DEF EngineDevice, Goto, OwnPartSoFar, Threads
  <1>7. ASSUME NEW t \in Threads, TrackerSettings(t) PROVE OwnPartSoFar'
    <2>1. cfg' = [cfg EXCEPT ![t] = [cfg[t] EXCEPT !.trk = saved]]
      BY <1>7 DEF TrackerSettings
    <2>2. LET c == [cfg[t] EXCEPT !.trk = saved]
          IN  /\ c.main = cfg[t].main /\ c.own = cfg[t].own /\ c.trk = saved
              /\ c.rt = cfg[t].rt /\ c.dev = cfg[t].dev
      BY <1>1 DEF Config
    <2>. QED BY <1>1, <1>7, <2>1, <2>2 DEF TrackerSettings, Goto, OwnPartSoFar, Threads
  <1>8. ASSUME NEW t \in Threads, Deliver(t) \/ Lose(t) PROVE OwnPartSoFar'
    BY <1>1, <1>8 DEF Deliver, Lose, Goto, OwnPartSoFar, Threads
  <1>9. CASE \/ FrameFails \/ FrameConnects \/ FrameServed \/ FrameRefused \/ CooldownOver
             \/ WorkerHandles \/ HangUp \/ Restart \/ UNCHANGED vars
    BY <1>9 DEF FrameFails, FrameConnects, FrameServed, FrameRefused, CooldownOver,
       WorkerHandles, HangUp, Restart, vars, threads, OwnPartSoFar
  <1>. QED BY <1>2, <1>3, <1>4, <1>5, <1>6, <1>7, <1>8, <1>9 DEF Next

(* What each thread has read of its own part is current, in every state.   *)
LEMMA SpecOwnPart == Spec => [](IInv /\ OwnPartSoFar)
  <1>1. Init => OwnPartSoFar
    BY DEF Init, OwnPartSoFar, Threads
  <1>. QED BY <1>1, InitIInv, StepIInv, OwnPartStep, PTL DEF Spec

(* Whatever overlaps, a message that reaches a link carries its sender's   *)
(* part as it is then: what the user just saved is never sent half, nor in *)
(* an older version, by the callback that saved it, and the engine's never *)
(* sends an older default where the camera has no value of its own.        *)
THEOREM PushesAreWholeInTheirOwnPart == Spec => [][OwnPartIsCurrent]_vars
  <1>1. IInv /\ OwnPartSoFar => [OwnPartIsCurrent]_vars
    <2>1. SUFFICES ASSUME IInv, OwnPartSoFar, NEW t \in Threads, Deliver(t)
                   PROVE  Sent = cfg[t] /\ pc[t] = "send"
      BY DEF OwnPartIsCurrent, OwnPartSoFar, Threads
    <2>2. wire \in Seq(Config) /\ cfg[t] \in Config
      BY <2>1 DEF IInv, TypeOK
    <2>3. Append(wire, cfg[t])[Len(Append(wire, cfg[t]))] = cfg[t]
      BY <2>2
    <2>4. <<cfg[t]>>[Len(<<cfg[t]>>)] = cfg[t]
      OBVIOUS
    <2>. QED BY <2>1, <2>3, <2>4 DEF Deliver, Sent
  <1>. QED BY <1>1, SpecOwnPart, PTL

(* A save whose callback returns over a working link has reached it,       *)
(* however many pushes it raced with: the safety half of SavedIsPushed.    *)
THEOREM SavesAreHandedOver == Spec => [][SavedIsHandedOver]_vars
  <1>1. IInv /\ OwnPartSoFar /\ [Next]_vars => [SavedIsHandedOver]_vars
    <2>1. SUFFICES ASSUME IInv, OwnPartSoFar, Next, link = "open",
                          pc["settings"] # "idle", pc'["settings"] = "idle"
                   PROVE  pushed' >= saved
      BY DEF SavedIsHandedOver
    <2>2. Deliver("settings")
      <3>1. pc \in [Threads -> {"idle", "snapshot", "runtime", "device", "tracker", "send"}]
        BY <2>1 DEF IInv, TypeOK
      <3>2. ASSUME NEW t \in Threads, Deliver(t) \/ Lose(t) PROVE t = "settings"
        BY <2>1, <3>1, <3>2 DEF Deliver, Lose, Goto, Threads
      <3>3. ASSUME NEW t \in Threads,
                   Snapshot(t) \/ EngineRuntime(t) \/ EngineDevice(t) \/ TrackerSettings(t)
            PROVE  FALSE
        BY <2>1, <3>1, <3>3 DEF Snapshot, EngineRuntime, EngineDevice, TrackerSettings, Goto, Threads
      <3>4. CASE Apply \/ EngineApply
        BY <2>1, <3>1, <3>4 DEF Apply, EngineApply, Starts, Goto, Threads
      <3>5. CASE \/ FrameFails \/ FrameConnects \/ FrameServed \/ FrameRefused \/ CooldownOver
                 \/ WorkerHandles \/ HangUp \/ Restart
        BY <2>1, <3>5 DEF FrameFails, FrameConnects, FrameServed, FrameRefused, CooldownOver,
           WorkerHandles, HangUp, Restart, vars, threads
      <3>6. ~Lose("settings")
        BY <2>1 DEF Lose, ConnectRefused
      <3>. QED BY <2>1, <3>2, <3>3, <3>4, <3>5, <3>6 DEF Next
    <2>3. cfg["settings"].main = saved
      BY <2>1, <2>2 DEF Deliver, OwnPartSoFar
    <2>4. pushed \in Int /\ saved \in Int
      BY <2>1, BoundsAssumption DEF IInv, TypeOK
    <2>. QED BY <2>2, <2>3, <2>4 DEF Deliver
  <1>. QED BY <1>1, SpecOwnPart, PTL DEF Spec
=============================================================================
