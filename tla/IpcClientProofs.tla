-------------------------- MODULE IpcClientProofs ---------------------------
(***************************************************************************)
(* Proofs about IpcClient when its calls do not overlap: for any number of *)
(* frames, control messages, reconnects and deaths, sockets are not        *)
(* leaked, the streams stay framed, and a frame call is a FrameRpc.        *)
(***************************************************************************)
EXTENDS IpcClient, TLAPS

Parts == {"len", "json", "body"}
Dead == {"stopped", "killed"}
Resting == {"idle", "stopped", "killed"}

-----------------------------------------------------------------------------
(* Streams.  A stream is a walk if its first chunk is the one its reader   *)
(* waits for and every other one is what serve() expects after its         *)
(* predecessor.                                                            *)
Walks(stream, from) ==
  /\ stream # <<>> => stream[1].part = from
  /\ \A i \in 1..(Len(stream) - 1) : stream[i + 1].part = AfterRead(stream[i])

Ends(stream, from) ==
  IF stream = <<>> THEN from ELSE AfterRead(stream[Len(stream)])

(* Writing the chunk that is due prolongs the walk.                        *)
LEMMA WalkAppend ==
  ASSUME NEW s \in Seq(Chunks), NEW from, NEW c \in Chunks,
         Walks(s, from), c.part = Ends(s, from)
  PROVE  /\ Append(s, c) \in Seq(Chunks)
         /\ Walks(Append(s, c), from)
         /\ Ends(Append(s, c), from) = AfterRead(c)
  <1> DEFINE t == Append(s, c)
  <1>1. t \in Seq(Chunks) /\ Len(t) = Len(s) + 1 /\ t # <<>> /\ t[Len(t)] = c
        /\ \A i \in 1..Len(s) : t[i] = s[i]
    OBVIOUS
  <1>2. Len(s) \in Nat
    OBVIOUS
  <1>. HIDE DEF t
  <1>3. t[1].part = from
    <2>1. CASE s = <<>>
      <3>1. Len(s) = 0
        BY <2>1
      <3>. QED BY <1>1, <2>1, <3>1 DEF Ends
    <2>2. CASE s # <<>>
      <3>1. 1 \in 1..Len(s)
        BY <2>2
      <3>. QED BY <1>1, <2>2, <3>1 DEF Walks
    <2>. QED BY <2>1, <2>2
  <1>4. ASSUME NEW i \in 1..(Len(t) - 1) PROVE t[i + 1].part = AfterRead(t[i])
    <2>1. CASE i = Len(s)
      <3>1. s # <<>>
        BY <1>1, <1>2, <1>4, <2>1
      <3>2. Ends(s, from) = AfterRead(s[i])
        BY <2>1, <3>1 DEF Ends
      <3>. QED BY <1>1, <1>2, <2>1, <3>2
    <2>2. CASE i # Len(s)
      <3>1. i \in 1..(Len(s) - 1) /\ i \in 1..Len(s) /\ i + 1 \in 1..Len(s)
        BY <1>1, <1>2, <2>2
      <3>. QED BY <1>1, <3>1 DEF Walks
    <2>. QED BY <2>1, <2>2
  <1>5. Walks(t, from) /\ Ends(t, from) = AfterRead(c)
    BY <1>1, <1>3, <1>4 DEF Walks, Ends
  <1>. QED BY <1>1, <1>5 DEF t

(* Reading the first chunk leaves a walk from what is read next.           *)
LEMMA WalkTail ==
  ASSUME NEW s \in Seq(Chunks), NEW from, s # <<>>, Walks(s, from)
  PROVE  /\ Tail(s) \in Seq(Chunks)
         /\ Head(s) \in Chunks /\ Head(s).part = from
         /\ Walks(Tail(s), AfterRead(Head(s)))
         /\ Ends(Tail(s), AfterRead(Head(s))) = Ends(s, from)
  <1> DEFINE t == Tail(s)
  <1>1. t \in Seq(Chunks) /\ Len(t) = Len(s) - 1 /\ Head(s) = s[1] /\ Head(s) \in Chunks
        /\ \A i \in 1..Len(t) : t[i] = s[i + 1]
    OBVIOUS
  <1>2. Len(s) \in Nat /\ Len(s) > 0
    OBVIOUS
  <1>. HIDE DEF t
  <1>3. Walks(t, AfterRead(s[1]))
    <2>1. t # <<>> => t[1].part = AfterRead(s[1])
      <3>1. SUFFICES ASSUME t # <<>> PROVE t[1].part = AfterRead(s[1])
        OBVIOUS
      <3>2. 1 \in 1..Len(t) /\ 1 \in 1..(Len(s) - 1)
        BY <1>1, <1>2, <3>1
      <3>. QED BY <1>1, <3>2 DEF Walks
    <2>2. ASSUME NEW i \in 1..(Len(t) - 1) PROVE t[i + 1].part = AfterRead(t[i])
      <3>1. i \in 1..Len(t) /\ i + 1 \in 1..Len(t) /\ i + 1 \in 1..(Len(s) - 1)
        BY <1>1, <1>2, <2>2
      <3>. QED BY <1>1, <3>1 DEF Walks
    <2>. QED BY <2>1, <2>2 DEF Walks
  <1>4. Ends(t, AfterRead(s[1])) = Ends(s, from)
    <2>1. CASE t = <<>>
      <3>1. Len(s) = 1
        BY <1>1, <1>2, <2>1
      <3>. QED BY <2>1, <3>1 DEF Ends
    <2>2. CASE t # <<>>
      <3>1. Len(t) \in 1..Len(t) /\ Len(t) + 1 = Len(s)
        BY <1>1, <1>2, <2>2
      <3>2. t[Len(t)] = s[Len(s)]
        BY <1>1, <3>1
      <3>. QED BY <2>2, <3>2 DEF Ends
    <2>. QED BY <2>1, <2>2
  <1>. QED BY <1>1, <1>3, <1>4 DEF t, Walks

(* A stream that a step leaves alone ends where it did.                    *)
LEMMA WalksMove ==
  ASSUME NEW c \in Conns, toWorker'[c] = toWorker[c], serving'[c] = serving[c]
  PROVE  /\ Walks(toWorker[c], serving[c])' <=> Walks(toWorker[c], serving[c])
         /\ Ends(toWorker[c], serving[c])' = Ends(toWorker[c], serving[c])
  BY DEF Walks, Ends, AfterRead
-----------------------------------------------------------------------------
(* The inductive invariant.                                                *)
CallSteps == {"ensure", "connect", "len", "json", "body"}
FramePcs == CallSteps \cup {"readlen", "readjson"} \cup Resting
ControlPcs == {"ensure", "connect", "len", "json", "hangup"} \cup Resting

(* One thread at a time is in a call, and the server dies as a whole.      *)
Serial ==
  /\ pc["frame"] \in FramePcs /\ pc["control"] \in ControlPcs
  /\ pc["frame"] \in Resting \/ pc["control"] \in Resting
  /\ pc["frame"] \in Dead <=> pc["control"] \in Dead

Calls ==
  /\ pc["frame"] \notin {"idle", "stopped"} =>
       sending["frame"] = Message("frame", frame) /\ frame \in 1..MaxFrames
  /\ pc["frame"] \in CallSteps => handled[frame] = 0
  /\ \A n \in 1..MaxFrames : n > frame => handled[n] = 0
  /\ pc["control"] \notin Resting => sending["control"].kind \in {"attach", "config", "detach"}

Sockets ==
  /\ fd \in {Closed, used}
  /\ NoLeakedSocket
  /\ \A t \in Threads : pc[t] = "connect" => fd = Closed
  /\ \A c \in Conns : c > used =>
       serving[c] = "none" /\ toWorker[c] = <<>> /\ toClient[c] = <<>>
  /\ fd # Closed => serving[fd] # "none"

(* The chunk that is written next, gone after a detach.                    *)
Due ==
  IF pc["frame"] \in Parts THEN pc["frame"]
  ELSE IF pc["control"] \in Parts THEN pc["control"]
  ELSE IF pc["control"] = "hangup" THEN "gone" ELSE "len"

(* A body on its way is the last chunk, of the call in progress or of one  *)
(* that gave up, and was not handled.  In the current connection the call  *)
(* is in progress and waits for the answer.                                *)
BodyOfACall(c, i) ==
  LET m == toWorker[c][i].msg IN
    /\ i = Len(toWorker[c])
    /\ m = Message("frame", m.id) /\ m.id \in 1..frame /\ handled[m.id] = 0
    /\ m.id = frame => pc["frame"] \notin CallSteps
    /\ c = fd => pc["frame"] = "readlen" /\ toClient[c] = <<>> /\ m = sending["frame"]

FromClient(c) ==
  serving[c] \in Parts =>
    /\ Walks(toWorker[c], serving[c])
    /\ c = fd => Ends(toWorker[c], serving[c]) = Due
    /\ \A i \in 1..Len(toWorker[c]) : toWorker[c][i].part = "body" => BodyOfACall(c, i)

(* No frame is on its way in two connections.                              *)
OneBodyEach ==
  \A c, d \in Conns :
    c # d /\ serving[c] \in Parts /\ serving[d] \in Parts =>
      \A i \in 1..Len(toWorker[c]), j \in 1..Len(toWorker[d]) :
        toWorker[c][i].part = "body" /\ toWorker[d][j].part = "body" =>
          toWorker[c][i].msg # toWorker[d][j].msg

Streams == (\A c \in Conns : FromClient(c)) /\ OneBodyEach

ToClient ==
  fd # Closed =>
    /\ pc["frame"] = "readlen" =>
         \/ toClient[fd] = <<>>
         \/ toClient[fd] = Reply(sending["frame"]) /\ handled[frame] = 1
    /\ pc["frame"] = "readjson" =>
         toClient[fd] = <<Chunk("json", sending["frame"])>> /\ handled[frame] = 1
    /\ pc["frame"] \notin {"readlen", "readjson"} => toClient[fd] = <<>>

Inv ==
  /\ TypeOK /\ Serial /\ Calls /\ Sockets
  /\ Streams /\ ToClient
-----------------------------------------------------------------------------
(* Steps that leave the streams to the worker alone.                       *)
LEMMA Quiet ==
  ASSUME Inv, UNCHANGED <<toWorker, serving, handled>>, fd' = fd \/ fd' = Closed,
         fd' # Closed => Due' = Due,
         fd' # Closed /\ pc["frame"] = "readlen" /\ toClient[fd] = <<>> =>
           pc'["frame"] = "readlen" /\ toClient'[fd] = <<>> /\ sending'["frame"] = sending["frame"],
         \/ frame' = frame /\ (pc'["frame"] \in CallSteps => pc["frame"] \in CallSteps)
         \/ frame' = frame + 1
  PROVE  Streams'
  <1>. Streams /\ frame \in Nat
    BY BoundsAssumption DEF Inv, TypeOK
  <1>1. ASSUME NEW c \in Conns PROVE FromClient(c)'
    <2>1. c = fd' => c = fd /\ fd' # Closed
      BY DEF Conns, Closed
    <2>2. ASSUME NEW i, BodyOfACall(c, i) PROVE BodyOfACall(c, i)'
      <3>1. /\ i = Len(toWorker'[c])
            /\ toWorker'[c][i].msg = Message("frame", toWorker'[c][i].msg.id)
            /\ toWorker'[c][i].msg.id \in 1..frame' /\ handled'[toWorker'[c][i].msg.id] = 0
        BY <2>2 DEF BodyOfACall
      <3>2. toWorker'[c][i].msg.id = frame' => pc'["frame"] \notin CallSteps
        BY <2>2 DEF BodyOfACall
      <3>3. c = fd' => /\ pc'["frame"] = "readlen" /\ toClient'[c] = <<>>
                       /\ toWorker'[c][i].msg = sending'["frame"]
        BY <2>1, <2>2 DEF BodyOfACall
      <3>. QED BY <3>1, <3>2, <3>3 DEF BodyOfACall, Message
    <2>3. FromClient(c)
      BY DEF Streams
    <2>. QED BY <2>1, <2>2, <2>3 DEF FromClient, Walks, Ends, AfterRead
  <1>2. OneBodyEach'
    BY DEF Streams, OneBodyEach
  <1>. QED BY <1>1, <1>2 DEF Streams

(* A frame call begins while the other thread rests.                       *)
LEMMA CallFrameStep ==
  ASSUME ~Overlap, Inv, CallFrame
  PROVE  Inv'
  <1>1. pc["frame"] = "idle" /\ pc["control"] = "idle"
    BY DEF CallFrame, MayCall, Threads
  <1>2. pc'["frame"] = "ensure" /\ pc'["control"] = "idle"
    BY <1>1 DEF CallFrame, Goto, Inv, TypeOK, Threads
  <1>3. frame \in Nat /\ frame' = frame + 1 /\ sending'["frame"] = Message("frame", frame')
        /\ frame + 1 \in 1..MaxFrames /\ handled' = handled
    BY BoundsAssumption DEF CallFrame, Inv, TypeOK, Threads
  <1>4. TypeOK'
    <2>1. Message("frame", frame') \in Messages
      BY <1>3 DEF Message, Messages
    <2>. QED BY <1>3, <2>1 DEF CallFrame, Goto, Inv, TypeOK, sockVars, pipeVars, Threads
  <1>5. Serial' /\ Calls'
    BY <1>1, <1>2, <1>3 DEF Serial, Calls, Inv, TypeOK, CallFrame, FramePcs, ControlPcs, CallSteps,
       Resting, Dead
  <1>6. Sockets'
    BY <1>1, <1>2 DEF Sockets, NoLeakedSocket, Inv, CallFrame, sockVars, pipeVars, Threads
  <1>7. Streams'
    <2>1. Due' = Due
      BY <1>1, <1>2 DEF Due, Parts
    <2>. QED BY <1>1, <1>3, <2>1, Quiet DEF CallFrame, sockVars, pipeVars
  <1>8. ToClient'
    BY <1>1, <1>2 DEF ToClient, Inv, CallFrame, sockVars, pipeVars
  <1>. QED BY <1>4, <1>5, <1>6, <1>7, <1>8 DEF Inv

(* So does a control call.                                                 *)
LEMMA CallControlStep ==
  ASSUME ~Overlap, Inv, NEW k \in {"attach", "config", "detach"}, CallControl(k)
  PROVE  Inv'
  <1>1. pc["frame"] = "idle" /\ pc["control"] = "idle"
    BY DEF CallControl, MayCall, Threads
  <1>2. /\ pc'["frame"] = "idle" /\ pc'["control"] \in {"ensure", "hangup", "len"}
        /\ fd # Closed => pc'["control"] \in {"ensure", "len"}
        /\ sending'["frame"] = sending["frame"] /\ sending'["control"].kind = k
    BY <1>1 DEF CallControl, Goto, Inv, TypeOK, Threads, Message
  <1>3. TypeOK'
    <2>1. controls' \in 0..MaxControls /\ controls' \in Nat
      BY BoundsAssumption DEF CallControl, Inv, TypeOK
    <2>2. Message(k, controls') \in Messages
      BY <2>1 DEF Message, Messages
    <2>. QED BY <2>1, <2>2 DEF CallControl, Goto, Inv, TypeOK, sockVars, pipeVars, Threads
  <1>4. Serial' /\ Calls'
    BY <1>1, <1>2 DEF Serial, Calls, Inv, CallControl, FramePcs, ControlPcs, CallSteps,
       Resting, Dead
  <1>5. Sockets'
    BY <1>1, <1>2 DEF Sockets, NoLeakedSocket, Inv, CallControl, sockVars, pipeVars, Threads
  <1>6. Streams'
    <2>1. fd' = fd /\ (fd' # Closed => Due' = Due)
      BY <1>1, <1>2 DEF Due, Parts, CallControl, sockVars
    <2>. QED BY <1>1, <1>2, <2>1, Quiet DEF CallControl, pipeVars, CallSteps
  <1>7. ToClient'
    BY <1>1, <1>2 DEF ToClient, Inv, CallControl, sockVars, pipeVars
  <1>. QED BY <1>3, <1>4, <1>5, <1>6, <1>7 DEF Inv

(* ensureConnected keeps the socket, gives up in the cooldown, or goes on  *)
(* to connect.                                                             *)
LEMMA EnsureConnectedStep ==
  ASSUME ~Overlap, Inv, NEW t \in Threads, EnsureConnected(t)
  PROVE  Inv'
  <1>1. /\ pc[t] = "ensure" /\ pc' = [pc EXCEPT ![t] = pc'[t]]
        /\ pc'[t] \in {"len", "idle", "connect"}
        /\ fd # Closed => pc'[t] = "len"
    BY DEF EnsureConnected, Goto, Inv, TypeOK
  <1>2. \A s \in Threads \ {t} : pc[s] = "idle" /\ pc'[s] = "idle"
    BY <1>1 DEF Inv, Serial, TypeOK, Threads, Resting, Dead
  <1>3. TypeOK'
    BY <1>1 DEF EnsureConnected, Inv, TypeOK, sockVars, pipeVars
  <1>4. Serial' /\ Calls'
    BY <1>1, <1>2 DEF EnsureConnected, Threads, Serial, Calls, Inv, FramePcs, ControlPcs, CallSteps,
       Resting, Dead
  <1>5. Sockets'
    BY <1>1, <1>2 DEF EnsureConnected, Sockets, NoLeakedSocket, Inv, sockVars, pipeVars
  <1>6. Streams'
    <2>1. fd' = fd /\ (fd' # Closed => Due' = Due)
      BY <1>1, <1>2 DEF EnsureConnected, Due, Parts, sockVars, Threads
    <2>2. pc["frame"] # "readlen" /\ (pc'["frame"] \in CallSteps => pc["frame"] \in CallSteps)
      BY <1>1, <1>2 DEF Threads, CallSteps
    <2>. QED BY <2>1, <2>2, Quiet DEF EnsureConnected, pipeVars
  <1>7. ToClient'
    BY <1>1, <1>2 DEF EnsureConnected, ToClient, Inv, sockVars, pipeVars, Threads
  <1>. QED BY <1>3, <1>4, <1>5, <1>6, <1>7 DEF Inv

(* A new connection: nothing is on its way and serve() waits for a length. *)
LEMMA ConnectStep ==
  ASSUME ~Overlap, Inv, NEW t \in Threads, Connect(t)
  PROVE  Inv'
  <1>1. pc[t] = "connect" /\ pc' = [pc EXCEPT ![t] = "len"] /\ pc'[t] = "len" /\ fd = Closed
    BY DEF Connect, Goto, Inv, TypeOK, Sockets
  <1>2. \A s \in Threads \ {t} : pc[s] = "idle" /\ pc'[s] = "idle"
    BY <1>1 DEF Inv, Serial, TypeOK, Threads, Resting, Dead
  <1>3. used \in Nat /\ used' = used + 1 /\ used' \in Conns /\ used' # Closed /\ fd' = used'
        /\ open = {} /\ open' = {fd'}
    BY <1>1, BoundsAssumption DEF Connect, Inv, TypeOK, Sockets, NoLeakedSocket, Conns, Closed
  <1>4. toWorker[used'] = <<>> /\ toClient[used'] = <<>> /\ serving[used'] = "none"
    BY <1>3 DEF Inv, Sockets
  <1>5. TypeOK'
    BY <1>1, <1>3 DEF Connect, Inv, TypeOK, Conns
  <1>6. Serial' /\ Calls'
    BY <1>1, <1>2 DEF Connect, Threads, Serial, Calls, Inv, FramePcs, ControlPcs, CallSteps,
       Resting, Dead
  <1>7. Sockets'
    BY <1>1, <1>2, <1>3, <1>4 DEF Connect, Sockets, NoLeakedSocket, Inv, TypeOK, Conns
  <1>8. ASSUME NEW c \in Conns PROVE FromClient(c)'
    <2>1. FromClient(c)
      BY DEF Inv, Streams
    <2>2. pc'["frame"] \in CallSteps => pc["frame"] \in CallSteps
      BY <1>1, <1>2 DEF Threads, CallSteps
    <2>3. CASE c # used'
      <3>1. serving'[c] = serving[c] /\ toWorker'[c] = toWorker[c]
        BY <2>3 DEF Connect, Inv, TypeOK
      <3>2. \A i : BodyOfACall(c, i) => BodyOfACall(c, i)'
        BY <1>3, <2>2, <2>3, <3>1 DEF BodyOfACall, Connect, Message
      <3>. QED BY <1>3, <2>1, <2>3, <3>1, <3>2 DEF FromClient, Walks, AfterRead
    <2>4. CASE c = used'
      <3>1. serving'[c] = "len" /\ toWorker'[c] = <<>> /\ Due' = "len"
        BY <1>1, <1>2, <1>4, <2>4 DEF Connect, Inv, TypeOK, Due, Parts, Threads
      <3>. QED BY <1>3, <2>4, <3>1 DEF FromClient, Walks, Ends
    <2>. QED BY <2>3, <2>4
  <1>9. OneBodyEach'
    <2>1. toWorker' = toWorker /\ \A c \in Conns \ {used'} : serving'[c] = serving[c]
      BY DEF Connect, Inv, TypeOK
    <2>. QED BY <1>4, <2>1 DEF Inv, Streams, OneBodyEach
  <1>10. ToClient'
    BY <1>1, <1>2, <1>3, <1>4 DEF Connect, ToClient, Inv, Threads
  <1>. QED BY <1>5, <1>6, <1>7, <1>8, <1>10, <1>9 DEF Inv, Streams

(* No connection: the cooldown starts and the call is over.                *)
LEMMA ConnectFailsStep ==
  ASSUME ~Overlap, Inv, NEW t \in Threads, ConnectFails(t)
  PROVE  Inv'
  <1>1. pc[t] = "connect" /\ pc' = [pc EXCEPT ![t] = "idle"] /\ pc'[t] = "idle" /\ fd = Closed
    BY DEF ConnectFails, Goto, Inv, TypeOK, Sockets
  <1>2. \A s \in Threads \ {t} : pc[s] = "idle" /\ pc'[s] = "idle"
    BY <1>1 DEF Inv, Serial, TypeOK, Threads, Resting, Dead
  <1>3. TypeOK'
    BY <1>1 DEF ConnectFails, Inv, TypeOK, pipeVars
  <1>4. Serial' /\ Calls'
    BY <1>1, <1>2 DEF ConnectFails, Threads, Serial, Calls, Inv, FramePcs, ControlPcs, CallSteps,
       Resting, Dead
  <1>5. Sockets'
    BY <1>1, <1>2 DEF ConnectFails, Sockets, NoLeakedSocket, Inv, pipeVars
  <1>6. Streams'
    <2>1. pc'["frame"] \in CallSteps => pc["frame"] \in CallSteps
      BY <1>1, <1>2 DEF Threads, CallSteps
    <2>. QED BY <1>1, <2>1, Quiet DEF ConnectFails, pipeVars
  <1>7. ToClient'
    BY <1>1 DEF ConnectFails, ToClient
  <1>. QED BY <1>3, <1>4, <1>5, <1>6, <1>7 DEF Inv

(* The third reason of a read to fail, a chunk of the wrong kind, cannot   *)
(* occur.                                                                  *)
LEMMA RepliesAreAligned ==
  ASSUME Inv, pc["frame"] \in {"readlen", "readjson"}, fd # Closed, toClient[fd] # <<>>
  PROVE  Head(toClient[fd]).part = ReadPart
  BY DEF Inv, ToClient, ReadPart, Reply, Chunk

(* A write or a read fails: the socket is closed with what was not read.   *)
LEMMA FailureStep ==
  ASSUME ~Overlap, Inv, NEW t \in Threads,
         WriteFails(t) \/ IoError(t) \/ (t = "frame" /\ ReadFails)
  PROVE  Inv'
  <1>1. /\ pc[t] \in Parts \cup {"readlen", "readjson"}
        /\ t = "frame" => sending[t] = Message("frame", frame)
        /\ t = "control" => pc[t] \notin {"readlen", "readjson"}
    <2>1. pc[t] \in Parts \cup {"readlen", "readjson"}
      BY DEF WriteFails, IoError, ReadFails, Parts
    <2>. QED BY <2>1 DEF Inv, Serial, Calls, ControlPcs, Resting, Parts
  <1>2. /\ t = "frame" => Unfinished(t) = "idle"
        /\ Unfinished(t) \in {"idle", "hangup"}
    BY <1>1 DEF Unfinished, Message
  <1>3. /\ pc' = [pc EXCEPT ![t] = Unfinished(t)] /\ pc'[t] = Unfinished(t)
        /\ UNCHANGED <<sending, used, cooling, pipeVars, frame, handled, answered, controls>>
    BY <1>2 DEF WriteFails, IoError, ReadFails, Goto, Inv, TypeOK
  <1>4. \A s \in Threads \ {t} : pc[s] = "idle" /\ pc'[s] = "idle"
    BY <1>1, <1>3 DEF Inv, Serial, TypeOK, Threads, Resting, Dead, Parts
  <1>5. fd' = Closed /\ open' = {}
    BY DEF WriteFails, IoError, ReadFails, Disconnect, Inv, Sockets, NoLeakedSocket
  <1>6. TypeOK'
    BY <1>2, <1>3, <1>5 DEF Inv, TypeOK, pipeVars
  <1>7. Serial' /\ Calls'
    BY <1>1, <1>2, <1>3, <1>4 DEF Threads, Serial, Calls, Inv, FramePcs, ControlPcs, CallSteps,
       Resting, Dead, Parts
  <1>8. Sockets'
    BY <1>2, <1>3, <1>4, <1>5 DEF Sockets, NoLeakedSocket, Inv, pipeVars
  <1>9. Streams'
    <2>1. pc'["frame"] \notin CallSteps
      BY <1>2, <1>3, <1>4 DEF Threads, CallSteps
    <2>. QED BY <1>3, <1>5, <2>1, Quiet DEF pipeVars
  <1>10. ToClient'
    BY <1>5 DEF ToClient
  <1>. QED BY <1>6, <1>7, <1>8, <1>9, <1>10 DEF Inv

(* The socket is closed after a detach.                                    *)
LEMMA HangUpStep ==
  ASSUME ~Overlap, Inv, HangUp
  PROVE  Inv'
  <1>1. /\ pc["control"] = "hangup" /\ pc' = [pc EXCEPT !["control"] = "idle"]
        /\ pc'["control"] = "idle" /\ pc["frame"] = "idle" /\ pc'["frame"] = "idle"
    BY DEF HangUp, Goto, Inv, TypeOK, Serial, Threads, Resting, Dead
  <1>2. fd' = Closed /\ open' = {}
    BY DEF HangUp, Disconnect, Inv, Sockets, NoLeakedSocket
  <1>3. TypeOK'
    BY <1>1, <1>2 DEF HangUp, Inv, TypeOK, pipeVars
  <1>4. Serial' /\ Calls'
    BY <1>1 DEF HangUp, Serial, Calls, Inv, FramePcs, ControlPcs, CallSteps,
       Resting, Dead
  <1>5. Sockets'
    BY <1>1, <1>2 DEF HangUp, Sockets, NoLeakedSocket, Inv, pipeVars, Threads
  <1>6. Streams'
    BY <1>1, <1>2, Quiet DEF HangUp, pipeVars, CallSteps
  <1>7. ToClient'
    BY <1>2 DEF ToClient
  <1>. QED BY <1>3, <1>4, <1>5, <1>6, <1>7 DEF Inv

(* The client ends in the middle of whatever it was doing.                 *)
LEMMA ServerDiesStep ==
  ASSUME ~Overlap, Inv, ServerDies
  PROVE  Inv'
  <1>1. /\ pc' = [s \in Threads |-> IF pc[s] = "idle" THEN "stopped" ELSE "killed"]
        /\ pc'["frame"] = (IF pc["frame"] = "idle" THEN "stopped" ELSE "killed")
        /\ pc'["control"] = (IF pc["control"] = "idle" THEN "stopped" ELSE "killed")
        /\ pc["frame"] \notin Dead
    BY DEF ServerDies, Alive, Threads, Dead
  <1>2. fd' = Closed /\ open' = {}
    BY DEF ServerDies
  <1>3. TypeOK'
    BY <1>1, <1>2 DEF ServerDies, Inv, TypeOK, pipeVars
  <1>4. Serial' /\ Calls'
    BY <1>1 DEF ServerDies, Serial, Calls, Inv, FramePcs, ControlPcs, CallSteps,
       Resting, Dead
  <1>5. Sockets'
    BY <1>1, <1>2 DEF ServerDies, Sockets, NoLeakedSocket, Inv, pipeVars
  <1>6. Streams'
    BY <1>1, <1>2, Quiet DEF ServerDies, pipeVars, CallSteps
  <1>7. ToClient'
    BY <1>2 DEF ToClient
  <1>. QED BY <1>3, <1>4, <1>5, <1>6, <1>7 DEF Inv
-----------------------------------------------------------------------------
(* Steps that write or read a stream.                                      *)
LEMMA WriteStep ==
  ASSUME ~Overlap, Inv, NEW t \in Threads, Write(t)
  PROVE  Inv'
  <1> DEFINE chunk == Chunk(pc[t], sending[t])
  <1>1. /\ pc[t] \in Parts /\ pc' = [pc EXCEPT ![t] = AfterWrite(t)] /\ pc'[t] = AfterWrite(t)
        /\ AfterWrite(t) \in {"json", "body", "readlen", "hangup", "idle"}
        /\ fd # Closed /\ fd \in Conns /\ fd = used /\ open = {fd} /\ serving[fd] \in Parts
    BY DEF Write, Goto, AfterWrite, Gone, Inv, TypeOK, Sockets, NoLeakedSocket, Parts
  <1>2. \A s \in Threads \ {t} : pc[s] = "idle" /\ pc'[s] = "idle"
    BY <1>1 DEF Inv, Serial, TypeOK, Threads, Resting, Dead, Parts
  <1>3. t \in {"frame", "control"} /\ (t = "control" => pc[t] # "body")
    BY DEF Threads, Inv, Serial, ControlPcs, Resting
  <1>4. /\ t = "frame" => /\ sending[t] = Message("frame", frame) /\ sending[t].kind = "frame"
                           /\ frame \in 1..MaxFrames /\ handled[frame] = 0
        /\ t = "control" => sending[t].kind # "frame"
    BY <1>1 DEF Inv, Calls, Message, Parts, CallSteps, Resting
  <1>5. chunk \in Chunks /\ chunk.part = pc[t] /\ chunk.msg = sending[t] /\ Due = pc[t]
        /\ toWorker[fd] \in Seq(Chunks)
    <2>1. sending[t] \in Messages /\ toWorker[fd] \in Seq(Chunks)
      BY <1>1 DEF Inv, TypeOK
    <2>2. Due = pc[t]
      <3>1. CASE t = "frame"
        BY <1>1, <3>1 DEF Due, Parts
      <3>2. CASE t = "control"
        <4>1. pc["frame"] = "idle"
          BY <1>2, <3>2 DEF Threads
        <4>. QED BY <1>1, <3>2, <4>1 DEF Due, Parts
      <3>. QED BY <1>3, <3>1, <3>2
    <2>. QED BY <1>1, <2>1, <2>2 DEF Chunk, Chunks, Parts
  <1>6. AfterRead(chunk) = Due'
    <2>1. CASE t = "frame"
      <3>1. pc'["frame"] = AfterWrite(t) /\ pc'["control"] = "idle"
        BY <1>1, <1>2, <2>1 DEF Threads
      <3>. QED BY <1>1, <1>4, <1>5, <2>1, <3>1 DEF AfterRead, AfterWrite, Due, Parts
    <2>2. CASE t = "control"
      <3>1. pc'["control"] = AfterWrite(t) /\ pc'["frame"] = "idle"
        BY <1>1, <1>2, <2>2 DEF Threads
      <3>. QED BY <1>1, <1>3, <1>4, <1>5, <2>2, <3>1 DEF AfterRead, AfterWrite, Due, Parts
    <2>. QED BY <1>3, <2>1, <2>2
  <1>. HIDE DEF chunk
  <1>7. toWorker' = [toWorker EXCEPT ![fd] = Append(@, chunk)]
        /\ toWorker'[fd] = Append(toWorker[fd], chunk)
    BY <1>1 DEF Write, chunk, Inv, TypeOK
  <1>8. TypeOK'
    <2>1. toWorker' \in [Conns -> Seq(Chunks)]
      BY <1>5, <1>7 DEF Inv, TypeOK
    <2>. QED BY <1>1, <2>1 DEF Write, Inv, TypeOK, sockVars
  <1>9. Serial' /\ Calls'
    BY <1>1, <1>2, <1>3, <1>4 DEF Write, AfterWrite, Serial, Calls, Inv, FramePcs, ControlPcs,
       CallSteps, Resting, Dead, Parts, Message
  <1>10. Sockets'
    <2>1. \A s \in Threads : pc'[s] # "connect"
      BY <1>1, <1>2
    <2>2. \A c \in Conns : c > used => toWorker'[c] = toWorker[c]
      BY <1>1, <1>7 DEF Inv, TypeOK, Conns
    <2>. QED BY <1>1, <2>1, <2>2 DEF Write, sockVars, Sockets, NoLeakedSocket, Inv
  <1>11. /\ pc["frame"] # "readlen"
         /\ pc'["frame"] \in CallSteps => pc["frame"] \in CallSteps
    BY <1>1, <1>2, <1>3 DEF Parts, Threads, CallSteps
  <1>12. /\ Len(toWorker[fd]) \in Nat /\ Len(toWorker'[fd]) = Len(toWorker[fd]) + 1
         /\ toWorker'[fd][Len(toWorker'[fd])] = chunk
         /\ \A j \in 1..Len(toWorker[fd]) : toWorker'[fd][j] = toWorker[fd][j]
         /\ \A d \in Conns \ {fd} : toWorker'[d] = toWorker[d]
    BY <1>5, <1>7 DEF Inv, TypeOK
  <1>13. UNCHANGED <<serving, fd, handled, frame, toClient, sending>> /\ Streams
    BY DEF Inv, Write, sockVars
  <1>14. \A i \in 1..Len(toWorker[fd]) : toWorker[fd][i].part # "body"
    BY <1>1, <1>11, <1>13 DEF Streams, FromClient, BodyOfACall
  <1>15. ASSUME NEW i \in 1..Len(toWorker'[fd]), toWorker'[fd][i].part = "body"
         PROVE  /\ i = Len(toWorker'[fd]) /\ toWorker'[fd][i] = chunk
                /\ t = "frame" /\ pc["frame"] = "body" /\ pc'["frame"] = "readlen"
                /\ chunk.msg = Message("frame", frame)
    <2>1. i = Len(toWorker'[fd])
      BY <1>12, <1>14, <1>15
    <2>2. pc[t] = "body" /\ t = "frame"
      BY <1>3, <1>5, <1>12, <1>15, <2>1
    <2>. QED BY <1>1, <1>4, <1>5, <1>12, <2>1, <2>2 DEF AfterWrite
  <1>16. ASSUME NEW c \in Conns PROVE FromClient(c)'
    <2>1. FromClient(c)
      BY <1>13 DEF Streams
    <2>2. CASE c # fd
      <3>1. toWorker'[c] = toWorker[c]
        BY <1>12, <2>2
      <3>2. \A i : BodyOfACall(c, i) => BodyOfACall(c, i)'
        BY <1>11, <1>13, <2>2, <3>1 DEF BodyOfACall, Message
      <3>. QED BY <1>13, <2>1, <2>2, <3>1, <3>2 DEF FromClient, Walks, AfterRead
    <2>3. CASE c = fd
      <3>1. Walks(toWorker[fd], serving[fd]) /\ Ends(toWorker[fd], serving[fd]) = Due
        BY <1>1, <2>1, <2>3 DEF FromClient
      <3>2. /\ Walks(toWorker'[fd], serving[fd])
            /\ Ends(toWorker'[fd], serving[fd]) = Due'
        BY <1>5, <1>6, <1>7, <3>1, WalkAppend
      <3>3. ASSUME NEW i \in 1..Len(toWorker'[fd]), toWorker'[fd][i].part = "body"
            PROVE  BodyOfACall(fd, i)'
        <4>1. toClient[fd] = <<>>
          BY <1>1, <1>15, <3>3 DEF Inv, ToClient
        <4>2. Message("frame", frame).id = frame /\ frame \in 1..frame /\ handled[frame] = 0
          BY <1>4, <1>15, <3>3, BoundsAssumption DEF Message
        <4>3. pc'["frame"] \notin CallSteps
          BY <1>15, <3>3 DEF CallSteps
        <4>4. chunk.msg = sending["frame"]
          BY <1>5, <1>15, <3>3
        <4>. QED BY <1>13, <1>15, <3>3, <4>1, <4>2, <4>3, <4>4 DEF BodyOfACall, Message
      <3>. QED BY <1>13, <2>3, <3>2, <3>3 DEF FromClient, Walks, Ends, AfterRead
    <2>. QED BY <2>2, <2>3
  <1>17. OneBodyEach'
    <2>1. ASSUME NEW d \in Conns \ {fd}, serving[d] \in Parts,
                 NEW i \in 1..Len(toWorker'[fd]), toWorker'[fd][i].part = "body",
                 NEW j \in 1..Len(toWorker[d]), toWorker[d][j].part = "body"
          PROVE  toWorker'[fd][i].msg # toWorker[d][j].msg
      <3>1. BodyOfACall(d, j)
        BY <1>13, <2>1 DEF Streams, FromClient
      <3>2. toWorker[d][j].msg.id # frame
        BY <1>15, <2>1, <3>1 DEF BodyOfACall, CallSteps
      <3>3. toWorker'[fd][i].msg.id = frame
        BY <1>15, <2>1 DEF Message
      <3>. QED BY <3>2, <3>3
    <2>2. SUFFICES ASSUME NEW c \in Conns, NEW d \in Conns, c # d,
                          serving[c] \in Parts, serving[d] \in Parts,
                          NEW i \in 1..Len(toWorker'[c]), toWorker'[c][i].part = "body",
                          NEW j \in 1..Len(toWorker'[d]), toWorker'[d][j].part = "body"
                   PROVE  toWorker'[c][i].msg # toWorker'[d][j].msg
      BY <1>13 DEF OneBodyEach
    <2>3. CASE c = fd
      <3>1. /\ d \in Conns \ {fd} /\ toWorker'[d] = toWorker[d]
            /\ i \in 1..Len(toWorker'[fd]) /\ toWorker'[fd][i].part = "body"
            /\ j \in 1..Len(toWorker[d]) /\ toWorker[d][j].part = "body"
        BY <1>12, <2>2, <2>3
      <3>. QED BY <2>1, <2>2, <2>3, <3>1
    <2>4. CASE d = fd
      <3>1. /\ c \in Conns \ {fd} /\ toWorker'[c] = toWorker[c]
            /\ j \in 1..Len(toWorker'[fd]) /\ toWorker'[fd][j].part = "body"
            /\ i \in 1..Len(toWorker[c]) /\ toWorker[c][i].part = "body"
        BY <1>12, <2>2, <2>4
      <3>. QED BY <2>1, <2>2, <2>4, <3>1
    <2>5. CASE c # fd /\ d # fd
      BY <1>12, <1>13, <2>2, <2>5 DEF Streams, OneBodyEach
    <2>. QED BY <2>3, <2>4, <2>5
  <1>18. ToClient'
    <2>1. toClient[fd] = <<>>
      BY <1>1, <1>11, <1>2, <1>3 DEF Inv, ToClient, Parts, Threads
    <2>2. toClient' = toClient /\ fd' = fd
      BY DEF Write, sockVars
    <2>3. pc'["frame"] # "readjson"
      BY <1>1, <1>2 DEF Threads
    <2>. QED BY <2>1, <2>2, <2>3 DEF ToClient
  <1>. QED BY <1>8, <1>9, <1>10, <1>16, <1>17, <1>18 DEF Inv, Streams

(* The frame thread reads the length of the answer, then the answer.       *)
LEMMA ReadStep ==
  ASSUME ~Overlap, Inv, Read
  PROVE  Inv'
  <1>1. /\ pc["frame"] \in {"readlen", "readjson"} /\ fd # Closed /\ fd \in Conns
        /\ pc["control"] = "idle" /\ handled[frame] = 1
        /\ sending["frame"] = Message("frame", frame) /\ frame \in 1..MaxFrames
        /\ toClient[fd] # <<>>
    BY DEF Read, Inv, TypeOK, Serial, Calls, ToClient, Resting, Dead
  <1>2. CASE pc["frame"] = "readlen"
    <2>1. /\ pc' = [pc EXCEPT !["frame"] = "readjson"] /\ pc'["frame"] = "readjson"
          /\ pc'["control"] = "idle" /\ answered' = answered
      BY <1>1, <1>2 DEF Read, ReadPart, Goto, Inv, TypeOK, Threads
    <2>2. toClient[fd] = <<Chunk("len", sending["frame"]), Chunk("json", sending["frame"])>>
      BY <1>1, <1>2 DEF Inv, ToClient, Reply
    <2>3. toClient'[fd] = <<Chunk("json", sending["frame"])>> /\ toClient' \in [Conns -> Seq(Chunks)]
      <3>1. Tail(toClient[fd]) = <<Chunk("json", sending["frame"])>>
        BY <2>2
      <3>2. Tail(toClient[fd]) \in Seq(Chunks)
        BY <1>1 DEF Inv, TypeOK
      <3>. QED BY <1>1, <3>1, <3>2 DEF Read, Inv, TypeOK
    <2>4. TypeOK'
      BY <2>1, <2>3 DEF Read, Inv, TypeOK, sockVars
    <2>5. Serial' /\ Calls' /\ Sockets' /\ ToClient'
      <3>1. Serial' /\ Calls'
        BY <1>1, <2>1 DEF Read, Serial, Calls, Inv, FramePcs, ControlPcs, CallSteps, Resting, Dead
      <3>2. ToClient'
        BY <1>1, <2>1, <2>3 DEF Read, ToClient, sockVars
      <3>3. Sockets'
        BY <1>1, <2>1 DEF Read, Sockets, NoLeakedSocket, Inv, TypeOK, sockVars, Threads, Conns, Closed
      <3>. QED BY <3>1, <3>2, <3>3
    <2>6. Streams'
      <3>1. Due' = Due
        BY <1>1, <1>2, <2>1 DEF Due, Parts
      <3>. QED BY <1>1, <2>1, <3>1, Quiet DEF Read, sockVars, CallSteps
    <2>. QED BY <2>4, <2>5, <2>6 DEF Inv
  <1>3. CASE pc["frame"] = "readjson"
    <2>1. toClient[fd] = <<Chunk("json", sending["frame"])>>
      BY <1>1, <1>3 DEF Inv, ToClient
    <2>2. /\ pc' = [pc EXCEPT !["frame"] = "idle"] /\ pc'["frame"] = "idle"
          /\ pc'["control"] = "idle" /\ answered' \in {frame, answered}
      BY <1>1, <1>3, <2>1 DEF Read, ReadPart, Goto, Inv, TypeOK, Threads, Chunk, Message
    <2>3. toClient'[fd] = <<>> /\ toClient' \in [Conns -> Seq(Chunks)]
      <3>1. Tail(toClient[fd]) = <<>>
        BY <2>1
      <3>2. Tail(toClient[fd]) \in Seq(Chunks)
        BY <1>1 DEF Inv, TypeOK
      <3>. QED BY <1>1, <3>1, <3>2 DEF Read, Inv, TypeOK
    <2>4. TypeOK'
      BY <1>1, <2>2, <2>3 DEF Read, Inv, TypeOK, sockVars
    <2>5. Serial' /\ Calls' /\ Sockets' /\ ToClient'
      <3>1. Serial' /\ Calls'
        BY <1>1, <2>2 DEF Read, Serial, Calls, Inv, FramePcs, ControlPcs, CallSteps, Resting, Dead
      <3>2. ToClient'
        BY <1>1, <2>2, <2>3 DEF Read, ToClient, sockVars
      <3>3. Sockets'
        BY <1>1, <2>2 DEF Read, Sockets, NoLeakedSocket, Inv, TypeOK, sockVars, Threads, Conns, Closed
      <3>. QED BY <3>1, <3>2, <3>3
    <2>6. Streams'
      <3>1. Due' = Due
        BY <1>1, <1>3, <2>2 DEF Due, Parts
      <3>. QED BY <1>3, <2>2, <3>1, Quiet DEF Read, sockVars, CallSteps
    <2>. QED BY <2>4, <2>5, <2>6 DEF Inv
  <1>. QED BY <1>1, <1>2, <1>3

(* serve() reads a chunk, and answers a frame after its body.              *)
LEMMA ServeStep ==
  ASSUME ~Overlap, Inv, NEW c \in Conns, Serve(c)
  PROVE  Inv'
  <1> DEFINE chunk == Head(toWorker[c])
  <1>1. /\ toWorker[c] \in Seq(Chunks) /\ toWorker[c] # <<>> /\ chunk.part = serving[c]
        /\ chunk = toWorker[c][1] /\ chunk \in Chunks
        /\ Len(toWorker[c]) \in Nat /\ Len(toWorker[c]) > 0
    BY DEF Serve, Inv, TypeOK
  <1>2. serving[c] \in Parts
    BY <1>1 DEF Chunks, Parts
  <1>3. FromClient(c) /\ Walks(toWorker[c], serving[c]) /\ OneBodyEach
    BY <1>2 DEF Inv, Streams, FromClient
  <1>4. /\ Tail(toWorker[c]) \in Seq(Chunks)
        /\ Walks(Tail(toWorker[c]), AfterRead(chunk))
        /\ Ends(Tail(toWorker[c]), AfterRead(chunk)) = Ends(toWorker[c], serving[c])
        /\ Len(Tail(toWorker[c])) = Len(toWorker[c]) - 1
        /\ \A i \in 1..Len(Tail(toWorker[c])) : Tail(toWorker[c])[i] = toWorker[c][i + 1]
    BY <1>1, <1>3, WalkTail
  <1>5. AfterRead(chunk) \in Parts \cup {"gone"}
    BY DEF AfterRead, Parts
  <1>6. ~(c > used)
    BY <1>1 DEF Inv, Sockets
  <1>7. chunk.part = "body" => BodyOfACall(c, 1)
    <2>1. 1 \in 1..Len(toWorker[c])
      BY <1>1
    <2>. QED BY <1>1, <1>2, <1>3, <2>1 DEF FromClient
  <1>. HIDE DEF chunk
  <1>8. /\ toWorker' = [toWorker EXCEPT ![c] = Tail(toWorker[c])]
        /\ toWorker'[c] = Tail(toWorker[c]) /\ \A d \in Conns \ {c} : toWorker'[d] = toWorker[d]
        /\ UNCHANGED <<pc, sending, frame, controls, fd, used, open, cooling, answered>>
    BY DEF Serve, Inv, TypeOK, callVars, sockVars
  <1>9. toWorker' \in [Conns -> Seq(Chunks)] /\ Due' = Due
    BY <1>4, <1>8 DEF Inv, TypeOK, Due
  <1>10. /\ Len(toWorker'[c]) = Len(toWorker[c]) - 1
         /\ \A i \in 1..Len(toWorker'[c]) : toWorker'[c][i] = toWorker[c][i + 1]
    <2>. DEFINE tail == Tail(toWorker[c])
    <2>1. Len(tail) = Len(toWorker[c]) - 1 /\ toWorker'[c] = tail
          /\ \A i \in 1..Len(tail) : tail[i] = toWorker[c][i + 1]
      BY <1>4, <1>8
    <2>. HIDE DEF tail
    <2>. QED BY <2>1
  <1>11. CASE chunk.part # "body"
    <2>1. /\ serving' = [serving EXCEPT ![c] = AfterRead(chunk)] /\ serving'[c] = AfterRead(chunk)
          /\ toClient' = toClient /\ handled' = handled
      BY <1>11 DEF Serve, chunk, Inv, TypeOK
    <2>2. TypeOK' /\ Serial' /\ Calls' /\ ToClient'
      BY <1>5, <1>8, <1>9, <2>1 DEF Inv, TypeOK, Serial, Calls, ToClient, Parts
    <2>3. Sockets'
      BY <1>5, <1>6, <1>8, <2>1 DEF Inv, TypeOK, Sockets, NoLeakedSocket, Parts
    <2>4. ASSUME NEW d \in Conns PROVE FromClient(d)'
      <3>1. CASE d # c
        <4>1. serving'[d] = serving[d] /\ toWorker'[d] = toWorker[d] /\ FromClient(d)
          BY <1>8, <2>1, <3>1 DEF Inv, Streams, TypeOK
        <4>2. \A i : BodyOfACall(d, i)' <=> BodyOfACall(d, i)
          BY <1>8, <2>1, <4>1 DEF BodyOfACall, Message
        <4>. QED BY <1>8, <1>9, <4>1, <4>2, WalksMove DEF FromClient
      <3>2. CASE d = c
        <4>1. Walks(toWorker'[c], serving'[c]) /\ Ends(toWorker'[c], serving'[c]) = Ends(toWorker[c], serving[c])
          BY <1>4, <1>8, <2>1
        <4>2. ASSUME NEW i \in 1..Len(toWorker'[c]), toWorker'[c][i].part = "body"
              PROVE  BodyOfACall(c, i)'
          <5>1. i + 1 \in 1..Len(toWorker[c]) /\ toWorker'[c][i] = toWorker[c][i + 1]
            BY <1>1, <1>10
          <5>2. BodyOfACall(c, i + 1)
            BY <1>2, <1>3, <4>2, <5>1 DEF FromClient
          <5>3. i = Len(toWorker'[c])
            BY <1>1, <1>10, <5>2 DEF BodyOfACall
          <5>. QED BY <1>8, <2>1, <5>1, <5>2, <5>3 DEF BodyOfACall, Message
        <4>3. c = fd => Ends(toWorker[c], serving[c]) = Due
          BY <1>2, <1>3 DEF FromClient
        <4>4. Walks(toWorker[c], serving[c])'
          BY <4>1 DEF Walks, AfterRead
        <4>5. fd' = fd /\ (c = fd => Ends(toWorker[c], serving[c])' = Due')
          BY <1>8, <1>9, <4>1, <4>3 DEF Ends, AfterRead
        <4>. QED BY <3>2, <4>2, <4>4, <4>5 DEF FromClient
      <3>. QED BY <3>1, <3>2
    <2>5. OneBodyEach'
      <3>1. \A i \in 1..Len(toWorker'[c]) :
              i + 1 \in 1..Len(toWorker[c]) /\ toWorker'[c][i] = toWorker[c][i + 1]
        BY <1>1, <1>10
      <3>2. \A d \in Conns : serving'[d] \in Parts => serving[d] \in Parts
        BY <1>2, <2>1 DEF Inv, TypeOK
      <3>. QED BY <1>3, <1>8, <3>1, <3>2 DEF OneBodyEach
    <2>. QED BY <2>2, <2>3, <2>4, <2>5 DEF Inv, Streams
  <1>12. CASE chunk.part = "body"
    <2>. DEFINE m == chunk.msg
    <2>1. /\ BodyOfACall(c, 1) /\ Len(toWorker[c]) = 1
          /\ m = Message("frame", m.id) /\ m.id \in 1..frame /\ handled[m.id] = 0
          /\ m.id = frame => pc["frame"] \notin CallSteps
          /\ c = fd => pc["frame"] = "readlen" /\ toClient[c] = <<>> /\ m = sending["frame"]
      BY <1>1, <1>7, <1>12 DEF BodyOfACall
    <2>2. m \in Messages /\ m.id \in 1..MaxFrames /\ 1..frame \subseteq 1..MaxFrames
      BY <1>1, <2>1, BoundsAssumption DEF Chunks, Inv, TypeOK
    <2>3. handled' = [handled EXCEPT ![m.id] = 1]
      <3>1. handled' = [handled EXCEPT ![m.id] = handled[m.id] + 1]
        BY <1>12 DEF Serve, chunk
      <3>. HIDE DEF m
      <3>2. handled[m.id] + 1 = 1
        BY <2>1
      <3>. QED BY <3>1, <3>2
    <2>4. AfterRead(chunk) = "len"
      BY <1>12 DEF AfterRead
    <2>5. /\ serving' = [serving EXCEPT ![c] = serving'[c]]
          /\ serving'[c] = IF c \in open THEN "len" ELSE "gone"
      BY <1>12, <2>4 DEF Serve, chunk, Inv, TypeOK
    <2>6. /\ toClient' = [toClient EXCEPT ![c] = toClient'[c]]
          /\ toClient'[c] = toClient[c] \o Reply(m)
      BY <1>12 DEF Serve, chunk, Inv, TypeOK
    <2>7. Reply(m) \in Seq(Chunks) /\ <<>> \o Reply(m) = Reply(m)
      <3>1. Chunk("len", m) \in Chunks /\ Chunk("json", m) \in Chunks
        BY <2>2 DEF Chunk, Chunks
      <3>. HIDE DEF m
      <3>. QED BY <3>1 DEF Reply
    <2>. HIDE DEF m
    <2>8. TypeOK'
      <3>1. toClient' \in [Conns -> Seq(Chunks)]
        <4>1. \A a, b \in Seq(Chunks) : a \o b \in Seq(Chunks)
          OBVIOUS
        <4>2. toClient[c] \in Seq(Chunks)
          BY DEF Inv, TypeOK
        <4>3. toClient'[c] \in Seq(Chunks)
          BY <2>6, <2>7, <4>1, <4>2
        <4>. QED BY <2>6, <4>3 DEF Inv, TypeOK
      <3>2. serving' \in [Conns -> {"none", "len", "json", "body", "gone"}]
        BY <2>5 DEF Inv, TypeOK
      <3>3. handled' \in [1..MaxFrames -> Nat]
        BY <2>3 DEF Inv, TypeOK
      <3>. QED BY <1>8, <1>9, <3>1, <3>2, <3>3 DEF Inv, TypeOK
    <2>9. Serial' /\ Calls'
      <3>1. \A n \in 1..MaxFrames : handled'[n] = IF n = m.id THEN 1 ELSE handled[n]
        BY <2>3 DEF Inv, TypeOK
      <3>2. ~(m.id > frame)
        BY <2>1, BoundsAssumption DEF Inv, TypeOK
      <3>. QED BY <1>8, <2>1, <3>1, <3>2 DEF Inv, Serial, Calls, CallSteps
    <2>10. Sockets'
      <3>1. \A d \in Conns \ {c} : toClient'[d] = toClient[d] /\ serving'[d] = serving[d]
        BY <2>5, <2>6 DEF Inv, TypeOK
      <3>. QED BY <1>6, <1>8, <2>5, <3>1 DEF Inv, TypeOK, Sockets, NoLeakedSocket
    <2>11. toWorker'[c] = <<>>
      <3>1. Len(toWorker'[c]) = 0 /\ toWorker'[c] \in Seq(Chunks)
        BY <1>9, <1>10, <2>1
      <3>. QED BY <3>1
    <2>12. ASSUME NEW d \in Conns, d # c PROVE FromClient(d)'
      <3>1. /\ serving'[d] = serving[d] /\ toWorker'[d] = toWorker[d] /\ FromClient(d)
            /\ toClient'[d] = toClient[d]
        BY <1>8, <2>5, <2>6, <2>12 DEF Inv, Streams, TypeOK
      <3>2. ASSUME serving[d] \in Parts, NEW i \in 1..Len(toWorker[d]),
                   toWorker[d][i].part = "body"
            PROVE  BodyOfACall(d, i)'
        <4>1. BodyOfACall(d, i)
          BY <3>1, <3>2 DEF FromClient
        <4>2. toWorker[d][i].msg # m
          <5>1. 1 \in 1..Len(toWorker[c])
            BY <1>1
          <5>. QED BY <1>1, <1>2, <1>3, <1>12, <2>12, <3>2, <5>1 DEF OneBodyEach, m
        <4>3. toWorker[d][i].msg.id # m.id
          BY <2>1, <4>1, <4>2 DEF BodyOfACall
        <4>4. toWorker[d][i].msg.id \in 1..MaxFrames
          BY <2>2, <4>1 DEF BodyOfACall
        <4>5. handled'[toWorker[d][i].msg.id] = 0
          BY <2>3, <4>1, <4>3, <4>4 DEF BodyOfACall, Inv, TypeOK
        <4>. QED BY <1>8, <3>1, <4>1, <4>5 DEF BodyOfACall, Message
      <3>. QED BY <1>8, <1>9, <3>1, <3>2, WalksMove DEF FromClient
    <2>13. FromClient(c)'
      <3>1. CASE c = fd
        <4>1. serving'[c] = "len" /\ Due' = "len"
          BY <1>9, <2>1, <2>5, <3>1 DEF Due, Parts, Inv, Serial, Sockets, NoLeakedSocket, Resting,
             Dead, Conns, Closed
        <4>. QED BY <2>11, <4>1 DEF FromClient, Walks, Ends
      <3>2. CASE c # fd
        <4>1. serving'[c] = "gone"
          BY <2>5, <3>2 DEF Inv, Sockets, NoLeakedSocket
        <4>. QED BY <4>1 DEF FromClient, Parts
      <3>. QED BY <3>1, <3>2
    <2>14. OneBodyEach'
      <3>1. \A d \in Conns \ {c} : toWorker'[d] = toWorker[d] /\ serving'[d] = serving[d]
        BY <1>8, <2>5 DEF Inv, TypeOK
      <3>2. Len(toWorker'[c]) = 0
        BY <2>11
      <3>. QED BY <1>3, <3>1, <3>2 DEF OneBodyEach
    <2>15. ToClient'
      <3>1. CASE c = fd
        <4>1. Message("frame", frame).id = frame /\ sending["frame"] = Message("frame", frame)
          BY <2>1, <3>1 DEF Inv, Calls, Message
        <4>2. handled'[frame] = 1
          BY <2>1, <2>2, <2>3, <3>1, <4>1 DEF Inv, TypeOK
        <4>3. toClient'[fd] = Reply(sending["frame"])
          BY <2>1, <2>6, <2>7, <3>1
        <4>. QED BY <1>8, <2>1, <3>1, <4>2, <4>3 DEF ToClient
      <3>2. CASE c # fd
        <4>1. fd # Closed => toClient'[fd] = toClient[fd]
          BY <2>6, <3>2 DEF Inv, TypeOK
        <4>2. handled[frame] = 1 => handled'[frame] = 1
          BY <2>1, <2>3 DEF Inv, TypeOK
        <4>. QED BY <1>8, <4>1, <4>2 DEF Inv, ToClient
      <3>. QED BY <3>1, <3>2
    <2>. QED BY <2>8, <2>9, <2>10, <2>12, <2>13, <2>14, <2>15 DEF Inv, Streams
  <1>. QED BY <1>11, <1>12

(* serve() finds its connection closed, or a chunk it does not expect.     *)
LEMMA ServeBreaksStep ==
  ASSUME ~Overlap, Inv, NEW c \in Conns, ServeBreaks(c)
  PROVE  Inv'
  <1>1. /\ serving' = [serving EXCEPT ![c] = "gone"] /\ serving'[c] = "gone"
        /\ \A d \in Conns \ {c} : serving'[d] = serving[d]
        /\ serving[c] # "none"
        /\ UNCHANGED <<callVars, sockVars, toWorker, toClient, handled, answered>>
    BY DEF ServeBreaks, Inv, TypeOK
  <1>2. TypeOK' /\ Serial' /\ Calls' /\ ToClient'
    BY <1>1 DEF Inv, TypeOK, Serial, Calls, ToClient, callVars, sockVars
  <1>3. Sockets'
    BY <1>1 DEF Inv, TypeOK, Sockets, NoLeakedSocket, callVars, sockVars
  <1>4. ASSUME NEW d \in Conns PROVE FromClient(d)'
    <2>1. CASE d = c
      BY <1>1, <2>1 DEF FromClient, Parts
    <2>2. CASE d # c
      <3>1. FromClient(d) /\ serving'[d] = serving[d]
        BY <1>1, <2>2 DEF Inv, Streams
      <3>. QED BY <1>1, <3>1 DEF FromClient, Walks, Ends, AfterRead, BodyOfACall, Message, Due,
           callVars, sockVars
    <2>. QED BY <2>1, <2>2
  <1>5. OneBodyEach'
    BY <1>1 DEF Inv, Streams, OneBodyEach, Parts
  <1>. QED BY <1>2, <1>3, <1>4, <1>5 DEF Inv, Streams

(* The worker ends, with all its connections.                              *)
LEMMA WorkerDiesStep ==
  ASSUME ~Overlap, Inv, WorkerDies
  PROVE  Inv'
  <1>1. /\ \A c \in Conns : serving'[c] = IF serving[c] = "none" THEN "none" ELSE "gone"
        /\ serving' \in [Conns -> {"none", "gone"}]
        /\ UNCHANGED <<callVars, sockVars, toWorker, toClient, handled, answered>>
    BY DEF WorkerDies
  <1>2. TypeOK' /\ Serial' /\ Calls' /\ ToClient'
    BY <1>1 DEF Inv, TypeOK, Serial, Calls, ToClient, callVars, sockVars
  <1>3. Sockets'
    BY <1>1 DEF Inv, TypeOK, Sockets, NoLeakedSocket, callVars, sockVars, Closed
  <1>4. Streams'
    BY <1>1 DEF Streams, FromClient, OneBodyEach, Parts
  <1>. QED BY <1>2, <1>3, <1>4 DEF Inv

(* Nothing but the cool-down changes, or nothing at all.                   *)
LEMMA OtherStep ==
  ASSUME Inv, CooldownOver \/ UNCHANGED vars
  PROVE  Inv'
  <1>1. /\ UNCHANGED <<callVars, fd, used, open, pipeVars, handled, answered>>
        /\ cooling' \in BOOLEAN
    BY DEF CooldownOver, vars, callVars, pipeVars, Inv, TypeOK
  <1>2. TypeOK' /\ Serial' /\ Calls' /\ Sockets' /\ ToClient'
    BY <1>1 DEF Inv, TypeOK, Serial, Calls, Sockets, NoLeakedSocket, ToClient, callVars, pipeVars
  <1>3. Streams'
    <2>1. Due' = Due
      BY <1>1 DEF Due, callVars
    <2>. QED BY <1>1, <2>1, Quiet DEF callVars, pipeVars
  <1>. QED BY <1>2, <1>3 DEF Inv

(* The invariant of a client whose calls do not overlap: in every stream   *)
(* the chunks follow one another as serve() expects, the last one of the   *)
(* current one is what the call in progress has written so far, and a body *)
(* on its way was handled nowhere and is on its way in no other.           *)
THEOREM IpcInvariant ==
  ASSUME ~Overlap
  PROVE  Spec => []Inv
  <1>1. Init => Inv
    <2>1. SUFFICES ASSUME Init PROVE Inv
      OBVIOUS
    <2>2. NoMessage \in Messages
      BY DEF NoMessage, Message, Messages
    <2>3. TypeOK
      <3>1. <<>> \in Seq(Chunks)
        OBVIOUS
      <3>2. toWorker \in [Conns -> Seq(Chunks)] /\ toClient \in [Conns -> Seq(Chunks)]
        BY <2>1, <3>1 DEF Init
      <3>3. used \in 0..MaxConns /\ frame \in 0..MaxFrames /\ controls \in 0..MaxControls
            /\ handled \in [1..MaxFrames -> Nat] /\ answered \in 0..frame
        BY <2>1, BoundsAssumption DEF Init
      <3>4. pc \in [Threads -> {"idle"}] /\ sending \in [Threads -> Messages]
        BY <2>1, <2>2 DEF Init
      <3>. QED BY <2>1, <3>2, <3>3, <3>4 DEF Init, TypeOK
    <2>4. Serial /\ Calls /\ Sockets /\ ToClient
      BY <2>1 DEF Init, Serial, Calls, Sockets, NoLeakedSocket, ToClient, Threads, FramePcs,
         ControlPcs, CallSteps, Resting, Dead
    <2>5. Streams
      BY <2>1 DEF Init, Streams, FromClient, OneBodyEach, Parts
    <2>. QED BY <2>3, <2>4, <2>5 DEF Inv
  <1>2. Inv /\ [Next]_vars => Inv'
    <2>1. SUFFICES ASSUME Inv, [Next]_vars PROVE Inv'
      OBVIOUS
    <2>2. CASE CallFrame
      BY <2>1, <2>2, CallFrameStep
    <2>3. CASE \E k \in {"attach", "config", "detach"} : CallControl(k)
      BY <2>1, <2>3, CallControlStep
    <2>4. ASSUME NEW t \in Threads,
                 \/ EnsureConnected(t) \/ Connect(t) \/ ConnectFails(t) \/ Write(t)
                 \/ WriteFails(t) \/ IoError(t)
          PROVE  Inv'
      <3>1. CASE WriteFails(t) \/ IoError(t)
        BY <2>1, <3>1, FailureStep
      <3>. QED BY <2>1, <2>4, <3>1, EnsureConnectedStep, ConnectStep, ConnectFailsStep, WriteStep
    <2>5. CASE Read
      BY <2>1, <2>5, ReadStep
    <2>6. CASE ReadFails
      BY <2>1, <2>6, FailureStep DEF Threads
    <2>7. CASE HangUp
      BY <2>1, <2>7, HangUpStep
    <2>8. ASSUME NEW c \in Conns, Serve(c) \/ ServeBreaks(c) PROVE Inv'
      BY <2>1, <2>8, ServeStep, ServeBreaksStep
    <2>9. CASE WorkerDies
      BY <2>1, <2>9, WorkerDiesStep
    <2>10. CASE ServerDies
      BY <2>1, <2>10, ServerDiesStep
    <2>11. CASE CooldownOver \/ Rest \/ UNCHANGED vars
      BY <2>1, <2>11, OtherStep DEF Rest
    <2>. QED BY <2>1, <2>2, <2>3, <2>4, <2>5, <2>6, <2>7, <2>8, <2>9, <2>10, <2>11 DEF Next
  <1>. QED BY <1>1, <1>2, PTL DEF Spec

(* The variables keep their types.                                         *)
THEOREM IpcTypeOK ==
  ASSUME ~Overlap
  PROVE  Spec => []TypeOK
  <1>1. Inv => TypeOK
    BY DEF Inv
  <1>. QED BY <1>1, IpcInvariant, PTL

(* Whoever reads a socket finds the chunk it is about to read: no reply is *)
(* taken for a length, no body for a text, across any number of failed     *)
(* calls, reconnects and deaths of either end.                             *)
THEOREM ClientIsAligned ==
  ASSUME ~Overlap
  PROVE  Spec => []Aligned
  <1>1. ASSUME Inv PROVE Aligned
    <2>1. ASSUME NEW c \in Conns, serving[c] \in {"len", "json", "body"}, toWorker[c] # <<>>
          PROVE  Head(toWorker[c]).part = serving[c]
      <3>1. FromClient(c) /\ toWorker[c] \in Seq(Chunks)
        BY <1>1 DEF Inv, Streams, TypeOK
      <3>. QED BY <2>1, <3>1, WalkTail DEF FromClient, Parts
    <2>2. pc["frame"] \in {"readlen", "readjson"} /\ fd # Closed =>
            toClient[fd] = <<>> \/ Head(toClient[fd]).part = ReadPart
      BY <1>1, RepliesAreAligned
    <2>. QED BY <2>1, <2>2 DEF Aligned
  <1>. QED BY <1>1, IpcInvariant, PTL

(* After any number of reconnects the client holds at most one socket, the *)
(* one m_fd names.                                                         *)
THEOREM SocketsAreClosed ==
  ASSUME ~Overlap
  PROVE  Spec => []NoLeakedSocket
  <1>1. Inv => NoLeakedSocket
    BY DEF Inv, Sockets
  <1>. QED BY <1>1, IpcInvariant, PTL
-----------------------------------------------------------------------------
(* A frame call is a FrameRpc: each step of the client and the worker is   *)
(* one of its steps or leaves it alone.                                    *)
Waiting == pc["frame"] \notin {"idle", "stopped"}

(* Steps of a thread that is in no frame call, or stays in it.             *)
LEMMA Stutters ==
  ASSUME UNCHANGED <<frame, handled, answered>>, Waiting' = Waiting
  PROVE  [Rpc!Next]_(Rpc!rpcVars)
  BY DEF Rpc!rpcVars, Waiting

(* A call that ends without an answer is a failure of the abstract call.   *)
LEMMA GivesUp ==
  ASSUME UNCHANGED <<frame, handled, answered>>, Waiting, ~Waiting'
  PROVE  [Rpc!Next]_(Rpc!rpcVars)
  BY DEF Rpc!Next, Rpc!GiveUp, Waiting

(* A call that cannot connect, write or read gives up, and any other step  *)
(* of a thread towards its message is no step of the FrameRpc.             *)
LEMMA ThreadImplements ==
  ASSUME Inv, NEW t \in Threads,
         \/ EnsureConnected(t) \/ Connect(t) \/ ConnectFails(t) \/ Write(t)
         \/ WriteFails(t) \/ IoError(t)
  PROVE  [Rpc!Next]_(Rpc!rpcVars)
  <1>1. /\ UNCHANGED <<frame, handled, answered>>
        /\ pc[t] \in CallSteps \cup {"readlen", "readjson"}
        /\ \E p : pc' = [pc EXCEPT ![t] = p] /\ p # "stopped"
    BY DEF EnsureConnected, Connect, ConnectFails, Write, WriteFails, IoError, Goto, AfterWrite,
       Unfinished, CallSteps
  <1>2. CASE t = "frame"
    <2>1. Waiting
      BY <1>1, <1>2 DEF Waiting, CallSteps
    <2>. QED BY <1>1, <2>1, Stutters, GivesUp DEF Waiting
  <1>3. CASE t = "control"
    <2>1. pc'["frame"] = pc["frame"]
      BY <1>1, <1>3 DEF Inv, TypeOK, Threads
    <2>. QED BY <1>1, <2>1, Stutters DEF Waiting
  <1>. QED BY <1>2, <1>3 DEF Threads

(* A body that serve() handles is that of the call in progress, or of one  *)
(* that gave up, and is handled for the first time.                        *)
LEMMA ServeImplements ==
  ASSUME Inv, NEW c \in Conns, Serve(c)
  PROVE  [Rpc!Next]_(Rpc!rpcVars)
  <1> DEFINE chunk == Head(toWorker[c])
  <1>1. /\ UNCHANGED <<pc, frame, answered>>
        /\ toWorker[c] \in Seq(Chunks) /\ toWorker[c] # <<>> /\ chunk = toWorker[c][1]
        /\ 1 \in 1..Len(toWorker[c]) /\ chunk.part = serving[c]
    BY DEF Serve, callVars, sockVars, Inv, TypeOK
  <1>2. CASE chunk.part # "body"
    BY <1>1, <1>2, Stutters DEF Serve, Waiting
  <1>3. CASE chunk.part = "body"
    <2>1. BodyOfACall(c, 1)
      BY <1>1, <1>3 DEF Inv, Streams, FromClient, Parts
    <2>. DEFINE n == chunk.msg.id
    <2>2. n \in 1..MaxFrames /\ n <= frame /\ handled[n] = 0
      BY <1>1, <2>1, BoundsAssumption DEF BodyOfACall, Inv, TypeOK
    <2>3. handled' = [handled EXCEPT ![n] = handled[n] + 1]
      BY <1>3 DEF Serve
    <2>. HIDE DEF n
    <2>4. handled[n] + 1 = 1
      BY <2>2
    <2>. QED BY <1>1, <2>2, <2>3, <2>4 DEF Rpc!Next, Rpc!Handle, Waiting
  <1>. QED BY <1>2, <1>3

(* For any number of frames, reconnects and deaths, a frame is handled at  *)
(* most once, and sendFrameAndRecv returns the answer to its own frame or  *)
(* nothing, although nobody compares the ids of replies.                   *)
THEOREM ClientImplementsFrameRpc ==
  ASSUME ~Overlap
  PROVE  Spec => ImplementsFrameRpc
  <1>1. Init => Rpc!Init
    BY DEF Init, Rpc!Init, Threads
  <1>2. Inv /\ Inv' /\ [Next]_vars => [Rpc!Next]_(Rpc!rpcVars)
    <2>1. SUFFICES ASSUME Inv, Inv', [Next]_vars PROVE [Rpc!Next]_(Rpc!rpcVars)
      OBVIOUS
    <2>2. CASE CallFrame
      <3>1. /\ pc["frame"] = "idle" /\ pc'["frame"] = "ensure" /\ frame' = frame + 1
            /\ UNCHANGED <<handled, answered>>
        BY <2>1, <2>2 DEF CallFrame, MayCall, Goto, Inv, TypeOK, Threads
      <3>. QED BY <3>1 DEF Rpc!Next, Rpc!Ask
    <2>3. CASE \E k \in {"attach", "config", "detach"} : CallControl(k)
      <3>1. pc'["frame"] = pc["frame"] /\ UNCHANGED <<frame, handled, answered>>
        BY <2>1, <2>3 DEF CallControl, Goto, Inv, TypeOK, Threads
      <3>. QED BY <3>1, Stutters DEF Waiting
    <2>4. ASSUME NEW t \in Threads,
                 \/ EnsureConnected(t) \/ Connect(t) \/ ConnectFails(t) \/ Write(t)
                 \/ WriteFails(t) \/ IoError(t)
          PROVE  [Rpc!Next]_(Rpc!rpcVars)
      BY <2>1, <2>4, ThreadImplements
    <2>5. CASE Read
      <3>1. pc["frame"] \in {"readlen", "readjson"} /\ fd # Closed /\ toClient[fd] # <<>>
            /\ UNCHANGED <<frame, handled>>
        BY <2>5 DEF Read
      <3>2. CASE pc["frame"] = "readlen"
        <4>1. pc'["frame"] = "readjson" /\ UNCHANGED answered
          BY <2>1, <2>5, <3>2 DEF Read, ReadPart, Goto, Inv, TypeOK, Threads
        <4>. QED BY <3>1, <3>2, <4>1, Stutters DEF Waiting
      <3>3. CASE pc["frame"] = "readjson"
        <4>1. handled[frame] = 1 /\ toClient[fd] = <<Chunk("json", Message("frame", frame))>>
          BY <2>1, <3>1, <3>3 DEF Inv, ToClient, Calls
        <4>2. pc'["frame"] = "idle" /\ answered' \in {frame, answered}
          BY <2>1, <2>5, <3>3, <4>1 DEF Read, ReadPart, Goto, Inv, TypeOK, Threads, Chunk, Message
        <4>. QED BY <3>1, <3>3, <4>1, <4>2, GivesUp DEF Rpc!Next, Rpc!Answer, Waiting
      <3>. QED BY <3>1, <3>2, <3>3
    <2>6. CASE ReadFails
      <3>1. pc["frame"] \in {"readlen", "readjson"} /\ pc'["frame"] = "idle"
            /\ UNCHANGED <<frame, handled, answered>>
        BY <2>1, <2>6 DEF ReadFails, Goto, Inv, TypeOK, Threads
      <3>. QED BY <3>1, GivesUp DEF Waiting
    <2>7. CASE HangUp
      <3>1. pc'["frame"] = pc["frame"] /\ UNCHANGED <<frame, handled, answered>>
        BY <2>1, <2>7 DEF HangUp, Goto, Inv, TypeOK, Threads
      <3>. QED BY <3>1, Stutters DEF Waiting
    <2>8. ASSUME NEW c \in Conns, Serve(c) PROVE [Rpc!Next]_(Rpc!rpcVars)
      BY <2>1, <2>8, ServeImplements
    <2>9. CASE WorkerDies \/ \E c \in Conns : ServeBreaks(c)
      BY <2>9, Stutters DEF WorkerDies, ServeBreaks, callVars, Waiting
    <2>10. CASE ServerDies
      <3>1. Waiting' = Waiting /\ UNCHANGED <<frame, handled, answered>>
        BY <2>10 DEF ServerDies, Alive, Threads, Waiting
      <3>. QED BY <3>1, Stutters
    <2>11. CASE CooldownOver \/ Rest \/ UNCHANGED vars
      BY <2>11, Stutters DEF CooldownOver, Rest, vars, callVars, Waiting
    <2>. QED BY <2>1, <2>2, <2>3, <2>4, <2>5, <2>6, <2>7, <2>8, <2>9, <2>10, <2>11 DEF Next
  <1>. QED BY <1>1, <1>2, IpcInvariant, PTL DEF Spec, ImplementsFrameRpc, Rpc!Spec
-----------------------------------------------------------------------------
(* A call returns although no socket operation has a timeout.  That it     *)
(* does is CallsReturn, which TLC checks; the two facts its argument rests *)
(* on hold for every number of frames, messages and connections.           *)
InACall == \E t \in Threads : ~Returned(t)

(* The first fact: whoever is blocked in recv is owed something.  The end  *)
(* of the stream is there, or the part of the reply it asks for, or the    *)
(* body that serve() will answer, behind chunks serve() can read.          *)
BodyIsLast ==
  fd # Closed /\ toWorker[fd] # <<>>
  /\ toWorker[fd][Len(toWorker[fd])] = Chunk("body", sending["frame"])

ReadersAreOwed ==
  pc["frame"] \in {"readlen", "readjson"} =>
    \/ fd = Closed \/ Gone(fd)
    \/ toClient[fd] # <<>> /\ Head(toClient[fd]).part = ReadPart
    \/ BodyIsLast /\ Head(toWorker[fd]).part = serving[fd]

(* The second: the steps a call has left, of the thread that makes it and  *)
(* of the serve() that reads what it wrote.                                *)
Before(p) ==
  CASE p = "ensure" -> 7
    [] p = "connect" -> 6
    [] p = "len" -> 5
    [] p = "json" -> 4
    [] p = "body" -> 3
    [] p = "readlen" -> 2
    [] p \in {"readjson", "hangup"} -> 1
    [] OTHER -> 0

OnTheWay == IF fd = Closed THEN 0 ELSE Len(toWorker[fd])
StepsLeft == 2 * (Before(pc["frame"]) + Before(pc["control"])) + OnTheWay

CallEnds ==
  InACall =>
    /\ StepsLeft' <= StepsLeft
    /\ (\E t \in Threads : ThreadStep(t)) \/ (\E c \in Conns : c = fd /\ Serve(c))
         => StepsLeft' < StepsLeft

(* A thread that is about to read has its body on the way, unless it was   *)
(* answered or nobody is left to answer it.                                *)
BodyAhead ==
  pc["frame"] = "readlen" /\ fd # Closed /\ ~Gone(fd) /\ toClient[fd] = <<>> => BodyIsLast

(* The last chunk written is the body, if a frame call goes on to read.    *)
LEMMA WriteKeepsBodyAhead ==
  ASSUME Inv, Inv', BodyAhead, NEW t \in Threads, Write(t)
  PROVE  BodyAhead'
  <1>1. SUFFICES ASSUME pc'["frame"] = "readlen", fd' # Closed PROVE BodyIsLast'
    BY DEF BodyAhead
  <1>2. /\ fd' = fd /\ fd \in Conns /\ toWorker[fd] \in Seq(Chunks)
        /\ sending' = sending
        /\ toWorker'[fd] = Append(toWorker[fd], Chunk(pc[t], sending[t]))
    BY <1>1 DEF Write, sockVars, Inv, TypeOK, Conns, Closed
  <1>3. pc[t] \in {"len", "json", "body"} /\ pc' = [pc EXCEPT ![t] = AfterWrite(t)]
    BY DEF Write, Goto
  <1>4. t = "frame" /\ pc[t] = "body"
    <2>1. CASE t = "control"
      <3>1. pc'["frame"] = pc["frame"] /\ pc["control"] \notin Resting
        BY <1>3, <2>1 DEF Threads, Resting, Inv, TypeOK
      <3>. QED BY <1>1, <3>1 DEF Inv, Serial, Resting
    <2>2. CASE t = "frame"
      <3>1. AfterWrite(t) = "readlen"
        BY <1>1, <1>3, <2>2 DEF Threads, Inv, TypeOK
      <3>. QED BY <1>3, <2>2, <3>1 DEF AfterWrite
    <2>. QED BY <2>1, <2>2 DEF Threads
  <1>5. toWorker'[fd] = Append(toWorker[fd], Chunk("body", sending["frame"]))
    BY <1>2, <1>4
  <1>6. \A s \in Seq(Chunks) : \A x : Append(s, x) # <<>> /\ Append(s, x)[Len(Append(s, x))] = x
    OBVIOUS
  <1>. QED BY <1>1, <1>2, <1>5, <1>6 DEF BodyIsLast

(* Only a write of the body lets a frame call read: no other step of a     *)
(* thread does.                                                            *)
LEMMA NoOtherReads ==
  ASSUME Inv, BodyAhead, NEW t \in Threads,
         EnsureConnected(t) \/ Connect(t) \/ ConnectFails(t) \/ WriteFails(t)
  PROVE  BodyAhead'
  <1>1. SUFFICES ASSUME pc'["frame"] = "readlen" PROVE FALSE
    BY DEF BodyAhead
  <1>2. pc[t] \in CallSteps
        /\ \E p \in {"len", "idle", "connect", "hangup"} : pc' = [pc EXCEPT ![t] = p]
    BY DEF EnsureConnected, Connect, ConnectFails, WriteFails, Unfinished, Goto, CallSteps
  <1>3. t = "control" /\ pc["frame"] = "readlen"
    BY <1>1, <1>2 DEF Threads, Inv, TypeOK
  <1>. QED BY <1>2, <1>3 DEF Inv, Serial, Resting, CallSteps

LEMMA LastOfTail ==
  ASSUME NEW s \in Seq(Chunks), s # <<>>, Len(s) # 1
  PROVE  Tail(s) # <<>> /\ Tail(s)[Len(Tail(s))] = s[Len(s)]
  <1> DEFINE t == Tail(s)
  <1>1. /\ t \in Seq(Chunks) /\ Len(t) = Len(s) - 1 /\ Len(s) \in Nat /\ Len(s) # 0
        /\ \A i \in 1..Len(t) : t[i] = s[i + 1]
    OBVIOUS
  <1>. HIDE DEF t
  <1>2. Len(t) \in 1..Len(t) /\ Len(t) + 1 = Len(s)
    BY <1>1
  <1>3. t # <<>> /\ t[Len(t)] = s[Len(s)]
    BY <1>1, <1>2
  <1>. QED BY <1>3 DEF t

(* serve() reads the body last, and then the reply is there.               *)
LEMMA ServeKeepsBodyAhead ==
  ASSUME Inv, BodyAhead, NEW c \in Conns, Serve(c)
  PROVE  BodyAhead'
  <1> DEFINE s == toWorker[c]
  <1>1. /\ s \in Seq(Chunks) /\ s # <<>> /\ Head(s) = s[1]
        /\ pc' = pc /\ fd' = fd /\ sending' = sending
        /\ toWorker' = [toWorker EXCEPT ![c] = Tail(@)]
        /\ toWorker \in [Conns -> Seq(Chunks)] /\ toClient \in [Conns -> Seq(Chunks)]
        /\ serving \in [Conns -> {"none", "len", "json", "body", "gone"}]
    BY DEF Serve, callVars, sockVars, Inv, TypeOK
  <1>2. SUFFICES ASSUME pc["frame"] = "readlen", fd # Closed, ~Gone(fd)', toClient'[fd] = <<>>
                 PROVE  BodyIsLast'
    BY <1>1 DEF BodyAhead
  <1>3. CASE c # fd
    <2>1. toWorker'[fd] = toWorker[fd] /\ serving'[fd] = serving[fd]
          /\ toClient'[fd] = toClient[fd]
      <3>1. fd \in Conns
        BY <1>2 DEF Inv, TypeOK
      <3>. QED BY <1>1, <1>3, <3>1 DEF Serve
    <2>. QED BY <1>1, <1>2, <2>1 DEF BodyAhead, BodyIsLast, Gone
  <1>4. CASE c = fd
    <2>1. CASE Head(s).part = "body"
      <3>1. toClient'[fd] = toClient[fd] \o Reply(Head(s).msg)
        BY <1>1, <1>4, <2>1 DEF Serve
      <3>2. toClient[fd] \in Seq(Chunks) /\ Head(s).msg \in Messages
        <4>1. Head(s) \in Chunks
          BY <1>1
        <4>. QED BY <1>1, <1>4, <4>1 DEF Chunks
      <3>3. Reply(Head(s).msg) \in Seq(Chunks) /\ Len(Reply(Head(s).msg)) = 2
        BY <3>2 DEF Reply, Chunk, Chunks
      <3>4. \A a, b \in Seq(Chunks) : Len(b) = 2 => a \o b # <<>>
        OBVIOUS
      <3>. QED BY <1>2, <3>1, <3>2, <3>3, <3>4
    <2>2. CASE Head(s).part # "body"
      <3>1. toClient'[fd] = toClient[fd] /\ serving[fd] \in Parts
        <4>1. Head(s) \in Chunks /\ Head(s).part = serving[fd]
          BY <1>1, <1>4 DEF Serve
        <4>. QED BY <1>1, <1>4, <2>2, <4>1 DEF Serve, Chunks, Parts
      <3>2. BodyIsLast
        BY <1>2, <3>1 DEF BodyAhead, Gone, Parts
      <3>3. Len(s) # 1
        BY <1>1, <1>4, <2>2, <3>2 DEF BodyIsLast, Chunk
      <3>4. Tail(s) # <<>> /\ Tail(s)[Len(Tail(s))] = s[Len(s)]
        BY <1>1, <3>3, LastOfTail
      <3>5. toWorker'[fd] = Tail(s)
        BY <1>1, <1>4
      <3>. QED BY <1>1, <1>2, <1>4, <3>2, <3>4, <3>5 DEF BodyIsLast
    <2>. QED BY <2>1, <2>2
  <1>. QED BY <1>3, <1>4

(* The other steps move no thread to its read, and take no chunk away.     *)
LEMMA OthersKeepBodyAhead ==
  ASSUME ~Overlap, Inv, BodyAhead,
         \/ CallFrame \/ \E k \in {"attach", "config", "detach"} : CallControl(k)
         \/ Read \/ ReadFails \/ HangUp \/ CooldownOver \/ WorkerDies \/ ServerDies
         \/ (\E t \in Threads : IoError(t)) \/ (\E c \in Conns : ServeBreaks(c))
         \/ UNCHANGED vars
  PROVE  BodyAhead'
  <1>1. SUFFICES ASSUME pc'["frame"] = "readlen", fd' # Closed PROVE BodyAhead'
    BY DEF BodyAhead
  <1>2. CASE CallFrame \/ (\E k \in {"attach", "config", "detach"} : CallControl(k)) \/ HangUp
    <2>1. pc["frame"] = "readlen"
      BY <1>1, <1>2 DEF CallFrame, CallControl, HangUp, Goto, Inv, TypeOK, Threads
    <2>2. HangUp
      BY <1>2, <2>1 DEF CallFrame, CallControl, MayCall, Threads
    <2>. QED BY <2>1, <2>2 DEF HangUp, Inv, Serial, Resting
  <1>3. CASE Read \/ ReadFails \/ ServerDies \/ \E t \in Threads : IoError(t)
    BY <1>1, <1>3 DEF Read, ReadFails, ServerDies, IoError, Disconnect, Goto, Inv, TypeOK, Threads
  <1>4. CASE CooldownOver \/ WorkerDies \/ (\E c \in Conns : ServeBreaks(c)) \/ UNCHANGED vars
    <2>1. UNCHANGED <<pc, fd, sending, toWorker, toClient>>
      BY <1>4 DEF CooldownOver, WorkerDies, ServeBreaks, callVars, sockVars, pipeVars, vars
    <2>2. fd \in Conns
      BY <1>1, <2>1 DEF Inv, TypeOK
    <2>3. Gone(fd) => Gone(fd)'
      <3>1. CASE UNCHANGED serving
        BY <2>1, <3>1 DEF Gone
      <3>2. CASE WorkerDies \/ \E c \in Conns : ServeBreaks(c)
        BY <2>1, <2>2, <3>2 DEF WorkerDies, ServeBreaks, Gone, Inv, TypeOK
      <3>. QED BY <1>4, <3>1, <3>2 DEF CooldownOver, pipeVars, vars
    <2>. QED BY <2>1, <2>3 DEF BodyAhead, BodyIsLast, Gone
  <1>. QED BY <1>2, <1>3, <1>4

(* No recv waits for what nobody sends: whenever a frame call is blocked   *)
(* in readFramed, which has no timeout, the socket is at its end, or holds *)
(* the part of the reply it asks for, or serve() has a chunk to read and   *)
(* the body of this very frame comes behind it.                            *)
THEOREM NobodyWaitsForNothing ==
  ASSUME ~Overlap
  PROVE  Spec => []ReadersAreOwed
  <1>1. Init => BodyAhead
    BY DEF Init, BodyAhead, Threads
  <1>2. Inv /\ Inv' /\ BodyAhead /\ [Next]_vars => BodyAhead'
    <2>1. SUFFICES ASSUME Inv, Inv', BodyAhead, [Next]_vars PROVE BodyAhead'
      OBVIOUS
    <2>2. ASSUME NEW t \in Threads,
                 EnsureConnected(t) \/ Connect(t) \/ ConnectFails(t) \/ Write(t) \/ WriteFails(t)
          PROVE  BodyAhead'
      BY <2>1, <2>2, NoOtherReads, WriteKeepsBodyAhead
    <2>3. ASSUME NEW c \in Conns, Serve(c) PROVE BodyAhead'
      BY <2>1, <2>3, ServeKeepsBodyAhead
    <2>4. CASE \/ CallFrame \/ \E k \in {"attach", "config", "detach"} : CallControl(k)
               \/ Read \/ ReadFails \/ HangUp \/ CooldownOver \/ WorkerDies \/ ServerDies
               \/ (\E t \in Threads : IoError(t)) \/ (\E c \in Conns : ServeBreaks(c))
               \/ UNCHANGED vars
      BY <2>1, <2>4, OthersKeepBodyAhead
    <2>. QED BY <2>1, <2>2, <2>3, <2>4 DEF Next, Rest
  <1>3. Inv /\ BodyAhead => ReadersAreOwed
    <2>1. SUFFICES ASSUME Inv, BodyAhead, pc["frame"] \in {"readlen", "readjson"},
                          fd # Closed, ~Gone(fd),
                          ~(toClient[fd] # <<>> /\ Head(toClient[fd]).part = ReadPart)
                   PROVE  BodyIsLast /\ Head(toWorker[fd]).part = serving[fd]
      BY DEF ReadersAreOwed
    <2>2. toClient[fd] = <<>>
      BY <2>1, RepliesAreAligned
    <2>3. BodyIsLast
      <3>1. pc["frame"] # "readjson"
        BY <2>1, <2>2 DEF Inv, ToClient
      <3>. QED BY <2>1, <2>2, <3>1 DEF BodyAhead
    <2>4. FromClient(fd) /\ toWorker[fd] \in Seq(Chunks) /\ serving[fd] \in Parts
      BY <2>1 DEF Inv, Streams, TypeOK, Sockets, Gone, Parts
    <2>. QED BY <2>3, <2>4, WalkTail DEF FromClient, BodyIsLast
  <1>. QED BY <1>1, <1>2, <1>3, IpcInvariant, PTL DEF Spec

LEMMA StepsAreCounted ==
  /\ \A p : Before(p) \in 0..7
  /\ Before("ensure") = 7 /\ Before("connect") = 6 /\ Before("len") = 5 /\ Before("json") = 4
  /\ Before("body") = 3 /\ Before("readlen") = 2 /\ Before("readjson") = 1
  /\ Before("hangup") = 1 /\ Before("idle") = 0 /\ Before("stopped") = 0 /\ Before("killed") = 0
  BY DEF Before

LEMMA ChunksAreCounted ==
  ASSUME Inv, Inv'
  PROVE  OnTheWay \in Nat /\ OnTheWay' \in Nat /\ StepsLeft \in Nat /\ StepsLeft' \in Nat
  <1>1. OnTheWay \in Nat
    BY DEF Inv, TypeOK, OnTheWay, Closed
  <1>2. OnTheWay' \in Nat
    BY DEF Inv, TypeOK, OnTheWay, Closed
  <1>3. /\ Before(pc["frame"]) \in Nat /\ Before(pc["control"]) \in Nat
        /\ Before(pc'["frame"]) \in Nat /\ Before(pc'["control"]) \in Nat
    BY StepsAreCounted
  <1>. QED BY <1>1, <1>2, <1>3 DEF StepsLeft

(* Steps that move no thread count as many chunks as they take.            *)
LEMMA ReadersStay ==
  ASSUME Inv, Inv', pc' = pc
  PROVE  StepsLeft' - StepsLeft = OnTheWay' - OnTheWay
  <1>1. Before(pc["frame"]) \in Nat /\ Before(pc["control"]) \in Nat
    BY StepsAreCounted
  <1>2. Before(pc'["frame"]) = Before(pc["frame"]) /\ Before(pc'["control"]) = Before(pc["control"])
    OBVIOUS
  <1>. QED BY <1>1, <1>2, ChunksAreCounted DEF StepsLeft

(* A thread on its way to its message is one step nearer to its end; the   *)
(* chunk it may have written counts less.                                  *)
LEMMA ThreadStepsCount ==
  ASSUME Inv, Inv', NEW t \in Threads, ThreadStep(t) \/ IoError(t)
  PROVE  StepsLeft' < StepsLeft
  <1>1. OnTheWay \in Nat /\ OnTheWay' \in Nat
    BY ChunksAreCounted
  <1>2. \E p : pc' = [pc EXCEPT ![t] = p] /\ Before(p) < Before(pc[t])
    <2>1. CASE EnsureConnected(t) \/ Connect(t) \/ ConnectFails(t)
      BY <2>1, StepsAreCounted DEF EnsureConnected, Connect, ConnectFails, Goto
    <2>2. CASE Write(t)
      <3>1. /\ pc[t] \in {"len", "json", "body"} /\ pc' = [pc EXCEPT ![t] = AfterWrite(t)]
            /\ pc[t] = "len" => AfterWrite(t) = "json"
            /\ pc[t] = "json" => AfterWrite(t) \in {"body", "hangup", "idle"}
            /\ pc[t] = "body" => AfterWrite(t) = "readlen"
        BY <2>2 DEF Write, Goto, AfterWrite
      <3>2. Before(AfterWrite(t)) < Before(pc[t])
        BY <3>1, StepsAreCounted
      <3>. QED BY <3>1, <3>2
    <2>3. CASE WriteFails(t)
      <3>1. /\ pc[t] \in {"len", "json", "body"} /\ pc' = [pc EXCEPT ![t] = Unfinished(t)]
            /\ Unfinished(t) \in {"hangup", "idle"}
        BY <2>3 DEF WriteFails, Goto, Unfinished
      <3>2. Before(Unfinished(t)) < Before(pc[t])
        BY <3>1, StepsAreCounted
      <3>. QED BY <3>1, <3>2
    <2>4. CASE t = "frame" /\ (Read \/ ReadFails)
      BY <2>4, StepsAreCounted DEF Read, ReadFails, ReadPart, Goto
    <2>5. CASE t = "control" /\ HangUp
      <3>1. pc[t] = "hangup" /\ pc' = [pc EXCEPT ![t] = "idle"]
        BY <2>5 DEF HangUp, Goto
      <3>2. Before("idle") < Before(pc[t])
        BY <3>1, StepsAreCounted
      <3>. QED BY <3>1, <3>2
    <2>6. CASE IoError(t)
      <3>1. /\ pc[t] \in {"len", "json", "body", "readlen", "readjson"}
            /\ pc' = [pc EXCEPT ![t] = Unfinished(t)] /\ Unfinished(t) \in {"idle", "hangup"}
        BY <2>6 DEF IoError, Goto, Unfinished
      <3>2. Unfinished(t) = "hangup" => pc[t] # "readjson"
        BY <3>1 DEF Unfinished, Inv, Serial, Calls, Threads, ControlPcs, Resting, Message
      <3>3. Before(Unfinished(t)) < Before(pc[t])
        BY <3>1, <3>2, StepsAreCounted
      <3>. QED BY <3>1, <3>3
    <2>. QED BY <2>1, <2>2, <2>3, <2>4, <2>5, <2>6 DEF ThreadStep
  <1>3. OnTheWay' <= OnTheWay + 1
    <2>1. CASE fd' = Closed
      BY <1>1, <2>1 DEF OnTheWay
    <2>2. CASE UNCHANGED <<fd, toWorker>>
      BY <1>1, <2>2 DEF OnTheWay
    <2>3. CASE Write(t)
      <3>1. fd \in Conns /\ fd' = fd /\ fd # Closed /\ toWorker[fd] \in Seq(Chunks)
            /\ toWorker' = [toWorker EXCEPT ![fd] = Append(@, Chunk(pc[t], sending[t]))]
            /\ toWorker \in [Conns -> Seq(Chunks)]
        BY <2>3 DEF Write, Inv, TypeOK, sockVars
      <3>2. toWorker'[fd] = Append(toWorker[fd], Chunk(pc[t], sending[t]))
        BY <3>1
      <3>3. Len(toWorker'[fd]) = Len(toWorker[fd]) + 1
        BY <3>1, <3>2
      <3>. QED BY <3>1, <3>3 DEF OnTheWay
    <2>4. CASE Connect(t)
      <3>1. toWorker' = toWorker /\ fd' \in Conns /\ toWorker[fd'] = <<>>
        BY <2>4 DEF Connect, Inv, TypeOK, Sockets, Conns
      <3>. QED BY <1>1, <3>1 DEF OnTheWay
    <2>. QED BY <2>1, <2>2, <2>3, <2>4 DEF ThreadStep, EnsureConnected, ConnectFails, WriteFails,
            IoError, Read, ReadFails, HangUp, Disconnect, sockVars, pipeVars
  <1>4. CASE t = "frame"
    <2>1. Before(pc'["frame"]) < Before(pc["frame"]) /\ pc'["control"] = pc["control"]
      BY <1>2, <1>4 DEF Threads, Inv, TypeOK
    <2>. QED BY <1>1, <1>3, <2>1, StepsAreCounted DEF StepsLeft
  <1>5. CASE t = "control"
    <2>1. Before(pc'["control"]) < Before(pc["control"]) /\ pc'["frame"] = pc["frame"]
      BY <1>2, <1>5 DEF Threads, Inv, TypeOK
    <2>. QED BY <1>1, <1>3, <2>1, StepsAreCounted DEF StepsLeft
  <1>. QED BY <1>4, <1>5 DEF Threads

(* So does serve() by reading a chunk.                                     *)
LEMMA ServeStepsCount ==
  ASSUME Inv, Inv', NEW c \in Conns, Serve(c)
  PROVE  StepsLeft' <= StepsLeft /\ (c = fd => StepsLeft' < StepsLeft)
  <1>1. OnTheWay \in Nat /\ OnTheWay' \in Nat
    BY ChunksAreCounted
  <1>2. pc' = pc /\ fd' = fd /\ toWorker' = [toWorker EXCEPT ![c] = Tail(@)]
        /\ toWorker \in [Conns -> Seq(Chunks)] /\ toWorker[c] \in Seq(Chunks)
        /\ toWorker[c] # <<>>
    BY DEF Serve, Inv, TypeOK, callVars, sockVars
  <1>3. \A s \in Seq(Chunks) : s # <<>> => Len(Tail(s)) < Len(s)
    OBVIOUS
  <1>4. OnTheWay' <= OnTheWay /\ (c = fd => OnTheWay' < OnTheWay)
    <2>1. CASE c = fd
      <3>1. fd # Closed /\ toWorker'[fd] = Tail(toWorker[c])
        BY <1>2, <2>1 DEF Conns, Closed
      <3>2. Len(Tail(toWorker[c])) < Len(toWorker[c])
        BY <1>2, <1>3
      <3>3. OnTheWay = Len(toWorker[c]) /\ OnTheWay' = Len(Tail(toWorker[c]))
        BY <1>2, <2>1, <3>1 DEF OnTheWay
      <3>. QED BY <1>1, <3>2, <3>3
    <2>2. CASE c # fd
      BY <1>1, <1>2, <2>2 DEF OnTheWay, Inv, TypeOK
    <2>. QED BY <2>1, <2>2
  <1>. QED BY <1>2, <1>4, ReadersStay, ChunksAreCounted

(* Whoever else moves, or dies, does not lengthen it.                      *)
LEMMA OthersDoNotCount ==
  ASSUME Inv, Inv',
         \/ CooldownOver \/ WorkerDies \/ ServerDies \/ UNCHANGED vars
         \/ \E c \in Conns : ServeBreaks(c)
  PROVE  StepsLeft' <= StepsLeft
  <1>1. OnTheWay \in Nat /\ OnTheWay' \in Nat
    BY ChunksAreCounted
  <1>2. CASE ServerDies
    <2>1. OnTheWay' = 0 /\ \A t \in Threads : pc'[t] \in {"stopped", "killed"}
      BY <1>2 DEF ServerDies, OnTheWay
    <2>. QED BY <1>1, <2>1, StepsAreCounted DEF StepsLeft, Threads
  <1>3. CASE CooldownOver \/ WorkerDies \/ (\E c \in Conns : ServeBreaks(c)) \/ UNCHANGED vars
    <2>1. UNCHANGED <<pc, fd, toWorker>>
      BY <1>3 DEF CooldownOver, WorkerDies, ServeBreaks, callVars, sockVars, pipeVars, vars
    <2>2. OnTheWay' = OnTheWay
      BY <2>1 DEF OnTheWay
    <2>. QED BY <2>1, <2>2, ReadersStay, ChunksAreCounted
  <1>. QED BY <1>2, <1>3

(* Every call is finite: each step its thread takes, and each chunk its    *)
(* serve() reads, brings its end nearer, whatever dies or is reconnected   *)
(* meanwhile, and nobody adds to it.                                       *)
THEOREM EveryStepShortensACall ==
  ASSUME ~Overlap
  PROVE  Spec => [][CallEnds]_vars
  <1>1. Inv /\ Inv' /\ [Next]_vars => [CallEnds]_vars
    <2>1. SUFFICES ASSUME Inv, Inv', Next, InACall PROVE CallEnds
      BY DEF CallEnds
    <2>2. /\ StepsLeft' <= StepsLeft
          /\ (\E t \in Threads : ThreadStep(t)) \/ (\E c \in Conns : c = fd /\ Serve(c))
               => StepsLeft' < StepsLeft
      <3>1. ~CallFrame /\ \A k : ~CallControl(k)
        BY <2>1 DEF InACall, Returned, CallFrame, CallControl, MayCall
      <3>2. \/ \E t \in Threads : ThreadStep(t)
            \/ \E c \in Conns : Serve(c)
            \/ CooldownOver \/ WorkerDies \/ ServerDies \/ UNCHANGED vars
            \/ \E c \in Conns : ServeBreaks(c)
            \/ \E t \in Threads : IoError(t)
        BY <2>1, <3>1 DEF Next, ThreadStep, Threads, Rest
      <3>3. StepsLeft \in Int /\ StepsLeft' \in Int
        BY <2>1, ChunksAreCounted
      <3>. QED BY <2>1, <3>2, <3>3, ThreadStepsCount, ServeStepsCount, OthersDoNotCount
    <2>. QED BY <2>2 DEF CallEnds
  <1>. QED BY <1>1, IpcInvariant, PTL DEF Spec
=============================================================================
