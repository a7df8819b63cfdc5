----------------------------- MODULE IpcClient ------------------------------
(***************************************************************************)
(* One camera's IpcClient, its Unix stream sockets and the serve() thread  *)
(* at the other end of each.  Messages travel in the chunks the code       *)
(* writes and reads: a length, a JSON text and, for a frame, a body; a     *)
(* call is the sequence of socket operations it makes, each of which reads *)
(* m_fd again.  The class has no lock: a frame call and a control call     *)
(* (attach, config, detach) interleave if Overlap lets them.               *)
(***************************************************************************)
EXTENDS Integers, Sequences, FiniteSets

CONSTANTS
  Overlap,      \* may two threads be inside the client together?
  MaxFrames,    \* bound: calls of sendFrameAndRecv
  MaxControls,  \* bound: control messages
  MaxConns      \* bound: connections that succeed

ASSUME OverlapAssumption == Overlap \in BOOLEAN
ASSUME BoundsAssumption ==
  MaxFrames \in Nat /\ MaxControls \in Nat /\ MaxConns \in Nat

Threads == {"frame", "control"}
Conns == 1..MaxConns
Closed == 0     \* m_fd = -1

VARIABLES
  pc,           \* thread |-> where it is in its call
  sending,      \* thread |-> the message of its call
  fd,           \* m_fd: a connection, or Closed
  used,         \* connections made so far
  open,         \* connections whose client end is not closed
  cooling,      \* now < m_nextConnectAttempt
  toWorker,     \* connection |-> chunks written and not read
  toClient,     \* connection |-> the same, of the replies
  serving,      \* connection |-> the chunk its serve() waits for
  frame,        \* the last frame a call was made for
  handled,      \* history: frame |-> how often serve() handled it
  answered,     \* history: the frame of the last reply returned
  controls      \* control messages so far

callVars == <<pc, sending, frame, controls>>
sockVars == <<fd, used, open, cooling>>
pipeVars == <<toWorker, toClient, serving>>
vars == <<pc, sending, fd, used, open, cooling, toWorker, toClient, serving,
          frame, handled, answered, controls>>

Message(k, n) == [kind |-> k, id |-> n]
NoMessage == Message("none", 0)
Chunk(p, m) == [part |-> p, msg |-> m]

Init ==
  /\ pc = [t \in Threads |-> "idle"]
  /\ sending = [t \in Threads |-> NoMessage]
  /\ fd = Closed /\ used = 0 /\ open = {} /\ cooling = FALSE
  /\ toWorker = [c \in Conns |-> <<>>]
  /\ toClient = [c \in Conns |-> <<>>]
  /\ serving = [c \in Conns |-> "none"]
  /\ frame = 0 /\ handled = [n \in 1..MaxFrames |-> 0] /\ answered = 0 /\ controls = 0

Goto(t, where) == pc' = [pc EXCEPT ![t] = where]

-----------------------------------------------------------------------------
(* A call begins.  The constructor attaches before there are frames, and   *)
(* the destructor detaches after the last one.                             *)
MayCall(t) ==
  /\ pc[t] = "idle"
  /\ sending["control"].kind # "detach"
  /\ Overlap \/ \A s \in Threads : pc[s] = "idle"

Constructed ==
  controls > 0 /\ (sending["control"].kind = "attach" => pc["control"] = "idle")

CallFrame ==
  /\ MayCall("frame") /\ Constructed
  /\ frame < MaxFrames
  /\ frame' = frame + 1
  /\ sending' = [sending EXCEPT !["frame"] = Message("frame", frame')]
  /\ Goto("frame", "ensure")
  /\ UNCHANGED <<sockVars, pipeVars, handled, answered, controls>>

CallControl(k) ==
  /\ MayCall("control")
  /\ controls < MaxControls
  /\ k = "attach" <=> controls = 0
  /\ k = "detach" => pc["frame"] = "idle"
  /\ controls' = controls + 1
  /\ sending' = [sending EXCEPT !["control"] = Message(k, controls')]
  /\ Goto("control",
       IF k # "detach" THEN "ensure" ELSE IF fd = Closed THEN "hangup" ELSE "len")
  /\ UNCHANGED <<sockVars, pipeVars, frame, handled, answered>>

-----------------------------------------------------------------------------
(* ensureConnected.                                                        *)
EnsureConnected(t) ==
  /\ pc[t] = "ensure"
  /\ Goto(t, IF fd # Closed THEN "len" ELSE IF cooling THEN "idle" ELSE "connect")
  /\ UNCHANGED <<sending, sockVars, pipeVars, frame, handled, answered, controls>>

Connect(t) ==
  /\ pc[t] = "connect"
  /\ used < MaxConns
  /\ used' = used + 1
  /\ fd' = used' /\ open' = open \cup {used'}
  /\ serving' = [serving EXCEPT ![used'] = "len"]
  /\ Goto(t, "len")
  /\ UNCHANGED <<sending, cooling, toWorker, toClient, frame, handled, answered,
                 controls>>

ConnectFails(t) ==
  /\ pc[t] = "connect"
  /\ cooling' = TRUE
  /\ Goto(t, "idle")
  /\ UNCHANGED <<sending, fd, used, open, pipeVars, frame, handled, answered,
                 controls>>

CooldownOver ==
  /\ cooling
  /\ cooling' = FALSE
  /\ UNCHANGED <<callVars, fd, used, open, pipeVars, handled, answered>>

(* Mutant of Disconnect: ::close is forgotten.                             *)
DisconnectUnclosed == fd' = Closed /\ UNCHANGED open

Disconnect == fd' = Closed /\ open' = open \ {fd}
Gone(c) == serving[c] = "gone"

(* Mutant of AfterWrite: the body of a frame is not sent.                  *)
AfterWriteBodyless(t) ==
  CASE pc[t] = "len" -> "json"
    [] pc[t] = "json" /\ t = "frame" -> "readlen"
    [] pc[t] = "json" /\ sending[t].kind = "detach" -> "hangup"
    [] OTHER -> "idle"

(* What follows the chunk a thread has just written.                       *)
AfterWrite(t) ==
  CASE pc[t] = "len" -> "json"
    [] pc[t] = "json" /\ t = "frame" -> "body"
    [] pc[t] = "json" /\ sending[t].kind = "detach" -> "hangup"
    [] pc[t] = "body" -> "readlen"
    [] OTHER -> "idle"

Unfinished(t) == IF sending[t].kind = "detach" THEN "hangup" ELSE "idle"

Write(t) ==
  /\ pc[t] \in {"len", "json", "body"}
  /\ fd # Closed /\ ~Gone(fd)
  /\ toWorker' = [toWorker EXCEPT ![fd] = Append(@, Chunk(pc[t], sending[t]))]
  /\ Goto(t, AfterWrite(t))
  /\ UNCHANGED <<sending, sockVars, toClient, serving, frame, handled, answered,
                 controls>>

WriteFails(t) ==
  /\ pc[t] \in {"len", "json", "body"}
  /\ \/ fd = Closed /\ UNCHANGED <<fd, open>>
     \/ fd # Closed /\ Gone(fd) /\ Disconnect
  /\ Goto(t, Unfinished(t))
  /\ UNCHANGED <<sending, used, cooling, pipeVars, frame, handled, answered,
                 controls>>

(* readFramed: a length, then the JSON text, each from what m_fd is then.  *)
(* A text that is no JSON is no answer, and the connection stays.          *)
ReadPart == IF pc["frame"] = "readlen" THEN "len" ELSE "json"

Read ==
  /\ pc["frame"] \in {"readlen", "readjson"}
  /\ fd # Closed /\ toClient[fd] # <<>>
  /\ Head(toClient[fd]).part = ReadPart
  /\ toClient' = [toClient EXCEPT ![fd] = Tail(@)]
  /\ IF ReadPart = "len"
       THEN Goto("frame", "readjson") /\ UNCHANGED answered
       ELSE Goto("frame", "idle") /\ answered' \in {Head(toClient[fd]).msg.id, answered}
  /\ UNCHANGED <<sending, sockVars, toWorker, serving, frame, handled, controls>>

(* Mutant of ReadFails: recv has a timeout, which keeps the connection.    *)
ReadTimesOut ==
  /\ pc["frame"] \in {"readlen", "readjson"}
  /\ Goto("frame", "idle")
  /\ UNCHANGED <<sending, sockVars, pipeVars, frame, handled, answered, controls>>

(* End of file, a reset that may overtake replies, or a bad length.        *)
ReadFails ==
  /\ pc["frame"] \in {"readlen", "readjson"}
  /\ \/ fd = Closed /\ UNCHANGED <<fd, open>>
     \/ fd # Closed /\ Gone(fd) /\ Disconnect
     \/ fd # Closed /\ toClient[fd] # <<>> /\ Disconnect
        /\ Head(toClient[fd]).part # ReadPart
  /\ Goto("frame", "idle")
  /\ UNCHANGED <<sending, used, cooling, pipeVars, frame, handled, answered,
                 controls>>

(* send or recv fails for another reason while serve() is there.           *)
IoError(t) ==
  /\ pc[t] \in {"len", "json", "body", "readlen", "readjson"}
  /\ fd # Closed /\ Disconnect
  /\ Goto(t, Unfinished(t))
  /\ UNCHANGED <<sending, used, cooling, pipeVars, frame, handled, answered,
                 controls>>

(* The end of sendDetach.                                                  *)
HangUp ==
  /\ pc["control"] = "hangup"
  /\ IF fd = Closed THEN UNCHANGED <<fd, open>> ELSE Disconnect
  /\ Goto("control", "idle")
  /\ UNCHANGED <<sending, used, cooling, pipeVars, frame, handled, answered,
                 controls>>

-----------------------------------------------------------------------------

(* Mutant of AfterRead: serve() forgets that a body follows.               *)
AfterReadBodyless(chunk) ==
  CASE chunk.part = "len" -> "json"
    [] chunk.part = "json" /\ chunk.msg.kind = "detach" -> "gone"
    [] OTHER -> "len"

(* serve() of connection c.                                                *)
AfterRead(chunk) ==
  CASE chunk.part = "len" -> "json"
    [] chunk.part = "json" /\ chunk.msg.kind = "frame" -> "body"
    [] chunk.part = "json" /\ chunk.msg.kind = "detach" -> "gone"
    [] OTHER -> "len"

(* Mutant of Reply: serve() answers with its count of frames plus one.     *)
ReplyOffByOne(m) ==
  <<Chunk("len", m), Chunk("json", Message(m.kind, m.id + 1))>>

Reply(m) == <<Chunk("len", m), Chunk("json", m)>>

Serve(c) ==
  /\ toWorker[c] # <<>> /\ Head(toWorker[c]).part = serving[c]
  /\ LET chunk == Head(toWorker[c]) IN
     IF chunk.part # "body"
       THEN /\ serving' = [serving EXCEPT ![c] = AfterRead(chunk)]
            /\ UNCHANGED <<toClient, handled>>
       ELSE /\ handled' = [handled EXCEPT ![chunk.msg.id] = @ + 1]
            /\ toClient' = [toClient EXCEPT ![c] = @ \o Reply(chunk.msg)]
            /\ serving' = [serving EXCEPT
                 ![c] = IF c \in open THEN AfterRead(chunk) ELSE "gone"]
  /\ toWorker' = [toWorker EXCEPT ![c] = Tail(@)]
  /\ UNCHANGED <<callVars, sockVars, answered>>

(* recv_exact finds the end of the stream, or a chunk of another kind      *)
(* where a length, a text or a body should be.                             *)
ServeBreaks(c) ==
  /\ serving[c] \in {"len", "json", "body"}
  /\ IF toWorker[c] = <<>> THEN c \notin open
                           ELSE Head(toWorker[c]).part # serving[c]
  /\ serving' = [serving EXCEPT ![c] = "gone"]
  /\ UNCHANGED <<callVars, sockVars, toWorker, toClient, handled, answered>>

(* The worker is killed.                                                   *)
WorkerDies ==
  /\ \E c \in Conns : serving[c] \in {"len", "json", "body"}
  /\ serving' = [c \in Conns |-> IF serving[c] = "none" THEN "none" ELSE "gone"]
  /\ UNCHANGED <<callVars, sockVars, toWorker, toClient, handled, answered>>

(* The media server is killed: its sockets are closed, whatever was in     *)
(* progress, and this client makes no further call.                        *)
Alive == \A t \in Threads : pc[t] \notin {"stopped", "killed"}
ServerDies ==
  /\ Alive
  /\ pc' = [t \in Threads |-> IF pc[t] = "idle" THEN "stopped" ELSE "killed"]
  /\ fd' = Closed /\ open' = {} /\ cooling' = FALSE
  /\ UNCHANGED <<sending, used, pipeVars, frame, handled, answered, controls>>

(* Between calls the client may rest for good.                             *)
Returned(t) == pc[t] \in {"idle", "stopped", "killed"}
Rest ==
  /\ \A t \in Threads : Returned(t)
  /\ UNCHANGED vars

ThreadStep(t) ==
  \/ EnsureConnected(t) \/ Connect(t) \/ ConnectFails(t)
  \/ Write(t) \/ WriteFails(t)
  \/ t = "frame" /\ (Read \/ ReadFails)
  \/ t = "control" /\ HangUp

Next ==
  \/ CallFrame
  \/ \E k \in {"attach", "config", "detach"} : CallControl(k)
  \/ \E t \in Threads :
       \/ EnsureConnected(t)
       \/ Connect(t)
       \/ ConnectFails(t)
       \/ Write(t)
       \/ WriteFails(t)
       \/ IoError(t)
  \/ Read
  \/ ReadFails
  \/ HangUp
  \/ CooldownOver
  \/ \E c \in Conns : Serve(c) \/ ServeBreaks(c)
  \/ WorkerDies
  \/ ServerDies
  \/ Rest

(* The operating system runs the threads, and infer() returns.  Nothing    *)
(* has to go wrong: an IoError is no step that is owed to anybody.         *)
Fairness ==
  /\ \A t \in Threads : WF_vars(ThreadStep(t))
  /\ \A c \in Conns : WF_vars(Serve(c) \/ ServeBreaks(c))

Spec == Init /\ [][Next]_vars /\ Fairness

-----------------------------------------------------------------------------
Messages == [kind : {"none", "frame", "attach", "config", "detach"}, id : Nat]
Chunks == [part : {"len", "json", "body"}, msg : Messages]

TypeOK ==
  /\ pc \in [Threads -> {"idle", "ensure", "connect", "len", "json", "body",
                         "readlen", "readjson", "hangup", "stopped", "killed"}]
  /\ sending \in [Threads -> Messages]
  /\ fd \in Conns \cup {Closed} /\ used \in 0..MaxConns
  /\ open \subseteq Conns /\ cooling \in BOOLEAN
  /\ toWorker \in [Conns -> Seq(Chunks)] /\ toClient \in [Conns -> Seq(Chunks)]
  /\ serving \in [Conns -> {"none", "len", "json", "body", "gone"}]
  /\ frame \in 0..MaxFrames /\ answered \in 0..frame
  /\ handled \in [1..MaxFrames -> Nat]
  /\ controls \in 0..MaxControls

(* "The JSON header of a frame carries { w, h, stride, ... } so the peer   *)
(* knows exactly how many body bytes follow the header" (ipc_client.h):    *)
(* every reader of a stream finds the chunk it is about to read.           *)
Aligned ==
  /\ \A c \in Conns :
       serving[c] \in {"len", "json", "body"} /\ toWorker[c] # <<>> =>
         Head(toWorker[c]).part = serving[c]
  /\ pc["frame"] \in {"readlen", "readjson"} /\ fd # Closed =>
       toClient[fd] = <<>> \/ Head(toClient[fd]).part = ReadPart

(* "Any I/O error closes the fd" (ipc_client.h): the client end of every   *)
(* connection but the current one is closed, over all reconnects.          *)
NoLeakedSocket == open = IF fd = Closed THEN {} ELSE {fd}

(* A call returns although nothing in it has a timeout: whoever dies, the  *)
(* other end of the socket finds out.                                      *)
CallsReturn == \A t \in Threads : ~Returned(t) ~> Returned(t)

Rpc == INSTANCE FrameRpc WITH
         Frames <- 1..MaxFrames, asked <- frame, waiting <- pc["frame"] \notin {"idle", "stopped"}

(* Replies carry an id that nobody compares; the frame calls are still a   *)
(* FrameRpc, because a connection is not used any more once a call has     *)
(* left its answer in it.                                                  *)
ImplementsFrameRpc == Rpc!Spec
=============================================================================
