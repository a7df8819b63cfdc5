------------------------------ MODULE Identity ------------------------------
(***************************************************************************)
(* How an object keeps one identity from the worker to NX: the tracker of  *)
(* a connection names it by an integer (TrackIds, which Tracker            *)
(* implements), the reply carries the frame's integers, and the plugin's   *)
(* frame thread turns them into UUIDs one box after the other (TrackUuids).*)
(* A new connection starts a new tracker; the plugin's cache stays.        *)
(***************************************************************************)
EXTENDS TrackUuids, FiniteSets

CONSTANTS
  MaxAges,     \* values the settings page can give max_age
  IdBound,     \* bound: ids a tracker issues
  MaxBoxes,    \* bound: boxes per frame
  MaxConns,    \* bound: connections
  UuidBound    \* bound: UUIDs made

ASSUME MaxAgesAssumption == MaxAges \subseteq Nat
ASSUME BoundsAssumption == IdBound \in Nat /\ MaxConns \in Nat \ {0}

VARIABLES
  nextId, age, maxAge, frame,   \* the connection's tracker
  conn,        \* which connection this is
  phase,       \* who has the frame: "camera", "worker" or "plugin"
  pending,     \* ids of the reply the plugin has not resolved yet
  shown,       \* history: UUID |-> the tracks it was shown for
  around,      \* history: tracks live at some moment of this frame
  crowded      \* history: some frame had more than Cap tracks around

worker == <<nextId, age, maxAge, frame>>
vars == <<lru, index, made, nextId, age, maxAge, frame,
          conn, phase, pending, shown, around, crowded>>

W == INSTANCE TrackIds

TrackOf(tid) == <<conn, tid>>

Init ==
  /\ CacheInit
  /\ W!Init
  /\ conn = 1
  /\ phase = "camera"
  /\ pending = {}
  /\ around = {}
  /\ shown = [u \in {} |-> {}]
  /\ crowded = FALSE

(* The worker handles a frame: re-seen ids, then ids for the other boxes.  *)
WorkerSees ==
  /\ phase = "camera"
  /\ made + MaxBoxes <= UuidBound
  /\ W!Resight
  /\ Cardinality(frame') <= MaxBoxes
  /\ phase' = "worker"
  /\ around' = W!Live
  /\ UNCHANGED <<cache, conn, pending, shown, crowded>>

WorkerIssues ==
  /\ phase = "worker"
  /\ nextId <= IdBound
  /\ Cardinality(frame) < MaxBoxes
  /\ W!Issue
  /\ around' = around \cup {nextId}
  /\ UNCHANGED <<cache, conn, phase, pending, shown, crowded>>

WorkerReconfigures ==
  /\ phase = "camera"
  /\ W!SetMaxAge
  /\ UNCHANGED <<cache, conn, phase, pending, shown, around, crowded>>

(* Mutant of Reply: every live track is reported, seen or not.             *)
ReplyAllLive ==
  /\ phase = "worker"
  /\ phase' = "plugin"
  /\ pending' = W!Live
  /\ crowded' = (crowded \/ Cardinality(around) > Cap)
  /\ UNCHANGED <<cache, worker, conn, shown, around>>

(* send_msg: the reply reaches sendFrameAndRecv.                           *)
Reply ==
  /\ phase = "worker"
  /\ phase' = "plugin"
  /\ pending' = frame
  /\ crowded' = (crowded \/ Cardinality(around) > Cap)
  /\ UNCHANGED <<cache, worker, conn, shown, around>>

(* One turn of the loop over boxes in pushUncompressedVideoFrame.          *)
ResolveBox ==
  /\ phase = "plugin"
  /\ \E tid \in pending :
       /\ Resolve(tid)
       /\ pending' = pending \ {tid}
       /\ shown' = [u \in DOMAIN shown \cup {Answer(tid)} |->
                      IF u # Answer(tid) THEN shown[u]
                      ELSE {TrackOf(tid)} \cup
                           (IF u \in DOMAIN shown THEN shown[u] ELSE {})]
  /\ UNCHANGED <<worker, conn, phase, around, crowded>>

(* The metadata packet is pushed; the next frame may be sent.              *)
Emit ==
  /\ phase = "plugin"
  /\ pending = {}
  /\ phase' = "camera"
  /\ W!Done
  /\ UNCHANGED <<cache, conn, pending, shown, around, crowded>>

(* An I/O error before the reply is in: the connection is gone and the     *)
(* next one is served by a new tracker; the cache is not cleared.          *)
Reconnect ==
  /\ phase # "plugin"
  /\ phase' = "camera"
  /\ conn < MaxConns
  /\ conn' = conn + 1
  /\ nextId' = 1
  /\ age' = [i \in {} |-> 0]
  /\ maxAge' \in MaxAges
  /\ frame' = {} /\ around' = {}
  /\ UNCHANGED <<cache, pending, shown, crowded>>

Next ==
  \/ WorkerSees
  \/ WorkerIssues
  \/ WorkerReconfigures
  \/ Reply
  \/ ResolveBox
  \/ Emit
  \/ Reconnect

Spec == Init /\ [][Next]_vars

-----------------------------------------------------------------------------
TypeOK ==
  /\ CacheTypeOK
  /\ nextId \in 1..(IdBound + 1)
  /\ maxAge \in MaxAges
  /\ W!Live \subseteq 1..(nextId - 1)
  /\ conn \in 1..MaxConns
  /\ phase \in {"camera", "worker", "plugin"}
  /\ pending \subseteq IF phase = "plugin" THEN frame ELSE {}
  /\ frame \subseteq W!Live
  /\ shown \in [1..made -> SUBSET (Nat \X Nat)]
  /\ crowded \in BOOLEAN

(* The cache forgets a track the worker still follows only when more than  *)
(* Cap tracks were around in one frame: whatever was used more recently    *)
(* than a live track is live too, or died in this very frame.              *)
EvictedAreDead ==
  [][\A t \in Cached \ DOMAIN index' :
       /\ t \in W!Live
       /\ TrackOf(t) \in shown[index[t]]
       => Cardinality(around) > Cap]_vars

(* NX sees one UUID per track, for as long as no frame had more than Cap   *)
(* tracks around it: a track is never split into two events.               *)
OneUuidPerTrack ==
  ~crowded =>
    \A u, v \in DOMAIN shown : shown[u] \cap shown[v] # {} => u = v

(* Within a connection no two tracks are shown under one UUID.             *)
NoMergeInConnection ==
  \A u \in DOMAIN shown : \A s, t \in shown[u] : s[1] = t[1] => s = t

(* A UUID is shown for one track only (device_agent.h: "we hand NX a       *)
(* stable UUID for the same int so Desktop Client can render a continuous  *)
(* track").                                                                *)
OneTrackPerUuid ==
  \A u \in DOMAIN shown : \A s, t \in shown[u] : s = t
=============================================================================
