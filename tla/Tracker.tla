------------------------------- MODULE Tracker -------------------------------
(***************************************************************************)
(* python/tracker.py: ByteTrackLite, one instance per worker connection.   *)
(* update() is split at its loops so that the greedy matching is what the  *)
(* code does, pick by pick; nothing else can run in between because the    *)
(* connection's thread is the only caller.                                 *)
(*                                                                         *)
(* self._tracks is a list that only grows at the end with the next id and  *)
(* is otherwise only filtered, so it is ordered by id: `tracks` is the     *)
(* function from id to record and "column ti" is the ti-th smallest id.    *)
(***************************************************************************)
EXTENDS Integers

CONSTANTS
  Pos,        \* box positions
  Cls,        \* COCO class ids the detector reports
  Iou,        \* IoU of two positions, in units of 1/100
  IouThr,     \* iou_thr in the same unit
  MaxAges,    \* values the settings page can give max_age
  ModeNames,  \* track_class_match strings a config may carry
  MaxDets,    \* bound: detections per frame
  IdBound     \* bound: ids issued in a behaviour

ASSUME IouAssumption == Iou \in [Pos \X Pos -> Nat]
ASSUME IouThrAssumption == IouThr \in Nat \ {0}
ASSUME MaxAgesAssumption == MaxAges \subseteq Nat
ASSUME BoundsAssumption == MaxDets \in Nat /\ IdBound \in Nat
ASSUME ClsAssumption == Cls \subseteq Nat

Modes == {"strict", "vehicle_group", "any"}
Box == [pos : Pos, cls : Cls]
Track == [pos : Pos, cls : Cls, tsu : Nat]

VARIABLES
  nextId,     \* self._next_id
  tracks,     \* self._tracks: id |-> record
  maxAge,     \* self._max_age
  mode,       \* self._match_mode
  pc,         \* where update() is
  boxes,      \* the detections passed to update()
  iou,        \* the matrix of update(), -1 once masked
  match,      \* det_to_track: the id matched to a detection, 0 for None
  di,         \* index of the loop that creates tracks
  trackId     \* boxes[.]["track_id"], 0 while not set

params == <<maxAge, mode>>
call == <<boxes, iou, match, di, trackId>>
vars == <<nextId, tracks, maxAge, mode, pc, boxes, iou, match, di, trackId>>

Empty == [x \in {} |-> 0]
Live == DOMAIN tracks
Dets == DOMAIN boxes
Taken == {match[d] : d \in Dets} \ {0}

(* _canonical_cls: two classes compare equal under a mode.                 *)
SameFamily(c1, c2, m) ==
  \/ m = "any"
  \/ c1 = c2
  \/ /\ m = "vehicle_group"
     /\ \E family \in {{2, 5, 7}, {1, 3}} : {c1, c2} \subseteq family

(* Mutant of NormalizeMode: an unknown name is taken as it is.             *)
NormalizeModeAsGiven(m) == m

(* _normalize_mode                                                         *)
NormalizeMode(m) == IF m \in Modes THEN m ELSE "vehicle_group"

(* Mutant of Score: the class gate is forgotten.                           *)
ScoreUngated(bs, d, t) == Iou[<<bs[d].pos, tracks[t].pos>>]

(* An entry of the matrix as it is built for the detections bs.            *)
Score(bs, d, t) ==
  IF SameFamily(bs[d].cls, tracks[t].cls, mode)
  THEN Iou[<<bs[d].pos, tracks[t].pos>>]
  ELSE 0

(* Tracks after one tick that re-saw `seen`; tsu is time_since_update.     *)
Ticked(t, seen) == IF t \in seen THEN 0 ELSE tracks[t].tsu + 1

(* Mutant of Survivors: pruned one frame early (>= for >).                 *)
SurvivorsStrict(seen) == {t \in Live : Ticked(t, seen) < maxAge}

Survivors(seen) == {t \in Live : Ticked(t, seen) <= maxAge}

Init ==
  /\ nextId = 1
  /\ tracks = Empty
  /\ maxAge \in MaxAges
  /\ mode \in {NormalizeMode(m) : m \in ModeNames}
  /\ pc = "idle"
  /\ boxes = Empty
  /\ iou = Empty
  /\ match = Empty
  /\ di = 1
  /\ trackId = Empty

-----------------------------------------------------------------------------
(* set_params, called between frames; an absent parameter keeps its value. *)
SetParams ==
  /\ pc = "idle"
  /\ maxAge' \in MaxAges \cup {maxAge}
  /\ mode' \in {NormalizeMode(m) : m \in ModeNames} \cup {mode}
  /\ UNCHANGED <<nextId, tracks, pc, call>>

(* update([]): the fast path, _age_and_prune.                              *)
UpdateEmpty ==
  /\ pc = "idle"
  /\ tracks' = [t \in Survivors({}) |-> [tracks[t] EXCEPT !.tsu = @ + 1]]
  /\ UNCHANGED <<nextId, params, pc, call>>

(* update(bs) is entered: the matrix is built, or every detection will     *)
(* become a track because there is none yet.                               *)
UpdateStart ==
  /\ pc = "idle"
  /\ \E n \in 1..MaxDets :
       /\ nextId + n <= IdBound + 1
       /\ \E bs \in [1..n -> Box] :
            /\ boxes' = bs
            /\ iou' = [p \in (1..n) \X Live |-> Score(bs, p[1], p[2])]
       /\ match' = [d \in 1..n |-> 0]
       /\ trackId' = [d \in 1..n |-> 0]
  /\ pc' = IF Live = {} THEN "create" ELSE "greedy"
  /\ di' = 1
  /\ UNCHANGED <<nextId, tracks, params>>

(* np.argmax: the largest entry, the first one in row-major order.         *)
Before(p, q) == p[1] < q[1] \/ (p[1] = q[1] /\ p[2] < q[2])

(* Mutant of IsArgmax: the first pair that is good enough, not the best.   *)
IsFirstGood(p) ==
  /\ p \in DOMAIN iou
  /\ \A q \in DOMAIN iou \ {p} : iou[q] < IouThr \/ Before(p, q)

IsArgmax(p) ==
  /\ p \in DOMAIN iou
  /\ \A q \in DOMAIN iou \ {p} :
       iou[q] < iou[p] \/ (iou[q] = iou[p] /\ Before(p, q))

(* Mutant of Mask: the column of the matched track is left alone.          *)
MaskRowOnly(p) == [q \in DOMAIN iou |-> IF q[1] = p[1] THEN -1 ELSE iou[q]]

(* The row and the column of a picked pair are overwritten with -1.        *)
Mask(p) ==
  [q \in DOMAIN iou |-> IF q[1] = p[1] \/ q[2] = p[2] THEN -1 ELSE iou[q]]

(* One turn of the greedy loop, with its defensive branch for a pair whose *)
(* detection or track has already been matched.                            *)
Pick ==
  /\ pc = "greedy"
  /\ \E p \in DOMAIN iou :
       /\ IsArgmax(p)
       /\ iou[p] >= IouThr
       /\ LET free == match[p[1]] = 0 /\ p[2] \notin Taken
          IN  /\ match' = IF free THEN [match EXCEPT ![p[1]] = p[2]] ELSE match
              /\ iou' = IF free THEN Mask(p) ELSE [iou EXCEPT ![p] = -1]
  /\ UNCHANGED <<nextId, tracks, params, pc, boxes, di, trackId>>

(* Mutant of AfterFrame: a matched track keeps its old box.                *)
AfterFrameUnmoved(t) ==
  [tracks[t] EXCEPT !.tsu = IF t \in Taken THEN 0 ELSE @ + 1]

(* A live track after the frame: moved onto its detection, or aged.        *)
AfterFrame(t) ==
  IF t \in Taken
  THEN LET d == CHOOSE e \in Dets : match[e] = t
       IN  [pos |-> boxes[d].pos, cls |-> boxes[d].cls, tsu |-> 0]
  ELSE [tracks[t] EXCEPT !.tsu = @ + 1]

(* Mutant of Apply: the loop's break on a low score is missing.            *)
ApplyWhenAllMasked ==
  /\ pc = "greedy"
  /\ \A p \in DOMAIN iou : iou[p] < 0
  /\ tracks' = [t \in Survivors(Taken) |-> AfterFrame(t)]
  /\ trackId' = match
  /\ iou' = Empty
  /\ pc' = "create"
  /\ UNCHANGED <<nextId, params, boxes, match, di>>

(* The loop ends: matches are applied, the other tracks aged and pruned.   *)
Apply ==
  /\ pc = "greedy"
  /\ \A p \in DOMAIN iou : iou[p] < IouThr
  /\ tracks' = [t \in Survivors(Taken) |-> AfterFrame(t)]
  /\ trackId' = match
  /\ iou' = Empty
  /\ pc' = "create"
  /\ UNCHANGED <<nextId, params, boxes, match, di>>

(* Mutant of Create: the smallest id that is not live is issued.           *)
CreateSmallestFree ==
  /\ pc = "create"
  /\ di \in Dets
  /\ match[di] = 0
  /\ \E id \in (1..nextId) \ Live :
       /\ \A i \in 1..(id - 1) : i \in Live
       /\ tracks' = [t \in Live \cup {id} |->
                       IF t = id
                       THEN [pos |-> boxes[di].pos, cls |-> boxes[di].cls, tsu |-> 0]
                       ELSE tracks[t]]
       /\ trackId' = [trackId EXCEPT ![di] = id]
       /\ nextId' = IF id = nextId THEN nextId + 1 ELSE nextId
  /\ di' = di + 1
  /\ UNCHANGED <<params, pc, boxes, iou, match>>

(* One turn of the last loop: an unmatched detection becomes a track.      *)
Create ==
  /\ pc = "create"
  /\ di \in Dets
  /\ match[di] = 0
  /\ tracks' = [t \in Live \cup {nextId} |->
                  IF t = nextId
                  THEN [pos |-> boxes[di].pos, cls |-> boxes[di].cls, tsu |-> 0]
                  ELSE tracks[t]]
  /\ trackId' = [trackId EXCEPT ![di] = nextId]
  /\ nextId' = nextId + 1
  /\ di' = di + 1
  /\ UNCHANGED <<params, pc, boxes, iou, match>>

SkipMatched ==
  /\ pc = "create"
  /\ di \in Dets
  /\ match[di] # 0
  /\ di' = di + 1
  /\ UNCHANGED <<nextId, tracks, params, pc, boxes, iou, match, trackId>>

(* update returns; its locals are gone.                                    *)
Return ==
  /\ pc = "create"
  /\ di \notin Dets
  /\ pc' = "idle"
  /\ boxes' = Empty /\ match' = Empty /\ trackId' = Empty
  /\ di' = 1
  /\ UNCHANGED <<nextId, tracks, params, iou>>

Next ==
  \/ SetParams
  \/ UpdateEmpty
  \/ UpdateStart
  \/ Pick
  \/ Apply
  \/ Create
  \/ SkipMatched
  \/ Return

(* update() is straight-line Python on one thread: once entered, it runs.  *)
Spec == /\ Init /\ [][Next]_vars
        /\ WF_vars(Pick) /\ WF_vars(Apply)
        /\ WF_vars(Create) /\ WF_vars(SkipMatched) /\ WF_vars(Return)

-----------------------------------------------------------------------------
TypeOK ==
  /\ nextId \in Nat \ {0}
  /\ Live \subseteq 1..(nextId - 1)
  /\ tracks \in [Live -> Track]
  /\ maxAge \in MaxAges
  /\ mode \in Modes
  /\ pc \in {"idle", "greedy", "create"}
  /\ \E n \in 0..MaxDets :
       /\ boxes \in [1..n -> Box]
       /\ match \in [1..n -> Nat]
       /\ trackId \in [1..n -> Nat]
       /\ di \in 1..(n + 1)
  /\ iou \in [IF pc = "greedy" THEN Dets \X Live ELSE {} -> Int]

(* The "shouldn't happen" branch of the greedy loop never runs: an entry   *)
(* the loop can still pick belongs to a free detection and a free track.   *)
DefensiveBranchDead ==
  pc = "greedy" =>
    \A p \in DOMAIN iou :
      iou[p] >= IouThr => match[p[1]] = 0 /\ p[2] \notin Taken

(* When the greedy loop ends, a pair that was good enough and was not      *)
(* matched lost its detection or its track to a pair at least as good: no  *)
(* detection is left to become a new id beside a better-placed track.      *)
NoBlockingPair ==
  pc = "greedy" /\ (\A p \in DOMAIN iou : iou[p] < IouThr) =>
    \A d \in Dets, t \in Live :
      Score(boxes, d, t) >= IouThr =>
        \E e \in Dets :
          /\ match[e] # 0
          /\ e = d \/ match[e] = t
          /\ Score(boxes, e, match[e]) >= Score(boxes, d, t)

(* When update() returns, every box it was given has an id >= 1, no two    *)
(* boxes share one, and the track of that id stands where the box is.      *)
ReturnedIds ==
  pc = "create" /\ di \notin Dets =>
    /\ \A d \in Dets :
         /\ trackId[d] \in Live
         /\ tracks[trackId[d]] =
              [pos |-> boxes[d].pos, cls |-> boxes[d].cls, tsu |-> 0]
    /\ \A d, e \in Dets : trackId[d] = trackId[e] => d = e

(* A track changes its class only inside its family (module docstring):    *)
(* a car may become a truck, never a person, unless the mode is "any".     *)
FamilyKept ==
  [][\A t \in Live \cap DOMAIN tracks' :
       SameFamily(tracks[t].cls, tracks'[t].cls, mode)]_vars

(* An id that was issued and is no longer live never comes back, however   *)
(* many objects come and go: an event is never continued by another object.*)
NoIdReissued ==
  [][\A t \in 1..(nextId - 1) : t \notin Live => t \notin DOMAIN tracks']_vars

(* The "while True" of the greedy loop, and with it update(), ends.        *)
UpdateReturns == pc # "idle" ~> pc = "idle"

(* What TrackIds sees of a tracker state.                                  *)
Age == [t \in Live |-> tracks[t].tsu]
Frame == {trackId[d] : d \in Dets} \ {0}
Ids == INSTANCE TrackIds WITH age <- Age, frame <- Frame

(* ByteTrackLite issues, ages and prunes ids as TrackIds promises.         *)
ImplementsTrackIds == Ids!Spec
=============================================================================
