---------------------------- MODULE TrackerProofs ----------------------------
(***************************************************************************)
(* Proofs about Tracker for any scene, any IoU table and any bounds.       *)
(***************************************************************************)
EXTENDS Tracker, FiniteOrder, TLAPS

(* While the matrix is scanned: matches are a partial injection into the   *)
(* live tracks, within a family; an entry is masked exactly when its row   *)
(* or column is taken, and then by a pair that scored at least as much.    *)
Blocked(d, t) ==
  \E e \in Dets :
    /\ match[e] # 0
    /\ e = d \/ match[e] = t
    /\ Score(boxes, e, match[e]) >= Score(boxes, d, t)

MatchOK ==
  /\ \A d \in Dets : match[d] \in Live \cup {0}
  /\ \A d, e \in Dets : match[d] = match[e] /\ match[d] # 0 => d = e
  /\ \A d \in Dets :
       match[d] # 0 =>
         SameFamily(boxes[d].cls, tracks[match[d]].cls, mode)

MatrixOK ==
  /\ DOMAIN iou = Dets \X Live
  /\ \A d \in Dets, t \in Live :
       \/ /\ match[d] = 0 /\ t \notin Taken
          /\ iou[<<d, t>>] = Score(boxes, d, t)
       \/ /\ match[d] # 0 \/ t \in Taken
          /\ iou[<<d, t>>] = -1
          /\ Blocked(d, t)

(* While tracks are created: the ids given so far are distinct and live,   *)
(* and their tracks stand on their boxes.                                  *)
IdsGiven ==
  /\ \A d \in Dets : trackId[d] # 0 =>
       /\ trackId[d] \in Live
       /\ tracks[trackId[d]] =
            [pos |-> boxes[d].pos, cls |-> boxes[d].cls, tsu |-> 0]
  /\ \A d, e \in Dets : trackId[d] = trackId[e] /\ trackId[d] # 0 => d = e
  /\ \A d \in Dets : match[d] # 0 => trackId[d] = match[d]
  /\ \A d \in Dets : match[d] = 0 /\ d >= di => trackId[d] = 0
  /\ \A d \in Dets : d < di => trackId[d] # 0

IInv ==
  /\ TypeOK
  /\ pc = "idle" => boxes = Empty /\ trackId = Empty /\ di = 1
  /\ pc = "greedy" =>
       MatchOK /\ MatrixOK /\ di = 1 /\ \A d \in Dets : trackId[d] = 0
  /\ pc = "create" => IdsGiven

-----------------------------------------------------------------------------
(* A score of the current boxes is a natural number.                       *)
LEMMA ScoreNat ==
  ASSUME TypeOK, NEW d \in Dets, NEW t \in Live
  PROVE  Score(boxes, d, t) \in Nat
  <1>1. boxes[d] \in Box /\ tracks[t] \in Track
    BY DEF TypeOK, Dets, Live
  <1>2. <<boxes[d].pos, tracks[t].pos>> \in Pos \X Pos
    BY <1>1 DEF Box, Track
  <1>3. Iou[<<boxes[d].pos, tracks[t].pos>>] \in Nat
    BY <1>2, IouAssumption
  <1>. QED BY <1>3 DEF Score

(* A track is a track after it has aged by a frame.                        *)
LEMMA AgedTrack ==
  ASSUME TypeOK, NEW t \in Live
  PROVE  /\ [tracks[t] EXCEPT !.tsu = @ + 1] \in Track
         /\ [tracks[t] EXCEPT !.tsu = @ + 1].tsu = tracks[t].tsu + 1
  <1>1. tracks[t] \in Track
    BY DEF TypeOK, Live
  <1>. QED BY <1>1 DEF Track

(* A score of any list of boxes is an integer.                             *)
LEMMA ScoresType ==
  ASSUME TypeOK, NEW n \in Nat, NEW bs \in [1..n -> Box],
         NEW d \in 1..n, NEW t \in Live
  PROVE  Score(bs, d, t) \in Int
  <1>1. bs[d] \in Box /\ tracks[t] \in Track
    BY DEF TypeOK, Live
  <1>2. <<bs[d].pos, tracks[t].pos>> \in Pos \X Pos
    BY <1>1 DEF Box, Track
  <1>3. Iou[<<bs[d].pos, tracks[t].pos>>] \in Nat
    BY <1>2, IouAssumption
  <1>. QED BY <1>3 DEF Score

(* There is no call and no track at first.                                 *)
LEMMA InitIInv == Init => IInv
  <1> SUFFICES ASSUME Init PROVE IInv
    OBVIOUS
  <1>1. TypeOK
    <2>1. Dets = 1..0 /\ Live = {}
      BY DEF Init, Empty, Dets, Live
    <2>2. mode \in Modes
      BY DEF Init, NormalizeMode, Modes
    <2>3. /\ boxes \in [1..0 -> Box]
          /\ match \in [1..0 -> Nat]
          /\ trackId \in [1..0 -> Nat]
          /\ iou \in [{} -> Int]
      BY <2>1 DEF Init, Empty
    <2>4. tracks \in [Live -> Track]
      BY DEF Init, Empty, Live
    <2>5. 0 \in 0..MaxDets /\ di \in 1..(0 + 1)
      BY BoundsAssumption DEF Init
    <2>. QED BY <2>1, <2>2, <2>3, <2>4, <2>5 DEF Init, TypeOK
  <1>. QED BY <1>1 DEF Init, IInv

(* Every step of update() and set_params keeps the types.                  *)
LEMMA StepTypeOK == TypeOK /\ [Next]_vars => TypeOK'
  <1> SUFFICES ASSUME TypeOK, [Next]_vars PROVE TypeOK'
    OBVIOUS
  <1>1. CASE SetParams
    BY <1>1 DEF SetParams, TypeOK, call, Live, Dets, NormalizeMode, Modes
  <1>2. CASE UpdateEmpty
    <2>1. /\ Live' = Survivors({})
          /\ \A t \in Live' : tracks'[t] = [tracks[t] EXCEPT !.tsu = @ + 1]
      BY <1>2 DEF UpdateEmpty, Live
    <2>2. Live' \subseteq Live
      BY <2>1 DEF Survivors
    <2>3. tracks' \in [Live' -> Track]
      BY <1>2, <2>1, <2>2, AgedTrack DEF UpdateEmpty
    <2>. QED BY <1>2, <2>2, <2>3
             DEF UpdateEmpty, TypeOK, params, call, Dets
  <1>3. CASE UpdateStart
    <2>1. PICK n \in 1..MaxDets :
            /\ \E bs \in [1..n -> Box] :
                 /\ boxes' = bs
                 /\ iou' = [p \in (1..n) \X Live |-> Score(bs, p[1], p[2])]
            /\ match' = [d \in 1..n |-> 0]
            /\ trackId' = [d \in 1..n |-> 0]
      BY <1>3 DEF UpdateStart
    <2>2. n \in 0..MaxDets /\ 1 \in 1..(n + 1)
      BY BoundsAssumption
    <2>3. /\ boxes' \in [1..n -> Box]
          /\ match' \in [1..n -> Nat]
          /\ trackId' \in [1..n -> Nat]
          /\ Dets' = 1..n
      BY <2>1 DEF Dets
    <2>4. iou' \in [(1..n) \X Live -> Int]
      BY <2>1, <2>2, ScoresType
    <2>5. iou' \in [IF pc' = "greedy" THEN Dets' \X Live' ELSE {} -> Int]
      BY <1>3, <2>3, <2>4 DEF UpdateStart, Live
    <2>. QED BY <1>3, <2>2, <2>3, <2>5
              DEF UpdateStart, TypeOK, params, Live
  <1>4. CASE Pick
    <2>1. PICK p \in DOMAIN iou :
            LET free == match[p[1]] = 0 /\ p[2] \notin Taken
            IN  /\ match' = IF free THEN [match EXCEPT ![p[1]] = p[2]] ELSE match
                /\ iou' = IF free THEN Mask(p) ELSE [iou EXCEPT ![p] = -1]
      BY <1>4 DEF Pick
    <2>2. DOMAIN iou = Dets \X Live /\ iou \in [Dets \X Live -> Int]
      BY <1>4 DEF Pick, TypeOK
    <2>3. p[2] \in Live /\ Live \subseteq Nat
      BY <2>2 DEF TypeOK
    <2>4. iou' \in [Dets \X Live -> Int]
      BY <2>1, <2>2 DEF Mask
    <2>5. \A S : match \in [S -> Nat] => match' \in [S -> Nat]
      BY <2>1, <2>3
    <2>. QED BY <1>4, <2>4, <2>5 DEF Pick, TypeOK, params, Live, Dets
  <1>5. CASE Apply
    <2>1. Live' \subseteq Live /\ Live' = Survivors(Taken)
      BY <1>5 DEF Apply, Live, Survivors
    <2>2. \A t \in Live : AfterFrame(t) \in Track
      <3> SUFFICES ASSUME NEW t \in Live PROVE AfterFrame(t) \in Track
        OBVIOUS
      <3>1. CASE t \in Taken
        <4>1. \E e \in Dets : match[e] = t
          BY <3>1 DEF Taken
        <4>2. (CHOOSE e \in Dets : match[e] = t) \in Dets
          BY <4>1
        <4>. QED BY <3>1, <4>2 DEF AfterFrame, TypeOK, Dets, Box, Track
      <3>2. CASE t \notin Taken
        BY <3>2, AgedTrack DEF AfterFrame
      <3>. QED BY <3>1, <3>2
    <2>3. tracks' \in [Live' -> Track]
      BY <1>5, <2>1, <2>2 DEF Apply
    <2>4. iou' \in [{} -> Int]
      BY <1>5 DEF Apply, Empty
    <2>. QED BY <1>5, <2>1, <2>3, <2>4 DEF Apply, TypeOK, params, Dets
  <1>6. CASE Create
    <2>1. /\ Live' = Live \cup {nextId}
          /\ nextId' = nextId + 1
      BY <1>6 DEF Create, Live
    <2>2. boxes[di] \in Box
      BY <1>6 DEF Create, TypeOK, Dets
    <2>3. tracks' \in [Live' -> Track]
      BY <1>6, <2>1, <2>2 DEF Create, TypeOK, Box, Track
    <2>4. PICK n \in 0..MaxDets :
            /\ boxes \in [1..n -> Box]
            /\ match \in [1..n -> Nat]
            /\ trackId \in [1..n -> Nat]
            /\ di \in 1..(n + 1)
      BY DEF TypeOK
    <2>5. trackId' \in [1..n -> Nat] /\ di' \in 1..(n + 1)
      BY <1>6, <2>4, BoundsAssumption DEF Create, TypeOK, Dets
    <2>6. nextId' \in Nat \ {0} /\ Live' \subseteq 1..(nextId' - 1)
      BY <2>1 DEF TypeOK
    <2>. QED BY <1>6, <2>3, <2>4, <2>5, <2>6 DEF Create, TypeOK, params
  <1>7. CASE SkipMatched
    <2>1. \A n \in Nat : boxes \in [1..n -> Box] /\ di \in 1..(n + 1)
                         => di' \in 1..(n + 1)
      BY <1>7 DEF SkipMatched, Dets
    <2>. QED BY <1>7, <2>1, BoundsAssumption
             DEF SkipMatched, TypeOK, params, Live, Dets
  <1>8. CASE Return
    <2>1. /\ boxes' \in [1..0 -> Box]
          /\ match' \in [1..0 -> Nat]
          /\ trackId' \in [1..0 -> Nat]
          /\ di' \in 1..(0 + 1)
          /\ 0 \in 0..MaxDets
      BY <1>8, BoundsAssumption DEF Return, Empty
    <2>. QED BY <1>8, <2>1 DEF Return, TypeOK, params, Live, Dets
  <1>9. CASE UNCHANGED vars
    BY <1>9 DEF vars, TypeOK, Live, Dets
  <1>. QED
    BY <1>1, <1>2, <1>3, <1>4, <1>5, <1>6, <1>7, <1>8, <1>9 DEF Next

-----------------------------------------------------------------------------
(* What an enabled pick knows: the pair is free, in one family, and scores *)
(* at least as much as every pair that is still open.                      *)
LEMMA PickedPair ==
  ASSUME IInv, Pick
  PROVE  \E d \in Dets, t \in Live :
           /\ match[d] = 0 /\ t \notin Taken
           /\ SameFamily(boxes[d].cls, tracks[t].cls, mode)
           /\ \A e \in Dets, u \in Live : match[e] = 0 /\ u \notin Taken =>
                Score(boxes, e, u) <= Score(boxes, d, t)
           /\ match' = [match EXCEPT ![d] = t]
           /\ iou' = Mask(<<d, t>>)
  <1>1. PICK p \in DOMAIN iou :
          /\ IsArgmax(p)
          /\ iou[p] >= IouThr
          /\ LET free == match[p[1]] = 0 /\ p[2] \notin Taken
             IN  /\ match' = IF free THEN [match EXCEPT ![p[1]] = p[2]] ELSE match
                 /\ iou' = IF free THEN Mask(p) ELSE [iou EXCEPT ![p] = -1]
    BY DEF Pick
  <1>2. /\ DOMAIN iou = Dets \X Live
        /\ MatrixOK
        /\ iou \in [Dets \X Live -> Int]
    BY DEF IInv, Pick, MatrixOK, TypeOK
  <1>3. PICK d \in Dets, t \in Live : p = <<d, t>>
    BY <1>2
  <1>4. iou[<<d, t>>] # -1
    BY <1>1, <1>3, IouThrAssumption
  <1>5. /\ match[d] = 0 /\ t \notin Taken
        /\ iou[<<d, t>>] = Score(boxes, d, t)
    BY <1>2, <1>4 DEF MatrixOK
  <1>6. SameFamily(boxes[d].cls, tracks[t].cls, mode)
    <2>1. Score(boxes, d, t) # 0
      BY <1>1, <1>3, <1>5, IouThrAssumption
    <2>. QED BY <2>1 DEF Score
  <1>7. ASSUME NEW e \in Dets, NEW u \in Live, match[e] = 0, u \notin Taken
        PROVE  Score(boxes, e, u) <= Score(boxes, d, t)
    <2>1. iou[<<e, u>>] = Score(boxes, e, u) /\ <<e, u>> \in DOMAIN iou
      BY <1>2, <1>7 DEF MatrixOK
    <2>2. iou[<<e, u>>] <= iou[<<d, t>>]
      BY <1>1, <1>2, <1>3, <2>1 DEF IsArgmax
    <2>. QED BY <1>5, <2>1, <2>2
  <1>8. match' = [match EXCEPT ![d] = t] /\ iou' = Mask(<<d, t>>)
    BY <1>1, <1>3, <1>5
  <1>. QED BY <1>5, <1>6, <1>7, <1>8

(* A turn of the greedy loop: the pair it takes is masked, and beats all   *)
(* pairs that it masks.                                                    *)
LEMMA PickKeeps ==
  ASSUME IInv, Pick
  PROVE  MatchOK' /\ MatrixOK'
  <1>1. PICK d \in Dets, t \in Live :
          /\ match[d] = 0 /\ t \notin Taken
          /\ SameFamily(boxes[d].cls, tracks[t].cls, mode)
          /\ \A e \in Dets, u \in Live : match[e] = 0 /\ u \notin Taken =>
               Score(boxes, e, u) <= Score(boxes, d, t)
          /\ match' = [match EXCEPT ![d] = t]
          /\ iou' = Mask(<<d, t>>)
    BY PickedPair
  <1>2. /\ MatchOK /\ MatrixOK /\ TypeOK
        /\ DOMAIN iou = Dets \X Live
        /\ DOMAIN match = Dets
    BY DEF IInv, Pick, MatrixOK, TypeOK, Dets
  <1>3. Dets' = Dets /\ Live' = Live
    BY DEF Pick, Dets, Live
  <1>4. \A e \in Dets, u \in Live : Score(boxes, e, u)' = Score(boxes, e, u)
    BY DEF Pick, Score, params
  <1>5. t # 0
    BY <1>2 DEF TypeOK
  <1>6. match'[d] = t /\ \A e \in Dets \ {d} : match'[e] = match[e]
    BY <1>1, <1>2
  <1>7. Taken' = Taken \cup {t}
    BY <1>1, <1>3, <1>5, <1>6 DEF Taken
  <1>8. MatchOK'
    <2>1. \A e \in Dets : match'[e] \in Live \cup {0}
      BY <1>2, <1>6 DEF MatchOK
    <2>2. \A e, f \in Dets : match'[e] = match'[f] /\ match'[e] # 0 => e = f
      BY <1>1, <1>2, <1>6 DEF MatchOK, Taken
    <2>3. \A e \in Dets : match'[e] # 0 =>
            SameFamily(boxes[e].cls, tracks[match'[e]].cls, mode)
      BY <1>1, <1>2, <1>6 DEF MatchOK
    <2>. QED BY <1>3, <2>1, <2>2, <2>3 DEF MatchOK, Pick, params
  <1>9. ASSUME NEW e \in Dets, NEW u \in Live
        PROVE  \/ /\ match'[e] = 0 /\ u \notin Taken'
                  /\ iou'[<<e, u>>] = Score(boxes, e, u)
               \/ /\ match'[e] # 0 \/ u \in Taken'
                  /\ iou'[<<e, u>>] = -1
                  /\ Blocked(e, u)'
    <2>1. iou'[<<e, u>>] = IF e = d \/ u = t THEN -1 ELSE iou[<<e, u>>]
      BY <1>1, <1>2 DEF Mask
    <2>2. Blocked(e, u) => Blocked(e, u)'
      <3> SUFFICES ASSUME NEW f \in Dets,
                          match[f] # 0, f = e \/ match[f] = u,
                          Score(boxes, f, match[f]) >= Score(boxes, e, u)
                   PROVE  Blocked(e, u)'
        BY DEF Blocked
      <3>1. f # d /\ match'[f] = match[f] /\ match[f] \in Live
        BY <1>1, <1>2, <1>6 DEF MatchOK
      <3>2. Score(boxes, f, match[f])' = Score(boxes, f, match[f])
        BY <1>4, <3>1 DEF Pick, Score, params
      <3>. QED BY <1>3, <1>4, <3>1, <3>2 DEF Blocked
    <2>3. CASE match[e] = 0 /\ u \notin Taken /\ (e = d \/ u = t)
      <3>1. Score(boxes, d, t) >= Score(boxes, e, u)
        BY <1>1, <1>2, <2>3, ScoreNat
      <3>2. match'[d] = t /\ Score(boxes, d, match[d])' = Score(boxes, d, t)
        BY <1>4, <1>6 DEF Pick, Score, params
      <3>3. Blocked(e, u)'
        BY <1>3, <1>4, <1>5, <2>3, <3>1, <3>2 DEF Blocked
      <3>. QED BY <1>5, <1>6, <1>7, <2>1, <2>3, <3>3
    <2>4. CASE match[e] = 0 /\ u \notin Taken /\ e # d /\ u # t
      BY <1>2, <1>6, <1>7, <2>1, <2>4 DEF MatrixOK
    <2>5. CASE match[e] # 0 \/ u \in Taken
      BY <1>1, <1>2, <1>5, <1>6, <1>7, <2>1, <2>2, <2>5 DEF MatrixOK
    <2>. QED BY <2>3, <2>4, <2>5
  <1>10. DOMAIN iou' = Dets \X Live
    BY <1>1, <1>2 DEF Mask
  <1>11. MatrixOK'
    BY <1>3, <1>4, <1>9, <1>10 DEF MatrixOK
  <1>. QED BY <1>8, <1>11

(* The tracks after a matched frame: the ones re-seen stand on their boxes,*)
(* and all of those survive.                                               *)
LEMMA AppliedTracks ==
  ASSUME IInv, Apply
  PROVE  /\ Live' = Survivors(Taken)
         /\ \A d \in Dets : match[d] # 0 =>
              /\ match[d] \in Live'
              /\ tracks'[match[d]] =
                   [pos |-> boxes[d].pos, cls |-> boxes[d].cls, tsu |-> 0]
         /\ \A t \in Live' \ Taken :
              tracks'[t] = [tracks[t] EXCEPT !.tsu = @ + 1]
  <1>1. MatchOK /\ TypeOK
    BY DEF IInv, Apply
  <1>2. /\ Live' = Survivors(Taken)
        /\ \A t \in Live' : tracks'[t] = AfterFrame(t)
    BY DEF Apply, Live
  <1>3. ASSUME NEW d \in Dets, match[d] # 0
        PROVE  /\ match[d] \in Live'
               /\ tracks'[match[d]] =
                    [pos |-> boxes[d].pos, cls |-> boxes[d].cls, tsu |-> 0]
    <2>1. match[d] \in Taken /\ match[d] \in Live
      BY <1>1, <1>3 DEF MatchOK, Taken
    <2>2. maxAge >= 0
      BY <1>1, MaxAgesAssumption DEF TypeOK
    <2>3. match[d] \in Live'
      BY <1>2, <2>1, <2>2 DEF Survivors, Ticked
    <2>4. (CHOOSE e \in Dets : match[e] = match[d]) = d
      BY <1>1, <1>3 DEF MatchOK
    <2>. QED BY <1>2, <2>1, <2>3, <2>4 DEF AfterFrame
  <1>4. \A t \in Live' \ Taken : tracks'[t] = [tracks[t] EXCEPT !.tsu = @ + 1]
    BY <1>2 DEF AfterFrame
  <1>. QED BY <1>2, <1>3, <1>4

(* The end of the loop: matched boxes have the ids of their tracks.        *)
LEMMA ApplyKeeps ==
  ASSUME IInv, Apply
  PROVE  IdsGiven'
  <1>1. /\ MatchOK /\ TypeOK /\ di = 1
        /\ trackId' = match /\ match' = match /\ boxes' = boxes
        /\ di' = di /\ Dets' = Dets
    BY DEF IInv, Apply, Dets
  <1>2. Dets \subseteq Nat \ {0}
    BY <1>1 DEF TypeOK, Dets
  <1>3. \A d \in Dets : match[d] # 0 =>
          /\ match[d] \in Live'
          /\ tracks'[match[d]] =
               [pos |-> boxes[d].pos, cls |-> boxes[d].cls, tsu |-> 0]
    BY AppliedTracks
  <1>. QED BY <1>1, <1>2, <1>3 DEF IdsGiven, MatchOK

(* A box without a track gets the next id.                                 *)
LEMMA CreateKeeps ==
  ASSUME IInv, Create
  PROVE  IdsGiven'
  <1>1. TypeOK /\ IdsGiven /\ di \in Dets /\ match[di] = 0
    BY DEF IInv, Create
  <1>2. Dets \subseteq Nat /\ di \in Nat
    BY <1>1 DEF TypeOK, Dets
  <1>3. trackId[di] = 0
    BY <1>1, <1>2 DEF IdsGiven
  <1>4. Dets' = Dets /\ boxes' = boxes /\ match' = match /\ di' = di + 1
    BY DEF Create, Dets
  <1>5. nextId # 0 /\ nextId \notin Live /\ Live' = Live \cup {nextId}
    BY <1>1 DEF TypeOK, Create, Live
  <1>6. /\ trackId'[di] = nextId
        /\ \A d \in Dets \ {di} : trackId'[d] = trackId[d]
    BY <1>1 DEF Create, TypeOK, Dets
  <1>7. /\ tracks'[nextId] =
             [pos |-> boxes[di].pos, cls |-> boxes[di].cls, tsu |-> 0]
        /\ \A t \in Live : tracks'[t] = tracks[t]
    BY <1>5 DEF Create, Live
  <1>8. ASSUME NEW d \in Dets, trackId'[d] # 0
        PROVE  /\ trackId'[d] \in Live'
               /\ tracks'[trackId'[d]] =
                    [pos |-> boxes[d].pos, cls |-> boxes[d].cls, tsu |-> 0]
    <2>1. CASE d = di
      BY <1>5, <1>6, <1>7, <2>1
    <2>2. CASE d # di
      <3>1. /\ trackId[d] \in Live
            /\ tracks[trackId[d]] = [pos |-> boxes[d].pos, cls |-> boxes[d].cls, tsu |-> 0]
        BY <1>1, <1>6, <1>8, <2>2 DEF IdsGiven
      <3>. QED BY <1>5, <1>6, <1>7, <2>2, <3>1
    <2>. QED BY <2>1, <2>2
  <1>9. ASSUME NEW d \in Dets, NEW e \in Dets,
               trackId'[d] = trackId'[e], trackId'[d] # 0
        PROVE  d = e
    <2>1. ASSUME NEW f \in Dets \ {di} PROVE trackId'[f] # nextId
      <3>1. trackId[f] = 0 \/ trackId[f] \in Live
        BY <1>1 DEF IdsGiven
      <3>. QED BY <1>5, <1>6, <3>1
    <2>2. CASE d # di /\ e # di
      BY <1>1, <1>6, <1>9, <2>2 DEF IdsGiven
    <2>. QED BY <1>6, <1>9, <2>1, <2>2
  <1>10. \A d \in Dets : match[d] # 0 => trackId'[d] = match[d]
    BY <1>1, <1>6 DEF IdsGiven
  <1>11. \A d \in Dets : match[d] = 0 /\ d >= di + 1 => trackId'[d] = 0
    BY <1>1, <1>2, <1>6 DEF IdsGiven
  <1>12. \A d \in Dets : d < di + 1 => trackId'[d] # 0
    BY <1>1, <1>2, <1>5, <1>6 DEF IdsGiven
  <1>. QED BY <1>4, <1>8, <1>9, <1>10, <1>11, <1>12 DEF IdsGiven

(* A box with a track keeps the id it has.                                 *)
LEMMA SkipKeeps ==
  ASSUME IInv, SkipMatched
  PROVE  IdsGiven'
  <1>1. TypeOK /\ IdsGiven /\ di \in Dets /\ match[di] # 0
    BY DEF IInv, SkipMatched
  <1>2. Dets \subseteq Nat /\ di \in Nat
    BY <1>1 DEF TypeOK, Dets
  <1>3. \A d \in Dets : d < di + 1 => trackId[d] # 0
    BY <1>1, <1>2 DEF IdsGiven
  <1>4. /\ Dets' = Dets /\ Live' = Live /\ tracks' = tracks
        /\ boxes' = boxes /\ match' = match /\ trackId' = trackId
        /\ di' = di + 1
    BY DEF SkipMatched, Dets, Live
  <1>5. \A d \in Dets : match[d] = 0 /\ d >= di + 1 => trackId[d] = 0
    BY <1>1, <1>2 DEF IdsGiven
  <1>. QED BY <1>1, <1>3, <1>4, <1>5 DEF IdsGiven

(* A call begins with a fresh matrix and no ids given.                     *)
LEMMA StartKeeps ==
  ASSUME IInv, UpdateStart
  PROVE  /\ di' = 1 /\ \A d \in Dets' : trackId'[d] = 0
         /\ pc' = "greedy" => MatchOK' /\ MatrixOK'
         /\ pc' = "create" => IdsGiven'
  <1>1. PICK n \in 1..MaxDets :
          /\ \E bs \in [1..n -> Box] :
               /\ boxes' = bs
               /\ iou' = [p \in (1..n) \X Live |-> Score(bs, p[1], p[2])]
          /\ match' = [d \in 1..n |-> 0]
          /\ trackId' = [d \in 1..n |-> 0]
    BY DEF UpdateStart
  <1>2. Dets' = 1..n /\ Live' = Live /\ Taken' = {} /\ di' = 1
    BY <1>1 DEF UpdateStart, Dets, Live, Taken
  <1>3. \A d \in 1..n : match'[d] = 0 /\ trackId'[d] = 0
    BY <1>1
  <1>4. iou' = [p \in (1..n) \X Live |-> Score(boxes', p[1], p[2])]
    BY <1>1
  <1>5. \A bs, d, t : Score(bs, d, t)' = Score(bs', d, t)
    BY DEF UpdateStart, Score, params
  <1>6. \A d \in 1..n, t \in Live : iou'[<<d, t>>] = Score(boxes', d, t)
    BY <1>4
  <1>7. \A d \in 1..n, t \in Live : Score(boxes, d, t)' = Score(boxes', d, t)
    BY DEF UpdateStart, Score, params
  <1>8. MatchOK'
    BY <1>2, <1>3 DEF MatchOK
  <1>9. MatrixOK'
    BY <1>2, <1>3, <1>4, <1>6, <1>7 DEF MatrixOK
  <1>10. IdsGiven'
    BY <1>1, <1>2, <1>3 DEF IdsGiven
  <1>. QED BY <1>2, <1>3, <1>8, <1>9, <1>10

(* One step for each action.                                               *)
LEMMA StepIInv == IInv /\ [Next]_vars => IInv'
  <1> SUFFICES ASSUME IInv, [Next]_vars PROVE IInv'
    OBVIOUS
  <1>1. TypeOK'
    BY StepTypeOK DEF IInv
  <1>2. CASE SetParams
    BY <1>1, <1>2 DEF SetParams, IInv, call
  <1>3. CASE UpdateEmpty
    BY <1>1, <1>3 DEF UpdateEmpty, IInv, call
  <1>4. CASE UpdateStart
    <2>1. pc' # "idle"
      BY <1>4 DEF UpdateStart
    <2>. QED BY <1>1, <1>4, <2>1, StartKeeps DEF IInv
  <1>5. CASE Pick
    <2>1. /\ pc' = "greedy" /\ di' = di /\ trackId' = trackId
          /\ Dets' = Dets /\ pc = "greedy"
      BY <1>5 DEF Pick, Dets
    <2>. QED BY <1>1, <1>5, <2>1, PickKeeps DEF IInv
  <1>6. CASE Apply
    <2>1. pc' = "create"
      BY <1>6 DEF Apply
    <2>. QED BY <1>1, <1>6, <2>1, ApplyKeeps DEF IInv
  <1>7. CASE Create
    <2>1. pc' = "create"
      BY <1>7 DEF Create
    <2>. QED BY <1>1, <1>7, <2>1, CreateKeeps DEF IInv
  <1>8. CASE SkipMatched
    <2>1. pc' = "create"
      BY <1>8 DEF SkipMatched
    <2>. QED BY <1>1, <1>8, <2>1, SkipKeeps DEF IInv
  <1>9. CASE Return
    BY <1>1, <1>9 DEF Return, IInv
  <1>10. CASE UNCHANGED vars
    BY <1>1, <1>10
    DEF vars, IInv, IdsGiven, MatchOK, MatrixOK, Blocked, Score, Taken, Live, Dets
  <1>. QED
    BY <1>2, <1>3, <1>4, <1>5, <1>6, <1>7, <1>8, <1>9, <1>10 DEF Next

(* The inductive invariant holds of every execution of the tracker.        *)
THEOREM TrackerInvariant == Spec => []IInv
  BY InitIInv, StepIInv, PTL DEF Spec

(* Every variable of the tracker keeps its type; in particular every live  *)
(* id has been issued by this tracker.                                     *)
THEOREM TrackerTypeOK == Spec => []TypeOK
  <1>1. IInv => TypeOK
    BY DEF IInv
  <1>. QED BY <1>1, TrackerInvariant, PTL

(* The greedy loop's defensive branch is dead code for every frame.        *)
THEOREM DefensiveBranchNeverRuns == Spec => []DefensiveBranchDead
  <1>1. IInv => DefensiveBranchDead
    <2> SUFFICES ASSUME IInv, pc = "greedy", NEW p \in DOMAIN iou,
                        iou[p] >= IouThr
                 PROVE  match[p[1]] = 0 /\ p[2] \notin Taken
      BY DEF DefensiveBranchDead
    <2>1. MatrixOK
      BY DEF IInv
    <2>2. PICK d \in Dets, t \in Live : p = <<d, t>>
      BY <2>1 DEF MatrixOK
    <2>3. iou[<<d, t>>] # -1
      BY <2>2, IouThrAssumption
    <2>. QED BY <2>1, <2>2, <2>3 DEF MatrixOK
  <1>. QED BY <1>1, TrackerInvariant, PTL

(* Greedy matching leaves no blocking pair, for any IoU table.             *)
THEOREM GreedyIsStable == Spec => []NoBlockingPair
  <1>1. IInv => NoBlockingPair
    <2> SUFFICES ASSUME IInv, pc = "greedy",
                        \A p \in DOMAIN iou : iou[p] < IouThr,
                        NEW d \in Dets, NEW t \in Live,
                        Score(boxes, d, t) >= IouThr
                 PROVE  Blocked(d, t)
      BY DEF NoBlockingPair, Blocked
    <2>1. MatrixOK /\ TypeOK
      BY DEF IInv
    <2>2. iou[<<d, t>>] < IouThr
      BY <2>1 DEF MatrixOK
    <2>3. Score(boxes, d, t) \in Nat
      BY <2>1, ScoreNat
    <2>4. iou[<<d, t>>] # Score(boxes, d, t)
      BY <2>2, <2>3, IouThrAssumption
    <2>. QED BY <2>1, <2>4 DEF MatrixOK
  <1>. QED BY <1>1, TrackerInvariant, PTL

(* Every frame is returned with one live id per box, all different.        *)
THEOREM EveryBoxGetsItsId == Spec => []ReturnedIds
  <1>1. IInv => ReturnedIds
    <2> SUFFICES ASSUME IInv, pc = "create", di \notin Dets PROVE ReturnedIds
      BY DEF ReturnedIds
    <2>1. IdsGiven /\ TypeOK
      BY DEF IInv
    <2>2. \A d \in Dets : d < di
      BY <2>1 DEF TypeOK, Dets
    <2>3. \A d \in Dets : trackId[d] # 0
      BY <2>1, <2>2 DEF IdsGiven
    <2>. QED BY <2>1, <2>3 DEF IdsGiven, ReturnedIds
  <1>. QED BY <1>1, TrackerInvariant, PTL

-----------------------------------------------------------------------------
(* How a step changes the live ids and their classes.                      *)
LEMMA StepTracks ==
  ASSUME IInv, [Next]_vars
  PROVE  /\ \A t \in 1..(nextId - 1) : t \notin Live => t \notin Live'
         /\ \A t \in Live \cap Live' :
              SameFamily(tracks[t].cls, tracks'[t].cls, mode)
  <1>1. TypeOK
    BY DEF IInv
  <1>2. CASE UpdateEmpty
    <2>1. Live' = Survivors({}) /\ Live' \subseteq Live
      BY <1>2 DEF UpdateEmpty, Live, Survivors
    <2>2. \A t \in Live' : tracks'[t] = [tracks[t] EXCEPT !.tsu = @ + 1]
      BY <1>2, <2>1 DEF UpdateEmpty
    <2>3. ASSUME NEW t \in Live' PROVE tracks'[t].cls = tracks[t].cls
      <3>1. tracks[t] \in Track /\ tracks'[t] = [tracks[t] EXCEPT !.tsu = @ + 1]
        BY <1>1, <2>1, <2>2 DEF TypeOK
      <3>. QED BY <3>1 DEF Track
    <2>. QED BY <2>1, <2>3 DEF SameFamily
  <1>3. CASE Apply
    <2>1. Live' \subseteq Live
      BY <1>3, AppliedTracks DEF Survivors
    <2>2. ASSUME NEW t \in Live' \cap Taken
          PROVE  SameFamily(tracks[t].cls, tracks'[t].cls, mode)
      <3>1. PICK d \in Dets : match[d] = t /\ match[d] # 0
        BY DEF Taken
      <3>2. SameFamily(boxes[d].cls, tracks[t].cls, mode)
        BY <1>3, <3>1 DEF IInv, Apply, MatchOK
      <3>3. tracks'[match[d]] =
              [pos |-> boxes[d].pos, cls |-> boxes[d].cls, tsu |-> 0]
        BY <1>3, <3>1, AppliedTracks
      <3>4. tracks'[t].cls = boxes[d].cls
        BY <3>1, <3>3
      <3>. QED BY <3>2, <3>4 DEF SameFamily
    <2>3. ASSUME NEW t \in Live' \ Taken
          PROVE  SameFamily(tracks[t].cls, tracks'[t].cls, mode)
      <3>1. tracks'[t] = [tracks[t] EXCEPT !.tsu = @ + 1] /\ t \in Live
        BY <1>3, <2>1, AppliedTracks
      <3>2. tracks'[t].cls = tracks[t].cls
        BY <1>1, <3>1 DEF TypeOK, Track
      <3>. QED BY <3>2 DEF SameFamily
    <2>. QED BY <2>1, <2>2, <2>3
  <1>4. CASE Create
    <2>1. Live' = Live \cup {nextId} /\ \A t \in Live : nextId # t
      BY <1>1, <1>4 DEF Create, Live, TypeOK
    <2>2. \A t \in Live : tracks'[t] = tracks[t]
      BY <1>4, <2>1 DEF Create
    <2>3. nextId \notin 1..(nextId - 1)
      BY <1>1 DEF TypeOK
    <2>4. \A t \in Live \cap Live' : tracks'[t].cls = tracks[t].cls
      BY <2>2
    <2>. QED BY <2>1, <2>3, <2>4 DEF SameFamily
  <1>5. CASE UNCHANGED tracks
    BY <1>5 DEF Live, SameFamily
  <1>. QED BY <1>2, <1>3, <1>4, <1>5 DEF
         Next, SetParams, UpdateStart, Pick, SkipMatched, Return, vars

(* A track stays in its class family, for every mode and every scene.      *)
THEOREM TracksKeepTheirFamily == Spec => FamilyKept
  <1>1. IInv /\ [Next]_vars =>
          [\A t \in Live \cap DOMAIN tracks' :
             SameFamily(tracks[t].cls, tracks'[t].cls, mode)]_vars
    BY StepTracks DEF Live
  <1>. QED BY <1>1, TrackerInvariant, PTL DEF Spec, FamilyKept

(* An id that died stays dead.                                             *)
THEOREM DeadIdsStayDead == Spec => NoIdReissued
  <1>1. IInv /\ [Next]_vars =>
          [\A t \in 1..(nextId - 1) :
             t \notin Live => t \notin DOMAIN tracks']_vars
    BY StepTracks DEF Live
  <1>. QED BY <1>1, TrackerInvariant, PTL DEF Spec, NoIdReissued

-----------------------------------------------------------------------------
(* The pruning of the list is the ageing of TrackIds.                      *)
LEMMA AgedIsSurvivors ==
  ASSUME NEW S, TypeOK,
         Live' = Survivors(S),
         \A t \in Live' : tracks'[t].tsu = Ticked(t, S)
  PROVE  Age' = Ids!Aged(S, maxAge)
  <1>1. Age' = [t \in Live' |-> Ticked(t, S)]
    BY DEF Age
  <1>2. Ids!Live = Live /\ \A t \in Live : Age[t] = tracks[t].tsu
    BY DEF Ids!Live, Age
  <1>3. Ids!Aged(S, maxAge) =
          [i \in {j \in Live : Ticked(j, S) <= maxAge} |-> Ticked(i, S)]
    BY <1>2 DEF Ids!Aged, Ids!Live, Ticked, Age
  <1>. QED BY <1>1, <1>3 DEF Survivors

(* The tracker starts where TrackIds does.                                 *)
LEMMA InitRefines == Init => Ids!Init
  <1> SUFFICES ASSUME Init PROVE Ids!Init
    OBVIOUS
  <1>1. Age = [i \in {} |-> 0] /\ Frame = {}
    BY DEF Init, Empty, Age, Frame, Live, Dets
  <1>. QED BY <1>1 DEF Init, Ids!Init, Age, Frame

(* Every step is a step of TrackIds or does not show in it.                *)
LEMMA StepRefines ==
  ASSUME IInv, [Next]_vars
  PROVE  [Ids!Next]_Ids!vars
  <1>1. TypeOK
    BY DEF IInv
  <1>2. CASE SetParams
    <2>1. Age' = Age /\ Frame' = Frame /\ nextId' = nextId
      BY <1>2 DEF SetParams, Age, Frame, Live, Dets, call
    <2>2. Frame = {} /\ maxAge' \in MaxAges
      BY <1>1, <1>2 DEF SetParams, IInv, TypeOK, Frame, Dets, Empty
    <2>3. Ids!SetMaxAge
      BY <2>1, <2>2 DEF Ids!SetMaxAge, Age, Frame
    <2>. QED BY <2>3 DEF Ids!Next
  <1>3. CASE UpdateEmpty
    <2>1. Live' = Survivors({}) /\ Live' \subseteq Live
      BY <1>3 DEF UpdateEmpty, Live, Survivors
    <2>2. ASSUME NEW t \in Live' PROVE tracks'[t].tsu = Ticked(t, {})
      <3>1. tracks'[t] = [tracks[t] EXCEPT !.tsu = @ + 1] /\ t \in Live
        BY <1>3, <2>1 DEF UpdateEmpty
      <3>. QED BY <1>1, <3>1, AgedTrack DEF Ticked
    <2>3. Age' = Ids!Aged({}, maxAge)
      BY <1>1, <2>1, <2>2, AgedIsSurvivors
    <2>4. Frame' = {} /\ maxAge' = maxAge /\ nextId' = nextId
      BY <1>3 DEF UpdateEmpty, IInv, Frame, Dets, Empty, call, params
    <2>5. Ids!Resight
      BY <2>3, <2>4 DEF Ids!Resight, Ids!Live, Age, Frame
    <2>. QED BY <2>5 DEF Ids!Next
  <1>4. CASE Apply
    <2>1. /\ Live' = Survivors(Taken) /\ Live' \subseteq Live
          /\ Taken \subseteq Live
      <3>1. MatchOK
        BY <1>4 DEF IInv, Apply
      <3>2. Taken \subseteq Live
        BY <3>1 DEF MatchOK, Taken
      <3>3. Live' = Survivors(Taken)
        BY <1>4, AppliedTracks
      <3>. QED BY <3>2, <3>3 DEF Survivors
    <2>2. ASSUME NEW t \in Live' PROVE tracks'[t].tsu = Ticked(t, Taken)
      <3>1. CASE t \in Taken
        <4>1. PICK d \in Dets : match[d] = t /\ match[d] # 0
          BY <3>1 DEF Taken
        <4>2. tracks'[match[d]] =
                [pos |-> boxes[d].pos, cls |-> boxes[d].cls, tsu |-> 0]
          BY <1>4, <4>1, AppliedTracks
        <4>3. tracks'[t].tsu = 0
          BY <4>1, <4>2
        <4>. QED BY <3>1, <4>3 DEF Ticked
      <3>2. CASE t \notin Taken
        <4>1. tracks'[t] = [tracks[t] EXCEPT !.tsu = @ + 1] /\ t \in Live
          BY <1>4, <2>1, <3>2, AppliedTracks
        <4>. QED BY <1>1, <3>2, <4>1, AgedTrack DEF Ticked
      <3>. QED BY <3>1, <3>2
    <2>3. Age' = Ids!Aged(Taken, maxAge)
      BY <1>1, <2>1, <2>2, AgedIsSurvivors
    <2>4. Frame' = Taken /\ maxAge' = maxAge /\ nextId' = nextId
      BY <1>4 DEF Apply, Frame, Taken, Dets, params
    <2>5. Ids!Live = Live
      BY DEF Ids!Live, Age
    <2>6. Ids!Resight
      BY <2>1, <2>3, <2>4, <2>5 DEF Ids!Resight, Age, Frame
    <2>. QED BY <2>6 DEF Ids!Next
  <1>5. CASE Create
    <2>1. /\ IdsGiven /\ di \in Dets /\ trackId[di] = 0
          /\ trackId \in [Dets -> Nat] /\ nextId # 0 /\ nextId \notin Live
      <3>1. IdsGiven /\ di \in Dets /\ match[di] = 0
        BY <1>5 DEF IInv, Create
      <3>2. /\ di \in Nat /\ trackId \in [Dets -> Nat]
            /\ nextId # 0 /\ nextId \notin Live
        BY <1>1, <3>1 DEF TypeOK, Dets
      <3>. QED BY <3>1, <3>2 DEF IdsGiven
    <2>2. /\ Dets' = Dets /\ trackId' = [trackId EXCEPT ![di] = nextId]
          /\ nextId' = nextId + 1 /\ maxAge' = maxAge
          /\ Live' = Live \cup {nextId}
      BY <1>5 DEF Create, Dets, Live, params
    <2>3. Frame' = Frame \cup {nextId} /\ nextId \notin Frame
      <3>1. trackId'[di] = nextId /\ \A d \in Dets \ {di} : trackId'[d] = trackId[d]
        BY <2>1, <2>2
      <3>2. \A d \in Dets : trackId[d] = 0 \/ trackId[d] \in Live
        BY <2>1 DEF IdsGiven
      <3>. QED BY <2>1, <2>2, <3>1, <3>2 DEF Frame
    <2>4. /\ tracks'[nextId].tsu = 0
          /\ \A t \in Live : tracks'[t] = tracks[t]
      BY <1>5, <2>1, <2>2 DEF Create
    <2>5. Age' = [i \in Live \cup {nextId} |-> IF i = nextId THEN 0 ELSE Age[i]]
      BY <2>1, <2>2, <2>4 DEF Age
    <2>6. Ids!Live = Live
      BY DEF Ids!Live, Age
    <2>7. Ids!Issue
      BY <2>2, <2>3, <2>5, <2>6 DEF Ids!Issue, Age, Frame
    <2>. QED BY <2>7 DEF Ids!Next
  <1>6. CASE Return
    <2>1. Age' = Age /\ nextId' = nextId /\ maxAge' = maxAge
      BY <1>6 DEF Return, Age, Live, params
    <2>2. Frame' = {}
      BY <1>6 DEF Return, Frame, Dets, Empty
    <2>3. Ids!Done
      BY <2>1, <2>2 DEF Ids!Done, Age, Frame
    <2>. QED BY <2>3 DEF Ids!Next
  <1>7. CASE UpdateStart \/ Pick \/ SkipMatched \/ UNCHANGED vars
    <2>1. Age' = Age /\ nextId' = nextId /\ maxAge' = maxAge
      BY <1>7 DEF UpdateStart, Pick, SkipMatched, vars, Age, Live, params
    <2>2. Frame' = Frame
      <3>1. CASE UpdateStart
        <4>1. Frame = {}
          BY <3>1 DEF UpdateStart, IInv, Frame, Dets, Empty
        <4>2. Frame' = {}
          BY <3>1, StartKeeps DEF Frame
        <4>. QED BY <4>1, <4>2
      <3>2. CASE Pick \/ SkipMatched \/ UNCHANGED vars
        BY <3>2 DEF Pick, SkipMatched, vars, Frame, Dets
      <3>. QED BY <1>7, <3>1, <3>2
    <2>. QED BY <2>1, <2>2 DEF Ids!vars, Age, Frame
  <1>. QED BY <1>2, <1>3, <1>4, <1>5, <1>6, <1>7 DEF Next

(* ByteTrackLite implements TrackIds, for every scene and every bound.     *)
THEOREM TrackerImplementsTrackIds == Spec => ImplementsTrackIds
  <1>1. IInv /\ [Next]_vars => [Ids!Next]_Ids!vars
    BY StepRefines
  <1>. QED BY <1>1, InitRefines, TrackerInvariant, PTL
           DEF Spec, ImplementsTrackIds, Ids!Spec

(* _canonical_cls, with the two frozensets it looks a class up in.         *)
CanonicalCls(c, m) ==
  CASE m = "any" -> -1
    [] m = "vehicle_group" /\ c \in {2, 5, 7} -> -100
    [] m = "vehicle_group" /\ c \in {1, 3} -> -101
    [] OTHER -> c

(* The keys that update() compares are equal for exactly the classes of    *)
(* one family, in every mode: the families are disjoint, and so a track    *)
(* that changes its class frame by frame never leaves the one it began in. *)
THEOREM FamiliesAreCanonicalKeys ==
  ASSUME NEW m, NEW a \in Nat, NEW b \in Nat
  PROVE  SameFamily(a, b, m) <=> CanonicalCls(a, m) = CanonicalCls(b, m)
  <1>1. CASE m = "any"
    BY <1>1 DEF SameFamily, CanonicalCls
  <1>2. CASE m = "vehicle_group"
    <2>1. SameFamily(a, b, m) <=> \/ a = b
                                  \/ a \in {2, 5, 7} /\ b \in {2, 5, 7}
                                  \/ a \in {1, 3} /\ b \in {1, 3}
      BY <1>2 DEF SameFamily
    <2>2. ASSUME NEW c \in Nat
          PROVE  /\ c \in {2, 5, 7} => CanonicalCls(c, m) = -100
                 /\ c \in {1, 3} => CanonicalCls(c, m) = -101
                 /\ c \notin {2, 5, 7} /\ c \notin {1, 3} => CanonicalCls(c, m) = c
      BY <1>2 DEF CanonicalCls
    <2>. QED BY <2>1, <2>2
  <1>3. CASE m \notin {"any", "vehicle_group"}
    <2>1. CanonicalCls(a, m) = a /\ CanonicalCls(b, m) = b
      BY <1>3 DEF CanonicalCls
    <2>. QED BY <1>3, <2>1 DEF SameFamily
  <1>. QED BY <1>1, <1>2, <1>3

-----------------------------------------------------------------------------
(* update() ends: what UpdateReturns says, less the temporal part of it.   *)

(* A turn of the greedy loop either finds its largest entry and takes it   *)
(* or ends the loop (np.argmax has a result, and one result).              *)
LoopGoesOn ==
  pc = "greedy" =>
    \/ \A p \in DOMAIN iou : iou[p] < IouThr
    \/ \E p \in DOMAIN iou : IsArgmax(p) /\ iou[p] >= IouThr

(* The steps a call of update() has before it at most: matches to make,    *)
(* the end of the loop, detections to look at, the return.                 *)
Unmatched == {d \in Dets : match[d] = 0}
StepsLeft ==
  IF pc = "greedy" THEN Cardinality(Unmatched) + Cardinality(Dets) + 2
  ELSE IF pc = "create" THEN Cardinality(Dets) + 2 - di ELSE 0
CallsEnd == [][pc # "idle" => StepsLeft' < StepsLeft /\ StepsLeft' >= 0]_vars

LEMMA DetsAreFinite ==
  ASSUME TypeOK
  PROVE  /\ IsFiniteSet(Dets) /\ Dets \in SUBSET Nat
         /\ Dets = 1..Cardinality(Dets) /\ Cardinality(Dets) \in Nat
         /\ di \in 1..(Cardinality(Dets) + 1)
         /\ IsFiniteSet(Unmatched) /\ Cardinality(Unmatched) \in Nat
  <1>1. PICK n \in 0..MaxDets : boxes \in [1..n -> Box] /\ di \in 1..(n + 1)
    BY DEF TypeOK
  <1>2. n \in Nat /\ Dets = 1..n
    BY <1>1, BoundsAssumption DEF Dets
  <1>3. IsFiniteSet(Dets) /\ Cardinality(Dets) = n
    BY <1>2, FS_Interval
  <1>4. Unmatched \in SUBSET Dets
    BY DEF Unmatched
  <1>5. IsFiniteSet(Unmatched) /\ Cardinality(Unmatched) \in Nat
    BY <1>3, <1>4, FS_Subset, FS_CardinalityType
  <1>. QED BY <1>1, <1>2, <1>3, <1>5

LEMMA ArgmaxExists ==
  ASSUME TypeOK, pc = "greedy", DOMAIN iou # {}
  PROVE  \E p \in DOMAIN iou : IsArgmax(p)
  <1>1. DOMAIN iou = Dets \X Live /\ iou \in [Dets \X Live -> Int]
    BY DEF TypeOK
  <1>2. Dets \in SUBSET Nat /\ Live \in SUBSET Nat
    <2>1. Dets \in SUBSET Nat
      BY DetsAreFinite
    <2>2. Live \in SUBSET Nat
      BY DEF TypeOK
    <2>. QED BY <2>1, <2>2
  <1>3. IsFiniteSet(Dets \X Live)
    <2>1. IsFiniteSet(1..(nextId - 1))
      BY FS_Interval DEF TypeOK
    <2>2. IsFiniteSet(Live)
      BY <2>1, FS_Subset DEF TypeOK
    <2>. QED BY <2>2, DetsAreFinite, FS_Product
  <1> DEFINE values == {iou[p] : p \in Dets \X Live}
  <1>4. IsFiniteSet(values)
    <2> DEFINE grid == Dets \X Live
    <2>1. IsFiniteSet(grid) /\ iou \in [grid -> Int]
      BY <1>1, <1>3
    <2>. HIDE DEF grid
    <2>2. IsFiniteSet({iou[p] : p \in grid})
      BY <2>1, ValuesAreFinite
    <2>. QED BY <2>2 DEF grid
  <1>5. values \in SUBSET Int /\ values # {}
    BY <1>1
  <1>6. PICK best \in values : \A v \in values : v <= best
    <2>. HIDE DEF values
    <2>. QED BY <1>4, <1>5, GreatestNumber
  <1> DEFINE rows == {d \in Dets : \E t \in Live : iou[<<d, t>>] = best}
  <1>7. rows \in SUBSET Nat /\ rows # {}
    <2>1. PICK e \in Dets, u \in Live : best = iou[<<e, u>>]
      BY <1>6
    <2>. QED BY <1>2, <2>1
  <1>8. PICK d \in rows : \A e \in rows : d <= e
    <2>. HIDE DEF rows
    <2>. QED BY <1>7, LeastNumber
  <1> DEFINE columns == {t \in Live : iou[<<d, t>>] = best}
  <1>9. columns \in SUBSET Nat /\ columns # {}
    BY <1>2
  <1>10. PICK t \in columns : \A u \in columns : t <= u
    <2>. HIDE DEF columns
    <2>. QED BY <1>9, LeastNumber
  <1>11. d \in Dets /\ t \in Live /\ iou[<<d, t>>] = best
    OBVIOUS
  <1>12. ASSUME NEW e \in Dets, NEW u \in Live, <<e, u>> # <<d, t>>
         PROVE  \/ iou[<<e, u>>] < best
                \/ iou[<<e, u>>] = best /\ (d < e \/ (d = e /\ t < u))
    <2>1. iou[<<e, u>>] \in Int /\ best \in Int /\ iou[<<e, u>>] <= best
      BY <1>1, <1>5, <1>6
    <2>2. CASE iou[<<e, u>>] = best
      <3>1. e \in rows /\ d <= e /\ d \in Nat /\ e \in Nat
        BY <1>2, <1>8, <2>2
      <3>2. d = e => u \in columns /\ t <= u /\ t # u /\ t \in Nat /\ u \in Nat
        BY <1>2, <1>10, <1>12, <2>2
      <3>. QED BY <2>2, <3>1, <3>2
    <2>. QED BY <2>1, <2>2
  <1>13. IsArgmax(<<d, t>>)
    <2>1. <<d, t>> \in DOMAIN iou
      BY <1>1, <1>11
    <2>2. ASSUME NEW q \in DOMAIN iou \ {<<d, t>>}
          PROVE  iou[q] < iou[<<d, t>>] \/ (iou[q] = iou[<<d, t>>] /\ Before(<<d, t>>, q))
      <3>1. PICK e \in Dets, u \in Live : q = <<e, u>>
        BY <1>1
      <3>. QED BY <1>11, <1>12, <3>1 DEF Before
    <2>. QED BY <2>1, <2>2 DEF IsArgmax
  <1>. QED BY <1>1, <1>11, <1>13

(* The greedy loop is never stuck: whatever the matrix, it goes on or ends *)
(* (tracker.py, the "while True" of update()).                             *)
THEOREM GreedyLoopGoesOn == Spec => []LoopGoesOn
  <1>1. IInv => LoopGoesOn
    <2> SUFFICES ASSUME IInv, pc = "greedy", NEW q \in DOMAIN iou, ~(iou[q] < IouThr)
                 PROVE  \E p \in DOMAIN iou : IsArgmax(p) /\ iou[p] >= IouThr
      BY DEF LoopGoesOn
    <2>1. TypeOK
      BY DEF IInv
    <2>2. PICK p \in DOMAIN iou : IsArgmax(p)
      BY <2>1, ArgmaxExists
    <2>3. iou[p] \in Int /\ iou[q] \in Int /\ IouThr \in Int
      BY <2>1, IouThrAssumption DEF TypeOK
    <2>4. iou[q] <= iou[p]
      BY <2>2, <2>3 DEF IsArgmax
    <2>. QED BY <2>2, <2>3, <2>4
  <1>. QED BY <1>1, TrackerInvariant, PTL

(* Every step of a call brings its end nearer, by a count that starts at   *)
(* 2n + 2 for n detections: with LoopGoesOn and a scheduler that lets the  *)
(* thread run, update() returns.                                           *)
THEOREM EveryStepOfACallCounts == Spec => CallsEnd
  <1>1. IInv /\ [Next]_vars =>
          [pc # "idle" => StepsLeft' < StepsLeft /\ StepsLeft' >= 0]_vars
    <2> SUFFICES ASSUME IInv, Next, pc # "idle"
                 PROVE  StepsLeft' < StepsLeft /\ StepsLeft' >= 0
      OBVIOUS
    <2>1. TypeOK /\ TypeOK'
      BY StepTypeOK DEF IInv
    <2>2. /\ Cardinality(Dets) \in Nat
          /\ di \in 1..(Cardinality(Dets) + 1)
          /\ di \in Dets => di <= Cardinality(Dets)
          /\ IsFiniteSet(Unmatched) /\ Cardinality(Unmatched) \in Nat
      BY <2>1, DetsAreFinite
    <2>3. CASE Pick
      <3>1. PICK p \in DOMAIN iou : /\ iou[p] >= IouThr
                                    /\ LET free == match[p[1]] = 0 /\ p[2] \notin Taken
                                       IN  match' = IF free THEN [match EXCEPT ![p[1]] = p[2]] ELSE match
        BY <2>3 DEF Pick
      <3>2. PICK d \in Dets, t \in Live : p = <<d, t>>
        BY <2>3, <3>1 DEF IInv, Pick, MatrixOK
      <3>3. match[d] = 0 /\ t \notin Taken
        BY <2>3, <3>1, <3>2, IouThrAssumption DEF IInv, Pick, MatrixOK
      <3>4. match' = [match EXCEPT ![d] = t] /\ boxes' = boxes /\ pc' = "greedy" /\ pc = "greedy"
        BY <2>3, <3>1, <3>2, <3>3 DEF Pick
      <3>5. t # 0 /\ DOMAIN match = Dets
        BY <2>1 DEF TypeOK, Dets
      <3>6. Unmatched' = Unmatched \ {d} /\ d \in Unmatched /\ Dets' = Dets
        BY <3>3, <3>4, <3>5 DEF Unmatched, Dets
      <3>7. Cardinality(Unmatched') = Cardinality(Unmatched) - 1 /\ Cardinality(Unmatched') \in Nat
        BY <2>2, <3>6, FS_RemoveElement, FS_CardinalityType
      <3>8. StepsLeft = Cardinality(Unmatched) + Cardinality(Dets) + 2
            /\ StepsLeft' = Cardinality(Unmatched') + Cardinality(Dets') + 2
        BY <3>4 DEF StepsLeft
      <3>. QED BY <2>2, <3>6, <3>7, <3>8
    <2>4. CASE Apply
      <3>1. pc = "greedy" /\ pc' = "create" /\ Dets' = Dets /\ di' = 1
        BY <2>4 DEF Apply, IInv, Dets
      <3>2. StepsLeft = Cardinality(Unmatched) + Cardinality(Dets) + 2
            /\ StepsLeft' = Cardinality(Dets) + 2 - 1
        BY <3>1 DEF StepsLeft
      <3>. QED BY <2>2, <3>2
    <2>5. CASE Create \/ SkipMatched
      <3>1. pc = "create" /\ pc' = "create" /\ Dets' = Dets /\ di' = di + 1 /\ di \in Dets
        BY <2>5 DEF Create, SkipMatched, Dets
      <3>2. StepsLeft = Cardinality(Dets) + 2 - di /\ StepsLeft' = Cardinality(Dets) + 2 - (di + 1)
        BY <3>1 DEF StepsLeft
      <3>. QED BY <2>2, <3>1, <3>2
    <2>6. CASE Return
      <3>1. pc = "create" /\ pc' = "idle" /\ di \in 1..(Cardinality(Dets) + 1)
        BY <2>2, <2>6 DEF Return
      <3>2. StepsLeft = Cardinality(Dets) + 2 - di /\ StepsLeft' = 0
        BY <3>1 DEF StepsLeft
      <3>. QED BY <2>2, <3>1, <3>2
    <2>. QED BY <2>3, <2>4, <2>5, <2>6 DEF Next, SetParams, UpdateEmpty, UpdateStart
  <1>. QED BY <1>1, TrackerInvariant, PTL DEF Spec, CallsEnd

=============================================================================
