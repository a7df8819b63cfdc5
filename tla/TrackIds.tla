------------------------------ MODULE TrackIds ------------------------------
(***************************************************************************)
(* What python/tracker.py promises about track ids, with the geometry left *)
(* out: an id is issued once, in increasing order; it lives while frames   *)
(* keep showing its object or at most max_age frames in a row have missed  *)
(* it; a frame names no id twice.  Tracker implements this module.         *)
(***************************************************************************)
EXTENDS Integers

CONSTANT MaxAges     \* values the settings page can give max_age

VARIABLES
  nextId,            \* the next id to issue
  age,               \* live id |-> frames since it was last seen
  maxAge,
  frame              \* ids named by the frame being handled

vars == <<nextId, age, maxAge, frame>>

Live == DOMAIN age

Init ==
  /\ nextId = 1
  /\ age = [i \in {} |-> 0]
  /\ maxAge \in MaxAges
  /\ frame = {}

(* The ages after a frame that showed exactly the live ids in `seen`.      *)
Aged(seen, limit) ==
  LET after(i) == IF i \in seen THEN 0 ELSE age[i] + 1
  IN  [i \in {j \in Live : after(j) <= limit} |-> after(i)]

(* A frame arrives: it shows some of the live ids and misses the others.   *)
Resight ==
  \E seen \in SUBSET Live :
    /\ age' = Aged(seen, maxAge)
    /\ frame' = seen
    /\ UNCHANGED <<nextId, maxAge>>

(* One of the frame's other detections becomes a track of its own.         *)
Issue ==
  /\ nextId \notin frame
  /\ age' = [i \in Live \cup {nextId} |-> IF i = nextId THEN 0 ELSE age[i]]
  /\ frame' = frame \cup {nextId}
  /\ nextId' = nextId + 1
  /\ UNCHANGED maxAge

(* The frame's reply has been handed back.                                 *)
Done ==
  /\ frame' = {}
  /\ UNCHANGED <<nextId, age, maxAge>>

SetMaxAge ==
  /\ frame = {}
  /\ maxAge' \in MaxAges
  /\ UNCHANGED <<nextId, age, frame>>

Next == Resight \/ Issue \/ Done \/ SetMaxAge

Spec == Init /\ [][Next]_vars
=============================================================================
