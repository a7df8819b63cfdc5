------------------------------- MODULE LruMap -------------------------------
(***************************************************************************)
(* What DeviceAgent::resolveTrackUuid promises, with its list and its      *)
(* iterators left out: a map of at most Cap ids.  An id that is in the map *)
(* keeps its UUID; one that is not gets a UUID never given before; and if  *)
(* the map is full, exactly the least recently used id makes room.         *)
(* TrackUuids implements this module.                                      *)
(***************************************************************************)
EXTENDS Integers, FiniteSets

CONSTANTS
  Cap,       \* the most ids the map holds
  Tids       \* the ids there may be

VARIABLES
  uuids,     \* id |-> its UUID
  since,     \* id |-> the ids used since it was last used
  issued     \* UUIDs given so far

lruVars == <<uuids, since, issued>>

Ids == DOMAIN uuids

Init ==
  /\ uuids = [t \in {} |-> 0]
  /\ since = [t \in {} |-> {}]
  /\ issued = 0

Recall(t) ==
  /\ t \in Ids
  /\ since' = [x \in Ids |-> IF x = t THEN {} ELSE since[x] \cup {t}]
  /\ UNCHANGED <<uuids, issued>>

(* All the others have been used since.                                    *)
Oldest == {x \in Ids : since[x] = Ids \ {x}}
Kept == IF Cardinality(Ids) < Cap THEN Ids ELSE Ids \ Oldest

Learn(t) ==
  /\ t \notin Ids
  /\ issued' = issued + 1
  /\ uuids' = [x \in Kept \cup {t} |-> IF x = t THEN issued + 1 ELSE uuids[x]]
  /\ since' = [x \in Kept \cup {t} |-> IF x = t THEN {} ELSE since[x] \cup {t}]

Next == \E t \in Tids : Recall(t) \/ Learn(t)

Spec == Init /\ [][Next]_lruVars
=============================================================================
