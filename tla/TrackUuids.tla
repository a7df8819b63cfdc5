----------------------------- MODULE TrackUuids -----------------------------
(***************************************************************************)
(* DeviceAgent::resolveTrackUuid: the plugin's cache from the worker's     *)
(* integer track ids to the UUIDs NX shows.  m_trackUuidLru is a list of   *)
(* entries, most recent first; m_trackUuids maps an id to an iterator into *)
(* that list.  Every entry is made with a UUID of its own, so the UUID     *)
(* stands for the list node an iterator points to.                         *)
(***************************************************************************)
EXTENDS Integers, Sequences

CONSTANT Cap         \* kTrackUuidCap

ASSUME CapAssumption == Cap \in Nat \ {0}

VARIABLES
  lru,               \* m_trackUuidLru, the front first
  index,             \* m_trackUuids: id |-> UUID of the entry pointed to
  made               \* how many UUIDs randomUuid() has returned

cache == <<lru, index, made>>

Entry == [tid : Nat, uuid : Nat]
Cached == DOMAIN index

CacheInit ==
  /\ lru = <<>>
  /\ index = [t \in {} |-> 0]
  /\ made = 0

(* Mutant of ToFront: a hit does not move the entry (FIFO, not LRU).       *)
InPlace(p) == SubSeq(lru, 1, p) \o SubSeq(lru, p + 1, Len(lru))

(* list::splice of the p-th entry to the front.                            *)
ToFront(p) ==
  [i \in 1..Len(lru) |->
     IF i = 1 THEN lru[p] ELSE IF i <= p THEN lru[i - 1] ELSE lru[i]]

Hit(tid) ==
  /\ tid \in Cached
  /\ \E p \in 1..Len(lru) : lru[p].uuid = index[tid] /\ lru' = ToFront(p)
  /\ UNCHANGED <<index, made>>

(* UuidHelper::randomUuid(): never the same twice.                         *)
NewEntry(tid) == [tid |-> tid, uuid |-> made + 1]

(* The list after push_front and the ids its tail loses in the while loop. *)
Pushed(tid) == <<NewEntry(tid)>> \o lru

(* Mutant of Kept: the eviction loop runs at the cap, not above it.        *)
KeptBelowCap(tid) == IF Len(lru) < Cap - 1 THEN Len(lru) + 1 ELSE Cap - 1

Kept(tid) == IF Len(lru) < Cap THEN Len(lru) + 1 ELSE Cap
Victims(tid) == {Pushed(tid)[i].tid : i \in (Kept(tid) + 1)..(Len(lru) + 1)}

(* Mutant of Miss: the victim's key stays in m_trackUuids.                 *)
MissKeepingKeys(tid) ==
  /\ tid \notin Cached
  /\ made' = made + 1
  /\ lru' = SubSeq(Pushed(tid), 1, Kept(tid))
  /\ index' = [t \in Cached \cup {tid} |-> IF t = tid THEN made + 1 ELSE index[t]]

(* Mutant of Miss: begin() is stored before push_front.                    *)
MissIndexedEarly(tid) ==
  /\ tid \notin Cached
  /\ made' = made + 1
  /\ lru' = SubSeq(Pushed(tid), 1, Kept(tid))
  /\ index' = [t \in (Cached \cup {tid}) \ Victims(tid) |->
                 IF t # tid THEN index[t]
                 ELSE IF lru = <<>> THEN made + 1 ELSE lru[1].uuid]

Miss(tid) ==
  /\ tid \notin Cached
  /\ made' = made + 1
  /\ lru' = SubSeq(Pushed(tid), 1, Kept(tid))
  /\ index' = [t \in (Cached \cup {tid}) \ Victims(tid) |->
                 IF t = tid THEN made + 1 ELSE index[t]]

Resolve(tid) == Hit(tid) \/ Miss(tid)

(* The UUID a step that resolves tid hands to NX.                          *)
Answer(tid) == IF tid \in Cached THEN index[tid] ELSE made + 1

CacheTypeOK ==
  /\ lru \in Seq(Entry)
  /\ index \in [Cached -> Nat]
  /\ Cached \subseteq Nat
  /\ made \in Nat

(* The map and the list hold the same entries, at most Cap of them: every  *)
(* iterator points to the entry of its own id, no entry is left without    *)
(* one, and no two entries share an id or a UUID.                          *)
Coherent ==
  /\ Len(lru) <= Cap
  /\ Cached = {lru[i].tid : i \in 1..Len(lru)}
  /\ \A i \in 1..Len(lru) :
       index[lru[i].tid] = lru[i].uuid /\ lru[i].uuid \in 1..made
  /\ \A i, j \in 1..Len(lru) :
       lru[i].tid = lru[j].tid \/ lru[i].uuid = lru[j].uuid => i = j
=============================================================================
