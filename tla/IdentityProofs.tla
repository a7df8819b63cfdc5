--------------------------- MODULE IdentityProofs ---------------------------
(***************************************************************************)
(* Proofs about the plugin's UUID cache (TrackUuids) and about its use in  *)
(* Identity, for any capacity and any number of connections.               *)
(***************************************************************************)
EXTENDS Identity, SequenceTheorems, FiniteSetTheorems, TLAPS

(* splice() to the front: the entry comes first, those before it move up   *)
(* by one.                                                                 *)
LEMMA ToFrontProperties ==
  ASSUME lru \in Seq(Entry), NEW p \in 1..Len(lru)
  PROVE  /\ ToFront(p) \in Seq(Entry)
         /\ Len(ToFront(p)) = Len(lru)
         /\ ToFront(p)[1] = lru[p]
         /\ \A i \in 2..Len(lru) :
              ToFront(p)[i] = IF i <= p THEN lru[i - 1] ELSE lru[i]
  <1>1. Len(lru) \in Nat /\ \A i \in 1..Len(lru) : lru[i] \in Entry
    OBVIOUS
  <1>2. \A i \in 1..Len(lru) :
          (IF i = 1 THEN lru[p] ELSE IF i <= p THEN lru[i - 1] ELSE lru[i])
            \in Entry
    BY <1>1
  <1>3. ToFront(p) \in [1..Len(lru) -> Entry]
    BY <1>2 DEF ToFront
  <1>4. ToFront(p) \in Seq(Entry) /\ Len(ToFront(p)) = Len(lru)
    BY <1>1, <1>3
  <1>. QED BY <1>1, <1>4 DEF ToFront

(* Moving the p-th entry to the front permutes the list: where the entry   *)
(* now at i came from, and where the one that was at j has gone.           *)
CameFrom(p, i) == IF i = 1 THEN p ELSE IF i <= p THEN i - 1 ELSE i
WentTo(p, j) == IF j = p THEN 1 ELSE IF j < p THEN j + 1 ELSE j

(* Nothing is lost or doubled by it: where each entry came from and where  *)
(* it went.                                                                *)
LEMMA ToFrontPermutes ==
  ASSUME lru \in Seq(Entry), NEW p \in 1..Len(lru)
  PROVE  /\ \A i \in 1..Len(lru) : CameFrom(p, i) \in 1..Len(lru)
         /\ \A i \in 1..Len(lru) : ToFront(p)[i] = lru[CameFrom(p, i)]
         /\ \A j \in 1..Len(lru) : WentTo(p, j) \in 1..Len(lru)
         /\ \A j \in 1..Len(lru) : ToFront(p)[WentTo(p, j)] = lru[j]
         /\ \A i, j \in 1..Len(lru) : CameFrom(p, i) = CameFrom(p, j) => i = j
  <1>1. Len(lru) \in Nat
    OBVIOUS
  <1>2. \A i \in 1..Len(lru) : CameFrom(p, i) \in 1..Len(lru)
    BY <1>1 DEF CameFrom
  <1>3. \A i \in 1..Len(lru) : ToFront(p)[i] = lru[CameFrom(p, i)]
    BY <1>1 DEF ToFront, CameFrom
  <1>4. \A j \in 1..Len(lru) :
          WentTo(p, j) \in 1..Len(lru) /\ CameFrom(p, WentTo(p, j)) = j
    BY <1>1 DEF CameFrom, WentTo
  <1>5. \A i, j \in 1..Len(lru) : CameFrom(p, i) = CameFrom(p, j) => i = j
    BY <1>1 DEF CameFrom
  <1>6. \A j \in 1..Len(lru) : ToFront(p)[WentTo(p, j)] = lru[j]
    BY <1>3, <1>4
  <1>. QED BY <1>2, <1>3, <1>4, <1>5, <1>6

(* A hit keeps list and map coherent: the iterators of the map follow the  *)
(* nodes.                                                                  *)
LEMMA HitKeeps ==
  ASSUME CacheTypeOK, Coherent, NEW tid \in Nat, Hit(tid)
  PROVE  CacheTypeOK' /\ Coherent'
  <1>1. PICK p \in 1..Len(lru) : lru' = ToFront(p)
    BY DEF Hit
  <1>2. lru \in Seq(Entry) /\ index' = index /\ made' = made
    BY DEF CacheTypeOK, Hit
  <1>3. lru' \in Seq(Entry) /\ Len(lru') = Len(lru)
    BY <1>1, <1>2, ToFrontProperties
  <1>4. CacheTypeOK'
    BY <1>2, <1>3 DEF CacheTypeOK, Cached
  <1>5. /\ \A i \in 1..Len(lru) : CameFrom(p, i) \in 1..Len(lru)
        /\ \A i \in 1..Len(lru) : lru'[i] = lru[CameFrom(p, i)]
        /\ \A j \in 1..Len(lru) : WentTo(p, j) \in 1..Len(lru)
        /\ \A j \in 1..Len(lru) : lru'[WentTo(p, j)] = lru[j]
        /\ \A i, j \in 1..Len(lru) : CameFrom(p, i) = CameFrom(p, j) => i = j
    BY <1>1, <1>2, ToFrontPermutes
  <1>6. Cached' = {lru'[i].tid : i \in 1..Len(lru')}
    <2>1. Cached' = {lru[i].tid : i \in 1..Len(lru)}
      BY <1>2 DEF Coherent, Cached
    <2>2. ASSUME NEW t \in Cached' PROVE \E i \in 1..Len(lru') : lru'[i].tid = t
      <3>1. PICK j \in 1..Len(lru) : lru[j].tid = t
        BY <2>1
      <3>2. WentTo(p, j) \in 1..Len(lru') /\ lru'[WentTo(p, j)].tid = t
        BY <1>3, <1>5, <3>1
      <3>. QED BY <3>2
    <2>3. \A i \in 1..Len(lru') : lru'[i].tid \in Cached'
      BY <1>3, <1>5, <2>1
    <2>. QED BY <2>2, <2>3
  <1>7. ASSUME NEW i \in 1..Len(lru)
        PROVE  index[lru'[i].tid] = lru'[i].uuid /\ lru'[i].uuid \in 1..made
    <2>1. CameFrom(p, i) \in 1..Len(lru) /\ lru'[i] = lru[CameFrom(p, i)]
      BY <1>5
    <2>2. \A j \in 1..Len(lru) :
            index[lru[j].tid] = lru[j].uuid /\ lru[j].uuid \in 1..made
      BY DEF Coherent
    <2>. QED BY <2>1, <2>2
  <1>8. ASSUME NEW i \in 1..Len(lru), NEW j \in 1..Len(lru),
               lru'[i].tid = lru'[j].tid \/ lru'[i].uuid = lru'[j].uuid
        PROVE  i = j
    <2>1. /\ CameFrom(p, i) \in 1..Len(lru) /\ lru'[i] = lru[CameFrom(p, i)]
          /\ CameFrom(p, j) \in 1..Len(lru) /\ lru'[j] = lru[CameFrom(p, j)]
      BY <1>5
    <2>2. \A g, h \in 1..Len(lru) :
            lru[g].tid = lru[h].tid \/ lru[g].uuid = lru[h].uuid => g = h
      BY DEF Coherent
    <2>3. CameFrom(p, i) = CameFrom(p, j)
      BY <1>8, <2>1, <2>2
    <2>. QED BY <1>5, <2>3
  <1>9. Len(lru') <= Cap
    BY <1>3 DEF Coherent
  <1>. QED BY <1>2, <1>3, <1>4, <1>6, <1>7, <1>8, <1>9 DEF Coherent

(* push_front followed by the eviction loop, entry by entry.               *)
LEMMA MissEntries ==
  ASSUME CacheTypeOK, Coherent, NEW tid \in Nat, Miss(tid)
  PROVE  /\ Kept(tid) \in 1..Cap /\ Kept(tid) <= Len(lru) + 1
         /\ lru' \in Seq(Entry) /\ Len(lru') = Kept(tid)
         /\ lru'[1] = NewEntry(tid)
         /\ \A i \in 2..Kept(tid) : lru'[i] = lru[i - 1]
         /\ Victims(tid) = {lru[i].tid : i \in Kept(tid)..Len(lru)}
  <1> DEFINE pushed == Pushed(tid)
             k == Kept(tid)
  <1>1. lru \in Seq(Entry) /\ Len(lru) \in Nat /\ Len(lru) <= Cap
    BY DEF CacheTypeOK, Coherent
  <1>2. NewEntry(tid) \in Entry
    BY DEF NewEntry, Entry, CacheTypeOK
  <1>3. k \in 1..Cap /\ k <= Len(lru) + 1 /\ k \in Int
    BY <1>1, CapAssumption DEF Kept
  <1>4. /\ pushed \in Seq(Entry) /\ Len(pushed) = Len(lru) + 1
        /\ pushed[1] = NewEntry(tid)
        /\ \A i \in 2..(Len(lru) + 1) : pushed[i] = lru[i - 1]
    <2>1. <<NewEntry(tid)>> \in Seq(Entry) /\ Len(<<NewEntry(tid)>>) = 1
      BY <1>2
    <2>2. /\ pushed \in Seq(Entry) /\ Len(pushed) = 1 + Len(lru)
          /\ \A i \in 1..(1 + Len(lru)) :
               pushed[i] = IF i <= 1 THEN <<NewEntry(tid)>>[i] ELSE lru[i - 1]
      BY <1>1, <2>1, ConcatProperties DEF Pushed
    <2>. QED BY <1>1, <2>2
  <1>5. lru' = SubSeq(pushed, 1, k)
    BY DEF Miss
  <1>6. \A i \in 1..k : pushed[i] \in Entry
    BY <1>1, <1>3, <1>4, ElementOfSeq
  <1> HIDE DEF pushed, k
  <1>7. /\ lru' \in Seq(Entry)
        /\ Len(lru') = k
        /\ \A i \in 1..k : lru'[i] = pushed[i]
    BY <1>3, <1>5, <1>6, SubSeqProperties
  <1>8. \A i \in 2..k : lru'[i] = lru[i - 1]
    BY <1>1, <1>3, <1>4, <1>7
  <1>9. lru'[1] = NewEntry(tid)
    BY <1>3, <1>4, <1>7
  <1>10. Victims(tid) = {lru[i].tid : i \in k..Len(lru)}
    <2>1. Victims(tid) = {pushed[i].tid : i \in (k + 1)..(Len(lru) + 1)}
      BY DEF Victims, pushed, k
    <2>2. \A i \in (k + 1)..(Len(lru) + 1) :
            i - 1 \in k..Len(lru) /\ pushed[i] = lru[i - 1]
      BY <1>1, <1>3, <1>4
    <2>3. \A i \in k..Len(lru) :
            i + 1 \in (k + 1)..(Len(lru) + 1) /\ pushed[i + 1] = lru[i]
      BY <1>1, <1>3, <1>4
    <2>. QED BY <2>1, <2>2, <2>3
  <1>. QED BY <1>3, <1>7, <1>8, <1>9, <1>10 DEF k

(* So does a miss, which may evict the last entry before it inserts one.   *)
LEMMA MissKeeps ==
  ASSUME CacheTypeOK, Coherent, NEW tid \in Nat, Miss(tid)
  PROVE  CacheTypeOK' /\ Coherent'
  <1> DEFINE k == Kept(tid)
  <1>1. /\ k \in 1..Cap /\ k <= Len(lru) + 1 /\ Cap \in Nat
        /\ lru' \in Seq(Entry) /\ Len(lru') = k
        /\ lru'[1] = NewEntry(tid)
        /\ \A i \in 2..k : lru'[i] = lru[i - 1]
        /\ Victims(tid) = {lru[i].tid : i \in k..Len(lru)}
    BY MissEntries, CapAssumption
  <1>2. /\ tid \notin Cached /\ made' = made + 1 /\ made \in Nat
        /\ index' = [t \in (Cached \cup {tid}) \ Victims(tid) |->
                       IF t = tid THEN made + 1 ELSE index[t]]
    BY DEF Miss, CacheTypeOK
  <1>3. /\ Len(lru) \in Nat
        /\ Cached = {lru[i].tid : i \in 1..Len(lru)}
        /\ \A i \in 1..Len(lru) :
             index[lru[i].tid] = lru[i].uuid /\ lru[i].uuid \in 1..made
        /\ \A i, j \in 1..Len(lru) :
             lru[i].tid = lru[j].tid \/ lru[i].uuid = lru[j].uuid => i = j
    BY DEF Coherent, CacheTypeOK
  <1>4. lru'[1].tid = tid /\ lru'[1].uuid = made + 1
    BY <1>1 DEF NewEntry
  <1> HIDE DEF k
  <1>5. \A i \in 1..Len(lru) : lru[i].tid # tid /\ lru[i].tid \in Cached
    BY <1>2, <1>3
  <1>6. tid \notin Victims(tid)
    BY <1>1, <1>3, <1>5
  <1>7. ASSUME NEW i \in 2..k
        PROVE  /\ lru'[i] = lru[i - 1] /\ i - 1 \in 1..Len(lru)
               /\ lru[i - 1].tid \notin Victims(tid)
    <2>1. i - 1 \in 1..Len(lru) /\ i - 1 < k
      BY <1>1, <1>3
    <2>2. \A j \in k..Len(lru) : j \in 1..Len(lru) /\ j # i - 1
      BY <1>1, <1>3, <2>1
    <2>3. \A j \in k..Len(lru) : lru[j].tid # lru[i - 1].tid
      BY <1>3, <2>1, <2>2
    <2>. QED BY <1>1, <2>1, <2>3
  <1>8. Cached' = (Cached \cup {tid}) \ Victims(tid)
    BY <1>2 DEF Cached
  <1>9. Cached' = {lru'[i].tid : i \in 1..k}
    <2>1. ASSUME NEW t \in Cached' PROVE \E i \in 1..k : lru'[i].tid = t
      <3>1. CASE t = tid
        BY <1>1, <1>4, <3>1
      <3>2. CASE t # tid
        <4>1. PICK j \in 1..Len(lru) : lru[j].tid = t
          BY <1>3, <1>8, <3>2
        <4>2. j \notin k..Len(lru)
          BY <1>1, <1>8, <4>1
        <4>3. j + 1 \in 2..k /\ j + 1 \in 1..k
          BY <1>1, <1>3, <4>2
        <4>4. lru'[j + 1] = lru[j]
          BY <1>7, <4>3, <1>3
        <4>. QED BY <4>1, <4>3, <4>4
      <3>. QED BY <3>1, <3>2
    <2>2. ASSUME NEW i \in 1..k PROVE lru'[i].tid \in Cached'
      <3>1. CASE i = 1
        BY <1>4, <1>6, <1>8, <3>1
      <3>2. CASE i # 1
        <4>1. i \in 2..k
          BY <1>1, <3>2
        <4>. QED BY <1>5, <1>7, <1>8, <4>1
      <3>. QED BY <3>1, <3>2
    <2>. QED BY <2>1, <2>2
  <1>10. ASSUME NEW i \in 1..k
         PROVE  index'[lru'[i].tid] = lru'[i].uuid /\ lru'[i].uuid \in 1..made'
    <2>1. lru'[i].tid \in Cached'
      BY <1>9
    <2>2. CASE i = 1
      BY <1>2, <1>4, <1>8, <2>1, <2>2
    <2>3. CASE i # 1
      <3>1. i \in 2..k
        BY <1>1, <2>3
      <3>2. /\ lru'[i] = lru[i - 1] /\ i - 1 \in 1..Len(lru)
            /\ lru[i - 1].tid # tid
        BY <1>5, <1>7, <3>1
      <3>3. index'[lru'[i].tid] = index[lru[i - 1].tid]
        BY <1>2, <1>8, <2>1, <3>2
      <3>. QED BY <1>2, <1>3, <3>2, <3>3
    <2>. QED BY <2>2, <2>3
  <1>11. ASSUME NEW i \in 1..k, NEW j \in 1..k,
                lru'[i].tid = lru'[j].tid \/ lru'[i].uuid = lru'[j].uuid
         PROVE  i = j
    <2>1. CASE i = 1 \/ j = 1
      <3>1. \A h \in 2..k : lru'[h].tid # tid /\ lru'[h].uuid # made + 1
        BY <1>2, <1>3, <1>5, <1>7
      <3>. QED BY <1>1, <1>4, <1>11, <2>1, <3>1
    <2>2. CASE i # 1 /\ j # 1
      <3>1. i \in 2..k /\ j \in 2..k
        BY <1>1, <2>2
      <3>2. \/ lru[i - 1].tid = lru[j - 1].tid
            \/ lru[i - 1].uuid = lru[j - 1].uuid
        BY <1>7, <1>11, <3>1
      <3>3. i - 1 = j - 1
        BY <1>3, <1>7, <3>1, <3>2
      <3>. QED BY <1>1, <3>3
    <2>. QED BY <2>1, <2>2
  <1>12. index' \in [Cached' -> Nat] /\ Cached' \subseteq Nat
    BY <1>2, <1>8 DEF CacheTypeOK, Cached
  <1>13. CacheTypeOK'
    BY <1>1, <1>2, <1>12 DEF CacheTypeOK
  <1>14. Coherent'
    BY <1>1, <1>9, <1>10, <1>11 DEF Coherent
  <1>. QED BY <1>13, <1>14

(* A box resolved keeps the cache in order.                                *)
LEMMA ResolveKeeps ==
  ASSUME CacheTypeOK, Coherent, NEW tid \in Nat, Resolve(tid)
  PROVE  CacheTypeOK' /\ Coherent'
  BY HitKeeps, MissKeeps DEF Resolve

-----------------------------------------------------------------------------
(* Every UUID belongs to one integer id, the one the cache holds it for;   *)
(* only the connection may differ between the tracks it was shown for.     *)
UuidsOwned ==
  /\ \A u \in 1..made : \A s, t \in shown[u] : s[2] = t[2]
  /\ \A c \in Cached : \A s \in shown[index[c]] : s[2] = c

IInv == TypeOK /\ Coherent /\ UuidsOwned

(* What the map names was made.                                            *)
LEMMA IndexInMade ==
  ASSUME Coherent, NEW c \in Cached
  PROVE  index[c] \in 1..made
  <1>1. PICK i \in 1..Len(lru) : lru[i].tid = c
    BY DEF Coherent
  <1>. QED BY <1>1 DEF Coherent

(* The cache starts empty.                                                 *)
LEMMA InitIInv == Init => IInv
  <1> SUFFICES ASSUME Init PROVE IInv
    OBVIOUS
  <1>1. lru = <<>> /\ Cached = {} /\ made = 0 /\ Len(lru) = 0
    BY DEF Init, CacheInit, Cached
  <1>2. CacheTypeOK
    BY <1>1 DEF CacheTypeOK, Init, CacheInit
  <1>3. Coherent
    BY <1>1, CapAssumption DEF Coherent
  <1>4. nextId = 1 /\ W!Live = {} /\ frame = {} /\ maxAge \in MaxAges
    BY DEF Init, W!Init, W!Live
  <1>5. shown \in [1..made -> SUBSET (Nat \X Nat)]
    BY <1>1 DEF Init
  <1>6. TypeOK
    <2>1. /\ nextId \in 1..(IdBound + 1) /\ W!Live \subseteq 1..(nextId - 1)
          /\ conn \in 1..MaxConns
      BY <1>4, BoundsAssumption DEF Init
    <2>2. pending \subseteq frame /\ frame \subseteq W!Live
      BY <1>4 DEF Init
    <2>. QED BY <1>2, <1>4, <1>5, <2>1, <2>2 DEF TypeOK, Init
  <1>. QED BY <1>1, <1>3, <1>6 DEF IInv, UuidsOwned

(* The tracker's part of the state after each of its operations.           *)
LEMMA ResightType ==
  ASSUME TypeOK, W!Resight
  PROVE  /\ nextId' = nextId /\ maxAge' = maxAge
         /\ W!Live' \subseteq W!Live /\ frame' \subseteq W!Live'
  <1>1. PICK seen \in SUBSET W!Live :
          age' = W!Aged(seen, maxAge) /\ frame' = seen
    BY DEF W!Resight
  <1>2. maxAge \in Nat
    BY MaxAgesAssumption DEF TypeOK
  <1>3. W!Live' = {j \in W!Live : (IF j \in seen THEN 0 ELSE age[j] + 1) <= maxAge}
    BY <1>1 DEF W!Aged, W!Live
  <1>4. seen \subseteq W!Live'
    BY <1>2, <1>3
  <1>. QED BY <1>1, <1>3, <1>4 DEF W!Resight

(* One box of a reply through resolveTrackUuid.                            *)
LEMMA ResolveBoxKeeps ==
  ASSUME IInv, ResolveBox
  PROVE  IInv'
  <1>1. PICK tid \in pending :
          /\ Resolve(tid)
          /\ pending' = pending \ {tid}
          /\ shown' = [u \in DOMAIN shown \cup {Answer(tid)} |->
                         IF u # Answer(tid) THEN shown[u]
                         ELSE {TrackOf(tid)} \cup
                              (IF u \in DOMAIN shown THEN shown[u] ELSE {})]
    BY DEF ResolveBox
  <1>2. /\ tid \in Nat /\ conn \in Nat /\ made \in Nat
        /\ CacheTypeOK /\ Coherent /\ UuidsOwned
        /\ DOMAIN shown = 1..made
        /\ shown \in [1..made -> SUBSET (Nat \X Nat)]
    BY BoundsAssumption DEF IInv, TypeOK, CacheTypeOK
  <1>3. CacheTypeOK' /\ Coherent'
    BY <1>1, <1>2, ResolveKeeps
  <1>4. TrackOf(tid) \in Nat \X Nat /\ TrackOf(tid)[2] = tid
    BY <1>2 DEF TrackOf
  <1>5. CASE tid \in Cached
    <2>1. /\ Answer(tid) = index[tid] /\ index[tid] \in 1..made
          /\ index' = index /\ made' = made /\ Cached' = Cached
      BY <1>1, <1>2, <1>5, IndexInMade DEF Answer, Resolve, Hit, Miss, Cached
    <2>2. \A u \in 1..made : shown'[u] =
            IF u = index[tid] THEN {TrackOf(tid)} \cup shown[u] ELSE shown[u]
      BY <1>1, <1>2, <2>1
    <2>3. shown' \in [1..made' -> SUBSET (Nat \X Nat)]
      BY <1>1, <1>2, <1>4, <2>1
    <2>4. ASSUME NEW u \in 1..made', NEW s \in shown'[u], NEW t \in shown'[u]
          PROVE  s[2] = t[2]
      <3>1. CASE u = index[tid]
        <4>1. \A r \in shown[u] : r[2] = tid
          BY <1>2, <1>5, <3>1 DEF UuidsOwned
        <4>. QED BY <1>4, <2>1, <2>2, <2>4, <3>1, <4>1
      <3>2. CASE u # index[tid]
        BY <1>2, <2>1, <2>2, <2>4, <3>2 DEF UuidsOwned
      <3>. QED BY <3>1, <3>2
    <2>5. ASSUME NEW c \in Cached, NEW s \in shown'[index[c]]
          PROVE  s[2] = c
      <3>1. index[c] \in 1..made
        BY <1>2, IndexInMade
      <3>2. CASE index[c] # index[tid]
        BY <1>2, <2>2, <3>1, <3>2 DEF UuidsOwned
      <3>3. CASE index[c] = index[tid]
        <4>1. c = tid
          <5>1. PICK i \in 1..Len(lru) : lru[i].tid = c
            BY <1>2 DEF Coherent
          <5>2. PICK j \in 1..Len(lru) : lru[j].tid = tid
            BY <1>2, <1>5 DEF Coherent
          <5>3. lru[i].uuid = lru[j].uuid
            BY <1>2, <3>3, <5>1, <5>2 DEF Coherent
          <5>. QED BY <1>2, <5>1, <5>2, <5>3 DEF Coherent
        <4>. QED BY <1>2, <1>4, <1>5, <2>2, <3>1, <4>1 DEF UuidsOwned
      <3>. QED BY <3>2, <3>3
    <2>6. UuidsOwned'
      BY <2>1, <2>4, <2>5 DEF UuidsOwned
    <2>. QED BY <1>1, <1>2, <1>3, <2>3, <2>6 DEF IInv, TypeOK, ResolveBox, worker, W!Live
  <1>6. CASE tid \notin Cached
    <2>1. /\ Answer(tid) = made + 1 /\ made' = made + 1
          /\ Cached' \subseteq Cached \cup {tid}
          /\ \A c \in Cached' :
               index'[c] = IF c = tid THEN made + 1 ELSE index[c]
      BY <1>1, <1>6 DEF Answer, Resolve, Hit, Miss, Cached
    <2>2. \A u \in 1..made' : shown'[u] =
            IF u = made + 1 THEN {TrackOf(tid)} ELSE shown[u]
      <3>1. made + 1 \notin 1..made /\ 1..made' = 1..made \cup {made + 1}
        BY <1>2, <2>1
      <3>. QED BY <1>1, <1>2, <2>1, <3>1
    <2>3. shown' \in [1..made' -> SUBSET (Nat \X Nat)]
      BY <1>1, <1>2, <1>4, <2>1
    <2>4. ASSUME NEW u \in 1..made', NEW s \in shown'[u], NEW t \in shown'[u]
          PROVE  s[2] = t[2]
      <3>1. CASE u = made + 1
        BY <2>2, <2>4, <3>1
      <3>2. CASE u # made + 1
        <4>1. u \in 1..made /\ s \in shown[u] /\ t \in shown[u]
          BY <1>2, <2>1, <2>2, <2>4, <3>2
        <4>. QED BY <1>2, <4>1 DEF UuidsOwned
      <3>. QED BY <3>1, <3>2
    <2>5. ASSUME NEW c \in Cached', NEW s \in shown'[index'[c]]
          PROVE  s[2] = c
      <3>1. CASE c = tid
        <4>1. index'[c] = made + 1 /\ made + 1 \in 1..made'
          BY <1>2, <2>1, <2>5, <3>1
        <4>. QED BY <1>4, <2>2, <2>5, <3>1, <4>1
      <3>2. CASE c # tid
        <4>1. /\ c \in Cached /\ index'[c] = index[c]
              /\ index[c] \in 1..made
          BY <1>2, <2>1, <2>5, <3>2, IndexInMade
        <4>2. index[c] \in 1..made' /\ index[c] # made + 1
          BY <1>2, <2>1, <4>1
        <4>3. s \in shown[index[c]]
          BY <2>2, <2>5, <4>1, <4>2
        <4>. QED BY <1>2, <4>1, <4>3 DEF UuidsOwned
      <3>. QED BY <3>1, <3>2
    <2>6. UuidsOwned'
      BY <2>4, <2>5 DEF UuidsOwned
    <2>. QED BY <1>1, <1>2, <1>3, <2>3, <2>6 DEF IInv, TypeOK, ResolveBox, worker, W!Live
  <1>. QED BY <1>5, <1>6

(* The steps that leave the cache and the history alone.                   *)
LEMMA CacheUntouched ==
  ASSUME IInv, UNCHANGED <<lru, index, made, shown>>
  PROVE  /\ CacheTypeOK' /\ Coherent' /\ UuidsOwned'
         /\ shown' \in [1..made' -> SUBSET (Nat \X Nat)]
  <1>1. CacheTypeOK'
    BY DEF IInv, TypeOK, CacheTypeOK, Cached
  <1>2. Coherent'
    BY DEF IInv, Coherent, Cached
  <1>3. UuidsOwned'
    BY DEF IInv, UuidsOwned, Cached
  <1>. QED BY <1>1, <1>2, <1>3 DEF IInv, TypeOK

(* One step for each action of the camera, the worker and the reconnect.   *)
LEMMA StepIInv == IInv /\ [Next]_vars => IInv'
  <1> SUFFICES ASSUME IInv, [Next]_vars PROVE IInv'
    OBVIOUS
  <1>1. TypeOK
    BY DEF IInv
  <1>2. CASE WorkerSees
    <2>1. W!Resight
      BY <1>2 DEF WorkerSees
    <2>2. /\ nextId' = nextId /\ maxAge' = maxAge
          /\ W!Live' \subseteq W!Live /\ frame' \subseteq W!Live'
      BY <1>1, <2>1, ResightType
    <2>3. UNCHANGED <<lru, index, made, shown>>
      BY <1>2 DEF WorkerSees, cache
    <2>. QED BY <1>1, <1>2, <2>2, <2>3, CacheUntouched
              DEF WorkerSees, IInv, TypeOK
  <1>3. CASE WorkerIssues
    <2>1. /\ nextId' = nextId + 1 /\ maxAge' = maxAge
          /\ W!Live' = W!Live \cup {nextId} /\ frame' = frame \cup {nextId}
      BY <1>3 DEF WorkerIssues, W!Issue, W!Live
    <2>2. nextId \in Nat /\ nextId <= IdBound
      BY <1>1, <1>3, BoundsAssumption DEF WorkerIssues, TypeOK
    <2>3. nextId' \in 1..(IdBound + 1) /\ W!Live' \subseteq 1..(nextId' - 1)
      BY <1>1, <2>1, <2>2, BoundsAssumption DEF TypeOK
    <2>4. UNCHANGED <<lru, index, made, shown>>
      BY <1>3 DEF WorkerIssues, cache
    <2>. QED BY <1>1, <1>3, <2>1, <2>3, <2>4, CacheUntouched
              DEF WorkerIssues, IInv, TypeOK
  <1>4. CASE WorkerReconfigures
    <2>1. /\ maxAge' \in MaxAges /\ nextId' = nextId /\ frame' = frame
          /\ W!Live' = W!Live
      BY <1>4 DEF WorkerReconfigures, W!SetMaxAge, W!Live
    <2>2. UNCHANGED <<lru, index, made, shown>>
      BY <1>4 DEF WorkerReconfigures, cache
    <2>. QED BY <1>1, <1>4, <2>1, <2>2, CacheUntouched
              DEF WorkerReconfigures, IInv, TypeOK
  <1>5. CASE Reply
    <2>1. UNCHANGED <<lru, index, made, shown>>
      BY <1>5 DEF Reply, cache
    <2>2. crowded' \in BOOLEAN
      BY <1>5 DEF Reply
    <2>. QED BY <1>1, <1>5, <2>1, <2>2, CacheUntouched
              DEF Reply, IInv, TypeOK, worker, W!Live
  <1>6. CASE ResolveBox
    BY <1>6, ResolveBoxKeeps
  <1>7. CASE Emit
    <2>1. /\ maxAge' = maxAge /\ nextId' = nextId /\ frame' = {}
          /\ W!Live' = W!Live
      BY <1>7 DEF Emit, W!Done, W!Live
    <2>2. UNCHANGED <<lru, index, made, shown>>
      BY <1>7 DEF Emit, cache
    <2>. QED BY <1>1, <1>7, <2>1, <2>2, CacheUntouched DEF Emit, IInv, TypeOK
  <1>8. CASE Reconnect
    <2>1. /\ conn' \in 1..MaxConns /\ nextId' = 1 /\ W!Live' = {}
          /\ nextId' \in 1..(IdBound + 1)
      BY <1>1, <1>8, BoundsAssumption DEF Reconnect, TypeOK, W!Live
    <2>2. UNCHANGED <<lru, index, made, shown>>
      BY <1>8 DEF Reconnect, cache
    <2>. QED BY <1>1, <1>8, <2>1, <2>2, CacheUntouched
              DEF Reconnect, IInv, TypeOK
  <1>9. CASE UNCHANGED vars
    <2>1. UNCHANGED <<lru, index, made, shown>> /\ W!Live' = W!Live
      BY <1>9 DEF vars, W!Live
    <2>. QED BY <1>1, <1>9, <2>1, CacheUntouched DEF vars, IInv, TypeOK
  <1>. QED
    BY <1>2, <1>3, <1>4, <1>5, <1>6, <1>7, <1>8, <1>9 DEF Next

(* The cache is coherent, and a UUID shown in this connection belongs to   *)
(* the id it was shown for, in every state.                                *)
THEOREM IdentityInvariant == Spec => []IInv
  BY InitIInv, StepIInv, PTL DEF Spec

(* The state of tracker, cache and frame thread keeps its type.            *)
THEOREM IdentityTypeOK == Spec => []TypeOK
  <1>1. IInv => TypeOK
    BY DEF IInv
  <1>. QED BY <1>1, IdentityInvariant, PTL

(* List and map of the UUID cache never disagree and never exceed Cap.     *)
THEOREM CacheIsCoherent == Spec => []Coherent
  <1>1. IInv => Coherent
    BY DEF IInv
  <1>. QED BY <1>1, IdentityInvariant, PTL

(* Two tracks of one connection are never merged under a UUID.             *)
THEOREM TracksAreNotMerged == Spec => []NoMergeInConnection
  <1>1. IInv => NoMergeInConnection
    <2> SUFFICES ASSUME IInv, NEW u \in DOMAIN shown,
                        NEW s \in shown[u], NEW t \in shown[u], s[1] = t[1]
                 PROVE  s = t
      BY DEF NoMergeInConnection
    <2>1. u \in 1..made /\ s \in Nat \X Nat /\ t \in Nat \X Nat
      BY DEF IInv, TypeOK
    <2>2. s[2] = t[2]
      BY <2>1 DEF IInv, UuidsOwned
    <2>. QED BY <2>1, <2>2
  <1>. QED BY <1>1, IdentityInvariant, PTL

-----------------------------------------------------------------------------
(* Recency.  What stands before an entry that was used in this connection  *)
(* was used later in it, and so its track cannot have been dropped before  *)
(* the entry's own: the tracker drops by the frames since a track was      *)
(* seen.  While a frame is in progress this is not so for the boxes that   *)
(* are not resolved yet, and a track that died in this very frame can      *)
(* stand before a live one; both were around.                              *)
Used(e) == TrackOf(e.tid) \in shown[e.uuid]
Unplaced == IF phase = "worker" THEN frame ELSE pending

FrameOK ==
  /\ age \in [W!Live -> Nat]
  /\ phase = "camera" => frame = {}
  /\ \A t \in frame : age[t] = 0
  /\ phase # "camera" => W!Live \subseteq around /\ around \subseteq 1..(nextId - 1)

Newer(t, s) == t \in Unplaced \/ (t \in W!Live /\ age[t] <= age[s])

InOrder(front, back) ==
  Used(back) =>
    /\ Used(front)
    /\ back.tid \in W!Live =>
         /\ phase # "camera" => front.tid \in around
         /\ back.tid \in Unplaced \/ Newer(front.tid, back.tid)

RecencyOK == \A i, j \in 1..Len(lru) : i < j => InOrder(lru[i], lru[j])

(* Tracks of a later connection or of ids to come were not shown.          *)
ShownOK ==
  \A u \in 1..made : \A s \in shown[u] :
    s[1] <= conn /\ (s[1] = conn => s[2] < nextId)

RInv == IInv /\ FrameOK /\ RecencyOK /\ ShownOK

(* Resolving a box puts its entry first and leaves the order of the others *)
(* that stay.                                                              *)
LEMMA ResolveMoves ==
  ASSUME CacheTypeOK, Coherent, NEW tid \in Nat, Resolve(tid)
  PROVE  /\ Len(lru') \in Nat \ {0} /\ lru'[1].tid = tid /\ lru'[1].uuid = Answer(tid)
         /\ \E from \in [2..Len(lru') -> 1..Len(lru)] :
              /\ \A j \in 2..Len(lru') :
                   /\ lru'[j] = lru[from[j]]
                   /\ lru[from[j]].tid # tid /\ lru[from[j]].uuid # Answer(tid)
              /\ \A i, j \in 2..Len(lru') : i < j => from[i] < from[j]
  <1>1. lru \in Seq(Entry) /\ Len(lru) \in Nat /\ made \in Nat
    BY DEF CacheTypeOK
  <1>2. CASE Hit(tid)
    <2>1. PICK p \in 1..Len(lru) : lru[p].uuid = index[tid] /\ lru' = ToFront(p)
      BY <1>2 DEF Hit
    <2>2. lru[p].tid = tid
      <3>1. PICK q \in 1..Len(lru) : lru[q].tid = tid
        BY <1>2 DEF Hit, Coherent
      <3>2. lru[q].uuid = index[tid]
        BY <3>1 DEF Coherent
      <3>. QED BY <2>1, <3>1, <3>2 DEF Coherent
    <2>3. /\ Len(lru') = Len(lru) /\ lru'[1] = lru[p]
          /\ \A i \in 2..Len(lru) : lru'[i] = IF i <= p THEN lru[i - 1] ELSE lru[i]
      BY <1>1, <2>1, ToFrontProperties
    <2>4. Answer(tid) = index[tid]
      BY <1>2 DEF Hit, Answer
    <2> DEFINE from == [j \in 2..Len(lru') |-> IF j <= p THEN j - 1 ELSE j]
    <2>5. ASSUME NEW j \in 2..Len(lru')
          PROVE  /\ from[j] \in 1..Len(lru) /\ from[j] # p
                 /\ lru'[j] = lru[from[j]]
      BY <1>1, <2>3
    <2>6. \A j \in 2..Len(lru') :
            lru[from[j]].tid # tid /\ lru[from[j]].uuid # Answer(tid)
      <3>. HIDE DEF from
      <3>. QED BY <2>1, <2>2, <2>4, <2>5 DEF Coherent
    <2>7. \A i, j \in 2..Len(lru') : i < j => from[i] < from[j]
      BY <1>1, <2>3
    <2>8. from \in [2..Len(lru') -> 1..Len(lru)]
      BY <2>5
    <2>9. Len(lru') \in Nat \ {0}
      BY <1>1, <2>3
    <2>. HIDE DEF from
    <2>. QED BY <2>1, <2>2, <2>3, <2>4, <2>5, <2>6, <2>7, <2>8, <2>9
  <1>3. CASE Miss(tid)
    <2>1. tid \notin Cached
      BY <1>3 DEF Miss
    <2>2. /\ Len(lru') \in Nat \ {0} /\ Len(lru') <= Len(lru) + 1
          /\ lru'[1] = NewEntry(tid)
          /\ \A j \in 2..Len(lru') : lru'[j] = lru[j - 1]
      BY <1>1, <1>3, MissEntries, CapAssumption
    <2>5. Answer(tid) = made + 1
      BY <2>1 DEF Answer
    <2> DEFINE from == [j \in 2..Len(lru') |-> j - 1]
    <2>6. ASSUME NEW j \in 2..Len(lru')
          PROVE  from[j] \in 1..Len(lru) /\ lru'[j] = lru[from[j]]
      BY <1>1, <2>2
    <2>7. \A j \in 2..Len(lru') :
            lru[from[j]].tid # tid /\ lru[from[j]].uuid # Answer(tid)
      <3>1. ASSUME NEW i \in 1..Len(lru)
            PROVE  lru[i].tid # tid /\ lru[i].uuid # made + 1
        <4>1. lru[i].tid \in Cached /\ lru[i].uuid \in 1..made
          BY DEF Coherent
        <4>. QED BY <1>1, <2>1, <4>1
      <3>. HIDE DEF from
      <3>. QED BY <2>5, <2>6, <3>1
    <2>8. \A i, j \in 2..Len(lru') : i < j => from[i] < from[j]
      BY <2>2
    <2>9. from \in [2..Len(lru') -> 1..Len(lru)]
      BY <2>6
    <2>10. /\ Len(lru') \in Nat \ {0}
           /\ lru'[1].tid = tid /\ lru'[1].uuid = made + 1
      BY <2>2 DEF NewEntry
    <2>. HIDE DEF from
    <2>. QED BY <2>5, <2>6, <2>7, <2>8, <2>9, <2>10
  <1>. QED BY <1>2, <1>3 DEF Resolve

(* A step that leaves the cache and what was shown alone keeps the order   *)
(* if it keeps each pair of tracks in order.                               *)
LEMMA OrderUntouched ==
  ASSUME RecencyOK, UNCHANGED <<lru, shown, conn>>,
         \A i, j \in 1..Len(lru) :
           InOrder(lru[i], lru[j]) /\ Used(lru[i]) /\ Used(lru[j]) /\ (lru[j].tid \in W!Live)' =>
             InOrder(lru[i], lru[j])'
  PROVE  RecencyOK'
  <1>1. \A i \in 1..Len(lru) : Used(lru[i])' <=> Used(lru[i])
    BY DEF Used, TrackOf
  <1>2. ASSUME NEW i \in 1..Len(lru), NEW j \in 1..Len(lru), i < j
        PROVE  InOrder(lru[i], lru[j])'
    <2>1. InOrder(lru[i], lru[j])
      BY <1>2 DEF RecencyOK
    <2>. QED BY <1>1, <2>1 DEF InOrder
  <1>. QED BY <1>2 DEF RecencyOK

(* A frame at the tracker: a track that was seen is unplaced now, and of   *)
(* two that were missed the older one is dropped first.                    *)
LEMMA SeesKeepsOrder ==
  ASSUME RInv, WorkerSees
  PROVE  FrameOK' /\ RecencyOK' /\ ShownOK'
  <1>1. PICK seen \in SUBSET W!Live : age' = W!Aged(seen, maxAge) /\ frame' = seen
    BY DEF WorkerSees, W!Resight
  <1>2. /\ UNCHANGED <<lru, index, made, conn, pending, shown, nextId, maxAge>>
        /\ phase = "camera" /\ phase' = "worker" /\ around' = W!Live
    BY DEF WorkerSees, W!Resight, cache
  <1>3. /\ maxAge \in Nat /\ frame = {} /\ pending = {} /\ age \in [W!Live -> Nat]
        /\ W!Live \subseteq 1..(nextId - 1)
    BY <1>2, MaxAgesAssumption DEF RInv, IInv, TypeOK, FrameOK
  <1>4. /\ W!Live' = {t \in W!Live : (IF t \in seen THEN 0 ELSE age[t] + 1) <= maxAge}
        /\ \A t \in W!Live' : age'[t] = IF t \in seen THEN 0 ELSE age[t] + 1
        /\ age' = [t \in W!Live' |-> IF t \in seen THEN 0 ELSE age[t] + 1]
    BY <1>1 DEF W!Aged, W!Live
  <1>5. FrameOK'
    <2>1. age' \in [W!Live' -> Nat]
      <3>1. \A t \in W!Live' : (IF t \in seen THEN 0 ELSE age[t] + 1) \in Nat
        BY <1>3, <1>4
      <3>. QED BY <1>4, <3>1
    <2>2. \A t \in frame' : age'[t] = 0
      BY <1>1, <1>3, <1>4
    <2>. QED BY <1>2, <1>3, <1>4, <2>1, <2>2 DEF FrameOK
  <1>6. ShownOK'
    BY <1>2 DEF RInv, ShownOK
  <1>7. ASSUME NEW e, NEW f, InOrder(e, f), Used(e), Used(f), f.tid \in W!Live'
        PROVE  InOrder(e, f)'
    <2>1. f.tid \in W!Live /\ e.tid \in W!Live /\ age[e.tid] <= age[f.tid]
      BY <1>2, <1>3, <1>4, <1>7 DEF InOrder, Newer, Unplaced
    <2>2. Unplaced' = seen
      BY <1>1, <1>2 DEF Unplaced
    <2>3. f.tid \in seen \/ e.tid \in seen
          \/ (e.tid \in W!Live' /\ age'[e.tid] <= age'[f.tid])
      <3>1. SUFFICES ASSUME f.tid \notin seen, e.tid \notin seen
                     PROVE  e.tid \in W!Live' /\ age'[e.tid] <= age'[f.tid]
        OBVIOUS
      <3>2. age[f.tid] + 1 <= maxAge /\ age'[f.tid] = age[f.tid] + 1
        BY <1>4, <1>7, <3>1
      <3>3. age[e.tid] \in Nat /\ age[f.tid] \in Nat
        BY <1>3, <2>1
      <3>4. e.tid \in W!Live'
        BY <1>3, <1>4, <2>1, <3>1, <3>2, <3>3
      <3>5. age'[e.tid] = age[e.tid] + 1
        BY <1>4, <3>1, <3>4
      <3>. QED BY <2>1, <3>2, <3>3, <3>4, <3>5
    <2>. QED BY <1>2, <1>7, <2>1, <2>2, <2>3 DEF InOrder, Newer, Used, TrackOf
  <1>. QED BY <1>2, <1>5, <1>6, <1>7, OrderUntouched DEF RInv

(* A new id is neither in the cache nor shown.                             *)
LEMMA IssueKeepsOrder ==
  ASSUME RInv, WorkerIssues
  PROVE  FrameOK' /\ RecencyOK' /\ ShownOK'
  <1>1. /\ UNCHANGED <<lru, index, made, conn, phase, pending, shown, maxAge>>
        /\ phase = "worker" /\ around' = around \cup {nextId}
        /\ age' = [i \in W!Live \cup {nextId} |-> IF i = nextId THEN 0 ELSE age[i]]
        /\ frame' = frame \cup {nextId} /\ nextId' = nextId + 1
    BY DEF WorkerIssues, W!Issue, cache
  <1>2. /\ nextId \in Nat \ {0} /\ age \in [W!Live -> Nat]
        /\ W!Live \subseteq around /\ around \subseteq 1..(nextId - 1)
        /\ frame \subseteq W!Live /\ \A t \in frame : age[t] = 0
    BY <1>1 DEF RInv, IInv, TypeOK, FrameOK
  <1>3. W!Live' = W!Live \cup {nextId}
    BY <1>1 DEF W!Live
  <1>4. FrameOK'
    BY <1>1, <1>2, <1>3 DEF FrameOK
  <1>5. \A u \in 1..made : \A s \in shown[u] : s[1] = conn => s[2] < nextId
    BY DEF RInv, ShownOK
  <1>6. ShownOK'
    <2>1. ASSUME NEW u \in 1..made, NEW s \in shown[u], s[1] = conn
          PROVE  s[2] < nextId + 1
      <3>1. s[2] < nextId /\ s[2] \in Nat
        BY <1>5, <2>1 DEF RInv, IInv, TypeOK
      <3>. QED BY <1>2, <3>1
    <2>. QED BY <1>1, <2>1 DEF RInv, ShownOK
  <1>7. ASSUME NEW i \in 1..Len(lru), Used(lru[i])
        PROVE  lru[i].tid # nextId
    <2>1. lru[i].uuid \in 1..made
      BY DEF RInv, IInv, Coherent
    <2>2. lru[i].tid < nextId
      BY <1>5, <1>7, <2>1 DEF Used, TrackOf
    <2>. QED BY <1>2, <2>2
  <1>8. ASSUME NEW i \in 1..Len(lru), NEW j \in 1..Len(lru),
               InOrder(lru[i], lru[j]), Used(lru[i]), Used(lru[j]), lru[j].tid \in W!Live'
        PROVE  InOrder(lru[i], lru[j])'
    <2>1. lru[i].tid # nextId /\ lru[j].tid # nextId /\ lru[j].tid \in W!Live
      BY <1>3, <1>7, <1>8
    <2>2. Unplaced = frame /\ Unplaced' = frame \cup {nextId}
      BY <1>1 DEF Unplaced
    <2>3. \A t \in W!Live : t # nextId => age'[t] = age[t]
      BY <1>1
    <2>. QED BY <1>1, <1>3, <1>8, <2>1, <2>2, <2>3 DEF InOrder, Newer, Used, TrackOf
  <1>. QED BY <1>1, <1>4, <1>6, <1>8, OrderUntouched DEF RInv

(* A box resolved: its track was seen just now, so the front is its place. *)
LEMMA ResolveKeepsOrder ==
  ASSUME RInv, ResolveBox
  PROVE  FrameOK' /\ RecencyOK' /\ ShownOK'
  <1>1. PICK tid \in pending :
          /\ Resolve(tid)
          /\ pending' = pending \ {tid}
          /\ shown' = [u \in DOMAIN shown \cup {Answer(tid)} |->
                         IF u # Answer(tid) THEN shown[u]
                         ELSE {TrackOf(tid)} \cup
                              (IF u \in DOMAIN shown THEN shown[u] ELSE {})]
    BY DEF ResolveBox
  <1>2. /\ UNCHANGED <<nextId, age, maxAge, frame, conn, phase, around>> /\ phase = "plugin"
        /\ W!Live' = W!Live
    BY DEF ResolveBox, worker, W!Live
  <1>3. /\ CacheTypeOK /\ Coherent /\ CacheTypeOK' /\ Coherent' /\ made \in Nat /\ IInv'
        /\ DOMAIN shown = 1..made /\ shown \in [1..made -> SUBSET (Nat \X Nat)]
        /\ shown' \in [1..made' -> SUBSET (Nat \X Nat)]
    <2>1. IInv'
      BY ResolveBoxKeeps DEF RInv
    <2>. QED BY <2>1 DEF RInv, IInv, TypeOK, CacheTypeOK
  <1>4. /\ tid \in W!Live /\ tid \in around /\ tid \in Nat /\ age[tid] = 0 /\ tid < nextId
        /\ age \in [W!Live -> Nat] /\ conn \in Nat
    BY <1>2, BoundsAssumption DEF RInv, IInv, TypeOK, FrameOK
  <1>5. TrackOf(tid) \in shown'[Answer(tid)] /\ TrackOf(tid)[1] = conn /\ TrackOf(tid)[2] = tid
    BY <1>1 DEF TrackOf
  <1>6. FrameOK'
    BY <1>2 DEF RInv, FrameOK
  <1>7. ShownOK'
    <2>1. ASSUME NEW u \in 1..made', NEW s \in shown'[u]
          PROVE  s = TrackOf(tid) \/ (u \in 1..made /\ s \in shown[u])
      <3>1. u \in DOMAIN shown'
        BY <1>3
      <3>. QED BY <1>1, <1>3, <2>1, <3>1
    <2>. QED BY <1>2, <1>4, <1>5, <2>1 DEF RInv, ShownOK
  <1>8. PICK from \in [2..Len(lru') -> 1..Len(lru)] :
          /\ \A j \in 2..Len(lru') :
               /\ lru'[j] = lru[from[j]]
               /\ lru[from[j]].tid # tid /\ lru[from[j]].uuid # Answer(tid)
          /\ \A i, j \in 2..Len(lru') : i < j => from[i] < from[j]
    BY <1>1, <1>3, <1>4, ResolveMoves
  <1>9. /\ Len(lru') \in Nat \ {0} /\ lru'[1].tid = tid /\ lru'[1].uuid = Answer(tid)
    BY <1>1, <1>3, <1>4, ResolveMoves
  <1>10. Used(lru[1])'
    BY <1>2, <1>5, <1>9 DEF Used, TrackOf
  <1>11. ASSUME NEW j \in 2..Len(lru')
         PROVE  Used(lru[j])' <=> Used(lru[from[j]])
    <2>1. lru[from[j]].uuid \in 1..made
      BY <1>3 DEF Coherent
    <2>2. shown'[lru[from[j]].uuid] = shown[lru[from[j]].uuid]
      BY <1>1, <1>3, <1>8, <2>1
    <2>. QED BY <1>2, <1>8, <2>2 DEF Used, TrackOf
  <1>12. Unplaced = pending /\ Unplaced' = pending \ {tid}
    BY <1>1, <1>2 DEF Unplaced
  <1>13. ASSUME NEW j \in 2..Len(lru')
         PROVE  InOrder(lru[1], lru[j])'
    <2>1. lru'[j].tid \in W!Live => age[tid] <= age[lru'[j].tid]
      BY <1>4
    <2>. QED BY <1>2, <1>4, <1>9, <1>10, <2>1 DEF InOrder, Newer
  <1>14. ASSUME NEW i \in 2..Len(lru'), NEW j \in 2..Len(lru'), i < j
         PROVE  InOrder(lru[i], lru[j])'
    <2>1. InOrder(lru[from[i]], lru[from[j]])
      BY <1>8, <1>14 DEF RInv, RecencyOK
    <2>2. /\ lru'[i] = lru[from[i]] /\ lru[from[i]].tid # tid
          /\ lru'[j] = lru[from[j]] /\ lru[from[j]].tid # tid
      BY <1>8
    <2>. QED BY <1>2, <1>11, <1>12, <2>1, <2>2 DEF InOrder, Newer
  <1>15. ASSUME NEW i \in 1..Len(lru'), NEW j \in 1..Len(lru'), i < j
         PROVE  InOrder(lru[i], lru[j])'
    <2>1. j \in 2..Len(lru') /\ (i = 1 \/ i \in 2..Len(lru'))
      BY <1>9, <1>15
    <2>2. CASE i = 1
      BY <1>13, <2>1, <2>2
    <2>3. CASE i \in 2..Len(lru')
      BY <1>14, <1>15, <2>1, <2>3
    <2>. QED BY <2>1, <2>2, <2>3
  <1>16. RecencyOK'
    BY <1>15 DEF RecencyOK
  <1>. QED BY <1>6, <1>7, <1>16

(* The steps that do not touch the tracks or the cache.                    *)
LEMMA RestKeepsOrder ==
  ASSUME RInv, WorkerReconfigures \/ Reply \/ Emit \/ UNCHANGED vars
  PROVE  FrameOK' /\ RecencyOK' /\ ShownOK'
  <1>1. /\ UNCHANGED <<lru, index, made, conn, shown, age, nextId>> /\ W!Live' = W!Live
    BY DEF WorkerReconfigures, Reply, Emit, W!SetMaxAge, W!Done, W!Live, cache, worker, vars
  <1>2. /\ Unplaced' = Unplaced
        /\ phase' # "camera" => phase # "camera" /\ around' = around /\ frame' = frame
        /\ phase' = "camera" => frame' = {}
    BY DEF WorkerReconfigures, Reply, Emit, W!SetMaxAge, W!Done, cache, worker, vars,
           Unplaced, RInv, IInv, TypeOK, FrameOK
  <1>3. FrameOK'
    BY <1>1, <1>2 DEF RInv, FrameOK
  <1>4. ShownOK'
    BY <1>1 DEF RInv, ShownOK
  <1>5. \A e, f : InOrder(e, f) => InOrder(e, f)'
    BY <1>1, <1>2 DEF InOrder, Newer, Used, TrackOf
  <1>. QED BY <1>1, <1>3, <1>4, <1>5, OrderUntouched DEF RInv

(* In a new connection nothing was used yet.                               *)
LEMMA ReconnectKeepsOrder ==
  ASSUME RInv, Reconnect
  PROVE  FrameOK' /\ RecencyOK' /\ ShownOK'
  <1>1. /\ UNCHANGED <<lru, index, made, shown>> /\ conn \in Nat /\ conn' = conn + 1
        /\ age' = [i \in {} |-> 0] /\ frame' = {} /\ phase' = "camera"
    BY BoundsAssumption DEF Reconnect, cache, RInv, IInv, TypeOK
  <1>2. FrameOK'
    BY <1>1 DEF FrameOK, W!Live
  <1>3. ASSUME NEW u \in 1..made, NEW s \in shown[u]
        PROVE  s[1] \in Nat /\ s[1] <= conn
    BY DEF RInv, IInv, TypeOK, ShownOK
  <1>4. ShownOK'
    BY <1>1, <1>3 DEF ShownOK
  <1>5. ASSUME NEW i \in 1..Len(lru) PROVE ~Used(lru[i])'
    <2>1. lru[i].uuid \in 1..made
      BY DEF RInv, IInv, Coherent
    <2>2. TrackOf(lru[i].tid)' = <<conn + 1, lru[i].tid>>
      BY <1>1 DEF TrackOf
    <2>. QED BY <1>1, <1>3, <2>1, <2>2 DEF Used
  <1>6. RecencyOK'
    BY <1>1, <1>5 DEF RecencyOK, InOrder
  <1>. QED BY <1>2, <1>4, <1>6

(* At the start the cache is empty.                                        *)
LEMMA InitRInv == Init => RInv
  <1> SUFFICES ASSUME Init PROVE RInv
    OBVIOUS
  <1>1. /\ Len(lru) = 0 /\ made = 0 /\ frame = {} /\ phase = "camera"
        /\ age = [i \in {} |-> 0]
    BY DEF Init, CacheInit, W!Init
  <1>. QED BY <1>1, InitIInv DEF RInv, FrameOK, RecencyOK, ShownOK, W!Live

(* One step for each action.                                               *)
LEMMA StepRInv == RInv /\ [Next]_vars => RInv'
  <1> SUFFICES ASSUME RInv, [Next]_vars PROVE RInv'
    OBVIOUS
  <1>1. IInv'
    BY StepIInv DEF RInv
  <1>2. FrameOK' /\ RecencyOK' /\ ShownOK'
    BY SeesKeepsOrder, IssueKeepsOrder, ResolveKeepsOrder, RestKeepsOrder,
       ReconnectKeepsOrder DEF Next
  <1>. QED BY <1>1, <1>2 DEF RInv

(* Entries stand in the order of their last use, in every state.           *)
THEOREM RecencyInvariant == Spec => []RInv
  BY InitRInv, StepRInv, PTL DEF Spec

-----------------------------------------------------------------------------
(* A full list has Cap ids.                                                *)
LEMMA CachedCardinality ==
  ASSUME CacheTypeOK, Coherent
  PROVE  IsFiniteSet(Cached) /\ Cardinality(Cached) = Len(lru)
  <1> DEFINE f == [i \in 1..Len(lru) |-> lru[i].tid]
  <1>1. Len(lru) \in Nat
    BY DEF CacheTypeOK
  <1>2. f \in Bijection(1..Len(lru), Cached)
    <2>1. f \in [1..Len(lru) -> Cached] /\ \A c \in Cached : \E i \in 1..Len(lru) : f[i] = c
      BY DEF Coherent
    <2>2. \A i, j \in 1..Len(lru) : f[i] = f[j] => i = j
      BY DEF Coherent
    <2>. HIDE DEF f
    <2>. QED BY <2>1, <2>2 DEF Bijection, Injection, Surjection, IsInjective
  <1>3. IsFiniteSet(1..Len(lru)) /\ Cardinality(1..Len(lru)) = Len(lru)
    <2>1. 1 \in Int /\ Len(lru) \in Int /\ (1 > Len(lru) => Len(lru) = 0)
      BY <1>1
    <2>2. /\ IsFiniteSet(1..Len(lru))
          /\ Cardinality(1..Len(lru)) = IF 1 > Len(lru) THEN 0 ELSE Len(lru) - 1 + 1
      BY <2>1, FS_Interval
    <2>. QED BY <1>1, <2>1, <2>2
  <1>. HIDE DEF f
  <1>. QED BY <1>2, <1>3, FS_Bijection DEF ExistsBijection

(* Whatever evicts a live track it has shown in this connection finds the  *)
(* list full of tracks that were around in this frame, and brings another. *)
LEMMA EvictionNeedsACrowd ==
  ASSUME RInv, NEW tid \in pending, Resolve(tid), phase = "plugin",
         NEW t \in Cached \ DOMAIN index', t \in W!Live, TrackOf(t) \in shown[index[t]]
  PROVE  Cardinality(around) > Cap
  <1>1. /\ CacheTypeOK /\ Coherent /\ Len(lru) \in Nat /\ Cap \in Nat \ {0}
        /\ pending \subseteq around /\ W!Live \subseteq around /\ tid \in Nat
        /\ around \subseteq 1..(nextId - 1) /\ nextId \in Nat
    BY CapAssumption DEF RInv, IInv, TypeOK, FrameOK, CacheTypeOK
  <1>2. Miss(tid) /\ tid \notin Cached
    BY DEF Resolve, Hit, Miss, Cached
  <1>3. t \in Victims(tid)
    BY <1>2 DEF Miss
  <1>4. PICK k \in Kept(tid)..Len(lru) : t = lru[k].tid
    BY <1>1, <1>2, <1>3, MissEntries
  <1>5. k = Len(lru) /\ k = Cap /\ k \in 1..Len(lru)
    BY <1>1, <1>4 DEF Kept, Coherent
  <1>6. Used(lru[k])
    BY <1>1, <1>4, <1>5 DEF Used, Coherent
  <1>7. ASSUME NEW c \in Cached PROVE c \in around
    <2>1. PICK i \in 1..Len(lru) : lru[i].tid = c
      BY <1>1 DEF Coherent
    <2>2. CASE i = k
      BY <1>1, <1>4, <2>1, <2>2
    <2>3. CASE i # k
      <3>1. InOrder(lru[i], lru[k])
        BY <1>1, <1>5, <2>1, <2>3 DEF RInv, RecencyOK
      <3>. QED BY <1>4, <1>6, <2>1, <3>1 DEF InOrder
    <2>. QED BY <2>2, <2>3
  <1>8. IsFiniteSet(around)
    <2>1. IsFiniteSet(1..(nextId - 1))
      BY <1>1, FS_Interval
    <2>. QED BY <1>1, <2>1, FS_Subset
  <1>9. IsFiniteSet(Cached \cup {tid}) /\ Cardinality(Cached \cup {tid}) = Cap + 1
    BY <1>1, <1>2, <1>5, CachedCardinality, FS_AddElement
  <1>10. Cached \cup {tid} \subseteq around
    BY <1>1, <1>7
  <1>11. Cardinality(around) \in Nat
    BY <1>8, FS_CardinalityType
  <1>12. Cardinality(Cached \cup {tid}) <= Cardinality(around)
    BY <1>8, <1>10, FS_Subset
  <1>. QED BY <1>1, <1>9, <1>11, <1>12

(* The cache forgets a track the worker still follows only when more than  *)
(* Cap tracks were around in one frame, whatever the capacity.             *)
THEOREM EvictedTracksAreDead == Spec => EvictedAreDead
  <1>1. ASSUME RInv, Next, index' # index,
               NEW t \in Cached \ DOMAIN index', t \in W!Live, TrackOf(t) \in shown[index[t]]
        PROVE  Cardinality(around) > Cap
    <2>1. ResolveBox
      BY <1>1 DEF Next, WorkerSees, WorkerIssues, WorkerReconfigures, Reply, Emit, Reconnect, cache
    <2>2. PICK tid \in pending : Resolve(tid)
      BY <2>1 DEF ResolveBox
    <2>. QED BY <1>1, <2>1, <2>2, EvictionNeedsACrowd DEF ResolveBox
  <1>2. ASSUME RInv, [Next]_vars
        PROVE  [\A t \in Cached \ DOMAIN index' :
                  /\ t \in W!Live
                  /\ TrackOf(t) \in shown[index[t]]
                  => Cardinality(around) > Cap]_vars
    BY <1>1, <1>2 DEF Cached
  <1>. QED BY <1>2, RecencyInvariant, PTL DEF Spec, EvictedAreDead

-----------------------------------------------------------------------------
(* As long as no frame was crowded, a live track that was shown is in the  *)
(* cache under the UUID it was shown with.                                 *)
HeldOK ==
  ~crowded =>
    \A u \in 1..made : \A t \in W!Live :
      TrackOf(t) \in shown[u] => t \in Cached /\ index[t] = u

RoomOK == phase = "plugin" /\ ~crowded => ~(Cardinality(around) > Cap)

HInv == RInv /\ HeldOK /\ RoomOK /\ OneUuidPerTrack

(* A box resolved: a track that is live has its entry still, and any other *)
(* was never shown.                                                        *)
LEMMA ResolveKeepsHold ==
  ASSUME HInv, ResolveBox
  PROVE  HeldOK' /\ RoomOK' /\ OneUuidPerTrack'
  <1>1. PICK tid \in pending :
          /\ Resolve(tid)
          /\ shown' = [u \in DOMAIN shown \cup {Answer(tid)} |->
                         IF u # Answer(tid) THEN shown[u]
                         ELSE {TrackOf(tid)} \cup
                              (IF u \in DOMAIN shown THEN shown[u] ELSE {})]
    BY DEF ResolveBox
  <1>2. /\ UNCHANGED <<crowded, around, phase, conn, age>> /\ phase = "plugin"
        /\ W!Live' = W!Live
    BY DEF ResolveBox, worker, W!Live
  <1>3. /\ Coherent /\ made \in Nat /\ DOMAIN shown = 1..made /\ tid \in W!Live
        /\ DOMAIN shown' = 1..made'
    <2>1. IInv'
      BY ResolveBoxKeeps DEF HInv, RInv
    <2>. QED BY <2>1 DEF HInv, RInv, IInv, TypeOK, CacheTypeOK
  <1>4. RoomOK'
    BY <1>2 DEF HInv, RoomOK
  <1>5. SUFFICES ASSUME ~crowded PROVE HeldOK' /\ OneUuidPerTrack'
    BY <1>2, <1>4 DEF HeldOK, OneUuidPerTrack
  <1>6. ASSUME NEW t \in Cached, t \in W!Live, TrackOf(t) \in shown[index[t]]
        PROVE  t \in DOMAIN index'
    BY <1>1, <1>2, <1>5, <1>6, EvictionNeedsACrowd DEF HInv, RoomOK
  <1>7. \A t \in DOMAIN index' : t # tid => t \in Cached /\ index'[t] = index[t]
    BY <1>1 DEF Resolve, Hit, Miss, Cached
  <1>8. tid \in DOMAIN index' /\ index'[tid] = Answer(tid)
    <2>1. CASE Hit(tid)
      BY <2>1 DEF Hit, Answer, Cached
    <2>2. CASE Miss(tid)
      <3>1. tid \notin Victims(tid)
        <4>1. Victims(tid) = {lru[i].tid : i \in Kept(tid)..Len(lru)} /\ Kept(tid) \in 1..Cap
              /\ Len(lru) \in Nat /\ Cap \in Nat
          BY <1>3, <2>2, MissEntries, CapAssumption
             DEF HInv, RInv, IInv, TypeOK, CacheTypeOK, FrameOK
        <4>2. \A i \in Kept(tid)..Len(lru) : lru[i].tid \in Cached
          BY <1>3, <4>1 DEF Coherent
        <4>. QED BY <2>2, <4>1, <4>2 DEF Miss
      <3>. QED BY <2>2, <3>1 DEF Miss, Answer
    <2>. QED BY <1>1, <2>1, <2>2 DEF Resolve
  <1>9. ASSUME NEW u \in 1..made', NEW s \in shown'[u]
        PROVE  \/ s = TrackOf(tid) /\ u = Answer(tid)
               \/ u \in 1..made /\ s \in shown[u]
    BY <1>1, <1>3, <1>9
  <1>10. ASSUME NEW u \in 1..made, TrackOf(tid) \in shown[u]
         PROVE  u = Answer(tid)
    BY <1>3, <1>5, <1>10 DEF HInv, HeldOK, Answer
  <1>11. HeldOK'
    <2>1. ASSUME NEW u \in 1..made', NEW t \in W!Live, TrackOf(t) \in shown'[u]
          PROVE  t \in DOMAIN index' /\ index'[t] = u
      <3>1. CASE t = tid
        <4>1. u = Answer(tid)
          BY <1>9, <1>10, <2>1, <3>1
        <4>. QED BY <1>8, <3>1, <4>1
      <3>2. CASE t # tid
        <4>1. TrackOf(t) # TrackOf(tid)
          BY <3>2 DEF TrackOf
        <4>2. u \in 1..made /\ TrackOf(t) \in shown[u]
          BY <1>9, <2>1, <4>1
        <4>3. t \in Cached /\ index[t] = u
          BY <1>5, <4>2 DEF HInv, HeldOK
        <4>. QED BY <1>6, <1>7, <3>2, <4>2, <4>3
      <3>. QED BY <3>1, <3>2
    <2>. QED BY <1>2, <2>1 DEF HeldOK, TrackOf, Cached
  <1>12. OneUuidPerTrack'
    <2>1. ASSUME NEW u \in 1..made', NEW v \in 1..made', NEW s, s \in shown'[u], s \in shown'[v]
          PROVE  u = v
      <3>1. CASE s = TrackOf(tid)
        BY <1>9, <1>10, <2>1, <3>1
      <3>2. CASE s # TrackOf(tid)
        <4>1. u \in 1..made /\ v \in 1..made /\ s \in shown[u] /\ s \in shown[v]
          BY <1>9, <2>1, <3>2
        <4>. QED BY <1>3, <1>5, <4>1 DEF HInv, OneUuidPerTrack
      <3>. QED BY <3>1, <3>2
    <2>. QED BY <1>3, <2>1 DEF OneUuidPerTrack
  <1>. QED BY <1>11, <1>12

(* The other steps: tracks come with an id that was not shown, and go with *)
(* a new connection.                                                       *)
LEMMA OthersKeepHold ==
  ASSUME HInv, [Next]_vars, ~ResolveBox
  PROVE  HeldOK' /\ RoomOK' /\ OneUuidPerTrack'
  <1>1. UNCHANGED <<lru, index, made, shown>>
    BY DEF Next, WorkerSees, WorkerIssues, WorkerReconfigures, Reply, Emit, Reconnect, cache, vars
  <1>2. crowded' \in BOOLEAN /\ (crowded => crowded')
    BY DEF Next, WorkerSees, WorkerIssues, WorkerReconfigures, Reply, Emit, Reconnect, vars,
           HInv, RInv, IInv, TypeOK
  <1>3. OneUuidPerTrack'
    BY <1>1, <1>2 DEF HInv, OneUuidPerTrack
  <1>4. RoomOK'
    BY DEF Next, WorkerSees, WorkerIssues, WorkerReconfigures, Reply, Emit, Reconnect, vars,
           HInv, RoomOK
  <1>5. ASSUME NEW u \in 1..made, NEW t \in W!Live', TrackOf(t)' \in shown[u]
        PROVE  t \in W!Live /\ conn' = conn
    <2>1. ShownOK /\ conn \in Nat /\ nextId \in Nat
      BY BoundsAssumption DEF HInv, RInv, IInv, TypeOK
    <2>2. TrackOf(t)' = <<conn', t>>
      BY DEF TrackOf
    <2>3. CASE WorkerSees
      BY <2>3, ResightType DEF WorkerSees, HInv, RInv, IInv
    <2>4. CASE WorkerIssues
      <3>1. W!Live' = W!Live \cup {nextId} /\ conn' = conn
        BY <2>4 DEF WorkerIssues, W!Issue, W!Live
      <3>2. t # nextId
        BY <1>5, <2>1, <2>2, <3>1 DEF ShownOK
      <3>. QED BY <3>1, <3>2
    <2>5. CASE Reconnect
      <3>1. conn' = conn + 1
        BY <2>5 DEF Reconnect
      <3>. QED BY <1>5, <2>1, <2>2, <3>1 DEF ShownOK
    <2>6. CASE WorkerReconfigures \/ Reply \/ Emit \/ UNCHANGED vars
      BY <2>6 DEF WorkerReconfigures, Reply, Emit, W!SetMaxAge, W!Done, W!Live, worker, vars
    <2>. QED BY <2>3, <2>4, <2>5, <2>6 DEF Next
  <1>6. HeldOK'
    <2>1. ASSUME ~crowded', NEW u \in 1..made, NEW t \in W!Live', TrackOf(t)' \in shown[u]
          PROVE  t \in Cached /\ index[t] = u
      <3>1. t \in W!Live /\ TrackOf(t)' = TrackOf(t)
        BY <1>5, <2>1 DEF TrackOf
      <3>. QED BY <1>2, <2>1, <3>1 DEF HInv, HeldOK
    <2>. QED BY <1>1, <2>1 DEF HeldOK, Cached
  <1>. QED BY <1>3, <1>4, <1>6

(* A track has one UUID, for as long as no frame had more than Cap tracks  *)
(* around it, whatever the capacity.                                       *)
THEOREM TracksAreNotSplit == Spec => []OneUuidPerTrack
  <1>1. Init => HInv
    <2> SUFFICES ASSUME Init PROVE HInv
      OBVIOUS
    <2>1. made = 0 /\ shown = [u \in {} |-> {}] /\ phase = "camera"
      BY DEF Init, CacheInit
    <2>. QED BY <2>1, InitRInv DEF HInv, HeldOK, RoomOK, OneUuidPerTrack
  <1>2. HInv /\ [Next]_vars => HInv'
    <2> SUFFICES ASSUME HInv, [Next]_vars PROVE HInv'
      OBVIOUS
    <2>1. RInv'
      BY StepRInv DEF HInv
    <2>. QED BY <2>1, ResolveKeepsHold, OthersKeepHold DEF HInv
  <1>3. HInv => OneUuidPerTrack
    BY DEF HInv
  <1>. QED BY <1>1, <1>2, <1>3, PTL DEF Spec
-----------------------------------------------------------------------------
(* The list with its iterators is an LruMap: each id that is resolved is   *)
(* one of its steps.  What was used since an id was last used is what      *)
(* stands before its entry.                                                *)
Ahead(t) == {j \in 1..Len(lru) : \E k \in 1..Len(lru) : j < k /\ lru[k].tid = t}
UsedSince(t) == {lru[j].tid : j \in Ahead(t)}

Lru == INSTANCE LruMap WITH
         Tids <- 1..IdBound,
         uuids <- index,
         since <- [t \in Cached |-> UsedSince(t)],
         issued <- made

ImplementsLruMap == Lru!Spec

(* Where an id stands is one place.                                        *)
LEMMA PlaceOfAnId ==
  ASSUME Coherent, NEW i \in 1..Len(lru), NEW x, NEW y
  PROVE  /\ x \in Cached => \E k \in 1..Len(lru) : lru[k].tid = x
         /\ y \in UsedSince(lru[i].tid) <=>
              \E j \in 1..Len(lru) : j < i /\ lru[j].tid = y
  <1>1. \A k \in 1..Len(lru) : lru[k].tid = lru[i].tid => k = i
    BY DEF Coherent
  <1>2. x \in Cached => \E k \in 1..Len(lru) : lru[k].tid = x
    BY DEF Coherent
  <1>. QED BY <1>1, <1>2 DEF UsedSince, Ahead

(* A full map loses the id of the last entry, which is the one that all    *)
(* others were used since.                                                 *)
LEMMA OldestIsLast ==
  ASSUME CacheTypeOK, Coherent, NEW x \in Cached
  PROVE  UsedSince(x) = Cached \ {x} <=> x = lru[Len(lru)].tid
  <1>1. Len(lru) \in Nat
    BY DEF CacheTypeOK
  <1>2. PICK k \in 1..Len(lru) : lru[k].tid = x
    BY DEF Coherent
  <1>3. \A y : y \in UsedSince(x) <=> \E j \in 1..Len(lru) : j < k /\ lru[j].tid = y
    BY <1>2, PlaceOfAnId
  <1>4. \A i, j \in 1..Len(lru) : lru[i].tid = lru[j].tid => i = j
    BY DEF Coherent
  <1>5. CASE k = Len(lru)
    <2>1. ASSUME NEW y \in Cached, y # x PROVE y \in UsedSince(x)
      <3>1. PICK j \in 1..Len(lru) : lru[j].tid = y
        BY DEF Coherent
      <3>2. j < k
        BY <1>1, <1>2, <1>5, <2>1, <3>1
      <3>. QED BY <1>3, <3>1, <3>2
    <2>2. ASSUME NEW y \in UsedSince(x) PROVE y \in Cached /\ y # x
      <3>1. PICK j \in 1..Len(lru) : j < k /\ lru[j].tid = y
        BY <1>3
      <3>. QED BY <1>2, <1>4, <3>1 DEF Coherent
    <2>. QED BY <1>2, <1>5, <2>1, <2>2
  <1>6. CASE k # Len(lru)
    <2>1. Len(lru) \in 1..Len(lru) /\ ~(Len(lru) < k)
      BY <1>1, <1>2
    <2>2. lru[Len(lru)].tid \in Cached /\ lru[Len(lru)].tid # x
      BY <1>2, <1>4, <1>6, <2>1 DEF Coherent
    <2>3. lru[Len(lru)].tid \notin UsedSince(x)
      BY <1>3, <1>4, <2>1
    <2>. QED BY <2>2, <2>3
  <1>. QED BY <1>5, <1>6

(* Resolving an id adds it to what was used since every id that stays.     *)
LEMMA SinceMoves ==
  ASSUME CacheTypeOK, Coherent, CacheTypeOK', Coherent', NEW tid \in Nat, Resolve(tid),
         NEW x \in Cached'
  PROVE  UsedSince(x)' = IF x = tid THEN {} ELSE UsedSince(x) \cup {tid}
  <1>1. Len(lru') \in Nat \ {0} /\ Len(lru) \in Nat /\ lru'[1].tid = tid
    BY ResolveMoves DEF CacheTypeOK
  <1>2. PICK from \in [2..Len(lru') -> 1..Len(lru)] :
          /\ \A j \in 2..Len(lru') :
               /\ lru'[j] = lru[from[j]]
               /\ lru[from[j]].tid # tid /\ lru[from[j]].uuid # Answer(tid)
          /\ \A i, j \in 2..Len(lru') : i < j => from[i] < from[j]
    BY ResolveMoves
  <1>3. /\ \A i, j \in 1..Len(lru) : lru[i].tid = lru[j].tid => i = j
        /\ \A t : t \in Cached <=> \E i \in 1..Len(lru) : lru[i].tid = t
    BY DEF Coherent
  <1>4. /\ \A i, j \in 1..Len(lru') : lru'[i].tid = lru'[j].tid => i = j
        /\ \A t : t \in Cached' <=> \E i \in 1..Len(lru') : lru'[i].tid = t
    BY DEF Coherent
  <1>5. PICK k \in 1..Len(lru') : lru'[k].tid = x
    BY <1>4
  <1>6. \A y : y \in UsedSince(x)' <=> \E j \in 1..Len(lru') : j < k /\ lru'[j].tid = y
    BY <1>4, <1>5 DEF UsedSince, Ahead
  <1>7. CASE x = tid
    <2>1. k = 1
      BY <1>1, <1>4, <1>5, <1>7
    <2>. QED BY <1>1, <1>6, <1>7, <2>1
  <1>8. CASE x # tid
    <2>1. k \in 2..Len(lru')
      BY <1>1, <1>5, <1>8
    <2>2. /\ from[k] \in 1..Len(lru) /\ lru[from[k]].tid = x
          /\ \A j \in 2..Len(lru') : from[j] \in 1..Len(lru)
      BY <1>2, <1>5, <2>1
    <2>3. \A y : y \in UsedSince(x) <=> \E j \in 1..Len(lru) : j < from[k] /\ lru[j].tid = y
      BY <2>2, PlaceOfAnId
    <2>4. ASSUME NEW y \in UsedSince(x)' PROVE y \in UsedSince(x) \cup {tid}
      <3>1. PICK j \in 1..Len(lru') : j < k /\ lru'[j].tid = y
        BY <1>6
      <3>2. CASE j = 1
        BY <1>1, <3>1, <3>2
      <3>3. CASE j # 1
        <4>1. j \in 2..Len(lru')
          BY <1>1, <3>3
        <4>2. from[j] < from[k] /\ lru[from[j]].tid = y
          BY <1>2, <2>1, <3>1, <4>1
        <4>. QED BY <2>2, <2>3, <4>1, <4>2
      <3>. QED BY <3>2, <3>3
    <2>5. tid \in UsedSince(x)'
      BY <1>1, <1>6, <2>1
    <2>6. ASSUME NEW y \in UsedSince(x), y # tid PROVE y \in UsedSince(x)'
      <3>1. PICK i \in 1..Len(lru) : i < from[k] /\ lru[i].tid = y
        BY <2>3
      <3>2. y \in Cached'
        <4>1. CASE Hit(tid)
          BY <1>3, <3>1, <4>1 DEF Hit, Cached
        <4>2. CASE Miss(tid)
          <5>1. Victims(tid) = {lru[h].tid : h \in Kept(tid)..Len(lru)}
            BY <4>2, MissEntries
          <5>2. Cached' = (Cached \cup {tid}) \ Victims(tid)
            BY <4>2 DEF Miss, Cached
          <5>3. from[k] \notin Kept(tid)..Len(lru)
            BY <2>2, <5>1, <5>2
          <5>4. Kept(tid) \in Int
            BY <4>2, MissEntries
          <5>5. \A h \in Kept(tid)..Len(lru) : h \in 1..Len(lru) /\ h # i
            BY <1>1, <2>2, <3>1, <4>2, <5>3, <5>4, MissEntries
          <5>6. y \notin Victims(tid)
            BY <1>3, <3>1, <5>1, <5>5
          <5>. QED BY <1>3, <3>1, <5>2, <5>6
        <4>. QED BY <4>1, <4>2 DEF Resolve
      <3>3. PICK j \in 1..Len(lru') : lru'[j].tid = y
        BY <1>4, <3>2
      <3>4. j \in 2..Len(lru')
        BY <1>1, <2>6, <3>3
      <3>5. from[j] = i
        <4>1. from[j] \in 1..Len(lru) /\ lru'[j] = lru[from[j]]
          BY <1>2, <2>2, <3>4
        <4>. QED BY <1>3, <3>1, <3>3, <4>1
      <3>6. ~(k < j) /\ k # j
        BY <1>2, <2>1, <2>2, <3>1, <3>4, <3>5
      <3>. QED BY <1>6, <2>1, <3>3, <3>4, <3>6
    <2>. QED BY <1>8, <2>4, <2>5, <2>6
  <1>. QED BY <1>7, <1>8

(* What a miss keeps of the map: all of it, or all but the oldest.         *)
LEMMA MissKeepsTheYounger ==
  ASSUME CacheTypeOK, Coherent, NEW tid \in Nat, Miss(tid)
  PROVE  Cached' = Lru!Kept \cup {tid} /\ tid \notin Cached
  <1>1. /\ Cached' = (Cached \cup {tid}) \ Victims(tid) /\ tid \notin Cached
        /\ Victims(tid) = {lru[i].tid : i \in Kept(tid)..Len(lru)}
        /\ Len(lru) \in Nat /\ Len(lru) <= Cap /\ Cap \in Nat \ {0}
        /\ \A i \in 1..Len(lru) : lru[i].tid \in Cached
    <2>1. Cached' = (Cached \cup {tid}) \ Victims(tid) /\ tid \notin Cached
      BY DEF Miss, Cached
    <2>2. Victims(tid) = {lru[i].tid : i \in Kept(tid)..Len(lru)}
      BY MissEntries
    <2>3. Len(lru) \in Nat /\ Len(lru) <= Cap /\ Cap \in Nat \ {0}
      BY CapAssumption DEF CacheTypeOK, Coherent
    <2>4. \A i \in 1..Len(lru) : lru[i].tid \in Cached
      BY DEF Coherent
    <2>. QED BY <2>1, <2>2, <2>3, <2>4
  <1>2. Lru!Kept = IF Len(lru) < Cap THEN Cached ELSE Cached \ Lru!Oldest
    <2>1. Cardinality(Cached) = Len(lru) /\ Lru!Ids = Cached
      BY CachedCardinality DEF Lru!Ids, Cached
    <2>2. Lru!Cardinality(Cached) = Cardinality(Cached)
      BY Zenon DEF Lru!Cardinality, Cardinality
    <2>. QED BY <2>1, <2>2 DEF Lru!Kept
  <1>3. CASE Len(lru) < Cap
    <2>1. Victims(tid) = {}
      BY <1>1, <1>3 DEF Kept
    <2>. QED BY <1>1, <1>2, <1>3, <2>1
  <1>4. CASE Len(lru) = Cap
    <2>1. Victims(tid) = {lru[Len(lru)].tid}
      <3>1. Kept(tid) = Len(lru)
        BY <1>1, <1>4 DEF Kept
      <3>. QED BY <1>1, <3>1
    <2>2. Lru!Oldest = {lru[Len(lru)].tid}
      <3>1. Lru!Oldest = {x \in Cached : UsedSince(x) = Cached \ {x}}
        BY DEF Lru!Oldest, Lru!Ids, Cached
      <3>2. lru[Len(lru)].tid \in Cached
        BY <1>1, <1>4
      <3>. QED BY <3>1, <3>2, OldestIsLast
    <2>3. Lru!Kept = Cached \ {lru[Len(lru)].tid}
      BY <1>2, <1>4, <2>2
    <2>4. tid # lru[Len(lru)].tid
      BY <1>1, <1>4
    <2>. QED BY <1>1, <2>1, <2>3, <2>4
  <1>. QED BY <1>1, <1>3, <1>4

(* One id through resolveTrackUuid.                                        *)
LEMMA ResolveIsLru ==
  ASSUME CacheTypeOK, Coherent, NEW tid \in 1..IdBound, tid \in Nat, Resolve(tid)
  PROVE  Lru!Next
  <1>1. CacheTypeOK' /\ Coherent'
    BY ResolveKeeps
  <1>2. CASE Hit(tid)
    <2>1. tid \in Cached /\ index' = index /\ made' = made /\ Cached' = Cached
      BY <1>2 DEF Hit, Cached
    <2>2. \A x \in Cached : UsedSince(x)' = IF x = tid THEN {} ELSE UsedSince(x) \cup {tid}
      BY <1>1, <2>1, SinceMoves
    <2>3. Lru!Recall(tid)
      BY <2>1, <2>2 DEF Lru!Recall, Lru!Ids, Cached
    <2>. QED BY <2>3 DEF Lru!Next
  <1>3. CASE Miss(tid)
    <2>1. Cached' = Lru!Kept \cup {tid} /\ tid \notin Cached
      BY <1>3, MissKeepsTheYounger
    <2>2. \A x \in Cached' : UsedSince(x)' = IF x = tid THEN {} ELSE UsedSince(x) \cup {tid}
      BY <1>1, SinceMoves
    <2>3. /\ made' = made + 1
          /\ index' = [x \in Cached' |-> IF x = tid THEN made + 1 ELSE index[x]]
      BY <1>3 DEF Miss, Cached
    <2>4. Lru!Kept \subseteq Cached
      BY DEF Lru!Kept, Lru!Ids, Cached
    <2>5. Lru!Learn(tid)
      BY <2>1, <2>2, <2>3, <2>4 DEF Lru!Learn, Lru!Ids, Cached
    <2>. QED BY <2>5 DEF Lru!Next
  <1>. QED BY <1>2, <1>3 DEF Resolve

(* For every capacity and any sequence of frames and reconnects, the list, *)
(* the map and the iterators between them are the map they are to be: an   *)
(* id keeps its UUID until it is forgotten, no UUID is given twice, and    *)
(* what is forgotten is the least recently used id of a full cache.        *)
THEOREM CacheIsAnLruMap == Spec => ImplementsLruMap
  <1>1. Init => Lru!Init
    BY DEF Init, CacheInit, Lru!Init, Cached
  <1>2. IInv /\ [Next]_vars => [Lru!Next]_(Lru!lruVars)
    <2>1. SUFFICES ASSUME IInv, [Next]_vars PROVE [Lru!Next]_(Lru!lruVars)
      OBVIOUS
    <2>2. CASE ResolveBox
      <3>1. PICK tid \in pending : Resolve(tid)
        BY <2>2 DEF ResolveBox
      <3>2. tid \in 1..IdBound /\ tid \in Nat
        <4>1. tid \in 1..(nextId - 1) /\ nextId \in 1..(IdBound + 1)
          BY <2>1, <2>2 DEF ResolveBox, IInv, TypeOK
        <4>. QED BY <4>1, BoundsAssumption
      <3>. QED BY <2>1, <3>1, <3>2, ResolveIsLru DEF IInv, TypeOK
    <2>3. CASE UNCHANGED cache
      <3>1. Cached' = Cached /\ \A t : UsedSince(t)' = UsedSince(t)
        BY <2>3 DEF cache, Cached, UsedSince, Ahead
      <3>. QED BY <2>3, <3>1 DEF cache, Lru!lruVars
    <2>. QED BY <2>1, <2>2, <2>3 DEF Next, WorkerSees, WorkerIssues, WorkerReconfigures, Reply, Emit,
            Reconnect, vars, cache
  <1>. QED BY <1>1, <1>2, IdentityInvariant, PTL DEF Spec, ImplementsLruMap, Lru!Spec
=============================================================================
