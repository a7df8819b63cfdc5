------------------------ MODULE FramePipelineProofs ------------------------
(***************************************************************************)
(* Proofs about FramePipeline for every size of frame and model, every     *)
(* region and every scene: how far a reported box can be from its object,  *)
(* what that means for the masks, and when the letterbox can fail.         *)
(***************************************************************************)
EXTENDS FramePipeline, FiniteOrder, SequenceTheorems, TLAPS

-----------------------------------------------------------------------------
(* Arithmetic.                                                             *)
LEMMA Division ==
  ASSUME NEW p \in Int, NEW q \in Pixels
  PROVE  /\ p \div q \in Int /\ p % q \in 0..(q - 1)
         /\ p = (q * (p \div q)) + (p % q)
  BY DEF Pixels

(* Python's round is off by at most one half.                              *)
LEMMA RoundIsNear ==
  ASSUME NEW p \in Nat, NEW q \in Pixels
  PROVE  /\ Round(p, q) \in Nat
         /\ 2 * (Round(p, q) * q - p) <= q
         /\ -q <= 2 * (Round(p, q) * q - p)
  <1> DEFINE d == p \div q
             rest == p % q
  <1>1. d \in Int /\ rest \in 0..(q - 1) /\ p = q * d + rest
    BY Division
  <1>2. q \in Nat /\ q > 0
    BY DEF Pixels
  <1>3. d \in Nat
    <2>1. CASE d < 0
      <3>1. d <= -1
        BY <1>1, <2>1
      <3>2. q * d <= -q
        BY <1>1, <1>2, <3>1
      <3>. QED BY <1>1, <1>2, <3>2
    <2>. QED BY <1>1, <2>1
  <1>4. \/ Round(p, q) = d /\ 2 * rest <= q
        \/ Round(p, q) = d + 1 /\ q <= 2 * rest
    BY <1>1, <1>2 DEF Round
  <1>. HIDE DEF d, rest
  <1>5. (d + 1) * q = q * d + q /\ d * q = q * d /\ q * d \in Int
    BY <1>2, <1>3
  <1>6. CASE Round(p, q) = d /\ 2 * rest <= q
    BY <1>1, <1>2, <1>3, <1>5, <1>6
  <1>7. CASE Round(p, q) = d + 1 /\ q <= 2 * rest
    BY <1>1, <1>2, <1>3, <1>5, <1>7
  <1>. QED BY <1>4, <1>6, <1>7

(* Half of den on each side, times a position that is at most n.           *)
LEMMA ScaledError ==
  ASSUME NEW v \in Nat, NEW n \in Nat, v <= n, NEW den \in Nat, NEW k \in Int,
         2 * k <= den, -den <= 2 * k
  PROVE  2 * (v * k) <= n * den /\ -(n * den) <= 2 * (v * k)
  <1>1. v * den <= n * den
    OBVIOUS
  <1>2. v * (2 * k) <= v * den /\ v * (-den) <= v * (2 * k)
    OBVIOUS
  <1>3. v * (2 * k) = 2 * (v * k) /\ v * (-den) = -(v * den)
    OBVIOUS
  <1>4. v * k \in Int /\ v * den \in Int /\ n * den \in Int
    OBVIOUS
  <1>. QED BY <1>1, <1>2, <1>3, <1>4

(* A coordinate, however far out of the frame, becomes a pixel of it.      *)
LEMMA PixelRange ==
  ASSUME NEW v \in Int, NEW n \in Pixels
  PROVE  Pixel(v, n) \in 0..n
  <1>1. (v * n) \div Grid \in Int
    BY GridAssumption DEF Pixels
  <1>. QED BY <1>1 DEF Pixel, Clamp, Pixels

(* Subtracting the padding is exact; only the ratio is not that of resize. *)
LEMMA UndoneIsExact ==
  ASSUME NEW n \in Pixels, NEW m \in Pixels, NEW r \in [num : Pixels, den : Pixels],
         NEW v \in 0..n
  PROVE  /\ Resized(n, r) \in Nat
         /\ Undone(OnCanvas(v, n, m, r), n, m, r) = (v * Resized(n, r)) * r.den
  <1> DEFINE new == Resized(n, r)
             pad == Padding(n, m, r)
  <1>1. n \in Nat /\ m \in Int /\ v \in Nat /\ r.num \in Nat /\ r.den \in Pixels
    BY DEF Pixels
  <1>2. new \in Nat
    <2>1. n * r.num \in Nat
      BY <1>1
    <2>. QED BY <1>1, <2>1, RoundIsNear DEF Resized
  <1>3. pad \in Int
    BY <1>1, <1>2 DEF Padding, Half
  <1>4. Undone(OnCanvas(v, n, m, r), n, m, r) = ((v * new + pad * n) - pad * n) * r.den
    BY DEF Undone, OnCanvas
  <1>5. v * new \in Int /\ pad * n \in Int
    BY <1>1, <1>2, <1>3
  <1>6. (v * new + pad * n) - pad * n = v * new
    BY <1>5
  <1>. QED BY <1>2, <1>4, <1>6

(* An edge drawn where the letterbox put it comes back to half a pixel of  *)
(* the model's input from where it was, clamped or not.                    *)
LEMMA RoundTrip ==
  ASSUME NEW n \in Pixels, NEW m \in Pixels, NEW r \in [num : Pixels, den : Pixels],
         NEW v \in 0..n
  PROVE  LET back == InImage(OnCanvas(v, n, m, r), n, m, r)
         IN  /\ back \in 0..(n * n * r.num)
             /\ 2 * (back - v * (n * r.num)) <= n * r.den
             /\ -(n * r.den) <= 2 * (back - v * (n * r.num))
  <1> DEFINE new == Resized(n, r)
             num == r.num
             den == r.den
             pad == Padding(n, m, r)
  <1>1. n \in Nat /\ n > 0 /\ m \in Int /\ v \in Nat /\ v <= n
    BY DEF Pixels
  <1>2. num \in Nat /\ num > 0 /\ den \in Pixels /\ den \in Nat /\ den > 0
    BY DEF Pixels
  <1>3. n * num \in Nat
    BY <1>1, <1>2
  <1>4. /\ new \in Nat
        /\ 2 * (new * den - n * num) <= den
        /\ -den <= 2 * (new * den - n * num)
    BY <1>2, <1>3, RoundIsNear DEF Resized
  <1>5. pad \in Int
    BY <1>1, <1>4 DEF Padding, Half
  <1>6. Undone(OnCanvas(v, n, m, r), n, m, r) = (v * new) * den
    BY UndoneIsExact
  <1> DEFINE k == new * den - n * num
             undone == (v * new) * den
             true == v * (n * num)
             all == n * n * num
             back == InImage(OnCanvas(v, n, m, r), n, m, r)
  <1>7. back = Clamp(undone, 0, all)
    BY <1>6 DEF InImage
  <1>8. k \in Int /\ 2 * k <= den /\ -den <= 2 * k
    BY <1>1, <1>2, <1>3, <1>4
  <1>9. undone - true = v * k /\ undone \in Int /\ true \in Int
    <2>1. (v * new) * den = v * (new * den)
      BY <1>1, <1>2, <1>4
    <2>2. new * den \in Int
      BY <1>2, <1>4
    <2>3. v * (new * den - n * num) = v * (new * den) - v * (n * num)
      BY <1>1, <1>3, <2>2
    <2>. QED BY <1>1, <1>3, <2>1, <2>2, <2>3
  <1>10. 2 * (v * k) <= n * den /\ -(n * den) <= 2 * (v * k)
    BY <1>1, <1>2, <1>8, ScaledError
  <1>11. true \in 0..all /\ all \in Nat
    <2>1. all = n * (n * num)
      BY <1>1, <1>2
    <2>2. v * (n * num) <= n * (n * num) /\ 0 <= v * (n * num)
      BY <1>1, <1>3
    <2>. QED BY <1>1, <1>3, <1>9, <2>1, <2>2
  <1>12. n * den \in Nat
    BY <1>1, <1>2
  <1>. HIDE DEF k, undone, true, all, new, pad, back
  <1>13. back \in 0..all
    BY <1>7, <1>9, <1>11 DEF Clamp
  <1>14. 2 * (undone - true) <= n * den /\ -(n * den) <= 2 * (undone - true)
    BY <1>9, <1>10
  <1>15. 2 * (back - true) <= n * den /\ -(n * den) <= 2 * (back - true)
    BY <1>7, <1>9, <1>11, <1>12, <1>14 DEF Clamp
  <1>. QED BY <1>13, <1>15 DEF back, true, all
-----------------------------------------------------------------------------
(* The way of a drawing to the parameters.                                 *)

(* What ItemsAt keeps stands where the number of places before it says.    *)
LEMMA ItemsInOrder ==
  ASSUME NEW items, NEW places \in SUBSET Int, IsFiniteSet(places)
  PROVE  /\ Cardinality(places) \in Nat
         /\ DOMAIN ItemsAt(items, places) = 1..Cardinality(places)
         /\ \A i \in places :
              /\ Cardinality(Below(places, i)) + 1 \in 1..Cardinality(places)
              /\ ItemsAt(items, places)[Cardinality(Below(places, i)) + 1] = items[i]
         /\ \A n \in 1..Cardinality(places) :
              \E i \in places : n = Cardinality(Below(places, i)) + 1
  <1> DEFINE rank(i) == Cardinality(Below(places, i))
             at(n) == CHOOSE i \in places : rank(i) = n - 1
  <1>1. Cardinality(places) \in Nat
    BY FS_CardinalityType
  <1>2. ItemsAt(items, places) = [n \in 1..Cardinality(places) |-> items[at(n)]]
    BY DEF ItemsAt, Below
  <1>3. /\ \A i \in places : rank(i) \in 0..(Cardinality(places) - 1)
        /\ \A i, j \in places : i < j => rank(i) < rank(j)
        /\ \A n \in 0..(Cardinality(places) - 1) : \E i \in places : rank(i) = n
    BY EveryRankOccurs
  <1>. HIDE DEF rank
  <1>4. ASSUME NEW i \in places PROVE at(rank(i) + 1) = i
    <2>1. rank(i) \in Int
      BY <1>1, <1>3
    <2>2. /\ at(rank(i) + 1) \in places
          /\ rank(at(rank(i) + 1)) = rank(i)
      BY <2>1
    <2>. QED BY <1>3, <2>1, <2>2
  <1>5. ASSUME NEW i \in places PROVE rank(i) + 1 \in 1..Cardinality(places)
    BY <1>1, <1>3
  <1>6. ASSUME NEW n \in 1..Cardinality(places) PROVE \E i \in places : n = rank(i) + 1
    <2>1. n - 1 \in 0..(Cardinality(places) - 1)
      BY <1>1
    <2>2. PICK i \in places : rank(i) = n - 1
      BY <1>3, <2>1
    <2>. QED BY <2>2
  <1>. QED BY <1>1, <1>2, <1>4, <1>5, <1>6 DEF rank

(* The complete points of a drawing, and what it is to be their list.      *)
Pairs == {p \in Seq(Int) : Len(p) = 2}
Complete(points) == {i \in DOMAIN points : Len(points[i]) >= 2}
IsOutline(mask, points) ==
  /\ mask \in Seq(Pairs)
  /\ Len(mask) = Cardinality(Complete(points))
  /\ \A i \in Complete(points) :
       mask[Cardinality(Below(Complete(points), i)) + 1] = <<points[i][1], points[i][2]>>

LEMMA PairsAreTheirItems ==
  ASSUME NEW p \in Pairs
  PROVE  p = <<p[1], p[2]>> /\ p[1] \in Int /\ p[2] \in Int
  <1>1. p \in Seq(Int) /\ Len(p) = 2
    BY DEF Pairs
  <1>2. 1 \in 1..Len(p) /\ 2 \in 1..Len(p)
    BY <1>1
  <1>3. p = <<p[1], p[2]>>
    BY <1>1
  <1>. QED BY <1>1, <1>2, <1>3, ElementOfSeq

LEMMA CompleteIsFinite ==
  ASSUME NEW points \in Seq(Seq(Int))
  PROVE  /\ Complete(points) \in SUBSET Int
         /\ IsFiniteSet(Complete(points))
         /\ Cardinality(Complete(points)) \in Nat
         /\ \A i \in Complete(points) : points[i][1] \in Int /\ points[i][2] \in Int
  <1>1. DOMAIN points = 1..Len(points) /\ Len(points) \in Nat
    OBVIOUS
  <1>2. Complete(points) \in SUBSET (1..Len(points))
    BY <1>1 DEF Complete
  <1>3. IsFiniteSet(1..Len(points))
    BY <1>1, FS_Interval
  <1>4. IsFiniteSet(Complete(points))
    BY <1>2, <1>3, FS_Subset
  <1>5. ASSUME NEW i \in Complete(points) PROVE points[i][1] \in Int /\ points[i][2] \in Int
    <2>1. points[i] \in Seq(Int) /\ Len(points[i]) >= 2 /\ Len(points[i]) \in Nat
      BY <1>1 DEF Complete
    <2>2. 1 \in 1..Len(points[i]) /\ 2 \in 1..Len(points[i])
      BY <2>1
    <2>. QED BY <2>1, <2>2, ElementOfSeq
  <1>. QED BY <1>2, <1>4, <1>5, FS_CardinalityType

(* A point on the wire is complete if it has two coordinates, which is all *)
(* that is read of it.                                                     *)
LEMMA PointIsRead ==
  ASSUME NEW p \in Seq(Int)
  PROVE  /\ IsPoint(PointJson(p)) <=> Len(p) >= 2
         /\ Len(p) >= 2 => Point(PointJson(p)) = <<p[1], p[2]>>
  <1>1. Items(PointJson(p)) = [i \in DOMAIN p |-> Number(p[i])]
    BY DEF Items, PointJson, Array, IsArray
  <1>2. DOMAIN p = 1..Len(p) /\ Len(p) \in Nat
    OBVIOUS
  <1>3. Len(Items(PointJson(p))) = Len(p)
    BY <1>1, <1>2
  <1>4. \A i \in 1..Len(p) : NumberValue(Items(PointJson(p))[i]) = p[i]
    BY <1>1, <1>2 DEF NumberValue, Number
  <1>. QED BY <1>2, <1>3, <1>4 DEF IsPoint, Point

(* What the loop over a list of points reads is the list of the complete   *)
(* ones.                                                                   *)
LEMMA PointsAreRead ==
  ASSUME NEW points \in Seq(Seq(Int))
  PROVE  IsOutline(CompletePoints(Items(Points(points))), points)
  <1> DEFINE items == Items(Points(points))
             places == {i \in DOMAIN items : IsPoint(items[i])}
             read == ItemsAt(items, places)
  <1>1. /\ DOMAIN items = DOMAIN points
        /\ \A i \in DOMAIN points : items[i] = PointJson(points[i])
    BY DEF Items, Points, Array, IsArray
  <1>3. \A i \in DOMAIN points : points[i] \in Seq(Int)
    OBVIOUS
  <1>4. places = Complete(points)
    BY <1>1, <1>3, PointIsRead DEF Complete
  <1>5. ASSUME NEW i \in places PROVE Point(items[i]) = <<points[i][1], points[i][2]>>
    BY <1>1, <1>3, <1>4, <1>5, PointIsRead DEF Complete
  <1>6. CompletePoints(items) = [n \in DOMAIN read |-> Point(read[n])]
    BY DEF CompletePoints
  <1>. HIDE DEF items, places, read
  <1>7. /\ Cardinality(places) \in Nat
        /\ DOMAIN read = 1..Cardinality(places)
        /\ \A i \in places :
             /\ Cardinality(Below(places, i)) + 1 \in 1..Cardinality(places)
             /\ read[Cardinality(Below(places, i)) + 1] = items[i]
        /\ \A n \in 1..Cardinality(places) :
             \E i \in places : n = Cardinality(Below(places, i)) + 1
    BY <1>4, CompleteIsFinite, ItemsInOrder DEF read
  <1>8. ASSUME NEW n \in 1..Cardinality(places) PROVE Point(read[n]) \in Pairs
    <2>1. PICK i \in places : n = Cardinality(Below(places, i)) + 1
      BY <1>7
    <2>2. Point(read[n]) = <<points[i][1], points[i][2]>>
      BY <1>5, <1>7, <2>1
    <2>3. points[i][1] \in Int /\ points[i][2] \in Int
      BY <1>4, CompleteIsFinite
    <2>. QED BY <2>2, <2>3 DEF Pairs
  <1>9. /\ CompletePoints(items) \in Seq(Pairs)
        /\ Len(CompletePoints(items)) = Cardinality(places)
    <2>1. CompletePoints(items) = [n \in 1..Cardinality(places) |-> Point(read[n])]
      BY <1>6, <1>7
    <2>2. CompletePoints(items) \in [1..Cardinality(places) -> Pairs]
      BY <1>8, <2>1
    <2>. QED BY <1>7, <2>2
  <1>10. \A i \in places : CompletePoints(items)[Cardinality(Below(places, i)) + 1]
                             = <<points[i][1], points[i][2]>>
    BY <1>5, <1>6, <1>7
  <1>. QED BY <1>4, <1>9, <1>10 DEF IsOutline, items

(* Reading complete points again changes nothing: what parsePolygonJson    *)
(* sent is what _coerce_poly gets.                                         *)
LEMMA ReadAgain ==
  ASSUME NEW points \in Seq(Pairs)
  PROVE  CompletePoints(Items(Points(points))) = points
  <1> DEFINE read == CompletePoints(Items(Points(points)))
             n == Len(points)
  <1>1. n \in Nat /\ DOMAIN points = 1..n
    OBVIOUS
  <1>. HIDE DEF n
  <1>2. \A i \in 1..n : /\ points[i] \in Seq(Int) /\ Len(points[i]) = 2
                        /\ points[i] = <<points[i][1], points[i][2]>>
    <2> SUFFICES ASSUME NEW i \in 1..n
                 PROVE  /\ points[i] \in Seq(Int) /\ Len(points[i]) = 2
                        /\ points[i] = <<points[i][1], points[i][2]>>
      OBVIOUS
    <2>1. points[i] \in Pairs
      BY ElementOfSeq DEF n
    <2>. QED BY <2>1, PairsAreTheirItems DEF Pairs
  <1>3. points \in Seq(Seq(Int))
    <2>1. points \in [1..n -> Seq(Int)]
      BY <1>1, <1>2
    <2>. QED BY <1>1, <2>1
  <1>4. Complete(points) = 1..n
    <2>1. ASSUME NEW i \in 1..n PROVE Len(points[i]) >= 2
      <3>1. Len(points[i]) = 2
        BY <1>2
      <3>. QED BY <3>1
    <2>. QED BY <1>1, <2>1 DEF Complete
  <1>5. ASSUME NEW i \in 1..n PROVE Cardinality(Below(1..n, i)) + 1 = i
    <2>1. \A k : k \in 1..n /\ k < i <=> k \in 1..(i - 1)
      BY <1>1
    <2>3. Below(1..n, i) = 1..(i - 1)
      BY <2>1 DEF Below
    <2>2. Cardinality(1..(i - 1)) = i - 1
      BY <1>1, FS_Interval
    <2>. QED BY <1>1, <2>2, <2>3
  <1>6. Cardinality(1..n) = n
    BY <1>1, FS_Interval
  <1>7. IsOutline(read, points)
    BY <1>3, PointsAreRead
  <1>. HIDE DEF read
  <1>8. read \in Seq(Pairs) /\ Len(read) = n
    BY <1>4, <1>6, <1>7 DEF IsOutline
  <1>9. ASSUME NEW i \in 1..n PROVE read[i] = points[i]
    <2>1. read[Cardinality(Below(1..n, i)) + 1] = <<points[i][1], points[i][2]>>
      BY <1>4, <1>7 DEF IsOutline
    <2>. QED BY <1>2, <1>5, <2>1
  <1>. QED BY <1>8, <1>9, SeqEqual DEF read, n

(* Whichever of the known shapes a figure comes in, its points are found.  *)
LEMMA FigureIsRead ==
  ASSUME NEW points, NEW how
  PROVE  Items(PointArray(Figure(points, how))) =
           IF how \in Shapes THEN Items(Points(points)) ELSE <<>>
  <1> DEFINE raw == Figure(points, how)
             list == Points(points)
  <1>1. list.kind = "array"
    BY DEF Points, Array
  <1>2. CASE points = <<>>
    <2>1. Items(PointArray(raw)) = <<>>
      BY <1>2 DEF Figure, Blank, PointArray, Items, IsArray
    <2>2. Items(list) = <<>>
      <3>1. DOMAIN points = {}
        BY <1>2
      <3>. QED BY <3>1 DEF Items, Points, Array, IsArray
    <2>. QED BY <2>1, <2>2
  <1>3. CASE points # <<>> /\ how = "figure"
    <2> DEFINE inner == Object([points |-> list])
    <2>1. raw = Object([figure |-> inner])
      BY <1>3 DEF Figure
    <2>2. Field(raw, "figure") = inner
      BY <2>1 DEF Field, Object
    <2>3. Field(inner, "points") = list
      BY DEF Field, Object
    <2>4. PointArray(raw) = list
      BY <1>1, <2>1, <2>2, <2>3 DEF PointArray, IsArray, Object
    <2>. QED BY <1>3, <2>4 DEF Shapes
  <1>4. CASE points # <<>> /\ how = "points"
    <2>1. raw = Object([points |-> list])
      BY <1>4 DEF Figure
    <2>2. Field(raw, "figure") = Null
      BY <2>1 DEF Field, Object
    <2>3. Field(Null, "points") = Null
      BY DEF Field, Null
    <2>4. Field(raw, "points") = list
      BY <2>1 DEF Field, Object
    <2>5. PointArray(raw) = list
      BY <2>1, <2>2, <2>3, <2>4 DEF PointArray, IsArray, Object, Null
    <2>. QED BY <1>4, <2>5 DEF Shapes
  <1>5. CASE points # <<>> /\ how = "array"
    <2>1. raw = list
      BY <1>5 DEF Figure
    <2>2. PointArray(raw) = list
      BY <1>1, <2>1 DEF PointArray
    <2>. QED BY <1>5, <2>2 DEF Shapes
  <1>6. CASE points # <<>> /\ how \notin Shapes
    <2>1. raw = Garbled
      BY <1>6 DEF Figure, Shapes
    <2>. QED BY <1>6, <2>1 DEF PointArray, Items, IsArray, Garbled
  <1>. QED BY <1>2, <1>3, <1>4, <1>5, <1>6 DEF Shapes

(* Where there is no list of points, none is read.                         *)
LEMMA NothingIsRead ==
  /\ Items(Null) = <<>>
  /\ Len(CompletePoints(<<>>)) = 0
  /\ CoercePoly(Null) = None
  <1>1. Items(Null) = <<>>
    BY DEF Items, Null, IsArray
  <1> DEFINE places == {i \in DOMAIN <<>> : IsPoint(<<>>[i])}
             read == ItemsAt(<<>>, places)
  <1>2. places = {}
    OBVIOUS
  <1>3. DOMAIN read = 1..0
    BY <1>2, FS_EmptySet, ItemsInOrder
  <1>4. CompletePoints(<<>>) = [n \in 1..0 |-> Point(read[n])]
    BY <1>3 DEF CompletePoints
  <1>5. Len(CompletePoints(<<>>)) = 0
    <2>. HIDE DEF read
    <2>. QED BY <1>4
  <1>6. CoercePoly(Null) = None
    BY <1>1, <1>5 DEF CoercePoly
  <1>. QED BY <1>1, <1>5, <1>6

(* What reaches the worker under a key of the message.                     *)
Wire(mask) == IF mask # <<>> THEN Points(mask) ELSE Null

LEMMA MessageHolds ==
  ASSUME NEW m
  PROVE  /\ MsgGet(Message(m), "roi") = Wire(m.roi)
         /\ MsgGet(Message(m), "inclusive") = Wire(m.inclusive)
         /\ MsgGet(Message(m), "exclusive") = Wire(m.exclusive)
         /\ MsgGet(Message(m), "classes") = IF m.classesSet THEN Array(m.classes) ELSE Null
  BY DEF MsgGet, Message, Wire

(* A mask: drawn in the page, in force in the worker.                      *)
LEMMA MaskIsDrawn ==
  ASSUME NEW points \in Seq(Seq(Int)), NEW how
  PROVE  LET mask == CoercePoly(Wire(ParsePolygon(Figure(points, how))))
         IN  IF how \in Shapes /\ Cardinality(Complete(points)) >= 3
             THEN IsOutline(mask, points) ELSE mask = None
  <1> DEFINE read == CompletePoints(Items(PointArray(Figure(points, how))))
             parsed == ParsePolygon(Figure(points, how))
  <1>1. parsed = IF Len(read) < 3 THEN <<>> ELSE read
    BY DEF ParsePolygon
  <1>2. Cardinality(Complete(points)) \in Nat
    BY CompleteIsFinite
  <1>3. CASE how \in Shapes
    <2>1. IsOutline(read, points)
      BY <1>3, FigureIsRead, PointsAreRead
    <2>2. read \in Seq(Pairs) /\ Len(read) = Cardinality(Complete(points))
      BY <2>1 DEF IsOutline
    <2>. HIDE DEF read, parsed
    <2>3. CASE Len(read) < 3
      BY <1>1, <1>2, <2>2, <2>3, NothingIsRead DEF Wire, parsed
    <2>4. CASE Len(read) >= 3
      <3>1. parsed = read /\ read # <<>>
        BY <1>1, <1>2, <2>2, <2>4
      <3>2. CompletePoints(Items(Points(read))) = read
        BY <2>2, ReadAgain
      <3>3. CoercePoly(Wire(parsed)) = read
        BY <1>2, <2>2, <2>4, <3>1, <3>2 DEF CoercePoly, Wire
      <3>. QED BY <1>3, <2>1, <2>2, <2>4, <3>3 DEF parsed
    <2>. QED BY <1>2, <2>2, <2>3, <2>4
  <1>4. CASE how \notin Shapes
    <2>1. Items(PointArray(Figure(points, how))) = <<>>
      BY <1>4, FigureIsRead
    <2>2. Len(read) < 3
      BY <2>1, NothingIsRead
    <2>. QED BY <1>1, <1>4, <2>2, NothingIsRead DEF Wire
  <1>. QED BY <1>3, <1>4

(* A box: the four corners that its two points span, if they span an area. *)
IsBox(points) ==
  {1, 2} \subseteq Complete(points) /\ points[1][1] # points[2][1] /\ points[1][2] # points[2][2]
HasCorners(box, points) ==
  /\ box \in Seq(Pairs) /\ Len(box) = 4
  /\ {box[i] : i \in DOMAIN box} =
       {points[1][1], points[2][1]} \X {points[1][2], points[2][2]}

LEMMA BetweenIsOrdered ==
  ASSUME NEW p \in Int, NEW q \in Int
  PROVE  /\ Between(p, q).lo \in Int /\ Between(p, q).hi \in Int
         /\ {Between(p, q).lo, Between(p, q).hi} = {p, q}
         /\ Between(p, q).lo < Between(p, q).hi <=> p # q
  <1>1. CASE p < q
    <2>1. Between(p, q) = [lo |-> p, hi |-> q]
      BY <1>1 DEF Between
    <2>. QED BY <1>1, <2>1
  <1>2. CASE ~(p < q)
    <2>1. Between(p, q) = [lo |-> q, hi |-> p]
      BY <1>2 DEF Between
    <2>. QED BY <1>2, <2>1
  <1>. QED BY <1>1, <1>2

LEMMA BoxIsRead ==
  ASSUME NEW points \in Seq(Seq(Int)), NEW how
  PROVE  LET box == ParseBox(Figure(points, how))
         IN  IF how \in Shapes /\ IsBox(points)
             THEN HasCorners(box, points) ELSE box = <<>>
  <1> DEFINE items == Items(PointArray(Figure(points, how)))
             box == ParseBox(Figure(points, how))
             area == /\ Len(items) >= 2 /\ IsPoint(items[1]) /\ IsPoint(items[2])
                     /\ Point(items[1])[1] # Point(items[2])[1]
                     /\ Point(items[1])[2] # Point(items[2])[2]
  <1>1. CASE how \notin Shapes
    <2>1. items = <<>>
      BY <1>1, FigureIsRead
    <2>2. ~(Len(items) >= 2)
      BY <2>1
    <2>. QED BY <1>1, <2>2 DEF ParseBox
  <1>2. CASE how \in Shapes
    <2>1. items = Items(Points(points))
      BY <1>2, FigureIsRead
    <2>2. /\ DOMAIN items = DOMAIN points /\ Len(items) = Len(points)
          /\ \A i \in DOMAIN points : items[i] = PointJson(points[i])
      <3>1. Len(points) \in Nat /\ DOMAIN points = 1..Len(points)
        OBVIOUS
      <3>2. items = [i \in 1..Len(points) |-> PointJson(points[i])]
        BY <2>1, <3>1 DEF Items, Points, Array, IsArray
      <3>. QED BY <3>1, <3>2
    <2>3. \A i \in DOMAIN points : IsPoint(items[i]) <=> i \in Complete(points)
      BY <2>2, PointIsRead DEF Complete
    <2>4. \A i \in Complete(points) : Point(items[i]) = <<points[i][1], points[i][2]>>
      BY <2>2, PointIsRead DEF Complete
    <2>. HIDE DEF items
    <2>5. {1, 2} \subseteq Complete(points) <=>
            Len(items) >= 2 /\ IsPoint(items[1]) /\ IsPoint(items[2])
      <3>1. DOMAIN points = 1..Len(points) /\ Len(points) \in Nat
        OBVIOUS
      <3>2. Len(points) >= 2 <=> 1 \in DOMAIN points /\ 2 \in DOMAIN points
        BY <3>1
      <3>. QED BY <2>2, <2>3, <3>2 DEF Complete
    <2> DEFINE p == points[1]
               q == points[2]
               x == Between(p[1], q[1])
               y == Between(p[2], q[2])
    <2>6. CASE ~ {1, 2} \subseteq Complete(points)
      BY <2>5, <2>6 DEF ParseBox, IsBox, items
    <2>7. CASE {1, 2} \subseteq Complete(points)
      <3>1. p[1] \in Int /\ p[2] \in Int /\ q[1] \in Int /\ q[2] \in Int
        BY <2>7, CompleteIsFinite
      <3>2. Point(items[1]) = <<p[1], p[2]>> /\ Point(items[2]) = <<q[1], q[2]>>
        BY <2>4, <2>7
      <3>3. box = IF x.lo < x.hi /\ y.lo < y.hi
                  THEN << <<x.lo, y.lo>>, <<x.hi, y.lo>>, <<x.hi, y.hi>>, <<x.lo, y.hi>> >>
                  ELSE <<>>
        BY <2>5, <2>7, <3>2 DEF ParseBox, items
      <3>4. /\ x.lo \in Int /\ x.hi \in Int /\ {x.lo, x.hi} = {p[1], q[1]}
            /\ x.lo < x.hi <=> p[1] # q[1]
        BY <3>1, BetweenIsOrdered
      <3>5. /\ y.lo \in Int /\ y.hi \in Int /\ {y.lo, y.hi} = {p[2], q[2]}
            /\ y.lo < y.hi <=> p[2] # q[2]
        BY <3>1, BetweenIsOrdered
      <3>. HIDE DEF x, y, box
      <3>6. CASE ~ IsBox(points)
        BY <2>7, <3>3, <3>4, <3>5, <3>6 DEF IsBox, box
      <3>7. CASE IsBox(points)
        <4>1. box = << <<x.lo, y.lo>>, <<x.hi, y.lo>>, <<x.hi, y.hi>>, <<x.lo, y.hi>> >>
          BY <3>3, <3>4, <3>5, <3>7 DEF IsBox
        <4>2. /\ <<x.lo, y.lo>> \in Pairs /\ <<x.hi, y.lo>> \in Pairs
              /\ <<x.hi, y.hi>> \in Pairs /\ <<x.lo, y.hi>> \in Pairs
          BY <3>4, <3>5 DEF Pairs
        <4>3. box \in Seq(Pairs) /\ Len(box) = 4 /\ DOMAIN box = 1..4
          BY <4>1, <4>2
        <4>4. {box[i] : i \in DOMAIN box} = {x.lo, x.hi} \X {y.lo, y.hi}
          <5>1. {box[i] : i \in DOMAIN box} = {box[1], box[2], box[3], box[4]}
            BY <4>3
          <5>2. {box[1], box[2], box[3], box[4]} =
                  {<<x.lo, y.lo>>, <<x.hi, y.lo>>, <<x.hi, y.hi>>, <<x.lo, y.hi>>}
            BY <4>1
          <5>3. {<<x.lo, y.lo>>, <<x.hi, y.lo>>, <<x.hi, y.hi>>, <<x.lo, y.hi>>} =
                  {x.lo, x.hi} \X {y.lo, y.hi}
            OBVIOUS
          <5>. QED BY <5>1, <5>2, <5>3
        <4>5. HasCorners(box, points)
          BY <3>4, <3>5, <4>3, <4>4 DEF HasCorners
        <4>. QED BY <1>2, <3>7, <4>5 DEF box
      <3>. QED BY <3>6, <3>7
    <2>. QED BY <2>6, <2>7
  <1>. QED BY <1>1, <1>2

LEMMA BoxIsDrawn ==
  ASSUME NEW points \in Seq(Seq(Int)), NEW how
  PROVE  LET roi == CoercePoly(Wire(ParseBox(Figure(points, how))))
         IN  IF how \in Shapes /\ IsBox(points)
             THEN HasCorners(roi, points) ELSE roi = None
  <1> DEFINE box == ParseBox(Figure(points, how))
  <1>1. CASE how \in Shapes /\ IsBox(points)
    <2>1. HasCorners(box, points)
      BY <1>1, BoxIsRead
    <2>. HIDE DEF box
    <2>2. box \in Seq(Pairs) /\ Len(box) = 4
      BY <2>1 DEF HasCorners
    <2>3. CompletePoints(Items(Points(box))) = box
      BY <2>2, ReadAgain
    <2>4. Wire(box) = Points(box)
      <3>1. ASSUME box = <<>> PROVE FALSE
        <4>1. Len(<<>>) = 0
          OBVIOUS
        <4>. QED BY <2>2, <3>1, <4>1
      <3>. QED BY <3>1 DEF Wire
    <2>5. CoercePoly(Points(box)) = box
      <3>1. ~(Len(box) < 3)
        BY <2>2
      <3>. QED BY <2>3, <3>1 DEF CoercePoly
    <2>. QED BY <1>1, <2>1, <2>4, <2>5 DEF box
  <1>2. CASE ~(how \in Shapes /\ IsBox(points))
    <2>1. box = <<>>
      BY <1>2, BoxIsRead
    <2>. QED BY <1>2, <2>1, NothingIsRead DEF Wire
  <1>. QED BY <1>1, <1>2

(* The names of a list, ticked or in a message, as ids.                    *)
LEMMA ClassesAreRead ==
  ASSUME NEW names, names = None \/ names \in Seq({None} \cup STRING), NEW how
  PROVE  LET raw == CheckBoxes(names, how)
         IN  ClassFilter(IF IsArray(raw) THEN Array(ParseClasses(raw)) ELSE Null) =
               IF how \in Shapes /\ names # None
               THEN {IdOf[n] : n \in {names[i] : i \in DOMAIN names} \cap DOMAIN IdOf}
               ELSE None
  <1> DEFINE raw == CheckBoxes(names, how)
             sent == IF IsArray(raw) THEN Array(ParseClasses(raw)) ELSE Null
  <1>1. CASE ~(how \in Shapes /\ names # None)
    <2>1. ~IsArray(raw)
      BY <1>1 DEF CheckBoxes, IsArray, Blank, Garbled
    <2>2. ClassFilter(sent) = None
      BY <2>1 DEF ClassFilter, IsArray, Null
    <2>. QED BY <1>1, <2>2
  <1>2. CASE how \in Shapes /\ names # None
    <2> DEFINE items == [i \in DOMAIN names |-> IF names[i] = None THEN Null ELSE Text(names[i])]
               places == {i \in DOMAIN names : IsText(items[i])}
               kept == ItemsAt(items, places)
    <2>1. raw = Array(items) /\ IsArray(raw) /\ Items(raw) = items
      BY <1>2 DEF CheckBoxes, IsArray, Array, Items
    <2>2. sent = Array(kept)
      BY <2>1 DEF ParseClasses
    <2>3. /\ places \in SUBSET Int /\ IsFiniteSet(places)
          /\ \A i \in places : names[i] # None /\ items[i] = Text(names[i])
          /\ \A i \in DOMAIN names : names[i] # None => i \in places
      <3>1. names \in Seq({None} \cup STRING)
        BY <1>2
      <3>2. DOMAIN names = 1..Len(names) /\ Len(names) \in Nat
        BY <3>1
      <3>3. IsFiniteSet(DOMAIN names)
        BY <3>2, FS_Interval
      <3>4. places \in SUBSET DOMAIN names
        OBVIOUS
      <3>5. \A i \in DOMAIN names : IsText(items[i]) <=> names[i] # None
        BY DEF IsText, Null, Text
      <3>6. \A i \in DOMAIN names : names[i] # None => items[i] = Text(names[i])
        OBVIOUS
      <3>7. \A i : i \in places <=> i \in DOMAIN names /\ names[i] # None
        BY <3>5
      <3>. HIDE DEF items, places
      <3>8. IsFiniteSet(places)
        BY <3>3, <3>4, FS_Subset
      <3>9. places \in SUBSET Int
        BY <3>2, <3>4
      <3>. QED BY <3>6, <3>7, <3>8, <3>9
    <2>. HIDE DEF items, places
    <2>4. /\ DOMAIN kept = 1..Cardinality(places)
          /\ \A i \in places : Cardinality(Below(places, i)) + 1 \in 1..Cardinality(places)
          /\ \A i \in places : kept[Cardinality(Below(places, i)) + 1] = items[i]
          /\ \A n \in 1..Cardinality(places) :
               \E i \in places : n = Cardinality(Below(places, i)) + 1
      BY <2>3, ItemsInOrder
    <2>. HIDE DEF kept
    <2>5. {kept[n].string : n \in DOMAIN kept} = {names[i] : i \in places}
      <3>1. ASSUME NEW n \in DOMAIN kept PROVE \E i \in places : kept[n].string = names[i]
        <4>1. PICK i \in places : kept[n] = items[i]
          BY <2>4
        <4>2. kept[n].string = Text(names[i]).string
          BY <2>3, <4>1
        <4>. QED BY <4>2 DEF Text
      <3>2. ASSUME NEW i \in places PROVE \E n \in DOMAIN kept : kept[n].string = names[i]
        <4>1. PICK n \in DOMAIN kept : kept[n] = items[i]
          BY <2>4
        <4>2. kept[n].string = Text(names[i]).string
          BY <2>3, <4>1
        <4>. QED BY <4>2 DEF Text
      <3>. QED BY <3>1, <3>2
    <2>6. ClassFilter(Array(kept)) = NamesToIds({kept[n].string : n \in DOMAIN kept})
      BY DEF ClassFilter, IsArray, Array
    <2>7. {names[i] : i \in places} \cap DOMAIN IdOf
            = {names[i] : i \in DOMAIN names} \cap DOMAIN IdOf
      BY <2>3, NoneAssumption DEF places
    <2>. QED BY <1>2, <2>2, <2>5, <2>6, <2>7 DEF NamesToIds
  <1>. QED BY <1>1, <1>2

(* The parameters of a drawing, key by key.                                *)
LEMMA WhatIsApplied ==
  ASSUME NEW d \in Drawings
  PROVE  LET roi == Applied(d).roi
             readable == d.how \in Shapes
             drawn(mask, points) ==
               IF readable /\ Cardinality(Complete(points)) >= 3
               THEN IsOutline(mask, points) ELSE mask = None
         IN  /\ IF readable /\ IsBox(d.roi) THEN HasCorners(roi, d.roi) ELSE roi = None
             /\ drawn(Applied(d).inclusive, d.inclusive)
             /\ drawn(Applied(d).exclusive, d.exclusive)
             /\ Applied(d).filter =
                  IF readable /\ d.classes # None
                  THEN {IdOf[n] : n \in {d.classes[i] : i \in DOMAIN d.classes} \cap DOMAIN IdOf}
                  ELSE None
  <1> DEFINE m == Members(Page(d))
  <1>1. /\ m.roi = ParseBox(Figure(d.roi, d.how))
        /\ m.inclusive = ParsePolygon(Figure(d.inclusive, d.how))
        /\ m.exclusive = ParsePolygon(Figure(d.exclusive, d.how))
        /\ m.classes = ParseClasses(CheckBoxes(d.classes, d.how))
        /\ m.classesSet = IsArray(CheckBoxes(d.classes, d.how))
    BY DEF Members, Page
  <1>. HIDE DEF m
  <1>2. /\ Applied(d).roi = CoercePoly(Wire(m.roi))
        /\ Applied(d).inclusive = CoercePoly(Wire(m.inclusive))
        /\ Applied(d).exclusive = CoercePoly(Wire(m.exclusive))
        /\ Applied(d).filter = ClassFilter(IF m.classesSet THEN Array(m.classes) ELSE Null)
    BY MessageHolds DEF Applied, Parameters, m
  <1>3. d.roi \in Seq(Seq(Int)) /\ d.inclusive \in Seq(Seq(Int)) /\ d.exclusive \in Seq(Seq(Int))
        /\ (d.classes = None \/ d.classes \in Seq({None} \cup STRING))
    BY DrawingsAssumption
  <1>4. IF d.how \in Shapes /\ IsBox(d.roi)
        THEN HasCorners(Applied(d).roi, d.roi) ELSE Applied(d).roi = None
    BY <1>1, <1>2, <1>3, BoxIsDrawn
  <1>5. IF d.how \in Shapes /\ Cardinality(Complete(d.inclusive)) >= 3
        THEN IsOutline(Applied(d).inclusive, d.inclusive) ELSE Applied(d).inclusive = None
    BY <1>1, <1>2, <1>3, MaskIsDrawn
  <1>6. IF d.how \in Shapes /\ Cardinality(Complete(d.exclusive)) >= 3
        THEN IsOutline(Applied(d).exclusive, d.exclusive) ELSE Applied(d).exclusive = None
    BY <1>1, <1>2, <1>3, MaskIsDrawn
  <1>7. Applied(d).filter =
          IF d.how \in Shapes /\ d.classes # None
          THEN {IdOf[n] : n \in {d.classes[i] : i \in DOMAIN d.classes} \cap DOMAIN IdOf}
          ELSE None
    BY <1>1, <1>2, <1>3, ClassesAreRead
  <1>. QED BY <1>4, <1>5, <1>6, <1>7

-----------------------------------------------------------------------------
(* The crop and the letterbox.                                             *)
LEMMA CropIsProper ==
  ASSUME NEW roi, IsRect(roi), NEW size \in [x : Pixels, y : Pixels], NEW a \in Axes
  PROVE  /\ size[a] \in Pixels
         /\ Crop(roi, size)[a].lo \in Nat /\ Crop(roi, size)[a].hi \in Nat
         /\ Length(Crop(roi, size)[a]) \in Pixels
         /\ Crop(roi, size)[a].lo + Length(Crop(roi, size)[a]) = Crop(roi, size)[a].hi
         /\ size[a] >= MinCrop => Length(Crop(roi, size)[a]) >= MinCrop
  <1>1. size[a] \in Pixels
    BY DEF Axes
  <1>2. roi[a].lo \in Int /\ roi[a].hi \in Int
    BY DEF IsRect
  <1> DEFINE lo == Pixel(roi[a].lo, size[a])
             hi == Pixel(roi[a].hi, size[a])
  <1>3. lo \in 0..size[a] /\ hi \in 0..size[a]
    BY <1>1, <1>2, PixelRange
  <1>4. CASE \A b \in Axes : Length(Cut(roi, size)[b]) >= MinCrop
    <2>1. Crop(roi, size)[a] = [lo |-> lo, hi |-> hi]
      BY <1>4 DEF Crop, Cut
    <2>2. hi - lo >= MinCrop
      BY <1>4 DEF Cut, Length
    <2>. HIDE DEF lo, hi
    <2>. QED BY <1>1, <1>3, <2>1, <2>2, GridAssumption DEF Pixels, Length
  <1>5. CASE ~ \A b \in Axes : Length(Cut(roi, size)[b]) >= MinCrop
    <2>1. Crop(roi, size)[a] = [lo |-> 0, hi |-> size[a]]
      BY <1>5 DEF Crop, Whole
    <2>. QED BY <1>1, <2>1 DEF Pixels, Length
  <1>. QED BY <1>4, <1>5

(* A finite set of numbers has a least and a greatest.                     *)
LEMMA ExtremesExist ==
  ASSUME NEW S \in SUBSET Int, S # {}, IsFiniteSet(S)
  PROVE  Min(S) \in S /\ Max(S) \in S /\ \A v \in S : Min(S) <= v /\ v <= Max(S)
  <1>1. PICK x \in S : \A y \in S : y <= x
    BY GreatestNumber
  <1>2. Max(S) \in S /\ \A v \in S : v <= Max(S)
    BY <1>1 DEF Max
  <1> DEFINE T == {-v : v \in S}
  <1>3. T \in SUBSET Int /\ T # {} /\ IsFiniteSet(T)
    <2> DEFINE negated == [v \in S |-> -v]
    <2>1. negated \in [S -> Int] /\ T = {negated[v] : v \in S}
      OBVIOUS
    <2>2. IsFiniteSet({negated[v] : v \in S})
      <3>. HIDE DEF negated, T
      <3>. QED BY <2>1, ValuesAreFinite
    <2>3. IsFiniteSet(T)
      BY <2>1, <2>2
    <2>. QED BY <2>3
  <1>4. PICK y \in T : \A z \in T : z <= y
    <2>. HIDE DEF T
    <2>. QED BY <1>3, GreatestNumber
  <1>5. PICK least \in S : y = -least
    BY <1>4
  <1>6. ASSUME NEW v \in S PROVE least <= v
    <2>1. -v <= -least
      BY <1>4, <1>5
    <2>. QED BY <2>1
  <1>7. Min(S) \in S /\ \A v \in S : Min(S) <= v
    BY <1>5, <1>6 DEF Min
  <1>. QED BY <1>2, <1>7

(* The bounding rectangle of a list of points.                             *)
LEMMA SpanIsRect ==
  ASSUME NEW points \in Seq(Pairs), Len(points) > 0
  PROVE  IsRect(Span(points))
  <1> DEFINE on(axis) == {points[i][axis] : i \in DOMAIN points}
  <1>1. DOMAIN points = 1..Len(points) /\ Len(points) \in Nat
    OBVIOUS
  <1>2. IsFiniteSet(DOMAIN points) /\ 1 \in DOMAIN points
    BY <1>1, FS_Interval
  <1>3. \A i \in DOMAIN points : points[i][1] \in Int /\ points[i][2] \in Int
    BY <1>1, ElementOfSeq, PairsAreTheirItems
  <1>4. ASSUME NEW axis \in 1..2 PROVE Min(on(axis)) \in Int /\ Max(on(axis)) \in Int
    <2>1. on(axis) \in SUBSET Int /\ on(axis) # {}
      <3>1. \A i \in DOMAIN points : points[i][axis] \in Int
        BY <1>3, <1>4
      <3>2. points[1][axis] \in on(axis)
        BY <1>2
      <3>. QED BY <3>1, <3>2
    <2>2. IsFiniteSet(on(axis))
      <3> DEFINE along == [i \in DOMAIN points |-> points[i][axis]]
      <3>1. along \in [DOMAIN points -> Int] /\ on(axis) = {along[i] : i \in DOMAIN points}
        <4>1. axis = 1 \/ axis = 2
          BY <1>4
        <4>. QED BY <1>3, <4>1
      <3>2. IsFiniteSet({along[i] : i \in DOMAIN points})
        <4>1. along \in [DOMAIN points -> Int]
          BY <3>1
        <4>. HIDE DEF along, on
        <4>. QED BY <1>2, <4>1, ValuesAreFinite
      <3>. QED BY <3>1, <3>2
    <2>. HIDE DEF on
    <2>. QED BY <2>1, <2>2, ExtremesExist
  <1>5. Span(points) = [x |-> [lo |-> Min(on(1)), hi |-> Max(on(1))],
                        y |-> [lo |-> Min(on(2)), hi |-> Max(on(2))]]
    BY DEF Span
  <1>. HIDE DEF on
  <1>. QED BY <1>4, <1>5 DEF IsRect, Axes

(* The ratio of the letterbox is that of one of the two axes.              *)
LEMMA RatioIsOfAnAxis ==
  ASSUME NEW size, NEW model
  PROVE  \E b \in Axes : Ratio(size, model) = [num |-> model[b], den |-> size[b]]
  BY DEF Ratio, Axes

(* What a state's crop and letterbox are.                                  *)
Sound == settings \in Settings /\ frame.size \in Sizes

(* What the parameters of a config can be.                                 *)
LEMMA SettingsAreProper ==
  ASSUME Sound
  PROVE  /\ settings.model \in Models
         /\ \A region \in {settings.roi, settings.inclusive, settings.exclusive} :
              region = None \/ IsRect(Span(region))
  <1>1. PICK m \in Models, l \in Layouts, d \in Drawings : settings = Chosen(m, l, Applied(d))
    BY DEF Sound, Settings
  <1>2. /\ settings.model = m /\ settings.roi = Applied(d).roi
        /\ settings.inclusive = Applied(d).inclusive
        /\ settings.exclusive = Applied(d).exclusive
    BY <1>1 DEF Chosen
  <1>3. \A points, region : HasCorners(region, points) => IsRect(Span(region))
    BY SpanIsRect DEF HasCorners
  <1>4. \A points, region :
          IsOutline(region, points) /\ Cardinality(Complete(points)) >= 3 => IsRect(Span(region))
    BY SpanIsRect DEF IsOutline
  <1>5. settings.roi = None \/ IsRect(Span(settings.roi))
    BY <1>2, <1>3, WhatIsApplied
  <1>6. /\ settings.inclusive = None \/ IsRect(Span(settings.inclusive))
        /\ settings.exclusive = None \/ IsRect(Span(settings.exclusive))
    BY <1>2, <1>4, WhatIsApplied
  <1>. QED BY <1>2, <1>5, <1>6

(* The crop has pixels in both directions, and at least MinCrop if the     *)
(* frame has.                                                              *)
LEMMA LetterboxIsProper ==
  ASSUME Sound, NEW a \in Axes
  PROVE  /\ crop[a].lo \in Nat /\ crop[a].hi \in Nat
         /\ side[a] \in Pixels /\ crop[a].lo + side[a] = crop[a].hi
         /\ frame.size[a] \in Pixels /\ settings.model[a] \in Pixels
         /\ frame.size[a] >= MinCrop => side[a] >= MinCrop
  <1>1. frame.size \in [x : Pixels, y : Pixels] /\ settings.model \in [x : Pixels, y : Pixels]
    BY SettingsAreProper, SizesAssumption DEF Sound
  <1>2. settings.roi = None \/ IsRect(Span(settings.roi))
    BY SettingsAreProper
  <1>3. settings.model[a] \in Pixels
    BY <1>1 DEF Axes
  <1>4. side[a] = Length(crop[a])
    BY DEF side
  <1>5. CASE settings.roi = None
    <2>1. frame.size[a] \in Pixels
      BY <1>1 DEF Axes
    <2>2. crop[a] = [lo |-> 0, hi |-> frame.size[a]]
      BY <1>5 DEF crop, Whole
    <2>. QED BY <1>3, <1>4, <2>1, <2>2 DEF Length, Pixels
  <1>6. CASE settings.roi # None
    <2>1. crop = Crop(Span(settings.roi), frame.size)
      BY <1>6 DEF crop
    <2>. QED BY <1>1, <1>2, <1>3, <1>4, <1>6, <2>1, CropIsProper
  <1>. QED BY <1>5, <1>6

(* The ratio is that of an axis of the crop and the input.                 *)
LEMMA RatioIsProper ==
  ASSUME Sound
  PROVE  /\ ratio \in [num : Pixels, den : Pixels]
         /\ \E b \in Axes : ratio.num = settings.model[b] /\ ratio.den = side[b]
  <1>1. PICK b \in Axes : ratio = [num |-> settings.model[b], den |-> side[b]]
    BY RatioIsOfAnAxis DEF ratio
  <1>2. side[b] \in Pixels /\ settings.model[b] \in Pixels
    BY LetterboxIsProper
  <1>. QED BY <1>1, <1>2

(* What is seen of an object lies in the crop.                             *)
LEMMA SeenIsInCrop ==
  ASSUME Sound, NEW o, IsRect(o), NEW a \in Axes
  PROVE  Seen(o)[a].lo \in 0..side[a] /\ Seen(o)[a].hi \in 0..side[a]
  <1>1. o[a].lo \in Int /\ o[a].hi \in Int
    BY DEF IsRect
  <1>2. frame.size[a] \in Pixels
    BY LetterboxIsProper
  <1> DEFINE lo == Pixel(o[a].lo, frame.size[a])
             hi == Pixel(o[a].hi, frame.size[a])
  <1>3. lo \in 0..frame.size[a] /\ hi \in 0..frame.size[a]
    BY <1>1, <1>2, PixelRange
  <1>4. lo \in Int /\ hi \in Int
    BY <1>2, <1>3 DEF Pixels
  <1>5. Seen(o)[a] = [lo |-> Clamp(lo, crop[a].lo, crop[a].hi) - crop[a].lo,
                      hi |-> Clamp(hi, crop[a].lo, crop[a].hi) - crop[a].lo]
    BY DEF Seen
  <1>. HIDE DEF lo, hi
  <1>. QED BY <1>4, <1>5, LetterboxIsProper DEF Clamp, Pixels
(* A drawn edge, remapped to the frame: in the crop, and near the true one. *)
LEMMA BackInFrame ==
  ASSUME Sound, NEW a \in Axes, NEW v \in 0..side[a]
  PROVE  LET n == side[a]
             m == settings.model[a]
             back == InFrame(OnCanvas(v, n, m, ratio), n, m, ratio, crop[a].lo)
             true == (v + crop[a].lo) * Unit(a)
         IN  /\ back \in Int /\ true \in Int /\ ModelPixel(a) \in Nat
             /\ crop[a].lo * Unit(a) <= back /\ back <= crop[a].hi * Unit(a)
             /\ 2 * (back - true) <= ModelPixel(a)
             /\ -ModelPixel(a) <= 2 * (back - true)
  <1> DEFINE n == side[a]
             m == settings.model[a]
             lo == crop[a].lo
             num == ratio.num
             in == InImage(OnCanvas(v, n, m, ratio), n, m, ratio)
             back == InFrame(OnCanvas(v, n, m, ratio), n, m, ratio, lo)
             true == (v + lo) * Unit(a)
             unit == n * num
  <1>1. n \in Pixels /\ m \in Pixels /\ lo \in Nat /\ lo + n = crop[a].hi
    BY LetterboxIsProper
  <1>2. ratio \in [num : Pixels, den : Pixels]
    BY RatioIsProper
  <1>3. /\ in \in 0..(n * n * num)
        /\ 2 * (in - v * unit) <= n * ratio.den
        /\ -(n * ratio.den) <= 2 * (in - v * unit)
    BY <1>1, <1>2, RoundTrip
  <1>4. back = in + lo * n * num
    BY DEF InFrame
  <1>5. n \in Nat /\ num \in Nat /\ v \in Nat /\ ratio.den \in Nat
    BY <1>1, <1>2 DEF Pixels
  <1>6. Unit(a) = unit /\ ModelPixel(a) = n * ratio.den
    BY DEF Unit, ModelPixel
  <1>7. unit \in Nat /\ n * ratio.den \in Nat
    BY <1>5
  <1>8. /\ lo * n * num = lo * unit /\ n * n * num = n * unit
        /\ (v + lo) * unit = v * unit + lo * unit
        /\ (lo + n) * unit = lo * unit + n * unit
    BY <1>1, <1>5
  <1>9. lo * unit \in Nat /\ v * unit \in Nat /\ n * unit \in Nat
    BY <1>1, <1>5, <1>7
  <1>10. true = v * unit + lo * unit /\ crop[a].hi * Unit(a) = lo * unit + n * unit
    BY <1>1, <1>6, <1>8
  <1>11. in \in 0..(n * unit) /\ back = in + lo * unit
    BY <1>3, <1>4, <1>8
  <1>. HIDE DEF in, back, true, unit, n, lo, num
  <1>12. back \in Int /\ true \in Int /\ ModelPixel(a) \in Nat
    BY <1>6, <1>7, <1>9, <1>10, <1>11
  <1>13. crop[a].lo * Unit(a) <= back /\ back <= crop[a].hi * Unit(a)
    BY <1>6, <1>9, <1>10, <1>11 DEF lo
  <1>14. back - true = in - v * unit
    BY <1>9, <1>10, <1>11
  <1>. QED BY <1>3, <1>6, <1>12, <1>13, <1>14 DEF back, true, n, lo

(* The placed row of an object.                                            *)
Placed(o) == ToFrame(Row(o))

(* The way of an object to the canvas and back, edge by edge.              *)
LEMMA PlacedRow ==
  ASSUME NEW o, NEW a \in Axes
  PROVE  /\ Row(o).of = o /\ Placed(o).of = o
         /\ Placed(o).box[a].lo =
              InFrame(OnCanvas(Seen(o)[a].lo, side[a], settings.model[a], ratio),
                      side[a], settings.model[a], ratio, crop[a].lo)
         /\ Placed(o).box[a].hi =
              InFrame(OnCanvas(Seen(o)[a].hi, side[a], settings.model[a], ratio),
                      side[a], settings.model[a], ratio, crop[a].lo)
  <1>1. Row(o).of = o /\ Row(o).box = Drawn(o) /\ Placed(o).of = o
    BY DEF Row, ToFrame, Placed
  <1>2. Placed(o).box = [b \in Axes |->
          [lo |-> InFrame(Drawn(o)[b].lo, side[b], settings.model[b], ratio, crop[b].lo),
           hi |-> InFrame(Drawn(o)[b].hi, side[b], settings.model[b], ratio, crop[b].lo)]]
    BY <1>1 DEF Row, ToFrame, Placed
  <1>3. Drawn(o)[a] =
          [lo |-> OnCanvas(Seen(o)[a].lo, side[a], settings.model[a], ratio),
           hi |-> OnCanvas(Seen(o)[a].hi, side[a], settings.model[a], ratio)]
    BY DEF Drawn
  <1>. QED BY <1>1, <1>2, <1>3

(* An edge comes back into the crop, at most half a model pixel from where *)
(* it was.                                                                 *)
LEMMA PlacedIsNear ==
  ASSUME Sound, NEW o, IsRect(o), NEW a \in Axes
  PROVE  /\ Placed(o).box[a].lo \in Int /\ Placed(o).box[a].hi \in Int
         /\ Edge(o, a, "lo") \in Int /\ Edge(o, a, "hi") \in Int /\ ModelPixel(a) \in Nat
         /\ crop[a].lo * Unit(a) <= Placed(o).box[a].lo
         /\ Placed(o).box[a].hi <= crop[a].hi * Unit(a)
         /\ 2 * (Placed(o).box[a].lo - Edge(o, a, "lo")) <= ModelPixel(a)
         /\ -ModelPixel(a) <= 2 * (Placed(o).box[a].lo - Edge(o, a, "lo"))
         /\ 2 * (Placed(o).box[a].hi - Edge(o, a, "hi")) <= ModelPixel(a)
         /\ -ModelPixel(a) <= 2 * (Placed(o).box[a].hi - Edge(o, a, "hi"))
  <1>1. Seen(o)[a].lo \in 0..side[a] /\ Seen(o)[a].hi \in 0..side[a]
    BY SeenIsInCrop
  <1>2. /\ Edge(o, a, "lo") = (Seen(o)[a].lo + crop[a].lo) * Unit(a)
        /\ Edge(o, a, "hi") = (Seen(o)[a].hi + crop[a].lo) * Unit(a)
    BY DEF Edge
  <1>. QED BY <1>1, <1>2, PlacedRow, BackInFrame
(* Two edges stay apart unless both are clamped to the end of the image.   *)
LEMMA ApartOrClamped ==
  ASSUME NEW n \in Pixels, NEW m \in Pixels, NEW r \in [num : Pixels, den : Pixels],
         NEW v \in 0..n, NEW w \in 0..n, v < w, Resized(n, r) # 0
  PROVE  \/ InImage(OnCanvas(v, n, m, r), n, m, r) < InImage(OnCanvas(w, n, m, r), n, m, r)
         \/ InImage(OnCanvas(v, n, m, r), n, m, r) = n * n * r.num
  <1> DEFINE new == Resized(n, r)
             p == (v * new) * r.den
             q == (w * new) * r.den
             all == n * n * r.num
  <1>1. /\ new \in Nat /\ new > 0
        /\ Undone(OnCanvas(v, n, m, r), n, m, r) = p
        /\ Undone(OnCanvas(w, n, m, r), n, m, r) = q
    BY UndoneIsExact
  <1>2. n \in Nat /\ v \in Nat /\ w \in Nat /\ r.num \in Nat /\ n > 0 /\ r.num > 0
        /\ r.den \in Nat /\ r.den > 0
    BY DEF Pixels
  <1>3. v * new < w * new /\ v * new \in Nat /\ w * new \in Nat
    BY <1>1, <1>2
  <1> DEFINE vn == v * new
             wn == w * new
  <1>4. vn < wn /\ vn \in Nat /\ wn \in Nat
    BY <1>3
  <1>. HIDE DEF vn, wn, new
  <1>5. vn * r.den < wn * r.den /\ vn * r.den \in Nat /\ wn * r.den \in Nat
    BY <1>2, <1>4
  <1>6. p < q /\ p \in Nat /\ q \in Nat
    BY <1>5 DEF vn, wn
  <1>7. all \in Nat
    BY <1>2
  <1>. HIDE DEF p, q, all
  <1>8. Clamp(p, 0, all) < Clamp(q, 0, all) \/ Clamp(p, 0, all) = all
    BY <1>6, <1>7 DEF Clamp
  <1>. QED BY <1>1, <1>8 DEF InImage, all

(* What is not tiny survives the clamping of decode_boxes.                 *)
LEMMA OnlyTinyAreLost ==
  ASSUME Sound, ~TooThin, NEW o, IsRect(o), IsSeen(o), ~IsTiny(o)
  PROVE  HasInside(Placed(o))
  <1> SUFFICES ASSUME NEW a \in Axes
               PROVE  Placed(o).box[a].lo < Placed(o).box[a].hi
    BY DEF HasInside
  <1> DEFINE n == side[a]
             m == settings.model[a]
             v == Seen(o)[a].lo
             w == Seen(o)[a].hi
             off == crop[a].lo
             unit == Unit(a)
             inV == InImage(OnCanvas(v, n, m, ratio), n, m, ratio)
             inW == InImage(OnCanvas(w, n, m, ratio), n, m, ratio)
  <1>1. v \in 0..n /\ w \in 0..n /\ v < w
    BY SeenIsInCrop DEF IsSeen
  <1>2. n \in Pixels /\ m \in Pixels /\ off \in Nat
    BY LetterboxIsProper
  <1>3. ratio \in [num : Pixels, den : Pixels]
    BY RatioIsProper
  <1>4. Resized(n, ratio) # 0
    BY DEF TooThin
  <1>5. inV < inW \/ inV = n * n * ratio.num
    BY <1>1, <1>2, <1>3, <1>4, ApartOrClamped
  <1>6. /\ Placed(o).box[a].lo = inV + off * n * ratio.num
        /\ Placed(o).box[a].hi = inW + off * n * ratio.num
    BY PlacedRow DEF InFrame
  <1>7. n \in Nat /\ n > 0 /\ ratio.num \in Nat /\ unit \in Nat /\ unit = n * ratio.num
    BY <1>2, <1>3 DEF Unit, Pixels
  <1>8. off * n * ratio.num \in Nat /\ n * n * ratio.num = n * unit
        /\ off * n * ratio.num = off * unit /\ n * unit \in Nat /\ off * unit \in Nat
    BY <1>2, <1>7
  <1>9. inV \in Int /\ inW \in Int
    <2>1. inV \in 0..(n * n * ratio.num) /\ inW \in 0..(n * n * ratio.num)
      BY <1>1, <1>2, <1>3, RoundTrip
    <2>. QED BY <1>8, <2>1
  <1>10. CASE inV = n * n * ratio.num
    <2>1. 2 * (Placed(o).box[a].lo - Edge(o, a, "lo")) <= ModelPixel(a)
          /\ ModelPixel(a) \in Nat
      BY PlacedIsNear
    <2>2. Edge(o, a, "lo") = (v + off) * unit
      BY DEF Edge
    <2>3. (v + off) * unit = v * unit + off * unit /\ v * unit \in Nat /\ w * unit \in Nat
      BY <1>1, <1>2, <1>7
    <2>4. 2 * (n * unit - v * unit) <= ModelPixel(a)
      BY <1>6, <1>8, <1>10, <2>1, <2>2, <2>3
    <2>5. w * unit <= n * unit
      BY <1>1, <1>7
    <2>6. 2 * Length(Seen(o)[a]) * unit = 2 * (w * unit - v * unit)
      BY <1>1, <1>7 DEF Length
    <2>7. 2 * Length(Seen(o)[a]) * unit <= ModelPixel(a)
      BY <1>8, <2>1, <2>3, <2>4, <2>5, <2>6
    <2>. QED BY <2>7 DEF IsTiny
  <1>11. CASE inV < inW
    BY <1>6, <1>8, <1>9, <1>11
  <1>. QED BY <1>5, <1>10, <1>11

(* A mask that decides by more than half a model pixel decides the same    *)
(* about the placed box and the object.                                    *)
LEMMA CentresAgree ==
  ASSUME Sound, NEW o, IsRect(o), NEW mask, IsRect(Span(mask))
  PROVE  /\ CentreIn(mask, Placed(o).box) => Possibly(mask, o)
         /\ Surely(mask, o) => CentreIn(mask, Placed(o).box)
  <1> DEFINE twice(a) == Placed(o).box[a].lo + Placed(o).box[a].hi
             from(a) == 2 * Unit(a) * Pixel(Span(mask)[a].lo, frame.size[a])
             upto(a) == 2 * Unit(a) * Pixel(Span(mask)[a].hi, frame.size[a])
  <1>1. ASSUME NEW a \in Axes
        PROVE  /\ from(a) \in Int /\ upto(a) \in Int
               /\ twice(a) \in Int /\ TwiceCentre(o, a) \in Int /\ ModelPixel(a) \in Nat
               /\ twice(a) <= TwiceCentre(o, a) + ModelPixel(a)
               /\ TwiceCentre(o, a) + (-ModelPixel(a)) <= twice(a)
    <2>1. frame.size[a] \in Pixels /\ side[a] \in Pixels /\ ratio.num \in Pixels
      BY LetterboxIsProper, RatioIsProper
    <2>2. Span(mask)[a].lo \in Int /\ Span(mask)[a].hi \in Int
      BY DEF IsRect
    <2>3. /\ Pixel(Span(mask)[a].lo, frame.size[a]) \in 0..frame.size[a]
          /\ Pixel(Span(mask)[a].hi, frame.size[a]) \in 0..frame.size[a]
      BY <2>1, <2>2, PixelRange
    <2>4. Unit(a) \in Int
      BY <2>1 DEF Unit, Pixels
    <2>5. from(a) \in Int /\ upto(a) \in Int
      BY <2>1, <2>3, <2>4 DEF Pixels
    <2>. QED BY <2>5, PlacedIsNear DEF TwiceCentre
  <1>2. ASSUME CentreIn(mask, Placed(o).box), NEW a \in Axes
        PROVE  from(a) <= TwiceCentre(o, a) + ModelPixel(a)
               /\ TwiceCentre(o, a) <= upto(a) + ModelPixel(a)
    <2>1. from(a) <= twice(a) + 0 /\ twice(a) <= upto(a) + 0
      BY <1>2 DEF CentreIn, Inside
    <2>. HIDE DEF from, upto, twice
    <2>. QED BY <1>1, <2>1
  <1>3. ASSUME Surely(mask, o), NEW a \in Axes
        PROVE  from(a) <= twice(a) + 0 /\ twice(a) <= upto(a) + 0
    <2>1. from(a) <= TwiceCentre(o, a) + (-ModelPixel(a))
          /\ TwiceCentre(o, a) <= upto(a) + (-ModelPixel(a))
      BY <1>3 DEF Surely, Inside
    <2>. HIDE DEF from, upto, twice
    <2>. QED BY <1>1, <2>1
  <1>. QED BY <1>2, <1>3 DEF CentreIn, Surely, Possibly, Inside
-----------------------------------------------------------------------------
(* The inductive invariant: what the boxes of each stage are, as functions *)
(* of the scene and of the choice the suppression made.                    *)
Candidates == Selected({Row(o) : o \in {s \in frame.scene : IsSeen(s)}})
KeptSets == IF settings.layout = "yolov8" THEN Suppressions(Candidates) ELSE {Candidates}
PlacedOf(kept) == {row \in {ToFrame(r) : r \in kept} : HasInside(row)}
AnswerOf(kept) == {row \in PlacedOf(kept) : Allowed(row)}

Pipe ==
  /\ drawing \in Drawings
  /\ Sound
  /\ stage \in Stages
  /\ frame.scene \in Scenes \cup {{}}
  /\ stage \in {"idle", "cropped", "raised"} => boxes = {}
  /\ stage = "raised" => TooThin
  /\ stage \in {"selected", "kept", "placed"} => ~TooThin
  /\ stage = "selected" => boxes = Candidates
  /\ stage = "kept" => boxes \in KeptSets
  /\ stage = "placed" => \E kept \in KeptSets : boxes = PlacedOf(kept)
  /\ stage = "answered" =>
       \/ settings.filter = {} /\ boxes = {}
       \/ ~TooThin /\ \E kept \in KeptSets : boxes = AnswerOf(kept)

(* The operators of a stage only read the settings and the frame.          *)
LEMMA Unmoved ==
  ASSUME UNCHANGED <<settings, frame>>
  PROVE  /\ Sound' = Sound /\ TooThin' = TooThin
         /\ Candidates' = Candidates /\ KeptSets' = KeptSets
         /\ \A kept : PlacedOf(kept)' = PlacedOf(kept)
         /\ \A kept : AnswerOf(kept)' = AnswerOf(kept)
  <1>1. settings' = settings /\ frame' = frame
    OBVIOUS
  <1>2. Sound' = Sound
    BY <1>1 DEF Sound
  <1>3. crop' = crop
    BY <1>1 DEF crop
  <1>4. side' = side
    BY <1>3 DEF side
  <1>5. ratio' = ratio
    BY <1>1, <1>4 DEF ratio
  <1>6. TooThin' = TooThin
    BY <1>4, <1>5 DEF TooThin
  <1>7. \A o : Seen(o)' = Seen(o)
    BY <1>1, <1>3 DEF Seen
  <1>8. \A o : IsSeen(o)' = IsSeen(o)
    BY <1>7 DEF IsSeen
  <1>9. \A o : Drawn(o)' = Drawn(o)
    BY <1>1, <1>4, <1>5, <1>7 DEF Drawn
  <1>10. \A o : Row(o)' = Row(o)
    BY <1>9 DEF Row
  <1>11. \A rows : Selected(rows)' = Selected(rows)
    BY <1>1 DEF Selected, Ticked, Scores
  <1>12. Candidates' = Candidates
    BY <1>1, <1>8, <1>10, <1>11 DEF Candidates
  <1>13. KeptSets' = KeptSets
    BY <1>1, <1>12 DEF KeptSets
  <1>14. \A row : ToFrame(row)' = ToFrame(row)
    BY <1>1, <1>3, <1>4, <1>5 DEF ToFrame
  <1>15. \A kept : PlacedOf(kept)' = PlacedOf(kept)
    BY <1>14 DEF PlacedOf, HasInside
  <1>16. \A row : Allowed(row)' = Allowed(row)
    BY <1>1, <1>4, <1>5 DEF Allowed, CentreIn, Unit
  <1>17. \A kept : AnswerOf(kept)' = AnswerOf(kept)
    BY <1>15, <1>16 DEF AnswerOf
  <1>. QED BY <1>2, <1>6, <1>12, <1>13, <1>15, <1>17

(* At every stage the boxes are what this stage makes of the scene, for    *)
(* one choice of the suppression.                                          *)
THEOREM PipeInvariant == Spec => []Pipe
  <1>1. Init => Pipe
    BY SizesAssumption DEF Init, Settings, Pipe, Sound, Stages
  <1>2. Pipe /\ [Next]_vars => Pipe'
    <2> SUFFICES ASSUME Pipe, [Next]_vars PROVE Pipe'
      OBVIOUS
    <2>1. CASE Configured
      BY <2>1 DEF Configured, Applies, Settings, Idle, Pipe, Sound
    <2>2. CASE Received
      BY <2>2 DEF Received, Idle, Pipe, Sound, Frames, Stages
    <2>3. CASE LetterboxFails
      BY <2>3, Unmoved DEF LetterboxFails, Pipe, Stages
    <2>4. CASE Infers
      BY <2>4, Unmoved DEF Infers, Pipe, Stages, Candidates
    <2>5. CASE Thins
      BY <2>5, Unmoved DEF Thins, Pipe, Stages, KeptSets
    <2>6. CASE Places
      <3>1. boxes' = PlacedOf(boxes)
        BY <2>6 DEF Places, PlacedOf
      <3>. QED BY <2>6, <3>1, Unmoved DEF Places, Pipe, Stages
    <2>7. CASE FiltersByRegions
      <3>1. \A kept : boxes = PlacedOf(kept) => boxes' = AnswerOf(kept)
        BY <2>7 DEF FiltersByRegions, AnswerOf
      <3>. QED BY <2>7, <3>1, Unmoved DEF FiltersByRegions, Pipe, Stages
    <2>8. CASE Sent
      BY <2>8, SizesAssumption DEF Sent, Pipe, Sound, Stages
    <2>9. CASE UNCHANGED vars
      BY <2>9, Unmoved DEF vars, Pipe
    <2>. QED BY <2>1, <2>2, <2>3, <2>4, <2>5, <2>6, <2>7, <2>8, <2>9 DEF Next
  <1>. QED BY <1>1, <1>2, PTL DEF Spec

(* What a row of a stage is about.                                         *)
LEMMA KeptAreCandidates ==
  ASSUME NEW kept \in KeptSets
  PROVE  /\ kept \subseteq Candidates
         /\ \A row \in kept : \E o \in frame.scene :
              row = Row(o) /\ IsSeen(o) /\ Scores(Row(o)) /\ Ticked(Row(o))
  <1>1. kept \subseteq Candidates
    BY DEF KeptSets, Suppressions
  <1>. QED BY <1>1 DEF Candidates, Selected

(* Boxes in the frame are objects of the scene that went to the canvas and *)
(* back, and have an inside.                                               *)
LEMMA PlacedAreOfTheScene ==
  ASSUME Pipe, stage \in {"placed", "answered"}, NEW row \in boxes
  PROVE  \E o \in frame.scene : row = Placed(o) /\ IsRect(o) /\ HasInside(row)
  <1>1. PICK kept \in KeptSets : row \in PlacedOf(kept)
    BY DEF Pipe, AnswerOf
  <1>2. PICK r \in kept : row = ToFrame(r) /\ HasInside(row)
    BY <1>1 DEF PlacedOf
  <1>3. PICK o \in frame.scene : r = Row(o)
    BY <1>2, KeptAreCandidates
  <1>4. IsRect(o)
    BY <1>3, ScenesAssumption DEF Pipe
  <1>. QED BY <1>2, <1>3, <1>4 DEF Placed
(* Rows on the canvas are of objects of the scene.                         *)
LEMMA SelectedAreOfTheScene ==
  ASSUME Pipe, stage \in {"selected", "kept"}, NEW row \in boxes
  PROVE  row.of \in frame.scene
  <1>1. row \in Candidates
    BY KeptAreCandidates DEF Pipe
  <1>. QED BY <1>1, PlacedRow DEF Candidates, Selected, Row

-----------------------------------------------------------------------------
(* Theorems.                                                               *)

(* Types, and that every box in the frame has an inside and stays in the   *)
(* crop, for every frame, region and model size (the clamping and the      *)
(* offset of decode_boxes and serve()).                                    *)
THEOREM PipelineTypeOK == Spec => []TypeOK
  <1>1. Pipe => TypeOK
    <2> SUFFICES ASSUME Pipe PROVE TypeOK
      OBVIOUS
    <2>1. drawing \in Drawings /\ settings \in Settings /\ stage \in Stages /\ frame.size \in Sizes
      BY DEF Pipe, Sound
    <2>2. ReportedObjects \subseteq frame.scene
      <3>1. CASE stage \in {"idle", "cropped", "raised"}
        BY <3>1 DEF Pipe, ReportedObjects
      <3>2. CASE stage \in {"selected", "kept"}
        BY <3>2, SelectedAreOfTheScene DEF ReportedObjects
      <3>3. CASE stage \in {"placed", "answered"}
        <4>1. \A o \in frame.scene : Placed(o).of = o
          BY PlacedRow DEF Axes
        <4>. QED BY <3>3, <4>1, PlacedAreOfTheScene DEF ReportedObjects
      <3>. QED BY <2>1, <3>1, <3>2, <3>3 DEF Stages
    <2>3. ASSUME stage \in {"placed", "answered"}, NEW row \in boxes, NEW a \in Axes
          PROVE  /\ crop[a].lo * Unit(a) <= row.box[a].lo
                 /\ row.box[a].lo < row.box[a].hi
                 /\ row.box[a].hi <= crop[a].hi * Unit(a)
      <3>1. PICK o \in frame.scene : row = Placed(o) /\ IsRect(o) /\ HasInside(row)
        BY <2>3, PlacedAreOfTheScene
      <3>. QED BY <2>3, <3>1, PlacedIsNear DEF Pipe, HasInside
    <2>. QED BY <2>1, <2>2, <2>3 DEF TypeOK
  <1>. QED BY <1>1, PipeInvariant, PTL

(* The parameters are those of the drawing that was applied last.          *)
AsDrawn ==
  /\ drawing \in Drawings
  /\ \E m \in Models, l \in Layouts : settings = Chosen(m, l, Applied(drawing))

LEMMA SettingsAreAsDrawn == Spec => []AsDrawn
  <1>1. Init => AsDrawn
    BY DEF Init, AsDrawn
  <1>2. AsDrawn /\ [Next]_vars => AsDrawn'
    BY DEF AsDrawn, Next, vars, Configured, Applies, Received, LetterboxFails, Infers,
           Thins, Places, FiltersByRegions, Sent
  <1>. QED BY <1>1, <1>2, PTL DEF Spec

(* What the user drew is in force, for every page that can be drawn: the   *)
(* shapes the client sends and the two parsers on the way (device_agent.cpp *)
(* 44-208 and 385-418, worker.py 246-272).                                 *)
THEOREM PipelinePageIsInForce == Spec => []PageIsInForce
  <1>1. AsDrawn => PageIsInForce
    <2> SUFFICES ASSUME AsDrawn PROVE PageIsInForce
      OBVIOUS
    <2> DEFINE readable == drawing.how \in Shapes
               complete(points) == {i \in DOMAIN points : readable /\ Len(points[i]) >= 2}
               rank(points, i) == Cardinality({k \in complete(points) : k <= i})
               drawn(points, mask) ==
                 IF Cardinality(complete(points)) < 3 THEN mask = None
                 ELSE /\ mask # None
                      /\ DOMAIN mask = 1..Cardinality(complete(points))
                      /\ \A i \in complete(points) :
                           mask[rank(points, i)] = <<points[i][1], points[i][2]>>
    <2>1. PICK m \in Models, l \in Layouts : settings = Chosen(m, l, Applied(drawing))
      BY DEF AsDrawn
    <2>2. /\ settings.roi = Applied(drawing).roi /\ settings.filter = Applied(drawing).filter
          /\ settings.inclusive = Applied(drawing).inclusive
          /\ settings.exclusive = Applied(drawing).exclusive
      BY <2>1 DEF Chosen
    <2>3. drawing \in Drawings
      BY DEF AsDrawn
    <2>4. {drawing.roi, drawing.inclusive, drawing.exclusive} \subseteq Seq(Seq(Int))
      BY <2>3, DrawingsAssumption
    <2>5. \A points : complete(points) = IF readable THEN Complete(points) ELSE {}
      BY DEF Complete
    <2>. HIDE DEF complete, rank, drawn, readable
    <2>6. ASSUME NEW mask \in Seq(Pairs) PROVE mask # None
      <3>1. mask \in Seq(Seq(Int))
        BY SeqMonotonic DEF Pairs
      <3>. QED BY <3>1, NoneAssumption
    <2>7. ASSUME NEW points \in Seq(Seq(Int)), NEW mask,
                 IF readable /\ Cardinality(Complete(points)) >= 3
                 THEN IsOutline(mask, points) ELSE mask = None
          PROVE  drawn(points, mask)
      <3>1. /\ Cardinality(Complete(points)) \in Nat
            /\ readable => complete(points) = Complete(points)
            /\ ~readable => Cardinality(complete(points)) = 0
        <4>1. Cardinality({}) = 0
          BY FS_EmptySet
        <4>. QED BY <2>5, <4>1, CompleteIsFinite
      <3>2. CASE Cardinality(complete(points)) < 3
        <4>1. ~(readable /\ Cardinality(Complete(points)) >= 3)
          BY <3>1, <3>2
        <4>. QED BY <2>7, <3>2, <4>1 DEF drawn
      <3>3. CASE ~(Cardinality(complete(points)) < 3)
        <4>1. readable /\ complete(points) = Complete(points)
          BY <3>1, <3>3
        <4>2. IsOutline(mask, points) /\ mask \in Seq(Pairs)
          <5>1. Cardinality(Complete(points)) >= 3
            BY <3>1, <3>3, <4>1
          <5>2. IsOutline(mask, points)
            BY <2>7, <4>1, <5>1
          <5>. QED BY <5>2 DEF IsOutline
        <4>3. DOMAIN mask = 1..Cardinality(complete(points))
          BY <4>1, <4>2 DEF IsOutline
        <4>4. ASSUME NEW i \in complete(points)
              PROVE  mask[rank(points, i)] = <<points[i][1], points[i][2]>>
          <5>1. Complete(points) \in SUBSET Int /\ IsFiniteSet(Complete(points))
            BY CompleteIsFinite
          <5>2. i \in Complete(points)
            BY <4>1, <4>4
          <5>3. {k \in Complete(points) : k <= i} = Below(Complete(points), i) \cup {i}
            BY <5>1, <5>2 DEF Below
          <5>4. i \notin Below(Complete(points), i) /\ IsFiniteSet(Below(Complete(points), i))
            BY <5>1, <5>2, FS_Subset DEF Below
          <5>5. rank(points, i) = Cardinality(Below(Complete(points), i)) + 1
            BY <4>1, <5>3, <5>4, FS_AddElement DEF rank
          <5>. QED BY <4>2, <5>2, <5>5 DEF IsOutline
        <4>. QED BY <2>6, <3>3, <4>2, <4>3, <4>4 DEF drawn
      <3>. QED BY <3>2, <3>3
    <2>8. drawn(drawing.inclusive, settings.inclusive)
      BY <2>2, <2>3, <2>4, <2>7, WhatIsApplied DEF readable
    <2>9. drawn(drawing.exclusive, settings.exclusive)
      BY <2>2, <2>3, <2>4, <2>7, WhatIsApplied DEF readable
    <2> DEFINE p == drawing.roi[1]
               q == drawing.roi[2]
    <2>10. IF {1, 2} \subseteq complete(drawing.roi) /\ p[1] # q[1] /\ p[2] # q[2]
           THEN /\ settings.roi # None
                /\ {settings.roi[i] : i \in DOMAIN settings.roi} = {p[1], q[1]} \X {p[2], q[2]}
           ELSE settings.roi = None
      <3>1. IF readable /\ IsBox(drawing.roi)
            THEN HasCorners(settings.roi, drawing.roi) ELSE settings.roi = None
        BY <2>2, <2>3, WhatIsApplied DEF readable
      <3>2. {1, 2} \subseteq complete(drawing.roi) /\ p[1] # q[1] /\ p[2] # q[2]
              <=> readable /\ IsBox(drawing.roi)
        BY <2>5 DEF IsBox
      <3>. QED BY <2>6, <3>1, <3>2 DEF HasCorners
    <2>11. settings.filter =
             IF readable /\ drawing.classes # None
             THEN {IdOf[n] : n \in {drawing.classes[i] : i \in DOMAIN drawing.classes}
                                     \cap DOMAIN IdOf}
             ELSE None
      BY <2>2, <2>3, WhatIsApplied DEF readable
    <2>. QED BY <2>8, <2>9, <2>10, <2>11
              DEF PageIsInForce, readable, complete, rank, drawn
  <1>. QED BY <1>1, SettingsAreAsDrawn, PTL

(* A reported edge is at most half a model pixel off, whatever the sizes:  *)
(* the rounding of letterbox and the exact ratio of decode_boxes.          *)
THEOREM PipelineWhereItIs == Spec => []WhereItIs
  <1>1. Pipe => WhereItIs
    <2> SUFFICES ASSUME Pipe, stage = "answered", NEW row \in boxes, NEW a \in Axes,
                        NEW end \in {"lo", "hi"}
                 PROVE  /\ 2 * (row.box[a][end] - Edge(row.of, a, end)) <= ModelPixel(a)
                        /\ -2 * (row.box[a][end] - Edge(row.of, a, end)) <= ModelPixel(a)
      BY DEF WhereItIs
    <2>1. PICK o \in frame.scene : row = Placed(o) /\ IsRect(o)
      BY PlacedAreOfTheScene
    <2>2. row.of = o
      BY <2>1, PlacedRow
    <2>3. CASE end = "lo"
      <3>1. row.box[a][end] = Placed(o).box[a].lo /\ Edge(row.of, a, end) = Edge(o, a, "lo")
        BY <2>1, <2>2, <2>3
      <3>. QED BY <2>1, <3>1, PlacedIsNear DEF Pipe
    <2>4. CASE end = "hi"
      <3>1. row.box[a][end] = Placed(o).box[a].hi /\ Edge(row.of, a, end) = Edge(o, a, "hi")
        BY <2>1, <2>2, <2>4
      <3>. QED BY <2>1, <3>1, PlacedIsNear DEF Pipe
    <2>. QED BY <2>3, <2>4
  <1>. QED BY <1>1, PipeInvariant, PTL

(* The masks decide about what is reported to half a model pixel, for      *)
(* every pair of masks (centres in frame pixels, _crop_to_roi undone).     *)
THEOREM PipelineMasksDecide == Spec => []MasksDecide
  <1>1. Pipe => MasksDecide
    <2> SUFFICES ASSUME Pipe, stage = "answered", NEW row \in boxes
                 PROVE  /\ settings.inclusive = None \/ Possibly(settings.inclusive, row.of)
                        /\ settings.exclusive = None \/ ~Surely(settings.exclusive, row.of)
      BY DEF MasksDecide, ReportedObjects
    <2>1. PICK o \in frame.scene : row = Placed(o) /\ IsRect(o)
      BY PlacedAreOfTheScene
    <2>2. row.of = o
      BY <2>1, PlacedRow DEF Axes
    <2>3. Allowed(row)
      BY DEF Pipe, AnswerOf
    <2>4. Sound
      BY DEF Pipe
    <2>5. \A mask \in {settings.inclusive, settings.exclusive} \ {None} : IsRect(Span(mask))
      BY <2>4, SettingsAreProper
    <2>. QED BY <2>1, <2>2, <2>3, <2>4, <2>5, CentresAgree DEF Allowed
  <1>. QED BY <1>1, PipeInvariant, PTL

(* Inference of a frame raises only on a crop 2 * MinCrop inputs long: the *)
(* guard of _crop_to_roi against cv2.resize in letterbox.                  *)
THEOREM PipelineRaises == Spec => []RaisesOnlyIfElongated
  <1>1. Pipe => RaisesOnlyIfElongated
    <2> SUFFICES ASSUME Pipe, stage = "raised", \A a \in Axes : frame.size[a] >= MinCrop
                 PROVE  \E a \in Axes : side[a] >= 2 * MinCrop * settings.model[a]
      BY DEF RaisesOnlyIfElongated
    <2>1. Sound /\ TooThin
      BY DEF Pipe
    <2>2. PICK a \in Axes : Resized(side[a], ratio) = 0
      BY <2>1 DEF TooThin
    <2>3. PICK b \in Axes : ratio.num = settings.model[b] /\ ratio.den = side[b]
      BY <2>1, RatioIsProper
    <2> DEFINE n == side[a]
               num == ratio.num
               den == ratio.den
    <2>4. n \in Nat /\ n >= MinCrop /\ num \in Nat /\ den \in Pixels /\ den \in Nat
          /\ MinCrop \in Nat
      BY <2>1, LetterboxIsProper, RatioIsProper, GridAssumption DEF Pixels
    <2>5. n * num \in Nat
      BY <2>4
    <2>6. -den <= 2 * (Round(n * num, den) * den - n * num)
      BY <2>4, <2>5, RoundIsNear
    <2>7. Round(n * num, den) = 0
      BY <2>2 DEF Resized
    <2>8. 2 * (n * num) <= den
      BY <2>4, <2>5, <2>6, <2>7
    <2>9. MinCrop * num <= n * num /\ MinCrop * num \in Nat /\ 2 * MinCrop * num = 2 * (MinCrop * num)
      BY <2>4
    <2>10. 2 * MinCrop * num <= den
      BY <2>4, <2>5, <2>8, <2>9
    <2>. QED BY <2>3, <2>10
  <1>. QED BY <1>1, PipeInvariant, PTL

(* Nothing due goes unreported without a reason: the class filter comes    *)
(* before NMSBoxes, the masks after it, and only tiny boxes are clamped    *)
(* away.                                                                   *)
THEOREM PipelineMissingHasAReason == Spec => []MissingHasAReason
  <1>1. Pipe => MissingHasAReason
    <2> DEFINE due == {o \in frame.scene :
                         IsSeen(o) /\ Scores(Row(o)) /\ Ticked(Row(o))}
               excused(o) == o \in ReportedObjects \/ MayBeMasked(o) \/ IsTiny(o)
               accounted == {o \in due : excused(o)}
    <2> SUFFICES ASSUME Pipe, stage = "answered", settings.filter # {},
                        NEW o \in due, o \notin accounted
                 PROVE  /\ settings.layout = "yolov8"
                        /\ \E p \in accounted \ {o} :
                             Row(p).score >= Row(o).score /\ Overlaps(Row(o), Row(p))
      BY DEF MissingHasAReason
    <2>1. PICK kept \in KeptSets : boxes = AnswerOf(kept) /\ ~TooThin
      BY DEF Pipe
    <2>2. \A p \in due : IsRect(p)
      BY ScenesAssumption DEF Pipe
    <2>3. Sound
      BY DEF Pipe
    <2>4. ASSUME NEW p \in due, Row(p) \in kept PROVE excused(p)
      <3> SUFFICES ASSUME ~MayBeMasked(p), ~IsTiny(p) PROVE p \in ReportedObjects
        OBVIOUS
      <3>1. HasInside(Placed(p))
        BY <2>1, <2>2, <2>3, OnlyTinyAreLost
      <3>2. Allowed(Placed(p))
        <4>1. \A mask \in {settings.inclusive, settings.exclusive} \ {None} : IsRect(Span(mask))
          BY <2>3, SettingsAreProper
        <4>. QED BY <2>2, <2>3, <4>1, CentresAgree DEF MayBeMasked, Allowed
      <3>3. Placed(p) \in boxes
        BY <2>1, <2>4, <3>1, <3>2 DEF AnswerOf, PlacedOf, Placed
      <3>. QED BY <3>3, PlacedRow DEF ReportedObjects, Axes
    <2>5. Row(o) \notin kept
      BY <2>4
    <2>6. Row(o) \in Candidates
      BY DEF Candidates, Selected
    <2>7. settings.layout = "yolov8" /\ kept \in Suppressions(Candidates)
      BY <2>5, <2>6 DEF KeptSets
    <2>8. PICK q \in kept : q.score >= Row(o).score /\ Overlaps(Row(o), q)
      BY <2>5, <2>6, <2>7 DEF Suppressions
    <2>9. PICK p \in due : q = Row(p)
      BY <2>8, KeptAreCandidates
    <2>10. p \in accounted \ {o}
      BY <2>4, <2>5, <2>8, <2>9
    <2>. QED BY <2>7, <2>8, <2>9, <2>10
  <1>. QED BY <1>1, PipeInvariant, PTL
=============================================================================
