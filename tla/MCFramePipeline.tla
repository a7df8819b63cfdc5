-------------------------- MODULE MCFramePipeline --------------------------
(* Small frames and models for FramePipeline: two frame shapes that fit    *)
(* the models and a long one a letterbox may reduce to nothing.            *)
EXTENDS FramePipeline

Pair(w, h) == [x |-> w, y |-> h]
Rect(x1, y1, x2, y2) == [x |-> [lo |-> x1, hi |-> x2], y |-> [lo |-> y1, hi |-> y2]]
Thing(rect, first, second) ==
  [x |-> rect.x, y |-> rect.y, scores |-> [c \in Classes |-> IF c = 0 THEN first ELSE second]]

MCSizes == {Pair(20, 12), Pair(100, 20), Pair(144, 8)}
MCModels == {Pair(8, 8), Pair(16, 11)}
MCIdOf == [person |-> 0, bicycle |-> 1]

(* Boxes are dragged from any corner, masks drawn from any.                *)
Corners(rect) == << <<rect.x.hi, rect.y.lo>>, <<rect.x.hi, rect.y.hi>>,
                    <<rect.x.lo, rect.y.hi>>, <<rect.x.lo, rect.y.lo>> >>
Drawing(roi, inclusive, exclusive, classes, how) ==
  [roi |-> roi, inclusive |-> inclusive, exclusive |-> exclusive,
   classes |-> classes, how |-> how]

Boxes == {<<>>, << <<9, 8>>, <<3, 0>> >>, << <<0, 6>>, <<10, 4>> >>}
MaskDrawings == {<<>>, Corners(Rect(0, 0, 5, 10)), Corners(Rect(2, 3, 7, 6))}
Ticks == {None, <<>>, <<"person">>}

(* Clicks, incomplete points, a mask of two points, coordinates out of the *)
(* frame, unknown names, other shapes.                                     *)
Odd ==
  { Drawing(<< <<3, 3>>, <<3, 3>> >>, <<>>, <<>>, <<"tapir", "bicycle">>, "figure"),
    Drawing(<< <<3, 3>>, <<5, 3>> >>, << <<1, 1>>, <<5, 5>> >>, <<>>, <<"tapir">>, "figure"),
    Drawing(<< <<3, 3>>, <<5>> >>, << <<1, 1>>, <<5>>, <<5, 5>> >>, <<>>, <<None>>, "points"),
    Drawing(<< <<3>>, <<1, 9>>, <<8, 1>> >>, <<>>, << <<4>> >> \o Corners(Rect(2, 3, 7, 6)),
            <<None, "person">>, "array"),
    Drawing(<< <<-2, 12>>, <<7, -1>> >>, Corners(Rect(-1, 2, 6, 13)), <<>>, None, "array"),
    Drawing(<< <<1, 1>>, <<9, 9>> >>, Corners(Rect(0, 0, 5, 10)), Corners(Rect(2, 3, 7, 6)),
            <<"person">>, "string"),
    Drawing(<< <<1, 1>>, <<9, 9>>, <<2, 2>> >>, <<>>, <<>>, <<"bicycle", "person">>, "points") }

MCDrawings ==
  {Drawing(r, i, e, c, "figure") :
     r \in Boxes, i \in MaskDrawings, e \in MaskDrawings, c \in Ticks} \cup Odd
MCIou == [num |-> 9, den |-> 20]

Things ==
  { Thing(Rect(1, 2, 4, 6), 2, 0), Thing(Rect(2, 2, 5, 6), 1, 2),
    Thing(Rect(2, 2, 5, 6), 1, 1), Thing(Rect(2, 3, 5, 7), 1, 0),
    Thing(Rect(5, 5, 9, 9), 0, 1), Thing(Rect(5, 3, 10, 10), 2, 1),
    Thing(Rect(9, 9, 10, 10), 1, 0), Thing(Rect(0, 0, 3, 3), 0, 0) }

MCScenes == {s \in SUBSET Things : Cardinality(s) <= 2}
=============================================================================
