--------------------------- MODULE FramePipeline ---------------------------
(***************************************************************************)
(* One frame on its way through the worker: the crop to the region of      *)
(* interest, the letterbox, the model, decode_boxes, the way back to the   *)
(* frame and the masks (worker.py, the frame branch of serve(), with the   *)
(* helpers of infer_utils.py it calls).  WorkerServe has the session       *)
(* around it; here positions and scores are values, and the stages of the  *)
(* branch are steps so that each can be looked at.                         *)
(*                                                                         *)
(* The scene is a set of objects with their rectangle in the frame, in     *)
(* Grid-ths, and what the model thinks of them: a score for each class, 0  *)
(* being below conf_thr.  The network is external and accurate: it draws   *)
(* every object where cv2.resize put the part of it the crop shows.        *)
(***************************************************************************)
EXTENDS Geometry, SettingsPage

CONSTANTS
  Sizes,      \* frame sizes, [x, y] in pixels
  Models,     \* input sizes of models, [x, y]
  Drawings,   \* what a user may draw and tick, see SettingsPage
  Scenes,     \* sets of objects
  Iou         \* iou_thr, a fraction [num, den]

Pixels == Nat \ {0}
IsRect(rect) == \A a \in Axes : rect[a].lo \in Int /\ rect[a].hi \in Int

ASSUME SizesAssumption ==
  /\ Sizes # {} /\ Sizes \subseteq [x : Pixels, y : Pixels]
  /\ Models \subseteq [x : Pixels, y : Pixels]
ASSUME ScenesAssumption == \A scene \in Scenes : \A o \in scene : IsRect(o)
ASSUME DrawingsAssumption ==
  \A d \in Drawings :
    /\ {d.roi, d.inclusive, d.exclusive} \subseteq Seq(Seq(Int))
    /\ d.classes = None \/ d.classes \in Seq({None} \cup STRING)
ASSUME NoneAssumption == None \notin DOMAIN IdOf /\ None \notin Seq(Seq(Int))

(* Masks are rectangles, drawn from any corner in either direction: what   *)
(* is in a mask is then what is in its Span.                               *)
IsRectangle(points) ==
  /\ Len(points) = 4
  /\ \E first \in 1..2 :
       /\ points[1][first] = points[2][first] /\ points[3][first] = points[4][first]
       /\ points[2][3 - first] = points[3][3 - first]
       /\ points[4][3 - first] = points[1][3 - first]

ASSUME MasksAssumption ==
  \A d \in Drawings : \A mask \in {Applied(d).inclusive, Applied(d).exclusive} :
    mask = None \/ IsRectangle(mask)

VARIABLES
  drawing,    \* history: what the settings page showed at the last Apply
  settings,   \* the parameters of serve() the stages read
  stage,      \* what was done last to the frame
  frame,      \* [size, scene], the frame being served
  boxes       \* the rows or boxes of that stage

vars == <<drawing, settings, stage, frame, boxes>>

Classes == 0..1
Layouts == {"yolov8", "yolo26"}
Stages == {"idle", "cropped", "selected", "kept", "placed", "answered", "raised"}
Frames == [size : Sizes, scene : Scenes]

Chosen(model, layout, p) ==
  [model |-> model, layout |-> layout, roi |-> p.roi,
   inclusive |-> p.inclusive, exclusive |-> p.exclusive, filter |-> p.filter]
Settings ==
  {Chosen(m, l, Applied(d)) : m \in Models, l \in Layouts, d \in Drawings}

-----------------------------------------------------------------------------
(* What the model is given.                                                *)

crop ==
  IF settings.roi = None THEN Whole(frame.size)
  ELSE Crop(Span(settings.roi), frame.size)
side == [a \in Axes |-> Length(crop[a])]
ratio == Ratio(side, settings.model)
Unit(a) == side[a] * ratio.num    \* positions in the frame are in 1/Unit

(* cv2.resize refuses a side of no pixels.                                 *)
TooThin == \E a \in Axes : Resized(side[a], ratio) = 0

(* The part of an object the crop shows, in pixels of the crop.            *)
Seen(o) ==
  [a \in Axes |->
     [lo |-> Clamp(Pixel(o[a].lo, frame.size[a]), crop[a].lo, crop[a].hi) - crop[a].lo,
      hi |-> Clamp(Pixel(o[a].hi, frame.size[a]), crop[a].lo, crop[a].hi) - crop[a].lo]]

IsSeen(o) == \A a \in Axes : Seen(o)[a].lo < Seen(o)[a].hi

Drawn(o) ==
  [a \in Axes |->
     [lo |-> OnCanvas(Seen(o)[a].lo, side[a], settings.model[a], ratio),
      hi |-> OnCanvas(Seen(o)[a].hi, side[a], settings.model[a], ratio)]]

-----------------------------------------------------------------------------
(* decode_boxes.                                                           *)

(* argmax: the first class of the highest score.                           *)
Best(scores) ==
  CHOOSE c \in Classes : \A d \in Classes :
    scores[c] > scores[d] \/ (scores[c] = scores[d] /\ c <= d)

(* A row: the box and its best class (an end-to-end head gives only that). *)
Row(o) == [of |-> o, box |-> Drawn(o), cls |-> Best(o.scores),
           score |-> o.scores[Best(o.scores)]]

Ticked(row) == settings.filter \in {None, {}} \/ row.cls \in settings.filter
Scores(row) == row.score > 0

(* Mutant of Selected: the class filter is left for after the suppression. *)
SelectedByScore(rows) == {row \in rows : Scores(row)}

Selected(rows) == {row \in rows : Scores(row) /\ Ticked(row)}

Shared(p, q, a) ==
  LET lo == IF p.box[a].lo > q.box[a].lo THEN p.box[a].lo ELSE q.box[a].lo
      hi == IF p.box[a].hi < q.box[a].hi THEN p.box[a].hi ELSE q.box[a].hi
  IN  IF lo < hi THEN hi - lo ELSE 0

Area(p) == Length(p.box.x) * Length(p.box.y)

Overlaps(p, q) ==
  LET both == Shared(p, q, "x") * Shared(p, q, "y")
  IN  both * Iou.den > Iou.num * (Area(p) + Area(q) - both)

(* cv2.dnn.NMSBoxes, whatever the classes: of the sets in which a row is   *)
(* kept exactly if no better kept one overlaps it; equal scores are taken  *)
(* in the order of the rows, which the scene leaves open.                  *)
Suppressions(rows) ==
  {kept \in SUBSET rows :
     /\ \A p, q \in kept : p # q => ~Overlaps(p, q)
     /\ \A p \in rows \ kept :
          \E q \in kept : q.score >= p.score /\ Overlaps(p, q)}

(* From the canvas to the frame, _crop_to_roi's offset added; a box the    *)
(* clamping leaves without an inside is dropped.                           *)
ToFrame(row) ==
  [row EXCEPT !.box = [a \in Axes |->
     [lo |-> InFrame(row.box[a].lo, side[a], settings.model[a], ratio, crop[a].lo),
      hi |-> InFrame(row.box[a].hi, side[a], settings.model[a], ratio, crop[a].lo)]]]

HasInside(row) == \A a \in Axes : row.box[a].lo < row.box[a].hi

(* Mutant of CentreIn: the far corner stands for the box.                  *)
CornerIn(mask, box) ==
  \A a \in Axes : Inside(Span(mask), frame.size, a, 2 * box[a].hi, 0, Unit(a))

(* filter_boxes_by_regions with roi_px = None.                             *)
CentreIn(mask, box) ==
  \A a \in Axes : Inside(Span(mask), frame.size, a, box[a].lo + box[a].hi, 0, Unit(a))

Allowed(row) ==
  /\ settings.inclusive = None \/ CentreIn(settings.inclusive, row.box)
  /\ settings.exclusive = None \/ ~CentreIn(settings.exclusive, row.box)

-----------------------------------------------------------------------------
Idle == stage = "idle"

Applies(d, model, layout) ==
  drawing' = d /\ settings' = Chosen(model, layout, Applied(d))

Init ==
  /\ drawing \in Drawings
  /\ \E m \in Models, l \in Layouts : settings = Chosen(m, l, Applied(drawing))
  /\ stage = "idle"
  /\ frame = [size |-> CHOOSE s \in Sizes : TRUE, scene |-> {}]
  /\ boxes = {}

(* An Apply on the settings page, and its config between two frames.       *)
Configured ==
  /\ Idle
  /\ \E d \in Drawings, m \in Models, l \in Layouts : Applies(d, m, l)
  /\ UNCHANGED <<stage, frame, boxes>>

(* A frame: with every class unticked the model is not run.                *)
Received ==
  /\ Idle
  /\ frame' \in Frames
  /\ stage' = IF settings.filter = {} THEN "answered" ELSE "cropped"
  /\ UNCHANGED <<drawing, settings, boxes>>

(* preprocess_chw_f32 raises, and serve() answers with no box.             *)
LetterboxFails ==
  /\ stage = "cropped"
  /\ TooThin
  /\ stage' = "raised"
  /\ UNCHANGED <<drawing, settings, frame, boxes>>

(* Letterbox, session and the masks of decode_boxes.                       *)
Infers ==
  /\ stage = "cropped"
  /\ ~TooThin
  /\ boxes' = Selected({Row(o) : o \in {s \in frame.scene : IsSeen(s)}})
  /\ stage' = "selected"
  /\ UNCHANGED <<drawing, settings, frame>>

(* The raw layout is thinned out here, the end-to-end one in the model.    *)
Thins ==
  /\ stage = "selected"
  /\ IF settings.layout = "yolov8" THEN boxes' \in Suppressions(boxes)
     ELSE UNCHANGED boxes
  /\ stage' = "kept"
  /\ UNCHANGED <<drawing, settings, frame>>

Places ==
  /\ stage = "kept"
  /\ boxes' = {row \in {ToFrame(r) : r \in boxes} : HasInside(row)}
  /\ stage' = "placed"
  /\ UNCHANGED <<drawing, settings, frame>>

FiltersByRegions ==
  /\ stage = "placed"
  /\ boxes' = {row \in boxes : Allowed(row)}
  /\ stage' = "answered"
  /\ UNCHANGED <<drawing, settings, frame>>

(* The reply is sent and the loop of serve() reads the next message.       *)
Sent ==
  /\ stage \in {"answered", "raised"}
  /\ stage' = "idle"
  /\ frame' = [size |-> CHOOSE s \in Sizes : TRUE, scene |-> {}]
  /\ boxes' = {}
  /\ UNCHANGED <<drawing, settings>>

Next == \/ Configured \/ Received \/ LetterboxFails \/ Infers
        \/ Thins \/ Places \/ FiltersByRegions \/ Sent

Spec == Init /\ [][Next]_vars

-----------------------------------------------------------------------------
(* Properties.                                                             *)

ReportedObjects == {row.of : row \in boxes}

(* Where the visible part of an object is in the frame, in 1/Unit(a).      *)
Edge(o, a, end) == (Seen(o)[a][end] + crop[a].lo) * Unit(a)
TwiceCentre(o, a) == Edge(o, a, "lo") + Edge(o, a, "hi")

(* Half a pixel of the model's input, in 1/Unit(a), as its double.         *)
ModelPixel(a) == side[a] * ratio.den

(* Within a mask by at least (or but for at most) half a model pixel.      *)
Surely(mask, o) ==
  \A a \in Axes : Inside(Span(mask), frame.size, a, TwiceCentre(o, a), -ModelPixel(a), Unit(a))
Possibly(mask, o) ==
  \A a \in Axes : Inside(Span(mask), frame.size, a, TwiceCentre(o, a), ModelPixel(a), Unit(a))

MayBeMasked(o) ==
  \/ settings.inclusive # None /\ ~Surely(settings.inclusive, o)
  \/ settings.exclusive # None /\ Possibly(settings.exclusive, o)

IsTiny(o) == \E a \in Axes : 2 * Length(Seen(o)[a]) * Unit(a) <= ModelPixel(a)

(* Stages and parameters are of their types, and every box in the frame    *)
(* has an inside and stays in the crop (the clamping of decode_boxes).     *)
TypeOK ==
  /\ drawing \in Drawings /\ settings \in Settings
  /\ stage \in Stages
  /\ frame.size \in Sizes
  /\ ReportedObjects \subseteq frame.scene
  /\ stage \in {"placed", "answered"} =>
       \A row \in boxes, a \in Axes :
         /\ crop[a].lo * Unit(a) <= row.box[a].lo
         /\ row.box[a].lo < row.box[a].hi
         /\ row.box[a].hi <= crop[a].hi * Unit(a)

(* What the user drew is in force, in whichever shape the client sent it   *)
(* and whichever way it was dragged: a box is a region of interest if it   *)
(* has an area, three complete points are a mask, a list of classes is a   *)
(* filter, be it empty; everything else is not set, and stays distinct     *)
(* from that through both parsers (device_agent.cpp 44-208 and 385-418,    *)
(* worker.py 246-272).                                                     *)
PageIsInForce ==
  LET readable == drawing.how \in Shapes
      complete(points) == {i \in DOMAIN points : readable /\ Len(points[i]) >= 2}
      rank(points, i) == Cardinality({k \in complete(points) : k <= i})
      drawn(points, mask) ==
        IF Cardinality(complete(points)) < 3 THEN mask = None
        ELSE /\ mask # None
             /\ DOMAIN mask = 1..Cardinality(complete(points))
             /\ \A i \in complete(points) :
                  mask[rank(points, i)] = <<points[i][1], points[i][2]>>
      p == drawing.roi[1]
      q == drawing.roi[2]
  IN  /\ IF /\ {1, 2} \subseteq complete(drawing.roi) /\ p[1] # q[1] /\ p[2] # q[2]
         THEN /\ settings.roi # None
              /\ {settings.roi[i] : i \in DOMAIN settings.roi} = {p[1], q[1]} \X {p[2], q[2]}
         ELSE settings.roi = None
      /\ drawn(drawing.inclusive, settings.inclusive)
      /\ drawn(drawing.exclusive, settings.exclusive)
      /\ settings.filter =
           IF readable /\ drawing.classes # None
           THEN {IdOf[n] : n \in {drawing.classes[i] : i \in DOMAIN drawing.classes}
                                   \cap DOMAIN IdOf}
           ELSE None

(* A reported edge is at most half a pixel of the model's input away from  *)
(* where the object is: the letterbox rounds the resized image and the     *)
(* padding to whole pixels, but decode_boxes undoes it with the exact      *)
(* ratio (infer_utils.py 169-177 against 274-277).                         *)
WhereItIs ==
  stage = "answered" =>
    \A row \in boxes, a \in Axes, end \in {"lo", "hi"} :
      LET off == row.box[a][end] - Edge(row.of, a, end)
      IN  2 * off <= ModelPixel(a) /\ -2 * off <= ModelPixel(a)

(* What is seen, scores and is ticked is reported, unless a mask or its    *)
(* size explains why not, or a ticked object that scores as well covers    *)
(* it and is itself reported, masked or tiny: an unticked one suppresses   *)
(* nothing (the class filter comes before NMSBoxes), and neither does one  *)
(* that was suppressed.                                                    *)
MissingHasAReason ==
  stage = "answered" /\ settings.filter # {} =>
    LET due == {o \in frame.scene :
                  IsSeen(o) /\ Scores(Row(o)) /\ Ticked(Row(o))}
        accounted == {o \in due :
                        o \in ReportedObjects \/ MayBeMasked(o) \/ IsTiny(o)}
    IN  \A o \in due \ accounted :
          /\ settings.layout = "yolov8"
          /\ \E p \in accounted \ {o} :
               Row(p).score >= Row(o).score /\ Overlaps(Row(o), Row(p))

(* The masks are drawn on the frame and boxes come from the crop: what is  *)
(* reported lies in the inclusive mask and out of the exclusive one, to    *)
(* half a model pixel.                                                     *)
MasksDecide ==
  stage = "answered" =>
    \A o \in ReportedObjects :
      /\ settings.inclusive = None \/ Possibly(settings.inclusive, o)
      /\ settings.exclusive = None \/ ~Surely(settings.exclusive, o)

(* Inference of a frame of some height and width only raises if the crop   *)
(* is as long as 2 * MinCrop inputs of the model: _MIN_CROP_PX keeps thin  *)
(* regions of interest from the letterbox.                                 *)
RaisesOnlyIfElongated ==
  stage = "raised" /\ (\A a \in Axes : frame.size[a] >= MinCrop) =>
    \E a \in Axes : side[a] >= 2 * MinCrop * settings.model[a]
=============================================================================
