------------------------------ MODULE Geometry ------------------------------
(***************************************************************************)
(* The pixel arithmetic of a frame's way to the model and of a box's way   *)
(* back (python/infer_utils.py and _crop_to_roi of python/worker.py), one  *)
(* axis at a time: only the scale of the letterbox depends on both.        *)
(* Sizes are in pixels, fractions of a frame are in Grid-ths, and          *)
(* positions between pixels are exact: where the code divides, a position  *)
(* is kept as a multiple of the unit named beside it.                      *)
(***************************************************************************)
EXTENDS Integers, FiniteSetsExt

CONSTANTS
  Grid,       \* a coordinate 0..1 is in units of 1/Grid
  MinCrop     \* _MIN_CROP_PX

ASSUME GridAssumption == Grid \in Nat \ {0} /\ MinCrop \in Nat \ {0}

Axes == {"x", "y"}
Clamp(v, lo, hi) == IF v < lo THEN lo ELSE IF v > hi THEN hi ELSE v
Half(v) == v \div 2

(* Python's round of p / q: to the nearest, of two to the even one.        *)
Round(p, q) ==
  LET d == p \div q
      rest == 2 * (p % q)
  IN  IF rest < q \/ (rest = q /\ d % 2 = 0) THEN d ELSE d + 1

-----------------------------------------------------------------------------
(* _crop_to_roi: the bounding rectangle of the points of a region, and the *)
(* rectangle [lo, hi) of pixels the model gets if that is what is of       *)
(* interest.                                                               *)
Span(points) ==
  LET on(axis) == {points[i][axis] : i \in DOMAIN points}
  IN  [x |-> [lo |-> Min(on(1)), hi |-> Max(on(1))],
       y |-> [lo |-> Min(on(2)), hi |-> Max(on(2))]]

Whole(size) == [a \in Axes |-> [lo |-> 0, hi |-> size[a]]]
Pixel(v, n) == Clamp((v * n) \div Grid, 0, n)
Cut(roi, size) ==
  [a \in Axes |-> [lo |-> Pixel(roi[a].lo, size[a]), hi |-> Pixel(roi[a].hi, size[a])]]
Length(span) == span.hi - span.lo

(* Mutant of Crop: a thin rectangle is only refused if it is also short.   *)
CropUnlessTiny(roi, size) ==
  IF \E a \in Axes : Length(Cut(roi, size)[a]) >= MinCrop
  THEN Cut(roi, size) ELSE Whole(size)

Crop(roi, size) ==
  IF \A a \in Axes : Length(Cut(roi, size)[a]) >= MinCrop
  THEN Cut(roi, size) ELSE Whole(size)

(* letterbox: the ratio r = num / den, the size of the resized image and   *)
(* the padding before it.                                                  *)
Ratio(size, model) ==
  IF model.y * size.x <= model.x * size.y
  THEN [num |-> model.y, den |-> size.y]
  ELSE [num |-> model.x, den |-> size.x]

(* Mutant of Resized: int() without round().                               *)
ResizedDown(n, r) == (n * r.num) \div r.den

Resized(n, r) == Round(n * r.num, r.den)

Padding(n, m, r) == Half(m - Resized(n, r))

(* cv2.resize and the copy into the canvas: where an edge of the image is  *)
(* on the canvas, in units of 1/n.                                         *)
OnCanvas(v, n, m, r) == v * Resized(n, r) + Padding(n, m, r) * n

(* decode_boxes: an edge on the canvas back in the image, in units of      *)
(* 1/(n * r.num), and clamped to it.                                       *)
Undone(v, n, m, r) == (v - Padding(n, m, r) * n) * r.den

(* Mutant of InImage: the edge is not clamped.                             *)
InImageUnclamped(v, n, m, r) == Undone(v, n, m, r)

InImage(v, n, m, r) == Clamp(Undone(v, n, m, r), 0, n * n * r.num)

(* The remapping to the frame, in the same units.                          *)
InFrame(v, n, m, r, offset) == InImage(v, n, m, r) + offset * n * r.num

-----------------------------------------------------------------------------
(* normalize_to_pixel_polygon and pointPolygonTest for a mask that is a    *)
(* rectangle: its edges, widened by slack, belong to it.  The point and    *)
(* the slack come as their double.                                         *)
Inside(mask, size, a, twice, slack, unit) ==
  /\ 2 * unit * Pixel(mask[a].lo, size[a]) <= twice + slack
  /\ twice <= 2 * unit * Pixel(mask[a].hi, size[a]) + slack
=============================================================================
