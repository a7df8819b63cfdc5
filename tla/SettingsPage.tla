---------------------------- MODULE SettingsPage ----------------------------
(***************************************************************************)
(* The regions and the classes of a camera's settings page on their way to *)
(* the frames: what the user drew arrives as strings of JSON, which        *)
(* settingsReceived of device_agent.cpp parses, sendConfigToWorker puts    *)
(* into the config message (under keys that may be absent), and the config *)
(* branch of serve() in worker.py reads again.                             *)
(*                                                                         *)
(* A point is a sequence of coordinates in Grid-ths, an incomplete one has *)
(* less than two.  Class names are as names_to_ids looks them up, stripped *)
(* and in lower case.                                                      *)
(***************************************************************************)
EXTENDS Integers, Sequences, FiniteSets

CONSTANTS
  None,       \* Python's None, a key that is absent, nothing ticked or unticked
  IdOf        \* the class names COCO knows |-> their ids

-----------------------------------------------------------------------------
(* JSON values, and strings that are none.                                 *)
Number(n) == [kind |-> "number", number |-> n]
Text(s) == [kind |-> "string", string |-> s]
Array(items) == [kind |-> "array", items |-> items]
Object(fields) == [kind |-> "object", fields |-> fields]
Null == [kind |-> "null"]
Blank == [kind |-> "blank"]
Garbled == [kind |-> "garbled"]

IsArray(json) == json.kind = "array"
IsText(json) == json.kind = "string"
Items(json) == IF IsArray(json) THEN json.items ELSE <<>>
NumberValue(json) == IF json.kind = "number" THEN json.number ELSE 0
Field(json, name) ==
  IF json.kind = "object" /\ name \in DOMAIN json.fields
  THEN json.fields[name] ELSE Null

PointJson(point) == Array([i \in DOMAIN point |-> Number(point[i])])
Points(points) == Array([i \in DOMAIN points |-> PointJson(points[i])])

(* The page as the Desktop Client sends it: d.how is the shape it gives a  *)
(* figure, of the three device_agent.cpp knows, or one it does not.        *)
Shapes == {"figure", "points", "array"}

Figure(points, how) ==
  IF points = <<>> THEN Blank
  ELSE
    CASE how = "figure" -> Object([figure |-> Object([points |-> Points(points)])])
      [] how = "points" -> Object([points |-> Points(points)])
      [] how = "array" -> Points(points)
      [] OTHER -> Garbled

CheckBoxes(names, how) ==
  IF names = None THEN Blank
  ELSE IF how \notin Shapes THEN Garbled
  ELSE Array([i \in DOMAIN names |-> IF names[i] = None THEN Null ELSE Text(names[i])])

Page(d) ==
  [roi |-> Figure(d.roi, d.how), inclusive |-> Figure(d.inclusive, d.how),
   exclusive |-> Figure(d.exclusive, d.how), classes |-> CheckBoxes(d.classes, d.how)]

(* The items of a list at some of its places, in their order: what a loop  *)
(* keeps that appends the items it does not skip.                          *)
ItemsAt(items, places) ==
  LET before(i) == Cardinality({k \in places : k < i})
  IN  [n \in 1..Cardinality(places) |-> items[CHOOSE i \in places : before(i) = n - 1]]

-----------------------------------------------------------------------------
(* DeviceAgent.                                                            *)
PointArray(raw) ==
  LET inFigure == Field(Field(raw, "figure"), "points")
  IN  IF raw.kind # "object" THEN raw
      ELSE IF IsArray(inFigure) THEN inFigure ELSE Field(raw, "points")

IsPoint(json) == Len(Items(json)) >= 2
Point(json) == <<NumberValue(Items(json)[1]), NumberValue(Items(json)[2])>>

(* The loop over the points, in both parsers: incomplete ones are skipped. *)
CompletePoints(items) ==
  LET read == ItemsAt(items, {i \in DOMAIN items : IsPoint(items[i])})
  IN  [n \in DOMAIN read |-> Point(read[n])]

(* parsePolygonJson: the complete points, unless they are less than three. *)
ParsePolygon(raw) ==
  LET read == CompletePoints(Items(PointArray(raw)))
  IN  IF Len(read) < 3 THEN <<>> ELSE read

Between(p, q) == IF p < q THEN [lo |-> p, hi |-> q] ELSE [lo |-> q, hi |-> p]

(* Mutant of ParseBox: the two corners are passed on as they are.          *)
ParseBoxAsDrawn(raw) ==
  LET items == Items(PointArray(raw))
  IN  IF Len(items) >= 2 /\ IsPoint(items[1]) /\ IsPoint(items[2])
      THEN <<Point(items[1]), Point(items[2])>> ELSE <<>>

(* parseBoxFigure: the corners of the box between the first two points.    *)
ParseBox(raw) ==
  LET items == Items(PointArray(raw))
      x == Between(Point(items[1])[1], Point(items[2])[1])
      y == Between(Point(items[1])[2], Point(items[2])[2])
  IN  IF /\ Len(items) >= 2 /\ IsPoint(items[1]) /\ IsPoint(items[2])
         /\ x.lo < x.hi /\ y.lo < y.hi
      THEN << <<x.lo, y.lo>>, <<x.hi, y.lo>>, <<x.hi, y.hi>>, <<x.lo, y.hi>> >>
      ELSE <<>>

(* parseClassesJson: whether there is a list is IsArray(raw).              *)
ParseClasses(raw) ==
  ItemsAt(Items(raw), {i \in DOMAIN Items(raw) : IsText(Items(raw)[i])})

Members(page) ==
  [roi |-> ParseBox(page.roi), inclusive |-> ParsePolygon(page.inclusive),
   exclusive |-> ParsePolygon(page.exclusive),
   classes |-> ParseClasses(page.classes), classesSet |-> IsArray(page.classes)]

(* The keys of sendConfigToWorker that may be absent.                      *)
Message(m) ==
  LET drawn == {k \in {"roi", "inclusive", "exclusive"} : m[k] # <<>>}
      ticked == {k \in {"classes"} : m.classesSet}
  IN  [k \in drawn \cup ticked |-> IF k \in drawn THEN Points(m[k]) ELSE Array(m[k])]

-----------------------------------------------------------------------------
(* serve().                                                                *)
MsgGet(msg, key) == IF key \in DOMAIN msg THEN msg[key] ELSE Null

CoercePoly(json) ==
  LET read == CompletePoints(Items(json))
  IN  IF Len(read) < 3 THEN None ELSE read

NamesToIds(names) == {IdOf[n] : n \in names \cap DOMAIN IdOf}

ClassFilter(json) ==
  IF ~IsArray(json) THEN None
  ELSE NamesToIds({json.items[i].string : i \in DOMAIN json.items})

Parameters(msg) ==
  [roi |-> CoercePoly(MsgGet(msg, "roi")),
   inclusive |-> CoercePoly(MsgGet(msg, "inclusive")),
   exclusive |-> CoercePoly(MsgGet(msg, "exclusive")),
   filter |-> ClassFilter(MsgGet(msg, "classes"))]

Applied(d) == Parameters(Message(Members(Page(d))))
=============================================================================
