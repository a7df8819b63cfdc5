------------------------------ MODULE Adapters ------------------------------
(***************************************************************************)
(* The four inference adapters (python/adapter_*.py) as far as serve() and *)
(* its answers depend on them: the session an adapter holds, and the       *)
(* layout by which it reads what its model puts out.  load() assigns both, *)
(* in an order that matters where it may raise; infer() gives a set of     *)
(* boxes for what the model sees.  The libraries behind the adapters are   *)
(* external: whether they import, load and run is a choice.                *)
(***************************************************************************)
EXTENDS FiniteSets

CONSTANTS
  None,       \* Python's None, and a key that is absent
  LayoutOf,   \* model |-> the layout of its output tensor
  Unranked    \* models whose output has a dynamic rank in OpenVINO

RawLayouts == {"yolo26", "yolov8"}
AdapterTable == {"onnx", "openvino", "pytorch", "tensorrt"}
Ultralytics == {"pytorch", "tensorrt"}

ASSUME LayoutAssumption == \A m \in DOMAIN LayoutOf : LayoutOf[m] \in RawLayouts

(* make_adapter of a name in the table whose module imports.               *)
MakeAdapter(rt) ==
  [rt |-> rt, session |-> None,
   layout |-> IF rt \in Ultralytics THEN "ultralytics" ELSE "yolov8"]

Session(model, device) == [model |-> model, device |-> device]

(* What a call of load() may leave behind.                                 *)
Done(a) == [adapter |-> a, raised |-> FALSE]
Raised(a) == [adapter |-> a, raised |-> TRUE]

(* Everything that may raise comes before the session is replaced.         *)
OnnxLoad(a, model, device) ==
  {Raised(a),
   Done([a EXCEPT !.session = Session(model, device), !.layout = LayoutOf[model]])}

(* Mutant of OpenvinoLoad: a reload leaves the layout as it was.           *)
OpenvinoLoadKeepingLayout(a, model, device) ==
  {Raised(a),
   IF model \in Unranked
   THEN Raised([a EXCEPT !.session = Session(model, device)])
   ELSE Done([a EXCEPT !.session = Session(model, device)])}

(* The session is replaced, then the output's shape is listed, which       *)
(* raises if its rank is dynamic.  (A device that does not compile is      *)
(* replaced by AUTO without a word to serve(), which keeps the hint.)      *)
OpenvinoLoad(a, model, device) ==
  LET loaded == [a EXCEPT !.session = Session(model, device)]
  IN  {Raised(a),
       IF model \in Unranked THEN Raised(loaded)
       ELSE Done([loaded EXCEPT !.layout = LayoutOf[model]])}

TensorrtLoad(a, model, device) ==
  {Raised(a), Done([a EXCEPT !.session = Session(model, device)])}

PytorchLoad(a, model, device) ==
  {Raised(a), Done([a EXCEPT !.session = Session(model, device)])}

LoadOutcomes(a, model, device) ==
  CASE a.rt = "onnx" -> OnnxLoad(a, model, device)
    [] a.rt = "openvino" -> OpenvinoLoad(a, model, device)
    [] a.rt = "tensorrt" -> TensorrtLoad(a, model, device)
    [] OTHER -> PytorchLoad(a, model, device)

(* An OpenVINO session whose load() raised after it was put in place.      *)
Torn(a) ==
  /\ a # None
  /\ a.rt = "openvino" /\ a.session # None
  /\ a.session.model \in Unranked

-----------------------------------------------------------------------------
(* `if class_filter:` in every adapter: an empty filter is no filter.      *)
Wanted(boxes, filter) ==
  IF filter \in {None, {}} THEN boxes ELSE {b \in boxes : b.cls \in filter}

(* decode_boxes by a layout.  The raw output read as end-to-end has the    *)
(* wrong number of columns; the other way round the numbers mean nothing   *)
(* (one box stands for however many).  `boxes` is what there is to see,    *)
(* `places` every box there could be.                                      *)
DecodeBoxes(a, boxes, places, filter) ==
  IF a.layout = LayoutOf[a.session.model] THEN {Wanted(boxes, filter)}
  ELSE IF a.layout = "yolo26" THEN {{}}
  ELSE {{}} \cup {{b} : b \in Wanted(places, filter)}

OnnxInfer(a, boxes, places, filter) == DecodeBoxes(a, boxes, places, filter)
OpenvinoInfer(a, boxes, places, filter) == DecodeBoxes(a, boxes, places, filter)

(* Ultralytics decodes by itself.                                          *)
TensorrtInfer(boxes, filter) == {Wanted(boxes, filter)}
PytorchInfer(boxes, filter) == {Wanted(boxes, filter)}

InferOutcomes(a, boxes, places, filter) ==
  CASE a.rt = "onnx" -> OnnxInfer(a, boxes, places, filter)
    [] a.rt = "openvino" -> OpenvinoInfer(a, boxes, places, filter)
    [] a.rt = "tensorrt" -> TensorrtInfer(boxes, filter)
    [] OTHER -> PytorchInfer(boxes, filter)
=============================================================================
