--------------------------- MODULE MCWorkerServe ----------------------------
(* Small instances of WorkerServe.  Two families of configs, so that what  *)
(* varies together is what interacts: what to run, and what to report.     *)
EXTENDS WorkerServe

MCCls == {"person", "car"}

(* One model of each layout; OpenVINO cannot tell the rank of "c".         *)
MCLayoutOf == [m \in {"a", "b", "c"} |-> IF m = "a" THEN "yolov8" ELSE "yolo26"]

Plain == [rt |-> "onnx", model |-> "a", device |-> "cpu", maxAge |-> 10,
          classes |-> None, roi |-> None, incl |-> None, excl |-> None]

ToRun ==
  {[Plain EXCEPT !.rt = r, !.model = m, !.device = d] :
     r \in {"onnx", "openvino"}, m \in {"a", "b", "c", None}, d \in {"cpu", "gpu"}}
  \cup {[Plain EXCEPT !.rt = r, !.device = "cuda", !.maxAge = 90] :
           r \in {"pytorch", "tensorrt", "<none>"}}

ToReport ==
  {[Plain EXCEPT !.classes = k, !.roi = r, !.incl = i, !.excl = e] :
     k \in {None, {"person"}},
     r \in {None, [lo |-> 1, hi |-> 2], [lo |-> 1, hi |-> 3]},
     i \in {None, {0, 1}, {1, 2}}, e \in {None, {1}}}
  \cup {[Plain EXCEPT !.classes = k] : k \in {{}, {"perosn"}}}

MCConfigs == ToRun \cup ToReport

(* One runtime and two models, of which one cannot be loaded.              *)
MCOpenvinoConfigs ==
  {[Plain EXCEPT !.rt = "openvino", !.model = m] : m \in {"a", "c"}}

MCScenes ==
  {{}, {[col |-> p, cls |-> k] : p \in Cols, k \in MCCls},
   {[col |-> 0, cls |-> "person"], [col |-> 2, cls |-> "car"]}}
=============================================================================
