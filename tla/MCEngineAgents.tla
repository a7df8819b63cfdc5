--------------------------- MODULE MCEngineAgents ---------------------------
(* EngineAgents on four machines: nothing installed, one runtime with two  *)
(* devices, two runtimes with one, and two runtimes of which the first     *)
(* cannot list its devices.                                                *)
EXTENDS EngineAgents, TLC

Machine(onnx, openvino, pytorch, gpu) ==
  [package |-> [onnx |-> onnx, openvino |-> openvino, pytorch |-> pytorch],
   cuda |-> FALSE, gpu |-> gpu, tensorrt |-> FALSE]

MCInventory ==
  { Machine("missing", "missing", "missing", FALSE),
    Machine("works", "missing", "missing", TRUE),
    Machine("works", "works", "missing", FALSE),
    Machine("broken", "missing", "works", FALSE) }

MCSymmetry == Permutations(Agents)
=============================================================================
