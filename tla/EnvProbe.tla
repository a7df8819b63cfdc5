------------------------------ MODULE EnvProbe ------------------------------
(***************************************************************************)
(* What python/env_probe.py finds on a machine, what env_probe.cpp makes   *)
(* of it, and the defaults the engine and the settings page take from it.  *)
(*                                                                         *)
(* A package is "missing", "broken" (it imports, and then listing its      *)
(* devices raises) or "works".                                             *)
(***************************************************************************)
EXTENDS Integers, Sequences

(* The order of the probe's blocks, and of the keys of devicesByRuntime.   *)
Place == [onnx |-> 1, openvino |-> 2, pytorch |-> 3, tensorrt |-> 4]
Runtimes == DOMAIN Place

Packages == {"missing", "broken", "works"}
Machines == [package : [Runtimes \ {"tensorrt"} -> Packages],
             cuda : BOOLEAN, gpu : BOOLEAN, tensorrt : BOOLEAN]

Nothing == "<none>"
DeviceNames == {"cpu", "cuda:0", "intel:gpu"}
If(found, devices) == IF found THEN devices ELSE <<>>

(* The order in which each block lists its devices.                        *)
Listed(m, rt) ==
  CASE rt = "onnx"     -> If(m.cuda, <<"cuda:0">>) \o If(m.gpu, <<"intel:gpu">>) \o <<"cpu">>
    [] rt = "openvino" -> <<"cpu">> \o If(m.gpu, <<"intel:gpu">>)
    [] rt = "pytorch"  -> <<"cpu">> \o If(m.cuda, <<"cuda:0">>)
    [] rt = "tensorrt" -> <<"cuda:0">>

(* A runtime is reported as soon as it imports; its devices only once they *)
(* are all listed.  Without the script, or its JSON, all are missing.      *)
Imports(m, rt) ==
  IF rt = "tensorrt" THEN m.tensorrt ELSE m.package[rt] # "missing"

Lists(m, rt) == Imports(m, rt) /\ (rt = "tensorrt" \/ m.package[rt] = "works")

Reported(m) == {rt \in Runtimes : Imports(m, rt)}
WithDevices(m) == {rt \in Runtimes : Lists(m, rt)}
First(rts) == CHOOSE rt \in rts : \A other \in rts : Place[rt] <= Place[other]

-----------------------------------------------------------------------------
(* initDefaultsFromProbe.                                                  *)
DefaultRuntime(m) == IF Reported(m) = {} THEN Nothing ELSE First(Reported(m))

(* Mutant of DefaultDevice: the last of the runtime's devices.             *)
DefaultDeviceBack(m) ==
  IF DefaultRuntime(m) \in WithDevices(m)
  THEN LET s == Listed(m, DefaultRuntime(m)) IN s[Len(s)] ELSE Nothing

DefaultDevice(m) ==
  IF DefaultRuntime(m) \in WithDevices(m) THEN Listed(m, DefaultRuntime(m))[1] ELSE Nothing

(* buildManifest: the page offers the devices of all runtimes.             *)
ShownRuntime(m) == DefaultRuntime(m)
ShownDevice(m) ==
  IF WithDevices(m) = {} THEN Nothing ELSE Listed(m, First(WithDevices(m)))[1]

OfferedRuntimes(m) == IF Reported(m) = {} THEN {Nothing} ELSE Reported(m)

DevicesOf(m, rt) == {Listed(m, rt)[i] : i \in 1..Len(Listed(m, rt))}
OfferedDevices(m) ==
  IF WithDevices(m) = {} THEN {Nothing} ELSE UNION {DevicesOf(m, rt) : rt \in WithDevices(m)}
=============================================================================
