------------------------------ MODULE FrameRpc ------------------------------
(***************************************************************************)
(* What IpcClient::sendFrameAndRecv promises its caller and the worker: a  *)
(* frame is handled at most once, late perhaps, and a call returns either  *)
(* the answer to its own frame or nothing, whatever connections it took.   *)
(* A call that gave up does not take its frame back, so the worker may     *)
(* handle two frames in the other order.                                   *)
(***************************************************************************)
EXTENDS Integers

CONSTANT Frames     \* 1, 2, ... up to the last frame there is

VARIABLES
  asked,      \* the last frame a call was made for
  waiting,    \* is that call still in progress?
  handled,    \* frame |-> how often the worker handled it
  answered    \* the last frame an answer was returned for

rpcVars == <<asked, waiting, handled, answered>>

Init == asked = 0 /\ waiting = FALSE /\ handled = [n \in Frames |-> 0] /\ answered = 0

Ask ==
  /\ ~waiting
  /\ asked' = asked + 1 /\ waiting' = TRUE
  /\ UNCHANGED <<handled, answered>>

Handle(n) ==
  /\ n <= asked /\ handled[n] = 0
  /\ handled' = [handled EXCEPT ![n] = 1]
  /\ UNCHANGED <<asked, waiting, answered>>

Answer ==
  /\ waiting /\ handled[asked] = 1
  /\ waiting' = FALSE /\ answered' = asked
  /\ UNCHANGED <<asked, handled>>

GiveUp ==
  /\ waiting
  /\ waiting' = FALSE
  /\ UNCHANGED <<asked, handled, answered>>

Next == Ask \/ (\E n \in Frames : Handle(n)) \/ Answer \/ GiveUp

Spec == Init /\ [][Next]_rpcVars
=============================================================================
