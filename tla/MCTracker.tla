------------------------------ MODULE MCTracker ------------------------------
(***************************************************************************)
(* A small scene for Tracker: two places on a line, each a segment of      *)
(* length 4, that overlap by a half (IoU 1/3, just above the threshold).   *)
(* IdBound = 4 lets a frame of two detections meet two live tracks.        *)
(***************************************************************************)
EXTENDS Tracker

MCPos == {0, 2}
Overlap(a, b) ==
  LET gap == IF a < b THEN b - a ELSE a - b
  IN  IF gap >= 4 THEN 0 ELSE 4 - gap
MCIou ==
  [p \in MCPos \X MCPos |->
     (100 * Overlap(p[1], p[2])) \div (8 - Overlap(p[1], p[2]))]
MCModeNames == {"vehicle_group", "any", "unknown", "strict"}
=============================================================================
