CONSTANTS
  Overlap = TRUE
  MaxFrames = 2
  MaxControls = 3
  MaxConns = 3
SPECIFICATION Spec
INVARIANT
  Aligned
