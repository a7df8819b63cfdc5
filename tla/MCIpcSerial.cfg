CONSTANTS
  Overlap = FALSE
  MaxFrames = 2
  MaxControls = 3
  MaxConns = 3
SPECIFICATION Spec
INVARIANTS
  TypeOK
  Aligned
  NoLeakedSocket
PROPERTIES
  CallsReturn
  ImplementsFrameRpc
