CONSTANTS
  Cap = 2
  MaxAges = {1}
  IdBound = 2
  MaxBoxes = 1
  MaxConns = 2
  UuidBound = 3
SPECIFICATION Spec
INVARIANT
  OneTrackPerUuid
