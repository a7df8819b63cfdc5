CONSTANTS
  Cap = 2
  MaxAges = {0, 1}
  IdBound = 4
  MaxBoxes = 2
  MaxConns = 2
  UuidBound = 7
SPECIFICATION Spec
INVARIANTS
  TypeOK
  Coherent
  OneUuidPerTrack
  NoMergeInConnection
PROPERTY
  EvictedAreDead
