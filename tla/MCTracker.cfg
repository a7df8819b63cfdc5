CONSTANTS
  Pos <- MCPos
  Cls = {0, 2, 7}
  Iou <- MCIou
  IouThr = 30
  MaxAges = {1, 2}
  ModeNames <- MCModeNames
  MaxDets = 2
  IdBound = 4
SPECIFICATION Spec
INVARIANTS
  TypeOK
  DefensiveBranchDead
  NoBlockingPair
  ReturnedIds
PROPERTIES
  FamilyKept
  NoIdReissued
  UpdateReturns
  ImplementsTrackIds
