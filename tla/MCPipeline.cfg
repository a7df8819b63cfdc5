SPECIFICATION Spec
CONSTANTS
  Grid = 10
  MinCrop = 8
  None = None
  Sizes <- MCSizes
  Models <- MCModels
  IdOf <- MCIdOf
  Drawings <- MCDrawings
  Scenes <- MCScenes
  Iou <- MCIou
INVARIANTS
  TypeOK
  PageIsInForce
  WhereItIs
  MissingHasAReason
  MasksDecide
  RaisesOnlyIfElongated
