CONSTANTS
  MaxSaved = 2
  MaxEng = 1
  MaxHangups = 2
  None = None
SPECIFICATION Spec
INVARIANTS
  TypeOK
  ConfiguredMeansCurrent
  LaterReadsNotOlder
PROPERTIES
  FramesReconnect
  SavedIsPushed
