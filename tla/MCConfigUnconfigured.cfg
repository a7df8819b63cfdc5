CONSTANTS
  MaxSaved = 2
  MaxEng = 2
  MaxHangups = 2
  None = None
SPECIFICATION Spec
PROPERTY
  ReconnectReconfigures
