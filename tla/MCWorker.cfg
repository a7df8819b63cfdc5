CONSTANTS
  Columns = 3
  Cls <- MCCls
  Scales = {1, 2}
  MinCrop = 2
  Configs <- MCConfigs
  Scenes <- MCScenes
  None = None
  LayoutOf <- MCLayoutOf
  Unranked = {"c"}
  MaxTicks = 2
SPECIFICATION Spec
INVARIANTS
  TypeOK
  LabelsNameTheSession
  ConfigTakesEffect
  ReportsWhatIsAllowed
  UntickedNeverReported
  OneTickPerFrame
