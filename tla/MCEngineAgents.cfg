SPECIFICATION Spec
CONSTANTS
  Agents = {a1, a2}
  Inventory <- MCInventory
  Choices = {"openvino", "cpu"}
  None = None
INVARIANTS
  TypeOK
  EveryAgentFollows
  OnlyOverlappedDestructorsAreCalled
  MessagesNameWhatIsThere
  ShownIsUsed
SYMMETRY MCSymmetry
