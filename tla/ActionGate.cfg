SPECIFICATION Spec
CONSTANTS
  UnitCount = 3
  SlotCount = 1
  Actionable = {0, 1, 2}
  Fickle = {1}
  Short = {0, 1}
  PLA = PLA
  ABS = ABS
  Material <- TwoAlike
  UnknownMaterial = UnknownMaterial
  NoTool = NoTool
  Requests = {r1}
INVARIANT WebKeepsOutOfPrints
INVARIANT PrintsTheRightMaterial
PROPERTY EmptySpoolStaysOut
PROPERTY EverySpoolIsUsed
