SPECIFICATION Spec
CONSTANTS
  tool = tool
  inventory = inventory
  v1 = v1
  v2 = v2
  Keys = {tool, inventory}
  Inventory = inventory
  Values = {v1, v2}
  Absent = Absent
  Legacy = v1
  Bad = Bad
INVARIANT NoSilentLoss
PROPERTY IsSavedState
PROPERTY MigratesOnce
