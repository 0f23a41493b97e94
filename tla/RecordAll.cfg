SPECIFICATION Spec
CONSTANTS
  position = position
  v1 = v1
  v2 = v2
  Component <- MCComponent
  Value <- MCValue
  MaxSlots = 2
  MaxOps = 2
  MaxDamaged = 1
  ByteBits = 3
  WordBytes = 1
  MaxElements = 5
  Default = none
  none = none
  name = name
INVARIANT EveryEntityRecorded
