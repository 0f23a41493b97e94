SPECIFICATION Spec
CONSTANTS
  position = position
  v1 = v1
  v2 = v2
  Component <- MCComponent
  Value <- MCValue
  MaxSlots = 3
  MaxOps = 3
  ByteBits = 3
  WordBytes = 3
  MaxDamaged = 2
  MaxElements = 5
  Default = none
  none = none
  name = name
SYMMETRY Symmetry
INVARIANTS
  StoreReadsBack
  ReplicaFollows
  BytesReadBack
PROPERTY Implements
