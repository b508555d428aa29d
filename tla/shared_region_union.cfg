\* Slots whose types change: which union field does a copy read?
SPECIFICATION Spec
CONSTANTS
  Readers = {r1}
  r1 = r1
  NumSlots = 2
  Bool = Bool
  F32 = F32
  zero = zero
  one = one
  Types <- MCTypes
  Data <- MCData
  ZeroType = Bool
  ZeroData = zero
  Snapshots <- MixedSnapshots
  NoSnapshot = NoSnapshot
  MaxSpins = 2
  GenModulus = 6
  WeakOrder = FALSE
INVARIANTS
  ActiveFieldRead
CHECK_DEADLOCK FALSE
