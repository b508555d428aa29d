\* Slots of fixed types; every read returns.
SPECIFICATION FairSpec
CONSTANTS
  Readers = {r1}
  r1 = r1
  NumSlots = 2
  Bool = Bool
  F32 = F32
  zero = zero
  one = one
  Types <- MCTypes
  Data <- MCData
  ZeroType = Bool
  ZeroData = zero
  Snapshots <- TypedSnapshots
  NoSnapshot = NoSnapshot
  MaxSpins = 3
  GenModulus = 8
  WeakOrder = FALSE
INVARIANTS
  FixedTypesReadWell
PROPERTIES
  ReadReturns
CHECK_DEADLOCK FALSE
