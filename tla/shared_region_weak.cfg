\* The slot stores may pass the odd generation.
SPECIFICATION Spec
CONSTANTS
  Readers = {r1}
  r1 = r1
  NumSlots = 2
  Bool = Bool
  F32 = F32
  zero = zero
  one = one
  Types <- MCTypes
  Data <- MCData
  ZeroType = Bool
  ZeroData = zero
  Snapshots <- TypedSnapshots
  NoSnapshot = NoSnapshot
  MaxSpins = 2
  GenModulus = 6
  WeakOrder = TRUE
INVARIANTS
  SnapshotNotTorn
CHECK_DEADLOCK FALSE
