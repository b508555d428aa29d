\* Slots whose types change; the region implements the register.
SPECIFICATION Spec
CONSTANTS
  Readers = {r1}
  r1 = r1
  NumSlots = 2
  Bool = Bool
  F32 = F32
  zero = zero
  one = one
  Types <- MCTypes
  Data <- MCData
  ZeroType = Bool
  ZeroData = zero
  Snapshots <- MixedSnapshots
  NoSnapshot = NoSnapshot
  MaxSpins = 3
  GenModulus = 8
  WeakOrder = FALSE
INVARIANTS
  TypeOK
  SnapshotNotTorn
  UndisturbedReadSucceeds
  InvalidMeansOvertaken
PROPERTIES
  RegisterSpec
CHECK_DEADLOCK FALSE
