CONSTANTS
  NTags = 4
  NCheckpoints = 2
  LRegs = {0, 1}
  p0 = p0
  p1 = p1
  p2 = p2
  p3 = p3
  p4 = p4
  PRegs <- FourRegs
  ZeroReg = p0
  RobSize = 3
  RetireWidth = 2
  Kinds <- LinkKinds
  ResultFifo = FALSE
  Backpressure = FALSE
  Exceptions = TRUE
  MarkerRace = FALSE
SPECIFICATION Spec
SYMMETRY RegSymmetry
INVARIANTS TypeOK NoRegisterShared NoRegisterLost TagsTrackPath FratIsSpeculative CheckpointsExact ResumesEmpty
PROPERTY PreciseExecution
