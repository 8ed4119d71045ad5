CONSTANTS
  NTags = 4
  NCheckpoints = 2
  LRegs = {0, 1}
  p0 = p0
  p1 = p1
  p2 = p2
  p3 = p3
  p4 = p4
  PRegs <- ThreeRegs
  ZeroReg = p0
  RobSize = 2
  RetireWidth = 1
  Kinds <- WritingKinds
  ResultFifo = FALSE
  Backpressure = FALSE
  Exceptions = TRUE
  MarkerRace = TRUE
SPECIFICATION Spec
SYMMETRY RegSymmetry
INVARIANTS TagsTrackPath
