CONSTANTS
  NTags = 4
  NCheckpoints = 2
  LRegs = {0, 1}
  p0 = p0
  p1 = p1
  p2 = p2
  p3 = p3
  p4 = p4
  PRegs <- OneReg
  ZeroReg = p0
  RobSize = 5
  RetireWidth = 2
  Kinds <- BranchKinds
  ResultFifo = TRUE
  Backpressure = FALSE
  Exceptions = FALSE
  MarkerRace = FALSE
SPECIFICATION Spec
INVARIANTS RetirementTagsExact NoTagUnderflow
