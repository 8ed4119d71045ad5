CONSTANTS
  NTags = 4
  NCheckpoints = 2
  LRegs = {0, 1}
  p0 = p0
  p1 = p1
  p2 = p2
  p3 = p3
  p4 = p4
  PRegs <- ThreeRegs
  ZeroReg = p0
  RobSize = 2
  RetireWidth = 1
  Kinds <- BothKinds
  ResultFifo = FALSE
  Backpressure = TRUE
  Exceptions = TRUE
  MarkerRace = TRUE
SPECIFICATION LiveSpec
PROPERTIES TrapCompletes RollbackCompletes
