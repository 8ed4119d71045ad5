CONSTANTS
  FtqSize = 2
  Gens = 2
  MaxInflight = 2
  Blocks = 2
  Compressed = TRUE
  Exceptions = FALSE
  MayWait = {"cache"}
  JumpsOverHalf = TRUE
SPECIFICATION Spec
INVARIANTS StreamContiguous
