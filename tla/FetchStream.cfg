CONSTANTS
  FtqSize = 2
  Gens = 2
  MaxInflight = 2
  Blocks = 2
  Compressed = TRUE
  Exceptions = TRUE
  MayWait = {"cache"}
  JumpsOverHalf = FALSE
SPECIFICATION Spec
INVARIANTS StreamContiguous PredictionsInOrder RasRecovered RecordsKept FetchAlive
