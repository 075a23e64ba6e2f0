SPECIFICATION RngSpec
CONSTANTS
  ChainLength = 3
  MaxChains = 3
  E = 256
  HouseEdges = {0, 1, 4, 5, 50, 100}
  Targets = {101, 110, 133, 150, 200, 500, 1000, 2500}
INVARIANTS
  SeedsSecret
  SeedsLinked
  SeedsFresh
  RngTypeOK
  NoTargetPays
CHECK_DEADLOCK FALSE
