SPECIFICATION FeedSpec
CONSTANTS
  PlaceBetCommands <- OnePlayer
  Multipliers <- LoopMultipliers
  CrashPoints <- FewCrashPoints
  MinBetCents = 10
  MaxBetCents = 15
  MaxPlaceBetQueueSize = 2
  MaxCashoutQueueSize = 1
  DebitOutcomes = {"ok"}
  MaxRounds = 2
  BettingRounds = 1
  MaxCommands = 2
  MaxBacklog = 1
  MaxInt32 = 2147483647
  Elapsed = {"fraction"}
PROPERTIES
  TicksShown
CHECK_DEADLOCK FALSE
