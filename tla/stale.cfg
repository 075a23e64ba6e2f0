SPECIFICATION Safety
CONSTANTS
  PlaceBetCommands <- TwoPlayers
  Multipliers <- LoopMultipliers
  CrashPoints <- MCCrashPoints
  MinBetCents = 10
  MaxBetCents = 15
  MaxPlaceBetQueueSize = 2
  MaxCashoutQueueSize = 1
  DebitOutcomes = {"ok"}
  MaxRounds = 2
  BettingRounds = 2
  MaxCommands = 2
INVARIANTS
  LostWithItsRound
CHECK_DEADLOCK FALSE
