SPECIFICATION Safety
CONSTANTS
  PlaceBetCommands <- TwoPlayers
  Multipliers <- FewMultipliers
  CrashPoints <- FewCrashPoints
  MinBetCents = 10
  MaxBetCents = 15
  MaxPlaceBetQueueSize = 2
  MaxCashoutQueueSize = 1
  DebitOutcomes = {"ok", "refused"}
  MaxRounds = 2
  BettingRounds = 2
  MaxCommands = 2
INVARIANTS
  CrashPointRevealed
CHECK_DEADLOCK FALSE
