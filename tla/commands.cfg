SPECIFICATION PathSpec
CONSTANTS
  PlaceBetCommands <- PathCommands
  Multipliers <- FewMultipliers
  CrashPoints <- FewCrashPoints
  MinBetCents = 10
  MaxBetCents = 15
  MaxPlaceBetQueueSize = 2
  MaxCashoutQueueSize = 1
  DebitOutcomes = {"ok", "refused"}
  MaxRounds = 2
  BettingRounds = 2
  MaxCommands = 2
  StartBalance = 20
  Uuids = {"k1", "k2"}
INVARIANTS
  BalancesAccounted
  AnswersAccounted
  BetsKnown
PROPERTIES
  EveryCommandAnswered
  BettingEndsInCrash
CHECK_DEADLOCK FALSE
