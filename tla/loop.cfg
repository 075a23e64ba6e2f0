SPECIFICATION Safety
CONSTANTS
  PlaceBetCommands <- Mixed
  Multipliers <- LoopMultipliers
  CrashPoints <- MCCrashPoints
  MinBetCents = 10
  MaxBetCents = 15
  MaxPlaceBetQueueSize = 2
  MaxCashoutQueueSize = 1
  DebitOutcomes = {"ok", "refused", "throws"}
  MaxRounds = 2
  BettingRounds = 2
  MaxCommands = 3
INVARIANTS
  TypeOK
  PayoutWithinCrashPoint
  CreditedExactlyOnce
  FailedCreditsOnRecord
  NoRefundNeeded
  CrashSettlesAll
  OneDriver
  CashoutQueueFresh
  SettlementAnnouncedOnce
  OneBetPerKeyAndRound
  CommandsConserved
PROPERTIES
  RoundsAdvance
  KeepsLedger
CHECK_DEADLOCK FALSE
