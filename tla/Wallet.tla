------------------------------- MODULE Wallet -------------------------------
(***************************************************************************)
(* The round loop with SoftSwissWalletAdapter for its wallet gateway: the  *)
(* balances of the players.                                                *)
(*                                                                         *)
(* GameLoop leaves it open what the gateway answers and when.  The adapter *)
(* changes the balance inside the call of debit or credit and decides then *)
(* what it will answer; the promise settles later.  So the step that calls *)
(* the wallet moves the money, and the step after the await only learns of *)
(* it.  The steps that do not reach the wallet are in CommandPath, which   *)
(* composes these with the messages between the players and the engine.    *)
(*                                                                         *)
(* An operator Bad... before an operator of the same name is not part of   *)
(* the model: it is that operator with a plausible bug.                    *)
(***************************************************************************)
EXTENDS GameLoop, Functions

CONSTANT StartBalance    \* DEFAULT_BALANCE_CENTS

ASSUME BalanceAssumption == StartBalance \in Nat

VARIABLES
  balances,              \* per player; one the adapter does not know yet has
                         \* the start balance
  debitAnswer            \* what debit has decided to answer: "ok", "refused"

walletVars == <<balances, debitAnswer>>

Players == {cmd.playerId : cmd \in PlaceBetCommands}

BetsOf(p) == {b \in DOMAIN bets : bets[b].playerId = p}

-----------------------------------------------------------------------------
\* simulateResponse to a bet
BadSimulateBet(cmd) ==
  /\ balances' = [balances EXCEPT ![cmd.playerId] = @ - cmd.amountCents]
  /\ debitAnswer' = "ok"
SimulateBet(cmd) ==
  \/ /\ cmd.amountCents > balances[cmd.playerId]
     /\ debitAnswer' = "refused"
     /\ UNCHANGED balances
  \/ /\ cmd.amountCents <= balances[cmd.playerId]
     /\ debitAnswer' = "ok"
     /\ balances' = [balances EXCEPT ![cmd.playerId] = @ - cmd.amountCents]

\* Per bet, the credit that this step starts.
NewCredits ==
  [b \in DOMAIN bets' |->
     LET before == IF b \in DOMAIN credits THEN Len(credits[b]) ELSE 0
     IN IF Len(credits'[b]) > before THEN credits'[b][before + 1].cents ELSE 0]

\* simulateResponse to the wins of this step
SimulateWins ==
  balances' = [p \in Players |->
    balances[p] + SumFunctionOnSet(NewCredits, BetsOf(p)')]

-----------------------------------------------------------------------------
(* endBettingPhase gets to a command that needs a debit. *)
DebitCalled ==
  /\ EndBettingPhase \/ ReplyPublished
  /\ task' # task /\ task'.at = "debit"
  /\ SimulateBet(Head(task'.todo))

(* It gets to one that needs none, or to the end of the queue. *)
NoDebitCalled ==
  /\ EndBettingPhase \/ ReplyPublished
  /\ task' = task \/ task'.at # "debit"
  /\ UNCHANGED walletVars

(* The promise of debit resolves. *)
DebitReturns ==
  /\ \/ debitAnswer = "ok" /\ DebitOk
     \/ debitAnswer = "refused" /\ DebitRefused
  /\ SimulateWins
  /\ UNCHANGED debitAnswer

(* A tick, with the credits that it starts. *)
TickCredits == OnTick /\ SimulateWins /\ UNCHANGED debitAnswer

(* The promise of a credit resolves; this adapter takes every credit. *)
CreditResolves ==
  /\ \E b \in DOMAIN credits : \E i \in DOMAIN credits[b] : CreditReturns(b, i, "ok")
  /\ UNCHANGED walletVars

WalletInit ==
  /\ Init
  /\ balances = [p \in Players |-> StartBalance]
  /\ debitAnswer = "none"

-----------------------------------------------------------------------------
\* Per bet, what it cost and what it has won.
Stake == [b \in DOMAIN bets |-> bets[b].amountCents]
Winnings == [b \in DOMAIN bets |-> IF bets[b].status = "WON" THEN bets[b].payoutCents ELSE 0]

\* The stake that has been taken, but whose bet is not yet created.
InHand(p) ==
  IF task.at = "debit" /\ debitAnswer = "ok" /\ Head(task.todo).playerId = p
  THEN Head(task.todo).amountCents ELSE 0

\* Every cent is accounted for by the bets, whatever is interleaved with the
\* awaits and when the loop is stopped: a balance is what the player began with,
\* less all stakes, plus the payouts of the bets that are won, and never negative.
BalancesAccounted ==
  \A p \in Players :
    /\ balances[p] >= 0
    /\ balances[p] + InHand(p) + SumFunctionOnSet(Stake, BetsOf(p)) =
         StartBalance + SumFunctionOnSet(Winnings, BetsOf(p))
=============================================================================
