------------------------------ MODULE GameLoop ------------------------------
(***************************************************************************)
(* The game engine's round loop: RunGameLoopUseCase with the objects it    *)
(* owns or calls synchronously (Round, BetCollection, Bet, the current     *)
(* round store, the bet store, the timer and the tick scheduler) and the   *)
(* two betting use cases, PlaceBetUseCase and CashoutUseCase.              *)
(*                                                                         *)
(* The program is single threaded.  One action is one macrotask: a timer,  *)
(* an interval callback, a NATS callback, the shutdown hook, or the rest   *)
(* of an async function after one of its awaits.  Every await of a port    *)
(* (event publisher, wallet) is a point where other macrotasks may run.    *)
(*                                                                         *)
(* Data.  A Round object is its position in "rounds", which also stands    *)
(* for its random id; 0 stands for null and, in a command, for an id that  *)
(* no round has.  A Bet object is its position in "bets".  Multipliers     *)
(* are in hundredths.                                                      *)
(*                                                                         *)
(* An operator Bad... before an operator of the same name is not part of   *)
(* the model: it is that operator with a plausible bug, which a property   *)
(* must notice.                                                            *)
(***************************************************************************)
EXTENDS Integers, Sequences

CONSTANTS
  PlaceBetCommands,      \* the place-bet payloads clients may send
  Multipliers,           \* the multipliers a tick may compute
  CrashPoints,           \* the crash points ProvablyFair may return
  MinBetCents,           \* GameConfig.minBetCents
  MaxBetCents,           \* GameConfig.maxBetCents
  MaxPlaceBetQueueSize,
  MaxCashoutQueueSize,
  DebitOutcomes,         \* what walletGateway.debit may do
  MaxRounds,             \* bound: rounds in a behaviour
  BettingRounds,         \* bound: clients send bets up to this round only
  MaxCommands            \* bound: place-bet commands in a behaviour

PlaceBetCommand ==
  [idempotencyKey : STRING, playerId : STRING, roundId : Nat,
   amountCents : Nat, autoCashout : Nat]

ASSUME CommandsAssumption == PlaceBetCommands \subseteq PlaceBetCommand
ASSUME MultipliersAssumption ==
  /\ Multipliers \subseteq {m \in Nat : m >= 100}
  /\ CrashPoints \subseteq {m \in Nat : m >= 100}
ASSUME ConfigAssumption ==
  /\ MinBetCents \in Nat /\ MaxBetCents \in Nat
  /\ MaxPlaceBetQueueSize \in Nat /\ MaxCashoutQueueSize \in Nat
ASSUME OutcomesAssumption == DebitOutcomes \subseteq {"ok", "refused", "throws"}
ASSUME BoundsAssumption ==
  MaxRounds \in Nat /\ BettingRounds \in Nat /\ MaxCommands \in Nat

VARIABLES
  engine,          \* "off", "running", "stopped", or "dead" (process exited)
  rounds,          \* the Round objects, in order of creation
  current,         \* currentRoundStore: a round, or 0
  previousRoundId, \* the crashed round whose bets are to be cleared, or 0
  task,            \* the async function that is suspended at an await
  timer,           \* the one timeout of SetTimeoutTimer, by its callback
  ticking,         \* SetIntervalTickScheduler has a live interval
  placeBetQueue,
  cashoutQueue,
  bets,            \* the Bet objects, in order of creation
  betStore,        \* the bets InMemoryBetStore holds
  credits,         \* per bet, the credit calls made to the wallet
  failedCredits,   \* the records of FailedCreditStore
  tickEvents,      \* settlement events in the TickEventBuffer
  flushImmediate,  \* a setImmediate that will flush the buffer is pending
  published,       \* settlement events handed to the event publisher
  received,        \* number of place-bet commands received
  answered         \* number of bet_placed and bet_rejected published

roundVars == <<rounds, current, previousRoundId>>
driverVars == <<task, timer, ticking>>
betVars == <<bets, betStore, credits, failedCredits>>
eventVars == <<tickEvents, flushImmediate, published>>
replyVars == <<received, answered>>
vars == <<engine, roundVars, driverVars, placeBetQueue, cashoutQueue,
          betVars, eventVars, replyVars>>

-----------------------------------------------------------------------------
\* Money.multiplyByMultiplier.
Payout(amountCents, multiplier) == (amountCents * multiplier) \div 100

Running == engine = "running"

\* The process is up and start() has registered the command handlers.
Listening == engine \in {"running", "stopped"}

\* currentRoundStore.get()?.state
CurrentState == IF current = 0 THEN "NONE" ELSE rounds[current].state

ActiveBets(r) == {b \in DOMAIN bets : bets[b].round = r /\ bets[b].status = "ACTIVE"}

Idle == [at |-> "idle", todo |-> <<>>, round |-> 0]

\* Round.startFlying and Round.tick
StartFlying(round) == [round EXCEPT !.state = "RUNNING"]
Tick(round, multiplier) ==
  [round EXCEPT !.currentMultiplier = multiplier,
                !.state = IF multiplier >= round.crashPoint THEN "CRASHED" ELSE @]

\* InMemoryBetStore.clearRound for each of the ids that is not null: the store
\* is indexed by the round id the bet's command carried.
ClearRounds(ids) ==
  betStore' = {b \in betStore : bets[b].roundId \notin ids \ {0}}

\* InMemoryBetStore.findByIdempotencyKey
HasKey(key) == \E b \in betStore : bets[b].idempotencyKey = key
BetWithKey(key) == CHOOSE b \in betStore : bets[b].idempotencyKey = key

\* flushEvents: the buffer goes to publishBatch.
BadFlush(events) == tickEvents' = events /\ published' = published \cup events
Flush(events) == tickEvents' = {} /\ published' = published \cup events

\* startNewRound: bets that arrived while endBettingPhase was placing others
\* are stale by now and are rejected.
BadRejectStaleBets == placeBetQueue' = <<>> /\ UNCHANGED answered
RejectStaleBets ==
  /\ placeBetQueue' = <<>>
  /\ answered' = answered + Len(placeBetQueue)

-----------------------------------------------------------------------------
(* startNewRound, up to its first await. *)
BeginRound ==
  /\ Len(rounds) < MaxRounds
  /\ ClearRounds({previousRoundId})
  /\ previousRoundId' = 0
  /\ RejectStaleBets
  /\ \E c \in CrashPoints :
       rounds' = Append(rounds, [state |-> "BETTING", currentMultiplier |-> 100,
                                 crashPoint |-> c])
  /\ current' = Len(rounds) + 1
  /\ task' = [at |-> "announcing", todo |-> <<>>, round |-> Len(rounds) + 1]
  /\ UNCHANGED <<ticking, cashoutQueue, bets, credits, failedCredits,
                 eventVars, received>>

(* start: registers the handlers and opens the first round. *)
Start ==
  /\ engine = "off"
  /\ engine' = "running"
  /\ timer' = timer
  /\ BeginRound

(* The timeout of scheduleNextRound fires. *)
NewRoundTimer ==
  /\ timer = "newRound" /\ Running
  /\ timer' = "none"
  /\ engine' = engine
  /\ BeginRound

(* startNewRound after roundNew and roundBetting have been published (no    *)
(* state changes between the two awaits).  It does not look at "running".  *)
BadRoundAnnounced ==
  /\ Listening /\ task.at = "announcing"
  /\ task' = Idle
  /\ UNCHANGED <<engine, roundVars, timer, ticking, placeBetQueue, cashoutQueue,
                 betVars, eventVars, replyVars>>
WorseRoundAnnounced ==
  /\ Listening /\ task.at = "announcing"
  /\ timer' = "newRound"
  /\ task' = Idle
  /\ UNCHANGED <<engine, roundVars, ticking, placeBetQueue, cashoutQueue,
                 betVars, eventVars, replyVars>>
RoundAnnounced ==
  /\ Listening /\ task.at = "announcing"
  /\ timer' = "endBetting"
  /\ task' = Idle
  /\ UNCHANGED <<engine, roundVars, ticking, placeBetQueue, cashoutQueue,
                 betVars, eventVars, replyVars>>

-----------------------------------------------------------------------------
\* PlaceBetUseCase.execute reaches the wallet only for an amount within the
\* limits under a key that the bet store does not know.
BadNeedsDebit(cmd) ==
  cmd.amountCents >= MinBetCents /\ cmd.amountCents <= MaxBetCents
NeedsDebit(cmd) ==
  /\ cmd.amountCents >= MinBetCents
  /\ cmd.amountCents <= MaxBetCents
  /\ ~HasKey(cmd.idempotencyKey)

\* Among the others, one whose key is known is answered with the bet that has it.
IsRepeat(cmd) == cmd.amountCents \in MinBetCents..MaxBetCents /\ HasKey(cmd.idempotencyKey)

(* endBettingPhase at the head of its loop, with "todo" still to place: it  *)
(* runs up to the next await.  With nothing left the round starts flying.  *)
BadPlaceNext(todo, r) ==
  /\ rounds' = [rounds EXCEPT ![r] = StartFlying(@)]
  /\ task' = [at |-> IF todo = <<>> THEN "starting" ELSE "debit", todo |-> todo, round |-> r]
  /\ UNCHANGED answered
PlaceNext(todo, r) ==
  \/ /\ todo = <<>>
     /\ rounds[r].state = "BETTING"
     /\ rounds' = [rounds EXCEPT ![r] = StartFlying(@)]
     /\ task' = [at |-> "starting", todo |-> <<>>, round |-> r]
     /\ UNCHANGED answered
  \/ /\ todo # <<>> /\ NeedsDebit(Head(todo))
     /\ task' = [at |-> "debit", todo |-> todo, round |-> r]
     /\ UNCHANGED <<rounds, answered>>
  \/ /\ todo # <<>> /\ ~NeedsDebit(Head(todo))
     /\ task' = [at |-> "reply", todo |-> todo, round |-> r]
     /\ answered' = answered + 1
     /\ UNCHANGED rounds

(* The timeout of startNewRound fires: endBettingPhase takes the whole     *)
(* queue.  After stop() it returns at once.                                *)
EndBettingPhase ==
  /\ Listening /\ timer = "endBetting"
  /\ timer' = "none"
  /\ \/ /\ Running /\ current # 0
        /\ placeBetQueue' = <<>>
        /\ PlaceNext(placeBetQueue, current)
     \/ /\ ~(Running /\ current # 0)
        /\ UNCHANGED <<placeBetQueue, rounds, task, answered>>
  /\ UNCHANGED <<engine, current, previousRoundId, ticking, cashoutQueue,
                 betVars, eventVars, received>>

(* The debit succeeded: the bet is added to the round that endBettingPhase *)
(* captured and to the store; if that round takes no bets any more, the    *)
(* stake is credited back.  The answer to the player is published.         *)
DebitOk ==
  /\ Listening /\ task.at = "debit" /\ "ok" \in DebitOutcomes
  /\ LET cmd == Head(task.todo)
         accepted == rounds[task.round].state = "BETTING"
     IN /\ bets' = Append(bets,
                     [playerId |-> cmd.playerId, roundId |-> cmd.roundId,
                      round |-> task.round, amountCents |-> cmd.amountCents,
                      autoCashout |-> cmd.autoCashout,
                      idempotencyKey |-> cmd.idempotencyKey,
                      status |-> IF accepted THEN "ACTIVE" ELSE "PENDING",
                      cashoutMultiplier |-> 0, payoutCents |-> 0])
        /\ betStore' = IF accepted THEN betStore \cup {Len(bets) + 1} ELSE betStore
        /\ credits' = Append(credits,
                        IF accepted THEN <<>>
                        ELSE <<[cents |-> cmd.amountCents, outcome |-> "pending"]>>)
  /\ task' = [task EXCEPT !.at = "reply"]
  /\ answered' = answered + 1
  /\ UNCHANGED <<engine, roundVars, timer, ticking, placeBetQueue, cashoutQueue,
                 failedCredits, eventVars, received>>

(* The wallet answered INSUFFICIENT_FUNDS, PLAYER_BLOCKED or TIMEOUT. *)
DebitRefused ==
  /\ Listening /\ task.at = "debit" /\ "refused" \in DebitOutcomes
  /\ task' = [task EXCEPT !.at = "reply"]
  /\ answered' = answered + 1
  /\ UNCHANGED <<engine, roundVars, timer, ticking, placeBetQueue, cashoutQueue,
                 betVars, eventVars, received>>

(* The debit promise rejects.  Nothing up to the timer callback catches it, *)
(* so Node ends the process with an unhandled rejection.                    *)
DebitThrows ==
  /\ Listening /\ task.at = "debit" /\ "throws" \in DebitOutcomes
  /\ engine' = "dead"
  /\ UNCHANGED <<roundVars, driverVars, placeBetQueue, cashoutQueue,
                 betVars, eventVars, replyVars>>

(* bet_placed or bet_rejected has been published: on to the next bet. *)
ReplyPublished ==
  /\ Listening /\ task.at = "reply"
  /\ PlaceNext(Tail(task.todo), task.round)
  /\ UNCHANGED <<engine, current, previousRoundId, timer, ticking,
                 placeBetQueue, cashoutQueue, betVars, eventVars, received>>

(* round_started has been published: the interval starts.  "running" is    *)
(* not looked at here either.                                              *)
RoundStarted ==
  /\ Listening /\ task.at = "starting"
  /\ ticking' = TRUE
  /\ task' = Idle
  /\ UNCHANGED <<engine, roundVars, timer, placeBetQueue, cashoutQueue,
                 betVars, eventVars, replyVars>>

-----------------------------------------------------------------------------
\* CashoutUseCase.execute succeeds for cmd: the bet is an active one of this
\* running round and belongs to the player.
BadCashesOut(cmd, b) ==
  /\ cmd.roundId = current /\ cmd.betId = b
  /\ bets[b].round = current /\ cmd.playerId = bets[b].playerId
CashesOut(cmd, b) ==
  /\ cmd.roundId = current
  /\ cmd.betId = b
  /\ b \in ActiveBets(current)
  /\ cmd.playerId = bets[b].playerId

\* Step 1 of a tick: the bets that the queued commands cash out.  A second
\* command for a bet finds it WON and fails, so the order does not matter.
CashedOut == {b \in DOMAIN bets : \E i \in DOMAIN cashoutQueue : CashesOut(cashoutQueue[i], b)}

\* Step 3: the active bets whose auto-cashout target the new multiplier reaches.
AutoCashedOut(multiplier) ==
  {b \in ActiveBets(current) : bets[b].autoCashout # 0 /\ multiplier >= bets[b].autoCashout}

Won(multiplier) == CashedOut \cup AutoCashedOut(multiplier)

\* Round.cashout pays at the multiplier the round has; Round.tick sets the new
\* one only after the cashouts of the tick.
BadPaidAt(multiplier) == multiplier
PaidAt(multiplier) == rounds[current].currentMultiplier

\* BetCollection.settleAll
BadLostAtCrash(won) == {b \in ActiveBets(current) \ won : bets[b].autoCashout = 0}
LostAtCrash(won) == ActiveBets(current) \ won

\* Bet.cashout and Bet.lose
Cashout(bet, multiplier) ==
  [bet EXCEPT !.status = "WON", !.cashoutMultiplier = multiplier,
              !.payoutCents = Payout(bet.amountCents, multiplier)]
Lose(bet) == [bet EXCEPT !.status = "LOST", !.payoutCents = 0]

\* The bets of "won" are cashed out and each starts a credit; those of "lost"
\* lose.
Settle(won, lost, paidAt) ==
  /\ bets' = [b \in DOMAIN bets |->
                IF b \in won THEN Cashout(bets[b], paidAt)
                ELSE IF b \in lost THEN Lose(bets[b]) ELSE bets[b]]
  /\ credits' = [b \in DOMAIN credits |->
                   IF b \in won
                   THEN Append(credits[b], [cents |-> Payout(bets[b].amountCents, paidAt),
                                            outcome |-> "pending"])
                   ELSE credits[b]]

SettlementEvents(won, lost) ==
  [type : {"bet_won"}, bet : won] \cup [type : {"bet_lost"}, bet : lost]

\* An interval callback that finds a running round.  Node runs a pending
\* setImmediate before the next interval callback.
Ticks(multiplier) ==
  /\ Listening /\ ticking /\ ~flushImmediate
  /\ CurrentState = "RUNNING"
  /\ multiplier >= rounds[current].currentMultiplier
  /\ cashoutQueue' = <<>>
  /\ UNCHANGED <<engine, current, task, placeBetQueue, betStore, failedCredits, replyVars>>

(* onTick below the crash point. *)
TickFlies(multiplier) ==
  /\ Ticks(multiplier)
  /\ multiplier < rounds[current].crashPoint
  /\ rounds' = [rounds EXCEPT ![current] = Tick(@, multiplier)]
  /\ Settle(Won(multiplier), {}, PaidAt(multiplier))
  /\ tickEvents' = tickEvents \cup SettlementEvents(Won(multiplier), {})
  /\ flushImmediate' = TRUE
  /\ UNCHANGED <<previousRoundId, timer, ticking, published>>

(* onTick at or above the crash point: the cashouts of this tick still win, *)
(* the other active bets lose, and the next round is scheduled.             *)
TickCrashes(multiplier) ==
  LET won == Won(multiplier)
      lost == LostAtCrash(won)
  IN /\ Ticks(multiplier)
     /\ multiplier >= rounds[current].crashPoint
     /\ rounds' = [rounds EXCEPT ![current] = Tick(@, multiplier)]
     /\ Settle(won, lost, PaidAt(multiplier))
     /\ ticking' = FALSE
     /\ Flush(tickEvents \cup SettlementEvents(won, lost))
     /\ previousRoundId' = current
     /\ timer' = IF Running THEN "newRound" ELSE timer
     /\ UNCHANGED flushImmediate

OnTick == \E m \in Multipliers : TickFlies(m) \/ TickCrashes(m)

(* The setImmediate of scheduleFlush runs. *)
FlushEvents ==
  /\ Listening /\ flushImmediate
  /\ flushImmediate' = FALSE
  /\ Flush(tickEvents)
  /\ UNCHANGED <<engine, roundVars, driverVars, placeBetQueue, cashoutQueue,
                 betVars, replyVars>>

-----------------------------------------------------------------------------
\* onPlaceBet
QueuesBet ==
  CurrentState = "BETTING" /\ Len(placeBetQueue) < MaxPlaceBetQueueSize

(* The place-bet handler: queued in a betting round, else rejected. *)
PlaceBetReceived(cmd) ==
  /\ Listening
  /\ received < MaxCommands /\ Len(rounds) <= BettingRounds
  /\ cmd.roundId <= Len(rounds)        \* no client knows a future round's id
  /\ received' = received + 1
  /\ \/ /\ QueuesBet
        /\ placeBetQueue' = Append(placeBetQueue, cmd)
        /\ UNCHANGED answered
     \/ /\ ~QueuesBet
        /\ answered' = answered + 1
        /\ UNCHANGED placeBetQueue
  /\ UNCHANGED <<engine, roundVars, driverVars, cashoutQueue, betVars, eventVars>>

\* Cashout payloads: any player may name any round and any bet.
CashoutCommands ==
  [playerId : {c.playerId : c \in PlaceBetCommands},
   roundId : 0..Len(rounds), betId : DOMAIN bets]

\* onCashout
BadQueuesCashout(cmd) ==
  CurrentState = "RUNNING" /\ Len(cashoutQueue) < MaxCashoutQueueSize
WorseQueuesCashout(cmd) ==
  /\ CurrentState = "RUNNING"
  /\ cmd.roundId = current
  /\ Len(cashoutQueue) <= MaxCashoutQueueSize
QueuesCashout(cmd) ==
  /\ CurrentState = "RUNNING"
  /\ cmd.roundId = current
  /\ Len(cashoutQueue) < MaxCashoutQueueSize

(* The cashout handler: queued while the named round flies, else dropped. *)
CashoutReceived(cmd) ==
  /\ Listening
  /\ QueuesCashout(cmd)
  /\ cashoutQueue' = Append(cashoutQueue, cmd)
  /\ UNCHANGED <<engine, roundVars, driverVars, placeBetQueue, betVars,
                 eventVars, replyVars>>

\* A failed credit is recorded, save that of a compensating refund, which is
\* recorded only when the promise rejects.
BadRecordsFailure(b, outcome) == outcome = "throws"
RecordsFailure(b, outcome) ==
  outcome = "throws" \/ (outcome = "refused" /\ bets[b].status # "PENDING")

(* The wallet's answer to the credit of bet b. *)
CreditReturns(b, i, outcome) ==
  /\ Listening /\ credits[b][i].outcome = "pending"
  /\ credits' = [credits EXCEPT ![b][i].outcome = IF outcome = "ok" THEN "paid" ELSE "failed"]
  /\ failedCredits' =
       IF RecordsFailure(b, outcome)
       THEN failedCredits \cup {[betId |-> b, payoutCents |-> credits[b][i].cents]}
       ELSE failedCredits
  /\ UNCHANGED <<engine, roundVars, driverVars, placeBetQueue, cashoutQueue,
                 bets, betStore, eventVars, replyVars>>

CreditReturned ==
  \E b \in DOMAIN credits : \E i \in DOMAIN credits[b] :
    \E outcome \in {"ok", "refused", "throws"} : CreditReturns(b, i, outcome)

(* The shutdown hook: stop(), then drain(), whose flush finds nothing more. *)
(* A signal runs the hook twice, through the handlers that Nest registers   *)
(* and through main.ts, which calls close().                                *)
Stop ==
  /\ Listening
  /\ engine' = "stopped"
  /\ timer' = "none"
  /\ ticking' = FALSE
  /\ Flush(tickEvents)
  /\ ClearRounds({current, previousRoundId})
  /\ previousRoundId' = 0
  /\ current' = 0
  /\ UNCHANGED <<rounds, task, placeBetQueue, cashoutQueue, bets, credits,
                 failedCredits, flushImmediate, replyVars>>

-----------------------------------------------------------------------------
Init ==
  /\ engine = "off"
  /\ rounds = <<>> /\ current = 0 /\ previousRoundId = 0
  /\ task = Idle /\ timer = "none" /\ ticking = FALSE
  /\ placeBetQueue = <<>> /\ cashoutQueue = <<>>
  /\ bets = <<>> /\ betStore = {} /\ credits = <<>> /\ failedCredits = {}
  /\ tickEvents = {} /\ flushImmediate = FALSE /\ published = {}
  /\ received = 0 /\ answered = 0

Next ==
  \/ Start
  \/ NewRoundTimer
  \/ RoundAnnounced
  \/ EndBettingPhase
  \/ DebitOk
  \/ DebitRefused
  \/ DebitThrows
  \/ ReplyPublished
  \/ RoundStarted
  \/ OnTick
  \/ FlushEvents
  \/ \E cmd \in PlaceBetCommands : PlaceBetReceived(cmd)
  \/ \E cmd \in CashoutCommands : CashoutReceived(cmd)
  \/ CreditReturned
  \/ Stop

Safety == Init /\ [][Next]_vars

\* The interval keeps calling onTick with a multiplier that has grown.
GrowingTick ==
  \E m \in Multipliers :
    /\ CurrentState = "RUNNING"
    /\ m > rounds[current].currentMultiplier \/ m >= rounds[current].crashPoint
    /\ TickFlies(m) \/ TickCrashes(m)

-----------------------------------------------------------------------------
Round == [state : {"BETTING", "RUNNING", "CRASHED"},
          currentMultiplier : {m \in Nat : m >= 100}, crashPoint : CrashPoints]

Bet == [playerId : STRING, roundId : Nat, round : Nat, amountCents : Nat,
        autoCashout : Nat, idempotencyKey : STRING,
        status : {"PENDING", "ACTIVE", "WON", "LOST"},
        cashoutMultiplier : Nat, payoutCents : Nat]

Credit == [cents : Nat, outcome : {"pending", "paid", "failed"}]

CashoutCommand == [playerId : STRING, roundId : Nat, betId : Nat]

Task == [at : {"idle", "announcing", "debit", "reply", "starting"},
         todo : Seq(PlaceBetCommand), round : Nat]

LoopTypeOK ==
  /\ engine \in {"off", "running", "stopped", "dead"}
  /\ rounds \in Seq(Round)
  /\ current \in 0..Len(rounds)
  /\ previousRoundId \in 0..Len(rounds)
  /\ task \in Task
  /\ task.round \in 0..Len(rounds)
  /\ task.at # "idle" => task.round # 0
  /\ task.at \in {"debit", "reply"} => task.todo # <<>>
  /\ timer \in {"none", "newRound", "endBetting"}
  /\ ticking \in BOOLEAN

QueueTypeOK ==
  /\ placeBetQueue \in Seq(PlaceBetCommand)
  /\ Len(placeBetQueue) <= MaxPlaceBetQueueSize
  /\ cashoutQueue \in Seq(CashoutCommand)
  /\ Len(cashoutQueue) <= MaxCashoutQueueSize
  /\ received \in Nat /\ answered \in Nat

BetTypeOK ==
  /\ bets \in Seq(Bet)
  /\ \A b \in DOMAIN bets : bets[b].round \in DOMAIN rounds
  /\ betStore \subseteq DOMAIN bets
  /\ credits \in Seq(Seq(Credit))
  /\ Len(credits) = Len(bets)
  /\ failedCredits \subseteq [betId : DOMAIN bets, payoutCents : Nat]

SettlementEvent == [type : {"bet_won", "bet_lost"}, bet : DOMAIN bets]

EventTypeOK ==
  /\ tickEvents \subseteq SettlementEvent
  /\ published \subseteq SettlementEvent
  /\ flushImmediate \in BOOLEAN

\* The shape of the state, with the bounds of the two command queues that the
\* handlers enforce, and references that point to objects that exist.
TypeOK == LoopTypeOK /\ QueueTypeOK /\ BetTypeOK /\ EventTypeOK

-----------------------------------------------------------------------------
(* Money *)

\* A winning bet never pays more than its stake times its round's crash point:
\* cashouts and auto-cashouts are paid at the multiplier of the tick before,
\* also on the tick that crashes the round (onTick, Round.tick, Bet.cashout).
PayoutWithinCrashPoint ==
  \A b \in DOMAIN bets :
    bets[b].status = "WON" =>
      bets[b].payoutCents <= Payout(bets[b].amountCents, rounds[bets[b].round].crashPoint)

\* Each won bet has had exactly one credit call, for its payout, and no other
\* bet has had any, however often players cash out and auto-cashouts trigger
\* (CashoutUseCase.execute, Bet.cashout).
CreditedExactlyOnce ==
  \A b \in DOMAIN bets :
    IF bets[b].status = "WON"
    THEN Len(credits[b]) = 1 /\ credits[b][1].cents = bets[b].payoutCents
    ELSE credits[b] = <<>>

\* The wins whose credit the wallet did not take.
Owed == {b \in DOMAIN bets : \E i \in DOMAIN credits[b] : credits[b][i].outcome = "failed"}

\* A win is on record as failed exactly when the wallet did not take its credit,
\* with the payout that is still owed, even when the answer comes rounds later
\* or after stop() (CashoutUseCase.persistFailure).
FailedCreditsOnRecord ==
  failedCredits = {[betId |-> b, payoutCents |-> bets[b].payoutCents] : b \in Owed}

\* No debit comes back to a round that takes no bets any more, even when the
\* loop is stopped meanwhile: the compensating refund of PlaceBetUseCase is
\* never needed in this loop.
NoRefundNeeded == \A b \in DOMAIN bets : bets[b].status # "PENDING"

\* While the loop runs, a key is debited at most once per round, although the
\* same command may be queued twice (findByIdempotencyKey, InMemoryBetStore).
OneBetPerKeyAndRound ==
  Running =>
    \A b, c \in DOMAIN bets :
      /\ bets[b].round = current /\ bets[c].round = current
      /\ bets[b].idempotencyKey = bets[c].idempotencyKey
      => b = c

(* Rounds and the event loop *)

\* A crashed round has settled all of its bets, and a settled bet belongs to a
\* round that has flown (Round.tick, BetCollection.settleAll).
CrashSettlesAll ==
  \A b \in DOMAIN bets :
    /\ rounds[bets[b].round].state = "CRASHED" => bets[b].status \in {"WON", "LOST"}
    /\ bets[b].status = "LOST" => rounds[bets[b].round].state = "CRASHED"
    /\ bets[b].status = "WON" => rounds[bets[b].round].state \in {"RUNNING", "CRASHED"}

\* While the loop runs exactly one thing will drive it on: a timeout, the
\* interval, or an async function that waits for a port.  With none the engine
\* would stall; with two, two phases of a round would run at the same time.
OneDriver ==
  Running =>
    \/ timer # "none" /\ ~ticking /\ task.at = "idle"
    \/ timer = "none" /\ ticking /\ task.at = "idle"
    \/ timer = "none" /\ ~ticking /\ task.at # "idle"

\* A queued cashout is always for the round that is flying: none survives the
\* tick that crashes its round (onCashout, onTick).
CashoutQueueFresh ==
  Running /\ cashoutQueue # <<>> =>
    /\ CurrentState = "RUNNING"
    /\ \A i \in DOMAIN cashoutQueue : cashoutQueue[i].roundId = current

(* Answers and events *)

\* The commands of the captured queue that have no answer yet.
InTask ==
  CASE task.at = "debit" -> Len(task.todo)
    [] task.at = "reply" -> Len(task.todo) - 1
    [] OTHER -> 0

\* No place-bet command is lost or answered twice: those without an answer are
\* in the queue or in the hands of endBettingPhase.
CommandsConserved == received = answered + Len(placeBetQueue) + InTask

\* The settlement of a bet is announced, once, as what it was: the buffer
\* never holds an event that has been published, and together they hold one
\* event for each settled bet and none for others.
SettlementAnnouncedOnce ==
  /\ tickEvents \cap published = {}
  /\ tickEvents \cup published =
       SettlementEvents({b \in DOMAIN bets : bets[b].status = "WON"},
                        {b \in DOMAIN bets : bets[b].status = "LOST"})

-----------------------------------------------------------------------------
(* Action properties *)

SettledBetsKept ==
  \A b \in DOMAIN bets : bets[b].status \in {"WON", "LOST"} => bets'[b] = bets[b]

\* A settled bet never changes again: not its status, nor what it pays.
SettledBetsFinal == [][SettledBetsKept]_bets

StateRank == [BETTING |-> 1, RUNNING |-> 2, CRASHED |-> 3]

RoundsForward ==
  /\ \A r \in DOMAIN rounds :
       /\ rounds'[r].crashPoint = rounds[r].crashPoint
       /\ StateRank[rounds'[r].state] >= StateRank[rounds[r].state]
       /\ rounds'[r].currentMultiplier >= rounds[r].currentMultiplier
  /\ Len(rounds') > Len(rounds) /\ current # 0 => CurrentState = "CRASHED"

\* A round keeps its crash point and its state only moves forward; the current
\* round is replaced by a new one only after it has crashed.
RoundsAdvance == [][RoundsForward]_rounds

(* Liveness, under the fairness that CommandPath states *)

\* A round that opens for betting crashes, unless the loop ends.
BettingEndsInCrash ==
  (Running /\ CurrentState = "BETTING") ~> (~Running \/ CurrentState = "CRASHED")

-----------------------------------------------------------------------------
(* The ledger that the loop keeps *)

\* What has become of the payout of bet b.  A failed credit that is not on record
\* for what the bet pays is none of the states that a ledger knows.
CreditState(b) ==
  IF credits[b] = <<>> THEN "none"
  ELSE [pending |-> "due", paid |-> "paid",
        failed |-> IF [betId |-> b, payoutCents |-> bets[b].payoutCents] \in failedCredits
                   THEN "owed" ELSE "forgotten"][credits[b][1].outcome]

End == [PENDING |-> "refunded", ACTIVE |-> "open", WON |-> "won", LOST |-> "lost"]

LedgerOf ==
  [b \in DOMAIN bets |->
     [player |-> bets[b].playerId, stake |-> bets[b].amountCents,
      end |-> End[bets[b].status], payout |-> bets[b].payoutCents, credit |-> CreditState(b)]]

Ledger == INSTANCE BetLedger WITH
  Bettors <- {cmd.playerId : cmd \in PlaceBetCommands},
  Stakes <- {cmd.amountCents : cmd \in PlaceBetCommands},
  ledger <- LedgerOf,
  announced <- {event.bet : event \in published}

\* With all its timers, queues, buffers and awaits the loop is a ledger: a bet is
\* entered with the stake of a command, ends once, is due one payout if it won,
\* which ends up paid or on record, and is announced only after it has ended.
KeepsLedger == Ledger!Spec

-----------------------------------------------------------------------------
(* What the documentation promises and this code does not keep *)

\* asyncapi.yaml: a bet's idempotency key prevents a duplicate placement on
\* retries.  The store forgets a key with its round (clearRound), so that a
\* retry which arrives in the next betting window is debited again.
DebitedOncePerKey ==
  Running =>
    \A b, c \in DOMAIN bets :
      bets[b].idempotencyKey = bets[c].idempotencyKey => b = c

\* asyncapi.yaml: bet.lost carries the multiplier at which the round crashed,
\* next to the id of the round.  onPlaceBet does not look at the round that a
\* command names, so that a delayed one places its bet in a later round; the
\* bet keeps the id that it came with and is lost at that other round's end.
LostWithItsRound ==
  \A b \in DOMAIN bets :
    bets[b].status = "LOST" /\ bets[b].roundId # 0 =>
      rounds[bets[b].roundId].currentMultiplier = rounds[bets[b].round].currentMultiplier

\* asyncapi.yaml: round.crashed reveals the crash point so that clients can
\* verify it.  onTick publishes the multiplier of the tick that crashed.
CrashPointRevealed ==
  \A r \in DOMAIN rounds :
    rounds[r].state = "CRASHED" => rounds[r].currentMultiplier = rounds[r].crashPoint
=============================================================================
