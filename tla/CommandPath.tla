---------------------------- MODULE CommandPath ----------------------------
(***************************************************************************)
(* Place-bet commands on their way from the players through the realtime   *)
(* server and NATS to the engine, and the answers on their way back:       *)
(* ForwardBetCommandUseCase and NatsPublisher, the engine's                *)
(* NatsEventSubscriber, the loop with its wallet (module Wallet),          *)
(* NatsEventPublisher, and the realtime server's NatsSubscriber; and the   *)
(* shutdown of both processes.                                             *)
(*                                                                         *)
(* Each of the two servers has one NATS connection, so that what is not    *)
(* lost arrives in order.  Core NATS keeps nothing.  A drain ends the      *)
(* subscriptions first and publishing last.                                *)
(*                                                                         *)
(* An operator Bad... before an operator of the same name is not part of   *)
(* the model: it is that operator with a plausible bug.                    *)
(***************************************************************************)
EXTENDS Wallet, FiniteSets

CONSTANT Uuids      \* the idempotency keys that the engine's schema takes

\* A key is made up by a client for itself.  Bound: bets in every round.
ASSUME KeysAssumption ==
  \A c, d \in PlaceBetCommands : c.idempotencyKey = d.idempotencyKey => c.playerId = d.playerId
ASSUME RoundsAssumption == BettingRounds = MaxRounds

VARIABLES
  realtime,     \* "up", "unsubscribed" by close(), or "drained"
  nats,         \* the engine's NATS connection: "open", "draining" or "drained"
  toEngine,     \* the commands under way
  toRealtime,   \* the answers under way
  sent,         \* number of commands forwarded
  awaiting,     \* per player, the commands forwarded whose answer may still come
  told,         \* the bets whose bet_placed has been delivered
  missed        \* those whose bet_placed was lost

linkVars == <<realtime, nats, toEngine, toRealtime, sent, awaiting, told, missed>>
pathVars == <<vars, walletVars, linkVars>>

-----------------------------------------------------------------------------
\* bet_placed goes to the player of the bet, bet_rejected to that of the command.
Placed(b) == [to |-> bets'[b].playerId, bet |-> b]
Rejected(cmd) == [to |-> cmd.playerId, bet |-> 0]

CountOf(p, answers) == Cardinality({i \in DOMAIN answers : answers[i].to = p})
BetsIn(answers) == {answers[i].bet : i \in DOMAIN answers} \ {0}

\* safePublish for each of the answers.  A connection that has been drained
\* throws; the error is logged and the loop goes on.
Publish(answers) ==
  /\ \/ nats # "drained" /\ toRealtime' = toRealtime \o answers /\ UNCHANGED <<awaiting, missed>>
     \/ /\ nats = "drained"
        /\ awaiting' = [p \in Players |-> awaiting[p] - CountOf(p, answers)]
        /\ missed' = missed \cup (BetsIn(answers) \ told)
        /\ UNCHANGED toRealtime
  /\ UNCHANGED <<realtime, nats, sent, told>>

-----------------------------------------------------------------------------
\* ForwardBetCommandUseCase.execute for a joined player within its rate limit
Forwards(cmd) == cmd.amountCents > 0 /\ (cmd.autoCashout # 0 => cmd.autoCashout > 100)

(* A player bets, or sends a bet again.  Bounds: MaxCommands, and no client *)
(* knows the id of a round that is still to come.                           *)
ForwardBet(cmd) ==
  /\ sent < MaxCommands /\ cmd.roundId <= Len(rounds)
  /\ Forwards(cmd)
  /\ realtime # "drained"       \* else PUBLISH_FAILED
  /\ sent' = sent + 1
  /\ toEngine' = Append(toEngine, cmd)
  /\ awaiting' = [awaiting EXCEPT ![cmd.playerId] = @ + 1]
  /\ UNCHANGED <<vars, walletVars, realtime, nats, toRealtime, told, missed>>

\* The engine hears the command: it listens, and placeBetSchema takes the key.
Hears(cmd) == nats = "open" /\ Listening /\ cmd.idempotencyKey \in Uuids

Forget(cmd) ==
  /\ toEngine' = Tail(toEngine)
  /\ awaiting' = [awaiting EXCEPT ![cmd.playerId] = @ - 1]
  /\ UNCHANGED <<vars, walletVars, realtime, nats, toRealtime, sent, told, missed>>

(* A command reaches the engine, which may reject it at once.  Bound: in    *)
(* the last round it waits for endBettingPhase, as no next round would      *)
(* reject it.                                                               *)
CommandArrives ==
  /\ toEngine # <<>>
  /\ Hears(Head(toEngine))
  /\ current = MaxRounds => task.at \notin {"debit", "reply"}
  /\ PlaceBetReceived(Head(toEngine))
  /\ toEngine' = Tail(toEngine)
  /\ Publish(IF answered' = answered THEN <<>> ELSE <<Rejected(Head(toEngine))>>)
  /\ UNCHANGED walletVars

(* A command that the engine does not hear, or whose key fails the schema, *)
(* is dropped with a line in the log.                                      *)
CommandDropped ==
  toEngine # <<>> /\ ~Hears(Head(toEngine)) /\ Forget(Head(toEngine))

(* NATS loses a command. *)
CommandLost == toEngine # <<>> /\ Forget(Head(toEngine))

-----------------------------------------------------------------------------
(* startNewRound up to its first await rejects the stale commands. *)
OpensRound ==
  /\ Start \/ NewRoundTimer
  /\ Publish(IF answered' = answered THEN <<>>
             ELSE [i \in DOMAIN placeBetQueue |-> Rejected(placeBetQueue[i])])
  /\ UNCHANGED <<walletVars, toEngine>>

\* What endBettingPhase answers on its way to the next await.  A command that
\* was sent before is answered with the bet that it placed then.
BadImmediateAnswer ==
  IF answered' = answered \/ IsRepeat(Head(task'.todo)) THEN <<>>
  ELSE <<Rejected(Head(task'.todo))>>
ImmediateAnswer ==
  IF answered' = answered THEN <<>>
  ELSE LET cmd == Head(task'.todo)
       IN IF IsRepeat(cmd)
          THEN <<Placed(BetWithKey(cmd.idempotencyKey))>>
          ELSE <<Rejected(cmd)>>

(* endBettingPhase up to its next await. *)
PlacesBets ==
  /\ DebitCalled \/ NoDebitCalled
  /\ Publish(ImmediateAnswer)
  /\ UNCHANGED toEngine

\* The answer when the debit comes back; a bet that the round did not take is
\* rejected.
BadDebitAnswer(cmd) ==
  IF Running /\ Len(bets') > Len(bets) THEN Placed(Len(bets')) ELSE Rejected(cmd)
DebitAnswer(cmd) ==
  IF Len(bets') > Len(bets) /\ bets'[Len(bets')].status = "ACTIVE"
  THEN Placed(Len(bets')) ELSE Rejected(cmd)

(* The debit comes back. *)
AnswersBet ==
  /\ DebitReturns
  /\ Publish(<<DebitAnswer(Head(task.todo))>>)
  /\ UNCHANGED toEngine

(* A cashout arrives while the engine is connected.  Bound: of one's own    *)
(* active bet; the run of GameLoop has all others.                          *)
CashoutArrives ==
  /\ nats = "open"
  /\ \E cmd \in CashoutCommands :
       /\ bets[cmd.betId].playerId = cmd.playerId /\ bets[cmd.betId].status = "ACTIVE"
       /\ CashoutReceived(cmd)
  /\ UNCHANGED <<walletVars, linkVars>>

(* The steps of the loop that answer no command. *)
Announces == RoundAnnounced /\ UNCHANGED <<walletVars, linkVars>>
StartsTicking == RoundStarted /\ UNCHANGED <<walletVars, linkVars>>
Flushes == FlushEvents /\ UNCHANGED <<walletVars, linkVars>>
Ticking == TickCredits /\ UNCHANGED linkVars
CreditComesBack == CreditResolves /\ UNCHANGED linkVars

-----------------------------------------------------------------------------
(* An answer is delivered. *)
AnswerDelivered ==
  /\ realtime = "up" /\ toRealtime # <<>>
  /\ toRealtime' = Tail(toRealtime)
  /\ awaiting' = [awaiting EXCEPT ![Head(toRealtime).to] = @ - 1]
  /\ told' = told \cup BetsIn(<<Head(toRealtime)>>)
  /\ missed' = missed \ told'
  /\ UNCHANGED <<vars, walletVars, realtime, nats, toEngine, sent>>

(* It is lost: on the way, because the player's socket is gone, or because *)
(* the realtime server has given up its subscriptions.                     *)
AnswerLost ==
  /\ toRealtime # <<>>
  /\ toRealtime' = Tail(toRealtime)
  /\ awaiting' = [awaiting EXCEPT ![Head(toRealtime).to] = @ - 1]
  /\ missed' = missed \cup (BetsIn(<<Head(toRealtime)>>) \ told)
  /\ UNCHANGED <<vars, walletVars, realtime, nats, toEngine, sent, told>>

(* The realtime server's shutdown: subscriber.close(), while sockets stay   *)
(* open and commands are still forwarded; then nc.drain().                  *)
RealtimeCloses ==
  /\ realtime = "up" /\ realtime' = "unsubscribed"
  /\ UNCHANGED <<vars, walletVars, nats, toEngine, toRealtime, sent, awaiting, told, missed>>

RealtimeDrains ==
  /\ realtime = "unsubscribed" /\ realtime' = "drained"
  /\ UNCHANGED <<vars, walletVars, nats, toEngine, toRealtime, sent, awaiting, told, missed>>

(* The engine's shutdown: Nest runs the hook of the imported                *)
(* MessagingModule first, which drains NATS unless that is under way, then  *)
(* that of AppModule.  As a signal runs the hooks twice, the loop may be    *)
(* stopped while the drain goes on, and again after it.                     *)
EngineDrains ==
  /\ \/ nats = "open" /\ Running /\ nats' = "draining"
     \/ nats = "draining" /\ nats' = "drained"
  /\ UNCHANGED <<vars, walletVars, realtime, toEngine, toRealtime, sent, awaiting, told, missed>>

LoopStops == nats # "open" /\ Stop /\ UNCHANGED <<walletVars, linkVars>>

-----------------------------------------------------------------------------
PathInit ==
  /\ WalletInit
  /\ realtime = "up" /\ nats = "open"
  /\ toEngine = <<>> /\ toRealtime = <<>> /\ sent = 0
  /\ awaiting = [p \in Players |-> 0]
  /\ told = {} /\ missed = {}

PathNext ==
  \/ \E cmd \in PlaceBetCommands : ForwardBet(cmd)
  \/ CommandArrives
  \/ CommandDropped
  \/ CommandLost
  \/ OpensRound
  \/ Announces
  \/ PlacesBets
  \/ AnswersBet
  \/ StartsTicking
  \/ Ticking
  \/ CashoutArrives
  \/ CreditComesBack
  \/ Flushes
  \/ AnswerDelivered
  \/ AnswerLost
  \/ RealtimeCloses
  \/ RealtimeDrains
  \/ EngineDrains
  \/ LoopStops

PathSafety == PathInit /\ [][PathNext]_pathVars

\* The timeouts and the awaits that take the loop from one tick to another: one
\* of them at a time is pending (OneDriver).
Drives == OpensRound \/ Announces \/ PlacesBets \/ AnswersBet \/ StartsTicking

\* NATS delivers what it does not lose, timers fire, promises of the publisher
\* and the wallet settle, and time passes between ticks.  Players and operators
\* owe nothing.
PathFairness ==
  /\ WF_pathVars(CommandArrives \/ CommandDropped)
  /\ WF_pathVars(AnswerDelivered \/ (realtime # "up" /\ AnswerLost))
  /\ WF_pathVars(Drives)
  /\ WF_pathVars(Flushes)
  /\ SF_pathVars(GrowingTick /\ Ticking)

PathSpec == PathSafety /\ PathFairness

-----------------------------------------------------------------------------
\* The commands that endBettingPhase has taken and not yet answered.
Unanswered ==
  CASE task.at = "debit" -> task.todo
    [] task.at = "reply" -> Tail(task.todo)
    [] OTHER -> <<>>

CommandsOf(p, cmds) == Cardinality({i \in DOMAIN cmds : cmds[i].playerId = p})

\* Each forwarded command has one answer: for every player, what the player may
\* still hear of is the commands and the answers under way, those in the queue
\* and those that endBettingPhase holds; so none is answered twice, answered to
\* someone else or forgotten, but by NATS, a schema or a shutdown.
AnswersAccounted ==
  \A p \in Players :
    awaiting[p] = CommandsOf(p, toEngine \o placeBetQueue \o Unanswered) + CountOf(p, toRealtime)

\* No bet is placed behind a player's back: each bet has been announced by
\* bet_placed, or that is under way, or it was lost after it had been published
\* or as the engine was shutting down.
BetsKnown == DOMAIN bets = told \cup missed \cup BetsIn(toRealtime)

\* Every forwarded command gets its answer or is lost, unless one of the two
\* processes shuts down.
EveryCommandAnswered ==
  \A p \in Players :
    awaiting[p] > 0 ~> (awaiting[p] = 0 \/ realtime # "up" \/ nats # "open")
=============================================================================
