# Verification of the crash game: engine and realtime server

TLA+ models of the services under `src/apps`, the TLC runs that check them and
the TLAPS proofs about them. Paths without a prefix are below
`src/apps/game-engine/src/`; `realtime:` stands for
`src/apps/realtime-server/src/`.

## 1. The system

A crash game is played in rounds. Players bet while a round is open; then a
multiplier grows until the round crashes at a point fixed beforehand. Who has
cashed out by then is paid the stake times the multiplier, everybody else loses.

| Part | State it keeps | Operations |
| --- | --- | --- |
| Round loop, `engine/application/RunGameLoopUseCase.ts` | `running`, two command queues, `previousRoundId`, the event buffer, `flushScheduled`, the current round | `start`, `stop`, `drain`, the handlers `onPlaceBet` and `onCashout`, `startNewRound`, `endBettingPhase`, `onTick`, `flushEvents` |
| Round and bets, `engine/domain/` | state, multiplier, crash point; per bet its status and payout | `openBetting`, `startFlying`, `tick`, `addBet`, `cashout`, `settleAll` |
| Betting use cases, `betting/application/` | none | `PlaceBetUseCase.execute` (limits, duplicate check, debit, refund), `CashoutUseCase.execute` (credit, record of a failure) |
| Bet store, `betting/infrastructure/InMemoryBetStore.ts` | bets by id, by round, by idempotency key | `add`, `findByIdempotencyKey`, `clearRound` |
| Timers, `engine/infrastructure/` | one timeout, one interval, immediates | `schedule`, `clear`, `start`, `stop` |
| Event buffer and publisher | two arrays that are reused, pending promises | `push`, `swap`, `publishBatch`, `track` |
| Randomness, `rng/` | a hash chain of seeds and a position in it | `next`, rotation, `calculateCrashPoint`, `verify` |
| Wallet adapters | balances (SoftSwiss stub only) | `debit`, `credit` |
| Realtime server, `realtime:` | connections, player index, sockets, rate windows | upgrade, open, message, close, broadcast, forwarding |

The engine and the realtime server talk over NATS: commands one way, events the
other. Inside the engine everything is one Node process without threads. What
makes it hard is what may happen *between* two pieces of synchronous code: the
loop waits for the wallet and the publisher with bets in its hands, credits come
back rounds later, flushes are deferred, and the shutdown hook may run at any
of these points. `PROJECT.json` lists these hazards at their lines.

What each part owes:

* **Money.** A winning bet is paid once, what its round's rules allow; a losing
  or unfinished one is not; an amount the wallet did not take stays on record.
* **Rounds.** Phases follow one another, never two at a time and never none; a
  crash settles every bet; a settled bet is final.
* **Commands.** A command is answered once, to the player who sent it, or lost on
  the way; a repeated one is debited once; no bet is placed behind a player's back.
* **Events.** A settlement is announced once, as what it was, and eventually.
* **Order.** A client sees the game in the order in which it happened, and every
  bet's end; what is published directly and what waits in a buffer do not overtake
  each other.
* **Seeds.** The seed of a round is secret until it has crashed, is used once, and
  hashes to that of the round before; the crash point drawn from it never favours
  a player on average.
* **Limits.** Neither rate limiter lets more through than it should, or refuses a
  player who is slow enough.
* **Connections.** A player has one connection, the index and the map agree, a
  replaced socket's late close harms nobody; commands are taken from, and events
  delivered to, the right socket.

## 2. Modules

| Module | Content |
| --- | --- |
| `GameLoop` | the round loop with everything it owns or calls synchronously, its properties |
| `MCGameLoop` | instances of it for TLC |
| `GameLoopProofs` | lemmas on sequences and on the steps; type correctness; the invariant of the loop and the theorems on money, answers, events, keys, rounds and failed credits; the refinement: the loop is such a ledger |
| `BetLedger` | abstract: what the engine owes for each bet that it takes |
| `EventLog` | abstract: what happens is published once and in order |
| `EventBuffer` | the double buffer, the flushes, the promises of batches, `drain()`; implements `EventLog` |
| `EventBufferProofs` | type correctness, the flush that is always under way, the refinement |
| `Connections` | the realtime server's sockets, store, registry, forwarding and delivery, and its shutdown |
| `MCConnections` | symmetry for TLC |
| `ConnectionsProofs` | the invariant of store, index and registry, and the theorems on commands and events |
| `SeedChain` | the chain of seeds, its rotation, and what is published of it |
| `ProvablyFair` | extends `SeedChain` with the crash point that is drawn from a round's seed |
| `ProvablyFairProofs` | secrecy, the links of the chain, the turn of each seed, and no seed twice; the range and the fairness of the crash point |
| `BetSet` | abstract: a set of bets in which no key occurs twice |
| `BetStore` | the three maps of the bet store; implements `BetSet` |
| `BetStoreProofs` | the agreement of the maps, the refinement |
| `Wallet` | extends `GameLoop` with the balances of the SoftSwiss adapter: the steps that reach the wallet |
| `CommandPath`, `MCCommandPath` | extends `Wallet` with the way of a command over NATS to the engine and of its answer back, and with both shutdowns |
| `CommandPathProofs` | sums and counts; the theorems on balances, answers and bets; the composition runs the loop |
| `EventFeed`, `MCEventFeed` | extends `GameLoop` with the way of its events over NATS to a socket |
| `EventFeedProofs` | the order of what is under way and what a socket is shown, that no bet's end is missing from it; the composition runs the loop |
| `ClientMessages` | what becomes of a player's messages: the token bucket of a connection, the routing, the checks, the rate windows |
| `ClientMessagesProofs` | what the bucket and the windows let through and what they refuse |

`GameLoop` looks at the buffer as the set of settlement events in it, and takes
from it that a flush empties it; `EventBuffer` opens the buffer, and takes from
the loop when ticks, crashes and stops may come. `Connections` stands by itself:
the engine is seen there as events that arrive and commands that leave.
`Wallet`, `CommandPath` and `EventFeed` are compositions: their actions conjoin those
of `GameLoop` with what the same step does to the balances, or publishes. The first
two belong together: `Wallet` has the steps that reach the wallet, `CommandPath` takes
them up, adds the messages, and states what a behaviour of the whole is. `BetStore`
justifies that `GameLoop` takes the bet store for a set of bets, and `BetLedger` says in
a page what all of the loop comes to.

### How `GameLoop` corresponds to the code

**Steps.** One action is one macrotask: a callback of a timer, of the interval
or of NATS, the shutdown hook, or the rest of an async function after one of its
awaits. `Start` and `NewRoundTimer` run `startNewRound` to its first await
(`BeginRound`), `RoundAnnounced` the rest of it. `EndBettingPhase` takes the
queue; from then on `task` says at which await the async function is suspended:
`debit` (in the wallet), `reply` (publishing the answer), `starting` (publishing
`round_started`). `PlaceNext` is the stretch from the head of its loop to the
next await. `OnTick` is one call of `onTick`, which has no await.

**Awaits.** Every await of a port is a point where any other macrotask may run.
For the adapters that are wired today this is more than can happen, as they
settle their promises in microtasks; the ports promise no such thing. What holds
in the model holds for both.

**Cashouts of a tick.** The code walks through the queue and calls
`CashoutUseCase.execute` for each command. The model takes the *set* of bets that
some queued command cashes out. This is the same: every call pays at the same
multiplier (that of the previous tick), and a second call for a bet fails since
the bet is `WON`. Auto-cashouts follow in the same way. `credits` counts the
calls of `walletGateway.credit` per bet.

**Data.** A `Round` object is its position in `rounds`, which also stands for its
random id, a `Bet` its position in `bets`; 0 is null, and in a command an id that
no round has. Multipliers and crash points are natural numbers of hundredths; the
exponential of the elapsed time is any non-decreasing choice from `Multipliers`.
Payouts round down, as `Money.multiplyByMultiplier` does. Rejections are counted,
their reasons are not told apart. Ticks and `round_crashed` are not kept among
the events, settlements are.

**Events.** `tickEvents` holds the settlement events in the buffer, `published`
those handed to `publishBatch`. A pending immediate runs before the next interval
callback, as Node's event loop has it (timers, then the check phase); it may
still be pending when the process is asked to stop.

**Stopping.** `Stop` is the shutdown hook, `stop()` and `drain()`. Callbacks that
were under way go on afterwards (`Listening`), the handlers stay subscribed. The hook
may run twice: Nest's `enableShutdownHooks` and the handler in `main.ts:25`, which
calls `app.close()`, both hear the signal. A second `Stop` finds nothing to clear but
what the callbacks in between have left. `engine = "dead"` is a process that has ended
on an unhandled rejection.

### How `BetLedger` corresponds to the loop

The ledger has an entry per bet: player, stake, end, payout, and what has become of
the payout. `Take` is a debit that comes back (`DebitOk`), `SettleAndAnnounce` a tick or a
flush, `CreditAnswered` a credit that comes back; every other step of the loop leaves
the ledger alone. `LedgerOf` is the refinement mapping. A failed credit without the
record that names its bet and amount maps to a state the ledger does not know.

### How `EventBuffer` corresponds to the code

An event is its number in the order of the pushes. JavaScript hands out arrays by
reference, so `batches` keeps *which* array `swap()` returned; what it holds is
looked up in `tickEvents.arrays` when the code reads it. That is the copy at the
start of `publishBatch` (`Returned`), and once more the handler of a rejection
(`BatchFailed`). The array the buffer starts with (0) belongs to neither slot of
the pool. `TickFlies` and `TickCrashes` are the two ends of `onTick`, with `k` events
pushed before; `Immediate` is a callback of `setImmediate`, which neither a crash
nor `stop()` takes back and which may therefore run after them. `BatchPublished`
and `BatchFailed` are the ends of a batch's promise, at any later time and in any
order. `Shutdown` is the shutdown hook up to its await: `stop()` and the first half
of `drain()`; `Drained` is the rest. The tracker's other promises, of rejections of
bets, are left out.

`EventLog` knows only what waits (`queued`) and what has been sent. The refinement
mapping takes the content of the array in use for `queued`.

### How `Connections` corresponds to the code

A request, the socket it is upgraded to and the random `ConnectionId` of that
socket have one name. `socket` says how far it has got: `verifying` is the await of
`authGateway.verify`, `upgraded` the time until Bun calls `open`, `closing` the time
between `ws.close()` and the close callback. Whether Bun runs that callback inside
`ws.close()` is not documented, so the model has both: `OpenJoins` either takes the
old socket off the registry at once, or leaves that to a later `SocketClosed`.
Every connection in the store is `JOINED` (`joinRoom` comes before `add`, and
`disconnect` before `remove`), so the store keeps no state per connection.
`UpgradeRefused` is every answer other than an upgrade. `Forward` is the message
callback for a command that passes the checks and the rate limits; an error answer
changes none of the state here. `Receivers` computes who gets an event: the
sockets subscribed to the topic, or the one found through the index. `Shutdown` goes
from await to await of `shutdown()` in `main.ts`; a second signal, which runs it
again beside the first, is left out. The slow-consumer branches of
`WebSocketSenderAdapter` are left out since nothing ever sets `bufferedAmount`.

### How `SeedChain` and `ProvablyFair` correspond to the code

A seed is its terminal seed (a number, for fresh random bytes) and how often that
has been hashed. So the hash is ideal: without collisions, and only to be computed
forwards. `StartNewRound` takes the next seed and publishes its hash, `Crash`
publishes the seed; `published` is all that a player could know, `revealed` what
`verify` is applied to.

In `ProvablyFair` the HMAC of a seed is any number below `E`, which is 2^52 in the
code. `CrashPoint` is the formula of `calculateCrashPoint` in hundredths, with exact
integers; JavaScript rounds `100 * e - h` and the quotient to 53 bits each. The house
edge is a whole percentage, although the configuration also takes fractions.

### How `BetStore` corresponds to the code

The three maps are functions, `Set` and `Delete` what `Map.set` and `Map.delete` do.
`Execute` is `PlaceBetUseCase.execute` up to its await, `Debited` and `DebitRefused`
the rest; `ClearRound` may come in between, as `startNewRound` and `stop()` do not
wait. One command is worked off at a time, as `endBettingPhase` does. Keys are never
empty and ids of bets are fresh: the schema and `randomUUID` see to it.

### How `Wallet` corresponds to the code

`SoftSwissWalletAdapter` changes the balance *inside* the call and settles its
promise afterwards. So `DebitCalled` is the step of the loop that reaches the
wallet and takes the money, `DebitReturns` the one after the await;
`TickCredits` adds the payouts of all bets that a tick cashes out. The simulated
adapter takes every credit.

### How `CommandPath` corresponds to the code

**A command.** `ForwardBet` is `ForwardBetCommandUseCase.execute` (`Forwards` are its
checks) and `NatsPublisher`: what it forwards goes to `toEngine`. There NATS may lose it
(`CommandLost`), the engine may not hear it (`CommandDropped`: its subscriptions have
ended, the loop has never run or is dead, or `placeBetSchema` refuses the key, which
`Hears` says), or it arrives (`CommandArrives`, the handler `onPlaceBet`). The same command
may be sent again at any time, also after an answer.

**An answer.** Each step of the loop that answers publishes to `toRealtime` what
`NatsEventPublisher` does: the rejection of a stale command (`OpensRound`), the answer to a
command that needs no debit (`ImmediateAnswer`, which for a repeated command is
`bet_placed` of the bet it placed before), and the answer after one (`DebitAnswer`).
`bet_placed` carries the snapshot of the bet and goes to the player of that bet (`Placed`),
`bet_rejected` to the player of the command.
`Publish` is `safePublish`: on a drained connection it throws, and the answer is lost.
`AnswerDelivered` and `AnswerLost` are the other end.

**Channels.** Each server has one connection, so what is not lost arrives in order.
Core NATS keeps nothing: at most once.

**Shutdowns.** The realtime server unsubscribes first (`RealtimeCloses`) and drains
later (`RealtimeDrains`), and in between still forwards commands. The engine drains NATS
in the hook of `MessagingModule` and stops the loop in that of `AppModule`; as the hooks
run twice, the second run skips a drain that is under way, so that `LoopStops` may
come during the drain, after it, or both.

`awaiting`, `told` and `missed` are history, for the properties: the commands of a player that
may still be answered, and the bets whose `bet_placed` was delivered or lost.
`KeysAssumption` says that players do not share idempotency keys: the store looks a key up
without its player, so a repeated command is answered to the one who sent it only as long as
they do not. `RoundsAssumption` is the
bound that bets come in every round. In the last round the model holds a command
back until `endBettingPhase` is through, since there is no later round that would reject
it.

### How `EventFeed` corresponds to the code

Each action conjoins one of `GameLoop` with what that step publishes, directly
(`Publish`) or through the buffer (`FlushBatch`), in the order of the code; where
that is the order of a set of bets, in any order. `wire` is the way from the
engine to the realtime server: one connection publishes, one subscribes, so what
arrives is in order (FIFO), but core NATS may lose any of it (`Lost`). `Deliver` is
a subscriber's callback up to `ws.send`; `Valid` stands for the schemas that an event
must pass, `Encodes` for the serializer's refusal of a number that an `int32` field does not hold: a
fraction of a millisecond, or a stake or payout above `MaxInt32`. `AmountsAssumption` says
that what the largest bet pays at any crash point fits. The code does not check that:
`gameConfigSchema` does not limit the largest bet, and the crash point has no limit that
would matter here; beyond it the client is not told of a win. A client is one socket that opens and closes at any time; `seen` keeps
what is broadcast to it (`BroadcastTypes`), `missed` says whether it has lost something.
An event of a bet carries the round id of the bet's command (`toBetSnapshot`), and
a repeated command brings a second `bet_placed` of the same bet.
On shutdown NATS is drained (`NatsDrains`, from `open` over `draining` to `drained`) before or
while the loop is stopped (`LoopStopped`), as in `CommandPath`.

### How `ClientMessages` corresponds to the code

One player, whose connections each get a `TokenBucket`, while the windows of
`InMemoryRateLimiter` belong to the player and an action. `Refilled` and `Consume` are
`refill` and `consume`; tokens are counted in parts, so that a refill is a whole
number, where the code adds fractions. Time is `Date.now()`, taken not to go
backwards. A message that passes the bucket is routed. One that is turned down before the
limiter is asked (`Invalid`) leaves the windows alone; one that the limiter allows is
counted, even if its player then turns out not to have joined. `routed` and `allowed` keep
when something was let through, for the properties only. Messages answered before the
bucket is asked change nothing.

### Mutations

**Plausible bugs.** An operator `Bad...` or `Worse...` is not part of the model: it is the
operator of the same name with a bug that could be in that code (a guard that
was dropped, a timer that is not armed, a buffer that is not emptied). Put in the
place of the right one it makes the property that watches it fail; `PROJECT.json`
lists the pairs.

### Fairness

`PathSpec` adds to `PathSafety`: what NATS does not lose arrives (an answer too, unless
the realtime server has given up its subscriptions); the timers fire and the promises of
the publisher and the wallet settle; the pending immediate runs. The steps that take the
loop from phase to phase share one weak fairness condition (`Drives`), since only one of them
is ever pending (`OneDriver`). `GrowingTick` is strongly fair, because an interval keeps
calling `onTick` with a multiplier that has grown (`Math.exp` of the time), while each
pending flush disables the tick for a moment; a tick that repeats the multiplier would
be allowed but not owed. Nothing is assumed of players, or of the operators, who may
stop either process or not. Loss is not fair and not limited.

In `EventBuffer` immediates run, the promises of batches settle one way or the
other, and `drain()` goes on when those it waits for have; nothing is assumed of the
ticks or of the shutdown. `Connections` has no liveness property and no fairness:
a client may go silent at any time. The other modules have safety properties only.

## 3. Runs

In the runs of the loop: two players (one in `feed`), two rounds. `MaxRounds`, `BettingRounds`
(clients send bets up to this round) and `MaxCommands` are the bounds of the instances. Two rounds are
enough for what a round can leave to the next one: bets in the store, queued
commands, credits under way, a scheduled flush. Deadlock is not checked: after
the last round, or after a stop, the model rightly has nothing more to do.

| Run | Question | Bounds |
| --- | --- | --- |
| `loop` | money, settlement, phases, answers and events, and the refinement of `BetLedger`, with cashouts of any player for any bet of any round | 3 commands (sent repeatedly or not) of 3 kinds: valid, with a target and for a stray round id, below the minimum; queues of 2 and 1; multipliers 1.33 and 1.70, crash points 1.00 and 1.50; a wallet that accepts, refuses or rejects |
| `commands` | is every cent, command and bet accounted for between the players and the engine, is every command answered or lost, does every betting window end in a crash | 2 commands at any time of 3 kinds: valid, valid with a target, with a key that is no UUID; bets in both rounds; one crash point 1.50 with multipliers 1.00 and 1.70; queues of 2 and 1; a balance of 20, which does not cover two stakes of the first player; players cash out their own active bets (the others, which a tick passes over, are in `loop`) |
| `events` | is the double buffer an ordered log, and does `drain()` end with nothing left | 5 events, up to 2 per tick, 2 immediates at a time |
| `connections` | do store, index and registry agree, and do commands and events go to the right player | 3 requests, 2 players, 2 operators, limit 2, one command, one event |
| `seeds` | are seeds secret, linked and fresh, and is the crash point fair | 3 chains of 3 seeds, `E` = 256, six house edges, eight targets |
| `betstore` | do the three maps describe one set of bets | 3 keys, 2 round ids, 5 bets |
| `messages` | do the limiters let through what they should and no more | 5 units of time, windows of 2 with 2 calls, a bucket of 3, half a token per unit, 5 messages per connection |
| `feed` | does a client see the game in order, and each bet's end | 2 commands of one player in one betting window, the second round only opens (that is the event `BetsShown` waits for), one tick per multiplier, at most one event under way when the loop steps (`MaxBacklog` 1), one loss per socket, ticks of whole milliseconds |
| `retry`, `reveal`, `ticks`, `stale` | statements of the documentation that this code does not keep | as small as shows it |

Two commands show in `commands` what there is to show between two commands: of one
player or two, the one sent again or not, in one window or across the end of a round,
with a shutdown between them. The wallet refuses the second stake of 15 when the first
has been lost or is still open, and takes it when it has won. A third command adds
length, not a new pair.

Five events fill both slots of the pool and come back to the first one while an
older batch is still pending; two immediates are one from before a crash or a
flush and one from after it. Three requests are a connection, its replacement
while it closes, and a socket of another player or operator. One command and one
event are enough, as the properties look at each as it is published or delivered,
in any state the rest has reached. The names of requests and of players are
interchangeable, so `connections` uses symmetry; it checks no liveness. No other run
checks deadlock either: every model ends, with its process or at a bound.

The stakes (10 and 15 cents), the target 1.50 and the multiplier 1.33 are such
that payouts round down, the target is met before, at or after the crash point,
and a crash point is crossed without being hit.

Three chains of three seeds have a first, a middle and a last seed each, and a
rotation before which there has been one. The numbers below 256 show the fraction
1 / 256 as the code shows 2^-52; the extreme house edges make every number, or
only 0, an instant crash. Five bets for three keys let a key come back after its
round has been cleared. Five units of time hold two windows and a part of a third,
and a bucket that is emptied, partly refilled and emptied again.

With `MaxBacklog` 1 the loop goes on while an event is under way, which may then
arrive at a later socket, be lost, or be overtaken by a shutdown. The wire is FIFO
and the client does not act on what it sees, so a longer backlog changes when
something is seen, not what or in which order. One player is enough: what is
broadcast is the same for everyone, and the answers for one player are the subject of
`commands`. Ticks of fractions of a millisecond,
which the serializer drops, are left to `ticks`: without them a client sees a part
of the same sequence.

### What the failing runs show

* `retry`: `asyncapi.yaml` says the idempotency key prevents duplicate placement
  on retries. The key is forgotten with the bets of its round. A command sent
  again in the next betting window is debited again. Within one round it is not,
  which `OneBetPerKeyAndRound` states and the proofs establish.
* `reveal`: `round.crashed` carries the multiplier of the tick that crashed, not
  the crash point. A client that recomputes the crash point from the revealed
  seed, as `ProvablyFair.verify` does, gets another number.
* `ticks`: a tick carries the difference of two `performance.now()`, which is hardly
  ever an integer, in a field of type `int32`. The serializer throws, the
  subscriber logs and drops the tick, so clients see rounds without ticks.

* `stale`: `onPlaceBet` does not compare the round id of a command with the current
  round, as `onCashout` does. A bet that was delayed into the next betting window is
  placed there, and `bet.lost` announces it with the id of the one and the multiplier of
  the other round, where `asyncapi.yaml:412` has the multiplier at which the round
  crashed.

### Other disagreements met while modelling

The models contain these behaviours; no run is spent on them.

* `RunGameLoopUseCase.ts:159` calls `clearRound` the cleanup of the previous round.
  The store files a bet under the round id that the *command* carried, which nobody
  compares with the round that takes the bet (see `stale`). The cleanup misses such a
  bet, and its key is not free again.
* `PlaceBetUseCase.ts:40`: if `walletGateway.debit` rejects, nothing catches it; the
  process ends (`DebitThrows`) and the commands in hand are never answered, where
  `asyncapi.yaml:187` promises an answer. A `stop()` leaves the queued ones without an
  answer too. `CashoutUseCase` does expect such rejections.
* `TickEventBuffer.ts:12` asks every consumer to read the array before it yields.
  `flushEvents` reads it again in the handler of a rejected `publishBatch`
  (`BatchFailed`), when a later swap may have emptied it. `NatsEventPublisher` never
  rejects, so it takes another adapter of the port.
* `realtime:transport/upgradeHandler.ts:38` compares the limit before the token is
  verified and does not count upgrades under way, so that several pass a limit with
  room for one (`realtime-server-architecture.md:932`).
* `realtime:main.ts:189`: the shutdown stops the server last, where the same document
  (`:852`) wants no new sockets first.
* `messaging/messaging.module.ts:25` begins to drain NATS before the loop is stopped;
  `game-engine-tasks.md:120` has it the other way round. The loop goes on with its bets
  meanwhile, and what it publishes after the drain is lost (`missed` in `CommandPath`).
* `schemas.ts:12` takes a UUID for an idempotency key. The realtime server forwards any
  string and tells the client nothing; the engine drops the command with a line in its log,
  where `realtime-server-architecture.md:279` promises `bet.placed` or `bet.rejected`.
* `ProvablyFair.ts:27` announces an instant crash with about `houseEdgePercent`. The
  share is 1 / floor(100 / p): for every p above 50 each round crashes at once.
* `ProvablyFair.ts:32` says the house edge is applied by instant crashes only. The
  formula takes about one percent of its own, also with a house edge of 0.

## 4. Proofs

### The loop

TLC looks at two rounds and two players; the theorems hold for every number of
rounds and commands, every set of commands, multipliers and crash points, and
every queue size. They rest on the named assumptions of `GameLoop`: commands are
well formed (what the zod schemas let through), multipliers and crash points are
at least 1.00, limits are natural numbers, a wallet accepts, refuses or rejects.
The bounds (`MaxRounds` and so on) are arbitrary natural numbers.

No property but the type invariant is inductive by itself. The argument:

1. `TypeCorrect`: `TypeOK` is inductive. Its parts are proved separately, each
   from the step lemmas at the beginning of `GameLoopProofs`.
2. `LoopInvariant`: `RoundsInv` (only the newest round may not have crashed, it is
   the current one unless there is none, and it has not passed its crash point),
   `PhaseInv` (whatever is pending, a timeout, the interval, a suspended function,
   fits the phase of the newest round and is alone, *also after a stop*),
   `OneDriver` and `CashoutQueueFresh`, together. This is the heart: it is why a
   debit that returns finds its round in `BETTING`, why a tick meets no suspended
   function, and why the queue of cashouts is empty when a round begins.
3. `BetsInvariant`: with it, step by step, `NoRefundNeeded`, `CrashSettlesAll`,
   `CreditedExactlyOnce`, and `PaidInv`, that a won bet was paid at a multiplier
   not above its round's crash point. `PayoutBounded` follows since payouts grow
   with the multiplier.
4. `FailedCreditsRecorded` needs 3: that there is one credit per win tells which
   record an answer leads to.
5. `KeyDebitedOncePerRound` strengthens its property by `StoreInv`: the bets of the
   current round are in the store, and the command whose debit is under way has a
   key the store does not know.
6. `NoCommandLost`, `AnnouncedOnce`, `SettledFinal`, `RoundsOnlyAdvance` follow from
   1 and 2 with lemmas on what a step may do to bets and events.
7. `LoopImplementsLedger` maps every step to one of `BetLedger` or a stutter. It takes two
   more invariants: `CommandsGenuine`, that what is queued and what `endBettingPhase`
   holds are commands that were received (so that a stake in the ledger is one that a
   player named), and `OpenUnpaid`, that an open bet pays nothing yet. `DebitTakes` is the
   step that takes a bet, `TickSettlesLedger` the tick, where 3 says that each bet it
   settles was open and has no credit yet, and `CreditAnswersLedger` the credit that comes
   back, where 3 says there is one, for what the bet pays.

Every property of the run `loop` is proved, the refinement included. The
strengthenings (`RoundsInv`, `PhaseInv`, `PaidInv`, `StoreInv`) were checked with TLC
on instances of the loop before they were proved.

### The event buffer

For any number of events, of events per tick and of immediates. `TypeOK` holds the
one fact about arrays that matters: the buffer is array 0 or the active slot, so
that the slot the next swap empties is never the one whose content has not been
published. With it `FlushUnderWay` is inductive, and `DrainedComplete` needs it
(`NoEventStranded`, `DrainLosesNothing`): after the shutdown the buffer stays empty because
no tick pushes any more, and the promises that `drain()` waits for are all there are. `ImplementsLog` shows the
refinement step by step: a tick that flies is `Happen`, a tick that crashes, an
immediate and the shutdown are `Publish`, and the rest leave the log unchanged.
It covers the safety part of `EventLog`; its fairness, that what has happened *is*
published, is checked by the run `events` (`PublishedInOrder`).

### The connections

For any sets of requests, players and operators and any limit. The invariant is
`TypeOK`, `IndexInverse`, `StoreMatchesSockets` and `RegistryMatchesSockets` together with
one more conjunct, that every open socket names this server's operator; none of
them holds by itself across `OpenJoins`. Given these, `CommandsFromCurrentOnly`
follows at `Forward`, and `DeliveredRight` at `EventArrives`: through the index for an
event for one player, from the registry for a broadcast.

### The seeds

For chains of any length and any number of them. `SeedInv` says which seed of the
chain the current one is, `PublishedInv` that what is published is of used-up
chains or has been hashed at least as often as the current seed, and more often
while its round is open. From these `SecretUntilCrash`. `ChainVerifies` adds
`LinkInv`, that the current seed is linked to the last one revealed; `NoSeedTwice`
adds `OrderInv`, that seeds are used in the order of their chains and, within a
chain, of falling numbers of hashes. `SeedsUsedInTurn` says which seed each round has: the
n-th round the n-th of all seeds, chain by chain (`SeedsInTurn`), so that none is skipped
either; `RoundsPlayed` counts the rounds against `currentIndex` and the chains used up. It
rests on `SeedInv` and on `TypeCorrect`, that `TypeOK` is inductive. These theorems are about `SeedChain`;
`ProvablyFair` adds variables to it and leaves its steps as they are
(`DrawnRoundsFollowChain`), so they hold there too.

### The crash point

For any number of hash values (2^52 in the code, 256 in the run), any house edge up to
100 and any targets above 1.00. What makes the formula hard to reason about is that it
divides, twice, and rounds down. `DivFacts` and `QuotientAtLeast` say of a quotient what its
product says; from them `CrashPointRange` gives `CrashPointsValid`. For `HouseNeverLoses` the
numbers `h` that reach a target are counted: `WinningNumbers` shows that they lie in an
interval whose length `WinsBounded` compares with the stake. The theorem needs no invariant:
it is about the formula, in every state in which it may be applied.

### The bet store

For any keys, round ids and number of bets. `MapsAgree` becomes inductive with
`DebitInv`: the key of the command whose debit is under way is not in the map of
keys. That is where one command at a time matters, and why a round cleared during
the debit does no harm. `StoreImplementsBetSet` follows step by step: `Debited` is
`Place`, `ClearRound` is `ClearRound`, and the rest leave the set unchanged.

### The client messages

For any capacity, refill, window, number of commands and clock, across reconnects and
cleanups. Neither limiter keeps what its guarantee is about, the messages let through
before, so the invariant relates what it does keep to that history.

* `BucketInv`: for each message routed on this connection, the tokens left and those taken
  since (`Demand`) are covered by a full bucket and what was refilled since (`Supply`); and
  unless the bucket is full, for some message they are *equal*, since nothing overflowed
  after it. The first half gives `BucketNeverOverdrawn`, the second the half of
  `RefusalsHaveCause` that is about the bucket.
* `WindowInv`: a set of positions, where a window was opened, such that windows do not
  overlap, every command lies less than `MaxPerWindow` after such a position, and the entry of
  the map, if there is one, describes the last window. So a run of `2 * MaxPerWindow`
  commands reaches across a whole window: `BurstsBounded`. A refusal means that the last
  window is full and has not ended: the other half of `RefusalsHaveCause`.

### The command path and the wallet

For any commands, balances, queue sizes and numbers of rounds, whatever NATS loses and
however the two servers shut down. `PathRunsLoop` shows first that the composition is
still the loop: its steps are steps of `GameLoop` or leave that alone, for which the wallet
answers anything at any time. So `LoopInv`, `BetsInv` and `CommandsGenuine` hold here, and with
them every theorem about the loop.

* `AnswersAddUp` and `BetsAnnounced`. The invariant is `PathInv`: `AnswersAccounted`, `BetsKnown`, and
  that answers under way go to players. A player's commands are counted where they are: on
  the way, queued, in the hands of `endBettingPhase` and not yet answered (`Unanswered`); a
  step moves a command from one of these to the next, or turns it into an answer, and there
  is one lemma for each such move. `PlaceNextAnswers` is the hard one: the
  stretch to the next await answers the command at the head, unless it is debited.
  That the answer goes to the one who asked needs of the bets that each has the key and the
  player of a command (`BetsOfCommands`): with `KeysAssumption`, a known key is of a bet of
  the same player (`RepeatOfOwnBet`).
* `MoneyConserved`. The invariant is `BalanceInv`: `BalancesAccounted` with balances that are
  natural numbers. `BalanceDebitCalled` moves a stake from the balance to `InHand`,
  `BalanceDebitReturns` from there into the sum of the stakes, `BalanceTick` adds to the balance
  what `MoneyTick` adds to the winnings. It needs of the loop that a debit that comes
  back meets a betting phase and credits nothing (`NoCredits`), and that a tick starts a credit
  for exactly the bets that it settles as won.

Balances are sums over bets and answers are numbers of elements of a sequence, so both need
induction over finite sets. The induction theorems of the library take an operator as a
parameter, which the provers cannot instantiate; `NaturalsInduct` and `SetInduct` derive what
is needed from well-foundedness, with a *set* in the place of the operator. On them rest
`SumRemove` (the sum without one element), `SumPlus`, `SumSame`, `SumZero`, and, for sequences,
`CountConcat` and what follows from it.

### The event feed

For any commands, multipliers and number of rounds, whatever is lost and however the socket
comes and goes. `FeedRunsLoop` shows first that the steps of the feed are steps of the loop or
leave it alone, so that the theorems about the loop hold here.

`FeedInOrder`. What the socket has been shown, what is on the wire and what is buffered are
three parts of one stream, and `SeenInOrder` is about the first only. The invariant is `PipeInv`:
every pair of events of the stream is in order (`Sorted` in each part, `Before` between parts),
and nothing in it is ahead of the loop (`Reached`: `Reach` is the rank that the newest round has
come to). Then what a step adds fits behind what is there if it is not behind `Reach`
(`NewsFits`), and a step's own events fit each other (`NewsOrdered`). Two things can go wrong:

* An event published directly overtakes those in the buffer. `BufferInv` excludes it: the buffer
  holds something only while a round is running, and what is published directly then is an
  answer to a command, which may stray.
* A tick announces a bet of an earlier round. `FreshInv` excludes it: of the bets that were
  placed under the id of their own round, the store holds only those of the newest round. A bet
  that carries the id of another round is announced under that one; these are the events
  that `Stray` leaves out.

Stretches of the stream are joined, shortened and emptied by the steps; `SortedConcat`,
`SortedTail` and `RangeConcat` say once what becomes of their order. The events of the bets of a
tick come in any order (`ForEach`), which the order of the stream allows.

`BetsAreShown`. `BetsShown` speaks of two points of what one socket saw, and its proof of every
point of the stream. `ShownInv` is the invariant beside `PipeInv`:

* Behind what a socket has seen, `Complete`: when a round begins on the wire, the events
  before that tell all of the bets of the round before it (`Led`, `Past`), and until the
  connection is drained the whole stream tells all of the bets of each round whose beginning it
  holds (`Whole`). A drained connection sends nothing more, so that of it only `Led` is left.
* The same holds for a socket that has not joined yet and has seen nothing (`Complete({})`): the
  one that joins next starts from there. That an event leaves the wire unseen does no harm,
  since it is about no bet of a round whose beginning is still to come (the second conjunct of
  `Ordered`).
* When a socket has seen the beginning of a round, `SeenPast`: it has been told all of the
  round before, if it saw that one begin too.

A step keeps this if its events tell what it does to bets (`Tells`): `TickEnds` shows it of the
ticks, and `OpenKeepsBets` that nothing is settled by the step that opens a round, when the buffer
is empty. That a bet's end is told once is the third conjunct of `Ordered`, and that nothing about a
bet is refused by `safeParse` or the encoder is `BetsAreSent`: a stake is at least the smallest bet
and at most the largest, and a win pays at least its stake and at most what the largest bet
pays at a crash point (`StakeInv`, `PayoutGrows`), which fits its field (`AmountsFit`). For this `FeedAssumption` says that the smallest
bet is not 0, which `gameConfigSchema` demands (`MIN_BET_CENTS`, `positive()`).

### What is only model-checked

* Liveness: `EveryCommandAnswered`, `BettingEndsInCrash`, `DrainEnds`, and of `PublishedInOrder`
  the fairness. Fairness and ENABLED are beyond the provers at hand.
* The four statements that do not hold: a counterexample is all they need.

## 5. Not modelled

* `platform-api` is a skeleton, `docs-hosted` and `docs-md` are documents.
* Parsing of the configuration, encoding and decoding of messages, logging.
* `GetRoundStateUseCase` reads and changes nothing.
* Time, except in `ClientMessages`: only the order of events is modelled, not delays.
* Of the wallet adapters, EveryMatrix and DirectCrypto: they answer success and keep
  nothing.
* A second signal to the realtime server, which runs its `shutdown()` again beside the
  first.
* Runs with amounts beyond 32 bits: `Encodes` drops the events of such bets, and
  `AmountsAssumption` leaves those configurations out (see the hazards).
* What a stop owes to bets in flight: the model contains those behaviours, but no
  document says what should become of them (see the hazards).

## 6. Plan

In this order:

1. `GameLoop` with its proofs. Done.
2. `EventLog` and `EventBuffer` with their proofs. Done.
3. `Connections` with its proofs. Done.
4. `BetSet` and `BetStore` with their proofs. Done.
5. `SeedChain` with its proofs, `ProvablyFair`. Done.
6. `ClientMessages` and `Wallet` with their proofs; `EventFeed`. Done.
7. `BetLedger`, which `GameLoop` implements, with its proof. Done.
8. `CommandPath`: commands and answers between players and engine, with loss, retries
   and both shutdowns, with its proofs. Done.
9. Proofs about `EventFeed`: `SeenInOrder` and `BetsShown`. Done.
