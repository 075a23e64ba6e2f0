----------------------------- MODULE EventFeed -----------------------------
(***************************************************************************)
(* The events of a round on their way from the loop to one client: the     *)
(* engine's NatsEventPublisher, NATS, and the realtime server's            *)
(* NatsSubscriber, wiring and ProtobufSerializer, up to a joined socket.   *)
(* It is composed with GameLoop: each step of the loop publishes what it   *)
(* publishes in the code, directly or through the tick event buffer.       *)
(*                                                                         *)
(* One NATS connection publishes and one subscribes, so that what is not   *)
(* lost arrives in order.  Core NATS keeps nothing: an event is lost when  *)
(* the subscriber is away, or when the engine has drained its connection,  *)
(* in which case safePublish logs the error and goes on.  The drain ends   *)
(* the engine's subscriptions first and its publishing last.               *)
(*                                                                         *)
(* An operator Bad... before an operator of the same name is not part of   *)
(* the model: it is that operator with a plausible bug.                    *)
(***************************************************************************)
EXTENDS GameLoop, FiniteSets, Functions

CONSTANTS
  Elapsed,           \* what performance.now() - startTime may be
  MaxInt32,          \* 2^31 - 1, the largest number of an int32 field
  MaxBacklog         \* bound: the loop waits while more than this is under way

\* gameConfigSchema refuses a smallest bet of nothing.
ASSUME FeedAssumption ==
  /\ Elapsed \subseteq {"whole", "fraction"} /\ MaxBacklog \in Nat
  /\ MinBetCents > 0

\* The largest bet fits its field, and so does what it pays at each crash point.
ASSUME AmountsAssumption ==
  /\ MaxInt32 \in Nat /\ MaxBetCents <= MaxInt32
  /\ \A c \in CrashPoints : Payout(MaxBetCents, c) <= MaxInt32

VARIABLES
  buffer,     \* TickEventBuffer, with the ticks that GameLoop leaves out
  nats,       \* the engine's NATS connection: "open", "draining" or "drained"
  wire,       \* what has been published and has not arrived
  joined,     \* the client has a joined socket
  seen,       \* what that socket has been sent of the events for everyone
  missed      \* an event was lost while it was joined

feedVars == <<buffer, nats, wire, joined, seen, missed>>

-----------------------------------------------------------------------------
\* An event.  Its amount is the multiplier of a tick or a crash, "elapsed" its
\* elapsedMs, by whether it is an integer.
Event(type, r, b) == [type |-> type, round |-> r, bet |-> b, multiplier |-> 0, elapsed |-> "none"]
TickEvent(r, m, e) == [Event("tick", r, 0) EXCEPT !.multiplier = m, !.elapsed = e]
CrashEvent(r, m) == [Event("round_crashed", r, 0) EXCEPT !.multiplier = m]

\* toBetSnapshot: a bet appears under the round id that its command carried.
BetEvent(type, b) == Event(type, bets'[b].roundId, b)

\* The events that the wiring of the realtime server broadcasts; it sends the
\* two others to one player.
BroadcastTypes ==
  {"round_new", "round_betting", "round_started", "round_crashed", "tick",
   "bet_placed", "bet_won", "bet_lost"}

\* One event for each of these bets, in some order.
ForEach(type, betSet) ==
  {[i \in DOMAIN s |-> BetEvent(type, s[i])] : s \in Bijection(1..Cardinality(betSet), betSet)}

Rejections(n) == [i \in 1..n |-> Event("bet_rejected", 0, 0)]

\* What endBettingPhase publishes on its way to the next await: the start of the
\* round, or the answer to a command that needs no debit.  One that was sent
\* before is answered with the bet that it placed then.
Progress ==
  IF rounds' # rounds THEN <<Event("round_started", task'.round, 0)>>
  ELSE IF answered' = answered THEN <<>>
  ELSE IF IsRepeat(Head(task'.todo))
  THEN <<BetEvent("bet_placed", BetWithKey(Head(task'.todo).idempotencyKey))>>
  ELSE Rejections(1)

\* safePublish, for each of the events.
Publish(events) ==
  /\ wire' = IF nats # "drained" THEN wire \o events ELSE wire
  /\ missed' = (missed \/ (joined /\ nats = "drained" /\ events # <<>>))
  /\ UNCHANGED <<nats, joined, seen>>

\* flushEvents and publishBatch.
BadFlushBatch(events) == Publish(SubSeq(events, 1, Len(events) - 1)) /\ buffer' = <<>>
FlushBatch(events) == Publish(events) /\ buffer' = <<>>

-----------------------------------------------------------------------------
(* startNewRound up to its first await. *)
OpensRound ==
  /\ Start \/ NewRoundTimer
  /\ Publish(Append(Rejections(answered' - answered), Event("round_new", current', 0)))
  /\ UNCHANGED buffer

(* startNewRound goes on. *)
OpensBetting ==
  /\ RoundAnnounced
  /\ Publish(<<Event("round_betting", task.round, 0)>>)
  /\ UNCHANGED buffer

(* endBettingPhase up to its next await.  Bound: the last round only opens. *)
PlacesBets ==
  /\ current # MaxRounds
  /\ EndBettingPhase \/ ReplyPublished
  /\ Publish(Progress)
  /\ UNCHANGED buffer

(* The debit comes back and the answer is published. *)
AnswersBet ==
  /\ \/ DebitOk /\ Publish(<<BetEvent("bet_placed", Len(bets'))>>)
     \/ DebitRefused /\ Publish(Rejections(1))
  /\ UNCHANGED buffer

(* onTick below the crash point.  Bound: a tick for each multiplier. *)
FeedTickFlies(m) ==
  /\ TickFlies(m)
  /\ m > rounds[current].currentMultiplier
  /\ \E wins \in ForEach("bet_won", Won(m)) : \E e \in Elapsed :
       buffer' = Append(buffer \o wins, TickEvent(current, m, e))
  /\ UNCHANGED <<nats, wire, joined, seen, missed>>

(* onTick that crashes: the flush is part of it. *)
BadFeedTickCrashes(m) ==
  /\ TickCrashes(m)
  /\ \E wins \in ForEach("bet_won", Won(m)) : \E losses \in ForEach("bet_lost", LostAtCrash(Won(m))) :
       FlushBatch(buffer \o losses \o wins \o <<CrashEvent(current, m)>>)
FeedTickCrashes(m) ==
  /\ TickCrashes(m)
  /\ \E wins \in ForEach("bet_won", Won(m)) : \E losses \in ForEach("bet_lost", LostAtCrash(Won(m))) :
       FlushBatch(buffer \o wins \o <<CrashEvent(current, m)>> \o losses)

(* The setImmediate of scheduleFlush. *)
FeedFlush == FlushEvents /\ FlushBatch(buffer)

(* A command arrives; subscriptions end when the drain begins. *)
CommandArrives ==
  /\ nats = "open"
  /\ \/ \E cmd \in PlaceBetCommands : PlaceBetReceived(cmd)
     \/ \E cmd \in CashoutCommands : CashoutReceived(cmd)
  /\ Publish(Rejections(answered' - answered))
  /\ UNCHANGED buffer

(* The interval starts. *)
StartsTicking == RoundStarted /\ UNCHANGED feedVars

(* A credit comes back; a failed one is published as credit_failed. *)
CreditComesBack ==
  /\ CreditReturned
  /\ Publish(IF failedCredits' # failedCredits THEN <<Event("credit_failed", 0, 0)>> ELSE <<>>)
  /\ UNCHANGED buffer

(* Shutdown: Nest runs the hook of the imported MessagingModule first, which *)
(* drains the connection unless that is under way, then that of AppModule.   *)
(* As the hooks run twice, the loop may be stopped while the drain goes on.  *)
NatsDrains ==
  /\ \/ nats = "open" /\ Running /\ nats' = "draining"
     \/ nats = "draining" /\ nats' = "drained"
  /\ UNCHANGED <<vars, buffer, wire, joined, seen, missed>>

LoopStopped == nats # "open" /\ Stop /\ FlushBatch(buffer)

-----------------------------------------------------------------------------
\* safeParse: what the schemas ask of the numbers of an event
Valid(event) ==
  /\ event.type \in {"tick", "round_crashed"} => event.multiplier > 0
  /\ event.bet # 0 => bets[event.bet].amountCents > 0
  /\ event.type = "bet_won" => bets[event.bet].payoutCents > 0

\* encodeServerMessage throws for a number that is not an integer, or too large,
\* in a field of type int32; safeSubscribe catches it.
Encodes(event) ==
  /\ event.elapsed # "fraction"
  /\ event.bet # 0 => bets[event.bet].amountCents <= MaxInt32
  /\ event.type = "bet_won" => bets[event.bet].payoutCents <= MaxInt32

(* An event arrives at the realtime server and is sent to the socket. *)
Deliver ==
  /\ wire # <<>>
  /\ wire' = Tail(wire)
  /\ seen' = IF joined /\ Valid(Head(wire)) /\ Encodes(Head(wire))
                /\ Head(wire).type \in BroadcastTypes
             THEN Append(seen, Head(wire)) ELSE seen
  /\ UNCHANGED <<vars, buffer, nats, joined, missed>>

(* An event is lost on the way.  Bound: one for each socket. *)
Lost ==
  /\ wire # <<>> /\ joined /\ ~missed
  /\ wire' = Tail(wire)
  /\ missed' = TRUE
  /\ UNCHANGED <<vars, buffer, nats, joined, seen>>

(* The client's socket opens, or closes. *)
SocketChanges ==
  /\ joined' = ~joined
  /\ seen' = <<>>
  /\ missed' = FALSE
  /\ UNCHANGED <<vars, buffer, nats, wire>>

-----------------------------------------------------------------------------
FeedInit ==
  /\ Init
  /\ buffer = <<>> /\ nats = "open" /\ wire = <<>>
  /\ joined = FALSE /\ seen = <<>> /\ missed = FALSE

LoopStep ==
  \/ OpensRound
  \/ OpensBetting
  \/ PlacesBets
  \/ AnswersBet
  \/ \E m \in Multipliers : FeedTickFlies(m) \/ FeedTickCrashes(m)
  \/ FeedFlush
  \/ CommandArrives
  \/ StartsTicking
  \/ CreditComesBack
  \/ LoopStopped

FeedNext ==
  \/ Len(wire) <= MaxBacklog /\ LoopStep
  \/ NatsDrains
  \/ Deliver
  \/ Lost
  \/ SocketChanges

FeedSpec == FeedInit /\ [][FeedNext]_<<vars, feedVars>>

-----------------------------------------------------------------------------
\* The place of an event in the game of a round.
Rank == [round_new |-> 1, round_betting |-> 2, bet_placed |-> 3, round_started |-> 4,
         tick |-> 5, bet_won |-> 5, round_crashed |-> 6, bet_lost |-> 7]

\* The event of a bet that a delayed command placed in a later round than the
\* one it names: it appears under the round it names.
Stray(e) == e.bet # 0 /\ bets[e.bet].roundId # bets[e.bet].round

\* e may come before f.
InOrder(e, f) ==
  /\ e.round <= f.round
  /\ e.round = f.round => Rank[e.type] <= Rank[f.type]
  /\ e.round = f.round /\ e.type = "tick" /\ f.type = "tick" => e.multiplier <= f.multiplier

\* A client sees the rounds one after the other and each in the order of the
\* game, with growing multipliers, whatever is lost on the way, although some
\* events are published directly and others through a buffer: no bet is won or
\* placed after the crash, and none is lost before it (onTick, flushEvents).
SeenInOrder ==
  \A i, j \in DOMAIN seen :
    i < j /\ ~Stray(seen[i]) /\ ~Stray(seen[j]) => InOrder(seen[i], seen[j])

Times(type, b) == Cardinality({i \in DOMAIN seen : seen[i].type = type /\ seen[i].bet = b})

\* A client that saw a round begin and the next one begin, and lost nothing,
\* has been told of each bet of the round that it was placed, again when its
\* command was repeated, and once how it ended, as the engine has settled it.
BetsShown ==
  \A r \in 1..MaxRounds - 1 :
    /\ ~missed
    /\ \E i, j \in DOMAIN seen : seen[i] = Event("round_new", r, 0) /\ seen[j] = Event("round_new", r + 1, 0)
    => \A b \in DOMAIN bets : bets[b].round = r =>
         /\ Times("bet_placed", b) >= 1
         /\ Times("bet_won", b) = IF bets[b].status = "WON" THEN 1 ELSE 0
         /\ Times("bet_lost", b) = IF bets[b].status = "LOST" THEN 1 ELSE 0

-----------------------------------------------------------------------------
(* What the documentation promises and this code does not keep *)

TickSent ==
  /\ joined /\ ~missed' /\ wire # <<>> /\ wire' = Tail(wire) /\ Head(wire).type = "tick"
  => seen' = Append(seen, Head(wire))

\* realtime-server-architecture.md: ticks are broadcast to connected clients.
\* A tick that reaches the realtime server is sent to a joined client.
TicksShown == [][TickSent]_<<wire, seen>>
=============================================================================
