--------------------------- MODULE GameLoopProofs ---------------------------
(***************************************************************************)
(* Safety theorems about GameLoop, for every value of its constants.       *)
(*                                                                         *)
(* First the lemmas about its operators and steps that other proofs cite:  *)
(* what a step does to the rounds, to the task and to the bets, element by *)
(* element; and type correctness.                                          *)
(*                                                                         *)
(* None of the other properties is inductive as it stands.  LoopInv says   *)
(* what the round loop looks like between two macrotasks; with it each step*)
(* is known to meet its round in the one phase it can meet it in, and the  *)
(* properties of the bets and of the events follow step by step.           *)
(*                                                                         *)
(* Then what clients are told: commands are answered once, settlements are *)
(* announced once and are final, a key is debited once per round, rounds   *)
(* move forward.  At the end GameLoop implements BetLedger: every step of  *)
(* the loop takes one bet, settles and announces some, hears of one        *)
(* credit, or leaves the ledger as it is.                                  *)
(***************************************************************************)
EXTENDS GameLoop, TLAPS

-----------------------------------------------------------------------------
(* Sequences *)

\* A function on 1..n is a sequence of length n.
LEMMA SeqOfFunction ==
  ASSUME NEW S, NEW n \in Nat, NEW g \in [1..n -> S]
  PROVE  g \in Seq(S) /\ Len(g) = n /\ DOMAIN g = 1..n
OBVIOUS

\* Replacing one element.
LEMMA SeqUpdate ==
  ASSUME NEW S, NEW f \in Seq(S), NEW r, NEW x, r \in DOMAIN f => x \in S
  PROVE  /\ [f EXCEPT ![r] = x] \in Seq(S)
         /\ Len([f EXCEPT ![r] = x]) = Len(f)
         /\ \A i \in DOMAIN f : [f EXCEPT ![r] = x][i] = IF i = r THEN x ELSE f[i]
<1> DEFINE g == [f EXCEPT ![r] = x]
<1>1. DOMAIN f = 1..Len(f) /\ Len(f) \in Nat
  OBVIOUS
<1>2. g = [i \in 1..Len(f) |-> IF i = r THEN x ELSE f[i]]
  BY <1>1
<1>3. \A i \in 1..Len(f) : g[i] \in S /\ g[i] = IF i = r THEN x ELSE f[i]
  BY <1>1, <1>2
<1>4. g \in [1..Len(f) -> S]
  BY <1>2, <1>3
<1> HIDE DEF g
<1>5. g \in Seq(S) /\ Len(g) = Len(f)
  BY <1>4, <1>1, SeqOfFunction
<1> QED
  BY <1>1, <1>3, <1>5 DEF g

\* Adding one element.
LEMMA SeqAppend ==
  ASSUME NEW S, NEW f \in Seq(S), NEW x \in S
  PROVE  /\ Append(f, x) \in Seq(S)
         /\ Len(Append(f, x)) = Len(f) + 1
         /\ \A i \in DOMAIN f : i \in DOMAIN Append(f, x) /\ Append(f, x)[i] = f[i]
         /\ Append(f, x)[Len(f) + 1] = x
         /\ DOMAIN Append(f, x) = DOMAIN f \cup {Len(f) + 1}
OBVIOUS

\* Taking the first element away.
LEMMA SeqTail ==
  ASSUME NEW S, NEW f \in Seq(S), f # <<>>
  PROVE  /\ Head(f) \in S
         /\ Tail(f) \in Seq(S)
         /\ Len(Tail(f)) = Len(f) - 1
         /\ Len(f) \in Nat /\ Len(f) > 0
OBVIOUS

-----------------------------------------------------------------------------
(* Rounds and bets *)

LEMMA StartFlyingRound ==
  ASSUME NEW x \in Round
  PROVE  /\ StartFlying(x) \in Round
         /\ StartFlying(x).state = "RUNNING"
         /\ StartFlying(x).currentMultiplier = x.currentMultiplier
         /\ StartFlying(x).crashPoint = x.crashPoint
BY DEF Round, StartFlying

LEMMA TickRound ==
  ASSUME NEW x \in Round, NEW m \in Multipliers
  PROVE  /\ Tick(x, m) \in Round
         /\ Tick(x, m).currentMultiplier = m
         /\ Tick(x, m).crashPoint = x.crashPoint
         /\ Tick(x, m).state = IF m >= x.crashPoint THEN "CRASHED" ELSE x.state
BY MultipliersAssumption DEF Round, Tick

LEMMA RoundNumbers ==
  ASSUME NEW x \in Round
  PROVE  /\ x.currentMultiplier \in Nat /\ x.crashPoint \in Nat
         /\ x.crashPoint >= 100 /\ x.currentMultiplier >= 100
         /\ x.state \in {"BETTING", "RUNNING", "CRASHED"}
BY MultipliersAssumption DEF Round

LEMMA PayoutNat ==
  ASSUME NEW a \in Nat, NEW m \in Nat
  PROVE  Payout(a, m) \in Nat
<1>1. a * m \in Nat
  OBVIOUS
<1> QED
  BY <1>1 DEF Payout

LEMMA CashoutBet ==
  ASSUME NEW x \in Bet, NEW m \in Nat
  PROVE  /\ Cashout(x, m) \in Bet
         /\ Cashout(x, m).status = "WON"
         /\ Cashout(x, m).cashoutMultiplier = m
         /\ Cashout(x, m).payoutCents = Payout(x.amountCents, m)
         /\ Cashout(x, m).amountCents = x.amountCents
         /\ Cashout(x, m).playerId = x.playerId
         /\ Cashout(x, m).round = x.round
         /\ Cashout(x, m).roundId = x.roundId
         /\ Cashout(x, m).idempotencyKey = x.idempotencyKey
<1>1. x.amountCents \in Nat
  BY DEF Bet
<1>2. Payout(x.amountCents, m) \in Nat
  BY <1>1, PayoutNat
<1> QED
  BY <1>2 DEF Cashout, Bet

LEMMA LoseBet ==
  ASSUME NEW x \in Bet
  PROVE  /\ Lose(x) \in Bet
         /\ Lose(x).status = "LOST"
         /\ Lose(x).amountCents = x.amountCents
         /\ Lose(x).playerId = x.playerId
         /\ Lose(x).round = x.round
         /\ Lose(x).roundId = x.roundId
         /\ Lose(x).idempotencyKey = x.idempotencyKey
BY DEF Lose, Bet

-----------------------------------------------------------------------------
(* What the steps do *)

\* The constant tuples of unchanged variables, expanded in most leaves.
LEMMA BeginRoundStep ==
  ASSUME LoopTypeOK, BeginRound
  PROVE  /\ rounds' \in Seq(Round) /\ Len(rounds) \in Nat
         /\ Len(rounds') = Len(rounds) + 1
         /\ DOMAIN rounds' = DOMAIN rounds \cup {Len(rounds) + 1}
         /\ \A r \in DOMAIN rounds : rounds'[r] = rounds[r]
         /\ rounds'[Len(rounds) + 1].state = "BETTING"
         /\ rounds'[Len(rounds) + 1].currentMultiplier = 100
         /\ current' = Len(rounds) + 1 /\ previousRoundId' = 0
         /\ task' \in Task
         /\ task'.at = "announcing" /\ task'.round = Len(rounds) + 1
<1>1. PICK c \in CrashPoints :
        rounds' = Append(rounds, [state |-> "BETTING", currentMultiplier |-> 100,
                                  crashPoint |-> c])
  BY DEF BeginRound
<1> DEFINE new == [state |-> "BETTING", currentMultiplier |-> 100, crashPoint |-> c]
<1>2. new \in Round /\ new.state = "BETTING" /\ new.currentMultiplier = 100
  BY DEF Round
<1>3. rounds \in Seq(Round) /\ Len(rounds) \in Nat
  BY DEF LoopTypeOK
<1>4. task' = [at |-> "announcing", todo |-> <<>>, round |-> Len(rounds) + 1]
      /\ current' = Len(rounds) + 1 /\ previousRoundId' = 0
  BY DEF BeginRound
<1>5. task' \in Task /\ task'.at = "announcing" /\ task'.round = Len(rounds) + 1
  BY <1>3, <1>4 DEF Task
<1> HIDE DEF new
<1>6. rounds' = Append(rounds, new)
  BY <1>1 DEF new
<1> QED
  BY <1>2, <1>3, <1>4, <1>5, <1>6, SeqAppend

LEMMA PlaceNextStep ==
  ASSUME LoopTypeOK, NEW todo \in Seq(PlaceBetCommand), NEW r \in DOMAIN rounds,
         PlaceNext(todo, r)
  PROVE  /\ rounds' \in Seq(Round) /\ Len(rounds') = Len(rounds)
         /\ DOMAIN rounds' = DOMAIN rounds
         /\ \A i \in DOMAIN rounds :
              rounds'[i] = IF todo = <<>> /\ i = r THEN StartFlying(rounds[i]) ELSE rounds[i]
         /\ todo = <<>> => rounds[r].state = "BETTING"
         /\ task' \in Task /\ task'.round = r
         /\ IF todo = <<>> THEN task'.at = "starting" /\ answered' = answered
            ELSE /\ task'.todo = todo
                 /\ \/ task'.at = "debit" /\ answered' = answered /\ NeedsDebit(Head(todo))
                    \/ task'.at = "reply" /\ answered' = answered + 1
<1>1. rounds \in Seq(Round) /\ DOMAIN rounds = 1..Len(rounds) /\ Len(rounds) \in Nat
  BY DEF LoopTypeOK
<1>2. r \in Nat
  BY <1>1
<1>3. CASE todo = <<>>
  <2>1. rounds' = [rounds EXCEPT ![r] = StartFlying(rounds[r])]
    BY <1>3 DEF PlaceNext
  <2>2. StartFlying(rounds[r]) \in Round
    BY <1>1, StartFlyingRound
  <2>3. rounds' \in Seq(Round) /\ Len(rounds') = Len(rounds)
        /\ \A i \in DOMAIN rounds :
             rounds'[i] = IF i = r THEN StartFlying(rounds[i]) ELSE rounds[i]
    BY <1>1, <2>1, <2>2, SeqUpdate
  <2>4. task' = [at |-> "starting", todo |-> <<>>, round |-> r] /\ answered' = answered
    BY <1>3 DEF PlaceNext
  <2>5. task' \in Task /\ task'.round = r /\ task'.at = "starting"
    BY <1>2, <2>4 DEF Task
  <2>6. rounds[r].state = "BETTING"
    BY <1>3 DEF PlaceNext
  <2> QED
    BY <1>1, <1>3, <2>3, <2>4, <2>5, <2>6
<1>4. CASE todo # <<>>
  <2>1. rounds' = rounds
    BY <1>4 DEF PlaceNext
  <2>2. \/ /\ task' = [at |-> "debit", todo |-> todo, round |-> r]
           /\ answered' = answered /\ NeedsDebit(Head(todo))
        \/ /\ task' = [at |-> "reply", todo |-> todo, round |-> r]
           /\ answered' = answered + 1
    BY <1>4 DEF PlaceNext
  <2>3. task' \in Task /\ task'.round = r /\ task'.todo = todo
        /\ \/ task'.at = "debit" /\ answered' = answered /\ NeedsDebit(Head(todo))
           \/ task'.at = "reply" /\ answered' = answered + 1
    BY <1>2, <2>2 DEF Task
  <2> QED
    BY <1>1, <1>4, <2>1, <2>3
<1> QED
  BY <1>3, <1>4

LEMMA IdleTask == Idle \in Task /\ Idle.at = "idle" /\ Idle.round = 0
BY DEF Idle, Task

\* The won bets of a tick are active bets of the current round.
LEMMA WonActive ==
  ASSUME NEW m
  PROVE  Won(m) \subseteq ActiveBets(current)
BY DEF Won, CashedOut, CashesOut, AutoCashedOut

LEMMA SettleStep ==
  ASSUME BetTypeOK, NEW won, NEW lost, NEW paidAt \in Nat, Settle(won, lost, paidAt),
         won \cap lost = {}
  PROVE  /\ bets' \in Seq(Bet) /\ Len(bets') = Len(bets) /\ DOMAIN bets' = DOMAIN bets
         /\ \A b \in DOMAIN bets :
              /\ b \in won => bets'[b] = Cashout(bets[b], paidAt)
              /\ b \in lost => bets'[b] = Lose(bets[b])
              /\ b \notin won \cup lost => bets'[b] = bets[b]
         /\ credits' \in Seq(Seq(Credit)) /\ Len(credits') = Len(credits)
         /\ DOMAIN credits' = DOMAIN credits /\ DOMAIN credits = DOMAIN bets
         /\ \A b \in DOMAIN bets :
              IF b \in won
              THEN credits'[b] = Append(credits[b], [cents |-> Payout(bets[b].amountCents, paidAt),
                                                     outcome |-> "pending"])
              ELSE credits'[b] = credits[b]
<1>1. /\ bets \in Seq(Bet) /\ DOMAIN bets = 1..Len(bets) /\ Len(bets) \in Nat
      /\ credits \in Seq(Seq(Credit)) /\ DOMAIN credits = DOMAIN bets /\ Len(credits) = Len(bets)
  BY DEF BetTypeOK
<1>2. ASSUME NEW b \in DOMAIN bets
      PROVE  /\ bets[b] \in Bet /\ Cashout(bets[b], paidAt) \in Bet /\ Lose(bets[b]) \in Bet
             /\ credits[b] \in Seq(Credit)
             /\ [cents |-> Payout(bets[b].amountCents, paidAt), outcome |-> "pending"] \in Credit
  <2>1. bets[b] \in Bet /\ credits[b] \in Seq(Credit)
    BY <1>1
  <2>2. Cashout(bets[b], paidAt) \in Bet /\ Lose(bets[b]) \in Bet
    BY <2>1, CashoutBet, LoseBet
  <2>3. bets[b].amountCents \in Nat
    BY <2>1 DEF Bet
  <2>4. Payout(bets[b].amountCents, paidAt) \in Nat
    BY <2>3, PayoutNat
  <2> QED
    BY <2>1, <2>2, <2>4 DEF Credit
<1>3. bets' = [b \in 1..Len(bets) |->
                 IF b \in won THEN Cashout(bets[b], paidAt)
                 ELSE IF b \in lost THEN Lose(bets[b]) ELSE bets[b]]
  BY <1>1 DEF Settle
<1>4. bets' \in [1..Len(bets) -> Bet]
  BY <1>1, <1>2, <1>3
<1>5. \A b \in DOMAIN bets :
        /\ b \in won => bets'[b] = Cashout(bets[b], paidAt)
        /\ b \in lost => bets'[b] = Lose(bets[b])
        /\ b \notin won \cup lost => bets'[b] = bets[b]
  BY <1>1, <1>3
<1>6. bets' \in Seq(Bet) /\ Len(bets') = Len(bets) /\ DOMAIN bets' = DOMAIN bets
  BY <1>1, <1>4, SeqOfFunction
<1> DEFINE paid(b) == Append(credits[b], [cents |-> Payout(bets[b].amountCents, paidAt),
                                          outcome |-> "pending"])
<1>7. credits' = [b \in 1..Len(bets) |-> IF b \in won THEN paid(b) ELSE credits[b]]
  BY <1>1 DEF Settle
<1>8. \A b \in DOMAIN bets : paid(b) \in Seq(Credit)
  BY <1>2
<1> HIDE DEF paid
<1>9. credits' \in [1..Len(bets) -> Seq(Credit)]
  BY <1>1, <1>2, <1>7, <1>8
<1>10. credits' \in Seq(Seq(Credit)) /\ Len(credits') = Len(bets) /\ DOMAIN credits' = DOMAIN bets
  BY <1>1, <1>9, SeqOfFunction
<1>11. \A b \in DOMAIN bets : credits'[b] = IF b \in won THEN paid(b) ELSE credits[b]
  BY <1>1, <1>7
<1> QED
  BY <1>1, <1>5, <1>6, <1>10, <1>11 DEF paid

\* A tick at m, whether the round crashes or not.
LEMMA TickStep ==
  ASSUME TypeOK, NEW m \in Multipliers, TickFlies(m) \/ TickCrashes(m)
  PROVE  /\ current \in DOMAIN rounds /\ rounds[current].state = "RUNNING"
         /\ rounds' \in Seq(Round) /\ Len(rounds') = Len(rounds)
         /\ DOMAIN rounds' = DOMAIN rounds
         /\ \A r \in DOMAIN rounds :
              rounds'[r] = IF r = current THEN Tick(rounds[r], m) ELSE rounds[r]
<1>1. rounds \in Seq(Round) /\ DOMAIN rounds = 1..Len(rounds) /\ Len(rounds) \in Nat
      /\ current \in 0..Len(rounds)
  BY DEF TypeOK, LoopTypeOK
<1>2. CurrentState = "RUNNING" /\ rounds' = [rounds EXCEPT ![current] = Tick(rounds[current], m)]
  BY DEF TickFlies, TickCrashes, Ticks
<1>3. current \in DOMAIN rounds /\ rounds[current].state = "RUNNING"
  BY <1>1, <1>2 DEF CurrentState
<1>4. Tick(rounds[current], m) \in Round
  BY <1>1, <1>3, TickRound
<1> QED
  BY <1>1, <1>2, <1>3, <1>4, SeqUpdate

LEMMA TickSettles ==
  ASSUME TypeOK, NEW m \in Multipliers, TickFlies(m) \/ TickCrashes(m)
  PROVE  \E won, lost \in SUBSET ActiveBets(current) :
           /\ won = Won(m) /\ won \cap lost = {}
           /\ lost = IF TickCrashes(m) THEN ActiveBets(current) \ won ELSE {}
           /\ Settle(won, lost, rounds[current].currentMultiplier)
           /\ tickEvents' \cup published' =
                tickEvents \cup published \cup SettlementEvents(won, lost)
<1>1. Won(m) \in SUBSET ActiveBets(current)
  BY WonActive
<1>2. CASE TickCrashes(m)
  <2> DEFINE lost == ActiveBets(current) \ Won(m)
  <2>1. Settle(Won(m), lost, rounds[current].currentMultiplier)
    BY <1>2 DEF TickCrashes, LostAtCrash, PaidAt
  <2>2. tickEvents' \cup published' =
          tickEvents \cup published \cup SettlementEvents(Won(m), lost)
    BY <1>2 DEF TickCrashes, LostAtCrash, Flush
  <2> QED
    BY <1>1, <1>2, <2>1, <2>2
<1>3. CASE TickFlies(m) /\ ~TickCrashes(m)
  <2>1. Settle(Won(m), {}, rounds[current].currentMultiplier)
    BY <1>3 DEF TickFlies, PaidAt
  <2>2. tickEvents' \cup published' =
          tickEvents \cup published \cup SettlementEvents(Won(m), {})
    BY <1>3 DEF TickFlies
  <2> QED
    BY <1>1, <1>3, <2>1, <2>2
<1> QED
  BY <1>2, <1>3

LEMMA ReplyTask ==
  ASSUME NEW t \in Task
  PROVE  /\ [t EXCEPT !.at = "reply"] \in Task
         /\ [t EXCEPT !.at = "reply"].at = "reply"
         /\ [t EXCEPT !.at = "reply"].todo = t.todo
         /\ [t EXCEPT !.at = "reply"].round = t.round
BY DEF Task

\* The debit's answer, whatever it is, leads to a reply for the same command.
LEMMA DebitStep ==
  ASSUME LoopTypeOK, DebitOk \/ DebitRefused
  PROVE  /\ task.at = "debit" /\ answered' = answered + 1
         /\ task' \in Task /\ task'.at = "reply"
         /\ task'.todo = task.todo /\ task'.round = task.round
         /\ UNCHANGED <<engine, rounds, current, previousRoundId, timer, ticking,
                        placeBetQueue, cashoutQueue, received>>
<1>1. task \in Task
  BY DEF LoopTypeOK
<1>2. /\ task.at = "debit" /\ answered' = answered + 1
      /\ task' = [task EXCEPT !.at = "reply"]
      /\ UNCHANGED <<engine, rounds, current, previousRoundId, timer, ticking,
                     placeBetQueue, cashoutQueue, received>>
  BY DEF DebitOk, DebitRefused, roundVars
<1> QED
  BY <1>1, <1>2, ReplyTask

-----------------------------------------------------------------------------
(* Type correctness *)

LEMMA TypeInit == Init => TypeOK
<1> SUFFICES ASSUME Init PROVE TypeOK
  OBVIOUS
<1>1. LoopTypeOK
  <2>1. rounds \in Seq(Round) /\ Len(rounds) = 0
    BY DEF Init
  <2>2. task \in Task /\ task.at = "idle" /\ task.round = 0
    BY IdleTask DEF Init
  <2>3. /\ engine = "off" /\ current = 0 /\ previousRoundId = 0
        /\ timer = "none" /\ ticking = FALSE
    BY DEF Init
  <2>4. current \in 0..Len(rounds) /\ previousRoundId \in 0..Len(rounds)
    BY <2>1, <2>3
  <2>5. task.round \in 0..Len(rounds)
    BY <2>1, <2>2
  <2> QED
    BY <2>1, <2>2, <2>3, <2>4, <2>5 DEF LoopTypeOK
<1>2. QueueTypeOK
  BY ConfigAssumption DEF Init, QueueTypeOK
<1>3. BetTypeOK
  BY DEF Init, BetTypeOK
<1>4. EventTypeOK
  BY DEF Init, EventTypeOK
<1> QED
  BY <1>1, <1>2, <1>3, <1>4 DEF TypeOK

LEMMA LoopTypeBeginRound ==
  ASSUME LoopTypeOK, BeginRound, engine' = "running",
         timer' \in {"none", "newRound", "endBetting"}
  PROVE  LoopTypeOK'
<1>1. ticking' \in BOOLEAN
  BY DEF BeginRound, LoopTypeOK
<1> QED
  BY <1>1, BeginRoundStep DEF LoopTypeOK

LEMMA LoopTypePlaceNext ==
  ASSUME LoopTypeOK, NEW todo \in Seq(PlaceBetCommand), NEW r \in DOMAIN rounds,
         PlaceNext(todo, r),
         UNCHANGED <<engine, current, previousRoundId, ticking>>,
         timer' \in {"none", "newRound", "endBetting"}
  PROVE  LoopTypeOK'
<1>1. r \in 0..Len(rounds) /\ r # 0
  BY DEF LoopTypeOK
<1> QED
  BY <1>1, PlaceNextStep DEF LoopTypeOK

LEMMA LoopTypeStep == TypeOK /\ [Next]_vars => LoopTypeOK'
<1> SUFFICES ASSUME TypeOK, [Next]_vars PROVE LoopTypeOK'
  OBVIOUS
<1>0. LoopTypeOK /\ QueueTypeOK
  BY DEF TypeOK
<1>1. CASE Start
  BY <1>0, <1>1, LoopTypeBeginRound DEF Start, LoopTypeOK
<1>2. CASE NewRoundTimer
  BY <1>0, <1>2, LoopTypeBeginRound DEF NewRoundTimer, Running
<1>3. CASE RoundAnnounced
  BY <1>0, <1>3, IdleTask DEF RoundAnnounced, LoopTypeOK, roundVars
<1>4. CASE EndBettingPhase
  <2>1. CASE Running /\ current # 0
    <3>1. current \in DOMAIN rounds /\ placeBetQueue \in Seq(PlaceBetCommand)
      BY <1>0, <2>1 DEF LoopTypeOK, QueueTypeOK
    <3>2. PlaceNext(placeBetQueue, current)
          /\ UNCHANGED <<engine, current, previousRoundId, ticking>> /\ timer' = "none"
      BY <1>4, <2>1 DEF EndBettingPhase
    <3> QED
      BY <1>0, <3>1, <3>2, LoopTypePlaceNext
  <2>2. CASE ~(Running /\ current # 0)
    <3>1. UNCHANGED <<rounds, task, engine, current, previousRoundId, ticking>>
          /\ timer' = "none"
      BY <1>4, <2>2 DEF EndBettingPhase
    <3> QED
      BY <1>0, <3>1 DEF LoopTypeOK
  <2> QED
    BY <2>1, <2>2
<1>5. CASE DebitOk \/ DebitRefused
  BY <1>0, <1>5, DebitStep DEF LoopTypeOK
<1>6. CASE DebitThrows
  BY <1>0, <1>6 DEF DebitThrows, LoopTypeOK, roundVars, driverVars
<1>7. CASE ReplyPublished
  <2>1. task.at = "reply" /\ PlaceNext(Tail(task.todo), task.round)
        /\ UNCHANGED <<engine, current, previousRoundId, timer, ticking>>
    BY <1>7 DEF ReplyPublished
  <2>2. task.round \in DOMAIN rounds /\ task.todo # <<>> /\ task.todo \in Seq(PlaceBetCommand)
    BY <1>0, <2>1 DEF LoopTypeOK, Task
  <2>3. Tail(task.todo) \in Seq(PlaceBetCommand)
    BY <2>2, SeqTail
  <2>4. timer' \in {"none", "newRound", "endBetting"}
    BY <1>0, <2>1 DEF LoopTypeOK
  <2> QED
    BY <1>0, <2>1, <2>2, <2>3, <2>4, LoopTypePlaceNext
<1>8. CASE RoundStarted
  BY <1>0, <1>8, IdleTask DEF RoundStarted, LoopTypeOK, roundVars
<1>9. CASE OnTick
  <2>1. PICK m \in Multipliers : TickFlies(m) \/ TickCrashes(m)
    BY <1>9 DEF OnTick
  <2>2. current \in 0..Len(rounds) /\ rounds' \in Seq(Round) /\ Len(rounds') = Len(rounds)
    BY <1>0, <2>1, TickStep DEF LoopTypeOK
  <2>3. UNCHANGED <<engine, current, task>>
    BY <2>1 DEF TickFlies, TickCrashes, Ticks
  <2>4. previousRoundId' \in {previousRoundId, current}
        /\ timer' \in {timer, "newRound"} /\ ticking' \in {ticking, FALSE}
    BY <2>1 DEF TickFlies, TickCrashes
  <2> QED
    BY <1>0, <2>2, <2>3, <2>4 DEF LoopTypeOK
<1>10. CASE FlushEvents
  BY <1>0, <1>10 DEF FlushEvents, LoopTypeOK, roundVars, driverVars
<1>11. CASE \E cmd \in PlaceBetCommands : PlaceBetReceived(cmd)
  BY <1>0, <1>11 DEF PlaceBetReceived, LoopTypeOK, roundVars, driverVars
<1>12. CASE \E cmd \in CashoutCommands : CashoutReceived(cmd)
  BY <1>0, <1>12 DEF CashoutReceived, LoopTypeOK, roundVars, driverVars
<1>13. CASE CreditReturned
  BY <1>0, <1>13 DEF CreditReturned, CreditReturns, LoopTypeOK, roundVars, driverVars
<1>14. CASE Stop
  <2>1. /\ engine' = "stopped" /\ timer' = "none" /\ ticking' = FALSE
        /\ previousRoundId' = 0 /\ current' = 0 /\ UNCHANGED <<rounds, task>>
    BY <1>14 DEF Stop
  <2>2. current' \in 0..Len(rounds') /\ previousRoundId' \in 0..Len(rounds')
    BY <1>0, <2>1 DEF LoopTypeOK
  <2>3. rounds' \in Seq(Round) /\ task' \in Task /\ task'.round \in 0..Len(rounds')
    BY <1>0, <2>1 DEF LoopTypeOK
  <2>4. /\ task'.at # "idle" => task'.round # 0
        /\ task'.at \in {"debit", "reply"} => task'.todo # <<>>
    BY <1>0, <2>1 DEF LoopTypeOK
  <2> QED
    BY <2>1, <2>2, <2>3, <2>4 DEF LoopTypeOK
<1>15. CASE UNCHANGED vars
  BY <1>0, <1>15 DEF vars, LoopTypeOK, roundVars, driverVars
<1> QED
  BY <1>1, <1>2, <1>3, <1>4, <1>5, <1>6, <1>7, <1>8, <1>9, <1>10, <1>11, <1>12,
     <1>13, <1>14, <1>15 DEF Next

LEMMA CashoutCommandsTyped == TypeOK => CashoutCommands \subseteq CashoutCommand
<1> SUFFICES ASSUME TypeOK PROVE CashoutCommands \subseteq CashoutCommand
  OBVIOUS
<1>1. \A c \in PlaceBetCommands : c.playerId \in STRING
  BY CommandsAssumption DEF PlaceBetCommand
<1>2. 0..Len(rounds) \subseteq Nat /\ DOMAIN bets \subseteq Nat
  BY DEF TypeOK, BetTypeOK, LoopTypeOK
<1> QED
  BY <1>1, <1>2 DEF CashoutCommands, CashoutCommand

LEMMA QueueTypeStep == TypeOK /\ [Next]_vars => QueueTypeOK'
<1> SUFFICES ASSUME TypeOK, [Next]_vars PROVE QueueTypeOK'
  OBVIOUS
<1>0. LoopTypeOK /\ QueueTypeOK
  BY DEF TypeOK
<1>a. /\ placeBetQueue \in Seq(PlaceBetCommand) /\ Len(placeBetQueue) \in Nat
      /\ received \in Nat /\ answered \in Nat /\ MaxPlaceBetQueueSize \in Nat
      /\ MaxCashoutQueueSize \in Nat
  BY <1>0, ConfigAssumption DEF QueueTypeOK
<1>b. ASSUME placeBetQueue' \in {placeBetQueue, <<>>},
             cashoutQueue' \in {cashoutQueue, <<>>},
             received' = received, answered' \in Nat
      PROVE  QueueTypeOK'
  <2>1. placeBetQueue' \in Seq(PlaceBetCommand) /\ Len(placeBetQueue') <= MaxPlaceBetQueueSize
    <3>1. CASE placeBetQueue' = <<>>
      BY <1>a, <3>1
    <3>2. CASE placeBetQueue' = placeBetQueue
      BY <1>0, <3>2 DEF QueueTypeOK
    <3> QED
      BY <1>b, <3>1, <3>2
  <2>2. cashoutQueue' \in Seq(CashoutCommand) /\ Len(cashoutQueue') <= MaxCashoutQueueSize
    <3>1. CASE cashoutQueue' = <<>>
      BY <1>a, <3>1
    <3>2. CASE cashoutQueue' = cashoutQueue
      BY <1>0, <3>2 DEF QueueTypeOK
    <3> QED
      BY <1>b, <3>1, <3>2
  <2> QED
    BY <1>0, <1>b, <2>1, <2>2 DEF QueueTypeOK
<1>c. ASSUME UNCHANGED <<placeBetQueue, cashoutQueue, received, answered>>
      PROVE  QueueTypeOK'
  BY <1>a, <1>b, <1>c
<1>1. CASE Start \/ NewRoundTimer
  <2>1. BeginRound
    BY <1>1 DEF Start, NewRoundTimer
  <2>2. /\ placeBetQueue' = <<>> /\ answered' = answered + Len(placeBetQueue)
        /\ UNCHANGED <<cashoutQueue, received>>
    BY <2>1 DEF BeginRound, RejectStaleBets
  <2> QED
    BY <1>a, <1>b, <2>2
<1>2. CASE RoundAnnounced
  BY <1>2, <1>c DEF RoundAnnounced, replyVars
<1>3. CASE EndBettingPhase
  <2>1. placeBetQueue' \in {placeBetQueue, <<>>} /\ answered' \in {answered, answered + 1}
        /\ UNCHANGED <<cashoutQueue, received>>
    BY <1>3 DEF EndBettingPhase, PlaceNext
  <2> QED
    BY <1>a, <1>b, <2>1
<1>4. CASE DebitOk \/ DebitRefused
  BY <1>0, <1>4, <1>a, <1>b, DebitStep
<1>5. CASE DebitThrows
  BY <1>5, <1>c DEF DebitThrows, replyVars
<1>6. CASE ReplyPublished
  <2>1. UNCHANGED <<placeBetQueue, cashoutQueue, received>> /\ answered' \in {answered, answered + 1}
    BY <1>6 DEF ReplyPublished, PlaceNext
  <2> QED
    BY <1>a, <1>b, <2>1
<1>7. CASE RoundStarted
  BY <1>7, <1>c DEF RoundStarted, replyVars
<1>8. CASE OnTick
  BY <1>8, <1>a, <1>b DEF OnTick, TickFlies, TickCrashes, Ticks, replyVars
<1>9. CASE FlushEvents
  BY <1>9, <1>c DEF FlushEvents, replyVars
<1>10. CASE \E cmd \in PlaceBetCommands : PlaceBetReceived(cmd)
  <2>1. PICK cmd \in PlaceBetCommands : PlaceBetReceived(cmd)
    BY <1>10
  <2>2. cmd \in PlaceBetCommand
    BY CommandsAssumption
  <2>3. received' = received + 1 /\ cashoutQueue' = cashoutQueue
    BY <2>1 DEF PlaceBetReceived
  <2>4. CASE QueuesBet
    <3>1. placeBetQueue' = Append(placeBetQueue, cmd) /\ answered' = answered
          /\ Len(placeBetQueue) < MaxPlaceBetQueueSize
      BY <2>1, <2>4 DEF PlaceBetReceived, QueuesBet
    <3>2. placeBetQueue' \in Seq(PlaceBetCommand) /\ Len(placeBetQueue') = Len(placeBetQueue) + 1
      BY <1>a, <2>2, <3>1, SeqAppend
    <3> QED
      BY <1>0, <1>a, <2>3, <3>1, <3>2 DEF QueueTypeOK
  <2>5. CASE ~QueuesBet
    <3>1. placeBetQueue' = placeBetQueue /\ answered' = answered + 1
      BY <2>1, <2>5 DEF PlaceBetReceived
    <3> QED
      BY <1>0, <1>a, <2>3, <3>1 DEF QueueTypeOK
  <2> QED
    BY <2>4, <2>5
<1>11. CASE \E cmd \in CashoutCommands : CashoutReceived(cmd)
  <2>1. PICK cmd \in CashoutCommands : CashoutReceived(cmd)
    BY <1>11
  <2>2. cmd \in CashoutCommand
    BY CashoutCommandsTyped
  <2>3. /\ cashoutQueue' = Append(cashoutQueue, cmd) /\ Len(cashoutQueue) < MaxCashoutQueueSize
        /\ UNCHANGED <<placeBetQueue, received, answered>>
    BY <2>1 DEF CashoutReceived, QueuesCashout, replyVars
  <2>4. cashoutQueue' \in Seq(CashoutCommand) /\ Len(cashoutQueue') = Len(cashoutQueue) + 1
    BY <1>0, <2>2, <2>3, SeqAppend DEF QueueTypeOK
  <2>5. Len(cashoutQueue) \in Nat
    BY <1>0 DEF QueueTypeOK
  <2> QED
    BY <1>0, <1>a, <2>3, <2>4, <2>5 DEF QueueTypeOK
<1>12. CASE CreditReturned
  BY <1>12, <1>c DEF CreditReturned, CreditReturns, replyVars
<1>13. CASE Stop
  BY <1>13, <1>c DEF Stop, replyVars
<1>14. CASE UNCHANGED vars
  BY <1>14, <1>c DEF vars, replyVars
<1> QED
  BY <1>1, <1>2, <1>3, <1>4, <1>5, <1>6, <1>7, <1>8, <1>9, <1>10, <1>11, <1>12,
     <1>13, <1>14 DEF Next

\* The references of the bets survive a step that keeps the bets.
LEMMA BetTypeSame ==
  ASSUME TypeOK, Len(rounds') \in Nat, Len(rounds') >= Len(rounds),
         DOMAIN rounds' = 1..Len(rounds'),
         UNCHANGED <<bets, credits, failedCredits>>, betStore' \subseteq betStore
  PROVE  BetTypeOK'
<1>1. rounds \in Seq(Round)
  BY DEF TypeOK, LoopTypeOK
<1>2. \A b \in DOMAIN bets : bets[b].round \in DOMAIN rounds'
  BY <1>1 DEF TypeOK, BetTypeOK
<1>3. BetTypeOK
  BY DEF TypeOK
<1> QED
  BY <1>2, <1>3 DEF BetTypeOK

LEMMA BetTypeDebitOk == TypeOK /\ DebitOk => BetTypeOK'
<1> SUFFICES ASSUME TypeOK, DebitOk PROVE BetTypeOK'
  OBVIOUS
<1> DEFINE cmd == Head(task.todo)
           accepted == rounds[task.round].state = "BETTING"
           bet == [playerId |-> cmd.playerId, roundId |-> cmd.roundId,
                   round |-> task.round, amountCents |-> cmd.amountCents,
                   autoCashout |-> cmd.autoCashout,
                   idempotencyKey |-> cmd.idempotencyKey,
                   status |-> IF accepted THEN "ACTIVE" ELSE "PENDING",
                   cashoutMultiplier |-> 0, payoutCents |-> 0]
           calls == IF accepted THEN <<>>
                    ELSE <<[cents |-> cmd.amountCents, outcome |-> "pending"]>>
<1>1. /\ bets' = Append(bets, bet) /\ credits' = Append(credits, calls)
      /\ betStore' \subseteq betStore \cup {Len(bets) + 1}
      /\ UNCHANGED <<rounds, failedCredits>> /\ task.at = "debit"
  BY DEF DebitOk, roundVars
<1>2. /\ bets \in Seq(Bet) /\ credits \in Seq(Seq(Credit)) /\ Len(credits) = Len(bets)
      /\ betStore \subseteq DOMAIN bets
      /\ failedCredits \subseteq [betId : DOMAIN bets, payoutCents : Nat]
      /\ \A b \in DOMAIN bets : bets[b].round \in DOMAIN rounds
  BY DEF TypeOK, BetTypeOK
<1>3. task \in Task /\ task.todo # <<>> /\ task.round \in DOMAIN rounds /\ task.round \in Nat
  BY <1>1 DEF TypeOK, LoopTypeOK
<1>4. cmd \in PlaceBetCommand
  BY <1>3, SeqTail DEF Task
<1>5. bet \in Bet /\ bet.round = task.round
  BY <1>3, <1>4 DEF Bet, PlaceBetCommand
<1>6. calls \in Seq(Credit)
  <2>1. [cents |-> cmd.amountCents, outcome |-> "pending"] \in Credit
    BY <1>4 DEF Credit, PlaceBetCommand
  <2> QED
    BY <2>1
<1> HIDE DEF cmd, bet, calls
<1>7. /\ bets' \in Seq(Bet) /\ Len(bets') = Len(bets) + 1
      /\ DOMAIN bets' = DOMAIN bets \cup {Len(bets) + 1}
      /\ \A b \in DOMAIN bets : bets'[b] = bets[b]
      /\ bets'[Len(bets) + 1] = bet
  BY <1>1, <1>2, <1>5, SeqAppend
<1>8. credits' \in Seq(Seq(Credit)) /\ Len(credits') = Len(bets')
  BY <1>1, <1>2, <1>6, <1>7, SeqAppend
<1>9. \A b \in DOMAIN bets' : bets'[b].round \in DOMAIN rounds'
  BY <1>1, <1>2, <1>3, <1>5, <1>7
<1>10. betStore' \subseteq DOMAIN bets'
  BY <1>1, <1>2, <1>7
<1>11. failedCredits' \subseteq [betId : DOMAIN bets', payoutCents : Nat]
  <2>1. [betId : DOMAIN bets, payoutCents : Nat] \subseteq [betId : DOMAIN bets', payoutCents : Nat]
    BY <1>7
  <2> QED
    BY <1>1, <1>2, <2>1
<1> QED
  BY <1>7, <1>8, <1>9, <1>10, <1>11 DEF BetTypeOK

LEMMA BetTypeTick == TypeOK /\ OnTick => BetTypeOK'
<1> SUFFICES ASSUME TypeOK, OnTick PROVE BetTypeOK'
  OBVIOUS
<1>1. PICK m \in Multipliers : TickFlies(m) \/ TickCrashes(m)
  BY DEF OnTick
<1>2. PICK won, lost \in SUBSET ActiveBets(current) :
        Settle(won, lost, rounds[current].currentMultiplier) /\ won \cap lost = {}
  BY <1>1, TickSettles
<1>3. /\ current \in DOMAIN rounds /\ DOMAIN rounds' = DOMAIN rounds
      /\ UNCHANGED <<betStore, failedCredits>>
  BY <1>1, TickStep DEF TickFlies, TickCrashes, Ticks
<1>4. rounds[current].currentMultiplier \in Nat
  BY <1>3, RoundNumbers DEF TypeOK, LoopTypeOK
<1>5. BetTypeOK
  BY DEF TypeOK
<1>6. /\ bets' \in Seq(Bet) /\ Len(bets') = Len(bets) /\ DOMAIN bets' = DOMAIN bets
      /\ credits' \in Seq(Seq(Credit)) /\ Len(credits') = Len(credits)
      /\ \A b \in DOMAIN bets :
           \/ bets'[b] = Cashout(bets[b], rounds[current].currentMultiplier)
           \/ bets'[b] = Lose(bets[b])
           \/ bets'[b] = bets[b]
  BY <1>2, <1>4, <1>5, SettleStep
<1>7. ASSUME NEW b \in DOMAIN bets PROVE bets'[b].round = bets[b].round
  <2>1. bets[b] \in Bet
    BY <1>5 DEF BetTypeOK
  <2>2. Cashout(bets[b], rounds[current].currentMultiplier).round = bets[b].round
    BY <1>4, <2>1, CashoutBet
  <2>3. Lose(bets[b]).round = bets[b].round
    BY <2>1, LoseBet
  <2> QED
    BY <1>6, <2>2, <2>3
<1>8. \A b \in DOMAIN bets' : bets'[b].round \in DOMAIN rounds'
  BY <1>3, <1>5, <1>6, <1>7 DEF BetTypeOK
<1> QED
  BY <1>3, <1>5, <1>6, <1>8 DEF BetTypeOK

LEMMA BetTypeCredit == TypeOK /\ CreditReturned => BetTypeOK'
<1> SUFFICES ASSUME TypeOK, CreditReturned PROVE BetTypeOK'
  OBVIOUS
<1>1. PICK b \in DOMAIN credits : \E i \in DOMAIN credits[b] :
        \E outcome \in {"ok", "refused", "throws"} : CreditReturns(b, i, outcome)
  BY DEF CreditReturned
<1>2. PICK i \in DOMAIN credits[b] :
        \E outcome \in {"ok", "refused", "throws"} : CreditReturns(b, i, outcome)
  BY <1>1
<1>3. PICK outcome \in {"ok", "refused", "throws"} : CreditReturns(b, i, outcome)
  BY <1>2
<1> DEFINE result == IF outcome = "ok" THEN "paid" ELSE "failed"
           call == [credits[b][i] EXCEPT !.outcome = result]
           calls == [credits[b] EXCEPT ![i] = call]
<1>4. BetTypeOK /\ UNCHANGED <<rounds, bets, betStore>>
  BY <1>3 DEF TypeOK, CreditReturns, roundVars
<1>5. /\ credits \in Seq(Seq(Credit)) /\ credits[b] \in Seq(Credit) /\ credits[b][i] \in Credit
      /\ DOMAIN credits = DOMAIN bets
  BY <1>4 DEF BetTypeOK
<1>6. credits' = [credits EXCEPT ![b] = calls]
  BY <1>3 DEF CreditReturns
<1>7. call \in Credit
  BY <1>5 DEF Credit
<1> HIDE DEF call
<1>8. calls \in Seq(Credit)
  BY <1>5, <1>7, SeqUpdate
<1> HIDE DEF calls
<1>9. credits' \in Seq(Seq(Credit)) /\ Len(credits') = Len(credits)
  BY <1>5, <1>6, <1>8, SeqUpdate
<1>10. failedCredits' \subseteq [betId : DOMAIN bets, payoutCents : Nat]
  <2>1. credits[b][i].cents \in Nat
    BY <1>5 DEF Credit
  <2>2. [betId |-> b, payoutCents |-> credits[b][i].cents] \in [betId : DOMAIN bets, payoutCents : Nat]
    BY <1>5, <2>1
  <2>3. failedCredits' \subseteq
          failedCredits \cup {[betId |-> b, payoutCents |-> credits[b][i].cents]}
    BY <1>3 DEF CreditReturns
  <2>4. failedCredits \subseteq [betId : DOMAIN bets, payoutCents : Nat]
    BY <1>4 DEF BetTypeOK
  <2> QED
    BY <2>2, <2>3, <2>4
<1> QED
  BY <1>4, <1>9, <1>10 DEF BetTypeOK

LEMMA BetTypeStep == TypeOK /\ [Next]_vars => BetTypeOK'
<1> SUFFICES ASSUME TypeOK, [Next]_vars PROVE BetTypeOK'
  OBVIOUS
<1>0. LoopTypeOK /\ QueueTypeOK /\ rounds \in Seq(Round)
  BY DEF TypeOK, LoopTypeOK
<1>a. ASSUME UNCHANGED <<rounds, bets, credits, failedCredits>>, betStore' \subseteq betStore
      PROVE  BetTypeOK'
  BY <1>0, <1>a, BetTypeSame
<1>b. ASSUME NEW todo \in Seq(PlaceBetCommand), NEW r \in DOMAIN rounds, PlaceNext(todo, r),
             UNCHANGED betVars
      PROVE  BetTypeOK'
  <2>1. rounds' \in Seq(Round) /\ Len(rounds') = Len(rounds)
    BY <1>0, <1>b, PlaceNextStep
  <2> QED
    BY <1>0, <1>b, <2>1, BetTypeSame DEF betVars
<1>1. CASE Start \/ NewRoundTimer
  <2>1. BeginRound
    BY <1>1 DEF Start, NewRoundTimer
  <2>2. rounds' \in Seq(Round) /\ Len(rounds') = Len(rounds) + 1 /\ Len(rounds) \in Nat
    BY <1>0, <2>1, BeginRoundStep
  <2>3. betStore' \subseteq betStore /\ UNCHANGED <<bets, credits, failedCredits>>
    BY <2>1 DEF BeginRound, ClearRounds
  <2> QED
    BY <2>2, <2>3, BetTypeSame
<1>2. CASE RoundAnnounced
  BY <1>2, <1>a DEF RoundAnnounced, roundVars, betVars
<1>3. CASE EndBettingPhase
  <2>1. CASE Running /\ current # 0
    <3>1. current \in DOMAIN rounds /\ placeBetQueue \in Seq(PlaceBetCommand)
      BY <1>0, <2>1 DEF LoopTypeOK, QueueTypeOK
    <3>2. PlaceNext(placeBetQueue, current) /\ UNCHANGED betVars
      BY <1>3, <2>1 DEF EndBettingPhase
    <3> QED
      BY <1>b, <3>1, <3>2
  <2>2. CASE ~(Running /\ current # 0)
    BY <1>3, <1>a, <2>2 DEF EndBettingPhase, betVars
  <2> QED
    BY <2>1, <2>2
<1>4. CASE DebitOk
  BY <1>4, BetTypeDebitOk
<1>5. CASE DebitRefused \/ DebitThrows
  BY <1>5, <1>a DEF DebitRefused, DebitThrows, roundVars, betVars
<1>6. CASE ReplyPublished
  <2>1. task.at = "reply" /\ PlaceNext(Tail(task.todo), task.round) /\ UNCHANGED betVars
    BY <1>6 DEF ReplyPublished
  <2>2. task.round \in DOMAIN rounds /\ task.todo # <<>> /\ task.todo \in Seq(PlaceBetCommand)
    BY <1>0, <2>1 DEF LoopTypeOK, Task
  <2>3. Tail(task.todo) \in Seq(PlaceBetCommand)
    BY <2>2, SeqTail
  <2> QED
    BY <1>b, <2>1, <2>2, <2>3
<1>7. CASE RoundStarted
  BY <1>7, <1>a DEF RoundStarted, roundVars, betVars
<1>8. CASE OnTick
  BY <1>8, BetTypeTick
<1>9. CASE FlushEvents
  BY <1>9, <1>a DEF FlushEvents, roundVars, betVars
<1>10. CASE \E cmd \in PlaceBetCommands : PlaceBetReceived(cmd)
  BY <1>10, <1>a DEF PlaceBetReceived, roundVars, betVars
<1>11. CASE \E cmd \in CashoutCommands : CashoutReceived(cmd)
  BY <1>11, <1>a DEF CashoutReceived, roundVars, betVars
<1>12. CASE CreditReturned
  BY <1>12, BetTypeCredit
<1>13. CASE Stop
  BY <1>13, <1>a DEF Stop, ClearRounds
<1>14. CASE UNCHANGED vars
  BY <1>14, <1>a DEF vars, roundVars, betVars
<1> QED
  BY <1>1, <1>2, <1>3, <1>4, <1>5, <1>6, <1>7, <1>8, <1>9, <1>10, <1>11, <1>12,
     <1>13, <1>14 DEF Next

LEMMA EventTypeStep == TypeOK /\ [Next]_vars => EventTypeOK'
<1> SUFFICES ASSUME TypeOK, [Next]_vars PROVE EventTypeOK'
  OBVIOUS
<1>0. EventTypeOK
  BY DEF TypeOK
<1>a. ASSUME tickEvents' \cup published' \subseteq tickEvents \cup published,
             flushImmediate' \in BOOLEAN, DOMAIN bets \subseteq DOMAIN bets'
      PROVE  EventTypeOK'
  BY <1>0, <1>a DEF EventTypeOK, SettlementEvent
<1>b. ASSUME UNCHANGED <<eventVars, bets>>
      PROVE  EventTypeOK'
  BY <1>0, <1>b DEF EventTypeOK, SettlementEvent, eventVars
<1>1. CASE Start \/ NewRoundTimer
  BY <1>1, <1>b DEF Start, NewRoundTimer, BeginRound
<1>2. CASE RoundAnnounced \/ EndBettingPhase \/ DebitRefused \/ DebitThrows
  BY <1>2, <1>b DEF RoundAnnounced, EndBettingPhase, DebitRefused, DebitThrows, betVars
<1>3. CASE DebitOk
  <2>1. bets \in Seq(Bet)
    BY DEF TypeOK, BetTypeOK
  <2>2. PICK bet : bets' = Append(bets, bet)
    BY <1>3 DEF DebitOk
  <2>3. DOMAIN bets \subseteq DOMAIN bets'
    BY <2>1, <2>2
  <2> QED
    BY <1>0, <1>3, <1>a, <2>3 DEF DebitOk, eventVars, EventTypeOK
<1>4. CASE ReplyPublished \/ RoundStarted
  BY <1>4, <1>b DEF ReplyPublished, RoundStarted, betVars
<1>5. CASE OnTick
  <2>1. PICK m \in Multipliers : TickFlies(m) \/ TickCrashes(m)
    BY <1>5 DEF OnTick
  <2>2. PICK won, lost \in SUBSET ActiveBets(current) :
          /\ Settle(won, lost, rounds[current].currentMultiplier)
          /\ tickEvents' \cup published' =
               tickEvents \cup published \cup SettlementEvents(won, lost)
    BY <2>1, TickSettles
  <2>3. DOMAIN bets' = DOMAIN bets
    BY <2>2 DEF Settle
  <2>4. SettlementEvents(won, lost) \subseteq SettlementEvent
    BY <2>2 DEF SettlementEvents, SettlementEvent, ActiveBets
  <2>5. SettlementEvent' = SettlementEvent
    BY <2>3 DEF SettlementEvent
  <2>6. flushImmediate' \in BOOLEAN
    BY <1>0, <2>1 DEF TickFlies, TickCrashes, EventTypeOK
  <2> QED
    BY <1>0, <2>2, <2>4, <2>5, <2>6 DEF EventTypeOK
<1>6. CASE FlushEvents
  BY <1>6, <1>a DEF FlushEvents, Flush, betVars
<1>7. CASE \E cmd \in PlaceBetCommands : PlaceBetReceived(cmd)
  BY <1>7, <1>b DEF PlaceBetReceived, betVars
<1>8. CASE \E cmd \in CashoutCommands : CashoutReceived(cmd)
  BY <1>8, <1>b DEF CashoutReceived, betVars
<1>9. CASE CreditReturned
  BY <1>9, <1>b DEF CreditReturned, CreditReturns
<1>10. CASE Stop
  BY <1>0, <1>10, <1>a DEF Stop, Flush, EventTypeOK
<1>11. CASE UNCHANGED vars
  BY <1>11, <1>b DEF vars, betVars
<1> QED
  BY <1>1, <1>2, <1>3, <1>4, <1>5, <1>6, <1>7, <1>8, <1>9, <1>10, <1>11 DEF Next

\* Every state of GameLoop is well typed: the queues stay within their maxima,
\* the bets and the stored ids refer to objects that exist, and no step of an
\* async function runs without a command or a round to work on.
THEOREM TypeCorrect == Safety => []TypeOK
<1>1. Init => TypeOK
  BY TypeInit
<1>2. TypeOK /\ [Next]_vars => TypeOK'
  BY LoopTypeStep, QueueTypeStep, BetTypeStep, EventTypeStep DEF TypeOK
<1> QED
  BY <1>1, <1>2, PTL DEF Safety

-----------------------------------------------------------------------------
(* The loop *)

Newest == rounds[Len(rounds)]

\* Only the newest round may not have crashed, and a round that has not flies
\* at a multiplier up to its crash point.
RoundsInv ==
  /\ \A r \in DOMAIN rounds :
       /\ r # Len(rounds) => rounds[r].state = "CRASHED"
       /\ rounds[r].state # "CRASHED" => rounds[r].currentMultiplier <= rounds[r].crashPoint
  /\ current \in {0, Len(rounds)}
  /\ Running => current # 0
  /\ engine = "off" =>
       rounds = <<>> /\ timer = "none" /\ ~ticking /\ task.at = "idle" /\ cashoutQueue = <<>>

\* Whatever drives the loop on fits the phase of the newest round, stopped or
\* not, and nothing else drives it.
PhaseInv ==
  /\ task.at # "idle" =>
       /\ timer = "none" /\ ~ticking /\ task.round = Len(rounds)
       /\ task.at = "starting" => Newest.state = "RUNNING"
       /\ task.at # "starting" => Newest.state = "BETTING"
  /\ timer # "none" => ~ticking /\ Len(rounds) # 0
  /\ timer = "endBetting" => Newest.state = "BETTING"
  /\ timer = "newRound" => Newest.state = "CRASHED"
  /\ ticking => Newest.state = "RUNNING" /\ Len(rounds) # 0

LoopInv == RoundsInv /\ PhaseInv /\ OneDriver /\ CashoutQueueFresh

-----------------------------------------------------------------------------
LEMMA LoopInvInit == Init => LoopInv
<1> SUFFICES ASSUME Init PROVE LoopInv
  OBVIOUS
<1>1. /\ engine = "off" /\ rounds = <<>> /\ current = 0 /\ timer = "none" /\ ticking = FALSE
      /\ cashoutQueue = <<>> /\ task.at = "idle"
  BY IdleTask DEF Init
<1> QED
  BY <1>1 DEF LoopInv, RoundsInv, PhaseInv, OneDriver, CashoutQueueFresh, Running

LEMMA LoopInvSame ==
  ASSUME LoopInv, UNCHANGED <<engine, rounds, current, timer, ticking, cashoutQueue, task>>
  PROVE  LoopInv'
BY DEF LoopInv, RoundsInv, PhaseInv, OneDriver, CashoutQueueFresh, Running, Newest, CurrentState

LEMMA LoopInvBegin ==
  ASSUME TypeOK, LoopInv, Start \/ NewRoundTimer
  PROVE  LoopInv'
<1>1. BeginRound /\ LoopTypeOK /\ engine' = "running"
  BY DEF Start, NewRoundTimer, TypeOK, Running
<1>2. timer' = "none" /\ ~ticking /\ cashoutQueue = <<>>
      /\ \A r \in DOMAIN rounds : rounds[r].state = "CRASHED"
  <2>1. DOMAIN rounds = 1..Len(rounds) /\ Len(rounds) \in Nat
    BY <1>1 DEF LoopTypeOK
  <2>2. CASE Start
    <3>1. engine = "off" /\ timer' = timer
      BY <2>2 DEF Start
    <3>2. timer = "none" /\ ~ticking /\ cashoutQueue = <<>> /\ rounds = <<>>
      BY <3>1 DEF LoopInv, RoundsInv
    <3> QED
      BY <3>1, <3>2
  <2>3. CASE NewRoundTimer
    BY <2>1, <2>3 DEF NewRoundTimer, LoopInv, RoundsInv, PhaseInv, CashoutQueueFresh, Newest,
         CurrentState
  <2> QED
    BY <2>2, <2>3
<1>3. ticking' = ticking /\ cashoutQueue' = cashoutQueue
  BY <1>1 DEF BeginRound
<1>4. rounds \in Seq(Round)
  BY <1>1 DEF LoopTypeOK
<1>5. RoundsInv'
  <2>1. rounds'[Len(rounds')] \in Round
    BY <1>1, BeginRoundStep
  <2>2. rounds'[Len(rounds')].currentMultiplier <= rounds'[Len(rounds')].crashPoint
    BY <1>1, <2>1, BeginRoundStep, RoundNumbers
  <2>3. \A r \in DOMAIN rounds' : r # Len(rounds') => rounds'[r].state = "CRASHED"
    BY <1>1, <1>2, BeginRoundStep
  <2>4. current' = Len(rounds') /\ current' # 0
    BY <1>1, BeginRoundStep
  <2> QED
    BY <1>1, <2>2, <2>3, <2>4 DEF RoundsInv, Running
<1>6. PhaseInv'
  BY <1>1, <1>2, <1>3, BeginRoundStep DEF PhaseInv, Newest
<1>7. OneDriver'
  BY <1>1, <1>2, <1>3, BeginRoundStep DEF OneDriver
<1>8. CashoutQueueFresh'
  BY <1>2, <1>3 DEF CashoutQueueFresh
<1> QED
  BY <1>5, <1>6, <1>7, <1>8 DEF LoopInv

LEMMA LoopInvPlaceNext ==
  ASSUME TypeOK, LoopInv, NEW todo \in Seq(PlaceBetCommand), NEW r \in DOMAIN rounds,
         PlaceNext(todo, r), r = Len(rounds), ~ticking, timer' = "none",
         UNCHANGED <<engine, current, ticking, cashoutQueue>>,
         engine # "off", Newest.state = "BETTING", Running => cashoutQueue = <<>>
  PROVE  LoopInv'
<1>1. LoopTypeOK /\ rounds \in Seq(Round) /\ rounds[r] \in Round
  BY DEF TypeOK, LoopTypeOK
<1>2. DOMAIN rounds' = DOMAIN rounds /\ Len(rounds') = Len(rounds)
      /\ \A i \in DOMAIN rounds : i # r => rounds'[i] = rounds[i]
  BY <1>1, PlaceNextStep
<1>3. /\ rounds'[r].currentMultiplier = rounds[r].currentMultiplier
      /\ rounds'[r].crashPoint = rounds[r].crashPoint
      /\ rounds'[r].state # "CRASHED"
      /\ task'.at # "idle" /\ task'.round = r
      /\ task'.at = "starting" => rounds'[r].state = "RUNNING"
      /\ task'.at # "starting" => rounds'[r].state = "BETTING"
  <2>1. CASE todo = <<>>
    <3>1. rounds'[r] = StartFlying(rounds[r]) /\ task'.at = "starting" /\ task'.round = r
      BY <1>1, <2>1, PlaceNextStep
    <3> QED
      BY <1>1, <3>1, StartFlyingRound
  <2>2. CASE todo # <<>>
    <3>1. rounds'[r] = rounds[r] /\ task'.at \in {"debit", "reply"} /\ task'.round = r
      BY <1>1, <2>2, PlaceNextStep
    <3> QED
      BY <3>1 DEF Newest
  <2> QED
    BY <2>1, <2>2
<1>4. RoundsInv'
  BY <1>2, <1>3 DEF LoopInv, RoundsInv, Running, Newest
<1>5. PhaseInv'
  BY <1>2, <1>3 DEF PhaseInv, Newest
<1>6. OneDriver'
  BY <1>3 DEF OneDriver
<1>7. CashoutQueueFresh'
  BY DEF CashoutQueueFresh, Running
<1> QED
  BY <1>4, <1>5, <1>6, <1>7 DEF LoopInv

LEMMA LoopInvTick ==
  ASSUME TypeOK, LoopInv, OnTick
  PROVE  LoopInv'
<1>1. PICK m \in Multipliers : TickFlies(m) \/ TickCrashes(m)
  BY DEF OnTick
<1>2. /\ current \in DOMAIN rounds /\ rounds[current].state = "RUNNING"
      /\ rounds' \in Seq(Round) /\ Len(rounds') = Len(rounds) /\ DOMAIN rounds' = DOMAIN rounds
      /\ \A r \in DOMAIN rounds :
           rounds'[r] = IF r = current THEN Tick(rounds[r], m) ELSE rounds[r]
  BY <1>1, TickStep
<1>3. /\ rounds \in Seq(Round) /\ rounds[current] \in Round /\ Len(rounds) \in Nat
      /\ DOMAIN rounds = 1..Len(rounds)
  BY <1>2 DEF TypeOK, LoopTypeOK
<1>4. /\ rounds'[current].currentMultiplier = m
      /\ rounds'[current].crashPoint = rounds[current].crashPoint
      /\ rounds'[current].state =
           IF m >= rounds[current].crashPoint THEN "CRASHED" ELSE "RUNNING"
      /\ rounds[current].crashPoint \in Nat /\ m \in Nat
  BY <1>2, <1>3, TickRound, RoundNumbers, MultipliersAssumption
<1>5. current = Len(rounds)
  BY <1>2, <1>3 DEF LoopInv, RoundsInv
<1>6. /\ UNCHANGED <<engine, current, task>> /\ cashoutQueue' = <<>> /\ ticking
      /\ engine # "off"
  BY <1>1 DEF TickFlies, TickCrashes, Ticks, Listening
<1>7. IF m >= rounds[current].crashPoint
      THEN ticking' = FALSE /\ timer' = IF Running THEN "newRound" ELSE timer
      ELSE ticking' = ticking /\ timer' = timer
  BY <1>1, <1>4 DEF TickFlies, TickCrashes
<1>8. timer = "none" /\ task.at = "idle"
  BY <1>6 DEF LoopInv, PhaseInv
<1>9. RoundsInv'
  BY <1>2, <1>3, <1>4, <1>5, <1>6 DEF LoopInv, RoundsInv, Running
<1>10. PhaseInv'
  <2>1. task'.at = "idle" /\ Len(rounds') # 0
    BY <1>2, <1>3, <1>5, <1>6, <1>8
  <2>2. timer' # "none" => ~ticking' /\ rounds'[Len(rounds')].state = "CRASHED"
    BY <1>2, <1>4, <1>5, <1>7, <1>8
  <2>3. ticking' => rounds'[Len(rounds')].state = "RUNNING"
    BY <1>2, <1>4, <1>5, <1>7
  <2>4. timer' # "endBetting"
    BY <1>7, <1>8
  <2> QED
    BY <2>1, <2>2, <2>3, <2>4 DEF PhaseInv, Newest
<1>11. OneDriver'
  BY <1>6, <1>7, <1>8 DEF OneDriver, Running
<1>12. CashoutQueueFresh'
  BY <1>6 DEF CashoutQueueFresh
<1> QED
  BY <1>9, <1>10, <1>11, <1>12 DEF LoopInv

LEMMA LoopInvStep == TypeOK /\ LoopInv /\ [Next]_vars => LoopInv'
<1> SUFFICES ASSUME TypeOK, LoopInv, [Next]_vars PROVE LoopInv'
  OBVIOUS
<1>0. LoopTypeOK /\ QueueTypeOK /\ rounds \in Seq(Round) /\ DOMAIN rounds = 1..Len(rounds)
      /\ Len(rounds) \in Nat
  BY DEF TypeOK, LoopTypeOK
<1>1. CASE Start \/ NewRoundTimer
  BY <1>1, LoopInvBegin
<1>2. CASE RoundAnnounced
  <2>1. /\ task.at = "announcing" /\ timer' = "endBetting" /\ task'.at = "idle"
        /\ engine # "off"
        /\ UNCHANGED <<engine, rounds, current, ticking, cashoutQueue>>
    BY <1>2, IdleTask DEF RoundAnnounced, roundVars, Listening
  <2>2. ~ticking /\ Len(rounds) # 0 /\ Newest.state = "BETTING"
    BY <1>0, <2>1 DEF LoopInv, PhaseInv, LoopTypeOK
  <2>3. RoundsInv' /\ CashoutQueueFresh'
    BY <2>1 DEF LoopInv, RoundsInv, CashoutQueueFresh, Running, CurrentState
  <2>4. PhaseInv' /\ OneDriver'
    BY <2>1, <2>2 DEF PhaseInv, OneDriver, Newest
  <2> QED
    BY <2>3, <2>4 DEF LoopInv
<1>3. CASE EndBettingPhase
  <2>1. /\ timer = "endBetting" /\ timer' = "none" /\ engine # "off"
        /\ UNCHANGED <<engine, current, ticking, cashoutQueue>>
    BY <1>3 DEF EndBettingPhase, Listening
  <2>2. ~ticking /\ Len(rounds) # 0 /\ Newest.state = "BETTING"
    BY <2>1 DEF LoopInv, PhaseInv
  <2>3. CASE Running /\ current # 0
    <3>1. current = Len(rounds)
      BY <2>3 DEF LoopInv, RoundsInv
    <3>2. current \in DOMAIN rounds
      BY <1>0, <2>2, <3>1
    <3>3. placeBetQueue \in Seq(PlaceBetCommand)
      BY <1>0 DEF QueueTypeOK
    <3>4. PlaceNext(placeBetQueue, current)
      BY <1>3, <2>3 DEF EndBettingPhase
    <3>5. cashoutQueue = <<>>
      BY <2>2, <2>3, <3>1 DEF LoopInv, CashoutQueueFresh, CurrentState, Newest
    <3> QED
      BY <2>1, <2>2, <3>1, <3>2, <3>3, <3>4, <3>5, LoopInvPlaceNext
  <2>4. CASE ~(Running /\ current # 0)
    <3>1. UNCHANGED <<rounds, task>> /\ ~Running
      BY <1>3, <2>4 DEF EndBettingPhase, LoopInv, RoundsInv
    <3> QED
      BY <2>1, <2>2, <3>1 DEF LoopInv, RoundsInv, PhaseInv, OneDriver, CashoutQueueFresh,
         Running, Newest
  <2> QED
    BY <2>3, <2>4
<1>4. CASE DebitOk \/ DebitRefused
  <2>1. /\ task.at = "debit" /\ task'.at = "reply" /\ task'.round = task.round
        /\ UNCHANGED <<engine, rounds, current, timer, ticking, cashoutQueue>>
    BY <1>0, <1>4, DebitStep
  <2> QED
    BY <2>1 DEF LoopInv, RoundsInv, PhaseInv, OneDriver, CashoutQueueFresh, Running, Newest,
       CurrentState
<1>5. CASE DebitThrows
  <2>1. /\ engine' = "dead"
        /\ UNCHANGED <<rounds, current, timer, ticking, cashoutQueue, task>>
    BY <1>5 DEF DebitThrows, roundVars, driverVars
  <2> QED
    BY <2>1 DEF LoopInv, RoundsInv, PhaseInv, OneDriver, CashoutQueueFresh, Running, Newest
<1>6. CASE ReplyPublished
  <2>1. /\ task.at = "reply" /\ PlaceNext(Tail(task.todo), task.round) /\ engine # "off"
        /\ UNCHANGED <<engine, current, timer, ticking, cashoutQueue>>
    BY <1>6 DEF ReplyPublished, Listening
  <2>2. task.round \in DOMAIN rounds /\ task.todo # <<>> /\ task.todo \in Seq(PlaceBetCommand)
    BY <1>0, <2>1 DEF LoopTypeOK, Task
  <2>3. Tail(task.todo) \in Seq(PlaceBetCommand)
    BY <2>2, SeqTail
  <2>4. task.round = Len(rounds) /\ ~ticking /\ timer = "none" /\ Newest.state = "BETTING"
    BY <2>1 DEF LoopInv, PhaseInv
  <2>5. Running => cashoutQueue = <<>>
    BY <2>4 DEF LoopInv, RoundsInv, CashoutQueueFresh, CurrentState, Newest
  <2> QED
    BY <2>1, <2>2, <2>3, <2>4, <2>5, LoopInvPlaceNext
<1>7. CASE RoundStarted
  <2>1. /\ task.at = "starting" /\ ticking' = TRUE /\ task'.at = "idle" /\ engine # "off"
        /\ UNCHANGED <<engine, rounds, current, timer, cashoutQueue>>
    BY <1>7, IdleTask DEF RoundStarted, roundVars, Listening
  <2>2. timer = "none" /\ Len(rounds) # 0 /\ Newest.state = "RUNNING"
    BY <1>0, <2>1 DEF LoopInv, PhaseInv, LoopTypeOK
  <2>3. RoundsInv' /\ CashoutQueueFresh'
    BY <2>1 DEF LoopInv, RoundsInv, CashoutQueueFresh, Running, CurrentState
  <2>4. PhaseInv' /\ OneDriver'
    BY <2>1, <2>2 DEF PhaseInv, OneDriver, Newest
  <2> QED
    BY <2>3, <2>4 DEF LoopInv
<1>8. CASE OnTick
  BY <1>8, LoopInvTick
<1>9. CASE FlushEvents \/ CreditReturned \/ \E cmd \in PlaceBetCommands : PlaceBetReceived(cmd)
  <2>1. UNCHANGED <<engine, rounds, current, timer, ticking, cashoutQueue, task>>
    BY <1>9 DEF FlushEvents, CreditReturned, CreditReturns, PlaceBetReceived, roundVars,
       driverVars
  <2> QED
    BY <2>1, LoopInvSame
<1>10. CASE \E cmd \in CashoutCommands : CashoutReceived(cmd)
  <2>1. PICK cmd \in CashoutCommands : CashoutReceived(cmd)
    BY <1>10
  <2>2. /\ UNCHANGED <<engine, rounds, current, timer, ticking, task>> /\ engine # "off"
        /\ CurrentState = "RUNNING" /\ cmd.roundId = current
        /\ cashoutQueue' = Append(cashoutQueue, cmd)
    BY <2>1 DEF CashoutReceived, QueuesCashout, roundVars, driverVars, Listening
  <2>3. cashoutQueue \in Seq(CashoutCommand) /\ cmd \in CashoutCommand
    BY <1>0, CashoutCommandsTyped DEF QueueTypeOK
  <2>4. \A i \in DOMAIN cashoutQueue' :
          \/ cashoutQueue'[i] = cmd
          \/ i \in DOMAIN cashoutQueue /\ cashoutQueue'[i] = cashoutQueue[i]
    <3>1. /\ DOMAIN cashoutQueue' = DOMAIN cashoutQueue \cup {Len(cashoutQueue) + 1}
          /\ cashoutQueue'[Len(cashoutQueue) + 1] = cmd
          /\ \A i \in DOMAIN cashoutQueue : cashoutQueue'[i] = cashoutQueue[i]
      BY <2>2, <2>3, SeqAppend
    <3> QED
      BY <3>1
  <2>5. CashoutQueueFresh'
    <3>1. Running => \A i \in DOMAIN cashoutQueue : cashoutQueue[i].roundId = current
      <4>1. cashoutQueue = <<>> => DOMAIN cashoutQueue = {}
        OBVIOUS
      <4> QED
        BY <4>1 DEF LoopInv, CashoutQueueFresh
    <3>2. Running => \A i \in DOMAIN cashoutQueue' : cashoutQueue'[i].roundId = current
      BY <2>2, <2>4, <3>1
    <3> QED
      BY <2>2, <3>2 DEF CashoutQueueFresh, CurrentState, Running
  <2>6. RoundsInv' /\ PhaseInv' /\ OneDriver'
    BY <2>2 DEF LoopInv, RoundsInv, PhaseInv, OneDriver, Running, Newest
  <2> QED
    BY <2>5, <2>6 DEF LoopInv
<1>11. CASE Stop
  <2>1. /\ engine' = "stopped" /\ timer' = "none" /\ ticking' = FALSE /\ current' = 0
        /\ UNCHANGED <<rounds, task, cashoutQueue>>
    BY <1>11 DEF Stop
  <2> QED
    BY <2>1 DEF LoopInv, RoundsInv, PhaseInv, OneDriver, CashoutQueueFresh, Running, Newest
<1>12. CASE UNCHANGED vars
  BY <1>12, LoopInvSame DEF vars, roundVars, driverVars
<1> QED
  BY <1>1, <1>2, <1>3, <1>4, <1>5, <1>6, <1>7, <1>8, <1>9, <1>10, <1>11, <1>12 DEF Next

LEMMA LoopInvariant == Safety => []LoopInv
<1>1. TypeOK /\ LoopInv /\ [Next]_vars => LoopInv'
  BY LoopInvStep
<1> QED
  BY <1>1, LoopInvInit, TypeCorrect, PTL DEF Safety

\* While the loop runs exactly one of a timeout, the interval and a suspended
\* async function drives it on: it neither stalls nor runs two phases at once.
THEOREM ExactlyOneDriver == Safety => []OneDriver
<1>1. LoopInv => OneDriver
  BY DEF LoopInv
<1> QED
  BY <1>1, LoopInvariant, PTL

\* No cashout command outlives the round it was queued for.
THEOREM CashoutsStayInTheirRound == Safety => []CashoutQueueFresh
<1>1. LoopInv => CashoutQueueFresh
  BY DEF LoopInv
<1> QED
  BY <1>1, LoopInvariant, PTL

-----------------------------------------------------------------------------
(* Bets and money *)

\* A won bet is paid at a multiplier that its round had before it crashed.
PaidInv ==
  \A b \in DOMAIN bets :
    bets[b].status = "WON" =>
      /\ bets[b].cashoutMultiplier <= rounds[bets[b].round].crashPoint
      /\ bets[b].payoutCents = Payout(bets[b].amountCents, bets[b].cashoutMultiplier)

BetsInv == NoRefundNeeded /\ CrashSettlesAll /\ CreditedExactlyOnce /\ PaidInv

LEMMA BetsInvInit == Init => BetsInv
<1> SUFFICES ASSUME Init PROVE BetsInv
  OBVIOUS
<1>1. DOMAIN bets = {}
  BY DEF Init
<1> QED
  BY <1>1 DEF BetsInv, NoRefundNeeded, CrashSettlesAll, CreditedExactlyOnce, PaidInv

\* A step that keeps bets and credits keeps BetsInv when all it does to a round
\* is to open it or to let it fly.
LEMMA BetsInvRounds ==
  ASSUME TypeOK, BetsInv, UNCHANGED <<bets, credits>>,
         \A r \in DOMAIN rounds :
           /\ rounds'[r].crashPoint = rounds[r].crashPoint
           /\ \/ rounds'[r].state = rounds[r].state
              \/ rounds[r].state = "BETTING" /\ rounds'[r].state = "RUNNING"
  PROVE  BetsInv'
<1>1. \A b \in DOMAIN bets : bets[b].round \in DOMAIN rounds
  BY DEF TypeOK, BetTypeOK
<1>2. NoRefundNeeded' /\ CreditedExactlyOnce'
  BY DEF BetsInv, NoRefundNeeded, CreditedExactlyOnce
<1>3. CrashSettlesAll'
  BY <1>1 DEF BetsInv, CrashSettlesAll
<1>4. PaidInv'
  BY <1>1 DEF BetsInv, PaidInv
<1> QED
  BY <1>2, <1>3, <1>4 DEF BetsInv

LEMMA BetsInvPlaceNext ==
  ASSUME TypeOK, BetsInv, NEW todo \in Seq(PlaceBetCommand), NEW r \in DOMAIN rounds,
         PlaceNext(todo, r), UNCHANGED <<bets, credits>>
  PROVE  BetsInv'
<1>1. LoopTypeOK /\ \A i \in DOMAIN rounds : rounds[i] \in Round
  BY DEF TypeOK, LoopTypeOK
<1>2. ASSUME NEW i \in DOMAIN rounds
      PROVE  /\ rounds'[i].crashPoint = rounds[i].crashPoint
             /\ \/ rounds'[i].state = rounds[i].state
                \/ rounds[i].state = "BETTING" /\ rounds'[i].state = "RUNNING"
  <2>1. CASE todo = <<>> /\ i = r
    <3>1. rounds'[i] = StartFlying(rounds[i]) /\ rounds[i].state = "BETTING"
      BY <1>1, <2>1, PlaceNextStep
    <3> QED
      BY <1>1, <3>1, StartFlyingRound
  <2>2. CASE ~(todo = <<>> /\ i = r)
    BY <1>1, <2>2, PlaceNextStep
  <2> QED
    BY <2>1, <2>2
<1> QED
  BY <1>2, BetsInvRounds

LEMMA BetsInvDebitOk ==
  ASSUME TypeOK, LoopInv, BetsInv, DebitOk
  PROVE  BetsInv'
<1>1. task.at = "debit" /\ rounds' = rounds
  BY DEF DebitOk, roundVars
<1>2. rounds[task.round].state = "BETTING"
  BY <1>1 DEF LoopInv, PhaseInv, Newest
<1>3. PICK bet : /\ bets' = Append(bets, bet) /\ bet.status = "ACTIVE" /\ bet.round = task.round
                 /\ credits' = Append(credits, <<>>)
  BY <1>2 DEF DebitOk
<1>4. bets \in Seq(Bet) /\ credits \in Seq(Seq(Credit)) /\ Len(credits) = Len(bets)
      /\ DOMAIN bets = 1..Len(bets) /\ Len(bets) \in Nat /\ DOMAIN credits = DOMAIN bets
  BY DEF TypeOK, BetTypeOK
<1>5. /\ DOMAIN bets' = DOMAIN bets \cup {Len(bets) + 1}
      /\ \A b \in DOMAIN bets : bets'[b] = bets[b] /\ credits'[b] = credits[b]
      /\ bets'[Len(bets) + 1] = bet /\ credits'[Len(bets) + 1] = <<>>
  BY <1>3, <1>4
<1>6. NoRefundNeeded'
  BY <1>3, <1>5 DEF BetsInv, NoRefundNeeded
<1>7. CrashSettlesAll'
  BY <1>1, <1>2, <1>3, <1>5 DEF BetsInv, CrashSettlesAll
<1>8. CreditedExactlyOnce'
  <2>1. ASSUME NEW b \in DOMAIN bets
        PROVE  IF bets'[b].status = "WON"
               THEN Len(credits'[b]) = 1 /\ credits'[b][1].cents = bets'[b].payoutCents
               ELSE credits'[b] = <<>>
    BY <1>5 DEF BetsInv, CreditedExactlyOnce
  <2>2. bets'[Len(bets) + 1].status # "WON" /\ credits'[Len(bets) + 1] = <<>>
    BY <1>3, <1>5
  <2> QED
    BY <1>5, <2>1, <2>2 DEF CreditedExactlyOnce
<1>9. PaidInv'
  BY <1>1, <1>3, <1>5 DEF BetsInv, PaidInv
<1> QED
  BY <1>6, <1>7, <1>8, <1>9 DEF BetsInv

LEMMA BetsInvTick ==
  ASSUME TypeOK, LoopInv, BetsInv, OnTick
  PROVE  BetsInv'
<1>1. PICK m \in Multipliers : TickFlies(m) \/ TickCrashes(m)
  BY DEF OnTick
<1>2. PICK won, lost \in SUBSET ActiveBets(current) :
        /\ won \cap lost = {}
        /\ lost = IF TickCrashes(m) THEN ActiveBets(current) \ won ELSE {}
        /\ Settle(won, lost, rounds[current].currentMultiplier)
  BY <1>1, TickSettles
<1> DEFINE paidAt == rounds[current].currentMultiplier
<1>3. /\ current \in DOMAIN rounds /\ rounds[current].state = "RUNNING"
      /\ DOMAIN rounds' = DOMAIN rounds
      /\ \A r \in DOMAIN rounds :
           rounds'[r] = IF r = current THEN Tick(rounds[r], m) ELSE rounds[r]
  BY <1>1, TickStep
<1>4. BetTypeOK /\ \A r \in DOMAIN rounds : rounds[r] \in Round
  BY DEF TypeOK, LoopTypeOK
<1>5. /\ \A r \in DOMAIN rounds : rounds'[r].crashPoint = rounds[r].crashPoint
      /\ rounds'[current].state = IF m >= rounds[current].crashPoint THEN "CRASHED" ELSE "RUNNING"
      /\ rounds[current].crashPoint \in Nat /\ m \in Nat /\ paidAt \in Nat
  BY <1>3, <1>4, TickRound, RoundNumbers, MultipliersAssumption
<1>6. TickCrashes(m) <=> rounds'[current].state = "CRASHED"
  BY <1>1, <1>5 DEF TickFlies, TickCrashes
<1>7. paidAt <= rounds[current].crashPoint
  BY <1>3 DEF LoopInv, RoundsInv
<1>8. /\ DOMAIN bets' = DOMAIN bets /\ DOMAIN credits = DOMAIN bets
      /\ \A b \in DOMAIN bets :
           /\ b \in won => /\ bets'[b] = Cashout(bets[b], paidAt)
                           /\ credits'[b] = Append(credits[b],
                                [cents |-> Payout(bets[b].amountCents, paidAt),
                                 outcome |-> "pending"])
           /\ b \in lost => bets'[b] = Lose(bets[b]) /\ credits'[b] = credits[b]
           /\ b \notin won \cup lost => bets'[b] = bets[b] /\ credits'[b] = credits[b]
  BY <1>2, <1>4, <1>5, SettleStep
<1>9. ASSUME NEW b \in DOMAIN bets
      PROVE  /\ b \in won \/ b \in lost \/ b \notin won \cup lost
             /\ b \in won \cup lost => bets[b].round = current /\ bets[b].status = "ACTIVE"
             /\ b \in won =>
                  /\ bets'[b].status = "WON" /\ bets'[b].round = current
                  /\ bets'[b].cashoutMultiplier = paidAt
                  /\ bets'[b].amountCents = bets[b].amountCents
                  /\ bets'[b].payoutCents = Payout(bets[b].amountCents, paidAt)
                  /\ Len(credits'[b]) = 1 /\ credits'[b][1].cents = bets'[b].payoutCents
             /\ b \in lost =>
                  /\ bets'[b].status = "LOST" /\ bets'[b].round = current
                  /\ credits'[b] = <<>>
  <2>1. bets[b] \in Bet
    BY <1>4 DEF BetTypeOK
  <2>2. b \in won \cup lost => bets[b].round = current /\ bets[b].status = "ACTIVE"
    BY <1>2 DEF ActiveBets
  <2>3. b \in won \cup lost => credits[b] = <<>>
    BY <2>2 DEF BetsInv, CreditedExactlyOnce
  <2>4. ASSUME b \in won
        PROVE  /\ bets'[b].status = "WON" /\ bets'[b].round = bets[b].round
               /\ bets'[b].cashoutMultiplier = paidAt
               /\ bets'[b].amountCents = bets[b].amountCents
               /\ bets'[b].payoutCents = Payout(bets[b].amountCents, paidAt)
    <3>1. bets'[b] = Cashout(bets[b], paidAt)
      BY <1>8, <2>4
    <3> HIDE DEF paidAt
    <3> QED
      BY <1>5, <2>1, <3>1, CashoutBet
  <2>5. ASSUME b \in won
        PROVE  Len(credits'[b]) = 1 /\ credits'[b][1].cents = Payout(bets[b].amountCents, paidAt)
    <3> DEFINE call == [cents |-> Payout(bets[b].amountCents, paidAt), outcome |-> "pending"]
    <3>1. credits'[b] = Append(credits[b], call) /\ credits[b] = <<>>
      BY <1>8, <2>3, <2>5
    <3>2. call.cents = Payout(bets[b].amountCents, paidAt)
      OBVIOUS
    <3> HIDE DEF call
    <3>3. Len(credits'[b]) = 1 /\ credits'[b][1] = call
      BY <3>1
    <3> QED
      BY <3>2, <3>3
  <2>6. ASSUME b \in lost
        PROVE  bets'[b].status = "LOST" /\ bets'[b].round = bets[b].round /\ credits'[b] = <<>>
    <3>1. bets'[b] = Lose(bets[b]) /\ credits'[b] = credits[b]
      BY <1>8, <2>6
    <3> QED
      BY <2>1, <2>3, <2>6, <3>1, LoseBet
  <2> QED
    BY <2>2, <2>4, <2>5, <2>6
<1> HIDE DEF paidAt
<1>10. NoRefundNeeded'
  BY <1>8, <1>9 DEF BetsInv, NoRefundNeeded
<1>11. CrashSettlesAll'
  <2> SUFFICES ASSUME NEW b \in DOMAIN bets
               PROVE  /\ rounds'[bets'[b].round].state = "CRASHED" => bets'[b].status \in {"WON", "LOST"}
                      /\ bets'[b].status = "LOST" => rounds'[bets'[b].round].state = "CRASHED"
                      /\ bets'[b].status = "WON" =>
                           rounds'[bets'[b].round].state \in {"RUNNING", "CRASHED"}
    BY <1>8 DEF CrashSettlesAll
  <2>1. bets[b].round \in DOMAIN rounds /\ bets[b].status \in {"PENDING", "ACTIVE", "WON", "LOST"}
    <3>1. bets[b] \in Bet /\ bets[b].round \in DOMAIN rounds
      BY <1>4 DEF BetTypeOK
    <3> QED
      BY <3>1 DEF Bet
  <2>2. CASE b \in won
    BY <1>5, <1>9, <2>2
  <2>3. CASE b \in lost
    BY <1>2, <1>6, <1>9, <2>3
  <2>4. CASE b \notin won \cup lost
    <3>1. bets'[b] = bets[b]
      BY <1>8, <2>4
    <3>2. CASE bets[b].round = current
      <4>1. bets[b].status # "LOST"
        BY <1>3, <3>2 DEF BetsInv, CrashSettlesAll
      <4>2. rounds'[current].state = "CRASHED" => bets[b].status # "ACTIVE"
        BY <1>2, <1>6, <2>4, <3>2 DEF ActiveBets
      <4>3. bets[b].status # "PENDING"
        BY DEF BetsInv, NoRefundNeeded
      <4> QED
        BY <1>5, <2>1, <3>1, <3>2, <4>1, <4>2, <4>3
    <3>3. CASE bets[b].round # current
      BY <1>3, <2>1, <3>1, <3>3 DEF BetsInv, CrashSettlesAll
    <3> QED
      BY <3>2, <3>3
  <2> QED
    BY <2>2, <2>3, <2>4
<1>12. CreditedExactlyOnce'
  BY <1>8, <1>9 DEF BetsInv, CreditedExactlyOnce
<1>13. PaidInv'
  <2> SUFFICES ASSUME NEW b \in DOMAIN bets, bets'[b].status = "WON"
               PROVE  /\ bets'[b].cashoutMultiplier <= rounds'[bets'[b].round].crashPoint
                      /\ bets'[b].payoutCents =
                           Payout(bets'[b].amountCents, bets'[b].cashoutMultiplier)
    BY <1>8 DEF PaidInv
  <2>1. CASE b \in won
    BY <1>3, <1>5, <1>7, <1>9, <2>1
  <2>2. CASE b \notin won
    <3>1. bets'[b] = bets[b] /\ bets[b].round \in DOMAIN rounds
      BY <1>4, <1>8, <1>9, <2>2 DEF BetTypeOK
    <3> QED
      BY <1>5, <3>1 DEF BetsInv, PaidInv
  <2> QED
    BY <2>1, <2>2
<1> QED
  BY <1>10, <1>11, <1>12, <1>13 DEF BetsInv

LEMMA BetsInvCredit ==
  ASSUME TypeOK, BetsInv, CreditReturned
  PROVE  BetsInv'
<1>1. PICK b \in DOMAIN credits : \E i \in DOMAIN credits[b] :
        \E outcome \in {"ok", "refused", "throws"} : CreditReturns(b, i, outcome)
  BY DEF CreditReturned
<1>2. PICK i \in DOMAIN credits[b] :
        \E outcome \in {"ok", "refused", "throws"} : CreditReturns(b, i, outcome)
  BY <1>1
<1>3. PICK outcome \in {"ok", "refused", "throws"} : CreditReturns(b, i, outcome)
  BY <1>2
<1>4. UNCHANGED <<rounds, bets>>
  BY <1>3 DEF CreditReturns, roundVars
<1>5. credits \in Seq(Seq(Credit)) /\ credits[b] \in Seq(Credit) /\ credits[b][i] \in Credit
      /\ DOMAIN credits = DOMAIN bets
  BY DEF TypeOK, BetTypeOK
<1> DEFINE result == IF outcome = "ok" THEN "paid" ELSE "failed"
           call == [credits[b][i] EXCEPT !.outcome = result]
           calls == [credits[b] EXCEPT ![i] = call]
<1>6. credits' = [credits EXCEPT ![b] = calls]
  BY <1>3 DEF CreditReturns
<1>7. call \in Credit /\ call.cents = credits[b][i].cents
  BY <1>5 DEF Credit
<1> HIDE DEF call
<1>8. /\ calls \in Seq(Credit) /\ Len(calls) = Len(credits[b])
      /\ \A j \in DOMAIN credits[b] : calls[j].cents = credits[b][j].cents
  BY <1>5, <1>7, SeqUpdate
<1> HIDE DEF calls
<1>9. \A c \in DOMAIN bets : credits'[c] = IF c = b THEN calls ELSE credits[c]
  BY <1>5, <1>6, <1>8, SeqUpdate
<1>10. CreditedExactlyOnce'
  <2> SUFFICES ASSUME NEW c \in DOMAIN bets
               PROVE  IF bets[c].status = "WON"
                      THEN Len(credits'[c]) = 1 /\ credits'[c][1].cents = bets[c].payoutCents
                      ELSE credits'[c] = <<>>
    BY <1>4 DEF CreditedExactlyOnce
  <2>1. IF bets[c].status = "WON"
        THEN Len(credits[c]) = 1 /\ credits[c][1].cents = bets[c].payoutCents
        ELSE credits[c] = <<>>
    BY DEF BetsInv, CreditedExactlyOnce
  <2>2. CASE c = b
    <3>1. credits[b] # <<>>
      BY <1>5
    <3>2. Len(credits[b]) = 1 /\ credits[b][1].cents = bets[b].payoutCents
          /\ bets[b].status = "WON"
      BY <2>1, <2>2, <3>1
    <3>3. 1 \in DOMAIN credits[b]
      BY <1>5, <3>2
    <3> QED
      BY <1>8, <1>9, <2>2, <3>2, <3>3
  <2>3. CASE c # b
    BY <1>9, <2>1, <2>3
  <2> QED
    BY <2>2, <2>3
<1>11. NoRefundNeeded' /\ CrashSettlesAll' /\ PaidInv'
  BY <1>4 DEF BetsInv, NoRefundNeeded, CrashSettlesAll, PaidInv
<1> QED
  BY <1>10, <1>11 DEF BetsInv

LEMMA BetsInvStep == TypeOK /\ LoopInv /\ BetsInv /\ [Next]_vars => BetsInv'
<1> SUFFICES ASSUME TypeOK, LoopInv, BetsInv, [Next]_vars PROVE BetsInv'
  OBVIOUS
<1>0. LoopTypeOK /\ QueueTypeOK
  BY DEF TypeOK
<1>a. ASSUME UNCHANGED <<rounds, bets, credits>> PROVE BetsInv'
  BY <1>a, BetsInvRounds
<1>1. CASE Start \/ NewRoundTimer
  <2>1. BeginRound
    BY <1>1 DEF Start, NewRoundTimer
  <2>2. \A r \in DOMAIN rounds : rounds'[r] = rounds[r]
    BY <1>0, <2>1, BeginRoundStep
  <2>3. UNCHANGED <<bets, credits>>
    BY <2>1 DEF BeginRound
  <2> QED
    BY <2>2, <2>3, BetsInvRounds
<1>2. CASE RoundAnnounced \/ DebitRefused \/ DebitThrows \/ RoundStarted
  BY <1>2, <1>a DEF RoundAnnounced, DebitRefused, DebitThrows, RoundStarted, roundVars, betVars
<1>3. CASE EndBettingPhase
  <2>1. CASE Running /\ current # 0
    <3>1. current \in DOMAIN rounds
      BY <1>0, <2>1 DEF LoopTypeOK
    <3>2. placeBetQueue \in Seq(PlaceBetCommand)
      BY <1>0 DEF QueueTypeOK
    <3>3. PlaceNext(placeBetQueue, current) /\ UNCHANGED <<bets, credits>>
      BY <1>3, <2>1 DEF EndBettingPhase, betVars
    <3> QED
      BY <3>1, <3>2, <3>3, BetsInvPlaceNext
  <2>2. CASE ~(Running /\ current # 0)
    BY <1>3, <1>a, <2>2 DEF EndBettingPhase, betVars
  <2> QED
    BY <2>1, <2>2
<1>4. CASE DebitOk
  BY <1>4, BetsInvDebitOk
<1>5. CASE ReplyPublished
  <2>1. task.at = "reply" /\ PlaceNext(Tail(task.todo), task.round) /\ UNCHANGED <<bets, credits>>
    BY <1>5 DEF ReplyPublished, betVars
  <2>2. task.round \in DOMAIN rounds /\ task.todo # <<>> /\ task.todo \in Seq(PlaceBetCommand)
    BY <1>0, <2>1 DEF LoopTypeOK, Task
  <2>3. Tail(task.todo) \in Seq(PlaceBetCommand)
    BY <2>2, SeqTail
  <2> QED
    BY <2>1, <2>2, <2>3, BetsInvPlaceNext
<1>6. CASE OnTick
  BY <1>6, BetsInvTick
<1>7. CASE FlushEvents \/ (\E cmd \in PlaceBetCommands : PlaceBetReceived(cmd))
           \/ (\E cmd \in CashoutCommands : CashoutReceived(cmd))
  BY <1>7, <1>a DEF FlushEvents, PlaceBetReceived, CashoutReceived, roundVars, betVars
<1>8. CASE CreditReturned
  BY <1>8, BetsInvCredit
<1>9. CASE Stop
  BY <1>9, <1>a DEF Stop
<1>10. CASE UNCHANGED vars
  BY <1>10, <1>a DEF vars, roundVars, betVars
<1> QED
  BY <1>1, <1>2, <1>3, <1>4, <1>5, <1>6, <1>7, <1>8, <1>9, <1>10 DEF Next

LEMMA BetsInvariant == Safety => []BetsInv
<1>1. TypeOK /\ LoopInv /\ BetsInv /\ [Next]_vars => BetsInv'
  BY BetsInvStep
<1> QED
  BY <1>1, BetsInvInit, TypeCorrect, LoopInvariant, PTL DEF Safety

\* A debit never comes back to a round that has left its betting phase, so that
\* the compensating refund of PlaceBetUseCase is never needed.
THEOREM NoRefund == Safety => []NoRefundNeeded
<1>1. BetsInv => NoRefundNeeded
  BY DEF BetsInv
<1> QED
  BY <1>1, BetsInvariant, PTL

\* Every bet of a crashed round is settled, and only there are bets lost.
THEOREM CrashSettles == Safety => []CrashSettlesAll
<1>1. BetsInv => CrashSettlesAll
  BY DEF BetsInv
<1> QED
  BY <1>1, BetsInvariant, PTL

\* A bet that won is credited once, with its payout; no other bet is credited.
THEOREM CreditedOnce == Safety => []CreditedExactlyOnce
<1>1. BetsInv => CreditedExactlyOnce
  BY DEF BetsInv
<1> QED
  BY <1>1, BetsInvariant, PTL

\* Payouts grow with the multiplier.
LEMMA PayoutMonotone ==
  ASSUME NEW a \in Nat, NEW m \in Nat, NEW n \in Nat, m <= n
  PROVE  Payout(a, m) <= Payout(a, n)
<1>1. a * m \in Nat /\ a * n \in Nat
  OBVIOUS
<1>2. a * m <= a * n
  <2>1. PICK d \in Nat : n = m + d
    <3>1. n - m \in Nat /\ n = m + (n - m)
      OBVIOUS
    <3> QED
      BY <3>1
  <2>2. a * n = a * m + a * d /\ a * d \in Nat
    BY <2>1
  <2> QED
    BY <1>1, <2>2
<1>3. \A x, y \in Nat : x <= y => x \div 100 <= y \div 100
  OBVIOUS
<1> QED
  BY <1>1, <1>2, <1>3 DEF Payout

\* No bet pays more than its stake times its round's crash point.
THEOREM PayoutBounded == Safety => []PayoutWithinCrashPoint
<1>1. TypeOK /\ BetsInv => PayoutWithinCrashPoint
  <2> SUFFICES ASSUME TypeOK, BetsInv, NEW b \in DOMAIN bets, bets[b].status = "WON"
               PROVE  bets[b].payoutCents <=
                        Payout(bets[b].amountCents, rounds[bets[b].round].crashPoint)
    BY DEF PayoutWithinCrashPoint
  <2>1. bets[b] \in Bet /\ rounds[bets[b].round] \in Round
    BY DEF TypeOK, BetTypeOK, LoopTypeOK
  <2>2. bets[b].amountCents \in Nat /\ bets[b].cashoutMultiplier \in Nat
    BY <2>1 DEF Bet
  <2>3. rounds[bets[b].round].crashPoint \in Nat
    BY <2>1, RoundNumbers
  <2>4. /\ bets[b].cashoutMultiplier <= rounds[bets[b].round].crashPoint
        /\ bets[b].payoutCents = Payout(bets[b].amountCents, bets[b].cashoutMultiplier)
    BY DEF BetsInv, PaidInv
  <2> QED
    BY <2>2, <2>3, <2>4, PayoutMonotone
<1> QED
  BY <1>1, TypeCorrect, BetsInvariant, PTL

-----------------------------------------------------------------------------
(* Place-bet commands *)

\* What a captured queue leaves unanswered after the next step on it.
LEMMA ConservedPlaceNext ==
  ASSUME TypeOK, NEW todo \in Seq(PlaceBetCommand), NEW r \in DOMAIN rounds,
         PlaceNext(todo, r), UNCHANGED received,
         received = answered + Len(placeBetQueue') + Len(todo)
  PROVE  CommandsConserved'
<1>1. LoopTypeOK /\ answered \in Nat
  BY DEF TypeOK, QueueTypeOK
<1>2. CASE todo = <<>>
  <2>1. task'.at = "starting" /\ answered' = answered
    BY <1>1, <1>2, PlaceNextStep
  <2> QED
    BY <1>2, <2>1 DEF CommandsConserved, InTask
<1>3. CASE todo # <<>>
  <2>1. task'.todo = todo /\ (\/ task'.at = "debit" /\ answered' = answered
                              \/ task'.at = "reply" /\ answered' = answered + 1)
    BY <1>1, <1>3, PlaceNextStep
  <2>2. Len(todo) \in Nat
    OBVIOUS
  <2>3. CASE task'.at = "debit" /\ answered' = answered
    BY <2>1, <2>3 DEF CommandsConserved, InTask
  <2>4. CASE task'.at = "reply" /\ answered' = answered + 1
    <3>1. InTask' = Len(todo) - 1
      BY <2>1, <2>4 DEF InTask
    <3> QED
      BY <1>1, <2>2, <2>4, <3>1 DEF CommandsConserved
  <2> QED
    BY <2>1, <2>3, <2>4
<1> QED
  BY <1>2, <1>3

LEMMA ConservedStep == TypeOK /\ LoopInv /\ CommandsConserved /\ [Next]_vars => CommandsConserved'
<1> SUFFICES ASSUME TypeOK, LoopInv, CommandsConserved, [Next]_vars PROVE CommandsConserved'
  OBVIOUS
<1>0. /\ LoopTypeOK /\ QueueTypeOK /\ placeBetQueue \in Seq(PlaceBetCommand)
      /\ Len(placeBetQueue) \in Nat /\ answered \in Nat /\ received \in Nat
  BY DEF TypeOK, QueueTypeOK
<1>a. ASSUME UNCHANGED <<received, answered, placeBetQueue, task>> PROVE CommandsConserved'
  BY <1>a DEF CommandsConserved, InTask
<1>1. CASE Start \/ NewRoundTimer
  <2>1. BeginRound
    BY <1>1 DEF Start, NewRoundTimer
  <2>2. task.at = "idle"
    BY <1>1 DEF Start, NewRoundTimer, LoopInv, RoundsInv, PhaseInv
  <2>3. task'.at = "announcing"
    BY <1>0, <2>1, BeginRoundStep
  <2>4. placeBetQueue' = <<>> /\ answered' = answered + Len(placeBetQueue) /\ received' = received
    BY <2>1 DEF BeginRound, RejectStaleBets
  <2>5. InTask = 0 /\ InTask' = 0
    BY <2>2, <2>3 DEF InTask
  <2> QED
    BY <1>0, <2>4, <2>5 DEF CommandsConserved
<1>2. CASE RoundAnnounced \/ RoundStarted
  <2>1. task.at \in {"announcing", "starting"} /\ task'.at = "idle"
        /\ UNCHANGED <<received, answered, placeBetQueue>>
    BY <1>2, IdleTask DEF RoundAnnounced, RoundStarted, replyVars
  <2> QED
    BY <2>1 DEF CommandsConserved, InTask
<1>3. CASE EndBettingPhase
  <2>1. CASE Running /\ current # 0
    <3>1. current \in DOMAIN rounds
      BY <1>0, <2>1 DEF LoopTypeOK
    <3>2. PlaceNext(placeBetQueue, current) /\ placeBetQueue' = <<>> /\ received' = received
          /\ timer = "endBetting"
      BY <1>3, <2>1 DEF EndBettingPhase
    <3>3. InTask = 0
      BY <3>2 DEF LoopInv, PhaseInv, InTask
    <3>4. received = answered + Len(placeBetQueue') + Len(placeBetQueue)
      BY <1>0, <3>2, <3>3 DEF CommandsConserved
    <3> QED
      BY <1>0, <3>1, <3>2, <3>4, ConservedPlaceNext
  <2>2. CASE ~(Running /\ current # 0)
    BY <1>3, <1>a, <2>2 DEF EndBettingPhase
  <2> QED
    BY <2>1, <2>2
<1>4. CASE DebitOk \/ DebitRefused
  <2>1. /\ task.at = "debit" /\ task'.at = "reply" /\ task'.todo = task.todo
        /\ answered' = answered + 1 /\ UNCHANGED <<received, placeBetQueue>>
    BY <1>0, <1>4, DebitStep
  <2>2. InTask = Len(task.todo) /\ InTask' = Len(task.todo) - 1
    BY <2>1 DEF InTask
  <2>3. Len(task.todo) \in Nat
    BY <1>0 DEF LoopTypeOK, Task
  <2>4. received = answered + Len(placeBetQueue) + Len(task.todo)
    BY <2>2 DEF CommandsConserved
  <2>5. received = (answered + 1) + Len(placeBetQueue) + (Len(task.todo) - 1)
    <3>1. \A a, p, t \in Nat : a + p + t = (a + 1) + p + (t - 1)
      OBVIOUS
    <3>2. Len(placeBetQueue) \in Nat /\ answered \in Nat
      BY <1>0
    <3> QED
      BY <2>3, <2>4, <3>1, <3>2
  <2>6. received' = answered' + Len(placeBetQueue') + InTask'
    BY <2>1, <2>2, <2>5
  <2> QED
    BY <2>6 DEF CommandsConserved
<1>5. CASE ReplyPublished
  <2>1. task.at = "reply" /\ PlaceNext(Tail(task.todo), task.round)
        /\ UNCHANGED <<received, placeBetQueue>>
    BY <1>5 DEF ReplyPublished
  <2>2. task.round \in DOMAIN rounds /\ task.todo # <<>> /\ task.todo \in Seq(PlaceBetCommand)
    BY <1>0, <2>1 DEF LoopTypeOK, Task
  <2>3. Tail(task.todo) \in Seq(PlaceBetCommand) /\ Len(Tail(task.todo)) = Len(task.todo) - 1
    BY <2>2, SeqTail
  <2>4. received = answered + Len(placeBetQueue') + Len(Tail(task.todo))
    BY <2>1, <2>3 DEF CommandsConserved, InTask
  <2> QED
    BY <2>1, <2>2, <2>3, <2>4, ConservedPlaceNext
<1>6. CASE \E cmd \in PlaceBetCommands : PlaceBetReceived(cmd)
  <2>1. PICK cmd \in PlaceBetCommands : PlaceBetReceived(cmd)
    BY <1>6
  <2>2. received' = received + 1 /\ task' = task /\ cmd \in PlaceBetCommand
    BY <2>1, CommandsAssumption DEF PlaceBetReceived, driverVars
  <2>3. InTask' = InTask /\ InTask \in Int
    <3>1. Len(task.todo) \in Nat
      BY <1>0 DEF LoopTypeOK, Task
    <3> QED
      BY <2>2, <3>1 DEF InTask
  <2>4. \/ placeBetQueue' = Append(placeBetQueue, cmd) /\ answered' = answered
        \/ placeBetQueue' = placeBetQueue /\ answered' = answered + 1
    BY <2>1 DEF PlaceBetReceived
  <2>5. Len(placeBetQueue') + answered' = Len(placeBetQueue) + answered + 1
        /\ Len(placeBetQueue') \in Nat /\ answered' \in Nat
    BY <1>0, <2>2, <2>4, SeqAppend
  <2> QED
    BY <1>0, <2>2, <2>3, <2>5 DEF CommandsConserved
<1>7. CASE OnTick
  BY <1>7, <1>a DEF OnTick, TickFlies, TickCrashes, Ticks, replyVars
<1>8. CASE DebitThrows \/ FlushEvents \/ CreditReturned \/ Stop
           \/ \E cmd \in CashoutCommands : CashoutReceived(cmd)
  BY <1>8, <1>a DEF DebitThrows, FlushEvents, CreditReturned, CreditReturns, Stop,
     CashoutReceived, driverVars, replyVars
<1>9. CASE UNCHANGED vars
  BY <1>9, <1>a DEF vars, driverVars, replyVars
<1> QED
  BY <1>1, <1>2, <1>3, <1>4, <1>5, <1>6, <1>7, <1>8, <1>9 DEF Next

\* No place-bet command is lost or answered twice.
THEOREM NoCommandLost == Safety => []CommandsConserved
<1>1. Init => CommandsConserved
  BY IdleTask DEF Init, CommandsConserved, InTask
<1>2. TypeOK /\ LoopInv /\ CommandsConserved /\ [Next]_vars => CommandsConserved'
  BY ConservedStep
<1> QED
  BY <1>1, <1>2, TypeCorrect, LoopInvariant, PTL DEF Safety

-----------------------------------------------------------------------------
(* What a step may do to the bets *)

\* Bets are only changed by a debit that succeeded and by a tick.
LEMMA BetsChange ==
  [Next]_vars => UNCHANGED bets \/ DebitOk \/ OnTick
<1> SUFFICES ASSUME [Next]_vars PROVE UNCHANGED bets \/ DebitOk \/ OnTick
  OBVIOUS
<1>1. CASE Start \/ NewRoundTimer \/ RoundAnnounced \/ EndBettingPhase
  BY <1>1 DEF Start, NewRoundTimer, BeginRound, RoundAnnounced, EndBettingPhase, betVars
<1>2. CASE DebitRefused \/ DebitThrows \/ ReplyPublished \/ RoundStarted \/ FlushEvents
  BY <1>2 DEF DebitRefused, DebitThrows, ReplyPublished, RoundStarted, FlushEvents, betVars
<1>3. CASE (\E cmd \in PlaceBetCommands : PlaceBetReceived(cmd))
           \/ (\E cmd \in CashoutCommands : CashoutReceived(cmd))
  BY <1>3 DEF PlaceBetReceived, CashoutReceived, betVars
<1>4. CASE CreditReturned \/ Stop
  BY <1>4 DEF CreditReturned, CreditReturns, Stop
<1>5. CASE UNCHANGED vars
  BY <1>5 DEF vars, betVars
<1> QED
  BY <1>1, <1>2, <1>3, <1>4, <1>5 DEF Next

\* A debit adds one bet, for the head of the captured queue, and keeps the others.
LEMMA DebitAddsBet ==
  ASSUME TypeOK, DebitOk
  PROVE  /\ DOMAIN bets' = DOMAIN bets \cup {Len(bets) + 1} /\ Len(bets') = Len(bets) + 1
         /\ Len(bets) + 1 \notin DOMAIN bets
         /\ \A b \in DOMAIN bets : bets'[b] = bets[b]
         /\ bets'[Len(bets) + 1].status \in {"ACTIVE", "PENDING"}
         /\ bets'[Len(bets) + 1].round = task.round
         /\ bets'[Len(bets) + 1].idempotencyKey = Head(task.todo).idempotencyKey
<1>1. PICK bet : /\ bets' = Append(bets, bet) /\ bet.status \in {"ACTIVE", "PENDING"}
                 /\ bet.round = task.round
                 /\ bet.idempotencyKey = Head(task.todo).idempotencyKey
  BY DEF DebitOk
<1>2. bets \in Seq(Bet) /\ DOMAIN bets = 1..Len(bets) /\ Len(bets) \in Nat
  BY DEF TypeOK, BetTypeOK
<1>3. /\ DOMAIN bets' = DOMAIN bets \cup {Len(bets) + 1} /\ Len(bets') = Len(bets) + 1
      /\ \A b \in DOMAIN bets : bets'[b] = bets[b]
      /\ bets'[Len(bets) + 1] = bet
  BY <1>1, <1>2
<1>4. Len(bets) + 1 \notin DOMAIN bets
  BY <1>2
<1> QED
  BY <1>1, <1>3, <1>4

\* A tick settles some active bets of the current round and keeps the rest; a
\* bet keeps its round and its key.
LEMMA TickOnBets ==
  ASSUME TypeOK, NEW m \in Multipliers, TickFlies(m) \/ TickCrashes(m)
  PROVE  \E won, lost \in SUBSET ActiveBets(current) :
           /\ DOMAIN bets' = DOMAIN bets
           /\ won \cap lost = {}
           /\ \A b \in DOMAIN bets :
                /\ b \in won => bets'[b].status = "WON"
                /\ b \in lost => bets'[b].status = "LOST"
                /\ b \notin won \cup lost => bets'[b] = bets[b]
                /\ bets'[b].round = bets[b].round
                /\ bets'[b].roundId = bets[b].roundId
                /\ bets'[b].idempotencyKey = bets[b].idempotencyKey
           /\ tickEvents' \cup published' =
                tickEvents \cup published \cup SettlementEvents(won, lost)
           /\ TickFlies(m) => /\ published' = published
                              /\ tickEvents' = tickEvents \cup SettlementEvents(won, {})
           /\ TickCrashes(m) => tickEvents' = {}
<1>1. PICK won, lost \in SUBSET ActiveBets(current) :
        /\ won = Won(m) /\ won \cap lost = {}
        /\ Settle(won, lost, rounds[current].currentMultiplier)
        /\ tickEvents' \cup published' =
             tickEvents \cup published \cup SettlementEvents(won, lost)
  BY TickSettles
<1>2. rounds[current].currentMultiplier \in Nat
  <2>1. current \in DOMAIN rounds /\ rounds \in Seq(Round)
    BY TickStep DEF TypeOK, LoopTypeOK
  <2> QED
    BY <2>1, RoundNumbers
<1> DEFINE paidAt == rounds[current].currentMultiplier
<1>3. /\ DOMAIN bets' = DOMAIN bets
      /\ \A b \in DOMAIN bets :
           /\ b \in won => bets'[b] = Cashout(bets[b], paidAt)
           /\ b \in lost => bets'[b] = Lose(bets[b])
           /\ b \notin won \cup lost => bets'[b] = bets[b]
  BY <1>1, <1>2, SettleStep DEF TypeOK
<1>4. TickFlies(m) => /\ published' = published
                      /\ tickEvents' = tickEvents \cup SettlementEvents(won, {})
  BY <1>1 DEF TickFlies
<1>5. TickCrashes(m) => tickEvents' = {}
  BY DEF TickCrashes, Flush
<1>6. ASSUME NEW b \in DOMAIN bets
      PROVE  /\ b \in won => bets'[b].status = "WON"
             /\ b \in lost => bets'[b].status = "LOST"
             /\ bets'[b].round = bets[b].round
             /\ bets'[b].roundId = bets[b].roundId
             /\ bets'[b].idempotencyKey = bets[b].idempotencyKey
  <2>1. bets[b] \in Bet /\ paidAt \in Nat
    BY <1>2 DEF TypeOK, BetTypeOK
  <2> HIDE DEF paidAt
  <2>2. CASE b \in won
    BY <1>1, <1>3, <2>1, <2>2, CashoutBet
  <2>3. CASE b \in lost
    BY <1>1, <1>3, <2>1, <2>3, LoseBet
  <2>4. CASE b \notin won \cup lost
    BY <1>3, <2>4
  <2> QED
    BY <2>2, <2>3, <2>4
<1> QED
  BY <1>1, <1>3, <1>4, <1>5, <1>6

\* A settled bet is final: neither a late cashout nor a later tick changes its
\* status or what it pays.
THEOREM SettledFinal == Safety => SettledBetsFinal
<1>1. TypeOK /\ [Next]_vars => [SettledBetsKept]_bets
  <2> SUFFICES ASSUME TypeOK, [Next]_vars, bets' # bets PROVE SettledBetsKept
    OBVIOUS
  <2>1. CASE DebitOk
    BY <2>1, DebitAddsBet DEF SettledBetsKept
  <2>2. CASE OnTick
    <3>1. PICK m \in Multipliers : TickFlies(m) \/ TickCrashes(m)
      BY <2>2 DEF OnTick
    <3>2. PICK won, lost \in SUBSET ActiveBets(current) :
            \A b \in DOMAIN bets : b \notin won \cup lost => bets'[b] = bets[b]
      BY <3>1, TickOnBets
    <3> QED
      BY <3>2 DEF SettledBetsKept, ActiveBets
  <2> QED
    BY <2>1, <2>2, BetsChange
<1> QED
  BY <1>1, TypeCorrect, PTL DEF Safety, SettledBetsFinal

-----------------------------------------------------------------------------
(* Settlement events *)

\* A step that settles no bet announces none.
LEMMA AnnouncedSame ==
  ASSUME SettlementAnnouncedOnce,
         {b \in DOMAIN bets' : bets'[b].status = "WON"} =
           {b \in DOMAIN bets : bets[b].status = "WON"},
         {b \in DOMAIN bets' : bets'[b].status = "LOST"} =
           {b \in DOMAIN bets : bets[b].status = "LOST"},
         UNCHANGED <<tickEvents, published>> \/ Flush(tickEvents)
  PROVE  SettlementAnnouncedOnce'
BY DEF SettlementAnnouncedOnce, Flush, SettlementEvents

LEMMA AnnouncedTick ==
  ASSUME TypeOK, SettlementAnnouncedOnce, OnTick
  PROVE  SettlementAnnouncedOnce'
<1>1. PICK m \in Multipliers : TickFlies(m) \/ TickCrashes(m)
  BY DEF OnTick
<1>2. PICK won, lost \in SUBSET ActiveBets(current) :
        /\ DOMAIN bets' = DOMAIN bets
        /\ won \cap lost = {}
        /\ \A b \in DOMAIN bets :
             /\ b \in won => bets'[b].status = "WON"
             /\ b \in lost => bets'[b].status = "LOST"
             /\ b \notin won \cup lost => bets'[b] = bets[b]
        /\ tickEvents' \cup published' =
             tickEvents \cup published \cup SettlementEvents(won, lost)
        /\ TickFlies(m) => /\ published' = published
                           /\ tickEvents' = tickEvents \cup SettlementEvents(won, {})
        /\ TickCrashes(m) => tickEvents' = {}
  BY <1>1, TickOnBets
<1> DEFINE W == {b \in DOMAIN bets : bets[b].status = "WON"}
           L == {b \in DOMAIN bets : bets[b].status = "LOST"}
<1>3. /\ won \subseteq DOMAIN bets /\ lost \subseteq DOMAIN bets
      /\ \A b \in won \cup lost : bets[b].status = "ACTIVE"
  BY DEF ActiveBets
<1>4. {b \in DOMAIN bets' : bets'[b].status = "WON"} = W \cup won
  BY <1>2, <1>3
<1>5. {b \in DOMAIN bets' : bets'[b].status = "LOST"} = L \cup lost
  BY <1>2, <1>3
<1>6. SettlementEvents(W \cup won, L \cup lost) =
        SettlementEvents(W, L) \cup SettlementEvents(won, lost)
  BY DEF SettlementEvents
<1>7. tickEvents' \cup published' = SettlementEvents(W \cup won, L \cup lost)
  BY <1>2, <1>6 DEF SettlementAnnouncedOnce
<1>8. tickEvents' \cap published' = {}
  <2>1. CASE TickFlies(m)
    <3>1. published \subseteq SettlementEvents(W, L)
      BY DEF SettlementAnnouncedOnce
    <3>2. SettlementEvents(won, {}) \cap SettlementEvents(W, L) = {}
      BY <1>3 DEF SettlementEvents
    <3> QED
      BY <1>2, <2>1, <3>1, <3>2 DEF SettlementAnnouncedOnce
  <2>2. CASE TickCrashes(m)
    BY <1>2, <2>2
  <2> QED
    BY <1>1, <2>1, <2>2
<1> QED
  BY <1>4, <1>5, <1>7, <1>8 DEF SettlementAnnouncedOnce

\* Steps other than a tick only ever flush the events that there are.
LEMMA EventsChange ==
  [Next]_vars => UNCHANGED <<tickEvents, published>> \/ Flush(tickEvents) \/ OnTick
<1> SUFFICES ASSUME [Next]_vars
             PROVE  UNCHANGED <<tickEvents, published>> \/ Flush(tickEvents) \/ OnTick
  OBVIOUS
<1>1. CASE Start \/ NewRoundTimer \/ RoundAnnounced \/ EndBettingPhase
  BY <1>1 DEF Start, NewRoundTimer, BeginRound, RoundAnnounced, EndBettingPhase, eventVars
<1>2. CASE DebitOk \/ DebitRefused \/ DebitThrows \/ ReplyPublished \/ RoundStarted
  BY <1>2 DEF DebitOk, DebitRefused, DebitThrows, ReplyPublished, RoundStarted, eventVars
<1>3. CASE (\E cmd \in PlaceBetCommands : PlaceBetReceived(cmd))
           \/ (\E cmd \in CashoutCommands : CashoutReceived(cmd)) \/ CreditReturned
  BY <1>3 DEF PlaceBetReceived, CashoutReceived, CreditReturned, CreditReturns, eventVars
<1>4. CASE FlushEvents \/ Stop
  BY <1>4 DEF FlushEvents, Stop
<1>5. CASE UNCHANGED vars
  BY <1>5 DEF vars, eventVars
<1> QED
  BY <1>1, <1>2, <1>3, <1>4, <1>5 DEF Next

\* Every settled bet is announced by exactly one event, whether the buffer still
\* holds it or it has been published.
THEOREM AnnouncedOnce == Safety => []SettlementAnnouncedOnce
<1>1. Init => SettlementAnnouncedOnce
  <2> SUFFICES ASSUME Init PROVE SettlementAnnouncedOnce
    OBVIOUS
  <2>1. DOMAIN bets = {} /\ tickEvents = {} /\ published = {}
    BY DEF Init
  <2> QED
    BY <2>1 DEF SettlementAnnouncedOnce, SettlementEvents
<1>2. TypeOK /\ SettlementAnnouncedOnce /\ [Next]_vars => SettlementAnnouncedOnce'
  <2> SUFFICES ASSUME TypeOK, SettlementAnnouncedOnce, [Next]_vars
               PROVE  SettlementAnnouncedOnce'
    OBVIOUS
  <2>1. CASE OnTick
    BY <2>1, AnnouncedTick
  <2>2. CASE DebitOk
    <3>1. UNCHANGED <<tickEvents, published>>
      BY <2>2 DEF DebitOk, eventVars
    <3>2. /\ {b \in DOMAIN bets' : bets'[b].status = "WON"} =
               {b \in DOMAIN bets : bets[b].status = "WON"}
          /\ {b \in DOMAIN bets' : bets'[b].status = "LOST"} =
               {b \in DOMAIN bets : bets[b].status = "LOST"}
      BY <2>2, DebitAddsBet
    <3> QED
      BY <3>1, <3>2, AnnouncedSame
  <2>3. CASE UNCHANGED bets /\ ~OnTick
    BY <2>3, AnnouncedSame, EventsChange
  <2> QED
    BY <2>1, <2>2, <2>3, BetsChange
<1> QED
  BY <1>1, <1>2, TypeCorrect, PTL DEF Safety

-----------------------------------------------------------------------------
(* Idempotency keys *)

\* The bets of the current round are in the store, which is what the duplicate
\* check looks at, and the command whose debit is under way is no duplicate.
StoreInv ==
  /\ Running => \A b \in DOMAIN bets : bets[b].round = current => b \in betStore
  /\ Running /\ task.at = "debit" => ~HasKey(Head(task.todo).idempotencyKey)

KeyInv == StoreInv /\ OneBetPerKeyAndRound

\* A step that keeps the bets, the store and the round keeps KeyInv if it does
\* not get to a debit.
LEMMA KeyInvSame ==
  ASSUME KeyInv, UNCHANGED <<bets, betStore, current>>, engine' = "running" => Running,
         task' = task \/ task'.at # "debit" \/ ~HasKey(Head(task'.todo).idempotencyKey)
  PROVE  KeyInv'
BY DEF KeyInv, StoreInv, OneBetPerKeyAndRound, Running, HasKey

LEMMA KeyInvBegin ==
  ASSUME TypeOK, Start \/ NewRoundTimer
  PROVE  KeyInv'
<1>1. BeginRound /\ LoopTypeOK
  BY DEF Start, NewRoundTimer, TypeOK
<1>2. bets' = bets /\ current' = Len(rounds) + 1 /\ task'.at = "announcing"
  BY <1>1, BeginRoundStep DEF BeginRound
<1>3. \A b \in DOMAIN bets' : bets'[b].round # current'
  <2>1. Len(rounds) \in Nat /\ \A b \in DOMAIN bets : bets[b].round \in 1..Len(rounds)
    BY DEF TypeOK, BetTypeOK, LoopTypeOK
  <2> QED
    BY <1>2, <2>1
<1> QED
  BY <1>2, <1>3 DEF KeyInv, StoreInv, OneBetPerKeyAndRound

LEMMA KeyInvPlaceNext ==
  ASSUME TypeOK, KeyInv, NEW todo \in Seq(PlaceBetCommand), NEW r \in DOMAIN rounds,
         PlaceNext(todo, r), UNCHANGED <<engine, bets, betStore, current>>
  PROVE  KeyInv'
<1>1. LoopTypeOK
  BY DEF TypeOK
<1>2. CASE todo = <<>>
  BY <1>1, <1>2, PlaceNextStep, KeyInvSame DEF Running
<1>3. CASE todo # <<>> /\ NeedsDebit(Head(todo))
  BY <1>1, <1>3, PlaceNextStep, KeyInvSame DEF Running, NeedsDebit
<1>4. CASE todo # <<>> /\ ~NeedsDebit(Head(todo))
  <2>1. task' = [at |-> "reply", todo |-> todo, round |-> r]
    BY <1>4 DEF PlaceNext
  <2>2. task'.at # "debit"
    BY <2>1
  <2> QED
    BY <2>2, KeyInvSame DEF Running
<1> QED
  BY <1>2, <1>3, <1>4

LEMMA KeyInvDebitOk ==
  ASSUME TypeOK, LoopInv, KeyInv, DebitOk
  PROVE  KeyInv'
<1>1. /\ task.at = "debit" /\ UNCHANGED <<engine, current>> /\ task'.at = "reply"
  BY DebitStep DEF TypeOK
<1>2. task.round = Len(rounds) /\ rounds[task.round].state = "BETTING"
  BY <1>1 DEF LoopInv, PhaseInv, Newest
<1>3. Running => task.round = current
  BY <1>2 DEF LoopInv, RoundsInv
<1>4. betStore' = betStore \cup {Len(bets) + 1}
  BY <1>2 DEF DebitOk
<1>5. StoreInv'
  BY <1>1, <1>4, DebitAddsBet DEF KeyInv, StoreInv, Running
<1>6. OneBetPerKeyAndRound'
  <2> SUFFICES ASSUME Running, NEW b \in DOMAIN bets', NEW c \in DOMAIN bets',
                      bets'[b].round = current, bets'[c].round = current,
                      bets'[b].idempotencyKey = bets'[c].idempotencyKey
               PROVE  b = c
    BY <1>1 DEF OneBetPerKeyAndRound, Running
  <2>1. \A d \in DOMAIN bets :
          bets[d].round = current =>
            bets'[d].idempotencyKey # bets'[Len(bets) + 1].idempotencyKey
    BY <1>1, DebitAddsBet DEF KeyInv, StoreInv, HasKey
  <2>2. CASE b \in DOMAIN bets /\ c \in DOMAIN bets
    BY <2>2, DebitAddsBet DEF KeyInv, OneBetPerKeyAndRound
  <2>3. CASE ~(b \in DOMAIN bets /\ c \in DOMAIN bets)
    BY <2>1, <2>3, DebitAddsBet
  <2> QED
    BY <2>2, <2>3
<1> QED
  BY <1>5, <1>6 DEF KeyInv

LEMMA KeyInvTick ==
  ASSUME TypeOK, LoopInv, KeyInv, OnTick
  PROVE  KeyInv'
<1>1. PICK m \in Multipliers : TickFlies(m) \/ TickCrashes(m)
  BY DEF OnTick
<1>2. DOMAIN bets' = DOMAIN bets
      /\ \A b \in DOMAIN bets : /\ bets'[b].round = bets[b].round
                                /\ bets'[b].idempotencyKey = bets[b].idempotencyKey
  BY <1>1, TickOnBets
<1>3. UNCHANGED <<engine, current, task, betStore>> /\ ticking
  BY <1>1 DEF TickFlies, TickCrashes, Ticks
<1>4. task'.at = "idle"
  BY <1>3 DEF LoopInv, PhaseInv
<1> QED
  BY <1>2, <1>3, <1>4 DEF KeyInv, StoreInv, OneBetPerKeyAndRound, Running

LEMMA KeyInvStep == TypeOK /\ LoopInv /\ KeyInv /\ [Next]_vars => KeyInv'
<1> SUFFICES ASSUME TypeOK, LoopInv, KeyInv, [Next]_vars PROVE KeyInv'
  OBVIOUS
<1>0. LoopTypeOK /\ QueueTypeOK
  BY DEF TypeOK
<1>1. CASE Start \/ NewRoundTimer
  BY <1>1, KeyInvBegin
<1>2. CASE RoundAnnounced \/ RoundStarted
  <2>1. /\ task'.at = "idle" /\ UNCHANGED <<engine, bets, betStore, current>>
    BY <1>2, IdleTask DEF RoundAnnounced, RoundStarted, betVars, roundVars
  <2> QED
    BY <2>1, KeyInvSame DEF Running
<1>3. CASE EndBettingPhase
  <2>0. UNCHANGED <<engine, bets, betStore, current>>
    BY <1>3 DEF EndBettingPhase, betVars
  <2>1. CASE Running /\ current # 0
    <3>1. current \in DOMAIN rounds
      BY <1>0, <2>1 DEF LoopTypeOK
    <3>2. PlaceNext(placeBetQueue, current)
      BY <1>3, <2>1 DEF EndBettingPhase
    <3>3. placeBetQueue \in Seq(PlaceBetCommand)
      BY <1>0 DEF QueueTypeOK
    <3> QED
      BY <2>0, <3>1, <3>2, <3>3, KeyInvPlaceNext
  <2>2. CASE ~(Running /\ current # 0)
    BY <1>3, <2>0, <2>2, KeyInvSame DEF EndBettingPhase, Running
  <2> QED
    BY <2>1, <2>2
<1>4. CASE DebitOk
  BY <1>4, KeyInvDebitOk
<1>5. CASE DebitRefused
  <2>1. task'.at = "reply" /\ UNCHANGED <<engine, bets, betStore, current>>
    BY <1>0, <1>5, DebitStep DEF DebitRefused, betVars
  <2> QED
    BY <2>1, KeyInvSame DEF Running
<1>6. CASE ReplyPublished
  <2>1. task.at = "reply" /\ PlaceNext(Tail(task.todo), task.round)
        /\ UNCHANGED <<engine, bets, betStore, current>>
    BY <1>6 DEF ReplyPublished, betVars
  <2>2. task.round \in DOMAIN rounds /\ task.todo # <<>> /\ task.todo \in Seq(PlaceBetCommand)
    BY <1>0, <2>1 DEF LoopTypeOK, Task
  <2>3. Tail(task.todo) \in Seq(PlaceBetCommand)
    BY <2>2, SeqTail
  <2> QED
    BY <2>1, <2>2, <2>3, KeyInvPlaceNext
<1>7. CASE OnTick
  BY <1>7, KeyInvTick
<1>8. CASE FlushEvents \/ CreditReturned \/ (\E cmd \in PlaceBetCommands : PlaceBetReceived(cmd))
           \/ (\E cmd \in CashoutCommands : CashoutReceived(cmd))
  <2>1. UNCHANGED <<engine, bets, betStore, current, task>>
    BY <1>8 DEF FlushEvents, CreditReturned, CreditReturns, PlaceBetReceived, CashoutReceived,
       betVars, roundVars, driverVars
  <2> QED
    BY <2>1, KeyInvSame DEF Running
<1>9. CASE DebitThrows \/ Stop
  BY <1>9 DEF DebitThrows, Stop, KeyInv, StoreInv, OneBetPerKeyAndRound, Running
<1>10. CASE UNCHANGED vars
  BY <1>10, KeyInvSame DEF vars, betVars, roundVars, driverVars, Running
<1> QED
  BY <1>1, <1>2, <1>3, <1>4, <1>5, <1>6, <1>7, <1>8, <1>9, <1>10 DEF Next

\* While the loop runs, an idempotency key is debited at most once per round.
THEOREM KeyDebitedOncePerRound == Safety => []OneBetPerKeyAndRound
<1>1. Init => KeyInv
  BY DEF Init, KeyInv, StoreInv, OneBetPerKeyAndRound, Running
<1>2. TypeOK /\ LoopInv /\ KeyInv /\ [Next]_vars => KeyInv'
  BY KeyInvStep
<1>3. KeyInv => OneBetPerKeyAndRound
  BY DEF KeyInv
<1> QED
  BY <1>1, <1>2, <1>3, TypeCorrect, LoopInvariant, PTL DEF Safety

-----------------------------------------------------------------------------
(* Rounds *)

LEMMA StateRanks ==
  StateRank["BETTING"] = 1 /\ StateRank["RUNNING"] = 2 /\ StateRank["CRASHED"] = 3
BY DEF StateRank

\* Letting a round fly and ticking it both move it forward.
LEMMA PlaceNextForward ==
  ASSUME TypeOK, NEW todo \in Seq(PlaceBetCommand), NEW r \in DOMAIN rounds,
         PlaceNext(todo, r)
  PROVE  RoundsForward
<1>1. LoopTypeOK /\ \A i \in DOMAIN rounds : rounds[i] \in Round
  BY DEF TypeOK, LoopTypeOK
<1>2. Len(rounds') = Len(rounds) /\ Len(rounds) \in Nat
  BY <1>1, PlaceNextStep DEF LoopTypeOK
<1>3. ASSUME NEW i \in DOMAIN rounds
      PROVE  /\ rounds'[i].crashPoint = rounds[i].crashPoint
             /\ StateRank[rounds'[i].state] >= StateRank[rounds[i].state]
             /\ rounds'[i].currentMultiplier >= rounds[i].currentMultiplier
  <2>1. rounds[i].currentMultiplier \in Nat /\ rounds[i].state \in {"BETTING", "RUNNING", "CRASHED"}
    BY <1>1, RoundNumbers
  <2>2. CASE todo = <<>> /\ i = r
    <3>1. rounds'[i] = StartFlying(rounds[i]) /\ rounds[i].state = "BETTING"
      BY <1>1, <2>2, PlaceNextStep
    <3> QED
      BY <1>1, <2>1, <3>1, StartFlyingRound, StateRanks
  <2>3. CASE ~(todo = <<>> /\ i = r)
    <3>1. rounds'[i] = rounds[i]
      BY <1>1, <2>3, PlaceNextStep
    <3> QED
      BY <2>1, <3>1, StateRanks
  <2> QED
    BY <2>2, <2>3
<1> QED
  BY <1>2, <1>3 DEF RoundsForward

LEMMA TickForward ==
  ASSUME TypeOK, OnTick
  PROVE  RoundsForward
<1>1. PICK m \in Multipliers : TickFlies(m) \/ TickCrashes(m)
  BY DEF OnTick
<1>2. /\ current \in DOMAIN rounds /\ rounds[current].state = "RUNNING"
      /\ Len(rounds') = Len(rounds)
      /\ \A r \in DOMAIN rounds :
           rounds'[r] = IF r = current THEN Tick(rounds[r], m) ELSE rounds[r]
  BY <1>1, TickStep
<1>3. m >= rounds[current].currentMultiplier
  BY <1>1 DEF TickFlies, TickCrashes, Ticks
<1>4. Len(rounds) \in Nat /\ \A i \in DOMAIN rounds : rounds[i] \in Round
  BY DEF TypeOK, LoopTypeOK
<1>5. ASSUME NEW i \in DOMAIN rounds
      PROVE  /\ rounds'[i].crashPoint = rounds[i].crashPoint
             /\ StateRank[rounds'[i].state] >= StateRank[rounds[i].state]
             /\ rounds'[i].currentMultiplier >= rounds[i].currentMultiplier
  <2>1. rounds[i].currentMultiplier \in Nat /\ rounds[i].state \in {"BETTING", "RUNNING", "CRASHED"}
    BY <1>4, RoundNumbers
  <2>2. CASE i = current
    <3>1. rounds'[i] = Tick(rounds[i], m)
      BY <1>2, <2>2
    <3>2. rounds'[i].state \in {"RUNNING", "CRASHED"}
      BY <1>2, <1>4, <2>2, <3>1, TickRound
    <3> QED
      BY <1>2, <1>3, <1>4, <2>2, <3>1, <3>2, TickRound, StateRanks
  <2>3. CASE i # current
    <3>1. rounds'[i] = rounds[i]
      BY <1>2, <2>3
    <3> QED
      BY <2>1, <3>1, StateRanks
  <2> QED
    BY <2>2, <2>3
<1> QED
  BY <1>2, <1>4, <1>5 DEF RoundsForward

LEMMA BeginForward ==
  ASSUME TypeOK, LoopInv, Start \/ NewRoundTimer
  PROVE  RoundsForward
<1>1. BeginRound /\ LoopTypeOK
  BY DEF Start, NewRoundTimer, TypeOK
<1>2. \A r \in DOMAIN rounds : rounds'[r] = rounds[r] /\ rounds[r] \in Round
  BY <1>1, BeginRoundStep DEF LoopTypeOK
<1>3. current # 0 => CurrentState = "CRASHED"
  <2>1. CASE Start
    <3>1. rounds = <<>>
      BY <2>1 DEF Start, LoopInv, RoundsInv
    <3> QED
      BY <3>1 DEF LoopInv, RoundsInv
  <2>2. CASE NewRoundTimer
    BY <2>2 DEF NewRoundTimer, LoopInv, RoundsInv, PhaseInv, CurrentState, Newest
  <2> QED
    BY <2>1, <2>2
<1>4. ASSUME NEW r \in DOMAIN rounds
      PROVE  /\ rounds'[r].crashPoint = rounds[r].crashPoint
             /\ StateRank[rounds'[r].state] >= StateRank[rounds[r].state]
             /\ rounds'[r].currentMultiplier >= rounds[r].currentMultiplier
  BY <1>2, RoundNumbers, StateRanks
<1> QED
  BY <1>3, <1>4 DEF RoundsForward

LEMMA ForwardStep == TypeOK /\ LoopInv /\ [Next]_vars => [RoundsForward]_rounds
<1> SUFFICES ASSUME TypeOK, LoopInv, [Next]_vars, rounds' # rounds PROVE RoundsForward
  OBVIOUS
<1>0. LoopTypeOK /\ QueueTypeOK
  BY DEF TypeOK
<1>1. CASE Start \/ NewRoundTimer
  BY <1>1, BeginForward
<1>2. CASE EndBettingPhase
  <2>1. Running /\ current # 0 /\ PlaceNext(placeBetQueue, current)
    BY <1>2 DEF EndBettingPhase
  <2>2. current \in DOMAIN rounds /\ placeBetQueue \in Seq(PlaceBetCommand)
    BY <1>0, <2>1 DEF LoopTypeOK, QueueTypeOK
  <2> QED
    BY <2>1, <2>2, PlaceNextForward
<1>3. CASE ReplyPublished
  <2>1. task.at = "reply" /\ PlaceNext(Tail(task.todo), task.round)
    BY <1>3 DEF ReplyPublished
  <2>2. task.round \in DOMAIN rounds /\ task.todo # <<>> /\ task.todo \in Seq(PlaceBetCommand)
    BY <1>0, <2>1 DEF LoopTypeOK, Task
  <2>3. Tail(task.todo) \in Seq(PlaceBetCommand)
    BY <2>2, SeqTail
  <2> QED
    BY <2>1, <2>2, <2>3, PlaceNextForward
<1>4. CASE OnTick
  BY <1>4, TickForward
<1>5. CASE RoundAnnounced \/ DebitOk \/ DebitRefused \/ DebitThrows \/ RoundStarted
  BY <1>5 DEF RoundAnnounced, DebitOk, DebitRefused, DebitThrows, RoundStarted, roundVars
<1>6. CASE FlushEvents \/ (\E cmd \in PlaceBetCommands : PlaceBetReceived(cmd))
           \/ (\E cmd \in CashoutCommands : CashoutReceived(cmd)) \/ CreditReturned
           \/ Stop \/ UNCHANGED vars
  BY <1>6 DEF FlushEvents, PlaceBetReceived, CashoutReceived, CreditReturned, CreditReturns,
     Stop, vars, roundVars
<1> QED
  BY <1>1, <1>2, <1>3, <1>4, <1>5, <1>6 DEF Next

\* A round's crash point is fixed, its state and multiplier only move forward,
\* and no round is abandoned for a new one before it has crashed.
THEOREM RoundsOnlyAdvance == Safety => RoundsAdvance
BY ForwardStep, TypeCorrect, LoopInvariant, PTL DEF Safety, RoundsAdvance

-----------------------------------------------------------------------------
(* Failed credits *)

\* Only a step on the credits or the bets can disturb the records.
LEMMA FailedSame ==
  ASSUME FailedCreditsOnRecord, UNCHANGED failedCredits, Owed' = Owed,
         \A b \in Owed : bets'[b].payoutCents = bets[b].payoutCents
  PROVE  FailedCreditsOnRecord'
BY DEF FailedCreditsOnRecord

LEMMA FailedDebitOk ==
  ASSUME TypeOK, LoopInv, FailedCreditsOnRecord, DebitOk
  PROVE  FailedCreditsOnRecord'
<1>1. rounds[task.round].state = "BETTING"
  BY DEF DebitOk, LoopInv, PhaseInv, Newest
<1>2. credits' = Append(credits, <<>>) /\ failedCredits' = failedCredits
  BY <1>1 DEF DebitOk
<1>3. credits \in Seq(Seq(Credit)) /\ DOMAIN credits = DOMAIN bets /\ Len(credits) = Len(bets)
  BY DEF TypeOK, BetTypeOK
<1>4. /\ \A b \in DOMAIN bets : credits'[b] = credits[b]
      /\ credits'[Len(bets) + 1] = <<>> /\ DOMAIN <<>> = {}
  BY <1>2, <1>3
<1>5. Owed' = Owed
  BY <1>4, DebitAddsBet DEF Owed
<1>6. \A b \in Owed : bets'[b] = bets[b]
  BY DebitAddsBet DEF Owed
<1> QED
  BY <1>2, <1>5, <1>6, FailedSame

LEMMA FailedTick ==
  ASSUME TypeOK, BetsInv, FailedCreditsOnRecord, OnTick
  PROVE  FailedCreditsOnRecord'
<1>1. PICK m \in Multipliers : TickFlies(m) \/ TickCrashes(m)
  BY DEF OnTick
<1>2. PICK won, lost \in SUBSET ActiveBets(current) :
        won \cap lost = {} /\ Settle(won, lost, rounds[current].currentMultiplier)
  BY <1>1, TickSettles
<1> DEFINE paidAt == rounds[current].currentMultiplier
<1>3. paidAt \in Nat
  <2>1. current \in DOMAIN rounds /\ rounds \in Seq(Round)
    BY <1>1, TickStep DEF TypeOK, LoopTypeOK
  <2> QED
    BY <2>1, RoundNumbers
<1>4. /\ DOMAIN bets' = DOMAIN bets /\ DOMAIN credits = DOMAIN bets
      /\ \A b \in DOMAIN bets :
           /\ b \in won => credits'[b] = Append(credits[b],
                             [cents |-> Payout(bets[b].amountCents, paidAt),
                              outcome |-> "pending"])
           /\ b \in lost => credits'[b] = credits[b]
           /\ b \notin won \cup lost => bets'[b] = bets[b] /\ credits'[b] = credits[b]
  <2>1. BetTypeOK /\ won \cap lost = {} /\ Settle(won, lost, paidAt)
    BY <1>2 DEF TypeOK
  <2> HIDE DEF paidAt
  <2>2. /\ DOMAIN bets' = DOMAIN bets /\ DOMAIN credits = DOMAIN bets
        /\ \A b \in DOMAIN bets :
             /\ b \notin won \cup lost => bets'[b] = bets[b]
             /\ IF b \in won
                THEN credits'[b] = Append(credits[b], [cents |-> Payout(bets[b].amountCents, paidAt),
                                                       outcome |-> "pending"])
                ELSE credits'[b] = credits[b]
    BY <1>3, <2>1, SettleStep
  <2> QED
    BY <2>1, <2>2
<1>5. ASSUME NEW b \in won \cup lost
      PROVE  b \in DOMAIN bets /\ b \notin Owed /\ b \notin Owed'
  <2>1. b \in DOMAIN bets /\ bets[b].status = "ACTIVE"
    BY <1>2 DEF ActiveBets
  <2>2. credits[b] = <<>> /\ DOMAIN <<>> = {}
    BY <2>1 DEF BetsInv, CreditedExactlyOnce
  <2>3. b \notin Owed
    BY <2>2 DEF Owed
  <2>4. CASE b \in won
    <3> DEFINE call == [cents |-> Payout(bets[b].amountCents, paidAt), outcome |-> "pending"]
    <3>1. credits'[b] = Append(<<>>, call)
      BY <1>4, <2>1, <2>2, <2>4
    <3>2. call.outcome # "failed"
      OBVIOUS
    <3> HIDE DEF call
    <3>3. \A i \in DOMAIN credits'[b] : credits'[b][i] = call
      BY <3>1
    <3> QED
      BY <2>1, <2>3, <3>2, <3>3 DEF Owed
  <2>5. CASE b \in lost
    <3>1. credits'[b] = <<>>
      BY <1>4, <2>1, <2>2, <2>5
    <3> QED
      BY <2>1, <2>2, <2>3, <3>1 DEF Owed
  <2> QED
    BY <2>4, <2>5
<1>6. Owed' = Owed
  BY <1>4, <1>5 DEF Owed
<1>7. \A b \in Owed : bets'[b] = bets[b]
  BY <1>4, <1>5 DEF Owed
<1>8. failedCredits' = failedCredits
  BY <1>1 DEF TickFlies, TickCrashes, Ticks
<1> QED
  BY <1>6, <1>7, <1>8, FailedSame

LEMMA FailedCreditReturned ==
  ASSUME TypeOK, BetsInv, FailedCreditsOnRecord, CreditReturned
  PROVE  FailedCreditsOnRecord'
<1>1. PICK b \in DOMAIN credits : \E i \in DOMAIN credits[b] :
        \E outcome \in {"ok", "refused", "throws"} : CreditReturns(b, i, outcome)
  BY DEF CreditReturned
<1>2. PICK i \in DOMAIN credits[b] :
        \E outcome \in {"ok", "refused", "throws"} : CreditReturns(b, i, outcome)
  BY <1>1
<1>3. PICK outcome \in {"ok", "refused", "throws"} : CreditReturns(b, i, outcome)
  BY <1>2
<1>4. bets' = bets /\ credits[b][i].outcome = "pending"
  BY <1>3 DEF CreditReturns
<1>5. credits \in Seq(Seq(Credit)) /\ credits[b] \in Seq(Credit) /\ credits[b][i] \in Credit
      /\ DOMAIN credits = DOMAIN bets
  BY DEF TypeOK, BetTypeOK
<1> DEFINE result == IF outcome = "ok" THEN "paid" ELSE "failed"
           call == [credits[b][i] EXCEPT !.outcome = result]
           calls == [credits[b] EXCEPT ![i] = call]
<1>6. credits' = [credits EXCEPT ![b] = calls]
  BY <1>3 DEF CreditReturns
<1>7. call \in Credit /\ call.outcome = result
  BY <1>5 DEF Credit
<1> HIDE DEF call
<1>8. /\ calls \in Seq(Credit) /\ Len(calls) = Len(credits[b])
      /\ \A j \in DOMAIN credits[b] : calls[j] = IF j = i THEN call ELSE credits[b][j]
  BY <1>5, <1>7, SeqUpdate
<1> HIDE DEF calls
<1>9. \A c \in DOMAIN bets : credits'[c] = IF c = b THEN calls ELSE credits[c]
  BY <1>5, <1>6, <1>8, SeqUpdate
<1>10. /\ bets[b].status = "WON" /\ credits[b][i].cents = bets[b].payoutCents
       /\ DOMAIN credits[b] = {i}
  <2>1. DOMAIN credits[b] = 1..Len(credits[b])
    BY <1>5
  <2>2. IF bets[b].status = "WON"
        THEN Len(credits[b]) = 1 /\ credits[b][1].cents = bets[b].payoutCents
        ELSE credits[b] = <<>>
    BY <1>5 DEF BetsInv, CreditedExactlyOnce
  <2>3. DOMAIN <<>> = {}
    OBVIOUS
  <2> QED
    BY <2>1, <2>2, <2>3
<1>11. RecordsFailure(b, outcome) <=> outcome # "ok"
  BY <1>10 DEF RecordsFailure
<1>12. failedCredits' = IF outcome # "ok"
                        THEN failedCredits \cup {[betId |-> b, payoutCents |-> bets[b].payoutCents]}
                        ELSE failedCredits
  BY <1>3, <1>10, <1>11 DEF CreditReturns
<1>13. Owed' = IF outcome # "ok" THEN Owed \cup {b} ELSE Owed
  <2>1. DOMAIN calls = DOMAIN credits[b]
    BY <1>5, <1>8
  <2>2. calls[i].outcome = "failed" <=> outcome # "ok"
    BY <1>7, <1>8
  <2>3. b \notin Owed
    BY <1>4, <1>10 DEF Owed
  <2>4. b \in Owed' <=> outcome # "ok"
    BY <1>4, <1>5, <1>9, <1>10, <2>1, <2>2 DEF Owed
  <2>5. \A c \in DOMAIN bets : c # b => (c \in Owed' <=> c \in Owed)
    BY <1>4, <1>9 DEF Owed
  <2>6. Owed \subseteq DOMAIN bets /\ Owed' \subseteq DOMAIN bets /\ b \in DOMAIN bets
    BY <1>4, <1>5 DEF Owed
  <2> QED
    BY <2>3, <2>4, <2>5, <2>6
<1>14. CASE outcome # "ok"
  BY <1>4, <1>12, <1>13, <1>14 DEF FailedCreditsOnRecord
<1>15. CASE outcome = "ok"
  BY <1>4, <1>12, <1>13, <1>15, FailedSame
<1> QED
  BY <1>14, <1>15

LEMMA FailedStep ==
  TypeOK /\ LoopInv /\ BetsInv /\ FailedCreditsOnRecord /\ [Next]_vars => FailedCreditsOnRecord'
<1> SUFFICES ASSUME TypeOK, LoopInv, BetsInv, FailedCreditsOnRecord, [Next]_vars
             PROVE  FailedCreditsOnRecord'
  OBVIOUS
<1>a. ASSUME UNCHANGED <<bets, credits, failedCredits>> PROVE FailedCreditsOnRecord'
  BY <1>a DEF FailedCreditsOnRecord, Owed
<1>1. CASE Start \/ NewRoundTimer \/ RoundAnnounced \/ EndBettingPhase \/ RoundStarted \/ Stop
  BY <1>1, <1>a DEF Start, NewRoundTimer, BeginRound, RoundAnnounced, EndBettingPhase,
     RoundStarted, Stop, betVars
<1>2. CASE DebitOk
  BY <1>2, FailedDebitOk
<1>3. CASE DebitRefused \/ DebitThrows \/ ReplyPublished \/ FlushEvents
  BY <1>3, <1>a DEF DebitRefused, DebitThrows, ReplyPublished, FlushEvents, betVars
<1>4. CASE OnTick
  BY <1>4, FailedTick
<1>5. CASE (\E cmd \in PlaceBetCommands : PlaceBetReceived(cmd))
           \/ (\E cmd \in CashoutCommands : CashoutReceived(cmd))
  BY <1>5, <1>a DEF PlaceBetReceived, CashoutReceived, betVars
<1>6. CASE CreditReturned
  BY <1>6, FailedCreditReturned
<1>7. CASE UNCHANGED vars
  BY <1>7, <1>a DEF vars, betVars
<1> QED
  BY <1>1, <1>2, <1>3, <1>4, <1>5, <1>6, <1>7 DEF Next

\* Every win the wallet refused, and nothing else, is on record with the payout
\* that is owed.
THEOREM FailedCreditsRecorded == Safety => []FailedCreditsOnRecord
<1>1. Init => FailedCreditsOnRecord
  <2> SUFFICES ASSUME Init PROVE FailedCreditsOnRecord
    OBVIOUS
  <2>1. DOMAIN bets = {} /\ failedCredits = {}
    BY DEF Init
  <2> QED
    BY <2>1 DEF FailedCreditsOnRecord, Owed
<1>2. TypeOK /\ LoopInv /\ BetsInv /\ FailedCreditsOnRecord /\ [Next]_vars
      => FailedCreditsOnRecord'
  BY FailedStep
<1> QED
  BY <1>1, <1>2, TypeCorrect, LoopInvariant, BetsInvariant, PTL DEF Safety

-----------------------------------------------------------------------------
(* The ledger *)

Entry(b) ==
  [player |-> bets[b].playerId, stake |-> bets[b].amountCents,
   end |-> End[bets[b].status], payout |-> bets[b].payoutCents, credit |-> CreditState(b)]

Announced == {event.bet : event \in published}

-----------------------------------------------------------------------------
(* Stakes come from commands *)

\* What is queued, and what endBettingPhase has taken, has been received.
CommandsGenuine ==
  placeBetQueue \in Seq(PlaceBetCommands) /\ task.todo \in Seq(PlaceBetCommands)

LEMMA GenuinePlaceNext ==
  ASSUME NEW todo \in Seq(PlaceBetCommands), NEW r, PlaceNext(todo, r),
         placeBetQueue' \in Seq(PlaceBetCommands)
  PROVE  CommandsGenuine'
<1>1. \E at \in {"starting", "debit", "reply"} : task' = [at |-> at, todo |-> todo, round |-> r]
  BY DEF PlaceNext
<1>2. task'.todo = todo
  BY <1>1
<1> QED
  BY <1>2 DEF CommandsGenuine

LEMMA GenuineStep == TypeOK /\ CommandsGenuine /\ [Next]_vars => CommandsGenuine'
<1> SUFFICES ASSUME TypeOK, CommandsGenuine, [Next]_vars PROVE CommandsGenuine'
  OBVIOUS
<1>0. placeBetQueue \in Seq(PlaceBetCommands) /\ task.todo \in Seq(PlaceBetCommands)
      /\ <<>> \in Seq(PlaceBetCommands)
  BY DEF CommandsGenuine
<1>a. ASSUME UNCHANGED <<placeBetQueue, task>> PROVE CommandsGenuine'
  BY <1>a DEF CommandsGenuine
<1>1. CASE Start \/ NewRoundTimer
  <2>1. placeBetQueue' = <<>> /\ task'.todo = <<>>
    BY <1>1 DEF Start, NewRoundTimer, BeginRound, RejectStaleBets
  <2> QED
    BY <1>0, <2>1 DEF CommandsGenuine
<1>2. CASE RoundAnnounced \/ RoundStarted
  <2>1. placeBetQueue' = placeBetQueue /\ task'.todo = <<>>
    BY <1>2 DEF RoundAnnounced, RoundStarted, Idle
  <2> QED
    BY <1>0, <2>1 DEF CommandsGenuine
<1>3. CASE EndBettingPhase
  <2>1. CASE Running /\ current # 0
    <3>1. PlaceNext(placeBetQueue, current) /\ placeBetQueue' = <<>>
      BY <1>3, <2>1 DEF EndBettingPhase
    <3> QED
      BY <1>0, <3>1, GenuinePlaceNext
  <2>2. CASE ~(Running /\ current # 0)
    BY <1>3, <1>a, <2>2 DEF EndBettingPhase
  <2> QED
    BY <2>1, <2>2
<1>4. CASE DebitOk \/ DebitRefused
  <2>1. task'.todo = task.todo /\ placeBetQueue' = placeBetQueue
    BY <1>4, DebitStep DEF TypeOK
  <2> QED
    BY <1>0, <2>1 DEF CommandsGenuine
<1>5. CASE ReplyPublished
  <2>1. PlaceNext(Tail(task.todo), task.round) /\ placeBetQueue' = placeBetQueue
        /\ task.todo # <<>>
    BY <1>5 DEF ReplyPublished, TypeOK, LoopTypeOK
  <2>2. Tail(task.todo) \in Seq(PlaceBetCommands)
    BY <1>0, <2>1, SeqTail
  <2> QED
    BY <1>0, <2>1, <2>2, GenuinePlaceNext
<1>6. CASE \E cmd \in PlaceBetCommands : PlaceBetReceived(cmd)
  <2>1. PICK cmd \in PlaceBetCommands : PlaceBetReceived(cmd)
    BY <1>6
  <2>2. task' = task /\ placeBetQueue' \in {placeBetQueue, Append(placeBetQueue, cmd)}
    BY <2>1 DEF PlaceBetReceived, driverVars
  <2>3. Append(placeBetQueue, cmd) \in Seq(PlaceBetCommands)
    BY <1>0, SeqAppend
  <2> QED
    BY <1>0, <2>2, <2>3 DEF CommandsGenuine
<1>7. CASE OnTick
  BY <1>7, <1>a DEF OnTick, TickFlies, TickCrashes, Ticks
<1>8. CASE DebitThrows \/ FlushEvents \/ CreditReturned \/ Stop
           \/ \E cmd \in CashoutCommands : CashoutReceived(cmd)
  BY <1>8, <1>a DEF DebitThrows, FlushEvents, CreditReturned, CreditReturns, Stop,
     CashoutReceived, driverVars
<1>9. CASE UNCHANGED vars
  BY <1>9, <1>a DEF vars, driverVars
<1> QED
  BY <1>1, <1>2, <1>3, <1>4, <1>5, <1>6, <1>7, <1>8, <1>9 DEF Next

LEMMA GenuineInvariant == Safety => []CommandsGenuine
<1>1. Init => CommandsGenuine
  BY DEF Init, CommandsGenuine, Idle
<1>2. TypeOK /\ CommandsGenuine /\ [Next]_vars => CommandsGenuine'
  BY GenuineStep
<1> QED
  BY <1>1, <1>2, TypeCorrect, PTL DEF Safety

-----------------------------------------------------------------------------
(* Entries *)

LEMMA EntrySame ==
  ASSUME NEW b, bets'[b] = bets[b], credits'[b] = credits[b], failedCredits' = failedCredits
  PROVE  Entry(b)' = Entry(b)
BY DEF Entry, CreditState

LEMMA LedgerSame ==
  ASSUME UNCHANGED <<bets, credits, failedCredits>>
  PROVE  LedgerOf' = LedgerOf
BY DEF LedgerOf, CreditState

\* What has been announced has been settled.
LEMMA AnnouncedAreSettled ==
  ASSUME SettlementAnnouncedOnce'
  PROVE  Announced' \subseteq Ledger!Settled'
<1> SUFFICES ASSUME NEW e \in published' PROVE e.bet \in Ledger!Settled'
  BY DEF Announced
<1>1. e.bet \in DOMAIN bets' /\ bets'[e.bet].status \in {"WON", "LOST"}
  BY DEF SettlementAnnouncedOnce, SettlementEvents
<1>2. End[bets'[e.bet].status] # "open"
  BY <1>1 DEF End
<1> QED
  BY <1>1, <1>2 DEF Ledger!Settled, LedgerOf

\* A flush settles nothing and announces what waited.
LEMMA FlushAnnounces ==
  ASSUME SettlementAnnouncedOnce', UNCHANGED <<bets, credits, failedCredits>>,
         published \subseteq published'
  PROVE  Ledger!SettleAndAnnounce
<1>1. LedgerOf' = LedgerOf
  BY LedgerSame
<1>2. Announced \subseteq Announced'
  BY DEF Announced
<1> QED
  BY <1>1, <1>2, AnnouncedAreSettled DEF Ledger!SettleAndAnnounce, Ledger!MayEnd, Announced

-----------------------------------------------------------------------------
(* Bets that are open pay nothing yet *)

OpenUnpaid == \A b \in DOMAIN bets : bets[b].status = "ACTIVE" => bets[b].payoutCents = 0

LEMMA OpenUnpaidStep == TypeOK /\ OpenUnpaid /\ [Next]_vars => OpenUnpaid'
<1> SUFFICES ASSUME TypeOK, OpenUnpaid, [Next]_vars PROVE OpenUnpaid'
  OBVIOUS
<1>1. CASE UNCHANGED bets
  BY <1>1 DEF OpenUnpaid
<1>2. CASE DebitOk
  <2>1. PICK bet : bets' = Append(bets, bet) /\ bet.payoutCents = 0
    BY <1>2 DEF DebitOk
  <2>2. bets \in Seq(Bet) /\ Len(bets) \in Nat /\ DOMAIN bets = 1..Len(bets)
    BY DEF TypeOK, BetTypeOK
  <2>3. bets'[Len(bets) + 1] = bet
    BY <2>1, <2>2
  <2> QED
    BY <1>2, <2>1, <2>3, DebitAddsBet DEF OpenUnpaid
<1>3. CASE OnTick
  <2>1. PICK m \in Multipliers : TickFlies(m) \/ TickCrashes(m)
    BY <1>3 DEF OnTick
  <2>2. /\ DOMAIN bets' = DOMAIN bets
        /\ \A b \in DOMAIN bets : bets'[b] = bets[b] \/ bets'[b].status \in {"WON", "LOST"}
    BY <2>1, TickOnBets
  <2> QED
    BY <2>2 DEF OpenUnpaid
<1> QED
  BY <1>1, <1>2, <1>3, BetsChange

LEMMA OpenUnpaidInvariant == Safety => []OpenUnpaid
<1>1. Init => OpenUnpaid
  <2> SUFFICES ASSUME Init PROVE OpenUnpaid
    OBVIOUS
  <2>1. DOMAIN bets = {}
    BY DEF Init
  <2> QED
    BY <2>1 DEF OpenUnpaid
<1>2. TypeOK /\ OpenUnpaid /\ [Next]_vars => OpenUnpaid'
  BY OpenUnpaidStep
<1> QED
  BY <1>1, <1>2, TypeCorrect, PTL DEF Safety

-----------------------------------------------------------------------------
(* The steps that change the ledger *)

\* A debit that comes back takes a bet.
LEMMA DebitTakes ==
  ASSUME TypeOK, LoopInv, CommandsGenuine, DebitOk
  PROVE  Ledger!Take
<1> DEFINE cmd == Head(task.todo)
<1>1. rounds[task.round].state = "BETTING"
  BY DEF DebitOk, LoopInv, PhaseInv, Newest
<1>2. cmd \in PlaceBetCommands
  BY SeqTail DEF CommandsGenuine, DebitOk, TypeOK, LoopTypeOK
<1>3. /\ bets \in Seq(Bet) /\ Len(bets) \in Nat /\ DOMAIN bets = 1..Len(bets)
      /\ credits \in Seq(Seq(Credit)) /\ Len(credits) = Len(bets)
      /\ DOMAIN credits = DOMAIN bets
  BY DEF TypeOK, BetTypeOK
<1>4. PICK bet : /\ bets' = Append(bets, bet)
                 /\ bet.playerId = cmd.playerId /\ bet.amountCents = cmd.amountCents
                 /\ bet.status = "ACTIVE" /\ bet.payoutCents = 0
  BY <1>1 DEF DebitOk
<1>5. credits' = Append(credits, <<>>) /\ UNCHANGED <<failedCredits, published>>
  BY <1>1 DEF DebitOk, eventVars
<1> HIDE DEF cmd
<1>6. /\ DOMAIN bets' = 1..(Len(bets) + 1)
      /\ \A b \in DOMAIN bets : bets'[b] = bets[b] /\ credits'[b] = credits[b]
      /\ bets'[Len(bets) + 1] = bet /\ credits'[Len(bets) + 1] = <<>>
  BY <1>3, <1>4, <1>5
<1>7. \A b \in DOMAIN bets : Entry(b)' = Entry(b)
  BY <1>5, <1>6, EntrySame
<1>n. PICK new : new = Len(bets) + 1
  OBVIOUS
<1>8. CreditState(new)' = "none"
  BY <1>6, <1>n DEF CreditState
<1>9. Entry(new)' = Ledger!OpenBet(cmd.playerId, cmd.amountCents)
  BY <1>4, <1>6, <1>8, <1>n DEF Entry, End, Ledger!OpenBet
<1>10. LedgerOf = [b \in 1..Len(bets) |-> Entry(b)]
  BY <1>3 DEF LedgerOf, Entry
<1>11. LedgerOf' = [b \in 1..(Len(bets) + 1) |-> Entry(b)']
  BY <1>6 DEF LedgerOf, Entry
<1>12. LedgerOf' = Append(LedgerOf, Ledger!OpenBet(cmd.playerId, cmd.amountCents))
  <2> DEFINE old == [b \in 1..Len(bets) |-> Entry(b)]
             S == {old[b] : b \in 1..Len(bets)} \cup {Ledger!OpenBet(cmd.playerId, cmd.amountCents)}
  <2>1. old \in [1..Len(bets) -> S]
    OBVIOUS
  <2> HIDE DEF S, old
  <2>2. old \in Seq(S) /\ Len(old) = Len(bets) /\ DOMAIN old = 1..Len(bets)
    BY <1>3, <2>1, SeqOfFunction
  <2>3. Ledger!OpenBet(cmd.playerId, cmd.amountCents) \in S
    BY DEF S
  <2>4. \A b \in 1..Len(bets) : old[b] = Entry(b)
    BY DEF old
  <2>5. LedgerOf = old
    BY <1>10 DEF old
  <2> QED
    BY <1>3, <1>7, <1>9, <1>11, <1>n, <2>2, <2>3, <2>4, <2>5, SeqAppend
<1> QED
  BY <1>2, <1>5, <1>12 DEF Ledger!Take

\* What a bet pays is its stake at least.
LEMMA PayoutCoversStake ==
  ASSUME NEW a \in Nat, NEW m \in Nat, m >= 100
  PROVE  Payout(a, m) >= a
<1>1. Payout(a, 100) = a
  BY DEF Payout
<1>2. Payout(a, 100) <= Payout(a, m)
  BY PayoutMonotone
<1>3. Payout(a, m) \in Nat
  BY PayoutNat
<1> QED
  BY <1>1, <1>2, <1>3

\* What winning does to an open entry: the two records have the same fields, one
\* by one.
LEMMA WonEntry ==
  ASSUME NEW player, NEW stake, NEW payout, NEW open, NEW won,
         open = [player |-> player, stake |-> stake, end |-> "open", payout |-> 0,
                 credit |-> "none"],
         won = [player |-> player, stake |-> stake, end |-> "won", payout |-> payout,
                credit |-> "due"]
  PROVE  Ledger!Win(open, payout) = won
<1> DEFINE result == Ledger!Win(open, payout)
<1>1. result = [field \in DOMAIN open |-> result[field]]
  BY DEF Ledger!Win
<1>2. won = [field \in DOMAIN open |-> won[field]]
  OBVIOUS
<1>3. /\ result.end = "won" /\ result.payout = payout /\ result.credit = "due"
      /\ result.player = player /\ result.stake = stake
  BY DEF Ledger!Win
<1>4. /\ won.end = "won" /\ won.payout = payout /\ won.credit = "due"
      /\ won.player = player /\ won.stake = stake
  OBVIOUS
<1>5. DOMAIN open = {"player", "stake", "end", "payout", "credit"}
  OBVIOUS
<1> HIDE DEF result
<1>6. \A field \in DOMAIN open : result[field] = won[field]
  BY <1>3, <1>4, <1>5, Zenon
<1> QED
  BY <1>1, <1>2, <1>6 DEF result

\* The entry of a bet that is cashed out, and of one that is lost.
LEMMA CashoutEntry ==
  ASSUME NEW b, NEW m \in Nat, bets[b] \in Bet, bets'[b] = Cashout(bets[b], m),
         bets[b].status = "ACTIVE", bets[b].payoutCents = 0, credits[b] = <<>>,
         credits'[b] # <<>>, credits'[b][1].outcome = "pending"
  PROVE  Entry(b)' = Ledger!Win(Entry(b), Payout(bets[b].amountCents, m))
<1>1. CreditState(b)' = "due" /\ CreditState(b) = "none"
  BY DEF CreditState
<1>2. bets[b].amountCents \in Nat
  BY DEF Bet
<1>3. /\ bets'[b].playerId = bets[b].playerId /\ bets'[b].amountCents = bets[b].amountCents
      /\ bets'[b].status = "WON" /\ bets'[b].payoutCents = Payout(bets[b].amountCents, m)
  BY <1>2, PayoutNat DEF Cashout, Bet
<1> DEFINE p == Payout(bets[b].amountCents, m)
<1>4. bets'[b].payoutCents = p
  BY <1>3
<1> HIDE DEF p
<1>5. /\ Entry(b)' = [player |-> bets[b].playerId, stake |-> bets[b].amountCents,
                      end |-> "won", payout |-> p, credit |-> "due"]
      /\ Entry(b) = [player |-> bets[b].playerId, stake |-> bets[b].amountCents,
                     end |-> "open", payout |-> 0, credit |-> "none"]
  BY <1>1, <1>3, <1>4 DEF Entry, End
<1>6. Entry(b)' = Ledger!Win(Entry(b), p)
  BY <1>5, WonEntry
<1> QED
  BY <1>6 DEF p

LEMMA LoseEntry ==
  ASSUME NEW b, bets[b] \in Bet, bets'[b] = Lose(bets[b]),
         bets[b].status = "ACTIVE", bets[b].payoutCents = 0, credits[b] = <<>>,
         credits'[b] = <<>>
  PROVE  Entry(b)' = Ledger!Lose(Entry(b))
<1>1. CreditState(b)' = "none" /\ CreditState(b) = "none"
  BY DEF CreditState
<1>2. /\ bets'[b].playerId = bets[b].playerId /\ bets'[b].amountCents = bets[b].amountCents
      /\ bets'[b].status = "LOST" /\ bets'[b].payoutCents = 0
  BY DEF Lose, Bet
<1> QED
  BY <1>1, <1>2 DEF Entry, End, Ledger!Lose

\* A tick settles and announces.
LEMMA TickSettlesLedger ==
  ASSUME TypeOK, BetsInv, OpenUnpaid, SettlementAnnouncedOnce', OnTick
  PROVE  Ledger!SettleAndAnnounce
<1>1. PICK m \in Multipliers : TickFlies(m) \/ TickCrashes(m)
  BY DEF OnTick
<1>2. PICK won, lost \in SUBSET ActiveBets(current) :
        won \cap lost = {} /\ Settle(won, lost, rounds[current].currentMultiplier)
  BY <1>1, TickSettles
<1>m. PICK paidAt : paidAt = rounds[current].currentMultiplier
  OBVIOUS
<1>3. paidAt \in Nat /\ paidAt >= 100
  <2>1. current \in DOMAIN rounds /\ rounds \in Seq(Round)
    BY <1>1, TickStep DEF TypeOK, LoopTypeOK
  <2> QED
    BY <1>m, <2>1, RoundNumbers
<1>4. /\ DOMAIN bets' = DOMAIN bets
      /\ \A b \in DOMAIN bets :
           /\ b \in won => bets'[b] = Cashout(bets[b], paidAt)
           /\ b \in lost => bets'[b] = Lose(bets[b])
           /\ b \notin won \cup lost => bets'[b] = bets[b]
      /\ \A b \in DOMAIN bets :
           IF b \in won
           THEN credits'[b] = Append(credits[b], [cents |-> Payout(bets[b].amountCents, paidAt),
                                                  outcome |-> "pending"])
           ELSE credits'[b] = credits[b]
  <2>1. BetTypeOK /\ Settle(won, lost, paidAt) /\ won \cap lost = {}
    BY <1>2, <1>m DEF TypeOK
  <2> QED
    BY <1>3, <2>1, SettleStep
<1>5. failedCredits' = failedCredits /\ published \subseteq published'
  BY <1>1 DEF TickFlies, TickCrashes, Ticks, Flush
<1>6. ASSUME NEW b \in DOMAIN bets PROVE Ledger!MayEnd(b)
  <2>0. bets[b] \in Bet
    BY DEF TypeOK, BetTypeOK
  <2>1. bets[b] \in Bet /\ bets[b].amountCents \in Nat
    BY <2>0 DEF Bet
  <2>2. LedgerOf[b] = Entry(b) /\ LedgerOf'[b] = Entry(b)' /\ b \in DOMAIN LedgerOf
    BY <1>4 DEF LedgerOf, Entry
  <2>3. ASSUME b \in won \cup lost
        PROVE  /\ bets[b].status = "ACTIVE" /\ bets[b].payoutCents = 0
               /\ credits[b] = <<>> /\ LedgerOf[b].end = "open"
    <3>1. bets[b].status = "ACTIVE"
      BY <1>2, <2>3 DEF ActiveBets
    <3>2. bets[b].payoutCents = 0 /\ credits[b] = <<>>
      BY <3>1 DEF OpenUnpaid, BetsInv, CreditedExactlyOnce
    <3>3. LedgerOf[b].end = "open"
      BY <2>2, <3>1 DEF Entry, End
    <3> QED
      BY <3>1, <3>2, <3>3
  <2>4. CASE b \in won
    <3> DEFINE call == [cents |-> Payout(bets[b].amountCents, paidAt), outcome |-> "pending"]
    <3>1. credits'[b] = Append(<<>>, call)
      BY <1>4, <2>3, <2>4
    <3>2. call.outcome = "pending"
      OBVIOUS
    <3> HIDE DEF call
    <3>3. credits'[b] # <<>> /\ credits'[b][1].outcome = "pending"
      BY <3>1, <3>2
    <3>4. Entry(b)' = Ledger!Win(Entry(b), Payout(bets[b].amountCents, paidAt))
      BY <1>3, <1>4, <2>1, <2>3, <2>4, <3>3, CashoutEntry
    <3>5. Payout(bets[b].amountCents, paidAt) >= bets[b].amountCents
      BY <1>3, <2>1, PayoutCoversStake
    <3>6. /\ Entry(b).stake = bets[b].amountCents
          /\ Entry(b)'.payout = Payout(bets[b].amountCents, paidAt)
      BY <3>4 DEF Entry, Ledger!Win
    <3> QED
      BY <2>2, <2>3, <2>4, <3>4, <3>5, <3>6 DEF Ledger!MayEnd
  <2>5. CASE b \in lost
    <3>1. credits'[b] = <<>>
      BY <1>2, <1>4, <2>3, <2>5
    <3>2. Entry(b)' = Ledger!Lose(Entry(b))
      BY <1>4, <2>1, <2>3, <2>5, <3>1, LoseEntry
    <3> QED
      BY <2>2, <2>3, <2>5, <3>2 DEF Ledger!MayEnd
  <2>6. CASE b \notin won \cup lost
    <3>1. Entry(b)' = Entry(b)
      BY <1>4, <1>5, <2>6, EntrySame
    <3> QED
      BY <2>2, <3>1 DEF Ledger!MayEnd
  <2> QED
    BY <2>4, <2>5, <2>6
<1>7. DOMAIN LedgerOf = DOMAIN bets /\ DOMAIN LedgerOf' = DOMAIN bets
  BY <1>4 DEF LedgerOf
<1>8. Announced \subseteq Announced' /\ Announced' \subseteq Ledger!Settled'
  BY <1>5, AnnouncedAreSettled DEF Announced
<1> QED
  BY <1>6, <1>7, <1>8 DEF Ledger!SettleAndAnnounce, Announced

\* A credit that comes back is paid, or owed and on record.
LEMMA CreditAnswersLedger ==
  ASSUME TypeOK, BetsInv, FailedCreditsOnRecord, CreditReturned
  PROVE  Ledger!CreditAnswered
<1>1. PICK b \in DOMAIN credits : \E i \in DOMAIN credits[b] :
        \E outcome \in {"ok", "refused", "throws"} : CreditReturns(b, i, outcome)
  BY DEF CreditReturned
<1>2. PICK i \in DOMAIN credits[b] :
        \E outcome \in {"ok", "refused", "throws"} : CreditReturns(b, i, outcome)
  BY <1>1
<1>3. PICK outcome \in {"ok", "refused", "throws"} : CreditReturns(b, i, outcome)
  BY <1>2
<1>4. bets' = bets /\ credits[b][i].outcome = "pending" /\ published' = published
  BY <1>3 DEF CreditReturns, eventVars
<1>5. /\ credits \in Seq(Seq(Credit)) /\ credits[b] \in Seq(Credit)
      /\ credits[b][i] \in Credit /\ DOMAIN credits = DOMAIN bets
  BY DEF TypeOK, BetTypeOK
<1>6. /\ bets[b].status = "WON" /\ credits[b][i].cents = bets[b].payoutCents
      /\ credits[b] # <<>> /\ i = 1
  <2>1. DOMAIN credits[b] = 1..Len(credits[b])
    BY <1>5
  <2>2. IF bets[b].status = "WON"
        THEN Len(credits[b]) = 1 /\ credits[b][1].cents = bets[b].payoutCents
        ELSE credits[b] = <<>>
    BY <1>5 DEF BetsInv, CreditedExactlyOnce
  <2> QED
    BY <2>1, <2>2
<1> DEFINE result == IF outcome = "ok" THEN "paid" ELSE "failed"
           call == [credits[b][1] EXCEPT !.outcome = result]
           calls == [credits[b] EXCEPT ![1] = call]
           record == [betId |-> b, payoutCents |-> bets[b].payoutCents]
<1>7. credits' = [credits EXCEPT ![b] = calls]
  BY <1>3, <1>6 DEF CreditReturns
<1>8. call \in Credit /\ call.outcome = result
  BY <1>5, <1>6 DEF Credit
<1> HIDE DEF call
<1>9. calls \in Seq(Credit) /\ Len(calls) = Len(credits[b]) /\ calls[1] = call
  BY <1>5, <1>6, <1>8, SeqUpdate
<1> HIDE DEF calls
<1>10. \A c \in DOMAIN bets : credits'[c] = IF c = b THEN calls ELSE credits[c]
  BY <1>5, <1>7, <1>9, SeqUpdate
<1>11. calls # <<>>
  BY <1>5, <1>6, <1>9
<1>12. RecordsFailure(b, outcome) <=> outcome # "ok"
  BY <1>6 DEF RecordsFailure
<1>13. failedCredits' = IF outcome # "ok" THEN failedCredits \cup {record} ELSE failedCredits
  BY <1>3, <1>6, <1>12 DEF CreditReturns
<1> DEFINE answer == IF outcome = "ok" THEN "paid" ELSE "owed"
<1>14. CreditState(b) = "due"
  BY <1>4, <1>6, credits[b][1].outcome = "pending" DEF CreditState
<1>15. CreditState(b)' = answer
  <2>1. credits'[b] # <<>> /\ credits'[b][1].outcome = result
    BY <1>5, <1>8, <1>9, <1>10, <1>11
  <2>2. CASE outcome = "ok"
    BY <2>1, <2>2 DEF CreditState
  <2>3. CASE outcome # "ok"
    <3>1. credits'[b][1].outcome = "failed" /\ record \in failedCredits'
      BY <1>13, <2>1, <2>3
    <3>2. [betId |-> b, payoutCents |-> bets'[b].payoutCents] \in failedCredits'
      BY <1>4, <3>1
    <3> QED
      BY <2>1, <2>3, <3>1, <3>2 DEF CreditState
  <2> QED
    BY <2>2, <2>3
<1>16. ASSUME NEW c \in DOMAIN bets, c # b PROVE CreditState(c)' = CreditState(c)
  <2>1. credits'[c] = credits[c] /\ bets'[c] = bets[c]
    BY <1>4, <1>10, <1>16
  <2>2. failedCredits \subseteq failedCredits'
    BY <1>13
  <2>3. [betId |-> c, payoutCents |-> bets[c].payoutCents] \in failedCredits'
        <=> [betId |-> c, payoutCents |-> bets[c].payoutCents] \in failedCredits
    BY <1>13, <1>16, <2>2
  <2> QED
    BY <2>1, <2>3 DEF CreditState
<1>17. LedgerOf' = [LedgerOf EXCEPT ![b].credit = answer]
  <2>1. LedgerOf = [c \in DOMAIN bets |-> Entry(c)]
    BY DEF LedgerOf, Entry
  <2>2. LedgerOf' = [c \in DOMAIN bets |-> Entry(c)']
    BY <1>4 DEF LedgerOf, Entry
  <2>3. Entry(b)' = [Entry(b) EXCEPT !.credit = answer]
    BY <1>4, <1>15 DEF Entry
  <2>4. \A c \in DOMAIN bets : c # b => Entry(c)' = Entry(c)
    BY <1>4, <1>16 DEF Entry
  <2> QED
    BY <1>5, <2>1, <2>2, <2>3, <2>4
<1>18. LedgerOf[b].credit = "due" /\ b \in DOMAIN LedgerOf
  BY <1>5, <1>14 DEF LedgerOf
<1>19. answer \in {"paid", "owed"}
  OBVIOUS
<1> HIDE DEF answer
<1> QED
  BY <1>4, <1>17, <1>18, <1>19 DEF Ledger!CreditAnswered

-----------------------------------------------------------------------------
\* The loop with its rounds, timers, queues, buffers and awaits is a ledger of
\* bets: each ends once, is paid or owed what it won, and is announced after.
THEOREM LoopImplementsLedger == Safety => KeepsLedger
<1>1. Init => Ledger!Init
  <2> SUFFICES ASSUME Init PROVE Ledger!Init
    OBVIOUS
  <2>1. bets = <<>> /\ published = {} /\ DOMAIN <<>> = {}
    BY DEF Init
  <2>2. LedgerOf = <<>>
    BY <2>1 DEF LedgerOf
  <2> QED
    BY <2>1, <2>2 DEF Ledger!Init
<1>2. /\ TypeOK /\ LoopInv /\ BetsInv /\ CommandsGenuine /\ OpenUnpaid
      /\ FailedCreditsOnRecord /\ SettlementAnnouncedOnce' /\ [Next]_vars
      => [Ledger!Next]_<<LedgerOf, Announced>>
  <2> SUFFICES ASSUME TypeOK, LoopInv, BetsInv, CommandsGenuine, OpenUnpaid,
                      FailedCreditsOnRecord, SettlementAnnouncedOnce', [Next]_vars
               PROVE  Ledger!Next \/ UNCHANGED <<LedgerOf, Announced>>
    OBVIOUS
  <2>a. ASSUME UNCHANGED <<bets, credits, failedCredits>>
        PROVE  Ledger!Next \/ UNCHANGED <<LedgerOf, Announced>>
    <3>1. UNCHANGED published \/ Flush(tickEvents) \/ OnTick
      BY EventsChange
    <3>2. CASE UNCHANGED published
      BY <2>a, <3>2, LedgerSame DEF Announced
    <3>3. CASE Flush(tickEvents)
      BY <2>a, <3>3, FlushAnnounces DEF Flush, Ledger!Next
    <3>4. CASE OnTick
      BY <3>4, TickSettlesLedger DEF Ledger!Next
    <3> QED
      BY <3>1, <3>2, <3>3, <3>4
  <2>1. CASE Start \/ NewRoundTimer \/ RoundAnnounced \/ EndBettingPhase \/ RoundStarted \/ Stop
    BY <2>1, <2>a DEF Start, NewRoundTimer, BeginRound, RoundAnnounced, EndBettingPhase,
       RoundStarted, Stop, betVars
  <2>2. CASE DebitOk
    BY <2>2, DebitTakes DEF Ledger!Next
  <2>3. CASE DebitRefused \/ DebitThrows \/ ReplyPublished \/ FlushEvents
    BY <2>3, <2>a DEF DebitRefused, DebitThrows, ReplyPublished, FlushEvents, betVars
  <2>4. CASE OnTick
    BY <2>4, TickSettlesLedger DEF Ledger!Next
  <2>5. CASE (\E cmd \in PlaceBetCommands : PlaceBetReceived(cmd))
             \/ (\E cmd \in CashoutCommands : CashoutReceived(cmd))
    BY <2>5, <2>a DEF PlaceBetReceived, CashoutReceived, betVars
  <2>6. CASE CreditReturned
    BY <2>6, CreditAnswersLedger DEF Ledger!Next
  <2>7. CASE UNCHANGED vars
    BY <2>7, <2>a DEF vars, betVars
  <2> QED
    BY <2>1, <2>2, <2>3, <2>4, <2>5, <2>6, <2>7 DEF Next
<1>3. QED
  BY <1>1, <1>2, TypeCorrect, LoopInvariant, BetsInvariant, GenuineInvariant,
     OpenUnpaidInvariant, FailedCreditsRecorded, AnnouncedOnce, PTL
     DEF Safety, KeepsLedger, Ledger!Spec, Announced
=============================================================================
