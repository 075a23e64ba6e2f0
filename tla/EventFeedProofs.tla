-------------------------- MODULE EventFeedProofs --------------------------
(***************************************************************************)
(* Proofs about EventFeed, for any commands, multipliers, queue sizes and  *)
(* number of rounds: what a client sees is in the order of the game, and   *)
(* it sees the end of each bet.                                            *)
(***************************************************************************)
EXTENDS EventFeed, GameLoopProofs, FiniteSetTheorems, TLAPS

BetTypes == {"bet_placed", "bet_won", "bet_lost"}

FeedEvent ==
  {e \in [type : BroadcastTypes \cup {"bet_rejected", "credit_failed"}, round : Nat, bet : Nat,
          multiplier : Nat, elapsed : {"none", "whole", "fraction"}] :
     /\ e.bet # 0 <=> e.type \in BetTypes
     /\ e.type # "tick" => e.elapsed = "none"}

Settles(e) == e.type \in {"bet_won", "bet_lost"}

\* The events that SeenInOrder is about.
Counted(e) == e.type \in BroadcastTypes /\ ~Stray(e)

\* The pairs of events that may be sent in this order.  Beyond what SeenInOrder
\* says, also a stray bet is of a round that has begun, and no bet ends twice.
Ordered(e, f) ==
  /\ Counted(e) /\ Counted(f) => InOrder(e, f)
  /\ f.type = "round_new" /\ e.bet # 0 => bets[e.bet].round < f.round
  /\ Settles(e) /\ Settles(f) => e.bet # f.bet
Right == {p \in FeedEvent \X FeedEvent : Ordered(p[1], p[2])}

Sorted(s, R) == \A i, j \in DOMAIN s : i < j => <<s[i], s[j]>> \in R
Before(A, B, R) == \A e \in A : \A f \in B : <<e, f>> \in R

-----------------------------------------------------------------------------
(* Sequences *)

LEMMA RangeIs ==
  ASSUME NEW S, NEW s \in Seq(S)
  PROVE  Range(s) \subseteq S /\ \A i \in DOMAIN s : s[i] \in Range(s) /\ s[i] \in S
BY DEF Range

LEMMA RangeConcat ==
  ASSUME NEW S, NEW s \in Seq(S), NEW t \in Seq(S)
  PROVE  Range(s \o t) = Range(s) \cup Range(t) /\ s \o t \in Seq(S)
<1>1. PICK m \in Nat : m = Len(s)
  OBVIOUS
<1>2. PICK n \in Nat : n = Len(t)
  OBVIOUS
<1>3. /\ DOMAIN s = 1..m /\ DOMAIN t = 1..n /\ DOMAIN (s \o t) = 1..m + n
      /\ s \o t \in Seq(S)
      /\ \A i \in 1..m + n : (s \o t)[i] = IF i <= m THEN s[i] ELSE t[i - m]
  BY <1>1, <1>2
<1>4. ASSUME NEW e \in Range(s \o t) PROVE e \in Range(s) \cup Range(t)
  <2>1. PICK i \in 1..m + n : e = (s \o t)[i]
    BY <1>3 DEF Range
  <2>2. CASE i <= m
    BY <1>3, <2>1, <2>2 DEF Range
  <2>3. CASE i > m
    <3>1. i - m \in 1..n
      BY <2>3
    <3> QED
      BY <1>3, <2>1, <2>3, <3>1 DEF Range
  <2> QED
    BY <2>2, <2>3
<1>5. ASSUME NEW i \in DOMAIN s PROVE s[i] \in Range(s \o t)
  <2>1. i \in 1..m + n /\ i <= m
    BY <1>3
  <2> QED
    BY <1>3, <2>1 DEF Range
<1>6. ASSUME NEW i \in DOMAIN t PROVE t[i] \in Range(s \o t)
  <2>1. i \in 1..n /\ i + m \in 1..m + n /\ ~(i + m <= m) /\ (i + m) - m = i
    BY <1>3
  <2> QED
    BY <1>3, <2>1 DEF Range
<1>7. Range(s) \subseteq Range(s \o t)
  BY <1>5 DEF Range
<1>8. Range(t) \subseteq Range(s \o t)
  BY <1>6 DEF Range
<1> QED
  BY <1>3, <1>4, <1>7, <1>8

LEMMA SortedConcat ==
  ASSUME NEW S, NEW s \in Seq(S), NEW t \in Seq(S), NEW R, Sorted(s, R), Sorted(t, R),
         Before(Range(s), Range(t), R)
  PROVE  Sorted(s \o t, R)
<1>1. PICK m \in Nat : m = Len(s)
  OBVIOUS
<1>2. PICK n \in Nat : n = Len(t)
  OBVIOUS
<1>3. /\ DOMAIN s = 1..m /\ DOMAIN t = 1..n /\ DOMAIN (s \o t) = 1..m + n
      /\ \A i \in 1..m + n : (s \o t)[i] = IF i <= m THEN s[i] ELSE t[i - m]
  BY <1>1, <1>2
<1>4. ASSUME NEW i \in 1..m + n, NEW j \in 1..m + n, i < j
      PROVE  <<(s \o t)[i], (s \o t)[j]>> \in R
  <2>1. CASE j <= m
    <3>1. i \in 1..m /\ j \in 1..m
      BY <1>4, <2>1
    <3> QED
      BY <1>3, <1>4, <2>1, <3>1 DEF Sorted
  <2>2. CASE i <= m /\ j > m
    <3>1. i \in 1..m /\ j - m \in 1..n
      BY <2>2
    <3>2. s[i] \in Range(s) /\ t[j - m] \in Range(t)
      BY <1>3, <3>1 DEF Range
    <3> QED
      BY <1>3, <2>2, <3>2 DEF Before
  <2>3. CASE i > m
    <3>1. i - m \in 1..n /\ j - m \in 1..n /\ i - m < j - m
      BY <1>4, <2>3
    <3>2. ~(i <= m) /\ ~(j <= m)
      BY <1>4, <2>3
    <3>3. (s \o t)[i] = t[i - m] /\ (s \o t)[j] = t[j - m]
      BY <1>3, <3>2
    <3> QED
      BY <1>3, <3>1, <3>3 DEF Sorted
  <2>4. j <= m \/ (i <= m /\ j > m) \/ i > m
    OBVIOUS
  <2> QED
    BY <2>1, <2>2, <2>3, <2>4
<1> QED
  BY <1>3, <1>4 DEF Sorted

LEMMA SortedOne ==
  ASSUME NEW S, NEW x \in S, NEW R
  PROVE  <<x>> \in Seq(S) /\ Sorted(<<x>>, R) /\ Range(<<x>>) = {x}
<1>1. <<x>> \in Seq(S) /\ DOMAIN <<x>> = {1} /\ <<x>>[1] = x
  OBVIOUS
<1> QED
  BY <1>1 DEF Sorted, Range

LEMMA SortedNone ==
  ASSUME NEW S, NEW R
  PROVE  <<>> \in Seq(S) /\ Sorted(<<>>, R) /\ Range(<<>>) = {}
<1>1. <<>> \in Seq(S) /\ DOMAIN <<>> = {}
  OBVIOUS
<1> QED
  BY <1>1 DEF Sorted, Range

LEMMA SortedTail ==
  ASSUME NEW S, NEW s \in Seq(S), NEW R, s # <<>>
  PROVE  /\ Head(s) \in Range(s) /\ Head(s) \in S /\ Tail(s) \in Seq(S)
         /\ Range(Tail(s)) \subseteq Range(s)
         /\ Sorted(s, R) => Sorted(Tail(s), R) /\ Before({Head(s)}, Range(Tail(s)), R)
<1>1. PICK n \in Nat : n = Len(s)
  OBVIOUS
<1>2. /\ DOMAIN s = 1..n /\ n >= 1 /\ Head(s) = s[1]
      /\ Tail(s) \in Seq(S) /\ DOMAIN Tail(s) = 1..n - 1
      /\ \A i \in 1..n - 1 : Tail(s)[i] = s[i + 1] /\ i + 1 \in 1..n
      /\ 1 \in 1..n
  BY <1>1
<1>3. Head(s) \in Range(s) /\ Head(s) \in S
  BY <1>2 DEF Range
<1>4. Range(Tail(s)) \subseteq Range(s)
  BY <1>2 DEF Range
<1>5. ASSUME Sorted(s, R) PROVE Sorted(Tail(s), R) /\ Before({Head(s)}, Range(Tail(s)), R)
  <2>1. ASSUME NEW i \in 1..n - 1 PROVE <<Head(s), Tail(s)[i]>> \in R
    <3>1. 1 < i + 1 /\ i + 1 \in 1..n
      BY <1>2
    <3> QED
      BY <1>2, <1>5, <3>1 DEF Sorted
  <2>2. ASSUME NEW i \in 1..n - 1, NEW j \in 1..n - 1, i < j
        PROVE  <<Tail(s)[i], Tail(s)[j]>> \in R
    <3>1. i + 1 < j + 1 /\ i + 1 \in 1..n /\ j + 1 \in 1..n
      BY <1>2, <2>2
    <3> QED
      BY <1>2, <1>5, <3>1 DEF Sorted
  <2> QED
    BY <1>2, <2>1, <2>2 DEF Sorted, Before, Range
<1> QED
  BY <1>2, <1>3, <1>4, <1>5

\* A sequence of equal events.
LEMMA SortedSame ==
  ASSUME NEW S, NEW x \in S, NEW n \in Nat, NEW R, <<x, x>> \in R
  PROVE  LET s == [i \in 1..n |-> x] IN s \in Seq(S) /\ Sorted(s, R) /\ Range(s) \subseteq {x}
<1> DEFINE s == [i \in 1..n |-> x]
<1>1. s \in [1..n -> S] /\ \A i \in 1..n : s[i] = x
  OBVIOUS
<1> HIDE DEF s
<1>2. s \in Seq(S) /\ DOMAIN s = 1..n
  BY <1>1, SeqOfFunction
<1> QED
  BY <1>1, <1>2 DEF Sorted, Range, s

-----------------------------------------------------------------------------
(* The store *)

\* Of the bets that were placed under the id of their round, the store holds
\* only those of the newest round; when that has crashed, they are the next to
\* be cleared.
FreshInv ==
  /\ \A b \in betStore : bets[b].roundId = bets[b].round => bets[b].round = Len(rounds)
  /\ current # 0 /\ Newest.state = "CRASHED" => previousRoundId = Len(rounds)

\* No step changes the round of a bet, nor the one it was placed under, nor its
\* end.
LEMMA BetsKeepRounds ==
  ASSUME TypeOK, [Next]_vars
  PROVE  \A b \in DOMAIN bets :
           /\ b \in DOMAIN bets'
           /\ bets'[b].round = bets[b].round
           /\ bets'[b].roundId = bets[b].roundId
           /\ bets[b].status \in {"WON", "LOST"} => bets'[b].status = bets[b].status
<1>1. CASE UNCHANGED bets
  BY <1>1
<1>2. CASE DebitOk
  BY <1>2, DebitAddsBet
<1>3. CASE OnTick
  <2>1. PICK m \in Multipliers : TickFlies(m) \/ TickCrashes(m)
    BY <1>3 DEF OnTick
  <2>2. PICK won, lost \in SUBSET ActiveBets(current) :
          /\ DOMAIN bets' = DOMAIN bets
          /\ \A b \in DOMAIN bets :
               /\ bets'[b].round = bets[b].round /\ bets'[b].roundId = bets[b].roundId
               /\ b \notin won \cup lost => bets'[b] = bets[b]
    BY <2>1, TickOnBets
  <2>3. \A b \in won \cup lost : bets[b].status = "ACTIVE"
    BY DEF ActiveBets
  <2> QED
    BY <2>2, <2>3
<1> QED
  BY <1>1, <1>2, <1>3, BetsChange

LEMMA FreshBegin ==
  ASSUME TypeOK, LoopInv, FreshInv, Start \/ NewRoundTimer
  PROVE  FreshInv'
<1>1. BeginRound /\ LoopTypeOK /\ BetTypeOK
  BY DEF Start, NewRoundTimer, TypeOK
<1>2. /\ bets' = bets /\ betStore' = {b \in betStore : bets[b].roundId \notin {previousRoundId} \ {0}}
  BY <1>1 DEF BeginRound, ClearRounds
<1>3. Newest'.state = "BETTING"
  BY <1>1, BeginRoundStep DEF Newest
<1>4. ASSUME NEW b \in betStore', bets[b].roundId = bets[b].round PROVE FALSE
  <2>1. bets[b].round = Len(rounds) /\ bets[b].round \in DOMAIN rounds /\ Len(rounds) # 0
    BY <1>1, <1>2, <1>4 DEF FreshInv, BetTypeOK, LoopTypeOK
  <2>2. CASE Start
    BY <2>1, <2>2 DEF Start, LoopInv, RoundsInv
  <2>3. CASE NewRoundTimer
    <3>1. previousRoundId = Len(rounds)
      BY <2>3 DEF NewRoundTimer, LoopInv, RoundsInv, PhaseInv, FreshInv
    <3> QED
      BY <1>2, <1>4, <2>1, <3>1
  <2> QED
    BY <2>2, <2>3
<1> QED
  BY <1>2, <1>3, <1>4 DEF FreshInv

LEMMA FreshSame ==
  ASSUME FreshInv, TypeOK, [Next]_vars, betStore' \subseteq betStore, Len(rounds') = Len(rounds),
         current' # 0 /\ Newest'.state = "CRASHED" =>
           /\ previousRoundId' = previousRoundId /\ current # 0 /\ Newest.state = "CRASHED"
  PROVE  FreshInv'
<1>1. betStore \subseteq DOMAIN bets
  BY DEF TypeOK, BetTypeOK
<1> QED
  BY <1>1, BetsKeepRounds DEF FreshInv

LEMMA FreshPlaceNext ==
  ASSUME FreshInv, TypeOK, [Next]_vars, NEW todo \in Seq(PlaceBetCommand), NEW r \in DOMAIN rounds,
         PlaceNext(todo, r), UNCHANGED <<betStore, current, previousRoundId>>
  PROVE  FreshInv'
<1>1. /\ Len(rounds') = Len(rounds)
      /\ rounds' = rounds \/ \A i \in DOMAIN rounds : rounds'[i] = IF i = r THEN StartFlying(rounds[i]) ELSE rounds[i]
      /\ rounds[r] \in Round /\ Len(rounds) \in DOMAIN rounds
  BY PlaceNextStep DEF TypeOK, LoopTypeOK, PlaceNext
<1>2. StartFlying(rounds[r]).state = "RUNNING"
  BY <1>1, StartFlyingRound
<1>3. Newest'.state = "CRASHED" => Newest.state = "CRASHED"
  BY <1>1, <1>2 DEF Newest
<1> QED
  BY <1>1, <1>3, FreshSame

LEMMA FreshTick ==
  ASSUME FreshInv, TypeOK, LoopInv, [Next]_vars, OnTick
  PROVE  FreshInv'
<1>1. PICK m \in Multipliers : TickFlies(m) \/ TickCrashes(m)
  BY DEF OnTick
<1>2. /\ current \in DOMAIN rounds /\ rounds[current].state = "RUNNING"
      /\ Len(rounds') = Len(rounds)
      /\ \A r \in DOMAIN rounds :
           rounds'[r] = IF r = current THEN Tick(rounds[r], m) ELSE rounds[r]
      /\ rounds[current] \in Round
  BY <1>1, TickStep DEF TypeOK, LoopTypeOK
<1>3. current = Len(rounds) /\ current' = current /\ betStore' = betStore
  BY <1>1, <1>2 DEF LoopInv, RoundsInv, TickFlies, TickCrashes, Ticks, LoopTypeOK, TypeOK
<1>4. CASE TickFlies(m)
  <2>1. Newest'.state = "RUNNING"
    <3>1. Tick(rounds[current], m).state = "RUNNING"
      <4>1. ~(m >= rounds[current].crashPoint)
        BY <1>2, <1>4, RoundNumbers, MultipliersAssumption DEF TickFlies
      <4> QED
        BY <1>2, <4>1, TickRound
    <3> QED
      BY <1>2, <1>3, <3>1 DEF Newest
  <2> QED
    BY <1>2, <1>3, <2>1, FreshSame
<1>5. CASE TickCrashes(m)
  <2>1. previousRoundId' = Len(rounds')
    BY <1>2, <1>3, <1>5 DEF TickCrashes
  <2>2. betStore \subseteq DOMAIN bets
    BY DEF TypeOK, BetTypeOK
  <2> QED
    BY <1>2, <1>3, <2>1, <2>2, BetsKeepRounds DEF FreshInv
<1> QED
  BY <1>1, <1>4, <1>5

LEMMA FreshStep == TypeOK /\ LoopInv /\ FreshInv /\ [Next]_vars => FreshInv'
<1> SUFFICES ASSUME TypeOK, LoopInv, FreshInv, [Next]_vars PROVE FreshInv'
  OBVIOUS
<1>0. LoopTypeOK /\ QueueTypeOK /\ BetTypeOK
  BY DEF TypeOK
<1>1. CASE Start \/ NewRoundTimer
  BY <1>1, FreshBegin
<1>2. CASE EndBettingPhase
  <2>1. CASE Running /\ current # 0 /\ PlaceNext(placeBetQueue, current)
    <3>1. current \in DOMAIN rounds /\ placeBetQueue \in Seq(PlaceBetCommand)
      BY <1>0, <2>1 DEF LoopTypeOK, QueueTypeOK
    <3> QED
      BY <1>2, <2>1, <3>1, FreshPlaceNext DEF EndBettingPhase, betVars
  <2>2. CASE UNCHANGED rounds
    BY <1>2, <2>2, FreshSame DEF EndBettingPhase, betVars, Newest
  <2> QED
    BY <1>2, <2>1, <2>2 DEF EndBettingPhase
<1>3. CASE ReplyPublished
  <2>1. task.at = "reply" /\ PlaceNext(Tail(task.todo), task.round)
    BY <1>3 DEF ReplyPublished
  <2>2. task.round \in DOMAIN rounds /\ task.todo # <<>> /\ task.todo \in Seq(PlaceBetCommand)
    BY <1>0, <2>1 DEF LoopTypeOK, Task
  <2>3. Tail(task.todo) \in Seq(PlaceBetCommand)
    BY <2>2, SeqTail
  <2> QED
    BY <1>3, <2>1, <2>2, <2>3, FreshPlaceNext DEF ReplyPublished, betVars
<1>4. CASE DebitOk
  <2>1. /\ UNCHANGED <<rounds, current, previousRoundId>> /\ task.at = "debit"
        /\ betStore' \subseteq betStore \cup {Len(bets) + 1}
    BY <1>4 DEF DebitOk, roundVars
  <2>2. task.round = Len(rounds)
    BY <2>1 DEF LoopInv, PhaseInv
  <2>3. betStore \subseteq DOMAIN bets
    BY <1>0 DEF BetTypeOK
  <2> QED
    BY <1>4, <2>1, <2>2, <2>3, DebitAddsBet DEF FreshInv, Newest
<1>5. CASE OnTick
  BY <1>5, FreshTick
<1>6. CASE Stop
  <2>1. betStore' \subseteq betStore /\ rounds' = rounds /\ current' = 0
    BY <1>6 DEF Stop, ClearRounds
  <2> QED
    BY <2>1, FreshSame
<1>7. CASE RoundAnnounced \/ DebitRefused \/ DebitThrows \/ RoundStarted \/ FlushEvents
  BY <1>7, FreshSame DEF RoundAnnounced, DebitRefused, DebitThrows, RoundStarted, FlushEvents,
     roundVars, betVars, Newest
<1>8. CASE (\E cmd \in PlaceBetCommands : PlaceBetReceived(cmd))
           \/ (\E cmd \in CashoutCommands : CashoutReceived(cmd)) \/ CreditReturned
           \/ UNCHANGED vars
  BY <1>8, FreshSame DEF PlaceBetReceived, CashoutReceived, CreditReturned, CreditReturns, vars,
     roundVars, betVars, Newest
<1> QED
  BY <1>1, <1>2, <1>3, <1>4, <1>5, <1>6, <1>7, <1>8 DEF Next

LEMMA FreshInvariant == Safety => []FreshInv
<1>1. Init => FreshInv
  BY DEF Init, FreshInv
<1>2. TypeOK /\ LoopInv /\ FreshInv /\ [Next]_vars => FreshInv'
  BY FreshStep
<1> QED
  BY <1>1, <1>2, TypeCorrect, LoopInvariant, PTL DEF Safety

-----------------------------------------------------------------------------
(* The invariant of the feed *)

Feed == Range(seen) \cup Range(wire) \cup Range(buffer)

\* How far the newest round has got, as a rank of events.
Reach ==
  CASE Newest.state = "BETTING" /\ task.at = "announcing" -> 1
    [] Newest.state = "BETTING" /\ task.at # "announcing" -> 3
    [] Newest.state = "RUNNING" -> 5
    [] OTHER -> 7

\* What e tells has happened.
Reached(e) ==
  /\ e \in FeedEvent
  /\ e.bet # 0 => e.bet \in DOMAIN bets
  /\ e.type = "bet_won" => bets[e.bet].status = "WON"
  /\ e.type = "bet_lost" => bets[e.bet].status = "LOST"
  /\ Counted(e) =>
       /\ e.round \in DOMAIN rounds
       /\ e.round = Len(rounds) =>
            /\ Rank[e.type] <= Reach
            /\ e.type = "tick" => e.multiplier <= Newest.currentMultiplier

FeedTyped == seen \in Seq(FeedEvent) /\ wire \in Seq(FeedEvent) /\ buffer \in Seq(FeedEvent)

OrderInv ==
  /\ Sorted(seen, Right) /\ Sorted(wire, Right) /\ Sorted(buffer, Right)
  /\ Before(Range(seen), Range(wire), Right)
  /\ Before(Range(seen), Range(buffer), Right)
  /\ Before(Range(wire), Range(buffer), Right)

\* Only while a round flies does anything wait in the buffer.
BufferInv == buffer # <<>> => current # 0 /\ current = Len(rounds) /\ Newest.state = "RUNNING"

SeenBroadcast == \A e \in Range(seen) : e.type \in BroadcastTypes
BufferTypes == \A e \in Range(buffer) : e.type \in {"tick", "bet_won"}

PipeInv == FeedTyped /\ (\A e \in Feed : Reached(e)) /\ OrderInv /\ SeenBroadcast /\ BufferTypes

-----------------------------------------------------------------------------
(* What a client has been told of the bets *)

HasNew(X, r) == \E e \in X : e.type = "round_new" /\ e.round = r
Has(X, type, b) == \E e \in X : e.type = type /\ e.bet = b

\* All that is to be told of bet b is among the events X.
Done(X, b) ==
  /\ Has(X, "bet_placed", b)
  /\ bets[b].status = "WON" => Has(X, "bet_won", b)
  /\ bets[b].status = "LOST" => Has(X, "bet_lost", b)

\* So it is for the bets of each round whose beginning is among X, and for those
\* of the round before the q-th if its beginning is.
Whole(X) == \A b \in DOMAIN bets : HasNew(X, bets[b].round) => Done(X, b)
Past(X, q) ==
  \A b \in DOMAIN bets : bets[b].round + 1 = q /\ HasNew(X, bets[b].round) => Done(X, b)

\* What comes before the j-th.
Until(s, j) == {s[i] : i \in 1..j - 1}

\* When a round begins, what was sent before tells all of the round before it.
Led(X) ==
  \A j \in DOMAIN wire :
    wire[j].type = "round_new" => Past(X \cup Until(wire, j), wire[j].round)

SeenPast == \A q \in 1..Len(rounds) : HasNew(Range(seen), q) => Past(Range(seen), q)

Unsent == Range(wire) \cup Range(buffer)

\* Behind the events S, until the connection is drained, nothing is missing from
\* what is under way.
Complete(S) ==
  /\ Led(S)
  /\ nats # "drained" => Whole(S \cup Unsent)

\* That is so for a socket that has missed nothing, and for the next socket, which
\* will see what is under way now.
ShownInv ==
  /\ Complete({})
  /\ ~missed => Complete(Range(seen)) /\ SeenPast
  /\ ~joined => seen = <<>>

StreamInv == PipeInv /\ ShownInv

FeedInv == StreamInv /\ BufferInv

\* A bet is within the limits, and pays its stake at least.
WithinLimits(amountCents) == amountCents >= MinBetCents /\ amountCents <= MaxBetCents

StakeInv ==
  /\ task.at = "debit" => WithinLimits(Head(task.todo).amountCents)
  /\ \A b \in DOMAIN bets :
       /\ WithinLimits(bets[b].amountCents)
       /\ bets[b].status = "WON" => bets[b].payoutCents >= bets[b].amountCents

-----------------------------------------------------------------------------
(* The stakes *)

LEMMA StakePlaceNext ==
  ASSUME TypeOK, NEW todo \in Seq(PlaceBetCommand), NEW r \in DOMAIN rounds, PlaceNext(todo, r)
  PROVE  task'.at = "debit" => WithinLimits(Head(task'.todo).amountCents)
<1>1. LoopTypeOK
  BY DEF TypeOK
<1>2. CASE todo = <<>>
  BY <1>1, <1>2, PlaceNextStep
<1>3. CASE todo # <<>>
  BY <1>1, <1>3, PlaceNextStep DEF NeedsDebit, WithinLimits
<1> QED
  BY <1>2, <1>3

\* A debit is for a stake that canPlaceBet lets through.
LEMMA StakeTask ==
  ASSUME TypeOK, StakeInv, [Next]_vars
  PROVE  task'.at = "debit" => WithinLimits(Head(task'.todo).amountCents)
<1>1. LoopTypeOK /\ QueueTypeOK
  BY DEF TypeOK
<1>2. CASE UNCHANGED task
  BY <1>2 DEF StakeInv
<1>3. CASE Start \/ NewRoundTimer
  BY <1>3 DEF Start, NewRoundTimer, BeginRound
<1>4. CASE RoundAnnounced \/ RoundStarted
  BY <1>4, IdleTask DEF RoundAnnounced, RoundStarted
<1>5. CASE EndBettingPhase
  <2>1. CASE UNCHANGED task
    BY <2>1 DEF StakeInv
  <2>2. CASE current # 0 /\ PlaceNext(placeBetQueue, current)
    <3>1. current \in DOMAIN rounds /\ placeBetQueue \in Seq(PlaceBetCommand)
      BY <1>1, <2>2 DEF LoopTypeOK, QueueTypeOK
    <3> QED
      BY <2>2, <3>1, StakePlaceNext
  <2> QED
    BY <1>5, <2>1, <2>2 DEF EndBettingPhase
<1>6. CASE ReplyPublished
  <2>1. PlaceNext(Tail(task.todo), task.round) /\ task.at = "reply"
    BY <1>6 DEF ReplyPublished
  <2>2. task.round \in DOMAIN rounds /\ task.todo # <<>> /\ task.todo \in Seq(PlaceBetCommand)
    BY <1>1, <2>1 DEF LoopTypeOK, Task
  <2>3. Tail(task.todo) \in Seq(PlaceBetCommand)
    BY <2>2, SeqTail
  <2> QED
    BY <2>1, <2>2, <2>3, StakePlaceNext
<1>7. CASE DebitOk \/ DebitRefused
  <2>1. task'.at = "reply"
    BY <1>1, <1>7, DebitStep DEF TypeOK
  <2> QED
    BY <2>1
<1>8. CASE OnTick \/ FlushEvents \/ Stop \/ DebitThrows \/ UNCHANGED vars
  BY <1>2, <1>8, IdleTask DEF OnTick, TickFlies, TickCrashes, Ticks, FlushEvents, Stop, DebitThrows,
     vars, driverVars
<1>9. CASE (\E cmd \in PlaceBetCommands : PlaceBetReceived(cmd))
           \/ (\E cmd \in CashoutCommands : CashoutReceived(cmd)) \/ CreditReturned
  BY <1>2, <1>9 DEF PlaceBetReceived, CashoutReceived, CreditReturned, CreditReturns, driverVars
<1> QED
  BY <1>3, <1>4, <1>5, <1>6, <1>7, <1>8, <1>9 DEF Next

\* A win pays at a multiplier of at least 100.
LEMMA StakeBets ==
  ASSUME TypeOK, StakeInv, [Next]_vars, NEW b \in DOMAIN bets'
  PROVE  /\ WithinLimits(bets'[b].amountCents)
         /\ bets'[b].status = "WON" => bets'[b].payoutCents >= bets'[b].amountCents
<1>1. LoopTypeOK /\ BetTypeOK
  BY DEF TypeOK
<1>2. CASE UNCHANGED bets
  BY <1>2 DEF StakeInv
<1>3. CASE DebitOk
  <2>1. CASE b \in DOMAIN bets
    BY <1>3, <2>1, DebitAddsBet DEF StakeInv
  <2>2. CASE b \notin DOMAIN bets
    <3>1. b = Len(bets) + 1 /\ bets'[b].status \in {"ACTIVE", "PENDING"}
      BY <1>3, <2>2, DebitAddsBet
    <3>2. bets'[b].amountCents = Head(task.todo).amountCents
      BY <1>1, <1>3, <3>1 DEF DebitOk, BetTypeOK
    <3> QED
      BY <1>3, <3>1, <3>2 DEF StakeInv, DebitOk
  <2> QED
    BY <2>1, <2>2
<1>4. CASE OnTick
  <2>1. PICK m \in Multipliers : TickFlies(m) \/ TickCrashes(m)
    BY <1>4 DEF OnTick
  <2>2. PICK paidAt \in Nat : paidAt = rounds[current].currentMultiplier /\ paidAt >= 100
    <3>1. rounds[current] \in Round
      BY <1>1, <2>1, TickStep DEF LoopTypeOK
    <3> QED
      BY <3>1, RoundNumbers
  <2>3. PICK won, lost \in SUBSET ActiveBets(current) : won \cap lost = {} /\ Settle(won, lost, paidAt)
    BY <2>1, <2>2, TickSettles
  <2>4. /\ b \in DOMAIN bets
        /\ b \in won => bets'[b] = Cashout(bets[b], paidAt)
        /\ b \in lost => bets'[b] = Lose(bets[b])
        /\ b \notin won \cup lost => bets'[b] = bets[b]
    BY <1>1, <2>3, SettleStep
  <2>5. bets[b] \in Bet /\ bets[b].amountCents \in Nat /\ WithinLimits(bets[b].amountCents)
    <3>1. bets[b] \in Bet
      BY <1>1, <2>4 DEF BetTypeOK
    <3> QED
      BY <2>4, <3>1 DEF Bet, StakeInv
  <2>6. CASE b \in won
    <3>1. /\ bets'[b].amountCents = bets[b].amountCents
          /\ bets'[b].payoutCents = Payout(bets[b].amountCents, paidAt)
      BY <2>4, <2>5, <2>6, CashoutBet
    <3>2. Payout(bets[b].amountCents, paidAt) >= bets[b].amountCents
      BY <2>2, <2>5, PayoutCoversStake
    <3> QED
      BY <2>5, <3>1, <3>2
  <2>7. CASE b \in lost
    BY <2>4, <2>5, <2>7, LoseBet
  <2>8. CASE b \notin won \cup lost
    BY <2>4, <2>8 DEF StakeInv
  <2> QED
    BY <2>6, <2>7, <2>8
<1> QED
  BY <1>2, <1>3, <1>4, BetsChange

LEMMA StakeInvariant == Safety => []StakeInv
<1>1. Init => StakeInv
  BY IdleTask DEF Init, StakeInv
<1>2. TypeOK /\ StakeInv /\ [Next]_vars => StakeInv'
  BY StakeTask, StakeBets DEF StakeInv
<1> QED
  BY <1>1, <1>2, TypeCorrect, PTL DEF Safety

-----------------------------------------------------------------------------
(* The feed runs the loop *)

LEMMA FeedStepsLoop ==
  ASSUME [FeedNext]_<<vars, feedVars>>
  PROVE  [Next]_vars
<1>1. CASE OpensRound \/ OpensBetting \/ PlacesBets \/ AnswersBet
  BY <1>1 DEF OpensRound, OpensBetting, PlacesBets, AnswersBet, Next
<1>2. ASSUME NEW m \in Multipliers, FeedTickFlies(m) \/ FeedTickCrashes(m) PROVE Next
  BY <1>2 DEF FeedTickFlies, FeedTickCrashes, Next, OnTick
<1>3. CASE FeedFlush \/ CommandArrives \/ StartsTicking \/ CreditComesBack \/ LoopStopped
  BY <1>3 DEF FeedFlush, CommandArrives, StartsTicking, CreditComesBack, LoopStopped, Next
<1>4. CASE NatsDrains \/ Deliver \/ Lost \/ SocketChanges \/ UNCHANGED <<vars, feedVars>>
  BY <1>4 DEF NatsDrains, Deliver, Lost, SocketChanges
<1> QED
  BY <1>1, <1>2, <1>3, <1>4 DEF FeedNext, LoopStep

\* Publishing its events does not change what the loop does.
THEOREM FeedRunsLoop == FeedSpec => Safety
<1>1. FeedInit => Init
  BY DEF FeedInit
<1>2. [FeedNext]_<<vars, feedVars>> => [Next]_vars
  BY FeedStepsLoop
<1> QED
  BY <1>1, <1>2, PTL DEF FeedSpec, Safety

\* All that is known of the loop within the feed.
LoopFacts ==
  TypeOK /\ LoopInv /\ BetsInv /\ PayoutWithinCrashPoint /\ FreshInv /\ StakeInv

LEMMA LoopFactsInvariant == FeedSpec => []LoopFacts
BY FeedRunsLoop, TypeCorrect, LoopInvariant, BetsInvariant, PayoutBounded, FreshInvariant,
   StakeInvariant, PTL DEF LoopFacts

-----------------------------------------------------------------------------
(* What has happened stays so *)

LEMMA Ranks ==
  /\ Rank["round_new"] = 1 /\ Rank["round_betting"] = 2 /\ Rank["bet_placed"] = 3
  /\ Rank["round_started"] = 4 /\ Rank["tick"] = 5 /\ Rank["bet_won"] = 5
  /\ Rank["round_crashed"] = 6 /\ Rank["bet_lost"] = 7
BY DEF Rank

LEMMA RankNat == \A type \in BroadcastTypes : Rank[type] \in Nat
BY Ranks DEF BroadcastTypes

LEMMA ReachNat == Reach \in {1, 3, 5, 7}
BY DEF Reach

\* How the list of rounds grows.
LEMMA RoundsGrow ==
  ASSUME LoopFacts, [Next]_vars
  PROVE  /\ Len(rounds) \in Nat
         /\ Len(rounds') = Len(rounds) \/ Len(rounds') = Len(rounds) + 1
         /\ task'.at = "announcing" => task' = task \/ Len(rounds') = Len(rounds) + 1
<1>0. LoopTypeOK /\ QueueTypeOK /\ Len(rounds) \in Nat
  BY DEF LoopFacts, TypeOK, LoopTypeOK
<1>1. CASE Start \/ NewRoundTimer
  BY <1>0, <1>1, BeginRoundStep DEF Start, NewRoundTimer
<1>2. ASSUME NEW todo \in Seq(PlaceBetCommand), NEW r \in DOMAIN rounds, PlaceNext(todo, r)
      PROVE  Len(rounds') = Len(rounds) /\ task'.at # "announcing"
  <2>1. Len(rounds') = Len(rounds)
    BY <1>0, <1>2, PlaceNextStep
  <2> QED
    BY <1>0, <1>2, <2>1, PlaceNextStep
<1>3. CASE EndBettingPhase
  <2>1. CASE Running /\ current # 0 /\ PlaceNext(placeBetQueue, current)
    <3>1. current \in DOMAIN rounds /\ placeBetQueue \in Seq(PlaceBetCommand)
      BY <1>0, <2>1 DEF LoopTypeOK, QueueTypeOK
    <3> QED
      BY <1>0, <1>2, <2>1, <3>1
  <2> QED
    BY <1>0, <1>3, <2>1 DEF EndBettingPhase
<1>4. CASE ReplyPublished
  <2>1. task.at = "reply" /\ PlaceNext(Tail(task.todo), task.round)
    BY <1>4 DEF ReplyPublished
  <2>2. task.round \in DOMAIN rounds /\ task.todo # <<>> /\ task.todo \in Seq(PlaceBetCommand)
    BY <1>0, <2>1 DEF LoopTypeOK, Task
  <2>3. Tail(task.todo) \in Seq(PlaceBetCommand)
    BY <2>2, SeqTail
  <2> QED
    BY <1>0, <1>2, <2>1, <2>2, <2>3
<1>5. CASE OnTick
  <2>1. PICK m \in Multipliers : TickFlies(m) \/ TickCrashes(m)
    BY <1>5 DEF OnTick
  <2>2. Len(rounds') = Len(rounds)
    BY <2>1, TickStep DEF LoopFacts
  <2>3. task' = task
    BY <2>1 DEF TickFlies, TickCrashes, Ticks
  <2> QED
    BY <1>0, <2>2, <2>3
<1>6. CASE DebitOk \/ DebitRefused
  <2>1. rounds' = rounds /\ task'.at = "reply"
    BY <1>0, <1>6, DebitStep
  <2> QED
    BY <1>0, <2>1
<1>7. CASE RoundAnnounced \/ RoundStarted
  <2>1. rounds' = rounds /\ task' = Idle
    BY <1>7 DEF RoundAnnounced, RoundStarted, roundVars
  <2> QED
    BY <1>0, <2>1, IdleTask
<1>8. CASE DebitThrows \/ FlushEvents \/ (\E cmd \in PlaceBetCommands : PlaceBetReceived(cmd))
           \/ (\E cmd \in CashoutCommands : CashoutReceived(cmd)) \/ CreditReturned
           \/ Stop \/ UNCHANGED vars
  <2>1. rounds' = rounds /\ task' = task
    BY <1>8 DEF DebitThrows, FlushEvents, PlaceBetReceived, CashoutReceived, CreditReturned,
       CreditReturns, Stop, vars, roundVars, driverVars
  <2> QED
    BY <1>0, <2>1
<1> QED
  BY <1>1, <1>3, <1>4, <1>5, <1>6, <1>7, <1>8 DEF Next

\* A round that goes on goes on from where it was.
LEMMA ReachGrows ==
  ASSUME LoopFacts, LoopFacts', [Next]_vars, Len(rounds') = Len(rounds), Len(rounds) # 0
  PROVE  /\ Reach <= Reach' /\ Newest.currentMultiplier <= Newest'.currentMultiplier
         /\ Newest.currentMultiplier \in Nat /\ Newest'.currentMultiplier \in Nat
<1>1. /\ Newest \in Round /\ Newest' \in Round /\ Len(rounds) \in DOMAIN rounds
  BY RoundsGrow DEF LoopFacts, TypeOK, LoopTypeOK, Newest
<1>2. /\ Newest.state \in {"BETTING", "RUNNING", "CRASHED"}
      /\ Newest'.state \in {"BETTING", "RUNNING", "CRASHED"}
      /\ Newest.currentMultiplier \in Nat /\ Newest'.currentMultiplier \in Nat
  BY <1>1, RoundNumbers
<1>3. /\ StateRank[Newest'.state] >= StateRank[Newest.state]
      /\ Newest'.currentMultiplier >= Newest.currentMultiplier
  <2>1. CASE rounds' = rounds
    BY <1>2, <2>1, StateRanks DEF Newest
  <2>2. CASE RoundsForward
    BY <1>1, <2>2 DEF RoundsForward, Newest
  <2> QED
    BY <2>1, <2>2, ForwardStep DEF LoopFacts
<1>4. task'.at = "announcing" => task' = task
  BY RoundsGrow
<1>5. Reach <= Reach'
  BY <1>2, <1>3, <1>4, StateRanks DEF Reach
<1> QED
  BY <1>2, <1>3, <1>5

LEMMA ReachedKept ==
  ASSUME LoopFacts, LoopFacts', [Next]_vars, NEW e, Reached(e)
  PROVE  Reached(e)' /\ (Counted(e)' <=> Counted(e))
<1>1. e.bet # 0 => /\ e.bet \in DOMAIN bets'
                   /\ bets'[e.bet].round = bets[e.bet].round
                   /\ bets'[e.bet].roundId = bets[e.bet].roundId
                   /\ bets[e.bet].status \in {"WON", "LOST"} => bets'[e.bet].status = bets[e.bet].status
  BY BetsKeepRounds DEF Reached, LoopFacts
<1>4. Settles(e) => e.bet # 0
  BY DEF Reached, FeedEvent, Settles, BetTypes
<1>2. Counted(e)' <=> Counted(e)
  BY <1>1 DEF Counted, Stray
<1>3. ASSUME Counted(e)
      PROVE  /\ e.round \in DOMAIN rounds'
             /\ e.round = Len(rounds') =>
                  /\ Rank[e.type] <= Reach'
                  /\ e.type = "tick" => e.multiplier <= Newest'.currentMultiplier
  <2>1. e.round \in 1..Len(rounds) /\ Len(rounds) \in Nat /\ e.multiplier \in Nat
        /\ DOMAIN rounds' = 1..Len(rounds') /\ e.type \in BroadcastTypes
    BY <1>3, RoundsGrow DEF Reached, LoopFacts, TypeOK, LoopTypeOK, FeedEvent, Counted
  <2>2. CASE Len(rounds') = Len(rounds) + 1
    BY <2>1, <2>2
  <2>3. CASE Len(rounds') = Len(rounds)
    <3>1. Reach <= Reach' /\ Newest.currentMultiplier <= Newest'.currentMultiplier
          /\ Newest.currentMultiplier \in Nat /\ Newest'.currentMultiplier \in Nat
      BY <2>1, <2>3, ReachGrows
    <3>2. ASSUME e.round = Len(rounds)
          PROVE  Rank[e.type] <= Reach /\ (e.type = "tick" => e.multiplier <= Newest.currentMultiplier)
      BY <1>3, <3>2 DEF Reached
    <3>3. Rank[e.type] \in Nat /\ Reach \in Nat /\ Reach' \in Nat
      BY <2>1, RankNat, ReachNat DEF Reach
    <3> QED
      BY <2>1, <2>3, <3>1, <3>2, <3>3
  <2> QED
    BY <2>2, <2>3, RoundsGrow
<1> QED
  BY <1>1, <1>2, <1>3, <1>4 DEF Reached, Settles

LEMMA RightKept ==
  ASSUME LoopFacts, LoopFacts', [Next]_vars, NEW e, NEW f, Reached(e), Reached(f),
         <<e, f>> \in Right
  PROVE  <<e, f>> \in Right'
<1>1. (Counted(e)' <=> Counted(e)) /\ (Counted(f)' <=> Counted(f))
  BY ReachedKept
<1>2. e.bet # 0 => bets'[e.bet].round = bets[e.bet].round
  BY BetsKeepRounds DEF Reached, LoopFacts
<1> QED
  BY <1>1, <1>2 DEF Right, Ordered, InOrder

LEMMA SortedKept ==
  ASSUME LoopFacts, LoopFacts', [Next]_vars, NEW s \in Seq(FeedEvent), Sorted(s, Right),
         \A e \in Range(s) : Reached(e)
  PROVE  Sorted(s, Right')
<1>1. ASSUME NEW i \in DOMAIN s, NEW j \in DOMAIN s, i < j
      PROVE  <<s[i], s[j]>> \in Right'
  <2>1. s[i] \in Range(s) /\ s[j] \in Range(s)
    BY DEF Range
  <2>2. <<s[i], s[j]>> \in Right
    BY <1>1 DEF Sorted
  <2> QED
    BY <2>1, <2>2, RightKept
<1> QED
  BY <1>1 DEF Sorted

LEMMA BeforeKept ==
  ASSUME LoopFacts, LoopFacts', [Next]_vars, NEW A, NEW B, Before(A, B, Right),
         \A e \in A \cup B : Reached(e)
  PROVE  Before(A, B, Right')
<1>1. ASSUME NEW e \in A, NEW f \in B PROVE <<e, f>> \in Right'
  <2>1. <<e, f>> \in Right
    BY DEF Before
  <2> QED
    BY <2>1, RightKept
<1> QED
  BY <1>1 DEF Before

\* What is on its way stays in order.
LEMMA PipeKept ==
  ASSUME LoopFacts, LoopFacts', [Next]_vars, PipeInv
  PROVE  /\ \A e \in Feed : Reached(e)'
         /\ Sorted(seen, Right') /\ Sorted(wire, Right') /\ Sorted(buffer, Right')
         /\ Before(Range(seen), Range(wire), Right')
         /\ Before(Range(seen), Range(buffer), Right')
         /\ Before(Range(wire), Range(buffer), Right')
<1>1. FeedTyped /\ (\A e \in Feed : Reached(e)) /\ OrderInv
  BY DEF PipeInv
<1>2. /\ \A e \in Range(seen) : Reached(e)
      /\ \A e \in Range(wire) : Reached(e)
      /\ \A e \in Range(buffer) : Reached(e)
  BY <1>1 DEF Feed
<1>3. \A e \in Feed : Reached(e)'
  BY <1>1, ReachedKept
<1>4. Sorted(seen, Right') /\ Sorted(wire, Right') /\ Sorted(buffer, Right')
  BY <1>1, <1>2, SortedKept DEF FeedTyped, OrderInv
<1>5. Before(Range(seen), Range(wire), Right')
  BY <1>1, <1>2, BeforeKept DEF OrderInv
<1>6. Before(Range(seen), Range(buffer), Right')
  BY <1>1, <1>2, BeforeKept DEF OrderInv
<1>7. Before(Range(wire), Range(buffer), Right')
  BY <1>1, <1>2, BeforeKept DEF OrderInv
<1> QED
  BY <1>3, <1>4, <1>5, <1>6, <1>7

-----------------------------------------------------------------------------
(* What a step of the loop tells *)

\* An event of this step: if it counts, it is of the newest round and in the
\* part of the game that the round has reached.
News(f) ==
  /\ f \in FeedEvent
  /\ f.bet # 0 => f.bet \in DOMAIN bets'
  /\ f.type = "round_new" => Len(rounds') = Len(rounds) + 1 /\ f.round = Len(rounds')
  /\ Settles(f) => f.bet \in DOMAIN bets /\ bets[f.bet].status = "ACTIVE"
  /\ f.type = "bet_won" => bets'[f.bet].status = "WON"
  /\ f.type = "bet_lost" => bets'[f.bet].status = "LOST"
  /\ Counted(f)' =>
       /\ Len(rounds') # 0 /\ f.round = Len(rounds')
       /\ Rank[f.type] <= Reach'
       /\ Len(rounds') = Len(rounds) => Reach <= Rank[f.type]
       /\ f.type = "tick" => f.multiplier = Newest'.currentMultiplier

LEMMA NewsFits ==
  ASSUME LoopFacts, LoopFacts', [Next]_vars, PipeInv, NEW f, News(f)
  PROVE  Reached(f)' /\ \A e \in Feed : <<e, f>> \in Right'
<1>1. /\ Len(rounds) \in Nat /\ Len(rounds') \in Nat
      /\ DOMAIN rounds = 1..Len(rounds) /\ DOMAIN rounds' = 1..Len(rounds')
      /\ Len(rounds') = Len(rounds) \/ Len(rounds') = Len(rounds) + 1
  BY RoundsGrow DEF LoopFacts, TypeOK, LoopTypeOK
<1>2. f \in FeedEvent /\ (f.bet # 0 => f.bet \in DOMAIN bets')
  BY DEF News
<1>3. ASSUME Counted(f)' PROVE f.round \in DOMAIN rounds' /\ f.round = Len(rounds')
  <2>1. f.round = Len(rounds') /\ Len(rounds') # 0
    BY <1>3 DEF News
  <2>2. PICK n : n = Len(rounds')
    OBVIOUS
  <2>3. n \in Nat /\ n # 0 => n \in 1..n
    OBVIOUS
  <2> QED
    BY <1>1, <2>1, <2>2, <2>3
<1>4. f.type = "tick" /\ Counted(f)' => f.multiplier \in Nat /\ f.multiplier <= Newest'.currentMultiplier
  BY <1>2 DEF News, FeedEvent
<1>5. Reached(f)'
  BY <1>2, <1>3, <1>4 DEF Reached, News
<1>6. ASSUME NEW e \in Feed PROVE <<e, f>> \in Right'
  <2>1. Reached(e) /\ e \in FeedEvent
    BY DEF PipeInv, Reached
  <2>2. Counted(e)' <=> Counted(e)
    BY <2>1, ReachedKept
  <2>3. ASSUME Counted(e), Counted(f)' PROVE InOrder(e, f)
    <3>1. e.round \in 1..Len(rounds) /\ f.round = Len(rounds')
      BY <1>1, <1>3, <2>1, <2>3 DEF Reached
    <3>2. CASE Len(rounds') = Len(rounds) + 1
      BY <1>1, <3>1, <3>2 DEF InOrder
    <3>3. CASE Len(rounds') = Len(rounds) /\ e.round # f.round
      BY <1>1, <3>1, <3>3 DEF InOrder
    <3>4. CASE Len(rounds') = Len(rounds) /\ e.round = f.round
      <4>1. Rank[e.type] <= Reach /\ Reach <= Rank[f.type]
        BY <2>1, <2>3, <3>1, <3>4 DEF Reached, News
      <4>2. Rank[e.type] \in Nat /\ Rank[f.type] \in Nat /\ Reach \in Nat
        BY <2>3, RankNat, ReachNat DEF Counted
      <4>3. Rank[e.type] <= Rank[f.type]
        BY <4>1, <4>2
      <4>4. ASSUME e.type = "tick", f.type = "tick" PROVE e.multiplier <= f.multiplier
        <5>1. Newest.currentMultiplier <= Newest'.currentMultiplier
              /\ Newest.currentMultiplier \in Nat /\ Newest'.currentMultiplier \in Nat
          BY <1>1, <3>1, <3>4, ReachGrows
        <5>2. e.multiplier <= Newest.currentMultiplier /\ e.multiplier \in Nat
          BY <2>1, <2>3, <3>1, <3>4, <4>4 DEF Reached, FeedEvent
        <5>3. f.multiplier = Newest'.currentMultiplier
          BY <2>3, <4>4 DEF News
        <5> QED
          BY <5>1, <5>2, <5>3
      <4> QED
        BY <1>1, <3>1, <3>4, <4>3, <4>4 DEF InOrder
    <3> QED
      BY <1>1, <3>2, <3>3, <3>4
  <2>4. ASSUME f.type = "round_new", e.bet # 0 PROVE bets'[e.bet].round < f.round
    <3>1. e.bet \in DOMAIN bets /\ bets[e.bet].round \in 1..Len(rounds)
      BY <1>1, <2>1, <2>4 DEF Reached, LoopFacts, TypeOK, BetTypeOK
    <3>2. bets'[e.bet].round = bets[e.bet].round
      BY <3>1, BetsKeepRounds DEF LoopFacts
    <3>3. f.round = Len(rounds) + 1
      BY <2>4 DEF News
    <3>4. PICK n \in Nat : n = Len(rounds)
      BY <1>1
    <3>5. PICK r \in 1..n : r = bets'[e.bet].round
      BY <3>1, <3>2, <3>4
    <3>6. r < n + 1
      OBVIOUS
    <3> QED
      BY <3>3, <3>4, <3>5, <3>6
  <2>5. Settles(e) /\ Settles(f) => e.bet # f.bet
    BY <2>1 DEF Reached, News, Settles
  <2> QED
    BY <1>2, <2>1, <2>2, <2>3, <2>4, <2>5 DEF Right, Ordered
<1> QED
  BY <1>5, <1>6

\* Two of them are in order by their places in the game.
LEMMA NewsOrdered ==
  ASSUME NEW e, NEW f, News(e), News(f), LoopFacts',
         Counted(e)' /\ Counted(f)' => Rank[e.type] <= Rank[f.type],
         f.type = "round_new" => e.bet = 0,
         e.type = f.type /\ Settles(e) => e.bet # f.bet
  PROVE  <<e, f>> \in Right'
<1>1. e \in FeedEvent /\ f \in FeedEvent
  BY DEF News
<1>2. ASSUME Counted(e)', Counted(f)' PROVE InOrder(e, f)
  <2>1. e.round = f.round /\ e.round \in Nat /\ e.multiplier \in Nat
    BY <1>1, <1>2 DEF News, FeedEvent
  <2>2. e.type = "tick" /\ f.type = "tick" => e.multiplier = f.multiplier
    BY <1>2 DEF News
  <2> QED
    BY <1>2, <2>1, <2>2 DEF InOrder
<1>3. Settles(e) /\ Settles(f) => e.bet # f.bet
  BY DEF News, Settles
<1> QED
  BY <1>1, <1>2, <1>3 DEF Right, Ordered

\* The buffer followed by news of these types, in order.
Told(s, types) ==
  /\ s \in Seq(FeedEvent) /\ Sorted(s, Right')
  /\ \A f \in Range(s) : f \in Range(buffer) \/ (News(f) /\ f.type \in types)

LEMMA ToldBuffer ==
  ASSUME LoopFacts, LoopFacts', [Next]_vars, PipeInv
  PROVE  Told(buffer, {})
<1>1. buffer \in Seq(FeedEvent) /\ Sorted(buffer, Right')
  BY PipeKept DEF PipeInv, FeedTyped
<1> QED
  BY <1>1 DEF Told

\* No two of these events are about the same bet.
Distinct(s) == \A i, j \in DOMAIN s : i # j /\ s[i].bet # 0 => s[i].bet # s[j].bet

LEMMA NewsSorted ==
  ASSUME LoopFacts', NEW s \in Seq(FeedEvent), Distinct(s), NEW type, type # "round_new",
         \A f \in Range(s) : News(f) /\ f.type = type
  PROVE  Sorted(s, Right')
<1>1. ASSUME NEW i \in DOMAIN s, NEW j \in DOMAIN s, i < j PROVE <<s[i], s[j]>> \in Right'
  <2>1. PICK e, f : e = s[i] /\ f = s[j]
    OBVIOUS
  <2>2. e \in Range(s) /\ f \in Range(s)
    BY <2>1 DEF Range
  <2>3. News(e) /\ News(f) /\ e.type = type /\ f.type = type /\ e \in FeedEvent
    BY <2>2 DEF News
  <2>4. Counted(e)' /\ Counted(f)' => Rank[e.type] <= Rank[f.type]
    BY <2>3, RankNat DEF Counted
  <2>5. Settles(e) => e.bet # f.bet
    <3>1. Settles(e) => e.bet # 0
      BY <2>3 DEF FeedEvent, Settles, BetTypes
    <3>2. i # j
      BY <1>1
    <3> QED
      BY <2>1, <3>1, <3>2 DEF Distinct
  <2> QED
    BY <2>1, <2>3, <2>4, <2>5, NewsOrdered
<1> QED
  BY <1>1 DEF Sorted

\* News of one more type, which has its place in the game behind the others.
LEMMA ToldNext ==
  ASSUME LoopFacts, LoopFacts', [Next]_vars, PipeInv, NEW s, NEW types \in SUBSET BroadcastTypes,
         Told(s, types), NEW t \in Seq(FeedEvent), Distinct(t),
         NEW type \in BroadcastTypes \ types, type # "round_new",
         \A k \in types : Rank[k] <= Rank[type],
         \A f \in Range(t) : News(f) /\ f.type = type
  PROVE  Told(s \o t, types \cup {type})
<1>0. s \in Seq(FeedEvent) /\ Sorted(s, Right')
  BY DEF Told
<1>1. ASSUME NEW e \in Range(s), NEW f \in Range(t) PROVE <<e, f>> \in Right'
  <2>1. News(f) /\ f.type = type
    OBVIOUS
  <2>2. CASE e \in Range(buffer)
    BY <2>1, <2>2, NewsFits DEF Feed
  <2>3. CASE News(e) /\ e.type \in types
    <3>1. Rank[e.type] <= Rank[f.type] /\ e.type # f.type /\ f.type # "round_new"
      BY <2>1, <2>3
    <3> QED
      BY <2>1, <2>3, <3>1, NewsOrdered
  <2> QED
    BY <2>2, <2>3 DEF Told
<1>2. Sorted(t, Right')
  BY NewsSorted
<1>3. s \o t \in Seq(FeedEvent) /\ Range(s \o t) = Range(s) \cup Range(t)
  BY <1>0, RangeConcat
<1>4. Sorted(s \o t, Right')
  <2>1. Before(Range(s), Range(t), Right')
    BY <1>1 DEF Before
  <2> QED
    BY <1>0, <1>2, <2>1, SortedConcat
<1>5. ASSUME NEW f \in Range(s \o t)
      PROVE  f \in Range(buffer) \/ (News(f) /\ f.type \in types \cup {type})
  <2>1. CASE f \in Range(t)
    BY <2>1
  <2>2. CASE f \in Range(s)
    BY <2>2 DEF Told
  <2> QED
    BY <1>3, <2>1, <2>2
<1> QED
  BY <1>3, <1>4, <1>5 DEF Told

-----------------------------------------------------------------------------
(* What a step publishes or buffers *)

\* w is appended to the wire unless the connection is drained, and b becomes the
\* buffer.
LEMMA Emits ==
  ASSUME LoopFacts, LoopFacts', [Next]_vars, PipeInv, seen' = seen,
         NEW w \in Seq(FeedEvent), NEW b \in Seq(FeedEvent),
         Sorted(w, Right'), Sorted(b, Right'), Before(Range(w), Range(b), Right'),
         \A f \in Range(w) \cup Range(b) : f \in Range(buffer) \/ News(f),
         \A f \in Range(b) : f.type \in {"tick", "bet_won"},
         wire' = wire \/ wire' = wire \o w, buffer' = b
  PROVE  PipeInv'
<1>1. seen \in Seq(FeedEvent) /\ wire \in Seq(FeedEvent) /\ SeenBroadcast
  BY DEF PipeInv, FeedTyped
<1>2. ASSUME NEW f \in Range(w) \cup Range(b)
      PROVE  Reached(f)' /\ \A e \in Range(seen) \cup Range(wire) : <<e, f>> \in Right'
  <2>1. CASE News(f)
    BY <2>1, NewsFits DEF Feed
  <2>2. CASE f \in Range(buffer)
    BY <2>2, PipeKept DEF Feed, Before
  <2> QED
    BY <2>1, <2>2
<1>3. wire' \in Seq(FeedEvent) /\ Range(wire') \subseteq Range(wire) \cup Range(w)
  <2>1. wire \o w \in Seq(FeedEvent) /\ Range(wire \o w) = Range(wire) \cup Range(w)
    BY <1>1, RangeConcat
  <2> QED
    BY <1>1, <2>1
<1>4. Sorted(wire', Right')
  <2>1. Before(Range(wire), Range(w), Right')
    BY <1>2 DEF Before
  <2>2. Sorted(wire, Right')
    BY PipeKept
  <2>3. Sorted(wire \o w, Right')
    BY <1>1, <2>1, <2>2, SortedConcat
  <2> QED
    BY <2>2, <2>3
<1>5. ASSUME NEW e \in Range(seen)
      PROVE  (\A f \in Range(wire') : <<e, f>> \in Right') /\ (\A f \in Range(b) : <<e, f>> \in Right')
  BY <1>2, <1>3, PipeKept DEF Before
<1>6. ASSUME NEW e \in Range(wire'), NEW f \in Range(b) PROVE <<e, f>> \in Right'
  <2>1. CASE e \in Range(wire)
    BY <1>2, <2>1
  <2>2. CASE e \in Range(w)
    BY <2>2 DEF Before
  <2> QED
    BY <1>3, <2>1, <2>2
<1>7. OrderInv'
  <2>1. Sorted(seen', Right') /\ Sorted(buffer', Right')
    BY PipeKept
  <2>2. /\ Before(Range(seen'), Range(wire'), Right')
        /\ Before(Range(seen'), Range(buffer'), Right')
        /\ Before(Range(wire'), Range(buffer'), Right')
    BY <1>5, <1>6 DEF Before
  <2> QED
    BY <1>4, <2>1, <2>2 DEF OrderInv
<1>8. ASSUME NEW e \in Feed' PROVE Reached(e)'
  <2>1. e \in Range(seen) \cup Range(wire) \cup Range(w) \cup Range(b)
    BY <1>3 DEF Feed
  <2>2. CASE e \in Range(seen) \cup Range(wire)
    BY <2>2, PipeKept DEF Feed
  <2> QED
    BY <1>2, <2>1, <2>2
<1>9. FeedTyped'
  BY <1>1, <1>3 DEF FeedTyped
<1>10. SeenBroadcast' /\ BufferTypes'
  BY <1>1 DEF SeenBroadcast, BufferTypes
<1> QED
  BY <1>7, <1>8, <1>9, <1>10 DEF PipeInv

-----------------------------------------------------------------------------
(* What a step adds to what is shown *)

\* The events N tell what this step does to bets.
Tells(N) ==
  \A b \in DOMAIN bets' :
    IF b \in DOMAIN bets
    THEN bets'[b].status # bets[b].status =>
           /\ bets[b].round = Len(rounds)
           /\ bets'[b].status = "WON" => Has(N, "bet_won", b)
           /\ bets'[b].status = "LOST" => Has(N, "bet_lost", b)
    ELSE /\ bets'[b].round = Len(rounds)
         /\ bets'[b].status \notin {"WON", "LOST"}
         /\ Has(N, "bet_placed", b)

LEMMA TellsSame ==
  ASSUME UNCHANGED bets, NEW N
  PROVE  Tells(N)
BY DEF Tells

LEMMA TellsMore ==
  ASSUME NEW N, NEW M, Tells(N), N \subseteq M
  PROVE  Tells(M)
BY DEF Tells, Has

\* Of the rounds before the newest, all remains told.
LEMMA PastKept ==
  ASSUME LoopFacts, LoopFacts', [Next]_vars, NEW N, Tells(N),
         NEW X, NEW q \in 1..Len(rounds), Past(X, q)
  PROVE  Past(X, q)'
<1> SUFFICES ASSUME NEW b \in DOMAIN bets', bets'[b].round + 1 = q, HasNew(X, bets'[b].round)
             PROVE  Done(X, b)'
  BY DEF Past
<1>1. bets'[b].round \in Nat /\ Len(rounds) \in Nat
  <2>1. bets' \in Seq(Bet) /\ b \in 1..Len(bets')
    BY DEF LoopFacts, TypeOK, BetTypeOK
  <2>2. bets'[b] \in Bet
    BY <2>1
  <2> QED
    BY <2>2 DEF LoopFacts, TypeOK, LoopTypeOK, Bet
<1>2. bets'[b].round # Len(rounds)
  BY <1>1
<1>3. b \in DOMAIN bets /\ bets'[b].round = bets[b].round
  BY <1>2, BetsKeepRounds DEF Tells, LoopFacts
<1>4. bets'[b].status = bets[b].status
  BY <1>2, <1>3 DEF Tells
<1> QED
  BY <1>3, <1>4 DEF Past, Done

\* What was told of the bets, and what the step tells of them, is all there is
\* to tell.
LEMMA WholeGrows ==
  ASSUME LoopFacts, LoopFacts', [Next]_vars, NEW N, Tells(N), NEW X, Whole(X),
         \A f \in N : f \in X \/ News(f)
  PROVE  Whole(X \cup N)'
<1> SUFFICES ASSUME NEW b \in DOMAIN bets', HasNew(X \cup N, bets'[b].round)
             PROVE  Done(X \cup N, b)'
  BY DEF Whole
<1>1. CASE b \notin DOMAIN bets
  BY <1>1 DEF Tells, Done, Has
<1>2. CASE b \in DOMAIN bets
  <2>1. bets'[b].round = bets[b].round /\ bets[b].round \in 1..Len(rounds) /\ Len(rounds) \in Nat
    <3>1. bets'[b].round = bets[b].round
      BY <1>2, BetsKeepRounds DEF LoopFacts
    <3>2. BetTypeOK /\ LoopTypeOK
      BY DEF LoopFacts, TypeOK
    <3>3. bets[b].round \in 1..Len(rounds)
      <4>1. bets[b].round \in DOMAIN rounds
        BY <1>2, <3>2 DEF BetTypeOK
      <4>2. DOMAIN rounds = 1..Len(rounds)
        BY <3>2 DEF LoopTypeOK
      <4> QED
        BY <4>1, <4>2
    <3>4. Len(rounds) \in Nat
      BY <3>2 DEF LoopTypeOK
    <3> QED
      BY <3>1, <3>3, <3>4
  <2>2. HasNew(X, bets[b].round)
    <3>1. PICK e \in X \cup N : e.type = "round_new" /\ e.round = bets[b].round
      BY <2>1 DEF HasNew
    <3>2. News(e) => e.round = Len(rounds) + 1
      BY <3>1 DEF News
    <3>3. e.round # Len(rounds) + 1
      BY <2>1, <3>1
    <3> QED
      BY <3>1, <3>2, <3>3 DEF HasNew
  <2>3. Done(X, b)
    BY <1>2, <2>2 DEF Whole
  <2>4. CASE bets'[b].status = bets[b].status
    BY <2>3, <2>4 DEF Done, Has
  <2>5. CASE bets'[b].status # bets[b].status
    BY <1>2, <2>3, <2>5 DEF Done, Has, Tells
  <2> QED
    BY <2>4, <2>5
<1> QED
  BY <1>1, <1>2

\* A step that begins a round takes and settles no bet.
LEMMA OpenKeepsBets ==
  ASSUME LoopFacts, LoopFacts', [Next]_vars, Len(rounds') = Len(rounds) + 1
  PROVE  bets' = bets
<1>1. Len(rounds) \in Nat /\ LoopTypeOK
  BY DEF LoopFacts, TypeOK, LoopTypeOK
<1>2. ~DebitOk
  BY <1>1, DebitStep
<1>3. ~OnTick
  BY <1>1, TickStep DEF OnTick, LoopFacts
<1> QED
  BY <1>2, <1>3, BetsChange

\* A round that begins is led by all that is told of the one before.
LEMMA LedGrows ==
  ASSUME LoopFacts, LoopFacts', [Next]_vars, PipeInv, NEW S, Led(S),
         NEW w \in Seq(FeedEvent), NEW N, Tells(N),
         \A f \in Range(w) : f \in Range(buffer) \/ News(f),
         \/ wire' = wire
         \/ /\ wire' = wire \o w
            /\ \A f \in Range(w) : f.type = "round_new" => buffer = <<>> /\ Whole(S \cup Range(wire))
  PROVE  Led(S)'
<1>1. wire \in Seq(FeedEvent)
  BY DEF PipeInv, FeedTyped
<1>2. PICK m \in Nat : m = Len(wire)
  BY <1>1
<1>3. DOMAIN wire = 1..m
  BY <1>1, <1>2
<1>4. ASSUME NEW j \in 1..m, wire[j].type = "round_new",
             NEW X, X = S \cup Until(wire, j), NEW q, q = wire[j].round
      PROVE  Past(X, q)'
  <2>1. wire[j] \in Range(wire) /\ wire[j] \in FeedEvent
    BY <1>1, <1>3 DEF Range
  <2>2. Counted(wire[j])
    BY <1>4, <2>1 DEF Counted, Stray, FeedEvent, BetTypes, BroadcastTypes
  <2>3. wire[j].round \in 1..Len(rounds)
    BY <2>1, <2>2 DEF PipeInv, Feed, Reached, LoopFacts, TypeOK, LoopTypeOK
  <2>4. Past(X, q)
    BY <1>3, <1>4 DEF Led
  <2> QED
    BY <1>4, <2>3, <2>4, PastKept
<1>5. CASE wire' = wire
  <2> SUFFICES ASSUME NEW j \in DOMAIN wire', wire'[j].type = "round_new",
                      NEW X, X = S \cup Until(wire', j), NEW q, q = wire'[j].round
               PROVE  Past(X, q)'
    BY DEF Led
  <2> QED
    BY <1>3, <1>4, <1>5
<1>6. CASE /\ wire' = wire \o w
           /\ \A f \in Range(w) : f.type = "round_new" => buffer = <<>> /\ Whole(S \cup Range(wire))
  <2>1. PICK n \in Nat : n = Len(w)
    OBVIOUS
  <2>2. /\ DOMAIN wire' = 1..m + n
        /\ \A i \in 1..m + n : wire'[i] = IF i <= m THEN wire[i] ELSE w[i - m]
    BY <1>1, <1>2, <1>6, <2>1
  <2> SUFFICES ASSUME NEW j \in DOMAIN wire', wire'[j].type = "round_new",
                      NEW X, X = S \cup Until(wire', j), NEW q, q = wire'[j].round
               PROVE  Past(X, q)'
    BY DEF Led
  <2>3. CASE j <= m
    <3>1. j \in 1..m /\ wire'[j] = wire[j]
      BY <2>2, <2>3
    <3>2. \A i \in 1..j - 1 : i \in 1..m + n /\ i <= m
      BY <3>1
    <3>3. \A i \in 1..j - 1 : wire'[i] = wire[i]
      BY <2>2, <3>2
    <3>4. Until(wire', j) = Until(wire, j)
      BY <3>3 DEF Until
    <3> QED
      BY <1>4, <3>1, <3>4
  <2>4. CASE ~(j <= m)
    <3>0. j \in 1..m + n
      BY <2>2
    <3>1. PICK f : f = wire'[j]
      OBVIOUS
    <3>2. f \in Range(w)
      <4>1. j - m \in 1..n /\ f = w[j - m]
        BY <2>2, <2>4, <3>1
      <4> QED
        BY <2>1, <4>1 DEF Range
    <3>3. buffer = <<>> /\ Whole(S \cup Range(wire)) /\ f.type = "round_new"
      BY <1>6, <3>1, <3>2
    <3>4. News(f) /\ \A g \in Range(w) : News(g)
      BY <3>2, <3>3 DEF Range
    <3>5. f.round = Len(rounds) + 1 /\ Len(rounds') = Len(rounds) + 1
      BY <3>3, <3>4 DEF News
    <3>6. bets' = bets
      BY <3>5, OpenKeepsBets
    <3>8. S \cup Range(wire) \subseteq X
      <4>1. \A i \in 1..m : i \in 1..j - 1 /\ i \in 1..m + n /\ i <= m
        BY <2>4, <3>0
      <4>2. \A i \in 1..m : wire[i] = wire'[i] /\ i \in 1..j - 1
        BY <2>2, <4>1
      <4> QED
        BY <1>3, <4>2 DEF Range, Until
    <3>9. X \subseteq S \cup Range(wire) \cup Range(w)
      <4>1. ASSUME NEW i \in 1..j - 1 PROVE wire'[i] \in Range(wire) \cup Range(w)
        <5>1. i \in 1..m + n
          BY <2>4, <3>0
        <5>2. CASE i <= m
          BY <1>3, <2>2, <5>1, <5>2 DEF Range
        <5>3. CASE ~(i <= m)
          <6>1. i - m \in 1..n /\ wire'[i] = w[i - m]
            BY <2>2, <5>1, <5>3
          <6> QED
            BY <2>1, <6>1 DEF Range
        <5> QED
          BY <5>2, <5>3
      <4> QED
        BY <4>1 DEF Until
    <3>10. ASSUME NEW b \in DOMAIN bets, bets[b].round + 1 = f.round, HasNew(X, bets[b].round)
           PROVE  Done(X, b)
      <4>1. bets[b].round \in Nat /\ Len(rounds) \in Nat
        <5>1. BetTypeOK /\ LoopTypeOK
          BY DEF LoopFacts, TypeOK
        <5>2. bets[b].round \in DOMAIN rounds
          BY <5>1 DEF BetTypeOK
        <5> QED
          BY <5>1, <5>2 DEF LoopTypeOK
      <4>2. PICK e \in X : e.type = "round_new" /\ e.round = bets[b].round
        BY <3>10 DEF HasNew
      <4>3. e \notin Range(w)
        <5>1. e.round # Len(rounds) + 1
          BY <3>5, <3>10, <4>1, <4>2
        <5> QED
          BY <3>4, <4>2, <5>1 DEF News
      <4>4. HasNew(S \cup Range(wire), bets[b].round)
        BY <3>9, <4>2, <4>3 DEF HasNew
      <4>5. Done(S \cup Range(wire), b)
        BY <3>3, <4>4 DEF Whole
      <4> QED
        BY <3>8, <4>5 DEF Done, Has
    <3>11. Past(X, f.round)
      BY <3>10 DEF Past
    <3>12. Past(X, f.round)'
      BY <3>6, <3>11 DEF Past, Done
    <3> QED
      BY <3>1, <3>12
  <2> QED
    BY <2>3, <2>4
<1> QED
  BY <1>5, <1>6

\* What Emits says of the order of the stream, this says of what is missing from
\* it.  A drained connection loses w, in which case the socket has missed it.
LEMMA CompleteEmits ==
  ASSUME LoopFacts, LoopFacts', [Next]_vars, PipeInv, nats' = nats,
         NEW w \in Seq(FeedEvent), NEW b \in Seq(FeedEvent),
         \A f \in Range(w) \cup Range(b) : f \in Range(buffer) \/ News(f),
         Range(buffer) \subseteq Range(w) \cup Range(b), Tells(Range(w) \cup Range(b)),
         \A f \in Range(w) : f.type = "round_new" => buffer = <<>>,
         buffer' = b,
         \/ nats # "drained" /\ wire' = wire \o w
         \/ wire' = wire /\ (nats = "drained" \/ w = <<>>),
         NEW S, Complete(S)
  PROVE  Complete(S)'
<1>1. wire \in Seq(FeedEvent)
  BY DEF PipeInv, FeedTyped
<1>2. PICK N : N = Range(w) \cup Range(b)
  OBVIOUS
<1>3. PICK X : X = S \cup Unsent
  OBVIOUS
<1>4. Tells(N) /\ \A f \in N : f \in X \/ News(f)
  BY <1>2, <1>3 DEF Unsent
<1>5. nats # "drained" => X \cup N = S \cup Unsent'
  <2>1. Range(wire \o w) = Range(wire) \cup Range(w)
    BY <1>1, RangeConcat
  <2>2. w = <<>> => Range(w) = {}
    BY DEF Range
  <2>3. nats # "drained" => Range(wire') = Range(wire) \cup Range(w)
    BY <2>1, <2>2
  <2> QED
    BY <1>2, <1>3, <2>3 DEF Unsent
<1>6. ASSUME nats # "drained" PROVE Whole(S \cup Unsent)'
  <2>1. Whole(X)
    BY <1>3, <1>6 DEF Complete
  <2>2. Whole(X \cup N)'
    BY <1>4, <2>1, WholeGrows
  <2> QED
    BY <1>5, <1>6, <2>2 DEF Whole
<1>7. Led(S)'
  <2>1. \A f \in Range(w) : f \in Range(buffer) \/ News(f)
    OBVIOUS
  <2>2. buffer = <<>> => S \cup Unsent = S \cup Range(wire)
    BY DEF Range, Unsent
  <2>3. \/ wire' = wire
        \/ /\ wire' = wire \o w
           /\ \A f \in Range(w) : f.type = "round_new" => buffer = <<>> /\ Whole(S \cup Range(wire))
    BY <2>2 DEF Complete
  <2>4. Led(S)
    BY DEF Complete
  <2> QED
    BY <1>4, <2>1, <2>3, <2>4, LedGrows
<1> QED
  BY <1>6, <1>7 DEF Complete

LEMMA ShownEmits ==
  ASSUME LoopFacts, LoopFacts', [Next]_vars, StreamInv, UNCHANGED <<nats, joined, seen>>,
         NEW w \in Seq(FeedEvent), NEW b \in Seq(FeedEvent),
         \A f \in Range(w) \cup Range(b) : f \in Range(buffer) \/ News(f),
         Range(buffer) \subseteq Range(w) \cup Range(b), Tells(Range(w) \cup Range(b)),
         \A f \in Range(w) : f.type = "round_new" => buffer = <<>>,
         ~missed' => ~missed, buffer' = b,
         \/ nats # "drained" /\ wire' = wire \o w
         \/ wire' = wire /\ (nats = "drained" \/ w = <<>>)
  PROVE  ShownInv'
<1>1. PipeInv /\ ShownInv
  BY DEF StreamInv
<1>2. ASSUME NEW S, Complete(S) PROVE Complete(S)'
  BY <1>1, <1>2, CompleteEmits
<1>3. PICK T : T = Range(seen)
  OBVIOUS
<1>4. Complete({})'
  BY <1>1, <1>2 DEF ShownInv
<1>5. ASSUME ~missed' PROVE Complete(T)'
  BY <1>1, <1>2, <1>3, <1>5 DEF ShownInv
<1>6. ASSUME ~missed', NEW q \in 1..Len(rounds'), HasNew(T, q) PROVE Past(T, q)'
  <2>1. PICK e \in T : e.type = "round_new" /\ e.round = q
    BY <1>6 DEF HasNew
  <2>2. Reached(e) /\ Counted(e)
    BY <1>1, <1>3, <2>1 DEF PipeInv, Feed, Reached, FeedEvent, BetTypes, BroadcastTypes, Counted, Stray
  <2>3. q \in 1..Len(rounds)
    BY <2>1, <2>2 DEF Reached, LoopFacts, TypeOK, LoopTypeOK
  <2>4. Past(T, q)
    BY <1>1, <1>3, <1>6, <2>3 DEF ShownInv, SeenPast
  <2>5. PICK N : N = Range(w) \cup Range(b)
    OBVIOUS
  <2> QED
    BY <2>3, <2>4, <2>5, PastKept
<1>7. seen' = seen /\ joined' = joined
  OBVIOUS
<1>8. ~missed' => Complete(Range(seen))' /\ SeenPast'
  <2>1. Range(seen') = T
    BY <1>3, <1>7
  <2>2. ~missed' => Led(Range(seen))' /\ (nats' # "drained" => Whole(Range(seen) \cup Unsent)')
    BY <1>5, <2>1 DEF Complete, Led, Whole
  <2>3. ~missed' => SeenPast'
    BY <1>6, <2>1 DEF SeenPast, Past
  <2> QED
    BY <2>2, <2>3 DEF Complete
<1> QED
  BY <1>1, <1>4, <1>7, <1>8 DEF ShownInv

\* Published directly: nothing of it may overtake what waits in the buffer.
LEMMA EmitsDirect ==
  ASSUME LoopFacts, LoopFacts', [Next]_vars, StreamInv, NEW new \in Seq(FeedEvent),
         Sorted(new, Right'), \A f \in Range(new) : News(f),
         buffer = <<>> \/ \A f \in Range(new) : ~Counted(f)',
         Tells(Range(new)), Publish(new), UNCHANGED buffer
  PROVE  StreamInv'
<1>1. /\ seen' = seen /\ buffer' = buffer /\ UNCHANGED <<nats, joined, seen>>
      /\ \/ nats # "drained" /\ wire' = wire \o new
         \/ wire' = wire /\ nats = "drained"
      /\ ~missed' => ~missed
  BY DEF Publish
<1>2. /\ PipeInv /\ buffer \in Seq(FeedEvent) /\ Sorted(buffer, Right')
      /\ \A e \in Range(buffer) : Reached(e) /\ e \in FeedEvent /\ e.type \in {"tick", "bet_won"}
  BY PipeKept, RangeIs DEF StreamInv, PipeInv, FeedTyped, Feed, BufferTypes
<1>3. ASSUME NEW f \in Range(new), NEW e \in Range(buffer) PROVE <<f, e>> \in Right'
  <2>1. CASE buffer = <<>>
    BY <2>1 DEF Range
  <2>2. CASE ~Counted(f)'
    <3>1. e \in FeedEvent /\ f \in FeedEvent /\ News(f) /\ Reached(e) /\ e.type \in {"tick", "bet_won"}
      BY <1>2 DEF News
    <3>2. Settles(f) /\ Settles(e) => f.bet # e.bet
      BY <3>1 DEF Settles, News, Reached
    <3> QED
      BY <2>2, <3>1, <3>2 DEF Right, Ordered
  <2> QED
    BY <2>1, <2>2
<1>4. Before(Range(new), Range(buffer), Right')
  BY <1>3 DEF Before
<1>5. PipeInv'
  BY <1>1, <1>2, <1>4, Emits
<1>6. \A f \in Range(new) : f.type = "round_new" => buffer = <<>>
  <2>1. ASSUME NEW f \in Range(new), f.type = "round_new" PROVE Counted(f)'
    <3>1. f \in FeedEvent
      BY DEF News
    <3> QED
      BY <2>1, <3>1 DEF Counted, Stray, FeedEvent, BetTypes, BroadcastTypes
  <2> QED
    BY <2>1
<1>7. Tells(Range(new) \cup Range(buffer))
  BY TellsMore
<1>8. \A f \in Range(new) \cup Range(buffer) : f \in Range(buffer) \/ News(f)
  OBVIOUS
<1>9. ShownInv'
  BY <1>1, <1>2, <1>6, <1>7, <1>8, ShownEmits
<1> QED
  BY <1>5, <1>9 DEF StreamInv

\* The buffer is flushed with what the step has put behind it.
LEMMA EmitsFlush ==
  ASSUME LoopFacts, LoopFacts', [Next]_vars, StreamInv, NEW all, NEW types, Told(all, types),
         "round_new" \notin types, Range(buffer) \subseteq Range(all), Tells(Range(all)),
         FlushBatch(all)
  PROVE  StreamInv'
<1>1. /\ seen' = seen /\ buffer' = <<>> /\ UNCHANGED <<nats, joined, seen>>
      /\ \/ nats # "drained" /\ wire' = wire \o all
         \/ wire' = wire /\ nats = "drained"
      /\ ~missed' => ~missed
  BY DEF FlushBatch, Publish
<1>2. <<>> \in Seq(FeedEvent) /\ Sorted(<<>>, Right') /\ Range(<<>>) = {}
  BY SortedNone
<1>3. all \in Seq(FeedEvent) /\ Sorted(all, Right')
      /\ \A f \in Range(all) : f \in Range(buffer) \/ (News(f) /\ f.type \in types)
  BY DEF Told
<1>4. Before(Range(all), Range(<<>>), Right')
  BY <1>2 DEF Before
<1>5. /\ \A f \in Range(all) \cup Range(<<>>) : f \in Range(buffer) \/ News(f)
      /\ \A f \in Range(<<>>) : f.type \in {"tick", "bet_won"}
  BY <1>2, <1>3
<1>6. PipeInv /\ PipeInv'
  BY <1>1, <1>2, <1>3, <1>4, <1>5, Emits DEF StreamInv
<1>7. \A f \in Range(all) : f.type # "round_new"
  BY <1>3, <1>6 DEF PipeInv, BufferTypes
<1>8. Range(buffer) \subseteq Range(all) \cup Range(<<>>) /\ Tells(Range(all) \cup Range(<<>>))
  BY TellsMore
<1>9. ShownInv'
  BY <1>1, <1>2, <1>3, <1>5, <1>7, <1>8, ShownEmits
<1> QED
  BY <1>6, <1>9 DEF StreamInv

LEMMA EmitsBuffered ==
  ASSUME LoopFacts, LoopFacts', [Next]_vars, StreamInv, NEW b, NEW types, Told(b, types),
         types \subseteq {"tick", "bet_won"}, Range(buffer) \subseteq Range(b), Tells(Range(b)),
         buffer' = b, UNCHANGED <<nats, wire, joined, seen, missed>>
  PROVE  StreamInv'
<1>1. /\ seen' = seen /\ wire' = wire /\ buffer' = b /\ UNCHANGED <<nats, joined, seen>>
      /\ ~missed' => ~missed
  OBVIOUS
<1>2. <<>> \in Seq(FeedEvent) /\ Sorted(<<>>, Right') /\ Range(<<>>) = {}
  BY SortedNone
<1>3. b \in Seq(FeedEvent) /\ Sorted(b, Right')
      /\ \A f \in Range(b) : f \in Range(buffer) \/ (News(f) /\ f.type \in types)
  BY DEF Told
<1>4. Before(Range(<<>>), Range(b), Right')
  BY <1>2 DEF Before
<1>5. \A f \in Range(<<>>) \cup Range(b) : f \in Range(buffer) \/ News(f)
  BY <1>2, <1>3
<1>6. \A f \in Range(b) : f.type \in {"tick", "bet_won"}
  BY <1>3 DEF StreamInv, PipeInv, BufferTypes
<1>7. PipeInv'
  BY <1>1, <1>2, <1>3, <1>4, <1>5, <1>6, Emits DEF StreamInv
<1>8. Range(buffer) \subseteq Range(<<>>) \cup Range(b) /\ Tells(Range(<<>>) \cup Range(b))
  BY TellsMore
<1>9. \A f \in Range(<<>>) : f.type = "round_new" => buffer = <<>>
  BY <1>2
<1>10. ShownInv'
  BY <1>1, <1>2, <1>3, <1>5, <1>8, <1>9, ShownEmits
<1> QED
  BY <1>7, <1>10 DEF StreamInv

\* Nothing is published or buffered.
LEMMA EmitsNothing ==
  ASSUME LoopFacts, LoopFacts', [Next]_vars, StreamInv, UNCHANGED bets,
         UNCHANGED <<buffer, nats, wire, joined, seen, missed>>
  PROVE  StreamInv'
<1>1. PipeInv
  BY DEF StreamInv
<1>2. Told(buffer, {}) /\ Tells(Range(buffer))
  BY <1>1, ToldBuffer, TellsSame
<1> QED
  BY <1>2, EmitsBuffered

-----------------------------------------------------------------------------
(* The events *)

LEMMA EventIs ==
  ASSUME NEW type \in BroadcastTypes \cup {"bet_rejected", "credit_failed"}, NEW r \in Nat, NEW b \in Nat,
         b # 0 <=> type \in BetTypes
  PROVE  /\ Event(type, r, b) \in FeedEvent
         /\ Event(type, r, b).type = type /\ Event(type, r, b).round = r
         /\ Event(type, r, b).bet = b
BY DEF Event, FeedEvent

LEMMA TickEventIs ==
  ASSUME NEW r \in Nat, NEW m \in Nat, NEW e \in Elapsed
  PROVE  /\ TickEvent(r, m, e) \in FeedEvent
         /\ TickEvent(r, m, e).type = "tick" /\ TickEvent(r, m, e).round = r
         /\ TickEvent(r, m, e).bet = 0 /\ TickEvent(r, m, e).multiplier = m
BY FeedAssumption DEF TickEvent, Event, FeedEvent, BroadcastTypes, BetTypes

LEMMA CrashEventIs ==
  ASSUME NEW r \in Nat, NEW m \in Nat
  PROVE  /\ CrashEvent(r, m) \in FeedEvent
         /\ CrashEvent(r, m).type = "round_crashed" /\ CrashEvent(r, m).round = r
         /\ CrashEvent(r, m).bet = 0
BY DEF CrashEvent, Event, FeedEvent, BroadcastTypes, BetTypes

\* An answer to a player counts for nothing.
LEMMA AnswerIsNews ==
  ASSUME NEW type \in {"bet_rejected", "credit_failed"}
  PROVE  /\ Event(type, 0, 0) \in FeedEvent /\ Event(type, 0, 0).bet = 0
         /\ News(Event(type, 0, 0)) /\ ~Counted(Event(type, 0, 0))'
<1>1. type \notin BroadcastTypes /\ type \notin BetTypes
  BY DEF BroadcastTypes, BetTypes
<1>2. Event(type, 0, 0) \in FeedEvent /\ Event(type, 0, 0).type = type /\ Event(type, 0, 0).bet = 0
  BY <1>1, EventIs
<1> QED
  BY <1>1, <1>2 DEF News, Counted, Settles

LEMMA RejectionsAreNews ==
  ASSUME LoopFacts', NEW n \in Nat
  PROVE  /\ Rejections(n) \in Seq(FeedEvent) /\ Sorted(Rejections(n), Right')
         /\ \A f \in Range(Rejections(n)) : f.bet = 0 /\ News(f) /\ ~Counted(f)'
<1>1. PICK x : x = Event("bet_rejected", 0, 0)
  OBVIOUS
<1>2. News(x) /\ ~Counted(x)' /\ x \in FeedEvent /\ x.bet = 0
  BY <1>1, AnswerIsNews
<1>3. ~Settles(x)
  BY <1>2 DEF FeedEvent, Settles, BetTypes
<1>4. <<x, x>> \in Right'
  BY <1>2, <1>3, NewsOrdered
<1>5. Rejections(n) = [i \in 1..n |-> x]
  BY <1>1 DEF Rejections
<1> QED
  BY <1>2, <1>4, <1>5, SortedSame

\* An event of a bet of the newest round.
LEMMA BetEventIsNews ==
  ASSUME LoopFacts', NEW type \in {"bet_placed", "bet_won", "bet_lost"}, NEW b \in DOMAIN bets',
         Len(rounds') # 0, bets'[b].roundId = bets'[b].round => bets'[b].round = Len(rounds'),
         Rank[type] <= Reach', Len(rounds') = Len(rounds) => Reach <= Rank[type],
         type # "bet_placed" => b \in DOMAIN bets /\ bets[b].status = "ACTIVE",
         type = "bet_won" => bets'[b].status = "WON",
         type = "bet_lost" => bets'[b].status = "LOST",
         NEW f, f = BetEvent(type, b)
  PROVE  f \in FeedEvent /\ f.type = type /\ f.bet = b /\ News(f)
<1>1. bets'[b].roundId \in Nat /\ b \in Nat /\ b # 0
  <2>1. bets' \in Seq(Bet) /\ b \in 1..Len(bets') /\ Len(bets') \in Nat
    BY DEF LoopFacts, TypeOK, BetTypeOK
  <2>2. bets'[b] \in Bet
    BY <2>1
  <2>3. bets'[b].roundId \in Nat
    BY <2>2 DEF Bet
  <2>4. PICK n \in Nat : n = Len(bets')
    BY <2>1
  <2>5. b \in 1..n
    BY <2>1, <2>4
  <2> QED
    BY <2>3, <2>5
<1>2. type \in BroadcastTypes /\ type \in BetTypes
  BY DEF BroadcastTypes, BetTypes
<1>3. /\ f \in FeedEvent /\ f.type = type /\ f.round = bets'[b].roundId /\ f.bet = b
  BY <1>1, <1>2, EventIs DEF BetEvent
<1>4. ASSUME Counted(f)' PROVE f.round = Len(rounds')
  <2>1. bets'[b].roundId = bets'[b].round
    BY <1>1, <1>3, <1>4 DEF Counted, Stray
  <2> QED
    BY <1>3, <2>1
<1>5. type # "tick" /\ type # "round_new"
  OBVIOUS
<1> QED
  BY <1>3, <1>4, <1>5 DEF News, Settles

\* One event for each of the bets that a tick settles.
LEMMA ForEachIsNews ==
  ASSUME LoopFacts', NEW type \in {"bet_won", "bet_lost"}, NEW betSet \in SUBSET DOMAIN bets',
         Len(rounds') # 0,
         \A b \in betSet : bets'[b].roundId = bets'[b].round => bets'[b].round = Len(rounds'),
         \A b \in betSet : b \in DOMAIN bets /\ bets[b].status = "ACTIVE",
         type = "bet_won" => \A b \in betSet : bets'[b].status = "WON",
         type = "bet_lost" => \A b \in betSet : bets'[b].status = "LOST",
         Rank[type] <= Reach', Len(rounds') = Len(rounds) => Reach <= Rank[type],
         NEW s \in ForEach(type, betSet)
  PROVE  /\ s \in Seq(FeedEvent) /\ Distinct(s)
         /\ \A f \in Range(s) : News(f) /\ f.type = type
         /\ \A b \in betSet : Has(Range(s), type, b)
<1>1. IsFiniteSet(betSet)
  <2>1. Len(bets') \in Nat /\ DOMAIN bets' = 1..Len(bets')
    BY DEF LoopFacts, TypeOK, BetTypeOK
  <2>2. IsFiniteSet(DOMAIN bets')
    <3>1. PICK n \in Nat : n = Len(bets')
      BY <2>1
    <3>2. IsFiniteSet(1..n)
      BY FS_Interval
    <3> QED
      BY <2>1, <3>1, <3>2
  <2> QED
    BY <2>2, FS_Subset
<1>2. PICK n \in Nat : n = Cardinality(betSet)
  BY <1>1, FS_CardinalityType
<1>3. PICK g \in Bijection(1..n, betSet) : s = [i \in DOMAIN g |-> BetEvent(type, g[i])]
  BY <1>2 DEF ForEach
<1>4. /\ g \in [1..n -> betSet]
      /\ \A i, j \in 1..n : g[i] = g[j] => i = j
      /\ \A b \in betSet : \E i \in 1..n : g[i] = b
  BY DEF Bijection, Injection, Surjection, IsInjective
<1>5. ASSUME NEW f, NEW b \in betSet, f = BetEvent(type, b)
      PROVE  f \in FeedEvent /\ f.type = type /\ f.bet = b /\ News(f)
  BY <1>5, BetEventIsNews
<1>6. DOMAIN s = 1..n /\ \A i \in 1..n : s[i] = BetEvent(type, g[i]) /\ g[i] \in betSet
  BY <1>3, <1>4
<1>7. ASSUME NEW i \in 1..n
      PROVE  s[i] \in FeedEvent /\ s[i].type = type /\ s[i].bet = g[i] /\ News(s[i])
  <2>1. PICK f : f = s[i]
    OBVIOUS
  <2>2. PICK b \in betSet : b = g[i]
    BY <1>6
  <2> QED
    BY <1>5, <1>6, <2>1, <2>2
<1>8. s \in [1..n -> FeedEvent]
  BY <1>3, <1>4, <1>6, <1>7
<1>9. Distinct(s)
  BY <1>4, <1>6, <1>7 DEF Distinct
<1>10. ASSUME NEW b \in betSet PROVE Has(Range(s), type, b)
  <2>1. PICK i \in 1..n : g[i] = b
    BY <1>4
  <2>2. s[i] \in Range(s)
    BY <1>6 DEF Range
  <2> QED
    BY <1>7, <2>1, <2>2 DEF Has
<1> QED
  BY <1>6, <1>7, <1>8, <1>9, <1>10, SeqOfFunction DEF Range

-----------------------------------------------------------------------------
(* The steps of the network *)

LEMMA PipeSame ==
  ASSUME LoopFacts, LoopFacts', [Next]_vars, PipeInv, UNCHANGED <<buffer, wire, seen>>
  PROVE  PipeInv'
<1>1. OrderInv' /\ \A e \in Feed' : Reached(e)'
  BY PipeKept DEF OrderInv, Feed
<1> QED
  BY <1>1 DEF PipeInv, FeedTyped, SeenBroadcast, BufferTypes

LEMMA CompleteSame ==
  ASSUME UNCHANGED <<bets, wire, buffer>>, nats' # "drained" => nats # "drained",
         NEW S, Complete(S)
  PROVE  Complete(S)'
BY DEF Complete, Led, Past, Whole, Done, Unsent

LEMMA BufferSame ==
  ASSUME BufferInv, UNCHANGED <<rounds, current>>, buffer' = buffer \/ buffer' = <<>>
  PROVE  BufferInv'
BY DEF BufferInv, Newest

Adds(A, B, h) == A = B \cup {h}

\* The parts of a sequence that loses its first element.
LEMMA HeadTail ==
  ASSUME NEW S, NEW s \in Seq(S), NEW t, NEW h, s # <<>>, t = Tail(s), h = Head(s)
  PROVE  /\ Adds(Range(s), Range(t), h)
         /\ \A j \in DOMAIN t :
              /\ j + 1 \in DOMAIN s /\ s[j + 1] = t[j]
              /\ Adds(Until(s, j + 1), Until(t, j), h)
              /\ Until(t, j) \subseteq Range(t)
<1>1. PICK n : n = Len(s)
  OBVIOUS
<1>3. /\ DOMAIN s = 1..n /\ n \in Nat /\ n >= 1 /\ h = s[1] /\ DOMAIN t = 1..n - 1
      /\ \A i \in 1..n - 1 : t[i] = s[i + 1]
  BY <1>1
<1>4. Range(s) = Range(t) \cup {h}
  <2>1. ASSUME NEW i \in 1..n PROVE s[i] \in Range(t) \cup {h}
    <3>1. i = 1 \/ (i - 1 \in 1..n - 1 /\ t[i - 1] = s[i])
      BY <1>3
    <3> QED
      BY <1>3, <3>1 DEF Range
  <2>2. ASSUME NEW i \in 1..n - 1 PROVE t[i] \in Range(s)
    <3>1. i + 1 \in 1..n /\ t[i] = s[i + 1]
      BY <1>3
    <3> QED
      BY <1>3, <3>1 DEF Range
  <2>3. h \in Range(s)
    BY <1>3 DEF Range
  <2> QED
    BY <1>3, <2>1, <2>2, <2>3 DEF Range
<1>5. ASSUME NEW j \in 1..n - 1
      PROVE  /\ j + 1 \in 1..n /\ s[j + 1] = t[j]
             /\ {s[i] : i \in 1..(j + 1) - 1} = {t[i] : i \in 1..j - 1} \cup {h}
             /\ {t[i] : i \in 1..j - 1} \subseteq Range(t)
  <2>1. j + 1 \in 1..n /\ s[j + 1] = t[j]
    BY <1>3
  <2>2. ASSUME NEW i \in 1..(j + 1) - 1 PROVE s[i] \in {t[k] : k \in 1..j - 1} \cup {h}
    <3>1. i = 1 \/ (i - 1 \in 1..j - 1 /\ i - 1 \in 1..n - 1 /\ (i - 1) + 1 = i)
      BY <1>3
    <3>2. CASE i = 1
      BY <1>3, <3>2
    <3>3. CASE i - 1 \in 1..j - 1 /\ i - 1 \in 1..n - 1 /\ (i - 1) + 1 = i
      <4>1. PICK k : k = i - 1
        OBVIOUS
      <4>2. k \in 1..j - 1 /\ t[k] = s[i]
        BY <1>3, <3>3, <4>1
      <4> QED
        BY <4>2
    <3> QED
      BY <3>1, <3>2, <3>3
  <2>3. ASSUME NEW i \in 1..j - 1 PROVE t[i] \in {s[k] : k \in 1..(j + 1) - 1} /\ t[i] \in Range(t)
    <3>1. i + 1 \in 1..(j + 1) - 1 /\ i \in 1..n - 1
      BY <1>3
    <3> QED
      BY <1>3, <3>1 DEF Range
  <2>4. 1 \in 1..(j + 1) - 1
    BY <1>3
  <2> QED
    BY <1>3, <2>1, <2>2, <2>3, <2>4
<1> QED
  BY <1>3, <1>4, <1>5 DEF Until, Adds

\* h is needed for no bet of a round that begins after it.
LEMMA DoneShrinks ==
  ASSUME NEW Y, NEW h, NEW b, b # 0, Done(Y \cup {h}, b), HasNew(Y, bets[b].round),
         bets[b].round \in Nat,
         \A f \in Y : f.type = "round_new" /\ h.bet # 0 => bets[h.bet].round < f.round
  PROVE  Done(Y, b)
<1>1. PICK f \in Y : f.type = "round_new" /\ f.round = bets[b].round
  BY DEF HasNew
<1>2. h.bet # b
  BY <1>1
<1> QED
  BY <1>2 DEF Done, Has

\* The first event on the wire goes, and is not seen.
LEMMA CompleteDrops ==
  ASSUME LoopFacts, wire \in Seq(FeedEvent), wire # <<>>, wire' = Tail(wire),
         UNCHANGED <<bets, buffer, nats>>, NEW h, h = Head(wire), NEW S, Complete(S),
         \A f \in S \cup Range(Tail(wire)) \cup Range(buffer) :
           f.type = "round_new" /\ h.bet # 0 => bets[h.bet].round < f.round
  PROVE  Complete(S)'
<1>1. PICK t : t = Tail(wire)
  OBVIOUS
<1>2. /\ Range(wire) = Range(t) \cup {h}
      /\ \A j \in DOMAIN t :
           /\ j + 1 \in DOMAIN wire /\ wire[j + 1] = t[j]
           /\ Until(wire, j + 1) = Until(t, j) \cup {h}
           /\ Until(t, j) \subseteq Range(t)
  <2>1. /\ Adds(Range(wire), Range(t), h)
        /\ \A j \in DOMAIN t :
             /\ j + 1 \in DOMAIN wire /\ wire[j + 1] = t[j]
             /\ Adds(Until(wire, j + 1), Until(t, j), h)
             /\ Until(t, j) \subseteq Range(t)
    BY <1>1, HeadTail
  <2> QED
    BY <2>1 DEF Adds
<1>3. \A b \in DOMAIN bets : b # 0 /\ bets[b].round \in Nat
  BY DEF LoopFacts, TypeOK, BetTypeOK, LoopTypeOK
<1>4. ASSUME NEW Y, Y \subseteq S \cup Range(t) \cup Range(buffer), NEW b \in DOMAIN bets,
             HasNew(Y, bets[b].round), HasNew(Y \cup {h}, bets[b].round) => Done(Y \cup {h}, b)
      PROVE  Done(Y, b)
  <2>1. Done(Y \cup {h}, b)
    BY <1>4 DEF HasNew
  <2>2. \A f \in Y : f.type = "round_new" /\ h.bet # 0 => bets[h.bet].round < f.round
    BY <1>1, <1>4
  <2> QED
    BY <1>3, <1>4, <2>1, <2>2, DoneShrinks
<1>5. ASSUME nats # "drained" PROVE Whole(S \cup Unsent)'
  <2>1. PICK Y : Y = S \cup Range(t) \cup Range(buffer)
    OBVIOUS
  <2>2. Y \cup {h} = S \cup Unsent /\ Y = S \cup Unsent'
    BY <1>1, <1>2, <2>1 DEF Unsent
  <2>3. Whole(Y \cup {h})
    BY <1>5, <2>2 DEF Complete
  <2>4. Whole(Y)
    BY <1>4, <2>1, <2>3 DEF Whole
  <2> QED
    BY <2>2, <2>4 DEF Whole, Done
<1>6. ASSUME NEW j \in DOMAIN t, t[j].type = "round_new",
             NEW Y, Y = S \cup Until(t, j), NEW q, q = t[j].round
      PROVE  Past(Y, q)
  <2>1. Y \cup {h} = S \cup Until(wire, j + 1) /\ Y \subseteq S \cup Range(t) \cup Range(buffer)
    BY <1>2, <1>6
  <2>2. Past(Y \cup {h}, q)
    BY <1>2, <1>6, <2>1 DEF Complete, Led
  <2> QED
    BY <1>4, <2>1, <2>2 DEF Past
<1>7. Led(S)'
  BY <1>1, <1>6 DEF Led, Past, Done
<1> QED
  BY <1>5, <1>7 DEF Complete

\* The first event on the wire goes, and is seen.
LEMMA CompleteMoves ==
  ASSUME wire \in Seq(FeedEvent), wire # <<>>, wire' = Tail(wire),
         UNCHANGED <<bets, buffer, nats>>, NEW h, h = Head(wire), NEW S, Complete(S)
  PROVE  Complete(S \cup {h})'
<1>1. PICK t : t = Tail(wire)
  OBVIOUS
<1>2. /\ Range(wire) = Range(t) \cup {h}
      /\ \A j \in DOMAIN t :
           /\ j + 1 \in DOMAIN wire /\ wire[j + 1] = t[j]
           /\ Until(wire, j + 1) = Until(t, j) \cup {h}
  <2>1. /\ Adds(Range(wire), Range(t), h)
        /\ \A j \in DOMAIN t :
             /\ j + 1 \in DOMAIN wire /\ wire[j + 1] = t[j]
             /\ Adds(Until(wire, j + 1), Until(t, j), h)
             /\ Until(t, j) \subseteq Range(t)
    BY <1>1, HeadTail
  <2> QED
    BY <2>1 DEF Adds
<1>3. (S \cup {h}) \cup Unsent' = S \cup Unsent
  BY <1>1, <1>2 DEF Unsent
<1>4. nats # "drained" => Whole((S \cup {h}) \cup Unsent)'
  BY <1>3 DEF Complete, Whole, Done
<1>5. ASSUME NEW j \in DOMAIN t, t[j].type = "round_new",
             NEW Y, Y = (S \cup {h}) \cup Until(t, j), NEW q, q = t[j].round
      PROVE  Past(Y, q)
  <2>1. Y = S \cup Until(wire, j + 1)
    BY <1>2, <1>5
  <2> QED
    BY <1>2, <1>5, <2>1 DEF Complete, Led
<1>6. Led(S \cup {h})'
  BY <1>1, <1>5 DEF Led, Past, Done
<1> QED
  BY <1>4, <1>6 DEF Complete

\* What comes behind a round that has begun does not begin the one before.
LEMMA SeenMoves ==
  ASSUME LoopFacts, PipeInv, wire # <<>>, NEW h, h = Head(wire), NEW T, T = Range(seen),
         Led(T), SeenPast, NEW q \in 1..Len(rounds), HasNew(T \cup {h}, q)
  PROVE  Past(T \cup {h}, q)
<1>1. /\ wire \in Seq(FeedEvent) /\ seen \in Seq(FeedEvent) /\ Before(T, Range(wire), Right)
      /\ 1 \in DOMAIN wire /\ wire[1] = h /\ h \in Range(wire) /\ Len(rounds) \in Nat
  BY DEF PipeInv, FeedTyped, OrderInv, Range, LoopFacts, TypeOK, LoopTypeOK
<1> SUFFICES ASSUME NEW b \in DOMAIN bets, bets[b].round + 1 = q, HasNew(T \cup {h}, bets[b].round)
             PROVE  Done(T \cup {h}, b)
  BY DEF Past
<1>2. bets[b].round \in Nat /\ q \in Nat
  BY <1>1 DEF LoopFacts, TypeOK, BetTypeOK, LoopTypeOK
<1>3. ASSUME NEW e \in T, e.type = "round_new", e.round = q PROVE ~(h.type = "round_new" /\ h.round = bets[b].round)
  <2>1. <<e, h>> \in Right
    BY <1>1 DEF Before
  <2>2. h.type = "round_new" => Counted(e) /\ Counted(h)
    BY <1>3, <2>1 DEF Right, Counted, Stray, FeedEvent, BetTypes, BroadcastTypes
  <2>3. h.type = "round_new" => q <= h.round
    BY <1>3, <2>1, <2>2 DEF Right, Ordered, InOrder
  <2> QED
    BY <1>2, <2>3
<1>4. HasNew(T, bets[b].round)
  <2>1. h.type = "round_new" => h.round # bets[b].round
    <3>1. CASE HasNew(T, q)
      BY <1>3, <3>1 DEF HasNew
    <3>2. CASE ~HasNew(T, q)
      BY <1>2, <3>2 DEF HasNew
    <3> QED
      BY <3>1, <3>2
  <2> QED
    BY <2>1 DEF HasNew
<1>5. Past(T, q)
  <2>1. CASE HasNew(T, q)
    BY <2>1 DEF SeenPast
  <2>2. CASE h.type = "round_new" /\ h.round = q
    <3>1. T \cup Until(wire, 1) = T
      BY DEF Until
    <3> QED
      BY <1>1, <2>2, <3>1 DEF Led
  <2> QED
    BY <2>1, <2>2 DEF HasNew
<1>6. Done(T, b)
  BY <1>4, <1>5 DEF Past
<1> QED
  BY <1>6 DEF Done, Has

\* A payout grows with the stake.
LEMMA PayoutGrows ==
  ASSUME NEW a \in Nat, NEW b \in Nat, a <= b, NEW m \in Nat
  PROVE  Payout(a, m) <= Payout(b, m)
<1>1. a * m \in Nat /\ b * m \in Nat /\ a * m <= b * m
  <2>1. PICK d \in Nat : b = a + d
    <3>1. b - a \in Nat /\ b = a + (b - a)
      OBVIOUS
    <3> QED
      BY <3>1
  <2>2. b * m = a * m + d * m /\ a * m \in Nat /\ d * m \in Nat
    BY <2>1
  <2> QED
    BY <2>2
<1>2. \A x, y \in Nat : x <= y => x \div 100 <= y \div 100
  OBVIOUS
<1> QED
  BY <1>1, <1>2 DEF Payout

\* What a bet stakes and pays fits the integer fields.
LEMMA AmountsFit ==
  ASSUME LoopFacts, NEW b \in DOMAIN bets
  PROVE  /\ bets[b].amountCents <= MaxInt32
         /\ bets[b].status = "WON" => bets[b].payoutCents <= MaxInt32
<1>1. bets[b] \in Bet /\ rounds[bets[b].round] \in Round
  BY DEF LoopFacts, TypeOK, BetTypeOK, LoopTypeOK
<1>2. PICK amount \in Nat : amount = bets[b].amountCents /\ amount <= MaxBetCents
  BY <1>1 DEF Bet, LoopFacts, StakeInv, WithinLimits
<1>3. PICK c \in CrashPoints : c = rounds[bets[b].round].crashPoint /\ c \in Nat
  BY <1>1, RoundNumbers DEF Round
<1>4. /\ MaxBetCents \in Nat /\ MaxInt32 \in Nat /\ MaxBetCents <= MaxInt32
      /\ Payout(MaxBetCents, c) <= MaxInt32
  BY ConfigAssumption, AmountsAssumption
<1>5. amount <= MaxInt32
  BY <1>2, <1>4
<1>6. ASSUME bets[b].status = "WON" PROVE bets[b].payoutCents <= MaxInt32
  <2>1. PICK paid \in Nat : paid = bets[b].payoutCents
    BY <1>1 DEF Bet
  <2>2. paid <= Payout(amount, c)
    BY <1>2, <1>3, <1>6, <2>1 DEF LoopFacts, PayoutWithinCrashPoint
  <2>3. Payout(amount, c) <= Payout(MaxBetCents, c)
    BY <1>2, <1>3, <1>4, PayoutGrows
  <2>4. Payout(amount, c) \in Nat /\ Payout(MaxBetCents, c) \in Nat
    BY <1>2, <1>3, <1>4, PayoutNat
  <2> QED
    BY <1>4, <2>1, <2>2, <2>3, <2>4
<1> QED
  BY <1>2, <1>5, <1>6

\* Of what arrives at a joined socket, only what is about no bet is not sent.
LEMMA BetsAreSent ==
  ASSUME LoopFacts, NEW h, Reached(h), h.bet # 0
  PROVE  Valid(h) /\ Encodes(h) /\ h.type \in BroadcastTypes
<1>1. h \in FeedEvent /\ h.type \in BetTypes /\ h.bet \in DOMAIN bets
  BY DEF Reached, FeedEvent
<1>2. h.type # "tick" /\ h.type # "round_crashed" /\ h.type \in BroadcastTypes
  BY <1>1 DEF BetTypes, BroadcastTypes
<1>3. Encodes(h)
  <2>1. h.elapsed # "fraction"
    BY <1>1, <1>2 DEF FeedEvent
  <2>2. h.type = "bet_won" => bets[h.bet].status = "WON"
    BY DEF Reached
  <2> QED
    BY <1>1, <2>1, <2>2, AmountsFit DEF Encodes
<1>4. bets[h.bet].amountCents \in Nat /\ bets[h.bet].payoutCents \in Nat
  <2>1. bets \in Seq(Bet)
    BY DEF LoopFacts, TypeOK, BetTypeOK
  <2>2. bets[h.bet] \in Bet
    BY <1>1, <2>1
  <2> QED
    BY <2>2 DEF Bet
<1>5. bets[h.bet].amountCents >= MinBetCents /\ MinBetCents \in Nat /\ MinBetCents > 0
  BY <1>1, ConfigAssumption, FeedAssumption DEF LoopFacts, StakeInv, WithinLimits
<1>6. bets[h.bet].amountCents > 0
  BY <1>4, <1>5
<1>7. h.type = "bet_won" => bets[h.bet].payoutCents > 0
  <2>1. h.type = "bet_won" => bets[h.bet].payoutCents >= bets[h.bet].amountCents
    BY <1>1 DEF LoopFacts, StakeInv, Reached
  <2> QED
    BY <1>4, <1>6, <2>1
<1> QED
  BY <1>2, <1>3, <1>6, <1>7 DEF Valid

LEMMA ShownDeliver ==
  ASSUME LoopFacts, StreamInv, Deliver \/ Lost
  PROVE  ShownInv'
<1>1. /\ PipeInv /\ ShownInv /\ wire \in Seq(FeedEvent) /\ seen \in Seq(FeedEvent)
      /\ wire # <<>> /\ wire' = Tail(wire) /\ UNCHANGED <<bets, rounds, buffer, nats, joined>>
  BY DEF StreamInv, PipeInv, FeedTyped, Deliver, Lost, vars, betVars, roundVars
<1>2. PICK h : h = Head(wire)
  OBVIOUS
<1>3. PICK T : T = Range(seen)
  OBVIOUS
<1>4. h \in Range(wire) /\ Reached(h) /\ h \in FeedEvent
  BY <1>1, <1>2, SortedTail DEF PipeInv, Feed, Reached
<1>5. \A f \in Range(Tail(wire)) \cup Range(buffer) :
        f.type = "round_new" /\ h.bet # 0 => bets[h.bet].round < f.round
  <2>1. Before({h}, Range(Tail(wire)), Right)
    BY <1>1, <1>2, SortedTail DEF PipeInv, OrderInv
  <2>2. Before({h}, Range(buffer), Right)
    BY <1>1, <1>4 DEF PipeInv, OrderInv, Before
  <2> QED
    BY <2>1, <2>2 DEF Before, Right, Ordered
<1>6. Complete({})'
  <2>1. Complete({})
    BY <1>1 DEF ShownInv
  <2> QED
    BY <1>1, <1>2, <1>5, <2>1, CompleteDrops
<1>7. CASE seen' = seen /\ (missed' \/ ~joined \/ h.bet = 0)
  <2>1. ASSUME ~missed' PROVE Complete(T)' /\ SeenPast
    <3>1. ~missed
      BY <2>1 DEF Deliver, Lost
    <3>2. Complete(T) /\ SeenPast
      BY <1>1, <1>3, <3>1 DEF ShownInv
    <3>3. T = {} \/ h.bet = 0
      BY <1>1, <1>3, <1>7, <2>1 DEF ShownInv, Range
    <3>4. \A f \in T \cup Range(Tail(wire)) \cup Range(buffer) :
            f.type = "round_new" /\ h.bet # 0 => bets[h.bet].round < f.round
      BY <1>5, <3>3
    <3> QED
      BY <1>1, <1>2, <3>2, <3>4, CompleteDrops
  <2>2. ~missed' => Complete(Range(seen))' /\ SeenPast'
    <3>1. Range(seen') = T
      BY <1>3, <1>7
    <3>2. ~missed' => Complete(Range(seen))'
      BY <2>1, <3>1 DEF Complete, Led, Whole
    <3>3. ~missed' => SeenPast'
      BY <1>1, <1>3, <2>1, <3>1 DEF SeenPast, Past, Done
    <3> QED
      BY <3>2, <3>3
  <2> QED
    BY <1>1, <1>6, <1>7, <2>2 DEF ShownInv
<1>8. CASE Deliver /\ joined /\ seen' = seen \o <<h>>
  <2>1. missed' = missed
    BY <1>8 DEF Deliver
  <2>2. Range(seen') = T \cup {h}
    <3>1. PICK u : u = <<h>>
      OBVIOUS
    <3>2. u \in Seq(FeedEvent) /\ Range(u) = {h}
      BY <1>4, <3>1, SortedOne
    <3>3. Range(seen \o u) = Range(seen) \cup Range(u)
      BY <1>1, <3>2, RangeConcat
    <3> QED
      BY <1>3, <1>8, <3>1, <3>2, <3>3
  <2>3. ASSUME ~missed PROVE Complete(T \cup {h})' /\ \A q \in 1..Len(rounds) : HasNew(T \cup {h}, q) => Past(T \cup {h}, q)
    <3>1. Complete(T) /\ SeenPast
      BY <1>1, <1>3, <2>3 DEF ShownInv
    <3>2. Complete(T \cup {h})'
      BY <1>1, <1>2, <3>1, CompleteMoves
    <3>3. Led(T)
      BY <3>1 DEF Complete
    <3> QED
      BY <1>1, <1>2, <1>3, <3>1, <3>2, <3>3, SeenMoves
  <2>4. ~missed' => Complete(Range(seen))'
    BY <2>1, <2>2, <2>3 DEF Complete, Led, Whole
  <2>5. ~missed' => SeenPast'
    BY <1>1, <2>1, <2>2, <2>3 DEF SeenPast, Past, Done
  <2> QED
    BY <1>1, <1>6, <1>8, <2>4, <2>5 DEF ShownInv
<1>9. seen' = seen \/ (Deliver /\ joined /\ seen' = seen \o <<h>>)
  <2>1. seen' = seen \/ (Deliver /\ joined /\ seen' = Append(seen, h))
    BY <1>2 DEF Deliver, Lost
  <2>2. Append(seen, h) = seen \o <<h>>
    BY <1>1, <1>4
  <2> QED
    BY <2>1, <2>2
<1>10. seen' = seen => missed' \/ ~joined \/ h.bet = 0
  <2>1. CASE Lost
    BY <2>1 DEF Lost
  <2>2. CASE Deliver /\ joined /\ h.bet # 0
    <3>1. seen' = Append(seen, h)
      BY <1>2, <1>4, <2>2, BetsAreSent DEF Deliver
    <3>2. Len(Append(seen, h)) = Len(seen) + 1 /\ Len(seen) \in Nat
      BY <1>1, <1>4
    <3>3. Append(seen, h) # seen
      BY <3>2
    <3> QED
      BY <3>1, <3>3
  <2> QED
    BY <2>1, <2>2
<1> QED
  BY <1>7, <1>8, <1>9, <1>10

\* The first event on the wire is delivered or lost.
LEMMA WireShrinks ==
  ASSUME LoopFacts, LoopFacts', [Next]_vars, PipeInv, UNCHANGED buffer,
         wire # <<>>, wire' = Tail(wire),
         seen' = seen \/ (seen' = seen \o <<Head(wire)>> /\ Head(wire).type \in BroadcastTypes)
  PROVE  PipeInv'
<1>1. /\ seen \in Seq(FeedEvent) /\ wire \in Seq(FeedEvent) /\ buffer \in Seq(FeedEvent)
      /\ SeenBroadcast
  BY DEF PipeInv, FeedTyped
<1>2. PICK h : h = Head(wire)
  OBVIOUS
<1>3. PICK t : t = Tail(wire)
  OBVIOUS
<1>4. /\ h \in Range(wire) /\ h \in FeedEvent /\ t \in Seq(FeedEvent)
      /\ Range(t) \subseteq Range(wire)
      /\ Sorted(t, Right') /\ Before({h}, Range(t), Right')
  BY <1>1, <1>2, <1>3, SortedTail, PipeKept
<1>5. <<h>> \in Seq(FeedEvent) /\ Sorted(<<h>>, Right') /\ Range(<<h>>) = {h}
  BY <1>4, SortedOne
<1>6. seen \o <<h>> \in Seq(FeedEvent) /\ Range(seen \o <<h>>) = Range(seen) \cup {h}
  <2>1. /\ Range(seen \o <<h>>) = Range(seen) \cup Range(<<h>>)
        /\ seen \o <<h>> \in Seq(FeedEvent)
    BY <1>1, <1>5, RangeConcat
  <2> QED
    BY <1>5, <2>1
<1>7. Before(Range(seen), Range(<<h>>), Right')
  BY <1>4, <1>5, PipeKept DEF Before
<1>8. Sorted(seen, Right') /\ Sorted(seen \o <<h>>, Right')
  BY <1>1, <1>5, <1>7, SortedConcat, PipeKept
<1>9. /\ seen' \in Seq(FeedEvent) /\ Sorted(seen', Right')
      /\ Range(seen') \subseteq Range(seen) \cup {h}
      /\ \A e \in Range(seen') : e.type \in BroadcastTypes
  <2>1. CASE seen' = seen
    BY <1>1, <1>8, <2>1 DEF SeenBroadcast
  <2>2. CASE seen' = seen \o <<h>> /\ h.type \in BroadcastTypes
    BY <1>1, <1>6, <1>8, <2>2 DEF SeenBroadcast
  <2> QED
    BY <1>2, <2>1, <2>2
<1>10. Before(Range(seen'), Range(t), Right') /\ Before(Range(seen'), Range(buffer), Right')
       /\ Before(Range(t), Range(buffer), Right')
  BY <1>4, <1>9, PipeKept DEF Before
<1>11. OrderInv'
  BY <1>3, <1>4, <1>9, <1>10, PipeKept DEF OrderInv
<1>12. ASSUME NEW e \in Feed' PROVE Reached(e)'
  <2>1. e \in Feed
    BY <1>3, <1>4, <1>9 DEF Feed
  <2> QED
    BY <2>1, PipeKept
<1>13. FeedTyped' /\ SeenBroadcast' /\ BufferTypes'
  BY <1>1, <1>3, <1>4, <1>9 DEF FeedTyped, SeenBroadcast, BufferTypes, PipeInv
<1> QED
  BY <1>11, <1>12, <1>13 DEF PipeInv

\* The socket is another one, which has been sent nothing.
LEMMA SocketForgets ==
  ASSUME LoopFacts, LoopFacts', [Next]_vars, PipeInv, UNCHANGED <<buffer, wire>>, seen' = <<>>
  PROVE  PipeInv'
<1>1. <<>> \in Seq(FeedEvent) /\ Sorted(<<>>, Right') /\ Range(<<>>) = {}
  BY SortedNone
<1>2. wire \in Seq(FeedEvent) /\ buffer \in Seq(FeedEvent)
  BY DEF PipeInv, FeedTyped
<1>3. OrderInv'
  BY <1>1, PipeKept DEF OrderInv, Before
<1>4. ASSUME NEW e \in Feed' PROVE Reached(e)'
  <2>1. e \in Feed
    BY <1>1 DEF Feed
  <2> QED
    BY <2>1, PipeKept
<1> QED
  BY <1>1, <1>2, <1>3, <1>4 DEF PipeInv, FeedTyped, SeenBroadcast, BufferTypes

LEMMA ShownSocketChanges ==
  ASSUME ShownInv, SocketChanges
  PROVE  ShownInv'
<1>1. /\ UNCHANGED <<bets, rounds, wire, buffer, nats>> /\ seen' = <<>> /\ Complete({})
  BY DEF ShownInv, SocketChanges, vars, betVars, roundVars
<1>2. Complete({})'
  BY <1>1, CompleteSame
<1>3. Range(seen') = {}
  BY <1>1 DEF Range
<1>4. Complete(Range(seen))' /\ SeenPast'
  BY <1>2, <1>3 DEF Complete, Led, Whole, SeenPast, HasNew
<1> QED
  BY <1>1, <1>2, <1>4 DEF ShownInv

\* The connection is drained, or nothing happens.
LEMMA ShownQuiet ==
  ASSUME ShownInv, UNCHANGED <<bets, rounds, wire, buffer, joined, seen, missed>>,
         nats' # "drained" => nats # "drained"
  PROVE  ShownInv'
<1>1. PICK T : T = Range(seen)
  OBVIOUS
<1>2. Complete({})' /\ (~missed' => Complete(T)')
  BY <1>1, CompleteSame DEF ShownInv
<1>3. ~missed' => Complete(Range(seen))'
  BY <1>1, <1>2 DEF Complete, Led, Whole
<1>4. ~missed' => SeenPast'
  BY DEF ShownInv, SeenPast, Past, Done
<1> QED
  BY <1>2, <1>3, <1>4 DEF ShownInv

LEMMA NetworkStep ==
  ASSUME LoopFacts, LoopFacts', FeedInv,
         NatsDrains \/ Deliver \/ Lost \/ SocketChanges \/ UNCHANGED <<vars, feedVars>>
  PROVE  FeedInv'
<1>1. UNCHANGED <<vars, buffer>>
  BY DEF NatsDrains, Deliver, Lost, SocketChanges, feedVars
<1>2. [Next]_vars /\ UNCHANGED <<rounds, current, bets>>
  BY <1>1 DEF vars, roundVars, betVars
<1>3. StreamInv /\ PipeInv /\ ShownInv /\ BufferInv'
  BY <1>1, <1>2, BufferSame DEF FeedInv, StreamInv
<1>4. CASE NatsDrains \/ UNCHANGED <<vars, feedVars>>
  <2>1. UNCHANGED <<wire, joined, seen, missed>> /\ (nats' # "drained" => nats # "drained")
    BY <1>4 DEF NatsDrains, feedVars
  <2>2. PipeInv'
    BY <1>1, <1>2, <1>3, <2>1, PipeSame
  <2>3. ShownInv'
    BY <1>1, <1>2, <1>3, <2>1, ShownQuiet
  <2> QED
    BY <1>3, <2>2, <2>3 DEF FeedInv, StreamInv
<1>5. CASE Deliver \/ Lost
  <2>1. /\ wire # <<>> /\ wire' = Tail(wire) /\ buffer' = buffer
        /\ \/ seen' = seen
           \/ seen' = Append(seen, Head(wire)) /\ Head(wire).type \in BroadcastTypes
    BY <1>5 DEF Deliver, Lost
  <2>2. seen \in Seq(FeedEvent) /\ wire \in Seq(FeedEvent) /\ Head(wire) \in FeedEvent
    BY <1>3, <2>1, SeqTail DEF PipeInv, FeedTyped
  <2>3. Append(seen, Head(wire)) = seen \o <<Head(wire)>>
    BY <2>2
  <2>4. seen' = seen \/ (seen' = seen \o <<Head(wire)>> /\ Head(wire).type \in BroadcastTypes)
    BY <2>1, <2>3
  <2>5. PipeInv'
    BY <1>2, <1>3, <2>1, <2>4, WireShrinks
  <2>6. ShownInv'
    BY <1>3, <1>5, ShownDeliver
  <2> QED
    BY <1>3, <2>5, <2>6 DEF FeedInv, StreamInv
<1>6. CASE SocketChanges
  <2>1. UNCHANGED <<buffer, wire>> /\ seen' = <<>>
    BY <1>6 DEF SocketChanges
  <2>2. PipeInv'
    BY <1>2, <1>3, <2>1, SocketForgets
  <2>3. ShownInv'
    BY <1>3, <1>6, ShownSocketChanges
  <2> QED
    BY <1>3, <2>2, <2>3 DEF FeedInv, StreamInv
<1> QED
  BY <1>4, <1>5, <1>6

-----------------------------------------------------------------------------
(* The steps of the loop that only answer or flush *)

LEMMA FlushStep ==
  ASSUME LoopFacts, LoopFacts', FeedInv, FeedFlush \/ LoopStopped
  PROVE  FeedInv'
<1>1. FlushBatch(buffer) /\ (FlushEvents \/ Stop) /\ StreamInv /\ PipeInv
  BY DEF FeedFlush, LoopStopped, FeedInv, StreamInv
<1>2. [Next]_vars
  BY <1>1 DEF Next
<1>3. StreamInv'
  <2>1. UNCHANGED bets
    BY <1>1 DEF FlushEvents, Stop, betVars
  <2>2. Told(buffer, {}) /\ Tells(Range(buffer))
    BY <1>1, <1>2, <2>1, ToldBuffer, TellsSame
  <2> QED
    BY <1>1, <1>2, <2>2, EmitsFlush
<1>4. buffer' = <<>>
  BY <1>1 DEF FlushBatch
<1> QED
  BY <1>3, <1>4 DEF FeedInv, BufferInv

LEMMA AnswerStep ==
  ASSUME LoopFacts, LoopFacts', FeedInv, CommandArrives \/ StartsTicking \/ CreditComesBack
  PROVE  FeedInv'
<1>1. StreamInv /\ BufferInv
  BY DEF FeedInv
<1>2. [Next]_vars
  BY DEF CommandArrives, StartsTicking, CreditComesBack, Next
<1>3. UNCHANGED <<rounds, current, bets>> /\ buffer' = buffer
  BY DEF CommandArrives, StartsTicking, CreditComesBack, PlaceBetReceived, CashoutReceived,
     RoundStarted, CreditReturned, CreditReturns, roundVars, betVars, feedVars
<1>t. \A N : Tells(N)
  BY <1>3, TellsSame
<1>4. BufferInv'
  BY <1>1, <1>3, BufferSame
<1>5. CASE CommandArrives
  <2>1. answered' - answered \in Nat
    <3>1. answered \in Nat
      BY DEF LoopFacts, TypeOK, QueueTypeOK
    <3>2. answered' = answered \/ answered' = answered + 1
      BY <1>5 DEF CommandArrives, PlaceBetReceived, CashoutReceived, replyVars
    <3> QED
      BY <3>1, <3>2
  <2>2. Publish(Rejections(answered' - answered))
    BY <1>5 DEF CommandArrives
  <2>3. PICK n \in Nat : n = answered' - answered
    BY <2>1
  <2>4. Publish(Rejections(n))
    BY <2>2, <2>3
  <2>5. /\ Rejections(n) \in Seq(FeedEvent) /\ Sorted(Rejections(n), Right')
        /\ \A f \in Range(Rejections(n)) : News(f) /\ ~Counted(f)'
    BY RejectionsAreNews
  <2>6. StreamInv'
    BY <1>1, <1>2, <1>3, <2>4, <2>5, <1>t, EmitsDirect
  <2> QED
    BY <1>4, <2>6 DEF FeedInv
<1>6. CASE StartsTicking
  <2>1. UNCHANGED <<buffer, nats, wire, joined, seen, missed>>
    BY <1>6 DEF StartsTicking, feedVars
  <2> QED
    BY <1>1, <1>2, <1>3, <1>4, <2>1, EmitsNothing DEF FeedInv
<1>7. CASE CreditComesBack
  <2>x. PICK x : x = Event("credit_failed", 0, 0)
    OBVIOUS
  <2>1. Publish(<<>>) \/ Publish(<<x>>)
    BY <1>7, <2>x DEF CreditComesBack
  <2>2. News(x) /\ ~Counted(x)' /\ x \in FeedEvent
    BY <2>x, AnswerIsNews
  <2>3. CASE Publish(<<x>>)
    <3>1. <<x>> \in Seq(FeedEvent) /\ Sorted(<<x>>, Right') /\ Range(<<x>>) = {x}
      BY <2>2, SortedOne
    <3>2. StreamInv'
      BY <1>1, <1>2, <1>3, <2>2, <2>3, <3>1, <1>t, EmitsDirect
    <3> QED
      BY <1>4, <3>2 DEF FeedInv
  <2>4. CASE Publish(<<>>)
    <3>1. <<>> \in Seq(FeedEvent) /\ Sorted(<<>>, Right') /\ Range(<<>>) = {}
      BY SortedNone
    <3>2. StreamInv'
      BY <1>1, <1>2, <1>3, <2>4, <3>1, <1>t, EmitsDirect
    <3> QED
      BY <1>4, <3>2 DEF FeedInv
  <2> QED
    BY <2>1, <2>3, <2>4
<1> QED
  BY <1>5, <1>6, <1>7

-----------------------------------------------------------------------------
(* The steps of the loop before a round flies *)

\* Until then everything is published directly.
LEMMA BufferEmpty ==
  ASSUME FeedInv, current = 0 \/ Newest.state # "RUNNING"
  PROVE  StreamInv /\ buffer = <<>> /\ (buffer' = buffer => BufferInv')
BY DEF FeedInv, BufferInv

\* One event is published.
LEMMA TellsOne ==
  ASSUME LoopFacts, LoopFacts', [Next]_vars, StreamInv, buffer = <<>>, UNCHANGED buffer,
         NEW f, News(f), Tells({f}), Publish(<<f>>)
  PROVE  StreamInv'
<1>1. f \in FeedEvent
  BY DEF News
<1>2. <<f>> \in Seq(FeedEvent) /\ Sorted(<<f>>, Right') /\ Range(<<f>>) = {f}
  BY <1>1, SortedOne
<1> QED
  BY <1>2, EmitsDirect

\* An event about the newest round, which is not a tick.
LEMMA RoundEventIsNews ==
  ASSUME LoopFacts', NEW type \in {"round_new", "round_betting", "round_started"}, NEW f,
         f = Event(type, Len(rounds'), 0), Len(rounds') # 0,
         Rank[type] <= Reach', Len(rounds') = Len(rounds) => Reach <= Rank[type],
         type = "round_new" => Len(rounds') = Len(rounds) + 1
  PROVE  f \in FeedEvent /\ News(f) /\ f.type = type
<1>1. Len(rounds') \in Nat
  BY DEF LoopFacts, TypeOK, LoopTypeOK
<1>2. type \in BroadcastTypes /\ type \notin BetTypes /\ type # "tick"
  BY DEF BroadcastTypes, BetTypes
<1>3. f \in FeedEvent /\ f.type = type /\ f.round = Len(rounds') /\ f.bet = 0
  BY <1>1, <1>2, EventIs
<1>4. ~Settles(f) /\ f.type \notin {"bet_won", "bet_lost", "tick"}
  BY <1>3 DEF Settles
<1> QED
  BY <1>3, <1>4 DEF News

LEMMA OpensRoundStep ==
  ASSUME LoopFacts, LoopFacts', FeedInv, OpensRound
  PROVE  FeedInv'
<1>1. /\ Start \/ NewRoundTimer
      /\ Publish(Append(Rejections(answered' - answered), Event("round_new", current', 0)))
      /\ buffer' = buffer
  BY DEF OpensRound
<1>2. BeginRound /\ [Next]_vars /\ LoopTypeOK /\ QueueTypeOK /\ LoopInv
  BY <1>1 DEF Start, NewRoundTimer, Next, LoopFacts, TypeOK
<1>3. current = 0 \/ Newest.state # "RUNNING"
  <2>1. CASE Start
    BY <1>2, <2>1 DEF Start, LoopInv, RoundsInv
  <2>2. CASE NewRoundTimer
    BY <1>2, <2>2 DEF NewRoundTimer, LoopInv, PhaseInv
  <2> QED
    BY <1>1, <2>1, <2>2
<1>4. StreamInv /\ buffer = <<>> /\ BufferInv'
  BY <1>1, <1>3, BufferEmpty
<1>5. /\ Len(rounds) \in Nat /\ Len(rounds') = Len(rounds) + 1 /\ current' = Len(rounds')
      /\ Newest'.state = "BETTING" /\ task'.at = "announcing"
  BY <1>2, BeginRoundStep DEF Newest
<1>6. Reach' = 1
  BY <1>5 DEF Reach
<1>7. PICK n \in Nat : n = answered' - answered
  <2>1. Len(placeBetQueue) \in Nat /\ answered \in Nat /\ answered' = answered + Len(placeBetQueue)
    BY <1>2 DEF QueueTypeOK, BeginRound, RejectStaleBets
  <2> QED
    BY <2>1
<1>8. PICK f : f = Event("round_new", Len(rounds'), 0)
  OBVIOUS
<1>9. f \in FeedEvent /\ News(f) /\ f.type = "round_new" /\ ~Settles(f)
  BY <1>5, <1>6, <1>8, Ranks, RoundEventIsNews DEF Settles
<1>10. PICK r : r = Rejections(n)
  OBVIOUS
<1>11. /\ r \in Seq(FeedEvent) /\ Sorted(r, Right')
       /\ \A e \in Range(r) : e.bet = 0 /\ News(e) /\ ~Counted(e)'
  BY <1>10, RejectionsAreNews
<1>12. <<f>> \in Seq(FeedEvent) /\ Sorted(<<f>>, Right') /\ Range(<<f>>) = {f}
  BY <1>9, SortedOne
<1>13. r \o <<f>> \in Seq(FeedEvent) /\ Range(r \o <<f>>) = Range(r) \cup Range(<<f>>)
  <2>1. PICK u \in Seq(FeedEvent) : u = <<f>>
    BY <1>12
  <2>2. r \in Seq(FeedEvent)
    BY <1>11
  <2>3. u \in Seq(FeedEvent)
    OBVIOUS
  <2>4. Range(r \o u) = Range(r) \cup Range(u) /\ r \o u \in Seq(FeedEvent)
    BY ONLY <2>2, <2>3, RangeConcat
  <2> QED
    BY <2>1, <2>4
<1>14. Before(Range(r), Range(<<f>>), Right')
  <2>1. ASSUME NEW e \in Range(r) PROVE <<e, f>> \in Right'
    <3>1. News(e) /\ ~Counted(e)' /\ e.bet = 0 /\ ~Settles(e)
      BY <1>11 DEF News, FeedEvent, Settles, BetTypes
    <3> QED
      BY <1>9, <3>1, NewsOrdered
  <2> QED
    BY <1>12, <2>1 DEF Before
<1>15. Sorted(r \o <<f>>, Right')
  BY <1>11, <1>12, <1>14, SortedConcat
<1>16. \A e \in Range(r \o <<f>>) : News(e)
  BY <1>9, <1>11, <1>12, <1>13
<1>17. Publish(r \o <<f>>)
  <2>1. Append(r, f) = r \o <<f>>
    BY <1>9, <1>11
  <2>2. Publish(Append(r, f))
    BY <1>1, <1>5, <1>7, <1>8, <1>10
  <2> QED
    BY <2>1, <2>2
<1>18. StreamInv'
  <2>1. \A N : Tells(N)
    BY <1>5, <1>2, OpenKeepsBets, TellsSame
  <2> QED
    BY <1>1, <1>2, <1>4, <1>13, <1>15, <1>16, <1>17, <2>1, EmitsDirect
<1> QED
  BY <1>4, <1>18 DEF FeedInv

LEMMA OpensBettingStep ==
  ASSUME LoopFacts, LoopFacts', FeedInv, OpensBetting
  PROVE  FeedInv'
<1>1. /\ RoundAnnounced /\ buffer' = buffer
      /\ Publish(<<Event("round_betting", task.round, 0)>>)
  BY DEF OpensBetting
<1>2. [Next]_vars /\ LoopInv /\ LoopTypeOK
  BY <1>1 DEF Next, LoopFacts, TypeOK
<1>3. /\ task.at = "announcing" /\ task' = Idle /\ rounds' = rounds
  BY <1>1 DEF RoundAnnounced, roundVars
<1>4. /\ Newest.state = "BETTING" /\ Newest' = Newest
      /\ task.round = Len(rounds') /\ Len(rounds') # 0
  BY <1>2, <1>3 DEF LoopInv, PhaseInv, LoopTypeOK, Newest
<1>5. Reach = 1 /\ Reach' = 3
  BY <1>3, <1>4, IdleTask DEF Reach
<1>6. StreamInv /\ buffer = <<>> /\ BufferInv'
  BY <1>1, <1>4, BufferEmpty
<1>7. PICK f : f = Event("round_betting", Len(rounds'), 0)
  OBVIOUS
<1>8. News(f)
  BY <1>4, <1>5, <1>7, Ranks, RoundEventIsNews
<1>9. Tells({f})
  BY <1>1, TellsSame DEF RoundAnnounced, betVars
<1>10. StreamInv'
  BY <1>1, <1>2, <1>4, <1>6, <1>7, <1>8, <1>9, TellsOne
<1> QED
  BY <1>6, <1>10 DEF FeedInv

\* The two ways into the loop of endBettingPhase.
LEMMA PlacesWhat ==
  ASSUME LoopFacts, EndBettingPhase \/ ReplyPublished
  PROVE  /\ Newest.state = "BETTING" /\ Reach = 3 /\ Len(rounds) \in Nat /\ Len(rounds) # 0
         /\ UNCHANGED <<bets, betStore>>
         /\ \/ UNCHANGED <<rounds, task, answered>>
            \/ \E todo \in Seq(PlaceBetCommand) : PlaceNext(todo, Len(rounds))
<1>0. LoopTypeOK /\ QueueTypeOK /\ LoopInv
  BY DEF LoopFacts, TypeOK
<1>1. Len(rounds) \in Nat
  BY <1>0 DEF LoopTypeOK
<1>2. CASE EndBettingPhase
  <2>1. /\ timer = "endBetting" /\ UNCHANGED <<bets, betStore>>
        /\ \/ UNCHANGED <<rounds, task, answered>>
           \/ current # 0 /\ PlaceNext(placeBetQueue, current)
    BY <1>2 DEF EndBettingPhase, betVars
  <2>2. Newest.state = "BETTING" /\ Len(rounds) # 0 /\ task.at # "announcing"
    BY <1>0, <2>1 DEF LoopInv, PhaseInv
  <2>3. current # 0 => current = Len(rounds)
    BY <1>0 DEF LoopInv, RoundsInv
  <2>4. placeBetQueue \in Seq(PlaceBetCommand)
    BY <1>0 DEF QueueTypeOK
  <2>5. Reach = 3
    BY <2>2 DEF Reach
  <2> QED
    BY <1>1, <2>1, <2>2, <2>3, <2>4, <2>5
<1>3. CASE ReplyPublished
  <2>1. task.at = "reply" /\ PlaceNext(Tail(task.todo), task.round) /\ UNCHANGED <<bets, betStore>>
    BY <1>3 DEF ReplyPublished, betVars
  <2>2. Newest.state = "BETTING" /\ task.round = Len(rounds)
    BY <1>0, <2>1 DEF LoopInv, PhaseInv
  <2>3. Len(rounds) # 0 /\ task.todo \in Seq(PlaceBetCommand) /\ task.todo # <<>>
    BY <1>0, <2>1, <2>2 DEF LoopTypeOK, Task
  <2>4. Tail(task.todo) \in Seq(PlaceBetCommand)
    BY <2>3, SeqTail
  <2>5. Reach = 3
    BY <2>1, <2>2 DEF Reach
  <2> QED
    BY <1>1, <2>1, <2>2, <2>3, <2>4, <2>5
<1> QED
  BY <1>2, <1>3

LEMMA PlacesBetsStep ==
  ASSUME LoopFacts, LoopFacts', FeedInv, PlacesBets
  PROVE  FeedInv'
<1>1. (EndBettingPhase \/ ReplyPublished) /\ Publish(Progress) /\ buffer' = buffer
  BY DEF PlacesBets
<1>2. [Next]_vars
  BY <1>1 DEF Next
<1>3. /\ Newest.state = "BETTING" /\ Reach = 3 /\ Len(rounds) \in Nat /\ Len(rounds) # 0
      /\ UNCHANGED <<bets, betStore>>
      /\ \/ UNCHANGED <<rounds, task, answered>>
         \/ \E todo \in Seq(PlaceBetCommand) : PlaceNext(todo, Len(rounds))
  BY <1>1, PlacesWhat
<1>4. StreamInv /\ buffer = <<>> /\ BufferInv' /\ \A N : Tells(N)
  BY <1>1, <1>3, BufferEmpty, TellsSame
<1>5. ASSUME Publish(<<>>) PROVE StreamInv'
  <2>1. <<>> \in Seq(FeedEvent) /\ Sorted(<<>>, Right') /\ Range(<<>>) = {}
    BY SortedNone
  <2> QED
    BY <1>1, <1>2, <1>4, <1>5, <2>1, EmitsDirect
<1>6. ASSUME UNCHANGED <<rounds, task, answered>> PROVE StreamInv'
  BY <1>1, <1>5, <1>6 DEF Progress
<1>7. ASSUME NEW todo \in Seq(PlaceBetCommand), PlaceNext(todo, Len(rounds)) PROVE StreamInv'
  <2>1. Len(rounds) \in DOMAIN rounds /\ LoopTypeOK
    BY <1>3 DEF LoopFacts, TypeOK, LoopTypeOK
  <2>2. /\ Len(rounds') = Len(rounds) /\ task'.round = Len(rounds)
        /\ \A i \in DOMAIN rounds :
             rounds'[i] = IF todo = <<>> /\ i = Len(rounds) THEN StartFlying(rounds[i]) ELSE rounds[i]
        /\ IF todo = <<>> THEN task'.at = "starting" /\ answered' = answered
           ELSE task'.at \in {"debit", "reply"}
    BY <1>7, <2>1, PlaceNextStep
  <2>3. CASE rounds' # rounds
    <3>1. todo = <<>>
      BY <1>7, <2>3 DEF PlaceNext
    <3>2. Newest'.state = "RUNNING"
      <4>1. rounds[Len(rounds)] \in Round
        BY <2>1 DEF LoopTypeOK
      <4> QED
        BY <2>1, <2>2, <3>1, <4>1, StartFlyingRound DEF Newest
    <3>3. Reach' = 5
      BY <3>2 DEF Reach
    <3>4. PICK f : f = Event("round_started", Len(rounds'), 0)
      OBVIOUS
    <3>5. News(f)
      BY <1>3, <2>2, <3>3, <3>4, Ranks, RoundEventIsNews
    <3>6. Publish(<<f>>)
      BY <1>1, <2>2, <2>3, <3>4 DEF Progress
    <3> QED
      BY <1>1, <1>2, <1>4, <3>5, <3>6, TellsOne
  <2>4. CASE rounds' = rounds /\ answered' = answered
    BY <1>1, <1>5, <2>4 DEF Progress
  <2>5. CASE rounds' = rounds /\ answered' # answered
    <3>1. Reach' = 3
      BY <1>3, <2>2, <2>5 DEF Reach, Newest
    <3>2. CASE IsRepeat(Head(task'.todo))
      <4> DEFINE b == BetWithKey(Head(task'.todo).idempotencyKey)
      <4>1. b \in betStore
        BY <3>2 DEF IsRepeat, HasKey, BetWithKey
      <4> HIDE DEF b
      <4>2. b \in DOMAIN bets' /\ (bets'[b].roundId = bets'[b].round => bets'[b].round = Len(rounds'))
        BY <1>3, <2>2, <4>1 DEF LoopFacts, FreshInv, TypeOK, BetTypeOK
      <4>3. PICK f : f = BetEvent("bet_placed", b)
        OBVIOUS
      <4>4. News(f)
        BY <1>3, <2>2, <3>1, <4>2, <4>3, Ranks, BetEventIsNews
      <4>5. Publish(<<f>>)
        BY <1>1, <2>5, <3>2, <4>3 DEF Progress, b
      <4> QED
        BY <1>1, <1>2, <1>4, <4>4, <4>5, TellsOne
    <3>3. CASE ~IsRepeat(Head(task'.todo))
      <4>1. Publish(Rejections(1))
        BY <1>1, <2>5, <3>3 DEF Progress
      <4>2. /\ Rejections(1) \in Seq(FeedEvent) /\ Sorted(Rejections(1), Right')
            /\ \A f \in Range(Rejections(1)) : News(f) /\ ~Counted(f)'
        BY RejectionsAreNews
      <4> QED
        BY <1>1, <1>2, <1>4, <4>1, <4>2, EmitsDirect
    <3> QED
      BY <3>2, <3>3
  <2> QED
    BY <2>3, <2>4, <2>5
<1> QED
  BY <1>3, <1>4, <1>6, <1>7 DEF FeedInv

LEMMA AnswersBetStep ==
  ASSUME LoopFacts, LoopFacts', FeedInv, AnswersBet
  PROVE  FeedInv'
<1>1. /\ buffer' = buffer
      /\ \/ DebitOk /\ Publish(<<BetEvent("bet_placed", Len(bets'))>>)
         \/ DebitRefused /\ Publish(Rejections(1))
  BY DEF AnswersBet
<1>2. [Next]_vars
  BY <1>1 DEF Next
<1>3. TypeOK /\ LoopTypeOK /\ LoopInv
  BY DEF LoopFacts, TypeOK
<1>4. task.at = "debit" /\ task'.at = "reply" /\ rounds' = rounds
  BY <1>1, <1>3, DebitStep
<1>5. Newest.state = "BETTING" /\ task.round = Len(rounds) /\ Len(rounds) # 0
  BY <1>3, <1>4 DEF LoopInv, PhaseInv, LoopTypeOK
<1>6. Reach = 3 /\ Reach' = 3
  BY <1>4, <1>5 DEF Reach, Newest
<1>7. StreamInv /\ buffer = <<>> /\ BufferInv'
  BY <1>1, <1>5, BufferEmpty
<1>8. CASE DebitOk /\ Publish(<<BetEvent("bet_placed", Len(bets'))>>)
  <2>1. PICK b : b = Len(bets')
    OBVIOUS
  <2>2. b \in DOMAIN bets' /\ bets'[b].round = Len(rounds')
    BY <1>3, <1>4, <1>5, <1>8, <2>1, DebitAddsBet
  <2>3. PICK f : f = BetEvent("bet_placed", b)
    OBVIOUS
  <2>4. News(f)
    BY <1>4, <1>5, <1>6, <2>2, <2>3, Ranks, BetEventIsNews
  <2>5. Tells({f})
    <3>1. f.type = "bet_placed" /\ f.bet = b
      BY <1>4, <1>5, <1>6, <2>2, <2>3, Ranks, BetEventIsNews
    <3>2. Has({f}, "bet_placed", b)
      BY <3>1 DEF Has
    <3>3. b = Len(bets) + 1
      BY <1>3, <1>8, <2>1, DebitAddsBet
    <3> QED
      BY <1>3, <1>5, <1>8, <3>2, <3>3, DebitAddsBet DEF Tells
  <2>6. StreamInv'
    BY <1>1, <1>2, <1>7, <1>8, <2>1, <2>3, <2>4, <2>5, TellsOne
  <2> QED
    BY <1>7, <2>6 DEF FeedInv
<1>9. CASE DebitRefused /\ Publish(Rejections(1))
  <2>1. /\ Rejections(1) \in Seq(FeedEvent) /\ Sorted(Rejections(1), Right')
        /\ \A f \in Range(Rejections(1)) : News(f) /\ ~Counted(f)'
    BY RejectionsAreNews
  <2>t. \A N : Tells(N)
    BY <1>9, TellsSame DEF DebitRefused, betVars
  <2>2. StreamInv'
    BY <1>1, <1>2, <1>7, <1>9, <2>t, <2>1, EmitsDirect
  <2> QED
    BY <1>7, <2>2 DEF FeedInv
<1> QED
  BY <1>1, <1>8, <1>9

-----------------------------------------------------------------------------
(* The ticks *)

\* What a tick finds and leaves, and the bets it may settle.
LEMMA TickFeeds ==
  ASSUME LoopFacts, LoopFacts', NEW m \in Multipliers, TickFlies(m) \/ TickCrashes(m)
  PROVE  /\ [Next]_vars
         /\ current = Len(rounds') /\ current' = current /\ current # 0 /\ current \in Nat
         /\ Len(rounds') = Len(rounds)
         /\ Reach = 5 /\ Newest'.currentMultiplier = m /\ m \in Nat
         /\ TickFlies(m) => Newest'.state = "RUNNING" /\ Reach' = 5
         /\ TickCrashes(m) => Reach' = 7
         /\ \A b \in ActiveBets(current) : b \in DOMAIN bets' /\ bets'[b].round = Len(rounds')
<1>0. TypeOK /\ LoopTypeOK /\ LoopInv
  BY DEF LoopFacts, TypeOK
<1>1. [Next]_vars
  BY DEF Next, OnTick
<1>2. /\ current \in DOMAIN rounds /\ rounds[current].state = "RUNNING"
      /\ Len(rounds') = Len(rounds)
      /\ rounds'[current] = Tick(rounds[current], m)
      /\ rounds[current] \in Round
  BY <1>0, TickStep DEF LoopTypeOK
<1>3. current = Len(rounds) /\ current # 0 /\ current \in Nat /\ current' = current
  <2>1. current' = current
    BY DEF TickFlies, TickCrashes, Ticks
  <2>2. current \in 0..Len(rounds) /\ current # 0 /\ Len(rounds) \in Nat
    BY <1>0, <1>2 DEF LoopTypeOK
  <2> QED
    BY <1>0, <2>1, <2>2 DEF LoopInv, RoundsInv
<1>4. m \in Nat
  BY MultipliersAssumption
<1>5. /\ Newest = rounds[current] /\ Newest' = Tick(rounds[current], m)
  BY <1>2, <1>3 DEF Newest
<1>6. /\ Newest'.currentMultiplier = m
      /\ Newest'.state = IF m >= rounds[current].crashPoint THEN "CRASHED" ELSE "RUNNING"
  BY <1>2, <1>5, TickRound
<1>7. Reach = 5
  BY <1>2, <1>5 DEF Reach
<1>8. rounds[current].crashPoint \in Nat
  BY <1>2, RoundNumbers
<1>9. TickFlies(m) => Newest'.state = "RUNNING"
  <2>1. TickFlies(m) => ~(m >= rounds[current].crashPoint)
    BY <1>4, <1>8 DEF TickFlies
  <2> QED
    BY <1>6, <2>1
<1>10. TickCrashes(m) => Newest'.state = "CRASHED"
  BY <1>6 DEF TickCrashes
<1>11. ASSUME NEW b \in ActiveBets(current) PROVE b \in DOMAIN bets' /\ bets'[b].round = Len(rounds')
  <2>1. b \in DOMAIN bets /\ bets[b].round = current
    BY DEF ActiveBets
  <2> QED
    BY <1>0, <1>1, <1>2, <1>3, <2>1, BetsKeepRounds
<1> QED
  BY <1>1, <1>2, <1>3, <1>4, <1>6, <1>7, <1>9, <1>10, <1>11 DEF Reach

\* The bets that a tick settles are those it announces.
LEMMA TickEnds ==
  ASSUME LoopFacts, NEW m \in Multipliers, TickFlies(m) \/ TickCrashes(m)
  PROVE  /\ DOMAIN bets' = DOMAIN bets
         /\ \A b \in Won(m) : b \in ActiveBets(current) /\ bets'[b].status = "WON"
         /\ TickCrashes(m) =>
              \A b \in LostAtCrash(Won(m)) : b \in ActiveBets(current) /\ bets'[b].status = "LOST"
         /\ \A b \in DOMAIN bets :
              bets'[b].status # bets[b].status =>
                /\ b \in ActiveBets(current)
                /\ \/ b \in Won(m) /\ bets'[b].status = "WON"
                   \/ TickCrashes(m) /\ b \in LostAtCrash(Won(m)) /\ bets'[b].status = "LOST"
<1>1. TypeOK /\ BetTypeOK /\ LoopTypeOK
  BY DEF LoopFacts, TypeOK
<1>2. PICK paidAt \in Nat : paidAt = rounds[current].currentMultiplier
  BY <1>1, TickStep, RoundNumbers DEF LoopTypeOK
<1>3. PICK won, lost \in SUBSET ActiveBets(current) :
        /\ won = Won(m) /\ won \cap lost = {}
        /\ lost = IF TickCrashes(m) THEN LostAtCrash(Won(m)) ELSE {}
        /\ Settle(won, lost, paidAt)
  BY <1>1, <1>2, TickSettles DEF LostAtCrash
<1>4. /\ DOMAIN bets' = DOMAIN bets
      /\ \A b \in DOMAIN bets :
           /\ b \in won => bets'[b] = Cashout(bets[b], paidAt)
           /\ b \in lost => bets'[b] = Lose(bets[b])
           /\ b \notin won \cup lost => bets'[b] = bets[b]
  BY <1>1, <1>3, SettleStep
<1>5. \A b \in ActiveBets(current) : b \in DOMAIN bets /\ bets[b] \in Bet
  BY <1>1 DEF ActiveBets, BetTypeOK
<1>6. \A b \in won : b \in ActiveBets(current) /\ bets'[b].status = "WON"
  BY <1>2, <1>4, <1>5, CashoutBet
<1>7. \A b \in lost : b \in ActiveBets(current) /\ bets'[b].status = "LOST"
  BY <1>4, <1>5, LoseBet
<1>8. \A b \in DOMAIN bets : bets'[b].status # bets[b].status => b \in won \cup lost
  BY <1>4
<1>9. \A b \in lost : TickCrashes(m) /\ b \in LostAtCrash(Won(m))
  BY <1>3
<1>10. TickCrashes(m) => lost = LostAtCrash(Won(m))
  BY <1>3
<1> QED
  BY <1>3, <1>4, <1>6, <1>7, <1>8, <1>9, <1>10

LEMMA TickTells ==
  ASSUME LoopFacts, NEW m \in Multipliers, TickFlies(m) \/ TickCrashes(m), current = Len(rounds),
         NEW N, \A b \in Won(m) : Has(N, "bet_won", b),
         TickCrashes(m) => \A b \in LostAtCrash(Won(m)) : Has(N, "bet_lost", b)
  PROVE  Tells(N)
<1>1. DOMAIN bets' = DOMAIN bets
  BY TickEnds
<1>2. ASSUME NEW b \in DOMAIN bets, bets'[b].status # bets[b].status
      PROVE  /\ bets[b].round = Len(rounds)
             /\ bets'[b].status = "WON" => Has(N, "bet_won", b)
             /\ bets'[b].status = "LOST" => Has(N, "bet_lost", b)
  <2>1. bets[b].round = Len(rounds)
    BY <1>2, TickEnds DEF ActiveBets
  <2>2. CASE b \in Won(m) /\ bets'[b].status = "WON"
    BY <2>1, <2>2
  <2>3. CASE TickCrashes(m) /\ b \in LostAtCrash(Won(m)) /\ bets'[b].status = "LOST"
    BY <2>1, <2>3
  <2> QED
    BY <1>2, <2>2, <2>3, TickEnds
<1> QED
  BY <1>1, <1>2 DEF Tells

\* The wins of a tick, behind what waits in the buffer.
LEMMA TellsWins ==
  ASSUME LoopFacts, LoopFacts', PipeInv, NEW m \in Multipliers, TickFlies(m) \/ TickCrashes(m),
         NEW wins \in ForEach("bet_won", Won(m))
  PROVE  /\ Told(buffer \o wins, {"bet_won"})
         /\ Range(buffer) \subseteq Range(buffer \o wins)
         /\ \A b \in Won(m) : Has(Range(buffer \o wins), "bet_won", b)
<1>1. /\ [Next]_vars /\ Len(rounds') # 0 /\ Len(rounds') = Len(rounds)
      /\ Reach = 5 /\ Reach' \in {5, 7}
      /\ \A b \in ActiveBets(current) : b \in DOMAIN bets' /\ bets'[b].round = Len(rounds')
  BY TickFeeds
<1>2. \A b \in Won(m) : /\ b \in DOMAIN bets' /\ bets'[b].round = Len(rounds')
                        /\ b \in DOMAIN bets /\ bets[b].status = "ACTIVE" /\ bets'[b].status = "WON"
  BY <1>1, TickEnds DEF ActiveBets
<1>3. Rank["bet_won"] <= Reach' /\ Reach <= Rank["bet_won"]
  BY <1>1, Ranks
<1>4. /\ wins \in Seq(FeedEvent) /\ Distinct(wins)
      /\ \A f \in Range(wins) : News(f) /\ f.type = "bet_won"
      /\ \A b \in Won(m) : Has(Range(wins), "bet_won", b)
  <2>1. Won(m) \in SUBSET DOMAIN bets'
    BY <1>2
  <2> QED
    BY <1>1, <1>2, <1>3, <2>1, ForEachIsNews
<1>5. Told(buffer, {}) /\ buffer \in Seq(FeedEvent)
  BY <1>1, ToldBuffer DEF Told
<1>6. Told(buffer \o wins, {} \cup {"bet_won"})
  <2>1. "bet_won" \in BroadcastTypes \ {} /\ "bet_won" # "round_new" /\ {} \in SUBSET BroadcastTypes
    BY DEF BroadcastTypes
  <2>2. \A k \in {} : Rank[k] <= Rank["bet_won"]
    OBVIOUS
  <2> QED
    BY <1>1, <1>4, <1>5, <2>1, <2>2, ToldNext
<1>7. Range(buffer \o wins) = Range(buffer) \cup Range(wins)
  BY <1>4, <1>5, RangeConcat
<1>8. {} \cup {"bet_won"} = {"bet_won"}
  OBVIOUS
<1> QED
  BY <1>4, <1>6, <1>7, <1>8 DEF Has

\* One more event of a tick.
LEMMA ToldOne ==
  ASSUME LoopFacts, LoopFacts', [Next]_vars, PipeInv, NEW s, NEW types \in SUBSET BroadcastTypes,
         Told(s, types), NEW type \in BroadcastTypes \ types, type # "round_new",
         NEW f, News(f), f.type = type, \A k \in types : Rank[k] <= Rank[type]
  PROVE  Told(s \o <<f>>, types \cup {type}) /\ Range(s \o <<f>>) = Range(s) \cup {f}
<1>1. f \in FeedEvent /\ s \in Seq(FeedEvent)
  BY DEF News, Told
<1>2. PICK t \in Seq(FeedEvent) : t = <<f>> /\ Range(t) = {f}
  BY <1>1, SortedOne
<1>3. Distinct(t)
  <2>1. DOMAIN t = {1}
    BY <1>2
  <2> QED
    BY <2>1 DEF Distinct
<1>4. \A g \in Range(t) : News(g) /\ g.type = type
  BY <1>2
<1>5. Told(s \o t, types \cup {type})
  BY <1>3, <1>4, ToldNext
<1>6. Range(s \o t) = Range(s) \cup Range(t)
  BY <1>1, RangeConcat
<1> QED
  BY <1>2, <1>5, <1>6

LEMMA FeedTickFliesStep ==
  ASSUME LoopFacts, LoopFacts', FeedInv, NEW m \in Multipliers, FeedTickFlies(m)
  PROVE  FeedInv'
<1>1. PICK wins \in ForEach("bet_won", Won(m)), e \in Elapsed :
        buffer' = Append(buffer \o wins, TickEvent(current, m, e))
  BY DEF FeedTickFlies
<1>2. TickFlies(m) /\ UNCHANGED <<nats, wire, joined, seen, missed>> /\ StreamInv /\ PipeInv
  BY DEF FeedTickFlies, FeedInv, StreamInv
<1>3. /\ [Next]_vars
      /\ current = Len(rounds') /\ current' = current /\ current # 0 /\ current \in Nat
      /\ Len(rounds') = Len(rounds)
      /\ Reach = 5 /\ Newest'.currentMultiplier = m /\ m \in Nat
      /\ Newest'.state = "RUNNING" /\ Reach' = 5 /\ ~TickCrashes(m)
  BY <1>2, TickFeeds
<1>4. PICK s : s = buffer \o wins
  OBVIOUS
<1>5. /\ Told(s, {"bet_won"}) /\ s \in Seq(FeedEvent) /\ Range(buffer) \subseteq Range(s)
      /\ \A b \in Won(m) : Has(Range(s), "bet_won", b)
  BY <1>2, <1>4, TellsWins DEF Told
<1>6. PICK f : f = TickEvent(current, m, e)
  OBVIOUS
<1>7. f \in FeedEvent /\ f.type = "tick" /\ f.round = current /\ f.bet = 0 /\ f.multiplier = m
  BY <1>3, <1>6, TickEventIs
<1>8. News(f)
  BY <1>3, <1>7, Ranks DEF News, Settles
<1>9. Told(s \o <<f>>, {"bet_won"} \cup {"tick"}) /\ Range(s \o <<f>>) = Range(s) \cup {f}
  <2>1. PICK type : type = "tick"
    OBVIOUS
  <2>2. PICK types : types = {"bet_won"}
    OBVIOUS
  <2>3. type \in BroadcastTypes \ types /\ type # "round_new" /\ types \in SUBSET BroadcastTypes
    BY <2>1, <2>2 DEF BroadcastTypes
  <2>4. \A k \in types : Rank[k] <= Rank[type]
    BY <2>1, <2>2, Ranks
  <2>5. Told(s, types) /\ f.type = type
    BY <1>5, <1>7, <2>1, <2>2
  <2>6. [Next]_vars /\ PipeInv
    BY <1>2, <1>3
  <2>7. Told(s \o <<f>>, types \cup {type}) /\ Range(s \o <<f>>) = Range(s) \cup {f}
    BY <1>8, <2>3, <2>4, <2>5, <2>6, ToldOne
  <2> QED
    BY <2>1, <2>2, <2>7
<1>10. PICK t : t = s \o <<f>>
  OBVIOUS
<1>11. buffer' = t
  <2>1. Append(s, f) = s \o <<f>>
    BY <1>5, <1>7
  <2> QED
    BY <1>1, <1>4, <1>6, <1>10, <2>1
<1>12. Range(buffer) \subseteq Range(t) /\ \A b \in Won(m) : Has(Range(t), "bet_won", b)
  BY <1>5, <1>9, <1>10 DEF Has
<1>13. Tells(Range(t))
  BY <1>2, <1>3, <1>12, TickTells
<1>14. StreamInv'
  <2>1. {"bet_won"} \cup {"tick"} \subseteq {"tick", "bet_won"}
    OBVIOUS
  <2> QED
    BY <1>2, <1>3, <1>9, <1>10, <1>11, <1>12, <1>13, <2>1, EmitsBuffered
<1>15. BufferInv'
  BY <1>3 DEF BufferInv
<1> QED
  BY <1>14, <1>15 DEF FeedInv

LEMMA FeedTickCrashesStep ==
  ASSUME LoopFacts, LoopFacts', FeedInv, NEW m \in Multipliers, FeedTickCrashes(m)
  PROVE  FeedInv'
<1>1. PICK wins \in ForEach("bet_won", Won(m)), losses \in ForEach("bet_lost", LostAtCrash(Won(m))) :
        FlushBatch(buffer \o wins \o <<CrashEvent(current, m)>> \o losses)
  BY DEF FeedTickCrashes
<1>2. TickCrashes(m) /\ StreamInv /\ PipeInv
  BY DEF FeedTickCrashes, FeedInv, StreamInv
<1>3. /\ [Next]_vars
      /\ current = Len(rounds') /\ current # 0 /\ current \in Nat
      /\ Len(rounds') = Len(rounds)
      /\ Reach = 5 /\ m \in Nat /\ Reach' = 7
      /\ \A b \in ActiveBets(current) : b \in DOMAIN bets' /\ bets'[b].round = Len(rounds')
  BY <1>2, TickFeeds
<1>4. PICK s : s = buffer \o wins
  OBVIOUS
<1>5. /\ Told(s, {"bet_won"}) /\ Range(buffer) \subseteq Range(s)
      /\ \A b \in Won(m) : Has(Range(s), "bet_won", b)
  BY <1>2, <1>4, TellsWins
<1>6. PICK f : f = CrashEvent(current, m)
  OBVIOUS
<1>7. f \in FeedEvent /\ f.type = "round_crashed" /\ f.round = current /\ f.bet = 0
  BY <1>3, <1>6, CrashEventIs
<1>8. News(f)
  BY <1>3, <1>7, Ranks DEF News, Settles
<1>9. Told(s \o <<f>>, {"bet_won"} \cup {"round_crashed"}) /\ Range(s \o <<f>>) = Range(s) \cup {f}
  <2>1. PICK type : type = "round_crashed"
    OBVIOUS
  <2>2. PICK types : types = {"bet_won"}
    OBVIOUS
  <2>3. type \in BroadcastTypes \ types /\ type # "round_new" /\ types \in SUBSET BroadcastTypes
    BY <2>1, <2>2 DEF BroadcastTypes
  <2>4. \A k \in types : Rank[k] <= Rank[type]
    BY <2>1, <2>2, Ranks
  <2>5. Told(s, types) /\ f.type = type
    BY <1>5, <1>7, <2>1, <2>2
  <2>6. [Next]_vars /\ PipeInv
    BY <1>2, <1>3
  <2>7. Told(s \o <<f>>, types \cup {type}) /\ Range(s \o <<f>>) = Range(s) \cup {f}
    BY <1>8, <2>3, <2>4, <2>5, <2>6, ToldOne
  <2> QED
    BY <2>1, <2>2, <2>7
<1>10. PICK t : t = s \o <<f>>
  OBVIOUS
<1>11. PICK types : types = {"bet_won"} \cup {"round_crashed"}
  OBVIOUS
<1>12. \A b \in LostAtCrash(Won(m)) :
         /\ b \in DOMAIN bets' /\ bets'[b].round = Len(rounds')
         /\ b \in DOMAIN bets /\ bets[b].status = "ACTIVE" /\ bets'[b].status = "LOST"
  BY <1>2, <1>3, TickEnds DEF ActiveBets
<1>13. /\ losses \in Seq(FeedEvent) /\ Distinct(losses)
       /\ \A g \in Range(losses) : News(g) /\ g.type = "bet_lost"
       /\ \A b \in LostAtCrash(Won(m)) : Has(Range(losses), "bet_lost", b)
  <2>1. Rank["bet_lost"] <= Reach' /\ Reach <= Rank["bet_lost"]
    BY <1>3, Ranks
  <2>2. LostAtCrash(Won(m)) \in SUBSET DOMAIN bets'
    BY <1>12
  <2> QED
    BY <1>3, <1>12, <2>1, <2>2, ForEachIsNews
<1>14. Told(t \o losses, types \cup {"bet_lost"})
  <2>1. "bet_lost" \in BroadcastTypes \ types /\ "bet_lost" # "round_new" /\ types \in SUBSET BroadcastTypes
    BY <1>11 DEF BroadcastTypes
  <2>2. \A k \in types : Rank[k] <= Rank["bet_lost"]
    BY <1>11, Ranks
  <2>3. Told(t, types)
    BY <1>9, <1>10, <1>11
  <2> QED
    BY <1>2, <1>3, <1>13, <2>1, <2>2, <2>3, ToldNext
<1>15. PICK all : all = t \o losses
  OBVIOUS
<1>16. FlushBatch(all)
  BY <1>1, <1>4, <1>6, <1>10, <1>15
<1>17. Range(all) = Range(s) \cup {f} \cup Range(losses)
  <2>1. t \in Seq(FeedEvent) /\ Range(t) = Range(s) \cup {f}
    BY <1>9, <1>10 DEF Told
  <2> QED
    BY <1>13, <1>15, <2>1, RangeConcat
<1>18. /\ Range(buffer) \subseteq Range(all)
       /\ \A b \in Won(m) : Has(Range(all), "bet_won", b)
       /\ \A b \in LostAtCrash(Won(m)) : Has(Range(all), "bet_lost", b)
  BY <1>5, <1>13, <1>17 DEF Has
<1>19. Tells(Range(all))
  BY <1>2, <1>3, <1>18, TickTells
<1>20. StreamInv'
  <2>1. "round_new" \notin types \cup {"bet_lost"}
    BY <1>11
  <2> QED
    BY <1>2, <1>3, <1>14, <1>15, <1>16, <1>18, <1>19, <2>1, EmitsFlush
<1>21. BufferInv'
  BY <1>16 DEF FlushBatch, BufferInv
<1> QED
  BY <1>20, <1>21 DEF FeedInv

-----------------------------------------------------------------------------
LEMMA FeedInvInit == FeedInit => FeedInv
<1> SUFFICES ASSUME FeedInit PROVE FeedInv
  OBVIOUS
<1>1. seen = <<>> /\ wire = <<>> /\ buffer = <<>>
  BY DEF FeedInit
<1>2. <<>> \in Seq(FeedEvent) /\ Sorted(<<>>, Right) /\ Range(<<>>) = {}
  BY SortedNone
<1>3. PipeInv
  BY <1>1, <1>2 DEF PipeInv, FeedTyped, OrderInv, Before, Feed, SeenBroadcast, BufferTypes
<1>4. DOMAIN bets = {} /\ DOMAIN wire = {}
  BY DEF FeedInit, Init
<1>5. \A S : Complete(S)
  BY <1>4 DEF Complete, Led, Whole
<1>6. SeenPast
  BY <1>1, <1>2 DEF SeenPast, HasNew
<1> QED
  BY <1>1, <1>3, <1>5, <1>6 DEF FeedInv, StreamInv, ShownInv, BufferInv

LEMMA FeedInvStep == LoopFacts /\ LoopFacts' /\ FeedInv /\ [FeedNext]_<<vars, feedVars>> => FeedInv'
<1> SUFFICES ASSUME LoopFacts, LoopFacts', FeedInv, [FeedNext]_<<vars, feedVars>> PROVE FeedInv'
  OBVIOUS
<1>1. CASE OpensRound \/ OpensBetting \/ PlacesBets \/ AnswersBet
  BY <1>1, OpensRoundStep, OpensBettingStep, PlacesBetsStep, AnswersBetStep
<1>2. ASSUME NEW m \in Multipliers, FeedTickFlies(m) \/ FeedTickCrashes(m) PROVE FeedInv'
  BY <1>2, FeedTickFliesStep, FeedTickCrashesStep
<1>3. CASE FeedFlush \/ LoopStopped
  BY <1>3, FlushStep
<1>4. CASE CommandArrives \/ StartsTicking \/ CreditComesBack
  BY <1>4, AnswerStep
<1>5. CASE NatsDrains \/ Deliver \/ Lost \/ SocketChanges \/ UNCHANGED <<vars, feedVars>>
  BY <1>5, NetworkStep
<1> QED
  BY <1>1, <1>2, <1>3, <1>4, <1>5 DEF FeedNext, LoopStep

LEMMA FeedInvariant == FeedSpec => []FeedInv
<1>1. FeedInit => FeedInv
  BY FeedInvInit
<1>2. LoopFacts /\ LoopFacts' /\ FeedInv /\ [FeedNext]_<<vars, feedVars>> => FeedInv'
  BY FeedInvStep
<1> QED
  BY <1>1, <1>2, LoopFactsInvariant, PTL DEF FeedSpec

\* A client sees the rounds one after the other and each in the order of the
\* game, whatever is lost and however its socket comes and goes: what a step
\* publishes directly finds the buffer empty, and what it buffers or flushes
\* stays behind what was there (onTick, flushEvents, endBettingPhase).
THEOREM FeedInOrder == FeedSpec => []SeenInOrder
<1>1. FeedInv => SeenInOrder
  <2> SUFFICES ASSUME FeedInv,
                      NEW i \in DOMAIN seen, NEW j \in DOMAIN seen,
                      i < j, ~Stray(seen[i]), ~Stray(seen[j])
               PROVE  InOrder(seen[i], seen[j])
    BY DEF SeenInOrder
  <2>1. seen[i] \in Range(seen) /\ seen[j] \in Range(seen)
    BY DEF Range
  <2>2. Counted(seen[i]) /\ Counted(seen[j])
    BY <2>1 DEF FeedInv, StreamInv, PipeInv, SeenBroadcast, Counted
  <2>3. <<seen[i], seen[j]>> \in Right
    BY DEF FeedInv, StreamInv, PipeInv, OrderInv, Sorted
  <2> QED
    BY <2>2, <2>3 DEF Right, Ordered
<1> QED
  BY <1>1, FeedInvariant, PTL

-----------------------------------------------------------------------------
(* The bets a client has seen *)

\* The end of a bet is seen at most once.
LEMMA SeenOnce ==
  ASSUME FeedInv, NEW type \in {"bet_won", "bet_lost"}, NEW b
  PROVE  Times(type, b) = IF Has(Range(seen), type, b) THEN 1 ELSE 0
<1>1. PICK K : K = {i \in DOMAIN seen : seen[i].type = type /\ seen[i].bet = b}
  OBVIOUS
<1>2. Times(type, b) = Cardinality(K)
  BY <1>1 DEF Times
<1>3. CASE Has(Range(seen), type, b)
  <2>1. PICK k \in DOMAIN seen : seen[k].type = type /\ seen[k].bet = b
    BY <1>3 DEF Has, Range
  <2>2. seen \in Seq(FeedEvent) /\ Sorted(seen, Right)
    BY DEF FeedInv, StreamInv, PipeInv, FeedTyped, OrderInv
  <2>3. ASSUME NEW i \in K PROVE i = k
    <3>1. i \in DOMAIN seen /\ seen[i].type = type /\ seen[i].bet = b
      BY <1>1
    <3>2. <<seen[i], seen[k]>> \notin Right /\ <<seen[k], seen[i]>> \notin Right
      BY <2>1, <3>1 DEF Right, Ordered, Settles
    <3>3. i \in Nat /\ k \in Nat
      BY <2>1, <2>2, <3>1
    <3> QED
      BY <2>1, <2>2, <3>1, <3>2, <3>3 DEF Sorted
  <2>4. K = {k}
    BY <1>1, <2>1, <2>3
  <2> QED
    BY <1>2, <1>3, <2>4, FS_Singleton
<1>4. CASE ~Has(Range(seen), type, b)
  <2>1. K = {}
    BY <1>1, <1>4 DEF Has, Range
  <2> QED
    BY <1>2, <1>4, <2>1, FS_EmptySet
<1> QED
  BY <1>3, <1>4

LEMMA SeenAtLeastOnce ==
  ASSUME FeedInv, NEW type, NEW b, Has(Range(seen), type, b)
  PROVE  Times(type, b) >= 1
<1>1. PICK K : K = {i \in DOMAIN seen : seen[i].type = type /\ seen[i].bet = b}
  OBVIOUS
<1>2. Times(type, b) = Cardinality(K)
  BY <1>1 DEF Times
<1>3. K # {}
  BY <1>1 DEF Has, Range
<1>4. IsFiniteSet(K)
  <2>1. seen \in Seq(FeedEvent)
    BY DEF FeedInv, StreamInv, PipeInv, FeedTyped
  <2>2. PICK n \in Nat : n = Len(seen)
    BY <2>1
  <2>3. IsFiniteSet(1..n)
    BY FS_Interval
  <2>4. K \subseteq 1..n
    BY <1>1, <2>1, <2>2
  <2> QED
    BY <2>3, <2>4, FS_Subset
<1>5. PICK n \in Nat : n = Cardinality(K)
  BY <1>4, FS_CardinalityType
<1>6. n # 0
  BY <1>3, <1>4, <1>5, FS_EmptySet
<1>7. n >= 1
  BY <1>6
<1> QED
  BY <1>2, <1>5, <1>7

\* A client whose socket has lost nothing, and that saw a round begin and the next
\* one begin, has seen each bet of the round placed and its end exactly once, as
\* the engine has settled it: what waits in the buffer goes out before anything of
\* the next round (onTick, flushEvents), and nothing about a bet is refused on the
\* way (safeParse, encodeServerMessage).
THEOREM BetsAreShown == FeedSpec => []BetsShown
<1>1. LoopFacts /\ FeedInv => BetsShown
  <2> SUFFICES ASSUME LoopFacts, FeedInv, NEW r \in 1..MaxRounds - 1, ~missed,
                      NEW i \in DOMAIN seen, NEW j \in DOMAIN seen,
                      seen[i] = Event("round_new", r, 0), seen[j] = Event("round_new", r + 1, 0),
                      NEW b \in DOMAIN bets, bets[b].round = r
               PROVE  /\ Times("bet_placed", b) >= 1
                      /\ Times("bet_won", b) = IF bets[b].status = "WON" THEN 1 ELSE 0
                      /\ Times("bet_lost", b) = IF bets[b].status = "LOST" THEN 1 ELSE 0
    BY DEF BetsShown
  <2>1. PipeInv /\ SeenPast
    BY DEF FeedInv, StreamInv, ShownInv
  <2>2. PICK q : q = r + 1
    OBVIOUS
  <2>3. PICK X : X = Range(seen)
    OBVIOUS
  <2>4. HasNew(X, r) /\ HasNew(X, q)
    BY <2>2, <2>3 DEF HasNew, Range, Event
  <2>5. q \in 1..Len(rounds)
    <3>1. PICK e \in X : e.type = "round_new" /\ e.round = q
      BY <2>4 DEF HasNew
    <3>2. Reached(e) /\ Counted(e)
      BY <2>1, <2>3, <3>1 DEF PipeInv, Feed, Reached, FeedEvent, BetTypes, BroadcastTypes, Counted, Stray
    <3>3. e.round \in DOMAIN rounds
      BY <3>2 DEF Reached
    <3> QED
      BY <3>1, <3>3 DEF LoopFacts, TypeOK, LoopTypeOK
  <2>6. Done(X, b)
    <3>1. Past(X, q)
      BY <2>1, <2>3, <2>4, <2>5 DEF SeenPast
    <3> QED
      BY <2>2, <2>4, <3>1 DEF Past
  <2>7. ASSUME NEW e \in X
        PROVE  /\ e.type = "bet_won" => bets[e.bet].status = "WON"
               /\ e.type = "bet_lost" => bets[e.bet].status = "LOST"
    BY <2>1, <2>3 DEF PipeInv, Feed, Reached
  <2>8. Has(X, "bet_won", b) <=> bets[b].status = "WON"
    BY <2>6, <2>7 DEF Done, Has
  <2>9. Has(X, "bet_lost", b) <=> bets[b].status = "LOST"
    BY <2>6, <2>7 DEF Done, Has
  <2>10. Times("bet_placed", b) >= 1
    BY <2>3, <2>6, SeenAtLeastOnce DEF Done
  <2>11. Times("bet_won", b) = IF bets[b].status = "WON" THEN 1 ELSE 0
    BY <2>3, <2>8, SeenOnce
  <2>12. Times("bet_lost", b) = IF bets[b].status = "LOST" THEN 1 ELSE 0
    BY <2>3, <2>9, SeenOnce
  <2> QED
    BY <2>10, <2>11, <2>12
<1> QED
  BY <1>1, LoopFactsInvariant, FeedInvariant, PTL

=============================================================================
