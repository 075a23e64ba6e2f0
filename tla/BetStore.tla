------------------------------ MODULE BetStore ------------------------------
(***************************************************************************)
(* InMemoryBetStore with its three maps, used by PlaceBetUseCase (look up  *)
(* the key, wait for the debit, add the bet) and by the round loop (forget *)
(* the bets of a round).  The queue is worked off one command at a time.   *)
(*                                                                         *)
(* The round loop's module takes the store for a set of bets; this is why  *)
(* it may.  Keys are never empty (the schema wants a UUID), and the id of  *)
(* a bet is a fresh UUID, so that add never meets a bet with the same id.  *)
(*                                                                         *)
(* An operator Bad... before an operator of the same name is not part of   *)
(* the model: it is that operator with a plausible bug.                    *)
(***************************************************************************)
EXTENDS Integers

CONSTANTS
  Keys,                  \* idempotency keys of commands
  RoundIds,              \* round ids that commands carry
  NoCommand,
  MaxBets                \* bound: bets created in a behaviour

ASSUME BoundAssumption == MaxBets \in Nat

Command == [idempotencyKey : Keys, roundId : RoundIds]

ASSUME NamesAssumption == NoCommand \notin Command

VARIABLES
  bets,                  \* bet id -> bet
  byRound,               \* round id -> its bets
  byIdempotencyKey,      \* key -> bet
  debiting,              \* the command whose debit is under way
  created                \* ids given to bets so far

vars == <<bets, byRound, byIdempotencyKey, debiting, created>>

Bet == [id : 1..MaxBets, idempotencyKey : Keys, roundId : RoundIds]

\* Map.set and Map.delete, for maps as functions
Set(map, k, v) == [x \in DOMAIN map \cup {k} |-> IF x = k THEN v ELSE map[x]]
Delete(map, ks) == [x \in DOMAIN map \ ks |-> map[x]]

Values(map) == {map[x] : x \in DOMAIN map}

-----------------------------------------------------------------------------
\* The bets of a round, none if the map does not have it.
GetByRound(r) == IF r \in DOMAIN byRound THEN byRound[r] ELSE {}

\* InMemoryBetStore.add; the id is a fresh one
BadAdd(bet) ==
  /\ bets' = Set(bets, bet.id, bet)
  /\ byIdempotencyKey' = Set(byIdempotencyKey, bet.idempotencyKey, bet)
  /\ byRound' = Set(byRound, bet.roundId, {bet})
WorseAdd(bet) ==
  /\ bets' = Set(bets, bet.id, bet)
  /\ byIdempotencyKey' = Set(byIdempotencyKey, bet.roundId, bet)
  /\ byRound' = Set(byRound, bet.roundId, GetByRound(bet.roundId) \cup {bet})
Add(bet) ==
  /\ bets' = Set(bets, bet.id, bet)
  /\ byIdempotencyKey' = Set(byIdempotencyKey, bet.idempotencyKey, bet)
  /\ byRound' = Set(byRound, bet.roundId, GetByRound(bet.roundId) \cup {bet})

\* PlaceBetUseCase: the command needs a debit if its key is not known
BadNeedsDebit(cmd) == \A b \in GetByRound(cmd.roundId) : b.idempotencyKey # cmd.idempotencyKey
NeedsDebit(cmd) == cmd.idempotencyKey \notin DOMAIN byIdempotencyKey

(* PlaceBetUseCase.execute up to its await. *)
Execute(cmd) ==
  /\ debiting = NoCommand /\ created < MaxBets
  /\ NeedsDebit(cmd)
  /\ debiting' = cmd
  /\ UNCHANGED <<bets, byRound, byIdempotencyKey, created>>

(* The wallet has taken the stake: the bet is created and added. *)
Debited ==
  /\ debiting # NoCommand
  /\ created' = created + 1
  /\ Add([id |-> created + 1, idempotencyKey |-> debiting.idempotencyKey,
          roundId |-> debiting.roundId])
  /\ debiting' = NoCommand

(* The wallet has refused, or the round no longer takes bets and the stake  *)
(* goes back.                                                               *)
DebitRefused ==
  /\ debiting # NoCommand
  /\ debiting' = NoCommand
  /\ UNCHANGED <<bets, byRound, byIdempotencyKey, created>>

\* InMemoryBetStore.clearRound, when the map has the round: startNewRound or
\* stop(), which do not wait for a debit that is under way.
BadClearRound(r) ==
  /\ r \in DOMAIN byRound
  /\ bets' = Delete(bets, {b.id : b \in byRound[r]})
  /\ byRound' = Delete(byRound, {r})
  /\ UNCHANGED <<byIdempotencyKey, debiting, created>>
ClearRound(r) ==
  /\ r \in DOMAIN byRound
  /\ bets' = Delete(bets, {b.id : b \in byRound[r]})
  /\ byIdempotencyKey' = Delete(byIdempotencyKey, {b.idempotencyKey : b \in byRound[r]})
  /\ byRound' = Delete(byRound, {r})
  /\ UNCHANGED <<debiting, created>>

Init ==
  /\ bets = <<>> /\ byRound = <<>> /\ byIdempotencyKey = <<>>
  /\ debiting = NoCommand /\ created = 0

Next ==
  \/ \E cmd \in Command : Execute(cmd)
  \/ Debited
  \/ DebitRefused
  \/ \E r \in RoundIds : ClearRound(r)

Spec == Init /\ [][Next]_vars

-----------------------------------------------------------------------------
\* The shape of the state.
TypeOK ==
  /\ DOMAIN bets \subseteq 1..created /\ Values(bets) \subseteq Bet
  /\ DOMAIN byRound \subseteq RoundIds /\ Values(byRound) \subseteq SUBSET Bet
  /\ DOMAIN byIdempotencyKey \subseteq Keys /\ Values(byIdempotencyKey) \subseteq Bet
  /\ debiting \in Command \cup {NoCommand}
  /\ created \in 0..MaxBets

\* The three maps describe one set of bets: each bet is found under its id, its
\* round and its key, and nothing else is found, although a round is cleared
\* while a debit is under way and commands carry any round id they like.
MapsAgree ==
  /\ \A i \in DOMAIN bets : bets[i].id = i
  /\ \A r \in DOMAIN byRound : byRound[r] = {b \in Values(bets) : b.roundId = r}
  /\ \A b \in Values(bets) : b.roundId \in DOMAIN byRound
  /\ DOMAIN byIdempotencyKey = {b.idempotencyKey : b \in Values(bets)}
  /\ \A k \in DOMAIN byIdempotencyKey :
       {b \in Values(bets) : b.idempotencyKey = k} = {byIdempotencyKey[k]}

\* A set of bets without any index, in which no key occurs twice.
Held == INSTANCE BetSet WITH held <- Values(bets)
StoreIsBetSet == Held!Spec
=============================================================================
