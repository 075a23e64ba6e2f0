--------------------------- MODULE BetStoreProofs ---------------------------
(***************************************************************************)
(* Proofs about BetStore, for any keys, round ids and number of bets.      *)
(***************************************************************************)
EXTENDS BetStore, TLAPS

Stored == Values(bets)

\* While a debit is under way its key stays free, as no other command is worked
\* off, and there is room for its bet.
DebitInv ==
  debiting # NoCommand =>
    created < MaxBets /\ debiting.idempotencyKey \notin DOMAIN byIdempotencyKey

Inv == TypeOK /\ MapsAgree /\ DebitInv

\* The bet that Debited creates.
NewBet ==
  [id |-> created + 1, idempotencyKey |-> debiting.idempotencyKey,
   roundId |-> debiting.roundId]

-----------------------------------------------------------------------------
\* Map.set of a new key.
LEMMA SetFacts ==
  ASSUME NEW map, NEW k, NEW v, k \notin DOMAIN map
  PROVE  Values(Set(map, k, v)) = Values(map) \cup {v}
BY DEF Set, Values

\* Map.delete.
LEMMA DeleteFacts ==
  ASSUME NEW map, NEW ks
  PROVE  /\ DOMAIN Delete(map, ks) = DOMAIN map \ ks
         /\ \A x \in DOMAIN map \ ks : Delete(map, ks)[x] = map[x]
         /\ Values(Delete(map, ks)) \subseteq Values(map)
BY DEF Delete, Values

\* A bet of the store is found under its id.
LEMMA FoundById ==
  ASSUME Inv, NEW b \in Stored
  PROVE  b \in Bet /\ b.id \in DOMAIN bets /\ bets[b.id] = b /\ b.id \in 1..created
BY DEF Inv, TypeOK, MapsAgree, Stored, Values

\* Two bets of the store have different keys.
LEMMA KeysUnique ==
  ASSUME Inv, NEW b \in Stored, NEW c \in Stored, b.idempotencyKey = c.idempotencyKey
  PROVE  b = c
<1> DEFINE k == b.idempotencyKey
<1>1. k \in DOMAIN byIdempotencyKey
  BY DEF Inv, MapsAgree, Stored
<1>2. {d \in Stored : d.idempotencyKey = k} = {byIdempotencyKey[k]}
  BY <1>1 DEF Inv, MapsAgree, Stored
<1> QED
  BY <1>2

-----------------------------------------------------------------------------
\* A bet that has been debited is new to the store, in all of its maps.
LEMMA NewBetFacts ==
  ASSUME Inv, Debited
  PROVE  /\ NewBet \in Bet /\ NewBet.id = created + 1
         /\ NewBet.id \notin DOMAIN bets /\ NewBet.idempotencyKey \notin DOMAIN byIdempotencyKey
         /\ \A b \in Stored : b.idempotencyKey # NewBet.idempotencyKey
         /\ Add(NewBet) /\ created' = created + 1 /\ created \in Nat /\ debiting' = NoCommand
<1>1. debiting \in Command /\ created \in 0..MaxBets /\ created < MaxBets /\ MaxBets \in Nat
      /\ debiting.idempotencyKey \notin DOMAIN byIdempotencyKey
  BY BoundAssumption DEF Inv, TypeOK, DebitInv, Debited
<1>2. created + 1 \in 1..MaxBets /\ created \in Nat
  BY <1>1
<1>3. NewBet \in Bet
  BY <1>1, <1>2 DEF NewBet, Bet, Command
<1>4. NewBet.id = created + 1 /\ NewBet.idempotencyKey = debiting.idempotencyKey
  BY DEF NewBet
<1>5. created + 1 \notin DOMAIN bets
  BY <1>2 DEF Inv, TypeOK
<1>6. \A b \in Stored : b.idempotencyKey \in DOMAIN byIdempotencyKey
  BY DEF Inv, MapsAgree, Stored
<1>7. Add(NewBet) /\ created' = created + 1 /\ debiting' = NoCommand
  BY DEF Debited, NewBet
<1> QED
  BY <1>1, <1>2, <1>3, <1>4, <1>5, <1>6, <1>7

\* The set of bets grows by the new one.
LEMMA DebitedStores ==
  ASSUME Inv, Debited
  PROVE  Stored' = Stored \cup {NewBet}
<1>1. bets' = Set(bets, NewBet.id, NewBet)
  BY NewBetFacts DEF Add
<1> QED
  BY <1>1, NewBetFacts, SetFacts DEF Stored

\* Clearing a round leaves the other bets.
LEMMA ClearRoundKeeps ==
  ASSUME Inv, NEW r \in RoundIds, ClearRound(r)
  PROVE  /\ Stored' = {b \in Stored : b.roundId # r}
         /\ DOMAIN bets' \subseteq DOMAIN bets
         /\ \A i \in DOMAIN bets' : bets'[i] = bets[i]
         /\ byRound[r] = {b \in Stored : b.roundId = r}
<1> DEFINE ids == {b.id : b \in byRound[r]}
<1>1. byRound[r] = {b \in Stored : b.roundId = r}
  BY DEF ClearRound, Inv, MapsAgree, Stored
<1>2. bets' = Delete(bets, ids)
  BY DEF ClearRound
<1>3. DOMAIN bets' = DOMAIN bets \ ids /\ \A i \in DOMAIN bets \ ids : bets'[i] = bets[i]
  BY <1>2, DeleteFacts
<1>4. \A i \in DOMAIN bets : bets[i] \in Stored /\ bets[i].id = i
  BY DEF Inv, MapsAgree, Stored, Values
<1>5. \A i \in DOMAIN bets : i \in ids <=> bets[i].roundId = r
  BY <1>1, <1>4, FoundById
<1>6. Stored' = {bets[i] : i \in DOMAIN bets \ ids}
  BY <1>3 DEF Stored, Values
<1>7. Stored = {bets[i] : i \in DOMAIN bets}
  BY DEF Stored, Values
<1> QED
  BY <1>1, <1>3, <1>5, <1>6, <1>7

-----------------------------------------------------------------------------
\* InMemoryBetStore.add keeps the maps in step.
LEMMA DebitedKeeps == ASSUME Inv, Debited PROVE Inv'
<1> DEFINE bet == NewBet
<1>1. /\ bet \in Bet /\ bet.id = created + 1
      /\ bet.roundId \in RoundIds /\ bet.idempotencyKey \in Keys
      /\ bet.id \notin DOMAIN bets /\ bet.idempotencyKey \notin DOMAIN byIdempotencyKey
      /\ \A b \in Stored : b.idempotencyKey # bet.idempotencyKey
      /\ created' = created + 1 /\ created \in Nat /\ debiting' = NoCommand
  BY NewBetFacts DEF Bet
<1>2. /\ bets' = Set(bets, bet.id, bet)
      /\ byIdempotencyKey' = Set(byIdempotencyKey, bet.idempotencyKey, bet)
      /\ byRound' = Set(byRound, bet.roundId, GetByRound(bet.roundId) \cup {bet})
  BY NewBetFacts DEF Add
<1>3. Stored' = Stored \cup {bet}
  BY DebitedStores
<1>4. Stored \subseteq Bet
  BY DEF Inv, TypeOK, Stored
<1>5. GetByRound(bet.roundId) = {b \in Stored : b.roundId = bet.roundId}
  BY DEF GetByRound, Inv, MapsAgree, Stored
<1>6. TypeOK'
  <2>1. DOMAIN bets' \subseteq 1..created' /\ Values(bets') \subseteq Bet
    <3>1. DOMAIN bets' = DOMAIN bets \cup {created + 1}
      BY <1>1, <1>2 DEF Set
    <3>2. DOMAIN bets \subseteq 1..created
      BY DEF Inv, TypeOK
    <3>3. DOMAIN bets' \subseteq 1..created'
      BY <1>1, <3>1, <3>2
    <3> QED
      BY <1>1, <1>3, <1>4, <3>3 DEF Stored
  <2>2. DOMAIN byRound' \subseteq RoundIds /\ Values(byRound') \subseteq SUBSET Bet
    <3>1. GetByRound(bet.roundId) \cup {bet} \in SUBSET Bet
      BY <1>1, <1>4, <1>5
    <3>2. DOMAIN byRound \subseteq RoundIds /\ Values(byRound) \subseteq SUBSET Bet
      BY DEF Inv, TypeOK
    <3>3. /\ DOMAIN byRound' = DOMAIN byRound \cup {bet.roundId}
          /\ Values(byRound') \subseteq Values(byRound) \cup {GetByRound(bet.roundId) \cup {bet}}
      BY <1>2 DEF Set, Values
    <3> QED
      BY <1>1, <3>1, <3>2, <3>3
  <2>3. DOMAIN byIdempotencyKey' \subseteq Keys /\ Values(byIdempotencyKey') \subseteq Bet
    <3>1. DOMAIN byIdempotencyKey \subseteq Keys /\ Values(byIdempotencyKey) \subseteq Bet
      BY DEF Inv, TypeOK
    <3>2. /\ DOMAIN byIdempotencyKey' = DOMAIN byIdempotencyKey \cup {bet.idempotencyKey}
          /\ Values(byIdempotencyKey') \subseteq Values(byIdempotencyKey) \cup {bet}
      BY <1>2 DEF Set, Values
    <3> QED
      BY <1>1, <3>1, <3>2
  <2>4. debiting' \in Command \cup {NoCommand} /\ created' \in 0..MaxBets
    <3>1. created + 1 \in 1..MaxBets
      BY <1>1 DEF Bet
    <3> QED
      BY <1>1, <3>1, BoundAssumption
  <2> QED
    BY <2>1, <2>2, <2>3, <2>4 DEF TypeOK
<1>7. MapsAgree'
  <2>1. \A i \in DOMAIN bets' : bets'[i].id = i
    BY <1>1, <1>2 DEF Set, Inv, MapsAgree
  <2>2. /\ DOMAIN byRound' = DOMAIN byRound \cup {bet.roundId}
        /\ byRound'[bet.roundId] = {b \in Stored : b.roundId = bet.roundId} \cup {bet}
        /\ \A r \in DOMAIN byRound : r # bet.roundId => byRound'[r] = byRound[r]
    BY <1>2, <1>5 DEF Set
  <2>3. \A r \in DOMAIN byRound : byRound[r] = {b \in Stored : b.roundId = r}
    BY DEF Inv, MapsAgree, Stored
  <2>4. \A r \in DOMAIN byRound' : byRound'[r] = {b \in Stored' : b.roundId = r}
    BY <1>3, <2>2, <2>3
  <2>5. \A b \in Stored : b.roundId \in DOMAIN byRound
    BY DEF Inv, MapsAgree, Stored
  <2>6. \A b \in Stored' : b.roundId \in DOMAIN byRound'
    BY <1>3, <2>2, <2>5
  <2>7. /\ DOMAIN byIdempotencyKey' = DOMAIN byIdempotencyKey \cup {bet.idempotencyKey}
        /\ byIdempotencyKey'[bet.idempotencyKey] = bet
        /\ \A k \in DOMAIN byIdempotencyKey : byIdempotencyKey'[k] = byIdempotencyKey[k]
    BY <1>1, <1>2 DEF Set
  <2>8. /\ DOMAIN byIdempotencyKey = {b.idempotencyKey : b \in Stored}
        /\ \A k \in DOMAIN byIdempotencyKey :
             {b \in Stored : b.idempotencyKey = k} = {byIdempotencyKey[k]}
    BY DEF Inv, MapsAgree, Stored
  <2>9. DOMAIN byIdempotencyKey' = {b.idempotencyKey : b \in Stored'}
    BY <1>3, <2>7, <2>8
  <2>10. ASSUME NEW k \in DOMAIN byIdempotencyKey'
         PROVE  {b \in Stored' : b.idempotencyKey = k} = {byIdempotencyKey'[k]}
    <3>1. CASE k = bet.idempotencyKey
      BY <1>1, <1>3, <2>7, <3>1
    <3>2. CASE k # bet.idempotencyKey
      <4>1. k \in DOMAIN byIdempotencyKey
        BY <2>7, <3>2
      <4>2. {b \in Stored' : b.idempotencyKey = k} = {b \in Stored : b.idempotencyKey = k}
        BY <1>3, <3>2
      <4> QED
        BY <2>7, <2>8, <4>1, <4>2
    <3> QED
      BY <3>1, <3>2
  <2> QED
    BY <2>1, <2>4, <2>6, <2>9, <2>10 DEF MapsAgree, Stored
<1>8. DebitInv'
  BY <1>1 DEF DebitInv
<1> QED
  BY <1>6, <1>7, <1>8 DEF Inv

\* InMemoryBetStore.clearRound keeps the maps in step, and no key that was free
\* is taken by it.
LEMMA ClearedKeeps == ASSUME Inv, NEW r \in RoundIds, ClearRound(r) PROVE Inv'
<1> DEFINE keys == {b.idempotencyKey : b \in byRound[r]}
<1>1. /\ Stored' = {b \in Stored : b.roundId # r}
      /\ DOMAIN bets' \subseteq DOMAIN bets
      /\ \A i \in DOMAIN bets' : bets'[i] = bets[i]
      /\ byRound[r] = {b \in Stored : b.roundId = r}
  BY ClearRoundKeeps
<1>2. /\ byIdempotencyKey' = Delete(byIdempotencyKey, keys)
      /\ byRound' = Delete(byRound, {r})
      /\ debiting' = debiting /\ created' = created
  BY DEF ClearRound
<1>3. /\ DOMAIN byRound' = DOMAIN byRound \ {r}
      /\ \A q \in DOMAIN byRound \ {r} : byRound'[q] = byRound[q]
      /\ Values(byRound') \subseteq Values(byRound)
  BY <1>2, DeleteFacts
<1>4. /\ DOMAIN byIdempotencyKey' = DOMAIN byIdempotencyKey \ keys
      /\ \A k \in DOMAIN byIdempotencyKey \ keys : byIdempotencyKey'[k] = byIdempotencyKey[k]
      /\ Values(byIdempotencyKey') \subseteq Values(byIdempotencyKey)
  BY <1>2, DeleteFacts
<1>5. TypeOK'
  <2>1. DOMAIN bets' \subseteq 1..created' /\ Values(bets') \subseteq Bet
    BY <1>1, <1>2 DEF Inv, TypeOK, Stored
  <2> QED
    BY <1>2, <1>3, <1>4, <2>1 DEF Inv, TypeOK
<1>6. MapsAgree'
  <2>1. \A i \in DOMAIN bets' : bets'[i].id = i
    BY <1>1 DEF Inv, MapsAgree
  <2>2. \A q \in DOMAIN byRound : byRound[q] = {b \in Stored : b.roundId = q}
    BY DEF Inv, MapsAgree, Stored
  <2>3. \A q \in DOMAIN byRound' : byRound'[q] = {b \in Stored' : b.roundId = q}
    BY <1>1, <1>3, <2>2
  <2>4. \A b \in Stored : b.roundId \in DOMAIN byRound
    BY DEF Inv, MapsAgree, Stored
  <2>5. \A b \in Stored' : b.roundId \in DOMAIN byRound'
    BY <1>1, <1>3, <2>4
  <2>6. /\ DOMAIN byIdempotencyKey = {b.idempotencyKey : b \in Stored}
        /\ \A k \in DOMAIN byIdempotencyKey :
             {b \in Stored : b.idempotencyKey = k} = {byIdempotencyKey[k]}
    BY DEF Inv, MapsAgree, Stored
  <2>7. \A b \in Stored : b.idempotencyKey \in keys <=> b.roundId = r
    BY <1>1, KeysUnique
  <2>8. DOMAIN byIdempotencyKey' = {b.idempotencyKey : b \in Stored'}
    BY <1>1, <1>4, <2>6, <2>7
  <2>9. ASSUME NEW k \in DOMAIN byIdempotencyKey'
        PROVE  {b \in Stored' : b.idempotencyKey = k} = {byIdempotencyKey'[k]}
    <3>1. /\ k \in DOMAIN byIdempotencyKey /\ k \notin keys
          /\ byIdempotencyKey'[k] = byIdempotencyKey[k]
      BY <1>4
    <3>2. {b \in Stored' : b.idempotencyKey = k} = {b \in Stored : b.idempotencyKey = k}
      BY <1>1, <2>7, <3>1
    <3> QED
      BY <2>6, <3>1, <3>2
  <2> QED
    BY <2>1, <2>3, <2>5, <2>8, <2>9 DEF MapsAgree, Stored
<1>7. DebitInv'
  BY <1>2, <1>4 DEF Inv, DebitInv
<1> QED
  BY <1>5, <1>6, <1>7 DEF Inv

\* An empty store is in step.
LEMMA InitInv == ASSUME Init PROVE Inv
<1>1. DOMAIN bets = {} /\ DOMAIN byRound = {} /\ DOMAIN byIdempotencyKey = {}
  BY DEF Init
<1>2. Values(bets) = {} /\ Values(byRound) = {} /\ Values(byIdempotencyKey) = {}
  BY <1>1 DEF Values
<1>3. TypeOK
  BY <1>1, <1>2, BoundAssumption DEF Init, TypeOK
<1>4. MapsAgree
  BY <1>1, <1>2 DEF MapsAgree
<1> QED
  BY <1>3, <1>4 DEF Init, Inv, DebitInv

\* Every step keeps the maps in step.
LEMMA NextInv == ASSUME Inv, [Next]_vars PROVE Inv'
<1>1. ASSUME NEW cmd \in Command, Execute(cmd) PROVE Inv'
  <2>1. TypeOK' /\ MapsAgree'
    BY <1>1 DEF Execute, Inv, TypeOK, MapsAgree, Values
  <2>2. DebitInv'
    BY <1>1, BoundAssumption DEF Execute, NeedsDebit, DebitInv
  <2> QED
    BY <2>1, <2>2 DEF Inv
<1>2. ASSUME Debited PROVE Inv'
  BY <1>2, DebitedKeeps
<1>3. ASSUME DebitRefused PROVE Inv'
  BY <1>3 DEF DebitRefused, Inv, TypeOK, MapsAgree, Values, DebitInv
<1>4. ASSUME NEW r \in RoundIds, ClearRound(r) PROVE Inv'
  BY <1>4, ClearedKeeps
<1>5. ASSUME UNCHANGED vars PROVE Inv'
  BY <1>5 DEF vars, Inv, TypeOK, MapsAgree, Values, DebitInv
<1> QED
  BY <1>1, <1>2, <1>3, <1>4, <1>5 DEF Next

\* So the invariant holds throughout.
LEMMA Invariance == Spec => []Inv
<1>1. Init => Inv
  BY InitInv
<1>2. Inv /\ [Next]_vars => Inv'
  BY NextInv
<1> QED
  BY <1>1, <1>2, PTL DEF Spec

-----------------------------------------------------------------------------
\* The maps by id, by round and by key always describe one set of bets
\* (InMemoryBetStore), whatever is cleared while a debit is under way.
THEOREM MapsStayInStep == Spec => []MapsAgree
<1>1. Inv => MapsAgree
  BY DEF Inv
<1> QED
  BY <1>1, Invariance, PTL

\* InMemoryBetStore, as PlaceBetUseCase uses it, is a set of bets in which no
\* idempotency key occurs twice.
THEOREM StoreImplementsBetSet == Spec => StoreIsBetSet
<1>1. Init => Held!Init
  BY DEF Init, Held!Init, Values
<1>2. Inv /\ [Next]_vars => [Held!Next]_(Values(bets))
  <2> SUFFICES ASSUME Inv, [Next]_vars PROVE Held!Next \/ Values(bets)' = Values(bets)
    OBVIOUS
  <2>1. ASSUME NEW cmd \in Command, Execute(cmd) PROVE Values(bets)' = Values(bets)
    BY <2>1 DEF Execute, Values
  <2>2. ASSUME Debited PROVE Held!Next
    <3>1. Held!Place(NewBet)
      BY <2>2, NewBetFacts, DebitedStores DEF Held!Place, Stored
    <3> QED
      BY <2>2, <3>1, NewBetFacts DEF Held!Next
  <2>3. ASSUME DebitRefused PROVE Values(bets)' = Values(bets)
    BY <2>3 DEF DebitRefused, Values
  <2>4. ASSUME NEW r \in RoundIds, ClearRound(r)
        PROVE  Held!Next \/ Values(bets)' = Values(bets)
    <3>1. Values(bets)' = {b \in Values(bets) : b.roundId # r}
      BY <2>4, ClearRoundKeeps DEF Stored
    <3>2. CASE \E b \in Values(bets) : b.roundId = r
      BY <3>1, <3>2 DEF Held!Next, Held!ClearRound
    <3>3. CASE \A b \in Values(bets) : b.roundId # r
      BY <3>1, <3>3
    <3> QED
      BY <3>2, <3>3
  <2>5. ASSUME UNCHANGED vars PROVE Values(bets)' = Values(bets)
    BY <2>5 DEF vars, Values
  <2> QED
    BY <2>1, <2>2, <2>3, <2>4, <2>5 DEF Next
<1> QED
  BY <1>1, <1>2, Invariance, PTL DEF Spec, StoreIsBetSet, Held!Spec
=============================================================================
