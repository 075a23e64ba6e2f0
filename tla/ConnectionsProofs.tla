-------------------------- MODULE ConnectionsProofs --------------------------
(***************************************************************************)
(* Proofs about Connections, for any set of requests, players and          *)
(* operators and any limit: the store, its index, the registry and the     *)
(* sockets agree, commands come from current connections only, and events  *)
(* reach exactly the sockets they are for.                                 *)
(***************************************************************************)
EXTENDS Connections, SequenceTheorems, TLAPS

USE NamesAssumption

\* Only connections of this server's operator are in the store.
OperatorInv == \A r \in store.connections : claims[r].operatorId = OperatorId

\* The inductive invariant.
Inv ==
  /\ TypeOK
  /\ IndexInverse
  /\ StoreMatchesSockets
  /\ RegistryMatchesSockets
  /\ OperatorInv

-----------------------------------------------------------------------------
(* The store *)

\* What a store consists of.
LEMMA StoreParts ==
  ASSUME NEW st \in Store
  PROVE  /\ st.connections \subseteq Requests
         /\ st.playerIndex \in [Players -> Requests \cup {NoConnection}]
         /\ st = [connections |-> st.connections, playerIndex |-> st.playerIndex]
BY DEF Store

\* A request's player is a player.
LEMMA PlayerTyped ==
  ASSUME TypeOK, NEW r \in Requests
  PROVE  Player(r) \in Players /\ claims[r] \in Claims
<1>1. claims[r] \in Claims
  BY DEF TypeOK
<1> QED
  BY <1>1 DEF Claims, Player

\* A player's connection is what the index says, if the index is inverse.
LEMMA Lookup ==
  ASSUME TypeOK, IndexInverse, NEW p \in Players
  PROVE  /\ GetByPlayerId(store, p) = store.playerIndex[p]
         /\ GetByPlayerId(store, p) \in Requests \cup {NoConnection}
         /\ GetByPlayerId(store, p) # NoConnection <=>
              \E r \in store.connections : Player(r) = p
         /\ \A r \in store.connections : Player(r) = p <=> GetByPlayerId(store, p) = r
<1>1. store \in Store
  BY DEF TypeOK
<1>2. /\ store.playerIndex[p] \in Requests \cup {NoConnection}
      /\ store.connections \subseteq Requests
  BY <1>1, StoreParts
<1>3. GetByPlayerId(store, p) = store.playerIndex[p]
  BY DEF GetByPlayerId, IndexInverse
<1>4. \A r \in store.connections : Player(r) = p => store.playerIndex[p] = r
  BY DEF IndexInverse
<1>5. \A r \in store.connections : store.playerIndex[p] = r => Player(r) = p
  BY <1>2 DEF IndexInverse
<1>6. store.playerIndex[p] # NoConnection => \E r \in store.connections : Player(r) = p
  BY DEF IndexInverse
<1>7. (\E r \in store.connections : Player(r) = p) => store.playerIndex[p] # NoConnection
  BY <1>2, <1>4
<1> QED
  BY <1>2, <1>3, <1>4, <1>5, <1>6, <1>7

\* What remove does to a connection that the store knows.
LEMMA RemovedFacts ==
  ASSUME TypeOK, NEW r \in Requests
  PROVE  /\ Removed(store, r) \in Store
         /\ Removed(store, r).connections = store.connections \ {r}
         /\ r \in store.connections =>
              Removed(store, r).playerIndex =
                [store.playerIndex EXCEPT ![Player(r)] = NoConnection]
         /\ r \notin store.connections => Removed(store, r) = store
<1>1. store \in Store /\ Player(r) \in Players
  BY PlayerTyped DEF TypeOK
<1>2. /\ store.connections \subseteq Requests
      /\ store.playerIndex \in [Players -> Requests \cup {NoConnection}]
  BY <1>1, StoreParts
<1>3. CASE r \in store.connections
  <2> DEFINE conns == store.connections \ {r}
             index == [store.playerIndex EXCEPT ![Player(r)] = NoConnection]
  <2>1. conns \subseteq Requests /\ index \in [Players -> Requests \cup {NoConnection}]
    BY <1>1, <1>2
  <2>2. Removed(store, r) = [connections |-> conns, playerIndex |-> index]
    BY <1>3 DEF Removed
  <2> HIDE DEF conns, index
  <2>3. Removed(store, r) \in Store
    BY <2>1, <2>2 DEF Store
  <2>4. Removed(store, r).connections = conns /\ Removed(store, r).playerIndex = index
    BY <2>2
  <2> QED
    BY <1>3, <2>3, <2>4 DEF conns, index
<1>4. CASE r \notin store.connections
  <2>1. Removed(store, r) = store
    BY <1>4 DEF Removed
  <2> QED
    BY <1>1, <1>4, <2>1
<1> QED
  BY <1>3, <1>4

\* What an accepted open does to the store: the new connection takes the place
\* of the one that its player has had.
LEMMA JoinedFacts ==
  ASSUME TypeOK, IndexInverse, NEW r \in Requests
  PROVE  /\ Joined(r) \in Store
         /\ Joined(r).connections =
              (store.connections \ {GetByPlayerId(store, Player(r))}) \cup {r}
         /\ Joined(r).playerIndex = [store.playerIndex EXCEPT ![Player(r)] = r]
<1> DEFINE p == Player(r)
           old == GetByPlayerId(store, p)
           st == Removed(store, old)
<1>1. store \in Store /\ p \in Players
  BY PlayerTyped DEF TypeOK
<1>2. /\ store.connections \subseteq Requests
      /\ store.playerIndex \in [Players -> Requests \cup {NoConnection}]
  BY <1>1, StoreParts
<1>3. /\ st \in Store
      /\ st.connections = store.connections \ {old}
      /\ st.playerIndex \in [Players -> Requests \cup {NoConnection}]
      /\ \A q \in Players : q # p => st.playerIndex[q] = store.playerIndex[q]
  <2>1. CASE old \in store.connections
    <3>1. Player(old) = p
      BY <1>1, <2>1, Lookup
    <3>2. old \in Requests
      BY <1>2, <2>1
    <3> HIDE DEF old
    <3>3. /\ st \in Store /\ st.connections = store.connections \ {old}
          /\ st.playerIndex = [store.playerIndex EXCEPT ![p] = NoConnection]
      BY <2>1, <3>1, <3>2, RemovedFacts
    <3> QED
      BY <1>1, <1>2, <3>3
  <2>2. CASE old \notin store.connections
    <3>1. st = store
      BY <2>2 DEF Removed
    <3> QED
      BY <1>1, <1>2, <2>2, <3>1
  <2> QED
    BY <2>1, <2>2
<1> HIDE DEF old, st
<1>4. Joined(r) = [connections |-> st.connections \cup {r},
                   playerIndex |-> [st.playerIndex EXCEPT ![p] = r]]
  BY DEF Joined, Added, st, old
<1>5. [st.playerIndex EXCEPT ![p] = r] = [store.playerIndex EXCEPT ![p] = r]
  BY <1>1, <1>2, <1>3
<1>6. [st.playerIndex EXCEPT ![p] = r] \in [Players -> Requests \cup {NoConnection}]
  BY <1>1, <1>3
<1>7. st.connections \cup {r} \subseteq Requests
  BY <1>2, <1>3
<1>8. Joined(r) \in Store
  BY <1>4, <1>6, <1>7 DEF Store
<1> QED
  BY <1>3, <1>4, <1>5, <1>8 DEF old

-----------------------------------------------------------------------------
(* Invariance *)

\* The server goes through the awaits of shutdown.
LEMMA ServerTyped ==
  ASSUME TypeOK, Shutdown
  PROVE  server' \in {"up", "closing", "draining", "waiting", "exited"}
BY DEF TypeOK, Shutdown, AfterAwait

\* The steps of a request before its socket opens, and the open callback of a
\* socket that is not accepted, change the state of that request only, to one
\* that is not "open".
RequestStep(r) ==
  /\ socket[r] \in {"none", "verifying", "upgraded"}
  /\ \E after \in {"verifying", "refused", "upgraded", "closing", "closed"} :
       socket' = [socket EXCEPT ![r] = after]
  /\ UNCHANGED <<server, claims, store, sockets, commands, deliveries>>

LEMMA RequestSteps ==
  ASSUME NEW r \in Requests,
         UpgradeChecked(r) \/ UpgradeRefused(r) \/ Upgraded(r) \/ OpenMismatch(r)
  PROVE  RequestStep(r)
<1>1. CASE UpgradeChecked(r)
  BY <1>1 DEF UpgradeChecked, RequestStep
<1>2. CASE UpgradeRefused(r)
  BY <1>2 DEF UpgradeRefused, RequestStep
<1>3. CASE Upgraded(r)
  BY <1>3 DEF Upgraded, RequestStep
<1>4. CASE OpenMismatch(r)
  BY <1>4 DEF OpenMismatch, RequestStep
<1> QED
  BY <1>1, <1>2, <1>3, <1>4

\* Such a step keeps the invariant.
LEMMA RequestStepKeeps ==
  ASSUME Inv, NEW r \in Requests, RequestStep(r)
  PROVE  Inv'
<1>1. socket \in [Requests -> SocketState]
  BY DEF Inv, TypeOK
<1>2. PICK after \in {"verifying", "refused", "upgraded", "closing", "closed"} :
        socket' = [socket EXCEPT ![r] = after]
  BY DEF RequestStep
<1>3. /\ socket' \in [Requests -> SocketState]
      /\ socket'[r] # "open"
      /\ \A s \in Requests : s # r => socket'[s] = socket[s]
  BY <1>1, <1>2 DEF SocketState
<1>4. r \notin store.connections /\ r \notin sockets
  BY DEF Inv, RequestStep, StoreMatchesSockets, RegistryMatchesSockets
<1>5. UNCHANGED <<server, claims, store, sockets, commands, deliveries>>
  BY DEF RequestStep
<1>6. TypeOK'
  BY <1>3, <1>5 DEF Inv, TypeOK
<1>7. IndexInverse' /\ OperatorInv'
  BY <1>5 DEF Inv, IndexInverse, OperatorInv, Player
<1>8. StoreMatchesSockets'
  BY <1>3, <1>4, <1>5 DEF Inv, StoreMatchesSockets
<1>9. sockets \subseteq Requests
  BY DEF Inv, TypeOK
<1>10. RegistryMatchesSockets'
  BY <1>3, <1>4, <1>5, <1>9 DEF Inv, RegistryMatchesSockets
<1> QED
  BY <1>6, <1>7, <1>8, <1>10 DEF Inv

\* An accepted open keeps the invariant: the old connection leaves the store and
\* its socket is open no more.
LEMMA OpenJoinsKeeps ==
  ASSUME Inv, NEW r \in Requests, OpenJoins(r)
  PROVE  Inv'
<1> DEFINE p == Player(r)
           old == GetByPlayerId(store, p)
<1>0. /\ TypeOK /\ IndexInverse /\ StoreMatchesSockets
      /\ RegistryMatchesSockets /\ OperatorInv
  BY DEF Inv
<1>1. /\ socket \in [Requests -> SocketState] /\ store \in Store
      /\ sockets \subseteq Requests /\ p \in Players
  BY <1>0, PlayerTyped DEF TypeOK
<1>2. /\ store.connections \subseteq Requests
      /\ store.playerIndex \in [Players -> Requests \cup {NoConnection}]
  BY <1>1, StoreParts
<1>3. UNCHANGED <<server, claims, commands, deliveries>>
  BY DEF OpenJoins
<1>4. /\ store' \in Store
      /\ store'.connections = (store.connections \ {old}) \cup {r}
      /\ store'.playerIndex = [store.playerIndex EXCEPT ![p] = r]
  BY <1>0, JoinedFacts DEF OpenJoins
<1>5. /\ \A s \in store.connections : Player(s) = p <=> s = old
      /\ old # NoConnection => old \in store.connections
  BY <1>0, <1>1, <1>2, Lookup DEF IndexInverse
<1>6. r \notin store.connections /\ r # old
  <2>1. socket[r] = "upgraded"
    BY DEF OpenJoins
  <2> QED
    BY <1>0, <1>5, <2>1 DEF StoreMatchesSockets
<1>7. Replaced(r) = {old} \cap sockets
  BY DEF Replaced
<1>8. \A s \in store.connections : s = old => s \in Replaced(r)
  BY <1>0, <1>7 DEF RegistryMatchesSockets
<1> HIDE DEF old
<1>9. \E after \in {"closing", "closed"} :
        socket' = [s \in Requests |-> IF s = r THEN "open"
                                      ELSE IF s \in Replaced(r) THEN after ELSE socket[s]]
  BY DEF OpenJoins
<1>10. /\ socket' \in [Requests -> SocketState]
       /\ socket'[r] = "open"
       /\ \A s \in Requests : s # r /\ s \in Replaced(r) => socket'[s] \in {"closing", "closed"}
       /\ \A s \in Requests : s # r /\ s \notin Replaced(r) => socket'[s] = socket[s]
  BY <1>1, <1>9 DEF SocketState
<1>11. \/ sockets' = (sockets \ Replaced(r)) \cup {r}
       \/ /\ sockets' = sockets \cup {r}
          /\ \A s \in Requests : s # r /\ s \in Replaced(r) => socket'[s] = "closing"
  BY DEF OpenJoins
<1>12. TypeOK'
  <2>1. sockets' \subseteq Requests
    BY <1>1, <1>11
  <2> QED
    BY <1>0, <1>3, <1>4, <1>10, <2>1 DEF TypeOK
<1>13. IndexInverse'
  <2>1. \A s \in Requests : Player(s)' = Player(s)
    BY <1>3 DEF Player
  <2>2. ASSUME NEW s \in store'.connections PROVE store'.playerIndex[Player(s)] = s
    <3>1. CASE s = r
      BY <1>1, <1>2, <1>4, <3>1
    <3>2. CASE s # r
      <4>1. s \in store.connections /\ s # old
        BY <1>4, <2>2, <3>2
      <4>2. Player(s) # p /\ store.playerIndex[Player(s)] = s
        BY <1>0, <1>5, <4>1 DEF IndexInverse
      <4>3. Player(s) \in Players
        BY <1>0, <1>2, <4>1, PlayerTyped
      <4> QED
        BY <1>2, <1>4, <4>2, <4>3
    <3> QED
      BY <3>1, <3>2
  <2>3. ASSUME NEW q \in Players, store'.playerIndex[q] # NoConnection
        PROVE  /\ store'.playerIndex[q] \in store'.connections
               /\ Player(store'.playerIndex[q]) = q
    <3>1. CASE q = p
      <4>1. store'.playerIndex[q] = r
        BY <1>1, <1>2, <1>4, <3>1
      <4> QED
        BY <1>4, <3>1, <4>1
    <3>2. CASE q # p
      <4>1. store'.playerIndex[q] = store.playerIndex[q]
        BY <1>2, <1>4, <3>2
      <4>2. /\ store.playerIndex[q] \in store.connections
            /\ Player(store.playerIndex[q]) = q
        BY <1>0, <2>3, <4>1 DEF IndexInverse
      <4>3. store.playerIndex[q] # old
        BY <1>5, <3>2, <4>2
      <4> QED
        BY <1>4, <4>1, <4>2, <4>3
    <3> QED
      BY <3>1, <3>2
  <2>4. store'.connections \subseteq Requests
    BY <1>2, <1>4
  <2> QED
    BY <2>1, <2>2, <2>3, <2>4 DEF IndexInverse
<1>14. StoreMatchesSockets'
  <2> SUFFICES ASSUME NEW s \in Requests
               PROVE  s \in store'.connections <=> socket'[s] = "open"
    BY DEF StoreMatchesSockets
  <2>1. CASE s = r
    BY <1>4, <1>10, <2>1
  <2>2. CASE s # r /\ s \in Replaced(r)
    BY <1>4, <1>7, <1>10, <2>2
  <2>3. CASE s # r /\ s \notin Replaced(r)
    <3>1. s \in store'.connections <=> s \in store.connections
      BY <1>4, <1>8, <2>3
    <3> QED
      BY <1>0, <1>10, <2>3, <3>1 DEF StoreMatchesSockets
  <2> QED
    BY <2>1, <2>2, <2>3
<1>15. RegistryMatchesSockets'
  <2>1. store'.connections \subseteq sockets'
    BY <1>0, <1>4, <1>7, <1>11 DEF RegistryMatchesSockets
  <2>2. ASSUME NEW s \in sockets' PROVE socket'[s] \in {"open", "closing"}
    <3>1. CASE s = r
      BY <1>10, <3>1
    <3>2. CASE s # r /\ s \in Replaced(r)
      BY <1>1, <1>10, <1>11, <2>2, <3>2
    <3>3. CASE s # r /\ s \notin Replaced(r)
      BY <1>0, <1>1, <1>10, <1>11, <2>2, <3>3 DEF RegistryMatchesSockets
    <3> QED
      BY <3>1, <3>2, <3>3
  <2> QED
    BY <2>1, <2>2 DEF RegistryMatchesSockets
<1>16. OperatorInv'
  BY <1>0, <1>3, <1>4 DEF OperatorInv, OpenJoins
<1> QED
  BY <1>12, <1>13, <1>14, <1>15, <1>16 DEF Inv

\* A close callback keeps the invariant, whether the store still knows the
\* connection or it has been replaced.
LEMMA SocketClosedKeeps ==
  ASSUME Inv, NEW r \in Requests, SocketClosed(r)
  PROVE  Inv'
<1>0. /\ TypeOK /\ IndexInverse /\ StoreMatchesSockets
      /\ RegistryMatchesSockets /\ OperatorInv
  BY DEF Inv
<1>1. /\ socket \in [Requests -> SocketState] /\ store \in Store
      /\ sockets \subseteq Requests /\ Player(r) \in Players
  BY <1>0, PlayerTyped DEF TypeOK
<1>2. /\ store.connections \subseteq Requests
      /\ store.playerIndex \in [Players -> Requests \cup {NoConnection}]
  BY <1>1, StoreParts
<1>3. UNCHANGED <<server, claims, commands, deliveries>> /\ sockets' = sockets \ {r}
  BY DEF SocketClosed
<1>4. /\ store' \in Store
      /\ store'.connections = store.connections \ {r}
      /\ r \in store.connections =>
           store'.playerIndex = [store.playerIndex EXCEPT ![Player(r)] = NoConnection]
      /\ r \notin store.connections => store' = store
  BY <1>0, RemovedFacts DEF SocketClosed, Disconnected
<1>5. /\ socket' \in [Requests -> SocketState]
      /\ socket'[r] = "closed"
      /\ \A s \in Requests : s # r => socket'[s] = socket[s]
  BY <1>1 DEF SocketClosed, SocketState
<1>6. TypeOK'
  BY <1>0, <1>3, <1>4, <1>5 DEF TypeOK
<1>7. IndexInverse'
  <2>1. \A s \in Requests : Player(s)' = Player(s)
    BY <1>3 DEF Player
  <2>2. CASE r \notin store.connections
    BY <1>0, <1>2, <1>4, <2>1, <2>2 DEF IndexInverse
  <2>3. CASE r \in store.connections
    <3>1. store.playerIndex[Player(r)] = r
      BY <1>0, <2>3 DEF IndexInverse
    <3>2. ASSUME NEW s \in store'.connections PROVE store'.playerIndex[Player(s)] = s
      <4>1. s \in store.connections /\ s # r
        BY <1>4, <3>2
      <4>2. store.playerIndex[Player(s)] = s
        BY <1>0, <4>1 DEF IndexInverse
      <4>3. Player(s) # Player(r) /\ Player(s) \in Players
        BY <1>0, <1>2, <3>1, <4>1, <4>2, PlayerTyped
      <4> QED
        BY <1>2, <1>4, <2>3, <4>2, <4>3
    <3>3. ASSUME NEW q \in Players, store'.playerIndex[q] # NoConnection
          PROVE  /\ store'.playerIndex[q] \in store'.connections
                 /\ Player(store'.playerIndex[q]) = q
      <4>1. q # Player(r) /\ store'.playerIndex[q] = store.playerIndex[q]
        BY <1>1, <1>2, <1>4, <2>3, <3>3
      <4>2. /\ store.playerIndex[q] \in store.connections
            /\ Player(store.playerIndex[q]) = q
        BY <1>0, <3>3, <4>1 DEF IndexInverse
      <4>3. store.playerIndex[q] # r
        BY <4>1, <4>2
      <4> QED
        BY <1>4, <4>1, <4>2, <4>3
    <3>4. store'.connections \subseteq Requests
      BY <1>2, <1>4
    <3> QED
      BY <2>1, <3>2, <3>3, <3>4 DEF IndexInverse
  <2> QED
    BY <2>2, <2>3
<1>8. StoreMatchesSockets'
  BY <1>0, <1>4, <1>5 DEF StoreMatchesSockets
<1>9. RegistryMatchesSockets'
  BY <1>0, <1>1, <1>3, <1>4, <1>5 DEF RegistryMatchesSockets
<1>10. OperatorInv'
  BY <1>0, <1>3, <1>4 DEF OperatorInv
<1> QED
  BY <1>6, <1>7, <1>8, <1>9, <1>10 DEF Inv

\* Steps that touch neither the sockets nor the store keep the invariant when
\* they keep the types.
LEMMA OthersKeep ==
  ASSUME Inv, UNCHANGED <<socket, claims, store, sockets>>, TypeOK'
  PROVE  Inv'
<1>1. IndexInverse' /\ OperatorInv'
  BY DEF Inv, IndexInverse, OperatorInv, Player
<1>2. StoreMatchesSockets' /\ RegistryMatchesSockets'
  BY DEF Inv, StoreMatchesSockets, RegistryMatchesSockets
<1> QED
  BY <1>1, <1>2 DEF Inv

\* Publishing a command keeps the invariant.
LEMMA ForwardKeeps ==
  ASSUME Inv, NEW r \in Requests, Forward(r)
  PROVE  Inv'
<1>1. [playerId |-> Player(r), connection |-> r] \in [playerId : Players, connection : Requests]
  BY PlayerTyped DEF Inv
<1>2. commands' \in Seq([playerId : Players, connection : Requests])
  BY <1>1, AppendProperties DEF Inv, TypeOK, Forward
<1>3. TypeOK'
  BY <1>2 DEF Inv, TypeOK, Forward
<1> QED
  BY <1>3, OthersKeep DEF Forward

\* Delivering an event keeps the invariant.
LEMMA EventArrivesKeeps ==
  ASSUME Inv, NEW target \in Players \cup {Everybody}, EventArrives(target)
  PROVE  Inv'
<1>1. Receivers(target) \subseteq Requests
  BY DEF Receivers, SendToPlayer, BroadcastToAllJoined, Inv, TypeOK
<1>2. [target |-> target, to |-> Receivers(target)]
        \in [target : Players \cup {Everybody}, to : SUBSET Requests]
  BY <1>1
<1>3. deliveries' \in Seq([target : Players \cup {Everybody}, to : SUBSET Requests])
  BY <1>2, AppendProperties DEF Inv, TypeOK, EventArrives
<1>4. TypeOK'
  BY <1>3 DEF Inv, TypeOK, EventArrives
<1> QED
  BY <1>4, OthersKeep DEF EventArrives

\* The next await of shutdown keeps the invariant.
LEMMA ShutdownKeeps ==
  ASSUME Inv, Shutdown
  PROVE  Inv'
<1>1. TypeOK'
  BY ServerTyped DEF Inv, TypeOK, Shutdown
<1> QED
  BY <1>1, OthersKeep DEF Shutdown

\* The server starts without connections.
LEMMA InitInv == Init => Inv
<1> SUFFICES ASSUME Init PROVE Inv
  OBVIOUS
<1>1. store \in Store
  BY DEF Init, Store
<1>2. socket \in [Requests -> SocketState]
  BY DEF Init, SocketState
<1>3. TypeOK
  BY <1>1, <1>2 DEF Init, TypeOK
<1>4. IndexInverse /\ StoreMatchesSockets /\ RegistryMatchesSockets /\ OperatorInv
  BY DEF Init, IndexInverse, StoreMatchesSockets, RegistryMatchesSockets, OperatorInv
<1> QED
  BY <1>3, <1>4 DEF Inv

\* Every step keeps the invariant.
LEMMA NextKeeps == Inv /\ [Next]_vars => Inv'
<1> SUFFICES ASSUME Inv, [Next]_vars PROVE Inv'
  OBVIOUS
<1>1. ASSUME NEW r \in Requests,
             UpgradeChecked(r) \/ UpgradeRefused(r) \/ Upgraded(r) \/ OpenMismatch(r)
      PROVE  Inv'
  BY <1>1, RequestSteps, RequestStepKeeps
<1>2. ASSUME NEW r \in Requests, OpenJoins(r) PROVE Inv'
  BY <1>2, OpenJoinsKeeps
<1>3. ASSUME NEW r \in Requests, SocketClosed(r) PROVE Inv'
  BY <1>3, SocketClosedKeeps
<1>4. ASSUME NEW r \in Requests, Forward(r) PROVE Inv'
  BY <1>4, ForwardKeeps
<1>5. ASSUME NEW target \in Players \cup {Everybody}, EventArrives(target) PROVE Inv'
  BY <1>5, EventArrivesKeeps
<1>6. CASE Shutdown
  BY <1>6, ShutdownKeeps
<1>7. CASE UNCHANGED vars
  BY <1>7, OthersKeep DEF vars, Inv, TypeOK
<1> QED
  BY <1>1, <1>2, <1>3, <1>4, <1>5, <1>6, <1>7 DEF Next

\* The invariant holds throughout.
LEMMA Invariance == Spec => []Inv
BY InitInv, NextKeeps, PTL DEF Spec

-----------------------------------------------------------------------------
(* Theorems *)

\* The state keeps its shape.
THEOREM ConnectionsTypeCorrect == Spec => []TypeOK
<1>1. Inv => TypeOK
  BY DEF Inv
<1> QED
  BY <1>1, Invariance, PTL

\* However opens, replacements and close callbacks interleave, the index by
\* player is the inverse of the map of connections.
THEOREM StoreConsistent == Spec => []IndexInverse
<1>1. Inv => IndexInverse
  BY DEF Inv
<1> QED
  BY <1>1, Invariance, PTL

\* The store holds exactly the connections whose socket is open, and the registry
\* those and sockets that are about to close.
THEOREM SocketsAccountedFor == Spec => []SocketsAccounted
<1>1. Inv => SocketsAccounted
  BY DEF Inv, SocketsAccounted
<1> QED
  BY <1>1, Invariance, PTL

\* A command comes over the current connection of the player it is for.
THEOREM OnlyCurrentForwards == Spec => CommandsFromCurrentOnly
<1> DEFINE FromCurrent ==
             \A r \in Requests :
               commands' = Append(commands, [playerId |-> Player(r), connection |-> r]) =>
                 /\ socket[r] = "open"
                 /\ GetByPlayerId(store, Player(r)) = r
                 /\ claims[r].operatorId = OperatorId
<1>1. Inv /\ [Next]_vars => [FromCurrent]_commands
  <2> SUFFICES ASSUME Inv, [Next]_vars, commands' # commands PROVE FromCurrent
    OBVIOUS
  <2>1. PICK r \in Requests : Forward(r)
    BY DEF Next, vars, UpgradeChecked, UpgradeRefused, Upgraded, OpenMismatch, OpenJoins,
           SocketClosed, EventArrives, Shutdown
  <2>2. r \in store.connections
    BY <2>1 DEF Forward, MayForward, Known
  <2>3. TypeOK /\ IndexInverse
    BY DEF Inv
  <2>4. Player(r) \in Players
    BY <2>3, PlayerTyped
  <2>5. GetByPlayerId(store, Player(r)) = r
    BY <2>2, <2>3, <2>4, Lookup
  <2>6. socket[r] = "open" /\ claims[r].operatorId = OperatorId
    BY <2>2 DEF Inv, StoreMatchesSockets, OperatorInv
  <2>7. ASSUME NEW s \in Requests,
               commands' = Append(commands, [playerId |-> Player(s), connection |-> s])
        PROVE  s = r
    <3> DEFINE cr == [playerId |-> Player(r), connection |-> r]
               cs == [playerId |-> Player(s), connection |-> s]
               Commands == [playerId : Players, connection : Requests]
    <3>1. cr \in Commands /\ cs \in Commands
      BY <2>3, PlayerTyped
    <3>2. commands \in Seq(Commands)
      BY <2>3 DEF TypeOK
    <3>3. cr.connection = r /\ cs.connection = s
      OBVIOUS
    <3>4. commands' = Append(commands, cr) /\ commands' = Append(commands, cs)
      BY <2>1, <2>7 DEF Forward
    <3> HIDE DEF cr, cs, Commands
    <3>5. Append(commands, cr)[Len(commands) + 1] = cr
      BY <3>1, <3>2
    <3>6. Append(commands, cs)[Len(commands) + 1] = cs
      BY <3>1, <3>2
    <3> QED
      BY <3>3, <3>4, <3>5, <3>6
  <2> QED
    BY <2>5, <2>6, <2>7
<1>2. CommandsFromCurrentOnly <=> [][FromCurrent]_commands
  BY DEF CommandsFromCurrentOnly
<1> HIDE DEF FromCurrent
<1> QED
  BY <1>1, <1>2, Invariance, PTL DEF Spec

\* An event reaches exactly the open connections it is for.
THEOREM EventsReachTheirPlayers == Spec => DeliveredRight
<1> DEFINE Right == deliveries' # deliveries => DeliveredTo(deliveries'[Len(deliveries')])
<1>1. Inv /\ [Next]_vars => [Right]_deliveries
  <2> SUFFICES ASSUME Inv, [Next]_vars, deliveries' # deliveries
               PROVE  DeliveredTo(deliveries'[Len(deliveries')])
    OBVIOUS
  <2>1. PICK target \in Players \cup {Everybody} : EventArrives(target)
    BY DEF Next, vars, UpgradeChecked, UpgradeRefused, Upgraded, OpenMismatch, OpenJoins,
           SocketClosed, Forward, Shutdown
  <2>2. TypeOK /\ IndexInverse /\ StoreMatchesSockets /\ RegistryMatchesSockets /\ OperatorInv
    BY DEF Inv
  <2> DEFINE d == [target |-> target, to |-> Receivers(target)]
             Deliveries == [target : Players \cup {Everybody}, to : SUBSET Requests]
  <2>3. Receivers(target) \subseteq Requests
    BY <2>2 DEF Receivers, SendToPlayer, BroadcastToAllJoined, TypeOK
  <2>4. d \in Deliveries /\ deliveries \in Seq(Deliveries) /\ deliveries' = Append(deliveries, d)
    BY <2>1, <2>2, <2>3 DEF EventArrives, TypeOK
  <2> HIDE DEF Deliveries
  <2>5. deliveries'[Len(deliveries')] = d
    <3> HIDE DEF d
    <3> QED
      BY <2>4
  <2>6. store.connections \subseteq Requests /\ sockets \subseteq Requests
    BY <2>2, StoreParts DEF TypeOK
  <2>7. Receivers(target) = {r \in Requests :
            /\ socket[r] = "open" /\ claims[r].operatorId = OperatorId
            /\ target \in {Everybody, Player(r)}}
    <3>1. \A r \in Requests : Player(r) \in Players
      BY <2>2, PlayerTyped
    <3>2. \A r \in Requests : socket[r] = "open" =>
            /\ r \in store.connections /\ r \in sockets
            /\ claims[r].operatorId = OperatorId
      BY <2>2 DEF StoreMatchesSockets, RegistryMatchesSockets, OperatorInv
    <3>3. CASE target = Everybody
      BY <2>6, <3>2, <3>3 DEF Receivers, BroadcastToAllJoined
    <3>4. CASE target # Everybody
      <4>1. target \in Players
        BY <3>4
      <4> DEFINE old == GetByPlayerId(store, target)
      <4>2. \A r \in store.connections : Player(r) = target <=> old = r
        BY <2>2, <4>1, Lookup
      <4>3. old \in sockets => old \in store.connections
        <5>1. old # NoConnection => old \in store.connections
          BY <2>2, <4>1, Lookup DEF IndexInverse
        <5> QED
          BY <2>6, <5>1
      <4>4. Receivers(target) = {old} \cap sockets
        BY <3>4 DEF Receivers, SendToPlayer
      <4> HIDE DEF old
      <4>5. \A r \in Receivers(target) :
              /\ r \in Requests /\ socket[r] = "open"
              /\ claims[r].operatorId = OperatorId /\ target = Player(r)
        BY <2>2, <2>6, <4>2, <4>3, <4>4 DEF StoreMatchesSockets, OperatorInv
      <4>6. \A r \in Requests : socket[r] = "open" /\ target = Player(r) => r \in Receivers(target)
        BY <3>2, <4>2, <4>4
      <4> QED
        BY <3>4, <4>5, <4>6
    <3> QED
      BY <3>3, <3>4
  <2>8. d.to = Receivers(target) /\ d.target = target
    OBVIOUS
  <2> QED
    BY <2>5, <2>7, <2>8 DEF DeliveredTo
<1>2. DeliveredRight <=> [][Right]_deliveries
  BY DEF DeliveredRight
<1> HIDE DEF Right
<1> QED
  BY <1>1, <1>2, Invariance, PTL DEF Spec
=============================================================================
