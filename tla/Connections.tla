----------------------------- MODULE Connections -----------------------------
(***************************************************************************)
(* The realtime server's connections: the HTTP upgrade, the callbacks of   *)
(* the WebSockets, the connection store with its index by player, the      *)
(* registry of sockets, what is forwarded to the engine and delivered from *)
(* it, and the shutdown of the process.                                    *)
(*                                                                         *)
(* One action is one callback, or the part of an async function between    *)
(* two awaits.  A request, the socket it is upgraded to, and that socket's *)
(* random connection id have one name.                                     *)
(*                                                                         *)
(* Bun may call the close callback inside ws.close() or later; the model   *)
(* has both.  A message that is answered with an error changes nothing and *)
(* is left out: an undecodable or invalid one, one above a rate limit, one *)
(* of a connection that the store does not know.                           *)
(*                                                                         *)
(* An operator Bad... before an operator of the same name is not part of   *)
(* the model: it is that operator with a plausible bug.                    *)
(***************************************************************************)
EXTENDS Integers, Sequences, FiniteSets

CONSTANTS
  Requests,              \* upgrade requests, each made once
  Players,
  Operators,             \* the operators that tokens may name
  OperatorId,            \* the one this server is configured for
  NoConnection,          \* undefined
  Everybody,             \* the addressee of a broadcast
  MaxConnections,
  MaxCommands,           \* bound: commands published in a behaviour
  MaxEvents              \* bound: events delivered in a behaviour

ASSUME NamesAssumption ==
  OperatorId \in Operators /\ NoConnection \notin Requests /\ Everybody \notin Players
ASSUME LimitAssumption == MaxConnections \in Nat

VARIABLES
  server,                \* "up", then the awaits of shutdown: "closing" the
                         \* subscriptions, "draining" NATS, "waiting"; "exited"
  socket,                \* per request, how far it has got
  claims,                \* per request, what its token says; it never changes
  store,                 \* InMemoryConnectionStore: connections, playerIndex
  sockets,               \* WebSocketSenderAdapter: the sockets registered, which
                         \* are those subscribed to the broadcast topic
  commands,              \* the commands published to NATS
  deliveries             \* per event from NATS, its addressee and who got it

vars == <<server, socket, claims, store, sockets, commands, deliveries>>

Claims == [playerId : Players, operatorId : Operators]

Player(r) == claims[r].playerId

-----------------------------------------------------------------------------
\* InMemoryConnectionStore.getByPlayerId
GetByPlayerId(st, p) ==
  IF st.playerIndex[p] \in st.connections THEN st.playerIndex[p] ELSE NoConnection

\* InMemoryConnectionStore.remove
BadRemoved(st, r) ==
  IF r \in Requests
  THEN [connections |-> st.connections \ {r},
        playerIndex |-> [st.playerIndex EXCEPT ![Player(r)] = NoConnection]]
  ELSE st
Removed(st, r) ==
  IF r \in st.connections
  THEN [connections |-> st.connections \ {r},
        playerIndex |-> [st.playerIndex EXCEPT ![Player(r)] = NoConnection]]
  ELSE st

\* InMemoryConnectionStore.add of a connection that has joined
Added(st, r) ==
  [connections |-> st.connections \cup {r},
   playerIndex |-> [st.playerIndex EXCEPT ![Player(r)] = r]]

-----------------------------------------------------------------------------
(* handleUpgrade up to the verification of the token: the origin, the limit *)
(* and the presence of a token have been checked.                           *)
UpgradeChecked(r) ==
  /\ server # "exited" /\ socket[r] = "none"
  /\ Cardinality(store.connections) < MaxConnections
  /\ socket' = [socket EXCEPT ![r] = "verifying"]
  /\ UNCHANGED <<server, claims, store, sockets, commands, deliveries>>

(* The request is answered with an error: by one of those checks, because   *)
(* the token is not valid, or because the upgrade itself fails.             *)
UpgradeRefused(r) ==
  /\ server # "exited" /\ socket[r] \in {"none", "verifying"}
  /\ socket' = [socket EXCEPT ![r] = "refused"]
  /\ UNCHANGED <<server, claims, store, sockets, commands, deliveries>>

(* The token is valid and the request is upgraded. *)
Upgraded(r) ==
  /\ server # "exited" /\ socket[r] = "verifying"
  /\ socket' = [socket EXCEPT ![r] = "upgraded"]
  /\ UNCHANGED <<server, claims, store, sockets, commands, deliveries>>

(* The open callback of a socket for another operator: it is registered,    *)
(* taken off the register again and closed with 4003.                       *)
OpenMismatch(r) ==
  /\ server # "exited" /\ socket[r] = "upgraded"
  /\ claims[r].operatorId # OperatorId
  /\ \E after \in {"closing", "closed"} : socket' = [socket EXCEPT ![r] = after]
  /\ UNCHANGED <<server, claims, store, sockets, commands, deliveries>>

\* HandleConnectionUseCase.execute, on the store
Joined(r) == Added(Removed(store, GetByPlayerId(store, Player(r))), r)

\* The sockets that an open callback of r closes: that of the connection the
\* player has had, if it is registered.
BadReplaced(r) == {}
Replaced(r) == {GetByPlayerId(store, Player(r))} \cap sockets

(* The open callback of a socket that is accepted.  The connection that the *)
(* player has had is closed with 4001; if its close callback runs at once,  *)
(* it finds the old connection in the store, else it will not.              *)
OpenJoins(r) ==
  /\ server # "exited" /\ socket[r] = "upgraded"
  /\ claims[r].operatorId = OperatorId
  /\ store' = Joined(r)
  /\ \/ /\ socket' = [s \in Requests |-> IF s = r THEN "open"
                                         ELSE IF s \in Replaced(r) THEN "closed" ELSE socket[s]]
        /\ sockets' = (sockets \ Replaced(r)) \cup {r}
     \/ /\ socket' = [s \in Requests |-> IF s = r THEN "open"
                                         ELSE IF s \in Replaced(r) THEN "closing" ELSE socket[s]]
        /\ sockets' = sockets \cup {r}
  /\ UNCHANGED <<server, claims, commands, deliveries>>

\* HandleDisconnectionUseCase.execute, on the store.  Its early return and the
\* one of remove are the same: the store does not know the connection.
Disconnected(r) == Removed(store, r)

(* The close callback: the client went away, or ws.close() was called. *)
BadSocketClosed(r) ==
  /\ server # "exited" /\ socket[r] \in {"open", "closing"}
  /\ socket' = [socket EXCEPT ![r] = "closed"]
  /\ store' = Disconnected(r)
  /\ sockets' = IF r \in store.connections THEN sockets \ {r} ELSE sockets
  /\ UNCHANGED <<server, claims, commands, deliveries>>
SocketClosed(r) ==
  /\ server # "exited" /\ socket[r] \in {"open", "closing"}
  /\ socket' = [socket EXCEPT ![r] = "closed"]
  /\ sockets' = sockets \ {r}
  /\ store' = Disconnected(r)
  /\ UNCHANGED <<server, claims, commands, deliveries>>

-----------------------------------------------------------------------------
\* RouteClientMessageUseCase: the store knows the connection of the message.
Known(r) == r \in store.connections

\* The two forwarding use cases let a message of socket r pass: its player has
\* joined.
BadMayForward(r) == GetByPlayerId(store, Player(r)) # NoConnection
MayForward(r) ==
  /\ Known(r)
  /\ GetByPlayerId(store, Player(r)) # NoConnection

(* The message callback for a place_bet or cashout that passes all checks,  *)
(* while NATS still takes messages.                                         *)
Forward(r) ==
  /\ server \in {"up", "closing", "draining"} /\ socket[r] \in {"open", "closing"}
  /\ Len(commands) < MaxCommands
  /\ MayForward(r)
  /\ commands' = Append(commands, [playerId |-> Player(r), connection |-> r])
  /\ UNCHANGED <<server, socket, claims, store, sockets, deliveries>>

\* WebSocketSenderAdapter.broadcastToAllJoined: server.publish reaches the
\* sockets that are subscribed and not yet closed.
BroadcastToAllJoined == {r \in sockets : socket[r] = "open"}

\* MessageDeliveryAdapter.sendToPlayer: the socket of the player's connection,
\* if the registry has it.
BadSendToPlayer(p) == {r \in sockets : socket[r] \in {"open", "closing"} /\ Player(r) = p}
WorseSendToPlayer(p) == {GetByPlayerId(store, p)}
SendToPlayer(p) == {GetByPlayerId(store, p)} \cap sockets

\* BroadcastGameEventUseCase: who gets an event.
Receivers(target) ==
  IF target = Everybody THEN BroadcastToAllJoined ELSE SendToPlayer(target)

(* The callback of a NATS subscription: bet_rejected and credit_failed are  *)
(* for one player, every other event is for everybody.                      *)
EventArrives(target) ==
  /\ server \in {"up", "closing"}
  /\ Len(deliveries) < MaxEvents
  /\ deliveries' = Append(deliveries, [target |-> target, to |-> Receivers(target)])
  /\ UNCHANGED <<server, socket, claims, store, sockets, commands>>

-----------------------------------------------------------------------------
(* SIGTERM or SIGINT: shutdown goes from one await to the next.  Bun goes   *)
(* on accepting and serving until the last of them.                         *)
AfterAwait == [up |-> "closing", closing |-> "draining", draining |-> "waiting",
               waiting |-> "exited"]
Shutdown ==
  /\ server # "exited"
  /\ server' = AfterAwait[server]
  /\ UNCHANGED <<socket, claims, store, sockets, commands, deliveries>>

-----------------------------------------------------------------------------
Init ==
  /\ server = "up"
  /\ socket = [r \in Requests |-> "none"]
  /\ claims \in [Requests -> Claims]
  /\ store = [connections |-> {}, playerIndex |-> [p \in Players |-> NoConnection]]
  /\ sockets = {}
  /\ commands = <<>>
  /\ deliveries = <<>>

Next ==
  \/ \E r \in Requests :
       \/ UpgradeChecked(r)
       \/ UpgradeRefused(r)
       \/ Upgraded(r)
       \/ OpenMismatch(r)
       \/ OpenJoins(r)
       \/ SocketClosed(r)
       \/ Forward(r)
  \/ \E target \in Players \cup {Everybody} : EventArrives(target)
  \/ Shutdown

Spec == Init /\ [][Next]_vars

-----------------------------------------------------------------------------
Store == [connections : SUBSET Requests, playerIndex : [Players -> Requests \cup {NoConnection}]]

SocketState == {"none", "verifying", "refused", "upgraded", "open", "closing", "closed"}

\* The shape of the state.
TypeOK ==
  /\ server \in {"up", "closing", "draining", "waiting", "exited"}
  /\ socket \in [Requests -> SocketState]
  /\ claims \in [Requests -> Claims]
  /\ store \in Store
  /\ sockets \subseteq Requests
  /\ commands \in Seq([playerId : Players, connection : Requests])
  /\ deliveries \in Seq([target : Players \cup {Everybody}, to : SUBSET Requests])

\* The index by player and the map of connections are inverse to each other, so
\* a player has at most one connection and it can be found, after any sequence
\* of opens, replacements and late close callbacks (InMemoryConnectionStore).
IndexInverse ==
  /\ \A r \in store.connections : store.playerIndex[Player(r)] = r
  /\ \A p \in Players :
       store.playerIndex[p] # NoConnection =>
         /\ store.playerIndex[p] \in store.connections
         /\ Player(store.playerIndex[p]) = p

\* The connections in the store are those whose socket is open: a replaced one
\* does not live on beside its successor, and one that has closed is forgotten.
StoreMatchesSockets == \A r \in Requests : r \in store.connections <=> socket[r] = "open"

\* The registry holds the socket of every connection in the store, and no
\* socket whose close callback has run, so that nothing leaks.
RegistryMatchesSockets ==
  /\ store.connections \subseteq sockets
  /\ \A r \in sockets : socket[r] \in {"open", "closing"}

\* Store and registry both agree with the sockets there are, in any order of
\* opens, replacements and closes.
SocketsAccounted == StoreMatchesSockets /\ RegistryMatchesSockets

\* A command is published only for the player whose token opened the socket it
\* came from, over the one connection that this player has at that time, and
\* for this server's operator (RouteClientMessageUseCase, ForwardBetCommandUseCase).
CommandsFromCurrentOnly ==
  [][\A r \in Requests :
       commands' = Append(commands, [playerId |-> Player(r), connection |-> r]) =>
         /\ socket[r] = "open"
         /\ GetByPlayerId(store, Player(r)) = r
         /\ claims[r].operatorId = OperatorId]_commands

\* What one event owes: a broadcast reaches exactly the open connections, an
\* event for one player this player's open connection and nobody else.
DeliveredTo(d) ==
  d.to = {r \in Requests :
            /\ socket[r] = "open" /\ claims[r].operatorId = OperatorId
            /\ d.target \in {Everybody, Player(r)}}

\* Every event is delivered so (BroadcastGameEventUseCase, MessageDeliveryAdapter).
DeliveredRight ==
  [][deliveries' # deliveries => DeliveredTo(deliveries'[Len(deliveries')])]_deliveries
=============================================================================
