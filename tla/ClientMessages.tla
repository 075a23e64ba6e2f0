--------------------------- MODULE ClientMessages ---------------------------
(***************************************************************************)
(* What the realtime server does with the messages of one player: the      *)
(* message callback of the socket, the token bucket of the connection, the *)
(* routing, the checks of the two forwarding use cases, and the fixed      *)
(* windows of the rate limiter with their cleanup.                         *)
(*                                                                         *)
(* The limiter's keys are a player and an action; players do not share     *)
(* anything, so one player is enough.  The player may connect again, which *)
(* brings a new bucket but leaves the windows.  Time is Date.now(), which  *)
(* is assumed not to go backwards.  Tokens are counted in parts, so that a *)
(* refill per unit of time is a whole number; the code adds fractions, and *)
(* rounds them.                                                            *)
(*                                                                         *)
(* A message that is answered before the bucket is asked (a ping, text,    *)
(* bytes that do not decode) changes nothing here and is left out.         *)
(*                                                                         *)
(* An operator Bad... before an operator of the same name is not part of   *)
(* the model: it is that operator with a plausible bug.                    *)
(***************************************************************************)
EXTENDS Integers, Sequences

CONSTANTS
  MaxPerWindow,          \* InMemoryRateLimiter: calls per window
  WindowMs,              \* InMemoryRateLimiter: length of a window
  Capacity,              \* TokenBucket: tokens of a full bucket
  Parts,                 \* parts of a token
  RefillParts,           \* TokenBucket: parts refilled per unit of time
  MaxTime,               \* bound: the time at which a behaviour ends
  MaxMessages            \* bound: messages of a connection that are routed

ASSUME LimiterAssumption ==
  /\ MaxPerWindow \in Nat \ {0} /\ WindowMs \in Nat
  /\ Capacity \in Nat \ {0} /\ Parts \in Nat \ {0} /\ RefillParts \in Nat
ASSUME BoundsAssumption == MaxTime \in Nat /\ MaxMessages \in Nat

Actions == {"place_bet", "cashout"}

VARIABLES
  now,                   \* Date.now()
  rateLimiter,           \* the TokenBucket of the connection
  windows,               \* InMemoryRateLimiter, the entry of each action
  routed,                \* when the messages of this connection passed the bucket
  allowed                \* per action, when the limiter allowed a command

vars == <<now, rateLimiter, windows, routed, allowed>>

NoEntry == [count |-> 0, expiresAt |-> 0]

-----------------------------------------------------------------------------
\* TokenBucket.refill
BadRefilled ==
  LET tokens == rateLimiter.tokens + (now - rateLimiter.lastRefill) * RefillParts
  IN [tokens |-> IF tokens > Capacity * Parts THEN Capacity * Parts ELSE tokens,
      lastRefill |-> rateLimiter.lastRefill]
Refilled ==
  LET tokens == rateLimiter.tokens + (now - rateLimiter.lastRefill) * RefillParts
  IN [tokens |-> IF tokens > Capacity * Parts THEN Capacity * Parts ELSE tokens,
      lastRefill |-> now]

\* TokenBucket.consume: whether there is a token
HasToken == Refilled.tokens >= Parts

\* TokenBucket.consume of a message that passes
Consume ==
  /\ HasToken
  /\ Len(routed) < MaxMessages
  /\ rateLimiter' = [Refilled EXCEPT !.tokens = @ - Parts]
  /\ routed' = Append(routed, now)

\* InMemoryRateLimiter.allow: no entry, or one that has expired
Expired(a) == windows[a] = NoEntry \/ now >= windows[a].expiresAt

\* InMemoryRateLimiter.allow: what becomes of the entry of a call that is
\* allowed
BadCounted(a) ==
  IF Expired(a) THEN [count |-> 1, expiresAt |-> now + WindowMs]
  ELSE [count |-> windows[a].count + 1, expiresAt |-> now + WindowMs]
Counted(a) ==
  IF Expired(a) THEN [count |-> 1, expiresAt |-> now + WindowMs]
  ELSE [windows[a] EXCEPT !.count = @ + 1]

Allows(a) == Expired(a) \/ windows[a].count < MaxPerWindow

-----------------------------------------------------------------------------
(* The bucket has no token for the message. *)
Throttled ==
  /\ ~HasToken
  /\ rateLimiter' = Refilled
  /\ UNCHANGED <<now, windows, routed, allowed>>

(* The message is routed and turned down before it reaches the limiter: the *)
(* connection is not known, the values of a bet are not valid, or it asks   *)
(* for a new authentication.                                                *)
Invalid ==
  /\ Consume
  /\ UNCHANGED <<now, windows, allowed>>

(* The limiter refuses the command. *)
LimiterRefuses(a) ==
  /\ Consume
  /\ ~Allows(a)
  /\ UNCHANGED <<now, windows, allowed>>

(* The limiter allows the command.  It may still turn out that the player   *)
(* has not joined, or that NATS does not take it; the window counts it.     *)
LimiterAllows(a) ==
  /\ Consume
  /\ Allows(a)
  /\ windows' = [windows EXCEPT ![a] = Counted(a)]
  /\ allowed' = [allowed EXCEPT ![a] = Append(@, now)]
  /\ UNCHANGED now

-----------------------------------------------------------------------------
\* InMemoryRateLimiter.cleanup: whether an entry is dropped
BadStale(a) == windows[a].count > 0
Stale(a) == now >= windows[a].expiresAt

(* The interval of main.ts that cleans up. *)
Cleanup ==
  /\ windows' = [a \in Actions |-> IF Stale(a) THEN NoEntry ELSE windows[a]]
  /\ UNCHANGED <<now, rateLimiter, routed, allowed>>

(* The player connects again: handleUpgrade makes a bucket. *)
Reconnect ==
  /\ rateLimiter' = [tokens |-> Capacity * Parts, lastRefill |-> now]
  /\ routed' = <<>>
  /\ UNCHANGED <<now, windows, allowed>>

(* Time goes on. *)
Tick ==
  /\ now < MaxTime
  /\ now' = now + 1
  /\ UNCHANGED <<rateLimiter, windows, routed, allowed>>

-----------------------------------------------------------------------------
Init ==
  /\ now = 0
  /\ rateLimiter = [tokens |-> Capacity * Parts, lastRefill |-> 0]
  /\ windows = [a \in Actions |-> NoEntry]
  /\ routed = <<>>
  /\ allowed = [a \in Actions |-> <<>>]

Next ==
  \/ Throttled
  \/ Invalid
  \/ \E a \in Actions : LimiterRefuses(a) \/ LimiterAllows(a)
  \/ Cleanup
  \/ Reconnect
  \/ Tick

Spec == Init /\ [][Next]_vars

-----------------------------------------------------------------------------
\* However the windows fall and whenever the cleanup runs, no stretch of time
\* shorter than a window holds 2 * MaxPerWindow commands of one action, over
\* all connections of the player (InMemoryRateLimiter.allow, cleanup).
BurstBounded ==
  \A a \in Actions : \A i \in DOMAIN allowed[a] :
    i + 2 * MaxPerWindow - 1 \in DOMAIN allowed[a] =>
      allowed[a][i + 2 * MaxPerWindow - 1] - allowed[a][i] >= WindowMs

\* MaxPerWindow commands of its action were allowed within the last WindowMs.
RefusedOnlyWhenBusy ==
  \A a \in Actions :
    ~Allows(a) =>
      LET first == Len(allowed[a]) - MaxPerWindow + 1
      IN first \in DOMAIN allowed[a] /\ allowed[a][first] > now - WindowMs

\* Between any two messages that one connection got through, there were at most
\* a full bucket and what was refilled in between (TokenBucket.consume).
BucketBounded ==
  \A i, j \in DOMAIN routed :
    i <= j => (j - i + 1) * Parts <= Capacity * Parts + (routed[j] - routed[i]) * RefillParts

\* The connection has sent more than that since some earlier message, this one
\* included.
ThrottledOnlyWhenFast ==
  ~HasToken =>
    \E i \in DOMAIN routed :
      (Len(routed) - i + 2) * Parts > Capacity * Parts + (now - routed[i]) * RefillParts

\* Nobody slow is turned away: the limiter refuses a command only for commands
\* of the same action that it allowed within the last window, and a connection
\* is throttled only when it has sent more than the bucket gives, whatever the
\* windows, the cleanup and reconnects do (allow, cleanup, consume).
RefusedWithCause == RefusedOnlyWhenBusy /\ ThrottledOnlyWhenFast
=============================================================================
