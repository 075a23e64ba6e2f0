------------------------ MODULE ClientMessagesProofs ------------------------
(***************************************************************************)
(* Proofs about ClientMessages: what the token bucket and the windows of   *)
(* the rate limiter let through and what they refuse, for any capacity,    *)
(* rate, window and number of calls, and for any number of messages.       *)
(***************************************************************************)
EXTENDS ClientMessages, TLAPS

Full == Capacity * Parts

Bucket == [tokens : Nat, lastRefill : Nat]
Window == [count : Nat, expiresAt : Nat]

MessagesTypeOK ==
  /\ now \in Nat
  /\ rateLimiter \in Bucket
  /\ rateLimiter.tokens <= Full
  /\ rateLimiter.lastRefill <= now
  /\ windows \in [Actions -> Window]
  /\ routed \in Seq(Nat)
  /\ allowed \in [Actions -> Seq(Nat)]

\* What a full bucket and the refill since message i amount to.
Supply(i) == Full + (rateLimiter.lastRefill - routed[i]) * RefillParts

\* The tokens in the bucket and those taken since message i, this one included.
Demand(i) == rateLimiter.tokens + (Len(routed) - i + 1) * Parts

\* A bucket that is not full has not overflowed since some message was routed,
\* so that nothing of its refill was wasted.
BucketInv ==
  /\ \A i \in DOMAIN routed : routed[i] <= rateLimiter.lastRefill /\ Demand(i) <= Supply(i)
  /\ rateLimiter.tokens = Full \/ \E i \in DOMAIN routed : Demand(i) = Supply(i)

\* "starts" are the commands that opened a window: they are a window's length
\* apart, and each command comes less than MaxPerWindow after one of them.
Opens(calls, starts) ==
  /\ starts \subseteq DOMAIN calls
  /\ \A s, t \in starts : s < t => calls[t] - calls[s] >= WindowMs
  /\ \A i \in DOMAIN calls : \E s \in starts : s <= i /\ i < s + MaxPerWindow

\* The entry of the map belongs to the last window, or that one is over.
EntryOf(entry, calls, starts) ==
  IF calls = <<>> THEN entry = NoEntry
  ELSE \E s \in starts :
         /\ \A t \in starts : t <= s
         /\ IF entry = NoEntry THEN now >= calls[s] + WindowMs
            ELSE entry.expiresAt = calls[s] + WindowMs /\ entry.count = Len(calls) - s + 1

Ordered(calls) ==
  /\ \A i \in DOMAIN calls : calls[i] <= now
  /\ \A i, j \in DOMAIN calls : i <= j => calls[i] <= calls[j]

WindowInv ==
  \A a \in Actions :
    /\ Ordered(allowed[a])
    /\ \E starts \in SUBSET Nat : Opens(allowed[a], starts) /\ EntryOf(windows[a], allowed[a], starts)

-----------------------------------------------------------------------------
(* Numbers and sequences *)

LEMMA Distribute ==
  ASSUME NEW a \in Int, NEW b \in Int, NEW c \in Int
  PROVE  (a + b) * c = a * c + b * c /\ a * c \in Int
OBVIOUS

LEMMA ProductNat ==
  ASSUME NEW a \in Nat, NEW b \in Nat
  PROVE  a * b \in Nat
OBVIOUS

LEMMA FullBucket == Full \in Nat /\ Full >= Parts /\ Parts \in Nat /\ Parts > 0 /\ RefillParts \in Nat
<1>1. PICK c \in Nat : Capacity = c + 1
  <2>1. Capacity - 1 \in Nat /\ Capacity = (Capacity - 1) + 1
    BY LimiterAssumption
  <2> QED
    BY <2>1
<1>2. Full = c * Parts + Parts /\ c * Parts \in Nat
  BY <1>1, Distribute, ProductNat, LimiterAssumption DEF Full
<1> QED
  BY <1>2, LimiterAssumption

LEMMA AppendCall ==
  ASSUME NEW f \in Seq(Nat), NEW x \in Nat
  PROVE  /\ Append(f, x) \in Seq(Nat)
         /\ Len(Append(f, x)) = Len(f) + 1
         /\ \A i \in DOMAIN f : Append(f, x)[i] = f[i]
         /\ Append(f, x)[Len(f) + 1] = x
         /\ DOMAIN Append(f, x) = DOMAIN f \cup {Len(f) + 1}
         /\ DOMAIN f = 1..Len(f) /\ Len(f) \in Nat
OBVIOUS

-----------------------------------------------------------------------------
(* The bucket *)

\* The balance of the bucket holds after a refill, too.
LEMMA RefilledBalance ==
  ASSUME MessagesTypeOK, BucketInv
  PROVE  /\ Refilled \in Bucket
         /\ Refilled.tokens <= Full
         /\ Refilled.lastRefill = now
         /\ \A i \in DOMAIN routed :
              Refilled.tokens + (Len(routed) - i + 1) * Parts
                <= Full + (now - routed[i]) * RefillParts
         /\ \/ Refilled.tokens = Full
            \/ \E i \in DOMAIN routed :
                 Refilled.tokens + (Len(routed) - i + 1) * Parts
                   = Full + (now - routed[i]) * RefillParts
<1> DEFINE gain == (now - rateLimiter.lastRefill) * RefillParts
           cost(i) == (Len(routed) - i + 1) * Parts
           grown(i) == (now - routed[i]) * RefillParts
           before(i) == (rateLimiter.lastRefill - routed[i]) * RefillParts
<1>1. /\ now \in Nat /\ rateLimiter.tokens \in Nat /\ rateLimiter.lastRefill \in Nat
      /\ rateLimiter.tokens <= Full
      /\ now - rateLimiter.lastRefill \in Nat
  BY DEF MessagesTypeOK, Bucket
<1>2. gain \in Nat /\ Full \in Nat
  BY <1>1, FullBucket, ProductNat
<1>3. ASSUME NEW i \in DOMAIN routed
      PROVE  cost(i) \in Int /\ before(i) \in Int /\ grown(i) \in Int /\ grown(i) = before(i) + gain
  <2>1. routed[i] \in Nat /\ i \in Nat /\ Len(routed) \in Nat
    BY DEF MessagesTypeOK
  <2>2. now - routed[i] = (rateLimiter.lastRefill - routed[i]) + (now - rateLimiter.lastRefill)
    BY <1>1, <2>1
  <2>3. rateLimiter.lastRefill - routed[i] \in Int /\ now - rateLimiter.lastRefill \in Int
    BY <1>1, <2>1
  <2>4. Len(routed) - i + 1 \in Int /\ Parts \in Int /\ RefillParts \in Int
    BY <2>1, FullBucket
  <2>5. grown(i) = before(i) + gain /\ before(i) \in Int
    BY <2>2, <2>3, <2>4, Distribute
  <2>6. cost(i) \in Int
    BY <2>4, Distribute
  <2> QED
    BY <2>5, <2>6, <1>2
<1>4. /\ Refilled.lastRefill = now
      /\ Refilled.tokens = IF rateLimiter.tokens + gain > Full THEN Full ELSE rateLimiter.tokens + gain
      /\ Refilled = [tokens |-> Refilled.tokens, lastRefill |-> now]
  BY DEF Refilled, Full
<1>5. Refilled.tokens \in Nat /\ Refilled.tokens <= Full
  BY <1>1, <1>2, <1>4
<1>6. \A i \in DOMAIN routed :
        /\ rateLimiter.tokens + cost(i) <= Full + before(i)
  BY DEF BucketInv, Demand, Supply
<1>7. rateLimiter.tokens = Full \/ \E i \in DOMAIN routed : rateLimiter.tokens + cost(i) = Full + before(i)
  BY DEF BucketInv, Demand, Supply
<1> HIDE DEF gain, cost, grown, before
<1>8. \A i \in DOMAIN routed : Refilled.tokens + cost(i) <= Full + grown(i)
  BY <1>1, <1>2, <1>3, <1>4, <1>6
<1>9. Refilled.tokens = Full \/ \E i \in DOMAIN routed : Refilled.tokens + cost(i) = Full + grown(i)
  <2>1. CASE rateLimiter.tokens = Full
    BY <2>1, <1>1, <1>2, <1>4
  <2>2. ASSUME NEW i \in DOMAIN routed, rateLimiter.tokens + cost(i) = Full + before(i)
        PROVE  Refilled.tokens = Full \/ Refilled.tokens + cost(i) = Full + grown(i)
    BY <2>2, <1>1, <1>2, <1>3, <1>4
  <2> QED
    BY <2>1, <2>2, <1>7
<1>10. Refilled \in Bucket
  BY <1>1, <1>4, <1>5 DEF Bucket
<1> QED
  BY <1>4, <1>5, <1>8, <1>9, <1>10 DEF cost, grown

\* What is left of a refilled bucket when a message is routed.
LEMMA ConsumeFacts ==
  ASSUME MessagesTypeOK, BucketInv, Consume
  PROVE  /\ rateLimiter' \in Bucket
         /\ rateLimiter'.tokens = Refilled.tokens - Parts
         /\ rateLimiter'.lastRefill = now
         /\ rateLimiter'.tokens \in Nat /\ rateLimiter'.tokens <= Full
         /\ routed' = Append(routed, now)
<1>1. Refilled \in Bucket /\ Refilled.tokens <= Full /\ Refilled.lastRefill = now
  BY RefilledBalance
<1>2. Refilled.tokens >= Parts /\ Refilled.tokens \in Nat
  BY <1>1 DEF Consume, HasToken, Bucket
<1>3. rateLimiter' = [Refilled EXCEPT !.tokens = @ - Parts] /\ routed' = Append(routed, now)
  BY DEF Consume
<1>4. Refilled.tokens - Parts \in Nat /\ Refilled.tokens - Parts <= Full /\ now \in Nat
  BY <1>1, <1>2, FullBucket DEF MessagesTypeOK
<1>5. rateLimiter' = [tokens |-> Refilled.tokens - Parts, lastRefill |-> now]
  <2>1. PICK r \in Bucket : r = Refilled
    BY <1>1
  <2>2. rateLimiter' = [r EXCEPT !.tokens = r.tokens - Parts] /\ r.lastRefill = now
    BY <1>1, <1>3, <2>1
  <2>3. r = [tokens |-> r.tokens, lastRefill |-> r.lastRefill]
    BY <2>1 DEF Bucket
  <2> QED
    BY <2>1, <2>2, <2>3
<1>6. routed' = Append(routed, now)
  BY <1>3
<1>7. /\ rateLimiter'.tokens = Refilled.tokens - Parts
      /\ rateLimiter'.lastRefill = now
      /\ rateLimiter' \in Bucket
  BY <1>4, <1>5 DEF Bucket
<1> QED
  BY <1>4, <1>6, <1>7

\* The balance holds for the messages so far and for the one that is routed.
LEMMA ConsumeBalance ==
  ASSUME MessagesTypeOK, BucketInv, Consume
  PROVE  BucketInv'
<1> DEFINE grown(i) == (now - routed[i]) * RefillParts
           cost(i) == (Len(routed) - i + 1) * Parts
<1>1. /\ now \in Nat /\ routed \in Seq(Nat) /\ Len(routed) \in Nat
      /\ rateLimiter.lastRefill \in Nat /\ rateLimiter.lastRefill <= now
      /\ DOMAIN routed = 1..Len(routed)
  BY DEF MessagesTypeOK, Bucket
<1>2. /\ routed' = Append(routed, now)
      /\ rateLimiter'.tokens = Refilled.tokens - Parts
      /\ rateLimiter'.tokens \in Nat
      /\ rateLimiter'.lastRefill = now
  BY ConsumeFacts
<1>3. /\ Len(routed') = Len(routed) + 1
      /\ DOMAIN routed' = DOMAIN routed \cup {Len(routed) + 1}
      /\ \A i \in DOMAIN routed : routed'[i] = routed[i]
      /\ routed'[Len(routed) + 1] = now
  BY <1>1, <1>2, AppendCall
<1>n. PICK n \in Nat : n = Len(routed) + 1
  BY <1>1
<1>4. Refilled.tokens \in Nat /\ Refilled.tokens <= Full /\ Full \in Nat /\ Parts \in Nat
  BY RefilledBalance, FullBucket DEF Bucket
<1>5. ASSUME NEW i \in DOMAIN routed
      PROVE  /\ Demand(i)' = Refilled.tokens + cost(i)
             /\ Supply(i)' = Full + grown(i)
  <2>1. i \in Nat
    BY <1>1
  <2>2. Len(routed') - i + 1 = (Len(routed) - i + 1) + 1
    BY <1>1, <1>3, <2>1
  <2>3. (Len(routed') - i + 1) * Parts = cost(i) + 1 * Parts /\ cost(i) \in Int
    <3>1. Len(routed) - i + 1 \in Int /\ 1 \in Int /\ Parts \in Int
      BY <1>1, <1>4, <2>1
    <3> QED
      BY <2>2, <3>1, Distribute
  <2>4. Demand(i)' = rateLimiter'.tokens + (Len(routed') - i + 1) * Parts
    BY DEF Demand
  <2>5. Demand(i)' = (Refilled.tokens - Parts) + (cost(i) + Parts)
    BY <1>2, <1>4, <2>3, <2>4
  <2>6. Supply(i)' = Full + grown(i)
    BY <1>2, <1>3 DEF Supply, Full
  <2> HIDE DEF cost
  <2> QED
    BY <1>4, <2>3, <2>5, <2>6
<1>6. Demand(n)' = Refilled.tokens /\ Supply(n)' = Full
  <2>1. Len(routed') - n + 1 = 1 /\ now - now = 0
    BY <1>1, <1>n, <1>3
  <2>2. Demand(n)' = rateLimiter'.tokens + 1 * Parts
    BY <2>1 DEF Demand
  <2>3. Supply(n)' = Full + 0 * RefillParts
    BY <1>2, <1>n, <1>3, <2>1 DEF Supply, Full
  <2> QED
    BY <1>2, <1>4, <2>2, <2>3, FullBucket
<1>7. ASSUME NEW i \in DOMAIN routed'
      PROVE  routed'[i] <= now /\ Demand(i)' <= Supply(i)'
  <2>1. CASE i = n
    BY <2>1, <1>1, <1>n, <1>3, <1>4, <1>6
  <2>2. CASE i \in DOMAIN routed
    <3>1. routed[i] <= rateLimiter.lastRefill /\ routed[i] \in Nat
      BY <1>1, <2>2 DEF BucketInv
    <3>2. Refilled.tokens + cost(i) <= Full + grown(i)
      BY <2>2, RefilledBalance
    <3> QED
      BY <1>1, <1>3, <1>5, <2>2, <3>1, <3>2
  <2> QED
    BY <1>n, <1>3, <2>1, <2>2
<1>8. \E i \in DOMAIN routed' : Demand(i)' = Supply(i)'
  <2>1. CASE Refilled.tokens = Full
    BY <2>1, <1>n, <1>3, <1>6
  <2>2. ASSUME NEW i \in DOMAIN routed, Refilled.tokens + cost(i) = Full + grown(i)
        PROVE  Demand(i)' = Supply(i)' /\ i \in DOMAIN routed'
    BY <2>2, <1>3, <1>5
  <2> QED
    BY <2>1, <2>2, RefilledBalance
<1> QED
  BY <1>2, <1>7, <1>8 DEF BucketInv

\* Time and the windows leave the bucket alone.
LEMMA BucketSame ==
  ASSUME BucketInv, UNCHANGED <<rateLimiter, routed>>
  PROVE  BucketInv'
BY DEF BucketInv, Demand, Supply, Full

-----------------------------------------------------------------------------
(* The windows *)

\* An entry that has expired is that of no window, or of one that is over.
LEMMA ExpiredWindow ==
  ASSUME NEW a \in Actions, MessagesTypeOK, NEW starts, EntryOf(windows[a], allowed[a], starts),
         allowed[a] # <<>>, Expired(a)
  PROVE  \E s \in starts :
           (\A t \in starts : t <= s) /\ now >= allowed[a][s] + WindowMs
BY DEF EntryOf, Expired

\* A call that is allowed goes into the last window, or opens a new one.
LEMMA AllowedCall ==
  ASSUME NEW a \in Actions, MessagesTypeOK, WindowInv, Allows(a)
  PROVE  /\ Counted(a) \in Window
         /\ Ordered(Append(allowed[a], now))
         /\ \E starts \in SUBSET Nat :
              /\ Opens(Append(allowed[a], now), starts)
              /\ EntryOf(Counted(a), Append(allowed[a], now), starts)
<1>1. PICK calls \in Seq(Nat) : calls = allowed[a]
  BY DEF MessagesTypeOK
<1>2. PICK more \in Seq(Nat) : more = Append(calls, now)
  BY <1>1, AppendCall DEF MessagesTypeOK
<1>3. PICK n \in Nat : n = Len(calls)
  BY <1>1
<1>4. /\ DOMAIN calls = 1..n /\ DOMAIN more = 1..n + 1 /\ Len(more) = n + 1
      /\ \A i \in 1..n : more[i] = calls[i]
      /\ more[n + 1] = now
      /\ now \in Nat /\ \A i \in 1..n : calls[i] \in Nat
  <2>1. now \in Nat
    BY DEF MessagesTypeOK
  <2>2. DOMAIN more = DOMAIN calls \cup {n + 1} /\ DOMAIN calls = 1..n
    BY <1>1, <1>2, <1>3, <2>1, AppendCall
  <2>3. Len(more) = n + 1 /\ (\A i \in DOMAIN calls : more[i] = calls[i]) /\ more[n + 1] = now
    BY <1>1, <1>2, <1>3, <2>1, AppendCall
  <2> QED
    BY <1>1, <1>3, <2>1, <2>2, <2>3
<1>5. Ordered(calls)
  BY <1>1 DEF WindowInv
<1>6. Ordered(more)
  <2>1. \A i \in 1..n : calls[i] <= now
    BY <1>4, <1>5 DEF Ordered
  <2>2. \A i, j \in 1..n : i <= j => calls[i] <= calls[j]
    BY <1>4, <1>5 DEF Ordered
  <2>3. ASSUME NEW i \in 1..n + 1, NEW j \in 1..n + 1, i <= j PROVE more[i] <= now /\ more[i] <= more[j]
    <3>1. CASE i = n + 1
      BY <3>1, <2>3, <1>3, <1>4
    <3>2. CASE i \in 1..n /\ j = n + 1
      BY <3>2, <2>1, <1>3, <1>4
    <3>3. CASE i \in 1..n /\ j \in 1..n
      BY <3>3, <2>1, <2>2, <2>3, <1>3, <1>4
    <3>4. (i = n + 1 \/ i \in 1..n) /\ (j = n + 1 \/ j \in 1..n)
      BY <1>3
    <3> QED
      BY <3>1, <3>2, <3>3, <3>4
  <2>4. \A i \in DOMAIN more : more[i] <= now
    BY <1>3, <1>4, <2>3
  <2> QED
    BY <1>4, <2>3, <2>4 DEF Ordered
<1>7. PICK starts \in SUBSET Nat : Opens(calls, starts) /\ EntryOf(windows[a], calls, starts)
  BY <1>1 DEF WindowInv
<1>8. PICK entry \in Window : entry = windows[a]
  BY DEF MessagesTypeOK
<1>9. WindowMs \in Nat /\ MaxPerWindow \in Nat /\ MaxPerWindow > 0
  BY LimiterAssumption
<1>10. CASE Expired(a)
  <2>1. PICK new : new = starts \cup {n + 1}
    OBVIOUS
  <2>2. PICK fresh : fresh = [count |-> 1, expiresAt |-> now + WindowMs]
    OBVIOUS
  <2>3. Counted(a) = fresh /\ fresh \in Window /\ fresh # NoEntry
    BY <1>4, <1>9, <1>10, <2>2 DEF Counted, Window, NoEntry
  <2>4. \A s \in starts : s <= n /\ s \in 1..n /\ now - calls[s] >= WindowMs
    <3>1. CASE n = 0
      BY <3>1, <1>4, <1>7 DEF Opens
    <3>2. CASE n # 0
      <4>1. calls # <<>>
        BY <1>3, <3>2
      <4>2. PICK last \in starts :
              (\A t \in starts : t <= last) /\ now >= calls[last] + WindowMs
        BY <1>1, <1>7, <1>10, <4>1, ExpiredWindow
      <4>3. starts \subseteq 1..n
        BY <1>4, <1>7 DEF Opens
      <4>4. ASSUME NEW s \in starts PROVE calls[s] <= calls[last]
        <5>1. s \in DOMAIN calls /\ last \in DOMAIN calls /\ s <= last
          BY <1>4, <4>2, <4>3
        <5> QED
          BY <5>1, <1>5 DEF Ordered
      <4> QED
        BY <1>4, <1>9, <4>2, <4>3, <4>4
    <3> QED
      BY <3>1, <3>2
  <2>5. Opens(more, new)
    <3>1. ASSUME NEW s \in new PROVE s \in DOMAIN more
      <4>1. s = n + 1 \/ s \in 1..n
        BY <2>1, <2>4
      <4> QED
        BY <4>1, <1>3, <1>4
    <3>2. ASSUME NEW s \in new, NEW t \in new, s < t PROVE more[t] - more[s] >= WindowMs
      <4>1. CASE t = n + 1
        BY <4>1, <3>2, <1>4, <2>1, <2>4
      <4>2. CASE t # n + 1
        <5>1. t \in starts /\ s \in starts /\ s \in 1..n /\ t \in 1..n
          BY <4>2, <3>2, <1>3, <2>1, <2>4
        <5>2. calls[t] - calls[s] >= WindowMs
          BY <5>1, <3>2, <1>7 DEF Opens
        <5> QED
          BY <5>1, <5>2, <1>4
      <4> QED
        BY <4>1, <4>2
    <3>3. ASSUME NEW i \in DOMAIN more PROVE \E s \in new : s <= i /\ i < s + MaxPerWindow
      <4>1. CASE i = n + 1
        BY <4>1, <1>3, <1>9, <2>1
      <4>2. CASE i # n + 1
        <5>1. i \in DOMAIN calls
          BY <4>2, <1>3, <1>4
        <5> QED
          BY <5>1, <1>7, <2>1 DEF Opens
      <4> QED
        BY <4>1, <4>2
    <3> QED
      BY <3>1, <3>2, <3>3 DEF Opens
  <2>6. EntryOf(fresh, more, new)
    <3>1. more # <<>>
      BY <1>2, <1>3, <1>4
    <3>2. n + 1 \in new /\ \A t \in new : t <= n + 1
      BY <1>3, <2>1, <2>4
    <3>3. fresh.expiresAt = more[n + 1] + WindowMs /\ fresh.count = Len(more) - (n + 1) + 1
      BY <1>3, <1>4, <2>2
    <3> QED
      BY <3>1, <3>2, <3>3, <2>3 DEF EntryOf
  <2>7. new \in SUBSET Nat
    <3>1. n + 1 \in Nat /\ starts \subseteq Nat
      BY <1>3, <1>7
    <3> QED
      BY <3>1, <2>1
  <2> QED
    BY <1>1, <1>2, <1>6, <2>3, <2>5, <2>6, <2>7
<1>11. CASE ~Expired(a)
  <2>1. entry # NoEntry /\ now < entry.expiresAt /\ entry.count < MaxPerWindow
    <3>1. entry.count \in Nat /\ entry.expiresAt \in Nat
      BY <1>8 DEF Window
    <3> QED
      BY <1>4, <1>8, <1>9, <1>11, <3>1 DEF Expired, Allows
  <2>2. PICK next : next = [count |-> entry.count + 1, expiresAt |-> entry.expiresAt]
    OBVIOUS
  <2>3. Counted(a) = next /\ next \in Window /\ next # NoEntry
    <3>1. entry.count \in Nat /\ entry.expiresAt \in Nat
          /\ entry = [count |-> entry.count, expiresAt |-> entry.expiresAt]
      BY <1>8 DEF Window
    <3>2. [entry EXCEPT !.count = entry.count + 1] = next
      BY <3>1, <2>2
    <3>3. Counted(a) = [entry EXCEPT !.count = entry.count + 1]
      BY <1>8, <1>11 DEF Counted
    <3>4. next \in Window /\ next.count > 0
      BY <3>1, <2>2 DEF Window
    <3> QED
      BY <3>2, <3>3, <3>4 DEF NoEntry
  <2>4. calls # <<>>
    BY <1>7, <1>8, <2>1 DEF EntryOf
  <2>5. PICK last \in starts :
          /\ \A t \in starts : t <= last
          /\ entry.expiresAt = calls[last] + WindowMs /\ entry.count = n - last + 1
    BY <1>3, <1>7, <1>8, <2>1, <2>4 DEF EntryOf
  <2>6. starts \subseteq 1..n
    BY <1>4, <1>7 DEF Opens
  <2>7. Opens(more, starts)
    <3>1. ASSUME NEW s \in starts, NEW t \in starts, s < t PROVE more[t] - more[s] >= WindowMs
      BY <3>1, <1>4, <1>7, <2>6 DEF Opens
    <3>2. ASSUME NEW i \in DOMAIN more PROVE \E s \in starts : s <= i /\ i < s + MaxPerWindow
      <4>1. CASE i = n + 1
        <5>1. last <= i /\ i < last + MaxPerWindow
          BY <4>1, <1>3, <1>9, <2>1, <2>5, <2>6
        <5> QED
          BY <5>1
      <4>2. CASE i # n + 1
        <5>1. i \in DOMAIN calls
          BY <4>2, <1>3, <1>4
        <5> QED
          BY <5>1, <1>7 DEF Opens
      <4> QED
        BY <4>1, <4>2
    <3> QED
      BY <3>1, <3>2, <1>3, <1>4, <2>6 DEF Opens
  <2>8. EntryOf(next, more, starts)
    <3>1. more # <<>>
      BY <1>2, <1>3, <1>4
    <3>2. next.expiresAt = more[last] + WindowMs /\ next.count = Len(more) - last + 1
      BY <1>3, <1>4, <2>2, <2>5, <2>6
    <3> QED
      BY <3>1, <3>2, <2>3, <2>5 DEF EntryOf
  <2> QED
    BY <1>1, <1>2, <1>6, <1>7, <2>3, <2>7, <2>8
<1> QED
  BY <1>10, <1>11

\* Time goes on, and the cleanup drops entries that have expired: the windows
\* that have been are the same.
LEMMA WindowsKept ==
  ASSUME MessagesTypeOK, WindowInv, now' \in Nat, now' >= now, allowed' = allowed,
         \A a \in Actions : \/ windows'[a] = windows[a]
                            \/ windows'[a] = NoEntry /\ (windows[a] = NoEntry \/ now >= windows[a].expiresAt)
  PROVE  WindowInv'
<1> SUFFICES ASSUME NEW a \in Actions
             PROVE  /\ Ordered(allowed[a])'
                    /\ \E starts \in SUBSET Nat :
                         (Opens(allowed[a], starts) /\ EntryOf(windows[a], allowed[a], starts))'
  BY DEF WindowInv
<1>1. now \in Nat /\ allowed[a] \in Seq(Nat)
  BY DEF MessagesTypeOK
<1>2. Ordered(allowed[a])'
  <2>1. Ordered(allowed[a]) /\ \A i \in DOMAIN allowed[a] : allowed[a][i] \in Nat
    BY <1>1 DEF WindowInv
  <2> QED
    BY <1>1, <2>1 DEF Ordered
<1>3. PICK starts \in SUBSET Nat : Opens(allowed[a], starts) /\ EntryOf(windows[a], allowed[a], starts)
  BY DEF WindowInv
<1>4. Opens(allowed[a], starts)'
  BY <1>3 DEF Opens
<1>5. EntryOf(windows[a], allowed[a], starts)'
  <2>1. CASE allowed[a] = <<>>
    BY <2>1, <1>3 DEF EntryOf
  <2>2. CASE allowed[a] # <<>>
    <3>1. PICK s \in starts :
            /\ \A t \in starts : t <= s
            /\ IF windows[a] = NoEntry THEN now >= allowed[a][s] + WindowMs
               ELSE /\ windows[a].expiresAt = allowed[a][s] + WindowMs
                    /\ windows[a].count = Len(allowed[a]) - s + 1
      BY <1>3, <2>2 DEF EntryOf
    <3>2. s \in DOMAIN allowed[a]
      BY <1>3 DEF Opens
    <3>3. allowed[a][s] + WindowMs \in Nat
      BY <1>1, <3>2, LimiterAssumption
    <3>4. IF windows'[a] = NoEntry THEN now' >= allowed[a][s] + WindowMs
          ELSE /\ windows'[a].expiresAt = allowed[a][s] + WindowMs
               /\ windows'[a].count = Len(allowed[a]) - s + 1
      <4>1. CASE windows[a] = NoEntry
        BY <4>1, <1>1, <3>1, <3>3
      <4>2. CASE windows[a] # NoEntry
        BY <4>2, <1>1, <3>1, <3>3
      <4> QED
        BY <4>1, <4>2
    <3> QED
      BY <2>2, <3>1, <3>4 DEF EntryOf
  <2> QED
    BY <2>1, <2>2
<1> QED
  BY <1>2, <1>3, <1>4, <1>5

-----------------------------------------------------------------------------
(* The invariant *)

Inv == MessagesTypeOK /\ BucketInv /\ WindowInv

LEMMA InvInit == Init => Inv
<1> SUFFICES ASSUME Init PROVE Inv
  OBVIOUS
<1>1. MessagesTypeOK
  <2>1. /\ now = 0 /\ rateLimiter = [tokens |-> Full, lastRefill |-> 0]
        /\ windows = [a \in Actions |-> NoEntry]
        /\ routed = <<>> /\ allowed = [a \in Actions |-> <<>>]
    BY DEF Init, Full
  <2>2. NoEntry \in Window /\ <<>> \in Seq(Nat)
    BY DEF NoEntry, Window
  <2> QED
    BY <2>1, <2>2, FullBucket DEF MessagesTypeOK, Bucket
<1>2. BucketInv
  BY DEF Init, BucketInv, Full
<1>3. WindowInv
  <2> SUFFICES ASSUME NEW a \in Actions
               PROVE  /\ Ordered(allowed[a])
                      /\ Opens(allowed[a], {}) /\ EntryOf(windows[a], allowed[a], {})
    BY DEF WindowInv
  <2>1. allowed[a] = <<>> /\ windows[a] = NoEntry
    BY DEF Init
  <2> QED
    BY <2>1 DEF Ordered, Opens, EntryOf
<1> QED
  BY <1>1, <1>2, <1>3 DEF Inv

\* A message that the bucket lets through and that leaves the windows alone.
LEMMA InvConsume ==
  ASSUME Inv, Consume, UNCHANGED <<now, windows, allowed>>
  PROVE  Inv'
<1>1. MessagesTypeOK /\ BucketInv /\ WindowInv
  BY DEF Inv
<1>2. BucketInv'
  BY <1>1, ConsumeBalance
<1>3. WindowInv'
  <2>1. now' \in Nat /\ now' >= now
    BY <1>1 DEF MessagesTypeOK
  <2> QED
    BY <1>1, <2>1, WindowsKept
<1>4. MessagesTypeOK'
  <2>1. /\ rateLimiter' \in Bucket /\ rateLimiter'.tokens <= Full /\ rateLimiter'.lastRefill = now
        /\ routed' = Append(routed, now)
    BY <1>1, ConsumeFacts
  <2>2. routed' \in Seq(Nat)
    BY <1>1, <2>1, AppendCall DEF MessagesTypeOK
  <2> QED
    BY <1>1, <2>1, <2>2 DEF MessagesTypeOK, Full
<1> QED
  BY <1>2, <1>3, <1>4 DEF Inv

LEMMA InvLimiterAllows ==
  ASSUME Inv, NEW a \in Actions, LimiterAllows(a)
  PROVE  Inv'
<1>1. MessagesTypeOK /\ BucketInv /\ WindowInv /\ Consume /\ Allows(a)
  BY DEF Inv, LimiterAllows
<1>2. /\ windows' = [windows EXCEPT ![a] = Counted(a)]
      /\ allowed' = [allowed EXCEPT ![a] = Append(allowed[a], now)]
      /\ now' = now
  BY DEF LimiterAllows
<1>3. PICK entry \in Window : entry = Counted(a)
  BY <1>1, AllowedCall
<1>4. PICK calls \in Seq(Nat) : calls = Append(allowed[a], now)
  BY <1>1, AppendCall DEF MessagesTypeOK
<1>5. /\ windows' \in [Actions -> Window] /\ windows'[a] = entry
      /\ allowed' \in [Actions -> Seq(Nat)] /\ allowed'[a] = calls
      /\ \A c \in Actions \ {a} : windows'[c] = windows[c] /\ allowed'[c] = allowed[c]
  <2>1. windows \in [Actions -> Window] /\ allowed \in [Actions -> Seq(Nat)]
    BY <1>1 DEF MessagesTypeOK
  <2>2. windows' = [windows EXCEPT ![a] = entry] /\ allowed' = [allowed EXCEPT ![a] = calls]
    BY <1>2, <1>3, <1>4
  <2> QED
    BY <1>3, <1>4, <2>1, <2>2
<1>6. BucketInv'
  BY <1>1, ConsumeBalance
<1>7. WindowInv'
  <2> SUFFICES ASSUME NEW c \in Actions
               PROVE  /\ Ordered(allowed[c])'
                      /\ \E starts \in SUBSET Nat :
                           (Opens(allowed[c], starts) /\ EntryOf(windows[c], allowed[c], starts))'
    BY DEF WindowInv
  <2>1. CASE c = a
    <3>1. /\ Ordered(calls)
          /\ \E starts \in SUBSET Nat : Opens(calls, starts) /\ EntryOf(entry, calls, starts)
      BY <1>1, <1>3, <1>4, AllowedCall
    <3>2. Ordered(allowed[a])'
      BY <1>2, <1>5, <3>1 DEF Ordered
    <3>3. ASSUME NEW starts \in SUBSET Nat, Opens(calls, starts), EntryOf(entry, calls, starts)
          PROVE  (Opens(allowed[a], starts) /\ EntryOf(windows[a], allowed[a], starts))'
      BY <1>2, <1>5, <3>3 DEF Opens, EntryOf
    <3> QED
      BY <2>1, <3>1, <3>2, <3>3
  <2>2. CASE c # a
    <3>1. /\ Ordered(allowed[c])
          /\ \E starts \in SUBSET Nat :
               Opens(allowed[c], starts) /\ EntryOf(windows[c], allowed[c], starts)
      BY <1>1 DEF WindowInv
    <3>2. windows'[c] = windows[c] /\ allowed'[c] = allowed[c]
      BY <1>5, <2>2
    <3>3. Ordered(allowed[c])'
      BY <1>2, <3>1, <3>2 DEF Ordered
    <3>4. ASSUME NEW starts \in SUBSET Nat, Opens(allowed[c], starts),
                 EntryOf(windows[c], allowed[c], starts)
          PROVE  (Opens(allowed[c], starts) /\ EntryOf(windows[c], allowed[c], starts))'
      BY <1>2, <3>2, <3>4 DEF Opens, EntryOf
    <3> QED
      BY <3>1, <3>3, <3>4
  <2> QED
    BY <2>1, <2>2
<1>8. MessagesTypeOK'
  <2>1. /\ rateLimiter' \in Bucket /\ rateLimiter'.tokens <= Full /\ rateLimiter'.lastRefill = now
        /\ routed' = Append(routed, now)
    BY <1>1, ConsumeFacts
  <2>2. routed' \in Seq(Nat)
    BY <1>1, <2>1, AppendCall DEF MessagesTypeOK
  <2> QED
    BY <1>1, <1>2, <1>5, <2>1, <2>2 DEF MessagesTypeOK, Full
<1> QED
  BY <1>6, <1>7, <1>8 DEF Inv

LEMMA InvStep == Inv /\ [Next]_vars => Inv'
<1> SUFFICES ASSUME Inv, [Next]_vars PROVE Inv'
  OBVIOUS
<1>1. MessagesTypeOK /\ BucketInv /\ WindowInv /\ now \in Nat
  BY DEF Inv, MessagesTypeOK
<1>2. CASE Throttled
  <2>1. rateLimiter' = Refilled /\ UNCHANGED <<now, windows, routed, allowed>>
    BY <1>2 DEF Throttled
  <2>2. MessagesTypeOK'
    BY <1>1, <2>1, RefilledBalance DEF MessagesTypeOK, Full
  <2>3. BucketInv'
    <3>1. \A i \in DOMAIN routed : routed[i] <= now
      <4>1. ASSUME NEW i \in DOMAIN routed PROVE routed[i] <= now
        BY <1>1 DEF BucketInv, MessagesTypeOK, Bucket
      <4> QED
        BY <4>1
    <3>2. \A i : Demand(i)' = Refilled.tokens + (Len(routed) - i + 1) * Parts
      BY <2>1 DEF Demand
    <3>3. \A i : Supply(i)' = Full + (now - routed[i]) * RefillParts
      BY <1>1, <2>1, RefilledBalance DEF Supply, Full
    <3>4. rateLimiter'.lastRefill = now /\ rateLimiter'.tokens = Refilled.tokens /\ routed' = routed
      BY <1>1, <2>1, RefilledBalance
    <3>5. Full' = Full
      BY DEF Full
    <3> QED
      BY <1>1, <3>1, <3>2, <3>3, <3>4, <3>5, RefilledBalance DEF BucketInv
  <2>4. WindowInv'
    BY <1>1, <2>1, WindowsKept
  <2> QED
    BY <2>2, <2>3, <2>4 DEF Inv
<1>3. CASE Invalid
  BY <1>3, InvConsume DEF Invalid
<1>4. ASSUME NEW a \in Actions, LimiterRefuses(a) PROVE Inv'
  BY <1>4, InvConsume DEF LimiterRefuses
<1>5. ASSUME NEW a \in Actions, LimiterAllows(a) PROVE Inv'
  BY <1>5, InvLimiterAllows
<1>6. CASE Cleanup
  <2>1. /\ windows' = [a \in Actions |-> IF Stale(a) THEN NoEntry ELSE windows[a]]
        /\ UNCHANGED <<now, rateLimiter, routed, allowed>>
    BY <1>6 DEF Cleanup
  <2>2. NoEntry \in Window
    BY DEF NoEntry, Window
  <2>3. MessagesTypeOK'
    BY <1>1, <2>1, <2>2 DEF MessagesTypeOK, Full
  <2>4. BucketInv'
    BY <1>1, <2>1, BucketSame
  <2>5. WindowInv'
    <3>1. \A a \in Actions : \/ windows'[a] = windows[a]
                             \/ windows'[a] = NoEntry /\ now >= windows[a].expiresAt
      BY <2>1 DEF Stale
    <3> QED
      BY <1>1, <2>1, <3>1, WindowsKept
  <2> QED
    BY <2>3, <2>4, <2>5 DEF Inv
<1>7. CASE Reconnect
  <2>1. /\ rateLimiter' = [tokens |-> Full, lastRefill |-> now] /\ routed' = <<>>
        /\ UNCHANGED <<now, windows, allowed>>
    BY <1>7 DEF Reconnect, Full
  <2>2. MessagesTypeOK'
    <3>1. rateLimiter' \in Bucket /\ rateLimiter'.tokens <= Full /\ rateLimiter'.lastRefill <= now
      BY <1>1, <2>1, FullBucket DEF Bucket
    <3> QED
      BY <1>1, <2>1, <3>1 DEF MessagesTypeOK, Full
  <2>3. BucketInv'
    BY <2>1 DEF BucketInv, Full
  <2>4. WindowInv'
    BY <1>1, <2>1, WindowsKept
  <2> QED
    BY <2>2, <2>3, <2>4 DEF Inv
<1>8. CASE Tick
  <2>1. now' = now + 1 /\ UNCHANGED <<rateLimiter, windows, routed, allowed>>
    BY <1>8 DEF Tick
  <2>2. MessagesTypeOK'
    BY <1>1, <2>1 DEF MessagesTypeOK, Full, Bucket
  <2>3. BucketInv'
    BY <1>1, <2>1, BucketSame
  <2>4. WindowInv'
    BY <1>1, <2>1, WindowsKept
  <2> QED
    BY <2>2, <2>3, <2>4 DEF Inv
<1>9. CASE UNCHANGED vars
  <2>1. UNCHANGED <<now, rateLimiter, windows, routed, allowed>>
    BY <1>9 DEF vars
  <2>2. MessagesTypeOK'
    BY <1>1, <2>1 DEF MessagesTypeOK, Full
  <2>3. BucketInv'
    BY <1>1, <2>1, BucketSame
  <2>4. WindowInv'
    BY <1>1, <2>1, WindowsKept
  <2> QED
    BY <2>2, <2>3, <2>4 DEF Inv
<1> QED
  BY <1>2, <1>3, <1>4, <1>5, <1>6, <1>7, <1>8, <1>9 DEF Next

LEMMA Invariant == Spec => []Inv
<1> QED
  BY InvInit, InvStep, PTL DEF Spec

-----------------------------------------------------------------------------
(* What is let through *)

\* No stretch of time shorter than a window holds 2 * MaxPerWindow commands of
\* one action: such a run of commands reaches past a whole window that some
\* command of it opened.
THEOREM BurstsBounded == Spec => []BurstBounded
<1>1. Inv => BurstBounded
  <2> SUFFICES ASSUME Inv, NEW a \in Actions, NEW i \in DOMAIN allowed[a],
                      i + 2 * MaxPerWindow - 1 \in DOMAIN allowed[a]
               PROVE  allowed[a][i + 2 * MaxPerWindow - 1] - allowed[a][i] >= WindowMs
    BY DEF BurstBounded
  <2>1. PICK calls \in Seq(Nat) : calls = allowed[a]
    BY DEF Inv, MessagesTypeOK
  <2>2. PICK j : j = i + 2 * MaxPerWindow - 1
    OBVIOUS
  <2>3. /\ MaxPerWindow \in Nat /\ MaxPerWindow > 0 /\ WindowMs \in Nat
        /\ i \in DOMAIN calls /\ j \in DOMAIN calls
        /\ DOMAIN calls = 1..Len(calls) /\ Len(calls) \in Nat
    BY <2>1, <2>2, LimiterAssumption
  <2>4. Ordered(calls)
    BY <2>1 DEF Inv, WindowInv
  <2>5. PICK starts : Opens(calls, starts)
    BY <2>1 DEF Inv, WindowInv
  <2>6. PICK s \in starts : s <= j /\ j < s + MaxPerWindow
    BY <2>3, <2>5 DEF Opens
  <2>7. s \in DOMAIN calls
    BY <2>5, <2>6 DEF Opens
  <2> DEFINE p == s - 1
  <2>8. p \in DOMAIN calls /\ i + MaxPerWindow <= s
    <3>1. \A x, y, z, max, len \in Nat :
            max > 0 /\ x >= 1 /\ y = x + 2 * max - 1 /\ z <= y /\ y < z + max /\ z <= len
            => z - 1 \in 1..len /\ x + max <= z
      OBVIOUS
    <3>2. i \in Nat /\ i >= 1 /\ j \in Nat /\ s \in Nat /\ s <= Len(calls)
      BY <2>3, <2>7
    <3> QED
      BY <2>2, <2>3, <2>6, <3>1, <3>2
  <2>9. PICK t \in starts : t <= p /\ p < t + MaxPerWindow
    <3> HIDE DEF p
    <3> QED
      BY <2>5, <2>8 DEF Opens
  <2>10. t \in DOMAIN calls /\ i <= t /\ t < s
    <3>1. t \in DOMAIN calls
      BY <2>5, <2>9 DEF Opens
    <3>2. t \in Nat /\ s \in Nat /\ i \in Nat
      BY <2>3, <2>7, <3>1
    <3>3. \A x, y, z, max \in Nat :
            x + max <= z /\ y <= z - 1 /\ z - 1 < y + max => x <= y /\ y < z
      OBVIOUS
    <3> QED
      BY <2>3, <2>8, <2>9, <3>1, <3>2, <3>3
  <2>11. calls[s] - calls[t] >= WindowMs
    BY <2>5, <2>10 DEF Opens
  <2>12. /\ calls[i] <= calls[t] /\ calls[s] <= calls[j]
         /\ calls[i] \in Nat /\ calls[t] \in Nat /\ calls[s] \in Nat /\ calls[j] \in Nat
    BY <2>3, <2>4, <2>6, <2>7, <2>10 DEF Ordered
  <2>13. calls[j] - calls[i] >= WindowMs
    <3>1. \A x1, x2, x3, x4, w \in Nat :
            x1 <= x2 /\ x3 - x2 >= w /\ x3 <= x4 => x4 - x1 >= w
      OBVIOUS
    <3> QED
      BY <2>3, <2>11, <2>12, <3>1
  <2> QED
    BY <2>1, <2>2, <2>13
<1> QED
  BY <1>1, Invariant, PTL

\* A message that is routed keeps the balance for all pairs that end with it.
LEMMA BucketBoundedStep == Inv /\ BucketBounded /\ [Next]_vars => BucketBounded'
<1> SUFFICES ASSUME Inv, BucketBounded, [Next]_vars PROVE BucketBounded'
  OBVIOUS
<1>1. Inv'
  BY InvStep
<1>2. CASE routed' = routed \/ routed' = <<>>
  BY <1>2 DEF BucketBounded
<1>3. CASE Consume
  <2>1. PICK n \in Nat : n = Len(routed) + 1
    BY DEF Inv, MessagesTypeOK
  <2>2. /\ rateLimiter'.tokens \in Nat /\ rateLimiter'.lastRefill = now
        /\ routed' = Append(routed, now) /\ routed \in Seq(Nat) /\ now \in Nat
    BY <1>3, ConsumeFacts DEF Inv, MessagesTypeOK
  <2>3. /\ DOMAIN routed' = 1..n /\ DOMAIN routed = 1..n - 1 /\ Len(routed') = n
        /\ routed'[n] = now
        /\ \A i \in 1..n - 1 : routed'[i] = routed[i]
    <3>1. DOMAIN routed = 1..n - 1 /\ DOMAIN routed' = DOMAIN routed \cup {n} /\ Len(routed') = n
      BY <2>1, <2>2, AppendCall
    <3>2. routed'[n] = now /\ \A i \in DOMAIN routed : routed'[i] = routed[i]
      BY <2>1, <2>2, AppendCall
    <3> QED
      BY <2>1, <3>1, <3>2
  <2>4. ASSUME NEW i \in 1..n, NEW j \in 1..n, i <= j
        PROVE  (j - i + 1) * Parts <= Full + (routed'[j] - routed'[i]) * RefillParts
    <3>1. CASE j = n
      <4>1. Demand(i)' <= Supply(i)'
        BY <1>1, <2>3 DEF Inv, BucketInv
      <4>2. Demand(i)' = rateLimiter'.tokens + (n - i + 1) * Parts
        BY <2>3 DEF Demand
      <4>3. Supply(i)' = Full + (routed'[n] - routed'[i]) * RefillParts
        BY <2>2, <2>3 DEF Supply, Full
      <4>4. (n - i + 1) * Parts \in Int
        <5>1. n - i + 1 \in Int /\ Parts \in Int
          BY <2>1, FullBucket
        <5> QED
          BY <5>1, Distribute
      <4>5. (routed'[n] - routed'[i]) * RefillParts \in Int /\ Full \in Nat
        <5>1. routed' \in Seq(Nat)
          BY <1>1 DEF Inv, MessagesTypeOK
        <5>2. routed'[n] - routed'[i] \in Int /\ RefillParts \in Int
          BY <2>1, <2>2, <2>3, <5>1, FullBucket
        <5> QED
          BY <5>2, Distribute, FullBucket
      <4>6. PICK cost \in Int : cost = (n - i + 1) * Parts
        BY <4>4
      <4>7. PICK grown \in Int : grown = (routed'[n] - routed'[i]) * RefillParts
        BY <4>5
      <4>8. rateLimiter'.tokens + cost <= Full + grown
        BY <4>1, <4>2, <4>3, <4>6, <4>7, Zenon
      <4>9. cost <= Full + grown
        <5>1. cost \in Int /\ grown \in Int /\ Full \in Nat /\ rateLimiter'.tokens \in Nat
          BY <2>2, <4>5, <4>6, <4>7
        <5> QED
          BY <4>8, <5>1
      <4> QED
        BY <3>1, <4>6, <4>7, <4>9
    <3>2. CASE j # n
      <4>1. i \in DOMAIN routed /\ j \in DOMAIN routed
        BY <2>1, <2>3, <2>4, <3>2
      <4>2. (j - i + 1) * Parts <= Full + (routed[j] - routed[i]) * RefillParts
        BY <2>4, <4>1 DEF BucketBounded, Full
      <4> QED
        BY <2>3, <4>1, <4>2
    <3> QED
      BY <3>1, <3>2
  <2> QED
    BY <2>3, <2>4 DEF BucketBounded, Full
<1> QED
  BY <1>2, <1>3 DEF Next, Throttled, Invalid, LimiterRefuses, LimiterAllows, Cleanup, Reconnect,
                    Tick, vars

\* Between two messages of one connection there are at most a full bucket and
\* what was refilled meanwhile.
THEOREM BucketNeverOverdrawn == Spec => []BucketBounded
<1>1. Init => BucketBounded
  BY DEF Init, BucketBounded
<1> QED
  BY <1>1, Invariant, BucketBoundedStep, PTL DEF Spec

-----------------------------------------------------------------------------
(* What is refused *)

\* A full window is one that was opened less than its length ago, by the first
\* of the MaxPerWindow commands in it.
LEMMA RefusalHasCause == Inv => RefusedOnlyWhenBusy
<1> SUFFICES ASSUME Inv, NEW a \in Actions, ~Allows(a)
             PROVE  /\ Len(allowed[a]) - MaxPerWindow + 1 \in DOMAIN allowed[a]
                    /\ allowed[a][Len(allowed[a]) - MaxPerWindow + 1] > now - WindowMs
  BY DEF RefusedOnlyWhenBusy
<1>1. PICK calls \in Seq(Nat) : calls = allowed[a]
  BY DEF Inv, MessagesTypeOK
<1>2. PICK n \in Nat : n = Len(calls) /\ DOMAIN calls = 1..n
  BY <1>1
<1>3. PICK entry \in Window : entry = windows[a]
  BY DEF Inv, MessagesTypeOK
<1>4. PICK starts : Opens(calls, starts) /\ EntryOf(entry, calls, starts)
  BY <1>1, <1>3 DEF Inv, WindowInv
<1>5. /\ MaxPerWindow \in Nat /\ MaxPerWindow > 0 /\ WindowMs \in Nat /\ now \in Nat
      /\ entry.count \in Nat /\ entry.expiresAt \in Nat
  BY <1>3, LimiterAssumption DEF Inv, MessagesTypeOK, Window
<1>6. entry # NoEntry /\ now < entry.expiresAt /\ entry.count >= MaxPerWindow
  BY <1>3, <1>5 DEF Allows, Expired
<1>7. PICK last \in starts :
        /\ \A t \in starts : t <= last
        /\ entry.expiresAt = calls[last] + WindowMs /\ entry.count = n - last + 1
  BY <1>2, <1>4, <1>6 DEF EntryOf
<1>8. n \in DOMAIN calls /\ last \in 1..n
  BY <1>2, <1>4, <1>5, <1>6, <1>7 DEF Opens
<1>9. PICK s \in starts : s <= n /\ n < s + MaxPerWindow
  BY <1>4, <1>8 DEF Opens
<1>10. last = n - MaxPerWindow + 1
  <2>1. s <= last /\ s \in 1..n
    BY <1>2, <1>4, <1>7, <1>9 DEF Opens
  <2> QED
    BY <1>5, <1>6, <1>7, <1>8, <1>9, <2>1
<1>11. calls[last] \in Nat /\ calls[last] > now - WindowMs
  <2>1. calls[last] \in Nat
    BY <1>1, <1>2, <1>8
  <2> QED
    BY <1>5, <1>6, <1>7, <2>1
<1> QED
  BY <1>1, <1>2, <1>8, <1>10, <1>11

\* A bucket without a token has not been full since some message, so that what
\* came after it is more than the bucket gives.
LEMMA ThrottleHasCause == Inv => ThrottledOnlyWhenFast
<1> SUFFICES ASSUME Inv, ~HasToken
             PROVE  \E i \in DOMAIN routed :
                      (Len(routed) - i + 2) * Parts > Full + (now - routed[i]) * RefillParts
  BY DEF ThrottledOnlyWhenFast, Full
<1>1. Refilled.tokens \in Nat /\ Refilled.tokens < Parts
  <2>1. Refilled \in Bucket
    BY RefilledBalance DEF Inv
  <2> QED
    BY <2>1, FullBucket DEF HasToken, Bucket
<1>2. PICK i \in DOMAIN routed :
        Refilled.tokens + (Len(routed) - i + 1) * Parts = Full + (now - routed[i]) * RefillParts
  BY <1>1, RefilledBalance, FullBucket DEF Inv
<1>3. /\ i \in Nat /\ Len(routed) \in Nat /\ routed[i] \in Nat /\ now \in Nat
  BY DEF Inv, MessagesTypeOK
<1>4. (Len(routed) - i + 2) * Parts = (Len(routed) - i + 1) * Parts + Parts
      /\ (Len(routed) - i + 1) * Parts \in Int
  <2>1. Len(routed) - i + 2 = (Len(routed) - i + 1) + 1
    BY <1>3
  <2>2. Len(routed) - i + 1 \in Int /\ 1 \in Int /\ Parts \in Int /\ 1 * Parts = Parts
    BY <1>3, FullBucket
  <2>3. ((Len(routed) - i + 1) + 1) * Parts = (Len(routed) - i + 1) * Parts + 1 * Parts
        /\ (Len(routed) - i + 1) * Parts \in Int
    BY <2>2, Distribute
  <2> QED
    BY <2>1, <2>2, <2>3
<1>5. (now - routed[i]) * RefillParts \in Int
  <2>1. now - routed[i] \in Int /\ RefillParts \in Int
    BY <1>3, FullBucket
  <2> QED
    BY <2>1, Distribute
<1>6. \A n, taken, gained, most \in Int :
        n < Parts /\ n + taken = most + gained => taken + Parts > most + gained
  BY FullBucket
<1>7. Full \in Int /\ Refilled.tokens \in Int
  BY <1>1, FullBucket
<1> QED
  BY <1>1, <1>2, <1>4, <1>5, <1>6, <1>7

\* A player who is slow enough is never refused, by neither limiter.
THEOREM RefusalsHaveCause == Spec => []RefusedWithCause
<1>1. Inv => RefusedWithCause
  BY RefusalHasCause, ThrottleHasCause DEF RefusedWithCause
<1> QED
  BY <1>1, Invariant, PTL
=============================================================================
