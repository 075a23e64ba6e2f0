------------------------- MODULE ProvablyFairProofs -------------------------
(***************************************************************************)
(* Proofs about SeedChain, for chains of any length and any number of      *)
(* them, and about ProvablyFair, which draws a crash point for each of its *)
(* rounds: for any number of hash values, house edges and targets.         *)
(***************************************************************************)
EXTENDS ProvablyFair, FiniteSetTheorems, TLAPS

\* The seed of the current round is the one behind currentIndex.
SeedInv ==
  IF round = "none"
  THEN chain = [terminal |-> 1, currentIndex |-> 0] /\ published = {} /\ revealed = <<>>
  ELSE /\ chain.currentIndex \in 1..ChainLength
       /\ serverSeed = [terminal |-> chain.terminal,
                        hashed |-> ChainLength - chain.currentIndex]

\* What is published is of chains that are used up, or has been hashed at least
\* as often as the seed of the current round, more often while that is open.
PublishedInv ==
  \A s \in published :
    /\ s.terminal <= chain.terminal
    /\ s.terminal = chain.terminal => s.hashed >= ChainLength - chain.currentIndex
    /\ s.terminal = chain.terminal /\ round = "open"
       => s.hashed > ChainLength - chain.currentIndex

\* A seed is linked to that of the round before it.
Linked(seed, before) ==
  \/ Hash(seed) = before
  \/ before.hashed = 0 /\ seed.hashed = ChainLength - 1 /\ seed.terminal # before.terminal

LinkInv ==
  /\ SeedsLinked
  /\ round = "crashed" => revealed # <<>> /\ revealed[Len(revealed)] = serverSeed
  /\ round = "open" /\ revealed # <<>> => Linked(serverSeed, revealed[Len(revealed)])

\* The order in which seeds are used.
Before(a, b) ==
  a.terminal < b.terminal \/ (a.terminal = b.terminal /\ a.hashed > b.hashed)

OrderInv ==
  /\ \A m, n \in DOMAIN revealed : m < n => Before(revealed[m], revealed[n])
  /\ \A m \in DOMAIN revealed :
       Before(revealed[m], serverSeed) \/ (round = "crashed" /\ revealed[m] = serverSeed)

ChainInv == TypeOK /\ SeedInv /\ PublishedInv

-----------------------------------------------------------------------------
\* What one step of StartNewRound does: the next seed of the chain, or the last
\* seed of a new chain (RotatingSeedChainProvider.next, SeedChain).
LEMMA NextSeed ==
  ASSUME TypeOK, StartNewRound
  PROVE  /\ chain' \in [terminal : 1..MaxChains, currentIndex : 1..ChainLength]
         /\ serverSeed' = [terminal |-> chain'.terminal,
                           hashed |-> ChainLength - chain'.currentIndex]
         /\ \/ chain.currentIndex < ChainLength /\ chain'.terminal = chain.terminal
               /\ chain'.currentIndex = chain.currentIndex + 1
            \/ chain.currentIndex = ChainLength /\ chain'.terminal = chain.terminal + 1
               /\ chain'.currentIndex = 1
<1>1. /\ ChainLength \in Nat /\ ChainLength >= 1 /\ MaxChains \in Nat
      /\ chain.terminal \in 1..MaxChains /\ chain.currentIndex \in 0..ChainLength
  BY LengthAssumption DEF TypeOK
<1>2. /\ Rotated.terminal <= MaxChains
      /\ chain' = [Rotated EXCEPT !.currentIndex = @ + 1]
      /\ serverSeed' = Seeds(Rotated.terminal)[Rotated.currentIndex]
  BY DEF StartNewRound
<1>3. CASE chain.currentIndex = ChainLength
  <2>1. Rotated = [terminal |-> chain.terminal + 1, currentIndex |-> 0]
    BY <1>1, <1>3 DEF Rotated, Remaining
  <2>2. chain' = [terminal |-> chain.terminal + 1, currentIndex |-> 1]
    BY <1>2, <2>1
  <2>3. serverSeed' = [terminal |-> chain.terminal + 1, hashed |-> ChainLength - 1]
    BY <1>1, <1>2, <2>1 DEF Seeds
  <2>4. chain.terminal + 1 \in 1..MaxChains
    BY <1>1, <1>2, <2>1
  <2>. QED  BY <1>1, <1>3, <2>2, <2>3, <2>4
<1>4. CASE chain.currentIndex # ChainLength
  <2>1. Rotated = chain
    BY <1>1, <1>4 DEF Rotated, Remaining
  <2>2. chain.currentIndex \in 0..ChainLength - 1
    BY <1>1, <1>4
  <2>3. chain' = [terminal |-> chain.terminal, currentIndex |-> chain.currentIndex + 1]
    BY <1>2, <2>1 DEF TypeOK
  <2>4. serverSeed' = [terminal |-> chain.terminal,
                       hashed |-> ChainLength - 1 - chain.currentIndex]
    BY <1>2, <2>1, <2>2 DEF Seeds
  <2>5. ChainLength - 1 - chain.currentIndex = ChainLength - (chain.currentIndex + 1)
    BY <1>1
  <2>. QED  BY <1>1, <2>2, <2>3, <2>4, <2>5
<1>. QED  BY <1>3, <1>4

\* Type correctness, where the seed of the round is, and what is published.
LEMMA ChainStep == ASSUME ChainInv, [Next]_vars PROVE ChainInv'
<1>1. ChainLength \in Nat /\ ChainLength >= 1 /\ MaxChains \in Nat
  BY LengthAssumption
<1>2. CASE StartNewRound
  <2>1. /\ chain' \in [terminal : 1..MaxChains, currentIndex : 1..ChainLength]
        /\ serverSeed' = [terminal |-> chain'.terminal,
                          hashed |-> ChainLength - chain'.currentIndex]
        /\ \/ chain.currentIndex < ChainLength /\ chain'.terminal = chain.terminal
              /\ chain'.currentIndex = chain.currentIndex + 1
           \/ chain.currentIndex = ChainLength /\ chain'.terminal = chain.terminal + 1
              /\ chain'.currentIndex = 1
    BY <1>2, NextSeed DEF ChainInv
  <2>2. /\ round' = "open" /\ revealed' = revealed
        /\ published' = published \cup {Hash(serverSeed')}
    BY <1>2 DEF StartNewRound
  <2>3. Hash(serverSeed') = [terminal |-> chain'.terminal,
                             hashed |-> ChainLength - chain'.currentIndex + 1]
    BY <2>1 DEF Hash
  <2>4. serverSeed' \in Seed /\ Hash(serverSeed') \in Seed
    BY <1>1, <2>1, <2>3 DEF Seed
  <2>5. TypeOK'
    BY <1>1, <2>1, <2>2, <2>4 DEF ChainInv, TypeOK
  <2>6. SeedInv'
    BY <2>1, <2>2 DEF SeedInv
  <2>7. PublishedInv'
    <3> SUFFICES ASSUME NEW s \in published'
                 PROVE  /\ s.terminal <= chain'.terminal
                        /\ s.terminal = chain'.terminal
                           => s.hashed > ChainLength - chain'.currentIndex
      BY <1>1, <2>1, <2>5 DEF PublishedInv, TypeOK, Seed
    <3>1. CASE s = Hash(serverSeed')
      BY <1>1, <2>1, <2>3, <3>1
    <3>2. CASE s \in published
      <4>1. /\ s \in Seed /\ chain.terminal \in 1..MaxChains
            /\ chain.currentIndex \in 0..ChainLength
        BY <3>2 DEF ChainInv, TypeOK
      <4>2. /\ s.terminal <= chain.terminal
            /\ s.terminal = chain.terminal => s.hashed >= ChainLength - chain.currentIndex
        BY <3>2 DEF ChainInv, PublishedInv
      <4>. QED  BY <1>1, <2>1, <4>1, <4>2 DEF Seed
    <3>. QED  BY <2>2, <3>1, <3>2
  <2>. QED  BY <2>5, <2>6, <2>7 DEF ChainInv
<1>3. CASE Crash
  <2>1. /\ round = "open" /\ round' = "crashed"
        /\ published' = published \cup {serverSeed}
        /\ revealed' = Append(revealed, serverSeed)
        /\ chain' = chain /\ serverSeed' = serverSeed
    BY <1>3 DEF Crash
  <2>2. serverSeed \in Seed /\ revealed \in Seq(Seed)
    BY DEF ChainInv, TypeOK
  <2>3. revealed' \in Seq(Seed)
    BY <2>1, <2>2
  <2>4. TypeOK'
    BY <2>1, <2>2, <2>3 DEF ChainInv, TypeOK
  <2>5. /\ chain.currentIndex \in 1..ChainLength
        /\ serverSeed = [terminal |-> chain.terminal,
                         hashed |-> ChainLength - chain.currentIndex]
    BY <2>1 DEF ChainInv, SeedInv
  <2>6. SeedInv'
    BY <2>1, <2>5 DEF SeedInv
  <2>7. chain.terminal \in 1..MaxChains
    BY DEF ChainInv, TypeOK
  <2>8. PublishedInv'
    <3> SUFFICES ASSUME NEW s \in published'
                 PROVE  /\ s.terminal <= chain.terminal
                        /\ s.terminal = chain.terminal
                           => s.hashed >= ChainLength - chain.currentIndex
      BY <2>1 DEF PublishedInv
    <3>1. CASE s = serverSeed
      BY <1>1, <2>5, <2>7, <3>1
    <3>2. CASE s \in published
      BY <3>2 DEF ChainInv, PublishedInv
    <3>. QED  BY <2>1, <3>1, <3>2
  <2>. QED  BY <2>4, <2>6, <2>8 DEF ChainInv
<1>4. CASE UNCHANGED vars
  BY <1>4 DEF ChainInv, TypeOK, SeedInv, PublishedInv, vars
<1>. QED  BY <1>2, <1>3, <1>4 DEF Next

LEMMA ChainInit == ASSUME Init PROVE ChainInv
<1>1. ChainLength \in Nat /\ MaxChains \in Nat /\ MaxChains >= 1
  BY LengthAssumption
<1>2. TypeOK
  BY <1>1 DEF Init, TypeOK, Seed
<1>. QED  BY <1>2 DEF Init, ChainInv, SeedInv, PublishedInv

LEMMA TypeCorrect == Spec => []TypeOK
<1>1. ChainInv => TypeOK
  BY DEF ChainInv
<1>. QED  BY ChainInit, ChainStep, <1>1, PTL DEF Spec

\* For chains of any length: nobody can compute the seed of the open round, nor
\* any that the chain still has to give, from all that was published before
\* (SeedChain, RotatingSeedChainProvider, startNewRound, onTick).
THEOREM SecretUntilCrash == Spec => []SeedsSecret
<1>1. ASSUME ChainInv PROVE SeedsSecret
  <2>1. /\ ChainLength \in Nat /\ chain.terminal \in 1..MaxChains
        /\ chain.currentIndex \in 0..ChainLength /\ published \subseteq Seed
    BY <1>1, LengthAssumption DEF ChainInv, TypeOK
  <2>2. ASSUME round = "open" PROVE ~Known(serverSeed)
    <3>1. serverSeed = [terminal |-> chain.terminal,
                        hashed |-> ChainLength - chain.currentIndex]
      BY <1>1, <2>2 DEF ChainInv, SeedInv
    <3>. QED  BY <1>1, <2>1, <2>2, <3>1 DEF Known, ChainInv, PublishedInv, Seed
  <2>3. ASSUME NEW i \in chain.currentIndex..ChainLength - 1
        PROVE  ~Known(Seeds(chain.terminal)[i])
    <3>1. i \in 0..ChainLength - 1
      BY <2>1
    <3>2. Seeds(chain.terminal)[i] = [terminal |-> chain.terminal,
                                      hashed |-> ChainLength - 1 - i]
      BY <3>1 DEF Seeds
    <3>3. ChainLength - 1 - i < ChainLength - chain.currentIndex
      BY <2>1
    <3>4. ASSUME NEW s \in published, s.terminal = chain.terminal
          PROVE  ~(s.hashed <= ChainLength - 1 - i)
      <4>1. s.hashed >= ChainLength - chain.currentIndex /\ s.hashed \in Nat
        BY <1>1, <2>1, <3>4 DEF ChainInv, PublishedInv, Seed
      <4>. QED  BY <2>1, <3>3, <4>1
    <3>. QED  BY <3>2, <3>4 DEF Known
  <2>. QED  BY <2>2, <2>3 DEF SeedsSecret
<1>. QED  BY ChainInit, ChainStep, <1>1, PTL DEF Spec

-----------------------------------------------------------------------------
\* The rounds use the seeds in turn: the current one that at currentIndex of the
\* chain in use, and the n-th crashed round the n-th seed of all, chain by chain
\* from the first to the terminal one.  So none is skipped, used twice or taken
\* from elsewhere.
RoundsPlayed == Len(revealed) + (IF round = "open" THEN 1 ELSE 0)

SeedsInTurn ==
  /\ round # "none" =>
       /\ serverSeed = Seeds(chain.terminal)[chain.currentIndex - 1]
       /\ RoundsPlayed = ChainLength * (chain.terminal - 1) + chain.currentIndex
  /\ \A n \in DOMAIN revealed :
       \E t \in 1..chain.terminal : \E i \in 0..ChainLength - 1 :
         n = ChainLength * (t - 1) + i + 1 /\ revealed[n] = Seeds(t)[i]

\* The seed at currentIndex, as SeedInv writes it.
LEMMA CurrentSeed ==
  ASSUME TypeOK, SeedInv, round # "none"
  PROVE  /\ chain.currentIndex - 1 \in 0..ChainLength - 1
         /\ serverSeed = Seeds(chain.terminal)[chain.currentIndex - 1]
<1>1. /\ ChainLength \in Nat /\ chain.currentIndex \in 1..ChainLength
      /\ serverSeed = [terminal |-> chain.terminal, hashed |-> ChainLength - chain.currentIndex]
  BY LengthAssumption DEF SeedInv
<1>2. chain.currentIndex - 1 \in 0..ChainLength - 1
  BY <1>1
<1>3. Seeds(chain.terminal)[chain.currentIndex - 1] =
        [terminal |-> chain.terminal, hashed |-> ChainLength - 1 - (chain.currentIndex - 1)]
  BY <1>2 DEF Seeds
<1>4. ChainLength - 1 - (chain.currentIndex - 1) = ChainLength - chain.currentIndex
  BY <1>1
<1>. QED  BY <1>1, <1>2, <1>3, <1>4

LEMMA CurrentSeedNext ==
  TypeOK' /\ SeedInv' /\ round' # "none"
  => serverSeed' = Seeds(chain'.terminal)[chain'.currentIndex - 1]
<1>1. TypeOK /\ SeedInv /\ round # "none"
      => serverSeed = Seeds(chain.terminal)[chain.currentIndex - 1]
  BY CurrentSeed
<1>2. (TypeOK /\ SeedInv /\ round # "none"
       => serverSeed = Seeds(chain.terminal)[chain.currentIndex - 1])'
  BY <1>1, PTL
<1>. QED  BY <1>2 DEF Seeds

LEMMA TurnStep == ASSUME ChainInv, SeedsInTurn, [Next]_vars PROVE SeedsInTurn'
<1>1. /\ ChainLength \in Nat /\ ChainLength >= 1 /\ TypeOK /\ revealed \in Seq(Seed)
      /\ DOMAIN revealed = 1..Len(revealed) /\ Len(revealed) \in Nat
      /\ chain.terminal \in Nat /\ chain.terminal >= 1 /\ chain.currentIndex \in 0..ChainLength
  BY LengthAssumption DEF ChainInv, TypeOK
<1>2. CASE StartNewRound
  <2>1. /\ round # "open" /\ round' = "open" /\ revealed' = revealed
    BY <1>2 DEF StartNewRound
  <2>2. /\ chain' \in [terminal : 1..MaxChains, currentIndex : 1..ChainLength]
        /\ \/ chain.currentIndex < ChainLength /\ chain'.terminal = chain.terminal
              /\ chain'.currentIndex = chain.currentIndex + 1
           \/ chain.currentIndex = ChainLength /\ chain'.terminal = chain.terminal + 1
              /\ chain'.currentIndex = 1
    BY <1>1, <1>2, NextSeed
  <2>3. serverSeed' = Seeds(chain'.terminal)[chain'.currentIndex - 1]
    BY <1>2, <2>1, ChainStep, CurrentSeedNext DEF ChainInv, Next
  <2>4. Len(revealed) = ChainLength * (chain.terminal - 1) + chain.currentIndex
    <3>1. CASE round = "none"
      <4>1. chain.terminal = 1 /\ chain.currentIndex = 0 /\ Len(revealed) = 0
        BY <3>1 DEF ChainInv, SeedInv
      <4>. QED  BY <1>1, <4>1
    <3>2. CASE round # "none"
      BY <1>1, <2>1, <3>2 DEF SeedsInTurn, RoundsPlayed
    <3>. QED  BY <3>1, <3>2
  <2>5. Len(revealed) + 1 = ChainLength * (chain'.terminal - 1) + chain'.currentIndex
    <3>1. CASE chain'.terminal = chain.terminal /\ chain'.currentIndex = chain.currentIndex + 1
      <4>1. PICK c \in Int : c = ChainLength * (chain.terminal - 1)
        BY <1>1
      <4>. QED  BY <1>1, <2>4, <3>1, <4>1
    <3>2. CASE chain.currentIndex = ChainLength /\ chain'.terminal = chain.terminal + 1
               /\ chain'.currentIndex = 1
      <4>1. PICK t \in Nat : t = chain.terminal - 1
        BY <1>1
      <4>2. ChainLength * (t + 1) = ChainLength * t + ChainLength /\ ChainLength * t \in Nat
        BY <1>1
      <4>3. Len(revealed) = ChainLength * t + ChainLength
        BY <2>4, <3>2, <4>1
      <4>4. chain'.terminal - 1 = t + 1
        BY <1>1, <3>2, <4>1
      <4>. QED  BY <1>1, <3>2, <4>2, <4>3, <4>4
    <3>. QED  BY <2>2, <3>1, <3>2
  <2>6. \A n \in DOMAIN revealed :
          \E t \in 1..chain'.terminal : \E i \in 0..ChainLength - 1 :
            n = ChainLength * (t - 1) + i + 1 /\ revealed[n] = Seeds(t)[i]
    <3>1. 1..chain.terminal \subseteq 1..chain'.terminal
      BY <1>1, <2>2
    <3>. QED  BY <3>1 DEF SeedsInTurn
  <2>. QED  BY <2>1, <2>3, <2>5, <2>6 DEF SeedsInTurn, RoundsPlayed, Seeds
<1>3. CASE Crash
  <2>1. /\ round = "open" /\ round' = "crashed" /\ revealed' = Append(revealed, serverSeed)
        /\ chain' = chain /\ serverSeed' = serverSeed /\ serverSeed \in Seed
    BY <1>1, <1>3 DEF Crash, TypeOK
  <2>2. /\ Len(revealed') = Len(revealed) + 1 /\ DOMAIN revealed' = 1..Len(revealed) + 1
        /\ revealed'[Len(revealed) + 1] = serverSeed
        /\ \A n \in 1..Len(revealed) : revealed'[n] = revealed[n]
    BY <1>1, <2>1
  <2>3. /\ serverSeed = Seeds(chain.terminal)[chain.currentIndex - 1]
        /\ Len(revealed) + 1 = ChainLength * (chain.terminal - 1) + chain.currentIndex
        /\ chain.currentIndex - 1 \in 0..ChainLength - 1
    BY <2>1, CurrentSeed DEF SeedsInTurn, RoundsPlayed, ChainInv
  <2>4. ASSUME NEW n \in DOMAIN revealed'
        PROVE  \E t \in 1..chain.terminal : \E i \in 0..ChainLength - 1 :
                 n = ChainLength * (t - 1) + i + 1 /\ revealed'[n] = Seeds(t)[i]
    <3>1. CASE n = Len(revealed) + 1
      <4>1. PICK index : index = chain.currentIndex
        OBVIOUS
      <4>2. PICK last : last = chain.terminal
        OBVIOUS
      <4>3. /\ index \in 0..ChainLength /\ index - 1 \in 0..ChainLength - 1 /\ last \in 1..last
            /\ n = ChainLength * (last - 1) + index /\ serverSeed = Seeds(last)[index - 1]
        BY <1>1, <2>3, <3>1, <4>1, <4>2
      <4>4. n = ChainLength * (last - 1) + (index - 1) + 1
        BY <1>1, <4>3
      <4>5. revealed'[n] = Seeds(last)[index - 1]
        BY <2>2, <3>1, <4>3
      <4>. QED  BY <4>2, <4>3, <4>4, <4>5
    <3>2. CASE n # Len(revealed) + 1
      <4>1. n \in 1..Len(revealed)
        BY <1>1, <2>2, <3>2
      <4>. QED  BY <1>1, <2>2, <4>1 DEF SeedsInTurn
    <3>. QED  BY <3>1, <3>2
  <2>5. RoundsPlayed' = ChainLength * (chain'.terminal - 1) + chain'.currentIndex
    BY <1>1, <2>1, <2>2, <2>3 DEF RoundsPlayed
  <2>6. serverSeed' = Seeds(chain'.terminal)[chain'.currentIndex - 1]
    BY <2>1, <2>3
  <2>. QED  BY <2>1, <2>4, <2>5, <2>6 DEF SeedsInTurn, Seeds
<1>4. CASE UNCHANGED vars
  BY <1>4 DEF SeedsInTurn, RoundsPlayed, Seeds, vars
<1>. QED  BY <1>2, <1>3, <1>4 DEF Next

\* For chains of any length and any number of them: each round is played with
\* the next seed of the chain in use, each chain is used up before the next one
\* begins, and no seed is left out (SeedChain.next,
\* RotatingSeedChainProvider.next).
THEOREM SeedsUsedInTurn == Spec => []SeedsInTurn
<1>1. ASSUME Init PROVE SeedsInTurn
  BY <1>1 DEF Init, SeedsInTurn
<1>. QED  BY ChainInit, ChainStep, TurnStep, <1>1, PTL DEF Spec

-----------------------------------------------------------------------------
LEMMA LinkStep == ASSUME ChainInv, LinkInv, [Next]_vars PROVE LinkInv'
<1>1. /\ ChainLength \in Nat /\ ChainLength >= 1 /\ MaxChains \in Nat
      /\ revealed \in Seq(Seed) /\ chain.terminal \in 1..MaxChains
      /\ chain.currentIndex \in 0..ChainLength
  BY LengthAssumption DEF ChainInv, TypeOK
<1>2. CASE StartNewRound
  <2>1. /\ round # "open" /\ round' = "open" /\ revealed' = revealed
    BY <1>2 DEF StartNewRound
  <2>2. SeedsLinked'
    BY <2>1 DEF LinkInv, SeedsLinked, Hash
  <2>3. ASSUME revealed # <<>> PROVE Linked(serverSeed', revealed[Len(revealed)])
    <3>1. round = "crashed"
      BY <2>1, <2>3 DEF ChainInv, TypeOK, SeedInv
    <3>2. revealed[Len(revealed)] = [terminal |-> chain.terminal,
                                     hashed |-> ChainLength - chain.currentIndex]
      BY <3>1 DEF LinkInv, ChainInv, SeedInv
    <3>3. /\ serverSeed' = [terminal |-> chain'.terminal,
                            hashed |-> ChainLength - chain'.currentIndex]
          /\ \/ chain.currentIndex < ChainLength /\ chain'.terminal = chain.terminal
                /\ chain'.currentIndex = chain.currentIndex + 1
             \/ chain.currentIndex = ChainLength /\ chain'.terminal = chain.terminal + 1
                /\ chain'.currentIndex = 1
      BY <1>2, NextSeed DEF ChainInv
    <3>4. CASE chain'.terminal = chain.terminal /\ chain'.currentIndex = chain.currentIndex + 1
      <4>1. Hash(serverSeed') = [terminal |-> chain.terminal,
                                 hashed |-> ChainLength - (chain.currentIndex + 1) + 1]
        BY <3>3, <3>4 DEF Hash
      <4>2. ChainLength - (chain.currentIndex + 1) + 1 = ChainLength - chain.currentIndex
        BY <1>1
      <4>. QED  BY <3>2, <4>1, <4>2 DEF Linked
    <3>5. CASE chain.currentIndex = ChainLength /\ chain'.terminal = chain.terminal + 1
               /\ chain'.currentIndex = 1
      BY <1>1, <3>2, <3>3, <3>5 DEF Linked
    <3>. QED  BY <3>3, <3>4, <3>5
  <2>. QED  BY <2>1, <2>2, <2>3 DEF LinkInv, Linked, Hash
<1>3. CASE Crash
  <2>1. /\ round = "open" /\ round' = "crashed" /\ serverSeed' = serverSeed
        /\ revealed' = Append(revealed, serverSeed)
    BY <1>3 DEF Crash
  <2>2. serverSeed \in Seed
    BY DEF ChainInv, TypeOK
  <2>3. /\ Len(revealed') = Len(revealed) + 1
        /\ revealed'[Len(revealed) + 1] = serverSeed
        /\ \A n \in 1..Len(revealed) : revealed'[n] = revealed[n]
    BY <1>1, <2>1, <2>2
  <2>4. ASSUME NEW n \in 2..Len(revealed') PROVE Linked(revealed'[n], revealed'[n - 1])
    <3>1. CASE n = Len(revealed) + 1
      <4>1. revealed # <<>> /\ n - 1 = Len(revealed)
        BY <1>1, <3>1
      <4>2. Linked(serverSeed, revealed[Len(revealed)])
        BY <2>1, <4>1 DEF LinkInv
      <4>3. revealed'[n] = serverSeed /\ revealed'[n - 1] = revealed[Len(revealed)]
        BY <1>1, <2>3, <3>1, <4>1
      <4>. QED  BY <4>2, <4>3
    <3>2. CASE n # Len(revealed) + 1
      <4>1. n \in 2..Len(revealed) /\ n \in 1..Len(revealed) /\ n - 1 \in 1..Len(revealed)
        BY <1>1, <2>3, <3>2
      <4>2. Linked(revealed[n], revealed[n - 1])
        BY <4>1 DEF LinkInv, SeedsLinked, Linked
      <4>. QED  BY <2>3, <4>1, <4>2
    <3>. QED  BY <3>1, <3>2
  <2>5. SeedsLinked'
    BY <2>4 DEF SeedsLinked, Linked, Hash
  <2>6. revealed' # <<>> /\ revealed'[Len(revealed')] = serverSeed'
    BY <1>1, <2>1, <2>2, <2>3
  <2>. QED  BY <2>1, <2>5, <2>6 DEF LinkInv
<1>4. CASE UNCHANGED vars
  BY <1>4 DEF LinkInv, SeedsLinked, Linked, Hash, vars
<1>. QED  BY <1>2, <1>3, <1>4 DEF Next

\* For chains of any length: the seed of a round hashes to that of the round
\* before it, except where a new chain begins (SeedChain.verify).
THEOREM ChainVerifies == Spec => []SeedsLinked
<1>1. ASSUME Init PROVE LinkInv
  BY <1>1 DEF Init, LinkInv, SeedsLinked
<1>2. LinkInv => SeedsLinked
  BY DEF LinkInv
<1>. QED  BY ChainInit, ChainStep, LinkStep, <1>1, <1>2, PTL DEF Spec

-----------------------------------------------------------------------------
LEMMA OrderStep == ASSUME ChainInv, LinkInv, OrderInv, [Next]_vars PROVE OrderInv'
<1>1. /\ ChainLength \in Nat /\ ChainLength >= 1 /\ MaxChains \in Nat
      /\ revealed \in Seq(Seed) /\ chain.terminal \in 1..MaxChains
      /\ chain.currentIndex \in 0..ChainLength
  BY LengthAssumption DEF ChainInv, TypeOK
<1>2. CASE StartNewRound
  <2>1. round # "open" /\ revealed' = revealed
    BY <1>2 DEF StartNewRound
  <2>2. ASSUME NEW m \in DOMAIN revealed PROVE Before(revealed[m], serverSeed')
    <3>1. round = "crashed" /\ revealed[m] \in Seed
      BY <1>1, <2>1 DEF ChainInv, TypeOK, SeedInv
    <3>2. serverSeed = [terminal |-> chain.terminal,
                        hashed |-> ChainLength - chain.currentIndex]
      BY <3>1 DEF ChainInv, SeedInv
    <3>3. /\ serverSeed' = [terminal |-> chain'.terminal,
                            hashed |-> ChainLength - chain'.currentIndex]
          /\ \/ chain.currentIndex < ChainLength /\ chain'.terminal = chain.terminal
                /\ chain'.currentIndex = chain.currentIndex + 1
             \/ chain.currentIndex = ChainLength /\ chain'.terminal = chain.terminal + 1
                /\ chain'.currentIndex = 1
      BY <1>2, NextSeed DEF ChainInv
    <3>4. Before(revealed[m], serverSeed) \/ revealed[m] = serverSeed
      BY DEF OrderInv
    <3>5. Before(serverSeed, serverSeed')
      <4>1. CASE chain'.terminal = chain.terminal /\ chain'.currentIndex = chain.currentIndex + 1
        <5>1. ChainLength - chain.currentIndex > ChainLength - (chain.currentIndex + 1)
          BY <1>1
        <5>. QED  BY <3>2, <3>3, <4>1, <5>1 DEF Before
      <4>2. CASE chain'.terminal = chain.terminal + 1
        BY <1>1, <3>2, <3>3, <4>2 DEF Before
      <4>. QED  BY <3>3, <4>1, <4>2
    <3>6. serverSeed \in Seed /\ serverSeed' \in Seed
      BY <1>2, ChainStep DEF ChainInv, TypeOK, Next
    <3>7. ASSUME Before(revealed[m], serverSeed) PROVE Before(revealed[m], serverSeed')
      BY <3>1, <3>5, <3>6, <3>7 DEF Before, Seed
    <3>. QED  BY <3>4, <3>5, <3>7
  <2>. QED  BY <2>1, <2>2 DEF OrderInv, Before
<1>3. CASE Crash
  <2>1. /\ round = "open" /\ round' = "crashed" /\ serverSeed' = serverSeed
        /\ revealed' = Append(revealed, serverSeed)
    BY <1>3 DEF Crash
  <2>2. serverSeed \in Seed
    BY DEF ChainInv, TypeOK
  <2>3. /\ DOMAIN revealed' = 1..Len(revealed) + 1 /\ DOMAIN revealed = 1..Len(revealed)
        /\ revealed'[Len(revealed) + 1] = serverSeed
        /\ \A n \in 1..Len(revealed) : revealed'[n] = revealed[n]
    BY <1>1, <2>1, <2>2
  <2>4. \A m \in 1..Len(revealed) : Before(revealed'[m], serverSeed)
    BY <2>1, <2>3 DEF OrderInv
  <2>5. ASSUME NEW m \in DOMAIN revealed', NEW n \in DOMAIN revealed', m < n
        PROVE  Before(revealed'[m], revealed'[n])
    <3>1. m \in 1..Len(revealed)
      BY <1>1, <2>3, <2>5
    <3>2. CASE n = Len(revealed) + 1
      BY <2>3, <2>4, <3>1, <3>2
    <3>3. CASE n # Len(revealed) + 1
      <4>1. n \in 1..Len(revealed)
        BY <1>1, <2>3, <3>3
      <4>2. Before(revealed[m], revealed[n])
        BY <2>3, <2>5, <3>1, <4>1 DEF OrderInv
      <4>. QED  BY <2>3, <3>1, <4>1, <4>2
    <3>. QED  BY <3>2, <3>3
  <2>6. ASSUME NEW m \in DOMAIN revealed'
        PROVE  Before(revealed'[m], serverSeed') \/ revealed'[m] = serverSeed'
    <3>1. CASE m = Len(revealed) + 1
      BY <2>1, <2>3, <3>1
    <3>2. CASE m # Len(revealed) + 1
      <4>1. m \in 1..Len(revealed)
        BY <1>1, <2>3, <3>2
      <4>. QED  BY <2>1, <2>4, <4>1
    <3>. QED  BY <3>1, <3>2
  <2>. QED  BY <2>1, <2>5, <2>6 DEF OrderInv, Before
<1>4. CASE UNCHANGED vars
  BY <1>4 DEF OrderInv, Before, vars
<1>. QED  BY <1>2, <1>3, <1>4 DEF Next

\* For chains of any length: no two rounds have the same seed, across chains too
\* (RotatingSeedChainProvider.next).
THEOREM NoSeedTwice == Spec => []SeedsFresh
<1>1. ASSUME Init PROVE LinkInv /\ OrderInv
  BY <1>1 DEF Init, LinkInv, SeedsLinked, OrderInv
<1>2. ASSUME ChainInv, OrderInv PROVE SeedsFresh
  <2> SUFFICES ASSUME NEW m \in DOMAIN revealed, NEW n \in DOMAIN revealed,
                      revealed[m] = revealed[n], m # n
               PROVE  FALSE
    BY DEF SeedsFresh
  <2>1. m \in Nat /\ n \in Nat /\ revealed[m] \in Seed
    BY <1>2 DEF ChainInv, TypeOK
  <2>2. Before(revealed[m], revealed[n]) \/ Before(revealed[n], revealed[m])
    BY <1>2, <2>1 DEF OrderInv
  <2>. QED  BY <2>1, <2>2 DEF Before, Seed
<1>. QED  BY ChainInit, ChainStep, LinkStep, OrderStep, <1>1, <1>2, PTL DEF Spec

-----------------------------------------------------------------------------
(* The crash point *)

\* What the quotient says about the product.
LEMMA DivFacts ==
  ASSUME NEW a \in Nat, NEW b \in Nat, b > 0
  PROVE  /\ a \div b \in Nat
         /\ b * (a \div b) <= a
         /\ a < b * (a \div b) + b
OBVIOUS

LEMMA ProductFacts ==
  ASSUME NEW a \in Nat, NEW b \in Nat, NEW c \in Nat
  PROVE  /\ a * b \in Nat
         /\ a * (b + c) = a * b + a * c
         /\ (b + c) * a = b * a + c * a
         /\ a * b = b * a
         /\ b <= c => a * b <= a * c
OBVIOUS

\* A quotient of at least x is of a number that has the divisor x times in it,
\* and the other way round.
LEMMA QuotientAtLeast ==
  ASSUME NEW a \in Nat, NEW b \in Nat, b > 0, NEW x \in Nat
  PROVE  a \div b >= x <=> a >= b * x
<1>1. PICK q \in Nat : q = a \div b
  BY DivFacts
<1>2. b * q <= a /\ a < b * q + b /\ b * q \in Nat /\ b * x \in Nat
  BY <1>1, DivFacts, ProductFacts
<1>3. ASSUME q >= x PROVE a >= b * x
  <2>1. b * x <= b * q
    BY <1>3, ProductFacts
  <2> QED
    BY <1>2, <2>1
<1>4. ASSUME a >= b * x PROVE q >= x
  <2> SUFFICES ASSUME q < x PROVE FALSE
    OBVIOUS
  <2>1. q + 1 \in Nat /\ q + 1 <= x
    OBVIOUS
  <2>2. b * (q + 1) <= b * x
    BY <2>1, ProductFacts
  <2>3. b * (q + 1) = b * q + b * 1 /\ b * 1 = b
    BY ProductFacts
  <2>4. b * (q + 1) = b * q + b
    BY <2>3
  <2> QED
    BY <1>2, <1>4, <2>2, <2>4
<1> QED
  BY <1>1, <1>3, <1>4

\* The formula of the crash point: 1.00 and what a share of E - n leaves.
LEMMA ResultBounds ==
  ASSUME NEW n \in 0..E - 1
  PROVE  /\ (100 * E - n) \div (E - n) \in Nat
         /\ (100 * E - n) \div (E - n) <= 99 * E + 1
<1>1. E \in Nat /\ E > 0
  BY RangeAssumption
<1>2. PICK d \in Nat : d = E - n /\ d > 0
  BY <1>1
<1>3. PICK a \in Nat : a = 99 * E
  BY <1>1
<1>4. 100 * E - n = a + d
  BY <1>1, <1>2, <1>3
<1>5. PICK q \in Nat : q = (a + d) \div d
  BY <1>2, DivFacts
<1>6. d * q <= a + d
  BY <1>2, <1>5, DivFacts
<1>7. q <= a + 1
  <2> SUFFICES ASSUME q > a + 1 PROVE FALSE
    OBVIOUS
  <2>1. d * (a + 2) <= d * q /\ d * (a + 2) = d * a + d * 2 /\ d * a \in Nat
    BY ProductFacts
  <2>2. PICK e \in Nat : d = 1 + e
    <3>1. d - 1 \in Nat /\ d = 1 + (d - 1)
      BY <1>2
    <3> QED
      BY <3>1
  <2>3. (1 + e) * a = 1 * a + e * a /\ e * a \in Nat
    BY ProductFacts
  <2>4. d * a >= a
    BY <2>2, <2>3
  <2> QED
    BY <1>2, <1>6, <2>1, <2>4
<1> QED
  BY <1>2, <1>3, <1>4, <1>5, <1>7

\* Every crash point is one that CrashPoint.of accepts.
LEMMA CrashPointRange ==
  ASSUME NEW n \in 0..E - 1
  PROVE  CrashPoint(n) \in 100..99 * E + 1
<1>1. PICK r \in Nat : r = (100 * E - n) \div (E - n) /\ r <= 99 * E + 1
  BY ResultBounds
<1>2. CrashPoint(n) = IF InstantCrash(n) \/ r < 100 THEN 100 ELSE r
  BY <1>1 DEF CrashPoint
<1>3. 99 * E + 1 \in Nat /\ 99 * E + 1 >= 100
  BY RangeAssumption
<1> QED
  BY <1>1, <1>2, <1>3

\* A bet with target x wins for the 99 * E \div (x - 1) largest numbers at most.
LEMMA WinningNumbers ==
  ASSUME NEW x \in Nat, x > 100, NEW n \in 0..E - 1, CrashPoint(n) >= x
  PROVE  E - n <= (99 * E) \div (x - 1)
<1>1. E \in Nat /\ E > 0 /\ x - 1 \in Nat /\ x - 1 > 0
  BY RangeAssumption
<1>2. PICK d \in Nat : d = E - n /\ d > 0
  BY <1>1
<1>3. PICK a \in Nat : a = 99 * E
  BY <1>1
<1>4. 100 * E - n = a + d
  BY <1>1, <1>2, <1>3
<1>5. (a + d) \div d >= x
  <2>1. PICK r \in Nat : r = (100 * E - n) \div (E - n)
    BY ResultBounds
  <2>2. CrashPoint(n) = IF InstantCrash(n) \/ r < 100 THEN 100 ELSE r
    BY <2>1 DEF CrashPoint
  <2>3. r >= x
    BY <2>1, <2>2
  <2> QED
    BY <1>2, <1>4, <2>1, <2>3
<1>6. a + d >= d * x
  BY <1>2, <1>5, QuotientAtLeast
<1>7. PICK y \in Nat : y = x - 1
  BY <1>1
<1>8. d * x = d * y + d
  <2>1. d * (y + 1) = d * y + d * 1 /\ d * 1 = d
    BY ProductFacts
  <2> QED
    BY <1>7, <2>1
<1>9. a >= y * d
  <2>1. d * y = y * d /\ d * y \in Nat
    BY ProductFacts
  <2> QED
    BY <1>6, <1>8, <2>1
<1> QED
  BY <1>1, <1>2, <1>3, <1>7, <1>9, QuotientAtLeast

LEMMA WinsBounded ==
  ASSUME NEW x \in Nat, x > 100
  PROVE  x * Wins(x) <= 100 * E
<1>1. E \in Nat /\ E > 0
  BY RangeAssumption
<1>2. PICK y \in Nat : y = x - 1 /\ y >= 100 /\ x = y + 1
  <2>1. x - 1 \in Nat /\ x - 1 >= 100 /\ x = (x - 1) + 1
    OBVIOUS
  <2> QED
    BY <2>1
<1>3. PICK a \in Nat : a = 99 * E
  BY <1>1
<1>4. PICK q \in Nat : q = a \div y
  BY <1>2, DivFacts
<1>5. y * q <= a
  BY <1>2, <1>4, DivFacts
<1>6. q <= E
  <2>1. q * 100 <= q * y /\ q * y = y * q /\ y * q \in Nat
    BY <1>2, ProductFacts
  <2> QED
    BY <1>1, <1>3, <1>5, <2>1
<1>7. x * q <= 100 * E
  <2>1. (y + 1) * q = y * q + 1 * q /\ y * q \in Nat
    BY ProductFacts
  <2>2. x * q = y * q + q
    BY <1>2, <2>1
  <2> QED
    BY <1>1, <1>3, <1>5, <1>6, <2>1, <2>2
<1>8. Wins(x) \in Nat /\ Wins(x) <= q
  <2> DEFINE winning == {n \in 0..E - 1 : CrashPoint(n) >= x}
  <2>1. winning \subseteq E - q..E - 1
    <3> SUFFICES ASSUME NEW n \in winning PROVE n \in E - q..E - 1
      OBVIOUS
    <3>1. n \in 0..E - 1 /\ CrashPoint(n) >= x
      OBVIOUS
    <3>2. E - n <= (99 * E) \div (x - 1)
      BY <3>1, WinningNumbers
    <3>3. E - n <= q
      BY <1>2, <1>3, <1>4, <3>2
    <3> QED
      BY <1>1, <3>1, <3>3
  <2>2. IsFiniteSet(E - q..E - 1) /\ Cardinality(E - q..E - 1) = q
    <3>1. E - q \in Int /\ E - 1 \in Int
      BY <1>1
    <3>2. /\ IsFiniteSet(E - q..E - 1)
          /\ Cardinality(E - q..E - 1) = IF E - q > E - 1 THEN 0 ELSE (E - 1) - (E - q) + 1
      BY <3>1, FS_Interval
    <3> QED
      BY <1>1, <3>2
  <2>3. IsFiniteSet(winning) /\ Cardinality(winning) <= q
    <3>1. winning \in SUBSET (E - q..E - 1)
      BY <2>1
    <3> HIDE DEF winning
    <3> QED
      BY <2>2, <3>1, FS_Subset
  <2>4. Cardinality(winning) \in Nat
    BY <2>3, FS_CardinalityType
  <2>5. Wins(x) = Cardinality(winning)
    BY DEF Wins
  <2> QED
    BY <2>3, <2>4, <2>5
<1>9. PICK w \in Nat : w = Wins(x) /\ w <= q
  BY <1>8
<1>10. x * w <= x * q /\ x * w \in Nat /\ x * q \in Nat
  BY <1>9, ProductFacts
<1> QED
  BY <1>1, <1>7, <1>9, <1>10

-----------------------------------------------------------------------------
(* ProvablyFair *)

\* The crash point is drawn beside the chain: its rounds are those of SeedChain.
LEMMA DrawnRoundsFollowChain == RngSpec => Spec
<1>1. RngInit => Init
  BY DEF RngInit
<1>2. [RngNext]_rngVars => [Next]_vars
  BY DEF RngNext, StartDrawnRound, CrashDrawnRound, Next, rngVars
<1> QED
  BY <1>1, <1>2, PTL DEF RngSpec, Spec

\* For chains of any length and any number of hash values: every crash point that
\* is drawn is a multiplier that CrashPoint.of accepts, and none is above what the
\* largest number gives (calculateCrashPoint).
THEOREM CrashPointsValid == RngSpec => []RngTypeOK
<1> DEFINE Drawn == houseEdgePercent \in HouseEdges /\ h \in 0..E - 1
<1>1. RngInit => Drawn
  BY RangeAssumption DEF RngInit
<1>2. Drawn /\ [RngNext]_rngVars => Drawn'
  BY DEF RngNext, StartDrawnRound, CrashDrawnRound, rngVars
<1>3. TypeOK /\ Drawn => RngTypeOK
  BY CrashPointRange DEF RngTypeOK
<1> QED
  BY <1>1, <1>2, <1>3, DrawnRoundsFollowChain, TypeCorrect, PTL DEF RngSpec

\* Whatever the number of hash values, the house edge and the target: a bet that
\* is paid exactly its target does not pay more on average than its stake
\* (calculateCrashPoint, Bet.autoCashout).
THEOREM HouseNeverLoses == RngSpec => []NoTargetPays
<1>1. NoTargetPays
  BY WinsBounded, TargetsAssumption DEF NoTargetPays
<1> QED
  BY <1>1, PTL
=============================================================================
