------------------------------ MODULE SeedChain ------------------------------
(***************************************************************************)
(* The server seeds of the rounds: SeedChain, the provider that replaces a *)
(* chain when it is used up, and what the round loop publishes of a seed,  *)
(* its hash when the round begins and the seed itself when it crashes.     *)
(*                                                                         *)
(* A seed is its terminal seed, a fresh random one, and the number of      *)
(* times that has been hashed.  So the hash has no collisions, and from a  *)
(* seed one can compute those that come after it by hashing, but no other. *)
(* Logs are not looked at.                                                 *)
(*                                                                         *)
(* An operator Bad... before an operator of the same name is not part of   *)
(* the model: it is that operator with a plausible bug.                    *)
(***************************************************************************)
EXTENDS Integers, Sequences

CONSTANTS
  ChainLength,           \* RotatingSeedChainProvider.chainLength
  MaxChains              \* bound: chains in a behaviour

ASSUME LengthAssumption == ChainLength \in Nat \ {0} /\ MaxChains \in Nat \ {0}

VARIABLES
  chain,                 \* the SeedChain: its terminal seed, its currentIndex
  serverSeed,            \* the seed of the current round
  round,                 \* "none" before the first one, then "open" or "crashed"
  published,             \* the hashes and seeds that players have been told
  revealed               \* the seeds of the crashed rounds, in order

vars == <<chain, serverSeed, round, published, revealed>>

Seed == [terminal : Nat, hashed : Nat]

\* SeedChain.hash and ProvablyFair.hashServerSeed
Hash(seed) == [seed EXCEPT !.hashed = @ + 1]

\* SeedChain: the last of the seeds is the terminal one, and each is the hash
\* of the one behind it.
BadSeeds(terminal) ==
  [i \in 0..ChainLength - 1 |-> [terminal |-> terminal, hashed |-> i]]
WorseSeeds(terminal) ==
  [i \in 0..ChainLength - 1 |-> [terminal |-> terminal, hashed |-> ChainLength - 2 - i]]
Seeds(terminal) ==
  [i \in 0..ChainLength - 1 |-> [terminal |-> terminal, hashed |-> ChainLength - 1 - i]]

\* SeedChain.remaining
BadRemaining == ChainLength - 1 - chain.currentIndex
Remaining == ChainLength - chain.currentIndex

\* RotatingSeedChainProvider.next: the chain that the seed is taken from
BadRotated ==
  IF Remaining = 0 THEN [chain EXCEPT !.currentIndex = 0] ELSE chain
Rotated ==
  IF Remaining = 0 THEN [terminal |-> chain.terminal + 1, currentIndex |-> 0] ELSE chain

-----------------------------------------------------------------------------
(* startNewRound: the seed is taken and its hash published. *)
StartNewRound ==
  /\ round # "open"
  /\ Rotated.terminal <= MaxChains
  /\ chain' = [Rotated EXCEPT !.currentIndex = @ + 1]
  /\ serverSeed' = Seeds(Rotated.terminal)[Rotated.currentIndex]
  /\ round' = "open"
  /\ published' = published \cup {Hash(serverSeed')}
  /\ UNCHANGED revealed

(* onTick: the round crashes and its seed is published. *)
Crash ==
  /\ round = "open"
  /\ round' = "crashed"
  /\ published' = published \cup {serverSeed}
  /\ revealed' = Append(revealed, serverSeed)
  /\ UNCHANGED <<chain, serverSeed>>

Init ==
  /\ chain = [terminal |-> 1, currentIndex |-> 0]
  /\ serverSeed = [terminal |-> 0, hashed |-> 0]
  /\ round = "none"
  /\ published = {}
  /\ revealed = <<>>

Next == StartNewRound \/ Crash

Spec == Init /\ [][Next]_vars

-----------------------------------------------------------------------------
\* The shape of the state.
TypeOK ==
  /\ chain \in [terminal : 1..MaxChains, currentIndex : 0..ChainLength]
  /\ serverSeed \in Seed
  /\ round \in {"none", "open", "crashed"}
  /\ published \subseteq Seed
  /\ revealed \in Seq(Seed)

\* Whether a seed can be computed from what has been published.
Known(seed) ==
  \E s \in published : s.terminal = seed.terminal /\ s.hashed <= seed.hashed

\* Nobody can compute the seed of the round that is open, nor any that is still
\* to come of the chain, from all that has been published so far.
SeedsSecret ==
  /\ round = "open" => ~Known(serverSeed)
  /\ \A i \in chain.currentIndex..ChainLength - 1 : ~Known(Seeds(chain.terminal)[i])

\* SeedChain.verify: the seed of a round hashes to that of the round before it,
\* unless a chain has just been used up and another one begun.
SeedsLinked ==
  \A n \in 2..Len(revealed) :
    \/ Hash(revealed[n]) = revealed[n - 1]
    \/ /\ revealed[n - 1].hashed = 0
       /\ revealed[n].hashed = ChainLength - 1
       /\ revealed[n].terminal # revealed[n - 1].terminal

\* No two rounds have the same seed, across chains too.
SeedsFresh == \A m, n \in DOMAIN revealed : revealed[m] = revealed[n] => m = n
=============================================================================
