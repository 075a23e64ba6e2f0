---------------------------- MODULE ProvablyFair ----------------------------
(***************************************************************************)
(* The rounds of SeedChain with their crash points: startNewRound takes    *)
(* the next seed, and ProvablyFair.calculateCrashPoint turns the first 52  *)
(* bits of its HMAC into the point of the crash, in hundredths.            *)
(*                                                                         *)
(* The HMAC of a seed that nobody knows is any number below E, which is    *)
(* 2^52 in the code and a smaller power of two in an instance.  The house  *)
(* edge is a whole percentage.  The integers are exact: JavaScript rounds  *)
(* 100 * e - h and the quotient to 53 bits each.                           *)
(*                                                                         *)
(* An operator Bad... before an operator of the same name is not part of   *)
(* the model: it is that operator with a plausible bug.                    *)
(***************************************************************************)
EXTENDS SeedChain, FiniteSets

CONSTANTS
  E,                     \* 2^52, the number of values of h
  HouseEdges,            \* the configurations looked at, in percent
  Targets                \* the targets of auto-cashouts looked at, in hundredths

ASSUME RangeAssumption == E \in Nat \ {0}
ASSUME EdgesAssumption == HouseEdges \subseteq 0..100       \* gameConfigSchema
ASSUME TargetsAssumption == Targets \subseteq {x \in Nat : x > 100}

VARIABLES
  houseEdgePercent,
  h                      \* of the round's HMAC, the first 52 bits

rngVars == <<vars, houseEdgePercent, h>>

-----------------------------------------------------------------------------
\* h % Math.floor(100 / houseEdgePercent) === 0; without a house edge the
\* divisor is Infinity.
InstantCrash(n) ==
  IF houseEdgePercent = 0 THEN n = 0 ELSE n % (100 \div houseEdgePercent) = 0

\* The multiplier at which the round crashes.
BadCrashPoint(n) ==
  IF InstantCrash(n) THEN 100 ELSE (100 * E + n) \div (E - n)
WorseCrashPoint(n) ==
  IF InstantCrash(n) THEN 100 ELSE (100 * E - n) \div (E + n)
CrashPoint(n) ==
  LET result == (100 * E - n) \div (E - n)
  IN IF InstantCrash(n) \/ result < 100 THEN 100 ELSE result

(* startNewRound: the next seed, and the crash point that is drawn from it. *)
StartDrawnRound ==
  /\ StartNewRound
  /\ h' \in 0..E - 1
  /\ UNCHANGED houseEdgePercent

(* onTick: the round crashes. *)
CrashDrawnRound == Crash /\ UNCHANGED <<houseEdgePercent, h>>

RngInit == Init /\ houseEdgePercent \in HouseEdges /\ h = 0

RngNext == StartDrawnRound \/ CrashDrawnRound

RngSpec == RngInit /\ [][RngNext]_rngVars

-----------------------------------------------------------------------------
\* The shape of the state.  Every crash point is one that CrashPoint.of accepts:
\* it is never below 1.00, and not above what the largest number gives.
RngTypeOK ==
  /\ TypeOK
  /\ houseEdgePercent \in HouseEdges
  /\ h \in 0..E - 1
  /\ CrashPoint(h) \in 100..99 * E + 1

\* How many of the numbers let a bet win that is paid exactly this target.
Wins(target) == Cardinality({n \in 0..E - 1 : CrashPoint(n) >= target})

\* No target pays more on average than the stake, whatever the house edge: the
\* rounding of the crash point never goes against the house.
NoTargetPays == \A x \in Targets : x * Wins(x) <= 100 * E
=============================================================================
