------------------------------- MODULE BetSet -------------------------------
(***************************************************************************)
(* What a bet store owes: a set of bets in which no idempotency key occurs *)
(* twice.  A bet is added to it if its key is free, and leaves it together *)
(* with the other bets of its round, which makes its key free again.       *)
(***************************************************************************)
CONSTANT Bet

VARIABLE held

Init == held = {}

Place(bet) ==
  /\ \A b \in held : b.idempotencyKey # bet.idempotencyKey
  /\ held' = held \cup {bet}

ClearRound(r) == held' = {b \in held : b.roundId # r}

Next ==
  \/ \E bet \in Bet : Place(bet)
  \/ \E bet \in held : ClearRound(bet.roundId)

Spec == Init /\ [][Next]_held
=============================================================================
