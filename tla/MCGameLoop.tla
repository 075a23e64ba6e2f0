----------------------------- MODULE MCGameLoop -----------------------------
(***************************************************************************)
(* Instances of GameLoop for TLC.                                          *)
(***************************************************************************)
EXTENDS GameLoop

Cmd(key, player, r, cents, auto) ==
  [idempotencyKey |-> key, playerId |-> player, roundId |-> r,
   amountCents |-> cents, autoCashout |-> auto]

\* Two players who bet in the first round, one of them with a target; each
\* command may be sent again.
TwoPlayers == {Cmd("k1", "p1", 1, 15, 0), Cmd("k2", "p2", 1, 10, 150)}

\* A bet, one with a target for a round that nobody knows, and one below the
\* minimum.
Mixed == {Cmd("k1", "p1", 1, 15, 0), Cmd("k2", "p2", 0, 10, 150), Cmd("k3", "p1", 1, 5, 0)}

MCCrashPoints == {100, 150}
LoopMultipliers == {133, 170}
FewMultipliers == {100, 170}
FewCrashPoints == {150}
=============================================================================
