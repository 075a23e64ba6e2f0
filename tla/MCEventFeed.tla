---------------------------- MODULE MCEventFeed ----------------------------
(***************************************************************************)
(* The instance of EventFeed for TLC.                                      *)
(***************************************************************************)
EXTENDS MCGameLoop, EventFeed

\* One player with two bets, one of them with a target: the feed is the same
\* for everyone, and the answers for one player are not looked at.
OnePlayer == {Cmd("k1", "p1", 1, 15, 0), Cmd("k2", "p1", 1, 10, 150)}
=============================================================================
