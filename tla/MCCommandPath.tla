--------------------------- MODULE MCCommandPath ---------------------------
(***************************************************************************)
(* The instance of CommandPath for TLC.                                    *)
(***************************************************************************)
EXTENDS MCGameLoop, CommandPath

\* The two players, one of whom also sends a key that is no UUID.
PathCommands == TwoPlayers \cup {Cmd("bad", "p2", 1, 10, 0)}
=============================================================================
