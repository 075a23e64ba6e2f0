----------------------------- MODULE BetLedger -----------------------------
(***************************************************************************)
(* What the engine promises about the bets it takes, without rounds,       *)
(* timers, queues or buffers.  A bet is entered once, with its stake.  It  *)
(* is settled once: it wins a payout, which is due to be credited, or it   *)
(* loses.  The wallet answers once for a payout, and one that it did not   *)
(* take is on record as owed by the same step.  An end is announced after  *)
(* the bet has been settled, and is never taken back.                      *)
(***************************************************************************)
EXTENDS Integers, Sequences

CONSTANTS
  Bettors,
  Stakes       \* in cents

VARIABLES
  ledger,      \* the bets in the order in which they were taken
  announced    \* the bets whose end has been announced

OpenBet(player, stake) ==
  [player |-> player, stake |-> stake, end |-> "open", payout |-> 0, credit |-> "none"]

Settled == {b \in DOMAIN ledger : ledger[b].end # "open"}

Win(bet, payout) == [bet EXCEPT !.end = "won", !.payout = payout, !.credit = "due"]
Lose(bet) == [bet EXCEPT !.end = "lost"]

(* A bet is taken. *)
Take ==
  /\ \E player \in Bettors, stake \in Stakes : ledger' = Append(ledger, OpenBet(player, stake))
  /\ UNCHANGED announced

\* Bet b keeps its entry, or it is open and ends; a win pays the stake at least.
MayEnd(b) ==
  LET old == ledger[b]
      new == ledger'[b]
  IN \/ new = old
     \/ old.end = "open" /\ new = Lose(old)
     \/ old.end = "open" /\ new.payout >= old.stake /\ new = Win(old, new.payout)

(* Some bets end, and the ends of some are announced. *)
SettleAndAnnounce ==
  /\ DOMAIN ledger' = DOMAIN ledger
  /\ \A b \in DOMAIN ledger : MayEnd(b)
  /\ announced \subseteq announced'
  /\ announced' \ announced \subseteq Settled'

(* The wallet takes a payout that is due, or it does not. *)
CreditAnswered ==
  /\ \E b \in DOMAIN ledger : \E answer \in {"paid", "owed"} :
       ledger[b].credit = "due" /\ ledger' = [ledger EXCEPT ![b].credit = answer]
  /\ UNCHANGED announced

Init == ledger = <<>> /\ announced = {}

Next == SettleAndAnnounce \/ CreditAnswered \/ Take

Spec == Init /\ [][Next]_<<ledger, announced>>
=============================================================================
