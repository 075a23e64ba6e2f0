------------------------------ MODULE EventLog ------------------------------
(***************************************************************************)
(* What the game loop owes to the players who watch: the events of its     *)
(* ticks are published in the order in which they happened, each of them   *)
(* once and none left out, some time after the tick.                       *)
(*                                                                         *)
(* The n-th event that happens is the number n.                            *)
(***************************************************************************)
EXTENDS Integers, Sequences

CONSTANT MaxPerTick      \* the most events a tick may produce

VARIABLES
  queued,                \* events that have happened and wait to be published
  sent                   \* events published, in order

vars == <<queued, sent>>

\* The next k events.
Fresh(k) == [i \in 1..k |-> Len(sent) + Len(queued) + i]

Init == queued = <<>> /\ sent = <<>>

(* k events happen. *)
Happen(k) == queued' = queued \o Fresh(k) /\ sent' = sent

(* All that waits is published, with k more events that have just happened. *)
Publish(k) == queued' = <<>> /\ sent' = sent \o queued \o Fresh(k)

Next == \E k \in 0..MaxPerTick : Happen(k) \/ Publish(k)

Safety == Init /\ [][Next]_vars

Spec == Safety /\ WF_vars(queued # <<>> /\ \E k \in 0..MaxPerTick : Publish(k))
=============================================================================
