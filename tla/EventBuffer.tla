----------------------------- MODULE EventBuffer -----------------------------
(***************************************************************************)
(* The way of an event from onTick to the publisher: TickEventBuffer with  *)
(* its arrays that are reused, flushEvents, the tracker of the promises    *)
(* under way, and the end of the process in stop() and drain().            *)
(*                                                                         *)
(* Arrays are shared by reference, so a batch is kept as the array that    *)
(* swap() returned, and the array's content is looked up when the code     *)
(* reads it.  The publisher is the port EventPublisher: publishBatch reads *)
(* the array at once, as NatsEventPublisher does, and its promise settles  *)
(* at any later time, either way.  An event is its number in the order of  *)
(* the pushes.                                                             *)
(*                                                                         *)
(* An operator Bad... before an operator of the same name is not part of   *)
(* the model: it is that operator with a plausible bug.                    *)
(***************************************************************************)
EXTENDS Integers, Sequences

CONSTANTS
  MaxPerTick,            \* the most events a tick pushes
  MaxEvents,             \* bound: events in a behaviour
  MaxImmediates          \* bound: immediates under way at a time

ASSUME BoundsAssumption ==
  MaxPerTick \in Nat /\ MaxEvents \in Nat /\ MaxImmediates \in Nat

VARIABLES
  loop,                  \* "resting" between the flights of two rounds, "ticking",
                         \* "draining" after stop() and drain(), "drained"
  tickEvents,            \* the TickEventBuffer: its arrays (0 is the first
                         \* buffer, 1 and 2 the pool), its buffer, activeIndex
  flushScheduled,
  immediates,            \* setImmediate callbacks under way
  batches,               \* the calls of publishBatch: array, content, promise
  sent,                  \* the events handed to nats.publish, in order
  failedEventStore,      \* the batches on record, with what was recorded
  awaited                \* the promises that drain() waits for

vars == <<loop, tickEvents, flushScheduled, immediates, batches, sent,
          failedEventStore, awaited>>

-----------------------------------------------------------------------------
\* The content of the array that events are pushed to.
Waiting == tickEvents.arrays[tickEvents.buffer]

\* The next k events to be pushed.
Fresh(k) == [i \in 1..k |-> Len(sent) + Len(Waiting) + i]

\* TickEventBuffer.push, k times
Pushed(k) == [tickEvents EXCEPT !.arrays[tickEvents.buffer] = @ \o Fresh(k)]

\* TickEventBuffer.swap: the slot that becomes active is emptied.
BadSwapped(b) ==
  LET slot == 1 + b.activeIndex
  IN [arrays |-> [b.arrays EXCEPT ![slot] = <<>>], buffer |-> slot,
      activeIndex |-> b.activeIndex]
WorseSwapped(b) ==
  LET index == b.activeIndex + 1
      slot == index + 1
  IN [arrays |-> [b.arrays EXCEPT ![slot] = <<>>], buffer |-> slot, activeIndex |-> index]
Swapped(b) ==
  LET index == (b.activeIndex + 1) % 2
      slot == index + 1
  IN [arrays |-> [b.arrays EXCEPT ![slot] = <<>>], buffer |-> slot, activeIndex |-> index]

\* What the array that swap() returns holds when swap() has returned.
Returned(b) == Swapped(b).arrays[b.buffer]

Pending == {i \in DOMAIN batches : batches[i].promise = "pending"}

\* publishBatch copies the array that swap() returned and hands its events to
\* NATS; an empty batch is not published.
PublishBatch(b) ==
  /\ sent' = sent \o Returned(b)
  /\ batches' = IF Returned(b) = <<>> THEN batches
                ELSE Append(batches, [array |-> b.buffer, events |-> Returned(b),
                                      promise |-> "pending"])

\* flushEvents, with the buffer b
BadFlushEvents(b) ==
  /\ UNCHANGED flushScheduled
  /\ tickEvents' = Swapped(b)
  /\ PublishBatch(b)
FlushEvents(b) ==
  /\ flushScheduled' = FALSE
  /\ tickEvents' = Swapped(b)
  /\ PublishBatch(b)

\* scheduleFlush
ScheduleFlush ==
  /\ flushScheduled' = TRUE
  /\ immediates' = IF flushScheduled THEN immediates ELSE immediates + 1

-----------------------------------------------------------------------------
(* endBettingPhase starts the interval. *)
StartTicking ==
  /\ loop = "resting"
  /\ loop' = "ticking"
  /\ UNCHANGED <<tickEvents, flushScheduled, immediates, batches, sent,
                 failedEventStore, awaited>>

(* A tick below the crash point pushes its events and asks for a flush. *)
TickFlies(k) ==
  /\ loop = "ticking"
  /\ Len(sent) + Len(Waiting) + k <= MaxEvents /\ immediates < MaxImmediates
  /\ tickEvents' = Pushed(k)
  /\ ScheduleFlush
  /\ UNCHANGED <<loop, batches, sent, failedEventStore, awaited>>

(* The tick that crashes the round flushes at once. *)
TickCrashes(k) ==
  /\ loop = "ticking"
  /\ Len(sent) + Len(Waiting) + k <= MaxEvents
  /\ loop' = "resting"
  /\ FlushEvents(Pushed(k))
  /\ UNCHANGED <<immediates, failedEventStore, awaited>>

(* A pending immediate runs.  Neither stop() nor a crash takes it back. *)
Immediate ==
  /\ immediates > 0
  /\ immediates' = immediates - 1
  /\ FlushEvents(tickEvents)
  /\ UNCHANGED <<loop, failedEventStore, awaited>>

(* The promise of a batch is fulfilled; the tracker forgets it. *)
BatchPublished(i) ==
  /\ i \in Pending
  /\ batches' = [batches EXCEPT ![i].promise = "fulfilled"]
  /\ UNCHANGED <<loop, tickEvents, flushScheduled, immediates, sent,
                 failedEventStore, awaited>>

(* The promise of a batch is rejected: flushEvents puts the content that    *)
(* the array has by now on record.                                          *)
BatchFailed(i) ==
  /\ i \in Pending
  /\ batches' = [batches EXCEPT ![i].promise = "rejected"]
  /\ failedEventStore' = failedEventStore \cup
       {[batch |-> i, events |-> tickEvents.arrays[batches[i].array]]}
  /\ UNCHANGED <<loop, tickEvents, flushScheduled, immediates, sent, awaited>>

\* drain: the promises that the tracker knows when it is called
BadAwaits == {}
Awaits == {i \in DOMAIN batches' : batches'[i].promise = "pending"}

(* The shutdown hook calls stop() and then drain(), each of which flushes; *)
(* the second flush finds nothing, as nothing was pushed in between.       *)
Shutdown ==
  /\ loop \in {"resting", "ticking"}
  /\ loop' = "draining"
  /\ PublishBatch(tickEvents)
  /\ tickEvents' = Swapped(Swapped(tickEvents))
  /\ flushScheduled' = FALSE
  /\ awaited' = Awaits
  /\ UNCHANGED <<immediates, failedEventStore>>

(* All promises that drain() waits for have settled. *)
BadDrained ==
  /\ loop = "draining" /\ \A i \in awaited : batches[i].promise = "fulfilled"
  /\ loop' = "drained"
  /\ UNCHANGED <<tickEvents, flushScheduled, immediates, batches, sent,
                 failedEventStore, awaited>>
Drained ==
  /\ loop = "draining" /\ awaited \cap Pending = {}
  /\ loop' = "drained"
  /\ UNCHANGED <<tickEvents, flushScheduled, immediates, batches, sent,
                 failedEventStore, awaited>>

-----------------------------------------------------------------------------
Init ==
  /\ loop = "resting"
  /\ tickEvents = [arrays |-> [a \in 0..2 |-> <<>>], buffer |-> 0, activeIndex |-> 0]
  /\ flushScheduled = FALSE /\ immediates = 0
  /\ batches = <<>> /\ sent = <<>> /\ failedEventStore = {} /\ awaited = {}

Settles(i) == BatchPublished(i) \/ BatchFailed(i)

Next ==
  \/ StartTicking
  \/ \E k \in 1..MaxPerTick : TickFlies(k) \/ TickCrashes(k)
  \/ Immediate
  \/ \E i \in DOMAIN batches : Settles(i)
  \/ Shutdown
  \/ Drained

Safety == Init /\ [][Next]_vars

\* Immediates run, the publisher's promises settle, and drain() goes on then.
Fairness ==
  /\ WF_vars(Immediate)
  /\ WF_vars(\E i \in DOMAIN batches : Settles(i))
  /\ WF_vars(Drained)

Spec == Safety /\ Fairness

-----------------------------------------------------------------------------
TickEventBuffer ==
  [arrays : [0..2 -> Seq(Nat)], buffer : 0..2, activeIndex : 0..1]

Batch == [array : 0..2, events : Seq(Nat), promise : {"pending", "fulfilled", "rejected"}]

\* The shape of the state; past the first swap the buffer is the active slot.
TypeOK ==
  /\ loop \in {"resting", "ticking", "draining", "drained"}
  /\ tickEvents \in TickEventBuffer
  /\ tickEvents.buffer \in {0, tickEvents.activeIndex + 1}
  /\ flushScheduled \in BOOLEAN
  /\ immediates \in Nat
  /\ batches \in Seq(Batch)
  /\ sent \in Seq(Nat)
  /\ failedEventStore \subseteq [batch : Nat, events : Seq(Nat)]
  /\ awaited \subseteq Nat

\* Events in the buffer are never stranded: as long as there are any, a flush
\* is scheduled, its immediate is under way, and the loop has not been stopped,
\* whatever crashes and stops happened since (scheduleFlush, flushEvents).
FlushUnderWay ==
  Waiting # <<>> =>
    flushScheduled /\ immediates > 0 /\ loop \in {"resting", "ticking"}

\* When drain() is over everything has been published and no promise of a
\* batch is pending, so that the connection may be closed.
DrainedComplete == loop = "drained" => Waiting = <<>> /\ Pending = {}

\* Shutdown comes to its end.
DrainEnds == (loop = "draining") ~> (loop = "drained")

\* Events are published in order, each once: the buffer implements EventLog.
Log == INSTANCE EventLog WITH queued <- Waiting
PublishedInOrder == Log!Spec
=============================================================================
