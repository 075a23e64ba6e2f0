-------------------------- MODULE EventBufferProofs --------------------------
(***************************************************************************)
(* Proofs about EventBuffer: its safety invariants, and that it implements *)
(* the safety part of EventLog, for any number of events and rounds.       *)
(***************************************************************************)
EXTENDS EventBuffer, SequenceTheorems, TLAPS

USE BoundsAssumption

\* The buffers that the code can have: the first array, or the active slot.
Buffers == {b \in TickEventBuffer : b.buffer \in {0, b.activeIndex + 1}}

\* swap() empties the slot that becomes active and leaves what it returns.
LEMMA SwapFacts ==
  ASSUME NEW b \in Buffers
  PROVE  /\ Swapped(b) \in Buffers
         /\ Swapped(b).arrays[Swapped(b).buffer] = <<>>
         /\ Returned(b) = b.arrays[b.buffer]
         /\ Returned(b) \in Seq(Nat)
<1> DEFINE index == (b.activeIndex + 1) % 2
           slot == index + 1
<1>1. /\ b.arrays \in [0..2 -> Seq(Nat)]
      /\ b.buffer \in 0..2
      /\ b.activeIndex \in 0..1
      /\ b.buffer \in {0, b.activeIndex + 1}
  BY DEF Buffers, TickEventBuffer
<1>2. index \in 0..1 /\ index # b.activeIndex
  BY <1>1
<1>3. slot \in 0..2 /\ slot # b.buffer
  BY <1>1, <1>2
<1>4. <<>> \in Seq(Nat)
  OBVIOUS
<1>5. [b.arrays EXCEPT ![slot] = <<>>] \in [0..2 -> Seq(Nat)]
  BY <1>1, <1>3, <1>4
<1>6. [b.arrays EXCEPT ![slot] = <<>>][slot] = <<>>
  BY <1>1, <1>3
<1>7. [b.arrays EXCEPT ![slot] = <<>>][b.buffer] = b.arrays[b.buffer]
  BY <1>1, <1>3
<1>8. Swapped(b) = [arrays |-> [b.arrays EXCEPT ![slot] = <<>>],
                    buffer |-> slot, activeIndex |-> index]
  BY DEF Swapped
<1> HIDE DEF index, slot
<1>9. slot = index + 1
  BY DEF slot
<1>10. Swapped(b) \in Buffers
  BY <1>2, <1>3, <1>5, <1>8, <1>9 DEF Buffers, TickEventBuffer
<1>11. b.arrays[b.buffer] \in Seq(Nat)
  BY <1>1
<1> QED
  BY <1>6, <1>7, <1>8, <1>10, <1>11 DEF Returned

\* k pushes append the next k events to the buffer and touch nothing else.
LEMMA PushFacts ==
  ASSUME TypeOK, NEW k \in Nat
  PROVE  /\ Pushed(k) \in Buffers
         /\ Pushed(k).buffer = tickEvents.buffer
         /\ Pushed(k).arrays[Pushed(k).buffer] = Waiting \o Fresh(k)
<1>1. /\ tickEvents.arrays \in [0..2 -> Seq(Nat)]
      /\ tickEvents.buffer \in 0..2
      /\ tickEvents.activeIndex \in 0..1
      /\ tickEvents.buffer \in {0, tickEvents.activeIndex + 1}
      /\ tickEvents \in TickEventBuffer
  BY DEF TypeOK, TickEventBuffer
<1>2. Waiting \in Seq(Nat) /\ sent \in Seq(Nat)
  BY <1>1 DEF Waiting, TypeOK
<1>3. Fresh(k) \in Seq(Nat)
  <2>1. Len(sent) \in Nat /\ Len(Waiting) \in Nat
    BY <1>2
  <2>2. \A i \in 1..k : Len(sent) + Len(Waiting) + i \in Nat
    BY <2>1
  <2> QED
    BY <2>2 DEF Fresh
<1>4. Waiting \o Fresh(k) \in Seq(Nat)
  BY <1>2, <1>3
<1> DEFINE filled == [tickEvents.arrays EXCEPT ![tickEvents.buffer] = Waiting \o Fresh(k)]
<1>5. filled \in [0..2 -> Seq(Nat)] /\ filled[tickEvents.buffer] = Waiting \o Fresh(k)
  BY <1>1, <1>4
<1>6. Pushed(k) = [tickEvents EXCEPT !.arrays = filled]
  BY <1>1 DEF Pushed, Waiting, TickEventBuffer
<1> HIDE DEF filled
<1>7. Pushed(k).arrays = filled /\ Pushed(k).buffer = tickEvents.buffer
  BY <1>1, <1>6 DEF TickEventBuffer
<1>8. Pushed(k) \in TickEventBuffer /\ Pushed(k).activeIndex = tickEvents.activeIndex
  BY <1>1, <1>5, <1>6 DEF TickEventBuffer
<1> QED
  BY <1>1, <1>5, <1>7, <1>8 DEF Buffers

\* Appending to a concatenation.
LEMMA ConcatThree ==
  ASSUME NEW r \in Seq(Nat), NEW s \in Seq(Nat), NEW t \in Seq(Nat)
  PROVE  r \o (s \o t) = (r \o s) \o t
<1> DEFINE lhs == r \o (s \o t)
           rhs == (r \o s) \o t
<1>1. lhs \in Seq(Nat) /\ rhs \in Seq(Nat) /\ Len(lhs) = Len(rhs)
  OBVIOUS
<1>2. \A i \in 1..Len(lhs) : lhs[i] = rhs[i]
  OBVIOUS
<1> HIDE DEF lhs, rhs
<1>3. lhs = rhs
  BY <1>1, <1>2, SeqEqual
<1> QED
  BY <1>3 DEF lhs, rhs

\* The buffer is one the code can have.
LEMMA BufferTyped ==
  ASSUME TypeOK
  PROVE  tickEvents \in Buffers /\ Waiting \in Seq(Nat)
BY DEF TypeOK, Buffers, Waiting, TickEventBuffer

-----------------------------------------------------------------------------
(* Type correctness *)

\* publishBatch keeps the types of what it writes.
LEMMA PublishTyped ==
  ASSUME TypeOK, NEW b \in Buffers, PublishBatch(b)
  PROVE  sent' \in Seq(Nat) /\ batches' \in Seq(Batch)
<1>1. Returned(b) \in Seq(Nat) /\ sent \in Seq(Nat) /\ batches \in Seq(Batch)
  BY SwapFacts DEF TypeOK
<1>2. [array |-> b.buffer, events |-> Returned(b), promise |-> "pending"] \in Batch
  BY <1>1 DEF Batch, Buffers, TickEventBuffer
<1> QED
  BY <1>1, <1>2, AppendProperties DEF PublishBatch

\* A batch keeps its type when its promise settles.
LEMMA BatchesTyped ==
  ASSUME TypeOK, NEW i \in Pending, NEW p \in {"fulfilled", "rejected"},
         batches' = [batches EXCEPT ![i].promise = p]
  PROVE  /\ batches' \in Seq(Batch)
         /\ \A j \in DOMAIN batches : j # i => batches'[j] = batches[j]
         /\ DOMAIN batches' = DOMAIN batches
         /\ batches'[i].promise # "pending"
<1>1. batches \in Seq(Batch) /\ i \in DOMAIN batches
  BY DEF TypeOK, Pending
<1> DEFINE settled == [batches[i] EXCEPT !.promise = p]
<1>2. batches[i] \in Batch
  BY <1>1
<1>3. settled \in Batch /\ settled.promise = p
  BY <1>2 DEF Batch
<1>4. batches' = [batches EXCEPT ![i] = settled]
  BY <1>1
<1> HIDE DEF settled
<1>5. batches' \in Seq(Batch)
  BY <1>1, <1>3, <1>4
<1> QED
  BY <1>1, <1>3, <1>4, <1>5

\* The state keeps its shape: the buffer is always an array of the pool, or
\* the first one.
THEOREM BufferTypeCorrect == Safety => []TypeOK
<1>1. Init => TypeOK
  <2> SUFFICES ASSUME Init PROVE TypeOK
    OBVIOUS
  <2>1. tickEvents \in TickEventBuffer /\ tickEvents.buffer = 0
    BY DEF Init, TickEventBuffer
  <2>2. sent \in Seq(Nat) /\ batches \in Seq(Batch)
    BY DEF Init
  <2>3. loop \in {"resting", "ticking"} /\ flushScheduled \in BOOLEAN /\ immediates \in Nat
    BY DEF Init
  <2>4. /\ failedEventStore \subseteq [batch : Nat, events : Seq(Nat)]
        /\ awaited \subseteq Nat
    BY DEF Init
  <2> QED
    BY <2>1, <2>2, <2>3, <2>4 DEF TypeOK
<1>2. TypeOK /\ [Next]_vars => TypeOK'
  <2> SUFFICES ASSUME TypeOK, [Next]_vars PROVE TypeOK'
    OBVIOUS
  <2>0. \A b \in Buffers : b \in TickEventBuffer /\ b.buffer \in {0, b.activeIndex + 1}
    BY DEF Buffers
  <2>1. CASE StartTicking
    BY <2>1 DEF StartTicking, TypeOK
  <2>2. ASSUME NEW k \in 1..MaxPerTick, TickFlies(k) PROVE TypeOK'
    <3>1. tickEvents' \in Buffers
      BY <2>2, PushFacts DEF TickFlies
    <3>2. immediates' \in Nat /\ flushScheduled' \in BOOLEAN
      BY <2>2 DEF TickFlies, ScheduleFlush, TypeOK
    <3> QED
      BY <2>0, <2>2, <3>1, <3>2 DEF TickFlies, TypeOK
  <2>3. ASSUME NEW k \in 1..MaxPerTick, TickCrashes(k) PROVE TypeOK'
    <3>1. Pushed(k) \in Buffers
      BY PushFacts
    <3>2. tickEvents' \in Buffers
      BY <2>3, <3>1, SwapFacts DEF TickCrashes, FlushEvents
    <3>3. sent' \in Seq(Nat) /\ batches' \in Seq(Batch)
      BY <2>3, <3>1, PublishTyped DEF TickCrashes, FlushEvents
    <3> QED
      BY <2>0, <2>3, <3>2, <3>3 DEF TickCrashes, FlushEvents, TypeOK
  <2>4. CASE Immediate
    <3>1. tickEvents' \in Buffers
      BY <2>4, BufferTyped, SwapFacts DEF Immediate, FlushEvents
    <3>2. sent' \in Seq(Nat) /\ batches' \in Seq(Batch)
      BY <2>4, BufferTyped, PublishTyped DEF Immediate, FlushEvents
    <3>3. immediates' \in Nat
      <4>1. immediates \in Nat /\ immediates > 0 /\ immediates' = immediates - 1
        BY <2>4 DEF Immediate, TypeOK
      <4> QED
        BY <4>1
    <3>4. flushScheduled' \in BOOLEAN
      BY <2>4 DEF Immediate, FlushEvents
    <3> QED
      BY <2>0, <2>4, <3>1, <3>2, <3>3, <3>4 DEF Immediate, TypeOK
  <2>5. ASSUME NEW i \in DOMAIN batches, BatchPublished(i) PROVE TypeOK'
    BY <2>5, BatchesTyped DEF BatchPublished, TypeOK
  <2>6. ASSUME NEW i \in DOMAIN batches, BatchFailed(i) PROVE TypeOK'
    <3>1. batches' \in Seq(Batch)
      BY <2>6, BatchesTyped DEF BatchFailed
    <3>2. batches[i] \in Batch /\ i \in Nat
      BY DEF TypeOK
    <3>3. tickEvents.arrays[batches[i].array] \in Seq(Nat)
      BY <3>2 DEF TypeOK, TickEventBuffer, Batch
    <3>4. [batch |-> i, events |-> tickEvents.arrays[batches[i].array]]
            \in [batch : Nat, events : Seq(Nat)]
      BY <3>2, <3>3
    <3> QED
      BY <2>6, <3>1, <3>4 DEF BatchFailed, TypeOK
  <2>7. CASE Shutdown
    <3>1. Swapped(Swapped(tickEvents)) \in Buffers
      BY BufferTyped, SwapFacts
    <3>2. sent' \in Seq(Nat) /\ batches' \in Seq(Batch)
      BY <2>7, BufferTyped, PublishTyped DEF Shutdown
    <3>3. awaited' \subseteq Nat
      BY <2>7, <3>2 DEF Shutdown, Awaits
    <3> QED
      BY <2>0, <2>7, <3>1, <3>2, <3>3 DEF Shutdown, TypeOK
  <2>8. CASE Drained
    BY <2>8 DEF Drained, TypeOK
  <2>9. CASE UNCHANGED vars
    BY <2>9 DEF vars, TypeOK
  <2> QED
    BY <2>1, <2>2, <2>3, <2>4, <2>5, <2>6, <2>7, <2>8, <2>9 DEF Next, Settles
<1> QED
  BY <1>1, <1>2, PTL DEF Safety

-----------------------------------------------------------------------------
(* The effect of a step on what is waiting and what has been sent *)

\* A flush of the buffer b publishes what b holds and leaves an empty buffer.
LEMMA FlushEmpties ==
  ASSUME NEW b \in Buffers, FlushEvents(b)
  PROVE  Waiting' = <<>> /\ sent' = sent \o b.arrays[b.buffer]
<1>1. Waiting' = Swapped(b).arrays[Swapped(b).buffer]
  BY DEF FlushEvents, Waiting
<1> QED
  BY <1>1, SwapFacts DEF FlushEvents, PublishBatch

\* stop() and drain() publish what is waiting and leave an empty buffer.
LEMMA ShutdownEmpties ==
  ASSUME TypeOK, Shutdown
  PROVE  Waiting' = <<>> /\ sent' = sent \o Waiting
<1>1. tickEvents \in Buffers /\ Swapped(tickEvents) \in Buffers
  BY BufferTyped, SwapFacts
<1>2. tickEvents' = Swapped(Swapped(tickEvents))
  BY DEF Shutdown
<1>3. Waiting' = <<>>
  BY <1>1, <1>2, SwapFacts DEF Waiting
<1>4. sent' = sent \o tickEvents.arrays[tickEvents.buffer]
  BY <1>1, SwapFacts DEF Shutdown, PublishBatch
<1> QED
  BY <1>3, <1>4 DEF Waiting

\* A tick that flies on appends its events to what is waiting.
LEMMA TickAppends ==
  ASSUME TypeOK, NEW k \in 1..MaxPerTick, TickFlies(k)
  PROVE  Waiting' = Waiting \o Fresh(k) /\ sent' = sent
<1>1. Waiting' = Pushed(k).arrays[Pushed(k).buffer]
  BY DEF TickFlies, Waiting
<1>2. Pushed(k).arrays[Pushed(k).buffer] = Waiting \o Fresh(k)
  BY PushFacts
<1> QED
  BY <1>1, <1>2 DEF TickFlies

\* The tick that crashes publishes what was waiting and then its own events.
LEMMA CrashPublishes ==
  ASSUME TypeOK, NEW k \in 1..MaxPerTick, TickCrashes(k)
  PROVE  Waiting' = <<>> /\ sent' = sent \o (Waiting \o Fresh(k))
<1>1. Pushed(k) \in Buffers /\ FlushEvents(Pushed(k))
  BY PushFacts DEF TickCrashes
<1>2. Pushed(k).arrays[Pushed(k).buffer] = Waiting \o Fresh(k)
  BY PushFacts
<1> QED
  BY <1>1, <1>2, FlushEmpties

\* An immediate publishes what is waiting.
LEMMA ImmediatePublishes ==
  ASSUME TypeOK, Immediate
  PROVE  Waiting' = <<>> /\ sent' = sent \o Waiting
BY BufferTyped, FlushEmpties DEF Immediate, Waiting

\* A flush with nothing to publish makes no batch.
LEMMA NothingToPublish ==
  ASSUME TypeOK, Waiting = <<>>, Immediate
  PROVE  batches' = batches
<1>1. Returned(tickEvents) = Waiting
  BY BufferTyped, SwapFacts DEF Waiting
<1> QED
  BY <1>1 DEF Immediate, FlushEvents, PublishBatch

\* The other steps touch neither.
LEMMA OthersKeep ==
  ASSUME StartTicking \/ Drained \/ (\E i \in DOMAIN batches : Settles(i)) \/ UNCHANGED vars
  PROVE  /\ Waiting' = Waiting
         /\ UNCHANGED <<tickEvents, sent, flushScheduled, immediates>>
BY DEF StartTicking, Drained, Settles, BatchPublished, BatchFailed, vars, Waiting

-----------------------------------------------------------------------------
(* No event is stranded, and drain() leaves nothing behind *)

\* A flush that is scheduled has its immediate under way.
ScheduledInv == flushScheduled => immediates > 0

\* Once the loop has been stopped, drain() waits for all that is pending.
AwaitedInv ==
  /\ loop = "draining" => Pending \subseteq awaited
  /\ loop = "drained" => Pending = {}

\* Events in the buffer always have a flush under way, and when drain() is
\* over nothing is left: not in the buffer, nor with the publisher.
THEOREM NoEventStranded == Safety => [](FlushUnderWay /\ DrainedComplete)
<1> DEFINE Inv == ScheduledInv /\ FlushUnderWay /\ AwaitedInv
<1>1. Init => Inv
  <2> SUFFICES ASSUME Init PROVE Inv
    OBVIOUS
  <2>1. Waiting = <<>>
    BY DEF Init, Waiting
  <2> QED
    BY <2>1 DEF Init, ScheduledInv, FlushUnderWay, AwaitedInv
<1>2. TypeOK /\ Inv /\ [Next]_vars => Inv'
  <2> SUFFICES ASSUME TypeOK, Inv, [Next]_vars PROVE Inv'
    OBVIOUS
  <2>0. immediates \in Nat
    BY DEF TypeOK
  <2>1. CASE StartTicking
    BY <2>1, OthersKeep DEF StartTicking, ScheduledInv, FlushUnderWay, AwaitedInv
  <2>2. ASSUME NEW k \in 1..MaxPerTick, TickFlies(k) PROVE Inv'
    <3>1. flushScheduled' /\ immediates' > 0
      BY <2>0, <2>2 DEF TickFlies, ScheduleFlush, ScheduledInv
    <3> QED
      BY <2>2, <3>1 DEF TickFlies, ScheduledInv, FlushUnderWay, AwaitedInv
  <2>3. ASSUME NEW k \in 1..MaxPerTick, TickCrashes(k) PROVE Inv'
    <3>1. Waiting' = <<>>
      BY <2>3, CrashPublishes
    <3> QED
      BY <2>3, <3>1 DEF TickCrashes, FlushEvents, ScheduledInv, FlushUnderWay, AwaitedInv
  <2>4. CASE Immediate
    <3>1. Waiting' = <<>> /\ flushScheduled' = FALSE /\ UNCHANGED <<loop, awaited>>
      BY <2>4, ImmediatePublishes DEF Immediate, FlushEvents
    <3>2. ASSUME loop \in {"draining", "drained"} PROVE batches' = batches
      BY <2>4, <3>2, NothingToPublish DEF FlushUnderWay
    <3>3. AwaitedInv'
      BY <3>1, <3>2 DEF AwaitedInv, Pending
    <3> QED
      BY <3>1, <3>3 DEF ScheduledInv, FlushUnderWay
  <2>5. ASSUME NEW i \in DOMAIN batches, Settles(i) PROVE Inv'
    <3>1. Pending' \subseteq Pending
      BY <2>5, BatchesTyped DEF Settles, BatchPublished, BatchFailed, Pending
    <3>2. UNCHANGED <<loop, awaited, flushScheduled, immediates>> /\ Waiting' = Waiting
      BY <2>5, OthersKeep DEF Settles, BatchPublished, BatchFailed
    <3> QED
      BY <3>1, <3>2 DEF ScheduledInv, FlushUnderWay, AwaitedInv
  <2>6. CASE Shutdown
    <3>1. Waiting' = <<>>
      BY <2>6, ShutdownEmpties
    <3>2. flushScheduled' = FALSE /\ loop' = "draining" /\ awaited' = Awaits
      BY <2>6 DEF Shutdown
    <3>3. Pending' = Awaits
      BY DEF Pending, Awaits
    <3> QED
      BY <3>1, <3>2, <3>3 DEF ScheduledInv, FlushUnderWay, AwaitedInv
  <2>7. CASE Drained
    <3>1. UNCHANGED <<batches, awaited, flushScheduled, immediates>> /\ Waiting' = Waiting
      BY <2>7, OthersKeep DEF Drained
    <3>2. Waiting = <<>>
      BY <2>7 DEF Drained, FlushUnderWay
    <3>3. Pending' = {}
      BY <2>7, <3>1 DEF Drained, AwaitedInv, Pending
    <3> QED
      BY <2>7, <3>1, <3>2, <3>3 DEF Drained, ScheduledInv, FlushUnderWay, AwaitedInv
  <2>8. CASE UNCHANGED vars
    BY <2>8, OthersKeep DEF vars, ScheduledInv, FlushUnderWay, AwaitedInv, Pending
  <2> QED
    BY <2>1, <2>2, <2>3, <2>4, <2>5, <2>6, <2>7, <2>8 DEF Next
<1>3. Inv => FlushUnderWay /\ DrainedComplete
  BY DEF FlushUnderWay, AwaitedInv, DrainedComplete
<1> QED
  BY <1>1, <1>2, <1>3, BufferTypeCorrect, PTL DEF Safety

\* The half of it that is about drain() alone: when the last of its promises
\* has settled, no event waits in the buffer and no batch is under way.
THEOREM DrainLosesNothing == Safety => []DrainedComplete
BY NoEventStranded, PTL

-----------------------------------------------------------------------------
(* Refinement *)

\* Every step of the buffer publishes in order, or lets events happen, or is a
\* stutter: events are published in the order of their pushes, each once.
THEOREM ImplementsLog == Safety => Log!Safety
<1>1. Init => Log!Init
  BY DEF Init, Log!Init, Waiting
<1>2. TypeOK /\ [Next]_vars => [Log!Next]_Log!vars
  <2> SUFFICES ASSUME TypeOK, [Next]_vars PROVE [Log!Next]_Log!vars
    OBVIOUS
  <2>0. Waiting \in Seq(Nat) /\ sent \in Seq(Nat)
    BY BufferTyped DEF TypeOK
  <2>1. \A k \in Nat : Log!Fresh(k) = Fresh(k) /\ Fresh(k) \in Seq(Nat)
    <3> TAKE k \in Nat
    <3>1. \A i \in 1..k : Len(sent) + Len(Waiting) + i \in Nat
      BY <2>0
    <3> QED
      BY <3>1 DEF Log!Fresh, Fresh
  <2>2. 0 \in 0..MaxPerTick /\ 1..MaxPerTick \subseteq 0..MaxPerTick
    BY DEF BoundsAssumption
  <2>3. Log!Fresh(0) = <<>>
    BY DEF Log!Fresh
  <2>4. CASE Waiting' = <<>> /\ sent' = sent \o Waiting
    <3>1. sent \o Waiting \in Seq(Nat)
      BY <2>0
    <3>2. sent' = (sent \o Waiting) \o Log!Fresh(0)
      BY <2>3, <2>4, <3>1, ConcatEmptySeq
    <3> QED
      BY <2>2, <2>4, <3>2 DEF Log!Next, Log!Publish
  <2>5. ASSUME NEW k \in 1..MaxPerTick, TickFlies(k) PROVE Log!Next
    <3>1. Log!Fresh(k) = Fresh(k)
      BY <2>1
    <3>2. Waiting' = Waiting \o Fresh(k) /\ sent' = sent
      BY <2>5, TickAppends
    <3> QED
      BY <2>2, <3>1, <3>2 DEF Log!Next, Log!Happen
  <2>6. ASSUME NEW k \in 1..MaxPerTick, TickCrashes(k) PROVE Log!Next
    <3>1. Waiting' = <<>> /\ sent' = sent \o (Waiting \o Fresh(k))
      BY <2>6, CrashPublishes
    <3>2. Log!Fresh(k) = Fresh(k) /\ Fresh(k) \in Seq(Nat)
      BY <2>1
    <3>3. sent \o (Waiting \o Fresh(k)) = (sent \o Waiting) \o Fresh(k)
      BY <2>0, <3>2, ConcatThree, Zenon
    <3> QED
      BY <2>2, <3>1, <3>2, <3>3 DEF Log!Next, Log!Publish
  <2>7. CASE Immediate
    BY <2>4, <2>7, ImmediatePublishes
  <2>8. CASE Shutdown
    BY <2>4, <2>8, ShutdownEmpties
  <2>9. CASE StartTicking \/ Drained \/ (\E i \in DOMAIN batches : Settles(i)) \/ UNCHANGED vars
    BY <2>9, OthersKeep DEF Log!vars
  <2> QED
    BY <2>5, <2>6, <2>7, <2>8, <2>9 DEF Next
<1> QED
  BY <1>1, <1>2, BufferTypeCorrect, PTL DEF Safety, Log!Safety
=============================================================================
