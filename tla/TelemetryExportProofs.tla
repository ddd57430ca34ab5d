------------------------ MODULE TelemetryExportProofs ------------------------
(***************************************************************************)
(* Proofs about TelemetryExport for every capacity, every set of exporters *)
(* and any number of samples.                                              *)
(***************************************************************************)
EXTENDS TelemetryExport, SequenceTheorems, TLAPS

TypeOK ==
    /\ capacity \in Nat
    /\ queue \in Seq(Nat) /\ dropped_count \in Nat /\ enqueued \in Nat
    /\ running \in BOOLEAN
    /\ mutex \in {"free", "exporter"}
    /\ mpc \in {"new", "run", "notify", "stopping", "joining", "stopped"}
    /\ epc \in {"none", "lock", "predicate", "wait", "blocked", "export", "done"}
    /\ hand \in Nat /\ exported \in Nat
    /\ delivered \in [Exporters -> Seq(Nat)]
    /\ failed \in [Exporters -> Nat]

\* The initial state is well typed.
LEMMA TypeInit == Init => TypeOK
<1> SUFFICES ASSUME Init PROVE TypeOK
  OBVIOUS
<1>1. delivered \in [Exporters -> Seq(Nat)] /\ queue \in Seq(Nat)
  BY EmptySeq DEF Init
<1> QED
  BY <1>1, CapacityAssumption DEF Init, TypeOK

\* Every step of either thread preserves the types.
LEMMA TypeStep == TypeOK /\ [Next]_allVars => TypeOK'
<1> SUFFICES ASSUME TypeOK, [Next]_allVars PROVE TypeOK'
  OBVIOUS
<1> USE DEF queueVars, exportVars, vars, allVars, TypeOK
<1>1. CASE start /\ UNCHANGED capacity
  BY <1>1 DEF start
<1>2. CASE enqueue /\ UNCHANGED capacity
  <2>0. enqueued' \in Nat /\ UNCHANGED <<capacity, running, mutex, epc, exportVars>>
    BY <1>2 DEF enqueue
  <2>1. CASE capacity = 0
    BY <1>2, <2>1 DEF enqueue
  <2>2. CASE capacity # 0 /\ Len(queue) >= capacity
    <3>1. queue # <<>> /\ enqueued + 1 \in Nat
      BY <2>2
    <3>2. Append(Tail(queue), enqueued + 1) \in Seq(Nat)
      BY <3>1, HeadTailProperties, AppendProperties
    <3>3. /\ queue' = Append(Tail(queue), enqueued + 1)
          /\ dropped_count' = dropped_count + 1
          /\ mpc' = "notify"
      BY <1>2, <2>2 DEF enqueue
    <3> QED
      BY <2>0, <3>2, <3>3
  <2>3. CASE capacity # 0 /\ Len(queue) < capacity
    <3>1. /\ queue' = Append(queue, enqueued + 1)
          /\ dropped_count' = dropped_count
          /\ mpc' = "notify"
      BY <1>2, <2>3 DEF enqueue
    <3> QED
      BY <2>0, <3>1, AppendProperties
  <2> QED
    BY <1>2, <2>1, <2>2, <2>3 DEF enqueue
<1>3. CASE notify_one /\ UNCHANGED capacity
  BY <1>3 DEF notify_one, Wake
<1>4. CASE stop /\ UNCHANGED capacity
  BY <1>4 DEF stop
<1>5. CASE notify_all /\ UNCHANGED capacity
  BY <1>5 DEF notify_all, Wake
<1>6. CASE join /\ UNCHANGED capacity
  BY <1>6 DEF join
<1>7. CASE Lock /\ UNCHANGED capacity
  BY <1>7 DEF Lock
<1>8. CASE Predicate /\ UNCHANGED capacity
  BY <1>8, HeadTailProperties DEF Predicate
<1>9. CASE Block /\ UNCHANGED capacity
  BY <1>9 DEF Block
<1>10. CASE SpuriousWakeup /\ UNCHANGED capacity
  BY <1>10 DEF SpuriousWakeup
<1>11. CASE exportSample /\ UNCHANGED capacity
  <2>1. delivered' \in [Exporters -> Seq(Nat)]
    BY <1>11, AppendProperties DEF exportSample
  <2>2. failed' \in [Exporters -> Nat]
    BY <1>11 DEF exportSample
  <2> QED
    BY <1>11, <2>1, <2>2 DEF exportSample
<1>12. CASE UNCHANGED allVars
  BY <1>12
<1> QED
  BY <1>1, <1>2, <1>3, <1>4, <1>5, <1>6, <1>7, <1>8, <1>9, <1>10, <1>11, <1>12
  DEF Next, MainThread, ExportThread

\* TypeOK holds of every reachable state.
THEOREM TypeCorrect == Spec => []TypeOK
BY TypeInit, TypeStep, PTL DEF Spec
-----------------------------------------------------------------------------
(* Conservation, the contents of the queue and the hand-over at stop().    *)

\* What the two program counters say about running_ and the queue: samples are
\* enqueued only while running_ is set, and the export thread is gone only
\* once running_ is clear and the queue is empty.
ThreadPhases ==
    /\ mpc = "new" => epc = "none"
    /\ mpc \in {"run", "notify"} => running
    /\ mpc = "stopped" => epc = "done"
    /\ epc = "done" => ~running /\ queue = <<>>

QueueInv == SampleConservation /\ QueueIsLatest /\ ThreadPhases

\* The queue is empty, nothing was counted and no thread runs at first.
LEMMA QueueInit == Init => QueueInv
BY CapacityAssumption
DEF Init, QueueInv, SampleConservation, QueueIsLatest, ThreadPhases,
    HoldCount, Holding

\* pop_front and push_back on a full queue: it keeps its length, every sample
\* moves one place and the new one is last.
LEMMA PushOut ==
    ASSUME NEW q \in Seq(Nat), Len(q) > 0, NEW n \in Nat
    PROVE  /\ Len(Append(Tail(q), n)) = Len(q)
           /\ \A i \in 1..(Len(q) - 1) : Append(Tail(q), n)[i] = q[i + 1]
           /\ Append(Tail(q), n)[Len(q)] = n
<1>1. q # <<>>
  OBVIOUS
<1>2. /\ Tail(q) \in Seq(Nat)
      /\ Len(Tail(q)) = Len(q) - 1
      /\ \A i \in 1..Len(Tail(q)) : Tail(q)[i] = q[i + 1]
  BY <1>1, HeadTailProperties
<1>3. /\ Len(Append(Tail(q), n)) = Len(Tail(q)) + 1
      /\ \A i \in 1..Len(Tail(q)) : Append(Tail(q), n)[i] = Tail(q)[i]
      /\ Append(Tail(q), n)[Len(Tail(q)) + 1] = n
  BY <1>2, AppendProperties
<1> QED
  BY <1>2, <1>3

\* enqueue leaves the queue holding the latest samples: none, the previous
\* ones less the oldest and the new one, or the previous ones and the new one.
LEMMA LatestStep ==
    ASSUME TypeOK, QueueIsLatest, enqueue, UNCHANGED capacity
    PROVE  QueueIsLatest'
<1> USE DEF TypeOK, QueueIsLatest
<1>0. /\ enqueued + 1 \in Nat /\ enqueued' = enqueued + 1 /\ capacity' = capacity
      /\ Len(queue) \in Nat
  BY DEF enqueue
<1>1. CASE capacity = 0
  <2>1. queue' = queue /\ Len(queue) = 0
    BY <1>0, <1>1 DEF enqueue
  <2> QED
    BY <1>0, <2>1
<1>2. CASE capacity # 0 /\ Len(queue) >= capacity
  <2>1. queue' = Append(Tail(queue), enqueued + 1)
    BY <1>2 DEF enqueue
  <2>2. /\ Len(queue') = Len(queue)
        /\ \A i \in 1..(Len(queue) - 1) : queue'[i] = queue[i + 1]
        /\ queue'[Len(queue)] = enqueued + 1
    BY <1>0, <1>2, <2>1, PushOut
  <2>3. ASSUME NEW i \in 1..Len(queue)
        PROVE  queue'[i] = enqueued + 1 - Len(queue) + i
    <3>1. CASE i < Len(queue)
      <4>1. i + 1 \in 1..Len(queue) /\ queue'[i] = queue[i + 1]
        BY <1>0, <2>2, <3>1
      <4> QED
        BY <1>0, <4>1
    <3>2. CASE i = Len(queue)
      <4>1. queue'[i] = enqueued + 1
        BY <1>0, <2>2, <3>2
      <4> QED
        BY <1>0, <3>2, <4>1
    <3> QED
      BY <1>0, <3>1, <3>2
  <2> QED
    BY <1>0, <2>2, <2>3
<1>3. CASE capacity # 0 /\ Len(queue) < capacity
  <2>1. queue' = Append(queue, enqueued + 1)
    BY <1>3 DEF enqueue
  <2>2. /\ Len(queue') = Len(queue) + 1
        /\ \A i \in 1..Len(queue) : queue'[i] = queue[i]
        /\ queue'[Len(queue) + 1] = enqueued + 1
    BY <1>0, <2>1, AppendProperties
  <2>3. ASSUME NEW i \in 1..Len(queue')
        PROVE  queue'[i] = enqueued - Len(queue) + i
    <3>1. CASE i \in 1..Len(queue)
      BY <2>2, <3>1
    <3>2. CASE i = Len(queue) + 1
      BY <1>0, <2>2, <3>2
    <3> QED
      BY <1>0, <2>2, <3>1, <3>2
  <2>4. enqueued' - Len(queue') = enqueued - Len(queue)
    BY <1>0, <2>2
  <2> QED
    BY <1>0, <1>3, <2>2, <2>3, <2>4
<1> QED
  BY <1>0, <1>1, <1>2, <1>3

\* Every step of either thread preserves conservation, the contents of the
\* queue and the phases.
LEMMA QueueStep == TypeOK /\ QueueInv /\ [Next]_allVars => QueueInv'
<1> SUFFICES ASSUME TypeOK, QueueInv, [Next]_allVars PROVE QueueInv'
  OBVIOUS
<1> USE DEF queueVars, exportVars, vars, allVars, QueueInv, SampleConservation,
            QueueIsLatest, ThreadPhases, HoldCount, Holding
<1>1. CASE start /\ UNCHANGED capacity
  BY <1>1 DEF start, TypeOK
<1>2. CASE enqueue /\ UNCHANGED capacity
  <2> HIDE DEF QueueInv, SampleConservation, QueueIsLatest, ThreadPhases
  <2>0. /\ mpc = "run" /\ running /\ epc # "done"
        /\ enqueued' = enqueued + 1
        /\ mpc' \in {"run", "notify"}
        /\ UNCHANGED <<capacity, running, mutex, epc, exportVars>>
    BY <1>2 DEF enqueue, QueueInv, ThreadPhases
  <2>1. ThreadPhases'
    BY <2>0 DEF ThreadPhases
  <2>2. QueueIsLatest'
    BY <1>2, LatestStep DEF QueueInv
  <2>3. SampleConservation'
    <3>1. \/ dropped_count' = dropped_count + 1 /\ Len(queue') = Len(queue)
          \/ dropped_count' = dropped_count /\ Len(queue') = Len(queue) + 1
      BY <1>2, PushOut, AppendProperties DEF enqueue, TypeOK
    <3>2. /\ dropped_count \in Nat /\ Len(queue) \in Nat
          /\ HoldCount \in Nat /\ exported \in Nat /\ enqueued \in Nat
      BY DEF TypeOK
    <3>3. HoldCount' = HoldCount /\ exported' = exported /\ enqueued' = enqueued + 1
      BY <2>0
    <3>4. enqueued = dropped_count + Len(queue) + HoldCount + exported
      BY DEF QueueInv, SampleConservation
    <3> HIDE DEF HoldCount
    <3> QED
      BY <3>1, <3>2, <3>3, <3>4 DEF SampleConservation
  <2> QED
    BY <2>1, <2>2, <2>3 DEF QueueInv
<1>3. CASE notify_one /\ UNCHANGED capacity
  BY <1>3 DEF notify_one, Wake, TypeOK
<1>4. CASE stop /\ UNCHANGED capacity
  BY <1>4 DEF stop, TypeOK
<1>5. CASE notify_all /\ UNCHANGED capacity
  BY <1>5 DEF notify_all, Wake, TypeOK
<1>6. CASE join /\ UNCHANGED capacity
  BY <1>6 DEF join, TypeOK
<1>7. CASE Lock /\ UNCHANGED capacity
  BY <1>7 DEF Lock, TypeOK
<1>8. CASE Predicate /\ UNCHANGED capacity
  <2>1. CASE queue # <<>>
    <3>1. /\ queue' = Tail(queue) /\ epc' = "export"
          /\ UNCHANGED <<dropped_count, enqueued, running, mpc, exported, capacity>>
      BY <1>8, <2>1 DEF Predicate
    <3>2. /\ Len(queue') = Len(queue) - 1
          /\ \A i \in 1..Len(queue') : queue'[i] = queue[i + 1]
      BY <2>1, <3>1, HeadTailProperties DEF TypeOK
    <3> QED
      BY <1>8, <3>1, <3>2 DEF TypeOK, Predicate
  <2>2. CASE queue = <<>>
    BY <1>8, <2>2 DEF TypeOK, Predicate
  <2> QED
    BY <2>1, <2>2
<1>9. CASE Block /\ UNCHANGED capacity
  BY <1>9 DEF Block, TypeOK
<1>10. CASE SpuriousWakeup /\ UNCHANGED capacity
  BY <1>10 DEF SpuriousWakeup, TypeOK
<1>11. CASE exportSample /\ UNCHANGED capacity
  BY <1>11 DEF exportSample, TypeOK
<1>12. CASE UNCHANGED allVars
  BY <1>12
<1> QED
  BY <1>1, <1>2, <1>3, <1>4, <1>5, <1>6, <1>7, <1>8, <1>9, <1>10, <1>11, <1>12
  DEF Next, MainThread, ExportThread

\* QueueInv holds of every reachable state.
LEMMA QueueCorrect == Spec => []QueueInv
BY TypeCorrect, QueueInit, QueueStep, PTL DEF Spec

\* Every sample given to enqueue was dropped, is queued, is in the export
\* thread's hand or was exported, for every capacity (0 disables the queue).
THEOREM SampleConservationCorrect == Spec => []SampleConservation
<1>1. QueueInv => SampleConservation
  BY DEF QueueInv
<1> QED
  BY QueueCorrect, <1>1, PTL

\* The queue holds the latest samples, in order, without a gap and within its
\* capacity.
THEOREM QueueIsLatestCorrect == Spec => []QueueIsLatest
<1>1. QueueInv => QueueIsLatest
  BY DEF QueueInv
<1> QED
  BY QueueCorrect, <1>1, PTL

\* When stop() returns the export thread has drained the queue, although
\* running_ is cleared without the mutex.
THEOREM StoppedMeansDrainedCorrect == Spec => []StoppedMeansDrained
<1>1. TypeOK /\ QueueInv => StoppedMeansDrained
  <2> SUFFICES ASSUME TypeOK, QueueInv, mpc = "stopped"
               PROVE  enqueued = dropped_count + exported
    BY DEF StoppedMeansDrained
  <2>1. epc = "done" /\ queue = <<>>
    BY DEF QueueInv, ThreadPhases
  <2>2. HoldCount = 0 /\ Len(queue) = 0
    BY <2>1 DEF HoldCount, Holding
  <2> QED
    BY <2>2 DEF QueueInv, SampleConservation, TypeOK
<1> QED
  BY TypeCorrect, QueueCorrect, <1>1, PTL
-----------------------------------------------------------------------------
(* What the exporters see.                                                 *)

\* exportSample offers the sample to every exporter, whichever of them throw:
\* an exporter accepts it as its latest sample or counts one more failure.
LEMMA Offered ==
    ASSUME TypeOK, exportSample, NEW e \in Exporters
    PROVE  \/ delivered'[e] = Append(delivered[e], hand) /\ failed'[e] = failed[e]
           \/ delivered'[e] = delivered[e] /\ failed'[e] = failed[e] + 1
BY DEF exportSample

\* Every step preserves ExporterIsolation.
LEMMA IsolationStep ==
    TypeOK /\ ExporterIsolation /\ [Next]_allVars => ExporterIsolation'
<1> SUFFICES ASSUME TypeOK, ExporterIsolation, [Next]_allVars,
                    NEW e \in Exporters
             PROVE  Len(delivered'[e]) + failed'[e] = exported'
  BY DEF ExporterIsolation
<1>0. /\ delivered[e] \in Seq(Nat) /\ failed[e] \in Nat /\ exported \in Nat
      /\ hand \in Nat /\ Len(delivered[e]) \in Nat
      /\ Len(delivered[e]) + failed[e] = exported
  BY DEF TypeOK, ExporterIsolation
<1>1. CASE exportSample
  <2>1. exported' = exported + 1
    BY <1>1 DEF exportSample
  <2>2. Len(Append(delivered[e], hand)) = Len(delivered[e]) + 1
    BY <1>0, AppendProperties
  <2>3. \/ Len(delivered'[e]) = Len(delivered[e]) + 1 /\ failed'[e] = failed[e]
        \/ Len(delivered'[e]) = Len(delivered[e]) /\ failed'[e] = failed[e] + 1
    BY <1>1, <2>2, Offered
  <2>4. CASE Len(delivered'[e]) = Len(delivered[e]) + 1 /\ failed'[e] = failed[e]
    BY <1>0, <2>1, <2>4
  <2>5. CASE Len(delivered'[e]) = Len(delivered[e]) /\ failed'[e] = failed[e] + 1
    BY <1>0, <2>1, <2>5
  <2> QED
    BY <2>3, <2>4, <2>5
<1>2. CASE UNCHANGED <<exported, delivered, failed>>
  BY <1>0, <1>2
<1> QED
  BY <1>1, <1>2 DEF Next, MainThread, ExportThread, start, stop, enqueue,
     notify_one, notify_all, join, Lock, Predicate, Block, SpuriousWakeup,
     allVars, vars, queueVars, exportVars

\* An exporter that throws costs no other exporter a sample.
THEOREM ExporterIsolationCorrect == Spec => []ExporterIsolation
<1>1. Init => ExporterIsolation
  BY EmptySeq DEF Init, ExporterIsolation
<1> QED
  BY <1>1, TypeCorrect, IsolationStep, PTL DEF Spec

\* The samples that left the queue, dropped or taken, are 1..Passed.
Passed == enqueued - Len(queue)

\* Accepted samples left the queue, as did the one in hand.
SeenPassed ==
    /\ \A e \in Exporters : \A i \in 1..Len(delivered[e]) :
          delivered[e][i] =< Passed
    /\ Holding => hand =< Passed

DeliveryInv == DeliveredInOrder /\ SeenPassed

\* No exporter has seen a sample at first.
LEMMA DeliveryInit == Init => DeliveryInv
<1> SUFFICES ASSUME Init PROVE DeliveryInv
  OBVIOUS
<1>1. \A e \in Exporters : Len(delivered[e]) = 0
  BY EmptySeq DEF Init
<1>2. ~Holding
  BY DEF Init, Holding
<1> QED
  BY <1>1, <1>2 DEF DeliveryInv, DeliveredInOrder, SeenPassed

\* Samples only ever leave the queue: Passed never decreases.
LEMMA PassedGrows ==
    ASSUME TypeOK, QueueInv, [Next]_allVars
    PROVE  Passed \in Int /\ Passed' \in Int /\ Passed =< Passed'
<1>0. enqueued \in Nat /\ Len(queue) \in Nat
  BY DEF TypeOK
<1>1. CASE enqueue
  <2>1. enqueued' = enqueued + 1
    BY <1>1 DEF enqueue
  <2>2. Len(queue') = Len(queue) \/ Len(queue') = Len(queue) + 1
    BY <1>1, PushOut, AppendProperties DEF enqueue, TypeOK
  <2> QED
    BY <1>0, <2>1, <2>2 DEF Passed
<1>2. CASE Predicate
  <2>1. enqueued' = enqueued
    BY <1>2 DEF Predicate
  <2>2. CASE queue # <<>>
    <3>1. queue' = Tail(queue)
      BY <1>2, <2>2 DEF Predicate
    <3>2. Len(queue') = Len(queue) - 1
      BY <2>2, <3>1, HeadTailProperties DEF TypeOK
    <3> QED
      BY <1>0, <2>1, <3>2 DEF Passed
  <2>3. CASE queue = <<>>
    BY <1>0, <1>2, <2>1, <2>3 DEF Predicate, Passed
  <2> QED
    BY <2>2, <2>3
<1>3. CASE UNCHANGED <<enqueued, queue>>
  BY <1>0, <1>3 DEF Passed
<1> QED
  BY <1>1, <1>2, <1>3 DEF Next, MainThread, ExportThread, start, stop,
     notify_one, notify_all, join, Lock, Block, SpuriousWakeup, exportSample,
     allVars, vars, queueVars, exportVars

\* The export thread takes the oldest sample that has not left the queue.
LEMMA TakesOldest ==
    ASSUME TypeOK, QueueInv, Predicate, queue # <<>>
    PROVE  hand' = Passed + 1 /\ Passed' = Passed + 1
<1>1. hand' = Head(queue) /\ queue' = Tail(queue) /\ enqueued' = enqueued
  BY DEF Predicate
<1>2. /\ Len(queue') = Len(queue) - 1
      /\ Len(queue) > 0 /\ Len(queue) \in Nat /\ enqueued \in Nat
  BY <1>1, HeadTailProperties, EmptySeq DEF TypeOK
<1>3. Head(queue) = enqueued - Len(queue) + 1
  BY <1>2 DEF QueueInv, QueueIsLatest, TypeOK
<1> QED
  BY <1>1, <1>2, <1>3 DEF Passed

\* Every step preserves the order of delivery.
LEMMA DeliveryStep ==
    TypeOK /\ QueueInv /\ DeliveryInv /\ [Next]_allVars => DeliveryInv'
<1> SUFFICES ASSUME TypeOK, QueueInv, DeliveryInv, [Next]_allVars
             PROVE  DeliveryInv'
  OBVIOUS
<1> USE DEF DeliveryInv, DeliveredInOrder, SeenPassed
<1>0. /\ Passed \in Int /\ Passed' \in Int /\ Passed =< Passed'
      /\ hand \in Nat
      /\ \A e \in Exporters : /\ delivered[e] \in Seq(Nat)
                              /\ Len(delivered[e]) \in Nat
                              /\ \A i \in 1..Len(delivered[e]) : delivered[e][i] \in Nat
  BY PassedGrows, ElementOfSeq DEF TypeOK
<1>1. CASE exportSample
  <2>1. ~Holding' /\ Holding
    BY <1>1 DEF exportSample, Holding
  <2>2. ASSUME NEW e \in Exporters
        PROVE  /\ \A i \in 1..Len(delivered'[e]) : delivered'[e][i] =< Passed'
               /\ \A i, j \in 1..Len(delivered'[e]) :
                     i < j => delivered'[e][i] < delivered'[e][j]
    <3>1. CASE delivered'[e] = delivered[e]
      BY <1>0, <3>1
    <3>2. CASE delivered'[e] = Append(delivered[e], hand)
      <4>1. /\ Len(delivered'[e]) = Len(delivered[e]) + 1
            /\ \A i \in 1..Len(delivered[e]) : delivered'[e][i] = delivered[e][i]
            /\ delivered'[e][Len(delivered[e]) + 1] = hand
        BY <1>0, <3>2, AppendProperties
      <4>2. hand =< Passed
        BY <2>1
      <4>3. \A i \in 1..Len(delivered[e]) : delivered[e][i] < hand
        BY <2>1
      <4>4. \A i \in 1..Len(delivered'[e]) :
               i \in 1..Len(delivered[e]) \/ i = Len(delivered[e]) + 1
        BY <1>0, <4>1
      <4>5. ASSUME NEW i \in 1..Len(delivered'[e])
            PROVE  delivered'[e][i] =< Passed'
        <5>1. CASE i \in 1..Len(delivered[e])
          BY <1>0, <4>1, <5>1
        <5>2. CASE i = Len(delivered[e]) + 1
          BY <1>0, <4>1, <4>2, <5>2
        <5> QED
          BY <4>4, <5>1, <5>2
      <4>6. ASSUME NEW i \in 1..Len(delivered'[e]),
                   NEW j \in 1..Len(delivered'[e]), i < j
            PROVE  delivered'[e][i] < delivered'[e][j]
        <5>1. i \in 1..Len(delivered[e])
          BY <1>0, <4>1, <4>6
        <5>2. CASE j \in 1..Len(delivered[e])
          BY <4>1, <4>6, <5>1, <5>2
        <5>3. CASE j = Len(delivered[e]) + 1
          BY <4>1, <4>3, <5>1, <5>3
        <5> QED
          BY <4>4, <5>2, <5>3
      <4> QED
        BY <4>5, <4>6
    <3> QED
      BY <1>1, <3>1, <3>2, Offered
  <2> QED
    BY <2>1, <2>2
<1>2. CASE Predicate /\ queue # <<>>
  <2>1. delivered' = delivered
    BY <1>2 DEF Predicate
  <2>2. hand' = Passed + 1 /\ Passed' = Passed + 1
    BY <1>2, TakesOldest
  <2>3. \A e \in Exporters : \A i \in 1..Len(delivered[e]) :
           delivered[e][i] < hand' /\ delivered[e][i] =< Passed'
    BY <1>0, <2>2
  <2>4. hand' =< Passed'
    BY <1>0, <2>2
  <2> QED
    BY <2>1, <2>3, <2>4
<1>3. CASE delivered' = delivered /\ (Holding' => Holding) /\ hand' = hand
  <2>1. \A e \in Exporters : \A i \in 1..Len(delivered[e]) :
           delivered[e][i] =< Passed'
    BY <1>0
  <2> QED
    BY <1>0, <1>3, <2>1
<1> QED
  BY <1>1, <1>2, <1>3 DEF Next, MainThread, ExportThread, start, stop, enqueue,
     notify_one, notify_all, Wake, join, Lock, Predicate, Block, SpuriousWakeup,
     Holding, allVars, vars, queueVars, exportVars

\* Every exporter sees samples in the order they were taken, each at most once,
\* although the queue drops its oldest samples meanwhile.
THEOREM DeliveredInOrderCorrect == Spec => []DeliveredInOrder
<1>1. DeliveryInv => DeliveredInOrder
  BY DEF DeliveryInv
<1> QED
  BY <1>1, TypeCorrect, QueueCorrect, DeliveryInit, DeliveryStep, PTL DEF Spec
==============================================================================
