------------------------ MODULE PacketPipelineProofs ------------------------
(***************************************************************************)
(* Proofs about PacketPipeline for every queue limit, budget, burst set    *)
(* and failure configuration.                                              *)
(***************************************************************************)
EXTENDS PacketPipeline, SequenceTheorems, FiniteSetTheorems,
        WellFoundedInduction, TLAPS

\* A command's burst consists of packets.
LEMMA BurstType ==
    ASSUME NEW b \in Bursts
    PROVE  b \in Seq(Packets)
<1>1. b \in Seq({p \in Packets : p.src = "control"})
  BY BurstAssumption
<1>2. {p \in Packets : p.src = "control"} \subseteq Packets
  OBVIOUS
<1> QED
  BY <1>1, <1>2

\* handleInjectedFailure maps every failure type to a drop reason.
LEMMA FailureReasonType ==
    ASSUME NEW f PROVE FailureReason(f) \in DropReasons
BY DEF FailureReason, DropReasons

\* The terminal callbacks of PacketStats keep the counters natural numbers.
TerminalType ==
    /\ completed \in SUBSET Nat
    /\ processed_packets \in Nat
    /\ drop_counters \in [DropReasons -> Nat]
    /\ terminal_events \in Nat
    /\ duplicate_events \in Nat

\* PacketStats' PacketProcessed callback keeps the terminal counters well typed.
LEMMA ProcessedType ==
    ASSUME TerminalType, NEW id \in Nat, OnPacketProcessed(id)
    PROVE  TerminalType'
<1>1. completed' \in SUBSET Nat
  BY DEF TerminalType, OnPacketProcessed, DuplicateTerminal
<1>2. drop_counters' \in [DropReasons -> Nat]
  BY DEF TerminalType, OnPacketProcessed, DuplicateTerminal
<1>3. /\ processed_packets' \in Nat
      /\ terminal_events' \in Nat
      /\ duplicate_events' \in Nat
  BY DEF TerminalType, OnPacketProcessed, DuplicateTerminal
<1> QED
  BY <1>1, <1>2, <1>3 DEF TerminalType

\* So does its PacketDropped callback, whatever the reason.
LEMMA DroppedType ==
    ASSUME TerminalType, NEW id \in Nat, NEW r \in DropReasons,
           OnPacketDropped(id, r)
    PROVE  TerminalType'
<1>1. completed' \in SUBSET Nat
  BY DEF TerminalType, OnPacketDropped, DuplicateTerminal
<1>2. drop_counters' \in [DropReasons -> Nat]
  BY DEF TerminalType, OnPacketDropped, DuplicateTerminal
<1>3. /\ processed_packets' \in Nat
      /\ terminal_events' \in Nat
      /\ duplicate_events' \in Nat
  BY DEF TerminalType, OnPacketDropped, DuplicateTerminal
<1> QED
  BY <1>1, <1>2, <1>3 DEF TerminalType

\* Every step of the pipeline preserves the type invariant.
LEMMA TypeStep == TypeOK /\ [Next]_vars => TypeOK'
<1> SUFFICES ASSUME TypeOK, [Next]_vars PROVE TypeOK'
  OBVIOUS
<1> USE QueueAssumption DEF epollVars, sourceVars, workerVars, terminalVars,
        statsVars
<1>1. ASSUME NEW kind \in DatagramKinds, Arrive(kind) PROVE TypeOK'
  BY <1>1 DEF TypeOK, Arrive
<1>2. CASE UdpReady
  BY <1>2 DEF TypeOK, UdpReady
<1>3. CASE Receive
  <2>1. /\ socket' \in Seq(DatagramKinds)
        /\ nextLifecycle' \in Nat \ {0}
        /\ packets_processed' \in 0..MaxPacketsPerWakeup
    BY <1>3 DEF TypeOK, Receive
  <2>2. hand' \in Packets
    BY <1>3 DEF TypeOK, Receive, Packets
  <2>3. /\ pc' \in {"reject", "inject"}
        /\ reason' \in DropReasons
    BY <1>3 DEF TypeOK, Receive, DropReasons
  <2> QED
    BY <1>3, <2>1, <2>2, <2>3 DEF TypeOK, Receive
<1>4. CASE ReceiveNoData
  BY <1>4 DEF TypeOK, ReceiveNoData
<1>5. CASE ReceiveFailed
  BY <1>5 DEF TypeOK, ReceiveFailed
<1>6. CASE BudgetExhausted
  BY <1>6 DEF TypeOK, BudgetExhausted
<1>7. CASE PublishReject
  <2>1. hand.lifecycle_id \in Nat
    BY DEF TypeOK, Packets
  <2> QED
    BY <1>7, <2>1, DroppedType DEF TypeOK, TerminalType, PublishReject
<1>8. ASSUME NEW b \in Bursts, SendPacket(b) PROVE TypeOK'
  BY <1>8, BurstType DEF TypeOK, SendPacket
<1>9. CASE PublishNext
  <2>1. Head(burst) \in Packets /\ Tail(burst) \in Seq(Packets)
    BY <1>9 DEF TypeOK, PublishNext
  <2>2. Head(burst).lifecycle_id \in Nat
    BY <2>1 DEF Packets
  <2>3. sentIds \cup {Head(burst).lifecycle_id} \subseteq Nat
    BY <2>2 DEF TypeOK
  <2> QED
    BY <1>9, <2>1, <2>3 DEF TypeOK, PublishNext
<1>10. CASE BurstDone
  BY <1>10 DEF TypeOK, BurstDone
<1>11. CASE Inject
  <2>1. seen_packets' \in Nat
    BY <1>11 DEF TypeOK, Inject
  <2>2. pc' \in {"drop", "enqueue"} /\ reason' \in DropReasons
    BY <1>11, FailureReasonType DEF TypeOK, Inject
  <2> QED
    BY <1>11, <2>1, <2>2 DEF TypeOK, Inject
<1>12. CASE Enqueue
  <2>1. pc' \in {"drop", "count"} /\ reason' \in DropReasons
    BY <1>12 DEF TypeOK, Enqueue, DropReasons
  <2>2. queue' \in Seq(Packets) /\ Len(queue') =< MAX_QUEUE_SIZE
    <3>1. CASE queue' = queue
      BY <3>1 DEF TypeOK
    <3>2. CASE queue' = Append(queue, hand) /\ Len(queue) < MAX_QUEUE_SIZE
      BY <3>2 DEF TypeOK
    <3> QED
      BY <1>12, <3>1, <3>2 DEF Enqueue
  <2> QED
    BY <1>12, <2>1, <2>2 DEF TypeOK, Enqueue
<1>13. CASE PublishDrop
  <2>1. hand.lifecycle_id \in Nat
    BY DEF TypeOK, Packets
  <2> QED
    BY <1>13, <2>1, DroppedType DEF TypeOK, TerminalType, PublishDrop
<1>14. CASE CountIngress
  BY <1>14 DEF TypeOK, CountIngress
<1>15. CASE WorkerTake
  <2>1. Head(queue) \in Packets /\ Tail(queue) \in Seq(Packets)
        /\ Len(Tail(queue)) =< MAX_QUEUE_SIZE
    BY <1>15 DEF TypeOK, WorkerTake
  <2> QED
    BY <1>15, <2>1 DEF TypeOK, WorkerTake
<1>16. CASE WorkerReject
  <2>1. wpacket.lifecycle_id \in Nat /\ "ValidationError" \in DropReasons
    BY DEF TypeOK, Packets, DropReasons
  <2> QED
    BY <1>16, <2>1, DroppedType DEF TypeOK, TerminalType, WorkerReject
<1>17. CASE WorkerForward
  BY <1>17 DEF TypeOK, WorkerForward
<1>18. CASE WorkerPublish
  <2>1. wpacket.lifecycle_id \in Nat
    BY DEF TypeOK, Packets
  <2> QED
    BY <1>18, <2>1, ProcessedType DEF TypeOK, TerminalType, WorkerPublish
<1>19. CASE UNCHANGED vars
  BY <1>19 DEF TypeOK, vars
<1> QED
  BY <1>1, <1>2, <1>3, <1>4, <1>5, <1>6, <1>7, <1>8, <1>9, <1>10, <1>11,
     <1>12, <1>13, <1>14, <1>15, <1>16, <1>17, <1>18, <1>19
  DEF Next, EpollThread, Worker, Environment

\* The initial state is well typed.
LEMMA TypeInit == Init => TypeOK
BY QueueAssumption DEF Init, TypeOK, NoPacket, Packets, DropReasons

\* TypeOK holds of every reachable state: in particular admission never lets
\* the queue grow past MAX_QUEUE_SIZE.
THEOREM TypeCorrect == Spec => []TypeOK
BY TypeInit, TypeStep, PTL DEF Spec
-----------------------------------------------------------------------------
(* Conservation and the bound on pending_terminal_events.                  *)

\* A terminal callback moves exactly one of terminal_events and
\* duplicate_events, by one.
LEMMA ProcessedCounts ==
    ASSUME TerminalType, NEW id \in Nat, OnPacketProcessed(id)
    PROVE  \/ /\ terminal_events' = terminal_events + 1
              /\ duplicate_events' = duplicate_events
           \/ /\ terminal_events' = terminal_events
              /\ duplicate_events' = duplicate_events + 1
BY DEF TerminalType, OnPacketProcessed, DuplicateTerminal

\* The same for the PacketDropped callback.
LEMMA DroppedCounts ==
    ASSUME TerminalType, NEW id \in Nat, NEW r \in DropReasons,
           OnPacketDropped(id, r)
    PROVE  \/ /\ terminal_events' = terminal_events + 1
              /\ duplicate_events' = duplicate_events
           \/ /\ terminal_events' = terminal_events
              /\ duplicate_events' = duplicate_events + 1
BY DEF TerminalType, OnPacketDropped, DuplicateTerminal

\* PacketRx is counted last: what is in the publisher's hand or about to be
\* counted is not in ingress_packets yet.
CountDue == IF pc = "count" THEN 1 ELSE 0

IngressBehind ==
    ingress_packets + HandCount + CountDue
        =< (nextLifecycle - 1) + sent

Counting == Conservation /\ IngressBehind

\* Before the first datagram nothing is counted and nothing is in flight.
LEMMA CountingInit == Init => Counting
BY DEF Init, Counting, Conservation, IngressBehind, CountDue, HandCount,
        WorkerCount, HandHolds, WorkerHolds

\* Each step moves a packet between two places of the count, or brings one
\* in together with its id, so the balance is kept.
LEMMA CountingStep == TypeOK /\ Counting /\ [Next]_vars => Counting'
<1> SUFFICES ASSUME TypeOK, Counting, [Next]_vars PROVE Counting'
  OBVIOUS
<1> USE DEF epollVars, sourceVars, workerVars, terminalVars, statsVars,
        Counting, Conservation, IngressBehind, CountDue, HandCount,
        WorkerCount, HandHolds, WorkerHolds
<1>0. /\ nextLifecycle \in Nat /\ sent \in Nat /\ ingress_packets \in Nat
      /\ terminal_events \in Nat /\ duplicate_events \in Nat
      /\ queue \in Seq(Packets) /\ Len(queue) \in Nat
      /\ hand \in Packets /\ TerminalType
  BY DEF TypeOK, TerminalType
<1>a. hand.lifecycle_id \in Nat /\ wpacket.lifecycle_id \in Nat
  BY DEF TypeOK, Packets
<1>b. reason \in DropReasons /\ "ValidationError" \in DropReasons
  BY DEF TypeOK, DropReasons
<1>1. ASSUME NEW kind \in DatagramKinds, Arrive(kind) PROVE Counting'
  BY <1>0, <1>1 DEF Arrive
<1>2. CASE UdpReady
  BY <1>0, <1>2 DEF UdpReady
<1>3. CASE Receive
  <2>1. /\ pc = "recv" /\ pc' \in {"reject", "inject"}
        /\ nextLifecycle' = nextLifecycle + 1
        /\ UNCHANGED <<sent, queue, wpc, terminal_events, duplicate_events,
                       ingress_packets>>
    BY <1>3 DEF Receive
  <2> QED
    BY <1>0, <2>1
<1>4. CASE ReceiveNoData
  BY <1>0, <1>4 DEF ReceiveNoData
<1>5. CASE ReceiveFailed
  BY <1>0, <1>5 DEF ReceiveFailed
<1>6. CASE BudgetExhausted
  BY <1>0, <1>6 DEF BudgetExhausted
<1>7. CASE PublishReject
  <2>1. \/ /\ terminal_events' = terminal_events + 1
           /\ duplicate_events' = duplicate_events
        \/ /\ terminal_events' = terminal_events
           /\ duplicate_events' = duplicate_events + 1
    BY <1>0, <1>a, <1>b, <1>7, DroppedCounts DEF PublishReject
  <2>2. /\ pc = "reject" /\ pc' = "recv"
        /\ UNCHANGED <<nextLifecycle, sent, queue, wpc, ingress_packets>>
    BY <1>7 DEF PublishReject
  <2>3. /\ HandCount = 1 /\ HandCount' = 0
        /\ WorkerCount \in Nat /\ WorkerCount' = WorkerCount
        /\ CountDue = 0 /\ CountDue' = 0
    BY <2>2
  <2> HIDE DEF HandCount, WorkerCount, CountDue
  <2> QED
    BY <1>0, <2>1, <2>2, <2>3
<1>8. ASSUME NEW b \in Bursts, SendPacket(b) PROVE Counting'
  BY <1>0, <1>8 DEF SendPacket
<1>9. CASE PublishNext
  BY <1>0, <1>9 DEF PublishNext
<1>10. CASE BurstDone
  BY <1>0, <1>10 DEF BurstDone
<1>11. CASE Inject
  <2>1. pc = "inject" /\ pc' \in {"drop", "enqueue"}
    BY <1>11 DEF Inject
  <2> QED
    BY <1>0, <1>11, <2>1 DEF Inject
<1>12. CASE Enqueue
  <2>1. CASE pc' = "drop" /\ queue' = queue
    BY <1>0, <1>12, <2>1 DEF Enqueue
  <2>2. CASE pc' = "count" /\ queue' = Append(queue, hand)
    <3>1. Len(queue') = Len(queue) + 1
      BY <1>0, <2>2
    <3> QED
      BY <1>0, <1>12, <2>2, <3>1 DEF Enqueue
  <2> QED
    BY <1>12, <2>1, <2>2 DEF Enqueue
<1>13. CASE PublishDrop
  <2>1. \/ /\ terminal_events' = terminal_events + 1
           /\ duplicate_events' = duplicate_events
        \/ /\ terminal_events' = terminal_events
           /\ duplicate_events' = duplicate_events + 1
    BY <1>0, <1>a, <1>b, <1>13, DroppedCounts DEF PublishDrop
  <2>2. /\ pc = "drop" /\ pc' = "count"
        /\ UNCHANGED <<nextLifecycle, sent, queue, wpc, ingress_packets>>
    BY <1>13 DEF PublishDrop
  <2>3. /\ HandCount = 1 /\ HandCount' = 0
        /\ WorkerCount \in Nat /\ WorkerCount' = WorkerCount
        /\ CountDue = 0 /\ CountDue' = 1
    BY <2>2
  <2> HIDE DEF HandCount, WorkerCount, CountDue
  <2> QED
    BY <1>0, <2>1, <2>2, <2>3
<1>14. CASE CountIngress
  BY <1>0, <1>14 DEF CountIngress
<1>15. CASE WorkerTake
  <2>1. Len(queue') = Len(queue) - 1
    BY <1>0, <1>15 DEF WorkerTake
  <2> QED
    BY <1>0, <1>15, <2>1 DEF WorkerTake
<1>16. CASE WorkerReject
  <2>1. \/ /\ terminal_events' = terminal_events + 1
           /\ duplicate_events' = duplicate_events
        \/ /\ terminal_events' = terminal_events
           /\ duplicate_events' = duplicate_events + 1
    BY <1>0, <1>a, <1>b, <1>16, DroppedCounts DEF WorkerReject
  <2>2. /\ wpc = "check" /\ wpc' = "wait"
        /\ UNCHANGED <<nextLifecycle, sent, queue, pc, ingress_packets>>
    BY <1>16 DEF WorkerReject
  <2>3. /\ WorkerCount = 1 /\ WorkerCount' = 0
        /\ HandCount \in Nat /\ HandCount' = HandCount
        /\ CountDue \in Nat /\ CountDue' = CountDue
    BY <2>2
  <2> HIDE DEF HandCount, WorkerCount, CountDue
  <2> QED
    BY <1>0, <2>1, <2>2, <2>3
<1>17. CASE WorkerForward
  BY <1>0, <1>17 DEF WorkerForward
<1>18. CASE WorkerPublish
  <2>1. \/ /\ terminal_events' = terminal_events + 1
           /\ duplicate_events' = duplicate_events
        \/ /\ terminal_events' = terminal_events
           /\ duplicate_events' = duplicate_events + 1
    BY <1>0, <1>a, <1>18, ProcessedCounts DEF WorkerPublish
  <2>2. /\ wpc \in {"check", "publish"} /\ wpc' = "wait"
        /\ UNCHANGED <<nextLifecycle, sent, queue, pc, ingress_packets>>
    BY <1>18 DEF WorkerPublish
  <2>3. /\ WorkerCount = 1 /\ WorkerCount' = 0
        /\ HandCount \in Nat /\ HandCount' = HandCount
        /\ CountDue \in Nat /\ CountDue' = CountDue
    BY <2>2
  <2> HIDE DEF HandCount, WorkerCount, CountDue
  <2> QED
    BY <1>0, <2>1, <2>2, <2>3
<1>19. CASE UNCHANGED vars
  BY <1>0, <1>19 DEF vars
<1> QED
  BY <1>1, <1>2, <1>3, <1>4, <1>5, <1>6, <1>7, <1>8, <1>9, <1>10, <1>11,
     <1>12, <1>13, <1>14, <1>15, <1>16, <1>17, <1>18, <1>19
  DEF Next, EpollThread, Worker, Environment

\* The balance, with the bound on what PacketStats has counted as ingress,
\* holds of every reachable state.
LEMMA CountingCorrect == Spec => []Counting
BY TypeCorrect, CountingInit, CountingStep, PTL DEF Spec

\* No packet is lost or counted twice between the source that numbers it and
\* the terminal counters, for every queue limit and failure configuration.
THEOREM ConservationCorrect == Spec => []Conservation
<1>1. Counting => Conservation
  BY DEF Counting
<1> QED
  BY <1>1, CountingCorrect, PTL

\* pending_terminal_events exceeds a full queue plus the worker's packet by
\* no more than the number of duplicate terminal events.
THEOREM PendingBoundedCorrect == Spec => []PendingBounded
<1>1. TypeOK /\ Counting => PendingBounded
  <2> SUFFICES ASSUME TypeOK, Counting PROVE PendingBounded
    OBVIOUS
  <2>1. /\ nextLifecycle \in Nat /\ sent \in Nat /\ ingress_packets \in Nat
        /\ terminal_events \in Nat /\ duplicate_events \in Nat
        /\ Len(queue) \in Nat /\ Len(queue) =< MAX_QUEUE_SIZE
        /\ MAX_QUEUE_SIZE \in Nat
    BY QueueAssumption DEF TypeOK
  <2>2. ingress_packets =< terminal_events + duplicate_events + Len(queue) + 1
    BY <2>1 DEF Counting, Conservation, IngressBehind, CountDue,
                  HandCount, WorkerCount
  <2> QED
    BY <2>1, <2>2 DEF PendingBounded, Pending
<1> QED
  BY <1>1, TypeCorrect, CountingCorrect, PTL
-----------------------------------------------------------------------------
(* Terminal accounting.                                                    *)

\* A counted PacketProcessed adds one new lifecycle and one to
\* processed_packets; a duplicate changes neither.
LEMMA ProcessedAccounting ==
    ASSUME TerminalType, TerminalAccounting, NEW id \in Nat,
           OnPacketProcessed(id)
    PROVE  TerminalAccounting'
<1>1. CASE id \in completed
  BY <1>1 DEF TerminalAccounting, Drops, OnPacketProcessed, DuplicateTerminal
<1>2. CASE id \notin completed
  <2>1. /\ completed' = completed \cup {id}
        /\ processed_packets' = processed_packets + 1
        /\ terminal_events' = terminal_events + 1
        /\ drop_counters' = drop_counters
    BY <1>2 DEF OnPacketProcessed
  <2>2. /\ IsFiniteSet(completed')
        /\ Cardinality(completed') = Cardinality(completed) + 1
    BY <1>2, <2>1, FS_AddElement DEF TerminalAccounting
  <2>3. Drops' = Drops
    BY <2>1 DEF Drops
  <2>4. Drops \in Nat
    BY DEF Drops, TerminalType, DropReasons
  <2> QED
    BY <2>1, <2>2, <2>3, <2>4 DEF TerminalAccounting, TerminalType
<1> QED
  BY <1>1, <1>2

\* A counted PacketDropped adds one new lifecycle and one to the sum over the
\* reasons; a duplicate changes neither.
LEMMA DroppedAccounting ==
    ASSUME TerminalType, TerminalAccounting, NEW id \in Nat,
           NEW r \in DropReasons, OnPacketDropped(id, r)
    PROVE  TerminalAccounting'
<1>1. CASE id \in completed
  BY <1>1 DEF TerminalAccounting, Drops, OnPacketDropped, DuplicateTerminal
<1>2. CASE id \notin completed
  <2>1. /\ completed' = completed \cup {id}
        /\ processed_packets' = processed_packets
        /\ terminal_events' = terminal_events + 1
        /\ drop_counters' = [drop_counters EXCEPT ![r] = @ + 1]
    BY <1>2 DEF OnPacketDropped
  <2>2. /\ IsFiniteSet(completed')
        /\ Cardinality(completed') = Cardinality(completed) + 1
    BY <1>2, <2>1, FS_AddElement DEF TerminalAccounting
  <2>3. Drops' = Drops + 1
    BY <2>1 DEF Drops, TerminalType, DropReasons
  <2>4. Drops \in Nat
    BY DEF Drops, TerminalType, DropReasons
  <2> QED
    BY <2>1, <2>2, <2>3, <2>4 DEF TerminalAccounting, TerminalType
<1> QED
  BY <1>1, <1>2

\* Only the terminal callbacks touch what TerminalAccounting speaks of.
LEMMA AccountingStep ==
    TypeOK /\ TerminalAccounting /\ [Next]_vars => TerminalAccounting'
<1> SUFFICES ASSUME TypeOK, TerminalAccounting, [Next]_vars
             PROVE  TerminalAccounting'
  OBVIOUS
<1>0. /\ TerminalType
      /\ hand.lifecycle_id \in Nat /\ wpacket.lifecycle_id \in Nat
      /\ reason \in DropReasons /\ "ValidationError" \in DropReasons
  BY DEF TypeOK, TerminalType, Packets, DropReasons
<1>1. CASE UNCHANGED terminalVars
  BY <1>1 DEF TerminalAccounting, Drops, terminalVars
<1>2. CASE PublishReject \/ PublishDrop \/ WorkerReject
  BY <1>0, <1>2, DroppedAccounting DEF PublishReject, PublishDrop, WorkerReject
<1>3. CASE WorkerPublish
  BY <1>0, <1>3, ProcessedAccounting DEF WorkerPublish
<1>4. \/ UNCHANGED terminalVars
      \/ PublishReject \/ PublishDrop \/ WorkerReject
      \/ WorkerPublish
  BY DEF Next, EpollThread, Worker, Environment, Arrive, UdpReady, Receive,
         ReceiveNoData, ReceiveFailed, BudgetExhausted, SendPacket,
         PublishNext, BurstDone, Inject, Enqueue, CountIngress, WorkerTake,
         WorkerForward, vars, statsVars
<1> QED
  BY <1>1, <1>2, <1>3, <1>4

\* terminal_events = processed_packets + sum(drops_by_reason) in every state
\* between two callbacks, and it counts distinct lifecycles: reusing a
\* lifecycle id never inflates it.
THEOREM TerminalAccountingCorrect == Spec => []TerminalAccounting
<1>1. Init => TerminalAccounting
  BY FS_EmptySet DEF Init, TerminalAccounting, Drops, DropReasons
<1> QED
  BY <1>1, AccountingStep, TypeCorrect, PTL DEF Spec
-----------------------------------------------------------------------------
(* No lifecycle is lost.                                                   *)

\* The lifecycle ids of the packets in a queue.
IdsOf(q) == {q[i].lifecycle_id : i \in 1..Len(q)}

HandIds == IF HandHolds THEN {hand.lifecycle_id} ELSE {}

WorkerIds == IF WorkerHolds THEN {wpacket.lifecycle_id} ELSE {}

\* A packet appended to the queue brings its id.
LEMMA IdsAppend ==
    ASSUME NEW q \in Seq(Packets), NEW p \in Packets
    PROVE  IdsOf(Append(q, p)) = IdsOf(q) \cup {p.lifecycle_id}
<1>1. /\ Len(Append(q, p)) = Len(q) + 1 /\ Len(q) \in Nat
      /\ \A i \in 1..Len(q) : Append(q, p)[i] = q[i]
      /\ Append(q, p)[Len(q) + 1] = p
  BY AppendProperties
<1>2. \A i : i \in 1..(Len(q) + 1) <=> i \in 1..Len(q) \/ i = Len(q) + 1
  BY <1>1
<1> QED
  BY <1>1, <1>2 DEF IdsOf

\* The ids in a queue are that of its head and those of its tail.
LEMMA IdsHeadTail ==
    ASSUME NEW q \in Seq(Packets), q # <<>>
    PROVE  IdsOf(q) = {Head(q).lifecycle_id} \cup IdsOf(Tail(q))
<1>1. /\ Len(Tail(q)) = Len(q) - 1 /\ Len(q) \in Nat \ {0}
      /\ \A i \in 1..Len(Tail(q)) : Tail(q)[i] = q[i + 1]
      /\ Head(q) = q[1]
  BY HeadTailProperties, EmptySeq
<1>2. \A i \in 1..Len(q) : i = 1 \/ (i - 1 \in 1..Len(Tail(q)) /\ (i - 1) + 1 = i)
  BY <1>1
<1>3. \A i \in 1..Len(Tail(q)) : i + 1 \in 1..Len(q)
  BY <1>1
<1>4. ASSUME NEW x \in IdsOf(q)
      PROVE  x \in {Head(q).lifecycle_id} \cup IdsOf(Tail(q))
  <2>1. PICK i \in 1..Len(q) : x = q[i].lifecycle_id
    BY DEF IdsOf
  <2>2. CASE i = 1
    BY <1>1, <2>1, <2>2
  <2>3. CASE i - 1 \in 1..Len(Tail(q)) /\ (i - 1) + 1 = i
    <3>1. x = Tail(q)[i - 1].lifecycle_id
      BY <1>1, <2>1, <2>3
    <3> QED
      BY <2>3, <3>1 DEF IdsOf
  <2> QED
    BY <1>2, <2>2, <2>3
<1>5. {Head(q).lifecycle_id} \cup IdsOf(Tail(q)) \subseteq IdsOf(q)
  BY <1>1, <1>3 DEF IdsOf
<1> QED
  BY <1>4, <1>5

\* A terminal callback completes the lifecycle of its packet and no other.
LEMMA TerminalCompletes ==
    ASSUME NEW id, NEW r, OnPacketProcessed(id) \/ OnPacketDropped(id, r)
    PROVE  completed' = completed \cup {id}
BY DEF OnPacketProcessed, OnPacketDropped, DuplicateTerminal

\* Every step moves an id between the publisher, the queue, the worker and
\* completed_lifecycles_, or hands out a new one to the publisher.
LEMMA LostStep == TypeOK /\ NoLifecycleLost /\ [Next]_vars => NoLifecycleLost'
<1> SUFFICES ASSUME TypeOK, NoLifecycleLost, [Next]_vars
             PROVE  Assigned' = completed' \cup InFlight'
  BY DEF NoLifecycleLost
<1> USE DEF epollVars, sourceVars, workerVars, terminalVars, statsVars
<1>a. /\ Assigned = completed \cup IdsOf(queue) \cup HandIds \cup WorkerIds
      /\ InFlight' = IdsOf(queue') \cup HandIds' \cup WorkerIds'
  BY DEF NoLifecycleLost, InFlight, IdsOf, HandIds, WorkerIds
<1>b. /\ nextLifecycle \in Nat \ {0} /\ queue \in Seq(Packets)
      /\ hand \in Packets /\ wpacket \in Packets
  BY DEF TypeOK
<1>c. ASSUME UNCHANGED <<nextLifecycle, sentIds, completed, queue>>,
             HandIds' = HandIds, WorkerIds' = WorkerIds
      PROVE  Assigned' = completed' \cup InFlight'
  BY <1>a, <1>c DEF Assigned
<1>1. ASSUME NEW kind \in DatagramKinds, Arrive(kind)
      PROVE  Assigned' = completed' \cup InFlight'
  BY <1>1, <1>c DEF Arrive, HandIds, HandHolds, WorkerIds, WorkerHolds
<1>2. CASE UdpReady
  BY <1>2, <1>c DEF UdpReady, HandIds, HandHolds, WorkerIds, WorkerHolds
<1>3. CASE Receive
  <2>1. /\ HandIds = {} /\ HandIds' = {nextLifecycle} /\ WorkerIds' = WorkerIds
        /\ UNCHANGED <<sentIds, completed, queue>>
        /\ nextLifecycle' = nextLifecycle + 1
    BY <1>3 DEF Receive, HandIds, HandHolds, WorkerIds, WorkerHolds
  <2>2. 1..(nextLifecycle' - 1) = 1..(nextLifecycle - 1) \cup {nextLifecycle}
    BY <1>b, <2>1
  <2> QED
    BY <1>a, <2>1, <2>2 DEF Assigned
<1>4. CASE ReceiveNoData
  BY <1>4, <1>c DEF ReceiveNoData, HandIds, HandHolds, WorkerIds, WorkerHolds
<1>5. CASE ReceiveFailed
  BY <1>5, <1>c DEF ReceiveFailed, HandIds, HandHolds, WorkerIds, WorkerHolds
<1>6. CASE BudgetExhausted
  BY <1>6, <1>c DEF BudgetExhausted, HandIds, HandHolds, WorkerIds, WorkerHolds
<1>7. CASE PublishReject \/ PublishDrop
  <2>1. /\ HandIds = {hand.lifecycle_id} /\ HandIds' = {}
        /\ WorkerIds' = WorkerIds /\ UNCHANGED <<nextLifecycle, sentIds, queue>>
    BY <1>7 DEF PublishReject, PublishDrop, HandIds, HandHolds, WorkerIds, WorkerHolds
  <2>2. completed' = completed \cup {hand.lifecycle_id}
    BY <1>7, TerminalCompletes DEF PublishReject, PublishDrop
  <2> QED
    BY <1>a, <2>1, <2>2 DEF Assigned
<1>8. ASSUME NEW b \in Bursts, SendPacket(b)
      PROVE  Assigned' = completed' \cup InFlight'
  BY <1>8, <1>c DEF SendPacket, HandIds, HandHolds, WorkerIds, WorkerHolds
<1>9. CASE PublishNext
  <2>1. /\ HandIds = {} /\ HandIds' = {Head(burst).lifecycle_id}
        /\ WorkerIds' = WorkerIds /\ UNCHANGED <<nextLifecycle, completed, queue>>
        /\ sentIds' = sentIds \cup {Head(burst).lifecycle_id}
    BY <1>9 DEF PublishNext, HandIds, HandHolds, WorkerIds, WorkerHolds
  <2> QED
    BY <1>a, <2>1 DEF Assigned
<1>10. CASE BurstDone
  BY <1>10, <1>c DEF BurstDone, HandIds, HandHolds, WorkerIds, WorkerHolds
<1>11. CASE Inject
  BY <1>11, <1>c DEF Inject, HandIds, HandHolds, WorkerIds, WorkerHolds
<1>12. CASE Enqueue
  <2>1. /\ HandIds = {hand.lifecycle_id} /\ WorkerIds' = WorkerIds
        /\ UNCHANGED <<nextLifecycle, sentIds, completed>>
    BY <1>12 DEF Enqueue, HandIds, HandHolds, WorkerIds, WorkerHolds
  <2>2. \/ queue' = queue /\ HandIds' = HandIds
        \/ queue' = Append(queue, hand) /\ HandIds' = {}
    BY <1>12 DEF Enqueue, HandIds, HandHolds
  <2>3. IdsOf(queue') \cup HandIds' = IdsOf(queue) \cup HandIds
    BY <1>b, <2>1, <2>2, IdsAppend
  <2> QED
    BY <1>a, <2>1, <2>3 DEF Assigned
<1>13. CASE CountIngress
  BY <1>13, <1>c DEF CountIngress, HandIds, HandHolds, WorkerIds, WorkerHolds
<1>14. CASE WorkerTake
  <2>1. /\ HandIds' = HandIds /\ WorkerIds = {}
        /\ WorkerIds' = {Head(queue).lifecycle_id} /\ queue' = Tail(queue)
        /\ UNCHANGED <<nextLifecycle, sentIds, completed>> /\ queue # <<>>
    BY <1>14 DEF WorkerTake, HandIds, HandHolds, WorkerIds, WorkerHolds
  <2>2. IdsOf(queue) = {Head(queue).lifecycle_id} \cup IdsOf(Tail(queue))
    BY <1>b, <2>1, IdsHeadTail
  <2> QED
    BY <1>a, <2>1, <2>2 DEF Assigned
<1>15. CASE WorkerReject \/ WorkerPublish
  <2>1. /\ HandIds' = HandIds /\ WorkerIds = {wpacket.lifecycle_id}
        /\ WorkerIds' = {} /\ UNCHANGED <<nextLifecycle, sentIds, queue>>
    BY <1>15 DEF WorkerReject, WorkerPublish, HandIds, HandHolds, WorkerIds, WorkerHolds
  <2>2. completed' = completed \cup {wpacket.lifecycle_id}
    BY <1>15, TerminalCompletes DEF WorkerReject, WorkerPublish
  <2> QED
    BY <1>a, <2>1, <2>2 DEF Assigned
<1>16. CASE WorkerForward
  BY <1>16, <1>c DEF WorkerForward, HandIds, HandHolds, WorkerIds, WorkerHolds
<1>17. CASE UNCHANGED vars
  BY <1>17, <1>c DEF vars, HandIds, HandHolds, WorkerIds, WorkerHolds
<1> QED
  BY <1>1, <1>2, <1>3, <1>4, <1>5, <1>6, <1>7, <1>8, <1>9, <1>10, <1>11, <1>12,
     <1>13, <1>14, <1>15, <1>16, <1>17
  DEF Next, EpollThread, Worker, Environment

\* A lifecycle id that was handed out is completed in PacketStats or still
\* carried by a packet in flight, and PacketStats completes no other.
THEOREM NoLifecycleLostCorrect == Spec => []NoLifecycleLost
<1>1. Init => NoLifecycleLost
  <2> SUFFICES ASSUME Init PROVE NoLifecycleLost
    OBVIOUS
  <2>1. 1..(nextLifecycle - 1) = {}
    BY DEF Init
  <2>2. InFlight = {}
    BY DEF Init, InFlight, HandHolds, WorkerHolds
  <2> QED
    BY <2>1, <2>2 DEF Init, NoLifecycleLost, Assigned
<1> QED
  BY <1>1, LostStep, TypeCorrect, PTL DEF Spec
-----------------------------------------------------------------------------
(* The order of datagrams.                                                 *)

Udp(p) == p.src = "udp"

\* The packets a command still has to publish did not come from the receiver.
BurstIsControl == \A i \in 1..Len(burst) : burst[i].src = "control"

\* Nothing behind the publisher's datagram is younger than it, nothing at all
\* is younger than the id LifecycleIdGenerator returns next.
Youngest == IF HandHolds /\ Udp(hand) THEN hand.lifecycle_id ELSE nextLifecycle

UdpBelow ==
    /\ HandHolds /\ Udp(hand) => hand.lifecycle_id < nextLifecycle
    /\ \A i \in 1..Len(queue) : Udp(queue[i]) => queue[i].lifecycle_id < Youngest
    /\ WorkerHolds /\ Udp(wpacket) => wpacket.lifecycle_id < Youngest

\* UdpOrder said of the queue and of the worker's packet separately.
UdpLine ==
    /\ \A i, j \in 1..Len(queue) : i < j /\ Udp(queue[i]) /\ Udp(queue[j])
          => queue[i].lifecycle_id < queue[j].lifecycle_id
    /\ \A i \in 1..Len(queue) : WorkerHolds /\ Udp(wpacket) /\ Udp(queue[i])
          => wpacket.lifecycle_id < queue[i].lifecycle_id

OrderInv == BurstIsControl /\ UdpBelow /\ UdpLine

\* The packets of a command stay control packets until they are published.
LEMMA BurstStep == TypeOK /\ BurstIsControl /\ [Next]_vars => BurstIsControl'
<1> SUFFICES ASSUME TypeOK, BurstIsControl, [Next]_vars PROVE BurstIsControl'
  OBVIOUS
<1>1. ASSUME NEW b \in Bursts, SendPacket(b) PROVE BurstIsControl'
  <2>1. b \in Seq({p \in Packets : p.src = "control"})
    BY BurstAssumption
  <2>2. \A i \in 1..Len(b) : b[i] \in {p \in Packets : p.src = "control"}
    BY <2>1, ElementOfSeq
  <2> QED
    BY <1>1, <2>2 DEF SendPacket, BurstIsControl
<1>2. CASE PublishNext
  <2>1. /\ burst # <<>> /\ burst' = Tail(burst) /\ burst \in Seq(Packets)
    BY <1>2 DEF PublishNext, TypeOK
  <2>2. /\ Len(burst') = Len(burst) - 1 /\ Len(burst) \in Nat
        /\ \A i \in 1..Len(burst') : burst'[i] = burst[i + 1]
    BY <2>1, HeadTailProperties
  <2>3. \A i \in 1..Len(burst') : i + 1 \in 1..Len(burst)
    BY <2>2
  <2> QED
    BY <2>2, <2>3 DEF BurstIsControl
<1>3. CASE UNCHANGED burst
  BY <1>3 DEF BurstIsControl
<1> QED
  BY <1>1, <1>2, <1>3 DEF Next, EpollThread, Worker, Environment, Arrive,
     UdpReady, Receive, ReceiveNoData, ReceiveFailed, BudgetExhausted,
     PublishReject, BurstDone, Inject, Enqueue, PublishDrop, CountIngress,
     WorkerTake, WorkerReject, WorkerForward, WorkerPublish, epollVars, vars

\* Queued packets have natural numbers for ids.
LEMMA QueuedIds ==
    ASSUME TypeOK, NEW i \in 1..Len(queue) PROVE queue[i].lifecycle_id \in Nat
<1>1. queue[i] \in Packets
  BY ElementOfSeq DEF TypeOK
<1> QED
  BY <1>1 DEF Packets

\* A step that neither queues nor takes a packet preserves the order when the
\* youngest id does not decrease.
LEMMA OrderKept ==
    ASSUME TypeOK, UdpBelow, UdpLine, UNCHANGED <<queue, wpacket>>,
           WorkerHolds' => WorkerHolds, nextLifecycle' \in Nat,
           Youngest \in Nat, Youngest' \in Nat, Youngest =< Youngest',
           HandHolds' /\ Udp(hand)' => hand'.lifecycle_id < nextLifecycle'
    PROVE  UdpBelow' /\ UdpLine'
<1>1. /\ \A i \in 1..Len(queue) : queue[i].lifecycle_id \in Nat
      /\ wpacket.lifecycle_id \in Nat
  BY QueuedIds DEF TypeOK, Packets
<1>2. \A i \in 1..Len(queue) : Udp(queue[i]) => queue[i].lifecycle_id < Youngest'
  BY <1>1 DEF UdpBelow
<1>3. WorkerHolds /\ Udp(wpacket) => wpacket.lifecycle_id < Youngest'
  BY <1>1 DEF UdpBelow
<1> QED
  BY <1>2, <1>3 DEF UdpBelow, UdpLine, Udp

\* Every step preserves the order of datagrams.
LEMMA OrderStep == TypeOK /\ OrderInv /\ [Next]_vars => OrderInv'
<1> SUFFICES ASSUME TypeOK, OrderInv, [Next]_vars PROVE UdpBelow' /\ UdpLine'
  BY BurstStep DEF OrderInv
<1> USE DEF epollVars, sourceVars, workerVars, terminalVars, statsVars
<1>a. /\ nextLifecycle \in Nat \ {0} /\ hand.lifecycle_id \in Nat
      /\ queue \in Seq(Packets) /\ hand \in Packets
      /\ Youngest \in Nat /\ UdpBelow /\ UdpLine /\ Youngest =< nextLifecycle
  BY DEF TypeOK, Packets, Youngest, OrderInv, UdpBelow
<1>1. CASE Receive
  <2>1. /\ ~HandHolds /\ HandHolds' /\ Udp(hand)' /\ hand'.lifecycle_id = nextLifecycle
        /\ nextLifecycle' = nextLifecycle + 1
        /\ UNCHANGED <<queue, wpacket, wpc>>
    BY <1>1 DEF Receive, HandHolds, Udp
  <2>2. Youngest = nextLifecycle /\ Youngest' = nextLifecycle
    BY <2>1 DEF Youngest
  <2> QED
    BY <1>a, <2>1, <2>2, OrderKept DEF WorkerHolds
<1>2. CASE PublishNext
  <2>1. burst \in Seq(Packets) /\ burst # <<>> /\ hand' = Head(burst)
    BY <1>2 DEF PublishNext, TypeOK
  <2>2. Head(burst) = burst[1] /\ 1 \in 1..Len(burst)
    BY <2>1
  <2>3. ~Udp(hand)'
    BY <2>1, <2>2 DEF OrderInv, BurstIsControl, Udp
  <2>4. Youngest = nextLifecycle /\ Youngest' = nextLifecycle
    BY <1>2, <2>3 DEF PublishNext, Youngest, HandHolds
  <2> QED
    BY <1>2, <1>a, <2>3, <2>4, OrderKept DEF PublishNext, WorkerHolds
<1>3. CASE Enqueue
  <2>1. /\ HandHolds /\ UNCHANGED <<hand, nextLifecycle, wpc, wpacket>>
    BY <1>3 DEF Enqueue, HandHolds
  <2>2. CASE queue' = queue
    <3>1. Youngest' \in Nat /\ Youngest =< Youngest'
      BY <1>a, <2>1 DEF Youngest, Udp, UdpBelow
    <3> QED
      BY <1>a, <2>1, <2>2, <3>1, OrderKept DEF WorkerHolds, UdpBelow, Udp
  <2>3. CASE queue' = Append(queue, hand) /\ ~HandHolds'
    <3>1. /\ Len(queue') = Len(queue) + 1 /\ Len(queue) \in Nat
          /\ \A i \in 1..Len(queue) : queue'[i] = queue[i]
          /\ queue'[Len(queue) + 1] = hand
      BY <1>a, <2>3, AppendProperties
    <3>2. \A i \in 1..Len(queue') : i \in 1..Len(queue) \/ i = Len(queue) + 1
      BY <3>1
    <3>3. Youngest' = nextLifecycle /\ (Udp(hand) => Youngest = hand.lifecycle_id)
          /\ (Udp(hand) => hand.lifecycle_id < nextLifecycle)
      BY <2>1, <2>3, <1>a DEF Youngest, UdpBelow
    <3>4. \A i \in 1..Len(queue) : queue[i].lifecycle_id \in Nat
      BY QueuedIds
    <3>5. wpacket.lifecycle_id \in Nat
      BY DEF TypeOK, Packets
    <3>6. UdpBelow'
      <4>1. ASSUME NEW i \in 1..Len(queue'), Udp(queue'[i])
            PROVE  queue'[i].lifecycle_id < nextLifecycle
        <5>1. CASE i \in 1..Len(queue)
          <6>1. queue[i].lifecycle_id < Youngest
            BY <4>1, <3>1, <5>1, <1>a DEF UdpBelow
          <6> QED
            BY <6>1, <3>1, <3>4, <5>1, <1>a
        <5>2. CASE i = Len(queue) + 1
          BY <4>1, <3>1, <3>3, <5>2
        <5> QED
          BY <3>2, <5>1, <5>2
      <4>2. WorkerHolds' /\ Udp(wpacket)' => wpacket'.lifecycle_id < nextLifecycle
        BY <1>a, <2>1, <3>5 DEF UdpBelow, WorkerHolds, Udp
      <4> QED
        BY <2>1, <2>3, <3>3, <4>1, <4>2 DEF UdpBelow, Udp
    <3>7. UdpLine'
      <4>1. ASSUME NEW i \in 1..Len(queue'), NEW j \in 1..Len(queue'), i < j,
                   Udp(queue'[i]), Udp(queue'[j])
            PROVE  queue'[i].lifecycle_id < queue'[j].lifecycle_id
        <5>1. i \in 1..Len(queue) /\ queue'[i] = queue[i]
          BY <3>1, <4>1
        <5>2. CASE j \in 1..Len(queue)
          BY <1>a, <3>1, <4>1, <5>1, <5>2 DEF UdpLine
        <5>3. CASE j = Len(queue) + 1
          BY <1>a, <3>1, <3>3, <4>1, <5>1, <5>3 DEF UdpBelow
        <5> QED
          BY <3>2, <5>2, <5>3
      <4>2. ASSUME NEW i \in 1..Len(queue'), WorkerHolds, Udp(wpacket),
                   Udp(queue'[i])
            PROVE  wpacket.lifecycle_id < queue'[i].lifecycle_id
        <5>1. CASE i \in 1..Len(queue)
          BY <1>a, <3>1, <4>2, <5>1 DEF UdpLine
        <5>2. CASE i = Len(queue) + 1
          BY <1>a, <3>1, <3>3, <4>2, <5>2 DEF UdpBelow
        <5> QED
          BY <3>2, <5>1, <5>2
      <4> QED
        BY <2>1, <4>1, <4>2 DEF UdpLine, WorkerHolds, Udp
    <3> QED
      BY <3>6, <3>7
  <2> QED
    BY <1>3, <2>2, <2>3 DEF Enqueue, HandHolds
<1>4. CASE WorkerTake
  <2>1. /\ queue # <<>> /\ wpacket' = Head(queue) /\ queue' = Tail(queue)
        /\ UNCHANGED <<nextLifecycle, pc, hand>>
    BY <1>4 DEF WorkerTake
  <2>2. /\ Len(queue') = Len(queue) - 1 /\ Len(queue) \in Nat \ {0}
        /\ \A i \in 1..Len(queue') : queue'[i] = queue[i + 1]
        /\ wpacket' = queue[1]
    BY <1>a, <2>1, HeadTailProperties, EmptySeq
  <2>3. /\ \A i \in 1..Len(queue') : i + 1 \in 1..Len(queue) /\ 1 < i + 1
        /\ \A i, j \in 1..Len(queue') : i < j => i + 1 < j + 1
        /\ 1 \in 1..Len(queue)
    BY <2>2
  <2>4. Youngest' = Youngest
    BY <2>1 DEF Youngest, HandHolds
  <2>5. UdpBelow'
    BY <1>a, <2>1, <2>2, <2>3, <2>4 DEF UdpBelow, HandHolds, Udp
  <2>6. UdpLine'
    BY <1>a, <2>1, <2>2, <2>3 DEF UdpLine, Udp
  <2> QED
    BY <2>5, <2>6
<1>5. CASE /\ UNCHANGED <<queue, wpacket, nextLifecycle, hand>>
           /\ WorkerHolds' => WorkerHolds
           /\ HandHolds' => HandHolds
  <2>1. Youngest' \in Nat /\ Youngest =< Youngest'
    BY <1>a, <1>5 DEF Youngest, Udp, UdpBelow
  <2> QED
    BY <1>a, <1>5, <2>1, OrderKept DEF UdpBelow, Udp
<1> QED
  BY <1>1, <1>2, <1>3, <1>4, <1>5 DEF Next, EpollThread, Worker, Environment,
     Arrive, UdpReady, ReceiveNoData, ReceiveFailed, BudgetExhausted,
     PublishReject, SendPacket, BurstDone, Inject, PublishDrop, CountIngress,
     WorkerReject, WorkerForward, WorkerPublish, HandHolds, WorkerHolds, vars

\* The queue and the worker's packet, taken as one line, are in order.
LEMMA LineOrdered == TypeOK /\ UdpLine => UdpOrder
<1> SUFFICES ASSUME TypeOK, UdpLine PROVE UdpOrder
  OBVIOUS
<1> DEFINE front == IF WorkerHolds THEN <<wpacket>> ELSE <<>>
           line == front \o queue
<1>1. queue \in Seq(Packets) /\ Len(queue) \in Nat /\ wpacket \in Packets
  BY DEF TypeOK
<1> SUFFICES ASSUME NEW i \in 1..Len(line), NEW j \in 1..Len(line), i < j,
                    Udp(line[i]), Udp(line[j])
             PROVE  line[i].lifecycle_id < line[j].lifecycle_id
  BY DEF UdpOrder, Udp
<1>2. CASE WorkerHolds
  <2>1. front \in Seq(Packets) /\ Len(front) = 1 /\ front[1] = wpacket
    BY <1>1, <1>2
  <2> HIDE DEF front
  <2>2. /\ Len(line) = 1 + Len(queue)
        /\ \A k \in 1..(1 + Len(queue)) :
              line[k] = IF k =< 1 THEN front[k] ELSE queue[k - 1]
    <3>1. /\ Len(front \o queue) = Len(front) + Len(queue)
          /\ \A k \in 1..(Len(front) + Len(queue)) : (front \o queue)[k] =
                IF k =< Len(front) THEN front[k] ELSE queue[k - Len(front)]
      BY <1>1, <2>1, ConcatProperties, Zenon
    <3> QED
      BY <2>1, <3>1
  <2> HIDE DEF line
  <2>3. j - 1 \in 1..Len(queue) /\ line[j] = queue[j - 1]
    BY <1>1, <2>2
  <2>4. CASE i = 1
    <3>1. line[i] = wpacket
      BY <1>1, <2>1, <2>2, <2>4
    <3> QED
      BY <1>2, <2>3, <3>1 DEF UdpLine
  <2>5. CASE i # 1
    <3>1. i - 1 \in 1..Len(queue) /\ line[i] = queue[i - 1] /\ i - 1 < j - 1
      BY <1>1, <2>2, <2>5
    <3> QED
      BY <2>3, <3>1 DEF UdpLine
  <2> QED
    BY <2>4, <2>5
<1>3. CASE ~WorkerHolds
  <2>1. line = queue
    BY <1>1, <1>3, ConcatEmptySeq
  <2> HIDE DEF line
  <2> QED
    BY <2>1 DEF UdpLine
<1> QED
  BY <1>2, <1>3

\* Datagrams reach the worker in the order the receiver numbered them,
\* whatever commands publish in between and whatever is dropped.
THEOREM UdpOrderCorrect == Spec => []UdpOrder
<1>1. Init => OrderInv
  BY DEF Init, OrderInv, BurstIsControl, UdpBelow, UdpLine, HandHolds, WorkerHolds
<1>2. TypeOK /\ OrderInv => UdpOrder
  BY LineOrdered DEF OrderInv
<1> QED
  BY <1>1, <1>2, OrderStep, TypeCorrect, PTL DEF Spec
-----------------------------------------------------------------------------
(* The every-n schedule of FailureInjector.                                *)

\* Counting one more packet completes a group of n exactly when the new count
\* is a multiple of n.
LEMMA NextGroup ==
    ASSUME NEW n \in Nat \ {0}, NEW k \in Nat
    PROVE  (k + 1) \div n = (k \div n) + (IF (k + 1) % n = 0 THEN 1 ELSE 0)
OBVIOUS

\* A set of naturals that is not empty has a smallest member.
LEMMA LeastNatural ==
    ASSUME NEW S \in SUBSET Nat, S # {} PROVE \E x \in S : \A y \in S : x =< y
<1>1. IsWellFoundedOn(OpToRel(<, Nat), Nat)
  BY NatLessThanWellFounded, Zenon
<1>2. PICK x \in S : \A y \in S : ~(<<y, x>> \in OpToRel(<, Nat))
  BY <1>1, WFMin, Zenon
<1>3. ASSUME NEW y \in S PROVE ~(y < x)
  <2>1. <<y, x>> \in Nat \X Nat
    OBVIOUS
  <2>2. <<y, x>>[1] = y /\ <<y, x>>[2] = x
    OBVIOUS
  <2> QED
    BY <1>2, <2>1, <2>2, Zenon DEF OpToRel
<1> QED
  BY <1>3

\* The rule FailureInjector applies to a lifecycle it has rules for is one of
\* them.
LEMMA FirstRuleIsRule ==
    ASSUME NEW id, RulesFor(id) # {} PROVE FirstRule(id) \in DOMAIN lifecycle_rules
<1>1. RulesFor(id) \in SUBSET Nat
  BY FailureAssumption DEF RulesFor
<1>2. \E i \in RulesFor(id) : \A j \in RulesFor(id) : i =< j
  BY <1>1, LeastNatural
<1>3. FirstRule(id) \in RulesFor(id)
  BY <1>2 DEF FirstRule
<1> QED
  BY <1>3 DEF RulesFor

\* The failure configuration InjectionSchedule is about.
OnlyScheduledLosses ==
    /\ enabled /\ every_n_packets # 0 /\ failure_type = "SimulatedLoss"
    /\ \A i \in DOMAIN lifecycle_rules : lifecycle_rules[i].type # "SimulatedLoss"

Losses == seen_packets \div every_n_packets

LossInHand == IF pc = "drop" /\ reason = "SimulatedLoss" THEN 1 ELSE 0

ScheduleInv ==
    /\ pc = "reject" => reason # "SimulatedLoss"
    /\ drop_counters["SimulatedLoss"] + LossInHand =< Losses
    /\ Losses =< drop_counters["SimulatedLoss"] + duplicate_events + LossInHand

\* FailureInjector loses a packet exactly when the packet completes a group.
LEMMA InjectLoses ==
    ASSUME TypeOK, OnlyScheduledLosses, Inject
    PROVE  /\ LossInHand = 0 /\ LossInHand' \in {0, 1} /\ pc' # "reject"
           /\ Losses \in Int /\ Losses' = Losses + LossInHand'
<1> DEFINE id == hand.lifecycle_id
           f == InjectedFailure(id, seen_packets')
<1>1. every_n_packets \in Nat \ {0} /\ seen_packets \in Nat
  BY FailureAssumption DEF OnlyScheduledLosses, TypeOK
<1>2. LossInHand = 0 /\ LossInHand' \in {0, 1} /\ pc' # "reject"
  BY DEF Inject, LossInHand
<1>3. LossInHand' = IF f = "SimulatedLoss" THEN 1 ELSE 0
  BY DEF Inject, LossInHand, IsTerminal, FailureReason
<1>4. CASE CountsTowardsN(id)
  <2>1. seen_packets' = seen_packets + 1
    BY <1>4 DEF Inject
  <2>2. f = IF seen_packets' % every_n_packets = 0 THEN "SimulatedLoss" ELSE "None"
    BY <1>4 DEF InjectedFailure, CountsTowardsN, OnlyScheduledLosses
  <2> HIDE DEF f
  <2>3. Losses' = Losses
                  + (IF (seen_packets + 1) % every_n_packets = 0 THEN 1 ELSE 0)
    BY <1>1, <2>1, NextGroup DEF Losses
  <2>4. Losses \in Int
    BY <1>1 DEF Losses
  <2> QED
    BY <1>2, <1>3, <2>1, <2>2, <2>3, <2>4
<1>5. CASE ~CountsTowardsN(id)
  <2>1. seen_packets' = seen_packets
    BY <1>5 DEF Inject
  <2>2. RulesFor(id) # {}
    BY <1>5 DEF CountsTowardsN, OnlyScheduledLosses
  <2>3. f # "SimulatedLoss"
    BY <2>2, FirstRuleIsRule DEF InjectedFailure, OnlyScheduledLosses
  <2> HIDE DEF f
  <2>4. Losses' = Losses /\ Losses \in Int
    BY <1>1, <2>1 DEF Losses
  <2> QED
    BY <1>2, <1>3, <2>3, <2>4
<1> QED
  BY <1>4, <1>5

\* A PacketDropped is counted under its reason or as a duplicate.
LEMMA DroppedOnce ==
    ASSUME TerminalType, NEW id, NEW r \in DropReasons, OnPacketDropped(id, r)
    PROVE  \/ /\ duplicate_events' = duplicate_events + 1
              /\ drop_counters' = drop_counters
           \/ /\ duplicate_events' = duplicate_events
              /\ drop_counters' = [drop_counters EXCEPT ![r] = @ + 1]
BY DEF TerminalType, OnPacketDropped, DuplicateTerminal

\* Every step preserves the schedule.
LEMMA ScheduleStep ==
    ASSUME TypeOK, OnlyScheduledLosses, ScheduleInv, [Next]_vars
    PROVE  ScheduleInv'
<1> USE DEF epollVars, sourceVars, workerVars, statsVars
<1> DEFINE reported == drop_counters["SimulatedLoss"]
<1>a. /\ TerminalType /\ reason \in DropReasons /\ "ValidationError" \in DropReasons
      /\ reported \in Nat /\ duplicate_events \in Nat
  BY DEF TypeOK, TerminalType, DropReasons
<1>b. Losses \in Int /\ LossInHand \in {0, 1}
  BY FailureAssumption DEF Losses, LossInHand, OnlyScheduledLosses, TypeOK
<1>1. CASE Inject
  <2>1. reported' = reported /\ duplicate_events' = duplicate_events
    BY <1>1 DEF Inject, terminalVars
  <2> HIDE DEF reported
  <2> QED
    BY <1>1, <1>a, <2>1, InjectLoses DEF ScheduleInv, reported
<1>2. CASE PublishDrop \/ PublishReject
  <2>1. /\ pc' # "reject" /\ LossInHand' = 0
        /\ OnPacketDropped(hand.lifecycle_id, reason) /\ Losses' = Losses
    BY <1>2 DEF PublishDrop, PublishReject, LossInHand, Losses
  <2>2. LossInHand = IF reason = "SimulatedLoss" THEN 1 ELSE 0
    BY <1>2 DEF PublishDrop, PublishReject, LossInHand, ScheduleInv
  <2>3. \/ duplicate_events' = duplicate_events + 1 /\ reported' = reported
        \/ duplicate_events' = duplicate_events /\ reported' = reported + LossInHand
    BY <1>a, <2>1, <2>2, DroppedOnce DEF TerminalType, DropReasons
  <2> HIDE DEF reported
  <2> QED
    BY <1>a, <1>b, <2>1, <2>3 DEF ScheduleInv, reported
<1>3. CASE WorkerReject
  <2>1. UNCHANGED <<pc, reason>> /\ Losses' = Losses /\ LossInHand' = LossInHand
    BY <1>3 DEF WorkerReject, Losses, LossInHand
  <2>2. \/ duplicate_events' = duplicate_events + 1 /\ reported' = reported
        \/ duplicate_events' = duplicate_events /\ reported' = reported
    BY <1>3, <1>a, DroppedOnce DEF WorkerReject, TerminalType, DropReasons
  <2> HIDE DEF reported
  <2> QED
    BY <1>a, <1>b, <2>1, <2>2 DEF ScheduleInv, reported
<1>4. CASE WorkerPublish
  <2>1. UNCHANGED <<pc, reason>> /\ Losses' = Losses /\ LossInHand' = LossInHand
    BY <1>4 DEF WorkerPublish, Losses, LossInHand
  <2>2. \/ duplicate_events' = duplicate_events + 1 /\ reported' = reported
        \/ duplicate_events' = duplicate_events /\ reported' = reported
    BY <1>4 DEF WorkerPublish, OnPacketProcessed, DuplicateTerminal
  <2> HIDE DEF reported
  <2> QED
    BY <1>a, <1>b, <2>1, <2>2 DEF ScheduleInv, reported
<1>5. CASE Receive
  BY <1>5 DEF Receive, ScheduleInv, LossInHand, Losses, terminalVars
<1>6. CASE Enqueue
  BY <1>6 DEF Enqueue, ScheduleInv, LossInHand, Losses, terminalVars
<1>7. CASE /\ UNCHANGED <<seen_packets, terminalVars, reason>>
           /\ \/ pc' = pc
              \/ pc' \notin {"drop", "reject"} /\ pc # "drop"
  BY <1>7 DEF ScheduleInv, LossInHand, Losses, terminalVars
<1>8. CASE Environment
  BY <1>7, <1>8 DEF Environment, Arrive, SendPacket
<1>9. CASE \/ UdpReady \/ ReceiveNoData \/ ReceiveFailed \/ BudgetExhausted
           \/ PublishNext \/ BurstDone \/ CountIngress
  BY <1>7, <1>9 DEF UdpReady, ReceiveNoData, ReceiveFailed, BudgetExhausted,
     PublishNext, BurstDone, CountIngress
<1>10. CASE WorkerTake \/ WorkerForward \/ UNCHANGED vars
  BY <1>7, <1>10 DEF WorkerTake, WorkerForward, vars
<1> QED
  BY <1>1, <1>2, <1>3, <1>4, <1>5, <1>6, <1>8, <1>9, <1>10
  DEF Next, EpollThread, Worker

\* The every-n schedule loses every n-th packet it counts and no other, for
\* every n: the reported losses differ from it only by the one in the
\* publisher's hand and by duplicates.
THEOREM InjectionScheduleCorrect == Spec => []InjectionSchedule
<1> DEFINE Inv == OnlyScheduledLosses => ScheduleInv
<1>1. Init => Inv
  <2> SUFFICES ASSUME Init, OnlyScheduledLosses PROVE ScheduleInv
    OBVIOUS
  <2>1. Losses = 0
    BY FailureAssumption DEF Init, Losses, OnlyScheduledLosses
  <2> QED
    BY <2>1 DEF Init, ScheduleInv, LossInHand, DropReasons
<1>2. TypeOK /\ Inv /\ [Next]_vars => Inv'
  BY ScheduleStep DEF OnlyScheduledLosses
<1>3. TypeOK /\ Inv => InjectionSchedule
  <2> SUFFICES ASSUME TypeOK, OnlyScheduledLosses, ScheduleInv
               PROVE  InjectionSchedule
    BY DEF InjectionSchedule, OnlyScheduledLosses
  <2>1. /\ drop_counters["SimulatedLoss"] \in Nat /\ LossInHand \in {0, 1}
        /\ Losses \in Int
    BY FailureAssumption DEF TypeOK, DropReasons, LossInHand, Losses,
       OnlyScheduledLosses
  <2>2. drop_counters["SimulatedLoss"] =< Losses
    BY <2>1 DEF ScheduleInv
  <2> QED
    BY <2>2 DEF ScheduleInv, InjectionSchedule, Losses, LossInHand
<1> QED
  BY <1>1, <1>2, <1>3, TypeCorrect, PTL DEF Spec
-----------------------------------------------------------------------------
(* The packet path implements PacketLifecycle.                             *)

\* Every id that was or will be handed out is one of AllIds.
IdsKnown ==
    /\ nextLifecycle - 1 + Len(socket) =< MaxDatagrams
    /\ \A i \in 1..Len(burst) : burst[i].lifecycle_id \in AllIds
    /\ sentIds \subseteq AllIds

\* The ids of a command's packets are among AllIds.
LEMMA BurstIds ==
    ASSUME NEW b \in Bursts
    PROVE  \A i \in 1..Len(b) : b[i].lifecycle_id \in AllIds
<1>1. DOMAIN b = 1..Len(b)
  BY BurstType, LenProperties
<1> QED
  BY <1>1 DEF AllIds

\* Every step preserves IdsKnown.
LEMMA IdsStep == TypeOK /\ IdsKnown /\ [Next]_vars => IdsKnown'
<1> SUFFICES ASSUME TypeOK, IdsKnown, [Next]_vars PROVE IdsKnown'
  OBVIOUS
<1> USE DEF epollVars, sourceVars
<1>a. nextLifecycle \in Nat /\ Len(socket) \in Nat /\ MaxDatagrams \in Nat
  BY BoundAssumption DEF TypeOK
<1>1. ASSUME NEW kind \in DatagramKinds, Arrive(kind) PROVE IdsKnown'
  <2>1. Len(socket') = Len(socket) + 1
    BY <1>1, AppendProperties DEF Arrive, TypeOK
  <2> QED
    BY <1>1, <1>a, <2>1 DEF Arrive, IdsKnown
<1>2. CASE Receive
  <2>1. Len(socket') = Len(socket) - 1
    BY <1>2, HeadTailProperties DEF Receive, TypeOK
  <2> QED
    BY <1>2, <1>a, <2>1 DEF Receive, IdsKnown
<1>3. ASSUME NEW b \in Bursts, SendPacket(b) PROVE IdsKnown'
  BY <1>3, BurstIds DEF SendPacket, IdsKnown
<1>4. CASE PublishNext
  <2>1. /\ burst # <<>> /\ burst' = Tail(burst) /\ burst \in Seq(Packets)
        /\ sentIds' = sentIds \cup {Head(burst).lifecycle_id}
        /\ UNCHANGED <<nextLifecycle, socket>>
    BY <1>4 DEF PublishNext, TypeOK
  <2>2. /\ Len(burst') = Len(burst) - 1 /\ Len(burst) \in Nat \ {0}
        /\ \A i \in 1..Len(burst') : burst'[i] = burst[i + 1]
        /\ Head(burst) = burst[1]
    BY <2>1, HeadTailProperties, EmptySeq
  <2>3. /\ \A i \in 1..Len(burst') : i + 1 \in 1..Len(burst)
        /\ 1 \in 1..Len(burst)
    BY <2>2
  <2> QED
    BY <2>1, <2>2, <2>3 DEF IdsKnown
<1>5. CASE UNCHANGED <<nextLifecycle, socket, burst, sentIds>>
  BY <1>5 DEF IdsKnown
<1> QED
  BY <1>1, <1>2, <1>3, <1>4, <1>5 DEF Next, EpollThread, Worker, Environment,
     UdpReady, ReceiveNoData, ReceiveFailed, BudgetExhausted,
     PublishReject, BurstDone, Inject, Enqueue, PublishDrop, CountIngress,
     WorkerTake, WorkerReject, WorkerForward, WorkerPublish, vars

\* Handing out an id is Enter, or nothing when the id was in use already.
LEMMA EnterStep ==
    ASSUME NEW x \in AllIds, completed \subseteq Assigned,
           Assigned' = Assigned \cup {x},
           UNCHANGED <<completed, processed_packets, drop_counters>>
    PROVE  [Lifecycle!Next]_(Lifecycle!vars)
<1>1. Drops' = Drops
  BY DEF Drops
<1>2. CASE x \in Assigned
  BY <1>1, <1>2 DEF Lifecycle!vars
<1>3. CASE x \notin Assigned
  BY <1>1, <1>3 DEF Lifecycle!Next, Lifecycle!Enter
<1> QED
  BY <1>2, <1>3

\* A counted terminal event of an id in use is Finish, a duplicate is nothing.
LEMMA FinishStep ==
    ASSUME TerminalType, NEW x \in AllIds, x \in Assigned, NEW r \in DropReasons,
           OnPacketProcessed(x) \/ OnPacketDropped(x, r), Assigned' = Assigned
    PROVE  [Lifecycle!Next]_(Lifecycle!vars)
<1>1. CASE x \in completed
  <2>1. UNCHANGED <<completed, processed_packets, drop_counters>>
    BY <1>1 DEF OnPacketProcessed, OnPacketDropped, DuplicateTerminal
  <2>2. Drops' = Drops
    BY <2>1 DEF Drops
  <2> QED
    BY <2>1, <2>2 DEF Lifecycle!vars
<1>2. CASE x \notin completed
  <2>1. completed' = completed \cup {x}
    BY TerminalCompletes
  <2>2. \/ processed_packets' = processed_packets + 1 /\ Drops' = Drops
        \/ processed_packets' = processed_packets /\ Drops' = Drops + 1
    <3>1. CASE OnPacketProcessed(x)
      BY <1>2, <3>1 DEF OnPacketProcessed, Drops
    <3>2. CASE OnPacketDropped(x, r)
      BY <1>2, <3>2 DEF OnPacketDropped, Drops, TerminalType, DropReasons
    <3> QED
      BY <3>1, <3>2
  <2> QED
    BY <1>2, <2>1, <2>2 DEF Lifecycle!Next, Lifecycle!Finish
<1> QED
  BY <1>1, <1>2

\* Every step of the packet path is a step of PacketLifecycle or a stutter.
LEMMA RefinementStep ==
    ASSUME TypeOK, NoLifecycleLost, IdsKnown, IdsKnown', [Next]_vars
    PROVE  [Lifecycle!Next]_(Lifecycle!vars)
<1> USE DEF epollVars, sourceVars, workerVars, statsVars
<1>a. completed \subseteq Assigned /\ InFlight \subseteq Assigned
  BY DEF NoLifecycleLost
<1>b. Assigned \subseteq AllIds
  <2>1. nextLifecycle \in Nat /\ Len(socket) \in Nat /\ MaxDatagrams \in Nat
    BY BoundAssumption DEF TypeOK
  <2>2. 1..(nextLifecycle - 1) \subseteq 1..MaxDatagrams
    BY <2>1 DEF IdsKnown
  <2> QED
    BY <2>2 DEF Assigned, AllIds, IdsKnown
<1>c. /\ TerminalType /\ reason \in DropReasons /\ "ValidationError" \in DropReasons
      /\ nextLifecycle \in Nat \ {0}
  BY DEF TypeOK, TerminalType, DropReasons
<1>1. CASE Receive
  <2>1. /\ nextLifecycle' = nextLifecycle + 1 /\ sentIds' = sentIds
        /\ UNCHANGED <<completed, processed_packets, drop_counters>>
    BY <1>1 DEF Receive, terminalVars
  <2>2. 1..(nextLifecycle' - 1) = 1..(nextLifecycle - 1) \cup {nextLifecycle}
    BY <1>c, <2>1
  <2>3. Assigned' = Assigned \cup {nextLifecycle}
    BY <2>1, <2>2 DEF Assigned
  <2>4. nextLifecycle \in AllIds
    <3>1. Len(socket) \in Nat \ {0}
      BY <1>1, EmptySeq DEF Receive, TypeOK
    <3> QED
      BY <1>c, <3>1, BoundAssumption DEF AllIds, IdsKnown
  <2> QED
    BY <1>a, <2>1, <2>3, <2>4, EnterStep
<1>2. CASE PublishNext
  <2>1. /\ nextLifecycle' = nextLifecycle
        /\ sentIds' = sentIds \cup {Head(burst).lifecycle_id}
        /\ UNCHANGED <<completed, processed_packets, drop_counters>>
    BY <1>2 DEF PublishNext, terminalVars
  <2>2. Assigned' = Assigned \cup {Head(burst).lifecycle_id}
    BY <2>1 DEF Assigned
  <2>3. Head(burst).lifecycle_id \in AllIds
    BY <2>1 DEF IdsKnown
  <2> QED
    BY <1>a, <2>1, <2>2, <2>3, EnterStep
<1>3. CASE PublishReject \/ PublishDrop
  <2>1. hand.lifecycle_id \in InFlight
    BY <1>3 DEF PublishReject, PublishDrop, InFlight, HandHolds
  <2>2. Assigned' = Assigned /\ OnPacketDropped(hand.lifecycle_id, reason)
    BY <1>3 DEF PublishReject, PublishDrop, Assigned
  <2> QED
    BY <1>a, <1>b, <1>c, <2>1, <2>2, FinishStep
<1>4. CASE WorkerReject \/ WorkerPublish
  <2>1. wpacket.lifecycle_id \in InFlight
    BY <1>4 DEF WorkerReject, WorkerPublish, InFlight, WorkerHolds
  <2>2. /\ Assigned' = Assigned
        /\ \/ OnPacketDropped(wpacket.lifecycle_id, "ValidationError")
           \/ OnPacketProcessed(wpacket.lifecycle_id)
    BY <1>4 DEF WorkerReject, WorkerPublish, Assigned
  <2> QED
    BY <1>a, <1>b, <1>c, <2>1, <2>2, FinishStep
<1>5. CASE UNCHANGED <<nextLifecycle, sentIds, terminalVars>>
  BY <1>5 DEF Lifecycle!vars, Assigned, Drops, terminalVars
<1> QED
  BY <1>1, <1>2, <1>3, <1>4, <1>5 DEF Next, EpollThread, Worker, Environment,
     Arrive, SendPacket, UdpReady, ReceiveNoData, ReceiveFailed,
     BudgetExhausted, BurstDone, Inject, Enqueue, CountIngress, WorkerTake,
     WorkerForward, vars

\* The safety part of LifecycleRefinement: in the packet path every lifecycle
\* enters once, ends once and moves exactly one of the two counters when it
\* ends, also when commands reuse ids.
THEOREM LifecycleSafety == Spec => Lifecycle!SafetySpec
<1>1. Init => Lifecycle!Init
  <2> SUFFICES ASSUME Init PROVE Lifecycle!Init
    OBVIOUS
  <2>1. Assigned = {}
    BY DEF Init, Assigned
  <2>2. Drops = 0
    BY DEF Init, Drops, DropReasons
  <2> QED
    BY <2>1, <2>2 DEF Init, Lifecycle!Init
<1>2. Init => IdsKnown
  BY BoundAssumption DEF Init, IdsKnown
<1>3. TypeOK /\ NoLifecycleLost /\ IdsKnown /\ IdsKnown' /\ [Next]_vars
        => [Lifecycle!Next]_(Lifecycle!vars)
  BY RefinementStep
<1> QED
  BY <1>1, <1>2, <1>3, IdsStep, TypeCorrect, NoLifecycleLostCorrect, PTL
  DEF Spec, Lifecycle!SafetySpec
=============================================================================
