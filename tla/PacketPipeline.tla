--------------------------- MODULE PacketPipeline ---------------------------
(***************************************************************************)
(* The packet path of the EdgeNetSwitch daemon, from the datagram in the   *)
(* UDP socket to the terminal event counted by PacketStats.                *)
(*                                                                         *)
(* Two threads run it.  The epoll thread reads datagrams (UdpReceiver),    *)
(* serves send-packet commands (ControlDispatch) and, because              *)
(* MessagingBus::publish calls the subscribers synchronously, also runs    *)
(* the PacketRx subscribers: PacketProcessor's admission first, then       *)
(* PacketStats' ingress count, in the order main() subscribes them.  The   *)
(* worker of PacketProcessor drains the bounded queue.  Both threads       *)
(* publish PacketDropped or PacketProcessed, so both run the terminal      *)
(* callbacks of PacketStats, which lifecycle_mutex_ makes atomic.          *)
(*                                                                         *)
(* A datagram is reduced to how far it gets: "parse" (parsePacket leaves   *)
(* it invalid), "reject" (PacketValidator refuses it), "ok".  The MAC      *)
(* table and the transport counters that a forwarded packet updates are    *)
(* not read by this path; module Switching models them.                    *)
(***************************************************************************)
EXTENDS Integers, Sequences, FiniteSets

CONSTANTS
    MAX_QUEUE_SIZE,       \* PacketProcessor's queue limit (1024 in the code)
    MaxPacketsPerWakeup,  \* UdpReceiver's budget per wakeup (256 in the code)
    MaxDatagrams,         \* bound: datagrams the network ever delivers
    MaxSynthetic,         \* bound: packets published by send-packet / replay
    Bursts,               \* the packet sequences one command can publish
    enabled,              \* FailureConfig
    every_n_packets,
    failure_type,
    lifecycle_rules       \* sequence of [lifecycle_id, type]

DatagramKinds == {"parse", "reject", "ok"}

DropReasons == {"ParseError", "ValidationError", "QueueOverflow",
                "SimulatedLoss", "ProcessingError", "InternalError"}

\* A packet on the bus: its lifecycle id, whether processPacket will accept
\* it, whether it carries an ingress port, and which handler published it.
Packets == [lifecycle_id : Nat, ok : BOOLEAN, fwd : BOOLEAN,
            src : {"udp", "control"}]

ASSUME QueueAssumption ==
    MAX_QUEUE_SIZE \in Nat \ {0} /\ MaxPacketsPerWakeup \in Nat \ {0}

ASSUME BoundAssumption == MaxDatagrams \in Nat /\ MaxSynthetic \in Nat

ASSUME BurstAssumption ==
    Bursts \subseteq Seq({p \in Packets : p.src = "control"})

ASSUME FailureAssumption ==
    /\ enabled \in BOOLEAN
    /\ every_n_packets \in Nat
    /\ DOMAIN lifecycle_rules \subseteq Nat

VARIABLES
    socket,             \* datagrams the kernel holds for recvfrom
    nextLifecycle,      \* LifecycleIdGenerator: the id next() returns
    pc,                 \* where the epoll thread is
    hand,               \* the packet the epoll thread is publishing
    reason,             \* the reason of the PacketDropped being published
    packets_processed,  \* local of processReadableEvent
    burst,              \* packets the running command still has to publish
    sent,               \* packets published by commands so far
    sentIds,            \* the lifecycle ids of those packets
    seen_packets,       \* FailureInjector's count
    queue,              \* PacketProcessor's queue_
    wpc,                \* where the worker is
    wpacket,            \* the packet the worker popped
    completed,          \* PacketStats: completed_lifecycles_
    processed_packets,
    drop_counters,
    terminal_events,
    duplicate_events,
    ingress_packets,
    udp_drain_completions

epollVars  == <<pc, hand, reason, packets_processed, burst>>
sourceVars == <<socket, nextLifecycle, sent, sentIds>>
workerVars == <<wpc, wpacket>>
terminalVars == <<completed, processed_packets, drop_counters,
                  terminal_events, duplicate_events>>
statsVars  == <<terminalVars, ingress_packets, udp_drain_completions>>
vars == <<epollVars, sourceVars, seen_packets, queue, workerVars, statsVars>>

NoPacket == [lifecycle_id |-> 0, ok |-> FALSE, fwd |-> FALSE, src |-> "udp"]

Init ==
    /\ socket = <<>>
    /\ nextLifecycle = 1
    /\ pc = "idle"
    /\ hand = NoPacket
    /\ reason = "ParseError"
    /\ packets_processed = 0
    /\ burst = <<>>
    /\ sent = 0
    /\ sentIds = {}
    /\ seen_packets = 0
    /\ queue = <<>>
    /\ wpc = "wait"
    /\ wpacket = NoPacket
    /\ completed = {}
    /\ processed_packets = 0
    /\ drop_counters = [r \in DropReasons |-> 0]
    /\ terminal_events = 0
    /\ duplicate_events = 0
    /\ ingress_packets = 0
    /\ udp_drain_completions = 0

-----------------------------------------------------------------------------
(* PacketStats: the terminal callbacks.  The first terminal event of a     *)
(* lifecycle is counted, every later one only as a duplicate.              *)

DuplicateTerminal ==
    /\ duplicate_events' = duplicate_events + 1
    /\ UNCHANGED <<completed, processed_packets, drop_counters, terminal_events>>

\* Mutant: no completed_lifecycles_ check.
MutProcessedNoDedup(id) ==
    /\ completed' = completed \cup {id}
    /\ processed_packets' = processed_packets + 1
    /\ terminal_events' = terminal_events + 1
    /\ UNCHANGED <<drop_counters, duplicate_events>>

OnPacketProcessed(id) ==
    \/ id \in completed /\ DuplicateTerminal
    \/ /\ id \notin completed
       /\ completed' = completed \cup {id}
       /\ processed_packets' = processed_packets + 1
       /\ terminal_events' = terminal_events + 1
       /\ UNCHANGED <<drop_counters, duplicate_events>>

\* Mutant: the drop is counted before the completed_lifecycles_ check.
MutDroppedNoDedup(id, r) ==
    /\ completed' = completed \cup {id}
    /\ drop_counters' = [drop_counters EXCEPT ![r] = @ + 1]
    /\ terminal_events' = terminal_events + 1
    /\ UNCHANGED <<processed_packets, duplicate_events>>

OnPacketDropped(id, r) ==
    \/ id \in completed /\ DuplicateTerminal
    \/ /\ id \notin completed
       /\ completed' = completed \cup {id}
       /\ drop_counters' = [drop_counters EXCEPT ![r] = @ + 1]
       /\ terminal_events' = terminal_events + 1
       /\ UNCHANGED <<processed_packets, duplicate_events>>

-----------------------------------------------------------------------------
(* UdpReceiver on the epoll thread.                                        *)

\* external: the network puts a datagram into the socket's receive buffer.
Arrive(kind) ==
    /\ nextLifecycle - 1 + Len(socket) < MaxDatagrams
    /\ socket' = Append(socket, kind)
    /\ UNCHANGED <<nextLifecycle, sent, sentIds, epollVars, seen_packets,
                   queue, workerVars, statsVars>>

\* Mutant: packets_processed survives from the previous wakeup.
MutBudgetNotReset ==
    /\ pc = "idle" /\ socket # <<>>
    /\ pc' = "recv"
    /\ UNCHANGED <<hand, reason, packets_processed, burst, sourceVars,
                   seen_packets, queue, workerVars, statsVars>>

\* epoll_wait reports the (level-triggered) UDP fd; processReadableEvent
\* starts with an empty count.
UdpReady ==
    /\ pc = "idle" /\ socket # <<>>
    /\ pc' = "recv"
    /\ packets_processed' = 0
    /\ UNCHANGED <<hand, reason, burst, sourceVars, seen_packets, queue,
                   workerVars, statsVars>>

\* recvfrom returns a datagram.  Every datagram gets a lifecycle id; one
\* that cannot be parsed or is refused is dropped without any PacketRx.
Receive ==
    /\ pc = "recv" /\ packets_processed < MaxPacketsPerWakeup
    /\ socket # <<>>
    /\ socket' = Tail(socket)
    /\ nextLifecycle' = nextLifecycle + 1
    /\ packets_processed' = packets_processed + 1
    /\ hand' = [lifecycle_id |-> nextLifecycle, ok |-> TRUE, fwd |-> FALSE,
                src |-> "udp"]
    /\ \/ Head(socket) = "parse" /\ pc' = "reject" /\ reason' = "ParseError"
       \/ Head(socket) = "reject" /\ pc' = "reject" /\ reason' = "ValidationError"
       \/ Head(socket) = "ok" /\ pc' = "inject" /\ reason' = reason
    /\ UNCHANGED <<sent, sentIds, burst, seen_packets, queue, workerVars,
                   statsVars>>

\* EAGAIN: the socket is drained; IngressIdlePoll is published and counted.
ReceiveNoData ==
    /\ pc = "recv" /\ packets_processed < MaxPacketsPerWakeup
    /\ socket = <<>>
    /\ pc' = "idle"
    /\ udp_drain_completions' = udp_drain_completions + 1
    /\ UNCHANGED <<hand, reason, packets_processed, burst, sourceVars,
                   seen_packets, queue, workerVars, terminalVars,
                   ingress_packets>>

\* EINTR, EBADF or another error ends the wakeup without an event.
ReceiveFailed ==
    /\ pc = "recv" /\ packets_processed < MaxPacketsPerWakeup
    /\ pc' = "idle"
    /\ UNCHANGED <<hand, reason, packets_processed, burst, sourceVars,
                   seen_packets, queue, workerVars, statsVars>>

BudgetExhausted ==
    /\ pc = "recv" /\ packets_processed = MaxPacketsPerWakeup
    /\ pc' = "idle"
    /\ UNCHANGED <<hand, reason, packets_processed, burst, sourceVars,
                   seen_packets, queue, workerVars, statsVars>>

\* The receiver's own PacketDropped: PacketStats counts the terminal event,
\* no ingress is ever counted for it.
PublishReject ==
    /\ pc = "reject"
    /\ OnPacketDropped(hand.lifecycle_id, reason)
    /\ pc' = "recv"
    /\ UNCHANGED <<hand, reason, packets_processed, burst, sourceVars,
                   seen_packets, queue, workerVars, ingress_packets,
                   udp_drain_completions>>

-----------------------------------------------------------------------------
(* send-packet and ReplayPlayer: PacketRx with a lifecycle id the          *)
(* publisher chooses, never one of LifecycleIdGenerator.                   *)

SendPacket(b) ==
    /\ pc = "idle" /\ sent + Len(b) =< MaxSynthetic
    /\ pc' = "burst"
    /\ burst' = b
    /\ UNCHANGED <<hand, reason, packets_processed, sourceVars, seen_packets,
                   queue, workerVars, statsVars>>

PublishNext ==
    /\ pc = "burst" /\ burst # <<>>
    /\ hand' = Head(burst)
    /\ burst' = Tail(burst)
    /\ sent' = sent + 1
    /\ sentIds' = sentIds \cup {Head(burst).lifecycle_id}
    /\ pc' = "inject"
    /\ UNCHANGED <<reason, packets_processed, socket, nextLifecycle,
                   seen_packets, queue, workerVars, statsVars>>

BurstDone ==
    /\ pc = "burst" /\ burst = <<>>
    /\ pc' = "idle"
    /\ UNCHANGED <<hand, reason, packets_processed, burst, sourceVars,
                   seen_packets, queue, workerVars, statsVars>>

-----------------------------------------------------------------------------
(* PacketProcessor's PacketRx subscriber, on the publishing thread.        *)

RulesFor(id) ==
    {i \in DOMAIN lifecycle_rules : lifecycle_rules[i].lifecycle_id = id}

FirstRule(id) ==
    CHOOSE i \in RulesFor(id) : \A j \in RulesFor(id) : i =< j

\* The every-n rule looks at, and counts, only packets no rule names.
CountsTowardsN(id) ==
    /\ enabled /\ RulesFor(id) = {}
    /\ every_n_packets # 0 /\ failure_type # "None"

\* Mutant: the modulus is taken before seen_packets_ is incremented.
MutInjectBeforeCount(id, seen) ==
    IF enabled /\ RulesFor(id) # {} THEN lifecycle_rules[FirstRule(id)].type
    ELSE IF CountsTowardsN(id) /\ (seen - 1) % every_n_packets = 0
         THEN failure_type
         ELSE "None"

InjectedFailure(id, seen) ==
    IF enabled /\ RulesFor(id) # {} THEN lifecycle_rules[FirstRule(id)].type
    ELSE IF CountsTowardsN(id) /\ seen % every_n_packets = 0
         THEN failure_type
         ELSE "None"

IsTerminal(f) == f \notin {"None", "ArtificialDelay"}

FailureReason(f) ==
    CASE f = "MalformedPacket"     -> "ParseError"
      [] f = "ValidationError"     -> "ValidationError"
      [] f = "SimulatedLoss"       -> "SimulatedLoss"
      [] f = "ProcessingRejection" -> "ProcessingError"
      [] OTHER                     -> "InternalError"

\* A terminal failure goes straight to PacketDropped; an artificial delay
\* only delays, which any interleaving with the worker already covers.
Inject ==
    /\ pc = "inject"
    /\ seen_packets' = IF CountsTowardsN(hand.lifecycle_id)
                       THEN seen_packets + 1 ELSE seen_packets
    /\ LET f == InjectedFailure(hand.lifecycle_id, seen_packets')
       IN  \/ /\ IsTerminal(f)
              /\ pc' = "drop" /\ reason' = FailureReason(f)
           \/ /\ ~IsTerminal(f)
              /\ pc' = "enqueue" /\ reason' = reason
    /\ UNCHANGED <<hand, packets_processed, burst, sourceVars, queue,
                   workerVars, statsVars>>

\* Mutant: off by one, > instead of >=.
MutEnqueueOffByOne ==
    /\ pc = "enqueue"
    /\ \/ /\ Len(queue) > MAX_QUEUE_SIZE
          /\ pc' = "drop" /\ reason' = "QueueOverflow"
          /\ queue' = queue
       \/ /\ Len(queue) =< MAX_QUEUE_SIZE
          /\ pc' = "count" /\ reason' = reason
          /\ queue' = Append(queue, hand)
    /\ UNCHANGED <<hand, packets_processed, burst, sourceVars, seen_packets,
                   workerVars, statsVars>>

\* Mutant: an overflowing packet is dropped without PacketDropped.
MutEnqueueSilentDrop ==
    /\ pc = "enqueue"
    /\ pc' = "count"
    /\ queue' = IF Len(queue) < MAX_QUEUE_SIZE THEN Append(queue, hand) ELSE queue
    /\ UNCHANGED <<hand, reason, packets_processed, burst, sourceVars,
                   seen_packets, workerVars, statsVars>>

\* Mutant: push_front.
MutEnqueueFront ==
    /\ pc = "enqueue"
    /\ \/ /\ Len(queue) >= MAX_QUEUE_SIZE
          /\ pc' = "drop" /\ reason' = "QueueOverflow"
          /\ queue' = queue
       \/ /\ Len(queue) < MAX_QUEUE_SIZE
          /\ pc' = "count" /\ reason' = reason
          /\ queue' = <<hand>> \o queue
    /\ UNCHANGED <<hand, packets_processed, burst, sourceVars, seen_packets,
                   workerVars, statsVars>>

\* Under queue_mutex_: reject the newcomer when the queue is full.
Enqueue ==
    /\ pc = "enqueue"
    /\ \/ /\ Len(queue) >= MAX_QUEUE_SIZE
          /\ pc' = "drop" /\ reason' = "QueueOverflow"
          /\ queue' = queue
       \/ /\ Len(queue) < MAX_QUEUE_SIZE
          /\ pc' = "count" /\ reason' = reason
          /\ queue' = Append(queue, hand)
    /\ UNCHANGED <<hand, packets_processed, burst, sourceVars, seen_packets,
                   workerVars, statsVars>>

\* Mutant: handleInjectedFailure returns before publishing.
MutDropNotPublished ==
    /\ pc = "drop"
    /\ pc' = "count"
    /\ UNCHANGED <<hand, reason, packets_processed, burst, sourceVars,
                   seen_packets, queue, workerVars, statsVars>>

PublishDrop ==
    /\ pc = "drop"
    /\ OnPacketDropped(hand.lifecycle_id, reason)
    /\ pc' = "count"
    /\ UNCHANGED <<hand, reason, packets_processed, burst, sourceVars,
                   seen_packets, queue, workerVars, ingress_packets,
                   udp_drain_completions>>

\* PacketStats' PacketRx subscriber runs last; then publish returns to the
\* read loop or to the command.
CountIngress ==
    /\ pc = "count"
    /\ ingress_packets' = ingress_packets + 1
    /\ pc' = IF hand.src = "udp" THEN "recv" ELSE "burst"
    /\ UNCHANGED <<hand, reason, packets_processed, burst, sourceVars,
                   seen_packets, queue, workerVars, terminalVars,
                   udp_drain_completions>>

-----------------------------------------------------------------------------
(* PacketProcessor's worker.                                               *)

WorkerTake ==
    /\ wpc = "wait" /\ queue # <<>>
    /\ wpacket' = Head(queue)
    /\ queue' = Tail(queue)
    /\ wpc' = "check"
    /\ UNCHANGED <<epollVars, sourceVars, seen_packets, statsVars>>

\* Mutant: the worker returns on an invalid packet without PacketDropped.
MutWorkerRejectSilent ==
    /\ wpc = "check" /\ ~wpacket.ok
    /\ wpc' = "wait"
    /\ UNCHANGED <<wpacket, epollVars, sourceVars, seen_packets, queue,
                   statsVars>>

\* Oversized payload or zero timestamp.
WorkerReject ==
    /\ wpc = "check" /\ ~wpacket.ok
    /\ OnPacketDropped(wpacket.lifecycle_id, "ValidationError")
    /\ wpc' = "wait"
    /\ UNCHANGED <<wpacket, epollVars, sourceVars, seen_packets, queue,
                   ingress_packets, udp_drain_completions>>

\* Forwarding decision, transmissions and ForwardingDecisionMade come before
\* the terminal event, and only for a packet with an ingress port.
WorkerForward ==
    /\ wpc = "check" /\ wpacket.ok /\ wpacket.fwd
    /\ wpc' = "publish"
    /\ UNCHANGED <<wpacket, epollVars, sourceVars, seen_packets, queue,
                   statsVars>>

\* Mutant: PacketProcessed is published only for forwarded packets.
MutPublishOnlyForwarded ==
    /\ \/ wpc = "publish" /\ OnPacketProcessed(wpacket.lifecycle_id)
       \/ /\ wpc = "check" /\ wpacket.ok /\ ~wpacket.fwd
          /\ UNCHANGED terminalVars
    /\ wpc' = "wait"
    /\ UNCHANGED <<wpacket, epollVars, sourceVars, seen_packets, queue,
                   ingress_packets, udp_drain_completions>>

WorkerPublish ==
    /\ \/ wpc = "publish"
       \/ wpc = "check" /\ wpacket.ok /\ ~wpacket.fwd
    /\ OnPacketProcessed(wpacket.lifecycle_id)
    /\ wpc' = "wait"
    /\ UNCHANGED <<wpacket, epollVars, sourceVars, seen_packets, queue,
                   ingress_packets, udp_drain_completions>>

-----------------------------------------------------------------------------
EpollThread ==
    \/ UdpReady \/ Receive \/ ReceiveNoData \/ ReceiveFailed
    \/ BudgetExhausted \/ PublishReject
    \/ PublishNext \/ BurstDone
    \/ Inject \/ Enqueue \/ PublishDrop \/ CountIngress

Worker == WorkerTake \/ WorkerReject \/ WorkerForward \/ WorkerPublish

Environment ==
    \/ \E kind \in DatagramKinds : Arrive(kind)
    \/ \E b \in Bursts : SendPacket(b)

Next == EpollThread \/ Worker \/ Environment

\* Both threads run whenever they can.  recvfrom fails only now and then: a
\* thread that keeps trying eventually reads the datagram (strong fairness).
Fairness == WF_vars(EpollThread) /\ WF_vars(Worker) /\ SF_vars(Receive)

Spec == Init /\ [][Next]_vars /\ Fairness
-----------------------------------------------------------------------------
(* Derived state.                                                          *)

\* PacketStats::drops().
Drops == drop_counters["ParseError"] + drop_counters["ValidationError"]
         + drop_counters["QueueOverflow"] + drop_counters["SimulatedLoss"]
         + drop_counters["ProcessingError"] + drop_counters["InternalError"]

\* PacketStats' pending_terminal_events.
Pending == IF ingress_packets > terminal_events
           THEN ingress_packets - terminal_events ELSE 0

\* The epoll thread holds a packet that has neither been queued nor ended.
HandHolds == pc \in {"inject", "enqueue", "drop", "reject"}

WorkerHolds == wpc \in {"check", "publish"}

HandCount == IF HandHolds THEN 1 ELSE 0

WorkerCount == IF WorkerHolds THEN 1 ELSE 0

\* Every lifecycle id handed out, by the generator or by a command.
Assigned == 1..(nextLifecycle - 1) \cup sentIds

InFlight == {queue[i].lifecycle_id : i \in 1..Len(queue)}
            \cup (IF HandHolds THEN {hand.lifecycle_id} ELSE {})
            \cup (IF WorkerHolds THEN {wpacket.lifecycle_id} ELSE {})

AllIds == 1..MaxDatagrams
          \cup UNION {{b[i].lifecycle_id : i \in DOMAIN b} : b \in Bursts}

Quiet == pc = "idle" /\ queue = <<>> /\ wpc = "wait"

-----------------------------------------------------------------------------
(* Properties.                                                             *)

\* Type invariant: the queue never exceeds MAX_QUEUE_SIZE, the epoll thread
\* is at one of its program points and every counter is a natural number.
TypeOK ==
    /\ socket \in Seq(DatagramKinds)
    /\ nextLifecycle \in Nat \ {0}
    /\ pc \in {"idle", "recv", "reject", "burst", "inject", "enqueue",
               "drop", "count"}
    /\ hand \in Packets
    /\ reason \in DropReasons
    /\ packets_processed \in 0..MaxPacketsPerWakeup
    /\ burst \in Seq(Packets)
    /\ sent \in Nat
    /\ sentIds \in SUBSET Nat
    /\ seen_packets \in Nat
    /\ queue \in Seq(Packets) /\ Len(queue) =< MAX_QUEUE_SIZE
    /\ wpc \in {"wait", "check", "publish"}
    /\ wpacket \in Packets
    /\ completed \in SUBSET Nat
    /\ processed_packets \in Nat
    /\ drop_counters \in [DropReasons -> Nat]
    /\ terminal_events \in Nat
    /\ duplicate_events \in Nat
    /\ ingress_packets \in Nat
    /\ udp_drain_completions \in Nat

\* No packet disappears and none is counted twice: the lifecycles handed out
\* by LifecycleIdGenerator plus the packets commands published equal the
\* terminal events PacketStats saw (counted or duplicate) plus the packets
\* in the publisher's hand, in the queue and with the worker.
Conservation ==
    (nextLifecycle - 1) + sent
        = terminal_events + duplicate_events + Len(queue)
          + HandCount + WorkerCount

\* A lifecycle id that was handed out is either completed in PacketStats or
\* still carried by a packet in flight; PacketStats completes no other id.
NoLifecycleLost == Assigned = completed \cup InFlight

\* terminal_events = processed_packets + sum(drops_by_reason), and each
\* counted event stands for one distinct completed lifecycle.
TerminalAccounting ==
    /\ terminal_events = processed_packets + Drops
    /\ IsFiniteSet(completed) /\ terminal_events = Cardinality(completed)

\* The backlog PacketStats reports is bounded: what exceeds a full queue and
\* the worker's packet can only come from lifecycle ids that were reused.
PendingBounded == Pending =< MAX_QUEUE_SIZE + 1 + duplicate_events

\* Datagrams keep their order: the lifecycles the receiver numbered stand in
\* the queue in the order of their ids, behind the one the worker holds.
UdpOrder ==
    LET line == (IF WorkerHolds THEN <<wpacket>> ELSE <<>>) \o queue
    IN  \A i, j \in 1..Len(line) :
            i < j /\ line[i].src = "udp" /\ line[j].src = "udp"
                => line[i].lifecycle_id < line[j].lifecycle_id

\* The every-n schedule of FailureInjector loses exactly every n-th packet it
\* counts; the loss in the publisher's hand, or one reported for a reused
\* lifecycle id, is the only difference to the reported drops.
InjectionSchedule ==
    LET losses == seen_packets \div every_n_packets
        reported == drop_counters["SimulatedLoss"]
    IN  (enabled /\ every_n_packets # 0 /\ failure_type = "SimulatedLoss"
         /\ \A i \in DOMAIN lifecycle_rules :
                lifecycle_rules[i].type # "SimulatedLoss")
        => /\ reported =< losses
           /\ losses =< reported + duplicate_events
                 + (IF pc = "drop" /\ reason = "SimulatedLoss" THEN 1 ELSE 0)

\* Every lifecycle converges: an id that was handed out is eventually
\* completed, whatever the load, the injected failures and the read errors.
EveryLifecycleEnds ==
    \A id \in AllIds : id \in Assigned ~> id \in completed

\* No datagram is left in the socket: when the per-wakeup budget or a failed
\* read ends a wakeup early, the level-triggered fd starts another one.
SocketDrained == []<>(socket = <<>>)

Lifecycle == INSTANCE PacketLifecycle WITH
    Ids <- AllIds,
    status <- [id \in AllIds |-> IF id \in completed THEN "done"
                                 ELSE IF id \in Assigned THEN "inflight"
                                 ELSE "fresh"],
    processed <- processed_packets,
    dropped <- Drops

\* The packet path keeps PacketLifecycle's promise: every lifecycle enters
\* once, ends once, and moves exactly one of the two counters when it ends,
\* also when commands reuse a lifecycle id.
LifecycleRefinement == Lifecycle!Spec

\* What the documentation says of the steady state: with no packet in flight
\* nothing is pending.
SteadyStateNothingPending == Quiet => Pending = 0
=============================================================================
