--------------------------- MODULE PacketProcessor ---------------------------
(***************************************************************************)
(* PacketProcessor's hand-off between the threads that publish PacketRx    *)
(* and its worker, with queue_mutex_, cv_ and running_ step by step, up to *)
(* and including the destructor.  PacketPipeline treats this hand-off as   *)
(* an atomic queue; here it is shown to behave like one, and the           *)
(* destructor, which PacketPipeline leaves out, is added.                  *)
(*                                                                         *)
(* A packet is its number.  Several publishers are allowed: MessagingBus   *)
(* runs the subscriber on whatever thread publishes.                       *)
(***************************************************************************)
EXTENDS Naturals, Sequences, FiniteSets

CONSTANTS
    Publishers,         \* threads that publish PacketRx
    MAX_QUEUE_SIZE,
    MaxPackets          \* bound: packets published

ASSUME SizeAssumption == MAX_QUEUE_SIZE \in Nat \ {0} /\ MaxPackets \in Nat

VARIABLES
    queue,              \* queue_
    running,            \* running_
    lockedByWorker,     \* the worker holds queue_mutex_
    ppc, ppacket,       \* per publisher: place in the subscriber, packet
    wpc, wpacket,       \* the worker
    dpc,                \* the thread that destroys the processor
    next,               \* number of the next packet
    admitted,           \* packets in the order they were queued
    processed,          \* packets in the order processPacket got them
    overflowed          \* packets reported as QueueOverflow

pubVars    == <<ppc, ppacket, next>>
resultVars == <<admitted, processed, overflowed>>
vars == <<queue, running, lockedByWorker, pubVars, wpc, wpacket, dpc,
          resultVars>>

Init ==
    /\ queue = <<>>
    /\ running = TRUE
    /\ lockedByWorker = FALSE
    /\ ppc = [p \in Publishers |-> "idle"]
    /\ ppacket = [p \in Publishers |-> 0]
    /\ wpc = "lock" /\ wpacket = 0
    /\ dpc = "alive"
    /\ next = 1
    /\ admitted = <<>> /\ processed = <<>> /\ overflowed = {}

-----------------------------------------------------------------------------
(* The PacketRx subscriber on a publisher's thread.                        *)

\* The owner stops its publishers before it destroys the processor.
Publish(p) ==
    /\ ppc[p] = "idle" /\ next =< MaxPackets
    /\ dpc = "alive"
    /\ ppc' = [ppc EXCEPT ![p] = "admit"]
    /\ ppacket' = [ppacket EXCEPT ![p] = next]
    /\ next' = next + 1
    /\ UNCHANGED <<queue, running, lockedByWorker, wpc, wpacket, dpc, resultVars>>

\* Mutant: a full queue makes room by dropping its oldest packet.
MutAdmitDropsOldest(p) ==
    /\ ppc[p] = "admit" /\ ~lockedByWorker
    /\ queue' = IF Len(queue) >= MAX_QUEUE_SIZE
                THEN Append(Tail(queue), ppacket[p])
                ELSE Append(queue, ppacket[p])
    /\ admitted' = Append(admitted, ppacket[p])
    /\ ppc' = [ppc EXCEPT ![p] = "notify"]
    /\ UNCHANGED <<running, lockedByWorker, ppacket, next, wpc, wpacket, dpc,
                   processed, overflowed>>

\* The section under queue_mutex_.
Admit(p) ==
    /\ ppc[p] = "admit" /\ ~lockedByWorker
    /\ \/ /\ Len(queue) >= MAX_QUEUE_SIZE
          /\ ppc' = [ppc EXCEPT ![p] = "drop"]
          /\ UNCHANGED <<queue, admitted>>
       \/ /\ Len(queue) < MAX_QUEUE_SIZE
          /\ queue' = Append(queue, ppacket[p])
          /\ admitted' = Append(admitted, ppacket[p])
          /\ ppc' = [ppc EXCEPT ![p] = "notify"]
    /\ UNCHANGED <<running, lockedByWorker, ppacket, next, wpc, wpacket, dpc,
                   processed, overflowed>>

PublishOverflow(p) ==
    /\ ppc[p] = "drop"
    /\ overflowed' = overflowed \cup {ppacket[p]}
    /\ ppc' = [ppc EXCEPT ![p] = "idle"]
    /\ UNCHANGED <<queue, running, lockedByWorker, ppacket, next, wpc,
                   wpacket, dpc, admitted, processed>>

\* A notification wakes the worker only if it is already blocked.
Wake == wpc' = IF wpc = "blocked" THEN "lock" ELSE wpc

\* Mutant: the subscriber does not notify.
MutNoNotify(p) ==
    /\ ppc[p] = "notify"
    /\ ppc' = [ppc EXCEPT ![p] = "idle"]
    /\ UNCHANGED <<queue, running, lockedByWorker, ppacket, next, wpc,
                   wpacket, dpc, resultVars>>

\* notify_one, after the mutex is released.
Notify(p) ==
    /\ ppc[p] = "notify"
    /\ Wake
    /\ ppc' = [ppc EXCEPT ![p] = "idle"]
    /\ UNCHANGED <<queue, running, lockedByWorker, ppacket, next, wpacket,
                   dpc, resultVars>>

-----------------------------------------------------------------------------
(* The worker: processLoop.                                                *)

Lock ==
    /\ wpc = "lock"
    /\ lockedByWorker' = TRUE
    /\ wpc' = "predicate"
    /\ UNCHANGED <<queue, running, pubVars, wpacket, dpc, resultVars>>

\* Mutant: the loop ends as soon as running_ is false.
MutExitWithoutDrain ==
    /\ wpc = "predicate"
    /\ \/ /\ running /\ queue # <<>>
          /\ wpacket' = Head(queue) /\ queue' = Tail(queue)
          /\ wpc' = "process" /\ lockedByWorker' = FALSE
       \/ /\ ~running
          /\ wpc' = "done" /\ lockedByWorker' = FALSE
          /\ UNCHANGED <<queue, wpacket>>
       \/ /\ queue = <<>> /\ running
          /\ wpc' = "wait"
          /\ UNCHANGED <<queue, wpacket, lockedByWorker>>
    /\ UNCHANGED <<running, pubVars, dpc, resultVars>>

\* The wait predicate and the exit test, with the mutex held.
Predicate ==
    /\ wpc = "predicate"
    /\ \/ /\ queue # <<>>
          /\ wpacket' = Head(queue) /\ queue' = Tail(queue)
          /\ wpc' = "process" /\ lockedByWorker' = FALSE
       \/ /\ queue = <<>> /\ ~running
          /\ wpc' = "done" /\ lockedByWorker' = FALSE
          /\ UNCHANGED <<queue, wpacket>>
       \/ /\ queue = <<>> /\ running
          /\ wpc' = "wait"
          /\ UNCHANGED <<queue, wpacket, lockedByWorker>>
    /\ UNCHANGED <<running, pubVars, dpc, resultVars>>

\* wait() releases the mutex and blocks in one step.
Block ==
    /\ wpc = "wait"
    /\ lockedByWorker' = FALSE
    /\ wpc' = "blocked"
    /\ UNCHANGED <<queue, running, pubVars, wpacket, dpc, resultVars>>

SpuriousWakeup ==
    /\ wpc = "blocked"
    /\ wpc' = "lock"
    /\ UNCHANGED <<queue, running, lockedByWorker, pubVars, wpacket, dpc,
                   resultVars>>

processPacket ==
    /\ wpc = "process"
    /\ processed' = Append(processed, wpacket)
    /\ wpc' = "lock"
    /\ UNCHANGED <<queue, running, lockedByWorker, pubVars, wpacket, dpc,
                   admitted, overflowed>>

-----------------------------------------------------------------------------
(* The destructor.                                                         *)

\* running_ is cleared without queue_mutex_.
Destroy ==
    /\ dpc = "alive"
    /\ \A p \in Publishers : ppc[p] = "idle"
    /\ running' = FALSE
    /\ dpc' = "notify"
    /\ UNCHANGED <<queue, lockedByWorker, pubVars, wpc, wpacket, resultVars>>

NotifyAll ==
    /\ dpc = "notify"
    /\ Wake
    /\ dpc' = "join"
    /\ UNCHANGED <<queue, running, lockedByWorker, pubVars, wpacket, resultVars>>

Join ==
    /\ dpc = "join" /\ wpc = "done"
    /\ dpc' = "gone"
    /\ UNCHANGED <<queue, running, lockedByWorker, pubVars, wpc, wpacket,
                   resultVars>>

-----------------------------------------------------------------------------
Subscriber(p) == Admit(p) \/ PublishOverflow(p) \/ Notify(p)

Worker == Lock \/ Predicate \/ Block \/ processPacket

Destructor == NotifyAll \/ Join

Next ==
    \/ \E p \in Publishers : Publish(p) \/ Subscriber(p)
    \/ Worker \/ SpuriousWakeup
    \/ Destroy \/ Destructor

\* Threads make progress inside a call, and a publisher that keeps asking for
\* the mutex gets it.  Nothing obliges anyone to publish or to destroy.
Fairness ==
    /\ \A p \in Publishers : /\ SF_vars(Admit(p))
                             /\ WF_vars(PublishOverflow(p) \/ Notify(p))
    /\ WF_vars(Worker) /\ WF_vars(Destructor)

Spec == Init /\ [][Next]_vars /\ Fairness

-----------------------------------------------------------------------------
(* Properties.                                                             *)

Busy == wpc = "process"

\* The hand-off is a FIFO: what the worker has processed, holds and still has
\* queued is exactly what was admitted, in the order of admission; and the
\* queue keeps to its limit.
HandoffIsFifo ==
    /\ admitted = processed \o (IF Busy THEN <<wpacket>> ELSE <<>>) \o queue
    /\ Len(queue) =< MAX_QUEUE_SIZE

In(n, seq) == \E i \in 1..Len(seq) : seq[i] = n

\* No wakeup of the subscriber is lost: every admitted packet is processed,
\* also when the destructor starts while it is still queued.
AdmittedIsProcessed ==
    \A n \in 1..MaxPackets : In(n, queue) ~> In(n, processed)

\* What the documentation says of shutdown: the destructor ends the worker.
DestructorReturns == dpc = "notify" ~> dpc = "gone"
=============================================================================
