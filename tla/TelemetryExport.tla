--------------------------- MODULE TelemetryExport ---------------------------
(***************************************************************************)
(* TelemetryExportManager: the main thread enqueues one sample per         *)
(* telemetry tick into a queue that drops its oldest sample when full, and *)
(* an export thread hands the samples to the exporters.  queue_mutex_,     *)
(* queue_cv_ and running_ are modelled step by step, because stop()        *)
(* changes running_ without holding the mutex.                             *)
(*                                                                         *)
(* A sample is its number; the main thread is the only caller of start,    *)
(* enqueue and stop in the daemon.                                         *)
(***************************************************************************)
EXTENDS Naturals, Sequences

CONSTANTS
    Capacities,     \* the capacities tried (512 by default; 0 disables the queue)
    Exporters,
    MaxSamples      \* bound: samples enqueued

ASSUME CapacityAssumption == Capacities \subseteq Nat /\ MaxSamples \in Nat

VARIABLES
    capacity,       \* capacity_, fixed by the constructor
    queue, dropped_count, running,
    mutex,          \* "free", or "exporter" while the export thread holds it
    mpc,            \* the main thread: between calls, in enqueue or in stop
    epc,            \* the export thread
    hand,           \* the sample being exported
    enqueued,       \* samples given to enqueue
    exported,       \* samples handed to the exporters
    delivered,      \* delivered[e]: samples exporter e accepted
    failed          \* failed[e]: samples exporter e threw on

queueVars  == <<queue, dropped_count, enqueued>>
exportVars == <<hand, exported, delivered, failed>>
vars == <<queueVars, running, mutex, mpc, epc, exportVars>>
allVars == <<capacity, vars>>

Init ==
    /\ capacity \in Capacities
    /\ queue = <<>> /\ dropped_count = 0 /\ enqueued = 0
    /\ running = FALSE
    /\ mutex = "free"
    /\ mpc = "new"
    /\ epc = "none"
    /\ hand = 0 /\ exported = 0
    /\ delivered = [e \in Exporters |-> <<>>]
    /\ failed = [e \in Exporters |-> 0]

-----------------------------------------------------------------------------
(* The main thread.                                                        *)

\* start() wins the compare-exchange and creates the thread; a second call
\* finds running_ set and returns.
start ==
    /\ mpc = "new"
    /\ running' = TRUE
    /\ mpc' = "run"
    /\ epc' = "lock"
    /\ UNCHANGED <<queueVars, mutex, exportVars>>

\* Mutant: the newest queued sample is dropped instead of the oldest.
MutEnqueueDropsNewest ==
    /\ mpc = "run" /\ capacity # 0 /\ enqueued < MaxSamples
    /\ mutex = "free"
    /\ enqueued' = enqueued + 1
    /\ queue' = IF Len(queue) >= capacity
                THEN [queue EXCEPT ![Len(queue)] = enqueued + 1]
                ELSE Append(queue, enqueued + 1)
    /\ dropped_count' = IF Len(queue) >= capacity THEN dropped_count + 1
                        ELSE dropped_count
    /\ mpc' = "notify"
    /\ UNCHANGED <<running, mutex, epc, exportVars>>

\* Mutant: the sample is added at the front.
MutEnqueueFront ==
    /\ mpc = "run" /\ capacity # 0 /\ enqueued < MaxSamples
    /\ mutex = "free"
    /\ enqueued' = enqueued + 1
    /\ queue' = IF Len(queue) >= capacity
                THEN <<enqueued + 1>> \o Tail(queue)
                ELSE <<enqueued + 1>> \o queue
    /\ dropped_count' = IF Len(queue) >= capacity THEN dropped_count + 1
                        ELSE dropped_count
    /\ mpc' = "notify"
    /\ UNCHANGED <<running, mutex, epc, exportVars>>
\* Mutant: a disabled queue discards the sample without counting it.
MutEnqueueDisabledUncounted ==
    /\ mpc = "run" /\ enqueued < MaxSamples
    /\ mutex = "free"
    /\ enqueued' = enqueued + 1
    /\ \/ /\ capacity = 0
          /\ UNCHANGED <<queue, mpc, dropped_count>>
       \/ /\ capacity # 0 /\ Len(queue) >= capacity
          /\ queue' = Append(Tail(queue), enqueued + 1)
          /\ dropped_count' = dropped_count + 1
          /\ mpc' = "notify"
       \/ /\ capacity # 0 /\ Len(queue) < capacity
          /\ queue' = Append(queue, enqueued + 1)
          /\ UNCHANGED dropped_count
          /\ mpc' = "notify"
    /\ UNCHANGED <<running, mutex, epc, exportVars>>

\* The section of enqueue under queue_mutex_.
enqueue ==
    /\ mpc = "run" /\ enqueued < MaxSamples
    /\ mutex = "free"
    /\ enqueued' = enqueued + 1
    /\ \/ /\ capacity = 0
          /\ dropped_count' = dropped_count + 1
          /\ UNCHANGED <<queue, mpc>>
       \/ /\ capacity # 0 /\ Len(queue) >= capacity
          /\ queue' = Append(Tail(queue), enqueued + 1)
          /\ dropped_count' = dropped_count + 1
          /\ mpc' = "notify"
       \/ /\ capacity # 0 /\ Len(queue) < capacity
          /\ queue' = Append(queue, enqueued + 1)
          /\ UNCHANGED dropped_count
          /\ mpc' = "notify"
    /\ UNCHANGED <<running, mutex, epc, exportVars>>

\* A notification wakes the export thread only if it is already blocked.
Wake == epc' = IF epc = "blocked" THEN "lock" ELSE epc

\* Mutant: enqueue does not notify.
MutNoNotify ==
    /\ mpc = "notify"
    /\ mpc' = "run"
    /\ UNCHANGED <<queueVars, running, mutex, epc, exportVars>>

notify_one ==
    /\ mpc = "notify"
    /\ Wake
    /\ mpc' = "run"
    /\ UNCHANGED <<queueVars, running, mutex, exportVars>>

\* stop(): running_ is cleared without the mutex ...
stop ==
    /\ mpc = "run"
    /\ running' = FALSE
    /\ mpc' = "stopping"
    /\ UNCHANGED <<queueVars, mutex, epc, exportVars>>

\* ... then notify_all ...
notify_all ==
    /\ mpc = "stopping"
    /\ Wake
    /\ mpc' = "joining"
    /\ UNCHANGED <<queueVars, running, mutex, exportVars>>

\* ... then join.
join ==
    /\ mpc = "joining" /\ epc = "done"
    /\ mpc' = "stopped"
    /\ UNCHANGED <<queueVars, running, mutex, epc, exportVars>>

-----------------------------------------------------------------------------
(* The export thread: exportLoop.                                          *)

Lock ==
    /\ epc = "lock" /\ mutex = "free"
    /\ mutex' = "exporter"
    /\ epc' = "predicate"
    /\ UNCHANGED <<queueVars, running, mpc, exportVars>>

\* Mutant: the loop ends as soon as running_ is false.
MutExitWithoutDrain ==
    /\ epc = "predicate"
    /\ \/ /\ running /\ queue # <<>>
          /\ hand' = Head(queue) /\ queue' = Tail(queue)
          /\ epc' = "export" /\ mutex' = "free"
       \/ /\ ~running
          /\ epc' = "done" /\ mutex' = "free"
          /\ UNCHANGED <<hand, queue>>
       \/ /\ queue = <<>> /\ running
          /\ epc' = "wait"
          /\ UNCHANGED <<hand, queue, mutex>>
    /\ UNCHANGED <<dropped_count, enqueued, running, mpc, exported,
                   delivered, failed>>

\* The wait predicate and the test after it, with the mutex held.  When the
\* predicate is false the thread is committed to waiting.
Predicate ==
    /\ epc = "predicate"
    /\ \/ /\ queue # <<>>
          /\ hand' = Head(queue) /\ queue' = Tail(queue)
          /\ epc' = "export" /\ mutex' = "free"
       \/ /\ queue = <<>> /\ ~running
          /\ epc' = "done" /\ mutex' = "free"
          /\ UNCHANGED <<hand, queue>>
       \/ /\ queue = <<>> /\ running
          /\ epc' = "wait"
          /\ UNCHANGED <<hand, queue, mutex>>
    /\ UNCHANGED <<dropped_count, enqueued, running, mpc, exported,
                   delivered, failed>>

\* wait() releases the mutex and blocks in one step.
Block ==
    /\ epc = "wait"
    /\ mutex' = "free"
    /\ epc' = "blocked"
    /\ UNCHANGED <<queueVars, running, mpc, exportVars>>

\* The standard allows a wait to return without a notification.
SpuriousWakeup ==
    /\ epc = "blocked"
    /\ epc' = "lock"
    /\ UNCHANGED <<queueVars, running, mutex, mpc, exportVars>>

\* Mutant: the try block encloses the loop, so one exception ends it.
MutThrowEndsLoop ==
    /\ epc = "export"
    /\ \E reached \in SUBSET Exporters, e \in Exporters :
         /\ delivered' = [x \in Exporters |->
                IF x \in reached \ {e} THEN Append(delivered[x], hand)
                ELSE delivered[x]]
         /\ failed' = [failed EXCEPT ![e] = @ + 1]
    /\ exported' = exported + 1
    /\ hand' = 0
    /\ epc' = "lock"
    /\ UNCHANGED <<queueVars, running, mutex, mpc>>

\* exportSample: every exporter gets the sample; one that throws is skipped.
exportSample ==
    /\ epc = "export"
    /\ \E throwing \in SUBSET Exporters :
         /\ delivered' = [e \in Exporters |->
                IF e \in throwing THEN delivered[e] ELSE Append(delivered[e], hand)]
         /\ failed' = [e \in Exporters |->
                IF e \in throwing THEN failed[e] + 1 ELSE failed[e]]
    /\ exported' = exported + 1
    /\ hand' = 0
    /\ epc' = "lock"
    /\ UNCHANGED <<queueVars, running, mutex, mpc>>

-----------------------------------------------------------------------------
MainThread == enqueue \/ notify_one \/ notify_all \/ join

ExportThread == Lock \/ Predicate \/ Block \/ exportSample

Next ==
    /\ start \/ stop \/ MainThread \/ ExportThread \/ SpuriousWakeup
    /\ UNCHANGED capacity

\* Both threads make progress inside a call; nothing obliges the daemon to
\* call stop, and nothing makes a spurious wakeup happen.
Fairness == WF_vars(notify_one) /\ WF_vars(notify_all) /\ WF_vars(join)
            /\ WF_vars(ExportThread)

Spec == Init /\ [][Next]_allVars /\ Fairness

-----------------------------------------------------------------------------
(* Properties.                                                             *)

Holding == epc = "export"

HoldCount == IF Holding THEN 1 ELSE 0

\* Every sample is accounted for: dropped, queued, in the export thread's
\* hand, or exported.
SampleConservation ==
    enqueued = dropped_count + Len(queue) + HoldCount + exported

\* The queue drops its oldest sample: it always holds the latest samples,
\* in order and without a gap, and no more of them than its capacity, which
\* may be 0.
QueueIsLatest ==
    /\ Len(queue) =< capacity
    /\ \A i \in 1..Len(queue) : queue[i] = enqueued - Len(queue) + i

\* Every exporter sees samples in the order they were taken, each at most
\* once, and a sample being exported is newer than all it has seen.
DeliveredInOrder ==
    \A e \in Exporters :
        /\ \A i, j \in 1..Len(delivered[e]) :
              i < j => delivered[e][i] < delivered[e][j]
        /\ Holding => \A i \in 1..Len(delivered[e]) : delivered[e][i] < hand

\* An exporter that throws costs no other exporter a sample: each exporter
\* has been offered every sample that was exported.
ExporterIsolation ==
    \A e \in Exporters : Len(delivered[e]) + failed[e] = exported

\* The export thread leaves nothing behind: once stop() has returned, every
\* sample was dropped on overflow or exported.
StoppedMeansDrained ==
    mpc = "stopped" => enqueued = dropped_count + exported

Queued(n) == \E i \in 1..Len(queue) : queue[i] = n

\* No wakeup of enqueue is lost: a queued sample does not stay queued, it is
\* exported or pushed out by newer ones, stop() or not.
QueueDrains == \A n \in 1..MaxSamples : Queued(n) ~> ~Queued(n)
=============================================================================
