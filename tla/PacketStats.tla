----------------------------- MODULE PacketStats -----------------------------
(***************************************************************************)
(* PacketStats at the granularity of its atomics.  Publisher threads run   *)
(* the PacketProcessed, PacketDropped and PacketRx callbacks; the reader   *)
(* (RuntimeStatusBuilder::build on the main thread) runs snapshotAt, which *)
(* takes lifecycle_mutex_ only for part of what it reads.                  *)
(*                                                                         *)
(* drop_counters_ is reduced to the sum over its reasons.                  *)
(***************************************************************************)
EXTENDS Naturals, FiniteSets

CONSTANTS
    Threads,        \* threads that publish packet events
    Ids,            \* lifecycle ids
    Latencies,      \* processing latencies (ns) a packet can show
    MaxEvents,      \* bound: callbacks run
    NoThread

ASSUME ThreadAssumption == NoThread \notin Threads

ASSUME LatencyAssumption == Latencies \subseteq Nat /\ MaxEvents \in Nat

VARIABLES
    lock,           \* holder of lifecycle_mutex_, or NoThread
    tpc,            \* tpc[t]: next step of t's callback
    lat,            \* lat[t]: latency of the packet t is accounting
    events,         \* callbacks started
    completed, rx_packets, processed_packets, terminal_events,
    duplicate_events, drops, ingress_packets,
    total_latency, latency_samples, max_latency,
    rpc,            \* where snapshotAt is
    partial,        \* what snapshotAt has read so far
    snap            \* the last PacketMetrics returned

callbackVars == <<lock, tpc, lat, events>>
lockedVars   == <<completed, processed_packets, terminal_events,
                  duplicate_events, drops>>
looseVars    == <<rx_packets, ingress_packets, total_latency,
                  latency_samples, max_latency>>
readerVars   == <<rpc, partial, snap>>
vars == <<callbackVars, lockedVars, looseVars, readerVars>>

Blank == [rx |-> 0, ingress |-> 0, processed |-> 0, terminal |-> 0,
          duplicates |-> 0, drops |-> 0, gap |-> 0, pending |-> 0,
          total |-> 0, max |-> 0, samples |-> 0]

Init ==
    /\ lock = NoThread
    /\ tpc = [t \in Threads |-> "idle"]
    /\ lat = [t \in Threads |-> 0]
    /\ events = 0
    /\ completed = {}
    /\ rx_packets = 0 /\ processed_packets = 0 /\ terminal_events = 0
    /\ duplicate_events = 0 /\ drops = 0 /\ ingress_packets = 0
    /\ total_latency = 0 /\ latency_samples = 0 /\ max_latency = 0
    /\ rpc = "rx" /\ partial = Blank /\ snap = Blank

-----------------------------------------------------------------------------
(* The callbacks.                                                          *)

Goto(t, label) == tpc' = [tpc EXCEPT ![t] = label]

\* A callback starts: the lock is taken and the lifecycle inserted; a
\* lifecycle already there is only counted as a duplicate.
Insert(t, id, next) ==
    /\ tpc[t] = "idle" /\ events < MaxEvents
    /\ lock = NoThread
    /\ events' = events + 1
    /\ \/ /\ id \in completed
          /\ duplicate_events' = duplicate_events + 1
          /\ UNCHANGED <<lock, tpc, completed>>
       \/ /\ id \notin completed
          /\ completed' = completed \cup {id}
          /\ lock' = t
          /\ Goto(t, next)
          /\ UNCHANGED duplicate_events
    /\ UNCHANGED <<processed_packets, terminal_events, drops, looseVars,
                   readerVars>>

\* l = 0 stands for a packet without an ingress timestamp, which is not
\* sampled.
OnPacketProcessed(t, id, l) ==
    Insert(t, id, "rx") /\ lat' = [lat EXCEPT ![t] = l]

OnPacketDropped(t, id) == Insert(t, id, "drop") /\ UNCHANGED lat

\* rx_packets_, then rx_bytes_ by the payload's size.
AddRx(t) ==
    /\ tpc[t] = "rx"
    /\ rx_packets' = rx_packets + 1
    /\ Goto(t, "processed")
    /\ UNCHANGED <<lock, lat, events, lockedVars, ingress_packets,
                   total_latency, latency_samples, max_latency, readerVars>>

AddProcessed(t) ==
    /\ tpc[t] = "processed"
    /\ processed_packets' = processed_packets + 1
    /\ Goto(t, "terminal")
    /\ UNCHANGED <<lock, lat, events, completed, terminal_events,
                   duplicate_events, drops, looseVars, readerVars>>

AddDrop(t) ==
    /\ tpc[t] = "drop"
    /\ drops' = drops + 1
    /\ lat' = [lat EXCEPT ![t] = 0]
    /\ Goto(t, "terminal")
    /\ UNCHANGED <<lock, events, completed, processed_packets,
                   terminal_events, duplicate_events, looseVars, readerVars>>

\* terminal_events_ is the last counter of a drop and of an unsampled packet.
AddTerminal(t) ==
    /\ tpc[t] = "terminal"
    /\ terminal_events' = terminal_events + 1
    /\ \/ lat[t] = 0 /\ lock' = NoThread /\ Goto(t, "idle")
       \/ lat[t] # 0 /\ lock' = lock /\ Goto(t, "total")
    /\ UNCHANGED <<lat, events, completed, processed_packets,
                   duplicate_events, drops, looseVars, readerVars>>

AddTotal(t) ==
    /\ tpc[t] = "total"
    /\ total_latency' = total_latency + lat[t]
    /\ Goto(t, "samples")
    /\ UNCHANGED <<lock, lat, events, lockedVars, rx_packets,
                   ingress_packets, latency_samples, max_latency, readerVars>>

AddSample(t) ==
    /\ tpc[t] = "samples"
    /\ latency_samples' = latency_samples + 1
    /\ Goto(t, "max")
    /\ UNCHANGED <<lock, lat, events, lockedVars, rx_packets,
                   ingress_packets, total_latency, max_latency, readerVars>>

\* Mutant: the latest latency is stored without comparing.
MutMaxOverwritten(t) ==
    /\ tpc[t] = "max"
    /\ max_latency' = lat[t]
    /\ lock' = NoThread
    /\ Goto(t, "idle")
    /\ UNCHANGED <<lat, events, lockedVars, rx_packets, ingress_packets,
                   total_latency, latency_samples, readerVars>>

\* The maximum is read, compared and stored; no other thread can store
\* between, because the lock is still held.
RaiseMax(t) ==
    /\ tpc[t] = "max"
    /\ max_latency' = IF lat[t] > max_latency THEN lat[t] ELSE max_latency
    /\ lock' = NoThread
    /\ Goto(t, "idle")
    /\ UNCHANGED <<lat, events, lockedVars, rx_packets, ingress_packets,
                   total_latency, latency_samples, readerVars>>

\* The PacketRx callback: one atomic increment, no lock.
OnPacketRx(t) ==
    /\ tpc[t] = "idle" /\ events < MaxEvents
    /\ events' = events + 1
    /\ ingress_packets' = ingress_packets + 1
    /\ UNCHANGED <<lock, tpc, lat, lockedVars, rx_packets, total_latency,
                   latency_samples, max_latency, readerVars>>

Callback(t) ==
    \/ \E id \in Ids : \/ \E l \in Latencies \cup {0} : OnPacketProcessed(t, id, l)
                       \/ OnPacketDropped(t, id)
    \/ OnPacketRx(t)
    \/ AddRx(t) \/ AddProcessed(t) \/ AddDrop(t) \/ AddTerminal(t)
    \/ AddTotal(t) \/ AddSample(t) \/ RaiseMax(t)

-----------------------------------------------------------------------------
(* snapshotAt on the reader's thread.                                      *)

\* rx_packets_ and rx_bytes_.
ReadRx ==
    /\ rpc = "rx"
    /\ partial' = [Blank EXCEPT !.rx = rx_packets]
    /\ rpc' = "ingress"
    /\ UNCHANGED <<snap, callbackVars, lockedVars, looseVars>>

\* Mutant: reading the counter resets it.
MutIngressResetOnRead ==
    /\ rpc = "ingress"
    /\ partial' = [partial EXCEPT !.ingress = ingress_packets]
    /\ ingress_packets' = 0
    /\ rpc' = "locked"
    /\ UNCHANGED <<snap, callbackVars, lockedVars, rx_packets, total_latency,
                   latency_samples, max_latency>>

ReadIngress ==
    /\ rpc = "ingress"
    /\ partial' = [partial EXCEPT !.ingress = ingress_packets]
    /\ rpc' = "locked"
    /\ UNCHANGED <<snap, callbackVars, lockedVars, looseVars>>

Minus(a, b) == IF a >= b THEN a - b ELSE 0

\* Mutant: the counters are loaded without the lock.
MutReadUnlocked ==
    /\ rpc = "locked"
    /\ partial' = [partial EXCEPT !.processed = processed_packets,
                                  !.terminal = terminal_events,
                                  !.drops = drops]
    /\ rpc' = "total"
    /\ UNCHANGED <<snap, callbackVars, lockedVars, looseVars>>

\* The section under lifecycle_mutex_ and the two clamped differences.
ReadLocked ==
    /\ rpc = "locked" /\ lock = NoThread
    /\ partial' = [partial EXCEPT !.processed = processed_packets,
                                  !.terminal = terminal_events,
                                  !.duplicates = duplicate_events,
                                  !.drops = drops,
                                  !.gap = Minus(partial.ingress, processed_packets),
                                  !.pending = Minus(partial.ingress, terminal_events)]
    /\ rpc' = "total"
    /\ UNCHANGED <<snap, callbackVars, lockedVars, looseVars>>

ReadTotal ==
    /\ rpc = "total"
    /\ partial' = [partial EXCEPT !.total = total_latency]
    /\ rpc' = "max"
    /\ UNCHANGED <<snap, callbackVars, lockedVars, looseVars>>

ReadMax ==
    /\ rpc = "max"
    /\ partial' = [partial EXCEPT !.max = max_latency]
    /\ rpc' = "samples"
    /\ UNCHANGED <<snap, callbackVars, lockedVars, looseVars>>

ReadSamples ==
    /\ rpc = "samples"
    /\ snap' = [partial EXCEPT !.samples = latency_samples]
    /\ rpc' = "rx"
    /\ UNCHANGED <<partial, callbackVars, lockedVars, looseVars>>

Reader == ReadRx \/ ReadIngress \/ ReadLocked \/ ReadTotal \/ ReadMax
          \/ ReadSamples

Next == Reader \/ \E t \in Threads : Callback(t)

Spec == Init /\ [][Next]_vars

-----------------------------------------------------------------------------
(* Properties.                                                             *)

\* Every snapshot balances, whatever callbacks run while it is taken:
\* terminal_events = processed_packets + sum(drops_by_reason), and, although
\* rx_packets is read before the lock, no more packets were received than
\* processed.
SnapshotLedger ==
    /\ snap.terminal = snap.processed + snap.drops
    /\ snap.rx =< snap.processed

\* A counter never runs backwards from one snapshot to the next; the rate
\* smoother subtracts consecutive values as unsigned numbers.
SnapshotsMonotone ==
    [][snap.rx =< snap'.rx /\ snap.ingress =< snap'.ingress
       /\ snap.terminal =< snap'.terminal /\ snap.samples =< snap'.samples
       /\ snap.total =< snap'.total /\ snap.max =< snap'.max]_snap

\* While no callback holds the lock the latency figures fit together: the
\* maximum bounds the average and is itself part of the total.
LatencyLedger ==
    lock = NoThread => /\ total_latency =< max_latency * latency_samples
                       /\ max_latency =< total_latency
=============================================================================
