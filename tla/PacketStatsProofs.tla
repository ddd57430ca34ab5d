-------------------------- MODULE PacketStatsProofs --------------------------
(***************************************************************************)
(* Proofs about PacketStats, for any number of publisher threads and       *)
(* events: the snapshots the reader takes between the atomics balance and  *)
(* never run backwards, and the latency figures fit together.              *)
(*                                                                         *)
(* A callback updates its counters one by one, so they balance only up to  *)
(* the update it is about to make.  The invariants therefore speak of the  *)
(* phase of the thread that holds lifecycle_mutex_.                        *)
(***************************************************************************)
EXTENDS PacketStats, TLAPS

-----------------------------------------------------------------------------
(* Types and the lock.                                                     *)

Labels == {"idle", "rx", "processed", "drop", "terminal", "total", "samples",
           "max"}

Metrics == [rx : Nat, ingress : Nat, processed : Nat, terminal : Nat,
            duplicates : Nat, drops : Nat, gap : Nat, pending : Nat,
            total : Nat, max : Nat, samples : Nat]

TypeOK ==
    /\ tpc \in [Threads -> Labels] /\ lat \in [Threads -> Nat]
    /\ lock \in Threads \cup {NoThread}
    /\ rx_packets \in Nat /\ processed_packets \in Nat
    /\ terminal_events \in Nat /\ duplicate_events \in Nat /\ drops \in Nat
    /\ ingress_packets \in Nat /\ total_latency \in Nat
    /\ latency_samples \in Nat /\ max_latency \in Nat
    /\ rpc \in {"rx", "ingress", "locked", "total", "max", "samples"}
    /\ partial \in Metrics /\ snap \in Metrics

\* lifecycle_mutex_ is held by the one thread that is inside a terminal
\* callback.
MutexHeld == \A t \in Threads : tpc[t] # "idle" <=> lock = t

\* Where the callback under way is.
Phase == IF lock = NoThread THEN "idle" ELSE tpc[lock]

Base == TypeOK /\ MutexHeld

\* A callback takes the lock and goes to its first counter.
Takes(t, label) ==
    /\ lock = NoThread /\ lock' = t
    /\ tpc' = [tpc EXCEPT ![t] = label]

\* A callback goes on to its next counter.
Advances(t, from, label) ==
    /\ tpc[t] = from /\ lock' = lock
    /\ tpc' = [tpc EXCEPT ![t] = label]

\* A callback ends and releases the lock.
Releases(t, from) ==
    /\ tpc[t] = from /\ lock' = NoThread
    /\ tpc' = [tpc EXCEPT ![t] = "idle"]

\* Taking the lock starts a phase.
LEMMA TakesLock ==
    ASSUME Base, NEW t \in Threads, NEW label \in Labels \ {"idle"},
           Takes(t, label)
    PROVE  /\ MutexHeld' /\ tpc' \in [Threads -> Labels]
           /\ lock' \in Threads \cup {NoThread}
           /\ Phase = "idle" /\ Phase' = label
<1>1. lock = NoThread /\ lock' = t /\ tpc' = [tpc EXCEPT ![t] = label]
      /\ t # NoThread /\ tpc \in [Threads -> Labels]
  BY ThreadAssumption DEF Base, TypeOK, Takes
<1>2. tpc'[t] = label /\ tpc' \in [Threads -> Labels]
      /\ \A u \in Threads \ {t} : tpc'[u] = tpc[u]
  BY <1>1
<1>3. \A u \in Threads : tpc[u] = "idle"
  BY <1>1, ThreadAssumption DEF Base, MutexHeld
<1>4. MutexHeld'
  BY <1>1, <1>2, <1>3 DEF MutexHeld
<1> QED
  BY <1>1, <1>2, <1>4 DEF Phase

\* The lock's holder is the thread that is at the phase.
LEMMA AdvancesPhase ==
    ASSUME Base, NEW t \in Threads, NEW from \in Labels \ {"idle"},
           NEW label \in Labels \ {"idle"}, Advances(t, from, label)
    PROVE  /\ MutexHeld' /\ tpc' \in [Threads -> Labels]
           /\ lock' \in Threads \cup {NoThread} /\ lock = t
           /\ Phase = from /\ Phase' = label
<1>1. lock' = lock /\ tpc' = [tpc EXCEPT ![t] = label] /\ tpc[t] = from
      /\ t # NoThread /\ tpc \in [Threads -> Labels]
  BY ThreadAssumption DEF Base, TypeOK, Advances
<1>2. tpc'[t] = label /\ tpc' \in [Threads -> Labels]
      /\ \A u \in Threads \ {t} : tpc'[u] = tpc[u]
  BY <1>1
<1>3. lock = t
  BY <1>1 DEF Base, MutexHeld
<1>4. MutexHeld'
  BY <1>1, <1>2, <1>3 DEF MutexHeld, Base
<1> QED
  BY <1>1, <1>2, <1>3, <1>4 DEF Phase

\* Releasing the lock ends the phase.
LEMMA ReleasesLock ==
    ASSUME Base, NEW t \in Threads, NEW from \in Labels \ {"idle"},
           Releases(t, from)
    PROVE  /\ MutexHeld' /\ tpc' \in [Threads -> Labels]
           /\ lock' \in Threads \cup {NoThread} /\ lock = t
           /\ Phase = from /\ Phase' = "idle"
<1>1. lock' = NoThread /\ tpc' = [tpc EXCEPT ![t] = "idle"] /\ tpc[t] = from
      /\ t # NoThread /\ tpc \in [Threads -> Labels]
  BY ThreadAssumption DEF Base, TypeOK, Releases
<1>2. tpc'[t] = "idle" /\ tpc' \in [Threads -> Labels]
      /\ \A u \in Threads \ {t} : tpc'[u] = tpc[u]
  BY <1>1 DEF Labels
<1>3. lock = t
  BY <1>1 DEF Base, MutexHeld
<1>4. \A u \in Threads \ {t} : tpc[u] = "idle"
  BY <1>3 DEF MutexHeld, Base
<1>5. MutexHeld'
  BY <1>1, <1>2, <1>4, ThreadAssumption DEF MutexHeld
<1> QED
  BY <1>1, <1>2, <1>3, <1>5 DEF Phase

\* Where each action of a callback takes the phase.
LEMMA PhaseSteps ==
    ASSUME Base, NEW t \in Threads
    PROVE  /\ AddRx(t) => Advances(t, "rx", "processed")
           /\ AddProcessed(t) => Advances(t, "processed", "terminal")
           /\ AddDrop(t) => Advances(t, "drop", "terminal")
           /\ AddTerminal(t) => \/ Advances(t, "terminal", "total")
                                \/ Releases(t, "terminal")
           /\ AddTotal(t) => Advances(t, "total", "samples")
           /\ AddSample(t) => Advances(t, "samples", "max")
           /\ RaiseMax(t) => Releases(t, "max")
BY DEF AddRx, AddProcessed, AddDrop, AddTerminal, AddTotal, AddSample, RaiseMax,
       Advances, Releases, Goto

\* What the start of a terminal callback does: it is counted as a duplicate,
\* or takes the lock.
LEMMA InsertSteps ==
    ASSUME Base, NEW t \in Threads, NEW id, NEW next, Insert(t, id, next)
    PROVE  /\ \/ UNCHANGED <<lock, tpc>> /\ lock = NoThread
              \/ Takes(t, next)
           /\ duplicate_events' \in {duplicate_events, duplicate_events + 1}
           /\ UNCHANGED <<processed_packets, terminal_events, drops, looseVars,
                          readerVars>>
BY DEF Insert, Takes, Goto

\* Both terminal callbacks start with Insert.
LEMMA StartSteps ==
    ASSUME Base, NEW t \in Threads, NEW id \in Ids,
           \/ \E l \in Latencies \cup {0} : OnPacketProcessed(t, id, l)
           \/ OnPacketDropped(t, id)
    PROVE  /\ \/ UNCHANGED <<lock, tpc>> /\ lock = NoThread
              \/ Takes(t, "rx")
              \/ Takes(t, "drop")
           /\ lat' \in [Threads -> Nat]
           /\ duplicate_events' \in Nat
           /\ UNCHANGED <<processed_packets, terminal_events, drops, looseVars,
                          readerVars>>
<1>1. CASE OnPacketDropped(t, id)
  <2>1. Insert(t, id, "drop") /\ lat' = lat
    BY <1>1 DEF OnPacketDropped
  <2> QED
    BY <2>1, InsertSteps DEF Base, TypeOK
<1>2. ASSUME NEW l \in Latencies \cup {0}, OnPacketProcessed(t, id, l)
      PROVE  /\ Insert(t, id, "rx") /\ lat' = [lat EXCEPT ![t] = l]
             /\ l \in Nat
  BY <1>2, LatencyAssumption DEF OnPacketProcessed
<1>3. ASSUME NEW l \in Latencies \cup {0}, OnPacketProcessed(t, id, l)
      PROVE  /\ (UNCHANGED <<lock, tpc>> /\ lock = NoThread) \/ Takes(t, "rx")
             /\ lat' \in [Threads -> Nat]
             /\ duplicate_events' \in Nat
             /\ UNCHANGED <<processed_packets, terminal_events, drops, looseVars,
                            readerVars>>
  BY <1>2, <1>3, InsertSteps DEF Base, TypeOK
<1> QED
  BY <1>1, <1>3

\* Every step keeps the types and the mutex.
LEMMA BaseStep ==
    ASSUME Base, [Next]_vars PROVE Base'
<1> USE DEF callbackVars, lockedVars, looseVars, readerVars
<1>1. ASSUME NEW t \in Threads, NEW id \in Ids,
             \/ \E l \in Latencies \cup {0} : OnPacketProcessed(t, id, l)
             \/ OnPacketDropped(t, id)
      PROVE  Base'
  <2>1. /\ \/ UNCHANGED <<lock, tpc>> /\ lock = NoThread
           \/ Takes(t, "rx")
           \/ Takes(t, "drop")
        /\ lat' \in [Threads -> Nat]
        /\ duplicate_events' \in Nat
        /\ UNCHANGED <<processed_packets, terminal_events, drops, looseVars,
                       readerVars>>
    BY <1>1, StartSteps
  <2>2. MutexHeld' /\ tpc' \in [Threads -> Labels]
        /\ lock' \in Threads \cup {NoThread}
    <3>1. CASE UNCHANGED <<lock, tpc>>
      BY <3>1 DEF Base, TypeOK, MutexHeld
    <3>2. CASE Takes(t, "rx")
      BY <3>2, TakesLock DEF Labels
    <3>3. CASE Takes(t, "drop")
      BY <3>3, TakesLock DEF Labels
    <3> QED
      BY <2>1, <3>1, <3>2, <3>3
  <2> QED
    BY <2>1, <2>2 DEF Base, TypeOK
<1>2. ASSUME NEW t \in Threads, OnPacketRx(t) PROVE Base'
  BY <1>2 DEF OnPacketRx, Base, TypeOK, MutexHeld
<1>3. ASSUME NEW t \in Threads, AddRx(t) PROVE Base'
  <2>1. MutexHeld' /\ tpc' \in [Threads -> Labels]
        /\ lock' \in Threads \cup {NoThread}
    BY <1>3, PhaseSteps, AdvancesPhase DEF Labels
  <2> QED
    BY <1>3, <2>1 DEF AddRx, Base, TypeOK
<1>4. ASSUME NEW t \in Threads, AddProcessed(t) PROVE Base'
  <2>1. MutexHeld' /\ tpc' \in [Threads -> Labels]
        /\ lock' \in Threads \cup {NoThread}
    BY <1>4, PhaseSteps, AdvancesPhase DEF Labels
  <2> QED
    BY <1>4, <2>1 DEF AddProcessed, Base, TypeOK
<1>5. ASSUME NEW t \in Threads, AddDrop(t) PROVE Base'
  <2>1. MutexHeld' /\ tpc' \in [Threads -> Labels]
        /\ lock' \in Threads \cup {NoThread}
    BY <1>5, PhaseSteps, AdvancesPhase DEF Labels
  <2>2. lat' \in [Threads -> Nat]
    BY <1>5 DEF AddDrop, Base, TypeOK
  <2>3. UNCHANGED <<processed_packets, terminal_events, duplicate_events,
                    looseVars, readerVars>>
        /\ drops' = drops + 1
    BY <1>5 DEF AddDrop
  <2> QED
    BY <2>1, <2>2, <2>3 DEF Base, TypeOK
<1>6. ASSUME NEW t \in Threads, AddTotal(t) PROVE Base'
  <2>1. MutexHeld' /\ tpc' \in [Threads -> Labels]
        /\ lock' \in Threads \cup {NoThread}
    BY <1>6, PhaseSteps, AdvancesPhase DEF Labels
  <2> QED
    BY <1>6, <2>1 DEF AddTotal, Base, TypeOK
<1>7. ASSUME NEW t \in Threads, AddSample(t) PROVE Base'
  <2>1. MutexHeld' /\ tpc' \in [Threads -> Labels]
        /\ lock' \in Threads \cup {NoThread}
    BY <1>7, PhaseSteps, AdvancesPhase DEF Labels
  <2> QED
    BY <1>7, <2>1 DEF AddSample, Base, TypeOK
<1>8. ASSUME NEW t \in Threads, AddTerminal(t) PROVE Base'
  <2>1. MutexHeld' /\ tpc' \in [Threads -> Labels]
        /\ lock' \in Threads \cup {NoThread}
    BY <1>8, PhaseSteps, AdvancesPhase, ReleasesLock DEF Labels
  <2>2. UNCHANGED <<lat, processed_packets, duplicate_events, drops, looseVars,
                    readerVars>>
        /\ terminal_events' = terminal_events + 1
    BY <1>8 DEF AddTerminal
  <2> QED
    BY <2>1, <2>2 DEF Base, TypeOK
<1>9. ASSUME NEW t \in Threads, RaiseMax(t) PROVE Base'
  <2>1. MutexHeld' /\ tpc' \in [Threads -> Labels]
        /\ lock' \in Threads \cup {NoThread}
    BY <1>9, PhaseSteps, ReleasesLock DEF Labels
  <2>2. max_latency' \in {lat[t], max_latency}
    BY <1>9 DEF RaiseMax
  <2>3. UNCHANGED <<lat, lockedVars, rx_packets, ingress_packets, total_latency,
                    latency_samples, readerVars>>
    BY <1>9 DEF RaiseMax
  <2> QED
    BY <2>1, <2>2, <2>3 DEF Base, TypeOK
<1>10. ASSUME Reader PROVE Base'
  <2>1. partial' \in Metrics /\ snap' \in Metrics
        /\ rpc' \in {"rx", "ingress", "locked", "total", "max", "samples"}
    <3>1. Blank \in Metrics
      BY DEF Blank, Metrics
    <3>2. CASE ReadRx
      BY <3>1, <3>2 DEF ReadRx, Base, TypeOK, Metrics
    <3>3. CASE ReadIngress
      BY <3>3 DEF ReadIngress, Base, TypeOK, Metrics
    <3>4. CASE ReadLocked
      <4>1. Minus(partial.ingress, processed_packets) \in Nat
            /\ Minus(partial.ingress, terminal_events) \in Nat
        BY DEF Minus, Base, TypeOK, Metrics
      <4> QED
        BY <3>4, <4>1 DEF ReadLocked, Base, TypeOK, Metrics
    <3>5. CASE ReadTotal
      BY <3>5 DEF ReadTotal, Base, TypeOK, Metrics
    <3>6. CASE ReadMax
      BY <3>6 DEF ReadMax, Base, TypeOK, Metrics
    <3>7. CASE ReadSamples
      BY <3>7 DEF ReadSamples, Base, TypeOK, Metrics
    <3> QED
      BY <1>10, <3>2, <3>3, <3>4, <3>5, <3>6, <3>7 DEF Reader
  <2>2. UNCHANGED <<callbackVars, lockedVars, looseVars>>
    BY <1>10 DEF Reader, ReadRx, ReadIngress, ReadLocked, ReadTotal, ReadMax,
                ReadSamples
  <2> QED
    BY <2>1, <2>2 DEF Base, TypeOK, MutexHeld
<1>11. CASE UNCHANGED vars
  BY <1>11 DEF vars, Base, TypeOK, MutexHeld
<1> QED
  BY <1>1, <1>2, <1>3, <1>4, <1>5, <1>6, <1>7, <1>8, <1>9, <1>10, <1>11 DEF Next, Callback

\* The initial state has the types, and no callback holds the mutex.
LEMMA BaseInit ==
    ASSUME Init PROVE Base
<1>1. Blank \in Metrics
  BY DEF Blank, Metrics
<1>2. TypeOK
  BY <1>1 DEF Init, TypeOK, Labels
<1>3. MutexHeld
  BY ThreadAssumption DEF Init, MutexHeld
<1> QED
  BY <1>2, <1>3 DEF Base

\* The counters keep their types, and lifecycle_mutex_ excludes: the thread in
\* a terminal callback past the insertion is the one that holds it.
THEOREM BaseCorrect == Spec => [](TypeOK /\ MutexHeld)
<1>1. Init => Base
  BY BaseInit
<1>2. Base /\ [Next]_vars => Base'
  BY BaseStep
<1> QED
  BY <1>1, <1>2, PTL DEF Spec, Base

-----------------------------------------------------------------------------
(* The counters.                                                           *)

\* terminal_events lacks the event of a callback that is about to count it;
\* processed_packets lags behind rx_packets for one step of one callback.
CounterInv ==
    /\ Phase = "terminal" => terminal_events + 1 = processed_packets + drops
    /\ Phase # "terminal" => terminal_events = processed_packets + drops
    /\ Phase = "processed" => rx_packets = processed_packets + 1
    /\ Phase # "processed" => rx_packets = processed_packets

\* The latency of the packet the callback under way accounts for.
Held == lat[lock]

\* Between AddTotal and RaiseMax the held latency is part of the total, and
\* between AddSample and RaiseMax of the samples, but not of the maximum.
LatencyInv ==
    /\ Phase \notin {"samples", "max"} =>
          /\ total_latency =< max_latency * latency_samples
          /\ max_latency =< total_latency
    /\ Phase = "samples" =>
          /\ total_latency =< max_latency * latency_samples + Held
          /\ max_latency + Held =< total_latency
    /\ Phase = "max" =>
          /\ latency_samples >= 1
          /\ total_latency =< max_latency * (latency_samples - 1) + Held
          /\ max_latency + Held =< total_latency

\* The product of naturals grows with its factors.
LEMMA ProductGrows ==
    ASSUME NEW a \in Nat, NEW b \in Nat, NEW n \in Nat, a =< b
    PROVE  /\ a * n \in Nat /\ b * n \in Nat /\ a * n =< b * n
           /\ b * (n + 1) = b * n + b
<1>1. PICK d \in Nat : b = a + d
  <2>1. b - a \in Nat /\ b = a + (b - a)
    OBVIOUS
  <2> QED
    BY <2>1
<1>2. d * n \in Nat /\ a * n \in Nat
  OBVIOUS
<1>3. b * n = a * n + d * n
  BY <1>1
<1>4. b * (n + 1) = b * n + b
  OBVIOUS
<1> QED
  BY <1>2, <1>3, <1>4

\* Raising the maximum to the held latency puts the figures together again.
LEMMA RaisedMaximum ==
    ASSUME NEW total \in Nat, NEW max \in Nat, NEW samples \in Nat,
           NEW held \in Nat, samples >= 1,
           total =< max * (samples - 1) + held, max + held =< total,
           NEW raised, raised = IF held > max THEN held ELSE max
    PROVE  total =< raised * samples /\ raised =< total
<1>1. raised \in Nat /\ max =< raised /\ held =< raised /\ raised =< total
  OBVIOUS
<1>2. PICK n \in Nat : samples = n + 1
  <2>1. samples - 1 \in Nat /\ samples = (samples - 1) + 1
    OBVIOUS
  <2> QED
    BY <2>1
<1>3. max * n \in Nat /\ raised * n \in Nat /\ max * n =< raised * n
      /\ raised * (n + 1) = raised * n + raised
  BY <1>1, ProductGrows
<1>4. samples - 1 = n
  BY <1>2
<1>5. total =< max * n + held
  BY <1>4
<1>6. total =< raised * n + raised
  <2> DEFINE x == max * n
             y == raised * n
  <2>1. x \in Nat /\ y \in Nat /\ x =< y /\ total =< x + held
    BY <1>3, <1>5
  <2> HIDE DEF x, y
  <2>2. total =< y + raised
    BY <1>1, <2>1
  <2> QED
    BY <2>2 DEF y
<1> QED
  BY <1>1, <1>2, <1>3, <1>6

\* Every step keeps the counters balanced.
LEMMA CounterStep ==
    ASSUME Base, CounterInv, [Next]_vars PROVE CounterInv'
<1> USE DEF callbackVars, lockedVars, looseVars, readerVars
<1>0. /\ terminal_events \in Nat /\ processed_packets \in Nat
      /\ drops \in Nat /\ rx_packets \in Nat
  BY DEF Base, TypeOK
<1>1. ASSUME UNCHANGED <<terminal_events, processed_packets, drops, rx_packets>>,
             /\ Phase \notin {"terminal", "processed"}
             /\ Phase' \notin {"terminal", "processed"}
      PROVE  CounterInv'
  BY <1>1 DEF CounterInv
<1>2. ASSUME UNCHANGED <<terminal_events, processed_packets, drops, rx_packets>>,
             Phase' = Phase
      PROVE  CounterInv'
  BY <1>2 DEF CounterInv
<1>3. ASSUME NEW t \in Threads, NEW id \in Ids,
             \/ \E l \in Latencies \cup {0} : OnPacketProcessed(t, id, l)
             \/ OnPacketDropped(t, id)
      PROVE  CounterInv'
  <2>1. UNCHANGED <<processed_packets, terminal_events, drops, looseVars>>
    BY <1>3, StartSteps
  <2>2. CASE UNCHANGED <<lock, tpc>>
    BY <1>2, <2>1, <2>2 DEF Phase
  <2>3. CASE Takes(t, "rx") \/ Takes(t, "drop")
    <3>1. Phase = "idle" /\ Phase' \in {"rx", "drop"}
      BY <2>3, TakesLock DEF Labels
    <3> QED
      BY <1>1, <2>1, <3>1
  <2> QED
    BY <1>3, <2>2, <2>3, StartSteps
<1>4. ASSUME NEW t \in Threads, OnPacketRx(t) PROVE CounterInv'
  BY <1>2, <1>4 DEF OnPacketRx, Phase
<1>5. ASSUME NEW t \in Threads, AddRx(t) PROVE CounterInv'
  <2>1. Phase = "rx" /\ Phase' = "processed"
    BY <1>5, PhaseSteps, AdvancesPhase DEF Labels
  <2>2. rx_packets' = rx_packets + 1
        /\ UNCHANGED <<terminal_events, processed_packets, drops>>
    BY <1>5 DEF AddRx
  <2> QED
    BY <2>1, <2>2 DEF CounterInv
<1>6. ASSUME NEW t \in Threads, AddProcessed(t) PROVE CounterInv'
  <2>1. Phase = "processed" /\ Phase' = "terminal"
    BY <1>6, PhaseSteps, AdvancesPhase DEF Labels
  <2>2. processed_packets' = processed_packets + 1
        /\ UNCHANGED <<terminal_events, rx_packets, drops>>
    BY <1>6 DEF AddProcessed
  <2> QED
    BY <1>0, <2>1, <2>2 DEF CounterInv
<1>7. ASSUME NEW t \in Threads, AddDrop(t) PROVE CounterInv'
  <2>1. Phase = "drop" /\ Phase' = "terminal"
    BY <1>7, PhaseSteps, AdvancesPhase DEF Labels
  <2>2. drops' = drops + 1
        /\ UNCHANGED <<terminal_events, rx_packets, processed_packets>>
    BY <1>7 DEF AddDrop
  <2> QED
    BY <1>0, <2>1, <2>2 DEF CounterInv
<1>8. ASSUME NEW t \in Threads, AddTerminal(t) PROVE CounterInv'
  <2>1. Phase = "terminal" /\ Phase' \in {"total", "idle"}
    BY <1>8, PhaseSteps, AdvancesPhase, ReleasesLock DEF Labels
  <2>2. terminal_events' = terminal_events + 1
        /\ UNCHANGED <<drops, rx_packets, processed_packets>>
    BY <1>8 DEF AddTerminal
  <2> QED
    BY <1>0, <2>1, <2>2 DEF CounterInv
<1>9. ASSUME NEW t \in Threads, AddTotal(t) PROVE CounterInv'
  <2>1. Phase = "total" /\ Phase' = "samples"
    BY <1>9, PhaseSteps, AdvancesPhase DEF Labels
  <2> QED
    BY <1>1, <1>9, <2>1 DEF AddTotal
<1>10. ASSUME NEW t \in Threads, AddSample(t) PROVE CounterInv'
  <2>1. Phase = "samples" /\ Phase' = "max"
    BY <1>10, PhaseSteps, AdvancesPhase DEF Labels
  <2> QED
    BY <1>1, <1>10, <2>1 DEF AddSample
<1>11. ASSUME NEW t \in Threads, RaiseMax(t) PROVE CounterInv'
  <2>1. Phase = "max" /\ Phase' = "idle"
    BY <1>11, PhaseSteps, ReleasesLock DEF Labels
  <2> QED
    BY <1>1, <1>11, <2>1 DEF RaiseMax
<1>12. CASE Reader \/ UNCHANGED vars
  <2>1. UNCHANGED <<callbackVars, lockedVars, looseVars>>
    BY <1>12 DEF vars, Reader, ReadRx, ReadIngress, ReadLocked, ReadTotal,
                 ReadMax, ReadSamples
  <2> QED
    BY <1>2, <2>1 DEF Phase
<1> QED
  BY <1>3, <1>4, <1>5, <1>6, <1>7, <1>8, <1>9, <1>10, <1>11, <1>12
     DEF Next, Callback

\* Every step keeps the latency figures together.
LEMMA LatencyStep ==
    ASSUME Base, LatencyInv, [Next]_vars PROVE LatencyInv'
<1> USE DEF callbackVars, lockedVars, looseVars, readerVars
<1>1. ASSUME UNCHANGED <<total_latency, latency_samples, max_latency>>,
             /\ Phase \notin {"samples", "max"}
             /\ Phase' \notin {"samples", "max"}
      PROVE  LatencyInv'
  BY <1>1 DEF LatencyInv
<1>2. ASSUME UNCHANGED <<total_latency, latency_samples, max_latency, lock, tpc,
                         lat>>
      PROVE  LatencyInv'
  BY <1>2 DEF LatencyInv, Phase, Held
<1>3. ASSUME NEW t \in Threads, NEW id \in Ids,
             \/ \E l \in Latencies \cup {0} : OnPacketProcessed(t, id, l)
             \/ OnPacketDropped(t, id)
      PROVE  LatencyInv'
  <2>1. UNCHANGED looseVars
    BY <1>3, StartSteps
  <2>2. CASE UNCHANGED <<lock, tpc>> /\ lock = NoThread
    <3>1. Phase = "idle" /\ Phase' = "idle"
      BY <2>2 DEF Phase
    <3> QED
      BY <1>1, <2>1, <3>1
  <2>3. CASE Takes(t, "rx") \/ Takes(t, "drop")
    <3>1. Phase = "idle" /\ Phase' \in {"rx", "drop"}
      BY <2>3, TakesLock DEF Labels
    <3> QED
      BY <1>1, <2>1, <3>1
  <2> QED
    BY <1>3, <2>2, <2>3, StartSteps
<1>4. ASSUME NEW t \in Threads, OnPacketRx(t) PROVE LatencyInv'
  BY <1>2, <1>4 DEF OnPacketRx
<1>5. ASSUME NEW t \in Threads, AddRx(t) PROVE LatencyInv'
  <2>1. Phase = "rx" /\ Phase' = "processed"
    BY <1>5, PhaseSteps, AdvancesPhase DEF Labels
  <2> QED
    BY <1>1, <1>5, <2>1 DEF AddRx
<1>6. ASSUME NEW t \in Threads, AddProcessed(t) PROVE LatencyInv'
  <2>1. Phase = "processed" /\ Phase' = "terminal"
    BY <1>6, PhaseSteps, AdvancesPhase DEF Labels
  <2> QED
    BY <1>1, <1>6, <2>1 DEF AddProcessed
<1>7. ASSUME NEW t \in Threads, AddDrop(t) PROVE LatencyInv'
  <2>1. Phase = "drop" /\ Phase' = "terminal"
    BY <1>7, PhaseSteps, AdvancesPhase DEF Labels
  <2> QED
    BY <1>1, <1>7, <2>1 DEF AddDrop
<1>8. ASSUME NEW t \in Threads, AddTerminal(t) PROVE LatencyInv'
  <2>1. Phase = "terminal" /\ Phase' \in {"total", "idle"}
    BY <1>8, PhaseSteps, AdvancesPhase, ReleasesLock DEF Labels
  <2> QED
    BY <1>1, <1>8, <2>1 DEF AddTerminal
<1>9. ASSUME NEW t \in Threads, AddTotal(t) PROVE LatencyInv'
  <2>1. Phase = "total" /\ Phase' = "samples" /\ lock = t /\ lock' = t
    BY <1>9, PhaseSteps, AdvancesPhase DEF Labels, AddTotal
  <2>2. total_latency' = total_latency + Held /\ Held' = Held
        /\ UNCHANGED <<latency_samples, max_latency>>
    BY <1>9, <2>1 DEF AddTotal, Held
  <2>3. Held \in Nat /\ total_latency \in Nat /\ max_latency \in Nat
        /\ latency_samples \in Nat
    BY <2>1 DEF Base, TypeOK, Held
  <2> DEFINE product == max_latency * latency_samples
  <2>4. product \in Nat /\ product' = product
    BY <2>2, <2>3
  <2>5. total_latency =< product /\ max_latency =< total_latency
    BY <2>1 DEF LatencyInv
  <2> HIDE DEF product
  <2>6. total_latency' =< product' + Held'
        /\ max_latency' + Held' =< total_latency'
    BY <2>2, <2>3, <2>4, <2>5
  <2> QED
    BY <2>1, <2>6 DEF LatencyInv, product
<1>10. ASSUME NEW t \in Threads, AddSample(t) PROVE LatencyInv'
  <2>1. Phase = "samples" /\ Phase' = "max" /\ lock = t /\ lock' = t
    BY <1>10, PhaseSteps, AdvancesPhase DEF Labels, AddSample
  <2>2. latency_samples' = latency_samples + 1 /\ Held' = Held
        /\ UNCHANGED <<total_latency, max_latency>>
    BY <1>10, <2>1 DEF AddSample, Held
  <2>3. latency_samples \in Nat
    BY DEF Base, TypeOK
  <2>4. latency_samples' - 1 = latency_samples /\ latency_samples' >= 1
    BY <2>2, <2>3
  <2>5. total_latency =< max_latency * latency_samples + Held
        /\ max_latency + Held =< total_latency
    BY <2>1 DEF LatencyInv
  <2>6. total_latency' =< max_latency' * (latency_samples' - 1) + Held'
        /\ max_latency' + Held' =< total_latency'
    BY <2>2, <2>4, <2>5
  <2> QED
    BY <2>1, <2>4, <2>6 DEF LatencyInv
<1>11. ASSUME NEW t \in Threads, RaiseMax(t) PROVE LatencyInv'
  <2>1. Phase = "max" /\ Phase' = "idle" /\ lock = t
    BY <1>11, PhaseSteps, ReleasesLock DEF Labels
  <2>2. max_latency' = IF Held > max_latency THEN Held ELSE max_latency
    BY <1>11, <2>1 DEF RaiseMax, Held
  <2>3. UNCHANGED <<total_latency, latency_samples>>
    BY <1>11 DEF RaiseMax
  <2>4. Held \in Nat /\ total_latency \in Nat /\ max_latency \in Nat
        /\ latency_samples \in Nat
    BY <2>1 DEF Base, TypeOK, Held
  <2>5. /\ latency_samples >= 1
        /\ total_latency =< max_latency * (latency_samples - 1) + Held
        /\ max_latency + Held =< total_latency
    BY <2>1 DEF LatencyInv
  <2>6. total_latency =< max_latency' * latency_samples
        /\ max_latency' =< total_latency
    BY <2>2, <2>4, <2>5, RaisedMaximum
  <2> QED
    BY <2>1, <2>3, <2>6 DEF LatencyInv
<1>12. CASE Reader \/ UNCHANGED vars
  <2>1. UNCHANGED <<callbackVars, lockedVars, looseVars>>
    BY <1>12 DEF vars, Reader, ReadRx, ReadIngress, ReadLocked, ReadTotal,
                 ReadMax, ReadSamples
  <2> QED
    BY <1>2, <2>1
<1> QED
  BY <1>3, <1>4, <1>5, <1>6, <1>7, <1>8, <1>9, <1>10, <1>11, <1>12
     DEF Next, Callback

\* While no callback holds the mutex, the maximum bounds the average latency
\* and is part of the total.
THEOREM LatencyLedgerCorrect == Spec => []LatencyLedger
<1>1. Init => Base /\ LatencyInv
  <2> SUFFICES ASSUME Init PROVE Base /\ LatencyInv
    OBVIOUS
  <2>1. Phase = "idle" /\ total_latency = 0 /\ max_latency = 0
        /\ latency_samples = 0
    BY DEF Init, Phase
  <2> QED
    BY <2>1, BaseInit DEF LatencyInv
<1>2. Base /\ [Next]_vars => Base'
  BY BaseStep
<1>3. Base /\ LatencyInv /\ [Next]_vars => LatencyInv'
  BY LatencyStep
<1>4. LatencyInv => LatencyLedger
  BY DEF LatencyInv, LatencyLedger, Phase
<1> QED
  BY <1>1, <1>2, <1>3, <1>4, PTL DEF Spec

-----------------------------------------------------------------------------
(* The snapshots.                                                          *)

\* The readings of m are no more than the counters they were read from.
Behind(m) ==
    /\ m.rx =< rx_packets /\ m.ingress =< ingress_packets
    /\ m.terminal =< terminal_events /\ m.samples =< latency_samples
    /\ m.total =< total_latency /\ m.max =< max_latency

\* What a set of metrics must add up to.
Balanced(m) == m.terminal = m.processed + m.drops /\ m.rx =< m.processed

\* The locked section has been passed.
PastLock == rpc \in {"total", "max", "samples"}

\* A snapshot in the making is behind the counters, ahead of the last one in
\* what it has read, and balances from the locked section on.
ReaderInv ==
    /\ Behind(partial) /\ Behind(snap) /\ Balanced(snap)
    /\ PastLock => Balanced(partial)
    /\ rpc # "rx" => snap.rx =< partial.rx
    /\ rpc \notin {"rx", "ingress"} => snap.ingress =< partial.ingress
    /\ PastLock => snap.terminal =< partial.terminal
    /\ rpc \in {"max", "samples"} => snap.total =< partial.total
    /\ rpc = "samples" => snap.max =< partial.max

\* No counter is ever decreased.
LEMMA CountersGrow ==
    ASSUME Base, [Next]_vars
    PROVE  /\ rx_packets =< rx_packets' /\ ingress_packets =< ingress_packets'
           /\ terminal_events =< terminal_events'
           /\ latency_samples =< latency_samples'
           /\ total_latency =< total_latency' /\ max_latency =< max_latency'
<1> DEFINE Grow == /\ rx_packets =< rx_packets' /\ ingress_packets =< ingress_packets'
                   /\ terminal_events =< terminal_events'
                   /\ latency_samples =< latency_samples'
                   /\ total_latency =< total_latency' /\ max_latency =< max_latency'
<1> USE DEF callbackVars, lockedVars, looseVars, readerVars
<1>0. /\ rx_packets \in Nat /\ ingress_packets \in Nat /\ terminal_events \in Nat
      /\ latency_samples \in Nat /\ total_latency \in Nat /\ max_latency \in Nat
      /\ lat \in [Threads -> Nat]
  BY DEF Base, TypeOK
<1>1. ASSUME NEW t \in Threads, NEW id \in Ids,
             \/ \E l \in Latencies \cup {0} : OnPacketProcessed(t, id, l)
             \/ OnPacketDropped(t, id)
      PROVE  Grow
  BY <1>0, <1>1, StartSteps
<1>2. ASSUME NEW t \in Threads,
             OnPacketRx(t) \/ AddRx(t) \/ AddProcessed(t) \/ AddDrop(t)
      PROVE  Grow
  BY <1>0, <1>2 DEF OnPacketRx, AddRx, AddProcessed, AddDrop
<1>3. ASSUME NEW t \in Threads, AddTerminal(t) \/ AddTotal(t) \/ AddSample(t)
      PROVE  Grow
  BY <1>0, <1>3 DEF AddTerminal, AddTotal, AddSample
<1>4. ASSUME NEW t \in Threads, RaiseMax(t) PROVE Grow
  BY <1>0, <1>4 DEF RaiseMax
<1>5. CASE Reader \/ UNCHANGED vars
  <2>1. UNCHANGED <<callbackVars, lockedVars, looseVars>>
    BY <1>5 DEF vars, Reader, ReadRx, ReadIngress, ReadLocked, ReadTotal,
                ReadMax, ReadSamples
  <2> QED
    BY <1>0, <2>1
<1> QED
  BY <1>1, <1>2, <1>3, <1>4, <1>5 DEF Next, Callback

\* What was behind the counters stays behind them.
LEMMA StaysBehind ==
    ASSUME Base, [Next]_vars, NEW m \in Metrics, Behind(m)
    PROVE  /\ m.rx =< rx_packets' /\ m.ingress =< ingress_packets'
           /\ m.terminal =< terminal_events' /\ m.samples =< latency_samples'
           /\ m.total =< total_latency' /\ m.max =< max_latency'
<1>1. /\ rx_packets =< rx_packets' /\ ingress_packets =< ingress_packets'
      /\ terminal_events =< terminal_events'
      /\ latency_samples =< latency_samples'
      /\ total_latency =< total_latency' /\ max_latency =< max_latency'
  BY CountersGrow
<1>2. TypeOK /\ TypeOK'
  BY BaseStep DEF Base
<1>3. /\ m.rx \in Nat /\ m.ingress \in Nat /\ m.terminal \in Nat
      /\ m.samples \in Nat /\ m.total \in Nat /\ m.max \in Nat
  BY DEF Metrics
<1> QED
  BY <1>1, <1>2, <1>3 DEF Behind, TypeOK

\* A step that leaves the reader alone.
LEMMA ReaderWaits ==
    ASSUME Base, ReaderInv, [Next]_vars, UNCHANGED readerVars
    PROVE  ReaderInv'
<1>1. partial' = partial /\ snap' = snap /\ rpc' = rpc
      /\ partial \in Metrics /\ snap \in Metrics
  BY DEF readerVars, Base, TypeOK
<1>2. Behind(partial)' /\ Behind(snap)'
  BY <1>1, StaysBehind DEF Behind, ReaderInv
<1> QED
  BY <1>1, <1>2 DEF ReaderInv, Balanced, PastLock

\* A step of the reader, which leaves the counters alone.
LEMMA ReaderReads ==
    ASSUME Base, CounterInv, ReaderInv, Reader PROVE ReaderInv'
<1> USE DEF callbackVars, lockedVars, looseVars, readerVars
<1>0. /\ UNCHANGED <<lockedVars, looseVars>>
      /\ partial \in Metrics /\ snap \in Metrics
      /\ rx_packets \in Nat /\ ingress_packets \in Nat
      /\ terminal_events \in Nat /\ processed_packets \in Nat /\ drops \in Nat
      /\ latency_samples \in Nat /\ total_latency \in Nat /\ max_latency \in Nat
  BY DEF Reader, ReadRx, ReadIngress, ReadLocked, ReadTotal, ReadMax,
         ReadSamples, Base, TypeOK
<1>1. CASE ReadRx
  <2>1. rpc' = "ingress" /\ snap' = snap /\ partial' = [Blank EXCEPT !.rx = rx_packets]
    BY <1>1 DEF ReadRx
  <2>2. partial'.rx = rx_packets /\ partial'.ingress = 0 /\ partial'.terminal = 0
        /\ partial'.samples = 0 /\ partial'.total = 0 /\ partial'.max = 0
    BY <2>1 DEF Blank
  <2>3. Behind(partial)' /\ Behind(snap)' /\ Balanced(snap)' /\ snap'.rx =< partial'.rx
    BY <1>0, <2>1, <2>2 DEF Behind, Balanced, ReaderInv
  <2> QED
    BY <2>1, <2>3 DEF ReaderInv, PastLock
<1>2. CASE ReadIngress
  <2>1. rpc = "ingress" /\ rpc' = "locked" /\ snap' = snap
        /\ partial' = [partial EXCEPT !.ingress = ingress_packets]
    BY <1>2 DEF ReadIngress
  <2>2. partial'.rx = partial.rx /\ partial'.ingress = ingress_packets
        /\ partial'.terminal = partial.terminal /\ partial'.samples = partial.samples
        /\ partial'.total = partial.total /\ partial'.max = partial.max
    BY <1>0, <2>1 DEF Metrics
  <2>3. Behind(partial)' /\ Behind(snap)' /\ Balanced(snap)'
        /\ snap'.rx =< partial'.rx /\ snap'.ingress =< partial'.ingress
    BY <1>0, <2>1, <2>2 DEF Behind, Balanced, ReaderInv
  <2> QED
    BY <2>1, <2>3 DEF ReaderInv, PastLock
<1>3. CASE ReadLocked
  <2>1. rpc = "locked" /\ lock = NoThread /\ rpc' = "total" /\ snap' = snap
    BY <1>3 DEF ReadLocked
  <2>2. partial'.rx = partial.rx /\ partial'.ingress = partial.ingress
        /\ partial'.terminal = terminal_events /\ partial'.samples = partial.samples
        /\ partial'.total = partial.total /\ partial'.max = partial.max
        /\ partial'.processed = processed_packets /\ partial'.drops = drops
    BY <1>0, <1>3 DEF ReadLocked, Metrics
  <2>3. terminal_events = processed_packets + drops
        /\ rx_packets = processed_packets
    BY <2>1 DEF CounterInv, Phase
  <2>4. Behind(partial)' /\ Behind(snap)' /\ Balanced(snap)' /\ Balanced(partial)'
        /\ snap'.rx =< partial'.rx /\ snap'.ingress =< partial'.ingress
        /\ snap'.terminal =< partial'.terminal
    BY <1>0, <2>1, <2>2, <2>3 DEF Behind, Balanced, ReaderInv
  <2> QED
    BY <2>1, <2>4 DEF ReaderInv, PastLock
<1>4. CASE ReadTotal
  <2>1. rpc = "total" /\ rpc' = "max" /\ snap' = snap
        /\ partial' = [partial EXCEPT !.total = total_latency]
    BY <1>4 DEF ReadTotal
  <2>2. partial'.rx = partial.rx /\ partial'.ingress = partial.ingress
        /\ partial'.terminal = partial.terminal /\ partial'.samples = partial.samples
        /\ partial'.total = total_latency /\ partial'.max = partial.max
        /\ partial'.processed = partial.processed /\ partial'.drops = partial.drops
    BY <1>0, <2>1 DEF Metrics
  <2>3. Behind(partial)' /\ Behind(snap)' /\ Balanced(snap)' /\ Balanced(partial)'
        /\ snap'.rx =< partial'.rx /\ snap'.ingress =< partial'.ingress
        /\ snap'.terminal =< partial'.terminal /\ snap'.total =< partial'.total
    BY <1>0, <2>1, <2>2 DEF Behind, Balanced, ReaderInv, PastLock
  <2> QED
    BY <2>1, <2>3 DEF ReaderInv, PastLock
<1>5. CASE ReadMax
  <2>1. rpc = "max" /\ rpc' = "samples" /\ snap' = snap
        /\ partial' = [partial EXCEPT !.max = max_latency]
    BY <1>5 DEF ReadMax
  <2>2. partial'.rx = partial.rx /\ partial'.ingress = partial.ingress
        /\ partial'.terminal = partial.terminal /\ partial'.samples = partial.samples
        /\ partial'.total = partial.total /\ partial'.max = max_latency
        /\ partial'.processed = partial.processed /\ partial'.drops = partial.drops
    BY <1>0, <2>1 DEF Metrics
  <2>3. Behind(partial)' /\ Behind(snap)' /\ Balanced(snap)' /\ Balanced(partial)'
        /\ snap'.rx =< partial'.rx /\ snap'.ingress =< partial'.ingress
        /\ snap'.terminal =< partial'.terminal /\ snap'.total =< partial'.total
        /\ snap'.max =< partial'.max
    BY <1>0, <2>1, <2>2 DEF Behind, Balanced, ReaderInv, PastLock
  <2> QED
    BY <2>1, <2>3 DEF ReaderInv, PastLock
<1>6. CASE ReadSamples
  <2>1. rpc = "samples" /\ rpc' = "rx" /\ partial' = partial
        /\ snap' = [partial EXCEPT !.samples = latency_samples]
    BY <1>6 DEF ReadSamples
  <2>2. snap'.rx = partial.rx /\ snap'.ingress = partial.ingress
        /\ snap'.terminal = partial.terminal /\ snap'.samples = latency_samples
        /\ snap'.total = partial.total /\ snap'.max = partial.max
        /\ snap'.processed = partial.processed /\ snap'.drops = partial.drops
    BY <1>0, <2>1 DEF Metrics
  <2>3. Behind(partial)' /\ Behind(snap)' /\ Balanced(snap)'
    BY <1>0, <2>1, <2>2 DEF Behind, Balanced, ReaderInv, PastLock
  <2> QED
    BY <2>1, <2>3 DEF ReaderInv, PastLock
<1> QED
  BY <1>1, <1>2, <1>3, <1>4, <1>5, <1>6 DEF Reader

\* Every step keeps the reader's invariant.
LEMMA ReaderStep ==
    ASSUME Base, CounterInv, ReaderInv, [Next]_vars PROVE ReaderInv'
<1>1. ASSUME NEW t \in Threads, Callback(t) PROVE UNCHANGED readerVars
  <2>1. ASSUME NEW id \in Ids,
               \/ \E l \in Latencies \cup {0} : OnPacketProcessed(t, id, l)
               \/ OnPacketDropped(t, id)
        PROVE  UNCHANGED readerVars
    BY <2>1, StartSteps
  <2> QED
    BY <1>1, <2>1 DEF Callback, OnPacketRx, AddRx, AddProcessed, AddDrop,
                      AddTerminal, AddTotal, AddSample, RaiseMax
<1>2. UNCHANGED readerVars \/ Reader
  BY <1>1 DEF Next, vars
<1> QED
  BY <1>2, ReaderWaits, ReaderReads

\* The invariant of the counters and the reader.
LEMMA ReaderSafe == Spec => [](Base /\ CounterInv /\ ReaderInv)
<1>1. Init => Base /\ CounterInv /\ ReaderInv
  <2> SUFFICES ASSUME Init PROVE Base /\ CounterInv /\ ReaderInv
    OBVIOUS
  <2>1. CounterInv
    BY DEF Init, CounterInv, Phase
  <2>2. ReaderInv
    BY DEF Init, ReaderInv, Behind, Balanced, Blank, PastLock
  <2> QED
    BY <2>1, <2>2, BaseInit
<1>2. Base /\ CounterInv /\ ReaderInv /\ [Next]_vars
        => (Base /\ CounterInv /\ ReaderInv)'
  BY BaseStep, CounterStep, ReaderStep
<1> QED
  BY <1>1, <1>2, PTL DEF Spec

\* Every snapshot PacketStats returns balances: terminal_events is the sum of
\* the processed and the dropped packets, and no more packets were received
\* than processed, though they are read before the lock is taken.
THEOREM SnapshotLedgerCorrect == Spec => []SnapshotLedger
<1>1. ReaderInv => SnapshotLedger
  BY DEF ReaderInv, Balanced, SnapshotLedger
<1> QED
  BY <1>1, ReaderSafe, PTL

\* No counter runs backwards from one snapshot to the next, so the unsigned
\* differences taken of consecutive snapshots do not wrap around.
THEOREM SnapshotsMonotoneCorrect == Spec => SnapshotsMonotone
<1> DEFINE Forward ==
             /\ snap.rx =< snap'.rx /\ snap.ingress =< snap'.ingress
             /\ snap.terminal =< snap'.terminal /\ snap.samples =< snap'.samples
             /\ snap.total =< snap'.total /\ snap.max =< snap'.max
<1>1. Base /\ ReaderInv /\ [Next]_vars => [Forward]_snap
  <2> SUFFICES ASSUME Base, ReaderInv, [Next]_vars, snap' # snap PROVE Forward
    OBVIOUS
  <2>1. ReadSamples
    <3>1. ASSUME NEW t \in Threads, Callback(t) PROVE snap' = snap
      <4>1. ASSUME NEW id \in Ids,
                   \/ \E l \in Latencies \cup {0} : OnPacketProcessed(t, id, l)
                   \/ OnPacketDropped(t, id)
            PROVE  snap' = snap
        BY <4>1, StartSteps DEF readerVars
      <4> QED
        BY <3>1, <4>1 DEF Callback, OnPacketRx, AddRx, AddProcessed, AddDrop,
                          AddTerminal, AddTotal, AddSample, RaiseMax, readerVars
    <3> QED
      BY <3>1 DEF Next, vars, readerVars, Reader, ReadRx, ReadIngress, ReadLocked,
                  ReadTotal, ReadMax
  <2>2. rpc = "samples" /\ partial \in Metrics
        /\ snap' = [partial EXCEPT !.samples = latency_samples]
    BY <2>1 DEF ReadSamples, Base, TypeOK
  <2>3. snap'.rx = partial.rx /\ snap'.ingress = partial.ingress
        /\ snap'.terminal = partial.terminal /\ snap'.samples = latency_samples
        /\ snap'.total = partial.total /\ snap'.max = partial.max
    BY <2>2 DEF Metrics
  <2> QED
    BY <2>2, <2>3 DEF ReaderInv, PastLock, Behind
<1> QED
  BY <1>1, ReaderSafe, PTL DEF SnapshotsMonotone, Spec
=============================================================================
