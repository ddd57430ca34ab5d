------------------------------ MODULE Switching ------------------------------
(***************************************************************************)
(* The forwarding path of PacketProcessor's worker: MacTable,              *)
(* InterfaceRegistry, SwitchForwardingEngine and TransportManager, and the *)
(* control plane's transport-stats, which reads the counters from the      *)
(* epoll thread, one after the other and without a lock.                   *)
(*                                                                         *)
(* MAC addresses are numbers (std::map keeps them in order); ticks are the *)
(* packets' timestamp_ms, a wall clock that may step back, so the tick of  *)
(* a packet is arbitrary.  Ticks are uint64 in the code; here arithmetic   *)
(* is modulo Word.  The packets are those that carry an ingress port and   *)
(* passed the worker's validation.                                         *)
(***************************************************************************)
EXTENDS Integers, FiniteSets, Sequences

CONSTANTS
    Macs,           \* MAC addresses, numbers
    Broadcast,      \* the broadcast address, one of them
    PortIds,        \* port ids packets and tables can mention
    Registered,     \* the ports added to InterfaceRegistry
    Backends,       \* ports with a transport backend
    Traffic,        \* the packets that may reach the worker
    capacity,       \* MacTable's capacity_
    Ticks,          \* timestamps
    Word,           \* 2^64, scaled down
    MaxPackets,     \* bound: packets forwarded
    None            \* an absent MAC address

ASSUME SwitchAssumption ==
    /\ Macs \subseteq Nat /\ Broadcast \in Macs /\ None \notin Macs
    /\ PortIds \subseteq Nat /\ Registered \subseteq PortIds
    /\ IsFiniteSet(Registered)
    /\ capacity \in Nat
    /\ Ticks \subseteq Nat /\ Word \in Nat /\ \A t \in Ticks : t < Word
    /\ Traffic \subseteq [src : Macs \cup {None}, dst : Macs \cup {None},
                          ingress : PortIds, tick : Ticks]
    /\ MaxPackets \in Nat

\* pkt while the worker forwards nothing.
NoPacket == [src |-> None, dst |-> None]

VARIABLES
    entries,        \* MacTable: MAC -> [port_id, last_seen_tick]
    up,             \* the registered ports whose state is Up
    wpc,            \* where the worker is in the forwarding path
    pkt,            \* the packet it forwards
    action,         \* the decision: "Drop", "Flood", "ForwardToPorts"
    remaining,      \* egress ports still to transmit on, in order
    tx_packets, tx_failed, backend_unavailable,
    packets,        \* packets forwarded so far
    reading,        \* what a transport-stats command under way has read: a
                    \* set of at most one record
    lastSeen,       \* history: where and when each source was last learned
    planned         \* history: egress ports decided since the last reset

counterVars == <<tx_packets, tx_failed, backend_unavailable>>
decisionVars == <<action, remaining>>
historyVars == <<lastSeen, planned>>
vars == <<entries, up, wpc, pkt, decisionVars, counterVars, packets,
          reading, historyVars>>

NoEntries == [m \in {} |-> 0]

Init ==
    /\ entries = NoEntries
    /\ up = Registered
    /\ wpc = "idle"
    /\ pkt = NoPacket
    /\ action = "Drop" /\ remaining = <<>>
    /\ tx_packets = 0 /\ tx_failed = 0 /\ backend_unavailable = 0
    /\ packets = 0
    /\ reading = {}
    /\ lastSeen = NoEntries
    /\ planned = 0

-----------------------------------------------------------------------------
(* MacTable.                                                               *)

Entry(port, tick) == [port_id |-> port, last_seen_tick |-> tick]
Older(table, m, k) ==
    \/ table[m].last_seen_tick < table[k].last_seen_tick
    \/ table[m].last_seen_tick = table[k].last_seen_tick /\ m =< k

\* Mutant of Oldest: the table evicts its lowest address, whatever its tick.
MutEvictFirst(table) ==
    CHOOSE m \in DOMAIN table : \A k \in DOMAIN table : m =< k

\* The scan of learn(): smallest tick, ties to the lowest address.
Oldest(table) ==
    CHOOSE m \in DOMAIN table : \A k \in DOMAIN table : Older(table, m, k)

Full(table) == Cardinality(DOMAIN table) >= capacity

\* The addresses that stay when mac is learned.
Kept(table, mac) ==
    IF mac \in DOMAIN table \/ ~Full(table) THEN DOMAIN table
    ELSE DOMAIN table \ {Oldest(table)}

\* Mutant of Learned: relearning refreshes the tick and keeps the old port.
MutLearnKeepsPort(table, mac, port, tick) ==
    IF mac \in DOMAIN table
    THEN [table EXCEPT ![mac].last_seen_tick = tick]
    ELSE [m \in Kept(table, mac) \cup {mac} |->
            IF m = mac THEN Entry(port, tick) ELSE table[m]]

Learned(table, mac, port, tick) ==
    IF capacity = 0 THEN table
    ELSE [m \in Kept(table, mac) \cup {mac} |->
            IF m = mac THEN Entry(port, tick) ELSE table[m]]

\* uint64 subtraction: an entry newer than the current tick wraps around.
Age(current, seen) == (current - seen) % Word

AgedOut(table, current, max_age) ==
    {m \in DOMAIN table : Age(current, table[m].last_seen_tick) > max_age}

Without(f, S) == [m \in DOMAIN f \ S |-> f[m]]

\* ageOut is called by whoever owns the table, not while a packet is being
\* forwarded.
ageOut(current, max_age) ==
    /\ wpc = "idle"
    /\ entries' = Without(entries, AgedOut(entries, current, max_age))
    /\ UNCHANGED <<up, wpc, pkt, decisionVars, counterVars, packets, reading,
                   historyVars>>

-----------------------------------------------------------------------------
(* InterfaceRegistry.                                                      *)

isUp(port) == port \in up

setState(port, isNowUp) ==
    /\ wpc = "idle"
    /\ up' = IF port \notin Registered THEN up
             ELSE IF isNowUp THEN up \cup {port} ELSE up \ {port}
    /\ UNCHANGED <<entries, wpc, pkt, decisionVars, counterVars, packets,
                   reading, historyVars>>

\* A set of port ids as the ascending sequence std::map iterates.
Ascending(S) ==
    CHOOSE s \in [1..Cardinality(S) -> S] :
        \A i, j \in 1..Cardinality(S) : i < j => s[i] < s[j]

-----------------------------------------------------------------------------
(* SwitchForwardingEngine::processPacket on the worker.                    *)

\* A packet without both addresses is dropped before anything is learned.
Begin(p) ==
    /\ wpc = "idle" /\ packets < MaxPackets
    /\ pkt' = p
    /\ packets' = packets + 1
    /\ \/ /\ None \in {p.src, p.dst}
          /\ wpc' = "publish"
          /\ action' = "Drop" /\ remaining' = <<>>
       \/ /\ None \notin {p.src, p.dst}
          /\ wpc' = "learn"
          /\ UNCHANGED decisionVars
    /\ UNCHANGED <<entries, up, counterVars, reading, historyVars>>

\* The worker is inside MacTable::learn while wpc = "learn".
learn ==
    /\ wpc = "learn"
    /\ entries' = Learned(entries, pkt.src, pkt.ingress, pkt.tick)
    /\ lastSeen' = [m \in DOMAIN lastSeen \cup {pkt.src} |->
                      IF m = pkt.src THEN Entry(pkt.ingress, pkt.tick)
                      ELSE lastSeen[m]]
    /\ wpc' = "decide"
    /\ UNCHANGED <<up, pkt, decisionVars, counterVars, packets, reading,
                   planned>>

KnownUnicast == pkt.dst # Broadcast /\ pkt.dst \in DOMAIN entries

FloodPorts == up \ {pkt.ingress}

\* Mutant of Decide: a Down destination port is ignored.
MutForwardToDownPort ==
    /\ wpc = "decide"
    /\ \/ /\ ~KnownUnicast
          /\ action' = "Flood" /\ remaining' = Ascending(FloodPorts)
       \/ /\ KnownUnicast
          /\ action' = "ForwardToPorts"
          /\ remaining' = <<entries[pkt.dst].port_id>>
    /\ planned' = planned + Len(remaining')
    /\ wpc' = "transmit"
    /\ UNCHANGED <<entries, up, pkt, counterVars, packets, reading, lastSeen>>

Decide ==
    /\ wpc = "decide"
    /\ \/ /\ ~KnownUnicast
          /\ action' = "Flood" /\ remaining' = Ascending(FloodPorts)
       \/ /\ KnownUnicast /\ ~isUp(entries[pkt.dst].port_id)
          /\ action' = "Drop" /\ remaining' = <<>>
       \/ /\ KnownUnicast /\ isUp(entries[pkt.dst].port_id)
          /\ action' = "ForwardToPorts"
          /\ remaining' = <<entries[pkt.dst].port_id>>
    /\ planned' = planned + Len(remaining')
    /\ wpc' = "transmit"
    /\ UNCHANGED <<entries, up, pkt, counterVars, packets, reading, lastSeen>>

-----------------------------------------------------------------------------
(* TransportManager::transmit, one egress port after the other.            *)

\* What PortBackend::transmit can return: UdpPortBackend fails when sendto
\* does, VirtualPortBackend never.
BackendResults == {"Success", "SendFailed"}

\* A port without a backend is counted twice, in steps that a reader of the
\* counters can come between: here first, in transmit as a failure.
NoBackend ==
    /\ wpc = "transmit" /\ remaining # <<>>
    /\ Head(remaining) \notin Backends
    /\ backend_unavailable' = backend_unavailable + 1
    /\ wpc' = "unavailable"
    /\ UNCHANGED <<entries, up, pkt, decisionVars, tx_packets, tx_failed,
                   packets, reading, historyVars>>

\* Mutant of transmit: SendFailed is not counted.
MutSendFailedUncounted ==
    /\ remaining # <<>>
    /\ remaining' = Tail(remaining) /\ wpc' = "transmit"
    /\ \/ /\ wpc = "unavailable"
          /\ tx_failed' = tx_failed + 1 /\ UNCHANGED tx_packets
       \/ /\ wpc = "transmit" /\ Head(remaining) \in Backends
          /\ \E result \in BackendResults :
               tx_packets' = IF result = "Success" THEN tx_packets + 1
                             ELSE tx_packets
          /\ UNCHANGED tx_failed
    /\ UNCHANGED <<entries, up, pkt, action, backend_unavailable, packets,
                   reading, historyVars>>

\* A port without a backend fails; otherwise the backend's result is counted.
transmit ==
    /\ remaining # <<>>
    /\ remaining' = Tail(remaining) /\ wpc' = "transmit"
    /\ \/ /\ wpc = "unavailable"
          /\ tx_failed' = tx_failed + 1 /\ UNCHANGED tx_packets
       \/ /\ wpc = "transmit" /\ Head(remaining) \in Backends
          /\ \E result \in BackendResults :
               \/ /\ result = "Success"
                  /\ tx_packets' = tx_packets + 1 /\ UNCHANGED tx_failed
               \/ /\ result = "SendFailed"
                  /\ tx_failed' = tx_failed + 1 /\ UNCHANGED tx_packets
    /\ UNCHANGED <<entries, up, pkt, action, backend_unavailable, packets,
                   reading, historyVars>>

\* ForwardingDecisionMade, then PacketProcessed.
PublishDecision ==
    /\ \/ wpc = "publish"
       \/ wpc = "transmit" /\ remaining = <<>>
    /\ wpc' = "idle"
    /\ pkt' = NoPacket /\ action' = "Drop" /\ remaining' = <<>>
    /\ UNCHANGED <<entries, up, counterVars, packets, reading, historyVars>>

\* Like ageOut, left to the owner while nobody else uses the object.
resetCounters ==
    /\ wpc = "idle" /\ reading = {}
    /\ tx_packets' = 0 /\ tx_failed' = 0 /\ backend_unavailable' = 0
    /\ planned' = 0
    /\ UNCHANGED <<entries, up, wpc, pkt, decisionVars, packets, reading,
                   lastSeen>>

-----------------------------------------------------------------------------
(* transport-stats on the epoll thread.  The counters are plain uint64,    *)
(* which the build loads and stores whole.                                 *)

\* tx_packets is read first; floor is what the answer would add up to if the
\* worker stood still.
handleTransportStats ==
    /\ reading = {}
    /\ reading' = {[tx_packets |-> tx_packets,
                    floor |-> tx_packets + tx_failed]}
    /\ UNCHANGED <<entries, up, wpc, pkt, decisionVars, counterVars, packets,
                   historyVars>>

\* tx_failed is read later, and the answer is written.
AnswerTransportStats ==
    /\ reading # {}
    /\ reading' = {}
    /\ UNCHANGED <<entries, up, wpc, pkt, decisionVars, counterVars, packets,
                   historyVars>>

-----------------------------------------------------------------------------
Worker == learn \/ Decide \/ NoBackend \/ transmit \/ PublishDecision

Next ==
    \/ \E p \in Traffic : Begin(p)
    \/ Worker
    \/ \E current \in Ticks, max_age \in Ticks : ageOut(current, max_age)
    \/ \E port \in PortIds, isNowUp \in BOOLEAN : setState(port, isNowUp)
    \/ resetCounters
    \/ handleTransportStats \/ AnswerTransportStats

Spec == Init /\ [][Next]_vars

-----------------------------------------------------------------------------
(* Properties.                                                             *)

\* Whatever was learned, moved, evicted or aged since, a table entry says
\* where its address was seen last: the latest ingress port wins.
LatestPortWins ==
    \A m \in DOMAIN entries :
        m \in DOMAIN lastSeen /\ entries[m] = lastSeen[m]

\* Learning a new address in a full table evicts one entry, and no entry that
\* stays is older than it (ties by address); otherwise nothing is evicted.
\* The table never outgrows its capacity.
EvictionIsOldest ==
    [][learn =>
        LET evicted == DOMAIN entries \ DOMAIN entries'
        IN  /\ evicted # {} => pkt.src \notin DOMAIN entries /\ Full(entries)
            /\ Cardinality(evicted) =< 1
            /\ \A m \in evicted : \A k \in DOMAIN entries :
                  Older(entries, m, k)
            /\ capacity # 0 => pkt.src \in DOMAIN entries'
            /\ Cardinality(DOMAIN entries') =< capacity]_vars

\* A packet leaves only through ports that are up, and never through the port
\* it came in by unless its destination was last seen there.
EgressSound ==
    \A i \in 1..Len(remaining) :
        /\ remaining[i] \in up
        /\ remaining[i] = pkt.ingress =>
              /\ action = "ForwardToPorts"
              /\ pkt.dst \in DOMAIN lastSeen
              /\ lastSeen[pkt.dst].port_id = pkt.ingress

HalfCounted == IF wpc = "unavailable" THEN 1 ELSE 0

\* Every egress port of every decision is accounted for in the transport
\* counters, as sent or as failed, or is still to be transmitted on, and a
\* missing backend is a failure, except between the two increments.  So a
\* transport-stats answer, whose numbers stem from different moments, still
\* adds up to no less than what was done when the command began and to no
\* more than what was decided.
TransportLedger ==
    /\ tx_packets + tx_failed + Len(remaining) = planned
    /\ backend_unavailable =< tx_failed + HalfCounted
    /\ \A seen \in reading : seen.tx_packets + tx_failed \in seen.floor..planned
=============================================================================
