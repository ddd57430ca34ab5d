--------------------------- MODULE SwitchingProofs ---------------------------
(***************************************************************************)
(* Proofs about Switching, for every table capacity, every set of ports    *)
(* and addresses and any number of packets: the table says where an        *)
(* address was seen last, it evicts its oldest entry only, a packet leaves *)
(* through ports that are up, and the transport counters add up.           *)
(*                                                                         *)
(* What a decision plans is the length of Ascending(ports), so the ledger  *)
(* rests on a fact about the data: every finite set of port ids can be     *)
(* listed in ascending order, without repetition.                          *)
(***************************************************************************)
EXTENDS Switching, FiniteSetTheorems, SequenceTheorems, WellFoundedInduction,
        TLAPS

-----------------------------------------------------------------------------
(* Facts about natural numbers and finite sets.                            *)

\* A set of naturals that is not empty has a smallest member.
LEMMA LeastNatural ==
    ASSUME NEW S \in SUBSET Nat, S # {} PROVE \E x \in S : \A y \in S : x =< y
<1>1. IsWellFoundedOn(OpToRel(<, Nat), Nat)
  BY NatLessThanWellFounded, Zenon
<1>2. PICK x \in S : \A y \in S : ~(<<y, x>> \in OpToRel(<, Nat))
  BY <1>1, WFMin, Zenon
<1>3. ASSUME NEW y \in S PROVE ~(y < x)
  <2>1. <<y, x>> \in Nat \X Nat
    OBVIOUS
  <2>2. <<y, x>>[1] = y /\ <<y, x>>[2] = x
    OBVIOUS
  <2> QED
    BY <1>2, <2>1, <2>2, Zenon DEF OpToRel
<1> QED
  BY <1>3

\* s lists the set S in ascending order.
Lists(s, S) ==
    /\ s \in [1..Cardinality(S) -> S]
    /\ \A i, j \in 1..Cardinality(S) : i < j => s[i] < s[j]

\* Putting the smallest member in front of a listing of the others.
LEMMA ListFromLeast ==
    ASSUME NEW S \in SUBSET Nat, IsFiniteSet(S), NEW x \in S,
           \A y \in S : x =< y, NEW t, Lists(t, S \ {x})
    PROVE  \E s : Lists(s, S)
<1> DEFINE n == Cardinality(S)
           s == [i \in 1..n |-> IF i = 1 THEN x ELSE t[i - 1]]
<1>1. n \in Nat /\ Cardinality(S \ {x}) = n - 1
  BY FS_RemoveElement, FS_CardinalityType
<1> HIDE DEF n
<1>2. t \in [1..(n - 1) -> S \ {x}]
      /\ \A i, j \in 1..(n - 1) : i < j => t[i] < t[j]
  BY <1>1 DEF Lists
<1>3. ASSUME NEW i \in 1..n, i # 1 PROVE i - 1 \in 1..(n - 1)
  BY <1>1, <1>3
<1>4. ASSUME NEW i \in 1..n, i # 1
      PROVE  s[i] = t[i - 1] /\ t[i - 1] \in S \ {x}
  BY <1>2, <1>3, <1>4
<1>5. ASSUME NEW i \in 1..n, i = 1 PROVE s[i] = x
  BY <1>5
<1>6. s \in [1..n -> S]
  BY <1>4, <1>5
<1>7. ASSUME NEW i \in 1..n, NEW j \in 1..n, i < j PROVE s[i] < s[j]
  <2>1. j # 1 /\ s[j] = t[j - 1] /\ t[j - 1] \in S \ {x}
    BY <1>1, <1>4, <1>7
  <2>2. CASE i = 1
    <3>1. s[i] = x
      BY <1>5, <2>2
    <3>2. t[j - 1] \in Nat /\ x \in Nat /\ x =< t[j - 1] /\ x # t[j - 1]
      BY <2>1
    <3>3. x < t[j - 1]
      BY <3>2
    <3> HIDE DEF s
    <3> QED
      BY <3>1, <3>3, <2>1
  <2>3. CASE i # 1
    <3>1. s[i] = t[i - 1]
      BY <1>4, <2>3
    <3>2. i - 1 \in 1..(n - 1) /\ j - 1 \in 1..(n - 1) /\ i - 1 < j - 1
      BY <1>3, <1>7, <2>1, <2>3
    <3>3. t[i - 1] < t[j - 1]
      BY <1>2, <3>2
    <3> HIDE DEF s
    <3> QED
      BY <3>1, <3>3, <2>1
  <2> QED
    BY <2>2, <2>3
<1>8. Lists(s, S)
  <2> HIDE DEF s
  <2> QED
    BY <1>6, <1>7 DEF Lists, n
<1> QED
  BY <1>8

\* Every finite set of naturals can be listed in ascending order.  A smallest
\* set that cannot would have a smallest member; the others can be listed.
LEMMA EverySetIsListed ==
    ASSUME NEW S \in SUBSET Nat, IsFiniteSet(S) PROVE \E s : Lists(s, S)
<1> DEFINE Unlisted == {T \in SUBSET S : ~ \E s : Lists(s, T)}
           Sizes == {Cardinality(T) : T \in Unlisted}
<1>1. SUFFICES ASSUME Unlisted # {} PROVE FALSE
  BY <1>1
<1>2. ASSUME NEW T \in SUBSET S PROVE IsFiniteSet(T) /\ Cardinality(T) \in Nat
  BY FS_Subset, FS_CardinalityType
<1>3. Sizes \in SUBSET Nat /\ Sizes # {}
  BY <1>1, <1>2
<1>4. PICK n \in Sizes : \A k \in Sizes : n =< k
  BY <1>3, LeastNatural
<1>5. PICK T \in Unlisted : n = Cardinality(T)
  BY <1>4
<1>6. T \in SUBSET Nat /\ IsFiniteSet(T) /\ n \in Nat /\ ~ \E s : Lists(s, T)
  BY <1>2, <1>5
<1>7. T # {}
  <2>1. SUFFICES ASSUME T = {} PROVE FALSE
    BY <2>1
  <2>2. Cardinality(T) = 0
    BY <2>1, FS_EmptySet
  <2>3. Lists(<<>>, T)
    BY <2>2 DEF Lists
  <2> QED
    BY <2>3, <1>6
<1>8. PICK x \in T : \A y \in T : x =< y
  BY <1>6, <1>7, LeastNatural
<1>9. Cardinality(T \ {x}) = n - 1 /\ T \ {x} \in SUBSET S
  BY <1>5, <1>6, <1>8, FS_RemoveElement
<1>10. T \ {x} \notin Unlisted
  <2>1. SUFFICES ASSUME T \ {x} \in Unlisted PROVE FALSE
    BY <2>1
  <2>2. n - 1 \in Sizes
    BY <2>1, <1>9
  <2>3. n =< n - 1
    BY <1>4, <2>2
  <2> QED
    BY <2>3, <1>6
<1>11. PICK t : Lists(t, T \ {x})
  BY <1>9, <1>10
<1> QED
  BY <1>6, <1>8, <1>11, ListFromLeast

\* What std::map iterates: the ports, each once, in ascending order.
LEMMA AscendingLists ==
    ASSUME NEW S \in SUBSET Nat, IsFiniteSet(S)
    PROVE  /\ Lists(Ascending(S), S)
           /\ Ascending(S) \in Seq(S)
<1>1. PICK s : Lists(s, S)
  BY EverySetIsListed
<1>2. Lists(Ascending(S), S)
  BY <1>1 DEF Ascending, Lists
<1>3. Cardinality(S) \in Nat
  BY FS_CardinalityType
<1> QED
  BY <1>2, <1>3 DEF Lists

-----------------------------------------------------------------------------
(* The types.                                                              *)

Entries == [port_id : PortIds, last_seen_tick : Ticks]

\* A std::map from addresses to entries.
Table(f) == DOMAIN f \subseteq Macs /\ \A m \in DOMAIN f : f[m] \in Entries

TypeOK ==
    /\ Table(entries) /\ IsFiniteSet(DOMAIN entries) /\ Table(lastSeen)
    /\ up \subseteq Registered
    /\ wpc \in {"idle", "learn", "decide", "transmit", "unavailable", "publish"}
    /\ wpc # "idle" => pkt \in Traffic
    /\ wpc = "learn" => None \notin {pkt.src, pkt.dst}
    /\ remaining \in Seq(PortIds)
    /\ tx_packets \in Nat /\ tx_failed \in Nat /\ backend_unavailable \in Nat
    /\ planned \in Nat
    /\ \A seen \in reading : seen.tx_packets \in Nat /\ seen.floor \in Nat

\* An address and a port that a packet of the traffic carries.
LEMMA PacketFields ==
    ASSUME NEW p \in Traffic, None \notin {p.src, p.dst}
    PROVE  /\ p.src \in Macs /\ p.dst \in Macs
           /\ Entry(p.ingress, p.tick) \in Entries
BY SwitchAssumption DEF Entry, Entries

\* Flooding and a known destination both yield a list of ports.
LEMMA DecidedPorts ==
    ASSUME TypeOK, Decide
    PROVE  /\ remaining' \in Seq(PortIds)
           /\ \/ remaining' = Ascending(FloodPorts) /\ action' = "Flood"
                 /\ Lists(Ascending(FloodPorts), FloodPorts)
                 /\ Ascending(FloodPorts) \in Seq(FloodPorts)
              \/ remaining' = <<>>
              \/ /\ KnownUnicast /\ isUp(entries[pkt.dst].port_id)
                 /\ action' = "ForwardToPorts"
                 /\ remaining' = <<entries[pkt.dst].port_id>>
<1>1. FloodPorts \in SUBSET Registered /\ FloodPorts \in SUBSET Nat
      /\ FloodPorts \in SUBSET PortIds
  BY SwitchAssumption DEF TypeOK, FloodPorts
<1>2. IsFiniteSet(FloodPorts)
  BY <1>1, FS_Subset, SwitchAssumption
<1>3. Lists(Ascending(FloodPorts), FloodPorts)
      /\ Ascending(FloodPorts) \in Seq(FloodPorts)
  BY <1>1, <1>2, AscendingLists
<1>4. Ascending(FloodPorts) \in Seq(PortIds)
  BY <1>1, <1>3, SeqMonotonic
<1>5. CASE ~KnownUnicast
  BY <1>3, <1>4, <1>5 DEF Decide
<1>6. CASE KnownUnicast /\ ~isUp(entries[pkt.dst].port_id)
  <2>1. remaining' = <<>>
    BY <1>6 DEF Decide
  <2> QED
    BY <2>1
<1>7. CASE KnownUnicast /\ isUp(entries[pkt.dst].port_id)
  <2>1. remaining' = <<entries[pkt.dst].port_id>> /\ action' = "ForwardToPorts"
    BY <1>7 DEF Decide
  <2>2. entries[pkt.dst] \in Entries
    BY <1>7 DEF KnownUnicast, TypeOK, Table
  <2>3. entries[pkt.dst].port_id \in PortIds
    BY <2>2 DEF Entries
  <2> QED
    BY <1>7, <2>1, <2>3
<1> QED
  BY <1>5, <1>6, <1>7

\* What learning leaves of a table: the new entry, and a part of the others.
LEMMA LearnedTable ==
    ASSUME NEW f, Table(f), IsFiniteSet(DOMAIN f), NEW mac \in Macs,
           NEW port, NEW tick, Entry(port, tick) \in Entries
    PROVE  LET g == Learned(f, mac, port, tick)
           IN  /\ Table(g) /\ IsFiniteSet(DOMAIN g)
               /\ \A m \in DOMAIN g :
                     \/ m = mac /\ g[m] = Entry(port, tick)
                     \/ capacity # 0 /\ m # mac /\ m \in DOMAIN f /\ g[m] = f[m]
                     \/ capacity = 0 /\ m \in DOMAIN f /\ g[m] = f[m]
<1> DEFINE g == Learned(f, mac, port, tick)
<1>1. CASE capacity = 0
  BY <1>1 DEF Learned
<1>2. CASE capacity # 0
  <2>1. g = [m \in Kept(f, mac) \cup {mac} |->
               IF m = mac THEN Entry(port, tick) ELSE f[m]]
    BY <1>2 DEF Learned
  <2>2. Kept(f, mac) \in SUBSET DOMAIN f
    BY DEF Kept
  <2>3. IsFiniteSet(Kept(f, mac) \cup {mac})
    BY <2>2, FS_Subset, FS_AddElement
  <2> HIDE DEF g
  <2>4. DOMAIN g = Kept(f, mac) \cup {mac}
    BY <2>1
  <2>5. ASSUME NEW m \in DOMAIN g
        PROVE  \/ m = mac /\ g[m] = Entry(port, tick)
               \/ m # mac /\ m \in DOMAIN f /\ g[m] = f[m]
    BY <2>1, <2>2, <2>4
  <2>6. Table(g)
    BY <2>2, <2>4, <2>5 DEF Table
  <2> QED
    BY <1>2, <2>3, <2>4, <2>5, <2>6 DEF g
<1> QED
  BY <1>1, <1>2

\* Every step keeps the types.
LEMMA TypeStep ==
    ASSUME TypeOK, [Next]_vars PROVE TypeOK'
<1> USE DEF counterVars, decisionVars, historyVars
<1>1. ASSUME NEW p \in Traffic, Begin(p) PROVE TypeOK'
  <2>1. /\ remaining' = <<>> \/ remaining' = remaining
        /\ pkt' = p
        /\ wpc' = "publish" \/ (wpc' = "learn" /\ None \notin {p.src, p.dst})
    BY <1>1 DEF Begin
  <2>2. UNCHANGED <<entries, up, counterVars, reading, historyVars>>
    BY <1>1 DEF Begin
  <2>3. remaining' \in Seq(PortIds)
    BY <2>1, EmptySeq DEF TypeOK
  <2>4. /\ wpc' \in {"idle", "learn", "decide", "transmit", "unavailable", "publish"}
        /\ pkt' \in Traffic
        /\ wpc' = "learn" => None \notin {pkt'.src, pkt'.dst}
    BY <2>1
  <2> QED
    BY <2>2, <2>3, <2>4 DEF TypeOK
<1>2. ASSUME learn PROVE TypeOK'
  <2>1. pkt \in Traffic /\ None \notin {pkt.src, pkt.dst} /\ wpc' = "decide"
        /\ pkt' = pkt
    BY <1>2 DEF learn, TypeOK
  <2>2. pkt.src \in Macs /\ Entry(pkt.ingress, pkt.tick) \in Entries
    BY <2>1, PacketFields
  <2>3. Table(entries') /\ IsFiniteSet(DOMAIN entries')
    BY <1>2, <2>2, LearnedTable DEF learn, TypeOK
  <2>4. Table(lastSeen')
    <3>1. lastSeen' = [m \in DOMAIN lastSeen \cup {pkt.src} |->
                         IF m = pkt.src THEN Entry(pkt.ingress, pkt.tick)
                         ELSE lastSeen[m]]
      BY <1>2 DEF learn
    <3>2. Table(lastSeen)
      BY DEF TypeOK
    <3> QED
      BY <3>1, <3>2, <2>2 DEF Table
  <2> QED
    BY <1>2, <2>1, <2>3, <2>4 DEF learn, TypeOK
<1>3. ASSUME Decide PROVE TypeOK'
  <2>1. remaining' \in Seq(PortIds)
    BY <1>3, DecidedPorts
  <2>2. Len(remaining') \in Nat
    BY <2>1, LenProperties
  <2>3. planned' \in Nat
    BY <1>3, <2>2 DEF Decide, TypeOK
  <2>4. wpc = "decide" /\ wpc' = "transmit"
        /\ UNCHANGED <<entries, up, pkt, counterVars, packets, reading, lastSeen>>
    BY <1>3 DEF Decide
  <2> QED
    BY <2>1, <2>3, <2>4 DEF TypeOK
<1>4. ASSUME transmit PROVE TypeOK'
  <2>1. remaining' \in Seq(PortIds)
    BY <1>4, HeadTailProperties DEF transmit, TypeOK
  <2>2. tx_packets' \in Nat /\ tx_failed' \in Nat /\ backend_unavailable' \in Nat
    BY <1>4 DEF transmit, TypeOK
  <2>3. /\ wpc \in {"transmit", "unavailable"} /\ wpc' = "transmit"
        /\ UNCHANGED <<entries, up, pkt, action, packets, reading, historyVars>>
    BY <1>4 DEF transmit
  <2> QED
    BY <2>1, <2>2, <2>3 DEF TypeOK
<1>5. ASSUME PublishDecision PROVE TypeOK'
  BY <1>5 DEF TypeOK, PublishDecision
<1>6. ASSUME NEW current \in Ticks, NEW max_age \in Ticks, ageOut(current, max_age)
      PROVE  TypeOK'
  <2> DEFINE gone == AgedOut(entries, current, max_age)
  <2>1. entries' = [m \in DOMAIN entries \ gone |-> entries[m]]
    BY <1>6 DEF ageOut, Without
  <2>2. DOMAIN entries' = DOMAIN entries \ gone
    BY <2>1
  <2> HIDE DEF gone
  <2>3. Table(entries')
    BY <2>1, <2>2 DEF Table, TypeOK
  <2>4. IsFiniteSet(DOMAIN entries')
    BY <2>2, FS_Subset DEF TypeOK
  <2> QED
    BY <1>6, <2>3, <2>4 DEF ageOut, TypeOK
<1>7. ASSUME NEW port \in PortIds, NEW isNowUp \in BOOLEAN, setState(port, isNowUp)
      PROVE  TypeOK'
  BY <1>7 DEF TypeOK, setState
<1>8. ASSUME resetCounters PROVE TypeOK'
  BY <1>8 DEF TypeOK, resetCounters
<1>9. ASSUME handleTransportStats PROVE TypeOK'
  <2>1. tx_packets + tx_failed \in Nat
    BY DEF TypeOK
  <2> QED
    BY <1>9, <2>1 DEF TypeOK, handleTransportStats
<1>10. ASSUME AnswerTransportStats PROVE TypeOK'
  BY <1>10 DEF TypeOK, AnswerTransportStats
<1>11. ASSUME NoBackend PROVE TypeOK'
  BY <1>11 DEF TypeOK, NoBackend
<1>12. CASE UNCHANGED vars
  BY <1>12 DEF TypeOK, vars
<1> QED
  BY <1>1, <1>2, <1>3, <1>4, <1>5, <1>6, <1>7, <1>8, <1>9, <1>10, <1>11, <1>12
     DEF Next, Worker

\* The initial state has the types.
LEMMA TypeInit ==
    ASSUME Init PROVE TypeOK
<1>1. DOMAIN entries = {} /\ DOMAIN lastSeen = {}
  BY DEF Init, NoEntries
<1>2. IsFiniteSet(DOMAIN entries)
  BY <1>1, FS_EmptySet
<1> QED
  BY <1>1, <1>2 DEF Init, TypeOK, Table

\* The variables of the forwarding path keep their types: the table maps
\* addresses to ports and ticks, what remains to be transmitted on is a
\* sequence of ports, and the counters are natural numbers.
THEOREM TypeCorrect == Spec => []TypeOK
<1>1. Init => TypeOK
  BY TypeInit
<1>2. TypeOK /\ [Next]_vars => TypeOK'
  BY TypeStep
<1> QED
  BY <1>1, <1>2, PTL DEF Spec

-----------------------------------------------------------------------------
(* The MAC table.                                                          *)

\* The latest port wins, in a table that does not outgrow its capacity: with
\* capacity 0 nothing is learned, and an entry would go stale.
TableInv ==
    /\ LatestPortWins
    /\ Cardinality(DOMAIN entries) =< capacity

\* A table that is not empty has a member no other is older than.
LEMMA OldestIsOldest ==
    ASSUME NEW f, Table(f), DOMAIN f # {}
    PROVE  /\ Oldest(f) \in DOMAIN f
           /\ \A k \in DOMAIN f : Older(f, Oldest(f), k)
<1> DEFINE tick(m) == f[m].last_seen_tick
           ticks == {tick(m) : m \in DOMAIN f}
<1>1. \A m \in DOMAIN f : tick(m) \in Nat /\ m \in Nat
  BY SwitchAssumption DEF Table, Entries
<1>2. ticks \in SUBSET Nat /\ ticks # {}
  BY <1>1
<1>3. PICK t \in ticks : \A u \in ticks : t =< u
  BY <1>2, LeastNatural
<1> DEFINE first == {m \in DOMAIN f : tick(m) = t}
<1>4. first \in SUBSET Nat /\ first # {}
  BY <1>1, <1>3
<1>5. PICK m \in first : \A k \in first : m =< k
  BY <1>4, LeastNatural
<1>6. ASSUME NEW k \in DOMAIN f PROVE Older(f, m, k)
  <2>1. tick(m) = t /\ tick(m) =< tick(k) /\ tick(m) \in Nat /\ tick(k) \in Nat
    BY <1>1, <1>3, <1>5
  <2>2. CASE tick(m) = tick(k)
    BY <2>1, <2>2, <1>5 DEF Older
  <2>3. CASE tick(m) # tick(k)
    <3>1. tick(m) < tick(k)
      BY <2>1, <2>3
    <3> QED
      BY <3>1 DEF Older
  <2> QED
    BY <2>2, <2>3
<1> QED
  BY <1>5, <1>6 DEF Oldest

\* Learning one address: what may go, and what the table's size becomes.
LEMMA LearnEvicts ==
    ASSUME NEW f, Table(f), IsFiniteSet(DOMAIN f),
           Cardinality(DOMAIN f) =< capacity, NEW mac, NEW port, NEW tick
    PROVE  LET g == Learned(f, mac, port, tick)
               evicted == DOMAIN f \ DOMAIN g
           IN  /\ evicted # {} => mac \notin DOMAIN f /\ Full(f)
               /\ Cardinality(evicted) =< 1
               /\ \A m \in evicted : \A k \in DOMAIN f : Older(f, m, k)
               /\ capacity # 0 => mac \in DOMAIN g
               /\ Cardinality(DOMAIN g) =< capacity
<1> DEFINE g == Learned(f, mac, port, tick)
           evicted == DOMAIN f \ DOMAIN g
<1>0. capacity \in Nat /\ Cardinality(DOMAIN f) \in Nat
  BY SwitchAssumption, FS_CardinalityType
<1>1. CASE capacity = 0
  <2>1. g = f
    BY <1>1 DEF Learned
  <2>2. evicted = {}
    BY <2>1
  <2> QED
    BY <1>1, <2>1, <2>2, FS_EmptySet
<1>2. ASSUME capacity # 0 PROVE DOMAIN g = Kept(f, mac) \cup {mac}
  BY <1>2 DEF Learned
<1>3. CASE capacity # 0 /\ (mac \in DOMAIN f \/ ~Full(f))
  <2>1. DOMAIN g = DOMAIN f \cup {mac}
    BY <1>2, <1>3 DEF Kept
  <2>2. evicted = {}
    BY <2>1
  <2>3. Cardinality(DOMAIN g) =< capacity
    <3>1. CASE mac \in DOMAIN f
      <4>1. DOMAIN g = DOMAIN f
        BY <2>1, <3>1
      <4> QED
        BY <4>1
    <3>2. CASE mac \notin DOMAIN f
      <4>1. Cardinality(DOMAIN f \cup {mac}) = Cardinality(DOMAIN f) + 1
        BY <3>2, FS_AddElement
      <4>2. ~(Cardinality(DOMAIN f) >= capacity)
        BY <1>3, <3>2 DEF Full
      <4> HIDE DEF g
      <4> QED
        BY <1>0, <2>1, <4>1, <4>2
    <3> QED
      BY <3>1, <3>2
  <2> QED
    BY <2>1, <2>2, <2>3, FS_EmptySet
<1>4. CASE capacity # 0 /\ mac \notin DOMAIN f /\ Full(f)
  <2> DEFINE o == Oldest(f)
  <2>1. DOMAIN g = (DOMAIN f \ {o}) \cup {mac}
    BY <1>2, <1>4 DEF Kept
  <2>2. DOMAIN f # {}
    BY <1>0, <1>4, FS_EmptySet DEF Full
  <2>3. o \in DOMAIN f /\ \A k \in DOMAIN f : Older(f, o, k)
    BY <2>2, OldestIsOldest
  <2> HIDE DEF o, g
  <2>4. evicted = {o}
    BY <1>4, <2>1, <2>3
  <2>5. Cardinality(evicted) = 1
    BY <2>4, FS_Singleton
  <2>6. Cardinality(DOMAIN f \ {o}) = Cardinality(DOMAIN f) - 1
        /\ IsFiniteSet(DOMAIN f \ {o})
    BY <2>3, FS_RemoveElement
  <2>7. Cardinality((DOMAIN f \ {o}) \cup {mac}) = Cardinality(DOMAIN f \ {o}) + 1
    BY <1>4, <2>6, FS_AddElement
  <2>8. Cardinality(DOMAIN g) =< capacity
    BY <1>0, <2>1, <2>6, <2>7
  <2>9. mac \in DOMAIN g
    BY <2>1
  <2> QED
    BY <1>4, <2>3, <2>4, <2>5, <2>8, <2>9 DEF g
<1> QED
  BY <1>1, <1>3, <1>4

\* Every step keeps the table's invariant.
LEMMA TableStep ==
    ASSUME TypeOK, TableInv, [Next]_vars PROVE TableInv'
<1> USE DEF counterVars, decisionVars, historyVars
<1>1. ASSUME UNCHANGED <<entries, lastSeen>> PROVE TableInv'
  BY <1>1 DEF TableInv, LatestPortWins
<1>2. ASSUME learn PROVE TableInv'
  <2> DEFINE new == Entry(pkt.ingress, pkt.tick)
  <2>1. pkt \in Traffic /\ None \notin {pkt.src, pkt.dst}
    BY <1>2 DEF learn, TypeOK
  <2>2. pkt.src \in Macs /\ new \in Entries
    BY <2>1, PacketFields
  <2>3. entries' = Learned(entries, pkt.src, pkt.ingress, pkt.tick)
    BY <1>2 DEF learn
  <2>4. Cardinality(DOMAIN entries') =< capacity
    BY <2>3, LearnEvicts DEF TypeOK, TableInv
  <2>5. \A m \in DOMAIN entries' :
          \/ m = pkt.src /\ entries'[m] = new
          \/ capacity # 0 /\ m # pkt.src /\ m \in DOMAIN entries
             /\ entries'[m] = entries[m]
          \/ capacity = 0 /\ m \in DOMAIN entries /\ entries'[m] = entries[m]
    BY <2>2, <2>3, LearnedTable DEF TypeOK
  <2>6. lastSeen' = [m \in DOMAIN lastSeen \cup {pkt.src} |->
                       IF m = pkt.src THEN new ELSE lastSeen[m]]
    BY <1>2 DEF learn
  <2>7. capacity = 0 => DOMAIN entries = {}
    <3>1. Cardinality(DOMAIN entries) \in Nat
      BY FS_CardinalityType DEF TypeOK
    <3>2. capacity = 0 => Cardinality(DOMAIN entries) = 0
      BY <3>1 DEF TableInv
    <3> QED
      BY <3>2, FS_EmptySet DEF TypeOK
  <2> HIDE DEF new
  <2>8. LatestPortWins'
    BY <2>5, <2>6, <2>7 DEF LatestPortWins, TableInv
  <2> QED
    BY <2>4, <2>8 DEF TableInv
<1>3. ASSUME NEW current \in Ticks, NEW max_age \in Ticks, ageOut(current, max_age)
      PROVE  TableInv'
  <2> DEFINE gone == AgedOut(entries, current, max_age)
  <2>1. entries' = [m \in DOMAIN entries \ gone |-> entries[m]]
        /\ lastSeen' = lastSeen
    BY <1>3 DEF ageOut, Without
  <2> HIDE DEF gone
  <2>2. DOMAIN entries' = DOMAIN entries \ gone
    BY <2>1
  <2>3. LatestPortWins'
    BY <2>1, <2>2 DEF LatestPortWins, TableInv
  <2>4. Cardinality(DOMAIN entries') \in Nat /\ Cardinality(DOMAIN entries) \in Nat
        /\ Cardinality(DOMAIN entries') =< Cardinality(DOMAIN entries)
    BY <2>2, FS_Subset, FS_CardinalityType DEF TypeOK
  <2>5. Cardinality(DOMAIN entries') =< capacity
    BY <2>4, SwitchAssumption DEF TableInv
  <2> QED
    BY <2>3, <2>5 DEF TableInv
<1>4. learn \/ UNCHANGED <<entries, lastSeen>>
      \/ \E current \in Ticks, max_age \in Ticks : ageOut(current, max_age)
  BY DEF Next, vars, Worker, Begin, Decide, NoBackend, transmit, PublishDecision,
         setState, resetCounters, handleTransportStats, AnswerTransportStats
<1> QED
  BY <1>1, <1>2, <1>3, <1>4

\* The invariant of the table.
LEMMA TableSafe == Spec => [](TypeOK /\ TableInv)
<1>1. Init => TypeOK /\ TableInv
  <2> SUFFICES ASSUME Init PROVE TypeOK /\ TableInv
    OBVIOUS
  <2>1. DOMAIN entries = {}
    BY DEF Init, NoEntries
  <2>2. Cardinality(DOMAIN entries) =< capacity
    BY <2>1, FS_EmptySet, SwitchAssumption
  <2> QED
    BY <2>1, <2>2, TypeInit DEF TableInv, LatestPortWins
<1>2. TypeOK /\ TableInv /\ [Next]_vars => (TypeOK /\ TableInv)'
  BY TypeStep, TableStep
<1> QED
  BY <1>1, <1>2, PTL DEF Spec

\* Whatever was learned, moved, evicted or aged out, an entry of MacTable says
\* where its address was seen last.
THEOREM LatestPortWinsCorrect == Spec => []LatestPortWins
<1>1. TableInv => LatestPortWins
  BY DEF TableInv
<1> QED
  BY <1>1, TableSafe, PTL

\* MacTable::learn evicts at most one entry, only from a full table and only
\* for an address that is not in it; it evicts the oldest; and the table never
\* outgrows its capacity.
THEOREM EvictionIsOldestCorrect == Spec => EvictionIsOldest
<1> DEFINE evicted == DOMAIN entries \ DOMAIN entries'
           Evicts == /\ evicted # {} => pkt.src \notin DOMAIN entries /\ Full(entries)
                     /\ Cardinality(evicted) =< 1
                     /\ \A m \in evicted : \A k \in DOMAIN entries :
                           Older(entries, m, k)
                     /\ capacity # 0 => pkt.src \in DOMAIN entries'
                     /\ Cardinality(DOMAIN entries') =< capacity
<1>1. TypeOK /\ TableInv => [learn => Evicts]_vars
  <2> SUFFICES ASSUME TypeOK, TableInv, learn PROVE Evicts
    OBVIOUS
  <2>1. entries' = Learned(entries, pkt.src, pkt.ingress, pkt.tick)
    BY DEF learn
  <2>2. Table(entries) /\ IsFiniteSet(DOMAIN entries)
        /\ Cardinality(DOMAIN entries) =< capacity
    BY DEF TypeOK, TableInv
  <2> QED
    BY <2>1, <2>2, LearnEvicts
<1> QED
  BY <1>1, TableSafe, PTL DEF EvictionIsOldest

-----------------------------------------------------------------------------
(* The egress ports.                                                       *)

\* Nothing remains to be transmitted on outside the transmit loop, where no
\* port changes its state and nothing is learned.
EgressInv ==
    /\ EgressSound
    /\ wpc \notin {"transmit", "unavailable"} => remaining = <<>>

\* Nothing to transmit on is sound.
LEMMA NothingRemains ==
    ASSUME remaining = <<>> PROVE EgressSound
<1>1. Len(remaining) = 0
  BY EmptySeq
<1>2. 1..Len(remaining) = {}
  BY <1>1
<1> QED
  BY <1>2 DEF EgressSound

\* Every step keeps the egress ports sound.
LEMMA EgressStep ==
    ASSUME TypeOK, TableInv, EgressInv, [Next]_vars PROVE EgressInv'
<1> USE DEF counterVars, decisionVars, historyVars
<1>1. ASSUME remaining' = <<>> PROVE EgressInv'
  <2>1. Len(remaining') = 0
    BY <1>1
  <2>2. 1..Len(remaining') = {}
    BY <2>1
  <2>3. EgressSound'
    BY <2>2 DEF EgressSound
  <2> QED
    BY <1>1, <2>3 DEF EgressInv
<1>2. ASSUME UNCHANGED <<remaining, up, pkt, action, lastSeen, wpc>>
      PROVE  EgressInv'
  BY <1>2 DEF EgressInv, EgressSound
<1>3. ASSUME NEW p \in Traffic, Begin(p) PROVE EgressInv'
  <2>1. remaining' = <<>>
    BY <1>3 DEF Begin, EgressInv
  <2> QED
    BY <1>1, <2>1
<1>4. ASSUME learn PROVE EgressInv'
  <2>1. remaining' = <<>>
    BY <1>4 DEF learn, EgressInv
  <2> QED
    BY <1>1, <2>1
<1>5. ASSUME Decide PROVE EgressInv'
  <2>1. wpc' = "transmit" /\ UNCHANGED <<up, pkt, lastSeen>>
    BY <1>5 DEF Decide
  <2>2. CASE remaining' = <<>>
    BY <1>1, <2>2
  <2>3. CASE /\ remaining' = Ascending(FloodPorts)
             /\ Ascending(FloodPorts) \in Seq(FloodPorts)
    <3>1. ASSUME NEW i \in 1..Len(remaining') PROVE remaining'[i] \in FloodPorts
      BY <2>3, <3>1, ElementOfSeq
    <3>2. ASSUME NEW i \in 1..Len(remaining')
          PROVE  remaining'[i] \in up' /\ remaining'[i] # pkt'.ingress
      BY <2>1, <3>1 DEF FloodPorts
    <3> QED
      BY <2>1, <3>2 DEF EgressInv, EgressSound
  <2>4. CASE /\ KnownUnicast /\ isUp(entries[pkt.dst].port_id)
             /\ action' = "ForwardToPorts"
             /\ remaining' = <<entries[pkt.dst].port_id>>
    <3>1. pkt.dst \in DOMAIN lastSeen /\ entries[pkt.dst] = lastSeen[pkt.dst]
      BY <2>4 DEF KnownUnicast, TableInv, LatestPortWins
    <3>2. ASSUME NEW i \in 1..Len(remaining')
          PROVE  remaining'[i] = lastSeen[pkt.dst].port_id
      BY <2>4, <3>1, <3>2
    <3>3. lastSeen[pkt.dst].port_id \in up
      BY <2>4, <3>1 DEF isUp
    <3> QED
      BY <2>1, <2>4, <3>1, <3>2, <3>3 DEF EgressInv, EgressSound
  <2> QED
    BY <1>5, <2>2, <2>3, <2>4, DecidedPorts
<1>6. ASSUME transmit PROVE EgressInv'
  <2>1. remaining # <<>> /\ remaining' = Tail(remaining)
        /\ wpc' = "transmit" /\ UNCHANGED <<up, pkt, action, lastSeen>>
    BY <1>6 DEF transmit
  <2>2. Len(remaining) \in Nat /\ Len(remaining') = Len(remaining) - 1
        /\ \A i \in 1..Len(remaining') : remaining'[i] = remaining[i + 1]
    BY <2>1, HeadTailProperties, LenProperties DEF TypeOK
  <2>3. ASSUME NEW i \in 1..Len(remaining') PROVE i + 1 \in 1..Len(remaining)
    BY <2>2
  <2>4. EgressSound'
    BY <2>1, <2>2, <2>3 DEF EgressInv, EgressSound
  <2> QED
    BY <2>1, <2>4 DEF EgressInv
<1>7. ASSUME PublishDecision PROVE EgressInv'
  BY <1>1, <1>7 DEF PublishDecision
<1>8. ASSUME NEW port \in PortIds, NEW isNowUp \in BOOLEAN, setState(port, isNowUp)
      PROVE  EgressInv'
  <2>1. remaining' = <<>>
    BY <1>8 DEF setState, EgressInv
  <2> QED
    BY <1>1, <2>1
<1>9. ASSUME NEW current \in Ticks, NEW max_age \in Ticks, ageOut(current, max_age)
      PROVE  EgressInv'
  BY <1>2, <1>9 DEF ageOut
<1>10. CASE resetCounters
  BY <1>2, <1>10 DEF resetCounters
<1>11. CASE handleTransportStats \/ AnswerTransportStats
  BY <1>2, <1>11 DEF handleTransportStats, AnswerTransportStats
<1>12. CASE NoBackend
  BY <1>12 DEF NoBackend, EgressInv, EgressSound
<1>13. CASE UNCHANGED vars
  BY <1>2, <1>13 DEF vars
<1> QED
  BY <1>3, <1>4, <1>5, <1>6, <1>7, <1>8, <1>9, <1>10, <1>11, <1>12, <1>13
     DEF Next, Worker

\* The forwarding engine sends a packet only through ports that are up, and
\* back through its ingress port only if the destination was last seen there.
THEOREM EgressSoundCorrect == Spec => []EgressSound
<1>1. Init => EgressInv
  BY NothingRemains DEF Init, EgressInv
<1>2. TypeOK /\ TableInv /\ EgressInv /\ [Next]_vars => EgressInv'
  BY EgressStep
<1>3. EgressInv => EgressSound
  BY DEF EgressInv
<1> QED
  BY <1>1, <1>2, <1>3, TableSafe, PTL DEF Spec

-----------------------------------------------------------------------------
(* The transport counters.                                                 *)

\* What transport-stats has read of tx_packets is no more than the counter:
\* it is not reset while the command is under way.
LedgerInv ==
    /\ TransportLedger
    /\ \A seen \in reading : seen.tx_packets =< tx_packets

\* Every step keeps the counters adding up.
LEMMA LedgerStep ==
    ASSUME TypeOK, EgressInv, LedgerInv, [Next]_vars PROVE LedgerInv'
<1> USE DEF counterVars, decisionVars, historyVars
<1>0. Len(remaining) \in Nat
  BY LenProperties DEF TypeOK
<1>1. ASSUME UNCHANGED <<counterVars, remaining, planned>>, reading' \subseteq reading,
             HalfCounted' = HalfCounted
      PROVE  LedgerInv'
  BY <1>1 DEF LedgerInv, TransportLedger
<1>2. ASSUME NEW p \in Traffic, Begin(p) PROVE LedgerInv'
  <2>1. remaining' = <<>> /\ remaining = <<>>
    BY <1>2 DEF Begin, EgressInv
  <2> QED
    BY <1>1, <1>2, <2>1 DEF Begin, HalfCounted
<1>3. ASSUME Decide PROVE LedgerInv'
  <2>1. remaining = <<>> /\ planned' = planned + Len(remaining')
        /\ HalfCounted = 0 /\ HalfCounted' = 0
        /\ UNCHANGED <<counterVars, reading>>
    BY <1>3 DEF Decide, EgressInv, HalfCounted
  <2>2. remaining' \in Seq(PortIds)
    BY <1>3, DecidedPorts
  <2>3. Len(remaining') \in Nat /\ Len(remaining) = 0
    BY <2>1, <2>2, LenProperties
  <2>4. tx_packets' + tx_failed' + Len(remaining') = planned'
        /\ backend_unavailable' =< tx_failed' + HalfCounted'
    BY <2>1, <2>3 DEF LedgerInv, TransportLedger, TypeOK
  <2>5. ASSUME NEW seen \in reading'
        PROVE  /\ seen.tx_packets + tx_failed' \in seen.floor..planned'
               /\ seen.tx_packets =< tx_packets'
    <3>1. seen \in reading /\ seen.tx_packets \in Nat /\ seen.floor \in Nat
          /\ seen.tx_packets + tx_failed \in seen.floor..planned
      BY <2>1, <2>5 DEF LedgerInv, TransportLedger, TypeOK
    <3> QED
      BY <2>1, <2>3, <3>1 DEF TypeOK, LedgerInv
  <2> QED
    BY <2>4, <2>5 DEF LedgerInv, TransportLedger
<1>4. ASSUME transmit PROVE LedgerInv'
  <2>1. remaining # <<>> /\ remaining' = Tail(remaining)
        /\ UNCHANGED <<reading, planned>>
    BY <1>4 DEF transmit
  <2>2. Len(remaining') = Len(remaining) - 1 /\ Len(remaining) > 0
    BY <1>0, <2>1, HeadTailProperties, EmptySeq DEF TypeOK
  <2>3. /\ \/ tx_packets' = tx_packets + 1 /\ tx_failed' = tx_failed /\ HalfCounted = 0
           \/ tx_packets' = tx_packets /\ tx_failed' = tx_failed + 1
        /\ backend_unavailable' = backend_unavailable /\ HalfCounted' = 0
        /\ HalfCounted \in {0, 1}
    BY <1>4 DEF transmit, HalfCounted
  <2>4. /\ tx_packets' + tx_failed' + Len(remaining') = planned'
        /\ backend_unavailable' =< tx_failed' + HalfCounted'
    BY <1>0, <2>1, <2>2, <2>3 DEF LedgerInv, TransportLedger, TypeOK
  <2>5. ASSUME NEW seen \in reading'
        PROVE  /\ seen.tx_packets + tx_failed' \in seen.floor..planned'
               /\ seen.tx_packets =< tx_packets'
    <3>1. seen \in reading /\ seen.tx_packets \in Nat /\ seen.floor \in Nat
          /\ seen.tx_packets + tx_failed \in seen.floor..planned
          /\ seen.tx_packets =< tx_packets
      BY <2>1, <2>5 DEF LedgerInv, TransportLedger, TypeOK
    <3>2. tx_packets + tx_failed + Len(remaining) = planned
      BY DEF LedgerInv, TransportLedger
    <3>3. tx_packets \in Nat /\ tx_failed \in Nat /\ planned \in Nat
      BY DEF TypeOK
    <3>4. CASE tx_packets' = tx_packets + 1 /\ tx_failed' = tx_failed
      BY <2>1, <3>1, <3>3, <3>4
    <3>5. CASE tx_packets' = tx_packets /\ tx_failed' = tx_failed + 1
      BY <1>0, <2>1, <2>2, <3>1, <3>2, <3>3, <3>5
    <3> QED
      BY <2>3, <3>4, <3>5
  <2> QED
    BY <2>4, <2>5 DEF LedgerInv, TransportLedger
<1>5. ASSUME PublishDecision PROVE LedgerInv'
  <2>1. remaining' = <<>> /\ remaining = <<>>
    BY <1>5 DEF PublishDecision, EgressInv
  <2> QED
    BY <1>1, <1>5, <2>1 DEF PublishDecision, HalfCounted
<1>6. ASSUME resetCounters PROVE LedgerInv'
  <2>1. remaining = <<>> /\ remaining' = remaining /\ reading' = {}
        /\ tx_packets' = 0 /\ tx_failed' = 0 /\ backend_unavailable' = 0
        /\ planned' = 0 /\ HalfCounted' = 0
    BY <1>6 DEF resetCounters, EgressInv, HalfCounted
  <2>2. Len(remaining') = 0
    BY <2>1
  <2> QED
    BY <2>1, <2>2 DEF LedgerInv, TransportLedger
<1>7. ASSUME handleTransportStats PROVE LedgerInv'
  <2> DEFINE read == [tx_packets |-> tx_packets, floor |-> tx_packets + tx_failed]
  <2>1. reading' = {read} /\ UNCHANGED <<counterVars, remaining, planned>>
        /\ HalfCounted' = HalfCounted
    BY <1>7 DEF handleTransportStats, HalfCounted
  <2>2. read.tx_packets = tx_packets /\ read.floor = tx_packets + tx_failed
    OBVIOUS
  <2> HIDE DEF read
  <2>3. ASSUME NEW seen \in reading'
        PROVE  /\ seen.tx_packets + tx_failed' \in seen.floor..planned'
               /\ seen.tx_packets =< tx_packets'
    <3>1. seen.tx_packets = tx_packets /\ seen.floor = tx_packets + tx_failed
      BY <2>1, <2>2, <2>3
    <3>2. tx_packets + tx_failed + Len(remaining) = planned
      BY DEF LedgerInv, TransportLedger
    <3> QED
      BY <1>0, <2>1, <3>1, <3>2 DEF TypeOK
  <2> QED
    BY <2>1, <2>3 DEF LedgerInv, TransportLedger
<1>8. CASE AnswerTransportStats
  BY <1>1, <1>8 DEF AnswerTransportStats, HalfCounted
<1>9. CASE learn
  BY <1>1, <1>9 DEF learn, HalfCounted
<1>10. ASSUME NEW port \in PortIds, NEW isNowUp \in BOOLEAN, setState(port, isNowUp)
       PROVE  LedgerInv'
  BY <1>1, <1>10 DEF setState, HalfCounted
<1>11. ASSUME NEW current \in Ticks, NEW max_age \in Ticks, ageOut(current, max_age)
       PROVE  LedgerInv'
  BY <1>1, <1>11 DEF ageOut, HalfCounted
<1>12. CASE UNCHANGED vars
  BY <1>1, <1>12 DEF vars, HalfCounted
<1>13. ASSUME NoBackend PROVE LedgerInv'
  <2>1. /\ UNCHANGED <<tx_packets, tx_failed, remaining, planned, reading>>
        /\ backend_unavailable' = backend_unavailable + 1
        /\ HalfCounted = 0 /\ HalfCounted' = 1
    BY <1>13 DEF NoBackend, HalfCounted
  <2>2. backend_unavailable' =< tx_failed' + HalfCounted'
    BY <2>1 DEF LedgerInv, TransportLedger, TypeOK
  <2> QED
    BY <2>1, <2>2 DEF LedgerInv, TransportLedger
<1> QED
  BY <1>2, <1>3, <1>4, <1>5, <1>6, <1>7, <1>8, <1>9, <1>10, <1>11, <1>12, <1>13
     DEF Next, Worker

\* Every egress port of every decision ends in TransportManager's counters or
\* is still to be transmitted on, and a transport-stats answer, read without
\* a lock, stays between what was done and what was decided.
THEOREM TransportLedgerCorrect == Spec => []TransportLedger
<1>1. Init => EgressInv /\ LedgerInv
  <2> SUFFICES ASSUME Init PROVE EgressInv /\ LedgerInv
    OBVIOUS
  <2>1. Len(remaining) = 0
    BY DEF Init
  <2> QED
    BY <2>1, NothingRemains DEF Init, EgressInv, LedgerInv, TransportLedger, HalfCounted
<1>2. TypeOK /\ TableInv /\ EgressInv /\ [Next]_vars => EgressInv'
  BY EgressStep
<1>3. TypeOK /\ EgressInv /\ LedgerInv /\ [Next]_vars => LedgerInv'
  BY LedgerStep
<1>4. LedgerInv => TransportLedger
  BY DEF LedgerInv
<1> QED
  BY <1>1, <1>2, <1>3, <1>4, TableSafe, PTL DEF Spec
=============================================================================
