---------------------------- MODULE ReplayProofs ----------------------------
(***************************************************************************)
(* Proofs about Replay, and through it about PacketProcessor's hand-off,   *)
(* for any number of publishers and packets, every queue limit, every set  *)
(* of lifecycle rules and every set of packets that the worker refuses.    *)
(***************************************************************************)
EXTENDS Replay, SequenceTheorems, FiniteSetTheorems, TLAPS

Records  == [sequence : Nat, packet : Nat]

OutcomeTypes == {"Processed", "ValidationError", "Injected", "QueueOverflow"}
Outcomes == [sequence : Nat, lifecycle_id : Nat, type : OutcomeTypes]

TypeOK ==
    /\ queue \in Seq(Nat)
    /\ ppc \in [Publishers -> {"idle", "record", "inject", "admit", "drop", "notify"}]
    /\ ppacket \in [Publishers -> Nat]
    /\ wpc \in {"lock", "predicate", "wait", "blocked", "process", "done"}
    /\ wpacket \in Nat
    /\ dpc \in {"alive", "notify", "join", "gone"}
    /\ next \in Nat \ {0}
    /\ admitted \in Seq(Nat) /\ processed \in Seq(Nat)
    /\ stage \in {"original", "replay"}
    /\ record_sequence \in Nat /\ records \in Seq(Records)
    /\ outcome_sequence \in Nat /\ outcomes \in Seq(Outcomes)
    /\ taken \in [Publishers \cup {Worker0} -> Nat \cup {NoSequence}]
    /\ prior \in SUBSET (Nat \X Nat)

\* What the worker makes of a packet.
Verdict(n) == IF n \in refused THEN "ValidationError" ELSE "Processed"

\* The worker either takes a number for its outcome or pushes the outcome that
\* its verdict calls for.
LEMMA WorkerPublishes ==
    ASSUME recordProcessed \/ recordRefused
    PROVE  \/ wpc = "process" /\ TakeOutcomeSequence(Worker0)
           \/ processPacket /\ PushOutcome(Worker0, wpacket, Verdict(wpacket))
<1>1. ASSUME NEW kind, WorkerOutcome(kind), kind = Verdict(wpacket)
      PROVE  \/ wpc = "process" /\ TakeOutcomeSequence(Worker0)
             \/ processPacket /\ PushOutcome(Worker0, wpacket, Verdict(wpacket))
  BY <1>1 DEF WorkerOutcome
<1>2. CASE recordProcessed
  BY <1>1, <1>2 DEF recordProcessed, Verdict
<1>3. CASE recordRefused
  BY <1>1, <1>3 DEF recordRefused, Verdict
<1> QED
  BY <1>2, <1>3

\* A verdict is one of the outcomes that come after the queue.
LEMMA VerdictType ==
    \A n : Verdict(n) \in AfterQueue /\ Verdict(n) \in OutcomeTypes
BY DEF Verdict, AfterQueue, OutcomeTypes

\* The initial state is well typed.
LEMMA TypeInit == RInit => TypeOK
<1> SUFFICES ASSUME RInit PROVE TypeOK
  OBVIOUS
<1>1. /\ queue \in Seq(Nat) /\ admitted \in Seq(Nat) /\ processed \in Seq(Nat)
      /\ records \in Seq(Records) /\ outcomes \in Seq(Outcomes)
  BY EmptySeq DEF RInit, Init
<1> QED
  BY <1>1 DEF RInit, Init, TypeOK

\* Every step of a runtime preserves the types.
LEMMA TypeStep == TypeOK /\ [RNext]_allVars => TypeOK'
<1> SUFFICES ASSUME TypeOK, [RNext]_allVars PROVE TypeOK'
  OBVIOUS
<1> USE DEF allVars, vars, pubVars, resultVars, replayVars, policyVars,
            recorderVars, collectorVars, TypeOK
<1>1. ASSUME NEW p \in Publishers, PublishRx(p) PROVE TypeOK'
  <2>1. prior' \in SUBSET (Nat \X Nat)
    BY <1>1 DEF PublishRx
  <2> QED
    BY <1>1, <2>1 DEF PublishRx
<1>2. ASSUME NEW p \in Publishers, TakeSequence(p) PROVE TypeOK'
  BY <1>2 DEF TakeSequence
<1>3. ASSUME NEW p \in Publishers, AppendRecord(p) PROVE TypeOK'
  <2>1. [sequence |-> taken[p], packet |-> ppacket[p]] \in Records
    BY <1>3 DEF AppendRecord, Records
  <2>2. records' \in Seq(Records)
    BY <1>3, <2>1, AppendProperties DEF AppendRecord
  <2>3. /\ ppc' \in [Publishers -> {"idle", "record", "inject", "admit", "drop", "notify"}]
        /\ taken' \in [Publishers \cup {Worker0} -> Nat \cup {NoSequence}]
    BY <1>3 DEF AppendRecord, Admission
  <2> QED
    BY <1>3, <2>2, <2>3 DEF AppendRecord
<1>4. ASSUME NEW p \in Publishers, Silent(Admit(p)) PROVE TypeOK'
  <2>1. queue' \in Seq(Nat) /\ admitted' \in Seq(Nat)
    <3>1. /\ Append(queue, ppacket[p]) \in Seq(Nat)
          /\ Append(admitted, ppacket[p]) \in Seq(Nat)
      BY AppendProperties
    <3>2. \/ queue' = queue /\ admitted' = admitted
          \/ /\ queue' = Append(queue, ppacket[p])
             /\ admitted' = Append(admitted, ppacket[p])
      BY <1>4 DEF Silent, Admit
    <3> QED
      BY <3>1, <3>2
  <2>2. ppc' \in [Publishers -> {"idle", "record", "inject", "admit", "drop", "notify"}]
    BY <1>4 DEF Silent, Admit
  <2> QED
    BY <1>4, <2>1, <2>2 DEF Silent, Admit
<1>5. ASSUME NEW p \in Publishers, Silent(Notify(p)) PROVE TypeOK'
  BY <1>5 DEF Silent, Notify, Wake
<1>6. ASSUME NEW p \in Publishers, recordDropped(p) PROVE TypeOK'
  <2>1. CASE TakeOutcomeSequence(p)
    BY <2>1 DEF TakeOutcomeSequence
  <2>2. ASSUME NEW kind \in {"Injected", "QueueOverflow"},
               PushOutcome(p, ppacket[p], kind)
        PROVE  /\ outcomes' \in Seq(Outcomes)
               /\ taken' \in [Publishers \cup {Worker0} -> Nat \cup {NoSequence}]
    <3>1. [sequence |-> taken[p], type |-> kind, lifecycle_id |-> ppacket[p]] \in Outcomes
      BY <2>2 DEF PushOutcome, Outcomes, OutcomeTypes
    <3> QED
      BY <2>2, <3>1, AppendProperties DEF PushOutcome
  <2>3. CASE InjectedDrop(p) /\ PushOutcome(p, ppacket[p], "Injected")
    BY <2>2, <2>3 DEF InjectedDrop, PushOutcome
  <2>4. CASE PublishOverflow(p) /\ PushOutcome(p, ppacket[p], "QueueOverflow")
    BY <2>2, <2>4 DEF PublishOverflow, PushOutcome
  <2> QED
    BY <1>6, <2>1, <2>3, <2>4 DEF recordDropped
<1>7. CASE recordProcessed \/ recordRefused
  <2>1. CASE TakeOutcomeSequence(Worker0)
    BY <2>1 DEF TakeOutcomeSequence
  <2>2. CASE processPacket /\ PushOutcome(Worker0, wpacket, Verdict(wpacket))
    <3>1. [sequence |-> taken[Worker0], type |-> Verdict(wpacket),
           lifecycle_id |-> wpacket] \in Outcomes
      BY <2>2, VerdictType DEF PushOutcome, Outcomes
    <3>2. /\ outcomes' \in Seq(Outcomes)
          /\ taken' \in [Publishers \cup {Worker0} -> Nat \cup {NoSequence}]
      BY <2>2, <3>1, AppendProperties DEF PushOutcome
    <3>3. processed' \in Seq(Nat)
      BY <2>2, AppendProperties DEF processPacket
    <3> QED
      BY <2>2, <3>2, <3>3 DEF processPacket, PushOutcome
  <2> QED
    BY <1>7, <2>1, <2>2, WorkerPublishes
<1>8. CASE Silent(Lock)
  BY <1>8 DEF Silent, Lock
<1>9. CASE Silent(Predicate)
  <2>1. queue' \in Seq(Nat) /\ wpacket' \in Nat
    <3>1. CASE queue # <<>>
      <4>1. queue' = Tail(queue) /\ wpacket' = Head(queue)
        BY <1>9, <3>1 DEF Silent, Predicate
      <4> QED
        BY <3>1, <4>1, HeadTailProperties
    <3>2. CASE queue = <<>>
      BY <1>9, <3>2 DEF Silent, Predicate
    <3> QED
      BY <3>1, <3>2
  <2> QED
    BY <1>9, <2>1 DEF Silent, Predicate
<1>10. CASE Silent(Block)
  BY <1>10 DEF Silent, Block
<1>11. CASE Silent(SpuriousWakeup)
  BY <1>11 DEF Silent, SpuriousWakeup
<1>12. CASE Silent(DestroyRuntime)
  BY <1>12 DEF Silent, DestroyRuntime, Destroy
<1>13. CASE Silent(NotifyAll)
  BY <1>13 DEF Silent, NotifyAll, Wake
<1>14. CASE Silent(Join)
  BY <1>14 DEF Silent, Join
<1>15. CASE StartReplay
  <2>1. /\ queue' \in Seq(Nat) /\ admitted' \in Seq(Nat) /\ processed' \in Seq(Nat)
        /\ outcomes' \in Seq(Outcomes)
    BY <1>15, EmptySeq DEF StartReplay
  <2> QED
    BY <1>15, <2>1 DEF StartReplay
<1>16. CASE replay
  <2>1. records[next] \in Records
    BY <1>16, ElementOfSeq DEF replay
  <2>2. records[next].packet \in Nat
    BY <2>1 DEF Records
  <2>3. ppc' \in [Publishers -> {"idle", "record", "inject", "admit", "drop", "notify"}]
    BY <1>16, ReplayAssumption DEF replay, Admission
  <2> QED
    BY <1>16, <2>2, <2>3, ReplayAssumption DEF replay
<1>17. CASE UNCHANGED allVars
  BY <1>17
<1> QED
  BY <1>1, <1>2, <1>3, <1>4, <1>5, <1>6, <1>7, <1>8, <1>9, <1>10, <1>11, <1>12,
     <1>13, <1>14, <1>15, <1>16, <1>17
  DEF RNext, Recorded

\* TypeOK holds of every reachable state of both runtimes.
THEOREM TypeCorrect == RSpec => []TypeOK
BY TypeInit, TypeStep, PTL DEF RSpec
-----------------------------------------------------------------------------
(* The hand-off is a FIFO.                                                 *)

Held == IF Busy THEN <<wpacket>> ELSE <<>>

\* The parts of the line can be joined in either order.
LEMMA LineAssociative ==
    \A a, b, c \in Seq(Nat) : (a \o b) \o c = a \o (b \o c)
BY ConcatAssociative

\* Admission at the end of the line.
LEMMA AppendToLine ==
    ASSUME NEW a \in Seq(Nat), NEW b \in Seq(Nat), NEW x \in Nat
    PROVE  Append(a \o b, x) = a \o Append(b, x)
<1>1. <<x>> \in Seq(Nat) /\ a \o b \in Seq(Nat)
  BY ConcatProperties
<1>2. Append(a \o b, x) = (a \o b) \o <<x>> /\ Append(b, x) = b \o <<x>>
  BY <1>1, AppendIsConcat
<1>3. (a \o b) \o <<x>> = a \o (b \o <<x>>)
  BY <1>1, LineAssociative
<1> QED
  BY <1>2, <1>3

\* The worker taking the head of the queue does not change the line.
LEMMA TakeFromLine ==
    ASSUME NEW a \in Seq(Nat), NEW q \in Seq(Nat), q # <<>>
    PROVE  (a \o <<Head(q)>>) \o Tail(q) = a \o q
<1>1. Head(q) \in Nat /\ Tail(q) \in Seq(Nat) /\ <<Head(q)>> \in Seq(Nat)
  BY HeadTailProperties
<1>2. q = <<Head(q)>> \o Tail(q)
  <2>1. /\ Len(q) \in Nat \ {0} /\ Head(q) = q[1]
        /\ Len(Tail(q)) = Len(q) - 1
        /\ \A i \in 1..Len(Tail(q)) : Tail(q)[i] = q[i + 1]
    BY HeadTailProperties, EmptySeq
  <2>2. /\ <<Head(q)>> \o Tail(q) \in Seq(Nat)
        /\ Len(<<Head(q)>> \o Tail(q)) = 1 + Len(Tail(q))
        /\ \A i \in 1..(1 + Len(Tail(q))) : (<<Head(q)>> \o Tail(q))[i] =
              IF i =< 1 THEN <<Head(q)>>[i] ELSE Tail(q)[i - 1]
    BY <1>1, ConcatProperties
  <2>3. \A i \in 1..Len(q) : q[i] = (<<Head(q)>> \o Tail(q))[i]
    BY <2>1, <2>2
  <2> QED
    BY <2>1, <2>2, <2>3, SeqEqual
<1>3. (a \o <<Head(q)>>) \o Tail(q) = a \o (<<Head(q)>> \o Tail(q))
  BY <1>1, LineAssociative
<1> QED
  BY <1>2, <1>3

\* Every step of a runtime preserves the order of the hand-off.
LEMMA FifoStep == TypeOK /\ HandoffIsFifo /\ [RNext]_allVars => HandoffIsFifo'
<1> SUFFICES ASSUME TypeOK, HandoffIsFifo, [RNext]_allVars PROVE HandoffIsFifo'
  OBVIOUS
<1> USE DEF allVars, vars, pubVars, resultVars
<1>a. /\ queue \in Seq(Nat) /\ processed \in Seq(Nat) /\ wpacket \in Nat
      /\ Held \in Seq(Nat) /\ processed \o Held \in Seq(Nat)
      /\ Len(queue) \in Nat /\ MAX_QUEUE_SIZE \in Nat
  <2>1. /\ queue \in Seq(Nat) /\ processed \in Seq(Nat) /\ wpacket \in Nat
        /\ Len(queue) \in Nat /\ MAX_QUEUE_SIZE \in Nat
    BY SizeAssumption DEF TypeOK
  <2>2. Held \in Seq(Nat)
    BY <2>1 DEF Held
  <2> QED
    BY <2>1, <2>2, ConcatProperties
<1>b. admitted = (processed \o Held) \o queue /\ Len(queue) =< MAX_QUEUE_SIZE
  BY DEF HandoffIsFifo, Held
<1>c. ASSUME admitted' = (processed' \o Held') \o queue',
             Len(queue') =< MAX_QUEUE_SIZE
      PROVE  HandoffIsFifo'
  BY <1>c DEF HandoffIsFifo, Held
<1>1. ASSUME NEW p \in Publishers, Admit(p) PROVE HandoffIsFifo'
  <2>1. UNCHANGED <<processed, wpc, wpacket>> /\ ppacket[p] \in Nat
    BY <1>1 DEF Admit, TypeOK
  <2>2. Held' = Held
    BY <2>1 DEF Held, Busy
  <2>3. CASE queue' = queue /\ admitted' = admitted
    BY <1>b, <1>c, <2>1, <2>2, <2>3
  <2>4. CASE /\ queue' = Append(queue, ppacket[p]) /\ Len(queue) < MAX_QUEUE_SIZE
             /\ admitted' = Append(admitted, ppacket[p])
    <3>1. Append((processed \o Held) \o queue, ppacket[p])
            = (processed \o Held) \o Append(queue, ppacket[p])
      BY <1>a, <2>1, AppendToLine
    <3>2. Len(queue') = Len(queue) + 1
      BY <1>a, <2>1, <2>4, AppendProperties
    <3>3. Len(queue') =< MAX_QUEUE_SIZE
      BY <1>a, <2>4, <3>2
    <3> QED
      BY <1>b, <1>c, <2>1, <2>2, <2>4, <3>1, <3>3
  <2> QED
    BY <1>1, <2>3, <2>4 DEF Admit
<1>2. CASE Predicate
  <2>1. UNCHANGED <<processed, admitted>> /\ Held = <<>>
    BY <1>2 DEF Predicate, Held, Busy
  <2>2. CASE queue # <<>>
    <3>1. queue' = Tail(queue) /\ Held' = <<Head(queue)>>
      BY <1>2, <2>2 DEF Predicate, Held, Busy
    <3>2. processed \o Held = processed
      BY <1>a, <2>1, ConcatEmptySeq
    <3>3. (processed \o <<Head(queue)>>) \o Tail(queue) = processed \o queue
      BY <1>a, <2>2, TakeFromLine
    <3>4. Len(queue') =< MAX_QUEUE_SIZE
      <4>1. Len(queue') = Len(queue) - 1
        BY <1>a, <2>2, <3>1, HeadTailProperties
      <4> QED
        BY <1>a, <1>b, <4>1
    <3> QED
      BY <1>b, <1>c, <2>1, <3>1, <3>2, <3>3, <3>4
  <2>3. CASE queue = <<>>
    <3>1. queue' = queue /\ Held' = Held
      BY <1>2, <2>1, <2>3 DEF Predicate, Held, Busy
    <3> QED
      BY <1>b, <1>c, <2>1, <3>1
  <2> QED
    BY <2>2, <2>3
<1>3. CASE processPacket
  <2>1. /\ processed' = Append(processed, wpacket) /\ UNCHANGED <<admitted, queue>>
        /\ Held = <<wpacket>> /\ Held' = <<>>
    BY <1>3 DEF processPacket, Held, Busy
  <2>2. processed' = processed \o Held /\ processed' \o Held' = processed'
    BY <1>a, <2>1, AppendIsConcat, ConcatEmptySeq
  <2> QED
    BY <1>b, <1>c, <2>1, <2>2
<1>4. CASE StartReplay
  <2>1. /\ queue' = <<>> /\ admitted' = <<>> /\ processed' = <<>> /\ Held' = <<>>
    BY <1>4 DEF StartReplay, Held, Busy
  <2>2. (processed' \o Held') \o queue' = <<>> /\ Len(queue') = 0
    BY <2>1, ConcatEmptySeq, EmptySeq
  <2> QED
    BY <1>a, <1>c, <2>1, <2>2
<1>5. CASE UNCHANGED <<queue, admitted, processed, wpacket>> /\ Busy' = Busy
  <2>1. Held' = Held
    BY <1>5 DEF Held
  <2> QED
    BY <1>b, <1>c, <1>5, <2>1
<1>6. ASSUME NEW p \in Publishers,
             \/ PublishRx(p) \/ Recorded(p) \/ Silent(Notify(p)) \/ recordDropped(p)
      PROVE  HandoffIsFifo'
  BY <1>5, <1>6 DEF PublishRx, Recorded, TakeSequence, AppendRecord, Silent, Notify,
     Wake, recordDropped, TakeOutcomeSequence, InjectedDrop, PublishOverflow, Busy
<1>7. CASE recordProcessed \/ recordRefused
  BY <1>3, <1>5, <1>7, WorkerPublishes DEF TakeOutcomeSequence, Busy
<1>8. CASE \/ Lock \/ Block \/ SpuriousWakeup \/ Destroy \/ NotifyAll \/ Join
           \/ replay \/ UNCHANGED allVars
  BY <1>5, <1>8 DEF Lock, Block, SpuriousWakeup, Destroy, NotifyAll, Wake, Join,
     replay, Busy
<1> QED
  BY <1>1, <1>2, <1>4, <1>6, <1>7, <1>8 DEF RNext, Silent, DestroyRuntime

\* What the worker processed, holds and has queued is exactly what was
\* admitted, in that order, however the publishers, the worker and the
\* destructor interleave, in the original runtime and in the replay.
THEOREM HandoffIsFifoCorrect == RSpec => []HandoffIsFifo
<1>1. RInit => HandoffIsFifo
  <2> SUFFICES ASSUME RInit PROVE HandoffIsFifo
    OBVIOUS
  <2>1. queue = <<>> /\ processed = <<>> /\ admitted = <<>> /\ ~Busy
    BY DEF RInit, Init, Busy
  <2>2. (<<>> \o <<>>) \o <<>> = <<>> /\ Len(<<>>) = 0
    BY ConcatEmptySeq, EmptySeq
  <2> QED
    BY <2>1, <2>2, SizeAssumption DEF HandoffIsFifo
<1> QED
  BY <1>1, FifoStep, TypeCorrect, PTL DEF RSpec
-----------------------------------------------------------------------------
(* Where every thread can be.                                              *)

\* A stage has its publishers, a runtime that is being destroyed has none at
\* work, numbers are held only inside a callback, and the worker ends only
\* when the queue is empty for good.
Places ==
    /\ stage = "replay" =>
          /\ \A p \in Publishers : ppc[p] # "record" /\ (p # Player => ppc[p] = "idle")
          /\ next =< Len(records) + 1
          /\ dpc # "alive" => next = Len(records) + 1
    /\ dpc # "alive" => \A p \in Publishers : ppc[p] = "idle"
    /\ ~running => dpc # "alive"
    /\ wpc = "done" => dpc # "alive" /\ queue = <<>>
    /\ dpc = "gone" => wpc = "done"
    /\ \A p \in Publishers : ppc[p] \notin {"record", "inject", "drop"} =>
          taken[p] = NoSequence
    /\ wpc # "process" => taken[Worker0] = NoSequence

\* Every step keeps the threads in their places.
LEMMA PlacesStep == TypeOK /\ Places /\ [RNext]_allVars => Places'
<1> SUFFICES ASSUME TypeOK, Places, [RNext]_allVars PROVE Places'
  OBVIOUS
<1> USE DEF allVars, vars, pubVars, resultVars, replayVars, policyVars,
            recorderVars, collectorVars
<1>a. /\ ppc \in [Publishers -> {"idle", "record", "inject", "admit", "drop", "notify"}]
      /\ taken \in [Publishers \cup {Worker0} -> Nat \cup {NoSequence}]
      /\ next \in Nat \ {0} /\ Len(records) \in Nat
      /\ stage \in {"original", "replay"} /\ Worker0 \notin Publishers
      /\ Player \in Publishers
  BY ReplayAssumption DEF TypeOK
<1> USE <1>a DEF Places
<1>1. ASSUME NEW p \in Publishers, PublishRx(p) PROVE Places'
  BY <1>1 DEF PublishRx
<1>2. ASSUME NEW p \in Publishers, TakeSequence(p) PROVE Places'
  BY <1>2 DEF TakeSequence
<1>3. ASSUME NEW p \in Publishers, AppendRecord(p) PROVE Places'
  BY <1>3 DEF AppendRecord, Admission
<1>4. ASSUME NEW p \in Publishers, Silent(Admit(p)) PROVE Places'
  BY <1>4 DEF Silent, Admit
<1>5. ASSUME NEW p \in Publishers, Silent(Notify(p)) PROVE Places'
  BY <1>5 DEF Silent, Notify, Wake
<1>6. ASSUME NEW p \in Publishers, recordDropped(p) PROVE Places'
  BY <1>6 DEF recordDropped, TakeOutcomeSequence, InjectedDrop, PublishOverflow,
     PushOutcome
<1>7. CASE recordProcessed \/ recordRefused
  BY <1>7, WorkerPublishes DEF TakeOutcomeSequence, processPacket, PushOutcome
<1>8. CASE Silent(Lock) \/ Silent(Block) \/ Silent(SpuriousWakeup)
  BY <1>8 DEF Silent, Lock, Block, SpuriousWakeup
<1>9. CASE Silent(Predicate)
  BY <1>9 DEF Silent, Predicate
<1>10. CASE Silent(DestroyRuntime)
  BY <1>10 DEF Silent, DestroyRuntime, Destroy
<1>11. CASE Silent(NotifyAll) \/ Silent(Join)
  BY <1>11 DEF Silent, NotifyAll, Wake, Join
<1>12. CASE StartReplay
  BY <1>12 DEF StartReplay
<1>13. CASE replay
  BY <1>13 DEF replay, Admission
<1>14. CASE UNCHANGED allVars
  BY <1>14
<1> QED
  BY <1>1, <1>2, <1>3, <1>4, <1>5, <1>6, <1>7, <1>8, <1>9, <1>10, <1>11, <1>12,
     <1>13, <1>14
  DEF RNext, Recorded

-----------------------------------------------------------------------------
(* What the recorder keeps.                                                *)

Recording == {p \in Publishers : ppc[p] = "record"}

\* Recorders that hold a number.
Numbered == {p \in Recording : taken[p] # NoSequence}

\* Every packet is recorded or with its recorder, and the recorders' packets
\* are not recorded yet.
RecordsComplete ==
    /\ stage = "original" =>
          Packets(records) \cup {ppacket[p] : p \in Recording} = 1..next - 1
    /\ \A i, j \in 1..Len(records) : i # j => records[i].packet # records[j].packet
    /\ \A p \in Recording : \A i \in 1..Len(records) : records[i].packet # ppacket[p]
    /\ \A p, q \in Recording : p # q => ppacket[p] # ppacket[q]

\* Numbers handed out are below the counter and pairwise different.
RecordNumbers ==
    /\ \A i \in 1..Len(records) : records[i].sequence < record_sequence
    /\ \A i, j \in 1..Len(records) :
          i # j => records[i].sequence # records[j].sequence
    /\ \A p \in Numbered : /\ taken[p] < record_sequence
                           /\ \A i \in 1..Len(records) : records[i].sequence # taken[p]
    /\ \A p, q \in Numbered : p # q => taken[p] # taken[q]

\* A publish that had returned is recorded, and everything published since has
\* or will have a later place and a larger number.
PriorRecorded ==
    \A ab \in prior :
        /\ ab[1] \in Packets(records) /\ ab[2] < next
        /\ \A i, j \in 1..Len(records) :
              records[i].packet = ab[1] /\ records[j].packet = ab[2] =>
                  i < j /\ records[i].sequence < records[j].sequence
        /\ \A i \in 1..Len(records) : \A p \in Numbered :
              records[i].packet = ab[1] /\ ppacket[p] = ab[2] =>
                  records[i].sequence < taken[p]

RecordInv == RecordsComplete /\ RecordNumbers /\ PriorRecorded

\* A step that leaves the recorder and its callers alone keeps what it knows.
LEMMA RecorderIdle ==
    ASSUME RecordInv, UNCHANGED <<record_sequence, records, prior, stage, next>>,
           Recording' = Recording,
           \A p \in Recording : ppacket'[p] = ppacket[p] /\ taken'[p] = taken[p]
    PROVE  RecordInv'
<1>1. Numbered' = Numbered
  BY DEF Numbered
<1>2. Numbered \subseteq Recording
  BY DEF Numbered
<1>3. {ppacket'[p] : p \in Recording'} = {ppacket[p] : p \in Recording}
  OBVIOUS
<1>4. RecordsComplete'
  BY <1>3 DEF RecordInv, RecordsComplete, Packets
<1>5. RecordNumbers'
  BY <1>1, <1>2 DEF RecordInv, RecordNumbers
<1>6. PriorRecorded'
  BY <1>1, <1>2 DEF RecordInv, PriorRecorded, Packets
<1> QED
  BY <1>4, <1>5, <1>6 DEF RecordInv

\* A new publish: its packet is new, and everything not being published is
\* recorded.
LEMMA PublishRecords ==
    ASSUME TypeOK, Places, RecordInv, NEW p \in Publishers, PublishRx(p)
    PROVE  RecordInv'
<1>a. /\ next \in Nat \ {0} /\ ppacket \in [Publishers -> Nat]
      /\ ppc \in [Publishers -> {"idle", "record", "inject", "admit", "drop", "notify"}]
      /\ records \in Seq(Records)
  BY DEF TypeOK
<1>b. /\ stage = "original" /\ stage' = "original" /\ ppc[p] = "idle"
      /\ ppc' = [ppc EXCEPT ![p] = "record"]
      /\ ppacket' = [ppacket EXCEPT ![p] = next] /\ next' = next + 1
      /\ prior' = prior \cup (((1..next - 1) \ InPublish) \X {next})
      /\ UNCHANGED <<records, record_sequence, taken>>
      /\ taken[p] = NoSequence
  BY <1>a DEF PublishRx, policyVars, recorderVars, Places
<1>1. Recording' = Recording \cup {p} /\ p \notin Recording /\ Numbered' = Numbered
  BY <1>a, <1>b DEF Recording, Numbered
<1>2. /\ ppacket'[p] = next
      /\ \A q \in Recording : q # p /\ q \in Publishers /\ ppacket'[q] = ppacket[q]
  BY <1>a, <1>b, <1>1 DEF Recording
<1>3. Packets(records) \cup {ppacket[q] : q \in Recording} = 1..next - 1
  BY <1>b DEF RecordInv, RecordsComplete
<1>4. /\ \A i \in 1..Len(records) : records[i].packet \in 1..next - 1
      /\ \A q \in Recording : ppacket[q] \in 1..next - 1
  BY <1>3 DEF Packets
<1>5. RecordsComplete'
  <2>1. {ppacket'[q] : q \in Recording'} = {ppacket[q] : q \in Recording} \cup {next}
    BY <1>1, <1>2
  <2>2. 1..next' - 1 = (1..next - 1) \cup {next}
    BY <1>a, <1>b
  <2>3. Packets(records)' = Packets(records)
    BY <1>b DEF Packets
  <2>4. (stage = "original" => Packets(records) \cup
           {ppacket[q] : q \in Recording} = 1..next - 1)'
    BY <1>3, <2>1, <2>2, <2>3
  <2>5. \A i, j \in 1..Len(records) : i # j => records[i].packet # records[j].packet
    BY DEF RecordInv, RecordsComplete
  <2>6. \A q \in Recording' : \A i \in 1..Len(records') :
           records'[i].packet # ppacket'[q]
    BY <1>a, <1>b, <1>1, <1>2, <1>4 DEF RecordInv, RecordsComplete
  <2>7. \A q, r \in Recording' : q # r => ppacket'[q] # ppacket'[r]
    BY <1>a, <1>1, <1>2, <1>4 DEF RecordInv, RecordsComplete
  <2> QED
    BY <1>b, <2>4, <2>5, <2>6, <2>7 DEF RecordsComplete
<1>6. RecordNumbers'
  BY <1>b, <1>1 DEF RecordInv, RecordNumbers
<1>7. PriorRecorded'
  <2> SUFFICES ASSUME NEW ab \in prior'
               PROVE  /\ ab[1] \in Packets(records) /\ ab[2] < next + 1
                      /\ \A i, j \in 1..Len(records) :
                            records[i].packet = ab[1] /\ records[j].packet = ab[2] =>
                                i < j /\ records[i].sequence < records[j].sequence
                      /\ \A i \in 1..Len(records) : \A q \in Numbered :
                            records[i].packet = ab[1] /\ ppacket'[q] = ab[2] =>
                                records[i].sequence < taken[q]
    BY <1>b, <1>1 DEF PriorRecorded, Packets
  <2>0. \A q \in Numbered : ppacket'[q] = ppacket[q] /\ q \in Recording
    BY <1>2 DEF Numbered
  <2>1. CASE ab \in prior
    <3>1. ab[2] \in Nat
      BY <2>1 DEF TypeOK
    <3> QED
      BY <1>a, <2>0, <2>1, <3>1 DEF RecordInv, PriorRecorded
  <2>2. CASE ab \in ((1..next - 1) \ InPublish) \X {next}
    <3>1. ab[1] \in 1..next - 1 /\ ab[1] \notin InPublish /\ ab[2] = next
      BY <2>2
    <3>2. ab[1] \notin {ppacket[q] : q \in Recording}
      BY <3>1 DEF InPublish, Recording
    <3>3. ab[1] \in Packets(records)
      BY <1>3, <3>1, <3>2
    <3>4. /\ \A i \in 1..Len(records) : records[i].packet # next
          /\ \A q \in Numbered : ppacket[q] # next
      BY <1>a, <1>4, <2>0
    <3> QED
      BY <1>a, <2>0, <3>1, <3>3, <3>4
  <2> QED
    BY <1>b, <2>1, <2>2
<1> QED
  BY <1>5, <1>6, <1>7 DEF RecordInv

\* A number is taken: it is larger than every number handed out before.
LEMMA TakeNumbers ==
    ASSUME TypeOK, Places, RecordInv, NEW p \in Publishers, TakeSequence(p)
    PROVE  RecordInv'
<1>a. /\ record_sequence \in Nat /\ records \in Seq(Records)
      /\ taken \in [Publishers \cup {Worker0} -> Nat \cup {NoSequence}]
  BY DEF TypeOK
<1>b. /\ p \in Recording /\ taken[p] = NoSequence
      /\ taken' = [taken EXCEPT ![p] = record_sequence]
      /\ record_sequence' = record_sequence + 1
      /\ UNCHANGED <<records, prior, stage, next, ppc, ppacket>>
  BY DEF TakeSequence, vars, pubVars, policyVars, Recording
<1>1. /\ Recording' = Recording /\ Numbered' = Numbered \cup {p}
      /\ p \notin Numbered /\ Numbered \subseteq Recording
      /\ Recording \subseteq Publishers
  BY <1>a, <1>b DEF Recording, Numbered, NoSequence
<1>2. taken'[p] = record_sequence /\ \A q \in Numbered : taken'[q] = taken[q]
  BY <1>a, <1>b, <1>1
<1>3. \A i \in 1..Len(records) :
         records[i].sequence \in Nat /\ records[i].sequence < record_sequence
  <2>1. \A i \in 1..Len(records) : records[i] \in Records
    BY <1>a, ElementOfSeq
  <2> QED
    BY <2>1 DEF Records, RecordInv, RecordNumbers
<1>4. \A q \in Numbered : taken[q] \in Nat /\ taken[q] < record_sequence
  BY <1>a, <1>1 DEF Numbered, RecordInv, RecordNumbers
<1>5. RecordsComplete'
  BY <1>b, <1>1 DEF RecordInv, RecordsComplete, Packets
<1>6. RecordNumbers'
  <2>1. /\ \A i \in 1..Len(records') : records'[i].sequence < record_sequence'
        /\ \A i, j \in 1..Len(records') :
              i # j => records'[i].sequence # records'[j].sequence
    BY <1>a, <1>b, <1>3 DEF RecordInv, RecordNumbers
  <2>2. \A q \in Numbered' :
           /\ taken'[q] < record_sequence'
           /\ \A i \in 1..Len(records') : records'[i].sequence # taken'[q]
    BY <1>a, <1>b, <1>1, <1>2, <1>3, <1>4 DEF RecordInv, RecordNumbers
  <2>3. \A q, r \in Numbered' : q # r => taken'[q] # taken'[r]
    BY <1>a, <1>1, <1>2, <1>4 DEF RecordInv, RecordNumbers
  <2> QED
    BY <2>1, <2>2, <2>3 DEF RecordNumbers
<1>7. PriorRecorded'
  BY <1>b, <1>1, <1>2, <1>3 DEF RecordInv, PriorRecorded, Packets
<1> QED
  BY <1>5, <1>6, <1>7 DEF RecordInv

\* A record is appended: it moves from its publisher to the end of the vector.
LEMMA AppendRecords ==
    ASSUME TypeOK, Places, RecordInv, NEW p \in Publishers, AppendRecord(p)
    PROVE  RecordInv'
<1> DEFINE r == [sequence |-> taken[p], packet |-> ppacket[p]]
           n == Len(records) + 1
<1>a. /\ record_sequence \in Nat /\ records \in Seq(Records)
      /\ taken \in [Publishers \cup {Worker0} -> Nat \cup {NoSequence}]
      /\ ppc \in [Publishers -> {"idle", "record", "inject", "admit", "drop", "notify"}]
      /\ Len(records) \in Nat
  BY DEF TypeOK
<1>b. /\ p \in Recording /\ taken[p] # NoSequence
      /\ records' = Append(records, r)
      /\ taken' = [taken EXCEPT ![p] = NoSequence]
      /\ ppc' = [ppc EXCEPT ![p] = Admission(ppacket[p])]
      /\ UNCHANGED <<record_sequence, prior, stage, next, ppacket>>
  BY DEF AppendRecord, policyVars, Recording
<1>1. /\ Recording' = Recording \ {p} /\ Numbered' = Numbered \ {p}
      /\ p \in Numbered /\ Numbered \subseteq Recording
      /\ \A q \in Numbered' : taken'[q] = taken[q]
  BY <1>a, <1>b DEF Recording, Numbered, Admission
<1>2. r \in Records
  BY <1>a, <1>b DEF TypeOK, Records
<1>3. /\ Len(records') = n /\ records'[n] = r
      /\ \A i \in 1..Len(records) : records'[i] = records[i]
      /\ 1..Len(records') = (1..Len(records)) \cup {n}
      /\ \A i \in 1..Len(records) : i < n
  BY <1>a, <1>b, <1>2, AppendProperties
<1>4. r.sequence = taken[p] /\ r.packet = ppacket[p]
  OBVIOUS
<1> HIDE DEF r, n
<1>5. RecordsComplete'
  <2>1. Packets(records)' = Packets(records) \cup {ppacket[p]}
    BY <1>3, <1>4 DEF Packets
  <2>2. (Packets(records) \cup {ppacket[q] : q \in Recording})'
          = Packets(records) \cup {ppacket[q] : q \in Recording}
    BY <1>b, <1>1, <2>1
  <2>3. \A i, j \in 1..Len(records') :
           i # j => records'[i].packet # records'[j].packet
    BY <1>b, <1>3, <1>4 DEF RecordInv, RecordsComplete
  <2>4. \A q \in Recording' : \A i \in 1..Len(records') :
           records'[i].packet # ppacket'[q]
    BY <1>b, <1>1, <1>3, <1>4 DEF RecordInv, RecordsComplete
  <2>5. \A q, s \in Recording' : q # s => ppacket'[q] # ppacket'[s]
    BY <1>b, <1>1 DEF RecordInv, RecordsComplete
  <2>6. stage' = "original" => (Packets(records) \cup
           {ppacket[q] : q \in Recording})' = 1..next' - 1
    BY <1>b, <2>2 DEF RecordInv, RecordsComplete
  <2> QED
    BY <2>3, <2>4, <2>5, <2>6 DEF RecordsComplete
<1>6. RecordNumbers'
  <2>1. \A i \in 1..Len(records') : records'[i].sequence < record_sequence'
    BY <1>b, <1>1, <1>3, <1>4 DEF RecordInv, RecordNumbers
  <2>2. \A i, j \in 1..Len(records') :
           i # j => records'[i].sequence # records'[j].sequence
    BY <1>1, <1>3, <1>4 DEF RecordInv, RecordNumbers
  <2>3. \A q \in Numbered' :
           /\ taken'[q] < record_sequence'
           /\ \A i \in 1..Len(records') : records'[i].sequence # taken'[q]
    BY <1>b, <1>1, <1>3, <1>4 DEF RecordInv, RecordNumbers
  <2>4. \A q, s \in Numbered' : q # s => taken'[q] # taken'[s]
    BY <1>1 DEF RecordInv, RecordNumbers
  <2> QED
    BY <2>1, <2>2, <2>3, <2>4 DEF RecordNumbers
<1>7. PriorRecorded'
  <2> SUFFICES ASSUME NEW ab \in prior
               PROVE  /\ ab[1] \in Packets(records') /\ ab[2] < next
                      /\ \A i, j \in 1..Len(records') :
                            records'[i].packet = ab[1] /\ records'[j].packet = ab[2] =>
                                i < j /\ records'[i].sequence < records'[j].sequence
                      /\ \A i \in 1..Len(records') : \A q \in Numbered' :
                            records'[i].packet = ab[1] /\ ppacket[q] = ab[2] =>
                                records'[i].sequence < taken'[q]
    BY <1>b DEF PriorRecorded, Packets
  <2>1. /\ ab[1] \in Packets(records) /\ ab[2] < next
        /\ \A i, j \in 1..Len(records) :
              records[i].packet = ab[1] /\ records[j].packet = ab[2] =>
                  i < j /\ records[i].sequence < records[j].sequence
        /\ \A i \in 1..Len(records) : \A q \in Numbered :
              records[i].packet = ab[1] /\ ppacket[q] = ab[2] =>
                  records[i].sequence < taken[q]
    BY DEF RecordInv, PriorRecorded
  <2>2. ppacket[p] # ab[1]
    BY <1>b, <2>1 DEF Packets, RecordInv, RecordsComplete
  <2>3. ab[1] \in Packets(records')
    BY <1>3, <2>1 DEF Packets
  <2>4. ASSUME NEW i \in 1..Len(records'), records'[i].packet = ab[1]
        PROVE  i \in 1..Len(records) /\ records'[i] = records[i]
    BY <1>3, <1>4, <2>2, <2>4
  <2>5. ASSUME NEW i \in 1..Len(records'), NEW j \in 1..Len(records'),
               records'[i].packet = ab[1], records'[j].packet = ab[2]
        PROVE  i < j /\ records'[i].sequence < records'[j].sequence
    <3>1. i \in 1..Len(records) /\ records'[i] = records[i]
      BY <2>4, <2>5
    <3>2. CASE j \in 1..Len(records)
      BY <1>3, <2>1, <2>5, <3>1, <3>2
    <3>3. CASE j = n
      BY <1>1, <1>3, <1>4, <2>1, <2>5, <3>1, <3>3
    <3> QED
      BY <1>3, <3>2, <3>3
  <2>6. ASSUME NEW i \in 1..Len(records'), NEW q \in Numbered',
               records'[i].packet = ab[1], ppacket[q] = ab[2]
        PROVE  records'[i].sequence < taken'[q]
    <3>1. i \in 1..Len(records) /\ records'[i] = records[i]
      BY <2>4, <2>6
    <3> QED
      BY <1>1, <2>1, <2>6, <3>1
  <2> QED
    BY <2>1, <2>3, <2>5, <2>6
<1> QED
  BY <1>5, <1>6, <1>7 DEF RecordInv

\* Every step of a runtime preserves what the recorder knows.
LEMMA RecordStep == TypeOK /\ Places /\ RecordInv /\ [RNext]_allVars => RecordInv'
<1> SUFFICES ASSUME TypeOK, Places, RecordInv, [RNext]_allVars PROVE RecordInv'
  OBVIOUS
<1> USE DEF allVars, vars, pubVars, resultVars, replayVars, policyVars,
            recorderVars, collectorVars
<1>a. /\ ppc \in [Publishers -> {"idle", "record", "inject", "admit", "drop", "notify"}]
      /\ taken \in [Publishers \cup {Worker0} -> Nat \cup {NoSequence}]
      /\ next \in Nat \ {0} /\ Worker0 \notin Publishers /\ Player \in Publishers
  BY ReplayAssumption DEF TypeOK
<1>1. ASSUME NEW p \in Publishers, PublishRx(p) \/ Recorded(p) PROVE RecordInv'
  BY <1>1, PublishRecords, TakeNumbers, AppendRecords DEF Recorded
<1>2. ASSUME NEW p \in Publishers, Silent(Admit(p)) \/ Silent(Notify(p))
      PROVE  RecordInv'
  <2>1. Recording' = Recording
    BY <1>a, <1>2 DEF Silent, Admit, Notify, Recording
  <2>2. UNCHANGED <<record_sequence, records, prior, stage, next, ppacket, taken>>
    BY <1>2 DEF Silent, Admit, Notify
  <2> QED
    BY <2>1, <2>2, RecorderIdle
<1>3. ASSUME NEW p \in Publishers, recordDropped(p) PROVE RecordInv'
  <2>1. Recording' = Recording /\ p \notin Recording /\ Recording \subseteq Publishers
    BY <1>a, <1>3 DEF recordDropped, TakeOutcomeSequence, InjectedDrop,
       PublishOverflow, PushOutcome, Recording
  <2>2. UNCHANGED <<record_sequence, records, prior, stage, next, ppacket>>
    BY <1>3 DEF recordDropped, TakeOutcomeSequence, InjectedDrop, PublishOverflow,
       PushOutcome
  <2>3. \A q \in Recording : taken'[q] = taken[q]
    BY <1>a, <1>3, <2>1 DEF recordDropped, TakeOutcomeSequence, PushOutcome
  <2> QED
    BY <2>1, <2>2, <2>3, RecorderIdle
<1>4. CASE recordProcessed \/ recordRefused
  <2>1. UNCHANGED <<record_sequence, records, prior, stage, next, ppc, ppacket>>
    BY <1>4, WorkerPublishes DEF TakeOutcomeSequence, processPacket, PushOutcome
  <2>2. Recording' = Recording /\ Recording \subseteq Publishers
    BY <2>1 DEF Recording
  <2>3. \A q \in Recording : taken'[q] = taken[q]
    BY <1>a, <1>4, <2>2, WorkerPublishes DEF TakeOutcomeSequence, PushOutcome
  <2> QED
    BY <2>1, <2>2, <2>3, RecorderIdle
<1>5. CASE \/ Silent(Lock) \/ Silent(Predicate) \/ Silent(Block)
           \/ Silent(SpuriousWakeup) \/ Silent(DestroyRuntime)
           \/ Silent(NotifyAll) \/ Silent(Join) \/ UNCHANGED allVars
  <2>1. UNCHANGED <<record_sequence, records, prior, stage, next, ppc, ppacket, taken>>
    BY <1>5 DEF Silent, Lock, Predicate, Block, SpuriousWakeup, DestroyRuntime,
       Destroy, NotifyAll, Join
  <2>2. Recording' = Recording
    BY <2>1 DEF Recording
  <2> QED
    BY <2>1, <2>2, RecorderIdle
<1>6. CASE StartReplay \/ replay
  <2>1. /\ Recording' = {} /\ stage' = "replay" /\ UNCHANGED <<records, record_sequence>>
    BY <1>a, <1>6 DEF StartReplay, replay, Recording, Places, Admission
  <2>2. Numbered' = {}
    BY <2>1 DEF Numbered
  <2>3. prior' = {} \/ (prior' = prior /\ next' = next + 1)
    BY <1>6 DEF StartReplay, replay
  <2>4. RecordsComplete'
    BY <2>1 DEF RecordInv, RecordsComplete
  <2>5. RecordNumbers'
    BY <2>1, <2>2 DEF RecordInv, RecordNumbers
  <2>6. PriorRecorded'
    <3>1. \A ab \in prior : ab[2] \in Nat
      BY DEF TypeOK
    <3> QED
      BY <1>a, <2>1, <2>2, <2>3, <3>1 DEF RecordInv, PriorRecorded, Packets
  <2> QED
    BY <2>4, <2>5, <2>6 DEF RecordInv
<1> QED
  BY <1>1, <1>2, <1>3, <1>4, <1>5, <1>6 DEF RNext

\* Everything known of the recorder holds in every state.
LEMMA RecordHolds == RSpec => [](TypeOK /\ Places /\ RecordInv)
<1>1. RInit => Places
  BY EmptySeq DEF RInit, Init, Places
<1>2. RInit => RecordInv
  <2> SUFFICES ASSUME RInit PROVE RecordInv
    OBVIOUS
  <2>1. /\ records = <<>> /\ Len(records) = 0 /\ prior = {} /\ next = 1
        /\ Recording = {} /\ Numbered = {}
    BY EmptySeq DEF RInit, Init, Recording, Numbered
  <2> QED
    BY <2>1 DEF RecordInv, RecordsComplete, RecordNumbers, PriorRecorded, Packets
<1> QED
  BY <1>1, <1>2, PlacesStep, RecordStep, TypeInit, TypeStep, PTL DEF RSpec

\* Although numbers are taken outside the mutex, no packet is lost or recorded
\* twice, numbers are unique, and packets published one after the other keep
\* their order, for any number of publishers.
THEOREM RecordedInOrderCorrect == RSpec => []RecordedInOrder
<1>1. TypeOK /\ RecordInv => RecordedInOrder
  <2> SUFFICES ASSUME TypeOK, RecordInv PROVE RecordedInOrder
    OBVIOUS
  <2>1. ASSUME NEW i \in 1..Len(records), NEW j \in 1..Len(records),
               <<records[i].packet, records[j].packet>> \in prior
        PROVE  i < j /\ records[i].sequence < records[j].sequence
    BY <2>1 DEF RecordInv, PriorRecorded
  <2> QED
    BY <2>1 DEF RecordedInOrder, RecordInv, RecordsComplete, RecordNumbers, Recording
<1> QED
  BY <1>1, RecordHolds, PTL

-----------------------------------------------------------------------------
(* What the collector keeps.                                               *)

\* Threads that hold an outcome number.
Collecting ==
    {t \in Publishers \cup {Worker0} :
        taken[t] # NoSequence /\ t \notin Recording}

\* Numbers handed out are pushed or held, once each.
OutcomeNumbers ==
    /\ {outcomes[i].sequence : i \in 1..Len(outcomes)} \cup
          {taken[t] : t \in Collecting} = 0..outcome_sequence - 1
    /\ \A i, j \in 1..Len(outcomes) :
          i # j => outcomes[i].sequence # outcomes[j].sequence
    /\ \A t \in Collecting : \A i \in 1..Len(outcomes) :
          outcomes[i].sequence # taken[t]
    /\ \A t, u \in Collecting : t # u => taken[t] # taken[u]

\* A step that leaves the collector and its callers alone keeps the numbers.
LEMMA CollectorIdle ==
    ASSUME OutcomeNumbers, UNCHANGED <<outcome_sequence, outcomes>>,
           Collecting' = Collecting, \A t \in Collecting : taken'[t] = taken[t]
    PROVE  OutcomeNumbers'
<1>1. {taken'[t] : t \in Collecting'} = {taken[t] : t \in Collecting}
  OBVIOUS
<1> QED
  BY <1>1 DEF OutcomeNumbers

\* The next number goes to the thread that asks.
LEMMA TakeOutcomeNumber ==
    ASSUME TypeOK, OutcomeNumbers, NEW t \in Publishers \cup {Worker0},
           t \notin Recording, TakeOutcomeSequence(t)
    PROVE  OutcomeNumbers'
<1>a. /\ outcome_sequence \in Nat
      /\ taken \in [Publishers \cup {Worker0} -> Nat \cup {NoSequence}]
  BY DEF TypeOK
<1>b. /\ taken[t] = NoSequence /\ taken' = [taken EXCEPT ![t] = outcome_sequence]
      /\ outcome_sequence' = outcome_sequence + 1 /\ UNCHANGED <<outcomes, ppc>>
  BY DEF TakeOutcomeSequence, vars, pubVars
<1>1. /\ Collecting' = Collecting \cup {t} /\ t \notin Collecting
      /\ taken'[t] = outcome_sequence
      /\ \A u \in Collecting : taken'[u] = taken[u]
  BY <1>a, <1>b DEF Collecting, Recording, NoSequence
<1>2. {outcomes[i].sequence : i \in 1..Len(outcomes)} \cup
         {taken[u] : u \in Collecting} = 0..outcome_sequence - 1
  BY DEF OutcomeNumbers
<1>3. /\ \A i \in 1..Len(outcomes) : outcomes[i].sequence \in 0..outcome_sequence - 1
      /\ \A u \in Collecting : taken[u] \in 0..outcome_sequence - 1
  BY <1>2
<1>4. 0..outcome_sequence' - 1 = (0..outcome_sequence - 1) \cup {outcome_sequence}
  BY <1>a, <1>b
<1>5. {taken'[u] : u \in Collecting'}
         = {taken[u] : u \in Collecting} \cup {outcome_sequence}
  BY <1>1
<1>6. ({outcomes[i].sequence : i \in 1..Len(outcomes)} \cup
         {taken[u] : u \in Collecting})' = 0..outcome_sequence' - 1
  BY <1>b, <1>2, <1>4, <1>5
<1>7. \A u \in Collecting' : \A i \in 1..Len(outcomes) :
         outcomes[i].sequence # taken'[u]
  BY <1>a, <1>1, <1>3 DEF OutcomeNumbers
<1>8. \A u, v \in Collecting' : u # v => taken'[u] # taken'[v]
  BY <1>a, <1>1, <1>3 DEF OutcomeNumbers
<1> QED
  BY <1>b, <1>6, <1>7, <1>8 DEF OutcomeNumbers

\* The vector after a push.
LEMMA Pushed ==
    ASSUME TypeOK, NEW t \in Publishers \cup {Worker0}, NEW n \in Nat,
           NEW kind \in OutcomeTypes,
           PushOutcome(t, n, kind)
    PROVE  /\ Len(outcomes) \in Nat
           /\ 1..Len(outcomes') = (1..Len(outcomes)) \cup {Len(outcomes) + 1}
           /\ \A i \in 1..Len(outcomes) :
                 outcomes'[i] = outcomes[i] /\ i < Len(outcomes) + 1
           /\ outcomes'[Len(outcomes) + 1].sequence = taken[t]
           /\ outcomes'[Len(outcomes) + 1].type = kind
           /\ outcomes'[Len(outcomes) + 1].lifecycle_id = n
<1> DEFINE r == [sequence |-> taken[t], type |-> kind, lifecycle_id |-> n]
<1>1. r \in Outcomes /\ outcomes \in Seq(Outcomes) /\ outcomes' = Append(outcomes, r)
  BY DEF PushOutcome, TypeOK, Outcomes
<1>2. r.sequence = taken[t] /\ r.type = kind /\ r.lifecycle_id = n
  OBVIOUS
<1> HIDE DEF r
<1>3. /\ Len(outcomes) \in Nat /\ Len(outcomes') = Len(outcomes) + 1
      /\ outcomes'[Len(outcomes) + 1] = r
      /\ \A i \in 1..Len(outcomes) : outcomes'[i] = outcomes[i]
  BY <1>1, AppendProperties
<1> QED
  BY <1>2, <1>3

\* A held number is pushed, once.
LEMMA PushOutcomeNumber ==
    ASSUME TypeOK, OutcomeNumbers, NEW t \in Publishers \cup {Worker0},
           NEW n \in Nat, NEW kind \in OutcomeTypes,
           t \notin Recording, Recording' = Recording, PushOutcome(t, n, kind)
    PROVE  OutcomeNumbers'
<1>a. taken \in [Publishers \cup {Worker0} -> Nat \cup {NoSequence}]
  BY DEF TypeOK
<1>b. /\ taken[t] # NoSequence /\ taken' = [taken EXCEPT ![t] = NoSequence]
      /\ outcome_sequence' = outcome_sequence
  BY DEF PushOutcome
<1>1. /\ Collecting' = Collecting \ {t} /\ t \in Collecting
      /\ \A u \in Collecting' : taken'[u] = taken[u]
  BY <1>a, <1>b DEF Collecting
<1> DEFINE m == Len(outcomes) + 1
<1>2. /\ 1..Len(outcomes') = (1..Len(outcomes)) \cup {m}
      /\ outcomes'[m].sequence = taken[t]
      /\ \A i \in 1..Len(outcomes) : outcomes'[i] = outcomes[i]
  BY Pushed
<1> HIDE DEF m
<1>3. {outcomes'[i].sequence : i \in 1..Len(outcomes')}
         = {outcomes[i].sequence : i \in 1..Len(outcomes)} \cup {taken[t]}
  BY <1>2
<1>4. {taken'[u] : u \in Collecting'} \cup {taken[t]} = {taken[u] : u \in Collecting}
  BY <1>1
<1>5. ({outcomes[i].sequence : i \in 1..Len(outcomes)} \cup
         {taken[u] : u \in Collecting})' = 0..outcome_sequence' - 1
  <2>1. {outcomes[i].sequence : i \in 1..Len(outcomes)} \cup
         {taken[u] : u \in Collecting} = 0..outcome_sequence - 1
    BY DEF OutcomeNumbers
  <2> QED
    BY <1>b, <1>3, <1>4, <2>1
<1>6. \A i, j \in 1..Len(outcomes') :
         i # j => outcomes'[i].sequence # outcomes'[j].sequence
  BY <1>1, <1>2 DEF OutcomeNumbers
<1>7. \A u \in Collecting' : \A i \in 1..Len(outcomes') :
         outcomes'[i].sequence # taken'[u]
  BY <1>1, <1>2 DEF OutcomeNumbers
<1>8. \A u, v \in Collecting' : u # v => taken'[u] # taken'[v]
  BY <1>1 DEF OutcomeNumbers
<1> QED
  BY <1>5, <1>6, <1>7, <1>8 DEF OutcomeNumbers

\* Every step of a runtime preserves the numbering of outcomes.
LEMMA NumbersStep ==
    TypeOK /\ Places /\ OutcomeNumbers /\ [RNext]_allVars => OutcomeNumbers'
<1> SUFFICES ASSUME TypeOK, Places, OutcomeNumbers, [RNext]_allVars
             PROVE  OutcomeNumbers'
  OBVIOUS
<1> USE DEF allVars, vars, pubVars, resultVars, replayVars, policyVars,
            recorderVars, collectorVars
<1>a. /\ ppc \in [Publishers -> {"idle", "record", "inject", "admit", "drop", "notify"}]
      /\ ppacket \in [Publishers -> Nat] /\ wpacket \in Nat
      /\ taken \in [Publishers \cup {Worker0} -> Nat \cup {NoSequence}]
      /\ Worker0 \notin Publishers /\ Player \in Publishers
  BY ReplayAssumption DEF TypeOK
<1>1. ASSUME NEW p \in Publishers,
             \/ PublishRx(p) \/ Recorded(p) \/ Silent(Admit(p)) \/ Silent(Notify(p))
      PROVE  OutcomeNumbers'
  <2>1. UNCHANGED <<outcome_sequence, outcomes>>
    BY <1>1 DEF PublishRx, Recorded, TakeSequence, AppendRecord, Silent
  <2>2. \A t \in Publishers \cup {Worker0} : t # p =>
           taken'[t] = taken[t] /\ (t \in Recording' <=> t \in Recording)
    BY <1>a, <1>1 DEF PublishRx, Recorded, TakeSequence, AppendRecord, Silent, Admit,
       Notify, Recording
  <2>3. p \notin Collecting /\ p \notin Collecting'
    BY <1>a, <1>1 DEF PublishRx, Recorded, TakeSequence, AppendRecord, Silent, Admit,
       Notify, Recording, Collecting, Places
  <2>4. Collecting' = Collecting /\ \A t \in Collecting : taken'[t] = taken[t]
    BY <2>2, <2>3 DEF Collecting
  <2> QED
    BY <2>1, <2>4, CollectorIdle
<1>2. ASSUME NEW p \in Publishers, recordDropped(p) PROVE OutcomeNumbers'
  <2>1. p \notin Recording /\ Recording' = Recording /\ ppacket[p] \in Nat
    BY <1>a, <1>2 DEF recordDropped, TakeOutcomeSequence, InjectedDrop,
       PublishOverflow, PushOutcome, Recording
  <2> QED
    BY <1>2, <2>1, TakeOutcomeNumber, PushOutcomeNumber DEF recordDropped, OutcomeTypes
<1>3. CASE recordProcessed \/ recordRefused
  <2>1. Worker0 \notin Recording /\ Recording' = Recording
    BY <1>a, <1>3, WorkerPublishes DEF TakeOutcomeSequence, processPacket, Recording
  <2> QED
    BY <1>a, <1>3, <2>1, WorkerPublishes, VerdictType, TakeOutcomeNumber,
       PushOutcomeNumber
<1>4. CASE \/ Silent(Lock) \/ Silent(Predicate) \/ Silent(Block)
           \/ Silent(SpuriousWakeup) \/ Silent(DestroyRuntime)
           \/ Silent(NotifyAll) \/ Silent(Join) \/ UNCHANGED allVars
  <2>1. UNCHANGED <<outcome_sequence, outcomes, ppc, taken>>
    BY <1>4 DEF Silent, Lock, Predicate, Block, SpuriousWakeup, DestroyRuntime,
       Destroy, NotifyAll, Join
  <2>2. Collecting' = Collecting
    BY <2>1 DEF Collecting, Recording
  <2> QED
    BY <2>1, <2>2, CollectorIdle
<1>5. CASE replay
  <2>1. UNCHANGED <<outcome_sequence, outcomes, taken>>
    BY <1>5 DEF replay
  <2>2. Recording' = {} /\ Recording = {}
    BY <1>a, <1>5 DEF replay, Recording, Admission, Places
  <2>3. Collecting' = Collecting
    BY <2>1, <2>2 DEF Collecting
  <2> QED
    BY <2>1, <2>3, CollectorIdle
<1>6. CASE StartReplay
  <2>1. /\ outcome_sequence' = 0 /\ outcomes' = <<>> /\ Len(<<>>) = 0
        /\ UNCHANGED <<ppc, taken>>
    BY <1>6, EmptySeq DEF StartReplay
  <2>2. Collecting' = {}
    BY <1>a, <1>6, <2>1 DEF StartReplay, Collecting, Places
  <2> QED
    BY <2>1, <2>2 DEF OutcomeNumbers
<1> QED
  BY <1>1, <1>2, <1>3, <1>4, <1>5, <1>6 DEF RNext

\* Packets published in the runtime that is running.
Published == IF stage = "original" THEN 1..next - 1
                                   ELSE {records[i].packet : i \in 1..next - 1}

\* Publishers whose packet is neither admitted nor ended.
Hand == {p \in Publishers : ppc[p] \in {"record", "inject", "admit", "drop"}}

HasPlace(n) == \/ \E k \in 1..Len(admitted) : admitted[k] = n
               \/ \E i \in 1..Len(outcomes) : outcomes[i].lifecycle_id = n
               \/ \E p \in Hand : ppacket[p] = n

\* A published packet is with its publisher, admitted, or dropped; what is
\* admitted has an outcome exactly when the worker has processed it.
Placement ==
    /\ \A n \in Published : HasPlace(n)
    /\ \A k \in 1..Len(admitted) : admitted[k] \in Published
    /\ \A i \in 1..Len(outcomes) : outcomes[i].lifecycle_id \in Published
    /\ \A p \in Hand : ppacket[p] \in Published
    /\ \A k, l \in 1..Len(admitted) : k # l => admitted[k] # admitted[l]
    /\ \A i, j \in 1..Len(outcomes) :
          i # j => outcomes[i].lifecycle_id # outcomes[j].lifecycle_id
    /\ \A p, q \in Hand : p # q => ppacket[p] # ppacket[q]
    /\ \A p \in Hand :
          /\ \A k \in 1..Len(admitted) : admitted[k] # ppacket[p]
          /\ \A i \in 1..Len(outcomes) : outcomes[i].lifecycle_id # ppacket[p]
    /\ \A k \in 1..Len(admitted) : \A i \in 1..Len(outcomes) :
          outcomes[i].lifecycle_id = admitted[k] => k =< Len(processed)
    /\ \A k \in 1..Len(processed) : \E i \in 1..Len(outcomes) :
          outcomes[i].lifecycle_id = admitted[k]

\* The front of a concatenation.
LEMMA ConcatFront ==
    ASSUME NEW a \in Seq(Nat), NEW b \in Seq(Nat)
    PROVE  /\ Len(a \o b) = Len(a) + Len(b)
           /\ \A k \in 1..Len(a) : (a \o b)[k] = a[k]
<1>1. Len(a) \in Nat /\ Len(b) \in Nat
  OBVIOUS
<1>2. /\ Len(a \o b) = Len(a) + Len(b)
      /\ \A i \in 1..Len(a) + Len(b) :
            (a \o b)[i] = IF i =< Len(a) THEN a[i] ELSE b[i - Len(a)]
  BY ConcatProperties
<1> QED
  BY <1>1, <1>2

\* What has been processed is the front of what was admitted, and the worker
\* holds the packet after it.
LEMMA Line ==
    ASSUME TypeOK, HandoffIsFifo
    PROVE  /\ Len(processed) \in Nat /\ Len(admitted) \in Nat
           /\ Len(processed) =< Len(admitted)
           /\ Busy => /\ Len(processed) + 1 \in 1..Len(admitted)
                      /\ admitted[Len(processed) + 1] = wpacket
           /\ ~Busy /\ queue = <<>> => Len(admitted) = Len(processed)
<1>a. queue \in Seq(Nat) /\ processed \in Seq(Nat) /\ wpacket \in Nat
  BY DEF TypeOK
<1>b. admitted = (processed \o Held) \o queue
  BY DEF HandoffIsFifo, Held
<1>1. CASE Busy
  <2>1. Held = <<wpacket>> /\ Held \in Seq(Nat) /\ Len(Held) = 1 /\ Held[1] = wpacket
    BY <1>a, <1>1 DEF Held
  <2>2. /\ processed \o Held \in Seq(Nat)
        /\ Len(processed \o Held) = Len(processed) + 1
        /\ (processed \o Held)[Len(processed) + 1] = wpacket
    BY <1>a, <2>1, ConcatProperties
  <2>3. /\ Len(admitted) = (Len(processed) + 1) + Len(queue)
        /\ admitted[Len(processed) + 1] = (processed \o Held)[Len(processed) + 1]
    <3>1. Len(processed) + 1 \in 1..Len(processed \o Held)
      BY <1>a, <2>2
    <3> QED
      BY <1>a, <1>b, <2>2, <3>1, ConcatFront
  <2>4. Len(processed) \in Nat /\ Len(queue) \in Nat
    BY <1>a
  <2> QED
    BY <1>1, <2>2, <2>3, <2>4
<1>2. CASE ~Busy
  <2>1. Held = <<>>
    BY <1>2 DEF Held
  <2>2. processed \o Held = processed
    BY <1>a, <2>1, ConcatEmptySeq
  <2>3. Len(admitted) = Len(processed) + Len(queue)
    BY <1>a, <1>b, <2>2, ConcatProperties
  <2>4. Len(processed) \in Nat /\ Len(queue) \in Nat /\ (queue = <<>> => Len(queue) = 0)
    BY <1>a
  <2> QED
    BY <1>2, <2>3, <2>4
<1> QED
  BY <1>1, <1>2

\* A step that moves no packet.
LEMMA NoMove ==
    ASSUME Placement, UNCHANGED <<admitted, processed, outcomes>>,
           Published' = Published, Hand' = Hand,
           \A p \in Hand : ppacket'[p] = ppacket[p]
    PROVE  Placement'
<1>1. \A n : HasPlace(n)' <=> HasPlace(n)
  BY DEF HasPlace
<1> QED
  BY <1>1 DEF Placement

\* A packet that was not published before comes into its publisher's hand.
LEMMA EnterHand ==
    ASSUME Placement, UNCHANGED <<admitted, processed, outcomes>>,
           NEW p \in Publishers, NEW n, n \notin Published,
           Published' = Published \cup {n}, Hand' = Hand \cup {p}, p \notin Hand,
           ppacket'[p] = n, \A q \in Hand : ppacket'[q] = ppacket[q]
    PROVE  Placement'
<1>1. \A m \in Published' : HasPlace(m)'
  BY DEF Placement, HasPlace
<1>2. /\ \A k \in 1..Len(admitted) : admitted[k] # n
      /\ \A i \in 1..Len(outcomes) : outcomes[i].lifecycle_id # n
      /\ \A q \in Hand : ppacket[q] # n
  BY DEF Placement
<1> QED
  BY <1>1, <1>2 DEF Placement

\* A packet goes from its publisher's hand to the end of the line.
LEMMA HandToLine ==
    ASSUME TypeOK, Placement, NEW p \in Hand, UNCHANGED <<processed, outcomes>>,
           HandoffIsFifo, admitted' = Append(admitted, ppacket[p]),
           Published' = Published, Hand' = Hand \ {p}, ppacket' = ppacket
    PROVE  Placement'
<1> DEFINE m == Len(admitted) + 1
<1>0. Len(processed) \in Nat /\ Len(admitted) \in Nat /\ Len(processed) =< Len(admitted)
  BY Line
<1>1. /\ 1..Len(admitted') = (1..Len(admitted)) \cup {m}
      /\ admitted'[m] = ppacket[p]
      /\ \A k \in 1..Len(admitted) : admitted'[k] = admitted[k]
      /\ \A k \in 1..Len(processed) : k \in 1..Len(admitted)
  <2>1. admitted \in Seq(Nat) /\ ppacket[p] \in Nat
    BY DEF TypeOK, Hand
  <2> QED
    BY <1>0, <2>1, AppendProperties
<1> HIDE DEF m
<1>2. \A n \in Published' : HasPlace(n)'
  <2> SUFFICES ASSUME NEW n \in Published PROVE HasPlace(n)'
    OBVIOUS
  <2>1. HasPlace(n)
    BY DEF Placement
  <2>2. CASE \E k \in 1..Len(admitted) : admitted[k] = n
    BY <1>1, <2>2 DEF HasPlace
  <2>3. CASE \E i \in 1..Len(outcomes) : outcomes[i].lifecycle_id = n
    BY <2>3 DEF HasPlace
  <2>4. CASE \E q \in Hand : ppacket[q] = n
    BY <1>1, <2>4 DEF HasPlace
  <2> QED
    BY <2>1, <2>2, <2>3, <2>4 DEF HasPlace
<1>3. /\ \A k \in 1..Len(admitted') : admitted'[k] \in Published'
      /\ \A k, l \in 1..Len(admitted') : k # l => admitted'[k] # admitted'[l]
      /\ \A q \in Hand' : \A k \in 1..Len(admitted') : admitted'[k] # ppacket'[q]
  BY <1>1 DEF Placement
<1>4. \A k \in 1..Len(admitted') : \A i \in 1..Len(outcomes') :
         outcomes'[i].lifecycle_id = admitted'[k] => k =< Len(processed')
  BY <1>1 DEF Placement
<1>5. \A k \in 1..Len(processed') : \E i \in 1..Len(outcomes') :
         outcomes'[i].lifecycle_id = admitted'[k]
  BY <1>1 DEF Placement
<1>6. /\ \A i \in 1..Len(outcomes') : outcomes'[i].lifecycle_id \in Published'
      /\ \A i, j \in 1..Len(outcomes') :
            i # j => outcomes'[i].lifecycle_id # outcomes'[j].lifecycle_id
      /\ \A q \in Hand' : ppacket'[q] \in Published'
      /\ \A q, r \in Hand' : q # r => ppacket'[q] # ppacket'[r]
      /\ \A q \in Hand' : \A i \in 1..Len(outcomes') :
            outcomes'[i].lifecycle_id # ppacket'[q]
  BY DEF Placement
<1> QED
  BY <1>2, <1>3, <1>4, <1>5, <1>6, Zenon DEF Placement

\* A packet is dropped from its publisher's hand.
LEMMA HandToOutcome ==
    ASSUME TypeOK, Placement, NEW p \in Hand,
           NEW kind \in {"Injected", "QueueOverflow"},
           PushOutcome(p, ppacket[p], kind), UNCHANGED <<processed, admitted>>,
           Published' = Published, Hand' = Hand \ {p}, ppacket' = ppacket
    PROVE  Placement'
<1> DEFINE m == Len(outcomes) + 1
<1>1. /\ 1..Len(outcomes') = (1..Len(outcomes)) \cup {m}
      /\ outcomes'[m].lifecycle_id = ppacket[p]
      /\ \A i \in 1..Len(outcomes) : outcomes'[i] = outcomes[i]
  <2>1. /\ p \in Publishers \cup {Worker0} /\ ppacket[p] \in Nat
        /\ kind \in OutcomeTypes
    BY DEF Hand, TypeOK, OutcomeTypes
  <2> QED
    BY <2>1, Pushed
<1> HIDE DEF m
<1>2. \A n \in Published' : HasPlace(n)'
  <2> SUFFICES ASSUME NEW n \in Published PROVE HasPlace(n)'
    OBVIOUS
  <2>1. HasPlace(n)
    BY DEF Placement
  <2>2. CASE \E k \in 1..Len(admitted) : admitted[k] = n
    BY <2>2 DEF HasPlace
  <2>3. CASE \E i \in 1..Len(outcomes) : outcomes[i].lifecycle_id = n
    BY <1>1, <2>3 DEF HasPlace
  <2>4. CASE \E q \in Hand : ppacket[q] = n
    BY <1>1, <2>4 DEF HasPlace
  <2> QED
    BY <2>1, <2>2, <2>3, <2>4 DEF HasPlace
<1>3. /\ \A i \in 1..Len(outcomes') : outcomes'[i].lifecycle_id \in Published'
      /\ \A i, j \in 1..Len(outcomes') :
            i # j => outcomes'[i].lifecycle_id # outcomes'[j].lifecycle_id
      /\ \A q \in Hand' : \A i \in 1..Len(outcomes') :
            outcomes'[i].lifecycle_id # ppacket'[q]
  BY <1>1 DEF Placement
<1>4. \A k \in 1..Len(admitted') : \A i \in 1..Len(outcomes') :
         outcomes'[i].lifecycle_id = admitted'[k] => k =< Len(processed')
  BY <1>1 DEF Placement
<1>5. \A k \in 1..Len(processed') : \E i \in 1..Len(outcomes') :
         outcomes'[i].lifecycle_id = admitted'[k]
  BY <1>1 DEF Placement
<1> QED
  BY <1>2, <1>3, <1>4, <1>5 DEF Placement

\* The worker's packet gets its outcome.
LEMMA LineToOutcome ==
    ASSUME TypeOK, Placement, HandoffIsFifo, processPacket,
           PushOutcome(Worker0, wpacket, Verdict(wpacket)),
           Published' = Published, Hand' = Hand, ppacket' = ppacket
    PROVE  Placement'
<1> DEFINE m == Len(outcomes) + 1
           h == Len(processed) + 1
<1>1. /\ 1..Len(outcomes') = (1..Len(outcomes)) \cup {m}
      /\ outcomes'[m].lifecycle_id = wpacket
      /\ \A i \in 1..Len(outcomes) : outcomes'[i] = outcomes[i]
  <2>1. wpacket \in Nat /\ Verdict(wpacket) \in OutcomeTypes
    BY VerdictType DEF TypeOK
  <2> QED
    BY <2>1, Pushed
<1>2. /\ Len(processed) \in Nat /\ h \in 1..Len(admitted) /\ admitted[h] = wpacket
      /\ Len(processed') = h /\ 1..h = (1..Len(processed)) \cup {h}
      /\ ~(h =< Len(processed)) /\ Len(admitted) \in Nat
      /\ \A k \in Nat : k =< Len(processed) => k =< h
  <2>1. Len(processed') = Len(processed) + 1
    BY AppendProperties DEF processPacket, TypeOK
  <2> QED
    BY <2>1, Line DEF processPacket, Busy
<1>3. admitted' = admitted
  BY DEF processPacket
<1> HIDE DEF m, h
<1>4. \A n \in Published' : HasPlace(n)'
  BY <1>1, <1>3 DEF Placement, HasPlace
<1>5. \A i \in 1..Len(outcomes) : outcomes[i].lifecycle_id # wpacket
  BY <1>2 DEF Placement
<1>6. /\ \A i \in 1..Len(outcomes') : outcomes'[i].lifecycle_id \in Published'
      /\ \A i, j \in 1..Len(outcomes') :
            i # j => outcomes'[i].lifecycle_id # outcomes'[j].lifecycle_id
      /\ \A q \in Hand' : \A i \in 1..Len(outcomes') :
            outcomes'[i].lifecycle_id # ppacket'[q]
  <2>1. wpacket \in Published /\ \A q \in Hand : ppacket[q] # wpacket
    BY <1>2 DEF Placement
  <2> QED
    BY <1>1, <1>5, <2>1 DEF Placement
<1>7. \A k \in 1..Len(admitted') : \A i \in 1..Len(outcomes') :
         outcomes'[i].lifecycle_id = admitted'[k] => k =< Len(processed')
  <2> SUFFICES ASSUME NEW k \in 1..Len(admitted), NEW i \in 1..Len(outcomes'),
                      outcomes'[i].lifecycle_id = admitted[k]
               PROVE  k =< h
    BY <1>2, <1>3
  <2>1. CASE i \in 1..Len(outcomes)
    BY <1>1, <1>2, <2>1 DEF Placement
  <2>2. CASE i = m
    <3>1. k = h
      BY <1>1, <1>2, <2>2 DEF Placement
    <3> QED
      BY <1>2, <3>1
  <2> QED
    BY <1>1, <2>1, <2>2
<1>8. \A k \in 1..Len(processed') : \E i \in 1..Len(outcomes') :
         outcomes'[i].lifecycle_id = admitted'[k]
  <2> SUFFICES ASSUME NEW k \in (1..Len(processed)) \cup {h}
               PROVE  \E i \in 1..Len(outcomes') : outcomes'[i].lifecycle_id = admitted[k]
    BY <1>2, <1>3
  <2>1. CASE k \in 1..Len(processed)
    BY <1>1, <2>1 DEF Placement
  <2>2. CASE k = h
    BY <1>1, <1>2, <2>2
  <2> QED
    BY <2>1, <2>2
<1> QED
  BY <1>3, <1>4, <1>6, <1>7, <1>8 DEF Placement

\* Every step of a runtime preserves the placement of packets.
LEMMA PlacementStep ==
    TypeOK /\ HandoffIsFifo /\ Places /\ RecordInv /\ Placement /\ [RNext]_allVars
    => Placement'
<1> SUFFICES ASSUME TypeOK, HandoffIsFifo, Places, RecordInv, Placement,
                    [RNext]_allVars
             PROVE  Placement'
  OBVIOUS
<1> USE DEF allVars, vars, pubVars, resultVars, replayVars, policyVars,
            recorderVars, collectorVars
<1>a. /\ ppc \in [Publishers -> {"idle", "record", "inject", "admit", "drop", "notify"}]
      /\ ppacket \in [Publishers -> Nat] /\ Player \in Publishers
      /\ next \in Nat \ {0} /\ stage \in {"original", "replay"}
      /\ Len(records) \in Nat
  BY ReplayAssumption DEF TypeOK
<1>b. ASSUME UNCHANGED <<stage, next>>, stage = "replay" => records' = records
      PROVE  Published' = Published
  BY <1>a, <1>b DEF Published
<1>1. ASSUME NEW p \in Publishers, PublishRx(p) PROVE Placement'
  <2>1. Published' = Published \cup {next} /\ next \notin Published
    BY <1>a, <1>1 DEF PublishRx, Published
  <2>2. /\ Hand' = Hand \cup {p} /\ p \notin Hand /\ ppacket'[p] = next
        /\ \A q \in Hand : ppacket'[q] = ppacket[q]
    BY <1>a, <1>1 DEF PublishRx, Hand
  <2>3. UNCHANGED <<admitted, processed, outcomes>>
    BY <1>1 DEF PublishRx
  <2> QED
    BY <2>1, <2>2, <2>3, EnterHand
<1>2. ASSUME NEW p \in Publishers, Recorded(p) \/ Silent(Notify(p)) PROVE Placement'
  <2>1. Published' = Published
    BY <1>a, <1>b, <1>2 DEF Recorded, TakeSequence, AppendRecord, Silent, Notify, Places
  <2>2. Hand' = Hand
    BY <1>a, <1>2 DEF Recorded, TakeSequence, AppendRecord, Admission, Silent, Notify,
       Hand
  <2>3. UNCHANGED <<admitted, processed, outcomes, ppacket>>
    BY <1>2 DEF Recorded, TakeSequence, AppendRecord, Silent, Notify
  <2> QED
    BY <2>1, <2>2, <2>3, NoMove
<1>3. ASSUME NEW p \in Publishers, Silent(Admit(p)) PROVE Placement'
  <2>1. /\ Published' = Published /\ p \in Hand
        /\ UNCHANGED <<processed, outcomes, ppacket>>
    BY <1>a, <1>b, <1>3 DEF Silent, Admit, Hand
  <2>2. CASE ppc' = [ppc EXCEPT ![p] = "drop"] /\ admitted' = admitted
    <3>1. Hand' = Hand
      BY <1>a, <1>3, <2>2 DEF Silent, Admit, Hand
    <3> QED
      BY <2>1, <2>2, <3>1, NoMove
  <2>3. CASE /\ ppc' = [ppc EXCEPT ![p] = "notify"]
             /\ admitted' = Append(admitted, ppacket[p])
    <3>1. Hand' = Hand \ {p}
      BY <1>a, <2>3 DEF Hand
    <3> QED
      BY <2>1, <2>3, <3>1, HandToLine
  <2> QED
    BY <1>3, <2>2, <2>3 DEF Silent, Admit
<1>4. ASSUME NEW p \in Publishers, recordDropped(p) PROVE Placement'
  <2>1. CASE ppc[p] \in {"inject", "drop"} /\ TakeOutcomeSequence(p)
    <3>1. /\ Published' = Published
          /\ UNCHANGED <<admitted, processed, outcomes, ppacket, ppc>>
      BY <1>b, <2>1 DEF TakeOutcomeSequence
    <3>2. Hand' = Hand
      BY <3>1 DEF Hand
    <3> QED
      BY <3>1, <3>2, NoMove
  <2>2. ASSUME NEW kind \in {"Injected", "QueueOverflow"},
               PushOutcome(p, ppacket[p], kind), ppc[p] \in {"inject", "drop"},
               ppc' = [ppc EXCEPT ![p] = "idle"],
               UNCHANGED <<admitted, processed, ppacket, next>>
        PROVE  Placement'
    <3>1. Published' = Published
      BY <1>b, <2>2 DEF PushOutcome
    <3>2. Hand' = Hand \ {p} /\ p \in Hand
      BY <1>a, <2>2 DEF Hand
    <3> QED
      BY <2>2, <3>1, <3>2, HandToOutcome
  <2>3. CASE InjectedDrop(p) /\ PushOutcome(p, ppacket[p], "Injected")
    BY <2>2, <2>3 DEF InjectedDrop
  <2>4. CASE PublishOverflow(p) /\ PushOutcome(p, ppacket[p], "QueueOverflow")
    BY <2>2, <2>4 DEF PublishOverflow
  <2> QED
    BY <1>4, <2>1, <2>3, <2>4 DEF recordDropped
<1>5. CASE recordProcessed \/ recordRefused
  <2>1. Published' = Published /\ UNCHANGED <<ppc, ppacket>>
    BY <1>b, <1>5, WorkerPublishes DEF TakeOutcomeSequence, processPacket, PushOutcome
  <2>2. Hand' = Hand
    BY <2>1 DEF Hand
  <2>3. CASE TakeOutcomeSequence(Worker0)
    <3>1. UNCHANGED <<admitted, processed, outcomes>>
      BY <2>3 DEF TakeOutcomeSequence
    <3> QED
      BY <2>1, <2>2, <3>1, NoMove
  <2>4. CASE processPacket /\ PushOutcome(Worker0, wpacket, Verdict(wpacket))
    BY <2>1, <2>2, <2>4, LineToOutcome
  <2> QED
    BY <1>5, <2>3, <2>4, WorkerPublishes
<1>6. CASE \/ Silent(Lock) \/ Silent(Predicate) \/ Silent(Block)
           \/ Silent(SpuriousWakeup) \/ Silent(DestroyRuntime)
           \/ Silent(NotifyAll) \/ Silent(Join) \/ UNCHANGED allVars
  <2>1. UNCHANGED <<stage, next, records, admitted, processed, outcomes, ppc, ppacket>>
    BY <1>6 DEF Silent, Lock, Predicate, Block, SpuriousWakeup, DestroyRuntime,
       Destroy, NotifyAll, Join
  <2>2. Published' = Published /\ Hand' = Hand
    BY <1>b, <2>1 DEF Hand
  <2> QED
    BY <2>1, <2>2, NoMove
<1>7. CASE replay
  <2>1. /\ stage = "replay" /\ stage' = "replay" /\ next' = next + 1
        /\ next \in 1..Len(records) /\ records' = records
    BY <1>a, <1>7 DEF replay
  <2>2. 1..next' - 1 = (1..next - 1) \cup {next}
    BY <1>a, <2>1
  <2>3. Published' = Published \cup {records[next].packet}
    BY <2>1, <2>2 DEF Published
  <2>4. \A i \in 1..next - 1 : i \in 1..Len(records) /\ i # next
    BY <1>a, <2>1
  <2>5. records[next].packet \notin Published
    BY <2>1, <2>4 DEF Published, RecordInv, RecordsComplete
  <2>6. /\ Hand' = Hand \cup {Player} /\ Player \notin Hand
        /\ ppacket'[Player] = records[next].packet
        /\ \A q \in Hand : ppacket'[q] = ppacket[q]
    BY <1>a, <1>7 DEF replay, Hand, Admission
  <2>7. UNCHANGED <<admitted, processed, outcomes>>
    BY <1>7 DEF replay
  <2> QED
    BY <1>a, <2>3, <2>5, <2>6, <2>7, EnterHand
<1>8. CASE StartReplay
  <2>1. /\ Len(admitted') = 0 /\ Len(processed') = 0 /\ Len(outcomes') = 0
        /\ stage' = "replay" /\ next' = 1
    BY <1>8, EmptySeq DEF StartReplay
  <2>2. Published' = {} /\ Hand' = {}
    BY <1>8, <2>1 DEF StartReplay, Published, Hand, Places
  <2> QED
    BY <2>1, <2>2 DEF Placement
<1> QED
  BY <1>1, <1>2, <1>3, <1>4, <1>5, <1>6, <1>7, <1>8 DEF RNext

\* A set that a list names without repetition has as many elements as the list.
LEMMA ListedOnce ==
    ASSUME NEW n \in Nat, NEW S, NEW f \in [1..n -> S],
           \A i, j \in 1..n : i # j => f[i] # f[j],
           \A x \in S : \E i \in 1..n : f[i] = x
    PROVE  Cardinality(S) = n
<1>1. IsFiniteSet(1..n) /\ Cardinality(1..n) = n
  BY FS_Interval
<1>2. f \in Bijection(1..n, S)
  BY DEF Bijection, Injection, Surjection, IsInjective
<1>3. ExistsBijection(1..n, S)
  BY <1>2 DEF ExistsBijection
<1> QED
  BY <1>1, <1>3, FS_Bijection

\* What holds of the outcomes in every state.
OutcomeInv == HandoffIsFifo /\ OutcomeNumbers /\ Placement

\* When a runtime has ended nothing is on its way any more.
LEMMA Ended ==
    ASSUME TypeOK, Places, RecordInv, OutcomeInv, dpc = "gone"
    PROVE  /\ Lifecycles(outcomes) = Packets(records)
           /\ stage = "original" => Packets(records) = 1..next - 1
           /\ Len(outcomes) = next - 1
           /\ {outcomes[i].sequence : i \in 1..Len(outcomes)} = 0..next - 2
<1>a. /\ next \in Nat \ {0} /\ Len(records) \in Nat /\ Len(outcomes) \in Nat
      /\ outcome_sequence \in Nat /\ stage \in {"original", "replay"}
  BY DEF TypeOK
<1>b. Hand = {} /\ Recording = {} /\ Collecting = {} /\ queue = <<>> /\ ~Busy
  BY DEF Places, Hand, Recording, Collecting, Busy
<1>c. Len(admitted) = Len(processed)
  BY <1>b, Line DEF OutcomeInv
<1>1. Lifecycles(outcomes) = Published
  <2>1. ASSUME NEW n \in Published PROVE n \in Lifecycles(outcomes)
    <3>1. HasPlace(n)
      BY <2>1 DEF OutcomeInv, Placement
    <3>2. CASE \E k \in 1..Len(admitted) : admitted[k] = n
      BY <1>c, <3>2 DEF OutcomeInv, Placement, Lifecycles
    <3>3. CASE \E i \in 1..Len(outcomes) : outcomes[i].lifecycle_id = n
      BY <3>3 DEF Lifecycles
    <3> QED
      BY <1>b, <3>1, <3>2, <3>3 DEF HasPlace
  <2>2. ASSUME NEW n \in Lifecycles(outcomes) PROVE n \in Published
    BY <2>2 DEF OutcomeInv, Placement, Lifecycles
  <2> QED
    BY <2>1, <2>2
<1>2. stage = "original" => Packets(records) = 1..next - 1 /\ Published = 1..next - 1
  <2>1. {ppacket[p] : p \in Recording} = {}
    BY <1>b
  <2> QED
    BY <2>1 DEF RecordInv, RecordsComplete, Published
<1>3. stage = "replay" => Published = Packets(records) /\ Len(records) = next - 1
  <2> SUFFICES ASSUME stage = "replay"
               PROVE  Published = Packets(records) /\ Len(records) = next - 1
    OBVIOUS
  <2>1. Len(records) = next - 1
    BY <1>a DEF Places
  <2> QED
    BY <2>1 DEF Published, Packets
<1>4. Cardinality(Published) = next - 1
  <2>1. CASE stage = "original"
    BY <1>a, <1>2, <2>1, FS_Interval
  <2>2. CASE stage = "replay"
    <3> DEFINE g == [i \in 1..Len(records) |-> records[i].packet]
    <3>1. /\ g \in [1..Len(records) -> Packets(records)]
          /\ \A n \in Packets(records) : \E i \in 1..Len(records) : g[i] = n
      BY DEF Packets
    <3>2. \A i, j \in 1..Len(records) : i # j => g[i] # g[j]
      BY DEF RecordInv, RecordsComplete
    <3> HIDE DEF g
    <3>3. Cardinality(Packets(records)) = Len(records)
      BY <1>a, <3>1, <3>2, ListedOnce
    <3> QED
      BY <1>3, <2>2, <3>3
  <2> QED
    BY <1>a, <2>1, <2>2
<1>5. Len(outcomes) = next - 1
  <2> DEFINE f == [i \in 1..Len(outcomes) |-> outcomes[i].lifecycle_id]
  <2>1. /\ f \in [1..Len(outcomes) -> Lifecycles(outcomes)]
        /\ \A n \in Lifecycles(outcomes) : \E i \in 1..Len(outcomes) : f[i] = n
    BY DEF Lifecycles
  <2>2. \A i, j \in 1..Len(outcomes) : i # j => f[i] # f[j]
    BY DEF OutcomeInv, Placement
  <2> HIDE DEF f
  <2>3. Cardinality(Lifecycles(outcomes)) = Len(outcomes)
    BY <1>a, <2>1, <2>2, ListedOnce
  <2> QED
    BY <1>1, <1>4, <2>3
<1>6. {outcomes[i].sequence : i \in 1..Len(outcomes)} = 0..next - 2
  <2> DEFINE S == {outcomes[i].sequence : i \in 1..Len(outcomes)}
             h == [i \in 1..Len(outcomes) |-> outcomes[i].sequence]
  <2>1. S = 0..outcome_sequence - 1
    <3>1. {taken[t] : t \in Collecting} = {}
      BY <1>b
    <3> QED
      BY <3>1 DEF OutcomeInv, OutcomeNumbers
  <2>2. h \in [1..Len(outcomes) -> S] /\ \A x \in S : \E i \in 1..Len(outcomes) : h[i] = x
    OBVIOUS
  <2>3. \A i, j \in 1..Len(outcomes) : i # j => h[i] # h[j]
    BY DEF OutcomeInv, OutcomeNumbers
  <2> HIDE DEF S, h
  <2>4. Cardinality(S) = Len(outcomes)
    BY <1>a, <2>2, <2>3, ListedOnce
  <2>5. Cardinality(0..outcome_sequence - 1) = outcome_sequence
    BY <1>a, FS_Interval
  <2>6. outcome_sequence = next - 1
    BY <1>5, <2>1, <2>4, <2>5
  <2>7. S = 0..next - 2
    BY <1>a, <2>1, <2>6
  <2> QED
    BY <2>7 DEF S
<1> QED
  BY <1>a, <1>1, <1>2, <1>3, <1>5, <1>6

\* Everything known of records and outcomes holds in every state.
LEMMA OutcomesHold == RSpec => [](TypeOK /\ Places /\ RecordInv /\ OutcomeInv)
<1>1. RInit => OutcomeNumbers /\ Placement
  <2> SUFFICES ASSUME RInit PROVE OutcomeNumbers /\ Placement
    OBVIOUS
  <2>1. /\ Len(outcomes) = 0 /\ Len(admitted) = 0 /\ Len(processed) = 0
        /\ next = 1 /\ stage = "original" /\ outcome_sequence = 0
        /\ Hand = {} /\ Collecting = {}
    BY EmptySeq DEF RInit, Init, Hand, Collecting
  <2>2. Published = {}
    BY <2>1 DEF Published
  <2> QED
    BY <2>1, <2>2 DEF OutcomeNumbers, Placement
<1>2. /\ TypeOK /\ Places /\ RecordInv /\ HandoffIsFifo
      /\ OutcomeNumbers /\ Placement /\ [RNext]_allVars
      => (OutcomeNumbers /\ Placement)'
  BY NumbersStep, PlacementStep
<1> QED
  BY <1>1, <1>2, RecordHolds, HandoffIsFifoCorrect, PTL DEF RSpec, OutcomeInv

\* A runtime that has ended has exactly one outcome for every packet published
\* in it, numbered without gaps, whichever way packets were dropped, queued
\* and drained.
THEOREM OneOutcomeEachCorrect == RSpec => []OneOutcomeEach
<1>1. TypeOK /\ Places /\ RecordInv /\ OutcomeInv => OneOutcomeEach
  BY Ended DEF OneOutcomeEach
<1> QED
  BY <1>1, OutcomesHold, PTL

-----------------------------------------------------------------------------
(* The replay agrees with the original.                                    *)

\* Exactly the lifecycles that a rule names are dropped by injection, and the
\* worker refuses exactly those it must.
Fits(kind, n) ==
    /\ kind = "Injected" <=> n \in rules
    /\ kind \in AfterQueue => kind = Verdict(n)

\* The rules are followed in both runtimes.
RulesFollowed ==
    /\ \A i \in 1..Len(outcomes) : Fits(outcomes[i].type, outcomes[i].lifecycle_id)
    /\ \A p \in Publishers :
          /\ ppc[p] = "inject" => ppacket[p] \in rules
          /\ ppc[p] \in {"admit", "drop"} => ppacket[p] \notin rules
    /\ \A k \in 1..Len(admitted) : admitted[k] \notin rules
    /\ stage = "replay" => \A n \in Packets(records) :
          /\ original[n] \in OutcomeTypes
          /\ Fits(original[n], n)

\* TypeOf names the type of one of the outcomes of a lifecycle.
LEMMA TypeOfOutcome ==
    ASSUME NEW os, NEW n \in Lifecycles(os)
    PROVE  \E i \in 1..Len(os) : os[i].lifecycle_id = n /\ TypeOf(os, n) = os[i].type
<1>1. \E i \in 1..Len(os) : os[i].lifecycle_id = n
  BY DEF Lifecycles
<1> DEFINE c == CHOOSE i \in 1..Len(os) : os[i].lifecycle_id = n
<1>2. c \in 1..Len(os) /\ os[c].lifecycle_id = n
  BY <1>1
<1> QED
  BY <1>2 DEF TypeOf

\* Every step of a runtime follows the rules.
LEMMA RulesStep ==
    TypeOK /\ Places /\ RecordInv /\ OutcomeInv /\ RulesFollowed /\ [RNext]_allVars
    => RulesFollowed'
<1> SUFFICES ASSUME TypeOK, Places, RecordInv, OutcomeInv, RulesFollowed,
                    [RNext]_allVars
             PROVE  RulesFollowed'
  OBVIOUS
<1> USE DEF allVars, vars, pubVars, resultVars, replayVars, policyVars,
            recorderVars, collectorVars
<1>a. /\ ppc \in [Publishers -> {"idle", "record", "inject", "admit", "drop", "notify"}]
      /\ ppacket \in [Publishers -> Nat] /\ Player \in Publishers /\ wpacket \in Nat
      /\ admitted \in Seq(Nat) /\ outcomes \in Seq(Outcomes)
  BY ReplayAssumption DEF TypeOK
<1>b. UNCHANGED <<rules, refused>> /\ \A kind, n : Fits(kind, n)' <=> Fits(kind, n)
  <2>1. UNCHANGED <<rules, refused>>
    BY WorkerPublishes DEF RNext, PublishRx, Recorded, TakeSequence, AppendRecord,
       Silent, recordDropped, TakeOutcomeSequence, PushOutcome, StartReplay, replay
  <2> QED
    BY <2>1 DEF Fits, Verdict
<1>c. ASSUME stage = "original" => stage' = "original",
             stage = "replay" => UNCHANGED <<records, original>>,
             \A i \in 1..Len(outcomes') :
                Fits(outcomes'[i].type, outcomes'[i].lifecycle_id),
             \A p \in Publishers :
                /\ ppc'[p] = "inject" => ppacket'[p] \in rules
                /\ ppc'[p] \in {"admit", "drop"} => ppacket'[p] \notin rules,
             \A k \in 1..Len(admitted') : admitted'[k] \notin rules
      PROVE  RulesFollowed'
  <2>1. (stage = "replay" => \A n \in Packets(records) :
          /\ original[n] \in OutcomeTypes
          /\ Fits(original[n], n))'
    <3>1. CASE stage = "original"
      BY <1>c, <3>1
    <3>2. CASE stage = "replay"
      BY <1>b, <1>c, <3>2 DEF RulesFollowed, Packets
    <3> QED
      BY <3>1, <3>2 DEF TypeOK
  <2> QED
    BY <1>b, <1>c, <2>1 DEF RulesFollowed
<1>d. /\ \A i \in 1..Len(outcomes) :
            Fits(outcomes[i].type, outcomes[i].lifecycle_id)
      /\ \A p \in Publishers :
            /\ ppc[p] = "inject" => ppacket[p] \in rules
            /\ ppc[p] \in {"admit", "drop"} => ppacket[p] \notin rules
      /\ \A k \in 1..Len(admitted) : admitted[k] \notin rules
  BY DEF RulesFollowed
<1>1. ASSUME NEW p \in Publishers, PublishRx(p) \/ Recorded(p) \/ Silent(Notify(p))
      PROVE  RulesFollowed'
  <2>1. /\ stage' = stage /\ UNCHANGED <<outcomes, admitted, original>>
        /\ stage = "replay" => records' = records
    BY <1>1 DEF PublishRx, Recorded, TakeSequence, AppendRecord, Silent, Notify, Places
  <2>2. \A q \in Publishers :
           /\ ppc'[q] = "inject" => ppacket'[q] \in rules
           /\ ppc'[q] \in {"admit", "drop"} => ppacket'[q] \notin rules
    BY <1>a, <1>d, <1>1 DEF PublishRx, Recorded, TakeSequence, AppendRecord, Admission,
       Silent, Notify
  <2> QED
    BY <1>c, <1>d, <2>1, <2>2
<1>2. ASSUME NEW p \in Publishers, Silent(Admit(p)) PROVE RulesFollowed'
  <2>1. UNCHANGED <<stage, outcomes, original, records, ppacket>>
    BY <1>2 DEF Silent, Admit
  <2>2. \A q \in Publishers :
           /\ ppc'[q] = "inject" => ppacket'[q] \in rules
           /\ ppc'[q] \in {"admit", "drop"} => ppacket'[q] \notin rules
    BY <1>a, <1>d, <1>2 DEF Silent, Admit
  <2>3. \A k \in 1..Len(admitted') : admitted'[k] \notin rules
    <3>1. ppacket[p] \notin rules /\ ppacket[p] \in Nat
      BY <1>a, <1>d, <1>2 DEF Silent, Admit
    <3>2. admitted' = admitted \/ admitted' = Append(admitted, ppacket[p])
      BY <1>2 DEF Silent, Admit
    <3>3. CASE admitted' = admitted
      BY <1>d, <3>3
    <3>4. CASE admitted' = Append(admitted, ppacket[p])
      <4> DEFINE m == Len(admitted) + 1
      <4>1. /\ 1..Len(admitted') = (1..Len(admitted)) \cup {m}
            /\ admitted'[m] = ppacket[p]
            /\ \A k \in 1..Len(admitted) : admitted'[k] = admitted[k]
        BY <1>a, <3>1, <3>4, AppendProperties
      <4> HIDE DEF m
      <4> QED
        BY <1>d, <3>1, <4>1
    <3> QED
      BY <3>2, <3>3, <3>4
  <2> QED
    BY <1>c, <1>d, <2>1, <2>2, <2>3
<1>3. ASSUME NEW t \in Publishers \cup {Worker0}, NEW n \in Nat,
             NEW kind \in OutcomeTypes,
             PushOutcome(t, n, kind), Fits(kind, n),
             UNCHANGED <<admitted, ppacket>>,
             \A p \in Publishers : ppc'[p] \in {ppc[p], "idle"}
      PROVE  RulesFollowed'
  <2>1. \A i \in 1..Len(outcomes') :
           Fits(outcomes'[i].type, outcomes'[i].lifecycle_id)
    <3> DEFINE m == Len(outcomes) + 1
    <3>1. /\ 1..Len(outcomes') = (1..Len(outcomes)) \cup {m}
          /\ outcomes'[m].type = kind /\ outcomes'[m].lifecycle_id = n
          /\ \A i \in 1..Len(outcomes) : outcomes'[i] = outcomes[i]
      BY <1>3, Pushed
    <3> HIDE DEF m
    <3> QED
      BY <1>d, <1>3, <3>1
  <2>2. UNCHANGED <<stage, records, original>>
    BY <1>3 DEF PushOutcome
  <2>3. \A p \in Publishers :
           /\ ppc'[p] = "inject" => ppacket'[p] \in rules
           /\ ppc'[p] \in {"admit", "drop"} => ppacket'[p] \notin rules
    BY <1>d, <1>3
  <2> QED
    BY <1>c, <1>d, <1>3, <2>1, <2>2, <2>3
<1>4. ASSUME UNCHANGED <<stage, outcomes, admitted, ppc, ppacket, records, original>>
      PROVE  RulesFollowed'
  BY <1>c, <1>d, <1>4
<1>5. ASSUME NEW p \in Publishers, recordDropped(p) PROVE RulesFollowed'
  <2>1. CASE TakeOutcomeSequence(p)
    BY <1>4, <2>1 DEF TakeOutcomeSequence
  <2>2. CASE InjectedDrop(p) /\ PushOutcome(p, ppacket[p], "Injected")
    <3>1. /\ ppacket[p] \in Nat /\ ppacket[p] \in rules /\ UNCHANGED <<admitted, ppacket>>
          /\ \A q \in Publishers : ppc'[q] \in {ppc[q], "idle"}
      BY <1>a, <1>d, <2>2 DEF InjectedDrop
    <3>2. Fits("Injected", ppacket[p]) /\ "Injected" \in OutcomeTypes
      BY <3>1 DEF Fits, AfterQueue, OutcomeTypes
    <3> QED
      BY <1>3, <2>2, <3>1, <3>2
  <2>3. CASE PublishOverflow(p) /\ PushOutcome(p, ppacket[p], "QueueOverflow")
    <3>1. /\ ppacket[p] \in Nat /\ ppacket[p] \notin rules
          /\ UNCHANGED <<admitted, ppacket>>
          /\ \A q \in Publishers : ppc'[q] \in {ppc[q], "idle"}
      BY <1>a, <1>d, <2>3 DEF PublishOverflow
    <3>2. Fits("QueueOverflow", ppacket[p]) /\ "QueueOverflow" \in OutcomeTypes
      BY <3>1 DEF Fits, AfterQueue, OutcomeTypes
    <3> QED
      BY <1>3, <2>3, <3>1, <3>2
  <2> QED
    BY <1>5, <2>1, <2>2, <2>3 DEF recordDropped
<1>6. CASE recordProcessed \/ recordRefused
  <2>1. CASE TakeOutcomeSequence(Worker0)
    BY <1>4, <2>1 DEF TakeOutcomeSequence
  <2>2. CASE processPacket /\ PushOutcome(Worker0, wpacket, Verdict(wpacket))
    <3>1. wpacket \notin rules
      <4>1. Busy
        BY <2>2 DEF processPacket, Busy
      <4> QED
        BY <1>d, <4>1, Line DEF OutcomeInv
    <3>2. UNCHANGED <<admitted, ppacket, ppc>>
      BY <2>2 DEF processPacket
    <3>3. Fits(Verdict(wpacket), wpacket) /\ Verdict(wpacket) \in OutcomeTypes
      BY <3>1 DEF Fits, Verdict, AfterQueue, OutcomeTypes
    <3> QED
      BY <1>a, <1>3, <2>2, <3>2, <3>3
  <2> QED
    BY <1>6, <2>1, <2>2, WorkerPublishes
<1>7. CASE \/ Silent(Lock) \/ Silent(Predicate) \/ Silent(Block)
           \/ Silent(SpuriousWakeup) \/ Silent(DestroyRuntime)
           \/ Silent(NotifyAll) \/ Silent(Join) \/ UNCHANGED allVars
  BY <1>4, <1>7 DEF Silent, Lock, Predicate, Block, SpuriousWakeup, DestroyRuntime,
     Destroy, NotifyAll, Join
<1>8. CASE replay
  <2>1. UNCHANGED <<stage, outcomes, admitted, records, original>>
    BY <1>8 DEF replay
  <2>2. \A q \in Publishers :
           /\ ppc'[q] = "inject" => ppacket'[q] \in rules
           /\ ppc'[q] \in {"admit", "drop"} => ppacket'[q] \notin rules
    BY <1>a, <1>d, <1>8 DEF replay, Admission
  <2> QED
    BY <1>c, <1>d, <2>1, <2>2
<1>9. CASE StartReplay
  <2>1. /\ Len(outcomes') = 0 /\ Len(admitted') = 0 /\ UNCHANGED <<ppc, records>>
        /\ \A p \in Publishers : ppc[p] = "idle"
        /\ stage = "original" /\ dpc = "gone"
        /\ original' = [n \in 1..next - 1 |-> TypeOf(outcomes, n)]
    BY <1>9, EmptySeq DEF StartReplay, Places
  <2>2. Lifecycles(outcomes) = Packets(records) /\ Packets(records) = 1..next - 1
    BY <2>1, Ended
  <2>3. ASSUME NEW n \in Packets(records)
        PROVE  /\ original'[n] \in OutcomeTypes
               /\ Fits(original'[n], n)
    <3>1. original'[n] = TypeOf(outcomes, n) /\ n \in Lifecycles(outcomes)
      BY <2>1, <2>2, <2>3
    <3>2. PICK i \in 1..Len(outcomes) : /\ outcomes[i].lifecycle_id = n
                                        /\ TypeOf(outcomes, n) = outcomes[i].type
      BY <3>1, TypeOfOutcome
    <3>3. outcomes[i] \in Outcomes
      BY <1>a, ElementOfSeq
    <3> QED
      BY <1>d, <3>1, <3>2, <3>3 DEF Outcomes
  <2>4. Packets(records)' = Packets(records)
    BY <2>1 DEF Packets
  <2> QED
    BY <1>b, <2>1, <2>3, <2>4 DEF RulesFollowed
<1> QED
  BY <1>1, <1>2, <1>5, <1>6, <1>7, <1>8, <1>9 DEF RNext

\* The rules are followed in every state.
LEMMA RulesHold == RSpec => []RulesFollowed
<1>1. RInit => RulesFollowed
  BY EmptySeq DEF RInit, Init, RulesFollowed
<1> QED
  BY <1>1, RulesStep, OutcomesHold, PTL DEF RSpec

\* A replay gives every lifecycle the outcome it had, injected drops and the
\* worker's refusals included, unless one of the two runtimes found its queue
\* full: for every set of lifecycle rules, every set of packets to refuse and
\* every interleaving of the two runs.  The every-n schedule is not covered.
THEOREM ReplayAgreesCorrect == RSpec => []ReplayAgrees
<1>1. TypeOK /\ Places /\ RecordInv /\ OutcomeInv /\ RulesFollowed => ReplayAgrees
  <2> SUFFICES ASSUME TypeOK, Places, RecordInv, OutcomeInv, RulesFollowed, Done,
                      NEW n \in Packets(records)
               PROVE  \/ TypeOf(outcomes, n) = original[n]
                      \/ "QueueOverflow" \in {TypeOf(outcomes, n), original[n]}
    BY DEF ReplayAgrees
  <2>1. n \in Lifecycles(outcomes)
    BY Ended DEF Done
  <2>2. PICK i \in 1..Len(outcomes) : /\ outcomes[i].lifecycle_id = n
                                      /\ TypeOf(outcomes, n) = outcomes[i].type
    BY <2>1, TypeOfOutcome
  <2>3. outcomes[i].type \in OutcomeTypes
    <3>1. outcomes[i] \in Outcomes
      BY ElementOfSeq DEF TypeOK
    <3> QED
      BY <3>1 DEF Outcomes
  <2>4. /\ original[n] \in OutcomeTypes
        /\ Fits(original[n], n) /\ Fits(outcomes[i].type, n)
    BY <2>2 DEF RulesFollowed, Done
  <2> QED
    BY <2>2, <2>3, <2>4 DEF Fits, AfterQueue, OutcomeTypes
<1> QED
  BY <1>1, OutcomesHold, RulesHold, PTL

\* In the replay the player holds the latest record, and packets were admitted
\* in the order of the records.
PlayedInOrder ==
    stage = "replay" =>
        /\ \A p \in Hand : ppacket[p] = records[next - 1].packet
        /\ \A k, l \in 1..Len(admitted) :
              k < l => Position(admitted[k]) < Position(admitted[l])
        /\ \A i \in 1..Len(outcomes) : outcomes[i].type \in AfterQueue =>
              \E k \in 1..Len(processed) : outcomes[i].lifecycle_id = admitted[k]

OrderInv == PlayedInOrder /\ ReplayOrder

\* In the replay a published packet has its place among the records played so
\* far, and what the player holds comes last.
LEMMA Positions ==
    ASSUME TypeOK, Places, RecordInv, stage = "replay"
    PROVE  /\ \A i \in 1..Len(records) : Position(records[i].packet) = i
           /\ \A n \in Published : Position(n) \in 1..next - 1
           /\ \A n \in Published : n # records[next - 1].packet => Position(n) < next - 1
<1>a. next \in Nat \ {0} /\ Len(records) \in Nat /\ next =< Len(records) + 1
  BY DEF TypeOK, Places
<1>1. ASSUME NEW i \in 1..Len(records) PROVE Position(records[i].packet) = i
  <2> DEFINE c == CHOOSE j \in 1..Len(records) : records[j].packet = records[i].packet
  <2>1. c \in 1..Len(records) /\ records[c].packet = records[i].packet
    OBVIOUS
  <2>2. c = i
    BY <2>1 DEF RecordInv, RecordsComplete
  <2> QED
    BY <2>2 DEF Position
<1>2. ASSUME NEW n \in Published
      PROVE  /\ Position(n) \in 1..next - 1
             /\ n # records[next - 1].packet => Position(n) < next - 1
  <2>1. PICK i \in 1..next - 1 : n = records[i].packet
    BY DEF Published
  <2>2. i \in 1..Len(records)
    BY <1>a
  <2>3. Position(n) = i
    BY <1>1, <2>1, <2>2
  <2>4. n # records[next - 1].packet => i # next - 1
    BY <2>1
  <2> QED
    BY <1>a, <2>3, <2>4
<1> QED
  BY <1>1, <1>2

\* A step of the replay that moves no packet keeps the order.
LEMMA OrderIdle ==
    ASSUME OrderInv, stage = "replay", Hand' \subseteq Hand,
           UNCHANGED <<stage, records, next, admitted, processed, outcomes, ppacket>>
    PROVE  OrderInv'
<1>1. \A n : Position(n)' = Position(n)
  BY DEF Position
<1>2. PlayedInOrder'
  BY <1>1 DEF OrderInv, PlayedInOrder
<1>3. ReplayOrder'
  BY <1>1 DEF OrderInv, ReplayOrder
<1> QED
  BY <1>2, <1>3 DEF OrderInv

\* The player's packet is admitted after all others.
LEMMA OrderAdmit ==
    ASSUME TypeOK, Places, RecordInv, OutcomeInv, OrderInv, stage = "replay",
           NEW p \in Hand, Hand' \subseteq Hand,
           admitted' = Append(admitted, ppacket[p]),
           UNCHANGED <<stage, records, next, processed, outcomes, ppacket>>
    PROVE  OrderInv'
<1> DEFINE m == Len(admitted) + 1
<1>1. \A n : Position(n)' = Position(n)
  BY DEF Position
<1>2. /\ 1..Len(admitted') = (1..Len(admitted)) \cup {m}
      /\ admitted'[m] = ppacket[p]
      /\ \A k \in 1..Len(admitted) : admitted'[k] = admitted[k] /\ k < m
      /\ \A k \in 1..Len(admitted) : ~(m < k)
      /\ ~(m < m)
      /\ \A k \in 1..Len(processed) : k \in 1..Len(admitted)
  <2>1. admitted \in Seq(Nat) /\ ppacket[p] \in Nat /\ Len(admitted) \in Nat
    BY DEF TypeOK, Hand
  <2>2. Len(processed) \in Nat /\ Len(processed) =< Len(admitted)
    BY Line DEF OutcomeInv
  <2> QED
    BY <2>1, <2>2, AppendProperties
<1> HIDE DEF m
<1>3. \A k \in 1..Len(admitted) : Position(admitted[k]) < Position(ppacket[p])
  <2>1. ppacket[p] = records[next - 1].packet /\ ppacket[p] \in Published
    BY DEF OrderInv, PlayedInOrder, OutcomeInv, Placement
  <2>2. Position(ppacket[p]) = next - 1
    <3>1. next - 1 \in 1..Len(records)
      <4>1. Position(ppacket[p]) \in 1..next - 1
        BY <2>1, Positions
      <4> QED
        BY <4>1 DEF TypeOK, Places
    <3> QED
      BY <2>1, <3>1, Positions
  <2>3. \A k \in 1..Len(admitted) : admitted[k] \in Published /\ admitted[k] # ppacket[p]
    BY DEF OutcomeInv, Placement
  <2> QED
    BY <2>1, <2>2, <2>3, Positions
<1>4. \A k, l \in 1..Len(admitted') :
         k < l => Position(admitted'[k]) < Position(admitted'[l])
  BY <1>2, <1>3 DEF OrderInv, PlayedInOrder
<1>5. \A i \in 1..Len(outcomes) : outcomes[i].type \in AfterQueue =>
         \E k \in 1..Len(processed) : outcomes[i].lifecycle_id = admitted'[k]
  BY <1>2 DEF OrderInv, PlayedInOrder
<1>6. \A q \in Hand' : ppacket'[q] = records'[next' - 1].packet
  BY DEF OrderInv, PlayedInOrder
<1>7. PlayedInOrder'
  BY <1>1, <1>4, <1>5, <1>6, Zenon DEF PlayedInOrder
<1>8. ReplayOrder'
  BY <1>1 DEF OrderInv, ReplayOrder
<1> QED
  BY <1>7, <1>8 DEF OrderInv

\* An outcome that comes after those of its kind.
LEMMA OrderPush ==
    ASSUME TypeOK, OrderInv, stage = "replay", Hand' \subseteq Hand,
           NEW t \in Publishers \cup {Worker0}, NEW n \in Nat,
           NEW kind \in OutcomeTypes,
           PushOutcome(t, n, kind),
           \A i \in 1..Len(outcomes) :
              (outcomes[i].type \in AfterQueue) = (kind \in AfterQueue) =>
                  Position(outcomes[i].lifecycle_id) < Position(n),
           1..Len(processed) \subseteq 1..Len(processed'),
           kind \in AfterQueue => \E k \in 1..Len(processed') : n = admitted[k],
           UNCHANGED <<next, admitted, ppacket>>
    PROVE  OrderInv'
<1> DEFINE m == Len(outcomes) + 1
<1>1. UNCHANGED <<stage, records>> /\ \A x : Position(x)' = Position(x)
  BY DEF PushOutcome, policyVars, recorderVars, Position
<1>2. /\ 1..Len(outcomes') = (1..Len(outcomes)) \cup {m}
      /\ outcomes'[m].type = kind /\ outcomes'[m].lifecycle_id = n
      /\ \A i \in 1..Len(outcomes) : outcomes'[i] = outcomes[i] /\ ~(m < i)
      /\ ~(m < m)
  <2>1. /\ Len(outcomes) \in Nat
        /\ 1..Len(outcomes') = (1..Len(outcomes)) \cup {m}
        /\ outcomes'[m].type = kind /\ outcomes'[m].lifecycle_id = n
        /\ \A i \in 1..Len(outcomes) : outcomes'[i] = outcomes[i]
    BY Pushed
  <2> QED
    BY <2>1
<1> HIDE DEF m
<1>3. \A i \in 1..Len(outcomes') : outcomes'[i].type \in AfterQueue =>
         \E k \in 1..Len(processed') : outcomes'[i].lifecycle_id = admitted'[k]
  BY <1>2 DEF OrderInv, PlayedInOrder
<1>4. PlayedInOrder'
  BY <1>1, <1>3 DEF OrderInv, PlayedInOrder
<1>5. ASSUME NEW i \in 1..Len(outcomes'), NEW j \in 1..Len(outcomes'), i < j,
             (outcomes'[i].type \in AfterQueue) = (outcomes'[j].type \in AfterQueue)
      PROVE  Position(outcomes'[i].lifecycle_id) < Position(outcomes'[j].lifecycle_id)
  <2>1. i \in 1..Len(outcomes)
    BY <1>2, <1>5
  <2>2. CASE j = m
    BY <1>2, <1>5, <2>1, <2>2
  <2>3. CASE j \in 1..Len(outcomes)
    BY <1>2, <1>5, <2>1, <2>3 DEF OrderInv, ReplayOrder
  <2> QED
    BY <1>2, <2>2, <2>3
<1>6. ReplayOrder'
  BY <1>1, <1>5 DEF ReplayOrder
<1> QED
  BY <1>4, <1>6 DEF OrderInv

\* Every step of a runtime preserves the order of the replay.
LEMMA OrderStep ==
    TypeOK /\ Places /\ RecordInv /\ OutcomeInv /\ OrderInv /\ [RNext]_allVars
    => OrderInv'
<1> SUFFICES ASSUME TypeOK, Places, RecordInv, OutcomeInv, OrderInv, [RNext]_allVars
             PROVE  OrderInv'
  OBVIOUS
<1> USE DEF allVars, vars, pubVars, resultVars, replayVars, policyVars,
            recorderVars, collectorVars
<1>a. /\ ppc \in [Publishers -> {"idle", "record", "inject", "admit", "drop", "notify"}]
      /\ ppacket \in [Publishers -> Nat] /\ Player \in Publishers /\ wpacket \in Nat
      /\ next \in Nat \ {0} /\ stage \in {"original", "replay"}
  BY ReplayAssumption DEF TypeOK
<1>b. CASE stage' = "original"
  BY <1>b DEF OrderInv, PlayedInOrder, ReplayOrder
<1>1. CASE StartReplay
  <2>1. /\ Len(admitted') = 0 /\ Len(outcomes') = 0 /\ UNCHANGED ppc
        /\ \A p \in Publishers : ppc[p] = "idle"
    BY <1>1, EmptySeq DEF StartReplay, Places
  <2>2. Hand' = {}
    BY <2>1 DEF Hand
  <2> QED
    BY <2>1, <2>2 DEF OrderInv, PlayedInOrder, ReplayOrder
<1>2. CASE replay
  <2>1. /\ stage = "replay" /\ next' = next + 1
        /\ UNCHANGED <<records, admitted, processed, outcomes>>
    BY <1>2 DEF replay
  <2>2. \A q \in Hand' : q = Player /\ ppacket'[q] = records[next].packet
    BY <1>a, <1>2 DEF replay, Hand, Places
  <2>3. \A n : Position(n)' = Position(n)
    BY <2>1 DEF Position
  <2>4. \A q \in Hand' : ppacket'[q] = records'[next' - 1].packet
    <3>1. next' - 1 = next
      BY <1>a, <2>1
    <3> QED
      BY <2>1, <2>2, <3>1
  <2>5. PlayedInOrder'
    BY <2>1, <2>3, <2>4 DEF OrderInv, PlayedInOrder
  <2>6. ReplayOrder'
    BY <2>1, <2>3 DEF OrderInv, ReplayOrder
  <2> QED
    BY <2>5, <2>6 DEF OrderInv
<1>3. ASSUME NEW p \in Publishers, PublishRx(p) \/ Recorded(p) PROVE OrderInv'
  <2>1. stage' = "original"
    BY <1>a, <1>3 DEF PublishRx, Recorded, TakeSequence, AppendRecord, Places
  <2> QED
    BY <1>b, <2>1
<1>4. ASSUME UNCHANGED <<stage, records, next, admitted, processed, outcomes, ppacket>>,
             Hand' \subseteq Hand
      PROVE  OrderInv'
  BY <1>a, <1>b, <1>4, OrderIdle
<1>5. ASSUME NEW p \in Publishers, Silent(Notify(p)) PROVE OrderInv'
  <2>1. Hand' \subseteq Hand
    BY <1>a, <1>5 DEF Silent, Notify, Hand
  <2> QED
    BY <1>4, <1>5, <2>1 DEF Silent, Notify
<1>6. ASSUME NEW p \in Publishers, Silent(Admit(p)) PROVE OrderInv'
  <2>1. Hand' \subseteq Hand /\ p \in Hand
    BY <1>a, <1>6 DEF Silent, Admit, Hand
  <2>2. UNCHANGED <<stage, records, next, processed, outcomes, ppacket>>
    BY <1>6 DEF Silent, Admit
  <2>3. admitted' = admitted \/ admitted' = Append(admitted, ppacket[p])
    BY <1>6 DEF Silent, Admit
  <2> QED
    BY <1>a, <1>b, <1>4, <2>1, <2>2, <2>3, OrderAdmit
<1>7. ASSUME NEW p \in Publishers, recordDropped(p) PROVE OrderInv'
  <2>1. CASE TakeOutcomeSequence(p)
    <3>1. UNCHANGED <<stage, records, next, admitted, processed, outcomes, ppacket, ppc>>
      BY <2>1 DEF TakeOutcomeSequence
    <3>2. Hand' \subseteq Hand
      BY <3>1 DEF Hand
    <3> QED
      BY <1>4, <3>1, <3>2
  <2>2. ASSUME NEW kind \in {"Injected", "QueueOverflow"},
               PushOutcome(p, ppacket[p], kind), ppc[p] \in {"inject", "drop"},
               ppc' = [ppc EXCEPT ![p] = "idle"],
               UNCHANGED <<admitted, processed, ppacket, next>>
        PROVE  OrderInv'
    <3>1. Hand' \subseteq Hand /\ p \in Hand /\ ppacket[p] \in Nat
      BY <1>a, <2>2 DEF Hand
    <3>2. CASE stage = "original"
      BY <1>b, <2>2, <3>2 DEF PushOutcome
    <3>3. CASE stage = "replay"
      <4>1. ppacket[p] = records[next - 1].packet /\ ppacket[p] \in Published
        BY <3>1, <3>3 DEF OrderInv, PlayedInOrder, OutcomeInv, Placement
      <4>2. Position(ppacket[p]) = next - 1
        <5>1. next - 1 \in 1..Len(records)
          <6>1. Position(ppacket[p]) \in 1..next - 1
            BY <3>3, <4>1, Positions
          <6> QED
            BY <3>3, <6>1 DEF TypeOK, Places
        <5> QED
          BY <3>3, <4>1, <5>1, Positions
      <4>3. \A i \in 1..Len(outcomes) : /\ outcomes[i].lifecycle_id \in Published
                                        /\ outcomes[i].lifecycle_id # ppacket[p]
        BY <3>1 DEF OutcomeInv, Placement
      <4>4. \A i \in 1..Len(outcomes) :
               Position(outcomes[i].lifecycle_id) < Position(ppacket[p])
        BY <3>3, <4>1, <4>2, <4>3, Positions
      <4>5. 1..Len(processed) \subseteq 1..Len(processed')
        BY <2>2
      <4>6. kind \notin AfterQueue /\ kind \in OutcomeTypes
        BY DEF AfterQueue, OutcomeTypes
      <4> QED
        BY <2>2, <3>1, <3>3, <4>4, <4>5, <4>6, OrderPush
    <3> QED
      BY <1>a, <3>2, <3>3
  <2>3. CASE InjectedDrop(p) /\ PushOutcome(p, ppacket[p], "Injected")
    BY <2>2, <2>3 DEF InjectedDrop
  <2>4. CASE PublishOverflow(p) /\ PushOutcome(p, ppacket[p], "QueueOverflow")
    BY <2>2, <2>4 DEF PublishOverflow
  <2> QED
    BY <1>7, <2>1, <2>3, <2>4 DEF recordDropped
<1>8. CASE recordProcessed \/ recordRefused
  <2>1. CASE TakeOutcomeSequence(Worker0)
    <3>1. UNCHANGED <<stage, records, next, admitted, processed, outcomes, ppacket, ppc>>
      BY <2>1 DEF TakeOutcomeSequence
    <3>2. Hand' \subseteq Hand
      BY <3>1 DEF Hand
    <3> QED
      BY <1>4, <3>1, <3>2
  <2>2. CASE processPacket /\ PushOutcome(Worker0, wpacket, Verdict(wpacket))
    <3>1. UNCHANGED <<stage, next, admitted, ppacket, ppc>>
      BY <2>2 DEF processPacket, PushOutcome
    <3>2. Hand' \subseteq Hand
      BY <3>1 DEF Hand
    <3>3. CASE stage = "original"
      BY <1>b, <3>1, <3>3
    <3>4. CASE stage = "replay"
      <4> DEFINE h == Len(processed) + 1
      <4>1. /\ Len(processed) \in Nat /\ h \in 1..Len(admitted)
            /\ admitted[h] = wpacket /\ Len(processed') = h
            /\ Len(processed) =< Len(admitted) /\ Len(admitted) \in Nat
        <5>1. Len(processed') = Len(processed) + 1
          BY <2>2, AppendProperties DEF processPacket, TypeOK
        <5> QED
          BY <2>2, <5>1, Line DEF processPacket, Busy, OutcomeInv
      <4>2. /\ 1..Len(processed) \subseteq 1..Len(processed')
            /\ \E k \in 1..Len(processed') : wpacket = admitted[k]
            /\ \A k \in 1..Len(processed) : k \in 1..Len(admitted) /\ k < h
        BY <4>1
      <4> HIDE DEF h
      <4>3. ASSUME NEW i \in 1..Len(outcomes), outcomes[i].type \in AfterQueue
            PROVE  Position(outcomes[i].lifecycle_id) < Position(wpacket)
        <5>1. PICK k \in 1..Len(processed) : outcomes[i].lifecycle_id = admitted[k]
          BY <3>4, <4>3 DEF OrderInv, PlayedInOrder
        <5> QED
          BY <3>4, <4>1, <4>2, <5>1 DEF OrderInv, PlayedInOrder
      <4> QED
        BY <1>a, <2>2, <3>1, <3>2, <3>4, <4>2, <4>3, VerdictType, OrderPush
    <3> QED
      BY <1>a, <3>3, <3>4
  <2> QED
    BY <1>8, <2>1, <2>2, WorkerPublishes
<1>9. CASE \/ Silent(Lock) \/ Silent(Predicate) \/ Silent(Block)
           \/ Silent(SpuriousWakeup) \/ Silent(DestroyRuntime)
           \/ Silent(NotifyAll) \/ Silent(Join) \/ UNCHANGED allVars
  <2>1. UNCHANGED <<stage, next, records, admitted, processed, outcomes, ppc, ppacket>>
    BY <1>9 DEF Silent, Lock, Predicate, Block, SpuriousWakeup, DestroyRuntime,
       Destroy, NotifyAll, Join
  <2>2. Hand' \subseteq Hand
    BY <2>1 DEF Hand
  <2> QED
    BY <1>4, <2>1, <2>2
<1> QED
  BY <1>1, <1>2, <1>3, <1>5, <1>6, <1>7, <1>8, <1>9 DEF RNext

\* What the worker publishes in a replay, refusals included, follows the
\* records, and so do the drops of the player's thread, for every interleaving
\* of the two.
THEOREM ReplayOrderCorrect == RSpec => []ReplayOrder
<1>1. RInit => OrderInv
  BY DEF RInit, OrderInv, PlayedInOrder, ReplayOrder
<1>2. OrderInv => ReplayOrder
  BY DEF OrderInv
<1> QED
  BY <1>1, <1>2, OrderStep, OutcomesHold, PTL DEF RSpec
=============================================================================
