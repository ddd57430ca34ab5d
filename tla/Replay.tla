------------------------------- MODULE Replay -------------------------------
(***************************************************************************)
(* Replay verification: a runtime is recorded, its ingress is replayed     *)
(* into a fresh runtime, and the outcomes of the two are compared.         *)
(*                                                                         *)
(* ReplayRecorder, ReplayOutcomeCollector and ReplayPlayer are composed    *)
(* with PacketProcessor: they are callbacks on the same bus and run on the *)
(* threads of that module.  In the original runtime the recorder comes     *)
(* before the processor among the PacketRx subscribers; the replay runtime *)
(* has a player and no recorder.  Both have a collector and the same       *)
(* failure rules, keyed by lifecycle: terminal ones, since a delay rule    *)
(* only holds its publisher up.  The every-n schedule is left out, for it  *)
(* counts in the order of arrival, which a replay need not reproduce.      *)
(* A packet is its lifecycle; what processPacket makes of it is a property *)
(* of the packet, and the recorder copies packets whole.                   *)
(***************************************************************************)
EXTENDS PacketProcessor, Integers

CONSTANTS
    Policies,           \* sets of lifecycle rules: each the lifecycles to drop
    Refusals,           \* sets of lifecycles whose packets the worker refuses
    Player              \* the publisher that is ReplayPlayer's thread

Worker0 == "worker"     \* the worker, as an index of taken

ASSUME ReplayAssumption ==
    /\ Policies \subseteq SUBSET Nat /\ Refusals \subseteq SUBSET Nat
    /\ Player \in Publishers
    /\ Worker0 \notin Publishers

VARIABLES
    rules,              \* the lifecycle rules both runtimes are given
    refused,            \* the packets too long or without a timestamp
    stage,              \* the runtime that is running: "original", "replay"
    record_sequence,    \* ReplayRecorder::next_sequence_
    records,            \* ReplayRecorder::records_
    outcome_sequence,   \* ReplayOutcomeCollector::next_sequence_
    outcomes,           \* ReplayOutcomeCollector::outcomes_
    taken,              \* per thread: number taken for an entry not yet pushed
    original,           \* outcome type of each lifecycle of the original runtime
    prior               \* <<a, b>>: publish(a) had returned when publish(b) began

recorderVars  == <<record_sequence, records>>
collectorVars == <<outcome_sequence, outcomes>>
policyVars == <<rules, refused, stage>>
replayVars == <<policyVars, recorderVars, collectorVars, taken, original,
                prior>>
allVars == <<vars, replayVars>>

NoSequence == -1        \* no entry under construction

RInit ==
    /\ Init
    /\ rules \in Policies /\ refused \in Refusals /\ stage = "original"
    /\ record_sequence = 0 /\ records = <<>>
    /\ outcome_sequence = 0 /\ outcomes = <<>>
    /\ taken = [t \in Publishers \cup {Worker0} |-> NoSequence]
    /\ original = <<>> /\ prior = {}

\* The type of outcome a lifecycle had.
TypeOf(os, n) ==
    os[CHOOSE i \in 1..Len(os) : os[i].lifecycle_id = n].type

-----------------------------------------------------------------------------
(* Publishing and recording, on a publisher's thread.                      *)

InPublish == {ppacket[p] : p \in {q \in Publishers : ppc[q] # "idle"}}

PublishRx(p) ==
    /\ stage = "original" /\ dpc = "alive"
    /\ ppc[p] = "idle" /\ next =< MaxPackets
    /\ ppc' = [ppc EXCEPT ![p] = "record"]
    /\ ppacket' = [ppacket EXCEPT ![p] = next]
    /\ next' = next + 1
    /\ prior' = prior \cup (((1..next - 1) \ InPublish) \X {next})
    /\ UNCHANGED <<queue, running, lockedByWorker, wpc, wpacket, dpc,
                   resultVars, policyVars, recorderVars, collectorVars, taken,
                   original>>

\* Mutant of TakeSequence: the number is read and incremented separately, and
\* the increment is left out.
MutLoadSequence(p) ==
    /\ ppc[p] = "record" /\ taken[p] = NoSequence
    /\ taken' = [taken EXCEPT ![p] = record_sequence]
    /\ UNCHANGED <<vars, policyVars, recorderVars, collectorVars, original, prior>>

\* onPacketRx takes its number before it takes the mutex.
TakeSequence(p) ==
    /\ ppc[p] = "record" /\ taken[p] = NoSequence
    /\ taken' = [taken EXCEPT ![p] = record_sequence]
    /\ record_sequence' = record_sequence + 1
    /\ UNCHANGED <<vars, policyVars, records, collectorVars, original, prior>>

\* Mutant of Admission: the rule counts packets and ignores their lifecycle.
MutRuleByPosition(n) == IF (next - 1) \in rules THEN "inject" ELSE "admit"

\* FailureInjector: a rule that names the lifecycle drops the packet before
\* admission, whichever runtime it is in.
Admission(n) == IF n \in rules THEN "inject" ELSE "admit"

AppendRecord(p) ==
    /\ ppc[p] = "record" /\ taken[p] # NoSequence
    /\ records' = Append(records, [sequence |-> taken[p],
                                   packet   |-> ppacket[p]])
    /\ taken' = [taken EXCEPT ![p] = NoSequence]
    /\ ppc' = [ppc EXCEPT ![p] = Admission(ppacket[p])]
    /\ UNCHANGED <<queue, running, lockedByWorker, ppacket, next, wpc,
                   wpacket, dpc, resultVars, policyVars, record_sequence,
                   collectorVars, original, prior>>

-----------------------------------------------------------------------------
(* Collecting outcomes, on the thread that publishes the terminal event.   *)

TakeOutcomeSequence(t) ==
    /\ taken[t] = NoSequence
    /\ taken' = [taken EXCEPT ![t] = outcome_sequence]
    /\ outcome_sequence' = outcome_sequence + 1
    /\ UNCHANGED <<vars, policyVars, recorderVars, outcomes, original, prior>>

PushOutcome(t, n, kind) ==
    /\ taken[t] # NoSequence
    /\ outcomes' = Append(outcomes, [sequence |-> taken[t], type |-> kind,
                                     lifecycle_id |-> n])
    /\ taken' = [taken EXCEPT ![t] = NoSequence]
    /\ UNCHANGED <<policyVars, recorderVars, outcome_sequence, original, prior>>

\* The worker's end of a packet: the terminal event it publishes.
WorkerOutcome(kind) ==
    \/ wpc = "process" /\ TakeOutcomeSequence(Worker0)
    \/ processPacket /\ PushOutcome(Worker0, wpacket, kind)

recordProcessed == wpacket \notin refused /\ WorkerOutcome("Processed")

\* A payload over MAX_PAYLOAD_SIZE or a timestamp of 0: dropped by the worker,
\* in its turn and not before.
recordRefused == wpacket \in refused /\ WorkerOutcome("ValidationError")

\* An injected drop goes from inject to idle; an overflow is PacketProcessor's.
InjectedDrop(p) ==
    /\ ppc[p] = "inject"
    /\ ppc' = [ppc EXCEPT ![p] = "idle"]
    /\ UNCHANGED <<queue, running, lockedByWorker, ppacket, next, wpc,
                   wpacket, dpc, resultVars>>

\* The drops published on the subscriber's own thread.
recordDropped(p) ==
    \/ ppc[p] \in {"inject", "drop"} /\ TakeOutcomeSequence(p)
    \/ InjectedDrop(p) /\ PushOutcome(p, ppacket[p], "Injected")
    \/ PublishOverflow(p) /\ PushOutcome(p, ppacket[p], "QueueOverflow")

-----------------------------------------------------------------------------
(* The replay.                                                             *)

\* A fresh bus, processor and collector, once the original runtime is gone.
StartReplay ==
    /\ stage = "original" /\ dpc = "gone"
    /\ stage' = "replay" /\ prior' = {}
    /\ original' = [n \in 1..next - 1 |-> TypeOf(outcomes, n)]
    /\ queue' = <<>> /\ running' = TRUE /\ lockedByWorker' = FALSE
    /\ wpc' = "lock" /\ wpacket' = 0 /\ dpc' = "alive"
    /\ next' = 1 /\ ppacket' = [p \in Publishers |-> 0]
    /\ admitted' = <<>> /\ processed' = <<>> /\ overflowed' = {}
    /\ outcome_sequence' = 0 /\ outcomes' = <<>>
    /\ UNCHANGED <<ppc, rules, refused, recorderVars, taken>>

\* Mutant of replay: records are played by sequence number.
MutPlayBySequence ==
    /\ stage = "replay" /\ dpc = "alive"
    /\ ppc[Player] = "idle" /\ next =< Len(records)
    /\ \E r \in {records[i] : i \in 1..Len(records)} :
          /\ r.sequence = next - 1
          /\ ppacket' = [ppacket EXCEPT ![Player] = r.packet]
          /\ ppc' = [ppc EXCEPT ![Player] = Admission(r.packet)]
    /\ next' = next + 1
    /\ UNCHANGED <<queue, running, lockedByWorker, wpc, wpacket, dpc,
                   resultVars, replayVars>>

\* ReplayPlayer::replay publishes the records in the order of the vector;
\* the publish of one returns before the next begins.
replay ==
    /\ stage = "replay" /\ dpc = "alive"
    /\ ppc[Player] = "idle" /\ next =< Len(records)
    /\ ppacket' = [ppacket EXCEPT ![Player] = records[next].packet]
    /\ ppc' = [ppc EXCEPT ![Player] = Admission(records[next].packet)]
    /\ next' = next + 1
    /\ UNCHANGED <<queue, running, lockedByWorker, wpc, wpacket, dpc,
                   resultVars, replayVars>>

\* The replay runtime is destroyed when the player has returned.
DestroyRuntime ==
    /\ stage = "replay" => next > Len(records)
    /\ Destroy

-----------------------------------------------------------------------------
\* Steps of PacketProcessor that publish nothing.
Silent(A) == A /\ UNCHANGED replayVars

Recorded(p) == TakeSequence(p) \/ AppendRecord(p)

RNext ==
    \/ \E p \in Publishers :
          \/ PublishRx(p) \/ Recorded(p)
          \/ Silent(Admit(p)) \/ Silent(Notify(p)) \/ recordDropped(p)
    \/ Silent(Lock) \/ Silent(Predicate) \/ Silent(Block)
    \/ Silent(SpuriousWakeup) \/ recordProcessed \/ recordRefused
    \/ Silent(DestroyRuntime) \/ Silent(NotifyAll) \/ Silent(Join)
    \/ StartReplay \/ replay

\* As PacketProcessor; nobody is obliged to publish, destroy or replay.
RFairness ==
    /\ \A p \in Publishers :
          /\ SF_allVars(Silent(Admit(p)))
          /\ WF_allVars(Recorded(p) \/ recordDropped(p) \/ Silent(Notify(p)))
    /\ WF_allVars(Silent(Lock \/ Predicate \/ Block) \/ recordProcessed
                  \/ recordRefused)

RSpec == RInit /\ [][RNext]_allVars /\ RFairness

-----------------------------------------------------------------------------
(* Properties.                                                             *)

Packets(seq) == {seq[i].packet : i \in 1..Len(seq)}

\* The number is taken before the lock, so two publishers can append out of
\* sequence; still no packet is lost or recorded twice, numbers are unique,
\* and a packet published after another publish returned comes later, by
\* position and by number.
RecordedInOrder ==
    /\ stage = "original" =>
          Packets(records) \cup {ppacket[p] : p \in
              {q \in Publishers : ppc[q] = "record"}} = 1..next - 1
    /\ \A i, j \in 1..Len(records) :
          /\ i # j => /\ records[i].sequence # records[j].sequence
                      /\ records[i].packet # records[j].packet
          /\ <<records[i].packet, records[j].packet>> \in prior =>
                i < j /\ records[i].sequence < records[j].sequence

Lifecycles(os) == {os[i].lifecycle_id : i \in 1..Len(os)}

\* When a runtime has ended, every packet published in it has exactly one
\* outcome, numbered without gaps: the worker drains its queue, and neither
\* the drop paths nor the collector lose or repeat an event.
OneOutcomeEach ==
    dpc = "gone" =>
        /\ Len(outcomes) = next - 1
        /\ Lifecycles(outcomes) = Packets(records)
        /\ {outcomes[i].sequence : i \in 1..Len(outcomes)} = 0..next - 2

Done == stage = "replay" /\ dpc = "gone"

\* The replay reproduces the outcome of every lifecycle, injected drops and
\* the worker's refusals included, except where one of the runtimes found its
\* queue full.
ReplayAgrees ==
    Done => \A n \in Packets(records) :
        LET again == TypeOf(outcomes, n)
        IN  again = original[n] \/ "QueueOverflow" \in {again, original[n]}

\* Position of a lifecycle among the records.
Position(n) == CHOOSE i \in 1..Len(records) : records[i].packet = n

\* The outcomes that the worker publishes, and not the player's thread.
AfterQueue == {"Processed", "ValidationError"}

\* What the worker publishes in the replay, packets processed and packets
\* refused alike, appears in the order of the records, and so do the injected
\* and overflow drops of the player's thread.  Nothing orders the one against
\* the other: a drop before the queue overtakes every packet still in it, a
\* later refusal among them, so the drops taken together are not in order.
ReplayOrder ==
    stage = "replay" =>
        \A i, j \in 1..Len(outcomes) :
            /\ i < j
            /\ (outcomes[i].type \in AfterQueue) = (outcomes[j].type \in AfterQueue)
            => Position(outcomes[i].lifecycle_id) <
                   Position(outcomes[j].lifecycle_id)
=============================================================================
