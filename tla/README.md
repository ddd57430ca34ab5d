# Verification of the EdgeNetSwitch daemon

TLA+ models of the EdgeNetSwitch daemon (`src/`), the TLC runs that check
them and the TLAPS proofs about each of them.  Every module is written from
the C++ source; `PROJECT.json` maps each definition to the lines it models and
lists the runs, the mutants, the hazards and the findings.

## 1. The system

The daemon is one process with four threads.

| Thread | Runs | Started / ended |
| --- | --- | --- |
| main | construction, tick loop (`telemetry.onTick`, `healthMonitor.onTick`, status build and publish), shutdown | signal handler sets `g_receivedSignal` |
| epoll | `EpollEventLoop::run`: UDP handler, control handler, wakeup handler | `std::thread` in main; `stop()` + `join` |
| packet worker | `PacketProcessor`'s queue: validate, forward, publish the outcome | constructor / destructor |
| export | `TelemetryExportManager::exportLoop` | `start()` / `stop()` |

`MessagingBus::publish` calls the subscribers synchronously, in subscription
order, on the publisher's thread.  The only asynchronous hand-offs are the
packet queue and the export queue.

### Inventory

| Component | State | Operations | What makes it correct | Hard because |
| --- | --- | --- | --- | --- |
| `UdpReceiver` | socket, lifecycle generator, counters | `handleReadable`, `processReadableEvent`, `stop` | every datagram gets a lifecycle and an outcome; none stays in the socket | receive budget, read errors, rejection without `PacketRx` |
| `PacketParser`, `PacketValidator` | none | `parsePacket`, `validate` | verdict decides the path of a datagram | text format |
| `MessagingBus` | subscriber lists | `subscribe`, `publish` | all subscribers, in order | callbacks run on the publisher's thread |
| `FailureInjector` | `seen_packets_` | `inject` | every n-th counted packet fails; first rule wins | modulus and counting order |
| `PacketProcessor` | `queue_`, `running_`, mutex, cv | admission, worker loop, destructor | bounded FIFO, one outcome per packet, drained at the end | lost wakeups, overflow, shutdown |
| `PacketStats` | atomics, `completed_lifecycles_` | three callbacks, `snapshotAt` | each lifecycle counted once; snapshots balance | callbacks of two threads, partly locked reads |
| `ControlDispatch`, `ControlServer` | none / listening socket | commands, accept loop | accepted requests are answered | shares the epoll thread, unsynchronised reads, clients that leave |
| `SwitchForwardingEngine`, `MacTable`, `InterfaceRegistry` | table, port states | learn, lookup, evict, age, decide | latest port wins, egress only through ports that are up | clock steps, ties, full table |
| `TransportManager`, backends | counters | `transmit` | each egress port is counted once | failure of one port of several |
| `TelemetryExportManager` | `queue_`, `running_`, mutex, cv | `start`, `enqueue`, `stop`, `exportLoop` | newest samples kept, each sample accounted for | lost wakeups, throwing exporters |
| `EpollEventLoop`, `EpollManager`, `EventFd` | handlers, `running_`, eventfd counter | `run`, `wait`, dispatch, `stop` | `stop` ends the loop, no handler on a closed socket | stop before run, wakeup |
| `FileDescriptor`, `FdRegistry` | `fd_`, `registry_`; records | construct, move, release, reset | one owner per descriptor, records agree | number reuse between unlocked steps |
| main, `ShutdownRequest` | signal, reason, the objects of main's scope | construction, tick loop, shutdown, destruction | a signal ends the daemon, no thread outlives what it uses | signal during startup, startup failures, order of destruction |
| `HealthMonitor`, `Telemetry` | heartbeat, tick count | `onHeartbeat`, `onTick`, snapshots | alive iff a heartbeat is recent | wall clock, unsigned subtraction |
| `RuntimeStatusBuilder`, `SnapshotPublisher`, rate smoother | version, window | `build`, `publish`, `load`, `observe` | an answer is one whole tick, answers never go back, rates stay within what was observed | published to another thread, clock set back, counter wrap |
| Replay recorder, player, collector | records, outcomes, two sequence counters | record, collect, snapshot, replay | complete records and outcomes; a replay ends as the original did | numbers taken outside the lock, drops overtake queued packets |
| configuration, logging, CLI, exporters | files, terminal | parsing, formatting | - | - |

### Interactions

datagram -> `UdpReceiver` -> `PacketRx` -> (`PacketProcessor` admission, then
`PacketStats` ingress) -> queue -> worker -> (`SwitchForwardingEngine`,
`TransportManager`) -> `PacketProcessed` / `PacketDropped` -> `PacketStats`.
Control commands publish `PacketRx` from the epoll thread as well.
`telemetry.onTick` publishes `Telemetry`, whose subscriber calls
`HealthMonitor::onHeartbeat` and `TelemetryExportManager::enqueue`.

## 2. Modules

| Module | Models |
| --- | --- |
| `PacketLifecycle` | abstract promise: a lifecycle enters once, ends once, and moves one counter |
| `PacketPipeline` | receiver, send-packet, injector, admission, worker and the terminal callbacks, on two threads; refines `PacketLifecycle` |
| `MCPacketPipeline` | small bursts and failure rules for TLC |
| `PacketProcessor` | the hand-off of `PacketPipeline` with mutex, condition variable, flag and destructor |
| `PacketStats` | the callbacks counter by counter against `snapshotAt` |
| `TelemetryExport` | the export queue with mutex, condition variable, flag, `stop` |
| `Switching`, `MCSwitching` | MAC table, ports, decision, transport, and `transport-stats` reading its counters |
| `EventLoop` | epoll thread, eventfd, sockets, control clients, signals and the first half of shutdown |
| `Daemon` | `EventLoop` composed with the packet worker and the export thread: construction, startup failures, tick loop, shutdown, destruction, exit |
| `Replay` | `PacketProcessor` composed with recorder, outcome collector and player, an original runtime followed by its replay |
| `Descriptors` | `FileDescriptor` objects, registry records and kernel descriptors |
| `RuntimeStatus`, `MCRuntimeStatus` | main's tick: telemetry, heartbeat, health check, rate smoother, status building and publishing, commands answered from it |

Theorems are kept apart from the models, in `PacketPipelineProofs`,
`PacketStatsProofs`, `ReplayProofs` (which also covers `PacketProcessor`),
`TelemetryExportProofs`, `SwitchingProofs`, `DescriptorsProofs`,
`RuntimeStatusProofs` and `DaemonProofs` (which also covers `EventLoop`).

`PacketPipeline` is the core.  Its state is the kernel's queue of datagrams,
the next lifecycle id, the epoll thread's program point, packet and budget, the
injector's count, the queue, the worker's point and packet, and
`PacketStats`' counters.  Each action is one uninterrupted stretch of a thread:
reading and numbering a datagram (`Receive`), publishing a rejection
(`PublishReject`), the three parts of publishing `PacketRx` (`Inject`,
`Enqueue` under the mutex, `PublishDrop`, then `CountIngress`, since
`PacketStats` subscribes after `PacketProcessor`), and the worker's
`WorkerTake`, `WorkerReject`, `WorkerForward`, `WorkerPublish`.  The terminal
callbacks run under `lifecycle_mutex_`, so they are atomic there;
`PacketStats` splits them and shows what a concurrent reader sees.  The
admission under `queue_mutex_` is atomic there as well; `PacketProcessor`
splits it and shows that the hand-off behaves as a FIFO.

`Daemon` extends `EventLoop` and conjoins its actions with what they do to the
rest of the process.  `built` is the number of main's objects that are alive,
in order of declaration (those that can neither fail nor be used after a
release are left out of `Objects`); construction counts up, destruction counts
down.  A constructor or `EpollManager::add` that throws, and the destructor of
a joinable `std::thread`, end the process (`exit = "aborted"`), and so does an
answer whose JSON text `dump` refuses (`AnswerThrows`).  Of the two
worker threads it keeps the program point, the flag and whether there is work:
their queues have modules of their own.  `Replay` extends `PacketProcessor`
in the same way: the recorder's and the collector's callbacks are the steps
before and after those of the hand-off, and `StartReplay` replaces the runtime
by a fresh one whose only publisher is the player.  A packet's outcome depends
on `rules`, the injector's lifecycle rules, on `refused`, the packets whose
payload or timestamp the worker refuses, and on a full queue.

The other modules follow the same pattern: program counters named after the
calls, one action per stretch between two points where another thread can
intervene.  A condition-variable wait is three steps (predicate under the
mutex, release-and-block, wakeup), notifications reach only a blocked thread,
and spurious wakeups are allowed (in `Daemon` they are left out: they can only
help a thread that overslept its notification).

Abstractions: a datagram is its verdict (unparsable, refused, good); a packet
is its lifecycle id and three flags; MAC addresses and ports are numbers; a
telemetry sample is its number; byte counts, texts and log output are left out.
Timestamps in `Switching` are arbitrary members of a small set, because the code
uses the wall clock; subtraction is modulo `Word`.  A packet for a port
without a backend raises two counters in two steps, since the reader may come
between them.  In `RuntimeStatus` the
clock moves forwards or backwards before any call that reads it (each
component calls `nowMs()` for itself), and times and the packet counter are
unsigned modulo `Word`.  The exponential average is any value between the old
average and the new rate: with `alpha` in (0, 1] and rounding being monotone,
the code's value is one of them.  In the daemon
`FailureConfig{}` disables injection; the tests enable it, and so does the
`pipeline` run.  `ageOut`, `resetCounters` and `setState` after startup are
public operations without a caller in the daemon and are kept as environment
actions.

## 3. Runs

| Run | Question | Bounds |
| --- | --- | --- |
| `pipeline` | Does every packet end exactly once, under overflow, rejection, injection, read errors and reused ids? | queue 2, budget 2, 3 datagrams, 2 command packets |
| `steady_state` (violation) | Is nothing pending once nothing is in flight? | the broadcast command twice |
| `stats` | Do snapshots balance and never run backwards? | 2 threads, 2 ids, 3 callbacks |
| `replay` | Is the hand-off a FIFO that loses no wakeup and drains; are records and outcomes complete; does a replay end as the original did? | 2 publishers, queue 2, 3 packets, with and without a drop rule, with and without a packet the worker refuses |
| `processor_stop` (violation) | Does the destructor return? | 1 publisher, 1 packet |
| `export` | Are samples kept newest-first, accounted for, delivered in order? | capacities 0 and 2, 2 exporters, 4 samples |
| `switch` | Is the table right, egress sound, every port counted, also in a concurrent `transport-stats`? | 3 addresses, 3 ports, table of 2, ticks 0..1, 3 packets |
| `daemon` | Does a signal end the process cleanly, does any thread outlive what it uses, are requests served? | 1 client, 2 signals, 1 accept error, queue 1 |
| `loop_stop` (violation) | Does `stop()` always end the loop? | 2 clients, 2 signals, 1 accept error, with timeouts |
| `daemon_destroy` (violation) | Is no event delivered to a destroyed `PacketStats`? | no client, 1 signal, queue 2 |
| `status` | Are health verdicts, transitions, rates and answers right whatever the clock does? | 3 ticks, 3 clock movements over 3 times, `Word` 5, 0 or 2 packets per tick |
| `descriptors` | One holder per descriptor, and a registry that agrees? | 2 threads, 3 objects, 3 numbers |

Why the bounds suffice: a queue of two distinguishes head, tail, full and
overflow, and lets one packet be with the worker while another overflows; a
budget of two below three datagrams makes a wakeup end early; one burst id
collides with a datagram's id, as 999 collides with the 999th datagram.  Three
packets among three stations fill a table of two, evict, and use the result;
two ticks give ties and steps back.  Three objects and three numbers allow a
chain of moves while another thread reuses a number.  Three ticks give a first
rate, an average and a restart; three clock movements allow exactly the
timeout, beyond it, and a set back; two packets a tick wrap a counter modulo 5.
Three packets from two publishers overflow a queue of two, record out of
sequence, and let a drop overtake a queued packet that will be processed or
refused.  In `daemon` a packet may be
with the worker and another queued whenever shutdown comes; a second client
would only wait behind the first, which `EventLoop`'s backlog already
serialises, and two signals allow one to change the other between its two
reads.  Each property has a
mutant in `PROJECT.json`, a plausible bug in the modelled code under which
the run finds it violated, so no property holds only for want of behaviour.

Deadlock is checked in `switch`.  The other systems may stop: the environment's
events are bounded, and after a shutdown nothing remains to be done.

### What the properties say

*Packet path.*  `Conservation`: ids handed out equal terminal events, counted
or duplicate, plus packets in the publisher's hand, in the queue and with the
worker.  `NoLifecycleLost`: an id handed out is completed or still in flight.
`TerminalAccounting`: the counters of `PacketStats` balance and count distinct
lifecycles.  `PendingBounded`, `UdpOrder`, `InjectionSchedule`: the backlog
figure, the order of datagrams and the failure schedule.  `EveryLifecycleEnds`
and `SocketDrained` are liveness; `LifecycleRefinement` is the refinement of
`PacketLifecycle`, fairness included.

*Statistics.*  Although `snapshotAt` reads some counters outside the lock, a
snapshot's terminal events are its processed and dropped packets, it never
shows more received than processed packets, and no counter runs backwards
between snapshots, which the rate smoother's unsigned subtraction relies on.

*Hand-offs.*  `HandoffIsFifo`, `AdmittedIsProcessed`; `SampleConservation`, `QueueIsLatest`, `DeliveredInOrder`,
`ExporterIsolation`, `StoppedMeansDrained`, `QueueDrains`.

*Replay.*  `RecordedInOrder`: although two publishers can append out of
sequence, nothing is lost or repeated, and packets published one after the
other keep their order.  `OneOutcomeEach`: a runtime that has ended has exactly one
outcome per packet, numbered without gaps.  `ReplayAgrees`: a replay gives
every lifecycle the outcome it had, injected drops and the worker's refusals
included, unless a queue was full in one of the runtimes.  It speaks of
lifecycle rules, which depend on the packet alone.  `ReplayOrder`: what the
worker publishes, processed and refused packets together, follows the records,
and so do the injected and overflow drops of the player's thread.  Nothing
orders the two streams: an injected drop overtakes a queued packet that the
worker refuses later, so the drops as a whole are not in order.

*Switching.*  `LatestPortWins`, `EvictionIsOldest`, `EgressSound`, and
`TransportLedger`, which also bounds what a `transport-stats` answer adds up
to although its numbers stem from different moments, and `backend_unavailable`
by `tx_failed`, up to the packet between its two increments.

*Status.*  `HealthReports`: the verdict is right, at the limit too, and each
transition is published once.  `SmoothedWithinRaw`: the published
rate stays within the rates observed since the last restart, also after a
wrap.  `AnswerIsOneTick`, `AnswersMoveForward`: a command on the epoll thread
sees one whole status, and successive answers never go back.

*Daemon.*  `NoUseAfterRelease`: no running thread uses an object that main has
destroyed or a socket it has closed, except the worker, which does reach
`PacketStats` after its destruction; that is finding 4 and has a run of its
own.  `NoJoinableDestroyed`: `std::terminate` is reached only while main starts
up (including its early return without a control socket) or in the answer to a
client, and after a shutdown main destroys no `std::thread` that is still
joinable, whatever the threads were doing when the signal came.  It locates the
startup aborts and does not rule them out.
`ExitIsClean`: exit status 0 means that a signal asked for it, all threads have
ended with their work done, and no descriptor is left for the leak check.
`SignalEndsProcess`: a signal ends the process, without help from the wait's
timeout, except in the two situations the findings 2 and 3 describe; the
property names them, so it says that there is no third.
`EarlyRequestAnswered`: a request in the socket before its connection is
accepted is answered, unless the daemon is ending.

*Descriptors.*  `OneHolder`; `RegistryMatchesOwners`: the registry's active
records are the descriptors that objects own, which main's leak check
relies on.

### Fairness

- `PacketPipeline`: weak fairness of the two threads (an operating system
  thread that can run does run).  `Receive` has strong fairness: `recvfrom`
  may fail now and then, not for ever while data is there.
- `PacketProcessor`: weak fairness of worker, destructor and the rest of a
  subscriber's call; strong fairness of `Admit`, since the mutex is free
  again and again.  Nothing makes anyone publish or destroy.
- `TelemetryExport`: weak fairness of the export thread and of calls in
  progress; none of `start`, `enqueue`, `stop` or spurious wakeups.
- `Replay`: as `PacketProcessor`, the callbacks included; nothing makes anyone
  publish, destroy or replay.
- `Daemon`: weak fairness of each of the four threads while the process runs,
  and none of the wait's timeout, so termination does not lean on it.
- `EventLoop`, in the `loop_stop` run: `TimeoutSpec`, weak fairness of both
  threads and of the timeout, so that the violation is not an artefact of
  leaving it out.

### Findings

1. `steady_state`: commands publish packets with fixed lifecycle ids.  The
   second `send-packet:broadcast` raises `ingress_packets`, its outcome counts
   as a duplicate, and `pending_terminal_events` stays above 0 although
   docs/runtime/packet-lifecycle.md:105-108 promises 0.
2. `processor_stop`: the destructor clears `running_` and notifies without the
   mutex.  If the worker has evaluated its predicate and not yet blocked, the
   notification is lost and `join` waits for ever.
   `TelemetryExportManager::stop` follows the same protocol; both are among
   the situations `SignalEndsProcess` names.
3. `loop_stop`: `EpollEventLoop::run` stores `running_ = true`
   unconditionally, so a `stop()` that comes first, by a signal during
   startup, is undone and the daemon hangs in `join`.
4. `daemon_destroy`: `packetStats` is declared after `packetProcessor`, hence
   destroyed first.  A packet that is still queued is processed while
   `~PacketProcessor` waits, and its terminal event reaches a callback of the
   destroyed `PacketStats`, against docs/architecture/daemon.md:213-214.

Smaller observations, recorded as hazards or here only:
without a control socket main never returns `EXIT_FAILURE`: the export thread
is joinable when `exportManager` is destroyed, so the process is terminated
(`exit = "failure"` is unreachable in `Daemon`);
a control client that leaves before its answer is written raises SIGPIPE, which
ends the daemon; `makeJsonError` repeats text of the request, and its `dump`
throws on text that is not valid UTF-8, which nothing on the epoll thread
catches, so such an answer ends the daemon too (`AnswerThrows`); a
`transport-stats` answer may show more `backend_unavailable` than `tx_failed`,
being read in that order, and the former is also raised first;
`show:mac-table` copies the table on the epoll thread while the worker learns,
against docs/runtime/switching.md:255-256; a replay reproduces neither the
order of early drops against what the worker publishes, nor the outcomes of a
full queue, nor an every-n schedule if packets of two publishers were counted
and recorded in different orders,
where docs/runtime/replay-determinism.md:52-53 speaks of "the same ordered
terminal outcomes" (its tests wait for each packet); a datagram rejected by the
receiver lowers `pending_terminal_events` by one for ever, since it ends
without having been counted as ingress; and a control client whose request
comes after the server's single non-blocking read is closed unanswered; after
the clock was set back a timeout is reported that did not happen and
`uptime_ms` wraps to a huge number; `health` is answered from the last
published status, so a stuck main thread still looks alive; and `silence_ms`
is always 0, as nothing assigns `silence_duration_ms`, which
include/edgenetswitch/messaging/MessagingBus.hpp:48 describes as
`now - last_heartbeat_ms`.

## 4. Proofs

TLAPS proves every safety invariant that a passing run checks, and the three
action properties, as theorems `Spec => []P` or `Spec => P` for every value of
the constants that satisfies the modules' assumptions: any number of threads,
publishers, ports, addresses, exporters, objects or packets, every limit.  The
theorem about `P` is named `PCorrect`.  Each proof starts from the types
(`TypeOK` of the proof module) and has one step per action; TLC checked each
strengthening as an invariant before it was proved.

| Module | Theorems |
| --- | --- |
| `PacketPipelineProofs` | `TypeOK`, `Conservation`, `PendingBounded`, `TerminalAccounting`, `NoLifecycleLost`, `UdpOrder`, `InjectionSchedule`; `LifecycleSafety`, the safety part of the refinement of `PacketLifecycle` |
| `PacketStatsProofs` | `LatencyLedger`, `SnapshotLedger`, action property `SnapshotsMonotone` |
| `ReplayProofs` | `HandoffIsFifo`, `RecordedInOrder`, `OneOutcomeEach`, `ReplayAgrees`, `ReplayOrder` |
| `TelemetryExportProofs` | `SampleConservation`, `QueueIsLatest`, `StoppedMeansDrained`, `ExporterIsolation`, `DeliveredInOrder` |
| `SwitchingProofs` | `LatestPortWins`, `EgressSound`, `TransportLedger`, action property `EvictionIsOldest` |
| `DescriptorsProofs` | `OneHolder`, `RegistryMatchesOwners` |
| `RuntimeStatusProofs` | `SmoothedWithinRaw`, `AnswerIsOneTick`, `HealthReports`, action property `AnswersMoveForward` |
| `DaemonProofs` | `NoUseAfterRelease` (`PacketStats` excepted, see finding 4), `NoJoinableDestroyed`, `ExitIsClean` |

Assumptions are the `ASSUME`s of the modules: limits are natural numbers
(queue limits positive), sets of times and addresses consist of numbers below
the word size, commands publish packets marked as theirs, registered ports and
descriptors are finite in number, and the value that stands for "no thread" or
"the worker" is not a publisher.  TLC evaluates them in the runs.

### Arguments

*Packet path.*  `Conservation` is inductive given the types: every action
moves a packet between two places of the sum or brings one in together with
its id, and a terminal callback moves exactly one of the two event counters
(`ProcessedCounts`, `DroppedCounts`).  `PendingBounded` is not, for
`ingress_packets` is raised after the packet has been queued or dropped; the
strengthening `Counting` adds `IngressBehind`: ingress events plus the packet
in the publisher's hand or about to be counted never exceed the packets that
entered.  `TerminalAccounting` needs the finiteness of the set of completed
ids.  `UdpOrder` needs `OrderInv`: everything behind the publisher's datagram
is older than it and than the next id, and a command's packets are marked as
its own.  `InjectionSchedule` needs `ScheduleInv`, which counts the loss that
has been decided and not yet published.  `LifecycleSafety` shows for each
action that, under the mapping of `PacketPipeline`, it is a step of
`PacketLifecycle` or a stutter.

*Statistics.*  `lifecycle_mutex_` excludes (`MutexHeld`), so the state of the
counters is a function of the `Phase` of the one callback under way:
`CounterInv` and `LatencyInv` say by how much each counter lags in each phase.
The snapshot properties need `ReaderInv`: what a reader has read is behind the
counters and ahead of the snapshot before, and balances from the locked section
on.  The latency bound multiplies maximum and samples; the two products it
needs are lemmas (`ProductGrows`, `RaisedMaximum`).

*Hand-off and replay.*  `HandoffIsFifo` is inductive given the types.
`Places` ties the threads to the stage and the destructor: nobody is inside a
callback of a runtime that is being destroyed, and the worker ends only on an
empty queue.  `RecordedInOrder` needs `RecordInv`, which speaks of the callers
too: their packets are not recorded yet, their numbers are below the counter
and unlike all others, and a number held for a packet exceeds those of all
packets whose publish had returned before.  `OneOutcomeEach` needs the same
for the collector (`OutcomeNumbers`) and `Placement`: each published packet is
with its publisher, admitted or dropped, and an admitted one has an outcome
exactly when the worker has processed it.  At the end only outcomes are left,
and two counts of one list (`ListedOnce`) give its length.  `ReplayAgrees` adds
`RulesFollowed`: injected are exactly the lifecycles the rules name, in the
queue, in the hands and in both sets of outcomes, and a worker's outcome is a
refusal exactly for the packets it has to refuse (`Fits`); it is proved for
every set of rules and of refused packets.
`ReplayOrder` adds `PlayedInOrder`: the player holds the latest record, and
admission follows the records.

*Export.*  `QueueInv` joins the two queue properties with `ThreadPhases`, what
the program counters say of `running_` and the queue; `DeliveryInv` adds that
whatever an exporter has seen has left the queue.

*Switching.*  `LatestPortWins` needs the table's capacity (`TableInv`): a
table of capacity 0 never learns.  `EvictionIsOldest` rests on `LearnEvicts`
and `OldestIsOldest`, and these on the fact that every finite set of numbers
can be listed in ascending order (`AscendingLists`), which the model's
`std::map` order uses.  `EgressSound` needs that nothing remains to be sent
outside the transmit loop.  `TransportLedger` needs that what `transport-stats`
has read so far does not exceed the counter: nothing resets the counters
while the command runs.

*Descriptors.*  `OneHolder` and `RegistryMatchesOwners` are stated with
cardinalities and sets; the invariant `IInv` says the same of single
descriptors (`Holders`, `Recorded`) and describes each step of each call in
progress and that two calls do not share an object (`Calls`).

*Status.*  `TickInv` ties version, tick count and program state to main's
step, says which fields of the status under construction are filled in, and
that the stored snapshot is the current version except between taking a version
and storing it.  `OrderInv` orders answer, snapshot, status and clock.
`HealthInv` extends the verdict to the status that is being built.

*Daemon.*  None of the three properties is inductive: they hold because of what
main has joined or closed before.  `IInv` states, for each stretch of main's
steps, which objects are built (`ObjectsInv`), whether each thread has
started or ended (`EpollInv`, `ExportInv`, `WorkerInv`), which sockets are open
and what may still refer to them (`SocketInv`), and why main is leaving
(`ExitInv`).  `StartupStep`, `TickStep`, `ShutdownStep`, `DestroyStep`,
`EpollStep`, `WorkerStep` and `EnvironmentStep` treat the actions.

### Only model-checked

Liveness is out of the prover's reach: `EveryLifecycleEnds`, `SocketDrained`,
`AdmittedIsProcessed`, `QueueDrains`, `SignalEndsProcess`,
`EarlyRequestAnswered`, and the fairness part of `LifecycleRefinement`.  The
four violations are counterexamples and have no theorem.

## 5. Not modelled

- The text rules of parser, validator, MAC addresses and control requests:
  the models use their verdicts.  They are character-by-character code
  without state, which a model would only transliterate.
- The blocking mode of `UdpReceiver` (`start`, `run`): the daemon does not use
  it.  Its `stop()` closes the socket under a blocked `recvfrom`, which need
  not return, and then joins that thread.
- A bound on ages: `ageOut` subtracts unsigned ticks, so an entry newer than the
  current tick is removed.  The wrap-around is in the model, but `ageOut` has
  no caller and nothing says what should happen.
- `show:mac-table`: the race is undefined behaviour on a `std::map`, with no
  set of outcomes to choose from.  `fd-status`, `show-config`, `version` and
  `help` only format what they read.
- Failures of calls on valid descriptors (`epoll_wait`, `eventfd` read and
  write) and of `std::thread`'s constructor, which throw.
- The every-n schedule in `Replay`: it counts packets in the order in which
  they reach the injector; `PacketPipeline` has it (`InjectionSchedule`).
- Configuration, logging, command line presentation and the exporters: input
  and output without protocol state.  `PacketGenerator` is constructed and
  never ticked.

## 6. Plan

Done: the packet path with its abstract specification, the hand-offs,
statistics, export, switching, event loop, descriptors, status, the whole
daemon from construction to exit, and replay; every safety property of the runs
is proved.

Left for the proofs: further facts that readers of the code rely on and that
the inductive invariants already contain, such as the exclusion of the
callbacks in `PacketStats` and the phases of main in `Daemon`, stated as
theorems of their own; and shorter proofs where one leaf per action suffices.
