---------------------------- MODULE RuntimeStatus ----------------------------
(***************************************************************************)
(* The main thread's tick: Telemetry counts it and sends a heartbeat to    *)
(* HealthMonitor, RuntimeStatusBuilder puts a status together, with the    *)
(* packet rate of WindowedEwmaRateSmoother, and SnapshotPublisher stores   *)
(* it for the control commands that the epoll thread answers.              *)
(*                                                                         *)
(* Every component calls nowMs(), the system clock, for itself; the clock  *)
(* moves between any two calls and may be set back.  Times are uint64 in   *)
(* the code and numbers modulo Word here, and so is the packet counter.    *)
(* The status carries two rates from two smoothers fed alike, of packets   *)
(* and of bytes; one is modelled.                                          *)
(***************************************************************************)
EXTENDS Integers, Sequences, FiniteSetsExt

CONSTANTS
    Word,           \* 2^64, scaled down
    timeout_ms,     \* HealthMonitor's timeout (500 in main)
    window_ms,      \* the smoother's window
    PerSecond,      \* 1000 in the code: rates are per PerSecond time units
    Times,          \* values the clock takes
    Jumps,          \* how far it moves at once, backwards if negative
    MaxTicks,       \* bound: ticks of the main loop
    MaxMoves,       \* bound: movements of the clock
    Arrivals        \* numbers of packets counted between two builds

ASSUME ClockAssumption ==
    /\ Times \subseteq 0..(Word - 1) /\ Times # {} /\ Jumps \subseteq Int
    /\ Word \in Nat \ {0} /\ timeout_ms \in Nat
    /\ window_ms \in Nat /\ PerSecond \in Nat \ {0}
    /\ MaxTicks \in Nat /\ MaxMoves \in Nat /\ Arrivals \subseteq Nat

VARIABLES
    now,                    \* the system clock
    rx_packets,             \* PacketStats' counter
    mpc,                    \* where the main thread is
    state,                  \* RuntimeState
    start_time_ms,          \* set by the constructors
    tick_count,             \* Telemetry
    last_heartbeat_ms,      \* HealthMonitor
    last_alive_state,       \* "none" until the first tick
    healthMessages,         \* HealthStatus messages published, in order
    smoother,               \* WindowedEwmaRateSmoother
    status,                 \* the RuntimeStatus being built
    version,                \* SnapshotPublisher: version_
    snapshot,               \* and snapshot_
    answer,                 \* the status the last command was answered from
    sinceHeartbeat,         \* history: time passed since onHeartbeat
    setBack,                \* history: the clock was set back
    moves,                  \* how often the clock moved
    lowest, highest         \* history: raw rates since the smoother's reset

clockVars  == <<now, sinceHeartbeat, setBack, moves>>
healthVars == <<last_heartbeat_ms, last_alive_state, healthMessages>>
rateVars   == <<smoother, lowest, highest>>
publishVars == <<version, snapshot, answer>>
vars == <<clockVars, rx_packets, mpc, state, start_time_ms, tick_count,
          healthVars, rateVars, status, publishVars>>

\* Unsigned subtraction.
Minus(a, b) == (a - b) % Word

-----------------------------------------------------------------------------
(* WindowedEwmaRateSmoother as a value.                                    *)

\* reset(), and the constructor.
Fresh == [has_prev |-> FALSE, prev_counter |-> 0, prev_time |-> 0,
          valid |-> FALSE, raw |-> 0, smoothed |-> 0]

Restarted(counter, t) ==
    [Fresh EXCEPT !.has_prev = TRUE, !.prev_counter = counter, !.prev_time = t]

\* llround of the counter's increase per PerSecond units of time.
Rate(s, counter, t) ==
    LET dt == Minus(t, s.prev_time)
    IN  (2 * PerSecond * (counter - s.prev_counter) + dt) \div (2 * dt)

\* alpha * instant + (1 - alpha) * smoothed with alpha in (0, 1]: any value
\* between the two.
Between(a, b) == Min({a, b})..Max({a, b})

\* Mutant of Smoothed: the average starts from zero.
MutSmoothedFromZero(s, raw) == Between(s.smoothed, raw)

Smoothed(s, raw) == IF s.valid THEN Between(s.smoothed, raw) ELSE {raw}

WindowClosed(s, t) ==
    Minus(t, s.prev_time) # 0 /\ Minus(t, s.prev_time) >= window_ms

\* The smoothers observe(counter, now_ms) may leave behind.
observe(s, counter, t) ==
    IF ~s.has_prev \/ counter < s.prev_counter
    THEN {Restarted(counter, t)}
    ELSE IF ~WindowClosed(s, t)
    THEN {s}
    ELSE LET raw == Rate(s, counter, t)
         IN  {[has_prev |-> TRUE, prev_counter |-> counter, prev_time |-> t,
               valid |-> TRUE, raw |-> raw, smoothed |-> v] :
                 v \in Smoothed(s, raw)}

-----------------------------------------------------------------------------
NoStatus == [version |-> 0, state |-> "Booting", tick_count |-> 0,
             uptime |-> 0, alive |-> FALSE, since |-> 0, rate |-> 0]

Init ==
    /\ now \in Times /\ sinceHeartbeat = 0 /\ setBack = FALSE /\ moves = 0
    /\ rx_packets = 0
    /\ mpc = "rates" /\ state = "Booting"
    /\ start_time_ms = now /\ tick_count = 0
    /\ last_heartbeat_ms = now /\ last_alive_state = "none"
    /\ healthMessages = <<>>
    /\ smoother = Fresh /\ lowest = 0 /\ highest = 0
    /\ status = NoStatus
    /\ version = 0 /\ snapshot = NoStatus /\ answer = NoStatus

-----------------------------------------------------------------------------
(* The environment.                                                        *)

\* The clock moves, forwards or backwards, before any step that reads it; no
\* other step can tell when it moved.  Once it was set back, nobody keeps
\* the time that really passed.
ClockMoves(jump) ==
    /\ mpc \in {"heartbeat", "health", "rates", "metrics", "current"}
    /\ moves < MaxMoves /\ moves' = moves + 1
    /\ now + jump \in Times
    /\ now' = now + jump
    /\ setBack' = (setBack \/ jump < 0)
    /\ sinceHeartbeat' = IF setBack' THEN 0 ELSE sinceHeartbeat + jump
    /\ UNCHANGED <<rx_packets, mpc, state, start_time_ms, tick_count,
                   healthVars, rateVars, status, publishVars>>

-----------------------------------------------------------------------------
(* One tick of the main thread.                                            *)

\* The loop's head: tick again or, after a signal, build the last status.
LoopHead ==
    /\ mpc = "loop"
    /\ \/ /\ tick_count < MaxTicks
          /\ mpc' = "telemetry" /\ UNCHANGED state
       \/ state' = "Stopping" /\ mpc' = "rates"
    /\ UNCHANGED <<clockVars, rx_packets, start_time_ms, tick_count,
                   healthVars, rateVars, status, publishVars>>

\* Telemetry::onTick; publish calls the subscriber before it returns.
TelemetryTick ==
    /\ mpc = "telemetry"
    /\ tick_count' = tick_count + 1
    /\ mpc' = "heartbeat"
    /\ UNCHANGED <<clockVars, rx_packets, state, start_time_ms, healthVars,
                   rateVars, status, publishVars>>

onHeartbeat ==
    /\ mpc = "heartbeat"
    /\ last_heartbeat_ms' = now /\ sinceHeartbeat' = 0
    /\ mpc' = "health"
    /\ UNCHANGED <<now, setBack, moves, rx_packets, state, start_time_ms, tick_count,
                   last_alive_state, healthMessages, rateVars, status,
                   publishVars>>

\* Mutant of Alive: the exact timeout counts as exceeded.
MutAliveStrict == Minus(now, last_heartbeat_ms) < timeout_ms

Alive == Minus(now, last_heartbeat_ms) =< timeout_ms

AliveState == IF Alive THEN "alive" ELSE "dead"

\* HealthMonitor::onTick publishes the first state and every change.
HealthTick ==
    /\ mpc = "health"
    /\ \/ /\ last_alive_state # AliveState
          /\ healthMessages' = Append(healthMessages, AliveState)
          /\ last_alive_state' = AliveState
       \/ /\ last_alive_state = AliveState
          /\ UNCHANGED <<healthMessages, last_alive_state>>
    /\ mpc' = "rates"
    /\ UNCHANGED <<clockVars, rx_packets, state, start_time_ms, tick_count,
                   last_heartbeat_ms, rateVars, status, publishVars>>

\* build(): the packet metrics and the rates derived from them ...  n packets
\* were counted since the last build.
BuildRates(n) ==
    /\ mpc = "rates"
    /\ rx_packets' = (rx_packets + n) % Word
    /\ \E s \in observe(smoother, rx_packets', now) :
         /\ smoother' = s
         /\ lowest' = IF smoother.valid THEN Min({lowest, s.raw}) ELSE s.raw
         /\ highest' = IF smoother.valid THEN Max({highest, s.raw}) ELSE s.raw
         /\ status' = [NoStatus EXCEPT !.state = state,
                            !.rate = IF s.valid THEN s.smoothed ELSE 0]
    /\ mpc' = "metrics"
    /\ UNCHANGED <<clockVars, state, start_time_ms, tick_count,
                   healthVars, publishVars>>

\* Mutant of BuildMetrics: uptime counts from the last heartbeat.
MutUptimeSinceHeartbeat ==
    /\ mpc = "metrics"
    /\ status' = [status EXCEPT !.tick_count = tick_count,
                                !.uptime = Minus(now, last_heartbeat_ms)]
    /\ mpc' = "current"
    /\ UNCHANGED <<clockVars, rx_packets, state, start_time_ms, tick_count,
                   healthVars, rateVars, publishVars>>

\* ... then telemetry.snapshot() ...
BuildMetrics ==
    /\ mpc = "metrics"
    /\ status' = [status EXCEPT !.tick_count = tick_count,
                                !.uptime = Minus(now, start_time_ms)]
    /\ mpc' = "current"
    /\ UNCHANGED <<clockVars, rx_packets, state, start_time_ms, tick_count,
                   healthVars, rateVars, publishVars>>

\* ... then healthMonitor.currentStatus().  The status built after the loop
\* is logged and not published.
BuildHealth ==
    /\ mpc = "current"
    /\ status' = [status EXCEPT !.alive = Alive,
                                !.since = sinceHeartbeat]
    /\ mpc' = IF state = "Stopping" THEN "stopped" ELSE "version"
    /\ UNCHANGED <<clockVars, rx_packets, state, start_time_ms, tick_count,
                   healthVars, rateVars, publishVars>>

\* Mutant of PublishVersion: the value before the increment is used.
MutVersionBefore ==
    /\ mpc = "version"
    /\ version' = version + 1
    /\ status' = [status EXCEPT !.version = version]
    /\ mpc' = "store"
    /\ UNCHANGED <<clockVars, rx_packets, state, start_time_ms, tick_count,
                   healthVars, rateVars, snapshot, answer>>

\* SnapshotPublisher::publish takes a version ...
PublishVersion ==
    /\ mpc = "version"
    /\ version' = version + 1
    /\ status' = [status EXCEPT !.version = version + 1]
    /\ mpc' = "store"
    /\ UNCHANGED <<clockVars, rx_packets, state, start_time_ms, tick_count,
                   healthVars, rateVars, snapshot, answer>>

\* ... and stores the snapshot.  After the first one main starts the epoll
\* thread and sets the state to Running.
PublishStore ==
    /\ mpc = "store"
    /\ snapshot' = status
    /\ state' = "Running"
    /\ mpc' = "loop"
    /\ UNCHANGED <<clockVars, rx_packets, start_time_ms, tick_count,
                   healthVars, rateVars, status, version, answer>>

-----------------------------------------------------------------------------
\* A status, health, metrics or packet-stats command on the epoll thread,
\* which runs once main has published the first snapshot: it is answered from
\* one load of snapshot_.
Query ==
    /\ state = "Running" /\ answer # snapshot
    /\ answer' = snapshot
    /\ UNCHANGED <<clockVars, rx_packets, mpc, state, start_time_ms,
                   tick_count, healthVars, rateVars, status, version, snapshot>>

Tick == LoopHead \/ TelemetryTick \/ onHeartbeat \/ HealthTick
        \/ (\E n \in Arrivals : BuildRates(n)) \/ BuildMetrics \/ BuildHealth
        \/ PublishVersion \/ PublishStore

Next ==
    \/ \E jump \in Jumps : ClockMoves(jump)
    \/ Tick
    \/ Query

Spec == Init /\ [][Next]_vars

-----------------------------------------------------------------------------
(* Properties.                                                             *)

\* A command is answered from the status of one whole tick: its version tells
\* the tick it belongs to, whatever main is in the middle of, and there is a
\* status to answer from as soon as commands are served.
AnswerIsOneTick ==
    /\ state # "Booting" => snapshot.version # 0
    /\ answer.version # 0 =>
          /\ answer.version = answer.tick_count + 1
          /\ answer.state = IF answer.version = 1 THEN "Booting" ELSE "Running"

\* Successive answers never go back to an older status, nor, unless the clock
\* was set back, to an earlier uptime.
AnswersMoveForward ==
    [][/\ answer.version =< answer'.version
       /\ answer.tick_count =< answer'.tick_count
       /\ ~setBack' => answer.uptime =< answer'.uptime]_answer

\* HealthMonitor is honest and quiet.  Its messages report changes only,
\* whatever the clock does; and unless the clock was set back, a published
\* status says alive exactly when no more than timeout_ms had passed since the
\* last heartbeat.
HealthReports ==
    /\ \A i \in 1..(Len(healthMessages) - 1) :
          healthMessages[i] # healthMessages[i + 1]
    /\ healthMessages # <<>> =>
          last_alive_state = healthMessages[Len(healthMessages)]
    /\ snapshot.version # 0 /\ ~setBack =>
          (snapshot.alive <=> snapshot.since =< timeout_ms)

\* The smoothed rate stays within the raw rates observed since the smoother
\* was reset, also when the clock is set back or the counter wraps around.
SmoothedWithinRaw ==
    smoother.valid => smoother.smoothed \in lowest..highest
=============================================================================
