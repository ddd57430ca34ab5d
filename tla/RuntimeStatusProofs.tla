------------------------- MODULE RuntimeStatusProofs -------------------------
(***************************************************************************)
(* Proofs about RuntimeStatus, for any clock, any number of ticks and any  *)
(* timeout and window: a command is answered from one whole tick and never *)
(* from an older one than before, HealthMonitor reports changes only and   *)
(* tells the truth while the clock is not set back, and the smoothed rate  *)
(* stays within the raw ones.                                              *)
(***************************************************************************)
EXTENDS RuntimeStatus, SequenceTheorems, TLAPS

-----------------------------------------------------------------------------
(* Facts about numbers.                                                    *)

\* The smaller and the larger of two numbers.
LEMMA MinMaxOfTwo ==
    ASSUME NEW a \in Int, NEW b \in Int
    PROVE  /\ Min({a, b}) \in Int /\ Min({a, b}) =< a /\ Min({a, b}) =< b
           /\ Max({a, b}) \in Int /\ a =< Max({a, b}) /\ b =< Max({a, b})
           /\ Min({a, b}) \in {a, b} /\ Max({a, b}) \in {a, b}
<1>1. \E x \in {a, b} : \A y \in {a, b} : x =< y
  <2>1. CASE a =< b
    BY <2>1
  <2>2. CASE b =< a
    BY <2>2
  <2> QED
    BY <2>1, <2>2
<1>2. \E x \in {a, b} : \A y \in {a, b} : x >= y
  <2>1. CASE a =< b
    BY <2>1
  <2>2. CASE b =< a
    BY <2>2
  <2> QED
    BY <2>1, <2>2
<1>3. Min({a, b}) \in {a, b} /\ \A y \in {a, b} : Min({a, b}) =< y
  BY <1>1 DEF Min
<1>4. Max({a, b}) \in {a, b} /\ \A y \in {a, b} : Max({a, b}) >= y
  BY <1>2 DEF Max
<1> QED
  BY <1>3, <1>4

\* Unsigned subtraction is subtraction where it does not wrap around.
LEMMA MinusExact ==
    ASSUME NEW a \in 0..(Word - 1), NEW b \in 0..(Word - 1)
    PROVE  Minus(a, b) \in 0..(Word - 1) /\ (b =< a => Minus(a, b) = a - b)
<1>1. Word \in Nat \ {0}
  BY ClockAssumption
<1>2. ASSUME b =< a PROVE Minus(a, b) = a - b
  <2>1. a - b \in 0..(Word - 1)
    BY <1>1, <1>2
  <2> QED
    BY <1>1, <2>1 DEF Minus
<1> QED
  BY <1>1, <1>2 DEF Minus

\* Division by a positive number yields an integer.
LEMMA QuotientType ==
    ASSUME NEW a \in Int, NEW d \in Nat, d # 0 PROVE a \div d \in Int
OBVIOUS

-----------------------------------------------------------------------------
(* Types.                                                                  *)

Steps == {"loop", "telemetry", "heartbeat", "health", "rates", "metrics",
          "current", "version", "store", "stopped"}
States == {"Booting", "Running", "Stopping"}

Smoothers == [has_prev : BOOLEAN, prev_counter : Nat, prev_time : Times \cup {0},
              valid : BOOLEAN, raw : Int, smoothed : Int]

Statuses == [version : Nat, state : States, tick_count : Nat, uptime : Int,
             alive : BOOLEAN, since : Int, rate : Int]

TypeOK ==
    /\ now \in Times /\ sinceHeartbeat \in Int /\ setBack \in BOOLEAN
    /\ start_time_ms \in Times /\ last_heartbeat_ms \in Times
    /\ rx_packets \in Nat /\ tick_count \in Nat /\ version \in Nat
    /\ mpc \in Steps /\ state \in States
    /\ last_alive_state \in {"none", "alive", "dead"}
    /\ healthMessages \in Seq({"alive", "dead"})
    /\ smoother \in Smoothers /\ lowest \in Int /\ highest \in Int
    /\ status \in Statuses /\ snapshot \in Statuses /\ answer \in Statuses

\* The rate over a closed window is a number.
LEMMA RateType ==
    ASSUME NEW s \in Smoothers, NEW counter \in Nat, NEW t \in Times,
           WindowClosed(s, t)
    PROVE  Rate(s, counter, t) \in Int
<1> DEFINE dt == Minus(t, s.prev_time)
<1>1. dt \in Nat /\ dt # 0
  <2>1. t \in 0..(Word - 1)
    BY ClockAssumption
  <2>2. s.prev_time \in Times \cup {0}
    BY DEF Smoothers
  <2>3. s.prev_time \in 0..(Word - 1)
    <3>1. 0 \in 0..(Word - 1) /\ Times \subseteq 0..(Word - 1)
      BY ClockAssumption
    <3> QED
      BY <2>2, <3>1
  <2>4. dt \in 0..(Word - 1)
    BY <2>1, <2>3, MinusExact
  <2> QED
    BY <2>4, ClockAssumption DEF WindowClosed
<1>2. s.prev_counter \in Nat /\ PerSecond \in Nat
  BY ClockAssumption DEF Smoothers
<1> HIDE DEF dt
<1>3. 2 * PerSecond * (counter - s.prev_counter) + dt \in Int
  <2>1. 2 * PerSecond \in Int /\ counter - s.prev_counter \in Int
    BY <1>2
  <2> QED
    BY <1>1, <2>1
<1>4. 2 * dt \in Nat /\ 2 * dt # 0
  BY <1>1
<1>5. (2 * PerSecond * (counter - s.prev_counter) + dt) \div (2 * dt) \in Int
  BY <1>3, <1>4, QuotientType
<1> QED
  BY <1>5 DEF Rate, dt

\* What observe may return: a restarted smoother, the same one, or one with a
\* new raw rate and an average between the old one and it.
LEMMA Observed ==
    ASSUME NEW s \in Smoothers, NEW counter \in Nat, NEW t \in Times,
           NEW r \in observe(s, counter, t)
    PROVE  /\ r \in Smoothers
           /\ \/ ~r.valid
              \/ r = s
              \/ /\ r.valid /\ s.valid
                 /\ r.smoothed \in Between(s.smoothed, r.raw)
              \/ r.valid /\ ~s.valid /\ r.smoothed = r.raw
<1>1. CASE ~s.has_prev \/ counter < s.prev_counter
  <2>1. r = Restarted(counter, t)
    BY <1>1 DEF observe
  <2>2. r = [has_prev |-> TRUE, prev_counter |-> counter, prev_time |-> t,
             valid |-> FALSE, raw |-> 0, smoothed |-> 0]
    BY <2>1 DEF Restarted, Fresh
  <2>3. r \in Smoothers
    BY <2>2 DEF Smoothers
  <2> QED
    BY <2>2, <2>3
<1>2. CASE ~(~s.has_prev \/ counter < s.prev_counter) /\ ~WindowClosed(s, t)
  <2>1. r = s
    BY <1>2 DEF observe
  <2> QED
    BY <2>1
<1>3. CASE ~(~s.has_prev \/ counter < s.prev_counter) /\ WindowClosed(s, t)
  <2> DEFINE raw == Rate(s, counter, t)
  <2>1. PICK v \in Smoothed(s, raw) :
          r = [has_prev |-> TRUE, prev_counter |-> counter, prev_time |-> t,
               valid |-> TRUE, raw |-> raw, smoothed |-> v]
    BY <1>3 DEF observe
  <2>2. raw \in Int /\ s.smoothed \in Int
    BY <1>3, RateType DEF Smoothers
  <2> HIDE DEF raw
  <2>3. r.valid /\ r.raw = raw /\ r.smoothed = v
    BY <2>1
  <2>4. CASE s.valid
    <3>1. v \in Between(s.smoothed, raw)
      BY <2>4 DEF Smoothed
    <3>2. v \in Int
      BY <2>2, <3>1, MinMaxOfTwo DEF Between
    <3> QED
      BY <2>1, <2>2, <2>3, <2>4, <3>1, <3>2 DEF Smoothers
  <2>5. CASE ~s.valid
    <3>1. v = raw
      BY <2>5 DEF Smoothed
    <3> QED
      BY <2>1, <2>2, <2>3, <2>5, <3>1 DEF Smoothers
  <2> QED
    BY <2>4, <2>5
<1> QED
  BY <1>1, <1>2, <1>3

\* The fields of a status being filled in.
LEMMA StatusFields ==
    ASSUME NEW s \in Statuses
    PROVE  /\ s.version \in Nat /\ s.state \in States /\ s.tick_count \in Nat
           /\ s.uptime \in Int /\ s.since \in Int
           /\ \A n \in Nat, u \in Int :
                LET r == [s EXCEPT !.tick_count = n, !.uptime = u]
                IN  /\ r \in Statuses /\ r.tick_count = n /\ r.uptime = u
                    /\ r.state = s.state /\ r.version = s.version
           /\ \A b \in BOOLEAN, t \in Int :
                LET r == [s EXCEPT !.alive = b, !.since = t]
                IN  /\ r \in Statuses /\ r.alive = b /\ r.since = t
                    /\ r.state = s.state /\ r.version = s.version
                    /\ r.tick_count = s.tick_count /\ r.uptime = s.uptime
           /\ \A v \in Nat :
                LET r == [s EXCEPT !.version = v]
                IN  /\ r \in Statuses /\ r.version = v /\ r.alive = s.alive
                    /\ r.since = s.since /\ r.state = s.state
                    /\ r.tick_count = s.tick_count /\ r.uptime = s.uptime
BY DEF Statuses

\* What BuildRates leaves behind.
LEMMA RatesBuilt ==
    ASSUME TypeOK, NEW n \in Arrivals, BuildRates(n)
    PROVE  /\ rx_packets' \in Nat /\ smoother' \in Smoothers
           /\ smoother' \in observe(smoother, rx_packets', now)
           /\ lowest' = IF smoother.valid THEN Min({lowest, smoother'.raw})
                        ELSE smoother'.raw
           /\ highest' = IF smoother.valid THEN Max({highest, smoother'.raw})
                         ELSE smoother'.raw
           /\ lowest' \in Int /\ highest' \in Int
           /\ status' \in Statuses /\ status'.state = state
<1>1. rx_packets' = (rx_packets + n) % Word
  BY DEF BuildRates
<1>2. rx_packets' \in Nat
  BY <1>1, ClockAssumption DEF TypeOK
<1>3. /\ smoother' \in observe(smoother, rx_packets', now)
      /\ lowest' = IF smoother.valid THEN Min({lowest, smoother'.raw})
                   ELSE smoother'.raw
      /\ highest' = IF smoother.valid THEN Max({highest, smoother'.raw})
                    ELSE smoother'.raw
      /\ status' = [NoStatus EXCEPT !.state = state,
                         !.rate = IF smoother'.valid THEN smoother'.smoothed ELSE 0]
  BY DEF BuildRates
<1>4. smoother' \in Smoothers
  BY <1>2, <1>3, Observed DEF TypeOK
<1>5. smoother'.raw \in Int /\ smoother'.smoothed \in Int
  BY <1>4 DEF Smoothers
<1>6. lowest' \in Int /\ highest' \in Int
  BY <1>3, <1>5, MinMaxOfTwo DEF TypeOK
<1>7. status' \in Statuses /\ status'.state = state
  <2> DEFINE rate == IF smoother'.valid THEN smoother'.smoothed ELSE 0
  <2>1. rate \in Int /\ state \in States /\ "Booting" \in States
    BY <1>5 DEF TypeOK, States
  <2> HIDE DEF rate
  <2>2. status' = [version |-> 0, state |-> state, tick_count |-> 0,
                   uptime |-> 0, alive |-> FALSE, since |-> 0, rate |-> rate]
    BY <1>3 DEF NoStatus, rate
  <2> QED
    BY <2>1, <2>2 DEF Statuses
<1> QED
  BY <1>2, <1>3, <1>4, <1>6, <1>7

\* Every step keeps the types.
LEMMA TypeStep ==
    ASSUME TypeOK, [Next]_vars PROVE TypeOK'
<1> USE DEF clockVars, healthVars, rateVars, publishVars
<1>1. ASSUME NEW jump \in Jumps, ClockMoves(jump) PROVE TypeOK'
  <2>1. now' \in Times /\ jump \in Int
    BY <1>1, ClockAssumption DEF ClockMoves
  <2>2. setBack' \in BOOLEAN
    BY <1>1 DEF ClockMoves
  <2>3. sinceHeartbeat' \in Int
    BY <1>1, <2>1 DEF ClockMoves, TypeOK
  <2> QED
    BY <1>1, <2>1, <2>2, <2>3 DEF ClockMoves, TypeOK
<1>2. CASE LoopHead
  BY <1>2 DEF LoopHead, TypeOK, Steps, States
<1>3. CASE TelemetryTick
  BY <1>3 DEF TelemetryTick, TypeOK, Steps
<1>4. CASE onHeartbeat
  BY <1>4 DEF onHeartbeat, TypeOK, Steps
<1>5. CASE HealthTick
  <2>1. AliveState \in {"alive", "dead"}
    BY DEF AliveState
  <2>2. healthMessages' \in Seq({"alive", "dead"})
    BY <1>5, <2>1, AppendProperties DEF HealthTick, TypeOK
  <2>3. last_alive_state' \in {"none", "alive", "dead"} /\ mpc' = "rates"
    BY <1>5, <2>1 DEF HealthTick, TypeOK
  <2>4. UNCHANGED <<clockVars, rx_packets, state, start_time_ms, tick_count,
                    last_heartbeat_ms, rateVars, status, publishVars>>
    BY <1>5 DEF HealthTick
  <2> QED
    BY <2>2, <2>3, <2>4 DEF TypeOK, Steps
<1>6. ASSUME NEW n \in Arrivals, BuildRates(n) PROVE TypeOK'
  <2>1. /\ rx_packets' \in Nat /\ smoother' \in Smoothers
        /\ lowest' \in Int /\ highest' \in Int /\ status' \in Statuses
    BY <1>6, RatesBuilt
  <2>2. mpc' = "metrics"
        /\ UNCHANGED <<clockVars, state, start_time_ms, tick_count,
                       healthVars, publishVars>>
    BY <1>6 DEF BuildRates
  <2> QED
    BY <2>1, <2>2 DEF TypeOK, Steps
<1>7. CASE BuildMetrics
  <2>1. Minus(now, start_time_ms) \in Int
    BY ClockAssumption DEF Minus, TypeOK
  <2>2. status' \in Statuses
    BY <1>7, <2>1, StatusFields DEF BuildMetrics, TypeOK
  <2> QED
    BY <1>7, <2>2 DEF BuildMetrics, TypeOK, Steps
<1>8. CASE BuildHealth
  <2>1. Alive \in BOOLEAN
    BY DEF Alive
  <2>2. status' \in Statuses
    BY <1>8, <2>1, StatusFields DEF BuildHealth, TypeOK
  <2> QED
    BY <1>8, <2>2 DEF BuildHealth, TypeOK, Steps
<1>9. CASE PublishVersion
  <2>1. version' \in Nat
    BY <1>9 DEF PublishVersion, TypeOK
  <2>2. status' \in Statuses
    BY <1>9, <2>1, StatusFields DEF PublishVersion, TypeOK
  <2> QED
    BY <1>9, <2>1, <2>2 DEF PublishVersion, TypeOK, Steps
<1>10. CASE PublishStore
  BY <1>10 DEF PublishStore, TypeOK, Steps, States
<1>11. CASE Query
  BY <1>11 DEF Query, TypeOK
<1>12. CASE UNCHANGED vars
  BY <1>12 DEF vars, TypeOK
<1> QED
  BY <1>1, <1>2, <1>3, <1>4, <1>5, <1>6, <1>7, <1>8, <1>9, <1>10, <1>11, <1>12
     DEF Next, Tick

\* The initial state has the types.
LEMMA TypeInit ==
    ASSUME Init PROVE TypeOK
<1>1. NoStatus \in Statuses
  BY DEF NoStatus, Statuses, States
<1>2. Fresh \in Smoothers
  BY DEF Fresh, Smoothers
<1>3. healthMessages \in Seq({"alive", "dead"})
  BY EmptySeq DEF Init
<1>4. now \in Times /\ start_time_ms = now /\ last_heartbeat_ms = now
  BY DEF Init
<1>5. /\ sinceHeartbeat = 0 /\ setBack = FALSE /\ rx_packets = 0
      /\ tick_count = 0 /\ version = 0 /\ mpc = "rates" /\ state = "Booting"
      /\ last_alive_state = "none" /\ lowest = 0 /\ highest = 0
      /\ smoother = Fresh /\ status = NoStatus /\ snapshot = NoStatus
      /\ answer = NoStatus
  BY DEF Init
<1>6. setBack \in BOOLEAN /\ mpc \in Steps /\ state \in States
  BY <1>5 DEF Steps, States
<1>7. smoother \in Smoothers /\ status \in Statuses /\ snapshot \in Statuses
      /\ answer \in Statuses
  BY <1>1, <1>2, <1>5
<1>8. /\ sinceHeartbeat \in Int /\ rx_packets \in Nat /\ tick_count \in Nat
      /\ version \in Nat /\ lowest \in Int /\ highest \in Int
      /\ last_alive_state \in {"none", "alive", "dead"}
  BY <1>5
<1> QED
  BY <1>3, <1>4, <1>6, <1>7, <1>8 DEF TypeOK

-----------------------------------------------------------------------------
(* The rate smoother.                                                      *)

\* Every step keeps the average within the raw rates.
LEMMA SmoothedStep ==
    ASSUME TypeOK, SmoothedWithinRaw, [Next]_vars PROVE SmoothedWithinRaw'
<1>1. ASSUME NEW n \in Arrivals, BuildRates(n) PROVE SmoothedWithinRaw'
  <2> DEFINE r == smoother'
  <2>1. /\ rx_packets' \in Nat /\ r \in observe(smoother, rx_packets', now)
        /\ lowest' = IF smoother.valid THEN Min({lowest, r.raw}) ELSE r.raw
        /\ highest' = IF smoother.valid THEN Max({highest, r.raw}) ELSE r.raw
    BY <1>1, RatesBuilt
  <2>2. /\ r \in Smoothers
        /\ \/ ~r.valid
           \/ r = smoother
           \/ /\ r.valid /\ smoother.valid
              /\ r.smoothed \in Between(smoother.smoothed, r.raw)
           \/ r.valid /\ ~smoother.valid /\ r.smoothed = r.raw
    BY <2>1, Observed DEF TypeOK
  <2>3. /\ r.raw \in Int /\ r.smoothed \in Int /\ smoother.smoothed \in Int
        /\ lowest \in Int /\ highest \in Int
    BY <2>2 DEF TypeOK, Smoothers
  <2> HIDE DEF r
  <2>4. CASE ~r.valid
    BY <2>4 DEF SmoothedWithinRaw, r
  <2>5. CASE r.valid /\ smoother.valid
    <3>1. smoother.smoothed \in lowest..highest
      BY <2>5 DEF SmoothedWithinRaw
    <3>2. lowest' = Min({lowest, r.raw}) /\ highest' = Max({highest, r.raw})
      BY <2>1, <2>5
    <3>3. /\ lowest' \in Int /\ lowest' =< lowest /\ lowest' =< r.raw
          /\ highest' \in Int /\ highest =< highest' /\ r.raw =< highest'
      BY <2>3, <3>2, MinMaxOfTwo
    <3>4. CASE r = smoother
      <4>1. r.smoothed \in lowest'..highest'
        BY <2>3, <3>1, <3>3, <3>4
      <4> QED
        BY <4>1 DEF SmoothedWithinRaw, r
    <3>5. CASE r.smoothed \in Between(smoother.smoothed, r.raw)
      <4>1. /\ Min({smoother.smoothed, r.raw}) \in {smoother.smoothed, r.raw}
            /\ Max({smoother.smoothed, r.raw}) \in {smoother.smoothed, r.raw}
        BY <2>3, MinMaxOfTwo
      <4>2. /\ lowest' =< Min({smoother.smoothed, r.raw})
            /\ Max({smoother.smoothed, r.raw}) =< highest'
        BY <2>3, <3>1, <3>3, <4>1
      <4>3. /\ Min({smoother.smoothed, r.raw}) =< r.smoothed
            /\ r.smoothed =< Max({smoother.smoothed, r.raw})
            /\ Min({smoother.smoothed, r.raw}) \in Int
            /\ Max({smoother.smoothed, r.raw}) \in Int
        BY <2>3, <3>5, <4>1 DEF Between
      <4>4. r.smoothed \in lowest'..highest'
        BY <2>3, <3>3, <4>2, <4>3
      <4> QED
        BY <4>4 DEF SmoothedWithinRaw, r
    <3> QED
      BY <2>2, <2>5, <3>4, <3>5
  <2>6. CASE r.valid /\ ~smoother.valid
    <3>1. r.smoothed = r.raw /\ lowest' = r.raw /\ highest' = r.raw
      BY <2>1, <2>2, <2>6
    <3>2. r.smoothed \in lowest'..highest'
      BY <2>3, <3>1
    <3> QED
      BY <3>2 DEF SmoothedWithinRaw, r
  <2> QED
    BY <2>4, <2>5, <2>6
<1>2. ASSUME UNCHANGED rateVars PROVE SmoothedWithinRaw'
  BY <1>2 DEF rateVars, SmoothedWithinRaw
<1>3. UNCHANGED rateVars \/ \E n \in Arrivals : BuildRates(n)
  BY DEF Next, Tick, vars, ClockMoves, LoopHead, TelemetryTick, onHeartbeat,
         HealthTick, BuildMetrics, BuildHealth, PublishVersion, PublishStore,
         Query
<1> QED
  BY <1>1, <1>2, <1>3

\* WindowedEwmaRateSmoother's average never leaves the range of the raw rates
\* since its reset, whatever the clock and the packet counter do.
THEOREM SmoothedWithinRawCorrect == Spec => []SmoothedWithinRaw
<1>1. Init => TypeOK /\ SmoothedWithinRaw
  <2> SUFFICES ASSUME Init PROVE TypeOK /\ SmoothedWithinRaw
    OBVIOUS
  <2>1. ~smoother.valid
    BY DEF Init, Fresh
  <2> QED
    BY <2>1, TypeInit DEF SmoothedWithinRaw
<1>2. TypeOK /\ [Next]_vars => TypeOK'
  BY TypeStep
<1>3. TypeOK /\ SmoothedWithinRaw /\ [Next]_vars => SmoothedWithinRaw'
  BY SmoothedStep
<1> QED
  BY <1>1, <1>2, <1>3, PTL DEF Spec

-----------------------------------------------------------------------------
(* The published status.                                                   *)

\* A published status belongs to the tick its version says.
OneTick(s) ==
    s.version # 0 =>
        /\ s.version = s.tick_count + 1
        /\ s.state = IF s.version = 1 THEN "Booting" ELSE "Running"

\* How state, version and tick count go together at each step of main.
TickPhases ==
    /\ mpc \in {"loop", "telemetry"} =>
          state = "Running" /\ version = tick_count + 1
    /\ mpc \in {"heartbeat", "health"} =>
          state = "Running" /\ version = tick_count /\ version # 0
    /\ mpc \in {"rates", "metrics", "current", "version"} =>
          \/ state = "Booting" /\ version = 0 /\ tick_count = 0
          \/ state = "Running" /\ version = tick_count /\ version # 0
          \/ state = "Stopping" /\ mpc # "version" /\ version # 0
    /\ mpc = "store" =>
          \/ state = "Booting" /\ version = 1 /\ tick_count = 0
          \/ state = "Running" /\ version = tick_count + 1 /\ version # 1
    /\ mpc = "stopped" => state = "Stopping" /\ version # 0

\* What the status under construction says already.
StatusFilled ==
    /\ mpc \in {"metrics", "current", "version", "store"} => status.state = state
    /\ mpc \in {"current", "version", "store"} => status.tick_count = tick_count
    /\ mpc = "store" => status.version = version

\* The stored snapshot is the last version, except between taking a version
\* and storing it.
SnapshotCurrent ==
    /\ mpc # "store" => snapshot.version = version
    /\ mpc = "store" => snapshot.version + 1 = version

TickInv ==
    /\ TickPhases /\ StatusFilled /\ SnapshotCurrent
    /\ OneTick(snapshot) /\ OneTick(answer)

\* Every step of main moves from phase to phase.
LEMMA TickStep ==
    ASSUME TypeOK, TickInv, [Next]_vars PROVE TickInv'
<1> USE DEF clockVars, healthVars, rateVars, publishVars
<1>0. tick_count \in Nat /\ version \in Nat /\ status \in Statuses
      /\ snapshot \in Statuses
  BY DEF TypeOK
<1>1. ASSUME NEW jump \in Jumps, ClockMoves(jump) PROVE TickInv'
  <2>1. UNCHANGED <<mpc, state, version, tick_count, status, snapshot, answer>>
    BY <1>1 DEF ClockMoves
  <2> QED
    BY <2>1 DEF TickInv, TickPhases, StatusFilled, SnapshotCurrent, OneTick
<1>2. CASE LoopHead
  <2>1. /\ mpc = "loop" /\ UNCHANGED <<version, tick_count, status, snapshot, answer>>
        /\ \/ mpc' = "telemetry" /\ state' = state
           \/ mpc' = "rates" /\ state' = "Stopping"
    BY <1>2 DEF LoopHead
  <2>2. TickPhases'
    BY <1>0, <2>1 DEF TickInv, TickPhases
  <2> QED
    BY <2>1, <2>2 DEF TickInv, StatusFilled, SnapshotCurrent, OneTick
<1>3. CASE TelemetryTick
  <2>1. /\ mpc = "telemetry" /\ mpc' = "heartbeat" /\ tick_count' = tick_count + 1
        /\ UNCHANGED <<version, state, status, snapshot, answer>>
    BY <1>3 DEF TelemetryTick
  <2>2. TickPhases'
    BY <1>0, <2>1 DEF TickInv, TickPhases
  <2> QED
    BY <2>1, <2>2 DEF TickInv, StatusFilled, SnapshotCurrent, OneTick
<1>4. CASE onHeartbeat \/ HealthTick
  <2>1. /\ \/ mpc = "heartbeat" /\ mpc' = "health"
           \/ mpc = "health" /\ mpc' = "rates"
        /\ UNCHANGED <<version, state, tick_count, status, snapshot, answer>>
    BY <1>4 DEF onHeartbeat, HealthTick
  <2>2. TickPhases'
    BY <2>1 DEF TickInv, TickPhases
  <2> QED
    BY <2>1, <2>2 DEF TickInv, StatusFilled, SnapshotCurrent, OneTick
<1>5. ASSUME NEW n \in Arrivals, BuildRates(n) PROVE TickInv'
  <2>1. /\ mpc = "rates" /\ mpc' = "metrics"
        /\ UNCHANGED <<version, state, tick_count, snapshot, answer>>
    BY <1>5 DEF BuildRates
  <2>2. status'.state = state
    BY <1>5, RatesBuilt
  <2>3. TickPhases'
    BY <2>1 DEF TickInv, TickPhases
  <2> QED
    BY <2>1, <2>2, <2>3 DEF TickInv, StatusFilled, SnapshotCurrent, OneTick
<1>6. CASE BuildMetrics
  <2>1. /\ mpc = "metrics" /\ mpc' = "current"
        /\ UNCHANGED <<version, state, tick_count, snapshot, answer>>
        /\ status' = [status EXCEPT !.tick_count = tick_count,
                                    !.uptime = Minus(now, start_time_ms)]
    BY <1>6 DEF BuildMetrics
  <2>2. status'.state = status.state /\ status'.tick_count = tick_count
    BY <1>0, <2>1 DEF Statuses
  <2>3. TickPhases'
    BY <2>1 DEF TickInv, TickPhases
  <2> QED
    BY <2>1, <2>2, <2>3 DEF TickInv, StatusFilled, SnapshotCurrent, OneTick
<1>7. CASE BuildHealth
  <2>1. /\ mpc = "current"
        /\ mpc' = IF state = "Stopping" THEN "stopped" ELSE "version"
        /\ UNCHANGED <<version, state, tick_count, snapshot, answer>>
        /\ status' = [status EXCEPT !.alive = Alive, !.since = sinceHeartbeat]
    BY <1>7 DEF BuildHealth
  <2>2. status'.state = status.state /\ status'.tick_count = status.tick_count
    BY <1>0, <2>1 DEF Statuses
  <2>3. TickPhases'
    BY <2>1 DEF TickInv, TickPhases
  <2> QED
    BY <2>1, <2>2, <2>3 DEF TickInv, StatusFilled, SnapshotCurrent, OneTick
<1>8. CASE PublishVersion
  <2>1. /\ mpc = "version" /\ mpc' = "store" /\ version' = version + 1
        /\ UNCHANGED <<state, tick_count, snapshot, answer>>
        /\ status' = [status EXCEPT !.version = version + 1]
    BY <1>8 DEF PublishVersion
  <2>2. status'.state = status.state /\ status'.tick_count = status.tick_count
        /\ status'.version = version + 1
    BY <1>0, <2>1 DEF Statuses
  <2>3. TickPhases'
    BY <1>0, <2>1 DEF TickInv, TickPhases
  <2> QED
    BY <2>1, <2>2, <2>3 DEF TickInv, StatusFilled, SnapshotCurrent, OneTick
<1>9. CASE PublishStore
  <2>1. /\ mpc = "store" /\ mpc' = "loop" /\ snapshot' = status
        /\ state' = "Running" /\ UNCHANGED <<version, tick_count, status, answer>>
    BY <1>9 DEF PublishStore
  <2>2. TickPhases'
    BY <1>0, <2>1 DEF TickInv, TickPhases
  <2>3. status.version = version /\ status.state = state
        /\ status.tick_count = tick_count
    BY <2>1 DEF TickInv, StatusFilled
  <2>4. \/ state = "Booting" /\ version = 1 /\ tick_count = 0
        \/ state = "Running" /\ version = tick_count + 1 /\ version # 1
    BY <2>1 DEF TickInv, TickPhases
  <2>5. OneTick(status)
    BY <1>0, <2>3, <2>4 DEF OneTick
  <2> QED
    BY <2>1, <2>2, <2>3, <2>5
       DEF TickInv, StatusFilled, SnapshotCurrent, OneTick
<1>10. CASE Query
  <2>1. answer' = snapshot
        /\ UNCHANGED <<mpc, state, version, tick_count, status, snapshot>>
    BY <1>10 DEF Query
  <2> QED
    BY <2>1 DEF TickInv, TickPhases, StatusFilled, SnapshotCurrent, OneTick
<1>11. CASE UNCHANGED vars
  BY <1>11 DEF vars, TickInv, TickPhases, StatusFilled, SnapshotCurrent, OneTick
<1> QED
  BY <1>1, <1>2, <1>3, <1>4, <1>5, <1>6, <1>7, <1>8, <1>9, <1>10, <1>11
     DEF Next, Tick

\* The initial state.
LEMMA TickInit ==
    ASSUME Init PROVE TickInv
<1>1. /\ mpc = "rates" /\ state = "Booting" /\ version = 0 /\ tick_count = 0
      /\ snapshot.version = 0 /\ answer.version = 0
  BY DEF Init, NoStatus
<1> QED
  BY <1>1 DEF TickInv, TickPhases, StatusFilled, SnapshotCurrent, OneTick

\* A command is answered from the status of one whole tick, which its version
\* identifies, and once commands are served there is a status to answer from.
THEOREM AnswerIsOneTickCorrect == Spec => []AnswerIsOneTick
<1>1. Init => TypeOK /\ TickInv
  BY TypeInit, TickInit
<1>2. TypeOK /\ [Next]_vars => TypeOK'
  BY TypeStep
<1>3. TypeOK /\ TickInv /\ [Next]_vars => TickInv'
  BY TickStep
<1>4. TypeOK /\ TickInv => AnswerIsOneTick
  <2> SUFFICES ASSUME TypeOK, TickInv PROVE AnswerIsOneTick
    OBVIOUS
  <2>1. state # "Booting" => snapshot.version # 0
    <3>1. version \in Nat /\ tick_count \in Nat /\ mpc \in Steps
          /\ snapshot.version \in Nat
      BY DEF TypeOK, Statuses
    <3>2. CASE mpc = "store"
      BY <3>1, <3>2 DEF TickInv, TickPhases, SnapshotCurrent
    <3>3. CASE mpc # "store"
      BY <3>1, <3>3 DEF TickInv, TickPhases, SnapshotCurrent, Steps
    <3> QED
      BY <3>2, <3>3
  <2> QED
    BY <2>1 DEF TickInv, OneTick, AnswerIsOneTick
<1> QED
  BY <1>1, <1>2, <1>3, <1>4, PTL DEF Spec

-----------------------------------------------------------------------------
(* Answers move forward.                                                   *)

\* The uptime of the status under construction, once it is filled in.
UptimeFilled == mpc \in {"current", "version", "store"}

\* Answer, snapshot, status and clock, each no older than the one before; the
\* uptimes only while the clock was not set back.
OrderInv ==
    /\ answer.version =< snapshot.version
    /\ answer.tick_count =< snapshot.tick_count
    /\ snapshot.tick_count =< tick_count
    /\ ~setBack =>
          /\ start_time_ms =< now
          /\ answer.uptime =< snapshot.uptime
          /\ snapshot.uptime =< now - start_time_ms
          /\ UptimeFilled => /\ snapshot.uptime =< status.uptime
                             /\ status.uptime =< now - start_time_ms

\* Every step keeps the order.
LEMMA OrderStep ==
    ASSUME TypeOK, TickInv, OrderInv, [Next]_vars PROVE OrderInv'
<1> USE DEF clockVars, healthVars, rateVars, publishVars
<1>0. /\ tick_count \in Nat /\ version \in Nat /\ status \in Statuses
      /\ snapshot \in Statuses /\ answer \in Statuses
      /\ now \in 0..(Word - 1) /\ start_time_ms \in 0..(Word - 1)
      /\ Word \in Nat
  BY ClockAssumption DEF TypeOK
<1>a. /\ answer.version \in Nat /\ snapshot.version \in Nat
      /\ status.version \in Nat
      /\ answer.tick_count \in Nat /\ snapshot.tick_count \in Nat
      /\ answer.uptime \in Int /\ snapshot.uptime \in Int
      /\ status.uptime \in Int /\ now \in Int /\ start_time_ms \in Int
  BY <1>0 DEF Statuses
<1>1. ASSUME NEW jump \in Jumps, ClockMoves(jump) PROVE OrderInv'
  <2>1. /\ now' = now + jump /\ setBack' = (setBack \/ jump < 0)
        /\ UNCHANGED <<mpc, tick_count, start_time_ms, status, snapshot, answer>>
    BY <1>1 DEF ClockMoves
  <2>2. jump \in Int
    BY ClockAssumption
  <2>3. CASE setBack \/ jump < 0
    <3>1. setBack'
      BY <2>1, <2>3, Zenon
    <3> QED
      BY <2>1, <3>1 DEF OrderInv
  <2>4. CASE ~setBack /\ jump >= 0
    <3>1. now =< now' /\ now' \in Int
      BY <1>a, <2>1, <2>2, <2>4
    <3>2. /\ start_time_ms =< now
          /\ answer.uptime =< snapshot.uptime
          /\ snapshot.uptime =< now - start_time_ms
          /\ UptimeFilled => /\ snapshot.uptime =< status.uptime
                             /\ status.uptime =< now - start_time_ms
      BY <2>4 DEF OrderInv
    <3>3. /\ start_time_ms =< now'
          /\ snapshot.uptime =< now' - start_time_ms
          /\ UptimeFilled => status.uptime =< now' - start_time_ms
      BY <1>a, <3>1, <3>2
    <3> QED
      BY <2>1, <3>2, <3>3 DEF OrderInv, UptimeFilled
  <2> QED
    BY <2>2, <2>3, <2>4
<1>2. ASSUME UNCHANGED <<now, setBack, start_time_ms, tick_count, snapshot, answer>>,
             UptimeFilled' => UptimeFilled /\ status'.uptime = status.uptime
      PROVE  OrderInv'
  BY <1>2 DEF OrderInv
<1>3. CASE LoopHead
  BY <1>2, <1>3 DEF LoopHead, UptimeFilled
<1>4. CASE TelemetryTick
  <2>1. /\ mpc' = "heartbeat" /\ tick_count' = tick_count + 1
        /\ UNCHANGED <<now, setBack, start_time_ms, snapshot, answer>>
    BY <1>4 DEF TelemetryTick
  <2>2. snapshot'.tick_count =< tick_count' /\ ~UptimeFilled'
    BY <1>0, <1>a, <2>1 DEF OrderInv, UptimeFilled
  <2> QED
    BY <2>1, <2>2 DEF OrderInv
<1>5. CASE onHeartbeat \/ HealthTick
  <2>1. mpc' \in {"health", "rates"}
        /\ UNCHANGED <<now, setBack, start_time_ms, tick_count, snapshot, answer>>
    BY <1>5 DEF onHeartbeat, HealthTick
  <2> QED
    BY <1>2, <2>1 DEF UptimeFilled
<1>6. ASSUME NEW n \in Arrivals, BuildRates(n) PROVE OrderInv'
  <2>1. mpc' = "metrics"
        /\ UNCHANGED <<now, setBack, start_time_ms, tick_count, snapshot, answer>>
    BY <1>6 DEF BuildRates
  <2> QED
    BY <1>2, <2>1 DEF UptimeFilled
<1>7. CASE BuildMetrics
  <2>1. /\ status' = [status EXCEPT !.tick_count = tick_count,
                                    !.uptime = Minus(now, start_time_ms)]
        /\ UNCHANGED <<now, setBack, start_time_ms, tick_count, snapshot, answer>>
    BY <1>7 DEF BuildMetrics
  <2>2. status'.uptime = Minus(now, start_time_ms)
    BY <1>0, <2>1 DEF Statuses
  <2>3. ASSUME ~setBack PROVE status'.uptime = now - start_time_ms
    BY <1>0, <2>2, <2>3, MinusExact DEF OrderInv
  <2>4. ASSUME ~setBack
        PROVE  snapshot.uptime =< status'.uptime
               /\ status'.uptime =< now - start_time_ms
    BY <1>a, <2>3, <2>4 DEF OrderInv
  <2> QED
    BY <2>1, <2>4 DEF OrderInv
<1>8. CASE BuildHealth
  <2>1. /\ mpc = "current"
        /\ status' = [status EXCEPT !.alive = Alive, !.since = sinceHeartbeat]
        /\ UNCHANGED <<now, setBack, start_time_ms, tick_count, snapshot, answer>>
    BY <1>8 DEF BuildHealth
  <2>2. status'.uptime = status.uptime
    BY <1>0, <2>1 DEF Statuses
  <2> QED
    BY <1>2, <2>1, <2>2 DEF UptimeFilled
<1>9. CASE PublishVersion
  <2>1. /\ mpc = "version"
        /\ status' = [status EXCEPT !.version = version + 1]
        /\ UNCHANGED <<now, setBack, start_time_ms, tick_count, snapshot, answer>>
    BY <1>9 DEF PublishVersion
  <2>2. status'.uptime = status.uptime
    BY <1>0, <2>1 DEF Statuses
  <2> QED
    BY <1>2, <2>1, <2>2 DEF UptimeFilled
<1>10. CASE PublishStore
  <2>1. /\ mpc = "store" /\ mpc' = "loop" /\ snapshot' = status
        /\ UNCHANGED <<now, setBack, start_time_ms, tick_count, status, answer>>
    BY <1>10 DEF PublishStore
  <2>2. /\ status.version = version /\ snapshot.version + 1 = version
        /\ status.tick_count = tick_count
    BY <2>1 DEF TickInv, StatusFilled, SnapshotCurrent
  <2>3. /\ answer.version =< status.version
        /\ answer.tick_count =< status.tick_count
        /\ status.tick_count =< tick_count
    BY <1>0, <1>a, <2>2 DEF OrderInv
  <2>4. ASSUME ~setBack
        PROVE  /\ answer.uptime =< status.uptime
               /\ status.uptime =< now - start_time_ms
    BY <1>a, <2>1, <2>4 DEF OrderInv, UptimeFilled
  <2>5. ~UptimeFilled'
    BY <2>1 DEF UptimeFilled
  <2> QED
    BY <2>1, <2>3, <2>4, <2>5 DEF OrderInv
<1>11. CASE Query
  <2>1. answer' = snapshot
        /\ UNCHANGED <<now, setBack, start_time_ms, tick_count, snapshot, status, mpc>>
    BY <1>11 DEF Query
  <2> QED
    BY <1>a, <2>1 DEF OrderInv, UptimeFilled
<1>12. CASE UNCHANGED vars
  BY <1>2, <1>12 DEF vars, UptimeFilled
<1> QED
  BY <1>1, <1>3, <1>4, <1>5, <1>6, <1>7, <1>8, <1>9, <1>10, <1>11, <1>12
     DEF Next, Tick

\* Successive answers of the control plane never go back to an older status
\* nor, unless the clock was set back, to an earlier uptime.
THEOREM AnswersMoveForwardCorrect == Spec => AnswersMoveForward
<1> DEFINE Forward == /\ answer.version =< answer'.version
                      /\ answer.tick_count =< answer'.tick_count
                      /\ ~setBack' => answer.uptime =< answer'.uptime
<1>1. Init => TypeOK /\ TickInv /\ OrderInv
  <2> SUFFICES ASSUME Init PROVE TypeOK /\ TickInv /\ OrderInv
    OBVIOUS
  <2>1. TypeOK /\ TickInv
    BY TypeInit, TickInit
  <2>2. /\ answer.version = 0 /\ answer.tick_count = 0 /\ answer.uptime = 0
        /\ snapshot = answer /\ tick_count = 0 /\ start_time_ms = now
        /\ mpc = "rates" /\ now \in 0..(Word - 1)
    BY <2>1, ClockAssumption DEF Init, NoStatus, TypeOK
  <2>3. now - start_time_ms = 0 /\ start_time_ms =< now
    BY <2>2
  <2>4. ~UptimeFilled
    BY <2>2 DEF UptimeFilled
  <2> QED
    BY <2>1, <2>2, <2>3, <2>4 DEF OrderInv
<1>2. TypeOK /\ [Next]_vars => TypeOK'
  BY TypeStep
<1>3. TypeOK /\ TickInv /\ [Next]_vars => TickInv'
  BY TickStep
<1>4. TypeOK /\ TickInv /\ OrderInv /\ [Next]_vars => OrderInv'
  BY OrderStep
<1>5. OrderInv /\ [Next]_vars => [Forward]_answer
  <2> SUFFICES ASSUME OrderInv, [Next]_vars, answer' # answer PROVE Forward
    OBVIOUS
  <2>1. Query
    BY DEF Next, Tick, vars, ClockMoves, LoopHead, TelemetryTick, onHeartbeat,
           HealthTick, BuildRates, BuildMetrics, BuildHealth, PublishVersion,
           PublishStore, publishVars
  <2>2. answer' = snapshot /\ setBack' = setBack
    BY <2>1 DEF Query, clockVars
  <2> QED
    BY <2>2 DEF OrderInv
<1> QED
  BY <1>1, <1>2, <1>3, <1>4, <1>5, PTL DEF Spec, AnswersMoveForward

-----------------------------------------------------------------------------
(* HealthMonitor.                                                          *)

\* A status says alive exactly when the last heartbeat is recent enough.
Honest(s) == s.alive <=> s.since =< timeout_ms

HealthInv ==
    /\ \A i \in 1..(Len(healthMessages) - 1) :
          healthMessages[i] # healthMessages[i + 1]
    /\ healthMessages # <<>> =>
          last_alive_state = healthMessages[Len(healthMessages)]
    /\ ~setBack => /\ last_heartbeat_ms =< now
                   /\ sinceHeartbeat = now - last_heartbeat_ms
    /\ mpc \in {"version", "store"} /\ ~setBack => Honest(status)
    /\ snapshot.version # 0 /\ ~setBack => Honest(snapshot)

\* A new message differs from the last one.
LEMMA ChangeReported ==
    ASSUME NEW msgs \in Seq({"alive", "dead"}), NEW last, NEW new \in {"alive", "dead"},
           \A i \in 1..(Len(msgs) - 1) : msgs[i] # msgs[i + 1],
           msgs # <<>> => last = msgs[Len(msgs)], last # new
    PROVE  LET more == Append(msgs, new)
           IN  /\ \A i \in 1..(Len(more) - 1) : more[i] # more[i + 1]
               /\ more # <<>> => new = more[Len(more)]
<1> DEFINE more == Append(msgs, new)
           n == Len(msgs)
<1>1. /\ n \in Nat /\ Len(more) = n + 1 /\ more[n + 1] = new
      /\ \A i \in 1..n : more[i] = msgs[i]
  BY AppendProperties, LenProperties
<1> HIDE DEF more, n
<1>2. ASSUME NEW i \in 1..n PROVE more[i] # more[i + 1]
  <2>1. CASE i = n
    <3>1. msgs # <<>>
      BY <1>1, <2>1 DEF n
    <3>2. last = msgs[n]
      BY <3>1 DEF n
    <3> QED
      BY <1>1, <2>1, <3>2
  <2>2. CASE i # n
    <3>1. i \in 1..(n - 1) /\ i + 1 \in 1..n
      BY <1>1, <2>2
    <3>2. msgs[i] # msgs[i + 1]
      BY <3>1 DEF n
    <3> QED
      BY <1>1, <3>1, <3>2
  <2> QED
    BY <2>1, <2>2
<1>3. Len(more) - 1 = n
  BY <1>1
<1> QED
  BY <1>1, <1>2, <1>3 DEF more

\* Every step keeps HealthMonitor honest.
LEMMA HealthStep ==
    ASSUME TypeOK, HealthInv, [Next]_vars PROVE HealthInv'
<1> USE DEF clockVars, healthVars, rateVars, publishVars
<1>0. /\ now \in 0..(Word - 1) /\ last_heartbeat_ms \in 0..(Word - 1)
      /\ status \in Statuses /\ sinceHeartbeat \in Int /\ Word \in Nat
      /\ setBack \in BOOLEAN
  BY ClockAssumption DEF TypeOK
<1>a. now \in Int /\ last_heartbeat_ms \in Int
  BY <1>0
<1> DEFINE Reports == /\ \A i \in 1..(Len(healthMessages) - 1) :
                            healthMessages[i] # healthMessages[i + 1]
                      /\ healthMessages # <<>> =>
                            last_alive_state = healthMessages[Len(healthMessages)]
           Passed == ~setBack => /\ last_heartbeat_ms =< now
                                 /\ sinceHeartbeat = now - last_heartbeat_ms
           Built == mpc \in {"version", "store"} /\ ~setBack => Honest(status)
           Stored == snapshot.version # 0 /\ ~setBack => Honest(snapshot)
<1>b. HealthInv = (Reports /\ Passed /\ Built /\ Stored)
      /\ HealthInv' = (Reports' /\ Passed' /\ Built' /\ Stored')
  BY Zenon DEF HealthInv
<1>c. Reports /\ Passed /\ Built /\ Stored
  BY DEF HealthInv
<1>1. ASSUME UNCHANGED <<healthMessages, last_alive_state>> PROVE Reports'
  BY <1>1, <1>c
<1>2. ASSUME UNCHANGED <<now, last_heartbeat_ms, sinceHeartbeat, setBack>>
      PROVE  Passed'
  BY <1>2, <1>c
<1>3. ASSUME UNCHANGED snapshot, ~setBack' => ~setBack PROVE Stored'
  BY <1>3, <1>c DEF Honest
<1>4. ASSUME NEW jump \in Jumps, ClockMoves(jump) PROVE HealthInv'
  <2>1. /\ now' = now + jump /\ setBack' = (setBack \/ jump < 0)
        /\ sinceHeartbeat' = IF setBack' THEN 0 ELSE sinceHeartbeat + jump
        /\ UNCHANGED <<mpc, healthVars, status, snapshot>> /\ mpc # "version"
        /\ mpc # "store" /\ jump \in Int
    BY <1>4, ClockAssumption DEF ClockMoves
  <2>2. ASSUME ~setBack' PROVE ~setBack /\ ~(jump < 0)
    BY <2>1, <2>2, Zenon
  <2>3. ASSUME ~setBack'
        PROVE  /\ last_heartbeat_ms' =< now'
               /\ sinceHeartbeat' = now' - last_heartbeat_ms'
    <3>1. last_heartbeat_ms =< now /\ sinceHeartbeat = now - last_heartbeat_ms
          /\ jump >= 0 /\ sinceHeartbeat' = sinceHeartbeat + jump
      BY <1>c, <2>1, <2>2, <2>3
    <3> QED
      BY <1>a, <2>1, <3>1
  <2>4. Built'
    BY <2>1
  <2>5. Stored'
    BY <1>3, <2>1, <2>2
  <2>6. Reports'
    BY <1>1, <2>1
  <2> QED
    BY <1>b, <2>3, <2>4, <2>5, <2>6
<1>5. ASSUME UNCHANGED <<healthMessages, last_alive_state, now, last_heartbeat_ms,
                         sinceHeartbeat, setBack, snapshot>>, Built'
      PROVE  HealthInv'
  BY <1>b, <1>1, <1>2, <1>3, <1>5
<1>6. CASE LoopHead \/ TelemetryTick
  BY <1>5, <1>6 DEF LoopHead, TelemetryTick
<1>7. CASE onHeartbeat
  <2>1. /\ last_heartbeat_ms' = now /\ sinceHeartbeat' = 0 /\ mpc' = "health"
        /\ UNCHANGED <<now, setBack, last_alive_state, healthMessages, snapshot>>
    BY <1>7 DEF onHeartbeat
  <2>2. Passed'
    BY <1>a, <2>1
  <2>3. Reports' /\ Built' /\ Stored'
    BY <1>1, <1>3, <2>1
  <2> QED
    BY <1>b, <2>2, <2>3
<1>8. CASE HealthTick
  <2>1. /\ mpc' = "rates"
        /\ UNCHANGED <<now, last_heartbeat_ms, sinceHeartbeat, setBack, snapshot>>
    BY <1>8 DEF HealthTick
  <2>2. Reports'
    <3>1. CASE last_alive_state = AliveState
      <4>1. UNCHANGED <<healthMessages, last_alive_state>>
        BY <1>8, <3>1 DEF HealthTick
      <4> QED
        BY <1>1, <4>1
    <3>2. CASE last_alive_state # AliveState
      <4>1. healthMessages' = Append(healthMessages, AliveState)
            /\ last_alive_state' = AliveState
        BY <1>8, <3>2 DEF HealthTick
      <4>2. AliveState \in {"alive", "dead"}
            /\ healthMessages \in Seq({"alive", "dead"})
        BY DEF AliveState, TypeOK
      <4> HIDE DEF Passed, Built, Stored
      <4> QED
        BY <1>c, <3>2, <4>1, <4>2, ChangeReported
    <3> QED
      BY <3>1, <3>2
  <2>3. Passed' /\ Built' /\ Stored'
    BY <1>2, <1>3, <2>1
  <2> QED
    BY <1>b, <2>2, <2>3
<1>9. ASSUME NEW n \in Arrivals, BuildRates(n) PROVE HealthInv'
  BY <1>5, <1>9 DEF BuildRates
<1>10. CASE BuildMetrics
  BY <1>5, <1>10 DEF BuildMetrics
<1>11. CASE BuildHealth
  <2>1. /\ status' = [status EXCEPT !.alive = Alive, !.since = sinceHeartbeat]
        /\ UNCHANGED <<healthMessages, last_alive_state, now, last_heartbeat_ms,
                       sinceHeartbeat, setBack, snapshot>>
    BY <1>11 DEF BuildHealth
  <2>2. status'.alive = Alive /\ status'.since = sinceHeartbeat
    BY <1>0, <2>1 DEF Statuses
  <2>3. ASSUME ~setBack PROVE Minus(now, last_heartbeat_ms) = sinceHeartbeat
    BY <1>0, <1>c, <2>3, MinusExact
  <2>4. ASSUME ~setBack PROVE Alive <=> sinceHeartbeat =< timeout_ms
    BY <2>3, <2>4 DEF Alive
  <2>5. Built'
    BY <2>1, <2>2, <2>4 DEF Honest
  <2> QED
    BY <1>5, <2>1, <2>5
<1>12. CASE PublishVersion
  <2>1. /\ mpc = "version" /\ status' = [status EXCEPT !.version = version + 1]
        /\ UNCHANGED <<healthMessages, last_alive_state, now, last_heartbeat_ms,
                       sinceHeartbeat, setBack, snapshot>>
    BY <1>12 DEF PublishVersion
  <2>2. status'.alive = status.alive /\ status'.since = status.since
    BY <1>0, <2>1 DEF Statuses
  <2>3. Built'
    BY <1>c, <2>1, <2>2 DEF Honest
  <2> QED
    BY <1>5, <2>1, <2>3
<1>13. CASE PublishStore
  <2>1. /\ mpc = "store" /\ mpc' = "loop" /\ snapshot' = status
        /\ UNCHANGED <<healthMessages, last_alive_state, now, last_heartbeat_ms,
                       sinceHeartbeat, setBack>>
    BY <1>13 DEF PublishStore
  <2>2. Stored'
    BY <1>c, <2>1 DEF Honest
  <2>3. Reports' /\ Passed' /\ Built'
    BY <1>1, <1>2, <2>1
  <2> QED
    BY <1>b, <2>2, <2>3
<1>14. CASE Query
  <2>1. UNCHANGED <<healthMessages, last_alive_state, now, last_heartbeat_ms,
                    sinceHeartbeat, setBack, snapshot, mpc, status>>
    BY <1>14 DEF Query
  <2>2. Built'
    BY <1>c, <2>1 DEF Honest
  <2> QED
    BY <1>5, <2>1, <2>2
<1>15. CASE UNCHANGED vars
  <2>1. UNCHANGED <<healthMessages, last_alive_state, now, last_heartbeat_ms,
                    sinceHeartbeat, setBack, snapshot, mpc, status>>
    BY <1>15 DEF vars
  <2>2. Built'
    BY <1>c, <2>1 DEF Honest
  <2> QED
    BY <1>5, <2>1, <2>2
<1> QED
  BY <1>4, <1>6, <1>7, <1>8, <1>9, <1>10, <1>11, <1>12, <1>13, <1>14, <1>15
     DEF Next, Tick

\* HealthMonitor publishes changes only, and a published status says alive
\* exactly when no more than timeout_ms had passed since the last heartbeat,
\* unless the clock was set back.
THEOREM HealthReportsCorrect == Spec => []HealthReports
<1>1. Init => TypeOK /\ HealthInv
  <2> SUFFICES ASSUME Init PROVE TypeOK /\ HealthInv
    OBVIOUS
  <2>1. TypeOK
    BY TypeInit
  <2>2. /\ healthMessages = <<>> /\ last_heartbeat_ms = now /\ sinceHeartbeat = 0
        /\ mpc = "rates" /\ snapshot.version = 0
    BY DEF Init, NoStatus
  <2>3. Len(healthMessages) = 0
    BY <2>2
  <2>4. now \in 0..(Word - 1)
    BY <2>1, ClockAssumption DEF TypeOK
  <2>5. now - last_heartbeat_ms = 0 /\ last_heartbeat_ms =< now
    BY <2>2, <2>4
  <2> QED
    BY <2>1, <2>2, <2>3, <2>5 DEF HealthInv
<1>2. TypeOK /\ [Next]_vars => TypeOK'
  BY TypeStep
<1>3. TypeOK /\ HealthInv /\ [Next]_vars => HealthInv'
  BY HealthStep
<1>4. HealthInv => HealthReports
  BY DEF HealthInv, HealthReports, Honest
<1> QED
  BY <1>1, <1>2, <1>3, <1>4, PTL DEF Spec
=============================================================================
