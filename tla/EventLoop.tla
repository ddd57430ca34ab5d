------------------------------ MODULE EventLoop ------------------------------
(***************************************************************************)
(* EpollEventLoop and its wakeup eventfd, the UDP and control sockets it   *)
(* serves, ControlServer's accept loop, and the main thread that turns a   *)
(* signal into a shutdown: stop the loop, join it, close the sockets.      *)
(*                                                                         *)
(* epoll is level triggered: a wait returns every descriptor that is       *)
(* ready, in an order the kernel chooses, so a batch of events is a set.   *)
(* What the UDP handler does with its datagrams is PacketPipeline's; here  *)
(* one call either drains the socket or ends with its budget spent.  A     *)
(* wait interrupted by a signal is retried and changes nothing.            *)
(***************************************************************************)
EXTENDS Naturals, Sequences, FiniteSets

CONSTANTS
    Clients,            \* control clients, one connection each
    MaxSignals,         \* bound: signals delivered
    MaxAcceptErrors     \* bound: accept4 failures other than EAGAIN

ASSUME LoopAssumption == MaxSignals \in Nat /\ MaxAcceptErrors \in Nat

VARIABLES
    g_receivedSignal, signals,
    reason,             \* ShutdownRequest: "None" until a shutdown is requested
    mpc,                \* where the main thread is
    running_,           \* EpollEventLoop::running_
    was_running,        \* what stop() read of it
    counter,            \* the eventfd's counter
    lpc,                \* where the epoll thread is
    events,             \* events of the current batch still to dispatch
    open,               \* sockets not closed yet
    udpReadable,        \* a datagram is queued in the UDP socket
    backlog,            \* connections waiting to be accepted, in order
    current,            \* the client in handleClient
    served,             \* clients whose connection the server has closed
    sent, answered, acceptErrors

mainVars == <<reason, mpc, was_running>>
signalVars == <<g_receivedSignal, signals>>
clientVars == <<backlog, current, served, sent, answered, acceptErrors>>
vars == <<signalVars, mainVars, running_, counter, lpc, events, open,
          udpReadable, clientVars>>

NoClient == "no client"

Init ==
    /\ g_receivedSignal = "none" /\ signals = 0
    /\ reason = "None" /\ mpc = "poll" /\ was_running = FALSE
    /\ running_ = FALSE /\ counter = 0
    /\ lpc = "spawned" /\ events = {}
    /\ open = {"udp", "control"} /\ udpReadable = FALSE
    /\ backlog = <<>> /\ current = NoClient /\ served = {}
    /\ sent = {} /\ answered = {} /\ acceptErrors = 0

-----------------------------------------------------------------------------
(* The environment: signals, datagrams, CLI clients.                       *)

handleSignal(signal) ==
    /\ signals < MaxSignals
    /\ g_receivedSignal' = signal /\ signals' = signals + 1
    /\ UNCHANGED <<mainVars, running_, counter, lpc, events, open,
                   udpReadable, clientVars>>

Datagram ==
    /\ "udp" \in open /\ ~udpReadable
    /\ udpReadable' = TRUE
    /\ UNCHANGED <<signalVars, mainVars, running_, counter, lpc, events, open,
                   clientVars>>

Connections == {backlog[i] : i \in 1..Len(backlog)}

\* executeControlCommand connects first and writes its request afterwards.
Connect(c) ==
    /\ "control" \in open
    /\ c \notin Connections \cup served \cup {current}
    /\ backlog' = Append(backlog, c)
    /\ UNCHANGED <<signalVars, mainVars, running_, counter, lpc, events, open,
                   udpReadable, current, served, sent, answered, acceptErrors>>

SendRequest(c) ==
    /\ c \in Connections \cup served \cup {current} /\ c \notin sent
    /\ sent' = sent \cup {c}
    /\ UNCHANGED <<signalVars, mainVars, running_, counter, lpc, events, open,
                   udpReadable, backlog, current, served, answered,
                   acceptErrors>>

-----------------------------------------------------------------------------
(* The main thread.                                                        *)

request(why) == reason' = IF reason = "None" THEN why ELSE reason

\* The tick loop reads g_receivedSignal once for each signal it knows.
PollInterrupt ==
    /\ mpc = "poll"
    /\ \/ /\ g_receivedSignal = "SIGINT"
          /\ request("SignalInterrupt") /\ mpc' = "stop"
       \/ /\ g_receivedSignal # "SIGINT"
          /\ mpc' = "pollTerm" /\ UNCHANGED reason
    /\ UNCHANGED <<signalVars, was_running, running_, counter, lpc, events,
                   open, udpReadable, clientVars>>

\* The second test, and the tick when neither signal was seen.
PollTerminate ==
    /\ mpc = "pollTerm"
    /\ \/ /\ g_receivedSignal = "SIGTERM"
          /\ request("SignalTerminate") /\ mpc' = "stop"
       \/ /\ g_receivedSignal # "SIGTERM"
          /\ mpc' = "poll" /\ UNCHANGED reason
    /\ UNCHANGED <<signalVars, was_running, running_, counter, lpc, events,
                   open, udpReadable, clientVars>>

\* EpollEventLoop::stop() writes to the eventfd only if the loop was running.
stop ==
    /\ mpc = "stop"
    /\ was_running' = running_
    /\ running_' = FALSE
    /\ mpc' = IF running_ THEN "notify" ELSE "join"
    /\ UNCHANGED <<signalVars, reason, counter, lpc, events, open, udpReadable,
                   clientVars>>

\* Mutant of notify: the eventfd is never written.
MutNoNotify ==
    /\ mpc = "notify"
    /\ mpc' = "join"
    /\ UNCHANGED <<signalVars, reason, was_running, running_, counter, lpc,
                   events, open, udpReadable, clientVars>>

notify ==
    /\ mpc = "notify"
    /\ counter' = counter + 1
    /\ mpc' = "join"
    /\ UNCHANGED <<signalVars, reason, was_running, running_, lpc, events,
                   open, udpReadable, clientVars>>

Join ==
    /\ mpc = "join" /\ lpc = "exited"
    /\ mpc' = "closeControl"
    /\ UNCHANGED <<signalVars, reason, was_running, running_, counter, lpc,
                   events, open, udpReadable, clientVars>>

\* Connections still in the backlog are reset.
destroyControlSocket ==
    /\ mpc = "closeControl"
    /\ open' = open \ {"control"}
    /\ backlog' = <<>>
    /\ mpc' = "closeUdp"
    /\ UNCHANGED <<signalVars, reason, was_running, running_, counter, lpc,
                   events, udpReadable, current, served, sent, answered,
                   acceptErrors>>

StopUdpReceiver ==
    /\ mpc = "closeUdp"
    /\ open' = open \ {"udp"} /\ udpReadable' = FALSE
    /\ mpc' = "stopped"
    /\ UNCHANGED <<signalVars, reason, was_running, running_, counter, lpc,
                   events, clientVars>>

-----------------------------------------------------------------------------
(* The epoll thread.                                                       *)

run ==
    /\ lpc = "spawned"
    /\ running_' = TRUE
    /\ lpc' = "test"
    /\ UNCHANGED <<signalVars, mainVars, counter, events, open, udpReadable,
                   clientVars>>

TestRunning ==
    /\ lpc = "test"
    /\ lpc' = IF running_ THEN "wait" ELSE "exited"
    /\ UNCHANGED <<signalVars, mainVars, running_, counter, events, open,
                   udpReadable, clientVars>>

Ready ==
    {fd \in {"shutdown", "udp", "control"} :
        \/ fd = "shutdown" /\ counter > 0
        \/ fd = "udp" /\ udpReadable
        \/ fd = "control" /\ backlog # <<>>}

wait ==
    /\ lpc = "wait" /\ Ready # {}
    /\ events' = Ready
    /\ lpc' = "dispatch"
    /\ UNCHANGED <<signalVars, mainVars, running_, counter, open, udpReadable,
                   clientVars>>

WaitTimesOut ==
    /\ lpc = "wait" /\ Ready = {}
    /\ lpc' = "test"
    /\ UNCHANGED <<signalVars, mainVars, running_, counter, events, open,
                   udpReadable, clientVars>>

\* ShutdownWakeupHandler drains the eventfd.
DispatchShutdown ==
    /\ lpc = "dispatch" /\ "shutdown" \in events
    /\ events' = events \ {"shutdown"}
    /\ counter' = 0
    /\ UNCHANGED <<signalVars, mainVars, running_, lpc, open, udpReadable,
                   clientVars>>

DispatchUdp ==
    /\ lpc = "dispatch" /\ "udp" \in events
    /\ events' = events \ {"udp"}
    /\ udpReadable' \in BOOLEAN
    /\ UNCHANGED <<signalVars, mainVars, running_, counter, lpc, open,
                   clientVars>>

\* Mutant of DispatchControl: the control descriptor has no handler, so its
\* events are ignored.
MutControlUnregistered ==
    /\ lpc = "dispatch" /\ "control" \in events
    /\ events' = events \ {"control"}
    /\ UNCHANGED <<signalVars, mainVars, running_, counter, lpc, open,
                   udpReadable, clientVars>>

DispatchControl ==
    /\ lpc = "dispatch" /\ "control" \in events
    /\ events' = events \ {"control"}
    /\ lpc' = "accept"
    /\ UNCHANGED <<signalVars, mainVars, running_, counter, open, udpReadable,
                   clientVars>>

BatchDone ==
    /\ lpc = "dispatch" /\ events = {}
    /\ lpc' = "test"
    /\ UNCHANGED <<signalVars, mainVars, running_, counter, events, open,
                   udpReadable, clientVars>>

\* accept4 returns a connection, EAGAIN on an empty backlog, or another error.
Accept ==
    /\ lpc = "accept"
    /\ \/ /\ backlog # <<>>
          /\ current' = Head(backlog) /\ backlog' = Tail(backlog)
          /\ lpc' = "client" /\ UNCHANGED acceptErrors
       \/ /\ backlog = <<>>
          /\ lpc' = "dispatch" /\ UNCHANGED <<current, backlog, acceptErrors>>
       \/ /\ backlog # <<>> /\ acceptErrors < MaxAcceptErrors
          /\ acceptErrors' = acceptErrors + 1
          /\ lpc' = "dispatch" /\ UNCHANGED <<current, backlog>>
    /\ UNCHANGED <<signalVars, mainVars, running_, counter, events, open,
                   udpReadable, served, sent, answered>>

\* The connection is non-blocking: if the request has not arrived yet, read
\* fails with EAGAIN and the connection is closed without an answer.
handleClient ==
    /\ lpc = "client"
    /\ answered' = IF current \in sent THEN answered \cup {current}
                   ELSE answered
    /\ served' = served \cup {current} /\ current' = NoClient
    /\ lpc' = "accept"
    /\ UNCHANGED <<signalVars, mainVars, running_, counter, events, open,
                   udpReadable, backlog, sent, acceptErrors>>

-----------------------------------------------------------------------------
Environment ==
    \/ \E signal \in {"SIGINT", "SIGTERM"} : handleSignal(signal)
    \/ Datagram
    \/ \E c \in Clients : Connect(c) \/ SendRequest(c)

Main ==
    \/ PollInterrupt \/ PollTerminate \/ stop \/ notify \/ Join
    \/ destroyControlSocket \/ StopUdpReceiver

Loop ==
    \/ run \/ TestRunning \/ wait
    \/ DispatchShutdown \/ DispatchUdp \/ DispatchControl \/ BatchDone
    \/ Accept \/ handleClient

Next == Environment \/ Main \/ Loop \/ WaitTimesOut

\* Both threads are scheduled; nothing is assumed of the wait's timeout.
Fairness == WF_vars(Main) /\ WF_vars(Loop)
Spec == Init /\ [][Next]_vars /\ Fairness

\* The same, and an idle wait does time out.
TimeoutSpec == Spec /\ WF_vars(WaitTimesOut)

-----------------------------------------------------------------------------
(* Properties.                                                             *)

\* The sockets outlive the thread that reads them: no handler is called, and
\* none is running, on a descriptor that shutdown has closed.
NoHandlerOnClosedSocket ==
    /\ lpc \in {"accept", "client"} => "control" \in open
    /\ events \cap {"udp", "control"} \subseteq open

\* What the documentation says of shutdown: stop() makes while(running_)
\* evaluate false and the event loop exits, so that the join returns.
StopEndsLoop == mpc = "join" ~> mpc = "stopped"
=============================================================================
