------------------------------- MODULE Daemon -------------------------------
(***************************************************************************)
(* The daemon as main() puts it together: EventLoop, with the packet       *)
(* worker and the export thread beside it, from the construction of the    *)
(* objects through startup failures, the tick loop and the shutdown        *)
(* sequence to the destruction of the objects and the exit of the process. *)
(*                                                                         *)
(* The two other threads keep what matters for lifetimes and for joining   *)
(* them: whether they hold work, and whether they are asleep.  Their       *)
(* queues are PacketProcessor's and TelemetryExport's subject.  Spurious   *)
(* wakeups are left out here: they can only help a thread that overslept.  *)
(***************************************************************************)
EXTENDS EventLoop

CONSTANT MAX_QUEUE_SIZE     \* of PacketProcessor

ASSUME QueueAssumption == MAX_QUEUE_SIZE \in Nat \ {0}

VARIABLES
    built,      \* how many of Objects are alive
    failing,    \* main is returning EXIT_FAILURE
    exit,       \* how the process ended: "none" while it runs
    wpc, wrunning, queued,  \* PacketProcessor's worker, running_, queue size
    xpc, xrunning,          \* TelemetryExportManager's thread, running_
    left        \* clients that ended after sending, without their answer

workerVars == <<wpc, wrunning, queued>>
exportVars == <<xpc, xrunning>>
processVars == <<built, failing, exit>>
daemonVars == <<processVars, workerVars, exportVars, left>>
allVars == <<vars, daemonVars>>

\* The objects of main's inner scope in the order of their declaration.  Those
\* that neither own a thread or a descriptor nor can fail go with the one
\* they are declared before.
Objects == <<"forwardingEngine", "transportManager", "packetProcessor",
             "packetStats", "epollManager", "epollLoop", "exportManager",
             "control_fd", "epollThread", "udpReceiver", "controlServer">>

alive == {Objects[i] : i \in 1..built}

\* Constructors that throw when the kernel refuses them a descriptor.
MayThrow == {"transportManager", "epollManager", "epollLoop"}

DInit ==
    /\ g_receivedSignal = "none" /\ signals = 0
    /\ reason = "None" /\ mpc = "construct" /\ was_running = FALSE
    /\ running_ = FALSE /\ counter = 0
    /\ lpc = "none" /\ events = {}
    /\ open = {} /\ udpReadable = FALSE
    /\ backlog = <<>> /\ current = NoClient /\ served = {}
    /\ sent = {} /\ answered = {} /\ acceptErrors = 0
    /\ built = 0 /\ failing = FALSE /\ exit = "none"
    /\ wpc = "none" /\ wrunning = FALSE /\ queued = 0
    /\ xpc = "none" /\ xrunning = FALSE
    /\ left = {}

loopVars == <<running_, counter, lpc, events>>

-----------------------------------------------------------------------------
(* Startup.                                                                *)

AfterConstruction == IF built + 1 = Len(Objects) THEN "udp" ELSE "construct"

Construct ==
    /\ mpc = "construct" /\ Objects[built + 1] # "control_fd"
    /\ built' = built + 1 /\ mpc' = AfterConstruction
    /\ \/ /\ Objects[built + 1] = "packetProcessor"
          /\ wpc' = "test" /\ wrunning' = TRUE
       \/ /\ Objects[built + 1] # "packetProcessor"
          /\ UNCHANGED <<wpc, wrunning>>
    /\ UNCHANGED <<signalVars, reason, was_running, loopVars, open,
                   udpReadable, clientVars, failing, exit, queued,
                   exportVars, left>>

\* A throwing constructor, or EpollManager::add: nothing catches the
\* exception, so the process is terminated.  (Not modelled: epoll_wait or the
\* eventfd failing on a descriptor that is valid, which would throw as well.)
Throw ==
    /\ \/ mpc = "construct" /\ Objects[built + 1] \in MayThrow
       \/ mpc = "udp"
       \/ mpc = "control" /\ "control" \in open
    /\ exit' = "aborted"
    /\ UNCHANGED <<vars, built, failing, workerVars, exportVars, left>>

\* socket, bind, listen or fcntl may fail: the descriptor is then invalid.
createControlSocket ==
    /\ mpc = "construct" /\ Objects[built + 1] = "control_fd"
    /\ built' = built + 1 /\ mpc' = AfterConstruction
    /\ open' \in {open, open \cup {"control"}}
    /\ UNCHANGED <<signalVars, reason, was_running, loopVars, udpReadable,
                   clientVars, failing, exit, workerVars, exportVars, left>>

\* initializeSocket, unless UDP is disabled.  When it fails the descriptor is
\* -1 and EpollManager::add throws.
initializeSocket ==
    /\ mpc = "udp"
    /\ open' \in {open, open \cup {"udp"}}
    /\ mpc' = "export"
    /\ UNCHANGED <<signalVars, reason, was_running, loopVars, udpReadable,
                   clientVars, daemonVars>>

StartExport ==
    /\ mpc = "export"
    /\ xpc' = "work" /\ xrunning' = TRUE
    /\ mpc' = "control"
    /\ UNCHANGED <<signalVars, reason, was_running, loopVars, open,
                   udpReadable, clientVars, processVars, workerVars, left>>

\* Register the control socket and start the epoll thread, or return
\* EXIT_FAILURE if there is none.
SpawnEpollThread ==
    /\ mpc = "control"
    /\ \/ /\ "control" \in open
          /\ lpc' = "spawned" /\ mpc' = "subscribe" /\ UNCHANGED failing
       \/ /\ "control" \notin open
          /\ failing' = TRUE /\ mpc' = "destroy" /\ UNCHANGED lpc
    /\ UNCHANGED <<signalVars, reason, was_running, running_, counter, events,
                   open, udpReadable, clientVars, built, exit, workerVars,
                   exportVars, left>>

\* The daemon's own subscriptions, SystemStart, state Running.
Subscribe ==
    /\ mpc = "subscribe"
    /\ mpc' = "poll"
    /\ UNCHANGED <<signalVars, reason, was_running, loopVars, open,
                   udpReadable, clientVars, daemonVars>>

-----------------------------------------------------------------------------
(* The packet worker.  It decides to sleep with queue_mutex_ held, which   *)
(* keeps publishers out but not the destructor.                            *)

\* What the epoll thread publishes while it handles an event: nothing that is
\* admitted, or a packet that is.
Publish ==
    \/ UNCHANGED workerVars
    \/ /\ queued < MAX_QUEUE_SIZE /\ wpc # "wait"
       /\ queued' = queued + 1
       /\ wpc' = IF wpc = "blocked" THEN "test" ELSE wpc
       /\ UNCHANGED wrunning

\* Mutant of WorkerTest: the worker leaves as soon as running_ is false.
MutWorkerLeavesEarly ==
    /\ wpc = "test"
    /\ \/ ~wrunning /\ wpc' = "exited" /\ UNCHANGED queued
       \/ wrunning /\ queued > 0 /\ queued' = queued - 1 /\ wpc' = "busy"
       \/ wrunning /\ queued = 0 /\ wpc' = "wait" /\ UNCHANGED queued
    /\ UNCHANGED <<vars, processVars, wrunning, exportVars, left>>

WorkerTest ==
    /\ wpc = "test"
    /\ \/ queued > 0 /\ queued' = queued - 1 /\ wpc' = "busy"
       \/ queued = 0 /\ ~wrunning /\ wpc' = "exited" /\ UNCHANGED queued
       \/ queued = 0 /\ wrunning /\ wpc' = "wait" /\ UNCHANGED queued
    /\ UNCHANGED <<vars, processVars, wrunning, exportVars, left>>

WorkerBlock ==
    /\ wpc = "wait"
    /\ wpc' = "blocked"
    /\ UNCHANGED <<vars, processVars, wrunning, queued, exportVars, left>>

\* Forwarding, transmission and the terminal event, whose subscribers
\* (PacketStats among them) run on this thread while wpc = "busy".
processPacket ==
    /\ wpc = "busy"
    /\ wpc' = "test"
    /\ UNCHANGED <<vars, processVars, wrunning, queued, exportVars, left>>

-----------------------------------------------------------------------------
(* The export thread; "work" covers exporting and the test before a wait.  *)

ExportWait ==
    /\ xpc = "work"
    /\ xpc' = IF xrunning THEN "wait" ELSE "exited"
    /\ UNCHANGED <<vars, processVars, workerVars, xrunning, left>>

ExportBlock ==
    /\ xpc = "wait"
    /\ xpc' = "blocked"
    /\ UNCHANGED <<vars, processVars, workerVars, xrunning, left>>

WakeExport == xpc' = IF xpc = "blocked" THEN "work" ELSE xpc

\* A tick publishes Telemetry, whose subscriber enqueues a sample.
Tick ==
    /\ PollTerminate
    /\ \/ mpc' # "poll" /\ UNCHANGED xpc
       \/ mpc' = "poll" /\ xpc # "wait" /\ WakeExport
    /\ UNCHANGED <<processVars, workerVars, xrunning, left>>

-----------------------------------------------------------------------------
(* The epoll thread's handlers, with what they publish.                    *)

HandleUdp ==
    /\ DispatchUdp /\ Publish
    /\ UNCHANGED <<processVars, exportVars, left>>

\* Only send-packet publishes, and only for a request that was read.
HandleClient ==
    /\ current \notin left
    /\ handleClient
    /\ \/ current \in sent /\ Publish
       \/ current \notin sent /\ UNCHANGED workerVars
    /\ UNCHANGED <<processVars, exportVars, left>>

\* The client's end of the connection is closed: write raises SIGPIPE, which
\* the daemon neither handles nor ignores.
AnswerRaisesSigpipe ==
    /\ lpc = "client" /\ current \in left
    /\ exit' = "killed"
    /\ UNCHANGED <<vars, built, failing, workerVars, exportVars, left>>

\* makeJsonError echoes the request in its message, and dump throws on text
\* that is not valid UTF-8.  That is before the write, and nothing on the
\* epoll thread catches it.
AnswerThrows ==
    /\ lpc = "client" /\ current \in sent
    /\ exit' = "aborted"
    /\ UNCHANGED <<vars, built, failing, workerVars, exportVars, left>>

\* A client is interrupted while it waits for its answer.
Leave(c) ==
    /\ c \in sent \cap (Connections \cup {current}) /\ c \notin left
    /\ left' = left \cup {c}
    /\ UNCHANGED <<vars, processVars, workerVars, exportVars>>

-----------------------------------------------------------------------------
(* The end of shutdown, after EventLoop's part of it.                      *)

MainStep(from, to) ==
    /\ mpc = from /\ mpc' = to
    /\ UNCHANGED <<signalVars, reason, was_running, loopVars, udpReadable,
                   clientVars, failing>>

\* Mutant of StopExport: main does not stop the export manager.
MutNoStopExport ==
    /\ MainStep("stopped", "final")
    /\ UNCHANGED <<open, built, exit, workerVars, exportVars, left>>

\* TelemetryExportManager::stop clears running_ without the mutex, notifies,
\* and joins the thread.
StopExport ==
    /\ MainStep("stopped", "notifyExport")
    /\ xrunning' = FALSE
    /\ UNCHANGED <<open, built, exit, workerVars, xpc, left>>

NotifyExport ==
    /\ MainStep("notifyExport", "joinExport")
    /\ WakeExport
    /\ UNCHANGED <<open, built, exit, workerVars, xrunning, left>>

JoinExport ==
    /\ xpc = "exited"
    /\ MainStep("joinExport", "final")
    /\ UNCHANGED <<open, built, exit, workerVars, exportVars, left>>

\* The last status is built and logged, SystemShutdown is published and main
\* leaves the inner scope.
FinalStatus ==
    /\ MainStep("final", "destroy")
    /\ UNCHANGED <<open, built, exit, workerVars, exportVars, left>>

\* A std::thread that was started and not joined.
Joinable(object) ==
    \/ object = "exportManager" /\ xrunning
    \/ object = "epollThread" /\ lpc \notin {"none", "exited"}

\* Destructors that do not wait, last object first.
DestroyObject ==
    /\ built > 0 /\ Objects[built] # "packetProcessor"
    /\ ~Joinable(Objects[built])
    /\ MainStep("destroy", "destroy")
    /\ built' = built - 1
    /\ open' = open \ (CASE Objects[built] = "udpReceiver" -> {"udp"}
                         [] Objects[built] = "control_fd" -> {"control"}
                         [] OTHER -> {})
    /\ UNCHANGED <<exit, workerVars, exportVars, left>>

\* The destructor of a joinable std::thread calls std::terminate; neither
\* TelemetryExportManager nor main's return path joins first.
DestroyJoinable ==
    /\ built > 0 /\ Joinable(Objects[built])
    /\ MainStep("destroy", "destroy")
    /\ exit' = "aborted"
    /\ UNCHANGED <<open, built, workerVars, exportVars, left>>

\* ~PacketProcessor: clear running_ without the mutex, notify, join.
StopWorker ==
    /\ built > 0 /\ Objects[built] = "packetProcessor"
    /\ MainStep("destroy", "notifyWorker")
    /\ wrunning' = FALSE
    /\ UNCHANGED <<open, built, exit, wpc, queued, exportVars, left>>

NotifyWorker ==
    /\ MainStep("notifyWorker", "joinWorker")
    /\ wpc' = IF wpc = "blocked" THEN "test" ELSE wpc
    /\ UNCHANGED <<open, built, exit, wrunning, queued, exportVars, left>>

\* Mutant of JoinWorker: the destructor detaches the worker.
MutDetachWorker ==
    /\ MainStep("joinWorker", "destroy")
    /\ built' = built - 1
    /\ UNCHANGED <<open, exit, workerVars, exportVars, left>>

JoinWorker ==
    /\ wpc = "exited"
    /\ MainStep("joinWorker", "destroy")
    /\ built' = built - 1
    /\ UNCHANGED <<open, exit, workerVars, exportVars, left>>

\* The leak check only logs; main returns 0, or the value it was returning.
ExitProcess ==
    /\ built = 0
    /\ MainStep("destroy", "gone")
    /\ exit' = IF failing THEN "failure" ELSE "success"
    /\ UNCHANGED <<open, built, workerVars, exportVars, left>>

-----------------------------------------------------------------------------
\* EventLoop's own step.
Plain(A) == A /\ UNCHANGED daemonVars

\* Nobody looks at the signal again once a shutdown is requested.
DEnvironment ==
    \/ Plain(Environment) /\ (reason = "None" \/ UNCHANGED signalVars)
    \/ \E c \in Clients : Leave(c)

DMain ==
    \/ Construct \/ Throw \/ createControlSocket \/ initializeSocket
    \/ StartExport \/ SpawnEpollThread \/ Subscribe
    \/ Plain(PollInterrupt) \/ Tick
    \/ Plain(stop \/ notify \/ Join \/ destroyControlSocket \/ StopUdpReceiver)
    \/ StopExport \/ NotifyExport \/ JoinExport \/ FinalStatus
    \/ DestroyObject \/ DestroyJoinable
    \/ StopWorker \/ NotifyWorker \/ JoinWorker \/ ExitProcess

DLoop ==
    \/ Plain(run \/ TestRunning \/ wait \/ DispatchShutdown)
    \/ Plain(DispatchControl \/ BatchDone \/ Accept)
    \/ HandleUdp \/ HandleClient \/ AnswerRaisesSigpipe \/ AnswerThrows

DWorker == WorkerTest \/ WorkerBlock \/ processPacket

DExport == ExportWait \/ ExportBlock

\* A process that has ended takes no steps.
DNext ==
    /\ exit = "none"
    /\ \/ DEnvironment \/ DMain \/ DLoop \/ Plain(WaitTimesOut)
       \/ DWorker \/ DExport

Running(A) == exit = "none" /\ A

\* Every thread is scheduled; nothing is assumed of the wait's timeout.
DSpec ==
    /\ DInit /\ [][DNext]_allVars
    /\ WF_allVars(Running(DMain)) /\ WF_allVars(Running(DLoop))
    /\ WF_allVars(Running(DWorker)) /\ WF_allVars(Running(DExport))

-----------------------------------------------------------------------------
(* Properties.                                                             *)

EpollUses == {"forwardingEngine", "transportManager", "packetProcessor",
              "packetStats", "epollManager", "epollLoop", "control_fd",
              "udpReceiver", "controlServer"}
WorkerUses == {"forwardingEngine", "transportManager", "packetProcessor"}

\* No thread outlives what it works on: whatever main destroys or closes, in
\* the order of its shutdown and of its declarations, no running thread uses
\* it any more.  (PacketStats under the worker is the exception, stated on
\* its own below.)
NoUseAfterRelease ==
    /\ lpc \notin {"none", "exited"} => EpollUses \subseteq alive
    /\ wpc \notin {"none", "exited"} => WorkerUses \subseteq alive
    /\ xpc \notin {"none", "exited"} => "exportManager" \in alive
    /\ NoHandlerOnClosedSocket

\* Where std::terminate can be reached: while main starts up, which includes
\* the return of EXIT_FAILURE for want of a control socket, with the export
\* thread still joinable; and in the answer to a client.  Never from the end
\* of a shutdown: by the time main destroys its objects, each thread that is
\* not joined by a destructor has been joined, whatever it was doing when the
\* signal came.
NoJoinableDestroyed ==
    /\ exit = "aborted" => lpc = "none" \/ (lpc = "client" /\ current \in sent)
    /\ mpc = "destroy" /\ ~failing => \A i \in 1..built : ~Joinable(Objects[i])

Active == open \cup (alive \cap {"transportManager", "epollManager", "epollLoop"})

\* Exit status 0 means an orderly end: a signal asked for it, every thread
\* has ended with its work done, every object is gone and no descriptor is
\* left for the leak check to report.
ExitIsClean ==
    exit = "success" =>
        /\ reason # "None"
        /\ lpc = "exited" /\ xpc = "exited" /\ wpc = "exited" /\ queued = 0
        /\ built = 0 /\ Active = {}

\* A thread that decided to sleep before the notification and slept after it.
Overslept ==
    \/ mpc = "joinExport" /\ xpc = "blocked"
    \/ mpc = "joinWorker" /\ wpc = "blocked"

StoppedTooEarly == mpc = "join" /\ ~was_running

\* A signal ends the process, whichever of the two it is, whatever the threads
\* are doing and without help from epoll_wait's timeout.  Only two things can
\* prevent it: a stop() before the epoll thread has entered its loop, and one
\* of the two notifications sent without the mutex being lost.
SignalEndsProcess ==
    g_receivedSignal # "none" ~> exit # "none" \/ Overslept \/ StoppedTooEarly

\* A request that is in the socket before its connection is accepted is
\* answered, however busy the UDP socket is and though accepts fail, unless a
\* shutdown is under way or the process has ended.
EarlyRequestAnswered ==
    \A c \in Clients :
        c \in Connections /\ c \in sent ~>
            c \in answered \/ reason # "None" \/ exit # "none"

\* What the documentation says of shutdown: owning subsystems terminate their
\* workers; so no terminal event is delivered to a PacketStats that is gone.
NoEventAfterPacketStats == wpc = "busy" => "packetStats" \in alive
=============================================================================
