---------------------------- MODULE DaemonProofs ----------------------------
(***************************************************************************)
(* Proofs about Daemon, for any number of clients, signals and packets: no *)
(* thread outlives what it uses (PacketStats under the worker excepted),   *)
(* main destroys no joinable thread after a shutdown, and exit status 0    *)
(* means an orderly end.                                                   *)
(*                                                                         *)
(* The argument ties every thread to the step main is at: which objects    *)
(* main has built or destroyed there, which sockets are open, and which    *)
(* threads it has started or joined.                                       *)
(***************************************************************************)
EXTENDS Daemon, TLAPS

-----------------------------------------------------------------------------
(* The inductive invariant, by what it is about.                           *)

Starting == {"construct", "udp", "export", "control"}
Serving == {"subscribe", "poll", "pollTerm", "stop", "notify", "join"}
Closing == {"closeControl", "closeUdp", "stopped"}
JoiningExport == {"notifyExport", "joinExport"}
JoiningWorker == {"notifyWorker", "joinWorker"}
Ending == {"final", "destroy", "gone"} \cup JoiningWorker

\* Everything is built from the end of construction to the first destructor.
\* Only a failed control socket makes main fail, and then the export
\* manager, whose thread is running, is never destroyed.
ObjectsInv ==
    /\ mpc \in Starting \cup Serving \cup Closing \cup JoiningExport \cup Ending
    /\ built \in 0..11
    /\ mpc = "construct" => built < 11
    /\ mpc \in JoiningWorker => built = 3
    /\ mpc = "gone" => built = 0
    /\ mpc \notin {"construct", "destroy", "gone"} \cup JoiningWorker =>
          built = 11
    /\ failing => mpc = "destroy" /\ built >= 7

\* The epoll thread is started when startup has succeeded, and joined before
\* anything is closed.
EpollInv ==
    /\ lpc \in {"none", "spawned", "test", "wait", "dispatch", "accept",
                "client", "exited"}
    /\ mpc \in Starting \/ failing => lpc = "none"
    /\ mpc \in Serving => lpc # "none"
    /\ mpc \in Closing \cup JoiningExport \cup Ending /\ ~failing =>
          lpc = "exited"

\* The export thread is started late in startup and joined by stop(), unless
\* main fails.
ExportInv ==
    /\ xpc \in {"none", "work", "wait", "blocked", "exited"}
    /\ mpc \in {"construct", "udp", "export"} => xpc = "none"
    /\ mpc \in {"control"} \cup Serving \cup Closing \/ failing =>
          xrunning /\ xpc \notin {"none", "exited"}
    /\ mpc \in JoiningExport => ~xrunning /\ xpc # "none"
    /\ mpc \in Ending /\ ~failing => ~xrunning /\ xpc = "exited"

\* The packet worker runs as long as its processor is alive and not being
\* destroyed, and ends with an empty queue.
WorkerInv ==
    /\ wpc \in {"none", "test", "wait", "blocked", "busy", "exited"}
    /\ queued \in Nat
    /\ mpc = "construct" /\ built < 3 => wpc = "none"
    /\ built >= 3 /\ mpc \notin JoiningWorker =>
          wrunning /\ wpc \notin {"none", "exited"}
    /\ mpc \in JoiningWorker => ~wrunning /\ wpc # "none"
    /\ mpc \in {"destroy", "gone"} /\ built < 3 => wpc = "exited"
    /\ wpc = "exited" => queued = 0

\* The sockets are open while the epoll thread may use them, and closed in an
\* orderly shutdown; what is ready or being handled belongs to an open one.
SocketInv ==
    /\ open \subseteq {"udp", "control"}
    /\ mpc \in Serving \cup {"closeControl"} => "control" \in open
    /\ failing => "control" \notin open
    /\ mpc = "closeUdp" => "control" \notin open
    /\ mpc \in {"stopped"} \cup JoiningExport \cup Ending /\ ~failing =>
          open = {}
    /\ udpReadable /\ ~failing => "udp" \in open
    /\ backlog # <<>> => "control" \in open
    /\ lpc \notin {"dispatch", "accept", "client"} => events = {}
    /\ NoHandlerOnClosedSocket

\* A shutdown has a reason, and how the process may have ended.
ExitInv ==
    /\ mpc \notin Starting \cup {"subscribe", "poll", "pollTerm"} /\ ~failing =>
          reason # "None"
    /\ exit = "aborted" => lpc = "none" \/ (lpc = "client" /\ current \in sent)
    /\ exit = "success" => mpc = "gone"

IInv == ObjectsInv /\ EpollInv /\ ExportInv /\ WorkerInv /\ SocketInv /\ ExitInv

-----------------------------------------------------------------------------
(* The steps.                                                              *)

\* Where the objects that matter stand in main's scope.
LEMMA Places ==
    ASSUME NEW i \in 1..11
    PROVE  /\ Len(Objects) = 11
           /\ Objects[i] = "packetProcessor" <=> i = 3
           /\ Objects[i] = "exportManager" <=> i = 7
           /\ Objects[i] = "control_fd" <=> i = 8
           /\ Objects[i] = "epollThread" <=> i = 9
           /\ Objects[i] = "udpReceiver" <=> i = 10
BY DEF Objects

\* Startup keeps the invariant.
LEMMA StartupStep ==
    ASSUME IInv, exit = "none",
           \/ Construct \/ Throw \/ createControlSocket \/ initializeSocket
           \/ StartExport \/ SpawnEpollThread \/ Subscribe
    PROVE  IInv'
<1> USE DEF loopVars, signalVars, mainVars, clientVars, vars, workerVars,
            exportVars, processVars, daemonVars,
            Starting, Serving, Closing, JoiningExport, JoiningWorker, Ending
<1>0. /\ built \in 0..11 /\ (built # 11 => built + 1 \in 1..11)
      /\ (built # 0 => built \in 1..11) /\ Len(Objects) = 11
  BY Places DEF IInv, ObjectsInv
<1>1. ASSUME Construct PROVE IInv'
  <2>1. ObjectsInv'
    BY <1>0, Places, <1>1 DEF Construct, AfterConstruction, IInv, ObjectsInv
  <2>2. EpollInv'
    BY <1>1 DEF Construct, AfterConstruction, IInv, EpollInv
  <2>3. ExportInv'
    BY <1>1 DEF Construct, AfterConstruction, IInv, ExportInv
  <2>4. WorkerInv'
    BY <1>0, Places, <1>1 DEF Construct, AfterConstruction, IInv, WorkerInv
  <2>5. SocketInv'
    BY <1>1 DEF Construct, AfterConstruction, IInv, SocketInv,
       NoHandlerOnClosedSocket
  <2>6. ExitInv'
    BY <1>1 DEF Construct, AfterConstruction, IInv, ExitInv
  <2> QED
    BY <2>1, <2>2, <2>3, <2>4, <2>5, <2>6 DEF IInv
<1>2. ASSUME Throw PROVE IInv'
  <2>1. ObjectsInv'
    BY <1>2 DEF Throw, IInv, ObjectsInv
  <2>2. EpollInv'
    BY <1>2 DEF Throw, IInv, EpollInv
  <2>3. ExportInv'
    BY <1>2 DEF Throw, IInv, ExportInv
  <2>4. WorkerInv'
    BY <1>2 DEF Throw, IInv, WorkerInv
  <2>5. SocketInv'
    BY <1>2 DEF Throw, IInv, SocketInv, NoHandlerOnClosedSocket
  <2>6. ExitInv'
    BY <1>2 DEF Throw, IInv, EpollInv, ExitInv
  <2> QED
    BY <2>1, <2>2, <2>3, <2>4, <2>5, <2>6 DEF IInv
<1>3. ASSUME createControlSocket PROVE IInv'
  <2>1. ObjectsInv'
    BY <1>0, Places, <1>3 DEF createControlSocket, AfterConstruction, IInv,
       ObjectsInv
  <2>2. EpollInv'
    BY <1>3 DEF createControlSocket, AfterConstruction, IInv, EpollInv
  <2>3. ExportInv'
    BY <1>3 DEF createControlSocket, AfterConstruction, IInv, ExportInv
  <2>4. WorkerInv'
    BY <1>0, Places, <1>3 DEF createControlSocket, AfterConstruction, IInv,
       WorkerInv
  <2>5. SocketInv'
    BY <1>3 DEF createControlSocket, AfterConstruction, IInv, ObjectsInv,
       SocketInv, NoHandlerOnClosedSocket
  <2>6. ExitInv'
    BY <1>3 DEF createControlSocket, AfterConstruction, IInv, ExitInv
  <2> QED
    BY <2>1, <2>2, <2>3, <2>4, <2>5, <2>6 DEF IInv
<1>4. ASSUME initializeSocket PROVE IInv'
  <2>1. ObjectsInv'
    BY <1>4 DEF initializeSocket, IInv, ObjectsInv
  <2>2. EpollInv'
    BY <1>4 DEF initializeSocket, IInv, EpollInv
  <2>3. ExportInv'
    BY <1>4 DEF initializeSocket, IInv, ExportInv
  <2>4. WorkerInv'
    BY <1>4 DEF initializeSocket, IInv, WorkerInv
  <2>5. SocketInv'
    BY <1>4 DEF initializeSocket, IInv, SocketInv, NoHandlerOnClosedSocket
  <2>6. ExitInv'
    BY <1>4 DEF initializeSocket, IInv, ExitInv
  <2> QED
    BY <2>1, <2>2, <2>3, <2>4, <2>5, <2>6 DEF IInv
<1>5. ASSUME StartExport PROVE IInv'
  <2>1. ObjectsInv'
    BY <1>5 DEF StartExport, IInv, ObjectsInv
  <2>2. EpollInv'
    BY <1>5 DEF StartExport, IInv, EpollInv
  <2>3. ExportInv'
    BY <1>5 DEF StartExport, IInv, ExportInv
  <2>4. WorkerInv'
    BY <1>5 DEF StartExport, IInv, WorkerInv
  <2>5. SocketInv'
    BY <1>5 DEF StartExport, IInv, SocketInv, NoHandlerOnClosedSocket
  <2>6. ExitInv'
    BY <1>5 DEF StartExport, IInv, ExitInv
  <2> QED
    BY <2>1, <2>2, <2>3, <2>4, <2>5, <2>6 DEF IInv
<1>6. ASSUME SpawnEpollThread PROVE IInv'
  <2>1. ObjectsInv'
    BY <1>6 DEF SpawnEpollThread, IInv, ObjectsInv
  <2>2. EpollInv'
    BY <1>6 DEF SpawnEpollThread, IInv, ObjectsInv, EpollInv
  <2>3. ExportInv'
    BY <1>6 DEF SpawnEpollThread, IInv, ExportInv
  <2>4. WorkerInv'
    BY <1>6 DEF SpawnEpollThread, IInv, ObjectsInv, WorkerInv
  <2>5. SocketInv'
    BY <1>6 DEF SpawnEpollThread, IInv, EpollInv, SocketInv,
       NoHandlerOnClosedSocket
  <2>6. ExitInv'
    BY <1>6 DEF SpawnEpollThread, IInv, ExitInv
  <2> QED
    BY <2>1, <2>2, <2>3, <2>4, <2>5, <2>6 DEF IInv
<1>7. ASSUME Subscribe PROVE IInv'
  <2>1. ObjectsInv'
    BY <1>7 DEF Subscribe, IInv, ObjectsInv
  <2>2. EpollInv'
    BY <1>7 DEF Subscribe, IInv, EpollInv
  <2>3. ExportInv'
    BY <1>7 DEF Subscribe, IInv, ExportInv
  <2>4. WorkerInv'
    BY <1>7 DEF Subscribe, IInv, WorkerInv
  <2>5. SocketInv'
    BY <1>7 DEF Subscribe, IInv, SocketInv, NoHandlerOnClosedSocket
  <2>6. ExitInv'
    BY <1>7 DEF Subscribe, IInv, ExitInv
  <2> QED
    BY <2>1, <2>2, <2>3, <2>4, <2>5, <2>6 DEF IInv
<1> QED
  BY <1>1, <1>2, <1>3, <1>4, <1>5, <1>6, <1>7

\* The tick loop and the first part of the shutdown keep the invariant.
LEMMA TickStep ==
    ASSUME IInv, exit = "none",
           \/ Plain(PollInterrupt) \/ Tick \/ Plain(stop) \/ Plain(notify)
           \/ Plain(Join) \/ Plain(destroyControlSocket)
           \/ Plain(StopUdpReceiver)
    PROVE  IInv'
<1> USE DEF loopVars, signalVars, mainVars, clientVars, vars, workerVars,
            exportVars, processVars, daemonVars,
            Starting, Serving, Closing, JoiningExport, JoiningWorker, Ending
<1>1. ASSUME Plain(PollInterrupt) PROVE IInv'
  <2>1. ObjectsInv'
    BY <1>1 DEF Plain, PollInterrupt, request, IInv, ObjectsInv
  <2>2. EpollInv'
    BY <1>1 DEF Plain, PollInterrupt, request, IInv, EpollInv
  <2>3. ExportInv'
    BY <1>1 DEF Plain, PollInterrupt, request, IInv, ExportInv
  <2>4. WorkerInv'
    BY <1>1 DEF Plain, PollInterrupt, request, IInv, WorkerInv
  <2>5. SocketInv'
    BY <1>1 DEF Plain, PollInterrupt, request, IInv, SocketInv,
       NoHandlerOnClosedSocket
  <2>6. ExitInv'
    BY <1>1 DEF Plain, PollInterrupt, request, IInv, ExitInv
  <2> QED
    BY <2>1, <2>2, <2>3, <2>4, <2>5, <2>6 DEF IInv
<1>2. ASSUME Tick PROVE IInv'
  <2>1. ObjectsInv'
    BY <1>2 DEF Tick, PollTerminate, WakeExport, request, IInv, ObjectsInv
  <2>2. EpollInv'
    BY <1>2 DEF Tick, PollTerminate, WakeExport, request, IInv, EpollInv
  <2>3. ExportInv'
    BY <1>2 DEF Tick, PollTerminate, WakeExport, request, IInv, ExportInv
  <2>4. WorkerInv'
    BY <1>2 DEF Tick, PollTerminate, WakeExport, request, IInv, WorkerInv
  <2>5. SocketInv'
    BY <1>2 DEF Tick, PollTerminate, WakeExport, request, IInv, SocketInv,
       NoHandlerOnClosedSocket
  <2>6. ExitInv'
    BY <1>2 DEF Tick, PollTerminate, WakeExport, request, IInv, ExitInv
  <2> QED
    BY <2>1, <2>2, <2>3, <2>4, <2>5, <2>6 DEF IInv
<1>3. ASSUME Plain(stop) PROVE IInv'
  <2>1. ObjectsInv'
    BY <1>3 DEF Plain, stop, IInv, ObjectsInv
  <2>2. EpollInv'
    BY <1>3 DEF Plain, stop, IInv, EpollInv
  <2>3. ExportInv'
    BY <1>3 DEF Plain, stop, IInv, ExportInv
  <2>4. WorkerInv'
    BY <1>3 DEF Plain, stop, IInv, WorkerInv
  <2>5. SocketInv'
    BY <1>3 DEF Plain, stop, IInv, SocketInv, NoHandlerOnClosedSocket
  <2>6. ExitInv'
    BY <1>3 DEF Plain, stop, IInv, ExitInv
  <2> QED
    BY <2>1, <2>2, <2>3, <2>4, <2>5, <2>6 DEF IInv
<1>4. ASSUME Plain(notify) PROVE IInv'
  <2>1. ObjectsInv'
    BY <1>4 DEF Plain, notify, IInv, ObjectsInv
  <2>2. EpollInv'
    BY <1>4 DEF Plain, notify, IInv, EpollInv
  <2>3. ExportInv'
    BY <1>4 DEF Plain, notify, IInv, ExportInv
  <2>4. WorkerInv'
    BY <1>4 DEF Plain, notify, IInv, WorkerInv
  <2>5. SocketInv'
    BY <1>4 DEF Plain, notify, IInv, SocketInv, NoHandlerOnClosedSocket
  <2>6. ExitInv'
    BY <1>4 DEF Plain, notify, IInv, ExitInv
  <2> QED
    BY <2>1, <2>2, <2>3, <2>4, <2>5, <2>6 DEF IInv
<1>5. ASSUME Plain(Join) PROVE IInv'
  <2>1. ObjectsInv'
    BY <1>5 DEF Plain, Join, IInv, ObjectsInv
  <2>2. EpollInv'
    BY <1>5 DEF Plain, Join, IInv, EpollInv
  <2>3. ExportInv'
    BY <1>5 DEF Plain, Join, IInv, ExportInv
  <2>4. WorkerInv'
    BY <1>5 DEF Plain, Join, IInv, WorkerInv
  <2>5. SocketInv'
    BY <1>5 DEF Plain, Join, IInv, SocketInv, NoHandlerOnClosedSocket
  <2>6. ExitInv'
    BY <1>5 DEF Plain, Join, IInv, ExitInv
  <2> QED
    BY <2>1, <2>2, <2>3, <2>4, <2>5, <2>6 DEF IInv
<1>6. ASSUME Plain(destroyControlSocket) PROVE IInv'
  <2>1. ObjectsInv'
    BY <1>6 DEF Plain, destroyControlSocket, IInv, ObjectsInv
  <2>2. EpollInv'
    BY <1>6 DEF Plain, destroyControlSocket, IInv, EpollInv
  <2>3. ExportInv'
    BY <1>6 DEF Plain, destroyControlSocket, IInv, ExportInv
  <2>4. WorkerInv'
    BY <1>6 DEF Plain, destroyControlSocket, IInv, WorkerInv
  <2>5. SocketInv'
    BY <1>6 DEF Plain, destroyControlSocket, IInv, EpollInv, SocketInv,
       NoHandlerOnClosedSocket
  <2>6. ExitInv'
    BY <1>6 DEF Plain, destroyControlSocket, IInv, ExitInv
  <2> QED
    BY <2>1, <2>2, <2>3, <2>4, <2>5, <2>6 DEF IInv
<1>7. ASSUME Plain(StopUdpReceiver) PROVE IInv'
  <2>1. ObjectsInv'
    BY <1>7 DEF Plain, StopUdpReceiver, IInv, ObjectsInv
  <2>2. EpollInv'
    BY <1>7 DEF Plain, StopUdpReceiver, IInv, EpollInv
  <2>3. ExportInv'
    BY <1>7 DEF Plain, StopUdpReceiver, IInv, ExportInv
  <2>4. WorkerInv'
    BY <1>7 DEF Plain, StopUdpReceiver, IInv, WorkerInv
  <2>5. SocketInv'
    BY <1>7 DEF Plain, StopUdpReceiver, IInv, EpollInv, SocketInv,
       NoHandlerOnClosedSocket
  <2>6. ExitInv'
    BY <1>7 DEF Plain, StopUdpReceiver, IInv, ExitInv
  <2> QED
    BY <2>1, <2>2, <2>3, <2>4, <2>5, <2>6 DEF IInv
<1> QED
  BY <1>1, <1>2, <1>3, <1>4, <1>5, <1>6, <1>7

\* Stopping the export thread keeps the invariant.
LEMMA ShutdownStep ==
    ASSUME IInv, exit = "none",
           \/ StopExport \/ NotifyExport \/ JoinExport \/ FinalStatus
    PROVE  IInv'
<1> USE DEF loopVars, signalVars, mainVars, clientVars, vars, workerVars,
            exportVars, processVars, daemonVars,
            Starting, Serving, Closing, JoiningExport, JoiningWorker, Ending
<1>1. ASSUME StopExport PROVE IInv'
  <2>1. ObjectsInv'
    BY <1>1 DEF StopExport, MainStep, IInv, ObjectsInv
  <2>2. EpollInv'
    BY <1>1 DEF StopExport, MainStep, IInv, EpollInv
  <2>3. ExportInv'
    BY <1>1 DEF StopExport, MainStep, IInv, ObjectsInv, ExportInv
  <2>4. WorkerInv'
    BY <1>1 DEF StopExport, MainStep, IInv, WorkerInv
  <2>5. SocketInv'
    BY <1>1 DEF StopExport, MainStep, IInv, SocketInv, NoHandlerOnClosedSocket
  <2>6. ExitInv'
    BY <1>1 DEF StopExport, MainStep, IInv, ExitInv
  <2> QED
    BY <2>1, <2>2, <2>3, <2>4, <2>5, <2>6 DEF IInv
<1>2. ASSUME NotifyExport PROVE IInv'
  <2>1. ObjectsInv'
    BY <1>2 DEF NotifyExport, MainStep, WakeExport, IInv, ObjectsInv
  <2>2. EpollInv'
    BY <1>2 DEF NotifyExport, MainStep, WakeExport, IInv, EpollInv
  <2>3. ExportInv'
    BY <1>2 DEF NotifyExport, MainStep, WakeExport, IInv, ExportInv
  <2>4. WorkerInv'
    BY <1>2 DEF NotifyExport, MainStep, WakeExport, IInv, WorkerInv
  <2>5. SocketInv'
    BY <1>2 DEF NotifyExport, MainStep, WakeExport, IInv, SocketInv,
       NoHandlerOnClosedSocket
  <2>6. ExitInv'
    BY <1>2 DEF NotifyExport, MainStep, WakeExport, IInv, ExitInv
  <2> QED
    BY <2>1, <2>2, <2>3, <2>4, <2>5, <2>6 DEF IInv
<1>3. ASSUME JoinExport PROVE IInv'
  <2>1. ObjectsInv'
    BY <1>3 DEF JoinExport, MainStep, IInv, ObjectsInv
  <2>2. EpollInv'
    BY <1>3 DEF JoinExport, MainStep, IInv, EpollInv
  <2>3. ExportInv'
    BY <1>3 DEF JoinExport, MainStep, IInv, ExportInv
  <2>4. WorkerInv'
    BY <1>3 DEF JoinExport, MainStep, IInv, WorkerInv
  <2>5. SocketInv'
    BY <1>3 DEF JoinExport, MainStep, IInv, SocketInv, NoHandlerOnClosedSocket
  <2>6. ExitInv'
    BY <1>3 DEF JoinExport, MainStep, IInv, ExitInv
  <2> QED
    BY <2>1, <2>2, <2>3, <2>4, <2>5, <2>6 DEF IInv
<1>4. ASSUME FinalStatus PROVE IInv'
  <2>1. ObjectsInv'
    BY <1>4 DEF FinalStatus, MainStep, IInv, ObjectsInv
  <2>2. EpollInv'
    BY <1>4 DEF FinalStatus, MainStep, IInv, EpollInv
  <2>3. ExportInv'
    BY <1>4 DEF FinalStatus, MainStep, IInv, ExportInv
  <2>4. WorkerInv'
    BY <1>4 DEF FinalStatus, MainStep, IInv, ObjectsInv, WorkerInv
  <2>5. SocketInv'
    BY <1>4 DEF FinalStatus, MainStep, IInv, SocketInv, NoHandlerOnClosedSocket
  <2>6. ExitInv'
    BY <1>4 DEF FinalStatus, MainStep, IInv, ExitInv
  <2> QED
    BY <2>1, <2>2, <2>3, <2>4, <2>5, <2>6 DEF IInv
<1> QED
  BY <1>1, <1>2, <1>3, <1>4

\* The destructors and the exit keep the invariant.
LEMMA DestroyStep ==
    ASSUME IInv, exit = "none",
           \/ DestroyObject \/ DestroyJoinable \/ StopWorker \/ NotifyWorker
           \/ JoinWorker \/ ExitProcess
    PROVE  IInv'
<1> USE DEF loopVars, signalVars, mainVars, clientVars, vars, workerVars,
            exportVars, processVars, daemonVars,
            Starting, Serving, Closing, JoiningExport, JoiningWorker, Ending
<1>0. /\ built \in 0..11 /\ (built # 11 => built + 1 \in 1..11)
      /\ (built # 0 => built \in 1..11) /\ Len(Objects) = 11
  BY Places DEF IInv, ObjectsInv
<1>1. ASSUME DestroyObject PROVE IInv'
  <2>1. ObjectsInv'
    BY <1>0, Places, <1>1 DEF DestroyObject, MainStep, Joinable, IInv,
       ObjectsInv, ExportInv
  <2>2. EpollInv'
    BY <1>1 DEF DestroyObject, MainStep, Joinable, IInv, EpollInv
  <2>3. ExportInv'
    BY <1>1 DEF DestroyObject, MainStep, Joinable, IInv, ExportInv
  <2>4. WorkerInv'
    BY <1>0, Places, <1>1 DEF DestroyObject, MainStep, Joinable, IInv, WorkerInv
  <2>5. SocketInv'
    BY <1>1 DEF DestroyObject, MainStep, Joinable, IInv, EpollInv, SocketInv,
       NoHandlerOnClosedSocket
  <2>6. ExitInv'
    BY <1>1 DEF DestroyObject, MainStep, Joinable, IInv, ExitInv
  <2> QED
    BY <2>1, <2>2, <2>3, <2>4, <2>5, <2>6 DEF IInv
<1>2. ASSUME DestroyJoinable PROVE IInv'
  <2>1. ObjectsInv'
    BY <1>2 DEF DestroyJoinable, MainStep, Joinable, IInv, ObjectsInv
  <2>2. EpollInv'
    BY <1>2 DEF DestroyJoinable, MainStep, Joinable, IInv, EpollInv
  <2>3. ExportInv'
    BY <1>2 DEF DestroyJoinable, MainStep, Joinable, IInv, ExportInv
  <2>4. WorkerInv'
    BY <1>2 DEF DestroyJoinable, MainStep, Joinable, IInv, WorkerInv
  <2>5. SocketInv'
    BY <1>2 DEF DestroyJoinable, MainStep, Joinable, IInv, SocketInv,
       NoHandlerOnClosedSocket
  <2>6. ExitInv'
    BY <1>2 DEF DestroyJoinable, MainStep, Joinable, IInv, EpollInv,
       ExportInv, ExitInv
  <2> QED
    BY <2>1, <2>2, <2>3, <2>4, <2>5, <2>6 DEF IInv
<1>3. ASSUME StopWorker PROVE IInv'
  <2>1. ObjectsInv'
    BY <1>0, Places, <1>3 DEF StopWorker, MainStep, IInv, ObjectsInv
  <2>2. EpollInv'
    BY <1>3 DEF StopWorker, MainStep, IInv, EpollInv
  <2>3. ExportInv'
    BY <1>3 DEF StopWorker, MainStep, IInv, ExportInv
  <2>4. WorkerInv'
    BY <1>0, Places, <1>3 DEF StopWorker, MainStep, IInv, WorkerInv
  <2>5. SocketInv'
    BY <1>3 DEF StopWorker, MainStep, IInv, SocketInv, NoHandlerOnClosedSocket
  <2>6. ExitInv'
    BY <1>3 DEF StopWorker, MainStep, IInv, ExitInv
  <2> QED
    BY <2>1, <2>2, <2>3, <2>4, <2>5, <2>6 DEF IInv
<1>4. ASSUME NotifyWorker PROVE IInv'
  <2>1. ObjectsInv'
    BY <1>4 DEF NotifyWorker, MainStep, IInv, ObjectsInv
  <2>2. EpollInv'
    BY <1>4 DEF NotifyWorker, MainStep, IInv, EpollInv
  <2>3. ExportInv'
    BY <1>4 DEF NotifyWorker, MainStep, IInv, ExportInv
  <2>4. WorkerInv'
    BY <1>4 DEF NotifyWorker, MainStep, IInv, WorkerInv
  <2>5. SocketInv'
    BY <1>4 DEF NotifyWorker, MainStep, IInv, SocketInv, NoHandlerOnClosedSocket
  <2>6. ExitInv'
    BY <1>4 DEF NotifyWorker, MainStep, IInv, ExitInv
  <2> QED
    BY <2>1, <2>2, <2>3, <2>4, <2>5, <2>6 DEF IInv
<1>5. ASSUME JoinWorker PROVE IInv'
  <2>1. ObjectsInv'
    BY <1>5 DEF JoinWorker, MainStep, IInv, ObjectsInv
  <2>2. EpollInv'
    BY <1>5 DEF JoinWorker, MainStep, IInv, EpollInv
  <2>3. ExportInv'
    BY <1>5 DEF JoinWorker, MainStep, IInv, ExportInv
  <2>4. WorkerInv'
    BY <1>5 DEF JoinWorker, MainStep, IInv, ObjectsInv, WorkerInv
  <2>5. SocketInv'
    BY <1>5 DEF JoinWorker, MainStep, IInv, SocketInv, NoHandlerOnClosedSocket
  <2>6. ExitInv'
    BY <1>5 DEF JoinWorker, MainStep, IInv, ExitInv
  <2> QED
    BY <2>1, <2>2, <2>3, <2>4, <2>5, <2>6 DEF IInv
<1>6. ASSUME ExitProcess PROVE IInv'
  <2>1. ObjectsInv'
    BY <1>6 DEF ExitProcess, MainStep, IInv, ObjectsInv
  <2>2. EpollInv'
    BY <1>6 DEF ExitProcess, MainStep, IInv, EpollInv
  <2>3. ExportInv'
    BY <1>6 DEF ExitProcess, MainStep, IInv, ExportInv
  <2>4. WorkerInv'
    BY <1>6 DEF ExitProcess, MainStep, IInv, WorkerInv
  <2>5. SocketInv'
    BY <1>6 DEF ExitProcess, MainStep, IInv, SocketInv, NoHandlerOnClosedSocket
  <2>6. ExitInv'
    BY <1>6 DEF ExitProcess, MainStep, IInv, ExitInv
  <2> QED
    BY <2>1, <2>2, <2>3, <2>4, <2>5, <2>6 DEF IInv
<1> QED
  BY <1>1, <1>2, <1>3, <1>4, <1>5, <1>6

\* The epoll thread keeps the invariant.
LEMMA EpollStep ==
    ASSUME IInv, exit = "none",
           \/ Plain(run) \/ Plain(TestRunning) \/ Plain(wait)
           \/ Plain(DispatchShutdown) \/ Plain(DispatchControl)
           \/ Plain(BatchDone) \/ Plain(Accept) \/ Plain(WaitTimesOut)
           \/ HandleUdp \/ HandleClient \/ AnswerRaisesSigpipe \/ AnswerThrows
    PROVE  IInv'
<1> USE DEF loopVars, signalVars, mainVars, clientVars, vars, workerVars,
            exportVars, processVars, daemonVars,
            Starting, Serving, Closing, JoiningExport, JoiningWorker, Ending
<1>1. ASSUME Plain(run) PROVE IInv'
  <2>1. ObjectsInv'
    BY <1>1 DEF Plain, run, IInv, ObjectsInv
  <2>2. EpollInv'
    BY <1>1 DEF Plain, run, IInv, EpollInv
  <2>3. ExportInv'
    BY <1>1 DEF Plain, run, IInv, ExportInv
  <2>4. WorkerInv'
    BY <1>1 DEF Plain, run, IInv, WorkerInv
  <2>5. SocketInv'
    BY <1>1 DEF Plain, run, IInv, SocketInv, NoHandlerOnClosedSocket
  <2>6. ExitInv'
    BY <1>1 DEF Plain, run, IInv, ExitInv
  <2> QED
    BY <2>1, <2>2, <2>3, <2>4, <2>5, <2>6 DEF IInv
<1>2. ASSUME Plain(TestRunning) PROVE IInv'
  <2>1. ObjectsInv'
    BY <1>2 DEF Plain, TestRunning, IInv, ObjectsInv
  <2>2. EpollInv'
    BY <1>2 DEF Plain, TestRunning, IInv, EpollInv
  <2>3. ExportInv'
    BY <1>2 DEF Plain, TestRunning, IInv, ExportInv
  <2>4. WorkerInv'
    BY <1>2 DEF Plain, TestRunning, IInv, WorkerInv
  <2>5. SocketInv'
    BY <1>2 DEF Plain, TestRunning, IInv, SocketInv, NoHandlerOnClosedSocket
  <2>6. ExitInv'
    BY <1>2 DEF Plain, TestRunning, IInv, ExitInv
  <2> QED
    BY <2>1, <2>2, <2>3, <2>4, <2>5, <2>6 DEF IInv
<1>3. ASSUME Plain(wait) PROVE IInv'
  <2>1. ObjectsInv'
    BY <1>3 DEF Plain, wait, Ready, IInv, ObjectsInv
  <2>2. EpollInv'
    BY <1>3 DEF Plain, wait, Ready, IInv, EpollInv
  <2>3. ExportInv'
    BY <1>3 DEF Plain, wait, Ready, IInv, ExportInv
  <2>4. WorkerInv'
    BY <1>3 DEF Plain, wait, Ready, IInv, WorkerInv
  <2>5. SocketInv'
    BY <1>3 DEF Plain, wait, Ready, IInv, EpollInv, SocketInv,
       NoHandlerOnClosedSocket
  <2>6. ExitInv'
    BY <1>3 DEF Plain, wait, Ready, IInv, ExitInv
  <2> QED
    BY <2>1, <2>2, <2>3, <2>4, <2>5, <2>6 DEF IInv
<1>4. ASSUME Plain(DispatchShutdown) PROVE IInv'
  <2>1. ObjectsInv'
    BY <1>4 DEF Plain, DispatchShutdown, IInv, ObjectsInv
  <2>2. EpollInv'
    BY <1>4 DEF Plain, DispatchShutdown, IInv, EpollInv
  <2>3. ExportInv'
    BY <1>4 DEF Plain, DispatchShutdown, IInv, ExportInv
  <2>4. WorkerInv'
    BY <1>4 DEF Plain, DispatchShutdown, IInv, WorkerInv
  <2>5. SocketInv'
    BY <1>4 DEF Plain, DispatchShutdown, IInv, SocketInv,
       NoHandlerOnClosedSocket
  <2>6. ExitInv'
    BY <1>4 DEF Plain, DispatchShutdown, IInv, ExitInv
  <2> QED
    BY <2>1, <2>2, <2>3, <2>4, <2>5, <2>6 DEF IInv
<1>5. ASSUME Plain(DispatchControl) PROVE IInv'
  <2>1. ObjectsInv'
    BY <1>5 DEF Plain, DispatchControl, IInv, ObjectsInv
  <2>2. EpollInv'
    BY <1>5 DEF Plain, DispatchControl, IInv, EpollInv
  <2>3. ExportInv'
    BY <1>5 DEF Plain, DispatchControl, IInv, ExportInv
  <2>4. WorkerInv'
    BY <1>5 DEF Plain, DispatchControl, IInv, WorkerInv
  <2>5. SocketInv'
    BY <1>5 DEF Plain, DispatchControl, IInv, SocketInv, NoHandlerOnClosedSocket
  <2>6. ExitInv'
    BY <1>5 DEF Plain, DispatchControl, IInv, ExitInv
  <2> QED
    BY <2>1, <2>2, <2>3, <2>4, <2>5, <2>6 DEF IInv
<1>6. ASSUME Plain(BatchDone) PROVE IInv'
  <2>1. ObjectsInv'
    BY <1>6 DEF Plain, BatchDone, IInv, ObjectsInv
  <2>2. EpollInv'
    BY <1>6 DEF Plain, BatchDone, IInv, EpollInv
  <2>3. ExportInv'
    BY <1>6 DEF Plain, BatchDone, IInv, ExportInv
  <2>4. WorkerInv'
    BY <1>6 DEF Plain, BatchDone, IInv, WorkerInv
  <2>5. SocketInv'
    BY <1>6 DEF Plain, BatchDone, IInv, SocketInv, NoHandlerOnClosedSocket
  <2>6. ExitInv'
    BY <1>6 DEF Plain, BatchDone, IInv, ExitInv
  <2> QED
    BY <2>1, <2>2, <2>3, <2>4, <2>5, <2>6 DEF IInv
<1>7. ASSUME Plain(Accept) PROVE IInv'
  <2>1. ObjectsInv'
    BY <1>7 DEF Plain, Accept, IInv, ObjectsInv
  <2>2. EpollInv'
    BY <1>7 DEF Plain, Accept, IInv, EpollInv
  <2>3. ExportInv'
    BY <1>7 DEF Plain, Accept, IInv, ExportInv
  <2>4. WorkerInv'
    BY <1>7 DEF Plain, Accept, IInv, WorkerInv
  <2>5. SocketInv'
    BY <1>7 DEF Plain, Accept, IInv, SocketInv, NoHandlerOnClosedSocket
  <2>6. ExitInv'
    BY <1>7 DEF Plain, Accept, IInv, ExitInv
  <2> QED
    BY <2>1, <2>2, <2>3, <2>4, <2>5, <2>6 DEF IInv
<1>8. ASSUME Plain(WaitTimesOut) PROVE IInv'
  <2>1. ObjectsInv'
    BY <1>8 DEF Plain, WaitTimesOut, IInv, ObjectsInv
  <2>2. EpollInv'
    BY <1>8 DEF Plain, WaitTimesOut, IInv, EpollInv
  <2>3. ExportInv'
    BY <1>8 DEF Plain, WaitTimesOut, IInv, ExportInv
  <2>4. WorkerInv'
    BY <1>8 DEF Plain, WaitTimesOut, IInv, WorkerInv
  <2>5. SocketInv'
    BY <1>8 DEF Plain, WaitTimesOut, IInv, SocketInv, NoHandlerOnClosedSocket
  <2>6. ExitInv'
    BY <1>8 DEF Plain, WaitTimesOut, IInv, ExitInv
  <2> QED
    BY <2>1, <2>2, <2>3, <2>4, <2>5, <2>6 DEF IInv
<1>9. ASSUME HandleUdp PROVE IInv'
  <2>1. ObjectsInv'
    BY <1>9 DEF HandleUdp, DispatchUdp, Publish, IInv, ObjectsInv
  <2>2. EpollInv'
    BY <1>9 DEF HandleUdp, DispatchUdp, Publish, IInv, EpollInv
  <2>3. ExportInv'
    BY <1>9 DEF HandleUdp, DispatchUdp, Publish, IInv, ExportInv
  <2>4. WorkerInv'
    BY <1>9 DEF HandleUdp, DispatchUdp, Publish, IInv, ObjectsInv, EpollInv,
       WorkerInv
  <2>5. SocketInv'
    BY <1>9 DEF HandleUdp, DispatchUdp, Publish, IInv, SocketInv,
       NoHandlerOnClosedSocket
  <2>6. ExitInv'
    BY <1>9 DEF HandleUdp, DispatchUdp, Publish, IInv, ExitInv
  <2> QED
    BY <2>1, <2>2, <2>3, <2>4, <2>5, <2>6 DEF IInv
<1>10. ASSUME HandleClient PROVE IInv'
  <2>1. ObjectsInv'
    BY <1>10 DEF HandleClient, handleClient, Publish, IInv, ObjectsInv
  <2>2. EpollInv'
    BY <1>10 DEF HandleClient, handleClient, Publish, IInv, EpollInv
  <2>3. ExportInv'
    BY <1>10 DEF HandleClient, handleClient, Publish, IInv, ExportInv
  <2>4. WorkerInv'
    BY <1>10 DEF HandleClient, handleClient, Publish, IInv, ObjectsInv,
       EpollInv, WorkerInv
  <2>5. SocketInv'
    BY <1>10 DEF HandleClient, handleClient, Publish, IInv, SocketInv,
       NoHandlerOnClosedSocket
  <2>6. ExitInv'
    BY <1>10 DEF HandleClient, handleClient, Publish, IInv, ExitInv
  <2> QED
    BY <2>1, <2>2, <2>3, <2>4, <2>5, <2>6 DEF IInv
<1>11. ASSUME AnswerRaisesSigpipe PROVE IInv'
  <2>1. ObjectsInv'
    BY <1>11 DEF AnswerRaisesSigpipe, IInv, ObjectsInv
  <2>2. EpollInv'
    BY <1>11 DEF AnswerRaisesSigpipe, IInv, EpollInv
  <2>3. ExportInv'
    BY <1>11 DEF AnswerRaisesSigpipe, IInv, ExportInv
  <2>4. WorkerInv'
    BY <1>11 DEF AnswerRaisesSigpipe, IInv, WorkerInv
  <2>5. SocketInv'
    BY <1>11 DEF AnswerRaisesSigpipe, IInv, SocketInv, NoHandlerOnClosedSocket
  <2>6. ExitInv'
    BY <1>11 DEF AnswerRaisesSigpipe, IInv, ExitInv
  <2> QED
    BY <2>1, <2>2, <2>3, <2>4, <2>5, <2>6 DEF IInv
<1>12. ASSUME AnswerThrows PROVE IInv'
  <2>1. ObjectsInv'
    BY <1>12 DEF AnswerThrows, IInv, ObjectsInv
  <2>2. EpollInv'
    BY <1>12 DEF AnswerThrows, IInv, EpollInv
  <2>3. ExportInv'
    BY <1>12 DEF AnswerThrows, IInv, ExportInv
  <2>4. WorkerInv'
    BY <1>12 DEF AnswerThrows, IInv, WorkerInv
  <2>5. SocketInv'
    BY <1>12 DEF AnswerThrows, IInv, SocketInv, NoHandlerOnClosedSocket
  <2>6. ExitInv'
    BY <1>12 DEF AnswerThrows, IInv, ExitInv
  <2> QED
    BY <2>1, <2>2, <2>3, <2>4, <2>5, <2>6 DEF IInv
<1> QED
  BY <1>1, <1>2, <1>3, <1>4, <1>5, <1>6, <1>7, <1>8, <1>9, <1>10, <1>11,
     <1>12

\* The packet worker and the export thread keep the invariant.
LEMMA WorkerStep ==
    ASSUME IInv, exit = "none",
           \/ WorkerTest \/ WorkerBlock \/ processPacket \/ ExportWait
           \/ ExportBlock
    PROVE  IInv'
<1> USE DEF loopVars, signalVars, mainVars, clientVars, vars, workerVars,
            exportVars, processVars, daemonVars,
            Starting, Serving, Closing, JoiningExport, JoiningWorker, Ending
<1>1. ASSUME WorkerTest PROVE IInv'
  <2>1. ObjectsInv'
    BY <1>1 DEF WorkerTest, IInv, ObjectsInv
  <2>2. EpollInv'
    BY <1>1 DEF WorkerTest, IInv, EpollInv
  <2>3. ExportInv'
    BY <1>1 DEF WorkerTest, IInv, ExportInv
  <2>4. WorkerInv'
    BY <1>1 DEF WorkerTest, IInv, WorkerInv
  <2>5. SocketInv'
    BY <1>1 DEF WorkerTest, IInv, SocketInv, NoHandlerOnClosedSocket
  <2>6. ExitInv'
    BY <1>1 DEF WorkerTest, IInv, ExitInv
  <2> QED
    BY <2>1, <2>2, <2>3, <2>4, <2>5, <2>6 DEF IInv
<1>2. ASSUME WorkerBlock PROVE IInv'
  <2>1. ObjectsInv'
    BY <1>2 DEF WorkerBlock, IInv, ObjectsInv
  <2>2. EpollInv'
    BY <1>2 DEF WorkerBlock, IInv, EpollInv
  <2>3. ExportInv'
    BY <1>2 DEF WorkerBlock, IInv, ExportInv
  <2>4. WorkerInv'
    BY <1>2 DEF WorkerBlock, IInv, WorkerInv
  <2>5. SocketInv'
    BY <1>2 DEF WorkerBlock, IInv, SocketInv, NoHandlerOnClosedSocket
  <2>6. ExitInv'
    BY <1>2 DEF WorkerBlock, IInv, ExitInv
  <2> QED
    BY <2>1, <2>2, <2>3, <2>4, <2>5, <2>6 DEF IInv
<1>3. ASSUME processPacket PROVE IInv'
  <2>1. ObjectsInv'
    BY <1>3 DEF processPacket, IInv, ObjectsInv
  <2>2. EpollInv'
    BY <1>3 DEF processPacket, IInv, EpollInv
  <2>3. ExportInv'
    BY <1>3 DEF processPacket, IInv, ExportInv
  <2>4. WorkerInv'
    BY <1>3 DEF processPacket, IInv, WorkerInv
  <2>5. SocketInv'
    BY <1>3 DEF processPacket, IInv, SocketInv, NoHandlerOnClosedSocket
  <2>6. ExitInv'
    BY <1>3 DEF processPacket, IInv, ExitInv
  <2> QED
    BY <2>1, <2>2, <2>3, <2>4, <2>5, <2>6 DEF IInv
<1>4. ASSUME ExportWait PROVE IInv'
  <2>1. ObjectsInv'
    BY <1>4 DEF ExportWait, IInv, ObjectsInv
  <2>2. EpollInv'
    BY <1>4 DEF ExportWait, IInv, EpollInv
  <2>3. ExportInv'
    BY <1>4 DEF ExportWait, IInv, ExportInv
  <2>4. WorkerInv'
    BY <1>4 DEF ExportWait, IInv, WorkerInv
  <2>5. SocketInv'
    BY <1>4 DEF ExportWait, IInv, SocketInv, NoHandlerOnClosedSocket
  <2>6. ExitInv'
    BY <1>4 DEF ExportWait, IInv, ExitInv
  <2> QED
    BY <2>1, <2>2, <2>3, <2>4, <2>5, <2>6 DEF IInv
<1>5. ASSUME ExportBlock PROVE IInv'
  <2>1. ObjectsInv'
    BY <1>5 DEF ExportBlock, IInv, ObjectsInv
  <2>2. EpollInv'
    BY <1>5 DEF ExportBlock, IInv, EpollInv
  <2>3. ExportInv'
    BY <1>5 DEF ExportBlock, IInv, ExportInv
  <2>4. WorkerInv'
    BY <1>5 DEF ExportBlock, IInv, WorkerInv
  <2>5. SocketInv'
    BY <1>5 DEF ExportBlock, IInv, SocketInv, NoHandlerOnClosedSocket
  <2>6. ExitInv'
    BY <1>5 DEF ExportBlock, IInv, ExitInv
  <2> QED
    BY <2>1, <2>2, <2>3, <2>4, <2>5, <2>6 DEF IInv
<1> QED
  BY <1>1, <1>2, <1>3, <1>4, <1>5

\* Signals, datagrams and clients keep the invariant.
LEMMA EnvironmentStep ==
    ASSUME IInv, exit = "none",
           \/ \E signal \in {"SIGINT", "SIGTERM"} : Plain(handleSignal(signal))
           \/ Plain(Datagram)
           \/ \E c \in Clients : Plain(Connect(c))
           \/ \E c \in Clients : Plain(SendRequest(c))
           \/ \E c \in Clients : Leave(c)
    PROVE  IInv'
<1> USE DEF loopVars, signalVars, mainVars, clientVars, vars, workerVars,
            exportVars, processVars, daemonVars,
            Starting, Serving, Closing, JoiningExport, JoiningWorker, Ending
<1>1. ASSUME NEW signal \in {"SIGINT", "SIGTERM"},
             Plain(handleSignal(signal)) PROVE IInv'
  <2>1. ObjectsInv'
    BY <1>1 DEF Plain, handleSignal, IInv, ObjectsInv
  <2>2. EpollInv'
    BY <1>1 DEF Plain, handleSignal, IInv, EpollInv
  <2>3. ExportInv'
    BY <1>1 DEF Plain, handleSignal, IInv, ExportInv
  <2>4. WorkerInv'
    BY <1>1 DEF Plain, handleSignal, IInv, WorkerInv
  <2>5. SocketInv'
    BY <1>1 DEF Plain, handleSignal, IInv, SocketInv, NoHandlerOnClosedSocket
  <2>6. ExitInv'
    BY <1>1 DEF Plain, handleSignal, IInv, ExitInv
  <2> QED
    BY <2>1, <2>2, <2>3, <2>4, <2>5, <2>6 DEF IInv
<1>2. ASSUME Plain(Datagram) PROVE IInv'
  <2>1. ObjectsInv'
    BY <1>2 DEF Plain, Datagram, IInv, ObjectsInv
  <2>2. EpollInv'
    BY <1>2 DEF Plain, Datagram, IInv, EpollInv
  <2>3. ExportInv'
    BY <1>2 DEF Plain, Datagram, IInv, ExportInv
  <2>4. WorkerInv'
    BY <1>2 DEF Plain, Datagram, IInv, WorkerInv
  <2>5. SocketInv'
    BY <1>2 DEF Plain, Datagram, IInv, SocketInv, NoHandlerOnClosedSocket
  <2>6. ExitInv'
    BY <1>2 DEF Plain, Datagram, IInv, ExitInv
  <2> QED
    BY <2>1, <2>2, <2>3, <2>4, <2>5, <2>6 DEF IInv
<1>3. ASSUME NEW c \in Clients, Plain(Connect(c)) PROVE IInv'
  <2>1. ObjectsInv'
    BY <1>3 DEF Plain, Connect, IInv, ObjectsInv
  <2>2. EpollInv'
    BY <1>3 DEF Plain, Connect, IInv, EpollInv
  <2>3. ExportInv'
    BY <1>3 DEF Plain, Connect, IInv, ExportInv
  <2>4. WorkerInv'
    BY <1>3 DEF Plain, Connect, IInv, WorkerInv
  <2>5. SocketInv'
    BY <1>3 DEF Plain, Connect, IInv, SocketInv, NoHandlerOnClosedSocket
  <2>6. ExitInv'
    BY <1>3 DEF Plain, Connect, IInv, ExitInv
  <2> QED
    BY <2>1, <2>2, <2>3, <2>4, <2>5, <2>6 DEF IInv
<1>4. ASSUME NEW c \in Clients, Plain(SendRequest(c)) PROVE IInv'
  <2>1. ObjectsInv'
    BY <1>4 DEF Plain, SendRequest, IInv, ObjectsInv
  <2>2. EpollInv'
    BY <1>4 DEF Plain, SendRequest, IInv, EpollInv
  <2>3. ExportInv'
    BY <1>4 DEF Plain, SendRequest, IInv, ExportInv
  <2>4. WorkerInv'
    BY <1>4 DEF Plain, SendRequest, IInv, WorkerInv
  <2>5. SocketInv'
    BY <1>4 DEF Plain, SendRequest, IInv, SocketInv, NoHandlerOnClosedSocket
  <2>6. ExitInv'
    BY <1>4 DEF Plain, SendRequest, IInv, ExitInv
  <2> QED
    BY <2>1, <2>2, <2>3, <2>4, <2>5, <2>6 DEF IInv
<1>5. ASSUME NEW c \in Clients, Leave(c) PROVE IInv'
  <2>1. ObjectsInv'
    BY <1>5 DEF Leave, IInv, ObjectsInv
  <2>2. EpollInv'
    BY <1>5 DEF Leave, IInv, EpollInv
  <2>3. ExportInv'
    BY <1>5 DEF Leave, IInv, ExportInv
  <2>4. WorkerInv'
    BY <1>5 DEF Leave, IInv, WorkerInv
  <2>5. SocketInv'
    BY <1>5 DEF Leave, IInv, SocketInv, NoHandlerOnClosedSocket
  <2>6. ExitInv'
    BY <1>5 DEF Leave, IInv, ExitInv
  <2> QED
    BY <2>1, <2>2, <2>3, <2>4, <2>5, <2>6 DEF IInv
<1> QED
  BY <1>1, <1>2, <1>3, <1>4, <1>5

\* The initial state: nothing is built and no thread runs.
LEMMA InvInit ==
    ASSUME DInit PROVE IInv
BY DEF DInit, IInv, ObjectsInv, EpollInv, ExportInv, WorkerInv, SocketInv,
       ExitInv, NoHandlerOnClosedSocket, Starting, Serving, Closing,
       JoiningExport, JoiningWorker, Ending

\* Every step of the daemon keeps the invariant.
LEMMA InvStep ==
    ASSUME IInv, [DNext]_allVars PROVE IInv'
<1>1. CASE UNCHANGED allVars
  BY <1>1 DEF allVars, vars, signalVars, mainVars, clientVars, daemonVars,
     processVars, workerVars, exportVars, IInv, ObjectsInv, EpollInv, ExportInv,
     WorkerInv, SocketInv, ExitInv, NoHandlerOnClosedSocket
<1>2. CASE DNext
  <2>1. exit = "none"
    BY <1>2 DEF DNext
  <2>2. CASE DEnvironment
    <3>1. \/ \E signal \in {"SIGINT", "SIGTERM"} : Plain(handleSignal(signal))
          \/ Plain(Datagram)
          \/ \E c \in Clients : Plain(Connect(c))
          \/ \E c \in Clients : Plain(SendRequest(c))
          \/ \E c \in Clients : Leave(c)
      BY <2>2 DEF DEnvironment, Environment, Plain
    <3> QED
      BY <2>1, <3>1, EnvironmentStep
  <2>3. CASE DMain
    <3>1. \/ Construct \/ Throw \/ createControlSocket \/ initializeSocket
          \/ StartExport \/ SpawnEpollThread \/ Subscribe
          \/ Plain(PollInterrupt) \/ Tick \/ Plain(stop) \/ Plain(notify)
          \/ Plain(Join) \/ Plain(destroyControlSocket)
          \/ Plain(StopUdpReceiver)
          \/ StopExport \/ NotifyExport \/ JoinExport \/ FinalStatus
          \/ DestroyObject \/ DestroyJoinable
          \/ StopWorker \/ NotifyWorker \/ JoinWorker \/ ExitProcess
      BY <2>3 DEF DMain, Plain
    <3> QED
      BY <2>1, <3>1, StartupStep, TickStep, ShutdownStep, DestroyStep
  <2>4. CASE DLoop \/ Plain(WaitTimesOut)
    <3>1. \/ Plain(run) \/ Plain(TestRunning) \/ Plain(wait)
          \/ Plain(DispatchShutdown) \/ Plain(DispatchControl)
          \/ Plain(BatchDone) \/ Plain(Accept) \/ Plain(WaitTimesOut)
          \/ HandleUdp \/ HandleClient \/ AnswerRaisesSigpipe \/ AnswerThrows
      BY <2>4 DEF DLoop, Plain
    <3> QED
      BY <2>1, <3>1, EpollStep
  <2>5. CASE DWorker \/ DExport
    <3>1. WorkerTest \/ WorkerBlock \/ processPacket \/ ExportWait
          \/ ExportBlock
      BY <2>5 DEF DWorker, DExport
    <3> QED
      BY <2>1, <3>1, WorkerStep
  <2> QED
    BY <1>2, <2>2, <2>3, <2>4, <2>5 DEF DNext
<1> QED
  BY <1>1, <1>2

\* The inductive invariant holds in every state of the daemon.
LEMMA InvHolds == DSpec => []IInv
<1>1. DInit => IInv
  BY InvInit
<1>2. IInv /\ [DNext]_allVars => IInv'
  BY InvStep
<1> QED
  BY <1>1, <1>2, PTL DEF DSpec

-----------------------------------------------------------------------------
(* The theorems.                                                           *)

\* What is alive while at least three, seven or all objects are built.
LEMMA AliveObjects ==
    ASSUME built \in 0..11
    PROVE  /\ built >= 3 => WorkerUses \subseteq alive
           /\ built >= 7 => "exportManager" \in alive
           /\ built = 11 => EpollUses \subseteq alive
           /\ built = 0 => alive = {}
<1>1. ASSUME NEW i \in 1..built PROVE Objects[i] \in alive
  BY DEF alive
<1>2. /\ Objects[1] = "forwardingEngine" /\ Objects[2] = "transportManager"
      /\ Objects[3] = "packetProcessor" /\ Objects[4] = "packetStats"
      /\ Objects[5] = "epollManager" /\ Objects[6] = "epollLoop"
      /\ Objects[7] = "exportManager" /\ Objects[8] = "control_fd"
      /\ Objects[10] = "udpReceiver" /\ Objects[11] = "controlServer"
  BY DEF Objects
<1>3. ASSUME built >= 3 PROVE WorkerUses \subseteq alive
  <2>1. 1 \in 1..built /\ 2 \in 1..built /\ 3 \in 1..built
    BY <1>3
  <2> QED
    BY <1>1, <1>2, <2>1 DEF WorkerUses
<1>4. ASSUME built >= 7 PROVE "exportManager" \in alive
  <2>1. 7 \in 1..built
    BY <1>4
  <2> QED
    BY <1>1, <1>2, <2>1
<1>5. ASSUME built = 11 PROVE EpollUses \subseteq alive
  <2>1. /\ 1 \in 1..built /\ 2 \in 1..built /\ 3 \in 1..built /\ 4 \in 1..built
        /\ 5 \in 1..built /\ 6 \in 1..built /\ 8 \in 1..built /\ 10 \in 1..built
        /\ 11 \in 1..built
    BY <1>5
  <2> QED
    BY <1>1, <1>2, <2>1 DEF EpollUses
<1>6. ASSUME built = 0 PROVE alive = {}
  <2>1. 1..built = {}
    BY <1>6
  <2> QED
    BY <2>1 DEF alive
<1> QED
  BY <1>3, <1>4, <1>5, <1>6

\* No thread of the daemon outlives the objects and the sockets it works on,
\* in whichever order main starts, fails, shuts down and destroys them.  The
\* one exception is outside the statement: PacketStats, whose callbacks the
\* worker runs, is not among WorkerUses, and it does not outlive the worker
\* (NoEventAfterPacketStats fails).
THEOREM NoUseAfterReleaseCorrect == DSpec => []NoUseAfterRelease
<1>1. IInv => NoUseAfterRelease
  <2> SUFFICES ASSUME IInv PROVE NoUseAfterRelease
    OBVIOUS
  <2> USE DEF Starting, Serving, Closing, JoiningExport, JoiningWorker, Ending
  <2>1. built \in 0..11
    BY DEF IInv, ObjectsInv
  <2>2. lpc \notin {"none", "exited"} => built = 11
    BY DEF IInv, ObjectsInv, EpollInv
  <2>3. wpc \notin {"none", "exited"} => built >= 3
    BY DEF IInv, ObjectsInv, WorkerInv
  <2>4. xpc \notin {"none", "exited"} => built >= 7
    BY DEF IInv, ObjectsInv, ExportInv
  <2>5. NoHandlerOnClosedSocket
    BY DEF IInv, SocketInv
  <2> QED
    BY <2>1, <2>2, <2>3, <2>4, <2>5, AliveObjects DEF NoUseAfterRelease
<1> QED
  BY <1>1, InvHolds, PTL

\* std::terminate is reached during startup or in the answer to a client, and
\* not at the end of a shutdown: main destroys no std::thread that is still
\* joinable, except when it returns EXIT_FAILURE from startup.
THEOREM NoJoinableDestroyedCorrect == DSpec => []NoJoinableDestroyed
<1>1. IInv => NoJoinableDestroyed
  <2> SUFFICES ASSUME IInv PROVE NoJoinableDestroyed
    OBVIOUS
  <2> USE DEF Starting, Serving, Closing, JoiningExport, JoiningWorker, Ending
  <2>1. mpc = "destroy" /\ ~failing => lpc = "exited" /\ ~xrunning
    BY DEF IInv, EpollInv, ExportInv
  <2>2. exit = "aborted" => lpc = "none" \/ (lpc = "client" /\ current \in sent)
    BY DEF IInv, ExitInv
  <2> QED
    BY <2>1, <2>2 DEF NoJoinableDestroyed, Joinable
<1> QED
  BY <1>1, InvHolds, PTL

\* Exit status 0 means that a signal asked for it, that every thread has ended
\* with its work done, and that no object and no descriptor is left.
THEOREM ExitIsCleanCorrect == DSpec => []ExitIsClean
<1>1. IInv => ExitIsClean
  <2> SUFFICES ASSUME IInv, exit = "success" PROVE ExitIsClean
    BY DEF ExitIsClean
  <2> USE DEF Starting, Serving, Closing, JoiningExport, JoiningWorker, Ending
  <2>1. mpc = "gone" /\ built = 0 /\ ~failing
    BY DEF IInv, ExitInv, ObjectsInv
  <2>2. reason # "None"
    BY <2>1 DEF IInv, ExitInv
  <2>3. lpc = "exited" /\ xpc = "exited"
    BY <2>1 DEF IInv, EpollInv, ExportInv
  <2>4. wpc = "exited" /\ queued = 0
    BY <2>1 DEF IInv, WorkerInv
  <2>5. open = {}
    BY <2>1 DEF IInv, SocketInv
  <2>6. alive = {}
    BY <2>1, AliveObjects
  <2>7. Active = {}
    BY <2>5, <2>6 DEF Active
  <2> QED
    BY <2>1, <2>2, <2>3, <2>4, <2>7 DEF ExitIsClean
<1> QED
  BY <1>1, InvHolds, PTL
=============================================================================
