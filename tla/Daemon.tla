------------------------------- MODULE Daemon -------------------------------
(***************************************************************************)
(* The daemon's two processes (Daemon/src/main.cpp) and the object its     *)
(* child runs (Daemon/src/controller.cpp).  The parent forks the child,    *)
(* waits for signals and forks again when the child's exit status is       *)
(* NeedToWork; the child starts Controller, waits for a signal and stops   *)
(* it.  SignalError, the handler of SIGSEGV and its like, runs in the      *)
(* thread that faulted.                                                    *)
(*                                                                         *)
(* In the child three threads matter: the main one, the RPC client's       *)
(* worker, whose tasks call back into Controller, and any other that may   *)
(* fault (generators, alert handler).  The worker is WorkingThread's, in   *)
(* the coarse: it ends when it is told to, unless it was told before it    *)
(* began or sits in a call that has no deadline.  The configuration is     *)
(* Config's.                                                               *)
(*                                                                         *)
(* TERM stands for SIGTERM, SIGINT and SIGQUIT, which are handled alike    *)
(* and are blocked from before the first fork on.                          *)
(***************************************************************************)
EXTENDS Integers, Config

NeedToWork == 0
NeedToTerminate == 1

VARIABLES
    parent,         \* "fork", "wait", "reap", "stopping" or "exited"
    pending,        \* signals pending at the parent
    main,           \* the child's main thread; "none" or "zombie" for the process
    worker,         \* "off", "starting", "idle", "task", "report", "null", "fault", "ended";
                    \* "silent" without its handler, "stuck" if it never ends
    other,          \* another thread: "ok", or where it is in SignalError
    torrent,        \* whether Controller's torrent holds a started object
    rpcClient,      \* whether its rpcClient does
    dmn,            \* whether the global dmn does
    childTerm,      \* TERM is pending at the child
    status,         \* the child's exit status, once it is a zombie
    asked,          \* history: the processes that TERM was sent to from outside
    failed,         \* history: a child's Start has failed
    crashed,        \* history: this child died of a fault or an abort
    known           \* history: the uuid the server knows this daemon by

controller == <<torrent, rpcClient, dmn>>
childVars  == <<main, worker, other, controller, childTerm, status, crashed>>
parentVars == <<parent, pending>>
config     == <<disk, settings, known>>
vars == <<parentVars, childVars, config, asked, failed>>

Alive == main \notin {"none", "zombie"}

Init ==
    /\ parent = "fork" /\ pending = {}
    /\ main = "none" /\ worker = "off" /\ other = "ok"
    /\ torrent = FALSE /\ rpcClient = FALSE /\ dmn = FALSE
    /\ childTerm = FALSE /\ status = NeedToWork
    /\ asked = {} /\ failed = FALSE /\ crashed = FALSE
    /\ ConfigInit /\ known = NoUUID

----------------------------------------------------------------------------
(* The parent: VerAIDaemonProc. *)

\* fork; its failure is logged and it is tried again at once.
Fork ==
    /\ parent = "fork"
    /\ parent' = "wait"
    /\ main' = "init" /\ worker' = "off" /\ other' = "ok"
    /\ torrent' = FALSE /\ rpcClient' = FALSE /\ dmn' = FALSE
    /\ childTerm' = FALSE /\ crashed' = FALSE
    /\ UNCHANGED <<pending, status, config, asked, failed>>

\* A parent that takes SIGCHLD before the signals that stop it.
SigWaitChildFirst ==
    /\ parent = "wait" /\ pending # {}
    /\ IF "CHLD" \in pending
          THEN /\ pending' = pending \ {"CHLD"} /\ parent' = "reap"
               /\ UNCHANGED childTerm
          ELSE /\ pending' = pending \ {"TERM"} /\ parent' = "stopping"
               /\ childTerm' = Alive
    /\ UNCHANGED <<main, worker, other, controller, status, crashed, config, asked, failed>>

\* A parent that goes on waiting when its child is dead.
SigWaitNoReap ==
    /\ parent = "wait" /\ pending # {}
    /\ IF "TERM" \in pending
          THEN /\ pending' = pending \ {"TERM"} /\ parent' = "stopping"
               /\ childTerm' = Alive
          ELSE pending' = pending \ {"CHLD"} /\ UNCHANGED <<parent, childTerm>>
    /\ UNCHANGED <<main, worker, other, controller, status, crashed, config, asked, failed>>

\* sigwaitinfo takes the signal with the lowest number: TERM before CHLD.  A TERM is
\* passed on to the child and ends the loop.
SigWait ==
    /\ parent = "wait" /\ pending # {}
    /\ IF "TERM" \in pending
          THEN /\ pending' = pending \ {"TERM"} /\ parent' = "stopping"
               /\ childTerm' = Alive
          ELSE /\ pending' = pending \ {"CHLD"} /\ parent' = "reap"
               /\ UNCHANGED childTerm
    /\ UNCHANGED <<main, worker, other, controller, status, crashed, config, asked, failed>>

\* wait() blocks until the child is dead; its exit status decides.  (WEXITSTATUS of
\* a child that a signal killed is 0, which is NeedToWork.)
Reap ==
    /\ parent = "reap" /\ main = "zombie"
    /\ main' = "none"
    /\ parent' = IF status = NeedToTerminate THEN "stopping" ELSE "fork"
    /\ UNCHANGED <<pending, worker, other, controller, childTerm, status, crashed, config,
                   asked, failed>>

\* unlink(kPidFile) and return.
ParentExits ==
    /\ parent = "stopping"
    /\ parent' = "exited"
    /\ UNCHANGED <<pending, childVars, config, asked, failed>>

----------------------------------------------------------------------------
(* The child's main thread: WorkProc and Controller. *)

\* The child is dead; the kernel tells the parent.
Dies(st, crash) ==
    /\ main' = "zombie" /\ worker' = "off" /\ other' = "ok"
    /\ torrent' = FALSE /\ rpcClient' = FALSE /\ dmn' = FALSE
    /\ childTerm' = FALSE
    /\ status' = st /\ crashed' = crash
    /\ pending' = pending \cup {"CHLD"}
    /\ ConfigForgets
    /\ UNCHANGED <<parent, disk, known, asked, failed>>

\* What a step of the living child leaves alone.
childRest == <<parentVars, status, crashed, asked, failed>>

\* What one that does not touch the configuration leaves alone.
childOnly == <<childRest, config>>

MainGoto(pc) == main' = pc /\ UNCHANGED <<worker, other, controller, childTerm, childRest, known>>

\* new Controller: Config is read ...
LoadConfig == main = "init" /\ ConfigLoads /\ MainGoto("config")
LoadFolderless == main = "init" /\ ConfigLoadsFolderless /\ MainGoto("config")

\* ... outside the try: a file that does not parse aborts the child.
LoadAborts == main = "init" /\ file = Torn /\ Dies(NeedToWork, TRUE)

\* The constructors of ConfigDaemon and, later, of ConfigTorrent write to it.
WriteConfig ==
    /\ main \in {"config", "startTorrent"}
    /\ WriteStringOpens \/ WriteStringWrites
    /\ MainGoto(main)

\* A WriteString that does not notice that it has failed.
WriteFailsSilently ==
    /\ main \in {"config", "startTorrent"} /\ WriteStringThrows
    /\ todo' = Tail(todo) /\ open' = FALSE /\ UNCHANGED <<disk, root>>
    /\ MainGoto(main)

\* Start throws: the exception is logged and WorkProc returns NeedToTerminate.
StartThrows ==
    /\ main' = "exit" /\ failed' = TRUE
    /\ UNCHANGED <<worker, other, controller, childTerm, parentVars, status, crashed, asked, known>>

\* An exception from ConfigDaemon aborts the child, one from ConfigTorrent is caught
\* by WorkProc.
WriteFails ==
    /\ WriteStringThrows
    /\ \/ main = "config" /\ Dies(NeedToWork, TRUE)
       \/ /\ main = "startTorrent"
          /\ todo' = <<>> /\ open' = FALSE /\ UNCHANGED <<disk, root>>
          /\ StartThrows

\* The Controller is constructed; Start begins with ConfigTorrent.
Construct ==
    /\ main = "config" /\ todo = <<>>
    /\ dmn' = TRUE /\ main' = "startTorrent"
    /\ todo' = TorrentKeys
    /\ UNCHANGED <<worker, other, torrent, rpcClient, childTerm, childRest, disk, root, open,
                   known>>

\* A Start that creates the client before the torrent.
StartClientFirst ==
    /\ main = "startTorrent" /\ todo = <<>>
    /\ rpcClient' = TRUE /\ worker' = "starting" /\ main' = "startClient"
    /\ UNCHANGED <<other, torrent, dmn, childTerm, childOnly>>

\* Controller::Start: torrent ...
StartTorrent ==
    /\ main = "startTorrent" /\ todo = <<>>
    /\ torrent' = TRUE /\ main' = "startClient"
    /\ UNCHANGED <<worker, other, rpcClient, dmn, childTerm, childOnly>>

\* ... and rpcClient, which creates the worker's thread.  From here on, at the
\* earliest, the server knows the daemon by the uuid of its handshake.
StartClient ==
    /\ main = "startClient"
    /\ rpcClient' = TRUE /\ worker' = "starting" /\ main' = "running"
    /\ known' = root.uuid
    /\ UNCHANGED <<other, torrent, dmn, childTerm, childRest, disk, settings>>

\* Torrent or GRPCClient cannot be created.
StartFails ==
    /\ main \in {"startTorrent", "startClient"} /\ todo = <<>>
    /\ StartThrows /\ UNCHANGED <<disk, settings>>

\* sigwait returns.
SigWaitChild ==
    /\ main = "running" /\ childTerm
    /\ childTerm' = FALSE /\ main' = "stop"
    /\ UNCHANGED <<worker, other, controller, childOnly>>

\* dmn->Stop(): torrent.release() ...
StopTorrent ==
    /\ main = "stop" /\ dmn
    /\ torrent' = FALSE /\ main' = "stopClient"
    /\ UNCHANGED <<worker, other, rpcClient, dmn, childTerm, childOnly>>

\* ... then rpcClient.reset(), which clears the pointer and runs the destructor ...
StopClient ==
    /\ main = "stopClient"
    /\ rpcClient' = FALSE /\ main' = IF rpcClient THEN "join" ELSE "exit"
    /\ UNCHANGED <<worker, other, torrent, dmn, childTerm, childOnly>>

\* ... which returns when the worker has ended.
JoinWorker ==
    /\ main = "join" /\ worker = "ended"
    /\ main' = "exit"
    /\ UNCHANGED <<worker, other, controller, childTerm, childOnly>>

\* dmn was released by SignalError in another thread: a fault in the main thread.
StopOnNull == main = "stop" /\ ~dmn /\ Dies(NeedToWork, TRUE)

\* exit(NeedToTerminate) destroys dmn.
ChildExits == main = "exit" /\ ~torrent /\ Dies(NeedToTerminate, FALSE)

\* With a torrent left, ~Torrent joins its handler thread while it holds the mutex
\* that this thread needs: exit never returns.
ChildHangs ==
    /\ main = "exit" /\ torrent
    /\ main' = "hung"
    /\ UNCHANGED <<worker, other, controller, childTerm, childOnly>>

----------------------------------------------------------------------------
(* The RPC client's worker, whose tasks call Controller. *)

\* A step of the worker.
WorkerGoto(pc) ==
    worker' = pc /\ UNCHANGED <<main, other, controller, childTerm, childOnly>>

\* The worker's first store.  It overwrites the Stop of a destructor that came first,
\* and then the worker never ends; and if the handler of the deferred tasks has
\* looked before it, the handler is gone, and with it the handshake and every task.
WorkerBegins ==
    /\ worker = "starting"
    /\ \/ rpcClient /\ WorkerGoto("idle")
       \/ rpcClient /\ WorkerGoto("silent")
       \/ ~rpcClient /\ WorkerGoto("stuck")

StartTask == worker = "idle" /\ WorkerGoto("task")

\* The callbacks use torrent; DownloadTorrent may have an error to report.
UseTorrent ==
    /\ worker = "task"
    /\ IF torrent THEN \E pc \in {"idle", "report"} : WorkerGoto(pc)
                  ELSE WorkerGoto("null")

\* DownloadTorrent's catch clause uses rpcClient.
ReportError ==
    /\ worker = "report"
    /\ WorkerGoto(IF rpcClient THEN "idle" ELSE "null")

WorkerFaults == worker \in {"idle", "task", "report"} /\ WorkerGoto("fault")

\* A call without a deadline, to a server that neither answers nor closes.
RpcHangs == worker = "task" /\ WorkerGoto("stuck")

\* The end that GRPCClient's destructor, called by the main thread or by SignalError,
\* waits for.
WorkerEnds ==
    /\ worker \in {"idle", "silent"} /\ (main = "join" \/ other = "join")
    /\ WorkerGoto("ended")

\* SignalError on the worker.  If rpcClient is there its destructor makes the
\* worker join itself, which throws and aborts; otherwise exit(NeedToWork).
SignalErrorWorker == worker \in {"null", "fault"} /\ Dies(NeedToWork, TRUE)

----------------------------------------------------------------------------
(* Any other thread of the child that faults. *)

OtherGoto(pc) == other' = pc /\ UNCHANGED <<main, worker, childTerm, childOnly>>

OtherFaults ==
    /\ other = "ok"
    /\ main \in {"startClient", "running", "stop", "stopClient", "join"}
    /\ OtherGoto("fault") /\ UNCHANGED controller

\* SignalError there: dmn->Stop(), ...
SignalErrorStop ==
    /\ \/ other = "fault" /\ OtherGoto("stopClient")
                         /\ torrent' = FALSE /\ UNCHANGED <<rpcClient, dmn>>
       \/ other = "stopClient" /\ OtherGoto(IF rpcClient THEN "join" ELSE "release")
                              /\ rpcClient' = FALSE /\ UNCHANGED <<torrent, dmn>>
       \/ other = "join" /\ worker = "ended"
                        /\ OtherGoto("release") /\ UNCHANGED controller

\* ... dmn.release() and exit(NeedToWork).
SignalErrorExit ==
    \/ other = "release" /\ OtherGoto("exit")
                         /\ dmn' = FALSE /\ UNCHANGED <<torrent, rpcClient>>
    \/ other = "exit" /\ Dies(NeedToWork, TRUE)

----------------------------------------------------------------------------
(* Signals from outside. *)

OperatorTerm ==
    /\ "parent" \notin asked /\ parent # "exited"
    /\ asked' = asked \cup {"parent"} /\ pending' = pending \cup {"TERM"}
    /\ UNCHANGED <<parent, childVars, config, failed>>

\* Somebody sends TERM to the child itself.
TermChild ==
    /\ Alive /\ childTerm' = TRUE /\ asked' = asked \cup {"child"}
    /\ UNCHANGED <<parentVars, main, worker, other, controller, status, crashed, config, failed>>

\* The child is stopped or continued: the parent gets SIGCHLD for that too.
PauseChild ==
    /\ Alive /\ pending' = pending \cup {"CHLD"}
    /\ UNCHANGED <<parent, childVars, config, asked, failed>>

\* SIGKILL, at any moment.
KillChild == Alive /\ Dies(NeedToWork, TRUE)

----------------------------------------------------------------------------
ParentStep == Fork \/ SigWait \/ Reap \/ ParentExits

MainStep ==
    \/ LoadConfig \/ LoadAborts \/ WriteConfig \/ Construct \/ StartTorrent \/ StartClient
    \/ SigWaitChild \/ StopTorrent \/ StopClient \/ JoinWorker \/ StopOnNull
    \/ ChildExits \/ ChildHangs

TaskStep == WorkerBegins \/ UseTorrent \/ ReportError \/ SignalErrorWorker

OtherStep == SignalErrorStop \/ SignalErrorExit

Faults ==
    \/ WorkerFaults \/ RpcHangs \/ OtherFaults \/ KillChild
    \/ LoadFolderless \/ WriteFails \/ StartFails

Outside == OperatorTerm \/ TermChild \/ PauseChild

Finished == parent = "exited" /\ (~Alive \/ main = "hung") /\ UNCHANGED vars

Next ==
    \/ ParentStep \/ MainStep \/ StartTask \/ TaskStep \/ WorkerEnds \/ OtherStep
    \/ Faults \/ Outside \/ Finished

\* Processes and threads run, fork succeeds in the end, a write without a folder throws,
\* and a worker that is told to end and can comes to the end of its line of tasks.
Fairness ==
    /\ WF_vars(ParentStep) /\ WF_vars(MainStep) /\ WF_vars(TaskStep)
    /\ WF_vars(OtherStep) /\ SF_vars(WorkerEnds) /\ WF_vars(~folder /\ WriteFails)

Spec == Init /\ [][Next]_vars /\ Fairness

----------------------------------------------------------------------------
TypeOK ==
    /\ parent \in {"fork", "wait", "reap", "stopping", "exited"}
    /\ pending \in SUBSET {"TERM", "CHLD"}
    /\ main \in {"none", "init", "config", "startTorrent", "startClient", "running", "stop",
                 "stopClient", "join", "exit", "hung", "zombie"}
    /\ worker \in {"off", "starting", "idle", "silent", "task", "report", "null", "fault",
                   "ended", "stuck"}
    /\ other \in {"ok", "fault", "stopClient", "join", "release", "exit"}
    /\ torrent \in BOOLEAN /\ rpcClient \in BOOLEAN /\ dmn \in BOOLEAN
    /\ childTerm \in BOOLEAN /\ status \in {NeedToWork, NeedToTerminate}
    /\ asked \in SUBSET {"parent", "child"} /\ failed \in BOOLEAN /\ crashed \in BOOLEAN
    /\ folder \in BOOLEAN /\ file \in Tree \cup {Absent, Torn} /\ root \in Tree
    /\ open \in BOOLEAN /\ known \in UUIDs \cup {NoUUID}
    /\ (parent = "fork") => ~Alive
    /\ Alive => ~crashed

\* The worker meets a null torrent or rpcClient only while the child is being
\* stopped, by the main thread or by SignalError: Start creates them in the order
\* in which they are used.
NullOnlyInShutdown ==
    (worker = "null") => (main \in {"stopClient", "join"} \/ other # "ok")

\* A child past its start has its configuration on disk, whole: what it reports to
\* the server by is what its successor will read.
RunsOnSavedConfig ==
    main \in {"startClient", "running", "stop", "stopClient", "join"} => file = root

\* The server knows a daemon by one uuid, however often the child crashes, in its
\* first start or in one after an update.
UuidStable == [][known # NoUUID => known' = known]_vars

\* A daemon that nobody tells to stop, whose faults come to an end and whose Start
\* never failed, has a child that works again for good, whatever killed the ones
\* before it: its main thread waits for a signal and its worker fetches and runs
\* tasks.  Exceptions, each of which the parent does not see: a write that was cut off
\* has torn the file, on which every later child aborts; a worker that lost its
\* handler at its start or hangs in a call.
Recovers ==
    \/ []<><<Faults>>_vars
    \/ <>(asked # {}) \/ <>failed
    \/ <>[](main = "running" /\ worker \in {"idle", "task", "report"})
    \/ <>[](file = Torn) \/ <>[](worker \in {"silent", "stuck"})

\* A stop that cannot get through: the parent took a pause of its child for its death
\* and waits for that; a failed Start left the child hanging in exit; the worker
\* never ends.
Deaf == (parent = "reap" /\ Alive) \/ main = "hung" \/ worker = "stuck"

\* A TERM to the daemon ends both processes, whatever the child is doing, however
\* often it crashes and wherever the parent is, unless the daemon is deaf for good.
StopHonoured ==
    ("parent" \in asked) ~> ((parent = "exited" /\ ~Alive) \/ []Deaf)
=============================================================================
