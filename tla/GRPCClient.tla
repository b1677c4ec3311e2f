----------------------------- MODULE GRPCClient -----------------------------
(***************************************************************************)
(* grpcserver::GRPCClient (Daemon/grpcservice/grpc_client.h, .cpp): the    *)
(* daemon's side of the polling protocol.  Tasks run one at a time on      *)
(* tasksWorker; MAKE_HANDSHAKE is repeated until the server accepts, then  *)
(* UPDATE_TASK_LIST fetches tasks and defers itself, for ever.             *)
(*                                                                         *)
(* tasksWorker is used through what WorkingThread was shown to promise: a  *)
(* line of tasks run in order, deferred tasks that join it later, and a    *)
(* Stop that runs what is in line.  Its races come with it: a Stop before  *)
(* the worker's first store is overwritten, a handler thread that tests    *)
(* isRunning before that store leaves at once, and after Stop the handler  *)
(* may make one more scan, because it tests the list before isRunning.     *)
(*                                                                         *)
(* The server, the channel and the callbacks are external: an RPC fails,   *)
(* is answered, or, since none has a deadline, never ends; an answered     *)
(* stream may break off after any prefix.                                  *)
(***************************************************************************)
EXTENDS Integers, Sequences, FiniteSets, SequencesExt

CONSTANTS
    ServerTypes,    \* the task types the server sends
    MaxTasks        \* bound: tasks the server creates

PollTypes == {"MAKE_HANDSHAKE", "UPDATE_TASK_LIST"}
TaskType == PollTypes \cup
            {"GENERATE_MAGENT", "DOWNLOAD_TORRENT", "UPDATE_TORRENT_STATUS"}

\* A type this build of the client does not know.
Unknown == "UNKNOWN"
Nil == "NIL"

ASSUME ServerTypesAssumption == ServerTypes \subseteq TaskType \cup {Unknown}
ASSUME MaxTasksAssumption == MaxTasks \in Nat

VARIABLES
    isRun,
    stub,           \* whether stub holds an object
    clientInfo,     \* "empty", or "ok" after an accepted handshake
    tasks,          \* tasksWorker: the line of tasks
    deffered,       \* tasksWorker: how many deferred tasks there are of each type
    worker,         \* tasksWorker: "off", "starting", "on" (isRunning), "draining" or "ended"
    handler,        \* its handler thread: "off", "starting", "on" or "last" (one more scan)
    current,        \* the task being run, Nil when there is none
    step,           \* where it is: "begin", "call", "rpc", "report" or "hung"
    owner,          \* "created", "started", "stopped" or "destroying"
    serverTasks,    \* the server's list of tasks for this client
    created,        \* how many tasks the server has created
    joined,         \* history: handshakes and polls that came as tasks of the server
    crashed         \* a null stub was dereferenced

workerVars == <<worker, handler>>
clientVars == <<isRun, stub, clientInfo, owner>>
runVars    == <<current, step>>
serverVars == <<serverTasks, created, joined>>
vars == <<clientVars, tasks, deffered, workerVars, runVars, serverVars, crashed>>

Init ==
    /\ isRun = FALSE /\ stub = FALSE
    /\ clientInfo = "empty"
    /\ tasks = <<>>
    /\ deffered = [ty \in TaskType |-> 0]
    /\ worker = "off" /\ handler = "off"
    /\ current = Nil /\ step = "begin"
    /\ owner = "created"
    /\ serverTasks = <<>> /\ created = 0 /\ joined = 0
    /\ crashed = FALSE

----------------------------------------------------------------------------
\* An unknown type becomes an empty shared_ptr, which the worker skips.
CreateTask(ty) == IF ty \in TaskType THEN ty ELSE Nil

\* The line with tasks of these types added to it.
AddTasks(line, types) == line \o [i \in DOMAIN types |-> CreateTask(types[i])]

\* How many handshakes and polls a line holds.
PollsIn(line) == Cardinality({i \in DOMAIN line : line[i] \in PollTypes})

Deffer(ty) == deffered' = [deffered EXCEPT ![ty] = @ + 1]

\* The task being run returns.
Return == current' = Nil /\ step' = "begin"

----------------------------------------------------------------------------
(* The owner. *)

Start ==
    /\ owner = "created"
    /\ stub' = TRUE /\ isRun' = TRUE
    /\ worker' = "starting" /\ handler' = "starting"
    /\ tasks' = AddTasks(tasks, <<"MAKE_HANDSHAKE">>)
    /\ owner' = "started"
    /\ UNCHANGED <<clientInfo, deffered, runVars, serverVars, crashed>>

\* tasksWorker.Stop(): the line is run to its end, deferred tasks are dropped.  A worker
\* that still starts sets isRunning again, and goes on.
StopWorker ==
    /\ worker' = IF worker = "on" THEN "draining" ELSE worker
    /\ handler' = IF handler = "on" THEN "last" ELSE handler
    /\ deffered' = [ty \in TaskType |-> 0]

\* Stop, which holds mtxTask throughout; it does not wait for the worker.
Stop ==
    /\ owner = "started"
    /\ isRun' = FALSE
    /\ StopWorker
    /\ stub' = FALSE
    /\ clientInfo' = "empty"
    /\ owner' = "stopped"
    /\ UNCHANGED <<tasks, runVars, serverVars, crashed>>

\* A destructor of tasksWorker that leaves the deferred tasks running.
DestroyKeepingDeffered ==
    /\ owner \in {"started", "stopped"}
    /\ worker' = IF worker = "on" THEN "draining" ELSE worker
    /\ owner' = "destroying"
    /\ UNCHANGED <<isRun, stub, clientInfo, tasks, deffered, handler, runVars,
                   serverVars, crashed>>

\* The destructor: tasksWorker, declared last, is destroyed first.  isRun stays.
Destroy ==
    /\ owner \in {"started", "stopped"}
    /\ StopWorker
    /\ owner' = "destroying"
    /\ UNCHANGED <<isRun, stub, clientInfo, tasks, runVars, serverVars, crashed>>

----------------------------------------------------------------------------
(* tasksWorker: the executor and its deferred tasks. *)

\* The worker's first store to isRunning.
WorkerBegins ==
    /\ worker = "starting"
    /\ worker' = "on"
    /\ UNCHANGED <<clientVars, tasks, deffered, handler, runVars, serverVars, crashed>>

\* The handler's first test of isRunning.
HandlerBegins ==
    /\ handler = "starting"
    /\ handler' = IF worker = "on" THEN "on" ELSE "off"
    /\ UNCHANGED <<clientVars, tasks, deffered, worker, runVars, serverVars, crashed>>

\* A deferred task's time has come.
FireDeffered(ty) ==
    /\ handler = "on" /\ deffered[ty] > 0
    /\ deffered' = [deffered EXCEPT ![ty] = @ - 1]
    /\ tasks' = Append(tasks, ty)
    /\ UNCHANGED <<clientVars, workerVars, runVars, serverVars, crashed>>

\* The handler's last scan, after Stop: it fires tasks deferred since, or none.
LastScan ==
    /\ handler = "last"
    /\ \E due \in SUBSET {ty \in TaskType : deffered[ty] > 0} :
          /\ deffered' = [ty \in TaskType |-> IF ty \in due THEN deffered[ty] - 1
                                                            ELSE deffered[ty]]
          /\ \E line \in SetToSeqs(due) : tasks' = tasks \o line
    /\ handler' = "off"
    /\ UNCHANGED <<clientVars, worker, runVars, serverVars, crashed>>

\* The next entry of the line; an empty one is skipped.
RunTask ==
    /\ worker \in {"on", "draining"} /\ current = Nil /\ tasks # <<>>
    /\ current' = Head(tasks)
    /\ tasks' = Tail(tasks)
    /\ UNCHANGED <<clientVars, deffered, workerVars, step, serverVars, crashed>>

WorkerEnd ==
    /\ worker = "draining" /\ current = Nil /\ tasks = <<>>
    /\ worker' = "ended"
    /\ UNCHANGED <<clientVars, tasks, deffered, handler, runVars, serverVars, crashed>>

----------------------------------------------------------------------------
(* The task being run. *)

\* What only moves the running task leaves alone.
runOthers == <<isRun, stub, owner, workerVars, created, joined>>

\* UpdateTasksTask alone tests IsRun() first.
Begin ==
    /\ current # Nil /\ step = "begin"
    /\ IF current = "UPDATE_TASK_LIST" /\ ~isRun
          THEN Return
          ELSE step' = "call" /\ UNCHANGED current
    /\ UNCHANGED <<clientInfo, tasks, deffered, serverTasks, crashed, runOthers>>

\* stub->Method(&context, GetClientInfo()).
Call ==
    /\ step = "call" /\ stub
    /\ step' = "rpc"
    /\ UNCHANGED <<current, clientInfo, tasks, deffered, serverTasks, crashed, runOthers>>

\* Any use of the null stub.
CallOnNull ==
    /\ step \in {"call", "report"} /\ ~stub
    /\ crashed' = TRUE
    /\ UNCHANGED <<runVars, clientInfo, tasks, deffered, serverTasks, runOthers>>

\* An RPC that never ends.
RpcHangs ==
    /\ step = "rpc" \/ (step = "report" /\ stub)
    /\ step' = "hung"
    /\ UNCHANGED <<current, clientInfo, tasks, deffered, serverTasks, crashed, runOthers>>

Answered(ty) == current = ty /\ step = "rpc"

\* HandshakeTask, accepted.
HandshakeAccepted ==
    /\ Answered("MAKE_HANDSHAKE")
    /\ clientInfo' = "ok"
    /\ tasks' = AddTasks(tasks, <<"UPDATE_TASK_LIST">>)
    /\ Return
    /\ UNCHANGED <<deffered, serverTasks, crashed, runOthers>>

\* HandshakeTask: the RPC failed, or the server did not authorise the client.
HandshakeFailed ==
    /\ Answered("MAKE_HANDSHAKE")
    /\ Deffer("MAKE_HANDSHAKE")
    /\ Return
    /\ UNCHANGED <<clientInfo, tasks, serverTasks, crashed, runOthers>>

\* UpdateTasksTask: the server hands its whole list over; the stream brings the
\* first n tasks.
TaskListRead(n) ==
    /\ Answered("UPDATE_TASK_LIST")
    /\ tasks' = AddTasks(tasks, SubSeq(serverTasks, 1, n))
    /\ joined' = joined + PollsIn(SubSeq(serverTasks, 1, n))
    /\ serverTasks' = <<>>
    /\ Deffer("UPDATE_TASK_LIST")
    /\ Return
    /\ UNCHANGED <<clientInfo, crashed, isRun, stub, owner, workerVars, created>>

\* A failed RPC that does not defer the next poll.
TaskListUnreadGivingUp ==
    /\ Answered("UPDATE_TASK_LIST")
    /\ Return
    /\ UNCHANGED <<clientInfo, tasks, deffered, serverTasks, crashed, runOthers>>

\* UpdateTasksTask: the RPC did not reach the server.
TaskListUnread ==
    /\ Answered("UPDATE_TASK_LIST")
    /\ Deffer("UPDATE_TASK_LIST")
    /\ Return
    /\ UNCHANGED <<clientInfo, tasks, serverTasks, crashed, runOthers>>

\* CreateTorrentTask, after the callback.
TorrentsGenerated ==
    /\ Answered("GENERATE_MAGENT")
    /\ Deffer("UPDATE_TORRENT_STATUS")
    /\ Return
    /\ UNCHANGED <<clientInfo, tasks, serverTasks, crashed, runOthers>>

\* DownloadTorrentTask and UpdateTorrentTask: a torrent is reported with a second
\* RPC (the former only when the callback catches an exception).
Report ==
    /\ Answered("DOWNLOAD_TORRENT") \/ Answered("UPDATE_TORRENT_STATUS")
    /\ step' = "report"
    /\ UNCHANGED <<current, clientInfo, tasks, deffered, serverTasks, crashed, runOthers>>

\* DownloadTorrentTask ends by asking for a status update, UpdateTorrentTask by
\* nothing; a failed report is only logged.
TorrentsHandled ==
    /\ current \in {"DOWNLOAD_TORRENT", "UPDATE_TORRENT_STATUS"}
    /\ step = "rpc" \/ (step = "report" /\ stub)
    /\ tasks' = IF current = "DOWNLOAD_TORRENT"
                   THEN AddTasks(tasks, <<"UPDATE_TORRENT_STATUS">>) ELSE tasks
    /\ Return
    /\ UNCHANGED <<clientInfo, deffered, serverTasks, crashed, runOthers>>

----------------------------------------------------------------------------
\* The server has something for this client to do.
ServerAddTask(ty) ==
    /\ created < MaxTasks
    /\ created' = created + 1
    /\ serverTasks' = Append(serverTasks, ty)
    /\ UNCHANGED <<joined, clientVars, tasks, deffered, workerVars, runVars, crashed>>

TaskStep ==
    \/ Begin \/ Call \/ CallOnNull
    \/ HandshakeAccepted \/ HandshakeFailed
    \/ (\E n \in 0..Len(serverTasks) : TaskListRead(n)) \/ TaskListUnread
    \/ TorrentsGenerated \/ Report \/ TorrentsHandled

WorkerStep == WorkerBegins \/ RunTask \/ WorkerEnd \/ TaskStep

HandlerStep == HandlerBegins \/ LastScan \/ \E ty \in TaskType : FireDeffered(ty)

\* The destructor has returned, or waits for a worker that does not end.
Finished ==
    /\ crashed \/ owner = "destroying"
    /\ UNCHANGED vars

Next ==
    \/ ~crashed /\ (Start \/ Stop \/ Destroy \/ WorkerStep \/ RpcHangs \/ HandlerStep)
    \/ \E ty \in ServerTypes : ServerAddTask(ty)
    \/ Finished

\* Threads run, deferred tasks become due, and an RPC that does not hang ends.  The server
\* accepts the handshake and delivers its task list if it is asked again and again.
Fairness ==
    /\ WF_vars(~crashed /\ WorkerStep)
    /\ WF_vars(~crashed /\ (HandlerBegins \/ LastScan))
    /\ \A ty \in TaskType : WF_vars(~crashed /\ FireDeffered(ty))
    /\ SF_vars(~crashed /\ HandshakeAccepted)
    /\ SF_vars(~crashed /\ \E n \in 0..Len(serverTasks) : TaskListRead(n))

Spec == Init /\ [][Next]_vars /\ Fairness

----------------------------------------------------------------------------
TypeOK ==
    /\ isRun \in BOOLEAN /\ stub \in BOOLEAN /\ crashed \in BOOLEAN
    /\ clientInfo \in {"empty", "ok"}
    /\ tasks \in Seq(TaskType \cup {Nil})
    /\ deffered \in [TaskType -> Nat]
    /\ worker \in {"off", "starting", "on", "draining", "ended"}
    /\ handler \in {"off", "starting", "on", "last"}
    /\ current \in TaskType \cup {Nil}
    /\ step \in {"begin", "call", "rpc", "report", "hung"}
    /\ current = Nil => step = "begin"
    /\ owner \in {"created", "started", "stopped", "destroying"}
    /\ serverTasks \in Seq(ServerTypes)
    /\ created \in 0..MaxTasks /\ joined \in 0..MaxTasks

\* The handshakes and polls queued, deferred and being run.
PollTokens ==
    PollsIn(tasks) + deffered["MAKE_HANDSHAKE"] + deffered["UPDATE_TASK_LIST"]
    + (IF current \in PollTypes THEN 1 ELSE 0)

\* There is one chain of handshakes and polls, whatever fails and however often: never
\* none between Start and Stop, be it a chain that waits for a handler thread that has
\* left, and never two that would double the load, unless the server itself sends one as
\* a task, which adds a chain for good.
PollChains ==
    /\ PollTokens <= 1 + joined
    /\ owner = "started" => PollTokens = 1 + joined

\* What the server wants done is fetched in the end, unless the client is stopped first
\* or an RPC never ends: no failure breaks the chain of polls.  That the handler thread
\* outlives its first test of isRunning (working_thread.cpp:126) is asked for: one that
\* does not leaves the next poll in the deferred list.
TasksFetched ==
    (serverTasks # <<>> /\ worker = "on" /\ handler = "on" /\ owner = "started")
        ~> (serverTasks = <<>> \/ owner # "started" \/ step = "hung")

\* The destructor returns, although the tasks it waits for go on adding tasks and the
\* deferred ones go on being deferred, and isRun stays set.  Two things keep it for ever:
\* an RPC that never ends, and a Stop that the worker's first store overwrote
\* (working_thread.cpp:57).
DestroyReturns ==
    (owner = "destroying" /\ isRun /\ worker \in {"draining", "ended"})
        ~> ((worker = "ended" /\ handler = "off") \/ step = "hung")

\* "working thread runs all tasks from queue and then stops working": the tasks
\* still in line when GRPCClient::Stop is called are run to their end.
StopLetsTasksRun == ~crashed
=============================================================================
