# VerAI: TLA+ models, checks and proofs

VerAI is a daemon that shares machine-learning projects over BitTorrent on behalf
of a central server, and a Python program that builds a TensorFlow model from a
JSON description.  This directory holds TLA+ models of both, the TLC runs that
check them on small instances and TLAPS proofs for all instances.  `PROJECT.json`
lists components, runs, the code behind every definition, hazards and theorems.

To check a run: `tlc -config MessageQueue.cfg MCMessageQueue`.
To check proofs: `tlapm MessageQueueProofs.tla`.

## 1. The system

| Component | State | Operations | Talks to |
|---|---|---|---|
| `MessageQueue` (common/message_queue.h) | a deque, a mutex, a condition variable | Push, PushFront, Pop, Wait, WaitAndReturnAll, Clear | WorkingThread |
| `WorkingThread` (common/working_thread.*) | `isRunning`, the queue, the deferred list, two threads | Run, EnqueueTask, -Front, -AfterTimeOut, ClearQueueTasks, Stop, destructor | GRPCClient |
| `GRPCClient` (grpcservice/grpc_client.*) | `isRun`, the stub, the client's identity, `tasksWorker` | Start, Stop, five kinds of tasks, each with RPCs | the server; Controller by callbacks on the worker thread |
| `Torrent`, `TorrentInfo`, `TorrentInfoManager` (src/torrent*) | a record per torrent, the map of ids, torrent files | CreateTorrentAsync, DownloadAsync, GetTorrentInfo, HandlerAlerts | libtorrent's session; Controller |
| `Controller` (src/controller.*) | owns a Torrent and a GRPCClient | Start, Stop, the three callbacks, the conversion of statuses | both, and main |
| supervisor (src/main.cpp) | two processes, pending signals, exit status | fork loop, WorkProc, SignalError | the operator, the kernel |
| configuration (config/*) | a JSON file and the tree read from it | read, write the default of what is missing | Controller, Torrent |
| file system helpers (common/filesystem.*), uuid | none | CreateFolder, IsFileExist, Remove, paths | Torrent, configuration |
| server (grpcservice/grpc_server.*, tests/grpc_server.cpp) | per-daemon lists of tasks, of torrents to download and to report on; the torrents that wait; three locks | the RPCs' other side | GRPCClient of every daemon |
| plog (vendored) | the logger and its appenders; the log file, its size, the numbered older files | init, log, destruction by exit(); write, roll, open | every thread of the daemon |
| model builder (tensorflow/main.py, component_loader.py, components/base.py) | the items left, the components created | create_components, get_components_to_run, run_train, run_test | components, data sets, TensorFlow |
| components (tensorflow/components) | inputs, parameters | `init` of 16 classes | TensorFlow |
| data sets (tensorflow/dataset) | images, labels, an index into an epoch | read_data_sets, next_batch, switch_iteration | the runs |

What is hard.  The daemon has at least six kinds of threads: the worker and the
deferred-task handler of `WorkingThread`, the alert handler, one detached thread
per generated torrent, libtorrent's own and the main thread, in a child process
that a parent restarts.  They share queues, flags, folders and records that are
locked field by field.  Starting, stopping and crashing interleave with all of it,
and what is on disk (configuration, torrent files, log) outlives the process that
wrote half of it.  The server answers several daemons at once, under locks that it
takes in both orders, and removes from its lists what an answer may lose.  The
Python program is sequential; its difficulty is a worklist that shrinks while it is
indexed, a dependence relation that is read in three different ways, and batches
that span the end of an epoch.

What correctness means, per component: nothing queued is lost, duplicated, reordered or
left asleep (`MessageQueue`, `WorkingThread`); deferred tasks fire, near their time; the
poll protocol neither dies nor multiplies (`GRPCClient`); a record's status is true of its
torrent, and files have one writer (`Torrent`); a crash leads to a restart, a stop request
to a stop, and the daemon keeps its identity on the way (supervisor, configuration); what
one daemon generates is passed on to the others (server); the log has no gaps and is not
used after its end (plog); components are created after what they need, building ends, and
no example is served twice in an epoch or to the wrong run (model builder, data sets).

## 2. The modules

| Module | Models | Kind |
|---|---|---|
| `MessageQueue` | message_queue.h | component |
| `SerialExecutor` | what callers of WorkingThread may rely on | abstract specification |
| `WorkingThread` | working_thread.*, time abstracted | component, refines `SerialExecutor` |
| `Deadlines` | what callers see of deferred tasks, and what they are promised | properties, for `DefferedTasks` |
| `DefferedTasks` | the handler's arithmetic, in parts of a millisecond, EXTENDS `Deadlines` | component |
| `GRPCClient` | grpc_client.*, over WorkingThread's promise | composition |
| `ServerHandler` | the server, with daemons cut down to what it sees of them | composition |
| `Torrent` | torrent*.cpp, Controller's callbacks, CreateFolder with its failures | composition |
| `Config` | config/*, as part of a process | component |
| `Daemon` | main.cpp and Controller's life, EXTENDS `Config` | composition |
| `LogFiles` | the log's files on disk, the calls that change their names, what they keep | for `RollingFileAppender` |
| `RollingFileAppender` | plog's appender, over processes that die, EXTENDS `LogFiles` | component |
| `Logger` | plog's logger and the threads of one process | composition |
| `Components` | what each component class needs | operators |
| `DataSets` | next_batch and read_data_sets | operators |
| `GraphBuilder` | main.py, EXTENDS `Components` and `DataSets`, a run in one step | component |
| `Training` | `GraphBuilder` with the runs batch by batch | composition, refines `GraphBuilder` |
| `MessageQueueProofs`, `WorkingThreadProofs`, `GRPCClientProofs`, `ServerHandlerProofs`, `TorrentProofs`, `DaemonProofs`, `LoggerProofs`, `GraphBuilderProofs` | | proofs |
| `MC...` | | instances for TLC |

Definitions keep the code's names (spelling included: `DefferedTasks`,
`GENERATE_MAGENT`).  A definition that stands before another of a similar name and
that nothing uses (`PushSilently`, `ConfigLoadsAnyway`) is a plausible bug: put in the
place of the other, it makes TLC find a violation of a property (`mutants` in
`PROJECT.json`).

**MessageQueue.**  A step is one critical section of the mutex.  A blocking call is
split at the condition variable: `CallWait`/`CallWaitAndReturnAll`, `Park` (the
predicate is false, the mutex is released), `WakeUp` (timeout or spurious) and
`ReturnWait`/`ReturnAll`.  `notify_all` in `Push` empties the set of parked
consumers.  History variables record what was taken, in order.

**WorkingThread.**  The owner, the worker and the handler each have a program
counter.  A step is one access to the atomic flag or one critical section of the
task queue's or the deferred list's mutex, so `Stop` is three steps (flag, push of
the empty task, notify) and so is a round of the worker (flag, swap of the queue
for a local batch, one task of the batch at a time).  Deferred tasks are a set
here: any of them may be due at a scan.

**DefferedTasks** takes that abstraction apart: the list with its remaining times,
the wait, the charge of a finished wait to the whole list, the sort and the choice
of the next wait.  A tick of the clock is a part of a millisecond (`Parts`), and
`CurWait` cuts a wait to whole ones before it is charged, as `duration_cast` does, so a
handler that is woken within each millisecond charges nothing.  Time passes only while
the handler waits.  The loop over the list
fires and erases what is due: as the list was sorted before it, that is its first `k`
entries, for the one `k` in `Fires`, and `Charge` is what it does to the others.
`Deadlines` has what the promise `OnTime` speaks of: the calls, the ages, the tasks
fired and how often a wait was cut; nothing of the list or the wait.

**GRPCClient** has `tasksWorker` as a line of tasks and a bag of deferred ones; that
this is a sound view of WorkingThread is what `RunsAsSerialExecutor`,
`QueuedTaskRuns` and `DeferredTaskFires` say.  Its start races are kept: worker and handler
begin as `starting`; `WorkerBegins` is the store of `isRunning`, before which a Stop is
overwritten, and `HandlerBegins` the test of it, which ends a handler that comes first.
The task being run has a step of its own for
its RPC, so that `Stop` and the destructor interleave with it.  The server and the
callbacks are external: an RPC fails, is answered, with tasks of any type, or never ends
(`RpcHangs`), and a stream may break off after any prefix of the tasks, which the server
has by then forgotten.

**ServerHandler.**  Each daemon waits for one call at a time, and each call is a thread of
the server.  A call that its daemon gave up (`GiveUp`) or died in (`Restart`) becomes an
orphan: the server goes on with it in a slot of its own, beside the daemon's next call,
until its answer finds nobody (`Unheard`).  A call goes through `called`, `give` (it holds
`mtxTDeque` and hands out a torrent, for which it wants `mtxTDownload`), `task` (the other
way round) and `replied`.  A daemon is its line of tasks, its deferred types, the reports
it has yet to send and the status of its torrents; a report copies the link and then the
status, as `TorrentInfo::Copy` does.  `Break` is a call that fails or whose answer is cut
off after a prefix; `Restart` replaces a daemon's child, which keeps its uuid only.
`TorrentEnds` is what becomes of a torrent at a daemon: a generation may fail or never
end, one that is GENERATED may be taken back, a download may go on for ever. When two
calls wait for each other (`LocksCross`) the server stands still. `InOrder` is the one
sequence in which a loop walks through a `std::set`.

**Torrent.**  Every setter and getter of `TorrentInfo` locks by itself, so each is a step.
A generator goes through `GenStart`, `GenPieceStatus`/`GenPieceProgress` per piece,
`GenWrite`, `GenReadBack`, `GenPublish` (link, progress, status), `GenAdd` and
`GenInsert`, or one of the failures.  The client's worker starts generations and
downloads, as often as it is asked, and copies a record (`Copy`, in the order of
`TorrentInfo::Copy`). The handler looks the id up by name, then applies the alert; an
alert that metadata failed, once per torrent, changes nothing.  `WriteTorrent` is a
sequence of system calls on a folder that others make too (`CreateFolder`: look for the
first missing level, make it, and so on; a mkdir that came second, or that is refused for
any other reason (`MkdirRefused`), ends it) and on a set of files (test, remove, write).
A download makes a folder of its own first (`DownloadFolder`), which shares its upper
levels with that of the torrent files.

**Config and Daemon.**  The configuration is a version and a uuid in memory (`root`)
and on disk (`file`, which may be absent or torn); `todo` lists the keys that the
constructor running has yet to write.  A write truncates the file
(`WriteStringOpens`) and fills it (`WriteStringWrites`).  The parent (`Fork`, `SigWait`,
`Reap`, `ParentExits`) and the child's main thread, worker and any other thread are
`Daemon`'s.  `Dies` is the end of the process with its exit status, 0 for a death by a
signal, as `WEXITSTATUS` computes it.  `SignalError` runs `Controller::Stop` in the
thread that faulted: `SignalErrorWorker` is the worker joining itself, which aborts;
`SignalErrorStop`/`SignalErrorExit` is another.  The worker begins after its object is
built (`WorkerBegins`): it may find that it was told to stop before, and is then `stuck`
for ever, or lose its handler, and is then `silent`: with no timer it asks for nothing more.
An RPC may hang (`RpcHangs`).

**RollingFileAppender.**  A record is written after the file has been opened or rolled; a
roll is an unlink, one rename per older file and an open, each a system call before which
the process may die.  `FileUnlink` and `FileRename` (in `LogFiles`) are the system calls
behind `util::File`, which may fail and whose results the roll does not look at. A file is
what a name refers to (an inode), and each process writes at an offset of its own, as the
code opens without `O_APPEND`.  There are enough inodes for every name and every process
to hold one, and one more.  `KeptIsSuffix` (in `LogFiles`) reads the files from the oldest
to the newest: the records come in the order they were logged in, the last one is there,
and behind each its successor.

**Logger.**  One process, from `plog::init` in Controller's constructor to the static
destructors that exit() runs.  A thread in a PLOG goes through the two calls of
`getInstance` in `IF_PLOG_` (`IfPlog`, `Check`) and the third in `PLOG_` (`Get`), the walk
over `m_appenders`, and the appender's mutex with the close and the open of a roll under
it. The open may fail, which leaves a size of -1: nothing is opened or rolled any more and
every record is dropped.  `Stop` and `Join` are Controller::Stop: it waits for the threads
of the RPC client and for no others.  What a thread does with a destroyed object is
undefined, and here it may get nowhere, go on, or fault.  A thread may also fault for
reasons of its own (`Crash`), and `SignalError` then runs Controller::Stop and exit() in
it: alone, or beside the main thread's, which it may overtake.

**GraphBuilder and Training.**  A turn of the loop is `Postpone`, `Create` or an
exception (`CheckRaises`, `CreateRaises`); then the variables get their initial values
without a feed (`Initialize`, `InitializerRaises`), and `RunTrain` and `RunTest` choose
what to run.  What TensorFlow refuses is external: an item's types and shapes may not fit
(`fits`), an initial value behind which there is a placeholder has none in the
initializer and perhaps an unknown shape before, one behind which there is another
variable depends on an order nobody gives, and an optimizer must find a variable to
train along the inputs that pass a gradient on (`NothingToTrain`, `Differentiable`).
A document gives each item a class, a type, its parameters and its references in
order; the three readings of a value (check_dependences, set_inputs,
get_dependence_names) are `Ready`/`Raises`, `SetInputs` and `DependenceNames`.
`Training` makes a run a sequence of batches; what the two shuffles of `NextBatch`
yield is any permutation.

## 3. The runs

| Run | Shows | Expected |
|---|---|---|
| `queue` | no lost wake-up, FIFO order, delivery at most once, a blocked consumer returns without its timeout | pass |
| `thread` | refinement of `SerialExecutor`; `Stop` runs what was queued and leaves the handler awake; tasks run, deferred ones fire, the destructor returns; only a late clear ends the process | pass |
| `thread_deferred_lost` | the handler may end before the worker raises `isRunning` | violation |
| `deferred` | late only by what cutting waits to milliseconds loses, early only by the time already waited, every task fires | pass |
| `client` | one chain of polls per handshake, tasks are fetched, the destructor returns; but for the two start races and RPCs that hang | pass |
| `client_stop` | `GRPCClient::Stop` takes the stub away from tasks that still run | violation |
| `torrent` | a GENERATED record has its link and stays generated, alerts find their torrent, a file is lost to a race over files, a race over folders or a refused mkdir and to nothing else, generations end, the end of a download reaches its record | pass |
| `daemon` | null pointers only while stopping, one uuid for ever, a running child has its configuration on disk, a crash leads to a child that works, stop requests are honoured; with the exceptions listed below | pass |
| `training` | creation in dependence order, training complete, well-formed documents never raise, epochs are exact and splits do not mix (`EpochsExact`), the creating of components ends | pass |
| `server` | the two lock orders meet only beside a call that was given up, nothing on a list is forgotten, reports do not pile up, what is generated is lost nowhere on its way | pass |
| `log` | over crashes in a roll the files hold the last records without a gap | pass |
| `logger` | threads that Stop joins meet a destroyed logger only when it was called twice, admitted records are in the file once and in order as long as files open | pass |

### Findings

* `thread_deferred_lost`: `Run` starts both threads; the handler's loop test may
  precede the worker's `isRunning = true` (working_thread.cpp:57, 126).  The thread
  ends and no deferred task is ever enqueued, against working_thread.h:66.  In the
  daemon, handshake retries and polls then stop.
* `client_stop`: `Stop` resets the stub while tasks still run, against
  working_thread.h:81.  Nothing in the daemon calls `GRPCClient::Stop`: Controller destroys
  the client, and the destructor keeps the stub until the worker has ended.

### Limits the passing properties state

The first three are against a text of the repository; the others are conditions of
properties that no text excludes.

* `Wait` takes the oldest item (message_queue.h:85), which `FifoOrder` states and
  `WorkingThread` needs; the comment on it says "Last element of queue" (line 69).
* The whole wait is charged to every task of the deferred list, also to one that came
  during the wait, which is then early by the time already waited
  (`EarlyByCreditOnly`), while working_thread.h:68 says "time in milliseconds to wait
  before task will be added to main queue".
* A wait is cut to whole milliseconds before it is charged (working_thread.cpp:139), so a
  task fires late by up to a millisecond for each wait that a notification or a spurious
  wake-up ended; a handler that is woken in every millisecond fires nothing
  (`LateByCutsOnly`, against the same line 68).
* A `Stop` that comes before the worker's first store of `isRunning` is overwritten and
  the destructor hangs (`DestroyTerminates` and `DestroyReturns` start after that store).
  A handler thread that looks before that store is gone: no handshake is repeated, nothing
  is polled (`TasksFetched`; `silent` in `Recovers`).
* The RPCs have no deadline.  One that never ends holds the worker, and whoever joins it
  (`hung` in `TasksFetched` and `DestroyReturns`, `stuck` in `Recovers` and `StopHonoured`).
* `ClearQueueTasks` after `Stop`, between the drain loop's `IsEmpty` and `Pop`, makes
  `Pop` throw and the process end; it does so in no other place, and only while nothing was
  submitted after the clear (`TerminatesByLateClear`).
* Every handshake that a server sends as a task, and every poll, starts a chain of
  polls of its own that never ends (`PollChains` counts them).
* `CreateTorrentAsync` tests a status that only the new thread sets, so a torrent may
  be generated twice at once (`GeneratedTwice`); `GeneratedIsFinal` and
  `OneWriterIsSafe` exempt it.  An error of `set_piece_hashes` leaves it GENERATING
  (`hashFailed`).  GENERATED may be taken back when `AddTorrent` fails.
* Of two threads that make one folder, the second returns from `CreateFolder` when its
  mkdir fails, and may then write its file before the deeper levels are there: the
  file is not written and nobody notices (`FolderRaceOnly`).  Nor does anybody notice when
  a mkdir is refused for want of permission or space (`refused`).
* Torrents are found by name, so torrents of one name are mixed up (`SharesName`).  A
  download without peers never ends, and nothing says so: `DownloadEnds` begins with
  libtorrent's word that it has.
* The copy of a record may have the status GENERATED and an empty link, since the
  link is copied first.  The record itself never has (`GeneratedHasLink`), and the
  server is saved from the torn report by the second task to report that every
  generation has (`NothingStranded`).
* An answer that breaks off, and a daemon that restarts, lose what the server has
  taken off its lists (`lost`).
* The server's lock orders do not meet because the server has one torrent to hand out and
  hands it out once.  A report that its daemon gave up and the server still serves, beside
  the daemon's next report, hands it out twice, and then they do meet, for good
  (`LocksDoNotCross` holds while `orphans = 0`; TLC reaches `LocksCross` after that).
* A child that crashes while it is being stopped is restarted, unless the parent
  itself was asked to stop.  A `Start` that fails ends the daemon (`failed` in `Recovers`)
  or leaves the child hanging in `Torrent::Stop`, which waits for the handler with the mutex
  that the handler needs (`main = "hung"`).  A pause of the child makes the parent wait for
  its end, deaf to SIGTERM until then (`Deaf`).  The parent does not wait for the child it
  terminates.
* A crash while the configuration is written tears the file, and every later child
  aborts on it at once, since the constructor is outside WorkProc's `try`: `Recovers`
  exempts a torn file.  The uuid survives all other crashes (`UuidStable`), because
  the server hears of it only after both constructors have written.
* `KeptIsSuffix` exempts failed system calls (an open that fails silences the log for
  the life of the process) and two processes that log at once, which is possible as
  the parent does not wait for the child it stops.
* The alert handler and the generators may use the logger while exit() destroys it.  A
  thread that faults calls Controller::Stop and exit() itself, and when that runs beside
  the main thread's, so may the RPC client's threads (`OnlyUnjoinedTouch`).  A log file that
  cannot be opened silences the log (`EveryRecordOnce`).
* `create_components` never ends on a cycle or an unknown name among important
  inputs (`Acyclic`).  An optional input that names a later item is not set, yet
  the item counts as a dependence and is not run.  A list value of one is waited for
  and never set; a longer one raises.
* A variable whose initial value is computed from a data set's placeholder makes
  `global_variables_initializer` raise, or tf.Variable itself; so does, in an order
  nobody chooses, one that is computed from another variable.  An optimizer behind whose
  loss there is no variable raises.  `Clean` asks for documents without these;
  math_model.json is one.
* A batch larger than the training set pushes the index past the end and later
  batches are short or empty (`EpochsExact` asks for a batch no larger).

### Bounds

* `queue`: two consumers and three items, each pushed once.  Order needs
  two items and a third in between; a stolen wake-up needs two consumers.
* `thread`: two tasks.  One can be in the batch while the other is queued or
  deferred; that is every pair of places whose order matters, and
  `WorkingThreadProofs` covers the safety properties for any number.
* `deferred`: delays of 1, 2 and 3 around an idle wait of 2: shorter than it, as long and
  longer.  Two ticks in a millisecond, so that a wait can be cut; two spurious wake-ups
  (`MaxWakeUps`) beside those by the two tasks.
* `client`: `MaxTasks` = 2 server tasks, of all five types or an unknown one, so that a
  stream can break off between them and a task can start a second chain.
* `torrent`: a generated and a downloaded torrent, of the same name or not, or one
  torrent and two generators.  Two levels of folder, since the race needs a level
  that the other thread has not made yet, and any number of them there at the start;
  a torrent file may be left from an earlier run.  A download shares none, one or both
  of them.  Two pieces.  `MaxAlerts` = 2 bounds
  alerts posted and not handled.
* `daemon`: two uuids, one to keep and one to confuse it with; children follow one
  another without a bound.
* `training`: all documents of three items with up to two references of any kind,
  or up to three well-formed ones, and of four items with up to three important ones.
  That has every cycle up to three, unknown names, wrong variables, lists, and chains
  against the order of the file.  Beside them the repository's math_model.json and
  documents with the other component classes, with parameters missing or null, with and
  without a variable behind the loss, and with initial values from zeros, from the data
  set and from nothing.  946 of the documents are `Clean`, 115 of them with a variable that
  has inputs.
  Training sets of none, one and three examples after a validation set of one, four
  batches of two: batches that span epochs, fill the set or exceed it.
* `server`: two daemons, so that one generates and the other downloads, and one fault: a
  restart, or a call given up that the server goes on with.
  The code asks for one torrent only; `MaxTorrents` = 2 leaves room for a server that
  would ask for more.
* `log`: two processes at a time and three in all, three files of a header and one
  record, five records: every file is rolled away at least once.
* `logger`: one thread of each kind (joined, started with the client and never joined,
  detached).  Two of them log twice, so that a record can follow a roll by another
  thread; every record but the first rolls, and any open may fail.  Each of them may fault
  at any time between its records.

### Fairness

Weak fairness of a thread's next step stands for a scheduler that runs every thread
and mutexes that are acquired in the end.  Beyond that:

* `WorkingThread`: strong fairness of firing each deferred task.  A task that is
  scanned again and again is due at one of the scans, as `DefferedTasks` shows.
* `DefferedTasks`: strong fairness of the clock: wake-ups do not stop time, and the
  spurious ones come to an end (`MaxWakeUps`).
* `GRPCClient`: a server that is asked again and again accepts a handshake and delivers a
  list.  That an RPC ends is not assumed: one may hang, and the properties say so.
* `ServerHandler`: none.  Its four properties are about states: calls may fail for ever.
* `Torrent`: the alert handler comes by the mutex of the ids although others take it again
  and again (strong fairness).  Nothing is asked of libtorrent.
* `Daemon`: a worker that was told to end, is past its start and sits in no hanging call
  ends although it runs tasks again and again (strong fairness of `WorkerEnds`, enabled in
  `idle` and `silent`, never in `stuck`); without a folder
  the write throws in the end (`~folder /\ WriteFails`), as it must.  Other faults are
  never fair, and fork is assumed not to fail for ever.
* `MessageQueue`: none for timeouts, so `WaiterReturns` does not rest on them.
* `Training`: weak fairness of the one thread.  `RollingFileAppender`, `Logger`: none.

`training`, `log` and `logger` turn deadlock checking off: the program or the process
ends, and so do the bounded records and starts.

### Fault models

A crash or SIGKILL between any two steps (`Daemon` with `Config`, `RollingFileAppender`);
a failing RPC, one that never ends (`GRPCClient`, `Daemon`), an answer broken off after
any prefix, a call given up that is still served and a daemon that restarts (`GRPCClient`,
`ServerHandler`); a write, an open or a rename that fails (`Config`,
`RollingFileAppender`, `Logger`), a folder that cannot be made (`Daemon`, `Torrent`); a
fault in any thread (`Daemon`, `Logger`) and in a destroyed logger (`Logger`); spurious
wake-ups and timeouts (`MessageQueue`, `WorkingThread`, `DefferedTasks`).

## 4. The proofs

TLAPS checks these for every value of the constants under the named assumptions.

* **MessageQueueProofs** (no assumptions).  `TypeCorrect`.  `WakeupsKept`:
  `NoLostWakeup` is not inductive, since it allows a parked consumer beside an item as
  long as another is awake, which may then leave.  The strengthening is
  `NobodyParkedBesideItems`: a consumer parks only beside an empty deque, and a push
  releases everybody.  `DeliveredOnce`: the items taken followed by the deque form
  one line, which pushes extend, takes leave alone and `Clear` cuts.  `FifoKept`: a
  pushed item's stamp is its place then, and places only grow
  (`StampBelowPlace`).
* **WorkingThreadProofs** (`Nil` is no task).  `TypeCorrect`, including that no
  thread outlives the object.  `HandlerWoken`, from `FlagFollowsWorker` and
  `FlagFollowsStop`, which tie the flag to the places of worker and owner.
  `StopInvCorrect` adds that the batch is empty outside the inner loop, that what
  is owed has run, was cleared or is in line, and that deferred tasks were never in
  line; this is inductive and gives `OwedTasksRun`.  `ImplementsSerialExecutor`:
  batch followed by queue is the abstract line; taking a batch stutters, running a
  task removes the line's head, clearing cuts the line's tail.  `DiesByLateClear`: a queue
  found empty at a `Pop` was the last thing cleared (`PopInv`), as `IsEmpty` said no.

  The second part of the module is about `DefferedTasks` (any delays, an idle wait that is
  not 0).  `FiresOnTime`: `OnTime` speaks of tasks when they have fired, so `TimingInv`
  says what holds of them before.  `Idle`: in the idle wait an entry has all of its time
  left, and only a task from before that wait has grown older.  `Charged`: later, what an
  entry has paid of its delay is its age, but for the time the handler had waited when it
  came and for less than a millisecond in each wait that was cut (`cut` counts them), and
  the handler waits no longer than the shortest entry has left.  `Parts` is any number of
  ticks.  `FiresIs` shows that the due entries of a sorted list are its first ones, so
  that `Handle` is never without a step.
* **GRPCClientProofs** (`ServerTypesAssumption`, `MaxTasksAssumption`).  `OneChain`: every
  poll and handshake is a token, in the line of tasks, deferred, or being run, and a step
  moves it from one place to another.  `PollChains` counts them but is not inductive:
  `ClientInv` adds that before `Start` there is none (`NothingBeforeStart`), that a
  started client runs and its handler is not in its last scan (`StartedRuns`: otherwise a
  token would be dropped by an `IsRun` test) and that the
  server's own polls are among those it created (`JoinedAreCreated`).  A token that waits
  for a handler lost in the start race counts as the chain: it is `TasksFetched` that asks
  for it to move.
* **ServerHandlerProofs** (`Daemons` finite).  `LocksNeverCross`, `ReportsBounded` and
  `NothingIsStranded` follow from one invariant, for any number of daemons and restarts.
  It holds as long as each call at the server has a daemon that waits for it (`NoOrphans`,
  which is what `orphans = 0` means) and ends with the first orphan: after it a torrent may
  really be passed on twice.
  `ShapeInv` says what a call and a report hold at each of their places, and that the only
  torrent is number one.  `AskedOnce`: one task to generate exists at all, since `isFirst`
  is cleared with it.  `PassedOnce`: the daemon that generates never comes to download,
  and passes the torrent on once; a torrent waits in the deque only while nobody has one
  to download, which is why the lock orders do not meet.  `Listed`: what is being
  generated is on the update list.  `Bounded`: tasks are weighed (to generate and to
  report 1, to download 2, for it yields two reports) and without restarts no daemon has
  more than 2; every step moves weight or loses it, and only a daemon without any gains it.
  `Kept`: behind each task to generate stands one to report, and two report as long as a
  torn copy may still end one.  A step that changes the tokens of no daemon is covered by
  the quiet-step lemmas, so each action has to account for its own daemon only.
* **TorrentProofs** (`Ids` finite numbers, generators are not named like the other
  threads, at least one level, piece and alert).  `LinkFirst` adds that a generator past
  its link has set it (`LinksComeFirst`).  `ListLocked`: whoever is between the two
  insertions holds the lock, and what the session knows is listed or about to be
  (`AlertsFind`). `OneWriter`: with one writer per name a file about to be removed is
  there (`WritersAreSafe`).  `FolderInHand`: as long as a level is missing and no mkdir
  was refused, a thread that gave up leaves one that goes on; downloads cannot be in its
  way, for the levels they share were made before any thread ran (`FolderRace`).
  `GeneratorIsDone`: the one generator of a GENERATED torrent has nothing left to set but
  an error (`GeneratedStays`, an action property).  All rest on `Places`: generators and
  downloads never work on each other's torrents.
* **LoggerProofs** (the threads' kinds do not overlap; a level and a size).  `LifeInv`: no
  thread runs before the logger is built (`BuiltFirst`), whoever called Stop does nothing
  else (`Stoppers`), and if one thread alone called it, the workers are done when exit()
  begins (`JoinedFirst`), which gives `UnjoinedTouchOnly`.  `LockInv`: the mutex's holder
  alone is between close and write, and the file is open whenever the mutex is free, but
  for the first write and after a failed open, which is for good (`FileReady`).
  `RecordInv` then gives `RecordsOnce`: no record is in the file before it is due, so that
  the next one comes after all of its thread.

  The second part is about `RollingFileAppender` (finitely many processes).
  `LogTypeCorrect`, overlapping processes included: `FreshFile` counts names and processes
  to find an unheld inode, and no offset is past the end of its file, since files shrink
  only where nobody holds them.  `KeptIsLogSuffix`: the property is about the files alone
  and not inductive, so `LogInv` adds who may touch them.  While nobody overlaps, all
  processes but one are `Aloof` (no file, not in a roll), and the one that is `Busy` has
  the file of the first name, at its end, with the last record there when it starts a
  roll, and an empty name before the one it moves in a roll.  `NamesOnce`: no file has two
  names.  What a step does to the texts of the files is one of three lemmas: the oldest
  goes (`Fewer`), one moves into an empty place (`Shifted`), the newest grows
  (`Extended`).  A death leaves any state of a roll behind, and each satisfies the
  property.
* **DaemonProofs** (`UUIDsAssumption`: there is a uuid and the empty string is none).
  None of the three properties is inductive.  `PointersKept` needs
  `ObjectsInPlace`: as long as no other thread has faulted, torrent and rpcClient
  are there from the start of the worker until main is in `Stop`, and main does not
  pass `join` before the worker has ended.  `ConfigSaved` needs `TreeOnDisk`: keys to write
  are kept until they are written, and `DaemonKeys` is empty only for a tree that was
  read from a file (`KeysOfTree`).  `UuidKept` needs `UuidInPlace`: a known uuid is in
  every file that is not torn and in every process that has read one, and is not
  among its keys to write.  Each part has a lemma with one case for each kind of step.
* **GraphBuilderProofs** (documents have the shape `IsDocument` asks for; batches are not
  empty).  About `Training`'s specification, and so about the program with its batches.
  `TrainingImplementsBuilder`: batches stutter, except for the last one of the training
  run, which is `RunTrain`. `IndexCorrect`, with the shape of the list: after a removal
  the list is one shorter and the index is moved against the new length.  `OrderCorrect`:
  `DependencesFirst` is inductive given that `Create` takes only an item that is `Ready`,
  and its inputs are then set from what exists.

  `CleanRunsThrough` and `TrainingIsComplete` follow from `GraphInv`: the items are those
  created and those left, each once (`Parted`), a set input names a component created
  earlier (`InputsBefore`), the one data set is known (`DatasetKnown`), and `run_train`
  was given what it would be given again (`RanRoots`).  That no well-formed item raises is
  shown for `check_dependences`, `init`, the initializer and the runs (`CheckRaises`,
  `CreateRaises`, `InitializerRaises`, `RunRaises`): what is computed is among what the
  document refers to, and what an important input names has been set when an optimizer
  looks for variables along it.  For completeness: from a component that is not handed to
  the session one that uses it was created later, so climbing ends at a root, and the
  session comes back down along the same inputs within as many steps as there are items,
  or stops at a variable, from which the initializer goes on.

  `EpochsServeOnce` follows from `TrainingInv`: images and labels stay paired and each
  split keeps its own examples, each once (`DataInv`); the phase fits the batches fed
  (`FedInv`); and `Trained * BatchSize = epochs_completed * n + index_in_epoch`, with
  what was served of this epoch being what the data set begins with (`EpochInv`).
  A batch within an epoch takes the next examples; one that spans two takes the rest of the
  old order and the beginning of the new one, and a shuffle comes only before anything
  of its epoch is served.

Induction over data is by least elements: the library's induction theorems cannot be
instantiated, but that a non-empty set of numbers has a least one can be
(`Smallest`, from the well-foundedness of `<`), and `Induction` and `Recursion` follow
for sets and functions.

Only model-checked: liveness and fairness, which are out of the provers' reach:
`WaiterReturns`, `QueuedTaskRuns`, `DeferredTaskFires`, `DestroyTerminates`,
`EveryTaskFires`, `TasksFetched`, `DestroyReturns`, `GenerationEnds`, `DownloadEnds`,
`Recovers`, `StopHonoured`, `BuildEnds`.  Of the safety properties of the passing runs all
but `GeneratedIsPassedOn` have a theorem.

## 5. Not modelled

* libtorrent, gRPC and TensorFlow, whose answers are external choices (what TensorFlow
  refuses is in `fits`, `Components` and the three ways to raise named above; that it
  accepts the rest is assumed).
* `Torrent::Stop` beyond its deadlock, dht_bootstrap, resume data and `State`: nothing
  reads what they set, or nothing calls them.  A second `Run` of a WorkingThread.
* `ClientImpl` of grpc_server.h, the `File` class and `GetFilesInFolder` of filesystem.*:
  nothing uses them.  The path helpers are string functions.  `GetString`'s writing of a
  default takes the configuration's mutex twice, but no call reaches it.
* The decoding of MNIST files, multithreaded_data_provider.py and generate_dataset.py:
  I/O, and files nothing imports.
* plog's formatters, the text of records, other appenders and Windows parts; syslog and the
  contents of the pid file.  A log of INT_MAX files makes a roll rename 2^31 - 2
  names; the model shows a roll's correctness and not its cost.
* uuid and noncopyable (a library call, a class without state), the stand-alone JSON
  tools and samples, build files and scripts.

## 6. Plan

Done: all components with state of their own are modelled, and composed where they
interact; all safety properties of the runs but one have theorems.  What would come next:

1. A theorem for `GeneratedIsPassedOn`, from `PassedOnce` and `Kept` with the place of the
   torrent at every step of `DownloadTorrent`; and the server's properties beside orphaned
   calls, once it hands a torrent out under one lock.
2. `KeptIsLogSuffix` without its exemption for overlapping processes, once the parent
   waits for the child it stops, and `OnTime` without the credit and the cuts, once a wait
   is charged uncut and only to the tasks that were there when it began.
3. The refinement from `WorkingThread` to `GRPCClient`'s line of tasks and bag of deferred
   ones as a theorem about the composed modules; `RunsAsSerialExecutor` now carries it.
4. The liveness properties, by hand from the invariants proved here, should a prover for
   them be at hand.
