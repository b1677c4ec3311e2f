--------------------------- MODULE WorkingThread ----------------------------
(***************************************************************************)
(* common::WorkingThread (Daemon/common/working_thread.h, .cpp): a worker  *)
(* thread that runs the tasks of a MessageQueue, a handler thread that     *)
(* moves deferred tasks to that queue when their time has come, and the    *)
(* owner that creates, stops and destroys both.                            *)
(*                                                                         *)
(* A step is what a thread does between two points where another thread    *)
(* can see a difference: one atomic access to isRunning, one critical      *)
(* section of the task queue's mutex, one critical section of              *)
(* defferedTasksMtx.  The handler keeps defferedTasksMtx from its loop     *)
(* test to its wait and from its wake-up to its next loop test.            *)
(*                                                                         *)
(* Time is abstracted here: a handler that scans its list fires any of     *)
(* the tasks in it (DefferedTasks models when each is due).  The worker's  *)
(* timed wait for the queue is one step, enabled when the queue is not     *)
(* empty (MessageQueue shows no wake-up is lost).                          *)
(*                                                                         *)
(* The owner calls Run once, as the class comment asks.                    *)
(***************************************************************************)
EXTENDS Integers, Sequences, FiniteSets

CONSTANTS
    Tasks,            \* tasks; each is submitted at most once
    Nil               \* the empty shared_ptr that Stop pushes

ASSUME NilAssumption == Nil \notin Tasks

VARIABLES
    isRunning,          \* the atomic flag
    taskQueue,          \* the MessageQueue
    deq,                \* the worker's local batch
    workPc,             \* where the worker thread is
    defPc,              \* where the handler thread is
    defferedTasksList,  \* the deferred tasks (a set: their times are abstracted)
    isFirstWait,        \* the handler's local flag
    ownerPc,            \* where the owner is
    destroying,         \* whether the Stop in progress is the destructor's
    executed,           \* history: tasks run, in order
    cleared,            \* history: tasks ClearQueueTasks removed
    cancelled,          \* history: deferred tasks Stop removed
    owed,               \* history: tasks queued when Stop was first called
    clearedLast,        \* history: nothing was pushed since ClearQueueTasks
    terminated          \* std::terminate was called

workVars  == <<deq, workPc, executed>>
defVars   == <<defPc, isFirstWait>>
ownerVars == <<ownerPc, destroying, owed>>
vars == <<isRunning, taskQueue, workVars, defVars, defferedTasksList, ownerVars,
          cleared, cancelled, clearedLast, terminated>>

Entries == Tasks \cup {Nil}

----------------------------------------------------------------------------
SeqRange(s) == {s[i] : i \in 1..Len(s)}

Queued == SeqRange(deq \o taskQueue) \ {Nil}
Submitted == Queued \cup SeqRange(executed) \cup defferedTasksList
                    \cup cleared \cup cancelled

\* The handler thread holds defferedTasksMtx.
HandlerLocks == defPc \in {"check", "towait", "scan"}

\* Stop has been called, now or before.
StopCalled == ownerPc \notin {"created", "spawned", "running"}

\* The last Stop called has returned.
StopReturned == ownerPc \in {"stopped", "joinWork", "joinDeffered", "destroyed"}

Init ==
    /\ isRunning = FALSE
    /\ taskQueue = <<>> /\ deq = <<>>
    /\ workPc = "none" /\ defPc = "none"
    /\ defferedTasksList = {}
    /\ isFirstWait = TRUE
    /\ ownerPc = "created"
    /\ destroying = FALSE
    /\ executed = <<>>
    /\ cleared = {} /\ cancelled = {} /\ owed = {}
    /\ clearedLast = FALSE
    /\ terminated = FALSE

----------------------------------------------------------------------------
(* Any thread that submits: callers, and tasks while they run. *)

MaySubmit(t) == t \in Tasks \ Submitted /\ ownerPc # "destroyed"

EnqueueTask(t) ==
    /\ MaySubmit(t)
    /\ taskQueue' = Append(taskQueue, t)
    /\ clearedLast' = FALSE
    /\ UNCHANGED <<isRunning, workVars, defVars, defferedTasksList, ownerVars,
                   cleared, cancelled, terminated>>

EnqueueTaskFront(t) ==
    /\ MaySubmit(t)
    /\ taskQueue' = <<t>> \o taskQueue
    /\ clearedLast' = FALSE
    /\ UNCHANGED <<isRunning, workVars, defVars, defferedTasksList, ownerVars,
                   cleared, cancelled, terminated>>

\* notify_one: the handler is the only thread that waits on defferedTasksCnd.
EnqueueTaskAfterTimeOut(t) ==
    /\ MaySubmit(t)
    /\ ~HandlerLocks
    /\ defferedTasksList' = defferedTasksList \cup {t}
    /\ defPc' = IF defPc = "waiting" THEN "woken" ELSE defPc
    /\ UNCHANGED <<isRunning, taskQueue, workVars, isFirstWait, ownerVars,
                   cleared, cancelled, clearedLast, terminated>>

----------------------------------------------------------------------------
(* The owner. *)

\* What a step that only moves the owner on leaves alone.
ownerRest == <<isRunning, workVars, isFirstWait, destroying, owed, cleared,
               terminated>>

\* Run: IsRunning() is false, the first std::thread is constructed ...
RunWorker ==
    /\ ownerPc = "created" /\ ~isRunning
    /\ workPc' = "starting"
    /\ ownerPc' = "spawned"
    /\ UNCHANGED <<isRunning, taskQueue, deq, executed, defVars, defferedTasksList,
                   destroying, owed, cleared, cancelled, clearedLast, terminated>>

\* ... and then the second.
RunHandler ==
    /\ ownerPc = "spawned"
    /\ defPc' = "starting"
    /\ ownerPc' = "running"
    /\ UNCHANGED <<taskQueue, defferedTasksList, cancelled, clearedLast, ownerRest>>

ClearQueueTasks ==
    /\ ownerPc \in {"running", "stopped"}
    /\ taskQueue' = <<>>
    /\ cleared' = cleared \cup (SeqRange(taskQueue) \ {Nil})
    /\ clearedLast' = TRUE
    /\ UNCHANGED <<isRunning, workVars, defVars, defferedTasksList, ownerVars,
                   cancelled, terminated>>

\* Stop: isRunning.store(false).
StopStore(next, dtor) ==
    /\ isRunning' = FALSE
    /\ ownerPc' = next
    /\ destroying' = dtor
    /\ owed' = IF StopCalled THEN owed ELSE Queued
    /\ UNCHANGED <<taskQueue, workVars, defVars, defferedTasksList, cleared,
                   cancelled, clearedLast, terminated>>

Stop == ownerPc = "running" /\ StopStore("stopPush", FALSE)

\* ~WorkingThread, with or without an earlier Stop.
Destroy == ownerPc \in {"running", "stopped"} /\ StopStore("stopPush", TRUE)

\* A Stop that does not push the empty task.
StopPushNothing ==
    /\ ownerPc = "stopPush"
    /\ ownerPc' = "stopNotify"
    /\ UNCHANGED <<taskQueue, defPc, defferedTasksList, cancelled, clearedLast, ownerRest>>

\* Stop: taskQueue.Push of an empty task, to wake the worker up.
StopPush ==
    /\ ownerPc = "stopPush"
    /\ taskQueue' = Append(taskQueue, Nil)
    /\ clearedLast' = FALSE
    /\ ownerPc' = "stopNotify"
    /\ UNCHANGED <<defPc, defferedTasksList, cancelled, ownerRest>>

\* A Stop that clears the deferred tasks and forgets notify_all.
StopNotifyNobody ==
    /\ ownerPc = "stopNotify"
    /\ ~HandlerLocks
    /\ cancelled' = cancelled \cup defferedTasksList
    /\ defferedTasksList' = {}
    /\ ownerPc' = IF destroying THEN "joinWork" ELSE "stopped"
    /\ UNCHANGED <<taskQueue, defPc, clearedLast, ownerRest>>

\* Stop: the handler thread is joinable (Run was called): clear its list, wake it.
StopNotify ==
    /\ ownerPc = "stopNotify"
    /\ ~HandlerLocks
    /\ cancelled' = cancelled \cup defferedTasksList
    /\ defferedTasksList' = {}
    /\ defPc' = IF defPc = "waiting" THEN "woken" ELSE defPc
    /\ ownerPc' = IF destroying THEN "joinWork" ELSE "stopped"
    /\ UNCHANGED <<taskQueue, clearedLast, ownerRest>>

JoinWork ==
    /\ ownerPc = "joinWork" /\ workPc = "done"
    /\ ownerPc' = "joinDeffered"
    /\ UNCHANGED <<taskQueue, defPc, defferedTasksList, cancelled, clearedLast, ownerRest>>

JoinDeffered ==
    /\ ownerPc = "joinDeffered" /\ defPc = "done"
    /\ ownerPc' = "destroyed"
    /\ UNCHANGED <<taskQueue, defPc, defferedTasksList, cancelled, clearedLast, ownerRest>>

----------------------------------------------------------------------------
(* The worker thread: Work(). *)

\* What no step of the worker changes.
workOthers == <<defVars, defferedTasksList, ownerVars, cleared, cancelled,
                clearedLast>>

WorkStart ==
    /\ workPc = "starting"
    /\ isRunning' = TRUE
    /\ workPc' = "loop"
    /\ UNCHANGED <<taskQueue, deq, executed, terminated, workOthers>>

\* A worker that ends as soon as it sees the flag, without draining the queue.
WorkLoopNoDrain ==
    /\ workPc = "loop"
    /\ workPc' = IF isRunning THEN "take" ELSE "closing"
    /\ UNCHANGED <<isRunning, taskQueue, deq, executed, terminated, workOthers>>

WorkLoop ==
    /\ workPc = "loop"
    /\ workPc' = IF isRunning THEN "take" ELSE "drain"
    /\ UNCHANGED <<isRunning, taskQueue, deq, executed, terminated, workOthers>>

\* WaitAndReturnAll finds nothing for another 100 ms.
WorkPoll ==
    /\ workPc = "take" /\ taskQueue = <<>>
    /\ UNCHANGED vars

\* A WaitAndReturnAll that copies the queue instead of swapping it out.
WorkCopy ==
    /\ workPc = "take" /\ taskQueue # <<>>
    /\ deq' = taskQueue
    /\ workPc' = "batch"
    /\ UNCHANGED <<isRunning, taskQueue, executed, terminated, workOthers>>

\* WaitAndReturnAll swaps the whole queue into deq.
WorkTake ==
    /\ workPc = "take" /\ taskQueue # <<>>
    /\ deq' = taskQueue
    /\ taskQueue' = <<>>
    /\ workPc' = "batch"
    /\ UNCHANGED <<isRunning, executed, terminated, workOthers>>

\* current_task->Run(), unless the entry is empty.
RunEntry(e) == executed' = IF e = Nil THEN executed ELSE Append(executed, e)

WorkBatch ==
    /\ workPc = "batch" /\ deq # <<>>
    /\ RunEntry(Head(deq))
    /\ deq' = Tail(deq)
    /\ UNCHANGED <<isRunning, taskQueue, workPc, terminated, workOthers>>

WorkBatchEnd ==
    /\ workPc = "batch" /\ deq = <<>>
    /\ workPc' = "loop"
    /\ UNCHANGED <<isRunning, taskQueue, deq, executed, terminated, workOthers>>

\* A drain loop that pops first and asks afterwards.
WorkDrainUnchecked ==
    /\ workPc = "drain"
    /\ workPc' = "pop"
    /\ UNCHANGED <<isRunning, taskQueue, deq, executed, terminated, workOthers>>

\* The last loop: IsEmpty() ...
WorkDrain ==
    /\ workPc = "drain"
    /\ workPc' = IF taskQueue = <<>> THEN "closing" ELSE "pop"
    /\ UNCHANGED <<isRunning, taskQueue, deq, executed, terminated, workOthers>>

\* ... then Pop, under a lock of its own.
WorkPop ==
    /\ workPc = "pop" /\ taskQueue # <<>>
    /\ RunEntry(Head(taskQueue))
    /\ taskQueue' = Tail(taskQueue)
    /\ workPc' = "drain"
    /\ UNCHANGED <<isRunning, deq, terminated, workOthers>>

\* Pop throws; nothing catches it in the thread function.
WorkPopThrows ==
    /\ workPc = "pop" /\ taskQueue = <<>>
    /\ terminated' = TRUE
    /\ UNCHANGED <<isRunning, taskQueue, workVars, workOthers>>

WorkClose ==
    /\ workPc = "closing"
    /\ isRunning' = FALSE
    /\ workPc' = "done"
    /\ UNCHANGED <<taskQueue, deq, executed, terminated, workOthers>>

----------------------------------------------------------------------------
(* The handler thread: DefferedTasksHandler(). *)

\* What no step of the handler changes.
defOthers == <<isRunning, workVars, ownerVars, cleared, cancelled, terminated>>

DefStart ==
    /\ defPc = "starting"
    /\ defPc' = "check"
    /\ UNCHANGED <<taskQueue, isFirstWait, defferedTasksList, clearedLast, defOthers>>

\* while (IsRunning()); leaving the function unlocks the mutex.
DefCheck ==
    /\ defPc = "check"
    /\ defPc' = IF isRunning THEN "towait" ELSE "done"
    /\ UNCHANGED <<taskQueue, isFirstWait, defferedTasksList, clearedLast, defOthers>>

\* wait_for releases the mutex.
DefWait ==
    /\ defPc = "towait"
    /\ defPc' = "waiting"
    /\ UNCHANGED <<taskQueue, isFirstWait, defferedTasksList, clearedLast, defOthers>>

\* The timeout expires, or the wait ends spuriously.
DefTimeout ==
    /\ defPc = "waiting"
    /\ defPc' = "woken"
    /\ UNCHANGED <<taskQueue, isFirstWait, defferedTasksList, clearedLast, defOthers>>

\* The mutex is locked again; an empty list means another wait.
DefWake ==
    /\ defPc = "woken"
    /\ defPc' = IF defferedTasksList = {} THEN "check" ELSE "scan"
    /\ UNCHANGED <<taskQueue, isFirstWait, defferedTasksList, clearedLast, defOthers>>

\* A first scan that leaves isFirstWait set.
DefFirstScanAgain ==
    /\ defPc = "scan" /\ isFirstWait
    /\ defPc' = "check"
    /\ UNCHANGED <<taskQueue, isFirstWait, defferedTasksList, clearedLast, defOthers>>

\* The first scan after an idle period charges no time to any task.
DefFirstScan ==
    /\ defPc = "scan" /\ isFirstWait
    /\ isFirstWait' = FALSE
    /\ defPc' = "check"
    /\ UNCHANGED <<taskQueue, defferedTasksList, clearedLast, defOthers>>

\* A task whose time has come goes to the task queue.
DefFire(t) ==
    /\ defPc = "scan" /\ ~isFirstWait
    /\ t \in defferedTasksList
    /\ taskQueue' = Append(taskQueue, t)
    /\ defferedTasksList' = defferedTasksList \ {t}
    /\ clearedLast' = FALSE
    /\ UNCHANGED <<defVars, defOthers>>

DefScanEnd ==
    /\ defPc = "scan" /\ ~isFirstWait
    /\ isFirstWait' = (defferedTasksList = {})
    /\ defPc' = "check"
    /\ UNCHANGED <<taskQueue, defferedTasksList, clearedLast, defOthers>>

----------------------------------------------------------------------------
Submitters ==
    \E t \in Tasks :
        EnqueueTask(t) \/ EnqueueTaskFront(t) \/ EnqueueTaskAfterTimeOut(t)

OwnerCalls == RunWorker \/ ClearQueueTasks \/ Stop \/ Destroy

\* Steps of a call the owner is already in.
OwnerStep == RunHandler \/ StopPush \/ StopNotify \/ JoinWork \/ JoinDeffered

WorkStep ==
    \/ WorkStart \/ WorkLoop \/ WorkPoll \/ WorkTake \/ WorkBatch \/ WorkBatchEnd
    \/ WorkDrain \/ WorkPop \/ WorkPopThrows \/ WorkClose

DefStep ==
    \/ DefStart \/ DefCheck \/ DefWait \/ DefTimeout \/ DefWake
    \/ DefFirstScan \/ (\E t \in Tasks : DefFire(t)) \/ DefScanEnd

Finished == (ownerPc = "destroyed" \/ terminated) /\ UNCHANGED vars

Next ==
    \/ ~terminated /\ (Submitters \/ OwnerCalls \/ OwnerStep \/ WorkStep \/ DefStep)
    \/ Finished

\* The scheduler runs every thread that can run.  Time passes, so a deferred
\* task that is scanned again and again is due at one of the scans.
Fairness ==
    /\ WF_vars(~terminated /\ WorkStep)
    /\ WF_vars(~terminated /\ DefStep)
    /\ WF_vars(~terminated /\ OwnerStep)
    /\ \A t \in Tasks : SF_vars(~terminated /\ DefFire(t))

Spec == Init /\ [][Next]_vars /\ Fairness

----------------------------------------------------------------------------
(* Safety *)

FlagsOK ==
    /\ isRunning \in BOOLEAN /\ isFirstWait \in BOOLEAN /\ destroying \in BOOLEAN
    /\ clearedLast \in BOOLEAN /\ terminated \in BOOLEAN

TypeOK ==
    /\ FlagsOK
    /\ taskQueue \in Seq(Entries) /\ deq \in Seq(Entries)
    /\ executed \in Seq(Tasks)
    /\ workPc \in {"none", "starting", "loop", "take", "batch", "drain", "pop",
                   "closing", "done"}
    /\ defPc \in {"none", "starting", "check", "towait", "waiting", "woken",
                  "scan", "done"}
    /\ ownerPc \in {"created", "spawned", "running", "stopPush", "stopNotify",
                    "stopped", "joinWork", "joinDeffered", "destroyed"}
    /\ defferedTasksList \in SUBSET Tasks /\ owed \in SUBSET Tasks
    /\ cleared \in SUBSET Tasks /\ cancelled \in SUBSET Tasks
    /\ ownerPc \in {"joinDeffered", "destroyed"} => workPc = "done"
    /\ ownerPc = "destroyed" => defPc = "done"

\* Stop lets the worker run everything that was queued when it was called: when
\* the thread has ended, each of those tasks ran or ClearQueueTasks removed it.
StopRunsQueuedTasks ==
    workPc = "done" => owed \subseteq SeqRange(executed) \cup cleared

\* Once Stop has returned, the handler is not asleep in its timed wait, which can
\* be as long as the longest deferred task: the flag is cleared before the handler
\* is notified under its mutex, so the destructor's join never waits for a timer.
StopWakesHandler ==
    (StopReturned /\ ~isRunning) => defPc \notin {"towait", "waiting"}

\* The worker pops an empty queue, and dies of the exception, only after Stop, and
\* only when ClearQueueTasks was the last to touch the queue from outside: nothing
\* has been submitted since, Stop's own empty task included.  IsEmpty and Pop lock
\* separately, and nobody else takes from the queue.
TerminatesByLateClear == terminated => (StopCalled /\ clearedLast)

\* The inductive invariant behind StopWakesHandler and StopRunsQueuedTasks.

\* Only the worker sets the flag, and the handler waits only after that.
FlagFollowsWorker ==
    /\ workPc \in {"none", "starting"} =>
          (~isRunning /\ defPc \notin {"towait", "waiting", "woken", "scan"})
    /\ ownerPc = "created" => workPc = "none"

\* The flag is down while the worker drains and ends, and only Stop lowers it.
FlagFollowsStop ==
    /\ workPc \in {"drain", "pop", "closing", "done"} => (~isRunning /\ StopCalled)
    /\ workPc \in {"loop", "take", "batch"} /\ ~StopCalled => isRunning

\* The batch is empty outside the inner loop.
BatchOnlyInLoop == workPc # "batch" => deq = <<>>

\* What is owed has run, was cleared or is still in line; near the end of the
\* thread, nothing owed is in line.
OwedAccounted ==
    /\ owed \subseteq SeqRange(executed) \cup cleared \cup Queued
    /\ workPc \in {"closing", "done"} => owed \subseteq SeqRange(executed) \cup cleared

\* A deferred task has not been in line yet.
DeferredApart ==
    defferedTasksList \cap (Queued \cup SeqRange(executed) \cup cleared) = {}

\* The flag, the threads and what Stop owes its callers move together: no order of
\* start, stop, drain, clear and firing separates them.
StopInv ==
    /\ FlagFollowsWorker /\ FlagFollowsStop /\ BatchOnlyInLoop
    /\ OwedAccounted /\ DeferredApart

(* Liveness *)

\* A task that is in line while the worker's loop is alive runs or is cleared,
\* also when Stop comes first.
QueuedTaskRuns ==
    \A t \in Tasks :
        (t \in Queued /\ workPc \in {"loop", "take", "batch"}) ~>
            (t \in SeqRange(executed) \cup cleared)

\* Once the handler is past its first loop test, a deferred task is fired unless
\* Stop comes first.
DeferredTaskFires ==
    \A t \in Tasks :
        (t \in defferedTasksList /\ defPc \in {"towait", "waiting", "woken", "scan"})
            ~> (t \notin defferedTasksList \/ StopCalled)

\* The destructor returns if the worker had set isRunning before the destructor
\* cleared it and does not die of a late ClearQueueTasks.
DestroyTerminates ==
    (destroying /\ ~isRunning /\ workPc \notin {"none", "starting"})
        ~> (ownerPc = "destroyed" \/ terminated)

\* "add task into the main task queue after some time": after Run, every deferred
\* task is fired unless Stop comes first.
DeferredTaskEnqueued ==
    \A t \in Tasks :
        (t \in defferedTasksList /\ ownerPc = "running")
            ~> (t \notin defferedTasksList \/ StopCalled)

----------------------------------------------------------------------------
\* The promise to the callers: the worker's batch followed by the queue is the
\* line of pending tasks.
Executor == INSTANCE SerialExecutor WITH
    pending  <- deq \o taskQueue,
    accepted <- Queued \cup SeqRange(executed) \cup cleared

\* Batches, front insertions, deferred firings, clears and the drain after Stop
\* all look like one line run in order from its front.
RunsAsSerialExecutor == Executor!Spec
=============================================================================
