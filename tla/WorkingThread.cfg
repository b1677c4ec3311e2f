\* Two tasks, submitted in any of the three ways at any time, and every call of
\* the owner, under the fairness of the scheduler.
CONSTANTS
    Tasks = {t1, t2}
    Nil = Nil
SPECIFICATION Spec
INVARIANTS StopRunsQueuedTasks StopWakesHandler TerminatesByLateClear
PROPERTIES QueuedTaskRuns DeferredTaskFires DestroyTerminates RunsAsSerialExecutor
