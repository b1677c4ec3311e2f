\* One deferred task and the race between the two new threads.
CONSTANTS
    Tasks = {t1}
    Nil = Nil
SPECIFICATION Spec
PROPERTY DeferredTaskEnqueued
