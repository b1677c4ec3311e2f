\* Two tasks; a delay shorter than the idle wait, as long, and longer.
CONSTANTS
    Tasks = {t1, t2}
    Delays = {1, 2, 3}
    Update = 2
    Parts = 2
    MaxWakeUps = 2
SPECIFICATION Spec
INVARIANT OnTime
PROPERTY EveryTaskFires
