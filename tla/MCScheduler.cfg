SPECIFICATION Spec
CONSTANTS
    t1 = t1
    t2 = t2
    a = a
    b = b
    c = c
    Thread = {t1, t2}
    Task = {a, b, c}
    None = None
    MaxTime = 3
    Settings <- MCSettings
INVARIANTS
    NoWakeupLost
    Drained
PROPERTIES
    OneThreadIsNotEarly
    EveryTaskRuns
    StopEnds
CHECK_DEADLOCK FALSE
