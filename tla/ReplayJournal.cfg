SPECIFICATION Spec
CONSTANTS
    Threads = {t1, t2}
    Events = {e1, e2, e3}
    CheckpointInterval = 2
    NoEvent = NoEvent
    CHKP = CHKP
    TORN = TORN
    MaxCrashes = 2
    MaxFaults = 1
    MaxCheckpoints = 1
INVARIANTS TypeOK AckedIsRecoverable CounterNeverAhead
PROPERTY ImplementsLog
CHECK_DEADLOCK FALSE
