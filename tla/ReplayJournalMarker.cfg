SPECIFICATION Spec
CONSTANTS
    Threads = {t1, t2}
    Events = {e1, e2, e3}
    CheckpointInterval = 2
    NoEvent = NoEvent
    CHKP = CHKP
    TORN = TORN
    MaxCrashes = 1
    MaxFaults = 0
    MaxCheckpoints = 0
INVARIANT AckedIsReadable
CHECK_DEADLOCK FALSE
