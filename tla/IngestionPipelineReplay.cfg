SPECIFICATION Spec
CONSTANTS
    p1 = p1
    p2 = p2
    alert1 = alert1
    alert2 = alert2
    network1 = network1
    network2 = network2
    Producers = {p1, p2}
    Main = Main
    Timer = Timer
    Heartbeat = Heartbeat
    NoEvent = NoEvent
    Events = {alert1, alert2}
    Envelope <- MCEnvelope
    Capacity <- MCCapacity
    RateLimit <- MCRateLimit
    MaxBatch = 2
    MaxBeats = 0
    MaxFailures = 2
    MaxSessions = 3
INVARIANT UnprocessedIsReplayed
CHECK_DEADLOCK FALSE
