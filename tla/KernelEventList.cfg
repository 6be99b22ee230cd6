SPECIFICATION FairSpec
CONSTANTS
    Sources = {cpu1, cpu2}
    Pollers = {poller1, poller2}
    Events = {e1, e2, e3, e4}
    NoEvent = NoEvent
    MaxEvents = 2
    BatchSize = 2
INVARIANTS TypeOK ListDiscipline OneHolder EachPollerKeepsOrder
PROPERTY ListIsEmptied
CHECK_DEADLOCK FALSE
