SPECIFICATION FairSpec
CONSTANTS
    Emitters = {etw}
    Main = Main
    Subscribers = {storage}
    Storage = storage
    Events = {e1, e2}
    Free = Free
    Capacity = 1
    JournalBatch = 2
    StorageBatch = 2
    MaxSessions = 2
CHECK_DEADLOCK FALSE
PROPERTIES StorageFlushes JournalCatchesUp
