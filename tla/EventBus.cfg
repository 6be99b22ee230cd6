SPECIFICATION Spec
CONSTANTS
    Emitters = {etw, kernel}
    Main = Main
    Subscribers = {storage, bridge}
    Storage = storage
    Events = {e1, e2}
    Free = Free
    Capacity = 1
    JournalBatch = 2
    StorageBatch = 2
    MaxSessions = 2
INVARIANTS TypeOK OneOrder JournaledOnce WatermarkCovers StorageExact
CHECK_DEADLOCK FALSE
SYMMETRY Symmetry
