SPECIFICATION Spec
CONSTANTS
    f1 = f1
    f2 = f2
    d1 = d1
    drop = drop
    tool = tool
    p1 = p1
    NoPid = NoPid
    None = None
    Files = {f1, f2}
    Directories = {d1}
    Names = {drop, tool}
    Traits <- MCTraits
    Pids = {p1}
    Templates <- MCTemplates
    TicksPerSecond = 3
    Pauses = {91}
    MaxEvents = 4
    MaxCapacity = 2
    MaxNodes = 4
    MaxChains = 2
    MassThreshold = 3
    Volume <- MCVolume
    MinBuffer = 2
    Overlap = 4
    Capacity = 12
    OutputSize = 10
    Layouts <- MCLayouts
    RecordLengths = {2, 3}
    MaxRecords = 4
    MaxGaps = 2
    MaxPolls = 3
    Disks <- MCDisks
    Logs <- MCLogs
    RecordTemplates <- MCRecordTemplates
    RecordPauses = {1, 3}
    Rewrites <- MCRewrites
    MaxDisturbed = 1
    MaxUsnRecords = 2
    LogNow = 5
    Threshold <- MCThreshold
    NoFilter = NoFilter
    word = word
    pwsh = pwsh
    lib = lib
    site = site
    FlowSamples <- MCFlow
    MaxFlow = 3
    ViewCapacity = 1
    PipelineCapacity = 2
    MaxInvestigations = 2
    MaxOpened = 1
    MaxLiveNodes = 4
    MaxLiveEdges = 4
    GraphSamples <- MCGraphSamples
    MaxIngested = 6
    CorrSamples <- MCCorrSamples
    CorrTraits <- MCCorrTraits
    Stem <- MCStem
    CorrPauses = {50, 310}
    MaxCorr = 4
    MaxCorrTime = 310
    FanOut = 2
    ChainRoots = 3
    Beacons = 1
    RouterSamples <- MCRouterSamples
    Listeners <- MCListeners
    MaxRouted = 3
    RouterCapacity = 1
    WorkerBatch = 2
    TracePids = {1, 2}
    TraceImages = {1}
    MaxTrace = 3
    Unnamed = Unnamed
    MonitoredPids = {1, 2}
    FindingKinds = {"injection"}
    MaxTicks = 2
    MaxSpawned = 1
    MaxMonitors = 2
    WatchedPaths = {1, 2}
    MaxStarts = 2
    MaxChanges = 4
    MaxRecent = 2
INVARIANTS QueriesAgree ChainsAreReal DetectorsAgree MapKnowsTheNodes SubgraphIsNear NoRecordLost MonitorSkipsNothing GhostsAreWhatIsMissing AnomaliesAreOrphans ViewsDifferByDrops TimelineIsComplete DetailsAreConsistent TraversalFindsNeighbours ChainHoldsTheRest StreamExact LoadsAreVerified KnownPidsReplay RecentHasNoHoles
CHECK_DEADLOCK FALSE
CONSTRAINT Scenario
