\* Every component by itself, one to a behaviour.
SPECIFICATION ServicesSpec
CONSTANTS
    Requests = {1, 2, 3}
    Families <- MCFamilies
    HandlerSetups <- MCHandlerSetups
    Vectors <- MCVectors
    Methods = {"GET", "Get", "foo"}
    ExtraMethods = {"FOO"}
    Lower <- MCLower
    StatusCodes = {103, 200, 404, 600}
    WriterOffers <- MCWriterOffers
    MaxBytes = 2
    Hooks = {"DNSDone", "ConnectDone"}
    Calls = {1, 2}
    Buffers = {1, 2, 3, 4}
    RemoteSetups <- MCRemoteSetups
    PushCollectors <- MCPushCollectors
    PushGatherers <- MCPushGatherers
    GroupLabels = {"inst", "", "zone"}
    ValidLabels = {"inst", "zone"}
    GroupValues = {"", "x/y"}
    WithSlash = {"x/y"}
    MaxPushCalls = 4
    Samples <- MCSamples
    ValidRunes = {"a", "l", "m", "p", "_"}
    BridgeSetups <- MCBridgeSetups
    MaxTicks = 2
    Endpoints = {"Alerts", "CleanTombstones", "Query", "LabelValues", "FormatQuery", "Metadata"}
    ParamSets = {{"query", "limit", "start"}}
    ResponseCodes = {200, 204, 302, 400, 403, 405, 422, 501, 503}
    Descs <- MCDescs
    Jobs <- MCJobs
    Makers = {1, 2}
    LabelOrder <- MCLabelOrder
    Dollar <- MCDollar
    LabelSlot <- MCLabelSlot
    BadParts = {"bad"}
    BadLabels = {"bad"}
    BadValues = {"bad"}
    MaxMetricWrites = 1
    DiffPairs <- MCDiffPairs
    Replacements <- MCReplacements
    JunkSets = {{}, {"x"}}
    AutoJunkLen = 6
    AutoJunkPart = 6
    Contexts = {0, 1}
    MaxDiffCalls = 3
    o1 = o1
    o2 = o2
    w1 = w1
    Observers = {o1, o2}
    Writers = {w1}
    Nil = Nil
    BufCap = 2
    AgeBuckets = 2
    StreamDuration = 1
    MaxObservations = 3
    MaxWrites = 2
    MaxTime = 4
    Updaters = {1, 2}
    OutputSetups <- MCOutputSetups
    NaNValue = 999
    LogOf <- MCLogOf
    NegInf = 7777
    PosInf = 1000000
    NaNLog = 5555
    DefaultTTL = 1
    CellUsers = {1, 2}
    CellReaders = {1}
    CellSetups <- MCCellSetups
    MaxCellReads = 2
    VarNames <- MCVarNames
    ValueLists <- MCValueLists
    LabelMaps <- MCLabelMaps
    AllHashes = {1, 2}
    NotUTF8 = {"bad"}
    ConstrainTo <- MCConstrainTo
    VecHash <- MCVecHash
    MaxVecMetrics = 2
    MaxVecViews = 3
    MergeModes = {"merge", "multi", "filter"}
    Gatherings <- MCGatherings
    KeptNames = {"a", "b"}
    NameOrder <- MCNameOrder
    MagicNames <- MCMagicNames
    WrongMetrics = {9}
INVARIANTS
    NothingLeft
    ScrapesHonest
    ReportedAsSent
    WritesAccounted
    ClientsHonest
    DescriptorsHold
    DiffTransforms
    WriteExact
    Window
    MetricsWritten
PROPERTIES
    PushIsKept
    AllReturn
CHECK_DEADLOCK FALSE
