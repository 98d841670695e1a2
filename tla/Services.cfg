INIT Init
NEXT Next
CHECK_DEADLOCK FALSE
INVARIANTS
    ServicesTypeOK
    OutcomesAnswerTheirCalls
    ClientsAreAccountedFor
    LiveIsRecent
    ProfileIsOfOneSave
    SavedNamesAreStale
    WindowsAreBounded
    NoFailingFlatWins
    ClearLead
    RanksFollowFit
    OnlyThePastCounts
    HighNeedsCloseSales
    LeaseFollowsItsBlock
    ModelNotOlderThanMetadata
    CorridorsAreDistinctRoads
    EveryStationOnce
    AnswersMatchTheRows
    TransitScoreHasEvidence
    DrivingScoreHasEvidence
    EntriesCoverTheRoad
    OverlapIsMutual
CONSTANTS
    t1 = t1
    t2 = t2
    t3 = t3
    Trips = {t1, t2, t3}
    Slot <- MCSlot
    CallLists <- MCCallLists
    RouteWorkers = 2
    MaxBatches = 2
    Failed = Failed
    Nothing = Nothing
    ParkingRuns = {r1}
    CacheTtl = 2
    StaleAfter = 3
    LastTick = 7
    Savers = {s1, s2}
    MaxProfileSaves = 3
    Plain = Plain
    Unnamed = Unnamed
    Addresses = {a1, a2}
    MaxRequests = 2
    Window = 3
    LastSecond = 9
    Pasters = {p1, p2}
    MaxBrowsers = 1
    BrowserEnabled = TRUE
    MaxRedirects = 1
    Extractions <- MCExtractions
    SubtypeTable <- MCSubtypeTable
    NoValue = NoValue
    Valuers = {v1, v2}
    LastSnapshot = 3
    MaxServerStarts = 2
    BlockSales <- MCBlockSales
    Dwellings <- MCDwellings
    AsOfMonth <- MCAsOf
    MaxEstimates = 2
    NotKnown = NotKnown
    Ledgers <- MCLedgers
    Subjects <- MCSubjects
    Forecasts <- MCForecasts
    Unstated = Unstated
    Shortlists <- MCShortlists
    Profiles <- MCProfiles
    BusNetworks <- MCBusNetworks
    Surroundings <- MCSurroundings
    NoTimetable = NoTimetable
    RailGraphs <- MCRailGraphs
    EntryLists <- MCEntryLists
    NoRoute = NoRoute
    Places <- MCPlaces
    WalkAnswers <- MCWalkAnswers
    FeederAnswers <- MCFeederAnswers
    MaxFeederPairs = 3
    CallFailed = CallFailed
    Entrances <- MCEntrances
    SummaryMinutes = {5, 9}
    DetailAnswers <- MCDetailAnswers
    Alternatives <- MCAlternatives
    OffPeakMinutes = {4, 20}
    Parkings <- MCParkings
    ParkingWalks = {2, 13}
    MaxSummaries = 3
    MaxDetails = 2
    DriveCallFailed = DriveCallFailed
    Unrecorded = Unrecorded
    Surveys <- MCSurveys
    SearchRadius = 100
    MaxEntries = 2
    RoadLimit = 2
    SafetyRadius = 15000
    DriveGraph <- MCDriveGraph
    DrivePairs <- MCDrivePairs
    FollowHops = 2
    MaxCandidates = 2
