\* Side by side: the quota, with two days, more calls than the limit, two at once and
\* every fault; the browser and the daily loops; texts, their chunks and cards.
SPECIFICATION PartsSpec
CONSTANTS
    Calls = {c1, c2, c3, c4}
    Limit = 2
    MaxInFlight = 2
    MaxDay = 2
    MaxSends = 2
    Faults = {"read", "record", "crash"}
    r1 = r1
    r2 = r2
    sched = sched
    server = server
    None = None
    Never = Never
    complaint = complaint
    policy = policy
    contest = contest
    Renderers = {r1, r2, sched}
    Scheduler = sched
    Server = server
    MaxLaunches = 5
    MaxFaults = 3
    Others = {complaint, contest}
    Policy = policy
    Hour <- MCHour
    IntervalDays = 3
    LookbackDays = 3
    Behind = 0
    FirstDay = 5
    LastDay = 13
    MaxTroubles = 2
    dust = dust
    leak = leak
    lamp = lamp
    pipe = pipe
    blank = blank
    road = road
    water = water
    Missing = Missing
    Common = common
    Curated = {road, water, common}
    Corpora <- MCCorpora
    Pieces <- MCPieces
    Blank = {blank}
    BatchSize = 2
    Workers = {1, 2}
    MaxPending = 2
    MaxRuns = 2
    MaxLoadFaults = 2
    TopK = 5
    RerankTopK = 2
    MaxText = 6
    Texts <- MCTexts
    Sizes = {2, 3, 4}
    t1 = t1
    t2 = t2
    Transforms = {t1, t2}
    CardSetups <- AllCardSetups
    SlideAnswers <- MCAnswers
    ImageModels = 2
    Attempts = 2
    MaxCardFaults = 2
    Nothing = Nothing
    Cards <- MCCards
    ContestCards <- MCContestCards
INVARIANTS
    OvershootIsBounded
    OneChromiumAtMost SteadySyncsAskForEveryDay
    LoadedOnce VectorsAreWhole ChunksKeepTheText DepartmentIsBorneOut
    DeckKeepsItsEnds RowShowsItsDeck CardPartsStayApart MascotStandsClear
PROPERTIES ImplementsDailyQuota BrowserInUseStays
