SPECIFICATION ServicesSpec
CONSTANTS
    UserBlocks <- UserSet
    AssistantBlocks <- AssistantSet
    EditLists <- EditSet
    NameOf <- ToolName
    Lower <- LowerNames
    Declared = {"read"}
    MaxRequests = 2
    MaxTalk = 5
    BreachCost = 2
    Session = {"s1", "s2"}
    Model = {"m1"}
    Prints <- PrintSet
    Observer = {"o1", "o2"}
    MaxClock = 2
    Ttls = {1, 2}
    Caps = {0, 2}
    MaxRecords = 1
    TrimEvery = 2
    MaxBegun = 3
    MaxOpen = 2
    MaxLogFaults = 1
    Thread = {"r1", "r2"}
    MaxAccounts = 2
    MaxRotations = 1
    Setting = {"mode", "capRatio", "floorRatio", "simTtl"}
    Unconditional = {"simTtl"}
    Call = {"c1", "c2"}
    Wishes <- WishSet
    MaxCalls = 3
    MaxFileFaults = 2
    Key = {"k1", "k2"}
    ConfigKey = "k1"
    Group = {1}
    Credential = {1}
    Handler = {"h1", "h2"}
    MaxKeyOps = 4
INVARIANTS
    ServicesTypeOK
    TurnsWellFormed
    ToolsPaired
    EditKeepsQuestion
    HitCoversLastTurn
    LogBounded
    AnsweredIsLogged
    DemandNotRefused
    SettingSurvivesRefresh
    BalanceOfLive
    SettingsFollowFile
    RevokedKeyRefused
    NoLockout
    StaysInGroup
PROPERTY
    RecentSessionsHit
CHECK_DEADLOCK FALSE
