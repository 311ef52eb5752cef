CONSTANTS
    Threads = {t1, t2, t3}
    NoThread = NoThread
    MaxIssued = 3
    MaxLost = 2
    MaxCalls = 4
    InKeyOrder <- MCInKeyOrder
    Lists <- MCLists
    Supplies <- MCSupplies
    MostKeys = 2
    MostRounds = 2
    FetchWrites = 2
    Configs <- MCConfigs
    Deadlines = {"t1", "t2"}
    Default = "ten"
    Formats = {"json", "toml"}
    MaxRotations = 1
    Marker = "M"
    Alphabet = {"A"}
    Punctuation = {"."}
    MostSymbols = 6
    Revisions = {"r1"}
    Secrets <- MCSecrets
    Durations = {0, 2}
    Lifetimes = {1, 3}
    Skews <- MCSkews
    MaxTime = 3
    MaxMinted = 2
    MaxRenewals = 1
SPECIFICATION MCSpec
INVARIANT ServerSettingsAreApplied
CHECK_DEADLOCK FALSE
