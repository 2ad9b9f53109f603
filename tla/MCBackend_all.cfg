SPECIFICATION BackendSpec
CONSTANTS
    Builds = {u1, u2}
    NoBuild = none
    Backends = {"cpu", "cuda"}
    LastCommit = 2
    BuildEvents = {"fail", "ninja", "clone", "restart"}
    Scanners = {t1, t2}
    NoScanner = none
    MaxScans = 2
    ScanEvents = {"user", "fail"}
    Benches = {b1, b2, b3}
    NoBench = none
    BenchEvents = {"restart", "fail"}
    Trials = {a1}
    UserBenches = {b1}
    Guides = {g1, g2}
    Singles = {s}
    Routers = {r}
    RouterModels = {m1, m2}
    Process = process
    FailThreshold = 2
    MaxRestarts = 2
    RestartWindow = 4
    RpcNames = {n1, n2}
    RpcStarts = {p1, p2}
    NoStart = none
    RpcEvents = {"edit", "external", "die"}
    Calls = {c1, c2}
    SlotIds = {k1}
    MaxTasks = 2
    MaxTokens = 1
    MaxPolls = 4
    RecentMax = 2
    QueueMax = 1
    GraceFrames = 2
    FitModels <- MCFitModels
    FitPresets <- MCFitPresets
    Machines <- MCMachines
    Corrections <- MCCorrections
    Cards = {"gtx", "rtx", "rx"}
    VendorOf <- MCVendorOf
    Servers = {"x", "y", "z"}
    Strangers = {"o"}
    PinOf <- MCPinOf
    Footprint <- MCFootprint
    Guesses <- MCGuesses
    Foreign <- MCForeign
    Capacity <- MCCapacity
    Readable = {{}, {"nvidia"}, {"nvidia", "amd"}}
    Unmapped = {{}, {"nvidia"}, {"amd"}}
    Blind = {{}, {"rx"}}
    Vendors = {"nvidia", "amd"}
    OldVendor = "nvidia"
    NoVendor = "any"
    Runs <- MCRuns
    Excess <- MCExcess
    Formulas = {1, 6, 8}
    MaxOffset = 4
    CalibEvents = {"restart", "fail"}
    Files = {f1}
    Projectors = {j1, j2}
    NoProjector = none
    Rescans = {s1, s2}
    DiskChanges = 3
    Names = {"n", "d"}
    Models = {"d/a", "e"}
    Loose = {"d/a", "d/b"}
    ModelId <- MCModelId
    Values = {v1}
    Unset = none
    LineTokens <- MCTokens
    Typed <- MCTyped
    Edits <- MCEdits
    RouterPresets = {"a", "b"}
    Seed = "a"
    WithPath = {"a"}
    MaxEdition = 3
CHECK_DEADLOCK FALSE
INVARIANTS
    ServicesTypeOK
    BuildsAreSound
    ScansAreTrue
    BenchesAreHonest
    WatchdogSpares
    RoutersComeBack
    VerdictsHold
    NothingCountsTwice
    CorrectionsAreKept
    RegistryIsKept
    StoresAgree
    RpcIsKept
