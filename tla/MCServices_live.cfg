SPECIFICATION Spec
CONSTANTS
    Builds = {u1, u2}
    NoBuild = none
    Backends = {"cpu"}
    LastCommit = 2
    BuildEvents = {"fail", "restart"}
    Scanners = {t1, t2}
    NoScanner = none
    MaxScans = 1
    ScanEvents = {"user", "fail"}
    Benches = {b1, b2, b3}
    NoBench = none
    BenchEvents = {}
    Trials = {a1}
    UserBenches = {b1}
    Guides = {g1, g2}
    Singles = {s}
    Routers = {r}
    RouterModels = {m1}
    Process = process
    FailThreshold = 2
    MaxRestarts = 1
    RestartWindow = 2
    RpcNames = {n1}
    RpcStarts = {p1}
    NoStart = none
    RpcEvents = {}
    Calls = {c1, c2}
CHECK_DEADLOCK FALSE
PROPERTIES
    LeaseIsGivenBack
    ServicesSettle
