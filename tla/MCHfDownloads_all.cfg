SPECIFICATION FairSpec
CONSTANTS
    Jobs = {j1, j2}
    Files = {f1, f2}
    Dirs = {d1}
    Streams = {s1}
    NoJob = nojob
    NoStream = nostream
    Limits = {1, 2}
    Events = {"error", "restart"}
INVARIANTS
    TypeOK
    OneWriter
    NoLimbo
PROPERTIES
    RestartKeepsOutcomes
    PauseTakesEffect
    StreamEnds
