SPECIFICATION Spec
CONSTANTS
    Presets = {p1, p2}
    Handles = {h1, h2}
    Pids = {q1, q2}
    NoPreset = nopreset
    NoHandle = nohandle
    NoPid = nopid
    MaxAttempts = 1
    Events = {"crash", "exit", "external", "denied", "rebind", "reexec"}
SYMMETRY Symmetry
VIEW Reduced
INVARIANTS
    TypeOK
    NoStray
PROPERTIES
    StopSticks
    ImplementsUpkeep
