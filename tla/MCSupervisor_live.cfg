SPECIFICATION FairSpec
CONSTANTS
    Presets = {p1}
    Handles = {h1}
    Pids = {q1, q2}
    NoPreset = nopreset
    NoHandle = nohandle
    NoPid = nopid
    MaxAttempts = 2
    Events = {"crash", "exit", "external", "denied", "reexec", "overlap"}
PROPERTIES
    CrashIsAnswered
