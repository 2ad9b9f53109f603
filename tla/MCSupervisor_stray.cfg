SPECIFICATION Spec
CONSTANTS
    Presets = {p1}
    Handles = {h1, h2}
    Pids = {q1, q2}
    NoPreset = nopreset
    NoHandle = nohandle
    NoPid = nopid
    MaxAttempts = 1
    Events = {"rebind", "overlap"}
INVARIANTS
    NoStray
