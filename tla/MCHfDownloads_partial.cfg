SPECIFICATION Spec
CONSTANTS
    Jobs = {j1, j2}
    Files = {f1, f2}
    Dirs = {d1}
    Streams = {s1}
    NoJob = nojob
    NoStream = nostream
    Limits = {2}
    Events = {}
PROPERTIES
    PartialSurvives
