CONSTANTS
    Dials = {d1, d2}
    ConfigDials = {d2}
    MaxStarts = 2
    MaxJobs = 3
    MaxUpdates = 3
    None = None
SPECIFICATION FairSpec
INVARIANTS
    NoSocketLoops
    NoCallAfterClose
    SettledAgrees
PROPERTIES
    CallsEnd
    StopsEnd
