\* A revoked VPN whose run is shown as started: one start and one revocation.
CONSTANTS
    Dials = {}
    ConfigDials = {}
    MaxStarts = 0
    MaxJobs = 2
    MaxUpdates = 0
    None = None
SPECIFICATION RSpec
INVARIANTS
    ShownIsThere
