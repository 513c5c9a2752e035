CONSTANTS
    Runs = {m1, m2, a1}
    Autos = {a1}
    Geo = {mmdb}
    Provider = {p1}
    None = None
    Sweeps = {s1, s2}
    MaxWrites = 2
SPECIFICATION FSpec
INVARIANTS
    ClaimHasHolder
    ShownSettles
    ForeignIsOwed
PROPERTIES
    LockPerResource
SYMMETRY Alike
