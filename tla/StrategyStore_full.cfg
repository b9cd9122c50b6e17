SPECIFICATION Spec
CONSTANTS
    Ids = {i1, i2}
    Names = {n1, n2}
    Parameters = {p1}
    Threads = {t1, t2}
    MaxDepth = 3
    MaxVersions = 2
    MaxChildren = 1
    MaxRuns = 1
SYMMETRY Symmetry
INVARIANT ReferencesResolve
INVARIANT TreesBounded
PROPERTY ArchivedFrozen
