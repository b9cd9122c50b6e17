SPECIFICATION Spec
CONSTANTS
    r1 = r1
    r2 = r2
    t1 = t1
    t2 = t2
    Runtimes = {r1, r2}
    Threads = {t1, t2}
    MaxDecisions = 1
    MaxArms = 2
INVARIANTS SharedArmBacked OneAutoEntry
PROPERTY SubmitsUnderConsent
SYMMETRY Symmetry
