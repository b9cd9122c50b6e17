SPECIFICATION AccessSpec
CONSTANTS
    Emails = {e1, e2}
    Subjects = {s1, s2, s3}
    Bootstrap = {e1}
    Callers = {t1, t2}
    Roles = {"researcher", "admin"}
    Statuses = {"active", "suspended"}
    Crashes = 1
SYMMETRY Symmetry
PROPERTY SubjectFixed
PROPERTY AdminLostOnlyByStale
