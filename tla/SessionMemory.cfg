CONSTANTS
    s1 = s1
    s2 = s2
    m1 = m1
    m2 = m2
    t1 = t1
    e1 = e1
    e2 = e2
    Sessions = {s1, s2}
    MadeUp = {m1, m2}
    Kinds = {"user", "tool"}
    Texts = {t1}
    Ends = {e1, e2}
    Mode = "openclaw"
    FallbackOnError = FALSE
    Window = 1
    MaxObservations = 2
    SearchLimit = 2
    MaxSummaries = 1
    TokenBudget = 3
    SnapshotObservations = 3
    SnapshotSummaries = 1
    SnapshotBudget = 3
    MaxRows = 3
    MaxSeconds = 1
    MaxEvents = 2
SPECIFICATION Spec
SYMMETRY Symmetry
VIEW MemoryView
INVARIANTS
    TypeOK
    ContextIsSound
    SummaryNeverGoesBack
    RightSession
CHECK_DEADLOCK FALSE
CONSTRAINT Followed
