CONSTANTS
    Paths <- ThreePaths
    RecoveryFile = "RECOVERY_CONTEXT.md"
    ContextFile = "context-snapshot.json"
    Encrypted = {"main.sqlite"}
    Databases = {"main.sqlite"}
    Contents = {1, 2}
    Keys = {"k1"}
    MyKeys = {"k1"}
    HasSqlite3 = TRUE
    Registering = TRUE
    MaxRuns = 2
    MaxEdits = 2
    MaxRestores = 1
ACTION_CONSTRAINTS
    OwnerWaits
    NoteIsOnlyDeleted
VIEW RestoreView
SPECIFICATION FirstContentSpec
INVARIANTS
    TypeOK
    VerifiedIsOneBackup
    CleanRestoreVerifies
    SkippedIsSaved
CHECK_DEADLOCK FALSE
