CONSTANTS
    gateway = gateway
    cli = cli
    c1 = c1
    c2 = c2
    Procs = {gateway}
    Calls = {c1, c2}
    ProcOf <- OneProcess
    Patchers = {}
    AutoBackupEnabled = TRUE
    MaxIncrementalChain = 1
    Interval = 1
    DelayCap = 3
    HasBackup = FALSE
    MaxManifests = 2
    MaxFailures = 0
SPECIFICATION FairSpec
INVARIANTS
    TypeOK
    OneBackupAtATime
    ParentsAnchored
    DurableHeadsAnchored
    CompletedIsDurable
PROPERTIES
    RunningIsReleased
    TimerRearmed
