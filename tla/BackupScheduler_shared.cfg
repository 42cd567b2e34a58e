CONSTANTS
    gateway = gateway
    cli = cli
    c1 = c1
    c2 = c2
    Procs = {gateway, cli}
    Calls = {c1, c2}
    ProcOf <- TwoProcesses
    Patchers = {"tool"}
    AutoBackupEnabled = FALSE
    MaxIncrementalChain = 1
    Interval = 1
    DelayCap = 3
    HasBackup = TRUE
    MaxManifests = 3
    MaxFailures = 0
SPECIFICATION Spec
PROPERTY ImplementsLedger
INVARIANTS
    ChainBounded
SYMMETRY Symmetry
VIEW WithoutAcked
