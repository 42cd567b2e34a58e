CONSTANTS
    r1 = r1
    r2 = r2
    alice = alice
    Requests = {r1, r2}
    Agents = {alice}
    AgentOf <- OneAgent
    Pending <- OnePending
    MaxConcurrent = 1
    MaxStarts = 2
    MaxSpawns = 2
    CanCrash = TRUE
SPECIFICATION Spec
INVARIANTS
    TypeOK
    DaemonIsManaged
    DrainedIsQuiet
    ProcessesAccountedFor
    OneRestorePerDirectory
PROPERTIES
    NothingStartsAfterStop
