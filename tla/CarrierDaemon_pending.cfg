CONSTANTS
    r1 = r1
    r2 = r2
    alice = alice
    Requests = {r1, r2}
    Agents = {alice}
    AgentOf <- OneAgent
    Pending <- BothPending
    MaxConcurrent = 1
    MaxStarts = 1
    MaxSpawns = 1
    CanCrash = FALSE
SPECIFICATION FairSpec
PROPERTIES
    PendingAreTried
