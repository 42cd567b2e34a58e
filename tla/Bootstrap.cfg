CONSTANTS
    gateway = gateway
    cli = cli
    Names = {"dev-1", "other"}
    Dirs = {"dev-1", "other"}
    NoDir = NoDir
    Ports = {8545, 8546}
    DefaultPort = 8545
    DevNode = "dev-1"
    Clients = {gateway, cli}
    Services <- OneService
    Pids = {1, 2}
    Contracts = {"soul_registry", "did_registry"}
    MaxKeys = 2
    MaxOps = 3
    MaxChains = 2
    MaxOperatorKeys = 2
SPECIFICATION Spec
SYMMETRY Symmetry
VIEW NodesView
CONSTRAINT Followed
INVARIANTS
    TypeOK
    
    ConfigNamesKey
    HardhatIsTracked
    OperatorKeyIsKept
PROPERTIES
    KeyIsKept
CHECK_DEADLOCK FALSE
