SPECIFICATION FairSpec
CONSTANTS
    NumClusters = 1
    Clients <- MCClients
    MaxStarts = 2
    StartLimit <- MCPairLimit
    MaxInFlight = 1
INVARIANTS
    ReplicaAgreement
    FailoverDetected
PROPERTIES
    LiveMasterActive
    ClientsFailOver
CHECK_DEADLOCK FALSE
