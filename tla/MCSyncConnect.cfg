SPECIFICATION FairSpec
CONSTANTS
    NumClusters = 2
    Clients <- MCNoClients
    MaxStarts = 2
    StartLimit <- MCSyncLimit
    MaxInFlight = 1
INVARIANTS
    TypeOK
    
    ConnectAfterAllRegistered
PROPERTIES
    SyncsConnect
CHECK_DEADLOCK FALSE
