SPECIFICATION Spec
CONSTANTS
    NumClusters = 1
    Clients <- MCClients
    MaxStarts = 2
    StartLimit <- MCOnce
    MaxInFlight = 1
INVARIANT
    MasterForwards
CHECK_DEADLOCK FALSE
