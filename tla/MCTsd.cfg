SPECIFICATION FairSpec
CONSTANTS
    ann = ann
    bob = bob
    c1 = c1
    c2 = c2
    Users <- MCUsers
    Clients <- MCClients
    OwnerOf <- MCOwnEach
    MaxCalls = 5
    MaxPosts = 1
    MaxRestarts = 1
INVARIANTS
    TypeOK
    Mirror
    ReplayAgrees
    CarefulUsersSafe
    FilesJustified
PROPERTIES
    GraphSpec
    
CHECK_DEADLOCK FALSE
