SPECIFICATION Spec
CONSTANTS
    ann = ann
    bob = bob
    c1 = c1
    c2 = c2
    Users <- MCUsers
    Clients <- MCClients
    OwnerOf <- MCOneOwner
    MaxCalls = 2
    MaxPosts = 0
    MaxRestarts = 0
INVARIANT
    UniqueLogin
CHECK_DEADLOCK FALSE
