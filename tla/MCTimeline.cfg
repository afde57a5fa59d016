SPECIFICATION FairSpec
CONSTANTS
    ann = ann
    bob = bob
    rex = rex
    a1 = a1
    x1 = x1
    Local <- MCLocal
    Posts <- MCPosts
    AuthorOf <- MCAuthorOf
    FollowersOf <- MCFollowers
    MaxRuns <- MCBobTwice
    MaxRestarts <- MCMaster
INVARIANTS
    TypeOK
    SlaveCovers
    ShownToFollowers
PROPERTIES
    LineDisplayed
    PostRecorded
CHECK_DEADLOCK FALSE
