SPECIFICATION FairSpec
CONSTANTS
    ann = ann
    rex = rex
    Clusters = {1, 2}
    Users <- MCUsers
    HomeOf <- MCHomeOf
    Follows <- MCRexAnn
    Authors <- MCAnn
    MaxStarts <- MCOnce
    MaySwitch <- MCFirst
INVARIANT
    PostsToFollowers
PROPERTIES
    
    PostArrives
CHECK_DEADLOCK FALSE
