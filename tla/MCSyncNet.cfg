SPECIFICATION Spec
CONSTANTS
    ann = ann
    rex = rex
    Clusters = {1, 2}
    Users <- MCUsers
    HomeOf <- MCHomeOf
    Follows <- MCRexAnn
    Authors <- MCNobody
    MaxStarts <- MCTwice
    MaySwitch <- MCNobody
INVARIANTS
    TypeOK
    EchoesJustified
    LossBounded
    FollowerEntered
CHECK_DEADLOCK FALSE
