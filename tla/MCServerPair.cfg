SPECIFICATION FairSpec
CONSTANTS
    ann = ann
    rex = rex
    Local <- MCLocal
    Remote <- MCRemote
    MaxCalls = 2
    MaxRestarts = 1
INVARIANTS
    TypeOK
    RestartAgrees
    ReplaySafe
    SlaveCoversMaster
PROPERTIES
    RemoteUsersArrive
CHECK_DEADLOCK FALSE
